SPECIFICATION Spec
CONSTANTS
    u1 = u1
    createdb = createdb
    p1 = p1
    p2 = p2
    p3 = p3
    p4 = p4
    Names = {u1}
    Permissions = {createdb}
    Specs <- OwnOrGiven
    Annotations <- RotateOrNot
    Passwords = {p1, p2, p3}
    Given = Given
    None = None
    Absent = Absent
    MaxRotations = 1
    MaxStale = 1
    MaxEdits = 3
    MaxFaults = 0
    MaxDrift = 1
SYMMETRY Symmetry
INVARIANTS
    TypeOK
    CreatedHasFinalizer
    ReadyIsTruthful
    RotationReachesBoth
PROPERTIES
    NeverDropLive
    ImplementsLifecycle
CHECK_DEADLOCK FALSE
