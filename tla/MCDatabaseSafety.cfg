SPECIFICATION Spec
CONSTANTS
    d1 = d1
    d2 = d2
    o1 = o1
    Names = {d1, d2}
    Owners = {o1}
    NoOwner = NoOwner
    Admin = Admin
    Absent = Absent
    MaxEdits = 3
    MaxFaults = 1
    MaxDrift = 0
SYMMETRY Symmetry
INVARIANTS
    TypeOK
    CreatedHasFinalizer
    ReadyIsTruthful
PROPERTIES
    DropOnlyIfAsked
    NeverDropLive
    FinalizedMeansDropped
    ImplementsLifecycle
CHECK_DEADLOCK FALSE
