SPECIFICATION FairSpec
CONSTANTS
    u1 = u1
    createdb = createdb
    p1 = p1
    p2 = p2
    p3 = p3
    p4 = p4
    Names = {u1}
    Permissions = {createdb}
    Specs <- OneSpec
    Annotations <- RotateOrNot
    Passwords = {p1, p2, p3}
    Given = Given
    None = None
    Absent = Absent
    MaxRotations = 1
    MaxStale = 0
    MaxEdits = 2
    MaxFaults = 1
    MaxDrift = 0
PROPERTIES
    RotatedSecretHasPassword
CHECK_DEADLOCK FALSE
