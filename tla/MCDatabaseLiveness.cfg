SPECIFICATION FairSpec
CONSTANTS
    d1 = d1
    d2 = d2
    o1 = o1
    Names = {d1}
    Owners = {o1}
    NoOwner = NoOwner
    Admin = Admin
    Absent = Absent
    MaxEdits = 2
    MaxFaults = 1
    MaxDrift = 1
CHECK_DEADLOCK FALSE
PROPERTIES
    EventuallyConverged
