SPECIFICATION Spec
CONSTANTS
    dev = dev
    app = app
    n1 = n1
    o1 = o1
    s1 = s1
    s2 = s2
    Databases = {dev, app}
    Default = dev
    Names = {n1, Public}
    Public = Public
    Specs <- TwoDatabases
    Annotations <- Policies
    Owners = {o1}
    NoOwner = NoOwner
    Admin = Admin
    Absent = Absent
    Sessions = {s1, s2}
    MaxStrays = 2
    MaxEdits = 3
    MaxFaults = 0
PROPERTIES
    DropsInDatabase
CHECK_DEADLOCK FALSE
