SPECIFICATION FairSpec
CONSTANTS
    dev = dev
    app = app
    n1 = n1
    o1 = o1
    s1 = s1
    s2 = s2
    Databases = {dev, app}
    Default = dev
    Names = {n1, Public}
    Public = Public
    Specs <- SomeSpecs
    Annotations <- DropOrNot
    Owners = {o1}
    NoOwner = NoOwner
    Admin = Admin
    Absent = Absent
    Sessions = {s1, s2}
    MaxStrays = 1
    MaxEdits = 2
    MaxFaults = 1
INVARIANTS
    TypeOK
    CreatedHasFinalizer
    ReadyIsTruthful
    PublicStays
PROPERTIES
    FinalizedMeansDropped
    ImplementsLifecycle
    EventuallyConverged
CHECK_DEADLOCK FALSE
