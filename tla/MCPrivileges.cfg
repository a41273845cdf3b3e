SPECIFICATION FairSpec
CONSTANTS
    dev = dev
    app = app
    s1 = s1
    t1 = t1
    t2 = t2
    c1 = c1
    Databases = {dev}
    Default = dev
    Schemas = {s1}
    Kinds = {"TABLE"}
    Names = {t1, t2}
    Letters = {"r", "a", "U", "c", "T"}
    NoDatabase = NoDatabase
    NoGrants = NoGrants
    Later <- CreatedLater
    Sessions = {c1}
    GrantSpecs <- SomeGrants
    MaxEdits = 2
    MaxFaults = 1
    MaxDrift = 1
INVARIANTS
    TypeOK
PROPERTIES
    CompleteMeansGranted
    StepsTowardsSpec
    EventuallySynced
    EventuallyQuiet
CHECK_DEADLOCK FALSE
