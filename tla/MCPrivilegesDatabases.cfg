SPECIFICATION FairSpec
CONSTANTS
    dev = dev
    app = app
    s1 = s1
    t1 = t1
    t2 = t2
    c1 = c1
    Databases = {dev, app}
    Default = dev
    Schemas = {s1}
    Kinds = {"TABLE"}
    Names = {t1}
    Letters = {"r", "a", "U", "c", "T"}
    NoDatabase = NoDatabase
    NoGrants = NoGrants
    Later = {}
    Sessions = {c1}
    GrantSpecs <- TwoDatabases
    MaxEdits = 1
    MaxFaults = 0
    MaxDrift = 0
PROPERTIES
    EventuallySynced
CHECK_DEADLOCK FALSE
