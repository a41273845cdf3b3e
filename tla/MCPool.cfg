SPECIFICATION FairSpec
CONSTANTS
    r1 = r1
    r2 = r2
    k1 = k1
    h1 = h1
    h2 = h2
    h3 = h3
    Reconcilers = {r1, r2}
    Janitor = Janitor
    Keys = {k1}
    Handles = {h1, h2, h3}
    None = None
INVARIANTS
    TypeOK
    ClosedIsLeaving
    PrivateUntilStored
PROPERTIES
    ClosedHandlesLeave
    StaleHandlesLeave
