SPECIFICATION FairSpec
CONSTANTS
    r1 = r1  r2 = r2  d1 = d1  u1 = u1
    Runs = {r1, r2}
    ModelRuns = {}
    Dispatchers = {d1}
    Users = {u1}
    NoOne = NoOne
    MaxActive = 2
    MaxCrashes = 1
CHECK_DEADLOCK FALSE
PROPERTIES
    EveryRunProceeds
