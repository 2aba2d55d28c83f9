SPECIFICATION FairSpec
CONSTANTS
    j1 = j1  j2 = j2  j3 = j3  u1 = u1  u2 = u2  d1 = d1  d2 = d2
    Jobs = {j1, j2, j3}
    Owners = {u1, u2}
    OwnerOf <- TwoOwners
    Dispatchers = {d1}
    NoOne = NoOne
    MaxActive = 1
    MaxCrashes = 2
INVARIANTS
    OneAuditedOutcome
PROPERTIES
    ImplementsLifecycle
    EveryReportEnds
