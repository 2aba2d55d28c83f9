SPECIFICATION Spec
CONSTANTS
    r1 = r1  r2 = r2  d1 = d1  u1 = u1  u2 = u2
    Runs = {r1, r2}
    ModelRuns = {r1}
    Dispatchers = {d1}
    Users = {u1, u2}
    NoOne = NoOne
    MaxActive = 2
    MaxCrashes = 1
SYMMETRY UserSymmetry
CHECK_DEADLOCK FALSE
INVARIANTS
    TypeOK
    AtMostOneExecutor
    ResultMatchesStatus
    CancelledOnce
PROPERTIES
    HistoryKept
    OrphanOnlyCancelled
    ImplementsLifecycle
