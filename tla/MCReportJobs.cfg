SPECIFICATION Spec
CONSTANTS
    j1 = j1  j2 = j2  j3 = j3  u1 = u1  u2 = u2  d1 = d1  d2 = d2
    Jobs = {j1, j2}
    Owners = {u1}
    OwnerOf <- OneOwner
    Dispatchers = {d1, d2}
    NoOne = NoOne
    MaxActive = 1
    MaxCrashes = 1
SYMMETRY DispatcherSymmetry
INVARIANTS
    TypeOK
    SucceededIsBacked
    DeliveredUnaltered
    QuotaHeld
PROPERTIES
    ExpiredCannotPublish
