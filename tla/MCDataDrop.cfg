SPECIFICATION Spec
CONSTANTS
    f1 = f1  f2 = f2  c1 = c1  c2 = c2  c3 = c3  a1 = a1  a2 = a2
    good = good  bad1 = bad1  bad2 = bad2  s1 = s1  s2 = s2
    Files = {f1, f2}
    Contents = {c1, c2, c3}
    Parseable = {c1, c2}
    Owners = {a1, a2}
    Agents = {a1, a2}
    Mappings = {good, bad1, bad2}
    Verdict <- GoodOrBad
    Sessions = {s1, s2}
    None = None
    MaxHistory = 14
    MaxUploads = 4
SYMMETRY DropSymmetry
CHECK_DEADLOCK FALSE
INVARIANTS
    TypeOK
    OneOriginal
    Backed
    ImportedValid
    VersionsNumbered
    AcknowledgedIsStored
