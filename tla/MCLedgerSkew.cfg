SPECIFICATION Spec
CONSTANTS
    t1 = t1  t2 = t2  t3 = t3  m1 = m1  m2 = m2  m3 = m3  ref = ref  w1 = w1  w2 = w2
    Txns = {t1, t2, t3}
    NoReference = NoReference
    NoTerms = NoTerms
    Kind <- SalesKind
    Offers <- SalesOffers
    Reference <- NoReferences
    Writers = {w1, w2}
    MaxVersion = 2
INVARIANT CommittedReplays
