----------------------------- MODULE MCDataDrop -----------------------------
(***************************************************************************)
(* A small inbox: two agents, two threads, two contents that can be parsed *)
(* and one that cannot, one mapping that validates and two that do not (a  *)
(* stale mapping is only sent when it differs).                            *)
(***************************************************************************)
EXTENDS DataDrop, TLC

CONSTANTS f1, f2, c1, c2, c3, a1, a2, good, bad1, bad2, s1, s2

GoodOrBad == [m \in Mappings |-> IF m = good THEN "VALIDATED" ELSE "VALIDATION_FAILED"]
DropSymmetry ==
    Permutations(Sessions) \cup Permutations(Files)
    \cup Permutations(Owners) \cup Permutations(Parseable)
    \cup Permutations(Mappings \ {good})
=============================================================================
