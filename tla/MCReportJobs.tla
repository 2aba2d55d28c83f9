---------------------------- MODULE MCReportJobs ----------------------------
(***************************************************************************)
(* Instances of ReportJobs: one owner, or two owners with one report each. *)
(***************************************************************************)
EXTENDS ReportJobs, TLC

CONSTANTS j1, j2, j3, u1, u2

OneOwner == [j \in Jobs |-> u1]
TwoOwners == [j \in Jobs |-> IF j = j3 THEN u2 ELSE u1]
DispatcherSymmetry == Permutations(Dispatchers)
=============================================================================
