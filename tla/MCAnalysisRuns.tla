--------------------------- MODULE MCAnalysisRuns ---------------------------
(***************************************************************************)
(* Two runs (one of them a model run), one dispatcher beside the launched  *)
(* processes, users that cancel, one crash of any process.  Users are      *)
(* interchangeable; the runs are not (one stores an artifact).             *)
(***************************************************************************)
EXTENDS AnalysisRuns, TLC

UserSymmetry == Permutations(Users)
=============================================================================
