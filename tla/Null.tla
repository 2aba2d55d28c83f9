--------------------------------- MODULE Null ---------------------------------
(* The value of an optional column that is not set, shared by all modules of  *)
(* the desk's services.                                                       *)
CONSTANT None
=============================================================================
