------------------------------- MODULE MCAgent -------------------------------
(* The desktop agent alone, over two months: a file dropped twice.            *)
EXTENDS LocalAgent
=============================================================================
