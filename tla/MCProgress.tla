------------------------------- MODULE MCProgress -------------------------------
(***************************************************************************)
(* Progress for TLC: the lines other programs print to stderr.             *)
(***************************************************************************)
EXTENDS Progress

Words == {Text, Blank}
================================================================================
