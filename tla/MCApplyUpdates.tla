----------------------------- MODULE MCApplyUpdates -----------------------------
(***************************************************************************)
(* ApplyUpdates for TLC: two templates with one derived qube each.         *)
(***************************************************************************)
EXTENDS ApplyUpdates, TLC

CONSTANTS t1, t2, a1, a2

MCBase == (a1 :> t1) @@ (a2 :> t2)
================================================================================
