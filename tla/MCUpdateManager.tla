----------------------------- MODULE MCUpdateManager ---------------------------
(***************************************************************************)
(* UpdateManager on small instances for TLC.                               *)
(***************************************************************************)
EXTENDS UpdateManager, TLC

\* The exit codes of an agent in dom0 that runs to its end or is killed.
KilledBySignal == {0, -9}

Symmetry == Permutations(Qubes)
================================================================================
