------------------------------ MODULE MCDom0Update ------------------------------
(***************************************************************************)
(* Dom0Update for TLC.  Packages are interchangeable, and so are users: a  *)
(* configuration that leaves out LockReleased, and with it liveness, can   *)
(* have more of them with this symmetry.                                   *)
(***************************************************************************)
EXTENDS Dom0Update, TLC

Symmetry == Permutations(Packages) \cup Permutations(Users)
================================================================================
