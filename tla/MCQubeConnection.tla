---------------------------- MODULE MCQubeConnection ---------------------------
(***************************************************************************)
(* QubeConnection on small instances for TLC.                              *)
(***************************************************************************)
EXTENDS QubeConnection

\* Updated, nothing to update, a failure, and an agent killed by a signal.
MCEntryCodes == {OK, OK_NO_UPDATES, ERR_VM_UPDATE, -9}
================================================================================
