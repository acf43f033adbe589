-------------------------------- MODULE MCAgent --------------------------------
(***************************************************************************)
(* Agent for TLC: the codes a command can end with.                        *)
(***************************************************************************)
EXTENDS Agent

\* Success, a plain error, apt-get's error and dnf check-update's "updates
\* available", death by SIGKILL.
AllCodes == {0, 1, 100, -9}
Only100 == {0, 100}
================================================================================
