------------------------------- MODULE UpdateTask ------------------------------
(***************************************************************************)
(* What one update_qube call promises to the batch, without the qube, the  *)
(* commands run in it, or the status queue: it settles with a code after   *)
(* it reported at least one final status, it is cancelled only on request  *)
(* and before the agent ran, and after an exception it says "error" and    *)
(* settles with the unhandled code, whatever it reported before.           *)
(***************************************************************************)
EXTENDS ExitCodes

CONSTANTS TransferCodes, EntryCodes, MayRaise

VARIABLES place,   \* "waiting", "open", "reported", "failed" or "settled"
          status,  \* the status the task reports
          code,    \* the code it settles with
          exit,    \* how the agent exited, OK before
          stop     \* the user asked to stop

vars == <<place, status, code, exit, stop>>

Init ==
  /\ place = "waiting" /\ status = "error" /\ code = OK /\ exit = OK
  /\ stop = FALSE

RequestStop == stop' = TRUE /\ UNCHANGED <<place, status, code, exit>>

Cancelled == /\ stop
             /\ exit = OK
             /\ status' = "cancelled" /\ code' = SIGINT
             /\ UNCHANGED <<exit, stop>>

Skip == place = "waiting" /\ place' = "settled" /\ Cancelled

Open == place = "waiting" /\ place' = "open" /\ UNCHANGED <<status, code, exit, stop>>

Cancel == place = "open" /\ UNCHANGED place /\ Cancelled

Transfer(t) ==
  /\ place = "open" /\ exit = OK
  /\ code' = t
  /\ UNCHANGED <<place, status, exit, stop>>

Run(e) ==
  /\ place = "open" /\ exit = OK /\ status = "error"
  /\ exit' = e
  /\ status' = EntryStatus(e)
  /\ code' = MaxOf(code, EntryCode(e))
  /\ UNCHANGED <<place, stop>>

Report == place = "open" /\ place' = "reported" /\ UNCHANGED <<status, code, exit, stop>>

Settle == place = "reported" /\ place' = "settled" /\ UNCHANGED <<status, code, exit, stop>>

Fail ==
  /\ MayRaise
  /\ place \in {"open", "reported"}
  /\ place' = "failed"
  /\ UNCHANGED <<status, code, exit, stop>>

SettleFailed ==
  /\ place = "failed" /\ place' = "settled"
  /\ status' = "error" /\ code' = ERR_VM_UNHANDLED
  /\ UNCHANGED <<exit, stop>>

Next ==
  \/ RequestStop \/ Skip \/ Open \/ Cancel \/ Report \/ Settle \/ Fail \/ SettleFailed
  \/ \E t \in TransferCodes : Transfer(t)
  \/ \E e \in EntryCodes : Run(e)

Spec == Init /\ [][Next]_vars
================================================================================
