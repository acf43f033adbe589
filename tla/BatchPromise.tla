------------------------------ MODULE BatchPromise ------------------------------
(***************************************************************************)
(* What UpdateManager.run returns, told from how its tasks ended: the code *)
(* and the dictionary of statuses main works with.  UpdateManager is       *)
(* proved to keep this promise, VmUpdate is built on it.                   *)
(***************************************************************************)
EXTENDS ExitCodes

\* How a task can end: its status and the code of its ProcessResult.
Ended == [status : FinalStatus, code : Nat]

\* An exception ended it (an agent can also exit with 26 by itself).
Excepted(e) == e.status = "error" /\ e.code = ERR_VM_UNHANDLED

\* The dictionary of statuses, "none" for a qube without an entry.  A dummy
\* bar reads no status; a task that spoke twice before an exception may keep
\* another one's word from being read, and have its own first word believed.
Reported(ended, dummy, report) ==
  IF dummy
  THEN \A q \in DOMAIN ended : report[q] = "none"
  ELSE \A q \in DOMAIN ended :
         \/ report[q] = ended[q].status
         \/ /\ \E p \in DOMAIN ended : Excepted(ended[p])
            /\ report[q] = "none" \/ Excepted(ended[q])

\* The code: SIGINT if the user interrupted the batch, otherwise the worst of
\* the qubes' handled codes.
Coded(ended, stopped, ret) ==
  IF stopped THEN ret = SIGINT
  ELSE /\ \A q \in DOMAIN ended :
            /\ ended[q].status # "cancelled"
            /\ VmCode(ended[q].code) <= ret
       /\ \/ ret \in {OK} \cup {VmCode(ended[q].code) : q \in DOMAIN ended}
          \/ ret = ERR /\ \E q \in DOMAIN ended : ended[q].status = "error"

Promised(ended, dummy, stopped, ret, report) ==
  Reported(ended, dummy, report) /\ Coded(ended, stopped, ret)
================================================================================
