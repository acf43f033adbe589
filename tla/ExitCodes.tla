------------------------------- MODULE ExitCodes -------------------------------
(***************************************************************************)
(* The exit codes of qubes-vm-update and of its agent, and the statuses a  *)
(* qube can end with (vmupdate/agent/source/common/exit_codes.py and       *)
(* vmupdate/agent/source/status.py).                                       *)
(***************************************************************************)
EXTENDS Integers

OK == 0
OK_NO_UPDATES == 100

ERR == 1
ERR_SHUTDOWN_TMPL == 11
ERR_SHUTDOWN_APP == 12
ERR_START_APP == 13

ERR_VM == 21
ERR_VM_PRE == 22
ERR_VM_REFRESH == 23
ERR_VM_UPDATE == 24
ERR_VM_CLEANUP == 25
ERR_VM_UNHANDLED == 26

ERR_USAGE == 64
SIGINT == 130

VM_HANDLED == {OK, OK_NO_UPDATES, ERR_VM, ERR_VM_PRE, ERR_VM_REFRESH,
               ERR_VM_UPDATE, ERR_VM_CLEANUP}

\* The members of FinalStatus some code path assigns; UNKNOWN is never one.
FinalStatus == {"success", "error", "cancelled", "no updates"}

MaxOf(a, b) == IF a >= b THEN a ELSE b

\* collect_result: what the code of one qube's ProcessResult becomes before
\* it is folded into the batch's return code.
VmCode(code) ==
  IF code \in VM_HANDLED \ {OK_NO_UPDATES} THEN code ELSE ERR_VM_UNHANDLED

VmCodes == (VM_HANDLED \ {OK_NO_UPDATES}) \cup {ERR_VM_UNHANDLED}

\* _run_entrypoint: the entrypoint exits with e.  100 is "no updates" with
\* code 0, and any other positive code leaves the connection's initial status,
\* error.  Codes are added with max, which turns a negative one into 0.
EntryCode(e) == IF e = OK_NO_UPDATES THEN OK ELSE e

EntryStatus(e) == CASE e = OK_NO_UPDATES -> "no updates"
                    [] e <= OK           -> "success"
                    [] OTHER             -> "error"
================================================================================
