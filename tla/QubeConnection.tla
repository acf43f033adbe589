---------------------------- MODULE QubeConnection -----------------------------
(***************************************************************************)
(* One update_qube call for one qube, in detail: UpdateAgentManager in     *)
(* vmupdate/update_manager.py inside a `with QubeConnection(...)` block of *)
(* vmupdate/qube_connection.py.  The qube is part of the state: commands   *)
(* run in it start it, other users of the system start and stop it, and a  *)
(* shutdown empties its /run, where the agent is uploaded.                 *)
(***************************************************************************)
EXTENDS ExitCodes, Sequences

CONSTANTS
  Kinds,         \* what the qube may be, a subset of KnownKinds
  Cleanup,       \* FALSE with --no-cleanup
  ShowProgress,  \* progress is read while the agent runs
  FailCodes,     \* the codes a failing mkdir or tar returns
  EntryCodes,    \* the codes the agent can exit with
  Others         \* other users may start or stop the qube

\* dom0, a qube, or a qube with PCI devices.
KnownKinds == {"admin", "plain", "pci"}

NoAgentCode == 2  \* python cannot open the entrypoint

ASSUME ConnectionAssumption ==
  /\ Kinds \subseteq KnownKinds
  /\ {Cleanup, ShowProgress, Others} \subseteq BOOLEAN
  /\ FailCodes \subseteq Nat \ {0}
  /\ EntryCodes \subseteq Int

VARIABLES
  pc,           \* where the call is
  kind,         \* what the qube is
  power,        \* "halted", "running" or "halting"
  starter,      \* who started the qube: "before" the call, this "session", "other"
  workdir,      \* what /run/qubes-update holds: "dir", "archive", "old", "new" agent
  initially,    \* _initially_running
  status, code, exit,
  raising,      \* an exception is leaving the with block
  dones,        \* the final statuses put into the status queue
  termination,  \* the shared flag
  failures      \* history: which of {"rm", "shutdown"} did not succeed

callVars == <<kind, initially, status, code, exit, raising, dones>>
qubeVars == <<power, starter, workdir>>
vars == <<pc, callVars, qubeVars, termination, failures>>

Agents == {"old", "new"}

Admin == kind = "admin"  \* nothing is uploaded to dom0, and it never stops
HasPci == kind = "pci"
RemovesFiles == Cleanup /\ ~Admin

Init ==
  /\ pc = "begin"
  /\ kind \in Kinds
  /\ \/ power = "running" /\ workdir \in {{}, {"dir", "archive", "old"}}
     \/ power = "halted" /\ workdir = {} /\ ~Admin
  /\ Admin => workdir = {}
  /\ starter = "before"
  /\ initially = FALSE
  /\ status = "error" /\ code = OK /\ exit = OK
  /\ raising = FALSE
  /\ dones = <<>>
  /\ termination = FALSE
  /\ failures = {}

GoTo(place) == pc' = place
IsRunning == power # "halted"
Say(word) == dones' = Append(dones, word)
Finished == IF raising THEN "raised" ELSE "returned"

\* A command that reaches the qube; qubesadmin starts a halted one first.
Reached ==
  /\ power \in {"running", "halted"}
  /\ power' = "running"
  /\ starter' = IF power = "halted" THEN "session" ELSE starter

\* A command that fails, or whose outcome nobody looks at: it may or may not
\* have reached the qube.
Attempted == Reached \/ UNCHANGED <<power, starter>>

--------------------------------------------------------------------------------
\* Slips a change to the code could make; each breaks a property below.

\* The power state is read before the files are removed.
Rm_ReadsPowerFirst ==
  /\ pc = "rm"
  /\ \/ Reached /\ "dir" \in workdir /\ workdir' = {} /\ UNCHANGED failures
     \/ Attempted /\ failures' = failures \cup {"rm"} /\ UNCHANGED workdir
  /\ GoTo(IF IsRunning /\ ~initially THEN "shutdown" ELSE Finished)
  /\ UNCHANGED <<callVars, termination>>

\* rm fails and nobody hears of it.
Rm_Skipped ==
  /\ pc = "rm"
  /\ GoTo("stop")
  /\ UNCHANGED <<callVars, qubeVars, termination, failures>>

\* The exception handler puts no DONE.
HandleException_Silent ==
  /\ pc = "raised"
  /\ status' = "error" /\ code' = ERR_VM_UNHANDLED
  /\ GoTo("returned")
  /\ UNCHANGED <<kind, initially, exit, raising, dones, qubeVars, termination, failures>>

\* The flag is looked at when the agent has run.
ReadLogs_LateCheck ==
  /\ pc = "logs"
  /\ GoTo("leave")
  /\ IF termination
     THEN status' = "cancelled" /\ code' = SIGINT
     ELSE UNCHANGED <<status, code>>
  /\ UNCHANGED <<kind, initially, exit, raising, dones, qubeVars, termination, failures>>

\* __exit__ returns from the wait only if the qube is down when it looks.
Halt_Unheard ==
  /\ power = "halting"
  /\ power' = "halted"
  /\ workdir' = {}
  /\ UNCHANGED <<pc, callVars, starter, termination, failures>>

--------------------------------------------------------------------------------
\* update_qube's check of the flag, before anything is done.
CancelBeforeStart ==
  /\ pc = "begin"
  /\ termination
  /\ Say("cancelled") /\ status' = "cancelled" /\ code' = SIGINT
  /\ GoTo("returned")
  /\ UNCHANGED <<kind, initially, exit, raising, qubeVars, termination, failures>>

Begin ==
  /\ pc = "begin"
  /\ ~termination
  /\ GoTo("open")
  /\ UNCHANGED <<callVars, qubeVars, termination, failures>>

\* __enter__ reads the power state once.
Enter ==
  /\ pc = "open"
  /\ initially' = IsRunning
  /\ GoTo(IF Admin THEN "check" ELSE "mkdir")
  /\ UNCHANGED <<kind, status, code, exit, raising, dones, qubeVars, termination, failures>>

\* init_logs or is_running raises: __exit__ is not called.
FailToOpen ==
  /\ pc = "open"
  /\ GoTo("raised")
  /\ UNCHANGED <<callVars, qubeVars, termination, failures>>

\* transfer_agent: mkdir, copy, tar; a failure skips the rest of it, and
\* _run_agent goes on to the check all the same.  The archive is made in dom0
\* before: an error there leaves the with block.
Mkdir ==
  /\ pc = "mkdir"
  /\ \/ /\ Reached /\ GoTo("copy")
        /\ workdir' = workdir \cup {"dir"}
        /\ UNCHANGED <<code, raising>>
     \/ Attempted /\ GoTo("check") /\ code' \in FailCodes /\ UNCHANGED <<workdir, raising>>
     \/ GoTo("leave") /\ raising' = TRUE /\ UNCHANGED <<code, qubeVars>>
  /\ UNCHANGED <<kind, initially, status, exit, dones, termination, failures>>

\* _copy_file_from_dom0 turns an OSError into code 1.  A command that exits
\* with nonzero raises CalledProcessError, which leaves the with block.
Copy ==
  /\ pc = "copy"
  /\ \/ /\ Reached /\ "dir" \in workdir
        /\ GoTo("untar") /\ workdir' = workdir \cup {"archive"}
        /\ UNCHANGED <<code, raising>>
     \/ Attempted /\ GoTo("check") /\ code' = ERR /\ UNCHANGED <<workdir, raising>>
     \/ Attempted /\ GoTo("leave") /\ raising' = TRUE /\ UNCHANGED <<workdir, code>>
  /\ UNCHANGED <<kind, initially, status, exit, dones, termination, failures>>

Untar ==
  /\ pc = "untar"
  /\ GoTo("check")
  /\ \/ /\ Reached /\ "archive" \in workdir
        /\ workdir' = (workdir \ {"old"}) \cup {"new"}
        /\ UNCHANGED code
     \/ Attempted /\ code' \in FailCodes /\ UNCHANGED workdir
  /\ UNCHANGED <<kind, initially, status, exit, raising, dones, termination, failures>>

\* _run_agent's check of the flag.
Check ==
  /\ pc = "check"
  /\ IF termination
     THEN status' = "cancelled" /\ code' = SIGINT /\ GoTo("leave")
     ELSE UNCHANGED <<status, code>> /\ GoTo("entry")
  /\ UNCHANGED <<kind, initially, exit, raising, dones, qubeVars, termination, failures>>

\* run_entrypoint: the agent that is there runs, a stale one too; without one
\* python fails, and a qube that cannot be reached is a failure with code 1.
\* A negative code is an agent in dom0 killed by a signal.
EntryOutcome(e) ==
  \/ Reached /\ (Admin \/ workdir \cap Agents # {}) /\ e \in EntryCodes
     /\ (e < 0 => Admin)
  \/ Reached /\ ~Admin /\ workdir \cap Agents = {} /\ e = NoAgentCode
  \/ Attempted /\ e = ERR

Entrypoint(e) ==
  /\ pc = "entry"
  /\ EntryOutcome(e)
  /\ exit' = e
  /\ status' = EntryStatus(e)
  /\ code' = MaxOf(code, EntryCode(e))
  /\ GoTo("logs")
  /\ UNCHANGED <<kind, initially, raising, dones, workdir, termination, failures>>

\* run_service, or the reading of the agent's streams, raises; this happens
\* only on the path that reports progress.
EntrypointRaises ==
  /\ pc = "entry"
  /\ ShowProgress
  /\ Attempted
  /\ raising' = TRUE
  /\ GoTo("leave")
  /\ UNCHANGED <<kind, initially, status, code, exit, dones, workdir, termination, failures>>

\* _read_logs: a failure is only logged, but the command starts a halted qube.
ReadLogs ==
  /\ pc = "logs"
  /\ Attempted
  /\ GoTo("leave")
  /\ UNCHANGED <<callVars, workdir, termination, failures>>

--------------------------------------------------------------------------------
\* __exit__: DONE first, then the files, then the power state.
Leave ==
  /\ pc = "leave"
  /\ Say(status)
  /\ GoTo(IF RemovesFiles THEN "rm" ELSE "stop")
  /\ UNCHANGED <<kind, initially, status, code, exit, raising, qubeVars, termination, failures>>

Rm ==
  /\ pc = "rm"
  /\ \/ Reached /\ "dir" \in workdir /\ workdir' = {} /\ UNCHANGED failures
     \/ Attempted /\ failures' = failures \cup {"rm"} /\ UNCHANGED workdir
  /\ GoTo("stop")
  /\ UNCHANGED <<callVars, termination>>

\* `if self.qube.is_running() and not self._initially_running`
StopTest ==
  /\ pc = "stop"
  /\ GoTo(IF IsRunning /\ ~initially THEN "shutdown" ELSE Finished)
  /\ UNCHANGED <<callVars, qubeVars, termination, failures>>

\* With PCI devices: shutdown_domains logs an error and waits otherwise.
ShutdownAndWait ==
  /\ pc = "shutdown"
  /\ HasPci
  /\ \/ IsRunning /\ power' = "halting" /\ GoTo("connect") /\ UNCHANGED failures
     \/ GoTo(Finished) /\ failures' = failures \cup {"shutdown"} /\ UNCHANGED power
  /\ UNCHANGED <<callVars, starter, workdir, termination>>

\* wait_for_domain_shutdown subscribes to events, then looks whether the qube
\* is down already.
Connect ==
  /\ pc = "connect"
  /\ GoTo(IF IsRunning THEN "wait" ELSE Finished)
  /\ UNCHANGED <<callVars, qubeVars, termination, failures>>

\* Without: the shutdown is requested and not waited for; the call raises if
\* the qube has halted meanwhile, or is in use by another qube.
Shutdown ==
  /\ pc = "shutdown"
  /\ ~HasPci
  /\ \/ IsRunning /\ power' = "halting" /\ GoTo(Finished) /\ UNCHANGED failures
     \/ GoTo("raised") /\ failures' = failures \cup {"shutdown"} /\ UNCHANGED power
  /\ UNCHANGED <<callVars, starter, workdir, termination>>

\* update_qube's `except Exception`.
HandleException ==
  /\ pc = "raised"
  /\ Say("error") /\ status' = "error" /\ code' = ERR_VM_UNHANDLED
  /\ GoTo("returned")
  /\ UNCHANGED <<kind, initially, exit, raising, qubeVars, termination, failures>>

--------------------------------------------------------------------------------
\* The rest of the system.
Sigint ==
  /\ ~termination
  /\ termination' = TRUE
  /\ UNCHANGED <<pc, callVars, qubeVars, failures>>

OtherStarts ==
  /\ Others /\ ~Admin
  /\ power = "halted"
  /\ power' = "running" /\ starter' = "other"
  /\ UNCHANGED <<pc, callVars, workdir, termination, failures>>

OtherStops ==
  /\ Others /\ ~Admin
  /\ power = "running"
  /\ power' = "halting"
  /\ UNCHANGED <<pc, callVars, starter, workdir, termination, failures>>

\* The qube is down: its /run is gone, and whoever waits for it is told.
Halt ==
  /\ power = "halting"
  /\ power' = "halted"
  /\ workdir' = {}
  /\ pc' = IF pc = "wait" THEN Finished ELSE pc
  /\ UNCHANGED <<callVars, starter, termination, failures>>

Session ==
  \/ CancelBeforeStart \/ Begin \/ Enter \/ FailToOpen
  \/ Mkdir \/ Copy \/ Untar \/ Check
  \/ \E e \in EntryCodes \cup {NoAgentCode, ERR} : Entrypoint(e)
  \/ EntrypointRaises \/ ReadLogs
  \/ Leave \/ Rm \/ StopTest \/ ShutdownAndWait \/ Connect \/ Shutdown
  \/ HandleException

Returned == pc = "returned" /\ UNCHANGED vars

Next == Session \/ Sigint \/ OtherStarts \/ OtherStops \/ Halt \/ Returned

Spec == Init /\ [][Next]_vars

\* Commands return, and a qube that goes down gets there.
FairSpec == Spec /\ WF_vars(Session) /\ WF_vars(Halt)

--------------------------------------------------------------------------------
TypeOK ==
  /\ pc \in {"begin", "open", "mkdir", "copy", "untar", "check", "entry", "logs",
             "leave", "rm", "stop", "shutdown", "connect", "wait", "raised", "returned"}
  /\ kind \in Kinds
  /\ power \in {"halted", "halting", "running"}
  /\ starter \in {"before", "session", "other"}
  /\ workdir \subseteq {"dir", "archive"} \cup Agents
  /\ initially \in BOOLEAN /\ raising \in BOOLEAN /\ termination \in BOOLEAN
  /\ status \in FinalStatus
  /\ code \in Nat /\ exit \in Int
  /\ dones \in Seq(FinalStatus) /\ Len(dones) <= 2
  /\ failures \subseteq {"rm", "shutdown"}

\* What the call told the status queue and what it returns agree: it spoke,
\* its last word is error only with a nonzero code, cancelled only with code
\* 130 and no agent run, success only if the agent did not fail; and it spoke
\* twice only to take its first word back with code 26.
LastWordAgrees ==
  pc = "returned" =>
    /\ Len(dones) \in {1, 2}
    /\ LET word == dones[Len(dones)] IN
         /\ word = status
         /\ word = "error" => code # OK
         /\ word = "cancelled" => code = SIGINT /\ exit = OK
         /\ word = "success" => exit <= OK
         /\ Len(dones) = 2 => word = "error" /\ code = ERR_VM_UNHANDLED

\* A qube that was halted when the call began and that the call started is not
\* left running, whoever else starts and stops it, unless the shutdown call
\* failed.  The removal of the files can start the qube again: __exit__ has to
\* look at the power state afterwards.
PowerRestored ==
  pc = "returned" /\ ~initially /\ starter = "session" /\ power = "running" =>
    "shutdown" \in failures

\* The uploaded agent does not outlive the call, on any path through it,
\* unless the qube could not be reached to remove it.
UploadRemoved ==
  pc = "returned" /\ RemovesFiles /\ "new" \in workdir => "rm" \in failures

\* The call returns, also if the qube halts while it is about to wait for it,
\* unless another user started the qube, which may then run on and on while
\* the call waits for it.
Returns == [](starter # "other") => <>(pc = "returned")

\* The docstring of QubeConnection: on close, stop the qube if it was started
\* by this connection.  Here: it stops no other.
ShutdownRequested == pc = "shutdown" /\ pc' # pc /\ power' = "halting"
StopsOnlyItsOwn == [][ShutdownRequested => starter = "session"]_vars

\* And it leaves none running that it started.
LeavesNothingRunning ==
  pc = "returned" /\ starter = "session" /\ power = "running" =>
    "shutdown" \in failures

--------------------------------------------------------------------------------
Place == CASE pc = "begin" -> "waiting"
           [] pc \in {"rm", "stop", "shutdown", "connect", "wait"} -> "reported"
           [] pc = "raised" -> "failed"
           [] pc = "returned" -> "settled"
           [] OTHER -> "open"

Task == INSTANCE UpdateTask WITH
  TransferCodes <- FailCodes \cup {ERR},
  EntryCodes <- EntryCodes \cup {NoAgentCode, ERR},
  MayRaise <- TRUE,
  place <- Place, stop <- termination

\* The detailed call keeps the promise the batch relies on: every step of it
\* is a step of UpdateTask.
TaskSpec == Task!Spec

--------------------------------------------------------------------------------
(***************************************************************************)
(* The inductive invariant behind the theorems of QubeConnection_proofs.   *)
(***************************************************************************)
Reporting == {"rm", "stop", "shutdown", "connect", "wait"}  \* after DONE
Ending == {"raised", "returned"}

\* DONE is put once on leaving the with block, and the exception handler may
\* put it once more.
DonesInv ==
  /\ pc \notin Reporting \cup Ending => dones = <<>>
  /\ pc \in Reporting => dones = <<status>>
  /\ pc = "raised" => dones = <<>> \/ \E word \in FinalStatus : dones = <<word>>

\* The status tells how far the call got: no agent, a cancel, or the exit code.
StatusInv ==
  /\ pc \in {"begin", "open", "mkdir", "copy", "untar", "check", "entry"} =>
       status = "error" /\ exit = OK /\ ~raising
  /\ status = "cancelled" => code = SIGINT /\ exit = OK
  /\ status = "success" => exit <= OK
  /\ status = "error" /\ pc \in {"logs", "leave"} \cup Reporting /\ ~raising => code # OK

\* Files are uploaded before, and power is restored after, the rm.
CleanupInv ==
  /\ "new" \in workdir /\ RemovesFiles /\ pc \notin {"check", "entry", "logs", "leave", "rm"} =>
       "rm" \in failures
  /\ pc \in {"begin", "open"} => starter # "session"
  /\ pc \in {"connect", "wait"} \cup Ending /\ ~initially /\ starter = "session" /\ power = "running" =>
       "shutdown" \in failures

\* __exit__ waits only for a halt that is still to come: the qube is on its way
\* down, or another user started it anew.  wait_for_domain_shutdown has no
\* timeout, and a halt that came before it listens is told to nobody.
NoWaitInVain ==
  pc = "wait" => power = "halting" \/ (power = "running" /\ starter = "other")

\* The shutdown that was asked for is under way or over when the wait is set up.
HaltInv ==
  /\ pc \in {"connect", "wait"} /\ power = "running" => starter = "other"
  /\ pc = "wait" => power # "halted"

SessionInv == TypeOK /\ DonesInv /\ StatusInv /\ CleanupInv /\ LastWordAgrees
================================================================================
