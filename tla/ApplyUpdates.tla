------------------------------ MODULE ApplyUpdates ------------------------------
(***************************************************************************)
(* apply_updates_to_appvm of vmupdate/vmupdate.py, without --dry-run: the  *)
(* updated templates that still run are shut down, then the qubes based on *)
(* them are restarted (service qubes) or shut down (--apply-to-all), while *)
(* users start and stop qubes on their own.                                *)
(*                                                                         *)
(* A template's changes become its derived qubes' root volume when it      *)
(* halts; a qube keeps the root volume it was started with.                *)
(***************************************************************************)
EXTENDS ExitCodes, FiniteSets

CONSTANTS
  Templates,   \* the TemplateVMs of the independent batch
  Apps,        \* the qubes derived from them
  Base,        \* Base[a]: the template a is derived from
  MayRefuse,   \* TRUE if qubesd may refuse to stop or start a qube
  MaxStarts,   \* bound on the qubes users start meanwhile
  MaxStops     \* bound on the qubes users stop meanwhile

ASSUME ApplyAssumption ==
  /\ Templates \cap Apps = {}
  /\ Base \in [Apps -> Templates]
  /\ MayRefuse \in BOOLEAN
  /\ MaxStarts \in Nat
  /\ MaxStops \in Nat

Qubes == Templates \cup Apps

VARIABLES
  pc,           \* "start", "call", "wait", "boot" or "done"
  loop,         \* what shutdown_domains is called for
  applyToAll,   \* --apply-to-all; --apply-to-sys alone otherwise
  updated,      \* the templates whose status is SUCCESS
  kind,         \* what each derived qube is
  selfUpdated,  \* the derived qubes whose own status is SUCCESS
  power,        \* [Qubes -> {"halted", "running", "stopping"}]
  toRestart, toShutdown,  \* what get_derived_vm_to_apply returned
  todo,         \* the qubes the current loop has not come to
  waitFor,      \* the qubes whose shutdown call returned
  awaited,      \* those not seen halted since wait_for_domain_shutdown began
  code,         \* ret_code of shutdown_domains and restart_vms
  ret,          \* ret_code of apply_updates_to_appvm
  committed,    \* history: templates that halted since they were updated
  old,          \* history: qubes that run on a root volume without the update
  refused,      \* history: what qubesd refused, "templates" ... "boot"
  userStopped,  \* history: qubes a user stopped
  starts        \* qubes users started so far

given == <<applyToAll, updated, kind, selfUpdated>>
sets == <<toRestart, toShutdown>>
history == <<committed, old, userStopped, starts>>
vars == <<pc, loop, given, power, sets, todo, waitFor, awaited, code, ret, history, refused>>

Running(q) == power[q] # "halted"

Init ==
  /\ pc = "start" /\ loop = "templates"
  /\ applyToAll \in BOOLEAN
  /\ updated \in SUBSET Templates
  /\ kind \in [Apps -> {"app", "service", "disposable"}]
  /\ selfUpdated \in SUBSET Apps
  /\ power \in [Qubes -> {"halted", "running"}]
  /\ toRestart = {} /\ toShutdown = {}
  /\ todo = {} /\ waitFor = {} /\ awaited = {}
  /\ code = OK /\ ret = OK
  /\ committed = {t \in updated : ~Running(t)}
  /\ old = {a \in Apps : Base[a] \in updated /\ Running(a)}
  /\ refused = {} /\ userStopped = {} /\ starts = 0

--------------------------------------------------------------------------------
\* get_derived_vm_to_apply: the running qubes derived from `templates` that
\* were not updated themselves, disposables that clean up left out.
Derived(templates) ==
  {a \in Apps : /\ Base[a] \in templates
                /\ a \notin selfUpdated
                /\ Running(a)
                /\ kind[a] # "disposable"}
Services(qubes) == {a \in qubes : kind[a] = "service"}

Choose(templates) ==
  /\ toRestart' = Services(Derived(templates))
  /\ toShutdown' = Derived(templates) \ toRestart'

\* shutdown_domains(qubes): the loop is entered.
Enter(l, qubes) ==
  /\ pc' = "call" /\ loop' = l
  /\ todo' = qubes /\ waitFor' = {} /\ code' = OK

--------------------------------------------------------------------------------
\* Slips a change to the code could make; each breaks a property below.

\* The derived qubes are not chosen again when a template stays up.
AfterTemplates_Stale ==
  /\ pc = "wait" /\ loop = "templates" /\ awaited = {}
  /\ ret' = IF code = OK THEN OK ELSE ERR_SHUTDOWN_TMPL
  /\ UNCHANGED sets
  /\ Enter("restart", toRestart)
  /\ UNCHANGED <<given, power, awaited, history, refused>>

\* The code of the last loop replaces the worst one.
AfterShutdown_Last ==
  /\ pc = "wait" /\ loop = "shutdown" /\ awaited = {}
  /\ pc' = "done"
  /\ ret' = code
  /\ UNCHANGED <<loop, given, power, sets, todo, waitFor, awaited, code, history, refused>>

\* The qubes are started without waiting for them to halt.
CallsDone_NoWait ==
  /\ pc = "call" /\ todo = {}
  /\ pc' = "wait"
  /\ awaited' = {}
  /\ UNCHANGED <<loop, given, power, sets, todo, waitFor, code, ret, history, refused>>

\* Every chosen qube is waited for, also one whose shutdown was refused.
CallsDone_AwaitRefused ==
  /\ pc = "call" /\ todo = {}
  /\ pc' = "wait"
  /\ awaited' = {q \in waitFor \cup toRestart : Running(q)}
  /\ UNCHANGED <<loop, given, power, sets, todo, waitFor, code, ret, history, refused>>

--------------------------------------------------------------------------------
\* Everything up to the first shutdown_domains.
Start ==
  /\ pc = "start"
  /\ Choose(updated)
  /\ Enter("templates", {t \in updated : Running(t)})
  /\ UNCHANGED <<given, power, awaited, ret, history, refused>>

\* vm.shutdown(force=True) returns once the shutdown was asked for.
ShutdownCall(q) ==
  /\ pc = "call" /\ q \in todo
  /\ Running(q)
  /\ power' = [power EXCEPT ![q] = "stopping"]
  /\ todo' = todo \ {q}
  /\ waitFor' = waitFor \cup {q}
  /\ UNCHANGED <<pc, loop, given, sets, awaited, code, ret, history, refused>>

\* QubesVMError: the qube is already halted, or qubesd refuses.
ShutdownRefused(q) ==
  /\ pc = "call" /\ q \in todo
  /\ MayRefuse \/ ~Running(q)
  /\ todo' = todo \ {q}
  /\ code' = ERR_SHUTDOWN_APP
  /\ refused' = refused \cup {loop}
  /\ UNCHANGED <<pc, loop, given, power, sets, waitFor, awaited, ret, history>>

\* wait_for_domain_shutdown connects: halted qubes are not waited for.
CallsDone ==
  /\ pc = "call" /\ todo = {}
  /\ pc' = "wait"
  /\ awaited' = {q \in waitFor : Running(q)}
  /\ UNCHANGED <<loop, given, power, sets, todo, waitFor, code, ret, history, refused>>

\* The templates were waited for; if some call failed, only the qubes of the
\* templates that are down now are considered.  Then restart_vms begins.
AfterTemplates ==
  /\ pc = "wait" /\ loop = "templates" /\ awaited = {}
  /\ IF code = OK
     THEN ret' = OK /\ UNCHANGED sets
     ELSE ret' = ERR_SHUTDOWN_TMPL /\ Choose({t \in updated : ~Running(t)})
  /\ Enter("restart", toRestart')
  /\ UNCHANGED <<given, power, awaited, history, refused>>

\* restart_vms starts what it has shut down, one by one.
AfterRestart ==
  /\ pc = "wait" /\ loop = "restart" /\ awaited = {}
  /\ pc' = "boot"
  /\ todo' = waitFor
  /\ UNCHANGED <<loop, given, power, sets, waitFor, awaited, code, ret, history, refused>>

\* vm.start; a qube that runs already stays as it is.
Boot(q) ==
  /\ pc = "boot" /\ q \in todo
  /\ todo' = todo \ {q}
  /\ power' = [power EXCEPT ![q] = IF Running(q) THEN @ ELSE "running"]
  /\ old' = IF ~Running(q) /\ Base[q] \in updated \ committed THEN old \cup {q} ELSE old
  /\ UNCHANGED <<pc, loop, given, sets, waitFor, awaited, code, ret, committed,
                 userStopped, starts, refused>>

BootRefused(q) ==
  /\ pc = "boot" /\ q \in todo
  /\ MayRefuse
  /\ todo' = todo \ {q}
  /\ code' = ERR_START_APP
  /\ refused' = refused \cup {"boot"}
  /\ UNCHANGED <<pc, loop, given, power, sets, waitFor, awaited, ret, history>>

\* restart_vms returns; with --apply-to-all the other qubes are shut down.
AfterBoot ==
  /\ pc = "boot" /\ todo = {}
  /\ ret' = MaxOf(ret, code)
  /\ IF applyToAll
     THEN Enter("shutdown", toShutdown)
     ELSE pc' = "done" /\ UNCHANGED <<loop, todo, waitFor, code>>
  /\ UNCHANGED <<given, power, sets, awaited, history, refused>>

AfterShutdown ==
  /\ pc = "wait" /\ loop = "shutdown" /\ awaited = {}
  /\ pc' = "done"
  /\ ret' = MaxOf(ret, code)
  /\ UNCHANGED <<loop, given, power, sets, todo, waitFor, awaited, code, history, refused>>

--------------------------------------------------------------------------------
\* The system around it.

\* A qube asked to stop has stopped.
Halt(q) ==
  /\ power[q] = "stopping"
  /\ power' = [power EXCEPT ![q] = "halted"]
  /\ awaited' = awaited \ {q}
  /\ committed' = committed \cup (updated \cap {q})
  /\ old' = old \ {q}
  /\ UNCHANGED <<pc, loop, given, sets, todo, waitFor, code, ret, userStopped, starts, refused>>

UserStops(q) ==
  /\ power[q] = "running"
  /\ Cardinality(userStopped) < MaxStops
  /\ power' = [power EXCEPT ![q] = "stopping"]
  /\ userStopped' = userStopped \cup {q}
  /\ UNCHANGED <<pc, loop, given, sets, todo, waitFor, awaited, code, ret,
                 committed, old, starts, refused>>

UserStarts(q) ==
  /\ power[q] = "halted"
  /\ starts < MaxStarts
  /\ starts' = starts + 1
  /\ power' = [power EXCEPT ![q] = "running"]
  /\ old' = IF q \in Apps /\ Base[q] \in updated \ committed THEN old \cup {q} ELSE old
  /\ UNCHANGED <<pc, loop, given, sets, todo, waitFor, awaited, code, ret,
                 committed, userStopped, refused>>

Program ==
  \/ Start \/ CallsDone \/ AfterTemplates \/ AfterRestart \/ AfterBoot \/ AfterShutdown
  \/ \E q \in Qubes : ShutdownCall(q) \/ ShutdownRefused(q)
  \/ \E q \in Apps : Boot(q) \/ BootRefused(q)

Done == pc = "done" /\ UNCHANGED vars

Next == \/ Program
        \/ \E q \in Qubes : Halt(q) \/ UserStops(q) \/ UserStarts(q)
        \/ Done

Spec == Init /\ [][Next]_vars

\* The program runs on, and a qube that was asked to stop does stop.
FairSpec == Spec /\ WF_vars(Program) /\ \A q \in Qubes : WF_vars(Halt(q))

--------------------------------------------------------------------------------
TypeOK ==
  /\ pc \in {"start", "call", "wait", "boot", "done"}
  /\ loop \in {"templates", "restart", "shutdown"}
  /\ applyToAll \in BOOLEAN
  /\ updated \subseteq Templates
  /\ kind \in [Apps -> {"app", "service", "disposable"}]
  /\ selfUpdated \subseteq Apps
  /\ power \in [Qubes -> {"halted", "running", "stopping"}]
  /\ toRestart \subseteq Apps /\ toShutdown \subseteq Apps
  /\ todo \subseteq Qubes /\ waitFor \subseteq Qubes /\ awaited \subseteq waitFor
  /\ code \in {OK, ERR_SHUTDOWN_APP, ERR_START_APP}
  /\ ret \in {OK, ERR_SHUTDOWN_TMPL, ERR_SHUTDOWN_APP, ERR_START_APP}
  /\ committed \subseteq updated /\ old \subseteq Apps
  /\ refused \subseteq {"templates", "restart", "shutdown", "boot"}
  /\ userStopped \subseteq Qubes
  /\ starts \in Nat

\* "There is no point in restarting their derived AppVMs": a derived qube is
\* only disturbed once its template has halted with the update, also when
\* other templates could not be shut down, stopped by themselves or were
\* started again meanwhile.
NoPointlessShutdown ==
  [][\A a \in Apps : a \in waitFor' \ waitFor => Base[a] \in committed]_vars

\* The return code accounts for every call that qubesd refused, in any of the
\* loops, and for nothing else; a failed start is what it names if there is one.
CodesTruthful ==
  pc = "done" => /\ ret = OK <=> refused = {}
                 /\ ret = ERR_START_APP <=> "boot" \in refused

\* A service qube that was shut down to be restarted runs again at the end,
\* unless its start was refused or a user stopped it.
ServicesBack ==
  pc = "done" /\ ret # ERR_START_APP =>
    \A a \in toRestart \ userStopped : Running(a) /\ power[a] # "stopping"

\* With code 0 no qube that was to be restarted or shut down still runs
\* without the update, provided that users started nothing meanwhile: a qube
\* started after it could be chosen is not looked at again.
UpdateApplied ==
  pc = "done" /\ ret = OK /\ starts = 0 =>
    \A a \in Apps \ selfUpdated :
      a \in old => kind[a] = "disposable" \/ (kind[a] = "app" /\ ~applyToAll)

\* Nobody waits for ever, if what is asked to stop stops and users start
\* nothing (a qube that halts and is started again before the wait connects is
\* waited for until it halts once more).
ApplyEnds == [](starts = 0) => <>(pc = "done")

--------------------------------------------------------------------------------
(***************************************************************************)
(* The inductive invariant behind the theorems of ApplyUpdates_proofs.     *)
(***************************************************************************)
\* Only the wait waits, and each loop handles what it was called for.
LoopInv ==
  /\ pc # "wait" => awaited = {}
  /\ pc = "start" => loop = "templates" /\ waitFor = {}
  /\ pc = "boot" => loop = "restart"
  /\ loop = "templates" => pc \in {"start", "call", "wait"} /\ todo \subseteq updated
  /\ loop = "restart" => todo \subseteq toRestart /\ waitFor \subseteq toRestart
  /\ loop = "shutdown" => todo \subseteq toShutdown

\* While templates are shut down, each that has not halted with its update is
\* still to be handled, or the code tells that one was refused; afterwards the
\* chosen qubes are those of templates that have halted.
CommitInv ==
  /\ \A t \in updated : ~Running(t) => t \in committed
  /\ pc = "call" /\ loop = "templates" /\ code = OK =>
       updated \subseteq committed \cup todo \cup waitFor
  /\ pc = "wait" /\ loop = "templates" /\ code = OK =>
       updated \subseteq committed \cup awaited
  /\ pc # "start" => \A a \in toRestart \cup toShutdown : Base[a] \in updated
  /\ loop # "templates" => \A a \in toRestart \cup toShutdown : Base[a] \in committed

\* What code and ret know of the refusals in the three loops.
RefusalInv ==
  /\ pc = "start" => refused = {}
  /\ loop = "templates" =>
       /\ refused \subseteq {"templates"} /\ ret = OK
       /\ code = (IF refused = {} THEN OK ELSE ERR_SHUTDOWN_APP)
  /\ loop = "restart" => refused \subseteq {"templates", "restart", "boot"}
  /\ loop = "restart" /\ pc # "done" =>
       /\ ret = (IF "templates" \in refused THEN ERR_SHUTDOWN_TMPL ELSE OK)
       /\ code = (IF "boot" \in refused THEN ERR_START_APP
                  ELSE IF "restart" \in refused THEN ERR_SHUTDOWN_APP ELSE OK)
       /\ pc # "boot" => "boot" \notin refused
  /\ loop = "shutdown" /\ pc # "done" =>
       /\ code = (IF "shutdown" \in refused THEN ERR_SHUTDOWN_APP ELSE OK)
       /\ ret = OK <=> refused \subseteq {"shutdown"}
       /\ ret = ERR_START_APP <=> "boot" \in refused
  /\ CodesTruthful

\* A service qube that no user stopped runs until its shutdown is called, is
\* not on its way down any more once it was waited for, and runs again when it
\* was started, unless that was refused.
ServicesInv ==
  /\ loop = "templates" =>
       \A a \in Apps \ userStopped :
         power[a] # "stopping" /\ (a \in toRestart => power[a] = "running")
  /\ loop = "restart" /\ pc \in {"call", "wait"} =>
       \A a \in toRestart \ userStopped :
         /\ a \notin waitFor => power[a] = "running"
         /\ pc = "wait" /\ a \notin awaited => power[a] # "stopping"
  /\ pc = "boot" =>
       \A a \in toRestart \ userStopped :
         /\ power[a] # "stopping"
         /\ a \notin todo => power[a] = "running" \/ "boot" \in refused
  /\ pc = "done" \/ loop = "shutdown" =>
       \A a \in toRestart \ userStopped : power[a] = "running" \/ "boot" \in refused

\* The qubes without the update that the loops are still to come to, as long as
\* nothing was refused and nobody starts a qube.
Ahead ==
  CASE loop = "templates" -> IF pc = "start" THEN Apps ELSE toRestart \cup toShutdown
    [] loop = "restart" -> toShutdown \cup (CASE pc = "call" -> todo \cup waitFor
                                              [] pc = "wait" -> awaited
                                              [] OTHER -> {})
    [] loop = "shutdown" -> CASE pc = "call" -> todo \cup waitFor
                              [] pc = "wait" -> awaited
                              [] OTHER -> {}

OldInv ==
  /\ \A a \in old : Running(a) /\ Base[a] \in updated
  /\ \A a \in toRestart : kind[a] = "service"
  /\ \A a \in toShutdown : kind[a] = "app"
  /\ pc = "done" /\ loop = "restart" => ~applyToAll
  /\ starts = 0 /\ refused = {} =>
       \A a \in old \ selfUpdated : kind[a] # "disposable" => a \in Ahead

\* shutdown_domains waits only for halts that are still to come: a qube waited
\* for is on its way down, or users started qubes meanwhile.
NoWaitInVain ==
  \A q \in awaited : power[q] = "stopping" \/ (power[q] = "running" /\ starts > 0)

\* A qube whose call returned has not come up again unless a user started it.
AwaitInv ==
  /\ \A q \in awaited : Running(q)
  /\ pc \in {"call", "wait"} /\ starts = 0 => \A q \in waitFor : power[q] # "running"

ApplyInv == TypeOK /\ LoopInv /\ CommitInv /\ RefusalInv /\ ServicesInv /\ OldInv
================================================================================
