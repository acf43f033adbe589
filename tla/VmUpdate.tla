-------------------------------- MODULE VmUpdate --------------------------------
(***************************************************************************)
(* main of vmupdate/vmupdate.py: three batches, one after the other, then  *)
(* the changes are applied to derived qubes and one exit code is made of   *)
(* it all.  A batch is what BatchPromise says UpdateManager.run returns;   *)
(* the targets are any set of qubes Targets can select; applying is what   *)
(* ApplyUpdates shows of apply_updates_to_appvm.                           *)
(***************************************************************************)
EXTENDS ExitCodes, FiniteSets

CONSTANTS
  Qubes,
  Class,    \* [Qubes -> {"AdminVM", "TemplateVM", "StandaloneVM", "AppVM"}]
  Dummy,    \* TRUE with --quiet or --no-progress
  Endings   \* how tasks may end, a set of BatchPromise!Ended

Promise == INSTANCE BatchPromise

ASSUME VmUpdateAssumption ==
  /\ Class \in [Qubes -> {"AdminVM", "TemplateVM", "StandaloneVM", "AppVM"}]
  /\ Dummy \in BOOLEAN
  /\ Endings \subseteq Promise!Ended

VARIABLES
  pc,         \* the batch that comes next, "apply", "exited" or "crashed"
  opts,       \* --dry-run, --signal-no-updates, --apply-to-*
  targets,    \* the qubes selected
  noUpdates,  \* no_updates
  codes,      \* [batch -> the code run_update returned]
  report,     \* [Qubes -> the status run_update returned, "none" without one]
  exit,       \* the exit code, -1 before
  ended,      \* history: how the qubes' tasks ended, NotRun for the others
  stopped,    \* history: the user interrupted a batch
  applied     \* history: the code of apply_updates_to_appvm, -1 before

vars == <<pc, opts, targets, noUpdates, codes, report, exit, ended, stopped, applied>>
history == <<ended, stopped, applied>>

Batches == {"admin", "independent", "derived"}
NotRun == [status |-> "none", code |-> -1]

\* The batches of main: AdminVM, then TemplateVMs and StandaloneVMs, the rest.
BatchOf(q) == CASE Class[q] = "AdminVM" -> "admin"
                [] Class[q] \in {"TemplateVM", "StandaloneVM"} -> "independent"
                [] OTHER -> "derived"
Batch(b) == {q \in targets : BatchOf(q) = b}
After(b) == CASE b = "admin" -> "independent"
              [] b = "independent" -> "derived"
              [] OTHER -> "apply"

Init ==
  /\ pc = "admin"
  /\ opts \in [dryRun : BOOLEAN, signal : BOOLEAN, apply : BOOLEAN]
  /\ targets \in SUBSET Qubes
  /\ noUpdates = TRUE
  /\ codes = [b \in Batches |-> OK]
  /\ report = [q \in Qubes |-> "none"]
  /\ exit = -1
  /\ ended = [q \in Qubes |-> NotRun]
  /\ stopped = FALSE
  /\ applied = -1

--------------------------------------------------------------------------------
Exit(code) == pc' = "exited" /\ exit' = code

\* The codes apply_updates_to_appvm can return.
ApplyCodes == {OK, ERR_SHUTDOWN_TMPL, ERR_SHUTDOWN_APP, ERR_START_APP}

\* Slips a change to the code could make; each breaks a property below.

\* no_updates is overwritten by each batch.
StillNoUpdates_LastBatch(b, statuses) ==
  \A q \in Batch(b) : statuses[q] \in {"none", "no updates"}

\* A batch that was interrupted does not end main.
AfterBatch_GoOn(b, ret) == pc' = After(b) /\ UNCHANGED exit

\* The code of the admin batch is left out of the maximum.
Worst_NoAdmin(code) ==
  CHOOSE c \in {codes[b] : b \in Batches} \cup {code} :
    \A b \in Batches \ {"admin"} : codes[b] <= c /\ code <= c

\* Whatever became of a template, its changes are applied.
UpdatedTemplates_All == {q \in Batch("independent") : Class[q] = "TemplateVM"}

\* derived_statuses[vm.name] instead of derived_statuses.get(vm.name, False).
ApplyCrashes_DerivedToo ==
  /\ pc = "apply"
  /\ opts.apply
  /\ \E q \in Qubes : Class[q] = "AppVM" /\ report[q] = "none"
  /\ pc' = "crashed"
  /\ UNCHANGED <<opts, targets, noUpdates, codes, report, exit, history>>

--------------------------------------------------------------------------------
\* all(stat == NO_UPDATES for stat in statuses.values()), TRUE of no status.
StillNoUpdates(b, statuses) ==
  noUpdates /\ \A q \in Batch(b) : statuses[q] \in {"none", "no updates"}

NewReport(b, statuses) ==
  [q \in Qubes |-> IF q \in Batch(b) THEN statuses[q] ELSE report[q]]

\* return EXIT.SIGINT, or the next batch.
AfterBatch(b, ret) ==
  IF ret = SIGINT THEN Exit(SIGINT) ELSE pc' = After(b) /\ UNCHANGED exit

Worst(code) == CHOOSE c \in {codes[b] : b \in Batches} \cup {code} :
                 \A b \in Batches : codes[b] <= c /\ code <= c

NoTargets ==
  /\ pc = "admin" /\ targets = {}
  /\ Exit(IF opts.signal THEN OK_NO_UPDATES ELSE OK)
  /\ UNCHANGED <<opts, targets, noUpdates, codes, report, history>>

\* run_update of an empty batch returns 0 and no statuses; main does not even
\* call it for dom0.
SkipBatch(b) ==
  /\ pc = b /\ targets # {}
  /\ Batch(b) = {}
  /\ pc' = After(b)
  /\ UNCHANGED <<opts, targets, noUpdates, codes, report, exit, history>>

\* run_update with --dry-run: every qube is a success.  Main only prints that
\* dom0 would be updated and leaves no_updates alone.
PrintBatch(b) ==
  /\ pc = b /\ opts.dryRun
  /\ Batch(b) # {}
  /\ pc' = After(b)
  /\ IF b = "admin"
     THEN UNCHANGED <<noUpdates, report>>
     ELSE /\ noUpdates' = FALSE
          /\ report' = NewReport(b, [q \in Batch(b) |-> "success"])
  /\ UNCHANGED <<opts, targets, codes, exit, history>>

RunBatch(b) ==
  /\ pc = b /\ targets # {} /\ ~opts.dryRun
  /\ Batch(b) # {}
  /\ \E ends \in [Batch(b) -> Endings], stop \in BOOLEAN,
        ret \in VmCodes \cup {ERR, SIGINT},
        statuses \in [Batch(b) -> FinalStatus \cup {"none"}] :
       /\ Promise!Promised(ends, Dummy, stop, ret, statuses)
       /\ ended' = [q \in Qubes |-> IF q \in Batch(b) THEN ends[q] ELSE ended[q]]
       /\ report' = NewReport(b, statuses)
       /\ codes' = [codes EXCEPT ![b] = ret]
       /\ noUpdates' = StillNoUpdates(b, statuses)
       /\ stopped' = stop
       /\ AfterBatch(b, ret)
  /\ UNCHANGED <<opts, targets, applied>>

\* updated_tmpls of apply_updates_to_appvm, which looks up every independent
\* qube's status before it looks at its class.
UpdatedTemplates ==
  {q \in Batch("independent") : report[q] = "success" /\ Class[q] = "TemplateVM"}

\* What main makes of the worst code.
Outcome(code) ==
  CASE code = OK /\ noUpdates /\ opts.signal -> OK_NO_UPDATES
    [] code = OK_NO_UPDATES /\ ~opts.signal  -> OK
    [] OTHER                                 -> code

Apply(a) ==
  /\ pc = "apply"
  /\ opts.apply => \A q \in Batch("independent") : report[q] # "none"
  /\ ~opts.apply \/ opts.dryRun \/ UpdatedTemplates = {} => a = OK
  /\ applied' = a
  /\ Exit(Outcome(Worst(a)))
  /\ UNCHANGED <<opts, targets, noUpdates, codes, report, ended, stopped>>

\* template_statuses[vm.name]: KeyError, which nothing catches.
ApplyCrashes ==
  /\ pc = "apply"
  /\ opts.apply
  /\ \E q \in Batch("independent") : report[q] = "none"
  /\ pc' = "crashed"
  /\ UNCHANGED <<opts, targets, noUpdates, codes, report, exit, history>>

Stop == pc \in {"exited", "crashed"} /\ UNCHANGED vars

Next == \/ NoTargets
        \/ \E b \in Batches : SkipBatch(b) \/ PrintBatch(b) \/ RunBatch(b)
        \/ \E a \in ApplyCodes : Apply(a)
        \/ ApplyCrashes
        \/ Stop

Spec == Init /\ [][Next]_vars

--------------------------------------------------------------------------------
TypeOK ==
  /\ pc \in Batches \cup {"apply", "exited", "crashed"}
  /\ targets \subseteq Qubes
  /\ noUpdates \in BOOLEAN
  /\ codes \in [Batches -> VmCodes \cup {ERR, SIGINT}]
  /\ report \in [Qubes -> FinalStatus \cup {"none"}]
  /\ exit \in {-1, OK_NO_UPDATES, SIGINT, ERR} \cup VmCodes \cup ApplyCodes
  /\ ended \in [Qubes -> Endings \cup {NotRun}]
  /\ stopped \in BOOLEAN
  /\ applied \in ApplyCodes \cup {-1}

Failed(q) == ended[q] # NotRun /\ VmCode(ended[q].code) # OK

\* Neither 0 nor 100 is returned when a qube's task failed in any batch, nor
\* when the changes could not be applied: main's maximum leaves out no code.
FailuresInExit ==
  pc = "exited" /\ exit \in {OK, OK_NO_UPDATES} =>
    applied \in {-1, OK} /\ \A q \in Qubes : ~Failed(q)

\* An interrupted batch is the last thing that happens: no other batch is
\* begun, nothing is applied, and the exit code is SIGINT, and only then.
SigintStops ==
  /\ stopped => pc = "exited" /\ exit = SIGINT /\ applied = -1
  /\ exit = SIGINT => stopped

\* "100: ok, returned if --signal-no-updates and no updates available": with
\* 100 no qube was updated.
NoUpdatesMeansNone ==
  pc = "exited" /\ exit = OK_NO_UPDATES =>
    opts.signal /\ \A q \in Qubes : ended[q].status # "success"

\* "--apply-to-sys ... whose template has been updated": nothing is shut down
\* unless a template was, in truth, updated or a task ended with an exception.
AppliedForAReason ==
  applied \notin {-1, OK} =>
    \E q \in targets : Class[q] = "TemplateVM" /\
      (ended[q].status = "success" \/ Promise!Excepted(ended[q]))

\* main crashes over a missing status only after a task that ended with an
\* exception: such a task sends DONE twice and the loop stops before another's.
CrashNeedsException ==
  pc = "crashed" => \E q \in Qubes : Promise!Excepted(ended[q])

\* --apply-to-sys and --apply-to-all have an effect, or an exit code, in every
\* combination with the other options.
ApplyNeverCrashes == pc # "crashed"

\* "--dry-run: Just print what happens": 100 if nothing would be updated.
DryRunForetells ==
  pc = "exited" /\ opts.dryRun /\ exit = OK_NO_UPDATES => targets = {}

--------------------------------------------------------------------------------
(***************************************************************************)
(* The inductive invariant behind the theorems of VmUpdate_proofs.         *)
(***************************************************************************)
\* Nothing was stopped or applied before main exits; only targets have run; and
\* the code of a batch that main goes on after is a qube's or ERR and covers
\* each qube of it that failed.
ProgressInv ==
  /\ \A q \in Qubes \ targets : ended[q] = NotRun
  /\ pc # "exited" =>
       /\ exit = -1 /\ applied = -1 /\ ~stopped
       /\ \A b \in Batches : codes[b] \in VmCodes \cup {ERR}
       /\ \A q \in Qubes : Failed(q) => VmCode(ended[q].code) <= codes[BatchOf(q)]

MainInv == TypeOK /\ ProgressInv /\ SigintStops /\ FailuresInExit
================================================================================
