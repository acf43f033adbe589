----------------------------- MODULE VmUpdate_proofs ----------------------------
(***************************************************************************)
(* Proofs about VmUpdate for any qubes, options and ends of tasks.         *)
(***************************************************************************)
EXTENDS VmUpdate, TLAPS

\* A batch's code, unless the user stopped it, is a qube's or ERR.
LEMMA CodesSmall == \A c \in VmCodes \cup {ERR} : c \in 0..26
  BY DEF VmCodes, VM_HANDLED, ERR, OK, OK_NO_UPDATES, ERR_VM, ERR_VM_PRE, ERR_VM_REFRESH,
         ERR_VM_UPDATE, ERR_VM_CLEANUP, ERR_VM_UNHANDLED

LEMMA VmCodeType == \A c : VmCode(c) \in VmCodes
  BY DEF VmCode, VmCodes

\* Worst is the largest of the four codes.
LEMMA WorstIsMax ==
  ASSUME codes \in [Batches -> Int], NEW a \in Int
  PROVE  /\ Worst(a) \in {codes[b] : b \in Batches} \cup {a}
         /\ \A b \in Batches : codes[b] <= Worst(a)
         /\ a <= Worst(a)
  <1> DEFINE S == {codes[b] : b \in Batches} \cup {a}
             Top(c) == \A b \in Batches : codes[b] <= c /\ a <= c
  <1>1. \E c \in S : Top(c)
    <2>1. /\ codes["admin"] \in Int /\ codes["independent"] \in Int /\ codes["derived"] \in Int
      BY DEF Batches
    <2>2. /\ codes["admin"] \in S /\ codes["independent"] \in S /\ codes["derived"] \in S
          /\ a \in S
      BY DEF Batches
    <2>3. \E c \in {codes["admin"], codes["independent"], codes["derived"], a} :
            /\ codes["admin"] <= c /\ codes["independent"] <= c /\ codes["derived"] <= c
            /\ a <= c
      BY <2>1
    <2>4. PICK c \in S : /\ codes["admin"] <= c /\ codes["independent"] <= c
                         /\ codes["derived"] <= c /\ a <= c
      BY <2>2, <2>3
    <2>5. ASSUME NEW b \in Batches PROVE codes[b] <= c
      BY <2>4 DEF Batches
    <2> QED
      BY <2>4, <2>5
  <1>2. Worst(a) \in S /\ Top(Worst(a))
    BY <1>1 DEF Worst
  <1>3. "admin" \in Batches
    BY DEF Batches
  <1> QED
    BY <1>2, <1>3

\* BatchOf(q) is one of the three batches, and After(b) comes after one.
LEMMA BatchesOnly ==
  /\ \A q \in Qubes : BatchOf(q) \in Batches
  /\ \A b \in Batches : After(b) \in Batches \cup {"apply"}
  BY DEF BatchOf, After, Batches

\* main starts in the invariant.
LEMMA MainInit == Init => MainInv
  <1> SUFFICES ASSUME Init PROVE MainInv
    OBVIOUS
  <1>0. OK \in VmCodes
    BY DEF VmCodes, VM_HANDLED, OK, OK_NO_UPDATES
  <1>1. TypeOK
    BY <1>0 DEF Init, TypeOK, Batches
  <1>2. \A q \in Qubes : ~Failed(q)
    BY DEF Init, Failed
  <1> QED
    BY <1>0, <1>1, <1>2
    DEF Init, MainInv, ProgressInv, SigintStops, FailuresInExit, Batches, SIGINT, Failed

\* BatchPromise and VmUpdate mean the same codes.
LEMMA SameCodes ==
  /\ Promise!SIGINT = SIGINT /\ Promise!OK = OK /\ Promise!ERR = ERR
  /\ \A c : Promise!VmCode(c) = VmCode(c)
  <1>1. Promise!VM_HANDLED = VM_HANDLED
    BY DEF Promise!VM_HANDLED, VM_HANDLED, Promise!OK, OK, Promise!OK_NO_UPDATES, OK_NO_UPDATES,
           Promise!ERR_VM, ERR_VM, Promise!ERR_VM_PRE, ERR_VM_PRE, Promise!ERR_VM_REFRESH,
           ERR_VM_REFRESH, Promise!ERR_VM_UPDATE, ERR_VM_UPDATE, Promise!ERR_VM_CLEANUP,
           ERR_VM_CLEANUP
  <1>2. /\ Promise!SIGINT = SIGINT /\ Promise!OK = OK /\ Promise!ERR = ERR
        /\ Promise!OK_NO_UPDATES = OK_NO_UPDATES
        /\ Promise!ERR_VM_UNHANDLED = ERR_VM_UNHANDLED
    BY DEF Promise!SIGINT, SIGINT, Promise!OK, OK, Promise!ERR, ERR, Promise!OK_NO_UPDATES,
           OK_NO_UPDATES, Promise!ERR_VM_UNHANDLED, ERR_VM_UNHANDLED
  <1> QED
    BY <1>1, <1>2 DEF Promise!VmCode, VmCode

\* What a batch returns when the user did not stop it: a small code that covers
\* every qube of it.
LEMMA RunBatchCode ==
  ASSUME NEW b \in Batches, NEW ends \in [Batch(b) -> Endings], NEW stop \in BOOLEAN,
         NEW ret, NEW statuses, Promise!Promised(ends, Dummy, stop, ret, statuses)
  PROVE  /\ stop => ret = SIGINT
         /\ ~stop => /\ ret \in VmCodes \cup {ERR} /\ ret # SIGINT
                     /\ \A q \in Batch(b) : VmCode(ends[q].code) <= ret
  <1>1. stop => ret = SIGINT
    BY SameCodes DEF Promise!Promised, Promise!Coded
  <1>2. ASSUME ~stop
        PROVE  /\ ret \in VmCodes \cup {ERR}
               /\ \A q \in Batch(b) : VmCode(ends[q].code) <= ret
    <2>1. DOMAIN ends = Batch(b)
      OBVIOUS
    <2>2. OK \in VmCodes
      BY DEF VmCodes, VM_HANDLED, OK, OK_NO_UPDATES
    <2> QED
      BY <1>2, <2>1, <2>2, VmCodeType, SameCodes DEF Promise!Promised, Promise!Coded
  <1>3. SIGINT \notin VmCodes \cup {ERR}
    BY CodesSmall DEF SIGINT
  <1> QED
    BY <1>1, <1>2, <1>3

\* A step that runs a batch keeps the invariant.
LEMMA RunBatchStep ==
  ASSUME MainInv, NEW b \in Batches, RunBatch(b)
  PROVE  MainInv'
  <1> USE DEF MainInv
  <1>1. PICK ends \in [Batch(b) -> Endings], stop \in BOOLEAN,
             ret \in VmCodes \cup {ERR, SIGINT},
             statuses \in [Batch(b) -> FinalStatus \cup {"none"}] :
          /\ Promise!Promised(ends, Dummy, stop, ret, statuses)
          /\ ended' = [q \in Qubes |-> IF q \in Batch(b) THEN ends[q] ELSE ended[q]]
          /\ report' = NewReport(b, statuses)
          /\ codes' = [codes EXCEPT ![b] = ret]
          /\ noUpdates' = StillNoUpdates(b, statuses)
          /\ stopped' = stop
          /\ AfterBatch(b, ret)
    BY DEF RunBatch
  <1>2. /\ stop => ret = SIGINT
        /\ ~stop => /\ ret \in VmCodes \cup {ERR} /\ ret # SIGINT
                    /\ \A q \in Batch(b) : VmCode(ends[q].code) <= ret
    BY <1>1, RunBatchCode
  <1>3. pc = b /\ pc # "exited" /\ UNCHANGED <<opts, targets, applied>>
    BY DEF RunBatch, Batches
  <1>4. TypeOK'
    <2>1. Batch(b) \subseteq Qubes
      BY DEF Batch, TypeOK
    <2>2. ended' \in [Qubes -> Endings \cup {NotRun}]
      BY <1>1, <2>1 DEF TypeOK
    <2>3. report' \in [Qubes -> FinalStatus \cup {"none"}]
      BY <1>1, <2>1 DEF TypeOK, NewReport
    <2>4. codes' \in [Batches -> VmCodes \cup {ERR, SIGINT}]
      BY <1>1 DEF TypeOK
    <2>5. noUpdates' \in BOOLEAN
      BY <1>1 DEF StillNoUpdates, TypeOK
    <2>6. /\ pc' \in Batches \cup {"apply", "exited", "crashed"}
          /\ exit' \in {-1, OK_NO_UPDATES, SIGINT, ERR} \cup VmCodes \cup ApplyCodes
      BY <1>1, BatchesOnly DEF AfterBatch, Exit, TypeOK
    <2> QED
      BY <1>1, <1>3, <2>2, <2>3, <2>4, <2>5, <2>6 DEF TypeOK
  <1>5. ProgressInv'
    <2>1. \A q \in Qubes \ targets : ended'[q] = NotRun
      BY <1>1 DEF ProgressInv, Batch
    <2>2. ASSUME pc' # "exited"
          PROVE  /\ exit' = -1 /\ applied' = -1 /\ ~stopped'
                 /\ \A c \in Batches : codes'[c] \in VmCodes \cup {ERR}
                 /\ \A q \in Qubes : Failed(q)' => VmCode(ended'[q].code) <= codes'[BatchOf(q)]
      <3>1. ret # SIGINT /\ ~stop /\ UNCHANGED exit
        BY <1>1, <1>2, <2>2 DEF AfterBatch, Exit
      <3>2. \A c \in Batches : codes'[c] = IF c = b THEN ret ELSE codes[c]
        BY <1>1 DEF TypeOK
      <3>3. ASSUME NEW q \in Qubes, Failed(q)'
            PROVE  VmCode(ended'[q].code) <= codes'[BatchOf(q)]
        <4>1. CASE q \in Batch(b)
          <5>1. BatchOf(q) = b /\ ended'[q] = ends[q]
            BY <4>1, <1>1 DEF Batch
          <5> QED
            BY <5>1, <4>1, <3>1, <3>2, <1>2
        <4>2. CASE q \notin Batch(b)
          <5>1. ended'[q] = ended[q] /\ Failed(q)
            BY <4>2, <1>1, <3>3 DEF Failed
          <5>2. q \in targets
            BY <5>1 DEF ProgressInv, Failed
          <5>3. BatchOf(q) \in Batches /\ BatchOf(q) # b
            BY <5>2, <4>2, BatchesOnly DEF Batch
          <5> QED
            BY <5>1, <5>3, <3>2, <1>3 DEF ProgressInv
        <4> QED
          BY <4>1, <4>2
      <3> QED
        BY <3>1, <3>2, <3>3, <1>1, <1>2, <1>3 DEF ProgressInv
    <2> QED
      BY <2>1, <2>2, <1>3 DEF ProgressInv
  <1>6. SigintStops' /\ FailuresInExit'
    BY <1>1, <1>2, <1>3
    DEF AfterBatch, Exit, SigintStops, FailuresInExit, ProgressInv, SIGINT, OK, OK_NO_UPDATES
  <1> QED
    BY <1>4, <1>5, <1>6

\* The last step: 0 and 100 are only returned if every code was 0.
LEMMA ApplyStep ==
  ASSUME MainInv, NEW a \in ApplyCodes, Apply(a)
  PROVE  MainInv'
  <1> USE DEF MainInv
  <1>1. /\ pc = "apply" /\ pc' = "exited" /\ applied' = a /\ exit' = Outcome(Worst(a))
        /\ UNCHANGED <<opts, targets, noUpdates, codes, report, ended, stopped>>
    BY DEF Apply, Exit
  <1>2. codes \in [Batches -> 0..26] /\ a \in 0..13
    BY <1>1, CodesSmall
    DEF TypeOK, ProgressInv, ApplyCodes, OK, ERR_SHUTDOWN_TMPL, ERR_SHUTDOWN_APP, ERR_START_APP
  <1>3. /\ Worst(a) \in {codes[b] : b \in Batches} \cup {a}
        /\ \A b \in Batches : codes[b] <= Worst(a)
        /\ a <= Worst(a)
    BY <1>2, WorstIsMax
  <1>4. Worst(a) \in 0..26 /\ Worst(a) \in VmCodes \cup {ERR} \cup ApplyCodes
    BY <1>1, <1>2, <1>3 DEF ProgressInv
  <1>5. Outcome(Worst(a)) \in {Worst(a), OK, OK_NO_UPDATES}
    BY DEF Outcome
  <1>6. TypeOK'
    <2>1. OK \in VmCodes
      BY DEF VmCodes, VM_HANDLED, OK, OK_NO_UPDATES
    <2> QED
      BY <2>1, <1>1, <1>4, <1>5 DEF TypeOK, Failed
  <1>7. ProgressInv'
    BY <1>1 DEF ProgressInv, Failed
  <1>8. SigintStops'
    BY <1>1, <1>4, <1>5 DEF SigintStops, ProgressInv, SIGINT, OK, OK_NO_UPDATES
  <1>9. FailuresInExit'
    <2> SUFFICES ASSUME exit' \in {OK, OK_NO_UPDATES}
                 PROVE  a = OK /\ \A q \in Qubes : ~Failed(q)
      BY <1>1 DEF FailuresInExit, Failed
    <2>1. Worst(a) = 0
      BY <1>1, <1>4 DEF Outcome, OK, OK_NO_UPDATES
    <2>2. a = OK /\ \A b \in Batches : codes[b] = 0
      BY <2>1, <1>2, <1>3 DEF OK
    <2>3. ASSUME NEW q \in Qubes, Failed(q) PROVE FALSE
      <3>1. VmCode(ended[q].code) <= 0
        BY <2>2, <2>3, <1>1, BatchesOnly DEF ProgressInv
      <3>2. VmCode(ended[q].code) \in 0..26
        BY VmCodeType, CodesSmall
      <3> QED
        BY <3>1, <3>2, <2>3 DEF Failed, OK
    <2> QED
      BY <2>2, <2>3
  <1> QED
    BY <1>6, <1>7, <1>8, <1>9

\* The other steps.
LEMMA OtherSteps ==
  ASSUME MainInv,
         \/ NoTargets \/ ApplyCrashes \/ UNCHANGED vars
         \/ \E b \in Batches : SkipBatch(b) \/ PrintBatch(b)
  PROVE  MainInv'
  <1> USE DEF MainInv, TypeOK, ProgressInv, SigintStops, FailuresInExit, Failed, history
  <1>1. CASE NoTargets
    <2>1. \A q \in Qubes : ended[q] = NotRun
      BY <1>1 DEF NoTargets
    <2>2. exit' \in {OK, OK_NO_UPDATES} /\ OK \in VmCodes /\ pc # "exited"
      BY <1>1 DEF NoTargets, Exit, VmCodes, VM_HANDLED, OK, OK_NO_UPDATES
    <2> QED
      BY <1>1, <2>1, <2>2 DEF NoTargets, Exit, SIGINT, OK, OK_NO_UPDATES
  <1>2. CASE ApplyCrashes
    BY <1>2 DEF ApplyCrashes
  <1>3. CASE UNCHANGED vars
    BY <1>3 DEF vars
  <1>4. ASSUME NEW b \in Batches, SkipBatch(b) PROVE MainInv'
    <2>1. pc # "exited" /\ pc' \in Batches \cup {"apply"} /\ pc' # "exited"
      BY <1>4, BatchesOnly DEF SkipBatch, Batches
    <2> QED
      BY <2>1, <1>4 DEF SkipBatch
  <1>5. ASSUME NEW b \in Batches, PrintBatch(b) PROVE MainInv'
    <2>1. pc # "exited" /\ pc' \in Batches \cup {"apply"} /\ pc' # "exited"
      BY <1>5, BatchesOnly DEF PrintBatch, Batches
    <2>2. noUpdates' \in BOOLEAN /\ report' \in [Qubes -> FinalStatus \cup {"none"}]
      BY <1>5 DEF PrintBatch, NewReport, FinalStatus
    <2> QED
      BY <2>1, <2>2, <1>5 DEF PrintBatch
  <1> QED
    BY <1>1, <1>2, <1>3, <1>4, <1>5

\* MainInv is invariant.
THEOREM MainInvHolds == Spec => []MainInv
  <1>1. MainInv /\ [Next]_vars => MainInv'
    BY RunBatchStep, ApplyStep, OtherSteps DEF Next, Stop
  <1> QED
    BY <1>1, MainInit, PTL DEF Spec

\* main returns 0 or 100 only if no qube failed and the changes were applied,
\* for any system, targets, options and ends of tasks.
THEOREM FailuresReachExit == Spec => []FailuresInExit
  <1>1. MainInv => FailuresInExit
    BY DEF MainInv
  <1> QED
    BY <1>1, MainInvHolds, PTL

\* An interrupted batch is the last thing main does, and gives 130.
THEOREM SigintEndsMain == Spec => []SigintStops
  <1>1. MainInv => SigintStops
    BY DEF MainInv
  <1> QED
    BY <1>1, MainInvHolds, PTL
--------------------------------------------------------------------------------
(***************************************************************************)
(* What main makes of the statuses.  Two of the three properties need a    *)
(* batch that reads statuses, that is one without --quiet.                 *)
(***************************************************************************)
\* Only a target that was updated, raised, or would be updated is a success.
SuccessInv ==
  \A q \in Qubes : report[q] = "success" =>
    q \in targets /\ (opts.dryRun \/ ended[q].status = "success" \/ Promise!Excepted(ended[q]))

\* As long as no_updates is true, a batch in which a qube was updated has a
\* code that is not 0.
NoUpdatesInv ==
  pc # "exited" /\ noUpdates =>
    \A q \in Qubes : ended[q].status = "success" => codes[BatchOf(q)] # OK

\* A status is missing after the second batch only if a task of it raised.
MissingInv ==
  pc \in {"derived", "apply"} =>
    \A q \in Batch("independent") : report[q] = "none" =>
      \E p \in Batch("independent") : Promise!Excepted(ended[p])

ReasonInv == SuccessInv /\ AppliedForAReason
StatusInv == NoUpdatesInv /\ NoUpdatesMeansNone /\ MissingInv /\ CrashNeedsException

\* The code of an exception is one of those dom0 knows, and not 0.
LEMMA ExceptionCode == \A e : Promise!Excepted(e) => VmCode(e.code) = ERR_VM_UNHANDLED
  BY DEF Promise!Excepted, Promise!ERR_VM_UNHANDLED, ERR_VM_UNHANDLED, VmCode, VM_HANDLED

\* How a task ended is never without a status.
LEMMA EndStatus ==
  ASSUME NEW b \in Batches, NEW ends \in [Batch(b) -> Endings], NEW q \in Batch(b)
  PROVE  ends[q].status \in FinalStatus /\ ends[q].status # "none"
  <1>1. ends[q] \in Promise!Ended
    BY VmUpdateAssumption
  <1>2. ends[q].status \in Promise!FinalStatus
    BY <1>1 DEF Promise!Ended
  <1>3. Promise!FinalStatus = FinalStatus
    BY DEF Promise!FinalStatus, FinalStatus
  <1> QED
    BY <1>2, <1>3 DEF FinalStatus

\* What RunBatch does, for one of its outcomes.
LEMMA RunBatchEffect ==
  ASSUME TypeOK, NEW b \in Batches, RunBatch(b)
  PROVE  \E ends \in [Batch(b) -> Endings], stop \in BOOLEAN,
            ret \in VmCodes \cup {ERR, SIGINT},
            statuses \in [Batch(b) -> FinalStatus \cup {"none"}] :
           /\ Promise!Promised(ends, Dummy, stop, ret, statuses)
           /\ \A q \in Batch(b) : ended'[q] = ends[q] /\ report'[q] = statuses[q]
           /\ \A q \in Qubes \ Batch(b) : ended'[q] = ended[q] /\ report'[q] = report[q]
           /\ codes'[b] = ret
           /\ \A c \in Batches \ {b} : codes'[c] = codes[c]
           /\ noUpdates' = StillNoUpdates(b, statuses)
           /\ AfterBatch(b, ret)
  <1>1. Batch(b) \subseteq Qubes
    BY DEF Batch, TypeOK
  <1>2. PICK ends \in [Batch(b) -> Endings], stop \in BOOLEAN,
             ret \in VmCodes \cup {ERR, SIGINT},
             statuses \in [Batch(b) -> FinalStatus \cup {"none"}] :
          /\ Promise!Promised(ends, Dummy, stop, ret, statuses)
          /\ ended' = [q \in Qubes |-> IF q \in Batch(b) THEN ends[q] ELSE ended[q]]
          /\ report' = NewReport(b, statuses)
          /\ codes' = [codes EXCEPT ![b] = ret]
          /\ noUpdates' = StillNoUpdates(b, statuses)
          /\ AfterBatch(b, ret)
    BY DEF RunBatch
  <1>3. /\ \A q \in Batch(b) : ended'[q] = ends[q] /\ report'[q] = statuses[q]
        /\ \A q \in Qubes \ Batch(b) : ended'[q] = ended[q] /\ report'[q] = report[q]
    BY <1>1, <1>2 DEF NewReport
  <1>4. codes'[b] = ret /\ \A c \in Batches \ {b} : codes'[c] = codes[c]
    BY <1>2 DEF TypeOK
  <1> QED
    BY <1>2, <1>3, <1>4

LEMMA ReasonStep ==
  ASSUME MainInv, ReasonInv, [Next]_vars
  PROVE  ReasonInv'
  <1> USE DEF ReasonInv
  <1>1. CASE NoTargets
    BY <1>1 DEF NoTargets, Exit, SuccessInv, AppliedForAReason, history
  <1>2. ASSUME NEW b \in Batches, SkipBatch(b) PROVE ReasonInv'
    BY <1>2 DEF SkipBatch, SuccessInv, AppliedForAReason, history
  <1>3. ASSUME NEW b \in Batches, PrintBatch(b) PROVE ReasonInv'
    <2>1. SuccessInv'
      BY <1>3 DEF PrintBatch, NewReport, SuccessInv, Batch, history
    <2> QED
      BY <2>1, <1>3 DEF PrintBatch, AppliedForAReason, history
  <1>4. ASSUME NEW b \in Batches, RunBatch(b) PROVE ReasonInv'
    <2>1. PICK ends \in [Batch(b) -> Endings], stop \in BOOLEAN,
               ret \in VmCodes \cup {ERR, SIGINT},
               statuses \in [Batch(b) -> FinalStatus \cup {"none"}] :
            /\ Promise!Promised(ends, Dummy, stop, ret, statuses)
            /\ \A q \in Batch(b) : ended'[q] = ends[q] /\ report'[q] = statuses[q]
            /\ \A q \in Qubes \ Batch(b) : ended'[q] = ended[q] /\ report'[q] = report[q]
      BY <1>4, RunBatchEffect DEF MainInv
    <2>2. UNCHANGED <<opts, targets, applied>> /\ pc # "exited"
      BY <1>4 DEF RunBatch, Batches
    <2>3. ASSUME NEW q \in Batch(b), statuses[q] = "success"
          PROVE  ends[q].status = "success" \/ Promise!Excepted(ends[q])
      BY <2>1, <2>3 DEF Promise!Promised, Promise!Reported
    <2>4. SuccessInv'
      BY <2>1, <2>2, <2>3 DEF SuccessInv, Batch
    <2>5. applied' = -1
      BY <2>2 DEF MainInv, ProgressInv
    <2> QED
      BY <2>4, <2>5 DEF AppliedForAReason
  <1>5. ASSUME NEW a \in ApplyCodes, Apply(a) PROVE ReasonInv'
    <2>1. SuccessInv'
      BY <1>5 DEF Apply, SuccessInv
    <2>2. ASSUME a # OK
          PROVE  \E q \in targets : Class[q] = "TemplateVM" /\
                   (ended[q].status = "success" \/ Promise!Excepted(ended[q]))
      <3>1. ~opts.dryRun /\ UpdatedTemplates # {}
        BY <1>5, <2>2 DEF Apply
      <3>2. PICK q \in targets : report[q] = "success" /\ Class[q] = "TemplateVM"
        BY <3>1 DEF UpdatedTemplates, Batch
      <3> QED
        BY <3>1, <3>2 DEF SuccessInv, MainInv, TypeOK
    <2>3. applied' = a /\ UNCHANGED <<targets, ended>>
      BY <1>5 DEF Apply
    <2> QED
      BY <2>1, <2>2, <2>3 DEF AppliedForAReason
  <1>6. CASE ApplyCrashes
    BY <1>6 DEF ApplyCrashes, SuccessInv, AppliedForAReason, history
  <1>7. CASE UNCHANGED vars
    BY <1>7 DEF vars, SuccessInv, AppliedForAReason
  <1> QED
    BY <1>1, <1>2, <1>3, <1>4, <1>5, <1>6, <1>7 DEF Next, Stop

\* One batch that is not quiet.
LEMMA StatusRun ==
  ASSUME MainInv, StatusInv, ~Dummy, NEW b \in Batches, RunBatch(b)
  PROVE  StatusInv'
  <1> USE DEF StatusInv
  <1>1. PICK ends \in [Batch(b) -> Endings], stop \in BOOLEAN,
             ret \in VmCodes \cup {ERR, SIGINT},
             statuses \in [Batch(b) -> FinalStatus \cup {"none"}] :
          /\ Promise!Promised(ends, Dummy, stop, ret, statuses)
          /\ \A q \in Batch(b) : ended'[q] = ends[q] /\ report'[q] = statuses[q]
          /\ \A q \in Qubes \ Batch(b) : ended'[q] = ended[q] /\ report'[q] = report[q]
          /\ codes'[b] = ret
          /\ \A c \in Batches \ {b} : codes'[c] = codes[c]
          /\ noUpdates' = StillNoUpdates(b, statuses)
          /\ AfterBatch(b, ret)
    BY RunBatchEffect DEF MainInv
  <1>2. /\ pc = b /\ pc # "exited" /\ targets' = targets
        /\ exit = -1
    BY DEF RunBatch, Batches, MainInv, ProgressInv
  <1>3. \/ ret = SIGINT /\ pc' = "exited" /\ exit' = SIGINT
        \/ ret # SIGINT /\ ~stop /\ pc' = After(b) /\ exit' = -1
    BY <1>1, <1>2, RunBatchCode DEF AfterBatch, Exit
  <1>4. ASSUME NEW q \in Batch(b), statuses[q] # ends[q].status
        PROVE  \E p \in Batch(b) : Promise!Excepted(ends[p])
    BY <1>1, <1>4 DEF Promise!Promised, Promise!Reported
  <1>5. Batch(b) \subseteq Qubes /\ \A q \in Batch(b) : BatchOf(q) = b
    BY DEF Batch, MainInv, TypeOK
  <1>6. NoUpdatesInv'
    <2> SUFFICES ASSUME pc' # "exited", noUpdates', NEW q \in Qubes, ended'[q].status = "success"
                 PROVE  codes'[BatchOf(q)] # OK
      BY DEF NoUpdatesInv
    <2>1. noUpdates /\ \A r \in Batch(b) : statuses[r] \in {"none", "no updates"}
      BY <1>1 DEF StillNoUpdates
    <2>2. CASE q \in Batch(b)
      <3>1. ends[q].status = "success"
        BY <2>2, <1>1
      <3>2. PICK p \in Batch(b) : Promise!Excepted(ends[p])
        BY <3>1, <2>1, <2>2, <1>4
      <3>3. ERR_VM_UNHANDLED <= ret /\ ret \in 0..26
        BY <3>2, <1>1, <1>3, RunBatchCode, ExceptionCode, CodesSmall
      <3> QED
        BY <3>3, <1>1, <1>5, <2>2 DEF ERR_VM_UNHANDLED, OK
    <2>3. CASE q \notin Batch(b)
      <3>1. ended[q].status = "success"
        BY <2>3, <1>1
      <3>2. codes[BatchOf(q)] # OK
        BY <3>1, <2>1, <1>2 DEF NoUpdatesInv
      <3>3. q \in targets
        BY <3>1 DEF MainInv, ProgressInv, NotRun
      <3>4. BatchOf(q) \in Batches \ {b}
        BY <3>3, <2>3, BatchesOnly DEF Batch
      <3> QED
        BY <3>2, <3>4, <1>1
    <2> QED
      BY <2>2, <2>3
  <1>7. MissingInv'
    <2> SUFFICES ASSUME pc' \in {"derived", "apply"}, NEW q \in Batch("independent"),
                        report'[q] = "none"
                 PROVE  \E p \in Batch("independent") : Promise!Excepted(ended'[p])
      BY <1>2 DEF MissingInv, Batch
    <2>1. pc' = After(b) /\ b # "admin"
      BY <1>3 DEF After
    <2>2. CASE b = "independent"
      <3>1. statuses[q] = "none" /\ ends[q].status # "none"
        BY <2>2, <1>1, EndStatus
      <3>2. PICK p \in Batch(b) : Promise!Excepted(ends[p])
        BY <3>1, <2>2, <1>4
      <3> QED
        BY <3>2, <2>2, <1>1
    <2>3. CASE b = "derived"
      <3>1. \A p \in Batch("independent") : p \in Qubes \ Batch(b)
        BY <2>3 DEF Batch, MainInv, TypeOK
      <3>2. report[q] = "none" /\ pc = "derived"
        BY <3>1, <1>1, <1>2, <2>3
      <3>3. PICK p \in Batch("independent") : Promise!Excepted(ended[p])
        BY <3>2 DEF MissingInv
      <3> QED
        BY <3>1, <3>3, <1>1
    <2> QED
      BY <2>1, <2>2, <2>3 DEF Batches
  <1>8. NoUpdatesMeansNone'
    BY <1>3 DEF NoUpdatesMeansNone, SIGINT, OK_NO_UPDATES
  <1>9. CrashNeedsException'
    BY <1>3, BatchesOnly DEF CrashNeedsException, Batches
  <1> QED
    BY <1>6, <1>7, <1>8, <1>9

\* The last step: 100 is only returned if every code was 0.
LEMMA StatusApply ==
  ASSUME MainInv, StatusInv, NEW a \in ApplyCodes, Apply(a)
  PROVE  StatusInv'
  <1> USE DEF StatusInv
  <1>1. /\ pc = "apply" /\ pc' = "exited" /\ exit' = Outcome(Worst(a))
        /\ UNCHANGED <<opts, targets, noUpdates, codes, report, ended, stopped>>
    BY DEF Apply, Exit
  <1>2. codes \in [Batches -> 0..26] /\ a \in 0..13
    BY <1>1, CodesSmall
    DEF MainInv, TypeOK, ProgressInv, ApplyCodes, OK, ERR_SHUTDOWN_TMPL, ERR_SHUTDOWN_APP,
        ERR_START_APP
  <1>3. /\ Worst(a) \in {codes[b] : b \in Batches} \cup {a}
        /\ \A b \in Batches : codes[b] <= Worst(a)
    BY <1>2, WorstIsMax
  <1>4. Worst(a) \in 0..26
    BY <1>2, <1>3
  <1>5. ASSUME exit' = OK_NO_UPDATES
        PROVE  opts.signal /\ \A q \in Qubes : ended[q].status # "success"
    <2>1. Worst(a) = OK /\ noUpdates /\ opts.signal
      BY <1>1, <1>4, <1>5 DEF Outcome, OK, OK_NO_UPDATES
    <2>2. ASSUME NEW q \in Qubes, ended[q].status = "success" PROVE FALSE
      <3>1. codes[BatchOf(q)] # OK
        BY <2>1, <2>2, <1>1 DEF NoUpdatesInv
      <3>2. codes[BatchOf(q)] \in 0..26 /\ codes[BatchOf(q)] <= OK
        BY <1>2, <1>3, <2>1, BatchesOnly
      <3> QED
        BY <3>1, <3>2 DEF OK
    <2> QED
      BY <2>1, <2>2
  <1>6. NoUpdatesInv' /\ MissingInv' /\ CrashNeedsException'
    BY <1>1 DEF NoUpdatesInv, MissingInv, CrashNeedsException
  <1> QED
    BY <1>1, <1>5, <1>6 DEF NoUpdatesMeansNone

LEMMA StatusStep ==
  ASSUME MainInv, StatusInv, ~Dummy, [Next]_vars
  PROVE  StatusInv'
  <1> USE DEF StatusInv, history
  <1>1. CASE NoTargets
    <2>1. \A q \in Qubes : ended[q] = NotRun
      BY <1>1 DEF NoTargets, MainInv, ProgressInv
    <2>2. NoUpdatesMeansNone'
      BY <1>1, <2>1
      DEF NoTargets, Exit, NoUpdatesMeansNone, NotRun, OK, OK_NO_UPDATES
    <2> QED
      BY <1>1, <2>2 DEF NoTargets, Exit, NoUpdatesInv, MissingInv, CrashNeedsException
  <1>2. ASSUME NEW b \in Batches, SkipBatch(b) PROVE StatusInv'
    <2>1. /\ pc = b /\ pc' = After(b) /\ pc # "exited" /\ pc' \notin {"exited", "crashed"}
          /\ UNCHANGED <<opts, targets, noUpdates, codes, report, exit, ended>>
      BY <1>2, BatchesOnly DEF SkipBatch, Batches
    <2>2. MissingInv'
      <3>1. CASE b = "independent"
        BY <1>2, <2>1, <3>1 DEF MissingInv, Batch, SkipBatch
      <3>2. CASE b = "derived"
        BY <2>1, <3>2 DEF MissingInv, Batch, BatchOf
      <3>3. CASE b = "admin"
        BY <2>1, <3>3 DEF MissingInv, After
      <3> QED
        BY <3>1, <3>2, <3>3 DEF Batches
    <2> QED
      BY <2>1, <2>2 DEF NoUpdatesInv, NoUpdatesMeansNone, CrashNeedsException, BatchOf
  <1>3. ASSUME NEW b \in Batches, PrintBatch(b) PROVE StatusInv'
    <2>1. /\ pc = b /\ pc' = After(b) /\ pc # "exited" /\ pc' \notin {"exited", "crashed"}
          /\ UNCHANGED <<opts, targets, codes, exit, ended>>
      BY <1>3, BatchesOnly DEF PrintBatch, Batches
    <2>2. noUpdates' => noUpdates
      BY <1>3 DEF PrintBatch
    <2>3. MissingInv'
      <3>1. CASE b = "independent"
        <4>1. \A q \in Batch(b) : report'[q] = "success"
          BY <1>3, <3>1 DEF PrintBatch, NewReport, Batch, MainInv, TypeOK
        <4> QED
          BY <2>1, <3>1, <4>1 DEF MissingInv, Batch
      <3>2. CASE b = "derived"
        <4>1. \A q \in Batch("independent") : report'[q] = report[q]
          BY <1>3, <3>2 DEF PrintBatch, NewReport, Batch, MainInv, TypeOK
        <4> QED
          BY <2>1, <3>2, <4>1 DEF MissingInv, Batch, BatchOf
      <3>3. CASE b = "admin"
        BY <2>1, <3>3 DEF MissingInv, After
      <3> QED
        BY <3>1, <3>2, <3>3 DEF Batches
    <2> QED
      BY <2>1, <2>2, <2>3 DEF NoUpdatesInv, NoUpdatesMeansNone, CrashNeedsException, BatchOf
  <1>4. ASSUME NEW b \in Batches, RunBatch(b) PROVE StatusInv'
    BY <1>4, StatusRun
  <1>5. ASSUME NEW a \in ApplyCodes, Apply(a) PROVE StatusInv'
    BY <1>5, StatusApply
  <1>6. CASE ApplyCrashes
    <2>1. PICK q \in Batch("independent") : report[q] = "none"
      BY <1>6 DEF ApplyCrashes
    <2>2. PICK p \in Batch("independent") : Promise!Excepted(ended[p])
      BY <1>6, <2>1 DEF ApplyCrashes, MissingInv
    <2>3. p \in Qubes
      BY DEF Batch, MainInv, TypeOK
    <2>4. CrashNeedsException'
      BY <1>6, <2>2, <2>3 DEF ApplyCrashes, CrashNeedsException
    <2> QED
      BY <1>6, <2>4 DEF ApplyCrashes, NoUpdatesInv, NoUpdatesMeansNone, MissingInv
  <1>7. CASE UNCHANGED vars
    BY <1>7
    DEF vars, NoUpdatesInv, NoUpdatesMeansNone, MissingInv, CrashNeedsException, Batch, BatchOf
  <1> QED
    BY <1>1, <1>2, <1>3, <1>4, <1>5, <1>6, <1>7 DEF Next, Stop

LEMMA StatusInit == Init => ReasonInv /\ StatusInv
  BY DEF Init, ReasonInv, SuccessInv, AppliedForAReason, StatusInv, NoUpdatesInv, NotRun,
         NoUpdatesMeansNone, MissingInv, CrashNeedsException

\* Nothing is shut down or restarted unless a template was updated, or its task
\* raised, whatever the options.
THEOREM AppliesForAReason == Spec => []AppliedForAReason
  <1>1. Init => ReasonInv
    BY StatusInit
  <1>2. MainInv /\ ReasonInv /\ [Next]_vars => ReasonInv'
    BY ReasonStep
  <1>3. ReasonInv => AppliedForAReason
    BY DEF ReasonInv
  <1> QED
    BY <1>1, <1>2, <1>3, MainInvHolds, PTL DEF Spec

\* With 100 main says that no qube was updated, unless it reads no statuses.
THEOREM NoUpdatesIsTrue ==
  ASSUME ~Dummy
  PROVE  Spec => []NoUpdatesMeansNone
  <1>1. Init => StatusInv
    BY StatusInit
  <1>2. MainInv /\ StatusInv /\ [Next]_vars => StatusInv'
    BY StatusStep
  <1>3. StatusInv => NoUpdatesMeansNone
    BY DEF StatusInv
  <1> QED
    BY <1>1, <1>2, <1>3, MainInvHolds, PTL DEF Spec

\* main that reads statuses misses one only after an exception in a task.
THEOREM CrashesNeedExceptions ==
  ASSUME ~Dummy
  PROVE  Spec => []CrashNeedsException
  <1>1. Init => StatusInv
    BY StatusInit
  <1>2. MainInv /\ StatusInv /\ [Next]_vars => StatusInv'
    BY StatusStep
  <1>3. StatusInv => CrashNeedsException
    BY DEF StatusInv
  <1> QED
    BY <1>1, <1>2, <1>3, MainInvHolds, PTL DEF Spec
================================================================================
