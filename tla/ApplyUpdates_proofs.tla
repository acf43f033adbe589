--------------------------- MODULE ApplyUpdates_proofs --------------------------
(***************************************************************************)
(* Proofs about ApplyUpdates for any templates, derived qubes and bounds.  *)
(***************************************************************************)
EXTENDS ApplyUpdates, TLAPS

\* The invariant holds when the batch has ended and nothing was done yet.
LEMMA ApplyInit == Init => ApplyInv
  BY ApplyAssumption
  DEF Init, ApplyInv, TypeOK, LoopInv, CommitInv, RefusalInv, CodesTruthful,
      ServicesInv, OldInv, Ahead, Running, Qubes, OK, ERR_SHUTDOWN_APP

\* Every step keeps the variables in their types.
LEMMA TypeStep ==
  ASSUME TypeOK, LoopInv, [Next]_vars
  PROVE  TypeOK'
  <1> USE ApplyAssumption DEF TypeOK, LoopInv, Running, Qubes, MaxOf,
                           OK, ERR_SHUTDOWN_TMPL, ERR_SHUTDOWN_APP, ERR_START_APP
  <1>1. CASE Start
    BY <1>1 DEF Start, vars, given, sets, history, Enter, Choose, Derived, Services
  <1>2. CASE CallsDone
    BY <1>2 DEF CallsDone, vars, given, sets, history
  <1>3. CASE AfterTemplates
    BY <1>3 DEF AfterTemplates, vars, given, sets, history, Enter, Choose, Derived, Services
  <1>4. CASE AfterRestart
    BY <1>4 DEF AfterRestart, vars, given, sets, history
  <1>5. CASE AfterBoot
    BY <1>5 DEF AfterBoot, vars, given, sets, history, Enter
  <1>6. CASE AfterShutdown
    BY <1>6 DEF AfterShutdown, vars, given, sets, history
  <1>7. ASSUME NEW q \in Qubes, ShutdownCall(q) PROVE TypeOK'
    BY <1>7 DEF ShutdownCall, vars, given, sets, history
  <1>8. ASSUME NEW q \in Qubes, ShutdownRefused(q) PROVE TypeOK'
    BY <1>8 DEF ShutdownRefused, vars, given, sets, history
  <1>9. ASSUME NEW q \in Apps, Boot(q) PROVE TypeOK'
    BY <1>9 DEF Boot, vars, given, sets, history
  <1>10. ASSUME NEW q \in Apps, BootRefused(q) PROVE TypeOK'
    BY <1>10 DEF BootRefused, vars, given, sets, history
  <1>11. ASSUME NEW q \in Qubes, Halt(q) PROVE TypeOK'
    BY <1>11 DEF Halt, vars, given, sets, history
  <1>12. ASSUME NEW q \in Qubes, UserStops(q) PROVE TypeOK'
    BY <1>12 DEF UserStops, vars, given, sets, history
  <1>13. ASSUME NEW q \in Qubes, UserStarts(q) PROVE TypeOK'
    BY <1>13 DEF UserStarts, vars, given, sets, history
  <1>14. CASE UNCHANGED vars
    BY <1>14 DEF vars, given, sets, history
  <1> QED
    BY <1>1, <1>2, <1>3, <1>4, <1>5, <1>6, <1>7, <1>8, <1>9, <1>10, <1>11, <1>12, <1>13, <1>14 DEF Next, Program, Done

\* Every loop goes through qubes of its own set only.
LEMMA LoopStep ==
  ASSUME TypeOK, LoopInv, [Next]_vars
  PROVE  LoopInv'
  <1> USE DEF TypeOK, LoopInv, Running, Qubes
  <1>1. CASE Start
    BY <1>1 DEF Start, vars, given, sets, history, Enter, Choose, Derived, Services
  <1>2. CASE CallsDone
    BY <1>2 DEF CallsDone, vars, given, sets, history
  <1>3. CASE AfterTemplates
    BY <1>3 DEF AfterTemplates, vars, given, sets, history, Enter, Choose, Derived, Services
  <1>4. CASE AfterRestart
    BY <1>4 DEF AfterRestart, vars, given, sets, history
  <1>5. CASE AfterBoot
    BY <1>5 DEF AfterBoot, vars, given, sets, history, Enter
  <1>6. CASE AfterShutdown
    BY <1>6 DEF AfterShutdown, vars, given, sets, history
  <1>7. ASSUME NEW q \in Qubes, ShutdownCall(q) PROVE LoopInv'
    BY <1>7 DEF ShutdownCall, vars, given, sets, history
  <1>8. ASSUME NEW q \in Qubes, ShutdownRefused(q) PROVE LoopInv'
    BY <1>8 DEF ShutdownRefused, vars, given, sets, history
  <1>9. ASSUME NEW q \in Apps, Boot(q) PROVE LoopInv'
    BY <1>9 DEF Boot, vars, given, sets, history
  <1>10. ASSUME NEW q \in Apps, BootRefused(q) PROVE LoopInv'
    BY <1>10 DEF BootRefused, vars, given, sets, history
  <1>11. ASSUME NEW q \in Qubes, Halt(q) PROVE LoopInv'
    BY <1>11 DEF Halt, vars, given, sets, history
  <1>12. ASSUME NEW q \in Qubes, UserStops(q) PROVE LoopInv'
    BY <1>12 DEF UserStops, vars, given, sets, history
  <1>13. ASSUME NEW q \in Qubes, UserStarts(q) PROVE LoopInv'
    BY <1>13 DEF UserStarts, vars, given, sets, history
  <1>14. CASE UNCHANGED vars
    BY <1>14 DEF vars, given, sets, history
  <1> QED
    BY <1>1, <1>2, <1>3, <1>4, <1>5, <1>6, <1>7, <1>8, <1>9, <1>10, <1>11, <1>12, <1>13, <1>14 DEF Next, Program, Done

\* Templates are handled, refused or down with their update, and the qubes chosen
\* for restart or shutdown are those of templates that are down.
LEMMA CommitStep ==
  ASSUME TypeOK, LoopInv, CommitInv, [Next]_vars
  PROVE  CommitInv'
  <1> USE ApplyAssumption DEF TypeOK, LoopInv, CommitInv, Running, Qubes,
                           OK, ERR_SHUTDOWN_TMPL, ERR_SHUTDOWN_APP, ERR_START_APP
  <1>1. CASE Start
    BY <1>1 DEF Start, vars, given, sets, history, Enter, Choose, Derived, Services
  <1>2. CASE CallsDone
    BY <1>2 DEF CallsDone, vars, given, sets, history
  <1>3. CASE AfterTemplates
    BY <1>3 DEF AfterTemplates, vars, given, sets, history, Enter, Choose, Derived, Services
  <1>4. CASE AfterRestart
    BY <1>4 DEF AfterRestart, vars, given, sets, history
  <1>5. CASE AfterBoot
    BY <1>5 DEF AfterBoot, vars, given, sets, history, Enter
  <1>6. CASE AfterShutdown
    BY <1>6 DEF AfterShutdown, vars, given, sets, history
  <1>7. ASSUME NEW q \in Qubes, ShutdownCall(q) PROVE CommitInv'
    BY <1>7 DEF ShutdownCall, vars, given, sets, history
  <1>8. ASSUME NEW q \in Qubes, ShutdownRefused(q) PROVE CommitInv'
    BY <1>8 DEF ShutdownRefused, vars, given, sets, history
  <1>9. ASSUME NEW q \in Apps, Boot(q) PROVE CommitInv'
    BY <1>9 DEF Boot, vars, given, sets, history
  <1>10. ASSUME NEW q \in Apps, BootRefused(q) PROVE CommitInv'
    BY <1>10 DEF BootRefused, vars, given, sets, history
  <1>11. ASSUME NEW q \in Qubes, Halt(q) PROVE CommitInv'
    BY <1>11 DEF Halt, vars, given, sets, history
  <1>12. ASSUME NEW q \in Qubes, UserStops(q) PROVE CommitInv'
    BY <1>12 DEF UserStops, vars, given, sets, history
  <1>13. ASSUME NEW q \in Qubes, UserStarts(q) PROVE CommitInv'
    BY <1>13 DEF UserStarts, vars, given, sets, history
  <1>14. CASE UNCHANGED vars
    BY <1>14 DEF vars, given, sets, history
  <1> QED
    BY <1>1, <1>2, <1>3, <1>4, <1>5, <1>6, <1>7, <1>8, <1>9, <1>10, <1>11, <1>12, <1>13, <1>14 DEF Next, Program, Done

\* The codes keep track of the refusals, loop by loop.
LEMMA RefusalStep ==
  ASSUME TypeOK, LoopInv, RefusalInv, [Next]_vars
  PROVE  RefusalInv'
  <1> USE DEF TypeOK, LoopInv, RefusalInv, CodesTruthful, MaxOf,
           OK, ERR_SHUTDOWN_TMPL, ERR_SHUTDOWN_APP, ERR_START_APP
  <1>1. CASE Start
    BY <1>1 DEF Start, vars, given, sets, history, Enter, Choose, Derived, Services
  <1>2. CASE CallsDone
    BY <1>2 DEF CallsDone, vars, given, sets, history
  <1>3. CASE AfterTemplates
    BY <1>3 DEF AfterTemplates, vars, given, sets, history, Enter, Choose, Derived, Services
  <1>4. CASE AfterRestart
    BY <1>4 DEF AfterRestart, vars, given, sets, history
  <1>5. CASE AfterBoot
    BY <1>5 DEF AfterBoot, vars, given, sets, history, Enter
  <1>6. CASE AfterShutdown
    BY <1>6 DEF AfterShutdown, vars, given, sets, history
  <1>7. ASSUME NEW q \in Qubes, ShutdownCall(q) PROVE RefusalInv'
    BY <1>7 DEF ShutdownCall, vars, given, sets, history
  <1>8. ASSUME NEW q \in Qubes, ShutdownRefused(q) PROVE RefusalInv'
    BY <1>8 DEF ShutdownRefused, vars, given, sets, history
  <1>9. ASSUME NEW q \in Apps, Boot(q) PROVE RefusalInv'
    BY <1>9 DEF Boot, vars, given, sets, history
  <1>10. ASSUME NEW q \in Apps, BootRefused(q) PROVE RefusalInv'
    BY <1>10 DEF BootRefused, vars, given, sets, history
  <1>11. ASSUME NEW q \in Qubes, Halt(q) PROVE RefusalInv'
    BY <1>11 DEF Halt, vars, given, sets, history
  <1>12. ASSUME NEW q \in Qubes, UserStops(q) PROVE RefusalInv'
    BY <1>12 DEF UserStops, vars, given, sets, history
  <1>13. ASSUME NEW q \in Qubes, UserStarts(q) PROVE RefusalInv'
    BY <1>13 DEF UserStarts, vars, given, sets, history
  <1>14. CASE UNCHANGED vars
    BY <1>14 DEF vars, given, sets, history
  <1> QED
    BY <1>1, <1>2, <1>3, <1>4, <1>5, <1>6, <1>7, <1>8, <1>9, <1>10, <1>11, <1>12, <1>13, <1>14 DEF Next, Program, Done

\* Only a shutdown call or a user takes a service qube down, and it is awaited and
\* started again.
LEMMA ServicesStep ==
  ASSUME TypeOK, LoopInv, ServicesInv, OldInv, [Next]_vars
  PROVE  ServicesInv'
  <1> USE ApplyAssumption DEF TypeOK, LoopInv, ServicesInv, OldInv, Running, Qubes
  <1>1. CASE Start
    BY <1>1 DEF Start, vars, given, sets, history, Enter, Choose, Derived, Services
  <1>2. CASE CallsDone
    BY <1>2 DEF CallsDone, vars, given, sets, history
  <1>3. CASE AfterTemplates
    BY <1>3 DEF AfterTemplates, vars, given, sets, history, Enter, Choose, Derived, Services
  <1>4. CASE AfterRestart
    BY <1>4 DEF AfterRestart, vars, given, sets, history
  <1>5. CASE AfterBoot
    BY <1>5 DEF AfterBoot, vars, given, sets, history, Enter
  <1>6. CASE AfterShutdown
    BY <1>6 DEF AfterShutdown, vars, given, sets, history
  <1>7. ASSUME NEW q \in Qubes, ShutdownCall(q) PROVE ServicesInv'
    BY <1>7 DEF ShutdownCall, vars, given, sets, history
  <1>8. ASSUME NEW q \in Qubes, ShutdownRefused(q) PROVE ServicesInv'
    BY <1>8 DEF ShutdownRefused, vars, given, sets, history
  <1>9. ASSUME NEW q \in Apps, Boot(q) PROVE ServicesInv'
    BY <1>9 DEF Boot, vars, given, sets, history
  <1>10. ASSUME NEW q \in Apps, BootRefused(q) PROVE ServicesInv'
    BY <1>10 DEF BootRefused, vars, given, sets, history
  <1>11. ASSUME NEW q \in Qubes, Halt(q) PROVE ServicesInv'
    BY <1>11 DEF Halt, vars, given, sets, history
  <1>12. ASSUME NEW q \in Qubes, UserStops(q) PROVE ServicesInv'
    BY <1>12 DEF UserStops, vars, given, sets, history
  <1>13. ASSUME NEW q \in Qubes, UserStarts(q) PROVE ServicesInv'
    BY <1>13 DEF UserStarts, vars, given, sets, history
  <1>14. CASE UNCHANGED vars
    BY <1>14 DEF vars, given, sets, history
  <1> QED
    BY <1>1, <1>2, <1>3, <1>4, <1>5, <1>6, <1>7,
       <1>8, <1>9, <1>10, <1>11, <1>12, <1>13, <1>14 DEF Next, Program, Done

\* A qube without the update is ahead of the loops, and none appears meanwhile:
\* what is started again is derived from templates that have halted.
LEMMA OldStep ==
  ASSUME TypeOK, LoopInv, CommitInv, RefusalInv, OldInv, [Next]_vars
  PROVE  OldInv'
  <1> USE ApplyAssumption
      DEF TypeOK, LoopInv, CommitInv, RefusalInv, OldInv, Ahead, Running, Qubes,
          OK, ERR_SHUTDOWN_TMPL, ERR_SHUTDOWN_APP, ERR_START_APP
  <1>1. CASE Start
    BY <1>1 DEF Start, vars, given, sets, history, Enter, Choose, Derived, Services
  <1>2. CASE CallsDone
    BY <1>2 DEF CallsDone, vars, given, sets, history
  <1>3. CASE AfterTemplates
    BY <1>3 DEF AfterTemplates, vars, given, sets, history, Enter, Choose, Derived, Services
  <1>4. CASE AfterRestart
    BY <1>4 DEF AfterRestart, vars, given, sets, history
  <1>5. CASE AfterBoot
    BY <1>5 DEF AfterBoot, vars, given, sets, history, Enter
  <1>6. CASE AfterShutdown
    BY <1>6 DEF AfterShutdown, vars, given, sets, history
  <1>7. ASSUME NEW q \in Qubes, ShutdownCall(q) PROVE OldInv'
    BY <1>7 DEF ShutdownCall, vars, given, sets, history
  <1>8. ASSUME NEW q \in Qubes, ShutdownRefused(q) PROVE OldInv'
    BY <1>8 DEF ShutdownRefused, vars, given, sets, history
  <1>9. ASSUME NEW q \in Apps, Boot(q) PROVE OldInv'
    BY <1>9 DEF Boot, vars, given, sets, history
  <1>10. ASSUME NEW q \in Apps, BootRefused(q) PROVE OldInv'
    BY <1>10 DEF BootRefused, vars, given, sets, history
  <1>11. ASSUME NEW q \in Qubes, Halt(q) PROVE OldInv'
    BY <1>11 DEF Halt, vars, given, sets, history
  <1>12. ASSUME NEW q \in Qubes, UserStops(q) PROVE OldInv'
    BY <1>12 DEF UserStops, vars, given, sets, history
  <1>13. ASSUME NEW q \in Qubes, UserStarts(q) PROVE OldInv'
    BY <1>13 DEF UserStarts, vars, given, sets, history
  <1>14. CASE UNCHANGED vars
    BY <1>14 DEF vars, given, sets, history
  <1> QED
    BY <1>1, <1>2, <1>3, <1>4, <1>5, <1>6, <1>7,
       <1>8, <1>9, <1>10, <1>11, <1>12, <1>13, <1>14 DEF Next, Program, Done

\* ApplyInv is invariant.
THEOREM ApplyInvHolds == Spec => []ApplyInv
  <1>1. ApplyInv /\ [Next]_vars => ApplyInv'
    BY TypeStep, LoopStep, CommitStep, RefusalStep, ServicesStep, OldStep DEF ApplyInv
  <1> QED
    BY <1>1, ApplyInit, PTL DEF Spec

\* The variables of apply_updates_to_appvm have their types.
THEOREM ApplyTypeCorrect == Spec => []TypeOK
  <1>1. ApplyInv => TypeOK
    BY DEF ApplyInv
  <1> QED
    BY <1>1, ApplyInvHolds, PTL

\* The return code of apply_updates_to_appvm accounts for every refused call,
\* whatever users do meanwhile.
THEOREM CodesAreTruthful == Spec => []CodesTruthful
  <1>1. ApplyInv => CodesTruthful
    BY DEF ApplyInv, RefusalInv
  <1> QED
    BY <1>1, ApplyInvHolds, PTL

\* A service qube that was shut down for its restart runs again in the end, unless
\* its start failed or a user stopped it.
THEOREM ServicesComeBack == Spec => []ServicesBack
  <1>1. ApplyInv => ServicesBack
    BY DEF ApplyInv, ServicesInv, RefusalInv, CodesTruthful, ServicesBack, Running
  <1> QED
    BY <1>1, ApplyInvHolds, PTL

\* With code 0, and if users started nothing meanwhile, no qube that the options
\* are about runs without the update of its template.
THEOREM UpdatesAreApplied == Spec => []UpdateApplied
  <1>1. ApplyInv => UpdateApplied
    BY DEF ApplyInv, TypeOK, LoopInv, OldInv, Ahead, RefusalInv, CodesTruthful, UpdateApplied
  <1> QED
    BY <1>1, ApplyInvHolds, PTL

\* No derived qube is shut down or restarted before its template has halted
\* with the update.
THEOREM NobodyDisturbedInVain == Spec => NoPointlessShutdown
  <1> DEFINE Step == \A a \in Apps : a \in waitFor' \ waitFor => Base[a] \in committed
  <1>1. ApplyInv /\ [Next]_vars => [Step]_vars
    <2> SUFFICES ASSUME ApplyInv, Next PROVE Step
      BY DEF vars
    <2>1. ASSUME NEW q \in Qubes, ShutdownCall(q) PROVE Step
      <3>1. q \in Apps => Base[q] \in committed
        BY <2>1, ApplyAssumption
        DEF ShutdownCall, ApplyInv, TypeOK, LoopInv, CommitInv
      <3> QED
        BY <2>1, <3>1 DEF ShutdownCall
    <2>2. CASE waitFor' \subseteq waitFor
      BY <2>2
    <2>3. (\E q \in Qubes : ShutdownCall(q)) \/ waitFor' \subseteq waitFor
      BY DEF Next, Program, Done, Start, CallsDone, AfterTemplates, AfterRestart, AfterBoot,
             AfterShutdown, ShutdownRefused, Boot, BootRefused, Halt, UserStops, UserStarts,
             Enter, vars
    <2> QED
      BY <2>1, <2>2, <2>3
  <1> QED
    BY <1>1, ApplyInvHolds, PTL DEF Spec, NoPointlessShutdown

\* A qube that is waited for runs or is on its way down, and it has come up again
\* only if a user started one.
LEMMA AwaitStep ==
  ASSUME TypeOK, LoopInv, AwaitInv, [Next]_vars
  PROVE  AwaitInv'
  <1> USE DEF TypeOK, LoopInv, AwaitInv, Running, given, sets, history
  <1>1. CASE Start \/ AfterTemplates \/ AfterRestart \/ AfterBoot \/ AfterShutdown
    BY <1>1 DEF Start, AfterTemplates, AfterRestart, AfterBoot, AfterShutdown, Enter
  <1>2. CASE CallsDone
    BY <1>2 DEF CallsDone
  <1>3. ASSUME NEW q \in Qubes, ShutdownCall(q) PROVE AwaitInv'
    BY <1>3 DEF ShutdownCall
  <1>4. ASSUME NEW q \in Qubes, ShutdownRefused(q) PROVE AwaitInv'
    BY <1>4 DEF ShutdownRefused
  <1>5. ASSUME NEW q \in Apps, Boot(q) \/ BootRefused(q) PROVE AwaitInv'
    BY <1>5 DEF Boot, BootRefused
  <1>6. ASSUME NEW q \in Qubes, Halt(q) PROVE AwaitInv'
    BY <1>6 DEF Halt
  <1>7. ASSUME NEW q \in Qubes, UserStops(q) PROVE AwaitInv'
    BY <1>7 DEF UserStops
  <1>8. ASSUME NEW q \in Qubes, UserStarts(q) PROVE AwaitInv'
    <2>1. starts' # 0 /\ UNCHANGED <<pc, awaited>> /\ power' = [power EXCEPT ![q] = "running"]
      BY <1>8 DEF UserStarts
    <2> QED BY <2>1
  <1>9. CASE UNCHANGED vars
    BY <1>9 DEF vars
  <1> QED
    BY <1>1, <1>2, <1>3, <1>4, <1>5, <1>6, <1>7, <1>8, <1>9 DEF Next, Program, Done

\* None of the loops waits for a halt it has missed: what it waits for is under
\* way, unless users started qubes meanwhile.
THEOREM NobodyWaitsInVain == Spec => []NoWaitInVain
  <1>1. Init => AwaitInv
    BY DEF Init, AwaitInv
  <1>2. ApplyInv /\ AwaitInv /\ [Next]_vars => AwaitInv'
    BY AwaitStep DEF ApplyInv
  <1>3. ApplyInv /\ AwaitInv => NoWaitInVain
    BY DEF ApplyInv, TypeOK, LoopInv, AwaitInv, NoWaitInVain, Running
  <1> QED
    BY <1>1, <1>2, <1>3, ApplyInvHolds, PTL DEF Spec
================================================================================
