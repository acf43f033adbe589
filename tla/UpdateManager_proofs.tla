-------------------------- MODULE UpdateManager_proofs -------------------------
(***************************************************************************)
(* Proofs about UpdateManager for every batch, pool size, bound and set of *)
(* exit codes.                                                             *)
(***************************************************************************)
EXTENDS UpdateManager, FiniteSetTheorems, SequenceTheorems, TLAPS

\* A handled code is at most 26, and it is 0 only if the qube's code was.
LEMMA VmCodeRange ==
  ASSUME NEW c \in Int
  PROVE  /\ VmCode(c) \in VmCodes
         /\ VmCode(c) \in 0..26
         /\ VmCode(c) = OK => c = OK
  BY DEF VmCode, VmCodes, VM_HANDLED, OK, OK_NO_UPDATES, ERR_VM, ERR_VM_PRE,
         ERR_VM_REFRESH, ERR_VM_UPDATE, ERR_VM_CLEANUP, ERR_VM_UNHANDLED

\* The number of bars the loop starts from is a natural number.
LEMMA BarsFinite == Cardinality(Bars) \in Nat /\ IsFiniteSet(Bars)
  <1>1. CASE DisplayName = NoName
    <2>1. Bars = Qubes
      BY <1>1 DEF Bars, BarOf
    <2> QED
      BY <2>1, ConstantsAssumption, FS_CardinalityType
  <1>2. CASE DisplayName # NoName
    <2>1. Bars = {DisplayName}
      BY <1>2, ConstantsAssumption DEF Bars, BarOf
    <2> QED
      BY <2>1, FS_Singleton, FS_CardinalityType
  <1> QED
    BY <1>1, <1>2

\* The type invariant holds initially.
LEMMA InitInv == Init => Inv
  <1> SUFFICES ASSUME Init PROVE Inv
    OBVIOUS
  <1>1. TypeOK
    <2>1. /\ task \in [Qubes -> TaskStates]
          /\ status \in [Qubes -> FinalStatus]
          /\ statuses \in [Bars -> FinalStatus \cup {"none"}]
      BY DEF Init, TaskStates, FinalStatus
    <2>2. /\ code \in [Qubes -> Nat]
          /\ exit \in [Qubes -> Int]
          /\ reports \in [Qubes -> Nat]
          /\ sigints \in Nat /\ left \in Nat /\ ret \in Nat
      BY DEF Init, OK
    <2>3. tasks \in Seq(Qubes) /\ queue \in Seq(Message)
      BY DEF Init
    <2> QED
      BY <2>1, <2>2, <2>3 DEF Init, TypeOK
  <1>2. MainInv /\ TasksInv /\ SessionInv /\ RetInv
    BY DEF Init, MainInv, TasksInv, SessionInv, RetInv
  <1> QED
    BY <1>1, <1>2 DEF Inv

\* The abstract types of the three primitives the actions are built from.
LEMMA PutType ==
  ASSUME queue \in Seq(Message), NEW q \in Qubes,
         NEW info \in FinalStatus \cup {"progress"}, Put(q, info)
  PROVE  queue' \in Seq(Message)
  BY DEF Put, Message, Bars

LEMMA TailType ==
  ASSUME queue \in Seq(Message), queue # <<>>
  PROVE  /\ Tail(queue) \in Seq(Message)
         /\ Head(queue).bar \in Bars
         /\ Head(queue).info \in FinalStatus \cup {"progress"}
  <1>1. Tail(queue) \in Seq(Message) /\ Head(queue) \in Message
    BY HeadTailProperties
  <1> QED
    BY <1>1 DEF Message

LEMMA MoveToType ==
  ASSUME task \in [Qubes -> TaskStates], NEW q \in Qubes,
         NEW state \in TaskStates, MoveTo(q, state)
  PROVE  task' \in [Qubes -> TaskStates]
  BY DEF MoveTo

\* Every step keeps the variables in their types.
LEMMA TypeStep ==
  ASSUME TypeOK, MainInv, [Next]_vars
  PROVE  TypeOK'
  <1> USE MoveToType, PutType DEF TypeOK, mainVars, taskVars, signalVars
  <1>0. /\ {"new", "queued", "returned", "collected", "started", "session",
            "entry", "leave", "cleanup", "raised"} \subseteq TaskStates
        /\ {"success", "error", "cancelled", "no updates"} \subseteq FinalStatus
    BY DEF TaskStates, BusyStates, FinalStatus
  <1>1. ASSUME NEW q \in Qubes, Submit(q) PROVE TypeOK'
    <2>1. tasks' \in Seq(Qubes)
      BY <1>1, AppendProperties DEF Submit
    <2> QED
      BY <1>0, <1>1, <2>1 DEF Submit
  <1>2. CASE StartFeeding
    BY <1>2, BarsFinite DEF StartFeeding
  <1>3. CASE FeedingTurn
    BY <1>3 DEF FeedingTurn
  <1>4. CASE Feed
    <2>1. left > 0
      BY <1>4 DEF Feed, MainInv
    <2>2. queue' \in Seq(Message)
      BY <1>4, TailType DEF Feed
    <2>3. left' \in Nat
      BY <1>4, <2>1 DEF Feed
    <2>4. statuses' \in [Bars -> FinalStatus \cup {"none"}]
      BY <1>4, TailType DEF Feed
    <2> QED
      BY <1>4, <2>2, <2>3, <2>4 DEF Feed
  <1>5. CASE FeedNone
    BY <1>5, TailType DEF FeedNone
  <1>6. CASE Finish
    <2>1. ret' \in Nat
      BY <1>6 DEF Finish, MaxOf, SIGINT, ERR
    <2> QED
      BY <1>6, <2>1 DEF Finish
  <1>7. CASE Sigint
    <2>1. sigints' \in Nat
      BY <1>7 DEF Sigint
    <2> QED
      BY <1>7, <2>1 DEF Sigint
  <1>8. ASSUME NEW q \in Qubes, Start(q) PROVE TypeOK'
    <2>1. tasks' \in Seq(Qubes)
      BY <1>8, HeadTailProperties DEF Start
    <2> QED
      BY <1>0, <1>8, <2>1 DEF Start
  <1>9. ASSUME NEW q \in Qubes, CancelBeforeStart(q) PROVE TypeOK'
    BY <1>0, <1>9 DEF CancelBeforeStart, SIGINT
  <1>10. ASSUME NEW q \in Qubes, OpenSession(q) PROVE TypeOK'
    BY <1>0, <1>10 DEF OpenSession
  <1>11. ASSUME NEW q \in Qubes, NEW t \in TransferCodes, Transfer(q, t)
         PROVE  TypeOK'
    <2>1. t \in Nat
      BY ConstantsAssumption
    <2>2. /\ code' \in [Qubes -> Nat]
          /\ status' \in [Qubes -> FinalStatus]
      <3>1. CASE termination
        <4>1. /\ code' = [code EXCEPT ![q] = SIGINT]
              /\ status' = [status EXCEPT ![q] = "cancelled"]
          BY <1>11, <3>1 DEF Transfer
        <4> QED
          BY <1>0, <4>1 DEF SIGINT
      <3>2. CASE ~termination
        BY <1>11, <2>1, <3>2 DEF Transfer
      <3> QED
        BY <3>1, <3>2
    <2>3. task' \in [Qubes -> TaskStates]
      BY <1>0, <1>11 DEF Transfer
    <2> QED
      BY <1>11, <2>2, <2>3 DEF Transfer
  <1>12. ASSUME NEW q \in Qubes, NEW e \in EntryCodes, Entrypoint(q, e)
         PROVE  TypeOK'
    <2>1. e \in Int /\ EntryStatus(e) \in FinalStatus
      BY <1>0, ConstantsAssumption DEF EntryStatus
    <2>2. MaxOf(code[q], EntryCode(e)) \in Nat
      BY <2>1 DEF MaxOf, EntryCode, OK
    <2> QED
      BY <1>0, <1>12, <2>1, <2>2 DEF Entrypoint
  <1>13. ASSUME NEW q \in Qubes, LeaveSession(q) PROVE TypeOK'
    BY <1>0, <1>13 DEF LeaveSession
  <1>14. ASSUME NEW q \in Qubes, Return(q) PROVE TypeOK'
    BY <1>0, <1>14 DEF Return
  <1>15. ASSUME NEW q \in Qubes, RaiseOutside(q) PROVE TypeOK'
    BY <1>0, <1>15 DEF RaiseOutside
  <1>16. ASSUME NEW q \in Qubes, RaiseInside(q) PROVE TypeOK'
    BY <1>0, <1>16 DEF RaiseInside
  <1>17. ASSUME NEW q \in Qubes, HandleException(q) PROVE TypeOK'
    BY <1>0, <1>17 DEF HandleException, ERR_VM_UNHANDLED
  <1>18. ASSUME NEW q \in Qubes, CollectResult(q) PROVE TypeOK'
    <2>1. ret' \in Nat
      BY <1>18, VmCodeRange DEF CollectResult, MaxOf
    <2> QED
      BY <1>0, <1>18, <2>1 DEF CollectResult
  <1>19. ASSUME NEW q \in Qubes, Report(q) PROVE TypeOK'
    <2>1. reports' \in [Qubes -> Nat]
      BY <1>19 DEF Report
    <2>2. queue' \in Seq(Message)
      BY <1>19 DEF Report
    <2> QED
      BY <1>19, <2>1, <2>2 DEF Report
  <1>20. CASE UNCHANGED vars
    BY <1>20 DEF vars
  <1> QED
    BY <1>1, <1>2, <1>3, <1>4, <1>5, <1>6, <1>7, <1>8, <1>9, <1>10, <1>11,
       <1>12, <1>13, <1>14, <1>15, <1>16, <1>17, <1>18, <1>19, <1>20
       DEF Next, Main, Work, Terminated

\* The main process blocks only while left is positive, and a SIGINT handler
\* waits only behind a blocked get.
LEMMA MainStep ==
  ASSUME TypeOK, MainInv, [Next]_vars
  PROVE  MainInv'
  <1> USE DEF TypeOK, MainInv, mainVars, taskVars, signalVars
  <1>1. CASE Main
    <2>1. CASE \E q \in Qubes : Submit(q)
      BY <2>1 DEF Submit
    <2>2. CASE StartFeeding
      BY <2>2 DEF StartFeeding
    <2>3. CASE FeedingTurn
      BY <2>3 DEF FeedingTurn
    <2>4. CASE Feed
      BY <2>4 DEF Feed
    <2>5. CASE FeedNone
      BY <2>5 DEF FeedNone
    <2>6. CASE Finish
      BY <2>6 DEF Finish
    <2> QED
      BY <1>1, <2>1, <2>2, <2>3, <2>4, <2>5, <2>6 DEF Main
  <1>2. CASE Sigint
    BY <1>2 DEF Sigint
  <1>3. ASSUME NEW q \in Qubes, Work(q) \/ Report(q) PROVE MainInv'
    <2>1. UNCHANGED <<mpc, left, interrupted, sigints, termination>>
      BY <1>3 DEF Work, Report, Start, CancelBeforeStart, OpenSession, Transfer,
                  Entrypoint, LeaveSession, Return, RaiseOutside, RaiseInside,
                  HandleException, CollectResult
    <2> QED
      BY <2>1
  <1>4. CASE UNCHANGED vars
    BY <1>4 DEF vars
  <1> QED
    BY <1>1, <1>2, <1>3, <1>4 DEF Next, Terminated

\* The pool's task queue holds each queued task once.
LEMMA TasksStep ==
  ASSUME TypeOK, TasksInv, [Next]_vars
  PROVE  TasksInv'
  <1>0. tasks \in Seq(Qubes) /\ task \in [Qubes -> TaskStates]
    BY DEF TypeOK
  <1> USE DEF TasksInv
  <1>1. ASSUME NEW q \in Qubes, Submit(q) PROVE TasksInv'
    <2>1. tasks' = Append(tasks, q) /\ task' = [task EXCEPT ![q] = "queued"]
      BY <1>1 DEF Submit, MoveTo
    <2>2. \A i \in DOMAIN tasks : tasks[i] # q
      BY <1>0, <1>1 DEF Submit
    <2>3. /\ DOMAIN tasks = 1..Len(tasks)
          /\ Len(tasks) \in Nat
          /\ DOMAIN tasks' = 1..Len(tasks) + 1
          /\ \A i \in 1..Len(tasks) : tasks'[i] = tasks[i] /\ tasks[i] \in Qubes
          /\ tasks'[Len(tasks) + 1] = q
      BY <1>0, <2>1, AppendProperties, LenProperties
    <2> QED
      BY <1>0, <2>1, <2>2, <2>3
  <1>2. ASSUME NEW q \in Qubes, Start(q) PROVE TasksInv'
    <2>1. /\ tasks # <<>> /\ q = Head(tasks) /\ tasks' = Tail(tasks)
          /\ task' = [task EXCEPT ![q] = "started"]
      BY <1>2 DEF Start, MoveTo
    <2>2. /\ DOMAIN tasks = 1..Len(tasks)
          /\ Len(tasks) \in Nat
          /\ DOMAIN tasks' = 1..Len(tasks) - 1
          /\ \A i \in 1..Len(tasks) - 1 : tasks'[i] = tasks[i + 1]
          /\ \A i \in 1..Len(tasks) : tasks[i] \in Qubes
          /\ 1 \in DOMAIN tasks /\ q = tasks[1]
      BY <1>0, <2>1, HeadTailProperties, LenProperties, EmptySeq
    <2>3. ASSUME NEW i \in 1..Len(tasks) - 1
          PROVE  /\ i + 1 \in DOMAIN tasks /\ i + 1 # 1
                 /\ tasks'[i] = tasks[i + 1] /\ tasks[i + 1] \in Qubes
      BY <2>2
    <2>4. ASSUME NEW i \in DOMAIN tasks' PROVE task'[tasks'[i]] = "queued"
      <3>1. tasks'[i] # q
        BY <2>2, <2>3
      <3> QED
        BY <1>0, <2>1, <2>2, <2>3, <3>1
    <2>5. ASSUME NEW i \in DOMAIN tasks', NEW j \in DOMAIN tasks',
                 tasks'[i] = tasks'[j]
          PROVE  i = j
      <3>1. i \in 1..Len(tasks) - 1 /\ j \in 1..Len(tasks) - 1
        BY <2>2, <2>5
      <3>2. /\ i + 1 \in DOMAIN tasks /\ j + 1 \in DOMAIN tasks
            /\ tasks[i + 1] = tasks[j + 1]
        BY <2>3, <2>5, <3>1
      <3>3. \A k, l \in DOMAIN tasks : tasks[k] = tasks[l] => k = l
        BY <1>0 DEF TasksInv
      <3>4. i + 1 = j + 1
        BY <3>2, <3>3, Zenon
      <3> QED
        BY <3>1, <3>4
    <2> QED
      BY <2>4, <2>5
  <1>3. ASSUME NEW q \in Qubes,
               \/ CancelBeforeStart(q) \/ OpenSession(q)
               \/ \E t \in TransferCodes : Transfer(q, t)
               \/ \E e \in EntryCodes : Entrypoint(q, e)
               \/ LeaveSession(q) \/ Return(q) \/ RaiseOutside(q)
               \/ RaiseInside(q) \/ HandleException(q) \/ CollectResult(q)
               \/ Report(q)
        PROVE  TasksInv'
    <2>1. tasks' = tasks /\ task[q] # "queued"
      BY <1>3 DEF CancelBeforeStart, OpenSession, Transfer, Entrypoint,
                  LeaveSession, Return, RaiseOutside, RaiseInside,
                  HandleException, CollectResult, Report
    <2>2. \A p \in Qubes : p # q => task'[p] = task[p]
      BY <1>0, <1>3 DEF CancelBeforeStart, OpenSession, Transfer, Entrypoint,
                  LeaveSession, Return, RaiseOutside, RaiseInside,
                  HandleException, CollectResult, Report, MoveTo
    <2>3. \A i \in DOMAIN tasks : tasks[i] \in Qubes
      BY <1>0, ElementOfSeq, LenProperties
    <2> QED
      BY <2>1, <2>2, <2>3
  <1>4. CASE \/ StartFeeding \/ FeedingTurn \/ Feed \/ FeedNone \/ Finish
             \/ Sigint \/ UNCHANGED vars
    <2>1. UNCHANGED <<task, tasks>>
      BY <1>4 DEF StartFeeding, FeedingTurn, Feed, FeedNone, Finish, Sigint,
                  vars, taskVars
    <2> QED
      BY <2>1
  <1> QED
    BY <1>1, <1>2, <1>3, <1>4 DEF Next, Main, Work, Terminated

\* A task that is started was queued.
LEMMA StartQueued ==
  ASSUME TypeOK, TasksInv, NEW q \in Qubes, Start(q)
  PROVE  task[q] = "queued"
  <1>1. tasks \in Seq(Qubes) /\ tasks # <<>> /\ q = Head(tasks)
    BY DEF TypeOK, Start
  <1>2. 1 \in DOMAIN tasks /\ q = tasks[1]
    BY <1>1, LenProperties, EmptySeq
  <1> QED
    BY <1>2 DEF TasksInv

\* A step of a task changes only the records of its own qube, and neither the
\* termination flag nor the main process; a collected task takes no step.
LEMMA WorkFrame ==
  ASSUME TypeOK, TasksInv, NEW q \in Qubes, Work(q) \/ Report(q)
  PROVE  /\ UNCHANGED <<termination, mpc>>
         /\ task[q] \notin {"new", "collected"}
         /\ \A p \in Qubes \ {q} : /\ task'[p] = task[p]
                                   /\ status'[p] = status[p]
                                   /\ code'[p] = code[p]
                                   /\ exit'[p] = exit[p]
                                   /\ reports'[p] = reports[p]
  <1>1. /\ task \in [Qubes -> TaskStates]
        /\ status \in [Qubes -> FinalStatus]
        /\ code \in [Qubes -> Nat]
        /\ exit \in [Qubes -> Int]
        /\ reports \in [Qubes -> Nat]
    BY DEF TypeOK
  <1>2. CASE Start(q)
    BY <1>1, <1>2, StartQueued DEF Start, MoveTo, mainVars, signalVars
  <1>3. CASE CancelBeforeStart(q) \/ OpenSession(q)
    BY <1>1, <1>3 DEF CancelBeforeStart, OpenSession, MoveTo, mainVars, signalVars
  <1>4. CASE \E t \in TransferCodes : Transfer(q, t)
    BY <1>1, <1>4 DEF Transfer, MoveTo, mainVars, signalVars
  <1>5. CASE \E e \in EntryCodes : Entrypoint(q, e)
    BY <1>1, <1>5 DEF Entrypoint, MoveTo, mainVars, signalVars
  <1>6. CASE LeaveSession(q) \/ Return(q) \/ Report(q)
    BY <1>1, <1>6 DEF LeaveSession, Return, Report, MoveTo, mainVars, signalVars
  <1>7. CASE RaiseOutside(q) \/ RaiseInside(q) \/ HandleException(q)
    BY <1>1, <1>7 DEF RaiseOutside, RaiseInside, HandleException, MoveTo,
                      mainVars, signalVars
  <1>8. CASE CollectResult(q)
    BY <1>1, <1>8 DEF CollectResult, MoveTo, mainVars, signalVars
  <1> QED
    BY <1>2, <1>3, <1>4, <1>5, <1>6, <1>7, <1>8 DEF Work

\* The main process and the signal leave the tasks alone, but for Submit.
LEMMA MainFrame ==
  ASSUME \/ StartFeeding \/ FeedingTurn \/ Feed \/ FeedNone \/ Finish
         \/ Sigint \/ UNCHANGED vars
  PROVE  UNCHANGED <<task, status, code, exit, reports>>
  BY DEF StartFeeding, FeedingTurn, Feed, FeedNone, Finish, Sigint, vars, taskVars

\* The termination flag is never cleared.
LEMMA TerminationStays ==
  ASSUME TypeOK, TasksInv, [Next]_vars, termination
  PROVE  termination'
  <1>1. CASE Main \/ Sigint \/ UNCHANGED vars
    BY <1>1 DEF Main, Submit, StartFeeding, FeedingTurn, Feed, FeedNone, Finish,
                Sigint, vars, signalVars
  <1>2. ASSUME NEW q \in Qubes, Work(q) \/ Report(q) PROVE termination'
    BY <1>2, WorkFrame
  <1> QED
    BY <1>1, <1>2 DEF Next, Terminated

\* One qube's part of SessionInv.
SessionInvOf(q) ==
  /\ task[q] \in {"new", "queued", "started", "session"} =>
       status[q] = "error" /\ exit[q] = OK /\ reports[q] = 0
  /\ task[q] = "entry" => status[q] = "error" /\ exit[q] = OK
  /\ status[q] = "cancelled" => termination /\ exit[q] = OK /\ reports[q] = 0

\* What a task knows of its own progress stays consistent with its place.
LEMMA SessionStep ==
  ASSUME TypeOK, TasksInv, SessionInv, [Next]_vars
  PROVE  SessionInv'
  <1>0. /\ task \in [Qubes -> TaskStates]
        /\ status \in [Qubes -> FinalStatus]
        /\ exit \in [Qubes -> Int]
        /\ reports \in [Qubes -> Nat]
    BY DEF TypeOK
  <1>1. SUFFICES ASSUME NEW p \in Qubes PROVE SessionInvOf(p)'
    BY DEF SessionInv, SessionInvOf
  <1>2. SessionInvOf(p)
    BY DEF SessionInv, SessionInvOf
  <1>3. CASE \E q \in Qubes : Submit(q)
    BY <1>0, <1>2, <1>3 DEF Submit, MoveTo, SessionInvOf, signalVars
  <1>4. CASE \/ StartFeeding \/ FeedingTurn \/ Feed \/ FeedNone \/ Finish
             \/ Sigint \/ UNCHANGED vars
    BY <1>2, <1>4, MainFrame, TerminationStays DEF SessionInvOf
  <1>5. ASSUME NEW q \in Qubes, Work(q) \/ Report(q), p # q
        PROVE  SessionInvOf(p)'
    BY <1>2, <1>5, WorkFrame DEF SessionInvOf
  <1>6. ASSUME Work(p) \/ Report(p) PROVE SessionInvOf(p)'
    <2>1. CASE Start(p)
      BY <1>0, <1>2, <2>1, StartQueued DEF Start, MoveTo, SessionInvOf, signalVars
    <2>2. CASE CancelBeforeStart(p)
      BY <1>0, <1>2, <2>2 DEF CancelBeforeStart, MoveTo, SessionInvOf, signalVars
    <2>3. CASE OpenSession(p)
      BY <1>0, <1>2, <2>3 DEF OpenSession, MoveTo, SessionInvOf, signalVars
    <2>4. CASE \E t \in TransferCodes : Transfer(p, t)
      BY <1>0, <1>2, <2>4 DEF Transfer, MoveTo, SessionInvOf, signalVars
    <2>5. CASE \E e \in EntryCodes : Entrypoint(p, e)
      <3>1. PICK e \in EntryCodes : Entrypoint(p, e)
        BY <2>5
      <3>2. task'[p] = "leave" /\ status'[p] # "cancelled"
        BY <1>0, <3>1 DEF Entrypoint, MoveTo, EntryStatus
      <3> QED
        BY <3>2 DEF SessionInvOf
    <2>6. CASE LeaveSession(p) \/ Return(p)
      BY <1>0, <1>2, <2>6 DEF LeaveSession, Return, MoveTo, SessionInvOf, signalVars
    <2>7. CASE RaiseOutside(p) \/ RaiseInside(p)
      BY <1>0, <1>2, <2>7 DEF RaiseOutside, RaiseInside, MoveTo, SessionInvOf,
                              signalVars
    <2>8. CASE HandleException(p)
      BY <1>0, <2>8 DEF HandleException, MoveTo, SessionInvOf
    <2>9. CASE CollectResult(p)
      BY <1>0, <1>2, <2>9 DEF CollectResult, MoveTo, SessionInvOf, signalVars
    <2>10. CASE Report(p)
      BY <1>0, <1>2, <2>10 DEF Report, SessionInvOf, signalVars
    <2> QED
      BY <1>6, <2>1, <2>2, <2>3, <2>4, <2>5, <2>6, <2>7, <2>8, <2>9, <2>10 DEF Work
  <1> QED
    BY <1>3, <1>4, <1>5, <1>6 DEF Next, Main, Terminated

\* ret is the worst collected code until run overrides it with SIGINT.
LEMMA RetStep ==
  ASSUME TypeOK, MainInv, TasksInv, RetInv, [Next]_vars
  PROVE  RetInv'
  <1>0. /\ task \in [Qubes -> TaskStates]
        /\ code \in [Qubes -> Nat]
        /\ ret \in Nat
    BY DEF TypeOK
  <1>1. \A q \in Qubes : VmCode(code[q]) \in 0..26
    BY <1>0, VmCodeRange
  <1>2. CASE \E q \in Qubes : Submit(q)
    BY <1>0, <1>2 DEF RetInv, Submit, MoveTo, mainVars
  <1>3. CASE StartFeeding \/ FeedingTurn \/ Feed \/ FeedNone
    <2>1. UNCHANGED <<task, code, ret>> /\ mpc # "done" /\ mpc' # "done"
      BY <1>3 DEF StartFeeding, FeedingTurn, Feed, FeedNone, taskVars
    <2> QED
      BY <2>1 DEF RetInv
  <1>4. CASE Finish
    <2>1. /\ mpc = "join" /\ mpc' = "done"
          /\ \A q \in Qubes : task[q] = "collected"
          /\ UNCHANGED <<task, code, termination>>
      BY <1>4 DEF Finish, taskVars, signalVars
    <2>2. ret <= 26
      BY <1>0, <1>1, <2>1 DEF RetInv, OK
    <2>3. ret' \in {ret, ERR, SIGINT} /\ ret <= ret' /\ (termination => ret' = SIGINT)
      BY <1>0, <1>4, <2>2 DEF Finish, MaxOf, ERR, SIGINT
    <2>4. \A q \in Qubes : VmCode(code[q]) <= ret'
      BY <1>0, <1>1, <2>1, <2>3 DEF RetInv, ERR, SIGINT
    <2>5. ret \in {OK} \cup {VmCode(code[q]) : q \in Qubes}
      BY <2>1 DEF RetInv
    <2> QED
      BY <2>1, <2>3, <2>4, <2>5 DEF RetInv
  <1>5. CASE Sigint
    <2>1. UNCHANGED <<task, code, ret, mpc>> /\ mpc # "done"
      BY <1>5 DEF Sigint, taskVars, mainVars
    <2> QED
      BY <2>1 DEF RetInv
  <1>6. ASSUME NEW q \in Qubes, Work(q) \/ Report(q), ~CollectResult(q)
        PROVE  RetInv'
    <2>1. task'[q] # "collected" /\ ret' = ret
      BY <1>0, <1>6 DEF Work, Report, Start, CancelBeforeStart, OpenSession,
                  Transfer, Entrypoint, LeaveSession, Return, RaiseOutside,
                  RaiseInside, HandleException, MoveTo
    <2>2. UNCHANGED <<termination, mpc>> /\ task[q] # "collected"
      BY <1>6, WorkFrame
    <2>3. \A p \in Qubes \ {q} : task'[p] = task[p] /\ code'[p] = code[p]
      BY <1>6, WorkFrame
    <2> QED
      BY <2>1, <2>2, <2>3 DEF RetInv
  <1>7. ASSUME NEW q \in Qubes, CollectResult(q) PROVE RetInv'
    <2>1. /\ task[q] = "returned" /\ task'[q] = "collected"
          /\ code' = code /\ mpc' = mpc
          /\ ret' = MaxOf(ret, VmCode(code[q]))
          /\ \A p \in Qubes \ {q} : task'[p] = task[p]
      BY <1>0, <1>7 DEF CollectResult, MoveTo, mainVars
    <2>2. mpc # "done"
      BY <2>1 DEF RetInv
    <2>3. ret <= ret' /\ VmCode(code[q]) <= ret' /\ ret' \in {ret, VmCode(code[q])}
      BY <1>0, <1>1, <2>1 DEF MaxOf
    <2>4. \A p \in Qubes : task'[p] = "collected" => VmCode(code[p]) <= ret'
      BY <1>0, <1>1, <2>1, <2>3 DEF RetInv
    <2>5. ret' = OK \/ \E p \in Qubes : task'[p] = "collected" /\ ret' = VmCode(code[p])
      BY <2>1, <2>2, <2>3 DEF RetInv
    <2> QED
      BY <2>1, <2>2, <2>4, <2>5 DEF RetInv
  <1>8. CASE UNCHANGED vars
    BY <1>8 DEF RetInv, vars, mainVars, taskVars, signalVars
  <1> QED
    BY <1>2, <1>3, <1>4, <1>5, <1>6, <1>7, <1>8 DEF Next, Main, Terminated

--------------------------------------------------------------------------------
\* Inv is inductive, so it holds of every reachable state.
THEOREM InvHolds == Spec => []Inv
  <1>1. ASSUME Inv, [Next]_vars PROVE Inv'
    BY <1>1, TypeStep, MainStep, TasksStep, SessionStep, RetStep DEF Inv
  <1> QED
    BY InitInv, <1>1, PTL DEF Spec

\* Every variable keeps its type, and the feeding loop never counts below 0.
THEOREM TypeCorrect == Spec => []TypeOK
  <1>1. Inv => TypeOK
    BY DEF Inv
  <1> QED
    BY <1>1, InvHolds, PTL

\* run returns when every task was collected, with the worst code of any.
THEOREM ResultsAreFolded == Spec => []ResultsFolded
  <1>1. Inv => ResultsFolded
    BY DEF Inv, RetInv, ResultsFolded
  <1> QED
    BY <1>1, InvHolds, PTL

\* A SIGINT taken before pool.join ends makes the batch return SIGINT.
THEOREM SigintIsReported == Spec => []SigintReported
  <1>1. Inv => SigintReported
    BY DEF Inv, MainInv, RetInv, SigintReported
  <1> QED
    BY <1>1, InvHolds, PTL

\* A cancelled qube's agent never ran, and the user had asked to stop.
THEOREM CancelledAreUntouched == Spec => []CancelledUntouched
  <1>1. Inv => CancelledUntouched
    BY DEF Inv, SessionInv, CancelledUntouched
  <1> QED
    BY <1>1, InvHolds, PTL

--------------------------------------------------------------------------------
(***************************************************************************)
(* A failed entrypoint shows in the return code if exit codes are natural  *)
(* numbers, as they are for every qube but dom0.                           *)
(***************************************************************************)
FailureKept ==
  \A q \in Qubes : exit[q] \notin {OK, OK_NO_UPDATES} => code[q] > OK

\* The result of a task keeps a failure of its entrypoint.
LEMMA FailureStep ==
  ASSUME EntryCodes \subseteq Nat, Inv, FailureKept, [Next]_vars
  PROVE  FailureKept'
  <1>0. /\ code \in [Qubes -> Nat] /\ exit \in [Qubes -> Int]
        /\ TypeOK /\ TasksInv /\ SessionInv
    BY DEF Inv, TypeOK
  <1>1. CASE \E q \in Qubes : Submit(q)
    BY <1>1 DEF FailureKept, Submit
  <1>2. CASE \/ StartFeeding \/ FeedingTurn \/ Feed \/ FeedNone \/ Finish
             \/ Sigint \/ UNCHANGED vars
    BY <1>2, MainFrame DEF FailureKept
  <1>3. ASSUME NEW q \in Qubes, Work(q) \/ Report(q) PROVE FailureKept'
    <2>1. \A p \in Qubes \ {q} : code'[p] = code[p] /\ exit'[p] = exit[p]
      BY <1>0, <1>3, WorkFrame
    <2>2. exit'[q] \notin {OK, OK_NO_UPDATES} => code'[q] > OK
      <3>1. CASE \E e \in EntryCodes : Entrypoint(q, e)
        <4>1. PICK e \in EntryCodes : Entrypoint(q, e)
          BY <3>1
        <4>2. e \in Nat /\ code[q] \in Nat
          BY <1>0
        <4>3. /\ exit'[q] = e
              /\ code'[q] = MaxOf(code[q], EntryCode(e))
          BY <1>0, <4>1 DEF Entrypoint
        <4> QED
          BY <4>2, <4>3 DEF MaxOf, EntryCode, OK, OK_NO_UPDATES
      <3>2. CASE CancelBeforeStart(q) \/ \E t \in TransferCodes : Transfer(q, t)
        <4>1. task[q] \in {"started", "session"} /\ exit' = exit
          BY <3>2 DEF CancelBeforeStart, Transfer
        <4> QED
          BY <1>0, <4>1 DEF SessionInv
      <3>3. CASE HandleException(q)
        BY <1>0, <3>3 DEF HandleException, ERR_VM_UNHANDLED, OK
      <3>4. CASE \/ Start(q) \/ OpenSession(q) \/ LeaveSession(q) \/ Return(q)
                 \/ RaiseOutside(q) \/ RaiseInside(q) \/ CollectResult(q)
                 \/ Report(q)
        <4>1. UNCHANGED <<code, exit>>
          BY <3>4 DEF Start, OpenSession, LeaveSession, Return, RaiseOutside,
                      RaiseInside, CollectResult, Report
        <4> QED
          BY <4>1 DEF FailureKept
      <3> QED
        BY <1>3, <3>1, <3>2, <3>3, <3>4 DEF Work
    <2> QED
      BY <2>1, <2>2 DEF FailureKept
  <1> QED
    BY <1>1, <1>2, <1>3 DEF Next, Main, Terminated

\* An entrypoint that exits with neither 0 nor 100 keeps the batch from
\* returning 0, provided no exit code is negative.
THEOREM FailuresAreReported ==
  ASSUME EntryCodes \subseteq Nat
  PROVE  Spec => []FailuresReported
  <1>1. Init => FailureKept
    BY DEF Init, FailureKept
  <1>2. Inv /\ FailureKept /\ [Next]_vars => FailureKept'
    BY FailureStep
  <1>3. Inv /\ FailureKept => FailuresReported
    <2> SUFFICES ASSUME Inv, FailureKept, mpc = "done", NEW q \in Qubes,
                        exit[q] \notin {OK, OK_NO_UPDATES}
                 PROVE  ret # OK
      BY DEF FailuresReported
    <2>1. code[q] \in Nat /\ code[q] > OK /\ ret \in Nat
      BY DEF FailureKept, Inv, TypeOK
    <2>2. VmCode(code[q]) <= ret
      BY DEF Inv, RetInv
    <2>3. VmCode(code[q]) \in 0..26 /\ VmCode(code[q]) # OK
      BY <2>1, VmCodeRange DEF OK
    <2> QED
      BY <2>1, <2>2, <2>3 DEF OK
  <1> QED
    BY <1>1, <1>2, <1>3, InvHolds, PTL DEF Spec

--------------------------------------------------------------------------------
(***************************************************************************)
(* The manager implements the abstract batch.                              *)
(***************************************************************************)
\* The batch's constants and operators are the manager's.
LEMMA BatchConstants ==
  /\ Batch!OK = OK /\ Batch!ERR = ERR /\ Batch!SIGINT = SIGINT
  /\ Batch!VmCodes = VmCodes
  <1>1. Batch!OK = OK /\ Batch!ERR = ERR /\ Batch!SIGINT = SIGINT
    BY DEF Batch!OK, OK, Batch!ERR, ERR, Batch!SIGINT, SIGINT
  <1>2. Batch!VmCodes = VmCodes
    BY DEF Batch!VmCodes, VmCodes, Batch!VM_HANDLED, VM_HANDLED, Batch!OK, OK,
           Batch!OK_NO_UPDATES, OK_NO_UPDATES, Batch!ERR_VM, ERR_VM,
           Batch!ERR_VM_PRE, ERR_VM_PRE, Batch!ERR_VM_REFRESH, ERR_VM_REFRESH,
           Batch!ERR_VM_UPDATE, ERR_VM_UPDATE, Batch!ERR_VM_CLEANUP,
           ERR_VM_CLEANUP, Batch!ERR_VM_UNHANDLED, ERR_VM_UNHANDLED
  <1> QED
    BY <1>1, <1>2

\* UpdateBatch's own instance of FiniteSets counts as the manager's does.
LEMMA BatchCardinality == \A S : Batch!Cardinality(S) = Cardinality(S)
  BY DEF Batch!Cardinality, Cardinality

\* The initial states are initial states of the batch.
LEMMA BatchInit == Init => Batch!Init
  BY DEF Init, Batch!Init, Batch!NoAnswer, Batch!OK, OK, Phase, Verdict, BusyStates

\* What changes neither a task's place nor its code nor the answer stutters.
LEMMA BatchStutter ==
  ASSUME UNCHANGED <<task, code, mpc, ret>>
  PROVE  UNCHANGED Batch!vars
  <1>1. UNCHANGED <<Phase, Verdict>>
    BY DEF Phase, Verdict
  <1> QED
    BY <1>1 DEF Batch!vars

\* A started task begins the update of its qube.
LEMMA BatchBegin ==
  ASSUME Inv, NEW q \in Qubes, Start(q)
  PROVE  Batch!Begin(q)
  <1>1. task \in [Qubes -> TaskStates]
    BY DEF Inv, TypeOK
  <1>2. task[q] = "queued"
    BY StartQueued DEF Inv
  <1>3. task' = [task EXCEPT ![q] = "started"] /\ UNCHANGED <<code, mpc, ret>>
    BY DEF Start, MoveTo, mainVars
  <1>4. Phase[q] = "waiting"
    BY <1>2 DEF Phase, BusyStates
  <1>5. {p \in Qubes : Phase[p] = "updating"} = Busy
    BY DEF Phase, Busy, BusyStates
  <1>6. Cardinality(Busy) < MaxConcurrency
    BY DEF Start
  <1>7. Phase' = [Phase EXCEPT ![q] = "updating"]
    BY <1>1, <1>3 DEF Phase, BusyStates
  <1>8. Verdict' = Verdict
    BY <1>1, <1>2, <1>3 DEF Verdict
  <1> QED
    BY <1>3, <1>4, <1>5, <1>6, <1>7, <1>8, BatchCardinality DEF Batch!Begin

\* A task that hands its result back settles its qube with the handled code.
LEMMA BatchSettle ==
  ASSUME Inv, Inv', NEW q \in Qubes,
         task[q] \in BusyStates, task' = [task EXCEPT ![q] = "returned"],
         UNCHANGED <<mpc, ret>>,
         \A p \in Qubes \ {q} : code'[p] = code[p]
  PROVE  \E c \in VmCodes : Batch!Settle(q, c)
  <1>1. task \in [Qubes -> TaskStates] /\ code' \in [Qubes -> Nat]
    BY DEF Inv, TypeOK
  <1>2. VmCode(code'[q]) \in VmCodes
    BY <1>1, VmCodeRange
  <1>3. Phase[q] = "updating"
    BY DEF Phase, BusyStates
  <1>4. Phase' = [Phase EXCEPT ![q] = "settled"]
    BY <1>1 DEF Phase, BusyStates
  <1>5. Verdict' = [Verdict EXCEPT ![q] = VmCode(code'[q])]
    BY <1>1 DEF Verdict
  <1>6. Batch!Settle(q, VmCode(code'[q]))
    BY <1>3, <1>4, <1>5 DEF Batch!Settle
  <1> QED
    BY <1>2, <1>6

\* run's return answers for the batch.
LEMMA BatchAnswer ==
  ASSUME Inv, Inv', Finish
  PROVE  \E a \in VmCodes \cup {ERR, SIGINT} : Batch!Answer(a)
  <1>1. /\ \A q \in Qubes : task[q] = "collected"
        /\ mpc = "join" /\ mpc' = "done"
        /\ UNCHANGED <<task, code>>
    BY DEF Finish, taskVars
  <1>2. /\ \A q \in Qubes : VmCode(code[q]) <= ret'
        /\ ret' \in {OK, ERR, SIGINT} \cup {VmCode(code[q]) : q \in Qubes}
    BY <1>1 DEF Inv, RetInv
  <1>3. /\ \A q \in Qubes : Phase[q] = "settled" /\ Verdict[q] = VmCode(code[q])
        /\ UNCHANGED <<Phase, Verdict>>
    BY <1>1 DEF Phase, Verdict, BusyStates
  <1>4. ret' \in VmCodes \cup {ERR, SIGINT}
    <2>1. code \in [Qubes -> Nat]
      BY DEF Inv, TypeOK
    <2>2. OK \in VmCodes
      BY DEF VmCodes, VM_HANDLED, OK, OK_NO_UPDATES
    <2> QED
      BY <1>2, <2>1, <2>2, VmCodeRange
  <1>5. Batch!Covers(ret')
    BY <1>2, <1>3, BatchConstants DEF Batch!Covers
  <1>6. Batch!Answer(ret')
    BY <1>1, <1>3, <1>5 DEF Batch!Answer, Batch!NoAnswer
  <1> QED
    BY <1>4, <1>6

\* Every step maps to a step of the batch or to none.
LEMMA BatchStep ==
  ASSUME Inv, Inv', [Next]_vars
  PROVE  [Batch!Next]_(Batch!vars)
  <1>0. task \in [Qubes -> TaskStates] /\ code \in [Qubes -> Nat]
    BY DEF Inv, TypeOK
  <1>1. ASSUME NEW q \in Qubes, Submit(q) PROVE UNCHANGED Batch!vars
    <2>1. /\ task[q] = "new" /\ task' = [task EXCEPT ![q] = "queued"]
          /\ UNCHANGED <<code, mpc, ret>>
      BY <1>1 DEF Submit, MoveTo, mainVars
    <2>2. Phase' = Phase /\ Verdict' = Verdict
      BY <1>0, <2>1 DEF Phase, Verdict, BusyStates
    <2> QED
      BY <2>1, <2>2 DEF Batch!vars
  <1>2. CASE StartFeeding \/ FeedingTurn \/ Feed \/ FeedNone
    <2>1. /\ mpc # "done" /\ mpc' # "done"
          /\ UNCHANGED <<task, code>>
      BY <1>2 DEF StartFeeding, FeedingTurn, Feed, FeedNone, taskVars
    <2>2. Phase' = Phase /\ Verdict' = Verdict
      BY <2>1 DEF Phase, Verdict
    <2> QED
      BY <2>1, <2>2 DEF Batch!vars
  <1>3. CASE Finish
    BY <1>3, BatchAnswer, BatchConstants DEF Batch!Next
  <1>4. CASE Sigint \/ UNCHANGED vars
    BY <1>4, BatchStutter DEF Sigint, vars, mainVars, taskVars
  <1>5. ASSUME NEW q \in Qubes, Start(q) PROVE Batch!Next
    BY <1>5, BatchBegin DEF Batch!Next
  <1>6. ASSUME NEW q \in Qubes, CancelBeforeStart(q) \/ Return(q) \/ HandleException(q)
        PROVE  Batch!Next
    <2>1. /\ task[q] \in BusyStates
          /\ task' = [task EXCEPT ![q] = "returned"]
          /\ UNCHANGED <<mpc, ret>>
          /\ \A p \in Qubes \ {q} : code'[p] = code[p]
      BY <1>0, <1>6 DEF CancelBeforeStart, Return, HandleException, MoveTo,
                        BusyStates, mainVars
    <2> QED
      BY <2>1, BatchSettle, BatchConstants DEF Batch!Next
  <1>7. ASSUME NEW q \in Qubes,
               \/ OpenSession(q) \/ \E t \in TransferCodes : Transfer(q, t)
               \/ \E e \in EntryCodes : Entrypoint(q, e)
               \/ LeaveSession(q) \/ RaiseOutside(q) \/ RaiseInside(q) \/ Report(q)
        PROVE  UNCHANGED Batch!vars
    <2>1. /\ task[q] \in BusyStates /\ task'[q] \in BusyStates
          /\ UNCHANGED <<mpc, ret>>
      BY <1>0, <1>7 DEF OpenSession, Transfer, Entrypoint, LeaveSession, Report,
                        RaiseOutside, RaiseInside, MoveTo, BusyStates, mainVars
    <2>2. \A p \in Qubes \ {q} : task'[p] = task[p] /\ code'[p] = code[p]
      BY <1>7, WorkFrame DEF Work, Inv
    <2>3. Phase' = Phase /\ Verdict' = Verdict
      BY <2>1, <2>2 DEF Phase, Verdict, BusyStates
    <2> QED
      BY <2>1, <2>3 DEF Batch!vars
  <1>8. ASSUME NEW q \in Qubes, CollectResult(q) PROVE UNCHANGED Batch!vars
    <2>1. /\ task[q] = "returned" /\ task' = [task EXCEPT ![q] = "collected"]
          /\ UNCHANGED <<code, mpc>>
      BY <1>8 DEF CollectResult, MoveTo, mainVars
    <2>2. mpc # "done"
      BY <2>1 DEF Inv, RetInv
    <2>3. Phase' = Phase /\ Verdict' = Verdict
      BY <1>0, <2>1 DEF Phase, Verdict, BusyStates
    <2> QED
      BY <2>1, <2>2, <2>3 DEF Batch!vars
  <1> QED
    BY <1>1, <1>2, <1>3, <1>4, <1>5, <1>6, <1>7, <1>8
       DEF Next, Main, Work, Terminated

\* Every behaviour of the manager is one of the abstract batch: each qube is
\* updated once, never more than MaxConcurrency together, and run answers
\* once, after all of them, with a code that covers them.
THEOREM ImplementsBatch == Spec => BatchSpec
  <1>1. Inv /\ Inv' /\ [Next]_vars => [Batch!Next]_(Batch!vars)
    BY BatchStep
  <1> QED
    BY BatchInit, <1>1, InvHolds, PTL DEF Spec, BatchSpec, Batch!Spec

--------------------------------------------------------------------------------
(***************************************************************************)
(* The other link: every task of the batch is a task of UpdateTask, the    *)
(* one that QubeConnection implements.                                     *)
(***************************************************************************)
\* Every task begins where the abstract one does.
LEMMA TasksInit == Init => \A q \in Qubes : Task(q)!Init
  BY DEF Init, Task!Init, Place, OK, Task!OK

\* A step that leaves a task alone, but may set the flag, is a request to stop.
LEMMA TaskAlone ==
  ASSUME NEW q \in Qubes, UNCHANGED <<task[q], status[q], code[q], exit[q]>>,
         UNCHANGED termination \/ termination' = TRUE
  PROVE  [Task(q)!Next]_(Task(q)!vars)
  BY DEF Place, Task!Next, Task!RequestStop, Task!vars

\* A step of the main process or of its signal handler, apart from submitting a
\* task, leaves every task alone.
LEMMA TaskMain ==
  ASSUME NEW q \in Qubes,
         \/ StartFeeding \/ FeedingTurn \/ Feed \/ FeedNone \/ Finish \/ Sigint
         \/ UNCHANGED vars
  PROVE  [Task(q)!Next]_(Task(q)!vars)
  <1>1. UNCHANGED <<task[q], status[q], code[q], exit[q]>>
    BY DEF StartFeeding, FeedingTurn, Feed, FeedNone, Finish, Sigint, vars, taskVars
  <1>2. UNCHANGED termination \/ termination' = TRUE
    BY DEF StartFeeding, FeedingTurn, Feed, FeedNone, Finish, Sigint, vars, signalVars
  <1> QED BY <1>1, <1>2, TaskAlone

\* So does a step of another task.
LEMMA TaskOther ==
  ASSUME TypeOK, TasksInv, NEW q \in Qubes, NEW p \in Qubes, p # q,
         Submit(p) \/ Work(p) \/ Report(p)
  PROVE  [Task(q)!Next]_(Task(q)!vars)
  <1>1. CASE Submit(p)
    BY <1>1, TaskAlone DEF Submit, MoveTo, TypeOK, signalVars
  <1>2. CASE Work(p) \/ Report(p)
    BY <1>2, WorkFrame, TaskAlone
  <1> QED BY <1>1, <1>2

\* A task's own steps are those of the abstract task: until its entrypoint it has
\* the initial status, and no agent ran.
LEMMA TaskOwn ==
  ASSUME TypeOK, TasksInv, SessionInv, NEW q \in Qubes, Submit(q) \/ Work(q) \/ Report(q)
  PROVE  [Task(q)!Next]_(Task(q)!vars)
  <1> USE DEF TypeOK, SessionInv, MoveTo, taskVars, signalVars, Place, Task!vars
  <1>1. CASE Submit(q)
    BY <1>1 DEF Submit
  <1>2. CASE Start(q)
    <2>1. task[q] = "queued"
      BY <1>2, StartQueued
    <2> QED BY <1>2, <2>1 DEF Start
  <1>3. CASE CancelBeforeStart(q)
    <2>1. Task(q)!Skip
      BY <1>3 DEF CancelBeforeStart, Task!Skip, Task!Cancelled, SIGINT, Task!SIGINT, OK, Task!OK
    <2> QED BY <2>1 DEF Task!Next
  <1>4. CASE OpenSession(q)
    <2>1. Task(q)!Open
      BY <1>4 DEF OpenSession, Task!Open
    <2> QED BY <2>1 DEF Task!Next
  <1>5. ASSUME NEW t \in TransferCodes, Transfer(q, t)
        PROVE  [Task(q)!Next]_(Task(q)!vars)
    <2>1. Task(q)!Cancel \/ Task(q)!Transfer(t)
      BY <1>5 DEF Transfer, Task!Cancel, Task!Transfer, Task!Cancelled, SIGINT, Task!SIGINT,
                  OK, Task!OK
    <2> QED BY <2>1 DEF Task!Next
  <1>6. ASSUME NEW e \in EntryCodes, Entrypoint(q, e)
        PROVE  [Task(q)!Next]_(Task(q)!vars)
    <2>1. Task(q)!Run(e)
      BY <1>6 DEF Entrypoint, Task!Run, OK, Task!OK, EntryStatus, EntryCode, MaxOf,
                  Task!EntryStatus, Task!EntryCode, Task!MaxOf, OK_NO_UPDATES, Task!OK_NO_UPDATES
    <2> QED BY <2>1 DEF Task!Next
  <1>7. CASE LeaveSession(q)
    <2>1. Task(q)!Report
      BY <1>7 DEF LeaveSession, Task!Report
    <2> QED BY <2>1 DEF Task!Next
  <1>8. CASE Return(q)
    <2>1. Task(q)!Settle
      BY <1>8 DEF Return, Task!Settle
    <2> QED BY <2>1 DEF Task!Next
  <1>9. CASE RaiseOutside(q) \/ RaiseInside(q)
    <2>1. Task(q)!Fail
      BY <1>9 DEF RaiseOutside, RaiseInside, Task!Fail
    <2> QED BY <2>1 DEF Task!Next
  <1>10. CASE HandleException(q)
    <2>1. Task(q)!SettleFailed
      BY <1>10 DEF HandleException, Task!SettleFailed, ERR_VM_UNHANDLED, Task!ERR_VM_UNHANDLED
    <2> QED BY <2>1 DEF Task!Next
  <1>11. CASE CollectResult(q)
    BY <1>11 DEF CollectResult
  <1>12. CASE Report(q)
    BY <1>12 DEF Report
  <1> QED
    BY <1>1, <1>2, <1>3, <1>4, <1>5, <1>6, <1>7, <1>8, <1>9, <1>10, <1>11, <1>12 DEF Work

\* Every task of the batch implements the abstract task.
THEOREM ImplementsTasks == Spec => TaskSpec
  <1>1. Inv /\ [Next]_vars => \A q \in Qubes : [Task(q)!Next]_(Task(q)!vars)
    <2> SUFFICES ASSUME Inv, [Next]_vars, NEW q \in Qubes
                 PROVE  [Task(q)!Next]_(Task(q)!vars)
      OBVIOUS
    <2>1. CASE \/ StartFeeding \/ FeedingTurn \/ Feed \/ FeedNone \/ Finish \/ Sigint
               \/ UNCHANGED vars
      BY <2>1, TaskMain
    <2>2. ASSUME NEW p \in Qubes, Submit(p) \/ Work(p) \/ Report(p)
          PROVE  [Task(q)!Next]_(Task(q)!vars)
      <3>1. CASE p = q
        BY <2>2, <3>1, TaskOwn DEF Inv
      <3>2. CASE p # q
        BY <2>2, <3>2, TaskOther DEF Inv
      <3> QED BY <3>1, <3>2
    <2> QED BY <2>1, <2>2 DEF Next, Main, Terminated
  <1>2. Init => \A q \in Qubes : Task(q)!Init
    BY TasksInit
  <1> DEFINE Step == \A q \in Qubes : [Task(q)!Next]_(Task(q)!vars)
             Begin == \A q \in Qubes : Task(q)!Init
  <1>3. Inv /\ [Next]_vars => [Step]_vars
    BY <1>1
  <1>4. TaskSpec <=> Begin /\ [][Step]_vars
    BY DEF TaskSpec
  <1> HIDE DEF Step, Begin
  <1>5. Init => Begin
    BY <1>2 DEF Begin
  <1> QED
    BY <1>3, <1>4, <1>5, InvHolds, PTL DEF Spec

--------------------------------------------------------------------------------
(***************************************************************************)
(* run keeps the promise main relies on: PromiseKept.  It is about bars    *)
(* that are not shared, so each carries the name of its qube.              *)
(***************************************************************************)
\* The queue after a put: what was there, and the message.
LEMMA Appended ==
  ASSUME queue \in Seq(Message), NEW q \in Qubes, NEW info \in FinalStatus \cup {"progress"},
         Put(q, info), DisplayName = NoName
  PROVE  /\ Len(queue) \in Nat /\ DOMAIN queue = 1..Len(queue)
         /\ DOMAIN queue' = 1..(Len(queue) + 1)
         /\ \A i \in 1..Len(queue) : queue'[i] = queue[i]
         /\ queue'[Len(queue) + 1].bar = q /\ queue'[Len(queue) + 1].info = info
  <1> DEFINE m == [bar |-> q, info |-> info]
  <1>1. queue' = Append(queue, m) /\ m \in Message
    BY DEF Put, BarOf, Bars, Message
  <1>2. m.bar = q /\ m.info = info
    OBVIOUS
  <1> HIDE DEF m
  <1>3. /\ Len(queue) \in Nat /\ DOMAIN queue = 1..Len(queue)
        /\ DOMAIN queue' = 1..(Len(queue) + 1)
        /\ \A i \in 1..Len(queue) : queue'[i] = queue[i]
        /\ queue'[Len(queue) + 1] = m
    BY <1>1, AppendProperties, LenProperties
  <1> QED BY <1>2, <1>3

\* The queue after a get: what was behind the first message.
LEMMA Shifted ==
  ASSUME queue \in Seq(Message), queue # <<>>, queue' = Tail(queue)
  PROVE  /\ \A i \in DOMAIN queue' : /\ i \in Int /\ i + 1 \in DOMAIN queue /\ i + 1 # 1
                                     /\ queue'[i] = queue[i + 1]
         /\ 1 \in DOMAIN queue /\ Head(queue) = queue[1]
  BY HeadTailProperties, LenProperties, EmptySeq

\* Every message names a qube.
LEMMA Named ==
  ASSUME queue \in Seq(Message), NEW i \in DOMAIN queue, DisplayName = NoName
  PROVE  queue[i].bar \in Qubes /\ queue[i].info \in FinalStatus \cup {"progress"}
  <1>1. queue[i] \in Message
    BY ElementOfSeq, LenProperties
  <1> QED BY <1>1 DEF Message, Bars, BarOf

\* What a step of a task says, and what it makes of the task: it is silent, or
\* reports progress before it speaks, or puts its status as it comes to speak,
\* or is excused.
Fresh(q) == task[q] \notin Spoken \cup {"raised"}

LEMMA Effect ==
  ASSUME Inv, NEW q \in Qubes, Work(q) \/ Report(q)
  PROVE  /\ UNCHANGED <<mpc, left, statuses, termination>>
         /\ Excused(q) => Excused(q)'
         /\ \/ /\ UNCHANGED queue
               /\ \/ Excused(q)' \/ Fresh(q)
                  \/ task[q] \in Spoken /\ task'[q] \in Spoken /\ status'[q] = status[q]
            \/ Put(q, "progress") /\ Fresh(q)
            \/ \E info \in FinalStatus :
                 /\ Put(q, info)
                 /\ info = "cancelled" => termination
                 /\ Excused(q)' \/ (Fresh(q) /\ task'[q] \in Spoken /\ info = status'[q])
  <1> USE DEF Excused, Fresh, Spoken, MoveTo, mainVars, taskVars, signalVars
  <1>0. /\ task \in [Qubes -> TaskStates] /\ status \in [Qubes -> FinalStatus]
        /\ code \in [Qubes -> Nat] /\ TypeOK /\ TasksInv
        /\ status[q] = "cancelled" => termination
        /\ {"cancelled", "error"} \subseteq FinalStatus
    BY DEF Inv, TypeOK, SessionInv, FinalStatus
  <1>1. CASE Start(q)
    <2>1. task[q] = "queued"
      BY <1>0, <1>1, StartQueued
    <2> QED BY <1>0, <1>1, <2>1 DEF Start
  <1>2. CASE CancelBeforeStart(q)
    BY <1>0, <1>2 DEF CancelBeforeStart
  <1>3. CASE OpenSession(q)
    BY <1>0, <1>3 DEF OpenSession
  <1>4. CASE \E t \in TransferCodes : Transfer(q, t)
    BY <1>0, <1>4 DEF Transfer
  <1>5. CASE \E e \in EntryCodes : Entrypoint(q, e)
    BY <1>0, <1>5 DEF Entrypoint
  <1>6. CASE LeaveSession(q)
    BY <1>0, <1>6 DEF LeaveSession
  <1>7. CASE Return(q)
    BY <1>0, <1>7 DEF Return
  <1>8. CASE RaiseOutside(q)
    BY <1>0, <1>8 DEF RaiseOutside
  <1>9. CASE RaiseInside(q)
    BY <1>0, <1>9 DEF RaiseInside
  <1>10. CASE HandleException(q)
    BY <1>0, <1>10 DEF HandleException
  <1>11. CASE CollectResult(q)
    BY <1>0, <1>11 DEF CollectResult
  <1>12. CASE Report(q)
    BY <1>0, <1>12 DEF Report
  <1> QED
    BY <1>1, <1>2, <1>3, <1>4, <1>5, <1>6, <1>7, <1>8, <1>9, <1>10, <1>11, <1>12 DEF Work

\* The tasks of other qubes stay excused or not.
LEMMA ExcusedFrame ==
  ASSUME Inv, NEW q \in Qubes, Work(q) \/ Report(q), NEW p \in Qubes, p # q
  PROVE  Excused(p)' = Excused(p) /\ task'[p] = task[p] /\ status'[p] = status[p]
  <1>1. task'[p] = task[p] /\ status'[p] = status[p] /\ code'[p] = code[p]
    BY WorkFrame DEF Inv
  <1> QED BY <1>1 DEF Excused

\* The words of one qube, queued and read.
QueuedWords(q) ==
  \A i \in DOMAIN queue :
    queue[i].bar = q /\ IsDone(queue[i]) =>
      Excused(q) \/ (task[q] \in Spoken /\ queue[i].info = status[q])
ReadWords(q) ==
  statuses[q] # "none" => Excused(q) \/ (task[q] \in Spoken /\ statuses[q] = status[q])

\* A task speaks once, unless it is excused.
LEMMA WordsWork ==
  ASSUME Inv, DisplayName = NoName, WordsInv, NEW q \in Qubes, Work(q) \/ Report(q)
  PROVE  WordsInv'
  <1>0. queue \in Seq(Message) /\ "progress" \notin FinalStatus /\ UNCHANGED statuses
        /\ UNCHANGED termination /\ (Excused(q) => Excused(q)')
    BY Effect DEF Inv, TypeOK, FinalStatus
  <1>1. /\ ~Excused(q) /\ task[q] \notin Spoken =>
             /\ \A i \in DOMAIN queue : queue[i].bar = q => ~IsDone(queue[i])
             /\ statuses[q] = "none"
        /\ Fresh(q) => ~Excused(q) /\ task[q] \notin Spoken
    BY DEF WordsInv, Excused, Fresh, Spoken
  <1>2. ASSUME NEW p \in Qubes PROVE ReadWords(p)'
    <2>1. CASE p # q
      BY <1>0, <2>1, ExcusedFrame DEF WordsInv, ReadWords
    <2>2. CASE p = q
      BY <1>0, <1>1, <2>2, Effect DEF WordsInv, ReadWords
    <2> QED BY <2>1, <2>2
  <1>3. CASE UNCHANGED queue
    <2>1. ASSUME NEW p \in Qubes PROVE QueuedWords(p)'
      <3>1. CASE p # q
        BY <1>3, <3>1, ExcusedFrame DEF WordsInv, QueuedWords, IsDone
      <3>2. CASE p = q
        <4>1. \/ Excused(q)' \/ Fresh(q)
              \/ task[q] \in Spoken /\ task'[q] \in Spoken /\ status'[q] = status[q]
          <5>1. ~Put(q, "progress") /\ \A info \in FinalStatus : ~Put(q, info)
            <6>1. ASSUME NEW info \in FinalStatus \cup {"progress"}, Put(q, info) PROVE FALSE
              <7>1. DOMAIN queue' = 1..(Len(queue) + 1) /\ DOMAIN queue = 1..Len(queue)
                    /\ Len(queue) \in Nat
                BY <1>0, <6>1, Appended
              <7> QED BY <1>3, <7>1
            <6> QED BY <6>1
          <5> QED BY <5>1, Effect
        <4> QED BY <1>0, <1>1, <1>3, <3>2, <4>1 DEF WordsInv, QueuedWords, IsDone
      <3> QED BY <3>1, <3>2
    <2> QED BY <1>0, <1>2, <1>3, <2>1 DEF WordsInv, QueuedWords, ReadWords, IsDone
  <1>4. ASSUME NEW info \in FinalStatus \cup {"progress"}, Put(q, info),
               info = "cancelled" => termination,
               \/ info = "progress" /\ Fresh(q)
               \/ Excused(q)' \/ (Fresh(q) /\ task'[q] \in Spoken /\ info = status'[q])
        PROVE  WordsInv'
    <2>1. /\ Len(queue) \in Nat /\ DOMAIN queue = 1..Len(queue)
          /\ DOMAIN queue' = 1..(Len(queue) + 1)
          /\ \A i \in 1..Len(queue) : queue'[i] = queue[i]
          /\ queue'[Len(queue) + 1].bar = q /\ queue'[Len(queue) + 1].info = info
      BY <1>0, <1>4, Appended
    <2>2. ASSUME NEW p \in Qubes PROVE QueuedWords(p)'
      <3>1. CASE p # q
        BY <2>1, <3>1, ExcusedFrame DEF WordsInv, QueuedWords, IsDone
      <3>2. CASE p = q
        BY <1>0, <1>1, <1>4, <2>1, <3>2 DEF WordsInv, QueuedWords, IsDone
      <3> QED BY <3>1, <3>2
    <2>3. \A i \in DOMAIN queue' : queue'[i].info = "cancelled" => termination
      BY <1>4, <2>1 DEF WordsInv
    <2> QED BY <1>0, <1>2, <2>2, <2>3 DEF WordsInv, QueuedWords, ReadWords, IsDone
  <1> QED
    BY <1>3, <1>4, Effect

\* The main process reads words and loses them; it adds none.
LEMMA WordsMain ==
  ASSUME Inv, DisplayName = NoName, WordsInv,
         \/ StartFeeding \/ FeedingTurn \/ Feed \/ FeedNone \/ Finish \/ Sigint
         \/ UNCHANGED vars
  PROVE  WordsInv'
  <1>0. UNCHANGED <<task, status, code>>
    BY MainFrame
  <1>1. \A q \in Qubes : Excused(q)' = Excused(q)
    BY <1>0 DEF Excused
  <1>2. CASE Feed
    <2>1. /\ queue \in Seq(Message) /\ queue # <<>> /\ queue' = Tail(queue)
          /\ statuses \in [Qubes -> FinalStatus \cup {"none"}]
          /\ UNCHANGED termination
          /\ \/ UNCHANGED statuses
             \/ /\ IsDone(Head(queue))
                /\ statuses' = [statuses EXCEPT ![Head(queue).bar] = Head(queue).info]
      BY <1>2 DEF Feed, Inv, TypeOK, IsDone, Bars, BarOf, signalVars
    <2>2. /\ \A i \in DOMAIN queue' : /\ i \in Int /\ i + 1 \in DOMAIN queue
                                      /\ queue'[i] = queue[i + 1]
          /\ 1 \in DOMAIN queue /\ Head(queue) = queue[1]
      BY <2>1, Shifted
    <2> QED BY <1>0, <1>1, <2>1, <2>2 DEF WordsInv, IsDone
  <1>3. CASE FeedNone
    <2>1. /\ queue \in Seq(Message) /\ queue # <<>> /\ queue' = Tail(queue)
          /\ UNCHANGED statuses /\ termination' = TRUE
      BY <1>3 DEF FeedNone, Inv, TypeOK
    <2>2. \A i \in DOMAIN queue' : i + 1 \in DOMAIN queue /\ queue'[i] = queue[i + 1]
      BY <2>1, Shifted
    <2> QED BY <1>0, <1>1, <2>1, <2>2 DEF WordsInv, IsDone
  <1>4. CASE StartFeeding \/ FeedingTurn \/ Finish \/ Sigint \/ UNCHANGED vars
    <2>1. UNCHANGED <<queue, statuses>> /\ (termination => termination')
      BY <1>4 DEF StartFeeding, FeedingTurn, Finish, Sigint, vars, mainVars, signalVars
    <2> QED BY <1>0, <1>1, <2>1 DEF WordsInv, IsDone
  <1> QED BY <1>2, <1>3, <1>4

\* Submitting a task says nothing.
LEMMA WordsSubmit ==
  ASSUME Inv, WordsInv, NEW q \in Qubes, Submit(q)
  PROVE  WordsInv' /\ \A p \in Qubes : Excused(p)' = Excused(p)
  <1>1. /\ task[q] = "new" /\ task' = [task EXCEPT ![q] = "queued"]
        /\ task \in [Qubes -> TaskStates]
        /\ UNCHANGED <<status, code, queue, statuses, termination>>
    BY DEF Submit, MoveTo, mainVars, signalVars, Inv, TypeOK
  <1>2. \A p \in Qubes : Excused(p)' = Excused(p)
    BY <1>1 DEF Excused
  <1> QED BY <1>1, <1>2 DEF WordsInv, IsDone, Spoken

\* The qubes whose word the loop has not read.
Unread == {q \in Qubes : statuses[q] = "none"}

\* A task adds a DONE only if it has none, queued or read.
LEMMA CountWork ==
  ASSUME Inv, DisplayName = NoName, WordsInv, CountInv, NEW q \in Qubes, Work(q) \/ Report(q)
  PROVE  CountInv'
  <1> SUFFICES ASSUME ~Dummy, \A p \in Qubes : ~Excused(p)'
               PROVE  /\ \A i, j \in DOMAIN queue' :
                           IsDone(queue'[i]) /\ IsDone(queue'[j]) /\ queue'[i].bar = queue'[j].bar => i = j
                      /\ \A i \in DOMAIN queue' : IsDone(queue'[i]) => statuses'[queue'[i].bar] = "none"
                      /\ mpc' # "submit" => left' = Cardinality(Unread')
    BY DEF CountInv, IsDone, Unread
  <1>0. queue \in Seq(Message) /\ "progress" \notin FinalStatus /\ UNCHANGED <<mpc, left, statuses>>
    BY Effect DEF Inv, TypeOK, FinalStatus
  <1>1. \A p \in Qubes : ~Excused(p)
    BY ExcusedFrame, Effect
  <1>2. /\ \A i, j \in DOMAIN queue :
             IsDone(queue[i]) /\ IsDone(queue[j]) /\ queue[i].bar = queue[j].bar => i = j
        /\ \A i \in DOMAIN queue : IsDone(queue[i]) => statuses[queue[i].bar] = "none"
        /\ mpc # "submit" => left = Cardinality(Unread)
    BY <1>1 DEF CountInv, Unread
  <1>3. Unread' = Unread
    BY <1>0 DEF Unread
  <1>4. CASE UNCHANGED queue
    BY <1>0, <1>2, <1>3, <1>4
  <1>5. ASSUME NEW info \in FinalStatus \cup {"progress"}, Put(q, info),
               info = "progress" \/ Fresh(q)
        PROVE  /\ \A i, j \in DOMAIN queue' :
                    IsDone(queue'[i]) /\ IsDone(queue'[j]) /\ queue'[i].bar = queue'[j].bar => i = j
               /\ \A i \in DOMAIN queue' : IsDone(queue'[i]) => statuses'[queue'[i].bar] = "none"
    <2>1. /\ Len(queue) \in Nat /\ DOMAIN queue = 1..Len(queue)
          /\ DOMAIN queue' = 1..(Len(queue) + 1)
          /\ \A i \in 1..Len(queue) : queue'[i] = queue[i]
          /\ queue'[Len(queue) + 1].bar = q /\ queue'[Len(queue) + 1].info = info
      BY <1>0, <1>5, Appended
    <2>2. CASE info = "progress"
      BY <1>0, <1>2, <2>1, <2>2 DEF IsDone
    <2>3. CASE Fresh(q)
      <3>1. /\ \A i \in DOMAIN queue : queue[i].bar = q => ~IsDone(queue[i])
            /\ statuses[q] = "none"
        BY <1>1, <2>3 DEF WordsInv, Fresh, Spoken
      <3> QED BY <1>0, <1>2, <2>1, <3>1
    <2> QED BY <1>5, <2>2, <2>3
  <1> QED
    BY <1>0, <1>2, <1>3, <1>4, <1>5, Effect

\* A DONE that is read is one less to wait for.
LEMMA CountFeed ==
  ASSUME Inv, DisplayName = NoName, CountInv, Feed \/ FeedNone
  PROVE  CountInv'
  <1> SUFFICES ASSUME ~Dummy, \A p \in Qubes : ~Excused(p)'
               PROVE  /\ \A i, j \in DOMAIN queue' :
                           IsDone(queue'[i]) /\ IsDone(queue'[j]) /\ queue'[i].bar = queue'[j].bar => i = j
                      /\ \A i \in DOMAIN queue' : IsDone(queue'[i]) => statuses'[queue'[i].bar] = "none"
                      /\ left' = Cardinality(Unread')
    BY DEF CountInv, IsDone, Unread
  <1>0. /\ queue \in Seq(Message) /\ queue # <<>> /\ queue' = Tail(queue) /\ mpc = "get"
        /\ statuses \in [Qubes -> FinalStatus \cup {"none"}]
    BY DEF Inv, TypeOK, Bars, BarOf, Feed, FeedNone
  <1>1. \A p \in Qubes : ~Excused(p)
    BY MainFrame DEF Excused
  <1>2. /\ \A i, j \in DOMAIN queue :
             IsDone(queue[i]) /\ IsDone(queue[j]) /\ queue[i].bar = queue[j].bar => i = j
        /\ \A i \in DOMAIN queue : IsDone(queue[i]) => statuses[queue[i].bar] = "none"
        /\ left = Cardinality(Unread)
    BY <1>0, <1>1 DEF CountInv, Unread
  <1>3. /\ \A i \in DOMAIN queue' : /\ i \in Int /\ i + 1 \in DOMAIN queue /\ i + 1 # 1
                                    /\ queue'[i] = queue[i + 1]
        /\ 1 \in DOMAIN queue /\ Head(queue) = queue[1]
    BY <1>0, Shifted
  <1>4. \A i, j \in DOMAIN queue' :
          IsDone(queue'[i]) /\ IsDone(queue'[j]) /\ queue'[i].bar = queue'[j].bar => i = j
    <2> SUFFICES ASSUME NEW i \in DOMAIN queue', NEW j \in DOMAIN queue',
                        IsDone(queue'[i]), IsDone(queue'[j]), queue'[i].bar = queue'[j].bar
                 PROVE  i = j
      OBVIOUS
    <2>1. i + 1 \in DOMAIN queue /\ j + 1 \in DOMAIN queue /\ i \in Int /\ j \in Int
          /\ queue'[i] = queue[i + 1] /\ queue'[j] = queue[j + 1]
      BY <1>3
    <2>2. i + 1 = j + 1
      BY <1>2, <2>1
    <2> QED BY <2>1, <2>2
  <1>5. CASE UNCHANGED <<statuses, left>>
    BY <1>2, <1>3, <1>4, <1>5 DEF Unread
  <1>6. CASE ~UNCHANGED <<statuses, left>>
    <2> DEFINE b == Head(queue).bar
    <2>1. /\ IsDone(Head(queue)) /\ left' = left - 1
          /\ statuses' = [statuses EXCEPT ![b] = Head(queue).info]
      BY <1>6 DEF Feed, FeedNone, IsDone
    <2>2. b \in Qubes /\ Head(queue).info \in FinalStatus
      BY <1>0, <1>3, <2>1, Named DEF IsDone
    <2>3. statuses[b] = "none"
      BY <1>2, <1>3, <2>1
    <2>4. Unread' = Unread \ {b}
      BY <1>0, <2>1, <2>2 DEF Unread, FinalStatus
    <2>5. Cardinality(Unread \ {b}) = Cardinality(Unread) - 1
      <3>1. IsFiniteSet(Unread)
        BY ConstantsAssumption, FS_Subset DEF Unread
      <3>2. b \in Unread
        BY <2>2, <2>3 DEF Unread
      <3> QED BY <3>1, <3>2, FS_RemoveElement
    <2>6. \A i \in DOMAIN queue' : IsDone(queue'[i]) => statuses'[queue'[i].bar] = "none"
      <3> SUFFICES ASSUME NEW i \in DOMAIN queue', IsDone(queue'[i])
                   PROVE  statuses'[queue'[i].bar] = "none"
        OBVIOUS
      <3>1. /\ i + 1 \in DOMAIN queue /\ i + 1 # 1 /\ 1 \in DOMAIN queue
            /\ queue'[i] = queue[i + 1] /\ Head(queue) = queue[1]
        BY <1>3
      <3>2. queue'[i].bar # b
        BY <1>2, <2>1, <3>1
      <3>3. statuses[queue'[i].bar] = "none" /\ queue'[i].bar \in Qubes
        BY <1>0, <1>2, <3>1, Named
      <3> QED BY <1>0, <2>1, <3>2, <3>3
    <2> QED BY <1>2, <1>4, <2>1, <2>4, <2>5, <2>6
  <1> QED BY <1>5, <1>6

\* The loop starts with as many as there are qubes, and no other step reads.
LEMMA CountMain ==
  ASSUME Inv, DisplayName = NoName, CountInv, AnswerInv,
         \/ StartFeeding \/ FeedingTurn \/ Finish \/ Sigint
         \/ (\E q \in Qubes : Submit(q)) \/ UNCHANGED vars
  PROVE  CountInv'
  <1>1. CASE StartFeeding
    <2>1. \A q \in Qubes : Excused(q)' = Excused(q)
      BY <1>1 DEF StartFeeding, taskVars, Excused
    <2>2. Unread' = Unread /\ Unread = Qubes /\ Bars = Qubes
      BY <1>1 DEF StartFeeding, AnswerInv, Unread, Bars, BarOf
    <2>3. UNCHANGED <<queue, statuses>> /\ (~Dummy => left' = Cardinality(Unread'))
      BY <1>1, <2>2 DEF StartFeeding
    <2> QED BY <2>1, <2>3 DEF CountInv, Unread, IsDone
  <1>2. CASE FeedingTurn \/ Finish \/ Sigint \/ UNCHANGED vars
    <2>1. \A q \in Qubes : Excused(q)' = Excused(q)
      BY <1>2, MainFrame DEF Excused
    <2>2. UNCHANGED <<queue, statuses, left>> /\ (mpc' # "submit" => mpc # "submit")
      BY <1>2 DEF FeedingTurn, Finish, Sigint, vars, mainVars
    <2> QED BY <2>1, <2>2 DEF CountInv, IsDone
  <1>3. ASSUME NEW q \in Qubes, Submit(q) PROVE CountInv'
    <2>1. \A p \in Qubes : Excused(p)' = Excused(p)
      BY <1>3 DEF Submit, MoveTo, Inv, TypeOK, Excused
    <2>2. UNCHANGED <<queue, statuses, left, mpc>>
      BY <1>3 DEF Submit, mainVars
    <2> QED BY <2>1, <2>2 DEF CountInv, IsDone
  <1> QED BY <1>1, <1>2, <1>3

\* What run makes of ret: nobody is cancelled without a request to stop, and a
\* status that is an error is that of a task.
LEMMA AnswerFinish ==
  ASSUME Inv, DisplayName = NoName, WordsInv, Finish, ~termination
  PROVE  \/ ret' \in {OK} \cup {VmCode(code[q]) : q \in Qubes}
         \/ ret' = ERR /\ \E q \in Qubes : status[q] = "error"
  <1>1. ret \in {OK} \cup {VmCode(code[q]) : q \in Qubes}
    BY DEF Finish, Inv, RetInv
  <1>2. "cancelled" \notin Stats
    BY DEF WordsInv, Stats, Bars, BarOf
  <1>3. ASSUME "error" \in Stats PROVE \E q \in Qubes : status[q] = "error"
    <2>1. PICK q \in Qubes : statuses[q] = "error"
      BY <1>3 DEF Stats, Bars, BarOf
    <2>2. task[q] = "collected"
      BY DEF Finish
    <2> QED BY <2>1, <2>2 DEF WordsInv, Excused
  <1>4. ret' = IF "error" \in Stats THEN MaxOf(ret, ERR) ELSE ret
    BY <1>2 DEF Finish
  <1>5. MaxOf(ret, ERR) \in {ret, ERR}
    BY DEF MaxOf
  <1> QED BY <1>1, <1>3, <1>4, <1>5

LEMMA AnswerStep ==
  ASSUME Inv, DisplayName = NoName, WordsInv, AnswerInv, [Next]_vars
  PROVE  AnswerInv'
  <1>1. CASE Finish
    <2>1. UNCHANGED <<termination, code, status, statuses, left>> /\ mpc = "join" /\ mpc' = "done"
      BY <1>1 DEF Finish, signalVars, taskVars
    <2>2. ~termination => \/ ret' \in {OK} \cup {VmCode(code[q]) : q \in Qubes}
                          \/ ret' = ERR /\ \E q \in Qubes : status[q] = "error"
      BY <1>1, AnswerFinish
    <2> QED BY <2>1, <2>2 DEF AnswerInv
  <1>2. ASSUME NEW q \in Qubes, Work(q) \/ Report(q) PROVE AnswerInv'
    <2>1. UNCHANGED <<mpc, left, statuses, termination>>
      BY <1>2, Effect
    <2>2. mpc # "done"
      BY <1>2, WorkFrame DEF Inv, RetInv
    <2> QED BY <2>1, <2>2 DEF AnswerInv
  <1>3. ASSUME NEW q \in Qubes, Submit(q) PROVE AnswerInv'
    BY <1>3 DEF Submit, mainVars, AnswerInv
  <1>4. CASE StartFeeding
    BY <1>4 DEF StartFeeding, AnswerInv
  <1>5. CASE FeedingTurn
    BY <1>5 DEF FeedingTurn, AnswerInv
  <1>6. CASE Feed \/ FeedNone
    BY <1>6 DEF Feed, FeedNone, AnswerInv
  <1>7. CASE Sigint
    BY <1>7 DEF Sigint, mainVars, AnswerInv
  <1>8. CASE UNCHANGED vars
    BY <1>8 DEF vars, mainVars, taskVars, signalVars, AnswerInv
  <1> QED
    BY <1>1, <1>2, <1>3, <1>4, <1>5, <1>6, <1>7, <1>8 DEF Next, Main, Terminated

\* The three parts together are invariant for bars that are not shared.
LEMMA PromiseStep ==
  ASSUME Inv, DisplayName = NoName, PromiseInv, [Next]_vars
  PROVE  PromiseInv'
  <1> USE DEF PromiseInv
  <1>1. AnswerInv'
    BY AnswerStep
  <1>2. CASE StartFeeding \/ FeedingTurn \/ Finish \/ Sigint \/ UNCHANGED vars
    BY <1>1, <1>2, WordsMain, CountMain
  <1>3. CASE Feed \/ FeedNone
    BY <1>1, <1>3, WordsMain, CountFeed
  <1>4. CASE \E q \in Qubes : Submit(q)
    BY <1>1, <1>4, WordsSubmit, CountMain
  <1>5. ASSUME NEW q \in Qubes, Work(q) \/ Report(q) PROVE PromiseInv'
    BY <1>1, <1>5, WordsWork, CountWork
  <1> QED
    BY <1>2, <1>3, <1>4, <1>5 DEF Next, Main, Terminated

LEMMA PromiseInit ==
  ASSUME Init, DisplayName = NoName
  PROVE  PromiseInv
  <1>1. queue = <<>> /\ DOMAIN queue = {} /\ mpc = "submit"
    BY DEF Init
  <1>2. \A q \in Qubes : statuses[q] = "none"
    BY DEF Init, Bars, BarOf
  <1> QED
    BY <1>1, <1>2 DEF PromiseInv, WordsInv, CountInv, AnswerInv

\* When run returns, the statuses are the words of the tasks, or of one of them
\* that is excused, and the code is what their codes allow.
LEMMA PromiseMeant ==
  ASSUME Inv, PromiseInv, DisplayName = NoName, mpc = "done"
  PROVE  Promise!Promised([q \in Qubes |-> [status |-> status[q], code |-> code[q]]],
                          Dummy, termination, ret, statuses)
  <1> DEFINE ended == [q \in Qubes |-> [status |-> status[q], code |-> code[q]]]
  <1>1. DOMAIN ended = Qubes
        /\ \A q \in Qubes : ended[q].status = status[q] /\ ended[q].code = code[q]
    OBVIOUS
  <1>2. \A q \in Qubes : task[q] = "collected"
    BY DEF Inv, RetInv
  <1>3. \A q \in Qubes : Excused(q) <=> Promise!Excepted(ended[q])
    BY <1>1, <1>2 DEF Excused, Promise!Excepted, ERR_VM_UNHANDLED, Promise!ERR_VM_UNHANDLED
  <1> HIDE DEF ended
  <1>4. Promise!Reported(ended, Dummy, statuses)
    <2>1. CASE Dummy
      BY <1>1, <2>1 DEF Promise!Reported, PromiseInv, AnswerInv
    <2>2. CASE ~Dummy /\ \A q \in Qubes : ~Excused(q)
      <3>1. Cardinality(Unread) = 0
        BY <2>2 DEF PromiseInv, CountInv, AnswerInv, Unread
      <3>2. IsFiniteSet(Unread)
        BY ConstantsAssumption, FS_Subset DEF Unread
      <3>3. \A q \in Qubes : statuses[q] = status[q]
        BY <2>2, <3>1, <3>2, FS_EmptySet DEF Unread, PromiseInv, WordsInv
      <3> QED BY <1>1, <2>2, <3>3 DEF Promise!Reported
    <2>3. CASE ~Dummy /\ \E q \in Qubes : Excused(q)
      <3>1. \A q \in Qubes : statuses[q] # "none" => Excused(q) \/ statuses[q] = status[q]
        BY DEF PromiseInv, WordsInv
      <3> QED BY <1>1, <1>3, <2>3, <3>1 DEF Promise!Reported
    <2> QED BY <2>1, <2>2, <2>3 DEF TypeOK, Inv, ConstantsAssumption
  <1>5. Promise!Coded(ended, termination, ret)
    <2>1. CASE termination
      BY <2>1 DEF Inv, RetInv, Promise!Coded, SIGINT, Promise!SIGINT
    <2>2. CASE ~termination
      <3>1. \A c : Promise!VmCode(c) = VmCode(c)
        BY DEF Promise!VmCode, VmCode, VM_HANDLED, Promise!VM_HANDLED, OK, Promise!OK,
               OK_NO_UPDATES, Promise!OK_NO_UPDATES, ERR_VM, Promise!ERR_VM, ERR_VM_PRE,
               Promise!ERR_VM_PRE, ERR_VM_REFRESH, Promise!ERR_VM_REFRESH, ERR_VM_UPDATE,
               Promise!ERR_VM_UPDATE, ERR_VM_CLEANUP, Promise!ERR_VM_CLEANUP,
               ERR_VM_UNHANDLED, Promise!ERR_VM_UNHANDLED
      <3>2. \A q \in Qubes : ended[q].status # "cancelled" /\ Promise!VmCode(ended[q].code) <= ret
        BY <1>1, <1>2, <2>2, <3>1 DEF Inv, SessionInv, RetInv
      <3>3. \/ ret = OK \/ \E q \in Qubes : ret = Promise!VmCode(ended[q].code)
            \/ ret = ERR /\ \E q \in Qubes : ended[q].status = "error"
        BY <1>1, <2>2, <3>1 DEF PromiseInv, AnswerInv
      <3> QED BY <1>1, <2>2, <3>2, <3>3 DEF Promise!Coded, OK, Promise!OK, ERR, Promise!ERR
    <2> QED BY <2>1, <2>2
  <1>6. Promise!Promised(ended, Dummy, termination, ret, statuses)
    BY <1>4, <1>5 DEF Promise!Promised
  <1> QED BY <1>6 DEF ended

\* run keeps its promise to main: for any batch, however its tasks end, with and
\* without exceptions, in quiet mode too, and whenever SIGINTs arrive.
THEOREM PromiseIsKept == Spec => []PromiseKept
  <1> DEFINE Kept == Inv /\ (DisplayName = NoName => PromiseInv)
  <1>1. Init => Kept
    BY InitInv, PromiseInit
  <1>2. Kept /\ [Next]_vars => Kept'
    <2> SUFFICES ASSUME Kept, [Next]_vars PROVE Kept'
      OBVIOUS
    <2>1. Inv'
      BY TypeStep, MainStep, TasksStep, SessionStep, RetStep DEF Inv
    <2> QED BY <2>1, PromiseStep
  <1>3. Kept => PromiseKept
    BY PromiseMeant DEF PromiseKept
  <1> HIDE DEF Kept
  <1> QED
    BY <1>1, <1>2, <1>3, PTL DEF Spec

--------------------------------------------------------------------------------
(***************************************************************************)
(* The feeding loop does not wait in vain: NoWaitInVain, for shared bars   *)
(* too.  A message the loop counts is one that is queued, and a task that  *)
(* has not spoken will put one.                                            *)
(***************************************************************************)
\* There are no more bars than qubes.
LEMMA BarsAtMostQubes == Cardinality(Bars) <= Cardinality(Qubes)
  <1>0. IsFiniteSet(Qubes) /\ Cardinality(Qubes) \in Nat
    BY ConstantsAssumption, FS_CardinalityType
  <1>1. CASE DisplayName = NoName
    BY <1>0, <1>1 DEF Bars, BarOf
  <1>2. CASE DisplayName # NoName
    <2>1. Bars = {DisplayName}
      BY <1>2, ConstantsAssumption DEF Bars, BarOf
    <2>2. Cardinality(Qubes) # 0
      BY <1>0, ConstantsAssumption, FS_EmptySet
    <2> QED BY SMTT(60), <1>0, <2>1, <2>2, FS_Singleton
  <1> QED BY <1>1, <1>2

\* The two sets are finite.
LEMMA WaitFinite ==
  ASSUME queue \in Seq(Message)
  PROVE  /\ IsFiniteSet(Pending) /\ Cardinality(Pending) \in Nat
         /\ IsFiniteSet(Silent) /\ Cardinality(Silent) \in Nat
  <1>1. Len(queue) \in Nat /\ DOMAIN queue = 1..Len(queue)
    BY LenProperties
  <1>2. IsFiniteSet(1..Len(queue)) /\ Pending \subseteq 1..Len(queue)
    BY <1>1, FS_Interval DEF Pending
  <1>3. IsFiniteSet(Qubes) /\ Silent \subseteq Qubes
    BY ConstantsAssumption DEF Silent
  <1> QED BY <1>2, <1>3, FS_Subset, FS_CardinalityType

\* A set of numbers has as many members when each is one less.
LEMMA ShiftKeepsCount ==
  ASSUME NEW S, NEW T, IsFiniteSet(S), S \subseteq Int, T \subseteq Int,
         \A i \in Int : i \in T <=> i + 1 \in S
  PROVE  IsFiniteSet(T) /\ Cardinality(T) = Cardinality(S)
  <1> DEFINE f == [i \in S |-> i - 1]
  <1>1. \A i \in S : i - 1 \in T
    OBVIOUS
  <1>2. f \in [S -> T]
    BY <1>1
  <1>3. \A i, j \in S : f[i] = f[j] => i = j
    OBVIOUS
  <1>4. \A j \in T : \E i \in S : f[i] = j
    <2> SUFFICES ASSUME NEW j \in T PROVE \E i \in S : f[i] = j
      OBVIOUS
    <2>1. j + 1 \in S /\ f[j + 1] = j
      OBVIOUS
    <2> QED BY <2>1
  <1> HIDE DEF f
  <1>5. f \in Bijection(S, T)
    BY <1>2, <1>3, <1>4 DEF Bijection, Injection, Surjection, IsInjective
  <1> QED BY <1>5, FS_Bijection DEF ExistsBijection

\* A put adds the message to those that count, if it is a DONE.
LEMMA PutPending ==
  ASSUME queue \in Seq(Message), NEW q \in Qubes, NEW info \in FinalStatus \cup {"progress"},
         Put(q, info)
  PROVE  Cardinality(Pending') =
           IF info = "progress" THEN Cardinality(Pending) ELSE Cardinality(Pending) + 1
  <1> DEFINE m == [bar |-> BarOf(q), info |-> info]
             last == Len(queue) + 1
  <1>1. queue' = Append(queue, m) /\ m \in Message /\ m.info = info
    BY DEF Put, Bars, Message
  <1> HIDE DEF m
  <1>2. /\ Len(queue) \in Nat /\ DOMAIN queue = 1..Len(queue)
        /\ DOMAIN queue' = 1..last
        /\ \A i \in 1..Len(queue) : queue'[i] = queue[i]
        /\ queue'[last] = m
    BY <1>1, AppendProperties, LenProperties
  <1>3. last \notin Pending /\ IsFiniteSet(Pending)
    BY <1>2, WaitFinite DEF Pending
  <1>4. CASE info = "progress"
    <2>1. Pending' = Pending
      BY <1>1, <1>2, <1>4 DEF Pending, IsDone
    <2> QED BY <1>4, <2>1
  <1>5. CASE info # "progress"
    <2>1. Pending' = Pending \cup {last}
      BY <1>1, <1>2, <1>5 DEF Pending, IsDone
    <2> QED BY <1>3, <1>5, <2>1, FS_AddElement
  <1> QED BY <1>4, <1>5

\* A get takes the message from those that count, if it is a DONE.
LEMMA TailPending ==
  ASSUME queue \in Seq(Message), queue # <<>>, queue' = Tail(queue)
  PROVE  Cardinality(Pending') =
           IF Head(queue).info = "progress" THEN Cardinality(Pending) ELSE Cardinality(Pending) - 1
  <1>1. /\ \A i \in DOMAIN queue' : /\ i \in Int /\ i + 1 \in DOMAIN queue /\ i + 1 # 1
                                    /\ queue'[i] = queue[i + 1]
        /\ 1 \in DOMAIN queue /\ Head(queue) = queue[1]
    BY Shifted
  <1>2. /\ Len(queue) \in Nat /\ DOMAIN queue = 1..Len(queue)
        /\ DOMAIN queue' = 1..(Len(queue) - 1)
    BY HeadTailProperties, LenProperties, EmptySeq
  <1>3. Pending \subseteq Int /\ Pending' \subseteq Int /\ IsFiniteSet(Pending)
    BY <1>2, WaitFinite DEF Pending
  <1> DEFINE rest == Pending \ {1}
  <1>4. \A i \in Int : i \in Pending' <=> i + 1 \in rest
    BY <1>1, <1>2 DEF Pending, IsDone
  <1>5. IsFiniteSet(rest) /\ rest \subseteq Int
        /\ Cardinality(rest) = IF 1 \in Pending THEN Cardinality(Pending) - 1 ELSE Cardinality(Pending)
    BY <1>3, FS_RemoveElement
  <1>6. 1 \in Pending <=> Head(queue).info # "progress"
    BY <1>1 DEF Pending, IsDone
  <1> HIDE DEF rest
  <1>7. Cardinality(Pending') = Cardinality(rest)
    BY <1>3, <1>4, <1>5, ShiftKeepsCount
  <1> QED BY <1>5, <1>6, <1>7

\* A step of a task leaves it silent, unless it puts a DONE.
LEMMA Speaks ==
  ASSUME TypeOK, TasksInv, NEW q \in Qubes, Work(q) \/ Report(q)
  PROVE  /\ UNCHANGED <<mpc, left>>
         /\ \/ UNCHANGED queue /\ (task[q] \notin Spoken => task'[q] \notin Spoken)
            \/ UNCHANGED queue /\ task[q] \in Spoken
            \/ Put(q, "progress") /\ task'[q] = task[q]
            \/ \E info \in FinalStatus : Put(q, info)
  <1> USE DEF Spoken, MoveTo, mainVars, taskVars, signalVars
  <1>0. /\ task \in [Qubes -> TaskStates] /\ status \in [Qubes -> FinalStatus]
        /\ {"cancelled", "error"} \subseteq FinalStatus
    BY DEF TypeOK, FinalStatus
  <1>1. CASE Start(q)
    BY <1>0, <1>1 DEF Start
  <1>2. CASE CancelBeforeStart(q)
    BY <1>0, <1>2 DEF CancelBeforeStart
  <1>3. CASE OpenSession(q)
    BY <1>0, <1>3 DEF OpenSession
  <1>4. CASE \E t \in TransferCodes : Transfer(q, t)
    BY <1>0, <1>4 DEF Transfer
  <1>5. CASE \E e \in EntryCodes : Entrypoint(q, e)
    BY <1>0, <1>5 DEF Entrypoint
  <1>6. CASE LeaveSession(q)
    BY <1>0, <1>6 DEF LeaveSession
  <1>7. CASE Return(q)
    BY <1>0, <1>7 DEF Return
  <1>8. CASE RaiseOutside(q)
    BY <1>0, <1>8 DEF RaiseOutside
  <1>9. CASE RaiseInside(q)
    BY <1>0, <1>9 DEF RaiseInside
  <1>10. CASE HandleException(q)
    BY <1>0, <1>10 DEF HandleException
  <1>11. CASE CollectResult(q)
    BY <1>0, <1>11 DEF CollectResult
  <1>12. CASE Report(q)
    BY <1>0, <1>12 DEF Report
  <1> QED
    BY <1>1, <1>2, <1>3, <1>4, <1>5, <1>6, <1>7, <1>8, <1>9, <1>10, <1>11, <1>12 DEF Work

\* A task that falls silent for good has put a DONE.
LEMMA WaitWork ==
  ASSUME Inv, WaitInv, NEW q \in Qubes, Work(q) \/ Report(q)
  PROVE  WaitInv'
  <1>0. /\ TypeOK /\ TasksInv /\ queue \in Seq(Message)
        /\ "progress" \notin FinalStatus /\ UNCHANGED <<mpc, left>>
    BY Speaks DEF Inv, TypeOK, FinalStatus
  <1>1. Awaited' = Awaited /\ Awaited \in Int
    BY <1>0, BarsFinite DEF Awaited, TypeOK
  <1>2. \A p \in Qubes \ {q} : task'[p] = task[p]
    BY <1>0, WorkFrame
  <1>3. queue' \in Seq(Message)
    BY <1>0, PutType, Speaks
  <1>4. /\ IsFiniteSet(Silent) /\ Cardinality(Silent) \in Nat
        /\ IsFiniteSet(Silent') /\ Cardinality(Silent') \in Nat
        /\ Cardinality(Pending) \in Nat /\ Cardinality(Pending') \in Nat
    <2>1. IsFiniteSet(Silent) /\ Cardinality(Silent) \in Nat /\ Cardinality(Pending) \in Nat
      BY <1>0, WaitFinite
    <2>2. Len(queue') \in Nat /\ DOMAIN queue' = 1..Len(queue')
      BY <1>3, LenProperties
    <2>3. IsFiniteSet(1..Len(queue')) /\ Pending' \subseteq 1..Len(queue')
      BY <2>2, FS_Interval DEF Pending
    <2>4. IsFiniteSet(Qubes) /\ Silent' \subseteq Qubes
      BY ConstantsAssumption DEF Silent
    <2> QED BY <2>1, <2>3, <2>4, FS_Subset, FS_CardinalityType
  <1>5. Silent \ {q} \subseteq Silent'
    BY <1>2 DEF Silent
  <1>6. CASE Cardinality(Pending') = Cardinality(Pending) /\ Silent \subseteq Silent'
    <2>1. Cardinality(Silent) <= Cardinality(Silent')
      BY <1>4, <1>6, FS_Subset
    <2> QED BY <1>1, <1>4, <1>6, <2>1 DEF WaitInv
  <1>7. ASSUME NEW info \in FinalStatus, Put(q, info) PROVE WaitInv'
    <2>1. Cardinality(Pending') = Cardinality(Pending) + 1
      BY <1>0, <1>7, PutPending
    <2>2. /\ Cardinality(Silent \ {q}) >= Cardinality(Silent) - 1
          /\ IsFiniteSet(Silent \ {q}) /\ Cardinality(Silent \ {q}) \in Nat
      <3>1. IsFiniteSet(Silent \ {q})
            /\ Cardinality(Silent \ {q}) \in {Cardinality(Silent), Cardinality(Silent) - 1}
        BY <1>4, FS_RemoveElement
      <3> QED BY <1>4, <3>1, FS_CardinalityType
    <2>3. Cardinality(Silent \ {q}) <= Cardinality(Silent')
      BY <1>4, <1>5, FS_Subset
    <2> QED BY <1>1, <1>4, <2>1, <2>2, <2>3 DEF WaitInv
  <1>8. ASSUME task[q] \in Spoken \/ task'[q] \notin Spoken PROVE Silent \subseteq Silent'
    BY <1>2, <1>8 DEF Silent
  <1>9. CASE UNCHANGED queue /\ (task[q] \in Spoken \/ task'[q] \notin Spoken)
    <2>1. Pending' = Pending
      BY <1>9 DEF Pending, IsDone
    <2> QED BY <1>6, <1>8, <1>9, <2>1
  <1>10. CASE Put(q, "progress") /\ task'[q] = task[q]
    <2>1. Cardinality(Pending') = Cardinality(Pending)
      BY <1>0, <1>10, PutPending
    <2> QED BY <1>6, <1>8, <1>10, <2>1
  <1> QED BY <1>0, <1>7, <1>9, <1>10, Speaks

\* A DONE that is read is one less to wait for.
LEMMA WaitFeed ==
  ASSUME Inv, WaitInv, Feed
  PROVE  WaitInv'
  <1>0. /\ queue \in Seq(Message) /\ queue # <<>> /\ queue' = Tail(queue)
        /\ mpc = "get" /\ mpc' = "feed" /\ left \in Nat /\ UNCHANGED task
    BY MainFrame DEF Inv, TypeOK, Feed
  <1>1. Silent' = Silent /\ Awaited = left /\ Awaited' = left'
    BY <1>0 DEF Silent, Awaited
  <1>2. Cardinality(Pending) \in Nat /\ Cardinality(Silent) \in Nat
    BY <1>0, WaitFinite
  <1>3. CASE Head(queue).info = "progress"
    <2>1. left' = left
      BY <1>3 DEF Feed
    <2>2. Cardinality(Pending') = Cardinality(Pending)
      BY <1>0, <1>3, TailPending
    <2> QED BY <1>1, <2>1, <2>2 DEF WaitInv
  <1>4. CASE Head(queue).info # "progress"
    <2>1. left' = left - 1
      BY <1>4 DEF Feed
    <2>2. Cardinality(Pending') = Cardinality(Pending) - 1
      BY <1>0, <1>4, TailPending
    <2> QED BY <1>0, <1>1, <1>2, <2>1, <2>2 DEF WaitInv
  <1> QED BY <1>3, <1>4

\* The loop starts with as many as there are bars, and no other step reads.
LEMMA WaitStep ==
  ASSUME Inv, WaitInv, [Next]_vars, ~interrupted
  PROVE  WaitInv'
  <1>1. ASSUME NEW q \in Qubes, Submit(q) PROVE WaitInv'
    <2>1. UNCHANGED <<mpc, left, queue>> /\ task' = [task EXCEPT ![q] = "queued"]
          /\ task[q] = "new" /\ task \in [Qubes -> TaskStates]
      BY <1>1 DEF Submit, MoveTo, mainVars, Inv, TypeOK
    <2>2. Silent' = Silent /\ Pending' = Pending /\ Awaited' = Awaited
      BY <2>1 DEF Silent, Spoken, Pending, IsDone, Awaited
    <2> QED BY <2>2 DEF WaitInv
  <1>2. CASE StartFeeding
    <2>1. UNCHANGED <<queue, task>> /\ (~Dummy => Awaited' = Awaited)
      BY <1>2, MainFrame DEF StartFeeding, Awaited
    <2>2. Silent' = Silent /\ Pending' = Pending
      BY <2>1 DEF Silent, Pending, IsDone
    <2> QED BY <2>1, <2>2 DEF WaitInv
  <1>3. CASE FeedingTurn \/ Finish \/ Sigint \/ UNCHANGED vars
    <2>1. UNCHANGED <<queue, task>> /\ Awaited' = Awaited
      BY <1>3, MainFrame DEF FeedingTurn, Finish, Sigint, vars, mainVars, Awaited
    <2>2. Silent' = Silent /\ Pending' = Pending
      BY <2>1 DEF Silent, Pending, IsDone
    <2> QED BY <2>1, <2>2 DEF WaitInv
  <1>4. CASE Feed
    BY <1>4, WaitFeed
  <1>5. ~FeedNone
    BY DEF FeedNone
  <1>6. ASSUME NEW q \in Qubes, Work(q) \/ Report(q) PROVE WaitInv'
    BY <1>6, WaitWork
  <1> QED
    BY <1>1, <1>2, <1>3, <1>4, <1>5, <1>6 DEF Next, Main, Terminated

LEMMA WaitInit ==
  ASSUME Init
  PROVE  WaitInv
  <1>1. Silent = Qubes /\ Awaited = Cardinality(Bars) /\ queue = <<>> /\ queue \in Seq(Message)
    BY DEF Init, Silent, Spoken, Awaited
  <1>2. Cardinality(Pending) \in Nat /\ Cardinality(Silent) \in Nat
    BY <1>1, WaitFinite
  <1> QED BY <1>1, <1>2, BarsFinite, BarsAtMostQubes DEF WaitInv

\* What is awaited while the queue is empty is awaited from somebody.
LEMMA WaitMeant ==
  ASSUME Inv, Dummy => mpc # "get", WaitInv
  PROVE  NoWaitInVain
  <1> SUFFICES ASSUME mpc = "get", queue = <<>>
               PROVE  \E q \in Qubes : task[q] \notin Spoken
    BY DEF NoWaitInVain
  <1>1. Pending = {} /\ Cardinality(Pending) = 0
    BY FS_EmptySet DEF Pending
  <1>2. left > 0 /\ left \in Nat /\ ~Dummy
    BY DEF Inv, TypeOK, MainInv
  <1>3. Cardinality(Silent) # 0
    <2>1. Cardinality(Silent) \in Nat
      BY WaitFinite DEF Inv, TypeOK
    <2> QED BY <1>1, <1>2, <2>1 DEF WaitInv, Awaited
  <1>4. Silent # {}
    BY <1>3, FS_EmptySet
  <1> QED BY <1>4 DEF Silent

\* The pool's queue keeps what was submitted until it is started.
LEMMA PoolStep ==
  ASSUME TypeOK, TasksInv, PoolInv, [Next]_vars
  PROVE  PoolInv'
  <1>0. tasks \in Seq(Qubes) /\ task \in [Qubes -> TaskStates]
    BY DEF TypeOK
  <1>1. ASSUME NEW q \in Qubes, Submit(q) PROVE PoolInv'
    <2>1. /\ tasks' = Append(tasks, q) /\ task' = [task EXCEPT ![q] = "queued"]
          /\ mpc = "submit" /\ mpc' = mpc
      BY <1>1 DEF Submit, MoveTo, mainVars
    <2>2. /\ DOMAIN tasks = 1..Len(tasks) /\ Len(tasks) \in Nat
          /\ DOMAIN tasks' = 1..Len(tasks) + 1
          /\ \A i \in 1..Len(tasks) : tasks'[i] = tasks[i]
          /\ tasks'[Len(tasks) + 1] = q
      BY <1>0, <2>1, AppendProperties, LenProperties
    <2>3. ASSUME NEW p \in Qubes, task'[p] = "queued" PROVE \E i \in DOMAIN tasks' : tasks'[i] = p
      <3>1. CASE p = q
        BY <2>2, <3>1
      <3>2. CASE p # q
        <4>1. PICK i \in DOMAIN tasks : tasks[i] = p
          BY <1>0, <2>1, <2>3, <3>2 DEF PoolInv
        <4>2. i \in DOMAIN tasks' /\ tasks'[i] = p
          BY <2>2, <4>1
        <4> QED BY <4>2
      <3> QED BY <3>1, <3>2
    <2> QED BY <2>1, <2>3 DEF PoolInv
  <1>2. ASSUME NEW q \in Qubes, Start(q) PROVE PoolInv'
    <2>1. /\ tasks # <<>> /\ q = Head(tasks) /\ tasks' = Tail(tasks)
          /\ task' = [task EXCEPT ![q] = "started"] /\ mpc' = mpc
      BY <1>2 DEF Start, MoveTo, mainVars
    <2>2. /\ DOMAIN tasks = 1..Len(tasks) /\ Len(tasks) \in Nat
          /\ DOMAIN tasks' = 1..Len(tasks) - 1
          /\ \A i \in 1..Len(tasks) - 1 : tasks'[i] = tasks[i + 1]
          /\ q = tasks[1]
      BY <1>0, <2>1, HeadTailProperties, LenProperties, EmptySeq
    <2>3. ASSUME NEW p \in Qubes, task'[p] = "queued" PROVE \E i \in DOMAIN tasks' : tasks'[i] = p
      <3>1. p # q /\ task[p] = "queued"
        BY <1>0, <2>1, <2>3
      <3>2. PICK i \in DOMAIN tasks : tasks[i] = p
        BY <3>1 DEF PoolInv
      <3>3. i # 1 /\ i \in 1..Len(tasks)
        BY <2>2, <3>1, <3>2
      <3>4. i - 1 \in DOMAIN tasks' /\ tasks'[i - 1] = p
        BY <2>2, <3>2, <3>3
      <3> QED BY <3>4
    <2>4. \A p \in Qubes : task'[p] = "new" => task[p] = "new"
      BY <1>0, <2>1
    <2> QED BY <2>1, <2>3, <2>4 DEF PoolInv
  <1>3. ASSUME NEW q \in Qubes,
               \/ CancelBeforeStart(q) \/ OpenSession(q)
               \/ \E t \in TransferCodes : Transfer(q, t)
               \/ \E e \in EntryCodes : Entrypoint(q, e)
               \/ LeaveSession(q) \/ Return(q) \/ RaiseOutside(q)
               \/ RaiseInside(q) \/ HandleException(q) \/ CollectResult(q)
               \/ Report(q)
        PROVE  PoolInv'
    <2>1. UNCHANGED <<tasks, mpc>> /\ task'[q] \notin {"new", "queued"}
      BY <1>0, <1>3 DEF CancelBeforeStart, OpenSession, Transfer, Entrypoint,
                  LeaveSession, Return, RaiseOutside, RaiseInside, mainVars, taskVars,
                  HandleException, CollectResult, Report, MoveTo
    <2>2. \A p \in Qubes : p # q => task'[p] = task[p]
      BY <1>3, WorkFrame DEF Work
    <2> QED BY <2>1, <2>2 DEF PoolInv
  <1>4. CASE StartFeeding
    <2>1. UNCHANGED <<task, tasks>> /\ \A q \in Qubes : task[q] # "new"
      BY <1>4 DEF StartFeeding, taskVars
    <2> QED BY <2>1 DEF PoolInv
  <1>5. CASE FeedingTurn \/ Feed \/ FeedNone \/ Finish \/ Sigint \/ UNCHANGED vars
    <2>1. UNCHANGED <<task, tasks>> /\ (mpc' # "submit" => mpc # "submit")
      BY <1>5 DEF FeedingTurn, Feed, FeedNone, Finish, Sigint, vars, taskVars, mainVars
    <2> QED BY <2>1 DEF PoolInv
  <1> QED
    BY <1>1, <1>2, <1>3, <1>4, <1>5 DEF Next, Main, Work, Terminated

\* A task that was submitted and is not collected can go on, or waits for a pool
\* that is busy with others that can.
LEMMA TaskGoesOn ==
  ASSUME TypeOK, PoolInv, NEW q \in Qubes, mpc # "submit", task[q] # "collected"
  PROVE  NeverStuck
  <1>0. task[q] \in TaskStates /\ task[q] # "new"
    BY DEF TypeOK, PoolInv
  <1>1. CASE task[q] \in BusyStates \cup {"returned"}
    BY <1>1 DEF NeverStuck
  <1>2. CASE task[q] = "queued"
    <2>1. tasks # <<>>
      BY <1>2 DEF PoolInv
    <2>2. CASE Busy = {}
      <3>1. Cardinality(Busy) = 0
        BY <2>2, FS_EmptySet
      <3>2. Cardinality(Busy) < MaxConcurrency
        BY <3>1, ConstantsAssumption
      <3> QED BY <2>1, <3>2 DEF NeverStuck
    <2>3. CASE Busy # {}
      BY <2>3 DEF Busy, NeverStuck
    <2> QED BY <2>2, <2>3
  <1> QED BY <1>0, <1>1, <1>2 DEF TaskStates

\* The parts a batch that is not stuck rests on.
StuckInv == Inv /\ (Dummy => mpc \notin {"feed", "get"}) /\ WaitInv /\ PoolInv

LEMMA StuckInit == Init => StuckInv
  <1>1. Init => PoolInv
    BY DEF Init, PoolInv
  <1> QED BY <1>1, InitInv, WaitInit DEF Init, StuckInv

LEMMA StuckStep ==
  ASSUME StuckInv, ~interrupted, [Next]_vars
  PROVE  StuckInv'
  <1> USE DEF StuckInv
  <1>1. Inv'
    BY TypeStep, MainStep, TasksStep, SessionStep, RetStep DEF Inv
  <1>2. (Dummy => mpc \notin {"feed", "get"})'
    <2>1. ASSUME NEW q \in Qubes, Work(q) \/ Report(q) PROVE UNCHANGED mpc
      BY <2>1, WorkFrame DEF Inv
    <2>2. CASE Main \/ Sigint \/ UNCHANGED vars
      BY <2>2 DEF Main, Submit, StartFeeding, FeedingTurn, Feed, FeedNone, Finish,
                  Sigint, vars, mainVars
    <2> QED BY <2>1, <2>2 DEF Next, Terminated
  <1>3. PoolInv'
    BY PoolStep DEF Inv
  <1> QED BY <1>1, <1>2, <1>3, WaitStep

\* As long as no SIGINT takes a message from the feeding loop, the loop blocks
\* only while a message is queued or a task has still to say DONE: for any batch,
\* exceptions, shared bars and SIGINTs at other times.
THEOREM NobodyWaitsInVain == Spec => ([]~interrupted => []NoWaitInVain)
  <1>1. StuckInv => NoWaitInVain
    BY WaitMeant DEF StuckInv
  <1> QED
    BY <1>1, StuckInit, StuckStep, PTL DEF Spec

\* And main process and pool are never stuck: somebody can always go on until run
\* returns, for any batch and any size of the pool.
THEOREM BatchGoesOn == Spec => ([]~interrupted => []NeverStuck)
  <1>1. StuckInv => NeverStuck
    <2> SUFFICES ASSUME StuckInv PROVE NeverStuck
      OBVIOUS
    <2>0. TypeOK /\ PoolInv /\ NoWaitInVain /\ mpc \in {"submit", "feed", "get", "join", "done"}
      BY WaitMeant DEF StuckInv, Inv, TypeOK
    <2>1. CASE mpc = "get" /\ queue = <<>>
      <3>1. PICK q \in Qubes : task[q] \notin Spoken
        BY <2>0, <2>1 DEF NoWaitInVain
      <3> QED BY <2>0, <2>1, <3>1, TaskGoesOn DEF Spoken
    <2>2. CASE mpc = "join" /\ \E q \in Qubes : task[q] # "collected"
      BY <2>0, <2>2, TaskGoesOn
    <2> QED BY <2>0, <2>1, <2>2 DEF NeverStuck
  <1> QED
    BY <1>1, StuckInit, StuckStep, PTL DEF Spec
================================================================================
