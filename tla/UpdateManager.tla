----------------------------- MODULE UpdateManager -----------------------------
(***************************************************************************)
(* vmupdate/update_manager.py: one UpdateManager.run over a batch of       *)
(* qubes.  The main process submits one task per qube to a process pool,   *)
(* consumes the status queue in the feeding loop, joins the pool and       *)
(* computes the return code.  Each task is one update_qube call.           *)
(*                                                                         *)
(* The status queue and the termination flag live in a Manager process.    *)
(* The main process reaches both through one connection, one request at a  *)
(* time, so a SIGINT that arrives while the main process waits for the     *)
(* reply of status_notifier.get leaves its "set termination" request       *)
(* behind the get, and the signal handler takes the get's reply: the       *)
(* message is lost and the interrupted get returns None.                   *)
(***************************************************************************)
EXTENDS ExitCodes, Sequences, FiniteSets

CONSTANTS
  Qubes,           \* the batch
  MaxConcurrency,  \* --max-concurrency, the size of the pool
  Dummy,           \* TRUE with --quiet or --no-progress: feeding is skipped
  DisplayName,     \* --display-name, or NoName
  NoName,
  TransferCodes,   \* the codes transfer_agent can return
  EntryCodes,      \* the codes the entrypoint can exit with; a negative one
                   \* is dom0's agent killed by a signal (Popen.returncode)
  MayRaise,        \* TRUE if a session may end with an exception
  MaxSigint,       \* bound on the SIGINTs the main process receives
  MaxReports       \* bound on the progress messages of one qube

ASSUME ConstantsAssumption ==
  /\ IsFiniteSet(Qubes) /\ Qubes # {}
  /\ MaxConcurrency \in Nat \ {0}
  /\ Dummy \in BOOLEAN
  /\ MayRaise \in BOOLEAN
  /\ TransferCodes \subseteq Nat
  /\ EntryCodes \subseteq Int
  /\ MaxSigint \in Nat
  /\ MaxReports \in Nat

VARIABLES
  mpc,          \* where the main process is
  tasks,        \* the pool's task queue
  task,         \* where each qube's task is
  status,       \* the status of each qube's connection, or what the task put
  code,         \* the code of each task's ProcessResult
  exit,         \* history: how each qube's entrypoint exited, OK before
  reports,      \* progress messages sent so far for each qube
  queue,        \* the status queue
  termination,  \* the shared termination flag
  interrupted,  \* a SIGINT handler waits behind the main process's get
  sigints,      \* SIGINTs the batch's handler was called for
  left,         \* left_to_finish of the feeding loop
  statuses,     \* what the feeding loop recorded for each bar
  ret           \* UpdateManager.ret_code

mainVars == <<mpc, left, statuses>>
taskVars == <<task, status, code, exit, reports>>
signalVars == <<termination, interrupted, sigints>>
vars == <<mainVars, taskVars, signalVars, tasks, queue, ret>>

--------------------------------------------------------------------------------
\* The name a qube's messages and its bar carry.
BarOf(q) == IF DisplayName = NoName THEN q ELSE DisplayName
Bars == {BarOf(q) : q \in Qubes}

\* A status message says "progress" or, when it is DONE, the final status.
Message == [bar : Bars, info : FinalStatus \cup {"progress"}]
Put(q, info) == queue' = Append(queue, [bar |-> BarOf(q), info |-> info])

\* A pool process is busy from taking the task to handing its result back.
BusyStates == {"started", "session", "entry", "leave", "cleanup", "raised"}
TaskStates == {"new", "queued", "returned", "collected"} \cup BusyStates
Busy == {q \in Qubes : task[q] \in BusyStates}

MoveTo(q, state) == task' = [task EXCEPT ![q] = state]

Init ==
  /\ mpc = "submit"
  /\ tasks = <<>>
  /\ task = [q \in Qubes |-> "new"]
  /\ status = [q \in Qubes |-> "error"]
  /\ code = [q \in Qubes |-> OK]
  /\ exit = [q \in Qubes |-> OK]
  /\ reports = [q \in Qubes |-> 0]
  /\ queue = <<>>
  /\ termination = FALSE
  /\ interrupted = FALSE
  /\ sigints = 0
  /\ left = 0
  /\ statuses = [b \in Bars |-> "none"]
  /\ ret = OK

--------------------------------------------------------------------------------
\* Slips a change to update_manager.py could make; each breaks a property below.

\* run returns without pool.join.
Finish_NoJoin ==
  /\ mpc = "join"
  /\ mpc' = "done"
  /\ ret' = IF termination THEN SIGINT ELSE ret
  /\ UNCHANGED <<left, statuses, taskVars, signalVars, tasks, queue>>

\* run does not look at the termination flag.
Finish_NoSigint ==
  /\ mpc = "join"
  /\ \A q \in Qubes : task[q] = "collected"
  /\ mpc' = "done"
  /\ UNCHANGED <<left, statuses, taskVars, signalVars, tasks, queue, ret>>

\* The pool is not limited.
Start_Unbounded(q) ==
  /\ tasks # <<>>
  /\ q = Head(tasks)
  /\ tasks' = Tail(tasks)
  /\ MoveTo(q, "started")
  /\ UNCHANGED <<mainVars, status, code, exit, reports, signalVars, queue, ret>>

\* A cancelled task sends no DONE.
CancelBeforeStart_Silent(q) ==
  /\ task[q] = "started"
  /\ termination
  /\ status' = [status EXCEPT ![q] = "cancelled"]
  /\ code' = [code EXCEPT ![q] = SIGINT]
  /\ MoveTo(q, "returned")
  /\ UNCHANGED <<mainVars, exit, reports, signalVars, tasks, queue, ret>>

\* The termination flag is looked at when the entrypoint has run.
Entrypoint_LateCheck(q, e) ==
  /\ task[q] = "entry"
  /\ exit' = [exit EXCEPT ![q] = e]
  /\ IF termination
     THEN /\ status' = [status EXCEPT ![q] = "cancelled"]
          /\ code' = [code EXCEPT ![q] = SIGINT]
     ELSE /\ status' = [status EXCEPT ![q] = IF e = OK THEN "success" ELSE "error"]
          /\ code' = [code EXCEPT ![q] = e]
  /\ MoveTo(q, "leave")
  /\ UNCHANGED <<mainVars, reports, signalVars, tasks, queue, ret>>

\* collect_result keeps the last code instead of the worst.
CollectResult_Last(q) ==
  /\ task[q] = "returned"
  /\ ret' = VmCode(code[q])
  /\ MoveTo(q, "collected")
  /\ UNCHANGED <<mainVars, status, code, exit, reports, signalVars, tasks, queue>>

--------------------------------------------------------------------------------
\* The main process.

\* One turn of the loop of run: add_bar and apply_async.
Submit(q) ==
  /\ mpc = "submit"
  /\ task[q] = "new"
  /\ MoveTo(q, "queued")
  /\ tasks' = Append(tasks, q)
  /\ UNCHANGED <<mainVars, status, code, exit, reports, signalVars, queue, ret>>

\* pool.close() and the head of feeding, which a dummy bar leaves at once.
StartFeeding ==
  /\ mpc = "submit"
  /\ \A q \in Qubes : task[q] # "new"
  /\ IF Dummy
     THEN mpc' = "join" /\ UNCHANGED left
     ELSE mpc' = "feed" /\ left' = Cardinality(Bars)
  /\ UNCHANGED <<statuses, taskVars, signalVars, tasks, queue, ret>>

\* The head of the feeding loop: leave it, or send the get request.
FeedingTurn ==
  /\ mpc = "feed"
  /\ mpc' = IF left = 0 THEN "join" ELSE "get"
  /\ UNCHANGED <<left, statuses, taskVars, signalVars, tasks, queue, ret>>

\* The get returns a message and the loop's body handles it.
Feed ==
  /\ mpc = "get"
  /\ ~interrupted
  /\ queue # <<>>
  /\ queue' = Tail(queue)
  /\ mpc' = "feed"
  /\ LET feed == Head(queue) IN
       IF feed.info = "progress"
       THEN UNCHANGED <<left, statuses>>
       ELSE /\ left' = left - 1
            /\ statuses' = [statuses EXCEPT ![feed.bar] = feed.info]
  /\ UNCHANGED <<taskVars, signalVars, tasks, ret>>

\* The waiting signal handler reads the get's reply as its own, the Manager
\* then sets the flag, and the get returns None (`if feed is None: continue`).
FeedNone ==
  /\ mpc = "get"
  /\ interrupted
  /\ queue # <<>>
  /\ queue' = Tail(queue)
  /\ interrupted' = FALSE
  /\ termination' = TRUE
  /\ mpc' = "feed"
  /\ UNCHANGED <<left, statuses, taskVars, sigints, tasks, ret>>

\* pool.join returns when every result was handed to collect_result; then the
\* handler is restored and the return code computed.
Stats == {statuses[b] : b \in Bars}

Finish ==
  /\ mpc = "join"
  /\ \A q \in Qubes : task[q] = "collected"
  /\ mpc' = "done"
  /\ LET afterCancel == IF termination THEN SIGINT ELSE ret
         afterStats  == IF "cancelled" \in Stats
                        THEN MaxOf(afterCancel, SIGINT) ELSE afterCancel
     IN  ret' = IF "error" \in Stats THEN MaxOf(afterStats, ERR) ELSE afterStats
  /\ UNCHANGED <<left, statuses, taskVars, signalVars, tasks, queue>>

\* signal_handler_during_feeding, installed until close().
Sigint ==
  /\ mpc # "done"
  /\ sigints < MaxSigint
  /\ sigints' = sigints + 1
  /\ IF mpc = "get"
     THEN interrupted' = TRUE /\ UNCHANGED termination
     ELSE termination' = TRUE /\ UNCHANGED interrupted
  /\ UNCHANGED <<mainVars, taskVars, tasks, queue, ret>>

--------------------------------------------------------------------------------
\* The pool: a free process takes the oldest task.
Start(q) ==
  /\ tasks # <<>>
  /\ q = Head(tasks)
  /\ Cardinality(Busy) < MaxConcurrency
  /\ tasks' = Tail(tasks)
  /\ MoveTo(q, "started")
  /\ UNCHANGED <<mainVars, status, code, exit, reports, signalVars, queue, ret>>

\* update_qube with the termination flag set: DONE CANCELLED and code 130.
CancelBeforeStart(q) ==
  /\ task[q] = "started"
  /\ termination
  /\ Put(q, "cancelled")
  /\ status' = [status EXCEPT ![q] = "cancelled"]
  /\ code' = [code EXCEPT ![q] = SIGINT]
  /\ MoveTo(q, "returned")
  /\ UNCHANGED <<mainVars, exit, reports, signalVars, tasks, ret>>

\* The flag is clear: the connection is opened.
OpenSession(q) ==
  /\ task[q] = "started"
  /\ ~termination
  /\ MoveTo(q, "session")
  /\ UNCHANGED <<mainVars, status, code, exit, reports, signalVars, tasks, queue, ret>>

\* _run_agent: the result of transfer_agent is kept but not looked at; the
\* termination flag decides whether the entrypoint is run.
Transfer(q, t) ==
  /\ task[q] = "session"
  /\ IF termination
     THEN /\ status' = [status EXCEPT ![q] = "cancelled"]
          /\ code' = [code EXCEPT ![q] = SIGINT]
          /\ MoveTo(q, "leave")
     ELSE /\ code' = [code EXCEPT ![q] = t]
          /\ MoveTo(q, "entry")
          /\ UNCHANGED status
  /\ UNCHANGED <<mainVars, exit, reports, signalVars, tasks, queue, ret>>

\* The entrypoint runs and reports progress.
Report(q) ==
  /\ task[q] = "entry"
  /\ ~Dummy
  /\ reports[q] < MaxReports
  /\ reports' = [reports EXCEPT ![q] = @ + 1]
  /\ Put(q, "progress")
  /\ UNCHANGED <<mainVars, task, status, code, exit, signalVars, tasks, ret>>

\* The entrypoint exits with e.
Entrypoint(q, e) ==
  /\ task[q] = "entry"
  /\ status' = [status EXCEPT ![q] = EntryStatus(e)]
  /\ code' = [code EXCEPT ![q] = MaxOf(@, EntryCode(e))]
  /\ exit' = [exit EXCEPT ![q] = e]
  /\ MoveTo(q, "leave")
  /\ UNCHANGED <<mainVars, reports, signalVars, tasks, queue, ret>>

\* QubeConnection.__exit__ puts DONE before it cleans up.
LeaveSession(q) ==
  /\ task[q] = "leave"
  /\ Put(q, status[q])
  /\ MoveTo(q, "cleanup")
  /\ UNCHANGED <<mainVars, status, code, exit, reports, signalVars, tasks, ret>>

\* The files are removed, the qube is shut down, the result returned.
Return(q) ==
  /\ task[q] = "cleanup"
  /\ MoveTo(q, "returned")
  /\ UNCHANGED <<mainVars, status, code, exit, reports, signalVars, tasks, queue, ret>>

\* An exception before the connection is entered (init_logs, is_running), or
\* out of __exit__, after DONE was put (is_running, shutdown).
RaiseOutside(q) ==
  /\ MayRaise
  /\ task[q] \in {"session", "cleanup"}
  /\ MoveTo(q, "raised")
  /\ UNCHANGED <<mainVars, status, code, exit, reports, signalVars, tasks, queue, ret>>

\* An exception inside the with block: __exit__ puts DONE with the status the
\* connection has, and the exception goes on to update_qube.
RaiseInside(q) ==
  /\ MayRaise
  /\ task[q] \in {"session", "entry"}
  /\ Put(q, status[q])
  /\ MoveTo(q, "raised")
  /\ UNCHANGED <<mainVars, status, code, exit, reports, signalVars, tasks, ret>>

\* update_qube's `except Exception`: DONE ERROR and code 26.
HandleException(q) ==
  /\ task[q] = "raised"
  /\ Put(q, "error")
  /\ status' = [status EXCEPT ![q] = "error"]
  /\ code' = [code EXCEPT ![q] = ERR_VM_UNHANDLED]
  /\ MoveTo(q, "returned")
  /\ UNCHANGED <<mainVars, exit, reports, signalVars, tasks, ret>>

\* The pool's result thread calls collect_result.
CollectResult(q) ==
  /\ task[q] = "returned"
  /\ ret' = MaxOf(ret, VmCode(code[q]))
  /\ MoveTo(q, "collected")
  /\ UNCHANGED <<mainVars, status, code, exit, reports, signalVars, tasks, queue>>

--------------------------------------------------------------------------------
Main == \/ \E q \in Qubes : Submit(q)
        \/ StartFeeding \/ FeedingTurn \/ Feed \/ FeedNone \/ Finish

Work(q) == \/ Start(q) \/ CancelBeforeStart(q) \/ OpenSession(q)
           \/ \E t \in TransferCodes : Transfer(q, t)
           \/ \E e \in EntryCodes : Entrypoint(q, e)
           \/ LeaveSession(q) \/ Return(q)
           \/ RaiseOutside(q) \/ RaiseInside(q) \/ HandleException(q)
           \/ CollectResult(q)

Terminated == mpc = "done" /\ UNCHANGED vars

Next == \/ Main
        \/ Sigint
        \/ \E q \in Qubes : Work(q) \/ Report(q)
        \/ Terminated

Spec == Init /\ [][Next]_vars

\* The main process runs on unless it is blocked; a pool process goes on with
\* its task, whose transfer, entrypoint and shutdown calls return.  No SIGINT
\* and no progress report need ever happen.
FairSpec == Spec /\ WF_vars(Main) /\ \A q \in Qubes : WF_vars(Work(q))

--------------------------------------------------------------------------------
TypeOK ==
  /\ mpc \in {"submit", "feed", "get", "join", "done"}
  /\ tasks \in Seq(Qubes)
  /\ task \in [Qubes -> TaskStates]
  /\ status \in [Qubes -> FinalStatus]
  /\ code \in [Qubes -> Nat]
  /\ exit \in [Qubes -> Int]
  /\ reports \in [Qubes -> Nat]
  /\ queue \in Seq(Message)
  /\ termination \in BOOLEAN
  /\ interrupted \in BOOLEAN
  /\ sigints \in Nat
  /\ left \in Nat
  /\ statuses \in [Bars -> FinalStatus \cup {"none"}]
  /\ ret \in Nat

\* The run's return code accounts for every task: once run returns, all tasks
\* were collected, and the code is SIGINT after a cancel, otherwise the worst
\* handled code of any qube (ERR if only a status was an error).  Code: the
\* order pool.join, `ret_code` in run, and collect_result on another thread.
ResultsFolded ==
  mpc = "done" =>
    /\ \A q \in Qubes : task[q] = "collected" /\ VmCode(code[q]) <= ret
    /\ ret \in {OK, ERR, SIGINT} \cup {VmCode(code[q]) : q \in Qubes}

\* A SIGINT taken at any time between the start of the batch and the end of
\* pool.join makes the batch return SIGINT, also when it found the main
\* process blocked in the queue, and even if every qube was updated.
SigintReported == mpc = "done" /\ sigints > 0 => ret = SIGINT

\* A qube reported as cancelled had its entrypoint skipped because the user
\* asked for it: the flag is set and no agent ran (update_qube, _run_agent).
CancelledUntouched ==
  \A q \in Qubes :
    status[q] = "cancelled" => termination /\ exit[q] = OK /\ reports[q] = 0

\* An entrypoint that did not exit with 0 or 100 keeps the batch from
\* returning 0.  Code: the chain of max over ProcessResults, VmCode and ret.
FailuresReported ==
  mpc = "done" =>
    \A q \in Qubes : exit[q] \notin {OK, OK_NO_UPDATES} => ret # OK

Promise == INSTANCE BatchPromise

\* What main of vmupdate.py builds on (BatchPromise, VmUpdate): the code and
\* the statuses run returns are those that the ends of its tasks allow.
PromiseKept ==
  mpc = "done" /\ DisplayName = NoName =>
    Promise!Promised([q \in Qubes |-> [status |-> status[q], code |-> code[q]]],
                     Dummy, termination, ret, statuses)

\* The docstring of feeding: the loop ends when DONE was consumed for every
\* qube.  Code: left_to_finish counts messages, not qubes.
DoneConsumedForAll ==
  mpc \in {"join", "done"} /\ ~Dummy =>
    \A q \in Qubes : statuses[BarOf(q)] # "none"

\* Every batch ends, whatever the tasks do, if no SIGINT finds the main
\* process blocked in the status queue.
EndsUnlessInterrupted == []~interrupted => <>(mpc = "done")

\* Graceful termination: a batch that took a SIGINT returns SIGINT.
SigintEndsBatch == (sigints > 0) ~> (mpc = "done" /\ ret = SIGINT)

--------------------------------------------------------------------------------
\* The abstract batch: a qube is settled when its task has handed its result
\* back, and the batch answers when run returns.
Phase == [q \in Qubes |-> CASE task[q] \in {"new", "queued"} -> "waiting"
                            [] task[q] \in BusyStates        -> "updating"
                            [] OTHER                         -> "settled"]
Verdict == [q \in Qubes |-> IF task[q] \in {"returned", "collected"}
                            THEN VmCode(code[q]) ELSE OK]

Batch == INSTANCE UpdateBatch WITH
  phase <- Phase, verdict <- Verdict, answer <- IF mpc = "done" THEN ret ELSE -1

\* Every run of the manager is a run of the abstract batch: no qube is updated
\* twice, no more than MaxConcurrency at a time, and run answers once, after
\* every task, with a code that covers all of them.
BatchSpec == Batch!Spec

\* One task seen as the abstract task of UpdateTask.
Place(q) == CASE task[q] \in {"new", "queued", "started"} -> "waiting"
              [] task[q] \in {"session", "entry", "leave"} -> "open"
              [] task[q] = "cleanup" -> "reported"
              [] task[q] = "raised" -> "failed"
              [] OTHER -> "settled"

Task(q) == INSTANCE UpdateTask WITH
  place <- Place(q), status <- status[q], code <- code[q], exit <- exit[q],
  stop <- termination

\* Every task of the batch keeps the promise of UpdateTask, the one the
\* detailed QubeConnection is shown to keep (\A q \in Qubes : Task(q)!Spec, in
\* the form TLC checks).
TaskSpec ==
  /\ \A q \in Qubes : Task(q)!Init
  /\ [][\A q \in Qubes : [Task(q)!Next]_(Task(q)!vars)]_vars

--------------------------------------------------------------------------------
(***************************************************************************)
(* The inductive invariant behind the theorems of UpdateManager_proofs.    *)
(***************************************************************************)
\* The loop blocks only while it expects a DONE; a handler waits only behind
\* a blocked get; a SIGINT taken is on its way to the flag or has arrived.
MainInv ==
  /\ mpc = "get" => left > 0
  /\ interrupted => mpc = "get"
  /\ sigints > 0 => termination \/ interrupted

\* A queued task is queued once and has not run.
TasksInv ==
  /\ \A i \in DOMAIN tasks : task[tasks[i]] = "queued"
  /\ \A i, j \in DOMAIN tasks : tasks[i] = tasks[j] => i = j

\* A task that has not come to its entrypoint has the initial status and no
\* agent ran; only a task that never ran its agent is cancelled.
SessionInv ==
  \A q \in Qubes :
    /\ task[q] \in {"new", "queued", "started", "session"} =>
         status[q] = "error" /\ exit[q] = OK /\ reports[q] = 0
    /\ task[q] = "entry" => status[q] = "error" /\ exit[q] = OK
    /\ status[q] = "cancelled" => termination /\ exit[q] = OK /\ reports[q] = 0

\* ret is the worst handled code collected so far, until run overrides it.
RetInv ==
  /\ \A q \in Qubes : task[q] = "collected" => VmCode(code[q]) <= ret
  /\ mpc # "done" =>
       ret = OK \/ \E q \in Qubes : task[q] = "collected" /\ ret = VmCode(code[q])
  /\ mpc = "done" =>
       /\ \A q \in Qubes : task[q] = "collected"
       /\ ret \in {OK, ERR, SIGINT} \cup {VmCode(code[q]) : q \in Qubes}
       /\ termination => ret = SIGINT

Inv == TypeOK /\ MainInv /\ TasksInv /\ SessionInv /\ RetInv

\* What PromiseKept needs beyond Inv, for bars that are not shared.
\* The task raised, or ended like one that did.
Excused(q) ==
  \/ task[q] = "raised"
  \/ /\ task[q] \in {"returned", "collected"}
     /\ status[q] = "error" /\ code[q] = ERR_VM_UNHANDLED

Spoken == {"cleanup", "returned", "collected"}
IsDone(message) == message.info # "progress"

\* A DONE that is queued or was read is the last word of a task that has spoken,
\* or of one that is excused; none says "cancelled" without the user's request.
WordsInv ==
  /\ \A q \in Qubes : \A i \in DOMAIN queue :
       queue[i].bar = q /\ IsDone(queue[i]) =>
         Excused(q) \/ (task[q] \in Spoken /\ queue[i].info = status[q])
  /\ \A q \in Qubes :
       statuses[q] # "none" => Excused(q) \/ (task[q] \in Spoken /\ statuses[q] = status[q])
  /\ \A i \in DOMAIN queue : queue[i].info = "cancelled" => termination
  /\ \A q \in Qubes : statuses[q] = "cancelled" => termination

\* While no task is excused every qube has at most one DONE, queued or read, and
\* the loop waits for as many as it has not read.
CountInv ==
  ~Dummy /\ (\A q \in Qubes : ~Excused(q)) =>
    /\ \A i, j \in DOMAIN queue :
         IsDone(queue[i]) /\ IsDone(queue[j]) /\ queue[i].bar = queue[j].bar => i = j
    /\ \A i \in DOMAIN queue : IsDone(queue[i]) => statuses[queue[i].bar] = "none"
    /\ mpc # "submit" => left = Cardinality({q \in Qubes : statuses[q] = "none"})

\* What ends the loop, and what run makes of ret without a request to stop.
AnswerInv ==
  /\ mpc = "submit" \/ Dummy => \A q \in Qubes : statuses[q] = "none"
  /\ Dummy => mpc \notin {"feed", "get"}
  /\ mpc \in {"join", "done"} /\ ~Dummy => left = 0
  /\ mpc = "done" /\ ~termination =>
       \/ ret \in {OK} \cup {VmCode(code[q]) : q \in Qubes}
       \/ ret = ERR /\ \E q \in Qubes : status[q] = "error"

PromiseInv == WordsInv /\ CountInv /\ AnswerInv

\* Why the loop does not wait for ever: a DONE it expects is queued, or belongs
\* to a task that has not spoken.
Pending == {i \in DOMAIN queue : IsDone(queue[i])}
Silent == {q \in Qubes : task[q] \notin Spoken}
Awaited == IF mpc = "submit" THEN Cardinality(Bars) ELSE left

WaitInv == ~Dummy => Awaited <= Cardinality(Pending) + Cardinality(Silent)

\* The feeding loop is not blocked on an empty queue when every task has said
\* DONE for the last time: status_notifier.get has no timeout, and nobody would
\* end the wait.  It holds as long as no SIGINT takes a message from the loop.
NoWaitInVain ==
  mpc = "get" /\ queue = <<>> => \E q \in Qubes : task[q] \notin Spoken

\* The pool loses no task: a submitted one is in its queue until it is started.
PoolInv ==
  /\ mpc # "submit" => \A q \in Qubes : task[q] # "new"
  /\ \A q \in Qubes : task[q] = "queued" => \E i \in DOMAIN tasks : tasks[i] = q

\* The batch is not stuck: the main process runs, what it waits for is there, a
\* task is on its way, or a free process can take the next one.  This is the
\* part of EndsUnlessInterrupted that is no liveness: main process and pool
\* never wait for each other.
NeverStuck ==
  \/ mpc \in {"submit", "feed", "done"}
  \/ mpc = "get" /\ queue # <<>>
  \/ mpc = "join" /\ \A q \in Qubes : task[q] = "collected"
  \/ \E q \in Qubes : task[q] \in BusyStates \cup {"returned"}
  \/ tasks # <<>> /\ Cardinality(Busy) < MaxConcurrency
================================================================================
