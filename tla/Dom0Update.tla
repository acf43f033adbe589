------------------------------- MODULE Dom0Update -------------------------------
(***************************************************************************)
(* Updating dom0: qubes-dom0-update, which lets the UpdateVM download      *)
(* packages and installs them, qubes-receive-updates, which takes what the *)
(* UpdateVM sends, and the cron job that looks for updates.  They share a  *)
(* lock file, the directory /var/lib/qubes/updates and the feature         *)
(* "updates-available".  An interruption or a restart of dom0 can come     *)
(* between any two steps; the files stay.                                  *)
(***************************************************************************)
EXTENDS Integers, FiniteSets

CONSTANTS
  Packages,
  Users,       \* runs of qubes-dom0-update
  Cron,        \* the run with --check-only that cron starts
  NoOne,
  MaxExtra,    \* bound: transfers the UpdateVM starts on its own
  MaxRestarts  \* bound: restarts of dom0

ASSUME Dom0UpdateAssumption ==
  /\ Cron \notin Users /\ NoOne \notin Users \cup {Cron}
  /\ MaxExtra \in Nat /\ MaxRestarts \in Nat

VARIABLES
  pc,         \* pc[p]: the step of run p that comes next
  opts,       \* opts[p]: what p was started with
  code,       \* code[p]: its RETCODE, then its exit code
  asked,      \* history: asked[p]: what p's download is to bring
  spoiled,    \* history: spoiled[p]: something failed of which p is not told
  snap,       \* snap[p]: the repository as p's dnf loaded it
  lock,       \* who has locked qubes-dom0-update.lock
  rpm,        \* the files in updates/rpm
  repo,       \* updates/repodata/repomd.xml exists
  listed,     \* the files it lists
  errors,     \* updates/errors exists
  feature,    \* dom0's feature updates-available
  available,  \* what the repositories offer
  installed,  \* the files installed in dom0
  rpc,        \* the step of qubes-receive-updates that comes next
  todo,       \* the files it has received and not looked at
  cur,        \* the files it has copied to updates/rpm and not verified
  sender,     \* history: the run the last transfer was made for
  failed,     \* history: the last transfer ended with an error it wrote down
  extra,
  restarts

runVars == <<pc, opts, code, asked, spoiled, snap, lock>>
recVars == <<rpc, todo, cur, sender, failed>>
dirVars == <<rpm, repo, listed, errors>>
vars == <<runVars, dirVars, feature, available, installed, recVars, extra, restarts>>

Runs == Users \cup {Cron}

\* A package as it was sent: with a good signature or not.
File == [package : Packages, good : BOOLEAN]
Names(files) == {f.package : f \in files}

\* How the download runs: qvm-run alone, qvm-run piped into sed (progress, old
\* agent in the UpdateVM), or qubes-vm-update (progress).
Options == [path : {"plain", "piped", "agent"}, clean : BOOLEAN, packages : BOOLEAN]
NoOptions == [path |-> "plain", clean |-> FALSE, packages |-> FALSE]

\* From the lock to the start of a transfer, and on to the loading of what it
\* brought.
Before == {"provision", "config", "init", "agent", "finish", "script"}
Awaiting == {"sending", "check", "wait", "errors", "repo", "load"}
Steps == {"idle", "prepare"} \cup Before \cup Awaiting \cup {"upgrade", "after", "exited"}
Codes == {0, 1, 100, 130}

Wanted == available \ Names(installed)

Init ==
  /\ pc = [p \in Runs |-> "idle"]
  /\ opts = [p \in Runs |-> NoOptions]
  /\ code = [p \in Runs |-> 0]
  /\ asked = [p \in Runs |-> {}] /\ spoiled = [p \in Runs |-> FALSE]
  /\ snap = [p \in Runs |-> {}]
  /\ lock = NoOne
  /\ rpm = {} /\ repo = FALSE /\ listed = {} /\ errors = FALSE
  /\ feature = FALSE
  /\ available = {} /\ installed = {}
  /\ rpc = "idle" /\ todo = {} /\ cur = {}
  /\ sender = NoOne /\ failed = FALSE
  /\ extra = 0 /\ restarts = 0

--------------------------------------------------------------------------------
GoTo(p, step) == pc' = [pc EXCEPT ![p] = step]

\* The end of a run, which closes the lock file.
Exit(p, c) ==
  /\ GoTo(p, "exited")
  /\ code' = [code EXCEPT ![p] = c]
  /\ lock' = IF lock = p THEN NoOne ELSE lock
  /\ snap' = [snap EXCEPT ![p] = {}]

Proceed(p, step) == GoTo(p, step) /\ UNCHANGED <<code, lock, snap>>

\* `... || exit 1`
OrExit(p, step) == Proceed(p, step) \/ Exit(p, 1)

\* The same after a command whose exit code becomes RETCODE.
Keep(p, c, step) == /\ GoTo(p, step)
                    /\ code' = [code EXCEPT ![p] = c]
                    /\ UNCHANGED <<lock, snap>>

Spoil(p) == spoiled' = [spoiled EXCEPT ![p] = TRUE]

Running(p) == pc[p] \notin {"idle", "exited"}

(***************************************************************************)
(* qubes-dom0-update.                                                      *)
(***************************************************************************)
\* Slip: a lock that is taken is no reason to stop.
Lock_Forced(p) ==
  /\ pc[p] = "idle"
  /\ \E o \in Options :
       /\ p = Cron => o = NoOptions
       /\ opts' = [opts EXCEPT ![p] = o]
  /\ asked' = [asked EXCEPT ![p] = {}] /\ spoiled' = [spoiled EXCEPT ![p] = FALSE]
  /\ lock' = IF lock = NoOne THEN p ELSE lock
  /\ GoTo(p, "prepare")
  /\ UNCHANGED <<code, snap, dirVars, feature, available, installed, recVars, extra, restarts>>

\* flock -n: the second of two runs gives up.
Lock(p) ==
  /\ pc[p] = "idle"
  /\ \E o \in Options :
       /\ p = Cron => o = NoOptions
       /\ opts' = [opts EXCEPT ![p] = o]
  /\ asked' = [asked EXCEPT ![p] = {}] /\ spoiled' = [spoiled EXCEPT ![p] = FALSE]
  /\ IF lock = NoOne
     THEN lock' = p /\ GoTo(p, "prepare") /\ UNCHANGED <<code, snap>>
     ELSE Exit(p, 1)
  /\ UNCHANGED <<dirVars, feature, available, installed, recVars, extra, restarts>>

\* --clean and the removal of old errors.  --check-only starts no UpdateVM.
Prepare(p) ==
  /\ pc[p] = "prepare"
  /\ \/ /\ IF opts[p].clean
           THEN rpm' = {} /\ repo' = FALSE /\ listed' = {}
           ELSE UNCHANGED <<rpm, repo, listed>>
        /\ errors' = FALSE
        /\ sender' = IF sender = p THEN NoOne ELSE sender
        /\ Proceed(p, "provision")
     \/ p = Cron /\ Exit(p, 1) /\ UNCHANGED <<dirVars, sender>>
  /\ UNCHANGED <<opts, asked, spoiled, feature, available, installed, rpc, todo, cur, failed,
                 extra, restarts>>

outside == <<dirVars, feature, available, installed, recVars, extra, restarts>>

\* /boot is mounted, and directories are made in the UpdateVM, which starts it.
Provision(p) ==
  /\ pc[p] = "provision"
  /\ OrExit(p, "config")
  /\ UNCHANGED <<opts, asked, spoiled, outside>>

\* dom0's repositories and keys go to the UpdateVM.
SendConfig(p) ==
  /\ pc[p] = "config"
  /\ OrExit(p, IF opts[p].path = "agent" THEN "init" ELSE "script")
  /\ UNCHANGED <<opts, asked, spoiled, outside>>

InitAgent(p) ==
  /\ pc[p] = "init"
  /\ OrExit(p, "agent")
  /\ UNCHANGED <<opts, asked, spoiled, outside>>

\* qubes-vm-update --download-only --signal-no-updates: 100 is its answer when
\* there is nothing to do.
AgentDownload(p) ==
  /\ pc[p] = "agent"
  /\ asked' = [asked EXCEPT ![p] = Wanted]
  /\ \/ OrExit(p, "finish")
     \/ Wanted = {} /\ Exit(p, 100)
  /\ UNCHANGED <<opts, spoiled, outside>>

\* The script that is to send the packages does not get to that.
FinishEnds(p) ==
  /\ pc[p] = "finish"
  /\ Exit(p, 1) \/ (asked[p] = {} /\ Proceed(p, "check"))
  /\ UNCHANGED <<opts, asked, spoiled, outside>>

\* qubes-download-dom0-updates.sh ends with c without having sent anything.
\* --check-only makes its exit code the answer; piped into sed it is lost.
ScriptEnds(p) ==
  /\ pc[p] = "script"
  /\ asked' = [asked EXCEPT ![p] = IF p = Cron THEN {} ELSE Wanted]
  /\ \E c \in {1} \cup (IF Wanted = {} THEN {0} ELSE IF p = Cron THEN {100} ELSE {}) :
       IF opts[p].path = "piped"
       THEN /\ Keep(p, 0, "check")
            /\ IF c = 0 THEN UNCHANGED spoiled ELSE Spoil(p)
       ELSE Keep(p, c, "check") /\ UNCHANGED spoiled
  /\ UNCHANGED <<opts, outside>>

\* A transfer of `names` starts; a package of `bad` does not pass rpmkeys.
Transfer(p, names, bad) ==
  /\ rpc = "idle"
  /\ rpc' = "clear"
  /\ todo' = [package : names \ bad, good : {TRUE}] \cup [package : names \cap bad, good : {FALSE}]
  /\ cur' = {}
  /\ sender' = p /\ failed' = FALSE

\* Either script sends what was found.
Send(p) ==
  /\ pc[p] \in {"finish", "script"} /\ p # Cron
  /\ LET names == IF pc[p] = "finish" THEN asked[p] ELSE Wanted IN
       /\ names # {}
       /\ \E bad \in SUBSET names : Transfer(p, names, bad)
       /\ asked' = [asked EXCEPT ![p] = names]
  /\ Proceed(p, "sending")
  /\ UNCHANGED <<opts, spoiled, dirVars, feature, available, installed, extra, restarts>>

\* The script in the UpdateVM ends after dom0 has unpacked everything, and may
\* tell how the transfer ended if it has.
Sent(p) ==
  /\ pc[p] = "sending"
  /\ sender = p => rpc \notin {"clear", "tidy", "unpack"}
  /\ \E c \in {0} \cup (IF rpc = "idle" THEN {1} ELSE {}) :
       CASE opts[p].path = "agent" /\ c # 0 -> Exit(p, 1)
         [] opts[p].path = "piped"          -> Proceed(p, "check")
         [] OTHER                           -> Keep(p, c, "check")
  /\ UNCHANGED <<opts, asked, spoiled, outside>>

\* Slip: RETCODE matters to --check-only alone.
Check_CronOnly(p) ==
  /\ pc[p] = "check"
  /\ IF p = Cron THEN Exit(p, code[p]) ELSE Proceed(p, "wait")
  /\ UNCHANGED <<opts, asked, spoiled, outside>>

\* --check-only, or a RETCODE that is not 0, is the end.
Check(p) ==
  /\ pc[p] = "check"
  /\ IF p = Cron \/ code[p] # 0 THEN Exit(p, code[p]) ELSE Proceed(p, "wait")
  /\ UNCHANGED <<opts, asked, spoiled, outside>>

\* Slip: the receiver is done as soon as it answered the UpdateVM.
Wait_Not(p) ==
  /\ pc[p] = "wait"
  /\ GoTo(p, "errors")
  /\ UNCHANGED <<opts, code, asked, spoiled, snap, lock, outside>>

\* Slip: waits for what the receiver leaves, not for its end.
Wait_ForResult(p) ==
  /\ pc[p] = "wait"
  /\ repo \/ errors
  /\ GoTo(p, "errors")
  /\ UNCHANGED <<opts, code, asked, spoiled, snap, lock, outside>>

\* while pidof -x qubes-receive-updates
Wait(p) ==
  /\ pc[p] = "wait"
  /\ rpc = "idle"
  /\ GoTo(p, "errors")
  /\ UNCHANGED <<opts, code, asked, spoiled, snap, lock, outside>>

CheckErrors(p) ==
  /\ pc[p] = "errors"
  /\ IF errors THEN Exit(p, 1)
     ELSE Proceed(p, "repo")
  /\ UNCHANGED <<opts, asked, spoiled, outside>>

\* Without a repository there are "No updates available" ("Nothing downloaded"
\* when packages were asked for).
CheckRepo(p) ==
  /\ pc[p] = "repo"
  /\ IF repo
     THEN GoTo(p, "load") /\ UNCHANGED <<code, snap, lock, feature>>
     ELSE /\ Exit(p, code[p])
          /\ feature' = (feature /\ opts[p].packages)
  /\ UNCHANGED <<opts, asked, spoiled, dirVars, available, installed, recVars, extra, restarts>>

\* dnf reads the metadata that is there now,
LoadRepo(p) ==
  /\ pc[p] = "load"
  /\ snap' = [snap EXCEPT ![p] = listed]
  /\ GoTo(p, "upgrade")
  /\ UNCHANGED <<opts, code, asked, spoiled, lock, dirVars, feature, available, installed, recVars, extra, restarts>>

\* and installs the files it lists, if they are still there.  An error of
\* `dnf check-update` leaves RETCODE as it was, 0.
Upgrade(p) ==
  /\ pc[p] = "upgrade"
  /\ \E c \in {0, 1} :
       /\ c = 0 => snap[p] \subseteq rpm \cup installed
       /\ installed' = IF c = 0 THEN installed \cup snap[p] ELSE installed
       /\ \/ /\ IF opts[p].packages THEN Exit(p, c) ELSE Keep(p, c, "after")
             /\ UNCHANGED spoiled
          \/ /\ c = 1 /\ opts[p].path = "plain" /\ ~opts[p].packages
             /\ Proceed(p, "after") /\ Spoil(p)
  /\ UNCHANGED <<opts, asked, dirVars, feature, available, recVars, extra, restarts>>

\* dnf -q check-update finds nothing more to install, or does not succeed.
After(p) ==
  /\ pc[p] = "after"
  /\ feature' \in {feature} \cup (IF repo /\ listed \subseteq installed THEN {FALSE} ELSE {})
  /\ Exit(p, code[p])
  /\ UNCHANGED <<opts, asked, spoiled, dirVars, available, installed, recVars, extra, restarts>>

\* The run is over; cron's sets the feature, without a lock.
Again(p) ==
  /\ pc[p] = "exited"
  /\ GoTo(p, "idle")
  /\ code' = [code EXCEPT ![p] = 0]
  /\ opts' = [opts EXCEPT ![p] = NoOptions]
  /\ asked' = [asked EXCEPT ![p] = {}] /\ spoiled' = [spoiled EXCEPT ![p] = FALSE]
  /\ feature' = (feature \/ (p = Cron /\ code[p] = 100))
  /\ UNCHANGED <<snap, lock, dirVars, available, installed, recVars, extra, restarts>>

\* A signal, at any step.  A command that outlives the shell has inherited the
\* lock file: its end counts as the end of the run.
Interrupt(p) ==
  /\ Running(p)
  /\ Exit(p, 130)
  /\ UNCHANGED <<opts, asked, spoiled, outside>>

--------------------------------------------------------------------------------
(***************************************************************************)
(* qubes-receive-updates.  The UpdateVM can start a transfer whenever it   *)
(* likes to; the model has one at a time.                                  *)
(***************************************************************************)
receiving == <<runVars, feature, available, installed, sender, extra, restarts>>

\* Whose transfer it was will not have what was sent.
Lost ==
  IF sender \in Runs /\ pc[sender] \in Awaiting THEN Spoil(sender) ELSE UNCHANGED spoiled

ExtraTransfer ==
  /\ extra < MaxExtra
  /\ \E names \in SUBSET available, bad \in SUBSET available : Transfer(NoOne, names, bad)
  /\ extra' = extra + 1
  /\ Lost
  /\ UNCHANGED <<pc, opts, code, asked, snap, lock, dirVars, feature, available, installed, restarts>>

\* Slip: the files of the last transfer stay.
CleanRpm_Kept ==
  /\ rpc = "clear"
  /\ rpc' = "tidy"
  /\ UNCHANGED <<receiving, rpm, repo, listed, errors, todo, cur, failed>>

CleanRpm ==
  /\ rpc = "clear"
  /\ rpm' = {} /\ rpc' = "tidy"
  /\ UNCHANGED <<receiving, repo, listed, errors, todo, cur, failed>>

CleanRepo ==
  /\ rpc = "tidy"
  /\ repo' = FALSE /\ listed' = {} /\ errors' = FALSE
  /\ rpc' = "unpack"
  /\ UNCHANGED <<receiving, rpm, todo, cur, failed>>

\* dom0updates_fatal: the reason is written down, the packages go.
Fatal ==
  /\ errors' = TRUE /\ rpm' = {}
  /\ rpc' = "idle" /\ todo' = {} /\ cur' = {}
  /\ failed' = TRUE
  /\ UNCHANGED <<receiving, repo, listed>>

UnpackFails == rpc = "unpack" /\ Fatal

Unpack ==
  /\ rpc = "unpack"
  /\ rpc' = "verify"
  /\ UNCHANGED <<receiving, dirVars, todo, cur, failed>>

\* rpmcanon copies a file to updates/rpm, where rpmkeys then checks it.
Place(f) ==
  /\ rpc = "verify" /\ cur = {} /\ f \in todo
  /\ rpm' = rpm \cup {f}
  /\ todo' = todo \ {f} /\ cur' = {f}
  /\ UNCHANGED <<receiving, repo, listed, errors, rpc, failed>>

Verify ==
  /\ rpc = "verify" /\ cur # {}
  /\ IF \A f \in cur : f.good
     THEN cur' = {} /\ UNCHANGED <<receiving, dirVars, rpc, todo, failed>>
     ELSE Fatal

\* createrepo_c
Index ==
  /\ rpc = "verify" /\ cur = {} /\ todo = {}
  /\ repo' = TRUE /\ listed' = rpm
  /\ rpc' = "idle"
  /\ UNCHANGED <<receiving, rpm, errors, todo, cur, failed>>

\* The receiver is killed, or createrepo_c fails: nothing is written down.
ReceiverDies ==
  /\ rpc # "idle"
  /\ rpc' = "idle" /\ todo' = {} /\ cur' = {}
  /\ Lost
  /\ UNCHANGED <<pc, opts, code, asked, snap, lock, feature, available, installed, sender, extra,
                 restarts, dirVars, failed>>

--------------------------------------------------------------------------------
Publish ==
  /\ \E p \in Packages \ available : available' = available \cup {p}
  /\ UNCHANGED <<runVars, dirVars, feature, installed, recVars, extra, restarts>>

\* dom0 goes down and comes up again.
Restart ==
  /\ restarts < MaxRestarts
  /\ restarts' = restarts + 1
  /\ pc' = [p \in Runs |-> "idle"]
  /\ opts' = [p \in Runs |-> NoOptions]
  /\ code' = [p \in Runs |-> 0]
  /\ asked' = [p \in Runs |-> {}] /\ spoiled' = [p \in Runs |-> FALSE]
  /\ snap' = [p \in Runs |-> {}]
  /\ lock' = NoOne
  /\ rpc' = "idle" /\ todo' = {} /\ cur' = {} /\ sender' = NoOne
  /\ UNCHANGED <<dirVars, feature, available, installed, failed, extra>>

Step(p) == \/ Prepare(p) \/ Provision(p) \/ SendConfig(p) \/ InitAgent(p) \/ AgentDownload(p)
           \/ FinishEnds(p) \/ ScriptEnds(p) \/ Send(p) \/ Sent(p) \/ Check(p)
           \/ Wait(p) \/ CheckErrors(p) \/ CheckRepo(p) \/ LoadRepo(p) \/ Upgrade(p) \/ After(p)

Receive == CleanRpm \/ CleanRepo \/ Unpack \/ (\E f \in File : Place(f)) \/ Verify \/ Index

Next == \/ \E p \in Runs : Lock(p) \/ Step(p) \/ Again(p) \/ Interrupt(p)
        \/ ExtraTransfer \/ Receive \/ UnpackFails \/ ReceiverDies
        \/ Publish \/ Restart

\* Runs that have started and the receiver are scheduled; nobody has to start.
Fairness == (\A p \in Runs : WF_vars(Step(p))) /\ WF_vars(Receive)

Spec == Init /\ [][Next]_vars /\ Fairness

--------------------------------------------------------------------------------
TypeOK ==
  /\ pc \in [Runs -> Steps]
  /\ opts \in [Runs -> Options] /\ code \in [Runs -> Codes]
  /\ asked \in [Runs -> SUBSET Packages] /\ spoiled \in [Runs -> BOOLEAN]
  /\ snap \in [Runs -> SUBSET File]
  /\ lock \in Runs \cup {NoOne}
  /\ rpm \subseteq File /\ listed \subseteq File /\ installed \subseteq File
  /\ repo \in BOOLEAN /\ errors \in BOOLEAN /\ feature \in BOOLEAN
  /\ available \subseteq Packages
  /\ rpc \in {"idle", "clear", "tidy", "unpack", "verify"}
  /\ todo \subseteq File /\ cur \subseteq File
  /\ sender \in Runs \cup {NoOne} /\ failed \in BOOLEAN
  /\ extra \in 0..MaxExtra /\ restarts \in 0..MaxRestarts

\* No file is installed that was not verified, although files lie in the shared
\* directory before they are, a transfer can come at any time and dom0 can stop
\* between any two steps (dnf's own check is left out).
InstalledVerified == \A f \in installed : f.good

\* Two runs are never past the lock together: nobody removes the errors, or
\* clears the directory, another run is about to look at.
OneRun == \A p, q \in Runs : Running(p) /\ Running(q) => p = q

\* A run whose packages did not pass installs nothing, whatever the UpdateVM's
\* command answered (unless the UpdateVM sent something else since).
FailureNoticed ==
  \A p \in Runs : pc[p] \in {"repo", "load", "upgrade", "after"} => ~(sender = p /\ failed)

\* A run that ends with 0 has installed all that its download was to bring: each
\* step that fails, here or in the UpdateVM, shows in the exit code, however old
\* files in the directory, errors, the wait and other transfers fall together.
\* What the run is not told of is excepted, and it is only this: a failure behind
\* sed, a dnf check-update that fails, a receiver that dies without a word and a
\* transfer that replaces the run's own before the run has loaded it.
SuccessInstalled ==
  \A p \in Runs :
    pc[p] = "exited" /\ code[p] = 0 /\ ~spoiled[p] => asked[p] \subseteq Names(installed)

\* Parts of the inductive invariant.
LockInv == \A p \in Runs : Running(p) <=> lock = p

VerifyInv ==
  /\ \A f \in listed : f.good
  /\ \A p \in Runs : \A f \in snap[p] : f.good
  /\ rpc = "verify" => \A f \in rpm \ cur : f.good
  /\ rpc # "verify" => cur = {}
  /\ rpc \in {"tidy", "unpack"} => rpm = {}

FailInv ==
  /\ rpc # "idle" => ~failed
  /\ sender # Cron
  /\ \A p \in Runs : sender = p =>
       /\ pc[p] \notin Before
       /\ failed /\ pc[p] \in {"sending", "check", "wait", "errors"} => errors
       /\ pc[p] \in {"errors", "repo", "load", "upgrade", "after"} => rpc = "idle"

\* Where what a run waits for is, until the run has installed it.
Delivered(p) ==
  /\ sender = p
  /\ rpc \in {"clear", "tidy", "unpack"} => asked[p] \subseteq Names(todo)
  /\ rpc = "verify" => asked[p] \subseteq Names(todo \cup rpm)
  /\ rpc = "idle" /\ ~failed => repo /\ asked[p] \subseteq Names(listed)

SuccessOf(p) ==
  ~spoiled[p] =>
    /\ pc[p] \in Awaiting /\ (pc[p] = "check" => code[p] = 0) => asked[p] = {} \/ Delivered(p)
    /\ pc[p] = "upgrade" => asked[p] \subseteq Names(snap[p])
    /\ pc[p] = "after" /\ code[p] = 0 => asked[p] \subseteq Names(installed)

SuccessInv == \A p \in Runs : SuccessOf(p)

\* This invariant is inductive (Dom0Update_proofs) and implies the others: a file
\* is unverified only while the receiver looks at it, and the errors of a
\* transfer stay until the run it was made for has seen them, as do its files.
Dom0Inv == /\ TypeOK /\ LockInv /\ VerifyInv /\ FailInv /\ SuccessInv
           /\ InstalledVerified /\ FailureNoticed /\ SuccessInstalled

\* Only the runs the lock was free for go on, and they give it back: no wait for
\* the receiver, and no error, leaves dom0 without updates.
LockReleased == \A p \in Runs : lock = p ~> lock # p
================================================================================
