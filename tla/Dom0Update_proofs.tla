--------------------------- MODULE Dom0Update_proofs ---------------------------
(***************************************************************************)
(* Proofs about Dom0Update.                                                *)
(***************************************************************************)
EXTENDS Dom0Update, TLAPS

--------------------------------------------------------------------------------
LEMMA StepsAndCodes ==
  /\ "idle" \in Steps /\ "prepare" \in Steps /\ Before \subseteq Steps /\ Awaiting \subseteq Steps
  /\ "provision" \in Steps /\ "sending" \in Steps
  /\ "wait" \in Steps /\ "errors" \in Steps /\ "repo" \in Steps /\ "load" \in Steps
  /\ "upgrade" \in Steps /\ "after" \in Steps /\ "exited" \in Steps
  /\ 0 \in Codes /\ 1 \in Codes /\ 100 \in Codes /\ 130 \in Codes
  /\ NoOptions \in Options
  /\ Cron \in Runs
BY DEF Steps, Before, Awaiting, Codes, NoOptions, Options, Runs

LEMMA GoToType ==
  ASSUME pc \in [Runs -> Steps], NEW p \in Runs, NEW step \in Steps, GoTo(p, step)
  PROVE  pc' \in [Runs -> Steps]
BY DEF GoTo

LEMMA ExitType ==
  ASSUME TypeOK, NEW p \in Runs, NEW c \in Codes, Exit(p, c)
  PROVE  /\ pc' \in [Runs -> Steps] /\ code' \in [Runs -> Codes]
         /\ lock' \in Runs \cup {NoOne} /\ snap' \in [Runs -> SUBSET File]
BY StepsAndCodes DEF Exit, GoTo, TypeOK

LEMMA ProceedType ==
  ASSUME TypeOK, NEW p \in Runs, NEW step \in Steps, Proceed(p, step)
  PROVE  /\ pc' \in [Runs -> Steps] /\ code' \in [Runs -> Codes]
         /\ lock' \in Runs \cup {NoOne} /\ snap' \in [Runs -> SUBSET File]
BY StepsAndCodes DEF Proceed, GoTo, TypeOK

LEMMA TransferType ==
  ASSUME NEW p \in Runs \cup {NoOne}, NEW names \in SUBSET Packages, NEW bad, Transfer(p, names, bad)
  PROVE  /\ rpc' = "clear" /\ todo' \subseteq File /\ cur' \subseteq File
         /\ sender' \in Runs \cup {NoOne} /\ failed' \in BOOLEAN
BY DEF Transfer, File

--------------------------------------------------------------------------------
(***************************************************************************)
(* The steps up to the wait, Send aside, decide where the run goes on and  *)
(* change nothing outside it.                                              *)
(***************************************************************************)
Drive(p) == \/ Provision(p) \/ SendConfig(p) \/ InitAgent(p) \/ AgentDownload(p)
            \/ FinishEnds(p) \/ ScriptEnds(p) \/ Sent(p) \/ Check(p)

DriveTo == (Before \ {"provision"}) \cup {"check", "wait", "exited"}

\* Run p goes on to s with RETCODE c.
Moved(p, s, c) ==
  /\ pc' = [pc EXCEPT ![p] = s]
  /\ code' = [code EXCEPT ![p] = c]
  /\ lock' = IF s = "exited" /\ lock = p THEN NoOne ELSE lock
  /\ snap' = IF s = "exited" THEN [snap EXCEPT ![p] = {}] ELSE snap

\* Where it goes from which step, and with which code.
MovedWell(p, s, c) ==
  /\ Moved(p, s, c)
  /\ pc[p] \notin Before => s \in {"check", "wait", "exited"} /\ UNCHANGED <<asked, spoiled>>
  /\ s = "wait" => pc[p] = "check" /\ code[p] = 0
  /\ s = "exited" /\ c = 0 => pc[p] = "check" /\ code[p] = 0 /\ p = Cron
  /\ s = "check" => \/ pc[p] = "sending"
                    \/ pc[p] \in Before /\ (c # 0 \/ spoiled'[p] \/ asked'[p] = {})

Driven(p) ==
  /\ pc[p] \in Before \cup {"sending", "check"}
  /\ \E s \in DriveTo, c \in Codes : MovedWell(p, s, c)
  /\ asked' \in [Runs -> SUBSET Packages] /\ spoiled' \in [Runs -> BOOLEAN]
  /\ \A q \in Runs \ {p} : asked'[q] = asked[q] /\ spoiled'[q] = spoiled[q]
  /\ UNCHANGED <<opts, outside>>

LEMMA ExitMoves ==
  ASSUME NEW p \in Runs, NEW c, Exit(p, c)
  PROVE  Moved(p, "exited", c)
BY DEF Exit, GoTo, Moved

LEMMA ProceedMoves ==
  ASSUME TypeOK, NEW p \in Runs, NEW s, s # "exited", Proceed(p, s)
  PROVE  Moved(p, s, code[p])
<1>1. code = [code EXCEPT ![p] = code[p]]
  BY DEF TypeOK
<1> QED BY <1>1 DEF Proceed, GoTo, Moved

LEMMA KeepMoves ==
  ASSUME NEW p \in Runs, NEW s, s # "exited", NEW c, Keep(p, c, s)
  PROVE  Moved(p, s, c)
BY DEF Keep, GoTo, Moved

LEMMA OrExitMoves ==
  ASSUME TypeOK, NEW p \in Runs, NEW s, s # "exited", OrExit(p, s)
  PROVE  Moved(p, s, code[p]) \/ Moved(p, "exited", 1)
BY ExitMoves, ProceedMoves DEF OrExit

\* A step of Before that goes on within Before, or gives up.
LEMMA BeforeDrives ==
  ASSUME TypeOK, NEW p \in Runs, pc[p] \in Before, NEW s \in Before \ {"provision"},
         OrExit(p, s), UNCHANGED <<opts, spoiled, outside>>,
         asked' \in [Runs -> SUBSET Packages], \A q \in Runs \ {p} : asked'[q] = asked[q]
  PROVE  Driven(p)
<1>1. code[p] \in Codes /\ 1 \in Codes /\ s # "exited" /\ s # "wait" /\ s # "check"
  BY StepsAndCodes DEF TypeOK, Before
<1>2. s \in DriveTo /\ "exited" \in DriveTo
  BY DEF DriveTo
<1>3. MovedWell(p, s, code[p]) \/ MovedWell(p, "exited", 1)
  BY OrExitMoves, <1>1 DEF MovedWell
<1>4. \E t \in DriveTo, c \in Codes : MovedWell(p, t, c)
  BY <1>1, <1>2, <1>3
<1>5. spoiled' \in [Runs -> BOOLEAN] /\ \A q \in Runs \ {p} : spoiled'[q] = spoiled[q]
  BY DEF TypeOK
<1> QED BY <1>4, <1>5 DEF Driven

LEMMA DriveMoves ==
  ASSUME TypeOK, NEW p \in Runs, Drive(p)
  PROVE  Driven(p)
<1>0. /\ code[p] \in Codes /\ 0 \in Codes /\ 1 \in Codes /\ 100 \in Codes
      /\ "check" \in DriveTo /\ "wait" \in DriveTo /\ "exited" \in DriveTo
  BY StepsAndCodes DEF TypeOK, DriveTo
<1>1. asked \in [Runs -> SUBSET Packages] /\ spoiled \in [Runs -> BOOLEAN] /\ Wanted \subseteq Packages
  BY DEF TypeOK, Wanted
<1>2. CASE Provision(p)
  <2>1. pc[p] \in Before /\ OrExit(p, "config") /\ UNCHANGED <<opts, asked, spoiled, outside>>
    BY <1>2 DEF Provision, Before
  <2>2. "config" \in Before \ {"provision"}
    BY DEF Before
  <2> QED BY BeforeDrives, <1>1, <2>1, <2>2
<1>3. CASE SendConfig(p)
  <2> DEFINE s == IF opts[p].path = "agent" THEN "init" ELSE "script"
  <2>1. pc[p] \in Before /\ OrExit(p, s) /\ UNCHANGED <<opts, asked, spoiled, outside>>
    BY <1>3 DEF SendConfig, Before
  <2>2. s \in Before \ {"provision"}
    BY DEF Before
  <2> HIDE DEF s
  <2> QED BY BeforeDrives, <1>1, <2>1, <2>2
<1>4. CASE InitAgent(p)
  <2>1. pc[p] \in Before /\ OrExit(p, "agent") /\ UNCHANGED <<opts, asked, spoiled, outside>>
    BY <1>4 DEF InitAgent, Before
  <2>2. "agent" \in Before \ {"provision"}
    BY DEF Before
  <2> QED BY BeforeDrives, <1>1, <2>1, <2>2
<1>5. CASE AgentDownload(p)
  <2>1. pc[p] = "agent" /\ pc[p] \in Before /\ UNCHANGED <<opts, spoiled, outside>>
    BY <1>5 DEF AgentDownload, Before
  <2>2. asked' \in [Runs -> SUBSET Packages] /\ \A q \in Runs \ {p} : asked'[q] = asked[q]
    BY <1>1, <1>5 DEF AgentDownload
  <2>3. CASE OrExit(p, "finish")
    <3>1. "finish" \in Before \ {"provision"}
      BY DEF Before
    <3> QED BY BeforeDrives, <2>1, <2>2, <2>3, <3>1
  <2>4. CASE Exit(p, 100)
    <3>1. MovedWell(p, "exited", 100)
      BY ExitMoves, <2>1, <2>4 DEF MovedWell
    <3>2. spoiled' \in [Runs -> BOOLEAN] /\ \A q \in Runs \ {p} : spoiled'[q] = spoiled[q]
      BY <1>1, <2>1
    <3> QED BY <1>0, <2>1, <2>2, <3>1, <3>2 DEF Driven
  <2> QED BY <1>5, <2>3, <2>4 DEF AgentDownload
<1>6. CASE FinishEnds(p)
  <2>1. pc[p] \in Before /\ UNCHANGED <<opts, asked, spoiled, outside>>
    BY <1>6 DEF FinishEnds, Before
  <2>2. CASE Exit(p, 1)
    <3>1. MovedWell(p, "exited", 1)
      BY ExitMoves, <2>1, <2>2 DEF MovedWell
    <3> QED BY <1>0, <1>1, <2>1, <3>1 DEF Driven
  <2>3. CASE asked[p] = {} /\ Proceed(p, "check")
    <3>1. MovedWell(p, "check", code[p])
      BY ProceedMoves, <2>1, <2>3 DEF MovedWell
    <3> QED BY <1>0, <1>1, <2>1, <3>1 DEF Driven
  <2> QED BY <1>6, <2>2, <2>3 DEF FinishEnds
<1>7. CASE ScriptEnds(p)
  <2>1. pc[p] \in Before /\ UNCHANGED <<opts, outside>>
    BY <1>7 DEF ScriptEnds, Before
  <2>2. PICK c \in {1} \cup (IF Wanted = {} THEN {0} ELSE IF p = Cron THEN {100} ELSE {}) :
          IF opts[p].path = "piped"
          THEN /\ Keep(p, 0, "check")
               /\ IF c = 0 THEN UNCHANGED spoiled ELSE Spoil(p)
          ELSE Keep(p, c, "check") /\ UNCHANGED spoiled
    BY <1>7 DEF ScriptEnds
  <2>3. c \in Codes /\ (c = 0 => Wanted = {})
    BY <1>0, <2>2
  <2>4. /\ asked' \in [Runs -> SUBSET Packages] /\ \A q \in Runs \ {p} : asked'[q] = asked[q]
        /\ Wanted = {} => asked'[p] = {}
    BY <1>1, <1>7 DEF ScriptEnds
  <2>5. CASE c # 0 /\ opts[p].path = "piped"
    <3>1. /\ spoiled' \in [Runs -> BOOLEAN] /\ spoiled'[p]
          /\ \A q \in Runs \ {p} : spoiled'[q] = spoiled[q]
      <4>1. Spoil(p)
        BY <2>2, <2>5
      <4> QED BY <1>1, <4>1 DEF Spoil
    <3>2. MovedWell(p, "check", 0)
      BY KeepMoves, <2>1, <2>2, <2>5, <3>1 DEF MovedWell
    <3> QED BY <1>0, <2>1, <2>4, <3>1, <3>2 DEF Driven
  <2>6. CASE ~(c # 0 /\ opts[p].path = "piped")
    <3>1. UNCHANGED spoiled /\ Keep(p, c, "check")
      BY <2>2, <2>6
    <3>2. MovedWell(p, "check", c)
      BY KeepMoves, <2>1, <2>3, <2>4, <3>1 DEF MovedWell
    <3> QED BY <1>0, <1>1, <2>1, <2>3, <2>4, <3>1, <3>2 DEF Driven
  <2> QED BY <2>5, <2>6
<1>8. CASE Sent(p)
  <2>1. pc[p] = "sending" /\ UNCHANGED <<opts, asked, spoiled, outside>>
    BY <1>8 DEF Sent
  <2>2. \/ Exit(p, 1) \/ Proceed(p, "check") \/ Keep(p, 0, "check") \/ Keep(p, 1, "check")
    BY <1>8 DEF Sent
  <2>3. \/ MovedWell(p, "exited", 1) \/ MovedWell(p, "check", code[p])
        \/ MovedWell(p, "check", 0) \/ MovedWell(p, "check", 1)
    BY ExitMoves, ProceedMoves, KeepMoves, <2>1, <2>2 DEF MovedWell
  <2>4. \E s \in DriveTo, c \in Codes : MovedWell(p, s, c)
    BY <1>0, <2>3
  <2> QED BY <1>1, <2>1, <2>4 DEF Driven
<1>9. CASE Check(p)
  <2>1. pc[p] = "check" /\ UNCHANGED <<opts, asked, spoiled, outside>>
    BY <1>9 DEF Check
  <2>2. pc[p] \notin Before
    BY <2>1 DEF Before
  <2>3. CASE p = Cron \/ code[p] # 0
    <3>1. Exit(p, code[p])
      BY <1>9, <2>3 DEF Check
    <3>2. MovedWell(p, "exited", code[p])
      BY ExitMoves, <2>1, <2>2, <2>3, <3>1 DEF MovedWell
    <3> QED BY <1>0, <1>1, <2>1, <3>2 DEF Driven
  <2>4. CASE ~(p = Cron \/ code[p] # 0)
    <3>1. Proceed(p, "wait")
      BY <1>9, <2>4 DEF Check
    <3>2. MovedWell(p, "wait", code[p])
      BY ProceedMoves, <2>1, <2>2, <2>4, <3>1 DEF MovedWell
    <3> QED BY <1>0, <1>1, <2>1, <3>2 DEF Driven
  <2> QED BY <2>3, <2>4
<1> QED BY <1>2, <1>3, <1>4, <1>5, <1>6, <1>7, <1>8, <1>9 DEF Drive

--------------------------------------------------------------------------------
(***************************************************************************)
(* Type correctness.                                                       *)
(***************************************************************************)
LEMMA TypeOK_Init == Init => TypeOK
<1> SUFFICES ASSUME Init PROVE TypeOK
  OBVIOUS
<1>1. /\ pc \in [Runs -> Steps] /\ opts \in [Runs -> Options] /\ code \in [Runs -> Codes]
      /\ asked \in [Runs -> SUBSET Packages] /\ spoiled \in [Runs -> BOOLEAN]
      /\ snap \in [Runs -> SUBSET File]
  BY StepsAndCodes DEF Init
<1>2. extra \in 0..MaxExtra /\ restarts \in 0..MaxRestarts
  BY Dom0UpdateAssumption DEF Init
<1> QED BY <1>1, <1>2 DEF Init, TypeOK

LEMMA TypeOK_Step == TypeOK /\ [Next]_vars => TypeOK'
<1> SUFFICES ASSUME TypeOK, [Next]_vars PROVE TypeOK'
  OBVIOUS
<1> USE Dom0UpdateAssumption, StepsAndCodes
<1>1. ASSUME NEW p \in Runs, Lock(p) PROVE TypeOK'
  BY ZenonT(60), ExitType, GoToType, <1>1 DEF Lock, dirVars, recVars, TypeOK
<1>2. ASSUME NEW p \in Runs, Prepare(p) PROVE TypeOK'
  BY ExitType, ProceedType, <1>2 DEF Prepare, Proceed, dirVars, TypeOK
<1>3. ASSUME NEW p \in Runs, Drive(p) PROVE TypeOK'
  <2>1. Driven(p)
    BY DriveMoves, <1>3
  <2>2. PICK s \in DriveTo, c \in Codes : Moved(p, s, c)
    BY <2>1 DEF Driven, MovedWell
  <2>3. s \in Steps
    BY DEF DriveTo, Steps, Awaiting
  <2>4. /\ pc' \in [Runs -> Steps] /\ code' \in [Runs -> Codes]
        /\ lock' \in Runs \cup {NoOne} /\ snap' \in [Runs -> SUBSET File]
    BY <2>2, <2>3 DEF Moved, TypeOK
  <2> QED BY <2>1, <2>4 DEF Driven, outside, dirVars, recVars, TypeOK
<1>4. ASSUME NEW p \in Runs, Send(p) PROVE TypeOK'
  BY ProceedType, TransferType, <1>4 DEF Send, dirVars, TypeOK, Wanted
<1>5. ASSUME NEW p \in Runs, Wait(p) PROVE TypeOK'
  BY GoToType, <1>5 DEF Wait, outside, dirVars, recVars, TypeOK
<1>6. ASSUME NEW p \in Runs, CheckErrors(p) PROVE TypeOK'
  BY ExitType, ProceedType, <1>6 DEF CheckErrors, outside, dirVars, recVars, TypeOK
<1>7. ASSUME NEW p \in Runs, CheckRepo(p) PROVE TypeOK'
  BY ExitType, GoToType, <1>7 DEF CheckRepo, dirVars, recVars, TypeOK
<1>8. ASSUME NEW p \in Runs, LoadRepo(p) PROVE TypeOK'
  BY GoToType, <1>8 DEF LoadRepo, dirVars, recVars, TypeOK
<1>9. ASSUME NEW p \in Runs, Upgrade(p) PROVE TypeOK'
  <2>1. PICK c \in {0, 1} :
          /\ installed' = IF c = 0 THEN installed \cup snap[p] ELSE installed
          /\ \/ Exit(p, c)
             \/ /\ GoTo(p, "after") /\ UNCHANGED <<lock, snap>>
                /\ code' = [code EXCEPT ![p] = c] \/ UNCHANGED code
          /\ UNCHANGED spoiled \/ Spoil(p)
    BY <1>9 DEF Upgrade, Proceed, Keep
  <2>4. spoiled' \in [Runs -> BOOLEAN]
    BY <2>1 DEF Spoil, TypeOK
  <2>2. c \in Codes /\ installed' \subseteq File
    BY <2>1 DEF TypeOK
  <2>3. /\ pc' \in [Runs -> Steps] /\ code' \in [Runs -> Codes]
        /\ lock' \in Runs \cup {NoOne} /\ snap' \in [Runs -> SUBSET File]
    <3>1. CASE Exit(p, c)
      BY ExitType, <2>2, <3>1
    <3>2. CASE ~Exit(p, c)
      <4>1. pc' \in [Runs -> Steps]
        BY GoToType, <2>1, <3>2 DEF TypeOK
      <4>2. code' \in [Runs -> Codes]
        BY ZenonT(60), <2>1, <2>2, <3>2 DEF TypeOK
      <4> QED BY <2>1, <3>2, <4>1, <4>2 DEF TypeOK
    <3> QED BY <3>1, <3>2
  <2> QED BY <1>9, <2>2, <2>3, <2>4 DEF Upgrade, dirVars, recVars, TypeOK
<1>10. ASSUME NEW p \in Runs, After(p) PROVE TypeOK'
  BY ExitType, <1>10 DEF After, dirVars, recVars, TypeOK
<1>11. ASSUME NEW p \in Runs, Again(p) PROVE TypeOK'
  BY GoToType, <1>11 DEF Again, dirVars, recVars, TypeOK
<1>12. ASSUME NEW p \in Runs, Interrupt(p) PROVE TypeOK'
  BY ExitType, <1>12 DEF Interrupt, outside, dirVars, recVars, TypeOK
<1>13. ASSUME ExtraTransfer PROVE TypeOK'
  <2>1. PICK names \in SUBSET available, bad \in SUBSET available : Transfer(NoOne, names, bad)
    BY <1>13 DEF ExtraTransfer
  <2>2. names \in SUBSET Packages
    BY DEF TypeOK
  <2>3. extra \in 0..MaxExtra
    BY DEF TypeOK
  <2>4. extra' \in 0..MaxExtra
    BY <1>13, <2>3 DEF ExtraTransfer
  <2> QED BY TransferType, <1>13, <2>1, <2>2, <2>4 DEF ExtraTransfer, Lost, Spoil, dirVars, runVars, TypeOK
<1>14. ASSUME CleanRpm PROVE TypeOK'
  BY <1>14 DEF CleanRpm, receiving, runVars, TypeOK
<1>15. ASSUME CleanRepo PROVE TypeOK'
  BY <1>15 DEF CleanRepo, receiving, runVars, TypeOK
<1>16. ASSUME Unpack PROVE TypeOK'
  BY <1>16 DEF Unpack, dirVars, receiving, runVars, TypeOK
<1>17. ASSUME NEW f \in File, Place(f) PROVE TypeOK'
  BY <1>17 DEF Place, receiving, runVars, TypeOK
<1>18. ASSUME Verify PROVE TypeOK'
  BY <1>18 DEF Verify, Fatal, dirVars, receiving, runVars, TypeOK
<1>19. ASSUME Index PROVE TypeOK'
  BY <1>19 DEF Index, receiving, runVars, TypeOK
<1>20. ASSUME UnpackFails PROVE TypeOK'
  BY <1>20 DEF UnpackFails, Fatal, receiving, runVars, TypeOK
<1>21. ASSUME ReceiverDies PROVE TypeOK'
  BY <1>21 DEF ReceiverDies, Lost, Spoil, dirVars, receiving, runVars, TypeOK
<1>22. ASSUME Publish PROVE TypeOK'
  BY <1>22 DEF Publish, dirVars, recVars, runVars, TypeOK
<1>23. ASSUME Restart PROVE TypeOK'
  <2>1. /\ pc' \in [Runs -> Steps] /\ opts' \in [Runs -> Options] /\ code' \in [Runs -> Codes]
        /\ asked' \in [Runs -> SUBSET Packages] /\ spoiled' \in [Runs -> BOOLEAN]
        /\ snap' \in [Runs -> SUBSET File]
    BY <1>23 DEF Restart
  <2>2. restarts \in 0..MaxRestarts
    BY DEF TypeOK
  <2>3. restarts' \in 0..MaxRestarts
    BY <1>23, <2>2 DEF Restart
  <2> QED BY <1>23, <2>1, <2>3 DEF Restart, dirVars, TypeOK
<1>24. CASE UNCHANGED vars
  BY <1>24 DEF vars, runVars, dirVars, recVars, TypeOK
<1> QED BY <1>1, <1>2, <1>3, <1>4, <1>5, <1>6, <1>7, <1>8, <1>9, <1>10,
    <1>11, <1>12, <1>13, <1>14, <1>15, <1>16, <1>17, <1>18, <1>19, <1>20, <1>21,
    <1>22, <1>23, <1>24 DEF Next, Step, Drive, Receive

--------------------------------------------------------------------------------
(***************************************************************************)
(* The parts of the inductive invariant, one action at a time.             *)
(***************************************************************************)
LEMMA ReceiverLeavesRuns ==
  ExtraTransfer \/ Receive \/ UnpackFails \/ ReceiverDies \/ Publish =>
    UNCHANGED <<pc, opts, code, asked, snap, lock>>
BY DEF ExtraTransfer, ReceiverDies, Receive, CleanRpm, CleanRepo, Unpack, Place, Verify, Index,
       UnpackFails, ReceiverDies, Publish, Fatal, receiving, runVars

LEMMA ExitLock ==
  ASSUME TypeOK, LockInv, NEW p \in Runs, NEW c, Exit(p, c), Running(p)
  PROVE  LockInv'
BY Dom0UpdateAssumption DEF Exit, GoTo, TypeOK, LockInv, Running, Runs

LEMMA GoLock ==
  ASSUME TypeOK, LockInv, NEW p \in Runs, NEW step \in Steps \ {"idle", "exited"},
         GoTo(p, step), lock' = lock, Running(p)
  PROVE  LockInv'
BY DEF GoTo, TypeOK, LockInv, Running

LEMMA LockInv_Step == TypeOK /\ LockInv /\ [Next]_vars => LockInv'
<1> SUFFICES ASSUME TypeOK, LockInv, [Next]_vars PROVE LockInv'
  OBVIOUS
<1> USE Dom0UpdateAssumption, StepsAndCodes DEF TypeOK
<1>1. ASSUME NEW p \in Runs, Lock(p) PROVE LockInv'
  BY ZenonT(60), <1>1 DEF Lock, Exit, GoTo, dirVars, recVars, LockInv, Running, Runs
<1>2. ASSUME NEW p \in Runs, Prepare(p) PROVE LockInv'
  BY <1>2 DEF Prepare, Proceed, Exit, GoTo, dirVars, LockInv, Running, Runs
<1>3. ASSUME NEW p \in Runs, Drive(p) PROVE LockInv'
  <2>1. Driven(p)
    BY DriveMoves, <1>3
  <2>2. Running(p)
    BY <2>1 DEF Driven, Before, Running
  <2>3. PICK s \in DriveTo, c \in Codes : Moved(p, s, c)
    BY <2>1 DEF Driven, MovedWell
  <2>4. s # "idle"
    BY DEF DriveTo, Before
  <2> QED BY <2>2, <2>3, <2>4 DEF Moved, LockInv, Running, Runs
<1>4. ASSUME NEW p \in Runs, Send(p) PROVE LockInv'
  BY <1>4 DEF Send, Proceed, Transfer, GoTo, dirVars, LockInv, Running, Runs
<1>5. ASSUME NEW p \in Runs, Wait(p) PROVE LockInv'
  BY <1>5 DEF Wait, outside, GoTo, dirVars, recVars, LockInv, Running, Runs
<1>6. ASSUME NEW p \in Runs, CheckErrors(p) PROVE LockInv'
  BY ZenonT(60), <1>6 DEF CheckErrors, outside, Proceed, Exit, GoTo, dirVars, recVars, LockInv, Running, Runs
<1>7. ASSUME NEW p \in Runs, CheckRepo(p) PROVE LockInv'
  BY ZenonT(60), <1>7 DEF CheckRepo, Exit, GoTo, dirVars, recVars, LockInv, Running, Runs
<1>8. ASSUME NEW p \in Runs, LoadRepo(p) PROVE LockInv'
  BY <1>8 DEF LoadRepo, GoTo, dirVars, recVars, LockInv, Running, Runs
<1>9. ASSUME NEW p \in Runs, Upgrade(p) PROVE LockInv'
  BY ExitLock, GoLock, <1>9 DEF Upgrade, Proceed, Keep, Running
<1>10. ASSUME NEW p \in Runs, After(p) PROVE LockInv'
  BY <1>10 DEF After, Exit, GoTo, dirVars, recVars, LockInv, Running, Runs
<1>11. ASSUME NEW p \in Runs, Again(p) PROVE LockInv'
  BY <1>11 DEF Again, GoTo, dirVars, recVars, LockInv, Running, Runs
<1>12. ASSUME NEW p \in Runs, Interrupt(p) PROVE LockInv'
  BY <1>12 DEF Interrupt, outside, Exit, GoTo, dirVars, recVars, LockInv, Running, Runs
<1>13. CASE UNCHANGED <<pc, lock>>
  BY <1>13 DEF LockInv, Running
<1>14. ASSUME Restart PROVE LockInv'
  BY <1>14 DEF Restart, dirVars, LockInv, Running, Runs
<1>15. ASSUME vars' = vars PROVE LockInv'
  BY <1>13, <1>15 DEF vars, runVars
<1> QED BY ReceiverLeavesRuns, <1>1, <1>2, <1>3, <1>4, <1>5, <1>6, <1>7,
    <1>8, <1>9, <1>10, <1>11, <1>12, <1>13, <1>14, <1>15 DEF Next, Step, Drive

LEMMA VerifyInv_Step == TypeOK /\ VerifyInv /\ [Next]_vars => VerifyInv'
<1> SUFFICES ASSUME TypeOK, VerifyInv, [Next]_vars PROVE VerifyInv'
  OBVIOUS
<1> USE Dom0UpdateAssumption, StepsAndCodes DEF TypeOK
<1>1. ASSUME NEW p \in Runs, Lock(p) PROVE VerifyInv'
  BY <1>1 DEF Lock, Exit, GoTo, dirVars, recVars, VerifyInv
<1>2. ASSUME NEW p \in Runs, Prepare(p) PROVE VerifyInv'
  BY <1>2 DEF Prepare, Proceed, Exit, GoTo, dirVars, VerifyInv
<1>3. ASSUME NEW p \in Runs, Drive(p) PROVE VerifyInv'
  <2>1. UNCHANGED <<dirVars, recVars>> /\ (snap' = snap \/ snap' = [snap EXCEPT ![p] = {}])
    BY DriveMoves, <1>3 DEF Driven, MovedWell, Moved, outside
  <2> QED BY <2>1 DEF dirVars, recVars, VerifyInv
<1>4. ASSUME NEW p \in Runs, Send(p) PROVE VerifyInv'
  BY <1>4 DEF Send, Proceed, Transfer, GoTo, dirVars, VerifyInv
<1>5. ASSUME NEW p \in Runs, Wait(p) PROVE VerifyInv'
  BY <1>5 DEF Wait, outside, GoTo, dirVars, recVars, VerifyInv
<1>6. ASSUME NEW p \in Runs, CheckErrors(p) PROVE VerifyInv'
  BY <1>6 DEF CheckErrors, outside, Proceed, Exit, GoTo, dirVars, recVars, VerifyInv
<1>7. ASSUME NEW p \in Runs, CheckRepo(p) PROVE VerifyInv'
  BY <1>7 DEF CheckRepo, Exit, GoTo, dirVars, recVars, VerifyInv
<1>8. ASSUME NEW p \in Runs, LoadRepo(p) PROVE VerifyInv'
  BY <1>8 DEF LoadRepo, GoTo, dirVars, recVars, VerifyInv
<1>9. ASSUME NEW p \in Runs, Upgrade(p) PROVE VerifyInv'
  BY <1>9 DEF Upgrade, Proceed, Keep, Exit, GoTo, dirVars, recVars, VerifyInv
<1>10. ASSUME NEW p \in Runs, After(p) PROVE VerifyInv'
  BY <1>10 DEF After, Exit, GoTo, dirVars, recVars, VerifyInv
<1>11. ASSUME NEW p \in Runs, Again(p) PROVE VerifyInv'
  BY <1>11 DEF Again, GoTo, dirVars, recVars, VerifyInv
<1>12. ASSUME NEW p \in Runs, Interrupt(p) PROVE VerifyInv'
  BY <1>12 DEF Interrupt, outside, Exit, GoTo, dirVars, recVars, VerifyInv
<1>13. ASSUME ExtraTransfer PROVE VerifyInv'
  BY <1>13 DEF ExtraTransfer, Lost, Spoil, Transfer, dirVars, runVars, VerifyInv
<1>14. ASSUME CleanRpm PROVE VerifyInv'
  BY <1>14 DEF CleanRpm, receiving, runVars, VerifyInv
<1>15. ASSUME CleanRepo PROVE VerifyInv'
  BY <1>15 DEF CleanRepo, receiving, runVars, VerifyInv
<1>16. ASSUME Unpack PROVE VerifyInv'
  BY <1>16 DEF Unpack, dirVars, receiving, runVars, VerifyInv
<1>17. ASSUME NEW f \in File, Place(f) PROVE VerifyInv'
  BY <1>17 DEF Place, receiving, runVars, VerifyInv
<1>18. ASSUME Verify PROVE VerifyInv'
  BY <1>18 DEF Verify, Fatal, dirVars, receiving, runVars, VerifyInv
<1>19. ASSUME Index PROVE VerifyInv'
  BY <1>19 DEF Index, receiving, runVars, VerifyInv
<1>20. ASSUME UnpackFails PROVE VerifyInv'
  BY <1>20 DEF UnpackFails, Fatal, receiving, runVars, VerifyInv
<1>21. ASSUME ReceiverDies PROVE VerifyInv'
  BY <1>21 DEF ReceiverDies, Lost, Spoil, dirVars, receiving, runVars, VerifyInv
<1>22. ASSUME Publish PROVE VerifyInv'
  BY <1>22 DEF Publish, dirVars, recVars, runVars, VerifyInv
<1>23. ASSUME Restart PROVE VerifyInv'
  BY <1>23 DEF Restart, dirVars, VerifyInv
<1>24. CASE UNCHANGED vars
  BY <1>24 DEF vars, runVars, dirVars, recVars, VerifyInv
<1> QED BY <1>1, <1>2, <1>3, <1>4, <1>5, <1>6, <1>7, <1>8, <1>9, <1>10,
    <1>11, <1>12, <1>13, <1>14, <1>15, <1>16, <1>17, <1>18, <1>19, <1>20, <1>21,
    <1>22, <1>23, <1>24 DEF Next, Step, Drive, Receive

LEMMA InstalledVerified_Step == TypeOK /\ VerifyInv /\ InstalledVerified /\ [Next]_vars => InstalledVerified'
<1> SUFFICES ASSUME TypeOK, VerifyInv, InstalledVerified, [Next]_vars PROVE InstalledVerified'
  OBVIOUS
<1> USE Dom0UpdateAssumption, StepsAndCodes DEF TypeOK
<1>1. ASSUME NEW p \in Runs, Lock(p) PROVE InstalledVerified'
  BY <1>1 DEF Lock, Exit, GoTo, dirVars, recVars, VerifyInv, InstalledVerified
<1>2. ASSUME NEW p \in Runs, Prepare(p) PROVE InstalledVerified'
  BY <1>2 DEF Prepare, Proceed, Exit, GoTo, dirVars, VerifyInv, InstalledVerified
<1>3. ASSUME NEW p \in Runs, Drive(p) PROVE InstalledVerified'
  BY DriveMoves, <1>3 DEF Driven, outside, InstalledVerified
<1>4. ASSUME NEW p \in Runs, Send(p) PROVE InstalledVerified'
  BY <1>4 DEF Send, Proceed, Transfer, GoTo, dirVars, VerifyInv, InstalledVerified
<1>5. ASSUME NEW p \in Runs, Wait(p) PROVE InstalledVerified'
  BY <1>5 DEF Wait, outside, GoTo, dirVars, recVars, VerifyInv, InstalledVerified
<1>6. ASSUME NEW p \in Runs, CheckErrors(p) PROVE InstalledVerified'
  BY <1>6 DEF CheckErrors, outside, Proceed, Exit, GoTo, dirVars, recVars, VerifyInv, InstalledVerified
<1>7. ASSUME NEW p \in Runs, CheckRepo(p) PROVE InstalledVerified'
  BY <1>7 DEF CheckRepo, Exit, GoTo, dirVars, recVars, VerifyInv, InstalledVerified
<1>8. ASSUME NEW p \in Runs, LoadRepo(p) PROVE InstalledVerified'
  BY <1>8 DEF LoadRepo, GoTo, dirVars, recVars, VerifyInv, InstalledVerified
<1>9. ASSUME NEW p \in Runs, Upgrade(p) PROVE InstalledVerified'
  BY <1>9 DEF Upgrade, Proceed, Keep, Exit, GoTo, dirVars, recVars, VerifyInv, InstalledVerified
<1>10. ASSUME NEW p \in Runs, After(p) PROVE InstalledVerified'
  BY <1>10 DEF After, Exit, GoTo, dirVars, recVars, VerifyInv, InstalledVerified
<1>11. ASSUME NEW p \in Runs, Again(p) PROVE InstalledVerified'
  BY <1>11 DEF Again, GoTo, dirVars, recVars, VerifyInv, InstalledVerified
<1>12. ASSUME NEW p \in Runs, Interrupt(p) PROVE InstalledVerified'
  BY <1>12 DEF Interrupt, outside, Exit, GoTo, dirVars, recVars, VerifyInv, InstalledVerified
<1>13. ASSUME ExtraTransfer PROVE InstalledVerified'
  BY <1>13 DEF ExtraTransfer, Lost, Spoil, Transfer, dirVars, runVars, VerifyInv, InstalledVerified
<1>14. ASSUME CleanRpm PROVE InstalledVerified'
  BY <1>14 DEF CleanRpm, receiving, runVars, VerifyInv, InstalledVerified
<1>15. ASSUME CleanRepo PROVE InstalledVerified'
  BY <1>15 DEF CleanRepo, receiving, runVars, VerifyInv, InstalledVerified
<1>16. ASSUME Unpack PROVE InstalledVerified'
  BY <1>16 DEF Unpack, dirVars, receiving, runVars, VerifyInv, InstalledVerified
<1>17. ASSUME NEW f \in File, Place(f) PROVE InstalledVerified'
  BY <1>17 DEF Place, receiving, runVars, VerifyInv, InstalledVerified
<1>18. ASSUME Verify PROVE InstalledVerified'
  BY <1>18 DEF Verify, Fatal, dirVars, receiving, runVars, VerifyInv, InstalledVerified
<1>19. ASSUME Index PROVE InstalledVerified'
  BY <1>19 DEF Index, receiving, runVars, VerifyInv, InstalledVerified
<1>20. ASSUME UnpackFails PROVE InstalledVerified'
  BY <1>20 DEF UnpackFails, Fatal, receiving, runVars, VerifyInv, InstalledVerified
<1>21. ASSUME ReceiverDies PROVE InstalledVerified'
  BY <1>21 DEF ReceiverDies, Lost, Spoil, dirVars, receiving, runVars, VerifyInv, InstalledVerified
<1>22. ASSUME Publish PROVE InstalledVerified'
  BY <1>22 DEF Publish, dirVars, recVars, runVars, VerifyInv, InstalledVerified
<1>23. ASSUME Restart PROVE InstalledVerified'
  BY <1>23 DEF Restart, dirVars, VerifyInv, InstalledVerified
<1>24. CASE UNCHANGED vars
  BY <1>24 DEF vars, runVars, dirVars, recVars, VerifyInv, InstalledVerified
<1> QED BY <1>1, <1>2, <1>3, <1>4, <1>5, <1>6, <1>7, <1>8, <1>9, <1>10,
    <1>11, <1>12, <1>13, <1>14, <1>15, <1>16, <1>17, <1>18, <1>19, <1>20, <1>21,
    <1>22, <1>23, <1>24 DEF Next, Step, Drive, Receive

LEMMA FailInv_Step == TypeOK /\ LockInv /\ FailInv /\ [Next]_vars => FailInv'
<1> SUFFICES ASSUME TypeOK, LockInv, FailInv, [Next]_vars PROVE FailInv'
  OBVIOUS
<1> USE Dom0UpdateAssumption, StepsAndCodes DEF TypeOK, Before
<1>1. ASSUME NEW p \in Runs, Lock(p) PROVE FailInv'
  BY SMTT(60), <1>1 DEF Lock, Exit, GoTo, dirVars, recVars, FailInv, LockInv, Running
<1>2. ASSUME NEW p \in Runs, Prepare(p) PROVE FailInv'
  <2>1. CASE Exit(p, 1) /\ UNCHANGED <<dirVars, sender>>
    BY <1>2, <2>1 DEF Prepare, Proceed, Exit, GoTo, dirVars, FailInv
  <2>2. CASE /\ errors' = FALSE /\ Proceed(p, "provision")
             /\ sender' = IF sender = p THEN NoOne ELSE sender
    <3>1. lock = p /\ \A q \in Runs \ {p} : pc[q] \in {"idle", "exited"}
      BY <1>2 DEF Prepare, Proceed, LockInv, Running
    <3> QED BY <1>2, <2>2, <3>1 DEF Prepare, Proceed, GoTo, FailInv, Runs
  <2> QED BY <1>2, <2>1, <2>2 DEF Prepare
<1>3. ASSUME NEW p \in Runs, Drive(p) PROVE FailInv'
  <2>1. UNCHANGED <<dirVars, recVars>> /\ pc[p] \in Before \cup {"sending", "check"}
    BY DriveMoves, <1>3 DEF Driven, outside
  <2>2. PICK s \in DriveTo : /\ pc' = [pc EXCEPT ![p] = s]
                             /\ pc[p] \notin Before => s \in {"check", "wait", "exited"}
    BY DriveMoves, <1>3 DEF Driven, MovedWell, Moved
  <2>3. \A q \in Runs \ {p} : pc'[q] = pc[q]
    BY <2>2
  <2>4. pc[p] \notin Before => pc'[p] \in {"check", "wait", "exited"}
    BY <2>2
  <2>5. /\ rpc' # "idle" => ~failed'
        /\ sender' # Cron
    BY <2>1 DEF recVars, FailInv
  <2>6. ASSUME NEW q \in Runs, sender' = q
        PROVE  /\ pc'[q] \notin Before
               /\ failed' /\ pc'[q] \in {"sending", "check", "wait", "errors"} => errors'
               /\ pc'[q] \in {"errors", "repo", "load", "upgrade", "after"} => rpc' = "idle"
    <3>1. CASE q = p
      <4>1. pc[p] \in {"sending", "check"} /\ (failed => errors)
        BY <2>1, <2>6, <3>1 DEF recVars, FailInv
      <4>2. pc'[p] \in {"check", "wait", "exited"}
        BY <2>4, <4>1 DEF Before
      <4> QED BY <2>1, <3>1, <4>1, <4>2 DEF dirVars, recVars, Before
    <3>2. CASE q # p
      BY <2>1, <2>3, <2>6, <3>2 DEF dirVars, recVars, FailInv
    <3> QED BY <3>1, <3>2
  <2> QED BY <2>5, <2>6 DEF FailInv
<1>4. ASSUME NEW p \in Runs, Send(p) PROVE FailInv'
  BY <1>4 DEF Send, Proceed, Transfer, GoTo, dirVars, FailInv, LockInv, Running
<1>5. ASSUME NEW p \in Runs, Wait(p) PROVE FailInv'
  BY <1>5 DEF Wait, outside, GoTo, dirVars, recVars, FailInv, LockInv, Running
<1>6. ASSUME NEW p \in Runs, CheckErrors(p) PROVE FailInv'
  BY <1>6 DEF CheckErrors, outside, Proceed, Exit, GoTo, dirVars, recVars, FailInv, LockInv, Running
<1>7. ASSUME NEW p \in Runs, CheckRepo(p) PROVE FailInv'
  BY ZenonT(60), <1>7 DEF CheckRepo, Exit, GoTo, dirVars, recVars, FailInv, LockInv, Running
<1>8. ASSUME NEW p \in Runs, LoadRepo(p) PROVE FailInv'
  BY <1>8 DEF LoadRepo, GoTo, dirVars, recVars, FailInv, LockInv, Running
<1>9. ASSUME NEW p \in Runs, Upgrade(p) PROVE FailInv'
  <2>1. pc[p] = "upgrade" /\ UNCHANGED <<recVars, errors>>
    BY <1>9 DEF Upgrade, Proceed, Keep, dirVars
  <2>2. pc' = [pc EXCEPT ![p] = "exited"] \/ pc' = [pc EXCEPT ![p] = "after"]
    BY <1>9 DEF Upgrade, Proceed, Keep, Exit, GoTo
  <2> QED BY <2>1, <2>2 DEF recVars, FailInv
<1>10. ASSUME NEW p \in Runs, After(p) PROVE FailInv'
  BY <1>10 DEF After, Exit, GoTo, dirVars, recVars, FailInv, LockInv, Running
<1>11. ASSUME NEW p \in Runs, Again(p) PROVE FailInv'
  BY <1>11 DEF Again, GoTo, dirVars, recVars, FailInv, LockInv, Running
<1>12. ASSUME NEW p \in Runs, Interrupt(p) PROVE FailInv'
  BY <1>12 DEF Interrupt, outside, Exit, GoTo, dirVars, recVars, FailInv, LockInv, Running
<1>13. ASSUME ExtraTransfer PROVE FailInv'
  BY <1>13 DEF ExtraTransfer, Lost, Spoil, Transfer, dirVars, runVars, FailInv, Runs
<1>14. ASSUME CleanRpm PROVE FailInv'
  BY <1>14 DEF CleanRpm, receiving, runVars, FailInv, LockInv, Running
<1>15. ASSUME CleanRepo PROVE FailInv'
  BY <1>15 DEF CleanRepo, receiving, runVars, FailInv, LockInv, Running
<1>16. ASSUME Unpack PROVE FailInv'
  BY <1>16 DEF Unpack, dirVars, receiving, runVars, FailInv, LockInv, Running
<1>17. ASSUME NEW f \in File, Place(f) PROVE FailInv'
  BY <1>17 DEF Place, receiving, runVars, FailInv, LockInv, Running
<1>18. ASSUME Verify PROVE FailInv'
  BY <1>18 DEF Verify, Fatal, dirVars, receiving, runVars, FailInv, LockInv, Running
<1>19. ASSUME Index PROVE FailInv'
  BY <1>19 DEF Index, receiving, runVars, FailInv, LockInv, Running
<1>20. ASSUME UnpackFails PROVE FailInv'
  BY <1>20 DEF UnpackFails, Fatal, receiving, runVars, FailInv, LockInv, Running
<1>21. ASSUME ReceiverDies PROVE FailInv'
  BY <1>21 DEF ReceiverDies, Lost, Spoil, dirVars, receiving, runVars, FailInv, LockInv, Running
<1>22. ASSUME Publish PROVE FailInv'
  BY <1>22 DEF Publish, dirVars, recVars, runVars, FailInv, LockInv, Running
<1>23. ASSUME Restart PROVE FailInv'
  BY <1>23 DEF Restart, dirVars, FailInv, LockInv, Running
<1>24. CASE UNCHANGED vars
  BY <1>24 DEF vars, runVars, dirVars, recVars, FailInv, LockInv, Running
<1> QED BY <1>1, <1>2, <1>3, <1>4, <1>5, <1>6, <1>7, <1>8, <1>9, <1>10,
    <1>11, <1>12, <1>13, <1>14, <1>15, <1>16, <1>17, <1>18, <1>19, <1>20, <1>21,
    <1>22, <1>23, <1>24 DEF Next, Step, Drive, Receive

LEMMA FailureNoticed_Step == TypeOK /\ LockInv /\ FailInv /\ FailureNoticed /\ [Next]_vars => FailureNoticed'
<1> SUFFICES ASSUME TypeOK, LockInv, FailInv, FailureNoticed, [Next]_vars PROVE FailureNoticed'
  OBVIOUS
<1> USE Dom0UpdateAssumption, StepsAndCodes DEF TypeOK
<1>1. ASSUME NEW p \in Runs, Lock(p) PROVE FailureNoticed'
  BY ZenonT(60), <1>1 DEF Lock, Exit, GoTo, dirVars, recVars, FailInv, FailureNoticed,
      LockInv, Running
<1>2. ASSUME NEW p \in Runs, Prepare(p) PROVE FailureNoticed'
  BY <1>2 DEF Prepare, Proceed, Exit, GoTo, dirVars, FailInv, FailureNoticed, LockInv, Running
<1>3. ASSUME NEW p \in Runs, Drive(p) PROVE FailureNoticed'
  <2>1. UNCHANGED recVars /\ pc[p] \in Before \cup {"sending", "check"}
    BY DriveMoves, <1>3 DEF Driven, outside
  <2>2. PICK s \in DriveTo : pc' = [pc EXCEPT ![p] = s]
    BY DriveMoves, <1>3 DEF Driven, MovedWell, Moved
  <2>3. s \notin {"repo", "load", "upgrade", "after"}
    BY DEF DriveTo, Before
  <2> QED BY <2>1, <2>2, <2>3 DEF recVars, FailureNoticed
<1>4. ASSUME NEW p \in Runs, Send(p) PROVE FailureNoticed'
  BY <1>4 DEF Send, Proceed, Transfer, GoTo, dirVars, FailInv, FailureNoticed, LockInv, Running
<1>5. ASSUME NEW p \in Runs, Wait(p) PROVE FailureNoticed'
  BY <1>5 DEF Wait, outside, GoTo, dirVars, recVars, FailInv, FailureNoticed, LockInv, Running
<1>6. ASSUME NEW p \in Runs, CheckErrors(p) PROVE FailureNoticed'
  BY <1>6 DEF CheckErrors, outside, Proceed, Exit, GoTo, dirVars, recVars, FailInv, FailureNoticed, LockInv,
      Running
<1>7. ASSUME NEW p \in Runs, CheckRepo(p) PROVE FailureNoticed'
  BY <1>7 DEF CheckRepo, Exit, GoTo, dirVars, recVars, FailInv, FailureNoticed, LockInv,
      Running
<1>8. ASSUME NEW p \in Runs, LoadRepo(p) PROVE FailureNoticed'
  BY <1>8 DEF LoadRepo, GoTo, dirVars, recVars, FailInv, FailureNoticed, LockInv, Running
<1>9. ASSUME NEW p \in Runs, Upgrade(p) PROVE FailureNoticed'
  BY <1>9 DEF Upgrade, Proceed, Keep, Exit, GoTo, dirVars, recVars, FailInv, FailureNoticed, LockInv,
      Running
<1>10. ASSUME NEW p \in Runs, After(p) PROVE FailureNoticed'
  BY <1>10 DEF After, Exit, GoTo, dirVars, recVars, FailInv, FailureNoticed, LockInv,
      Running
<1>11. ASSUME NEW p \in Runs, Again(p) PROVE FailureNoticed'
  BY <1>11 DEF Again, GoTo, dirVars, recVars, FailInv, FailureNoticed, LockInv, Running
<1>12. ASSUME NEW p \in Runs, Interrupt(p) PROVE FailureNoticed'
  BY <1>12 DEF Interrupt, outside, Exit, GoTo, dirVars, recVars, FailInv, FailureNoticed, LockInv,
      Running
<1>13. ASSUME ExtraTransfer PROVE FailureNoticed'
  BY <1>13 DEF ExtraTransfer, Lost, Spoil, Transfer, dirVars, runVars, FailInv, FailureNoticed,
      LockInv, Running
<1>14. ASSUME CleanRpm PROVE FailureNoticed'
  BY <1>14 DEF CleanRpm, receiving, runVars, FailInv, FailureNoticed, LockInv, Running
<1>15. ASSUME CleanRepo PROVE FailureNoticed'
  BY <1>15 DEF CleanRepo, receiving, runVars, FailInv, FailureNoticed, LockInv, Running
<1>16. ASSUME Unpack PROVE FailureNoticed'
  BY <1>16 DEF Unpack, dirVars, receiving, runVars, FailInv, FailureNoticed, LockInv,
      Running
<1>17. ASSUME NEW f \in File, Place(f) PROVE FailureNoticed'
  BY <1>17 DEF Place, receiving, runVars, FailInv, FailureNoticed, LockInv, Running
<1>18. ASSUME Verify PROVE FailureNoticed'
  BY <1>18 DEF Verify, Fatal, dirVars, receiving, runVars, FailInv, FailureNoticed,
      LockInv, Running
<1>19. ASSUME Index PROVE FailureNoticed'
  BY <1>19 DEF Index, receiving, runVars, FailInv, FailureNoticed, LockInv, Running
<1>20. ASSUME UnpackFails PROVE FailureNoticed'
  BY <1>20 DEF UnpackFails, Fatal, receiving, runVars, FailInv, FailureNoticed, LockInv,
      Running
<1>21. ASSUME ReceiverDies PROVE FailureNoticed'
  BY <1>21 DEF ReceiverDies, Lost, Spoil, dirVars, receiving, runVars, FailInv, FailureNoticed,
      LockInv, Running
<1>22. ASSUME Publish PROVE FailureNoticed'
  BY <1>22 DEF Publish, dirVars, recVars, runVars, FailInv, FailureNoticed, LockInv, Running
<1>23. ASSUME Restart PROVE FailureNoticed'
  BY <1>23 DEF Restart, dirVars, FailInv, FailureNoticed, LockInv, Running
<1>24. CASE UNCHANGED vars
  BY <1>24 DEF vars, runVars, dirVars, recVars, FailInv, FailureNoticed, LockInv, Running
<1> QED BY <1>1, <1>2, <1>3, <1>4, <1>5, <1>6, <1>7, <1>8, <1>9, <1>10,
    <1>11, <1>12, <1>13, <1>14, <1>15, <1>16, <1>17, <1>18, <1>19, <1>20, <1>21,
    <1>22, <1>23, <1>24 DEF Next, Step, Drive, Receive

--------------------------------------------------------------------------------
(***************************************************************************)
(* What a run that succeeds has installed.  A run's own steps need only    *)
(* its own part: the others are not past the lock.                         *)
(***************************************************************************)
Ends(q) == pc[q] = "exited" /\ code[q] = 0 /\ ~spoiled[q] => asked[q] \subseteq Names(installed)

Success(q) == SuccessOf(q) /\ Ends(q)

Same(q) == pc'[q] = pc[q] /\ code'[q] = code[q] /\ asked'[q] = asked[q] /\ spoiled'[q] = spoiled[q]

LEMMA NamesGrow ==
  ASSUME NEW S, NEW T, S \subseteq T
  PROVE  Names(S) \subseteq Names(T)
BY DEF Names

LEMMA MoveChanges ==
  ASSUME TypeOK, NEW p \in Runs, NEW s, NEW c, Moved(p, s, c)
  PROVE  /\ pc'[p] = s /\ code'[p] = c
         /\ \A q \in Runs \ {p} : pc'[q] = pc[q] /\ code'[q] = code[q]
BY DEF TypeOK, Moved

LEMMA SameEnds ==
  ASSUME NEW q \in Runs, Ends(q), Same(q), installed \subseteq installed'
  PROVE  Ends(q)'
<1>1. Names(installed) \subseteq Names(installed')
  BY NamesGrow
<1> QED BY <1>1 DEF Ends, Same

LEMMA StoppedSucceeds ==
  ASSUME NEW q \in Runs, pc'[q] \notin Awaiting \cup {"upgrade", "after"}
  PROVE  SuccessOf(q)'
BY DEF SuccessOf

LEMMA OthersSucceed ==
  ASSUME LockInv, NEW p \in Runs, Running(p), \A q \in Runs : Success(q),
         \A q \in Runs \ {p} : Same(q), installed \subseteq installed', Success(p)'
  PROVE  \A q \in Runs : Success(q)'
<1> SUFFICES ASSUME NEW q \in Runs, q # p PROVE Success(q)'
  OBVIOUS
<1>1. pc[q] \in {"idle", "exited"}
  BY DEF LockInv, Running
<1>2. SuccessOf(q)'
  BY <1>1, StoppedSucceeds DEF Same, Awaiting
<1>3. Ends(q)'
  BY SameEnds DEF Success
<1> QED BY <1>2, <1>3 DEF Success

LEMMA ExitSucceeds ==
  ASSUME TypeOK, NEW p \in Runs, NEW c, c # 0, Exit(p, c)
  PROVE  Success(p)'
<1>1. pc'[p] = "exited" /\ code'[p] = c
  BY ExitMoves, MoveChanges
<1> QED BY <1>1, StoppedSucceeds DEF Success, Ends, Awaiting

\* What a run that is about to look at the repository finds there.
LEMMA LoadedSucceeds ==
  ASSUME FailInv, FailureNoticed, NEW p \in Runs, SuccessOf(p), pc[p] \in {"repo", "load"},
         ~spoiled[p]
  PROVE  asked[p] = {} \/ (repo /\ asked[p] \subseteq Names(listed))
<1>1. asked[p] = {} \/ Delivered(p)
  BY DEF SuccessOf, Awaiting
<1>2. CASE Delivered(p)
  <2>1. sender = p
    BY <1>2 DEF Delivered
  <2>2. rpc = "idle" /\ ~failed
    BY <2>1 DEF FailInv, FailureNoticed
  <2> QED BY <1>2, <2>2 DEF Delivered
<1> QED BY <1>1, <1>2

\* A step of the receiver leaves the runs where they are.
LEMMA DeliverySucceeds ==
  ASSUME NEW q \in Runs, Success(q), UNCHANGED <<pc, code, asked, snap, installed>>,
         spoiled[q] => spoiled'[q],
         Delivered(q) /\ pc[q] \in Awaiting /\ ~spoiled'[q] => Delivered(q)'
  PROVE  Success(q)'
<1>1. SuccessOf(q)'
  BY DEF Success, SuccessOf
<1>2. Ends(q)'
  BY DEF Success, Ends
<1> QED BY <1>1, <1>2 DEF Success

LEMMA DriveSucceeds ==
  ASSUME TypeOK, LockInv, FailInv, \A q \in Runs : Success(q), NEW p \in Runs, Drive(p)
  PROVE  \A q \in Runs : Success(q)'
<1>1. /\ Driven(p) /\ pc[p] \in Before \cup {"sending", "check"}
      /\ UNCHANGED <<dirVars, installed, recVars>>
      /\ \A q \in Runs \ {p} : asked'[q] = asked[q] /\ spoiled'[q] = spoiled[q]
  BY DriveMoves DEF Driven, outside
<1>2. PICK s \in DriveTo, c \in Codes : MovedWell(p, s, c)
  BY <1>1 DEF Driven
<1>3. /\ pc'[p] = s /\ code'[p] = c
      /\ \A q \in Runs \ {p} : pc'[q] = pc[q] /\ code'[q] = code[q]
  BY <1>2, MoveChanges DEF MovedWell
<1>4. \A q \in Runs \ {p} : Same(q)
  BY <1>1, <1>3 DEF Same
<1>5. Running(p)
  BY <1>1 DEF Running, Before
<1>6. ASSUME pc[p] \notin Before, ~spoiled'[p], pc[p] = "check" => code[p] = 0
      PROVE  asked'[p] = {} \/ (Delivered(p) /\ Delivered(p)')
  <2>1. UNCHANGED <<asked, spoiled>>
    BY <1>2, <1>6 DEF MovedWell
  <2>2. asked[p] = {} \/ Delivered(p)
    BY <1>1, <1>6, <2>1 DEF Success, SuccessOf, Awaiting
  <2>3. Delivered(p) => Delivered(p)'
    BY <1>1, <2>1 DEF Delivered, dirVars, recVars
  <2> QED BY <2>1, <2>2, <2>3
<1>7. SuccessOf(p)'
  <2>1. CASE s = "check"
    <3>1. ASSUME ~spoiled'[p], c = 0 PROVE asked'[p] = {} \/ Delivered(p)'
      <4>1. CASE pc[p] = "sending"
        BY <1>6, <3>1, <4>1 DEF Before
      <4>2. CASE pc[p] \in Before
        BY <1>2, <2>1, <3>1, <4>2 DEF MovedWell, Before
      <4> QED BY <1>2, <2>1, <4>1, <4>2 DEF MovedWell
    <3> QED BY <1>3, <2>1, <3>1 DEF SuccessOf, Awaiting
  <2>2. CASE s = "wait"
    <3>1. pc[p] = "check" /\ code[p] = 0
      BY <1>2, <2>2 DEF MovedWell
    <3>2. ~spoiled'[p] => asked'[p] = {} \/ Delivered(p)'
      BY <1>6, <3>1 DEF Before
    <3> QED BY <1>3, <2>2, <3>2 DEF SuccessOf, Awaiting
  <2>3. CASE s \notin {"check", "wait"}
    <3>1. pc'[p] \notin Awaiting \cup {"upgrade", "after"}
      BY <1>3, <2>3 DEF DriveTo, Before, Awaiting
    <3> QED BY <3>1, StoppedSucceeds
  <2> QED BY <2>1, <2>2, <2>3
<1>8. Ends(p)'
  <2>1. SUFFICES ASSUME s = "exited", c = 0, ~spoiled'[p] PROVE asked'[p] = {}
    BY <1>3 DEF Ends
  <2>2. pc[p] = "check" /\ code[p] = 0 /\ p = Cron
    BY <1>2, <2>1 DEF MovedWell
  <2>3. ~Delivered(p)
    BY <2>2 DEF Delivered, FailInv
  <2> QED BY <1>6, <2>1, <2>2, <2>3 DEF Before
<1> QED BY <1>1, <1>4, <1>5, <1>7, <1>8, OthersSucceed DEF Success

LEMMA SuccessStep ==
  TypeOK /\ LockInv /\ FailInv /\ FailureNoticed /\ SuccessInv /\ SuccessInstalled /\ [Next]_vars
    => SuccessInv' /\ SuccessInstalled'
<1> SUFFICES ASSUME TypeOK, LockInv, FailInv, FailureNoticed, \A q \in Runs : Success(q), [Next]_vars
             PROVE  \A q \in Runs : Success(q)'
  BY DEF Success, Ends, SuccessInv, SuccessInstalled
<1>1. ASSUME NEW p \in Runs, Lock(p) PROVE \A q \in Runs : Success(q)'
  <2>1. /\ pc'[p] = "prepare" \/ (pc'[p] = "exited" /\ code'[p] = 1)
        /\ \A q \in Runs \ {p} : Same(q) /\ snap'[q] = snap[q]
    BY ZenonT(60), <1>1 DEF Lock, Exit, GoTo, Same, TypeOK
  <2>2. UNCHANGED <<dirVars, installed, recVars>>
    BY <1>1 DEF Lock
  <2>3. Success(p)'
    BY <2>1, StoppedSucceeds DEF Success, Ends, Awaiting
  <2>4. ASSUME NEW q \in Runs \ {p} PROVE Success(q)'
    <3>1. Success(q) /\ Same(q) /\ snap'[q] = snap[q]
      BY <2>1
    <3>2. SuccessOf(q)'
      BY <2>2, <3>1 DEF Success, SuccessOf, Delivered, Same, dirVars, recVars
    <3> QED BY <2>2, <3>1, <3>2, SameEnds DEF Success
  <2> QED BY <2>3, <2>4
<1>2. ASSUME NEW p \in Runs, Prepare(p) PROVE \A q \in Runs : Success(q)'
  <2>1. CASE Exit(p, 1)
    <3>1. \A q \in Runs \ {p} : Same(q)
      BY <1>2, <2>1, ExitMoves, MoveChanges DEF Prepare, Same
    <3> QED BY <1>2, <2>1, <3>1, ExitSucceeds, OthersSucceed DEF Prepare, Running
  <2>2. CASE Proceed(p, "provision")
    <3>1. pc'[p] = "provision" /\ \A q \in Runs \ {p} : Same(q)
      BY <1>2, <2>2, ProceedMoves, MoveChanges DEF Prepare, Same
    <3>2. Success(p)'
      BY <3>1, StoppedSucceeds DEF Success, Ends, Awaiting
    <3> QED BY <1>2, <3>1, <3>2, OthersSucceed DEF Prepare, Running
  <2> QED BY <1>2, <2>1, <2>2 DEF Prepare
<1>3. ASSUME NEW p \in Runs, Drive(p) PROVE \A q \in Runs : Success(q)'
  BY <1>3, DriveSucceeds
<1>4. ASSUME NEW p \in Runs, Send(p) PROVE \A q \in Runs : Success(q)'
  <2> DEFINE names == IF pc[p] = "finish" THEN asked[p] ELSE Wanted
  <2>1. PICK bad \in SUBSET names : Transfer(p, names, bad)
    BY <1>4 DEF Send
  <2>2. asked' = [asked EXCEPT ![p] = names] /\ UNCHANGED <<spoiled, installed>>
    BY <1>4 DEF Send
  <2>3. asked'[p] = names /\ \A q \in Runs \ {p} : asked'[q] = asked[q]
    BY <2>2 DEF TypeOK
  <2>4. pc'[p] = "sending" /\ \A q \in Runs \ {p} : Same(q)
    BY <1>4, <2>2, <2>3, ProceedMoves, MoveChanges DEF Send, Same
  <2> HIDE DEF names
  <2>5. sender' = p /\ rpc' = "clear" /\ names \subseteq Names(todo')
    <3>1. ASSUME NEW n \in names PROVE n \in Names(todo')
      <4>1. CASE n \in bad
        <5>1. [package |-> n, good |-> FALSE] \in todo'
          BY <2>1, <3>1, <4>1 DEF Transfer
        <5> QED BY <5>1 DEF Names
      <4>2. CASE n \notin bad
        <5>1. [package |-> n, good |-> TRUE] \in todo'
          BY <2>1, <3>1, <4>2 DEF Transfer
        <5> QED BY <5>1 DEF Names
      <4> QED BY <4>1, <4>2
    <3> QED BY <2>1, <3>1 DEF Transfer
  <2>6. Delivered(p)'
    BY <2>3, <2>5 DEF Delivered
  <2>7. Success(p)'
    BY <2>4, <2>6 DEF Success, SuccessOf, Ends, Awaiting
  <2>8. Running(p)
    BY <1>4 DEF Send, Running
  <2> QED BY <2>2, <2>4, <2>7, <2>8, OthersSucceed
<1>5. ASSUME NEW p \in Runs, Wait(p) PROVE \A q \in Runs : Success(q)'
  <2>1. pc[p] = "wait" /\ pc'[p] = "errors" /\ \A q \in Runs \ {p} : Same(q)
    BY <1>5 DEF Wait, GoTo, Same, TypeOK
  <2>2. UNCHANGED <<dirVars, installed, recVars, asked, spoiled, code, snap>>
    BY <1>5 DEF Wait, outside
  <2>3. Delivered(p) => Delivered(p)'
    BY <2>2 DEF Delivered, dirVars, recVars
  <2>4. Success(p)'
    BY <2>1, <2>2, <2>3 DEF Success, SuccessOf, Ends, Awaiting
  <2> QED BY <2>1, <2>2, <2>4, OthersSucceed DEF Running
<1>6. ASSUME NEW p \in Runs, CheckErrors(p) PROVE \A q \in Runs : Success(q)'
  <2>1. pc[p] = "errors" /\ UNCHANGED <<dirVars, installed, recVars, asked, spoiled>>
    BY <1>6 DEF CheckErrors, outside
  <2>2. CASE Exit(p, 1)
    <3>1. \A q \in Runs \ {p} : Same(q)
      BY <2>1, <2>2, ExitMoves, MoveChanges DEF Same
    <3> QED BY <2>1, <2>2, <3>1, ExitSucceeds, OthersSucceed DEF Running
  <2>3. CASE Proceed(p, "repo")
    <3>1. pc'[p] = "repo" /\ \A q \in Runs \ {p} : Same(q)
      BY <2>1, <2>3, ProceedMoves, MoveChanges DEF Same
    <3>2. Delivered(p) => Delivered(p)'
      BY <2>1 DEF Delivered, dirVars, recVars
    <3>3. Success(p)'
      BY <2>1, <3>1, <3>2 DEF Success, SuccessOf, Ends, Awaiting
    <3> QED BY <2>1, <3>1, <3>3, OthersSucceed DEF Running
  <2> QED BY <1>6, <2>2, <2>3 DEF CheckErrors
<1>7. ASSUME NEW p \in Runs, CheckRepo(p) PROVE \A q \in Runs : Success(q)'
  <2>1. pc[p] = "repo" /\ UNCHANGED <<dirVars, installed, recVars, asked, spoiled>>
    BY <1>7 DEF CheckRepo
  <2>2. CASE repo
    <3>1. /\ pc'[p] = "load" /\ code'[p] = code[p]
          /\ \A q \in Runs \ {p} : Same(q)
      BY <1>7, <2>1, <2>2 DEF CheckRepo, GoTo, Same, TypeOK
    <3>2. Delivered(p) => Delivered(p)'
      BY <2>1 DEF Delivered, dirVars, recVars
    <3>3. Success(p)'
      BY <2>1, <3>1, <3>2 DEF Success, SuccessOf, Ends, Awaiting
    <3> QED BY <2>1, <3>1, <3>3, OthersSucceed DEF Running
  <2>3. CASE ~repo
    <3>1. Exit(p, code[p])
      BY <1>7, <2>3 DEF CheckRepo
    <3>2. /\ pc'[p] = "exited" /\ \A q \in Runs \ {p} : Same(q)
      BY <2>1, <3>1, ExitMoves, MoveChanges DEF Same
    <3>3. ~spoiled[p] => asked[p] = {}
      BY <2>1, <2>3, LoadedSucceeds DEF Success
    <3>4. Ends(p)'
      BY <2>1, <3>3 DEF Ends
    <3>5. SuccessOf(p)'
      BY <3>2, StoppedSucceeds DEF Awaiting
    <3> QED BY <2>1, <3>2, <3>4, <3>5, OthersSucceed DEF Success, Running
  <2> QED BY <2>2, <2>3
<1>8. ASSUME NEW p \in Runs, LoadRepo(p) PROVE \A q \in Runs : Success(q)'
  <2>1. pc[p] = "load" /\ UNCHANGED <<dirVars, installed, recVars, asked, spoiled, code>>
    BY <1>8 DEF LoadRepo
  <2>2. pc'[p] = "upgrade" /\ snap'[p] = listed /\ \A q \in Runs \ {p} : Same(q)
    BY <1>8, <2>1 DEF LoadRepo, GoTo, Same, TypeOK
  <2>3. ~spoiled[p] => asked[p] \subseteq Names(listed)
    BY <2>1, LoadedSucceeds DEF Success
  <2>4. Success(p)'
    BY <2>1, <2>2, <2>3 DEF Success, SuccessOf, Ends, Awaiting
  <2> QED BY <2>1, <2>2, <2>4, OthersSucceed DEF Running
<1>9. ASSUME NEW p \in Runs, Upgrade(p) PROVE \A q \in Runs : Success(q)'
  <2>1. PICK c \in {0, 1} :
          /\ installed' = IF c = 0 THEN installed \cup snap[p] ELSE installed
          /\ \/ (Exit(p, c) \/ Keep(p, c, "after")) /\ UNCHANGED spoiled
             \/ Proceed(p, "after") /\ Spoil(p)
    BY <1>9 DEF Upgrade
  <2>2. pc[p] = "upgrade" /\ UNCHANGED asked
    BY <1>9 DEF Upgrade
  <2>3. installed \subseteq installed' /\ (c = 0 => Names(snap[p]) \subseteq Names(installed'))
    BY <2>1, NamesGrow
  <2>4. CASE (Exit(p, c) \/ Keep(p, c, "after")) /\ UNCHANGED spoiled
    <3>1. Moved(p, "exited", c) \/ Moved(p, "after", c)
      BY <2>4, ExitMoves, KeepMoves
    <3>2. /\ pc'[p] \in {"exited", "after"} /\ code'[p] = c
          /\ \A q \in Runs \ {p} : Same(q)
      BY <2>2, <2>4, <3>1, MoveChanges DEF Same
    <3>3. c = 0 /\ ~spoiled'[p] => asked'[p] \subseteq Names(installed')
      BY <2>2, <2>3, <2>4 DEF Success, SuccessOf
    <3>4. Success(p)'
      BY <3>2, <3>3 DEF Success, SuccessOf, Ends, Awaiting
    <3> QED BY <2>2, <2>3, <3>2, <3>4, OthersSucceed DEF Running
  <2>5. CASE Proceed(p, "after") /\ Spoil(p)
    <3>1. spoiled'[p] /\ \A q \in Runs \ {p} : spoiled'[q] = spoiled[q]
      BY <2>5 DEF Spoil, TypeOK
    <3>2. \A q \in Runs \ {p} : Same(q)
      BY <2>2, <2>5, <3>1, ProceedMoves, MoveChanges DEF Same
    <3>3. Success(p)'
      BY <3>1 DEF Success, SuccessOf, Ends
    <3> QED BY <2>2, <2>3, <3>2, <3>3, OthersSucceed DEF Running
  <2> QED BY <2>1, <2>4, <2>5
<1>10. ASSUME NEW p \in Runs, After(p) PROVE \A q \in Runs : Success(q)'
  <2>1. pc[p] = "after" /\ Exit(p, code[p]) /\ UNCHANGED <<installed, asked, spoiled>>
    BY <1>10 DEF After
  <2>2. pc'[p] = "exited" /\ \A q \in Runs \ {p} : Same(q)
    BY <2>1, ExitMoves, MoveChanges DEF Same
  <2>3. code'[p] = code[p]
    BY <2>1, ExitMoves, MoveChanges
  <2>4. Ends(p)'
    BY <2>1, <2>3 DEF Success, SuccessOf, Ends
  <2>5. SuccessOf(p)'
    BY <2>2, StoppedSucceeds DEF Awaiting
  <2> QED BY <2>1, <2>2, <2>4, <2>5, OthersSucceed DEF Success, Running
<1>11. ASSUME NEW p \in Runs, Again(p) PROVE \A q \in Runs : Success(q)'
  <2>1. pc'[p] = "idle" /\ \A q \in Runs \ {p} : Same(q)
    BY <1>11 DEF Again, GoTo, Same, TypeOK
  <2>2. UNCHANGED <<dirVars, installed, recVars, snap>>
    BY <1>11 DEF Again
  <2>3. Success(p)'
    BY <2>1, StoppedSucceeds DEF Success, Ends, Awaiting
  <2>4. ASSUME NEW q \in Runs \ {p} PROVE Success(q)'
    <3>1. Success(q) /\ Same(q)
      BY <2>1
    <3>2. SuccessOf(q)'
      BY <2>2, <3>1 DEF Success, SuccessOf, Delivered, Same, dirVars, recVars
    <3> QED BY <2>2, <3>1, <3>2, SameEnds DEF Success
  <2> QED BY <2>3, <2>4
<1>12. ASSUME NEW p \in Runs, Interrupt(p) PROVE \A q \in Runs : Success(q)'
  <2>1. Running(p) /\ Exit(p, 130) /\ UNCHANGED <<asked, spoiled, installed>>
    BY <1>12 DEF Interrupt, outside
  <2>2. \A q \in Runs \ {p} : Same(q)
    BY <2>1, ExitMoves, MoveChanges DEF Same
  <2> QED BY <2>1, <2>2, ExitSucceeds, OthersSucceed
<1>13. ASSUME ExtraTransfer \/ ReceiverDies, NEW q \in Runs PROVE Success(q)'
  <2>1. /\ UNCHANGED <<pc, code, asked, snap, installed>> /\ Lost
    BY <1>13 DEF ExtraTransfer, ReceiverDies
  <2>2. spoiled[q] => spoiled'[q]
    BY <2>1 DEF Lost, Spoil, TypeOK
  <2>3. Delivered(q) /\ pc[q] \in Awaiting => spoiled'[q]
    BY <2>1 DEF Lost, Spoil, Delivered, TypeOK
  <2> QED BY <2>1, <2>2, <2>3, DeliverySucceeds
<1>14. ASSUME Receive \/ UnpackFails \/ Publish, NEW q \in Runs PROVE Success(q)'
  <2>1. /\ UNCHANGED <<pc, code, asked, snap, installed, spoiled, sender>>
    BY <1>14 DEF Receive, CleanRpm, CleanRepo, Unpack, Place, Verify, Index, UnpackFails, Publish,
       Fatal, receiving, runVars, recVars
  <2>2. SUFFICES ASSUME Delivered(q) PROVE Delivered(q)'
    BY <2>1, DeliverySucceeds
  <2>3. CASE CleanRpm
    BY <2>1, <2>2, <2>3 DEF CleanRpm, Delivered
  <2>4. CASE CleanRepo
    BY <2>1, <2>2, <2>4 DEF CleanRepo, Delivered
  <2>5. CASE Unpack
    <3>1. Names(todo) \subseteq Names(todo \cup rpm)
      BY NamesGrow
    <3> QED BY <2>1, <2>2, <2>5, <3>1 DEF Unpack, Delivered, dirVars
  <2>6. ASSUME NEW f \in File, Place(f) PROVE Delivered(q)'
    <3>1. todo' \cup rpm' = todo \cup rpm /\ rpc = "verify" /\ rpc' = "verify"
      BY <2>6 DEF Place
    <3> QED BY <2>1, <2>2, <3>1 DEF Delivered
  <2>7. ASSUME Fatal PROVE Delivered(q)'
    BY <2>1, <2>2, <2>7 DEF Fatal, Delivered
  <2>8. CASE Verify
    <3>1. CASE Fatal
      BY <2>7, <3>1
    <3>2. CASE ~Fatal
      <4>1. UNCHANGED <<dirVars, rpc, todo, failed>>
        BY <2>8, <3>2 DEF Verify
      <4> QED BY <2>1, <2>2, <4>1 DEF Delivered, dirVars
    <3> QED BY <3>1, <3>2
  <2>9. CASE Index
    <3>1. todo \cup rpm = rpm /\ rpc = "verify"
      BY <2>9 DEF Index
    <3>2. repo' /\ listed' = rpm /\ rpc' = "idle"
      BY <2>9 DEF Index
    <3> QED BY <2>1, <2>2, <3>1, <3>2 DEF Delivered
  <2>10. CASE UnpackFails
    BY <2>7, <2>10 DEF UnpackFails
  <2>11. CASE Publish
    BY <2>1, <2>2, <2>11 DEF Publish, Delivered, dirVars, recVars
  <2> QED BY <1>14, <2>3, <2>4, <2>5, <2>6, <2>8, <2>9, <2>10, <2>11 DEF Receive
<1>15. ASSUME Restart, NEW q \in Runs PROVE Success(q)'
  <2>1. pc'[q] = "idle"
    BY <1>15 DEF Restart
  <2> QED BY <2>1, StoppedSucceeds DEF Success, Ends, Awaiting
<1>16. ASSUME vars' = vars, NEW q \in Runs PROVE Success(q)'
  <2>1. UNCHANGED <<pc, code, asked, snap, installed, spoiled, rpm, repo, listed, rpc, todo,
                    sender, failed>>
    BY <1>16 DEF vars, runVars, dirVars, recVars
  <2>2. Delivered(q) => Delivered(q)'
    BY <2>1 DEF Delivered
  <2> QED BY <2>1, <2>2, DeliverySucceeds
<1> QED BY <1>1, <1>2, <1>3, <1>4, <1>5, <1>6, <1>7, <1>8, <1>9, <1>10, <1>11, <1>12,
    <1>13, <1>14, <1>15, <1>16 DEF Next, Step, Drive

--------------------------------------------------------------------------------
LEMMA Dom0Inv_Init == Init => Dom0Inv
<1> SUFFICES ASSUME Init PROVE Dom0Inv
  OBVIOUS
<1>1. TypeOK
  BY TypeOK_Init
<1>2. LockInv
  BY Dom0UpdateAssumption DEF Init, LockInv, Running, Runs
<1>3. VerifyInv /\ InstalledVerified /\ FailureNoticed
  BY DEF Init, VerifyInv, InstalledVerified, FailureNoticed
<1>4. FailInv
  BY Dom0UpdateAssumption DEF Init, FailInv, Before, Runs
<1>5. SuccessInv /\ SuccessInstalled
  BY DEF Init, SuccessInv, SuccessOf, SuccessInstalled, Awaiting
<1> QED BY <1>1, <1>2, <1>3, <1>4, <1>5 DEF Dom0Inv

LEMMA Dom0Inv_Step == Dom0Inv /\ [Next]_vars => Dom0Inv'
<1> SUFFICES ASSUME Dom0Inv, [Next]_vars PROVE Dom0Inv'
  OBVIOUS
<1> USE DEF Dom0Inv
<1>12. TypeOK'
  BY TypeOK_Step
<1>7. LockInv'
  BY LockInv_Step
<1>3. VerifyInv' /\ InstalledVerified'
  BY VerifyInv_Step, InstalledVerified_Step
<1>4. FailInv' /\ FailureNoticed'
  BY FailInv_Step, FailureNoticed_Step
<1>5. SuccessInv' /\ SuccessInstalled'
  BY SuccessStep
<1> QED BY <1>12, <1>7, <1>3, <1>4, <1>5

\* The inductive invariant holds in every reachable state.
THEOREM Dom0InvHolds == Spec => []Dom0Inv
<1>12. Init => Dom0Inv
  BY Dom0Inv_Init
<1>7. Dom0Inv /\ [Next]_vars => Dom0Inv'
  BY Dom0Inv_Step
<1> QED BY <1>12, <1>7, PTL DEF Spec

\* The state of the runs, of the receiver and of the directory is well formed.
THEOREM TypeCorrect == Spec => []TypeOK
<1>12. Dom0Inv => TypeOK
  BY DEF Dom0Inv
<1> QED BY Dom0InvHolds, <1>12, PTL

\* dnf never installs a file that qubes-receive-updates has not verified, for any
\* packages, transfers and restarts.
THEOREM InstalledAreVerified == Spec => []InstalledVerified
<1>12. Dom0Inv => InstalledVerified
  BY DEF Dom0Inv
<1> QED BY Dom0InvHolds, <1>12, PTL

\* The lock file keeps any number of runs of qubes-dom0-update apart.
THEOREM RunsExclude == Spec => []OneRun
<1>12. Dom0Inv => OneRun
  BY DEF Dom0Inv, LockInv, OneRun
<1> QED BY Dom0InvHolds, <1>12, PTL

\* A run whose transfer failed stops before it looks at the packages.
THEOREM FailuresAreNoticed == Spec => []FailureNoticed
<1>12. Dom0Inv => FailureNoticed
  BY DEF Dom0Inv
<1> QED BY Dom0InvHolds, <1>12, PTL

\* A run that exits with 0 has installed what its download was to bring, for any
\* packages, runs, transfers and restarts, unless one of the failures it is not
\* told of has come in between.
THEOREM SuccessesInstalled == Spec => []SuccessInstalled
<1>12. Dom0Inv => SuccessInstalled
  BY DEF Dom0Inv
<1> QED BY Dom0InvHolds, <1>12, PTL
================================================================================
