---------------------------- MODULE Progress_proofs -----------------------------
(***************************************************************************)
(* Theorems about progress reporting: for any packages, sizes, stray lines *)
(* and pipes, and however often downloads start again.                     *)
(***************************************************************************)
EXTENDS Progress, FiniteSetTheorems, TLAPS

--------------------------------------------------------------------------------
\* The counters of the callbacks, the lines on their way and the bars are
\* integers, and what a bar's sum remembers is never negative: so NoValue, a
\* negative number, is told from every value.
CountersInv ==
  /\ toFetch \in Nat /\ fetched \in Int /\ item \in Nat
  /\ got \in [Packages -> Int] /\ real \in [Packages -> Int]

LinesInv == pipe \in [Hop -> Seq(Int)]

BarsInv == bar \in [Hop -> Int] /\ sum \in [Hop -> Nat] /\ BarExact

Inv == CountersInv /\ LinesInv /\ BarsInv

USE DEF NoValue

--------------------------------------------------------------------------------
\* A percentage is an integer for every positive total.
LEMMA ScaledInt ==
  ASSUME NEW num \in Int, NEW den \in Int, den > 0
  PROVE  Scaled(num, den) \in Int
<1> DEFINE low == Start(api, phase)
           width == Stop(api, phase) - low
<1>1. low \in Int /\ width \in Int
  BY DEF Start, Stop, UpdateEnd, FetchEnd
<1> HIDE DEF low, width
<1>2. num * width \in Int
  BY <1>1
<1>3. (num * width) \div den \in Int
  BY <1>2
<1>4. low + (num * width) \div den \in Int
  BY <1>1, <1>3
<1> QED BY <1>4 DEF Scaled, low, width

\* A line more is a pipe of lines.
LEMMA WriteLines ==
  ASSUME LinesInv, NEW line \in Int, Write(line)
  PROVE  LinesInv'
BY DEF LinesInv, Write, Hop

\* notify_callback writes a percentage or nothing.
LEMMA NotifyLines ==
  ASSUME LinesInv, NEW num \in Int, NEW den \in Int, den > 0, Notify(num, den)
  PROVE  LinesInv'
BY ScaledInt, WriteLines DEF Notify, LinesInv

\* The total of a download or an installation is positive once there is one.
LEMMA PackagesNat == Cardinality(Packages) \in Nat
  BY ProgressAssumption, FS_CardinalityType

LEMMA TotalPositive ==
  ASSUME Cardinality(Packages) > 0
  PROVE  Size * Cardinality(Packages) \in Int /\ Size * Cardinality(Packages) > 0
<1>1. \A a, b \in Nat : a > 0 /\ b > 0 => a * b \in Int /\ a * b > 0
  OBVIOUS
<1> QED BY <1>1, ProgressAssumption, PackagesNat

--------------------------------------------------------------------------------
\* The callbacks count and write; they do not touch the bars.
LEMMA AgentLines ==
  ASSUME Inv, Agent, ~Second
  PROVE  CountersInv' /\ LinesInv' /\ UNCHANGED <<bar, sum>>
<1> USE DEF Inv
<1>1. CASE RefreshRepo
  <2>1. fetched' \in Int /\ toFetch' \in Nat /\ toFetch' > 0
    BY <1>1, ProgressAssumption DEF RefreshRepo, CountersInv
  <2>2. LinesInv'
    BY <1>1, <2>1, NotifyLines DEF RefreshRepo
  <2> QED BY <1>1, <2>1, <2>2 DEF RefreshRepo, CountersInv
<1>2. CASE Pulse
  <2>1. PICK part \in 1..Size : Notify(part, Size)
    BY <1>2 DEF Pulse
  <2>2. LinesInv'
    BY <2>1, NotifyLines, ProgressAssumption
  <2> QED BY <1>2, <2>2 DEF Pulse, CountersInv
<1>3. CASE RefreshEnd
  BY <1>3 DEF RefreshEnd, Enter, CountersInv, LinesInv
<1>4. CASE FetchStart
  <2>1. Size * Cardinality(Packages) \in Nat
    BY ProgressAssumption, PackagesNat
  <2> QED BY <1>4, <2>1 DEF FetchStart, CountersInv, LinesInv
<1>5. CASE \E p \in Packages : Fetch(p)
  <2>1. PICK p \in Packages : Fetch(p)
    BY <1>5
  <2>2. real' \in [Packages -> Int] /\ real'[p] \in Int
    BY <2>1, ProgressAssumption DEF Fetch, CountersInv
  <2>3. fetched' \in Int /\ got' \in [Packages -> Int]
    BY <2>1, <2>2 DEF Fetch, DnfProgress, Dnf5Progress, CountersInv
  <2>4. UNCHANGED pipe \/ Notify(fetched', toFetch)
    BY <2>1 DEF Fetch, DnfProgress, Dnf5Progress
  <2>5. toFetch \in Int /\ toFetch > 0
    BY <2>1 DEF Fetch, CountersInv
  <2>6. LinesInv'
    <3>1. CASE UNCHANGED pipe
      BY <3>1 DEF LinesInv
    <3>2. CASE Notify(fetched', toFetch)
      BY <3>2, <2>3, <2>5, NotifyLines
    <3> QED BY <2>4, <3>1, <3>2
  <2> QED BY <2>1, <2>2, <2>3, <2>6 DEF Fetch, CountersInv
<1>6. CASE FetchFinished
  BY <1>6 DEF FetchFinished, Enter, CountersInv, LinesInv
<1>7. CASE Install
  <2>1. item \in Nat /\ Cardinality(Packages) \in Nat /\ Size \in Nat
    BY PackagesNat, ProgressAssumption DEF CountersInv
  <2>2. PICK part \in 0..Size, reported \in BOOLEAN :
          /\ IF reported
             THEN Notify(item * Size + part, Size * Cardinality(Packages))
             ELSE UNCHANGED <<pipe, last>>
          /\ item' = IF part = Size THEN item + 1 ELSE item
    BY <1>7 DEF Install
  <2>3. LinesInv'
    <3>1. CASE reported
      <4>1. item * Size \in Int
        BY <2>1
      <4>2. item * Size + part \in Int
        BY <2>1, <4>1
      <4>3. CASE Cardinality(Packages) > 0
        BY <2>2, <3>1, <4>2, <4>3, TotalPositive, NotifyLines
      <4>4. CASE Cardinality(Packages) <= 0
        BY <1>7, <2>1, <4>4 DEF Install
      <4> QED BY <2>1, <4>3, <4>4
    <3>2. CASE ~reported
      BY <2>2, <3>2 DEF LinesInv
    <3> QED BY <3>1, <3>2
  <2>4. item' \in Nat
    BY <2>1, <2>2
  <2> QED BY <1>7, <2>3, <2>4 DEF Install, CountersInv
<1>8. CASE Finish
  <2>1. UNCHANGED pipe \/ Write(55) \/ Write(100)
    BY <1>8 DEF Finish
  <2>2. LinesInv'
    BY <2>1, WriteLines DEF LinesInv
  <2> QED BY <1>8, <2>2 DEF Finish, CountersInv
<1> QED BY <1>1, <1>2, <1>3, <1>4, <1>5, <1>6, <1>7, <1>8 DEF Agent

\* A collector moves the bar to the number it read, from wherever the sum was:
\* the difference that is added undoes what was there.
LEMMA CollectBars ==
  ASSUME Inv, NEW h \in Hop, Collect(h)
  PROVE  LinesInv' /\ BarsInv'
<1> USE DEF Inv
<1> DEFINE line == Head(pipe[h])
<1>1. /\ pipe[h] \in Seq(Int) /\ line \in Int /\ Tail(pipe[h]) \in Seq(Int)
      /\ \A i \in Hop : pipe[i] \in Seq(Int)
  BY DEF Collect, LinesInv
<1>2. CASE coll[h] = "parsing" /\ line >= 0
  <2> DEFINE old == IF bar[h] = NoValue THEN 0 ELSE bar[h]
             new == old + (line - sum[h])
  <2>1. Show(h, line)
    BY <1>2 DEF Collect
  <2>2. old = sum[h] /\ bar[h] \in Int /\ sum[h] \in Nat
    BY DEF BarsInv, BarExact
  <2>3. new = line
    BY <2>2, <1>1
  <2>4. bar' = [bar EXCEPT ![h] = line] /\ sum' = [sum EXCEPT ![h] = line]
    BY <2>1, <2>3 DEF Show
  <2>5. BarsInv'
    BY <2>4, <1>1, <1>2 DEF BarsInv, BarExact
  <2>6. LinesInv'
    <3>1. <<new>> \in Seq(Int) /\ <<bar[h], new>> \in Seq(Int)
      BY <2>2, <2>3, <1>1
    <3> DEFINE printed == IF bar[h] = NoValue THEN <<new>> ELSE <<bar[h], new>>
    <3>2. printed \in Seq(Int)
      BY <3>1
    <3>3. pipe' = [i \in Hop |->
                     CASE i = h -> Tail(pipe[h])
                       [] i = 2 /\ h < Final -> pipe[2] \o printed
                       [] OTHER -> pipe[i]]
      BY <2>1 DEF Show
    <3> HIDE DEF printed
    <3>4. pipe[2] \o printed \in Seq(Int)
      BY <1>1, <3>2 DEF Hop
    <3> QED BY <3>3, <3>4, <1>1 DEF LinesInv
  <2> QED BY <2>5, <2>6
<1>3. CASE ~(coll[h] = "parsing" /\ line >= 0)
  <2>1. pipe' = [pipe EXCEPT ![h] = Tail(@)] /\ UNCHANGED <<bar, sum>>
    BY <1>3 DEF Collect
  <2> QED BY <2>1, <1>1 DEF LinesInv, BarsInv, BarExact
<1> QED BY <1>2, <1>3

\* The second agent of a dom0 update starts with a bar that has no value.
LEMMA SecondBars ==
  ASSUME Inv, Second
  PROVE  Inv'
<1>1. CountersInv' /\ LinesInv'
  BY DEF Inv, Second, CountersInv, LinesInv
<1>2. bar' = [bar EXCEPT ![1] = NoValue] /\ sum' = [sum EXCEPT ![1] = 0]
  BY DEF Second
<1>3. bar' \in [Hop -> Int] /\ sum' \in [Hop -> Nat]
  BY <1>2 DEF Inv, BarsInv, Hop
<1>4. BarExact'
  BY <1>2 DEF Inv, BarsInv, BarExact
<1> QED BY <1>1, <1>3, <1>4 DEF Inv, BarsInv

--------------------------------------------------------------------------------
\* The counters, lines and bars keep their invariant.
THEOREM ProgressInvHolds == Spec => []Inv
<1>1. Init => Inv
  <2> SUFFICES ASSUME Init PROVE Inv
    OBVIOUS
  <2>1. LinesInv
    <3>1. <<>> \in Seq(Int)
      OBVIOUS
    <3> QED BY <3>1 DEF Init, LinesInv
  <2>2. CountersInv
    <3>1. /\ toFetch = 0 /\ fetched = 0 /\ item = 0
          /\ got = [p \in Packages |-> 0] /\ real = [p \in Packages |-> 0]
      BY DEF Init
    <3> QED BY <3>1 DEF CountersInv
  <2>3. BarsInv
    <3>1. bar \in [Hop -> {NoValue, 0}] /\ sum = [h \in Hop |-> 0]
      BY DEF Init
    <3> QED BY <3>1 DEF BarsInv, BarExact
  <2> QED BY <2>1, <2>2, <2>3 DEF Inv
<1>2. Inv /\ [Next]_vars => Inv'
  <2> SUFFICES ASSUME Inv, [Next]_vars PROVE Inv'
    OBVIOUS
  <2>1. CASE Agent /\ ~Second
    BY <2>1, AgentLines DEF Inv, BarsInv, BarExact
  <2>2. CASE Second
    BY <2>2, SecondBars
  <2>3. CASE Fail
    <3>1. LinesInv'
      BY <2>3, WriteLines DEF Fail, Inv, Text
    <3> QED BY <2>3, <3>1 DEF Fail, Inv, CountersInv, BarsInv, BarExact
  <2>4. CASE Stray
    <3>1. PICK line \in Strays : Write(line)
      BY <2>4 DEF Stray
    <3>2. line \in Int
      BY <3>1, ProgressAssumption DEF Text, Blank
    <3>3. LinesInv'
      BY <3>1, <3>2, WriteLines DEF Inv
    <3> QED BY <2>4, <3>3 DEF Stray, agentVars, Inv, CountersInv, BarsInv, BarExact
  <2>5. CASE \E h \in Hop : Collect(h)
    <3>1. PICK h \in Hop : Collect(h)
      BY <2>5
    <3>2. LinesInv' /\ BarsInv'
      BY <3>1, CollectBars
    <3> QED BY <3>1, <3>2 DEF Collect, agentVars, Inv, CountersInv
  <2>6. CASE UNCHANGED vars
    BY <2>6 DEF vars, agentVars, Inv, CountersInv, LinesInv, BarsInv, BarExact
  <2> QED BY <2>1, <2>2, <2>3, <2>4, <2>5, <2>6 DEF Next, Terminated
<1> QED BY <1>1, <1>2, PTL DEF Spec

\* The two objects that remember where a bar is never disagree.
THEOREM BarsAreExact == Spec => []BarExact
<1>1. Inv => BarExact
  BY DEF Inv, BarsInv
<1> QED BY <1>1, ProgressInvHolds, PTL

--------------------------------------------------------------------------------
\* The hops the end of the update has come to, or is on its way to in the pipe, or
\* whose collector died.
Ended ==
  {h \in Hop : coll[h] \in {"passing", "dead"} \/ \E i \in 1..Len(pipe[h]) : pipe[h][i] = 100}

\* A collector that stopped parsing has moved its bar to the end, and the inner
\* bar of a dom0 update has told the outer one; apt prints its end, and main()
\* that of an agent without progress reporting, before the agent exits.
EndInv ==
  /\ coll \in [Hop -> {"parsing", "passing", "dead"}]
  /\ \A h \in Hop : coll[h] = "passing" => bar[h] = 100
  /\ role # "vm" /\ coll[1] = "passing" => 2 \in Ended
  /\ api = "apt" /\ phase = "install" /\ last = 100 => 1 \in Ended
  /\ phase = "exited" /\ role # "updatevm" /\ api \in {"apt", "cli"} => 1 \in Ended

\* There are two hops.
LEMMA Hops == 1 \in Hop /\ 2 \in Hop /\ 1 # 2 /\ \A h \in Hop : h = 1 \/ h = 2
  BY DEF Hop

\* An empty pipe has no end in it.
LEMMA NothingInEmpty ==
  ASSUME NEW lines, Len(lines) = 0
  PROVE  ~\E n \in 1..Len(lines) : lines[n] = 100
<1>1. \A n : n \in 1..0 => FALSE
  OBVIOUS
<1> QED BY <1>1

\* What is written comes after what is in the pipe.
LEMMA WriteEnds ==
  ASSUME LinesInv, NEW line \in Int, Write(line), UNCHANGED coll
  PROVE  /\ Ended \subseteq Ended'
         /\ line = 100 => 1 \in Ended'
<1>1. pipe[1] \in Seq(Int) /\ pipe' = [pipe EXCEPT ![1] = Append(pipe[1], line)]
  BY Hops DEF LinesInv, Write
<1>2. /\ Len(pipe'[1]) = Len(pipe[1]) + 1
      /\ pipe'[1][Len(pipe[1]) + 1] = line
      /\ \A i \in 1..Len(pipe[1]) : pipe'[1][i] = pipe[1][i]
  BY <1>1, Hops DEF LinesInv
<1>3. pipe'[2] = pipe[2]
  BY <1>1, Hops DEF LinesInv
<1> QED BY SMTT(60), <1>2, <1>3, Hops DEF Ended

\* notify_callback prints the end with any other percentage.
LEMMA NotifyEnds ==
  ASSUME LinesInv, NEW num \in Int, NEW den \in Int, den > 0, Notify(num, den), UNCHANGED coll
  PROVE  /\ Ended \subseteq Ended'
         /\ last' = 100 => last = 100 \/ 1 \in Ended'
<1>1. CASE UNCHANGED <<pipe, last>>
  BY <1>1 DEF Ended
<1>2. CASE Write(Scaled(num, den)) /\ last' = Scaled(num, den)
  BY <1>2, ScaledInt, WriteEnds
<1> QED BY <1>1, <1>2 DEF Notify

\* The agent goes on printing until the end is printed.
LEMMA AgentEnds_Step ==
  ASSUME Inv, EndInv, Agent, ~Second
  PROVE  EndInv'
<1> USE DEF Inv
<1>0. UNCHANGED <<coll, bar>>
  BY DEF Agent, RefreshRepo, Pulse, RefreshEnd, FetchStart, Fetch, FetchFinished, Install,
         Finish, Enter
<1>1. SUFFICES /\ Ended \subseteq Ended'
               /\ role' = role
               /\ api' = "apt" /\ phase' = "install" /\ last' = 100 => 1 \in Ended'
               /\ phase' = "exited" /\ role' # "updatevm" /\ api' \in {"apt", "cli"} => 1 \in Ended'
  BY <1>0, Hops DEF EndInv
<1>2. CASE RefreshRepo
  <2>1. fetched' \in Int /\ toFetch' \in Int /\ toFetch' > 0
    BY <1>2, ProgressAssumption DEF RefreshRepo, CountersInv
  <2>2. Ended \subseteq Ended'
    BY <1>2, <2>1, NotifyEnds DEF RefreshRepo
  <2> QED BY <1>2, <2>2 DEF RefreshRepo
<1>3. CASE Pulse
  <2>1. PICK part \in 1..Size : Notify(part, Size)
    BY <1>3 DEF Pulse
  <2>2. /\ Ended \subseteq Ended'
        /\ last' = 100 => last = 100 \/ 1 \in Ended'
    BY <1>0, <2>1, ProgressAssumption, NotifyEnds
  <2>3. UNCHANGED <<role, api, phase>> /\ phase # "exited"
    BY <1>3 DEF Pulse
  <2> QED BY <2>2, <2>3, Hops DEF EndInv
<1>4. CASE RefreshEnd
  BY <1>4 DEF RefreshEnd, Enter, Ended
<1>5. CASE FetchStart
  BY <1>5 DEF FetchStart, Ended
<1>6. CASE \E p \in Packages : Fetch(p)
  <2>1. PICK p \in Packages : Fetch(p)
    BY <1>6
  <2>2. real' \in [Packages -> Int] /\ real'[p] \in Int
    BY <2>1, ProgressAssumption DEF Fetch, CountersInv
  <2>3. fetched' \in Int /\ toFetch \in Int /\ toFetch > 0
    BY <2>1, <2>2 DEF Fetch, DnfProgress, Dnf5Progress, CountersInv
  <2>4. UNCHANGED pipe \/ Notify(fetched', toFetch)
    BY <2>1 DEF Fetch, DnfProgress, Dnf5Progress
  <2>5. Ended \subseteq Ended'
    <3>1. CASE UNCHANGED pipe
      BY <1>0, <3>1 DEF Ended
    <3>2. CASE Notify(fetched', toFetch)
      BY <1>0, <3>2, <2>3, NotifyEnds
    <3> QED BY <2>4, <3>1, <3>2
  <2> QED BY <2>1, <2>5 DEF Fetch
<1>7. CASE FetchFinished
  BY <1>7 DEF FetchFinished, Enter, Ended, Start, FetchEnd
<1>8. CASE Install
  <2>1. item \in Nat /\ Cardinality(Packages) \in Nat /\ Size \in Nat
        /\ Cardinality(Packages) > 0
    BY <1>8, PackagesNat, ProgressAssumption DEF Install, CountersInv
  <2>2. PICK part \in 0..Size, reported \in BOOLEAN :
          IF reported THEN Notify(item * Size + part, Size * Cardinality(Packages))
                      ELSE UNCHANGED <<pipe, last>>
    BY <1>8 DEF Install
  <2>3. Ended \subseteq Ended'
    <3>1. CASE reported
      <4>1. item * Size \in Int
        BY <2>1
      <4>2. item * Size + part \in Int
        BY <2>1, <4>1
      <4> QED BY <1>0, <2>1, <2>2, <3>1, <4>2, TotalPositive, NotifyEnds
    <3>2. CASE ~reported
      BY <1>0, <2>2, <3>2 DEF Ended
    <3> QED BY <3>1, <3>2
  <2> QED BY <1>8, <2>3 DEF Install
<1>9. CASE Finish
  <2>1. CASE UNCHANGED pipe /\ api # "cli"
    BY <1>9, <2>1, <1>0, Hops DEF Finish, Ended, EndInv, Installed
  <2>2. CASE api = "cli" /\ Write(IF role = "updatevm" THEN 55 ELSE 100)
    <3>1. CASE role = "updatevm"
      <4>1. Write(55)
        BY <2>2, <3>1
      <4>2. Ended \subseteq Ended'
        BY <1>0, <4>1, WriteEnds
      <4> QED BY <1>9, <3>1, <4>2 DEF Finish
    <3>2. CASE role # "updatevm"
      <4>1. Write(100)
        BY <2>2, <3>2
      <4>2. Ended \subseteq Ended' /\ 1 \in Ended'
        BY <1>0, <4>1, WriteEnds
      <4> QED BY <1>9, <4>2 DEF Finish
    <3> QED BY <3>1, <3>2
  <2> QED BY <1>9, <2>1, <2>2 DEF Finish
<1> QED BY <1>2, <1>3, <1>4, <1>5, <1>6, <1>7, <1>8, <1>9 DEF Agent

\* A collector that reads the end moves its bar there and prints it to the next.
LEMMA CollectEnds ==
  ASSUME Inv, EndInv, NEW h \in Hop, Collect(h)
  PROVE  EndInv'
<1> USE DEF Inv
<1> DEFINE line == Head(pipe[h])
<1>1. /\ \A i \in Hop : pipe[i] \in Seq(Int)
      /\ pipe[h] # <<>> /\ coll[h] # "dead" /\ line \in Int
      /\ UNCHANGED <<role, api, phase, last>>
  BY DEF Collect, LinesInv, agentVars
<1>2. /\ pipe'[h] = Tail(pipe[h])
      /\ coll' \in [Hop -> {"parsing", "passing", "dead"}]
      /\ \A i \in Hop : i # h => coll'[i] = coll[i]
      /\ line = 100 => coll'[h] = "passing"
      /\ coll[h] = "passing" => coll'[h] = "passing"
  <2>1. CASE coll[h] = "parsing" /\ line >= 0
    <3>1. Show(h, line) /\ coll' = IF line = 100 THEN [coll EXCEPT ![h] = "passing"] ELSE coll
      BY <2>1 DEF Collect
    <3>2. PICK more : pipe' = [i \in Hop |->
                               CASE i = h -> Tail(pipe[h])
                                 [] i = 2 /\ h < Final -> more
                                 [] OTHER -> pipe[i]]
      BY <3>1 DEF Show
    <3>3. pipe'[h] = Tail(pipe[h])
      BY <3>2, Hops DEF Final
    <3> QED BY ZenonT(60), <2>1, <3>1, <3>3 DEF EndInv
  <2>2. CASE ~(coll[h] = "parsing" /\ line >= 0)
    <3>1. /\ pipe' = [pipe EXCEPT ![h] = Tail(@)]
          /\ coll' = IF coll[h] = "parsing" /\ line = Blank
                     THEN [coll EXCEPT ![h] = "dead"] ELSE coll
      BY <2>2 DEF Collect
    <3>2. pipe'[h] = Tail(pipe[h])
      BY <3>1 DEF LinesInv
    <3>3. coll[h] \in {"parsing", "passing"}
      BY <1>1 DEF EndInv
    <3>4. coll[h] = "passing" \/ line # 100
      BY <2>2, <3>3
    <3> QED BY <3>1, <3>2, <3>3, <3>4 DEF EndInv
  <2> QED BY <2>1, <2>2
<1>3. h \in Ended => h \in Ended'
  <2>1. \A i \in 1..Len(pipe[h]) :
          i # 1 => i - 1 \in 1..Len(Tail(pipe[h])) /\ Tail(pipe[h])[i - 1] = pipe[h][i]
    BY <1>1
  <2>2. line = pipe[h][1]
    BY <1>1
  <2> SUFFICES ASSUME h \in Ended PROVE h \in Ended'
    OBVIOUS
  <2>3. CASE coll[h] = "passing"
    BY <1>2, <2>3 DEF Ended
  <2>4. CASE coll[h] # "passing"
    <3>1. PICK i \in 1..Len(pipe[h]) : pipe[h][i] = 100
      BY <1>1, <2>4 DEF Ended
    <3>2. CASE i = 1
      BY <1>2, <2>2, <3>1, <3>2 DEF Ended
    <3>3. CASE i # 1
      <4>1. i - 1 \in 1..Len(pipe'[h]) /\ pipe'[h][i - 1] = 100
        BY <1>2, <2>1, <3>1, <3>3
      <4> QED BY <4>1 DEF Ended
    <3> QED BY <3>2, <3>3
  <2> QED BY <2>3, <2>4
<1>4. CASE coll[h] = "parsing" /\ line >= 0
  <2> DEFINE old == IF bar[h] = NoValue THEN 0 ELSE bar[h]
             new == old + (line - sum[h])
             printed == IF bar[h] = NoValue THEN <<new>> ELSE <<bar[h], new>>
  <2>1. Show(h, line)
    BY <1>4 DEF Collect
  <2>2. old = sum[h] /\ bar[h] \in Int /\ sum[h] \in Nat
    BY DEF BarsInv, BarExact
  <2>3. new = line
    BY <2>2, <1>1
  <2>4. bar' = [bar EXCEPT ![h] = line]
    BY <2>1, <2>3 DEF Show
  <2>5. \A i \in Hop : coll'[i] = "passing" => bar'[i] = 100
    BY ZenonT(60), <1>1, <1>2, <1>4, <2>4, Hops DEF Collect, EndInv, BarsInv
  <2>6. CASE h = 1 /\ role # "vm"
    <3>0. pipe' = [i \in Hop |->
                     CASE i = h -> Tail(pipe[h])
                       [] i = 2 /\ h < Final -> pipe[2] \o printed
                       [] OTHER -> pipe[i]]
      BY <2>1 DEF Show
    <3>2. printed \in Seq(Int) /\ Len(printed) > 0 /\ printed[Len(printed)] = line
      BY <2>2, <2>3, <1>1
    <3> HIDE DEF printed
    <3>1. pipe'[2] = pipe[2] \o printed
      BY <3>0, <2>6, Hops DEF Final
    <3>3. /\ pipe[2] \in Seq(Int)
          /\ Len(pipe'[2]) = Len(pipe[2]) + Len(printed)
          /\ \A i \in 1..Len(pipe[2]) : pipe'[2][i] = pipe[2][i]
          /\ Len(pipe'[2]) \in 1..Len(pipe'[2]) /\ pipe'[2][Len(pipe'[2])] = line
      BY SMTT(60), <1>1, <3>1, <3>2, Hops
    <3>4. 2 \in Ended => 2 \in Ended'
      <4>1. coll'[2] = coll[2]
        BY <1>2, <2>6, Hops
      <4>2. ASSUME NEW i \in 1..Len(pipe[2]), pipe[2][i] = 100
            PROVE  \E j \in 1..Len(pipe'[2]) : pipe'[2][j] = 100
        <5>1. pipe'[2][i] = 100
          BY <3>3, <4>2
        <5>2. i \in 1..Len(pipe'[2])
          BY <3>2, <3>3
        <5> QED BY <5>1, <5>2
      <4> QED BY <4>1, <4>2, Hops DEF Ended
    <3>5. line = 100 => 2 \in Ended'
      BY <3>3, Hops DEF Ended
    <3>6. coll'[1] = "passing" => line = 100
      BY <1>4, <2>6, Hops DEF Collect, EndInv
    <3> QED BY <1>1, <1>2, <1>3, <2>5, <2>6, <3>5, <3>6 DEF EndInv
  <2>7. CASE h = 2
    <3>1. pipe'[1] = pipe[1]
      BY <2>1, <2>7, Hops DEF Show
    <3>2. 1 \in Ended => 1 \in Ended'
      BY <1>2, <2>7, <3>1, Hops DEF Ended
    <3>3. coll'[1] = coll[1]
      BY <1>2, <2>7, Hops
    <3> QED BY <1>1, <1>2, <1>3, <2>5, <2>7, <3>2, <3>3 DEF EndInv
  <2>8. CASE h = 1 /\ role = "vm"
    BY <1>1, <1>2, <1>3, <2>5, <2>8 DEF EndInv
  <2> QED BY <2>6, <2>7, <2>8, Hops
<1>5. CASE ~(coll[h] = "parsing" /\ line >= 0)
  <2>1. pipe' = [pipe EXCEPT ![h] = Tail(@)] /\ UNCHANGED bar
    BY <1>5 DEF Collect
  <2>2. coll'[h] = "passing" => coll[h] = "passing"
    BY <1>5, <1>1 DEF Collect, EndInv, Blank
  <2>3. Ended \subseteq Ended'
    BY ZenonT(60), <1>2, <1>3, <2>1 DEF Ended, LinesInv
  <2>4. \A i \in Hop : coll'[i] = "passing" => coll[i] = "passing"
    BY <1>2, <2>2
  <2> QED BY ZenonT(60), <1>1, <1>2, <2>1, <2>3, <2>4, Hops DEF EndInv
<1> QED BY <1>4, <1>5

\* An update through apt, or one without progress reporting, that has ended is
\* shown as complete, whatever other programs print meanwhile.
THEOREM EndsAreShown == Spec => []EndShown
<1>1. Init => EndInv
  BY Hops DEF Init, EndInv, Ended, Start, UpdateEnd
<1>2. Inv /\ EndInv /\ [Next]_vars => EndInv'
  <2> SUFFICES ASSUME Inv, EndInv, [Next]_vars PROVE EndInv'
    OBVIOUS
  <2>1. CASE Agent /\ ~Second
    BY <2>1, AgentEnds_Step
  <2>2. CASE Second
    <3>1. /\ coll' = [coll EXCEPT ![1] = "parsing"] /\ bar' = [bar EXCEPT ![1] = NoValue]
          /\ phase' = "install" /\ api' # "apt"
      BY <2>2 DEF Second
    <3>2. coll' \in [Hop -> {"parsing", "passing", "dead"}] /\ coll'[1] = "parsing"
      BY <3>1, Hops DEF EndInv
    <3>3. coll'[2] = coll[2] /\ bar'[2] = bar[2]
      BY ZenonT(60), <3>1, Hops DEF Inv, BarsInv, EndInv
    <3> QED BY <3>1, <3>2, <3>3, Hops DEF EndInv
  <2>3. CASE Fail
    <3>1. Ended \subseteq Ended'
      BY <2>3, WriteEnds DEF Fail, Inv, Text
    <3> QED BY <2>3, <3>1, Hops DEF Fail, EndInv
  <2>4. CASE Stray
    <3>1. PICK line \in Strays : Write(line)
      BY <2>4 DEF Stray
    <3>2. line \in Int
      BY <3>1, ProgressAssumption DEF Text, Blank
    <3>3. Ended \subseteq Ended'
      BY <2>4, <3>1, <3>2, WriteEnds DEF Stray, Inv
    <3> QED BY ZenonT(60), <2>4, <3>3, Hops DEF Stray, agentVars, EndInv
  <2>5. CASE \E h \in Hop : Collect(h)
    BY <2>5, CollectEnds
  <2>6. CASE UNCHANGED vars
    BY <2>6 DEF vars, agentVars, EndInv, Ended
  <2> QED BY <2>1, <2>2, <2>3, <2>4, <2>5, <2>6 DEF Next, Terminated
<1>3. Inv /\ EndInv => EndShown
  <2> SUFFICES ASSUME EndInv, phase = "exited", role # "updatevm", api \in {"apt", "cli"},
                      pipe = [h \in Hop |-> <<>>], ~Stuck
               PROVE  bar[Final] = 100
    BY DEF EndShown
  <2>1. \A h \in Ended : coll[h] = "passing"
    <3> SUFFICES ASSUME NEW i \in Ended PROVE coll[i] = "passing"
      OBVIOUS
    <3>1. i \in Hop /\ pipe[i] = <<>> /\ coll[i] # "dead"
      BY DEF Ended, Stuck
    <3>2. Len(pipe[i]) = 0
      BY <3>1
    <3>3. ~\E n \in 1..Len(pipe[i]) : pipe[i][n] = 100
      BY ZenonT(60), <3>2, NothingInEmpty
    <3> QED BY <3>1, <3>3 DEF Ended
  <2>2. coll[1] = "passing"
    BY <2>1, Hops DEF EndInv
  <2>3. role # "vm" => coll[2] = "passing"
    BY <2>1, <2>2, Hops DEF EndInv
  <2> QED BY <2>2, <2>3, Hops DEF EndInv, Final
<1> QED BY <1>1, <1>2, <1>3, ProgressInvHolds, PTL DEF Spec

--------------------------------------------------------------------------------
(***************************************************************************)
(* Sums over the packages.  A total is what a table adds up to in some     *)
(* order of the packages, shown by its partial sums; so that a total is    *)
(* known without a definition by recursion.                                *)
(***************************************************************************)
PackageNumbers == 1..Cardinality(Packages)

IsOrder(nth) ==
  /\ nth \in [PackageNumbers -> Packages]
  /\ \A p \in Packages : \E k \in PackageNumbers :
       nth[k] = p /\ \A i \in PackageNumbers : nth[i] = p => i = k

IsSum(nth, partial, table, total) ==
  /\ partial \in [0..Cardinality(Packages) -> Int]
  /\ partial[0] = 0 /\ partial[Cardinality(Packages)] = total
  /\ \A i \in PackageNumbers : partial[i] = partial[i - 1] + table[nth[i]]

AddsUpTo(table, total) ==
  \E nth : IsOrder(nth) /\ \E partial : IsSum(nth, partial, table, total)

\* Every set of numbers has a least one: induction over numbers as a fact about
\* sets.
LEMMA LeastNumber ==
  ASSUME NEW T, T \subseteq Nat, T # {}
  PROVE  \E n \in T : \A m \in T : n <= m
<1> DEFINE F == {0..n : n \in T}
<1>1. F \subseteq FiniteSubsetsOf(Nat) /\ F # {}
  <2>1. \A n \in Nat : IsFiniteSet(0..n) /\ 0..n \subseteq Nat
    BY FS_Interval
  <2> QED BY <2>1 DEF FiniteSubsetsOf
<1>2. PICK U \in F : \A V \in F : ~ (<<V, U>> \in StrictSubsetOrdering(Nat))
  <2> HIDE DEF F
  <2> QED BY <1>1, FS_StrictSubsetOrderingWellFounded, WFMin
<1>3. PICK n \in T : U = 0..n
  OBVIOUS
<1>4. ASSUME NEW m \in T, m < n
      PROVE  FALSE
  <2>1. 0..m \in F /\ 0..m \subseteq Nat /\ 0..n \subseteq Nat
    OBVIOUS
  <2>2. 0..m \subseteq 0..n /\ n \in 0..n /\ n \notin 0..m
    BY <1>4
  <2>3. <<0..m, 0..n>> \in StrictSubsetOrdering(Nat)
    BY <2>1, <2>2 DEF StrictSubsetOrdering
  <2> QED BY <1>2, <1>3, <2>1, <2>3
<1> QED BY <1>4

\* The packages can be put in an order.
LEMMA OrderExists == \E nth : IsOrder(nth)
<1>1. PICK nth : nth \in Bijection(PackageNumbers, Packages)
  <2>1. ExistsBijection(PackageNumbers, Packages)
    BY ProgressAssumption, FS_CardinalityType DEF PackageNumbers
  <2> QED BY <2>1 DEF ExistsBijection
<1>2. /\ nth \in [PackageNumbers -> Packages]
      /\ \A i, k \in PackageNumbers : nth[i] = nth[k] => i = k
      /\ \A p \in Packages : \E k \in PackageNumbers : nth[k] = p
  BY <1>1 DEF Bijection, Injection, Surjection, IsInjective
<1> QED BY <1>2 DEF IsOrder

\* Nothing adds up to 0.
LEMMA NothingAddsUp == AddsUpTo([p \in Packages |-> 0], 0)
<1>1. PICK nth : IsOrder(nth)
  BY OrderExists
<1> DEFINE zero == [p \in Packages |-> 0]
           partial == [i \in 0..Cardinality(Packages) |-> 0]
<1>2. IsSum(nth, partial, zero, 0)
  <2>1. Cardinality(Packages) \in 0..Cardinality(Packages) /\ 0 \in 0..Cardinality(Packages)
    BY PackagesNat
  <2>2. \A i \in PackageNumbers : /\ i - 1 \in 0..Cardinality(Packages)
                                  /\ i \in 0..Cardinality(Packages)
                                  /\ zero[nth[i]] = 0
    BY <1>1, PackagesNat DEF PackageNumbers, IsOrder
  <2> QED BY <2>1, <2>2 DEF IsSum
<1> QED BY <1>1, <1>2 DEF AddsUpTo

\* A change of one entry changes the total by as much.
LEMMA ChangeAddsUp ==
  ASSUME NEW table \in [Packages -> Int], NEW total \in Int, AddsUpTo(table, total),
         NEW p \in Packages, NEW v \in Int
  PROVE  AddsUpTo([table EXCEPT ![p] = v], total + v - table[p])
<1> DEFINE delta == v - table[p]
           after == [table EXCEPT ![p] = v]
           len == Cardinality(Packages)
<1>1. PICK nth, partial : IsOrder(nth) /\ IsSum(nth, partial, table, total)
  BY DEF AddsUpTo
<1>2. PICK k \in PackageNumbers : nth[k] = p /\ \A i \in PackageNumbers : nth[i] = p => i = k
  BY <1>1 DEF IsOrder
<1> DEFINE moved == [i \in 0..len |-> partial[i] + (IF i >= k THEN delta ELSE 0)]
<1>3. delta \in Int /\ k \in 1..len /\ len \in Nat
  BY <1>2, PackagesNat DEF PackageNumbers
<1>4. moved \in [0..len -> Int] /\ moved[0] = 0 /\ moved[len] = total + delta
  BY <1>1, <1>3 DEF IsSum
<1>5. ASSUME NEW i \in PackageNumbers
      PROVE  moved[i] = moved[i - 1] + after[nth[i]]
  <2>1. /\ i \in 1..len /\ i \in 0..len /\ i - 1 \in 0..len
        /\ partial[i] = partial[i - 1] + table[nth[i]]
        /\ nth[i] \in Packages /\ table[nth[i]] \in Int
        /\ partial[i] \in Int /\ partial[i - 1] \in Int
    <3>1. i \in 1..len /\ i \in 0..len /\ i - 1 \in 0..len
      BY <1>3 DEF PackageNumbers
    <3>2. nth[i] \in Packages /\ table[nth[i]] \in Int
      BY <1>1 DEF IsOrder
    <3>3. partial \in [0..len -> Int] /\ partial[i] = partial[i - 1] + table[nth[i]]
      BY <1>1 DEF IsSum
    <3> QED BY <3>1, <3>2, <3>3
  <2>2. /\ moved[i] = partial[i] + (IF i >= k THEN delta ELSE 0)
        /\ moved[i - 1] = partial[i - 1] + (IF i - 1 >= k THEN delta ELSE 0)
    BY <2>1
  <2>3. CASE i = k
    <3>1. after[nth[i]] = v /\ nth[i] = p
      BY <1>2, <2>1, <2>3
    <3> QED BY <1>3, <2>1, <2>2, <2>3, <3>1
  <2>4. CASE i # k
    <3>1. after[nth[i]] = table[nth[i]]
      BY <1>2, <2>1, <2>4
    <3> HIDE DEF after, delta
    <3> QED BY <1>3, <2>1, <2>2, <2>4, <3>1
  <2> QED BY <2>3, <2>4
<1>6. IsSum(nth, moved, after, total + delta)
  BY <1>4, <1>5 DEF IsSum
<1>7. total + delta = total + v - table[p]
  OBVIOUS
<1> QED BY <1>1, <1>6, <1>7 DEF AddsUpTo

\* Multiplication keeps the order.
LEMMA TimesGrows ==
  ASSUME NEW a \in Int, NEW b \in Int, a <= b, NEW n \in Nat
  PROVE  a * n <= b * n
OBVIOUS

\* What is at most c a package is at most c times their number.
LEMMA AtMost ==
  ASSUME NEW table \in [Packages -> Int], NEW total \in Int, AddsUpTo(table, total),
         NEW c \in Int, \A p \in Packages : table[p] <= c
  PROVE  total <= Cardinality(Packages) * c
<1> DEFINE len == Cardinality(Packages)
<1>1. PICK nth, partial : IsOrder(nth) /\ IsSum(nth, partial, table, total)
  BY DEF AddsUpTo
<1> DEFINE Above == {i \in 0..len : ~(partial[i] <= i * c)}
<1>2. len \in Nat /\ partial \in [0..len -> Int] /\ partial[0] = 0 /\ partial[len] = total
  BY <1>1, PackagesNat DEF IsSum
<1>3. ASSUME Above # {} PROVE FALSE
  <2>1. PICK i \in Above : \A m \in Above : i <= m
    <3>1. Above \subseteq Nat
      OBVIOUS
    <3> HIDE DEF Above
    <3> QED BY <1>3, <3>1, LeastNumber
  <2>2. i # 0
    BY <1>2
  <2>3. i \in PackageNumbers /\ i - 1 \in 0..len /\ i \in 0..len /\ i - 1 \in Int
    BY <1>2, <2>2 DEF PackageNumbers
  <2>4. partial[i - 1] <= (i - 1) * c
    <3>1. ~(i <= i - 1)
      BY <2>3
    <3>2. i - 1 \notin Above
      BY ZenonT(60), <2>1, <3>1
    <3> QED BY ZenonT(60), <2>3, <3>2
  <2>5. partial[i] = partial[i - 1] + table[nth[i]] /\ nth[i] \in Packages
    BY <1>1, <2>3 DEF IsSum, IsOrder
  <2>6. /\ partial[i] \in Int /\ partial[i - 1] \in Int
        /\ table[nth[i]] \in Int /\ table[nth[i]] <= c
    BY <1>2, <2>3, <2>5
  <2>7. (i - 1) * c + c = i * c /\ i * c \in Int /\ (i - 1) * c \in Int
    BY <2>3
  <2>8. partial[i] <= i * c
    <3> HIDE DEF Above
    <3> QED BY <2>4, <2>5, <2>6, <2>7
  <2> QED BY <2>8
<1>4. len \in 0..len /\ len \notin Above
  BY <1>2, <1>3
<1> QED BY <1>2, <1>4

\* What is c for each package is c times their number.
LEMMA AllTheSame ==
  ASSUME NEW table \in [Packages -> Int], NEW total \in Int, AddsUpTo(table, total),
         NEW c \in Int, \A p \in Packages : table[p] = c
  PROVE  total = Cardinality(Packages) * c
<1> DEFINE len == Cardinality(Packages)
<1>1. PICK nth, partial : IsOrder(nth) /\ IsSum(nth, partial, table, total)
  BY DEF AddsUpTo
<1> DEFINE Off == {i \in 0..len : partial[i] # i * c}
<1>2. len \in Nat /\ partial \in [0..len -> Int] /\ partial[0] = 0 /\ partial[len] = total
  BY <1>1, PackagesNat DEF IsSum
<1>3. ASSUME Off # {} PROVE FALSE
  <2>1. PICK i \in Off : \A m \in Off : i <= m
    <3>1. Off \subseteq Nat
      OBVIOUS
    <3> HIDE DEF Off
    <3> QED BY <1>3, <3>1, LeastNumber
  <2>2. i # 0
    BY <1>2
  <2>3. i \in PackageNumbers /\ i - 1 \in 0..len /\ i \in 0..len /\ i - 1 \in Int
    BY <1>2, <2>2 DEF PackageNumbers
  <2>4. partial[i - 1] = (i - 1) * c
    <3>1. ~(i <= i - 1)
      BY <2>3
    <3>2. i - 1 \notin Off
      BY ZenonT(60), <2>1, <3>1
    <3> QED BY ZenonT(60), <2>3, <3>2
  <2>5. partial[i] = partial[i - 1] + table[nth[i]] /\ nth[i] \in Packages
    BY <1>1, <2>3 DEF IsSum, IsOrder
  <2>6. partial[i] = (i - 1) * c + c
    BY <2>4, <2>5
  <2>7. (i - 1) * c + c = i * c
    BY <2>3
  <2> QED BY <2>6, <2>7
<1>4. len \in 0..len /\ len \notin Off
  BY <1>2, <1>3
<1> QED BY <1>2, <1>4

\* What divides to at most w.
LEMMA DivAtMost ==
  ASSUME NEW a \in Int, NEW d \in Int, d > 0, NEW w \in Int, a <= w * d
  PROVE  a \div d <= w
<1> DEFINE q == a \div d
<1>1. q \in Int /\ q * d <= a
  OBVIOUS
<1>2. q >= w + 1 => q * d >= (w + 1) * d
  BY <1>1, TimesGrows
<1>3. (w + 1) * d = w * d + d
  OBVIOUS
<1> HIDE DEF q
<1>4. w * d \in Int /\ q * d \in Int /\ (w + 1) * d \in Int
  BY <1>1
<1>5. q <= w
  BY <1>1, <1>2, <1>3, <1>4
<1> QED BY <1>5 DEF q

--------------------------------------------------------------------------------
(***************************************************************************)
(* What is downloaded and what is shown of it.                             *)
(***************************************************************************)
\* Where the current phase starts and stops, and what is fetched as a part of it.
Begin == Start(api, phase)
End == Stop(api, phase)
Share == Scaled(fetched, toFetch)

\* dnf counts what it has; dnf5 does as long as no download started again.
Exact == api = "dnf" \/ restarts = 0

Zero == [p \in Packages |-> 0]

PercentInv ==
  /\ last \in 0..100
  /\ Running => Begin <= last /\ last <= End

PackagesInv ==
  /\ got \in [Packages -> 0..Size] /\ real \in [Packages -> 0..Size]
  /\ item \in 0..Cardinality(Packages)
  /\ restarts \in 0..MaxRestarts
  /\ phase = "refresh" => fetched <= Repos /\ got = Zero /\ real = Zero

\* What is fetched is the sum of what is known of the packages, or less, and what
\* is exact is shown.
FetchInv ==
  /\ toFetch \in {0, Size * Cardinality(Packages)}
  /\ toFetch = 0 => fetched = 0
  /\ \E total \in Int :
       AddsUpTo(got, total) /\ fetched <= total /\ (Exact => fetched = total)
  /\ Exact => got = real
  /\ Exact /\ toFetch > 0 => Share <= last

ShownInv == PercentInv /\ PackagesInv /\ (phase = "fetch" => FetchInv)

\* The weights of the phases add up to 100.
LEMMA Weights ==
  /\ Begin \in 0..55 /\ End \in 0..100 /\ Begin <= End
  /\ phase \in {"refresh", "fetch"} => End <= 55
BY SMTT(60) DEF Begin, End, Start, Stop, UpdateEnd, FetchEnd

\* The first part of a phase is where it starts, the whole where it stops, and no
\* part is beyond that.
LEMMA ScaledRange ==
  ASSUME NEW num \in Int, NEW den \in Int, den > 0
  PROVE  /\ Scaled(num, den) \in Int
         /\ num <= den => Scaled(num, den) <= End
         /\ num = den => Scaled(num, den) = End
         /\ num = 0 => Scaled(num, den) = Begin
<1> DEFINE width == End - Begin
           part == (num * width) \div den
<1>1. Scaled(num, den) = Begin + part
  BY DEF Scaled, Begin, End
<1>2. width \in Nat /\ Begin \in Int /\ End \in Int /\ Begin + width = End
  BY Weights
<1> HIDE DEF width
<1>3. num * width \in Int /\ width * den \in Int /\ part \in Int
  BY <1>2
<1>4. num <= den => part <= width
  <2> SUFFICES ASSUME num <= den PROVE part <= width
    OBVIOUS
  <2>1. num * width <= den * width
    BY <1>2, TimesGrows
  <2>2. den * width = width * den
    BY <1>2
  <2> QED BY <1>2, <1>3, <2>1, <2>2, DivAtMost
<1>5. num = den => part = width
  BY <1>2
<1>6. num = 0 => part = 0
  BY <1>2
<1> HIDE DEF part
<1> QED BY <1>1, <1>2, <1>3, <1>4, <1>5, <1>6

\* notify_callback: what was shown grows, to no less than it was told of and to no
\* more than where the phase stops.
LEMMA NotifyLast ==
  ASSUME PercentInv, Running, NEW num \in Int, NEW den \in Int, den > 0, num <= den,
         Notify(num, den)
  PROVE  /\ last' \in 0..100 /\ last <= last' /\ Begin <= last' /\ last' <= End
         /\ Scaled(num, den) <= last'
<1>1. Scaled(num, den) \in Int /\ Scaled(num, den) <= End
  BY ScaledRange
<1>2. last \in 0..100 /\ Begin <= last /\ last <= End
  BY DEF PercentInv
<1>3. CASE last < Scaled(num, den)
  <2>1. last' = Scaled(num, den)
    BY <1>3 DEF Notify
  <2> QED BY <1>1, <1>2, <1>3, <2>1, Weights
<1>4. CASE ~(last < Scaled(num, den))
  <2>1. last' = last
    BY <1>4 DEF Notify
  <2> QED BY <1>1, <1>2, <1>4, <2>1, Weights
<1> QED BY <1>3, <1>4

\* A phase keeps its place on the scale.
LEMMA SamePhase ==
  ASSUME UNCHANGED <<api, phase>>
  PROVE  /\ UNCHANGED <<Begin, End>> /\ Running' = Running
         /\ Share' = Scaled(fetched', toFetch')
BY DEF Begin, End, Running, Share, Scaled

\* A callback of a phase that goes on: what is shown stays within the phase.
LEMMA PercentsGrow ==
  ASSUME PercentInv, Running, UNCHANGED <<api, phase>>,
         NEW num \in Int, NEW den \in Int, den > 0, num <= den,
         UNCHANGED last \/ Notify(num, den)
  PROVE  PercentInv' /\ last <= last'
<1>1. CASE UNCHANGED last
  BY <1>1, SamePhase DEF PercentInv
<1>2. CASE Notify(num, den)
  BY <1>2, NotifyLast, SamePhase DEF PercentInv
<1> QED BY <1>1, <1>2

\* FetchProgress.progress: bytes of a package arrive or are lost.
LEMMA FetchShows ==
  ASSUME Inv, ShownInv, NEW p \in Packages, Fetch(p)
  PROVE  ShownInv' /\ last <= last'
<1> USE DEF Inv, ShownInv
<1>1. /\ phase = "fetch" /\ toFetch > 0 /\ Running
      /\ UNCHANGED <<role, api, phase, toFetch, item>>
      /\ api \in {"dnf", "dnf5"}
  BY DEF Fetch, Running, DnfProgress, Dnf5Progress
<1>2. /\ got \in [Packages -> 0..Size] /\ real \in [Packages -> 0..Size]
      /\ got[p] \in 0..Size /\ real[p] \in 0..Size /\ fetched \in Int /\ Size \in Nat
      /\ restarts \in 0..MaxRestarts /\ MaxRestarts \in Nat
      /\ got \in [Packages -> Int]
  BY ProgressAssumption DEF PackagesInv, CountersInv
<1>3. PICK v \in 0..Size :
        /\ real' = [real EXCEPT ![p] = v] /\ real'[p] = v
        /\ \/ v > real[p] /\ UNCHANGED restarts
           \/ v < real[p] /\ restarts' = restarts + 1 /\ restarts' \in 0..MaxRestarts
  <2>1. CASE real[p] < Size /\ real' = [real EXCEPT ![p] = @ + 1] /\ UNCHANGED restarts
    <3>1. real[p] + 1 \in 0..Size /\ real'[p] = real[p] + 1 /\ real[p] + 1 > real[p]
      BY <1>2, <2>1
    <3>2. real' = [real EXCEPT ![p] = real[p] + 1]
      BY <2>1
    <3> QED BY <2>1, <3>1, <3>2
  <2>2. CASE /\ real[p] \in 1..(Size - 1) /\ restarts < MaxRestarts
             /\ real' = [real EXCEPT ![p] = 0] /\ restarts' = restarts + 1
    <3>1. 0 \in 0..Size /\ real'[p] = 0 /\ 0 < real[p] /\ restarts' \in 0..MaxRestarts
      BY <1>2, <2>2
    <3> QED BY <1>2, <2>2, <3>1
  <2> QED BY <2>1, <2>2 DEF Fetch
<1>4. fetched' = fetched + v - got[p] /\ fetched' \in Int /\ v \in Int
  BY <1>2, <1>3 DEF Fetch, DnfProgress, Dnf5Progress
<1>5. PICK total \in Int :
        AddsUpTo(got, total) /\ fetched <= total /\ (Exact => fetched = total)
  BY <1>1 DEF FetchInv
<1>6. toFetch = Size * Cardinality(Packages) /\ toFetch \in Int
  BY <1>1 DEF FetchInv, CountersInv
<1> DEFINE known == [got EXCEPT ![p] = v]
<1>7. /\ AddsUpTo(known, total + v - got[p]) /\ total + v - got[p] \in Int
      /\ known \in [Packages -> 0..Size]
  <2>1. v \in 0..Size /\ v \in Int
    BY <1>4
  <2>2. known \in [Packages -> 0..Size] /\ total + v - got[p] \in Int
    BY <1>2, <2>1
  <2>3. AddsUpTo(known, total + v - got[p])
    BY <1>2, <1>5, <2>1, ChangeAddsUp
  <2> QED BY <2>2, <2>3
<1>8. Exact' => Exact
  BY <1>1, <1>2, <1>3 DEF Exact
<1>9. CASE got' = known /\ Notify(fetched', toFetch)
  <2>1. fetched' <= total + v - got[p] /\ (Exact => fetched' = total + v - got[p])
    BY <1>2, <1>4, <1>5
  <2>2. fetched' <= toFetch
    <3>1. total + v - got[p] <= Cardinality(Packages) * Size
      <4>1. known \in [Packages -> Int] /\ \A q \in Packages : known[q] <= Size
        BY <1>7, <1>2
      <4> HIDE DEF known
      <4> QED BY <1>7, <1>2, <4>1, AtMost
    <3>2. Cardinality(Packages) * Size = Size * Cardinality(Packages)
      BY <1>2, PackagesNat
    <3> QED BY <1>4, <1>6, <1>7, <2>1, <3>1, <3>2
  <2>3. PercentInv' /\ last <= last' /\ Scaled(fetched', toFetch) <= last'
    BY <1>1, <1>4, <1>6, <1>9, <2>2, PercentsGrow, NotifyLast
  <2>4. Share' <= last'
    BY <1>1, <2>3, SamePhase
  <2>5. Exact => got' = real'
    BY <1>1, <1>3, <1>9 DEF FetchInv
  <2>6. AddsUpTo(got', total + v - got[p])
    BY <1>7, <1>9
  <2>7. FetchInv'
    <3>1. \E t \in Int : AddsUpTo(got', t) /\ fetched' <= t /\ (Exact' => fetched' = t)
      BY <1>7, <1>8, <2>1, <2>6
    <3>2. toFetch' \in {0, Size * Cardinality(Packages)} /\ toFetch' > 0
      BY <1>1, <1>6
    <3> HIDE DEF ShownInv, Inv
    <3> QED BY <1>8, <2>4, <2>5, <3>1, <3>2 DEF FetchInv
  <2>8. PackagesInv'
    BY <1>1, <1>2, <1>3, <1>7, <1>9 DEF PackagesInv
  <2> QED BY <2>3, <2>7, <2>8
<1>10. CASE v <= got[p] /\ api # "dnf" /\ UNCHANGED <<got, last, pipe>>
  <2>1. PercentInv'
    BY <1>1, <1>10, SamePhase DEF PercentInv
  <2>2. fetched' <= total
    BY <1>2, <1>4, <1>5, <1>10
  <2>3. ~Exact'
    <3>1. Exact => got = real
      BY <1>1 DEF FetchInv
    <3> QED BY <1>1, <1>2, <1>3, <1>10, <3>1 DEF Exact
  <2>4. FetchInv'
    <3>1. \E t \in Int : AddsUpTo(got', t) /\ fetched' <= t
      BY <1>5, <1>10, <2>2
    <3>2. toFetch' \in {0, Size * Cardinality(Packages)} /\ toFetch' > 0
      BY <1>1, <1>6
    <3> HIDE DEF ShownInv, Inv
    <3> QED BY <2>3, <3>1, <3>2 DEF FetchInv
  <2>5. PackagesInv'
    BY <1>1, <1>2, <1>3, <1>10 DEF PackagesInv
  <2> QED BY <1>2, <1>10, <2>1, <2>4, <2>5 DEF PercentInv
<1>11. \/ got' = known /\ Notify(fetched', toFetch)
       \/ v <= got[p] /\ api # "dnf" /\ UNCHANGED <<got, last, pipe>>
  <2>1. CASE DnfProgress(p, real'[p])
    BY <1>3, <2>1 DEF DnfProgress
  <2>2. CASE Dnf5Progress(p, real'[p])
    BY <1>2, <1>3, <2>2 DEF Dnf5Progress
  <2> QED BY <2>1, <2>2 DEF Fetch
<1> QED BY <1>9, <1>10, <1>11

\* The agent: a phase starts where the one before stops, and its callbacks stay
\* within it.
LEMMA AgentShows ==
  ASSUME Inv, ShownInv, Agent, ~Second
  PROVE  ShownInv' /\ last <= last'
<1> USE DEF Inv, ShownInv
<1>0. last \in 0..100 /\ Cardinality(Packages) \in Nat /\ Size \in Nat /\ Size > 0
  BY ProgressAssumption, PackagesNat DEF PercentInv
<1>1. CASE RefreshRepo
  <2>1. /\ phase = "refresh" /\ Running /\ UNCHANGED <<api, phase, got, real, item, restarts>>
        /\ Notify(fetched', toFetch')
    BY <1>1 DEF RefreshRepo, Running
  <2>2. fetched' \in Int /\ toFetch' \in Int /\ toFetch' > 0 /\ fetched' <= toFetch' /\ toFetch' = Repos
    BY <1>1, ProgressAssumption DEF RefreshRepo, CountersInv
  <2>3. PercentInv' /\ last <= last'
    BY <2>1, <2>2, PercentsGrow
  <2> QED BY <2>1, <2>2, <2>3 DEF PackagesInv
<1>2. CASE Pulse
  <2>1. /\ Running /\ UNCHANGED <<api, phase, toFetch, fetched, got, real, item, restarts>>
        /\ api = "apt"
    BY <1>2 DEF Pulse, Running
  <2>2. PICK part \in 1..Size : Notify(part, Size)
    BY <1>2 DEF Pulse
  <2>3. PercentInv' /\ last <= last'
    BY <1>0, <2>1, <2>2, PercentsGrow
  <2>4. PackagesInv'
    BY <2>1 DEF PackagesInv
  <2>5. phase = "fetch" => FetchInv'
    <3> SUFFICES ASSUME phase = "fetch", FetchInv PROVE FetchInv'
      OBVIOUS
    <3>1. Exact' = Exact /\ Share' = Share
      BY <2>1 DEF Exact, Share, Scaled
    <3>2. toFetch > 0 => Share \in Int
      BY ScaledRange DEF Share, CountersInv
    <3>3. last' \in 0..100
      BY <2>3 DEF PercentInv
    <3>4. Exact /\ toFetch > 0 => Share <= last'
      BY <1>0, <2>3, <3>2, <3>3 DEF FetchInv
    <3> HIDE DEF ShownInv, Inv
    <3> QED BY <2>1, <3>1, <3>4 DEF FetchInv
  <2> QED BY <2>1, <2>3, <2>4, <2>5
<1>3. CASE RefreshEnd
  <2>1. /\ phase = "refresh" /\ phase' = "fetch" /\ last' = Start(api, "fetch")
        /\ toFetch' = 0 /\ fetched' = 0 /\ UNCHANGED <<role, api, got, real, item, restarts>>
    BY <1>3 DEF RefreshEnd, Enter
  <2>2. /\ last' = Begin' /\ last' = End
    BY <2>1 DEF Begin, End, Start, Stop
  <2>3. PercentInv' /\ last <= last'
    <3>1. Begin' \in 0..55 /\ End' \in 0..100 /\ Begin' <= End'
      BY SMTT(60), <2>1 DEF Begin, End, Start, Stop, UpdateEnd, FetchEnd
    <3>2. last <= End
      BY <2>1 DEF PercentInv, Running
    <3> QED BY <2>2, <3>1, <3>2 DEF PercentInv
  <2>4. FetchInv'
    <3>1. got' = Zero /\ real' = Zero
      BY <2>1 DEF PackagesInv
    <3>2. AddsUpTo(got', 0)
      BY <3>1, NothingAddsUp DEF Zero
    <3>3. \E total \in Int :
            AddsUpTo(got', total) /\ fetched' <= total /\ (Exact' => fetched' = total)
      BY <2>1, <3>2
    <3> HIDE DEF ShownInv, Inv
    <3> QED BY <2>1, <3>1, <3>3 DEF FetchInv
  <2> QED BY <2>1, <2>3, <2>4 DEF PackagesInv
<1>4. CASE FetchStart
  <2>1. /\ phase = "fetch" /\ Running /\ toFetch = 0
        /\ toFetch' = Size * Cardinality(Packages)
        /\ UNCHANGED <<api, phase, last, fetched, got, real, item, restarts>>
    BY <1>4 DEF FetchStart, Running
  <2>2. PercentInv' /\ last <= last'
    BY <1>0, <2>1, SamePhase DEF PercentInv
  <2>3. fetched' = 0
    BY <2>1 DEF FetchInv
  <2>4. toFetch' > 0 => Share' <= last'
    <3>1. Share' = Scaled(0, toFetch')
      BY <2>1, <2>3, SamePhase
    <3>2. toFetch' \in Int
      BY <1>0, <2>1
    <3>3. toFetch' > 0 => Share' = Begin
      BY <3>1, <3>2, ScaledRange
    <3> QED BY <2>1, <3>3 DEF PercentInv
  <2>5. Exact' = Exact
    BY <2>1 DEF Exact
  <2>6. FetchInv'
    <3> HIDE DEF ShownInv, Inv
    <3>1. FetchInv
      BY <2>1 DEF ShownInv
    <3> QED BY <2>1, <2>3, <2>4, <2>5, <3>1 DEF FetchInv
  <2> QED BY <2>1, <2>2, <2>6 DEF PackagesInv
<1>5. CASE \E p \in Packages : Fetch(p)
  BY <1>5, FetchShows
<1>6. CASE FetchFinished
  <2>1. /\ phase = "fetch" /\ phase' = "install" /\ last' = Start(api, "install")
        /\ UNCHANGED <<role, api, got, real, item, restarts>>
    BY <1>6 DEF FetchFinished, Enter
  <2>2. /\ last' = Begin' /\ last' = End
    BY <2>1 DEF Begin, End, Start, Stop
  <2>3. PercentInv' /\ last <= last'
    <3>1. Begin' \in 0..55 /\ End' \in 0..100 /\ Begin' <= End'
      BY SMTT(60), <2>1 DEF Begin, End, Start, Stop, UpdateEnd, FetchEnd
    <3>2. last <= End
      BY <2>1 DEF PercentInv, Running
    <3> QED BY <2>2, <3>1, <3>2 DEF PercentInv
  <2> QED BY <2>1, <2>3 DEF PackagesInv
<1>7. CASE Install
  <2>1. /\ phase = "install" /\ Running /\ item < Cardinality(Packages)
        /\ UNCHANGED <<api, phase, got, real, restarts>>
    BY <1>7 DEF Install, Running
  <2>2. PICK part \in 0..Size, reported \in BOOLEAN :
          /\ IF reported THEN Notify(item * Size + part, Size * Cardinality(Packages))
                         ELSE UNCHANGED <<pipe, last>>
          /\ item' = IF part = Size THEN item + 1 ELSE item
    BY <1>7 DEF Install
  <2>3. item \in Nat
    BY DEF CountersInv
  <2> DEFINE all == Size * Cardinality(Packages)
             done == item * Size + part
  <2>4. all \in Int /\ all > 0 /\ done \in Int /\ done <= all
    <3>1. (item + 1) * Size <= Cardinality(Packages) * Size
      BY <1>0, <2>1, <2>3, TimesGrows
    <3>2. (item + 1) * Size = item * Size + Size /\ item * Size \in Int
      BY <1>0, <2>3
    <3>3. Cardinality(Packages) * Size = all
      BY <1>0
    <3>4. all \in Int /\ all > 0
      BY <1>0, <2>1, <2>3, TotalPositive
    <3> HIDE DEF all
    <3> QED BY <1>0, <3>1, <3>2, <3>3, <3>4
  <2>5. UNCHANGED last \/ Notify(done, all)
    BY <2>2
  <2>6. PercentInv' /\ last <= last'
    <3> HIDE DEF done, all
    <3> QED BY <2>1, <2>4, <2>5, PercentsGrow
  <2>7. item' \in 0..Cardinality(Packages)
    BY <1>0, <2>1, <2>2, <2>3
  <2> QED BY <2>1, <2>6, <2>7 DEF PackagesInv
<1>8. CASE Finish
  <2>1. /\ phase' = "exited"
        /\ UNCHANGED <<role, api, last, toFetch, fetched, got, real, item, restarts>>
    BY <1>8 DEF Finish
  <2>2. ~Running'
    BY <2>1 DEF Running
  <2> QED BY <1>0, <2>1, <2>2 DEF PercentInv, PackagesInv
<1> QED BY <1>1, <1>2, <1>3, <1>4, <1>5, <1>6, <1>7, <1>8 DEF Agent

\* What is shown is a percentage of the phase, and a download that is exact shows
\* at least its share.
THEOREM ShownInvHolds == Spec => []ShownInv
<1>1. Init => ShownInv
  <2> SUFFICES ASSUME Init PROVE ShownInv
    OBVIOUS
  <2>1. /\ phase = "refresh" /\ last = Begin /\ fetched = 0 /\ item = 0 /\ restarts = 0
        /\ got = Zero /\ real = Zero
    BY DEF Init, Begin, Zero
  <2>2. PercentInv
    BY <2>1, Weights DEF PercentInv
  <2>3. PackagesInv
    BY <2>1, ProgressAssumption, PackagesNat DEF PackagesInv, Zero
  <2> QED BY <2>1, <2>2, <2>3 DEF ShownInv
<1>2. Inv /\ ShownInv /\ [Next]_vars => ShownInv'
  <2> SUFFICES ASSUME Inv, ShownInv, [Next]_vars PROVE ShownInv'
    OBVIOUS
  <2> USE DEF ShownInv
  <2>1. CASE Agent /\ ~Second
    BY <2>1, AgentShows
  <2>2. CASE Second
    <3>1. /\ phase' = "install" /\ last' = Start(api', "install") /\ api' # "apt"
          /\ UNCHANGED <<got, real, item, restarts>>
      BY <2>2 DEF Second
    <3>2. last' = 55 /\ Begin' = 55 /\ End' = 100
      BY <3>1 DEF Begin, End, Start, Stop, FetchEnd
    <3> QED BY <3>1, <3>2 DEF PercentInv, PackagesInv
  <2>3. CASE Fail
    <3>1. /\ phase' = "failed" /\ ~Running'
          /\ UNCHANGED <<last, got, real, item, restarts>>
      BY <2>3 DEF Fail, Running
    <3> QED BY <3>1 DEF PercentInv, PackagesInv
  <2>4. CASE Stray \/ (\E h \in Hop : Collect(h)) \/ UNCHANGED vars
    <3>1. UNCHANGED agentVars
      BY <2>4 DEF Stray, Collect, vars
    <3>2. UNCHANGED <<Begin, End, Share, Exact>> /\ Running' = Running
      BY <3>1 DEF agentVars, Begin, End, Share, Scaled, Exact, Running
    <3>3. PercentInv' /\ PackagesInv'
      BY <3>1, <3>2 DEF agentVars, PercentInv, PackagesInv
    <3>4. FetchInv => FetchInv'
      <4> HIDE DEF ShownInv
      <4> QED BY <3>1, <3>2 DEF agentVars, FetchInv
    <3>5. UNCHANGED phase
      BY <3>1 DEF agentVars
    <3> QED BY <3>3, <3>4, <3>5
  <2> QED BY <2>1, <2>2, <2>3, <2>4 DEF Next, Terminated
<1> QED BY <1>1, <1>2, ProgressInvHolds, PTL DEF Spec

\* The counters, percentages and queues are of their types.
THEOREM TypesHold == Spec => []TypeOK
<1> DEFINE Others == /\ role \in {"vm", "updatevm", "dom0"} /\ api \in Apis
                     /\ phase \in {"refresh", "fetch", "install", "exited", "failed"}
                     /\ strays \in 0..MaxStrays
                     /\ coll \in [Hop -> {"parsing", "passing", "dead"}]
<1>1. Init => Others
  <2> SUFFICES ASSUME Init PROVE Others
    OBVIOUS
  <2>1. role \in {"vm", "updatevm", "dom0"} /\ api \in Apis /\ phase = "refresh"
    BY DEF Init
  <2>2. strays \in 0..MaxStrays
    <3>1. MaxStrays \in Nat
      BY ProgressAssumption
    <3>2. strays = 0
      BY DEF Init
    <3> HIDE DEF Others
    <3> QED BY <3>1, <3>2
  <2>3. coll \in [Hop -> {"parsing", "passing", "dead"}]
    BY DEF Init
  <2> QED BY <2>1, <2>2, <2>3
<1>2. Inv /\ Others /\ [Next]_vars => Others'
  <2> SUFFICES ASSUME Inv, Others, [Next]_vars PROVE Others'
    OBVIOUS
  <2>1. CASE Agent /\ ~Second
    BY <2>1 DEF Agent, RefreshRepo, Pulse, RefreshEnd, FetchStart, Fetch, FetchFinished, Install,
                Finish, Enter
  <2>2. CASE Second
    BY <2>2 DEF Second
  <2>3. CASE Fail
    BY <2>3 DEF Fail
  <2>4. CASE Stray
    <3>1. strays' \in 0..MaxStrays
      <4>1. MaxStrays \in Nat /\ strays \in 0..MaxStrays
        BY ProgressAssumption
      <4>2. strays' = strays + 1 /\ strays < MaxStrays
        BY <2>4 DEF Stray
      <4> HIDE DEF Others
      <4> QED BY <4>1, <4>2
    <3> QED BY <2>4, <3>1 DEF Stray, agentVars
  <2>5. CASE \E h \in Hop : Collect(h)
    BY <2>5 DEF Collect, agentVars
  <2>6. CASE UNCHANGED vars
    BY <2>6 DEF vars, agentVars
  <2> QED BY <2>1, <2>2, <2>3, <2>4, <2>5, <2>6 DEF Next, Terminated
<1>3. Inv /\ ShownInv /\ Others => TypeOK
  <2> SUFFICES ASSUME Inv, ShownInv, Others PROVE TypeOK
    OBVIOUS
  <2>1. /\ last \in 0..100 /\ toFetch \in Nat /\ fetched \in Int
        /\ got \in [Packages -> 0..Size] /\ real \in [Packages -> 0..Size]
        /\ item \in 0..Cardinality(Packages) /\ restarts \in 0..MaxRestarts
    BY DEF Inv, CountersInv, ShownInv, PercentInv, PackagesInv
  <2>2. pipe \in [Hop -> Seq(Int)] /\ bar \in [Hop -> Int] /\ sum \in [Hop -> Nat]
    BY DEF Inv, LinesInv, BarsInv
  <2>3. sum \in [Hop -> Int]
    <3>1. sum = [h \in Hop |-> sum[h]] /\ \A h \in Hop : sum[h] \in Nat
      BY <2>2
    <3> HIDE DEF Others
    <3>2. \A h \in Hop : sum[h] \in Int
      BY <3>1
    <3> QED BY ZenonT(60), <3>1, <3>2
  <2> QED BY <2>1, <2>2, <2>3 DEF TypeOK
<1> HIDE DEF Others
<1> QED BY <1>1, <1>2, <1>3, ProgressInvHolds, ShownInvHolds, PTL DEF Spec

\* A download that is complete is shown as complete: each package's bytes were
\* counted once, whatever order they came in and however often dnf began again.
THEOREM DownloadsAreShown == Spec => []FetchShown
<1>1. Inv /\ TypeOK /\ ShownInv => FetchShown
  <2> SUFFICES ASSUME Inv, TypeOK, ShownInv, phase = "fetch", Fetched, api # "cli",
                      api = "dnf5" => restarts = 0
               PROVE  last = Stop(api, phase)
    BY DEF FetchShown
  <2>1. CASE api = "apt"
    BY <2>1 DEF Fetched
  <2>2. CASE api \in {"dnf", "dnf5"}
    <3>1. /\ toFetch > 0 /\ \A p \in Packages : real[p] = Size
          /\ Exact /\ FetchInv /\ Size \in Int
      BY <2>2, ProgressAssumption DEF Fetched, Exact, ShownInv
    <3>2. fetched = toFetch
      <4>1. PICK total \in Int : AddsUpTo(got, total) /\ fetched = total
        BY <3>1 DEF FetchInv
      <4>2. got \in [Packages -> Int] /\ \A p \in Packages : got[p] = Size
        BY <3>1 DEF FetchInv, Inv, CountersInv
      <4>3. total = Cardinality(Packages) * Size
        BY <3>1, <4>1, <4>2, AllTheSame
      <4>4. toFetch = Size * Cardinality(Packages)
        BY <3>1 DEF FetchInv
      <4> QED BY <3>1, <4>1, <4>3, <4>4, PackagesNat
    <3>3. Share = End
      BY <3>1, <3>2, ScaledRange DEF Share, Inv, CountersInv
    <3>4. last <= End /\ Share <= last /\ last \in 0..100
      BY <3>1 DEF FetchInv, ShownInv, PercentInv, Running
    <3> QED BY <3>3, <3>4, Weights DEF End
  <2>3. api \in {"apt", "dnf", "dnf5", "cli"}
    BY ProgressAssumption DEF TypeOK
  <2> QED BY <2>1, <2>2, <2>3
<1> QED BY <1>1, ProgressInvHolds, TypesHold, ShownInvHolds, PTL

--------------------------------------------------------------------------------
(***************************************************************************)
(* The order of the percentages on their way to the bar.                   *)
(***************************************************************************)
\* The percentages among the lines do not fall, and are in a range.
Ordered(lines, low, high) ==
  /\ \A i, j \in 1..Len(lines) :
       i <= j /\ lines[i] >= 0 /\ lines[j] >= 0 => lines[i] <= lines[j]
  /\ \A i \in 1..Len(lines) : lines[i] >= 0 => low <= lines[i] /\ lines[i] <= high

\* What the agent has printed, at most, and what the first bar has shown: a second
\* agent starts with what the first one, that only downloads, ends with.
Highest ==
  IF phase = "exited" THEN (IF role = "updatevm" THEN 55 ELSE 100) ELSE last
Known == IF bar[1] = NoValue THEN 55 ELSE bar[1]

\* Only the second agent installs on after a first one, from where that stopped.
RolesInv ==
  /\ role \in {"vm", "updatevm", "dom0"}
  /\ role = "updatevm" => phase # "install" /\ last <= 55
  /\ role = "dom0" => phase \notin {"refresh", "fetch"} /\ last >= 55
  /\ bar[1] = NoValue => role = "dom0"

\* The percentages in a pipe are in order, behind those before them and ahead of
\* the bar they will move.
OrderInv ==
  /\ RolesInv
  /\ Known <= Highest
  /\ Ordered(pipe[1], Known, Highest)
  /\ role # "vm" => bar[2] <= Known /\ Ordered(pipe[2], bar[2], Known)

\* A line of words, or a percentage that is not less, comes last.
LEMMA AppendOrdered ==
  ASSUME NEW lines \in Seq(Int), NEW low \in Int, NEW high \in Int, low <= high,
         Ordered(lines, low, high),
         NEW line \in Int, NEW top \in Int, high <= top,
         line < 0 \/ (high <= line /\ line <= top)
  PROVE  Ordered(Append(lines, line), low, top)
<1> DEFINE more == Append(lines, line)
<1>1. /\ Len(more) = Len(lines) + 1 /\ Len(lines) \in Nat
      /\ \A i \in 1..Len(lines) : more[i] = lines[i] /\ lines[i] \in Int
      /\ more[Len(lines) + 1] = line
  OBVIOUS
<1>2. \A i \in 1..Len(more) : i \in 1..Len(lines) \/ i = Len(lines) + 1
  BY <1>1
<1> HIDE DEF more
<1>3. ASSUME NEW i \in 1..Len(more), more[i] >= 0
      PROVE  low <= more[i] /\ more[i] <= top
  <2>1. CASE i \in 1..Len(lines)
    BY <1>1, <1>3, <2>1 DEF Ordered
  <2>2. CASE i = Len(lines) + 1
    BY <1>1, <1>3, <2>2
  <2> QED BY <1>2, <2>1, <2>2
<1>4. ASSUME NEW i \in 1..Len(more), NEW j \in 1..Len(more), i <= j, more[i] >= 0, more[j] >= 0
      PROVE  more[i] <= more[j]
  <2>1. CASE j \in 1..Len(lines)
    BY <1>1, <1>4, <2>1 DEF Ordered
  <2>2. CASE j = Len(lines) + 1 /\ i \in 1..Len(lines)
    <3>1. more[i] <= high /\ more[i] \in Int
      BY <1>1, <1>4, <2>2 DEF Ordered
    <3> QED BY <1>1, <1>4, <2>2, <3>1
  <2>3. CASE j = Len(lines) + 1 /\ i = Len(lines) + 1
    BY <1>1, <2>3
  <2> QED BY <1>2, <2>1, <2>2, <2>3
<1>5. Ordered(more, low, top)
  BY <1>3, <1>4 DEF Ordered
<1> QED BY <1>5 DEF more

\* A bar without a value prints where it goes, another where it was first.
LEMMA PrintedOrdered ==
  ASSUME NEW lines \in Seq(Int), NEW low \in Int, NEW high \in Int, low <= high,
         Ordered(lines, low, high), NEW line \in Int, high <= line
  PROVE  /\ Ordered(lines \o <<line>>, low, line)
         /\ Ordered(lines \o <<high, line>>, low, line)
<1> DEFINE more == Append(lines, high)
<1>1. lines \o <<line>> = Append(lines, line) /\ lines \o <<high, line>> = Append(more, line)
  OBVIOUS
<1>2. Ordered(Append(lines, line), low, line)
  BY AppendOrdered
<1>3. more \in Seq(Int) /\ high <= high /\ line <= line
  OBVIOUS
<1>4. Ordered(more, low, high)
  BY ZenonT(60), <1>3, AppendOrdered
<1> HIDE DEF more
<1>5. Ordered(Append(more, line), low, line)
  BY ZenonT(60), <1>3, <1>4, AppendOrdered
<1> QED BY <1>1, <1>2, <1>5

\* What comes after the first line is in order, from that line on.
LEMMA TailOrdered ==
  ASSUME NEW lines \in Seq(Int), lines # <<>>, NEW low \in Int, NEW high \in Int,
         Ordered(lines, low, high)
  PROVE  /\ Ordered(Tail(lines), low, high)
         /\ Head(lines) >= 0 => /\ low <= Head(lines) /\ Head(lines) <= high
                                /\ Ordered(Tail(lines), Head(lines), high)
<1> DEFINE rest == Tail(lines)
<1>1. /\ Head(lines) = lines[1] /\ lines[1] \in Int /\ 1 \in 1..Len(lines)
      /\ \A i \in 1..Len(rest) : i + 1 \in 1..Len(lines) /\ rest[i] = lines[i + 1]
  OBVIOUS
<1> HIDE DEF rest
<1>2. \A i, j \in 1..Len(rest) :
        i <= j /\ rest[i] >= 0 /\ rest[j] >= 0 => rest[i] <= rest[j]
  <2> SUFFICES ASSUME NEW i \in 1..Len(rest), NEW j \in 1..Len(rest), i <= j,
                      rest[i] >= 0, rest[j] >= 0
               PROVE  rest[i] <= rest[j]
    OBVIOUS
  <2>1. /\ i + 1 \in 1..Len(lines) /\ j + 1 \in 1..Len(lines) /\ i + 1 <= j + 1
        /\ rest[i] = lines[i + 1] /\ rest[j] = lines[j + 1]
    BY <1>1
  <2> QED BY <2>1 DEF Ordered
<1>3. \A i \in 1..Len(rest) : rest[i] >= 0 => low <= rest[i] /\ rest[i] <= high
  BY <1>1 DEF Ordered
<1>4. lines[1] >= 0 => low <= lines[1] /\ lines[1] <= high
  BY <1>1 DEF Ordered
<1>5. lines[1] >= 0 => \A i \in 1..Len(rest) : rest[i] >= 0 => lines[1] <= rest[i]
  <2> SUFFICES ASSUME lines[1] >= 0, NEW i \in 1..Len(rest), rest[i] >= 0
               PROVE  lines[1] <= rest[i]
    OBVIOUS
  <2>1. i + 1 \in 1..Len(lines) /\ 1 <= i + 1 /\ rest[i] = lines[i + 1]
    BY <1>1
  <2> QED BY <1>1, <2>1 DEF Ordered
<1>6. Ordered(rest, low, high)
  BY <1>2, <1>3 DEF Ordered
<1>7. lines[1] >= 0 => Ordered(rest, lines[1], high)
  BY <1>2, <1>3, <1>5 DEF Ordered
<1> QED BY <1>1, <1>4, <1>6, <1>7 DEF rest

\* The range may grow upwards.
LEMMA MoreRoom ==
  ASSUME NEW lines \in Seq(Int), NEW low, NEW high \in Int, NEW top \in Int, high <= top,
         Ordered(lines, low, high)
  PROVE  Ordered(lines, low, top)
<1>1. \A i \in 1..Len(lines) : lines[i] \in Int
  OBVIOUS
<1> QED BY <1>1 DEF Ordered

LEMMA EmptyOrdered == \A low, high : Ordered(<<>>, low, high)
BY DEF Ordered

\* A phase that downloads stops at 55, that is 100 less the weight of installing.
LEMMA DownloadStops ==
  ASSUME NEW a, NEW p \in {"refresh", "fetch"}
  PROVE  Stop(a, p) \in 0..55
BY SMTT(60) DEF Stop, UpdateEnd, FetchEnd

LEMMA DownloadEnd ==
  ASSUME PercentInv', role' = "updatevm", phase' \in {"refresh", "fetch"}
  PROVE  last' <= 55
<1>1. PICK end \in 0..55 : end = End'
  <2>1. Stop(api', phase') \in 0..55
    BY DownloadStops
  <2> QED BY ZenonT(60), <2>1 DEF End
<1>2. last' \in 0..100 /\ last' <= end
  BY ZenonT(60), <1>1 DEF PercentInv, Running
<1> QED BY <1>2

\* The agent prints nothing that is less than what it printed.
LEMMA AgentPrints ==
  ASSUME Inv, ShownInv, RolesInv, Agent, ~Second
  PROVE  /\ RolesInv' /\ UNCHANGED <<role, bar>>
         /\ Highest <= Highest'
         /\ \/ UNCHANGED pipe
            \/ \E line \in Int : Write(line) /\ Highest <= line /\ line <= Highest'
<1> USE DEF Inv, ShownInv
<1>1. /\ CountersInv' /\ ShownInv' /\ last <= last' /\ UNCHANGED bar
  BY AgentLines, AgentShows
<1>2. last \in 0..100 /\ last' \in 0..100
  BY <1>1 DEF PercentInv
<1>3. /\ UNCHANGED role /\ phase \in {"refresh", "fetch", "install"}
  BY DEF Agent, RefreshRepo, Pulse, RefreshEnd, FetchStart, Fetch, FetchFinished, Install,
         Finish, Enter
<1>4. Highest = last
  BY <1>3 DEF Highest
<1>5. CASE Finish
  <2>1. phase' = "exited" /\ UNCHANGED last
    BY <1>5 DEF Finish
  <2>2. Highest' = IF role = "updatevm" THEN 55 ELSE 100
    BY <1>3, <2>1 DEF Highest
  <2>3. last <= Highest'
    BY <1>2, <2>2 DEF RolesInv
  <2>4. UNCHANGED pipe \/ Write(Highest')
    BY <1>5, <2>2 DEF Finish
  <2>5. Highest' \in Int /\ Highest' <= Highest'
    BY <2>2
  <2>6. RolesInv'
    BY <1>1, <1>3, <2>1 DEF RolesInv
  <2> QED BY <1>1, <1>3, <1>4, <2>3, <2>4, <2>5, <2>6
<1>6. CASE ~Finish
  <2>1. /\ phase' \in {"refresh", "fetch", "install"}
        /\ role = "updatevm" => phase' # "install"
        /\ role = "dom0" => phase' \notin {"refresh", "fetch"}
    BY <1>3, <1>6 DEF Agent, RefreshRepo, Pulse, RefreshEnd, FetchStart, Fetch, FetchFinished,
                      Install, Enter, RolesInv
  <2>2. Highest' = last'
    BY <2>1 DEF Highest
  <2>3. RolesInv'
    <3>1. role = "updatevm" => last' <= 55
      BY <1>1, <1>3, <2>1, DownloadEnd
    <3>2. role = "dom0" => last' >= 55
      BY <1>1, <1>2 DEF RolesInv
    <3> QED BY <1>1, <1>3, <2>1, <3>1, <3>2 DEF RolesInv
  <2>4. UNCHANGED pipe \/ (Write(last') /\ last < last')
    <3>1. CASE RefreshRepo
      BY <3>1 DEF RefreshRepo, Notify
    <3>2. CASE Pulse
      BY <3>2 DEF Pulse, Notify
    <3>3. CASE RefreshEnd \/ FetchStart \/ FetchFinished
      BY <3>3 DEF RefreshEnd, FetchStart, FetchFinished
    <3>4. CASE \E p \in Packages : Fetch(p)
      BY <3>4 DEF Fetch, DnfProgress, Dnf5Progress, Notify
    <3>5. CASE Install
      <4>1. UNCHANGED pipe \/ \E num, den : Notify(num, den)
        BY <3>5 DEF Install
      <4> QED BY <4>1 DEF Notify
    <3> QED BY <1>6, <3>1, <3>2, <3>3, <3>4, <3>5 DEF Agent
  <2> QED BY <1>1, <1>2, <1>3, <1>4, <2>2, <2>3, <2>4
<1> QED BY <1>5, <1>6

\* Where the ranges are: between -1 and 100.
LEMMA Ranges ==
  ASSUME Inv, ShownInv
  PROVE  /\ Highest \in Int /\ Known \in Int
         /\ pipe \in [Hop -> Seq(Int)] /\ bar \in [Hop -> Int]
         /\ \A h \in Hop : pipe[h] \in Seq(Int) /\ bar[h] \in Int
<1>1. last \in 0..100
  BY DEF ShownInv, PercentInv
<1>2. pipe \in [Hop -> Seq(Int)] /\ bar \in [Hop -> Int]
  BY DEF Inv, LinesInv, BarsInv
<1>3. Highest \in Int
  BY <1>1 DEF Highest
<1>4. Known \in Int
  BY <1>2, Hops DEF Known
<1> QED BY <1>2, <1>3, <1>4

\* Words and percentages that are not less keep the order.
LEMMA Printed ==
  ASSUME Inv, ShownInv, ShownInv', Inv', OrderInv, RolesInv', UNCHANGED <<role, bar>>,
         Highest <= Highest',
         \/ UNCHANGED pipe
         \/ \E line \in Int : Write(line) /\ (line < 0 \/ (Highest <= line /\ line <= Highest'))
  PROVE  OrderInv'
<1>1. /\ Highest \in Int /\ Known \in Int /\ Known <= Highest
      /\ pipe[1] \in Seq(Int) /\ pipe[2] \in Seq(Int)
  <2>1. RolesInv /\ Known <= Highest
    BY DEF OrderInv
  <2> QED BY ZenonT(60), <2>1, Ranges, Hops
<1>2. Highest' \in Int
  BY DEF Highest, ShownInv, PercentInv
<1>3. Known' = Known
  BY DEF Known
<1>4. Ordered(pipe'[1], Known, Highest') /\ pipe'[2] = pipe[2]
  <2>1. CASE UNCHANGED pipe
    BY <1>1, <1>2, <2>1, MoreRoom DEF OrderInv
  <2>2. CASE ~UNCHANGED pipe
    <3>1. PICK line \in Int :
            Write(line) /\ (line < 0 \/ (Highest <= line /\ line <= Highest'))
      BY <2>2
    <3>2. pipe'[1] = Append(pipe[1], line) /\ pipe'[2] = pipe[2]
      BY <3>1, Hops DEF Write, Inv, LinesInv
    <3>3. Ordered(Append(pipe[1], line), Known, Highest')
      BY <1>1, <1>2, <3>1, AppendOrdered DEF OrderInv
    <3> QED BY <3>2, <3>3
  <2> QED BY <2>1, <2>2
<1>5. Known' <= Highest'
  BY <1>1, <1>2, <1>3
<1>6. Ordered(pipe[1], Known, Highest)' = Ordered(pipe'[1], Known', Highest')
  BY DEF Ordered
<1>7. Ordered(pipe[2], bar[2], Known)' = Ordered(pipe'[2], bar'[2], Known')
  BY DEF Ordered
<1> QED BY <1>3, <1>4, <1>5, <1>6, <1>7 DEF OrderInv

\* A collector takes the first line; a percentage moves the bar up to it, and that
\* of the first agent is printed on behind what it had printed.
LEMMA CollectOrder ==
  ASSUME Inv, ShownInv, ShownInv', Inv', OrderInv, NEW h \in Hop, Collect(h)
  PROVE  /\ OrderInv'
         /\ bar'[Final] >= bar[Final]
<1> DEFINE line == Head(pipe[h])
<1>1. /\ RolesInv /\ Highest \in Int /\ Known \in Int /\ Known <= Highest
      /\ \A i \in Hop : pipe[i] \in Seq(Int) /\ bar[i] \in Int
      /\ bar \in [Hop -> Int] /\ pipe \in [Hop -> Seq(Int)]
  <2>1. RolesInv /\ Known <= Highest
    BY DEF OrderInv
  <2> QED BY ZenonT(60), <2>1, Ranges
<1>2. /\ pipe[h] # <<>> /\ line \in Int
      /\ UNCHANGED <<role, api, phase, last, Highest>>
  BY <1>1 DEF Collect, agentVars, Highest
<1>3. /\ Ordered(pipe[1], Known, Highest)
      /\ role # "vm" => bar[2] <= Known /\ Ordered(pipe[2], bar[2], Known)
  BY DEF OrderInv
<1>4. SUFFICES /\ RolesInv' /\ Known' <= Highest
               /\ Ordered(pipe'[1], Known', Highest)
               /\ role # "vm" => bar'[2] <= Known' /\ Ordered(pipe'[2], bar'[2], Known')
               /\ bar'[Final] >= bar[Final]
  <2>1. Ordered(pipe[1], Known, Highest)' = Ordered(pipe'[1], Known', Highest')
    BY DEF Ordered
  <2>2. Ordered(pipe[2], bar[2], Known)' = Ordered(pipe'[2], bar'[2], Known')
    BY DEF Ordered
  <2> QED BY <1>2, <2>1, <2>2 DEF OrderInv
<1>5. Final \in Hop /\ (role = "vm" => Final = 1) /\ (role # "vm" => Final = 2)
  BY Hops DEF Final
<1>6. CASE coll[h] = "parsing" /\ line >= 0
  <2> DEFINE old == IF bar[h] = NoValue THEN 0 ELSE bar[h]
             new == old + (line - sum[h])
  <2>1. Show(h, line)
    BY <1>6 DEF Collect
  <2>2. old = sum[h] /\ sum[h] \in Nat
    BY DEF Inv, BarsInv, BarExact
  <2>3. new = line
    BY <1>2, <2>2
  <2>4. bar' = [bar EXCEPT ![h] = line]
    BY <2>1, <2>3 DEF Show
  <2>5. pipe' = [i \in Hop |->
                   CASE i = h -> Tail(pipe[h])
                     [] i = 2 /\ h < Final ->
                          pipe[2] \o (IF bar[h] = NoValue THEN <<line>> ELSE <<bar[h], line>>)
                     [] OTHER -> pipe[i]]
    BY <2>1, <2>3 DEF Show
  <2>6. CASE h = 1
    <3>1. bar'[1] = line /\ bar'[2] = bar[2] /\ Known' = line
      BY <1>1, <1>2, <1>6, <2>4, <2>6, Hops DEF Known
    <3>2. /\ Known <= line /\ line <= Highest
          /\ Ordered(Tail(pipe[1]), line, Highest)
      BY <1>1, <1>2, <1>3, <1>6, <2>6, TailOrdered
    <3>3. pipe'[1] = Tail(pipe[1])
      BY <2>5, <2>6, Hops
    <3>4. RolesInv'
      BY <1>1, <1>2, <1>6, <3>1 DEF RolesInv
    <3>5. CASE role = "vm"
      <4>1. bar[1] # NoValue
        BY <1>1, <3>5 DEF RolesInv
      <4>2. bar[1] <= line
        BY <3>2, <4>1 DEF Known
      <4> QED BY <1>1, <1>2, <1>5, <3>1, <3>2, <3>3, <3>4, <3>5, <4>2
    <3>6. CASE role # "vm"
      <4>1. bar[2] <= Known /\ Ordered(pipe[2], bar[2], Known)
        BY <1>3, <3>6
      <4>2. pipe[2] \in Seq(Int) /\ bar[2] \in Int /\ bar[1] \in Int
        BY <1>1, Hops
      <4>3. Ordered(pipe'[2], bar[2], line)
        <5> HIDE DEF line, old, new
        <5>1. CASE bar[1] = NoValue
          <6>1. pipe'[2] = pipe[2] \o <<line>>
            BY <1>5, <2>5, <2>6, <3>6, <5>1, Hops
          <6>2. Ordered(pipe[2] \o <<line>>, bar[2], line)
            BY ZenonT(60), <1>1, <1>2, <3>2, <4>1, <4>2, PrintedOrdered
          <6> QED BY <6>1, <6>2
        <5>2. CASE bar[1] # NoValue
          <6>1. pipe'[2] = pipe[2] \o <<bar[1], line>>
            BY <1>5, <2>5, <2>6, <3>6, <5>2, Hops
          <6>2. Known = bar[1]
            BY <5>2 DEF Known
          <6>3. Ordered(pipe[2] \o <<Known, line>>, bar[2], line)
            BY ZenonT(60), <1>1, <1>2, <3>2, <4>1, <4>2, PrintedOrdered
          <6> QED BY <6>1, <6>2, <6>3
        <5> QED BY <5>1, <5>2
      <4>4. bar[2] <= line
        BY <1>1, <1>2, <3>2, <4>1, <4>2
      <4> QED BY <1>5, <3>1, <3>2, <3>3, <3>4, <3>6, <4>2, <4>3, <4>4
    <3> QED BY <3>5, <3>6
  <2>7. CASE h = 2
    <3>1. bar'[2] = line /\ bar'[1] = bar[1] /\ Known' = Known
      BY <1>1, <2>4, <2>7, Hops DEF Known
    <3>2. pipe'[1] = pipe[1] /\ pipe'[2] = Tail(pipe[2])
      <4>1. ~(h < Final)
        BY <2>7 DEF Final
      <4> QED BY <2>5, <2>7, <4>1, Hops
    <3>3. RolesInv'
      BY <1>1, <1>2, <3>1 DEF RolesInv
    <3>4. role # "vm" => /\ bar[2] <= line /\ line <= Known
                         /\ Ordered(Tail(pipe[2]), line, Known)
      BY <1>1, <1>2, <1>3, <1>6, <2>7, TailOrdered, Hops
    <3>5. bar'[Final] >= bar[Final]
      BY <1>1, <1>5, <3>1, <3>4, Hops
    <3> QED BY <1>1, <1>3, <3>1, <3>2, <3>3, <3>4, <3>5
  <2> QED BY <2>6, <2>7, Hops
<1>7. CASE ~(coll[h] = "parsing" /\ line >= 0)
  <2>1. pipe' = [pipe EXCEPT ![h] = Tail(@)] /\ UNCHANGED bar
    BY <1>7 DEF Collect
  <2>2. Known' = Known /\ RolesInv'
    BY <1>1, <1>2, <2>1 DEF Known, RolesInv
  <2>3. \A i \in Hop : pipe'[i] = IF i = h THEN Tail(pipe[h]) ELSE pipe[i]
    BY <1>1, <2>1
  <2>4. Ordered(pipe'[1], Known, Highest)
    BY <1>1, <1>2, <1>3, <2>3, Hops, TailOrdered
  <2>5. role # "vm" => Ordered(pipe'[2], bar[2], Known)
    BY <1>1, <1>2, <1>3, <2>3, Hops, TailOrdered
  <2> QED BY <1>1, <1>3, <1>5, <2>1, <2>2, <2>4, <2>5
<1> QED BY <1>6, <1>7

\* The bar the user sees never goes back, however lines of several agents and of
\* two collectors come in between, if what other programs print does not look like
\* a percentage.
THEOREM BarGoesForward ==
  ASSUME Strays \cap (0..100) = {}
  PROVE  Spec => BarNeverBack
<1>1. Init => OrderInv
  <2> SUFFICES ASSUME Init PROVE OrderInv
    OBVIOUS
  <2>1. /\ phase = "refresh" /\ last = Begin /\ role \in {"vm", "updatevm"}
        /\ bar[1] = 0 /\ bar[2] \in {NoValue, 0} /\ pipe[1] = <<>> /\ pipe[2] = <<>>
    BY Hops DEF Init, Begin
  <2>2. Begin \in 0..55
    BY Weights
  <2>3. RolesInv
    BY <2>1, <2>2 DEF RolesInv
  <2>4. Known = 0 /\ Highest = Begin
    BY <2>1 DEF Known, Highest
  <2> QED BY <2>1, <2>2, <2>3, <2>4, EmptyOrdered DEF OrderInv
<1>2. Inv /\ ShownInv /\ Inv' /\ ShownInv' /\ OrderInv /\ [Next]_vars
        => OrderInv' /\ [bar[Final]' >= bar[Final]]_vars
  <2> SUFFICES ASSUME Inv, ShownInv, Inv', ShownInv', OrderInv, [Next]_vars
               PROVE  OrderInv' /\ bar[Final]' >= bar[Final]
    OBVIOUS
  <2>1. /\ RolesInv /\ Known <= Highest /\ Highest \in Int /\ Known \in Int
        /\ \A h \in Hop : bar[h] \in Int
    <3>1. RolesInv /\ Known <= Highest
      BY DEF OrderInv
    <3> QED BY ZenonT(60), <3>1, Ranges
  <2>2. Final \in Hop /\ bar[Final] >= bar[Final]
    BY <2>1, Hops DEF Final
  <2>3. UNCHANGED <<role, bar>> => bar[Final]' >= bar[Final]
    BY <2>2 DEF Final
  <2>4. CASE Agent /\ ~Second
    BY <2>1, <2>3, <2>4, AgentPrints, Printed
  <2>5. CASE Second
    <3>1. /\ role = "updatevm" /\ phase = "exited" /\ pipe[1] = <<>>
          /\ role' = "dom0" /\ phase' = "install" /\ last' = Start(api', "install")
          /\ api' # "apt" /\ UNCHANGED pipe
          /\ bar' = [bar EXCEPT ![1] = NoValue]
      BY <2>5 DEF Second
    <3>2. bar \in [Hop -> Int] /\ pipe[2] \in Seq(Int)
      BY Hops DEF Inv, BarsInv, LinesInv
    <3>3. bar'[1] = NoValue /\ bar'[2] = bar[2] /\ bar[2] \in Int
      BY <3>1, <3>2, Hops
    <3>4. last' = 55
      BY <3>1 DEF Start, FetchEnd
    <3>5. Highest = 55 /\ Highest' = 55 /\ Known' = 55
      BY <3>1, <3>3, <3>4 DEF Highest, Known
    <3>6. RolesInv'
      BY <3>1, <3>4 DEF RolesInv
    <3>7. Ordered(pipe'[1], Known', Highest') /\ Ordered(pipe'[2], bar'[2], Known')
          /\ bar'[2] <= Known'
      <4>1. bar[2] <= Known /\ Ordered(pipe[2], bar[2], Known)
        BY <3>1 DEF OrderInv
      <4>2. Known <= 55
        BY <2>1, <3>5
      <4>3. Ordered(pipe[2], bar[2], 55)
        BY <2>1, <3>2, <4>1, <4>2, MoreRoom
      <4>4. bar[2] <= 55
        BY <2>1, <3>3, <4>1, <4>2
      <4> QED BY <3>1, <3>3, <3>5, <4>3, <4>4, EmptyOrdered
    <3>8. OrderInv'
      <4>1. Ordered(pipe[1], Known, Highest)' = Ordered(pipe'[1], Known', Highest')
        BY DEF Ordered
      <4>2. Ordered(pipe[2], bar[2], Known)' = Ordered(pipe'[2], bar'[2], Known')
        BY DEF Ordered
      <4> QED BY <3>5, <3>6, <3>7, <4>1, <4>2 DEF OrderInv
    <3>9. bar[Final]' >= bar[Final]
      BY <3>1, <3>3 DEF Final
    <3> QED BY <3>8, <3>9
  <2>6. CASE Fail
    <3>1. /\ Write(Text) /\ phase \in {"refresh", "fetch", "install"} /\ phase' = "failed"
          /\ UNCHANGED <<role, last, bar>>
      BY <2>6 DEF Fail, Running
    <3>2. Highest' = Highest
      BY <3>1 DEF Highest
    <3>3. RolesInv'
      BY <2>1, <3>1 DEF RolesInv
    <3>4. Text \in Int /\ Text < 0
      BY DEF Text
    <3>5. OrderInv'
      BY <2>1, <3>1, <3>2, <3>3, <3>4, Printed
    <3> QED BY <2>3, <3>1, <3>5
  <2>7. CASE Stray
    <3>1. PICK line \in Strays : Write(line)
      BY <2>7 DEF Stray
    <3>2. line \in Int /\ line < 0
      BY ProgressAssumption DEF Text, Blank
    <3>3. UNCHANGED <<role, api, phase, last, bar>>
      BY <2>7 DEF Stray, agentVars
    <3>4. Highest' = Highest /\ RolesInv'
      BY <2>1, <3>3 DEF Highest, RolesInv
    <3>5. OrderInv'
      BY <2>1, <3>1, <3>2, <3>3, <3>4, Printed
    <3> QED BY <2>3, <3>3, <3>5
  <2>8. CASE \E h \in Hop : Collect(h)
    <3>1. PICK h \in Hop : Collect(h)
      BY <2>8
    <3>2. UNCHANGED role
      BY <3>1 DEF Collect, agentVars
    <3>3. bar[Final]' = bar'[Final]
      BY <3>2 DEF Final
    <3> QED BY <3>1, <3>3, CollectOrder
  <2>9. CASE UNCHANGED vars
    <3>1. UNCHANGED <<role, api, phase, last, bar, pipe>>
      BY <2>9 DEF vars, agentVars
    <3>2. Highest' = Highest /\ RolesInv'
      BY <2>1, <3>1 DEF Highest, RolesInv
    <3>3. OrderInv'
      BY <2>1, <3>1, <3>2, Printed
    <3> QED BY <2>3, <3>1, <3>3
  <2> QED BY <2>4, <2>5, <2>6, <2>7, <2>8, <2>9 DEF Next, Terminated
<1> QED BY <1>1, <1>2, ProgressInvHolds, ShownInvHolds, PTL DEF Spec, BarNeverBack
================================================================================
