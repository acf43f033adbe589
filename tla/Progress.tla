-------------------------------- MODULE Progress --------------------------------
(***************************************************************************)
(* Progress reporting, from the callbacks of a package manager to the bar  *)
(* the user sees.  An agent prints the percentages of its Progress objects *)
(* to stderr (progress_reporter.py, dnf_api.py, dnf5_api.py, apt_api.py);  *)
(* _collect_stderr of qube_connection.py reads them and feeding() of       *)
(* update_manager.py moves the bar.  A dom0 update is two agents, one in   *)
(* the UpdateVM and one in dom0, each below a qubes-vm-update of its own   *)
(* whose SimpleTerminalBar prints what a second collector reads.           *)
(***************************************************************************)
EXTENDS Integers, Sequences, FiniteSets

CONSTANTS
  Apis,         \* a subset of {"apt", "dnf", "dnf5", "cli"}
  Packages,     \* the packages downloaded and installed
  Size,         \* bytes of a package
  Repos,        \* enabled repositories
  Strays,       \* lines other programs print to the agent's stderr
  MaxRestarts,  \* bound: downloads that start again from another mirror
  MaxStrays,    \* bound: stray lines
  PipeSize      \* lines of stderr written and not yet read

\* Lines of stderr: a percentage, words that do not end in a number, spaces.
Text == -1
Blank == -2

ASSUME ProgressAssumption ==
  /\ IsFiniteSet(Packages)
  /\ Apis \subseteq {"apt", "dnf", "dnf5", "cli"}
  /\ Size \in Nat \ {0} /\ Repos \in Nat \ {0} /\ PipeSize \in Nat \ {0}
  /\ Strays \subseteq (0..100) \cup {Text, Blank}
  /\ MaxRestarts \in Nat /\ MaxStrays \in Nat

VARIABLES
  role,      \* what the running agent is for: AgentType
  api,       \* the package manager it uses
  phase,     \* the Progress object in use; "exited" or "failed" after main()
  last,      \* its _last_percent
  toFetch,   \* FetchProgress.bytes_to_fetch
  fetched,   \* FetchProgress.bytes_fetched
  got,       \* FetchProgress.package_bytes
  real,      \* the bytes of each package that were really downloaded
  item,      \* the packages installed
  restarts,
  strays,
  pipe,      \* pipe[h]: the stderr the collector of hop h reads
  coll,      \* coll[h]: that collector; it stops parsing after 100.0
  bar,       \* bar[h]: SimpleTerminalBar.progress, NoValue for None
  sum        \* sum[h]: MultipleUpdateMultipleProgressBar.progresses

agentVars == <<role, api, phase, last, toFetch, fetched, got, real, item, restarts>>
vars == <<agentVars, strays, pipe, coll, bar, sum>>

NoValue == -1
Hop == 1..2

Running == phase \in {"refresh", "fetch", "install"}

\* The hop whose bar the user sees.
Final == IF role = "vm" THEN 1 ELSE 2

\* Where the phases start and stop: the weights, which add up to 100.
UpdateEnd(a) == CASE a = "apt" -> 4 [] a = "dnf" -> 10 [] OTHER -> 0
FetchEnd(a) == IF a = "apt" THEN 52 ELSE 55
Start(a, p) == CASE p = "refresh" -> 0 [] p = "fetch" -> UpdateEnd(a) [] OTHER -> FetchEnd(a)
Stop(a, p) == CASE p = "refresh" -> UpdateEnd(a) [] p = "fetch" -> FetchEnd(a) [] OTHER -> 100

\* num / den of a phase, on the scale of the whole update.
Scaled(num, den) ==
  Start(api, phase) + (num * (Stop(api, phase) - Start(api, phase))) \div den

CanWrite == Len(pipe[1]) < PipeSize
Write(line) == pipe' = [pipe EXCEPT ![1] = Append(@, line)]

\* notify_callback: only what is more than the last percentage is printed.
Notify(num, den) ==
  LET p == Scaled(num, den) IN
    IF last < p THEN Write(p) /\ last' = p ELSE UNCHANGED <<pipe, last>>

\* The bar of a qubes-vm-update for dom0 skips 0 (reset): it has no value yet.
Init ==
  /\ role \in {"vm", "updatevm"}
  /\ api \in IF role = "vm" THEN Apis ELSE Apis \ {"apt"}
  /\ phase = "refresh"
  /\ last = Start(api, "refresh")
  /\ toFetch = 0 /\ fetched = 0
  /\ got = [p \in Packages |-> 0]
  /\ real = [p \in Packages |-> 0]
  /\ item = 0
  /\ restarts = 0 /\ strays = 0
  /\ pipe = [h \in Hop |-> <<>>]
  /\ coll = [h \in Hop |-> "parsing"]
  /\ bar = [h \in Hop |-> IF h = 2 /\ role = "updatevm" THEN NoValue ELSE 0]
  /\ sum = [h \in Hop |-> 0]

--------------------------------------------------------------------------------
Fetched ==
  /\ api \in {"dnf", "dnf5"} => toFetch > 0 /\ \A p \in Packages : real[p] = Size
  /\ api = "apt" => last = Stop(api, "fetch")

Installed ==
  /\ api \in {"dnf", "dnf5"} => item = Cardinality(Packages)
  /\ api = "apt" => last = 100

Over == phase = "failed" \/ (phase = "exited" /\ role # "updatevm")

\* A dead collector leaves the agent blocked when the pipe is full.
Stuck == \E h \in Hop : coll[h] = "dead"

\* Slips a change to the code could make; each breaks a property below.

\* A restarted download is counted as dnf5_api.py does.
DnfProgress_Ahead(p, done) ==
  /\ api = "dnf"
  /\ fetched' = fetched + done - got[p]
  /\ got' = [got EXCEPT ![p] = IF done > @ THEN done ELSE @]
  /\ Notify(fetched', toFetch)

\* main() leaves the end to the progress callbacks.
Finish_Silent ==
  /\ \/ phase = "install" /\ Installed
     \/ phase = "fetch" /\ role = "updatevm" /\ Fetched
  /\ CanWrite
  /\ phase' = "exited"
  /\ UNCHANGED <<role, api, last, toFetch, fetched, got, real, item, restarts,
                 strays, pipe, coll, bar, sum>>

\* The bar of the second agent starts with 0.
Second_Zero ==
  /\ role = "updatevm" /\ phase = "exited" /\ pipe[1] = <<>> /\ coll[1] # "dead"
  /\ role' = "dom0"
  /\ api' \in Apis \ {"apt"}
  /\ phase' = "install" /\ last' = Start(api', "install")
  /\ bar' = [bar EXCEPT ![1] = 0]
  /\ sum' = [sum EXCEPT ![1] = 0]
  /\ coll' = [coll EXCEPT ![1] = "parsing"]
  /\ UNCHANGED <<toFetch, fetched, got, real, item, restarts, strays, pipe>>

\* The collector polls on after 100.0 without reading.
Collect_Once(h) ==
  /\ pipe[h] # <<>>
  /\ IF coll[h] = "parsing"
     THEN /\ pipe' = [pipe EXCEPT ![h] = Tail(@)]
          /\ bar' = IF Head(pipe[h]) >= 0 THEN [bar EXCEPT ![h] = Head(pipe[h])] ELSE bar
          /\ coll' = IF Head(pipe[h]) = 100 THEN [coll EXCEPT ![h] = "passing"] ELSE coll
     ELSE UNCHANGED <<pipe, bar, coll>>
  /\ UNCHANGED <<agentVars, strays, sum>>

\* progresses keeps its first value.
Show_NoSum(h, v) ==
  /\ bar' = [bar EXCEPT ![h] = (IF bar[h] = NoValue THEN 0 ELSE bar[h]) + v - sum[h]]
  /\ UNCHANGED sum
  /\ pipe' = [pipe EXCEPT ![h] = Tail(@)]

--------------------------------------------------------------------------------
(***************************************************************************)
(* The agent.                                                              *)
(***************************************************************************)
\* The next phase's Progress object, which starts where this one stops.
Enter(p) ==
  /\ phase' = p
  /\ last' = Start(api, p)
  /\ toFetch' = 0 /\ fetched' = 0
  /\ UNCHANGED <<role, api, got, real, item, restarts, strays, coll, bar, sum>>

\* refresh of dnf: each repository counts one before it is loaded.
RefreshRepo ==
  /\ phase = "refresh" /\ api = "dnf" /\ fetched < Repos
  /\ CanWrite
  /\ fetched' = fetched + 1 /\ toFetch' = Repos
  /\ Notify(fetched', toFetch')
  /\ UNCHANGED <<role, api, phase, got, real, item, restarts, strays, coll, bar, sum>>

\* Apt reports any part of what it knows of; its stop() reports the whole.
Pulse ==
  /\ phase \in {"refresh", "fetch", "install"} /\ api = "apt"
  /\ CanWrite
  /\ \E part \in 1..Size : Notify(part, Size)
  /\ UNCHANGED <<role, api, phase, toFetch, fetched, got, real, item, restarts,
                 strays, coll, bar, sum>>

RefreshEnd ==
  /\ phase = "refresh"
  /\ api = "dnf" => fetched = Repos
  /\ api = "apt" => last = Stop(api, phase)
  /\ Enter("fetch")
  /\ UNCHANGED pipe

\* add_new_download of dnf5 and start of dnf: the sizes come before any byte.
FetchStart ==
  /\ phase = "fetch" /\ api \in {"dnf", "dnf5"} /\ toFetch = 0
  /\ toFetch' = Size * Cardinality(Packages)
  /\ UNCHANGED <<role, api, phase, last, fetched, got, real, item, restarts,
                 strays, pipe, coll, bar, sum>>

\* FetchProgress.progress of dnf_api.py.
DnfProgress(p, done) ==
  /\ api = "dnf"
  /\ fetched' = fetched + done - got[p]
  /\ got' = [got EXCEPT ![p] = done]
  /\ Notify(fetched', toFetch)

\* FetchProgress.progress of dnf5_api.py: what was lost is taken off, but not
\* forgotten, when a download starts again.
Dnf5Progress(p, downloaded) ==
  /\ api = "dnf5"
  /\ fetched' = fetched + downloaded - got[p]
  /\ IF downloaded > got[p]
     THEN got' = [got EXCEPT ![p] = downloaded] /\ Notify(fetched', toFetch)
     ELSE UNCHANGED <<got, last, pipe>>

\* More of a package arrives, or its download starts again at another mirror.
Fetch(p) ==
  /\ phase = "fetch" /\ toFetch > 0 /\ CanWrite
  /\ \/ real[p] < Size /\ real' = [real EXCEPT ![p] = @ + 1] /\ UNCHANGED restarts
     \/ /\ real[p] \in 1..(Size - 1) /\ restarts < MaxRestarts
        /\ real' = [real EXCEPT ![p] = 0] /\ restarts' = restarts + 1
  /\ DnfProgress(p, real'[p]) \/ Dnf5Progress(p, real'[p])
  /\ UNCHANGED <<role, api, phase, toFetch, item, strays, coll, bar, sum>>

\* The UpdateVM only downloads.
FetchFinished ==
  /\ phase = "fetch" /\ role = "vm" /\ Fetched
  /\ Enter("install")
  /\ UNCHANGED pipe

\* elem_progress and (un)install_progress of dnf5, progress of dnf: `part` of
\* the bytes of one more package; dnf does not report every action.
Install ==
  /\ phase = "install" /\ api \in {"dnf", "dnf5"} /\ item < Cardinality(Packages)
  /\ CanWrite
  /\ \E part \in 0..Size, reported \in BOOLEAN :
       /\ IF reported
          THEN Notify(item * Size + part, Size * Cardinality(Packages))
          ELSE UNCHANGED <<pipe, last>>
       /\ item' = IF part = Size THEN item + 1 ELSE item
  /\ UNCHANGED <<role, api, phase, toFetch, fetched, got, real, restarts,
                 strays, coll, bar, sum>>

\* main() reports the end itself for an agent without progress reporting.
Finish ==
  /\ \/ phase = "install" /\ Installed
     \/ phase = "fetch" /\ role = "updatevm" /\ Fetched
  /\ CanWrite
  /\ IF api = "cli" THEN Write(IF role = "updatevm" THEN 55 ELSE 100)
                    ELSE UNCHANGED pipe
  /\ phase' = "exited"
  /\ UNCHANGED <<role, api, last, toFetch, fetched, got, real, item, restarts,
                 strays, coll, bar, sum>>

\* An error ends the agent, which writes what is wrong.
Fail ==
  /\ Running /\ CanWrite
  /\ Write(Text)
  /\ phase' = "failed"
  /\ UNCHANGED <<role, api, last, toFetch, fetched, got, real, item, restarts,
                 strays, coll, bar, sum>>

\* A package manager or a scriptlet prints to the same stderr.
Stray ==
  /\ Running /\ strays < MaxStrays /\ CanWrite
  /\ \E line \in Strays : Write(line)
  /\ strays' = strays + 1
  /\ UNCHANGED <<agentVars, coll, bar, sum>>

\* qubes-dom0-update runs the second agent, whose bar skips 0 (reset): it goes
\* on where the download stopped.  There is no refresh and nothing to fetch.
Second ==
  /\ role = "updatevm" /\ phase = "exited" /\ pipe[1] = <<>> /\ coll[1] # "dead"
  /\ role' = "dom0"
  /\ api' \in Apis \ {"apt"}
  /\ phase' = "install" /\ last' = Start(api', "install")
  /\ bar' = [bar EXCEPT ![1] = NoValue]
  /\ sum' = [sum EXCEPT ![1] = 0]
  /\ coll' = [coll EXCEPT ![1] = "parsing"]
  /\ UNCHANGED <<toFetch, fetched, got, real, item, restarts, strays, pipe>>

--------------------------------------------------------------------------------
(***************************************************************************)
(* The collector, the feeding loop and the bar of a hop.                   *)
(***************************************************************************)
\* _update adds the difference to the bar; a new description prints the bar
\* as it is first, unless it has no value yet.
Show(h, v) ==
  LET old == IF bar[h] = NoValue THEN 0 ELSE bar[h]
      new == old + (v - sum[h])
  IN  /\ bar' = [bar EXCEPT ![h] = new]
      /\ sum' = [sum EXCEPT ![h] = v]
      /\ pipe' = [i \in Hop |->
           CASE i = h -> Tail(pipe[h])
             [] i = 2 /\ h < Final ->
                  pipe[2] \o (IF bar[h] = NoValue THEN <<new>> ELSE <<bar[h], new>>)
             [] OTHER -> pipe[i]]

\* A line of words is only passed on, and every line is after 100.0.  Spaces
\* raise IndexError, which leaves the pipe to nobody.
Collect(h) ==
  /\ pipe[h] # <<>> /\ coll[h] # "dead"
  /\ h < Final => Len(pipe[2]) < PipeSize
  /\ LET line == Head(pipe[h]) IN
       IF coll[h] = "parsing" /\ line >= 0
       THEN /\ Show(h, line)
            /\ coll' = IF line = 100 THEN [coll EXCEPT ![h] = "passing"] ELSE coll
       ELSE /\ pipe' = [pipe EXCEPT ![h] = Tail(@)]
            /\ coll' = IF coll[h] = "parsing" /\ line = Blank
                       THEN [coll EXCEPT ![h] = "dead"] ELSE coll
            /\ UNCHANGED <<bar, sum>>
  /\ UNCHANGED <<agentVars, strays>>

Terminated == (Over \/ Stuck) /\ UNCHANGED vars

Agent == \/ RefreshRepo \/ Pulse \/ RefreshEnd \/ FetchStart
         \/ \E p \in Packages : Fetch(p)
         \/ FetchFinished \/ Install \/ Finish \/ Second

Next == Agent \/ Fail \/ Stray \/ (\E h \in Hop : Collect(h)) \/ Terminated

\* Package managers end, and the threads that read their output are scheduled.
\* Nothing has to fail or to print what it need not.
Fairness == WF_vars(Agent) /\ \A h \in Hop : WF_vars(Collect(h))

Spec == Init /\ [][Next]_vars /\ Fairness

--------------------------------------------------------------------------------
TypeOK ==
  /\ role \in {"vm", "updatevm", "dom0"} /\ api \in Apis
  /\ phase \in {"refresh", "fetch", "install", "exited", "failed"}
  /\ last \in 0..100
  /\ toFetch \in Nat /\ fetched \in Int
  /\ got \in [Packages -> 0..Size] /\ real \in [Packages -> 0..Size]
  /\ item \in 0..Cardinality(Packages)
  /\ restarts \in 0..MaxRestarts /\ strays \in 0..MaxStrays
  /\ pipe \in [Hop -> Seq(Int)]
  /\ coll \in [Hop -> {"parsing", "passing", "dead"}]
  /\ bar \in [Hop -> Int] /\ sum \in [Hop -> Int]

\* The bar is moved by differences, through two objects that each remember
\* where it is; they never disagree, also when the bar has no value.
BarExact == \A h \in Hop : bar[h] = sum[h] \/ (bar[h] = NoValue /\ sum[h] = 0)

\* The bar the user sees never goes back: neither when a download starts again
\* nor from one phase or one agent to the next, the second of which may be of
\* another package manager and below another qubes-vm-update.
BarNeverBack == [][bar[Final]' >= bar[Final]]_vars

\* A download that is complete is shown as complete, also when parts of it were
\* fetched twice.  (dnf5_api.py takes what was fetched twice off for good: its
\* downloads are held to it only if none started again.)
FetchShown ==
  phase = "fetch" /\ Fetched /\ api # "cli" /\ (api = "dnf5" => restarts = 0)
    => last = Stop(api, phase)

\* An update through a manager that reports no progress, or with apt, ends
\* with a full bar.
EndShown ==
  /\ phase = "exited" /\ role # "updatevm" /\ api \in {"apt", "cli"}
  /\ pipe = [h \in Hop |-> <<>>] /\ ~Stuck
  => bar[Final] = 100

\* An agent is never left writing to a pipe nobody reads, unless its collector
\* died of a line of spaces.
AgentEnds == <>(Over \/ Stuck)
================================================================================
