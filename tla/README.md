# Verification of the Qubes updater

TLA+ models of `qubes-core-admin-linux`, the dom0 side of Qubes OS. They cover
`vmupdate/`, that is `qubes-vm-update`, the process pool that runs one update
session per qube, the session, the agent inside the qube, the progress it reports
and what is done to the qubes derived from updated templates; and
`dom0-updates/`, which updates dom0 itself. Paths below are relative to `src/`.

## Inventory

| Component | State it keeps | Operations | Talks to |
|---|---|---|---|
| Command line, `vmupdate/vmupdate.py` | options, targets, `no_updates`, one code per batch | `parse_args`, `preselect_targets`, `select_targets`, `main`, `run_update` | qubesadmin; `UpdateManager.run` three times; `apply_updates_to_appvm` |
| Applying updates, same file and `utils.py` | the sets to restart and to shut down, the qubes waited for, a return code | `apply_updates_to_appvm`, `get_derived_vm_to_apply`, `shutdown_domains`, `restart_vms` | qubesd, while users start and stop the same qubes |
| Update manager, `vmupdate/update_manager.py` | pool, status queue, termination flag, `left_to_finish`, statuses, `ret_code` | `run`, `feeding`, `signal_handler_during_feeding`, `collect_result`, `update_qube` | pool processes, a `multiprocessing.Manager` process, the result thread, SIGINT |
| Qube session, `vmupdate/qube_connection.py` | `_initially_running`, `status`, the uploaded files, the qube's power state | `__enter__`, `transfer_agent`, `run_entrypoint`, `read_logs`, `__exit__` | the qube (qrexec), the status queue, the flag |
| Agent, `vmupdate/agent/` | a `ProcessResult`, the package database | `entrypoint.main`, `PackageManager.upgrade` and its stages for apt, dnf, dnf5, pacman | package managers, its exit code |
| Progress reporting, `agent/source/common/progress_reporter.py`, the APIs' callbacks, `_collect_stderr`, the bars of `update_manager.py` | last percentage and weights of three phases, bytes per package, the bar's value in two objects | `notify_callback`, fetch, upgrade, remove callbacks; the collector thread; `_update` | the agent's stderr, the status queue, the terminal |
| dom0 download, `dom0-updates/` | lock file, `/var/lib/qubes/updates`, an errors file, the feature `updates-available` | `qubes-dom0-update`, `qubes-receive-updates`, a cron job | the UpdateVM, dnf, rpmkeys |
| Agent plugins, C unpacker, dracut, suspend hooks, qrexec services, packaging | none across calls | scripts | - |

How they interact: `main` splits the targets into three batches (dom0, then
TemplateVMs and StandaloneVMs, then the rest) and calls `UpdateManager.run` for
each. `run` submits one `update_qube` task per qube to a pool of
`--max-concurrency` processes, then reads status messages in `feeding` until it
has counted a `DONE` for each progress bar, joins the pool and computes a code
from what `collect_result` folded on the pool's result thread. A task opens a
`QubeConnection`, uploads the agent, checks the termination flag, runs the agent,
reads its logs, and in `__exit__` reports `DONE`, removes the files and restores
the power state. `main` folds the codes of the batches, and for updated templates
calls `apply_updates_to_appvm`. The session for dom0 runs `qubes-dom0-update`,
which runs an agent in the UpdateVM that only downloads, waits for
`qubes-receive-updates` to verify what that sends, and installs it.

What is hard in it:

* **Interleaving.** Pool processes, the feeding loop, the result thread and a
  signal handler share a queue, a flag and a code. Other users of the system start
  and stop qubes during a session and while changes are applied. Runs of
  `qubes-dom0-update`, cron's included, share a directory with a receiver that
  the UpdateVM can start at any time.
* **Failure.** A command in a qube can fail at any step, an exception can leave a
  session before, in or after its `with` block, qubesd can refuse any call, a
  receiver can be killed, dom0 can go down between two steps of its update.
* **Ordering.** `DONE` is sent before the cleanup that can still fail; derived
  qubes are chosen before the templates are shut down; `ret_code` is read after
  `join`; a file lies in the shared directory before it is verified.
* **Codes.** Everything becomes one exit code by `max`, in which 100 means no
  updates, 130 means interrupted, and a negative code means killed.
* **Waiting.** `join`, the status queue, `wait_for_domain_shutdown` and the wait
  for the receiver have no timeout.

What makes each correct: a batch answers once, after every task, with a code that
covers all of them, and with 130 after a SIGINT; a cancelled qube was not touched;
a session says what it returns, removes what it uploaded and restores the power
state; targets are those the manual names, but for departures that are known; nobody's qube is shut down in vain,
service qubes come back, and code 0 means that nothing runs without its update;
the agent reports its errors, upgrades nothing on top of one, and changes nothing
in an UpdateVM; `main` neither loses a failure nor claims that nothing was updated
when something was; what is installed in dom0 was verified, a failed transfer
stops the run it was made for, and a run that succeeds has installed what it asked for; a bar shows what was reported, never goes back, and
nobody blocks for its sake.

## Modules

| Module | Models | Built on |
|---|---|---|
| `ExitCodes` | `exit_codes.py`, `FinalStatus`, the fold of `ProcessResult`, what `collect_result` and `_run_entrypoint` make of a code | - |
| `UpdateBatch` | abstract: what a batch promises | `ExitCodes` |
| `UpdateTask` | abstract: what one `update_qube` call promises | `ExitCodes` |
| `BatchPromise` | abstract, no state: the codes and statuses `run` may return, given how its tasks ended | `ExitCodes` |
| `UpdateManager` | `UpdateManager.run` with pool, queue, flag and signal handler; a session is a few steps | implements `UpdateBatch` and, per qube, `UpdateTask`; keeps `BatchPromise` |
| `QubeConnection` | one `update_qube` call in detail, with the qube and its users | implements `UpdateTask` |
| `VmUpdate` | `main`: three batches, each anything `BatchPromise` allows | uses `BatchPromise` |
| `ApplyUpdates` | `apply_updates_to_appvm` with qubes, qubesd and users | `ExitCodes` |
| `Targets` | `preselect_targets`, `select_targets` | - |
| `PackageManagers` | how the agent chooses a package manager, and the outcomes of refresh, upgrade and cleanup of each | `ExitCodes` |
| `Agent` | `entrypoint.main` and `PackageManager.upgrade` | `PackageManagers` |
| `Progress` | the callbacks of each API, the stderr protocol, its collector, the feeding loop's bars, for one agent or the two of a dom0 update | - |
| `Dom0Update` | `qubes-dom0-update`, `qubes-receive-updates`, the cron job, restarts of dom0 | - |
| `UpdateManager_proofs`, `QubeConnection_proofs`, `VmUpdate_proofs`, `ApplyUpdates_proofs`, `Targets_proofs`, `Agent_proofs`, `Progress_proofs`, `Dom0Update_proofs` | theorems about the module each is named for | TLAPS |
| `MC*` | instances for TLC | - |

The composition is by promise: `QubeConnection` implements `UpdateTask`, which is
all that `UpdateManager` uses of a session; `UpdateManager` keeps `BatchPromise`,
which is all that `VmUpdate` uses of a batch. Each link is a checked property
(`TaskSpec` twice, `PromiseKept`) and a proved theorem (`ImplementsTask`,
`ImplementsTasks`, `PromiseIsKept`), so what is proved of `main` rests on the
session and not on an assumption about it.

Operators whose name ends in a word after an underscore, `Lock_Forced` for
example, are slips: the definition as a plausible mistake would have it. No
specification uses one; they stand beside the definition they vary so that each
property can be shown to notice its mistake.

### UpdateManager

`mpc` is where the main process is: `submit` (the loop with `apply_async`), `feed`
(head of the feeding loop), `get` (blocked in `status_notifier.get`), `join`,
`done`. `task[q]` is where a task is, from `queued` through `started`, `session`,
`entry`, `leave`, `cleanup` (or `raised`) to `returned` and `collected`, which is
`collect_result`. Each action is one atomic step between two accesses to shared
state: `FeedingTurn` sends the request, `Feed` receives the message;
`CancelBeforeStart`/`OpenSession` and `Transfer` are the two looks at the flag.

`FeedNone` deserves a word. The handler installed by `signal(SIGINT, ...)` runs in
the main thread, so it can run while that thread waits for the reply of
`status_notifier.get()`. Queue and flag are proxies to the same Manager process
and share the thread's connection. The handler's `termination.value = True` sends a second request, reads the
first reply that comes (the status message) as its own, and returns; the
interrupted `get` then reads the reply of the `set`, which is `None`, and the loop
ignores `None` (`if feed is None: continue`). So the message is lost. The
Manager's thread for this connection handles requests in order, so the flag is set
when the `get` has been served.

### QubeConnection

`pc` is the statement; `power`, `starter` and `workdir` are the qube: commands
start a halted qube (`Reached`), a halt empties `/run` (`Halt`), users act in
between (`OtherStarts`, `OtherStops`). `workdir` may hold an agent of an earlier
session. `Mkdir` can also end in an exception, when the archive or the
temporary directory cannot be made. `kind` is dom0, a qube, or a qube with PCI devices, which `__exit__` waits
for. A command that fails may or may not have started the qube (`Attempted`).

### Targets

One state for the parsed arguments, one for the preselected qubes, one for the
selected. `QubeState` has all that the two functions read. `MCTargets` uses one
qube in every state plus a second, plain one that can be named, since qubes are
decided one by one except that naming any changes the rules for all. `Targeted` and
`Selected` are the manual page's words; `TargetedBesides` and `LeftOut` name the
departures of the code from them, so that `MatchesManual` can say that there are no
others.

### ApplyUpdates

`loop` says which of the three `shutdown_domains` calls runs, `todo` what its loop
has not come to, `waitFor` the qubes whose call returned, `awaited` those not yet
seen down. `committed` and `old` record which templates halted with the update and
which qubes still run without it. Choosing derived qubes is `Choose`, done at the
start, and again after a template could not be shut down, as in the code.

### Agent and PackageManagers

`PackageManagers` says how a system leads to one of six managers (`Systems`,
`GetPackageManager`) and what each can answer: an `Outcome` is the code after the
manager's own treatment of it, the codes its commands ended with and the packages it
leaves. The tools themselves are external; a package is its version, 0 for none and
2 for the newest. `Agent` runs the stages over these: `Query`, `Requirements` (a
plugin's), `Refresh`, `Upgrade`, `Compare`, `Clean`. With the dnf and dnf5 modules an
upgrade has more steps: `Downloaded`, then for dnf one `SignCheck` per package (the
check, the import of the key, which may raise, the second check, and the maximum kept
in `sign`), for dnf5 `SignaturesRefused` or not, then `Transact`. A query whose
command fails gives no packages, as nobody looks at its code. `failed`, `killed`,
`blind`, `refused` and `upgraded` remember what happened, whatever the codes say;
that is what the properties compare the exit code with.

### Progress

`phase` is the `Progress` object in use, `last` its `_last_percent`. `got` is what a
callback remembers of a package, `real` what was downloaded. A hop is a pipe with
the collector that reads it and the bar it moves: an agent in a qube has one hop; in
a dom0 update the bar of an inner `qubes-vm-update` prints the lines that a second
hop reads. The bar's value lives in two objects, `SimpleTerminalBar.progress` (`bar`)
and `progresses` (`sum`), and is moved by differences. `Second` is the second agent
of a dom0 update, with a new inner bar; the outer bar of a dom0 update starts without
a value. Other programs write to the same stderr
(`Stray`): a `Blank` line kills the collector's thread.

### Dom0Update

`pc[p]` is the step of a run, a user's or cron's: `provision`, `config`, then the
download, by the script (`script`) or by `qubes-vm-update` (`init`, `agent`,
`finish`), `sending` while its transfer goes on, `check` of the exit code, `wait` for
the receiver, `errors`, `repo`, `load`, `upgrade`, `after`. Each of these can fail on
its own, and what then happens to the exit code is the code's: `|| exit 1`, kept in
`RETCODE`, or lost behind `sed`. `rpc` is the step of the receiver, which a run's
download or the UpdateVM on its own (`ExtraTransfer`) starts. `rpm`, `repo`, `listed`
and `errors` are the directory, which outlives a `Restart`. A `File` has a good
signature or not. `cur` is the file that was copied and not yet verified. `Sent` lets
the download command end before the receiver has, and `Wait` is the loop on `pidof`.
`sender` and `failed` remember whom the last transfer was for and how it ended,
`asked` what a run's download is to bring, and `spoiled` that something failed of
which the run is not told. An interrupted command that outlives its shell has
inherited the lock file, so `Interrupt` stands for the end of both. Options that
change the control are kept: how the download is run (`path`), `--clean`, and whether
packages were named.

### VmUpdate

`pc` walks through the batches. `RunBatch` takes any ends of the tasks and any
return that `BatchPromise` allows for them. `report` is what `main` knows about a
qube, `ended` what is true.

## Runs

| Run | What it shows |
|---|---|
| `BatchInterrupted` | 3 qubes, 2 processes, failed transfers, exceptions at any point and one SIGINT: reported as 130; a failed agent or transfer is never hidden; the manager implements `UpdateBatch`. |
| `BatchFaults` | 2 qubes, 2 processes, exceptions before, in and after a session, two SIGINTs: the return code, untouched cancelled qubes, `PromiseKept`, every task an `UpdateTask`, and that the batch ends unless a SIGINT finds the loop blocked. |
| `Session` | dom0, a plain qube and one with PCI devices: last word and return value agree, power state restored, upload removed, the call returns, and it implements `UpdateTask`. |
| `TargetsManual` | Every qube state under every combination of options: targeted as the manual says but for three named departures, where `skip-update` is not involved; `--skip` always wins. |
| `Apply` | 2 templates with one derived qube each, refusals anywhere, one user stop and one user start: truthful codes, services back, no derived qube disturbed unless its template halted with the update, 0 means applied, it ends. |
| `AgentAll` | All systems, managers and options over two packages, commands ending with 0, 1, 100 or a signal: a hard failure stops the pipeline and keeps its code, the managers that can report their errors, no updates means no change, a refused signature stops the upgrade whatever the loop meets before and after it, an UpdateVM only downloads. |
| `MainBatches` | All target sets and options over dom0, a template, a standalone and an AppVM: no failure gets lost, an interrupt ends everything, 100 means no qube was updated, changes are applied for a reason, `main` crashes only after a session that raised. |
| `Progress` | Agents of four APIs, alone or as the two of a dom0 update, 2 packages, downloads that start again, lines of other programs: the two objects behind a bar agree, a complete download and a complete update are shown, the bar never goes back, no agent blocks on its stderr. |
| `Dom0` | A user's and cron's runs, a failed, repeated, unasked or killed transfer, interruptions and a restart of dom0: what is installed was verified, runs exclude each other, a failed transfer is noticed, a run that ends with 0 has installed what its download was to bring unless one of four things happened that it is not told of, the lock is given back. |
| `SigintBlocked` | violated: a SIGINT during `get` can cost a `DONE`, then the batch never ends. |
| `AgentAptUpgrade` | violated: apt-get's error code 100 is reported as no updates. |
| `MainQuietApply` | violated: `--apply-to-*` with `--quiet` ends in a `KeyError`. |

The inductive invariants are no properties of a run: they are proved. Each was
first given to TLC as an invariant, with the constants of its module's run.

`CHECK_DEADLOCK FALSE` stands where the program can stop for good: in
`BatchInterrupted`, `BatchFaults` and `SigintBlocked`, since the loop may wait for a
`DONE` that was lost, and in `Apply`, since a qube that halts and is started
again before the wait is set up is waited for until somebody stops it.

### Bounds, and why they are enough

* Batches: `Qubes` of two or three, `MaxConcurrency` below their number where
  queueing matters. Tasks interact only through the queue, the flag and the pool's
  capacity; two qubes give every order of two messages, a third one a task that
  waits. `MaxSigint` (1 or 2): a second SIGINT finds the handler waiting or the flag
  set. `MaxReports` (1 in `BatchFaults`, 0 elsewhere): a
  progress message only delays a `DONE`. Bars shared by several qubes (`DisplayName`) are
  left to the theorems. `EntryCodes`:
  success, nothing to update and an error.
* `Session`: `FailCodes` of two codes tell a code that is kept from one that is
  overwritten. Users may act any number of times.
* `Apply`: `MaxStarts`, `MaxStops` of one; two templates to have one that halts
  and one that does not, and a derived qube of each.
* `TargetsManual`: one qube in every state, and a plain one that can be named.
* `AgentAll`: one package that a plugin requires and one that none does;
  `RunCodes` has a member of each class the code tells apart.
* `MainBatches`: a qube of each batch and two of the one whose members differ;
  `Ends` has every way in which a task can end.
* `Progress`: `Packages` of two, whose bytes are added up; `Size` of 3, so that a
  download that starts again can be ahead of or behind what was reported;
  `Repos` of 2; `PipeSize` of 2, so that the pipe fills; `MaxRestarts`, `MaxStrays`
  of 2, so that one package can start again twice, or each once.
* `Dom0`: one package, which is good or bad in each transfer, one user beside cron;
  one `ExtraTransfer`, so that it meets a run's own; one restart. A second user
  brings no new interleaving past the lock and takes over twenty million states.

The theorems do not depend on these numbers.

### Fairness

`UpdateManager!FairSpec`: the main process runs on unless blocked, and a task goes
on, since its calls into the qube return. No SIGINT and no report is ever owed.
`QubeConnection!FairSpec` and `ApplyUpdates!FairSpec`: the program runs on, and a
qube that was asked to stop halts. The code relies on just this, as its waits have
no timeout. Users are never obliged to act. `Progress!Fairness`: the package manager
goes on, and the threads that read its output are scheduled, each on its own; no
failure and no stray line is owed. `Dom0Update!Fairness`: a run that has begun and a
receiver that has begun go on; nobody has to begin, publish, interrupt or restart.

`EndsUnlessInterrupted` is stated under the condition that no SIGINT found the loop
blocked, `Returns` and `ApplyEnds` that no user started a qube meanwhile;
`SigintEndsBatch`, without the condition, fails. `AgentEnds` excepts agents whose
collector has died. `LockReleased` needs that the UpdateVM does not start transfers
for ever, which `MaxExtra` gives: the wait on `pidof` would go on with each.

## Proofs

The theorems hold for every value of the constants that satisfies the named
assumptions: `ConstantsAssumption`, `ConnectionAssumption`, `ApplyAssumption`,
`VmUpdateAssumption`, `TargetsAssumption`, `PackageManagersAssumption`,
`AgentAssumption`, `ProgressAssumption`, `Dom0UpdateAssumption`. TLC evaluates each
in the runs of its module. Every one of them follows from an inductive invariant,
shown to hold at first and to be kept by each action.

`UpdateManager_proofs`, for any finite batch, pool size, set of codes, bounds, with
or without exceptions, quiet mode and shared bars:

* `InvHolds`: `Inv` is an invariant. `Inv` is `TypeOK` and four parts. `MainInv`:
  the loop blocks only while it expects a `DONE`, so that `left` stays natural; a
  handler waits only behind a blocked `get`; a SIGINT is on its way to the flag or
  has set it. `TasksInv`: the pool's queue holds each qube once, and as `queued`.
  `SessionInv`: before its agent a task has the initial status and no exit, and
  a cancelled one never ran it. `RetInv`: `ret` is the worst handled code
  collected so far. None of the properties is inductive without these: for
  example "130 after a SIGINT" needs to know that the SIGINT has reached the flag
  once the loop has left `get`.
* `TypeCorrect`, `ResultsAreFolded`, `SigintIsReported`, `CancelledAreUntouched`,
  `FailuresAreReported` follow from it. The last has the premise that no agent is
  killed by a signal (`EntryCodes \subseteq Nat`), without which it is false. For a
  qube the premise is what `Agent_proofs` shows of the agent's exit (`TypeCorrect`:
  it is 1, 26 or one of `VM_HANDLED`), unless the agent itself is killed.
* `ImplementsBatch` and `ImplementsTasks`: every step of the manager is a step of
  `UpdateBatch` and, for each qube, of `UpdateTask`, or a stutter.
* `PromiseIsKept`: what `run` returns is what `BatchPromise` allows. It rests on
  `PromiseInv`, whose difficulty is that the loop counts messages and not qubes. A
  task is `Excused` if it raised. `WordsInv`: every `DONE` that is queued or was
  read is the last word of its task, or its task is excused. `CountInv`: while
  none is excused, each qube has at most one `DONE`, queued or read, and `left` is
  the number of qubes whose `DONE` was not read; so a loop that ends has read
  them all. `AnswerInv`: with which codes `run` ends.
* `NobodyWaitsInVain` and `BatchGoesOn`: as long as no SIGINT finds the loop blocked
  (`[]~interrupted`), main process and pool never wait for each other. This is the
  safety part of `EndsUnlessInterrupted`; that somebody who can go on does so is
  its fairness. `WaitInv`: the loop awaits no more than the `DONE`s that are queued
  and the tasks that have not spoken, which holds with shared bars and with sessions
  that say `DONE` twice. `PoolInv`: a submitted task is in the pool's queue until it
  is started. `WaitInv` is false after the SIGINT of `SigintBlocked`.

`QubeConnection_proofs`, for any kinds of qube, codes and users:

* `SessionInvHolds`: `SessionInv` is `TypeOK` and four parts. `DonesInv`: `DONE` has
  been sent once where `__exit__` cleans up, and once or not at all where an
  exception arrives in `update_qube`. `StatusInv`: before the agent ran the status
  is the initial error, and an error has a nonzero code from the agent's exit on.
  `CleanupInv`: after the `rm` a new agent remains only if the `rm` failed, and after
  the power test nothing the call started runs on unless its shutdown failed.
  `LastWordAgrees` is the fourth.
* `LastWordsAgree`, `PowerIsRestored`, `UploadIsRemoved` follow. The second needs
  that the session can have started the qube only after `__enter__` has looked.
* `ImplementsTask`: every step is one of `UpdateTask`, or a stutter.
* `NobodyWaitsInVain`: `__exit__`, whose wait has no timeout, waits only for a halt
  that is still to come, unless another user started the qube. It needs `HaltInv`:
  between the shutdown and the wait the qube is not running for the session, and a
  halt that comes before the wait is set up is noticed.

`VmUpdate_proofs`, for any qubes, classes and ends of tasks:

* `MainInvHolds`: `MainInv` is `TypeOK`, `ProgressInv` (until `main` exits, each batch's
  code covers every qube of it that failed, and nothing was stopped or applied),
  `SigintStops` and `FailuresInExit`. `FailuresReachExit`, `SigintEndsMain` follow.
* `AppliesForAReason`, from `SuccessInv`: a status that `main` holds is true, or
  the task of that qube raised.
* `NoUpdatesIsTrue` and `CrashesNeedExceptions`, for runs that are not quiet
  (`~Dummy`), which is needed: `MainQuietApply` is a crash without an exception.
  `NoUpdatesInv`: while `no_updates` stands, a batch in which a qube was updated has
  a code that is not 0. `MissingInv`: a status is missing only if a task raised.

`ApplyUpdates_proofs`, for any templates, derived qubes, refusals, and users' starts
and stops:

* `ApplyInvHolds`: `ApplyInv` is `TypeOK` and five parts. `LoopInv`: each loop handles
  only qubes it was called for. `CommitInv`: as long as no call was refused, a
  template that has not halted with its update is still to be called or waited
  for; so the chosen qubes are those of halted templates once the first loop is
  over. `RefusalInv`: what `code` and `ret` say of the refusals so far, loop by
  loop. `ServicesInv`: where a service qube that no user stopped runs, is on its
  way down or runs again. `OldInv`: while nothing was refused and users started
  nothing, a qube without its update is one that a loop still comes to (`Ahead`).
* `CodesAreTruthful`, `ServicesComeBack`, `UpdatesAreApplied` and `ApplyTypeCorrect`
  follow. `NobodyDisturbedInVain` is about steps: a qube is added to those waited
  for only by `ShutdownCall` in the second or third loop, where `CommitInv` says
  that its template has halted.
* `NobodyWaitsInVain`, the same of `shutdown_domains`, for any number of qubes waited
  for at once, with the premise that users started none. `AwaitInv`: a qube whose
  call returned does not run again by itself, and one that halted is not awaited.

`Targets_proofs`, for any qubes in any states and any arguments: `TargetsInvHolds`,
where `PreselectedInv` says what the first of the two functions hands to the second;
`SkipAlwaysWins`, `TargetsMatchManual` (the manual but for the departures) and
`TargetsTypeCorrect` follow.

`Agent_proofs`, for any packages, requirements and codes of commands: `AgentInvHolds`.
`StageInv` says which codes and changes are possible when a stage begins, and that
the list of packages it compares with is the one of the start. `CodeInv` says that a
failure before the cleanup is in the code, and that "no updates" in the code means
that nothing was installed, at every step. `SignInv` says that a package whose
signature was refused is in `sign` however the loop goes on, and in the result from
the transaction on. `HardFailHolds`, `SignedOnlyHolds`,
`DownloadOnlyHolds`, `ErrorsAreReported`, `NoUpdatesIsTrue` and `TypeCorrect` follow.
`UpgradesAreReported` says how far the finding of `AgentAptUpgrade` goes: with every
other manager a failed upgrade is an error for dom0, with or without `hard_fail`, and
also when its command was killed. `UpgradeInv` has it that no earlier or later
code replaces 24.

`Progress_proofs`, for any sizes, APIs and stray lines, numeric ones included:
`ProgressInvHolds`: counters, pipes and bars are numbers, and the two values behind
a bar agree, also while it has none; `BarsAreExact` follows. `EndsAreShown` needs
`EndInv`: from the moment the end is printed it is in the pipe, or a collector has
read it, moved its bar there and told the next hop, or is dead.
`DownloadsAreShown` and `BarGoesForward` need `ShownInv`: the bytes counted are the
sum of what the callbacks remember, package by package, and what was told last is a
percentage of the current phase. A sum over a set is no recursive function here but
a relation (`AddsUpTo`): some sequence of partial sums along some order of the
packages ends in it. What one package's new bytes do to the sum is then shown with
the least-number principle (`LeastNumber`), which follows from the library's
well-founded inclusion of finite sets and takes the place of an induction. `BarGoesForward`
also needs that the numbers between an agent and a bar (its pipe, the inner bar,
the outer pipe) never descend, and has the premise that no stray line reads as a
number from 0 to 100 (`Strays \cap (0..100) = {}`), without which it is false.
`TypesHold` is type correctness.

`Dom0Update_proofs`, for any packages, any number of users' runs, transfers and
restarts: `Dom0InvHolds`. `LockInv`: who runs is who has the lock. `VerifyInv`: a file
that is not verified lies in the directory only while the receiver looks at it, so
neither the metadata nor what dnf has loaded of it names one. `FailInv`: the errors
of a transfer stay until the run it was made for has seen them, which needs the
wait and the lock. `SuccessInv`: where what a run waits for is, from the receiver's
directory through the repository and what dnf loaded, until it is installed; it needs
`FailInv`, since a transfer that ended without a repository must have left its errors,
and `LockInv`, since another run would clear the directory. `InstalledAreVerified`,
`RunsExclude`, `FailuresAreNoticed`, `SuccessesInstalled` and `TypeCorrect` follow.

Only model-checked: liveness (`EndsUnlessInterrupted`, `Returns`, `ApplyEnds`,
`AgentEnds`, `LockReleased`), which is out of the prover's reach. Every other
property of a passing run is proved. The three violated properties are refuted by
TLC's counterexamples, and what remains true of them is proved where it could be:
`UpgradesAreReported` for `AgentAptUpgrade`, `BatchGoesOn` for `SigintBlocked`,
`CrashesNeedExceptions` for `MainQuietApply`.

## Disagreements between code and documentation

The three violated runs are findings of `PROJECT.json`. Further ones were met. Where
a property is named, a configuration with it alone and the constants of the
module's passing run shows it, unless noted.

* `UpdateManager!DoneConsumedForAll`: `feeding` says it ends when `DONE` was
  consumed for all qubes. A session that raises in its cleanup sends two, and
  the loop stops before another qube's (`BatchFaults`).
* `UpdateManager!FailuresReported` with a negative `EntryCodes`: dom0's agent
  killed by a signal counts as 0.
* `QubeConnection!StopsOnlyItsOwn`, `LeavesNothingRunning`: the docstring says the
  qube is stopped if it was started by this connection. What decides is the power
  state at `__enter__`, so a qube someone else started since is stopped, and one
  that was stopped and that the session started again is left running.
* `Targets!SkipUpdateExcluded`, `NamedOverridesSkipUpdate`: a qube with `skip-update`
  is documented to be excluded unless named with `--targets`
  (`doc/tools/qubes-vm-update.rst:88`). `preselect_targets` only asks whether
  `--targets` was given (`vmupdate/vmupdate.py:325`), and `select_targets` skips a
  named one without `--force-update`. `AsTheManualSays`: `--apps` is documented to
  target running updatable AppVMs (`:36`), and targets all running ones
  (`vmupdate/vmupdate.py:297`); `--all` and the default are documented to target all
  updatable VMs except the AdminVM (`:38`), and target it, but no AppVM or DispVM that
  is not running. The feature `prohibit-start`, which deselects a qube, is not in the
  manual. `UsageErrorMeansUnknown`: naming a qube twice
  is an "unknown qube name".
* `ApplyUpdates!UpdateApplied` without its condition on `starts`: a qube started
  between the choice and its template's halt keeps the old volume, with code 0.
* `Agent!CleanupReported`, `RefreshReported`, `HardFailOnRefresh`: 100 masks the
  documented 25 and 23, and a repository that `apt-get update` complains about
  without failing is not noticed, since its output is not captured.
* `VmUpdate!NoUpdatesMeansNone` in quiet mode: no status counts as no updates.
  `DryRunForetells`: a dry run that says dom0 will be updated returns 100.
* `Dom0Update!SuccessInstalled` without its exceptions: a run ends with 0 and has not
  installed what it asked for. Behind `sed` the exit code of a failed download is lost
  (`dom0-updates/qubes-dom0-update:400`); an error of `dnf check-update` leaves
  `RETCODE` at 0 (`:491`); a receiver that was killed, or whose `createrepo_c` failed,
  leaves neither a repository nor an errors file, which reads as "No updates available"
  and clears the feature (`:505`); and a transfer that the UpdateVM starts on its own
  replaces what the run has not yet loaded.
* `dom0-updates/qubes-dom0-updates.cron:22` sets `updates-available` after its run has
  given back the lock (`Again`), so it can be set after a user has installed the
  updates in between.
* `Progress!BarNeverBack` with numbers in `Strays`: a line of another program that
  ends in a number is taken for a percentage. A line of spaces raises `IndexError` in the
  collector (`vmupdate/qube_connection.py:325`) and leaves the agent with a full
  pipe. `FetchShown` without its condition on dnf5: `dnf5_api.py:214` subtracts the
  bytes of a download that starts again and does not forget them, and the sum
  drifts. `apt_api.py:150` divides by a total that can be 0 at the first pulse; the
  model starts with a known total.

## Not modelled

* The death of a pool process: the pool replaces it and drops its task, after
  which only a hang can be shown.
* `ERR_QREXEX`, documented for a broken qrexec connection, which nothing assigns.
* Logging, colours, the text of the bars, and the parsing of arguments.
* Exceptions in `apply_updates_to_appvm` other than `QubesVMError`, and failures
  of `get_packages` other than as `Raise` or an empty list.
* Agent plugins, but for the requirements that `manage_rpm_macro` asks for:
  idempotent edits of configuration files in the qube, without shared state.
* Of the dom0 update: the window, the mounting of `/boot`, the warning about a new
  Xen, the switch of the audio server, dnf's own check of signatures (what is
  shown does not rely on it), and two receivers at once, which nothing excludes.
* Of progress reporting: fractions of a percent, and bars shared by several qubes,
  which `UpdateManager` has with `DisplayName`.
* The exit code 100 of the `mkdir`, `tar`, `cat` and `rm` of a session, which
  `run_transport_command` would take for "no updates"
  (`vmupdate/qube_connection.py:256`): none of these commands ends with it.
* The C programs (wrappers of a library that is not part of the repository),
  dracut, suspend and udev scripts, qrexec services, the report on microcode,
  packaging: sequential scripts or configuration.

## Plan

1. `UpdateManager` with `UpdateBatch`: done, proved.
2. `QubeConnection` with `UpdateTask`, `VmUpdate` with `BatchPromise`, `Targets`,
   `ApplyUpdates`, `Agent`: done; every safety property of a run is proved, and the
   chain from a session to `main` with them.
3. `Dom0Update`: done; safety proved.
4. `Progress`: done; every safety property proved.
5. Left: two receivers at once in `Dom0Update`; a common model of `QubeConnection`
   for dom0 with `Dom0Update`, for which the exit codes they exchange would be the
   promise; the death of a pool process.
