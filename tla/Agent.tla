--------------------------------- MODULE Agent ---------------------------------
(***************************************************************************)
(* The agent that runs inside an updated qube (vmupdate/agent): main of    *)
(* entrypoint.py around PackageManager.upgrade, for each package manager,  *)
(* as a pipeline of stages whose exit codes are folded with max into one   *)
(* exit code, and the packages that are installed meanwhile.               *)
(***************************************************************************)
EXTENDS PackageManagers

CONSTANT Required  \* the packages the plugin manage_rpm_macro asks for

ASSUME AgentAssumption == Required \subseteq Packages

VARIABLES
  pc,        \* the stage that comes next
  opts,      \* who runs: the options and what the system is
  packages,  \* what is installed
  old,       \* curr_pkg
  result,    \* ProcessResult.code of _upgrade
  sign,      \* the code of the signatures checked so far
  exit,      \* the agent's exit code, NotExited before
  start,     \* history: what was installed at first
  failed,    \* history: the stages in which a command or call failed
  killed,    \* history: a signal killed a command
  blind,     \* history: the packages could not be queried
  refused,   \* history: the signature of a package was not accepted
  upgraded   \* history: the upgrade changed packages

history == <<start, failed, killed, blind, refused, upgraded>>
vars == <<pc, opts, packages, old, result, sign, exit, history>>

NotExited == -1

\* hardFail: no --force-upgrade.  The other options are each read once, and
\* are chosen there.
Options == [type : AgentTypes, manager : Managers, requirements : BOOLEAN, hardFail : BOOLEAN]

OptionsOf(os, hard) == [type |-> AgentType(os), manager |-> GetPackageManager(os),
                        requirements |-> HasRequirements(os), hardFail |-> hard]

Init ==
  /\ pc = "query"
  /\ opts \in {OptionsOf(os, hard) : os \in Systems, hard \in BOOLEAN}
  /\ packages \in Installations /\ start = packages
  /\ old = NoPackages
  /\ result = OK /\ sign = OK /\ exit = NotExited
  /\ failed = {} /\ killed = FALSE /\ blind = FALSE /\ refused = FALSE /\ upgraded = FALSE

--------------------------------------------------------------------------------
Note(stage, outcome) ==
  /\ failed' = IF Fails(outcome.runs) THEN failed \cup {stage} ELSE failed
  /\ killed' = (killed \/ Killed(outcome.runs))

\* run_cmd's code for each of the commands that are needed.
Runs(needed) == [needed -> RunCodes]

\* Required packages that are missing, and those that are not newer than asked.
ToInstall == {p \in Required : old[p] = 0}
ToUpgrade == {p \in Required : old[p] = 1}

\* A command that was killed does not count.
PreCode(runs) == IF \E c \in runs : c > OK THEN ERR_VM_PRE ELSE OK

Query ==
  /\ pc = "query"
  /\ old' \in GetPackages(packages)
  /\ blind' = (old' # packages)
  /\ pc' = "requirements"
  /\ UNCHANGED <<opts, packages, result, sign, exit, start, failed, killed, refused, upgraded>>

Requirements ==
  /\ pc = "requirements"
  /\ IF opts.requirements
     THEN \E codes \in Runs((IF ToInstall # {} THEN {"install"} ELSE {})
                            \cup (IF ToUpgrade # {} THEN {"upgrade"} ELSE {})) :
            LET runs == {codes[i] : i \in DOMAIN codes} IN
              /\ result' = PreCode(runs)
              /\ Note("requirements", Outcome(result', runs))
              /\ packages' \in (IF runs = {} THEN {packages} ELSE After(packages))
     ELSE UNCHANGED <<result, failed, killed, packages>>
  /\ pc' = IF result' # OK /\ opts.hardFail THEN "clean" ELSE "refresh"
  /\ UNCHANGED <<opts, old, sign, exit, start, blind, refused, upgraded>>

\* Slip: the upgrade is tried whatever hard_fail says.
Refresh_Soft ==
  /\ pc = "refresh"
  /\ \E r \in RefreshOutcomes(opts.manager, opts.type) :
       /\ result' = MaxOf(result, IF r.code = OK THEN OK ELSE ERR_VM_REFRESH)
       /\ Note("refresh", r)
  /\ pc' = "upgrade"
  /\ UNCHANGED <<opts, packages, old, sign, exit, start, blind, refused, upgraded>>

Refresh ==
  /\ pc = "refresh"
  /\ \E r \in RefreshOutcomes(opts.manager, opts.type) :
       /\ result' = MaxOf(result, IF r.code = OK THEN OK ELSE ERR_VM_REFRESH)
       /\ Note("refresh", r)
  /\ pc' = IF result' # OK /\ opts.hardFail THEN "clean" ELSE "upgrade"
  /\ UNCHANGED <<opts, packages, old, sign, exit, start, blind, refused, upgraded>>

\* --no-refresh
NoRefresh ==
  /\ pc = "refresh"
  /\ pc' = "upgrade"
  /\ UNCHANGED <<opts, packages, old, result, sign, exit, history>>

\* Slip: the code of the upgrade replaces the earlier ones.
Return_Last(u) ==
  /\ result' = IF u.code \in {OK, OK_NO_UPDATES} THEN u.code ELSE ERR_VM_UPDATE
  /\ packages' = u.packages
  /\ Note("upgrade", u)
  /\ upgraded' = (u.packages # packages)
  /\ pc' = IF result' # OK \/ opts.type = "updatevm" THEN "clean" ELSE "compare"
  /\ UNCHANGED <<opts, old, sign, exit, start, blind, refused>>

\* upgrade_internal returns.
Return(u) ==
  /\ result' = MaxOf(result, IF u.code \in {OK, OK_NO_UPDATES} THEN u.code ELSE ERR_VM_UPDATE)
  /\ packages' = u.packages
  /\ Note("upgrade", u)
  /\ upgraded' = (u.packages # packages)
  /\ pc' = IF result' # OK \/ opts.type = "updatevm" THEN "clean" ELSE "compare"
  /\ UNCHANGED <<opts, old, sign, exit, start, blind, refused>>

Upgrade(u) == pc = "upgrade" /\ Return(u)

\* The dnf APIs: there are packages to upgrade, and they were downloaded.
Downloaded ==
  /\ pc = "upgrade"
  /\ opts.manager \in {"dnf", "dnf5"}
  /\ pc' = "sign"
  /\ UNCHANGED <<opts, packages, old, result, sign, exit, history>>

\* Slip: a package's code replaces those of the packages before it.
SignCheck_Last(first, imported, second) ==
  /\ pc = "sign" /\ opts.manager = "dnf"
  /\ sign' = IF first = OK \/ ~imported THEN first ELSE second
  /\ refused' = (refused \/ (first # OK /\ ~(imported /\ second = OK)))
  /\ UNCHANGED <<pc, opts, packages, old, result, exit, start, failed, killed, blind, upgraded>>

\* One turn of sign_check's loop over the packages: a package that does not
\* pass has its key imported, which can raise, and is checked again.
SignCheck(first, imported, second) ==
  /\ pc = "sign" /\ opts.manager = "dnf"
  /\ sign' = MaxOf(sign, IF first = OK \/ ~imported THEN first ELSE second)
  /\ refused' = (refused \/ (first # OK /\ ~(imported /\ second = OK)))
  /\ UNCHANGED <<pc, opts, packages, old, result, exit, start, failed, killed, blind, upgraded>>

\* check_gpg_signatures answers false, and upgrade_internal raises.
SignaturesRefused ==
  /\ pc = "sign" /\ opts.manager = "dnf5"
  /\ sign' = ERR_VM_UPDATE
  /\ refused' = TRUE
  /\ UNCHANGED <<pc, opts, packages, old, result, exit, start, failed, killed, blind, upgraded>>

\* After the last package, or an exception of any call since the download.
Transact ==
  /\ pc = "sign"
  /\ \E u \in ApiTransaction(opts.type, sign, packages) : Return(u)

\* Slip: what was removed counts, what was installed does not.
NewPackages_Removed(before, now) == {p \in Packages : now[p] = 0 /\ before[p] # 0}

\* compare_packages: installed or updated.
NewPackages(before, now) == {p \in Packages : now[p] # 0 /\ now[p] # before[p]}

Compare ==
  /\ pc = "compare"
  /\ \E now \in GetPackages(packages) :
       /\ result' = IF NewPackages(old, now) # {} THEN result ELSE OK_NO_UPDATES
       /\ blind' = (blind \/ now # packages)
  /\ pc' = "clean"
  /\ UNCHANGED <<opts, packages, old, sign, exit, start, failed, killed, refused, upgraded>>

\* Dom0 understands some codes only.
Exit(code) ==
  /\ exit' = IF code \in VM_HANDLED THEN code ELSE ERR_VM_UNHANDLED
  /\ pc' = "exited"

Clean(c) ==
  /\ pc = "clean"
  /\ Note("cleanup", Single(c))
  /\ Exit(MaxOf(c, result))
  /\ UNCHANGED <<opts, packages, old, result, sign, start, blind, refused, upgraded>>

\* --no-cleanup
NoClean ==
  /\ pc = "clean"
  /\ Exit(result)
  /\ UNCHANGED <<opts, packages, old, result, sign, history>>

\* An exception ends the agent: RuntimeError with 26, any other with Python's 1.
Raise ==
  /\ pc # "exited"
  /\ exit' \in {ERR, ERR_VM_UNHANDLED}
  /\ failed' = failed \cup {"agent"}
  /\ pc' = "exited"
  /\ UNCHANGED <<opts, packages, old, result, sign, start, killed, blind, refused, upgraded>>

Exited == pc = "exited" /\ UNCHANGED vars

Next == \/ Query \/ Requirements \/ Refresh \/ NoRefresh
        \/ \E obsolete \in BOOLEAN :
             \E u \in UpgradeOutcomes(opts.manager, opts.type, packages, obsolete) : Upgrade(u)
        \/ Downloaded
        \/ \E first, second \in SignatureCodes, imported \in BOOLEAN :
             SignCheck(first, imported, second)
        \/ SignaturesRefused \/ Transact
        \/ Compare
        \/ \E c \in CleanCodes : Clean(c)
        \/ NoClean \/ Raise \/ Exited

Spec == Init /\ [][Next]_vars

--------------------------------------------------------------------------------
TypeOK ==
  /\ pc \in {"query", "requirements", "refresh", "upgrade", "sign", "compare", "clean",
             "exited"}
  /\ opts \in Options
  /\ packages \in Installations /\ old \in Installations /\ start \in Installations
  /\ result \in {OK, OK_NO_UPDATES, ERR_VM_PRE, ERR_VM_REFRESH, ERR_VM_UPDATE}
  /\ sign \in SignatureCodes \cup {ERR_VM_UPDATE}
  /\ exit \in {NotExited, ERR, ERR_VM_UNHANDLED} \cup VM_HANDLED
  /\ failed \subseteq {"requirements", "refresh", "upgrade", "cleanup", "agent"}
  /\ killed \in BOOLEAN /\ blind \in BOOLEAN /\ refused \in BOOLEAN /\ upgraded \in BOOLEAN

\* What dom0 makes of the exit code.
Status == EntryStatus(exit)

\* The managers that tell "no updates" by comparing packages; those whose errors
\* always show.
Comparing == opts.manager \in {"apt", "pacman", "dnf cli"}
Telling == opts.manager \in {"apt", "pacman"} \/ (opts.hardFail /\ opts.manager \in {"dnf", "dnf5"})

\* With hard_fail (no --force-upgrade), nothing is upgraded on top of
\* requirements or package lists known to have failed, and the exit code keeps
\* naming the stage, or the cleanup that failed after it.
HardFail ==
  opts.hardFail /\ result \in {ERR_VM_PRE, ERR_VM_REFRESH} =>
    /\ pc \in {"clean", "exited"}
    /\ ~upgraded
    /\ pc = "exited" /\ "agent" \notin failed =>
         exit \in {result} \cup (IF "cleanup" \in failed THEN {ERR_VM_CLEANUP} ELSE {})

\* A qube is shown as having had no updates only if nothing was installed or
\* updated in it, from before the requirements to after the upgrade, as long as
\* its packages could be queried.  (The dnf APIs answer 100 also after
\* requirements were installed, and 100 of apt-get is an error.)
NoUpdatesUnchanged ==
  Comparing /\ ~blind /\ Status = "no updates" =>
    \A p \in Packages : packages[p] \in {0, start[p]}

\* An error before the cleanup reaches dom0 as one: no later code masks it, if
\* nothing was killed.  The dnf APIs, which have a code of their own for "no
\* updates", need hard_fail for it, and the error messages of the command line
\* tools are never seen.
ErrorsReported ==
  pc = "exited" /\ Telling /\ ~killed /\ failed \ {"cleanup"} # {} => Status = "error"

\* One package whose signature is not accepted, before or after its key was to
\* be imported and wherever it comes among the packages, stops the whole upgrade,
\* and dom0 is told of an error.
SignedOnly == refused => ~upgraded /\ (pc = "exited" => Status = "error")

\* An UpdateVM downloads for dom0 and keeps its own packages as they are,
\* whatever system it runs.
DownloadOnly == opts.type = "updatevm" => packages = start

\* The inductive invariant: what the parts above say of the stages in between.
StageInv ==
  /\ pc = "query" => blind = FALSE
  /\ pc \in {"query", "requirements"} => result = OK /\ packages = start /\ failed = {}
  /\ pc \in {"query", "requirements", "refresh", "upgrade", "sign"} =>
       ~upgraded /\ result \in {OK, ERR_VM_PRE, ERR_VM_REFRESH}
  /\ pc \in {"query", "requirements", "refresh", "upgrade"} => ~refused
  /\ pc = "sign" => opts.manager \in {"dnf", "dnf5"}
  /\ pc = "compare" => result = OK
  /\ ~blind /\ pc \in {"requirements", "refresh", "upgrade", "sign", "compare"} => old = start
  /\ opts.type = "updatevm" =>
       ~opts.requirements /\ opts.manager \in {"dnf cli", "dnf", "dnf5"}

CodeInv ==
  /\ Telling /\ ~killed /\ failed \ {"cleanup"} # {} =>
       \/ result \in {ERR_VM_PRE, ERR_VM_REFRESH, ERR_VM_UPDATE}
       \/ pc = "exited" /\ "agent" \in failed
  /\ Comparing /\ ~blind /\ result = OK_NO_UPDATES =>
       \A p \in Packages : packages[p] \in {0, start[p]}
  /\ pc # "exited" => exit = NotExited /\ failed \cap {"cleanup", "agent"} = {}
  /\ pc = "exited" => IF "agent" \in failed THEN exit \in {ERR, ERR_VM_UNHANDLED}
                      ELSE exit \in {result, MaxOf(ERR_VM_CLEANUP, result)}

\* What remains of a refused signature while other packages are checked, and
\* after the upgrade.
SignInv ==
  refused =>
    /\ sign # OK /\ ~upgraded
    /\ \/ pc = "sign" \/ result = ERR_VM_UPDATE
       \/ pc = "exited" /\ "agent" \in failed

AgentInv == /\ TypeOK /\ StageInv /\ CodeInv
            /\ HardFail /\ SignInv /\ DownloadOnly

\* Inductive together with the above: except with apt-get's command line, an
\* upgrade that failed in any way has the code 24, which nothing replaces.
UpgradeInv ==
  /\ pc \in {"query", "requirements", "refresh", "upgrade", "sign"} =>
       "upgrade" \notin failed
  /\ opts.manager # "apt cli" /\ "upgrade" \in failed => result = ERR_VM_UPDATE

\* "24: error inside updated vm during installing updates", whatever manager.
UpgradeReported ==
  pc = "exited" /\ "upgrade" \in failed => Status = "error"

\* "25: error inside updated vm during cleanup": a failed cleanup is reported.
CleanupReported ==
  pc = "exited" /\ "cleanup" \in failed => Status = "error"

\* "23: repo-refresh error inside updated vm", hard_fail or not.
RefreshReported ==
  pc = "exited" /\ "refresh" \in failed => Status = "error"

\* "hard_fail: raise error if some repo is unavailable".
HardFailOnRefresh ==
  pc = "exited" /\ opts.hardFail /\ "refresh" \in failed => Status = "error"
================================================================================
