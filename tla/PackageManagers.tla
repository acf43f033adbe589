---------------------------- MODULE PackageManagers ----------------------------
(***************************************************************************)
(* The package managers the agent can use (vmupdate/agent/source/apt, dnf, *)
(* pacman) and how it chooses one: for each, the outcomes of a refresh, of *)
(* an upgrade and of a cleanup.  The tools themselves are external: all    *)
(* the model says of one is the exit code or exception it can end with and *)
(* which packages it may leave behind.                                     *)
(***************************************************************************)
EXTENDS ExitCodes, FiniteSets

CONSTANTS
  Packages,
  RunCodes   \* what run_cmd can return; a negative code means killed by a signal

ASSUME PackageManagersAssumption == RunCodes \subseteq Int /\ OK \in RunCodes

AgentTypes == {"vm", "dom0", "updatevm"}
Managers == {"apt cli", "apt", "dnf cli", "dnf", "dnf5", "pacman"}

\* 0 stands for a package that is not installed, 2 for the newest version.
Installations == [Packages -> 0..2]

\* What an upgrade that succeeds or fails can make of the packages: new
\* versions, new dependencies, obsolete packages removed.
After(pkgs) == {new \in Installations : \A p \in Packages : new[p] \in {0, pkgs[p], 2}}

\* dpkg-query, rpm -qa or pacman -Q; when it fails, which nobody looks at, no
\* package seems to be installed.
NoPackages == [p \in Packages |-> 0]
GetPackages(pkgs) == {pkgs, NoPackages}

--------------------------------------------------------------------------------
(***************************************************************************)
(* The choice.  recent: Fedora 41 or dom0 4.3, which come with dnf5.       *)
(***************************************************************************)
ImportDnf(recent, importable, noProgress) ==
  IF noProgress THEN "dnf cli"
  ELSE IF recent /\ "dnf5" \in importable THEN "dnf5"
  ELSE IF "dnf" \in importable THEN "dnf" ELSE "dnf cli"

ImportDom0(recent, importable, noProgress) == ImportDnf(recent, importable, noProgress)

ImportDebian(importable, noProgress) ==
  IF ~noProgress /\ "apt" \in importable THEN "apt" ELSE "apt cli"

Systems ==
  [family : {"fedora", "centos", "debian", "arch", "qubes"}, recent : BOOLEAN,
   importable : SUBSET {"dnf5", "dnf", "apt"}, noProgress : BOOLEAN, downloadOnly : BOOLEAN]

\* main: --download-only makes the agent an UpdateVM's, dom0 is recognised by
\* its name.
AgentType(os) ==
  IF os.downloadOnly THEN "updatevm" ELSE IF os.family = "qubes" THEN "dom0" ELSE "vm"

\* An UpdateVM that is not a Fedora tries dnf5 first.
GetPackageManager(os) ==
  CASE AgentType(os) = "updatevm" ->
         ImportDnf(os.family # "centos" /\ (os.family = "fedora" => os.recent),
                   os.importable, os.noProgress)
    [] AgentType(os) # "updatevm" /\ os.family = "fedora" ->
         ImportDnf(os.recent, os.importable, os.noProgress)
    [] AgentType(os) # "updatevm" /\ os.family = "centos" ->
         ImportDnf(FALSE, os.importable, os.noProgress)
    [] AgentType(os) # "updatevm" /\ os.family = "debian" ->
         ImportDebian(os.importable, os.noProgress)
    [] AgentType(os) # "updatevm" /\ os.family = "arch" -> "pacman"
    [] AgentType(os) = "dom0" -> ImportDom0(os.recent, os.importable, os.noProgress)

\* Plugins do not run for an UpdateVM; the one that asks for packages
\* (manage_rpm_macro) does so on every RPM-based system that is not Fedora.
HasRequirements(os) == os.family = "centos" /\ AgentType(os) = "vm"

--------------------------------------------------------------------------------
(***************************************************************************)
(* Refreshing.  An outcome of a stage is its code and the codes `runs` of  *)
(* its commands and calls that it was made of.                             *)
(***************************************************************************)
Fails(runs) == runs \ {OK} # {}
Killed(runs) == \E c \in runs : c < 0

Outcome(code, runs) == [code |-> code, runs |-> runs]

\* Some repository was not available, which the command prints but exits with
\* 0: error_from_messages looks for it in an output run_cmd did not capture.
Unseen == Outcome(OK, {ERR})

Single(c) == Outcome(c, {c})
Both(e, c) == Outcome(MaxOf(e, c), {e, c})

\* apt-get update, where 100 is an error.
AptCliRefresh == {Single(IF c = 100 THEN ERR ELSE c) : c \in RunCodes} \cup {Unseen}

AptRefresh == {Single(c) : c \in {OK, ERR_VM_REFRESH}}

ExpireCache(type) == IF type = "updatevm" THEN {OK} ELSE RunCodes

\* dnf check-update, where 100 means that there are updates.
CheckUpdate(c) == IF c = 100 THEN OK ELSE c

Expired == {Both(e, CheckUpdate(c)) : e, c \in RunCodes}

DnfCliRefresh(type) ==
  IF type = "updatevm" THEN {Outcome(OK, {})} ELSE Expired \cup {Unseen}

\* update_cache answers false, or something raises.
DnfRefresh == {Single(c) : c \in {OK, ERR_VM_REFRESH}}

Dnf5Refresh(type) ==
  {Both(OK, e) : e \in ExpireCache(type)} \cup {Single(ERR_VM_REFRESH)}

PacmanRefresh == {Outcome(OK, {})}

--------------------------------------------------------------------------------
(***************************************************************************)
(* Upgrading `pkgs`.  An outcome also says what is installed then.         *)
(***************************************************************************)
Upgraded(code, runs, new) == [code |-> code, runs |-> runs, packages |-> new]

Ran(c, new) == Upgraded(c, {c}, new)
RaisedEarly(pkgs) == Upgraded(ERR_VM_UPDATE, {ERR_VM_UPDATE}, pkgs)
NothingToDo(pkgs) == Upgraded(OK_NO_UPDATES, {}, pkgs)

\* apt-get autoremove -s, then apt-get remove of the kernels among it.
RemoveObsoleteKernels == {OK, ERR_VM_CLEANUP}

AptRan(obsolete, c, k, new) ==
  IF obsolete THEN Upgraded(MaxOf(c, k), {c, k}, new) ELSE Ran(c, new)

\* apt-get exits with 100 on any error.
AptCliUpgrade(pkgs, obsolete) ==
  {AptRan(obsolete, c, k, new) :
     c \in RunCodes, k \in RemoveObsoleteKernels, new \in After(pkgs)}

AptUpgrade(pkgs, obsolete) ==
  {AptRan(obsolete, c, k, new) :
     c \in {OK, ERR_VM_UPDATE}, k \in RemoveObsoleteKernels, new \in After(pkgs)}

\* An UpdateVM only downloads.
Installs(type, pkgs) == IF type = "updatevm" THEN {pkgs} ELSE After(pkgs)

\* dnf upgrade or pacman -Syu, which never exit with 100.
CliCodes == RunCodes \ {100}

CliUpgrade(type, pkgs) ==
  {Ran(c, new) : c \in CliCodes, new \in Installs(type, pkgs)}

\* The dnf APIs before anything is downloaded: nothing to do, or an exception.
ApiUpgrade(pkgs) == {NothingToDo(pkgs), RaisedEarly(pkgs)}

\* package_signature_check: good, made with a key that is not imported, bad.
SignatureCodes == 0..2

\* Slip: as in DNFCLI, only the options tell an UpdateVM.
Transacted_Installs(type, sign, pkgs) == IF sign = OK THEN After(pkgs) ELSE {pkgs}

\* What a transaction can leave, after signatures that gave the code `sign`.
Transacted(type, sign, pkgs) == IF sign = OK THEN Installs(type, pkgs) ELSE {pkgs}

\* The transaction of the packages downloaded; it can raise.
ApiTransaction(type, sign, pkgs) ==
  {Upgraded(MaxOf(sign, c), {sign, c}, new) :
     c \in {OK, ERR_VM_UPDATE}, new \in Transacted(type, sign, pkgs)}

--------------------------------------------------------------------------------
\* apt-get clean, dnf clean packages or pacman -Sc.
CleanCodes == {IF c # OK THEN ERR_VM_CLEANUP ELSE OK : c \in RunCodes}

RefreshOutcomes(manager, type) ==
  CASE manager = "apt cli" -> AptCliRefresh
    [] manager = "apt"     -> AptRefresh
    [] manager = "dnf cli" -> DnfCliRefresh(type)
    [] manager = "dnf"     -> DnfRefresh
    [] manager = "dnf5"    -> Dnf5Refresh(type)
    [] manager = "pacman"  -> PacmanRefresh

UpgradeOutcomes(manager, type, pkgs, obsolete) ==
  CASE manager = "apt cli" -> AptCliUpgrade(pkgs, obsolete)
    [] manager = "apt"     -> AptUpgrade(pkgs, obsolete)
    [] manager = "dnf cli" -> CliUpgrade(type, pkgs)
    [] manager = "dnf"     -> ApiUpgrade(pkgs)
    [] manager = "dnf5"    -> ApiUpgrade(pkgs)
    [] manager = "pacman"  -> CliUpgrade(type, pkgs)
================================================================================
