------------------------------ MODULE Agent_proofs ------------------------------
(***************************************************************************)
(* Proofs about Agent for any packages, requirements and command codes.    *)
(***************************************************************************)
EXTENDS Agent, TLAPS

--------------------------------------------------------------------------------
(***************************************************************************)
(* What the package managers promise of their outcomes.                    *)
(***************************************************************************)

\* With After an installation stays one.
LEMMA AfterType ==
  ASSUME NEW pkgs \in Installations, NEW new \in After(pkgs)
  PROVE  new \in Installations
  BY DEF After

LEMMA InstallsType ==
  ASSUME NEW pkgs \in Installations, NEW type, NEW new \in Installs(type, pkgs)
  PROVE  new \in Installations /\ (type = "updatevm" => new = pkgs)
  BY AfterType DEF Installs

\* What outcomes are made of.
LEMMA CliPick ==
  ASSUME NEW type, NEW pkgs, NEW u \in CliUpgrade(type, pkgs)
  PROVE  \E c \in CliCodes, new \in Installs(type, pkgs) : u = Ran(c, new)
  BY DEF CliUpgrade

LEMMA ExpiredPick ==
  ASSUME NEW r \in Expired
  PROVE  \E e, c \in RunCodes : r = Both(e, CheckUpdate(c))
  BY DEF Expired

\* A stage that fails, though nothing was killed, had a command with a positive
\* code.
Loud(runs, code) == Fails(runs) /\ ~Killed(runs) => code > OK

LEMMA SingleLoud ==
  ASSUME NEW c \in Int
  PROVE  {c} \in SUBSET Int /\ Loud({c}, c)
  BY DEF Loud, Fails, Killed, OK

LEMMA BothLoud ==
  ASSUME NEW e \in Int, NEW c \in Int
  PROVE  MaxOf(e, c) \in Int /\ {e, c} \in SUBSET Int /\ Loud({e, c}, MaxOf(e, c))
  BY DEF Loud, Fails, Killed, MaxOf, OK

LEMMA NoneLoud == \A code : Loud({}, code)
  BY DEF Loud, Fails

\* A refresh that fails by itself has a positive code, except with the command
\* line tools that keep quiet about repositories.
RefreshFact(manager, r) ==
  /\ r.code \in Int /\ r.runs \in SUBSET Int
  /\ manager \in {"apt", "pacman", "dnf", "dnf5"} => Loud(r.runs, r.code)

LEMMA OutcomeFact ==
  ASSUME NEW manager, NEW code \in Int, NEW runs \in SUBSET Int,
         manager \in {"apt", "pacman", "dnf", "dnf5"} => Loud(runs, code)
  PROVE  RefreshFact(manager, Outcome(code, runs))
  <1>1. Outcome(code, runs).code = code /\ Outcome(code, runs).runs = runs
    BY DEF Outcome
  <1> QED
    BY <1>1 DEF RefreshFact

LEMMA RefreshFacts ==
  ASSUME NEW type \in AgentTypes, NEW manager \in Managers,
         NEW r \in RefreshOutcomes(manager, type)
  PROVE  RefreshFact(manager, r)
  <1>1. ASSUME NEW c \in Int, r = Single(c) PROVE RefreshFact(manager, r)
    BY <1>1, OutcomeFact, SingleLoud DEF Single
  <1>2. ASSUME NEW e \in Int, NEW c \in Int, r = Both(e, c) PROVE RefreshFact(manager, r)
    BY <1>2, OutcomeFact, BothLoud DEF Both
  <1>3. CASE r = Outcome(OK, {})
    <2>1. OK \in Int /\ {} \in SUBSET Int
      BY DEF OK
    <2> QED
      BY <1>3, <2>1, OutcomeFact, NoneLoud
  <1>4. CASE r = Unseen /\ manager \in {"apt cli", "dnf cli"}
    <2>1. OK \in Int /\ {ERR} \in SUBSET Int
      BY DEF OK, ERR
    <2>2. manager \notin {"apt", "pacman", "dnf", "dnf5"}
      BY <1>4
    <2> QED
      BY <1>4, <2>1, <2>2, OutcomeFact DEF Unseen
  <1>5. CASE manager = "apt cli"
    <2>1. r \in AptCliRefresh
      BY <1>5 DEF RefreshOutcomes
    <2>2. r = Unseen \/ \E c \in RunCodes : r = Single(IF c = 100 THEN ERR ELSE c)
      BY <2>1 DEF AptCliRefresh
    <2>3. \A c \in RunCodes : (IF c = 100 THEN ERR ELSE c) \in Int
      BY PackageManagersAssumption DEF ERR
    <2> QED
      BY <1>1, <1>4, <1>5, <2>2, <2>3
  <1>6. CASE manager \in {"apt", "dnf"}
    <2>1. PICK c \in {OK, ERR_VM_REFRESH} : r = Single(c)
      BY <1>6 DEF RefreshOutcomes, AptRefresh, DnfRefresh
    <2>2. c \in Int
      BY <2>1 DEF OK, ERR_VM_REFRESH
    <2> QED
      BY <1>1, <2>1, <2>2
  <1>7. CASE manager = "dnf cli"
    <2>1. r \in DnfCliRefresh(type)
      BY <1>7 DEF RefreshOutcomes
    <2>2. \/ r = Unseen \/ r = Outcome(OK, {})
          \/ \E e, c \in RunCodes : r = Both(e, CheckUpdate(c))
      BY <2>1, ExpiredPick DEF DnfCliRefresh
    <2>3. \A c \in RunCodes : c \in Int /\ CheckUpdate(c) \in Int
      BY PackageManagersAssumption DEF CheckUpdate, OK
    <2> QED
      BY <1>2, <1>3, <1>4, <1>7, <2>2, <2>3
  <1>8. CASE manager = "dnf5"
    <2>1. r \in Dnf5Refresh(type)
      BY <1>8 DEF RefreshOutcomes
    <2>2. r = Single(ERR_VM_REFRESH) \/ \E e \in ExpireCache(type) : r = Both(OK, e)
      BY <2>1 DEF Dnf5Refresh
    <2>3. OK \in Int /\ ERR_VM_REFRESH \in Int /\ \A e \in ExpireCache(type) : e \in Int
      BY PackageManagersAssumption DEF ExpireCache, OK, ERR_VM_REFRESH
    <2> QED
      BY <1>1, <1>2, <2>2, <2>3
  <1>9. CASE manager = "pacman"
    BY <1>3, <1>9 DEF RefreshOutcomes, PacmanRefresh
  <1> QED
    BY <1>5, <1>6, <1>7, <1>8, <1>9 DEF Managers

\* One refused package makes the worst code of all an error, and a package that
\* is accepted does not take that back.
Turn(first, imported, second) == IF first = OK \/ ~imported THEN first ELSE second

LEMMA SignFacts ==
  ASSUME NEW s \in SignatureCodes \cup {ERR_VM_UPDATE}, NEW first \in SignatureCodes,
         NEW second \in SignatureCodes, NEW imported \in BOOLEAN
  PROVE  LET new == MaxOf(s, Turn(first, imported, second))
         IN  /\ new \in SignatureCodes \cup {ERR_VM_UPDATE}
             /\ s # OK => new # OK
             /\ first # OK /\ ~(imported /\ second = OK) => new # OK
  <1>1. SignatureCodes = {0, 1, 2}
    BY DEF SignatureCodes
  <1> QED
    BY <1>1 DEF Turn, MaxOf, OK, ERR_VM_UPDATE

\* What is common to all upgrades: their types, no installation for an UpdateVM,
\* 100 only from the dnf APIs, and failures that show.
UpgradeFact(manager, type, pkgs, u) ==
  /\ u.code \in Int /\ u.runs \in SUBSET Int /\ u.packages \in Installations
  /\ type = "updatevm" /\ manager \in {"dnf cli", "dnf", "dnf5"} => u.packages = pkgs
  /\ manager \in {"apt", "pacman", "dnf cli"} => u.code # OK_NO_UPDATES
  /\ manager \in {"apt", "pacman", "dnf", "dnf5"} => Loud(u.runs, u.code)
  /\ u.code = OK_NO_UPDATES /\ manager \in {"dnf", "dnf5"} => u.runs = {}

LEMMA UpgradedFact ==
  ASSUME NEW manager, NEW type, NEW pkgs, NEW code \in Int, NEW runs \in SUBSET Int,
         NEW new \in Installations,
         type = "updatevm" /\ manager \in {"dnf cli", "dnf", "dnf5"} => new = pkgs,
         manager \in {"apt", "pacman", "dnf cli"} => code # OK_NO_UPDATES,
         manager \in {"apt", "pacman", "dnf", "dnf5"} => Loud(runs, code),
         code = OK_NO_UPDATES /\ manager \in {"dnf", "dnf5"} => runs = {}
  PROVE  UpgradeFact(manager, type, pkgs, Upgraded(code, runs, new))
  <1> DEFINE u == Upgraded(code, runs, new)
  <1>1. u.code = code /\ u.runs = runs /\ u.packages = new
    BY DEF Upgraded
  <1> HIDE DEF u
  <1>2. UpgradeFact(manager, type, pkgs, u)
    BY <1>1 DEF UpgradeFact
  <1> QED
    BY <1>2 DEF u

\* A single command or call with a code other than 100.
LEMMA RanFact ==
  ASSUME NEW manager, NEW type, NEW pkgs, NEW c \in Int, NEW new \in Installations,
         type = "updatevm" /\ manager \in {"dnf cli", "dnf", "dnf5"} => new = pkgs,
         manager # "apt cli" => c # OK_NO_UPDATES
  PROVE  UpgradeFact(manager, type, pkgs, Ran(c, new))
  <1>1. manager \in {"apt", "pacman", "dnf cli", "dnf", "dnf5"} => c # OK_NO_UPDATES
    OBVIOUS
  <1> QED
    BY <1>1, UpgradedFact, SingleLoud DEF Ran

LEMMA KernelCodes ==
  ASSUME NEW k \in RemoveObsoleteKernels
  PROVE  /\ k \in Int
         /\ \A c \in {OK, ERR_VM_UPDATE} : c # OK_NO_UPDATES /\ MaxOf(c, k) # OK_NO_UPDATES
  BY DEF RemoveObsoleteKernels, MaxOf, OK, ERR_VM_CLEANUP, OK_NO_UPDATES, ERR_VM_UPDATE

\* apt-get through its command line or its API.
LEMMA AptFacts ==
  ASSUME NEW type, NEW pkgs \in Installations, NEW obsolete,
         NEW c \in Int, NEW k \in RemoveObsoleteKernels, NEW new \in After(pkgs),
         NEW manager \in {"apt cli", "apt"},
         manager = "apt" => c \in {OK, ERR_VM_UPDATE}
  PROVE  UpgradeFact(manager, type, pkgs, AptRan(obsolete, c, k, new))
  <1>1. new \in Installations
    BY AfterType
  <1>2. k \in Int
    BY KernelCodes
  <1>3. c \in {OK, ERR_VM_UPDATE} => c # OK_NO_UPDATES /\ MaxOf(c, k) # OK_NO_UPDATES
    BY KernelCodes
  <1>4. /\ manager \notin {"dnf cli", "dnf", "dnf5", "pacman"}
        /\ manager # "apt cli" => manager = "apt"
    OBVIOUS
  <1>5. CASE ~obsolete
    BY <1>1, <1>3, <1>4, <1>5, RanFact DEF AptRan
  <1>6. CASE obsolete
    BY <1>1, <1>2, <1>3, <1>4, <1>6, UpgradedFact, BothLoud DEF AptRan
  <1> QED
    BY <1>5, <1>6

LEMMA CliFacts ==
  ASSUME NEW type, NEW pkgs \in Installations, NEW manager \in {"dnf cli", "pacman"},
         NEW c \in CliCodes, NEW new \in Installs(type, pkgs)
  PROVE  UpgradeFact(manager, type, pkgs, Ran(c, new))
  <1>1. c \in Int /\ c # OK_NO_UPDATES
    BY PackageManagersAssumption DEF CliCodes, OK_NO_UPDATES
  <1> QED
    BY <1>1, InstallsType, RanFact

\* The outcomes both dnf APIs have without a transaction.
LEMMA ApiFacts ==
  ASSUME NEW type, NEW manager \in {"dnf", "dnf5"}, NEW pkgs \in Installations,
         NEW u \in ApiUpgrade(pkgs)
  PROVE  UpgradeFact(manager, type, pkgs, u)
  <1>1. manager \notin {"apt", "pacman", "dnf cli"}
    OBVIOUS
  <1>2. OK_NO_UPDATES \in Int /\ {} \in SUBSET Int
    BY DEF OK_NO_UPDATES
  <1>3. /\ ERR_VM_UPDATE \in Int /\ ERR_VM_UPDATE # OK_NO_UPDATES
    BY DEF ERR_VM_UPDATE, OK_NO_UPDATES
  <1>4. UpgradeFact(manager, type, pkgs, NothingToDo(pkgs))
    BY <1>1, <1>2, NoneLoud, UpgradedFact DEF NothingToDo
  <1>5. UpgradeFact(manager, type, pkgs, RaisedEarly(pkgs))
    BY <1>1, <1>3, SingleLoud, UpgradedFact DEF RaisedEarly
  <1> QED
    BY <1>4, <1>5 DEF ApiUpgrade

\* The codes of a transaction and of the signatures before it.
LEMMA TransactionCodes ==
  ASSUME NEW s \in SignatureCodes \cup {ERR_VM_UPDATE}, NEW c \in {OK, ERR_VM_UPDATE}
  PROVE  /\ s \in Int /\ c \in Int /\ MaxOf(s, c) # OK_NO_UPDATES
         /\ s # OK \/ c # OK => MaxOf(s, c) # OK
  <1>1. SignatureCodes = {0, 1, 2}
    BY DEF SignatureCodes
  <1> QED
    BY <1>1 DEF MaxOf, OK, ERR_VM_UPDATE, OK_NO_UPDATES

\* A transaction that follows a refused signature leaves the packages alone.
LEMMA TransactionFacts ==
  ASSUME NEW type, NEW manager \in {"dnf", "dnf5"}, NEW pkgs \in Installations,
         NEW s \in SignatureCodes \cup {ERR_VM_UPDATE},
         NEW u \in ApiTransaction(type, s, pkgs)
  PROVE  /\ UpgradeFact(manager, type, pkgs, u)
         /\ s # OK => u.packages = pkgs /\ u.code # OK /\ u.code # OK_NO_UPDATES
         /\ Fails(u.runs) => u.code # OK /\ u.code # OK_NO_UPDATES
  <1>1. PICK c \in {OK, ERR_VM_UPDATE}, new \in Transacted(type, s, pkgs) :
          u = Upgraded(MaxOf(s, c), {s, c}, new)
    BY DEF ApiTransaction
  <1>2. new \in Installations /\ (s # OK \/ type = "updatevm" => new = pkgs)
    BY InstallsType DEF Transacted
  <1>3. /\ s \in Int /\ c \in Int /\ MaxOf(s, c) # OK_NO_UPDATES
        /\ s # OK \/ c # OK => MaxOf(s, c) # OK
    BY TransactionCodes
  <1>4. manager \notin {"apt", "pacman", "dnf cli"}
    OBVIOUS
  <1>5. UpgradeFact(manager, type, pkgs, u)
    BY <1>1, <1>2, <1>3, <1>4, BothLoud, UpgradedFact
  <1>6. u.code = MaxOf(s, c) /\ u.runs = {s, c} /\ u.packages = new
    BY <1>1 DEF Upgraded
  <1>7. Fails({s, c}) => s # OK \/ c # OK
    BY DEF Fails
  <1> QED
    BY <1>2, <1>3, <1>5, <1>6, <1>7

LEMMA UpgradeFacts ==
  ASSUME NEW type \in AgentTypes, NEW manager \in Managers, NEW pkgs \in Installations,
         NEW obsolete \in BOOLEAN, NEW u \in UpgradeOutcomes(manager, type, pkgs, obsolete)
  PROVE  UpgradeFact(manager, type, pkgs, u)
  <1>1. CASE manager = "apt cli"
    <2>1. u \in AptCliUpgrade(pkgs, obsolete)
      BY <1>1 DEF UpgradeOutcomes
    <2>2. PICK c \in RunCodes, k \in RemoveObsoleteKernels, new \in After(pkgs) :
            u = AptRan(obsolete, c, k, new)
      BY <2>1 DEF AptCliUpgrade
    <2> QED
      BY <1>1, <2>2, AptFacts, PackageManagersAssumption
  <1>2. CASE manager = "apt"
    <2>1. u \in AptUpgrade(pkgs, obsolete)
      BY <1>2 DEF UpgradeOutcomes
    <2>2. PICK c \in {OK, ERR_VM_UPDATE}, k \in RemoveObsoleteKernels, new \in After(pkgs) :
            u = AptRan(obsolete, c, k, new)
      BY <2>1 DEF AptUpgrade
    <2>3. c \in Int
      BY <2>2 DEF OK, ERR_VM_UPDATE
    <2> QED
      BY <1>2, <2>2, <2>3, AptFacts
  <1>3. CASE manager \in {"dnf cli", "pacman"}
    <2>1. u \in CliUpgrade(type, pkgs)
      BY <1>3 DEF UpgradeOutcomes
    <2>2. \E c \in CliCodes, new \in Installs(type, pkgs) : u = Ran(c, new)
      BY <2>1, CliPick
    <2> QED
      BY <1>3, <2>2, CliFacts
  <1>4. CASE manager = "dnf"
    BY <1>4, ApiFacts DEF UpgradeOutcomes
  <1>5. CASE manager = "dnf5"
    BY <1>5, ApiFacts DEF UpgradeOutcomes
  <1> QED
    BY <1>1, <1>2, <1>3, <1>4, <1>5 DEF Managers

\* An UpdateVM always works with dnf and has no requirements.
LEMMA OptionFacts ==
  ASSUME NEW os \in Systems, NEW hard \in BOOLEAN
  PROVE  LET o == OptionsOf(os, hard)
         IN  /\ o \in Options
             /\ o.type = "updatevm" =>
                  ~o.requirements /\ o.manager \in {"dnf cli", "dnf", "dnf5"}
  <1>1. /\ AgentType(os) \in AgentTypes
        /\ AgentType(os) = "dom0" => os.family = "qubes"
        /\ AgentType(os) = "vm" => os.family \in {"fedora", "centos", "debian", "arch"}
    BY DEF AgentType, AgentTypes, Systems
  <1>2. \A recent, importable, noProgress :
          ImportDnf(recent, importable, noProgress) \in {"dnf cli", "dnf", "dnf5"}
    BY DEF ImportDnf
  <1>3. \A importable, noProgress : ImportDebian(importable, noProgress) \in {"apt", "apt cli"}
    BY DEF ImportDebian
  <1>4. AgentType(os) = "updatevm" => GetPackageManager(os) \in {"dnf cli", "dnf", "dnf5"}
    BY <1>1, <1>2 DEF GetPackageManager
  <1>5. AgentType(os) = "dom0" => GetPackageManager(os) \in Managers
    BY <1>1, <1>2 DEF GetPackageManager, ImportDom0, Managers
  <1>6. AgentType(os) = "vm" => GetPackageManager(os) \in Managers
    BY <1>1, <1>2, <1>3 DEF GetPackageManager, Managers
  <1>7. HasRequirements(os) \in BOOLEAN /\ (AgentType(os) = "updatevm" => ~HasRequirements(os))
    BY DEF HasRequirements
  <1> QED
    BY <1>1, <1>4, <1>5, <1>6, <1>7 DEF OptionsOf, Options, AgentTypes, Managers

--------------------------------------------------------------------------------
(***************************************************************************)
(* The inductive invariant: it holds when the agent starts, and every      *)
(* stage keeps it.                                                         *)
(***************************************************************************)
LEMMA AgentInit == Init => AgentInv
  <1> SUFFICES ASSUME Init PROVE AgentInv
    OBVIOUS
  <1>1. PICK os \in Systems, hard \in BOOLEAN : opts = OptionsOf(os, hard)
    BY DEF Init
  <1>2. /\ opts \in Options
        /\ opts.type = "updatevm" =>
             ~opts.requirements /\ opts.manager \in {"dnf cli", "dnf", "dnf5"}
    BY <1>1, OptionFacts
  <1>3. old \in Installations
    BY DEF Init, NoPackages, Installations
  <1>4. TypeOK
    <2>1. /\ pc = "query" /\ packages \in Installations /\ start = packages
          /\ result = OK /\ sign = OK /\ exit = NotExited /\ failed = {}
      BY DEF Init
    <2>2. killed = FALSE /\ blind = FALSE /\ refused = FALSE /\ upgraded = FALSE
      BY DEF Init
    <2>3. OK \in SignatureCodes
      BY DEF OK, SignatureCodes
    <2> QED
      BY <1>2, <1>3, <2>1, <2>2, <2>3 DEF TypeOK
  <1>5. StageInv /\ SignInv /\ DownloadOnly
    BY <1>2 DEF Init, StageInv, SignInv, DownloadOnly
  <1>6. CodeInv /\ HardFail
    BY DEF Init, CodeInv, HardFail, NotExited, OK, OK_NO_UPDATES, ERR_VM_PRE, ERR_VM_REFRESH
  <1> QED
    BY <1>4, <1>5, <1>6 DEF AgentInv

LEMMA QueryKeeps == ASSUME AgentInv, Query PROVE AgentInv'
  <1> USE DEF AgentInv, Query
  <1>1. TypeOK'
    <2>1. old' \in Installations /\ blind' \in BOOLEAN
      BY DEF TypeOK, GetPackages, NoPackages, Installations
    <2> QED
      BY <2>1 DEF TypeOK
  <1>2. StageInv'
    BY DEF TypeOK, StageInv
  <1>3. CodeInv' /\ HardFail'
    BY DEF TypeOK, StageInv, CodeInv, HardFail, Telling, Comparing,
           OK, OK_NO_UPDATES, ERR_VM_PRE, ERR_VM_REFRESH
  <1>4. SignInv' /\ DownloadOnly'
    BY DEF SignInv, DownloadOnly
  <1> QED
    BY <1>1, <1>2, <1>3, <1>4

\* The code of the requirements: 22 when a command failed by itself.
LEMMA PreCodeFacts ==
  ASSUME NEW runs \in SUBSET Int
  PROVE  /\ PreCode(runs) \in {OK, ERR_VM_PRE}
         /\ Fails(runs) /\ ~Killed(runs) => PreCode(runs) = ERR_VM_PRE
  <1>1. PreCode(runs) = IF \E c \in runs : c > OK THEN ERR_VM_PRE ELSE OK
    BY DEF PreCode
  <1>2. ASSUME Fails(runs), ~Killed(runs) PROVE \E c \in runs : c > OK
    <2>1. PICK c \in runs : c # OK
      BY <1>2 DEF Fails
    <2> QED
      BY <1>2, <2>1 DEF Killed, OK
  <1> QED
    BY <1>1, <1>2

\* What the step leaves for the stages to come.
LEMMA RequirementsEffect ==
  ASSUME AgentInv, Requirements
  PROVE  /\ packages' \in Installations
         /\ ~opts.requirements => packages' = packages
         /\ result' \in {OK, ERR_VM_PRE}
         /\ failed' \subseteq {"requirements"} /\ killed' \in BOOLEAN
         /\ failed' # {} /\ ~killed' => result' = ERR_VM_PRE
  <1> USE DEF AgentInv
  <1>1. CASE ~opts.requirements
    BY <1>1 DEF Requirements, TypeOK, StageInv
  <1>2. CASE opts.requirements
    <2> DEFINE needed == (IF ToInstall # {} THEN {"install"} ELSE {})
                         \cup (IF ToUpgrade # {} THEN {"upgrade"} ELSE {})
               runs(codes) == {codes[i] : i \in DOMAIN codes}
    <2>1. PICK codes \in Runs(needed) :
            /\ result' = PreCode(runs(codes))
            /\ Note("requirements", Outcome(result', runs(codes)))
            /\ packages' \in (IF runs(codes) = {} THEN {packages} ELSE After(packages))
      BY <1>2 DEF Requirements
    <2> HIDE DEF needed
    <2>2. runs(codes) \in SUBSET Int
      BY <2>1, PackageManagersAssumption DEF Runs
    <2> HIDE DEF runs
    <2>3. packages' \in Installations
      BY <2>1, AfterType DEF TypeOK
    <2>4. Outcome(result', runs(codes)).runs = runs(codes)
      BY DEF Outcome
    <2>5. /\ failed' = IF Fails(runs(codes)) THEN failed \cup {"requirements"} ELSE failed
          /\ killed' = (killed \/ Killed(runs(codes)))
      BY <2>1, <2>4 DEF Note
    <2>6. failed = {} /\ killed \in BOOLEAN
      BY DEF TypeOK, StageInv, Requirements
    <2>7. Killed(runs(codes)) \in BOOLEAN
      BY DEF Killed
    <2> QED
      BY <1>2, <2>1, <2>2, <2>3, <2>5, <2>6, <2>7, PreCodeFacts
  <1> QED
    BY <1>1, <1>2

LEMMA RequirementsKeeps == ASSUME AgentInv, Requirements PROVE AgentInv'
  <1>1. /\ pc = "requirements"
        /\ pc' = IF result' # OK /\ opts.hardFail THEN "clean" ELSE "refresh"
        /\ UNCHANGED <<opts, old, sign, exit, start, blind, refused, upgraded>>
    BY DEF Requirements
  <1> USE RequirementsEffect, <1>1 DEF AgentInv
  <1>2. TypeOK'
    BY DEF TypeOK
  <1>3. StageInv'
    BY DEF StageInv
  <1>4. CodeInv' /\ HardFail'
    <2>1. OK # OK_NO_UPDATES /\ ERR_VM_PRE # OK_NO_UPDATES
      BY DEF OK, OK_NO_UPDATES, ERR_VM_PRE
    <2>2. OK # ERR_VM_PRE /\ OK # ERR_VM_REFRESH
      BY DEF OK, ERR_VM_PRE, ERR_VM_REFRESH
    <2>3. CodeInv'
      BY <2>1 DEF StageInv, CodeInv, Telling
    <2>4. HardFail'
      BY <2>2 DEF StageInv, HardFail
    <2> QED
      BY <2>3, <2>4
  <1>5. SignInv' /\ DownloadOnly'
    BY DEF StageInv, SignInv, DownloadOnly
  <1> QED
    BY <1>2, <1>3, <1>4, <1>5

\* What comes of a refresh that was tried.
LEMMA RefreshEffect ==
  ASSUME AgentInv, Refresh
  PROVE  /\ result' \in {OK, ERR_VM_PRE, ERR_VM_REFRESH}
         /\ result # OK => result' # OK
         /\ failed' \in {failed, failed \cup {"refresh"}} /\ killed' \in BOOLEAN
         /\ killed => killed'
         /\ opts.manager \in {"apt", "pacman", "dnf", "dnf5"} /\ ~killed' /\ failed' # failed =>
              result' # OK
  <1> USE DEF AgentInv
  <1>1. PICK r \in RefreshOutcomes(opts.manager, opts.type) :
          /\ result' = MaxOf(result, IF r.code = OK THEN OK ELSE ERR_VM_REFRESH)
          /\ Note("refresh", r)
    BY DEF Refresh
  <1>2. opts.manager \in Managers /\ opts.type \in AgentTypes
    BY DEF TypeOK, Options
  <1>3. RefreshFact(opts.manager, r)
    BY <1>1, <1>2, RefreshFacts
  <1>4. /\ failed' = IF Fails(r.runs) THEN failed \cup {"refresh"} ELSE failed
        /\ killed' = (killed \/ Killed(r.runs))
    BY <1>1 DEF Note
  <1>5. result \in {OK, ERR_VM_PRE, ERR_VM_REFRESH}
    BY DEF StageInv, Refresh
  <1>6. /\ result' \in {OK, ERR_VM_PRE, ERR_VM_REFRESH}
        /\ result # OK \/ r.code # OK => result' # OK
    BY <1>1, <1>5 DEF MaxOf, OK, ERR_VM_PRE, ERR_VM_REFRESH
  <1>7. Killed(r.runs) \in BOOLEAN /\ killed \in BOOLEAN
    BY DEF Killed, TypeOK
  <1>8. opts.manager \in {"apt", "pacman", "dnf", "dnf5"} /\ ~Killed(r.runs) /\ Fails(r.runs)
          => r.code # OK
    BY <1>3 DEF RefreshFact, Loud, OK
  <1> QED
    BY <1>4, <1>6, <1>7, <1>8

LEMMA RefreshKeeps == ASSUME AgentInv, Refresh PROVE AgentInv'
  <1>1. /\ pc = "refresh"
        /\ pc' = IF result' # OK /\ opts.hardFail THEN "clean" ELSE "upgrade"
        /\ UNCHANGED <<opts, packages, old, sign, exit, start, blind, refused, upgraded>>
    BY DEF Refresh
  <1> USE RefreshEffect, <1>1 DEF AgentInv
  <1>2. TypeOK'
    BY DEF TypeOK
  <1>3. StageInv'
    BY DEF StageInv
  <1>4. OK # OK_NO_UPDATES /\ ERR_VM_PRE # OK_NO_UPDATES /\ ERR_VM_REFRESH # OK_NO_UPDATES
    BY DEF OK, OK_NO_UPDATES, ERR_VM_PRE, ERR_VM_REFRESH
  <1>5. OK # ERR_VM_PRE /\ OK # ERR_VM_REFRESH /\ OK # ERR_VM_UPDATE
    BY DEF OK, ERR_VM_PRE, ERR_VM_REFRESH, ERR_VM_UPDATE
  <1>6. CodeInv'
    <2>1. Telling' = Telling /\ (Telling => opts.manager \in {"apt", "pacman", "dnf", "dnf5"})
      BY DEF Telling
    <2>2. ASSUME Telling', ~killed', failed' \ {"cleanup"} # {} PROVE result' # OK
      <3>1. CASE failed' = failed
        <4>1. result # OK
          BY <2>1, <2>2, <3>1, <1>5 DEF CodeInv
        <4> QED
          BY <4>1
      <3>2. CASE failed' # failed
        BY <2>1, <2>2, <3>2
      <3> QED
        BY <3>1, <3>2
    <2>3. failed' \cap {"cleanup", "agent"} = {} /\ exit' = NotExited
      BY DEF CodeInv
    <2> QED
      BY <1>4, <2>2, <2>3 DEF CodeInv
  <1>7. HardFail'
    BY <1>5 DEF StageInv, HardFail
  <1>8. SignInv' /\ DownloadOnly'
    BY DEF StageInv, SignInv, DownloadOnly
  <1> QED
    BY <1>2, <1>3, <1>6, <1>7, <1>8

LEMMA NoRefreshKeeps == ASSUME AgentInv, NoRefresh PROVE AgentInv'
  <1> USE DEF AgentInv, NoRefresh, history
  <1>1. TypeOK'
    BY DEF TypeOK
  <1>2. StageInv'
    BY DEF StageInv
  <1>3. CodeInv'
    BY DEF CodeInv, Telling, Comparing
  <1>4. HardFail' /\ SignInv' /\ DownloadOnly'
    BY DEF StageInv, HardFail, SignInv, DownloadOnly
  <1> QED
    BY <1>1, <1>2, <1>3, <1>4

\* The codes of the stages never mask each other, except that 100 outranks an
\* earlier failure, which only the dnf APIs without hard_fail can meet.
LEMMA UpgradeResult ==
  ASSUME NEW r \in {OK, ERR_VM_PRE, ERR_VM_REFRESH}, NEW c \in Int, NEW new,
         new = MaxOf(r, IF c \in {OK, OK_NO_UPDATES} THEN c ELSE ERR_VM_UPDATE)
  PROVE  /\ new \in {OK, OK_NO_UPDATES, ERR_VM_PRE, ERR_VM_REFRESH, ERR_VM_UPDATE}
         /\ new = OK_NO_UPDATES <=> c = OK_NO_UPDATES
         /\ c # OK /\ c # OK_NO_UPDATES => new = ERR_VM_UPDATE
         /\ r # OK /\ c # OK_NO_UPDATES => new \in {ERR_VM_PRE, ERR_VM_REFRESH, ERR_VM_UPDATE}
         /\ r = OK => new \in {OK, OK_NO_UPDATES, ERR_VM_UPDATE}
  BY DEF MaxOf, OK, OK_NO_UPDATES, ERR_VM_PRE, ERR_VM_REFRESH, ERR_VM_UPDATE

\* What comes of an upgrade, with a transaction or without one.
LEMMA ReturnEffect ==
  ASSUME AgentInv, pc \in {"upgrade", "sign"},
         NEW u, UpgradeFact(opts.manager, opts.type, packages, u), Return(u)
  PROVE  /\ packages' \in Installations
         /\ killed' \in BOOLEAN /\ upgraded' \in BOOLEAN
         /\ failed' \in {failed, failed \cup {"upgrade"}}
         /\ opts.type = "updatevm" => packages' = packages
         /\ upgraded' => packages' # packages
         /\ result' \in {OK, OK_NO_UPDATES, ERR_VM_PRE, ERR_VM_REFRESH, ERR_VM_UPDATE}
         /\ opts.hardFail => result' \in {OK, OK_NO_UPDATES, ERR_VM_UPDATE}
         /\ Comparing => result' # OK_NO_UPDATES
         /\ Telling /\ ~killed' /\ failed' # {} =>
              result' \in {ERR_VM_PRE, ERR_VM_REFRESH, ERR_VM_UPDATE}
  <1> USE DEF AgentInv
  <1>1. /\ result' = MaxOf(result, IF u.code \in {OK, OK_NO_UPDATES} THEN u.code
                                   ELSE ERR_VM_UPDATE)
        /\ packages' = u.packages /\ Note("upgrade", u)
        /\ upgraded' = (u.packages # packages)
    BY DEF Return
  <1>3. UpgradeFact(opts.manager, opts.type, packages, u)
    OBVIOUS
  <1>4. /\ failed' = IF Fails(u.runs) THEN failed \cup {"upgrade"} ELSE failed
        /\ killed' = (killed \/ Killed(u.runs))
    BY <1>1 DEF Note
  <1>5. result \in {OK, ERR_VM_PRE, ERR_VM_REFRESH} /\ (opts.hardFail => result = OK)
    BY <1>1 DEF StageInv, HardFail
  <1>6. failed \cap {"cleanup", "agent"} = {} /\ killed \in BOOLEAN /\ failed \subseteq failed'
    BY <1>1, <1>4 DEF CodeInv, TypeOK
  <1>7. /\ killed' \in BOOLEAN /\ upgraded' \in BOOLEAN
        /\ failed' \in {failed, failed \cup {"upgrade"}}
    BY <1>1, <1>4, <1>6 DEF Killed
  <1>8. /\ packages' \in Installations
        /\ opts.type = "updatevm" => packages' = packages
        /\ upgraded' => packages' # packages
    <2>1. opts.type = "updatevm" => opts.manager \in {"dnf cli", "dnf", "dnf5"}
      BY DEF StageInv
    <2> QED
      BY <1>1, <1>3, <2>1 DEF UpgradeFact
  <1>9. u.code \in Int
    BY <1>3 DEF UpgradeFact
  <1>10. /\ result' \in {OK, OK_NO_UPDATES, ERR_VM_PRE, ERR_VM_REFRESH, ERR_VM_UPDATE}
         /\ result' = OK_NO_UPDATES <=> u.code = OK_NO_UPDATES
         /\ u.code # OK /\ u.code # OK_NO_UPDATES => result' = ERR_VM_UPDATE
         /\ result # OK /\ u.code # OK_NO_UPDATES =>
              result' \in {ERR_VM_PRE, ERR_VM_REFRESH, ERR_VM_UPDATE}
         /\ opts.hardFail => result' \in {OK, OK_NO_UPDATES, ERR_VM_UPDATE}
    BY <1>1, <1>5, <1>9, UpgradeResult
  <1>11. Comparing => result' # OK_NO_UPDATES
    BY <1>3, <1>10 DEF Comparing, UpgradeFact
  <1>12. ASSUME Telling, ~killed', failed' # {}
         PROVE  result' \in {ERR_VM_PRE, ERR_VM_REFRESH, ERR_VM_UPDATE}
    <2>1. CASE Fails(u.runs)
      <3>1. opts.manager \in {"apt", "pacman", "dnf", "dnf5"}
        BY <1>12 DEF Telling
      <3>2. u.code # OK
        <4>1. u.code > OK
          BY <1>3, <1>4, <1>12, <2>1, <3>1 DEF UpgradeFact, Loud
        <4> QED
          BY <1>9, <4>1 DEF OK
      <3>3. u.code # OK_NO_UPDATES
        <4>1. u.runs # {}
          BY <2>1 DEF Fails
        <4> QED
          BY <1>3, <3>1, <4>1 DEF UpgradeFact
      <3> QED
        BY <1>10, <3>2, <3>3
    <2>2. CASE ~Fails(u.runs)
      <3>1. failed \ {"cleanup"} # {} /\ ~killed
        BY <1>4, <1>6, <1>12, <2>2
      <3>2. result \in {ERR_VM_PRE, ERR_VM_REFRESH, ERR_VM_UPDATE}
        BY <1>1, <1>12, <3>1 DEF CodeInv
      <3>3. result # OK
        BY <3>2 DEF OK, ERR_VM_PRE, ERR_VM_REFRESH, ERR_VM_UPDATE
      <3>4. u.code # OK_NO_UPDATES
        BY <1>3, <1>5, <1>12, <3>3 DEF Telling, UpgradeFact
      <3> QED
        BY <1>10, <3>3, <3>4
    <2> QED
      BY <2>1, <2>2
  <1> QED
    BY <1>7, <1>8, <1>10, <1>11, <1>12

LEMMA HardCodes ==
  \A c \in {OK, OK_NO_UPDATES, ERR_VM_UPDATE} : c # ERR_VM_PRE /\ c # ERR_VM_REFRESH
  BY DEF OK, OK_NO_UPDATES, ERR_VM_PRE, ERR_VM_REFRESH, ERR_VM_UPDATE

\* An upgrade that changes nothing when a signature was refused, and then tells.
LEMMA ReturnKeeps ==
  ASSUME AgentInv, pc \in {"upgrade", "sign"},
         NEW u, UpgradeFact(opts.manager, opts.type, packages, u), Return(u),
         refused => u.packages = packages /\ u.code # OK /\ u.code # OK_NO_UPDATES
  PROVE  AgentInv'
  <1>1. /\ pc' = IF result' # OK \/ opts.type = "updatevm" THEN "clean" ELSE "compare"
        /\ UNCHANGED <<opts, old, sign, exit, start, blind, refused>>
    BY DEF Return
  <1> USE <1>1, ReturnEffect DEF AgentInv
  <1>2. TypeOK'
    BY DEF TypeOK
  <1>3. StageInv'
    BY DEF StageInv
  <1>4. CodeInv'
    <2>1. Telling' = Telling /\ Comparing' = Comparing
      BY DEF Telling, Comparing
    <2>2. failed' \cap {"cleanup", "agent"} = {} /\ exit' = NotExited
      BY DEF CodeInv
    <2>3. failed' \ {"cleanup"} = failed' /\ pc' # "exited"
      BY <2>2
    <2>4. Telling' /\ ~killed' /\ failed' \ {"cleanup"} # {} =>
            result' \in {ERR_VM_PRE, ERR_VM_REFRESH, ERR_VM_UPDATE}
      BY <2>1, <2>3
    <2>5. ~(Comparing' /\ result' = OK_NO_UPDATES)
      BY <2>1
    <2> QED
      BY <2>2, <2>3, <2>4, <2>5 DEF CodeInv
  <1>5. HardFail'
    <2>1. opts.hardFail => result' # ERR_VM_PRE /\ result' # ERR_VM_REFRESH
      BY HardCodes
    <2> QED
      BY <2>1 DEF HardFail
  <1>6. SignInv'
    <2>1. SUFFICES ASSUME refused PROVE sign # OK /\ ~upgraded' /\ result' = ERR_VM_UPDATE
      BY DEF SignInv
    <2>2. sign # OK
      BY <2>1 DEF SignInv
    <2>3. ~upgraded'
      BY <2>1 DEF Return
    <2>4. result \in {OK, ERR_VM_PRE, ERR_VM_REFRESH} /\ u.code \in Int
      BY DEF StageInv, UpgradeFact
    <2>5. result' = ERR_VM_UPDATE
      BY <2>1, <2>4, UpgradeResult DEF Return
    <2> QED
      BY <2>2, <2>3, <2>5
  <1>7. DownloadOnly'
    BY DEF DownloadOnly
  <1> QED
    BY <1>2, <1>3, <1>4, <1>5, <1>6, <1>7

LEMMA UpgradeKeeps ==
  ASSUME AgentInv, NEW obsolete \in BOOLEAN,
         NEW u \in UpgradeOutcomes(opts.manager, opts.type, packages, obsolete), Upgrade(u)
  PROVE  AgentInv'
  <1>1. opts.manager \in Managers /\ opts.type \in AgentTypes /\ packages \in Installations
    BY DEF AgentInv, TypeOK, Options
  <1>2. pc = "upgrade" /\ Return(u) /\ ~refused
    BY DEF Upgrade, AgentInv, StageInv
  <1> QED
    BY <1>1, <1>2, UpgradeFacts, ReturnKeeps

LEMMA TransactKeeps == ASSUME AgentInv, Transact PROVE AgentInv'
  <1>1. PICK u \in ApiTransaction(opts.type, sign, packages) : Return(u)
    BY DEF Transact
  <1>2. /\ pc = "sign" /\ opts.manager \in {"dnf", "dnf5"} /\ packages \in Installations
        /\ sign \in SignatureCodes \cup {ERR_VM_UPDATE}
    BY DEF Transact, AgentInv, StageInv, TypeOK
  <1>3. refused => sign # OK
    BY DEF AgentInv, SignInv
  <1> QED
    BY <1>1, <1>2, <1>3, TransactionFacts, ReturnKeeps

LEMMA DownloadedKeeps == ASSUME AgentInv, Downloaded PROVE AgentInv'
  <1>1. /\ pc = "upgrade" /\ pc' = "sign" /\ opts.manager \in {"dnf", "dnf5"}
        /\ UNCHANGED <<opts, packages, old, result, sign, exit, start, failed, killed, blind,
                      refused, upgraded>>
    BY DEF Downloaded, history
  <1> USE <1>1 DEF AgentInv
  <1>2. TypeOK'
    BY DEF TypeOK
  <1>3. StageInv'
    BY DEF StageInv
  <1>4. CodeInv'
    BY DEF CodeInv, Telling, Comparing
  <1>5. HardFail'
    BY DEF HardFail
  <1>6. SignInv' /\ DownloadOnly'
    BY DEF StageInv, SignInv, DownloadOnly
  <1> QED
    BY <1>2, <1>3, <1>4, <1>5, <1>6

\* Signatures are checked: only their code and the history move.
LEMMA SigningKeeps ==
  ASSUME AgentInv, pc = "sign",
         sign' \in SignatureCodes \cup {ERR_VM_UPDATE}, refused' \in BOOLEAN,
         refused' => sign' # OK,
         UNCHANGED <<pc, opts, packages, old, result, exit, start, failed, killed, blind, upgraded>>
  PROVE  AgentInv'
  <1> USE DEF AgentInv
  <1>1. TypeOK'
    BY DEF TypeOK
  <1>2. StageInv'
    BY DEF StageInv
  <1>3. CodeInv'
    BY DEF CodeInv, Telling, Comparing
  <1>4. HardFail'
    BY DEF HardFail
  <1>5. SignInv' /\ DownloadOnly'
    BY DEF StageInv, SignInv, DownloadOnly
  <1> QED
    BY <1>1, <1>2, <1>3, <1>4, <1>5

LEMMA SignCheckKeeps ==
  ASSUME AgentInv, NEW first \in SignatureCodes, NEW second \in SignatureCodes,
         NEW imported \in BOOLEAN, SignCheck(first, imported, second)
  PROVE  AgentInv'
  <1>1. /\ pc = "sign" /\ sign' = MaxOf(sign, Turn(first, imported, second))
        /\ refused' = (refused \/ (first # OK /\ ~(imported /\ second = OK)))
        /\ UNCHANGED <<pc, opts, packages, old, result, exit, start, failed, killed, blind,
                      upgraded>>
    BY DEF SignCheck, Turn
  <1>2. sign \in SignatureCodes \cup {ERR_VM_UPDATE} /\ refused \in BOOLEAN
    BY DEF AgentInv, TypeOK
  <1>3. refused => sign # OK
    BY DEF AgentInv, SignInv
  <1> DEFINE new == MaxOf(sign, Turn(first, imported, second))
  <1>6. /\ new \in SignatureCodes \cup {ERR_VM_UPDATE}
        /\ sign # OK => new # OK
        /\ first # OK /\ ~(imported /\ second = OK) => new # OK
    BY ONLY <1>2, SignFacts
  <1>7. sign' = new
    BY <1>1
  <1> HIDE DEF new
  <1>4. /\ sign' \in SignatureCodes \cup {ERR_VM_UPDATE}
        /\ refused' => sign' # OK
    BY <1>1, <1>3, <1>6, <1>7
  <1>5. refused' \in BOOLEAN
    BY <1>1, <1>2
  <1> QED
    BY <1>1, <1>4, <1>5, SigningKeeps

LEMMA SignaturesRefusedKeeps == ASSUME AgentInv, SignaturesRefused PROVE AgentInv'
  <1>1. ERR_VM_UPDATE # OK
    BY DEF ERR_VM_UPDATE, OK
  <1> QED
    BY <1>1, SigningKeeps DEF SignaturesRefused

LEMMA CompareKeeps == ASSUME AgentInv, Compare PROVE AgentInv'
  <1> USE DEF AgentInv
  <1>1. PICK now \in GetPackages(packages) :
          /\ result' = IF NewPackages(old, now) # {} THEN result ELSE OK_NO_UPDATES
          /\ blind' = (blind \/ now # packages)
    BY DEF Compare
  <1>2. /\ pc = "compare" /\ pc' = "clean" /\ result = OK
        /\ UNCHANGED <<opts, packages, old, sign, exit, start, failed, killed, refused, upgraded>>
    BY DEF Compare, StageInv
  <1>3. result' \in {OK, OK_NO_UPDATES} /\ blind' \in BOOLEAN
    BY <1>1, <1>2
  <1>4. TypeOK'
    BY <1>2, <1>3 DEF TypeOK
  <1>5. StageInv'
    BY <1>2 DEF StageInv
  <1>6. CodeInv'
    <2>1. Telling /\ ~killed => failed \ {"cleanup"} = {}
      <3>1. OK \notin {ERR_VM_PRE, ERR_VM_REFRESH, ERR_VM_UPDATE}
        BY DEF OK, ERR_VM_PRE, ERR_VM_REFRESH, ERR_VM_UPDATE
      <3> QED
        BY <1>2, <3>1 DEF CodeInv
    <2>2. ASSUME ~blind', result' = OK_NO_UPDATES
          PROVE  \A p \in Packages : packages[p] \in {0, start[p]}
      <3>1. old = start /\ now = packages
        BY <1>1, <1>2, <2>2 DEF StageInv, TypeOK
      <3>2. OK # OK_NO_UPDATES
        BY DEF OK, OK_NO_UPDATES
      <3>3. NewPackages(old, now) = {}
        BY <1>1, <1>2, <2>2, <3>2
      <3> QED
        BY <3>1, <3>3 DEF NewPackages
    <2>3. exit' = NotExited /\ failed' \cap {"cleanup", "agent"} = {}
      BY <1>2 DEF CodeInv
    <2>4. Telling' = Telling
      BY <1>2 DEF Telling
    <2> QED
      BY <1>2, <2>1, <2>2, <2>3, <2>4 DEF CodeInv
  <1>7. HardFail'
    <2>1. \A c \in {OK, OK_NO_UPDATES} : c # ERR_VM_PRE /\ c # ERR_VM_REFRESH
      BY HardCodes
    <2> QED
      BY <1>3, <2>1 DEF HardFail
  <1>8. SignInv' /\ DownloadOnly'
    <2>1. ~refused
      BY <1>2 DEF SignInv, OK, ERR_VM_UPDATE
    <2> QED
      BY <1>2, <2>1 DEF SignInv, DownloadOnly
  <1> QED
    BY <1>4, <1>5, <1>6, <1>7, <1>8

\* Every code of a stage is one dom0 understands, and so is the cleanup's.
LEMMA ExitFacts ==
  ASSUME NEW c \in {OK, ERR_VM_CLEANUP},
         NEW r \in {OK, OK_NO_UPDATES, ERR_VM_PRE, ERR_VM_REFRESH, ERR_VM_UPDATE}
  PROVE  /\ MaxOf(c, r) \in VM_HANDLED /\ r \in VM_HANDLED
         /\ MaxOf(c, r) \in {r, MaxOf(ERR_VM_CLEANUP, r)}
         /\ r \in {ERR_VM_PRE, ERR_VM_REFRESH} =>
              MaxOf(c, r) \in {r} \cup (IF Fails({c}) THEN {ERR_VM_CLEANUP} ELSE {})
  <1>1. CASE c = OK
    BY <1>1 DEF VM_HANDLED, MaxOf, OK, OK_NO_UPDATES, ERR_VM_PRE, ERR_VM_REFRESH,
                ERR_VM_UPDATE, ERR_VM_CLEANUP
  <1>2. CASE c = ERR_VM_CLEANUP
    <2>1. Fails({c})
      BY <1>2 DEF Fails, OK, ERR_VM_CLEANUP
    <2>2. \/ MaxOf(c, r) = ERR_VM_CLEANUP
          \/ MaxOf(c, r) = r /\ r = OK_NO_UPDATES
      BY <1>2 DEF MaxOf, OK, OK_NO_UPDATES, ERR_VM_PRE, ERR_VM_REFRESH,
                  ERR_VM_UPDATE, ERR_VM_CLEANUP
    <2>3. r \in VM_HANDLED /\ ERR_VM_CLEANUP \in VM_HANDLED
      BY DEF VM_HANDLED
    <2>4. OK_NO_UPDATES # ERR_VM_PRE /\ OK_NO_UPDATES # ERR_VM_REFRESH
      BY HardCodes
    <2> QED
      BY <1>2, <2>1, <2>2, <2>3, <2>4
  <1> QED
    BY <1>1, <1>2

\* Ending with a code of the stages, after a cleanup that failed or not.
LEMMA ExitKeeps ==
  ASSUME AgentInv, pc = "clean", NEW c \in {OK, ERR_VM_CLEANUP}, Exit(MaxOf(c, result)),
         failed' = IF Fails({c}) THEN failed \cup {"cleanup"} ELSE failed,
         UNCHANGED <<opts, packages, old, result, sign, start, killed, blind, refused, upgraded>>
  PROVE  AgentInv'
  <1> USE DEF AgentInv
  <1>1. result \in {OK, OK_NO_UPDATES, ERR_VM_PRE, ERR_VM_REFRESH, ERR_VM_UPDATE}
    BY DEF TypeOK
  <1>2. exit' = MaxOf(c, result) /\ exit' \in VM_HANDLED /\ pc' = "exited"
    BY <1>1, ExitFacts DEF Exit
  <1>3. failed \cap {"cleanup", "agent"} = {}
    BY DEF CodeInv
  <1>4. failed' \ {"cleanup"} = failed \ {"cleanup"} /\ "agent" \notin failed'
    BY <1>3
  <1>5. TypeOK'
    BY <1>2 DEF TypeOK
  <1>6. StageInv'
    BY <1>2 DEF StageInv
  <1>7. CodeInv'
    <2>1. Telling' = Telling /\ Comparing' = Comparing
      BY DEF Telling, Comparing
    <2>2. exit' \in {result, MaxOf(ERR_VM_CLEANUP, result)}
      BY <1>1, <1>2, ExitFacts
    <2> QED
      BY <1>2, <1>4, <2>1, <2>2 DEF CodeInv
  <1>8. HardFail'
    <2>1. result \in {ERR_VM_PRE, ERR_VM_REFRESH} =>
            exit' \in {result} \cup (IF Fails({c}) THEN {ERR_VM_CLEANUP} ELSE {})
      BY <1>1, <1>2, ExitFacts
    <2>2. Fails({c}) => "cleanup" \in failed'
      OBVIOUS
    <2> QED
      BY <1>2, <2>1, <2>2 DEF HardFail
  <1>9. SignInv' /\ DownloadOnly'
    BY DEF SignInv, DownloadOnly
  <1> QED
    BY <1>5, <1>6, <1>7, <1>8, <1>9

LEMMA CleanKeeps == ASSUME AgentInv, NEW c \in CleanCodes, Clean(c) PROVE AgentInv'
  <1>1. c \in {OK, ERR_VM_CLEANUP}
    BY DEF CleanCodes
  <1>2. /\ failed' = IF Fails({c}) THEN failed \cup {"cleanup"} ELSE failed
        /\ killed' = (killed \/ Killed({c}))
    <2>1. Single(c).runs = {c}
      BY DEF Single, Outcome
    <2> QED
      BY <2>1 DEF Clean, Note
  <1>3. Killed({c}) = FALSE
    BY <1>1 DEF Killed, OK, ERR_VM_CLEANUP
  <1>4. killed' = killed
    BY <1>2, <1>3 DEF AgentInv, TypeOK
  <1> QED
    BY <1>1, <1>2, <1>4, ExitKeeps DEF Clean

LEMMA NoCleanKeeps == ASSUME AgentInv, NoClean PROVE AgentInv'
  <1>1. MaxOf(OK, result) = result
    BY DEF AgentInv, TypeOK, MaxOf, OK, OK_NO_UPDATES, ERR_VM_PRE, ERR_VM_REFRESH, ERR_VM_UPDATE
  <1>2. Fails({OK}) = FALSE
    BY DEF Fails
  <1> QED
    BY <1>1, <1>2, ExitKeeps DEF NoClean, history

LEMMA RaiseKeeps == ASSUME AgentInv, Raise PROVE AgentInv'
  <1>1. /\ pc' = "exited" /\ exit' \in {ERR, ERR_VM_UNHANDLED} /\ "agent" \in failed'
        /\ failed' = failed \cup {"agent"}
        /\ UNCHANGED <<opts, packages, old, result, sign, start, killed, blind, refused, upgraded>>
    BY DEF Raise
  <1> USE <1>1 DEF AgentInv
  <1>2. TypeOK'
    BY DEF TypeOK
  <1>3. StageInv'
    BY DEF StageInv
  <1>4. CodeInv'
    <2>1. Comparing' = Comparing
      BY DEF Comparing
    <2> QED
      BY <2>1 DEF CodeInv
  <1>5. HardFail'
    BY DEF StageInv, HardFail
  <1>6. SignInv' /\ DownloadOnly'
    BY DEF SignInv, DownloadOnly
  <1> QED
    BY <1>2, <1>3, <1>4, <1>5, <1>6

LEMMA AgentStep == AgentInv /\ [Next]_vars => AgentInv'
  <1> SUFFICES ASSUME AgentInv, [Next]_vars PROVE AgentInv'
    OBVIOUS
  <1>1. ASSUME NEW obsolete \in BOOLEAN,
               NEW u \in UpgradeOutcomes(opts.manager, opts.type, packages, obsolete),
               Upgrade(u)
        PROVE  AgentInv'
    BY <1>1, UpgradeKeeps
  <1>2. ASSUME NEW c \in CleanCodes, Clean(c) PROVE AgentInv'
    BY <1>2, CleanKeeps
  <1>4. ASSUME NEW first \in SignatureCodes, NEW second \in SignatureCodes,
               NEW imported \in BOOLEAN, SignCheck(first, imported, second)
        PROVE  AgentInv'
    BY <1>4, SignCheckKeeps
  <1>3. CASE UNCHANGED vars
    <2>1. UNCHANGED <<pc, opts, packages, old, result, sign, exit, start, failed, killed, blind,
                      refused, upgraded>>
      BY <1>3 DEF vars, history
    <2>2. TypeOK' /\ StageInv'
      <3>1. TypeOK /\ StageInv
        BY DEF AgentInv
      <3>2. TypeOK'
        BY <2>1, <3>1 DEF TypeOK
      <3>3. StageInv'
        BY <2>1, <3>1 DEF StageInv
      <3> QED
        BY <3>2, <3>3
    <2>3. CodeInv'
      BY <2>1 DEF AgentInv, CodeInv, Telling, Comparing
    <2>4. HardFail' /\ SignInv' /\ DownloadOnly'
      BY <2>1 DEF AgentInv, HardFail, SignInv, DownloadOnly
    <2> QED
      BY <2>2, <2>3, <2>4 DEF AgentInv
  <1> QED
    BY <1>1, <1>2, <1>3, <1>4, QueryKeeps, RequirementsKeeps, RefreshKeeps, NoRefreshKeeps,
       DownloadedKeeps, SignaturesRefusedKeeps, TransactKeeps, CompareKeeps, NoCleanKeeps,
       RaiseKeeps DEF Next, Exited

--------------------------------------------------------------------------------
\* The inductive invariant: what each stage of entrypoint.py's main may rely on.
THEOREM AgentInvHolds == Spec => []AgentInv
  <1>1. Init => AgentInv
    BY AgentInit
  <1>2. AgentInv /\ [Next]_vars => AgentInv'
    BY AgentStep
  <1> QED
    BY <1>1, <1>2, PTL DEF Spec

\* Every variable of the agent keeps its type.
THEOREM TypeCorrect == Spec => []TypeOK
  <1>1. AgentInv => TypeOK
    BY DEF AgentInv
  <1> QED
    BY <1>1, AgentInvHolds, PTL

\* With hard_fail nothing is upgraded after failed requirements or a failed
\* refresh, and the exit code names the stage.
THEOREM HardFailHolds == Spec => []HardFail
  <1>1. AgentInv => HardFail
    BY DEF AgentInv
  <1> QED
    BY <1>1, AgentInvHolds, PTL

\* An UpdateVM never changes its own packages.
THEOREM DownloadOnlyHolds == Spec => []DownloadOnly
  <1>1. AgentInv => DownloadOnly
    BY DEF AgentInv
  <1> QED
    BY <1>1, AgentInvHolds, PTL

\* Which codes dom0 shows as "no updates" and as errors.
LEMMA StatusOf ==
  /\ \A e \in {ERR, ERR_VM_UNHANDLED, ERR_VM_PRE, ERR_VM_REFRESH, ERR_VM_UPDATE,
               ERR_VM_CLEANUP} : EntryStatus(e) = "error"
  /\ \A e \in Int : EntryStatus(e) = "no updates" => e = OK_NO_UPDATES
  BY DEF EntryStatus, OK, OK_NO_UPDATES, ERR, ERR_VM_UNHANDLED, ERR_VM_PRE, ERR_VM_REFRESH,
         ERR_VM_UPDATE, ERR_VM_CLEANUP

\* The cleanup's code leaves an error an error, and makes no "no updates".
LEMMA CleanupMax ==
  /\ \A r \in {ERR_VM_PRE, ERR_VM_REFRESH, ERR_VM_UPDATE} : MaxOf(ERR_VM_CLEANUP, r) = ERR_VM_CLEANUP
  /\ \A r \in {OK, OK_NO_UPDATES, ERR_VM_PRE, ERR_VM_REFRESH, ERR_VM_UPDATE} :
       MaxOf(ERR_VM_CLEANUP, r) = OK_NO_UPDATES => r = OK_NO_UPDATES
  BY DEF MaxOf, OK, OK_NO_UPDATES, ERR_VM_PRE, ERR_VM_REFRESH, ERR_VM_UPDATE, ERR_VM_CLEANUP

\* Before it exits the agent has no code, and 1 and 26 are not 100.
LEMMA OtherCodes ==
  /\ NotExited \in Int /\ NotExited # OK_NO_UPDATES
  /\ ERR # OK_NO_UPDATES /\ ERR_VM_UNHANDLED # OK_NO_UPDATES
  /\ \A e \in {ERR, ERR_VM_UNHANDLED} \cup VM_HANDLED : e \in Int
  BY DEF NotExited, OK, OK_NO_UPDATES, ERR, ERR_VM_UNHANDLED, VM_HANDLED, ERR_VM,
         ERR_VM_PRE, ERR_VM_REFRESH, ERR_VM_UPDATE, ERR_VM_CLEANUP

\* A signature that is not accepted stops the whole upgrade and reaches dom0 as an
\* error, with either dnf API, for however many packages in whatever order.
THEOREM SignedOnlyHolds == Spec => []SignedOnly
  <1>1. ASSUME AgentInv PROVE SignedOnly
    <2> SUFFICES ASSUME refused PROVE ~upgraded /\ (pc = "exited" => Status = "error")
      BY DEF SignedOnly
    <2>1. ~upgraded
      BY <1>1 DEF AgentInv, SignInv
    <2>2. CASE pc = "exited" /\ "agent" \in failed
      BY <1>1, <2>1, <2>2, StatusOf DEF AgentInv, CodeInv, Status
    <2>3. CASE pc = "exited" /\ "agent" \notin failed
      <3>1. result = ERR_VM_UPDATE
        BY <1>1, <2>3 DEF AgentInv, SignInv
      <3>2. exit \in {result, ERR_VM_CLEANUP}
        BY <1>1, <2>3, <3>1, CleanupMax DEF AgentInv, CodeInv
      <3> QED
        BY <2>1, <3>1, <3>2, StatusOf DEF Status
    <2> QED
      BY <2>1, <2>2, <2>3
  <1> QED
    BY <1>1, AgentInvHolds, PTL

\* Errors before the cleanup reach dom0 as errors.
THEOREM ErrorsAreReported == Spec => []ErrorsReported
  <1>1. ASSUME AgentInv PROVE ErrorsReported
    <2> SUFFICES ASSUME pc = "exited", Telling, ~killed, failed \ {"cleanup"} # {}
                 PROVE  Status = "error"
      BY DEF ErrorsReported
    <2>1. CASE "agent" \in failed
      BY <1>1, <2>1, StatusOf DEF AgentInv, CodeInv, Status
    <2>2. CASE "agent" \notin failed
      <3>1. result \in {ERR_VM_PRE, ERR_VM_REFRESH, ERR_VM_UPDATE}
        BY <1>1, <2>2 DEF AgentInv, CodeInv
      <3>2. exit \in {result, ERR_VM_CLEANUP}
        BY <1>1, <2>2, <3>1, CleanupMax DEF AgentInv, CodeInv
      <3> QED
        BY <3>1, <3>2, StatusOf DEF Status
    <2> QED
      BY <2>1, <2>2
  <1> QED
    BY <1>1, AgentInvHolds, PTL

\* "No updates" is only said of a qube in which nothing was installed.
THEOREM NoUpdatesIsTrue == Spec => []NoUpdatesUnchanged
  <1>1. ASSUME AgentInv PROVE NoUpdatesUnchanged
    <2> SUFFICES ASSUME Comparing, ~blind, Status = "no updates"
                 PROVE  \A p \in Packages : packages[p] \in {0, start[p]}
      BY DEF NoUpdatesUnchanged
    <2>1. exit \in {NotExited, ERR, ERR_VM_UNHANDLED} \cup VM_HANDLED
      BY <1>1 DEF AgentInv, TypeOK
    <2>2. exit \in Int
      BY <2>1, OtherCodes
    <2>3. exit = OK_NO_UPDATES
      BY <2>2, StatusOf DEF Status
    <2>4. pc = "exited" /\ "agent" \notin failed
      BY <1>1, <2>3, OtherCodes DEF AgentInv, CodeInv
    <2>5. exit \in {result, MaxOf(ERR_VM_CLEANUP, result)}
      BY <1>1, <2>4 DEF AgentInv, CodeInv
    <2>6. result = OK_NO_UPDATES
      BY <1>1, <2>3, <2>5, CleanupMax DEF AgentInv, TypeOK
    <2> QED
      BY <1>1, <2>6 DEF AgentInv, CodeInv
  <1> QED
    BY <1>1, AgentInvHolds, PTL

--------------------------------------------------------------------------------
(***************************************************************************)
(* How far "24: error inside updated vm during installing updates" is      *)
(* true: with every manager but apt-get's command line, whose 100 is taken *)
(* for "no updates".  Unlike ErrorsReported this also counts commands that *)
(* were killed.                                                            *)
(***************************************************************************)
Shows(u) == Fails(u.runs) => u.code # OK /\ u.code # OK_NO_UPDATES
Tells(u) == opts.manager # "apt cli" => Shows(u)

LEMMA UpgradedShows ==
  ASSUME NEW code, NEW runs, NEW new,
         Fails(runs) => code # OK /\ code # OK_NO_UPDATES
  PROVE  Shows(Upgraded(code, runs, new))
  <1> DEFINE u == Upgraded(code, runs, new)
  <1>1. u.code = code /\ u.runs = runs
    BY DEF Upgraded
  <1> HIDE DEF u
  <1>2. Shows(u)
    BY <1>1 DEF Shows
  <1> QED
    BY <1>2 DEF u

LEMMA RanShows ==
  ASSUME NEW c, NEW new, c # OK_NO_UPDATES
  PROVE  Shows(Ran(c, new))
  <1>1. Fails({c}) => c # OK
    BY DEF Fails
  <1> QED
    BY <1>1, UpgradedShows DEF Ran

\* Two codes of which one stands for an error.
LEMMA WorstShows ==
  ASSUME NEW a \in {OK, ERR, ERR_VM_UPDATE}, NEW b \in {OK, ERR_VM_UPDATE, ERR_VM_CLEANUP},
         Fails({a, b})
  PROVE  MaxOf(a, b) # OK /\ MaxOf(a, b) # OK_NO_UPDATES
  <1>1. a # OK \/ b # OK
    BY DEF Fails
  <1> QED
    BY <1>1 DEF MaxOf, OK, OK_NO_UPDATES, ERR, ERR_VM_UPDATE, ERR_VM_CLEANUP

LEMMA QuietShows ==
  ASSUME NEW pkgs, NEW u \in ApiUpgrade(pkgs)
  PROVE  Shows(u)
  <1>1. ~Fails({})
    BY DEF Fails
  <1>2. ERR_VM_UPDATE # OK /\ ERR_VM_UPDATE # OK_NO_UPDATES
    BY DEF ERR_VM_UPDATE, OK, OK_NO_UPDATES
  <1>3. Shows(NothingToDo(pkgs))
    BY <1>1, UpgradedShows DEF NothingToDo
  <1>4. Shows(RaisedEarly(pkgs))
    BY <1>2, UpgradedShows DEF RaisedEarly
  <1> QED
    BY <1>3, <1>4 DEF ApiUpgrade

\* Whatever way an upgrade fails, its code shows it.
LEMMA FailedUpgrade ==
  ASSUME NEW type, NEW manager \in Managers, NEW pkgs, NEW obsolete \in BOOLEAN,
         NEW u \in UpgradeOutcomes(manager, type, pkgs, obsolete)
  PROVE  manager # "apt cli" => Shows(u)
  <1>1. CASE manager = "apt"
    <2>1. u \in AptUpgrade(pkgs, obsolete)
      BY <1>1 DEF UpgradeOutcomes
    <2>2. PICK c \in {OK, ERR_VM_UPDATE}, k \in RemoveObsoleteKernels, new \in After(pkgs) :
            u = AptRan(obsolete, c, k, new)
      BY <2>1 DEF AptUpgrade
    <2>3. k \in {OK, ERR_VM_UPDATE, ERR_VM_CLEANUP} /\ c \in {OK, ERR, ERR_VM_UPDATE}
      BY <2>2 DEF RemoveObsoleteKernels
    <2>4. Shows(Upgraded(MaxOf(c, k), {c, k}, new))
      BY <2>3, WorstShows, UpgradedShows
    <2>5. Shows(Ran(c, new))
      BY <2>2, KernelCodes, RanShows
    <2> QED
      BY <2>2, <2>4, <2>5 DEF AptRan
  <1>2. CASE manager \in {"dnf cli", "pacman"}
    <2>1. u \in CliUpgrade(type, pkgs)
      BY <1>2 DEF UpgradeOutcomes
    <2>2. PICK c \in CliCodes, new \in Installs(type, pkgs) : u = Ran(c, new)
      BY <2>1, CliPick
    <2>3. c # OK_NO_UPDATES
      BY <2>2 DEF CliCodes, OK_NO_UPDATES
    <2> QED
      BY <2>2, <2>3, RanShows
  <1>3. CASE manager = "dnf"
    BY <1>3, QuietShows DEF UpgradeOutcomes
  <1>4. CASE manager = "dnf5"
    BY <1>4, QuietShows DEF UpgradeOutcomes
  <1> QED
    BY <1>1, <1>2, <1>3, <1>4 DEF Managers

\* The stage of an upgrade that failed is the one whose code the agent keeps.
LEMMA UpgradeStep == AgentInv /\ UpgradeInv /\ [Next]_vars => UpgradeInv'
  <1> SUFFICES ASSUME AgentInv, UpgradeInv, [Next]_vars PROVE UpgradeInv'
    OBVIOUS
  <1> DEFINE Early(p) == p \in {"query", "requirements", "refresh", "upgrade", "sign"}
  <1>0. ASSUME opts' = opts, "upgrade" \in failed' => "upgrade" \in failed, Early(pc') => Early(pc),
               "upgrade" \in failed => result' = result
        PROVE  UpgradeInv'
    BY <1>0 DEF UpgradeInv
  <1>1. CASE Query
    BY <1>0, <1>1 DEF Query
  <1>2. CASE Requirements
    <2>1. pc = "requirements" /\ opts' = opts /\ "upgrade" \notin failed
      BY <1>2 DEF Requirements, UpgradeInv
    <2>2. failed' \subseteq {"requirements"}
      BY <1>2, RequirementsEffect
    <2> QED
      BY <1>0, <2>1, <2>2
  <1>3. CASE Refresh
    <2>1. pc = "refresh" /\ opts' = opts /\ "upgrade" \notin failed
      BY <1>3 DEF Refresh, UpgradeInv
    <2>2. failed' \in {failed, failed \cup {"refresh"}}
      BY <1>3, RefreshEffect
    <2> QED
      BY <1>0, <2>1, <2>2
  <1>4. CASE NoRefresh
    BY <1>0, <1>4 DEF NoRefresh, history
  <1>5. ASSUME NEW u, pc \in {"upgrade", "sign"}, Return(u), u.code \in Int, Tells(u)
        PROVE  UpgradeInv'
    <2>1. /\ pc' \in {"clean", "compare"} /\ opts' = opts
          /\ result' = MaxOf(result, IF u.code \in {OK, OK_NO_UPDATES} THEN u.code
                                     ELSE ERR_VM_UPDATE)
          /\ failed' = IF Fails(u.runs) THEN failed \cup {"upgrade"} ELSE failed
      BY <1>5 DEF Return, Note
    <2>2. "upgrade" \notin failed /\ result \in {OK, ERR_VM_PRE, ERR_VM_REFRESH}
      BY <1>5 DEF UpgradeInv, AgentInv, StageInv
    <2>3. ASSUME opts.manager # "apt cli", "upgrade" \in failed'
          PROVE  result' = ERR_VM_UPDATE
      <3>1. Fails(u.runs)
        BY <2>1, <2>2, <2>3
      <3>2. Shows(u)
        BY <1>5, <2>3 DEF Tells
      <3>3. u.code # OK /\ u.code # OK_NO_UPDATES
        BY <3>1, <3>2 DEF Shows
      <3> QED
        BY <1>5, <2>1, <2>2, <3>3, UpgradeResult
    <2> QED
      BY <2>1, <2>3 DEF UpgradeInv
  <1>11. ASSUME NEW obsolete \in BOOLEAN,
                NEW u \in UpgradeOutcomes(opts.manager, opts.type, packages, obsolete),
                Upgrade(u)
         PROVE  UpgradeInv'
    <2>1. /\ opts.manager \in Managers /\ opts.type \in AgentTypes
          /\ packages \in Installations
      BY DEF AgentInv, TypeOK, Options
    <2>2. u.code \in Int
      BY <1>11, <2>1, UpgradeFacts DEF UpgradeFact
    <2>3. Tells(u)
      BY <1>11, <2>1, FailedUpgrade DEF Tells
    <2>4. pc = "upgrade" /\ Return(u)
      BY <1>11 DEF Upgrade
    <2> QED
      BY <1>5, <2>2, <2>3, <2>4
  <1>12. CASE Transact
    <2>1. PICK u \in ApiTransaction(opts.type, sign, packages) : Return(u)
      BY <1>12 DEF Transact
    <2>2. /\ pc = "sign" /\ opts.manager \in {"dnf", "dnf5"} /\ packages \in Installations
          /\ sign \in SignatureCodes \cup {ERR_VM_UPDATE}
      BY <1>12 DEF Transact, AgentInv, StageInv, TypeOK
    <2>3. u.code \in Int
      BY <2>1, <2>2, TransactionFacts DEF UpgradeFact
    <2>4. Tells(u)
      <3>1. Shows(u)
        BY <2>1, <2>2, TransactionFacts DEF Shows
      <3> QED
        BY <3>1 DEF Tells
    <2> QED
      BY <1>5, <2>1, <2>2, <2>3, <2>4
  <1>13. CASE Downloaded \/ SignaturesRefused
    BY <1>0, <1>13 DEF Downloaded, SignaturesRefused, history
  <1>14. ASSUME NEW first, NEW second, NEW imported, SignCheck(first, imported, second)
         PROVE  UpgradeInv'
    BY <1>0, <1>14 DEF SignCheck
  <1>6. CASE Compare
    <2>1. /\ pc = "compare" /\ pc' = "clean" /\ opts' = opts /\ failed' = failed
          /\ result = OK
      BY <1>6 DEF Compare, AgentInv, StageInv
    <2>2. OK # ERR_VM_UPDATE
      BY DEF OK, ERR_VM_UPDATE
    <2> QED
      BY <2>1, <2>2 DEF UpgradeInv
  <1>7. ASSUME NEW c \in CleanCodes, Clean(c) PROVE UpgradeInv'
    <2>1. failed' \in {failed, failed \cup {"cleanup"}} /\ pc' = "exited" /\ opts' = opts
          /\ result' = result
      BY <1>7 DEF Clean, Note, Exit
    <2> QED
      BY <1>0, <2>1
  <1>8. CASE NoClean
    BY <1>0, <1>8 DEF NoClean, Exit, history
  <1>9. CASE Raise
    BY <1>0, <1>9 DEF Raise
  <1>10. CASE UNCHANGED vars
    BY <1>0, <1>10 DEF vars, history
  <1> QED
    BY <1>1, <1>2, <1>3, <1>4, <1>6, <1>7, <1>8, <1>9, <1>10, <1>11, <1>12, <1>13, <1>14
       DEF Next, Exited

\* With every manager but apt-get's command line, an upgrade of which any command
\* or call failed reaches dom0 as an error: the finding AgentAptUpgrade is the
\* only way UpgradeReported goes wrong.
THEOREM UpgradesAreReported ==
  Spec => [](opts.manager # "apt cli" => UpgradeReported)
  <1>1. Init => UpgradeInv
    BY DEF Init, UpgradeInv
  <1>2. ASSUME AgentInv, UpgradeInv PROVE opts.manager # "apt cli" => UpgradeReported
    <2> SUFFICES ASSUME opts.manager # "apt cli", pc = "exited", "upgrade" \in failed
                 PROVE  Status = "error"
      BY DEF UpgradeReported
    <2>1. CASE "agent" \in failed
      BY <1>2, <2>1, StatusOf DEF AgentInv, CodeInv, Status
    <2>2. CASE "agent" \notin failed
      <3>1. result = ERR_VM_UPDATE
        BY <1>2 DEF UpgradeInv
      <3>2. exit \in {result, ERR_VM_CLEANUP}
        BY <1>2, <2>2, <3>1, CleanupMax DEF AgentInv, CodeInv
      <3> QED
        BY <3>1, <3>2, StatusOf DEF Status
    <2> QED
      BY <2>1, <2>2
  <1> QED
    BY <1>1, <1>2, AgentInvHolds, UpgradeStep, PTL DEF Spec
================================================================================
