-------------------------------- MODULE Targets --------------------------------
(***************************************************************************)
(* Which qubes qubes-vm-update updates: preselect_targets and              *)
(* select_targets of vmupdate/vmupdate.py, over every combination of a     *)
(* qube's properties and features and of the command line's arguments.     *)
(***************************************************************************)
EXTENDS Naturals, FiniteSets

CONSTANTS
  Qubes,    \* the qubes of the system
  Unknown   \* names the user may give that no qube has

ASSUME TargetsAssumption == Qubes \cap Unknown = {}

VARIABLES
  pc,       \* "parsed", "preselected", "selected", "usage error" or "crashed"
  qube,     \* [Qubes -> QubeState]
  args,     \* the parsed arguments
  targets   \* the set of qubes under construction

vars == <<pc, qube, args, targets>>

Klasses == {"AdminVM", "TemplateVM", "StandaloneVM", "AppVM", "DispVM"}

\* stale: is_stale(vm, args.update_if_stale); refuses: qubesd answers every
\* feature query of select_targets and is_stale with an access error.
QubeState ==
  [klass : Klasses, updateable : BOOLEAN, running : BOOLEAN, skipUpdate : BOOLEAN,
   prohibitStart : BOOLEAN, updatesAvailable : BOOLEAN, stale : BOOLEAN,
   refuses : BOOLEAN]

\* The three ways to select exclude each other (parse_args).  repeats: --targets
\* names a qube twice.
Selecting == {"force", "available", "stale"}
Arguments ==
  [all : BOOLEAN, templates : BOOLEAN, standalones : BOOLEAN, apps : BOOLEAN,
   named : SUBSET (Qubes \cup Unknown), repeats : BOOLEAN, skip : SUBSET Qubes,
   select : Selecting]

Init ==
  /\ pc = "parsed"
  /\ qube \in [Qubes -> QubeState]
  /\ \A q \in Qubes : qube[q].klass = "AdminVM" => qube[q].running /\ qube[q].updateable
  /\ args \in Arguments
  /\ args.repeats => args.named # {}
  /\ targets = {}

--------------------------------------------------------------------------------
Updatable == {q \in Qubes : qube[q].updateable}
OfKlass(k) == {q \in Qubes : qube[q].klass = k}
Running == {q \in Qubes : qube[q].running}
SkipUpdate == {q \in Qubes : qube[q].skipUpdate}
Refusing == {q \in Qubes : qube[q].refuses}

DefaultTargeting ==
  ~args.templates /\ ~args.standalones /\ ~args.apps /\ args.named = {}

ByKlass ==
  IF args.all \/ DefaultTargeting
  THEN Updatable \ ((OfKlass("AppVM") \cup OfKlass("DispVM")) \ Running)
  ELSE UNION {IF args.templates THEN Updatable \cap OfKlass("TemplateVM") ELSE {},
              IF args.standalones THEN Updatable \cap OfKlass("StandaloneVM") ELSE {},
              IF args.apps THEN OfKlass("AppVM") \cap Running ELSE {}}

\* The names are compared with the qubes found by their number.
NamesKnown == args.named \subseteq Qubes /\ ~args.repeats

--------------------------------------------------------------------------------
\* Slips a change to the code could make; each breaks a property below.

\* --skip is looked at before the named qubes are added.
Preselect_SkipFirst ==
  /\ pc = "parsed"
  /\ NamesKnown
  /\ LET kept == (ByKlass \ args.skip) \cup args.named
     IN  targets' = IF args.named = {} THEN kept \ SkipUpdate ELSE kept
  /\ pc' = "preselected"
  /\ UNCHANGED <<qube, args>>

\* --update-if-available is taken for the default.
Qualifies_IgnoringAvailable(q) ==
  LET f == qube[q] IN
    /\ f.refuses \/ ~(f.skipUpdate \/ f.prohibitStart)
    /\ \/ f.updatesAvailable /\ ~f.refuses
       \/ f.stale /\ ~f.refuses

--------------------------------------------------------------------------------
\* preselect_targets: by class, then the named ones, less --skip, less those
\* with the skip-update feature, which any use of --targets overrides.
Preselect ==
  /\ pc = "parsed"
  /\ NamesKnown
  /\ LET kept == (ByKlass \cup args.named) \ args.skip IN
       IF args.named # {}
       THEN targets' = kept
       ELSE kept \cap Refusing = {} /\ targets' = kept \ SkipUpdate
  /\ pc' = "preselected"
  /\ UNCHANGED <<qube, args>>

\* Here an access error is not caught.
PreselectRaises ==
  /\ pc = "parsed"
  /\ args.named = {}
  /\ (ByKlass \ args.skip) \cap Refusing # {}
  /\ pc' = "crashed"
  /\ UNCHANGED <<qube, args, targets>>

\* ArgumentError "Unknown qube name", main returns ERR_USAGE.
UnknownName ==
  /\ pc = "parsed"
  /\ ~NamesKnown
  /\ pc' = "usage error"
  /\ UNCHANGED <<qube, args, targets>>

\* One turn of select_targets' loop.  A feature that qubesd refuses to tell is
\* taken as not set, and such a qube is not stale.
Qualifies(q) ==
  LET f == qube[q] IN
    /\ f.refuses \/ ~(f.skipUpdate \/ f.prohibitStart)
    /\ \/ f.updatesAvailable /\ ~f.refuses
       \/ args.select = "stale" /\ f.stale /\ ~f.refuses

Select ==
  /\ pc = "preselected"
  /\ targets' = IF args.select = "force" THEN targets
                ELSE {q \in targets : Qualifies(q)}
  /\ pc' = "selected"
  /\ UNCHANGED <<qube, args>>

Stop == pc \in {"selected", "usage error", "crashed"} /\ UNCHANGED vars

Next == Preselect \/ PreselectRaises \/ UnknownName \/ Select \/ Stop

Spec == Init /\ [][Next]_vars

--------------------------------------------------------------------------------
TypeOK ==
  /\ pc \in {"parsed", "preselected", "selected", "usage error", "crashed"}
  /\ targets \subseteq Qubes
  /\ qube \in [Qubes -> QubeState]
  /\ args \in Arguments

\* "--skip ... works with all other options": a skipped qube is never updated,
\* named, forced or not.
SkipWins == pc = "selected" => targets \cap args.skip = {}

\* "Unknown qube name": every name no qube has is an error, and nothing else is.
UsageErrorMeansUnknown ==
  pc = "usage error" => ~ args.named \subseteq Qubes

\* The manual page's words, in its order: --targets; "all updatable
\* TemplateVMs"; "all updatable StandaloneVMs"; "running updatable AppVMs";
\* --all, the default, "all updatable VMs except AdminVM".
Targeted(q) ==
  \/ q \in args.named
  \/ /\ qube[q].updateable
     /\ \/ args.templates /\ qube[q].klass = "TemplateVM"
        \/ args.standalones /\ qube[q].klass = "StandaloneVM"
        \/ args.apps /\ qube[q].klass = "AppVM" /\ qube[q].running
        \/ (args.all \/ DefaultTargeting) /\ qube[q].klass # "AdminVM"

\* Where the code departs from those words.  What it targets besides: dom0 by
\* --all and by default, and with --apps alone running AppVMs that are not
\* updatable.
TargetedBesides(q) ==
  \/ /\ args.all \/ DefaultTargeting
     /\ qube[q].klass = "AdminVM" /\ qube[q].updateable
  \/ /\ args.apps /\ ~args.all
     /\ qube[q].klass = "AppVM" /\ qube[q].running /\ ~qube[q].updateable

\* What it leaves out: by --all and by default, AppVMs and DispVMs that are
\* not running.
LeftOut(q) ==
  /\ args.all \/ DefaultTargeting
  /\ qube[q].klass \in {"AppVM", "DispVM"} /\ ~qube[q].running
  /\ q \notin args.named

\* The manual's selection, and the feature prohibit-start, of which it has no
\* word: "known updates available", by default also a last check too long ago,
\* or all with --force-update.
Selected(q) ==
  \/ args.select = "force"
  \/ ~qube[q].prohibitStart /\ qube[q].updatesAvailable
  \/ ~qube[q].prohibitStart /\ qube[q].stale /\ args.select = "stale"

\* The targets are those the manual page describes, but for the departures
\* above and for no others, of the qubes that have no skip-update and whose
\* features qubesd tells: preselect_targets and select_targets together.
MatchesManual ==
  pc = "selected" =>
    \A q \in Qubes \ SkipUpdate :
      ~qube[q].refuses =>
        (q \in targets <=>
           /\ q \notin args.skip
           /\ TargetedBesides(q) \/ (Targeted(q) /\ ~LeftOut(q))
           /\ Selected(q))

\* "VMs with skip-update feature set to True will be excluded from update,
\* unless directly targeted with --targets", the first half: code that asks
\* whether --targets was given, not whom it names.
SkipUpdateExcluded ==
  pc = "selected" =>
    \A q \in SkipUpdate : q \notin args.named => q \notin targets

\* The second half: a directly targeted qube is not excluded for the feature.
NamedOverridesSkipUpdate ==
  pc = "selected" =>
    \A q \in SkipUpdate \cap args.named :
      ~qube[q].refuses /\ q \notin args.skip /\ Selected(q) => q \in targets

\* The manual page alone, departures and all: the code breaks it in each of the
\* three ways named above.
AsTheManualSays ==
  pc = "selected" =>
    \A q \in Qubes \ SkipUpdate :
      ~qube[q].refuses =>
        (q \in targets <=> q \notin args.skip /\ Targeted(q) /\ Selected(q))
================================================================================
