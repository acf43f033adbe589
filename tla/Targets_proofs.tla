----------------------------- MODULE Targets_proofs -----------------------------
(***************************************************************************)
(* Theorems about the targets of qubes-vm-update: whatever qubes there     *)
(* are, in whatever state, and whatever the command line names.            *)
(***************************************************************************)
EXTENDS Targets, TLAPS

--------------------------------------------------------------------------------
\* What is preselected, which is all that the selection looks at.
PreselectedInv ==
  pc = "preselected" =>
    targets = IF args.named # {}
              THEN (ByKlass \cup args.named) \ args.skip
              ELSE ((ByKlass \cup args.named) \ args.skip) \ SkipUpdate

\* The inductive invariant: the properties, and what they need to know.
Inv == TypeOK /\ PreselectedInv /\ SkipWins /\ MatchesManual

\* ByKlass picks among the qubes of the system, and --skip takes none out of it.
LEMMA ByKlassQubes == ByKlass \subseteq Qubes
  BY DEF ByKlass, Updatable, OfKlass, Running

\* The targets stay a set of qubes and the arguments are never changed.
LEMMA TypeOKStep == TypeOK /\ [Next]_vars => TypeOK'
<1> SUFFICES ASSUME TypeOK, [Next]_vars PROVE TypeOK'
  OBVIOUS
<1>1. CASE Preselect
  <2>1. targets' \subseteq Qubes
    BY <1>1, ByKlassQubes DEF Preselect, NamesKnown
  <2> QED BY <1>1, <2>1 DEF Preselect, TypeOK
<1>2. CASE PreselectRaises
  BY <1>2 DEF PreselectRaises, TypeOK
<1>3. CASE UnknownName
  BY <1>3 DEF UnknownName, TypeOK
<1>4. CASE Select
  <2>1. targets' \subseteq Qubes
    BY <1>4 DEF Select, TypeOK
  <2> QED BY <1>4, <2>1 DEF Select, TypeOK
<1>5. CASE Stop
  BY <1>5 DEF Stop, vars, TypeOK
<1>6. CASE UNCHANGED vars
  BY <1>6 DEF vars, TypeOK
<1> QED BY <1>1, <1>2, <1>3, <1>4, <1>5, <1>6 DEF Next

\* Preselecting does what PreselectedInv says; afterwards it says nothing.
LEMMA PreselectedStep == TypeOK /\ PreselectedInv /\ [Next]_vars => PreselectedInv'
<1> SUFFICES ASSUME TypeOK, PreselectedInv, [Next]_vars PROVE PreselectedInv'
  OBVIOUS
<1>1. CASE Preselect
  <2>1. ByKlass' = ByKlass /\ SkipUpdate' = SkipUpdate /\ args' = args
    BY <1>1 DEF Preselect, ByKlass, SkipUpdate, Updatable, OfKlass, Running, DefaultTargeting
  <2> QED BY <1>1, <2>1 DEF Preselect, PreselectedInv
<1>2. CASE PreselectRaises \/ UnknownName \/ Select
  BY <1>2 DEF PreselectRaises, UnknownName, Select, PreselectedInv
<1>3. CASE UNCHANGED vars
  <2>1. ByKlass' = ByKlass /\ SkipUpdate' = SkipUpdate
    BY <1>3 DEF vars, ByKlass, SkipUpdate, Updatable, OfKlass, Running, DefaultTargeting
  <2> QED BY <1>3, <2>1 DEF vars, PreselectedInv
<1> QED BY <1>1, <1>2, <1>3 DEF Next, Stop

\* Select keeps of the targets what is selected, and --skip was applied before.
LEMMA SkipWinsStep == PreselectedInv /\ SkipWins /\ [Next]_vars => SkipWins'
<1> SUFFICES ASSUME PreselectedInv, SkipWins, [Next]_vars PROVE SkipWins'
  OBVIOUS
<1>1. CASE Select
  BY <1>1 DEF Select, PreselectedInv, SkipWins
<1>2. CASE Preselect \/ PreselectRaises \/ UnknownName
  BY <1>2 DEF Preselect, PreselectRaises, UnknownName, SkipWins
<1>3. CASE UNCHANGED vars
  BY <1>3 DEF vars, SkipWins
<1> QED BY <1>1, <1>2, <1>3 DEF Next, Stop

\* Class by class, the set that is preselected is the one the manual describes,
\* but for the departures.
LEMMA ByKlassMatches ==
  ASSUME NEW q \in Qubes, q \notin args.named
  PROVE  q \in ByKlass <=> TargetedBesides(q) \/ (Targeted(q) /\ ~LeftOut(q))
<1>1. CASE args.all \/ DefaultTargeting
  <2>1. q \in ByKlass <=> qube[q].updateable /\ ~LeftOut(q)
    BY <1>1 DEF ByKlass, LeftOut, Updatable, OfKlass, Running
  <2>2. Targeted(q) <=> qube[q].updateable /\ qube[q].klass # "AdminVM"
    BY <1>1 DEF Targeted, DefaultTargeting
  <2>3. TargetedBesides(q) <=> qube[q].klass = "AdminVM" /\ qube[q].updateable
    BY <1>1 DEF TargetedBesides, DefaultTargeting
  <2>4. qube[q].klass = "AdminVM" => ~LeftOut(q)
    BY DEF LeftOut
  <2> QED BY <2>1, <2>2, <2>3, <2>4
<1>2. CASE ~(args.all \/ DefaultTargeting)
  <2>1. q \in ByKlass <=> \/ args.templates /\ q \in Updatable \cap OfKlass("TemplateVM")
                          \/ args.standalones /\ q \in Updatable \cap OfKlass("StandaloneVM")
                          \/ args.apps /\ q \in OfKlass("AppVM") \cap Running
    BY <1>2 DEF ByKlass
  <2>2. ~LeftOut(q)
    BY <1>2 DEF LeftOut
  <2> QED BY <1>2, <2>1, <2>2
       DEF Targeted, TargetedBesides, Updatable, OfKlass, Running
<1> QED BY <1>1, <1>2

\* The options and the qubes do not change, so what is said of them does not.
LEMMA SameSaying ==
  ASSUME qube' = qube, args' = args, NEW q
  PROVE  /\ Targeted(q)' <=> Targeted(q)
         /\ TargetedBesides(q)' <=> TargetedBesides(q)
         /\ LeftOut(q)' <=> LeftOut(q)
         /\ Selected(q)' <=> Selected(q)
BY DEF Targeted, TargetedBesides, LeftOut, Selected, DefaultTargeting

\* A feature that qubesd tells and that is not skip-update lets a qube qualify
\* as it lets it be selected.
LEMMA QualifiesMatches ==
  ASSUME NEW q \in Qubes, ~qube[q].refuses, ~qube[q].skipUpdate, args.select # "force"
  PROVE  Qualifies(q) <=> Selected(q)
BY DEF Qualifies, Selected

\* What is selected is what MatchesManual says: naming, class and --skip decide
\* about the preselection, the rest about the selection.
LEMMA MatchesManualStep ==
  TypeOK /\ PreselectedInv /\ MatchesManual /\ [Next]_vars => MatchesManual'
<1> SUFFICES ASSUME TypeOK, PreselectedInv, MatchesManual, [Next]_vars
             PROVE  MatchesManual'
  OBVIOUS
<1>1. CASE Select
  <2>1. SUFFICES ASSUME NEW q \in Qubes, ~qube[q].skipUpdate, ~qube[q].refuses
                 PROVE  q \in targets' <=>
                          /\ q \notin args.skip
                          /\ TargetedBesides(q) \/ (Targeted(q) /\ ~LeftOut(q))
                          /\ Selected(q)
    <3>1. qube' = qube /\ args' = args
      BY <1>1 DEF Select
    <3> QED BY <3>1, SameSaying DEF MatchesManual, SkipUpdate
  <2>2. q \in targets <=> (q \in ByKlass \/ q \in args.named) /\ q \notin args.skip
    BY <1>1, <2>1 DEF Select, PreselectedInv, SkipUpdate
  <2>3. (q \in ByKlass \/ q \in args.named) <=>
          TargetedBesides(q) \/ (Targeted(q) /\ ~LeftOut(q))
    <3>1. CASE q \in args.named
      BY <3>1 DEF Targeted, LeftOut
    <3>2. CASE q \notin args.named
      BY <3>2, ByKlassMatches
    <3> QED BY <3>1, <3>2
  <2>4. q \in targets' <=> q \in targets /\ Selected(q)
    <3>1. CASE args.select = "force"
      BY <1>1, <3>1 DEF Select, Selected
    <3>2. CASE args.select # "force"
      BY <1>1, <3>2, <2>1, QualifiesMatches DEF Select
    <3> QED BY <3>1, <3>2
  <2> QED BY <2>2, <2>3, <2>4
<1>2. CASE Preselect \/ PreselectRaises \/ UnknownName
  BY <1>2 DEF Preselect, PreselectRaises, UnknownName, MatchesManual
<1>3. CASE UNCHANGED vars
  <2>1. qube' = qube /\ args' = args /\ targets' = targets /\ pc' = pc
    BY <1>3 DEF vars
  <2> QED BY <2>1, SameSaying DEF MatchesManual, SkipUpdate
<1> QED BY <1>1, <1>2, <1>3 DEF Next, Stop

--------------------------------------------------------------------------------
\* The inductive invariant holds of every command line about any qubes.
THEOREM TargetsInvHolds == Spec => []Inv
<1>1. Init => Inv
  BY DEF Init, Inv, TypeOK, PreselectedInv, SkipWins, MatchesManual
<1>2. Inv /\ [Next]_vars => Inv'
  BY TypeOKStep, PreselectedStep, SkipWinsStep, MatchesManualStep DEF Inv
<1> QED BY <1>1, <1>2, PTL DEF Spec

\* The targets are qubes, and the arguments and qubes what they were.
THEOREM TargetsTypeCorrect == Spec => []TypeOK
<1>1. Inv => TypeOK
  BY DEF Inv
<1> QED BY <1>1, TargetsInvHolds, PTL

\* A qube named by --skip is never updated: however it is named or forced.
THEOREM SkipAlwaysWins == Spec => []SkipWins
<1>1. Inv => SkipWins
  BY DEF Inv
<1> QED BY <1>1, TargetsInvHolds, PTL

\* The two functions compute the targets that the manual page describes but for
\* the departures that TargetedBesides and LeftOut name, and for no others: for
\* every qube whose features qubesd tells and that has no skip-update.
THEOREM TargetsMatchManual == Spec => []MatchesManual
<1>1. Inv => MatchesManual
  BY DEF Inv
<1> QED BY <1>1, TargetsInvHolds, PTL
================================================================================
