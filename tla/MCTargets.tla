------------------------------- MODULE MCTargets -------------------------------
(***************************************************************************)
(* Targets on a system of one qube for TLC: selection treats qubes one by  *)
(* one, except that naming some changes the rules for all, and the user    *)
(* may name a second, plain qube.                                          *)
(***************************************************************************)
EXTENDS Targets

CONSTANT Plain  \* a second qube, never up for an update of its own

PlainState ==
  [klass |-> "AppVM", updateable |-> FALSE, running |-> FALSE, skipUpdate |-> FALSE,
   prohibitStart |-> FALSE, updatesAvailable |-> FALSE, stale |-> FALSE,
   refuses |-> FALSE]

MCInit ==
  /\ pc = "parsed"
  /\ \E s \in QubeState :
       /\ s.klass = "AdminVM" => s.running /\ s.updateable
       /\ qube = [q \in Qubes |-> IF q = Plain THEN PlainState ELSE s]
  /\ args \in Arguments
  /\ args.repeats => args.named # {}
  /\ Plain \notin args.skip
  /\ targets = {}

MCSpec == MCInit /\ [][Next]_vars
================================================================================
