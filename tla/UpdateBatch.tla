------------------------------ MODULE UpdateBatch ------------------------------
(***************************************************************************)
(* What UpdateManager.run promises to its caller, without processes,       *)
(* queues or progress: every qube of the batch is updated once, at most    *)
(* MaxConcurrency of them at a time, and the batch answers once, when      *)
(* every qube is settled, with a code no smaller than any verdict.         *)
(***************************************************************************)
EXTENDS ExitCodes, FiniteSets

CONSTANTS Qubes, MaxConcurrency

VARIABLES phase,    \* [Qubes -> {"waiting", "updating", "settled"}]
          verdict,  \* [Qubes -> VmCodes]
          answer    \* the code the batch returned, NoAnswer before

vars == <<phase, verdict, answer>>

NoAnswer == -1

Init ==
  /\ phase = [q \in Qubes |-> "waiting"]
  /\ verdict = [q \in Qubes |-> OK]
  /\ answer = NoAnswer

Begin(q) ==
  /\ phase[q] = "waiting"
  /\ Cardinality({p \in Qubes : phase[p] = "updating"}) < MaxConcurrency
  /\ phase' = [phase EXCEPT ![q] = "updating"]
  /\ UNCHANGED <<verdict, answer>>

Settle(q, c) ==
  /\ phase[q] = "updating"
  /\ phase' = [phase EXCEPT ![q] = "settled"]
  /\ verdict' = [verdict EXCEPT ![q] = c]
  /\ UNCHANGED answer

\* An upper bound of the verdicts that is one of them, plain ERR (a qube's
\* status was an error), OK, or SIGINT because the user interrupted the batch.
Covers(a) ==
  /\ \A q \in Qubes : verdict[q] <= a
  /\ a \in {OK, ERR, SIGINT} \cup {verdict[q] : q \in Qubes}

Answer(a) ==
  /\ answer = NoAnswer
  /\ \A q \in Qubes : phase[q] = "settled"
  /\ Covers(a)
  /\ answer' = a
  /\ UNCHANGED <<phase, verdict>>

Next ==
  \/ \E q \in Qubes : Begin(q)
  \/ \E q \in Qubes, c \in VmCodes : Settle(q, c)
  \/ \E a \in VmCodes \cup {ERR, SIGINT} : Answer(a)

Spec == Init /\ [][Next]_vars
================================================================================
