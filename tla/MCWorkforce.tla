----------------------------- MODULE MCWorkforce -----------------------------
(* Instances of Workforce: a challenge of two control points a week apart, two *)
(* requests.                                                                   *)
EXTENDS Workforce, FiniteSets, TLC

CONSTANTS c1, c2, p1, p2, ch

OneAWeek == [c \in Checkpoint |-> IF c = c1 THEN 0 ELSE 1]

OneChallenge == [c \in Checkpoint |-> ch]

\* Calls about violations overlap with each other, and checks with each other;
\* two violations are one too many for a user, three with one by hand.
Few ==
  /\ (\E p \in Proc : At(p, "check")) => \A p \in Proc : At(p, "check") \/ At(p, "idle")
  /\ Cardinality(Recorded) > 1 => \A p \in Proc : ~At(p, "patch")
  /\ Cardinality(Recorded) > 1 => \A v \in Recorded : ~violations[v].byhand
  /\ \E p \in Proc : ~At(p, "patch")
  /\ ByHand \in Recorded => Cardinality(Recorded) < 3

Symmetry == Permutations(Proc)
=============================================================================
