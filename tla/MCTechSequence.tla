--------------------------- MODULE MCTechSequence ---------------------------
(* Instances of TechSequence: one section; a plan in which a work is two       *)
(* tasks, and one that has only one of them.                                   *)
EXTENDS TechSequence, TLC

CONSTANTS s1, a, b, a1, a2, b1, p1, p2

Works == a1 :> a @@ a2 :> a @@ b1 :> b

Both  == [tasks |-> {a1, a2, b1}, edges |-> {<<b1, a1, "depends_on">>, <<b1, a2, "depends_on_ss">>}]
OnlyA == [tasks |-> {a1}, edges |-> {}]

TwoPlans == {Both, OnlyA}

Symmetry == Permutations(Proc)

\* Syncs overlap when all works are known and the section has no plan.
Overlaps == (\A p \in Proc : Running(p)) => known = Work /\ raport[s1] = None
=============================================================================
