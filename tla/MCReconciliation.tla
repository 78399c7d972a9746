-------------------------- MODULE MCReconciliation --------------------------
(* Instances of Reconciliation: one housing, two days, one spot; the position *)
(* of a contractor, and a fact of his that a later version moves.             *)
EXTENDS Reconciliation, TLC

CONSTANTS h1, h2, k1, k2, e1, w1, r1, r2

OneWork == [sp \in Spot |-> w1]
NoProject == {}

Mine   == <<k1, e1>>
Theirs == <<None, e1>>

PositionAt(day, key, source) == [housing |-> h1, day |-> day, key |-> key, source |-> source]
FactAt(id, day, key) == [id |-> id, housing |-> h1, day |-> day, key |-> key]

OnePosition == {PositionAt(1, Mine, None)}
OtherFact   == {FactAt(1, 1, Theirs)}
=============================================================================
