----------------------------- MODULE MCAlertDay -----------------------------
(* An instance of AlertDay: the types of alerts that are raised and have      *)
(* rules, with the hours of the rules shortened to 1 and 2.                   *)
EXTENDS AlertDay, TLC

CONSTANTS c1, c2, q1, q2, k1

Types == {"A05", "A07"}
Roles == {"RS", "DS", "DP"}

FirstRoles == [t \in Types |-> IF t = "A07" THEN "DS" ELSE "RS"]

RaisedRules ==
  [t \in Types |-> IF t = "A05" THEN <<[hours |-> 1, role |-> "DS"]>>
                   ELSE <<[hours |-> 2, role |-> "DP"]>>]
=============================================================================
