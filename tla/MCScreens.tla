----------------------------- MODULE MCScreens -----------------------------
(* Instances of Screens: two sections with a result each, two days.           *)
EXTENDS Screens

CONSTANTS s1, s2, x1, x2

OneEach == [x \in Place |-> IF x = x1 THEN s1 ELSE s2]

\* A request that has been disturbed is not followed any further.
Followed == view.quiet \/ At("idle")
=============================================================================
