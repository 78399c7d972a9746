---------------------------- MODULE MCGeneration ----------------------------
(* Instances of Generation: small housings with their graphs, contractors     *)
(* and limits.                                                                *)
EXTENDS Generation, TLC

CONSTANTS wa, wb, k1, k2

Sections1 == {1}
Sections2 == {1, 2}
Floors2   == {1, 2}

NodeAs(order, after, afterStart, down) ==
  [order |-> order, after |-> after, afterStart |-> afterStart, down |-> down]

NoGraph == [w \in {} |-> NodeAs(0, {}, {}, FALSE)]

\* wb follows wa: after it is finished, or once it has started and downwards.
ChainGraph == wa :> NodeAs(1, {}, {}, FALSE) @@ wb :> NodeAs(2, {wa}, {}, FALSE)
SlopeGraph == wa :> NodeAs(1, {}, {}, FALSE) @@ wb :> NodeAs(2, {}, {wa}, TRUE)

\* Section 2 has only wa, in a graph of its own, downwards.
DownGraph   == wa :> NodeAs(1, {}, {}, TRUE)
NoOwnGraph  == [s \in Section |-> NoGraph]
OwnGraphOf2 == [s \in Section |-> IF s = 2 THEN DownGraph ELSE NoGraph]

\* One contractor everywhere.
Alone == [e \in Spot |-> {k1}]

\* The chessboard has the top floor of section 1, two contractors on wa of it;
\* the other cells are not on it.
Patchy == [e \in Spot |->
  IF e.section = 1 /\ e.floor = 2 THEN (IF e.work = wa THEN {k1, k2} ELSE {k1}) ELSE {}]

\* The first of them is to do wb there, and wa of all other floors.
Gappy == [e \in Spot |->
  IF (e.work = wb) <=> (e.section = 1 /\ e.floor = 2) THEN {k1} ELSE {}]

\* An exact limit for wa, a work-wide one for wb, the default for what is left.
MixedLimits == <<k1, wa>> :> 1 @@ <<Anyone, wa>> :> 2 @@ <<Anyone, wb>> :> 1
TwoOfOne    == <<k1, wa>> :> 2 @@ <<Anyone, wa>> :> 1 @@ <<Anyone, wb>> :> 1

\* On a cell of two contractors the first one is ahead; the assignments of section
\* 2 come after those of section 1, and a day that has positions is generated anew
\* with all of them.
InTurn ==
  /\ \A e \in Spot : Crew[e] = {k1, k2} =>
       /\ <<e, k2>> \in started => <<e, k1>> \in started
       /\ <<e, k2>> \in finished => <<e, k1>> \in finished
  /\ (\E a \in known : a[1].section = 2) => {a \in Assignment : a[1].section = 1} \subseteq known
  /\ day # {} /\ pc = "walk" => known = Assignment
=============================================================================
