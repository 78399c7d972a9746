----------------------------- MODULE PlanBoard -----------------------------
(***************************************************************************)
(* What the plan-naryad of a day promises to whoever looks at it: a board  *)
(* of positions on which every change is one of five whole operations.     *)
(* Nothing here knows of sessions, commits or locks; module PlanDay shows  *)
(* that the interleaved requests amount to these operations.               *)
(***************************************************************************)
CONSTANTS PlanId, Cell, Scope, NoRow

VARIABLE board     \* the position under each key

Live == {id \in PlanId : board[id] # NoRow /\ board[id].status # "deleted"}

With(ids, st) ==
  [id \in PlanId |->
     IF id \in ids
     THEN [cell |-> board[id].cell, source |-> board[id].source, status |-> st]
     ELSE board[id]]

Init == board = [id \in PlanId |-> NoRow]

\* One position is put on the board by hand.
Add ==
  \E id \in PlanId, c \in Cell :
    /\ board[id] = NoRow
    /\ board' = [board EXCEPT ![id] =
                   [cell |-> c, source |-> "manual", status |-> "draft"]]

\* Positions on the board are confirmed, or handed over; none comes back.
Advance ==
  \E ids \in SUBSET Live, st \in {"confirmed", "transferred"} :
    board' = With(ids, st)

\* One position is taken off.
Remove == \E id \in Live : board' = With({id}, "deleted")

\* The board with these positions gone and a new draft in each cell of at.
Replaced(old, at) ==
  [id \in PlanId |->
     IF id \in DOMAIN at
     THEN [cell |-> at[id], source |-> "auto", status |-> "draft"]
     ELSE With(old, "deleted")[id]]

\* A scope is generated anew: at one instant old positions of this scope, and
\* of no other, leave the board and new ones, one per cell, appear on it.
Regenerate ==
  \E S \in Scope : \E old \in SUBSET {id \in Live : board[id].cell \in S} :
    \E new \in SUBSET {id \in PlanId : board[id] = NoRow} : \E at \in [new -> S] :
      /\ \A i, j \in new : at[i] = at[j] => i = j
      /\ board' = Replaced(old, at)

Next == Add \/ Advance \/ Remove \/ Regenerate

Spec == Init /\ [][Next]_board

=============================================================================
