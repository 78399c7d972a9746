---------------------------- MODULE ResultBoard ----------------------------
(***************************************************************************)
(* What the reconciliation promises to the screens and the alerts that     *)
(* read its results: each day of a housing shows the rows of whole runs,   *)
(* and changes when a run puts its rows in the place of earlier runs'.     *)
(***************************************************************************)
CONSTANTS Unit, Run

VARIABLE board     \* the rows shown for each day of each housing

\* What a run has on the board of a day.
Part(u, r) == {x \in board[u] : x.run = r}

Init == board = [u \in Unit |-> {}]

\* Run r rebuilds a day: its rows appear, whatever they are, and of the other
\* runs each keeps all its rows there or loses them all.
Rebuild(u, r) ==
  /\ DOMAIN board' = Unit
  /\ \A v \in Unit \ {u} : board'[v] = board[v]
  /\ \A x \in board'[u] : x.run \in Run
  /\ Part(u, r) = {}
  /\ \A q \in Run \ {r} : Part(u, q)' \in {Part(u, q), {}}

Next == \E u \in Unit, r \in Run : Rebuild(u, r)

Spec == Init /\ [][Next]_board
=============================================================================
