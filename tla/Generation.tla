----------------------------- MODULE Generation -----------------------------
(***************************************************************************)
(* How generate_daily_plan (services/plan/service.py) chooses the          *)
(* positions of a day.  It loads the technological graph, reads the        *)
(* chessboard of Raport work by work and then the assignments, page by     *)
(* page (services/report_cells, services/contractor_works), and walks the  *)
(* ready works section by section and floor by floor, up to the limit of   *)
(* each contractor.  Raport goes on changing while it is read; a read that *)
(* fails is logged and leaves its rows out.                                *)
(*                                                                         *)
(* The search, the DELETE and the INSERT of the day are in module PlanDay: *)
(* here a run that has chosen something replaces the day in one step.      *)
(***************************************************************************)
EXTENDS Integers, FiniteSets

CONSTANTS
  Section,       \* the sections of a housing, by number
  Floor,         \* the floors of a section, by number
  Work,
  Contractor,
  HousingNodes,  \* the technological graph of the housing: work -> node
  SectionNodes,  \* the own graph of each section, possibly empty
  Crew,          \* the contractors that Raport's chessboard has on a spot
  Assigned,      \* the contractors that Raport assigns to a spot
  Limits,        \* contractor_floor_limits: <<contractor or Anyone, work>>
  Anyone,        \* the contractor_id NULL of a work-wide limit
  DefaultLimit,
  Synced,        \* the contractors that exist in the local table
  Outages,       \* whether reads of Raport may fail
  Closings       \* whether Raport may close a cell by its lifecycle status

Node  == [order : Int, after : SUBSET Work, afterStart : SUBSET Work, down : BOOLEAN]
IsGraph(G) == DOMAIN G \subseteq Work /\ G \in [DOMAIN G -> Node]
Spot  == [section : Section, floor : Floor, work : Work]

\* One contractor's part of the work on one spot.
Share == {sh \in Spot \X Contractor : sh[2] \in Crew[sh[1]]}

Assignment == {a \in Spot \X Contractor : a[2] \in Assigned[a[1]]}

ASSUME PlaceAssumption == Section \subseteq Int /\ Floor \subseteq Int
ASSUME SizeAssumption  == IsFiniteSet(Spot) /\ IsFiniteSet(Contractor)
ASSUME GraphAssumption ==
  IsGraph(HousingNodes) /\ \A s \in Section : IsGraph(SectionNodes[s])
ASSUME CrewAssumption  == /\ Crew \in [Spot -> SUBSET Contractor]
                          /\ Assigned \in [Spot -> SUBSET Contractor]
                          /\ Synced \subseteq Contractor
ASSUME LimitAssumption == DefaultLimit \in Nat /\ Limits \in [DOMAIN Limits -> Nat]
ASSUME OutageAssumption == Outages \in BOOLEAN /\ Closings \in BOOLEAN

VARIABLES
  started,   \* Raport: the shares with a percent above zero
  finished,  \* Raport: the shares at 100 percent or on a closed cell
  pc,        \* where the generation is
  asked,     \* the sections it is for
  toRead,    \* the works whose cells it still has to read
  cells,     \* the slice: the shares it has read ...
  begun,     \* ... those with a percent above zero ...
  done,      \* ... and those finished
  known,     \* the assignments it has read
  walked,    \* the candidates it has dealt with
  taken,     \* the floors each contractor has been given of each work
  rows,      \* the positions chosen so far
  day        \* the generated positions in plan_items

raport == <<started, finished>>
slice  == <<cells, begun, done>>
walk   == <<walked, taken, rows>>
vars   == <<started, finished, pc, asked, toRead, cells, begun, done, known,
            walked, taken, rows, day>>

Nobody == [p \in Contractor \X Work |-> 0]

TypeOK ==
  /\ started \subseteq Share /\ finished \subseteq Share
  /\ pc \in {"idle", "cells", "walk"}
  /\ asked \subseteq Section /\ toRead \subseteq Work
  /\ cells \subseteq Share /\ begun \subseteq cells /\ done \subseteq cells
  /\ known \subseteq Assignment
  /\ walked \subseteq Spot
  /\ taken \in [Contractor \X Work -> Nat]
  /\ rows \subseteq Assignment /\ day \subseteq Assignment

Init ==
  /\ started = {} /\ finished = {}
  /\ pc = "idle" /\ asked = {} /\ toRead = {}
  /\ cells = {} /\ begun = {} /\ done = {} /\ known = {}
  /\ walked = {} /\ taken = Nobody /\ rows = {} /\ day = {}

-----------------------------------------------------------------------------
(* Raport, while nobody watches.                                           *)

Start(sh) ==
  /\ started' = started \cup {sh}
  /\ UNCHANGED <<finished, pc, asked, toRead, slice, known, walk, day>>

Complete(sh) ==
  /\ started' = started \cup {sh}
  /\ finished' = finished \cup {sh}
  /\ UNCHANGED <<pc, asked, toRead, slice, known, walk, day>>

\* lifecycle_status.is_done is set on a cell, whatever its percents are.
CloseCell(e) ==
  /\ Closings
  /\ finished' = finished \cup {sh \in Share : sh[1] = e}
  /\ UNCHANGED <<started, pc, asked, toRead, slice, known, walk, day>>

-----------------------------------------------------------------------------
(* What the generation makes of what it has read.                          *)

\* A section with a graph of its own is generated from it alone.
NodesOf(s) == IF DOMAIN SectionNodes[s] # {} THEN SectionNodes[s] ELSE HousingNodes

EveryWork == DOMAIN HousingNodes \cup UNION {DOMAIN SectionNodes[s] : s \in Section}

\* The same place, another work.
At(e, w) == [e EXCEPT !.work = w]

On(shares, e) == {sh \in shares : sh[1] = e}

\* Mutant: a cell that Raport does not show passes for finished.
DoneUnlessOpen(e) == On(cells, e) \subseteq done

\* Every contractor on the cell is finished; no contractor at all is not.
CellDone(e) == On(cells, e) # {} /\ On(cells, e) \subseteq done

CellStarted(e) == On(begun, e) # {}

\* Mutant: a finished work stays in the frontier.
ReadyForEver(e) ==
  LET nodes == NodesOf(e.section) IN
    /\ e.work \in DOMAIN nodes
    /\ \A d \in nodes[e.work].after : CellDone(At(e, d))
    /\ \A d \in nodes[e.work].afterStart : CellStarted(At(e, d))

\* _ready_works.
IsReady(e) ==
  LET nodes == NodesOf(e.section) IN
    /\ e.work \in DOMAIN nodes
    /\ ~CellDone(e)
    /\ \A d \in nodes[e.work].after : CellDone(At(e, d))
    /\ \A d \in nodes[e.work].afterStart : CellStarted(At(e, d))

Candidates == {e \in Spot : e.section \in asked /\ IsReady(e)}

\* Mutant: the floors are always walked upwards.
BeforeUpwards(d, e) ==
  \/ d.section < e.section
  \/ d.section = e.section /\ d.work # e.work
       /\ NodesOf(e.section)[d.work].order < NodesOf(e.section)[e.work].order
  \/ d.section = e.section /\ d.work = e.work /\ d.floor < e.floor

\* Candidate d comes before candidate e: sections by number, the works of a
\* section by order, and the floors of a work in its own direction.
Before(d, e) ==
  LET nodes == NodesOf(e.section) IN
    \/ d.section < e.section
    \/ d.section = e.section /\ d.work # e.work
         /\ nodes[d.work].order < nodes[e.work].order
    \/ d.section = e.section /\ d.work = e.work
         /\ IF nodes[e.work].down THEN d.floor > e.floor ELSE d.floor < e.floor

\* The next candidate of the walk; works of equal order come in any order.
Turn(e) ==
  /\ e \in Candidates \ walked
  /\ \A d \in Candidates \ walked : ~Before(d, e)

\* single_contractor_for: nobody if none is assigned, or several.
Lone(e, c) == {a \in known : a[1] = e} = {<<e, c>>}

\* _limit_for: the exact row, the work-wide row, the default.
LimitFor(c, w) ==
  IF <<c, w>> \in DOMAIN Limits THEN Limits[<<c, w>>]
  ELSE IF <<Anyone, w>> \in DOMAIN Limits THEN Limits[<<Anyone, w>>]
  ELSE DefaultLimit

\* Mutant: the limit is off by one.
HasOneMore(c, w) == taken[<<c, w>>] <= LimitFor(c, w)

HasRoom(c, w) == taken[<<c, w>>] < LimitFor(c, w)

-----------------------------------------------------------------------------
(* generate_daily_plan.                                                    *)

Ask(S) ==
  /\ pc = "idle"
  /\ EveryWork # {}
  /\ pc' = "cells"
  /\ asked' = S
  /\ toRead' = EveryWork
  /\ UNCHANGED <<raport, slice, known, walk, day>>

\* What Raport says of contractors without a local row is skipped.
Local(pairs) == {x \in pairs : x[2] \in Synced}

\* _fetch_work_cells.
ReadWork(w) ==
  /\ pc = "cells"
  /\ w \in toRead
  /\ toRead' = toRead \ {w}
  /\ LET read == Local({sh \in Share : sh[1].work = w}) IN
       /\ cells' = cells \cup read
       /\ begun' = begun \cup (read \cap started)
       /\ done' = done \cup (read \cap finished)
  /\ UNCHANGED <<raport, pc, asked, known, walk, day>>

\* The error is logged and the work's cells are an empty list.
ReadFails(w) ==
  /\ Outages
  /\ pc = "cells"
  /\ w \in toRead
  /\ toRead' = toRead \ {w}
  /\ UNCHANGED <<raport, pc, asked, slice, known, walk, day>>

\* get_housing_assignments: a page that fails ends the reading, and what was
\* read before is used.
ReadAssignments ==
  /\ pc = "cells"
  /\ toRead = {}
  /\ pc' = "walk"
  /\ \E pages \in SUBSET Assignment :
       /\ Outages \/ pages = Assignment
       /\ known' = Local(pages)
  /\ UNCHANGED <<raport, asked, toRead, slice, walk, day>>

\* The next candidate has one contractor with room: a position.
PlanSpot(e) ==
  /\ pc = "walk"
  /\ Turn(e)
  /\ \E c \in Contractor :
       /\ Lone(e, c)
       /\ HasRoom(c, e.work)
       /\ rows' = rows \cup {<<e, c>>}
       /\ taken' = [taken EXCEPT ![<<c, e.work>>] = @ + 1]
  /\ walked' = walked \cup {e}
  /\ UNCHANGED <<raport, pc, asked, toRead, slice, known, day>>

\* It has none, or several, or one whose limit is reached: no position.
PassSpot(e) ==
  /\ pc = "walk"
  /\ Turn(e)
  /\ \A c \in Contractor : Lone(e, c) => ~HasRoom(c, e.work)
  /\ walked' = walked \cup {e}
  /\ UNCHANGED <<raport, pc, asked, toRead, slice, known, taken, rows, day>>

\* Mutant: the floors given so far are carried over to the next run.
FinishKeepingCounts ==
  /\ pc = "walk"
  /\ Candidates \subseteq walked
  /\ day' = IF rows = {} THEN day
            ELSE {r \in day : r[1].section \notin asked} \cup rows
  /\ pc' = "idle" /\ asked' = {}
  /\ cells' = {} /\ begun' = {} /\ done' = {} /\ known' = {}
  /\ walked' = {} /\ rows' = {}
  /\ UNCHANGED <<raport, toRead, taken>>

\* The positions chosen replace the day's; an empty choice changes nothing.
Finish ==
  /\ pc = "walk"
  /\ Candidates \subseteq walked
  /\ day' = IF rows = {} THEN day
            ELSE {r \in day : r[1].section \notin asked} \cup rows
  /\ pc' = "idle" /\ asked' = {}
  /\ cells' = {} /\ begun' = {} /\ done' = {} /\ known' = {}
  /\ walked' = {} /\ taken' = Nobody /\ rows' = {}
  /\ UNCHANGED <<raport, toRead>>

Generate ==
  \/ Ask(Section) \/ \E s \in Section : Ask({s})
  \/ \E w \in Work : ReadWork(w) \/ ReadFails(w)
  \/ ReadAssignments
  \/ \E e \in Spot : PlanSpot(e) \/ PassSpot(e)
  \/ Finish

Next ==
  \/ Generate
  \/ \E sh \in Share : Start(sh) \/ Complete(sh)
  \/ \E e \in Spot : CloseCell(e)

Spec == Init /\ [][Next]_vars

-----------------------------------------------------------------------------
(* Properties.                                                             *)

\* A position is planned, and stays in the plan, only where its predecessors
\* permit it in Raport itself and not only in what was read of it: the
\* finish-to-start ones are on the cell and finished by everyone, the
\* start-to-start ones started by someone.
PredecessorsHold ==
  \A r \in rows \cup day :
    LET e == r[1]  node == NodesOf(e.section)[e.work] IN
      /\ \A d \in node.after : On(Share, At(e, d)) # {} /\ On(Share, At(e, d)) \subseteq finished
      /\ \A d \in node.afterStart : On(started, At(e, d)) # {}

\* The positions of one work that a run has given to one contractor.
GivenTo(c, w) == {r \in rows : r[2] = c /\ r[1].work = w}

\* Of two spots of one work, which a generation has to reach first.
Earlier(d, e) ==
  \/ d.section < e.section
  \/ d.section = e.section
       /\ IF NodesOf(e.section)[e.work].down THEN d.floor > e.floor ELSE d.floor < e.floor

\* Who is given what: of the candidates that one contractor alone could do, a
\* run plans the first in the direction of the work, as many as the limit
\* leaves room for, and no other.
FirstFloorsFirst ==
  \A e \in walked : \A c \in Contractor : Lone(e, c) =>
    \/ /\ <<e, c>> \in rows
       /\ \A d \in Candidates : Lone(d, c) /\ d.work = e.work /\ Earlier(d, e) => <<d, c>> \in rows
    \/ /\ <<e, c>> \notin rows
       /\ Cardinality(GivenTo(c, e.work)) = LimitFor(c, e.work)

\* A run gives no contractor more floors of a work than the cascade of limits
\* allows, over all sections and in whatever order it walks them.
LimitKept ==
  \A c \in Contractor, w \in Work : Cardinality(GivenTo(c, w)) <= LimitFor(c, w)

\* What a walk knows of itself, strong enough to follow from itself.  The slice
\* is a possibly outdated image of Raport, with all readable shares of a spot or
\* none; the walk has dealt with the first candidates, in order; it has counted
\* the floors it gave away; between runs nothing is left of it.
SliceIsTrue ==
  /\ begun \subseteq started /\ done \subseteq finished
  /\ \A e \in Spot : On(cells, e) \in {{}, {sh \in On(Share, e) : sh[2] \in Synced}}

WalkIsSound ==
  /\ walked \subseteq Candidates
  /\ \A e \in walked, d \in Candidates : Before(d, e) => d \in walked
  /\ \A r \in rows : r[1] \in walked /\ Lone(r[1], r[2])
  /\ \A c \in Contractor, w \in Work : taken[<<c, w>>] = Cardinality(GivenTo(c, w))
  /\ pc # "walk" => walked = {} /\ known = {}
  /\ pc = "idle" => cells = {}

GInv == TypeOK /\ SliceIsTrue /\ WalkIsSound /\ LimitKept /\ FirstFloorsFirst

\* Raport's scheduler asks for every housing each night, and a generation goes on.
FairSpec == Spec /\ WF_vars(Generate) /\ SF_vars(Ask(Section))

\* No work is starved: if no position stays in the plan for ever without being
\* carried out, the whole housing gets built.
HousingGetsBuilt ==
  (\A sh \in Share : []<>(sh \in day => sh \in finished)) => <>(finished = Share)

=============================================================================
