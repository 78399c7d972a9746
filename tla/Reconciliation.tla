--------------------------- MODULE Reconciliation ---------------------------
(***************************************************************************)
(* The plan-fact reconciliation (services/reconciliation/service.py): runs *)
(* of run_reconciliation over one set of result and summary rows, while    *)
(* positions come and go, facts arrive and Raport's percents move.         *)
(*                                                                         *)
(* A run is one request with one database session.  A step is a statement, *)
(* or a statement and its commit; a DELETE (BaseManager.bulk_delete) stays *)
(* uncommitted until the session's next commit and makes another session's *)
(* DELETE of the same rows wait.  The searches of a housing's positions    *)
(* and of its facts are one step: they read unrelated tables, so a change  *)
(* between them might as well come before or after both.                   *)
(***************************************************************************)
EXTENDS Integers, FiniteSets

CONSTANTS
  Run,         \* the calls of run_reconciliation; each happens once
  Housing,
  Projects,    \* the sets of housings that make up a project
  Day,         \* an interval of days
  Contractor,
  Spot,        \* (section, floor, work) of a housing
  WorkOf,      \* WorkOf[sp]: the work of a spot
  Position,    \* the rows plan_items may get
  Fact,        \* the rows work_facts may get; a later version has the same id
  Percent,     \* the percents a cell of Raport may show
  Full,        \* DONE_PERCENT
  None,        \* NULL
  Crashes      \* whether a run may die between two steps

Key  == (Contractor \cup {None}) \X Spot
Cell == Contractor \X Spot
Unit == Housing \X Day

ASSUME DayAssumption     == Day \subseteq Int
ASSUME ProjectAssumption == Projects \subseteq SUBSET Housing
ASSUME PercentAssumption == Full \in Percent /\ Percent \subseteq Nat /\ None \notin Percent
ASSUME PositionAssumption ==
  \A p \in Position : /\ p.housing \in Housing /\ p.day \in Day
                      /\ p.key \in Key /\ p.source \in Percent \cup {None}
ASSUME FactAssumption ==
  \A f \in Fact : f.housing \in Housing /\ f.day \in Day /\ f.key \in Key
ASSUME TableAssumption ==
  IsFiniteSet(Position) /\ IsFiniteSet(Fact) /\ None \notin Position \cup Fact
ASSUME CrashAssumption == Crashes \in BOOLEAN

\* ReconciliationStatus; DONE_OVER is never given.
Status == {"done_full", "done_partial", "not_done", "no_report", "unplanned"}

Row   == [run : Run, unit : Unit, key : Key, plan : Position \cup {None},
          fact : Fact \cup {None}, status : Status]
Count == [planned : Nat, full : Nat, partial : Nat, notDone : Nat,
          noReport : Nat, unplanned : Nat]
Sum   == [run : Run, unit : Unit, count : Count]

VARIABLES
  plans,    \* plan_items
  gone,     \* the positions that were deleted: no key is used twice
  facts,    \* work_facts
  percent,  \* Raport's chessboard
  results,  \* reconciliation_results, as committed
  sums,     \* daily_summaries, as committed
  pc,       \* what each run does next
  scope,    \* the units each run was asked for
  left,     \* the housings it has not come to yet
  at,       \* the unit it is at
  readP,    \* the positions it has read of the housing ...
  readF,    \* ... the facts ...
  toRead,   \* ... the works whose cells it still has to read ...
  slice,    \* ... and the percents it has got of the others
  found,    \* the rows its last search found
  doomed,   \* the rows it has deleted and not committed
  made,     \* results_data
  company,  \* history: whether a run has met another one on its units
  clashed   \* history: the units on which runs have met, until a run without
            \* company has rebuilt them

tables == <<results, sums>>
outer  == <<plans, gone, facts, percent>>
input  == <<readP, readF, toRead, slice>>
history == <<company, clashed>>
vars   == <<plans, gone, facts, percent, results, sums, pc, scope, left, at, readP,
            readF, toRead, slice, found, doomed, made, company, clashed>>

Point == {"new", "housing", "cells", "find_results", "drop_results",
          "find_sums", "drop_sums", "write", "summarise", "ended"}

TypeOK ==
  /\ plans \subseteq Position /\ gone \subseteq Position \ plans
  /\ facts \subseteq Fact
  /\ percent \in [Cell -> Percent \cup {None}]
  /\ results \subseteq Row /\ sums \subseteq Sum
  /\ pc \in [Run -> Point]
  /\ scope \in [Run -> SUBSET Unit]
  /\ left \in [Run -> SUBSET Housing]
  /\ at \in [Run -> Unit \cup {None}]
  /\ readP \in [Run -> SUBSET Position] /\ readF \in [Run -> SUBSET Fact]
  /\ toRead \in [Run -> SUBSET {WorkOf[sp] : sp \in Spot}]
  /\ slice \in [Run -> [Cell -> Percent \cup {None}]]
  /\ found \in [Run -> SUBSET (Row \cup Sum)]
  /\ doomed \in [Run -> SUBSET (Row \cup Sum)]
  /\ made \in [Run -> SUBSET Row]
  /\ company \in [Run -> BOOLEAN]
  /\ clashed \subseteq Unit

Init ==
  /\ plans \in SUBSET Position /\ gone = {}
  /\ facts = {}
  /\ percent = [c \in Cell |-> None]
  /\ results = {} /\ sums = {}
  /\ pc = [r \in Run |-> "new"]
  /\ scope = [r \in Run |-> {}] /\ left = [r \in Run |-> {}]
  /\ at = [r \in Run |-> None]
  /\ readP = [r \in Run |-> {}] /\ readF = [r \in Run |-> {}]
  /\ toRead = [r \in Run |-> {}]
  /\ slice = [r \in Run |-> [c \in Cell |-> None]]
  /\ found = [r \in Run |-> {}] /\ doomed = [r \in Run |-> {}]
  /\ made = [r \in Run |-> {}]
  /\ company = [r \in Run |-> FALSE] /\ clashed = {}

Goto(r, point) == pc' = [pc EXCEPT ![r] = point]

Active == {r \in Run : pc[r] \notin {"new", "ended"}}

Of(rows, u) == {x \in rows : x.unit = u}

-----------------------------------------------------------------------------
(* What the run meets outside.                                             *)

AddPosition(p) ==
  /\ p \notin plans \cup gone
  /\ plans' = plans \cup {p}
  /\ UNCHANGED <<gone, facts, percent, tables, pc, scope, left, at, input, found, doomed, made, history>>

\* The foreign key plan_item_id keeps a position that a result names.
RemovePosition(p) ==
  /\ p \in plans
  /\ \A x \in results : x.plan # p
  /\ plans' = plans \ {p}
  /\ gone' = gone \cup {p}
  /\ UNCHANGED <<facts, percent, tables, pc, scope, left, at, input, found, doomed, made, history>>

\* The synchronisation stores a fact, or a new version of it.
StoreFact(f) ==
  /\ f \notin facts
  /\ facts' = {g \in facts : g.id # f.id} \cup {f}
  /\ UNCHANGED <<plans, gone, percent, tables, pc, scope, left, at, input, found, doomed, made, history>>

MoveCell(c, x) ==
  /\ percent[c] # x
  /\ percent' = [percent EXCEPT ![c] = x]
  /\ UNCHANGED <<plans, gone, facts, tables, pc, scope, left, at, input, found, doomed, made, history>>

-----------------------------------------------------------------------------
(* What a run makes of a day.                                              *)

\* Mutant: a fact nobody planned counts as planned work.
ClassifyFactsFirst(p, f, now) ==
  LET before == IF p = None \/ p.source = None THEN 0 ELSE p.source
      seen   == IF now = None THEN 0 ELSE now IN
    IF f = None THEN "no_report"
    ELSE IF seen >= Full THEN "done_full"
    ELSE IF seen > before THEN "done_partial"
    ELSE IF p = None THEN "unplanned" ELSE "not_done"

\* classify_status: by the growth of the percent since the plan was made.
Classify(p, f, now) ==
  LET before == IF p = None \/ p.source = None THEN 0 ELSE p.source
      seen   == IF now = None THEN 0 ELSE now IN
    CASE p = None /\ f # None -> "unplanned"
      [] f = None             -> "no_report"
      [] p # None /\ f # None -> IF seen >= Full THEN "done_full"
                                 ELSE IF seen > before THEN "done_partial"
                                 ELSE "not_done"

\* _current_percent: the contractor's own share, or else the highest on the spot.
PercentNow(r, key) ==
  LET known == {c \in Cell : c[2] = key[2] /\ slice[r][c] # None} IN
    IF key \in known THEN {slice[r][key]}
    ELSE IF known = {} THEN {None}
    ELSE {slice[r][c] : c \in {d \in known : \A e \in known : slice[r][e] <= slice[r][d]}}

\* The dictionaries of _match keep one row of each key, the last one read.
Picks(rows) ==
  {T \in SUBSET rows : /\ \A x \in rows : \E y \in T : y.key = x.key
                       /\ \A x, y \in T : x.key = y.key => x = y}

\* The row of a key in a picked set, None without one.
At(T, key) == IF \E x \in T : x.key = key THEN CHOOSE x \in T : x.key = key ELSE None

RowOf(r, key, P, F, now) ==
  [run |-> r, unit |-> at[r], key |-> key, plan |-> At(P, key), fact |-> At(F, key),
   status |-> Classify(At(P, key), At(F, key), now)]

Keys(rows) == {x.key : x \in rows}

\* _build_results: a row for each key of a position or a fact of the day.
RowsOf(r, P, F) ==
  UNION {{RowOf(r, key, P, F, now) : now \in PercentNow(r, key)} : key \in Keys(P) \cup Keys(F)}

OnDay(rows, d) == {x \in rows : x.day = d}

Having(rows, st) == Cardinality({x \in rows : x.status = st})

\* _build_summary_data.
CountOf(rows) ==
  [planned   |-> Cardinality({x \in rows : x.plan # None}),
   full      |-> Having(rows, "done_full"), partial  |-> Having(rows, "done_partial"),
   notDone   |-> Having(rows, "not_done"),  noReport |-> Having(rows, "no_report"),
   unplanned |-> Having(rows, "unplanned")]

-----------------------------------------------------------------------------
(* run_reconciliation.                                                     *)

\* _housings_in_scope: one housing, those of a project, or all.
Scopes == {{h} : h \in Housing} \cup Projects \cup {Housing}

\* A range given the wrong way round is turned.
Ask(r, H, a, b) ==
  LET mine == {u \in Unit : u[1] \in H /\ u[2] \in (a .. b) \cup (b .. a)}
      met  == {q \in Active : scope[q] \cap mine # {}} IN
    /\ pc[r] = "new"
    /\ H \in Scopes
    /\ Goto(r, "housing")
    /\ scope' = [scope EXCEPT ![r] = mine]
    /\ left' = [left EXCEPT ![r] = H]
    /\ company' = [q \in Run |-> company[q] \/ q \in met \/ (q = r /\ met # {})]
    /\ clashed' = clashed \cup {u \in mine : \E q \in met : u \in scope[q]}
    /\ UNCHANGED <<outer, tables, at, input, found, doomed, made>>

FirstDay(r, h) ==
  CHOOSE u \in scope[r] : u[1] = h /\ \A v \in scope[r] : v[1] = h => u[2] <= v[2]

\* The positions and facts of the range; a housing without any is skipped.
ReadHousing(r, h) ==
  LET P == {p \in plans : <<p.housing, p.day>> \in scope[r] /\ p.housing = h}
      F == {f \in facts : <<f.housing, f.day>> \in scope[r] /\ f.housing = h} IN
    /\ pc[r] = "housing"
    /\ h \in left[r]
    /\ left' = [left EXCEPT ![r] = @ \ {h}]
    /\ IF P \cup F = {}
       THEN UNCHANGED <<pc, at, input>>
       ELSE /\ Goto(r, "cells")
            /\ at' = [at EXCEPT ![r] = FirstDay(r, h)]
            /\ readP' = [readP EXCEPT ![r] = P]
            /\ readF' = [readF EXCEPT ![r] = F]
            /\ toRead' = [toRead EXCEPT ![r] = {WorkOf[k[2]] : k \in Keys(P) \cup Keys(F)}]
            /\ UNCHANGED slice
    /\ UNCHANGED <<outer, tables, scope, found, doomed, made, history>>

\* One work of the chessboard is read, or its request fails and is left out.
ReadWork(r, w, fails) ==
  /\ pc[r] = "cells"
  /\ w \in toRead[r]
  /\ toRead' = [toRead EXCEPT ![r] = @ \ {w}]
  /\ slice' = [slice EXCEPT ![r] =
                 [c \in Cell |-> IF WorkOf[c[2]] = w /\ ~fails THEN percent[c] ELSE @[c]]]
  /\ Goto(r, IF toRead[r] = {w} THEN "find_results" ELSE "cells")
  /\ UNCHANGED <<outer, tables, scope, left, at, readP, readF, found, doomed, made, history>>

\* delete_by_date_and_housing searches first ...
FindResults(r) ==
  /\ pc[r] = "find_results"
  /\ found' = [found EXCEPT ![r] = Of(results, at[r])]
  /\ Goto(r, "drop_results")
  /\ UNCHANGED <<outer, tables, scope, left, at, input, doomed, made, history>>

FindSums(r) ==
  /\ pc[r] = "find_sums"
  /\ found' = [found EXCEPT ![r] = Of(sums, at[r])]
  /\ Goto(r, "drop_sums")
  /\ UNCHANGED <<outer, tables, scope, left, at, input, doomed, made, history>>

\* ... and then deletes what it found, once no other run holds those rows.
Drop(r, from, to) ==
  /\ pc[r] = from
  /\ \A q \in Run \ {r} : doomed[q] \cap found[r] = {}
  /\ doomed' = [doomed EXCEPT ![r] = @ \cup found[r]]
  /\ found' = [found EXCEPT ![r] = {}]
  /\ Goto(r, to)
  /\ UNCHANGED <<outer, tables, scope, left, at, input, made, history>>

\* Mutant: the delete in batches loses the last row.
DropAllButOne(r) ==
  /\ pc[r] = "drop_results"
  /\ \A q \in Run \ {r} : doomed[q] \cap found[r] = {}
  /\ doomed' = [doomed EXCEPT ![r] = IF found[r] = {} THEN {} ELSE found[r] \ {CHOOSE x \in found[r] : TRUE}]
  /\ found' = [found EXCEPT ![r] = {}]
  /\ Goto(r, "find_sums")
  /\ UNCHANGED <<outer, tables, scope, left, at, input, made, history>>

DropResults(r) == Drop(r, "drop_results", "find_sums")

\* Mutant: the summaries of the day are left where they are.
DropNoSums(r) ==
  /\ pc[r] = "drop_sums"
  /\ found' = [found EXCEPT ![r] = {}]
  /\ Goto(r, "write")
  /\ UNCHANGED <<outer, tables, scope, left, at, input, doomed, made, history>>

DropSums(r) == Drop(r, "drop_sums", "write")

\* A commit publishes every delete of the session.
Publish(r) == doomed' = [doomed EXCEPT ![r] = {}]

\* bulk_insert: one statement, refused as a whole if a position it names is
\* gone; without rows there is no statement and no commit.
WriteResults(r) ==
  /\ pc[r] = "write"
  /\ \E P \in Picks(OnDay(readP[r], at[r][2])), F \in Picks(OnDay(readF[r], at[r][2])) :
       /\ P \subseteq plans
       /\ made' = [made EXCEPT ![r] = RowsOf(r, P, F)]
       /\ IF RowsOf(r, P, F) = {}
          THEN UNCHANGED <<tables, doomed>>
          ELSE /\ results' = (results \ doomed[r]) \cup RowsOf(r, P, F)
               /\ sums' = sums \ doomed[r]
               /\ Publish(r)
  /\ Goto(r, "summarise")
  /\ UNCHANGED <<outer, scope, left, at, input, found, history>>

\* What a run has read is forgotten when it is done with a housing.
NothingRead(r) ==
  /\ readP' = [readP EXCEPT ![r] = {}] /\ readF' = [readF EXCEPT ![r] = {}]
  /\ toRead' = [toRead EXCEPT ![r] = {}]
  /\ slice' = [slice EXCEPT ![r] = [c \in Cell |-> None]]

\* The request ends, and its session rolls back what is not committed.
Leave(r) ==
  /\ Goto(r, "ended")
  /\ Publish(r)
  /\ scope' = [scope EXCEPT ![r] = {}] /\ left' = [left EXCEPT ![r] = {}]
  /\ at' = [at EXCEPT ![r] = None]
  /\ NothingRead(r)
  /\ found' = [found EXCEPT ![r] = {}] /\ made' = [made EXCEPT ![r] = {}]
  /\ UNCHANGED <<outer, tables, history>>

\* Mutant: a refused INSERT is tried again with the same positions.
TryAgain(r) ==
  /\ pc[r] = "write"
  /\ ~(OnDay(readP[r], at[r][2]) \subseteq plans)
  /\ Goto(r, "find_results")
  /\ Publish(r)
  /\ UNCHANGED <<outer, tables, scope, left, at, input, found, made, history>>

InsertFails(r) ==
  /\ pc[r] = "write"
  /\ ~(OnDay(readP[r], at[r][2]) \subseteq plans)
  /\ Leave(r)

NextDay(u) == <<u[1], u[2] + 1>>

\* The summary is created and committed; then the next day, or housing.
WriteSummary(r) ==
  LET u == at[r] IN
    /\ pc[r] = "summarise"
    /\ results' = results \ doomed[r]
    /\ sums' = (sums \ doomed[r]) \cup {[run |-> r, unit |-> u, count |-> CountOf(made[r])]}
    /\ Publish(r)
    /\ IF NextDay(u) \in scope[r]
       THEN at' = [at EXCEPT ![r] = NextDay(u)] /\ Goto(r, "find_results") /\ UNCHANGED input
       ELSE at' = [at EXCEPT ![r] = None] /\ Goto(r, "housing") /\ NothingRead(r)
    /\ made' = [made EXCEPT ![r] = {}]
    /\ clashed' = IF company[r] THEN clashed ELSE clashed \ {u}
    /\ UNCHANGED <<outer, scope, left, found, company>>

End(r) ==
  /\ pc[r] = "housing"
  /\ left[r] = {}
  /\ Leave(r)

Crash(r) ==
  /\ Crashes
  /\ r \in Active
  /\ Leave(r)

Step(r) ==
  \/ \E h \in Housing : ReadHousing(r, h)
  \/ \E w \in toRead[r] : ReadWork(r, w, FALSE) \/ ReadWork(r, w, TRUE)
  \/ FindResults(r) \/ DropResults(r) \/ FindSums(r) \/ DropSums(r)
  \/ WriteResults(r) \/ InsertFails(r) \/ WriteSummary(r) \/ End(r)

Outside ==
  \/ \E p \in Position : AddPosition(p) \/ RemovePosition(p)
  \/ \E f \in Fact : StoreFact(f)
  \/ \E c \in Cell, x \in Percent : MoveCell(c, x)

Next ==
  \/ Outside
  \/ \E r \in Run :
       \/ \E H \in SUBSET Housing, a, b \in Day : Ask(r, H, a, b)
       \/ Step(r)
       \/ Crash(r)

Spec == Init /\ [][Next]_vars

\* The server goes on with a request it has accepted; nobody has to make one.
FairSpec == Spec /\ \A r \in Run : WF_vars(Step(r))

-----------------------------------------------------------------------------
(* Properties.                                                             *)

\* The rows of a day are of one run, and a summary counts exactly them.
IsWhole(u) ==
  /\ \A x, y \in Of(results, u) : x.run = y.run
  /\ \A s, t \in Of(sums, u) : s = t
  /\ \A s \in Of(sums, u) : /\ s.count = CountOf(Of(results, u))
                            /\ \A x \in Of(results, u) : x.run = s.run

\* "Rebuilds it whole": unless two runs have met on a day, its results are of a
\* single run and its summary, if there is one, counts exactly those results,
\* wherever runs crashed or failed between their two commits.  A run that meets
\* no other repairs a day on which others have met.
DaysAreWhole == \A u \in Unit \ clashed : IsWhole(u)

\* Every planned position of a summary is in one of four states: what the
\* rates divide adds up, whatever was read and whoever has met.
CountsAddUp ==
  \A s \in sums :
    s.count.planned = s.count.full + s.count.partial + s.count.notDone + s.count.noReport

\* A run that was asked for comes to an end: runs wait for each other's
\* deletes, but not in a circle.
EveryRunEnds == \A r \in Run : (pc[r] # "new") ~> (pc[r] = "ended")

\* Looked at day by day the runs replace the results of whole runs by those of
\* one new run, in one instant, however they meet or end.
Board == INSTANCE ResultBoard WITH board <- [u \in Unit |-> Of(results, u)]

BoardSpec == Board!Spec
=============================================================================
