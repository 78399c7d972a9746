------------------------------ MODULE Screens ------------------------------
(***************************************************************************)
(* What a user sees of a housing's reconciliation while runs rebuild it:   *)
(* the dashboard (services/dashboard/service.py), which counts results, and *)
(* the tables of results and of daily summaries, which are read page by    *)
(* page (list_results, list_summaries, BaseManager.search and count).      *)
(*                                                                         *)
(* Every statement of a request sees what is committed when it runs (READ  *)
(* COMMITTED), and every page is a request.  Requests change nothing, so   *)
(* one view stands for any number of them.  Runs that meet on a day are    *)
(* the business of module Reconciliation; here they come one by one.       *)
(***************************************************************************)
EXTENDS Integers, Sequences, FiniteSets, FiniteSetsExt, SequencesExt

CONSTANTS
  Section,
  Day,
  Place,       \* (floor, work, contractor) of a result
  SectionOf,   \* SectionOf[x]: the section of a place
  Outcomes,    \* the statuses that occur
  PerPage,
  MaxRebuilds, \* bound: how often a day is rebuilt
  None

Status == {"done_full", "done_partial", "done_over", "not_done", "no_report", "unplanned"}

\* A housing has so many sections and places, and so many days are followed.
ASSUME SizeAssumption    == IsFiniteSet(Section) /\ IsFiniteSet(Day) /\ IsFiniteSet(Place)
ASSUME DayAssumption     == Day \subseteq Int
ASSUME PlaceAssumption   == SectionOf \in [Place -> Section]

\* DONE_OVER is never given (module Reconciliation).
ASSUME OutcomeAssumption == Outcomes \subseteq Status \ {"done_over"}

ASSUME PageAssumption == PerPage \in Nat \ {0} /\ MaxRebuilds \in Nat

\* plan: whether there is a plan_item_id; without one a result is unplanned.
Result ==
  {x \in [day : Day, place : Place, plan : BOOLEAN, status : Outcomes] :
     x.plan <=> x.status # "unplanned"}

Count == [planned : Nat, full : Nat, noReport : Nat, unplanned : Nat]

Answer == [total : Nat, planned : Nat, done : Nat, silent : Nat]

ASSUME NoneAssumption == None \notin Section \cup Status /\ None \notin Count

NoAnswer == [total |-> 0, planned |-> 0, done |-> 0, silent |-> 0]

VARIABLES
  results,   \* reconciliation_results
  sums,      \* daily_summaries
  rebuilds,
  view       \* the requests of one user and what they have shown so far

vars == <<results, sums, rebuilds, view>>

Closed ==
  [at |-> "idle", kind |-> "none", days |-> {}, section |-> None, got |-> NoAnswer,
   todo |-> {}, shares |-> [s \in Section |-> None], status |-> None, offered |-> {}, page |-> 1,
   seen |-> <<>>, quiet |-> FALSE]

View ==
  [at : {"idle", "total", "planned", "done", "silent", "options", "choose", "page", "count", "shown"},
   kind : {"none", "overview", "sections", "results", "summaries"},
   days : SUBSET Day, section : Section \cup {None}, got : Answer,
   todo : SUBSET Section,   \* sections that are still to be counted
   shares : [Section -> Answer \cup {None}],
   status : Status \cup {None}, offered : SUBSET Status,
   page : Nat \ {0}, seen : Seq(Result \cup [day : Day]),
   quiet : BOOLEAN]         \* history: nothing has been committed since it began

TypeOK ==
  /\ results \subseteq Result
  /\ sums \in [Day -> Count \cup {None}]
  /\ rebuilds \in 0..MaxRebuilds
  /\ view \in View

Init ==
  /\ results = {} /\ sums = [d \in Day |-> None]
  /\ rebuilds = 0
  /\ view = Closed

-----------------------------------------------------------------------------
(* The reconciliation.                                                     *)

OnDay(d) == {x \in results : x.day = d}

With(rows, S) == {x \in rows : x.status \in S}

\* _build_summary_data.
CountOf(rows) ==
  [planned   |-> Cardinality({x \in rows : x.plan}),
   full      |-> Cardinality(With(rows, {"done_full"})),
   noReport  |-> Cardinality(With(rows, {"no_report"})),
   unplanned |-> Cardinality(With(rows, {"unplanned"}))]

Disturbed == [view EXCEPT !.quiet = FALSE]

\* The first commit of a day: new results in the place of the old ones and of
\* their summary.  Without new results the summary comes with the same commit.
Rebuild(d, rows) ==
  /\ rebuilds < MaxRebuilds
  /\ rebuilds' = rebuilds + 1
  /\ results' = (results \ OnDay(d)) \cup rows
  /\ sums' = [sums EXCEPT ![d] = IF rows = {} THEN CountOf({}) ELSE None]
  /\ view' = Disturbed

\* The second: the summary, if the run is not cut off before.
Summarise(d) ==
  /\ sums[d] = None /\ OnDay(d) # {}
  /\ sums' = [sums EXCEPT ![d] = CountOf(OnDay(d))]
  /\ view' = Disturbed
  /\ UNCHANGED <<results, rebuilds>>

-----------------------------------------------------------------------------
(* Statements.                                                             *)

At(point) == view.at = point

\* apply_filters: no section, and no status, is no filter.
Filtered ==
  {x \in results : /\ x.day \in view.days
                   /\ view.section \in {SectionOf[x.place], None}
                   /\ view.status \in {x.status, None}}

\* Mutant: plan_item_id__isnotnull is forgotten.
AllFiltered == Filtered

Planned == {x \in Filtered : x.plan}

Days(a, b) == {d \in Day : a <= d /\ d <= b}

-----------------------------------------------------------------------------
(* The dashboard.                                                          *)

AskOverview(a, b, s) ==
  /\ At("idle")
  /\ view' = [Closed EXCEPT !.at = "total", !.kind = "overview", !.days = Days(a, b),
                            !.section = s, !.quiet = TRUE]

\* The sections are read first, and then counted one after the other.
AskSections(a, b) ==
  /\ At("idle")
  /\ \E s \in Section :
       view' = [Closed EXCEPT !.at = "planned", !.kind = "sections", !.days = Days(a, b),
                              !.section = s, !.todo = Section \ {s}, !.quiet = TRUE]

\* The rates of the overview, or of a section, are known.
AfterRates(v) == [v EXCEPT !.at = IF v.kind = "overview" THEN "shown" ELSE "total"]

\* _completion_rates: nothing planned, no rates.
CountPlanned ==
  /\ At("planned")
  /\ LET v == [view EXCEPT !.got.planned = Cardinality(Planned), !.at = "done"] IN
       view' = IF Planned = {} THEN AfterRates(v) ELSE v

CountDone ==
  /\ At("done")
  /\ view' = [view EXCEPT !.got.done = Cardinality(With(Planned, {"done_full", "done_over"})),
                          !.at = "silent"]

CountSilent ==
  /\ At("silent")
  /\ view' = AfterRates([view EXCEPT !.got.silent = Cardinality(With(Planned, {"no_report"}))])

\* Mutant: a section without rates shows those of the section before.
NextSectionKeeping(v) ==
  LET shown == [v EXCEPT !.shares[v.section] = v.got] IN
    IF v.todo = {} THEN {[shown EXCEPT !.at = "shown", !.section = None, !.got = NoAnswer]}
    ELSE {[shown EXCEPT !.at = "planned", !.section = s, !.todo = @ \ {s}] : s \in v.todo}

\* A row of the answer is complete; the next section, or the end.
NextSection(v) ==
  LET shown == [v EXCEPT !.shares[v.section] = v.got, !.got = NoAnswer] IN
    IF v.todo = {} THEN {[shown EXCEPT !.at = "shown", !.section = None]}
    ELSE {[shown EXCEPT !.at = "planned", !.section = s, !.todo = @ \ {s}] : s \in v.todo}

\* total_reconciliation_results: first in the overview, last for a section.
CountTotal ==
  /\ At("total")
  /\ LET v == [view EXCEPT !.got.total = Cardinality(Filtered)] IN
       IF view.kind = "overview" THEN view' = [v EXCEPT !.at = "planned"]
       ELSE view' \in NextSection(v)

-----------------------------------------------------------------------------
(* The tables.                                                             *)

\* The screen of the results asks for its filters before it shows a table ...
AskResults(a, b) ==
  /\ At("idle")
  /\ view' = [Closed EXCEPT !.at = "options", !.kind = "results", !.days = Days(a, b),
                            !.quiet = TRUE]

\* ... that of the summaries has none; a status is left out of the request.
AskSummaries(a, b) ==
  /\ At("idle")
  /\ view' = [Closed EXCEPT !.at = "page", !.kind = "summaries", !.days = Days(a, b),
                            !.quiet = TRUE]

\* Mutant: the range of days is left out.
OfferAnywhere ==
  /\ At("options")
  /\ view' = [view EXCEPT !.offered = {x.status : x \in results}, !.at = "choose"]

\* filter_options: the values of the rows in scope, from one statement.
Offer ==
  /\ At("options")
  /\ view' = [view EXCEPT !.offered = {x.status : x \in Filtered}, !.at = "choose"]

\* The user filters by a status, or by none.
Choose(st) ==
  /\ At("choose")
  /\ st \in view.offered \cup {None}
  /\ view' = [view EXCEPT !.status = st, !.at = "page"]

\* The rows of the table; of a summary its day is enough.
Listed ==
  IF view.kind = "results" THEN Filtered ELSE {[day |-> d] : d \in {d \in view.days : sums[d] # None}}

\* add_order_to_query: "-date" alone, so rows of a day come in any order, and in
\* another one for the next page.
Orders(rows) ==
  {q \in SetToSeqs(rows) : \A i, j \in DOMAIN q : i < j => q[i].day >= q[j].day}

\* Mutant: OFFSET counts the page itself.
PageAfter(q) ==
  SubSeq(q, view.page * PerPage + 1, Min({(view.page + 1) * PerPage, Len(q)}))

\* LIMIT and OFFSET.
Page(q) ==
  SubSeq(q, (view.page - 1) * PerPage + 1, Min({view.page * PerPage, Len(q)}))

ReadPage ==
  /\ At("page")
  /\ \E q \in Orders(Listed) : view' = [view EXCEPT !.seen = @ \o Page(q), !.at = "count"]

\* get_pagination_info: whether a total leaves a page after the one shown.
HasNext(total) == view.page * PerPage < total

\* The total of the filter is counted; the user asks for the next page.
CountListed ==
  /\ At("count")
  /\ view' = IF HasNext(Cardinality(Listed))
             THEN [view EXCEPT !.page = @ + 1, !.at = "page"]
             ELSE [view EXCEPT !.at = "shown"]

\* The user has seen enough, or the connection is lost.
Close ==
  /\ ~At("idle")
  /\ view' = Closed

Request ==
  \/ \E a, b \in Day :
       \/ \E s \in Section \cup {None} : AskOverview(a, b, s)
       \/ AskSections(a, b) \/ AskResults(a, b) \/ AskSummaries(a, b)
  \/ CountPlanned \/ CountDone \/ CountSilent \/ CountTotal
  \/ Offer \/ ReadPage \/ CountListed \/ Close
  \/ \E st \in Outcomes \cup {None} : Choose(st)

Next ==
  \/ \E d \in Day :
       \/ Summarise(d)
       \/ \E P \in SUBSET Place :
            \E f \in [P -> Outcomes] :
              Rebuild(d, {[day |-> d, place |-> x, plan |-> f[x] # "unplanned", status |-> f[x]] : x \in P})
  \/ Request /\ UNCHANGED <<results, sums, rebuilds>>

Spec == Init /\ [][Next]_vars

-----------------------------------------------------------------------------
(* Properties.                                                             *)

\* A request, or a walk through all pages, is over and nothing was committed
\* while it went on.
Undisturbed(kind) == At("shown") /\ view.kind = kind /\ view.quiet

\* All days asked for have the summary of their results.
Summarised == \A d \in view.days : OnDay(d) # {} => sums[d] # None

\* The summaries of the days asked for, added up in one column.
Summed(column) ==
  SumFunctionOnSet([d \in Day |-> sums[d][column]], {d \in view.days : sums[d] # None})

\* The dashboard counts the results in statements of its own, the summaries of
\* the days were counted by the runs; over any range the two agree.
OverviewIsTheSummaries ==
  Undisturbed("overview") /\ view.section = None /\ Summarised =>
    view.got = [total |-> Summed("planned") + Summed("unplanned"), planned |-> Summed("planned"),
                done |-> Summed("full"), silent |-> Summed("noReport")]

\* The sections of a housing share the figures of the housing among them.
SectionsAddUp ==
  Undisturbed("sections") /\ Summarised =>
    LET shared(figure) == SumFunction([s \in Section |-> view.shares[s][figure]]) IN
      /\ shared("planned") = Summed("planned") /\ shared("done") = Summed("full")
      /\ shared("silent") = Summed("noReport")
      /\ shared("total") = Summed("planned") + Summed("unplanned")

\* Whoever goes through all pages undisturbed sees the days in their order and
\* as many rows of each as it has, though rows of a day change their order from
\* page to page.
WalkCoversTheDays ==
  Undisturbed("results") \/ Undisturbed("summaries") =>
    /\ \A i, j \in DOMAIN view.seen : i < j => view.seen[i].day >= view.seen[j].day
    /\ \A d \in view.days :
         Cardinality({i \in DOMAIN view.seen : view.seen[i].day = d})
           = Cardinality({x \in Listed : x.day = d})

\* A filter that is offered finds something, and what is found without one has
\* been offered, as long as nothing is committed.
FiltersFind ==
  Undisturbed("results") =>
    /\ view.status # None => view.seen # <<>>
    /\ \A i \in DOMAIN view.seen : view.seen[i].status \in view.offered
=============================================================================
