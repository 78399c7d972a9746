# Plan-naryad backend: TLA+ verification

The plan-naryad backend turns a calendar plan and the state of the chessboard in
the Raport system into a day's list of positions (section, floor, work,
contractor), lets planners edit, confirm and hand over that list, compares it
with what was done (reconciliation), and raises alerts and violations.  It is a
FastAPI service over PostgreSQL; Raport is read over HTTP; an external scheduler
calls the nightly endpoints.

The sources are cited below relative to the repository's `src/`.

## Inventory

| Component | State | Operations | Interacts with |
| --- | --- | --- | --- |
| Plan-naryad (`services/plan/service.py`, `api/v1/plan/views.py`) | `plan_items`, the action journal | generate (with the 409 gate), manual add, confirm, delete, group confirm, group delete, hand over | report_cells, contractor_works, nightly job, reconciliation (foreign key) |
| Choice of positions (`_ready_works`, `_limit_for`, the frontier walk; `services/report_cells`, `services/contractor_works`) | none of its own: reads the technological graph, the chessboard, the assignments and the limits | one walk per generation | Raport (HTTP reads that may fail or be cut short) |
| Nightly job and hand-over (`services/task/service.py`) | none | per housing: fact sync, forced generation; hand-over of a day | plan-naryad, sync, all through one session |
| Database layer (`config/postgres/db_config.py`, `models/managers/common.py`) | the transaction of each session | create, update, delete (commit), bulk_update and bulk_upsert (commit), bulk_insert (commits when told), bulk_delete (never commits) | everything |
| Reconciliation (`services/reconciliation/service.py`) | `reconciliation_results`, `daily_summaries` | run over a range of days, per housing | plan-naryad, report_cells, facts, alerts, dashboard |
| Alerts (`services/alert/service.py`) | `alerts` | daily alerts, acknowledge, two escalation checks | reconciliation, plan-naryad, technological sequence |
| Workforce (`services/workforce/service.py`, `api/v1/workforce/views.py`) | head counts, challenges with control points, violations | statistics, rating, check of control points, violation scan, escalation, corrections by hand | facts, challenges |
| Synchronisation (`services/sync/service.py`) | the mirrored tables, `work_facts`, `tech_sequence_items` | sync of users, contractors, contracts, structure, catalogue, facts, technological sequence; import of a dump | Raport |
| Authentication (`middlewares/raport_auth`) | the cache of Keycloak's keys, the cache of permissions in Redis or in the process | check a token, ask Raport for permissions | Raport, Keycloak, Redis |
| Dashboard and lists (`services/dashboard/service.py`, the list endpoints) | none | counts, sections, pages, filter options | reconciliation |
| Raport client, reference-data services, admin screens, helpers, migrations | - | HTTP reads; single-row reads and writes | - |

### What is hard about it

* **Transactions.**  `get_session` gives each request one session and never
  commits; whether a write survives depends on which manager method ran last.
  `bulk_delete` leaves its DELETE pending, and any later commit of the same
  session publishes it - sometimes on purpose (the swap of a day), sometimes not
  (the next housing of the nightly job), sometimes never (the group delete).
* **Interleaving.**  A generation searches, deletes, reads Raport over HTTP and
  inserts; other requests run between any two of these.  Nothing serialises the
  requests of a day.
* **Locks.**  Uncommitted deletes hold row locks; foreign key checks wait for
  other sessions' deletes; PostgreSQL breaks cycles by failing one statement.
* **Failure.**  A request may be cut off between a change and its journal entry;
  a failed statement poisons the nightly job's shared session; a Raport read that
  fails is swallowed and looks like an empty answer.
* **Staleness.**  Rows are read, then used after HTTP calls; keys and permissions
  are cached; a screen is made of several statements, a table of several requests.
* **Protocols.**  Draft, confirmed, transferred; open, acknowledged, escalated;
  challenge checkpoints: nothing in the code checks where a row stands.

### What would make each component correct

* Plan-naryad: a day is replaced as a whole and only when asked; deletions and
  their journal agree; a transferred position stays so; results keep their
  positions; every request ends.
* Choice of positions: only works whose predecessors are finished, in floor order,
  within the contractor's limit, and never by guessing a contractor.
* Nightly job: one housing's failure costs the others nothing.
* Reconciliation: a day shows the results of one run with the summary that counts
  them, wherever a run was cut off; the sums add up.
* Alerts: raised as a whole, escalated level by level when due, silent once acknowledged.
* Workforce: a missed control point has its violation and is judged once; a
  violation goes through the roles in order, each when due; resolutions stay.
* Synchronisation: a full sync repairs whatever earlier ones left half done; a fact
  goes to the one contractor of its cell or to none; volumes entered by hand survive.
* Authentication: valid tokens pass, lost rights take effect in time, an outage is
  no refusal.
* Dashboard and lists: figures agree with the summaries, pages cover the rows.

## Modules

### PlanDay - the table of one day under concurrent requests

One day's `plan_items` and the requests that change it.  `PlanId` are primary
keys, each used at most once: a deleted row keeps the mark `deleted` so that the
properties can speak of it.  A `Cell` stands for (section, floor, work,
contractor), a `Scope` for the cells of a housing or a section.

| Variable | In the code |
| --- | --- |
| `plan` | committed rows of `plan_items`: cell, source, status |
| `refs` | positions that `reconciliation_results.plan_item_id` points at |
| `log` | rows of the action journal |
| `pc`, `req`, `seen`, `loaded`, `toLog` | a request's place in its handler, its arguments, the rows its last search returned, the status `update_by_id` loaded, the journal entries left to write |
| `held`, `dropped` | the positions it has written without a commit so far, the positions whose results it has deleted |
| `job` | `run_nightly_plan`: housings left, those reported as failed, those of which a statement of their own has failed |

A step of a session is one statement, or a statement with the commit that follows
it.  The actions are named after the operations:

* `GenerateAsk` (the view's 409 gate), `GenerateJournal`, `GenerateSearch`,
  `GenerateErase`, then `GenerateInsert`, `GenerateNothing` or `GenerateFails` are
  `generate_daily_plan`.  Which cells are planned is left open: any set of cells
  of the scope.
* `NightlyStart`, `NightlySync`, the generation actions, `NightlySkip` and
  `NightlyDone` are `run_nightly_plan`.
* `AddCheck`/`AddCreate`, `ConfirmLoad`/`ConfirmUpdate`, `DeleteLoad`/`DeleteCommit`,
  `ConfirmItems...`, `DeleteItems...`, `Transfer...` are the operations on
  positions, each followed by `JournalItem` where the code writes the journal;
  `UpdateFails` and `DeleteRefused` are their error ends.
* `ReconcileRead`, `ReconcileErase`, `ReconcileWrite`, `ReconcileFails` are a
  reconciliation as far as `plan_items` can tell.
* `LockRow` gives a DELETE of positions, or an UPDATE of several, the lock of one more of its
  rows; the statement goes on when it has all that are still there (`HasRows`).
* `Close`, `Crash`, `Abort` are the end of a request; all three roll back what is
  not committed.

Database semantics: READ COMMITTED.  A session sees what is committed; its own
pending deletes matter to it only where the code searches again, which it never
does before the next commit.  A statement on a row that another session has written and not
committed waits (`Locked`).  A bulk UPDATE (`confirm_items`, `transfer_day`) and the DELETEs lock
their rows one by one; the order is the plan's or the caller's, so any order is possible.  Waiting sessions
that form a cycle (`Deadlocked`, over any number of sessions) lose one of them: its
statement fails.  An UPDATE by primary key of one row that matches none raises StaleDataError
(`UpdateFails`), whether it comes from `confirm_item` or from a bulk UPDATE with a list of one;
with a list of several SQLAlchemy has no row counts from asyncpg to compare (the dialect does not claim
`supports_sane_multi_rowcount`), and missing rows are passed over.  An ORM DELETE of
a missing row only warns.  A DELETE of a position that a result points at fails.

Abstractions: reconciliations of one
day do not overlap (`ReconcilerAssumption`); journal entries carry no actor or
time; percentages and Raport ids of a position are left out.

Nothing in the code keeps two generations of one cell apart: both may search the day before either
inserts, and then both insert.  The history variable `met` has the cells (of those in `Watched`)
that two generations under way at the same time have been about; `Meetings` adds to it when a generation
begins.  With it `OneAutoPerCell` can say what does hold for any number of generators: a cell gets a
second generated position only where two generations have met.  No action reads `met`, and a run that does not
need it watches no cell.

### PlanBoard - what the day promises

The abstract specification: a board of positions changed by five whole
operations (add, confirm or hand over, remove, regenerate a scope).  It knows of no
session, commit or lock.  `PlanDay` implements it with `board <- plan`
(`BoardSpec`).

### MCPlanDay and its runs

Two cells, two concurrent sessions; each run gives each session the kinds of
request it serves, so that all pairs that can disturb each other meet.  With two
cells a scope can hold both a planned cell and one that is left alone (`SectionScope`:
one section, or the whole housing); two keys are enough for a position to be
replaced behind the back of a request that has loaded it.  Two sessions are enough
for every race between two requests; the proofs cover any number.  `PlanId` is
symmetric, except where liveness is checked.

| Run | Sessions | Checks | Shows |
| --- | --- | --- | --- |
| day_board | generate, reconcile / generate, add, confirm, delete, group confirm, group delete, transfer; crashes | OneAutoPerCell, ReferencedRowsStay, BoardSpec, RemovalIsAskedFor, SwapIsAtomic | requests are whole operations of the board; a cell is planned twice only where generations met; results keep their positions; nothing disappears unasked; a day is replaced in one commit |
| day_ends | nightly / generate, reconcile, transfer; two housings; fair | IInv, LockOrder, EveryRequestEnds | the inductive invariant; two requests deadlock only over two rows both want, or with a reconciliation; every request ends |
| day_bulk_delete | generate, reconcile / the operations on positions; no crashes, three keys | JournaledDeletesHappen: violated | the group delete is rolled back |

day_board is bounded by the constraint `ByHand`: once a manual position is there, only
generations and deletions go on, the requests that can tell it from another one.  It is bounded by `Met`
too: generations meet over a day without results on which nothing but generations has been journalled, and
from there only generations go on, and a single deletion until it is journalled; what the other requests
do to a day that has been doubled is in the proofs.  In day_ends each housing has one
cell, but a cell may have two positions after two generations, and the hand-over is asked for the whole
day: its UPDATE and the DELETEs of the nightly session and of the generation lock rows in every order, and
do deadlock.

Fairness (`FairSpec`): strong fairness of each session's steps while it is busy.
A handler that is not waiting goes on; PostgreSQL queues the waiters of a row, so
that one who waits gets its turn; a deadlock is broken by failing a statement,
which is a step of its session.  No fairness is assumed of arriving requests or crashes.

### Generation - how the positions of a day are chosen

What `GenerateInsert` of PlanDay leaves open: which cells a generation plans.  A
housing is a set of `Spot`s (section, floor, work).  The technological graphs
(`HousingNodes`, and `SectionNodes` for a section with one of its own), the
contractors on each spot of the chessboard (`Crew`), those assigned to it
(`Assigned`) and the table of limits are constants, so that a run of the checker
fixes one housing and the theorems hold for all.

| Variable | In the code |
| --- | --- |
| `started`, `finished` | Raport's chessboard, one contractor's share of a spot at a time |
| `pc`, `asked`, `toRead` | where the generation is, its sections, the works `get_housing_slice` still has to fetch |
| `cells`, `begun`, `done` | `HousingSlice`: the shares read, with a percent above zero, finished |
| `known` | `HousingAssignments` |
| `walked`, `taken`, `rows` | the candidates of `frontier` dealt with, `floors_taken`, the items to insert |
| `day` | the generated positions of `plan_items` |

* `Start`, `Complete`, `CloseCell` are Raport: work begins, a contractor's share
  reaches 100 percent, a cell is closed by `lifecycle_status.is_done`.  Raport's progress only grows.
* `Ask` is a request for the housing or one section; `ReadWork` and `ReadFails` are
  `_fetch_work_cells`, one work at a time while Raport goes on; `ReadAssignments` is
  `get_housing_assignments`, where a failed page leaves some of the pages.  A work
  without a Raport id behaves like a failed read.
* `PlanSpot` and `PassSpot` are one turn of the loop over the ready works
  (`_ready_works` is `IsReady`, `_order_floors` part of `Before`, `single_contractor_for`
  is `Lone`, `_limit_for` is `LimitFor`).  Works of equal order are taken in any order.
* `Finish` replaces the day, unless nothing was chosen; the DELETE, the INSERT and
  their commit are in PlanDay.

Abstractions: percentages are none, some or all; all sections have the same
floors; one run at a time (PlanDay has the rivals); an unsynchronised contractor is
one outside `Synced`.

`MCGeneration` has its small housings: one or two sections, two floors, two works, two
contractors.  One edge of the graph shows each kind of predecessor; two floors
show the direction of a work and a limit that cuts it off; two sections show a
limit that spans them and a section with a graph of its own; two contractors show
a shared cell.

| Run | Housing | Checks | Shows |
| --- | --- | --- | --- |
| gen_chain | two sections, the second with its own graph and downwards; finish-to-start; a cell of two contractors, cells not on the chessboard, gaps in the assignments, closings, failing reads and pages | GInv, PredecessorsHold, FirstFloorsFirst, LimitKept | the inductive invariant; no position is ahead of its predecessors in Raport, however old or incomplete what was read; the first floors in the direction of the work are planned, up to the limit and no further |
| gen_built | start-to-start, downwards; no closings and no failing reads; fair | HousingGetsBuilt | limits and predecessors starve no work |

gen_chain is bounded by the constraint `InTurn`: on the shared cell the first contractor is
ahead, pages of assignments fail from the end, and a generation over a day that
has positions reads all its assignments.

Fairness (`FairSpec`): a generation goes on, and the whole housing is asked for
again and again, which is what the scheduler of `api/v1/task/views.py` is for.  That positions
are carried out is no fairness of the code and is a premise of `HousingGetsBuilt`
itself: no position stays in the plan for ever undone.  It is checked without
closings: a predecessor closed by its status at zero percent never counts as
started (`_cell_started` looks at the percent), and its start-to-start successor is never ready.

### Reconciliation - the results of a day under runs that meet

`run_reconciliation` in full: for each housing of its scope it reads positions and
facts, the chessboard work by work over HTTP, and then rebuilds day after day.

| Variable | In the code |
| --- | --- |
| `plans`, `gone`, `facts`, `percent` | `plan_items` (and keys used up), `work_facts`, Raport's chessboard |
| `results`, `sums` | `reconciliation_results`, `daily_summaries`, as committed |
| `pc`, `scope`, `left`, `at` | a run's place, the days it was asked for, the housings it has not come to, the day it is at |
| `readP`, `readF`, `toRead`, `slice` | what it has read of the housing |
| `found`, `doomed`, `made` | the rows its last search found, its uncommitted deletes, `results_data` |
| `company`, `clashed` | history: who has met whom on which days |

* `AddPosition`, `RemovePosition`, `StoreFact`, `MoveCell` are what other requests, the
  synchronisation and Raport do meanwhile.
* `Ask` and `ReadHousing` (a housing without plans and facts is skipped), `ReadWork` (which may
  fail), `FindResults`/`DropResults`, `FindSums`/`DropSums`, `WriteResults` or
  `InsertFails` (a position it names has gone), `WriteSummary`, `Finish` are the run;
  `Crash` may come anywhere.
* `Classify` is `classify_status`, `PercentNow` is `_current_percent`, `Picks` the
  dictionaries of `_match`, `CountOf` is `_build_summary_data`.

Abstractions: volumes, reasons and texts are left out; no code writes patterns.  The searches
for positions and for facts are one step, since they read unrelated tables.

`ResultBoard` is the abstract specification: for each day of a housing the rows of
whole runs, changed by one operation, `Rebuild`.  `Reconciliation` implements it
with `board <- [u |-> Of(results, u)]`.

rec_meet has one housing, two days, one spot of one contractor, a position that is his, a
fact that is nobody's, and two runs: enough for a run that repairs one day while it has
met the other on the other one, for the DELETEs of the two to wait for each other, and for a day
that is planned, done by somebody else, or both.  It checks `DaysAreWhole`, `CountsAddUp`,
`BoardSpec` and, with crashes and under weak fairness of each run's steps (the server goes
on with a request it has accepted), `EveryRunEnds`.  Runs happen once each, so the system
stops: deadlock is not checked.

### AlertDay - alerts of a housing and a day

| Variable | In the code |
| --- | --- |
| `raised`, `created`, `step`, `role`, `acked` | `alerts`: the rows, `created_at`, `escalation_level`, `recipient_role`, `acknowledged` |
| `planned`, `reported`, `critical`, `sequenced` | what `generate_daily_alerts` reads |
| `pc`, `missing`, `drafts`, `drafted` | a call of `generate_daily_alerts`: where it is, what it has read, the alerts it will insert |
| `climbing` | the levels an escalation check is going to write |
| `now` | hours |

* `ReadPlanned`, `ReadFacts`, `ReadResults`, `ReadSequence`, `Insert` are the statements of
  `generate_daily_alerts`; all its alerts come with the one commit of `Insert`.
* `LoadUnacked` (`run_escalation_check`) or `LoadOne` (`check_escalation`), then `WriteSteps`:
  two columns of each row that climbs, whatever happened to the row in between.
* `Acknowledge`; `CrashCall` and `CrashCheck`.

alert_day has one call, so that its alerts are told from each other by type and
contractor; two checks that overlap; the types A05 and A07, A06 and A22 being raised in the
same way; rules of 1 and 2 hours on a clock of 2.  It checks `EscalationIsDue`,
`AcksAreKept`, `CallsAreWhole`, and `DueAlertsClimb` under `FairAlertSpec`: the clock goes on, a
check is called every now and then (the endpoint is there for a scheduler), and it is
not cut off every time (strong fairness of `WriteSteps`).  When the clock stands and all is
acknowledged nothing is left to do: deadlock is not checked.

### Workforce - control points and violations

| Variable | In the code |
| --- | --- |
| `actual` | the head count of a control point: none, short, enough |
| `status`, `recorded` | `status` and `violation_recorded` of a control point |
| `violations` | the table, with the week, `escalated`, `escalated_to`, `resolved` |
| `req` | the requests: the rows each has loaded, as loaded and as changed |
| `today` | weeks |

* `CheckLoad`, `Judge` (the UPDATE of one point, with its row lock), `CheckCommit`
  are `check_challenge_checkpoints`: verdicts and violations in one commit.
* `EscalateLoad`, `Commit` are `auto_escalate_violations`, `PatchLoad`, `Commit` are
  `update_violation`; the unit of work writes the columns a request has changed (`Written`).
* `Post` is `create_violation`, `Enter` a head count; `Fail` is a request that breaks off, or
  that PostgreSQL chooses to break a deadlock between two checks.

workforce has one challenge with two control points a week apart, two requests and four weeks,
one more than a violation needs to reach the last role.  The constraint `Few`
lets checks overlap with checks and calls about violations with each other, and keeps users away from
more than one violation.  It checks
`MissedIsRecorded`, `EscalationIsDue`, `JudgedOnce`, `StepByStep`, `ResolutionsStand`.  The
last three say what a request that was overtaken by another one may do, since
nothing in the code keeps two from the same rows: `late` marks those.

### Mirror - the tables that copy Raport

Things of Raport (users, contractors, contracts, the structure from project to floor,
the catalogue, facts) and their rows, known by `raport_id`; of the columns the links to parents.

| Variable | In the code |
| --- | --- |
| `raport` | what Raport holds, one of `Versions` |
| `rows`, `links`, `coded` | the rows, their foreign keys, the catalogue rows whose code is not the `raport_id` |
| `jobs`, `path`, `at`, `held` | a call: its jobs, and in `sync_objects` the levels it is in, the row it has just stored, the local ids it knows |
| `batch`, `kinds` | what it has read, and the tables still to fill |
| `clean`, `fresh` | history: whether older data have been stored since it began |

* `Ask`, `AskImport` start a call; `ListProjects`, `StoreRow`, `GoBelow`, `StoreFloors`, `GoUp` are
  `sync_objects`; `Read`, `StoreTable`, `ImportTable`, `Filled` the other tables and the dump; `ReadFacts`, `StoreFacts`
  are `sync_work_facts`, whose pages may end early.  `Stop` is a failure or the end of the server.
* `Upsert` is `bulk_upsert`: it overwrites the links it is given, or empties them.
* `RaportChanges`, `Edit` (a PUT gives a row of the catalogue another code or another parent), `Remove` (`delete_by_id` with the ORM's cascades).

Differences from the code: facts without a readable date are dropped (`services/sync/service.py:565`) and a call reads the window
it was given, so the facts of the model are those with a date, and a window is one of the subsets `ReadFacts` may
read; the lookup of floors and works, the reading of assignments and the upsert of facts (`:518-565`) are one step, since a
row that goes in between makes the statement fail (`Stop`), one that comes is as if it came later, and a change in Raport
disturbs the reading in any case.  A queue that vanished between its upsert and its search would not be passed over
(`:187-190` goes on without its id), but no route deletes queues (`RemovableAssumption`).

mirror has fourteen things, one or two of each kind that has a rule of its own, and two versions of Raport: a housing
moves to a new object, a contract gets its contractor, a fact's cell gets a second one.  A
full sync, a reading of facts and an import of some tables of the older version run
into each other, a work may be given a code of its own or another type, and the housing may be removed.
The constraint `EditedAlone` keeps imports away from a work that has got another type.  It checks
`SyncRepairs` and `FactsArrive`.

### TechSequence - the technological sequence of a housing

`rows` are `tech_sequence_items` of the housing and of its sections: work, predecessors in two lists by
the type of the link (`Link`: finish-to-start, start-to-start), source, whether a volume has been entered.  `pc`, `todo`, `at`, `got`, `fresh`, `stale` are the syncs under way,
`raport` the calendar plans, `known` the works that have rows, and `clean`, `match`, `entered` history.
`Begin`, `Load` (`_load_plan_structure` with the template as a fallback for the housing), `Store`
(`bulk_upsert` of `_build_sequence_rows`), `Find` and `Drop` (the stale rows, by id) are `sync_tech_sequence`,
`Create` and `Delete` the users, `Learn` a sync of the catalogue.

sequence has one section beside the housing, two plans (a work that is two tasks,
each with a predecessor by another type of link; one of the works alone) and two syncs; they overlap when all works
are known and the section has no plan (`Overlaps`).  It checks `SequenceMatches` and `VolumesSurvive`.  Volumes
entered while a sync under way has a different plan of that scope are not promised anything (`Behind`).

### RaportAuth - how a request is let in

| Variable | In the code |
| --- | --- |
| `published`, `coming`, `groups`, `mode` | Keycloak's keys, the user's groups in Raport, `AUTH_AUTHZ_MODE` |
| `keys`, `aged`, `lock` | `JWKSCache` |
| `redis`, `local`, `broken` | the user's entry in Redis, in the process, `_redis_broken` |
| `req` | the requests: where each is, its token's key and remaining life, what it got, the answer's code |

* `Arrive`, `Acquire`, `KeycloakAnswers`, `KeysArrive`, `KeycloakFails` are `verify_token` with the forced
  refresh under the lock; `RedisReads`, `EntryArrives`, `RaportAnswers`, `AnswerArrives`, `RedisStores`,
  `StoredArrives` and their failures the permissions.
* `Publish`, `Withdraw`, `GroupsChange`, `KeysAge`, `Forget` (an eviction), `Restart`, `Tick` are the world.

What Keycloak, Raport or Redis does and the arrival of its reply are two steps, so that keys, groups and entries
may change in between: every await has two legs, and each ends within `Patience` ticks.  The
signature is the choice of a key (`None` forges); a token's life is what is left of it, down to
the leeway of jwcrypto.  Between Raport's answer and the last admission it causes lie the leg of its reply, the leg
to Redis, the entry's time and the leg of Redis's reply to a later request: `Staleness` is `TTL + 3 * Patience`.  With one
tick less TLC finds both properties violated.  A SET that failed is carried out by then or never.

auth has two keys, two requests of one user, cache times 2 and 1, leeway 1, tokens that live up to 3, patience 1: each
time is distinguishable from its neighbours, and a token can outlive the cache's time by the leg of Raport's reply.  With
the constraint `Focus` keys rotate while nothing is cached about permissions, and what is cached changes while the keys
rest: the two share no state.  Two requests meet at the permissions in authz mode, one after the other in both.  It checks the meaning of the answers: `ValidTokensPass`, `LossesTakeEffect`,
`OutagesAreNotRefusals`, and `TokenBoundsAnswer` for what is stored.

### Screens - dashboard and tables

`results` and `sums` are the two tables as `Reconciliation` leaves them (`Rebuild`, `Summarise` are a
run's two commits), `view` the request of a user and what it has shown.  `AskOverview`, `AskSections` with
`CountTotal`, `CountPlanned`, `CountDone`, `CountSilent` are the dashboard, one statement each; `AskResults`,
`Offer`, `Choose`, `AskSummaries`, `ReadPage`, `CountListed` are the tables with their filter options and pages.

screens has two sections with a result each, two days, three rebuilds, pages of two rows, so that a day
fits on a page or is split; a request that has been disturbed is not followed further
(`Followed`).  It checks `OverviewIsTheSummaries`, `SectionsAddUp`, `WalkCoversTheDays`, `FiltersFind`.

### How the modules compose

`PlanDay` knows of a reconciliation that its results point at positions; `Reconciliation`
has those results, and positions that come and go as `PlanDay` lets them.
`AlertDay` and `Screens` read results that are replaced whole, which `ResultBoard` promises.
`Generation` chooses what `PlanDay` inserts; `TechSequence` learns works from
`Mirror`, whose facts `Reconciliation` and `AlertDay` read.

`TypeOK` of each module (`AlertTypeOK` of AlertDay) is its type invariant.  It is part of `IInv` and `GInv`, which runs check, and of the
inductive invariants proved for PlanDay, Generation, AlertDay, Workforce, Reconciliation, RaportAuth, TechSequence
and Screens; in Mirror it is no property of a run, though its instance satisfies it.

## Proofs

`PlanDayProofs` proves, for any sets of keys, cells, sessions and duties allowed by the
assumptions of `PlanDay`:

| Theorem | Statement |
| --- | --- |
| TypeCorrect | `Spec => []TypeOK` |
| Invariance | `Spec => []IInv` |
| ReferenceSafety | `Spec => []ReferencedRowsStay` |
| LockSafety | `Spec => []LockOrder` |
| Refinement | `Spec => BoardSpec` |
| RemovalSafety, SwapSafety | `Spec => RemovalIsAskedFor`, `Spec => SwapIsAtomic` |
| OneGeneratedPosition | `Spec => []OneAutoPerCell` |

None of the safety properties is inductive.  `ReferencedRowsStay` fails after a step from a
state in which a session holds a pending delete of a row it could not have locked;
`IInv` adds what a session's pending writes can be (`PendingWrites`: live rows, of no
other session, of its own list while it collects them, only up to the next commit, only in a
reconciliation's hands when they are results) and what a request carries between
its steps (`InTransit`: rows that were inserted, inside the scope it was given,
by a request that forces).  The refinement and the action properties follow from
`IInv` step by step.  `LockOrder` is about any two requests with row-by-row locks: what a session waits for is
in its list, what it holds while it waits is in its list as well, so two that wait for each
other share two rows, unless one of them is a reconciliation, which waits with the results it has deleted.
`OneAutoPerCell` needs in addition that what a generation
is about to insert into has been cleared of all generated positions but those of a generation it has met
(`DayIsCleared`), carried through its search, its DELETE and its INSERT; it assumes nothing about how
many sessions generate.

`GenerationProofs` proves, for any housing, graphs, crews, assignments and limits
allowed by the assumptions of `Generation`, with and without failing reads and closings:

| Theorem | Statement |
| --- | --- |
| WalkInvariance | `Spec => []GInv` |
| LimitSafety | `Spec => []LimitKept` |
| FirstFloors | `Spec => []FirstFloorsFirst` |
| PredecessorSafety | if `Synced = Contractor`, `Spec => []PredecessorsHold` |

`LimitKept` speaks of the positions chosen, the code compares a counter: `GInv` ties the
two together (`WalkIsSound`), and says that the walk has dealt with the first
candidates in its order, from which `FirstFloorsFirst` follows.  `PredecessorsHold`
compares positions with Raport as it is, the code has an older slice: `SliceIsTrue` says
that what was read as begun or finished is so in Raport, which only moves on, and that a spot was read
whole or not at all - which needs every contractor to be synchronised, and
without it a second contractor on a cell who has no local row is not waited for.

`ReadersProofs` is about those who read results.  It proves of `Screens`, for any finite sets of days, sections and
places, any size of a page and any number of rebuilds:

| Theorem | Statement |
| --- | --- |
| ScreensInvariance | `Spec => []Inv` |
| OverviewSafety, SectionSafety | `Spec => []OverviewIsTheSummaries`, `Spec => []SectionsAddUp` |
| WalkSafety, FilterSafety | `Spec => []WalkCoversTheDays`, `Spec => []FiltersFind` |

A summary counts its day's results as long as it is there (`SumsAreCounts`); a request that nothing has disturbed has
counted right whatever is behind it (`FiguresAreRight`, `SharesAreRight`).  What is left is arithmetic: numbers
of rows, counted key by key, add up to the number of all (`CountByKey`, for days and for sections), shown by
the least set of keys for which they would not.  A table may be ordered anew for every page.
`Ranked` is what the orders have in common: the row at a place has fewer rows of later days than its place, and at least that many
of its own day and later; pages of different orders put together keep it (`NextRows`), and as many ranked rows as the table has are its days
in their order, each as often as the table has it (`RankedCovers`).  `OffersAreRight` is what `FiltersFind` needs.

The same module extends `AlertDay`, whose specification is therefore called `AlertSpec`, and proves for any calls, checks,
contractors, rules and hours:

| Theorem | Statement |
| --- | --- |
| AlertInvariance | `AlertSpec => []AlertInv` |
| AlertSafety | `AlertSpec => []EscalationIsDue` |
| AckSafety, CallSafety | `AlertSpec => AcksAreKept`, `AlertSpec => CallsAreWhole` |

`EscalationIsDue` is not inductive: a check writes levels it computed earlier.
`LevelsAreDue` says that these were due then, and hours that are over stay over;
`AlertsAreWhole` says that a call that has not ended has raised nothing, and that an alert not raised yet is at level 1.
That a level is the least of the steps due needs the well-ordering of the naturals (`LeastNumber`).

`WorkforceProofs` proves, for any requests, challenges, control points and weeks:

| Theorem | Statement |
| --- | --- |
| Invariance | `Spec => []Inv` |
| MissedSafety, EscalationSafety | `Spec => []MissedIsRecorded`, `Spec => []EscalationIsDue` |
| JudgedOnceSafety, StepSafety, ResolutionSafety | `Spec => JudgedOnce`, `Spec => StepByStep`, `Spec => ResolutionsStand` |

What makes these hard is that requests write rows they have loaded earlier.  `Inv` says what they
carry: a check's points have no violation of this check yet and are pending unless it was overtaken
(`ChecksAreSound`); images of violations are of rows that are still there, equal to them unless overtaken, and
never ahead of them in the columns that only grow (`ImagesAreSound`); what an escalation is going
to write was due when it was loaded, hence is (`ChangesAreDue`).  `VerdictsAreKept` ties violations to verdicts.

`RaportAuthProofs` proves, for any keys, users' requests, modes and times:

| Theorem | Statement |
| --- | --- |
| Invariance | `Spec => []Inv` |
| TokenSafety, LossSafety, RefusalSafety | `Spec => ValidTokensPass`, `Spec => LossesTakeEffect`, `Spec => OutagesAreNotRefusals` |
| BoundSafety | `Spec => TokenBoundsAnswer` |

The properties are about the step that answers; what the step may rely on is `Inv`.  `KeySound` says that an answer
of Keycloak on its way has every published key of its token, however the keys rotate meanwhile; `EntrySound` and
`AnswerSound` bound the age of what is wrong by the cache's time and the legs of awaits behind it (two for an entry in
Redis, three for one in the process or read from Redis), `LifeSound` what a token has lost of its life by the legs
since it was read.

`TechSequenceProofs` proves, for any sections, works, plans and callers:

| Theorem | Statement |
| --- | --- |
| Typed | `Spec => []TypeOK` |
| VolumeSafety | `Spec => []VolumesSurvive` |
| RowSafety | `Spec => []SequenceMatches` |

`VolumeInv` says why no sync drops a row with a volume: its work is in the plan of its scope as long as it
passes for Raport's (`RaportRowsArePlanned`), and no sync under way takes it for stale (`NobodyBehind`).
`RowInv` follows a sync that nothing has disturbed: the scopes behind it match their plans (`Done`), and at
its own scope it holds exactly the rows that are still wrong (`Undisturbed`).

`ReconciliationProofs` proves, for any runs, housings, days, and finite sets of positions and facts:

| Theorem | Statement |
| --- | --- |
| Invariance | `Spec => []Base` |
| CountSafety, DaySafety | `Spec => []CountsAddUp`, `Spec => []DaysAreWhole` |
| Refinement | `Spec => BoardSpec` |

`Base` has the types, where each run is and what it holds there.  `DaysInv` says that a run which has met nobody
at its day holds exactly the day's rows: what it deletes is all of them, and what it has made is all that
is left (`Rebuilding`).  For the refinement that is not enough, since it is about runs that do meet: `BoardInv` says
that a run writes a day only once (`Written`, from the order in which it goes through its days), and that a search finds
all rows of another run or none (`Whole`); so each commit is a `Rebuild` or a stutter.

`MirrorProofs` proves, for any entities, structures of Raport, dumps and callers:

| Theorem | Statement |
| --- | --- |
| SyncInvariance, RepairSafety | `Spec => []SyncInv`, `Spec => []SyncRepairs` |
| FactInvariance, FactSafety | `Spec => []FactInv`, `Spec => []FactsArrive` |

`SyncRepairs` speaks of the end of a full sync, `SyncInv` of its whole way.  The jobs behind it have put their kinds right
(`Onward`), the present one the tables behind it (`Filling`).  In the structure the levels it is in are the
parents of what comes next (`Spine`: an object finds its queue and its project there because Raport's object is in the project of
its queue), and what is below a row it has seen is seen or still ahead (`Seen`); when nothing is ahead, everything
has been seen.  Another call either disturbs what it stores into, and then nothing is claimed, or is itself a
full sync of the same state of Raport and keeps what is right.  `FactInv` adds that facts under way are of
that state (`Current`) and that an undisturbed reading has them all (`Reading`).

What the proofs assume of the constants is what the modules state: that Raport's data are a structure (`VersionAssumption`: parents
exist, are of the right kind and one of each kind at most), that tables, places and the days followed are finite, that a cache's times are ordered.  Looking for the
proofs changed the modules in five places: `TtlFor` of RaportAuth had two cases that
overlap, of which only the first is meant; a `Request` of RaportAuth may have less life left than its type said;
`None` had to be kept apart from the values it stands beside; the coherence of objects with their queues and of crews with facts had to be said of `Versions`; and a
page had a number, 0, outside a walk, where a request always has one from 1 on.

Model-checked only:

* Liveness (`EveryRequestEnds`, `HousingGetsBuilt`, `EveryRunEnds`, `DueAlertsClimb`): TLAPS does not do fairness.
* `TypeOK` of Mirror: `Read` picks the tables of a dump with `SelectSeq`, which is recursive.  `Base` in `MirrorProofs` has the other types.
* `JournaledDeletesHappen`, which the code breaks: its run shows the counterexample, there is nothing to prove.

### Seen while modelling, without a run of their own

Plan-naryad and its positions:

* `confirm_item` and `confirm_items` look at no status: a transferred position goes
  back to confirmed (PlanBoard allows it too), although the docstring at
  `services/plan/service.py:350` knows no way back.
* Two generations can both find the day empty, or both clear it, and both fill it: the cells of
  `met`, which OneAutoPerCell excuses.
* A forced generation that plans nothing keeps the old day (`services/plan/service.py:686`), although the
  docstring at `:564` says that it is replaced.
* A nightly generation that plans nothing leaves its DELETE pending, and the next
  housing's journal entry commits it: the old day is gone.
* A failed statement of one housing poisons the session for those after it
  (`services/task/service.py:98`; its docstring at `:8` promises isolation).
* A crash between the commit of a deletion and its journal entry loses the entry (`services/plan/service.py:370`), and a
  generation journals its scope before it knows whether it will remove anything (`:570`).  So there is no promise about
  which removals the journal shows, and no property; the opposite direction is `JournaledDeletesHappen`.
* Bulk UPDATEs lock their rows one by one in the order the caller gave (`models/managers/common.py:483`): two
  of them may deadlock, and PostgreSQL fails one; in day_ends a hand-over and a generation do.
* One INSERT takes all positions of a day, with eleven parameters a row
  (`services/plan/service.py:674`): beyond 2978 rows the driver refuses it.
* The limits are counted per run (`services/plan/service.py:652`): generated section by section, a contractor gets up
  to the limit in each.
* A predecessor closed by its status at zero percent has finished and has not started
  (`:499`): a start-to-start successor is never planned.
* A failed read of a work's cells makes finished cells ready again
  (`services/report_cells/service.py:273`); a contractor without a local row is dropped from his cell, and what he has
  not finished is not waited for (`:192`); a failed page of assignments makes a spot of two
  contractors look like one of one (`services/contractor_works/service.py:158`).

Reconciliation, screens and alerts:

* A housing without plans and facts in the range is skipped, so results of positions
  and facts that have gone stay (`services/reconciliation/service.py:328`).
* Of two positions or facts with one key `_match` keeps the last it reads (`:463`).
* A work whose cells could not be read counts as not done (`:332`).
* The rates of the dashboard are fractions of counts made by different statements: a run that commits between them can give
  more than one (`services/dashboard/service.py:26`).
* Lists are ordered by "-date" alone: rows of a day may repeat or go missing from page to page.
* `list_summaries` passes filters `DailySummary` has no columns for, and the operator `notin` selects
  what it should leave out.
* Daily alerts are raised anew by every call, although `spec-alerts.md:241` (at the root of the repository) wants no repetition.

Synchronisation and authentication:

* A failed page of facts ends the reading silently (`services/sync/service.py:610`); where Raport names the contractor, the first
  assignee gets the fact (`:633`).
* A work whose code was changed by hand makes every later sync of the catalogue fail (`:402`).
* A section whose plan is deleted keeps the rows of the plan (`:757`).
* With `users-me` a token in its leeway is refused with 403 instead of 401 (`middlewares/raport_auth/authz.py:101`).

Workforce:

* `scan_violations` reads `work_type` of a budget item, which has none
  (`services/workforce/service.py:143`): it fails once a project has a budget and finds nothing before.
  Were it to get through, a second scan would double its violations (`:693`).
* A challenge with items cannot be created: its id is used before the flush
  (`api/v1/workforce/views.py:350`).
* `create_violation` commits before its answer is built (`:419`): if that fails, a caller who
  tries again records the violation twice.

## Not modelled, and why

* The statistics and the rating of head counts: read-only arithmetic over one table.
* `scan_violations` and the creation of challenges: they fail (see above), and a
  model would be one of an error.
* The Raport client: HTTP, pages and token refresh.  Its outcomes (an answer, a late one,
  a failure, fewer pages) are choices in the modules that read Raport.
* Reference-data services, admin screens: reads and single-row writes without rules; what they do to
  the mirrored tables is in Mirror and TechSequence.
* Schema, migrations, formatting and error helpers.

## Plan

Done: all modules with their runs, and the proofs of every safety property that holds.

Left: refinements worth stating, such as `Mirror` without its walks as one whole upsert per job, for callers that do not meet.
