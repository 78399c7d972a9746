------------------------------ MODULE PlanDay ------------------------------
(***************************************************************************)
(* The plan-naryad of one day: the table plan_items as the requests of     *)
(* services/plan/service.py, the nightly job of services/task/service.py   *)
(* and a reconciliation run change it together.                            *)
(*                                                                         *)
(* Every HTTP request owns one database session (get_session).  A step of  *)
(* a session is one statement, or one statement and the commit that        *)
(* follows it without an await on anything else.  The isolation level is   *)
(* PostgreSQL's default: a statement sees what is committed, a session     *)
(* sees its own uncommitted DELETEs, and a statement that touches a row    *)
(* another session has written and not yet committed waits for that        *)
(* session.  A DELETE of positions, or an UPDATE of several, takes the     *)
(* locks of its rows one by one, in an order nobody chooses, and keeps     *)
(* them until the commit; held has the rows it has so far.  Only the       *)
(* deletes of BaseManager.bulk_delete outlive their statement uncommitted: *)
(* of positions, in held too, and of the reconciliation results that point *)
(* at them, in dropped.                                                    *)
(*                                                                         *)
(* A cell stands for (section, floor, work, contractor); a scope is the    *)
(* set of cells of a housing or of a section.  What a generation reads     *)
(* from Raport is an arbitrary set of cells here: module Generation        *)
(* computes it.                                                            *)
(***************************************************************************)
EXTENDS Naturals, FiniteSets

CONSTANTS
  PlanId,     \* primary keys of plan_items, each used at most once
  Cell,       \* (section, floor, work, contractor)
  Scope,      \* what a generation can be about: housings and sections
  Housing,    \* the scopes the nightly job walks
  Session,    \* concurrent requests
  Duty,       \* Duty[s]: the kinds of request session s serves
  Crashes,    \* whether a request may die between two steps
  Watched,    \* the cells whose meetings of generations are noted in met
  NoRow       \* a key that was never inserted

Kind == {"generate", "add", "confirm", "confirm_items", "delete",
         "delete_items", "transfer", "nightly", "reconcile"}

ASSUME ScopeAssumption  == Scope \subseteq SUBSET Cell /\ Housing \subseteq Scope
ASSUME DutyAssumption   == Duty \in [Session -> SUBSET Kind]
ASSUME CrashAssumption  == Crashes \in BOOLEAN
ASSUME WatchAssumption  == Watched \subseteq Cell

\* Reconciliations of one day do not overlap here.
ASSUME ReconcilerAssumption ==
  \A s, t \in Session : "reconcile" \in Duty[s] \cap Duty[t] => s = t

Status == {"draft", "confirmed", "transferred", "deleted"}
Row    == [cell : Cell, source : {"auto", "manual"}, status : Status]

ASSUME NoRowAssumption == NoRow \notin Row

ItemAction == {"create", "confirm", "delete"}
Entry      == ({"generate"} \X SUBSET Cell) \cup (ItemAction \X PlanId)

VARIABLES
  plan,     \* plan_items as committed; a deleted row keeps a "deleted" mark
  refs,     \* plan_items that reconciliation_results rows point at
  log,      \* the action journal
  pc,       \* the statement each session executes next
  req,      \* the scope of its request, and whether it forces
  seen,     \* the rows its last search returned
  loaded,   \* the status confirm_item loaded
  held,     \* the rows it has written and not committed
  dropped,  \* the rows whose results it has deleted and not committed
  toLog,    \* the rows it still has to journal
  job,      \* the nightly job: is it running, the housings left, those it
            \* reports as failed and those a statement of whose own has failed
  met       \* history: the watched cells two generations were about at once

dbVars  == <<plan, refs, log>>
sesVars == <<pc, req, seen, loaded, held, dropped, toLog, job>>
vars    == <<plan, refs, log, pc, req, seen, loaded, held, dropped, toLog, job, met>>

Point == {"idle", "journal", "search", "erase_day", "build", "create",
          "confirm_one", "confirm_all", "delete_one", "erase_items",
          "handover", "reconcile", "results", "next_housing", "log_create",
          "log_confirm", "log_delete", "log_items", "closing"}

NoJob == [running |-> FALSE, todo |-> {}, failed |-> {}, broken |-> {}]
NoReq == [scope |-> {}, force |-> FALSE]

TypeOK ==
  /\ plan \in [PlanId -> Row \cup {NoRow}]
  /\ refs \subseteq PlanId
  /\ log \subseteq Entry
  /\ pc \in [Session -> Point]
  /\ req \in [Session -> [scope : SUBSET Cell, force : BOOLEAN]]
  /\ seen \in [Session -> SUBSET PlanId]
  /\ loaded \in [Session -> Status]
  /\ held \in [Session -> SUBSET PlanId]
  /\ dropped \in [Session -> SUBSET PlanId]
  /\ toLog \in [Session -> SUBSET PlanId]
  /\ job \in [Session -> [running : BOOLEAN, todo : SUBSET Housing,
                          failed : SUBSET (SUBSET Cell),
                          broken : SUBSET (SUBSET Cell)]]
  /\ met \in SUBSET Watched

Init ==
  /\ plan = [id \in PlanId |-> NoRow]
  /\ refs = {}
  /\ log = {}
  /\ pc = [s \in Session |-> "idle"]
  /\ req = [s \in Session |-> NoReq]
  /\ seen = [s \in Session |-> {}]
  /\ loaded = [s \in Session |-> "draft"]
  /\ held = [s \in Session |-> {}]
  /\ dropped = [s \in Session |-> {}]
  /\ toLog = [s \in Session |-> {}]
  /\ job = [s \in Session |-> NoJob]
  /\ met = {}

-----------------------------------------------------------------------------
(* The database as a session meets it.                                     *)

Fresh    == {id \in PlanId : plan[id] = NoRow}
Live     == {id \in PlanId : plan[id] # NoRow /\ plan[id].status # "deleted"}
LiveIn(S) == {id \in Live : plan[id].cell \in S}

\* Some other session has written one of these rows and not committed.
Locked(s, ids) == \E t \in Session \ {s} : held[t] \cap ids # {}

\* Rows whose results some other session is about to delete.
Contested(s) == UNION {dropped[t] : t \in Session \ {s}}

\* The statements that delete positions, those that update several positions,
\* and all that take the locks of their rows one by one.
DeletePoint == {"erase_day", "delete_one", "erase_items"}
UpdatePoint == {"confirm_all", "handover"}
WritePoint  == DeletePoint \cup UpdatePoint

\* The statement of session s has every row of its list that is still there.
HasRows(s) == seen[s] \cap Live \subseteq held[s]

\* The rows whose deletion session t has not committed: an UPDATE that leaves
\* the key alone is no obstacle to a foreign key check.
Deleting(t) == IF pc[t] \in UpdatePoint THEN {} ELSE held[t]

\* s can wait for t: for a row t has written, for a position its results point
\* at and t is deleting, or in the foreign key check that ends its own DELETE
\* for a result t is deleting.
WaitsFor(s, t) ==
  \/ pc[s] \in WritePoint \cup {"confirm_one"} /\ seen[s] \cap held[t] # {}
  \/ pc[s] = "results" /\ seen[s] \cap Deleting(t) # {}
  \/ pc[s] \in DeletePoint /\ HasRows(s) /\ held[s] \cap dropped[t] # {}

\* PostgreSQL breaks a cycle of waits: one of the statements fails.
Deadlocked(s) ==
  \E C \in SUBSET Session :
    /\ s \in C
    /\ \A t \in C : \E u, w \in C \ {t} : WaitsFor(t, u) /\ WaitsFor(w, t)

\* The DELETE of session s fails: a result points at one of the rows and
\* nobody is deleting it, or the statement is the victim of a deadlock.
DeleteFails(s) ==
  \/ HasRows(s) /\ (seen[s] \cap refs) \ Contested(s) # {}
  \/ Deadlocked(s)

\* The table with the status of some live rows set.
Marked(ids, st) ==
  [id \in PlanId |->
     IF id \in ids
     THEN [cell |-> plan[id].cell, source |-> plan[id].source, status |-> st]
     ELSE plan[id]]

\* What a commit of session s publishes: its pending deletes.
Published(s) == Marked(held[s] \cap Live, "deleted")

\* The end of the request: get_async_session closes the session, which
\* rolls back whatever was not committed.
Released(s) ==
  /\ pc' = [pc EXCEPT ![s] = "idle"]
  /\ req' = [req EXCEPT ![s] = NoReq]
  /\ seen' = [seen EXCEPT ![s] = {}]
  /\ loaded' = [loaded EXCEPT ![s] = "draft"]
  /\ held' = [held EXCEPT ![s] = {}]
  /\ dropped' = [dropped EXCEPT ![s] = {}]
  /\ toLog' = [toLog EXCEPT ![s] = {}]
  /\ job' = [job EXCEPT ![s] = NoJob]

Close(s) == pc[s] = "closing" /\ Released(s) /\ UNCHANGED <<dbVars, met>>

\* The worker is killed, or the client's disconnect cancels the handler.
Crash(s) == Crashes /\ pc[s] # "idle" /\ Released(s) /\ UNCHANGED <<dbVars, met>>

\* An exception out of a handler: the same rollback, then an error response.
Abort(s) == Released(s) /\ UNCHANGED <<dbVars, met>>

\* The next statement of session s; nothing else of the session changes.
Goto(s, point) == pc' = [pc EXCEPT ![s] = point]

\* The nightly job of session s goes on with these housings.
JobGoes(s, todo, failed, broken) ==
  job' = [job EXCEPT ![s] = [running |-> TRUE, todo |-> todo,
                             failed |-> failed, broken |-> broken]]

\* A statement has failed in the shared session, and nobody rolls it back.
Poisoned(s) == job[s].broken # {}

\* A request of this kind reaches an idle session that serves it.
Receives(s, kind) == pc[s] = "idle" /\ kind \in Duty[s]

\* A statement gets the lock of one more row of its list.
LockRow(s) ==
  /\ pc[s] \in WritePoint
  /\ \E id \in (seen[s] \cap Live) \ held[s] :
       /\ ~Locked(s, {id})
       /\ held' = [held EXCEPT ![s] = @ \cup {id}]
  /\ UNCHANGED <<plan, refs, log, pc, req, seen, loaded, dropped, toLog, job, met>>

-----------------------------------------------------------------------------
(* generate_daily_plan, behind POST /generate and inside the nightly job.  *)

Generating(s) == pc[s] \in {"journal", "search", "erase_day", "build"}

\* The watched cells that two generations are about in this state.  A day is
\* searched before positions are inserted and nothing keeps a second generation
\* out (plan_items has no unique constraint), so that two can both insert.
Contended ==
  {c \in Watched : \E s, t \in Session :
     s # t /\ Generating(s) /\ Generating(t) /\ c \in req[s].scope \cap req[t].scope}

\* A generation begins, and may meet others.
Meetings == met' = met \cup Contended'

\* The view: without force a day that holds positions is refused (409).
GenerateAsk(s, S, force) ==
  /\ Receives(s, "generate")
  /\ force \/ LiveIn(S) = {}
  /\ Goto(s, "journal")
  /\ req' = [req EXCEPT ![s] = [scope |-> S, force |-> force]]
  /\ Meetings
  /\ UNCHANGED <<plan, refs, log, seen, loaded, held, dropped, toLog, job>>

\* Mutant: the journal of a generation is written without a commit.
JournalNoCommit(s) ==
  /\ pc[s] = "journal"
  /\ ~Poisoned(s)
  /\ Goto(s, "search")
  /\ UNCHANGED <<plan, refs, log, req, seen, loaded, held, dropped, toLog, job, met>>

\* log_action(PLAN_GENERATE): its commit also commits the deletes that an
\* earlier housing of the same nightly session left pending.
GenerateJournal(s) ==
  /\ pc[s] = "journal"
  /\ ~Poisoned(s)
  /\ plan' = Published(s)
  /\ held' = [held EXCEPT ![s] = {}]
  /\ log' = log \cup {<<"generate", req[s].scope>>}
  /\ Goto(s, "search")
  /\ UNCHANGED <<refs, req, seen, loaded, dropped, toLog, job, met>>

\* After generate_daily_plan: a single request answers, the job goes on.
AfterGenerate(s) == IF job[s].running THEN "next_housing" ELSE "closing"

\* Mutant: the day's positions are replaced whether or not force was given.
SearchIgnoringForce(s) ==
  /\ pc[s] = "search"
  /\ seen' = [seen EXCEPT ![s] = LiveIn(req[s].scope)]
  /\ Goto(s, "erase_day")
  /\ UNCHANGED <<plan, refs, log, req, loaded, held, dropped, toLog, job, met>>

\* The positions of the scope: without force they end the request here.
GenerateSearch(s) ==
  /\ pc[s] = "search"
  /\ LET existing == LiveIn(req[s].scope) IN
       /\ seen' = [seen EXCEPT ![s] = existing]
       /\ Goto(s, IF existing = {} THEN "build"
                  ELSE IF req[s].force THEN "erase_day" ELSE AfterGenerate(s))
  /\ UNCHANGED <<plan, refs, log, req, loaded, held, dropped, toLog, job, met>>

\* Mutant: the re-run clears only the drafts.
EraseDrafts(s) ==
  /\ pc[s] = "erase_day"
  /\ HasRows(s)
  /\ seen[s] \cap refs = {}
  /\ held' = [held EXCEPT ![s] = {id \in seen[s] \cap Live : plan[id].status = "draft"}]
  /\ Goto(s, "build")
  /\ UNCHANGED <<plan, refs, log, req, seen, loaded, dropped, toLog, job, met>>

\* Mutant: the DELETE of the day commits at once.
EraseAndCommit(s) ==
  /\ pc[s] = "erase_day"
  /\ HasRows(s)
  /\ seen[s] \cap refs = {}
  /\ plan' = Marked(seen[s] \cap Live, "deleted")
  /\ held' = [held EXCEPT ![s] = {}]
  /\ Goto(s, "build")
  /\ UNCHANGED <<refs, log, req, seen, loaded, dropped, toLog, job, met>>

\* bulk_delete of the rows found: one DELETE, no commit.
GenerateErase(s) ==
  /\ pc[s] = "erase_day"
  /\ HasRows(s)
  /\ seen[s] \cap refs = {}
  /\ Goto(s, "build")
  /\ UNCHANGED <<plan, refs, log, req, seen, loaded, held, dropped, toLog, job, met>>

\* A statement fails: the DELETE hits a reconciled row, or the INSERT breaks a
\* constraint.  A single request answers with an error; the nightly job notes
\* the error and goes on with a session whose transaction cannot commit.
GenerateFails(s) ==
  /\ \/ pc[s] = "erase_day" /\ DeleteFails(s)
     \/ pc[s] = "build"
  /\ \/ ~job[s].running /\ Abort(s)
     \/ /\ job[s].running
        /\ JobGoes(s, job[s].todo, job[s].failed \cup {req[s].scope},
                   job[s].broken \cup {req[s].scope})
        /\ held' = [held EXCEPT ![s] = {}]
        /\ Goto(s, "next_housing")
        /\ UNCHANGED <<plan, refs, log, req, seen, loaded, dropped, toLog, met>>

\* The table after new drafts are inserted with the pending deletes: at[id] is
\* the cell of the position id.
Inserted(s, at) ==
  [id \in PlanId |->
     IF id \in DOMAIN at
     THEN [cell |-> at[id], source |-> "auto", status |-> "draft"]
     ELSE Published(s)[id]]

\* The positions of the frontier, one per cell, inserted and committed
\* together with the pending deletes.
GenerateInsert(s) ==
  /\ pc[s] = "build"
  /\ \E ids \in (SUBSET Fresh) \ {{}} : \E at \in [ids -> req[s].scope] :
       /\ \A i, j \in ids : at[i] = at[j] => i = j
       /\ plan' = Inserted(s, at)
  /\ held' = [held EXCEPT ![s] = {}]
  /\ Goto(s, AfterGenerate(s))
  /\ UNCHANGED <<refs, log, req, seen, loaded, dropped, toLog, job, met>>

\* No calendar plan, no sections, or no ready work with one contractor: the
\* function returns reasons and leaves its deletes pending.
GenerateNothing(s) ==
  /\ pc[s] = "build"
  /\ Goto(s, AfterGenerate(s))
  /\ UNCHANGED <<plan, refs, log, req, seen, loaded, held, dropped, toLog, job, met>>

-----------------------------------------------------------------------------
(* run_nightly_plan: every housing through one shared session.             *)

NightlyStart(s) ==
  /\ Receives(s, "nightly")
  /\ \E H \in (SUBSET Housing) \ {{}} : JobGoes(s, H, {}, {})
  /\ Goto(s, "next_housing")
  /\ UNCHANGED <<plan, refs, log, req, seen, loaded, held, dropped, toLog, met>>

\* Mutant: a housing whose sync fails is queued again, without end.
SyncRetried(s, h) ==
  /\ pc[s] = "next_housing"
  /\ h \in job[s].todo
  /\ req' = [req EXCEPT ![s] = [scope |-> h, force |-> TRUE]]
  /\ Goto(s, "journal")
  /\ Meetings
  /\ UNCHANGED <<plan, refs, log, seen, loaded, held, dropped, toLog, job>>

\* sync_work_facts of the next housing: it stores nothing (no facts, Raport
\* down, or a session that can no longer execute), or it upserts and commits,
\* or one of its statements fails; the generation follows in any case.
NightlySync(s, h) ==
  /\ pc[s] = "next_housing"
  /\ h \in job[s].todo
  /\ req' = [req EXCEPT ![s] = [scope |-> h, force |-> TRUE]]
  /\ \/ /\ JobGoes(s, job[s].todo \ {h}, job[s].failed, job[s].broken)
        /\ UNCHANGED <<plan, held>>
     \/ /\ ~Poisoned(s)
        /\ JobGoes(s, job[s].todo \ {h}, job[s].failed, job[s].broken)
        /\ plan' = Published(s)
        /\ held' = [held EXCEPT ![s] = {}]
     \/ /\ ~Poisoned(s)
        /\ JobGoes(s, job[s].todo \ {h}, job[s].failed, job[s].broken \cup {h})
        /\ held' = [held EXCEPT ![s] = {}]
        /\ UNCHANGED plan
  /\ Goto(s, "journal")
  /\ Meetings
  /\ UNCHANGED <<refs, log, seen, loaded, dropped, toLog>>

\* log_action raises in a session whose transaction has failed.
NightlySkip(s) ==
  /\ pc[s] = "journal"
  /\ Poisoned(s)
  /\ JobGoes(s, job[s].todo, job[s].failed \cup {req[s].scope}, job[s].broken)
  /\ Goto(s, "next_housing")
  /\ UNCHANGED <<plan, refs, log, req, seen, loaded, held, dropped, toLog, met>>

NightlyDone(s) ==
  /\ pc[s] = "next_housing"
  /\ job[s].todo = {}
  /\ Goto(s, "closing")
  /\ UNCHANGED <<plan, refs, log, req, seen, loaded, held, dropped, toLog, job, met>>

-----------------------------------------------------------------------------
(* Operations on positions.                                                *)

\* log_action for one position, with its commit.  Before the group delete the
\* journal comes first, in every other operation it follows the change.
JournalAs == [log_create  |-> "create",  log_confirm |-> "confirm",
              log_delete  |-> "delete",  log_items   |-> "delete"]

JournalItem(s, id) ==
  /\ pc[s] \in DOMAIN JournalAs
  /\ id \in toLog[s]
  /\ log' = log \cup {<<JournalAs[pc[s]], id>>}
  /\ toLog' = [toLog EXCEPT ![s] = @ \ {id}]
  /\ Goto(s, IF toLog[s] # {id} THEN pc[s]
             ELSE IF pc[s] = "log_items" THEN "erase_items" ELSE "closing")
  /\ UNCHANGED <<plan, refs, req, seen, loaded, held, dropped, job, met>>

\* add_manual_item: the references and the Raport assignment hold.
AddCheck(s, c) ==
  /\ Receives(s, "add")
  /\ req' = [req EXCEPT ![s] = [scope |-> {c}, force |-> FALSE]]
  /\ Goto(s, "create")
  /\ UNCHANGED <<plan, refs, log, seen, loaded, held, dropped, toLog, job, met>>

\* The INSERT of the manual position, committed, then its journal entry.
AddCreate(s) ==
  /\ pc[s] = "create"
  /\ \E id \in Fresh, c \in req[s].scope :
       /\ plan' = [plan EXCEPT ![id] =
                     [cell |-> c, source |-> "manual", status |-> "draft"]]
       /\ toLog' = [toLog EXCEPT ![s] = {id}]
  /\ Goto(s, "log_create")
  /\ UNCHANGED <<refs, log, req, seen, loaded, held, dropped, job, met>>

\* confirm_item: update_by_id loads the row before it writes it.
ConfirmLoad(s, id) ==
  /\ Receives(s, "confirm")
  /\ id \in Live
  /\ seen' = [seen EXCEPT ![s] = {id}]
  /\ loaded' = [loaded EXCEPT ![s] = plan[id].status]
  /\ Goto(s, "confirm_one")
  /\ UNCHANGED <<plan, refs, log, req, held, dropped, toLog, job, met>>

\* Mutant: an upsert in place of the UPDATE brings a deleted row back.
ConfirmUpsert(s) ==
  /\ pc[s] = "confirm_one"
  /\ ~Locked(s, seen[s])
  /\ plan' = Marked(seen[s], "confirmed")
  /\ toLog' = [toLog EXCEPT ![s] = seen[s]]
  /\ Goto(s, "log_confirm")
  /\ UNCHANGED <<refs, log, req, seen, loaded, held, dropped, job, met>>

\* The UPDATE names the columns that differ from the loaded row: the time of
\* confirmation always does, the status unless it was confirmed already.
ConfirmUpdate(s) ==
  /\ pc[s] = "confirm_one"
  /\ ~Locked(s, seen[s])
  /\ seen[s] \subseteq Live
  /\ plan' = IF loaded[s] = "confirmed" THEN plan ELSE Marked(seen[s], "confirmed")
  /\ toLog' = [toLog EXCEPT ![s] = seen[s]]
  /\ Goto(s, "log_confirm")
  /\ UNCHANGED <<refs, log, req, seen, loaded, held, dropped, job, met>>

\* confirm_items: one UPDATE by primary key over the rows the search found.
ConfirmItemsSearch(s, ids) ==
  /\ Receives(s, "confirm_items")
  /\ ids \cap Live # {}
  /\ seen' = [seen EXCEPT ![s] = ids \cap Live]
  /\ Goto(s, "confirm_all")
  /\ UNCHANGED <<plan, refs, log, req, loaded, held, dropped, toLog, job, met>>

\* The driver does not count the rows of an UPDATE of several: those deleted
\* meanwhile are passed over, and journalled all the same.
ConfirmItemsUpdate(s) ==
  /\ pc[s] = "confirm_all"
  /\ HasRows(s)
  /\ seen[s] \subseteq Live \/ Cardinality(seen[s]) > 1
  /\ plan' = Marked(seen[s] \cap Live, "confirmed")
  /\ held' = [held EXCEPT ![s] = {}]
  /\ toLog' = [toLog EXCEPT ![s] = seen[s]]
  /\ Goto(s, "log_confirm")
  /\ UNCHANGED <<refs, log, req, seen, loaded, dropped, job, met>>

\* An UPDATE of one row that matches none (StaleDataError), or an UPDATE of
\* several that is the victim of a deadlock.
UpdateFails(s) ==
  /\ \/ pc[s] = "confirm_one" /\ seen[s] \cap Live = {}
     \/ pc[s] \in UpdatePoint /\ Cardinality(seen[s]) = 1 /\ seen[s] \cap Live = {}
     \/ pc[s] \in UpdatePoint /\ Deadlocked(s)
  /\ Abort(s)

\* delete_item: get, then DELETE and commit, then the journal.
DeleteLoad(s, id) ==
  /\ Receives(s, "delete")
  /\ id \in Live
  /\ seen' = [seen EXCEPT ![s] = {id}]
  /\ Goto(s, "delete_one")
  /\ UNCHANGED <<plan, refs, log, req, loaded, held, dropped, toLog, job, met>>

DeleteCommit(s) ==
  /\ pc[s] = "delete_one"
  /\ HasRows(s)
  /\ seen[s] \cap refs = {}
  /\ plan' = Marked(seen[s] \cap Live, "deleted")
  /\ held' = [held EXCEPT ![s] = {}]
  /\ toLog' = [toLog EXCEPT ![s] = seen[s]]
  /\ Goto(s, "log_delete")
  /\ UNCHANGED <<refs, log, req, seen, loaded, dropped, job, met>>

\* delete_items: journal every position, then one DELETE without a commit.
DeleteItemsSearch(s, ids) ==
  /\ Receives(s, "delete_items")
  /\ ids \cap Live # {}
  /\ seen' = [seen EXCEPT ![s] = ids \cap Live]
  /\ toLog' = [toLog EXCEPT ![s] = ids \cap Live]
  /\ Goto(s, "log_items")
  /\ UNCHANGED <<plan, refs, log, req, loaded, held, dropped, job, met>>

DeleteItemsErase(s) ==
  /\ pc[s] = "erase_items"
  /\ HasRows(s)
  /\ seen[s] \cap refs = {}
  /\ Goto(s, "closing")
  /\ UNCHANGED <<plan, refs, log, req, seen, loaded, held, dropped, toLog, job, met>>

\* A reconciled position cannot be deleted: foreign key violation.
DeleteRefused(s) ==
  /\ pc[s] \in {"delete_one", "erase_items"}
  /\ DeleteFails(s)
  /\ Abort(s)

\* transfer_day: every draft or confirmed position of a section, a housing or,
\* for the scheduler, the whole day.
TransferSearch(s, S) ==
  /\ Receives(s, "transfer")
  /\ LET items == {id \in LiveIn(S) : plan[id].status \in {"draft", "confirmed"}} IN
       /\ items # {}
       /\ seen' = [seen EXCEPT ![s] = items]
  /\ Goto(s, "handover")
  /\ UNCHANGED <<plan, refs, log, req, loaded, held, dropped, toLog, job, met>>

\* One UPDATE by primary key, like that of confirm_items.
TransferUpdate(s) ==
  /\ pc[s] = "handover"
  /\ HasRows(s)
  /\ seen[s] \subseteq Live \/ Cardinality(seen[s]) > 1
  /\ plan' = Marked(seen[s] \cap Live, "transferred")
  /\ held' = [held EXCEPT ![s] = {}]
  /\ Goto(s, "closing")
  /\ UNCHANGED <<refs, log, req, seen, loaded, dropped, toLog, job, met>>

-----------------------------------------------------------------------------
(* A reconciliation run of one housing and day, as far as plan_items is    *)
(* concerned: the positions are read, the chessboard is fetched, the old   *)
(* results are deleted, and results that point at the positions that were  *)
(* read - one per cell - are inserted and committed.                       *)

ReconcileRead(s, h) ==
  /\ Receives(s, "reconcile")
  /\ seen' = [seen EXCEPT ![s] = LiveIn(h)]
  /\ req' = [req EXCEPT ![s] = [scope |-> h, force |-> FALSE]]
  /\ Goto(s, "reconcile")
  /\ UNCHANGED <<plan, refs, log, loaded, held, dropped, toLog, job, met>>

\* The positions the results point at: of several on one cell only one.
Matched(ids) ==
  {R \in SUBSET ids :
     /\ \A i, j \in R : plan[i].cell = plan[j].cell => i = j
     /\ {plan[i].cell : i \in R} = {plan[i].cell : i \in ids}}

\* delete_by_date_and_housing, not committed, and the match of what was read.
ReconcileErase(s) ==
  /\ pc[s] = "reconcile"
  /\ dropped' = [dropped EXCEPT ![s] = {id \in refs : plan[id].cell \in req[s].scope}]
  /\ \E R \in Matched(seen[s]) : seen' = [seen EXCEPT ![s] = R]
  /\ Goto(s, "results")
  /\ UNCHANGED <<plan, refs, log, req, loaded, held, toLog, job, met>>

\* The foreign key check cannot tell yet: another session is deleting one of
\* these positions.
Unsettled(s) == \E t \in Session \ {s} : Deleting(t) \cap seen[s] # {}

\* Mutant: results are written without the foreign key to plan_items.
ReconcileUnchecked(s) ==
  /\ pc[s] = "results"
  /\ refs' = (refs \ dropped[s]) \cup seen[s]
  /\ dropped' = [dropped EXCEPT ![s] = {}]
  /\ Goto(s, "closing")
  /\ UNCHANGED <<plan, log, req, seen, loaded, held, toLog, job, met>>

\* bulk_insert of the results; its commit publishes both.
ReconcileWrite(s) ==
  /\ pc[s] = "results"
  /\ ~Unsettled(s)
  /\ seen[s] \subseteq Live
  /\ refs' = (refs \ dropped[s]) \cup seen[s]
  /\ dropped' = [dropped EXCEPT ![s] = {}]
  /\ Goto(s, "closing")
  /\ UNCHANGED <<plan, log, req, seen, loaded, held, toLog, job, met>>

\* A position was deleted meanwhile, or is being deleted by a statement that
\* waits for the old results: the run ends with an error.
ReconcileFails(s) ==
  /\ pc[s] = "results"
  /\ \/ ~Unsettled(s) /\ ~(seen[s] \subseteq Live)
     \/ Deadlocked(s)
  /\ Abort(s)

-----------------------------------------------------------------------------

Generate(s) ==
  \/ \E S \in Scope, force \in BOOLEAN : GenerateAsk(s, S, force)
  \/ GenerateJournal(s) \/ GenerateSearch(s) \/ GenerateErase(s)
  \/ GenerateFails(s) \/ GenerateInsert(s) \/ GenerateNothing(s)

Nightly(s) ==
  \/ NightlyStart(s)
  \/ \E h \in Housing : NightlySync(s, h)
  \/ NightlySkip(s) \/ NightlyDone(s)

Position(s) ==
  \/ \E c \in Cell : AddCheck(s, c)
  \/ \E id \in PlanId : JournalItem(s, id) \/ ConfirmLoad(s, id) \/ DeleteLoad(s, id)
  \/ \E ids \in SUBSET PlanId : ConfirmItemsSearch(s, ids) \/ DeleteItemsSearch(s, ids)
  \/ AddCreate(s) \/ ConfirmUpdate(s) \/ ConfirmItemsUpdate(s) \/ UpdateFails(s)
  \/ DeleteCommit(s) \/ DeleteItemsErase(s) \/ DeleteRefused(s)

Transfer(s)  == (\E S \in Scope \cup {Cell} : TransferSearch(s, S)) \/ TransferUpdate(s)
Reconcile(s) ==
  \/ \E h \in Housing : ReconcileRead(s, h)
  \/ ReconcileErase(s) \/ ReconcileWrite(s) \/ ReconcileFails(s)

Serve(s) ==
  Generate(s) \/ Nightly(s) \/ Position(s) \/ Transfer(s) \/ Reconcile(s)
  \/ LockRow(s) \/ Close(s)

Next == \E s \in Session : Serve(s) \/ Crash(s)

Spec == Init /\ [][Next]_vars

-----------------------------------------------------------------------------
(* Properties.                                                             *)

\* Two requests deadlock only over two rows that both of them want, or with a
\* reconciliation: no request carries the lock of one statement into the wait of
\* another.  The nightly session owes this to log_action, whose commit ends the
\* previous housing's transaction before the next DELETE.
LockOrder ==
  \A s, t \in Session :
    (s # t /\ WaitsFor(s, t) /\ WaitsFor(t, s) /\ "results" \notin {pc[s], pc[t]}) =>
      \E i, j \in seen[s] \cap seen[t] : i # j

\* A reconciliation result never loses its position: rows that results point
\* at are in the table, and no session is about to commit their deletion.
ReferencedRowsStay ==
  /\ refs \subseteq Live
  /\ \A s \in Session : pc[s] \notin WritePoint => held[s] \cap refs = {}

\* The journal tells the truth: a position whose deletion is journalled is
\* gone, or the request that journalled it is still on its way.
DeletingItems(s) == pc[s] \in {"log_items", "erase_items", "closing"}

JournaledDeletesHappen ==
  \A id \in PlanId : <<"delete", id>> \in log =>
    id \notin Live \/ \E s \in Session : DeletingItems(s) /\ id \in seen[s]

\* A position leaves the table only through the delete request that loaded it
\* or through a generation that was told to force.
Leaves(id) == id \in Live /\ plan'[id].status = "deleted"

RemovalIsAskedFor ==
  [][\A id \in PlanId : Leaves(id) =>
       \E s \in Session : \/ pc[s] = "delete_one" /\ id \in seen[s]
                          \/ req[s].force /\ id \in held[s]]_vars

\* A single generate request replaces the day in one commit: the old positions
\* leave only in a step that puts new ones of the same scope in their place.
SwapIsAtomic ==
  [][\A s \in Session : (Generating(s) /\ ~job[s].running /\ pc'[s] # pc[s]) =>
       \A id \in PlanId : Leaves(id) =>
         \E n \in Fresh : plan'[n] # NoRow /\ plan'[n].cell \in req[s].scope]_vars

AutoIn(S) == {id \in LiveIn(S) : plan[id].source = "auto"}

\* A cell gets a second generated position only where two generations met: one
\* request after the other, and with whatever else happens between the search,
\* the DELETE and the INSERT of a generation, or cuts it off, it never does.
OneAutoPerCell ==
  \A i, j \in AutoIn(Watched \ met) : plan[i].cell = plan[j].cell => i = j

\* What a generation is about to insert into has been cleared: the generated
\* positions of its scope are those it found, then those it deleted, but for
\* those of a generation it has met.
Unmet(s) == (req[s].scope \cap Watched) \ met

DayIsCleared ==
  /\ Contended \subseteq met
  /\ \A s \in Session :
       /\ pc[s] = "erase_day" => AutoIn(Unmet(s)) \subseteq seen[s]
       /\ pc[s] = "build" => AutoIn(Unmet(s)) \subseteq held[s]

\* What holds between the steps, strong enough to follow from itself.  Writes
\* are pending only from their statement to the next commit; they are of live
\* rows, of no other session's, and of one scope; a session goes on with rows that were
\* inserted once and, in a generation, that lie in the scope it was asked for.
HoldPoint == {"build", "next_housing", "journal", "closing"} \cup WritePoint

PendingWrites ==
  /\ \A s \in Session : held[s] \subseteq Live
  /\ \A s \in Session : held[s] # {} => pc[s] \in HoldPoint
  /\ \A s, t \in Session : s # t => held[s] \cap held[t] = {}
  /\ \A s \in Session : pc[s] \in WritePoint => held[s] \subseteq seen[s]
  /\ \A s \in Session : dropped[s] # {} => pc[s] = "results"

InTransit ==
  \A s \in Session :
    /\ seen[s] \cap Fresh = {}
    /\ pc[s] = "delete_one" => \E id \in PlanId : seen[s] = {id}
    /\ Generating(s) => req[s].scope \in Scope
    /\ pc[s] = "erase_day" =>
         req[s].force /\ \A id \in seen[s] : plan[id].cell \in req[s].scope
    /\ pc[s] = "build" => \A id \in held[s] : plan[id].cell \in req[s].scope
    /\ (pc[s] \in {"next_housing", "journal"} /\ held[s] # {}) =>
         job[s].running /\ \E S \in Scope : \A id \in held[s] : plan[id].cell \in S
    /\ (Generating(s) \/ pc[s] = "next_housing") /\ held[s] # {} => req[s].force

IInv == TypeOK /\ PendingWrites /\ InTransit /\ ReferencedRowsStay

\* The interleaved requests amount to the whole operations of the board.
Board == INSTANCE PlanBoard WITH board <- plan
BoardSpec == Board!Spec

\* A running handler goes on to its next statement, and a statement that waits
\* for a row lock gets its turn: PostgreSQL queues the waiters of a row.
FairSpec == Spec /\ \A s \in Session : SF_vars(pc[s] # "idle" /\ Serve(s))

\* Every request ends: nobody waits for a lock for ever and no job gets stuck.
EveryRequestEnds == \A s \in Session : pc[s] # "idle" ~> pc[s] = "idle"

=============================================================================
