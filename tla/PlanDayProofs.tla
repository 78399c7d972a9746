--------------------------- MODULE PlanDayProofs ---------------------------
(***************************************************************************)
(* Theorems about PlanDay, for any number of sessions, positions, cells    *)
(* and scopes.                                                             *)
(***************************************************************************)
EXTENDS PlanDay, TLAPS

Table == [PlanId -> Row \cup {NoRow}]

\* Setting the status of live rows keeps the table well typed, inserts and
\* moves nothing, and changes the status of exactly those rows.
LEMMA MarkedTable ==
  ASSUME plan \in Table, NEW ids \in SUBSET Live, NEW st \in Status
  PROVE  /\ Marked(ids, st) \in Table
         /\ \A id \in ids : /\ Marked(ids, st)[id] \in Row
                            /\ Marked(ids, st)[id].cell = plan[id].cell
                            /\ Marked(ids, st)[id].source = plan[id].source
                            /\ Marked(ids, st)[id].status = st
         /\ \A id \in PlanId \ ids : Marked(ids, st)[id] = plan[id]
<1>1. \A id \in ids : plan[id] \in Row
  BY DEF Live, Table
<1>. DEFINE new(id) == [cell |-> plan[id].cell, source |-> plan[id].source, status |-> st]
<1>2. \A id \in ids : /\ new(id) \in Row
                      /\ new(id).cell = plan[id].cell
                      /\ new(id).source = plan[id].source
                      /\ new(id).status = st
  BY <1>1 DEF Row
<1>3. \A id \in PlanId : Marked(ids, st)[id] = IF id \in ids THEN new(id) ELSE plan[id]
  BY DEF Marked
<1>4. Marked(ids, st) = [id \in PlanId |-> Marked(ids, st)[id]]
  BY DEF Marked
<1>. HIDE DEF new
<1>5. ids \subseteq PlanId
  BY DEF Live
<1>6. \A id \in PlanId : Marked(ids, st)[id] \in Row \cup {NoRow}
  BY <1>2, <1>3 DEF Table
<1>. QED  BY <1>2, <1>3, <1>4, <1>5, <1>6 DEF Table

\* What setting a status does to the sets of live and of fresh rows.
LEMMA MarkedLive ==
  ASSUME plan \in Table, NEW ids \in SUBSET Live, NEW st \in Status,
         plan' = Marked(ids, st)
  PROVE  /\ plan' \in Table
         /\ Fresh' = Fresh
         /\ Live' = IF st = "deleted" THEN Live \ ids ELSE Live
         /\ \A id \in PlanId \ Fresh : /\ plan'[id].cell = plan[id].cell
                                      /\ plan'[id].source = plan[id].source
<1>1. /\ plan' \in Table
      /\ \A id \in ids : /\ plan'[id] \in Row
                         /\ plan'[id].cell = plan[id].cell
                         /\ plan'[id].source = plan[id].source
                         /\ plan'[id].status = st
      /\ \A id \in PlanId \ ids : plan'[id] = plan[id]
  BY MarkedTable
<1>2. \A id \in ids : id \in PlanId /\ plan[id] # NoRow
  BY DEF Live
<1>3. \A id \in PlanId : plan'[id] = NoRow <=> plan[id] = NoRow
  BY <1>1, <1>2, NoRowAssumption
<1>4. Fresh' = Fresh
  BY <1>3 DEF Fresh
<1>5. \A id \in PlanId : id \in Live' <=> IF id \in ids THEN st # "deleted" ELSE id \in Live
  BY <1>1, <1>2, <1>3 DEF Live
<1>6. Live' = IF st = "deleted" THEN Live \ ids ELSE Live
  BY <1>5, <1>2 DEF Live
<1>. QED  BY <1>1, <1>4, <1>6

\* What a generation's INSERT, with the commit of the pending deletes, does.
LEMMA InsertedTable ==
  ASSUME plan \in Table, NEW s \in Session, NEW S \in SUBSET Cell,
         NEW ids \in SUBSET Fresh, NEW at \in [ids -> S],
         plan' = Inserted(s, at)
  PROVE  /\ plan' \in Table
         /\ Fresh' = Fresh \ ids
         /\ Live' = (Live \ held[s]) \cup ids
         /\ \A id \in PlanId \ Fresh : /\ plan'[id].cell = plan[id].cell
                                      /\ plan'[id].source = plan[id].source
<1>. DEFINE out == held[s] \cap Live
            row(id) == [cell |-> at[id], source |-> "auto", status |-> "draft"]
<1>1. /\ Published(s) \in Table
      /\ \A id \in out : /\ Published(s)[id] \in Row
                         /\ Published(s)[id].cell = plan[id].cell
                         /\ Published(s)[id].source = plan[id].source
                         /\ Published(s)[id].status = "deleted"
      /\ \A id \in PlanId \ out : Published(s)[id] = plan[id]
  BY MarkedTable DEF Published, Status
<1>2. \A id \in ids : row(id) \in Row /\ row(id).status = "draft"
  BY DEF Row, Status
<1>3. /\ \A id \in PlanId : plan'[id] = IF id \in ids THEN row(id) ELSE Published(s)[id]
      /\ plan' = [id \in PlanId |-> plan'[id]]
  BY DEF Inserted
<1>4. /\ ids \subseteq PlanId
      /\ \A id \in ids : id \notin Live
      /\ \A id \in out : id \in Live /\ plan[id] # NoRow /\ id \notin Fresh
  BY DEF Fresh, Live
<1>5. plan' \in Table
  <2>1. \A id \in PlanId : plan'[id] \in Row \cup {NoRow}
    BY <1>1, <1>2, <1>3 DEF Table
  <2>. QED  BY <2>1, <1>3 DEF Table
<1>. HIDE DEF row
<1>6. \A id \in PlanId : plan'[id] = NoRow <=> plan[id] = NoRow /\ id \notin ids
  BY <1>1, <1>2, <1>3, <1>4, NoRowAssumption
<1>7. Fresh' = Fresh \ ids
  BY <1>6 DEF Fresh
<1>8. \A id \in PlanId : id \in Live' <=> id \in ids \/ id \in Live \ out
  BY <1>1, <1>2, <1>3, <1>4, <1>6 DEF Live
<1>9. Live' = (Live \ held[s]) \cup ids
  BY <1>8, <1>4 DEF Live
<1>10. \A id \in PlanId \ Fresh : /\ plan'[id].cell = plan[id].cell
                                /\ plan'[id].source = plan[id].source
  BY <1>1, <1>3, <1>4
<1>. QED  BY <1>5, <1>7, <1>9, <1>10

\* A commit publishes a well-typed table, and the live rows have a status.
LEMMA PublishedTable ==
  ASSUME TypeOK, NEW s \in Session
  PROVE  Published(s) \in [PlanId -> Row \cup {NoRow}]
BY MarkedTable DEF Published, Status, TypeOK, Table

\* A live row has one of the four statuses.
LEMMA LiveTyped == ASSUME TypeOK, NEW id \in Live PROVE plan[id].status \in Status
BY DEF Live, TypeOK, Row

\* The end of a request keeps every variable in its type.
LEMMA ReleasedTyped ==
  ASSUME TypeOK, NEW s \in Session, Released(s), UNCHANGED <<dbVars, met>>
  PROVE  TypeOK'
BY DEF TypeOK, Released, dbVars, NoReq, NoJob, Point, Status

\* Typing is inductive.
LEMMA Typing == TypeOK /\ [Next]_vars => TypeOK'
<1>. SUFFICES ASSUME TypeOK, [Next]_vars PROVE TypeOK'
  OBVIOUS
<1>. USE ScopeAssumption DEF TypeOK, Goto
<1>1. CASE UNCHANGED vars
  BY <1>1 DEF vars
<1>2. ASSUME NEW s \in Session, Serve(s) \/ Crash(s) PROVE TypeOK'
  <2>1. CASE \E S \in Scope, force \in BOOLEAN : GenerateAsk(s, S, force)
    BY <2>1 DEF GenerateAsk, Receives, Point, Meetings, Contended
  <2>2. CASE GenerateJournal(s)
    BY <2>2, PublishedTable DEF GenerateJournal, Point, Entry
  <2>3. CASE GenerateSearch(s)
    BY <2>3 DEF GenerateSearch, Point, AfterGenerate, LiveIn, Live
  <2>4. CASE GenerateErase(s)
    BY <2>4 DEF GenerateErase, Point, Live
  <2>5. CASE GenerateFails(s)
    <3>1. CASE Abort(s)
      BY <3>1, ReleasedTyped DEF Abort
    <3>2. CASE ~Abort(s)
      <4>1. /\ JobGoes(s, job[s].todo, job[s].failed \cup {req[s].scope},
                        job[s].broken \cup {req[s].scope})
            /\ held' = [held EXCEPT ![s] = {}]
            /\ Goto(s, "next_housing")
            /\ UNCHANGED <<plan, refs, log, req, seen, loaded, dropped, toLog, met>>
        BY <2>5, <3>2 DEF GenerateFails
      <4>2. /\ job[s].todo \in SUBSET Housing
            /\ job[s].failed \cup {req[s].scope} \in SUBSET (SUBSET Cell)
            /\ job[s].broken \cup {req[s].scope} \in SUBSET (SUBSET Cell)
        OBVIOUS
      <4>. QED  BY <4>1, <4>2 DEF JobGoes, Point
    <3>. QED  BY <3>1, <3>2
  <2>6. CASE GenerateInsert(s)
    <3>1. PICK ids \in SUBSET Fresh : \E at \in [ids -> req[s].scope] :
            plan' = Inserted(s, at)
      BY <2>6 DEF GenerateInsert
    <3>2. plan \in Table /\ req[s].scope \in SUBSET Cell
      BY DEF Table
    <3>3. plan' \in [PlanId -> Row \cup {NoRow}]
      BY <3>1, <3>2, InsertedTable DEF Table
    <3>. QED  BY <2>6, <3>3 DEF GenerateInsert, AfterGenerate, Point
  <2>7. CASE GenerateNothing(s)
    BY <2>7 DEF GenerateNothing, Point, AfterGenerate
  <2>8. CASE NightlyStart(s)
    BY <2>8 DEF NightlyStart, Point, JobGoes
  <2>9. ASSUME NEW h \in Housing, NightlySync(s, h) PROVE TypeOK'
    <3>1. plan' \in [PlanId -> Row \cup {NoRow}]
      BY <2>9, PublishedTable DEF NightlySync
    <3>2. held' \in [Session -> SUBSET PlanId]
      BY <2>9 DEF NightlySync
    <3>3. PICK broken \in SUBSET (SUBSET Cell) :
            JobGoes(s, job[s].todo \ {h}, job[s].failed, broken)
      <4>1. /\ job[s].broken \in SUBSET (SUBSET Cell)
            /\ job[s].broken \cup {h} \in SUBSET (SUBSET Cell)
        OBVIOUS
      <4>. QED  BY <2>9, <4>1 DEF NightlySync
    <3>4. job' \in [Session -> [running : BOOLEAN, todo : SUBSET Housing,
                               failed : SUBSET (SUBSET Cell),
                               broken : SUBSET (SUBSET Cell)]]
      <4>1. job[s].todo \ {h} \in SUBSET Housing /\ job[s].failed \in SUBSET (SUBSET Cell)
        OBVIOUS
      <4>. QED  BY <3>3, <4>1 DEF JobGoes
    <3>5. met' \in SUBSET Watched
      BY <2>9 DEF NightlySync, Meetings, Contended
    <3>. QED  BY <2>9, <3>1, <3>2, <3>4, <3>5 DEF NightlySync, Point
  <2>10. CASE NightlySkip(s)
    BY <2>10 DEF NightlySkip, Point, JobGoes
  <2>11. CASE NightlyDone(s)
    BY <2>11 DEF NightlyDone, Point
  <2>12. CASE \E c \in Cell : AddCheck(s, c)
    BY <2>12 DEF AddCheck, Point
  <2>13. CASE \E id \in PlanId : JournalItem(s, id)
    BY <2>13 DEF JournalItem, Point, JournalAs, Entry, ItemAction
  <2>14. CASE \E id \in PlanId : ConfirmLoad(s, id)
    BY <2>14, LiveTyped DEF ConfirmLoad, Point
  <2>15. CASE \E id \in PlanId : DeleteLoad(s, id)
    BY <2>15 DEF DeleteLoad, Point
  <2>16. CASE \E ids \in SUBSET PlanId : ConfirmItemsSearch(s, ids)
    BY <2>16 DEF ConfirmItemsSearch, Point
  <2>17. CASE \E ids \in SUBSET PlanId : DeleteItemsSearch(s, ids)
    BY <2>17 DEF DeleteItemsSearch, Point
  <2>18. CASE AddCreate(s)
    BY <2>18 DEF AddCreate, Point, Row, Status, Fresh
  <2>19. CASE ConfirmUpdate(s)
    BY <2>19, MarkedTable DEF ConfirmUpdate, Point, Status, Table
  <2>20. CASE ConfirmItemsUpdate(s)
    BY <2>20, MarkedTable DEF ConfirmItemsUpdate, Point, Status, Table
  <2>21. CASE UpdateFails(s)
    BY <2>21, ReleasedTyped DEF UpdateFails, Abort
  <2>22. CASE DeleteCommit(s)
    BY <2>22, MarkedTable DEF DeleteCommit, Point, Status, Table
  <2>23. CASE DeleteItemsErase(s)
    BY <2>23 DEF DeleteItemsErase, Point, Live
  <2>24. CASE DeleteRefused(s)
    BY <2>24, ReleasedTyped DEF DeleteRefused, Abort
  <2>25. CASE \E S \in Scope \cup {Cell} : TransferSearch(s, S)
    BY <2>25 DEF TransferSearch, Point, LiveIn, Live
  <2>26. CASE TransferUpdate(s)
    BY <2>26, MarkedTable DEF TransferUpdate, Point, Status, Table
  <2>27. CASE \E h \in Housing : ReconcileRead(s, h)
    BY <2>27 DEF ReconcileRead, Point, LiveIn, Live
  <2>28. CASE ReconcileWrite(s)
    BY <2>28 DEF ReconcileWrite, Point
  <2>29. CASE Close(s)
    BY <2>29, ReleasedTyped DEF Close
  <2>30. CASE Crash(s)
    BY <2>30, ReleasedTyped DEF Crash
  <2>31. CASE LockRow(s)
    BY <2>31 DEF LockRow, Live
  <2>32. CASE ReconcileErase(s)
    BY <2>32 DEF ReconcileErase, Point, Matched
  <2>33. CASE ReconcileFails(s)
    BY <2>33, ReleasedTyped DEF ReconcileFails, Abort
  <2>. QED  BY <1>2, <2>1, <2>2, <2>3, <2>4, <2>5, <2>6, <2>7, <2>8, <2>9, <2>10, <2>11, <2>12, <2>13, <2>14, <2>15, <2>16, <2>17, <2>18, <2>19, <2>20, <2>21, <2>22, <2>23, <2>24, <2>25, <2>26, <2>27, <2>28, <2>29, <2>30, <2>31, <2>32, <2>33
    DEF Serve, Generate, Nightly, Position, Transfer, Reconcile
<1>. QED  BY <1>1, <1>2 DEF Next

-----------------------------------------------------------------------------
(* What one step of a session does, whichever action it is.                 *)

\* A step of one session leaves the state of every other session alone.
LEMMA OthersRest ==
  ASSUME TypeOK, NEW s \in Session, Serve(s) \/ Crash(s),
         NEW t \in Session, t # s
  PROVE  /\ pc'[t] = pc[t]
         /\ req'[t] = req[t]
         /\ seen'[t] = seen[t]
         /\ held'[t] = held[t]
         /\ dropped'[t] = dropped[t]
         /\ job'[t] = job[t]
<1>. DEFINE Same == /\ pc'[t] = pc[t]
                   /\ req'[t] = req[t]
                   /\ seen'[t] = seen[t]
                   /\ held'[t] = held[t]
                   /\ dropped'[t] = dropped[t]
                   /\ job'[t] = job[t]
<1>. USE DEF TypeOK, Goto
<1>0. ASSUME Released(s) PROVE Same
  BY <1>0 DEF Released
<1>1. CASE \E S \in Scope, force \in BOOLEAN : GenerateAsk(s, S, force)
  BY <1>1 DEF GenerateAsk
<1>2. CASE GenerateJournal(s)
  BY <1>2 DEF GenerateJournal
<1>3. CASE GenerateSearch(s)
  BY <1>3 DEF GenerateSearch
<1>4. CASE GenerateErase(s)
  BY <1>4 DEF GenerateErase
<1>5. CASE GenerateFails(s)
  BY <1>5, <1>0 DEF GenerateFails, Abort, JobGoes
<1>6. CASE GenerateInsert(s)
  BY <1>6 DEF GenerateInsert
<1>7. CASE GenerateNothing(s)
  BY <1>7 DEF GenerateNothing
<1>8. CASE NightlyStart(s)
  BY <1>8 DEF NightlyStart, JobGoes
<1>9. CASE \E h \in Housing : NightlySync(s, h)
  BY <1>9 DEF NightlySync, JobGoes
<1>10. CASE NightlySkip(s)
  BY <1>10 DEF NightlySkip, JobGoes
<1>11. CASE NightlyDone(s)
  BY <1>11 DEF NightlyDone
<1>12. CASE \E c \in Cell : AddCheck(s, c)
  BY <1>12 DEF AddCheck
<1>13. CASE \E id \in PlanId : JournalItem(s, id)
  BY <1>13 DEF JournalItem
<1>14. CASE \E id \in PlanId : ConfirmLoad(s, id)
  BY <1>14 DEF ConfirmLoad
<1>15. CASE \E id \in PlanId : DeleteLoad(s, id)
  BY <1>15 DEF DeleteLoad
<1>16. CASE \E ids \in SUBSET PlanId : ConfirmItemsSearch(s, ids)
  BY <1>16 DEF ConfirmItemsSearch
<1>17. CASE \E ids \in SUBSET PlanId : DeleteItemsSearch(s, ids)
  BY <1>17 DEF DeleteItemsSearch
<1>18. CASE AddCreate(s)
  BY <1>18 DEF AddCreate
<1>19. CASE ConfirmUpdate(s)
  BY <1>19 DEF ConfirmUpdate
<1>20. CASE ConfirmItemsUpdate(s)
  BY <1>20 DEF ConfirmItemsUpdate
<1>21. CASE UpdateFails(s)
  BY <1>21, <1>0 DEF UpdateFails, Abort
<1>22. CASE DeleteCommit(s)
  BY <1>22 DEF DeleteCommit
<1>23. CASE DeleteItemsErase(s)
  BY <1>23 DEF DeleteItemsErase
<1>24. CASE DeleteRefused(s)
  BY <1>24, <1>0 DEF DeleteRefused, Abort
<1>25. CASE \E S \in Scope \cup {Cell} : TransferSearch(s, S)
  BY <1>25 DEF TransferSearch
<1>26. CASE TransferUpdate(s)
  BY <1>26 DEF TransferUpdate
<1>27. CASE \E h \in Housing : ReconcileRead(s, h)
  BY <1>27 DEF ReconcileRead
<1>28. CASE ReconcileWrite(s)
  BY <1>28 DEF ReconcileWrite
<1>29. CASE Close(s)
  BY <1>29, <1>0 DEF Close
<1>30. CASE Crash(s)
  BY <1>30, <1>0 DEF Crash
<1>31. CASE LockRow(s)
  BY <1>31 DEF LockRow
<1>32. CASE ReconcileErase(s)
  BY <1>32 DEF ReconcileErase
<1>33. CASE ReconcileFails(s)
  BY <1>33, <1>0 DEF ReconcileFails, Abort
<1>. QED  BY <1>1, <1>2, <1>3, <1>4, <1>5, <1>6, <1>7, <1>8, <1>9, <1>10, <1>11, <1>12, <1>13, <1>14, <1>15, <1>16, <1>17, <1>18, <1>19, <1>20, <1>21, <1>22, <1>23, <1>24, <1>25, <1>26, <1>27, <1>28, <1>29, <1>30, <1>31, <1>32, <1>33
  DEF Serve, Generate, Nightly, Position, Transfer, Reconcile

\* The six ways in which a step can change the table.
Publishes(s) ==
  /\ pc[s] \in {"journal", "next_housing"}
  /\ held'[s] = {}
  /\ plan' = Published(s)

Advances(s) ==
  \E ids \in SUBSET Live : \E st \in {"confirmed", "transferred"} : plan' = Marked(ids, st)

Deletes(s) ==
  /\ pc[s] = "delete_one"
  /\ HasRows(s)
  /\ seen[s] \cap refs = {}
  /\ plan' = Marked(seen[s] \cap Live, "deleted")

Inserts(s) ==
  /\ pc[s] = "build"
  /\ held'[s] = {}
  /\ \E ids \in SUBSET Fresh : \E at \in [ids -> req[s].scope] :
       /\ ids # {}
       /\ \A i, j \in ids : at[i] = at[j] => i = j
       /\ plan' = Inserted(s, at)

Adds(s) ==
  \E id \in Fresh, c \in Cell :
    plan' = [plan EXCEPT ![id] = [cell |-> c, source |-> "manual", status |-> "draft"]]

\* Every step changes the table in one of these ways, or not at all.
LEMMA PlanStep ==
  ASSUME TypeOK, NEW s \in Session, Serve(s) \/ Crash(s)
  PROVE  UNCHANGED plan \/ Publishes(s) \/ Advances(s) \/ Deletes(s) \/ Inserts(s) \/ Adds(s)
<1>0. CASE UNCHANGED plan
  BY <1>0
<1>1. CASE GenerateJournal(s)
  BY <1>1 DEF GenerateJournal, Publishes, TypeOK
<1>2. CASE GenerateInsert(s)
  BY <1>2 DEF GenerateInsert, Inserts, TypeOK
<1>3. CASE \E h \in Housing : NightlySync(s, h)
  BY <1>3 DEF NightlySync, Publishes, TypeOK
<1>4. CASE AddCreate(s)
  BY <1>4 DEF AddCreate, Adds, TypeOK
<1>5. CASE ConfirmUpdate(s)
  BY <1>5 DEF ConfirmUpdate, Advances
<1>6. CASE ConfirmItemsUpdate(s)
  BY <1>6 DEF ConfirmItemsUpdate, Advances
<1>7. CASE DeleteCommit(s)
  BY <1>7 DEF DeleteCommit, Deletes
<1>8. CASE TransferUpdate(s)
  BY <1>8 DEF TransferUpdate, Advances
<1>9. CASE ~(\/ GenerateJournal(s)
             \/ \E h \in Housing : NightlySync(s, h)
             \/ GenerateInsert(s)
             \/ AddCreate(s)
             \/ ConfirmUpdate(s)
             \/ ConfirmItemsUpdate(s)
             \/ DeleteCommit(s)
             \/ TransferUpdate(s))
  <2>1. UNCHANGED plan
    BY <1>9 DEF Serve, Generate, Nightly, Position, Transfer, Reconcile, dbVars,
      Released, Abort, GenerateAsk, GenerateSearch, GenerateErase, GenerateFails, GenerateNothing, NightlyStart, NightlySkip, NightlyDone, AddCheck, JournalItem, ConfirmLoad, DeleteLoad, ConfirmItemsSearch, DeleteItemsSearch, UpdateFails, DeleteItemsErase, DeleteRefused, LockRow, TransferSearch, ReconcileRead, ReconcileErase, ReconcileWrite, ReconcileFails, Close, Crash
  <2>. QED  BY <2>1
<1>. QED  BY <1>0, <1>1, <1>2, <1>3, <1>4, <1>5, <1>6, <1>7, <1>8, <1>9

\* Positions are never un-inserted, never move to another cell, never turn from
\* manual to generated, and a deleted one does not come back.
LEMMA RowsStay ==
  ASSUME TypeOK, NEW s \in Session, Serve(s) \/ Crash(s)
  PROVE  /\ Fresh' \subseteq Fresh
         /\ Live' \subseteq Live \cup Fresh
         /\ \A id \in PlanId \ Fresh : /\ plan'[id].cell = plan[id].cell
                                      /\ plan'[id].source = plan[id].source
<1>. USE DEF Table
<1>. plan \in Table /\ req[s].scope \in SUBSET Cell
  BY DEF TypeOK
<1>1. CASE UNCHANGED plan
  BY <1>1 DEF Fresh, Live
<1>2. CASE Publishes(s)
  BY <1>2, MarkedLive DEF Publishes, Published, Status
<1>3. CASE Advances(s)
  BY <1>3, MarkedLive DEF Advances, Status
<1>4. CASE Deletes(s)
  BY <1>4, MarkedLive DEF Deletes, Status
<1>5. CASE Inserts(s)
  <2>1. PICK ids \in SUBSET Fresh : \E at \in [ids -> req[s].scope] : plan' = Inserted(s, at)
    BY <1>5 DEF Inserts
  <2>2. /\ Fresh' = Fresh \ ids
        /\ Live' = (Live \ held[s]) \cup ids
        /\ \A id \in PlanId \ Fresh : /\ plan'[id].cell = plan[id].cell
                                     /\ plan'[id].source = plan[id].source
    BY <2>1, InsertedTable
  <2>. QED  BY <2>2
<1>6. CASE Adds(s)
  BY <1>6, NoRowAssumption DEF Adds, Fresh, Live, Row, Status
<1>. QED  BY <1>1, <1>2, <1>3, <1>4, <1>5, <1>6, PlanStep

\* A live position leaves the table only when its own session commits.
LEMMA LeavingRows ==
  ASSUME TypeOK, NEW s \in Session, Serve(s) \/ Crash(s), NEW id \in Live, id \notin Live'
  PROVE  \/ id \in held[s] /\ (Publishes(s) \/ Inserts(s))
         \/ id \in seen[s] /\ Deletes(s)
<1>. plan \in Table /\ req[s].scope \in SUBSET Cell
  BY DEF TypeOK, Table
<1>1. CASE UNCHANGED plan
  BY <1>1 DEF Live
<1>2. CASE Publishes(s)
  <2>1. Live' = Live \ (held[s] \cap Live)
    BY <1>2, MarkedLive DEF Publishes, Published, Status
  <2>. QED  BY <2>1, <1>2 DEF Publishes
<1>3. CASE Advances(s)
  BY <1>3, MarkedLive DEF Advances, Status
<1>4. CASE Deletes(s)
  <2>1. Live' = Live \ (seen[s] \cap Live)
    BY <1>4, MarkedLive DEF Deletes, Status
  <2>. QED  BY <2>1, <1>4
<1>5. CASE Inserts(s)
  <2>1. PICK ids \in SUBSET Fresh : \E at \in [ids -> req[s].scope] : plan' = Inserted(s, at)
    BY <1>5 DEF Inserts
  <2>2. Live' = (Live \ held[s]) \cup ids
    BY <2>1, InsertedTable
  <2>. QED  BY <2>2, <1>5 DEF Inserts
<1>6. CASE Adds(s)
  <2>1. PICK n \in Fresh, c \in Cell :
          plan' = [plan EXCEPT ![n] = [cell |-> c, source |-> "manual", status |-> "draft"]]
    BY <1>6 DEF Adds
  <2>2. id # n
    BY DEF Fresh, Live
  <2>. QED  BY <2>1, <2>2 DEF Live
<1>. QED  BY <1>1, <1>2, <1>3, <1>4, <1>5, <1>6, PlanStep

\* How the pending writes of a session change: they end, they stay while the
\* session is between two statements, a DELETE that has its rows hands them on,
\* or a statement takes the lock of one more row.
Keeps(s) ==
  /\ UNCHANGED plan
  /\ held'[s] = held[s]
  /\ pc[s] \in {"build", "next_housing", "journal"}
  /\ pc'[s] \in {"journal", "next_housing", "closing"}
  /\ pc[s] = "build" => UNCHANGED req
  /\ UNCHANGED req \/ req'[s].force
  /\ pc'[s] # "closing" => job'[s].running

Dooms(s) ==
  /\ UNCHANGED <<plan, refs, req>>
  /\ held'[s] = held[s]
  /\ HasRows(s)
  /\ seen[s] \cap refs = {}
  /\ \/ pc[s] = "erase_day" /\ pc'[s] = "build"
     \/ pc[s] = "erase_items" /\ pc'[s] = "closing"

Locks(s) ==
  /\ UNCHANGED <<plan, refs, req, pc, seen>>
  /\ pc[s] \in WritePoint
  /\ \E id \in seen[s] \cap Live : ~Locked(s, {id}) /\ held'[s] = held[s] \cup {id}

\* The pending writes of the session that moves are gone, kept, handed on by a
\* DELETE, or one more.
LEMMA PendingStep ==
  ASSUME TypeOK, PendingWrites, NEW s \in Session, Serve(s) \/ Crash(s)
  PROVE  held'[s] = {} \/ Keeps(s) \/ Dooms(s) \/ Locks(s)
<1>. USE DEF TypeOK, Goto
<1>0. held[s] # {} => pc[s] \in HoldPoint
  BY DEF PendingWrites
<1>1. ASSUME Released(s) PROVE held'[s] = {}
  BY <1>1 DEF Released
<1>2. CASE \E S \in Scope, force \in BOOLEAN : GenerateAsk(s, S, force)
  BY <1>2, <1>0, <1>1 DEF GenerateAsk, HoldPoint, WritePoint, DeletePoint, UpdatePoint, Receives
<1>3. CASE GenerateJournal(s)
  BY <1>3, <1>0, <1>1 DEF GenerateJournal, HoldPoint, WritePoint, DeletePoint, UpdatePoint
<1>4. CASE GenerateSearch(s)
  BY <1>4, <1>0, <1>1 DEF GenerateSearch, HoldPoint, WritePoint, DeletePoint, UpdatePoint
<1>5. CASE GenerateErase(s)
  BY <1>5, <1>0, <1>1 DEF GenerateErase, Dooms
<1>6. CASE GenerateFails(s)
  BY <1>6, <1>0, <1>1 DEF GenerateFails, Abort, HoldPoint, WritePoint, DeletePoint, UpdatePoint
<1>7. CASE GenerateInsert(s)
  BY <1>7, <1>0, <1>1 DEF GenerateInsert, HoldPoint, WritePoint, DeletePoint, UpdatePoint
<1>8. CASE GenerateNothing(s)
  BY <1>8, <1>0, <1>1 DEF GenerateNothing, Keeps, HoldPoint, WritePoint, DeletePoint, UpdatePoint, AfterGenerate
<1>9. CASE NightlyStart(s)
  BY <1>9, <1>0, <1>1 DEF NightlyStart, HoldPoint, WritePoint, DeletePoint, UpdatePoint, Receives
<1>10. CASE \E h \in Housing : NightlySync(s, h)
  BY <1>10, <1>0, <1>1 DEF NightlySync, Keeps, HoldPoint, WritePoint, DeletePoint, UpdatePoint, JobGoes
<1>11. CASE NightlySkip(s)
  BY <1>11, <1>0, <1>1 DEF NightlySkip, Keeps, HoldPoint, WritePoint, DeletePoint, UpdatePoint, JobGoes
<1>12. CASE NightlyDone(s)
  BY <1>12, <1>0, <1>1 DEF NightlyDone, Keeps, HoldPoint, WritePoint, DeletePoint, UpdatePoint
<1>13. CASE \E c \in Cell : AddCheck(s, c)
  BY <1>13, <1>0, <1>1 DEF AddCheck, HoldPoint, WritePoint, DeletePoint, UpdatePoint, Receives
<1>14. CASE \E id \in PlanId : JournalItem(s, id)
  BY <1>14, <1>0, <1>1 DEF JournalItem, HoldPoint, WritePoint, DeletePoint, UpdatePoint, JournalAs
<1>15. CASE \E id \in PlanId : ConfirmLoad(s, id)
  BY <1>15, <1>0, <1>1 DEF ConfirmLoad, HoldPoint, WritePoint, DeletePoint, UpdatePoint, Receives
<1>16. CASE \E id \in PlanId : DeleteLoad(s, id)
  BY <1>16, <1>0, <1>1 DEF DeleteLoad, HoldPoint, WritePoint, DeletePoint, UpdatePoint, Receives
<1>17. CASE \E ids \in SUBSET PlanId : ConfirmItemsSearch(s, ids)
  BY <1>17, <1>0, <1>1 DEF ConfirmItemsSearch, HoldPoint, WritePoint, DeletePoint, UpdatePoint, Receives
<1>18. CASE \E ids \in SUBSET PlanId : DeleteItemsSearch(s, ids)
  BY <1>18, <1>0, <1>1 DEF DeleteItemsSearch, HoldPoint, WritePoint, DeletePoint, UpdatePoint, Receives
<1>19. CASE AddCreate(s)
  BY <1>19, <1>0, <1>1 DEF AddCreate, HoldPoint, WritePoint, DeletePoint, UpdatePoint
<1>20. CASE ConfirmUpdate(s)
  BY <1>20, <1>0, <1>1 DEF ConfirmUpdate, HoldPoint, WritePoint, DeletePoint, UpdatePoint
<1>21. CASE ConfirmItemsUpdate(s)
  BY <1>21, <1>0, <1>1 DEF ConfirmItemsUpdate, HoldPoint, WritePoint, DeletePoint, UpdatePoint
<1>22. CASE UpdateFails(s)
  BY <1>22, <1>0, <1>1 DEF UpdateFails, Abort, HoldPoint, WritePoint, DeletePoint, UpdatePoint
<1>23. CASE DeleteCommit(s)
  BY <1>23, <1>0, <1>1 DEF DeleteCommit, HoldPoint, WritePoint, DeletePoint, UpdatePoint
<1>24. CASE DeleteItemsErase(s)
  BY <1>24, <1>0, <1>1 DEF DeleteItemsErase, Dooms
<1>25. CASE DeleteRefused(s)
  BY <1>25, <1>0, <1>1 DEF DeleteRefused, Abort, HoldPoint, WritePoint, DeletePoint, UpdatePoint
<1>26. CASE \E S \in Scope \cup {Cell} : TransferSearch(s, S)
  BY <1>26, <1>0, <1>1 DEF TransferSearch, HoldPoint, WritePoint, DeletePoint, UpdatePoint, Receives
<1>27. CASE TransferUpdate(s)
  BY <1>27, <1>0, <1>1 DEF TransferUpdate, HoldPoint, WritePoint, DeletePoint, UpdatePoint
<1>28. CASE \E h \in Housing : ReconcileRead(s, h)
  BY <1>28, <1>0, <1>1 DEF ReconcileRead, HoldPoint, WritePoint, DeletePoint, UpdatePoint, Receives
<1>29. CASE ReconcileWrite(s)
  BY <1>29, <1>0, <1>1 DEF ReconcileWrite, HoldPoint, WritePoint, DeletePoint, UpdatePoint
<1>30. CASE Close(s)
  BY <1>30, <1>0, <1>1 DEF Close, HoldPoint, WritePoint, DeletePoint, UpdatePoint
<1>31. CASE Crash(s)
  BY <1>31, <1>0, <1>1 DEF Crash, HoldPoint, WritePoint, DeletePoint, UpdatePoint
<1>32. CASE LockRow(s)
  BY <1>32 DEF LockRow, Locks
<1>33. CASE ReconcileErase(s)
  BY <1>33, <1>0 DEF ReconcileErase, HoldPoint, WritePoint, DeletePoint, UpdatePoint
<1>34. CASE ReconcileFails(s)
  BY <1>34, <1>1 DEF ReconcileFails, Abort
<1>. QED  BY <1>2, <1>3, <1>4, <1>5, <1>6, <1>7, <1>8, <1>9, <1>10, <1>11, <1>12, <1>13, <1>14, <1>15, <1>16, <1>17, <1>18, <1>19, <1>20, <1>21, <1>22, <1>23, <1>24, <1>25, <1>26, <1>27, <1>28, <1>29, <1>30, <1>31, <1>32, <1>33, <1>34
  DEF Serve, Generate, Nightly, Position, Transfer, Reconcile

-----------------------------------------------------------------------------
(* The invariant is inductive.                                              *)

\* Results are pending only at the INSERT that replaces them.
LEMMA DroppedStep ==
  ASSUME TypeOK, NEW s \in Session, Serve(s) \/ Crash(s)
  PROVE  \/ dropped'[s] = {}
         \/ pc'[s] = "results"
         \/ dropped'[s] = dropped[s] /\ pc[s] # "results"
<1>. USE DEF TypeOK, Goto
<1>1. ASSUME Released(s) PROVE dropped'[s] = {}
  BY <1>1 DEF Released
<1>2. CASE ReconcileErase(s)
  BY <1>2 DEF ReconcileErase
<1>3. CASE ReconcileWrite(s)
  BY <1>3 DEF ReconcileWrite
<1>4. CASE ReconcileFails(s)
  BY <1>4, <1>1 DEF ReconcileFails, Abort
<1>5. CASE ~(ReconcileErase(s) \/ ReconcileWrite(s) \/ ReconcileFails(s))
  BY <1>5, <1>1 DEF Serve, Generate, Nightly, Position, Transfer, Reconcile,
    Receives, Abort, GenerateAsk, GenerateJournal, GenerateSearch, GenerateErase, GenerateFails, GenerateInsert, GenerateNothing, NightlyStart, NightlySync, NightlySkip, NightlyDone, AddCheck, JournalItem, JournalAs, ConfirmLoad, DeleteLoad, ConfirmItemsSearch, DeleteItemsSearch, AddCreate, ConfirmUpdate, ConfirmItemsUpdate, UpdateFails, DeleteCommit, DeleteItemsErase, DeleteRefused, LockRow, DeletePoint, UpdatePoint, WritePoint, TransferSearch, TransferUpdate, ReconcileRead, Close, Crash
<1>. QED  BY <1>2, <1>3, <1>4, <1>5

\* The facts about pending writes are kept by every step.
LEMMA PendingInductive ==
  ASSUME TypeOK, PendingWrites, InTransit, NEW s \in Session, Serve(s) \/ Crash(s)
  PROVE  PendingWrites'
<1>. USE DEF TypeOK
<1>. DEFINE Whole(t) == pc[t] \in WritePoint => held[t] \subseteq seen[t]
<1>0. \A t \in Session : Whole(t) /\ (dropped[t] # {} => pc[t] = "results")
  BY DEF PendingWrites
<1>1. ASSUME NEW t \in Session, t # s
      PROVE  /\ held'[t] \subseteq Live'
             /\ held'[t] # {} => pc'[t] \in HoldPoint
             /\ held'[t] \cap held'[s] = {}
             /\ Whole(t)'
             /\ dropped'[t] # {} => pc'[t] = "results"
  <2>1. /\ held'[t] = held[t]
        /\ dropped'[t] = dropped[t]
        /\ seen'[t] = seen[t]
        /\ pc'[t] = pc[t]
    BY <1>1, OthersRest
  <2>2. /\ held[t] \subseteq Live
        /\ held[t] # {} => pc[t] \in HoldPoint
        /\ held[t] \cap held[s] = {}
    BY <1>1 DEF PendingWrites
  <2>3. \A id \in held[t] : id \in Live'
    <3>. SUFFICES ASSUME NEW id \in held[t], id \notin Live' PROVE FALSE
      OBVIOUS
    <3>1. id \in Live /\ id \notin held[s]
      BY <2>2
    <3>2. id \in seen[s] /\ Deletes(s)
      BY <3>1, LeavingRows
    <3>. QED  BY <3>1, <3>2 DEF Deletes, HasRows
  <2>4. held'[t] \cap held'[s] = {}
    BY <2>1, <2>2, <1>1, PendingStep DEF Keeps, Dooms, Locks, Locked
  <2>5. Whole(t)'
    BY <2>1, <1>0
  <2>. QED  BY <2>1, <2>2, <2>3, <2>4, <2>5, <1>0
<1>2. /\ held'[s] \subseteq Live'
      /\ held'[s] # {} => pc'[s] \in HoldPoint
      /\ Whole(s)'
  <2>1. CASE held'[s] = {}
    BY <2>1
  <2>2. CASE Keeps(s)
    BY <2>2 DEF Keeps, PendingWrites, HoldPoint, WritePoint, DeletePoint, UpdatePoint, Live
  <2>3. CASE Dooms(s)
    BY <2>3 DEF Dooms, PendingWrites, HoldPoint, WritePoint, DeletePoint, UpdatePoint, Live
  <2>4. CASE Locks(s)
    BY <2>4, <1>0 DEF Locks, PendingWrites, HoldPoint, Live
  <2>. QED  BY <2>1, <2>2, <2>3, <2>4, PendingStep
<1>3. dropped'[s] # {} => pc'[s] = "results"
  BY <1>0, DroppedStep
<1>4. ASSUME NEW t \in Session, NEW u \in Session, t # u
      PROVE  held'[t] \cap held'[u] = {}
  <2>1. CASE t # s /\ u # s
    <3>1. held'[t] = held[t] /\ held'[u] = held[u]
      BY <2>1, OthersRest
    <3>. QED  BY <3>1, <1>4 DEF PendingWrites
  <2>2. CASE t = s
    BY <1>1, <1>4, <2>2
  <2>3. CASE u = s
    BY <1>1, <1>4, <2>3
  <2>. QED  BY <2>1, <2>2, <2>3
<1>5. \A t \in Session : held'[t] \subseteq Live'
  BY <1>1, <1>2
<1>6. \A t \in Session : held'[t] # {} => pc'[t] \in HoldPoint
  BY <1>1, <1>2
<1>7. \A t \in Session : Whole(t)' /\ (dropped'[t] # {} => pc'[t] = "results")
  BY <1>1, <1>2, <1>3
<1>. QED  BY <1>4, <1>5, <1>6, <1>7 DEF PendingWrites

\* Results come to point at positions only in the write of a reconciliation,
\* and only at positions nobody is deleting.
RefersTo(s) ==
  /\ UNCHANGED <<plan, held>>
  /\ pc[s] = "results"
  /\ pc' = [pc EXCEPT ![s] = "closing"]
  /\ \E R \in SUBSET Live :
       /\ \A t \in Session \ {s} : Deleting(t) \cap R = {}
       /\ refs' \subseteq refs \cup R

\* Only the write of a reconciliation changes what results point at.
LEMMA RefsStep ==
  ASSUME TypeOK, NEW s \in Session, Serve(s) \/ Crash(s)
  PROVE  UNCHANGED refs \/ RefersTo(s)
<1>1. CASE UNCHANGED refs
  BY <1>1
<1>2. CASE ReconcileWrite(s)
  BY <1>2 DEF ReconcileWrite, RefersTo, Goto, Unsettled
<1>3. CASE ~ReconcileWrite(s)
  <2>1. UNCHANGED refs
    BY <1>3 DEF Serve, Generate, Nightly, Position, Transfer, Reconcile, dbVars,
      Released, Abort, GenerateAsk, GenerateJournal, GenerateSearch, GenerateErase, GenerateFails, GenerateInsert, GenerateNothing, NightlyStart, NightlySync, NightlySkip, NightlyDone, AddCheck, JournalItem, ConfirmLoad, DeleteLoad, ConfirmItemsSearch, DeleteItemsSearch, AddCreate, ConfirmUpdate, ConfirmItemsUpdate, UpdateFails, DeleteCommit, DeleteItemsErase, DeleteRefused, LockRow, TransferSearch, TransferUpdate, ReconcileRead, ReconcileErase, ReconcileFails, Close, Crash
  <2>. QED  BY <2>1
<1>. QED  BY <1>2, <1>3

\* Every step keeps the rows that results point at.
LEMMA RefsInductive ==
  ASSUME TypeOK, PendingWrites, ReferencedRowsStay,
         NEW s \in Session, Serve(s) \/ Crash(s)
  PROVE  ReferencedRowsStay'
<1>. USE DEF TypeOK
<1>1. CASE RefersTo(s)
  <2>1. PICK R \in SUBSET Live : /\ \A t \in Session \ {s} : Deleting(t) \cap R = {}
                                 /\ refs' \subseteq refs \cup R
    BY <1>1 DEF RefersTo
  <2>2. Live' = Live /\ held' = held
    BY <1>1 DEF RefersTo, Live
  <2>3. held[s] = {}
    BY <1>1 DEF RefersTo, PendingWrites, HoldPoint, WritePoint, DeletePoint, UpdatePoint
  <2>4. ASSUME NEW t \in Session, pc'[t] \notin WritePoint PROVE held'[t] \cap refs' = {}
    <3>1. CASE t = s
      BY <3>1, <2>2, <2>3
    <3>2. CASE t # s
      <4>1. pc'[t] = pc[t]
        BY <3>2, OthersRest
      <4>. QED  BY <4>1, <3>2, <2>1, <2>2, <2>4 DEF ReferencedRowsStay, Deleting, WritePoint
    <3>. QED  BY <3>1, <3>2
  <2>. QED  BY <2>1, <2>2, <2>4 DEF ReferencedRowsStay
<1>2. CASE UNCHANGED refs
  <2>1. ASSUME NEW id \in refs PROVE id \in Live'
    <3>. SUFFICES ASSUME id \notin Live' PROVE FALSE
      OBVIOUS
    <3>1. id \in Live
      BY DEF ReferencedRowsStay
    <3>2. id \in held[s] /\ pc[s] \in {"journal", "next_housing", "build"}
      BY <3>1, LeavingRows DEF Deletes, Publishes, Inserts
    <3>. QED  BY <3>2 DEF ReferencedRowsStay, WritePoint, DeletePoint, UpdatePoint
  <2>2. pc'[s] \notin WritePoint => held'[s] \cap refs = {}
    <3>1. CASE Keeps(s)
      BY <3>1 DEF Keeps, ReferencedRowsStay, WritePoint, DeletePoint, UpdatePoint
    <3>2. CASE Dooms(s)
      BY <3>2 DEF Dooms, PendingWrites, WritePoint, DeletePoint
    <3>3. CASE Locks(s)
      BY <3>3 DEF Locks
    <3>. QED  BY <3>1, <3>2, <3>3, PendingStep
  <2>3. ASSUME NEW t \in Session, t # s, pc'[t] \notin WritePoint PROVE held'[t] \cap refs = {}
    BY <2>3, OthersRest DEF ReferencedRowsStay
  <2>. QED  BY <1>2, <2>1, <2>2, <2>3 DEF ReferencedRowsStay
<1>. QED  BY <1>1, <1>2, RefsStep

\* What the session that moves carries on to its next statement.
Carries(s) ==
  /\ seen'[s] \subseteq seen[s] \/ (UNCHANGED plan /\ seen'[s] \subseteq Live)
  /\ pc'[s] = "delete_one" =>
       \/ pc[s] = "delete_one" /\ seen'[s] = seen[s]
       \/ \E id \in PlanId : seen'[s] = {id}
  /\ pc'[s] \in {"journal", "search", "erase_day", "build"} =>
       \/ req'[s].scope \in Scope
       \/ Generating(s) /\ UNCHANGED req
  /\ pc'[s] = "erase_day" =>
       /\ UNCHANGED <<plan, req>>
       /\ \/ pc[s] = "erase_day" /\ seen'[s] = seen[s]
          \/ req[s].force /\ \A id \in seen'[s] : plan[id].cell \in req[s].scope
  /\ pc'[s] = "build" => pc[s] = "search" \/ (pc[s] = "erase_day" /\ Dooms(s))

\* Every step carries on so.
LEMMA CarryStep ==
  ASSUME TypeOK, NEW s \in Session, Serve(s) \/ Crash(s)
  PROVE  Carries(s)
<1>. USE ScopeAssumption DEF TypeOK, Goto, Carries
<1>0. ASSUME Released(s), UNCHANGED <<dbVars, met>> PROVE Carries(s)
  BY <1>0 DEF Released, dbVars
<1>1. CASE \E S \in Scope, force \in BOOLEAN : GenerateAsk(s, S, force)
  BY <1>1, <1>0 DEF GenerateAsk
<1>2. CASE GenerateJournal(s)
  BY <1>2, <1>0 DEF GenerateJournal, Generating
<1>3. CASE GenerateSearch(s)
  BY <1>3, <1>0 DEF GenerateSearch, Generating, LiveIn, Live, AfterGenerate
<1>4. CASE GenerateErase(s)
  BY <1>4, <1>0 DEF GenerateErase, Generating, Dooms
<1>5. CASE GenerateFails(s)
  BY <1>5, <1>0 DEF GenerateFails, Abort
<1>6. CASE GenerateInsert(s)
  BY <1>6, <1>0 DEF GenerateInsert, AfterGenerate
<1>7. CASE GenerateNothing(s)
  BY <1>7, <1>0 DEF GenerateNothing, AfterGenerate
<1>8. CASE NightlyStart(s)
  BY <1>8, <1>0 DEF NightlyStart
<1>9. CASE \E h \in Housing : NightlySync(s, h)
  BY <1>9, <1>0 DEF NightlySync
<1>10. CASE NightlySkip(s)
  BY <1>10, <1>0 DEF NightlySkip
<1>11. CASE NightlyDone(s)
  BY <1>11, <1>0 DEF NightlyDone
<1>12. CASE \E c \in Cell : AddCheck(s, c)
  BY <1>12, <1>0 DEF AddCheck
<1>13. CASE \E id \in PlanId : JournalItem(s, id)
  BY <1>13, <1>0 DEF JournalItem, JournalAs
<1>14. CASE \E id \in PlanId : ConfirmLoad(s, id)
  BY <1>14, <1>0 DEF ConfirmLoad
<1>15. CASE \E id \in PlanId : DeleteLoad(s, id)
  BY <1>15, <1>0 DEF DeleteLoad
<1>16. CASE \E ids \in SUBSET PlanId : ConfirmItemsSearch(s, ids)
  BY <1>16, <1>0 DEF ConfirmItemsSearch
<1>17. CASE \E ids \in SUBSET PlanId : DeleteItemsSearch(s, ids)
  BY <1>17, <1>0 DEF DeleteItemsSearch
<1>18. CASE AddCreate(s)
  BY <1>18, <1>0 DEF AddCreate
<1>19. CASE ConfirmUpdate(s)
  BY <1>19, <1>0 DEF ConfirmUpdate
<1>20. CASE ConfirmItemsUpdate(s)
  BY <1>20, <1>0 DEF ConfirmItemsUpdate
<1>21. CASE UpdateFails(s)
  BY <1>21, <1>0 DEF UpdateFails, Abort
<1>22. CASE DeleteCommit(s)
  BY <1>22, <1>0 DEF DeleteCommit
<1>23. CASE DeleteItemsErase(s)
  BY <1>23, <1>0 DEF DeleteItemsErase
<1>24. CASE DeleteRefused(s)
  BY <1>24, <1>0 DEF DeleteRefused, Abort
<1>25. CASE \E S \in Scope \cup {Cell} : TransferSearch(s, S)
  BY <1>25, <1>0 DEF TransferSearch, LiveIn
<1>26. CASE TransferUpdate(s)
  BY <1>26, <1>0 DEF TransferUpdate
<1>27. CASE \E h \in Housing : ReconcileRead(s, h)
  BY <1>27, <1>0 DEF ReconcileRead, LiveIn
<1>28. CASE ReconcileWrite(s)
  BY <1>28 DEF ReconcileWrite
<1>29. CASE Close(s)
  BY <1>29, <1>0 DEF Close
<1>30. CASE Crash(s)
  BY <1>30, <1>0 DEF Crash
<1>31. CASE LockRow(s)
  BY <1>31 DEF LockRow, WritePoint, DeletePoint, UpdatePoint, Generating
<1>32. CASE ReconcileErase(s)
  BY <1>32 DEF ReconcileErase, Matched
<1>33. CASE ReconcileFails(s)
  BY <1>33, <1>0 DEF ReconcileFails, Abort
<1>. QED  BY <1>1, <1>2, <1>3, <1>4, <1>5, <1>6, <1>7, <1>8, <1>9, <1>10, <1>11, <1>12, <1>13, <1>14, <1>15, <1>16, <1>17, <1>18, <1>19, <1>20, <1>21, <1>22, <1>23, <1>24, <1>25, <1>26, <1>27, <1>28, <1>29, <1>30, <1>31, <1>32, <1>33
  DEF Serve, Generate, Nightly, Position, Transfer, Reconcile

\* Every step keeps what a session goes on with.
LEMMA TransitInductive ==
  ASSUME TypeOK, PendingWrites, InTransit, NEW s \in Session, Serve(s) \/ Crash(s)
  PROVE  InTransit'
<1>. USE DEF TypeOK
<1>. DEFINE OK(t) ==
       /\ seen[t] \cap Fresh = {}
       /\ pc[t] = "delete_one" => \E id \in PlanId : seen[t] = {id}
       /\ Generating(t) => req[t].scope \in Scope
       /\ pc[t] = "erase_day" =>
            req[t].force /\ \A id \in seen[t] : plan[id].cell \in req[t].scope
       /\ pc[t] = "build" => \A id \in held[t] : plan[id].cell \in req[t].scope
       /\ (pc[t] \in {"next_housing", "journal"} /\ held[t] # {}) =>
            job[t].running /\ \E S \in Scope : \A id \in held[t] : plan[id].cell \in S
       /\ (Generating(t) \/ pc[t] = "next_housing") /\ held[t] # {} => req[t].force
<1>0. /\ \A t \in Session : OK(t) /\ held[t] \subseteq Live
      /\ \A id \in Live : id \in PlanId \ Fresh
  BY DEF InTransit, PendingWrites, Live, Fresh
<1>1. /\ Fresh' \subseteq Fresh
      /\ \A id \in PlanId \ Fresh : plan'[id].cell = plan[id].cell
  BY RowsStay
<1>2. ASSUME NEW t \in Session, t # s PROVE OK(t)'
  <2>1. /\ pc'[t] = pc[t]
        /\ req'[t] = req[t]
        /\ seen'[t] = seen[t]
        /\ held'[t] = held[t]
        /\ job'[t] = job[t]
    BY <1>2, OthersRest
  <2>2. \A id \in seen[t] \cup held[t] : plan'[id].cell = plan[id].cell
    BY <1>0, <1>1
  <2>3. seen'[t] \cap Fresh' = {}
    BY <2>1, <1>0, <1>1
  <2>4. pc'[t] = "delete_one" => \E id \in PlanId : seen'[t] = {id}
    <3>1. pc[t] = "delete_one" => \E id \in PlanId : seen[t] = {id}
      BY DEF InTransit
    <3>. QED  BY <3>1, <2>1
  <2>5. Generating(t)' => req'[t].scope \in Scope
    BY <2>1, <1>0 DEF Generating
  <2>6. pc'[t] = "erase_day" =>
          req'[t].force /\ \A id \in seen'[t] : plan'[id].cell \in req'[t].scope
    BY <2>1, <2>2, <1>0
  <2>7. pc'[t] = "build" => \A id \in held'[t] : plan'[id].cell \in req'[t].scope
    BY <2>1, <2>2, <1>0
  <2>8. (pc'[t] \in {"next_housing", "journal"} /\ held'[t] # {}) =>
          job'[t].running /\ \E S \in Scope : \A id \in held'[t] : plan'[id].cell \in S
    <3>. SUFFICES ASSUME pc[t] \in {"next_housing", "journal"}, held[t] # {}
                  PROVE  job[t].running /\ \E S \in Scope : \A id \in held[t] : plan'[id].cell \in S
      BY <2>1
    <3>1. PICK S \in Scope : \A id \in held[t] : plan[id].cell \in S
      BY <1>0
    <3>. QED  BY <3>1, <2>2, <1>0
  <2>9. (Generating(t)' \/ pc'[t] = "next_housing") /\ held'[t] # {} => req'[t].force
    BY <2>1, <1>0 DEF Generating
  <2>. QED  BY <2>3, <2>4, <2>5, <2>6, <2>7, <2>8, <2>9
<1>3. OK(s)'
  <2>0. Carries(s)
    BY CarryStep
  <2>1. seen'[s] \cap Fresh' = {}
    BY <2>0, <1>0, <1>1 DEF Carries
  <2>2. pc'[s] = "delete_one" => \E id \in PlanId : seen'[s] = {id}
    <3>1. pc[s] = "delete_one" => \E id \in PlanId : seen[s] = {id}
      BY DEF InTransit
    <3>. QED  BY <2>0, <3>1 DEF Carries
  <2>3. Generating(s)' => req'[s].scope \in Scope
    BY <2>0, <1>0 DEF Carries, Generating
  <2>4. pc'[s] = "erase_day" =>
          req'[s].force /\ \A id \in seen'[s] : plan'[id].cell \in req'[s].scope
    BY <2>0, <1>0 DEF Carries
  <2>5. pc'[s] = "build" => \A id \in held'[s] : plan'[id].cell \in req'[s].scope
    <3>1. CASE pc[s] = "search"
      BY <3>1, PendingStep DEF Keeps, Dooms, Locks, WritePoint, DeletePoint, UpdatePoint
    <3>2. CASE pc[s] = "erase_day" /\ Dooms(s)
      BY <3>2, <1>0 DEF Dooms, PendingWrites, WritePoint, DeletePoint
    <3>. QED  BY <2>0, <3>1, <3>2 DEF Carries
  <2>6. (pc'[s] \in {"next_housing", "journal"} /\ held'[s] # {}) =>
          job'[s].running /\ \E S \in Scope : \A id \in held'[s] : plan'[id].cell \in S
    <3>. SUFFICES ASSUME pc'[s] \in {"next_housing", "journal"}, held'[s] # {}
                  PROVE  /\ job'[s].running
                         /\ \E S \in Scope : \A id \in held'[s] : plan'[id].cell \in S
      OBVIOUS
    <3>1. Keeps(s)
      BY PendingStep DEF Dooms, Locks, WritePoint, DeletePoint, UpdatePoint
    <3>2. pc[s] \in {"build", "next_housing", "journal"}
      BY <3>1 DEF Keeps
    <3>3. CASE pc[s] = "build"
      BY <3>1, <3>3, <1>0 DEF Keeps, Generating
    <3>4. CASE pc[s] \in {"next_housing", "journal"}
      BY <3>1, <3>4, <1>0 DEF Keeps
    <3>. QED  BY <3>2, <3>3, <3>4
  <2>7. (Generating(s)' \/ pc'[s] = "next_housing") /\ held'[s] # {} => req'[s].force
    <3>1. CASE Keeps(s)
      BY <3>1, <1>0 DEF Keeps, Generating
    <3>2. CASE Dooms(s)
      BY <3>2, <1>0 DEF Dooms, Generating
    <3>3. CASE Locks(s)
      BY <3>3, <1>0 DEF Locks, Generating, WritePoint, DeletePoint, UpdatePoint
    <3>. QED  BY <3>1, <3>2, <3>3, PendingStep
  <2>. QED  BY <2>1, <2>2, <2>3, <2>4, <2>5, <2>6, <2>7
<1>. QED  BY <1>2, <1>3 DEF InTransit

\* The invariant holds initially and every step keeps it.
THEOREM Invariance == Spec => []IInv
<1>1. Init => IInv
  BY DEF Init, IInv, TypeOK, PendingWrites, InTransit, ReferencedRowsStay, Generating,
    NoReq, NoJob, Point, Status, Live, Fresh
<1>2. IInv /\ [Next]_vars => IInv'
  <2>. SUFFICES ASSUME IInv, [Next]_vars PROVE IInv'
    OBVIOUS
  <2>1. TypeOK'
    BY Typing DEF IInv
  <2>2. CASE UNCHANGED vars
    BY <2>1, <2>2 DEF vars, IInv, PendingWrites, InTransit, ReferencedRowsStay, Generating,
      Live, Fresh
  <2>3. CASE Next
    <3>1. PICK s \in Session : Serve(s) \/ Crash(s)
      BY <2>3 DEF Next
    <3>2. PendingWrites'
      BY <3>1, PendingInductive DEF IInv
    <3>3. InTransit'
      BY <3>1, TransitInductive DEF IInv
    <3>4. ReferencedRowsStay'
      BY <3>1, RefsInductive DEF IInv
    <3>. QED  BY <2>1, <3>2, <3>3, <3>4 DEF IInv
  <2>. QED  BY <2>2, <2>3
<1>. QED  BY <1>1, <1>2, PTL DEF Spec

\* Every variable keeps its type, whatever the sessions interleave.
THEOREM TypeCorrect == Spec => []TypeOK
<1>1. IInv => TypeOK
  BY DEF IInv
<1>. QED  BY <1>1, Invariance, PTL

\* Two requests deadlock only over two rows that both want, or with a
\* reconciliation.
THEOREM LockSafety == Spec => []LockOrder
<1>1. IInv => LockOrder
  <2>. SUFFICES ASSUME IInv, NEW s \in Session, NEW t \in Session, s # t,
                       WaitsFor(s, t), WaitsFor(t, s),
                       pc[s] # "results", pc[t] # "results"
                PROVE  \E i, j \in seen[s] \cap seen[t] : i # j
    BY DEF LockOrder
  <2>. PendingWrites
    BY DEF IInv
  <2>1. dropped[s] = {} /\ dropped[t] = {}
    BY DEF PendingWrites
  <2>2. /\ pc[s] \in WritePoint \cup {"confirm_one"} /\ seen[s] \cap held[t] # {}
        /\ pc[t] \in WritePoint \cup {"confirm_one"} /\ seen[t] \cap held[s] # {}
    BY <2>1 DEF WaitsFor
  <2>3. pc[s] \in WritePoint /\ pc[t] \in WritePoint
    BY <2>2 DEF PendingWrites, HoldPoint, WritePoint, DeletePoint, UpdatePoint
  <2>4. held[s] \subseteq seen[s] /\ held[t] \subseteq seen[t] /\ held[s] \cap held[t] = {}
    BY <2>3 DEF PendingWrites
  <2>5. PICK i \in seen[s] \cap held[t] : TRUE
    BY <2>2
  <2>6. PICK j \in seen[t] \cap held[s] : TRUE
    BY <2>2
  <2>. QED  BY <2>4, <2>5, <2>6
<1>. QED  BY <1>1, Invariance, PTL

\* Reconciliation results never point at a position that is gone or going.
THEOREM ReferenceSafety == Spec => []ReferencedRowsStay
<1>1. IInv => ReferencedRowsStay
  BY DEF IInv
<1>. QED  BY <1>1, Invariance, PTL

-----------------------------------------------------------------------------
(* The interleaved requests implement the board of whole operations.        *)

\* Marking no row changes nothing.
LEMMA MarkedNothing == ASSUME plan \in Table, NEW st PROVE Marked({}, st) = plan
BY DEF Marked, Table

\* A step of the sessions is a step of the board, or leaves it alone.
LEMMA BoardStep == IInv /\ [Next]_vars => [Board!Next]_plan
<1>. SUFFICES ASSUME IInv, [Next]_vars PROVE Board!Next \/ UNCHANGED plan
  OBVIOUS
<1>0. /\ Board!Live = Live
      /\ \A ids, st : Board!With(ids, st) = Marked(ids, st)
      /\ plan \in Table
  BY DEF Board!Live, Live, Board!With, Marked, IInv, TypeOK, Table
<1>1. CASE UNCHANGED vars
  BY <1>1 DEF vars
<1>2. ASSUME NEW s \in Session, Serve(s) \/ Crash(s) PROVE Board!Next \/ UNCHANGED plan
  <2>. TypeOK /\ PendingWrites /\ InTransit
    BY DEF IInv
  <2>1. CASE Publishes(s)
    <3>1. CASE held[s] = {}
      BY <2>1, <3>1, <1>0, MarkedNothing DEF Publishes, Published
    <3>2. CASE held[s] # {}
      <4>1. PICK S \in Scope : \A id \in held[s] : plan[id].cell \in S
        BY <2>1, <3>2 DEF Publishes, InTransit
      <4>. DEFINE old == held[s] \cap Live
      <4>2. old \in SUBSET {id \in Live : plan[id].cell \in S}
        BY <4>1
      <4>3. plan' = [id \in PlanId |-> Marked(old, "deleted")[id]]
        BY <2>1 DEF Publishes, Published, Marked
      <4>4. Board!Regenerate
        <5>1. {} \in SUBSET {id \in PlanId : plan[id] = NoRow}
          OBVIOUS
        <5>2. PICK at : at \in [{} -> S]
          <6>1. [id \in {} |-> id] \in [{} -> S]
            OBVIOUS
          <6>. QED  BY <6>1
        <5>3. plan' = Board!Replaced(old, at)
          BY <4>3, <5>2, <1>0 DEF Board!Replaced
        <5>. HIDE DEF old
        <5>. QED  BY <4>1, <4>2, <5>1, <5>2, <5>3, <1>0 DEF Board!Regenerate
      <4>. QED  BY <4>4 DEF Board!Next
    <3>. QED  BY <3>1, <3>2
  <2>2. CASE Advances(s)
    <3>1. Board!Advance
      BY <2>2, <1>0 DEF Advances, Board!Advance
    <3>. QED  BY <3>1 DEF Board!Next
  <2>3. CASE Deletes(s)
    <3>1. PICK id \in PlanId : seen[s] = {id}
      BY <2>3 DEF Deletes, InTransit
    <3>2. CASE id \in Live
      <4>1. seen[s] \cap Live = {id}
        BY <3>1, <3>2
      <4>2. Board!Remove
        BY <2>3, <3>2, <4>1, <1>0 DEF Deletes, Board!Remove
      <4>. QED  BY <4>2 DEF Board!Next
    <3>3. CASE id \notin Live
      <4>1. seen[s] \cap Live = {}
        BY <3>1, <3>3
      <4>. QED  BY <2>3, <4>1, <1>0, MarkedNothing DEF Deletes
    <3>. QED  BY <3>2, <3>3
  <2>4. CASE Inserts(s)
    <3>1. PICK ids \in SUBSET Fresh : \E at \in [ids -> req[s].scope] :
            /\ \A i, j \in ids : at[i] = at[j] => i = j
            /\ plan' = Inserted(s, at)
      BY <2>4 DEF Inserts
    <3>2. PICK at \in [ids -> req[s].scope] :
            /\ \A i, j \in ids : at[i] = at[j] => i = j
            /\ plan' = Inserted(s, at)
      BY <3>1
    <3>. DEFINE old == held[s] \cap Live
    <3>3. /\ req[s].scope \in Scope
          /\ old \in SUBSET {id \in Live : plan[id].cell \in req[s].scope}
      BY <2>4 DEF Inserts, InTransit, Generating
    <3>4. ids \in SUBSET {id \in PlanId : plan[id] = NoRow}
      BY DEF Fresh
    <3>5. plan' = Board!Replaced(old, at)
      BY <3>2, <1>0 DEF Inserted, Published, Board!Replaced
    <3>. HIDE DEF old
    <3>6. Board!Regenerate
      BY <3>2, <3>3, <3>4, <3>5, <1>0 DEF Board!Regenerate
    <3>. QED  BY <3>6 DEF Board!Next
  <2>5. CASE Adds(s)
    <3>1. Board!Add
      BY <2>5 DEF Adds, Board!Add, Fresh
    <3>. QED  BY <3>1 DEF Board!Next
  <2>. QED  BY <1>2, <2>1, <2>2, <2>3, <2>4, <2>5, PlanStep
<1>. QED  BY <1>1, <1>2 DEF Next

\* Whatever the requests interleave, the table plan_items changes as if each
\* addition, confirmation, handover, removal and regeneration were one step.
THEOREM Refinement == Spec => BoardSpec
<1>1. Init => Board!Init
  BY DEF Init, Board!Init
<1>2. IInv /\ [Next]_vars => [Board!Next]_plan
  BY BoardStep
<1>. QED  BY <1>1, <1>2, Invariance, PTL DEF Spec, BoardSpec, Board!Spec

-----------------------------------------------------------------------------
(* How positions leave the table.                                           *)

\* A position leaves only through the delete request that loaded it or through
\* a generation that was told to force.
THEOREM RemovalSafety == Spec => RemovalIsAskedFor
<1>. DEFINE Asked == \A id \in PlanId : Leaves(id) =>
       \E s \in Session : \/ pc[s] = "delete_one" /\ id \in seen[s]
                          \/ req[s].force /\ id \in held[s]
<1>1. IInv /\ [Next]_vars => [Asked]_vars
  <2>. SUFFICES ASSUME IInv, Next, NEW id \in PlanId, Leaves(id)
                PROVE  \E s \in Session : \/ pc[s] = "delete_one" /\ id \in seen[s]
                                          \/ req[s].force /\ id \in held[s]
    OBVIOUS
  <2>1. PICK s \in Session : Serve(s) \/ Crash(s)
    BY DEF Next
  <2>2. id \in Live /\ id \notin Live'
    BY DEF Leaves, Live
  <2>3. \/ id \in held[s] /\ pc[s] \in {"journal", "next_housing", "build"}
        \/ id \in seen[s] /\ pc[s] = "delete_one"
    BY <2>1, <2>2, LeavingRows DEF IInv, Publishes, Inserts, Deletes
  <2>4. CASE id \in seen[s] /\ pc[s] = "delete_one"
    BY <2>4
  <2>5. CASE id \in held[s] /\ pc[s] \in {"journal", "next_housing", "build"}
    BY <2>5 DEF IInv, InTransit, Generating
  <2>. QED  BY <2>3, <2>4, <2>5
<1>. QED  BY <1>1, Invariance, PTL DEF Spec, RemovalIsAskedFor

\* A generate request takes old positions away only in the step that puts new
\* ones of its scope in their place.
THEOREM SwapSafety == Spec => SwapIsAtomic
<1>. DEFINE Swap == \A s \in Session :
       (Generating(s) /\ ~job[s].running /\ pc'[s] # pc[s]) =>
         \A id \in PlanId : Leaves(id) =>
           \E n \in Fresh : plan'[n] # NoRow /\ plan'[n].cell \in req[s].scope
<1>1. IInv /\ [Next]_vars => [Swap]_vars
  <2>. SUFFICES ASSUME IInv, Next, NEW s \in Session,
                       Generating(s), ~job[s].running, pc'[s] # pc[s],
                       NEW id \in PlanId, Leaves(id)
                PROVE  \E n \in Fresh : plan'[n] # NoRow /\ plan'[n].cell \in req[s].scope
    OBVIOUS
  <2>. TypeOK /\ PendingWrites /\ InTransit
    BY DEF IInv
  <2>1. PICK u \in Session : Serve(u) \/ Crash(u)
    BY DEF Next
  <2>2. u = s
    BY <2>1, OthersRest
  <2>3. id \in Live /\ id \notin Live'
    BY DEF Leaves, Live
  <2>4. id \in held[s] /\ (Publishes(s) \/ Inserts(s))
    BY <2>1, <2>2, <2>3, LeavingRows DEF Deletes, Generating
  <2>5. ~Publishes(s)
    BY <2>4 DEF Publishes, InTransit, Generating
  <2>6. PICK ids \in SUBSET Fresh : \E at \in [ids -> req[s].scope] :
          ids # {} /\ plan' = Inserted(s, at)
    BY <2>4, <2>5 DEF Inserts
  <2>7. PICK at \in [ids -> req[s].scope] : ids # {} /\ plan' = Inserted(s, at)
    BY <2>6
  <2>8. PICK n \in ids : TRUE
    BY <2>7
  <2>9. n \in Fresh /\ n \in PlanId
    BY <2>8 DEF Fresh
  <2>10. plan'[n] = [cell |-> at[n], source |-> "auto", status |-> "draft"]
    BY <2>7, <2>8, <2>9 DEF Inserted
  <2>11. at[n] \in req[s].scope /\ req[s].scope \in SUBSET Cell
    BY <2>7, <2>8 DEF TypeOK
  <2>12. plan'[n] \in Row
    BY <2>10, <2>11 DEF Row, Status
  <2>. QED  BY <2>9, <2>10, <2>11, <2>12, NoRowAssumption
<1>. QED  BY <1>1, Invariance, PTL DEF Spec, SwapIsAtomic

-----------------------------------------------------------------------------
(* One generated position per cell.                                         *)

\* The generated positions that are on the board after a step were there before
\* it, or the step is an INSERT that put them there, one in a cell.
LEMMA AutoStep ==
  ASSUME TypeOK, NEW s \in Session, Serve(s) \/ Crash(s)
  PROVE  \/ \A id \in Live' : plan'[id].source = "auto" =>
               id \in Live /\ plan[id].source = "auto" /\ plan'[id].cell = plan[id].cell
         \/ /\ Inserts(s)
            /\ \E ids \in SUBSET Fresh :
                 /\ Live' = (Live \ held[s]) \cup ids
                 /\ \A i \in ids : plan'[i].cell \in req[s].scope
                 /\ \A i, j \in ids : plan'[i].cell = plan'[j].cell => i = j
<1>. plan \in Table /\ req[s].scope \in SUBSET Cell
  BY DEF TypeOK, Table
<1>0. \A id \in Live : /\ id \in PlanId \ Fresh
                       /\ plan'[id].cell = plan[id].cell
                       /\ plan'[id].source = plan[id].source
  BY RowsStay DEF Live, Fresh
<1>1. CASE UNCHANGED plan
  BY <1>1 DEF Live
<1>2. CASE Publishes(s)
  <2>1. Live' \subseteq Live
    BY <1>2, MarkedLive DEF Publishes, Published, Status
  <2>. QED  BY <2>1, <1>0
<1>3. CASE Advances(s)
  <2>1. Live' \subseteq Live
    BY <1>3, MarkedLive DEF Advances, Status
  <2>. QED  BY <2>1, <1>0
<1>4. CASE Deletes(s)
  <2>1. Live' \subseteq Live
    BY <1>4, MarkedLive DEF Deletes, Status
  <2>. QED  BY <2>1, <1>0
<1>5. CASE Inserts(s)
  <2>1. PICK ids \in SUBSET Fresh : \E at \in [ids -> req[s].scope] :
          (\A i, j \in ids : at[i] = at[j] => i = j) /\ plan' = Inserted(s, at)
    BY <1>5 DEF Inserts
  <2>2. PICK at \in [ids -> req[s].scope] :
          (\A i, j \in ids : at[i] = at[j] => i = j) /\ plan' = Inserted(s, at)
    BY <2>1
  <2>3. Live' = (Live \ held[s]) \cup ids
    BY <2>2, InsertedTable
  <2>4. ids \subseteq PlanId
    BY DEF Fresh
  <2>5. \A i \in ids : plan'[i].cell = at[i]
    BY <2>2, <2>4 DEF Inserted
  <2>6. /\ \A i \in ids : plan'[i].cell \in req[s].scope
        /\ \A i, j \in ids : plan'[i].cell = plan'[j].cell => i = j
    BY <2>2, <2>5
  <2>. QED  BY <2>3, <2>6, <1>5
<1>6. CASE Adds(s)
  <2>1. PICK n \in Fresh, c \in Cell :
          plan' = [plan EXCEPT ![n] = [cell |-> c, source |-> "manual", status |-> "draft"]]
    BY <1>6 DEF Adds
  <2>2. n \in PlanId /\ plan'[n].source = "manual"
    BY <2>1 DEF Fresh, Table
  <2>3. \A id \in Live' : id = n \/ id \in Live
    BY <2>1 DEF Live, Table
  <2>. QED  BY <2>2, <2>3, <1>0
<1>. QED  BY <1>1, <1>2, <1>3, <1>4, <1>5, <1>6, PlanStep

\* What a generation is about to replace it has just found, or has deleted, and
\* one that begins notes whom it meets.
Clears(s) ==
  /\ pc'[s] = "erase_day" =>
       /\ UNCHANGED <<plan, req>>
       /\ seen'[s] = LiveIn(req[s].scope) \/ (pc[s] = "erase_day" /\ seen'[s] = seen[s])
  /\ pc'[s] = "build" =>
       /\ UNCHANGED <<plan, req>>
       /\ \/ LiveIn(req[s].scope) = {}
          \/ pc[s] = "erase_day" /\ HasRows(s) /\ held'[s] = held[s]
  /\ \/ Meetings
     \/ /\ UNCHANGED met
        /\ Generating(s)' => Generating(s) /\ UNCHANGED req

\* Every step clears so.
LEMMA ClearStep ==
  ASSUME TypeOK, NEW s \in Session, Serve(s) \/ Crash(s)
  PROVE  Clears(s)
<1>. USE DEF TypeOK, Goto, Clears, Generating
<1>0. ASSUME Released(s), UNCHANGED met PROVE Clears(s)
  BY <1>0 DEF Released
<1>1. CASE \E S \in Scope, force \in BOOLEAN : GenerateAsk(s, S, force)
  BY <1>1, <1>0 DEF GenerateAsk, Receives
<1>2. CASE GenerateJournal(s)
  BY <1>2, <1>0 DEF GenerateJournal
<1>3. CASE GenerateSearch(s)
  BY <1>3, <1>0 DEF GenerateSearch, AfterGenerate
<1>4. CASE GenerateErase(s)
  BY <1>4, <1>0 DEF GenerateErase
<1>5. CASE GenerateFails(s)
  BY <1>5, <1>0 DEF GenerateFails, Abort
<1>6. CASE GenerateInsert(s)
  BY <1>6, <1>0 DEF GenerateInsert, AfterGenerate
<1>7. CASE GenerateNothing(s)
  BY <1>7, <1>0 DEF GenerateNothing, AfterGenerate
<1>8. CASE NightlyStart(s)
  BY <1>8, <1>0 DEF NightlyStart, Receives
<1>9. CASE \E h \in Housing : NightlySync(s, h)
  BY <1>9, <1>0 DEF NightlySync
<1>10. CASE NightlySkip(s)
  BY <1>10, <1>0 DEF NightlySkip
<1>11. CASE NightlyDone(s)
  BY <1>11, <1>0 DEF NightlyDone
<1>12. CASE \E c \in Cell : AddCheck(s, c)
  BY <1>12, <1>0 DEF AddCheck
<1>13. CASE \E id \in PlanId : JournalItem(s, id)
  BY <1>13, <1>0 DEF JournalItem, JournalAs
<1>14. CASE \E id \in PlanId : ConfirmLoad(s, id)
  BY <1>14, <1>0 DEF ConfirmLoad
<1>15. CASE \E id \in PlanId : DeleteLoad(s, id)
  BY <1>15, <1>0 DEF DeleteLoad
<1>16. CASE \E ids \in SUBSET PlanId : ConfirmItemsSearch(s, ids)
  BY <1>16, <1>0 DEF ConfirmItemsSearch
<1>17. CASE \E ids \in SUBSET PlanId : DeleteItemsSearch(s, ids)
  BY <1>17, <1>0 DEF DeleteItemsSearch
<1>18. CASE AddCreate(s)
  BY <1>18, <1>0 DEF AddCreate
<1>19. CASE ConfirmUpdate(s)
  BY <1>19, <1>0 DEF ConfirmUpdate
<1>20. CASE ConfirmItemsUpdate(s)
  BY <1>20, <1>0 DEF ConfirmItemsUpdate
<1>21. CASE UpdateFails(s)
  BY <1>21, <1>0 DEF UpdateFails, Abort
<1>22. CASE DeleteCommit(s)
  BY <1>22, <1>0 DEF DeleteCommit
<1>23. CASE DeleteItemsErase(s)
  BY <1>23, <1>0 DEF DeleteItemsErase
<1>24. CASE DeleteRefused(s)
  BY <1>24, <1>0 DEF DeleteRefused, Abort
<1>25. CASE \E S \in Scope \cup {Cell} : TransferSearch(s, S)
  BY <1>25, <1>0 DEF TransferSearch
<1>26. CASE TransferUpdate(s)
  BY <1>26, <1>0 DEF TransferUpdate
<1>27. CASE \E h \in Housing : ReconcileRead(s, h)
  BY <1>27, <1>0 DEF ReconcileRead
<1>28. CASE ReconcileWrite(s)
  BY <1>28 DEF ReconcileWrite
<1>29. CASE Close(s)
  BY <1>29, <1>0 DEF Close
<1>30. CASE Crash(s)
  BY <1>30, <1>0 DEF Crash
<1>31. CASE LockRow(s)
  BY <1>31 DEF LockRow, WritePoint, DeletePoint, UpdatePoint
<1>32. CASE ReconcileErase(s)
  BY <1>32 DEF ReconcileErase
<1>33. CASE ReconcileFails(s)
  BY <1>33, <1>0 DEF ReconcileFails, Abort
<1>. QED  BY <1>1, <1>2, <1>3, <1>4, <1>5, <1>6, <1>7, <1>8, <1>9, <1>10, <1>11, <1>12, <1>13, <1>14, <1>15, <1>16, <1>17, <1>18, <1>19, <1>20, <1>21, <1>22, <1>23, <1>24, <1>25, <1>26, <1>27, <1>28, <1>29, <1>30, <1>31, <1>32, <1>33
  DEF Serve, Generate, Nightly, Position, Transfer, Reconcile

\* A generation that begins notes whom it meets; no other step brings two
\* generations together, or forgets a meeting.
LEMMA MeetingsNoted ==
  ASSUME TypeOK, TypeOK', NEW s \in Session, Serve(s) \/ Crash(s), Contended \subseteq met
  PROVE  met \subseteq met' /\ Contended' \subseteq met'
<1>1. CASE Meetings
  BY <1>1 DEF Meetings
<1>2. CASE UNCHANGED met /\ (Generating(s)' => Generating(s) /\ UNCHANGED req)
  <2>1. \A t \in Session : Generating(t)' => Generating(t) /\ req'[t] = req[t]
    BY <1>2, OthersRest DEF Generating
  <2>. QED  BY <1>2, <2>1 DEF Contended
<1>. QED  BY <1>1, <1>2, ClearStep DEF Clears

\* A step keeps what is about to be replaced cleared, but for the cells where
\* generations have met, and so keeps one generated position in every other.
LEMMA ClearedInductive ==
  ASSUME IInv, DayIsCleared, OneAutoPerCell, TypeOK',
         NEW s \in Session, Serve(s) \/ Crash(s)
  PROVE  DayIsCleared' /\ OneAutoPerCell'
<1>. DEFINE Due(t, id) == /\ plan[id].source = "auto"
                         /\ plan[id].cell \in req[t].scope \cap Watched
                         /\ plan[id].cell \notin met
            OK(t) == \A id \in Live : Due(t, id) =>
                       /\ pc[t] = "erase_day" => id \in seen[t]
                       /\ pc[t] = "build" => id \in held[t]
<1>. TypeOK /\ PendingWrites /\ InTransit
  BY DEF IInv
<1>0. /\ \A t \in Session : OK(t)
      /\ Contended \subseteq met
      /\ met \subseteq met'
  BY MeetingsNoted DEF DayIsCleared, AutoIn, LiveIn, Unmet
<1>1. Contended' \subseteq met'
  BY MeetingsNoted, <1>0
<1>2. \A id \in Live : /\ plan'[id].cell = plan[id].cell
                       /\ plan'[id].source = plan[id].source
  BY RowsStay DEF Live, Fresh
<1>3. ASSUME NEW t \in Session, t # s PROVE OK(t)'
  <2>1. /\ pc'[t] = pc[t]
        /\ req'[t] = req[t]
        /\ seen'[t] = seen[t]
        /\ held'[t] = held[t]
    BY <1>3, OthersRest
  <2>2. ASSUME NEW id \in Live', Due(t, id)', pc[t] \in {"erase_day", "build"}
        PROVE  id \in Live /\ Due(t, id)
    <3>1. CASE id \in Live
      BY <3>1, <2>1, <2>2, <1>0, <1>2
    <3>2. CASE id \notin Live
      <4>1. Inserts(s) /\ plan'[id].cell \in req[s].scope
        BY <3>2, <2>2, AutoStep
      <4>2. plan'[id].cell \in Contended
        BY <4>1, <2>1, <2>2, <1>3 DEF Contended, Generating, Inserts, TypeOK
      <4>. QED  BY <4>2, <2>2, <1>0
    <3>. QED  BY <3>1, <3>2
  <2>. QED  BY <2>1, <2>2, <1>0
<1>4. OK(s)'
  <2>1. /\ pc'[s] = "erase_day" =>
             /\ UNCHANGED <<plan, req>>
             /\ seen'[s] = LiveIn(req[s].scope) \/ (pc[s] = "erase_day" /\ seen'[s] = seen[s])
        /\ pc'[s] = "build" =>
             /\ UNCHANGED <<plan, req>>
             /\ \/ LiveIn(req[s].scope) = {}
                \/ pc[s] = "erase_day" /\ HasRows(s) /\ held'[s] = held[s]
    BY ClearStep DEF Clears
  <2>2. UNCHANGED <<plan, req>> =>
          \A id \in Live' : Due(s, id)' => /\ id \in Live
                                         /\ Due(s, id)
                                         /\ id \in LiveIn(req[s].scope)
    BY <1>0 DEF LiveIn, Live
  <2>. QED  BY <2>1, <2>2, <1>0 DEF HasRows
<1>5. OneAutoPerCell'
  <2>. SUFFICES ASSUME NEW i \in Live', NEW j \in Live',
                       plan'[i].source = "auto", plan'[j].source = "auto",
                       plan'[i].cell = plan'[j].cell, plan'[i].cell \in Watched \ met'
                PROVE  i = j
    BY DEF OneAutoPerCell, AutoIn, LiveIn
  <2>0. CASE i \in Live /\ j \in Live
    BY <2>0, <1>0, <1>2 DEF OneAutoPerCell, AutoIn, LiveIn
  <2>1. CASE \A id \in Live' : plan'[id].source = "auto" =>
               id \in Live /\ plan[id].source = "auto" /\ plan'[id].cell = plan[id].cell
    BY <2>0, <2>1
  <2>2. ASSUME Inserts(s), NEW ids \in SUBSET Fresh,
               Live' = (Live \ held[s]) \cup ids,
               \A k \in ids : plan'[k].cell \in req[s].scope,
               \A k, l \in ids : plan'[k].cell = plan'[l].cell => k = l
        PROVE  i = j
    <3>2. \A id \in Live \ held[s] :
            plan'[id].source = "auto" => plan'[id].cell \notin (req[s].scope \cap Watched) \ met
      BY <2>2, <1>0, <1>2 DEF Inserts
    <3>3. CASE i \in ids /\ j \in ids
      BY <3>3, <2>2
    <3>4. CASE i \in ids /\ j \notin ids
      BY <3>4, <3>2, <2>2, <1>0
    <3>5. CASE i \notin ids /\ j \in ids
      BY <3>5, <3>2, <2>2, <1>0
    <3>6. CASE i \notin ids /\ j \notin ids
      BY <3>6, <2>2, <2>0
    <3>. QED  BY <3>3, <3>4, <3>5, <3>6
  <2>. QED  BY <2>1, <2>2, AutoStep
<1>6. DayIsCleared'
  BY <1>1, <1>3, <1>4 DEF DayIsCleared, AutoIn, LiveIn, Unmet
<1>. QED  BY <1>5, <1>6

\* A cell holds two generated positions only where two generations met: not
\* through the other requests, nor through a crash at any statement.
THEOREM OneGeneratedPosition == Spec => []OneAutoPerCell
<1>1. Init => DayIsCleared /\ OneAutoPerCell
  BY DEF Init, DayIsCleared, Unmet, Contended, OneAutoPerCell, Generating, AutoIn, LiveIn, Live
<1>2. IInv /\ IInv' /\ DayIsCleared /\ OneAutoPerCell /\ [Next]_vars
        => (DayIsCleared /\ OneAutoPerCell)'
  <2>. SUFFICES ASSUME IInv, IInv', DayIsCleared, OneAutoPerCell, [Next]_vars
                PROVE  DayIsCleared' /\ OneAutoPerCell'
    OBVIOUS
  <2>1. CASE UNCHANGED vars
    BY <2>1 DEF vars, DayIsCleared, Unmet, Contended, OneAutoPerCell, Generating,
      Live, LiveIn, AutoIn
  <2>2. CASE Next
    BY <2>2, ClearedInductive DEF Next, IInv
  <2>. QED  BY <2>1, <2>2
<1>. QED  BY <1>1, <1>2, Invariance, PTL DEF Spec

=============================================================================
