---------------------------- MODULE TechSequence ----------------------------
(***************************************************************************)
(* The technological sequence of one housing (tech_sequence_items): rows   *)
(* for the housing and for single sections, kept in step with the calendar *)
(* plans of Raport by sync_tech_sequence (services/sync/service.py), while *)
(* users add rows with volumes of their own and delete rows.               *)
(*                                                                         *)
(* A sync goes scope by scope; a step is the reading of a plan, the upsert *)
(* of its rows, the search for stale rows, or their deletion.              *)
(***************************************************************************)
EXTENDS FiniteSets

CONSTANTS
  Section,
  Work,
  Task,      \* tasks of Raport's plans
  WorkOf,    \* WorkOf[t]: the work of a task; several may have the same
  Plans,     \* the plans Raport may hold: a set of [tasks, edges]
  Template,  \* the default plan-template
  Proc,      \* callers of sync_tech_sequence
  None       \* NULL; as a scope, the whole housing

Scope == Section \cup {None}

\* The two lists of predecessors: finish-to-start and start-to-start.
Link == {"depends_on", "depends_on_ss"}

ASSUME TaskAssumption == WorkOf \in [Task -> Work]
ASSUME PlanAssumption ==
  /\ Template \in Plans /\ None \notin Plans
  /\ \A P \in Plans : P.tasks \subseteq Task /\ P.edges \subseteq P.tasks \X P.tasks \X Link
ASSUME ScopeAssumption == None \notin Section

Row == [scope : Scope, work : Work, after : SUBSET (Work \X Link),
        source : {"raport", "manual"}, volume : BOOLEAN]

VARIABLES
  raport,   \* Raport's calendar plans, of the housing and of its sections
  known,    \* the works that have a row here
  rows,     \* tech_sequence_items
  pc,       \* what each sync does next
  todo,     \* the scopes it has not come to
  at,       \* the scope it is at
  got,      \* the plan it has read
  fresh,    \* the works it has stored rows of
  stale,    \* the keys of the rows it is going to delete
  clean,    \* history: nothing has been stored since it began that Raport does not hold
  match,    \* history: such a sync has ended, and nothing has happened since
  entered   \* history: the keys under which a user has entered volumes that
            \* no sync is entitled to remove

local == <<pc, todo, at, got, fresh, stale>>
vars  == <<raport, known, rows, local, clean, match, entered>>

Key(r) == <<r.scope, r.work>>

TypeOK ==
  /\ raport \in [Scope -> Plans \cup {None}]
  /\ known \subseteq Work
  /\ rows \subseteq Row /\ \A r, u \in rows : Key(r) = Key(u) => r = u
  /\ pc \in [Proc -> {"idle", "load", "store", "find", "drop"}]
  /\ todo \in [Proc -> SUBSET Scope] /\ at \in [Proc -> Scope]
  /\ got \in [Proc -> Plans \cup {None}]
  /\ fresh \in [Proc -> SUBSET Work]
  /\ stale \in [Proc -> SUBSET (Scope \X Work)]
  /\ clean \in [Proc -> BOOLEAN] /\ match \in BOOLEAN
  /\ entered \subseteq Scope \X Work

Init ==
  /\ raport \in [Scope -> Plans \cup {None}]
  /\ known \in SUBSET Work
  /\ rows = {}
  /\ pc = [p \in Proc |-> "idle"]
  /\ todo = [p \in Proc |-> {}] /\ at = [p \in Proc |-> None]
  /\ got = [p \in Proc |-> None] /\ fresh = [p \in Proc |-> {}]
  /\ stale = [p \in Proc |-> {}]
  /\ clean = [p \in Proc |-> FALSE] /\ match = FALSE /\ entered = {}

Goto(p, point) == pc' = [pc EXCEPT ![p] = point]

Running(p) == pc[p] # "idle"

Disturb == clean' = [p \in Proc |-> FALSE] /\ match' = FALSE
Stored(p) == IF clean[p] THEN UNCHANGED <<clean, match>> ELSE Disturb

-----------------------------------------------------------------------------
(* From a plan to rows.                                                    *)

\* The tasks whose work has a row here; the others are skipped.
Usable(P) == {t \in P.tasks : WorkOf[t] \in known}

WorksOf(P) == {WorkOf[t] : t \in Usable(P)}

\* Mutant: of a work that is several tasks only one is asked for predecessors.
AfterOneTask(P, w) ==
  LET one == CHOOSE t \in Usable(P) : WorkOf[t] = w IN
    {<<WorkOf[e[1]], e[3]>> : e \in {e \in P.edges : e[1] \in Usable(P) /\ e[2] = one}} \ ({w} \X Link)

\* The predecessors of all tasks of a work by the type of the link, but not the
\* work itself.
After(P, w) ==
  {<<WorkOf[e[1]], e[3]>> :
     e \in {e \in P.edges : {e[1], e[2]} \subseteq Usable(P) /\ WorkOf[e[2]] = w}} \ ({w} \X Link)

\* _build_sequence_rows: one row a work, without a volume.
RowsOf(P, s) ==
  {[scope |-> s, work |-> w, after |-> After(P, w), source |-> "raport", volume |-> FALSE] :
     w \in WorksOf(P)}

\* bulk_upsert by (housing, section, work): a row that exists is overwritten,
\* but for its volume.
Merged(new) ==
  {r \in rows : \A n \in new : Key(n) # Key(r)}
    \cup {[n EXCEPT !.volume = \E r \in rows : Key(r) = Key(n) /\ r.volume] : n \in new}

-----------------------------------------------------------------------------
(* sync_tech_sequence.                                                     *)

Begin(p) ==
  /\ ~Running(p)
  /\ Goto(p, "load")
  /\ at' = [at EXCEPT ![p] = None]
  /\ todo' = [todo EXCEPT ![p] = Section]
  /\ clean' = [clean EXCEPT ![p] = \A q \in Proc : Running(q) => clean[q]]
  /\ UNCHANGED <<raport, known, rows, got, fresh, stale, match, entered>>

\* The next section, in any order, or the end.
Leave(p) ==
  /\ IF todo[p] = {}
     THEN Goto(p, "idle") /\ at' = [at EXCEPT ![p] = None] /\ UNCHANGED todo
     ELSE /\ Goto(p, "load")
          /\ \E s \in todo[p] : at' = [at EXCEPT ![p] = s] /\ todo' = [todo EXCEPT ![p] = @ \ {s}]
  /\ UNCHANGED <<got, fresh>>

Completes(p) == todo[p] = {} /\ clean[p]

\* _load_plan_structure: the plan of the scope; the housing falls back on the
\* template, a section without a plan is left as it is.
Load(p) ==
  /\ pc[p] = "load"
  /\ IF raport[at[p]] = None /\ at[p] # None
     THEN Leave(p) /\ UNCHANGED stale /\ match' = (match \/ Completes(p))
     ELSE /\ got' = [got EXCEPT ![p] = IF raport[at[p]] = None THEN Template ELSE raport[at[p]]]
          /\ Goto(p, "store")
          /\ UNCHANGED <<todo, at, fresh, stale, match>>
  /\ UNCHANGED <<raport, known, rows, clean, entered>>

Store(p) ==
  /\ pc[p] = "store"
  /\ rows' = Merged(RowsOf(got[p], at[p]))
  /\ fresh' = [fresh EXCEPT ![p] = WorksOf(got[p])]
  /\ got' = [got EXCEPT ![p] = None]
  /\ Goto(p, "find")
  /\ Stored(p)
  /\ UNCHANGED <<raport, known, todo, at, stale, entered>>

Stale(p, r) == r.source = "raport" /\ r.work \notin fresh[p]

\* Mutant: a filter by NULL is no filter, and nothing is checked afterwards.
FindAnywhere(p) ==
  /\ pc[p] = "find"
  /\ stale' = [stale EXCEPT ![p] = {Key(r) : r \in {r \in rows : Stale(p, r) /\ at[p] \in {None, r.scope}}}]
  /\ fresh' = [fresh EXCEPT ![p] = {}]
  /\ Goto(p, "drop")
  /\ UNCHANGED <<raport, known, rows, todo, at, got, clean, match, entered>>

\* The rows from Raport that are in no plan any more, of this scope: the search
\* for section NULL finds those of every section and they are sorted out here.
Find(p) ==
  /\ pc[p] = "find"
  /\ stale' = [stale EXCEPT ![p] = {Key(r) : r \in {r \in rows : Stale(p, r) /\ r.scope = at[p]}}]
  /\ fresh' = [fresh EXCEPT ![p] = {}]
  /\ Goto(p, "drop")
  /\ UNCHANGED <<raport, known, rows, todo, at, got, clean, match, entered>>

\* They are deleted by id: a row that comes under the same key is another one.
Drop(p) ==
  /\ pc[p] = "drop"
  /\ rows' = {r \in rows : Key(r) \notin stale[p]}
  /\ stale' = [q \in Proc |-> stale[q] \ stale[p]]
  /\ Leave(p)
  /\ clean' = IF clean[p] THEN clean ELSE [q \in Proc |-> FALSE]
  /\ match' = (clean[p] /\ (match \/ Completes(p)))
  /\ UNCHANGED <<raport, known, entered>>

\* The server dies, or Raport does not answer: what is committed stays.
Crash(p) ==
  /\ Running(p)
  /\ Goto(p, "idle")
  /\ at' = [at EXCEPT ![p] = None] /\ todo' = [todo EXCEPT ![p] = {}]
  /\ got' = [got EXCEPT ![p] = None] /\ fresh' = [fresh EXCEPT ![p] = {}]
  /\ stale' = [stale EXCEPT ![p] = {}] /\ clean' = [clean EXCEPT ![p] = FALSE]
  /\ UNCHANGED <<raport, known, rows, match, entered>>

-----------------------------------------------------------------------------
(* Users and Raport.                                                       *)

\* The plan a sync of the scope would read now, None if it would read none.
PlanNow(s) == IF s = None /\ raport[s] = None THEN Template ELSE raport[s]

Has(P, w) == P # None /\ \E t \in P.tasks : WorkOf[t] = w

\* A sync that is at the scope and takes the work for what it is not, so that it
\* may make its row one of Raport's, or find it stale.
Behind(p, s, w, has) ==
  /\ at[p] = s
  /\ \/ pc[p] = "store" /\ Has(got[p], w) # has
     \/ pc[p] = "find" /\ has /\ w \notin fresh[p]
     \/ pc[p] = "drop" /\ has /\ <<s, w>> \in stale[p]

\* create_tech_sequence_item; the unique index allows one row a key.
Create(s, w, volume) ==
  /\ w \in known /\ \A r \in rows : Key(r) # <<s, w>>
  /\ rows' = rows \cup {[scope |-> s, work |-> w, after |-> {}, source |-> "manual", volume |-> volume]}
  /\ entered' = IF volume /\ ~(\E p \in Proc : Behind(p, s, w, Has(PlanNow(s), w)))
                THEN entered \cup {<<s, w>>} ELSE entered
  /\ UNCHANGED <<raport, known, local, clean, match>>

\* delete_tech_sequence_item.
Delete(r) ==
  /\ r \in rows
  /\ rows' = rows \ {r}
  /\ entered' = entered \ {Key(r)}
  /\ stale' = [p \in Proc |-> stale[p] \ {Key(r)}]
  /\ Disturb
  /\ UNCHANGED <<raport, known, pc, todo, at, got, fresh>>

\* With a work its row may go, and all that was entered in it; with a work that
\* comes, if a sync is under way that has missed it.
RaportChanges(s, P) ==
  /\ raport' = [raport EXCEPT ![s] = P]
  /\ entered' = {k \in entered : k[1] = s =>
                   /\ Has(PlanNow(s), k[2]) => Has(PlanNow(s)', k[2])
                   /\ \A p \in Proc : ~Behind(p, s, k[2], Has(PlanNow(s)', k[2]))}
  /\ Disturb
  /\ UNCHANGED <<known, rows, local>>

\* A sync of the catalogue (module Mirror) brings a work.
Learn(w) ==
  /\ known' = known \cup {w}
  /\ Disturb
  /\ UNCHANGED <<raport, rows, local, entered>>

Next ==
  \/ \E p \in Proc : Begin(p) \/ Load(p) \/ Store(p) \/ Find(p) \/ Drop(p) \/ Crash(p)
  \/ \E s \in Scope, w \in Work, volume \in BOOLEAN : Create(s, w, volume)
  \/ \E r \in rows : Delete(r)
  \/ \E s \in Scope, P \in Plans \cup {None} : P # raport[s] /\ RaportChanges(s, P)
  \/ \E w \in Work \ known : Learn(w)

Spec == Init /\ [][Next]_vars

-----------------------------------------------------------------------------
(* Properties.                                                             *)

\* When a sync has run to its end with nothing changing under it, whatever was
\* left over from syncs before it, the rows of every scope that has a plan are
\* that plan's: its works with all their predecessors, each in the list of its
\* links' type, and no other row that passes for Raport's.
SequenceMatches ==
  match =>
    \A s \in {s \in Scope : PlanNow(s) # None} :
      LET P == PlanNow(s)
          works == {WorkOf[t] : t \in P.tasks} \cap known
          here  == {r \in rows : r.scope = s} IN
        /\ {r.work : r \in {r \in here : r.source = "raport"}} = works
        /\ \A r \in here, w \in works, link \in Link :
             r.work \in works =>
               (<<w, link>> \in r.after <=>
                  /\ w # r.work
                  /\ \E e \in P.edges : WorkOf[e[1]] = w /\ WorkOf[e[2]] = r.work /\ e[3] = link)

\* "Volumes are left alone, so manual edits survive": a volume a user has entered
\* is kept until he deletes the row or Raport drops the work from the plan of
\* that scope, through crashes, other scopes' syncs and syncs that overlap.
VolumesSurvive == \A k \in entered : \E r \in rows : Key(r) = k /\ r.volume
=============================================================================
