------------------------------- MODULE Mirror -------------------------------
(***************************************************************************)
(* The tables this service keeps a copy of Raport in, and what writes them *)
(* (services/sync/service.py): live syncs, imports of an old dump, the     *)
(* reading of work facts, and deletions through the API.                   *)
(*                                                                         *)
(* A row is known by its raport_id, so a row and the entity of Raport are  *)
(* one Thing.  Of a row's columns the links to its parents are kept.  A    *)
(* step is one request to Raport, or one upsert and its commit with the    *)
(* lookup of parents before it; a list of several pages is one request.    *)
(***************************************************************************)
EXTENDS Naturals, Sequences, FiniteSets

CONSTANTS
  Thing,      \* entities of Raport
  KindOf,     \* KindOf[t]: the table t belongs to
  Versions,   \* what Raport may hold: a set of [there, up, crew]
  Dumps,      \* what may be imported: a set of [of, tables]
  Shared,     \* facts on which Raport names the contractor itself
  Coded,      \* catalogue things that dumps and users give a code of their own
  Proc,       \* callers
  Duty,       \* Duty[p]: what p may ask for, a set of sequences of jobs
  Removable,  \* rows someone may delete through the API
  None

Kind == {"user", "contractor", "contract", "project", "queue", "object", "housing",
         "section", "floor", "set", "group", "type", "work", "fact"}

\* The foreign keys that mirror Raport's structure.
ParentKinds(k) ==
  CASE k = "contract" -> {"contractor"}
    [] k = "queue"    -> {"project"}
    [] k = "object"   -> {"project", "queue"}
    [] k = "housing"  -> {"object"}
    [] k = "section"  -> {"housing"}
    [] k = "floor"    -> {"section"}
    [] k = "group"    -> {"set"}
    [] k = "type"     -> {"group"}
    [] k = "work"     -> {"type"}
    [] k = "fact"     -> {"floor", "work"}
    [] OTHER          -> {}

\* The level below a level of the structure.
ChildKind(k) ==
  CASE k = "project" -> "queue"   [] k = "queue"   -> "object"
    [] k = "object"  -> "housing" [] k = "housing" -> "section"
    [] k = "section" -> "floor"   [] OTHER         -> "none"

Job == {"users", "contractors", "contracts", "objects", "catalog", "import", "facts"}

\* What sync() does when it is asked for everything; the sequences follow.
FullSync == <<"users", "contractors", "contracts", "objects", "catalog">>

OfKind(S, k) == {t \in S : KindOf[t] = k}

Up(v, t) == {q \in v.there : <<t, q>> \in v.up}

ParentsNamed(v, t) == {KindOf[q] : q \in Up(v, t)}

\* What is held of Raport at one time.
Snapshot == [there : SUBSET Thing, up : SUBSET (Thing \X Thing), crew : SUBSET (Thing \X Thing)]

\* What Raport may hold is a structure: parents exist, are of the right kind and
\* no more than one of each, an object is in the project of its queue, and
\* contractors are assigned to the cells of facts.
ASSUME KindAssumption == KindOf \in [Thing -> Kind]
ASSUME NoneAssumption == None \notin Thing \cup Snapshot
ASSUME VersionAssumption ==
  \A v \in Versions :
    /\ v \in Snapshot
    /\ v.up \subseteq v.there \X v.there /\ v.crew \subseteq v.there \X v.there
    /\ \A l \in v.up : KindOf[l[2]] \in ParentKinds(KindOf[l[1]])
    /\ \A l, m \in v.up : l[1] = m[1] /\ KindOf[l[2]] = KindOf[m[2]] => l[2] = m[2]
    /\ \A l, m \in v.up :
         l[2] = m[1] /\ KindOf[l[1]] = "object" /\ KindOf[m[2]] = "project" => <<l[1], m[2]>> \in v.up
    /\ \A t \in v.there :
         KindOf[t] \in {"contract", "group", "type"} \/ ParentsNamed(v, t) = ParentKinds(KindOf[t])
    /\ \A l \in v.crew : KindOf[l[1]] = "fact" /\ KindOf[l[2]] = "contractor"
ASSUME DumpAssumption == \A d \in Dumps : d.of \in Versions /\ d.tables \subseteq Kind
ASSUME DutyAssumption == \A p \in Proc : Duty[p] \subseteq Seq(Job)
\* The tables with a DELETE route.
ASSUME RemovableAssumption ==
  \A t \in Removable : KindOf[t] \in {"contractor", "housing", "section", "floor",
                                    "set", "group", "type", "work"}

VARIABLES
  raport,   \* what Raport holds
  rows,     \* the rows of the tables
  links,    \* their foreign keys: pairs of child and parent
  coded,    \* rows whose code is not the raport_id
  jobs,     \* what a call still has to do
  path,     \* sync_objects: the levels it is in, each with what is left there
  at,       \* ... and the row it has just stored, before it goes below
  held,     \* ... and the rows whose local ids it knows
  batch,    \* what a call has read from Raport, None before that
  kinds,    \* the tables it still has to fill from it
  clean,    \* history: no foreign or older data have been stored since it began
  fresh     \* history: what the tables have held since with certainty:
            \* nothing, all of Raport, or that and the facts

tables == <<rows, links, coded>>
local  == <<jobs, path, at, held, batch, kinds>>
vars   == <<raport, tables, local, clean, fresh>>

Below(v, q) ==
  {t \in v.there : <<t, q>> \in v.up /\ KindOf[t] = ChildKind(KindOf[q])}

TypeOK ==
  /\ raport \in Versions
  /\ rows \subseteq Thing /\ links \subseteq rows \X rows /\ coded \subseteq rows
  /\ jobs \in [Proc -> Seq(Job)]
  /\ path \in [Proc -> Seq([of : Thing \cup {None}, left : SUBSET Thing])]
  /\ at \in [Proc -> Thing \cup {None}]
  /\ held \in [Proc -> SUBSET rows]
  /\ batch \in [Proc -> Snapshot \cup {None}]
  /\ kinds \in [Proc -> Seq(Kind)]
  /\ clean \in [Proc -> BOOLEAN] /\ fresh \in {"nothing", "tables", "facts"}

Init ==
  /\ raport \in Versions
  /\ rows = {} /\ links = {} /\ coded = {}
  /\ jobs = [p \in Proc |-> <<>>] /\ path = [p \in Proc |-> <<>>]
  /\ at = [p \in Proc |-> None] /\ held = [p \in Proc |-> {}]
  /\ batch = [p \in Proc |-> None] /\ kinds = [p \in Proc |-> <<>>]
  /\ clean = [p \in Proc |-> FALSE] /\ fresh = "nothing"

Running(p) == jobs[p] # <<>>
JobOf(p)   == Head(jobs[p])

-----------------------------------------------------------------------------
(* The tables.                                                             *)

\* Mutant: an upsert that leaves the links of rows it finds alone.
UpsertNames(S, found, parents) ==
  /\ rows' = rows \cup S
  /\ links' = links \cup {l \in found : l[1] \notin rows}

\* bulk_upsert: the rows are there afterwards, and the foreign keys among the
\* fields to update are the ones given, or NULL.
Upsert(S, found, parents) ==
  /\ rows' = rows \cup S
  /\ links' = {l \in links : ~(l[1] \in S /\ KindOf[l[2]] \in parents)} \cup found

\* What goes with a row: ORM cascades and nothing else.
Cascades == {<<"project", "queue">>, <<"project", "object">>, <<"housing", "section">>,
             <<"section", "floor">>, <<"type", "work">>}
Under(S) ==
  S \cup {l[1] : l \in {l \in links : l[2] \in S /\ <<KindOf[l[2]], KindOf[l[1]]>> \in Cascades}}

\* Rows of these kinds keep the rows they refer to; the others let them go.
Keeps(k) == k \in {"contract", "fact"}

-----------------------------------------------------------------------------
(* Calls.                                                                  *)

\* A stored row that is not of Raport's present state disturbs what is clean.
Disturb == clean' = [p \in Proc |-> FALSE] /\ fresh' = "nothing"

Stored(p) ==
  IF clean[p] THEN UNCHANGED <<clean, fresh>> ELSE Disturb

Ask(p, request) ==
  /\ ~Running(p)
  /\ request \in Duty[p] \ {<<"import">>}
  /\ jobs' = [jobs EXCEPT ![p] = request]
  /\ clean' = [clean EXCEPT ![p] = /\ \A q \in Proc : Running(q) => clean[q]
                                   /\ \/ request = FullSync
                                      \/ request = <<"facts">> /\ fresh # "nothing"]
  /\ UNCHANGED <<raport, tables, path, at, held, batch, kinds, fresh>>

AskImport(p) ==
  /\ ~Running(p)
  /\ <<"import">> \in Duty[p]
  /\ jobs' = [jobs EXCEPT ![p] = <<"import">>]
  /\ clean' = [clean EXCEPT ![p] = FALSE]
  /\ UNCHANGED <<raport, tables, path, at, held, batch, kinds, fresh>>

Nothing(p) ==
  /\ path' = [path EXCEPT ![p] = <<>>]
  /\ at' = [at EXCEPT ![p] = None] /\ held' = [held EXCEPT ![p] = {}]
  /\ batch' = [batch EXCEPT ![p] = None] /\ kinds' = [kinds EXCEPT ![p] = <<>>]

\* A request to Raport fails, a statement fails, the server dies: what is
\* committed stays.
Stop(p) ==
  /\ Running(p)
  /\ jobs' = [jobs EXCEPT ![p] = <<>>]
  /\ Nothing(p)
  /\ clean' = [clean EXCEPT ![p] = FALSE]
  /\ UNCHANGED <<raport, tables, fresh>>

\* The next job of the call; after the last one it ends.
NextJob(p) ==
  /\ jobs' = [jobs EXCEPT ![p] = Tail(@)]
  /\ Nothing(p)
  /\ fresh' = IF ~clean[p] \/ Len(jobs[p]) > 1 THEN fresh
              ELSE IF JobOf(p) = "facts" \/ fresh = "facts" THEN "facts" ELSE "tables"

-----------------------------------------------------------------------------
(* sync_objects: down the structure, one request and one row at a time.    *)

ListProjects(p) ==
  /\ Running(p) /\ JobOf(p) = "objects" /\ path[p] = <<>>
  /\ path' = [path EXCEPT ![p] = <<[of |-> None, left |-> OfKind(raport.there, "project")]>>]
  /\ UNCHANGED <<raport, tables, jobs, at, held, batch, kinds, clean, fresh>>

Above(p) == {path[p][i].of : i \in DOMAIN path[p]} \ {None}

\* A row is stored below the rows it was reached through; an id among theirs
\* that is gone makes the statement fail.
StoreRow(p, t) ==
  LET parents == {q \in Above(p) : KindOf[q] \in ParentKinds(KindOf[t])} IN
    /\ path[p] # <<>> /\ at[p] = None
    /\ t \in path[p][1].left /\ KindOf[t] # "floor"
    /\ parents \subseteq held[p]
    /\ Upsert({t}, {<<t, q>> : q \in parents}, ParentKinds(KindOf[t]))
    /\ path' = [path EXCEPT ![p][1].left = @ \ {t}]
    /\ at' = [at EXCEPT ![p] = t]
    /\ Stored(p)
    /\ UNCHANGED <<raport, coded, jobs, held, batch, kinds>>

\* The row is looked up and Raport is asked for what is below it; one that has
\* gone in the meantime is passed over.  (A queue would not be, but nothing
\* deletes queues.)
GoBelow(p) ==
  LET t == at[p] IN
    /\ t # None
    /\ IF t \in rows
       THEN /\ held' = [held EXCEPT ![p] = @ \cup {t}]
            /\ path' = [path EXCEPT ![p] = <<[of |-> t, left |-> Below(raport, t)]>> \o @]
       ELSE UNCHANGED <<held, path>>
    /\ at' = [at EXCEPT ![p] = None]
    /\ UNCHANGED <<raport, tables, jobs, batch, kinds, clean, fresh>>

\* The floors of a section are one statement.
StoreFloors(p) ==
  LET floors == path[p][1].left IN
    /\ path[p] # <<>> /\ at[p] = None
    /\ floors # {} /\ OfKind(floors, "floor") = floors
    /\ path[p][1].of \in held[p]
    /\ Upsert(floors, {<<t, path[p][1].of>> : t \in floors}, {"section"})
    /\ path' = [path EXCEPT ![p][1].left = {}]
    /\ Stored(p)
    /\ UNCHANGED <<raport, coded, jobs, at, held, batch, kinds>>

GoUp(p) ==
  /\ path[p] # <<>> /\ at[p] = None /\ path[p][1].left = {}
  /\ IF Len(path[p]) > 1
     THEN path' = [path EXCEPT ![p] = Tail(@)] /\ UNCHANGED <<jobs, at, held, batch, kinds, fresh>>
     ELSE NextJob(p)
  /\ UNCHANGED <<raport, tables, clean>>

-----------------------------------------------------------------------------
(* The other jobs: read everything, then table after table.                *)

TablesOf(job) ==
  CASE job = "users"       -> <<"user">>
    [] job = "contractors" -> <<"contractor">>
    [] job = "contracts"   -> <<"contract">>
    [] job = "catalog"     -> <<"set", "group", "type", "work">>
    [] job = "facts"       -> <<"fact">>
    [] job = "import"      -> <<"user", "contractor", "contract", "project", "object",
                                "housing", "section", "floor", "type", "work">>

\* A live job reads what Raport holds; an import is given a dump, which may be
\* old, and some of the tables.
Read(p) ==
  /\ Running(p) /\ JobOf(p) \notin {"objects", "facts"} /\ batch[p] = None
  /\ IF JobOf(p) = "import"
     THEN \E d \in Dumps :
            /\ batch' = [batch EXCEPT ![p] = d.of]
            /\ kinds' = [kinds EXCEPT ![p] = SelectSeq(TablesOf("import"), LAMBDA k : k \in d.tables)]
     ELSE /\ batch' = [batch EXCEPT ![p] = raport]
          /\ kinds' = [kinds EXCEPT ![p] = TablesOf(JobOf(p))]
  /\ UNCHANGED <<raport, tables, jobs, path, at, held, clean, fresh>>

\* An import of construction objects leaves their queue alone.
Sets(p, k) == IF JobOf(p) = "import" THEN ParentKinds(k) \ {"queue"} ELSE ParentKinds(k)

\* _resolve_parents: an import finds parents among all rows, the catalogue
\* among those of the level above that it has just read.
Found(p, t) ==
  {q \in Up(batch[p], t) : /\ KindOf[q] \in Sets(p, KindOf[t])
                           /\ q \in rows}

\* Without their parent these are not stored; the others are, without it.
Needs(k) == k \in {"object", "housing", "section", "floor", "work"}

\* What of a table is stored.
Kept(p, k) ==
  {t \in OfKind(batch[p].there, k) :
     Needs(k) => Found(p, t) = {q \in Up(batch[p], t) : KindOf[q] \in Sets(p, k)}}

Fill(p, k, kept) ==
  /\ Upsert(kept, {l \in batch[p].up : l[1] \in kept /\ l[2] \in Found(p, l[1])}, Sets(p, k))
  /\ kinds' = [kinds EXCEPT ![p] = Tail(@)]
  /\ Stored(p)
  /\ UNCHANGED <<raport, jobs, path, at, held, batch>>

\* The catalogue is keyed by code and not by raport_id: a row with a code of its
\* own makes the statement fail.
StoreTable(p) ==
  /\ Running(p) /\ batch[p] # None /\ kinds[p] # <<>> /\ JobOf(p) \notin {"facts", "import"}
  /\ LET kept == Kept(p, Head(kinds[p])) IN
       /\ JobOf(p) = "catalog" => kept \cap coded = {}
       /\ Fill(p, Head(kinds[p]), kept)
  /\ UNCHANGED coded

\* An import brings codes of its own.
ImportTable(p) ==
  /\ Running(p) /\ batch[p] # None /\ kinds[p] # <<>> /\ JobOf(p) = "import"
  /\ LET kept == Kept(p, Head(kinds[p])) IN
       /\ Fill(p, Head(kinds[p]), kept)
       /\ coded' = (coded \ kept) \cup (kept \cap Coded)

Filled(p) ==
  /\ Running(p) /\ batch[p] # None /\ kinds[p] = <<>>
  /\ NextJob(p)
  /\ UNCHANGED <<raport, tables, clean>>

-----------------------------------------------------------------------------
(* sync_work_facts.                                                        *)

\* The facts with a readable date: those of the window that was asked for and
\* only the pages up to one that fails, or all of them.
ReadFacts(p, F) ==
  /\ Running(p) /\ JobOf(p) = "facts" /\ batch[p] = None
  /\ F \subseteq OfKind(raport.there, "fact")
  /\ batch' = [batch EXCEPT ![p] = [raport EXCEPT !.there = @ \ (OfKind(@, "fact") \ F)]]
  /\ kinds' = [kinds EXCEPT ![p] = <<"fact">>]
  /\ clean' = [clean EXCEPT ![p] = @ /\ F = OfKind(raport.there, "fact")]
  /\ UNCHANGED <<raport, tables, jobs, path, at, held, fresh>>

\* The contractors of a fact's cell that have a row, of the assignments read.
Crew(read, f) == {k \in rows : <<f, k>> \in read}

\* Mutant: a cell's first contractor will do.
FirstWillDo(read, f) ==
  LET crew == Crew(read, f) IN IF crew = {} THEN {{}} ELSE {{k} : k \in crew}

\* _resolve_fact_contractor: whoever comes first if Raport names somebody,
\* otherwise the one contractor of the cell.
MayBeDoneBy(read, f) ==
  LET crew == Crew(read, f) IN
    IF f \in Shared /\ crew # {} THEN {{k} : k \in crew}
    ELSE IF Cardinality(crew) = 1 THEN {crew} ELSE {{}}

\* The section and the floor of a fact are looked up among those of its housing:
\* a section that hangs elsewhere here is not found, nor a floor of such a one.
Placed(v, f) ==
  \A e \in OfKind(Up(v, f), "floor"), q \in OfKind(v.there, "section"), h \in OfKind(v.there, "housing") :
    <<e, q>> \in v.up /\ <<q, h>> \in v.up =>
      <<q, h>> \in links /\ \E s \in rows : {<<e, s>>, <<s, h>>} \subseteq links

\* The assignments are read, again up to a page that fails, and the facts whose
\* floor and work have rows are stored.
StoreFacts(p, read) ==
  LET kept == {f \in OfKind(batch[p].there, "fact") : Up(batch[p], f) \subseteq rows /\ Placed(batch[p], f)} IN
    /\ Running(p) /\ JobOf(p) = "facts" /\ kinds[p] # <<>>
    /\ read \subseteq raport.crew
    /\ \E by \in SUBSET {l \in read : l[1] \in kept /\ l[2] \in rows} :
         /\ \A f \in kept : {l[2] : l \in {m \in by : m[1] = f}} \in MayBeDoneBy(read, f)
         /\ Upsert(kept, by \cup {l \in batch[p].up : l[1] \in kept},
                   {"floor", "work", "contractor"})
    /\ kinds' = [kinds EXCEPT ![p] = <<>>]
    /\ IF read = raport.crew
       THEN UNCHANGED <<clean, fresh>>
       ELSE /\ clean' = [q \in Proc |-> clean[q] /\ jobs[q] # <<"facts">>]
            /\ fresh' = IF fresh = "facts" THEN "tables" ELSE fresh
    /\ UNCHANGED <<raport, coded, jobs, path, at, held, batch>>

-----------------------------------------------------------------------------
(* What else happens.                                                      *)

RaportChanges(v) ==
  /\ raport' = v
  /\ Disturb
  /\ UNCHANGED <<tables, local>>

\* A user gives a row of the catalogue another code, another parent, or both.
Edit(t) ==
  /\ t \in rows /\ KindOf[t] \in {"set", "group", "type", "work"}
  /\ \E codes \in SUBSET ({t} \cap Coded),
        above \in {{}} \cup {{q} : q \in {q \in rows : KindOf[q] \in ParentKinds(KindOf[t])}} :
       /\ codes \cup above # {}
       /\ coded' = coded \cup codes
       /\ links' = {l \in links : l[1] = t => above = {}} \cup {<<t, q>> : q \in above}
  /\ Disturb
  /\ UNCHANGED <<raport, rows, local>>

\* delete_by_id: the ORM takes along or unlinks what is below; a row that must
\* not lose its parent forbids it.
Remove(t) ==
  LET gone == Under(Under({t})) IN
    /\ t \in rows
    /\ \A l \in links : Keeps(KindOf[l[1]]) => l[1] \in gone \/ l[2] \notin gone
    /\ rows' = rows \ gone /\ coded' = coded \cap rows'
    /\ links' = {l \in links : l[1] \in rows' /\ l[2] \in rows'}
    /\ held' = [p \in Proc |-> held[p] \cap rows']
    /\ Disturb
    /\ UNCHANGED <<raport, jobs, path, at, batch, kinds>>

Step(p) ==
  \/ ListProjects(p) \/ GoBelow(p) \/ StoreFloors(p) \/ GoUp(p)
  \/ \E t \in Thing : StoreRow(p, t)
  \/ Read(p) \/ StoreTable(p) \/ ImportTable(p) \/ Filled(p)
  \/ \E F \in SUBSET OfKind(raport.there, "fact") : ReadFacts(p, F)
  \/ \E read \in SUBSET raport.crew : StoreFacts(p, read)

Next ==
  \/ \E p \in Proc : (\E request \in Duty[p] : Ask(p, request)) \/ AskImport(p) \/ Step(p) \/ Stop(p)
  \/ \E v \in Versions \ {raport} : RaportChanges(v)
  \/ \E t \in rows : Edit(t)
  \/ \E t \in Removable : Remove(t)

Spec == Init /\ [][Next]_vars

-----------------------------------------------------------------------------
(* Properties.                                                             *)

Parents(t) == {q \in rows : <<t, q>> \in links}

\* A full sync repairs the tables, whatever earlier calls left half done: when
\* one has run to its end while Raport stood still and nobody imported or
\* deleted anything, every entity of Raport has a row below the rows of its
\* parents, until something else is stored.
SyncRepairs ==
  fresh # "nothing" =>
    \A t \in raport.there : KindOf[t] # "fact" => t \in rows /\ Parents(t) = Up(raport, t)

\* Once the tables are right, a reading of facts that loses no page leaves no
\* fact out, and gives a fact on which Raport names nobody to the one contractor
\* of its cell, and on a shared cell to none.
FactsArrive ==
  fresh = "facts" =>
    \A f \in OfKind(raport.there, "fact") :
      LET crew == {k \in raport.there : <<f, k>> \in raport.crew} IN
        /\ f \in rows /\ Up(raport, f) \subseteq Parents(f)
        /\ f \notin Shared =>
             OfKind(Parents(f), "contractor") = IF Cardinality(crew) = 1 THEN crew ELSE {}
=============================================================================
