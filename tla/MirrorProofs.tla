---------------------------- MODULE MirrorProofs ----------------------------
(***************************************************************************)
(* Theorems about Mirror, for any entities, structures of Raport, dumps and *)
(* callers.                                                                *)
(***************************************************************************)
EXTENDS Mirror, TLAPS

Structure == {"project", "queue", "object", "housing", "section", "floor"}

\* The kinds of the levels, from the top.
LevelKind == <<"project", "queue", "object", "housing", "section", "floor">>

\* The kinds of rows that a row may be linked to.
LinkKinds(k) == IF k = "fact" THEN {"floor", "work", "contractor"} ELSE ParentKinds(k)

\* A level of the walk down the structure.
Level == [of : Thing \cup {None}, left : SUBSET Thing]

\* A call is in the structure only while it synchronises objects, and has a
\* batch only in the other jobs.
Resting(p) ==
  /\ ~Running(p) => path[p] = <<>> /\ at[p] = None /\ batch[p] = None /\ kinds[p] = <<>>
  /\ Running(p) /\ JobOf(p) # "objects" => path[p] = <<>> /\ at[p] = None
  /\ Running(p) /\ JobOf(p) = "objects" => batch[p] = None /\ kinds[p] = <<>>
  /\ path[p] = <<>> => at[p] = None
  /\ kinds[p] # <<>> => batch[p] # None
  /\ \A i \in DOMAIN path[p] : \A t \in path[p][i].left :
       KindOf[t] = IF path[p][i].of = None THEN "project" ELSE ChildKind(KindOf[path[p][i].of])
  /\ batch[p] # None => \A l \in batch[p].up : /\ KindOf[l[2]] \in ParentKinds(KindOf[l[1]])
                                              /\ l[2] \in batch[p].there

\* Types, and links of the right kinds.
Base ==
  /\ raport \in Versions
  /\ rows \subseteq Thing /\ links \subseteq rows \X rows
  /\ \A l \in links : KindOf[l[2]] \in LinkKinds(KindOf[l[1]])
  /\ DOMAIN jobs = Proc /\ DOMAIN kinds = Proc
  /\ path \in [Proc -> Seq(Level)]
  /\ at \in [Proc -> Thing \cup {None}]
  /\ held \in [Proc -> SUBSET rows]
  /\ batch \in [Proc -> Snapshot \cup {None}]
  /\ clean \in [Proc -> BOOLEAN] /\ fresh \in {"nothing", "tables", "facts"}
  /\ \A p \in Proc : Resting(p)

-----------------------------------------------------------------------------
(* Sequences of levels.                                                     *)

LEMMA Popped ==
  ASSUME NEW s \in Seq(Level), s # <<>>
  PROVE  /\ Tail(s) \in Seq(Level) /\ Len(s) \in Nat \ {0} /\ Len(Tail(s)) = Len(s) - 1
         /\ s[1] \in Level
         /\ \A i \in 1..Len(Tail(s)) : Tail(s)[i] = s[i + 1] /\ i + 1 \in 1..Len(s)
OBVIOUS

LEMMA Pushed ==
  ASSUME NEW s \in Seq(Level), NEW x \in Level
  PROVE  /\ <<x>> \o s \in Seq(Level) /\ Len(<<x>> \o s) = Len(s) + 1
         /\ (<<x>> \o s)[1] = x
         /\ \A i \in 1..Len(s) : (<<x>> \o s)[i + 1] = s[i]
OBVIOUS

LEMMA OneLevel ==
  ASSUME NEW x \in Level
  PROVE  <<x>> \in Seq(Level) /\ Len(<<x>>) = 1 /\ <<x>>[1] = x
OBVIOUS

\* The kind below that of a level is that of the next one.
LEMMA Levels ==
  /\ \A i, j \in 1..6 : LevelKind[i] = LevelKind[j] => i = j
  /\ \A i \in 1..5 : ChildKind(LevelKind[i]) = LevelKind[i + 1]
  /\ ChildKind(LevelKind[6]) = "none"
  /\ \A i \in 1..6 : LevelKind[i] \in Structure
  /\ LevelKind[1] = "project" /\ LevelKind[2] = "queue"
<1>1. LevelKind[1] = "project" /\ LevelKind[2] = "queue" /\ LevelKind[3] = "object"
      /\ LevelKind[4] = "housing" /\ LevelKind[5] = "section" /\ LevelKind[6] = "floor"
  BY DEF LevelKind
<1>2. \A i \in 1..6 : i = 1 \/ i = 2 \/ i = 3 \/ i = 4 \/ i = 5 \/ i = 6
  OBVIOUS
<1>3. \A i, j \in 1..6 : LevelKind[i] = LevelKind[j] => i = j
  BY <1>1, <1>2
<1>4. \A i \in 1..5 : ChildKind(LevelKind[i]) = LevelKind[i + 1]
  <2>1. \A i \in 1..5 : i = 1 \/ i = 2 \/ i = 3 \/ i = 4 \/ i = 5
    OBVIOUS
  <2>2. 1 + 1 = 2 /\ 2 + 1 = 3 /\ 3 + 1 = 4 /\ 4 + 1 = 5 /\ 5 + 1 = 6
    OBVIOUS
  <2>. QED  BY <1>1, <2>1, <2>2 DEF ChildKind
<1>. QED  BY <1>1, <1>2, <1>3, <1>4 DEF ChildKind, Structure

-----------------------------------------------------------------------------
(* The tables, and where the calls are.                                     *)

\* What a call has of its own stays.
Still(p) ==
  /\ jobs'[p] = jobs[p] /\ path'[p] = path[p] /\ at'[p] = at[p]
  /\ batch'[p] = batch[p] /\ kinds'[p] = kinds[p]

LEMMA StillRests == ASSUME NEW p, Resting(p), Still(p) PROVE Resting(p)'
BY DEF Still, Resting, Running, JobOf

\* An upsert with parents that are there keeps the tables well formed.
LEMMA UpsertTyped ==
  ASSUME Base, NEW S \in SUBSET Thing, NEW found, NEW ks, Upsert(S, found, ks),
         found \subseteq S \X rows,
         \A l \in found : KindOf[l[2]] \in LinkKinds(KindOf[l[1]])
  PROVE  /\ rows' \subseteq Thing /\ links' \subseteq rows' \X rows' /\ rows \subseteq rows'
         /\ \A l \in links' : KindOf[l[2]] \in LinkKinds(KindOf[l[1]])
BY DEF Upsert, Base

\* A step that leaves the tables alone, or makes them grow.
Grows ==
  /\ rows' \subseteq Thing /\ links' \subseteq rows' \X rows' /\ rows \subseteq rows'
  /\ \A l \in links' : KindOf[l[2]] \in LinkKinds(KindOf[l[1]])

LEMMA SameGrows == ASSUME Base, UNCHANGED tables PROVE Grows
BY DEF Base, tables, Grows

\* Types of what the calls have.
Types ==
  /\ DOMAIN jobs = Proc /\ DOMAIN kinds = Proc
  /\ path \in [Proc -> Seq(Level)]
  /\ at \in [Proc -> Thing \cup {None}]
  /\ batch \in [Proc -> Snapshot \cup {None}]
  /\ clean \in [Proc -> BOOLEAN] /\ fresh \in {"nothing", "tables", "facts"}

\* What is left to show of a step of a call.
LEMMA BaseOfStep ==
  ASSUME Base, NEW p \in Proc, Grows, raport' = raport, held' \in [Proc -> SUBSET rows'],
         Types', \A q \in Proc \ {p} : Still(q), Resting(p)'
  PROVE  Base'
<1>1. \A q \in Proc : Resting(q)'
  BY StillRests DEF Base
<1>. QED  BY <1>1 DEF Base, Grows, Types

LEMMA DisturbTyped == ASSUME Disturb PROVE clean' \in [Proc -> BOOLEAN] /\ fresh' = "nothing"
BY DEF Disturb

LEMMA StoredTyped ==
  ASSUME Base, NEW p \in Proc, Stored(p)
  PROVE  clean' \in [Proc -> BOOLEAN] /\ fresh' \in {"nothing", "tables", "facts"}
BY DisturbTyped DEF Stored, Base

\* A version of Raport.
LEMMA RaportTyped ==
  ASSUME NEW v \in Versions
  PROVE  /\ v \in Snapshot
         /\ v.there \subseteq Thing
         /\ v.up \subseteq v.there \X v.there
         /\ v.crew \subseteq v.there \X v.there
         /\ \A l \in v.up : KindOf[l[2]] \in ParentKinds(KindOf[l[1]]) /\ l[2] \in v.there
         /\ \A l \in v.crew : KindOf[l[1]] = "fact" /\ KindOf[l[2]] = "contractor"
<1>1. v \in Snapshot
  BY VersionAssumption
<1>. QED  BY <1>1, VersionAssumption DEF Snapshot

LEMMA BaseAsk ==
  ASSUME Base, NEW p \in Proc, NEW request \in Duty[p], Ask(p, request) \/ AskImport(p)
  PROVE  Base'
<1>1. /\ UNCHANGED <<raport, tables, path, at, held, batch, kinds, fresh>>
      /\ \E j : jobs' = [jobs EXCEPT ![p] = j]
      /\ \E b \in BOOLEAN : clean' = [clean EXCEPT ![p] = b]
      /\ ~Running(p)
  BY DEF Ask, AskImport
<1>2. Grows
  BY <1>1, SameGrows
<1>3. Types' /\ held' \in [Proc -> SUBSET rows'] /\ \A q \in Proc \ {p} : Still(q)
  BY <1>1 DEF Base, Types, Still, tables
<1>4. Resting(p)'
  BY <1>1 DEF Base, Resting, Running, JobOf
<1>. QED  BY <1>1, <1>2, <1>3, <1>4, BaseOfStep

LEMMA BaseEnds ==
  ASSUME Base, NEW p \in Proc, Stop(p) \/ Filled(p) \/ GoUp(p)
  PROVE  Base'
<1>1. UNCHANGED <<raport, tables>> /\ \A q \in Proc \ {p} : Still(q)
  BY DEF Stop, Filled, GoUp, NextJob, Nothing, Still, Base, tables
<1>2. Grows
  BY <1>1, SameGrows
<1>3. held' \in [Proc -> SUBSET rows']
  BY <1>1 DEF Stop, Filled, GoUp, NextJob, Nothing, Base, tables
<1>4. CASE Nothing(p) /\ (Stop(p) \/ NextJob(p))
  <2>1. Types'
    <3>1. /\ DOMAIN jobs' = Proc /\ DOMAIN kinds' = Proc
          /\ at' \in [Proc -> Thing \cup {None}] /\ batch' \in [Proc -> Snapshot \cup {None}]
      BY <1>4 DEF Stop, NextJob, Nothing, Base
    <3>2. path' \in [Proc -> Seq(Level)]
      <4>1. <<>> \in Seq(Level)
        OBVIOUS
      <4>. QED  BY <1>4, <4>1 DEF Nothing, Base
    <3>3. clean' \in [Proc -> BOOLEAN] /\ fresh' \in {"nothing", "tables", "facts"}
      BY DEF Stop, Filled, GoUp, NextJob, Base
    <3>. QED  BY <3>1, <3>2, <3>3 DEF Types
  <2>2. path'[p] = <<>> /\ at'[p] = None /\ batch'[p] = None /\ kinds'[p] = <<>>
    BY <1>4 DEF Nothing, Base
  <2>3. Resting(p)'
    BY <2>2 DEF Resting
  <2>. QED  BY <1>1, <1>2, <1>3, <2>1, <2>3, BaseOfStep
<1>5. CASE GoUp(p) /\ path' = [path EXCEPT ![p] = Tail(@)] /\ UNCHANGED <<jobs, at, held, batch, kinds, fresh>>
  <2>1. PICK s : s = path[p]
    OBVIOUS
  <2>2. s \in Seq(Level) /\ s # <<>> /\ path' = [path EXCEPT ![p] = Tail(s)] /\ at[p] = None
    <3>1. path[p] # <<>> /\ path' = [path EXCEPT ![p] = Tail(path[p])] /\ at[p] = None
      BY <1>5 DEF GoUp
    <3>. QED  BY <2>1, <3>1 DEF Base
  <2>3. /\ Tail(s) \in Seq(Level) /\ Len(Tail(s)) = Len(s) - 1
        /\ \A i \in DOMAIN Tail(s) : Tail(s)[i] = s[i + 1] /\ i + 1 \in DOMAIN s
    BY <2>2, Popped
  <2>4. Types'
    BY <1>5, <2>2, <2>3 DEF Types, Base, GoUp
  <2>5. path'[p] = Tail(s) /\ at'[p] = None /\ batch'[p] = batch[p] /\ kinds'[p] = kinds[p] /\ jobs'[p] = jobs[p]
    BY <1>5, <2>2 DEF Base
  <2>6. path[p] # <<>>
    BY <2>1, <2>2
  <2>7. Resting(p)'
    BY <2>1, <2>3, <2>5, <2>6 DEF Base, Resting, Running, JobOf
  <2>. QED  BY <1>1, <1>2, <1>3, <2>4, <2>7, BaseOfStep
<1>. QED  BY <1>4, <1>5 DEF Stop, Filled, GoUp, NextJob

LEMMA BaseLists ==
  ASSUME Base, NEW p \in Proc, ListProjects(p) \/ GoBelow(p)
  PROVE  Base'
<1>1. UNCHANGED <<raport, tables, jobs, batch, kinds, clean, fresh>> /\ \A q \in Proc \ {p} : Still(q)
  BY DEF ListProjects, GoBelow, Still, Base
<1>2. Grows
  BY <1>1, SameGrows
<1>3. held' \in [Proc -> SUBSET rows']
  <2>1. held' = held \/ (at[p] \in rows /\ held' = [held EXCEPT ![p] = held[p] \cup {at[p]}])
    BY DEF ListProjects, GoBelow
  <2>2. held \in [Proc -> SUBSET rows] /\ rows' = rows
    BY <1>1 DEF Base, tables
  <2>. QED  BY <2>1, <2>2
<1>4. raport.there \subseteq Thing
  BY RaportTyped DEF Base
<1>5. CASE ListProjects(p)
  <2>1. PICK x : x = [of |-> None, left |-> OfKind(raport.there, "project")]
    OBVIOUS
  <2>2. x \in Level /\ x.of = None /\ \A t \in x.left : KindOf[t] = "project"
    BY <1>4, <2>1 DEF Level, OfKind
  <2>3. path' = [path EXCEPT ![p] = <<x>>] /\ at' = at /\ Running(p) /\ JobOf(p) = "objects"
    BY <1>5, <2>1 DEF ListProjects
  <2>4. <<x>> \in Seq(Level) /\ Len(<<x>>) = 1 /\ <<x>>[1] = x
    BY <2>2, OneLevel
  <2>5. DOMAIN <<x>> = {1} /\ <<x>> # <<>>
    BY <2>4
  <2>6. Types'
    BY <1>1, <2>3, <2>4 DEF Types, Base
  <2>7. path'[p] = <<x>>
    BY <2>3 DEF Base
  <2>8. Resting(p)'
    BY <1>1, <2>2, <2>3, <2>4, <2>5, <2>7 DEF Base, Resting, Running, JobOf
  <2>. QED  BY <1>1, <1>2, <1>3, <2>6, <2>8, BaseOfStep
<1>6. CASE GoBelow(p)
  <2>1. PICK s, t : s = path[p] /\ t = at[p]
    OBVIOUS
  <2>2. PICK x : x = [of |-> t, left |-> Below(raport, t)]
    OBVIOUS
  <2>3. s \in Seq(Level) /\ t \in Thing /\ t # None /\ s # <<>> /\ Running(p) /\ JobOf(p) = "objects"
    BY <1>6, <2>1 DEF GoBelow, Base, Resting
  <2>4. x \in Level /\ x.of = t /\ \A y \in x.left : KindOf[y] = ChildKind(KindOf[t])
    BY <1>4, <2>2, <2>3 DEF Level, Below
  <2>5. path' = [path EXCEPT ![p] = <<x>> \o s] \/ path' = path
    BY <1>6, <2>1, <2>2 DEF GoBelow
  <2>6. /\ <<x>> \o s \in Seq(Level) /\ Len(<<x>> \o s) = Len(s) + 1
        /\ (<<x>> \o s)[1] = x
        /\ \A i \in 1..Len(s) : (<<x>> \o s)[i + 1] = s[i]
    BY <2>3, <2>4, Pushed
  <2>7. at' = [at EXCEPT ![p] = None]
    BY <1>6 DEF GoBelow
  <2>8. Types'
    BY <1>1, <2>5, <2>6, <2>7 DEF Types, Base
  <2>9. path'[p] \in {s, <<x>> \o s} /\ at'[p] = None
    BY <2>1, <2>5, <2>7 DEF Base
  <2>10. t # None
    BY <2>3
  <2>11. ASSUME NEW i \in DOMAIN path'[p], NEW y \in path'[p][i].left
         PROVE  KindOf[y] = IF path'[p][i].of = None THEN "project" ELSE ChildKind(KindOf[path'[p][i].of])
    <3>1. \A j \in DOMAIN s : \A z \in s[j].left :
            KindOf[z] = IF s[j].of = None THEN "project" ELSE ChildKind(KindOf[s[j].of])
      BY <2>1 DEF Base, Resting
    <3>2. path'[p][i] = x \/ \E j \in DOMAIN s : path'[p][i] = s[j]
      <4>1. CASE path'[p] = s
        BY <4>1
      <4>2. CASE path'[p] = <<x>> \o s
        <5>1. i \in 1..(Len(s) + 1)
          BY <2>6, <4>2
        <5>2. i = 1 \/ (i - 1 \in 1..Len(s) /\ i = (i - 1) + 1)
          BY <2>3, <5>1
        <5>. QED  BY <2>3, <2>6, <4>2, <5>2
      <4>. QED  BY <2>9, <4>1, <4>2
    <3>. QED  BY <2>4, <2>10, <3>1, <3>2
  <2>12. path'[p] # <<>>
    BY <2>3, <2>6, <2>9
  <2>13. Resting(p)'
    <3>1. batch[p] = None /\ kinds[p] = <<>>
      BY <2>3 DEF Base, Resting
    <3>2. batch'[p] = None /\ kinds'[p] = <<>> /\ jobs'[p] = jobs[p]
      BY <1>1, <3>1
    <3>. QED  BY <2>3, <2>9, <2>11, <2>12, <3>2 DEF Resting, Running, JobOf
  <2>. QED  BY <1>1, <1>2, <1>3, <2>8, <2>13, BaseOfStep
<1>. QED  BY <1>5, <1>6

\* Rows are taken out of the lowest level.
Leaves(p, X) == path' = [path EXCEPT ![p][1].left = X]

\* That keeps the levels.
LEMMA LessLeft ==
  ASSUME Base, NEW p \in Proc, path[p] # <<>>, NEW X \in SUBSET path[p][1].left, Leaves(p, X)
  PROVE  /\ path' \in [Proc -> Seq(Level)] /\ \A q \in Proc \ {p} : path'[q] = path[q]
         /\ Len(path'[p]) = Len(path[p]) /\ Len(path[p]) \in Nat \ {0}
         /\ path'[p][1].of = path[p][1].of /\ path'[p][1].left = X
         /\ \A i \in 1..Len(path[p]) : i # 1 => path'[p][i] = path[p][i]
<1>1. PICK s : s = path[p]
  OBVIOUS
<1>2. PICK y : y = [s[1] EXCEPT !.left = X]
  OBVIOUS
<1>3. s \in Seq(Level) /\ s # <<>> /\ path \in [Proc -> Seq(Level)]
  BY <1>1 DEF Base
<1>4. Len(s) \in Nat \ {0} /\ s[1] \in Level
  BY <1>3
<1>5. y \in Level /\ y.of = s[1].of /\ y.left = X
  <2>1. s[1].left \in SUBSET Thing
    BY <1>4 DEF Level
  <2>. QED  BY <1>1, <1>2, <1>4, <2>1 DEF Level
<1>6. PICK u : u = [s EXCEPT ![1] = y]
  OBVIOUS
<1>7. /\ u \in Seq(Level) /\ Len(u) = Len(s) /\ u[1].of = s[1].of /\ u[1].left = X
      /\ \A i \in 1..Len(s) : i # 1 => u[i] = s[i]
  BY <1>3, <1>4, <1>5, <1>6
<1>8. path' = [path EXCEPT ![p] = u]
  BY <1>1, <1>2, <1>6 DEF Leaves
<1>9. path'[p] = u /\ path' \in [Proc -> Seq(Level)] /\ \A q \in Proc \ {p} : path'[q] = path[q]
  BY <1>3, <1>7, <1>8
<1>. QED  BY <1>1, <1>4, <1>7, <1>9

LEMMA LessRests ==
  ASSUME Base, NEW p \in Proc, path[p] # <<>>, NEW X \in SUBSET path[p][1].left,
         Leaves(p, X), Running(p) /\ JobOf(p) = "objects",
         UNCHANGED <<jobs, batch, kinds>>
  PROVE  Resting(p)' /\ path' \in [Proc -> Seq(Level)]
<1>1. PICK s, u : s = path[p] /\ u = path'[p]
  OBVIOUS
<1>2. s \in Seq(Level) /\ s # <<>>
  BY <1>1 DEF Base
<1>3. /\ u \in Seq(Level) /\ Len(u) = Len(s) /\ Len(s) \in Nat \ {0}
      /\ u[1].of = s[1].of /\ u[1].left \subseteq s[1].left
      /\ \A i \in 1..Len(s) : i # 1 => u[i] = s[i]
  BY <1>1, LessLeft
<1>4. u # <<>> /\ DOMAIN u = DOMAIN s
  BY <1>2, <1>3
<1>5. \A i \in DOMAIN u : \A y \in u[i].left :
        KindOf[y] = IF u[i].of = None THEN "project" ELSE ChildKind(KindOf[u[i].of])
  <2>1. \A j \in DOMAIN s : \A z \in s[j].left :
          KindOf[z] = IF s[j].of = None THEN "project" ELSE ChildKind(KindOf[s[j].of])
    BY <1>1 DEF Base, Resting
  <2>2. \A i \in DOMAIN u : u[i].of = s[i].of /\ u[i].left \subseteq s[i].left
    BY <1>2, <1>3, <1>4
  <2>. QED  BY <1>4, <2>1, <2>2
<1>6. /\ jobs'[p] = jobs[p] /\ batch'[p] = batch[p] /\ kinds'[p] = kinds[p]
      /\ Resting(p) /\ s # <<>>
  BY <1>2 DEF Base
<1>. QED  BY <1>1, <1>4, <1>5, <1>6, LessLeft DEF Resting, Running, JobOf

\* The foreign keys a row may have are among the links it may have.
LEMMA ParentLinks == \A k \in Kind : ParentKinds(k) \subseteq LinkKinds(k)
BY DEF Kind, ParentKinds, LinkKinds

LEMMA SectionAbove == \A k \in Kind : ChildKind(k) = "floor" => k = "section"
BY DEF Kind, ChildKind

LEMMA BaseWalk ==
  ASSUME Base, NEW p \in Proc, StoreFloors(p) \/ \E t \in Thing : StoreRow(p, t)
  PROVE  Base'
<1>1. UNCHANGED <<raport, jobs, held, batch, kinds>> /\ Stored(p) /\ path[p] # <<>>
  BY DEF StoreFloors, StoreRow
<1>2. clean' \in [Proc -> BOOLEAN] /\ fresh' \in {"nothing", "tables", "facts"}
  BY <1>1, StoredTyped
<1>3. path[p] \in Seq(Level) /\ path[p][1] \in Level
  BY <1>1, Popped DEF Base
<1>4. Running(p) /\ JobOf(p) = "objects" /\ held[p] \subseteq rows
  BY <1>1 DEF Base, Resting
<1>5. Grows
  <2>1. CASE StoreFloors(p)
    <3>1. PICK S, u : S = path[p][1].left /\ u = path[p][1].of
      OBVIOUS
    <3>2. S \in SUBSET Thing /\ u \in Thing /\ u \in rows
      BY <1>3, <1>4, <2>1, <3>1 DEF StoreFloors, Level, Base
    <3>3. Upsert(S, {<<t, u>> : t \in S}, {"section"}) /\ S # {} /\ \A t \in S : KindOf[t] = "floor"
      BY <2>1, <3>1 DEF StoreFloors, OfKind
    <3>4. KindOf[u] = "section"
      <4>1. u # None /\ KindOf[u] \in Kind
        BY <3>2, NoneAssumption, KindAssumption
      <4>2. 1 \in DOMAIN path[p]
        BY <1>1, <1>3
      <4>3. \A t \in S : KindOf[t] = ChildKind(KindOf[u])
        BY <3>1, <4>1, <4>2 DEF Base, Resting
      <4>. QED  BY <3>3, <4>1, <4>3, SectionAbove
    <3>5. \A l \in {<<t, u>> : t \in S} : KindOf[l[2]] \in LinkKinds(KindOf[l[1]])
      BY <3>3, <3>4 DEF LinkKinds, ParentKinds
    <3>6. {<<t, u>> : t \in S} \subseteq S \X rows
      BY <3>2
    <3>. QED  BY <3>2, <3>3, <3>5, <3>6, UpsertTyped DEF Grows
  <2>2. ASSUME NEW t \in Thing, StoreRow(p, t) PROVE Grows
    <3>1. PICK U : U = {q \in Above(p) : KindOf[q] \in ParentKinds(KindOf[t])}
      OBVIOUS
    <3>2. U \subseteq rows /\ Upsert({t}, {<<t, q>> : q \in U}, ParentKinds(KindOf[t]))
      BY <1>4, <2>2, <3>1 DEF StoreRow
    <3>3. KindOf[t] \in Kind
      BY KindAssumption
    <3>4. \A l \in {<<t, q>> : q \in U} : KindOf[l[2]] \in LinkKinds(KindOf[l[1]])
      BY <3>1, <3>3, ParentLinks
    <3>5. {<<t, q>> : q \in U} \subseteq {t} \X rows
      BY <3>2
    <3>. QED  BY <3>2, <3>4, <3>5, UpsertTyped DEF Grows
  <2>. QED  BY <2>1, <2>2
<1>6. held' \in [Proc -> SUBSET rows']
  BY <1>1, <1>5 DEF Base, Grows
<1>7. \E X \in SUBSET path[p][1].left : Leaves(p, X)
  BY DEF StoreFloors, StoreRow, Leaves
<1>8. Resting(p)' /\ path' \in [Proc -> Seq(Level)]
  BY <1>1, <1>4, <1>7, LessRests
<1>9. at' \in [Proc -> Thing \cup {None}]
  <2>1. at \in [Proc -> Thing \cup {None}]
    BY DEF Base
  <2>2. CASE StoreFloors(p)
    BY <2>1, <2>2 DEF StoreFloors
  <2>3. ASSUME NEW t \in Thing, StoreRow(p, t) PROVE at' = [at EXCEPT ![p] = t]
    BY <2>3 DEF StoreRow
  <2>. QED  BY <2>1, <2>2, <2>3
<1>10. \A q \in Proc \ {p} : Still(q)
  <2>1. \A q \in Proc \ {p} : path'[q] = path[q]
    BY <1>1, <1>7, LessLeft
  <2>. QED  BY <1>1, <2>1 DEF StoreFloors, StoreRow, Still, Base
<1>11. Types'
  BY <1>1, <1>2, <1>8, <1>9 DEF Types, Base
<1>. QED  BY <1>1, <1>5, <1>6, <1>8, <1>10, <1>11, BaseOfStep

\* What a call has read of Raport is a version, less some facts.
LEMMA BaseRead ==
  ASSUME Base, NEW p \in Proc,
         Read(p) \/ \E F \in SUBSET OfKind(raport.there, "fact") : ReadFacts(p, F)
  PROVE  Base'
<1>1. /\ UNCHANGED <<raport, tables, jobs, path, at, held, fresh>>
      /\ Running(p) /\ JobOf(p) # "objects"
  BY DEF Read, ReadFacts
<1>2. Grows /\ held' \in [Proc -> SUBSET rows']
  BY <1>1, SameGrows DEF Base, tables
<1>3. \E b \in Snapshot : /\ batch' = [batch EXCEPT ![p] = b]
                          /\ \A l \in b.up : KindOf[l[2]] \in ParentKinds(KindOf[l[1]]) /\ l[2] \in b.there
  <2>1. \A v \in Versions : v \in Snapshot /\ \A l \in v.up : KindOf[l[2]] \in ParentKinds(KindOf[l[1]]) /\ l[2] \in v.there
    BY RaportTyped
  <2>2. CASE Read(p)
    <3>1. \E v \in Versions : batch' = [batch EXCEPT ![p] = v]
      BY <2>2, DumpAssumption DEF Read, Base
    <3>. QED  BY <2>1, <3>1
  <2>3. ASSUME NEW F \in SUBSET OfKind(raport.there, "fact"), ReadFacts(p, F)
        PROVE  \E b \in Snapshot : /\ batch' = [batch EXCEPT ![p] = b]
                                   /\ \A l \in b.up : KindOf[l[2]] \in ParentKinds(KindOf[l[1]]) /\ l[2] \in b.there
    <3>1. PICK b : b = [raport EXCEPT !.there = raport.there \ (OfKind(raport.there, "fact") \ F)]
      OBVIOUS
    <3>2. raport \in Snapshot /\ \A l \in raport.up : KindOf[l[2]] \in ParentKinds(KindOf[l[1]]) /\ l[2] \in raport.there
      BY <2>1 DEF Base
    <3>3. b \in Snapshot /\ b.up = raport.up /\ b.there = raport.there \ (OfKind(raport.there, "fact") \ F)
      BY <3>1, <3>2 DEF Snapshot
    <3>4. \A k \in Kind : "fact" \notin ParentKinds(k)
      BY DEF Kind, ParentKinds
    <3>5. \A l \in raport.up : KindOf[l[1]] \in Kind
      BY <3>2, KindAssumption DEF Snapshot
    <3>6. \A l \in b.up : KindOf[l[2]] \in ParentKinds(KindOf[l[1]]) /\ l[2] \in b.there
      BY <3>2, <3>3, <3>4, <3>5 DEF OfKind
    <3>7. batch' = [batch EXCEPT ![p] = b]
      BY <2>3, <3>1 DEF ReadFacts
    <3>. QED  BY <3>3, <3>6, <3>7
  <2>. QED  BY <2>2, <2>3
<1>4. DOMAIN kinds' = Proc /\ clean' \in [Proc -> BOOLEAN]
  BY DEF Read, ReadFacts, Base
<1>5. \A q \in Proc \ {p} : Still(q)
  BY <1>1, <1>3 DEF Read, ReadFacts, Still, Base
<1>6. Types'
  BY <1>1, <1>3, <1>4 DEF Types, Base
<1>7. Resting(p)'
  BY <1>1, <1>3, NoneAssumption DEF Base, Resting, Running, JobOf
<1>. QED  BY <1>1, <1>2, <1>5, <1>6, <1>7, BaseOfStep

LEMMA BaseFill ==
  ASSUME Base, NEW p \in Proc, StoreTable(p) \/ ImportTable(p)
  PROVE  Base'
<1>1. PICK k, S : /\ S = Kept(p, k) /\ Fill(p, k, S)
                  /\ Running(p) /\ JobOf(p) # "objects" /\ batch[p] # None
  BY DEF StoreTable, ImportTable, Base, Resting
<1>2. /\ UNCHANGED <<raport, jobs, path, at, held, batch>> /\ Stored(p)
      /\ kinds' = [kinds EXCEPT ![p] = Tail(@)]
  BY <1>1 DEF Fill
<1>3. Grows
  <2>1. PICK b : b = batch[p]
    OBVIOUS
  <2>2. b \in Snapshot /\ \A l \in b.up : KindOf[l[2]] \in ParentKinds(KindOf[l[1]])
    BY <1>1, <2>1 DEF Base, Resting
  <2>3. S \in SUBSET Thing
    BY <1>1, <2>1, <2>2 DEF Kept, OfKind, Snapshot
  <2>4. PICK L : L = {l \in b.up : l[1] \in S /\ l[2] \in Found(p, l[1])}
    OBVIOUS
  <2>5. Upsert(S, L, Sets(p, k))
    BY <1>1, <2>1, <2>4 DEF Fill
  <2>6. \A l \in b.up : l \in Thing \X Thing
    BY <2>2 DEF Snapshot
  <2>7. L \subseteq S \X rows
    BY <2>4, <2>6 DEF Found
  <2>8. \A l \in L : KindOf[l[2]] \in LinkKinds(KindOf[l[1]])
    BY <2>2, <2>4, <2>6, ParentLinks, KindAssumption
  <2>. QED  BY <2>3, <2>5, <2>7, <2>8, UpsertTyped DEF Grows
<1>4. clean' \in [Proc -> BOOLEAN] /\ fresh' \in {"nothing", "tables", "facts"}
  BY <1>2, StoredTyped
<1>5. held' \in [Proc -> SUBSET rows']
  BY <1>2, <1>3 DEF Base, Grows
<1>6. Types' /\ \A q \in Proc \ {p} : Still(q)
  BY <1>2, <1>4 DEF Types, Still, Base
<1>7. Resting(p)'
  BY <1>1, <1>2 DEF Base, Resting, Running, JobOf
<1>. QED  BY <1>2, <1>3, <1>5, <1>6, <1>7, BaseOfStep

LEMMA BaseFacts ==
  ASSUME Base, NEW p \in Proc, NEW read \in SUBSET raport.crew, StoreFacts(p, read)
  PROVE  Base'
<1>1. /\ Running(p) /\ JobOf(p) = "facts" /\ kinds[p] # <<>>
      /\ UNCHANGED <<raport, coded, jobs, path, at, held, batch>>
      /\ kinds' = [kinds EXCEPT ![p] = <<>>]
  BY DEF StoreFacts
<1>2. clean' \in [Proc -> BOOLEAN] /\ fresh' \in {"nothing", "tables", "facts"}
  BY DEF StoreFacts, Base
<1>3. Grows
  <2>1. PICK b, S : /\ b = batch[p]
                    /\ S = {f \in OfKind(batch[p].there, "fact") : Up(batch[p], f) \subseteq rows /\ Placed(batch[p], f)}
    OBVIOUS
  <2>2. PICK by \in SUBSET {l \in read : l[1] \in S /\ l[2] \in rows} :
           Upsert(S, by \cup {l \in b.up : l[1] \in S}, {"floor", "work", "contractor"})
    BY <2>1 DEF StoreFacts
  <2>3. b # None
    BY <1>1, <2>1 DEF Base, Resting
  <2>4. /\ b \in Snapshot
        /\ \A l \in b.up : KindOf[l[2]] \in ParentKinds(KindOf[l[1]]) /\ l[2] \in b.there
    BY <2>1, <2>3 DEF Base, Resting
  <2>5. S \in SUBSET Thing /\ \A f \in S : KindOf[f] = "fact" /\ Up(b, f) \subseteq rows
    BY <2>1, <2>4 DEF OfKind, Snapshot
  <2>6. \A l \in b.up : l \in Thing \X Thing
    BY <2>4 DEF Snapshot
  <2>7. {l \in b.up : l[1] \in S} \subseteq S \X rows
    BY <2>4, <2>5, <2>6 DEF Up
  <2>8. by \subseteq S \X rows /\ \A l \in by : KindOf[l[2]] = "contractor"
    BY <2>2, RaportTyped DEF Base
  <2>9. \A l \in b.up : l[1] \in S => KindOf[l[2]] \in LinkKinds(KindOf[l[1]])
    BY <2>4, <2>6, ParentLinks, KindAssumption
  <2>10. \A l \in by : KindOf[l[2]] \in LinkKinds(KindOf[l[1]])
    BY <2>5, <2>8 DEF LinkKinds
  <2>11. PICK L : L = by \cup {l \in b.up : l[1] \in S}
    OBVIOUS
  <2>12. L \subseteq S \X rows /\ \A l \in L : KindOf[l[2]] \in LinkKinds(KindOf[l[1]])
    BY <2>7, <2>8, <2>9, <2>10, <2>11
  <2>13. Upsert(S, L, {"floor", "work", "contractor"})
    BY <2>2, <2>11
  <2>. QED  BY <2>5, <2>12, <2>13, UpsertTyped DEF Grows
<1>4. held' \in [Proc -> SUBSET rows']
  BY <1>1, <1>3 DEF Base, Grows
<1>5. Types' /\ \A q \in Proc \ {p} : Still(q)
  BY <1>1, <1>2 DEF Types, Still, Base
<1>6. Resting(p)'
  BY <1>1 DEF Base, Resting, Running, JobOf
<1>. QED  BY <1>1, <1>3, <1>4, <1>5, <1>6, BaseOfStep

LEMMA BaseOutside ==
  ASSUME Base,
         \/ \E v \in Versions : RaportChanges(v)
         \/ \E t \in Thing : Edit(t) \/ Remove(t)
  PROVE  Base' /\ fresh' = "nothing" /\ \A p \in Proc : ~clean'[p]
<1>1. Disturb /\ UNCHANGED <<jobs, path, at, batch, kinds>>
  BY DEF RaportChanges, Edit, Remove, local
<1>2. clean' \in [Proc -> BOOLEAN] /\ fresh' = "nothing" /\ \A p \in Proc : ~clean'[p]
  BY <1>1 DEF Disturb
<1>3. \A p \in Proc : Resting(p)'
  BY <1>1, StillRests DEF Base, Still
<1>4. raport' \in Versions
  BY DEF RaportChanges, Edit, Remove, Base
<1>5. /\ rows' \subseteq Thing /\ links' \subseteq rows' \X rows'
      /\ \A l \in links' : KindOf[l[2]] \in LinkKinds(KindOf[l[1]])
      /\ held' \in [Proc -> SUBSET rows']
  <2>1. CASE \E v \in Versions : RaportChanges(v)
    BY <2>1 DEF RaportChanges, Base, tables, local
  <2>2. CASE \E t \in Thing : Edit(t)
    <3>1. PICK t \in rows :
            /\ KindOf[t] \in {"set", "group", "type", "work"} /\ UNCHANGED <<rows, held>>
            /\ \E above \in {{}} \cup {{q} : q \in {q \in rows : KindOf[q] \in ParentKinds(KindOf[t])}} :
                 links' = {l \in links : l[1] = t => above = {}} \cup {<<t, q>> : q \in above}
      BY <2>2 DEF Edit, local
    <3>2. PICK above \in {{}} \cup {{q} : q \in {q \in rows : KindOf[q] \in ParentKinds(KindOf[t])}} :
            links' = {l \in links : l[1] = t => above = {}} \cup {<<t, q>> : q \in above}
      BY <3>1
    <3>3. \A q \in above : q \in rows /\ KindOf[q] \in LinkKinds(KindOf[t])
      BY <3>1, <3>2 DEF LinkKinds
    <3>. QED  BY <3>1, <3>2, <3>3 DEF Base
  <2>3. CASE \E t \in Thing : Remove(t)
    <3>1. /\ rows' \subseteq rows
          /\ links' = {l \in links : l[1] \in rows' /\ l[2] \in rows'}
          /\ held' = [p \in Proc |-> held[p] \cap rows']
      BY <2>3 DEF Remove
    <3>. QED  BY <3>1 DEF Base
  <2>. QED  BY <2>1, <2>2, <2>3
<1>. QED  BY <1>1, <1>2, <1>3, <1>4, <1>5 DEF Base

LEMMA BaseStays == ASSUME Base, [Next]_vars PROVE Base'
<1>1. CASE UNCHANGED vars
  <2>1. \A p \in Proc : Resting(p)'
    BY <1>1, StillRests DEF Base, Still, vars, local
  <2>. QED  BY <1>1, <2>1 DEF Base, vars, local, tables
<1>2. ASSUME NEW p \in Proc, (\E request \in Duty[p] : Ask(p, request)) \/ AskImport(p) \/ Step(p) \/ Stop(p)
      PROVE  Base'
  <2>1. CASE AskImport(p)
    BY <2>1, BaseAsk DEF AskImport
  <2>2. CASE Step(p)
    BY <2>2, BaseLists, BaseWalk, BaseEnds, BaseRead, BaseFill, BaseFacts DEF Step
  <2>. QED  BY <1>2, <2>1, <2>2, BaseAsk, BaseEnds
<1>3. CASE \E v \in Versions \ {raport} : RaportChanges(v)
  BY <1>3, BaseOutside
<1>4. CASE (\E t \in rows : Edit(t)) \/ (\E t \in Removable : Remove(t))
  <2>1. \E t \in Thing : Edit(t) \/ Remove(t)
    BY <1>4 DEF Edit, Remove, Base
  <2>. QED  BY <2>1, BaseOutside
<1>. QED  BY <1>1, <1>2, <1>3, <1>4 DEF Next

LEMMA BaseBegins == Init => Base
<1>1. SUFFICES ASSUME Init PROVE Base
  OBVIOUS
<1>2. \A p \in Proc : Resting(p)
  BY <1>1 DEF Init, Resting, Running
<1>3. <<>> \in Seq(Level)
  OBVIOUS
<1>. QED  BY <1>1, <1>2, <1>3 DEF Init, Base

-----------------------------------------------------------------------------
(* A full sync repairs the tables.                                          *)

Catalogue == {"set", "group", "type", "work"}

\* The row is there, below the rows of its parents.
Right(t)    == t \in rows /\ Parents(t) = Up(raport, t)
AllRight(k) == \A t \in OfKind(raport.there, k) : Right(t)

\* What a full sync still has to do at each of its jobs, and the kinds that are
\* right by then.
Stages == {FullSync, <<"contractors", "contracts", "objects", "catalog">>,
           <<"contracts", "objects", "catalog">>, <<"objects", "catalog">>, <<"catalog">>}

KindsBefore(job) ==
  CASE job = "users"       -> {}
    [] job = "contractors" -> {"user"}
    [] job = "contracts"   -> {"user", "contractor"}
    [] job = "objects"     -> {"user", "contractor", "contract"}
    [] job = "catalog"     -> {"user", "contractor", "contract"} \cup Structure

KindsOf(job) ==
  CASE job = "users"       -> {"user"}
    [] job = "contractors" -> {"contractor"}
    [] job = "contracts"   -> {"contract"}
    [] job = "objects"     -> Structure
    [] job = "catalog"     -> Catalogue

\* The tables a job of a full sync may still have to fill, and the kinds of the
\* same job that are right when one of them is at the head.
ListsOf(job) ==
  CASE job = "users"       -> {<<"user">>}
    [] job = "contractors" -> {<<"contractor">>}
    [] job = "contracts"   -> {<<"contract">>}
    [] job = "catalog"     -> {<<"set", "group", "type", "work">>, <<"group", "type", "work">>,
                               <<"type", "work">>, <<"work">>}

TablesBefore(k) ==
  CASE k = "group" -> {"set"}
    [] k = "type"  -> {"set", "group"}
    [] k = "work"  -> {"set", "group", "type"}
    [] OTHER       -> {}

\* A full sync that nothing has come between.
CleanSync(p) == Running(p) /\ clean[p] /\ jobs[p] # <<"facts">>

\* Its earlier jobs have put their tables right,
Onward(p) == CleanSync(p) => jobs[p] \in Stages /\ \A k \in KindsBefore(JobOf(p)) : AllRight(k)

\* its present job the earlier ones of its tables,
Filling(p) ==
  CleanSync(p) /\ JobOf(p) # "objects" /\ batch[p] # None =>
    /\ batch[p] = raport
    /\ \/ kinds[p] = <<>> /\ \A k \in KindsOf(JobOf(p)) : AllRight(k)
       \/ kinds[p] \in ListsOf(JobOf(p)) /\ \A k \in TablesBefore(Head(kinds[p])) : AllRight(k)

\* and where it goes down the structure, the levels above are the parents,
BelowOf(x) == IF x = None THEN OfKind(raport.there, "project") ELSE Below(raport, x)

Spine(p) ==
  LET s == path[p]  n == Len(path[p]) IN
    /\ s[n].of = None
    /\ \A i \in 1..n : s[i].left \subseteq BelowOf(s[i].of)
    /\ \A i \in 1..(n - 1) : /\ s[i].of \in BelowOf(s[i + 1].of)
                             /\ n - i \in 1..6 /\ KindOf[s[i].of] = LevelKind[n - i]
    /\ at[p] # None => at[p] \in BelowOf(s[1].of)

Ahead(p) == UNION {path[p][i].left : i \in DOMAIN path[p]}

\* and what is below a row it has seen is seen too, or still ahead.
Seen(p, V) ==
  /\ V \subseteq raport.there
  /\ \A t \in V : KindOf[t] \in Structure /\ Right(t)
  /\ at[p] # None => at[p] \in V
  /\ OfKind(raport.there, "project") \subseteq V \cup Ahead(p)
  /\ \A u \in V \ {at[p]} : Below(raport, u) \subseteq V \cup Ahead(p)

Walking(p) == CleanSync(p) /\ path[p] # <<>> => Spine(p) /\ \E V : Seen(p, V)

\* Facts count as read undisturbed only if the other tables are right.
CleanFacts(p) == clean[p] /\ jobs[p] = <<"facts">>
Ready(p)      == CleanFacts(p) => fresh # "nothing"

Syncing == \A p \in Proc : Onward(p) /\ Filling(p) /\ Walking(p) /\ Ready(p)

SyncInv == Base /\ Syncing /\ SyncRepairs

\* The words of the sequences above.
LEMMA StageFacts ==
  /\ \A js \in Stages : /\ js # <<"facts">> /\ js # <<>>
                        /\ Head(js) \in {"users", "contractors", "contracts", "objects", "catalog"}
                        /\ \/ /\ Tail(js) \in Stages /\ Len(js) > 1
                              /\ KindsBefore(Head(Tail(js))) \subseteq KindsBefore(Head(js)) \cup KindsOf(Head(js))
                           \/ js = <<"catalog">> /\ Tail(js) = <<>> /\ Head(js) = "catalog"
  /\ FullSync \in Stages /\ Head(FullSync) = "users" /\ KindsBefore("users") = {}
<1>1. /\ Tail(FullSync) = <<"contractors", "contracts", "objects", "catalog">>
      /\ Tail(<<"contractors", "contracts", "objects", "catalog">>) = <<"contracts", "objects", "catalog">>
      /\ Tail(<<"contracts", "objects", "catalog">>) = <<"objects", "catalog">>
      /\ Tail(<<"objects", "catalog">>) = <<"catalog">> /\ Tail(<<"catalog">>) = <<>>
  BY DEF FullSync
<1>2. /\ Head(FullSync) = "users" /\ Head(<<"contractors", "contracts", "objects", "catalog">>) = "contractors"
      /\ Head(<<"contracts", "objects", "catalog">>) = "contracts"
      /\ Head(<<"objects", "catalog">>) = "objects" /\ Head(<<"catalog">>) = "catalog"
      /\ Head(<<"facts">>) = "facts"
  BY DEF FullSync
<1>3. /\ Len(FullSync) = 5 /\ Len(<<"contractors", "contracts", "objects", "catalog">>) = 4
      /\ Len(<<"contracts", "objects", "catalog">>) = 3 /\ Len(<<"objects", "catalog">>) = 2
  BY DEF FullSync
<1>4. \A js \in Stages : js # <<>>
  BY DEF Stages, FullSync
<1>5. /\ KindsBefore("users") = {} /\ KindsBefore("contractors") \subseteq KindsBefore("users") \cup KindsOf("users")
      /\ KindsBefore("contracts") \subseteq KindsBefore("contractors") \cup KindsOf("contractors")
      /\ KindsBefore("objects") \subseteq KindsBefore("contracts") \cup KindsOf("contracts")
      /\ KindsBefore("catalog") \subseteq KindsBefore("objects") \cup KindsOf("objects")
  BY DEF KindsBefore, KindsOf
<1>6. 5 > 1 /\ 4 > 1 /\ 3 > 1 /\ 2 > 1
  OBVIOUS
<1>7. \A js \in Stages : /\ Head(js) \in {"users", "contractors", "contracts", "objects", "catalog"}
                         /\ js # <<"facts">>
  <2>1. \A js \in Stages : Head(js) \in {"users", "contractors", "contracts", "objects", "catalog"}
    BY <1>2 DEF Stages
  <2>. QED  BY <1>2, <2>1
<1>8. \A js \in Stages : \/ /\ Tail(js) \in Stages /\ Len(js) > 1
                            /\ KindsBefore(Head(Tail(js))) \subseteq KindsBefore(Head(js)) \cup KindsOf(Head(js))
                         \/ js = <<"catalog">> /\ Tail(js) = <<>> /\ Head(js) = "catalog"
  BY <1>1, <1>2, <1>3, <1>5, <1>6, Zenon DEF Stages
<1>. QED  BY <1>2, <1>4, <1>5, <1>7, <1>8 DEF Stages

LEMMA TableFacts ==
  ASSUME NEW job \in {"users", "contractors", "contracts", "catalog"}
  PROVE  /\ TablesOf(job) \in ListsOf(job) /\ TablesBefore(Head(TablesOf(job))) = {}
         /\ \A ks \in ListsOf(job) :
              /\ ks # <<>> /\ Head(ks) \in Kind \ {"fact"}
              /\ ParentKinds(Head(ks)) \subseteq KindsBefore(job) \cup TablesBefore(Head(ks))
              /\ \/ Tail(ks) = <<>> /\ KindsOf(job) \subseteq TablesBefore(Head(ks)) \cup {Head(ks)}
                 \/ /\ Tail(ks) \in ListsOf(job)
                    /\ TablesBefore(Head(Tail(ks))) \subseteq TablesBefore(Head(ks)) \cup {Head(ks)}
<1>1. /\ Tail(<<"set", "group", "type", "work">>) = <<"group", "type", "work">>
      /\ Tail(<<"group", "type", "work">>) = <<"type", "work">> /\ Tail(<<"type", "work">>) = <<"work">>
      /\ Tail(<<"work">>) = <<>> /\ Tail(<<"user">>) = <<>> /\ Tail(<<"contractor">>) = <<>>
      /\ Tail(<<"contract">>) = <<>>
  OBVIOUS
<1>2. /\ Head(<<"set", "group", "type", "work">>) = "set" /\ Head(<<"group", "type", "work">>) = "group"
      /\ Head(<<"type", "work">>) = "type" /\ Head(<<"work">>) = "work" /\ Head(<<"user">>) = "user"
      /\ Head(<<"contractor">>) = "contractor" /\ Head(<<"contract">>) = "contract"
  OBVIOUS
<1>3. /\ TablesBefore("set") = {} /\ TablesBefore("group") = {"set"} /\ TablesBefore("type") = {"set", "group"}
      /\ TablesBefore("work") = {"set", "group", "type"} /\ TablesBefore("user") = {}
      /\ TablesBefore("contractor") = {} /\ TablesBefore("contract") = {}
  BY DEF TablesBefore
<1>4. /\ ParentKinds("set") = {} /\ ParentKinds("group") = {"set"} /\ ParentKinds("type") = {"group"}
      /\ ParentKinds("work") = {"type"} /\ ParentKinds("user") = {} /\ ParentKinds("contractor") = {}
      /\ ParentKinds("contract") = {"contractor"}
  BY DEF ParentKinds
<1>5. CASE job = "users"
  BY <1>1, <1>2, <1>3, <1>4, <1>5 DEF TablesOf, ListsOf, KindsOf, KindsBefore, Kind
<1>6. CASE job = "contractors"
  BY <1>1, <1>2, <1>3, <1>4, <1>6 DEF TablesOf, ListsOf, KindsOf, KindsBefore, Kind
<1>7. CASE job = "contracts"
  BY <1>1, <1>2, <1>3, <1>4, <1>7 DEF TablesOf, ListsOf, KindsOf, KindsBefore, Kind
<1>8. CASE job = "catalog"
  <2>1. /\ TablesOf(job) = <<"set", "group", "type", "work">> /\ KindsOf(job) = Catalogue
        /\ ListsOf(job) = {<<"set", "group", "type", "work">>, <<"group", "type", "work">>, <<"type", "work">>, <<"work">>}
    BY <1>8 DEF TablesOf, ListsOf, KindsOf
  <2>2. TablesOf(job) \in ListsOf(job) /\ TablesBefore(Head(TablesOf(job))) = {}
    BY <1>2, <1>3, <2>1
  <2>3. \A ks \in ListsOf(job) : ks # <<>>
    BY <2>1
  <2>4. \A ks \in ListsOf(job) : Head(ks) \in Kind \ {"fact"} /\ ParentKinds(Head(ks)) \subseteq TablesBefore(Head(ks))
    BY <1>2, <1>3, <1>4, <2>1 DEF Kind
  <2>5. \A ks \in ListsOf(job) :
          \/ Tail(ks) = <<>> /\ KindsOf(job) \subseteq TablesBefore(Head(ks)) \cup {Head(ks)}
          \/ /\ Tail(ks) \in ListsOf(job)
             /\ TablesBefore(Head(Tail(ks))) \subseteq TablesBefore(Head(ks)) \cup {Head(ks)}
    <3>. DEFINE Follows(ks) ==
           \/ Tail(ks) = <<>> /\ KindsOf(job) \subseteq TablesBefore(Head(ks)) \cup {Head(ks)}
           \/ /\ Tail(ks) \in ListsOf(job)
              /\ TablesBefore(Head(Tail(ks))) \subseteq TablesBefore(Head(ks)) \cup {Head(ks)}
    <3>1. Follows(<<"set", "group", "type", "work">>)
      BY <1>1, <1>2, <1>3, <2>1, Zenon
    <3>2. Follows(<<"group", "type", "work">>)
      BY <1>1, <1>2, <1>3, <2>1, Zenon
    <3>3. Follows(<<"type", "work">>)
      BY <1>1, <1>2, <1>3, <2>1, Zenon
    <3>4. Follows(<<"work">>)
      BY <1>1, <1>2, <1>3, <2>1, Zenon DEF Catalogue
    <3>. HIDE DEF Follows
    <3>5. \A ks \in ListsOf(job) : Follows(ks)
      BY <2>1, <3>1, <3>2, <3>3, <3>4
    <3>. QED  BY <3>5 DEF Follows
  <2>. QED  BY <2>2, <2>3, <2>4, <2>5
<1>. QED  BY <1>5, <1>6, <1>7, <1>8

\* Raport stands still, and rows of the structure and the lists stay right.
Keeping ==
  /\ raport' = raport
  /\ \A t \in Thing : KindOf[t] # "fact" /\ Right(t) => Right(t)'

LEMMA SameKeeps == ASSUME UNCHANGED <<raport, tables>> PROVE Keeping
BY DEF Keeping, Right, Parents, Up, tables

\* An upsert leaves the rows right that it is not about,
LEMMA UpsertKeeps ==
  ASSUME Base, NEW S, NEW found, NEW ks, Upsert(S, found, ks), raport' = raport,
         \A l \in found : l[1] \in S
  PROVE  \A t : t \notin S /\ Right(t) => Right(t)'
BY DEF Upsert, Base, Right, Parents, Up

\* and puts right what it is given all the parents of.
LEMMA UpsertRight ==
  ASSUME Base, NEW S, NEW found, NEW ks, Upsert(S, found, ks), raport' = raport,
         NEW t \in S, KindOf[t] # "fact", ParentKinds(KindOf[t]) \subseteq ks,
         Up(raport, t) \subseteq rows, \A q : <<t, q>> \in found <=> q \in Up(raport, t)
  PROVE  Right(t)'
<1>1. \A l \in links : l[1] = t => KindOf[l[2]] \in ks
  BY DEF Base, LinkKinds
<1>2. \A q : <<t, q>> \in links' <=> q \in Up(raport, t)
  BY <1>1 DEF Upsert
<1>3. t \in rows' /\ rows \subseteq rows'
  BY DEF Upsert
<1>4. Up(raport', t) = Up(raport, t)
  OBVIOUS
<1>. QED  BY <1>2, <1>3, <1>4 DEF Right, Parents

\* A step after which nothing counts as undisturbed.
LEMMA DisturbSyncs == ASSUME Base', Disturb PROVE SyncInv'
BY DEF Disturb, SyncInv, Syncing, SyncRepairs, CleanSync, Onward, Filling, Walking, Base, CleanFacts, Ready

\* What another call knows stays.
LEMMA OthersSync ==
  ASSUME Keeping, NEW q, Still(q), clean'[q] => clean[q], Onward(q), Filling(q), Walking(q),
         Ready(q), fresh # "nothing" => fresh' # "nothing", raport.there \subseteq Thing
  PROVE  Onward(q)' /\ Filling(q)' /\ Walking(q)' /\ Ready(q)'
<1>1. /\ jobs'[q] = jobs[q] /\ path'[q] = path[q] /\ at'[q] = at[q] /\ batch'[q] = batch[q]
      /\ kinds'[q] = kinds[q] /\ raport' = raport
  BY DEF Still, Keeping
<1>2. CleanSync(q)' => CleanSync(q)
  BY <1>1 DEF CleanSync, Running
<1>3. \A k : k # "fact" /\ AllRight(k) => AllRight(k)'
  BY <1>1 DEF AllRight, OfKind, Keeping
<1>4. Onward(q)'
  <2>1. \A js \in Stages : "fact" \notin KindsBefore(Head(js))
    BY StageFacts DEF KindsBefore, Structure
  <2>. QED  BY <1>1, <1>2, <1>3, <2>1 DEF Onward, JobOf
<1>5. Filling(q)'
  <2>1. \A k : "fact" \notin TablesBefore(k)
    BY DEF TablesBefore
  <2>2. \A js \in Stages : "fact" \notin KindsOf(Head(js))
    BY StageFacts DEF KindsOf, Structure, Catalogue
  <2>. QED  BY <1>1, <1>2, <1>3, <2>1, <2>2 DEF Onward, Filling, JobOf
<1>6. Walking(q)'
  <2>1. SUFFICES ASSUME CleanSync(q), path[q] # <<>> PROVE Spine(q)' /\ \E V : Seen(q, V)'
    BY <1>1, <1>2 DEF Walking
  <2>2. Spine(q)'
    BY <1>1, <2>1 DEF Walking, Spine, BelowOf
  <2>3. PICK V : Seen(q, V)
    BY <2>1 DEF Walking
  <2>4. \A t \in V : KindOf[t] \in Structure /\ Right(t)'
    BY <2>3 DEF Seen, Keeping, Structure
  <2>5. Seen(q, V)'
    BY <1>1, <2>3, <2>4 DEF Seen, Ahead
  <2>. QED  BY <2>2, <2>5
<1>7. Ready(q)'
  BY <1>1 DEF Ready, CleanFacts
<1>. QED  BY <1>4, <1>5, <1>6, <1>7

\* Everything but facts is right.
Repaired == \A t \in raport.there : KindOf[t] # "fact" => Right(t)

\* What is left to show of a step of a call.
LEMMA SyncOfStep ==
  ASSUME SyncInv, Base', Keeping, NEW p \in Proc,
         \A q \in Proc \ {p} : Still(q) /\ (clean'[q] => clean[q]),
         Onward(p)' /\ Filling(p)' /\ Walking(p)' /\ Ready(p)',
         fresh # "nothing" => fresh' # "nothing",
         fresh' # "nothing" => fresh # "nothing" \/ Repaired'
  PROVE  SyncInv'
<1>1. raport.there \subseteq Thing
  BY RaportTyped DEF SyncInv, Base
<1>2. Syncing'
  BY <1>1, OthersSync DEF SyncInv, Syncing
<1>3. SyncRepairs'
  <2>1. SUFFICES ASSUME fresh' # "nothing" PROVE Repaired'
    BY DEF SyncRepairs, Repaired, Right
  <2>2. CASE fresh # "nothing"
    <3>1. Repaired
      BY <2>2 DEF SyncInv, SyncRepairs, Repaired, Right
    <3>. QED  BY <1>1, <3>1 DEF Keeping, Repaired
  <2>. QED  BY <2>1, <2>2
<1>. QED  BY <1>2, <1>3 DEF SyncInv

LEMMA SyncAsk ==
  ASSUME SyncInv, Base', NEW p \in Proc, NEW request, Ask(p, request) \/ AskImport(p)
  PROVE  SyncInv'
<1>1. /\ UNCHANGED <<raport, tables, path, at, held, batch, kinds, fresh>>
      /\ \A q \in Proc \ {p} : Still(q) /\ clean'[q] = clean[q]
      /\ ~Running(p)
  BY DEF Ask, AskImport, Still, SyncInv, Base
<1>2. path'[p] = <<>> /\ batch'[p] = None
  BY <1>1 DEF SyncInv, Base, Resting
<1>3. Walking(p)' /\ Filling(p)'
  BY <1>2 DEF Walking, Filling
<1>4. CleanSync(p)' => jobs'[p] = FullSync
  BY DEF Ask, AskImport, CleanSync, SyncInv, Base
<1>5. Onward(p)'
  <2>1. SUFFICES ASSUME CleanSync(p)' PROVE jobs'[p] \in Stages /\ KindsBefore(JobOf(p)') = {}
    BY DEF Onward
  <2>. QED  BY <1>4, <2>1, StageFacts DEF JobOf
<1>6. Keeping
  BY <1>1, SameKeeps
<1>7. Ready(p)'
  <2>1. CASE AskImport(p)
    BY <2>1 DEF AskImport, Ready, CleanFacts, SyncInv, Base
  <2>2. CASE Ask(p, request)
    <3>1. FullSync # <<"facts">>
      BY StageFacts
    <3>. QED  BY <1>1, <2>2, <3>1 DEF Ask, Ready, CleanFacts, SyncInv, Base
  <2>. QED  BY <2>1, <2>2
<1>. QED  BY <1>1, <1>3, <1>5, <1>6, <1>7, SyncOfStep

LEMMA SyncStop ==
  ASSUME SyncInv, Base', NEW p \in Proc, Stop(p)
  PROVE  SyncInv'
<1>1. UNCHANGED <<raport, tables, fresh>> /\ \A q \in Proc \ {p} : Still(q) /\ clean'[q] = clean[q]
  BY DEF Stop, Nothing, Still, SyncInv, Base
<1>2. ~clean'[p]
  BY DEF Stop, SyncInv, Base
<1>3. Onward(p)' /\ Walking(p)' /\ Filling(p)' /\ Ready(p)'
  BY <1>2 DEF Walking, Filling, Onward, CleanSync, Ready, CleanFacts
<1>4. Keeping
  BY <1>1, SameKeeps
<1>. QED  BY <1>1, <1>3, <1>4, SyncOfStep

\* When a job has put its tables right, the next one begins, or the sync is over.
LEMMA SyncNextJob ==
  ASSUME SyncInv, Base', NEW p \in Proc, NextJob(p), UNCHANGED <<raport, tables, clean>>, Running(p),
         CleanSync(p) => \A k \in KindsOf(JobOf(p)) : AllRight(k)
  PROVE  SyncInv'
<1>1. /\ \A q \in Proc \ {p} : Still(q) /\ clean'[q] = clean[q]
      /\ path'[p] = <<>> /\ batch'[p] = None /\ jobs'[p] = Tail(jobs[p])
  BY DEF NextJob, Nothing, Still, SyncInv, Base
<1>2. Keeping
  BY SameKeeps
<1>3. Walking(p)' /\ Filling(p)'
  BY <1>1 DEF Walking, Filling
<1>4. CleanSync(p) => /\ jobs[p] \in Stages
                      /\ \A k \in KindsBefore(JobOf(p)) \cup KindsOf(JobOf(p)) : AllRight(k)
  BY DEF SyncInv, Syncing, Onward
<1>5. \A k : AllRight(k) => AllRight(k)'
  BY DEF AllRight, OfKind, Right, Parents, Up, tables
<1>6. Onward(p)'
  <2>1. SUFFICES ASSUME CleanSync(p)' PROVE jobs'[p] \in Stages /\ \A k \in KindsBefore(JobOf(p)') : AllRight(k)'
    BY DEF Onward
  <2>2. clean[p] /\ jobs'[p] # <<>>
    BY <2>1 DEF CleanSync, Running
  <2>3. CASE jobs[p] = <<"facts">>
    <3>1. Tail(<<"facts">>) = <<>>
      OBVIOUS
    <3>. QED  BY <1>1, <2>2, <2>3, <3>1
  <2>4. CASE jobs[p] # <<"facts">>
    <3>1. CleanSync(p)
      BY <2>2, <2>4 DEF CleanSync
    <3>2. Tail(jobs[p]) \in Stages /\ KindsBefore(Head(Tail(jobs[p]))) \subseteq KindsBefore(Head(jobs[p])) \cup KindsOf(Head(jobs[p]))
      BY <1>1, <1>4, <2>2, <3>1, StageFacts
    <3>. QED  BY <1>1, <1>4, <1>5, <3>1, <3>2 DEF JobOf
  <2>. QED  BY <2>3, <2>4
<1>7. fresh' # "nothing" => fresh # "nothing" \/ Repaired'
  <2>1. SUFFICES ASSUME fresh' # "nothing", fresh = "nothing" PROVE Repaired'
    OBVIOUS
  <2>2. clean[p] /\ ~(Len(jobs[p]) > 1)
    BY <2>1 DEF NextJob
  <2>3. CASE jobs[p] = <<"facts">>
    BY <2>1, <2>2, <2>3 DEF SyncInv, Syncing, Ready, CleanFacts
  <2>4. CASE jobs[p] # <<"facts">>
    <3>1. CleanSync(p)
      BY <2>2, <2>4 DEF CleanSync
    <3>2. JobOf(p) = "catalog"
      BY <1>4, <2>2, <3>1, StageFacts DEF JobOf
    <3>3. \A k \in Kind \ {"fact"} : k \in KindsBefore("catalog") \cup KindsOf("catalog")
      BY DEF Kind, KindsBefore, KindsOf, Structure, Catalogue
    <3>4. \A k \in Kind \ {"fact"} : AllRight(k)'
      BY <1>4, <1>5, <3>1, <3>2, <3>3
    <3>5. raport' \in Versions /\ raport'.there \subseteq Thing
      BY RaportTyped DEF Base
    <3>. QED  BY <3>4, <3>5, KindAssumption DEF Repaired, AllRight, OfKind
  <2>. QED  BY <2>3, <2>4
<1>8. fresh # "nothing" => fresh' # "nothing"
  BY DEF NextJob
<1>9. Ready(p)'
  <2>1. \A js \in Stages : Tail(js) # <<"facts">>
    <3>1. <<>> # <<"facts">>
      OBVIOUS
    <3>. QED  BY <3>1, StageFacts
  <2>2. Tail(<<"facts">>) # <<"facts">>
    OBVIOUS
  <2>. QED  BY <1>1, <1>4, <2>1, <2>2 DEF Ready, CleanFacts, CleanSync
<1>. QED  BY <1>1, <1>2, <1>3, <1>6, <1>7, <1>8, <1>9, SyncOfStep

\* A job that a full sync fills from lists.
LEMMA FillsJob ==
  ASSUME SyncInv, NEW p \in Proc, CleanSync(p), JobOf(p) # "objects"
  PROVE  JobOf(p) \in {"users", "contractors", "contracts", "catalog"} /\ jobs[p] \in Stages
BY StageFacts DEF SyncInv, Syncing, Onward, JobOf

\* A call that stores without reading facts is disturbing or a clean sync.
LEMMA StoresClean ==
  ASSUME SyncInv, NEW p \in Proc, Running(p), JobOf(p) # "facts", Stored(p)
  PROVE  Disturb \/ (CleanSync(p) /\ UNCHANGED <<clean, fresh>>)
<1>1. Head(<<"facts">>) = "facts"
  OBVIOUS
<1>. QED  BY <1>1 DEF Stored, CleanSync, JobOf

\* It stores a list whose parents are in the tables.
LEMMA FillRight ==
  ASSUME SyncInv, Base', NEW p \in Proc, CleanSync(p), JobOf(p) # "objects", batch[p] # None, kinds[p] # <<>>,
         Fill(p, Head(kinds[p]), Kept(p, Head(kinds[p])))
  PROVE  Keeping /\ kinds[p] \in ListsOf(JobOf(p)) /\ \E k : k = Head(kinds[p]) /\ AllRight(k)'
<1>1. PICK k, S, v : k = Head(kinds[p]) /\ S = Kept(p, k) /\ v = raport
  OBVIOUS
<1>2. JobOf(p) \in {"users", "contractors", "contracts", "catalog"} /\ jobs[p] \in Stages
  BY FillsJob
<1>3. /\ batch[p] = v /\ kinds[p] \in ListsOf(JobOf(p))
      /\ \A j \in KindsBefore(JobOf(p)) \cup TablesBefore(k) : AllRight(j)
  BY <1>1, <1>2 DEF SyncInv, Syncing, Onward, Filling
<1>4. k \in Kind \ {"fact"} /\ ParentKinds(k) \subseteq KindsBefore(JobOf(p)) \cup TablesBefore(k)
  BY <1>1, <1>2, <1>3, TableFacts
<1>5. /\ v \in Snapshot /\ v.there \subseteq Thing /\ v.up \subseteq v.there \X v.there
      /\ \A l \in v.up : KindOf[l[2]] \in ParentKinds(KindOf[l[1]]) /\ l[2] \in v.there
  BY <1>1, RaportTyped DEF SyncInv, Base
<1>6. Sets(p, k) = ParentKinds(k)
  BY <1>2 DEF Sets
<1>7. \A t \in OfKind(v.there, k) : \A q \in Up(v, t) : KindOf[q] \in ParentKinds(k) /\ q \in rows
  <2>1. SUFFICES ASSUME NEW t \in OfKind(v.there, k), NEW q \in Up(v, t)
                 PROVE  KindOf[q] \in ParentKinds(k) /\ q \in rows
    OBVIOUS
  <2>2. <<t, q>> \in v.up /\ KindOf[t] = k
    BY DEF OfKind, Up
  <2>3. KindOf[q] \in ParentKinds(k) /\ q \in v.there
    BY <1>5, <2>2
  <2>4. AllRight(KindOf[q])
    BY <1>3, <1>4, <2>3
  <2>. QED  BY <1>1, <2>3, <2>4 DEF AllRight, OfKind, Right
<1>8. \A t \in OfKind(v.there, k) : Found(p, t) = Up(v, t)
  BY <1>3, <1>6, <1>7 DEF Found, OfKind
<1>9. S = OfKind(v.there, k)
  BY <1>1, <1>3, <1>6, <1>7, <1>8 DEF Kept, OfKind
<1>10. PICK found : found = {l \in v.up : l[1] \in S /\ l[2] \in Found(p, l[1])}
  OBVIOUS
<1>11. Upsert(S, found, ParentKinds(k)) /\ raport' = v
  BY <1>1, <1>3, <1>6, <1>10 DEF Fill
<1>12. ASSUME NEW t \in S PROVE Right(t)'
  <2>1. \A q : <<t, q>> \in found <=> q \in Up(v, t)
    <3>1. \A q : <<t, q>> \in v.up => q \in v.there
      BY <1>5
    <3>. QED  BY <1>8, <1>9, <1>10, <3>1 DEF Up
  <2>2. KindOf[t] = k /\ Up(v, t) \subseteq rows
    BY <1>7, <1>9 DEF OfKind
  <2>. QED  BY <1>1, <1>4, <1>11, <2>1, <2>2, UpsertRight DEF SyncInv
<1>13. Keeping
  <2>1. \A l \in found : l[1] \in S
    BY <1>10
  <2>2. \A t : t \notin S /\ Right(t) => Right(t)'
    BY <1>1, <1>11, <2>1, UpsertKeeps DEF SyncInv
  <2>. QED  BY <1>1, <1>11, <1>12, <2>2 DEF Keeping
<1>14. AllRight(k)'
  BY <1>9, <1>11, <1>12 DEF AllRight
<1>. QED  BY <1>1, <1>3, <1>13, <1>14

LEMMA SyncFill ==
  ASSUME SyncInv, Base', NEW p \in Proc, StoreTable(p) \/ ImportTable(p)
  PROVE  SyncInv'
<1>1. /\ Fill(p, Head(kinds[p]), Kept(p, Head(kinds[p])))
      /\ Running(p) /\ JobOf(p) # "facts" /\ JobOf(p) # "objects" /\ batch[p] # None /\ kinds[p] # <<>>
  BY DEF StoreTable, ImportTable, SyncInv, Base, Resting
<1>2. /\ UNCHANGED <<raport, jobs, path, at, held, batch>> /\ Stored(p)
      /\ kinds' = [kinds EXCEPT ![p] = Tail(@)]
  BY <1>1 DEF Fill
<1>3. CASE Disturb
  BY <1>3, DisturbSyncs
<1>4. CASE CleanSync(p) /\ UNCHANGED <<clean, fresh>>
  <2>1. Keeping /\ kinds[p] \in ListsOf(JobOf(p)) /\ \E k : k = Head(kinds[p]) /\ AllRight(k)'
    BY <1>1, <1>4, FillRight
  <2>2. JobOf(p) \in {"users", "contractors", "contracts", "catalog"} /\ jobs[p] \in Stages
    BY <1>1, <1>4, FillsJob
  <2>3. \A k : k # "fact" /\ AllRight(k) => AllRight(k)'
    <3>1. raport.there \subseteq Thing
      BY RaportTyped DEF SyncInv, Base
    <3>. QED  BY <1>2, <2>1, <3>1 DEF AllRight, OfKind, Keeping
  <2>4. kinds'[p] = Tail(kinds[p]) /\ \A q \in Proc \ {p} : Still(q)
    BY <1>2 DEF SyncInv, Base, Still
  <2>5. CleanSync(p)' /\ JobOf(p)' = JobOf(p) /\ jobs'[p] = jobs[p]
    BY <1>2, <1>4 DEF CleanSync, Running, JobOf
  <2>6. /\ batch[p] = raport
        /\ \A k \in KindsBefore(JobOf(p)) \cup TablesBefore(Head(kinds[p])) : AllRight(k)
    BY <1>1, <1>4, <2>2 DEF SyncInv, Syncing, Onward, Filling
  <2>7. \A k \in KindsBefore(JobOf(p)) \cup TablesBefore(Head(kinds[p])) : AllRight(k)'
    <3>1. "fact" \notin KindsBefore(JobOf(p))
      BY <2>2 DEF KindsBefore, Structure
    <3>2. \A k : "fact" \notin TablesBefore(k)
      BY DEF TablesBefore
    <3>. QED  BY <2>3, <2>6, <3>1, <3>2
  <2>8. Onward(p)'
    BY <2>2, <2>5, <2>7 DEF Onward
  <2>9. Filling(p)'
    <3>1. \/ kinds'[p] = <<>> /\ \A k \in KindsOf(JobOf(p)) : AllRight(k)'
          \/ kinds'[p] \in ListsOf(JobOf(p)) /\ \A k \in TablesBefore(Head(kinds'[p])) : AllRight(k)'
      <4>1. PICK ks : ks = kinds[p]
        OBVIOUS
      <4>2. \/ Tail(ks) = <<>> /\ KindsOf(JobOf(p)) \subseteq TablesBefore(Head(ks)) \cup {Head(ks)}
            \/ /\ Tail(ks) \in ListsOf(JobOf(p))
               /\ TablesBefore(Head(Tail(ks))) \subseteq TablesBefore(Head(ks)) \cup {Head(ks)}
        BY <2>1, <2>2, <4>1, TableFacts
      <4>3. \A k \in TablesBefore(Head(ks)) \cup {Head(ks)} : AllRight(k)'
        BY <2>1, <2>7, <4>1
      <4>. QED  BY <2>4, <4>1, <4>2, <4>3
    <3>2. batch'[p] = raport'
      BY <1>2, <2>6
    <3>. QED  BY <2>5, <3>1, <3>2 DEF Filling
  <2>10. Walking(p)' /\ Ready(p)'
    <3>1. path'[p] = <<>>
      BY <1>1, <1>2 DEF SyncInv, Base, Resting
    <3>. QED  BY <2>5, <3>1 DEF Walking, Ready, CleanFacts, CleanSync
  <2>. QED  BY <1>4, <2>1, <2>4, <2>8, <2>9, <2>10, SyncOfStep
<1>. QED  BY <1>1, <1>2, <1>3, <1>4, StoresClean

LEMMA SyncRead ==
  ASSUME SyncInv, Base', NEW p \in Proc,
         Read(p) \/ \E F \in SUBSET OfKind(raport.there, "fact") : ReadFacts(p, F)
  PROVE  SyncInv'
<1>1. /\ UNCHANGED <<raport, tables, jobs, path, at, held, fresh>> /\ Running(p)
      /\ \A q \in Proc : clean'[q] => clean[q]
      /\ \A q \in Proc \ {p} : Still(q)
  BY DEF Read, ReadFacts, SyncInv, Base, Still
<1>2. Keeping
  BY <1>1, SameKeeps
<1>3. CleanSync(p)' => CleanSync(p) /\ JobOf(p)' = JobOf(p) /\ jobs'[p] = jobs[p]
  BY <1>1 DEF CleanSync, Running, JobOf
<1>4. JobOf(p) # "objects" /\ path'[p] = <<>>
  BY <1>1 DEF Read, ReadFacts, SyncInv, Base, Resting
<1>5. \A k : AllRight(k) => AllRight(k)'
  BY <1>1 DEF AllRight, OfKind, Right, Parents, Up, tables
<1>6. Onward(p)'
  BY <1>3, <1>5 DEF SyncInv, Syncing, Onward
<1>7. Filling(p)'
  <2>1. SUFFICES ASSUME CleanSync(p)
                 PROVE  batch'[p] = raport' /\ kinds'[p] \in ListsOf(JobOf(p)) /\ TablesBefore(Head(kinds'[p])) = {}
    BY <1>3 DEF Filling
  <2>2. JobOf(p) \in {"users", "contractors", "contracts", "catalog"}
    BY <1>4, <2>1, FillsJob
  <2>3. batch'[p] = raport /\ kinds'[p] = TablesOf(JobOf(p))
    BY <2>2 DEF Read, ReadFacts, SyncInv, Base
  <2>. QED  BY <1>1, <2>2, <2>3, TableFacts
<1>8. Walking(p)' /\ Ready(p)'
  BY <1>1, <1>4 DEF SyncInv, Syncing, Walking, Ready, CleanFacts
<1>. QED  BY <1>1, <1>2, <1>6, <1>7, <1>8, SyncOfStep

LEMMA SyncFilled ==
  ASSUME SyncInv, Base', NEW p \in Proc, Filled(p)
  PROVE  SyncInv'
<1>1. /\ Running(p) /\ batch[p] # None /\ kinds[p] = <<>> /\ NextJob(p) /\ UNCHANGED <<raport, tables, clean>>
      /\ JobOf(p) # "objects"
  BY DEF Filled, SyncInv, Base, Resting
<1>2. CleanSync(p) => \A k \in KindsOf(JobOf(p)) : AllRight(k)
  <2>1. CleanSync(p) => <<>> \notin ListsOf(JobOf(p))
    BY <1>1, FillsJob, TableFacts
  <2>. QED  BY <1>1, <2>1 DEF SyncInv, Syncing, Filling
<1>. QED  BY <1>1, <1>2, SyncNextJob

LEMMA LevelParents ==
  /\ ParentKinds(LevelKind[1]) = {} /\ ParentKinds(LevelKind[3]) = {"project", "queue"}
  /\ \A n \in {2, 4, 5, 6} : ParentKinds(LevelKind[n]) = {LevelKind[n - 1]}
<1>1. LevelKind[1] = "project" /\ LevelKind[2] = "queue" /\ LevelKind[3] = "object"
      /\ LevelKind[4] = "housing" /\ LevelKind[5] = "section" /\ LevelKind[6] = "floor"
  BY DEF LevelKind
<1>2. 2 - 1 = 1 /\ 4 - 1 = 3 /\ 5 - 1 = 4 /\ 6 - 1 = 5
  OBVIOUS
<1>. QED  BY <1>1, <1>2 DEF ParentKinds

\* A row that comes next in the structure is one level below those above it.
LEMMA LevelOfNext ==
  ASSUME Base, NEW p \in Proc, path[p] # <<>>, Spine(p), NEW t \in BelowOf(path[p][1].of)
  PROVE  Len(path[p]) \in 1..6 /\ KindOf[t] = LevelKind[Len(path[p])]
<1>1. PICK s, n : s = path[p] /\ n = Len(path[p])
  OBVIOUS
<1>2. n \in Nat \ {0}
  BY <1>1 DEF Base
<1>3. /\ s[n].of = None
      /\ \A i \in 1..(n - 1) : s[i].of \in BelowOf(s[i + 1].of) /\ n - i \in 1..6 /\ KindOf[s[i].of] = LevelKind[n - i]
  BY <1>1 DEF Spine
<1>4. raport.there \subseteq Thing
  BY RaportTyped DEF Base
<1>5. CASE n = 1
  <2>1. t \in OfKind(raport.there, "project")
    BY <1>1, <1>3, <1>5 DEF BelowOf
  <2>. QED  BY <1>1, <1>5, <2>1, Levels DEF OfKind
<1>6. CASE n # 1
  <2>1. 1 \in 1..(n - 1) /\ n - 1 \in 1..6
    BY <1>2, <1>3, <1>6
  <2>2. PICK x : x = s[1].of
    OBVIOUS
  <2>3. x \in raport.there /\ KindOf[x] = LevelKind[n - 1]
    BY <1>3, <2>1, <2>2 DEF BelowOf, OfKind, Below
  <2>4. t \in Thing /\ KindOf[t] = ChildKind(LevelKind[n - 1])
    BY <1>1, <1>4, <2>2, <2>3, NoneAssumption DEF BelowOf, Below
  <2>5. ChildKind(LevelKind[n - 1]) \in Kind
    BY <2>4, KindAssumption
  <2>6. n - 1 # 6
    BY <2>5, Levels DEF Kind
  <2>7. n - 1 \in 1..5 /\ (n - 1) + 1 = n /\ n \in 1..6
    BY <1>2, <2>1, <2>6
  <2>. QED  BY <1>1, <2>4, <2>7, Levels
<1>. QED  BY <1>5, <1>6

\* The levels above are of different kinds.
LEMMA AboveKinds ==
  ASSUME Base, NEW p \in Proc, path[p] # <<>>, Spine(p)
  PROVE  \A q \in Above(p) : \E i \in 1..(Len(path[p]) - 1) :
           q = path[p][i].of /\ KindOf[q] = LevelKind[Len(path[p]) - i]
<1>1. PICK s, n : s = path[p] /\ n = Len(path[p])
  OBVIOUS
<1>2. n \in Nat \ {0} /\ DOMAIN s = 1..n
  BY <1>1 DEF Base
<1>3. /\ s[n].of = None
      /\ \A i \in 1..(n - 1) : KindOf[s[i].of] = LevelKind[n - i]
  BY <1>1 DEF Spine
<1>4. ASSUME NEW q \in Above(p) PROVE \E i \in 1..(n - 1) : q = s[i].of /\ KindOf[q] = LevelKind[n - i]
  <2>1. PICK i \in 1..n : q = s[i].of /\ q # None
    BY <1>1, <1>2 DEF Above
  <2>2. i \in 1..(n - 1)
    BY <1>2, <1>3, <2>1
  <2>. QED  BY <1>3, <2>1, <2>2
<1>. QED  BY <1>1, <1>4

\* Those of the kinds a row has its parents of are its parents.
LEMMA ParentsAbove ==
  ASSUME Base, NEW p \in Proc, path[p] # <<>>, Spine(p), NEW t \in BelowOf(path[p][1].of)
  PROVE  /\ t \in raport.there /\ KindOf[t] \in Structure
         /\ {q \in Above(p) : KindOf[q] \in ParentKinds(KindOf[t])} = Up(raport, t)
<1>1. PICK s, n, v : s = path[p] /\ n = Len(path[p]) /\ v = raport
  OBVIOUS
<1>2. n \in 1..6 /\ KindOf[t] = LevelKind[n]
  BY <1>1, LevelOfNext
<1>3. /\ \A i \in 1..(n - 1) : s[i].of \in BelowOf(s[i + 1].of) /\ n - i \in 1..6 /\ KindOf[s[i].of] = LevelKind[n - i]
  BY <1>1 DEF Spine
<1>4. /\ v \in Versions /\ v.there \subseteq Thing
      /\ \A l \in v.up : KindOf[l[2]] \in ParentKinds(KindOf[l[1]]) /\ l[2] \in v.there
      /\ \A q \in v.there : <<t, q>> \in v.up => KindOf[q] \in ParentKinds(KindOf[t])
  BY <1>1, RaportTyped DEF Base
<1>5. \A l, m \in v.up : l[1] = m[1] /\ KindOf[l[2]] = KindOf[m[2]] => l[2] = m[2]
  BY <1>4, VersionAssumption
<1>6. t \in v.there
  BY <1>1 DEF BelowOf, Below, OfKind
<1>7. \A q \in Above(p) : \E i \in 1..(n - 1) : q = s[i].of /\ KindOf[q] = LevelKind[n - i]
  BY <1>1, AboveKinds
<1>8. KindOf[t] \in Structure
  BY <1>2, Levels
<1>9. \A q, r \in Up(v, t) : KindOf[q] = KindOf[r] => q = r
  BY <1>5 DEF Up
<1>10. DOMAIN s = 1..n
  BY <1>1 DEF Base
<1>11. \A i \in 1..(n - 1) : s[i].of \in v.there /\ s[i].of \in Above(p)
  <2>1. \A i \in 1..(n - 1) : i \in 1..n
    BY <1>2
  <2>2. \A i \in 1..(n - 1) : s[i].of \in v.there
    BY <1>1, <1>3 DEF BelowOf, Below, OfKind
  <2>3. None \notin v.there
    BY <1>4, NoneAssumption
  <2>. QED  BY <1>1, <1>10, <2>1, <2>2, <2>3 DEF Above
<1>12. \A q \in Up(v, t) : KindOf[q] \in ParentKinds(KindOf[t])
  BY <1>4 DEF Up
<1>13. CASE n = 1
  <2>1. Above(p) = {}
    BY <1>7, <1>13
  <2>2. Up(v, t) = {}
    BY <1>2, <1>12, <1>13, LevelParents
  <2>. QED  BY <1>1, <1>6, <1>8, <2>1, <2>2
<1>14. CASE n # 1
  <2>1. PICK x : x = s[1].of
    OBVIOUS
  <2>2. 1 \in 1..(n - 1)
    BY <1>2, <1>14
  <2>3. x \in Above(p) /\ x \in v.there /\ KindOf[x] = LevelKind[n - 1]
    BY <1>3, <1>11, <2>1, <2>2
  <2>4. x \in Up(v, t)
    BY <1>1, <1>4, <2>1, <2>3, NoneAssumption DEF BelowOf, Below, Up
  <2>5. \A q \in Above(p) : KindOf[q] = LevelKind[n - 1] => q = x
    <3>1. SUFFICES ASSUME NEW q \in Above(p), KindOf[q] = LevelKind[n - 1] PROVE q = x
      OBVIOUS
    <3>2. PICK i \in 1..(n - 1) : q = s[i].of /\ KindOf[q] = LevelKind[n - i]
      BY <1>7
    <3>3. n - i \in 1..6 /\ n - 1 \in 1..6
      BY <1>3, <2>2, <3>2
    <3>4. n - i = n - 1
      BY <3>1, <3>2, <3>3, Levels
    <3>5. i = 1
      BY <1>2, <3>2, <3>4
    <3>. QED  BY <2>1, <3>2, <3>5
  <2>6. CASE n # 3
    <3>1. n \in {2, 4, 5, 6}
      BY <1>2, <1>14, <2>6
    <3>2. ParentKinds(KindOf[t]) = {LevelKind[n - 1]}
      BY <1>2, <3>1, LevelParents
    <3>. QED  BY <1>1, <1>6, <1>8, <1>9, <1>12, <2>3, <2>4, <2>5, <3>2
  <2>7. CASE n = 3
    <3>1. 2 \in 1..(n - 1) /\ 1 + 1 = 2 /\ n - 1 = 2 /\ n - 2 = 1
      BY <2>7
    <3>2. PICK y : y = s[2].of
      OBVIOUS
    <3>3. y \in Above(p) /\ y \in v.there /\ KindOf[y] = "project"
      BY <1>3, <1>11, <3>1, <3>2, Levels
    <3>4. <<x, y>> \in v.up
      BY <1>1, <1>3, <1>4, <2>1, <2>2, <3>1, <3>2, <3>3, NoneAssumption DEF BelowOf, Below
    <3>5. KindOf[t] = "object" /\ ParentKinds(KindOf[t]) = {"project", "queue"} /\ KindOf[x] = "queue"
      <4>1. LevelKind[3] = "object"
        BY DEF LevelKind
      <4>. QED  BY <1>2, <2>3, <2>7, <3>1, <4>1, LevelParents, Levels
    <3>6. y \in Up(v, t)
      <4>1. <<t, x>> \in v.up
        BY <2>4 DEF Up
      <4>2. <<t, x>>[2] = <<x, y>>[1] /\ KindOf[<<t, x>>[1]] = "object" /\ KindOf[<<x, y>>[2]] = "project"
        BY <3>3, <3>5
      <4>3. \A l, m \in v.up :
              l[2] = m[1] /\ KindOf[l[1]] = "object" /\ KindOf[m[2]] = "project" => <<l[1], m[2]>> \in v.up
        BY <1>4, VersionAssumption
      <4>4. <<t, y>> \in v.up
        BY <3>4, <4>1, <4>2, <4>3
      <4>. QED  BY <3>3, <4>4 DEF Up
    <3>7. \A q \in Above(p) : KindOf[q] = "project" => q = y
      <4>1. SUFFICES ASSUME NEW q \in Above(p), KindOf[q] = "project" PROVE q = y
        OBVIOUS
      <4>2. PICK i \in 1..(n - 1) : q = s[i].of /\ KindOf[q] = LevelKind[n - i]
        BY <1>7
      <4>3. i = 1 \/ i = 2
        BY <2>7, <4>2
      <4>4. i # 1
        BY <2>1, <3>5, <4>1, <4>2
      <4>. QED  BY <3>2, <4>2, <4>3, <4>4
    <3>8. \A q \in Above(p) : KindOf[q] = "queue" => q = x
      BY <2>3, <2>5, <3>5
    <3>9. {q \in Above(p) : KindOf[q] \in ParentKinds(KindOf[t])} = {x, y}
      BY <2>3, <3>3, <3>5, <3>7, <3>8
    <3>10. Up(v, t) = {x, y}
      BY <1>9, <1>12, <2>4, <3>3, <3>5, <3>6
    <3>. QED  BY <1>1, <1>6, <1>8, <3>9, <3>10
  <2>. QED  BY <2>6, <2>7
<1>. QED  BY <1>13, <1>14

\* Where a clean sync is in the structure.
LEMMA WalkKnown ==
  ASSUME SyncInv, NEW p \in Proc, CleanSync(p), path[p] # <<>>
  PROVE  /\ JobOf(p) = "objects" /\ path[p] \in Seq(Level) /\ Len(path[p]) \in Nat \ {0}
         /\ Spine(p) /\ \E V : Seen(p, V)
BY Popped DEF SyncInv, Syncing, Base, Walking, Resting, CleanSync

\* A step of the walk leaves the other invariants of a call alone.
LEMMA SyncOfWalk ==
  ASSUME SyncInv, Base', Keeping, NEW p \in Proc, JobOf(p) = "objects", Running(p),
         UNCHANGED <<jobs, clean, fresh>>, \A q \in Proc \ {p} : Still(q), Walking(p)'
  PROVE  SyncInv'
<1>1. JobOf(p)' = "objects"
  BY DEF JobOf
<1>2. CleanSync(p)' <=> CleanSync(p)
  BY DEF CleanSync, Running
<1>3. Filling(p)'
  BY <1>1 DEF Filling
<1>4. Onward(p)'
  <2>1. raport.there \subseteq Thing
    BY RaportTyped DEF SyncInv, Base
  <2>2. \A k : k # "fact" /\ AllRight(k) => AllRight(k)'
    BY <2>1 DEF AllRight, OfKind, Keeping
  <2>3. "fact" \notin KindsBefore("objects")
    BY DEF KindsBefore
  <2>. QED  BY <1>1, <1>2, <2>2, <2>3 DEF SyncInv, Syncing, Onward
<1>5. Ready(p)'
  BY DEF SyncInv, Syncing, Ready, CleanFacts
<1>. QED  BY <1>3, <1>4, <1>5, SyncOfStep

LEMMA SyncListProjects ==
  ASSUME SyncInv, Base', NEW p \in Proc, ListProjects(p)
  PROVE  SyncInv'
<1>1. /\ UNCHANGED <<raport, tables, jobs, at, held, batch, kinds, clean, fresh>>
      /\ Running(p) /\ JobOf(p) = "objects" /\ path[p] = <<>>
      /\ \A q \in Proc \ {p} : Still(q)
  BY DEF ListProjects, SyncInv, Base, Still
<1>2. Keeping
  BY <1>1, SameKeeps
<1>3. at'[p] = None
  BY <1>1 DEF SyncInv, Base, Resting
<1>4. PICK x : x = [of |-> None, left |-> OfKind(raport.there, "project")]
  OBVIOUS
<1>5. path'[p] = <<x>> /\ x.of = None /\ x.left = BelowOf(None)
  BY <1>4 DEF ListProjects, SyncInv, Base, BelowOf
<1>6. Len(<<x>>) = 1 /\ <<x>>[1] = x /\ DOMAIN <<x>> = 1..1
  OBVIOUS
<1>7. BelowOf(None)' = BelowOf(None) /\ BelowOf(None) = OfKind(raport.there, "project")
  BY <1>1 DEF BelowOf
<1>8. Spine(p)'
  <2>1. 1..0 = {} /\ \A i \in 1..1 : i = 1
    OBVIOUS
  <2>2. x.left \subseteq BelowOf(x.of)'
    BY <1>5, <1>7
  <2>. QED  BY <1>3, <1>5, <1>6, <2>1, <2>2 DEF Spine
<1>9. Seen(p, {})'
  <2>1. Ahead(p)' = x.left
    BY <1>5, <1>6 DEF Ahead
  <2>. QED  BY <1>1, <1>3, <1>5, <1>7, <2>1 DEF Seen
<1>10. Walking(p)'
  BY <1>8, <1>9 DEF Walking
<1>. QED  BY <1>1, <1>2, <1>10, SyncOfWalk

LEMMA SyncGoBelow ==
  ASSUME SyncInv, Base', NEW p \in Proc, GoBelow(p)
  PROVE  SyncInv'
<1>1. /\ UNCHANGED <<raport, tables, jobs, batch, kinds, clean, fresh>>
      /\ at'[p] = None /\ at[p] # None
      /\ \A q \in Proc \ {p} : Still(q)
  BY DEF GoBelow, SyncInv, Base, Still
<1>2. Keeping
  BY <1>1, SameKeeps
<1>3. Running(p) /\ JobOf(p) = "objects" /\ path[p] # <<>>
  BY <1>1 DEF SyncInv, Base, Resting
<1>4. Walking(p)'
  <2>1. SUFFICES ASSUME CleanSync(p) PROVE Spine(p)' /\ \E V : Seen(p, V)'
    BY <1>1 DEF Walking, CleanSync, Running
  <2>2. PICK s, n, t, x : s = path[p] /\ n = Len(s) /\ t = at[p] /\ x = [of |-> t, left |-> Below(raport, t)]
    OBVIOUS
  <2>3. s \in Seq(Level) /\ n \in Nat \ {0} /\ Spine(p)
    BY <1>3, <2>1, <2>2, WalkKnown
  <2>4. PICK V : Seen(p, V)
    BY <1>3, <2>1, WalkKnown
  <2>5. t \in V /\ t \in rows /\ t \in raport.there /\ t # None
    BY <1>1, <2>2, <2>4 DEF Seen, Right
  <2>6. path'[p] = <<x>> \o s
    BY <2>2, <2>5 DEF GoBelow, SyncInv, Base
  <2>7. x \in Level /\ x.of = t /\ x.left = Below(raport, t)
    <3>1. raport.there \subseteq Thing
      BY RaportTyped DEF SyncInv, Base
    <3>. QED  BY <2>2, <2>5, <3>1 DEF Level, Below
  <2>8. PICK u : u = <<x>> \o s
    OBVIOUS
  <2>9. u \in Seq(Level) /\ Len(u) = n + 1 /\ u[1] = x /\ \A i \in 1..n : u[i + 1] = s[i]
    BY <2>2, <2>3, <2>7, <2>8, Pushed
  <2>10. DOMAIN u = 1..(n + 1) /\ DOMAIN s = 1..n /\ path'[p] = u
    BY <2>2, <2>3, <2>6, <2>8, <2>9
  <2>11. \A y : BelowOf(y)' = BelowOf(y)
    BY <1>1 DEF BelowOf
  <2>12. t \in BelowOf(s[1].of) /\ s[n].of = None
    BY <1>1, <2>2, <2>3 DEF Spine
  <2>13. n \in 1..6 /\ KindOf[t] = LevelKind[n]
    BY <1>3, <2>2, <2>3, <2>12, LevelOfNext DEF SyncInv
  <2>14. \A i \in 1..(n + 1) : i = 1 \/ (i - 1 \in 1..n /\ (i - 1) + 1 = i)
    BY <2>13
  <2>15. \A i \in 1..(n + 1) : u[i].left \subseteq BelowOf(u[i].of)
    <3>1. \A i \in 1..n : s[i].left \subseteq BelowOf(s[i].of)
      BY <2>2, <2>3 DEF Spine
    <3>2. \A i \in 1..n : u[i + 1].left \subseteq BelowOf(u[i + 1].of)
      BY <2>9, <3>1
    <3>3. u[1].left \subseteq BelowOf(u[1].of)
      BY <2>5, <2>7, <2>9 DEF BelowOf
    <3>. QED  BY <2>14, <3>2, <3>3
  <2>16. \A i \in 1..n : /\ u[i].of \in BelowOf(u[i + 1].of)
                         /\ (n + 1) - i \in 1..6 /\ KindOf[u[i].of] = LevelKind[(n + 1) - i]
    <3>1. \A i \in 1..(n - 1) : /\ s[i].of \in BelowOf(s[i + 1].of)
                                /\ n - i \in 1..6 /\ KindOf[s[i].of] = LevelKind[n - i]
      BY <2>2, <2>3 DEF Spine
    <3>2. ASSUME NEW i \in 1..n, i # 1
          PROVE  /\ u[i].of \in BelowOf(u[i + 1].of)
                 /\ (n + 1) - i \in 1..6 /\ KindOf[u[i].of] = LevelKind[(n + 1) - i]
      <4>1. PICK j : j = i - 1
        OBVIOUS
      <4>2. j \in 1..(n - 1) /\ i = j + 1 /\ (n + 1) - i = n - j /\ j \in 1..n /\ i \in 1..n
        BY <2>13, <3>2, <4>1
      <4>3. u[i] = s[j] /\ u[i + 1] = s[j + 1]
        BY <2>9, <4>2
      <4>. QED  BY <3>1, <4>2, <4>3
    <3>3. /\ u[1].of \in BelowOf(u[1 + 1].of)
          /\ (n + 1) - 1 \in 1..6 /\ KindOf[u[1].of] = LevelKind[(n + 1) - 1]
      <4>1. u[1 + 1] = s[1] /\ (n + 1) - 1 = n
        BY <2>9, <2>13
      <4>. QED  BY <2>7, <2>9, <2>12, <2>13, <4>1
    <3>. QED  BY <3>2, <3>3
  <2>17. Spine(p)'
    <3>1. u[n + 1].of = None /\ (n + 1) - 1 = n
      BY <2>9, <2>12, <2>13
    <3>. QED  BY <1>1, <2>9, <2>10, <2>11, <2>15, <2>16, <3>1 DEF Spine
  <2>18. Seen(p, V)'
    <3>1. Ahead(p)' = UNION {u[i].left : i \in 1..(n + 1)} /\ Ahead(p) = UNION {s[i].left : i \in 1..n}
      BY <2>2, <2>10 DEF Ahead
    <3>2. Ahead(p) \cup Below(raport, t) \subseteq Ahead(p)'
      <4>1. \A i \in 1..n : i + 1 \in 1..(n + 1)
        BY <2>13
      <4>2. 1 \in 1..(n + 1)
        BY <2>13
      <4>. QED  BY <2>7, <2>9, <3>1, <4>1, <4>2
    <3>3. \A y \in V : Right(y)'
      BY <1>1, <2>4 DEF Seen, Right, Parents, Up, tables
    <3>. QED  BY <1>1, <2>2, <2>4, <3>2, <3>3 DEF Seen
  <2>. QED  BY <2>17, <2>18
<1>. QED  BY <1>1, <1>2, <1>3, <1>4, SyncOfWalk

\* Rows taken out of the lowest level.
LEMMA SpineLeaves ==
  ASSUME Base, NEW p \in Proc, path[p] # <<>>, NEW X \in SUBSET path[p][1].left, Leaves(p, X),
         raport' = raport, Spine(p), at'[p] # None => at'[p] \in BelowOf(path[p][1].of)
  PROVE  Spine(p)' /\ Ahead(p) \subseteq Ahead(p)' \cup (path[p][1].left \ X)
<1>1. PICK s, u, n : s = path[p] /\ u = path'[p] /\ n = Len(s)
  OBVIOUS
<1>2. /\ n \in Nat \ {0} /\ Len(u) = n /\ u[1].of = s[1].of /\ u[1].left = X
      /\ \A i \in 1..n : i # 1 => u[i] = s[i]
      /\ u \in Seq(Level) /\ s \in Seq(Level)
  BY <1>1, LessLeft DEF Base
<1>3. DOMAIN u = 1..n /\ DOMAIN s = 1..n
  BY <1>1, <1>2
<1>4. \A i \in 1..n : u[i].of = s[i].of /\ u[i].left \subseteq s[i].left
  BY <1>1, <1>2
<1>5. \A x : BelowOf(x)' = BelowOf(x)
  BY DEF BelowOf
<1>6. /\ s[n].of = None
      /\ \A i \in 1..n : s[i].left \subseteq BelowOf(s[i].of)
      /\ \A i \in 1..(n - 1) : /\ s[i].of \in BelowOf(s[i + 1].of)
                               /\ n - i \in 1..6 /\ KindOf[s[i].of] = LevelKind[n - i]
  BY <1>1 DEF Spine
<1>7. Spine(p)'
  <2>1. n \in 1..n /\ 1 \in 1..n /\ \A i \in 1..(n - 1) : i \in 1..n /\ i + 1 \in 1..n
    BY <1>2
  <2>2. \A i \in 1..n : u[i].left \subseteq BelowOf(u[i].of)
    BY <1>4, <1>6
  <2>3. \A i \in 1..(n - 1) : /\ u[i].of \in BelowOf(u[i + 1].of)
                              /\ n - i \in 1..6 /\ KindOf[u[i].of] = LevelKind[n - i]
    BY <1>4, <1>6, <2>1
  <2>. QED  BY <1>1, <1>2, <1>4, <1>5, <1>6, <2>1, <2>2, <2>3 DEF Spine
<1>8. Ahead(p) = UNION {s[i].left : i \in 1..n} /\ Ahead(p)' = UNION {u[i].left : i \in 1..n}
  BY <1>1, <1>3 DEF Ahead
<1>9. Ahead(p) \subseteq Ahead(p)' \cup (s[1].left \ X)
  <2>1. SUFFICES ASSUME NEW y \in Ahead(p), y \notin s[1].left \ X PROVE y \in Ahead(p)'
    OBVIOUS
  <2>2. PICK i \in 1..n : y \in s[i].left
    BY <1>8
  <2>3. y \in u[i].left
    BY <1>2, <2>1, <2>2
  <2>. QED  BY <1>8, <2>3
<1>. QED  BY <1>1, <1>7, <1>9

LEMMA SyncStoreRow ==
  ASSUME SyncInv, Base', NEW p \in Proc, NEW t \in Thing, StoreRow(p, t)
  PROVE  SyncInv'
<1>1. PICK S, ks : S = {q \in Above(p) : KindOf[q] \in ParentKinds(KindOf[t])} /\ ks = ParentKinds(KindOf[t])
  OBVIOUS
<1>2. /\ path[p] # <<>> /\ at[p] = None /\ t \in path[p][1].left /\ S \subseteq held[p]
      /\ Upsert({t}, {<<t, q>> : q \in S}, ks)
      /\ Leaves(p, path[p][1].left \ {t})
      /\ at' = [at EXCEPT ![p] = t] /\ Stored(p)
      /\ UNCHANGED <<raport, coded, jobs, held, batch, kinds>>
  BY <1>1 DEF StoreRow, Leaves
<1>3. Running(p) /\ JobOf(p) = "objects" /\ held[p] \subseteq rows
  BY <1>2 DEF SyncInv, Base, Resting
<1>4. CASE Disturb
  BY <1>4, DisturbSyncs
<1>5. CASE CleanSync(p) /\ UNCHANGED <<clean, fresh>>
  <2>1. Spine(p) /\ path[p] \in Seq(Level) /\ Len(path[p]) \in Nat \ {0}
    BY <1>2, <1>5, WalkKnown
  <2>2. t \in BelowOf(path[p][1].of)
    <3>1. 1 \in 1..Len(path[p])
      BY <2>1
    <3>. QED  BY <1>2, <2>1, <3>1 DEF Spine
  <2>3. t \in raport.there /\ KindOf[t] \in Structure /\ S = Up(raport, t)
    BY <1>1, <1>2, <2>1, <2>2, ParentsAbove DEF SyncInv
  <2>4. KindOf[t] # "fact"
    BY <2>3 DEF Structure
  <2>5. PICK found : found = {<<t, q>> : q \in S}
    OBVIOUS
  <2>6. Upsert({t}, found, ks) /\ \A l \in found : l[1] \in {t}
    BY <1>2, <2>5
  <2>7. Right(t)'
    <3>1. \A q : <<t, q>> \in found <=> q \in Up(raport, t)
      BY <2>3, <2>5
    <3>. QED  BY <1>1, <1>2, <1>3, <2>3, <2>4, <2>6, <3>1, UpsertRight DEF SyncInv
  <2>8. \A y : Right(y) => Right(y)'
    BY <1>2, <2>6, <2>7, UpsertKeeps DEF SyncInv
  <2>9. Keeping
    BY <1>2, <2>8 DEF Keeping
  <2>10. at'[p] = t
    BY <1>2 DEF SyncInv, Base
  <2>11. Spine(p)' /\ Ahead(p) \subseteq Ahead(p)' \cup {t}
    BY <1>2, <2>1, <2>2, <2>10, SpineLeaves DEF SyncInv
  <2>12. PICK V : Seen(p, V)
    BY <1>2, <1>5, WalkKnown
  <2>13. PICK W : W = V \cup {t}
    OBVIOUS
  <2>14. Seen(p, W)'
    <3>1. W \subseteq raport.there /\ (\A y \in W : KindOf[y] \in Structure /\ Right(y)')
      BY <2>3, <2>7, <2>8, <2>12, <2>13 DEF Seen
    <3>2. OfKind(raport.there, "project") \subseteq W \cup Ahead(p)'
      BY <2>11, <2>12, <2>13 DEF Seen
    <3>3. at[p] \notin V
      <4>1. raport.there \subseteq Thing
        BY RaportTyped DEF SyncInv, Base
      <4>. QED  BY <1>2, <2>12, <4>1, NoneAssumption DEF Seen
    <3>4. \A y \in W \ {t} : Below(raport, y) \subseteq W \cup Ahead(p)'
      BY <2>11, <2>12, <2>13, <3>3 DEF Seen
    <3>. QED  BY <1>2, <2>10, <2>13, <3>1, <3>2, <3>4 DEF Seen
  <2>15. Walking(p)'
    BY <2>11, <2>14 DEF Walking
  <2>16. \A q \in Proc \ {p} : Still(q)
    <3>1. \A q \in Proc \ {p} : path'[q] = path[q]
      BY <1>2, LessLeft DEF SyncInv
    <3>. QED  BY <1>2, <3>1 DEF SyncInv, Base, Still
  <2>. QED  BY <1>2, <1>3, <1>5, <2>9, <2>15, <2>16, SyncOfWalk
<1>6. JobOf(p) # "facts"
  BY <1>3
<1>. QED  BY <1>2, <1>3, <1>4, <1>5, <1>6, StoresClean

LEMMA SyncStoreFloors ==
  ASSUME SyncInv, Base', NEW p \in Proc, StoreFloors(p)
  PROVE  SyncInv'
<1>1. PICK S, x : S = path[p][1].left /\ x = path[p][1].of
  OBVIOUS
<1>2. PICK found : found = {<<t, x>> : t \in S}
  OBVIOUS
<1>3. /\ path[p] # <<>> /\ at[p] = None /\ S # {} /\ (\A t \in S : KindOf[t] = "floor") /\ x \in held[p]
      /\ Upsert(S, found, {"section"})
      /\ Leaves(p, {}) /\ Stored(p)
      /\ UNCHANGED <<raport, coded, jobs, at, held, batch, kinds>>
  BY <1>1, <1>2 DEF StoreFloors, Leaves, OfKind
<1>4. Running(p) /\ JobOf(p) = "objects" /\ held[p] \subseteq rows
  BY <1>3 DEF SyncInv, Base, Resting
<1>5. CASE Disturb
  BY <1>5, DisturbSyncs
<1>6. CASE CleanSync(p) /\ UNCHANGED <<clean, fresh>>
  <2>1. Spine(p) /\ path[p] \in Seq(Level) /\ Len(path[p]) \in Nat \ {0}
    BY <1>3, <1>6, WalkKnown
  <2>2. S \subseteq BelowOf(x)
    <3>1. 1 \in 1..Len(path[p])
      BY <2>1
    <3>. QED  BY <1>1, <2>1, <3>1 DEF Spine
  <2>3. x \in Thing /\ x # None /\ x \in rows
    BY <1>3, <1>4, NoneAssumption DEF SyncInv, Base
  <2>4. /\ raport \in Versions /\ raport.there \subseteq Thing
        /\ \A l \in raport.up : KindOf[l[2]] \in ParentKinds(KindOf[l[1]]) /\ l[2] \in raport.there
        /\ \A l, m \in raport.up : l[1] = m[1] /\ KindOf[l[2]] = KindOf[m[2]] => l[2] = m[2]
    BY RaportTyped, VersionAssumption DEF SyncInv, Base
  <2>5. ParentKinds("floor") = {"section"} /\ ChildKind("floor") = "none" /\ "none" \notin Kind
    BY DEF ParentKinds, ChildKind, Kind
  <2>6. \A t \in S : t \in raport.there /\ <<t, x>> \in raport.up
    BY <2>2, <2>3 DEF BelowOf, Below
  <2>7. \A t \in S : Up(raport, t) = {x}
    <3>1. SUFFICES ASSUME NEW t \in S PROVE Up(raport, t) = {x}
      OBVIOUS
    <3>2. <<t, x>> \in raport.up /\ KindOf[t] = "floor"
      BY <1>3, <2>6
    <3>3. x \in raport.there /\ KindOf[x] = "section"
      BY <2>4, <2>5, <3>2
    <3>4. \A q : <<t, q>> \in raport.up => KindOf[q] = "section"
      BY <2>4, <2>5, <3>2
    <3>5. \A q : <<t, q>> \in raport.up => q = x
      BY <2>4, <3>2, <3>3, <3>4
    <3>. QED  BY <3>2, <3>3, <3>5 DEF Up
  <2>8. \A l \in found : l[1] \in S
    BY <1>2
  <2>9. ASSUME NEW t \in S PROVE Right(t)'
    <3>1. \A q : <<t, q>> \in found <=> q \in Up(raport, t)
      BY <1>2, <2>7
    <3>2. KindOf[t] # "fact" /\ ParentKinds(KindOf[t]) \subseteq {"section"} /\ Up(raport, t) \subseteq rows
      BY <1>3, <2>3, <2>5, <2>7
    <3>. QED  BY <1>3, <3>1, <3>2, UpsertRight DEF SyncInv
  <2>10. \A y : Right(y) => Right(y)'
    BY <1>3, <2>8, <2>9, UpsertKeeps DEF SyncInv
  <2>11. Keeping
    BY <1>3, <2>10 DEF Keeping
  <2>12. Spine(p)' /\ Ahead(p) \subseteq Ahead(p)' \cup S
    BY <1>1, <1>3, <2>1, SpineLeaves DEF SyncInv
  <2>13. PICK V : Seen(p, V)
    BY <1>3, <1>6, WalkKnown
  <2>14. PICK W : W = V \cup S
    OBVIOUS
  <2>15. \A y \in S : Below(raport, y) = {}
    <3>1. \A y \in raport.there : KindOf[y] \in Kind
      BY <2>4, KindAssumption
    <3>. QED  BY <1>3, <2>5, <3>1 DEF Below
  <2>16. Seen(p, W)'
    <3>1. W \subseteq raport.there /\ (\A y \in W : KindOf[y] \in Structure /\ Right(y)')
      BY <1>3, <2>6, <2>9, <2>10, <2>13, <2>14 DEF Seen, Structure
    <3>2. OfKind(raport.there, "project") \subseteq W \cup Ahead(p)'
      BY <2>12, <2>13, <2>14 DEF Seen
    <3>3. \A y \in V \ {at[p]} : Below(raport, y) \subseteq W \cup Ahead(p)'
      BY <2>12, <2>13, <2>14 DEF Seen
    <3>4. \A y \in W \ {at[p]} : Below(raport, y) \subseteq W \cup Ahead(p)'
      BY <2>14, <2>15, <3>3
    <3>. QED  BY <1>3, <2>13, <3>1, <3>2, <3>4 DEF Seen
  <2>17. Walking(p)'
    BY <2>12, <2>16 DEF Walking
  <2>18. \A q \in Proc \ {p} : Still(q)
    <3>1. \A q \in Proc \ {p} : path'[q] = path[q]
      BY <1>3, LessLeft DEF SyncInv
    <3>. QED  BY <1>3, <3>1 DEF SyncInv, Base, Still
  <2>. QED  BY <1>3, <1>4, <1>6, <2>11, <2>17, <2>18, SyncOfWalk
<1>7. JobOf(p) # "facts"
  BY <1>4
<1>. QED  BY <1>3, <1>4, <1>5, <1>6, <1>7, StoresClean

\* Whoever has seen everything below what they saw, from the projects on, has
\* seen the structure.
LEMMA WalkOver ==
  ASSUME Base, NEW p \in Proc, NEW V, Seen(p, V), at[p] = None, Ahead(p) = {}
  PROVE  \A k \in Structure : AllRight(k)
<1>1. PICK v : v = raport
  OBVIOUS
<1>2. v \in Versions /\ v.there \subseteq Thing
  BY <1>1, RaportTyped DEF Base
<1>3. OfKind(v.there, "project") \subseteq V /\ \A u \in V : Below(v, u) \subseteq V
  <2>1. None \notin V
    BY <1>1, <1>2, NoneAssumption DEF Seen
  <2>. QED  BY <1>1, <2>1 DEF Seen
<1>4. ASSUME NEW k, NEW j, k = ChildKind(j), j \in ParentKinds(k), k \notin {"contract", "group", "type"},
             OfKind(v.there, j) \subseteq V
      PROVE  OfKind(v.there, k) \subseteq V
  <2>1. SUFFICES ASSUME NEW t \in v.there, KindOf[t] = k PROVE t \in V
    BY DEF OfKind
  <2>2. j \in ParentsNamed(v, t)
    BY <1>2, <1>4, <2>1, VersionAssumption
  <2>3. PICK q \in v.there : <<t, q>> \in v.up /\ KindOf[q] = j
    BY <2>2 DEF ParentsNamed, Up
  <2>4. q \in V /\ t \in Below(v, q)
    BY <1>4, <2>1, <2>3 DEF OfKind, Below
  <2>. QED  BY <1>3, <2>4
<1>5. OfKind(v.there, "queue") \subseteq V
  BY <1>3, <1>4 DEF ChildKind, ParentKinds
<1>6. OfKind(v.there, "object") \subseteq V
  BY <1>4, <1>5 DEF ChildKind, ParentKinds
<1>7. OfKind(v.there, "housing") \subseteq V
  BY <1>4, <1>6 DEF ChildKind, ParentKinds
<1>8. OfKind(v.there, "section") \subseteq V
  BY <1>4, <1>7 DEF ChildKind, ParentKinds
<1>9. OfKind(v.there, "floor") \subseteq V
  BY <1>4, <1>8 DEF ChildKind, ParentKinds
<1>10. \A t \in V : Right(t)
  BY DEF Seen
<1>. QED  BY <1>1, <1>3, <1>5, <1>6, <1>7, <1>8, <1>9, <1>10 DEF Structure, AllRight

LEMMA SyncGoUp ==
  ASSUME SyncInv, Base', NEW p \in Proc, GoUp(p)
  PROVE  SyncInv'
<1>1. /\ path[p] # <<>> /\ at[p] = None /\ path[p][1].left = {} /\ UNCHANGED <<raport, tables, clean>>
  BY DEF GoUp
<1>2. Running(p) /\ JobOf(p) = "objects"
  BY <1>1 DEF SyncInv, Base, Resting
<1>3. PICK s, n : s = path[p] /\ n = Len(s)
  OBVIOUS
<1>4. s \in Seq(Level) /\ n \in Nat \ {0} /\ DOMAIN s = 1..n
  BY <1>1, <1>3 DEF SyncInv, Base
<1>5. CASE n > 1
  <2>1. path' = [path EXCEPT ![p] = Tail(@)] /\ UNCHANGED <<jobs, at, held, batch, kinds, fresh>>
    BY <1>3, <1>5 DEF GoUp
  <2>2. PICK u : u = Tail(s)
    OBVIOUS
  <2>3. path'[p] = u /\ \A q \in Proc \ {p} : Still(q)
    BY <1>3, <2>1, <2>2 DEF SyncInv, Base, Still
  <2>4. u \in Seq(Level) /\ Len(u) = n - 1 /\ DOMAIN u = 1..(n - 1) /\ \A i \in 1..(n - 1) : u[i] = s[i + 1]
    BY <1>3, <1>4, <1>5, <2>2
  <2>5. Keeping
    BY <1>1, SameKeeps
  <2>6. Walking(p)'
    <3>1. SUFFICES ASSUME CleanSync(p) PROVE Spine(p)' /\ \E V : Seen(p, V)'
      BY <1>1, <2>1 DEF Walking, CleanSync, Running
    <3>2. PICK V : Seen(p, V)
      BY <1>1, <3>1, WalkKnown
    <3>3. /\ s[n].of = None
          /\ \A i \in 1..n : s[i].left \subseteq BelowOf(s[i].of)
          /\ \A i \in 1..(n - 1) : /\ s[i].of \in BelowOf(s[i + 1].of)
                                   /\ n - i \in 1..6 /\ KindOf[s[i].of] = LevelKind[n - i]
      BY <1>1, <1>3, <3>1, WalkKnown DEF Spine
    <3>4. \A x : BelowOf(x)' = BelowOf(x)
      BY <1>1 DEF BelowOf
    <3>5. \A i \in 1..(n - 1) : i + 1 \in 1..n
      BY <1>4
    <3>6. \A i \in 1..(n - 1) : u[i].left \subseteq BelowOf(u[i].of)
      BY <2>4, <3>3, <3>5
    <3>7. \A i \in 1..((n - 1) - 1) :
            /\ u[i].of \in BelowOf(u[i + 1].of)
            /\ (n - 1) - i \in 1..6 /\ KindOf[u[i].of] = LevelKind[(n - 1) - i]
      <4>1. SUFFICES ASSUME NEW i \in 1..((n - 1) - 1)
                     PROVE  /\ u[i].of \in BelowOf(u[i + 1].of)
                            /\ (n - 1) - i \in 1..6 /\ KindOf[u[i].of] = LevelKind[(n - 1) - i]
        OBVIOUS
      <4>2. PICK j : j = i + 1
        OBVIOUS
      <4>3. j \in 1..(n - 1) /\ i \in 1..(n - 1) /\ n - j = (n - 1) - i
        BY <1>4, <4>2
      <4>4. u[i] = s[j] /\ u[i + 1] = s[j + 1]
        BY <2>4, <4>2, <4>3
      <4>. QED  BY <3>3, <4>3, <4>4
    <3>8. u[n - 1].of = None
      <4>1. n - 1 \in 1..(n - 1) /\ (n - 1) + 1 = n
        BY <1>4, <1>5
      <4>. QED  BY <2>4, <3>3, <4>1
    <3>9. Spine(p)'
      BY <1>1, <2>1, <2>3, <2>4, <3>4, <3>6, <3>7, <3>8 DEF Spine
    <3>10. Ahead(p) \subseteq Ahead(p)'
      <4>1. Ahead(p) = UNION {s[i].left : i \in 1..n} /\ Ahead(p)' = UNION {u[i].left : i \in 1..(n - 1)}
        BY <1>3, <1>4, <2>3, <2>4 DEF Ahead
      <4>2. SUFFICES ASSUME NEW i \in 1..n, NEW y \in s[i].left PROVE y \in Ahead(p)'
        BY <4>1
      <4>3. i # 1
        BY <1>1, <1>3, <4>2
      <4>4. PICK j : j = i - 1
        OBVIOUS
      <4>5. j \in 1..(n - 1) /\ j + 1 = i
        BY <1>4, <4>3, <4>4
      <4>. QED  BY <2>4, <4>1, <4>2, <4>5
    <3>11. \A y \in V : Right(y)'
      BY <1>1, <3>2 DEF Seen, Right, Parents, Up, tables
    <3>12. Seen(p, V)'
      BY <1>1, <2>1, <3>2, <3>10, <3>11 DEF Seen
    <3>. QED  BY <3>9, <3>12
  <2>. QED  BY <1>1, <1>2, <2>1, <2>3, <2>5, <2>6, SyncOfWalk
<1>6. CASE ~(n > 1)
  <2>1. NextJob(p)
    BY <1>3, <1>6 DEF GoUp
  <2>2. CleanSync(p) => \A k \in KindsOf(JobOf(p)) : AllRight(k)
    <3>1. SUFFICES ASSUME CleanSync(p) PROVE \A k \in Structure : AllRight(k)
      BY <1>2 DEF KindsOf
    <3>2. PICK V : Seen(p, V)
      BY <1>1, <3>1, WalkKnown
    <3>3. Ahead(p) = {}
      <4>1. \A i \in 1..n : i = 1
        BY <1>4, <1>6
      <4>. QED  BY <1>1, <1>3, <1>4, <4>1 DEF Ahead
    <3>. QED  BY <1>1, <3>2, <3>3, WalkOver DEF SyncInv
  <2>. QED  BY <1>1, <1>2, <2>1, <2>2, SyncNextJob
<1>. QED  BY <1>4, <1>5, <1>6

\* The facts are stored without touching what else is right.
LEMMA FactsKeep ==
  ASSUME Base, NEW p \in Proc, NEW read, StoreFacts(p, read)
  PROVE  Keeping
<1>1. PICK S, found, ks : Upsert(S, found, ks) /\ (\A t \in S : KindOf[t] = "fact") /\ \A l \in found : l[1] \in S
  <2>1. PICK S : S = {f \in OfKind(batch[p].there, "fact") : Up(batch[p], f) \subseteq rows /\ Placed(batch[p], f)}
    OBVIOUS
  <2>2. \E by \in SUBSET {l \in read : l[1] \in S /\ l[2] \in rows} :
          Upsert(S, by \cup {l \in batch[p].up : l[1] \in S}, {"floor", "work", "contractor"})
    BY <2>1 DEF StoreFacts
  <2>3. \A t \in S : KindOf[t] = "fact"
    BY <2>1 DEF OfKind
  <2>. QED  BY <2>2, <2>3
<1>2. raport' = raport
  BY DEF StoreFacts
<1>. QED  BY <1>1, <1>2, UpsertKeeps DEF Keeping

LEMMA SyncStoreFacts ==
  ASSUME SyncInv, Base', NEW p \in Proc, NEW read \in SUBSET raport.crew, StoreFacts(p, read)
  PROVE  SyncInv'
<1>1. /\ Running(p) /\ JobOf(p) = "facts"
      /\ UNCHANGED <<raport, jobs, path, at, held, batch>>
      /\ kinds' = [kinds EXCEPT ![p] = <<>>]
      /\ fresh # "nothing" <=> fresh' # "nothing"
      /\ \A q \in Proc : clean'[q] => clean[q]
  BY DEF StoreFacts, SyncInv, Base
<1>2. \A q \in Proc \ {p} : Still(q)
  BY <1>1 DEF Still, SyncInv, Base
<1>3. Keeping
  BY FactsKeep DEF SyncInv
<1>4. ~CleanSync(p)
  <2>1. \A js \in Stages : Head(js) # "facts"
    BY StageFacts
  <2>. QED  BY <1>1, <2>1 DEF SyncInv, Syncing, Onward, JobOf
<1>5. ~CleanSync(p)'
  BY <1>1, <1>4 DEF CleanSync, Running
<1>6. Ready(p)'
  BY <1>1 DEF SyncInv, Syncing, Ready, CleanFacts
<1>. QED  BY <1>1, <1>2, <1>3, <1>5, <1>6, SyncOfStep DEF Onward, Filling, Walking

LEMMA SyncStays == ASSUME SyncInv, [Next]_vars PROVE SyncInv'
<1>1. Base'
  BY BaseStays DEF SyncInv
<1>2. CASE UNCHANGED vars
  <2>1. Syncing'
    <3>1. \A q : Still(q)
      BY <1>2 DEF vars, local, Still
    <3>2. Keeping
      BY <1>2, SameKeeps DEF vars
    <3>3. fresh' = fresh /\ clean' = clean /\ raport.there \subseteq Thing
      BY <1>2, RaportTyped DEF vars, SyncInv, Base
    <3>. QED  BY <3>1, <3>2, <3>3, OthersSync DEF SyncInv, Syncing
  <2>2. SyncRepairs'
    BY <1>2 DEF SyncInv, SyncRepairs, Parents, Up, vars, tables
  <2>. QED  BY <1>1, <2>1, <2>2 DEF SyncInv
<1>3. ASSUME NEW p \in Proc, (\E request \in Duty[p] : Ask(p, request)) \/ AskImport(p) \/ Step(p) \/ Stop(p)
      PROVE  SyncInv'
  <2>1. CASE Step(p)
    BY <1>1, <2>1, SyncListProjects, SyncGoBelow, SyncStoreRow, SyncStoreFloors, SyncGoUp,
       SyncRead, SyncFill, SyncFilled, SyncStoreFacts DEF Step
  <2>2. CASE AskImport(p)
    BY <1>1, <2>2, SyncAsk
  <2>. QED  BY <1>1, <1>3, <2>1, <2>2, SyncAsk, SyncStop
<1>4. CASE (\E v \in Versions \ {raport} : RaportChanges(v)) \/ (\E t \in rows : Edit(t))
           \/ (\E t \in Removable : Remove(t))
  <2>1. Disturb
    BY <1>4 DEF RaportChanges, Edit, Remove
  <2>. QED  BY <1>1, <2>1, DisturbSyncs
<1>. QED  BY <1>2, <1>3, <1>4 DEF Next

LEMMA SyncBegins == Init => SyncInv
<1>1. SUFFICES ASSUME Init PROVE SyncInv
  OBVIOUS
<1>2. \A p \in Proc : ~CleanSync(p) /\ ~CleanFacts(p)
  BY <1>1 DEF Init, CleanSync, CleanFacts
<1>3. Syncing
  BY <1>2 DEF Syncing, Onward, Filling, Walking, Ready
<1>4. SyncRepairs
  BY <1>1 DEF Init, SyncRepairs
<1>. QED  BY <1>1, <1>3, <1>4, BaseBegins DEF SyncInv

\* The tables keep their types and links of the right kinds, a full sync
\* that nothing comes between has put right what it has passed, and the rows it
\* has yet to come to are below the levels it is in.
THEOREM SyncInvariance == Spec => []SyncInv
<1>1. Init => SyncInv
  BY SyncBegins
<1>2. SyncInv /\ [Next]_vars => SyncInv'
  BY SyncStays
<1>. QED  BY <1>1, <1>2, PTL DEF Spec

\* A full sync repairs the tables (services/sync/service.py, sync): once one has
\* run to its end while Raport stood still, every entity has its row below the
\* rows of its parents, whatever earlier calls left half done.
THEOREM RepairSafety == Spec => []SyncRepairs
<1>1. SyncInv => SyncRepairs
  BY DEF SyncInv
<1>. QED  BY <1>1, SyncInvariance, PTL

-----------------------------------------------------------------------------
(* The facts arrive.                                                        *)

\* The row of a fact is as FactsArrive wants it.
FactRight(f) ==
  LET crew == {k \in raport.there : <<f, k>> \in raport.crew} IN
    /\ f \in rows /\ Up(raport, f) \subseteq Parents(f)
    /\ f \notin Shared =>
         OfKind(Parents(f), "contractor") = IF Cardinality(crew) = 1 THEN crew ELSE {}

FactsRight == \A f \in OfKind(raport.there, "fact") : FactRight(f)

\* Somebody relies on what Raport holds standing still: whatever has been read
\* of facts since is of its present state.
Settled == fresh # "nothing" \/ \E p \in Proc : Running(p) /\ clean[p]

Current(p) ==
  Running(p) /\ JobOf(p) = "facts" /\ batch[p] # None =>
    batch[p].up = raport.up /\ batch[p].there \subseteq raport.there

\* An undisturbed reading of facts has read them all, and when it has stored them
\* they are right.
Reading(p) ==
  CleanFacts(p) /\ batch[p] # None =>
    /\ batch[p].there = raport.there
    /\ kinds[p] = <<>> => FactsRight

FactInv ==
  /\ SyncInv
  /\ Settled => \A p \in Proc : Current(p)
  /\ \A p \in Proc : Reading(p)
  /\ FactsArrive

LEMMA ArriveRight == FactsArrive <=> (fresh = "facts" => FactsRight)
BY DEF FactsArrive, FactsRight, FactRight

LEMMA SameFacts == ASSUME UNCHANGED <<raport, tables>> PROVE FactsRight => FactsRight'
BY DEF FactsRight, FactRight, OfKind, Parents, Up, tables

\* An upsert of other rows leaves the facts alone.
LEMMA OtherFacts ==
  ASSUME Base, NEW S, NEW found, NEW ks, Upsert(S, found, ks), raport' = raport,
         \A l \in found : l[1] \in S, NEW f, f \notin S, FactRight(f)
  PROVE  FactRight(f)'
<1>1. Parents(f)' = Parents(f)
  BY DEF Upsert, Base, Parents
<1>2. rows \subseteq rows'
  BY DEF Upsert
<1>. QED  BY <1>1, <1>2 DEF FactRight, OfKind, Up

LEMMA DisturbFacts == ASSUME SyncInv', Disturb PROVE FactInv'
<1>1. fresh' = "nothing" /\ \A p \in Proc : ~clean'[p]
  BY DEF Disturb
<1>2. ~Settled' /\ \A p \in Proc : ~CleanFacts(p)'
  BY <1>1 DEF Settled, CleanFacts
<1>. QED  BY <1>1, <1>2, ArriveRight DEF FactInv, Reading, FactsArrive

\* What is left to show of a step of a call.
LEMMA FactOfStep ==
  ASSUME FactInv, SyncInv', raport' = raport, NEW p \in Proc,
         \A q \in Proc \ {p} : Still(q) /\ (clean'[q] => clean[q]),
         (\E q \in Proc : CleanFacts(q)') => (FactsRight => FactsRight'),
         Settled' => Settled, Current(p)', Reading(p)',
         fresh' = "facts" => FactsRight'
  PROVE  FactInv'
<1>1. ASSUME NEW q \in Proc \ {p}, Settled' PROVE Current(q)'
  <2>1. Current(q)
    BY <1>1 DEF FactInv
  <2>. QED  BY <2>1 DEF Current, Still, Running, JobOf
<1>2. ASSUME NEW q \in Proc \ {p} PROVE Reading(q)'
  <2>1. Reading(q)
    BY DEF FactInv
  <2>2. CleanFacts(q)' => CleanFacts(q)
    BY DEF CleanFacts, Still
  <2>. QED  BY <2>1, <2>2 DEF Reading, Still
<1>3. FactsArrive'
  BY DEF FactsArrive, FactsRight, FactRight
<1>. QED  BY <1>1, <1>2, <1>3 DEF FactInv

\* Who does not read facts has none of them.
LEMMA NoFacts ==
  ASSUME NEW p, JobOf(p)' # "facts" \/ batch'[p] = None
  PROVE  Current(p)' /\ Reading(p)'
<1>1. Head(<<"facts">>) = "facts"
  OBVIOUS
<1>. QED  BY <1>1 DEF Current, Reading, CleanFacts, JobOf

LEMMA FactAsk ==
  ASSUME FactInv, SyncInv', NEW p \in Proc, NEW request, Ask(p, request) \/ AskImport(p)
  PROVE  FactInv'
<1>1. /\ UNCHANGED <<raport, tables, path, at, held, batch, kinds, fresh>> /\ ~Running(p)
      /\ \A q \in Proc \ {p} : Still(q) /\ clean'[q] = clean[q]
      /\ clean'[p] => \A q \in Proc : Running(q) => clean[q]
  BY DEF Ask, AskImport, Still, FactInv, SyncInv, Base
<1>2. batch'[p] = None
  BY <1>1 DEF FactInv, SyncInv, Base, Resting
<1>3. Current(p)' /\ Reading(p)'
  BY <1>2, NoFacts
<1>4. FactsRight => FactsRight'
  BY <1>1, SameFacts
<1>5. FactsArrive'
  BY <1>1, <1>4 DEF FactInv, FactsArrive, FactsRight, FactRight
<1>6. ASSUME NEW q \in Proc \ {p}, Settled' PROVE Current(q)'
  <2>1. CASE Running(q)
    <3>1. Settled
      BY <1>1, <1>6, <2>1 DEF Settled, Still, Running
    <3>2. Current(q)
      BY <3>1 DEF FactInv
    <3>. QED  BY <1>1, <3>2 DEF Current, Still, Running, JobOf
  <2>2. CASE ~Running(q)
    BY <1>1, <2>2 DEF Current, Still, Running
  <2>. QED  BY <2>1, <2>2
<1>7. ASSUME NEW q \in Proc \ {p} PROVE Reading(q)'
  <2>1. Reading(q)
    BY DEF FactInv
  <2>. QED  BY <1>1, <1>4, <2>1 DEF Reading, Still, CleanFacts
<1>. QED  BY <1>3, <1>5, <1>6, <1>7 DEF FactInv

LEMMA FactStop ==
  ASSUME FactInv, SyncInv', NEW p \in Proc, Stop(p)
  PROVE  FactInv'
<1>1. /\ UNCHANGED <<raport, tables, fresh>> /\ \A q \in Proc \ {p} : Still(q) /\ clean'[q] = clean[q]
      /\ ~clean'[p] /\ batch'[p] = None
  BY DEF Stop, Nothing, Still, FactInv, SyncInv, Base
<1>2. Settled' => Settled
  BY <1>1 DEF Settled, Running, Still
<1>3. FactsRight => FactsRight'
  BY <1>1, SameFacts
<1>4. fresh' = "facts" => FactsRight'
  BY <1>1, <1>3, ArriveRight DEF FactInv
<1>. QED  BY <1>1, <1>2, <1>3, <1>4, NoFacts, FactOfStep

\* The next job begins, or the call is over.
LEMMA FactNextJob ==
  ASSUME FactInv, SyncInv', NEW p \in Proc, Running(p), NextJob(p), UNCHANGED <<raport, tables, clean>>,
         CleanFacts(p) => batch[p] # None /\ kinds[p] = <<>>
  PROVE  FactInv'
<1>1. /\ \A q \in Proc \ {p} : Still(q) /\ clean'[q] = clean[q]
      /\ batch'[p] = None /\ jobs'[p] = Tail(jobs[p])
      /\ fresh' # fresh => clean[p]
  BY DEF NextJob, Nothing, Still, FactInv, SyncInv, Base
<1>2. Settled' => Settled
  <2>1. SUFFICES ASSUME Settled', ~Settled PROVE FALSE
    OBVIOUS
  <2>2. fresh' = fresh
    BY <1>1, <2>1 DEF Settled
  <2>3. PICK q \in Proc : Running(q)' /\ clean'[q]
    BY <2>1, <2>2 DEF Settled
  <2>4. Running(q)
    BY <1>1, <2>3 DEF Running, Still
  <2>. QED  BY <2>1, <2>3, <2>4 DEF Settled
<1>3. FactsRight => FactsRight'
  BY SameFacts
<1>4. fresh' = "facts" => FactsRight'
  <2>1. SUFFICES ASSUME fresh' = "facts" PROVE FactsRight
    BY <1>3
  <2>2. CASE fresh = "facts"
    BY <2>2, ArriveRight DEF FactInv
  <2>3. CASE fresh # "facts"
    <3>1. clean[p] /\ JobOf(p) = "facts"
      BY <2>1, <2>3 DEF NextJob
    <3>2. \A js \in Stages : Head(js) # "facts"
      BY StageFacts
    <3>3. CleanFacts(p)
      BY <3>1, <3>2 DEF FactInv, SyncInv, Syncing, Onward, CleanSync, CleanFacts, JobOf
    <3>. QED  BY <3>3 DEF FactInv, Reading
  <2>. QED  BY <2>2, <2>3
<1>. QED  BY <1>1, <1>2, <1>3, <1>4, NoFacts, FactOfStep

\* A step of a call that keeps its batch, and stores nothing of facts.
LEMMA FactOfOther ==
  ASSUME FactInv, SyncInv', raport' = raport, NEW p \in Proc, Running(p),
         UNCHANGED <<jobs, clean, fresh>>, JobOf(p) # "facts",
         \A q \in Proc \ {p} : Still(q), FactsRight => FactsRight'
  PROVE  FactInv'
<1>1. JobOf(p)' # "facts"
  BY DEF JobOf
<1>2. Settled' => Settled
  BY DEF Settled, Running
<1>3. fresh' = "facts" => FactsRight'
  BY ArriveRight DEF FactInv
<1>. QED  BY <1>1, <1>2, <1>3, NoFacts, FactOfStep

LEMMA FactLists ==
  ASSUME FactInv, SyncInv', NEW p \in Proc, ListProjects(p) \/ GoBelow(p)
  PROVE  FactInv'
<1>1. /\ UNCHANGED <<raport, tables, jobs, clean, fresh>> /\ \A q \in Proc \ {p} : Still(q)
      /\ Running(p) /\ JobOf(p) = "objects"
  BY DEF ListProjects, GoBelow, FactInv, SyncInv, Base, Resting, Still
<1>. QED  BY <1>1, SameFacts, FactOfOther

LEMMA FactGoUp ==
  ASSUME FactInv, SyncInv', NEW p \in Proc, GoUp(p)
  PROVE  FactInv'
<1>1. UNCHANGED <<raport, tables, clean>> /\ Running(p) /\ JobOf(p) = "objects"
  BY DEF GoUp, FactInv, SyncInv, Base, Resting
<1>2. CASE NextJob(p)
  <2>1. Head(<<"facts">>) = "facts"
    OBVIOUS
  <2>2. ~CleanFacts(p)
    BY <1>1, <2>1 DEF CleanFacts, JobOf
  <2>. QED  BY <1>1, <1>2, <2>2, FactNextJob
<1>3. CASE ~NextJob(p)
  <2>1. UNCHANGED <<jobs, fresh>> /\ \A q \in Proc \ {p} : Still(q)
    BY <1>3 DEF GoUp, Still, FactInv, SyncInv, Base
  <2>. QED  BY <1>1, <2>1, SameFacts, FactOfOther
<1>. QED  BY <1>2, <1>3

\* An upsert by a call that is not reading facts disturbs everything, or is of
\* rows that are not facts.
LEMMA FactUpsert ==
  ASSUME FactInv, SyncInv', NEW p \in Proc, Running(p), JobOf(p) # "facts", Stored(p),
         UNCHANGED <<raport, jobs>>, \A q \in Proc \ {p} : Still(q),
         CleanSync(p) => \E S, found, ks : /\ Upsert(S, found, ks)
                                           /\ \A l \in found : l[1] \in S
                                           /\ \A t \in S : KindOf[t] # "fact"
  PROVE  FactInv'
<1>1. CASE Disturb
  BY <1>1, DisturbFacts
<1>2. CASE CleanSync(p) /\ UNCHANGED <<clean, fresh>>
  <2>1. PICK S, found, ks : Upsert(S, found, ks) /\ (\A l \in found : l[1] \in S) /\ \A t \in S : KindOf[t] # "fact"
    BY <1>2
  <2>2. \A f \in OfKind(raport.there, "fact") : FactRight(f) => FactRight(f)'
    BY <2>1, OtherFacts DEF FactInv, SyncInv, OfKind
  <2>3. FactsRight => FactsRight'
    BY <2>2 DEF FactsRight
  <2>. QED  BY <1>2, <2>3, FactOfOther
<1>. QED  BY <1>1, <1>2, StoresClean DEF FactInv

LEMMA FactWalk ==
  ASSUME FactInv, SyncInv', NEW p \in Proc, StoreFloors(p) \/ \E t \in Thing : StoreRow(p, t)
  PROVE  FactInv'
<1>1. path[p] # <<>> /\ UNCHANGED <<raport, jobs, held, batch, kinds>> /\ Stored(p)
  BY DEF StoreFloors, StoreRow
<1>2. Running(p) /\ JobOf(p) = "objects"
  BY <1>1 DEF FactInv, SyncInv, Base, Resting
<1>3. \E X \in SUBSET path[p][1].left : Leaves(p, X)
  BY DEF StoreFloors, StoreRow, Leaves
<1>4. \A q \in Proc \ {p} : Still(q)
  <2>1. \A q \in Proc \ {p} : path'[q] = path[q]
    BY <1>1, <1>3, LessLeft DEF FactInv, SyncInv
  <2>2. \A q \in Proc \ {p} : at'[q] = at[q]
    BY DEF StoreFloors, StoreRow, FactInv, SyncInv, Base
  <2>. QED  BY <1>1, <2>1, <2>2 DEF Still
<1>5. \E S, found, ks : /\ Upsert(S, found, ks)
                        /\ \A l \in found : l[1] \in S
                        /\ \A t \in S : KindOf[t] # "fact"
  <2>1. CASE StoreFloors(p)
    <3>1. PICK S, x : S = path[p][1].left /\ x = path[p][1].of
      OBVIOUS
    <3>2. Upsert(S, {<<t, x>> : t \in S}, {"section"}) /\ \A t \in S : KindOf[t] = "floor"
      BY <2>1, <3>1 DEF StoreFloors, OfKind
    <3>. QED  BY <3>2
  <2>2. ASSUME NEW t \in Thing, StoreRow(p, t)
        PROVE  \E S, found, ks : /\ Upsert(S, found, ks)
                                 /\ \A l \in found : l[1] \in S
                                 /\ \A y \in S : KindOf[y] # "fact"
    <3>1. PICK found : found = {<<t, q>> : q \in {r \in Above(p) : KindOf[r] \in ParentKinds(KindOf[t])}}
      OBVIOUS
    <3>2. Upsert({t}, found, ParentKinds(KindOf[t])) /\ t \in path[p][1].left
      BY <2>2, <3>1 DEF StoreRow
    <3>3. 1 \in DOMAIN path[p]
      BY <1>1, Popped DEF FactInv, SyncInv, Base
    <3>4. KindOf[t] = IF path[p][1].of = None THEN "project" ELSE ChildKind(KindOf[path[p][1].of])
      BY <3>2, <3>3 DEF FactInv, SyncInv, Base, Resting
    <3>5. KindOf[t] # "fact"
      BY <3>4 DEF ChildKind
    <3>. QED  BY <3>1, <3>2, <3>5
  <2>. QED  BY <2>1, <2>2
<1>. QED  BY <1>1, <1>2, <1>4, <1>5, FactUpsert

LEMMA FactFill ==
  ASSUME FactInv, SyncInv', NEW p \in Proc, StoreTable(p) \/ ImportTable(p)
  PROVE  FactInv'
<1>1. PICK k, S : /\ k = Head(kinds[p]) /\ S = Kept(p, k) /\ Fill(p, k, S)
                  /\ Running(p) /\ JobOf(p) # "facts" /\ JobOf(p) # "objects" /\ batch[p] # None /\ kinds[p] # <<>>
  BY DEF StoreTable, ImportTable, FactInv, SyncInv, Base, Resting
<1>2. UNCHANGED <<raport, jobs, path, at, held, batch>> /\ Stored(p) /\ \A q \in Proc \ {p} : Still(q)
  BY <1>1 DEF Fill, Still, FactInv, SyncInv, Base
<1>3. ASSUME CleanSync(p)
      PROVE  \E T, found, ks : /\ Upsert(T, found, ks)
                               /\ \A l \in found : l[1] \in T
                               /\ \A t \in T : KindOf[t] # "fact"
  <2>1. JobOf(p) \in {"users", "contractors", "contracts", "catalog"}
    BY <1>1, <1>3, FillsJob DEF FactInv
  <2>2. kinds[p] \in ListsOf(JobOf(p))
    BY <1>1, <1>3 DEF FactInv, SyncInv, Syncing, Filling
  <2>3. k # "fact"
    BY <1>1, <2>1, <2>2, TableFacts
  <2>4. \A t \in S : KindOf[t] # "fact"
    BY <1>1, <2>3 DEF Kept, OfKind
  <2>5. PICK found : found = {l \in batch[p].up : l[1] \in S /\ l[2] \in Found(p, l[1])}
    OBVIOUS
  <2>6. Upsert(S, found, Sets(p, k)) /\ \A l \in found : l[1] \in S
    BY <1>1, <2>5 DEF Fill
  <2>. QED  BY <2>4, <2>6
<1>. QED  BY <1>1, <1>2, <1>3, FactUpsert

LEMMA FactFilled ==
  ASSUME FactInv, SyncInv', NEW p \in Proc, Filled(p)
  PROVE  FactInv'
BY FactNextJob DEF Filled

\* What is read of facts is of the present state of Raport, and all of it when no
\* page is lost.
LEMMA FactRead ==
  ASSUME FactInv, SyncInv', NEW p \in Proc,
         Read(p) \/ \E F \in SUBSET OfKind(raport.there, "fact") : ReadFacts(p, F)
  PROVE  FactInv'
<1>1. /\ UNCHANGED <<raport, tables, jobs, path, at, held, fresh>> /\ Running(p)
      /\ \A q \in Proc : clean'[q] => clean[q]
      /\ \A q \in Proc \ {p} : Still(q)
  BY DEF Read, ReadFacts, FactInv, SyncInv, Base, Still
<1>2. Settled' => Settled
  BY <1>1 DEF Settled, Running
<1>3. FactsRight => FactsRight'
  BY <1>1, SameFacts
<1>4. fresh' = "facts" => FactsRight'
  BY <1>1, <1>3, ArriveRight DEF FactInv
<1>5. Current(p)' /\ Reading(p)'
  <2>1. CASE Read(p)
    <3>1. JobOf(p)' # "facts"
      BY <2>1 DEF Read, JobOf
    <3>. QED  BY <3>1, NoFacts
  <2>2. ASSUME NEW F \in SUBSET OfKind(raport.there, "fact"), ReadFacts(p, F)
        PROVE  Current(p)' /\ Reading(p)'
    <3>1. PICK b : b = [raport EXCEPT !.there = raport.there \ (OfKind(raport.there, "fact") \ F)]
      OBVIOUS
    <3>2. raport \in Snapshot
      BY RaportTyped DEF FactInv, SyncInv, Base
    <3>3. b.up = raport.up /\ b.there = raport.there \ (OfKind(raport.there, "fact") \ F)
      BY <3>1, <3>2 DEF Snapshot
    <3>4. batch'[p] = b /\ kinds'[p] = <<"fact">> /\ (clean'[p] => F = OfKind(raport.there, "fact"))
      BY <2>2, <3>1 DEF ReadFacts, FactInv, SyncInv, Base
    <3>5. <<"fact">> # <<>>
      OBVIOUS
    <3>6. Current(p)'
      BY <1>1, <3>3, <3>4 DEF Current
    <3>7. clean'[p] => b.there = raport.there
      BY <3>3, <3>4
    <3>8. Reading(p)'
      BY <1>1, <3>4, <3>5, <3>7 DEF Reading, CleanFacts
    <3>. QED  BY <3>6, <3>8
  <2>. QED  BY <2>1, <2>2
<1>. QED  BY <1>1, <1>2, <1>3, <1>4, <1>5, FactOfStep

\* What of the facts read is stored.
KeptFacts(p) ==
  {f \in OfKind(batch[p].there, "fact") : Up(batch[p], f) \subseteq rows /\ Placed(batch[p], f)}

\* Over right tables a fact that is stored with all of its cell's contractors read
\* becomes right.
LEMMA StoredFacts ==
  ASSUME FactInv, NEW p \in Proc, StoreFacts(p, raport.crew), fresh # "nothing",
         NEW f \in OfKind(raport.there, "fact"), FactRight(f) \/ f \in KeptFacts(p)
  PROVE  FactRight(f)'
<1>1. PICK S, b, v : S = KeptFacts(p) /\ b = batch[p] /\ v = raport
  OBVIOUS
<1>2. PICK by \in SUBSET {l \in v.crew : l[1] \in S /\ l[2] \in rows} :
         /\ \A g \in S : {l[2] : l \in {m \in by : m[1] = g}} \in MayBeDoneBy(v.crew, g)
         /\ Upsert(S, by \cup {l \in b.up : l[1] \in S}, {"floor", "work", "contractor"})
  BY <1>1 DEF StoreFacts, KeptFacts
<1>3. PICK found : found = by \cup {l \in b.up : l[1] \in S}
  OBVIOUS
<1>4. Upsert(S, found, {"floor", "work", "contractor"}) /\ raport' = v /\ \A l \in found : l[1] \in S
  BY <1>1, <1>2, <1>3 DEF StoreFacts
<1>5. CASE f \notin S
  BY <1>1, <1>4, <1>5, OtherFacts DEF FactInv, SyncInv
<1>6. CASE f \in S
  <2>1. /\ b \in Snapshot /\ b # None /\ kinds[p] # <<>> /\ Running(p) /\ JobOf(p) = "facts"
        /\ v \in Versions
    BY <1>1 DEF StoreFacts, FactInv, SyncInv, Base, Resting
  <2>2. b.up = v.up /\ b.there \subseteq v.there
    BY <1>1, <2>1 DEF FactInv, Settled, Current
  <2>3. /\ v.there \subseteq Thing /\ v.up \subseteq v.there \X v.there /\ v.crew \subseteq v.there \X v.there
        /\ \A l \in v.up : KindOf[l[2]] \in ParentKinds(KindOf[l[1]]) /\ l[2] \in v.there
        /\ \A l \in v.crew : KindOf[l[2]] = "contractor"
    BY <2>1, RaportTyped
  <2>4. KindOf[f] = "fact" /\ ParentKinds("fact") = {"floor", "work"}
    BY DEF OfKind, ParentKinds
  <2>5. \A q : <<f, q>> \in v.up => KindOf[q] \in {"floor", "work"} /\ q \in rows
    <3>1. \A q : <<f, q>> \in v.up => q \in b.there
      BY <1>1, <2>1, <2>2 DEF FactInv, SyncInv, Base, Resting
    <3>. QED  BY <1>1, <1>6, <2>2, <2>3, <2>4, <3>1 DEF KeptFacts, Up
  <2>6. \A q : <<f, q>> \in links => KindOf[q] \in {"floor", "work", "contractor"}
    BY <2>4 DEF FactInv, SyncInv, Base, LinkKinds
  <2>7. \A q : <<f, q>> \in links' <=> <<f, q>> \in by \/ <<f, q>> \in v.up
    BY <1>3, <1>4, <1>6, <2>2, <2>6 DEF Upsert
  <2>8. f \in rows' /\ rows \subseteq rows'
    BY <1>4, <1>6 DEF Upsert
  <2>9. Up(v, f) \subseteq Parents(f)'
    BY <2>5, <2>7, <2>8 DEF Up, Parents
  <2>10. PICK done : done = {k \in rows : <<f, k>> \in by}
    OBVIOUS
  <2>11. OfKind(Parents(f)', "contractor") = done
    <3>1. \A k : <<f, k>> \in by => k \in rows /\ KindOf[k] = "contractor"
      BY <1>2, <2>3
    <3>. QED  BY <2>5, <2>7, <2>8, <2>10, <3>1 DEF OfKind, Parents
  <2>12. {l[2] : l \in {m \in by : m[1] = f}} = done
    <3>1. \A l \in by : l = <<l[1], l[2]>> /\ l[2] \in rows
      BY <1>2, <2>3
    <3>. QED  BY <2>10, <3>1
  <2>13. PICK crew : crew = {k \in v.there : <<f, k>> \in v.crew}
    OBVIOUS
  <2>14. Crew(v.crew, f) = crew
    <3>1. \A k \in v.there : KindOf[k] = "contractor" => k \in rows
      BY <1>1 DEF FactInv, SyncInv, SyncRepairs
    <3>. QED  BY <2>3, <2>13, <3>1 DEF Crew
  <2>15. done \in MayBeDoneBy(v.crew, f)
    BY <1>2, <1>6, <2>12
  <2>16. f \notin Shared => done = IF Cardinality(crew) = 1 THEN crew ELSE {}
    BY <2>14, <2>15 DEF MayBeDoneBy
  <2>. QED  BY <1>4, <2>8, <2>9, <2>11, <2>13, <2>16 DEF FactRight
<1>. QED  BY <1>5, <1>6

\* Over right tables every fact of Raport is stored.
LEMMA AllKept ==
  ASSUME FactInv, NEW p \in Proc, Running(p), JobOf(p) = "facts", batch[p] # None,
         fresh # "nothing", batch[p].there = raport.there
  PROVE  OfKind(raport.there, "fact") \subseteq KeptFacts(p)
<1>1. PICK b, v : b = batch[p] /\ v = raport
  OBVIOUS
<1>2. b.up = v.up /\ b.there = v.there
  BY <1>1 DEF FactInv, Settled, Current
<1>3. /\ v.there \subseteq Thing
      /\ \A l \in v.up : KindOf[l[2]] \in ParentKinds(KindOf[l[1]]) /\ l[2] \in v.there
  BY <1>1, RaportTyped DEF FactInv, SyncInv, Base
<1>4. \A t \in v.there : KindOf[t] # "fact" => t \in rows /\ Parents(t) = Up(v, t)
  BY <1>1 DEF FactInv, SyncInv, SyncRepairs
<1>5. ParentKinds("fact") = {"floor", "work"}
  BY DEF ParentKinds
<1>6. ASSUME NEW f \in v.there, KindOf[f] = "fact"
      PROVE  Up(b, f) \subseteq rows /\ Placed(b, f)
  <2>1. \A q \in v.there : <<f, q>> \in v.up => q \in rows
    BY <1>3, <1>4, <1>5, <1>6
  <2>2. Up(b, f) \subseteq rows
    BY <1>2, <2>1 DEF Up
  <2>3. ASSUME NEW e \in v.there, NEW q \in v.there, NEW h \in v.there,
               KindOf[e] = "floor", KindOf[q] = "section", <<e, q>> \in v.up, <<q, h>> \in v.up
        PROVE  <<e, q>> \in links /\ <<q, h>> \in links
    <3>1. q \in Up(v, e) /\ h \in Up(v, q)
      BY <2>3 DEF Up
    <3>2. Parents(e) = Up(v, e) /\ Parents(q) = Up(v, q)
      BY <1>4, <2>3
    <3>. QED  BY <3>1, <3>2 DEF Parents
  <2>4. ASSUME NEW e \in v.there, NEW q \in v.there, NEW h \in v.there,
               KindOf[e] = "floor", KindOf[q] = "section", <<e, q>> \in v.up, <<q, h>> \in v.up
        PROVE  <<q, h>> \in links /\ \E s \in rows : {<<e, s>>, <<s, h>>} \subseteq links
    <3>1. q \in rows
      BY <1>4, <2>4
    <3>. QED  BY <2>3, <2>4, <3>1
  <2>5. Placed(b, f)
    BY <1>2, <2>4 DEF Placed, OfKind, Up
  <2>. QED  BY <2>2, <2>5
<1>. QED  BY <1>1, <1>2, <1>6 DEF KeptFacts, OfKind

LEMMA FactStore ==
  ASSUME FactInv, SyncInv', NEW p \in Proc, NEW read \in SUBSET raport.crew, StoreFacts(p, read)
  PROVE  FactInv'
<1>1. /\ Running(p) /\ JobOf(p) = "facts" /\ kinds[p] # <<>> /\ batch[p] # None
      /\ UNCHANGED <<raport, jobs, path, at, held, batch>>
      /\ kinds' = [kinds EXCEPT ![p] = <<>>]
      /\ fresh # "nothing" <=> fresh' # "nothing"
      /\ \A q \in Proc : clean'[q] => clean[q]
  BY DEF StoreFacts, FactInv, SyncInv, Base, Resting
<1>2. \A q \in Proc \ {p} : Still(q)
  BY <1>1 DEF Still, FactInv, SyncInv, Base
<1>3. Settled' => Settled
  BY <1>1 DEF Settled, Running
<1>4. Settled' => Current(p)'
  <2>1. Settled => Current(p)
    BY DEF FactInv
  <2>. QED  BY <1>1, <1>3, <2>1 DEF Current, Running, JobOf
<1>5. CASE read = raport.crew
  <2>1. UNCHANGED <<clean, fresh>>
    BY <1>5 DEF StoreFacts
  <2>2. fresh # "nothing" => (FactsRight => FactsRight')
    BY <1>1, <1>5, StoredFacts DEF FactsRight
  <2>3. ASSUME NEW q \in Proc, CleanFacts(q)' PROVE fresh # "nothing"
    BY <1>1, <2>1, <2>3 DEF CleanFacts, FactInv, SyncInv, Syncing, Ready
  <2>4. Reading(p)'
    <3>1. SUFFICES ASSUME CleanFacts(p)' PROVE batch[p].there = raport.there /\ FactsRight'
      BY <1>1 DEF Reading
    <3>2. fresh # "nothing" /\ CleanFacts(p)
      BY <1>1, <2>1, <2>3, <3>1 DEF CleanFacts
    <3>3. batch[p].there = raport.there
      BY <1>1, <3>2 DEF FactInv, Reading
    <3>4. OfKind(raport.there, "fact") \subseteq KeptFacts(p)
      BY <1>1, <3>2, <3>3, AllKept
    <3>. QED  BY <1>1, <1>5, <3>2, <3>3, <3>4, StoredFacts DEF FactsRight
  <2>5. fresh' = "facts" => FactsRight'
    BY <2>1, <2>2, ArriveRight DEF FactInv
  <2>6. ASSUME NEW q \in Proc \ {p}, Settled' PROVE Current(q)'
    <3>1. Current(q)
      BY <1>3, <2>6 DEF FactInv
    <3>. QED  BY <1>1, <1>2, <3>1 DEF Current, Still, Running, JobOf
  <2>7. ASSUME NEW q \in Proc \ {p} PROVE Reading(q)'
    <3>1. Reading(q)
      BY DEF FactInv
    <3>2. CleanFacts(q)' => CleanFacts(q) /\ fresh # "nothing"
      BY <1>1, <2>1, <2>3 DEF CleanFacts
    <3>. QED  BY <1>1, <1>2, <2>2, <3>1, <3>2 DEF Reading, Still
  <2>8. FactsArrive'
    BY <2>5 DEF FactsArrive, FactsRight, FactRight
  <2>. QED  BY <1>4, <2>4, <2>6, <2>7, <2>8 DEF FactInv
<1>6. CASE read # raport.crew
  <2>1. \A q \in Proc : ~CleanFacts(q)'
    BY <1>1, <1>6 DEF StoreFacts, CleanFacts
  <2>2. fresh' # "facts"
    BY <1>6 DEF StoreFacts
  <2>3. ASSUME NEW q \in Proc \ {p}, Settled' PROVE Current(q)'
    <3>1. Current(q)
      BY <1>3, <2>3 DEF FactInv
    <3>. QED  BY <1>1, <1>2, <3>1 DEF Current, Still, Running, JobOf
  <2>. QED  BY <1>4, <2>1, <2>2, <2>3 DEF FactInv, Reading, FactsArrive
<1>. QED  BY <1>5, <1>6

LEMMA FactStays == ASSUME FactInv, [Next]_vars PROVE FactInv'
<1>1. SyncInv'
  BY SyncStays DEF FactInv
<1>2. CASE UNCHANGED vars
  <2>1. /\ UNCHANGED <<raport, tables, clean, fresh>> /\ UNCHANGED <<jobs, batch, kinds>>
    BY <1>2 DEF vars, local
  <2>2. FactsRight => FactsRight'
    BY <2>1, SameFacts
  <2>3. FactsArrive'
    BY <2>1, <2>2 DEF FactInv, FactsArrive, FactsRight, FactRight
  <2>4. \A p \in Proc : Reading(p)'
    BY <2>1, <2>2 DEF FactInv, Reading, CleanFacts
  <2>5. Settled' => \A p \in Proc : Current(p)'
    BY <2>1 DEF FactInv, Settled, Current, Running, JobOf
  <2>. QED  BY <1>1, <2>3, <2>4, <2>5 DEF FactInv
<1>3. ASSUME NEW p \in Proc, (\E request \in Duty[p] : Ask(p, request)) \/ AskImport(p) \/ Step(p) \/ Stop(p)
      PROVE  FactInv'
  <2>1. CASE Step(p)
    BY <1>1, <2>1, FactLists, FactWalk, FactGoUp, FactRead, FactFill, FactFilled, FactStore DEF Step
  <2>2. CASE AskImport(p)
    BY <1>1, <2>2, FactAsk
  <2>. QED  BY <1>1, <1>3, <2>1, <2>2, FactAsk, FactStop
<1>4. CASE (\E v \in Versions \ {raport} : RaportChanges(v)) \/ (\E t \in rows : Edit(t))
           \/ (\E t \in Removable : Remove(t))
  <2>1. Disturb
    BY <1>4 DEF RaportChanges, Edit, Remove
  <2>. QED  BY <1>1, <2>1, DisturbFacts
<1>. QED  BY <1>2, <1>3, <1>4 DEF Next

\* Facts are read of the state of Raport the tables are right for, and an
\* undisturbed reading of them is a reading of all.
THEOREM FactInvariance == Spec => []FactInv
<1>1. Init => FactInv
  <2>1. SUFFICES ASSUME Init PROVE FactInv
    OBVIOUS
  <2>2. ~Settled /\ \A p \in Proc : ~CleanFacts(p)
    BY <2>1 DEF Init, Settled, CleanFacts
  <2>3. FactsArrive
    BY <2>1 DEF Init, FactsArrive
  <2>. QED  BY <2>1, <2>2, <2>3, SyncBegins DEF FactInv, Reading
<1>2. FactInv /\ [Next]_vars => FactInv'
  BY FactStays
<1>. QED  BY <1>1, <1>2, PTL DEF Spec

\* A reading of facts over right tables that loses no page leaves no fact out and
\* gives it to the one contractor of its cell (sync_work_facts and
\* _resolve_fact_contractor).
THEOREM FactSafety == Spec => []FactsArrive
<1>1. FactInv => FactsArrive
  BY DEF FactInv
<1>. QED  BY <1>1, FactInvariance, PTL

=============================================================================
