------------------------- MODULE TechSequenceProofs -------------------------
(***************************************************************************)
(* Theorems about TechSequence, for any sections, plans and callers.       *)
(***************************************************************************)
EXTENDS TechSequence, TLAPS

\* Who is about to store has read a plan.
PlanIsRead == \A p \in Proc : pc[p] = "store" => got[p] \in Plans

Base == TypeOK /\ PlanIsRead

-----------------------------------------------------------------------------
(* Volumes.                                                                *)

\* A sync is going to delete rows of its own scope that exist.
StaleIsHere ==
  \A p \in Proc : \A k \in stale[p] : pc[p] = "drop" /\ k[1] = at[p] /\ \E r \in rows : Key(r) = k

\* A row that keeps a volume and passes for Raport's is in the plan of its scope.
RaportRowsArePlanned ==
  \A r \in rows : r.work \in known /\
    (Key(r) \in entered /\ r.source = "raport" => Has(PlanNow(r.scope), r.work))

\* No sync takes the work of an entered volume for what it is not.
NobodyBehind ==
  \A k \in entered, p \in Proc :
    /\ k \notin stale[p]
    /\ at[p] = k[1] /\ pc[p] = "store" => (Has(got[p], k[2]) <=> Has(PlanNow(k[1]), k[2]))
    /\ at[p] = k[1] /\ pc[p] = "find" /\ Has(PlanNow(k[1]), k[2]) => k[2] \in fresh[p]

VolumeInv == Base /\ VolumesSurvive /\ StaleIsHere /\ RaportRowsArePlanned /\ NobodyBehind

-----------------------------------------------------------------------------
(* Rows.                                                                   *)

\* The rows of a scope are those of a plan: its works with their predecessors are
\* there ...
Shown(s) ==
  \A w \in WorksOf(PlanNow(s)) :
    \E r \in rows : Key(r) = <<s, w>> /\ r.source = "raport" /\ r.after = After(PlanNow(s), w)

\* ... and no other row passes for Raport's.
Only(s) == \A r \in rows : r.scope = s /\ r.source = "raport" => r.work \in WorksOf(PlanNow(s))

Done(s) == PlanNow(s) # None => Shown(s) /\ Only(s)

\* How far a sync has come that nothing has disturbed.
Undisturbed(p) ==
  /\ \A s \in Scope \ (todo[p] \cup {at[p]}) : Done(s)
  /\ pc[p] # "load" => PlanNow(at[p]) # None
  /\ pc[p] = "store" => got[p] = PlanNow(at[p])
  /\ pc[p] = "find" => Shown(at[p]) /\ fresh[p] = WorksOf(PlanNow(at[p]))
  /\ pc[p] = "drop" =>
       /\ Shown(at[p])
       /\ \A k \in stale[p] : k[1] = at[p] /\ k[2] \notin WorksOf(PlanNow(at[p]))
       /\ \A r \in rows : r.scope = at[p] /\ r.source = "raport" /\ r.work \notin WorksOf(PlanNow(at[p]))
                            => Key(r) \in stale[p]

RowInv ==
  /\ Base
  /\ match => \A s \in Scope : Done(s)
  /\ \A p \in Proc : Running(p) /\ clean[p] => Undisturbed(p)

-----------------------------------------------------------------------------
(* Plans and the rows made of them.                                        *)

\* The row of a work of a plan.
RowFor(P, s, w) == [scope |-> s, work |-> w, after |-> After(P, w), source |-> "raport", volume |-> FALSE]

LEMMA KeyParts == \A r, u \in Row : Key(r) = Key(u) <=> r.scope = u.scope /\ r.work = u.work
BY DEF Key

LEMMA PlanWorks ==
  ASSUME NEW P \in Plans
  PROVE  /\ P # None
         /\ \A w : w \in WorksOf(P) <=> w \in known /\ Has(P, w)
         /\ \A w : Has(P, w) => w \in Work
         /\ \A w : After(P, w) \subseteq Work \X Link
<1>1. P # None /\ P.tasks \subseteq Task /\ P.edges \subseteq P.tasks \X P.tasks \X Link
  BY PlanAssumption
<1>2. \A t \in P.tasks : WorkOf[t] \in Work
  BY <1>1, TaskAssumption
<1>3. \A w : w \in WorksOf(P) <=> w \in known /\ Has(P, w)
  BY <1>1 DEF WorksOf, Usable, Has
<1>4. \A e \in P.edges : e[1] \in P.tasks /\ e[3] \in Link
  BY <1>1
<1>5. \A w : After(P, w) \subseteq Work \X Link
  BY <1>2, <1>4 DEF After
<1>. QED  BY <1>1, <1>2, <1>3, <1>5 DEF Has

LEMMA PlanNowTyped ==
  ASSUME TypeOK, NEW s \in Scope
  PROVE  /\ PlanNow(s) \in Plans \cup {None}
         /\ raport[s] # None => PlanNow(s) = raport[s]
         /\ raport[s] = None => PlanNow(s) = IF s = None THEN Template ELSE None
BY PlanAssumption DEF TypeOK, PlanNow

LEMMA RowForTyped ==
  ASSUME TypeOK, NEW P \in Plans, NEW s \in Scope, NEW w \in WorksOf(P), NEW volume \in BOOLEAN
  PROVE  /\ RowFor(P, s, w) \in Row
         /\ [RowFor(P, s, w) EXCEPT !.volume = volume] \in Row
<1>1. w \in Work /\ After(P, w) \subseteq Work \X Link
  BY PlanWorks
<1>. QED  BY <1>1 DEF RowFor, Row

\* What an upsert leaves: the rows of the plan, with the volumes there were, and
\* the others as they were.
LEMMA MergedParts ==
  ASSUME TypeOK, NEW P \in Plans, NEW s \in Scope, NEW r
  PROVE  r \in Merged(RowsOf(P, s)) <=>
           \/ r \in rows /\ ~(r.scope = s /\ r.work \in WorksOf(P))
           \/ \E w \in WorksOf(P) :
                r = [RowFor(P, s, w) EXCEPT !.volume = \E u \in rows : Key(u) = <<s, w>> /\ u.volume]
<1>1. RowsOf(P, s) = {RowFor(P, s, w) : w \in WorksOf(P)}
  BY DEF RowsOf, RowFor
<1>2. \A w : Key(RowFor(P, s, w)) = <<s, w>>
  BY DEF Key, RowFor
<1>3. \A u \in rows : (\A n \in RowsOf(P, s) : Key(n) # Key(u)) <=> ~(u.scope = s /\ u.work \in WorksOf(P))
  BY <1>1, <1>2 DEF Key
<1>4. r \in Merged(RowsOf(P, s)) <=>
        \/ r \in rows /\ \A n \in RowsOf(P, s) : Key(n) # Key(r)
        \/ \E n \in RowsOf(P, s) : r = [n EXCEPT !.volume = \E u \in rows : Key(u) = Key(n) /\ u.volume]
  BY DEF Merged
<1>. QED  BY <1>1, <1>2, <1>3, <1>4

LEMMA MergedTyped ==
  ASSUME TypeOK, NEW P \in Plans, NEW s \in Scope
  PROVE  /\ Merged(RowsOf(P, s)) \subseteq Row
         /\ \A r, u \in Merged(RowsOf(P, s)) : Key(r) = Key(u) => r = u
<1>. DEFINE Volume(w) == \E u \in rows : Key(u) = <<s, w>> /\ u.volume
<1>1. \A r : r \in Merged(RowsOf(P, s)) <=>
           \/ r \in rows /\ ~(r.scope = s /\ r.work \in WorksOf(P))
           \/ \E w \in WorksOf(P) : r = [RowFor(P, s, w) EXCEPT !.volume = Volume(w)]
  BY MergedParts
<1>2. \A w : Volume(w) \in BOOLEAN
  OBVIOUS
<1>. HIDE DEF Volume
<1>3. \A w \in WorksOf(P) : [RowFor(P, s, w) EXCEPT !.volume = Volume(w)] \in Row
  BY <1>2, RowForTyped
<1>. DEFINE Made(w) == [RowFor(P, s, w) EXCEPT !.volume = Volume(w)]
<1>4. \A w : Key(Made(w)) = <<s, w>>
  BY DEF Key, RowFor
<1>. HIDE DEF Made
<1>5. rows \subseteq Row /\ \A r, u \in rows : Key(r) = Key(u) => r = u
  BY DEF TypeOK
<1>6. \A r \in Merged(RowsOf(P, s)) :
        (r \in rows /\ ~(r.scope = s /\ r.work \in WorksOf(P))) \/ (\E w \in WorksOf(P) : r = Made(w))
  BY <1>1 DEF Made
<1>7. \A w \in WorksOf(P) : Made(w) \in Row
  BY <1>3 DEF Made
<1>8. ASSUME NEW r \in Merged(RowsOf(P, s)), NEW u \in Merged(RowsOf(P, s)), Key(r) = Key(u) PROVE r = u
  <2>1. CASE r \in rows /\ u \in rows
    BY <1>5, <1>8, <2>1
  <2>2. ASSUME NEW w \in WorksOf(P), r = Made(w) PROVE r = u
    <3>1. Key(u) = <<s, w>>
      BY <1>4, <1>8, <2>2
    <3>2. ~(u \in rows /\ ~(u.scope = s /\ u.work \in WorksOf(P)))
      BY <3>1 DEF Key
    <3>. QED  BY <1>4, <1>6, <2>2, <3>1, <3>2
  <2>3. ASSUME NEW w \in WorksOf(P), u = Made(w) PROVE r = u
    <3>1. Key(r) = <<s, w>>
      BY <1>4, <1>8, <2>3
    <3>2. ~(r \in rows /\ ~(r.scope = s /\ r.work \in WorksOf(P)))
      BY <3>1 DEF Key
    <3>. QED  BY <1>4, <1>6, <2>3, <3>1, <3>2
  <2>. QED  BY <1>6, <2>1, <2>2, <2>3
<1>. QED  BY <1>5, <1>6, <1>7, <1>8

LEMMA MergedRows ==
  ASSUME TypeOK, NEW P \in Plans, NEW s \in Scope
  PROVE  /\ \A r \in Merged(RowsOf(P, s)) :
              \/ r \in rows /\ ~(r.scope = s /\ r.work \in WorksOf(P))
              \/ /\ r.scope = s /\ r.work \in WorksOf(P) /\ r.source = "raport" /\ r.after = After(P, r.work)
                 /\ r.volume <=> \E u \in rows : Key(u) = Key(r) /\ u.volume
         /\ \A r \in rows : ~(r.scope = s /\ r.work \in WorksOf(P)) => r \in Merged(RowsOf(P, s))
         /\ \A w \in WorksOf(P) : \E r \in Merged(RowsOf(P, s)) : Key(r) = <<s, w>>
<1>. DEFINE Made(w) == [RowFor(P, s, w) EXCEPT !.volume = \E u \in rows : Key(u) = <<s, w>> /\ u.volume]
<1>1. \A r : r \in Merged(RowsOf(P, s)) <=>
           \/ r \in rows /\ ~(r.scope = s /\ r.work \in WorksOf(P))
           \/ \E w \in WorksOf(P) : r = Made(w)
  BY MergedParts
<1>2. ASSUME NEW w \in WorksOf(P)
      PROVE  /\ Key(Made(w)) = <<s, w>> /\ Made(w).scope = s /\ Made(w).work = w
             /\ Made(w).source = "raport" /\ Made(w).after = After(P, w)
             /\ Made(w).volume <=> \E u \in rows : Key(u) = <<s, w>> /\ u.volume
  BY DEF Key, RowFor
<1>. HIDE DEF Made
<1>3. ASSUME NEW r \in Merged(RowsOf(P, s)), ~(r \in rows /\ ~(r.scope = s /\ r.work \in WorksOf(P)))
      PROVE  /\ r.scope = s /\ r.work \in WorksOf(P) /\ r.source = "raport" /\ r.after = After(P, r.work)
             /\ r.volume <=> \E u \in rows : Key(u) = Key(r) /\ u.volume
  <2>1. PICK w \in WorksOf(P) : r = Made(w)
    BY <1>1, <1>3
  <2>. QED  BY <1>2, <2>1
<1>4. \A w \in WorksOf(P) : \E r \in Merged(RowsOf(P, s)) : Key(r) = <<s, w>>
  BY <1>1, <1>2
<1>. QED  BY <1>1, <1>3, <1>4

-----------------------------------------------------------------------------
(* The types.                                                              *)

LEMMA Typing == Base /\ [Next]_vars => TypeOK'
<1>. SUFFICES ASSUME TypeOK, PlanIsRead, [Next]_vars PROVE TypeOK'
  BY DEF Base
<1>1. CASE UNCHANGED vars
  BY <1>1 DEF TypeOK, vars, local
<1>2. ASSUME NEW p \in Proc, Begin(p) PROVE TypeOK'
  BY <1>2 DEF TypeOK, Begin, Goto, Scope
<1>3. ASSUME NEW p \in Proc, Leave(p)
      PROVE  /\ pc' \in [Proc -> {"idle", "load", "store", "find", "drop"}]
             /\ todo' \in [Proc -> SUBSET Scope] /\ at' \in [Proc -> Scope]
             /\ got' \in [Proc -> Plans \cup {None}] /\ fresh' \in [Proc -> SUBSET Work]
  BY <1>3 DEF TypeOK, Leave, Goto, Scope
<1>4. ASSUME NEW p \in Proc, Load(p) PROVE TypeOK'
  <2>1. CASE raport[at[p]] = None /\ at[p] # None
    BY <1>3, <1>4, <2>1 DEF TypeOK, Load, Completes
  <2>2. CASE ~(raport[at[p]] = None /\ at[p] # None)
    BY <1>4, <2>2, PlanAssumption DEF TypeOK, Load, Goto
  <2>. QED  BY <2>1, <2>2
<1>5. ASSUME NEW p \in Proc, Store(p) PROVE TypeOK'
  <2>1. got[p] \in Plans
    BY <1>5 DEF Store, PlanIsRead
  <2>2. WorksOf(got[p]) \subseteq Work
    BY <2>1, PlanWorks
  <2>3. rows' \subseteq Row /\ \A r, u \in rows' : Key(r) = Key(u) => r = u
    BY <1>5, <2>1, MergedTyped DEF Store, TypeOK
  <2>4. clean' \in [Proc -> BOOLEAN] /\ match' \in BOOLEAN
    BY <1>5 DEF Store, Stored, Disturb, TypeOK
  <2>. QED  BY <1>5, <2>2, <2>3, <2>4 DEF TypeOK, Store, Goto
<1>6. ASSUME NEW p \in Proc, Find(p) PROVE TypeOK'
  BY <1>6 DEF TypeOK, Find, Goto, Key, Row
<1>7. ASSUME NEW p \in Proc, Drop(p) PROVE TypeOK'
  BY <1>3, <1>7 DEF TypeOK, Drop, Completes
<1>8. ASSUME NEW p \in Proc, Crash(p) PROVE TypeOK'
  BY <1>8 DEF TypeOK, Crash, Goto, Scope
<1>9. ASSUME NEW s \in Scope, NEW w \in Work, NEW volume \in BOOLEAN, Create(s, w, volume) PROVE TypeOK'
  <2>. DEFINE row == [scope |-> s, work |-> w, after |-> {}, source |-> "manual", volume |-> volume]
  <2>1. row \in Row /\ Key(row) = <<s, w>>
    BY DEF Row, Key
  <2>2. rows' = rows \cup {row} /\ \A r \in rows : Key(r) # <<s, w>>
    BY <1>9 DEF Create
  <2>. HIDE DEF row
  <2>3. entered' \subseteq Scope \X Work
    BY <1>9 DEF Create, TypeOK
  <2>. QED  BY <1>9, <2>1, <2>2, <2>3 DEF Create, TypeOK, local
<1>10. ASSUME NEW r \in rows, Delete(r) PROVE TypeOK'
  BY <1>10 DEF TypeOK, Delete, Disturb
<1>11. ASSUME NEW s \in Scope, NEW P \in Plans \cup {None}, RaportChanges(s, P) PROVE TypeOK'
  BY <1>11 DEF TypeOK, RaportChanges, Disturb, local
<1>12. ASSUME NEW w \in Work, Learn(w) PROVE TypeOK'
  BY <1>12 DEF TypeOK, Learn, Disturb, local
<1>. QED
  BY <1>1, <1>2, <1>4, <1>5, <1>6, <1>7, <1>8, <1>9, <1>10, <1>11, <1>12 DEF Next

\* No step but a reading changes what a sync has got, and none but it leads to the
\* storing.
LEMMA Reading == Base /\ [Next]_vars => PlanIsRead'
<1>. SUFFICES ASSUME TypeOK, PlanIsRead, [Next]_vars PROVE PlanIsRead'
  BY DEF Base
<1>1. CASE UNCHANGED local
  BY <1>1 DEF PlanIsRead, local
<1>2. ASSUME NEW p \in Proc, Begin(p) \/ Find(p) \/ Crash(p) PROVE PlanIsRead'
  BY <1>2 DEF TypeOK, PlanIsRead, Begin, Find, Crash, Goto
<1>3. ASSUME NEW p \in Proc, Load(p) PROVE PlanIsRead'
  <2>1. CASE raport[at[p]] = None /\ at[p] # None
    BY <1>3, <2>1 DEF TypeOK, PlanIsRead, Load, Leave, Goto
  <2>2. CASE ~(raport[at[p]] = None /\ at[p] # None)
    BY <1>3, <2>2, PlanAssumption DEF TypeOK, PlanIsRead, Load, Goto
  <2>. QED  BY <2>1, <2>2
<1>4. ASSUME NEW p \in Proc, Store(p) PROVE PlanIsRead'
  BY <1>4 DEF TypeOK, PlanIsRead, Store, Goto
<1>5. ASSUME NEW p \in Proc, Drop(p) PROVE PlanIsRead'
  BY <1>5 DEF TypeOK, PlanIsRead, Drop, Leave, Goto
<1>6. ASSUME NEW r \in rows, Delete(r) PROVE PlanIsRead'
  BY <1>6 DEF PlanIsRead, Delete
<1>. QED
  BY <1>1, <1>2, <1>3, <1>4, <1>5, <1>6 DEF Next, Create, RaportChanges, Learn, vars

LEMMA BaseStays == Base /\ [Next]_vars => Base'
BY Typing, Reading DEF Base

-----------------------------------------------------------------------------
(* Volumes survive.                                                        *)

LEMMA SamePlans == raport' = raport => \A s : PlanNow(s)' = PlanNow(s)
BY DEF PlanNow

\* The parts of the invariant, for a step that leaves the rows and the plans alone.
LEMMA QuietVolumes ==
  ASSUME VolumeInv, raport' = raport, known' = known, rows' = rows, entered' = entered
  PROVE  VolumesSurvive' /\ RaportRowsArePlanned'
BY SamePlans DEF VolumeInv, VolumesSurvive, RaportRowsArePlanned

LEMMA VolumesOfSyncs ==
  ASSUME VolumeInv, NEW p \in Proc, Begin(p) \/ Load(p) \/ Find(p) \/ Crash(p)
  PROVE  VolumesSurvive' /\ StaleIsHere' /\ RaportRowsArePlanned' /\ NobodyBehind'
<1>0. /\ raport' = raport /\ known' = known /\ rows' = rows /\ entered' = entered
      /\ TypeOK /\ StaleIsHere /\ NobodyBehind /\ RaportRowsArePlanned
      /\ \A s : PlanNow(s)' = PlanNow(s)
  BY SamePlans DEF Begin, Load, Find, Crash, VolumeInv, Base
<1>1. VolumesSurvive' /\ RaportRowsArePlanned'
  BY <1>0, QuietVolumes
<1>2. CASE Begin(p) \/ Crash(p)
  <2>1. /\ pc'[p] \in {"load", "idle"} /\ stale'[p] = {}
        /\ \A q \in Proc \ {p} : /\ pc'[q] = pc[q] /\ at'[q] = at[q] /\ got'[q] = got[q]
                                 /\ fresh'[q] = fresh[q] /\ stale'[q] = stale[q]
    BY <1>0, <1>2 DEF Begin, Crash, Goto, Running, TypeOK, StaleIsHere
  <2>2. StaleIsHere'
    BY <1>0, <2>1 DEF StaleIsHere
  <2>3. NobodyBehind'
    BY <1>0, <2>1 DEF NobodyBehind
  <2>. QED  BY <1>1, <2>2, <2>3
<1>3. CASE Load(p)
  <2>1. stale' = stale /\ stale[p] = {}
    BY <1>0, <1>3 DEF Load, StaleIsHere
  <2>2. \A q \in Proc \ {p} : pc'[q] = pc[q] /\ at'[q] = at[q] /\ got'[q] = got[q] /\ fresh'[q] = fresh[q]
    BY <1>0, <1>3 DEF Load, Leave, Goto, TypeOK
  <2>3. pc'[p] \in {"load", "idle"} \/ (pc'[p] = "store" /\ at'[p] = at[p] /\ got'[p] = PlanNow(at[p]))
    <3>1. CASE raport[at[p]] = None /\ at[p] # None
      BY <1>0, <1>3, <3>1 DEF Load, Leave, Goto, TypeOK
    <3>2. CASE ~(raport[at[p]] = None /\ at[p] # None)
      BY <1>0, <1>3, <3>2 DEF Load, Goto, TypeOK, PlanNow
    <3>. QED  BY <3>1, <3>2
  <2>4. StaleIsHere'
    BY <1>0, <2>1, <2>2 DEF StaleIsHere
  <2>5. NobodyBehind'
    BY <1>0, <2>1, <2>2, <2>3 DEF NobodyBehind
  <2>. QED  BY <1>1, <2>4, <2>5
<1>4. CASE Find(p)
  <2>1. /\ pc'[p] = "drop" /\ at' = at /\ got' = got
        /\ stale'[p] = {Key(r) : r \in {r \in rows : Stale(p, r) /\ r.scope = at[p]}}
        /\ \A q \in Proc \ {p} : pc'[q] = pc[q] /\ fresh'[q] = fresh[q] /\ stale'[q] = stale[q]
    BY <1>0, <1>4 DEF Find, Goto, TypeOK
  <2>2. StaleIsHere'
    <3>1. ASSUME NEW k \in stale'[p] PROVE k[1] = at[p] /\ \E r \in rows : Key(r) = k
      BY <2>1 DEF Key
    <3>. QED  BY <1>0, <2>1, <3>1 DEF StaleIsHere
  <2>3. ASSUME NEW k \in entered PROVE k \notin stale'[p]
    <3>. SUFFICES ASSUME k \in stale'[p] PROVE FALSE
      OBVIOUS
    <3>1. PICK r \in rows : k = Key(r) /\ r.source = "raport" /\ r.work \notin fresh[p] /\ r.scope = at[p]
      BY <2>1 DEF Stale
    <3>2. k[1] = r.scope /\ k[2] = r.work
      BY <3>1 DEF Key
    <3>3. Has(PlanNow(k[1]), k[2])
      BY <1>0, <2>3, <3>1, <3>2 DEF RaportRowsArePlanned
    <3>4. pc[p] = "find"
      BY <1>4 DEF Find
    <3>. QED  BY <1>0, <2>3, <3>1, <3>2, <3>3, <3>4 DEF NobodyBehind
  <2>4. NobodyBehind'
    BY <1>0, <2>1, <2>3 DEF NobodyBehind
  <2>. QED  BY <1>1, <2>2, <2>4
<1>. QED  BY <1>2, <1>3, <1>4

LEMMA VolumesOfStore ==
  ASSUME VolumeInv, NEW p \in Proc, Store(p)
  PROVE  VolumesSurvive' /\ StaleIsHere' /\ RaportRowsArePlanned' /\ NobodyBehind'
<1>. DEFINE P == got[p]  s == at[p]  new == Merged(RowsOf(P, s))
<1>0. /\ raport' = raport /\ known' = known /\ rows' = new /\ entered' = entered
      /\ at' = at /\ stale' = stale /\ pc[p] = "store"
      /\ TypeOK /\ VolumesSurvive /\ StaleIsHere /\ NobodyBehind /\ RaportRowsArePlanned
      /\ P \in Plans /\ s \in Scope
      /\ \A t : PlanNow(t)' = PlanNow(t)
  BY SamePlans DEF Store, VolumeInv, Base, PlanIsRead, TypeOK
<1>1. /\ pc'[p] = "find" /\ fresh'[p] = WorksOf(P)
      /\ \A q \in Proc \ {p} : pc'[q] = pc[q] /\ got'[q] = got[q] /\ fresh'[q] = fresh[q]
  BY <1>0 DEF Store, Goto, TypeOK
<1>2. /\ \A r \in new :
           \/ r \in rows /\ ~(r.scope = s /\ r.work \in WorksOf(P))
           \/ /\ r.scope = s /\ r.work \in WorksOf(P) /\ r.source = "raport" /\ r.after = After(P, r.work)
              /\ r.volume <=> \E u \in rows : Key(u) = Key(r) /\ u.volume
      /\ \A r \in rows : ~(r.scope = s /\ r.work \in WorksOf(P)) => r \in new
      /\ \A w \in WorksOf(P) : \E r \in new : Key(r) = <<s, w>>
  BY <1>0, MergedRows
<1>3. \A w : w \in WorksOf(P) <=> w \in known /\ Has(P, w)
  BY <1>0, PlanWorks
<1>4. \A w : s \in Scope /\ <<s, w>> \in entered => (Has(P, w) <=> Has(PlanNow(s), w))
  <2>. SUFFICES ASSUME NEW w, <<s, w>> \in entered PROVE Has(P, w) <=> Has(PlanNow(s), w)
    OBVIOUS
  <2>1. <<s, w>>[1] = s /\ <<s, w>>[2] = w
    OBVIOUS
  <2>. QED  BY <1>0, <2>1 DEF NobodyBehind
<1>. HIDE DEF P, s, new
<1>5. \A r \in rows : \E u \in new : Key(u) = Key(r) /\ (r.volume => u.volume)
  <2>. SUFFICES ASSUME NEW r \in rows PROVE \E u \in new : Key(u) = Key(r) /\ (r.volume => u.volume)
    OBVIOUS
  <2>1. CASE ~(r.scope = s /\ r.work \in WorksOf(P))
    BY <1>2, <2>1
  <2>2. CASE r.scope = s /\ r.work \in WorksOf(P)
    <3>1. PICK u \in new : Key(u) = <<s, r.work>>
      BY <1>2, <2>2
    <3>2. Key(u) = Key(r) /\ u.scope = s /\ u.work = r.work
      BY <2>2, <3>1 DEF Key
    <3>3. u.volume <=> \E v \in rows : Key(v) = Key(u) /\ v.volume
      BY <1>2, <2>2, <3>2
    <3>. QED  BY <3>2, <3>3
  <2>. QED  BY <2>1, <2>2
<1>6. VolumesSurvive'
  BY <1>0, <1>5 DEF VolumesSurvive
<1>7. StaleIsHere'
  <2>1. stale[p] = {}
    BY <1>0 DEF StaleIsHere
  <2>. QED  BY <1>0, <1>1, <1>5, <2>1 DEF StaleIsHere
<1>8. RaportRowsArePlanned'
  <2>1. ASSUME NEW r \in new
        PROVE r.work \in known /\ (Key(r) \in entered /\ r.source = "raport" => Has(PlanNow(r.scope), r.work))
    <3>1. CASE r \in rows
      BY <1>0, <3>1 DEF RaportRowsArePlanned
    <3>2. CASE r.scope = s /\ r.work \in WorksOf(P)
      <4>1. Key(r) = <<s, r.work>>
        BY <3>2 DEF Key
      <4>. QED  BY <1>0, <1>3, <1>4, <3>2, <4>1
    <3>. QED  BY <1>2, <2>1, <3>1, <3>2
  <2>. QED  BY <1>0, <2>1 DEF RaportRowsArePlanned
<1>9. ASSUME NEW k \in entered, s = k[1], Has(PlanNow(k[1]), k[2]) PROVE k[2] \in WorksOf(P)
  <2>1. PICK r \in rows : Key(r) = k
    BY <1>0 DEF VolumesSurvive
  <2>2. r.work = k[2] /\ k = <<s, k[2]>> /\ r.work \in known
    BY <1>0, <1>9, <2>1 DEF Key, RaportRowsArePlanned
  <2>. QED  BY <1>0, <1>3, <1>4, <1>9, <2>2
<1>10. NobodyBehind'
  BY <1>0, <1>1, <1>9 DEF NobodyBehind, s
<1>. QED  BY <1>6, <1>7, <1>8, <1>10

LEMMA VolumesOfDrop ==
  ASSUME VolumeInv, NEW p \in Proc, Drop(p)
  PROVE  VolumesSurvive' /\ StaleIsHere' /\ RaportRowsArePlanned' /\ NobodyBehind'
<1>0. /\ raport' = raport /\ known' = known /\ entered' = entered
      /\ rows' = {r \in rows : Key(r) \notin stale[p]}
      /\ TypeOK /\ VolumesSurvive /\ StaleIsHere /\ NobodyBehind /\ RaportRowsArePlanned
      /\ \A t : PlanNow(t)' = PlanNow(t)
  BY SamePlans DEF Drop, VolumeInv, Base
<1>1. /\ pc'[p] \in {"load", "idle"}
      /\ \A q \in Proc : stale'[q] = stale[q] \ stale[p] /\ got'[q] = got[q] /\ fresh'[q] = fresh[q]
      /\ \A q \in Proc \ {p} : pc'[q] = pc[q] /\ at'[q] = at[q]
  BY <1>0 DEF Drop, Leave, Goto, TypeOK
<1>2. VolumesSurvive'
  BY <1>0 DEF VolumesSurvive, NobodyBehind
<1>3. StaleIsHere'
  BY <1>0, <1>1 DEF StaleIsHere
<1>4. RaportRowsArePlanned'
  BY <1>0 DEF RaportRowsArePlanned
<1>5. NobodyBehind'
  BY <1>0, <1>1 DEF NobodyBehind
<1>. QED  BY <1>2, <1>3, <1>4, <1>5

LEMMA VolumesOfCreate ==
  ASSUME VolumeInv, NEW s \in Scope, NEW w \in Work, NEW volume \in BOOLEAN, Create(s, w, volume)
  PROVE  VolumesSurvive' /\ StaleIsHere' /\ RaportRowsArePlanned' /\ NobodyBehind'
<1>. DEFINE row == [scope |-> s, work |-> w, after |-> {}, source |-> "manual", volume |-> volume]
<1>1. row.scope = s /\ row.work = w /\ row.source = "manual" /\ row.volume = volume /\ Key(row) = <<s, w>>
  BY DEF Key
<1>2. /\ rows' = rows \cup {row} /\ w \in known /\ \A r \in rows : Key(r) # <<s, w>>
      /\ raport' = raport /\ known' = known /\ pc' = pc /\ at' = at /\ got' = got /\ fresh' = fresh
      /\ stale' = stale
  BY DEF Create, local
<1>3. entered' = entered \/ (/\ entered' = entered \cup {<<s, w>>} /\ volume
                             /\ \A p \in Proc : ~Behind(p, s, w, Has(PlanNow(s), w)))
  BY DEF Create
<1>. HIDE DEF row
<1>4. /\ VolumesSurvive /\ StaleIsHere /\ RaportRowsArePlanned /\ NobodyBehind
      /\ \A t : PlanNow(t)' = PlanNow(t)
  BY <1>2, SamePlans DEF VolumeInv
<1>5. VolumesSurvive'
  BY <1>1, <1>2, <1>3, <1>4 DEF VolumesSurvive
<1>6. StaleIsHere'
  BY <1>2, <1>4 DEF StaleIsHere
<1>7. RaportRowsArePlanned'
  BY <1>1, <1>2, <1>3, <1>4 DEF RaportRowsArePlanned
<1>8. \A p \in Proc : <<s, w>> \notin stale[p]
  BY <1>2, <1>4 DEF StaleIsHere
<1>9. ASSUME NEW p \in Proc, ~Behind(p, s, w, Has(PlanNow(s), w)), at[p] = s
      PROVE  /\ pc[p] = "store" => (Has(got[p], w) <=> Has(PlanNow(s), w))
             /\ pc[p] = "find" /\ Has(PlanNow(s), w) => w \in fresh[p]
  <2>1. Has(got[p], w) \in BOOLEAN /\ Has(PlanNow(s), w) \in BOOLEAN
    BY DEF Has
  <2>. QED  BY <1>9, <2>1 DEF Behind
<1>10. NobodyBehind'
  <2>1. ASSUME NEW k \in entered', NEW p \in Proc
        PROVE /\ k \notin stale[p]
              /\ at[p] = k[1] /\ pc[p] = "store" => (Has(got[p], k[2]) <=> Has(PlanNow(k[1]), k[2]))
              /\ at[p] = k[1] /\ pc[p] = "find" /\ Has(PlanNow(k[1]), k[2]) => k[2] \in fresh[p]
    <3>1. CASE k \in entered
      BY <1>4, <3>1 DEF NobodyBehind
    <3>2. CASE k \notin entered
      <4>1. k = <<s, w>> /\ k[1] = s /\ k[2] = w /\ ~Behind(p, s, w, Has(PlanNow(s), w))
        BY <1>3, <2>1, <3>2
      <4>. QED  BY <1>8, <1>9, <4>1
    <3>. QED  BY <3>1, <3>2
  <2>. QED  BY <1>2, <1>4, <2>1 DEF NobodyBehind
<1>. QED  BY <1>5, <1>6, <1>7, <1>10

LEMMA VolumesOfDelete ==
  ASSUME VolumeInv, NEW r \in rows, Delete(r)
  PROVE  VolumesSurvive' /\ StaleIsHere' /\ RaportRowsArePlanned' /\ NobodyBehind'
<1>1. /\ rows' = rows \ {r} /\ entered' = entered \ {Key(r)}
      /\ raport' = raport /\ known' = known /\ pc' = pc /\ at' = at /\ got' = got /\ fresh' = fresh
      /\ \A p \in Proc : stale'[p] = stale[p] \ {Key(r)}
  BY DEF Delete
<1>2. /\ VolumesSurvive /\ StaleIsHere /\ RaportRowsArePlanned /\ NobodyBehind
      /\ \A t : PlanNow(t)' = PlanNow(t)
  BY <1>1, SamePlans DEF VolumeInv
<1>3. VolumesSurvive'
  BY <1>1, <1>2 DEF VolumesSurvive
<1>4. StaleIsHere'
  BY <1>1, <1>2 DEF StaleIsHere
<1>5. RaportRowsArePlanned'
  BY <1>1, <1>2 DEF RaportRowsArePlanned
<1>6. NobodyBehind'
  BY <1>1, <1>2 DEF NobodyBehind
<1>. QED  BY <1>3, <1>4, <1>5, <1>6

LEMMA VolumesOfRaport ==
  ASSUME VolumeInv, NEW s \in Scope, NEW P \in Plans \cup {None}, RaportChanges(s, P)
  PROVE  VolumesSurvive' /\ StaleIsHere' /\ RaportRowsArePlanned' /\ NobodyBehind'
<1>1. /\ rows' = rows /\ known' = known /\ pc' = pc /\ at' = at /\ got' = got /\ fresh' = fresh /\ stale' = stale
      /\ entered' \subseteq entered
      /\ \A k \in entered' : k[1] = s =>
           /\ Has(PlanNow(s), k[2]) => Has(PlanNow(s)', k[2])
           /\ \A p \in Proc : ~Behind(p, s, k[2], Has(PlanNow(s)', k[2]))
  BY DEF RaportChanges, local
<1>2. /\ TypeOK /\ VolumesSurvive /\ StaleIsHere /\ RaportRowsArePlanned /\ NobodyBehind
      /\ rows \subseteq Row
  BY DEF VolumeInv, Base, TypeOK
<1>3. \A t \in Scope : t # s => PlanNow(t)' = PlanNow(t)
  BY <1>2 DEF RaportChanges, PlanNow, TypeOK
<1>4. VolumesSurvive' /\ StaleIsHere'
  BY <1>1, <1>2 DEF VolumesSurvive, StaleIsHere
<1>5. RaportRowsArePlanned'
  <2>1. ASSUME NEW r \in rows
        PROVE r.work \in known /\ (Key(r) \in entered' /\ r.source = "raport" => Has(PlanNow(r.scope)', r.work))
    <3>1. Key(r)[1] = r.scope /\ Key(r)[2] = r.work /\ r.scope \in Scope
      BY <1>2 DEF Key, Row
    <3>2. r.work \in known /\ (Key(r) \in entered /\ r.source = "raport" => Has(PlanNow(r.scope), r.work))
      BY <1>2 DEF RaportRowsArePlanned
    <3>. QED  BY <1>1, <1>3, <3>1, <3>2
  <2>. QED  BY <1>1, <2>1 DEF RaportRowsArePlanned
<1>6. NobodyBehind'
  <2>1. ASSUME NEW k \in entered', NEW p \in Proc
        PROVE /\ k \notin stale[p]
              /\ at[p] = k[1] /\ pc[p] = "store" => (Has(got[p], k[2]) <=> Has(PlanNow(k[1])', k[2]))
              /\ at[p] = k[1] /\ pc[p] = "find" /\ Has(PlanNow(k[1])', k[2]) => k[2] \in fresh[p]
    <3>1. k \in entered
      BY <1>1, <2>1
    <3>2. CASE k[1] # s
      <4>1. k[1] \in Scope
        BY <1>2, <3>1 DEF TypeOK
      <4>2. PlanNow(k[1])' = PlanNow(k[1])
        BY <1>3, <3>2, <4>1
      <4>. QED  BY <1>2, <3>1, <4>2 DEF NobodyBehind
    <3>3. CASE k[1] = s
      <4>1. ~Behind(p, s, k[2], Has(PlanNow(s)', k[2]))
        BY <1>1, <2>1, <3>3
      <4>2. Has(got[p], k[2]) \in BOOLEAN /\ Has(PlanNow(s)', k[2]) \in BOOLEAN
        BY DEF Has
      <4>3. k \notin stale[p]
        BY <1>2, <3>1 DEF NobodyBehind
      <4>. QED  BY <3>3, <4>1, <4>2, <4>3 DEF Behind
    <3>. QED  BY <3>2, <3>3
  <2>. QED  BY <1>1, <2>1 DEF NobodyBehind
<1>. QED  BY <1>4, <1>5, <1>6

LEMMA VolumesOfLearn ==
  ASSUME VolumeInv, NEW w \in Work, Learn(w)
  PROVE  VolumesSurvive' /\ StaleIsHere' /\ RaportRowsArePlanned' /\ NobodyBehind'
<1>1. /\ rows' = rows /\ entered' = entered /\ raport' = raport /\ known \subseteq known'
      /\ pc' = pc /\ at' = at /\ got' = got /\ fresh' = fresh /\ stale' = stale
  BY DEF Learn, local
<1>2. \A t : PlanNow(t)' = PlanNow(t)
  BY <1>1, SamePlans
<1>. QED
  BY <1>1, <1>2 DEF VolumeInv, VolumesSurvive, StaleIsHere, RaportRowsArePlanned, NobodyBehind

\* No step loses an entered volume, or brings a sync to lose one.
LEMMA VolumesStay == VolumeInv /\ [Next]_vars => VolumeInv'
<1>. SUFFICES ASSUME VolumeInv, [Next]_vars PROVE VolumeInv'
  OBVIOUS
<1>1. Base'
  BY BaseStays DEF VolumeInv
<1>. DEFINE Parts == VolumesSurvive /\ StaleIsHere /\ RaportRowsArePlanned /\ NobodyBehind
<1>2. CASE UNCHANGED vars
  <2>1. \A t : PlanNow(t)' = PlanNow(t)
    BY <1>2, SamePlans DEF vars
  <2>. QED
    BY <1>1, <1>2, <2>1 DEF VolumeInv, VolumesSurvive, StaleIsHere, RaportRowsArePlanned, NobodyBehind, vars, local
<1>3. ASSUME NEW p \in Proc, Begin(p) \/ Load(p) \/ Find(p) \/ Crash(p) PROVE Parts'
  BY <1>3, VolumesOfSyncs
<1>4. ASSUME NEW p \in Proc, Store(p) PROVE Parts'
  BY <1>4, VolumesOfStore
<1>5. ASSUME NEW p \in Proc, Drop(p) PROVE Parts'
  BY <1>5, VolumesOfDrop
<1>6. ASSUME NEW s \in Scope, NEW w \in Work, NEW volume \in BOOLEAN, Create(s, w, volume) PROVE Parts'
  BY <1>6, VolumesOfCreate
<1>7. ASSUME NEW r \in rows, Delete(r) PROVE Parts'
  BY <1>7, VolumesOfDelete
<1>8. ASSUME NEW s \in Scope, NEW P \in Plans \cup {None}, RaportChanges(s, P) PROVE Parts'
  BY <1>8, VolumesOfRaport
<1>9. ASSUME NEW w \in Work, Learn(w) PROVE Parts'
  BY <1>9, VolumesOfLearn
<1>10. CASE Next
  <2>1. Parts'
    BY <1>3, <1>4, <1>5, <1>6, <1>7, <1>8, <1>9, <1>10 DEF Next
  <2>. QED  BY <1>1, <2>1 DEF VolumeInv
<1>. QED  BY <1>2, <1>10

LEMMA BaseInit == Init => Base
<1>. SUFFICES ASSUME Init PROVE Base
  OBVIOUS
<1>1. None \in Scope
  BY DEF Scope
<1>. QED  BY <1>1 DEF Init, Base, TypeOK, PlanIsRead

\* The types of the state, and what a sync that is about to store has read.
THEOREM Typed == Spec => []TypeOK
<1>1. Base /\ [Next]_vars => Base'
  BY BaseStays
<1>2. Base => TypeOK
  BY DEF Base
<1>. QED  BY BaseInit, <1>1, <1>2, PTL DEF Spec

\* A volume a user has entered is kept until he deletes the row or Raport drops
\* the work from the plan of that scope: through crashes, through syncs of other
\* scopes and syncs that overlap, whatever the plans, scopes and callers.
THEOREM VolumeSafety == Spec => []VolumesSurvive
<1>1. Init => VolumeInv
  <2>1. Init => VolumesSurvive /\ StaleIsHere /\ RaportRowsArePlanned /\ NobodyBehind
    BY DEF Init, VolumesSurvive, StaleIsHere, RaportRowsArePlanned, NobodyBehind
  <2>. QED  BY <2>1, BaseInit DEF VolumeInv
<1>2. VolumeInv /\ [Next]_vars => VolumeInv'
  BY VolumesStay
<1>3. VolumeInv => VolumesSurvive
  BY DEF VolumeInv
<1>. QED  BY <1>1, <1>2, <1>3, PTL DEF Spec

-----------------------------------------------------------------------------
(* Rows match the plans.                                                   *)

\* What is read off the plans and the catalogue is the same after a step that
\* leaves them alone.
LEMMA SamePlanRows ==
  ASSUME raport' = raport, known' = known
  PROVE  \A s : /\ PlanNow(s)' = PlanNow(s)
                /\ WorksOf(PlanNow(s))' = WorksOf(PlanNow(s))
                /\ \A w : After(PlanNow(s), w)' = After(PlanNow(s), w)
BY DEF PlanNow, WorksOf, After, Usable

\* A step that keeps what is shown, and makes no row of Raport's but of planned
\* works, leaves a sync that is not its own undisturbed.
LEMMA OthersGoOn ==
  ASSUME raport' = raport, known' = known,
         \A s : Shown(s) => Shown(s)', \A s : Only(s) => Only(s)',
         \A r \in rows' : r.source = "raport" => r \in rows \/ r.work \in WorksOf(PlanNow(r.scope)),
         NEW q \in Proc, Undisturbed(q),
         pc'[q] = pc[q], todo'[q] = todo[q], at'[q] = at[q], got'[q] = got[q], fresh'[q] = fresh[q],
         stale'[q] \subseteq stale[q],
         \A r \in rows' : Key(r) \in stale[q] => Key(r) \in stale'[q]
  PROVE  Undisturbed(q)'
<1>1. \A s : PlanNow(s)' = PlanNow(s) /\ WorksOf(PlanNow(s))' = WorksOf(PlanNow(s))
  BY SamePlanRows
<1>2. \A s : Done(s) => Done(s)'
  BY <1>1 DEF Done
<1>3. \A s \in Scope \ (todo'[q] \cup {at'[q]}) : Done(s)'
  BY <1>2 DEF Undisturbed
<1>4. PICK s : s = at[q]
  OBVIOUS
<1>5. /\ pc'[q] # "load" => PlanNow(s)' # None
      /\ pc'[q] = "store" => got'[q] = PlanNow(s)'
      /\ pc'[q] = "find" => Shown(s)' /\ fresh'[q] = WorksOf(PlanNow(s))'
  BY <1>1, <1>4 DEF Undisturbed
<1>6. ASSUME pc'[q] = "drop"
      PROVE  /\ Shown(s)'
             /\ \A k \in stale'[q] : k[1] = s /\ k[2] \notin WorksOf(PlanNow(s))'
             /\ \A r \in rows' : r.scope = s /\ r.source = "raport" /\ r.work \notin WorksOf(PlanNow(s))'
                                   => Key(r) \in stale'[q]
  BY <1>1, <1>4, <1>6 DEF Undisturbed
<1>7. at'[q] = s
  BY <1>4
<1>. QED  BY <1>3, <1>5, <1>6, <1>7 DEF Undisturbed

\* A sync that leaves a scope that is done goes on undisturbed, or has done all.
LEMMA LeavesDone ==
  ASSUME TypeOK, NEW p \in Proc, Leave(p), \A s \in Scope \ todo[p] : Done(s)'
  PROVE  /\ pc'[p] # "idle" => Undisturbed(p)'
         /\ todo[p] = {} => \A s \in Scope : Done(s)'
<1>1. CASE todo[p] = {}
  BY <1>1 DEF Leave, Goto, TypeOK
<1>2. CASE todo[p] # {}
  <2>1. pc'[p] = "load" /\ todo[p] = todo'[p] \cup {at'[p]}
    BY <1>2 DEF Leave, Goto, TypeOK
  <2>. QED  BY <1>2, <2>1 DEF Undisturbed
<1>. QED  BY <1>1, <1>2

LEMMA RowsOfBegin ==
  ASSUME RowInv, NEW p \in Proc, Begin(p) \/ Crash(p)
  PROVE  /\ match' => \A s \in Scope : Done(s)'
         /\ \A q \in Proc : pc'[q] # "idle" /\ clean'[q] => Undisturbed(q)'
<1>1. /\ raport' = raport /\ known' = known /\ rows' = rows /\ match' = match
      /\ \A q \in Proc \ {p} : /\ pc'[q] = pc[q] /\ todo'[q] = todo[q] /\ at'[q] = at[q] /\ got'[q] = got[q]
                               /\ fresh'[q] = fresh[q] /\ stale'[q] = stale[q] /\ clean'[q] = clean[q]
  BY DEF Begin, Crash, Goto, RowInv, Base, TypeOK
<1>2. \A s : (Shown(s) => Shown(s)') /\ (Only(s) => Only(s)') /\ (Done(s) => Done(s)')
  BY <1>1, SamePlanRows DEF Shown, Only, Done
<1>3. ASSUME NEW q \in Proc \ {p}, pc'[q] # "idle", clean'[q] PROVE Undisturbed(q)'
  <2>1. Undisturbed(q)
    BY <1>1, <1>3 DEF RowInv, Running
  <2>. QED  BY <1>1, <1>2, <1>3, <2>1, OthersGoOn
<1>4. ASSUME pc'[p] # "idle" PROVE Undisturbed(p)'
  <2>1. pc'[p] = "load" /\ at'[p] = None /\ todo'[p] = Section
    BY <1>4 DEF Begin, Crash, Goto, RowInv, Base, TypeOK
  <2>. QED  BY <2>1 DEF Undisturbed, Scope
<1>. QED  BY <1>1, <1>2, <1>3, <1>4 DEF RowInv

LEMMA RowsOfLoad ==
  ASSUME RowInv, NEW p \in Proc, Load(p)
  PROVE  /\ match' => \A s \in Scope : Done(s)'
         /\ \A q \in Proc : pc'[q] # "idle" /\ clean'[q] => Undisturbed(q)'
<1>1. /\ raport' = raport /\ known' = known /\ rows' = rows /\ clean' = clean /\ stale' = stale
      /\ TypeOK /\ pc[p] = "load"
  BY DEF Load, RowInv, Base
<1>2. \A q \in Proc \ {p} : /\ pc'[q] = pc[q] /\ todo'[q] = todo[q] /\ at'[q] = at[q] /\ got'[q] = got[q]
                            /\ fresh'[q] = fresh[q]
  BY <1>1 DEF Load, Leave, Goto, TypeOK
<1>3. \A s : (Shown(s) => Shown(s)') /\ (Only(s) => Only(s)') /\ (Done(s) => Done(s)')
  BY <1>1, SamePlanRows DEF Shown, Only, Done
<1>4. ASSUME NEW q \in Proc \ {p}, pc'[q] # "idle", clean'[q] PROVE Undisturbed(q)'
  <2>1. Undisturbed(q)
    BY <1>1, <1>2, <1>4 DEF RowInv, Running
  <2>. QED  BY <1>1, <1>2, <1>3, <1>4, <2>1, OthersGoOn
<1>5. ASSUME clean[p] PROVE \A s \in Scope \ (todo[p] \cup {at[p]}) : Done(s)
  BY <1>1, <1>5 DEF RowInv, Running, Undisturbed
<1>6. at[p] \in Scope
  BY <1>1 DEF TypeOK
<1>7. CASE raport[at[p]] = None /\ at[p] # None
  <2>1. Leave(p) /\ match' = (match \/ Completes(p))
    BY <1>7 DEF Load
  <2>2. PlanNow(at[p]) = None
    BY <1>7 DEF PlanNow
  <2>3. Done(at[p])
    BY <2>2 DEF Done
  <2>4. ASSUME clean[p] PROVE \A s \in Scope \ todo[p] : Done(s)'
    BY <1>3, <1>5, <2>3, <2>4
  <2>5. clean[p] => (pc'[p] # "idle" => Undisturbed(p)') /\ (todo[p] = {} => \A s \in Scope : Done(s)')
    BY <1>1, <2>1, <2>4, LeavesDone
  <2>6. match' => \A s \in Scope : Done(s)'
    BY <1>3, <2>1, <2>5 DEF RowInv, Completes
  <2>. QED  BY <1>1, <1>4, <2>5, <2>6
<1>8. CASE ~(raport[at[p]] = None /\ at[p] # None)
  <2>1. /\ pc'[p] = "store" /\ todo' = todo /\ at' = at /\ match' = match
        /\ got'[p] = IF raport[at[p]] = None THEN Template ELSE raport[at[p]]
    BY <1>1, <1>8 DEF Load, Goto, TypeOK
  <2>2. got'[p] = PlanNow(at[p]) /\ PlanNow(at[p]) # None
    <3>1. Template # None
      BY PlanAssumption
    <3>2. PlanNow(at[p]) = IF raport[at[p]] = None THEN Template ELSE raport[at[p]]
      BY <1>8 DEF PlanNow
    <3>. QED  BY <2>1, <3>1, <3>2
  <2>3. PlanNow(at[p])' = PlanNow(at[p])
    BY <1>1, <2>1, SamePlanRows DEF PlanNow
  <2>4. \A s \in Scope \ (todo[p] \cup {at[p]}) : clean[p] => Done(s)'
    BY <1>3, <1>5
  <2>5. clean[p] => Undisturbed(p)'
    BY <2>1, <2>2, <2>3, <2>4 DEF Undisturbed
  <2>. QED  BY <1>1, <1>3, <1>4, <2>1, <2>5 DEF RowInv
<1>. QED  BY <1>7, <1>8

LEMMA RowsOfStore ==
  ASSUME RowInv, NEW p \in Proc, Store(p)
  PROVE  /\ match' => \A s \in Scope : Done(s)'
         /\ \A q \in Proc : pc'[q] # "idle" /\ clean'[q] => Undisturbed(q)'
<1>0. PICK s, P : s = at[p] /\ P = got[p]
  OBVIOUS
<1>. DEFINE new == Merged(RowsOf(P, s))
<1>1. /\ raport' = raport /\ known' = known /\ rows' = new /\ todo' = todo /\ at' = at /\ stale' = stale
      /\ TypeOK /\ pc[p] = "store" /\ P \in Plans /\ s \in Scope
  BY <1>0 DEF Store, RowInv, Base, PlanIsRead, TypeOK
<1>2. CASE ~clean[p]
  BY <1>2 DEF Store, Stored, Disturb
<1>3. CASE clean[p]
  <2>1. clean' = clean /\ match' = match
    BY <1>3 DEF Store, Stored
  <2>2. Undisturbed(p) /\ P = PlanNow(s)
    BY <1>0, <1>1, <1>3 DEF RowInv, Running, Undisturbed
  <2>3. /\ \A r \in new :
             \/ r \in rows /\ ~(r.scope = s /\ r.work \in WorksOf(P))
             \/ r.scope = s /\ r.work \in WorksOf(P) /\ r.source = "raport" /\ r.after = After(P, r.work)
        /\ \A r \in rows : ~(r.scope = s /\ r.work \in WorksOf(P)) => r \in new
        /\ \A w \in WorksOf(P) : \E r \in new : Key(r) = <<s, w>>
    BY <1>1, MergedRows
  <2>4. \A q \in Proc \ {p} : pc'[q] = pc[q] /\ got'[q] = got[q] /\ fresh'[q] = fresh[q]
    BY <1>0, <1>1 DEF Store, Goto, TypeOK
  <2>5. pc'[p] = "find" /\ fresh'[p] = WorksOf(P)
    BY <1>0, <1>1 DEF Store, Goto, TypeOK
  <2>6. /\ PlanNow(s) = P
        /\ \A t : /\ PlanNow(t)' = PlanNow(t)
                  /\ WorksOf(PlanNow(t))' = WorksOf(PlanNow(t))
                  /\ \A w : After(PlanNow(t), w)' = After(PlanNow(t), w)
    BY <1>1, <2>2, SamePlanRows
  <2>. HIDE DEF new
  <2>7. \A w \in WorksOf(P) : \E r \in new : Key(r) = <<s, w>> /\ r.source = "raport" /\ r.after = After(P, w)
    <3>. SUFFICES ASSUME NEW w \in WorksOf(P)
                  PROVE \E r \in new : Key(r) = <<s, w>> /\ r.source = "raport" /\ r.after = After(P, w)
      OBVIOUS
    <3>1. PICK r \in new : Key(r) = <<s, w>>
      BY <2>3
    <3>2. r.scope = s /\ r.work = w
      BY <3>1 DEF Key
    <3>. QED  BY <2>3, <3>1, <3>2
  <2>8. \A t : Shown(t) => Shown(t)'
    <3>. SUFFICES ASSUME NEW t, Shown(t), NEW w \in WorksOf(PlanNow(t))
                  PROVE \E r \in new : Key(r) = <<t, w>> /\ r.source = "raport" /\ r.after = After(PlanNow(t), w)
      BY <1>1, <2>6 DEF Shown
    <3>1. CASE t = s
      BY <2>6, <2>7, <3>1
    <3>2. CASE t # s
      <4>1. PICK r \in rows : Key(r) = <<t, w>> /\ r.source = "raport" /\ r.after = After(PlanNow(t), w)
        BY DEF Shown
      <4>2. r.scope = t
        BY <4>1 DEF Key
      <4>. QED  BY <2>3, <3>2, <4>1, <4>2
    <3>. QED  BY <3>1, <3>2
  <2>9. \A t : Only(t) => Only(t)'
    BY <1>1, <2>3, <2>6 DEF Only
  <2>10. \A r \in rows' : r.source = "raport" => r \in rows \/ r.work \in WorksOf(PlanNow(r.scope))
    BY <1>1, <2>3, <2>6
  <2>11. \A t : Done(t) => Done(t)'
    BY <2>6, <2>8, <2>9 DEF Done
  <2>12. ASSUME NEW q \in Proc \ {p}, pc'[q] # "idle", clean'[q] PROVE Undisturbed(q)'
    <3>1. Undisturbed(q)
      BY <2>1, <2>4, <2>12 DEF RowInv, Running
    <3>. QED  BY <1>1, <2>4, <2>8, <2>9, <2>10, <3>1, OthersGoOn
  <2>13. Undisturbed(p)'
    <3>1. at'[p] = s /\ PlanNow(s)' # None /\ fresh'[p] = WorksOf(PlanNow(s))'
      BY <1>0, <1>1, <2>5, <2>6, PlanAssumption
    <3>2. Shown(s)'
      <4>1. WorksOf(PlanNow(s))' = WorksOf(P) /\ \A w : After(PlanNow(s), w)' = After(P, w)
        BY <2>6
      <4>. QED  BY <1>1, <2>7, <4>1 DEF Shown
    <3>3. \A t \in Scope \ (todo'[p] \cup {at'[p]}) : Done(t)'
      BY <1>0, <1>1, <2>2, <2>11 DEF Undisturbed
    <3>. QED  BY <2>5, <3>1, <3>2, <3>3 DEF Undisturbed
  <2>. QED  BY <2>1, <2>11, <2>12, <2>13 DEF RowInv
<1>. QED  BY <1>2, <1>3

LEMMA RowsOfFind ==
  ASSUME RowInv, NEW p \in Proc, Find(p)
  PROVE  /\ match' => \A s \in Scope : Done(s)'
         /\ \A q \in Proc : pc'[q] # "idle" /\ clean'[q] => Undisturbed(q)'
<1>0. PICK s : s = at[p]
  OBVIOUS
<1>1. /\ raport' = raport /\ known' = known /\ rows' = rows /\ todo' = todo /\ at' = at /\ got' = got
      /\ clean' = clean /\ match' = match /\ TypeOK /\ pc[p] = "find"
  BY DEF Find, RowInv, Base
<1>2. /\ pc'[p] = "drop"
      /\ stale'[p] = {Key(r) : r \in {r \in rows : Stale(p, r) /\ r.scope = s}}
      /\ \A q \in Proc \ {p} : pc'[q] = pc[q] /\ fresh'[q] = fresh[q] /\ stale'[q] = stale[q]
  BY <1>0, <1>1 DEF Find, Goto, TypeOK
<1>3. \A t : (Shown(t) => Shown(t)') /\ (Only(t) => Only(t)') /\ (Done(t) => Done(t)')
  BY <1>1, SamePlanRows DEF Shown, Only, Done
<1>4. ASSUME NEW q \in Proc \ {p}, pc'[q] # "idle", clean'[q] PROVE Undisturbed(q)'
  <2>1. Undisturbed(q)
    BY <1>1, <1>2, <1>4 DEF RowInv, Running
  <2>. QED  BY <1>1, <1>2, <1>3, <2>1, OthersGoOn
<1>5. ASSUME clean[p] PROVE Undisturbed(p)'
  <2>1. Undisturbed(p)
    BY <1>1, <1>5 DEF RowInv, Running
  <2>2. Shown(s) /\ fresh[p] = WorksOf(PlanNow(s)) /\ PlanNow(s) # None
    BY <1>0, <1>1, <2>1 DEF Undisturbed
  <2>3. PlanNow(s)' # None /\ WorksOf(PlanNow(s))' = fresh[p] /\ Shown(s)' /\ at'[p] = s
    BY <1>0, <1>1, <1>3, <2>2, SamePlanRows
  <2>4. \A r \in rows : Key(r)[1] = r.scope /\ Key(r)[2] = r.work
    BY DEF Key
  <2>5. \A k \in stale'[p] : k[1] = s /\ k[2] \notin fresh[p]
    BY <1>2, <2>4 DEF Stale
  <2>6. \A r \in rows' : r.scope = s /\ r.source = "raport" /\ r.work \notin fresh[p] => Key(r) \in stale'[p]
    BY <1>1, <1>2 DEF Stale
  <2>7. \A t \in Scope \ (todo'[p] \cup {at'[p]}) : Done(t)'
    BY <1>1, <1>3, <2>1 DEF Undisturbed
  <2>. QED  BY <1>2, <2>3, <2>5, <2>6, <2>7 DEF Undisturbed
<1>. QED  BY <1>1, <1>3, <1>4, <1>5 DEF RowInv

LEMMA RowsOfDrop ==
  ASSUME RowInv, NEW p \in Proc, Drop(p)
  PROVE  /\ match' => \A s \in Scope : Done(s)'
         /\ \A q \in Proc : pc'[q] # "idle" /\ clean'[q] => Undisturbed(q)'
<1>0. PICK s : s = at[p]
  OBVIOUS
<1>1. /\ raport' = raport /\ known' = known /\ rows' = {r \in rows : Key(r) \notin stale[p]}
      /\ TypeOK /\ pc[p] = "drop" /\ Leave(p) /\ s \in Scope
  BY <1>0 DEF Drop, RowInv, Base, TypeOK
<1>2. CASE ~clean[p]
  BY <1>2 DEF Drop
<1>3. CASE clean[p]
  <2>1. clean' = clean /\ match' = (match \/ Completes(p))
    BY <1>3 DEF Drop
  <2>2. Undisturbed(p)
    BY <1>1, <1>3 DEF RowInv, Running
  <2>3. /\ Shown(s) /\ \A k \in stale[p] : k[1] = s /\ k[2] \notin WorksOf(PlanNow(s))
        /\ \A r \in rows : r.scope = s /\ r.source = "raport" /\ r.work \notin WorksOf(PlanNow(s))
                             => Key(r) \in stale[p]
        /\ \A t \in Scope \ (todo[p] \cup {s}) : Done(t)
    BY <1>0, <1>1, <2>2 DEF Undisturbed
  <2>4. \A q \in Proc \ {p} : /\ pc'[q] = pc[q] /\ todo'[q] = todo[q] /\ at'[q] = at[q] /\ got'[q] = got[q]
                              /\ fresh'[q] = fresh[q] /\ stale'[q] = stale[q] \ stale[p]
    BY <1>1 DEF Drop, Leave, Goto, TypeOK
  <2>5. \A t : /\ PlanNow(t)' = PlanNow(t)
               /\ WorksOf(PlanNow(t))' = WorksOf(PlanNow(t))
               /\ \A w : After(PlanNow(t), w)' = After(PlanNow(t), w)
    BY <1>1, SamePlanRows
  <2>6. \A t : Shown(t) => Shown(t)'
    <3>. SUFFICES ASSUME NEW t, Shown(t), NEW w \in WorksOf(PlanNow(t))
                  PROVE \E r \in rows' : Key(r) = <<t, w>> /\ r.source = "raport" /\ r.after = After(PlanNow(t), w)
      BY <2>5 DEF Shown
    <3>1. PICK r \in rows : Key(r) = <<t, w>> /\ r.source = "raport" /\ r.after = After(PlanNow(t), w)
      BY DEF Shown
    <3>2. Key(r) \notin stale[p]
      BY <2>3, <3>1
    <3>. QED  BY <1>1, <3>1, <3>2
  <2>7. \A t : Only(t) => Only(t)'
    BY <1>1, <2>5 DEF Only
  <2>8. Done(s)'
    BY <1>1, <2>3, <2>5, <2>6 DEF Done, Only
  <2>9. \A t : Done(t) => Done(t)'
    BY <2>5, <2>6, <2>7 DEF Done
  <2>10. ASSUME NEW q \in Proc \ {p}, pc'[q] # "idle", clean'[q] PROVE Undisturbed(q)'
    <3>1. Undisturbed(q)
      BY <2>1, <2>4, <2>10 DEF RowInv, Running
    <3>2. \A r \in rows' : r.source = "raport" => r \in rows \/ r.work \in WorksOf(PlanNow(r.scope))
      BY <1>1
    <3>3. \A r \in rows' : Key(r) \in stale[q] => Key(r) \in stale'[q]
      BY <1>1, <2>4
    <3>. QED  BY <1>1, <2>4, <2>6, <2>7, <3>1, <3>2, <3>3, OthersGoOn
  <2>11. \A t \in Scope \ todo[p] : Done(t)'
    BY <2>3, <2>8, <2>9
  <2>12. (pc'[p] # "idle" => Undisturbed(p)') /\ (todo[p] = {} => \A t \in Scope : Done(t)')
    BY <1>1, <2>11, LeavesDone
  <2>13. match' => \A t \in Scope : Done(t)'
    BY <2>1, <2>9, <2>12 DEF RowInv, Completes
  <2>. QED  BY <2>10, <2>12, <2>13
<1>. QED  BY <1>2, <1>3

LEMMA RowsOfCreate ==
  ASSUME RowInv, NEW s \in Scope, NEW w \in Work, NEW volume \in BOOLEAN, Create(s, w, volume)
  PROVE  /\ match' => \A t \in Scope : Done(t)'
         /\ \A q \in Proc : pc'[q] # "idle" /\ clean'[q] => Undisturbed(q)'
<1>. DEFINE row == [scope |-> s, work |-> w, after |-> {}, source |-> "manual", volume |-> volume]
<1>1. row.source # "raport"
  OBVIOUS
<1>2. /\ rows' = rows \cup {row} /\ raport' = raport /\ known' = known /\ match' = match /\ clean' = clean
      /\ pc' = pc /\ todo' = todo /\ at' = at /\ got' = got /\ fresh' = fresh /\ stale' = stale
  BY DEF Create, local
<1>. HIDE DEF row
<1>3. \A t : (Shown(t) => Shown(t)') /\ (Only(t) => Only(t)') /\ (Done(t) => Done(t)')
  <2>1. \A t : /\ PlanNow(t)' = PlanNow(t)
               /\ WorksOf(PlanNow(t))' = WorksOf(PlanNow(t))
               /\ \A v : After(PlanNow(t), v)' = After(PlanNow(t), v)
    BY <1>2, SamePlanRows
  <2>2. \A t : Shown(t) => Shown(t)'
    BY <1>2, <2>1 DEF Shown
  <2>3. \A t : Only(t) => Only(t)'
    BY <1>1, <1>2, <2>1 DEF Only
  <2>. QED  BY <2>1, <2>2, <2>3 DEF Done
<1>4. ASSUME NEW q \in Proc, pc'[q] # "idle", clean'[q] PROVE Undisturbed(q)'
  <2>1. Undisturbed(q)
    BY <1>2, <1>4 DEF RowInv, Running
  <2>2. \A r \in rows' : r.source = "raport" => r \in rows
    BY <1>1, <1>2
  <2>. QED  BY <1>2, <1>3, <2>1, <2>2, OthersGoOn
<1>. QED  BY <1>2, <1>3, <1>4 DEF RowInv

\* No step leaves a sync wrong about itself: what it has done stays done, or it
\* has been disturbed.
LEMMA RowsStay == RowInv /\ [Next]_vars => RowInv'
<1>. SUFFICES ASSUME RowInv, [Next]_vars PROVE RowInv'
  OBVIOUS
<1>1. Base'
  BY BaseStays DEF RowInv
<1>. DEFINE Parts == /\ match' => \A s \in Scope : Done(s)'
                     /\ \A q \in Proc : pc'[q] # "idle" /\ clean'[q] => Undisturbed(q)'
<1>. SUFFICES Parts
  BY <1>1 DEF RowInv, Running
<1>2. CASE UNCHANGED vars
  <2>1. \A s : (Shown(s) => Shown(s)') /\ (Only(s) => Only(s)') /\ (Done(s) => Done(s)')
    BY <1>2, SamePlanRows DEF Shown, Only, Done, vars
  <2>2. ASSUME NEW q \in Proc, pc'[q] # "idle", clean'[q] PROVE Undisturbed(q)'
    <3>1. Undisturbed(q)
      BY <1>2, <2>2 DEF RowInv, Running, vars, local
    <3>. QED  BY <1>2, <2>1, <3>1, OthersGoOn DEF vars, local
  <2>. QED  BY <1>2, <2>1, <2>2 DEF RowInv, vars
<1>3. ASSUME NEW p \in Proc, Begin(p) \/ Crash(p) PROVE Parts
  BY <1>3, RowsOfBegin
<1>4. ASSUME NEW p \in Proc, Load(p) PROVE Parts
  BY <1>4, RowsOfLoad
<1>5. ASSUME NEW p \in Proc, Store(p) PROVE Parts
  BY <1>5, RowsOfStore
<1>6. ASSUME NEW p \in Proc, Find(p) PROVE Parts
  BY <1>6, RowsOfFind
<1>7. ASSUME NEW p \in Proc, Drop(p) PROVE Parts
  BY <1>7, RowsOfDrop
<1>8. ASSUME NEW s \in Scope, NEW w \in Work, NEW volume \in BOOLEAN, Create(s, w, volume) PROVE Parts
  BY <1>8, RowsOfCreate
<1>9. CASE Disturb
  BY <1>9 DEF Disturb
<1>10. CASE Next
  <2>1. \/ \E p \in Proc : Begin(p) \/ Load(p) \/ Store(p) \/ Find(p) \/ Drop(p) \/ Crash(p)
        \/ \E s \in Scope, w \in Work, volume \in BOOLEAN : Create(s, w, volume)
        \/ Disturb
    BY <1>10 DEF Next, Delete, RaportChanges, Learn
  <2>. QED  BY <1>3, <1>4, <1>5, <1>6, <1>7, <1>8, <1>9, <2>1
<1>. QED  BY <1>2, <1>10

\* Where every scope is done the sequence matches the plans.
LEMMA DoneMatches == RowInv => SequenceMatches
<1>. SUFFICES ASSUME RowInv, match, NEW s \in Scope, PlanNow(s) # None
              PROVE LET P == PlanNow(s)
                        works == {WorkOf[t] : t \in P.tasks} \cap known
                        here  == {r \in rows : r.scope = s} IN
                      /\ {r.work : r \in {r \in here : r.source = "raport"}} = works
                      /\ \A r \in here, w \in works, link \in Link :
                           r.work \in works =>
                             (<<w, link>> \in r.after <=>
                                /\ w # r.work
                                /\ \E e \in P.edges : WorkOf[e[1]] = w /\ WorkOf[e[2]] = r.work /\ e[3] = link)
  BY DEF SequenceMatches
<1>0. PICK P : P = PlanNow(s)
  OBVIOUS
<1>. DEFINE works == {WorkOf[t] : t \in P.tasks} \cap known
            here  == {r \in rows : r.scope = s}
<1>1. Shown(s) /\ Only(s) /\ TypeOK
  BY DEF RowInv, Base, Done
<1>2. P \in Plans
  BY <1>0, <1>1, PlanNowTyped
<1>3. works = WorksOf(P)
  BY DEF WorksOf, Usable
<1>4. \A r \in rows : Key(r) = <<r.scope, r.work>>
  BY DEF Key
<1>5. {r.work : r \in {r \in here : r.source = "raport"}} = works
  <2>1. ASSUME NEW r \in rows, r.scope = s, r.source = "raport" PROVE r.work \in works
    BY <1>0, <1>1, <1>3, <2>1 DEF Only
  <2>2. ASSUME NEW w \in works PROVE \E r \in rows : r.scope = s /\ r.source = "raport" /\ r.work = w
    <3>1. PICK r \in rows : Key(r) = <<s, w>> /\ r.source = "raport"
      BY <1>0, <1>1, <1>3 DEF Shown
    <3>. QED  BY <1>4, <3>1
  <2>. QED  BY <2>1, <2>2
<1>6. ASSUME NEW r \in here, NEW w \in works, NEW link \in Link, r.work \in works
      PROVE <<w, link>> \in r.after <=>
              /\ w # r.work
              /\ \E e \in P.edges : WorkOf[e[1]] = w /\ WorkOf[e[2]] = r.work /\ e[3] = link
  <2>1. r.after = After(P, r.work)
    <3>1. PICK u \in rows : Key(u) = <<s, r.work>> /\ u.after = After(P, r.work)
      BY <1>0, <1>1, <1>3, <1>6 DEF Shown
    <3>2. r \in rows /\ Key(r) = <<s, r.work>>
      BY <1>4
    <3>. QED  BY <1>1, <3>1, <3>2 DEF TypeOK
  <2>2. \A e \in P.edges : e[1] \in P.tasks /\ e[2] \in P.tasks
    BY <1>2, PlanAssumption
  <2>3. ASSUME NEW e \in P.edges, WorkOf[e[1]] = w, WorkOf[e[2]] = r.work
        PROVE {e[1], e[2]} \subseteq Usable(P)
    BY <1>6, <2>2, <2>3 DEF Usable
  <2>. QED  BY <2>1, <2>3 DEF After
<1>. QED  BY <1>0, <1>5, <1>6

\* When a sync has run to its end with nothing changing under it, the rows of
\* every scope that has a plan are that plan's: its works with all their
\* predecessors, and no other row that passes for Raport's; whatever was left over
\* from the syncs before it, and whatever other syncs did meanwhile.
THEOREM RowSafety == Spec => []SequenceMatches
<1>1. Init => RowInv
  <2>1. Init => ~match /\ \A p \in Proc : ~Running(p)
    BY DEF Init, Running
  <2>. QED  BY <2>1, BaseInit DEF RowInv
<1>2. RowInv /\ [Next]_vars => RowInv'
  BY RowsStay
<1>3. RowInv => SequenceMatches
  BY DoneMatches
<1>. QED  BY <1>1, <1>2, <1>3, PTL DEF Spec
=============================================================================
