-------------------------- MODULE GenerationProofs --------------------------
(***************************************************************************)
(* Theorems about Generation, for any housing, graph, assignment and limit. *)
(***************************************************************************)
EXTENDS Generation, FiniteSetTheorems, TLAPS

\* Only finitely many positions can be planned.
LEMMA FewPositions == \A R \in SUBSET Assignment : IsFiniteSet(R)
<1>1. IsFiniteSet(Spot \X Contractor)
  BY SizeAssumption, FS_Product
<1>. QED  BY <1>1, FS_Subset DEF Assignment

\* The cascade of limits always ends in a number.
LEMMA LimitIsNumber == \A c \in Contractor, w \in Work : LimitFor(c, w) \in Nat
BY LimitAssumption DEF LimitFor

\* What a walk has to go through depends only on what was asked and read.
LEMMA SameCandidates ==
  ASSUME UNCHANGED <<asked, cells, begun, done>> PROVE Candidates' = Candidates
BY DEF Candidates, IsReady, CellDone, CellStarted, On

-----------------------------------------------------------------------------
(* The types.                                                              *)

LEMMA Typing == TypeOK /\ [Next]_vars => TypeOK'
<1>. SUFFICES ASSUME TypeOK, [Next]_vars PROVE TypeOK'
  OBVIOUS
<1>. USE DEF TypeOK
<1>1. CASE UNCHANGED vars
  BY <1>1 DEF vars
<1>2. ASSUME NEW S \in SUBSET Section, Ask(S) PROVE TypeOK'
  <2>1. EveryWork \subseteq Work
    BY GraphAssumption DEF EveryWork, IsGraph
  <2>. QED  BY <1>2, <2>1 DEF Ask, raport, slice, walk
<1>3. ASSUME NEW w \in Work, ReadWork(w) PROVE TypeOK'
  BY <1>3 DEF ReadWork, Local, raport, walk, Share
<1>4. ASSUME NEW w \in Work, ReadFails(w) PROVE TypeOK'
  BY <1>4 DEF ReadFails, raport, walk, slice
<1>5. CASE ReadAssignments
  BY <1>5 DEF ReadAssignments, Local, raport, walk, slice
<1>6. ASSUME NEW e \in Spot, PlanSpot(e) PROVE TypeOK'
  <2>1. PICK c \in Contractor : /\ Lone(e, c)
                                /\ rows' = rows \cup {<<e, c>>}
                                /\ taken' = [taken EXCEPT ![<<c, e.work>>] = @ + 1]
    BY <1>6 DEF PlanSpot
  <2>2. <<e, c>> \in Assignment
    BY <2>1 DEF Lone
  <2>3. e.work \in Work
    BY DEF Spot
  <2>4. taken' \in [Contractor \X Work -> Nat]
    BY <2>1, <2>3
  <2>. QED  BY <1>6, <2>1, <2>2, <2>4 DEF PlanSpot, raport, slice
<1>7. ASSUME NEW e \in Spot, PassSpot(e) PROVE TypeOK'
  BY <1>7 DEF PassSpot, raport, slice
<1>8. CASE Finish
  BY <1>8 DEF Finish, raport, Nobody
<1>9. ASSUME NEW sh \in Share, Start(sh) \/ Complete(sh) PROVE TypeOK'
  BY <1>9 DEF Start, Complete, slice, walk
<1>10. ASSUME NEW e \in Spot, CloseCell(e) PROVE TypeOK'
  BY <1>10 DEF CloseCell, slice, walk
<1>. QED  BY <1>1, <1>2, <1>3, <1>4, <1>5, <1>6, <1>7, <1>8, <1>9, <1>10 DEF Next, Generate

-----------------------------------------------------------------------------
(* The slice.                                                              *)

\* Reading and progress keep the slice an image of Raport: all readable shares
\* of a spot or none, and nothing finished that is not.
LEMMA SliceStaysTrue == TypeOK /\ SliceIsTrue /\ [Next]_vars => SliceIsTrue'
<1>. SUFFICES ASSUME TypeOK, SliceIsTrue, [Next]_vars PROVE SliceIsTrue'
  OBVIOUS
<1>. USE DEF SliceIsTrue, On
<1>1. ASSUME UNCHANGED slice, started \subseteq started', finished \subseteq finished' PROVE SliceIsTrue'
  BY <1>1 DEF slice
<1>2. ASSUME NEW w \in Work, ReadWork(w) PROVE SliceIsTrue'
  <2>. DEFINE read == {sh \in Share : sh[1].work = w /\ sh[2] \in Synced}
  <2>1. /\ cells' = cells \cup read
        /\ begun' = begun \cup (read \cap started)
        /\ done' = done \cup (read \cap finished)
        /\ UNCHANGED <<started, finished>>
    BY <1>2 DEF ReadWork, Local, raport
  <2>2. ASSUME NEW e \in Spot
        PROVE  {sh \in cells' : sh[1] = e}
                 \in {{}, {sh \in {x \in Share : x[1] = e} : sh[2] \in Synced}}
    <3>1. CASE e.work = w
      <4>1. {sh \in read : sh[1] = e} = {sh \in {x \in Share : x[1] = e} : sh[2] \in Synced}
        BY <3>1
      <4>2. {sh \in cells : sh[1] = e} \subseteq {sh \in read : sh[1] = e}
        BY <4>1
      <4>3. {sh \in cells' : sh[1] = e} = {sh \in read : sh[1] = e}
        BY <2>1, <4>2
      <4>. QED  BY <4>1, <4>3
    <3>2. CASE e.work # w
      <4>1. {sh \in read : sh[1] = e} = {}
        BY <3>2
      <4>2. {sh \in cells' : sh[1] = e} = {sh \in cells : sh[1] = e}
        BY <2>1, <4>1
      <4>. QED  BY <4>2
    <3>. QED  BY <3>1, <3>2
  <2>3. begun' \subseteq started' /\ done' \subseteq finished'
    BY <2>1
  <2>. QED  BY <2>2, <2>3
<1>3. CASE Finish
  BY <1>3 DEF Finish, raport
<1>4. CASE UNCHANGED vars
  BY <1>1, <1>4 DEF vars, slice
<1>. USE DEF raport
<1>5. ASSUME NEW S \in SUBSET Section, Ask(S) PROVE SliceIsTrue'
  BY <1>1, <1>5 DEF Ask
<1>6. ASSUME NEW w \in Work, ReadFails(w) PROVE SliceIsTrue'
  BY <1>1, <1>6 DEF ReadFails
<1>7. CASE ReadAssignments
  BY <1>1, <1>7 DEF ReadAssignments, Local
<1>8. ASSUME NEW e \in Spot, PlanSpot(e) \/ PassSpot(e) PROVE SliceIsTrue'
  BY <1>1, <1>8 DEF PlanSpot, PassSpot
<1>9. ASSUME NEW sh \in Share, Start(sh) \/ Complete(sh) PROVE SliceIsTrue'
  BY <1>1, <1>9 DEF Start, Complete
<1>10. ASSUME NEW e \in Spot, CloseCell(e) PROVE SliceIsTrue'
  BY <1>1, <1>10 DEF CloseCell
<1>. QED
  BY <1>2, <1>3, <1>4, <1>5, <1>6, <1>7, <1>8, <1>9, <1>10 DEF Next, Generate

-----------------------------------------------------------------------------
(* The walk.                                                               *)

WalkInv == WalkIsSound /\ LimitKept /\ FirstFloorsFirst

\* A step that touches neither the slice nor the walk keeps what the walk knows.
LEMMA WalkUntouched ==
  ASSUME WalkInv, UNCHANGED <<asked, slice, known, walk>>,
         pc' # pc => pc' = "walk" \/ (pc = "idle" /\ pc' = "cells")
  PROVE  WalkInv'
<1>1. Candidates' = Candidates
  BY SameCandidates DEF slice
<1>2. UNCHANGED <<known, walked, taken, rows, cells>>
  BY DEF slice, walk
<1>3. WalkIsSound'
  BY <1>1, <1>2 DEF WalkInv, WalkIsSound, Lone, GivenTo
<1>4. LimitKept'
  BY <1>2 DEF WalkInv, LimitKept, GivenTo, LimitFor
<1>5. /\ \A e, c : Lone(e, c)' = Lone(e, c)
      /\ \A c, w : GivenTo(c, w)' = GivenTo(c, w)
  BY <1>2 DEF Lone, GivenTo
<1>6. FirstFloorsFirst'
  BY <1>1, <1>2, <1>5 DEF WalkInv, FirstFloorsFirst
<1>. QED  BY <1>3, <1>4, <1>6 DEF WalkInv

\* Nothing to walk, nothing known of it: the situation outside the walk.
LEMMA NoWalk ==
  ASSUME walked' = {}, rows' = {}, taken' = Nobody, pc' # "walk", known' = {},
         pc' = "idle" => cells' = {}
  PROVE  WalkInv'
<1>1. \A c \in Contractor, w \in Work : GivenTo(c, w)' = {}
  BY DEF GivenTo
<1>2. \A c \in Contractor, w \in Work : taken'[<<c, w>>] = Cardinality(GivenTo(c, w)')
  BY <1>1, FS_EmptySet DEF Nobody
<1>3. WalkIsSound'
  BY <1>2 DEF WalkIsSound
<1>4. LimitKept'
  <2>. SUFFICES ASSUME NEW c \in Contractor, NEW w \in Work
                PROVE  Cardinality(GivenTo(c, w)') <= LimitFor(c, w)
    BY DEF LimitKept, LimitFor
  <2>. QED  BY <1>1, FS_EmptySet, LimitIsNumber
<1>5. FirstFloorsFirst'
  BY DEF FirstFloorsFirst
<1>. QED  BY <1>3, <1>4, <1>5 DEF WalkInv

\* A spot has one contractor alone at most.
LEMMA LoneIsUnique == \A e, c, k : Lone(e, c) /\ Lone(e, k) => c = k
<1>. SUFFICES ASSUME NEW e, NEW c, NEW k, Lone(e, c), Lone(e, k) PROVE c = k
  OBVIOUS
<1>1. {<<e, c>>} = {<<e, k>>}
  BY DEF Lone
<1>2. <<e, c>> = <<e, k>>
  BY <1>1
<1>. QED  BY <1>2

\* Of two spots of one work the walk reaches first the one that it should.
LEMMA EarlierIsBefore ==
  \A d, e \in Spot : d.work = e.work => (Earlier(d, e) <=> Before(d, e))
BY DEF Earlier, Before

\* A candidate that gets its position.
LEMMA PlanSpotWalks ==
  ASSUME TypeOK, WalkInv, NEW e \in Spot, PlanSpot(e) PROVE WalkInv'
<1>. USE DEF WalkInv
<1>1. PICK c \in Contractor : /\ Lone(e, c)
                              /\ HasRoom(c, e.work)
                              /\ rows' = rows \cup {<<e, c>>}
                              /\ taken' = [taken EXCEPT ![<<c, e.work>>] = @ + 1]
  BY DEF PlanSpot
<1>2. /\ e \in Candidates \ walked
      /\ \A d \in Candidates \ walked : ~Before(d, e)
      /\ walked' = walked \cup {e}
      /\ UNCHANGED <<asked, known, cells, begun, done, pc>>
      /\ pc = "walk"
  BY DEF PlanSpot, Turn, slice
<1>3. Candidates' = Candidates
  BY <1>2, SameCandidates
<1>4. <<e, c>> \notin rows
  BY <1>2 DEF WalkIsSound
<1>5. e.work \in Work /\ <<e, c>> \in Assignment
  BY <1>1 DEF Spot, Lone, TypeOK
<1>6. ASSUME NEW k \in Contractor, NEW w \in Work
      PROVE  /\ IsFiniteSet(GivenTo(k, w))
             /\ GivenTo(k, w)' = IF k = c /\ w = e.work THEN GivenTo(k, w) \cup {<<e, c>>}
                                 ELSE GivenTo(k, w)
             /\ Cardinality(GivenTo(k, w)') = taken'[<<k, w>>]
  <2>1. GivenTo(k, w) \in SUBSET Assignment
    BY DEF GivenTo, TypeOK
  <2>2. IsFiniteSet(GivenTo(k, w))
    BY <2>1, FewPositions
  <2>3. CASE k = c /\ w = e.work
    <3>1. GivenTo(k, w)' = GivenTo(k, w) \cup {<<e, c>>}
      BY <1>1, <2>3 DEF GivenTo
    <3>2. <<e, c>> \notin GivenTo(k, w)
      BY <1>4 DEF GivenTo
    <3>3. Cardinality(GivenTo(k, w)') = Cardinality(GivenTo(k, w)) + 1
      BY <2>2, <3>1, <3>2, FS_AddElement
    <3>4. taken'[<<k, w>>] = taken[<<k, w>>] + 1
      BY <1>1, <1>5, <2>3 DEF TypeOK
    <3>. QED  BY <2>2, <2>3, <3>1, <3>3, <3>4 DEF WalkIsSound
  <2>4. CASE ~(k = c /\ w = e.work)
    <3>1. GivenTo(k, w)' = GivenTo(k, w)
      BY <1>1, <2>4 DEF GivenTo
    <3>2. taken'[<<k, w>>] = taken[<<k, w>>]
      BY <1>1, <1>5, <2>4 DEF TypeOK
    <3>. QED  BY <2>2, <2>4, <3>1, <3>2 DEF WalkIsSound
  <2>. QED  BY <2>3, <2>4
<1>7. WalkIsSound'
  <2>1. \A d \in Candidates' : \A f \in walked' : Before(d, f) => d \in walked'
    BY <1>2, <1>3 DEF WalkIsSound
  <2>2. \A r \in rows' : r[1] \in walked' /\ Lone(r[1], r[2])'
    BY <1>1, <1>2 DEF WalkIsSound, Lone
  <2>. QED  BY <1>2, <1>3, <1>6, <2>1, <2>2 DEF WalkIsSound, Before
<1>8. LimitKept'
  <2>. SUFFICES ASSUME NEW k \in Contractor, NEW w \in Work
                PROVE  Cardinality(GivenTo(k, w)') <= LimitFor(k, w)
    BY DEF LimitKept, LimitFor
  <2>1. CASE k = c /\ w = e.work
    <3>1. taken'[<<k, w>>] = taken[<<k, w>>] + 1 /\ taken[<<k, w>>] \in Nat
      BY <1>1, <1>5, <2>1 DEF TypeOK
    <3>. QED  BY <1>1, <1>6, <2>1, <3>1, LimitIsNumber DEF HasRoom
  <2>2. CASE ~(k = c /\ w = e.work)
    BY <1>6, <2>2 DEF LimitKept
  <2>. QED  BY <2>1, <2>2
<1>9. FirstFloorsFirst'
  <2>. SUFFICES ASSUME NEW f \in walked', NEW k \in Contractor, Lone(f, k)
                PROVE  \/ /\ <<f, k>> \in rows'
                          /\ \A d \in Candidates : Lone(d, k) /\ d.work = f.work /\ Earlier(d, f)
                               => <<d, k>> \in rows'
                       \/ /\ <<f, k>> \notin rows'
                          /\ Cardinality(GivenTo(k, f.work)') = LimitFor(k, f.work)
    BY <1>2, <1>3 DEF FirstFloorsFirst, Lone, LimitFor, Earlier
  <2>1. CASE f = e
    <3>1. k = c
      BY <1>1, <2>1, LoneIsUnique
    <3>2. ASSUME NEW d \in Candidates, Lone(d, k), d.work = e.work, Earlier(d, e)
          PROVE  <<d, k>> \in rows
      <4>1. Before(d, e)
        BY <3>2, EarlierIsBefore DEF Candidates
      <4>2. d \in walked
        BY <1>2, <4>1
      <4>3. Cardinality(GivenTo(k, d.work)) < LimitFor(k, d.work)
        BY <1>1, <1>5, <3>1, <3>2 DEF HasRoom, WalkIsSound
      <4>4. Cardinality(GivenTo(k, d.work)) \in Nat /\ LimitFor(k, d.work) \in Nat
        BY <1>5, <1>6, <3>2, FS_CardinalityType, LimitIsNumber
      <4>. QED  BY <3>2, <4>2, <4>3, <4>4 DEF FirstFloorsFirst
    <3>. QED  BY <1>1, <2>1, <3>1, <3>2
  <2>2. CASE f # e
    <3>1. f \in walked /\ f \in Spot /\ f.work \in Work
      BY <1>2, <2>2 DEF TypeOK, Spot
    <3>2. CASE <<f, k>> \in rows
      BY <1>1, <3>1, <3>2 DEF FirstFloorsFirst
    <3>3. CASE <<f, k>> \notin rows
      <4>1. Cardinality(GivenTo(k, f.work)) = LimitFor(k, f.work)
        BY <3>1, <3>3 DEF FirstFloorsFirst
      <4>2. ~(k = c /\ f.work = e.work)
        <5>1. taken[<<k, f.work>>] = LimitFor(k, f.work)
          BY <3>1, <4>1 DEF WalkIsSound
        <5>. QED  BY <1>1, <3>1, <5>1, LimitIsNumber DEF HasRoom
      <4>3. GivenTo(k, f.work)' = GivenTo(k, f.work)
        BY <1>6, <3>1, <4>2
      <4>. QED  BY <1>1, <2>2, <3>3, <4>1, <4>3
    <3>. QED  BY <3>2, <3>3
  <2>. QED  BY <2>1, <2>2
<1>. QED  BY <1>7, <1>8, <1>9

\* A candidate that gets none: nobody could do it, or he has got his share.
LEMMA PassSpotWalks ==
  ASSUME TypeOK, WalkInv, NEW e \in Spot, PassSpot(e) PROVE WalkInv'
<1>. USE DEF WalkInv
<1>1. /\ e \in Candidates \ walked
      /\ \A d \in Candidates \ walked : ~Before(d, e)
      /\ \A c \in Contractor : Lone(e, c) => ~HasRoom(c, e.work)
      /\ walked' = walked \cup {e}
      /\ UNCHANGED <<asked, known, cells, begun, done, pc, taken, rows>>
      /\ pc = "walk"
  BY DEF PassSpot, Turn, slice
<1>2. Candidates' = Candidates
  BY <1>1, SameCandidates
<1>3. WalkIsSound'
  BY <1>1, <1>2 DEF WalkIsSound, Before, Lone, GivenTo
<1>4. LimitKept'
  BY <1>1 DEF LimitKept, GivenTo, LimitFor
<1>5. FirstFloorsFirst'
  <2>1. ASSUME NEW k \in Contractor, Lone(e, k)
        PROVE  <<e, k>> \notin rows /\ Cardinality(GivenTo(k, e.work)) = LimitFor(k, e.work)
    <3>1. e.work \in Work
      BY DEF Spot
    <3>2. taken[<<k, e.work>>] >= LimitFor(k, e.work) /\ taken[<<k, e.work>>] \in Nat
      BY <1>1, <2>1, <3>1, LimitIsNumber DEF HasRoom, TypeOK
    <3>3. Cardinality(GivenTo(k, e.work)) = taken[<<k, e.work>>]
      BY <3>1 DEF WalkIsSound
    <3>4. Cardinality(GivenTo(k, e.work)) <= LimitFor(k, e.work)
      BY <3>1 DEF LimitKept
    <3>5. <<e, k>> \notin rows
      BY <1>1 DEF WalkIsSound
    <3>. QED  BY <3>1, <3>2, <3>3, <3>4, <3>5, LimitIsNumber
  <2>2. FirstFloorsFirst
    OBVIOUS
  <2>. SUFFICES ASSUME NEW f \in walked', NEW k \in Contractor, Lone(f, k)
                PROVE  \/ /\ <<f, k>> \in rows
                          /\ \A d \in Candidates : Lone(d, k) /\ d.work = f.work /\ Earlier(d, f)
                               => <<d, k>> \in rows
                       \/ /\ <<f, k>> \notin rows
                          /\ Cardinality(GivenTo(k, f.work)) = LimitFor(k, f.work)
    BY <1>1, <1>2 DEF FirstFloorsFirst, Lone, LimitFor, Earlier, GivenTo
  <2>3. CASE f = e
    BY <2>1, <2>3
  <2>4. CASE f # e
    BY <1>1, <2>2, <2>4 DEF FirstFloorsFirst
  <2>. QED  BY <2>3, <2>4
<1>. QED  BY <1>3, <1>4, <1>5

\* Every other step leaves the walk alone, or ends it.
LEMMA WalkStays == TypeOK /\ WalkInv /\ [Next]_vars => WalkInv'
<1>. SUFFICES ASSUME TypeOK, WalkInv, [Next]_vars PROVE WalkInv'
  OBVIOUS
<1>1. CASE UNCHANGED vars
  BY <1>1, WalkUntouched DEF vars, slice, walk
<1>2. ASSUME NEW S \in SUBSET Section, Ask(S) PROVE WalkInv'
  <2>1. walked = {} /\ rows = {} /\ known = {}
    BY <1>2 DEF Ask, WalkInv, WalkIsSound
  <2>2. /\ UNCHANGED <<walked, rows, taken, known, cells>>
        /\ pc' = "cells"
    BY <1>2 DEF Ask, slice, walk
  <2>3. LimitKept' /\ FirstFloorsFirst'
    BY <2>1, <2>2 DEF WalkInv, LimitKept, FirstFloorsFirst, GivenTo, LimitFor
  <2>4. WalkIsSound'
    BY <2>1, <2>2 DEF WalkInv, WalkIsSound, GivenTo
  <2>. QED  BY <2>3, <2>4 DEF WalkInv
<1>3. ASSUME NEW w \in Work, ReadWork(w) PROVE WalkInv'
  <2>1. walked = {} /\ rows = {} /\ known = {}
    BY <1>3 DEF ReadWork, Local, WalkInv, WalkIsSound
  <2>2. UNCHANGED <<walked, rows, taken, known, pc>> /\ pc = "cells"
    BY <1>3 DEF ReadWork, Local, walk
  <2>3. LimitKept' /\ FirstFloorsFirst'
    BY <2>1, <2>2 DEF WalkInv, LimitKept, FirstFloorsFirst, GivenTo, LimitFor
  <2>4. WalkIsSound'
    BY <2>1, <2>2 DEF WalkInv, WalkIsSound, GivenTo
  <2>. QED  BY <2>3, <2>4 DEF WalkInv
<1>4. ASSUME NEW w \in Work, ReadFails(w) PROVE WalkInv'
  BY <1>4, WalkUntouched DEF ReadFails
<1>5. CASE ReadAssignments
  <2>1. walked = {} /\ rows = {}
    BY <1>5 DEF ReadAssignments, Local, WalkInv, WalkIsSound
  <2>2. UNCHANGED <<walked, rows, taken>> /\ pc' = "walk"
    BY <1>5 DEF ReadAssignments, Local, walk
  <2>3. LimitKept' /\ FirstFloorsFirst'
    BY <2>1, <2>2 DEF WalkInv, LimitKept, FirstFloorsFirst, GivenTo, LimitFor
  <2>4. WalkIsSound'
    BY <2>1, <2>2 DEF WalkInv, WalkIsSound, GivenTo
  <2>. QED  BY <2>3, <2>4 DEF WalkInv
<1>6. ASSUME NEW e \in Spot, PlanSpot(e) \/ PassSpot(e) PROVE WalkInv'
  BY <1>6, PlanSpotWalks, PassSpotWalks
<1>7. CASE Finish
  BY <1>7, NoWalk DEF Finish
<1>8. ASSUME NEW sh \in Share, Start(sh) \/ Complete(sh) PROVE WalkInv'
  BY <1>8, WalkUntouched DEF Start, Complete
<1>9. ASSUME NEW e \in Spot, CloseCell(e) PROVE WalkInv'
  BY <1>9, WalkUntouched DEF CloseCell
<1>. QED
  BY <1>1, <1>2, <1>3, <1>4, <1>5, <1>6, <1>7, <1>8, <1>9 DEF Next, Generate

\* The inductive invariant.
THEOREM WalkInvariance == Spec => []GInv
<1>1. Init => GInv
  <2>. SUFFICES ASSUME Init PROVE GInv
    OBVIOUS
  <2>1. TypeOK
    BY DEF Init, TypeOK, Nobody
  <2>2. SliceIsTrue
    BY DEF Init, SliceIsTrue, On
  <2>3. \A c \in Contractor, w \in Work : GivenTo(c, w) = {}
    BY DEF Init, GivenTo
  <2>4. WalkIsSound
    BY <2>3, FS_EmptySet DEF Init, WalkIsSound, Nobody
  <2>5. LimitKept
    BY <2>3, FS_EmptySet, LimitIsNumber DEF LimitKept
  <2>6. FirstFloorsFirst
    BY DEF Init, FirstFloorsFirst
  <2>. QED  BY <2>1, <2>2, <2>4, <2>5, <2>6 DEF GInv
<1>2. GInv /\ [Next]_vars => GInv'
  BY Typing, SliceStaysTrue, WalkStays DEF GInv, WalkInv
<1>. QED  BY <1>1, <1>2, PTL DEF Spec

\* No contractor is given more floors of a work than the limits allow.
THEOREM LimitSafety == Spec => []LimitKept
<1>1. GInv => LimitKept
  BY DEF GInv
<1>. QED  BY <1>1, WalkInvariance, PTL

\* Of the candidates one contractor alone could do, the first in the direction
\* of the work are planned, up to his limit, and no other.
THEOREM FirstFloors == Spec => []FirstFloorsFirst
<1>1. GInv => FirstFloorsFirst
  BY DEF GInv
<1>. QED  BY <1>1, WalkInvariance, PTL

-----------------------------------------------------------------------------
(* The predecessors.                                                       *)

\* What a position owes to the technological graph, in Raport itself.
Allowed(e) ==
  LET node == NodesOf(e.section)[e.work] IN
    /\ \A d \in node.after : On(Share, At(e, d)) # {} /\ On(Share, At(e, d)) \subseteq finished
    /\ \A d \in node.afterStart : On(started, At(e, d)) # {}

\* Where every contractor on the chessboard has a local row, a candidate is
\* allowed by Raport whatever was not read of it.
LEMMA CandidateIsAllowed ==
  ASSUME Synced = Contractor, TypeOK, SliceIsTrue, NEW e \in Candidates
  PROVE  Allowed(e)
<1>. DEFINE node == NodesOf(e.section)[e.work]
<1>1. /\ \A d \in node.after : CellDone(At(e, d))
      /\ \A d \in node.afterStart : CellStarted(At(e, d))
  BY DEF Candidates, IsReady
<1>2. ASSUME NEW f, CellDone(f)
      PROVE  On(Share, f) # {} /\ On(Share, f) \subseteq finished
  <2>1. f \in Spot
    BY <1>2 DEF CellDone, On, TypeOK, Share
  <2>2. On(cells, f) = {sh \in On(Share, f) : sh[2] \in Synced}
    BY <1>2, <2>1 DEF CellDone, SliceIsTrue
  <2>3. On(cells, f) = On(Share, f)
    BY <2>2 DEF On, Share
  <2>. QED  BY <1>2, <2>3 DEF CellDone, SliceIsTrue
<1>3. ASSUME NEW f, CellStarted(f) PROVE On(started, f) # {}
  BY <1>3 DEF CellStarted, On, SliceIsTrue
<1>. QED  BY <1>1, <1>2, <1>3 DEF Allowed

\* A position is planned, and stays in the plan, only where its predecessors
\* permit it in Raport itself, although reads are late and may fail.
THEOREM PredecessorSafety ==
  ASSUME Synced = Contractor PROVE Spec => []PredecessorsHold
<1>1. Init => PredecessorsHold
  BY DEF Init, PredecessorsHold
<1>2. GInv /\ PredecessorsHold /\ [Next]_vars => PredecessorsHold'
  <2>. SUFFICES ASSUME GInv, PredecessorsHold, [Next]_vars PROVE PredecessorsHold'
    OBVIOUS
  <2>1. \A r \in rows \cup day : Allowed(r[1])
    BY DEF PredecessorsHold, Allowed
  <2>2. \A e \in Candidates : Allowed(e)
    BY CandidateIsAllowed DEF GInv
  <2>3. started \subseteq started' /\ finished \subseteq finished'
    BY DEF Next, Generate, Start, Complete, CloseCell, Ask, ReadWork, Local, ReadFails,
      ReadAssignments, PlanSpot, PassSpot, Finish, raport, vars
  <2>4. \A e : Allowed(e) => Allowed(e)'
    BY <2>3 DEF Allowed, On
  <2>5. \A r \in rows' \cup day' : r \in rows \cup day \/ r[1] \in Candidates
    <3>1. ASSUME NEW e \in Spot, PlanSpot(e) PROVE rows' \cup day' \subseteq rows \cup day \cup {<<e, c>> : c \in Contractor}
      BY <3>1 DEF PlanSpot
    <3>2. ASSUME NEW e \in Spot, PlanSpot(e) PROVE e \in Candidates
      BY <3>2 DEF PlanSpot, Turn
    <3>3. CASE \E e \in Spot : PlanSpot(e)
      BY <3>1, <3>2, <3>3
    <3>4. CASE Finish
      BY <3>4 DEF Finish
    <3>5. CASE UNCHANGED <<rows, day>>
      BY <3>5
    <3>. QED
      BY <3>3, <3>4, <3>5 DEF Next, Generate, Start, Complete, CloseCell, Ask, ReadWork, Local, ReadFails,
        ReadAssignments, PassSpot, walk, vars
  <2>6. \A r \in rows' \cup day' : Allowed(r[1])'
    BY <2>1, <2>2, <2>4, <2>5
  <2>. QED  BY <2>6 DEF PredecessorsHold, Allowed
<1>. QED  BY <1>1, <1>2, WalkInvariance, PTL DEF Spec

=============================================================================
