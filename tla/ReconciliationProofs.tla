------------------------ MODULE ReconciliationProofs ------------------------
(***************************************************************************)
(* Theorems about Reconciliation, for any runs, housings, days, positions  *)
(* and facts.                                                              *)
(***************************************************************************)
EXTENDS Reconciliation, FiniteSetTheorems, WellFoundedInduction, TLAPS

\* The run is at a unit.
Busy(r) == pc[r] \notin {"new", "housing", "ended"}

\* Where a run is and what it holds: rows of its unit, at the points between a
\* search and the commit.
Place(r) ==
  /\ pc[r] \in {"new", "ended"} => scope[r] = {}
  /\ Busy(r) => at[r] \in scope[r] /\ at[r][1] \notin left[r]
  /\ pc[r] \notin {"drop_results", "drop_sums"} => found[r] = {}
  /\ pc[r] \notin {"find_sums", "drop_sums", "write", "summarise"} => doomed[r] = {}
  /\ pc[r] # "summarise" => made[r] = {}
  /\ \A x \in found[r] \cup doomed[r] \cup made[r] : x.unit = at[r]

\* The days a run was asked for do not go back for ever.
Starts(r) == \E lo \in Int : \A u \in scope[r] : lo <= u[2]

\* What a run has made is its own, finite, and tells planned from unplanned.
Made(r) ==
  /\ IsFiniteSet(made[r])
  /\ \A x \in made[r] : x.run = r /\ (x.status = "unplanned" <=> x.plan = None)

Base == TypeOK /\ \A r \in Run : Place(r) /\ Starts(r) /\ Made(r)

\* Runs that share a unit know it.
Meetings ==
  \A q, r \in Run : q # r => \A u \in scope[q] \cap scope[r] : u \in clashed /\ company[q]

\* The run has its unit to itself.
Alone(r) == Busy(r) /\ (at[r] \notin clashed \/ ~company[r])

\* What it has deleted is all that the unit had, until what it has made is all
\* that the unit has.
Rebuilding(r) ==
  /\ pc[r] = "drop_results" => found[r] = Of(results, at[r])
  /\ pc[r] \in {"find_sums", "drop_sums"} => doomed[r] = Of(results, at[r])
  /\ pc[r] = "drop_sums" => found[r] = Of(sums, at[r])
  /\ pc[r] = "write" => doomed[r] = Of(results, at[r]) \cup Of(sums, at[r])
  /\ pc[r] = "summarise" =>
       \/ made[r] = {} /\ doomed[r] = Of(results, at[r]) \cup Of(sums, at[r])
       \/ doomed[r] = {} /\ Of(results, at[r]) = made[r] /\ Of(sums, at[r]) = {}

DaysInv == Base /\ Meetings /\ (\A r \in Run : Alone(r) => Rebuilding(r)) /\ DaysAreWhole

\* The run may still write results of the unit.
Ahead(r, u) ==
  \/ pc[r] = "new"
  \/ u \in scope[r] /\
       \/ u[1] \in left[r]
       \/ Busy(r) /\ u[1] = at[r][1] /\ at[r][2] <= u[2] /\ (pc[r] = "summarise" => u # at[r])

\* A run has no row of what is still ahead of it, so it writes a unit only once.
Written ==
  \A r \in Run : \A x \in results \cup sums \cup found[r] \cup doomed[r] : ~Ahead(x.run, x.unit)

\* With a result of a run the set has all that are left of that run's unit.
Whole(S) == \A x, y \in results : x.run = y.run /\ x.unit = y.unit /\ x \in S => y \in S

\* A run that made nothing has nothing there.
NothingMade(r) == pc[r] = "summarise" => doomed[r] = {} \/ \A x \in Of(results, at[r]) : x.run # r

BoardInv == Base /\ Written /\ \A r \in Run : Whole(found[r]) /\ Whole(doomed[r]) /\ NothingMade(r)

-----------------------------------------------------------------------------
(* Days and rows.                                                          *)

\* A set of integers that is bounded below has a least element.
LEMMA LeastInteger ==
  ASSUME NEW S \in SUBSET Int, NEW lo \in Int, \A d \in S : lo <= d, S # {}
  PROVE  \E d \in S : \A e \in S : d <= e
<1>. DEFINE T == {d - lo : d \in S}  R == OpToRel(<, Nat)
<1>1. T \subseteq Nat /\ T # {}
  <2>1. \A d \in S : d - lo \in Nat
    OBVIOUS
  <2>. QED  BY <2>1
<1>2. IsWellFoundedOn(R, Nat)
  BY NatLessThanWellFounded
<1>3. \A x, y \in Nat : <<y, x>> \in R <=> y < x
  BY DEF OpToRel
<1>. HIDE DEF T, R
<1>4. PICK x \in T : \A y \in T : ~(<<y, x>> \in R)
  BY <1>1, <1>2, WFMin
<1>5. \A y \in T : ~(y < x)
  BY <1>1, <1>3, <1>4
<1>6. PICK d \in S : x = d - lo
  BY DEF T
<1>7. \A e \in S : ~(e - lo < x)
  BY <1>5 DEF T
<1>. QED  BY <1>6, <1>7

\* A run starts with the first of its days in a housing.
LEMMA FirstOfDays ==
  ASSUME NEW r \in Run, NEW h, scope[r] \subseteq Unit, NEW lo \in Int,
         \A u \in scope[r] : lo <= u[2], NEW v \in scope[r], v[1] = h
  PROVE  /\ FirstDay(r, h) \in scope[r]
         /\ FirstDay(r, h)[1] = h
         /\ \A u \in scope[r] : u[1] = h => FirstDay(r, h)[2] <= u[2]
<1>. DEFINE mine == {u \in scope[r] : u[1] = h}  S == {u[2] : u \in mine}
<1>1. S \subseteq Int /\ S # {} /\ \A d \in S : lo <= d
  BY DayAssumption DEF Unit
<1>2. PICK d \in S : \A e \in S : d <= e
  BY <1>1, LeastInteger
<1>3. PICK u \in mine : u[2] = d
  OBVIOUS
<1>4. u[1] = h /\ u \in scope[r] /\ \A w \in scope[r] : w[1] = h => u[2] <= w[2]
  BY <1>2, <1>3
<1>. QED  BY <1>4 DEF FirstDay

\* A row of results is never a summary.
LEMMA RowsAreNoSums == Row \cap Sum = {}
<1>. SUFFICES ASSUME NEW x \in Row, x \in Sum PROVE FALSE
  OBVIOUS
<1>1. "key" \in DOMAIN x
  BY DEF Row
<1>2. DOMAIN x = {"run", "unit", "count"}
  BY DEF Sum
<1>. QED  BY <1>1, <1>2

\* A key of the day has one percent at most.
LEMMA OnePercent ==
  ASSUME NEW r \in Run, slice[r] \in [Cell -> Percent \cup {None}], NEW key,
         NEW m \in PercentNow(r, key), NEW n \in PercentNow(r, key)
  PROVE  m = n
<1>. DEFINE known == {c \in Cell : c[2] = key[2] /\ slice[r][c] # None}
            top == {d \in known : \A e \in known : slice[r][e] <= slice[r][d]}
<1>1. \A c \in known : slice[r][c] \in Nat
  BY PercentAssumption
<1>2. PercentNow(r, key) = IF key \in known THEN {slice[r][key]}
                           ELSE IF known = {} THEN {None} ELSE {slice[r][c] : c \in top}
  BY DEF PercentNow
<1>3. \A c, d \in top : slice[r][c] <= slice[r][d] /\ slice[r][c] \in Nat /\ slice[r][d] \in Nat
  BY <1>1
<1>4. \A c, d \in top : slice[r][c] = slice[r][d]
  BY <1>3
<1>. HIDE DEF known, top
<1>. QED  BY <1>2, <1>4

\* Of a key with a position or a fact the status says whether it was planned.
LEMMA Classes ==
  ASSUME NEW p, NEW f, NEW now, ~(p = None /\ f = None)
  PROVE  /\ Classify(p, f, now) \in Status
         /\ Classify(p, f, now) = "unplanned" <=> p = None
<1>1. CASE p = None /\ f # None
  BY <1>1 DEF Classify, Status
<1>2. CASE f = None
  BY <1>2 DEF Classify, Status
<1>3. CASE p # None /\ f # None
  BY <1>3 DEF Classify, Status
<1>. QED  BY <1>1, <1>2, <1>3

\* The row of a key, if there is one in a set.
LEMMA Kept ==
  ASSUME NEW T, NEW key
  PROVE  /\ At(T, key) \in T \cup {None}
         /\ key \in Keys(T) => At(T, key) \in T
BY DEF At, Keys

\* What a run makes of the positions and facts of a day: rows of its own, of that
\* day, one a key, each with a status that says whether it was planned.
LEMMA RowsMade ==
  ASSUME NEW r \in Run, slice[r] \in [Cell -> Percent \cup {None}], at[r] \in Unit,
         NEW P \in SUBSET Position, NEW F \in SUBSET Fact
  PROVE  /\ RowsOf(r, P, F) \subseteq Row
         /\ \A x \in RowsOf(r, P, F) : /\ x.run = r /\ x.unit = at[r] /\ x.key \in Keys(P) \cup Keys(F)
                                       /\ x.status = "unplanned" <=> x.plan = None
         /\ \A x, y \in RowsOf(r, P, F) : x.key = y.key => x = y
<1>1. ASSUME NEW key \in Keys(P) \cup Keys(F), NEW now
      PROVE  /\ RowOf(r, key, P, F, now) \in Row
             /\ RowOf(r, key, P, F, now).run = r /\ RowOf(r, key, P, F, now).unit = at[r]
             /\ RowOf(r, key, P, F, now).key = key
             /\ RowOf(r, key, P, F, now).status = "unplanned" <=> RowOf(r, key, P, F, now).plan = None
  <2>1. key \in Key
    BY PositionAssumption, FactAssumption DEF Keys
  <2>2. At(P, key) \in Position \cup {None} /\ At(F, key) \in Fact \cup {None}
    BY Kept
  <2>3. ~(At(P, key) = None /\ At(F, key) = None)
    <3>1. None \notin P /\ None \notin F
      BY TableAssumption
    <3>. QED  BY <3>1, Kept
  <2>4. /\ Classify(At(P, key), At(F, key), now) \in Status
        /\ Classify(At(P, key), At(F, key), now) = "unplanned" <=> At(P, key) = None
    BY <2>3, Classes
  <2>. QED  BY <2>1, <2>2, <2>4 DEF RowOf, Row
<1>2. \A x \in RowsOf(r, P, F) :
         \E key \in Keys(P) \cup Keys(F) : \E now \in PercentNow(r, key) : x = RowOf(r, key, P, F, now)
  BY DEF RowsOf
<1>3. ASSUME NEW x \in RowsOf(r, P, F), NEW y \in RowsOf(r, P, F), x.key = y.key PROVE x = y
  <2>1. PICK k \in Keys(P) \cup Keys(F) : \E now \in PercentNow(r, k) : x = RowOf(r, k, P, F, now)
    BY <1>2
  <2>2. PICK m \in PercentNow(r, k) : x = RowOf(r, k, P, F, m)
    BY <2>1
  <2>3. PICK l \in Keys(P) \cup Keys(F) : \E now \in PercentNow(r, l) : y = RowOf(r, l, P, F, now)
    BY <1>2
  <2>4. PICK n \in PercentNow(r, l) : y = RowOf(r, l, P, F, n)
    BY <2>3
  <2>5. k = l
    BY <1>1, <1>3, <2>2, <2>4
  <2>6. m = n
    BY <2>5, OnePercent
  <2>. QED  BY <2>2, <2>4, <2>5, <2>6
<1>4. \A x \in RowsOf(r, P, F) :
        /\ x \in Row /\ x.run = r /\ x.unit = at[r] /\ x.key \in Keys(P) \cup Keys(F)
        /\ x.status = "unplanned" <=> x.plan = None
  BY <1>1, <1>2
<1>. QED  BY <1>3, <1>4

\* The keys of finitely many rows are finitely many.
LEMMA FiniteKeys == ASSUME NEW T, IsFiniteSet(T) PROVE IsFiniteSet(Keys(T))
<1>. DEFINE f == [x \in T |-> x.key]
<1>1. f \in Surjection(T, Keys(T))
  BY DEF Keys, Surjection
<1>. QED  BY <1>1, FS_Surjection

LEMMA FiniteRows ==
  ASSUME NEW r \in Run, slice[r] \in [Cell -> Percent \cup {None}], at[r] \in Unit,
         NEW P \in SUBSET Position, NEW F \in SUBSET Fact
  PROVE  IsFiniteSet(RowsOf(r, P, F))
<1>. DEFINE f == [x \in RowsOf(r, P, F) |-> x.key]
<1>1. IsFiniteSet(P) /\ IsFiniteSet(F)
  BY TableAssumption, FS_Subset
<1>2. IsFiniteSet(Keys(P) \cup Keys(F))
  BY <1>1, FiniteKeys, FS_Union
<1>3. f \in Injection(RowsOf(r, P, F), Keys(P) \cup Keys(F))
  <2>. DEFINE R == RowsOf(r, P, F)  K == Keys(P) \cup Keys(F)
  <2>1. /\ \A x \in R : x.key \in K
        /\ \A x, y \in R : x.key = y.key => x = y
    BY RowsMade
  <2>. HIDE DEF R, K
  <2>2. [x \in R |-> x.key] \in Injection(R, K)
    BY <2>1 DEF Injection, IsInjective
  <2>. QED  BY <2>2 DEF R, K
<1>. QED  BY <1>2, <1>3, FS_Injection

\* Counting sets of statuses that exclude each other.
LEMMA CountsOfRows ==
  ASSUME NEW M \in SUBSET Row, IsFiniteSet(M),
         \A x \in M : x.status = "unplanned" <=> x.plan = None
  PROVE  /\ CountOf(M) \in Count
         /\ CountOf(M).planned = CountOf(M).full + CountOf(M).partial + CountOf(M).notDone + CountOf(M).noReport
<1>. DEFINE with(st) == {x \in M : x.status = st}
            A == with("done_full")  B == with("done_partial")  C == with("not_done")
            D == with("no_report")  U == with("unplanned")  planned == {x \in M : x.plan # None}
<1>1. \A st : IsFiniteSet(with(st)) /\ Cardinality(with(st)) \in Nat
  BY FS_Subset, FS_CardinalityType
<1>2. IsFiniteSet(planned) /\ Cardinality(planned) \in Nat
  BY FS_Subset, FS_CardinalityType
<1>3. \A S, T : IsFiniteSet(S) /\ IsFiniteSet(T) /\ S \cap T = {}
                  => IsFiniteSet(S \cup T) /\ Cardinality(S \cup T) = Cardinality(S) + Cardinality(T)
  <2>. SUFFICES ASSUME NEW S, NEW T, IsFiniteSet(S), IsFiniteSet(T), S \cap T = {}
                PROVE IsFiniteSet(S \cup T) /\ Cardinality(S \cup T) = Cardinality(S) + Cardinality(T)
    OBVIOUS
  <2>1. /\ IsFiniteSet(S \cup T)
        /\ Cardinality(S \cup T) = Cardinality(S) + Cardinality(T) - Cardinality(S \cap T)
    BY FS_Union
  <2>2. Cardinality(S \cap T) = 0 /\ Cardinality(S) \in Nat /\ Cardinality(T) \in Nat
    BY FS_EmptySet, FS_CardinalityType
  <2>. QED  BY <2>1, <2>2
<1>4. \A x \in M : x.status \in Status
  BY DEF Row
<1>5. planned = ((A \cup B) \cup C) \cup D
  BY <1>4 DEF Status
<1>6. A \cap B = {} /\ (A \cup B) \cap C = {} /\ ((A \cup B) \cup C) \cap D = {}
  OBVIOUS
<1>. HIDE DEF with, planned
<1>7. IsFiniteSet(A \cup B) /\ Cardinality(A \cup B) = Cardinality(A) + Cardinality(B)
  BY <1>1, <1>3, <1>6
<1>8. /\ IsFiniteSet((A \cup B) \cup C)
      /\ Cardinality((A \cup B) \cup C) = Cardinality(A \cup B) + Cardinality(C)
  BY <1>1, <1>3, <1>6, <1>7
<1>9. Cardinality(((A \cup B) \cup C) \cup D) = Cardinality((A \cup B) \cup C) + Cardinality(D)
  BY <1>1, <1>3, <1>6, <1>8
<1>10. Cardinality(planned) = Cardinality(A) + Cardinality(B) + Cardinality(C) + Cardinality(D)
  BY <1>5, <1>7, <1>8, <1>9
<1>11. CountOf(M) = [planned |-> Cardinality(planned), full |-> Cardinality(A), partial |-> Cardinality(B),
                     notDone |-> Cardinality(C), noReport |-> Cardinality(D), unplanned |-> Cardinality(U)]
  BY DEF CountOf, Having, with, planned
<1>. QED  BY <1>1, <1>2, <1>10, <1>11 DEF Count

-----------------------------------------------------------------------------
(* The types, and where the runs are.                                      *)

\* What a step leaves alone of the run q.
Still(q) ==
  /\ pc'[q] = pc[q] /\ scope'[q] = scope[q] /\ left'[q] = left[q] /\ at'[q] = at[q]
  /\ found'[q] = found[q] /\ doomed'[q] = doomed[q] /\ made'[q] = made[q]

LEMMA StillStays ==
  ASSUME NEW q \in Run, Still(q), Place(q), Starts(q), Made(q)
  PROVE  Place(q)' /\ Starts(q)' /\ Made(q)'
<1>1. Place(q)'
  BY DEF Still, Place, Busy
<1>2. Starts(q)'
  BY DEF Still, Starts
<1>3. Made(q)'
  BY DEF Still, Made
<1>. QED  BY <1>1, <1>2, <1>3

LEMMA BaseOutside == Base /\ Outside => Base'
<1>. SUFFICES ASSUME Base, Outside PROVE Base'
  OBVIOUS
<1>1. \A q \in Run : Still(q)
  BY DEF Outside, AddPosition, RemovePosition, StoreFact, MoveCell, Still
<1>2. \A q \in Run : Place(q)' /\ Starts(q)' /\ Made(q)'
  BY <1>1, StillStays DEF Base
<1>3. TypeOK'
  <2>1. ASSUME NEW p \in Position, AddPosition(p) \/ RemovePosition(p) PROVE TypeOK'
    BY <2>1 DEF Base, TypeOK, AddPosition, RemovePosition, tables, input, history
  <2>2. ASSUME NEW f \in Fact, StoreFact(f) PROVE TypeOK'
    BY <2>2 DEF Base, TypeOK, StoreFact, tables, input, history
  <2>3. ASSUME NEW c \in Cell, NEW x \in Percent, MoveCell(c, x) PROVE TypeOK'
    BY <2>3 DEF Base, TypeOK, MoveCell, tables, input, history
  <2>. QED  BY <2>1, <2>2, <2>3 DEF Outside
<1>. QED  BY <1>2, <1>3 DEF Base

LEMMA BaseAsk ==
  ASSUME Base, NEW r \in Run, NEW H \in SUBSET Housing, NEW a \in Day, NEW b \in Day, Ask(r, H, a, b)
  PROVE  Base'
<1>. DEFINE mine == {u \in Unit : u[1] \in H /\ u[2] \in (a .. b) \cup (b .. a)}
<1>1. /\ pc[r] = "new" /\ scope' = [scope EXCEPT ![r] = mine] /\ left' = [left EXCEPT ![r] = H]
      /\ pc' = [pc EXCEPT ![r] = "housing"]
      /\ UNCHANGED <<plans, gone, facts, percent, results, sums, at, readP, readF, toRead, slice, found, doomed, made>>
  BY DEF Ask, Goto, outer, tables, input
<1>2. a \in Int /\ b \in Int /\ mine \subseteq Unit
  BY DayAssumption
<1>3. \E lo \in Int : \A u \in mine : lo <= u[2]
  <2>1. CASE a <= b
    BY <1>2, <2>1
  <2>2. CASE b <= a
    BY <1>2, <2>2
  <2>. QED  BY <1>2, <2>1, <2>2
<1>. HIDE DEF mine
<1>4. TypeOK'
  <2>1. company' \in [Run -> BOOLEAN] /\ clashed' \subseteq Unit
    BY <1>2 DEF Ask, Base, TypeOK, mine
  <2>. QED  BY <1>1, <1>2, <2>1 DEF Base, TypeOK, Point
<1>5. \A q \in Run \ {r} : Still(q)
  BY <1>1 DEF Still, Base, TypeOK
<1>6. Place(r)' /\ Starts(r)' /\ Made(r)'
  <2>1. Place(r)'
    BY <1>1 DEF Base, TypeOK, Place, Busy
  <2>2. Starts(r)'
    BY <1>1, <1>3 DEF Base, TypeOK, Starts
  <2>3. Made(r)'
    BY <1>1 DEF Base, Made
  <2>. QED  BY <2>1, <2>2, <2>3
<1>. QED  BY <1>4, <1>5, <1>6, StillStays DEF Base

LEMMA BaseRead ==
  ASSUME Base, NEW r \in Run, NEW h \in Housing, ReadHousing(r, h)
  PROVE  Base'
<1>. DEFINE P == {p \in plans : <<p.housing, p.day>> \in scope[r] /\ p.housing = h}
            F == {f \in facts : <<f.housing, f.day>> \in scope[r] /\ f.housing = h}
<1>1. /\ pc[r] = "housing" /\ h \in left[r] /\ left' = [left EXCEPT ![r] = @ \ {h}]
      /\ UNCHANGED <<plans, gone, facts, percent, results, sums, scope, found, doomed, made, company, clashed>>
  BY DEF ReadHousing, outer, tables, history
<1>2. \A q \in Run \ {r} : pc'[q] = pc[q] /\ at'[q] = at[q]
  BY DEF ReadHousing, Goto, Base, TypeOK
<1>3. \A q \in Run \ {r} : Still(q)
  BY <1>1, <1>2 DEF Still, Base, TypeOK
<1>4. Starts(r)' /\ Made(r)'
  BY <1>1 DEF Base, Starts, Made
<1>5. CASE P \cup F = {}
  <2>1. UNCHANGED <<pc, at, input>>
    BY <1>5 DEF ReadHousing
  <2>2. TypeOK'
    BY <1>1, <2>1 DEF Base, TypeOK, input
  <2>3. Place(r)'
    BY <1>1, <2>1 DEF Base, TypeOK, Place, Busy
  <2>. QED  BY <1>3, <1>4, <2>2, <2>3, StillStays DEF Base
<1>6. CASE P \cup F # {}
  <2>1. /\ pc' = [pc EXCEPT ![r] = "cells"] /\ at' = [at EXCEPT ![r] = FirstDay(r, h)]
        /\ readP' = [readP EXCEPT ![r] = P] /\ readF' = [readF EXCEPT ![r] = F]
        /\ toRead' = [toRead EXCEPT ![r] = {WorkOf[k[2]] : k \in Keys(P) \cup Keys(F)}]
        /\ slice' = slice
    BY <1>6 DEF ReadHousing, Goto
  <2>2. P \subseteq Position /\ F \subseteq Fact
    BY DEF Base, TypeOK
  <2>3. {WorkOf[k[2]] : k \in Keys(P) \cup Keys(F)} \subseteq {WorkOf[sp] : sp \in Spot}
    BY <2>2, PositionAssumption, FactAssumption DEF Keys, Key
  <2>4. \E v \in scope[r] : v[1] = h
    BY <1>6
  <2>. HIDE DEF P, F
  <2>5. scope[r] \subseteq Unit /\ left[r] \subseteq Housing
    BY DEF Base, TypeOK
  <2>6. PICK lo \in Int : \A u \in scope[r] : lo <= u[2]
    BY DEF Base, Starts
  <2>7. PICK v \in scope[r] : v[1] = h
    BY <2>4
  <2>8. FirstDay(r, h) \in scope[r] /\ FirstDay(r, h)[1] = h
    BY <2>5, <2>6, <2>7, FirstOfDays
  <2>9. TypeOK'
    BY <1>1, <2>1, <2>2, <2>3, <2>5, <2>8 DEF Base, TypeOK, Point
  <2>10. pc'[r] = "cells" /\ at'[r] = FirstDay(r, h) /\ left'[r] = left[r] \ {h}
    BY <1>1, <2>1 DEF Base, TypeOK
  <2>11. Place(r)'
    BY <1>1, <2>8, <2>10 DEF Base, Place, Busy
  <2>. QED  BY <1>3, <1>4, <2>9, <2>11, StillStays DEF Base
<1>. QED  BY <1>5, <1>6

LEMMA BaseSearch ==
  ASSUME Base, NEW r \in Run,
         \/ \E w \in toRead[r] : ReadWork(r, w, FALSE) \/ ReadWork(r, w, TRUE)
         \/ FindResults(r) \/ FindSums(r)
  PROVE  Base'
<1>1. /\ UNCHANGED <<plans, gone, facts, percent, results, sums, scope, left, at, readP, readF, doomed, made,
                     company, clashed>>
      /\ pc[r] \in {"cells", "find_results", "find_sums"}
      /\ pc' = [pc EXCEPT ![r] = pc'[r]] /\ pc'[r] \in {"cells", "find_results", "drop_results", "drop_sums"}
      /\ pc[r] \in {"cells", "find_results"} => pc'[r] \in {"cells", "find_results", "drop_results"}
      /\ pc[r] = "find_sums" => pc'[r] = "drop_sums"
  BY DEF ReadWork, FindResults, FindSums, Goto, outer, tables, input, history, Base, TypeOK
<1>2. toRead' \in [Run -> SUBSET {WorkOf[sp] : sp \in Spot}] /\ slice' \in [Run -> [Cell -> Percent \cup {None}]]
  <2>1. ASSUME NEW w \in toRead[r], NEW fails \in BOOLEAN, ReadWork(r, w, fails)
        PROVE  /\ toRead' \in [Run -> SUBSET {WorkOf[sp] : sp \in Spot}]
               /\ slice' \in [Run -> [Cell -> Percent \cup {None}]]
    <3>1. [c \in Cell |-> IF WorkOf[c[2]] = w /\ ~fails THEN percent[c] ELSE slice[r][c]]
            \in [Cell -> Percent \cup {None}]
      BY DEF Base, TypeOK
    <3>. QED  BY <2>1, <3>1 DEF ReadWork, Base, TypeOK
  <2>2. CASE FindResults(r) \/ FindSums(r)
    BY <2>2 DEF FindResults, FindSums, input, Base, TypeOK
  <2>. QED  BY <2>1, <2>2
<1>3. /\ found' = [found EXCEPT ![r] = found'[r]]
      /\ \/ found'[r] = found[r] /\ pc[r] = "cells"
         \/ found'[r] = Of(results, at[r]) /\ pc'[r] = "drop_results"
         \/ found'[r] = Of(sums, at[r]) /\ pc'[r] = "drop_sums"
  BY DEF ReadWork, FindResults, FindSums, Goto, Base, TypeOK
<1>4. found'[r] \subseteq Row \cup Sum /\ found[r] \subseteq Row \cup Sum
  BY <1>3 DEF Of, Base, TypeOK
<1>5. \A x \in found'[r] \cup doomed[r] : x.unit = at[r]
  BY <1>3 DEF Of, Base, Place
<1>6. TypeOK'
  <2>1. found' \in [Run -> SUBSET (Row \cup Sum)]
    BY <1>3, <1>4 DEF Base, TypeOK
  <2>2. pc' \in [Run -> Point]
    BY <1>1 DEF Base, TypeOK, Point
  <2>. QED  BY <1>1, <1>2, <2>1, <2>2 DEF Base, TypeOK
<1>7. \A q \in Run \ {r} : Still(q)
  BY <1>1, <1>3 DEF Still, Base, TypeOK
<1>8. Starts(r)' /\ Made(r)'
  BY <1>1 DEF Base, Starts, Made
<1>9. Place(r)'
  <2>1. Place(r)
    BY DEF Base
  <2>2. pc'[r] \notin {"drop_results", "drop_sums"} => found'[r] = {}
    BY <1>1, <1>3, <2>1 DEF Place
  <2>3. pc'[r] \notin {"find_sums", "drop_sums", "write", "summarise"} => doomed'[r] = {}
    BY <1>1, <1>3, <2>1 DEF Place
  <2>. QED  BY <1>1, <1>5, <2>1, <2>2, <2>3 DEF Place, Busy
<1>. QED  BY <1>6, <1>7, <1>8, <1>9, StillStays DEF Base

LEMMA BaseDrop ==
  ASSUME Base, NEW r \in Run, DropResults(r) \/ DropSums(r)
  PROVE  Base'
<1>1. /\ UNCHANGED <<plans, gone, facts, percent, results, sums, scope, left, at, readP, readF, toRead, slice, made,
                     company, clashed>>
      /\ doomed' = [doomed EXCEPT ![r] = @ \cup found[r]] /\ found' = [found EXCEPT ![r] = {}]
  BY DEF DropResults, DropSums, Drop, outer, tables, input, history
<1>2. /\ pc' = [pc EXCEPT ![r] = pc'[r]]
      /\ pc[r] \in {"drop_results", "drop_sums"} /\ pc'[r] \in {"find_sums", "write"}
  BY DEF DropResults, DropSums, Drop, Goto, Base, TypeOK
<1>3. TypeOK'
  BY <1>1, <1>2 DEF Base, TypeOK, Point
<1>4. \A q \in Run \ {r} : Still(q)
  BY <1>1, <1>2 DEF Still, Base, TypeOK
<1>5. Starts(r)' /\ Made(r)'
  BY <1>1 DEF Base, Starts, Made
<1>6. doomed'[r] = doomed[r] \cup found[r] /\ found'[r] = {}
  BY <1>1 DEF Base, TypeOK
<1>7. Place(r)'
  BY <1>1, <1>2, <1>6 DEF Base, Place, Busy
<1>. QED  BY <1>3, <1>4, <1>5, <1>7, StillStays DEF Base

LEMMA BaseWrite ==
  ASSUME Base, NEW r \in Run, WriteResults(r)
  PROVE  Base'
<1>1. PICK P \in Picks(OnDay(readP[r], at[r][2])), F \in Picks(OnDay(readF[r], at[r][2])) :
         /\ made' = [made EXCEPT ![r] = RowsOf(r, P, F)]
         /\ IF RowsOf(r, P, F) = {}
            THEN UNCHANGED <<tables, doomed>>
            ELSE /\ results' = (results \ doomed[r]) \cup RowsOf(r, P, F)
                 /\ sums' = sums \ doomed[r]
                 /\ Publish(r)
  BY DEF WriteResults
<1>2. /\ UNCHANGED <<plans, gone, facts, percent, scope, left, at, readP, readF, toRead, slice, found, company, clashed>>
      /\ pc' = [pc EXCEPT ![r] = "summarise"] /\ pc[r] = "write"
  BY DEF WriteResults, Goto, outer, input, history
<1>3. P \subseteq Position /\ F \subseteq Fact /\ slice[r] \in [Cell -> Percent \cup {None}] /\ at[r] \in Unit
  <2>1. P \subseteq readP[r] /\ F \subseteq readF[r]
    BY DEF Picks, OnDay
  <2>2. at[r] \in scope[r]
    BY <1>2 DEF Base, Place, Busy
  <2>. QED  BY <2>1, <2>2 DEF Base, TypeOK
<1>. DEFINE M == RowsOf(r, P, F)
<1>4. /\ M \subseteq Row /\ IsFiniteSet(M)
      /\ \A x \in M : x.run = r /\ x.unit = at[r] /\ (x.status = "unplanned" <=> x.plan = None)
  BY <1>3, RowsMade, FiniteRows
<1>. HIDE DEF M
<1>5. /\ doomed' \in {doomed, [doomed EXCEPT ![r] = {}]}
      /\ results' \subseteq results \cup M /\ sums' \subseteq sums
  BY <1>1 DEF Publish, tables, M
<1>6. TypeOK'
  BY <1>1, <1>2, <1>4, <1>5 DEF Base, TypeOK, Point, M
<1>7. \A q \in Run \ {r} : Still(q)
  BY <1>1, <1>2, <1>5 DEF Still, Base, TypeOK
<1>8. pc'[r] = "summarise" /\ made'[r] = M /\ doomed'[r] \subseteq doomed[r]
  BY <1>1, <1>2, <1>5 DEF Base, TypeOK, M
<1>9. Place(r)' /\ Starts(r)' /\ Made(r)'
  <2>1. Starts(r)'
    BY <1>2 DEF Base, Starts
  <2>2. Made(r)'
    BY <1>4, <1>8 DEF Made
  <2>3. Place(r)'
    BY <1>2, <1>4, <1>8 DEF Base, Place, Busy
  <2>. QED  BY <2>1, <2>2, <2>3
<1>. QED  BY <1>6, <1>7, <1>9, StillStays DEF Base

LEMMA BaseSummary ==
  ASSUME Base, NEW r \in Run, WriteSummary(r)
  PROVE  Base'
<1>0. PICK u : u = at[r]
  OBVIOUS
<1>1. /\ UNCHANGED <<plans, gone, facts, percent, scope, left, found, company>>
      /\ pc[r] = "summarise" /\ results' = results \ doomed[r]
      /\ sums' = (sums \ doomed[r]) \cup {[run |-> r, unit |-> u, count |-> CountOf(made[r])]}
      /\ doomed' = [doomed EXCEPT ![r] = {}] /\ made' = [made EXCEPT ![r] = {}]
      /\ clashed' \subseteq clashed
  BY <1>0 DEF WriteSummary, outer, Publish
<1>2. u \in scope[r] /\ u \in Unit /\ u[1] \notin left[r]
  BY <1>0, <1>1 DEF Base, Place, Busy, TypeOK
<1>3. CountOf(made[r]) \in Count
  BY CountsOfRows DEF Base, Made, TypeOK
<1>4. sums' \subseteq Sum
  BY <1>1, <1>2, <1>3 DEF Base, TypeOK, Sum
<1>5. /\ readP' \in [Run -> SUBSET Position] /\ readF' \in [Run -> SUBSET Fact]
      /\ toRead' \in [Run -> SUBSET {WorkOf[sp] : sp \in Spot}]
      /\ slice' \in [Run -> [Cell -> Percent \cup {None}]]
  <2>1. CASE NextDay(u) \in scope[r]
    BY <1>0, <2>1 DEF WriteSummary, input, Base, TypeOK
  <2>2. CASE NextDay(u) \notin scope[r]
    <3>1. NothingRead(r)
      BY <1>0, <2>2 DEF WriteSummary
    <3>. QED  BY <3>1 DEF NothingRead, Base, TypeOK
  <2>. QED  BY <2>1, <2>2
<1>6. \/ /\ NextDay(u) \in scope[r] /\ at' = [at EXCEPT ![r] = NextDay(u)]
         /\ pc' = [pc EXCEPT ![r] = "find_results"]
      \/ at' = [at EXCEPT ![r] = None] /\ pc' = [pc EXCEPT ![r] = "housing"]
  BY <1>0 DEF WriteSummary, Goto
<1>7. at' \in [Run -> Unit \cup {None}] /\ pc' \in [Run -> Point]
  <2>1. scope[r] \subseteq Unit
    BY DEF Base, TypeOK
  <2>. QED  BY <1>6, <2>1 DEF Base, TypeOK, Point
<1>8. TypeOK'
  BY <1>1, <1>4, <1>5, <1>7 DEF Base, TypeOK
<1>9. \A q \in Run \ {r} : Still(q)
  BY <1>1, <1>6 DEF Still, Base, TypeOK
<1>10. Starts(r)'
  BY <1>1 DEF Base, Starts
<1>11. doomed'[r] = {} /\ made'[r] = {} /\ found'[r] = {}
  BY <1>1 DEF Base, TypeOK, Place
<1>12. Made(r)'
  BY <1>11, FS_EmptySet DEF Made
<1>13. Place(r)'
  <2>1. \/ NextDay(u) \in scope'[r] /\ at'[r] = NextDay(u) /\ pc'[r] = "find_results"
        \/ pc'[r] = "housing"
    BY <1>1, <1>6 DEF Base, TypeOK
  <2>2. NextDay(u)[1] = u[1]
    BY DEF NextDay
  <2>. QED  BY <1>1, <1>2, <1>11, <2>1, <2>2 DEF Place, Busy
<1>. QED  BY <1>8, <1>9, <1>10, <1>12, <1>13, StillStays DEF Base

LEMMA BaseLeave ==
  ASSUME Base, NEW r \in Run, Leave(r)
  PROVE  Base'
<1>1. /\ UNCHANGED <<plans, gone, facts, percent, results, sums, company, clashed>>
      /\ pc' = [pc EXCEPT ![r] = "ended"] /\ doomed' = [doomed EXCEPT ![r] = {}]
      /\ scope' = [scope EXCEPT ![r] = {}] /\ left' = [left EXCEPT ![r] = {}] /\ at' = [at EXCEPT ![r] = None]
      /\ found' = [found EXCEPT ![r] = {}] /\ made' = [made EXCEPT ![r] = {}]
  BY DEF Leave, Goto, Publish, outer, tables, history
<1>2. TypeOK'
  <2>1. /\ readP' \in [Run -> SUBSET Position] /\ readF' \in [Run -> SUBSET Fact]
        /\ toRead' \in [Run -> SUBSET {WorkOf[sp] : sp \in Spot}]
        /\ slice' \in [Run -> [Cell -> Percent \cup {None}]]
    BY DEF Leave, NothingRead, Base, TypeOK
  <2>. QED  BY <1>1, <2>1 DEF Base, TypeOK, Point
<1>3. \A q \in Run \ {r} : Still(q)
  BY <1>1 DEF Still, Base, TypeOK
<1>4. /\ pc'[r] = "ended" /\ scope'[r] = {} /\ found'[r] = {} /\ doomed'[r] = {} /\ made'[r] = {}
  BY <1>1 DEF Base, TypeOK
<1>5. Place(r)' /\ Starts(r)' /\ Made(r)'
  BY <1>4, FS_EmptySet DEF Place, Busy, Starts, Made
<1>. QED  BY <1>2, <1>3, <1>5, StillStays DEF Base

LEMMA BaseStays == Base /\ [Next]_vars => Base'
<1>. SUFFICES ASSUME Base, [Next]_vars PROVE Base'
  OBVIOUS
<1>1. CASE UNCHANGED vars
  <2>1. TypeOK'
    BY <1>1 DEF Base, TypeOK, vars
  <2>2. \A q \in Run : Still(q)
    BY <1>1 DEF Still, vars
  <2>. QED  BY <2>1, <2>2, StillStays DEF Base
<1>2. CASE Outside
  BY <1>2, BaseOutside
<1>3. ASSUME NEW r \in Run, NEW H \in SUBSET Housing, NEW a \in Day, NEW b \in Day, Ask(r, H, a, b) PROVE Base'
  BY <1>3, BaseAsk
<1>4. ASSUME NEW r \in Run, Step(r) PROVE Base'
  <2>1. CASE \E h \in Housing : ReadHousing(r, h)
    BY <2>1, BaseRead
  <2>2. CASE \/ \E w \in toRead[r] : ReadWork(r, w, FALSE) \/ ReadWork(r, w, TRUE)
             \/ FindResults(r) \/ FindSums(r)
    BY <2>2, BaseSearch
  <2>3. CASE DropResults(r) \/ DropSums(r)
    BY <2>3, BaseDrop
  <2>4. CASE WriteResults(r)
    BY <2>4, BaseWrite
  <2>5. CASE WriteSummary(r)
    BY <2>5, BaseSummary
  <2>6. CASE InsertFails(r) \/ End(r)
    BY <2>6, BaseLeave DEF InsertFails, End
  <2>. QED  BY <1>4, <2>1, <2>2, <2>3, <2>4, <2>5, <2>6 DEF Step
<1>5. ASSUME NEW r \in Run, Crash(r) PROVE Base'
  BY <1>5, BaseLeave DEF Crash
<1>. QED  BY <1>1, <1>2, <1>3, <1>4, <1>5 DEF Next

LEMMA BaseInit == Init => Base
<1>. SUFFICES ASSUME Init PROVE Base
  OBVIOUS
<1>1. TypeOK
  BY DEF Init, TypeOK, Point
<1>2. ASSUME NEW r \in Run PROVE Place(r) /\ Starts(r) /\ Made(r)
  BY FS_EmptySet DEF Init, Place, Busy, Starts, Made
<1>. QED  BY <1>1, <1>2 DEF Base

\* The types of the state, and where the runs are.
THEOREM Invariance == Spec => []Base
<1>1. Base /\ [Next]_vars => Base'
  BY BaseStays
<1>. QED  BY BaseInit, <1>1, PTL DEF Spec

-----------------------------------------------------------------------------
(* The counts.                                                             *)

\* Every summary has the counts of what its run has made.
LEMMA CountsStay == Base /\ CountsAddUp /\ [Next]_vars => CountsAddUp'
<1>. SUFFICES ASSUME Base, CountsAddUp, [Next]_vars PROVE CountsAddUp'
  OBVIOUS
<1>1. CASE sums' \subseteq sums
  BY <1>1 DEF CountsAddUp
<1>2. ASSUME NEW r \in Run, WriteSummary(r) PROVE CountsAddUp'
  <2>1. sums' = (sums \ doomed[r]) \cup {[run |-> r, unit |-> at[r], count |-> CountOf(made[r])]}
    BY <1>2 DEF WriteSummary
  <2>2. CountOf(made[r]).planned = CountOf(made[r]).full + CountOf(made[r]).partial
                                     + CountOf(made[r]).notDone + CountOf(made[r]).noReport
    BY CountsOfRows DEF Base, Made, TypeOK
  <2>3. ASSUME NEW c, c = CountOf(made[r]) PROVE [run |-> r, unit |-> at[r], count |-> c].count = c
    OBVIOUS
  <2>4. ASSUME NEW s \in sums', s \notin sums PROVE s.count = CountOf(made[r])
    BY <2>1, <2>3, <2>4
  <2>. QED  BY <2>2, <2>4 DEF CountsAddUp
<1>3. ASSUME NEW r \in Run, WriteResults(r) PROVE sums' \subseteq sums
  BY <1>3 DEF WriteResults, tables
<1>4. ASSUME NEW r \in Run, Step(r) PROVE sums' \subseteq sums \/ WriteSummary(r)
  BY <1>3, <1>4 DEF Step, ReadHousing, ReadWork, FindResults, DropResults, FindSums, DropSums, Drop,
                    InsertFails, End, Leave, tables
<1>. QED
  BY <1>1, <1>2, <1>4 DEF Next, Outside, AddPosition, RemovePosition, StoreFact, MoveCell, Ask, Crash, Leave,
                          tables, vars

\* Every planned position of a summary is in one of four states: what the rates
\* divide adds up, for any positions, facts and percents, and any runs that meet.
THEOREM CountSafety == Spec => []CountsAddUp
<1>1. Init => CountsAddUp
  BY DEF Init, CountsAddUp
<1>2. Base /\ CountsAddUp /\ [Next]_vars => CountsAddUp'
  BY CountsStay
<1>. QED  BY <1>1, <1>2, Invariance, PTL DEF Spec

-----------------------------------------------------------------------------
(* The days.                                                               *)

\* Runs that share a unit go on to know it, when none is asked for more.
LEMMA MeetingsStay ==
  ASSUME Base, Meetings, NEW r \in Run,
         \A q \in Run : scope'[q] \subseteq scope[q] /\ (company[q] => company'[q]),
         \A u \in clashed : u \in clashed' \/ (Busy(r) /\ u = at[r] /\ ~company[r])
  PROVE  Meetings'
<1>. SUFFICES ASSUME NEW p \in Run, NEW q \in Run, p # q, NEW u \in scope'[p] \cap scope'[q]
              PROVE u \in clashed' /\ company'[p]
  BY DEF Meetings
<1>1. u \in scope[p] /\ u \in scope[q] /\ u \in clashed /\ company[p] /\ company[q]
  BY DEF Meetings
<1>2. ASSUME Busy(r), u = at[r], ~company[r] PROVE FALSE
  <2>1. u \in scope[r]
    BY <1>2 DEF Base, Place
  <2>. QED  BY <1>1, <1>2, <2>1 DEF Meetings
<1>. QED  BY <1>1, <1>2

\* A run that has its unit to itself is left alone by the steps of another run.
LEMMA OthersRebuild ==
  ASSUME Base, Meetings, NEW r \in Run, NEW q \in Run \ {r}, Still(q),
         \A p \in Run : company[p] => company'[p],
         \A u \in clashed : u \in clashed' \/ (Busy(r) /\ u = at[r] /\ ~company[r]),
         \A u : (Busy(r) /\ u = at[r]) \/ (Of(results, u)' = Of(results, u) /\ Of(sums, u)' = Of(sums, u)),
         Alone(q) => Rebuilding(q), Alone(q)'
  PROVE  Rebuilding(q)'
<1>1. Busy(q) /\ at[q] \in scope[q]
  BY DEF Still, Alone, Busy, Base, Place
<1>2. ASSUME Busy(r), at[q] = at[r] PROVE FALSE
  <2>1. at[r] \in scope[r]
    BY <1>2 DEF Base, Place
  <2>2. at[r] \in clashed /\ company[q] /\ company[r]
    BY <1>1, <1>2, <2>1 DEF Meetings
  <2>3. at'[q] \in clashed' /\ company'[q]
    BY <1>2, <2>2 DEF Still
  <2>. QED  BY <2>3 DEF Alone
<1>3. Alone(q)
  <2>1. at'[q] = at[q] /\ (at'[q] \notin clashed' \/ ~company'[q])
    BY DEF Alone, Still
  <2>. QED  BY <1>1, <1>2, <2>1 DEF Alone
<1>4. PICK u : u = at[q]
  OBVIOUS
<1>5. Of(results, u)' = Of(results, u) /\ Of(sums, u)' = Of(sums, u)
  BY <1>2, <1>4
<1>6. Of(results', u) = Of(results, u) /\ Of(sums', u) = Of(sums, u)
  BY <1>5 DEF Of
<1>7. /\ at'[q] = u /\ pc'[q] = pc[q] /\ found'[q] = found[q] /\ doomed'[q] = doomed[q] /\ made'[q] = made[q]
  BY <1>4 DEF Still
<1>8. Rebuilding(q)
  BY <1>3
<1>. QED  BY <1>4, <1>6, <1>7, <1>8 DEF Rebuilding

\* A step of a run that commits nothing.
LEMMA DaysOfQuiet ==
  ASSUME DaysInv, NEW r \in Run, \A q \in Run \ {r} : Still(q),
         UNCHANGED <<results, sums, company, clashed>>, scope'[r] \subseteq scope[r],
         Alone(r)' => Rebuilding(r)'
  PROVE  Meetings' /\ (\A q \in Run : Alone(q) => Rebuilding(q))' /\ DaysAreWhole'
<1>1. \A q \in Run : scope'[q] \subseteq scope[q]
  BY DEF Still
<1>2. Meetings'
  BY <1>1, MeetingsStay DEF DaysInv
<1>3. \A u : Of(results, u)' = Of(results, u) /\ Of(sums, u)' = Of(sums, u)
  BY DEF Of
<1>4. \A q \in Run \ {r} : Alone(q)' => Rebuilding(q)'
  BY <1>3, OthersRebuild DEF DaysInv
<1>5. DaysAreWhole'
  BY DEF DaysInv, DaysAreWhole, IsWhole, Of
<1>. QED  BY <1>2, <1>4, <1>5

LEMMA DaysOfAsk ==
  ASSUME DaysInv, NEW r \in Run, NEW H \in SUBSET Housing, NEW a \in Day, NEW b \in Day, Ask(r, H, a, b)
  PROVE  Meetings' /\ (\A q \in Run : Alone(q) => Rebuilding(q))' /\ DaysAreWhole'
<1>. DEFINE mine == {u \in Unit : u[1] \in H /\ u[2] \in (a .. b) \cup (b .. a)}
            met == {q \in Active : scope[q] \cap mine # {}}
<1>0. Base /\ Meetings
  BY DEF DaysInv
<1>1. /\ pc[r] = "new" /\ UNCHANGED <<results, sums, at, found, doomed, made>>
      /\ pc' = [pc EXCEPT ![r] = "housing"] /\ scope' = [scope EXCEPT ![r] = mine] /\ left' = [left EXCEPT ![r] = H]
      /\ company' = [q \in Run |-> company[q] \/ q \in met \/ (q = r /\ met # {})]
      /\ clashed' = clashed \cup {u \in mine : \E q \in met : u \in scope[q]}
  BY DEF Ask, Goto, tables
<1>2. \A q \in Run \ {r} : Still(q)
  BY <1>0, <1>1 DEF Still, Base, TypeOK
<1>3. \A q \in Run : scope[q] # {} => q \in Active
  BY <1>0 DEF Base, Place, Active
<1>. HIDE DEF mine
<1>4. scope'[r] = mine
  BY <1>0, <1>1 DEF Base, TypeOK
<1>5. \A q \in Run \ {r}, u \in mine : u \in scope[q] => q \in met /\ u \in clashed' /\ company'[q] /\ company'[r]
  BY <1>1, <1>3
<1>6. \A q \in Run : company[q] => company'[q]
  BY <1>1
<1>7. Meetings'
  <2>. SUFFICES ASSUME NEW p \in Run, NEW q \in Run, p # q, NEW u \in scope'[p] \cap scope'[q]
                PROVE u \in clashed' /\ company'[p]
    BY DEF Meetings
  <2>1. CASE p = r
    BY <1>2, <1>4, <1>5, <2>1 DEF Still
  <2>2. CASE q = r
    BY <1>2, <1>4, <1>5, <2>2 DEF Still
  <2>3. CASE p # r /\ q # r
    <3>1. u \in scope[p] \cap scope[q]
      BY <1>2, <2>3 DEF Still
    <3>2. u \in clashed /\ company[p]
      BY <1>0, <3>1 DEF Meetings
    <3>. QED  BY <1>1, <1>6, <3>2
  <2>. QED  BY <2>1, <2>2, <2>3
<1>8. \A u : Of(results, u)' = Of(results, u) /\ Of(sums, u)' = Of(sums, u)
  BY <1>1 DEF Of
<1>9. \A q \in Run \ {r} : Alone(q)' => Rebuilding(q)'
  BY <1>0, <1>1, <1>2, <1>6, <1>8, OthersRebuild DEF DaysInv
<1>10. ~Alone(r)'
  BY <1>0, <1>1 DEF Alone, Busy, Base, TypeOK
<1>11. DaysAreWhole'
  BY <1>1 DEF DaysInv, DaysAreWhole, IsWhole, Of
<1>. QED  BY <1>7, <1>9, <1>10, <1>11

LEMMA DaysOfRead ==
  ASSUME DaysInv, NEW r \in Run,
         \/ \E h \in Housing : ReadHousing(r, h)
         \/ \E w \in toRead[r] : ReadWork(r, w, FALSE) \/ ReadWork(r, w, TRUE)
         \/ Leave(r)
  PROVE  Meetings' /\ (\A q \in Run : Alone(q) => Rebuilding(q))' /\ DaysAreWhole'
<1>0. Base
  BY DEF DaysInv
<1>1. UNCHANGED <<results, sums, company, clashed>>
  BY DEF ReadHousing, ReadWork, Leave, tables, history
<1>2. \A q \in Run \ {r} : Still(q)
  <2>1. CASE \E h \in Housing : ReadHousing(r, h)
    BY <1>0, <2>1 DEF ReadHousing, Goto, Still, Base, TypeOK
  <2>2. CASE \E w \in toRead[r] : ReadWork(r, w, FALSE) \/ ReadWork(r, w, TRUE)
    BY <1>0, <2>2 DEF ReadWork, Goto, Still, Base, TypeOK
  <2>3. CASE Leave(r)
    BY <1>0, <2>3 DEF Leave, Goto, Publish, Still, Base, TypeOK
  <2>. QED  BY <2>1, <2>2, <2>3
<1>3. scope'[r] \subseteq scope[r]
  BY <1>0 DEF ReadHousing, ReadWork, Leave, Base, TypeOK
<1>4. pc'[r] \in {"housing", "cells", "find_results", "ended"}
  BY <1>0 DEF ReadHousing, ReadWork, Leave, Goto, Base, TypeOK
<1>5. Rebuilding(r)'
  BY <1>4 DEF Rebuilding
<1>. QED  BY <1>1, <1>2, <1>3, <1>5, DaysOfQuiet

LEMMA DaysOfSearch ==
  ASSUME DaysInv, NEW r \in Run, FindResults(r) \/ FindSums(r) \/ DropResults(r) \/ DropSums(r)
  PROVE  Meetings' /\ (\A q \in Run : Alone(q) => Rebuilding(q))' /\ DaysAreWhole'
<1>0. Base
  BY DEF DaysInv
<1>1. UNCHANGED <<results, sums, company, clashed, scope, left, at, made>>
  BY DEF FindResults, FindSums, DropResults, DropSums, Drop, tables, history
<1>2. \A q \in Run \ {r} : Still(q)
  BY <1>0 DEF FindResults, FindSums, DropResults, DropSums, Drop, Goto, Still, Base, TypeOK
<1>3. PICK u : u = at[r]
  OBVIOUS
<1>4. at'[r] = u /\ Of(results', u) = Of(results, u) /\ Of(sums', u) = Of(sums, u)
  BY <1>1, <1>3
<1>5. ASSUME Alone(r)' PROVE Rebuilding(r)'
  <2>0. pc[r] \notin {"new", "housing", "ended"}
    BY DEF FindResults, FindSums, DropResults, DropSums, Drop
  <2>1. Alone(r)
    BY <1>1, <1>5, <2>0 DEF Alone, Busy
  <2>2. Rebuilding(r) /\ Place(r)
    BY <2>1 DEF DaysInv, Base
  <2>3. CASE FindResults(r)
    <3>1. pc'[r] = "drop_results" /\ found'[r] = Of(results, u)
      BY <1>0, <1>3, <2>3 DEF FindResults, Goto, Base, TypeOK
    <3>. QED  BY <1>4, <3>1 DEF Rebuilding
  <2>4. CASE DropResults(r)
    <3>1. pc'[r] = "find_sums" /\ doomed'[r] = doomed[r] \cup found[r] /\ pc[r] = "drop_results"
      BY <1>0, <2>4 DEF DropResults, Drop, Goto, Base, TypeOK
    <3>2. doomed[r] = {} /\ found[r] = Of(results, u)
      BY <1>3, <2>2, <3>1 DEF Rebuilding, Place
    <3>. QED  BY <1>4, <3>1, <3>2 DEF Rebuilding
  <2>5. CASE FindSums(r)
    <3>1. pc'[r] = "drop_sums" /\ found'[r] = Of(sums, u) /\ doomed' = doomed /\ pc[r] = "find_sums"
      BY <1>0, <1>3, <2>5 DEF FindSums, Goto, Base, TypeOK
    <3>2. doomed[r] = Of(results, u)
      BY <1>3, <2>2, <3>1 DEF Rebuilding
    <3>. QED  BY <1>4, <3>1, <3>2 DEF Rebuilding
  <2>6. CASE DropSums(r)
    <3>1. pc'[r] = "write" /\ doomed'[r] = doomed[r] \cup found[r] /\ pc[r] = "drop_sums"
      BY <1>0, <2>6 DEF DropSums, Drop, Goto, Base, TypeOK
    <3>2. doomed[r] = Of(results, u) /\ found[r] = Of(sums, u)
      BY <1>3, <2>2, <3>1 DEF Rebuilding
    <3>. QED  BY <1>4, <3>1, <3>2 DEF Rebuilding
  <2>. QED  BY <2>3, <2>4, <2>5, <2>6
<1>. QED  BY <1>1, <1>2, <1>5, DaysOfQuiet

LEMMA DaysOfWrite ==
  ASSUME DaysInv, NEW r \in Run, WriteResults(r)
  PROVE  Meetings' /\ (\A q \in Run : Alone(q) => Rebuilding(q))' /\ DaysAreWhole'
<1>0. Base /\ Meetings /\ Place(r) /\ Busy(r)
  BY DEF DaysInv, Base, WriteResults, Busy
<1>1. PICK P \in Picks(OnDay(readP[r], at[r][2])), F \in Picks(OnDay(readF[r], at[r][2])) :
         /\ made' = [made EXCEPT ![r] = RowsOf(r, P, F)]
         /\ IF RowsOf(r, P, F) = {}
            THEN UNCHANGED <<tables, doomed>>
            ELSE /\ results' = (results \ doomed[r]) \cup RowsOf(r, P, F)
                 /\ sums' = sums \ doomed[r]
                 /\ Publish(r)
  BY DEF WriteResults
<1>2. PICK u, M : u = at[r] /\ M = RowsOf(r, P, F)
  OBVIOUS
<1>3. /\ UNCHANGED <<scope, left, at, found, company, clashed>> /\ pc[r] = "write"
      /\ pc'[r] = "summarise" /\ \A q \in Run \ {r} : pc'[q] = pc[q]
  BY <1>0 DEF WriteResults, Goto, Base, TypeOK, history
<1>4. \A x \in M : x.run = r /\ x.unit = u
  <2>1. P \subseteq readP[r] /\ F \subseteq readF[r]
    BY DEF Picks, OnDay
  <2>2. at[r] \in scope[r]
    BY <1>0 DEF Place
  <2>3. P \subseteq Position /\ F \subseteq Fact /\ slice[r] \in [Cell -> Percent \cup {None}] /\ at[r] \in Unit
    BY <1>0, <2>1, <2>2 DEF Base, TypeOK
  <2>. QED  BY <1>2, <2>3, RowsMade
<1>5. made'[r] = M /\ \A q \in Run \ {r} : made'[q] = made[q]
  BY <1>0, <1>1, <1>2 DEF Base, TypeOK
<1>6. \/ M = {} /\ results' = results /\ sums' = sums /\ doomed' = doomed
      \/ /\ M # {} /\ results' = (results \ doomed[r]) \cup M /\ sums' = sums \ doomed[r]
         /\ doomed'[r] = {} /\ \A q \in Run \ {r} : doomed'[q] = doomed[q]
  BY <1>0, <1>1, <1>2 DEF Publish, tables, Base, TypeOK
<1>7. \A q \in Run \ {r} : Still(q)
  BY <1>3, <1>5, <1>6 DEF Still
<1>8. \A x \in doomed[r] : x.unit = u
  BY <1>0, <1>2 DEF Place
<1>9. \A v : v = u \/ (Of(results, v)' = Of(results, v) /\ Of(sums, v)' = Of(sums, v))
  BY <1>4, <1>6, <1>8 DEF Of
<1>10. Meetings'
  BY <1>0, <1>3, MeetingsStay
<1>11. \A q \in Run \ {r} : Alone(q)' => Rebuilding(q)'
  BY <1>0, <1>2, <1>3, <1>7, <1>9, OthersRebuild DEF DaysInv
<1>12. ASSUME Alone(r)
       PROVE  \/ M = {} /\ doomed'[r] = Of(results', u) \cup Of(sums', u)
              \/ M # {} /\ doomed'[r] = {} /\ Of(results', u) = M /\ Of(sums', u) = {}
  <2>1. doomed[r] = Of(results, u) \cup Of(sums, u)
    BY <1>2, <1>3, <1>12 DEF DaysInv, Rebuilding
  <2>. QED  BY <1>4, <1>6, <2>1 DEF Of
<1>13. Alone(r)' => Rebuilding(r)'
  <2>1. Alone(r)' => Alone(r)
    BY <1>0, <1>3 DEF Alone
  <2>2. at'[r] = u
    BY <1>2, <1>3
  <2>. QED  BY <1>3, <1>5, <1>12, <2>1, <2>2 DEF Rebuilding
<1>14. DaysAreWhole'
  <2>. SUFFICES ASSUME NEW v \in Unit \ clashed PROVE IsWhole(v)'
    BY <1>3 DEF DaysAreWhole
  <2>1. IsWhole(v)
    BY DEF DaysInv, DaysAreWhole
  <2>2. CASE Of(results, v)' = Of(results, v) /\ Of(sums, v)' = Of(sums, v)
    BY <2>1, <2>2 DEF IsWhole
  <2>3. CASE v = u /\ M # {}
    <3>1. Alone(r)
      BY <1>0, <1>2, <2>3 DEF Alone
    <3>2. Of(results, v)' = M /\ Of(sums, v)' = {}
      BY <1>12, <2>3, <3>1 DEF Of
    <3>. QED  BY <1>4, <3>2 DEF IsWhole
  <2>. QED  BY <1>6, <1>9, <2>2, <2>3 DEF Of
<1>. QED  BY <1>10, <1>11, <1>13, <1>14

LEMMA DaysOfSummary ==
  ASSUME DaysInv, NEW r \in Run, WriteSummary(r)
  PROVE  Meetings' /\ (\A q \in Run : Alone(q) => Rebuilding(q))' /\ DaysAreWhole'
<1>0. Base /\ Meetings /\ Place(r) /\ Busy(r) /\ Made(r)
  BY DEF DaysInv, Base, WriteSummary, Busy
<1>1. PICK u, s : u = at[r] /\ s = [run |-> r, unit |-> u, count |-> CountOf(made[r])]
  OBVIOUS
<1>2. s.run = r /\ s.unit = u /\ s.count = CountOf(made[r])
  BY <1>1
<1>3. /\ UNCHANGED <<scope, left, found, company>> /\ pc[r] = "summarise"
      /\ results' = results \ doomed[r] /\ sums' = (sums \ doomed[r]) \cup {s}
      /\ clashed' = IF company[r] THEN clashed ELSE clashed \ {u}
      /\ pc'[r] \in {"find_results", "housing"}
  BY <1>0, <1>1 DEF WriteSummary, Goto, Base, TypeOK
<1>4. \A q \in Run \ {r} : Still(q)
  BY <1>0, <1>3 DEF WriteSummary, Goto, Publish, Still, Base, TypeOK
<1>5. \A x \in doomed[r] : x.unit = u
  BY <1>0, <1>1 DEF Place
<1>6. \A v : v = u \/ (Of(results, v)' = Of(results, v) /\ Of(sums, v)' = Of(sums, v))
  BY <1>2, <1>3, <1>5 DEF Of
<1>7. \A v \in clashed : v \in clashed' \/ (Busy(r) /\ v = at[r] /\ ~company[r])
  BY <1>0, <1>1, <1>3
<1>8. Meetings'
  BY <1>0, <1>3, <1>7, MeetingsStay
<1>9. \A q \in Run \ {r} : Alone(q)' => Rebuilding(q)'
  BY <1>0, <1>1, <1>3, <1>4, <1>6, <1>7, OthersRebuild DEF DaysInv
<1>10. Rebuilding(r)'
  BY <1>3 DEF Rebuilding
<1>11. DaysAreWhole'
  <2>. SUFFICES ASSUME NEW v \in Unit, v \notin clashed' PROVE IsWhole(v)'
    BY DEF DaysAreWhole
  <2>1. CASE v # u
    <3>1. v \notin clashed
      BY <1>3, <2>1
    <3>2. IsWhole(v)
      BY <3>1 DEF DaysInv, DaysAreWhole
    <3>. QED  BY <1>6, <2>1, <3>2 DEF IsWhole
  <2>2. CASE v = u
    <3>1. Alone(r)
      BY <1>0, <1>1, <1>3, <2>2 DEF Alone
    <3>2. \/ made[r] = {} /\ doomed[r] = Of(results, u) \cup Of(sums, u)
          \/ doomed[r] = {} /\ Of(results, u) = made[r] /\ Of(sums, u) = {}
      BY <1>1, <1>3, <3>1 DEF DaysInv, Rebuilding
    <3>3. Of(results, v)' = made[r] /\ Of(sums, v)' = {s}
      BY <1>2, <1>3, <2>2, <3>2 DEF Of
    <3>4. \A x \in made[r] : x.run = r
      BY <1>0 DEF Made
    <3>. QED  BY <1>2, <3>3, <3>4 DEF IsWhole
  <2>. QED  BY <2>1, <2>2
<1>. QED  BY <1>8, <1>9, <1>10, <1>11

LEMMA DaysStay == DaysInv /\ [Next]_vars => DaysInv'
<1>. SUFFICES ASSUME DaysInv, [Next]_vars PROVE DaysInv'
  OBVIOUS
<1>. DEFINE Parts == Meetings' /\ (\A q \in Run : Alone(q) => Rebuilding(q))' /\ DaysAreWhole'
<1>. SUFFICES Parts
  BY BaseStays DEF DaysInv
<1>1. CASE UNCHANGED <<tables, pc, scope, at, found, doomed, made, history>>
  BY <1>1 DEF DaysInv, Meetings, Alone, Busy, Rebuilding, DaysAreWhole, IsWhole, Of, tables, history
<1>2. ASSUME NEW r \in Run, NEW H \in SUBSET Housing, NEW a \in Day, NEW b \in Day, Ask(r, H, a, b) PROVE Parts
  BY <1>2, DaysOfAsk
<1>3. ASSUME NEW r \in Run, Step(r) \/ Crash(r) PROVE Parts
  <2>1. CASE \/ \E h \in Housing : ReadHousing(r, h)
             \/ \E w \in toRead[r] : ReadWork(r, w, FALSE) \/ ReadWork(r, w, TRUE)
             \/ Leave(r)
    BY <2>1, DaysOfRead
  <2>2. CASE FindResults(r) \/ FindSums(r) \/ DropResults(r) \/ DropSums(r)
    BY <2>2, DaysOfSearch
  <2>3. CASE WriteResults(r)
    BY <2>3, DaysOfWrite
  <2>4. CASE WriteSummary(r)
    BY <2>4, DaysOfSummary
  <2>. QED  BY <1>3, <2>1, <2>2, <2>3, <2>4 DEF Step, InsertFails, End, Crash
<1>4. CASE Outside
  <2>1. UNCHANGED <<tables, pc, scope, at, found, doomed, made, history>>
    BY <1>4 DEF Outside, AddPosition, RemovePosition, StoreFact, MoveCell
  <2>. QED  BY <1>1, <2>1
<1>5. CASE UNCHANGED vars
  BY <1>1, <1>5 DEF vars, tables, history
<1>. QED  BY <1>2, <1>3, <1>4, <1>5 DEF Next

\* "Rebuilds it whole": unless two runs have met on a day, its results are of a
\* single run and its summary counts exactly those results, wherever runs crashed
\* or failed between their two commits; for any number of runs.
THEOREM DaySafety == Spec => []DaysAreWhole
<1>1. Init => DaysInv
  <2>1. Init => Meetings /\ DaysAreWhole /\ \A r \in Run : ~Alone(r)
    BY DEF Init, Meetings, DaysAreWhole, IsWhole, Of, Alone, Busy
  <2>. QED  BY <2>1, BaseInit DEF DaysInv
<1>2. DaysInv /\ [Next]_vars => DaysInv'
  BY DaysStay
<1>3. DaysInv => DaysAreWhole
  BY DEF DaysInv
<1>. QED  BY <1>1, <1>2, <1>3, PTL DEF Spec

-----------------------------------------------------------------------------
(* The board.                                                              *)

\* A run never gets back what it has behind it, and with its results it puts its
\* unit behind it.
LEMMA AheadShrinks ==
  ASSUME Base, NEW r \in Run, Step(r) \/ Crash(r) \/ \E H \in SUBSET Housing, a, b \in Day : Ask(r, H, a, b)
  PROVE  /\ \A q \in Run : \A u : Ahead(q, u)' => Ahead(q, u)
         /\ WriteResults(r) => Ahead(r, at[r]) /\ ~Ahead(r, at[r])'
         /\ WriteSummary(r) => \A u : u = at[r] => ~Ahead(r, u)'
<1>0. TypeOK /\ Place(r)
  BY DEF Base
<1>1. \A q \in Run \ {r} : pc'[q] = pc[q] /\ scope'[q] = scope[q] /\ left'[q] = left[q] /\ at'[q] = at[q]
  <2>1. CASE \E h \in Housing : ReadHousing(r, h)
    BY <1>0, <2>1 DEF ReadHousing, Goto, TypeOK
  <2>2. CASE \E w \in toRead[r] : ReadWork(r, w, FALSE) \/ ReadWork(r, w, TRUE)
    BY <1>0, <2>2 DEF ReadWork, Goto, TypeOK
  <2>3. CASE FindResults(r) \/ FindSums(r) \/ DropResults(r) \/ DropSums(r) \/ WriteResults(r)
    BY <1>0, <2>3 DEF FindResults, FindSums, DropResults, DropSums, Drop, WriteResults, Goto, TypeOK
  <2>4. CASE WriteSummary(r)
    BY <1>0, <2>4 DEF WriteSummary, Goto, TypeOK
  <2>5. CASE Leave(r)
    BY <1>0, <2>5 DEF Leave, Goto, TypeOK
  <2>6. CASE \E H \in SUBSET Housing, a, b \in Day : Ask(r, H, a, b)
    BY <1>0, <2>6 DEF Ask, Goto, TypeOK
  <2>. QED  BY <2>1, <2>2, <2>3, <2>4, <2>5, <2>6 DEF Step, InsertFails, End, Crash
<1>2. \A q \in Run \ {r} : \A u : Ahead(q, u)' => Ahead(q, u)
  BY <1>1 DEF Ahead, Busy
<1>3. CASE \E h \in Housing : ReadHousing(r, h)
  <2>1. PICK h \in Housing : ReadHousing(r, h)
    BY <1>3
  <2>2. /\ pc[r] = "housing" /\ h \in left[r] /\ scope' = scope /\ left'[r] = left[r] \ {h}
        /\ pc'[r] = "housing" \/ (pc'[r] = "cells" /\ at'[r] = FirstDay(r, h) /\ \E v \in scope[r] : v[1] = h)
    <3>1. CASE pc' = pc
      BY <1>0, <2>1, <3>1 DEF ReadHousing, TypeOK
    <3>2. CASE pc' # pc
      <4>. DEFINE P == {p \in plans : <<p.housing, p.day>> \in scope[r] /\ p.housing = h}
                  F == {f \in facts : <<f.housing, f.day>> \in scope[r] /\ f.housing = h}
      <4>1. P \cup F # {} /\ pc' = [pc EXCEPT ![r] = "cells"] /\ at' = [at EXCEPT ![r] = FirstDay(r, h)]
        BY <2>1, <3>2 DEF ReadHousing, Goto
      <4>2. \E v \in scope[r] : v[1] = h
        BY <4>1
      <4>. QED  BY <1>0, <2>1, <4>1, <4>2 DEF ReadHousing, TypeOK
    <3>. QED  BY <3>1, <3>2
  <2>3. pc'[r] = "cells" => at'[r][1] = h
    <3>. SUFFICES ASSUME pc'[r] = "cells" PROVE FirstDay(r, h)[1] = h
      BY <2>2
    <3>1. PICK v \in scope[r] : v[1] = h
      BY <2>2
    <3>2. PICK lo \in Int : \A u \in scope[r] : lo <= u[2]
      BY DEF Base, Starts
    <3>3. scope[r] \subseteq Unit
      BY <1>0 DEF TypeOK
    <3>. QED  BY <3>1, <3>2, <3>3, FirstOfDays
  <2>4. ASSUME NEW u, Ahead(r, u)' PROVE u \in scope[r] /\ u[1] \in left[r]
    BY <2>2, <2>3, <2>4 DEF Ahead, Busy
  <2>5. ~WriteResults(r) /\ ~WriteSummary(r)
    BY <2>2 DEF WriteResults, WriteSummary
  <2>. QED  BY <1>2, <2>4, <2>5 DEF Ahead
<1>4. CASE \/ \E w \in toRead[r] : ReadWork(r, w, FALSE) \/ ReadWork(r, w, TRUE)
           \/ FindResults(r) \/ FindSums(r) \/ DropResults(r) \/ DropSums(r)
  <2>1. /\ scope' = scope /\ left' = left /\ at' = at
        /\ pc[r] \in {"cells", "find_results", "find_sums", "drop_results", "drop_sums"}
        /\ pc'[r] \notin {"new", "summarise"}
    BY <1>0, <1>4 DEF ReadWork, FindResults, FindSums, DropResults, DropSums, Drop, Goto, TypeOK
  <2>2. \A u : Ahead(r, u)' => Ahead(r, u)
    BY <2>1 DEF Ahead, Busy
  <2>3. ~WriteResults(r) /\ ~WriteSummary(r)
    BY <2>1 DEF WriteResults, WriteSummary
  <2>. QED  BY <1>2, <2>2, <2>3
<1>5. CASE WriteResults(r)
  <2>1. scope' = scope /\ left' = left /\ at' = at /\ pc[r] = "write" /\ pc'[r] = "summarise"
    BY <1>0, <1>5 DEF WriteResults, Goto, TypeOK
  <2>2. at[r] \in scope[r] /\ at[r][1] \notin left[r] /\ at[r][2] \in Int
    <3>1. at[r] \in scope[r] /\ at[r][1] \notin left[r]
      BY <1>0, <2>1 DEF Place, Busy
    <3>2. scope[r] \subseteq Unit
      BY <1>0 DEF TypeOK
    <3>. QED  BY <3>1, <3>2, DayAssumption DEF Unit
  <2>3. \A u : Ahead(r, u)' => Ahead(r, u)
    BY <2>1 DEF Ahead, Busy
  <2>4. Ahead(r, at[r])
    BY <2>1, <2>2 DEF Ahead, Busy
  <2>5. ~Ahead(r, at[r])'
    BY <2>1, <2>2 DEF Ahead, Busy
  <2>6. ~WriteSummary(r)
    BY <2>1 DEF WriteSummary
  <2>. QED  BY <1>2, <2>3, <2>4, <2>5, <2>6
<1>6. CASE WriteSummary(r)
  <2>0. PICK v : v = at[r]
    OBVIOUS
  <2>1. /\ scope' = scope /\ left' = left /\ pc[r] = "summarise"
        /\ pc'[r] = "housing" \/ (pc'[r] = "find_results" /\ at'[r] = <<v[1], v[2] + 1>>)
    BY <1>0, <1>6, <2>0 DEF WriteSummary, Goto, NextDay, TypeOK
  <2>2. \A u \in scope[r] : u[2] \in Int
    <3>1. scope[r] \subseteq Unit
      BY <1>0 DEF TypeOK
    <3>2. \A u \in Unit : u[2] \in Int
      BY DayAssumption DEF Unit
    <3>. QED  BY <3>1, <3>2
  <2>3. v \in scope[r] /\ v[1] \notin left[r] /\ v[2] \in Int
    BY <1>0, <2>0, <2>1, <2>2 DEF Place, Busy
  <2>4. \A d \in Int : v[2] + 1 <= d => v[2] <= d /\ d # v[2]
    BY <2>3
  <2>5. ASSUME NEW u, Ahead(r, u)' PROVE Ahead(r, u) /\ u # v
    <3>1. /\ u \in scope[r]
          /\ \/ u[1] \in left[r]
             \/ u[1] = v[1] /\ v[2] + 1 <= u[2]
      BY <2>1, <2>5 DEF Ahead, Busy
    <3>2. u[1] \in left[r] \/ (u[1] = v[1] /\ v[2] <= u[2] /\ u # v)
      BY <2>2, <2>4, <3>1
    <3>. QED  BY <2>0, <2>1, <2>3, <3>1, <3>2 DEF Ahead, Busy
  <2>6. ~WriteResults(r)
    BY <2>1 DEF WriteResults
  <2>. QED  BY <1>2, <2>0, <2>5, <2>6
<1>7. CASE Leave(r)
  <2>1. pc'[r] = "ended" /\ scope'[r] = {}
    BY <1>0, <1>7 DEF Leave, Goto, TypeOK
  <2>2. ~WriteResults(r) /\ ~WriteSummary(r)
    BY <1>0, <1>7, <2>1 DEF WriteResults, WriteSummary, Goto, TypeOK
  <2>. QED  BY <1>2, <2>1, <2>2 DEF Ahead
<1>8. CASE \E H \in SUBSET Housing, a, b \in Day : Ask(r, H, a, b)
  <2>1. pc[r] = "new"
    BY <1>8 DEF Ask
  <2>2. ~WriteResults(r) /\ ~WriteSummary(r)
    BY <2>1 DEF WriteResults, WriteSummary
  <2>. QED  BY <1>2, <2>1, <2>2 DEF Ahead
<1>. QED  BY <1>3, <1>4, <1>5, <1>6, <1>7, <1>8 DEF Step, InsertFails, End, Crash

\* What a commit of new rows does to a set that is whole.
LEMMA WholeKept ==
  ASSUME NEW S, Whole(S), NEW D, NEW M, results' \in {results, (results \ D) \cup M},
         \A x \in M, y \in results \cup S : ~(x.run = y.run /\ x.unit = y.unit)
  PROVE  Whole(S)'
<1>. SUFFICES ASSUME NEW x \in results', NEW y \in results', x.run = y.run, x.unit = y.unit, x \in S
              PROVE y \in S
  BY DEF Whole
<1>1. CASE results' = results
  BY <1>1 DEF Whole
<1>2. CASE results' = (results \ D) \cup M
  <2>1. x \notin M
    OBVIOUS
  <2>2. x \in results /\ y \notin M
    BY <1>2, <2>1
  <2>. QED  BY <1>2, <2>2 DEF Whole
<1>. QED  BY <1>1, <1>2

\* The board after a step that commits no results.
LEMMA BoardOfQuiet ==
  ASSUME BoardInv, Base', NEW r \in Run,
         Step(r) \/ Crash(r) \/ \E H \in SUBSET Housing, a, b \in Day : Ask(r, H, a, b),
         ~WriteResults(r), ~WriteSummary(r)
  PROVE  BoardInv' /\ results' = results
<1>0. TypeOK /\ Base /\ Place(r) /\ Place(r)'
  BY DEF BoardInv, Base
<1>1. results' = results /\ sums' = sums /\ \A q \in Run \ {r} : Still(q)
  <2>1. CASE \E h \in Housing : ReadHousing(r, h)
    BY <1>0, <2>1 DEF ReadHousing, Goto, Still, TypeOK, tables
  <2>2. CASE \E w \in toRead[r] : ReadWork(r, w, FALSE) \/ ReadWork(r, w, TRUE)
    BY <1>0, <2>2 DEF ReadWork, Goto, Still, TypeOK, tables
  <2>3. CASE FindResults(r) \/ FindSums(r) \/ DropResults(r) \/ DropSums(r)
    BY <1>0, <2>3 DEF FindResults, FindSums, DropResults, DropSums, Drop, Goto, Still, TypeOK, tables
  <2>4. CASE Leave(r)
    BY <1>0, <2>4 DEF Leave, Goto, Publish, Still, TypeOK, tables
  <2>5. CASE \E H \in SUBSET Housing, a, b \in Day : Ask(r, H, a, b)
    BY <1>0, <2>5 DEF Ask, Goto, Still, TypeOK, tables
  <2>. QED  BY <2>1, <2>2, <2>3, <2>4, <2>5 DEF Step, InsertFails, End, Crash
<1>2. /\ \/ found'[r] \in {found[r], {}}
         \/ found'[r] = Of(results, at[r])
         \/ found'[r] = Of(sums, at[r])
      /\ doomed'[r] \in {doomed[r], {}, doomed[r] \cup found[r]}
      /\ pc'[r] # "summarise"
  <2>1. CASE \E h \in Housing : ReadHousing(r, h)
    BY <1>0, <2>1 DEF ReadHousing, Goto, TypeOK
  <2>2. CASE \E w \in toRead[r] : ReadWork(r, w, FALSE) \/ ReadWork(r, w, TRUE)
    BY <1>0, <2>2 DEF ReadWork, Goto, TypeOK
  <2>3. CASE FindResults(r) \/ FindSums(r)
    BY <1>0, <2>3 DEF FindResults, FindSums, Goto, TypeOK
  <2>4. CASE DropResults(r) \/ DropSums(r)
    BY <1>0, <2>4 DEF DropResults, DropSums, Drop, Goto, TypeOK
  <2>5. CASE Leave(r)
    BY <1>0, <2>5 DEF Leave, Goto, Publish, TypeOK
  <2>6. CASE \E H \in SUBSET Housing, a, b \in Day : Ask(r, H, a, b)
    BY <1>0, <2>6 DEF Ask, Goto, TypeOK
  <2>. QED  BY <2>1, <2>2, <2>3, <2>4, <2>5, <2>6 DEF Step, InsertFails, End, Crash
<1>3. Written'
  <2>1. \A q \in Run : \A u : Ahead(q, u)' => Ahead(q, u)
    BY <1>0, AheadShrinks
  <2>2. \A q \in Run : results \cup sums \cup found'[q] \cup doomed'[q]
                         \subseteq results \cup sums \cup found[q] \cup doomed[q]
    BY <1>1, <1>2 DEF Still, Of
  <2>3. \A q \in Run : \A x \in results \cup sums \cup found[q] \cup doomed[q] : x.run \in Run
    <3>1. \A x \in Row \cup Sum : x.run \in Run
      BY DEF Row, Sum
    <3>. QED  BY <1>0, <3>1 DEF TypeOK
  <2>4. ASSUME NEW q \in Run, NEW x \in results' \cup sums' \cup found'[q] \cup doomed'[q]
        PROVE  ~Ahead(x.run, x.unit)'
    <3>1. x \in results \cup sums \cup found[q] \cup doomed[q]
      BY <1>1, <2>2, <2>4
    <3>2. PICK p, u : p = x.run /\ u = x.unit
      OBVIOUS
    <3>3. p \in Run /\ ~Ahead(p, u)
      BY <2>3, <3>1, <3>2 DEF BoardInv, Written
    <3>. QED  BY <2>1, <3>2, <3>3
  <2>. QED  BY <2>4 DEF Written
<1>4. ASSUME NEW q \in Run PROVE Whole(found[q])' /\ Whole(doomed[q])' /\ NothingMade(q)'
  <2>1. Whole(found[q]) /\ Whole(doomed[q]) /\ NothingMade(q)
    BY DEF BoardInv
  <2>2. CASE q # r
    <3>1. pc'[q] = pc[q] /\ at'[q] = at[q] /\ found'[q] = found[q] /\ doomed'[q] = doomed[q]
      BY <1>1, <2>2 DEF Still
    <3>. QED  BY <1>1, <2>1, <3>1 DEF Whole, NothingMade, Of
  <2>3. CASE q = r
    <3>1. results \cap sums = {}
      BY <1>0, RowsAreNoSums DEF TypeOK
    <3>2. Whole({}) /\ Whole(Of(results, at[r])) /\ Whole(Of(sums, at[r])) /\ Whole(doomed[r] \cup found[r])
      BY <2>1, <2>3, <3>1 DEF Whole, Of
    <3>3. Whole(found'[r]) /\ Whole(doomed'[r])
      BY <1>2, <2>1, <2>3, <3>2
    <3>. QED  BY <1>1, <1>2, <2>3, <3>3 DEF Whole, NothingMade
  <2>. QED  BY <2>2, <2>3
<1>. QED  BY <1>1, <1>3, <1>4 DEF BoardInv

\* A commit of r for u with the rows M and the summaries N, the deletes D.
Commits(r, u, D, M, N) ==
  /\ results' \in {results, (results \ D) \cup M}
  /\ sums' \subseteq sums \cup N
  /\ M \subseteq results' /\ N \subseteq sums'
  /\ \A x \in M \cup N : x.run = r /\ x.unit = u
  /\ WriteResults(r) => N = {} /\ (doomed'[r] = {} \/ (results' = results /\ doomed'[r] = D))
  /\ WriteSummary(r) => M = {} /\ doomed'[r] = {}

\* A commit: rows of r for its unit come, and what it has deleted goes.
LEMMA BoardOfCommit ==
  ASSUME BoardInv, Base', NEW r \in Run, WriteResults(r) \/ WriteSummary(r)
  PROVE  /\ BoardInv'
         /\ results' # results => Board!Rebuild(at[r], r)
<1>0. TypeOK /\ Base /\ Place(r) /\ Written
  BY DEF BoardInv, Base
<1>1. PICK u, D : u = at[r] /\ D = doomed[r]
  OBVIOUS
<1>2. \E M, N : Commits(r, u, D, M, N)
  <2>1. CASE WriteResults(r)
    <3>1. PICK P \in Picks(OnDay(readP[r], at[r][2])), F \in Picks(OnDay(readF[r], at[r][2])) :
             IF RowsOf(r, P, F) = {}
             THEN UNCHANGED <<tables, doomed>>
             ELSE /\ results' = (results \ doomed[r]) \cup RowsOf(r, P, F)
                  /\ sums' = sums \ doomed[r]
                  /\ Publish(r)
      BY <2>1 DEF WriteResults
    <3>2. \A x \in RowsOf(r, P, F) : x.run = r /\ x.unit = u
      <4>1. P \subseteq readP[r] /\ F \subseteq readF[r]
        BY DEF Picks, OnDay
      <4>2. at[r] \in scope[r]
        BY <1>0, <2>1 DEF Place, Busy, WriteResults
      <4>3. P \subseteq Position /\ F \subseteq Fact /\ slice[r] \in [Cell -> Percent \cup {None}] /\ at[r] \in Unit
        BY <1>0, <4>1, <4>2 DEF TypeOK
      <4>. QED  BY <1>1, <4>3, RowsMade
    <3>3. ~WriteSummary(r)
      BY <2>1 DEF WriteResults, WriteSummary
    <3>4. CASE RowsOf(r, P, F) = {}
      <4>1. results' = results /\ sums' = sums /\ doomed' = doomed
        BY <3>1, <3>4 DEF tables
      <4>2. Commits(r, u, D, {}, {})
        BY <1>1, <3>3, <4>1 DEF Commits
      <4>. QED  BY <4>2
    <3>5. CASE RowsOf(r, P, F) # {}
      <4>1. doomed'[r] = {}
        BY <1>0, <3>1, <3>5 DEF Publish, TypeOK
      <4>2. results' = (results \ D) \cup RowsOf(r, P, F) /\ sums' = sums \ D
        BY <1>1, <3>1, <3>5
      <4>3. RowsOf(r, P, F) \subseteq results' /\ sums' \subseteq sums
        BY <4>2
      <4>4. Commits(r, u, D, RowsOf(r, P, F), {})
        BY <3>2, <3>3, <4>1, <4>2, <4>3 DEF Commits
      <4>. QED  BY <4>4
    <3>. QED  BY <3>4, <3>5
  <2>2. CASE WriteSummary(r)
    <3>. DEFINE s == [run |-> r, unit |-> u, count |-> CountOf(made[r])]
    <3>1. s.run = r /\ s.unit = u
      OBVIOUS
    <3>2. results' = results \ D /\ sums' = (sums \ D) \cup {s} /\ doomed'[r] = {}
      BY <1>0, <1>1, <2>2 DEF WriteSummary, Publish, TypeOK
    <3>3. ~WriteResults(r)
      BY <2>2 DEF WriteResults, WriteSummary
    <3>. HIDE DEF s
    <3>4. WriteSummary(r) => doomed'[r] = {}
      BY <3>2
    <3>5. results' = (results \ D) \cup {} /\ sums' \subseteq sums \cup {s} /\ {s} \subseteq sums'
      BY <3>2
    <3>6. Commits(r, u, D, {}, {s})
      BY <3>1, <3>3, <3>4, <3>5 DEF Commits
    <3>. QED  BY <3>6
  <2>. QED  BY <2>1, <2>2
<1>3. PICK M, N : Commits(r, u, D, M, N)
  BY <1>2
<1>14. /\ results' \in {results, (results \ D) \cup M}
       /\ sums' \subseteq sums \cup N
       /\ M \subseteq results' /\ N \subseteq sums'
       /\ \A x \in M \cup N : x.run = r /\ x.unit = u
       /\ WriteResults(r) => N = {} /\ (doomed'[r] = {} \/ (results' = results /\ doomed'[r] = D))
       /\ WriteSummary(r) => M = {} /\ doomed'[r] = {}
  BY <1>3 DEF Commits
<1>4. \A q \in Run \ {r} : Still(q)
  <2>1. CASE WriteResults(r)
    BY <1>0, <2>1 DEF WriteResults, Goto, Publish, Still, TypeOK
  <2>2. CASE WriteSummary(r)
    BY <1>0, <2>2 DEF WriteSummary, Goto, Publish, Still, TypeOK
  <2>. QED  BY <2>1, <2>2
<1>5. found'[r] = found[r] /\ (WriteResults(r) => at'[r] = u /\ Ahead(r, u))
  <2>1. WriteResults(r) => Ahead(r, at[r])
    BY <1>0, AheadShrinks DEF Step
  <2>. QED  BY <1>1, <2>1 DEF WriteResults, WriteSummary
<1>6. \A q \in Run : \A v : Ahead(q, v)' => Ahead(q, v)
  BY <1>0, AheadShrinks DEF Step
<1>7. ~Ahead(r, u)'
  <2>1. CASE WriteResults(r)
    <3>1. ~Ahead(r, at[r])'
      BY <1>0, <2>1, AheadShrinks DEF Step
    <3>2. at'[r] = u
      BY <1>5, <2>1
    <3>. QED  BY <3>1, <3>2 DEF Ahead, Busy
  <2>2. CASE WriteSummary(r)
    BY <1>0, <1>1, <2>2, AheadShrinks DEF Step
  <2>. QED  BY <2>1, <2>2
<1>8. \A x \in Row \cup Sum : x.run \in Run
  BY DEF Row, Sum
<1>9. Written'
  <2>1. ASSUME NEW q \in Run, NEW x \in results' \cup sums' \cup found'[q] \cup doomed'[q]
        PROVE  ~Ahead(x.run, x.unit)'
    <3>1. PICK p, v : p = x.run /\ v = x.unit
      OBVIOUS
    <3>2. found'[q] = found[q] /\ doomed'[q] \subseteq doomed[q]
      BY <1>1, <1>14, <1>4, <1>5 DEF Still
    <3>3. x \in results \cup sums \cup found[q] \cup doomed[q] \/ x \in M \cup N
      BY <1>14, <2>1, <3>2
    <3>4. CASE x \in M \cup N
      BY <1>14, <1>7, <3>1, <3>4
    <3>5. CASE x \in results \cup sums \cup found[q] \cup doomed[q]
      <4>1. p \in Run /\ ~Ahead(p, v)
        BY <1>0, <1>8, <3>1, <3>5 DEF Written, TypeOK
      <4>. QED  BY <1>6, <3>1, <4>1
    <3>. QED  BY <3>3, <3>4, <3>5
  <2>. QED  BY <2>1 DEF Written
<1>10. \A q \in Run : \A x \in M, y \in results \cup found[q] \cup doomed[q] : ~(x.run = y.run /\ x.unit = y.unit)
  <2>. SUFFICES ASSUME NEW q \in Run, NEW x \in M, NEW y \in results \cup found[q] \cup doomed[q],
                       y.run = r, y.unit = u
                PROVE FALSE
    BY <1>14
  <2>1. Ahead(r, u)
    BY <1>14, <1>5
  <2>. QED  BY <1>0, <2>1 DEF Written
<1>11. ASSUME NEW q \in Run PROVE Whole(found[q])' /\ Whole(doomed[q])'
  <2>1. found'[q] = found[q] /\ doomed'[q] \in {doomed[q], {}}
    BY <1>1, <1>14, <1>4, <1>5 DEF Still
  <2>2. PICK S, T : S = found[q] /\ T = doomed[q]
    OBVIOUS
  <2>3. Whole(S) /\ Whole(T)
    BY <2>2 DEF BoardInv
  <2>4. /\ \A x \in M, y \in results \cup S : ~(x.run = y.run /\ x.unit = y.unit)
        /\ \A x \in M, y \in results \cup T : ~(x.run = y.run /\ x.unit = y.unit)
    BY <1>10, <2>2
  <2>7. results' \in {results, (results \ D) \cup M}
    BY <1>14
  <2>5. Whole(S)'
    BY <2>3, <2>4, <2>7, WholeKept DEF Whole
  <2>6. Whole(T)'
    BY <2>3, <2>4, <2>7, WholeKept DEF Whole
  <2>. QED  BY <2>1, <2>2, <2>5, <2>6 DEF Whole
<1>12. ASSUME NEW q \in Run PROVE NothingMade(q)'
  <2>1. CASE q # r
    <3>1. pc'[q] = pc[q] /\ at'[q] = at[q] /\ doomed'[q] = doomed[q]
      BY <1>4, <2>1 DEF Still
    <3>2. \A x \in results' : x.run = q => x \in results
      BY <1>14, <2>1
    <3>. QED  BY <3>1, <3>2 DEF BoardInv, NothingMade, Of
  <2>2. CASE q = r /\ WriteResults(r)
    <3>1. \A x \in Of(results, u) : x.run # r
      BY <1>0, <1>5, <2>2 DEF Written, Of
    <3>. QED  BY <1>14, <1>5, <2>2, <3>1 DEF NothingMade, Of
  <2>3. CASE q = r /\ WriteSummary(r)
    BY <1>14, <2>3 DEF NothingMade
  <2>. QED  BY <2>1, <2>2, <2>3
<1>13. ASSUME results' # results PROVE Board!Rebuild(at[r], r)
  <2>1. results' = (results \ D) \cup M
    BY <1>14, <1>13
  <2>2. \A x \in D : x.unit = u
    BY <1>0, <1>1 DEF Place
  <2>3. \A v \in Unit \ {u} : Of(results', v) = Of(results, v)
    BY <1>14, <2>1, <2>2 DEF Of
  <2>4. \A x \in results' : x.run \in Run
    BY <1>8 DEF Base, TypeOK
  <2>5. \A x \in Of(results, u) : x.run # r
    <3>1. CASE WriteResults(r)
      BY <1>0, <1>5, <3>1 DEF Written, Of
    <3>2. CASE WriteSummary(r)
      <4>1. D # {} /\ pc[r] = "summarise"
        BY <1>14, <2>1, <3>2, <1>13 DEF WriteSummary
      <4>. QED  BY <1>1, <4>1 DEF BoardInv, NothingMade
    <3>. QED  BY <3>1, <3>2
  <2>6. ASSUME NEW q \in Run \ {r}
        PROVE  {x \in Of(results', u) : x.run = q} \in {{x \in Of(results, u) : x.run = q}, {}}
    <3>1. {x \in Of(results', u) : x.run = q} = {x \in Of(results, u) : x.run = q} \ D
      BY <1>14, <2>1 DEF Of
    <3>2. Whole(D)
      BY <1>1 DEF BoardInv
    <3>3. \A x, y \in {x \in Of(results, u) : x.run = q} : x \in D => y \in D
      BY <3>2 DEF Whole, Of
    <3>. QED  BY <3>1, <3>3
  <2>7. u \in Unit
    BY <1>0, <1>1 DEF Place, Busy, WriteResults, WriteSummary, TypeOK
  <2>8. Of(results', u)= Of(results', at[r]) /\ \A x \in Of(results', u) : x.run \in Run
    BY <1>1, <2>4 DEF Of
  <2>9. Board!Rebuild(u, r)
    <3>1. \A q \in Run \ {r} : Board!Part(u, q)' \in {Board!Part(u, q), {}}
      BY <2>6, <2>7 DEF Board!Part, Of
    <3>2. Board!Part(u, r) = {}
      BY <2>5, <2>7 DEF Board!Part
    <3>. QED  BY <2>3, <2>7, <2>8, <3>1, <3>2 DEF Board!Rebuild, Of
  <2>. QED  BY <1>1, <2>9
<1>. QED  BY <1>9, <1>11, <1>12, <1>13 DEF BoardInv

\* A step is a rebuilding on the board, or leaves the board alone.
LEMMA BoardStep ==
  BoardInv /\ [Next]_vars => BoardInv' /\ (results' = results \/ \E u \in Unit, r \in Run : Board!Rebuild(u, r))
<1>. SUFFICES ASSUME BoardInv, [Next]_vars
              PROVE  BoardInv' /\ (results' = results \/ \E u \in Unit, r \in Run : Board!Rebuild(u, r))
  OBVIOUS
<1>1. Base /\ Base'
  BY BaseStays DEF BoardInv
<1>2. CASE Outside \/ UNCHANGED vars
  <2>1. UNCHANGED <<results, sums, pc, scope, left, at, found, doomed>>
    BY <1>2 DEF Outside, AddPosition, RemovePosition, StoreFact, MoveCell, tables, vars
  <2>2. Written' /\ \A r \in Run : Whole(found[r])' /\ Whole(doomed[r])' /\ NothingMade(r)'
    BY <2>1 DEF BoardInv, Written, Ahead, Busy, Whole, NothingMade, Of
  <2>. QED  BY <1>1, <2>1, <2>2 DEF BoardInv
<1>3. ASSUME NEW r \in Run, WriteResults(r) \/ WriteSummary(r)
      PROVE  BoardInv' /\ (results' = results \/ \E u \in Unit, q \in Run : Board!Rebuild(u, q))
  <2>1. at[r] \in Unit
    BY <1>1, <1>3 DEF Base, Place, Busy, TypeOK, WriteResults, WriteSummary
  <2>. QED  BY <1>1, <1>3, <2>1, BoardOfCommit
<1>4. ASSUME NEW r \in Run,
             Step(r) \/ Crash(r) \/ \E H \in SUBSET Housing, a, b \in Day : Ask(r, H, a, b),
             ~WriteResults(r), ~WriteSummary(r)
      PROVE  BoardInv' /\ results' = results
  BY <1>1, <1>4, BoardOfQuiet
<1>. QED  BY <1>2, <1>3, <1>4 DEF Next

\* However the runs meet, fail or are cut off, the results of a day change only
\* when a run that has none there puts its rows in, or earlier runs lose theirs,
\* and of each earlier run all rows go or none.
THEOREM Refinement == Spec => BoardSpec
<1>1. Init => BoardInv
  <2>. SUFFICES ASSUME Init PROVE BoardInv
    OBVIOUS
  <2>1. Base
    BY BaseInit
  <2>2. results = {} /\ sums = {} /\ \A r \in Run : found[r] = {} /\ doomed[r] = {} /\ pc[r] = "new"
    BY DEF Init
  <2>. QED  BY <2>1, <2>2 DEF BoardInv, Written, Whole, NothingMade
<1>2. BoardInv /\ [Next]_vars => BoardInv'
  BY BoardStep
<1>3. Init => Board!Init
  BY DEF Init, Board!Init, Of
<1>4. BoardInv /\ [Next]_vars => [Board!Next]_([u \in Unit |-> Of(results, u)])
  BY BoardStep DEF Board!Next, Of
<1>. QED  BY <1>1, <1>2, <1>3, <1>4, PTL DEF Spec, BoardSpec, Board!Spec
=============================================================================
