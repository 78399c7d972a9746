--------------------------- MODULE ReadersProofs ---------------------------
(***************************************************************************)
(* Theorems about those who read the results of a reconciliation: Screens, *)
(* for any sections, days, places and pages, and AlertDay, for any calls,  *)
(* checks, types, rules and hours.  The two share nothing: the theorems    *)
(* about Spec hold whatever the alerts do, those about AlertSpec whatever  *)
(* the screens show.                                                       *)
(***************************************************************************)
EXTENDS Screens, AlertDay, FiniteSetTheorems, SequenceTheorems, WellFoundedInduction, TLAPS

-----------------------------------------------------------------------------
(* Sums.                                                                   *)

\* Of a set of finite sets some member is least.
LEMMA SmallestSet ==
  ASSUME NEW D, IsFiniteSet(D), NEW T \in SUBSET SUBSET D, T # {}
  PROVE  \E s \in T : \A t \in T : ~(t \subseteq s /\ t # s)
<1>1. IsWellFoundedOn(StrictSubsetOrdering(D), FiniteSubsetsOf(D))
  BY FS_StrictSubsetOrderingWellFounded
<1>2. T \subseteq FiniteSubsetsOf(D)
  BY FS_FiniteSubsetsOfFinite
<1>3. PICK s \in T : \A t \in T : ~(<<t, s>> \in StrictSubsetOrdering(D))
  BY <1>1, <1>2, WFMin
<1>. QED  BY <1>3 DEF StrictSubsetOrdering

\* The sum over a set takes its elements one after the other.
LEMMA SumsEquation ==
  ASSUME NEW f, NEW D
  PROVE  SumFunctionOnSet(f, D) =
           (CHOOSE g : g = [s \in SUBSET D |->
              IF s = {} THEN 0
              ELSE LET x == CHOOSE y \in s : TRUE IN f[x] + g[s \ {x}]])[D]
  BY DEF SumFunctionOnSet, FoldFunctionOnSet, MapThenFoldSet

\* The rows with a key, and those with one of several.
Keyed(R, k, d)   == {x \in R : k[x] = d}
KeyedIn(R, k, D) == {x \in R : k[x] \in D}

\* Rows that are counted key by key are counted once each.
LEMMA CountByKey ==
  ASSUME NEW R, IsFiniteSet(R), NEW D, IsFiniteSet(D), NEW k, NEW f,
         \A d \in D : f[d] = Cardinality(Keyed(R, k, d))
  PROVE  SumFunctionOnSet(f, D) = Cardinality(KeyedIn(R, k, D))
<1>. DEFINE Pick(s) == CHOOSE d \in s : TRUE
            Rec(g) == [s \in SUBSET D |-> IF s = {} THEN 0 ELSE f[Pick(s)] + g[s \ {Pick(s)}]]
            of == [s \in SUBSET D |-> Cardinality({x \in R : k[x] \in s})]
            sum == CHOOSE g : g = Rec(g)
<1>1. of = Rec(of)
  <2>1. ASSUME NEW s \in SUBSET D, s # {}
        PROVE  of[s] = f[Pick(s)] + of[s \ {Pick(s)}]
    <3>1. PICK d : d = Pick(s) /\ d \in s
      BY <2>1
    <3>. DEFINE A == {x \in R : k[x] = d}  B == {x \in R : k[x] \in s \ {d}}
    <3>2. IsFiniteSet(A) /\ IsFiniteSet(B)
      BY FS_Subset
    <3>3. A \cap B = {} /\ A \cup B = {x \in R : k[x] \in s}
      BY <3>1
    <3>4. Cardinality(A \cup B) = Cardinality(A) + Cardinality(B) - Cardinality(A \cap B)
      BY <3>2, FS_Union
    <3>5. Cardinality(A) \in Nat /\ Cardinality(B) \in Nat /\ Cardinality(A \cap B) = 0
      BY <3>2, <3>3, FS_CardinalityType, FS_EmptySet
    <3>6. Cardinality({x \in R : k[x] \in s}) = Cardinality(A) + Cardinality(B)
      <4>1. Cardinality({x \in R : k[x] \in s}) = Cardinality(A \cup B)
        BY <3>3
      <4>. HIDE DEF A, B
      <4>2. Cardinality(A \cup B) = Cardinality(A) + Cardinality(B)
        BY <3>4, <3>5
      <4>. QED  BY <4>1, <4>2
    <3>7. /\ f[d] = Cardinality(A) /\ of[s \ {d}] = Cardinality(B)
          /\ of[s] = Cardinality({x \in R : k[x] \in s})
      BY <3>1 DEF Keyed
    <3>. QED  BY <3>1, <3>6, <3>7
  <2>2. of[{}] = 0
    <3>1. {x \in R : k[x] \in {}} = {}
      OBVIOUS
    <3>. QED  BY <3>1, FS_EmptySet
  <2>3. \A s \in SUBSET D : of[s] = Rec(of)[s]
    BY <2>1, <2>2
  <2>. QED  BY <2>3
<1>2. sum = Rec(sum)
  <2>. HIDE DEF of, Rec
  <2>. QED  BY <1>1
<1>3. SumFunctionOnSet(f, D) = sum[D]
  BY SumsEquation
<1>4. \A g : g = Rec(g) => \A s \in SUBSET D : s # {} => g[s] = f[Pick(s)] + g[s \ {Pick(s)}]
  OBVIOUS
<1>5. \A g : g = Rec(g) => g[{}] = 0
  OBVIOUS
<1>6. \A s \in SUBSET D : s # {} => Pick(s) \in s
  OBVIOUS
<1>7. \A s \in SUBSET D : sum[s] = of[s]
  <2>. HIDE DEF of, sum, Rec, Pick
  <2>. DEFINE T == {s \in SUBSET D : sum[s] # of[s]}
  <2>. SUFFICES ASSUME T # {} PROVE FALSE
    OBVIOUS
  <2>1. PICK s \in T : \A t \in T : ~(t \subseteq s /\ t # s)
    <3>1. T \in SUBSET SUBSET D
      OBVIOUS
    <3>. HIDE DEF T
    <3>. QED  BY <3>1, SmallestSet
  <2>2. s # {}
    BY <1>1, <1>2, <1>5
  <2>3. Pick(s) \in s /\ s \ {Pick(s)} \in SUBSET D
    BY <1>6, <2>2
  <2>4. sum[s \ {Pick(s)}] = of[s \ {Pick(s)}]
    BY <2>1, <2>3
  <2>5. sum[s] = f[Pick(s)] + sum[s \ {Pick(s)}]
    BY <1>2, <1>4, <2>2
  <2>6. of[s] = f[Pick(s)] + of[s \ {Pick(s)}]
    BY <1>1, <1>4, <2>2
  <2>. QED  BY <2>1, <2>4, <2>5, <2>6
<1>. QED  BY <1>3, <1>7 DEF KeyedIn
-----------------------------------------------------------------------------
(* Orders.                                                                 *)

\* Whatever can be asked of the days of a table.
DatedRows(L) == IsFiniteSet(L) /\ \A x \in L : x.day \in Int

\* How many rows come before those of a day, and how many with them.
Above(L, d)   == Cardinality({x \in L : x.day > d})
AtLeast(L, d) == Cardinality({x \in L : x.day >= d})

\* A sequence holds rows of a table where an order by day has rows of theirs.
Ranked(L, seq) ==
  \A i \in DOMAIN seq : /\ seq[i] \in L
                        /\ Above(L, seq[i].day) < i /\ i <= AtLeast(L, seq[i].day)

LEMMA RankBounds ==
  ASSUME NEW L, DatedRows(L)
  PROVE  /\ \A d : Above(L, d) \in Nat /\ AtLeast(L, d) \in Nat /\ AtLeast(L, d) <= Cardinality(L)
         /\ \A d, e \in Int : d < e => AtLeast(L, e) <= Above(L, d)
         /\ \A d \in Int : AtLeast(L, d) = Above(L, d) + Cardinality({x \in L : x.day = d})
<1>0. IsFiniteSet(L)
  BY DEF DatedRows
<1>1. ASSUME NEW d PROVE Above(L, d) \in Nat /\ AtLeast(L, d) \in Nat /\ AtLeast(L, d) <= Cardinality(L)
  BY <1>0, FS_Subset, FS_CardinalityType DEF Above, AtLeast
<1>2. ASSUME NEW d \in Int, NEW e \in Int, d < e PROVE AtLeast(L, e) <= Above(L, d)
  <2>1. IsFiniteSet({x \in L : x.day > d})
    BY <1>0, FS_Subset
  <2>2. {x \in L : x.day >= e} \subseteq {x \in L : x.day > d}
    BY <1>2 DEF DatedRows
  <2>. QED  BY <2>1, <2>2, FS_Subset DEF Above, AtLeast
<1>3. ASSUME NEW d \in Int PROVE AtLeast(L, d) = Above(L, d) + Cardinality({x \in L : x.day = d})
  <2>. DEFINE A == {x \in L : x.day > d}  B == {x \in L : x.day = d}
  <2>1. IsFiniteSet(A) /\ IsFiniteSet(B)
    BY <1>0, FS_Subset
  <2>2. A \cap B = {} /\ A \cup B = {x \in L : x.day >= d}
    BY DEF DatedRows
  <2>3. Cardinality(A \cup B) = Cardinality(A) + Cardinality(B) - Cardinality(A \cap B)
    BY <2>1, FS_Union
  <2>4. Cardinality(A) \in Nat /\ Cardinality(B) \in Nat /\ Cardinality(A \cap B) = 0
    BY <2>1, <2>2, FS_CardinalityType, FS_EmptySet
  <2>5. AtLeast(L, d) = Cardinality(A \cup B) /\ Above(L, d) = Cardinality(A)
    BY <2>2 DEF Above, AtLeast
  <2>. QED  BY <2>3, <2>4, <2>5
<1>. QED  BY <1>1, <1>2, <1>3

\* The rows of any order lie in their places.
LEMMA OrderIsRanked ==
  ASSUME NEW L, DatedRows(L), NEW q \in Orders(L)
  PROVE  q \in Seq(L) /\ Len(q) = Cardinality(L) /\ Ranked(L, q)
<1>. DEFINE n == Cardinality(L)
<1>1. IsFiniteSet(L) /\ n \in Nat
  BY FS_CardinalityType DEF DatedRows
<1>2. /\ q \in [1..n -> L]
      /\ \A i, j \in 1..n : i # j => q[i] # q[j]
      /\ \A i, j \in DOMAIN q : i < j => q[i].day >= q[j].day
  BY DEF Orders, SetToSeqs
<1>3. q \in Seq(L) /\ Len(q) = n /\ DOMAIN q = 1..n
  BY <1>1, <1>2
<1>4. \A t \in L : \E i \in 1..n : q[i] = t
  <2>1. q \in Injection(1..n, L)
    BY <1>2 DEF Injection, IsInjective
  <2>2. Cardinality(1..n) = Cardinality(L)
    BY <1>1, FS_Interval
  <2>3. q \in Surjection(1..n, L)
    BY <1>1, <2>1, <2>2, FS_Injection
  <2>. QED  BY <2>3 DEF Surjection
<1>5. ASSUME NEW i \in 1..n
      PROVE  q[i] \in L /\ Above(L, q[i].day) < i /\ i <= AtLeast(L, q[i].day)
  <2>. DEFINE d == q[i].day  A == {x \in L : x.day > d}  B == {x \in L : x.day >= d}
              front == {q[j] : j \in 1..(i - 1)}
  <2>1. q[i] \in L /\ d \in Int /\ i \in Nat
    BY <1>1, <1>2 DEF DatedRows
  <2>2. IsFiniteSet(A) /\ IsFiniteSet(B)
    BY <1>1, FS_Subset
  <2>3. Above(L, d) < i
    <3>1. A \subseteq front
      <4>. SUFFICES ASSUME NEW x \in A PROVE x \in front
        OBVIOUS
      <4>1. PICK j \in 1..n : q[j] = x
        BY <1>4
      <4>2. j < i
        <5>1. CASE j = i
          BY <2>1, <4>1, <5>1
        <5>2. CASE i < j
          <6>1. q[i].day >= q[j].day
            BY <1>2, <1>3, <5>2
          <6>. QED  BY <1>2, <2>1, <4>1, <6>1 DEF DatedRows
        <5>. QED  BY <2>1, <4>1, <5>1, <5>2
      <4>. QED  BY <2>1, <4>1, <4>2
    <3>2. [j \in 1..(i - 1) |-> q[j]] \in Surjection(1..(i - 1), front)
      BY DEF Surjection
    <3>3. IsFiniteSet(1..(i - 1)) /\ Cardinality(1..(i - 1)) = i - 1
      <4>1. 1 \in Int /\ i - 1 \in Int /\ i >= 1
        BY <2>1
      <4>2. /\ IsFiniteSet(1..(i - 1))
            /\ Cardinality(1..(i - 1)) = IF 1 > i - 1 THEN 0 ELSE i - 1 - 1 + 1
        BY <4>1, FS_Interval
      <4>. QED  BY <2>1, <4>1, <4>2
    <3>4. IsFiniteSet(front) /\ Cardinality(front) <= i - 1
      BY <3>2, <3>3, FS_Surjection
    <3>5. Cardinality(A) <= Cardinality(front)
      BY <3>1, <3>4, FS_Subset
    <3>6. Cardinality(A) \in Nat /\ Cardinality(front) \in Nat
      BY <2>2, <3>4, FS_CardinalityType
    <3>7. Cardinality(A) < i
      BY <2>1, <3>4, <3>5, <3>6
    <3>. QED  BY <3>7 DEF Above
  <2>4. i <= AtLeast(L, d)
    <3>1. \A j \in 1..i : q[j] \in B
      <4>. SUFFICES ASSUME NEW j \in 1..i PROVE q[j] \in B
        OBVIOUS
      <4>1. j \in 1..n /\ (j = i \/ j < i)
        BY <1>1, <2>1
      <4>2. q[j].day >= d
        BY <1>2, <1>3, <2>1, <4>1
      <4>. QED  BY <1>2, <4>1, <4>2
    <3>2. [j \in 1..i |-> q[j]] \in Injection(1..i, B)
      <4>1. 1..i \subseteq 1..n
        BY <1>1, <2>1
      <4>. QED  BY <1>2, <3>1, <4>1 DEF Injection, IsInjective
    <3>3. Cardinality(1..i) <= Cardinality(B)
      BY <2>2, <3>2, FS_Injection
    <3>4. Cardinality(1..i) = i
      BY <2>1, FS_Interval
    <3>. QED  BY <3>3, <3>4 DEF AtLeast
  <2>. QED  BY <2>1, <2>3, <2>4
<1>. QED  BY <1>3, <1>5 DEF Ranked

\* A sequence as long as its table with the rows in their places has the days
\* in their order, and each as often as the table.
LEMMA RankedCovers ==
  ASSUME NEW L, DatedRows(L), NEW seq \in Seq(L), Len(seq) = Cardinality(L), Ranked(L, seq)
  PROVE  /\ \A i, j \in DOMAIN seq : i < j => seq[i].day >= seq[j].day
         /\ \A d \in Int : Cardinality({i \in DOMAIN seq : seq[i].day = d})
                             = Cardinality({x \in L : x.day = d})
<1>. DEFINE n == Cardinality(L)
<1>1. IsFiniteSet(L) /\ n \in Nat /\ DOMAIN seq = 1..n
  BY FS_CardinalityType DEF DatedRows
<1>2. \A i \in 1..n : seq[i].day \in Int /\ Above(L, seq[i].day) < i /\ i <= AtLeast(L, seq[i].day)
  BY <1>1 DEF Ranked, DatedRows
<1>3. \A i, j \in 1..n : i < j => seq[i].day >= seq[j].day
  <2>. SUFFICES ASSUME NEW i \in 1..n, NEW j \in 1..n, i < j, seq[i].day < seq[j].day PROVE FALSE
    BY <1>2
  <2>1. AtLeast(L, seq[j].day) <= Above(L, seq[i].day)
    BY <1>2, RankBounds
  <2>. QED  BY <1>2, <2>1, RankBounds
<1>4. ASSUME NEW d \in Int
      PROVE  Cardinality({i \in 1..n : seq[i].day = d}) = Cardinality({x \in L : x.day = d})
  <2>. DEFINE a == Above(L, d)  b == AtLeast(L, d)  c == Cardinality({x \in L : x.day = d})
  <2>1. a \in Nat /\ b \in Nat /\ b <= n /\ b = a + c
    BY RankBounds
  <2>2. c \in Nat
    BY <1>1, FS_Subset, FS_CardinalityType
  <2>3. \A i \in 1..n : seq[i].day = d <=> i \in (a + 1)..b
    <3>. SUFFICES ASSUME NEW i \in 1..n, i \in (a + 1)..b, seq[i].day # d PROVE FALSE
      BY <1>1, <1>2, <2>1
    <3>1. CASE d < seq[i].day
      <4>1. AtLeast(L, seq[i].day) <= a
        BY <1>2, <3>1, RankBounds
      <4>2. AtLeast(L, seq[i].day) \in Nat /\ i <= AtLeast(L, seq[i].day)
        BY <1>2, RankBounds
      <4>. HIDE DEF a, b
      <4>. QED  BY <2>1, <4>1, <4>2
    <3>2. CASE seq[i].day < d
      <4>1. b <= Above(L, seq[i].day)
        BY <1>2, <3>2, RankBounds
      <4>2. Above(L, seq[i].day) \in Nat /\ Above(L, seq[i].day) < i
        BY <1>2, RankBounds
      <4>. HIDE DEF a, b
      <4>. QED  BY <2>1, <4>1, <4>2
    <3>. QED  BY <1>2, <3>1, <3>2
  <2>4. {i \in 1..n : seq[i].day = d} = (a + 1)..b
    <3>1. (a + 1)..b \subseteq 1..n
      <4>1. a \in Nat /\ b \in Nat /\ n \in Nat /\ b <= n
        BY <1>1, <2>1
      <4>. HIDE DEF a, b, n
      <4>. QED  BY <4>1
    <3>. QED  BY <2>3, <3>1
  <2>5. Cardinality((a + 1)..b) = c
    <3>1. a + 1 \in Int /\ b \in Int
      BY <2>1
    <3>2. Cardinality((a + 1)..b) = IF a + 1 > b THEN 0 ELSE b - (a + 1) + 1
      BY <3>1, FS_Interval
    <3>. HIDE DEF a, b, c
    <3>. QED  BY <2>1, <2>2, <3>2
  <2>. QED  BY <2>4, <2>5
<1>. QED  BY <1>1, <1>3, <1>4
-----------------------------------------------------------------------------
(* The invariant.                                                          *)

\* The results in the scope of a section, or of the housing.
Scope(s) == {x \in results : x.day \in view.days /\ s \in {SectionOf[x.place], None}}

InPlan(rows) == {x \in rows : x.plan}

\* What the dashboard has to show of them.
Figures(s) ==
  [total   |-> Cardinality(Scope(s)),
   planned |-> Cardinality(InPlan(Scope(s))),
   done    |-> Cardinality(With(InPlan(Scope(s)), {"done_full", "done_over"})),
   silent  |-> Cardinality(With(InPlan(Scope(s)), {"no_report"}))]

\* A summary is there only as long as it counts the day's results.
SumsAreCounts == \A d \in Day : sums[d] # None => sums[d] = CountOf(OnDay(d))

Asked(kinds) == view.quiet /\ view.kind \in kinds

\* A figure that is counted at one of the points, or before, is right after them;
\* the overview counts its total before the others.
Past(points) == IF At("total") THEN view.kind = "sections" ELSE view.at \notin points

GotIsCounted ==
  LET got(figure, past) == view.got[figure] = IF past THEN Figures(view.section)[figure] ELSE 0
  IN  /\ got("total", view.kind = "overview" /\ ~At("total"))
      /\ got("planned", Past({"planned"}))
      /\ got("done", Past({"planned", "done"}))
      /\ got("silent", Past({"planned", "done", "silent"}))

\* The section, or the housing, in hand.
FiguresAreRight ==
  Asked({"overview", "sections"}) =>
    /\ view.at \in {"total", "planned", "done", "silent", "shown"} /\ view.status = None
    /\ ~(view.kind = "sections" /\ At("shown")) => GotIsCounted

\* The sections behind it.
SharesAreRight ==
  Asked({"sections"}) =>
    /\ IF At("shown") THEN view.todo = {} /\ view.section = None
                      ELSE view.section \in Section \ view.todo
    /\ \A s \in Section \ (view.todo \cup {view.section}) : view.shares[s] = Figures(s)

\* A user who goes through the pages has seen so many rows of the table, ...
PagesAreRight ==
  Asked({"results", "summaries"}) =>
    /\ view.at \in {"options", "choose", "page", "count", "shown"} /\ view.section = None
    /\ At("options") \/ At("choose") => view.page = 1 /\ view.seen = <<>>
    /\ At("page") => /\ Len(view.seen) = (view.page - 1) * PerPage
                     /\ Len(view.seen) <= Cardinality(Listed)
    /\ At("count") => Len(view.seen) = IF HasNext(Cardinality(Listed)) THEN view.page * PerPage
                                       ELSE Cardinality(Listed)
    /\ At("shown") => Len(view.seen) = Cardinality(Listed)
    /\ Ranked(Listed, view.seen)

\* ... and was offered what the results in scope have.
OffersAreRight ==
  Asked({"results"}) =>
    /\ At("options") \/ At("choose") => view.status = None
    /\ ~At("options") => /\ view.offered = {x.status : x \in Scope(None)}
                         /\ view.status \in view.offered \cup {None}

Inv ==
  /\ TypeOK /\ IsFiniteSet(results) /\ SumsAreCounts
  /\ FiguresAreRight /\ SharesAreRight /\ PagesAreRight /\ OffersAreRight

-----------------------------------------------------------------------------
(* The rows a request sees.                                                *)

\* Subsets of the results can be counted.
LEMMA Countable ==
  ASSUME IsFiniteSet(results), NEW S \in SUBSET results
  PROVE  IsFiniteSet(S) /\ Cardinality(S) \in Nat
BY FS_Subset, FS_CardinalityType

LEMMA FiguresTyped == ASSUME IsFiniteSet(results), NEW s PROVE Figures(s) \in Answer
<1>1. Scope(s) \subseteq results
  BY DEF Scope
<1>. QED  BY <1>1, Countable DEF Figures, Answer, InPlan, With

LEMMA SameFigures ==
  ASSUME UNCHANGED results, view'.days = view.days, NEW s
  PROVE  Scope(s)' = Scope(s) /\ Figures(s)' = Figures(s)
BY DEF Scope, Figures

\* What a statement without a status filters is the scope of its section.
LEMMA FilteredIsScope ==
  ASSUME view.status = None
  PROVE  Filtered = Scope(view.section) /\ Planned = InPlan(Scope(view.section))
BY DEF Filtered, Scope, Planned, InPlan

LEMMA ResultsHaveDays ==
  ASSUME TypeOK, NEW x \in results
  PROVE  /\ x.day \in Day /\ x.day \in Int
         /\ x.place \in Place /\ SectionOf[x.place] \in Section /\ x.status \in Status
BY DayAssumption, PlaceAssumption, OutcomeAssumption DEF TypeOK, Result

\* The summaries of some days are so many rows.
LEMMA DayRows ==
  ASSUME NEW D \in SUBSET Day, NEW L, L = {[day |-> d] : d \in D}
  PROVE  DatedRows(L) /\ L \subseteq [day : Day] /\ Cardinality(L) \in Nat
<1>1. IsFiniteSet(D)
  BY SizeAssumption, FS_Subset
<1>2. [d \in D |-> [day |-> d]] \in Surjection(D, L)
  BY DEF Surjection
<1>3. IsFiniteSet(L) /\ Cardinality(L) \in Nat
  BY <1>1, <1>2, FS_Surjection, FS_CardinalityType
<1>4. \A x \in L : x \in [day : Day] /\ x.day \in Int
  <2>. SUFFICES ASSUME NEW d \in D PROVE [day |-> d] \in [day : Day] /\ [day |-> d].day \in Int
    OBVIOUS
  <2>1. d \in Day /\ d \in Int /\ [day |-> d].day = d
    BY DayAssumption
  <2>. QED  BY <2>1
<1>. QED  BY <1>3, <1>4 DEF DatedRows

\* A table is finite, and its rows have days.
LEMMA ListedIsDated ==
  ASSUME TypeOK, IsFiniteSet(results)
  PROVE  DatedRows(Listed) /\ Listed \subseteq Result \cup [day : Day]
<1>1. CASE view.kind = "results"
  <2>1. Listed = Filtered /\ Filtered \subseteq results
    BY <1>1 DEF Listed, Filtered
  <2>. QED  BY <2>1, Countable, ResultsHaveDays DEF DatedRows, TypeOK
<1>2. CASE view.kind # "results"
  <2>. DEFINE D == {d \in view.days : sums[d] # None}
  <2>1. D \in SUBSET Day
    BY DEF TypeOK, View
  <2>2. Listed = {[day |-> d] : d \in D}
    BY <1>2 DEF Listed
  <2>. HIDE DEF D
  <2>. QED  BY <2>1, <2>2, DayRows
<1>. QED  BY <1>1, <1>2

LEMMA SameListed ==
  ASSUME UNCHANGED <<results, sums>>, view'.days = view.days, view'.kind = view.kind,
         view'.section = view.section, view'.status = view.status
  PROVE  Listed' = Listed
BY DEF Listed, Filtered

-----------------------------------------------------------------------------
(* The types.                                                              *)

\* What a rebuilt day has.
Row(d, x, f)  == [day |-> d, place |-> x, plan |-> f[x] # "unplanned", status |-> f[x]]
Rows(d, P, f) == {Row(d, x, f) : x \in P}

LEMMA RowsOfDay ==
  ASSUME NEW d \in Day, NEW P \in SUBSET Place, NEW f \in [P -> Outcomes]
  PROVE  /\ Rows(d, P, f) \subseteq Result /\ IsFiniteSet(Rows(d, P, f))
         /\ \A x \in Rows(d, P, f) : x.day = d
<1>1. ASSUME NEW x \in P PROVE Row(d, x, f) \in Result /\ Row(d, x, f).day = d
  <2>1. PICK b \in BOOLEAN : b = (f[x] # "unplanned")
    OBVIOUS
  <2>2. Row(d, x, f) = [day |-> d, place |-> x, plan |-> b, status |-> f[x]]
    BY <2>1 DEF Row
  <2>3. Row(d, x, f) \in [day : Day, place : Place, plan : BOOLEAN, status : Outcomes]
    BY <2>2
  <2>4. Row(d, x, f).plan = b /\ Row(d, x, f).status = f[x] /\ Row(d, x, f).day = d
    BY <2>2
  <2>. QED  BY <2>1, <2>3, <2>4 DEF Result
<1>2. IsFiniteSet(P)
  BY SizeAssumption, FS_Subset
<1>3. [x \in P |-> Row(d, x, f)] \in Surjection(P, Rows(d, P, f))
  BY DEF Surjection, Rows
<1>. QED  BY <1>1, <1>2, <1>3, FS_Surjection DEF Rows

LEMMA CountTyped ==
  ASSUME NEW rows, IsFiniteSet(rows)
  PROVE  CountOf(rows) \in Count
<1>1. \A S \in SUBSET rows : Cardinality(S) \in Nat
  BY FS_Subset, FS_CardinalityType
<1>. QED  BY <1>1 DEF CountOf, Count, With

\* The rows stay countable and the summaries right.
LEMMA TablesTyped ==
  ASSUME Inv, [Next]_vars
  PROVE  /\ results' \subseteq Result /\ IsFiniteSet(results')
         /\ sums' \in [Day -> Count \cup {None}] /\ rebuilds' \in 0..MaxRebuilds
         /\ SumsAreCounts'
<1>. TypeOK /\ IsFiniteSet(results) /\ SumsAreCounts
  BY DEF Inv
<1>1. CASE UNCHANGED <<results, sums, rebuilds>>
  BY <1>1 DEF TypeOK, SumsAreCounts, OnDay
<1>2. ASSUME NEW d \in Day, Summarise(d)
      PROVE  /\ results' = results /\ rebuilds' = rebuilds
             /\ sums' \in [Day -> Count \cup {None}] /\ SumsAreCounts'
  <2>1. CountOf(OnDay(d)) \in Count
    BY Countable, CountTyped DEF OnDay
  <2>. QED  BY <1>2, <2>1 DEF Summarise, TypeOK, SumsAreCounts, OnDay
<1>3. ASSUME NEW d \in Day, NEW P \in SUBSET Place, NEW f \in [P -> Outcomes],
             Rebuild(d, Rows(d, P, f))
      PROVE  /\ results' \subseteq Result /\ IsFiniteSet(results')
             /\ sums' \in [Day -> Count \cup {None}] /\ rebuilds' \in 0..MaxRebuilds
             /\ SumsAreCounts'
  <2>. DEFINE rows == Rows(d, P, f)
  <2>1. rows \subseteq Result /\ IsFiniteSet(rows) /\ \A x \in rows : x.day = d
    BY RowsOfDay
  <2>0. Rebuild(d, rows)
    BY <1>3
  <2>. HIDE DEF rows
  <2>2. results' = (results \ OnDay(d)) \cup rows
    BY <2>0 DEF Rebuild
  <2>3. IsFiniteSet(results \ OnDay(d))
    BY Countable
  <2>4. results' \subseteq Result /\ IsFiniteSet(results')
    BY <2>1, <2>2, <2>3, FS_Union DEF TypeOK
  <2>5. CountOf({}) \in Count
    BY CountTyped, FS_EmptySet
  <2>6. sums' = [sums EXCEPT ![d] = IF rows = {} THEN CountOf({}) ELSE None]
    BY <2>0 DEF Rebuild
  <2>7. sums' \in [Day -> Count \cup {None}]
    BY <2>5, <2>6 DEF TypeOK
  <2>8. rebuilds' \in 0..MaxRebuilds
    BY <2>0, PageAssumption DEF Rebuild, TypeOK
  <2>9. ASSUME NEW e \in Day, sums'[e] # None PROVE sums'[e] = CountOf(OnDay(e)')
    <3>1. CASE e = d
      <4>1. rows = {} /\ sums'[d] = CountOf({})
        BY <2>6, <2>9, <3>1 DEF TypeOK
      <4>2. OnDay(d)' = {}
        BY <2>2, <4>1 DEF OnDay
      <4>. QED  BY <3>1, <4>1, <4>2
    <3>2. CASE e # d
      <4>1. sums'[e] = sums[e]
        BY <2>6, <3>2 DEF TypeOK
      <4>2. OnDay(e)' = OnDay(e)
        BY <2>1, <2>2, <3>2 DEF OnDay
      <4>. QED  BY <2>9, <4>1, <4>2 DEF SumsAreCounts
    <3>. QED  BY <3>1, <3>2
  <2>10. SumsAreCounts'
    BY <2>9 DEF SumsAreCounts
  <2>. QED  BY <2>4, <2>7, <2>8, <2>10
<1>4. CASE UNCHANGED vars
  BY <1>1, <1>4 DEF vars
<1>5. CASE Next
  <2>1. CASE Request /\ UNCHANGED <<results, sums, rebuilds>>
    BY <1>1, <2>1
  <2>2. CASE \E d \in Day : Summarise(d)
    BY <1>2, <2>2 DEF TypeOK
  <2>3. CASE \E d \in Day, P \in SUBSET Place : \E f \in [P -> Outcomes] :
               Rebuild(d, Rows(d, P, f))
    BY <1>3, <2>3
  <2>. QED  BY <1>5, <2>1, <2>2, <2>3 DEF Next, Rows, Row
<1>. QED  BY <1>4, <1>5

-----------------------------------------------------------------------------
(* The dashboard.                                                          *)

ViewInv == /\ view \in View
           /\ FiguresAreRight /\ SharesAreRight /\ PagesAreRight /\ OffersAreRight

Counting == {"total", "planned", "done", "silent"}

\* Of a request that has been disturbed nothing is claimed.
LEMMA NothingAsked == ASSUME view' \in View, ~view'.quiet PROVE ViewInv'
BY DEF ViewInv, FiguresAreRight, SharesAreRight, PagesAreRight, OffersAreRight, Asked

LEMMA ClosedTyped == Closed \in View
<1>1. [s \in Section |-> None] \in [Section -> Answer \cup {None}]
  OBVIOUS
<1>2. NoAnswer \in Answer /\ <<>> \in Seq(Result \cup [day : Day])
  BY DEF NoAnswer, Answer
<1>. QED  BY <1>1, <1>2 DEF Closed, View

\* A request that counts is the dashboard's.
LEMMA CountingIsAsked ==
  ASSUME Inv, view.at \in Counting, view.quiet, view.kind # "none"
  PROVE  view.kind \in {"overview", "sections"} /\ view.status = None /\ GotIsCounted
<1>1. view.kind \in {"overview", "sections"}
  BY DEF Inv, TypeOK, View, Counting, PagesAreRight, Asked
<1>. QED  BY <1>1 DEF Inv, FiguresAreRight, Asked, At, Counting

\* A figure more, for the same section.
LEMMA CountingStep ==
  ASSUME Inv, UNCHANGED <<results, sums>>, view.at \in Counting,
         NEW at \in Counting \cup {"shown"}, NEW got \in Answer,
         view' = [view EXCEPT !.at = at, !.got = got],
         at = "shown" => view.kind = "overview",
         view.quiet /\ view.kind # "none" => GotIsCounted'
  PROVE  ViewInv'
<1>1. /\ view' \in View
      /\ view'.at = at /\ view'.got = got /\ view'.kind = view.kind /\ view'.quiet = view.quiet
      /\ view'.days = view.days /\ view'.section = view.section /\ view'.status = view.status
      /\ view'.todo = view.todo /\ view'.shares = view.shares
  BY DEF Inv, TypeOK, View, Counting
<1>2. CASE ~view'.quiet \/ view.kind = "none"
  BY <1>1, <1>2, NothingAsked
     DEF ViewInv, FiguresAreRight, SharesAreRight, PagesAreRight, OffersAreRight, Asked
<1>3. CASE view.quiet /\ view.kind # "none"
  <2>1. view.kind \in {"overview", "sections"} /\ view.status = None /\ GotIsCounted'
    BY <1>3, CountingIsAsked
  <2>2. FiguresAreRight'
    BY <1>1, <2>1 DEF FiguresAreRight, Counting, At
  <2>3. SharesAreRight'
    <3>. SUFFICES ASSUME view.kind = "sections" PROVE SharesAreRight'
      BY <1>1 DEF SharesAreRight, Asked
    <3>1. /\ view.section \in Section \ view.todo
          /\ \A s \in Section \ (view.todo \cup {view.section}) : view.shares[s] = Figures(s)
      BY <1>3 DEF Inv, SharesAreRight, Asked, At, Counting
    <3>2. \A s \in Section : Figures(s)' = Figures(s)
      BY <1>1, SameFigures
    <3>. QED  BY <1>1, <3>1, <3>2 DEF SharesAreRight, At, Counting
  <2>4. PagesAreRight' /\ OffersAreRight'
    BY <1>1, <2>1 DEF PagesAreRight, OffersAreRight, Asked
  <2>. QED  BY <1>1, <2>2, <2>3, <2>4 DEF ViewInv
<1>. QED  BY <1>1, <1>2, <1>3

\* Nothing planned: the rates of it are nothing, too.
LEMMA FiguresOfNothing ==
  ASSUME NEW s, InPlan(Scope(s)) = {}
  PROVE  Figures(s).planned = 0 /\ Figures(s).done = 0 /\ Figures(s).silent = 0
BY FS_EmptySet DEF Figures, With

LEMMA RateSteps ==
  ASSUME Inv, UNCHANGED <<results, sums>>, CountPlanned \/ CountDone \/ CountSilent
  PROVE  ViewInv'
<1>. DEFINE F == Figures(view.section)
<1>1. /\ view \in View /\ view.got \in Answer /\ IsFiniteSet(results)
      /\ Planned \subseteq results
  BY DEF Inv, TypeOK, View, Planned, Filtered
<1>2. \A S : Cardinality(With(Planned, S)) \in Nat
  BY <1>1, Countable DEF With
<1>3. Cardinality(Planned) \in Nat
  BY <1>1, Countable
<1>4. view.quiet /\ view.kind # "none" /\ view.at \in Counting =>
        /\ view.kind \in {"overview", "sections"} /\ GotIsCounted
        /\ Planned = InPlan(Scope(view.section))
  BY CountingIsAsked, FilteredIsScope
<1>5. view'.days = view.days /\ view'.section = view.section => Figures(view.section)' = F
  BY SameFigures
<1>6. CASE CountPlanned
  <2>. DEFINE got == [view.got EXCEPT !.planned = Cardinality(Planned)]
  <2>1. got \in Answer
    BY <1>1, <1>3 DEF Answer
  <2>2. PICK at \in {"done", "shown", "total"} :
          /\ view' = [view EXCEPT !.at = at, !.got = got]
          /\ IF Planned = {} THEN at = IF view.kind = "overview" THEN "shown" ELSE "total"
             ELSE at = "done"
    BY <1>1, <1>6 DEF CountPlanned, AfterRates, View
  <2>3. view.at = "planned"
    BY <1>6 DEF CountPlanned, At
  <2>4. ASSUME view.quiet, view.kind # "none" PROVE GotIsCounted'
    <3>1. /\ view'.at = at /\ view'.got = got /\ view'.kind = view.kind
          /\ view'.days = view.days /\ view'.section = view.section
      BY <1>1, <2>2 DEF View
    <3>2. /\ view.got.total = IF view.kind = "overview" THEN F.total ELSE 0
          /\ view.got.done = 0 /\ view.got.silent = 0
      BY <1>4, <2>3, <2>4 DEF GotIsCounted, Past, At, Counting
    <3>3. /\ got.total = view.got.total /\ got.done = 0 /\ got.silent = 0
          /\ got.planned = F.planned
      BY <1>1, <1>4, <2>3, <2>4, <3>2 DEF Answer, Figures, Counting
    <3>4. at # "done" => F.done = 0 /\ F.silent = 0
      BY <1>4, <2>2, <2>3, <2>4, FiguresOfNothing DEF Counting
    <3>5. Figures(view.section)' = F
      BY <1>5, <3>1
    <3>6. view.kind \in {"overview", "sections"}
      BY <1>4, <2>3, <2>4 DEF Counting
    <3>. HIDE DEF F, got
    <3>. QED  BY <2>2, <3>1, <3>2, <3>3, <3>4, <3>5, <3>6 DEF GotIsCounted, Past, At
  <2>. HIDE DEF got
  <2>. QED  BY <2>1, <2>2, <2>3, <2>4, CountingStep DEF Counting
<1>7. CASE CountDone
  <2>. DEFINE got == [view.got EXCEPT !.done = Cardinality(With(Planned, {"done_full", "done_over"}))]
  <2>1. got \in Answer
    BY <1>1, <1>2 DEF Answer
  <2>2. view' = [view EXCEPT !.at = "silent", !.got = got] /\ view.at = "done"
    BY <1>1, <1>7 DEF CountDone, View, At
  <2>3. ASSUME view.quiet, view.kind # "none" PROVE GotIsCounted'
    <3>1. /\ view'.at = "silent" /\ view'.got = got /\ view'.kind = view.kind
          /\ view'.days = view.days /\ view'.section = view.section
      BY <1>1, <2>2 DEF View
    <3>2. /\ view.got.total = IF view.kind = "overview" THEN F.total ELSE 0
          /\ view.got.planned = F.planned /\ view.got.silent = 0
      BY <1>4, <2>2, <2>3 DEF GotIsCounted, Past, At, Counting
    <3>3. /\ got.total = view.got.total /\ got.planned = F.planned /\ got.silent = 0
          /\ got.done = F.done
      BY <1>1, <1>4, <2>2, <2>3, <3>2 DEF Answer, Figures, Counting
    <3>4. Figures(view.section)' = F
      BY <1>5, <3>1
    <3>. HIDE DEF F, got
    <3>. QED  BY <3>1, <3>2, <3>3, <3>4 DEF GotIsCounted, Past, At
  <2>. HIDE DEF got
  <2>. QED  BY <2>1, <2>2, <2>3, CountingStep DEF Counting
<1>8. CASE CountSilent
  <2>. DEFINE got == [view.got EXCEPT !.silent = Cardinality(With(Planned, {"no_report"}))]
  <2>1. got \in Answer
    BY <1>1, <1>2 DEF Answer
  <2>2. PICK at \in {"shown", "total"} :
          /\ view' = [view EXCEPT !.at = at, !.got = got]
          /\ at = IF view.kind = "overview" THEN "shown" ELSE "total"
    BY <1>1, <1>8 DEF CountSilent, AfterRates, View
  <2>3. view.at = "silent"
    BY <1>8 DEF CountSilent, At
  <2>4. ASSUME view.quiet, view.kind # "none" PROVE GotIsCounted'
    <3>1. /\ view'.at = at /\ view'.got = got /\ view'.kind = view.kind
          /\ view'.days = view.days /\ view'.section = view.section
      BY <1>1, <2>2 DEF View
    <3>2. /\ view.got.total = IF view.kind = "overview" THEN F.total ELSE 0
          /\ view.got.planned = F.planned /\ view.got.done = F.done
      BY <1>4, <2>3, <2>4 DEF GotIsCounted, Past, At, Counting
    <3>3. /\ got.total = view.got.total /\ got.planned = F.planned /\ got.done = F.done
          /\ got.silent = F.silent
      BY <1>1, <1>4, <2>3, <2>4, <3>2 DEF Answer, Figures, Counting
    <3>4. Figures(view.section)' = F
      BY <1>5, <3>1
    <3>5. view.kind \in {"overview", "sections"}
      BY <1>4, <2>3, <2>4 DEF Counting
    <3>. HIDE DEF F, got
    <3>. QED  BY <2>2, <3>1, <3>2, <3>3, <3>4, <3>5 DEF GotIsCounted, Past, At
  <2>. HIDE DEF got
  <2>. QED  BY <2>1, <2>2, <2>3, <2>4, CountingStep DEF Counting
<1>. QED  BY <1>6, <1>7, <1>8

\* The total: the overview's first figure, and the last of a section.
LEMMA TotalStep ==
  ASSUME Inv, UNCHANGED <<results, sums>>, CountTotal
  PROVE  ViewInv'
<1>. DEFINE F == Figures(view.section)
            got == [view.got EXCEPT !.total = Cardinality(Filtered)]
<1>1. view \in View /\ view.got \in Answer /\ IsFiniteSet(results) /\ view.at = "total"
  BY DEF Inv, TypeOK, View, CountTotal, At
<1>2. Cardinality(Filtered) \in Nat
  BY <1>1, Countable DEF Filtered
<1>3. got \in Answer
  BY <1>1, <1>2 DEF Answer
<1>4. view.quiet /\ view.kind # "none" =>
        /\ view.kind \in {"overview", "sections"} /\ GotIsCounted
        /\ Filtered = Scope(view.section)
  BY <1>1, CountingIsAsked, FilteredIsScope DEF Counting
<1>5. view.quiet /\ view.kind # "none" =>
        /\ got.total = F.total
        /\ got.planned = IF view.kind = "sections" THEN F.planned ELSE 0
        /\ got.done = IF view.kind = "sections" THEN F.done ELSE 0
        /\ got.silent = IF view.kind = "sections" THEN F.silent ELSE 0
  BY <1>1, <1>4 DEF GotIsCounted, Past, At, Answer, Figures
<1>6. CASE view.kind = "overview"
  <2>1. view' = [view EXCEPT !.at = "planned", !.got = got]
    BY <1>1, <1>6 DEF CountTotal, View
  <2>2. ASSUME view.quiet, view.kind # "none" PROVE GotIsCounted'
    <3>1. /\ view'.at = "planned" /\ view'.got = got /\ view'.kind = view.kind
          /\ view'.days = view.days /\ view'.section = view.section
      BY <1>1, <2>1 DEF View
    <3>2. Figures(view.section)' = F
      BY <3>1, SameFigures
    <3>3. /\ got.total = F.total /\ got.planned = 0 /\ got.done = 0 /\ got.silent = 0
      BY <1>5, <1>6, <2>2
    <3>. HIDE DEF F, got
    <3>. QED  BY <1>6, <3>1, <3>2, <3>3 DEF GotIsCounted, Past, At
  <2>. HIDE DEF got
  <2>. QED  BY <1>1, <1>3, <2>1, <2>2, CountingStep DEF Counting
<1>7. CASE view.kind # "overview"
  <2>. DEFINE v == [view EXCEPT !.got = got]
              shares == [view.shares EXCEPT ![view.section] = got]
  <2>1. view' \in NextSection(v)
    BY <1>1, <1>7 DEF CountTotal, View, At
  <2>2. NoAnswer \in Answer /\ shares \in [Section -> Answer \cup {None}]
    BY <1>1, <1>3 DEF NoAnswer, Answer, View
  <2>. DEFINE w == [view EXCEPT !.shares = shares, !.got = NoAnswer]
  <2>3. /\ w \in View /\ w.shares = shares /\ w.got = NoAnswer
        /\ w.kind = view.kind /\ w.days = view.days /\ w.quiet = view.quiet /\ w.status = view.status /\ w.todo = view.todo
    BY <1>1, <2>2 DEF View
  <2>4. view' \in IF w.todo = {} THEN {[w EXCEPT !.at = "shown", !.section = None]}
                  ELSE {[w EXCEPT !.at = "planned", !.section = s, !.todo = @ \ {s}] : s \in w.todo}
    <3>1. v.todo = view.todo /\ v.section = view.section /\ v.got = got /\ v.shares = view.shares
      BY <1>1 DEF View
    <3>2. [v EXCEPT !.shares[v.section] = v.got, !.got = NoAnswer] = w
      BY <1>1, <3>1 DEF View
    <3>3. w.todo = view.todo
      BY <1>1 DEF View
    <3>. HIDE DEF v, w
    <3>. QED  BY <2>1, <3>1, <3>2, <3>3 DEF NextSection
  <2>. HIDE DEF v, shares, got, w
  <2>5. /\ view' \in View
        /\ view'.shares = shares /\ view'.got = NoAnswer /\ view'.kind = view.kind
        /\ view'.days = view.days /\ view'.quiet = view.quiet /\ view'.status = view.status
        /\ \/ view.todo = {} /\ view'.at = "shown" /\ view'.section = None /\ view'.todo = {}
           \/ /\ view'.at = "planned" /\ view'.section \in view.todo
              /\ view'.todo = view.todo \ {view'.section}
    <3>1. CASE w.todo = {}
      <4>1. view' = [w EXCEPT !.at = "shown", !.section = None]
        BY <2>4, <3>1
      <4>. QED  BY <2>3, <3>1, <4>1 DEF View
    <3>2. CASE w.todo # {}
      <4>1. PICK s \in w.todo : view' = [w EXCEPT !.at = "planned", !.section = s, !.todo = @ \ {s}]
        BY <2>4, <3>2
      <4>. QED  BY <2>3, <3>2, <4>1 DEF View
    <3>. QED  BY <3>1, <3>2
  <2>6. CASE ~(view.quiet /\ view.kind # "none")
    BY <2>5, <2>6, NothingAsked
       DEF ViewInv, FiguresAreRight, SharesAreRight, PagesAreRight, OffersAreRight, Asked
  <2>7. CASE view.quiet /\ view.kind # "none"
    <3>1. view.kind = "sections" /\ view.status = None
      BY <1>1, <1>4, <1>7, <2>7, CountingIsAsked DEF Counting
    <3>2. FiguresAreRight'
      <4>. SUFFICES ASSUME view'.at = "planned" PROVE GotIsCounted'
        BY <2>5, <3>1 DEF FiguresAreRight, At
      <4>. QED  BY <2>5, <3>1 DEF GotIsCounted, Past, At, NoAnswer
    <3>3. /\ view.section \in Section \ view.todo /\ view.todo \subseteq Section
          /\ \A s \in Section \ (view.todo \cup {view.section}) : view.shares[s] = Figures(s)
      BY <1>1, <2>7, <3>1 DEF Inv, SharesAreRight, Asked, At, View
    <3>4. got = F
      <4>1. F \in Answer
        BY <1>1, FiguresTyped
      <4>2. got.total = F.total /\ got.planned = F.planned /\ got.done = F.done /\ got.silent = F.silent
        BY <1>5, <2>7, <3>1
      <4>. HIDE DEF F
      <4>. QED  BY <1>3, <4>1, <4>2 DEF Answer
    <3>5. \A s \in Section : Figures(s)' = Figures(s)
      BY <2>5, SameFigures
    <3>6. \A s \in Section \ view.todo : shares[s] = Figures(s)
      BY <1>1, <3>3, <3>4 DEF shares, View
    <3>7. None \notin Section
      BY NoneAssumption
    <3>8. SharesAreRight'
      <4>1. \A s \in Section \ (view'.todo \cup {view'.section}) : s \notin view.todo
        BY <2>5
      <4>2. \A s \in Section \ (view'.todo \cup {view'.section}) : view'.shares[s] = Figures(s)'
        BY <2>5, <3>5, <3>6, <4>1
      <4>3. IF view'.at = "shown" THEN view'.todo = {} /\ view'.section = None
            ELSE view'.section \in Section \ view'.todo
        BY <2>5, <3>3
      <4>. QED  BY <4>2, <4>3 DEF SharesAreRight, At
    <3>9. PagesAreRight' /\ OffersAreRight'
      BY <2>5, <3>1 DEF PagesAreRight, OffersAreRight, Asked
    <3>. QED  BY <2>5, <3>2, <3>8, <3>9 DEF ViewInv
  <2>. QED  BY <2>6, <2>7
<1>. QED  BY <1>6, <1>7

-----------------------------------------------------------------------------
(* The tables.                                                             *)

\* A user asks, and has seen nothing yet.
LEMMA AskSteps ==
  ASSUME Inv, UNCHANGED <<results, sums>>, NEW a \in Day, NEW b \in Day,
         \/ \E s \in Section \cup {None} : AskOverview(a, b, s)
         \/ AskSections(a, b) \/ AskResults(a, b) \/ AskSummaries(a, b)
  PROVE  ViewInv'
<1>1. Closed \in View /\ Days(a, b) \subseteq Day
  BY ClosedTyped DEF Days
<1>2. ASSUME NEW s \in Section \cup {None}, AskOverview(a, b, s) PROVE ViewInv'
  <2>1. /\ view' \in View
        /\ view'.kind = "overview" /\ view'.at = "total" /\ view'.got = NoAnswer /\ view'.status = None
    BY <1>1, <1>2 DEF AskOverview, View, Closed
  <2>2. FiguresAreRight'
    BY <2>1 DEF FiguresAreRight, GotIsCounted, Past, At, NoAnswer
  <2>. QED  BY <2>1, <2>2 DEF ViewInv, SharesAreRight, PagesAreRight, OffersAreRight, Asked
<1>3. CASE AskSections(a, b)
  <2>1. PICK s \in Section :
          view' = [Closed EXCEPT !.at = "planned", !.kind = "sections", !.days = Days(a, b),
                                 !.section = s, !.todo = Section \ {s}, !.quiet = TRUE]
    BY <1>3 DEF AskSections
  <2>2. /\ view' \in View
        /\ view'.kind = "sections" /\ view'.at = "planned" /\ view'.got = NoAnswer /\ view'.status = None
        /\ view'.section = s /\ view'.todo = Section \ {s}
    BY <1>1, <2>1 DEF View, Closed
  <2>3. FiguresAreRight'
    BY <2>2 DEF FiguresAreRight, GotIsCounted, Past, At, NoAnswer
  <2>4. SharesAreRight'
    BY <2>2 DEF SharesAreRight, At
  <2>. QED  BY <2>2, <2>3, <2>4 DEF ViewInv, PagesAreRight, OffersAreRight, Asked
<1>4. CASE AskResults(a, b) \/ AskSummaries(a, b)
  <2>1. /\ view' \in View /\ view'.kind \in {"results", "summaries"}
        /\ view'.at = IF view'.kind = "results" THEN "options" ELSE "page"
        /\ view'.status = None /\ view'.section = None /\ view'.page = 1 /\ view'.seen = <<>>
    <3>1. Closed.status = None /\ Closed.section = None /\ Closed.seen = <<>> /\ Closed.page = 1
      BY DEF Closed
    <3>2. CASE AskResults(a, b)
      <4>1. view' = [Closed EXCEPT !.at = "options", !.kind = "results",
                                   !.days = Days(a, b), !.quiet = TRUE]
        BY <3>2 DEF AskResults
      <4>. QED  BY <1>1, <3>1, <4>1 DEF View
    <3>3. CASE AskSummaries(a, b)
      <4>1. view' = [Closed EXCEPT !.at = "page", !.kind = "summaries",
                                   !.days = Days(a, b), !.quiet = TRUE]
        BY <3>3 DEF AskSummaries
      <4>. QED  BY <1>1, <3>1, <4>1 DEF View
    <3>. QED  BY <1>4, <3>2, <3>3
  <2>2. (view'.page - 1) * PerPage = 0
    BY <2>1, PageAssumption
  <2>3. view'.kind = "summaries" => Cardinality(Listed)' \in Nat
    <3>. DEFINE D == {d \in view'.days : sums[d] # None}
    <3>1. D \in SUBSET Day
      BY <2>1 DEF View
    <3>2. view'.kind = "summaries" => Listed' = {[day |-> d] : d \in D}
      BY DEF Listed
    <3>. HIDE DEF D
    <3>. QED  BY <3>1, <3>2, DayRows
  <2>4. PagesAreRight'
    BY <2>1, <2>2, <2>3 DEF PagesAreRight, Asked, At, Ranked
  <2>. QED  BY <2>1, <2>4 DEF ViewInv, FiguresAreRight, SharesAreRight, OffersAreRight, Asked, At
<1>. QED  BY <1>2, <1>3, <1>4

Paging == {"options", "choose", "page", "count"}

\* A request that turns pages is not the dashboard's.
LEMMA PagingIsAsked ==
  ASSUME Inv, view.at \in Paging
  PROVE  view.quiet => view.kind \notin {"overview", "sections"}
BY DEF Inv, FiguresAreRight, Asked, Paging

\* A step of a walk through the pages: the rows that were seen are in their places,
\* so many of them, and the filter is one of those that were offered.
LEMMA PagingStep ==
  ASSUME Inv, view.at \in Paging, view' \in View, view'.kind = view.kind, view'.quiet = view.quiet,
         Asked({"results", "summaries"}) => PagesAreRight', Asked({"results"}) => OffersAreRight'
  PROVE  ViewInv'
BY PagingIsAsked DEF ViewInv, FiguresAreRight, SharesAreRight, PagesAreRight, OffersAreRight, Asked

\* The filters are those of the rows in scope.
LEMMA OfferSteps ==
  ASSUME Inv, UNCHANGED <<results, sums>>, NEW st \in Status \cup {None}, Offer \/ Choose(st)
  PROVE  ViewInv'
<1>1. view \in View /\ TypeOK /\ IsFiniteSet(results)
  BY DEF Inv, TypeOK
<1>2. CASE Offer
  <2>. DEFINE offered == {x.status : x \in Filtered}
  <2>1. view' = [view EXCEPT !.offered = offered, !.at = "choose"] /\ view.at = "options"
    BY <1>2 DEF Offer, At
  <2>2. offered \subseteq Status
    BY <1>1, ResultsHaveDays DEF Filtered
  <2>3. /\ view' \in View /\ view'.at = "choose" /\ view'.offered = offered
        /\ view'.kind = view.kind /\ view'.quiet = view.quiet /\ view'.days = view.days
        /\ view'.section = view.section /\ view'.status = view.status
        /\ view'.page = view.page /\ view'.seen = view.seen
    <3>. HIDE DEF offered
    <3>. QED  BY <1>1, <2>1, <2>2 DEF View
  <2>4. Listed' = Listed
    BY <2>3, SameListed
  <2>5. Asked({"results", "summaries"}) => PagesAreRight'
    BY <2>1, <2>3, <2>4 DEF Inv, PagesAreRight, Asked, At, Ranked
  <2>6. ASSUME Asked({"results"}) PROVE OffersAreRight'
    <3>1. view.status = None /\ view.section = None
      BY <2>1, <2>6 DEF Inv, PagesAreRight, OffersAreRight, Asked, At
    <3>2. Filtered = Scope(None)
      BY <3>1, FilteredIsScope
    <3>3. Scope(None)' = Scope(None)
      BY <2>3, SameFigures
    <3>4. view'.offered = {x.status : x \in Scope(None)'} /\ view'.status = None
      BY <2>3, <3>1, <3>2, <3>3
    <3>. QED  BY <3>4 DEF OffersAreRight
  <2>. QED  BY <1>1, <2>1, <2>3, <2>5, <2>6, PagingStep DEF Paging
<1>3. CASE Choose(st)
  <2>1. /\ view' = [view EXCEPT !.status = st, !.at = "page"] /\ view.at = "choose"
        /\ st \in view.offered \cup {None}
    BY <1>3 DEF Choose, At
  <2>2. /\ view' \in View /\ view'.at = "page" /\ view'.status = st /\ view'.offered = view.offered
        /\ view'.kind = view.kind /\ view'.quiet = view.quiet /\ view'.days = view.days
        /\ view'.section = view.section /\ view'.page = view.page /\ view'.seen = view.seen
    BY <1>1, <2>1 DEF View
  <2>3. ASSUME Asked({"results", "summaries"}) PROVE PagesAreRight'
    <3>1. view.section = None /\ view.page = 1 /\ view.seen = <<>>
      BY <2>1, <2>3 DEF Inv, PagesAreRight, At
    <3>2. Cardinality(Listed)' \in Nat
      <4>1. CASE view.kind = "results"
        <5>1. Listed' \subseteq results
          BY <2>2, <4>1 DEF Listed, Filtered
        <5>. QED  BY <1>1, <5>1, Countable
      <4>2. CASE view.kind # "results"
        <5>1. Listed' = Listed
          BY <2>2, <4>2 DEF Listed
        <5>. QED  BY <1>1, <5>1, ListedIsDated, FS_CardinalityType DEF DatedRows
      <4>. QED  BY <4>1, <4>2
    <3>3. (view'.page - 1) * PerPage = 0
      BY <2>2, <3>1, PageAssumption
    <3>. QED  BY <2>2, <3>1, <3>2, <3>3 DEF PagesAreRight, At, Ranked
  <2>4. ASSUME Asked({"results"}) PROVE OffersAreRight'
    <3>1. view.offered = {x.status : x \in Scope(None)}
      BY <2>1, <2>4 DEF Inv, OffersAreRight, At
    <3>2. Scope(None)' = Scope(None)
      BY <2>2, SameFigures
    <3>. QED  BY <2>1, <2>2, <3>1, <3>2 DEF OffersAreRight, At
  <2>. QED  BY <1>1, <2>1, <2>2, <2>3, <2>4, PagingStep DEF Paging
<1>. QED  BY <1>2, <1>3

\* An order whose first rows are cut off continues what was seen before.
LEMMA NextRows ==
  ASSUME NEW L, DatedRows(L), NEW seen \in Seq(L), Ranked(L, seen), NEW q \in Orders(L),
         NEW b \in Nat, Len(seen) <= b, b <= Cardinality(L)
  PROVE  LET new == seen \o SubSeq(q, Len(seen) + 1, b)
         IN  new \in Seq(L) /\ Len(new) = b /\ Ranked(L, new)
<1>. DEFINE a == Len(seen)  rest == SubSeq(q, a + 1, b)  new == seen \o rest
<1>1. q \in Seq(L) /\ Len(q) = Cardinality(L) /\ Ranked(L, q) /\ a \in Nat
  BY OrderIsRanked
<1>2. rest \in Seq(L) /\ Len(rest) = b - a /\ \A i \in 1..(b - a) : rest[i] = q[a + i]
  <2>1. a + 1 \in 1..(Len(q) + 1) /\ b \in a..Len(q)
    BY <1>1
  <2>2. rest = [i \in 1..(b - a) |-> q[a + i]]
    BY <1>1
  <2>3. \A i \in 1..(b - a) : q[a + i] \in L
    BY <1>1
  <2>. QED  BY <1>1, <2>2, <2>3
<1>. HIDE DEF rest, a
<1>3. new \in Seq(L) /\ Len(new) = a + Len(rest)
  BY <1>2 DEF a
<1>4. \A i \in 1..b : new[i] = IF i <= a THEN seen[i] ELSE q[i]
  BY <1>1, <1>2 DEF a
<1>5. Len(new) = b /\ DOMAIN new = 1..b
  BY <1>1, <1>2, <1>3 DEF a
<1>6. Ranked(L, new)
  <2>. SUFFICES ASSUME NEW i \in 1..b
                PROVE  new[i] \in L /\ Above(L, new[i].day) < i /\ i <= AtLeast(L, new[i].day)
    BY <1>5 DEF Ranked
  <2>1. CASE i <= a
    <3>1. i \in DOMAIN seen /\ new[i] = seen[i]
      BY <1>4, <2>1 DEF a
    <3>. QED  BY <3>1 DEF Ranked
  <2>2. CASE ~(i <= a)
    <3>1. new[i] = q[i]
      BY <1>4, <2>2
    <3>2. i \in DOMAIN q
      <4>1. Len(q) \in Nat /\ DOMAIN q = 1..Len(q)
        BY <1>1
      <4>. HIDE DEF new
      <4>. QED  BY <1>1, <4>1
    <3>. QED  BY <1>1, <3>1, <3>2 DEF Ranked
  <2>. QED  BY <2>1, <2>2
<1>. QED  BY <1>3, <1>5, <1>6 DEF a, rest

LEMMA MinOfTwo == ASSUME NEW i \in Nat, NEW j \in Nat PROVE Min({i, j}) = IF i <= j THEN i ELSE j
<1>. DEFINE m == IF i <= j THEN i ELSE j
<1>1. m \in {i, j} /\ \A y \in {i, j} : m <= y
  OBVIOUS
<1>2. \A x \in {i, j} : (\A y \in {i, j} : x <= y) => x = m
  OBVIOUS
<1>. HIDE DEF m
<1>3. (CHOOSE x \in {i, j} : \A y \in {i, j} : x <= y) = m
  BY <1>1, <1>2
<1>. QED  BY <1>3 DEF Min, m

\* A page is read, or the rows of the table are counted.
LEMMA PageSteps ==
  ASSUME Inv, UNCHANGED <<results, sums>>, ReadPage \/ CountListed
  PROVE  ViewInv'
<1>. DEFINE n == Cardinality(Listed)
            p == view.page
            a == (p - 1) * PerPage
            e == p * PerPage
<1>1. /\ view \in View /\ TypeOK /\ IsFiniteSet(results)
      /\ DatedRows(Listed) /\ Listed \subseteq Result \cup [day : Day]
      /\ n \in Nat /\ p \in Nat \ {0} /\ view.seen \in Seq(Result \cup [day : Day])
  BY ListedIsDated, FS_CardinalityType DEF Inv, TypeOK, View, DatedRows
<1>2. a \in Nat /\ e \in Nat /\ e = a + PerPage /\ PerPage \in Nat
  <2>1. PerPage \in Nat
    BY PageAssumption
  <2>. HIDE DEF p
  <2>. QED  BY <1>1, <2>1
<1>3. /\ Asked({"results", "summaries"}) /\ At("page") =>
           Len(view.seen) = a /\ a <= n
      /\ Asked({"results", "summaries"}) /\ At("count") =>
           Len(view.seen) = IF e < n THEN e ELSE n
      /\ Asked({"results", "summaries"}) => Ranked(Listed, view.seen) /\ view.section = None
  BY DEF Inv, PagesAreRight, HasNext
<1>. HIDE DEF n, a, e
<1>4. CASE ReadPage
  <2>1. PICK q \in Orders(Listed) : view' = [view EXCEPT !.seen = @ \o Page(q), !.at = "count"]
    BY <1>4 DEF ReadPage
  <2>. DEFINE b == IF e <= n THEN e ELSE n
              seen == view.seen \o Page(q)
  <2>2. view.at = "page" /\ q \in Seq(Listed) /\ Len(q) = n
    BY <1>1, <1>4, OrderIsRanked DEF ReadPage, At, n
  <2>3. Page(q) = SubSeq(q, a + 1, b)
    BY <1>1, <1>2, <2>2, MinOfTwo DEF Page, a, e
  <2>4. b \in Nat /\ b <= n
    BY <1>1, <1>2
  <2>. HIDE DEF b
  <2>5. Page(q) \in Seq(Result \cup [day : Day])
    <3>1. ASSUME NEW i \in (a + 1)..b PROVE q[i] \in Result \cup [day : Day]
      <4>1. i \in 1..Len(q)
        BY <1>1, <1>2, <2>2, <2>4
      <4>. QED  BY <1>1, <2>2, <4>1
    <3>2. SubSeq(q, a + 1, b) \in Seq(Result \cup [day : Day])
      BY <1>2, <2>4, <3>1
    <3>. QED  BY <2>3, <3>2
  <2>6. seen \in Seq(Result \cup [day : Day])
    BY <1>1, <2>5
  <2>7. view' = [view EXCEPT !.seen = seen, !.at = "count"]
    BY <2>1
  <2>. HIDE DEF seen
  <2>8. /\ view' \in View /\ view'.at = "count" /\ view'.seen = seen
        /\ view'.kind = view.kind /\ view'.quiet = view.quiet /\ view'.days = view.days
        /\ view'.section = view.section /\ view'.page = view.page
        /\ view'.status = view.status /\ view'.offered = view.offered
    BY <1>1, <2>6, <2>7 DEF View
  <2>9. ASSUME Asked({"results", "summaries"}) PROVE PagesAreRight'
    <3>1. Len(view.seen) = a /\ a <= n /\ Ranked(Listed, view.seen) /\ view.section = None
      BY <1>3, <2>2, <2>9 DEF At
    <3>2. view.seen \in Seq(Listed)
      BY <1>1, <3>1 DEF Ranked
    <3>3. a <= b
      BY <1>1, <1>2, <3>1 DEF b
    <3>4. Len(seen) = b /\ Ranked(Listed, seen)
      <4>1. b <= Cardinality(Listed) /\ Len(view.seen) <= b
        BY <2>4, <3>1, <3>3 DEF n
      <4>2. /\ Len(view.seen \o SubSeq(q, Len(view.seen) + 1, b)) = b
            /\ Ranked(Listed, view.seen \o SubSeq(q, Len(view.seen) + 1, b))
        BY <1>1, <2>4, <3>1, <3>2, <4>1, NextRows
      <4>3. seen = view.seen \o SubSeq(q, Len(view.seen) + 1, b)
        BY <2>3, <3>1 DEF seen
      <4>. QED  BY <4>2, <4>3
    <3>5. Listed' = Listed
      BY <2>8, SameListed
    <3>6. b = IF e < n THEN e ELSE n
      BY <1>1, <1>2 DEF b
    <3>7. Len(view'.seen) = IF view'.page * PerPage < Cardinality(Listed)' THEN view'.page * PerPage
                            ELSE Cardinality(Listed)'
      BY <2>8, <3>4, <3>5, <3>6 DEF n, e
    <3>. QED  BY <2>8, <3>1, <3>4, <3>5, <3>7 DEF PagesAreRight, At, HasNext, Ranked, Above, AtLeast
  <2>10. ASSUME Asked({"results"}) PROVE OffersAreRight'
    BY <2>2, <2>8, <2>10, SameFigures DEF Inv, OffersAreRight, Asked, At
  <2>. QED  BY <1>1, <2>2, <2>8, <2>9, <2>10, PagingStep DEF Paging
<1>5. CASE CountListed
  <2>1. /\ view.at = "count"
        /\ view' = IF e < n THEN [view EXCEPT !.page = @ + 1, !.at = "page"]
                   ELSE [view EXCEPT !.at = "shown"]
    BY <1>5 DEF CountListed, HasNext, At, n, e
  <2>2. /\ view' \in View
        /\ IF e < n THEN view'.at = "page" /\ view'.page = p + 1
           ELSE view'.at = "shown" /\ view'.page = p
        /\ view'.kind = view.kind /\ view'.quiet = view.quiet /\ view'.days = view.days
        /\ view'.section = view.section /\ view'.seen = view.seen
        /\ view'.status = view.status /\ view'.offered = view.offered
    <3>1. CASE e < n
      <4>1. view' = [view EXCEPT !.page = p + 1, !.at = "page"] /\ p + 1 \in Nat \ {0}
        BY <1>1, <2>1, <3>1
      <4>. HIDE DEF p
      <4>. QED  BY <1>1, <3>1, <4>1 DEF View
    <3>2. CASE ~(e < n)
      BY <1>1, <2>1, <3>2 DEF View
    <3>. QED  BY <3>1, <3>2
  <2>3. ASSUME Asked({"results", "summaries"}) PROVE PagesAreRight'
    <3>1. Len(view.seen) = (IF e < n THEN e ELSE n) /\ Ranked(Listed, view.seen) /\ view.section = None
      BY <1>3, <2>1, <2>3 DEF At
    <3>2. Listed' = Listed
      BY <2>2, SameListed
    <3>3. CASE e < n
      <4>0. view'.at = "page" /\ view'.page = p + 1
        BY <2>2, <3>3
      <4>1. (view'.page - 1) * PerPage = e
        <5>1. view'.page - 1 = p
          BY <1>1, <4>0
        <5>. QED  BY <5>1 DEF e
      <4>2. Len(view'.seen) = e /\ e <= n
        BY <1>1, <1>2, <2>2, <3>1, <3>3
      <4>3. n = Cardinality(Listed)'
        BY <3>2 DEF n
      <4>. QED  BY <2>2, <3>1, <3>2, <4>0, <4>1, <4>2, <4>3 DEF PagesAreRight, At, Ranked, Above, AtLeast
    <3>4. CASE ~(e < n)
      <4>1. view'.at = "shown" /\ Len(view'.seen) = Cardinality(Listed)'
        BY <2>2, <3>1, <3>2, <3>4 DEF n
      <4>. QED  BY <2>2, <3>1, <3>2, <4>1 DEF PagesAreRight, At, Ranked, Above, AtLeast
    <3>. QED  BY <3>3, <3>4
  <2>4. ASSUME Asked({"results"}) PROVE OffersAreRight'
    BY <2>1, <2>2, <2>4, SameFigures DEF Inv, OffersAreRight, Asked, At
  <2>. QED  BY <1>1, <2>1, <2>2, <2>3, <2>4, PagingStep DEF Paging
<1>. QED  BY <1>4, <1>5

-----------------------------------------------------------------------------
(* The invariant holds.                                                    *)

LEMMA InvParts == Inv <=> /\ ViewInv /\ SumsAreCounts /\ IsFiniteSet(results)
                          /\ results \subseteq Result /\ sums \in [Day -> Count \cup {None}]
                          /\ rebuilds \in 0..MaxRebuilds
BY DEF Inv, ViewInv, TypeOK

\* A commit disturbs the request; without one it goes on.
LEMMA ViewSteps == ASSUME Inv, [Next]_vars PROVE ViewInv'
<1>1. CASE UNCHANGED vars
  <2>1. view' = view /\ results' = results /\ sums' = sums
    BY <1>1 DEF vars
  <2>2. \A s : Figures(s)' = Figures(s) /\ Scope(s)' = Scope(s)
    BY <2>1, SameFigures
  <2>3. Listed' = Listed
    BY <2>1, SameListed
  <2>. QED  BY <2>1, <2>2, <2>3
            DEF Inv, TypeOK, ViewInv, FiguresAreRight, SharesAreRight, PagesAreRight,
                OffersAreRight, Asked, GotIsCounted, Past, At, HasNext, Ranked, Above, AtLeast
<1>2. CASE view' = Disturbed
  <2>1. view \in View
    BY DEF Inv, TypeOK
  <2>2. view' \in View /\ view'.quiet = FALSE
    BY <1>2, <2>1 DEF Disturbed, View
  <2>. QED  BY <2>2, NothingAsked
<1>3. CASE Close
  <2>1. view' \in View /\ view'.quiet = FALSE
    BY <1>3, ClosedTyped DEF Close, Closed
  <2>. QED  BY <2>1, NothingAsked
<1>4. CASE Request /\ UNCHANGED <<results, sums, rebuilds>>
  <2>1. ASSUME NEW st \in Outcomes \cup {None}, Choose(st) PROVE ViewInv'
    BY <1>4, <2>1, OfferSteps, OutcomeAssumption
  <2>2. CASE Offer
    BY <1>4, <2>2, OfferSteps
  <2>. QED  BY <1>3, <1>4, <2>1, <2>2, AskSteps, RateSteps, TotalStep, PageSteps DEF Request
<1>5. CASE \E d \in Day :
             \/ Summarise(d)
             \/ \E P \in SUBSET Place : \E f \in [P -> Outcomes] : Rebuild(d, Rows(d, P, f))
  BY <1>2, <1>5 DEF Summarise, Rebuild
<1>. QED  BY <1>1, <1>4, <1>5 DEF Next, Rows, Row

LEMMA ScreensStart == Init => Inv
<1>. SUFFICES ASSUME Init PROVE Inv
  OBVIOUS
<1>1. view \in View /\ ~view.quiet
  BY ClosedTyped DEF Init, Closed
<1>2. ViewInv
  BY <1>1 DEF ViewInv, FiguresAreRight, SharesAreRight, PagesAreRight, OffersAreRight, Asked
<1>3. results \subseteq Result /\ IsFiniteSet(results) /\ rebuilds \in 0..MaxRebuilds
  BY FS_EmptySet, PageAssumption DEF Init
<1>4. sums \in [Day -> Count \cup {None}] /\ SumsAreCounts
  BY DEF Init, SumsAreCounts
<1>. QED  BY <1>2, <1>3, <1>4, InvParts

\* Rows and figures have their types, summaries count their day's results, and a
\* request that nothing disturbs has shown what is there.
THEOREM ScreensInvariance == Spec => []Inv
<1>1. Inv /\ [Next]_vars => Inv'
  <2>. SUFFICES ASSUME Inv, [Next]_vars PROVE Inv'
    OBVIOUS
  <2>1. ViewInv'
    BY ViewSteps
  <2>. QED  BY <2>1, TablesTyped DEF Inv, ViewInv, TypeOK
<1>. QED  BY <1>1, ScreensStart, PTL DEF Spec

\* Screens' types (TypeOK).
THEOREM ScreensTyped == Spec => []TypeOK
<1>1. Inv => TypeOK
  BY DEF Inv
<1>. QED  BY <1>1, ScreensInvariance, PTL

-----------------------------------------------------------------------------
(* The dashboard is right.                                                 *)

\* The rows of a day, of several days, and of a section.
OfDay(R, d)     == {x \in R : x.day = d}
OfDays(R, D)    == {x \in R : x.day \in D}
OfSection(R, s) == {x \in R : SectionOf[x.place] = s}

\* A column of the summaries counts some of the results, day by day.
LEMMA SummedIsCounted ==
  ASSUME Inv, Summarised, NEW column, NEW R \in SUBSET results,
         \A d \in Day : CountOf(OnDay(d))[column] = Cardinality(OfDay(R, d))
  PROVE  Summed(column) = Cardinality(OfDays(R, view.days))
<1>. DEFINE D == {d \in view.days : sums[d] # None}
            f == [d \in Day |-> sums[d][column]]
            k == [x \in R |-> x.day]
<1>1. /\ TypeOK /\ IsFiniteSet(results) /\ SumsAreCounts /\ view.days \subseteq Day
      /\ IsFiniteSet(R) /\ IsFiniteSet(D)
  BY Countable, SizeAssumption, FS_Subset DEF Inv, TypeOK, View
<1>2. \A d \in D : f[d] = Cardinality(Keyed(R, k, d))
  <2>. SUFFICES ASSUME NEW d \in D PROVE f[d] = Cardinality(Keyed(R, k, d))
    OBVIOUS
  <2>1. d \in Day /\ f[d] = CountOf(OnDay(d))[column]
    BY <1>1 DEF SumsAreCounts
  <2>2. Keyed(R, k, d) = OfDay(R, d)
    BY DEF Keyed, OfDay
  <2>. QED  BY <2>1, <2>2
<1>3. KeyedIn(R, k, D) = OfDays(R, view.days)
  <2>1. \A x \in R : x.day \in view.days => sums[x.day] # None
    BY <1>1 DEF Summarised, OnDay
  <2>. QED  BY <2>1 DEF KeyedIn, OfDays
<1>. HIDE DEF D, f, k
<1>4. SumFunctionOnSet(f, D) = Cardinality(KeyedIn(R, k, D))
  BY <1>1, <1>2, CountByKey
<1>. QED  BY <1>3, <1>4 DEF Summed, D, f

\* What the summaries of the days asked for add up to.
LEMMA SummariesAddUp ==
  ASSUME Inv, Summarised
  PROVE  LET F == Figures(None) IN
           /\ Summed("planned") = F.planned /\ Summed("full") = F.done
           /\ Summed("noReport") = F.silent
           /\ Summed("planned") + Summed("unplanned") = F.total
<1>. DEFINE P == InPlan(results)
            U == With(results, {"unplanned"})
<1>1. /\ IsFiniteSet(results) /\ results \subseteq Result
      /\ \A x \in results : x.status # "done_over" /\ (x.plan <=> x.status # "unplanned")
  BY OutcomeAssumption DEF Inv, TypeOK, Result
<1>2. Scope(None) = OfDays(results, view.days)
  BY DEF Scope, OfDays
<1>3. Summed("planned") = Cardinality(InPlan(Scope(None)))
  <2>1. \A d \in Day : CountOf(OnDay(d)).planned = Cardinality(OfDay(P, d))
    <3>1. \A d \in Day : OfDay(P, d) = {x \in OnDay(d) : x.plan}
      BY DEF InPlan, OnDay, OfDay
    <3>. QED  BY <3>1 DEF CountOf
  <2>2. P \in SUBSET results /\ InPlan(Scope(None)) = OfDays(P, view.days)
    BY <1>2 DEF InPlan, OfDays
  <2>. HIDE DEF P
  <2>. QED  BY <2>1, <2>2, SummedIsCounted
<1>4. Summed("full") = Cardinality(With(InPlan(Scope(None)), {"done_full", "done_over"}))
  <2>. DEFINE R == With(results, {"done_full"})
  <2>1. \A d \in Day : CountOf(OnDay(d)).full = Cardinality(OfDay(R, d))
    <3>1. \A d \in Day : OfDay(R, d) = With(OnDay(d), {"done_full"})
      BY DEF With, OnDay, OfDay
    <3>. QED  BY <3>1 DEF CountOf
  <2>2. /\ R \in SUBSET results
        /\ With(InPlan(Scope(None)), {"done_full", "done_over"}) = OfDays(R, view.days)
    BY <1>1, <1>2 DEF InPlan, With, OfDays
  <2>. HIDE DEF R
  <2>. QED  BY <2>1, <2>2, SummedIsCounted
<1>5. Summed("noReport") = Cardinality(With(InPlan(Scope(None)), {"no_report"}))
  <2>. DEFINE R == With(results, {"no_report"})
  <2>1. \A d \in Day : CountOf(OnDay(d)).noReport = Cardinality(OfDay(R, d))
    <3>1. \A d \in Day : OfDay(R, d) = With(OnDay(d), {"no_report"})
      BY DEF With, OnDay, OfDay
    <3>. QED  BY <3>1 DEF CountOf
  <2>2. R \in SUBSET results /\ With(InPlan(Scope(None)), {"no_report"}) = OfDays(R, view.days)
    BY <1>1, <1>2 DEF InPlan, With, OfDays
  <2>. HIDE DEF R
  <2>. QED  BY <2>1, <2>2, SummedIsCounted
<1>6. Summed("unplanned") = Cardinality(OfDays(U, view.days))
  <2>1. \A d \in Day : CountOf(OnDay(d)).unplanned = Cardinality(OfDay(U, d))
    <3>1. \A d \in Day : OfDay(U, d) = With(OnDay(d), {"unplanned"})
      BY DEF With, OnDay, OfDay
    <3>. QED  BY <3>1 DEF CountOf
  <2>2. U \in SUBSET results
    BY DEF With
  <2>. HIDE DEF U
  <2>. QED  BY <2>1, <2>2, SummedIsCounted
<1>7. Cardinality(Scope(None)) = Cardinality(InPlan(Scope(None))) + Cardinality(OfDays(U, view.days))
  <2>. DEFINE A == InPlan(Scope(None))  B == OfDays(U, view.days)
  <2>1. A \cap B = {} /\ A \cup B = Scope(None)
    BY <1>1, <1>2 DEF InPlan, With, OfDays
  <2>2. IsFiniteSet(A) /\ IsFiniteSet(B) /\ Cardinality(A) \in Nat /\ Cardinality(B) \in Nat
    BY <1>1, Countable DEF Scope, InPlan, With, OfDays
  <2>3. Cardinality(A \cup B) = Cardinality(A) + Cardinality(B) - Cardinality(A \cap B)
    BY <2>2, FS_Union
  <2>4. Cardinality(A \cap B) = 0
    BY <2>1, FS_EmptySet
  <2>5. Cardinality(A \cup B) = Cardinality(Scope(None))
    BY <2>1
  <2>6. Cardinality(A \cup B) = Cardinality(A) + Cardinality(B)
    <3>. HIDE DEF A, B
    <3>. QED  BY <2>2, <2>3, <2>4
  <2>. QED  BY <2>5, <2>6
<1>. HIDE DEF P, U
<1>. QED  BY <1>3, <1>4, <1>5, <1>6, <1>7 DEF Figures

\* What the sections have adds up to what the housing has.
LEMMA SharesAddUp ==
  ASSUME Inv, NEW figure, NEW R \in SUBSET results,
         \A s \in Section : Figures(s)[figure] = Cardinality(OfSection(R, s)),
         \A s \in Section : view.shares[s] = Figures(s)
  PROVE  SumFunction([s \in Section |-> view.shares[s][figure]]) = Cardinality(R)
<1>. DEFINE f == [s \in Section |-> view.shares[s][figure]]
            k == [x \in R |-> SectionOf[x.place]]
<1>1. IsFiniteSet(R) /\ IsFiniteSet(Section) /\ \A x \in R : k[x] \in Section
  BY Countable, SizeAssumption, ResultsHaveDays DEF Inv
<1>2. \A s \in Section : f[s] = Cardinality(Keyed(R, k, s))
  <2>. SUFFICES ASSUME NEW s \in Section PROVE f[s] = Cardinality(Keyed(R, k, s))
    OBVIOUS
  <2>1. Keyed(R, k, s) = OfSection(R, s)
    BY DEF Keyed, OfSection
  <2>. QED  BY <2>1
<1>3. KeyedIn(R, k, Section) = R
  BY <1>1 DEF KeyedIn
<1>4. DOMAIN f = Section
  OBVIOUS
<1>. HIDE DEF f, k
<1>5. SumFunctionOnSet(f, Section) = Cardinality(KeyedIn(R, k, Section))
  BY <1>1, <1>2, CountByKey
<1>6. SumFunction(f) = SumFunctionOnSet(f, Section)
  BY <1>4 DEF SumFunction
<1>. QED  BY <1>3, <1>5, <1>6 DEF f

\* The overview of a housing shows what the summaries of its days say.
THEOREM OverviewSafety == Spec => []OverviewIsTheSummaries
<1>1. Inv => OverviewIsTheSummaries
  <2>. SUFFICES ASSUME Inv, Undisturbed("overview"), view.section = None, Summarised
                PROVE  view.got = [total |-> Summed("planned") + Summed("unplanned"),
                                   planned |-> Summed("planned"), done |-> Summed("full"),
                                   silent |-> Summed("noReport")]
    BY DEF OverviewIsTheSummaries
  <2>. DEFINE F == Figures(None)
  <2>1. view.got \in Answer
    BY DEF Inv, TypeOK, View
  <2>2. GotIsCounted
    BY DEF Inv, FiguresAreRight, Asked, Undisturbed, At
  <2>3. /\ view.got.total = F.total /\ view.got.planned = F.planned
        /\ view.got.done = F.done /\ view.got.silent = F.silent
    BY <2>2 DEF GotIsCounted, Past, At, Undisturbed
  <2>. HIDE DEF F
  <2>4. /\ view.got.total = Summed("planned") + Summed("unplanned")
        /\ view.got.planned = Summed("planned") /\ view.got.done = Summed("full")
        /\ view.got.silent = Summed("noReport")
    BY <2>3, SummariesAddUp DEF F
  <2>. QED  BY <2>1, <2>4 DEF Answer
<1>. QED  BY <1>1, ScreensInvariance, PTL

\* The sections of a housing show among them what the summaries of its days say.
THEOREM SectionSafety == Spec => []SectionsAddUp
<1>1. Inv => SectionsAddUp
  <2>. DEFINE shared(figure) == SumFunction([s \in Section |-> view.shares[s][figure]])
              H == Scope(None)
  <2>. SUFFICES ASSUME Inv, Undisturbed("sections"), Summarised
                PROVE  /\ shared("planned") = Summed("planned") /\ shared("done") = Summed("full")
                       /\ shared("silent") = Summed("noReport")
                       /\ shared("total") = Summed("planned") + Summed("unplanned")
    BY DEF SectionsAddUp
  <2>1. \A s \in Section : view.shares[s] = Figures(s)
    BY NoneAssumption DEF Inv, SharesAreRight, Asked, Undisturbed, At
  <2>2. \A s \in Section : Scope(s) = OfSection(H, s)
    BY NoneAssumption DEF Scope, OfSection
  <2>3. H \in SUBSET results
    BY DEF Scope
  <2>4. shared("total") = Figures(None).total
    <3>1. \A s \in Section : Figures(s).total = Cardinality(OfSection(H, s))
      BY <2>2 DEF Figures
    <3>. HIDE DEF H
    <3>2. shared("total") = Cardinality(H)
      BY <2>1, <2>3, <3>1, SharesAddUp
    <3>. QED  BY <3>2 DEF Figures, H
  <2>. HIDE DEF H
  <2>5. shared("planned") = Figures(None).planned
    <3>. DEFINE R == InPlan(H)
    <3>1. \A s \in Section : InPlan(Scope(s)) = OfSection(R, s)
      BY <2>2 DEF InPlan, OfSection
    <3>2. R \in SUBSET results
      BY <2>3 DEF InPlan
    <3>. HIDE DEF R
    <3>3. \A s \in Section : Figures(s).planned = Cardinality(OfSection(R, s))
      BY <3>1 DEF Figures
    <3>4. shared("planned") = Cardinality(R)
      BY <2>1, <3>2, <3>3, SharesAddUp
    <3>. QED  BY <3>4 DEF Figures, H, R
  <2>6. shared("done") = Figures(None).done
    <3>. DEFINE R == With(InPlan(H), {"done_full", "done_over"})
    <3>1. \A s \in Section : With(InPlan(Scope(s)), {"done_full", "done_over"})
                               = OfSection(R, s)
      BY <2>2 DEF InPlan, With, OfSection
    <3>2. R \in SUBSET results
      BY <2>3 DEF InPlan, With
    <3>. HIDE DEF R
    <3>3. \A s \in Section : Figures(s).done = Cardinality(OfSection(R, s))
      BY <3>1 DEF Figures
    <3>4. shared("done") = Cardinality(R)
      BY <2>1, <3>2, <3>3, SharesAddUp
    <3>. QED  BY <3>4 DEF Figures, H, R
  <2>7. shared("silent") = Figures(None).silent
    <3>. DEFINE R == With(InPlan(H), {"no_report"})
    <3>1. \A s \in Section : With(InPlan(Scope(s)), {"no_report"}) = OfSection(R, s)
      BY <2>2 DEF InPlan, With, OfSection
    <3>2. R \in SUBSET results
      BY <2>3 DEF InPlan, With
    <3>. HIDE DEF R
    <3>3. \A s \in Section : Figures(s).silent = Cardinality(OfSection(R, s))
      BY <3>1 DEF Figures
    <3>4. shared("silent") = Cardinality(R)
      BY <2>1, <3>2, <3>3, SharesAddUp
    <3>. QED  BY <3>4 DEF Figures, H, R
  <2>. HIDE DEF shared
  <2>. QED  BY <2>4, <2>5, <2>6, <2>7, SummariesAddUp
<1>. QED  BY <1>1, ScreensInvariance, PTL

-----------------------------------------------------------------------------
(* The tables are right.                                                   *)

\* Whoever goes through the pages of a table undisturbed sees its days in their
\* order, and as many rows of each as there are.
THEOREM WalkSafety == Spec => []WalkCoversTheDays
<1>1. Inv => WalkCoversTheDays
  <2>. SUFFICES ASSUME Inv, Undisturbed("results") \/ Undisturbed("summaries")
                PROVE  /\ \A i, j \in DOMAIN view.seen : i < j => view.seen[i].day >= view.seen[j].day
                       /\ \A d \in view.days :
                            Cardinality({i \in DOMAIN view.seen : view.seen[i].day = d})
                              = Cardinality({x \in Listed : x.day = d})
    BY DEF WalkCoversTheDays
  <2>1. Len(view.seen) = Cardinality(Listed) /\ Ranked(Listed, view.seen)
    BY DEF Inv, PagesAreRight, Asked, Undisturbed, At
  <2>2. view.seen \in Seq(Result \cup [day : Day]) /\ view.days \subseteq Int /\ DatedRows(Listed)
    BY ListedIsDated, DayAssumption DEF Inv, TypeOK, View
  <2>3. view.seen \in Seq(Listed)
    BY <2>1, <2>2 DEF Ranked
  <2>4. /\ \A i, j \in DOMAIN view.seen : i < j => view.seen[i].day >= view.seen[j].day
        /\ \A d \in Int : Cardinality({i \in DOMAIN view.seen : view.seen[i].day = d})
                            = Cardinality({x \in Listed : x.day = d})
    BY <2>1, <2>2, <2>3, RankedCovers
  <2>. QED  BY <2>2, <2>4
<1>. QED  BY <1>1, ScreensInvariance, PTL

\* A filter that was offered finds rows, and the rows that are found were offered.
THEOREM FilterSafety == Spec => []FiltersFind
<1>1. Inv => FiltersFind
  <2>. SUFFICES ASSUME Inv, Undisturbed("results")
                PROVE  /\ view.status # None => view.seen # <<>>
                       /\ \A i \in DOMAIN view.seen : view.seen[i].status \in view.offered
    BY DEF FiltersFind
  <2>1. /\ Len(view.seen) = Cardinality(Listed) /\ Ranked(Listed, view.seen) /\ view.section = None
        /\ view.offered = {x.status : x \in Scope(None)} /\ view.status \in view.offered \cup {None}
    BY DEF Inv, PagesAreRight, OffersAreRight, Asked, Undisturbed, At
  <2>2. Listed = {x \in Scope(None) : view.status \in {x.status, None}}
    BY <2>1 DEF Listed, Filtered, Scope, Undisturbed
  <2>3. IsFiniteSet(Listed)
    BY ListedIsDated DEF Inv, DatedRows
  <2>4. ASSUME view.status # None PROVE view.seen # <<>>
    <3>1. PICK x \in Scope(None) : view.status = x.status
      BY <2>1, <2>4
    <3>2. Listed # {}
      BY <2>2, <3>1
    <3>3. Cardinality(Listed) # 0
      BY <2>3, <3>2, FS_EmptySet
    <3>. QED  BY <2>1, <3>3
  <2>5. ASSUME NEW i \in DOMAIN view.seen PROVE view.seen[i].status \in view.offered
    <3>1. view.seen[i] \in Scope(None)
      BY <2>1, <2>2 DEF Ranked
    <3>. QED  BY <2>1, <3>1
  <2>. QED  BY <2>4, <2>5
<1>. QED  BY <1>1, ScreensInvariance, PTL

-----------------------------------------------------------------------------
(* Alerts.  AlertDay shares no constant and no variable with Screens.      *)

\* The hours of a level are over for an alert.
Due(a, level) ==
  \/ level = 1
  \/ /\ level - 1 \in DOMAIN Rules[a[2]]
     /\ now - created[a] >= Rules[a[2]][level - 1].hours

\* The alerts of a call come when it ends, and at their first level.
AlertsAreWhole ==
  /\ \A a \in raised : pc[a[1]] = "ended"
  /\ \A c \in Call : \A a \in drafts[c] : a[1] = c
  /\ \A c \in Call : pc[c] = "ended" => drafts[c] = {}
  /\ \A a \in Alert \ raised : step[a] = 1 /\ role[a] = FirstRole[a[2]]

\* What an alert has come to is due, and so is what a check is going to write.
LevelsAreDue ==
  /\ \A a \in raised : Due(a, step[a]) /\ role[a] = RoleAt(a, step[a])
  /\ \A k \in Check, a \in Alert :
       climbing[k][a] # 0 => a \in raised /\ Due(a, climbing[k][a])

AlertInv == AlertTypeOK /\ AlertsAreWhole /\ LevelsAreDue

-----------------------------------------------------------------------------
(* Levels.                                                                 *)

LEMMA AlertParts == \A a \in Alert : a[1] \in Call /\ a[2] \in Type
BY DEF Alert

LEMMA LeastNumber == ASSUME NEW S \in SUBSET Nat, S # {} PROVE \E i \in S : \A j \in S : i <= j
<1>. DEFINE less == OpToRel(<, Nat)
<1>1. IsWellFoundedOn(less, Nat)
  BY NatLessThanWellFounded
<1>2. \A x, y \in Nat : y < x => <<y, x>> \in less
  BY DEF OpToRel
<1>. HIDE DEF less
<1>3. PICK i \in S : \A j \in S : ~(<<j, i>> \in less)
  BY <1>1, WFMin
<1>4. \A j \in S : i \in Nat /\ j \in Nat /\ ~(j < i)
  BY <1>2, <1>3
<1>5. \A j \in S : i <= j
  BY <1>4
<1>. QED  BY <1>5

\* The level a check computes is one whose hours are over.
LEMMA LevelIsDue ==
  ASSUME AlertTypeOK, NEW a \in Alert
  PROVE  LevelDue(a) \in Nat /\ (LevelDue(a) # 0 => Due(a, LevelDue(a)))
<1>1. StepsDue(a) \subseteq Nat
  BY AlertParts, RuleAssumption DEF StepsDue
<1>2. CASE StepsDue(a) # {}
  <2>1. \E i \in StepsDue(a) : \A j \in StepsDue(a) : i <= j
    BY <1>1, <1>2, LeastNumber
  <2>. DEFINE least == CHOOSE i \in StepsDue(a) : \A j \in StepsDue(a) : i <= j
  <2>2. least \in StepsDue(a)
    BY <2>1
  <2>3. LevelDue(a) = least + 1
    BY <1>2 DEF LevelDue
  <2>4. least \in Nat /\ least \in DOMAIN Rules[a[2]] /\ now - created[a] >= Rules[a[2]][least].hours
    BY <1>1, <2>2 DEF StepsDue
  <2>. HIDE DEF least
  <2>5. LevelDue(a) - 1 = least
    BY <2>3, <2>4
  <2>. QED  BY <2>3, <2>4, <2>5 DEF Due
<1>3. CASE StepsDue(a) = {}
  BY <1>3 DEF LevelDue
<1>. QED  BY <1>2, <1>3

\* A rule of an alert's type has hours and a role.
LEMMA RuleHours ==
  ASSUME NEW t \in Type, NEW i \in DOMAIN Rules[t]
  PROVE  Rules[t][i].hours \in Nat /\ Rules[t][i].role \in Role
<1>. DEFINE rules == Rules[t]  rule == [hours : Nat, role : Role]
<1>1. rules \in Seq(rule)
  BY RuleAssumption
<1>. HIDE DEF rules, rule
<1>2. \A j \in DOMAIN rules : rules[j] \in rule
  BY <1>1
<1>3. Rules[t][i] \in rule
  BY <1>2 DEF rules
<1>. QED  BY <1>3 DEF rule

\* A level that is due has a role.
LEMMA DueHasRole ==
  ASSUME NEW a \in Alert, NEW level \in Nat, Due(a, level)
  PROVE  RoleAt(a, level) \in Role
<1>1. a[2] \in Type /\ FirstRole[a[2]] \in Role
  BY AlertParts, RoleAssumption
<1>2. level # 1 => Rules[a[2]][level - 1].role \in Role
  BY <1>1, RuleHours DEF Due
<1>. QED  BY <1>1, <1>2 DEF RoleAt

-----------------------------------------------------------------------------
(* The types.                                                              *)

LEMMA AlertTyping == AlertInv /\ [AlertNext]_alertVars => AlertTypeOK'
<1>. SUFFICES ASSUME AlertInv, [AlertNext]_alertVars PROVE AlertTypeOK'
  OBVIOUS
<1>. USE DEF AlertTypeOK, day, alerts, call
<1>. AlertTypeOK
  BY DEF AlertInv
<1>1. CASE UNCHANGED alertVars
  BY <1>1 DEF alertVars
<1>2. CASE Tick
  BY <1>2, HourAssumption DEF Tick, AlertInv
<1>3. CASE DayGoesOn
  BY <1>3 DEF DayGoesOn, Plan, Report, Reconcile, SyncSequence
<1>4. ASSUME NEW c \in Call, NEW A \in SUBSET Alert, Draft(c, A)
      PROVE  drafts' \in [Call -> SUBSET Alert] /\ drafted' \in [Alert -> Nat]
  BY <1>4, HourAssumption DEF Draft, AlertInv
<1>5. ASSUME NEW c \in Call, Generate(c) PROVE AlertTypeOK'
  <2>. USE DEF Goto, Point
  <2>1. CASE ReadPlanned(c)
    BY <2>1 DEF ReadPlanned
  <2>2. CASE ReadFacts(c)
    BY <2>2, <1>4 DEF ReadFacts, About
  <2>3. CASE ReadResults(c)
    BY <2>3, <1>4 DEF ReadResults, About
  <2>4. CASE ReadSequence(c)
    <3>1. (IF sequenced THEN {} ELSE About(c, "A22", {NoContractor})) \in SUBSET Alert
      BY DEF About
    <3>. QED  BY <2>4, <3>1, <1>4 DEF ReadSequence
  <2>5. CASE Insert(c)
    BY <2>5 DEF Insert, Dated
  <2>6. CASE CrashCall(c)
    BY <2>6 DEF CrashCall
  <2>. QED  BY <1>5, <2>1, <2>2, <2>3, <2>4, <2>5, <2>6 DEF Generate
<1>6. ASSUME NEW k \in Check, Escalate(k) PROVE AlertTypeOK'
  <2>1. CASE LoadUnacked(k)
    BY <2>1, LevelIsDue DEF LoadUnacked
  <2>2. ASSUME NEW a \in Alert, LoadOne(k, a) PROVE AlertTypeOK'
    BY <2>2, LevelIsDue DEF LoadOne, Idle
  <2>3. CASE WriteSteps(k)
    <3>1. \A a \in Climbers(k) : climbing[k][a] \in Nat /\ Due(a, climbing[k][a])
      BY DEF Climbers, AlertInv, LevelsAreDue
    <3>2. \A a \in Climbers(k) : RoleAt(a, climbing[k][a]) \in Role
      BY <3>1, DueHasRole DEF Climbers
    <3>3. step' \in [Alert -> Nat] /\ role' \in [Alert -> Role]
      BY <2>3, <3>1, <3>2 DEF WriteSteps
    <3>. QED  BY <2>3, <3>3 DEF WriteSteps, Idle
  <2>4. CASE CrashCheck(k)
    BY <2>4 DEF CrashCheck, Idle
  <2>. QED  BY <1>6, <2>1, <2>2, <2>3, <2>4 DEF Escalate
<1>7. ASSUME NEW a \in Alert, Acknowledge(a) PROVE AlertTypeOK'
  BY <1>7 DEF Acknowledge
<1>. QED  BY <1>1, <1>2, <1>3, <1>5, <1>6, <1>7 DEF AlertNext

-----------------------------------------------------------------------------
(* Whole calls.                                                            *)

LEMMA AlertsStayWhole == AlertInv /\ [AlertNext]_alertVars => AlertsAreWhole'
<1>. SUFFICES ASSUME AlertInv, [AlertNext]_alertVars PROVE AlertsAreWhole'
  OBVIOUS
<1>. USE DEF AlertInv, AlertTypeOK, AlertsAreWhole, day, alerts, call
<1>1. ASSUME UNCHANGED <<raised, pc, drafts, step, role>> PROVE AlertsAreWhole'
  BY <1>1
<1>2. ASSUME NEW c \in Call, Generate(c) PROVE AlertsAreWhole'
  <2>. USE DEF Goto
  <2>1. ASSUME NEW t, NEW K, NEW A, A \subseteq About(c, t, K) PROVE \A a \in A : a[1] = c
    BY <2>1 DEF About
  <2>2. ASSUME pc[c] # "ended", NEW A \in SUBSET Alert, \A a \in A : a[1] = c, Draft(c, A),
               pc'[c] # "ended", \A d \in Call \ {c} : pc'[d] = pc[d], UNCHANGED alerts
        PROVE  AlertsAreWhole'
    BY <2>2, AlertParts DEF Draft
  <2>3. CASE ReadPlanned(c)
    BY <2>3, AlertParts DEF ReadPlanned
  <2>4. CASE ReadFacts(c)
    BY <2>2, <2>4 DEF ReadFacts, About
  <2>5. CASE ReadResults(c)
    BY <2>2, <2>5 DEF ReadResults, About
  <2>6. CASE ReadSequence(c)
    BY <2>2, <2>6 DEF ReadSequence, About
  <2>7. CASE Insert(c)
    BY <2>7, AlertParts DEF Insert
  <2>8. CASE CrashCall(c)
    BY <2>8, AlertParts DEF CrashCall
  <2>. QED  BY <1>2, <2>3, <2>4, <2>5, <2>6, <2>7, <2>8
     DEF Generate
<1>3. ASSUME NEW k \in Check, Escalate(k) PROVE AlertsAreWhole'
  <2>1. CASE WriteSteps(k)
    <3>1. Climbers(k) \subseteq raised
      BY DEF Climbers, LevelsAreDue
    <3>. QED  BY <2>1, <3>1 DEF WriteSteps
  <2>2. CASE LoadUnacked(k)
    BY <1>1, <2>2 DEF LoadUnacked
  <2>3. ASSUME NEW a \in Alert, LoadOne(k, a) PROVE AlertsAreWhole'
    BY <1>1, <2>3 DEF LoadOne
  <2>4. CASE CrashCheck(k)
    BY <1>1, <2>4 DEF CrashCheck
  <2>. QED  BY <1>3, <2>1, <2>2, <2>3, <2>4 DEF Escalate
<1>4. CASE Tick
  BY <1>1, <1>4 DEF Tick
<1>5. CASE DayGoesOn
  BY <1>1, <1>5 DEF DayGoesOn, Plan, Report, Reconcile, SyncSequence
<1>6. ASSUME NEW a \in Alert, Acknowledge(a) PROVE AlertsAreWhole'
  BY <1>1, <1>6 DEF Acknowledge
<1>7. CASE UNCHANGED alertVars
  BY <1>1, <1>7 DEF alertVars
<1>. QED  BY <1>2, <1>3, <1>4, <1>5, <1>6, <1>7 DEF AlertNext

-----------------------------------------------------------------------------
(* Levels in time.                                                         *)

LEMMA LevelsStayDue == AlertInv /\ [AlertNext]_alertVars => LevelsAreDue'
<1>. SUFFICES ASSUME AlertInv, [AlertNext]_alertVars PROVE LevelsAreDue'
  OBVIOUS
<1>. USE DEF AlertInv, AlertTypeOK, LevelsAreDue, day, alerts, call
<1>1. ASSUME UNCHANGED <<now, raised, created, step, role, climbing>> PROVE LevelsAreDue'
  BY <1>1 DEF Due, RoleAt
<1>2. CASE Tick
  <2>1. now' = now + 1 /\ now \in Nat /\ UNCHANGED <<raised, created, step, role, climbing>>
    BY <1>2, HourAssumption DEF Tick, AlertInv
  <2>2. ASSUME NEW a \in Alert, NEW level \in Nat, Due(a, level) PROVE Due(a, level)'
    <3>1. CASE level = 1
      BY <3>1 DEF Due
    <3>2. CASE level # 1
      <4>. DEFINE i == level - 1
      <4>1. i \in DOMAIN Rules[a[2]] /\ now - created[a] >= Rules[a[2]][i].hours
        BY <2>2, <3>2 DEF Due
      <4>2. Rules[a[2]][i].hours \in Nat
        BY <4>1, RuleHours, AlertParts
      <4>. QED  BY <2>1, <4>1, <4>2 DEF Due
    <3>. QED  BY <3>1, <3>2
  <2>. QED  BY <2>1, <2>2 DEF RoleAt
<1>3. ASSUME NEW c \in Call, Insert(c) PROVE LevelsAreDue'
  <2>1. \A a \in drafts[c] : a \notin raised /\ step[a] = 1 /\ role[a] = FirstRole[a[2]]
    BY <1>3 DEF Insert, AlertsAreWhole
  <2>2. \A a \in raised, level \in Nat : Due(a, level) => Due(a, level)'
    BY <1>3, <2>1 DEF Insert, Dated, Due
  <2>3. \A a \in drafts[c] : Due(a, step[a])' /\ role'[a] = RoleAt(a, step'[a])
    BY <1>3, <2>1 DEF Insert, Due, RoleAt
  <2>. QED  BY <1>3, <2>2, <2>3 DEF Insert, RoleAt
<1>4. ASSUME NEW c \in Call, Generate(c) PROVE LevelsAreDue'
  BY <1>1, <1>3, <1>4
     DEF Generate, ReadPlanned, ReadFacts, ReadResults,
         ReadSequence, CrashCall
<1>5. ASSUME NEW k \in Check, Escalate(k) PROVE LevelsAreDue'
  <2>1. CASE LoadUnacked(k)
    BY <2>1, LevelIsDue DEF LoadUnacked, Due, RoleAt
  <2>2. ASSUME NEW a \in Alert, LoadOne(k, a) PROVE LevelsAreDue'
    BY <2>2, LevelIsDue DEF LoadOne, Due, RoleAt, Idle
  <2>3. CASE WriteSteps(k)
    BY <2>3 DEF WriteSteps, Climbers, Due, RoleAt, Idle
  <2>4. CASE CrashCheck(k)
    BY <2>4 DEF CrashCheck, Due, RoleAt, Idle
  <2>. QED  BY <1>5, <2>1, <2>2, <2>3, <2>4 DEF Escalate
<1>6. CASE DayGoesOn
  BY <1>1, <1>6 DEF DayGoesOn, Plan, Report, Reconcile, SyncSequence
<1>7. ASSUME NEW a \in Alert, Acknowledge(a) PROVE LevelsAreDue'
  BY <1>1, <1>7 DEF Acknowledge
<1>8. CASE UNCHANGED alertVars
  BY <1>1, <1>8 DEF alertVars
<1>. QED  BY <1>2, <1>4, <1>5, <1>6, <1>7, <1>8 DEF AlertNext

LEMMA AlertStart == AlertInit => AlertInv
<1>. SUFFICES ASSUME AlertInit PROVE AlertInv
  OBVIOUS
<1>1. \A a \in Alert : FirstRole[a[2]] \in Role
  BY AlertParts, RoleAssumption
<1>2. AlertTypeOK
  <2>1. 0 \in 0 .. MaxHour
    BY HourAssumption
  <2>2. role \in [Alert -> Role]
    BY <1>1 DEF AlertInit
  <2>. QED  BY <2>1, <2>2 DEF AlertInit, AlertTypeOK, Idle, Point
<1>3. AlertsAreWhole
  BY DEF AlertInit, AlertsAreWhole
<1>4. LevelsAreDue
  BY DEF AlertInit, LevelsAreDue, Idle
<1>. QED  BY <1>2, <1>3, <1>4 DEF AlertInv

-----------------------------------------------------------------------------
(* The theorems.                                                           *)

\* Types, whole calls and due levels are kept by every step.
THEOREM AlertInvariance == AlertSpec => []AlertInv
<1>1. AlertInv /\ [AlertNext]_alertVars => AlertInv'
  BY AlertTyping, AlertsStayWhole, LevelsStayDue DEF AlertInv
<1>. QED  BY <1>1, AlertStart, PTL DEF AlertSpec

\* No alert climbs before its hours are over, and its recipient fits its level,
\* however checks overlap with each other and with new alerts.
THEOREM AlertSafety == AlertSpec => []EscalationIsDue
<1>1. AlertInv => EscalationIsDue
  BY DEF AlertInv, AlertTypeOK, LevelsAreDue, Due, EscalationIsDue
<1>. QED  BY <1>1, AlertInvariance, PTL

\* No step takes an acknowledgement back.
THEOREM AckSafety == AlertSpec => AcksAreKept
<1>1. [AlertNext]_alertVars => [acked \subseteq acked']_alertVars
  <2>. SUFFICES ASSUME AlertNext PROVE acked \subseteq acked'
    OBVIOUS
  <2>. QED
    BY DEF AlertNext, Tick, DayGoesOn, Plan, Report, Reconcile,
           SyncSequence, Generate, ReadPlanned, ReadFacts,
           ReadResults, ReadSequence, Insert, CrashCall,
           Escalate, LoadUnacked, LoadOne, WriteSteps,
           CrashCheck, Acknowledge, alerts
<1>. QED  BY <1>1, PTL DEF AlertSpec, AcksAreKept

\* The alerts of a call come all at once: none is added or taken away later.
THEOREM CallSafety == AlertSpec => CallsAreWhole
<1>1. AlertInv /\ [AlertNext]_alertVars =>
        [\A c \in Call : Of(c) # {} => Of(c)' = Of(c)]_alertVars
  <2>. SUFFICES ASSUME AlertInv, AlertNext, NEW c \in Call, Of(c) # {}
                PROVE  Of(c)' = Of(c)
    OBVIOUS
  <2>1. CASE UNCHANGED raised
    BY <2>1 DEF Of
  <2>2. ASSUME NEW d \in Call, Insert(d) PROVE Of(c)' = Of(c)
    <3>1. pc[c] = "ended" /\ c # d
      BY <2>2 DEF Of, Insert, AlertInv, AlertsAreWhole
    <3>2. \A a \in drafts[d] : a[1] = d
      BY DEF AlertInv, AlertsAreWhole
    <3>. QED  BY <2>2, <3>1, <3>2 DEF Of, Insert
  <2>. QED
    BY <2>1, <2>2
       DEF AlertNext, Tick, DayGoesOn, Plan, Report, Reconcile,
           SyncSequence, Generate, ReadPlanned, ReadFacts,
           ReadResults, ReadSequence, CrashCall, Escalate,
           LoadUnacked, LoadOne, WriteSteps, CrashCheck,
           Acknowledge, alerts
<1>. QED  BY <1>1, AlertInvariance, PTL DEF AlertSpec, CallsAreWhole
=============================================================================
