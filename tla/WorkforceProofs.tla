-------------------------- MODULE WorkforceProofs --------------------------
(***************************************************************************)
(* Theorems about Workforce, for any requests, control points and weeks.   *)
(***************************************************************************)
EXTENDS Workforce, TLAPS

\* A point with a violation of a check is judged.
VerdictsAreKept ==
  \A c \in Checkpoint, p \in Proc : violations[<<c, p>>] # None => status[c] # "pending"

\* What a check carries: it has seen nothing recorded that is not, and the
\* points it judges have no violation of its own; they were pending, and they
\* still are unless others have committed.
ChecksAreSound ==
  \A p \in Proc :
    /\ At(p, "idle") => req[p] = IdleReq
    /\ req[p].noted \subseteq recorded
    /\ req[p].week <= today
    /\ At(p, "check") => \A c \in req[p].todo \cup req[p].held : violations[<<c, p>>] = None
    /\ At(p, "check") /\ ~req[p].late =>
         \A c \in req[p].todo \cup req[p].held : status[c] = "pending"

\* What an escalation or a correction carries is of rows that are still there,
\* and of rows that have not changed unless others have committed.
ImagesAreSound ==
  \A p \in Proc :
    /\ DOMAIN req[p].old = DOMAIN req[p].new
    /\ At(p, "idle") \/ At(p, "check") => DOMAIN req[p].new = {}
    /\ \A v \in DOMAIN req[p].new :
         /\ v \in Recorded
         /\ ~req[p].late => violations[v] = req[p].old[v]
         /\ req[p].old[v].week = violations[v].week /\ req[p].new[v].week = violations[v].week
         /\ req[p].old[v].byhand => violations[v].byhand
         /\ req[p].old[v].escalated => violations[v].escalated \/ violations[v].byhand

\* A correction is by hand; an escalation changes the role and nothing that it
\* has not found due.
ChangesAreDue ==
  \A p \in Proc : \A v \in DOMAIN req[p].new :
    LET old == req[p].old[v]  new == req[p].new[v] IN
      /\ At(p, "patch") => new.byhand
      /\ At(p, "escalate") =>
           /\ ~old.resolved /\ new.resolved = old.resolved /\ new.byhand = old.byhand
           /\ ~old.byhand => /\ new.escalated /\ new.to = old.to + 1
                             /\ today - new.week >= new.to

Inv ==
  /\ TypeOK /\ MissedIsRecorded /\ EscalationIsDue
  /\ VerdictsAreKept /\ ChecksAreSound /\ ImagesAreSound /\ ChangesAreDue

-----------------------------------------------------------------------------
(* Records.                                                                *)

LEMMA ImageParts == \A f : f \in Images <=> DOMAIN f \subseteq Id /\ f \in [DOMAIN f -> Violation]
BY DEF Images

LEMMA NoImage == <<>> \in Images /\ DOMAIN <<>> = {}
<1>1. DOMAIN <<>> = {}
  OBVIOUS
<1>2. <<>> \in [{} -> Violation]
  OBVIOUS
<1>. QED  BY <1>1, <1>2, ImageParts

LEMMA IdleTyped == IdleReq \in Request
<1>. HIDE DEF Images
<1>. QED  BY NoImage, WeekAssumption DEF IdleReq, Request, Week

LEMMA ClosedTyped == ASSUME TypeOK, NEW p \in Proc
                     PROVE  DOMAIN Closed(p) = Proc /\ \A q \in Proc : Closed(p)[q] \in Request
BY IdleTyped DEF Closed, TypeOK, Request

LEMMA NewTyped == ASSUME NEW w \in Week PROVE New(w) \in Violation
BY DEF New, Violation, Role

\* A changed column keeps a row a row.
LEMMA ChangedTyped ==
  ASSUME NEW v \in Violation
  PROVE  /\ \A b \in BOOLEAN : /\ [v EXCEPT !.escalated = b] \in Violation
                               /\ [v EXCEPT !.resolved = b] \in Violation
                               /\ [v EXCEPT !.byhand = b] \in Violation
         /\ \A r \in Role : /\ [v EXCEPT !.to = r] \in Violation
                            /\ [v EXCEPT !.escalated = TRUE, !.to = r] \in Violation
BY DEF Violation

LEMMA ClimbedTyped == ASSUME NEW v \in Violation, NEW w \in Int PROVE Climbed(v, w) \in Violation
<1>1. 1 \in Role /\ (v.to \in {1, 2} => v.to + 1 \in Role)
  BY DEF Role
<1>2. [v EXCEPT !.to = @ + 1] = [v EXCEPT !.to = v.to + 1]
  BY DEF Violation
<1>. QED  BY <1>1, <1>2, ChangedTyped DEF Climbed

LEMMA WrittenTyped ==
  ASSUME NEW row \in Violation, NEW old \in Violation, NEW new \in Violation
  PROVE  /\ Written(row, old, new) \in Violation
         /\ \A f \in {"week", "escalated", "to", "resolved", "byhand"} :
              Written(row, old, new)[f] = IF new[f] = old[f] THEN row[f] ELSE new[f]
BY DEF Written, Violation, Role

LEMMA BodiesTyped ==
  ASSUME NEW v \in Violation, NEW new \in Bodies(v) PROVE [new EXCEPT !.byhand = TRUE] \in Violation
<1>1. ASSUME NEW b \in BOOLEAN PROVE [v EXCEPT !.resolved = b] \in Violation
  BY ChangedTyped
<1>2. ASSUME NEW r \in 1..3 PROVE [v EXCEPT !.escalated = TRUE, !.to = r] \in Violation
  <2>1. r \in Role
    BY DEF Role
  <2>. QED  BY <2>1, ChangedTyped
<1>3. [v EXCEPT !.escalated = TRUE] \in Violation
  BY ChangedTyped
<1>4. \/ \E b \in BOOLEAN : new = [v EXCEPT !.resolved = b]
      \/ new = [v EXCEPT !.escalated = TRUE]
      \/ \E r \in 1..3 : new = [v EXCEPT !.escalated = TRUE, !.to = r]
  BY Zenon DEF Bodies
<1>5. new \in Violation
  BY <1>1, <1>2, <1>3, <1>4, Zenon
<1>. QED
  BY <1>5, ChangedTyped

-----------------------------------------------------------------------------
(* The types.                                                              *)

LEMMA Typing == Inv /\ [Next]_vars => TypeOK'
<1>. SUFFICES ASSUME Inv, [Next]_vars PROVE TypeOK'
  OBVIOUS
<1>. TypeOK
  BY DEF Inv
<1>1. CASE UNCHANGED vars
  BY <1>1 DEF vars, TypeOK
<1>2. ASSUME NEW p \in Proc, NEW r \in Request, req' = [req EXCEPT ![p] = r],
             UNCHANGED <<today, actual, status, recorded, violations>>
      PROVE  TypeOK'
  BY <1>2 DEF TypeOK
<1>3. ASSUME NEW p \in Proc, NEW ch \in Challenge, CheckLoad(p, ch) PROVE TypeOK'
  <2>. DEFINE r == [req[p] EXCEPT !.at = "check", !.week = today, !.todo = Due(ch),
                                  !.met = {c \in Due(ch) : actual[c] = "enough"},
                                  !.noted = recorded \cap Due(ch)]
  <2>1. req[p] \in Request /\ today \in Week /\ Due(ch) \subseteq Checkpoint
    BY DEF TypeOK, Due, Points
  <2>2. r \in Request
    BY <2>1 DEF Request
  <2>3. req' = [req EXCEPT ![p] = r] /\ UNCHANGED <<today, actual, status, recorded, violations>>
    BY <1>3 DEF CheckLoad
  <2>. QED  BY <1>2, <2>2, <2>3
<1>4. ASSUME NEW p \in Proc, NEW c \in Checkpoint, Judge(p, c) PROVE TypeOK'
  <2>. DEFINE r == [req[p] EXCEPT !.todo = @ \ {c}, !.held = @ \cup {c}]
  <2>1. req[p] \in Request
    BY DEF TypeOK
  <2>2. r \in Request
    BY <2>1 DEF Request
  <2>3. req' = [req EXCEPT ![p] = r]
    BY <1>4, <2>1 DEF Judge, TypeOK, Request
  <2>. QED  BY <1>2, <1>4, <2>2, <2>3 DEF Judge
<1>5. ASSUME NEW p \in Proc, CheckCommit(p) PROVE TypeOK'
  <2>1. req' = Closed(p) /\ DOMAIN req' = Proc /\ \A q \in Proc : req'[q] \in Request
    BY <1>5, ClosedTyped DEF CheckCommit
  <2>2. req[p].held \subseteq Checkpoint /\ req[p].week \in Week
    BY DEF TypeOK, Request
  <2>3. violations' \in [Id -> Violation \cup {None}]
    BY <1>5, <2>2, NewTyped DEF CheckCommit, Violating, TypeOK
  <2>. QED  BY <1>5, <2>1, <2>2, <2>3 DEF CheckCommit, Verdicts, Missed, TypeOK
<1>6. ASSUME NEW p \in Proc, NEW point \in {"escalate", "patch"}, NEW S \in SUBSET Recorded, NEW g,
             \A v \in S : g[v] \in Violation,
             req' = [req EXCEPT ![p] = [@ EXCEPT !.at = point, !.old = [v \in S |-> violations[v]],
                                                 !.new = [v \in S |-> g[v]]]],
             UNCHANGED <<today, actual, status, recorded, violations>>
      PROVE  TypeOK'
  <2>. DEFINE old == [v \in S |-> violations[v]]  new == [v \in S |-> g[v]]
              r == [req[p] EXCEPT !.at = point, !.old = old, !.new = new]
  <2>1. old \in Images /\ new \in Images
    BY <1>6, ImageParts DEF Recorded, TypeOK
  <2>2. req[p] \in Request
    BY DEF TypeOK
  <2>. HIDE DEF old, new
  <2>3. r \in Request
    BY <2>1, <2>2 DEF Request
  <2>4. req' = [req EXCEPT ![p] = r]
    BY <1>6 DEF old, new, TypeOK
  <2>. QED  BY <1>2, <1>6, <2>3, <2>4
<1>7. ASSUME NEW p \in Proc, EscalateLoad(p) PROVE TypeOK'
  <2>. DEFINE up(v) == Climbed(violations[v], today - violations[v].week)
              rise  == {v \in Recorded : ~violations[v].resolved /\ up(v) # violations[v]}
              g == [v \in rise |-> up(v)]
  <2>1. \A v \in rise : g[v] \in Violation
    <3>1. \A v \in Recorded : violations[v] \in Violation /\ today - violations[v].week \in Int
      BY WeekAssumption DEF Recorded, TypeOK, Violation, Week
    <3>. QED  BY <3>1, ClimbedTyped
  <2>2. rise \in SUBSET Recorded
    OBVIOUS
  <2>3. req' = [req EXCEPT ![p] = [@ EXCEPT !.at = "escalate", !.old = [v \in rise |-> violations[v]],
                                            !.new = [v \in rise |-> g[v]]]]
    BY <1>7 DEF EscalateLoad
  <2>4. UNCHANGED <<today, actual, status, recorded, violations>>
    BY <1>7 DEF EscalateLoad
  <2>. HIDE DEF g, rise
  <2>. QED  BY <1>6, <2>1, <2>2, <2>3, <2>4
<1>8. ASSUME NEW p \in Proc, NEW v \in Recorded, NEW new \in Bodies(violations[v]), PatchLoad(p, v, new)
      PROVE  TypeOK'
  <2>. DEFINE g == [w \in {v} |-> [new EXCEPT !.byhand = TRUE]]
  <2>1. \A w \in {v} : g[w] \in Violation
    BY BodiesTyped DEF Recorded, TypeOK
  <2>2. req' = [req EXCEPT ![p] = [@ EXCEPT !.at = "patch", !.old = [w \in {v} |-> violations[w]],
                                            !.new = [w \in {v} |-> g[w]]]]
    BY <1>8 DEF PatchLoad
  <2>3. UNCHANGED <<today, actual, status, recorded, violations>>
    BY <1>8 DEF PatchLoad
  <2>. HIDE DEF g
  <2>4. {v} \in SUBSET Recorded
    OBVIOUS
  <2>. QED  BY <1>6, <2>1, <2>2, <2>3, <2>4
<1>13. ASSUME NEW p \in Proc, Commit(p) PROVE TypeOK'
  <2>1. req' = Closed(p) /\ DOMAIN req' = Proc /\ \A q \in Proc : req'[q] \in Request
    BY <1>13, ClosedTyped DEF Commit
  <2>2. \A v \in DOMAIN req[p].new :
          /\ violations[v] \in Violation
          /\ req[p].old[v] \in Violation /\ req[p].new[v] \in Violation
    BY ImageParts DEF Inv, ImagesAreSound, Recorded, TypeOK, Request
  <2>3. violations' \in [Id -> Violation \cup {None}]
    BY <1>13, <2>2, WrittenTyped DEF Commit, TypeOK
  <2>. QED  BY <1>13, <2>1, <2>3 DEF Commit, TypeOK
<1>9. ASSUME NEW p \in Proc, Fail(p) PROVE TypeOK'
  BY <1>2, <1>9, IdleTyped DEF Fail
<1>10. CASE Post
  BY <1>10, NewTyped DEF Post, TypeOK
<1>11. ASSUME NEW c \in Checkpoint, NEW n \in {"short", "enough"}, Enter(c, n) PROVE TypeOK'
  BY <1>11 DEF Enter, TypeOK
<1>12. CASE Tick
  BY <1>12, WeekAssumption DEF Tick, TypeOK, Week
<1>. QED
  BY <1>1, <1>3, <1>4, <1>5, <1>6, <1>7, <1>8, <1>9, <1>10, <1>11, <1>12, <1>13 DEF Next

-----------------------------------------------------------------------------
(* Who changes what.                                                       *)

\* The rows of a request as Recorded finds them.
LEMMA Images2 ==
  ASSUME TypeOK, ImagesAreSound, NEW p \in Proc, NEW v \in DOMAIN req[p].new
  PROVE  /\ v \in Id /\ violations[v] \in Violation
         /\ req[p].old[v] \in Violation /\ req[p].new[v] \in Violation
BY ImageParts DEF ImagesAreSound, Recorded, TypeOK, Request

\* What a request that goes on sees of one that ends.
LEMMA ClosedParts ==
  ASSUME TypeOK, NEW p \in Proc, NEW q \in Proc, req' = Closed(p)
  PROVE  /\ q = p => req'[q] = IdleReq
         /\ q # p => /\ \A f \in {"at", "week", "todo", "met", "noted", "held", "old", "new"} :
                          req'[q][f] = req[q][f]
                     /\ req'[q].late \/ req[q].at = "idle"
BY DEF Closed, TypeOK, Request, At

\* Rows stay.
LEMMA RowsStay ==
  ASSUME Inv, [Next]_vars, NEW v \in Recorded
  PROVE  v \in Recorded'
<1>. v \in Id /\ violations[v] \in Violation
  BY DEF Recorded, Inv, TypeOK
<1>1. CASE UNCHANGED violations
  BY <1>1 DEF Recorded
<1>2. ASSUME NEW p \in Proc, CheckCommit(p) PROVE v \in Recorded'
  <2>1. req[p].week \in Week
    BY DEF Inv, TypeOK, Request
  <2>. QED  BY <1>2, <2>1, NewTyped, NoneAssumption DEF CheckCommit, Violating, Recorded
<1>3. ASSUME NEW p \in Proc, Commit(p) PROVE v \in Recorded'
  <2>1. CASE v \in DOMAIN req[p].new
    BY <1>3, <2>1, Images2, WrittenTyped, NoneAssumption DEF Commit, Recorded, Inv
  <2>2. CASE v \notin DOMAIN req[p].new
    BY <1>3, <2>2 DEF Commit, Recorded
  <2>. QED  BY <2>1, <2>2
<1>4. CASE Post
  BY <1>4 DEF Post, Recorded, Inv, TypeOK
<1>. QED
  BY <1>1, <1>2, <1>3, <1>4
     DEF Next, CheckLoad, Judge, EscalateLoad, PatchLoad, Fail, Enter, Tick, vars

-----------------------------------------------------------------------------
(* Control points.                                                         *)

LEMMA MissedStaysRecorded == Inv /\ [Next]_vars => MissedIsRecorded'
<1>. SUFFICES ASSUME Inv, [Next]_vars, NEW c \in Checkpoint
              PROVE  /\ status'[c] = "missed" => c \in recorded'
                     /\ c \in recorded' => \E q \in Proc : violations'[<<c, q>>] # None
  BY DEF MissedIsRecorded
<1>. USE DEF Inv, MissedIsRecorded
<1>0. \A q \in Proc : <<c, q>> \in Id
  BY DEF Id
<1>1. ASSUME NEW q \in Proc, violations[<<c, q>>] # None PROVE violations'[<<c, q>>] # None
  BY <1>0, <1>1, RowsStay DEF Recorded
<1>2. CASE UNCHANGED <<status, recorded>>
  BY <1>1, <1>2
<1>3. ASSUME NEW p \in Proc, CheckCommit(p)
      PROVE  /\ status'[c] = "missed" => c \in recorded'
             /\ c \in recorded' => \E q \in Proc : violations'[<<c, q>>] # None
  <2>1. req[p].noted \subseteq recorded /\ req[p].week \in Week
    BY DEF ChecksAreSound, TypeOK, Request
  <2>2. status'[c] = "missed" => c \in recorded'
    BY <1>3, <2>1 DEF CheckCommit, Verdicts, Missed
  <2>3. c \in Missed(p) => violations'[<<c, p>>] # None
    BY <1>0, <1>3, <2>1, NewTyped, NoneAssumption DEF CheckCommit, Violating
  <2>4. c \in recorded' => c \in recorded \/ c \in Missed(p)
    BY <1>3 DEF CheckCommit, Verdicts
  <2>. QED  BY <1>1, <2>2, <2>3, <2>4
<1>. QED
  BY <1>2, <1>3
     DEF Next, CheckLoad, Judge, EscalateLoad, Commit, PatchLoad, Fail, Post, Enter, Tick, vars

\* A row that changes is one that a commit writes; and a row that comes up is of
\* a check that commits, or by hand.
LEMMA RowsChangeByCommit ==
  ASSUME Inv, [Next]_vars, NEW v \in Recorded, violations'[v] # violations[v]
  PROVE  \E p \in Proc : Commit(p) /\ v \in DOMAIN req[p].new
<1>. v \in Id /\ violations[v] # None
  BY DEF Recorded
<1>. ~UNCHANGED violations
  OBVIOUS
<1>1. ASSUME NEW p \in Proc, CheckCommit(p) PROVE FALSE
  <2>1. PICK c \in Missed(p) : v = <<c, p>>
    BY <1>1 DEF CheckCommit, Violating
  <2>2. c \in req[p].held
    BY <2>1 DEF Missed
  <2>. QED  BY <1>1, <2>1, <2>2 DEF CheckCommit, Inv, ChecksAreSound
<1>2. CASE Post
  BY <1>2 DEF Post, Inv, TypeOK
<1>3. PICK p \in Proc : Commit(p)
  BY <1>1, <1>2 DEF Next, CheckLoad, Judge, EscalateLoad, PatchLoad, Fail, Enter, Tick, vars
<1>. QED  BY <1>3 DEF Commit

LEMMA RowsComeOfChecks ==
  ASSUME Inv, [Next]_vars, NEW v \in Id, violations[v] = None, violations'[v] # None
  PROVE  (v = ByHand /\ Post) \/ \E p \in Proc : \E c \in Missed(p) : CheckCommit(p) /\ v = <<c, p>>
<1>. ~UNCHANGED violations
  OBVIOUS
<1>1. ASSUME NEW p \in Proc, Commit(p) PROVE FALSE
  BY <1>1 DEF Commit, Inv, ImagesAreSound, Recorded
<1>2. ASSUME NEW p \in Proc, CheckCommit(p) PROVE \E c \in Missed(p) : v = <<c, p>>
  BY <1>2 DEF CheckCommit, Violating
<1>3. CASE Post
  BY <1>3 DEF Post, Inv, TypeOK
<1>. QED
  BY <1>1, <1>2, <1>3 DEF Next, CheckLoad, Judge, EscalateLoad, PatchLoad, Fail, Enter, Tick, vars

\* A verdict changes only by a check that commits, of a point it has judged.
LEMMA VerdictsChangeByChecks ==
  ASSUME Inv, [Next]_vars, NEW c \in Checkpoint, status'[c] # status[c]
  PROVE  status'[c] # "pending" /\ \E p \in Proc : CheckCommit(p) /\ c \in req[p].held
<1>1. ASSUME NEW p \in Proc, CheckCommit(p) PROVE status'[c] # "pending" /\ c \in req[p].held
  BY <1>1 DEF CheckCommit, Verdicts
<1>. QED
  BY <1>1 DEF Next, CheckLoad, Judge, EscalateLoad, Commit, PatchLoad, Fail, Post, Enter, Tick, vars

LEMMA VerdictsStayKept == Inv /\ [Next]_vars => VerdictsAreKept'
<1>. SUFFICES ASSUME Inv, [Next]_vars, NEW c \in Checkpoint, NEW q \in Proc,
                     violations'[<<c, q>>] # None
              PROVE  status'[c] # "pending"
  BY DEF VerdictsAreKept
<1>1. CASE violations[<<c, q>>] # None
  BY <1>1, VerdictsChangeByChecks DEF Inv, VerdictsAreKept
<1>2. CASE violations[<<c, q>>] = None
  <2>1. <<c, q>> \in Id /\ <<c, q>> # ByHand
    BY NamesAssumption DEF Id, ByHand
  <2>2. PICK p \in Proc : \E d \in Missed(p) : CheckCommit(p) /\ <<c, q>> = <<d, p>>
    BY <1>2, <2>1, RowsComeOfChecks
  <2>3. c \in req[p].held
    BY <2>2 DEF Missed
  <2>. QED  BY <2>2, <2>3 DEF CheckCommit, Verdicts
<1>. QED  BY <1>1, <1>2

\* Only a check that ends changes a verdict, of a point it has judged.
LEMMA ChecksStaySound == Inv /\ [Next]_vars => ChecksAreSound'
<1>. DEFINE Sound(q) == /\ req[q].at = "idle" => req[q] = IdleReq
                        /\ req[q].noted \subseteq recorded
                        /\ req[q].week <= today
                        /\ req[q].at = "check" =>
                             \A c \in req[q].todo \cup req[q].held : violations[<<c, q>>] = None
                        /\ req[q].at = "check" /\ ~req[q].late =>
                             \A c \in req[q].todo \cup req[q].held : status[c] = "pending"
<1>. SUFFICES ASSUME Inv, [Next]_vars, NEW q \in Proc PROVE Sound(q)'
  BY DEF ChecksAreSound, At
<1>. TypeOK /\ Sound(q) /\ req[q] \in Request
  BY DEF Inv, ChecksAreSound, At, TypeOK
<1>. USE DEF At
<1>a. today \in Nat /\ today' \in Nat /\ today <= today'
  <2>1. today' = today \/ Tick
    BY DEF Next, CheckLoad, Judge, CheckCommit, EscalateLoad, Commit, PatchLoad, Fail, Post, Enter, vars
  <2>2. today \in Nat
    BY WeekAssumption DEF TypeOK, Week
  <2>. QED  BY <2>1, <2>2 DEF Tick
<1>b. recorded \subseteq recorded'
  BY DEF Next, CheckLoad, Judge, CheckCommit, Verdicts, EscalateLoad, Commit, PatchLoad, Fail, Post,
     Enter, Tick, vars
<1>c. ASSUME ~CheckCommit(q), NEW c \in Checkpoint, violations[<<c, q>>] = None
      PROVE  violations'[<<c, q>>] = None
  <2>1. <<c, q>> \in Id /\ <<c, q>> # ByHand
    BY NamesAssumption DEF Id, ByHand
  <2>. QED  BY <1>c, <2>1, RowsComeOfChecks
<1>d. req[q].todo \cup req[q].held \subseteq Checkpoint /\ req[q].week \in Nat
  BY WeekAssumption DEF Request, Week
<1>e. ASSUME req'[q] = IdleReq PROVE Sound(q)'
  BY <1>a, <1>e DEF IdleReq
<1>1. ASSUME ~CheckCommit(q), UNCHANGED status,
             \A f \in {"at", "noted", "week", "late"} : req'[q][f] = req[q][f],
             req'[q].todo \cup req'[q].held = req[q].todo \cup req[q].held,
             req[q].at = "idle" => req'[q] = req[q]
      PROVE  Sound(q)'
  <2>1. /\ req'[q].at = req[q].at /\ req'[q].noted = req[q].noted
        /\ req'[q].week = req[q].week /\ req'[q].late = req[q].late
    BY <1>1
  <2>2. req'[q].week <= today' /\ req'[q].noted \subseteq recorded'
    BY <1>a, <1>b, <1>d, <2>1
  <2>3. req'[q].at = "check" =>
          \A c \in req'[q].todo \cup req'[q].held : violations'[<<c, q>>] = None
    BY <1>1, <1>c, <1>d, <2>1
  <2>. QED  BY <1>1, <2>1, <2>2, <2>3
<1>2. ASSUME ~CheckCommit(q), UNCHANGED status, req'[q] = req[q] PROVE Sound(q)'
  BY <1>1, <1>2
<1>3. ASSUME NEW p \in Proc, NEW ch \in Challenge, CheckLoad(p, ch) PROVE Sound(q)'
  <2>1. CASE q = p
    <3>1. req'[q] = [IdleReq EXCEPT !.at = "check", !.week = today, !.todo = Due(ch),
                                    !.met = {c \in Due(ch) : actual[c] = "enough"},
                                    !.noted = recorded \cap Due(ch)]
      BY <1>3, <2>1 DEF CheckLoad, TypeOK
    <3>2. /\ req'[q].at = "check" /\ req'[q].noted \subseteq recorded /\ req'[q].week = today
          /\ req'[q].todo \cup req'[q].held = Due(ch)
      BY <3>1 DEF IdleReq
    <3>3. /\ UNCHANGED <<today, status, recorded, violations>>
          /\ \A c \in Due(ch) : c \in Checkpoint /\ status[c] = "pending"
      BY <1>3 DEF CheckLoad, Due, Points
    <3>4. \A c \in Due(ch) : violations[<<c, q>>] = None
      BY <3>3 DEF Inv, VerdictsAreKept
    <3>. QED  BY <1>a, <3>2, <3>3, <3>4
  <2>2. CASE q # p
    <3>1. CASE CheckCommit(q)
      BY <1>3, <2>2, <3>1 DEF CheckLoad, CheckCommit, Closed, TypeOK, IdleReq
    <3>. QED  BY <1>2, <1>3, <2>2, <3>1 DEF CheckLoad, TypeOK
  <2>. QED  BY <2>1, <2>2
<1>4. ASSUME NEW p \in Proc, NEW c \in Checkpoint, Judge(p, c) PROVE Sound(q)'
  <2>1. CASE q = p
    <3>. DEFINE r == req[q]
    <3>1. r.at = "check" /\ c \in r.todo
      BY <1>4, <2>1 DEF Judge
    <3>2. r \in Request /\ req'[q] = [r EXCEPT !.todo = r.todo \ {c}, !.held = r.held \cup {c}]
      BY <1>4, <2>1 DEF Judge, TypeOK, Request
    <3>3. ~CheckCommit(q) /\ UNCHANGED status
      BY <1>4, <3>1 DEF Judge, CheckCommit
    <3>. HIDE DEF r
    <3>4. /\ \A f \in {"at", "noted", "week", "late"} : req'[q][f] = r[f]
          /\ req'[q].todo = r.todo \ {c} /\ req'[q].held = r.held \cup {c}
      BY <3>2 DEF Request
    <3>. USE DEF r
    <3>. QED  BY <1>1, <3>1, <3>3, <3>4
  <2>2. CASE q # p
    <3>1. req'[q] = req[q] /\ UNCHANGED status /\ req'[p] # IdleReq
      <4>1. req'[p].held # {}
        BY <1>4 DEF Judge, TypeOK, Request
      <4>. QED  BY <1>4, <2>2, <4>1 DEF Judge, TypeOK, IdleReq
    <3>2. ~CheckCommit(q)
      BY <1>4, <2>2, <3>1 DEF CheckCommit, Closed, IdleReq
    <3>. QED  BY <1>2, <3>1, <3>2
  <2>. QED  BY <2>1, <2>2
<1>5. ASSUME NEW p \in Proc, q # p, req' = Closed(p) PROVE Sound(q)'
  <2>1. CASE req[q].at = "idle"
    <3>1. req'[q] = IdleReq
      BY <1>5, <2>1 DEF Closed
    <3>. QED  BY <1>e, <3>1
  <2>2. CASE req[q].at # "idle"
    <3>. DEFINE r == req[q]
    <3>1. req'[q] = [r EXCEPT !.late = TRUE] /\ r \in Request
      BY <1>5, <2>2 DEF Closed
    <3>. HIDE DEF r
    <3>2. /\ req'[q].late
          /\ \A f \in {"at", "noted", "week", "todo", "held"} : req'[q][f] = r[f]
      BY <3>1 DEF Request
    <3>. USE DEF r
    <3>3. ~CheckCommit(q)
      BY <2>2, <3>2 DEF CheckCommit, Closed, IdleReq
    <3>4. req'[q].week <= today' /\ req'[q].noted \subseteq recorded'
      BY <1>a, <1>b, <1>d, <3>2
    <3>. QED  BY <1>c, <1>d, <2>2, <3>2, <3>3, <3>4
  <2>. QED  BY <2>1, <2>2
<1>6. ASSUME NEW p \in Proc, CheckCommit(p) \/ Commit(p) PROVE Sound(q)'
  <2>1. req' = Closed(p)
    BY <1>6 DEF CheckCommit, Commit
  <2>2. CASE q = p
    BY <1>e, <2>1, <2>2 DEF Closed
  <2>. QED  BY <1>5, <2>1, <2>2
<1>7. ASSUME NEW p \in Proc, Fail(p) PROVE Sound(q)'
  <2>1. CASE q = p
    BY <1>7, <1>e, <2>1 DEF Fail, TypeOK
  <2>2. CASE CheckCommit(q)
    BY <1>6, <2>2
  <2>3. CASE q # p /\ ~CheckCommit(q)
    BY <1>2, <1>7, <2>3 DEF Fail, TypeOK
  <2>. QED  BY <2>1, <2>2, <2>3
<1>8. ASSUME NEW p \in Proc, NEW point \in {"escalate", "patch"}, NEW old, NEW new,
             req' = [req EXCEPT ![p] = [@ EXCEPT !.at = point, !.old = old, !.new = new]],
             UNCHANGED <<status, recorded, violations>>
      PROVE  Sound(q)'
  <2>1. CASE q = p
    <3>. DEFINE r == req[q]
    <3>1. req'[q] = [r EXCEPT !.at = point, !.old = old, !.new = new] /\ r \in Request
      BY <1>8, <2>1 DEF TypeOK
    <3>. HIDE DEF r
    <3>2. req'[q].at = point /\ req'[q].noted = r.noted /\ req'[q].week = r.week
      BY <3>1 DEF Request
    <3>. USE DEF r
    <3>3. req'[q].week <= today' /\ req'[q].noted \subseteq recorded'
      BY <1>a, <1>b, <1>d, <3>2
    <3>. QED  BY <1>8, <3>2, <3>3
  <2>2. CASE CheckCommit(q)
    BY <1>6, <2>2
  <2>3. CASE q # p /\ ~CheckCommit(q)
    BY <1>2, <1>8, <2>3 DEF TypeOK
  <2>. QED  BY <2>1, <2>2, <2>3
<1>9. ASSUME NEW p \in Proc, EscalateLoad(p) PROVE Sound(q)'
  BY <1>8, <1>9 DEF EscalateLoad
<1>10. ASSUME NEW p \in Proc, NEW v, NEW new, PatchLoad(p, v, new) PROVE Sound(q)'
  BY <1>8, <1>10 DEF PatchLoad
<1>11. CASE Post \/ Tick \/ \E c \in Checkpoint, n \in {"short", "enough"} : Enter(c, n)
  <2>1. CASE CheckCommit(q)
    BY <1>6, <2>1
  <2>. QED  BY <1>2, <1>11, <2>1 DEF Post, Tick, Enter
<1>12. CASE UNCHANGED vars
  <2>1. CASE CheckCommit(q)
    BY <1>6, <2>1
  <2>. QED  BY <1>2, <1>12, <2>1 DEF vars
<1>. QED
  BY <1>3, <1>4, <1>6, <1>7, <1>9, <1>10, <1>11, <1>12 DEF Next

-----------------------------------------------------------------------------
(* Rows that are carried.                                                  *)

\* What has been read of a row bounds what it is now.
Carried(p, v) ==
  LET old == req[p].old[v]  new == req[p].new[v] IN
    /\ ~req[p].late => violations[v] = old
    /\ old.week = violations[v].week /\ new.week = violations[v].week
    /\ old.byhand => violations[v].byhand
    /\ old.escalated => violations[v].escalated \/ violations[v].byhand

\* A row that a commit changes keeps its week, stays by hand, and stays
\* escalated unless it is by hand.
LEMMA CommitKeeps ==
  ASSUME Inv, NEW p \in Proc, Commit(p), NEW v \in Recorded
  PROVE  /\ violations'[v].week = violations[v].week
         /\ violations[v].byhand => violations'[v].byhand
         /\ violations[v].escalated => violations'[v].escalated \/ violations'[v].byhand
<1>. USE DEF Inv
<1>0. v \in Id
  BY DEF Recorded
<1>1. CASE v \notin DOMAIN req[p].new
  BY <1>0, <1>1 DEF Commit
<1>2. CASE v \in DOMAIN req[p].new
  <2>. DEFINE old == req[p].old[v]  new == req[p].new[v]
  <2>1. violations[v] \in Violation /\ old \in Violation /\ new \in Violation
    BY <1>2, Images2
  <2>2. violations'[v] = Written(violations[v], old, new)
    BY <1>0, <1>2 DEF Commit
  <2>3. old.week = violations[v].week /\ new.week = violations[v].week
    BY <1>2 DEF ImagesAreSound
  <2>4. CASE req[p].at = "patch"
    <3>1. new.byhand /\ (old.byhand => violations[v].byhand)
      BY <1>2, <2>4 DEF ChangesAreDue, ImagesAreSound, At
    <3>2. violations'[v].byhand
      BY <2>1, <2>2, <3>1, WrittenTyped
    <3>. QED  BY <2>1, <2>2, <2>3, <3>2, WrittenTyped
  <2>5. CASE req[p].at = "escalate"
    <3>1. new.byhand = old.byhand /\ (~old.byhand => new.escalated)
      BY <1>2, <2>5 DEF ChangesAreDue, At
    <3>2. old.byhand => violations[v].byhand
      BY <1>2 DEF ImagesAreSound
    <3>3. violations'[v].byhand = violations[v].byhand
      BY <2>1, <2>2, <3>1, WrittenTyped
    <3>4. violations'[v].escalated = IF new.escalated = old.escalated THEN violations[v].escalated
                                     ELSE new.escalated
      BY <2>1, <2>2, WrittenTyped
    <3>. QED  BY <2>1, <2>2, <2>3, <3>1, <3>2, <3>3, <3>4, WrittenTyped
  <2>. QED  BY <2>4, <2>5 DEF Commit, At
<1>. QED  BY <1>1, <1>2

\* Loading notes the rows as they are.
LEMMA ImagesStaySound == Inv /\ [Next]_vars => ImagesAreSound'
<1>. DEFINE Sound(q) == /\ DOMAIN req[q].old = DOMAIN req[q].new
                        /\ req[q].at \in {"idle", "check"} => DOMAIN req[q].new = {}
                        /\ \A v \in DOMAIN req[q].new : v \in Recorded /\ Carried(q, v)
<1>. SUFFICES ASSUME Inv, [Next]_vars, NEW q \in Proc PROVE Sound(q)'
  BY DEF ImagesAreSound, Carried, At
<1>. TypeOK /\ Sound(q) /\ req[q] \in Request
  BY DEF Inv, ImagesAreSound, Carried, At, TypeOK
<1>. USE DEF At
<1>1. ASSUME NEW v \in DOMAIN req[q].new PROVE v \in Recorded'
  BY <1>1, RowsStay
<1>2. ASSUME req'[q].at = req[q].at \/ DOMAIN req[q].new = {},
             req'[q].old = req[q].old, req'[q].new = req[q].new, req'[q].late = req[q].late,
             UNCHANGED violations \/ \A v \in Recorded : violations'[v] = violations[v],
             DOMAIN req[q].new = {} \/ req'[q].at \notin {"idle", "check"}
      PROVE  Sound(q)'
  <2>1. \A v \in DOMAIN req'[q].new : v \in Recorded' /\ violations'[v] = violations[v]
    BY <1>1, <1>2
  <2>. QED  BY <1>2, <2>1 DEF Carried
<1>3. ASSUME req'[q] = IdleReq PROVE Sound(q)'
  BY <1>3, NoImage DEF IdleReq
<1>4. ASSUME NEW p \in Proc, req' = Closed(p),
             \A v \in Recorded : /\ violations'[v].week = violations[v].week
                                 /\ violations[v].byhand => violations'[v].byhand
                                 /\ violations[v].escalated =>
                                      violations'[v].escalated \/ violations'[v].byhand
      PROVE  Sound(q)'
  <2>1. CASE q = p \/ req[q].at = "idle"
    <3>1. req'[q] = IdleReq
      BY <1>4, <2>1 DEF Closed, Inv, ChecksAreSound
    <3>. QED  BY <1>3, <3>1
  <2>2. CASE q # p /\ req[q].at # "idle"
    <3>. DEFINE r == req[q]
    <3>1. req'[q] = [r EXCEPT !.late = TRUE] /\ r \in Request
      BY <1>4, <2>2 DEF Closed
    <3>. HIDE DEF r
    <3>2. req'[q].late /\ req'[q].at = r.at /\ req'[q].old = r.old /\ req'[q].new = r.new
      BY <3>1 DEF Request
    <3>. USE DEF r
    <3>3. \A v \in DOMAIN req[q].new : v \in Recorded /\ v \in Recorded'
      BY <1>1
    <3>. QED  BY <1>4, <3>2, <3>3 DEF Carried
  <2>. QED  BY <2>1, <2>2
<1>5. ASSUME NEW p \in Proc, CheckCommit(p) PROVE Sound(q)'
  <2>1. \A v \in Recorded : violations'[v] = violations[v]
    <3>. SUFFICES ASSUME NEW v \in Recorded, violations'[v] # violations[v] PROVE FALSE
      OBVIOUS
    <3>1. PICK o \in Proc : Commit(o)
      BY RowsChangeByCommit
    <3>2. CASE o = p
      BY <1>5, <3>1, <3>2 DEF CheckCommit, Commit
    <3>3. CASE o # p
      BY <1>5, <3>1, <3>3 DEF CheckCommit, Commit, Closed, IdleReq
    <3>. QED  BY <3>2, <3>3
  <2>. QED  BY <1>4, <1>5, <2>1 DEF CheckCommit
<1>6. ASSUME NEW p \in Proc, Commit(p) PROVE Sound(q)'
  BY <1>4, <1>6, CommitKeeps DEF Commit
<1>7. ASSUME NEW p \in Proc, Fail(p) PROVE Sound(q)'
  <2>1. CASE q = p
    BY <1>3, <1>7, <2>1 DEF Fail, TypeOK
  <2>2. CASE q # p
    BY <1>2, <1>7, <2>2 DEF Fail, TypeOK
  <2>. QED  BY <2>1, <2>2
<1>8. ASSUME NEW p \in Proc, NEW ch \in Challenge, CheckLoad(p, ch) PROVE Sound(q)'
  <2>1. CASE q = p
    <3>1. req[q] = IdleReq
      BY <1>8, <2>1 DEF CheckLoad, Inv, ChecksAreSound
    <3>2. req'[q] = [IdleReq EXCEPT !.at = "check", !.week = today, !.todo = Due(ch),
                                    !.met = {c \in Due(ch) : actual[c] = "enough"},
                                    !.noted = recorded \cap Due(ch)]
      BY <1>8, <2>1, <3>1 DEF CheckLoad, TypeOK
    <3>3. req'[q].old = <<>> /\ req'[q].new = <<>>
      BY <3>2 DEF IdleReq
    <3>. QED  BY <3>3, NoImage
  <2>2. CASE q # p
    BY <1>2, <1>8, <2>2 DEF CheckLoad, TypeOK
  <2>. QED  BY <2>1, <2>2
<1>9. ASSUME NEW p \in Proc, NEW c \in Checkpoint, Judge(p, c) PROVE Sound(q)'
  <2>1. CASE q = p
    <3>. DEFINE r == req[q]
    <3>1. r \in Request /\ req'[q] = [r EXCEPT !.todo = r.todo \ {c}, !.held = r.held \cup {c}]
      BY <1>9, <2>1 DEF Judge, TypeOK, Request
    <3>2. r.at = "check"
      BY <1>9, <2>1 DEF Judge
    <3>. HIDE DEF r
    <3>3. req'[q].at = r.at /\ req'[q].old = r.old /\ req'[q].new = r.new /\ req'[q].late = r.late
      BY <3>1 DEF Request
    <3>. USE DEF r
    <3>. QED  BY <1>2, <1>9, <3>2, <3>3 DEF Judge
  <2>2. CASE q # p
    BY <1>2, <1>9, <2>2 DEF Judge, TypeOK
  <2>. QED  BY <2>1, <2>2
<1>10. ASSUME NEW p \in Proc, UNCHANGED violations,
              q # p => req'[q] = req[q],
              req'[p].at \notin {"idle", "check"},
              DOMAIN req'[p].old = DOMAIN req'[p].new,
              DOMAIN req'[p].new \subseteq Recorded,
              \A v \in DOMAIN req'[p].new :
                req'[p].old[v] = violations[v] /\ req'[p].new[v].week = violations[v].week
      PROVE  Sound(q)'
  <2>1. CASE q = p
    <3>1. \A v \in DOMAIN req'[p].new : v \in Recorded'
      BY <1>10, RowsStay
    <3>. QED  BY <1>10, <2>1, <3>1 DEF Carried
  <2>2. CASE q # p
    BY <1>2, <1>10, <2>2
  <2>. QED  BY <2>1, <2>2
<1>11. ASSUME NEW p \in Proc, EscalateLoad(p) PROVE Sound(q)'
  <2>. DEFINE up(v) == Climbed(violations[v], today - violations[v].week)
              rise  == {v \in Recorded : ~violations[v].resolved /\ up(v) # violations[v]}
              old == [v \in rise |-> violations[v]]
              new == [v \in rise |-> up(v)]
  <2>1. /\ DOMAIN old \subseteq Recorded /\ DOMAIN new = DOMAIN old
        /\ \A v \in DOMAIN old : old[v] = violations[v] /\ new[v].week = violations[v].week
    BY DEF Climbed, Recorded, TypeOK, Violation
  <2>2. req' = [req EXCEPT ![p] = [@ EXCEPT !.at = "escalate", !.old = old, !.new = new]]
    BY <1>11 DEF EscalateLoad
  <2>3. UNCHANGED violations
    BY <1>11 DEF EscalateLoad
  <2>. HIDE DEF old, new
  <2>4. req'[p].at = "escalate" /\ req'[p].old = old /\ req'[p].new = new
    BY <2>2 DEF TypeOK, Request
  <2>5. q # p => req'[q] = req[q]
    BY <2>2 DEF TypeOK
  <2>. QED  BY <1>10, <2>1, <2>3, <2>4, <2>5
<1>12. ASSUME NEW p \in Proc, NEW v \in Recorded, NEW body \in Bodies(violations[v]), PatchLoad(p, v, body)
       PROVE  Sound(q)'
  <2>. DEFINE old == [w \in {v} |-> violations[w]]
              new == [w \in {v} |-> [body EXCEPT !.byhand = TRUE]]
  <2>1. violations[v] \in Violation
    BY DEF Recorded, TypeOK
  <2>2. \/ \E b \in BOOLEAN : body = [violations[v] EXCEPT !.resolved = b]
        \/ body = [violations[v] EXCEPT !.escalated = TRUE]
        \/ \E r \in 1..3 : body = [violations[v] EXCEPT !.escalated = TRUE, !.to = r]
    BY Zenon DEF Bodies
  <2>3. [body EXCEPT !.byhand = TRUE].week = violations[v].week
    BY <2>1, <2>2 DEF Violation
  <2>4. /\ DOMAIN old \subseteq Recorded /\ DOMAIN new = DOMAIN old
        /\ \A w \in DOMAIN old : old[w] = violations[w] /\ new[w].week = violations[w].week
    BY <2>3
  <2>5. req' = [req EXCEPT ![p] = [@ EXCEPT !.at = "patch", !.old = old, !.new = new]]
    BY <1>12 DEF PatchLoad
  <2>6. UNCHANGED violations
    BY <1>12 DEF PatchLoad
  <2>. HIDE DEF old, new
  <2>7. req'[p].at = "patch" /\ req'[p].old = old /\ req'[p].new = new
    BY <2>5 DEF TypeOK, Request
  <2>8. q # p => req'[q] = req[q]
    BY <2>5 DEF TypeOK
  <2>. QED  BY <1>10, <2>4, <2>6, <2>7, <2>8
<1>13. CASE Post
  BY <1>2, <1>13, RowsChangeByCommit DEF Post, Recorded
<1>14. CASE UNCHANGED vars \/ Tick \/ \E c \in Checkpoint, n \in {"short", "enough"} : Enter(c, n)
  BY <1>2, <1>14 DEF vars, Tick, Enter
<1>. QED
  BY <1>5, <1>6, <1>7, <1>8, <1>9, <1>10, <1>11, <1>12, <1>13, <1>14 DEF Next

\* A climb is one role up, and due.
LEMMA ClimbIsDue ==
  ASSUME NEW v \in Violation, v.escalated <=> v.to > 0, NEW w \in Int, Climbed(v, w) # v
  PROVE  Climbed(v, w).escalated /\ Climbed(v, w).to = v.to + 1 /\ w >= Climbed(v, w).to
<1>1. v.to \in Nat /\ (~v.escalated => v.to = 0)
  BY DEF Violation, Role
<1>2. CASE ~v.escalated /\ w >= 1
  <2>1. Climbed(v, w) = [v EXCEPT !.escalated = TRUE, !.to = 1]
    BY <1>2 DEF Climbed
  <2>. QED  BY <1>1, <1>2, <2>1 DEF Violation
<1>3. CASE ~(~v.escalated /\ w >= 1) /\ v.to \in {1, 2} /\ w > v.to
  <2>1. Climbed(v, w) = [v EXCEPT !.to = v.to + 1]
    BY <1>3 DEF Climbed, Violation
  <2>2. Climbed(v, w).escalated = v.escalated /\ Climbed(v, w).to = v.to + 1
    BY <2>1 DEF Violation
  <2>. QED  BY <1>1, <1>3, <2>2
<1>. QED  BY <1>2, <1>3 DEF Climbed

LEMMA ChangesStayDue == Inv /\ [Next]_vars => ChangesAreDue'
<1>. DEFINE Change(q, v) ==
       /\ At(q, "patch") => req[q].new[v].byhand
       /\ At(q, "escalate") =>
            /\ ~req[q].old[v].resolved
            /\ req[q].new[v].resolved = req[q].old[v].resolved
            /\ req[q].new[v].byhand = req[q].old[v].byhand
            /\ ~req[q].old[v].byhand =>
                 /\ req[q].new[v].escalated /\ req[q].new[v].to = req[q].old[v].to + 1
                 /\ today - req[q].new[v].week >= req[q].new[v].to
<1>. SUFFICES ASSUME Inv, [Next]_vars, NEW q \in Proc, NEW v \in DOMAIN req'[q].new
              PROVE  Change(q, v)'
  BY DEF ChangesAreDue
<1>. TypeOK /\ TypeOK' /\ req[q] \in Request
  BY Typing DEF Inv, TypeOK
<1>. USE DEF At
<1>1. ASSUME req'[q].new = req[q].new, req'[q].old = req[q].old, req'[q].at = req[q].at
      PROVE  Change(q, v)'
  <2>1. Change(q, v)
    BY <1>1 DEF Inv, ChangesAreDue
  <2>2. today' = today \/ Tick
    BY DEF Next, CheckLoad, Judge, CheckCommit, EscalateLoad, Commit, PatchLoad, Fail, Post, Enter, vars
  <2>3. today \in Nat /\ today' \in Nat /\ today <= today'
    BY <2>2, WeekAssumption DEF Tick, TypeOK, Week
  <2>4. req[q].new[v].week \in Nat /\ req[q].new[v].to \in Nat
    BY <1>1, Images2, WeekAssumption DEF Violation, Week, Role, Inv
  <2>. QED  BY <1>1, <2>1, <2>3, <2>4
<1>2. ASSUME NEW p \in Proc, req' = Closed(p) PROVE Change(q, v)'
  <2>1. CASE q = p \/ req[q].at = "idle"
    <3>1. req'[q] = IdleReq
      BY <1>2, <2>1 DEF Closed, Inv, ChecksAreSound
    <3>. QED  BY <3>1, NoImage DEF IdleReq
  <2>2. CASE q # p /\ req[q].at # "idle"
    BY <1>1, <1>2, <2>2, ClosedParts
  <2>. QED  BY <2>1, <2>2
<1>3. ASSUME NEW p \in Proc, Fail(p) PROVE Change(q, v)'
  <2>1. CASE q = p
    <3>1. req'[q] = IdleReq
      BY <1>3, <2>1 DEF Fail, TypeOK
    <3>. QED  BY <3>1, NoImage DEF IdleReq
  <2>2. CASE q # p
    BY <1>1, <1>3, <2>2 DEF Fail
  <2>. QED  BY <2>1, <2>2
<1>4. ASSUME NEW p \in Proc, NEW ch \in Challenge, CheckLoad(p, ch) PROVE Change(q, v)'
  <2>1. CASE q = p
    <3>1. req'[q].at = "check"
      BY <1>4, <2>1 DEF CheckLoad, TypeOK, Request
    <3>. QED  BY <3>1
  <2>2. CASE q # p
    BY <1>1, <1>4, <2>2 DEF CheckLoad
  <2>. QED  BY <2>1, <2>2
<1>5. ASSUME NEW p \in Proc, NEW c \in Checkpoint, Judge(p, c) PROVE Change(q, v)'
  <2>1. CASE q = p
    <3>1. req'[q].at = "check"
      BY <1>5, <2>1 DEF Judge, TypeOK, Request
    <3>. QED  BY <3>1
  <2>2. CASE q # p
    BY <1>1, <1>5, <2>2 DEF Judge, TypeOK
  <2>. QED  BY <2>1, <2>2
<1>6. ASSUME NEW p \in Proc, EscalateLoad(p) PROVE Change(q, v)'
  <2>. DEFINE up(w) == Climbed(violations[w], today - violations[w].week)
              rise  == {w \in Recorded : ~violations[w].resolved /\ up(w) # violations[w]}
              old == [w \in rise |-> violations[w]]
              new == [w \in rise |-> up(w)]
  <2>1. DOMAIN old = rise /\ DOMAIN new = rise
    OBVIOUS
  <2>2. req' = [req EXCEPT ![p] = [@ EXCEPT !.at = "escalate", !.old = old, !.new = new]]
    BY <1>6 DEF EscalateLoad
  <2>3. UNCHANGED today
    BY <1>6 DEF EscalateLoad
  <2>4. CASE q = p
    <3>1. req'[q].at = "escalate" /\ req'[q].old = old /\ req'[q].new = new
      <4>. HIDE DEF old, new
      <4>. QED  BY <2>2, <2>4 DEF TypeOK, Request
    <3>2. v \in rise
      BY <2>1, <3>1
    <3>3. v \in Id /\ violations[v] \in Violation /\ today - violations[v].week \in Int /\ ~violations[v].resolved
      BY <3>2, WeekAssumption DEF Recorded, TypeOK, Violation, Week
    <3>4. req'[q].old[v] = violations[v] /\ req'[q].new[v] = up(v) /\ up(v) # violations[v]
      BY <3>1, <3>2
    <3>5. /\ up(v).week = violations[v].week /\ up(v).byhand = violations[v].byhand
          /\ up(v).resolved = violations[v].resolved
      BY <3>3 DEF Climbed, Violation
    <3>6. ~violations[v].byhand =>
            up(v).escalated /\ up(v).to = violations[v].to + 1 /\ today - violations[v].week >= up(v).to
      BY <3>2, <3>3, <3>4, ClimbIsDue DEF Inv, EscalationIsDue
    <3>. HIDE DEF up
    <3>. QED  BY <2>3, <3>1, <3>3, <3>4, <3>5, <3>6
  <2>5. CASE q # p
    BY <1>1, <2>2, <2>5
  <2>. QED  BY <2>4, <2>5
<1>7. ASSUME NEW p \in Proc, NEW u \in Recorded, NEW body \in Bodies(violations[u]), PatchLoad(p, u, body)
      PROVE  Change(q, v)'
  <2>. DEFINE old == [w \in {u} |-> violations[w]]
              new == [w \in {u} |-> [body EXCEPT !.byhand = TRUE]]
  <2>1. violations[u] \in Violation
    BY DEF Recorded, TypeOK
  <2>2. \/ \E b \in BOOLEAN : body = [violations[u] EXCEPT !.resolved = b]
        \/ body = [violations[u] EXCEPT !.escalated = TRUE]
        \/ \E r \in 1..3 : body = [violations[u] EXCEPT !.escalated = TRUE, !.to = r]
    BY Zenon DEF Bodies
  <2>3. [body EXCEPT !.byhand = TRUE].byhand
    BY <2>1, <2>2 DEF Violation
  <2>4. req' = [req EXCEPT ![p] = [@ EXCEPT !.at = "patch", !.old = old, !.new = new]]
    BY <1>7 DEF PatchLoad
  <2>5. DOMAIN new = {u} /\ \A w \in DOMAIN new : new[w].byhand
    BY <2>3
  <2>. HIDE DEF old, new
  <2>6. CASE q = p
    <3>1. req'[q].at = "patch" /\ req'[q].new = new
      BY <2>4, <2>6 DEF TypeOK, Request
    <3>. QED  BY <2>5, <3>1
  <2>7. CASE q # p
    BY <1>1, <2>4, <2>7
  <2>. QED  BY <2>6, <2>7
<1>8. CASE UNCHANGED vars \/ Post \/ Tick \/ \E c \in Checkpoint, n \in {"short", "enough"} : Enter(c, n)
  BY <1>1, <1>8 DEF vars, Post, Tick, Enter
<1>. QED
  BY <1>2, <1>3, <1>4, <1>5, <1>6, <1>7, <1>8 DEF Next, CheckCommit, Commit

-----------------------------------------------------------------------------
(* What a commit does to a row.                                            *)

\* An escalation takes an untouched row up when that is due, and no commit makes
\* untouched what a user has changed.
LEMMA CommitEscalates ==
  ASSUME Inv, NEW p \in Proc, Commit(p), NEW v \in DOMAIN req[p].new
  PROVE  /\ violations'[v] \in Violation
         /\ At(p, "escalate") => violations'[v].resolved = violations[v].resolved
         /\ ~violations'[v].byhand =>
              /\ At(p, "escalate") /\ ~violations[v].byhand /\ ~req[p].old[v].byhand
              /\ violations'[v].escalated /\ violations'[v].to = req[p].old[v].to + 1
              /\ today - violations'[v].week >= violations'[v].to
<1>. DEFINE old == req[p].old[v]  new == req[p].new[v]  row == violations[v]
<1>. USE DEF Inv
<1>1. v \in Id /\ row \in Violation /\ old \in Violation /\ new \in Violation
  BY Images2
<1>2. violations'[v] = Written(row, old, new)
  BY <1>1 DEF Commit
<1>3. /\ violations'[v] \in Violation
      /\ \A f \in {"week", "escalated", "to", "resolved", "byhand"} :
           violations'[v][f] = IF new[f] = old[f] THEN row[f] ELSE new[f]
  BY <1>1, <1>2, WrittenTyped
<1>4. /\ old.week = row.week /\ new.week = row.week
      /\ old.byhand => row.byhand
      /\ old.escalated => row.escalated \/ row.byhand
  BY DEF ImagesAreSound
<1>5. CASE At(p, "patch")
  <2>1. new.byhand /\ ~At(p, "escalate")
    BY <1>5 DEF ChangesAreDue, At
  <2>2. violations'[v].byhand
    BY <1>1, <1>3, <1>4, <2>1 DEF Violation
  <2>. QED  BY <1>3, <2>1, <2>2
<1>6. CASE At(p, "escalate")
  <2>1. /\ new.resolved = old.resolved /\ new.byhand = old.byhand
        /\ ~old.byhand => /\ new.escalated /\ new.to = old.to + 1
                          /\ today - new.week >= new.to
    BY <1>6 DEF ChangesAreDue
  <2>2. violations'[v].resolved = row.resolved /\ violations'[v].byhand = row.byhand
    BY <1>3, <2>1
  <2>3. ASSUME ~violations'[v].byhand
        PROVE  /\ ~old.byhand /\ ~row.byhand
               /\ violations'[v].escalated /\ violations'[v].to = old.to + 1
               /\ today - violations'[v].week >= violations'[v].to
    <3>1. ~row.byhand /\ ~old.byhand
      BY <1>4, <2>2, <2>3
    <3>2. old.to \in Nat /\ old.to + 1 # old.to
      BY <1>1 DEF Violation, Role
    <3>3. violations'[v].to = new.to /\ violations'[v].week = new.week
      BY <1>3, <1>4, <2>1, <3>1, <3>2
    <3>4. violations'[v].escalated
      BY <1>1, <1>3, <1>4, <2>1, <3>1 DEF Violation
    <3>. QED  BY <2>1, <3>1, <3>3, <3>4
  <2>. QED  BY <1>3, <1>6, <2>2, <2>3
<1>. QED  BY <1>5, <1>6 DEF Commit

LEMMA EscalationStaysDue == Inv /\ [Next]_vars => EscalationIsDue'
<1>. SUFFICES ASSUME Inv, [Next]_vars, NEW v \in Recorded', ~violations'[v].byhand
              PROVE  /\ violations'[v].escalated <=> violations'[v].to > 0
                     /\ today' - violations'[v].week >= violations'[v].to
  BY DEF EscalationIsDue
<1>. TypeOK
  BY DEF Inv
<1>a. v \in Id /\ violations'[v] # None
  BY DEF Recorded
<1>b. today \in Nat /\ today' \in Nat /\ today <= today'
  <2>1. today' = today \/ Tick
    BY DEF Next, CheckLoad, Judge, CheckCommit, EscalateLoad, Commit, PatchLoad, Fail, Post, Enter, vars
  <2>. QED  BY <2>1, WeekAssumption DEF Tick, TypeOK, Week
<1>1. CASE v \in Recorded /\ violations'[v] = violations[v]
  <2>1. violations[v].week \in Nat /\ violations[v].to \in Nat
    BY <1>1, WeekAssumption DEF Recorded, TypeOK, Violation, Week, Role
  <2>. QED  BY <1>1, <1>b, <2>1 DEF Inv, EscalationIsDue
<1>2. CASE v \in Recorded /\ violations'[v] # violations[v]
  <2>1. PICK p \in Proc : Commit(p) /\ v \in DOMAIN req[p].new
    BY <1>2, RowsChangeByCommit
  <2>2. /\ violations'[v].escalated /\ violations'[v].to = req[p].old[v].to + 1
        /\ today - violations'[v].week >= violations'[v].to
    BY <2>1, CommitEscalates
  <2>3. req[p].old[v].to \in Nat /\ today' = today
    BY <2>1, Images2 DEF Commit, Inv, Violation, Role
  <2>. QED  BY <2>2, <2>3
<1>3. CASE v \notin Recorded
  <2>1. violations[v] = None
    BY <1>3, <1>a DEF Recorded
  <2>2. CASE Post /\ v = ByHand
    <3>1. violations'[v] = New(today) /\ today' = today
      BY <2>2, <1>a DEF Post, TypeOK
    <3>. QED  BY <1>b, <3>1 DEF New
  <2>3. ASSUME NEW p \in Proc, CheckCommit(p), NEW c \in Missed(p), v = <<c, p>>
        PROVE  /\ violations'[v].escalated <=> violations'[v].to > 0
               /\ today' - violations'[v].week >= violations'[v].to
    <3>1. violations'[v] = New(req[p].week) /\ today' = today
      BY <1>a, <2>3 DEF CheckCommit, Violating
    <3>2. req[p].week \in Nat /\ req[p].week <= today
      BY WeekAssumption DEF TypeOK, Request, Week, Inv, ChecksAreSound
    <3>. QED  BY <1>b, <3>1, <3>2 DEF New
  <2>. QED  BY <1>a, <2>1, <2>2, <2>3, RowsComeOfChecks
<1>. QED  BY <1>1, <1>2, <1>3

-----------------------------------------------------------------------------
(* The theorems.                                                           *)

LEMMA Start == Init => Inv
<1>. SUFFICES ASSUME Init PROVE Inv
  OBVIOUS
<1>. USE DEF Init
<1>1. TypeOK
  BY IdleTyped, WeekAssumption DEF TypeOK, Week
<1>2. Recorded = {}
  BY DEF Recorded
<1>3. MissedIsRecorded /\ EscalationIsDue
  BY <1>2 DEF MissedIsRecorded, EscalationIsDue
<1>4. \A c \in Checkpoint, p \in Proc : violations[<<c, p>>] = None
  BY DEF Id
<1>5. \A p \in Proc : req[p] = IdleReq
  OBVIOUS
<1>6. VerdictsAreKept /\ ChecksAreSound
  BY <1>4, <1>5 DEF VerdictsAreKept, ChecksAreSound, IdleReq, At
<1>7. ImagesAreSound /\ ChangesAreDue
  BY <1>5, NoImage DEF ImagesAreSound, ChangesAreDue, IdleReq
<1>. QED  BY <1>1, <1>3, <1>6, <1>7 DEF Inv

\* All of it, from the beginning and however the requests overlap and break off.
THEOREM Invariance == Spec => []Inv
<1>1. Inv /\ [Next]_vars => Inv'
  BY Typing, MissedStaysRecorded, EscalationStaysDue, VerdictsStayKept, ChecksStaySound,
     ImagesStaySound, ChangesStayDue DEF Inv
<1>. QED  BY <1>1, Start, PTL DEF Spec

\* A control point that is missed is recorded, and what is recorded has the
\* violation of a check (check_challenge_checkpoints commits them together).
THEOREM MissedSafety == Spec => []MissedIsRecorded
<1>1. Inv => MissedIsRecorded
  BY DEF Inv
<1>. QED  BY <1>1, Invariance, PTL

\* auto_escalate_violations never takes a violation to a role before its week,
\* even when calls write what they read long ago.
THEOREM EscalationSafety == Spec => []EscalationIsDue
<1>1. Inv => EscalationIsDue
  BY DEF Inv
<1>. QED  BY <1>1, Invariance, PTL

\* A verdict is changed, and another violation of a point recorded, only by a
\* check that others have overtaken.
THEOREM JudgedOnceSafety == Spec => JudgedOnce
<1>1. Inv /\ [Next]_vars =>
        [\A c \in Checkpoint :
           status[c] # "pending"
             /\ \/ status'[c] # status[c]
                \/ \E p \in Proc : violations[<<c, p>>] = None /\ violations'[<<c, p>>] # None
           => Late]_vars
  <2>. SUFFICES ASSUME Inv, [Next]_vars, NEW c \in Checkpoint, status[c] # "pending",
                       \/ status'[c] # status[c]
                       \/ \E p \in Proc : violations[<<c, p>>] = None /\ violations'[<<c, p>>] # None
                PROVE  Late
    OBVIOUS
  <2>1. \E p \in Proc : CheckCommit(p) /\ c \in req[p].held
    <3>1. CASE status'[c] # status[c]
      BY <3>1, VerdictsChangeByChecks
    <3>2. ASSUME NEW q \in Proc, violations[<<c, q>>] = None, violations'[<<c, q>>] # None
          PROVE  \E p \in Proc : CheckCommit(p) /\ c \in req[p].held
      <4>1. <<c, q>> \in Id /\ <<c, q>> # ByHand
        BY NamesAssumption DEF Id, ByHand
      <4>2. PICK p \in Proc : \E d \in Missed(p) : CheckCommit(p) /\ <<c, q>> = <<d, p>>
        BY <3>2, <4>1, RowsComeOfChecks
      <4>. QED  BY <4>2 DEF Missed
    <3>. QED  BY <3>1, <3>2
  <2>2. PICK p \in Proc : CheckCommit(p) /\ c \in req[p].held
    BY <2>1
  <2>3. At(p, "check") /\ At(p, "idle")'
    BY <2>2 DEF CheckCommit, Closed, IdleReq, At
  <2>4. req[p].late
    BY <2>2, <2>3 DEF Inv, ChecksAreSound
  <2>. QED  BY <2>3, <2>4 DEF Late, Ends, At
<1>. QED  BY <1>1, Invariance, PTL DEF Spec, JudgedOnce

\* A request that commits ends.
LEMMA CommitEnds == ASSUME NEW p \in Proc, Commit(p) PROVE Ends(p)
BY DEF Commit, Closed, IdleReq, Ends, At

\* One call takes a violation one role up.
THEOREM StepSafety == Spec => StepByStep
<1>1. Inv /\ [Next]_vars =>
        [\A v \in Recorded : violations'[v].to \notin {violations[v].to, violations[v].to + 1}
                               => Late \/ violations'[v].byhand]_vars
  <2>. SUFFICES ASSUME Inv, [Next]_vars, NEW v \in Recorded, ~violations'[v].byhand,
                       violations'[v].to \notin {violations[v].to, violations[v].to + 1}
                PROVE  Late
    OBVIOUS
  <2>1. PICK p \in Proc : Commit(p) /\ v \in DOMAIN req[p].new
    BY RowsChangeByCommit
  <2>2. violations'[v].to = req[p].old[v].to + 1
    BY <2>1, CommitEscalates
  <2>3. req[p].late
    BY <2>1, <2>2 DEF Inv, ImagesAreSound
  <2>. QED  BY <2>1, <2>3, CommitEnds DEF Late
<1>. QED  BY <1>1, Invariance, PTL DEF Spec, StepByStep

\* What is resolved is left to users, and to calls that they have overtaken; these
\* leave it resolved.
THEOREM ResolutionSafety == Spec => ResolutionsStand
<1>1. Inv /\ [Next]_vars =>
        [\A v \in Recorded :
           violations[v].resolved =>
             /\ violations'[v].to # violations[v].to => Late \/ \E p \in Proc : Ends(p) /\ At(p, "patch")
             /\ ~violations'[v].resolved => \E p \in Proc : Ends(p) /\ At(p, "patch")
                                               /\ ~req[p].new[v].resolved]_vars
  <2>. SUFFICES ASSUME Inv, [Next]_vars, NEW v \in Recorded, violations[v].resolved
                PROVE  /\ violations'[v].to # violations[v].to =>
                            Late \/ \E p \in Proc : Ends(p) /\ At(p, "patch")
                       /\ ~violations'[v].resolved => \E p \in Proc : Ends(p) /\ At(p, "patch")
                                                         /\ ~req[p].new[v].resolved
    OBVIOUS
  <2>1. CASE violations'[v] = violations[v]
    BY <2>1
  <2>2. CASE violations'[v] # violations[v]
    <3>1. PICK p \in Proc : Commit(p) /\ v \in DOMAIN req[p].new
      BY <2>2, RowsChangeByCommit
    <3>2. Ends(p)
      BY <3>1, CommitEnds
    <3>3. CASE At(p, "escalate")
      <4>1. ~req[p].old[v].resolved
        BY <3>1, <3>3 DEF Inv, ChangesAreDue
      <4>2. req[p].late
        BY <3>1, <4>1 DEF Inv, ImagesAreSound
      <4>3. violations'[v].resolved
        BY <3>1, <3>3, CommitEscalates
      <4>. QED  BY <3>2, <4>2, <4>3 DEF Late
    <3>4. CASE At(p, "patch")
      <4>1. ~violations'[v].resolved => ~req[p].new[v].resolved
        <5>1. /\ v \in Id /\ violations[v] \in Violation
              /\ req[p].old[v] \in Violation /\ req[p].new[v] \in Violation
          BY <3>1, Images2 DEF Inv
        <5>2. violations'[v].resolved = IF req[p].new[v].resolved = req[p].old[v].resolved
                                        THEN violations[v].resolved ELSE req[p].new[v].resolved
          <6>1. violations'[v] = Written(violations[v], req[p].old[v], req[p].new[v])
            BY <3>1, <5>1 DEF Commit
          <6>2. \A f \in {"resolved"} : violations'[v][f] = IF req[p].new[v][f] = req[p].old[v][f]
                                                            THEN violations[v][f] ELSE req[p].new[v][f]
            BY <5>1, <6>1, WrittenTyped
          <6>. QED  BY <6>2
        <5>. QED  BY <5>1, <5>2 DEF Violation
      <4>. QED  BY <3>2, <3>4, <4>1
    <3>. QED  BY <3>1, <3>3, <3>4 DEF Commit
  <2>. QED  BY <2>1, <2>2
<1>. QED  BY <1>1, Invariance, PTL DEF Spec, ResolutionsStand
=============================================================================
