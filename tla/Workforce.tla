------------------------------ MODULE Workforce ------------------------------
(***************************************************************************)
(* The discipline of the mobilisation (services/workforce/service.py).     *)
(* The control points of a challenge are checked against the headcount     *)
(* that has been entered; a missed one becomes a violation, which climbs   *)
(* from role to role, a week at each, until somebody resolves it.          *)
(*                                                                         *)
(* Every request works on the rows it has loaded, and writes at its end    *)
(* the columns it has changed (the session's unit of work); what others    *)
(* commit in the meantime it does not see.  Time counts in weeks.          *)
(***************************************************************************)
EXTENDS Integers

CONSTANTS
  Proc,        \* requests under way
  Challenge,   \* requests for mobilisation
  Checkpoint,  \* the control points of their mobilisation plans
  OfChallenge, \* OfChallenge[c]: the challenge a control point belongs to
  CheckWeek,   \* check_date
  LastWeek,    \* bound: how long it is watched
  None

Week == 0..LastWeek

\* escalated_to: nobody, the head of construction, the director of construction
\* and the director of the project; each when so many weeks have passed.
Role == 0..3

ASSUME PointAssumption == OfChallenge \in [Checkpoint -> Challenge]
ASSUME WeekAssumption  == LastWeek \in Nat /\ CheckWeek \in [Checkpoint -> Nat]
ASSUME NamesAssumption == None \notin Proc \cup Checkpoint

\* A violation is of a control point and comes of a check, of which a request
\* completes one at most for each point; or it is recorded by hand.
ByHand == <<None, None>>

Id == (Checkpoint \X Proc) \cup {ByHand}

Violation == [week : Week, escalated : BOOLEAN, to : Role, resolved : BOOLEAN,
              byhand : BOOLEAN]  \* history: a user has changed it

ASSUME NoneAssumption == None \notin Violation

VARIABLES
  today,
  actual,      \* actual_cumulative, against expected_cumulative
  status,      \* of the control points
  recorded,    \* those with violation_recorded
  violations,  \* the table, by id
  req          \* the requests

vars == <<today, actual, status, recorded, violations, req>>

IdleReq ==
  [at |-> "idle", week |-> 0, todo |-> {}, met |-> {}, noted |-> {}, held |-> {},
   old |-> <<>>, new |-> <<>>, late |-> FALSE]

Images == UNION {[S -> Violation] : S \in SUBSET Id}

Request ==
  [at : {"idle", "check", "escalate", "patch"}, week : Week,
   todo : SUBSET Checkpoint,   \* loaded and not judged yet
   met : SUBSET Checkpoint,    \* ... whose headcount was enough when it was loaded
   noted : SUBSET Checkpoint,  \* ... that were recorded already
   held : SUBSET Checkpoint,   \* judged, with the row lock of their UPDATE
   old : Images, new : Images, \* violations as they were loaded, and as changed
   late : BOOLEAN]             \* history: others have committed since

TypeOK ==
  /\ today \in Week
  /\ actual \in [Checkpoint -> {None, "short", "enough"}]
  /\ status \in [Checkpoint -> {"pending", "met", "missed"}]
  /\ recorded \subseteq Checkpoint
  /\ violations \in [Id -> Violation \cup {None}]
  /\ DOMAIN req = Proc /\ \A p \in Proc : req[p] \in Request

Init ==
  /\ today = 0
  /\ actual = [c \in Checkpoint |-> None]
  /\ status = [c \in Checkpoint |-> "pending"]
  /\ recorded = {}
  /\ violations = [v \in Id |-> None]
  /\ req = [p \in Proc |-> IdleReq]

At(p, point) == req[p].at = point

\* The session of p is closed, and all others have not seen what it did.
Closed(p) ==
  [q \in Proc |->
     IF q = p THEN IdleReq
     ELSE IF At(q, "idle") THEN req[q] ELSE [req[q] EXCEPT !.late = TRUE]]

-----------------------------------------------------------------------------
(* check_challenge_checkpoints.                                            *)

\* The control points of the steps planned for the lines of a challenge.
Points(ch) == {c \in Checkpoint : OfChallenge[c] = ch}

\* Mutant: what has been judged is judged again.
DueAgain(ch) == {c \in Points(ch) : CheckWeek[c] <= today}

Due(ch) == {c \in Points(ch) : CheckWeek[c] <= today /\ status[c] = "pending"}

CheckLoad(p, ch) ==
  /\ At(p, "idle") /\ Due(ch) # {}
  /\ req' = [req EXCEPT ![p] =
               [@ EXCEPT !.at = "check", !.week = today, !.todo = Due(ch),
                         !.met = {c \in Due(ch) : actual[c] = "enough"},
                         !.noted = recorded \cap Due(ch)]]
  /\ UNCHANGED <<today, actual, status, recorded, violations>>

\* The verdict is sent to the database, which locks the row until the end.
Judge(p, c) ==
  /\ At(p, "check") /\ c \in req[p].todo
  /\ \A q \in Proc \ {p} : c \notin req[q].held
  /\ req' = [req EXCEPT ![p].todo = @ \ {c}, ![p].held = @ \cup {c}]
  /\ UNCHANGED <<today, actual, status, recorded, violations>>

\* The control points that have become violations in this check.
Missed(p) == req[p].held \ (req[p].met \cup req[p].noted)

New(week) ==
  [week |-> week, escalated |-> FALSE, to |-> 0, resolved |-> FALSE, byhand |-> FALSE]

Violating(p) ==
  violations' = [v \in Id |->
    IF \E c \in Missed(p) : v = <<c, p>> THEN New(req[p].week) ELSE violations[v]]

Verdicts(p) ==
  /\ status' = [c \in Checkpoint |->
                  IF c \notin req[p].held THEN status[c]
                  ELSE IF c \in req[p].met THEN "met" ELSE "missed"]
  /\ recorded' = recorded \cup Missed(p)

\* Mutant: the verdicts are committed before the violations are inserted.
CheckCommitApart(p) ==
  /\ At(p, "check") /\ req[p].todo = {}
  /\ Verdicts(p)
  /\ Violating(p) \/ UNCHANGED violations
  /\ req' = Closed(p)
  /\ UNCHANGED <<today, actual>>

\* The verdicts and the violations, in one commit.
CheckCommit(p) ==
  /\ At(p, "check") /\ req[p].todo = {}
  /\ Verdicts(p) /\ Violating(p)
  /\ req' = Closed(p)
  /\ UNCHANGED <<today, actual>>

-----------------------------------------------------------------------------
(* The violations.                                                         *)

Recorded == {v \in Id : violations[v] # None}

\* Mutant: one call takes a violation up all the steps that are due.
ClimbedAtOnce(v, weeks) ==
  IF weeks < 1 \/ weeks <= v.to THEN v
  ELSE [v EXCEPT !.escalated = TRUE, !.to = IF weeks < 3 THEN weeks ELSE 3]

\* Mutant: the second role a week early.
ClimbedEarly(v, weeks) ==
  IF ~v.escalated /\ weeks >= 1 THEN [v EXCEPT !.escalated = TRUE, !.to = 1]
  ELSE IF v.to \in {1, 2} /\ weeks >= v.to THEN [v EXCEPT !.to = @ + 1]
  ELSE v

\* One step at a time.
Climbed(v, weeks) ==
  IF ~v.escalated /\ weeks >= 1 THEN [v EXCEPT !.escalated = TRUE, !.to = 1]
  ELSE IF v.to \in {1, 2} /\ weeks > v.to THEN [v EXCEPT !.to = @ + 1]
  ELSE v

\* auto_escalate_violations.
EscalateLoad(p) ==
  LET up(v) == Climbed(violations[v], today - violations[v].week)
      rise == {v \in Recorded : ~violations[v].resolved /\ up(v) # violations[v]} IN
    /\ At(p, "idle") /\ rise # {}
    /\ req' = [req EXCEPT ![p] =
                 [@ EXCEPT !.at = "escalate",
                           !.old = [v \in rise |-> violations[v]],
                           !.new = [v \in rise |-> up(v)]]]
    /\ UNCHANGED <<today, actual, status, recorded, violations>>

\* UpdateViolationRequest: the columns that a user may set, some of them.
Bodies(v) ==
  {[v EXCEPT !.resolved = b] : b \in BOOLEAN}
    \cup {[v EXCEPT !.escalated = TRUE]} \cup {[v EXCEPT !.escalated = TRUE, !.to = r] : r \in 1..3}

\* update_violation.
PatchLoad(p, v, new) ==
  /\ At(p, "idle")
  /\ req' = [req EXCEPT ![p] =
               [@ EXCEPT !.at = "patch",
                         !.old = [w \in {v} |-> violations[w]],
                         !.new = [w \in {v} |-> [new EXCEPT !.byhand = TRUE]]]]
  /\ UNCHANGED <<today, actual, status, recorded, violations>>

\* Mutant: the whole row is written.
WrittenWhole(row, old, new) == new

\* The UPDATE of a row names the columns that have changed since it was loaded.
Written(row, old, new) ==
  [f \in DOMAIN row |-> IF new[f] = old[f] THEN row[f] ELSE new[f]]

Commit(p) ==
  /\ At(p, "escalate") \/ At(p, "patch")
  /\ violations' = [v \in Id |->
       IF v \in DOMAIN req[p].new
       THEN Written(violations[v], req[p].old[v], req[p].new[v])
       ELSE violations[v]]
  /\ req' = Closed(p)
  /\ UNCHANGED <<today, actual, status, recorded>>

\* create_violation; one is enough here.
Post ==
  /\ violations[ByHand] = None
  /\ violations' = [violations EXCEPT ![ByHand] = New(today)]
  /\ UNCHANGED <<today, actual, status, recorded, req>>

-----------------------------------------------------------------------------
(* What else happens.                                                      *)

\* The request breaks off, or PostgreSQL chooses it to break a deadlock.
Fail(p) ==
  /\ ~At(p, "idle")
  /\ req' = [req EXCEPT ![p] = IdleReq]
  /\ UNCHANGED <<today, actual, status, recorded, violations>>

\* The headcount of a control point is entered; it only grows.
Enter(c, n) ==
  /\ actual[c] = None \/ (actual[c] = "short" /\ n = "enough")
  /\ actual' = [actual EXCEPT ![c] = n]
  /\ UNCHANGED <<today, status, recorded, violations, req>>

Tick ==
  /\ today < LastWeek
  /\ today' = today + 1
  /\ UNCHANGED <<actual, status, recorded, violations, req>>

Next ==
  \/ \E p \in Proc :
       \/ \E ch \in Challenge : CheckLoad(p, ch)
       \/ CheckCommit(p) \/ EscalateLoad(p) \/ Commit(p) \/ Fail(p)
       \/ \E c \in Checkpoint : Judge(p, c)
       \/ \E v \in Recorded : \E new \in Bodies(violations[v]) : PatchLoad(p, v, new)
  \/ Post
  \/ \E c \in Checkpoint, n \in {"short", "enough"} : Enter(c, n)
  \/ Tick

Spec == Init /\ [][Next]_vars

-----------------------------------------------------------------------------
(* Properties.                                                             *)

\* Whatever breaks off, a control point is missed only together with the
\* violation that says so, and one that is recorded has it.
MissedIsRecorded ==
  \A c \in Checkpoint :
    /\ status[c] = "missed" => c \in recorded
    /\ c \in recorded => \E p \in Proc : violations[<<c, p>>] # None

\* p ends in this step.
Ends(p) == ~At(p, "idle") /\ At(p, "idle")'

Late == \E p \in Proc : Ends(p) /\ req[p].late

\* A control point is judged once: its verdict changes, and it gets another
\* violation, only through a check that was under way when it was judged.
JudgedOnce ==
  [][\A c \in Checkpoint :
       status[c] # "pending"
         /\ \/ status'[c] # status[c]
            \/ \E p \in Proc : violations[<<c, p>>] = None /\ violations'[<<c, p>>] # None
       => Late]_vars

\* A violation that no user has touched is with a role only when it has been
\* open for as many weeks as the role stands for, however calls overlap.
EscalationIsDue ==
  \A v \in Recorded :
    LET row == violations[v] IN
      ~row.byhand => /\ row.escalated <=> row.to > 0
                     /\ today - row.week >= row.to

\* A call takes a violation one step up, so that every role is asked, unless
\* others have come in between.
StepByStep ==
  [][\A v \in Recorded :
       violations'[v].to \notin {violations[v].to, violations[v].to + 1}
         => Late \/ violations'[v].byhand]_vars

\* What has been resolved stays so and is with the same role, unless a user
\* wants otherwise or a call has overlapped; and no call takes a resolution back.
ResolutionsStand ==
  [][\A v \in Recorded :
       violations[v].resolved =>
         /\ violations'[v].to # violations[v].to => Late \/ \E p \in Proc : Ends(p) /\ At(p, "patch")
         /\ ~violations'[v].resolved => \E p \in Proc : Ends(p) /\ At(p, "patch")
                                           /\ ~req[p].new[v].resolved]_vars
=============================================================================
