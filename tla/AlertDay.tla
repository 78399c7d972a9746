------------------------------ MODULE AlertDay ------------------------------
(***************************************************************************)
(* The alerts of a housing and a day (services/alert/service.py): calls of *)
(* generate_daily_alerts raise them, run_escalation_check hands those that *)
(* nobody acknowledges to a higher role, acknowledge_alert silences them.  *)
(* Each call is a session of its own, and nothing keeps calls apart.       *)
(*                                                                         *)
(* An alert is known by the call that raised it, its type and contractor.  *)
(* A reconciliation replaces the results of the day in one step: module    *)
(* Reconciliation shows that it does (ResultBoard).                        *)
(*                                                                         *)
(* AlertSpec and its parts have names of their own, as ReadersProofs       *)
(* extends Screens as well.                                                *)
(***************************************************************************)
EXTENDS Integers, Sequences

CONSTANTS
  Call,        \* the calls of generate_daily_alerts; each happens once
  Check,       \* sessions that run the escalation check, again and again
  Contractor,
  Type,        \* AlertType, or those of them that are of interest
  Role,        \* RecipientRole
  FirstRole,   \* FirstRole[t]: whom an alert of type t is raised for
  Rules,       \* ESCALATION_RULES: Rules[t] is a sequence of [hours, role]
  MaxHour,     \* the bound of the clock
  Crashes,     \* whether a session may die between two steps
  NoContractor \* NULL, the contractor of what concerns the housing

Alert == Call \X Type \X (Contractor \cup {NoContractor})

ASSUME RoleAssumption == FirstRole \in [Type -> Role]
ASSUME RuleAssumption == Rules \in [Type -> Seq([hours : Nat, role : Role])]
ASSUME HourAssumption == MaxHour \in Nat
ASSUME CrashAssumption == Crashes \in BOOLEAN

VARIABLES
  now,        \* hours
  planned,    \* the contractors of the day's positions
  reported,   \* the contractors of its facts
  critical,   \* the contractors of its critical results
  sequenced,  \* whether the housing has a technological sequence
  raised,     \* alerts, as committed, with ...
  created,    \* ... created_at,
  step,       \* ... escalation_level,
  role,       \* ... recipient_role
  acked,      \* ... and acknowledged
  pc,         \* what each call of generate_daily_alerts does next
  missing,    \* the planned contractors it has read
  drafts,     \* the alerts it is going to insert, and ...
  drafted,    \* ... their created_at
  climbing    \* climbing[k][a]: the level check k is going to give a, or 0

day    == <<planned, reported, critical, sequenced>>
alerts == <<raised, created, step, role, acked>>
call   == <<pc, missing, drafts, drafted>>
alertVars ==
  <<now, planned, reported, critical, sequenced, raised, created, step, role, acked,
    pc, missing, drafts, drafted, climbing>>

Point == {"new", "facts", "results", "system", "insert", "ended"}
Idle  == [a \in Alert |-> 0]

AlertTypeOK ==
  /\ now \in 0 .. MaxHour
  /\ planned \subseteq Contractor \cup {NoContractor} /\ reported \subseteq Contractor \cup {NoContractor}
  /\ critical \subseteq Contractor \cup {NoContractor} /\ sequenced \in BOOLEAN
  /\ raised \subseteq Alert /\ acked \subseteq raised
  /\ created \in [Alert -> Nat] /\ step \in [Alert -> Nat] /\ role \in [Alert -> Role]
  /\ pc \in [Call -> Point]
  /\ missing \in [Call -> SUBSET (Contractor \cup {NoContractor})]
  /\ drafts \in [Call -> SUBSET Alert] /\ drafted \in [Alert -> Nat]
  /\ climbing \in [Check -> [Alert -> Nat]]

AlertInit ==
  /\ now = 0
  /\ planned = {} /\ reported = {} /\ critical = {} /\ sequenced = FALSE
  /\ raised = {} /\ acked = {}
  /\ created = Idle /\ step = [a \in Alert |-> 1]
  /\ role = [a \in Alert |-> FirstRole[a[2]]]
  /\ pc = [c \in Call |-> "new"]
  /\ missing = [c \in Call |-> {}]
  /\ drafts = [c \in Call |-> {}] /\ drafted = Idle
  /\ climbing = [k \in Check |-> Idle]

-----------------------------------------------------------------------------
(* The day, while nobody watches.                                          *)

Tick ==
  /\ now < MaxHour
  /\ now' = now + 1
  /\ UNCHANGED <<day, alerts, call, climbing>>

Plan(k) ==
  /\ planned' = planned \cup {k}
  /\ UNCHANGED <<now, reported, critical, sequenced, alerts, call, climbing>>

Report(k) ==
  /\ reported' = reported \cup {k}
  /\ UNCHANGED <<now, planned, critical, sequenced, alerts, call, climbing>>

Reconcile(K) ==
  /\ critical' = K
  /\ UNCHANGED <<now, planned, reported, sequenced, alerts, call, climbing>>

SyncSequence ==
  /\ sequenced' = TRUE
  /\ UNCHANGED <<now, planned, reported, critical, alerts, call, climbing>>

-----------------------------------------------------------------------------
(* generate_daily_alerts: it reads, statement by statement, and inserts    *)
(* everything in one commit.  It does not look for earlier alerts.         *)

Goto(c, point) == pc' = [pc EXCEPT ![c] = point]

\* The alerts of a type, one for each contractor.
About(c, t, K) == {a \in Alert : a[1] = c /\ a[2] = t /\ a[3] \in K}

\* A draft is dated when it is made.
Draft(c, A) ==
  /\ drafts' = [drafts EXCEPT ![c] = @ \cup A]
  /\ drafted' = [a \in Alert |-> IF a \in A THEN now ELSE drafted[a]]

ReadPlanned(c) ==
  /\ pc[c] = "new"
  /\ missing' = [missing EXCEPT ![c] = planned]
  /\ Goto(c, "facts")
  /\ UNCHANGED <<now, day, alerts, drafts, drafted, climbing>>

\* A05 for each contractor without a fact, A06 in any case.
ReadFacts(c) ==
  /\ pc[c] = "facts"
  /\ Draft(c, About(c, "A05", (missing[c] \ reported) \ {NoContractor}) \cup About(c, "A06", {NoContractor}))
  /\ missing' = [missing EXCEPT ![c] = {}]
  /\ Goto(c, "results")
  /\ UNCHANGED <<now, day, alerts, climbing>>

\* A07 for each contractor with a critical result.  No result has a pattern, so
\* the search for patterns that follows finds nothing.
ReadResults(c) ==
  /\ pc[c] = "results"
  /\ Draft(c, About(c, "A07", critical \ {NoContractor}))
  /\ Goto(c, "system")
  /\ UNCHANGED <<now, day, alerts, missing, climbing>>

ReadSequence(c) ==
  /\ pc[c] = "system"
  /\ Draft(c, IF sequenced THEN {} ELSE About(c, "A22", {NoContractor}))
  /\ Goto(c, "insert")
  /\ UNCHANGED <<now, day, alerts, missing, climbing>>

Dated(A) == [a \in Alert |-> IF a \in A THEN drafted[a] ELSE created[a]]

\* Mutant: create commits each alert, as it does by default.
InsertOne(c) ==
  /\ pc[c] = "insert"
  /\ \E a \in drafts[c] :
       /\ raised' = raised \cup {a}
       /\ created' = Dated({a})
       /\ drafts' = [drafts EXCEPT ![c] = @ \ {a}]
       /\ Goto(c, IF drafts[c] = {a} THEN "ended" ELSE "insert")
  /\ UNCHANGED <<now, day, step, role, acked, missing, drafted, climbing>>

Insert(c) ==
  /\ pc[c] = "insert"
  /\ raised' = raised \cup drafts[c]
  /\ created' = Dated(drafts[c])
  /\ drafts' = [drafts EXCEPT ![c] = {}]
  /\ Goto(c, "ended")
  /\ UNCHANGED <<now, day, step, role, acked, missing, drafted, climbing>>

CrashCall(c) ==
  /\ Crashes
  /\ pc[c] \notin {"new", "ended"}
  /\ missing' = [missing EXCEPT ![c] = {}]
  /\ drafts' = [drafts EXCEPT ![c] = {}]
  /\ Goto(c, "ended")
  /\ UNCHANGED <<now, day, alerts, drafted, climbing>>

-----------------------------------------------------------------------------
(* run_escalation_check, check_escalation and acknowledge_alert.           *)

\* Mutant: the level is counted from 0.
StepsFromZero(a) ==
  {i \in DOMAIN Rules[a[2]] : now - created[a] >= Rules[a[2]][i].hours /\ step[a] < i}

\* Mutant: the hours are counted from the start of the day.
StepsSinceMidnight(a) ==
  {i \in DOMAIN Rules[a[2]] : now >= Rules[a[2]][i].hours /\ step[a] <= i}

\* Steps of the escalation that are due: step i raises the alert to level i + 1.
StepsDue(a) ==
  {i \in DOMAIN Rules[a[2]] : now - created[a] >= Rules[a[2]][i].hours /\ step[a] <= i}

\* The first of them, once a check: the loop breaks.
LevelDue(a) ==
  IF StepsDue(a) = {} THEN 0
  ELSE (CHOOSE i \in StepsDue(a) : \A j \in StepsDue(a) : i <= j) + 1

\* The search loads what is not acknowledged, and the clock is read.
LoadUnacked(k) ==
  /\ climbing[k] = Idle
  /\ \E a \in raised \ acked : LevelDue(a) # 0
  /\ climbing' = [climbing EXCEPT ![k] =
                    [a \in Alert |-> IF a \in raised \ acked THEN LevelDue(a) ELSE 0]]
  /\ UNCHANGED <<now, day, alerts, call>>

\* check_escalation looks at one alert.
LoadOne(k, a) ==
  /\ climbing[k] = Idle
  /\ a \in raised \ acked /\ LevelDue(a) # 0
  /\ climbing' = [climbing EXCEPT ![k] = [Idle EXCEPT ![a] = LevelDue(a)]]
  /\ UNCHANGED <<now, day, alerts, call>>

Climbers(k) == {a \in Alert : climbing[k][a] # 0}

RoleAt(a, level) == IF level = 1 THEN FirstRole[a[2]] ELSE Rules[a[2]][level - 1].role

\* Mutant: the whole rows are written back, as they were loaded.
WriteRows(k) ==
  /\ climbing[k] # Idle
  /\ step' = [a \in Alert |-> IF a \in Climbers(k) THEN climbing[k][a] ELSE step[a]]
  /\ role' = [a \in Alert |-> IF a \in Climbers(k) THEN RoleAt(a, climbing[k][a]) ELSE role[a]]
  /\ acked' = acked \ Climbers(k)
  /\ climbing' = [climbing EXCEPT ![k] = Idle]
  /\ UNCHANGED <<now, day, raised, created, call>>

\* One commit writes the level and the role of every alert that climbs, and no
\* other column, whatever has happened to the row since it was loaded.
WriteSteps(k) ==
  /\ climbing[k] # Idle
  /\ step' = [a \in Alert |-> IF a \in Climbers(k) THEN climbing[k][a] ELSE step[a]]
  /\ role' = [a \in Alert |-> IF a \in Climbers(k) THEN RoleAt(a, climbing[k][a]) ELSE role[a]]
  /\ climbing' = [climbing EXCEPT ![k] = Idle]
  /\ UNCHANGED <<now, day, raised, created, acked, call>>

CrashCheck(k) ==
  /\ Crashes
  /\ climbing[k] # Idle
  /\ climbing' = [climbing EXCEPT ![k] = Idle]
  /\ UNCHANGED <<now, day, alerts, call>>

Acknowledge(a) ==
  /\ a \in raised
  /\ acked' = acked \cup {a}
  /\ UNCHANGED <<now, day, raised, created, step, role, call, climbing>>

-----------------------------------------------------------------------------
\* The day is followed as long as a call may still read it.
DayGoesOn ==
  /\ \E c \in Call : pc[c] # "ended"
  /\ \/ \E k \in Contractor \cup {NoContractor} : Plan(k) \/ Report(k)
     \/ \E K \in SUBSET (Contractor \cup {NoContractor}) : Reconcile(K)
     \/ SyncSequence

Generate(c) ==
  \/ ReadPlanned(c) \/ ReadFacts(c) \/ ReadResults(c) \/ ReadSequence(c)
  \/ Insert(c) \/ CrashCall(c)

Escalate(k) ==
  LoadUnacked(k) \/ (\E a \in Alert : LoadOne(k, a)) \/ WriteSteps(k) \/ CrashCheck(k)

AlertNext ==
  \/ Tick \/ DayGoesOn
  \/ \E c \in Call : Generate(c)
  \/ \E k \in Check : Escalate(k)
  \/ \E a \in Alert : Acknowledge(a)

AlertSpec == AlertInit /\ [][AlertNext]_alertVars

\* Time passes, somebody calls the check every now and then, and a check is
\* not cut off every time.
FairAlertSpec ==
  /\ AlertSpec
  /\ WF_alertVars(Tick)
  /\ \A k \in Check : WF_alertVars(LoadUnacked(k)) /\ SF_alertVars(WriteSteps(k))

-----------------------------------------------------------------------------
(* Properties.                                                             *)

\* However checks overlap, the recipient is the role of the alert's level, and
\* no alert has come to a level before the hours of that level were over.
EscalationIsDue ==
  \A a \in raised :
    /\ role[a] = RoleAt(a, step[a])
    /\ step[a] > 1 => now - created[a] >= Rules[a[2]][step[a] - 1].hours

\* A check that loaded an alert before it was acknowledged does not take the
\* acknowledgement back when it writes.
AcksAreKept == [][acked \subseteq acked']_alertVars

Of(c) == {a \in raised : a[1] = c}

\* The alerts of a call appear at once: a call cut off leaves none of them.
CallsAreWhole == [][\A c \in Call : Of(c) # {} => Of(c)' = Of(c)]_alertVars

\* An alert that nobody acknowledges reaches the last of its levels whose hours
\* come before the clock's bound.
TopLevel(a) ==
  LET due == {0} \cup {i \in DOMAIN Rules[a[2]] : created[a] + Rules[a[2]][i].hours <= MaxHour}
  IN  1 + CHOOSE i \in due : \A j \in due : j <= i
DueAlertsClimb ==
  \A a \in Alert : (a \in raised) ~> (a \in acked \/ step[a] >= TopLevel(a))
=============================================================================
