----------------------------- MODULE MCPlanDay -----------------------------
(* Instances of PlanDay: two cells, and two concurrent sessions, each with  *)
(* the kinds of request it serves.                                          *)
EXTENDS PlanDay, TLC

CONSTANTS c1, c2, s1, s2

\* One housing of two sections, generated for as a whole or for one section ...
SectionScope == {{c1}, {c1, c2}}
OneHousing   == {{c1, c2}}

\* ... or two housings of one cell each, for the nightly job to walk.
HousingScope == {{c1}, {c2}}

RivalDuty   == s1 :> {"generate", "reconcile"}
            @@ s2 :> {"generate", "add", "confirm", "confirm_items", "delete", "delete_items", "transfer"}
BoardDuty   == s1 :> {"generate", "reconcile"}
            @@ s2 :> {"add", "confirm", "confirm_items", "delete", "delete_items", "transfer"}
NightlyDuty == s1 :> {"nightly"} @@ s2 :> {"generate", "reconcile", "transfer"}

\* Once there is a position made by hand, only generations and deletions go on.
ByHand ==
  (\E id \in PlanId \ Fresh : plan[id].source = "manual") =>
    \A s \in Session : pc[s] \notin {"confirm_one", "confirm_all", "handover", "reconcile",
                                     "erase_items", "log_items", "log_confirm"}

\* Two generations meet over a day on which nothing but generations has been
\* journalled, and from there only generations go on, and a single deletion
\* until it is journalled.
Met ==
  met # {} =>
    /\ refs = {}
    /\ log \subseteq {"generate"} \X Scope
    /\ \A id \in PlanId \ Fresh : plan[id].source = "auto"
    /\ \A s \in Session : pc[s] \notin {"create", "log_create", "confirm_one", "log_confirm",
                                        "confirm_all", "handover", "reconcile",
                                        "erase_items", "log_items"}

Symmetry == Permutations(PlanId)
=============================================================================
