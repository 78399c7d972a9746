----------------------------- MODULE RaportAuth -----------------------------
(***************************************************************************)
(* How a request is let in (middlewares/raport_auth): its token is checked *)
(* against Keycloak's keys, which are cached (jwks.py); what its user may  *)
(* do is asked of Raport (authz.py) and cached in Redis, or in the process *)
(* once Redis has failed (cache.py); the answer is 200, 401, 403 or 503    *)
(* (backend.py).                                                           *)
(*                                                                         *)
(* One worker process and one user: entries are keyed by user.  An await   *)
(* on another process has two legs - until that process acts, and until    *)
(* its reply arrives - with everything else in between, and each of them   *)
(* ends, one way or the other, within Patience ticks.                      *)
(***************************************************************************)
EXTENDS Integers

CONSTANTS
  Proc,      \* requests under way
  Key,       \* Keycloak's signing keys; None signs forged tokens
  Mode,      \* AUTH_AUTHZ_MODE: subset of {"authz", "users-me"}
  TTL,       \* auth_cache_ttl
  NegTTL,    \* auth_negative_cache_ttl
  Leeway,    \* how long a token is accepted after its expiry (jwcrypto)
  MaxLife,   \* the longest time a token has left
  Patience,  \* the longest leg of an await takes
  None

ASSUME TimeAssumption ==
  {TTL, NegTTL, Leeway, MaxLife, Patience} \subseteq Nat /\ 0 < NegTTL /\ NegTTL <= TTL
ASSUME KeyAssumption == None \notin Key \cup Proc
ASSUME NoneAssumption ==
  None \notin {"user", "service", "401", "403", "503", "in", "out", "denied"}
ASSUME ModeAssumption == Mode \subseteq {"authz", "users-me"}

\* No answer is later than this after what Raport had to say: its reply, the
\* entry on its way to Redis, its time there, and the reply that Redis gives.
Staleness == TTL + 3 * Patience

Entry == [value : {"in", "out", "denied"}, left : 1..TTL]

Point == {"idle", "lock", "certs", "certs back", "get", "get back", "ask", "ask back",
          "set", "set back"}

Request ==
  [at : Point, code : {None, "user", "service", "401", "403", "503"}, key : Key \cup {None},
   forced : BOOLEAN, seen : SUBSET Key, life : (-Leeway - 6 * Patience - 1)..MaxLife,
   got : {None, "in", "out", "denied"}, ttl : 0..TTL, wait : 0..Patience]

VARIABLES
  mode,
  published,  \* the keys Keycloak publishes
  coming,     \* the keys it has not published yet
  groups,     \* the user in Raport: in an allowed group, in none, or unknown
  since,      \* history: ticks since that has changed, up to Staleness
  keys,       \* JWKSCache._keys
  aged,       \* they are older than auth_jwks_ttl
  lock,       \* JWKSCache._lock
  redis,      \* the user's entry in Redis
  local,      \* ... and in AuthCache._local
  broken,     \* AuthCache._redis_broken
  req         \* the requests

world == <<mode, published, coming, groups, since>>
jwks  == <<keys, aged, lock>>
cache == <<redis, local, broken>>
vars  == <<world, jwks, cache, req>>

Idle(code) ==
  [at |-> "idle", code |-> code, key |-> None, forced |-> FALSE, seen |-> {}, life |-> 0,
   got |-> None, ttl |-> 0, wait |-> 0]

TypeOK ==
  /\ mode \in Mode
  /\ published \subseteq Key /\ coming \subseteq Key \ published
  /\ groups \in {"in", "out", "unknown"} /\ since \in 0..Staleness
  /\ keys = None \/ keys \subseteq Key
  /\ aged \in BOOLEAN
  /\ lock \in Proc \cup {None}
  /\ {redis, local} \subseteq Entry \cup {None} /\ broken \in BOOLEAN
  /\ req \in [Proc -> Request]

Init ==
  /\ mode \in Mode
  /\ published \in {{k} : k \in Key} /\ coming = Key \ published
  /\ groups \in {"in", "out", "unknown"} /\ since = 0
  /\ keys = None /\ aged = FALSE /\ lock = None
  /\ redis = None /\ local = None /\ broken = FALSE
  /\ req = [p \in Proc |-> Idle(None)]

At(p, point) == req[p].at = point

-----------------------------------------------------------------------------
(* What a request does next: each of these is the request afterwards.      *)

To(r, point) == [r EXCEPT !.at = point, !.wait = 0]

\* _check_active, _check_groups, and a remembered refusal.
Judged(value) == Idle(IF value = "in" THEN "user" ELSE "403")

Looked(r, value) ==
  IF value = None THEN To([r EXCEPT !.got = None], "ask") ELSE Judged(value)

ValueOf(entry) == IF entry = None THEN None ELSE entry.value

\* AuthCache.get: Redis, or at once the process's own cache.
Permit(life) ==
  LET r == [Idle(None) EXCEPT !.life = life] IN
    IF broken THEN Looked(r, ValueOf(local)) ELSE To(r, "get")

Unfit == [Idle("401") EXCEPT !.life = -Leeway - 1]  \* told apart for the properties

\* verify_token, with the keys K: an unknown key forces one refresh of them.
\* Only then the token is read: it has expired or is not meant for us, it is a
\* service's, or it is a user's with so much life left.
Decoded(r, K) ==
  IF r.key \in K
  THEN {Unfit, Idle("service")} \cup {Permit(life) : life \in (-Leeway)..MaxLife}
  ELSE {IF r.forced THEN Idle("401") ELSE To([r EXCEPT !.forced = TRUE, !.seen = {}], "lock")}

Fresh == keys # None /\ ~aged

-----------------------------------------------------------------------------
(* The keys.                                                               *)

\* A token arrives, signed by a key that is or was published, or forged.
Arrive(p, k) ==
  LET r == [Idle(None) EXCEPT !.key = k] IN
    /\ At(p, "idle") /\ req[p].code = None
    /\ k \notin coming
    /\ \E s \in IF Fresh THEN Decoded(r, keys) ELSE {To(r, "lock")} : req' = [req EXCEPT ![p] = s]
    /\ UNCHANGED <<world, jwks, cache>>

\* The answer is sent.
Send(p) ==
  /\ At(p, "idle") /\ req[p].code # None
  /\ req' = [req EXCEPT ![p] = Idle(None)]
  /\ UNCHANGED <<world, jwks, cache>>

\* Mutant: keys that came while it waited are good enough.
MustFetchStale(r) == ~Fresh

\* Somebody may have refreshed the keys while it waited for the lock.
MustFetch(r) == r.forced \/ ~Fresh

Acquire(p) ==
  /\ At(p, "lock") /\ lock = None
  /\ IF MustFetch(req[p])
     THEN lock' = p /\ req' = [req EXCEPT ![p] = To(@, "certs")]
     ELSE lock' = None /\ \E s \in Decoded(req[p], keys) : req' = [req EXCEPT ![p] = s]
  /\ UNCHANGED <<world, keys, aged, cache>>

KeycloakAnswers(p) ==
  /\ At(p, "certs")
  /\ req' = [req EXCEPT ![p] = To([@ EXCEPT !.seen = published], "certs back")]
  /\ UNCHANGED <<world, jwks, cache>>

KeysArrive(p) ==
  /\ At(p, "certs back")
  /\ keys' = req[p].seen /\ aged' = FALSE /\ lock' = None
  /\ \E s \in Decoded(req[p], req[p].seen) : req' = [req EXCEPT ![p] = s]
  /\ UNCHANGED <<world, cache>>

\* Keycloak does not answer, or not with keys; the lock is released.
KeycloakFails(p) ==
  /\ At(p, "certs") \/ At(p, "certs back")
  /\ lock' = None
  /\ req' = [req EXCEPT ![p] = Idle("503")]
  /\ UNCHANGED <<world, keys, aged, cache>>

-----------------------------------------------------------------------------
(* The permissions.                                                        *)

\* Mutant: an answer that is asked for is kept longer.
ReadSliding(p) ==
  /\ At(p, "get")
  /\ redis' = IF redis = None THEN None ELSE [redis EXCEPT !.left = TTL]
  /\ req' = [req EXCEPT ![p] = To([@ EXCEPT !.got = ValueOf(redis)], "get back")]
  /\ UNCHANGED <<world, jwks, local, broken>>

RedisReads(p) ==
  /\ At(p, "get")
  /\ req' = [req EXCEPT ![p] = To([@ EXCEPT !.got = ValueOf(redis)], "get back")]
  /\ UNCHANGED <<world, jwks, cache>>

\* What Redis has read is judged, although it may have expired meanwhile.
EntryArrives(p) ==
  /\ At(p, "get back")
  /\ req' = [req EXCEPT ![p] = Looked(@, @.got)]
  /\ UNCHANGED <<world, jwks, cache>>

\* The first failure of Redis is the last the process sees of it.
GetFails(p) ==
  /\ At(p, "get") \/ At(p, "get back")
  /\ broken' = TRUE
  /\ req' = [req EXCEPT ![p] = Looked(@, ValueOf(local))]
  /\ UNCHANGED <<world, jwks, redis, local>>

\* What Raport says: asked with the user's own token it refuses an expired one.
Says(r) ==
  IF groups = "unknown" \/ (mode = "users-me" /\ r.life <= 0) THEN "denied" ELSE groups

RaportAnswers(p) ==
  /\ At(p, "ask")
  /\ req' = [req EXCEPT ![p] = To([@ EXCEPT !.got = Says(req[p])], "ask back")]
  /\ UNCHANGED <<world, jwks, cache>>

\* Mutant: the expiry of the token is not looked at.
TtlOf(r) == IF r.got = "denied" THEN NegTTL ELSE TTL

\* _ttl_for: never longer than the token; a refusal has a time of its own.
TtlFor(r) ==
  IF r.got = "denied" THEN NegTTL
  ELSE IF r.life <= 0 THEN 0
  ELSE IF r.life < TTL THEN r.life ELSE TTL

Kept(r, ttl) == [value |-> r.got, left |-> ttl]

\* AuthCache.set: nothing for no time, otherwise Redis or the process's own.
AnswerArrives(p) ==
  LET r == req[p]  ttl == TtlFor(r) IN
    /\ At(p, "ask back")
    /\ req' = [req EXCEPT ![p] =
                 IF ttl = 0 \/ broken THEN Judged(r.got) ELSE To([r EXCEPT !.ttl = ttl], "set")]
    /\ local' = IF ttl > 0 /\ broken THEN Kept(r, ttl) ELSE local
    /\ UNCHANGED <<world, jwks, redis, broken>>

RedisStores(p) ==
  /\ At(p, "set")
  /\ redis' = Kept(req[p], req[p].ttl)
  /\ req' = [req EXCEPT ![p] = To(@, "set back")]
  /\ UNCHANGED <<world, jwks, local, broken>>

StoredArrives(p) ==
  /\ At(p, "set back")
  /\ req' = [req EXCEPT ![p] = Judged(@.got)]
  /\ UNCHANGED <<world, jwks, cache>>

\* Redis has stored the entry all the same, or it never does.
SetFails(p) ==
  /\ At(p, "set") \/ At(p, "set back")
  /\ local' = Kept(req[p], req[p].ttl) /\ broken' = TRUE
  /\ req' = [req EXCEPT ![p] = Judged(@.got)]
  /\ UNCHANGED <<world, jwks, redis>>

\* Mutant: an outage is remembered like a refusal.
RaportFailsForUser(p) ==
  /\ At(p, "ask") \/ At(p, "ask back")
  /\ redis' = Kept([req[p] EXCEPT !.got = "denied"], NegTTL)
  /\ req' = [req EXCEPT ![p] = Idle("503")]
  /\ UNCHANGED <<world, jwks, local, broken>>

\* Raport does not answer, or it refuses the service's own token.
RaportFails(p) ==
  /\ At(p, "ask") \/ At(p, "ask back")
  /\ req' = [req EXCEPT ![p] = Idle("503")]
  /\ UNCHANGED <<world, jwks, cache>>

-----------------------------------------------------------------------------
(* What else happens.                                                      *)

Publish(k) ==
  /\ published' = published \cup {k} /\ coming' = coming \ {k}
  /\ UNCHANGED <<mode, groups, since, jwks, cache, req>>

\* ... but there is always one to sign with.
Withdraw(k) ==
  /\ published # {k}
  /\ published' = published \ {k}
  /\ UNCHANGED <<mode, coming, groups, since, jwks, cache, req>>

GroupsChange(g) ==
  /\ groups' = g
  /\ since' = IF "in" \in {g, groups} THEN 0 ELSE since
  /\ UNCHANGED <<mode, published, coming, jwks, cache, req>>

KeysAge ==
  /\ keys # None /\ ~aged
  /\ aged' = TRUE
  /\ UNCHANGED <<world, keys, lock, cache, req>>

\* Redis loses its entries; the process's own make room for other users'.
Forget ==
  /\ {redis, local} # {None}
  /\ \/ redis' = None /\ local' = local
     \/ local' = None /\ redis' = redis
  /\ UNCHANGED <<world, jwks, broken, req>>

Restart ==
  /\ keys' = None /\ aged' = FALSE /\ lock' = None
  /\ local' = None /\ broken' = FALSE
  /\ req' = [p \in Proc |-> Idle(None)]
  /\ UNCHANGED <<world, redis>>

Older(entry) ==
  IF entry = None \/ entry.left = 1 THEN None ELSE [entry EXCEPT !.left = @ - 1]

Waits(r) == r.at \notin {"idle", "lock"}

\* The age of a token matters once it has been read.
Read == {"get", "get back", "ask", "ask back", "set", "set back"}

Later(r) ==
  [r EXCEPT !.life = IF r.at \in Read THEN @ - 1 ELSE @,
            !.wait = IF Waits(r) THEN @ + 1 ELSE @]

Tick ==
  /\ \A p \in Proc : Waits(req[p]) => req[p].wait < Patience
  /\ redis' = Older(redis) /\ local' = Older(local)
  /\ req' = [p \in Proc |-> Later(req[p])]
  /\ since' = IF since = Staleness THEN since ELSE since + 1
  /\ UNCHANGED <<mode, published, coming, groups, jwks, broken>>

Step(p) ==
  \/ Send(p) \/ Acquire(p) \/ KeycloakAnswers(p) \/ KeysArrive(p) \/ KeycloakFails(p)
  \/ RedisReads(p) \/ EntryArrives(p) \/ GetFails(p)
  \/ RaportAnswers(p) \/ AnswerArrives(p) \/ RaportFails(p)
  \/ RedisStores(p) \/ StoredArrives(p) \/ SetFails(p)

Next ==
  \/ \E p \in Proc, k \in Key \cup {None} : Arrive(p, k)
  \/ \E p \in Proc : Step(p)
  \/ \E k \in coming : Publish(k)
  \/ \E k \in published : Withdraw(k)
  \/ \E g \in {"in", "out", "unknown"} \ {groups} : GroupsChange(g)
  \/ KeysAge \/ Forget \/ Restart \/ Tick

Spec == Init /\ [][Next]_vars

-----------------------------------------------------------------------------
(* Properties.                                                             *)

\* The answer the request p gets in this step.
Gets(p, code) == req[p].code = None /\ req'[p].code = code

\* 401 is for tokens that are "missing, expired or forged": a token that has not
\* expired, signed by a key that Keycloak publishes, never gets it, however the
\* keys rotate and requests meet at the cache of keys.
ValidTokensPass ==
  [][\A p \in Proc :
       Gets(p, "401") => req[p].key \notin published \/ req'[p].life < -Leeway]_vars

\* What Raport has said is forgotten in time: nobody is let in longer than the
\* time of the cache and three legs of awaits after he has lost his groups.
LossesTakeEffect ==
  [][\A p \in Proc :
       Gets(p, "user") /\ groups # "in" => since < Staleness]_vars

\* ... and nobody is refused longer than that after he has got them, whatever
\* outages there were.  Asked by user, Raport never refuses for another reason.
OutagesAreNotRefusals ==
  [][\A p \in Proc : Gets(p, "403") /\ groups = "in" /\ mode = "authz" => since < Staleness]_vars

\* "Never keep an answer longer than the token that earned it is valid": but for
\* the time it takes to store it, with Redis or, if that fails, in the process.
TokenBoundsAnswer ==
  [][\A p \in Proc, entry \in {redis', local'} \ {redis, local, None} :
       req'[p].at # req[p].at /\ entry.value # "denied"
         => entry.left <= req[p].life + 2 * Patience]_vars
=============================================================================
