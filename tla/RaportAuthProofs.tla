-------------------------- MODULE RaportAuthProofs --------------------------
(***************************************************************************)
(* Theorems about RaportAuth, for any requests, keys, times and modes.     *)
(***************************************************************************)
EXTENDS RaportAuth, TLAPS

\* An answer that is not what Raport would say now, although nothing but a
\* change of the user's groups can be the reason.
Wrong(value) ==
  IF value = "in" THEN groups # "in" ELSE groups = "in" /\ mode = "authz"

\* A wrong entry is forgotten within time of the change.
EntrySound(e, time) == e # None /\ Wrong(e.value) => since + e.left <= time

\* Before Redis stores an answer two legs have passed; before it is stored in the
\* process there may have been three.
RedisTime == TTL + 2 * Patience

\* A token's key has been published; what Keycloak has answered holds it unless it
\* has been withdrawn.
KeySound(r) ==
  /\ r.key \notin coming
  /\ r.at = "certs back" /\ r.key \in published => r.key \in r.seen

\* An answer is as old as the legs since it was given, its time is not longer than
\* what was left of the token when it arrived, and one of Redis was in time when read.
AnswerSound(r) ==
  /\ r.at \in {"ask back", "set", "set back"} => r.got \in {"in", "out", "denied"}
  /\ r.at = "get back" /\ r.got # None /\ Wrong(r.got) => since < RedisTime + r.wait
  /\ r.at = "ask back" /\ Wrong(r.got) => since <= r.wait
  /\ r.at = "set" /\ Wrong(r.got) => since <= r.wait + Patience
  /\ r.at = "set back" /\ Wrong(r.got) => since <= r.wait + 2 * Patience
  /\ r.at \in {"set", "set back"} => r.ttl > 0
  /\ r.at = "set" /\ r.got # "denied" => r.ttl <= r.life + r.wait
  /\ r.at = "set back" /\ r.got # "denied" => r.ttl <= r.life + r.wait + Patience

\* A token has lost no more of its life than the legs since it was read took.
LifeSound(r) ==
  /\ r.at = "get"      => r.life >= -Leeway - r.wait
  /\ r.at = "get back" => r.life >= -Leeway - Patience - r.wait
  /\ r.at = "ask"      => r.life >= -Leeway - 2 * Patience - r.wait
  /\ r.at = "ask back" => r.life >= -Leeway - 3 * Patience - r.wait
  /\ r.at = "set"      => r.life >= -Leeway - 4 * Patience - r.wait
  /\ r.at = "set back" => r.life >= -Leeway - 5 * Patience - r.wait

Sound(r) == KeySound(r) /\ AnswerSound(r) /\ LifeSound(r)

Inv ==
  /\ TypeOK
  /\ EntrySound(redis, RedisTime) /\ EntrySound(local, Staleness)
  /\ \A p \in Proc : Sound(req[p])

-----------------------------------------------------------------------------
(* Requests.                                                               *)

LEMMA Times ==
  /\ TTL \in Nat /\ NegTTL \in Nat /\ Leeway \in Nat /\ MaxLife \in Nat /\ Patience \in Nat
  /\ 0 < NegTTL /\ NegTTL <= TTL
BY TimeAssumption

LEMMA StalenessIsTime == Staleness \in Nat
BY Times DEF Staleness

LEMMA RequestTimes ==
  ASSUME NEW r \in Request
  PROVE  r.life \in Int /\ r.wait \in 0..Patience /\ r.ttl \in 0..TTL
<1>1. r.life \in (-Leeway - 6 * Patience - 1)..MaxLife /\ r.wait \in 0..Patience /\ r.ttl \in 0..TTL
  BY DEF Request
<1>. QED  BY <1>1, Times

Code == {None, "user", "service", "401", "403", "503"}

LEMMA ToTyped ==
  ASSUME NEW r \in Request, NEW point \in Point
  PROVE  /\ To(r, point) \in Request
         /\ To(r, point).at = point /\ To(r, point).wait = 0
         /\ To(r, point).code = r.code /\ To(r, point).key = r.key
         /\ To(r, point).seen = r.seen /\ To(r, point).life = r.life
         /\ To(r, point).got = r.got /\ To(r, point).ttl = r.ttl
<1>1. 0 \in 0..Patience
  BY Times
<1>. QED  BY <1>1 DEF To, Request

LEMMA LifeTyped ==
  ASSUME NEW r \in Request, NEW life \in (-Leeway - 6 * Patience - 1)..MaxLife
  PROVE  [r EXCEPT !.life = life] \in Request
BY DEF Request

LEMMA IdleTyped == \A code \in Code : Idle(code) \in Request /\ Idle(code).at = "idle"
<1>1. 0 \in 0..Patience /\ 0 \in 0..TTL /\ 0 \in (-Leeway - 6 * Patience - 1)..MaxLife
  BY Times
<1>. QED  BY <1>1 DEF Code, Idle, Request, Point

\* Nothing is asked of a request about the permissions before it has read its token.
LEMMA UnreadSound ==
  ASSUME NEW r, r.at \notin Read, KeySound(r)
  PROVE  Sound(r)
BY DEF Sound, AnswerSound, LifeSound, Read

LEMMA IdleSound == ASSUME TypeOK, NEW code PROVE Sound(Idle(code))
BY KeyAssumption DEF TypeOK, Idle, Sound, KeySound, AnswerSound, LifeSound

LEMMA UnfitSound == ASSUME TypeOK PROVE Unfit \in Request /\ Sound(Unfit)
<1>1. Idle("401") \in Request
  BY IdleTyped DEF Code
<1>2. -Leeway - 1 \in (-Leeway - 6 * Patience - 1)..MaxLife
  BY Times
<1>3. Unfit \in Request
  BY <1>1, <1>2, LifeTyped DEF Unfit
<1>4. Unfit.at = "idle" /\ Unfit.key = None
  BY DEF Unfit, Idle
<1>. QED  BY <1>3, <1>4, KeyAssumption DEF TypeOK, Sound, KeySound, AnswerSound, LifeSound

LEMMA JudgedSound == ASSUME TypeOK, NEW value PROVE Judged(value) \in Request /\ Sound(Judged(value))
BY IdleTyped, IdleSound DEF Judged, Code

\* A request that has read the token knows what the cache holds.
LEMMA LookedSound ==
  ASSUME TypeOK, NEW r \in Request, KeySound(r), NEW v, r.life >= -Leeway - Patience - r.wait
  PROVE  Looked(r, v) \in Request /\ Sound(Looked(r, v))
<1>1. CASE v = None
  <2>. DEFINE q == [r EXCEPT !.got = None]  s == To(q, "ask")
  <2>1. Looked(r, v) = s
    BY <1>1 DEF Looked
  <2>2. q \in Request /\ q.key = r.key /\ q.life = r.life
    BY DEF Request
  <2>. HIDE DEF q
  <2>3. s \in Request /\ s.at = "ask" /\ s.wait = 0 /\ s.key = r.key /\ s.life = r.life
    BY <2>2, ToTyped DEF Point
  <2>. HIDE DEF s
  <2>4. r.wait \in 0..Patience /\ r.life \in Int
    BY RequestTimes
  <2>5. r.life >= -Leeway - 2 * Patience - 0
    BY <2>4, Times
  <2>6. LifeSound(s)
    BY <2>3, <2>5 DEF LifeSound
  <2>. QED  BY <2>1, <2>3, <2>6 DEF Sound, KeySound, AnswerSound
<1>2. CASE v # None
  BY <1>2, JudgedSound DEF Looked
<1>. QED  BY <1>1, <1>2

LEMMA PermitSound ==
  ASSUME TypeOK, NEW life \in (-Leeway)..MaxLife
  PROVE  Permit(life) \in Request /\ Sound(Permit(life))
<1>. DEFINE r == [Idle(None) EXCEPT !.life = life]  s == To(r, "get")
<1>1. r \in Request
  <2>1. life \in (-Leeway - 6 * Patience - 1)..MaxLife
    BY Times
  <2>. QED  BY <2>1, LifeTyped, IdleTyped DEF Code
<1>2. r.key = None /\ r.life = life /\ r.wait = 0
  BY DEF Idle
<1>3. KeySound(r)
  BY KeyAssumption DEF KeySound, TypeOK, Idle
<1>4. Permit(life) = IF broken THEN Looked(r, ValueOf(local)) ELSE s
  BY DEF Permit
<1>. HIDE DEF r
<1>5. r.life >= -Leeway - Patience - r.wait
  BY <1>2, Times
<1>6. Looked(r, ValueOf(local)) \in Request /\ Sound(Looked(r, ValueOf(local)))
  BY <1>1, <1>3, <1>5, LookedSound
<1>8. s \in Request /\ s.at = "get" /\ s.key = None /\ s.life = life /\ s.wait = 0
  BY <1>1, <1>2, ToTyped DEF Point
<1>. HIDE DEF s
<1>9. LifeSound(s)
  BY <1>8, Times DEF LifeSound
<1>10. KeySound(s) /\ AnswerSound(s)
  BY <1>8, KeyAssumption DEF KeySound, AnswerSound, TypeOK
<1>. QED  BY <1>4, <1>6, <1>8, <1>9, <1>10 DEF Sound

LEMMA DecodedSound ==
  ASSUME TypeOK, NEW r \in Request, KeySound(r), NEW K, NEW s \in Decoded(r, K)
  PROVE  s \in Request /\ Sound(s)
<1>1. CASE r.key \in K
  BY <1>1, UnfitSound, IdleTyped, IdleSound, PermitSound DEF Decoded, Code
<1>2. CASE r.key \notin K /\ r.forced
  BY <1>2, IdleTyped, IdleSound DEF Decoded, Code
<1>3. CASE r.key \notin K /\ ~r.forced
  <2>. DEFINE q == [r EXCEPT !.forced = TRUE, !.seen = {}]
  <2>1. s = To(q, "lock")
    BY <1>3 DEF Decoded
  <2>2. q \in Request /\ q.key = r.key
    BY DEF Request
  <2>. HIDE DEF q
  <2>4. s \in Request /\ s.at = "lock" /\ s.key = r.key
    BY <2>1, <2>2, ToTyped DEF Point
  <2>. QED  BY <2>4 DEF Sound, KeySound, AnswerSound, LifeSound
<1>. QED  BY <1>1, <1>2, <1>3

-----------------------------------------------------------------------------
(* The inductive invariant.                                                *)

\* A step of one request that leaves sound entries and sound keys.
LEMMA RequestStep ==
  ASSUME Inv, UNCHANGED world,
         {redis', local'} \subseteq Entry \cup {None}, broken' \in BOOLEAN,
         EntrySound(redis', RedisTime), EntrySound(local', Staleness),
         keys' = None \/ keys' \subseteq Key, aged' \in BOOLEAN, lock' \in Proc \cup {None},
         NEW p \in Proc, NEW s, s \in Request, Sound(s), req' = [req EXCEPT ![p] = s]
  PROVE  Inv'
<1>1. TypeOK'
  BY DEF Inv, TypeOK, world
<1>2. EntrySound(redis, RedisTime)' /\ EntrySound(local, Staleness)'
  BY DEF world, EntrySound, Wrong
<1>3. ASSUME NEW q \in Proc PROVE Sound(req[q])'
  <2>1. req'[q] = IF q = p THEN s ELSE req[q]
    BY DEF Inv, TypeOK
  <2>2. Sound(req'[q])
    BY <2>1 DEF Inv
  <2>. QED  BY <2>2 DEF world, Sound, KeySound, AnswerSound, LifeSound, Wrong
<1>. QED  BY <1>1, <1>2, <1>3 DEF Inv

\* ... and one that leaves the entries alone.
LEMMA QuietStep ==
  ASSUME Inv, UNCHANGED world, UNCHANGED cache,
         keys' = None \/ keys' \subseteq Key, aged' \in BOOLEAN, lock' \in Proc \cup {None},
         NEW p \in Proc, NEW s, s \in Request, Sound(s), req' = [req EXCEPT ![p] = s]
  PROVE  Inv'
<1>1. /\ {redis', local'} \subseteq Entry \cup {None} /\ broken' \in BOOLEAN
      /\ EntrySound(redis', RedisTime) /\ EntrySound(local', Staleness)
  BY DEF cache, Inv, TypeOK
<1>. QED  BY <1>1, RequestStep

LEMMA InitInv == Init => Inv
<1>. SUFFICES ASSUME Init PROVE Inv
  OBVIOUS
<1>1. 0 \in 0..Staleness
  BY Times DEF Staleness
<1>2. TypeOK
  BY <1>1, IdleTyped DEF Init, TypeOK, Code
<1>. QED  BY <1>2, IdleSound DEF Init, Inv, EntrySound

LEMMA KeySteps ==
  ASSUME Inv, NEW p \in Proc,
         \/ \E k \in Key \cup {None} : Arrive(p, k)
         \/ Send(p) \/ Acquire(p) \/ KeycloakAnswers(p) \/ KeysArrive(p) \/ KeycloakFails(p)
  PROVE  Inv'
<1>0. TypeOK /\ req[p] \in Request /\ Sound(req[p]) /\ KeySound(req[p])
  BY DEF Inv, TypeOK, Sound
<1>1. ASSUME NEW k \in Key \cup {None}, Arrive(p, k) PROVE Inv'
  <2>. DEFINE r == [Idle(None) EXCEPT !.key = k]
  <2>1. r \in Request /\ r.at = "idle" /\ r.key = k
    <3>1. Idle(None) \in Request /\ Idle(None).at = "idle"
      BY IdleTyped DEF Code, Idle
    <3>2. DOMAIN Idle(None) = {"at", "code", "key", "forced", "seen", "life", "got", "ttl", "wait"}
      BY DEF Idle
    <3>. HIDE DEF Idle
    <3>. QED  BY <3>1, <3>2 DEF Request
  <2>2. PICK s \in IF Fresh THEN Decoded(r, keys) ELSE {To(r, "lock")} : req' = [req EXCEPT ![p] = s]
    BY <1>1 DEF Arrive
  <2>3. UNCHANGED <<world, jwks, cache>> /\ k \notin coming
    BY <1>1 DEF Arrive
  <2>. HIDE DEF r
  <2>4. KeySound(r)
    BY <2>1, <2>3 DEF KeySound
  <2>5. To(r, "lock") \in Request /\ Sound(To(r, "lock"))
    <3>1. /\ To(r, "lock") \in Request
          /\ To(r, "lock").at = "lock" /\ To(r, "lock").key = k
      BY <2>1, ToTyped DEF Point
    <3>2. KeySound(To(r, "lock"))
      BY <2>3, <3>1 DEF KeySound
    <3>. QED  BY <3>1, <3>2, UnreadSound DEF Read
  <2>6. s \in Request /\ Sound(s)
    BY <1>0, <2>1, <2>2, <2>4, <2>5, DecodedSound
  <2>. QED  BY <2>2, <2>3, <2>6, QuietStep DEF jwks, Inv, TypeOK
<1>2. CASE Send(p)
  <2>1. Idle(None) \in Request /\ Sound(Idle(None))
    BY <1>0, IdleTyped, IdleSound DEF Code
  <2>. QED  BY <1>2, <2>1, QuietStep DEF Send, jwks, Inv, TypeOK
<1>3. CASE Acquire(p)
  <2>. DEFINE s == To(req[p], "certs")
  <2>1. s \in Request /\ Sound(s)
    <3>1. s \in Request /\ s.at = "certs" /\ s.key = req[p].key
      BY <1>0, ToTyped DEF Point
    <3>. HIDE DEF s
    <3>2. KeySound(s)
      BY <1>0, <3>1 DEF KeySound
    <3>. QED  BY <3>1, <3>2, UnreadSound DEF Read
  <2>2. CASE MustFetch(req[p])
    <3>1. req' = [req EXCEPT ![p] = s]
      BY <1>3, <2>2 DEF Acquire
    <3>. HIDE DEF s
    <3>. QED  BY <1>3, <2>1, <2>2, <3>1, QuietStep DEF Acquire, Inv, TypeOK
  <2>3. CASE ~MustFetch(req[p])
    <3>1. PICK d \in Decoded(req[p], keys) : req' = [req EXCEPT ![p] = d]
      BY <1>3, <2>3 DEF Acquire
    <3>2. d \in Request /\ Sound(d)
      BY <1>0, DecodedSound
    <3>. QED  BY <1>3, <2>3, <3>1, <3>2, QuietStep DEF Acquire, Inv, TypeOK
  <2>. QED  BY <2>2, <2>3
<1>4. CASE KeycloakAnswers(p)
  <2>. DEFINE r == [req[p] EXCEPT !.seen = published]  s == To(r, "certs back")
  <2>1. r \in Request /\ r.key = req[p].key /\ r.seen = published
    BY <1>0 DEF Request, TypeOK
  <2>2. req' = [req EXCEPT ![p] = s]
    BY <1>4 DEF KeycloakAnswers
  <2>. HIDE DEF r
  <2>3. s \in Request /\ s.at = "certs back" /\ s.key = req[p].key /\ s.seen = published
    BY <2>1, ToTyped DEF Point
  <2>. HIDE DEF s
  <2>4. Sound(s)
    BY <1>0, <2>3 DEF Sound, KeySound, AnswerSound, LifeSound
  <2>. QED  BY <1>4, <2>2, <2>3, <2>4, QuietStep DEF KeycloakAnswers, jwks, Inv, TypeOK
<1>5. CASE KeysArrive(p)
  <2>1. PICK s \in Decoded(req[p], req[p].seen) : req' = [req EXCEPT ![p] = s]
    BY <1>5 DEF KeysArrive
  <2>2. s \in Request /\ Sound(s)
    BY <1>0, DecodedSound
  <2>3. req[p].seen \subseteq Key
    BY <1>0 DEF Request
  <2>. QED  BY <1>5, <2>1, <2>2, <2>3, QuietStep DEF KeysArrive
<1>6. CASE KeycloakFails(p)
  <2>1. Idle("503") \in Request /\ Sound(Idle("503"))
    BY <1>0, IdleTyped, IdleSound DEF Code
  <2>. QED  BY <1>6, <2>1, QuietStep DEF KeycloakFails, Inv, TypeOK
<1>. QED  BY <1>1, <1>2, <1>3, <1>4, <1>5, <1>6

\* The time an answer is kept: not longer than its token, if it is kept at all.
LEMMA TtlTyped ==
  ASSUME NEW r \in Request
  PROVE  /\ TtlFor(r) \in 0..TTL
         /\ TtlFor(r) = 0 \/ TtlFor(r) > 0
         /\ TtlFor(r) > 0 /\ r.got # "denied" => TtlFor(r) <= r.life
<1>1. r.life \in Int
  BY RequestTimes
<1>. DEFINE least == IF r.life <= 0 THEN 0 ELSE IF r.life < TTL THEN r.life ELSE TTL
<1>2. least \in 0..TTL /\ NegTTL \in 0..TTL /\ (least > 0 => least <= r.life)
  BY <1>1, Times
<1>3. TtlFor(r) = IF r.got = "denied" THEN NegTTL ELSE least
  BY DEF TtlFor
<1>. HIDE DEF least
<1>4. \A i \in 0..TTL : i = 0 \/ i > 0
  BY Times
<1>. QED  BY <1>2, <1>3, <1>4

LEMMA EntryTyped ==
  ASSUME NEW e \in Entry \cup {None}
  PROVE  /\ ValueOf(e) \in {None, "in", "out", "denied"}
         /\ ValueOf(e) # None => e \in Entry /\ ValueOf(e) = e.value /\ e.left \in 1..TTL
BY DEF ValueOf, Entry

LEMMA AnswerSteps ==
  ASSUME Inv, NEW p \in Proc,
         \/ RedisReads(p) \/ EntryArrives(p) \/ GetFails(p)
         \/ RaportAnswers(p) \/ AnswerArrives(p) \/ RaportFails(p)
         \/ RedisStores(p) \/ StoredArrives(p) \/ SetFails(p)
  PROVE  Inv'
<1>. DEFINE r == req[p]
<1>0. /\ TypeOK /\ r \in Request /\ Sound(r) /\ KeySound(r) /\ AnswerSound(r) /\ LifeSound(r)
      /\ {redis, local} \subseteq Entry \cup {None} /\ broken \in BOOLEAN
      /\ EntrySound(redis, RedisTime) /\ EntrySound(local, Staleness)
  BY DEF Inv, TypeOK, Sound
<1>1. Judged(r.got) \in Request /\ Sound(Judged(r.got))
  BY <1>0, JudgedSound
<1>2. ASSUME UNCHANGED jwks
      PROVE  /\ keys' = None \/ keys' \subseteq Key
             /\ aged' \in BOOLEAN /\ lock' \in Proc \cup {None}
  BY <1>0, <1>2 DEF jwks, TypeOK
<1>times. r.life \in Int /\ r.wait \in 0..Patience /\ r.ttl \in 0..TTL /\ since \in Nat
  <2>1. since \in 0..Staleness
    BY <1>0 DEF TypeOK
  <2>. QED  BY <1>0, <2>1, RequestTimes, StalenessIsTime
<1>3. ASSUME At(p, "get") \/ At(p, "get back"), NEW v
      PROVE  Looked(r, v) \in Request /\ Sound(Looked(r, v))
  <2>1. r.life >= -Leeway - r.wait \/ r.life >= -Leeway - Patience - r.wait
    BY <1>0, <1>3 DEF At, LifeSound
  <2>2. TypeOK /\ r \in Request /\ KeySound(r)
    BY <1>0
  <2>. HIDE DEF r
  <2>3. r.life >= -Leeway - Patience - r.wait
    BY <1>times, <2>1, Times
  <2>. QED  BY <2>2, <2>3, LookedSound
<1>4. CASE RedisReads(p)
  <2>. DEFINE v == ValueOf(redis)  q == [r EXCEPT !.got = v]  s == To(q, "get back")
  <2>1. v \in {None, "in", "out", "denied"} /\ (v # None => v = redis.value /\ redis.left \in 1..TTL)
    BY <1>0, EntryTyped
  <2>2. req' = [req EXCEPT ![p] = s] /\ UNCHANGED <<world, jwks, cache>> /\ r.at = "get"
    BY <1>4 DEF RedisReads, At
  <2>3. v # None /\ Wrong(v) => since + redis.left <= RedisTime
    BY <1>0, <2>1 DEF EntrySound, ValueOf
  <2>. HIDE DEF v
  <2>4. q \in Request /\ q.got = v /\ q.key = r.key /\ q.life = r.life
    BY <1>0, <2>1 DEF Request
  <2>. HIDE DEF q
  <2>5. /\ s \in Request /\ s.at = "get back" /\ s.wait = 0
        /\ s.got = v /\ s.key = r.key /\ s.life = r.life
    BY <2>4, ToTyped DEF Point
  <2>. HIDE DEF s
  <2>6. KeySound(r) /\ r.life >= -Leeway - r.wait
    BY <1>0, <2>2 DEF LifeSound
  <2>. HIDE DEF r
  <2>7. r.life >= -Leeway - Patience - 0
    BY <1>times, <2>6, Times
  <2>8. v # None /\ Wrong(v) => since < RedisTime + 0
    BY <1>times, <2>1, <2>3, Times DEF RedisTime
  <2>9. KeySound(s)
    BY <2>5, <2>6 DEF KeySound
  <2>10. AnswerSound(s)
    BY <2>5, <2>8 DEF AnswerSound
  <2>11. LifeSound(s)
    BY <2>5, <2>7 DEF LifeSound
  <2>. QED  BY <1>2, <2>2, <2>5, <2>9, <2>10, <2>11, QuietStep DEF Sound
<1>5. CASE EntryArrives(p)
  BY <1>2, <1>3, <1>5, QuietStep DEF EntryArrives
<1>8. CASE GetFails(p)
  BY <1>0, <1>2, <1>3, <1>8, RequestStep DEF GetFails
<1>6. CASE RaportFails(p)
  <2>1. Idle("503") \in Request /\ Sound(Idle("503"))
    BY <1>0, IdleTyped, IdleSound DEF Code
  <2>. QED  BY <1>2, <1>6, <2>1, QuietStep DEF RaportFails
<1>7. CASE RaportAnswers(p)
  <2>. DEFINE q == [r EXCEPT !.got = Says(r)]  s == To(q, "ask back")
  <2>1. Says(r) \in {"in", "out", "denied"} /\ ~Wrong(Says(r))
    BY <1>0, <1>7 DEF RaportAnswers, TypeOK, Says, Wrong
  <2>2. q \in Request /\ q.got = Says(r) /\ q.key = r.key /\ q.life = r.life
    BY <1>0, <2>1 DEF Request
  <2>3. req' = [req EXCEPT ![p] = s]
    BY <1>7 DEF RaportAnswers
  <2>. HIDE DEF q
  <2>4. /\ s \in Request /\ s.at = "ask back" /\ s.wait = 0
        /\ s.got = Says(r) /\ s.key = r.key /\ s.life = r.life
    BY <2>2, ToTyped DEF Point
  <2>. HIDE DEF s
  <2>5. r.at = "ask" /\ r \in Request /\ KeySound(r) /\ LifeSound(r)
    BY <1>0, <1>7 DEF RaportAnswers, At
  <2>. HIDE DEF r
  <2>6. LifeSound(s)
    <3>1. r.wait <= Patience /\ r.wait \in Nat /\ r.life \in Int
      BY <2>5, Times DEF Request
    <3>2. r.life >= -Leeway - 2 * Patience - r.wait
      BY <2>5 DEF LifeSound
    <3>3. r.life >= -Leeway - 3 * Patience - 0
      BY <3>1, <3>2, Times
    <3>. QED  BY <2>4, <3>3 DEF LifeSound
  <2>7. AnswerSound(s) /\ KeySound(s)
    <3>1. ~Wrong(s.got) /\ s.got \in {"in", "out", "denied"}
      BY <2>1, <2>4
    <3>2. s.key \notin coming
      BY <2>4, <2>5 DEF KeySound
    <3>. QED  BY <2>4, <3>1, <3>2 DEF AnswerSound, KeySound
  <2>8. UNCHANGED world /\ UNCHANGED jwks /\ UNCHANGED cache
    BY <1>7 DEF RaportAnswers
  <2>9. Sound(s)
    BY <2>6, <2>7 DEF Sound
  <2>10. /\ keys' = None \/ keys' \subseteq Key
         /\ aged' \in BOOLEAN /\ lock' \in Proc \cup {None}
    BY <1>2, <2>8
  <2>11. s \in Request
    BY <2>4
  <2>. QED  BY <2>3, <2>8, <2>9, <2>10, <2>11, QuietStep
<1>9. CASE AnswerArrives(p)
  <2>. DEFINE ttl == TtlFor(r)  e == Kept(r, ttl)  q == [r EXCEPT !.ttl = ttl]  s == To(q, "set")
  <2>0. /\ UNCHANGED world /\ UNCHANGED jwks /\ UNCHANGED redis /\ UNCHANGED broken
        /\ ttl = 0 \/ broken => req' = [req EXCEPT ![p] = Judged(r.got)]
        /\ ~(ttl = 0 \/ broken) => req' = [req EXCEPT ![p] = s]
        /\ local' = IF ttl > 0 /\ broken THEN e ELSE local
    BY <1>9 DEF AnswerArrives
  <2>1. r.at = "ask back"
    BY <1>9 DEF AnswerArrives, At
  <2>2. r.got \in {"in", "out", "denied"} /\ (Wrong(r.got) => since <= r.wait)
    BY <1>0, <2>1 DEF AnswerSound
  <2>3. ttl \in 0..TTL /\ (ttl = 0 \/ ttl > 0) /\ (ttl > 0 /\ r.got # "denied" => ttl <= r.life)
    BY <1>0, TtlTyped
  <2>4. r.life \in Int /\ r.wait \in 0..Patience /\ since \in Nat
    <3>1. since \in 0..Staleness
      BY <1>0 DEF TypeOK
    <3>. QED  BY <1>0, <3>1, RequestTimes, StalenessIsTime
  <2>5. ttl > 0 => ttl \in 1..TTL /\ ttl \in Nat /\ ttl # 0
    BY <2>3, Times
  <2>6. ttl = 0 => ~(ttl > 0)
    OBVIOUS
  <2>7. /\ r \in Request /\ TypeOK /\ KeySound(r) /\ LifeSound(r)
        /\ {redis, local} \subseteq Entry \cup {None} /\ broken \in BOOLEAN
        /\ EntrySound(redis, RedisTime) /\ EntrySound(local, Staleness)
    BY <1>0
  <2>8. /\ keys' = None \/ keys' \subseteq Key
        /\ aged' \in BOOLEAN /\ lock' \in Proc \cup {None}
    BY <1>2, <2>0
  <2>9. CASE ttl = 0
    <3>1. local' = local /\ req' = [req EXCEPT ![p] = Judged(r.got)]
      BY <2>0, <2>6, <2>9
    <3>. HIDE DEF r, ttl
    <3>. QED  BY <1>1, <2>0, <2>7, <2>8, <3>1, RequestStep
  <2>10. CASE ttl > 0 /\ broken
    <3>1. local' = e /\ req' = [req EXCEPT ![p] = Judged(r.got)]
      BY <2>0, <2>10
    <3>. HIDE DEF r, ttl
    <3>2. e \in Entry /\ e.value = r.got /\ e.left = ttl
      BY <2>2, <2>5, <2>10 DEF Kept, Entry
    <3>. HIDE DEF e
    <3>3. Wrong(r.got) => since <= r.wait
      BY <2>2
    <3>4. Wrong(r.got) => since + ttl <= TTL + 3 * Patience
      BY <2>4, <2>5, <2>10, <3>3, Times
    <3>5. EntrySound(e, Staleness)
      BY <3>2, <3>4 DEF EntrySound, Staleness
    <3>. QED  BY <1>1, <2>0, <2>7, <2>8, <3>1, <3>2, <3>5, RequestStep
  <2>11. CASE ttl > 0 /\ ~broken
    <3>1. local' = local /\ req' = [req EXCEPT ![p] = s]
      BY <2>0, <2>5, <2>11
    <3>. HIDE DEF r, ttl
    <3>2. q \in Request /\ q.ttl = ttl /\ q.got = r.got /\ q.key = r.key /\ q.life = r.life
      BY <2>3, <2>7 DEF Request
    <3>. HIDE DEF q
    <3>3. /\ s \in Request /\ s.at = "set" /\ s.wait = 0 /\ s.ttl = ttl
          /\ s.got = r.got /\ s.key = r.key /\ s.life = r.life
      BY <3>2, ToTyped DEF Point
    <3>. HIDE DEF s
    <3>4. r.life >= -Leeway - 3 * Patience - r.wait
      BY <2>1, <2>7 DEF LifeSound
    <3>5. r.life >= -Leeway - 4 * Patience - 0
      BY <2>4, <3>4, Times
    <3>6. LifeSound(s)
      BY <3>3, <3>5 DEF LifeSound
    <3>7. Wrong(r.got) => since <= r.wait
      BY <2>2
    <3>8. Wrong(r.got) => since <= 0 + Patience
      BY <2>4, <3>7, Times
    <3>9. \A i \in Int : i + 0 = i
      OBVIOUS
    <3>10. AnswerSound(s)
      BY <2>2, <2>3, <2>4, <2>11, <3>3, <3>8, <3>9 DEF AnswerSound
    <3>11. KeySound(s)
      BY <2>7, <3>3 DEF KeySound
    <3>12. Sound(s)
      BY <3>6, <3>10, <3>11 DEF Sound
    <3>. QED  BY <2>0, <2>7, <2>8, <3>1, <3>3, <3>12, RequestStep
  <2>. QED  BY <2>3, <2>9, <2>10, <2>11
<1>10. ASSUME r.at \in {"set", "set back"} PROVE Kept(r, r.ttl) \in Entry
  <2>1. r.ttl \in 0..TTL /\ r.ttl > 0 /\ r.got \in {"in", "out", "denied"}
    BY <1>0, <1>times, <1>10 DEF AnswerSound
  <2>. HIDE DEF r
  <2>2. r.ttl \in 1..TTL
    BY <2>1, Times
  <2>. QED  BY <2>1, <2>2 DEF Kept, Entry
<1>11. CASE RedisStores(p)
  <2>. DEFINE e == Kept(r, r.ttl)  s == To(r, "set back")
  <2>0. /\ r.at = "set" /\ UNCHANGED world /\ UNCHANGED jwks /\ redis' = e /\ local' = local
        /\ broken' = broken /\ req' = [req EXCEPT ![p] = s]
    BY <1>11 DEF RedisStores, At
  <2>1. e \in Entry
    BY <1>10, <2>0
  <2>2. e.value = r.got /\ e.left = r.ttl
    BY DEF Kept
  <2>3. /\ Wrong(r.got) => since <= r.wait + Patience
        /\ r.ttl > 0 /\ r.got \in {"in", "out", "denied"} /\ (r.got # "denied" => r.ttl <= r.life + r.wait)
        /\ r.life >= -Leeway - 4 * Patience - r.wait
    BY <1>0, <2>0 DEF AnswerSound, LifeSound
  <2>4. r \in Request /\ KeySound(r)
    BY <1>0
  <2>. HIDE DEF r, e
  <2>5. Wrong(r.got) => since + r.ttl <= TTL + 2 * Patience
    BY <1>times, <2>3, Times
  <2>6. EntrySound(e, RedisTime)
    BY <2>2, <2>5 DEF EntrySound, RedisTime
  <2>7. /\ s \in Request /\ s.at = "set back" /\ s.wait = 0 /\ s.ttl = r.ttl
        /\ s.got = r.got /\ s.key = r.key /\ s.life = r.life
    BY <2>4, ToTyped DEF Point
  <2>. HIDE DEF s
  <2>8. /\ Wrong(r.got) => since <= 0 + 2 * Patience
        /\ r.got # "denied" => r.ttl <= r.life + 0 + Patience
        /\ r.life >= -Leeway - 5 * Patience - 0
    BY <1>times, <2>3, Times
  <2>9. KeySound(s)
    BY <2>4, <2>7 DEF KeySound
  <2>10. AnswerSound(s)
    BY <2>3, <2>7, <2>8 DEF AnswerSound
  <2>11. LifeSound(s)
    BY <2>7, <2>8 DEF LifeSound
  <2>. QED  BY <1>0, <1>2, <2>0, <2>1, <2>6, <2>7, <2>9, <2>10, <2>11, RequestStep DEF Sound
<1>12. CASE StoredArrives(p)
  BY <1>1, <1>2, <1>12, QuietStep DEF StoredArrives
<1>13. CASE SetFails(p)
  <2>. DEFINE e == Kept(r, r.ttl)
  <2>0. /\ r.at \in {"set", "set back"} /\ UNCHANGED world /\ UNCHANGED jwks /\ redis' = redis
        /\ local' = e /\ broken' = TRUE /\ req' = [req EXCEPT ![p] = Judged(r.got)]
    BY <1>13 DEF SetFails, At
  <2>1. e \in Entry
    BY <1>10, <2>0
  <2>2. e.value = r.got /\ e.left = r.ttl
    BY DEF Kept
  <2>3. Wrong(r.got) => since <= r.wait + Patience \/ since <= r.wait + 2 * Patience
    BY <1>0, <2>0 DEF AnswerSound
  <2>. HIDE DEF r, e
  <2>4. Wrong(r.got) => since + r.ttl <= TTL + 3 * Patience
    BY <1>times, <2>3, Times
  <2>5. EntrySound(e, Staleness)
    BY <2>2, <2>4 DEF EntrySound, Staleness
  <2>. QED  BY <1>0, <1>1, <1>2, <2>0, <2>1, <2>5, RequestStep
<1>. QED  BY <1>4, <1>5, <1>6, <1>7, <1>8, <1>9, <1>11, <1>12, <1>13

\* Keys come and go, entries and requests are lost, and the user's groups change.
LEMMA WorldSteps ==
  ASSUME Inv,
         \/ \E k \in coming : Publish(k)
         \/ \E k \in published : Withdraw(k)
         \/ \E g \in {"in", "out", "unknown"} \ {groups} : GroupsChange(g)
         \/ KeysAge \/ Forget \/ Restart
  PROVE  Inv'
<1>0. TypeOK /\ EntrySound(redis, RedisTime) /\ EntrySound(local, Staleness) /\ \A p \in Proc : Sound(req[p])
  BY DEF Inv
<1>1. ASSUME NEW k \in coming, Publish(k) PROVE Inv'
  <2>1. TypeOK'
    BY <1>0, <1>1 DEF TypeOK, Publish, jwks, cache
  <2>2. EntrySound(redis, RedisTime)' /\ EntrySound(local, Staleness)'
    BY <1>0, <1>1 DEF Publish, cache, EntrySound, Wrong
  <2>3. ASSUME NEW p \in Proc PROVE Sound(req[p])'
    BY <1>0, <1>1 DEF Publish, Sound, KeySound, AnswerSound, LifeSound, Wrong
  <2>. QED  BY <2>1, <2>2, <2>3 DEF Inv
<1>2. ASSUME NEW k \in published, Withdraw(k) PROVE Inv'
  <2>1. TypeOK'
    BY <1>0, <1>2 DEF TypeOK, Withdraw, jwks, cache
  <2>2. EntrySound(redis, RedisTime)' /\ EntrySound(local, Staleness)'
    BY <1>0, <1>2 DEF Withdraw, cache, EntrySound, Wrong
  <2>3. ASSUME NEW p \in Proc PROVE Sound(req[p])'
    BY <1>0, <1>2 DEF Withdraw, Sound, KeySound, AnswerSound, LifeSound, Wrong
  <2>. QED  BY <2>1, <2>2, <2>3 DEF Inv
<1>3. ASSUME NEW g \in {"in", "out", "unknown"} \ {groups}, GroupsChange(g) PROVE Inv'
  <2>0. UNCHANGED <<mode, coming, published>> /\ UNCHANGED jwks /\ UNCHANGED cache /\ req' = req
    BY <1>3 DEF GroupsChange
  <2>1. since' \in {0, since} /\ groups' = g
    BY <1>3 DEF GroupsChange
  <2>2. TypeOK'
    <3>1. 0 \in 0..Staleness
      BY StalenessIsTime
    <3>. QED  BY <1>0, <2>0, <2>1, <3>1 DEF TypeOK, jwks, cache
  <2>3. since' = 0 \/ (since' = since /\ \A v : Wrong(v)' => Wrong(v))
    BY <1>3 DEF GroupsChange, Wrong
  <2>4. ASSUME NEW e \in Entry \cup {None}, NEW time \in {RedisTime, Staleness}, EntrySound(e, time)
        PROVE  EntrySound(e, time)'
    <3>1. CASE since' = 0
      <4>1. e # None => 0 + e.left <= time
        <5>1. e # None => e.left \in 1..TTL
          BY DEF Entry
        <5>2. TTL <= time
          BY Times DEF Staleness, RedisTime
        <5>. QED  BY <5>1, <5>2, Times DEF Staleness, RedisTime
      <4>. QED  BY <3>1, <4>1 DEF EntrySound
    <3>2. CASE since' = since /\ \A v : Wrong(v)' => Wrong(v)
      BY <2>4, <3>2 DEF EntrySound
    <3>. QED  BY <2>3, <3>1, <3>2
  <2>5. EntrySound(redis, RedisTime)' /\ EntrySound(local, Staleness)'
    BY <1>0, <2>0, <2>4 DEF cache, TypeOK, EntrySound, Wrong
  <2>6. ASSUME NEW r \in Request, Sound(r) PROVE Sound(r)'
    <3>1. r.wait \in Nat
      BY RequestTimes, Times
    <3>2. 0 <= r.wait /\ 0 <= r.wait + Patience /\ 0 <= r.wait + 2 * Patience /\ 0 < RedisTime + r.wait
      BY <3>1, Times DEF RedisTime
    <3>3. AnswerSound(r)'
      <4>1. CASE since' = 0
        BY <2>6, <3>2, <4>1 DEF Sound, AnswerSound
      <4>2. CASE since' = since /\ \A v : Wrong(v)' => Wrong(v)
        BY <2>6, <4>2 DEF Sound, AnswerSound
      <4>. QED  BY <2>3, <4>1, <4>2
    <3>. QED  BY <2>0, <2>6, <3>3 DEF Sound, KeySound, LifeSound
  <2>7. ASSUME NEW p \in Proc PROVE Sound(req[p])'
    <3>1. Sound(req[p]) /\ req[p] \in Request /\ req' = req
      BY <1>0, <2>0 DEF TypeOK
    <3>2. KeySound(req[p])'
      BY <2>0, <3>1 DEF Sound, KeySound
    <3>3. LifeSound(req[p])'
      BY <3>1 DEF Sound, LifeSound
    <3>4. AnswerSound(req[p])'
      BY <2>6, <3>1 DEF Sound, AnswerSound, Wrong
    <3>. QED  BY <3>2, <3>3, <3>4 DEF Sound
  <2>. QED  BY <2>2, <2>5, <2>7 DEF Inv
<1>4. CASE KeysAge
  <2>1. TypeOK'
    BY <1>0, <1>4 DEF KeysAge, TypeOK, world, cache
  <2>2. EntrySound(redis, RedisTime)' /\ EntrySound(local, Staleness)'
    BY <1>0, <1>4 DEF KeysAge, world, cache, EntrySound, Wrong
  <2>3. ASSUME NEW p \in Proc PROVE Sound(req[p])'
    BY <1>0, <1>4 DEF KeysAge, world, Sound, KeySound, AnswerSound, LifeSound, Wrong
  <2>. QED  BY <2>1, <2>2, <2>3 DEF Inv
<1>5. CASE Forget
  <2>1. TypeOK'
    BY <1>0, <1>5 DEF Forget, TypeOK, world, jwks
  <2>2. EntrySound(redis, RedisTime)' /\ EntrySound(local, Staleness)'
    BY <1>0, <1>5 DEF Forget, world, EntrySound, Wrong
  <2>3. ASSUME NEW p \in Proc PROVE Sound(req[p])'
    BY <1>0, <1>5 DEF Forget, world, Sound, KeySound, AnswerSound, LifeSound, Wrong
  <2>. QED  BY <2>1, <2>2, <2>3 DEF Inv
<1>6. CASE Restart
  <2>1. TypeOK'
    BY <1>0, <1>6, IdleTyped DEF Restart, TypeOK, world, Code
  <2>2. EntrySound(redis, RedisTime)' /\ EntrySound(local, Staleness)'
    BY <1>0, <1>6 DEF Restart, world, EntrySound, Wrong
  <2>3. ASSUME NEW p \in Proc PROVE Sound(req[p])'
    <3>1. req'[p] = Idle(None)
      BY <1>6 DEF Restart
    <3>2. req'[p].at = "idle" /\ req'[p].key = None
      BY <3>1 DEF Idle
    <3>3. None \notin coming'
      BY <1>0, <1>6, KeyAssumption DEF Restart, world, TypeOK
    <3>. QED  BY <3>2, <3>3 DEF Sound, KeySound, AnswerSound, LifeSound
  <2>. QED  BY <2>1, <2>2, <2>3 DEF Inv
<1>. QED  BY <1>1, <1>2, <1>3, <1>4, <1>5, <1>6

\* A tick takes from what is left as much as it adds to what has gone by.
LEMMA EntryTick ==
  ASSUME NEW e \in Entry \cup {None}
  PROVE  /\ Older(e) \in Entry \cup {None}
         /\ Older(e) # None => e # None /\ Older(e).value = e.value /\ Older(e).left = e.left - 1
<1>1. CASE e = None \/ e.left = 1
  BY <1>1 DEF Older
<1>2. CASE ~(e = None \/ e.left = 1)
  <2>1. e \in Entry /\ e.left \in 1..TTL /\ e.left # 1
    BY <1>2 DEF Entry
  <2>2. e.left - 1 \in 1..TTL
    BY <2>1, Times
  <2>3. Older(e) = [e EXCEPT !.left = e.left - 1]
    BY <1>2 DEF Older
  <2>. QED  BY <1>2, <2>1, <2>2, <2>3 DEF Entry
<1>. QED  BY <1>1, <1>2

LEMMA LaterTyped ==
  ASSUME NEW r \in Request, Sound(r), Waits(r) => r.wait < Patience
  PROVE  /\ Later(r) \in Request
         /\ Later(r).at = r.at /\ Later(r).code = r.code /\ Later(r).key = r.key
         /\ Later(r).seen = r.seen /\ Later(r).got = r.got /\ Later(r).ttl = r.ttl
         /\ Later(r).wait = IF Waits(r) THEN r.wait + 1 ELSE r.wait
         /\ Later(r).life = IF r.at \in Read THEN r.life - 1 ELSE r.life
<1>. DEFINE life == IF r.at \in Read THEN r.life - 1 ELSE r.life
            wait == IF Waits(r) THEN r.wait + 1 ELSE r.wait
<1>1. Later(r) = [r EXCEPT !.life = life, !.wait = wait]
  BY DEF Later
<1>2. r.wait \in 0..Patience /\ r.life \in (-Leeway - 6 * Patience - 1)..MaxLife
  BY DEF Request
<1>3. wait \in 0..Patience
  BY <1>2, Times
<1>4. r.at \in Read =>
        \/ r.life >= -Leeway - r.wait
        \/ r.life >= -Leeway - Patience - r.wait
        \/ r.life >= -Leeway - 2 * Patience - r.wait
        \/ r.life >= -Leeway - 3 * Patience - r.wait
        \/ r.life >= -Leeway - 4 * Patience - r.wait
        \/ r.life >= -Leeway - 5 * Patience - r.wait
  BY DEF Sound, LifeSound, Read
<1>5. r.at \in Read => Waits(r)
  BY DEF Waits, Read
<1>6. life \in (-Leeway - 6 * Patience - 1)..MaxLife
  <2>. DEFINE reads == r.at \in Read
  <2>1. reads => /\ r.wait < Patience
                 /\ \/ r.life >= -Leeway - r.wait
                    \/ r.life >= -Leeway - Patience - r.wait
                    \/ r.life >= -Leeway - 2 * Patience - r.wait
                    \/ r.life >= -Leeway - 3 * Patience - r.wait
                    \/ r.life >= -Leeway - 4 * Patience - r.wait
                    \/ r.life >= -Leeway - 5 * Patience - r.wait
    BY <1>4, <1>5
  <2>2. life = IF reads THEN r.life - 1 ELSE r.life
    OBVIOUS
  <2>. HIDE DEF reads, life
  <2>. QED  BY <1>2, <2>1, <2>2, Times
<1>. HIDE DEF life, wait
<1>7. [r EXCEPT !.life = life, !.wait = wait] \in Request
  BY <1>3, <1>6 DEF Request
<1>8. Later(r).wait = wait /\ Later(r).life = life
  BY <1>1 DEF Request
<1>. QED  BY <1>1, <1>7, <1>8 DEF Request, life, wait

LEMMA LaterSound ==
  ASSUME NEW r \in Request, Sound(r), Waits(r) => r.wait < Patience,
         UNCHANGED <<mode, published, coming, groups>>, since \in Nat, since' \in Nat, since' <= since + 1
  PROVE  Sound(Later(r))'
<1>. DEFINE s == Later(r)
<1>1. /\ s \in Request /\ s.at = r.at /\ s.key = r.key /\ s.seen = r.seen /\ s.got = r.got /\ s.ttl = r.ttl
      /\ s.wait = IF Waits(r) THEN r.wait + 1 ELSE r.wait
      /\ s.life = IF r.at \in Read THEN r.life - 1 ELSE r.life
  BY LaterTyped
<1>. HIDE DEF s
<1>2. r.wait \in Nat /\ r.life \in Int /\ r.ttl \in Nat
  BY RequestTimes, Times
<1>3. r.at \in Read => s.wait = r.wait + 1 /\ s.life = r.life - 1
  BY <1>1 DEF Waits, Read
<1>4. KeySound(s)'
  BY <1>1 DEF Sound, KeySound
<1>5. s.wait = r.wait + 1 => /\ since <= r.wait => since' <= s.wait
                             /\ since <= r.wait + Patience => since' <= s.wait + Patience
                             /\ since <= r.wait + 2 * Patience => since' <= s.wait + 2 * Patience
                             /\ since < RedisTime + r.wait => since' < RedisTime + s.wait
  BY <1>2, Times DEF RedisTime
<1>6. s.wait = r.wait + 1 /\ s.life = r.life - 1 =>
        /\ r.ttl <= r.life + r.wait => r.ttl <= s.life + s.wait
        /\ r.ttl <= r.life + r.wait + Patience => r.ttl <= s.life + s.wait + Patience
  BY <1>2, Times
<1>7. AnswerSound(s)'
  <2>1. \A v : Wrong(v)' <=> Wrong(v)
    BY DEF Wrong
  <2>. QED  BY <1>1, <1>3, <1>5, <1>6, <2>1 DEF Sound, AnswerSound, Read
<1>8. s.wait = r.wait + 1 /\ s.life = r.life - 1 =>
        /\ r.life >= -Leeway - r.wait => s.life >= -Leeway - s.wait
        /\ r.life >= -Leeway - Patience - r.wait => s.life >= -Leeway - Patience - s.wait
        /\ r.life >= -Leeway - 2 * Patience - r.wait => s.life >= -Leeway - 2 * Patience - s.wait
        /\ r.life >= -Leeway - 3 * Patience - r.wait => s.life >= -Leeway - 3 * Patience - s.wait
        /\ r.life >= -Leeway - 4 * Patience - r.wait => s.life >= -Leeway - 4 * Patience - s.wait
        /\ r.life >= -Leeway - 5 * Patience - r.wait => s.life >= -Leeway - 5 * Patience - s.wait
  BY <1>2, Times
<1>9. LifeSound(s)'
  BY <1>1, <1>3, <1>8 DEF Sound, LifeSound, Read
<1>. QED  BY <1>4, <1>7, <1>9 DEF s, Sound, KeySound, AnswerSound, LifeSound, Wrong

LEMMA TickStep == ASSUME Inv, Tick PROVE Inv'
<1>0. /\ TypeOK /\ EntrySound(redis, RedisTime) /\ EntrySound(local, Staleness)
      /\ \A p \in Proc : req[p] \in Request /\ Sound(req[p])
      /\ redis \in Entry \cup {None} /\ local \in Entry \cup {None}
  BY DEF Inv, TypeOK
<1>1. /\ UNCHANGED <<mode, published, coming, groups>> /\ UNCHANGED jwks /\ broken' = broken
      /\ redis' = Older(redis) /\ local' = Older(local)
      /\ req' = [p \in Proc |-> Later(req[p])]
      /\ since' = IF since = Staleness THEN since ELSE since + 1
      /\ \A p \in Proc : Waits(req[p]) => req[p].wait < Patience
  BY DEF Tick
<1>2. since \in 0..Staleness /\ since' \in 0..Staleness /\ since' <= since + 1
  <2>1. since \in 0..Staleness
    BY <1>0 DEF TypeOK
  <2>2. since' = IF since = Staleness THEN since ELSE since + 1
    BY <1>1
  <2>. QED  BY <2>1, <2>2, StalenessIsTime
<1>3. TypeOK'
  <2>1. \A p \in Proc : Later(req[p]) \in Request
    BY <1>0, <1>1, LaterTyped
  <2>2. {redis', local'} \subseteq Entry \cup {None}
    BY <1>0, <1>1, EntryTick
  <2>. QED  BY <1>0, <1>1, <1>2, <2>1, <2>2 DEF TypeOK, jwks
<1>4. ASSUME NEW e \in Entry \cup {None}, NEW time \in {RedisTime, Staleness}, EntrySound(e, time)
      PROVE  EntrySound(Older(e), time)'
  <2>1. CASE Older(e) = None
    BY <2>1 DEF EntrySound, Older
  <2>2. CASE Older(e) # None
    <3>. DEFINE s == Older(e)
    <3>1. e # None /\ s.value = e.value /\ s.left = e.left - 1
      BY <2>2, EntryTick
    <3>2. e.left \in 1..TTL
      BY <3>1 DEF Entry
    <3>3. Wrong(e.value)' <=> Wrong(e.value)
      BY <1>1 DEF Wrong
    <3>. HIDE DEF s
    <3>4. since + e.left <= time => since' + s.left <= time
      BY <1>2, <3>1, <3>2, Times, StalenessIsTime DEF RedisTime, Staleness
    <3>. QED  BY <1>4, <3>1, <3>3, <3>4 DEF s, EntrySound, Wrong, Older
  <2>. QED  BY <2>1, <2>2
<1>5. EntrySound(redis, RedisTime)' /\ EntrySound(local, Staleness)'
  BY <1>0, <1>1, <1>4 DEF EntrySound, Wrong
<1>6. ASSUME NEW p \in Proc PROVE Sound(req[p])'
  <2>1. \A r \in Request : Sound(r) /\ (Waits(r) => r.wait < Patience) => Sound(Later(r))'
    BY <1>1, <1>2, LaterSound
  <2>2. /\ req[p] \in Request /\ Sound(req[p]) /\ (Waits(req[p]) => req[p].wait < Patience)
        /\ req'[p] = Later(req[p])
    BY <1>0, <1>1
  <2>. QED  BY <2>1, <2>2 DEF Sound, KeySound, AnswerSound, LifeSound, Wrong
<1>. QED  BY <1>3, <1>5, <1>6 DEF Inv

LEMMA Step_Inv == Inv /\ [Next]_vars => Inv'
<1>. SUFFICES ASSUME Inv, [Next]_vars PROVE Inv'
  OBVIOUS
<1>1. CASE UNCHANGED vars
  <2>1. TypeOK'
    BY <1>1 DEF Inv, TypeOK, vars, world, jwks, cache
  <2>2. EntrySound(redis, RedisTime)' /\ EntrySound(local, Staleness)'
    BY <1>1 DEF Inv, vars, world, cache, EntrySound, Wrong
  <2>3. ASSUME NEW p \in Proc PROVE Sound(req[p])'
    BY <1>1 DEF Inv, vars, world, Sound, KeySound, AnswerSound, LifeSound, Wrong
  <2>. QED  BY <2>1, <2>2, <2>3 DEF Inv
<1>2. CASE Next
  BY <1>2, KeySteps, AnswerSteps, WorldSteps, TickStep DEF Next, Step
<1>. QED  BY <1>1, <1>2

\* The inductive invariant: what is cached or on its way is as old as the awaits it
\* went through, and no request waits with a key that is still to be published.
THEOREM Invariance == Spec => []Inv
BY InitInv, Step_Inv, PTL DEF Spec

-----------------------------------------------------------------------------
(* Who gets which answer.                                                  *)

\* What is judged is what somebody has said, and recently.
Recent(code) ==
  \E v \in {"in", "out", "denied"} :
    code = (IF v = "in" THEN "user" ELSE "403") /\ (Wrong(v) => since < Staleness)

LEMMA JudgedCode == \A v : Judged(v).code = IF v = "in" THEN "user" ELSE "403"
BY DEF Judged, Idle

LEMMA AnswerIsRecent ==
  ASSUME TypeOK, NEW r \in Request, AnswerSound(r), r.got # None
  PROVE  r.at \in {"get back", "ask back", "set", "set back"} => Recent(Judged(r.got).code)
<1>1. r.wait \in 0..Patience
  BY RequestTimes
<1>2. since \in 0..Staleness
  BY DEF TypeOK
<1>3. r.got \in {"in", "out", "denied"}
  BY DEF Request
<1>4. r.at \in {"get back", "ask back", "set", "set back"} /\ Wrong(r.got) =>
        \/ since < RedisTime + r.wait \/ since <= r.wait
        \/ since <= r.wait + Patience \/ since <= r.wait + 2 * Patience
  BY DEF AnswerSound
<1>5. (\/ since < RedisTime + r.wait \/ since <= r.wait
       \/ since <= r.wait + Patience \/ since <= r.wait + 2 * Patience) => since < Staleness
  BY <1>1, <1>2, StalenessIsTime, Times DEF Staleness, RedisTime
<1>. QED  BY <1>3, <1>4, <1>5, JudgedCode DEF Recent

LEMMA LookedCode ==
  ASSUME TypeOK, NEW r \in Request, EntrySound(local, Staleness)
  PROVE  LET s == Looked(r, ValueOf(local)) IN s.code = r.code \/ Recent(s.code)
<1>1. CASE ValueOf(local) = None
  <2>1. Looked(r, ValueOf(local)) = To([r EXCEPT !.got = None], "ask")
    BY <1>1 DEF Looked
  <2>. DEFINE q == [r EXCEPT !.got = None]
  <2>2. q \in Request /\ q.code = r.code
    BY DEF Request
  <2>. HIDE DEF q
  <2>3. To(q, "ask").code = r.code
    BY <2>2, ToTyped DEF Point
  <2>. QED  BY <2>1, <2>3 DEF q
<1>2. CASE ValueOf(local) # None
  <2>1. local # None /\ ValueOf(local) = local.value /\ local.left \in 1..TTL
    BY <1>2, EntryTyped DEF TypeOK, ValueOf
  <2>2. local.value \in {"in", "out", "denied"}
    BY <2>1 DEF TypeOK, Entry
  <2>3. since \in 0..Staleness
    BY DEF TypeOK
  <2>4. since + local.left <= Staleness => since < Staleness
    BY <2>1, <2>3, StalenessIsTime, Times
  <2>5. Wrong(local.value) => since < Staleness
    BY <2>1, <2>4 DEF EntrySound
  <2>6. Looked(r, ValueOf(local)) = Judged(local.value)
    BY <1>2, <2>1 DEF Looked
  <2>. QED  BY <2>2, <2>5, <2>6, JudgedCode DEF Recent
<1>. QED  BY <1>1, <1>2

\* A request that has read its token has no answer yet, one from the cache, or one
\* that the token itself gives.
LEMMA DecodedCode ==
  ASSUME Inv, NEW r \in Request, r.code = None, NEW K, NEW s \in Decoded(r, K)
  PROVE  \/ s.code = "401" /\ (s.life < -Leeway \/ (r.forced /\ r.key \notin K))
         \/ s.code \in {None, "service"}
         \/ Recent(s.code)
<1>1. CASE s = Unfit
  <2>1. s.life = -Leeway - 1 /\ s.code = "401"
    BY <1>1 DEF Unfit, Idle
  <2>2. -Leeway - 1 < -Leeway
    BY Times
  <2>. QED  BY <2>1, <2>2
<1>2. CASE s = Idle("service")
  BY <1>2 DEF Idle
<1>3. ASSUME NEW life \in (-Leeway)..MaxLife, s = Permit(life)
      PROVE  s.code = None \/ Recent(s.code)
  <2>. DEFINE q == [Idle(None) EXCEPT !.life = life]
  <2>1. life \in (-Leeway - 6 * Patience - 1)..MaxLife
    BY Times
  <2>2. q \in Request /\ q.code = None
    BY <2>1, LifeTyped, IdleTyped DEF Code, Idle
  <2>3. s = IF broken THEN Looked(q, ValueOf(local)) ELSE To(q, "get")
    BY <1>3 DEF Permit
  <2>. HIDE DEF q
  <2>4. To(q, "get").code = None
    BY <2>2, ToTyped DEF Point
  <2>5. Looked(q, ValueOf(local)).code = None \/ Recent(Looked(q, ValueOf(local)).code)
    BY <2>2, LookedCode DEF Inv
  <2>. QED  BY <2>3, <2>4, <2>5
<1>4. CASE r.key \notin K /\ r.forced
  BY <1>4 DEF Decoded, Idle
<1>5. CASE r.key \notin K /\ ~r.forced
  BY <1>5 DEF Decoded, To, Request
<1>. QED  BY <1>1, <1>2, <1>3, <1>4, <1>5 DEF Decoded

LEMMA AnswersAreJust ==
  ASSUME Inv, Next, NEW p \in Proc, req[p].code = None, req'[p].code # None
  PROVE  \/ req'[p].code = "401" /\ (req'[p].life < -Leeway \/ req[p].key \notin published)
         \/ req'[p].code \in {"service", "503"}
         \/ Recent(req'[p].code)
<1>0. /\ TypeOK /\ req[p] \in Request /\ KeySound(req[p]) /\ AnswerSound(req[p])
      /\ redis \in Entry \cup {None} /\ local \in Entry \cup {None}
      /\ EntrySound(redis, RedisTime) /\ EntrySound(local, Staleness)
  BY DEF Inv, TypeOK, Sound
<1>. DEFINE Goal == \/ req'[p].code = "401" /\ (req'[p].life < -Leeway \/ req[p].key \notin published)
                    \/ req'[p].code \in {"service", "503"}
                    \/ Recent(req'[p].code)
<1>1. ASSUME NEW q \in Proc, NEW s, req' = [req EXCEPT ![q] = s]
      PROVE  p = q /\ req'[p] = s
  BY <1>0, <1>1 DEF TypeOK
<1>2. ASSUME NEW q \in Proc, NEW k \in Key \cup {None}, Arrive(q, k) PROVE Goal
  <2>. DEFINE r == [Idle(None) EXCEPT !.key = k]
  <2>1. PICK s \in IF Fresh THEN Decoded(r, keys) ELSE {To(r, "lock")} : req' = [req EXCEPT ![q] = s]
    BY <1>2 DEF Arrive
  <2>2. req'[p] = s
    BY <1>1, <2>1
  <2>3. r \in Request /\ r.code = None /\ ~r.forced
    <3>1. Idle(None) \in Request
      BY IdleTyped DEF Code
    <3>2. r \in Request
      BY <3>1 DEF Request
    <3>. QED  BY <3>2 DEF Idle
  <2>. HIDE DEF r
  <2>4. To(r, "lock").code = None
    BY <2>3, ToTyped DEF Point
  <2>. QED  BY <2>1, <2>2, <2>3, <2>4, DecodedCode
<1>3. ASSUME NEW q \in Proc, Step(q) PROVE Goal
  <2>1. CASE Send(q)
    BY <1>1, <2>1 DEF Send, Idle
  <2>2. CASE Acquire(q)
    <3>1. CASE MustFetch(req[q])
      <4>1. p = q /\ req'[p] = To(req[p], "certs")
        BY <1>1, <2>2, <3>1 DEF Acquire
      <4>2. To(req[p], "certs").code = req[p].code
        BY <1>0, ToTyped DEF Point
      <4>. QED  BY <4>1, <4>2
    <3>2. CASE ~MustFetch(req[q])
      <4>1. PICK s \in Decoded(req[q], keys) : req' = [req EXCEPT ![q] = s]
        BY <2>2, <3>2 DEF Acquire
      <4>2. p = q /\ req'[p] = s /\ ~req[q].forced
        BY <1>1, <3>2, <4>1 DEF MustFetch
      <4>. QED  BY <1>0, <4>1, <4>2, DecodedCode
    <3>. QED  BY <3>1, <3>2
  <2>3. CASE KeycloakAnswers(q)
    <3>1. p = q /\ req'[p] = To([req[p] EXCEPT !.seen = published], "certs back")
      BY <1>1, <2>3 DEF KeycloakAnswers
    <3>2. req'[p].code = req[p].code
      BY <1>0, <3>1 DEF To, Request
    <3>. QED  BY <3>2
  <2>4. CASE KeysArrive(q)
    <3>1. PICK s \in Decoded(req[q], req[q].seen) : req' = [req EXCEPT ![q] = s]
      BY <2>4 DEF KeysArrive
    <3>2. p = q /\ req'[p] = s /\ req[p].at = "certs back"
      BY <1>1, <2>4, <3>1 DEF KeysArrive, At
    <3>3. req[p].key \notin req[p].seen => req[p].key \notin published
      BY <1>0, <3>2 DEF KeySound
    <3>. QED  BY <1>0, <3>1, <3>2, <3>3, DecodedCode
  <2>5. CASE KeycloakFails(q) \/ RaportFails(q)
    <3>1. req'[p] = Idle("503")
      BY <1>1, <2>5 DEF KeycloakFails, RaportFails
    <3>2. Idle("503").code = "503"
      BY DEF Idle
    <3>. QED  BY <3>1, <3>2
  <2>6. CASE RedisReads(q)
    <3>1. p = q /\ req'[p] = To([req[p] EXCEPT !.got = ValueOf(redis)], "get back")
      BY <1>1, <2>6 DEF RedisReads
    <3>2. req'[p].code = req[p].code
      BY <1>0, <3>1 DEF To, Request
    <3>. QED  BY <3>2
  <2>7. CASE EntryArrives(q)
    <3>1. p = q /\ req'[p] = Looked(req[p], req[p].got) /\ req[p].at = "get back"
      BY <1>1, <2>7 DEF EntryArrives, At
    <3>2. CASE req[p].got = None
      <4>1. req'[p].code = req[p].code
        BY <1>0, <3>1, <3>2 DEF Looked, To, Request
      <4>. QED  BY <4>1
    <3>3. CASE req[p].got # None
      BY <1>0, <3>1, <3>3, AnswerIsRecent DEF Looked
    <3>. QED  BY <3>2, <3>3
  <2>11. CASE GetFails(q)
    <3>1. p = q /\ req'[p] = Looked(req[p], ValueOf(local))
      BY <1>1, <2>11 DEF GetFails
    <3>. QED  BY <1>0, <3>1, LookedCode
  <2>8. CASE RaportAnswers(q)
    <3>1. p = q /\ req'[p] = To([req[p] EXCEPT !.got = Says(req[p])], "ask back")
      BY <1>1, <2>8 DEF RaportAnswers
    <3>2. req'[p].code = req[p].code
      BY <1>0, <3>1 DEF To, Request
    <3>. QED  BY <3>2
  <2>9. CASE AnswerArrives(q)
    <3>1. /\ p = q /\ req[p].at = "ask back"
          /\ \/ req'[p] = Judged(req[p].got)
             \/ req'[p] = To([req[p] EXCEPT !.ttl = TtlFor(req[p])], "set")
      BY <1>1, <2>9 DEF AnswerArrives, At
    <3>2. CASE req'[p] = Judged(req[p].got)
      <4>1. req[p].got # None
        BY <1>0, <3>1, NoneAssumption DEF AnswerSound
      <4>. QED  BY <1>0, <3>1, <3>2, <4>1, AnswerIsRecent
    <3>3. CASE req'[p] = To([req[p] EXCEPT !.ttl = TtlFor(req[p])], "set")
      <4>1. req'[p].code = req[p].code
        BY <1>0, <3>3 DEF To, Request
      <4>. QED  BY <4>1
    <3>. QED  BY <3>1, <3>2, <3>3
  <2>10. CASE StoredArrives(q) \/ SetFails(q)
    <3>1. p = q /\ req'[p] = Judged(req[p].got) /\ req[p].at \in {"set", "set back"}
      BY <1>1, <2>10 DEF StoredArrives, SetFails, At
    <3>2. req[p].got # None
      BY <1>0, <3>1, NoneAssumption DEF AnswerSound
    <3>. QED  BY <1>0, <3>1, <3>2, AnswerIsRecent
  <2>12. CASE RedisStores(q)
    <3>1. p = q /\ req'[p] = To(req[p], "set back")
      BY <1>1, <2>12 DEF RedisStores
    <3>2. req'[p].code = req[p].code
      BY <1>0, <3>1 DEF To, Request
    <3>. QED  BY <3>2
  <2>. QED
    BY <1>3, <2>1, <2>2, <2>3, <2>4, <2>5, <2>6, <2>7, <2>8, <2>9, <2>10, <2>11, <2>12 DEF Step
<1>4. CASE Tick
  <2>1. req'[p] = Later(req[p])
    BY <1>4 DEF Tick
  <2>2. req'[p].code = req[p].code
    BY <1>0, <2>1 DEF Later, Request
  <2>. QED  BY <2>2
<1>5. CASE Restart
  BY <1>5 DEF Restart, Idle
<1>6. CASE UNCHANGED req
  BY <1>6
<1>. QED
  BY <1>2, <1>3, <1>4, <1>5, <1>6 DEF Next, Publish, Withdraw, GroupsChange, KeysAge, Forget

\* 401 is for tokens that are missing, expired or forged: one signed by a key that
\* Keycloak publishes is refused only when its life is over.
THEOREM TokenSafety == Spec => ValidTokensPass
<1>1. Inv /\ [Next]_vars =>
        [\A p \in Proc :
           Gets(p, "401") => req[p].key \notin published \/ req'[p].life < -Leeway]_vars
  <2>. SUFFICES ASSUME Inv, Next, NEW p \in Proc, Gets(p, "401")
                PROVE  req[p].key \notin published \/ req'[p].life < -Leeway
    OBVIOUS
  <2>1. req[p].code = None /\ req'[p].code = "401" /\ req'[p].code # None
    BY NoneAssumption DEF Gets
  <2>2. ~Recent("401")
    BY DEF Recent
  <2>. QED  BY <2>1, <2>2, AnswersAreJust
<1>. QED  BY <1>1, Invariance, PTL DEF Spec, ValidTokensPass

\* Nobody is let in longer than the cache's time and three legs of awaits after he
\* has lost his groups.
THEOREM LossSafety == Spec => LossesTakeEffect
<1>1. Inv /\ [Next]_vars =>
        [\A p \in Proc : Gets(p, "user") /\ groups # "in" => since < Staleness]_vars
  <2>. SUFFICES ASSUME Inv, Next, NEW p \in Proc, Gets(p, "user"), groups # "in"
                PROVE  since < Staleness
    OBVIOUS
  <2>1. req[p].code = None /\ req'[p].code = "user" /\ req'[p].code # None
    BY NoneAssumption DEF Gets
  <2>2. Recent("user")
    BY <2>1, AnswersAreJust
  <2>. QED  BY <2>2 DEF Recent, Wrong
<1>. QED  BY <1>1, Invariance, PTL DEF Spec, LossesTakeEffect

\* Nobody is refused longer than that after he has got them.
THEOREM RefusalSafety == Spec => OutagesAreNotRefusals
<1>1. Inv /\ [Next]_vars =>
        [\A p \in Proc : Gets(p, "403") /\ groups = "in" /\ mode = "authz" => since < Staleness]_vars
  <2>. SUFFICES ASSUME Inv, Next, NEW p \in Proc, Gets(p, "403"), groups = "in", mode = "authz"
                PROVE  since < Staleness
    OBVIOUS
  <2>1. req[p].code = None /\ req'[p].code = "403" /\ req'[p].code # None
    BY NoneAssumption DEF Gets
  <2>2. Recent("403")
    BY <2>1, AnswersAreJust
  <2>. QED  BY <2>2 DEF Recent, Wrong
<1>. QED  BY <1>1, Invariance, PTL DEF Spec, OutagesAreNotRefusals

\* An answer that is stored is not kept longer than the token that earned it lives,
\* but for the time it takes to store it.
THEOREM BoundSafety == Spec => TokenBoundsAnswer
<1>1. Inv /\ [Next]_vars =>
        [\A p \in Proc, entry \in {redis', local'} \ {redis, local, None} :
           req'[p].at # req[p].at /\ entry.value # "denied"
             => entry.left <= req[p].life + 2 * Patience]_vars
  <2>. SUFFICES ASSUME Inv, Next, NEW p \in Proc,
                       NEW entry \in {redis', local'} \ {redis, local, None},
                       req'[p].at # req[p].at /\ entry.value # "denied"
                PROVE  entry.left <= req[p].life + 2 * Patience
    OBVIOUS
  <2>. DEFINE r == req[p]
  <2>0. TypeOK /\ r \in Request /\ AnswerSound(r)
    BY DEF Inv, TypeOK, Sound
  <2>1. ~Tick
    <3>1. Later(r).at = r.at
      BY <2>0 DEF Later, Request
    <3>. QED  BY <3>1 DEF Tick
  <2>2. r.life \in Int /\ r.wait \in 0..Patience /\ r.ttl \in 0..TTL
    BY <2>0, RequestTimes
  <2>3. ASSUME NEW q \in Proc, AnswerArrives(q) PROVE entry.left <= r.life + 2 * Patience
    <3>1. p = q
      BY <2>0, <2>3 DEF AnswerArrives, TypeOK
    <3>2. entry = Kept(r, TtlFor(r)) /\ TtlFor(r) > 0
      BY <2>3, <3>1 DEF AnswerArrives
    <3>3. entry.value = r.got /\ entry.left = TtlFor(r)
      BY <3>2 DEF Kept
    <3>4. entry.left \in 0..TTL /\ entry.left <= r.life
      BY <2>0, <3>2, <3>3, TtlTyped
    <3>. HIDE DEF r
    <3>. QED  BY <2>2, <3>4, Times
  <2>4. ASSUME NEW q \in Proc, RedisStores(q) \/ SetFails(q) PROVE entry.left <= r.life + 2 * Patience
    <3>1. p = q
      BY <2>0, <2>4 DEF RedisStores, SetFails, TypeOK
    <3>2. r.at \in {"set", "set back"} /\ entry = Kept(r, r.ttl)
      BY <2>4, <3>1 DEF RedisStores, SetFails, At
    <3>3. entry.value = r.got /\ entry.left = r.ttl
      BY <3>2 DEF Kept
    <3>4. r.ttl <= r.life + r.wait \/ r.ttl <= r.life + r.wait + Patience
      BY <2>0, <3>2, <3>3 DEF AnswerSound
    <3>. HIDE DEF r
    <3>. QED  BY <2>2, <3>3, <3>4, Times
  <2>. QED
    BY <2>1, <2>3, <2>4
       DEF Next, Arrive, Step, Send, Acquire, KeycloakAnswers, KeysArrive, KeycloakFails, RedisReads,
           EntryArrives, GetFails, StoredArrives, RaportAnswers, RaportFails, Publish, Withdraw,
           GroupsChange, KeysAge, Forget, Restart, cache
<1>. QED  BY <1>1, Invariance, PTL DEF Spec, TokenBoundsAnswer
=============================================================================
