---------------------------- MODULE MCRaportAuth ----------------------------
(* Instances of RaportAuth: a key that is about to be replaced, two requests.  *)
EXTENDS RaportAuth, TLC

CONSTANTS k1, k2, p1, p2

Busy(p) == req[p] # Idle(None)

Verifying(p) == req[p].at \in {"lock", "certs", "certs back"}

\* The keys rotate while nothing is cached or asked about permissions, and what is
\* cached changes while the keys are at rest.  When requests meet at the keys,
\* nobody's permissions have changed for long; when they meet at the permissions,
\* Raport is asked by user.
KeysRotate ==
  /\ {redis, local} = {None} /\ ~broken
  /\ \A p \in Proc : Verifying(p) \/ At(p, "idle")
  /\ (\A p \in Proc : Busy(p)) => groups = "in" /\ since = Staleness

KeysRest ==
  /\ Fresh /\ keys = published /\ published # Key /\ coming = {}
  /\ \A p \in Proc : ~Verifying(p)
  /\ (\A p \in Proc : Busy(p)) => mode = "authz"

Focus == KeysRotate \/ KeysRest

Symmetry == Permutations(Proc) \cup Permutations(Key)
=============================================================================
