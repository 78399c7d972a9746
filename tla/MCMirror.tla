------------------------------ MODULE MCMirror ------------------------------
(* Instances of Mirror: one housing that Raport moves to a new object, a       *)
(* contract that gets its contractor, a work that may be given a code of its   *)
(* own or another type, and a fact whose cell gets a second contractor; an old *)
(* dump of some tables.                                                        *)
EXTENDS Mirror, TLC

CONSTANTS p, q, o1, o2, h, s, e, k, k2, c, w, y, y2, f, sync, other

Kinds == p :> "project" @@ q :> "queue" @@ o1 :> "object" @@ o2 :> "object" @@ h :> "housing"
      @@ s :> "section" @@ e :> "floor" @@ k :> "contractor" @@ k2 :> "contractor" @@ c :> "contract"
      @@ y :> "type" @@ y2 :> "type" @@ w :> "work" @@ f :> "fact"

Common == {<<q, p>>, <<o1, q>>, <<o1, p>>, <<s, h>>, <<e, s>>, <<w, y>>, <<f, e>>, <<f, w>>}

Before == [there |-> Thing \ {o2}, up |-> Common \cup {<<h, o1>>}, crew |-> {<<f, k>>}]
After  == [there |-> Thing,
           up    |-> Common \cup {<<o2, q>>, <<o2, p>>, <<h, o2>>, <<c, k>>},
           crew  |-> {<<f, k>>, <<f, k2>>}]

TwoVersions == {Before, After}
OldDump == {[of |-> Before, tables |-> {"contract", "housing", "work"}]}
Duties == sync :> {FullSync, <<"facts">>} @@ other :> {<<"import">>}

\* No import meets a work that has been given another type.
EditedAlone == <<w, y2>> \in links => ~Running(other)
=============================================================================
