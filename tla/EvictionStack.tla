----------------------------- MODULE EvictionStack -----------------------------
(***************************************************************************)
(* What the eviction loop of the policy worker needs of a PolicyStack: the *)
(* stack knows exactly the keys it was told of and evict_one gives one of  *)
(* them up, None only when there is none ("the policy has run out of keys  *)
(* to evict", lib.rs).  `last` is the call just made and its key: the      *)
(* argument, or what evict_one returned.                                   *)
(***************************************************************************)
CONSTANTS HashedKeys, NoKey

VARIABLES known, last

vars == <<known, last>>

Init == known = {} /\ last = <<"new", NoKey>>

Insert(k) == known' = known \cup {k} /\ last' = <<"insert", k>>

\* A get tells the stack of a key whether it knows it or not.
Update(k) == known' = known /\ last' = <<"update", k>>

Remove(k) == known' = known \ {k} /\ last' = <<"remove", k>>

Resize == known' = known /\ last' = <<"resize", NoKey>>

Clear == known' = {} /\ last' = <<"clear", NoKey>>

EvictOne ==
    \/ \E k \in known : known' = known \ {k} /\ last' = <<"evict_one", k>>
    \/ known = {} /\ known' = {} /\ last' = <<"evict_one", NoKey>>

Next ==
    \/ \E k \in HashedKeys : Insert(k) \/ Update(k) \/ Remove(k)
    \/ Resize \/ Clear \/ EvictOne

Spec == Init /\ [][Next]_vars

=============================================================================
