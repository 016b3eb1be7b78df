----------------------------- MODULE EvictionOrder -----------------------------
(***************************************************************************)
(* The eviction order FIFO, LRU and LFU promise, without any list: every   *)
(* known key has a number of uses, and `order` says of any two known keys  *)
(* which goes first.  A key that is inserted or moved goes behind all keys *)
(* with no more uses than it has and before the others.                    *)
(*   fifo   neither moves nor counts      the order of first insertion     *)
(*   lru    moves                         the order of last use            *)
(*   lfu    moves and counts              fewest uses, then longest there  *)
(***************************************************************************)
EXTENDS Naturals

CONSTANTS HashedKeys, NoKey

VARIABLES
    policy,
    uses,       \* from the known keys to their numbers of uses
    order,      \* pairs <<j, k>>: j is evicted before k
    last        \* the last call, as in EvictionStack

vars == <<policy, uses, order, last>>

known == DOMAIN uses

Moves == policy # "fifo"
Counts == policy = "lfu"

Init ==
    /\ policy \in {"fifo", "lru", "lfu"}
    /\ uses = [k \in {} |-> 0]
    /\ order = {}
    /\ last = <<"new", NoKey>>

Unordered(k) == {pair \in order : k \notin {pair[1], pair[2]}}

Place(k, n) ==
    /\ uses' = [j \in known \cup {k} |-> IF j = k THEN n ELSE uses[j]]
    /\ order' = Unordered(k) \cup {<<j, k>> : j \in {j \in known \ {k} : uses[j] <= n}}
                             \cup {<<k, j>> : j \in {j \in known \ {k} : uses[j] > n}}

Forget(k) ==
    /\ uses' = [j \in known \ {k} |-> uses[j]]
    /\ order' = Unordered(k)

Use(k) ==
    IF k \in known /\ Moves
    THEN Place(k, IF Counts THEN uses[k] + 1 ELSE 0)
    ELSE UNCHANGED <<uses, order>>

Insert(k) ==
    /\ IF k \in known THEN Use(k) ELSE Place(k, IF Counts THEN 1 ELSE 0)
    /\ last' = <<"insert", k>>

Update(k) == Use(k) /\ last' = <<"update", k>>

Remove(k) == Forget(k) /\ last' = <<"remove", k>>

Resize == UNCHANGED <<uses, order>> /\ last' = <<"resize", NoKey>>

Clear ==
    /\ uses' = [k \in {} |-> 0]
    /\ order' = {}
    /\ last' = <<"clear", NoKey>>

EvictOne ==
    \/ \E k \in known :
           /\ \A j \in known \ {k} : <<k, j>> \in order
           /\ Forget(k)
           /\ last' = <<"evict_one", k>>
    \/ known = {} /\ UNCHANGED <<uses, order>> /\ last' = <<"evict_one", NoKey>>

Next ==
    /\ \/ \E k \in HashedKeys : Insert(k) \/ Update(k) \/ Remove(k)
       \/ Resize \/ Clear \/ EvictOne
    /\ policy' = policy

Spec == Init /\ [][Next]_vars

================================================================================
