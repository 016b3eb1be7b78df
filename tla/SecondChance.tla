------------------------------ MODULE SecondChance ------------------------------
(***************************************************************************)
(* What CLOCK and SIEVE promise alike: a key used since it was last passed *)
(* over is passed over once more, losing its mark, as long as some key is  *)
(* not marked; with all keys marked, all but one lose their mark.          *)
(***************************************************************************)
CONSTANTS HashedKeys, NoKey

VARIABLES
    visited,    \* from the known keys to their marks
    last        \* the last call, as in EvictionStack

vars == <<visited, last>>

known == DOMAIN visited

Init == visited = [k \in {} |-> FALSE] /\ last = <<"new", NoKey>>

Insert(k) ==
    /\ visited' = [j \in known \cup {k} |-> IF j = k THEN k \in known ELSE visited[j]]
    /\ last' = <<"insert", k>>

Update(k) ==
    /\ visited' = [j \in known |-> j = k \/ visited[j]]
    /\ last' = <<"update", k>>

Remove(k) ==
    /\ visited' = [j \in known \ {k} |-> visited[j]]
    /\ last' = <<"remove", k>>

Resize == visited' = visited /\ last' = <<"resize", NoKey>>

Clear == visited' = [k \in {} |-> FALSE] /\ last' = <<"clear", NoKey>>

\* The marked keys that are passed over on the way to k.
PassedOver(k) ==
    IF visited[k] THEN {known \ {k}}
    ELSE SUBSET {j \in known : visited[j]}

EvictOne ==
    \/ \E k \in known :
           /\ visited[k] => \A j \in known : visited[j]
           /\ \E passed \in PassedOver(k) :
                  visited' = [j \in known \ {k} |-> visited[j] /\ j \notin passed]
           /\ last' = <<"evict_one", k>>
    \/ known = {} /\ visited' = visited /\ last' = <<"evict_one", NoKey>>

Next ==
    \/ \E k \in HashedKeys : Insert(k) \/ Update(k) \/ Remove(k)
    \/ Resize \/ Clear \/ EvictOne

Spec == Init /\ [][Next]_vars

=============================================================================
