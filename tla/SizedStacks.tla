------------------------------ MODULE SizedStacks ------------------------------
(***************************************************************************)
(* The struct Stack that the 2q, arc and s3-fifo stacks each define: a     *)
(* HashList of objects with a key and a size, and the sum of their sizes   *)
(* kept beside it.  (The maximum sizes stay with the modules.)             *)
(***************************************************************************)
EXTENDS HashLists

\* A ratio, an f64 in the code, is a number of Scale-ths, exact for every ratio
\* the instances meet.
CONSTANT Scale

NoStack == [list |-> <<>>, used |-> 0]

Object(k, s) == [key |-> k, size |-> s]

Holds(st, k) == k \in KeysOf(st.list)

ObjectOf(st, k) == st.list[PositionOf(st.list, k)]

Push(st, o) == [list |-> <<o>> \o st.list, used |-> st.used + o.size]

\* update: a new size for an object, if the stack holds it.
Sized(st, k, s) ==
    IF Holds(st, k)
    THEN [list |-> [st.list EXCEPT ![PositionOf(st.list, k)].size = s],
          used |-> st.used - ObjectOf(st, k).size + s]
    ELSE st

\* remove
Without(st, k) ==
    IF Holds(st, k)
    THEN [list |-> OmitObject(st.list, k), used |-> st.used - ObjectOf(st, k).size]
    ELSE st

\* pop, of a stack that is not empty: what it returns and what it leaves.
Popped(st) == Back(st.list)
Rest(st) == [list |-> WithoutBack(st.list), used |-> st.used - Back(st.list).size]

SumOfSizes(list) ==
    LET sum[i \in 0 .. Len(list)] == IF i = 0 THEN 0 ELSE sum[i - 1] + list[i].size
    IN  sum[Len(list)]

\* The sum kept beside the list is the sum of the list.
SumKept(st) == st.used = SumOfSizes(st.list)

KeySeq(st) == [i \in DOMAIN st.list |-> st.list[i].key]

================================================================================
