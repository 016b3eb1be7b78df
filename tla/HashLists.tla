------------------------------- MODULE HashLists -------------------------------
(***************************************************************************)
(* kwik's HashList, from how the eviction stacks use it: a list, front     *)
(* first, with a hash index, so that it holds a key at most once.  That    *)
(* push_front of a key already there leaves one entry, at the front, is    *)
(* what the test of mru_stack.rs (lines 127-135) depends on.               *)
(***************************************************************************)
EXTENDS Naturals, Sequences

CONSTANT NoKey  \* None as an Option of a hashed key

\* back and what pop_back leaves, of a list that is not empty.
Back(list) == list[Len(list)]
WithoutBack(list) == SubSeq(list, 1, Len(list) - 1)

\* A list without its i-th entry.
WithoutAt(list, i) == SubSeq(list, 1, i - 1) \o SubSeq(list, i + 1, Len(list))

\* What evict_one returns, and the stack it leaves.
Evicting(k, stack) == [key |-> k, stack |-> stack]

(* Lists of keys *)

Elements(list) == {list[i] : i \in DOMAIN list}

Has(list, k) == k \in Elements(list)

Omit(list, k) ==
    IF Has(list, k) THEN WithoutAt(list, CHOOSE i \in DOMAIN list : list[i] = k) ELSE list

PushFront(list, k) == <<k>> \o Omit(list, k)

MoveFront(list, k) == IF Has(list, k) THEN PushFront(list, k) ELSE list

PopBack(list) ==
    IF list = <<>> THEN Evicting(NoKey, list) ELSE Evicting(Back(list), WithoutBack(list))

(* Lists of objects, which borrow their key *)

KeysOf(list) == {list[i].key : i \in DOMAIN list}

PositionOf(list, k) == CHOOSE i \in DOMAIN list : list[i].key = k

OmitObject(list, k) ==
    IF k \in KeysOf(list) THEN WithoutAt(list, PositionOf(list, k)) ELSE list

\* The key of the object in front of k's, if there is one.
KeyBefore(list, k) ==
    IF k \in KeysOf(list) /\ PositionOf(list, k) > 1
    THEN list[PositionOf(list, k) - 1].key
    ELSE NoKey

NoRepeats(keys) == \A i, j \in DOMAIN keys : keys[i] = keys[j] => i = j

================================================================================
