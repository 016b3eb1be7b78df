------------------------------- MODULE LruStack --------------------------------
(* The stack of the lru policy: a HashList of keys, latest used at the front. *)
EXTENDS HashLists

New == <<>>

\* update: move_front leaves the list alone when it does not hold the key.
Update(stack, k) == MoveFront(stack, k)

Insert(stack, k) == IF Has(stack, k) THEN Update(stack, k) ELSE PushFront(stack, k)

Remove(stack, k) == Omit(stack, k)

EvictOne(stack) == PopBack(stack)

================================================================================
