------------------------------- MODULE FifoStack -------------------------------
(* The stack of the fifo policy: a HashList of keys, newest at the front. *)
EXTENDS HashLists

New == <<>>

\* insert of a known key is update, which this stack leaves at the trait's default.
Insert(stack, k) == IF Has(stack, k) THEN stack ELSE PushFront(stack, k)

Remove(stack, k) == Omit(stack, k)

EvictOne(stack) == PopBack(stack)

================================================================================
