------------------------------- MODULE MruStack --------------------------------
(***************************************************************************)
(* The stack of the mru policy.  The most recently used key is held apart  *)
(* from the list, "to ensure that it isn't immediately evicted".           *)
(***************************************************************************)
EXTENDS HashLists

New == [maybe_mru_key |-> NoKey, list |-> <<>>]

Keys(stack) == Elements(stack.list) \cup ({stack.maybe_mru_key} \ {NoKey})

\* k becomes the most recently used key, the previous one goes to the list.
Promote(list, mru, k) ==
    [maybe_mru_key |-> k, list |-> IF mru = NoKey THEN list ELSE PushFront(list, mru)]

\* update: the key need not be known, as every get leads here, hit or miss.
Update(stack, k) ==
    IF stack.maybe_mru_key = k THEN stack
    ELSE Promote(Omit(stack.list, k), stack.maybe_mru_key, k)

\* Faulty variant of Insert: the previous most recently used key is dropped.
InsertDropping(stack, k) ==
    IF Has(stack.list, k) THEN Update(stack, k) ELSE [stack EXCEPT !.maybe_mru_key = k]

\* insert asks the list alone whether it knows the key, not maybe_mru_key.
Insert(stack, k) ==
    IF Has(stack.list, k) THEN Update(stack, k)
    ELSE Promote(stack.list, stack.maybe_mru_key, k)

\* evict_one's, and what becomes of the stack when it loses its first key in line.
PopFront(stack) ==
    IF stack.list = <<>> THEN Evicting(stack.maybe_mru_key, New)
    ELSE Evicting(Head(stack.list), [stack EXCEPT !.list = Tail(@)])

\* remove of the most recently used key promotes the front of the list.
Remove(stack, k) ==
    IF stack.maybe_mru_key # k THEN [stack EXCEPT !.list = Omit(@, k)]
    ELSE IF stack.list = <<>> THEN New
    ELSE [maybe_mru_key |-> Head(stack.list), list |-> Tail(stack.list)]

EvictOne(stack) == PopFront(stack)

================================================================================
