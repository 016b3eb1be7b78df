------------------------------ MODULE SieveStack -------------------------------
(* The stack of the sieve policy: a clock whose objects stay in place. *)
EXTENDS HashLists

New == [list |-> <<>>, hand |-> NoKey]

Keys(stack) == KeysOf(stack.list)

Marks(stack) == [k \in Keys(stack) |-> stack.list[PositionOf(stack.list, k)].visited]

Update(stack, k) ==
    IF k \in Keys(stack)
    THEN [stack EXCEPT !.list[PositionOf(stack.list, k)].visited = TRUE]
    ELSE stack

Insert(stack, k) ==
    IF k \in Keys(stack) THEN Update(stack, k)
    ELSE [stack EXCEPT !.list = <<[key |-> k, visited |-> FALSE]>> \o @]

\* Faulty variant of Remove: the hand is left where it was.
RemoveLeavingHand(stack, k) == [stack EXCEPT !.list = OmitObject(@, k)]

\* The hand moves, whichever key is removed: to the object in front of that key.
Remove(stack, k) ==
    [list |-> OmitObject(stack.list, k), hand |-> KeyBefore(stack.list, k)]

\* evict_one looks at the objects from the hand to the front and then from the back:
\* the j-th position it looks at, with j starting at 0.
LookedAt(stack, j) ==
    LET n     == Len(stack.list)
        start == IF stack.hand = NoKey THEN n ELSE PositionOf(stack.list, stack.hand)
    IN  1 + ((start - 1 + n - j) % n)

\* How many visited objects it passes; after all of them it is at the first again.
Passes(stack) ==
    LET visited(j) == stack.list[LookedAt(stack, j)].visited
    IN  CHOOSE n \in 0 .. Len(stack.list) :
            /\ \A j \in 0 .. n - 1 : visited(j)
            /\ n = Len(stack.list) \/ ~visited(n)

\* A hand that names no object ends the search without one.
EvictOne(stack) ==
    IF stack.list = <<>> \/ (stack.hand # NoKey /\ stack.hand \notin Keys(stack))
    THEN Evicting(NoKey, [stack EXCEPT !.hand = NoKey])
    ELSE LET passes  == Passes(stack)
             victim  == stack.list[LookedAt(stack, passes % Len(stack.list))].key
             passed  == {LookedAt(stack, j) : j \in 0 .. passes - 1}
             cleared == [i \in DOMAIN stack.list |->
                            [stack.list[i] EXCEPT !.visited = @ /\ i \notin passed]]
         IN  Evicting(victim, [list |-> OmitObject(cleared, victim),
                               hand |-> KeyBefore(stack.list, victim)])

================================================================================
