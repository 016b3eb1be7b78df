------------------------------ MODULE ClockStack -------------------------------
(* The stack of the clock policy: objects with a visited mark, newest in front. *)
EXTENDS HashLists

New == <<>>

Keys(stack) == KeysOf(stack)

Marks(stack) == [k \in Keys(stack) |-> stack[PositionOf(stack, k)].visited]

Update(stack, k) ==
    IF k \in Keys(stack) THEN [stack EXCEPT ![PositionOf(stack, k)].visited = TRUE] ELSE stack

Insert(stack, k) ==
    IF k \in Keys(stack) THEN Update(stack, k)
    ELSE <<[key |-> k, visited |-> FALSE]>> \o stack

Remove(stack, k) == OmitObject(stack, k)

\* Where evict_one's loop stops: the rearmost object that is not visited, or, when
\* all are, the back of the list a second time round.
Victim(stack) ==
    LET unvisited == {i \in DOMAIN stack : ~stack[i].visited}
    IN  IF unvisited = {} THEN Len(stack)
        ELSE CHOOSE i \in unvisited : \A j \in unvisited : j <= i

Cleared(objects) == [i \in DOMAIN objects |-> [objects[i] EXCEPT !.visited = FALSE]]

\* The objects behind the victim went to the front one by one, and with all of
\* them visited those in front of it did too.
EvictOne(stack) ==
    IF stack = <<>> THEN Evicting(NoKey, stack)
    ELSE LET i      == Victim(stack)
             before == SubSeq(stack, 1, i - 1)
             behind == SubSeq(stack, i + 1, Len(stack))
         IN  Evicting(stack[i].key,
                      Cleared(behind) \o (IF stack[i].visited THEN Cleared(before) ELSE before))

================================================================================
