------------------------------- MODULE ArcStack --------------------------------
(***************************************************************************)
(* The stack of the arc policy: t1 for keys used once, t2 for keys used    *)
(* again, b1 and b2 for what was evicted from them.  p is the share of t1. *)
(***************************************************************************)
EXTENDS SizedStacks

New(max_size) ==
    [t1 |-> NoStack, t2 |-> NoStack, b1 |-> NoStack, b2 |-> NoStack,
     p |-> 0, max_size |-> max_size]

Keys(stack) == KeysOf(stack.t1.list) \cup KeysOf(stack.t2.list)

\* to the front of t2, from t1 or from t2 itself.
Update(stack, k) ==
    CASE Holds(stack.t1, k) ->
            [stack EXCEPT !.t1 = Without(@, k), !.t2 = Push(@, ObjectOf(stack.t1, k))]
      [] ~Holds(stack.t1, k) /\ Holds(stack.t2, k) ->
            [stack EXCEPT !.t2 = Push(Without(@, k), ObjectOf(stack.t2, k))]
      [] OTHER -> stack

Limit(stack) == stack.max_size * Scale

\* delta is one, or the ratio of the other ghost's used size to this one's; that
\* ratio is infinite, and p at its limit, when this ghost is empty.
Delta(this, other) == IF this >= other THEN Scale ELSE (other * Scale) \div this

Raised(stack, this, other) ==
    IF (this = 0 /\ other > 0) \/ stack.p + Delta(this, other) >= Limit(stack)
    THEN Limit(stack) ELSE stack.p + Delta(this, other)

Lowered(stack, this, other) ==
    IF (this = 0 /\ other > 0) \/ stack.p <= Delta(this, other)
    THEN 0 ELSE stack.p - Delta(this, other)

\* insert, case 1: the key is in t1 or t2.
SetAgain(stack, k, s) ==
    Update([stack EXCEPT !.t1 = Sized(@, k, s), !.t2 = Sized(@, k, s)], k)

\* Faulty variant of Insert: a key that comes back stays in its ghost.
InsertHaunted(stack, k, s) ==
    IF k \in Keys(stack) THEN SetAgain(stack, k, s)
    ELSE IF Holds(stack.b1, k) \/ Holds(stack.b2, k)
    THEN [stack EXCEPT !.t2 = Push(@, Object(k, s))]
    ELSE [stack EXCEPT !.t1 = Push(@, Object(k, s))]

\* insert, cases 1 to 4: the key may come back from a ghost, which moves p.
Insert(stack, k, s) ==
    CASE k \in Keys(stack) -> SetAgain(stack, k, s)
      [] k \notin Keys(stack) /\ Holds(stack.b1, k) ->
            LET b1 == Without(stack.b1, k)
            IN  [stack EXCEPT !.b1 = b1, !.p = Raised(stack, b1.used, stack.b2.used),
                              !.t2 = Push(@, Object(k, s))]
      [] k \notin Keys(stack) /\ ~Holds(stack.b1, k) /\ Holds(stack.b2, k) ->
            LET b2 == Without(stack.b2, k)
            IN  [stack EXCEPT !.b2 = b2, !.p = Lowered(stack, b2.used, stack.b1.used),
                              !.t2 = Push(@, Object(k, s))]
      [] OTHER -> [stack EXCEPT !.t1 = Push(@, Object(k, s))]

Remove(stack, k) ==
    [stack EXCEPT !.t1 = Without(@, k), !.t2 = Without(@, k),
                  !.b1 = Without(@, k), !.b2 = Without(@, k)]

\* p keeps its value, even above the new maximum size.
Resize(stack, max_size) == [stack EXCEPT !.max_size = max_size]

Clear(stack) ==
    [stack EXCEPT !.t1 = NoStack, !.t2 = NoStack, !.b1 = NoStack, !.b2 = NoStack, !.p = 0]

WithoutOldest(ghost) == IF ghost.list = <<>> THEN ghost ELSE Rest(ghost)

\* Faulty variant of Replace: t2 is asked whenever t1 has not reached its share.
ReplaceByShare(stack) ==
    IF stack.t1.list # <<>> /\ stack.t1.used * Scale >= stack.p
    THEN Evicting(Popped(stack.t1).key,
                  [stack EXCEPT !.t1 = Rest(@), !.b1 = Push(@, Popped(stack.t1))])
    ELSE IF stack.t2.list # <<>>
    THEN Evicting(Popped(stack.t2).key,
                  [stack EXCEPT !.t2 = Rest(@), !.b2 = Push(@, Popped(stack.t2))])
    ELSE Evicting(NoKey, stack)

\* replace: t1 or t2 gives up its rearmost object, to its ghost.
Replace(stack) ==
    IF stack.t1.list # <<>> /\ (stack.t1.used * Scale >= stack.p \/ stack.t2.list = <<>>)
    THEN Evicting(Popped(stack.t1).key,
                  [stack EXCEPT !.t1 = Rest(@), !.b1 = Push(@, Popped(stack.t1))])
    ELSE IF stack.t2.list # <<>>
    THEN Evicting(Popped(stack.t2).key,
                  [stack EXCEPT !.t2 = Rest(@), !.b2 = Push(@, Popped(stack.t2))])
    ELSE Evicting(NoKey, stack)

TotalUsedSize(stack) == stack.t1.used + stack.t2.used + stack.b1.used + stack.b2.used

\* An object that t1 gives up for being too large itself is not remembered.  With a
\* maximum size of zero, which a mini stack can have, an empty t1 is asked as well.
EvictOne(stack) ==
    CASE stack.t1.used >= stack.max_size ->
            IF stack.t1.list = <<>> THEN Evicting(NoKey, stack)
            ELSE Evicting(Popped(stack.t1).key, [stack EXCEPT !.t1 = Rest(@)])
      [] stack.t1.used < stack.max_size /\ stack.t1.used + stack.b1.used >= stack.max_size ->
            Replace([stack EXCEPT !.b1 = WithoutOldest(@)])
      [] OTHER ->
            Replace(IF TotalUsedSize(stack) >= stack.max_size * 2
                    THEN [stack EXCEPT !.b2 = WithoutOldest(@)] ELSE stack)

(***************************************************************************)
(* Each used size is the sum of its list, and a key is in at most one.     *)
(***************************************************************************)
Consistent(stack) ==
    /\ SumKept(stack.t1) /\ SumKept(stack.t2) /\ SumKept(stack.b1) /\ SumKept(stack.b2)
    /\ NoRepeats(KeySeq(stack.t1) \o KeySeq(stack.t2) \o KeySeq(stack.b1) \o KeySeq(stack.b2))

================================================================================
