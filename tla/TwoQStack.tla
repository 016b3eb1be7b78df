------------------------------- MODULE TwoQStack -------------------------------
(***************************************************************************)
(* The stack of the 2q policy: a1_in for new keys, a1_out for what did not *)
(* fit into it any more, am for what was used while in a1_out.  All three  *)
(* hold objects of the cache.                                              *)
(***************************************************************************)
EXTENDS SizedStacks

CONSTANT KIn    \* TwoQStack::k_in

\* (k_in * max_size) as u64; the maximum size of a1_out is never read.
InSize(max_size) == (KIn * max_size) \div Scale

New(max_size) ==
    [a1_in |-> NoStack, a1_out |-> NoStack, am |-> NoStack, in_size |-> InSize(max_size)]

Keys(stack) == KeysOf(stack.a1_in.list) \cup KeysOf(stack.a1_out.list) \cup KeysOf(stack.am.list)

\* How many objects restructure_to_fit pops off the back of a1_in: until an object
\* of this size fits or none is left.
Overflow(stack, size) ==
    LET list    == stack.a1_in.list
        kept(n) == SumOfSizes(SubSeq(list, 1, Len(list) - n))
        fits(n) == stack.a1_in.used - (SumOfSizes(list) - kept(n)) + size <= stack.in_size
    IN  CHOOSE n \in 0 .. Len(list) :
            /\ n = Len(list) \/ fits(n)
            /\ \A m \in 0 .. n - 1 : ~fits(m)

\* Faulty variant of Admit: one object at most makes room.
AdmitOnce(stack, k, s) ==
    IF Overflow(stack, s) = 0 THEN [stack EXCEPT !.a1_in = Push(@, Object(k, s))]
    ELSE [stack EXCEPT !.a1_in = Push(Rest(@), Object(k, s)),
                       !.a1_out = Push(@, Popped(stack.a1_in))]

\* A new key: restructure_to_fit, then push to a1_in.  The object popped last is
\* the front of a1_out.
Admit(stack, k, s) ==
    LET list  == stack.a1_in.list
        kept  == SubSeq(list, 1, Len(list) - Overflow(stack, s))
        moved == SubSeq(list, Len(kept) + 1, Len(list))
    IN  [stack EXCEPT
            !.a1_in = Push([list |-> kept, used |-> @.used - SumOfSizes(moved)], Object(k, s)),
            !.a1_out = [list |-> moved \o @.list, used |-> @.used + SumOfSizes(moved)]]

\* out of a1_out into am, or to the front of am; in a1_in nothing moves.
Update(stack, k) ==
    CASE Holds(stack.a1_out, k) ->
            [stack EXCEPT !.a1_out = Without(@, k), !.am = Push(@, ObjectOf(stack.a1_out, k))]
      [] ~Holds(stack.a1_out, k) /\ Holds(stack.am, k) ->
            [stack EXCEPT !.am.list = <<ObjectOf(stack.am, k)>> \o OmitObject(stack.am.list, k)]
      [] OTHER -> stack

Insert(stack, k, s) ==
    IF k \in Keys(stack)
    THEN Update([stack EXCEPT !.a1_in = Sized(@, k, s), !.a1_out = Sized(@, k, s),
                              !.am = Sized(@, k, s)], k)
    ELSE Admit(stack, k, s)

Remove(stack, k) ==
    [stack EXCEPT !.a1_in = Without(@, k), !.a1_out = Without(@, k), !.am = Without(@, k)]

\* Nothing moves before the next new key.
Resize(stack, max_size) == [stack EXCEPT !.in_size = InSize(max_size)]

Clear(stack) == [stack EXCEPT !.a1_in = NoStack, !.a1_out = NoStack, !.am = NoStack]

EvictOne(stack) ==
    CASE stack.a1_out.list # <<>> ->
            Evicting(Popped(stack.a1_out).key, [stack EXCEPT !.a1_out = Rest(@)])
      [] stack.a1_out.list = <<>> /\ stack.a1_in.list # <<>> ->
            Evicting(Popped(stack.a1_in).key, [stack EXCEPT !.a1_in = Rest(@)])
      [] stack.a1_out.list = <<>> /\ stack.a1_in.list = <<>> /\ stack.am.list # <<>> ->
            Evicting(Popped(stack.am).key, [stack EXCEPT !.am = Rest(@)])
      [] OTHER -> Evicting(NoKey, stack)

(***************************************************************************)
(* Each used size is the sum of its list, and a key is in at most one.     *)
(***************************************************************************)
Consistent(stack) ==
    /\ SumKept(stack.a1_in) /\ SumKept(stack.a1_out) /\ SumKept(stack.am)
    /\ NoRepeats(KeySeq(stack.a1_in) \o KeySeq(stack.a1_out) \o KeySeq(stack.am))

================================================================================
