---------------------------- MODULE MCPolicyStacks -----------------------------
(***************************************************************************)
(* Small instances of PolicyStacks, and the loops of the evict_one methods *)
(* written as the code has them.                                           *)
(***************************************************************************)
EXTENDS PolicyStacks, TLC

KeySymmetry == Permutations(HashedKeys)

Evicting(k, left) == [key |-> k, stack |-> left]

RECURSIVE ClockLoop(_), SieveLoop(_, _), MainLoop(_), SmallLoop(_)

\* clock_stack.rs evict_one
ClockLoop(list) ==
    IF list = <<>> THEN Evicting(NoKey, list)
    ELSE LET o == Clock!Back(list)
         IN  IF o.visited
             THEN ClockLoop(<<[o EXCEPT !.visited = FALSE]>> \o Clock!WithoutBack(list))
             ELSE Evicting(o.key, Clock!WithoutBack(list))

\* sieve_stack.rs evict_one
SieveLoop(list, at) ==
    IF at = NoKey /\ list = <<>> THEN Evicting(NoKey, [list |-> list, hand |-> at])
    ELSE LET k    == IF at # NoKey THEN at ELSE Sieve!Back(list).key
             i    == Sieve!PositionOf(list, k)
             next == Sieve!KeyBefore(list, k)
         IN  IF k \notin Sieve!KeysOf(list) THEN Evicting(NoKey, [list |-> list, hand |-> next])
             ELSE IF list[i].visited
                  THEN SieveLoop([list EXCEPT ![i].visited = FALSE], next)
                  ELSE Evicting(k, [list |-> Sieve!OmitObject(list, k), hand |-> next])

\* s_three_fifo_stack.rs evict_main
MainLoop(st) ==
    IF st.main.list = <<>> THEN Evicting(NoKey, st)
    ELSE LET o == SThree!Popped(st.main)
         IN  IF o.freq > 0
             THEN MainLoop([st EXCEPT !.main = SThree!Push(SThree!Rest(@), [o EXCEPT !.freq = @ - 1])])
             ELSE LET left == SThree!Rest(st.main)
                  IN  Evicting(o.key, [st EXCEPT
                          !.main = left,
                          !.ghost = [i \in {j \in DOMAIN @ : j <= Len(left.list)} |-> @[i]]])

\* s_three_fifo_stack.rs evict_small
SmallLoop(st) ==
    IF st.small.list = <<>> THEN Evicting(NoKey, st)
    ELSE LET o   == SThree!Popped(st.small)
             pop == [st EXCEPT !.small = SThree!Rest(@)]
             put == [pop EXCEPT !.main = SThree!Push(@, o)]
         IN  IF o.freq > 1
             THEN IF SThree!IsFull(put, put.main.used) THEN MainLoop(put) ELSE SmallLoop(put)
             ELSE Evicting(o.key, [pop EXCEPT !.ghost = SThree!PushFront(@, o.key)])

\* s_three_fifo_stack.rs evict_one
SThreeLoops(st) ==
    LET tried == IF SThree!IsFull(st, st.main.used) THEN Evicting(NoKey, st) ELSE SmallLoop(st)
    IN  IF tried.key # NoKey THEN tried ELSE MainLoop(tried.stack)

\* The closed forms of the three evict_one methods that loop compute what their
\* loops compute, and the loops end, from every reachable stack (clock_stack.rs,
\* sieve_stack.rs, s_three_fifo_stack.rs).
EvictsAsTheLoopsDo ==
    [][Evict =>
           LET evicted == Evicting(last'[2], stack')
           IN  CASE policy = "clock"   -> evicted = ClockLoop(stack)
                 [] policy = "sieve"   -> evicted = SieveLoop(stack.list, stack.hand)
                 [] policy = "s3-fifo" -> evicted = SThreeLoops(stack)
                 [] OTHER              -> TRUE]_vars

================================================================================
