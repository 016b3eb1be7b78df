-------------------------------- MODULE Stacks ---------------------------------
(***************************************************************************)
(* The PolicyStack trait: one value per stack, and each method as a        *)
(* function of the policy and that value.  (auto starts with an lfu stack.)*)
(***************************************************************************)
EXTENDS Naturals, Sequences

CONSTANTS
    NoKey,
    Scale, KIn, Ratio   \* the parameters of 2q and s3-fifo, in Scale-ths

ASSUME RatiosAssumption == Scale \in Nat \ {0} /\ KIn \in 0 .. Scale /\ Ratio \in 0 .. Scale

Policies == {"fifo", "lru", "mru", "clock", "sieve", "lfu", "2q", "s3-fifo", "arc"}

Fifo   == INSTANCE FifoStack
Lru    == INSTANCE LruStack
Mru    == INSTANCE MruStack
Clock  == INSTANCE ClockStack
Sieve  == INSTANCE SieveStack
Lfu    == INSTANCE LfuStack
TwoQ   == INSTANCE TwoQStack
SThree == INSTANCE SThreeFifoStack
Arc    == INSTANCE ArcStack

\* init_policy_stack
New(policy, max_size) ==
    CASE policy = "fifo"    -> Fifo!New
      [] policy = "lru"     -> Lru!New
      [] policy = "mru"     -> Mru!New
      [] policy = "clock"   -> Clock!New
      [] policy = "sieve"   -> Sieve!New
      [] policy = "lfu"     -> Lfu!New
      [] policy = "2q"      -> TwoQ!New(max_size)
      [] policy = "s3-fifo" -> SThree!New(max_size)
      [] policy = "arc"     -> Arc!New(max_size)

\* The keys for which contains is true.
KeysIn(policy, stack) ==
    CASE policy = "fifo"    -> Fifo!Elements(stack)
      [] policy = "lru"     -> Lru!Elements(stack)
      [] policy = "mru"     -> Mru!Keys(stack)
      [] policy = "clock"   -> Clock!Keys(stack)
      [] policy = "sieve"   -> Sieve!Keys(stack)
      [] policy = "lfu"     -> Lfu!Keys(stack)
      [] policy = "2q"      -> TwoQ!Keys(stack)
      [] policy = "s3-fifo" -> SThree!Keys(stack)
      [] policy = "arc"     -> Arc!Keys(stack)

Insert(policy, stack, k, s) ==
    CASE policy = "fifo"    -> Fifo!Insert(stack, k)
      [] policy = "lru"     -> Lru!Insert(stack, k)
      [] policy = "mru"     -> Mru!Insert(stack, k)
      [] policy = "clock"   -> Clock!Insert(stack, k)
      [] policy = "sieve"   -> Sieve!Insert(stack, k)
      [] policy = "lfu"     -> Lfu!Insert(stack, k)
      [] policy = "2q"      -> TwoQ!Insert(stack, k, s)
      [] policy = "s3-fifo" -> SThree!Insert(stack, k, s)
      [] policy = "arc"     -> Arc!Insert(stack, k, s)

\* update; a fifo stack leaves it at the trait's default, which does nothing.
Update(policy, stack, k) ==
    CASE policy = "fifo"    -> stack
      [] policy = "lru"     -> Lru!Update(stack, k)
      [] policy = "mru"     -> Mru!Update(stack, k)
      [] policy = "clock"   -> Clock!Update(stack, k)
      [] policy = "sieve"   -> Sieve!Update(stack, k)
      [] policy = "lfu"     -> Lfu!Update(stack, k)
      [] policy = "2q"      -> TwoQ!Update(stack, k)
      [] policy = "s3-fifo" -> SThree!Update(stack, k)
      [] policy = "arc"     -> Arc!Update(stack, k)

Remove(policy, stack, k) ==
    CASE policy = "fifo"    -> Fifo!Remove(stack, k)
      [] policy = "lru"     -> Lru!Remove(stack, k)
      [] policy = "mru"     -> Mru!Remove(stack, k)
      [] policy = "clock"   -> Clock!Remove(stack, k)
      [] policy = "sieve"   -> Sieve!Remove(stack, k)
      [] policy = "lfu"     -> Lfu!Remove(stack, k)
      [] policy = "2q"      -> TwoQ!Remove(stack, k)
      [] policy = "s3-fifo" -> SThree!Remove(stack, k)
      [] policy = "arc"     -> Arc!Remove(stack, k)

\* resize; only the policies with sizes implement it.
Resize(policy, stack, max_size) ==
    CASE policy = "2q"      -> TwoQ!Resize(stack, max_size)
      [] policy = "s3-fifo" -> SThree!Resize(stack, max_size)
      [] policy = "arc"     -> Arc!Resize(stack, max_size)
      [] OTHER              -> stack

\* clear; the maximum sizes of the policies with sizes stay.
Clear(policy, stack) ==
    CASE policy = "2q"      -> TwoQ!Clear(stack)
      [] policy = "s3-fifo" -> SThree!Clear(stack)
      [] policy = "arc"     -> Arc!Clear(stack)
      [] OTHER              -> New(policy, 0)

\* evict_one: a record of the key it returns and the stack it leaves.
EvictOne(policy, stack) ==
    CASE policy = "fifo"    -> Fifo!EvictOne(stack)
      [] policy = "lru"     -> Lru!EvictOne(stack)
      [] policy = "mru"     -> Mru!EvictOne(stack)
      [] policy = "clock"   -> Clock!EvictOne(stack)
      [] policy = "sieve"   -> Sieve!EvictOne(stack)
      [] policy = "lfu"     -> Lfu!EvictOne(stack)
      [] policy = "2q"      -> TwoQ!EvictOne(stack)
      [] policy = "s3-fifo" -> SThree!EvictOne(stack)
      [] policy = "arc"     -> Arc!EvictOne(stack)

================================================================================
