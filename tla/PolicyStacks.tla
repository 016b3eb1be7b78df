----------------------------- MODULE PolicyStacks ------------------------------
(***************************************************************************)
(* Every eviction stack under every sequence of the policy worker's calls: *)
(* insert for a set, update for a get (hit or miss, so of any key), remove *)
(* for a del, resize, clear for a wipe, and evict_one in between.          *)
(***************************************************************************)
EXTENDS Stacks, FiniteSets

CONSTANTS
    HashedKeys,
    Choices,        \* the policies of an instance
    ObjectSizes,
    CacheSizes,     \* maximum sizes of the cache, none zero
    MaxUses         \* bound: an lfu stack does not count beyond

ASSUME StacksAssumption ==
    /\ NoKey \notin HashedKeys
    /\ Choices \subseteq Policies
    /\ ObjectSizes \subseteq Nat \ {0} /\ CacheSizes \subseteq Nat \ {0}

VARIABLES
    policy,
    stack,      \* the PolicyStack of that policy
    told,       \* history: the keys inserted and not removed or evicted since
    last        \* the call just made and its key, or what evict_one returned

vars == <<policy, stack, told, last>>

Init ==
    /\ policy \in Choices
    /\ \E max_size \in CacheSizes : stack = New(policy, max_size)
    /\ told = {}
    /\ last = <<"new", NoKey>>

Call(name, k) == policy' = policy /\ last' = <<name, k>>

\* Bound on the uses of an lfu stack, which a set or get of a known key counts.
MayUse(k) == policy = "lfu" /\ k \in KeysIn(policy, stack) => Lfu!UsesOf(stack, k) < MaxUses

Set(k, s) ==
    /\ MayUse(k)
    /\ stack' = Insert(policy, stack, k, s)
    /\ told' = told \cup {k}
    /\ Call("insert", k)

Get(k) ==
    /\ MayUse(k)
    /\ stack' = Update(policy, stack, k)
    /\ told' = told
    /\ Call("update", k)

Del(k) ==
    /\ stack' = Remove(policy, stack, k)
    /\ told' = told \ {k}
    /\ Call("remove", k)

SetMaxSize(max_size) ==
    /\ stack' = Resize(policy, stack, max_size)
    /\ told' = told
    /\ Call("resize", NoKey)

Wipe ==
    /\ stack' = Clear(policy, stack)
    /\ told' = {}
    /\ Call("clear", NoKey)

Evict ==
    LET evicted == EvictOne(policy, stack)
    IN  /\ stack' = evicted.stack
        /\ told' = told \ {evicted.key}
        /\ Call("evict_one", evicted.key)

Next ==
    \/ \E k \in HashedKeys : Get(k) \/ Del(k) \/ \E s \in ObjectSizes : Set(k, s)
    \/ \E max_size \in CacheSizes : SetMaxSize(max_size)
    \/ Wipe \/ Evict

Spec == Init /\ [][Next]_vars

-----------------------------------------------------------------------------
(***************************************************************************)
(* What every policy promises                                              *)
(***************************************************************************)

\* Whatever keys it holds twice or was never told of, a stack holds every key it
\* was told of, so that evictions come to it some time (the nine stacks, mru's
\* key held apart and its removal included).
NothingForgotten == told \subseteq KeysIn(policy, stack)

\* An mru stack takes up a key it is told of by a get alone, hit or miss.
Exact == policy # "mru"

Promise == INSTANCE EvictionStack WITH known <- told

\* evict_one gives up a key the stack was told of, each once, and None only when it
\* was told of none, whatever moves between lists, resizes and ghosts came before
\* (evict_one of all stacks but mru's, with room in s3-fifo's main).
GivesUpAKnownKey ==
    (Exact => Promise!Init) /\ [][Exact => [Promise!Next]_Promise!vars]_vars

-----------------------------------------------------------------------------
(***************************************************************************)
(* What single policies promise                                            *)
(***************************************************************************)

Ordered == policy \in {"fifo", "lru", "lfu"}

\* The keys in the order in which they are to be evicted, the last one first.
Queue == IF policy = "lfu" THEN Lfu!InOrder(stack) ELSE stack

Order == INSTANCE EvictionOrder WITH
    uses <- [k \in KeysIn(policy, stack) |->
                IF policy = "lfu" THEN Lfu!UsesOf(stack, k) ELSE 0],
    order <- {<<Queue[p[1]], Queue[p[2]]>> :
                p \in {p \in (DOMAIN Queue) \X (DOMAIN Queue) : p[1] > p[2]}}

\* fifo evicts in the order of first insertion, lru in the order of last use, lfu a
\* key with the fewest uses and of those the one that has had that many longest
\* (fifo_stack.rs, lru_stack.rs, lfu_stack.rs).
EvictsInOrder ==
    (Ordered => Order!Init) /\ [][Ordered => [Order!Next]_Order!vars]_vars

Marking == policy \in {"clock", "sieve"}

Chances == INSTANCE SecondChance WITH
    visited <- IF policy = "clock" THEN Clock!Marks(stack) ELSE Sieve!Marks(stack)

\* A key used since the hand last passed it is not evicted while another key was
\* not, and the hand takes a mark away only by passing; sieve's hand, which every
\* remove moves, never names a key that is gone (clock_stack.rs, sieve_stack.rs).
UsedKeysGetAnotherChance ==
    (Marking => Chances!Init) /\ [][Marking => [Chances!Next]_Chances!vars]_vars

\* The used sizes, on which every choice of 2q, s3-fifo and arc rests, are the sums
\* of what the lists hold, and no key is in two lists that exclude each other.
SizesKept ==
    CASE policy = "2q"      -> TwoQ!Consistent(stack)
      [] policy = "s3-fifo" -> SThree!Consistent(stack)
      [] policy = "arc"     -> Arc!Consistent(stack)
      [] OTHER              -> TRUE

\* None of lfu's unwraps can fail: every index of the map leads to a count stack
\* that holds the key, none is empty, and their counts ascend (lfu_stack.rs).
NoUnwrapFails == policy = "lfu" => Lfu!Consistent(stack)

\* After a new key was admitted to a 2q stack, a1_in is within its maximum size, or
\* holds that key alone, however small a resize made it (restructure_to_fit).
NewKeyFits ==
    [][policy = "2q" =>
           \A k \in HashedKeys \ told : last' = <<"insert", k>> =>
               stack'.a1_in.used <= stack.in_size \/ Len(stack'.a1_in.list) = 1]_vars

================================================================================
