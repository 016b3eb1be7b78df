------------------------------ MODULE MiniStacks -------------------------------
(***************************************************************************)
(* The mini stacks: for every configured policy a small cache of the keys  *)
(* that are sampled, kept by the policy worker beside its full stack.  They*)
(* count hits, from which the auto policy is chosen, and one of them evicts*)
(* while a full stack is being reconstructed.                              *)
(*                                                                         *)
(* Each step is one event of the worker, one turn of its loop of evictions *)
(* or one poll of the auto policy; the manager runs in the worker's thread *)
(* and hands each event to all mini stacks.                                *)
(***************************************************************************)
EXTENDS Stacks, FiniteSets

Sets == INSTANCE FiniteSetsExt
Bounded == INSTANCE BoundedSums

CONSTANTS
    HashedKeys,
    Sampled,            \* the keys for which should_sample is true
    Configured,         \* the sequence of policies the cache is configured with
    Overhead,           \* get_policy_overhead
    ObjectSizes, CacheSizes,
    Threshold, SamplingModulus,     \* MINI_SAMPLING_THRESHOLD, MINI_SAMPLING_MODULUS
    Modulus,            \* the range of a CacheSize: release builds wrap
    MaxGets             \* bound: gets since the last wipe

Indices == DOMAIN Configured

ASSUME MiniAssumption ==
    /\ NoKey \notin HashedKeys /\ Sampled \subseteq HashedKeys /\ IsFiniteSet(HashedKeys)
    /\ Configured \in Seq(Policies) /\ Configured # <<>>
    /\ \A i, j \in Indices : Configured[i] = Configured[j] => i = j     \* DuplicatePolicies
    /\ Overhead \in [Policies -> Nat]
    /\ ObjectSizes \subseteq Nat \ {0} /\ CacheSizes \subseteq Nat \ {0}
    /\ Threshold \in Nat /\ SamplingModulus \in Nat \ {0} /\ Threshold < SamplingModulus
    /\ Modulus \in Nat
    /\ \A size \in CacheSizes \cup ObjectSizes : Cardinality(HashedKeys) * size < Modulus
    /\ MaxGets \in Nat

VARIABLES
    minis,          \* mini_stacks
    total_gets,
    current,        \* the worker's current_policy, as an index
    epoch,          \* history: gets of sampled keys since the last poll
    present,        \* history: sampled keys set and not gone, as far as each mini stack was told
    oversized       \* history: the last key set was too large for a mini stack

vars == <<minis, total_gets, current, epoch, present, oversized>>

-----------------------------------------------------------------------------
(***************************************************************************)
(* One mini stack.  `ends` turns false if the loop of reduce does not end. *)
(***************************************************************************)

\* get_mini_stack_size
MiniSize(size) == (size * Threshold) \div SamplingModulus

NewMini(policy, size) ==
    [policy |-> policy, stack |-> New(policy, size), sizes |-> <<>>,
     max_size |-> size, used_size |-> 0, hits |-> 0, ends |-> TRUE]

Contains(mini, k) == k \in KeysIn(mini.policy, mini.stack)

SizeIn(mini, k) == IF k \in DOMAIN mini.sizes THEN mini.sizes[k] ELSE 0

\* sizes.remove, and used_size with it.
Unsized(mini, k) ==
    [mini EXCEPT !.sizes = [x \in DOMAIN mini.sizes \ {k} |-> mini.sizes[x]],
                 !.used_size = @ - SizeIn(mini, k)]

\* evict_one: the key it returns and the mini stack it leaves.
MiniEvictOne(mini) ==
    LET evicted == EvictOne(mini.policy, mini.stack)
    IN  [key |-> evicted.key, mini |-> Unsized([mini EXCEPT !.stack = evicted.stack], evicted.key)]

\* One turn of the loop of reduce.
Turn(mini, target) == IF mini.used_size > target THEN MiniEvictOne(mini).mini ELSE mini

\* Faulty variant of Reduce: one eviction has to do.
ReduceOnce(mini, target) == Turn(mini, target)

\* reduce: evictions until the target is reached.  (A mru stack may list one key
\* twice; a loop that has used all keys up goes on for ever.)
Reduce(mini, target) ==
    LET turns == Cardinality(HashedKeys) + 1
        left[n \in 0 .. turns] == IF n = 0 THEN mini ELSE Turn(left[n - 1], target)
    IN  [left[turns] EXCEPT !.ends = @ /\ left[turns].used_size <= target]

\* Faulty variant of MiniInsert: the size a key had stays in used_size.
MiniInsertAgain(mini, k, s) ==
    LET reduced == Reduce(mini, (Modulus + mini.max_size - s) % Modulus)
    IN  [reduced EXCEPT !.sizes = [x \in DOMAIN @ \cup {k} |-> IF x = k THEN s ELSE @[x]],
                        !.used_size = @ + s,
                        !.stack = Insert(mini.policy, @, k, s)]

\* insert.  The room for an object larger than the mini stack wraps around.
MiniInsert(mini, k, s) ==
    LET room    == (Modulus + mini.max_size - s) % Modulus
        reduced == Unsized(Reduce(mini, room), k)
    IN  [reduced EXCEPT !.sizes = [x \in DOMAIN @ \cup {k} |-> IF x = k THEN s ELSE @[x]],
                        !.used_size = @ + s,
                        !.stack = Insert(mini.policy, @, k, s)]

\* Faulty variant of MiniRemove: used_size stays.
MiniRemoveUnused(mini, k) ==
    [mini EXCEPT !.stack = Remove(mini.policy, @, k),
                 !.sizes = [x \in DOMAIN @ \ {k} |-> @[x]]]

MiniRemove(mini, k) == Unsized([mini EXCEPT !.stack = Remove(mini.policy, @, k)], k)

\* update_with_count
MiniUpdate(mini, k) ==
    [mini EXCEPT !.hits = IF Contains(mini, k) THEN @ + 1 ELSE @,
                 !.stack = Update(mini.policy, @, k)]

MiniResize(mini, size) ==
    Reduce([mini EXCEPT !.stack = Resize(mini.policy, @, size), !.max_size = size], size)

MiniClear(mini) ==
    [mini EXCEPT !.stack = Clear(mini.policy, @), !.sizes = <<>>, !.used_size = 0, !.hits = 0]

-----------------------------------------------------------------------------
(***************************************************************************)
(* The manager                                                             *)
(***************************************************************************)

Init ==
    /\ \E size \in CacheSizes :
           minis = [i \in Indices |-> NewMini(Configured[i], MiniSize(size))]
    /\ total_gets = 0
    /\ current \in Indices
    /\ epoch = 0 /\ oversized = FALSE
    /\ present = [i \in Indices |-> {}]

\* History: the object of k is gone, and the mini stacks in told know.
Gone(k, told) ==
    present' = [i \in Indices |-> IF i \in told THEN present[i] \ {k} ELSE present[i]]

\* par_iter_mut().for_each
Each(Do(_)) == minis' = [i \in Indices |-> Do(minis[i])]

Get(k) ==
    /\ total_gets < MaxGets
    /\ total_gets' = total_gets + 1
    /\ IF k \in Sampled
       THEN Each(LAMBDA mini : MiniUpdate(mini, k)) /\ epoch' = epoch + 1
       ELSE UNCHANGED <<minis, epoch>>
    /\ UNCHANGED <<current, present, oversized>>

Set(k, s) ==
    /\ k \in Sampled
    /\ Each(LAMBDA mini : MiniInsert(mini, k, s))
    /\ oversized' = \E i \in Indices : s > minis[i].max_size
    /\ present' = [i \in Indices |-> present[i] \cup {k}]
    /\ UNCHANGED <<total_gets, current, epoch>>

Del(k) ==
    /\ k \in Sampled
    /\ Each(LAMBDA mini : MiniRemove(mini, k))
    /\ Gone(k, Indices)
    /\ UNCHANGED <<total_gets, current, epoch, oversized>>

SetMaxSize(size) ==
    /\ Each(LAMBDA mini : MiniResize(mini, MiniSize(size)))
    /\ oversized' = FALSE
    /\ UNCHANGED <<total_gets, current, epoch, present>>

Wipe ==
    /\ Each(MiniClear)
    /\ total_gets' = 0
    /\ epoch' = 0 /\ oversized' = FALSE
    /\ present' = [i \in Indices |-> {}]
    /\ UNCHANGED current

\* A client chooses a policy.
Choose(i) ==
    /\ current' = i
    /\ UNCHANGED <<minis, total_gets, epoch, present, oversized>>

\* The first mini stack of the policy: what get_index finds.
Index(policy) == Sets!Min({i \in Indices : Configured[i] = policy})

\* Faulty variant of Others: no mini stack is told of an eviction.
OthersKeep(i, k, left) == [minis EXCEPT ![i] = left]

\* apply_evictions: the mini stacks that did not choose the key drop it as well.
Others(i, k, left) == [j \in Indices |-> IF j = i THEN left ELSE MiniRemove(minis[j], k)]

\* The mini stack of the current policy, and what it evicts.
Evictor == Index(Configured[current])

Evicted == MiniEvictOne(minis[Evictor])

\* One turn of apply_mini_evictions.  The key that is named, or any if there is none,
\* is erased and passed on to the other mini stacks ...
EvictMini(k) ==
    /\ Evicted.key \in {k, NoKey}
    /\ minis' = Others(Evictor, k, Evicted.mini)
    /\ Gone(k, Indices)
    /\ UNCHANGED <<total_gets, current, epoch, oversized>>

\* ... or, when its object has expired, erased but reported as not found: the loop
\* goes on, and the other mini stacks are not told ...
EvictExpired(k) ==
    /\ Evicted.key \in {k, NoKey}
    /\ minis' = [minis EXCEPT ![Evictor] = Evicted.mini]
    /\ Gone(k, {Evictor})
    /\ UNCHANGED <<total_gets, current, epoch, oversized>>

\* ... or there is no such object, or none at all.  (What the full stack evicts and what
\* the TTL worker erases is no step here: no mini stack is told.)
EvictAbsent ==
    /\ minis' = [minis EXCEPT ![Evictor] = Evicted.mini]
    /\ UNCHANGED <<total_gets, current, epoch, present, oversized>>

\* 1 - miss_ratio, with expected_count = total_gets * Threshold / SamplingModulus
\* as the common denominator; clamped.
HitShare(mini) ==
    IF total_gets = 0 THEN 0
    ELSE Sets!Min({mini.hits * SamplingModulus, total_gets * Threshold})

\* min_by: the first mini stack than which none is better, or as good and cheaper.
Better(a, b) ==
    \/ HitShare(a) > HitShare(b)
    \/ HitShare(a) = HitShare(b) /\ Overhead[a.policy] < Overhead[b.policy]

Optimal == Sets!Min({i \in Indices : \A j \in Indices : ~Better(minis[j], minis[i])})

\* Faulty variant of ClearCounters: the hits of earlier polls count for ever.
ClearNoCounters == UNCHANGED minis

\* clear_ministack_counters; total_gets goes on.
ClearCounters == Each(LAMBDA mini : [mini EXCEPT !.hits = 0])

\* Faulty variant of Preferred: any optimum is worth a switch.
PreferredAlways == Optimal

\* The policy that get_optimal_policy returns, or the current one for None.
Preferred ==
    LET i == Index(Configured[current])
    IN  IF HitShare(minis[Optimal]) > HitShare(minis[i]) THEN Optimal ELSE current

\* perform_auto_policy, when it is time to poll.
AutoPolicy ==
    /\ current' = Preferred
    /\ ClearCounters
    /\ epoch' = 0
    /\ UNCHANGED <<total_gets, present, oversized>>

Next ==
    \/ \E k \in HashedKeys : Get(k) \/ Del(k) \/ EvictMini(k) \/ EvictExpired(k)
    \/ \E k \in HashedKeys, s \in ObjectSizes : Set(k, s)
    \/ \E size \in CacheSizes : SetMaxSize(size)
    \/ \E i \in Indices : Choose(i)
    \/ Wipe \/ EvictAbsent \/ AutoPolicy

Spec == Init /\ [][Next]_vars

-----------------------------------------------------------------------------
(***************************************************************************)
(* Properties                                                              *)
(***************************************************************************)

(* Each mini stack's used size is the sum of the sizes it keeps, which it  *)
(* keeps of sampled keys in its stack alone, however a key left: removed,  *)
(* evicted to make room or for another policy's sake, wiped or set again   *)
(* with another size (mini_stack/mod.rs).  A u64 that is decreased for a   *)
(* size that was never added would wrap.                                   *)
MiniSizesKept ==
    \A i \in Indices :
        LET mini == minis[i]
        IN  /\ mini.used_size = Bounded!Total(mini.sizes, DOMAIN mini.sizes, Modulus)
            /\ DOMAIN mini.sizes \subseteq Sampled \cap KeysIn(mini.policy, mini.stack)

(* The loop of reduce ends, in every mini stack: a stack with a size to    *)
(* give up always names a key (mini_stack/mod.rs:72).                      *)
ReduceEnds == \A i \in Indices : minis[i].ends

(* No poll counts a hit of an earlier epoch: no mini stack has more hits   *)
(* than sampled keys were got since the last one (manager.rs:156).         *)
HitsOfEpoch == \A i \in Indices : minis[i].hits <= epoch

(* A mini stack fits its size after a resize, and after a key was set that *)
(* is not too large for it, even if a larger one had overfilled it         *)
(* (mini_stack/mod.rs:99, :125).                                           *)
MiniFits == oversized \/ \A i \in Indices : minis[i].used_size <= minis[i].max_size

(* A mini stack keeps no key that it was told is gone: removed, wiped, or   *)
(* erased because another mini stack evicted it (manager.rs                 *)
(* apply_evictions).  The one that evicts is never told what was erased,    *)
(* expired or not, and need not be: it named the key, or had none left.  Of *)
(* an expired object the others are not told (policy/mod.rs:395), and may   *)
(* keep its key.                                                            *)
GoneOnceTold == \A i \in Indices : DOMAIN minis[i].sizes \subseteq present[i]

(* The auto policy leaves a policy only for one that had more hits since   *)
(* the last poll, however many gets before that the ratios still count     *)
(* (manager.rs:149).                                                       *)
SwitchesToBetter ==
    [][AutoPolicy /\ current' # current => minis[current'].hits > minis[current].hits]_vars

================================================================================
