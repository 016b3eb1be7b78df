# paper-cache in TLA+

This directory holds TLA+ models of `paper-cache` (`src/src/`), an in-memory
cache with ten eviction policies, TLC configurations that check the models on
small instances, and proofs, checked by TLAPS, for every size of the instance.

`PROJECT.json` lists the components, the runs with the properties they check,
the faulty variants every property is tested against, the source lines behind
every definition, the hazards of the code, and the theorems.

## The system

| Part | Source | State | Operations |
| --- | --- | --- | --- |
| Store and client operations | `lib.rs`, `object/` | a `DashMap` from hashed keys to objects (key, size, expiry) | `get`, `set`, `del`, `ttl`, `wipe`, `resize`, `policy`; reads: `has`, `peek`, `size`, `version`, `status` |
| Counters | `status.rs` | atomics: `base_used_size`, `num_objects`, `max_size`, policy, statistics | one atomic access each |
| Worker manager | `worker/mod.rs`, `worker/manager.rs` | one channel in, one channel per worker | forwards each event to the policy worker and the TTL worker |
| TTL worker | `worker/ttl/` | `expiries`: a `BTreeMap` from instants to hashed keys | drain the channel, pop expired keys, erase them, sleep |
| Policy worker | `worker/policy/mod.rs` | the policy's stack, buffered events, mini index, current policy | tell the stack of events, evict, switch policies, reconstruct |
| Eviction stacks | `worker/policy/policy_stack/` | lists of hashed keys, one structure per policy | `insert`, `update`, `remove`, `resize`, `clear`, `evict_one` |
| Mini stacks | `worker/policy/mini_stack/` | a sampled, scaled-down simulation per policy | events, evictions while a stack is reconstructed, the best policy |
| Trace | `worker/policy/trace/`, `event.rs` | a window of events in files | append, expire old fragments, replay |
| Policy names, errors | `policy.rs`, `error.rs` | none | parse, print |

A client thread changes the map, then the counters one atomic at a time, then
broadcasts a `WorkerEvent`.  The worker manager forwards the event to the two
workers, which act on the same map and counters through `erase`.  So there are
four kinds of thread on one store, and only single map accesses and single
atomics are indivisible.

What is hard here, and what makes each part correct:

- *Store and counters.*  Nothing ties the map to the counters.  Correct means:
  no interleaving loses or doubles a counter update, an eviction loop working
  from stale loads ends within the limit, and the counters may pass below zero
  (and wrap) only while an update is in flight.
- *TTL worker.*  It learns of expiries late, possibly in another order than the
  operations took effect, and it erases by hashed key alone.  Correct means: an
  object that is to expire is never lost sight of and is erased eventually,
  and an object that is not to expire is left alone (it is not: see below).
- *Eviction stacks.*  Long call sequences drive linked structures with
  redundant sums, indices, marks and hands.  Correct means: the stack gives up
  a key it holds whenever it holds one, in the order its policy promises, and
  its redundant state never drifts.
- *Policy switching.*  A new stack is reconstructed from the trace by a thread
  of its own while events and evictions are buffered, and switches may overlap.
  Correct means: there is always a stack or a mini stack to evict from, no
  event is lost, repeated or overtaken on its way to the trace, the stack that
  is installed knows what was set since the switch and is of the current
  policy (it may not be: see below), and every switch ends.
- *Mini stacks.*  Redundant sums over simulated caches, changed by events and
  by evictions in one another's stead; loops that evict until enough is free;
  hits that are cleared at every poll beside a count of gets that is not.
  Correct means: the sums never drift, the loops end, and the auto policy
  leaves a policy only for one that did better since the last poll.
- *Trace.*  Readers and the writer of a file share its offset; fragments come
  and go by age while others read.  Correct means: no write lands on an older
  event, a reader sees the trace without a gap, every event reaches a file.

## Modules

| Module | What it is |
| --- | --- |
| `BoundedSums` | the sum of a bounded function over a finite set, as a cardinality, a form proofs can use without induction |
| `CacheStore` | store, counters, client threads, and the workers as threads that erase |
| `TtlReaping` | extends `CacheStore` by the channels and the TTL worker's own state; implements it |
| `HashLists` | `kwik::collections::HashList`, a library, from how the stacks use it |
| `SizedStacks` | the `struct Stack` of the 2q, arc and s3-fifo stacks |
| `FifoStack`, `LruStack`, `MruStack`, `ClockStack`, `SieveStack`, `LfuStack`, `TwoQStack`, `SThreeFifoStack`, `ArcStack` | one stack each: its methods as operators on a value of the stack |
| `Stacks` | the `PolicyStack` trait: each method as an operator of the policy and its stack |
| `PolicyStacks` | a stack of any policy under every sequence of the policy worker's calls; all properties of the stacks |
| `EvictionStack` | abstract: what the eviction loop needs of any stack |
| `EvictionOrder` | abstract: the order FIFO, LRU and LFU promise, without lists |
| `SecondChance` | abstract: what CLOCK and SIEVE promise alike |
| `PolicySwitch` | the policy worker's loop with clients, buffers, the trace as a sequence, mini stacks as sets of keys, and reconstruction threads; uses `Stacks` |
| `MiniStacks` | the mini stacks and their manager, exactly; uses `Stacks` |
| `TraceFiles` | the trace worker, its fragments as files of bytes, and the threads that read them |
| `MCCacheStore`, `MCTtlReaping`, `MCPolicyStacks`, `MCPolicySwitch`, `MCMiniStacks`, `MCTraceFiles` | instances: the hash function, overheads, symmetry, a constraint, and eviction loops written recursively for comparison |
| `DataLemmas` | lemmas that several proofs need: induction over numbers and finite sets, sums, flattening, one sequence spread over another, prefixes |
| `StacksProofs` | what each method of each of the nine stacks does to the stack's shape and to its keys, and what a call does whatever the policy |
| `CacheStoreProofs`, `TtlReapingProofs`, `PolicyStacksProofs`, `PolicySwitchProofs`, `MiniStacksProofs`, `TraceFilesProofs` | the theorems |

Operators named after a definition with a suffix (`InsertDropping`,
`TtlSwapped`, ...), introduced by "Faulty variant of", are not part of any
specification.  Each is a plausible bug; with it in place of the definition,
the property it is paired with in `PROJECT.json` fails.

### CacheStore and the code

`objects` is the map; its DashMap access is one step.  `base_used_size`,
`num_objects` and `max_size` are the atomics.  `pc` says where each thread is;
`arg`, `credit`, `debit`, `event`, `target`, `seen`, `limit` and `remaining`
are thread-local values: the object in hand, the two operands of a delta that
is computed and not added yet, the event not yet sent, the key about to be
erased, what a loop loaded, and what it has left.

| Code | Actions |
| --- | --- |
| `set` (lib.rs 278-319) | `SetCheck` (size against `max_size`), `SetInsert`, `IncrNumObjects` if nothing was replaced, `UpdateBaseUsedSize`, `Broadcast` |
| `ttl` (439-460) | `Ttl` with the shard locked until its broadcast (`Locked`), `UpdateBaseUsedSize`, `Broadcast` |
| `erase` (606-657) | `TakeEntry` (in `Del` or `EraseHashed`) or `EraseAbsent`, `UpdateBaseUsedSize`, `DecrNumObjects`; a `del` whose object had expired fails and sends nothing |
| `wipe` (509-519) | `WipeStart`, `WipeShard` per shard, `ZeroBaseUsedSize`, `ZeroNumObjects`, `Broadcast` |
| `resize` (538-558) | `ResizeCheck`, `ResizeStore`, `Broadcast` |
| `apply_evictions` (policy/mod.rs 341-375) | `EvictStart`, `EvictLoadBase`, `EvictLoadNum`, then `EvictFromStack`, `EvictAny` (stack empty) or `EvictNothing` (map empty), then an erase, then round again |

Every shard is taken to hold one hashed key, the finest division `clear` can
meet.  Counters are modulo `Modulus`: atomics wrap in every build profile.
The one non-atomic addition (`used_size`) wraps as in a release build.  `get`
differs from the read-only calls only by its event.  The hit and miss counters
are left out; nothing reads them but the status.  What a worker erases is left
open: any hashed key for the TTL worker, any set of hashed keys as the content
of the stack for the policy worker.

### TtlReaping and the code

`channel` and `inbox` are the manager's and the TTL worker's channels,
`expiries` the BTreeMap, `phase` and `woken` the worker's place in its loop and
the `now` it took at its top.  `Handle` covers the three events that carry
expiries.  The clients' actions are those of `CacheStore` with the channel
behind `Broadcast`, so `TtlSpec => Spec` without a mapping of variables.

`DistinctInstants` says that no two calls stamp the same `Instant`.  The
BTreeMap keeps one key per instant: without that assumption a second key
replaces the first, which is then never erased, and TLC finds `NoLostExpiry`
violated.  Instants have nanosecond resolution on the platforms the code
supports, which makes the collision rare, not impossible.

### Stacks and the code

Each stack module has one operator per method of the `PolicyStack` trait, from
a stack to a stack (`EvictOne`: to a key and a stack), and no variables.
`Stacks` chooses among them by the policy, as the trait object does.
`PolicyStacks` holds one such stack in `stack`, its `policy` fixed in the first
state, so that the states of one run are those of all nine stacks.  Its actions
are the calls the policy worker makes: `Set`, `Get`, `Del`, `SetMaxSize`,
`Wipe` (policy/mod.rs 202-231, 288-291) and `Evict` (356-358).  `update` is
called for every get, hit or miss, so keys the stack does not know are among
its inputs.  Two variables are history: `told`, the keys inserted and neither
removed nor evicted since, and `last`, the last call and its key, or what
`evict_one` returned.

The three abstract specifications are instantiated with a mapping from `stack`;
their steps are required where the policy is one they speak of
(`[][Ordered => [Order!Next]_Order!vars]_vars`).  A loop in `evict_one` is one
step, in closed form; `MCPolicyStacks` holds the loops of clock, sieve and
s3-fifo as recursive operators, and `EvictsAsTheLoopsDo` checks that the two
agree from every reachable stack.  The clock's order of keys, the hand of
sieve, the count stacks of lfu with their VecList indices, the share `p` of arc
are all there.  Ratios (`KIn` of 2q, `Ratio` of s3-fifo, `p` of arc) are `f64`
in the code and numbers of `Scale`-ths here, which is exact for every ratio the
instances meet.

### PolicySwitch and the code

A client's call has two steps or three: the change of the map (`stored`) or of
the status, and the event (`Broadcast`); `policy(p)` stores the index before it
clears the auto flag (`UnsetAuto`).  `pc` is the worker's place in `run`:

| Code (policy/mod.rs) | Actions |
| --- | --- |
| 92-98, the batch | `Collect` |
| 100-129, one event | `Handle`, with `Switch` (`handle_policy`) and `Pass` (to the trace or the buffer) |
| 132-133, 301-339 | `Apply`: `Install` and `Flush` |
| 341-375, 377-405, one turn | `Evict`, `EvictMini` |
| 138-141 | `EvictedEnough`, `AutoPolicy` |
| 259-285, 454-510, a thread | `ReadTrace` or `FailToRead`, `CheckPolicy`, `SendStack` |

A missing stack is one of no policy; pc `"dead"` is the return with "No active
policy or mini stack".  An event's stack operation is that of `Stacks`, so the
stacks here are the ones `PolicyStacks` checks.  What a mini stack holds is any
set of sampled keys at a switch and follows the events from there; which
policy the auto policy picks is left open.  Both are `MiniStacks`' subject.
All objects have size one, and an eviction that removes an expired object
buffers nothing, as `erase` fails then.  `Write` is a step of the trace worker,
which may be any time late.  `handled`, `told` and `overlapped` are history.

`told` starts empty at each switch, and `NothingHandledIsForgotten` speaks of
what is handled after it.  Of what was handled before, the trace worker may not
have written the last second when the thread reads the trace, and nothing
brings that to the new stack: a reconstructed stack can even have the wrong
maximum size for good.  When switches overlap, the same happens to what is
flushed for the first of two stacks.  No doc says how complete a stack is.

### MiniStacks and the code

One mini stack is a record with the fields of the struct; its methods are
operators of it, and the manager's methods are the actions.  `Sampled` is the
set of keys for which `should_sample` holds.  The manager belongs to the worker
thread, so each action is atomic; rayon's `par_iter_mut` gives each mini stack
to one thread.  `Reduce` makes as many turns as a stack can name keys, one more
than there are, as mru may list a key twice, and sets `ends` to false if that is
not enough: then the stack has nothing left to name and the loop runs for ever.  Room for an
object larger than the mini stack wraps around, as in a release build.
Hit ratios are compared as products of integers.  `Overhead` has the order of
`get_policy_overhead`.  The keys that a whole loop of evictions removed are
handed to the other mini stacks at its end in the code, and key by key here;
nothing looks at them in between.

An `erase` in that loop has three outcomes.  `EvictMini`: the object is gone, and
its key is passed on.  `EvictExpired`: the object is gone too, but as it had
expired `erase` returns an error (lib.rs 653), the loop goes on (policy/mod.rs
395), and the other mini stacks may keep the key.  `EvictAbsent`: there was
nothing to erase.  `present` is history: for each mini stack the keys that were
set and that are not gone as far as it was told, the one that evicts included.
Evictions by the full stack and the TTL worker's erases tell no mini stack, and
change nothing here.

### TraceFiles and the code

A fragment is a record of its creation, its file (`bytes`), the file's offset,
shared by reader and writer as both are clones of one descriptor, the writer's
buffer (`pending`) and the holder of its lock.  Events are written as chunks of
one size; `AsChunk` and `FromChunk` are the code's, digit by digit in a small
base, and `ChunksRoundTrip` has TLC evaluate that they invert each other.  The
trace worker's `run` is `Poll`, `DropExpired` and `Refresh`
(`refresh_fragments`), `WipeTrace`, `Write`, `Flush`.  A reader enters
(`trace_fragments.read()`, kept to the end), rewinds each fragment in turn,
reads, gives up if its policy is no longer the current one, which it looks at
every `Polling` events, and restores the offset.  A waiting writer keeps new
readers out (`Wanted`), as parking_lot's lock does.

## Runs

| Run | Question | Answer |
| --- | --- | --- |
| `StoreAccounts` | Two clients, colliding keys, the TTL worker's erases, wipes that run alone: do the counters hold what is stored plus what is in flight? | yes (`Accounting`, `AccountsAtRest`) |
| `StoreEviction` | Two clients that set, get, del and resize over each other, wipes that run alone, the policy worker: does the eviction loop bring the used size within the limit once the clients stop? | yes (`EventuallyWithinLimit`); not if a wipe falls into an erase, see below |
| `StoreWipeRace` | Is an empty cache's used size zero, as the doc of `wipe` says, when a set races the wipe? | **no** |
| `TtlErasure` | One client with wipe and resize: is every expired object erased eventually, and never lost sight of? | yes, if the worker's drain loop ever ends |
| `TtlReaping` | Two clients, one key, both workers, reordered events: is an expiry ever lost? Does `TtlReaping` implement `CacheStore`? | no; yes |
| `TtlStale` | Does the TTL worker erase only what has expired, once all is settled, if a client dels an expired object? | **no** |
| `PolicyStacks` | Do the nine stacks remember every key, keep their sums and indices, give up a key whenever they hold one, and evict in the order their policies promise? | yes (mru: it remembers every key) |
| `PolicySwitch` | Two overlapping switches, by a client or by the auto policy: can the worker be left with nothing to evict from? Does an event get lost, repeated or out of order, or a key set since the switch out of the stack? | no (`SomeoneEvicts`, `TracedInOrder`, `NothingHandledIsForgotten`) |
| `SwitchEnds` | Does every switch end, and do the objects come to fit with the overhead of the policy then current? | yes, unless the trace cannot be read |
| `SwitchRace` | Is the stack in use that of the current policy, as a comment says is made sure of? | **no** |
| `MiniStacks` | Do the mini stacks keep their sums, do their loops end, is a key gone from all that were told of it, and does auto leave a policy only for a better one? | yes |
| `TraceFiles` | With two readers and expiring fragments: is an event overwritten, a reader's view incomplete, an event never written, the number of files unbounded? | no |

`StoreAccounts` has the constraint `WipesAlone`, the condition of the theorems:
it leaves out the states where a thread wipes and another is updating the map
and the counters, or wiping too.  `StoreEviction` has the same condition in its
specification, `AloneSpec`, as a temporal property is checked under no
constraint.  What those states lead to is the question of `StoreWipeRace`, and of
the first of the further faults below.

Bold answers are the findings of `PROJECT.json`:

1. *wipe racing a set or del* (lib.rs 512): the map is cleared shard by shard
   and the counters are then set to zero; an update in flight lands before or
   after that, and stays there for good.
2. *Stale instants* (ttl/mod.rs 70): the del of an expired object tells the TTL
   worker nothing.  Its instant for the key stays, and when it passes, the object
   then stored under the key is erased, TTL or not.  This is what the run shows;
   an eviction (policy/mod.rs 360) tells the TTL worker as little, and with a
   policy worker and no del TLC finds the property violated by it as well.
3. *A stack of an older policy* (policy/mod.rs 273): A to B to A.  The thread for
   B looks at the current policy, finds B, and sends its stack after the worker
   has gone back to A.  The worker installs whatever arrives, the last to
   arrive for good.

TLC finds four more faults that are no runs. *A wipe inside an erase* (lib.rs
647 to 650, 512): a thread, the policy worker in TLC's trace, has removed an
object and not yet subtracted its size when a client wipes. If it subtracts
after the wipe has zeroed the size, `base_used_size` is below zero, which as a
`u64` is more than any limit: the loop of `apply_evictions` evicts whatever is
set from then on, finds the map empty, and goes round for ever.
`EventuallyWithinLimit` is false then. *mru, two sets in a row* (mru_stack.rs
53): `insert` asks the list alone whether it knows the key, pushes the key that
already is `maybe_mru_key`, and the next `evict_one` takes that key, which the
test at line 121 says it skips. *s3-fifo without main* (s_three_fifo_stack.rs
107): a ratio of 1.0 makes main's size zero, main counts as full while empty,
and `evict_one` gives up without a look at small; the cache then evicts
arbitrary objects. *Equal instants*: see TtlReaping above.

One more is read off the code and neither found nor excluded by a run.  *An
eviction behind a set* (policy/mod.rs 371, 125): what the full stack evicts is
buffered, and in the next batch a set of the same key goes to the trace at once,
before the buffer is flushed.  A switch in that batch replays the removal on the
new stack, which then does not know a key that is stored.  `TracedInOrder` leaves
evictions out, and `told` is emptied at a switch.  The cache comes to fit all the
same, since `erase` falls back on any object when a stack names none.

### Bounds, and why they are enough

*Store.* Two or three keys with two hashes give a collision and a key apart. Two
clients and a worker give every pair of operations that can interleave; the
theorems cover more. Object sizes 1 and 2, one unit each of TTL and policy
overhead, and maximum sizes of 2 to 4 let one object fit, two not, and make the
TTL overhead decide. `StoreEviction` resizes between 2, which an object passes
in the check of `set` but exceeds with its overhead, and 6, where two objects
fit; it has two clients and no TTLs: to a worker's `erase` an expired object is
like any other, and TTLs racing erases are in `StoreAccounts`. `Modulus` is
small but beyond `RangeAssumption`, so that wrapping happens and is told apart
from never going below zero. `Horizon` stops the clock after an object set with
the longest TTL of the run has expired, and, in `TtlStale`, after a second one
could. `QueueBound` bounds the calls under way and the events queued: two
suffice for two events of one key to overtake each other between their map
accesses and the channel.

*Stacks.*  Three keys fill a list, leave one in another list or a ghost, and let
one come back; sizes 1 and 2 make two objects of different weight; the maximum
sizes 2 and 4, with a quarter or a half of them for the small lists, let each
list fit one object, none, or several, overflow, and shrink by a resize.
`MaxUses` bounds lfu's uses at a number at which two keys can be more than one
count apart.

*Switching.*  Two switches overlap, the second before, while and after the
first thread reads, checks and sends.  Two keys, one of them sampled, give a
mini stack with and without a key to name; fifo and lfu differ in overhead, so
that a switch alone can make objects too many.  Three calls are enough for a
set between two switches, or a wipe.  `SwitchEnds` trades the second key for
expiring objects, resizes, gets and failing threads.

*Mini stacks.*  Half of a cache of 4 or 8 is a mini stack of 2 or 4; sizes 1 and 3
fit, crowd each other out, or are too large.  mru, whose stack can list a key
twice, and 2q, which has two lists and a size of its own that a resize changes,
are the stacks most likely to disagree with the sizes beside them.  Three gets
allow a hit in an epoch after one in another.  Other pairs of policies can be put
into `MCConfigured`; clock and sieve, and lru and mru, pass in full.

*Trace.*  A buffer as long as one chunk is full with each event, so that a write
passes through it; two events, two readers and two ticks of the clock give a
fragment that is read while another is added, one that expires, and an
abandoned read (`Polling` = 2).  All widths and numbers are the least at which
chunks of every kind are padded or not as in the code.

*Symmetry* is declared over clients, or over keys, only in runs without
liveness, and only where every constant treats them alike.

### Fairness

Weak fairness per thread: a call that began goes on, the manager forwards, the
policy worker loops for ever, the TTL worker loops and finishes the erase it is
in, the trace worker polls, and a reconstruction thread goes on. Clients need
not call or choose policies. (`AloneSpec` asks no more of the scheduler: it is
the fair behaviours of a cache whose wipes are not called beside other updates.)
The operating system schedules runnable threads, all locks are released after
bounded work, and the workers' sleeps are bounded (`Duration`s of at most a
second), which is all these conditions ask. `ExpiredIsErased` has a condition
more: that the TTL worker's drain loop ends infinitely often. `try_iter` has no
bound, so clients that send faster than the worker receives can keep it there,
and no fairness of scheduling excludes that.

## Proofs

`CacheStoreProofs`, for any finite number of threads and hashed keys, any hash
function and any sizes, under the assumptions named in `CacheStore`
(`RangeAssumption`: all that is stored and in flight together is below the
range of a counter; for 2^64 that is any memory):

- `TypeCorrectness`: `Spec => [](TypeOK /\ LocalsAgree)`.  `TypeOK` alone is
  not inductive: the step that adds a delta needs to know that a thread that is
  at that step has one, which `LocalsAgree` says.
- `AccountingCorrectness`: `Spec => ([]WipesAlone => []Accounting)`, where
  `Accounting` is `NoWipe => AccountedFor`.  The condition says that no other
  thread is updating or wiping beside a wipe; without it the claim is false, as
  `StoreWipeRace` shows.  The inductive invariant is
  `Typed /\ Accounting /\ CleanWipe`.  Outside a wipe, each step moves an
  amount between the map, the deltas in flight and a counter: `MapStep` and
  `CounterStep` state those two kinds of move, `QuietStep` and `QuietMove` the
  steps that move nothing, and `AccountingStep` has one case per action.  The
  wrapped counters are handled by `HoldsAdd`: a counter that holds `n` modulo
  its range, plus a delta, holds the sum.  That needs the sums to be in range,
  which `SumsRange` derives from `RangeAssumption`.  During a wipe the counters
  hold nothing in particular, so the invariant says instead what the wipe has
  done so far (`CleanWipe`: a shard it has been through is empty, a counter it
  has zeroed is zero); `BesideAWipe` shows that no other thread undoes it, and
  `WipeEnds` that the accounts are right again when it ends.
- `AccountsAtRestCorrectness`: then, with nothing in flight, the counters are
  the total size and the number of the objects.
- `NoWipersCorrectness`: with `Wipers = {}` both hold of every behaviour.

Its first part has the lemmas about `Total`: its range, its value on zeros,
and what changing one summand does.  A sum defined by recursion would
need induction over its definition; as a cardinality it needs only the library's
theorems on finite sets.

`TtlReapingProofs`, on top of those:

- `TtlTypeCorrectness`: `TtlSpec => []TtlTypeOK`.
- `Refinement`: `TtlSpec => Spec`.  Each action of the channels and the worker's
  own variables leaves the store alone; `Erase` is `TtlWorkerPop`, and what is
  `Broadcast` with a queue behind it is `Broadcast`.
- `TtlAccounting`: so the accounts hold of the composition too.
- `ExpiriesKept`: `TtlSpec => []NoLostExpiry`, given `DistinctInstants` and
  `Wipers = {}`.  Both conditions are needed: two calls that stamp one instant
  share an entry of the BTreeMap, and a wipe that overtakes the event of a
  `set` takes its instant along (`TtlErasure` checks wipes by one client, who
  cannot overtake itself).  `NoLostExpiry` is not inductive: an event that is
  applied late removes an instant, and it has to be the removed object's own.
  The strengthening, `Apart`, says that no two objects share an instant, that the
  instant of an object to be inserted is nowhere else and that of one taken out
  is not stored, that an instant an event removes never comes back, and that an
  instant an event inserts is stored, if at all, for that event's key.

`PolicySwitchProofs`, for any keys, policies, overheads and number of switches:

- `SomeoneAlwaysEvicts`: `Spec => []SomeoneEvicts`.  The inductive invariant is
  `SwitchInv`: besides, that a thread's stack, and a stack on its way, is one,
  not none (`ThreadsMade`, `StacksArrive`), as `Install` must not put none in
  place and drop the mini stack.
- `SwitchTypeCorrectness`: `Spec => []SwitchTypeOK`.  The inductive invariant,
  `ConfiguredInv`, follows a policy from a call through its event, the queue
  and the batch to the worker, and from the poll that picks it to the status.
- `TraceStaysInOrder`: `Spec => []TracedInOrder`.  The inductive invariant,
  `TracedInv`, says where each event is: what the trace worker wrote before it
  last deleted the trace, then the trace, the trace's channel and the buffer,
  less the evictions, are all that was handled, in that order; what was deleted
  is empty or ends in a wipe; and no client's event is buffered unless a mini
  stack stands in.
- `NothingIsForgotten`: `Spec => []NothingHandledIsForgotten`, for stacks of all
  nine policies.  The property speaks only of the stack in use.  Its
  strengthening speaks of the stack that will be: `ToldOf` says that a key that
  was set since the switch survives among the buffered events (`Survives`: a
  set of it is there, with no removal or wipe behind), and `OneAtATime` that
  until switches overlap there is one stack to be made, on its way, or in use,
  so that the buffer is replayed on the right one.  `SoundInv` says that each of
  those stacks is `Sane`, without which a replay need not keep a key.
  `ReplayKeeps` goes through the events by induction: a key that survives in
  the first n of them is in the stack after n.

`PolicyStacksProofs`, for any keys, object sizes, cache sizes, ratios and
sequence of calls, and for each of the nine stacks:

- `NoKeyIsForgotten`: `Spec => []NothingForgotten`.
- `UsedSizesAreSums`: `Spec => []SizesKept`.
- `LfuIsConsistent`: `Spec => []NoUnwrapFails`.
- `StacksGiveUpEveryKey`: `MainHasRoom => (Spec => GivesUpAKnownKey)`, the
  refinement of `EvictionStack`.  `MainHasRoom` says that no size of the cache
  leaves s3-fifo's main without room, as the ratio 1.0 does; then `evict_one`
  returns None from a stack with keys (a hazard named above), and the claim is
  false.
- `UsedKeysAreSpared`: `Spec => UsedKeysGetAnotherChance`, clock and sieve
  refine `SecondChance`.  `MarksOf` reads the marks off a list; `GivesChances`
  is what an eviction may do to them, and `ClockGives` and `SieveGives` show that
  the closed forms of the two loops do that: a marked key is evicted only if all
  are marked, and whoever loses a mark was passed over.  That sieve's hand finds
  a key in at most one round is `AllLookedAt`.
- `OrderIsKept`: `Spec => EvictsInOrder`, fifo, lru and lfu refine
  `EvictionOrder`.  `Before` says that a key is behind another in a list, and
  the lemmas say of each method which pairs that adds and takes away.  lfu's
  order is spread over its count stacks: `At` and `Near` say in which one a key
  is, and behind whom; `Leaves` and `Comes`, what an update does to that; and
  `LfuOrder`, by induction along the count stacks, that the order is by uses
  first and then by place.
- `AdmittedKeysFit`: `Spec => NewKeyFits`.  The loop of 2q's
  `restructure_to_fit` ends with room for the new object or with nothing left to
  hold it back (`TwoQMakesRoom`).

Beside the constants' own assumptions (`PolicyStacks`), they use
`RatiosAssumption` of `Stacks`: ratios are between zero and one, as `policy.rs`
requires of them.

All seven rest on one inductive invariant, `StackInv`: the stack is `Sane`
and holds the keys it was told of, just those unless it is mru's.  `Sane` is the
shape of the policy's stack: no key twice in a list, no key in two lists that
exclude each other, each used size the sum of its list (`SizedList`), sieve's
hand on an object that is there or on none, and for lfu (`LfuShape`) that the
map and the count stacks mirror each other, with ascending counts and distinct
indices.  `StacksProofs` proves, a method at a time, that it keeps the shape and
what it does to the keys (`TwoQInserts`, `LfuRemoves`, ...), and that the shape
implies the stack's consistency (`ArcConsistent`, ...).  The loops of clock,
sieve and s3-fifo are in closed form there, as everywhere: the proofs show that
the CHOOSE of a closed form has something to choose.  That a new index of lfu is
a fresh one is a pigeonhole argument (`FreshIndex`).

`MiniStacksProofs`, for any configured policies, sizes, keys and sample:

- `MiniSizesAreSums`: `Spec => []MiniSizesKept`.
- `HitsAreOfTheirEpoch`: `Spec => []HitsOfEpoch`.
- `AutoPolicyImproves`: `Spec => SwitchesToBetter`.  The invariant of these three,
  `MinisInv`, says that each mini stack runs the policy of its place, has a
  `Sane` stack, and sizes for keys of that stack only, with their sum beside
  them; and that its hits are no more than the epoch's gets.  The sum is below
  the range of a counter (`MiniAssumption`).
- `EveryReduceEnds`: `MinisHaveRoom => (Spec => []ReduceEnds)`.  A mini stack that
  is above its target has a size, so a key, so something to evict, and each
  eviction makes it lighter (`TurnLightens`); `Weight` counts what it can still
  name, for mru the list and the key beside it.
- `MinisFitTheirSize`: `MinisHaveRoom => (Spec => []MiniFits)`.
- `MinisKeepNoToldKey`: `MinisHaveRoom => (Spec => []GoneOnceTold)`.  That the mini
  stack that evicts keeps nothing of what was erased, though it is never told, is
  where room is needed: if it names no key it has none (`CurrentEvicts`).  The
  invariant of these three, `MinisTold`, rests on the one above.

`MinisHaveRoom` says that no mini stack is scaled down so far that s3-fifo's
main, or all of arc, has size zero.  Only caches of a few thousand bytes have
such mini stacks (a mini stack is a thousandth of the cache), or s3-fifo with a
ratio close to 1.0; then `evict_one` can return None from a stack with keys, and
the loop of `reduce` would not end.

`TraceFilesProofs`, for any number of readers and events and any widths:

- `FilesAreLeftAtTheEnd`: `Spec => []AtTheEnd`.  The inductive invariant
  `TraceInv` adds that a reader that reads a fragment is its holder and knows
  where it ended (`ReadersKnow`), and that the files stay what they are while
  one is inside: the worker can append only to a fragment nobody holds, and
  drop one only when nobody is inside.
- `FragmentsStayBounded`: `Spec => []FragmentsBounded`, from `Spaced`: any
  two neighbours among the fragments were created more than `REFRESH_AGE` apart.
- `NothingIsOverwritten`: `Spec => []NothingOverwritten`.  The inductive invariant
  `Traced` says that every fragment is a number of whole chunks, that the
  fragments decoded one after the other are the trace less what was dropped, and
  that only the last one has anything in its writer's buffer.
- `ReadersSeeTheTrace`: `Spec => []ReadsWithoutGap`.  `ReadInv` follows a reader
  from fragment to fragment (`Sees`): it has all of those behind it and the
  first part of the one it reads, and once past the last it has at least what
  was in the files when it began.

`ChunksRoundTrip`, that a chunk decodes to the event it was made from, is an
assumption of these; it is about the digits of numbers, and TLC evaluates it.

Two habits in the models come from the prover.  Recursion is by recursive
functions or folds, and where a proof needs induction over a sequence it goes
through a least counterexample (`LeastElement`, `SetInduction`), as the library's
induction theorems cannot be instantiated.  What a recursive function computes
is then a matter of such an induction over its argument.  And a nested EXCEPT names the old
value instead of `@`, which tlapm does not resolve below the first level.

Only model-checked: the liveness properties (`EventuallyWithinLimit`,
`ExpiredIsErased`, `EventuallyInstalled`, `EventuallyFits`, `EventuallyInAFile`),
as fairness and ENABLED are beyond the prover, and `EvictsAsTheLoopsDo`, which is
about recursive operators.  Every other property of a passing run is stated by
a theorem.

## Not modelled

- The death of a worker: `WorkerManager` stops when one channel is closed, and
  each later call changes the map and returns an error.  Workers return only on
  errors of the file system or of channels, which are not modelled either; no
  doc or test says what should then hold.
- Workers of a cache that was dropped: the code gives them no way to end.
- The statistics counters, `status` snapshots and read-only calls, which change
  nothing the modelled parts read.
- Parsing and printing of policies; errors, an enumeration.
- Which keys are sampled, and how buffered readers of a file read ahead.
- The hit ratio a policy achieves: a matter of workloads, not of correctness.

## Plan

In this order, most important first:

1. Done: `CacheStore`, its accounting and eviction, its theorems.
2. Done: `TtlReaping`, its refinement proved.
3. Done: the nine stacks and their abstract specifications.
4. Done: `PolicySwitch`, `MiniStacks`, `TraceFiles`.
5. Done: the theorems on the expiries, on the nine stacks and what they promise,
   on switching and the order of the trace, on its files, on the mini stacks.
6. Left: `WorkerManager`, a worker that dies, and what every later call then does.
