------------------------------ MODULE CacheStore ------------------------------
(***************************************************************************)
(* The shared state of a PaperCache and every thread that touches it.      *)
(*                                                                         *)
(* The store is a DashMap from hashed keys to objects and a handful of     *)
(* atomics (AtomicStatus).  Nothing ties the two together: an operation    *)
(* changes the map first and then, one atomic at a time, the counters that *)
(* describe it, while other threads run in between.  Each atomic access or *)
(* locked map access is one step here.                                     *)
(*                                                                         *)
(* Clients call get, set, del, ttl, wipe and resize; the TTL worker erases *)
(* hashed keys; the policy worker erases until the used size fits.  What   *)
(* the workers choose to erase is left open in this module: any hashed key *)
(* for the TTL worker, any content of the eviction stack for the policy    *)
(* worker.  TtlReaping narrows the first, PolicyStack describes the second.*)
(***************************************************************************)
EXTENDS Integers, FiniteSets, BoundedSums

CONSTANTS
    Keys,           \* the keys the clients use
    HashedKeys,     \* their hashes
    HashOf,         \* the hash function; it may map two keys to one hash
    Clients,        \* threads that call the cache
    Wipers,         \* the clients that may call wipe
    TtlWorkers,     \* the TTL worker; empty in an instance that leaves it out
    PolicyWorkers,  \* the policy worker; likewise
    ObjectSizes,    \* Object::total_size of the objects clients may set
    Ttls,           \* TTL arguments; 0 stands for both None and Some(0)
    TtlOverhead,    \* get_ttl_overhead()
    PolicyOverhead, \* get_policy_overhead of the current policy
    MaxBaseSize,    \* an upper bound on base sizes (they are u32)
    CacheSizes,     \* the maximum sizes a cache is created with or resized to
    Modulus,        \* the counters are modulo this number (2^64)
    Horizon,        \* bound: the clock stops here
    NoObject, NoEvent, NoKey

Procs == Clients \cup TtlWorkers \cup PolicyWorkers

\* Instants are positive, so that 0 can stand for an absent expiry.
NoExpiry == 0

Objects == [key : Keys, size : ObjectSizes, expiry : Nat]

EventKinds == {"Get", "Set", "Del", "Ttl", "Wipe", "Resize"}

(***************************************************************************)
(* A WorkerEvent, without the sizes that only the eviction stacks read:    *)
(* the expiry the operation removed and the one it inserted.               *)
(***************************************************************************)
Events == [kind : EventKinds, key : HashedKeys \cup {NoKey},
           removed : Nat, inserted : Nat]

Labels == {"idle", "insert", "incr", "base", "send",
           "erase", "erase_base", "decr",
           "clear", "zero_base", "zero_num", "resize",
           "load_base", "load_num", "evict"}

ASSUME HashAssumption == HashOf \in [Keys -> HashedKeys]

ASSUME ThreadsAssumption ==
    /\ Wipers \subseteq Clients
    /\ Clients \cap TtlWorkers = {}
    /\ Clients \cap PolicyWorkers = {}
    /\ TtlWorkers \cap PolicyWorkers = {}

ASSUME SizesAssumption ==
    /\ ObjectSizes \subseteq Nat \ {0}
    /\ TtlOverhead \in Nat
    /\ PolicyOverhead \in Nat
    /\ MaxBaseSize \in Nat
    /\ \A s \in ObjectSizes : s + TtlOverhead <= MaxBaseSize
    /\ CacheSizes \subseteq Nat \ {0}
    /\ Ttls \subseteq Nat
    /\ Horizon \in Nat

\* Everything stored and in flight together stays below the counters' range.
ASSUME RangeAssumption ==
    /\ IsFiniteSet(HashedKeys) /\ IsFiniteSet(Procs)
    /\ Modulus \in Nat
    /\ (Cardinality(HashedKeys) + Cardinality(Procs)) * (MaxBaseSize + 1) < Modulus

ASSUME SentinelAssumption ==
    /\ NoObject \notin Objects
    /\ NoEvent \notin Events
    /\ NoKey \notin HashedKeys

VARIABLES
    objects,        \* the map
    base_used_size, \* AtomicStatus::base_used_size
    num_objects,    \* AtomicStatus::num_objects
    max_size,       \* AtomicStatus::max_size
    now,            \* Instant::now()
    pc,             \* where each thread is
    arg,            \* the object a set will insert, or an erase has taken out
    credit, debit,  \* the two operands of a delta not yet added to base_used_size
    event,          \* the event an operation has yet to broadcast
    target,         \* the hashed key a worker is about to erase
    seen,           \* base_used_size as used_size() loaded it
    limit,          \* max_size as apply_evictions loaded it, or resize's argument
    remaining       \* keys a loop has left: shards to clear, keys to evict

vars == <<objects, base_used_size, num_objects, max_size, now, pc, arg,
          credit, debit, event, target, seen, limit, remaining>>

-----------------------------------------------------------------------------

\* OverheadManager::base_size; an absent object has none.
BaseSize(o) ==
    IF o = NoObject THEN 0
    ELSE o.size + (IF o.expiry = NoExpiry THEN 0 ELSE TtlOverhead)

ExpiryOf(o) == IF o = NoObject THEN NoExpiry ELSE o.expiry

\* get_expiry_from_ttl behind the match on Some(0) | None.
ExpiryFromTtl(ttl) == IF ttl = 0 THEN NoExpiry ELSE now + ttl

IsExpired(o) == o.expiry # NoExpiry /\ o.expiry <= now

\* get, has, peek, size and ttl see the object only under its own key and alive.
Visible(k) ==
    LET o == objects[HashOf[k]]
    IN  o # NoObject /\ o.key = k /\ ~IsExpired(o)

Event(kind, h, removed, inserted) ==
    [kind |-> kind, key |-> h, removed |-> removed, inserted |-> inserted]

\* ttl holds the shard's write lock from its lookup to the end of its broadcast.
Locked(h) == \E c \in Clients :
    event[c] # NoEvent /\ event[c].kind = "Ttl" /\ event[c].key = h

Goto(p, label) == pc' = [pc EXCEPT ![p] = label]

\* Faulty variant of Wrap: the counters are plain integers.
WrapNothing(n) == n

\* AtomicU64 arithmetic wraps around.
Wrap(n) == n % Modulus

\* AtomicStatus::used_size, from one load of each counter.
UsedSize(base, num) == Wrap(base + num * PolicyOverhead)

Init ==
    /\ objects = [h \in HashedKeys |-> NoObject]
    /\ base_used_size = 0
    /\ num_objects = 0
    /\ max_size \in CacheSizes
    /\ now = 1
    /\ pc = [p \in Procs |-> "idle"]
    /\ arg = [p \in Procs |-> NoObject]
    /\ credit = [p \in Procs |-> 0]
    /\ debit = [p \in Procs |-> 0]
    /\ event = [p \in Procs |-> NoEvent]
    /\ target = [p \in Procs |-> NoKey]
    /\ seen = [p \in Procs |-> 0]
    /\ limit = [p \in Procs |-> 0]
    /\ remaining = [p \in Procs |-> {}]

-----------------------------------------------------------------------------
(***************************************************************************)
(* Clients                                                                 *)
(***************************************************************************)

\* get: one lookup; hit or miss, the workers are told of it.
Get(c, k) ==
    /\ pc[c] = "idle"
    /\ ~Locked(HashOf[k])
    /\ event' = [event EXCEPT ![c] = Event("Get", HashOf[k], NoExpiry, NoExpiry)]
    /\ Goto(c, "send")
    /\ UNCHANGED <<objects, base_used_size, num_objects, max_size, now, arg,
                   credit, debit, target, seen, limit, remaining>>

\* set, first part: build the object and compare its size with max_size.
SetCheck(c, k, s, ttl) ==
    /\ pc[c] = "idle"
    /\ LET o == [key |-> k, size |-> s, expiry |-> ExpiryFromTtl(ttl)]
       IN  /\ BaseSize(o) # 0
           /\ BaseSize(o) <= max_size
           /\ arg' = [arg EXCEPT ![c] = o]
    /\ Goto(c, "insert")
    /\ UNCHANGED <<objects, base_used_size, num_objects, max_size, now,
                   credit, debit, event, target, seen, limit, remaining>>

\* Faulty variant of SetInsert: a replaced object is counted as a new one.
SetInsertCountingAlways(c) ==
    /\ pc[c] = "insert"
    /\ LET o   == arg[c]
           h   == HashOf[o.key]
           old == objects[h]
       IN  /\ ~Locked(h)
           /\ objects' = [objects EXCEPT ![h] = o]
           /\ credit' = [credit EXCEPT ![c] = BaseSize(o)]
           /\ debit' = [debit EXCEPT ![c] = BaseSize(old)]
           /\ event' = [event EXCEPT ![c] = Event("Set", h, ExpiryOf(old), o.expiry)]
           /\ Goto(c, "incr")
    /\ arg' = [arg EXCEPT ![c] = NoObject]
    /\ UNCHANGED <<base_used_size, num_objects, max_size, now, target, seen,
                   limit, remaining>>

\* set, second part: insert, whatever max_size has become in the meantime.
SetInsert(c) ==
    /\ pc[c] = "insert"
    /\ LET o   == arg[c]
           h   == HashOf[o.key]
           old == objects[h]
       IN  /\ ~Locked(h)
           /\ objects' = [objects EXCEPT ![h] = o]
           /\ credit' = [credit EXCEPT ![c] = BaseSize(o)]
           /\ debit' = [debit EXCEPT ![c] = BaseSize(old)]
           /\ event' = [event EXCEPT ![c] = Event("Set", h, ExpiryOf(old), o.expiry)]
           /\ Goto(c, IF old = NoObject THEN "incr" ELSE "base")
    /\ arg' = [arg EXCEPT ![c] = NoObject]
    /\ UNCHANGED <<base_used_size, num_objects, max_size, now, target, seen,
                   limit, remaining>>

\* Only a set that replaced nothing counts a new object.
IncrNumObjects(c) ==
    /\ pc[c] = "incr"
    /\ num_objects' = Wrap(num_objects + 1)
    /\ Goto(c, "base")
    /\ UNCHANGED <<objects, base_used_size, max_size, now, arg, credit, debit,
                   event, target, seen, limit, remaining>>

\* update_base_used_size, as set and ttl ("base") and as erase call it.
UpdateBaseUsedSize(p) ==
    /\ pc[p] \in {"base", "erase_base"}
    /\ base_used_size' = Wrap(base_used_size + credit[p] - debit[p])
    /\ credit' = [credit EXCEPT ![p] = 0]
    /\ debit' = [debit EXCEPT ![p] = 0]
    /\ Goto(p, IF pc[p] = "base" THEN "send" ELSE "decr")
    /\ UNCHANGED <<objects, num_objects, max_size, now, arg, event, target,
                   seen, limit, remaining>>

\* The event reaches the worker manager's channel; the call returns.
Broadcast(c) ==
    /\ pc[c] = "send"
    /\ event' = [event EXCEPT ![c] = NoEvent]
    /\ Goto(c, "idle")
    /\ UNCHANGED <<objects, base_used_size, num_objects, max_size, now, arg,
                   credit, debit, target, seen, limit, remaining>>

\* Faulty variant of Ttl: the event carries the two expiries the wrong way round.
TtlSwapped(c, k, ttl) ==
    /\ pc[c] = "idle"
    /\ ~Locked(HashOf[k])
    /\ Visible(k)
    /\ LET h   == HashOf[k]
           old == objects[h]
           new == [old EXCEPT !.expiry = ExpiryFromTtl(ttl)]
       IN  /\ objects' = [objects EXCEPT ![h] = new]
           /\ credit' = [credit EXCEPT ![c] = BaseSize(new)]
           /\ debit' = [debit EXCEPT ![c] = BaseSize(old)]
           /\ event' = [event EXCEPT ![c] = Event("Ttl", h, new.expiry, old.expiry)]
    /\ Goto(c, "base")
    /\ UNCHANGED <<base_used_size, num_objects, max_size, now, arg, target,
                   seen, limit, remaining>>

\* ttl on a visible object: new expiry, and the TTL overhead comes or goes.
Ttl(c, k, ttl) ==
    /\ pc[c] = "idle"
    /\ ~Locked(HashOf[k])
    /\ Visible(k)
    /\ LET h   == HashOf[k]
           old == objects[h]
           new == [old EXCEPT !.expiry = ExpiryFromTtl(ttl)]
       IN  /\ objects' = [objects EXCEPT ![h] = new]
           /\ credit' = [credit EXCEPT ![c] = BaseSize(new)]
           /\ debit' = [debit EXCEPT ![c] = BaseSize(old)]
           /\ event' = [event EXCEPT ![c] = Event("Ttl", h, old.expiry, new.expiry)]
    /\ Goto(c, "base")
    /\ UNCHANGED <<base_used_size, num_objects, max_size, now, arg, target,
                   seen, limit, remaining>>

-----------------------------------------------------------------------------
(***************************************************************************)
(* erase, shared by del and the two workers                                *)
(***************************************************************************)

\* entry.remove(): from here on the object is gone but still counted.
TakeEntry(p, h) ==
    /\ ~Locked(h)
    /\ objects[h] # NoObject
    /\ objects' = [objects EXCEPT ![h] = NoObject]
    /\ arg' = [arg EXCEPT ![p] = objects[h]]
    /\ debit' = [debit EXCEPT ![p] = BaseSize(objects[h])]
    /\ Goto(p, "erase_base")

\* del: EraseKey::Original, so the object's own key must match; it may be expired.
Del(c, k) ==
    /\ pc[c] = "idle"
    /\ objects[HashOf[k]] # NoObject /\ objects[HashOf[k]].key = k
    /\ TakeEntry(c, HashOf[k])
    /\ UNCHANGED <<base_used_size, num_objects, max_size, now, credit, event,
                   target, seen, limit, remaining>>

\* Where a worker goes on after an erase: the policy worker's while loop again.
Resume(p) == IF p \in PolicyWorkers THEN "load_base" ELSE "idle"

\* A worker's erase of EraseKey::Hashed: whatever object is there now ...
EraseHashed(p) ==
    /\ pc[p] = "erase"
    /\ TakeEntry(p, target[p])
    /\ target' = [target EXCEPT ![p] = NoKey]
    /\ UNCHANGED <<base_used_size, num_objects, max_size, now, credit, event,
                   seen, limit, remaining>>

\* Faulty variant of EraseAbsent: an object that is not there is counted as erased.
EraseAbsentCounted(p) ==
    /\ pc[p] = "erase"
    /\ objects[target[p]] = NoObject
    /\ target' = [target EXCEPT ![p] = NoKey]
    /\ num_objects' = Wrap(num_objects - 1)
    /\ Goto(p, Resume(p))
    /\ UNCHANGED <<objects, base_used_size, max_size, now, arg, credit, debit,
                   event, seen, limit, remaining>>

\* ... or none: Err(KeyNotFound), which both workers ignore.
EraseAbsent(p) ==
    /\ pc[p] = "erase"
    /\ objects[target[p]] = NoObject
    /\ target' = [target EXCEPT ![p] = NoKey]
    /\ Goto(p, Resume(p))
    /\ UNCHANGED <<objects, base_used_size, num_objects, max_size, now, arg,
                   credit, debit, event, seen, limit, remaining>>

\* The count goes down, then the erased object's expiry decides the outcome: del
\* of an expired object fails and broadcasts nothing.
DecrNumObjects(p) ==
    /\ pc[p] = "decr"
    /\ num_objects' = Wrap(num_objects - 1)
    /\ arg' = [arg EXCEPT ![p] = NoObject]
    /\ IF p \in Clients /\ ~IsExpired(arg[p])
       THEN /\ event' = [event EXCEPT ![p] =
                           Event("Del", HashOf[arg[p].key], arg[p].expiry, NoExpiry)]
            /\ Goto(p, "send")
       ELSE /\ event' = event
            /\ Goto(p, Resume(p))
    /\ UNCHANGED <<objects, base_used_size, max_size, now, credit, debit,
                   target, seen, limit, remaining>>

-----------------------------------------------------------------------------
(***************************************************************************)
(* wipe and resize                                                         *)
(***************************************************************************)

WipeStart(c) ==
    /\ pc[c] = "idle"
    /\ remaining' = [remaining EXCEPT ![c] = HashedKeys]
    /\ Goto(c, "clear")
    /\ UNCHANGED <<objects, base_used_size, num_objects, max_size, now, arg,
                   credit, debit, event, target, seen, limit>>

\* DashMap::clear empties one shard after another, each under its own lock.
WipeShard(c) ==
    /\ pc[c] = "clear"
    /\ \E h \in remaining[c] :
           /\ ~Locked(h)
           /\ objects' = [objects EXCEPT ![h] = NoObject]
           /\ remaining' = [remaining EXCEPT ![c] = @ \ {h}]
           /\ Goto(c, IF remaining[c] = {h} THEN "zero_base" ELSE "clear")
    /\ UNCHANGED <<base_used_size, num_objects, max_size, now, arg, credit,
                   debit, event, target, seen, limit>>

\* AtomicStatus::clear is two stores, not a subtraction of what was cleared.
ZeroBaseUsedSize(c) ==
    /\ pc[c] = "zero_base"
    /\ base_used_size' = 0
    /\ Goto(c, "zero_num")
    /\ UNCHANGED <<objects, num_objects, max_size, now, arg, credit, debit,
                   event, target, seen, limit, remaining>>

\* Faulty variant of ZeroNumObjects: the object count is left as it was.
ZeroNumObjectsForgotten(c) ==
    /\ pc[c] = "zero_num"
    /\ event' = [event EXCEPT ![c] = Event("Wipe", NoKey, NoExpiry, NoExpiry)]
    /\ Goto(c, "send")
    /\ UNCHANGED <<objects, base_used_size, num_objects, max_size, now, arg,
                   credit, debit, target, seen, limit, remaining>>

ZeroNumObjects(c) ==
    /\ pc[c] = "zero_num"
    /\ num_objects' = 0
    /\ event' = [event EXCEPT ![c] = Event("Wipe", NoKey, NoExpiry, NoExpiry)]
    /\ Goto(c, "send")
    /\ UNCHANGED <<objects, base_used_size, max_size, now, arg, credit, debit,
                   target, seen, limit, remaining>>

\* resize reads max_size first and returns early when nothing would change.
ResizeCheck(c, size) ==
    /\ pc[c] = "idle"
    /\ size # max_size
    /\ limit' = [limit EXCEPT ![c] = size]
    /\ Goto(c, "resize")
    /\ UNCHANGED <<objects, base_used_size, num_objects, max_size, now, arg,
                   credit, debit, event, target, seen, remaining>>

ResizeStore(c) ==
    /\ pc[c] = "resize"
    /\ max_size' = limit[c]
    /\ limit' = [limit EXCEPT ![c] = 0]
    /\ event' = [event EXCEPT ![c] = Event("Resize", NoKey, NoExpiry, NoExpiry)]
    /\ Goto(c, "send")
    /\ UNCHANGED <<objects, base_used_size, num_objects, now, arg, credit,
                   debit, target, seen, remaining>>

-----------------------------------------------------------------------------
(***************************************************************************)
(* Workers                                                                 *)
(***************************************************************************)

\* The TTL worker takes some hashed key for expired, rightly or not.
TtlWorkerPop(p, h) ==
    /\ pc[p] = "idle"
    /\ target' = [target EXCEPT ![p] = h]
    /\ Goto(p, "erase")
    /\ UNCHANGED <<objects, base_used_size, num_objects, max_size, now, arg,
                   credit, debit, event, seen, limit, remaining>>

\* apply_evictions loads max_size once; the stack may hold any hashed keys.
EvictStart(p) ==
    /\ pc[p] = "idle"
    /\ limit' = [limit EXCEPT ![p] = max_size]
    /\ \E resident \in SUBSET HashedKeys :
           remaining' = [remaining EXCEPT ![p] = resident]
    /\ Goto(p, "load_base")
    /\ UNCHANGED <<objects, base_used_size, num_objects, max_size, now, arg,
                   credit, debit, event, target, seen>>

\* used_size() loads the two counters one after the other ...
EvictLoadBase(p) ==
    /\ pc[p] = "load_base"
    /\ seen' = [seen EXCEPT ![p] = base_used_size]
    /\ Goto(p, "load_num")
    /\ UNCHANGED <<objects, base_used_size, num_objects, max_size, now, arg,
                   credit, debit, event, target, limit, remaining>>

\* Faulty variant of EvictLoadNum: the policy overhead is left out.
EvictLoadNumWithoutOverhead(p) ==
    /\ pc[p] = "load_num"
    /\ IF seen[p] > limit[p]
       THEN /\ Goto(p, "evict")
            /\ UNCHANGED <<limit, remaining>>
       ELSE /\ Goto(p, "idle")
            /\ limit' = [limit EXCEPT ![p] = 0]
            /\ remaining' = [remaining EXCEPT ![p] = {}]
    /\ seen' = [seen EXCEPT ![p] = 0]
    /\ UNCHANGED <<objects, base_used_size, num_objects, max_size, now, arg,
                   credit, debit, event, target>>

\* ... and the loop ends as soon as the result fits the limit loaded at its start.
EvictLoadNum(p) ==
    /\ pc[p] = "load_num"
    /\ IF UsedSize(seen[p], num_objects) > limit[p]
       THEN /\ Goto(p, "evict")
            /\ UNCHANGED <<limit, remaining>>
       ELSE /\ Goto(p, "idle")
            /\ limit' = [limit EXCEPT ![p] = 0]
            /\ remaining' = [remaining EXCEPT ![p] = {}]
    /\ seen' = [seen EXCEPT ![p] = 0]
    /\ UNCHANGED <<objects, base_used_size, num_objects, max_size, now, arg,
                   credit, debit, event, target>>

\* evict_one() gives the stack's choice ...
EvictFromStack(p) ==
    /\ pc[p] = "evict"
    /\ \E h \in remaining[p] :
           /\ target' = [target EXCEPT ![p] = h]
           /\ remaining' = [remaining EXCEPT ![p] = @ \ {h}]
    /\ Goto(p, "erase")
    /\ UNCHANGED <<objects, base_used_size, num_objects, max_size, now, arg,
                   credit, debit, event, seen, limit>>

\* ... or None, and erase falls back on any object it finds in the map ...
EvictAny(p) ==
    /\ pc[p] = "evict"
    /\ remaining[p] = {}
    /\ \E h \in HashedKeys :
           /\ objects[h] # NoObject /\ ~Locked(h)
           /\ target' = [target EXCEPT ![p] = h]
    /\ Goto(p, "erase")
    /\ UNCHANGED <<objects, base_used_size, num_objects, max_size, now, arg,
                   credit, debit, event, seen, limit, remaining>>

\* ... or fails because the map is empty, and the loop tries again.
EvictNothing(p) ==
    /\ pc[p] = "evict"
    /\ remaining[p] = {}
    /\ \A h \in HashedKeys : objects[h] = NoObject
    /\ Goto(p, "load_base")
    /\ UNCHANGED <<objects, base_used_size, num_objects, max_size, now, arg,
                   credit, debit, event, target, seen, limit, remaining>>

Tick ==
    /\ now < Horizon
    /\ now' = now + 1
    /\ UNCHANGED <<objects, base_used_size, num_objects, max_size, pc, arg,
                   credit, debit, event, target, seen, limit, remaining>>

-----------------------------------------------------------------------------

EraseStep(p) == EraseHashed(p) \/ EraseAbsent(p) \/ UpdateBaseUsedSize(p) \/ DecrNumObjects(p)

\* How a call begins ...
CallBegin(c) ==
    \/ \E k \in Keys : Get(c, k) \/ Del(c, k)
    \/ \E k \in Keys, s \in ObjectSizes, ttl \in Ttls : SetCheck(c, k, s, ttl)
    \/ \E k \in Keys, ttl \in Ttls : Ttl(c, k, ttl)
    \/ c \in Wipers /\ WipeStart(c)
    \/ \E size \in CacheSizes : ResizeCheck(c, size)

\* ... what it does to the store ...
CallMiddle(c) ==
    \/ SetInsert(c) \/ IncrNumObjects(c) \/ UpdateBaseUsedSize(c) \/ DecrNumObjects(c)
    \/ WipeShard(c) \/ ZeroBaseUsedSize(c) \/ ZeroNumObjects(c) \/ ResizeStore(c)

\* ... and how it goes on until it returns.
CallStep(c) == CallMiddle(c) \/ Broadcast(c)

PolicyWorkerStep(p) ==
    \/ EvictStart(p) \/ EvictLoadBase(p) \/ EvictLoadNum(p)
    \/ EvictFromStack(p) \/ EvictAny(p) \/ EvictNothing(p)
    \/ EraseStep(p)

Next ==
    \/ \E c \in Clients : CallBegin(c) \/ CallStep(c)
    \/ \E p \in TtlWorkers : (\E h \in HashedKeys : TtlWorkerPop(p, h)) \/ EraseStep(p)
    \/ \E p \in PolicyWorkers : PolicyWorkerStep(p)
    \/ Tick

Spec == Init /\ [][Next]_vars

\* Threads are scheduled: a call that began goes on, the policy worker loops for
\* ever, and the TTL worker finishes the erase it is in.
Fairness ==
    /\ \A c \in Clients : WF_vars(CallStep(c))
    /\ \A p \in TtlWorkers : WF_vars(EraseStep(p))
    /\ \A p \in PolicyWorkers : WF_vars(PolicyWorkerStep(p))

FairSpec == Spec /\ Fairness

-----------------------------------------------------------------------------
(***************************************************************************)
(* Properties                                                              *)
(***************************************************************************)

\* Every variable and every thread-local value has its type.
TypeOK ==
    /\ objects \in [HashedKeys -> Objects \cup {NoObject}]
    /\ base_used_size \in 0 .. Modulus - 1
    /\ num_objects \in 0 .. Modulus - 1
    /\ max_size \in CacheSizes
    /\ now \in Nat
    /\ pc \in [Procs -> Labels]
    /\ arg \in [Procs -> Objects \cup {NoObject}]
    /\ credit \in [Procs -> 0 .. MaxBaseSize]
    /\ debit \in [Procs -> 0 .. MaxBaseSize]
    /\ event \in [Procs -> Events \cup {NoEvent}]
    /\ target \in [Procs -> HashedKeys \cup {NoKey}]
    /\ seen \in [Procs -> 0 .. Modulus - 1]
    /\ limit \in [Procs -> CacheSizes \cup {0}]
    /\ remaining \in [Procs -> SUBSET HashedKeys]

\* Thread-local values agree with where the thread is: an operation that holds
\* an object, a key or half a delta is at the step that will use it up.
LocalsAgree ==
    \A p \in Procs :
        /\ pc[p] \in {"insert", "erase_base", "decr"} => arg[p] # NoObject
        /\ pc[p] \notin {"incr", "base", "erase_base"} => credit[p] = 0 /\ debit[p] = 0
        /\ pc[p] = "erase" => target[p] # NoKey
        /\ pc[p] = "resize" => limit[p] # 0

SumOf(f, S) == Total(f, S, MaxBaseSize)

StoredKeys == {h \in HashedKeys : objects[h] # NoObject}
Sizes == [h \in HashedKeys |-> BaseSize(objects[h])]
StoredSize == SumOf(Sizes, HashedKeys)

Uncounted == {p \in Procs : pc[p] = "incr"}
StillCounted == {p \in Procs : pc[p] \in {"erase_base", "decr"}}

\* A counter holds n, possibly below zero for the time being.
Holds(counter, n) == counter = (IF n < 0 THEN n + Modulus ELSE n)

SizeAccounting ==
    Holds(base_used_size, StoredSize - SumOf(credit, Procs) + SumOf(debit, Procs))

CountAccounting ==
    Holds(num_objects, Cardinality(StoredKeys) - Cardinality(Uncounted)
                         + Cardinality(StillCounted))

\* Where a thread is while a change of the map and the counters differ by it.
Updating == {"incr", "base", "erase_base", "decr"}
Wiping == {"clear", "zero_base", "zero_num"}

NoWipe == \A p \in Procs : pc[p] \notin Wiping

\* No other thread is updating or wiping beside a wipe.
WipesAlone == \A p \in Procs : pc[p] \in Wiping =>
                  \A q \in Procs \ {p} : pc[q] \notin Updating \cup Wiping

\* The fair behaviours in which every wipe runs alone.  Nothing has to get stuck by
\* it: a wiper can always go on.
AloneSpec == Init /\ [][Next /\ WipesAlone']_vars /\ Fairness

\* The counters are what the map holds, less what inserting threads have yet to
\* add, plus what erasing threads have yet to subtract.
AccountedFor == SizeAccounting /\ CountAccounting

\* While no wipe runs, the two counters are exactly what the map holds and the
\* deltas in flight: no interleaving of set, ttl, del, expiry and eviction loses or
\* doubles an update (lib.rs set, ttl, erase).
Accounting == NoWipe => AccountedFor

\* With no thread between a change of the map and the counters that follow it,
\* the status reports exactly what is stored (lib.rs wipe, status.rs used_size).
AtRest == \A p \in Procs : pc[p] \notin Updating \cup Wiping

AccountsAtRest ==
    AtRest => /\ base_used_size = StoredSize
              /\ num_objects = Cardinality(StoredKeys)

\* What wipe's documentation promises: an empty cache has a used size of zero.
EmptyMeansZero ==
    AtRest /\ StoredKeys = {} => base_used_size = 0 /\ num_objects = 0

ClientsIdle == \A c \in Clients : pc[c] = "idle"

\* Once clients stop calling, eviction brings the used size within the maximum
\* size for good, however stale the limit and the loads of its loop were: for two
\* clients that set, get, del and resize over each other, and wipe alone.  (A wipe
\* beside an erase can leave base_used_size below zero, and the loop spins.)
EventuallyWithinLimit ==
    <>[]ClientsIdle => <>[](UsedSize(base_used_size, num_objects) <= max_size)

=============================================================================
