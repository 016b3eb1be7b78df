------------------------------ MODULE TtlReaping ------------------------------
(***************************************************************************)
(* The TTL worker, and the path an event takes to it.                      *)
(*                                                                         *)
(* A client broadcasts into one channel; the worker manager forwards each  *)
(* event to the workers' own channels; the TTL worker drains its channel,  *)
(* keeps a BTreeMap from instants to hashed keys, and erases the keys whose *)
(* instant has passed.  The map of objects has long moved on when an event *)
(* arrives, and events of one key may arrive in another order than the     *)
(* operations took effect.                                                 *)
(*                                                                         *)
(* The module keeps the actions of CacheStore and decides what CacheStore  *)
(* leaves open: which hashed key the TTL worker erases.  It implements     *)
(* CacheStore's Spec with the same variables.                              *)
(***************************************************************************)
EXTENDS CacheStore, Sequences, Functions

CONSTANTS
    QueueBound,         \* bound: events under way to the TTL worker
    DistinctInstants    \* no two calls ever stamp the same instant

ASSUME TtlReapingAssumption ==
    /\ QueueBound \in Nat \ {0}
    /\ DistinctInstants \in BOOLEAN
    /\ \A v, w \in TtlWorkers : v = w

VARIABLES
    channel,    \* worker_manager: from the clients to the manager
    inbox,      \* the TTL worker's listener
    expiries,   \* Expiries::map, from instants to hashed keys
    phase,      \* the part of its loop the TTL worker is in
    woken       \* `now`, captured at the top of that loop

ttlVars == <<channel, inbox, expiries, phase, woken>>
allVars == <<vars, ttlVars>>

Phases == {"asleep", "drain", "pop"}

TtlInit ==
    /\ Init
    /\ channel = <<>>
    /\ inbox = <<>>
    /\ expiries = [e \in {} |-> NoKey]
    /\ phase = "asleep"
    /\ woken = 0

-----------------------------------------------------------------------------
(***************************************************************************)
(* Clients: the calls of CacheStore, with the channel behind broadcast.    *)
(***************************************************************************)

Pending == {event[c] : c \in Clients} \cup Range(channel) \cup Range(inbox)

\* The instant e occurs somewhere: stored, about to be stored, tracked or sent.
InUse(e) ==
    \/ e \in DOMAIN expiries
    \/ \E h \in HashedKeys : ExpiryOf(objects[h]) = e
    \/ \E p \in Procs : ExpiryOf(arg[p]) = e
    \/ \E ev \in Pending \ {NoEvent} : ev.removed = e \/ ev.inserted = e

\* Instants have nanosecond resolution; DistinctInstants says that no two stamps
\* coincide.  Without it two keys may expire at one instant.
MayStamp(ttl) == DistinctInstants /\ ttl # 0 => ~InUse(ExpiryFromTtl(ttl))

\* The channels are unbounded; the bound is on starting calls, so that it never
\* holds up a broadcast, which ttl performs with a shard locked.
MayBegin ==
    Len(channel) + Len(inbox) + Cardinality({c \in Clients : pc[c] # "idle"}) < QueueBound

ClientBegins(c) ==
    /\ MayBegin
    /\ \/ \E k \in Keys : Get(c, k) \/ Del(c, k)
       \/ \E k \in Keys, s \in ObjectSizes, ttl \in Ttls :
              MayStamp(ttl) /\ SetCheck(c, k, s, ttl)
       \/ \E k \in Keys, ttl \in Ttls : MayStamp(ttl) /\ Ttl(c, k, ttl)
       \/ c \in Wipers /\ WipeStart(c)
       \/ \E size \in CacheSizes : ResizeCheck(c, size)
    /\ UNCHANGED ttlVars

ClientGoesOn(c) == CallMiddle(c) /\ UNCHANGED ttlVars

ClientBroadcasts(c) ==
    /\ Broadcast(c)
    /\ channel' = Append(channel, event[c])
    /\ UNCHANGED <<inbox, expiries, phase, woken>>

-----------------------------------------------------------------------------
(***************************************************************************)
(* The worker manager's loop: receive one event, pass it on.               *)
(***************************************************************************)

Forward ==
    /\ channel # <<>>
    /\ inbox' = Append(inbox, Head(channel))
    /\ channel' = Tail(channel)
    /\ UNCHANGED <<vars, expiries, phase, woken>>

-----------------------------------------------------------------------------
(***************************************************************************)
(* The TTL worker                                                          *)
(***************************************************************************)

\* Expiries::remove: only if the instant is still this key's.
Forget(map, h, e) ==
    IF e # NoExpiry /\ e \in DOMAIN map /\ map[e] = h
    THEN Restrict(map, DOMAIN map \ {e})
    ELSE map

\* Faulty variant of Track: None is inserted like an instant.
TrackAlways(map, h, e) == [x \in DOMAIN map \cup {e} |-> IF x = e THEN h ELSE map[x]]

\* Expiries::insert: a BTreeMap holds one key per instant, the last inserted.
Track(map, h, e) ==
    IF e = NoExpiry THEN map
    ELSE [x \in DOMAIN map \cup {e} |-> IF x = e THEN h ELSE map[x]]

\* Faulty variant of Handle: Ttl events are not handled.
HandleWithoutTtl(map, ev) ==
    CASE ev.kind \in {"Set", "Del"} ->
            Track(Forget(map, ev.key, ev.removed), ev.key, ev.inserted)
      [] ev.kind = "Wipe" -> [e \in {} |-> NoKey]
      [] OTHER -> map

\* Faulty variant of Handle: whatever is tracked for the key is forgotten.
HandleByKey(map, ev) ==
    CASE ev.kind \in {"Set", "Del", "Ttl"} ->
            Track(Restrict(map, {e \in DOMAIN map : map[e] # ev.key}), ev.key, ev.inserted)
      [] ev.kind = "Wipe" -> [e \in {} |-> NoKey]
      [] OTHER -> map

\* Set, Del and Ttl events differ only in which of the two expiries they carry.
Handle(map, ev) ==
    CASE ev.kind \in {"Set", "Del", "Ttl"} ->
            Track(Forget(map, ev.key, ev.removed), ev.key, ev.inserted)
      [] ev.kind = "Wipe" -> [e \in {} |-> NoKey]
      [] OTHER -> map

WakeUp(w) ==
    /\ phase = "asleep"
    /\ phase' = "drain"
    /\ woken' = now
    /\ UNCHANGED <<vars, channel, inbox, expiries>>

\* One iteration of `for event in self.listener.try_iter()`.
Receive(w) ==
    /\ phase = "drain"
    /\ inbox # <<>>
    /\ expiries' = Handle(expiries, Head(inbox))
    /\ inbox' = Tail(inbox)
    /\ UNCHANGED <<vars, channel, phase, woken>>

Drained(w) ==
    /\ phase = "drain"
    /\ inbox = <<>>
    /\ phase' = "pop"
    /\ UNCHANGED <<vars, channel, inbox, expiries, woken>>

\* The instants `now` has reached, as seen when the worker woke up.
Due == {e \in DOMAIN expiries : e <= woken}

\* Faulty variant of PopExpired: the object is removed without erase's bookkeeping.
PopExpiredRemoving(w) ==
    /\ phase = "pop"
    /\ \E e \in Due :
           /\ \A d \in Due : e <= d
           /\ expiries' = Restrict(expiries, DOMAIN expiries \ {e})
           /\ objects' = [objects EXCEPT ![expiries[e]] = NoObject]
    /\ UNCHANGED <<base_used_size, num_objects, max_size, now, pc, arg, credit, debit,
                   event, target, seen, limit, remaining, channel, inbox, phase, woken>>

\* pop_expired takes the earliest instant, and erase goes by the hashed key alone.
PopExpired(w) ==
    /\ phase = "pop"
    /\ \E e \in Due :
           /\ \A d \in Due : e <= d
           /\ expiries' = Restrict(expiries, DOMAIN expiries \ {e})
           /\ TtlWorkerPop(w, expiries[e])
    /\ UNCHANGED <<channel, inbox, phase, woken>>

Erase(w) == EraseStep(w) /\ UNCHANGED ttlVars

GoToSleep(w) ==
    /\ phase = "pop"
    /\ pc[w] = "idle"
    /\ Due = {}
    /\ phase' = "asleep"
    /\ woken' = 0
    /\ UNCHANGED <<vars, channel, inbox, expiries>>

TtlWorkerStep(w) ==
    \/ WakeUp(w) \/ Receive(w) \/ Drained(w) \/ PopExpired(w) \/ Erase(w) \/ GoToSleep(w)

-----------------------------------------------------------------------------

TtlNext ==
    \/ \E c \in Clients : ClientBegins(c) \/ ClientGoesOn(c) \/ ClientBroadcasts(c)
    \/ Forward
    \/ \E w \in TtlWorkers : TtlWorkerStep(w)
    \/ \E p \in PolicyWorkers : PolicyWorkerStep(p) /\ UNCHANGED ttlVars
    \/ Tick /\ UNCHANGED ttlVars

TtlSpec == TtlInit /\ [][TtlNext]_allVars

\* Threads are scheduled: a call goes on, the manager forwards, the TTL worker
\* loops (its sleeps are bounded), the policy worker finishes its evictions.
TtlFairness ==
    /\ \A c \in Clients : WF_allVars(ClientGoesOn(c) \/ ClientBroadcasts(c))
    /\ WF_allVars(Forward)
    /\ \A w \in TtlWorkers : WF_allVars(TtlWorkerStep(w))
    /\ \A p \in PolicyWorkers : WF_allVars(PolicyWorkerStep(p) /\ UNCHANGED ttlVars)

FairTtlSpec == TtlSpec /\ TtlFairness

-----------------------------------------------------------------------------
(***************************************************************************)
(* Properties                                                              *)
(***************************************************************************)

\* Types of what this module adds to CacheStore.
TtlTypeOK ==
    /\ channel \in Seq(Events) /\ inbox \in Seq(Events)
    /\ DOMAIN expiries \subseteq Nat \ {NoExpiry}
    /\ \A e \in DOMAIN expiries : expiries[e] \in HashedKeys
    /\ phase \in Phases
    /\ woken \in Nat

\* An event that will make the worker track instant e for h is under way.
Announced(h, e) == \E ev \in Pending \ {NoEvent} : ev.key = h /\ ev.inserted = e

\* The worker has popped h and has not erased its object yet.
BeingErased(h) == \E w \in TtlWorkers : pc[w] = "erase" /\ target[w] = h

\* However the events of racing calls are reordered, an object that is to expire is
\* never lost sight of: its instant is tracked, announced, or just popped (lib.rs
\* set and ttl, worker/ttl/mod.rs).  Needs distinct instants and no wipe.
NoLostExpiry ==
    \A h \in HashedKeys :
        ExpiryOf(objects[h]) # NoExpiry =>
            LET e == ExpiryOf(objects[h])
            IN  \/ e \in DOMAIN expiries /\ expiries[e] = h
                \/ Announced(h, e)
                \/ BeingErased(h)

\* An expired object does not stay in memory, provided that the worker ever gets
\* to its pops: its drain loop has no bound, so clients that send faster than it
\* receives keep it there (worker/ttl/mod.rs, try_iter).
ExpiredIsErased ==
    []<>(phase = "pop") =>
        \A h \in HashedKeys :
            (objects[h] # NoObject /\ IsExpired(objects[h]))
                ~> (objects[h] = NoObject \/ ~IsExpired(objects[h]))

\* All calls have returned and the worker has handled all they sent.
Settled == ClientsIdle /\ channel = <<>> /\ inbox = <<>>

\* With nothing under way, the TTL worker pops only keys whose object has expired
\* ("value will not expire" and "will expire in 5 seconds", lib.rs ttl).
NoPrematurePop ==
    [][\A w \in TtlWorkers : PopExpired(w) /\ Settled =>
           \A h \in {target'[w]} : objects[h] = NoObject \/ IsExpired(objects[h])]_allVars

=============================================================================
