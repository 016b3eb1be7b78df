--------------------------- MODULE TtlReapingProofs ---------------------------
(***************************************************************************)
(* TtlReaping implements CacheStore, for any keys, hash function, clients  *)
(* and bounds, and so inherits what CacheStoreProofs proves; and its TTL   *)
(* worker never loses sight of an object that is to expire.                *)
(***************************************************************************)
EXTENDS TtlReaping, CacheStoreProofs

\* The events whose instant, if they announce one, is announced for a hashed key.
Keyed == {ev \in Events : ev.inserted # NoExpiry => ev.key \in HashedKeys}

\* A call that is about to send has an event, and that event is keyed.
EventsKeyed ==
    \A p \in Procs :
        /\ event[p] # NoEvent => event[p] \in Keyed
        /\ pc[p] \in {"incr", "base", "send"} => event[p] # NoEvent

\* An event that announces nothing, or for a hashed key, is keyed and none.
LEMMA KeyedEvent ==
    ASSUME NEW kind \in EventKinds, NEW h \in HashedKeys \cup {NoKey},
           NEW removed \in Nat, NEW inserted \in Nat,
           inserted = NoExpiry \/ h \in HashedKeys
    PROVE  /\ Event(kind, h, removed, inserted) \in Keyed
           /\ Event(kind, h, removed, inserted) # NoEvent
<1>1. Event(kind, h, removed, inserted) \in Events
    BY EventType
<1>2. Event(kind, h, removed, inserted).inserted = inserted
      /\ Event(kind, h, removed, inserted).key = h
    BY DEF Event
<1> QED
    BY <1>1, <1>2, SentinelAssumption DEF Keyed

\* Where one thread's event becomes a keyed one, or nothing is said of it any more.
LEMMA EventChange ==
    ASSUME TypeOK, EventsKeyed, NEW p \in Procs, NEW ev, NEW label,
           event' = [event EXCEPT ![p] = ev], pc' = [pc EXCEPT ![p] = label],
           ev # NoEvent => ev \in Keyed,
           label \in {"incr", "base", "send"} => ev # NoEvent
    PROVE  EventsKeyed'
  BY DEF TypeOK, EventsKeyed

\* Where the events stay, and no thread comes to a label that needs one.
LEMMA EventsStay ==
    ASSUME TypeOK, EventsKeyed, NEW p \in Procs, NEW label,
           event' = event, pc' = [pc EXCEPT ![p] = label],
           label \in {"incr", "base", "send"} => pc[p] \in {"incr", "base", "send"}
    PROVE  EventsKeyed'
  BY DEF TypeOK, EventsKeyed

LEMMA EventsKeyedInit == Init => EventsKeyed
  BY DEF Init, EventsKeyed

\* Every step of CacheStore keeps the events keyed.
LEMMA EventsKeyedStep == Typed /\ EventsKeyed /\ [Next]_vars => EventsKeyed'
<1> SUFFICES ASSUME TypeOK, LocalsAgree, EventsKeyed, [Next]_vars PROVE EventsKeyed'
    BY DEF Typed
<1> USE DEF Goto
<1>0. /\ Clients \subseteq Procs /\ TtlWorkers \subseteq Procs /\ PolicyWorkers \subseteq Procs
      /\ NoExpiry \in Nat
    BY DEF Procs, NoExpiry
<1>1. ASSUME NEW c \in Clients, NEW k \in Keys, Get(c, k) PROVE EventsKeyed'
  <2>1. HashOf[k] \in HashedKeys
    BY HashAssumption
  <2>2. /\ Event("Get", HashOf[k], NoExpiry, NoExpiry) \in Keyed
        /\ Event("Get", HashOf[k], NoExpiry, NoExpiry) # NoEvent
    BY <2>1, <1>0, KeyedEvent DEF EventKinds
  <2> QED
    BY <1>0, <1>1, <2>2, EventChange DEF Get
<1>2. ASSUME NEW c \in Clients, NEW k \in Keys, NEW s \in ObjectSizes, NEW ttl \in Ttls,
             SetCheck(c, k, s, ttl)
      PROVE  EventsKeyed'
  <2>1. pc' = [pc EXCEPT ![c] = "insert"] /\ event' = event
    BY <1>2 DEF SetCheck
  <2> QED
    BY <1>0, <2>1, EventsStay
<1>3. ASSUME NEW c \in Clients, SetInsert(c) PROVE EventsKeyed'
  <2> DEFINE h == HashOf[arg[c].key]
  <2>1. arg[c] \in Objects
    BY <1>3 DEF SetInsert, TypeOK, LocalsAgree, Procs
  <2>2. h \in HashedKeys /\ arg[c].expiry \in Nat
    BY <2>1, ObjectFields
  <2>3. objects[h] \in Objects \cup {NoObject}
    BY <2>2 DEF TypeOK
  <2>4. ExpiryOf(objects[h]) \in Nat
    BY <2>3, ObjectFields DEF ExpiryOf, NoExpiry
  <2>5. /\ Event("Set", h, ExpiryOf(objects[h]), arg[c].expiry) \in Keyed
        /\ Event("Set", h, ExpiryOf(objects[h]), arg[c].expiry) # NoEvent
    BY <2>2, <2>4, KeyedEvent DEF EventKinds
  <2>6. /\ event' = [event EXCEPT ![c] = Event("Set", h, ExpiryOf(objects[h]), arg[c].expiry)]
        /\ pc' = [pc EXCEPT ![c] = IF objects[h] = NoObject THEN "incr" ELSE "base"]
    BY <1>3 DEF SetInsert
  <2> QED
    BY <1>0, <2>5, <2>6, EventChange
<1>4. ASSUME NEW c \in Clients, IncrNumObjects(c) PROVE EventsKeyed'
  <2>1. pc[c] = "incr" /\ pc' = [pc EXCEPT ![c] = "base"] /\ event' = event
    BY <1>4 DEF IncrNumObjects
  <2> QED
    BY <1>0, <2>1, EventsStay
<1>5. ASSUME NEW p \in Procs, UpdateBaseUsedSize(p) PROVE EventsKeyed'
  <2>1. /\ pc' = [pc EXCEPT ![p] = IF pc[p] = "base" THEN "send" ELSE "decr"]
        /\ event' = event
    BY <1>5 DEF UpdateBaseUsedSize
  <2> QED
    BY <2>1, EventsStay
<1>6. ASSUME NEW c \in Clients, Broadcast(c) PROVE EventsKeyed'
  <2>1. event' = [event EXCEPT ![c] = NoEvent] /\ pc' = [pc EXCEPT ![c] = "idle"]
    BY <1>6 DEF Broadcast
  <2> QED
    BY <1>0, <2>1, EventChange
<1>7. ASSUME NEW c \in Clients, NEW k \in Keys, NEW ttl \in Ttls, Ttl(c, k, ttl)
      PROVE  EventsKeyed'
  <2> DEFINE h   == HashOf[k]
             new == [objects[h] EXCEPT !.expiry = ExpiryFromTtl(ttl)]
  <2>1. h \in HashedKeys
    BY HashAssumption
  <2>2. objects[h] \in Objects
    BY <1>7, <2>1 DEF Ttl, Visible, TypeOK
  <2>3. objects[h].expiry \in Nat /\ new.expiry \in Nat
    BY <2>2, ExpiryType DEF Objects, TypeOK
  <2>4. /\ Event("Ttl", h, objects[h].expiry, new.expiry) \in Keyed
        /\ Event("Ttl", h, objects[h].expiry, new.expiry) # NoEvent
    BY <2>1, <2>3, KeyedEvent DEF EventKinds
  <2>5. /\ event' = [event EXCEPT ![c] = Event("Ttl", h, objects[h].expiry, new.expiry)]
        /\ pc' = [pc EXCEPT ![c] = "base"]
    BY <1>7 DEF Ttl
  <2> HIDE DEF new
  <2> QED
    BY <1>0, <2>4, <2>5, EventChange
<1>8. ASSUME NEW c \in Clients, NEW k \in Keys, Del(c, k) PROVE EventsKeyed'
  <2>1. pc' = [pc EXCEPT ![c] = "erase_base"] /\ event' = event
    BY <1>8 DEF Del, TakeEntry
  <2> QED
    BY <1>0, <2>1, EventsStay
<1>9. ASSUME NEW p \in Procs, EraseHashed(p) PROVE EventsKeyed'
  <2>1. pc' = [pc EXCEPT ![p] = "erase_base"] /\ event' = event
    BY <1>9 DEF EraseHashed, TakeEntry
  <2> QED
    BY <2>1, EventsStay
<1>10. ASSUME NEW p \in Procs, EraseAbsent(p) PROVE EventsKeyed'
  <2>1. pc' = [pc EXCEPT ![p] = Resume(p)] /\ event' = event
    BY <1>10 DEF EraseAbsent
  <2>2. Resume(p) \in {"idle", "load_base"}
    BY DEF Resume
  <2> QED
    BY <2>1, <2>2, EventsStay
<1>11. ASSUME NEW p \in Procs, DecrNumObjects(p) PROVE EventsKeyed'
  <2> DEFINE ev == Event("Del", HashOf[arg[p].key], arg[p].expiry, NoExpiry)
  <2>1. arg[p] \in Objects
    BY <1>11 DEF DecrNumObjects, TypeOK, LocalsAgree
  <2>2. ev \in Keyed /\ ev # NoEvent
    BY <2>1, <1>0, ObjectFields, KeyedEvent DEF EventKinds
  <2>3. Resume(p) \in {"idle", "load_base"}
    BY DEF Resume
  <2>4. CASE p \in Clients /\ ~IsExpired(arg[p])
    <3>1. event' = [event EXCEPT ![p] = ev] /\ pc' = [pc EXCEPT ![p] = "send"]
        BY <1>11, <2>4 DEF DecrNumObjects
    <3> HIDE DEF ev
    <3> QED
        BY <3>1, <2>2, EventChange
  <2>5. CASE ~(p \in Clients /\ ~IsExpired(arg[p]))
    <3>1. event' = event /\ pc' = [pc EXCEPT ![p] = Resume(p)]
        BY <1>11, <2>5 DEF DecrNumObjects
    <3> QED
        BY <3>1, <2>3, EventsStay
  <2> QED
    BY <2>4, <2>5
<1>12. ASSUME NEW c \in Clients, WipeStart(c) PROVE EventsKeyed'
  <2>1. pc' = [pc EXCEPT ![c] = "clear"] /\ event' = event
    BY <1>12 DEF WipeStart
  <2> QED
    BY <1>0, <2>1, EventsStay
<1>13. ASSUME NEW c \in Clients, WipeShard(c) PROVE EventsKeyed'
  <2>1. /\ event' = event
        /\ \/ pc' = [pc EXCEPT ![c] = "zero_base"]
           \/ pc' = [pc EXCEPT ![c] = "clear"]
    BY <1>13 DEF WipeShard
  <2> QED
    BY <1>0, <2>1, EventsStay
<1>14. ASSUME NEW c \in Clients, ZeroBaseUsedSize(c) PROVE EventsKeyed'
  <2>1. pc' = [pc EXCEPT ![c] = "zero_num"] /\ event' = event
    BY <1>14 DEF ZeroBaseUsedSize
  <2> QED
    BY <1>0, <2>1, EventsStay
<1>15. ASSUME NEW c \in Clients, ZeroNumObjects(c) PROVE EventsKeyed'
  <2>1. /\ Event("Wipe", NoKey, NoExpiry, NoExpiry) \in Keyed
        /\ Event("Wipe", NoKey, NoExpiry, NoExpiry) # NoEvent
    BY <1>0, KeyedEvent DEF EventKinds
  <2> QED
    BY <1>0, <1>15, <2>1, EventChange DEF ZeroNumObjects
<1>16. ASSUME NEW c \in Clients, NEW size \in CacheSizes, ResizeCheck(c, size) PROVE EventsKeyed'
  <2>1. pc' = [pc EXCEPT ![c] = "resize"] /\ event' = event
    BY <1>16 DEF ResizeCheck
  <2> QED
    BY <1>0, <2>1, EventsStay
<1>17. ASSUME NEW c \in Clients, ResizeStore(c) PROVE EventsKeyed'
  <2>1. /\ Event("Resize", NoKey, NoExpiry, NoExpiry) \in Keyed
        /\ Event("Resize", NoKey, NoExpiry, NoExpiry) # NoEvent
    BY <1>0, KeyedEvent DEF EventKinds
  <2> QED
    BY <1>0, <1>17, <2>1, EventChange DEF ResizeStore
<1>18. ASSUME NEW p \in TtlWorkers, NEW h \in HashedKeys, TtlWorkerPop(p, h) PROVE EventsKeyed'
  <2>1. pc' = [pc EXCEPT ![p] = "erase"] /\ event' = event
    BY <1>18 DEF TtlWorkerPop
  <2> QED
    BY <1>0, <2>1, EventsStay
<1>19. ASSUME NEW p \in PolicyWorkers,
              EvictStart(p) \/ EvictLoadBase(p) \/ EvictLoadNum(p) \/ EvictFromStack(p)
                \/ EvictAny(p) \/ EvictNothing(p)
       PROVE  EventsKeyed'
  <2>1. /\ event' = event
        /\ \E label \in {"idle", "load_base", "load_num", "evict", "erase"} :
               pc' = [pc EXCEPT ![p] = label]
    BY <1>19 DEF EvictStart, EvictLoadBase, EvictLoadNum, EvictFromStack, EvictAny, EvictNothing
  <2> QED
    BY <1>0, <2>1, EventsStay
<1>20. ASSUME NEW p \in Procs, EraseStep(p) PROVE EventsKeyed'
    BY <1>5, <1>9, <1>10, <1>11, <1>20 DEF EraseStep
<1>21. ASSUME NEW c \in Clients, CallBegin(c) PROVE EventsKeyed'
    BY <1>1, <1>2, <1>7, <1>8, <1>12, <1>16, <1>21 DEF CallBegin
<1>22. ASSUME NEW c \in Clients, CallStep(c) PROVE EventsKeyed'
    BY <1>0, <1>3, <1>4, <1>5, <1>6, <1>11, <1>13, <1>14, <1>15, <1>17, <1>22
    DEF CallStep, CallMiddle
<1>23. ASSUME NEW p \in PolicyWorkers, PolicyWorkerStep(p) PROVE EventsKeyed'
    BY <1>0, <1>19, <1>20, <1>23 DEF PolicyWorkerStep
<1>24. ASSUME Tick \/ UNCHANGED vars PROVE EventsKeyed'
    BY <1>24 DEF Tick, vars, EventsKeyed
<1> QED
    BY <1>0, <1>18, <1>20, <1>21, <1>22, <1>23, <1>24 DEF Next

-----------------------------------------------------------------------------
(***************************************************************************)
(* The worker's map                                                        *)
(***************************************************************************)

\* A map the TTL worker may hold: instants that are not None, to hashed keys.
ExpiryMap(map) ==
    /\ DOMAIN map \subseteq Nat \ {NoExpiry}
    /\ \A e \in DOMAIN map : map[e] \in HashedKeys

LEMMA RestrictKeepsMap ==
    ASSUME NEW map, ExpiryMap(map), NEW S, S \subseteq DOMAIN map
    PROVE  ExpiryMap(Restrict(map, S))
<1>1. DOMAIN Restrict(map, S) = S /\ \A e \in S : Restrict(map, S)[e] = map[e]
    BY DEF Restrict
<1> HIDE DEF Restrict
<1> QED
    BY <1>1 DEF ExpiryMap

LEMMA ForgetKeepsMap ==
    ASSUME NEW map, ExpiryMap(map), NEW h, NEW e
    PROVE  ExpiryMap(Forget(map, h, e))
<1>1. DOMAIN map \ {e} \subseteq DOMAIN map
    OBVIOUS
<1>2. ExpiryMap(Restrict(map, DOMAIN map \ {e}))
    BY <1>1, RestrictKeepsMap
<1> QED
    BY <1>2 DEF Forget

LEMMA TrackKeepsMap ==
    ASSUME NEW map, ExpiryMap(map), NEW h, NEW e \in Nat, e = NoExpiry \/ h \in HashedKeys
    PROVE  ExpiryMap(Track(map, h, e))
<1>1. CASE e = NoExpiry
    BY <1>1 DEF Track
<1>2. CASE e # NoExpiry
  <2>1. Track(map, h, e) = [x \in DOMAIN map \cup {e} |-> IF x = e THEN h ELSE map[x]]
    BY <1>2 DEF Track
  <2>2. DOMAIN Track(map, h, e) = DOMAIN map \cup {e}
    BY <2>1
  <2>3. \A x \in DOMAIN map \cup {e} : Track(map, h, e)[x] = IF x = e THEN h ELSE map[x]
    BY <2>1
  <2>4. h \in HashedKeys
    BY <1>2
  <2> QED
    BY <1>2, <2>2, <2>3, <2>4 DEF ExpiryMap
<1> QED
    BY <1>1, <1>2

\* No event makes the worker track what is not a hashed key.
LEMMA HandleKeepsMap ==
    ASSUME NEW map, ExpiryMap(map), NEW ev \in Keyed
    PROVE  ExpiryMap(Handle(map, ev))
<1>1. ev.inserted \in Nat /\ (ev.inserted = NoExpiry \/ ev.key \in HashedKeys)
    BY DEF Keyed, Events
<1>2. CASE ev.kind \in {"Set", "Del", "Ttl"}
  <2>1. Handle(map, ev) = Track(Forget(map, ev.key, ev.removed), ev.key, ev.inserted)
    BY <1>2 DEF Handle
  <2> QED
    BY <1>1, <2>1, ForgetKeepsMap, TrackKeepsMap
<1>3. CASE ev.kind = "Wipe"
  <2>1. Handle(map, ev) = [e \in {} |-> NoKey]
    BY <1>3 DEF Handle
  <2> QED
    BY <2>1 DEF ExpiryMap
<1>4. CASE ev.kind \notin {"Set", "Del", "Ttl", "Wipe"}
  <2>1. Handle(map, ev) = map
    BY <1>4 DEF Handle
  <2> QED
    BY <2>1
<1> QED
    BY <1>2, <1>3, <1>4

-----------------------------------------------------------------------------
(***************************************************************************)
(* The refinement                                                          *)
(***************************************************************************)

\* What the two channels carry and the worker tracks is keyed as well.
TtlInv ==
    /\ Typed
    /\ EventsKeyed
    /\ channel \in Seq(Keyed) /\ inbox \in Seq(Keyed)
    /\ ExpiryMap(expiries)
    /\ phase \in Phases
    /\ woken \in Nat

\* A step of this module is a step of CacheStore, or none: the hashed key that the
\* TTL worker pops is one of those CacheStore leaves it free to erase.
LEMMA TtlStepRefines == TtlInv /\ [TtlNext]_allVars => [Next]_vars
<1> SUFFICES ASSUME ExpiryMap(expiries), [TtlNext]_allVars PROVE [Next]_vars
    BY DEF TtlInv
<1>1. ASSUME NEW c \in Clients, ClientBegins(c) PROVE CallBegin(c)
    BY <1>1 DEF ClientBegins, CallBegin
<1>2. ASSUME NEW c \in Clients, ClientGoesOn(c) \/ ClientBroadcasts(c) PROVE CallStep(c)
    BY <1>2 DEF ClientGoesOn, ClientBroadcasts, CallStep
<1>3. ASSUME Forward PROVE UNCHANGED vars
    BY <1>3 DEF Forward
<1>4. ASSUME NEW w \in TtlWorkers, TtlWorkerStep(w) PROVE [Next]_vars
  <2>1. ASSUME WakeUp(w) \/ Receive(w) \/ Drained(w) \/ GoToSleep(w) PROVE UNCHANGED vars
    BY <2>1 DEF WakeUp, Receive, Drained, GoToSleep
  <2>2. ASSUME PopExpired(w) PROVE \E h \in HashedKeys : TtlWorkerPop(w, h)
    <3>1. PICK e \in DOMAIN expiries : TtlWorkerPop(w, expiries[e])
        BY <2>2 DEF PopExpired, Due
    <3>2. expiries[e] \in HashedKeys
        BY DEF ExpiryMap
    <3> QED
        BY <3>1, <3>2
  <2>3. ASSUME Erase(w) PROVE EraseStep(w)
    BY <2>3 DEF Erase
  <2> QED
    BY <1>4, <2>1, <2>2, <2>3 DEF TtlWorkerStep, Next
<1>5. ASSUME UNCHANGED allVars PROVE UNCHANGED vars
    BY <1>5 DEF allVars
<1> QED
    BY <1>1, <1>2, <1>3, <1>4, <1>5 DEF TtlNext, Next

LEMMA TtlInvInit == TtlInit => TtlInv
<1> SUFFICES ASSUME TtlInit PROVE TtlInv
    OBVIOUS
<1>1. Typed /\ EventsKeyed
    BY TypedInit, EventsKeyedInit DEF TtlInit
<1>2. channel \in Seq(Keyed) /\ inbox \in Seq(Keyed)
    BY DEF TtlInit
<1>3. ExpiryMap(expiries) /\ phase \in Phases /\ woken \in Nat
    BY DEF TtlInit, ExpiryMap, Phases
<1> QED
    BY <1>1, <1>2, <1>3 DEF TtlInv

LEMMA TtlInvStep == TtlInv /\ [TtlNext]_allVars => TtlInv'
<1> SUFFICES ASSUME TtlInv, [TtlNext]_allVars PROVE TtlInv'
    OBVIOUS
<1>1. Typed' /\ EventsKeyed'
    BY TtlStepRefines, TypedStep, EventsKeyedStep DEF TtlInv
<1> DEFINE Rest == /\ channel \in Seq(Keyed) /\ inbox \in Seq(Keyed)
                   /\ ExpiryMap(expiries) /\ phase \in Phases /\ woken \in Nat
<1>2. Rest /\ now \in Nat
    BY DEF TtlInv, Typed, TypeOK
<1>3. ASSUME UNCHANGED ttlVars PROVE Rest'
    BY <1>2, <1>3 DEF ttlVars, ExpiryMap
<1>4. ASSUME NEW c \in Clients, ClientBroadcasts(c) PROVE Rest'
  <2>1. event[c] \in Keyed
    BY <1>4 DEF ClientBroadcasts, Broadcast, TtlInv, EventsKeyed, Procs
  <2>2. channel' \in Seq(Keyed)
    BY <1>2, <1>4, <2>1 DEF ClientBroadcasts
  <2> QED
    BY <1>2, <1>4, <2>2 DEF ClientBroadcasts, ExpiryMap
<1>5. ASSUME Forward PROVE Rest'
  <2>1. channel \in Seq(Keyed) /\ channel # <<>>
    BY <1>2, <1>5 DEF Forward
  <2>2. Head(channel) \in Keyed /\ Tail(channel) \in Seq(Keyed)
    BY <2>1
  <2>3. inbox' \in Seq(Keyed) /\ channel' \in Seq(Keyed)
    BY <1>2, <1>5, <2>2 DEF Forward
  <2> QED
    BY <1>2, <1>5, <2>3 DEF Forward, ExpiryMap
<1>6. ASSUME NEW w \in TtlWorkers, TtlWorkerStep(w) PROVE Rest'
  <2>1. ASSUME WakeUp(w) PROVE Rest'
    BY <1>2, <2>1 DEF WakeUp, Phases, ExpiryMap
  <2>2. ASSUME Receive(w) PROVE Rest'
    <3>1. inbox \in Seq(Keyed) /\ inbox # <<>>
        BY <1>2, <2>2 DEF Receive
    <3>2. Head(inbox) \in Keyed /\ Tail(inbox) \in Seq(Keyed)
        BY <3>1
    <3>3. ExpiryMap(Handle(expiries, Head(inbox)))
        BY <1>2, <3>2, HandleKeepsMap
    <3>4. /\ expiries' = Handle(expiries, Head(inbox))
          /\ inbox' = Tail(inbox)
          /\ channel' = channel /\ phase' = phase /\ woken' = woken
        BY <2>2 DEF Receive
    <3>5. ExpiryMap(expiries)'
        BY <3>3, <3>4 DEF ExpiryMap
    <3> QED
        BY <1>2, <3>2, <3>4, <3>5
  <2>3. ASSUME Drained(w) PROVE Rest'
    BY <1>2, <2>3 DEF Drained, Phases, ExpiryMap
  <2>4. ASSUME PopExpired(w) PROVE Rest'
    <3>1. PICK e \in DOMAIN expiries : expiries' = Restrict(expiries, DOMAIN expiries \ {e})
        BY <2>4 DEF PopExpired, Due
    <3>2. DOMAIN expiries \ {e} \subseteq DOMAIN expiries
        OBVIOUS
    <3>3. ExpiryMap(Restrict(expiries, DOMAIN expiries \ {e}))
        BY <1>2, <3>2, RestrictKeepsMap
    <3>4. ExpiryMap(expiries)'
        BY <3>1, <3>3 DEF ExpiryMap
    <3> QED
        BY <1>2, <2>4, <3>4 DEF PopExpired
  <2>5. ASSUME Erase(w) PROVE Rest'
    BY <1>3, <2>5 DEF Erase
  <2>6. ASSUME GoToSleep(w) PROVE Rest'
    BY <1>2, <2>6 DEF GoToSleep, Phases, ExpiryMap
  <2> QED
    BY <1>6, <2>1, <2>2, <2>3, <2>4, <2>5, <2>6 DEF TtlWorkerStep
<1>7. Rest'
    BY <1>3, <1>4, <1>5, <1>6
    DEF TtlNext, ClientBegins, ClientGoesOn, allVars, ttlVars
<1> QED
    BY <1>1, <1>7 DEF TtlInv

LEMMA TtlInvAlways == TtlSpec => []TtlInv
  BY TtlInvInit, TtlInvStep, PTL DEF TtlSpec

-----------------------------------------------------------------------------
(***************************************************************************)
(* No expiry is lost                                                       *)
(***************************************************************************)

\* The events under way.
Sent == Pending \ {NoEvent}

Stored(e) == \E h \in HashedKeys : ExpiryOf(objects[h]) = e

\* No two objects share an instant, ...
StoredOnce ==
    \A g, h \in HashedKeys :
        ExpiryOf(objects[g]) # NoExpiry /\ ExpiryOf(objects[g]) = ExpiryOf(objects[h])
            => g = h

\* ... the instant of an object that is to be inserted or was taken out is not
\* stored, ...
HeldApart ==
    \A p \in Procs : ExpiryOf(arg[p]) # NoExpiry => ~Stored(ExpiryOf(arg[p]))

\* ... that of one to be inserted is nowhere else either, ...
FreshFor(p, e) ==
    /\ \A q \in Procs \ {p} : ExpiryOf(arg[q]) # e
    /\ \A ev \in Sent : ev.removed # e /\ ev.inserted # e

InsertedFresh ==
    \A p \in Procs : pc[p] = "insert" /\ ExpiryOf(arg[p]) # NoExpiry
                        => FreshFor(p, ExpiryOf(arg[p]))

\* ... a removed instant does not come back, and an inserted one is only stored for
\* the key it was announced for, by an event that the TTL worker handles.
Agrees(ev) ==
    /\ ev.kind # "Wipe"
    /\ ev.removed # NoExpiry => ~Stored(ev.removed)
    /\ ev.inserted # NoExpiry =>
           /\ ev.kind \in {"Set", "Ttl"}
           /\ \A h \in HashedKeys : ExpiryOf(objects[h]) = ev.inserted => h = ev.key

SentAgrees == \A ev \in Sent : Agrees(ev)

\* A thread has an event only on its way to the broadcast.
EventsLate ==
    \A p \in Procs : pc[p] \notin {"incr", "base", "send"} => event[p] = NoEvent

Apart ==
    /\ StoredOnce /\ HeldApart /\ InsertedFresh /\ SentAgrees
    /\ EventsLate /\ NoWipe

-----------------------------------------------------------------------------

\* What a thread may say of instants beside removing the one it holds.
Modest(ev, e) ==
    /\ ev.kind # "Wipe"
    /\ ev.inserted = NoExpiry
    /\ ev.removed \in {NoExpiry, e}

\* Where the objects stay, and one thread at most drops the object it holds and
\* tells that it is gone.
LEMMA ObjectsStay ==
    ASSUME Apart, NEW p \in Procs, pc[p] # "insert", objects' = objects,
           \A q \in Procs \ {p} : pc'[q] = pc[q] /\ arg'[q] = arg[q] /\ event'[q] = event[q],
           pc'[p] \notin Wiping \cup {"insert"},
           ExpiryOf(arg'[p]) \in {NoExpiry, ExpiryOf(arg[p])},
           pc'[p] \in {"incr", "base", "send"} \/ event'[p] = NoEvent,
           \A ev \in Sent' : ev \in Sent \/ Modest(ev, ExpiryOf(arg[p]))
    PROVE  Apart'
<1> USE DEF Apart
<1>1. \A e : Stored(e)' <=> Stored(e)
    BY DEF Stored
<1>2. StoredOnce'
    BY DEF StoredOnce
<1>3. HeldApart'
    BY <1>1 DEF HeldApart
<1>4. InsertedFresh'
  <2> SUFFICES ASSUME NEW q \in Procs, pc'[q] = "insert", ExpiryOf(arg'[q]) # NoExpiry
               PROVE  FreshFor(q, ExpiryOf(arg[q]))'
    BY DEF InsertedFresh
  <2>1. q # p /\ pc[q] = "insert" /\ arg'[q] = arg[q]
    OBVIOUS
  <2>2. FreshFor(q, ExpiryOf(arg[q]))
    BY <2>1 DEF InsertedFresh
  <2>3. \A r \in Procs \ {q} : ExpiryOf(arg'[r]) # ExpiryOf(arg'[q])
    BY <2>1, <2>2 DEF FreshFor
  <2>4. ASSUME NEW ev \in Sent'
        PROVE  ev.removed # ExpiryOf(arg'[q]) /\ ev.inserted # ExpiryOf(arg'[q])
    BY <2>1, <2>2 DEF FreshFor, Modest
  <2> QED
    BY <2>3, <2>4 DEF FreshFor
<1>5. SentAgrees'
  <2> SUFFICES ASSUME NEW ev \in Sent' PROVE Agrees(ev)'
    BY DEF SentAgrees
  <2>1. CASE ev \in Sent
    BY <1>1, <2>1 DEF SentAgrees, Agrees
  <2>2. CASE Modest(ev, ExpiryOf(arg[p]))
    BY <1>1, <2>2 DEF Modest, Agrees, HeldApart
  <2> QED
    BY <2>1, <2>2
<1>6. EventsLate' /\ NoWipe'
    BY DEF EventsLate, NoWipe
<1> QED
    BY <1>2, <1>3, <1>4, <1>5, <1>6

\* Where an object is taken out of the map.
LEMMA ObjectTaken ==
    ASSUME TypeOK, Apart, NEW p \in Procs, NEW h \in HashedKeys, TakeEntry(p, h),
           pc[p] \notin {"incr", "base", "send"},
           event' = event, Sent' = Sent
    PROVE  Apart'
<1> USE DEF Apart
<1>1. /\ objects' = [objects EXCEPT ![h] = NoObject]
      /\ arg' = [arg EXCEPT ![p] = objects[h]]
      /\ pc' = [pc EXCEPT ![p] = "erase_base"]
    BY DEF TakeEntry, Goto
<1>2. /\ objects'[h] = NoObject /\ arg'[p] = objects[h] /\ pc'[p] = "erase_base"
      /\ \A g \in HashedKeys \ {h} : objects'[g] = objects[g]
      /\ \A q \in Procs \ {p} : arg'[q] = arg[q] /\ pc'[q] = pc[q]
    BY <1>1 DEF TypeOK
<1>3. ExpiryOf(NoObject) = NoExpiry
    BY DEF ExpiryOf
<1>4. \A e : e # NoExpiry => (Stored(e)' => Stored(e) /\ e # ExpiryOf(objects[h]))
    BY <1>2, <1>3 DEF Stored, StoredOnce
<1>5. StoredOnce'
    BY <1>2, <1>3 DEF StoredOnce
<1>6. HeldApart'
    BY <1>2, <1>4 DEF HeldApart
<1>7. InsertedFresh'
  <2> SUFFICES ASSUME NEW q \in Procs, pc'[q] = "insert", ExpiryOf(arg'[q]) # NoExpiry
               PROVE  FreshFor(q, ExpiryOf(arg[q]))'
    BY DEF InsertedFresh
  <2>1. q # p /\ pc[q] = "insert" /\ arg'[q] = arg[q]
    BY <1>2
  <2>2. FreshFor(q, ExpiryOf(arg[q])) /\ ~Stored(ExpiryOf(arg[q]))
    BY <2>1 DEF InsertedFresh, HeldApart
  <2>3. \A r \in Procs \ {q} : ExpiryOf(arg'[r]) # ExpiryOf(arg'[q])
    BY <1>2, <2>1, <2>2 DEF FreshFor, Stored
  <2> QED
    BY <2>1, <2>2, <2>3 DEF FreshFor
<1>8. SentAgrees'
    BY <1>2, <1>3, <1>4 DEF SentAgrees, Agrees
<1>9. EventsLate' /\ NoWipe'
    BY <1>2 DEF EventsLate, NoWipe, Wiping
<1> QED
    BY <1>5, <1>6, <1>7, <1>8, <1>9

\* An object is stored whose instant is nowhere else, and the event that tells so
\* is on its way.
Stores(p, h, o, ev) ==
    /\ pc[p] \in {"idle", "insert"} /\ pc'[p] \in {"incr", "base"}
    /\ objects' = [objects EXCEPT ![h] = o]
    /\ \A q \in Procs \ {p} : pc'[q] = pc[q] /\ arg'[q] = arg[q] /\ event'[q] = event[q]
    /\ ExpiryOf(arg'[p]) \in {NoExpiry, ExpiryOf(arg[p])}
    /\ \A e \in Sent' : e \in Sent \/ e = ev
    /\ ev.kind \in {"Set", "Ttl"} /\ ev.key = h
    /\ ev.removed = ExpiryOf(objects[h]) /\ ev.inserted = ExpiryOf(o)
    /\ ExpiryOf(o) # NoExpiry => /\ FreshFor(p, ExpiryOf(o)) /\ ~Stored(ExpiryOf(o))
                                 /\ ExpiryOf(arg'[p]) # ExpiryOf(o)

LEMMA ObjectStored ==
    ASSUME TypeOK, Apart, NEW p \in Procs, NEW h \in HashedKeys, NEW o, NEW ev,
           Stores(p, h, o, ev)
    PROVE  Apart'
<1> USE DEF Apart, Stores
<1>1. objects'[h] = o /\ \A g \in HashedKeys \ {h} : objects'[g] = objects[g]
    BY DEF TypeOK
<1>2. \A e : Stored(e)' => Stored(e) \/ e = ExpiryOf(o)
    BY <1>1 DEF Stored
<1>3. ASSUME NEW e, e # NoExpiry, e = ExpiryOf(objects[h])
      PROVE  ~Stored(e)'
    BY <1>1, <1>3 DEF Stored, StoredOnce
<1>4. StoredOnce'
    BY <1>1 DEF StoredOnce, Stored
<1>5. HeldApart'
    BY <1>2 DEF HeldApart, FreshFor
<1>6. InsertedFresh'
  <2> SUFFICES ASSUME NEW q \in Procs, pc'[q] = "insert", ExpiryOf(arg'[q]) # NoExpiry
               PROVE  FreshFor(q, ExpiryOf(arg[q]))'
    BY DEF InsertedFresh
  <2>1. q # p /\ pc[q] = "insert" /\ arg'[q] = arg[q]
    OBVIOUS
  <2>2. FreshFor(q, ExpiryOf(arg[q])) /\ ~Stored(ExpiryOf(arg[q]))
    BY <2>1 DEF InsertedFresh, HeldApart
  <2>3. \A r \in Procs \ {q} : ExpiryOf(arg'[r]) # ExpiryOf(arg'[q])
    BY <2>1, <2>2 DEF FreshFor
  <2>4. ExpiryOf(arg[q]) # ev.inserted
    BY <2>1 DEF FreshFor
  <2>5. ExpiryOf(arg[q]) # ev.removed
    BY <2>2 DEF Stored
  <2> QED
    BY <2>1, <2>2, <2>3, <2>4, <2>5 DEF FreshFor
<1>7. SentAgrees'
  <2> SUFFICES ASSUME NEW e \in Sent' PROVE Agrees(e)'
    BY DEF SentAgrees
  <2>1. CASE e = ev
    BY <1>1, <1>3, <2>1 DEF Agrees, Stored
  <2>2. CASE e \in Sent
    <3>1. Agrees(e)
        BY <2>2 DEF SentAgrees
    <3>2. e.removed # NoExpiry => ~Stored(e.removed)'
        BY <1>2, <2>2, <3>1 DEF Agrees, FreshFor
    <3>3. ASSUME e.inserted # NoExpiry, NEW g \in HashedKeys, ExpiryOf(objects'[g]) = e.inserted
          PROVE  g = e.key
        BY <1>1, <2>2, <3>1, <3>3 DEF Agrees, FreshFor
    <3> QED
        BY <3>1, <3>2, <3>3 DEF Agrees
  <2> QED
    BY <2>1, <2>2
<1>8. EventsLate' /\ NoWipe'
    BY DEF EventsLate, NoWipe, Wiping
<1> QED
    BY <1>4, <1>5, <1>6, <1>7, <1>8

-----------------------------------------------------------------------------
\* Which events are under way after a step of CacheStore by one thread.
LEMMA SentByOne ==
    ASSUME UNCHANGED <<channel, inbox>>, NEW p \in Procs,
           \A q \in Procs \ {p} : event'[q] = event[q]
    PROVE  /\ \A ev \in Sent' : ev \in Sent \/ ev = event'[p]
           /\ \A ev \in Sent : ev \in Sent' \/ ev = event[p]
  BY DEF Sent, Pending, Procs

LEMMA SentStays ==
    ASSUME UNCHANGED <<channel, inbox, event>>
    PROVE  Sent' = Sent
  BY DEF Sent, Pending

\* A call of a client that begins stamps an instant that is nowhere, or none.
LEMMA Stamped ==
    ASSUME DistinctInstants, NEW ttl, MayStamp(ttl), NEW p,
           ExpiryFromTtl(ttl) # NoExpiry
    PROVE  /\ FreshFor(p, ExpiryFromTtl(ttl))
           /\ ~Stored(ExpiryFromTtl(ttl))
           /\ \A q \in Procs : ExpiryOf(arg[q]) # ExpiryFromTtl(ttl)
<1>1. ttl # 0
    BY DEF ExpiryFromTtl
<1>2. ~InUse(ExpiryFromTtl(ttl))
    BY <1>1 DEF MayStamp
<1> QED
    BY <1>2 DEF InUse, FreshFor, Stored, Sent

\* ttl and set store an object that way.
LEMMA TtlStores ==
    ASSUME DistinctInstants, TypeOK, NEW c \in Clients, UNCHANGED <<channel, inbox>>,
           NEW k \in Keys, NEW ttl \in Ttls, MayStamp(ttl), Ttl(c, k, ttl)
    PROVE  /\ HashOf[k] \in HashedKeys
           /\ \E o, ev : Stores(c, HashOf[k], o, ev) /\ event'[c] = ev /\ ev # NoEvent
<1> DEFINE h == HashOf[k]
           new == [objects[h] EXCEPT !.expiry = ExpiryFromTtl(ttl)]
           ev == Event("Ttl", h, objects[h].expiry, new.expiry)
<1>1. h \in HashedKeys /\ c \in Procs
    BY HashAssumption DEF Procs
<1>2. objects[h] \in Objects
    BY <1>1 DEF Ttl, Visible, TypeOK
<1>3. ExpiryFromTtl(ttl) \in Nat
    BY ExpiryType DEF TypeOK
<1>4. new \in Objects /\ new.expiry = ExpiryFromTtl(ttl)
    BY <1>2, <1>3 DEF Objects
<1>5. ExpiryOf(new) = ExpiryFromTtl(ttl) /\ ExpiryOf(objects[h]) = objects[h].expiry
    BY <1>2, <1>4, SentinelAssumption DEF ExpiryOf
<1>6. /\ pc[c] = "idle" /\ pc'[c] = "base" /\ event'[c] = ev
      /\ objects' = [objects EXCEPT ![h] = new] /\ arg' = arg
      /\ \A q \in Procs \ {c} : pc'[q] = pc[q] /\ event'[q] = event[q]
    BY <1>1 DEF Ttl, Goto, TypeOK
<1>7. /\ ev.kind = "Ttl" /\ ev.key = h
      /\ ev.removed = ExpiryOf(objects[h]) /\ ev.inserted = ExpiryOf(new)
    BY <1>4, <1>5 DEF Event
<1>8. \A e \in Sent' : e \in Sent \/ e = ev
    BY <1>1, <1>6, SentByOne
<1>9. ev # NoEvent
    BY <1>1, <1>2, <1>3, <1>4, ObjectFields, KeyedEvent DEF EventKinds
<1> HIDE DEF ev, new, h
<1>10. ExpiryOf(new) # NoExpiry => /\ FreshFor(c, ExpiryOf(new)) /\ ~Stored(ExpiryOf(new))
                                   /\ ExpiryOf(arg'[c]) # ExpiryOf(new)
    BY <1>1, <1>5, <1>6, Stamped
<1>11. Stores(c, h, new, ev)
    BY <1>6, <1>7, <1>8, <1>10 DEF Stores
<1> QED
    BY <1>1, <1>6, <1>9, <1>11 DEF h

LEMMA SetStores ==
    ASSUME TypeOK, LocalsAgree, Apart, NEW c \in Clients, UNCHANGED <<channel, inbox>>,
           SetInsert(c)
    PROVE  \E h \in HashedKeys : \E o, ev :
               Stores(c, h, o, ev) /\ event'[c] = ev /\ ev # NoEvent
<1> DEFINE o == arg[c]
           h == HashOf[o.key]
           ev == Event("Set", h, ExpiryOf(objects[h]), o.expiry)
<1>0. c \in Procs
    BY DEF Procs
<1>1. /\ objects' = [objects EXCEPT ![h] = o] /\ event'[c] = ev
      /\ pc[c] = "insert" /\ arg'[c] = NoObject
      /\ pc'[c] = IF objects[h] = NoObject THEN "incr" ELSE "base"
      /\ \A q \in Procs \ {c} : pc'[q] = pc[q] /\ arg'[q] = arg[q] /\ event'[q] = event[q]
    BY <1>0 DEF SetInsert, Goto, TypeOK
<1>2. o \in Objects /\ o # NoObject
    BY <1>0, <1>1 DEF TypeOK, LocalsAgree
<1>3. h \in HashedKeys
    BY <1>2, ObjectFields
<1>4. ExpiryOf(o) = o.expiry /\ ExpiryOf(arg'[c]) = NoExpiry
    BY <1>1, <1>2 DEF ExpiryOf
<1>5. /\ ev.kind = "Set" /\ ev.key = h
      /\ ev.removed = ExpiryOf(objects[h]) /\ ev.inserted = ExpiryOf(o)
    BY <1>4 DEF Event
<1>6. \A e \in Sent' : e \in Sent \/ e = ev
    BY <1>0, <1>1, SentByOne
<1>7. ExpiryOf(o) # NoExpiry => FreshFor(c, ExpiryOf(o)) /\ ~Stored(ExpiryOf(o))
    BY <1>0, <1>1 DEF Apart, InsertedFresh, HeldApart
<1>8. pc'[c] \in {"incr", "base"}
    BY <1>1
<1>9. ev # NoEvent
  <2>1. objects[h] \in Objects \cup {NoObject}
    BY <1>3 DEF TypeOK
  <2>2. ExpiryOf(objects[h]) \in Nat /\ o.expiry \in Nat
    BY <1>2, <2>1, ObjectFields DEF ExpiryOf, NoExpiry
  <2> QED
    BY <1>3, <2>2, KeyedEvent DEF EventKinds
<1> HIDE DEF ev, h, o
<1>10. ExpiryOf(arg'[c]) # ExpiryOf(o) \/ ExpiryOf(o) = NoExpiry
    BY <1>4
<1>11. Stores(c, h, o, ev)
    BY <1>1, <1>4, <1>5, <1>6, <1>7, <1>8, <1>10 DEF Stores
<1> QED
    BY <1>1, <1>3, <1>9, <1>11

LEMMA ApartBegin ==
    ASSUME DistinctInstants, Wipers = {}, TypeOK, Apart, NEW c \in Clients, ClientBegins(c)
    PROVE  Apart'
<1> USE DEF Goto
<1>0. c \in Procs /\ UNCHANGED <<channel, inbox>>
    BY DEF Procs, ClientBegins, ttlVars
<1>1. ASSUME NEW k \in Keys, Get(c, k) PROVE Apart'
  <2>1. pc[c] = "idle" /\ pc'[c] = "send" /\ event'[c] = Event("Get", HashOf[k], NoExpiry, NoExpiry)
    BY <1>0, <1>1 DEF Get, TypeOK
  <2>2. /\ objects' = objects /\ arg' = arg
        /\ \A q \in Procs \ {c} : pc'[q] = pc[q] /\ event'[q] = event[q]
    BY <1>1 DEF Get, TypeOK
  <2>3. Modest(event'[c], ExpiryOf(arg[c]))
    BY <2>1 DEF Modest, Event
  <2> QED
    BY <1>0, <2>1, <2>2, <2>3, SentByOne, ObjectsStay DEF Wiping
<1>2. ASSUME NEW k \in Keys, Del(c, k) PROVE Apart'
  <2>1. HashOf[k] \in HashedKeys /\ TakeEntry(c, HashOf[k]) /\ pc[c] = "idle" /\ event' = event
    BY <1>2, HashAssumption DEF Del
  <2> QED
    BY <1>0, <2>1, SentStays, ObjectTaken
<1>3. ASSUME NEW k \in Keys, NEW s \in ObjectSizes, NEW ttl \in Ttls,
             MayStamp(ttl), SetCheck(c, k, s, ttl)
      PROVE  Apart'
  <2> DEFINE o == [key |-> k, size |-> s, expiry |-> ExpiryFromTtl(ttl)]
  <2>1. /\ arg'[c] = o /\ pc'[c] = "insert" /\ pc[c] = "idle"
        /\ objects' = objects /\ event' = event
        /\ \A q \in Procs \ {c} : pc'[q] = pc[q] /\ arg'[q] = arg[q]
    BY <1>0, <1>3 DEF SetCheck, TypeOK
  <2>2. Sent' = Sent
    BY <1>0, <2>1, SentStays
  <2>3. ExpiryOf(o) = ExpiryFromTtl(ttl)
    <3>1. ExpiryFromTtl(ttl) \in Nat
        BY ExpiryType DEF TypeOK
    <3>2. o # NoObject
        BY <3>1, SentinelAssumption DEF Objects
    <3> QED
        BY <3>2 DEF ExpiryOf
  <2> HIDE DEF o
  <2>4. ExpiryOf(o) # NoExpiry => /\ FreshFor(c, ExpiryOf(o)) /\ ~Stored(ExpiryOf(o))
                                  /\ \A q \in Procs : ExpiryOf(arg[q]) # ExpiryOf(o)
    BY <1>3, <2>3, Stamped
  <2>5. \A e : Stored(e)' <=> Stored(e)
    BY <2>1 DEF Stored
  <2>6. HeldApart'
    BY <2>1, <2>4, <2>5 DEF Apart, HeldApart
  <2>7. InsertedFresh'
    BY <2>1, <2>2, <2>4 DEF Apart, InsertedFresh, FreshFor
  <2>8. SentAgrees'
    BY <2>1, <2>2, <2>5 DEF Apart, SentAgrees, Agrees
  <2>9. StoredOnce' /\ EventsLate' /\ NoWipe'
    BY <2>1 DEF Apart, StoredOnce, EventsLate, NoWipe, Wiping
  <2> QED
    BY <2>6, <2>7, <2>8, <2>9 DEF Apart
<1>4. ASSUME NEW k \in Keys, NEW ttl \in Ttls, MayStamp(ttl), Ttl(c, k, ttl) PROVE Apart'
    BY <1>0, <1>4, TtlStores, HashAssumption, ObjectStored
<1>5. ASSUME NEW size \in CacheSizes, ResizeCheck(c, size) PROVE Apart'
  <2>1. /\ objects' = objects /\ arg' = arg /\ event' = event
        /\ pc[c] = "idle" /\ pc'[c] = "resize" /\ \A q \in Procs \ {c} : pc'[q] = pc[q]
    BY <1>0, <1>5 DEF ResizeCheck, TypeOK
  <2>2. Sent' = Sent /\ event[c] = NoEvent
    BY <1>0, <2>1, SentStays DEF Apart, EventsLate
  <2> QED
    BY <1>0, <2>1, <2>2, ObjectsStay DEF Wiping
<1> QED
    BY <1>1, <1>2, <1>3, <1>4, <1>5 DEF ClientBegins

LEMMA ApartErase ==
    ASSUME TypeOK, LocalsAgree, Apart, NEW p \in Procs, UNCHANGED <<channel, inbox>>,
           EraseStep(p)
    PROVE  Apart'
<1> USE DEF Goto
<1>0. Resume(p) \in {"idle", "load_base"}
    BY DEF Resume
<1>1. ASSUME EraseHashed(p) PROVE Apart'
  <2>1. target[p] \in HashedKeys
    BY <1>1 DEF EraseHashed, TypeOK, LocalsAgree
  <2>2. TakeEntry(p, target[p]) /\ pc[p] = "erase" /\ event' = event
    BY <1>1 DEF EraseHashed
  <2> QED
    BY <2>1, <2>2, SentStays, ObjectTaken
<1>2. ASSUME EraseAbsent(p) PROVE Apart'
  <2>1. /\ objects' = objects /\ arg' = arg /\ event' = event
        /\ pc[p] = "erase" /\ pc'[p] = Resume(p) /\ \A q \in Procs \ {p} : pc'[q] = pc[q]
    BY <1>2 DEF EraseAbsent, TypeOK
  <2>2. Sent' = Sent /\ event[p] = NoEvent
    BY <2>1, SentStays DEF Apart, EventsLate
  <2> QED
    BY <1>0, <2>1, <2>2, ObjectsStay DEF Wiping
<1>3. ASSUME UpdateBaseUsedSize(p) PROVE Apart'
  <2>1. /\ objects' = objects /\ arg' = arg /\ event' = event
        /\ pc[p] \in {"base", "erase_base"}
        /\ pc'[p] = (IF pc[p] = "base" THEN "send" ELSE "decr")
        /\ \A q \in Procs \ {p} : pc'[q] = pc[q]
    BY <1>3 DEF UpdateBaseUsedSize, TypeOK
  <2>2. Sent' = Sent /\ (pc[p] = "erase_base" => event[p] = NoEvent)
    BY <2>1, SentStays DEF Apart, EventsLate
  <2> QED
    BY <2>1, <2>2, ObjectsStay DEF Wiping
<1>4. ASSUME DecrNumObjects(p) PROVE Apart'
  <2> DEFINE ev == Event("Del", HashOf[arg[p].key], arg[p].expiry, NoExpiry)
  <2>1. /\ objects' = objects /\ pc[p] = "decr" /\ arg'[p] = NoObject
        /\ \A q \in Procs \ {p} : pc'[q] = pc[q] /\ arg'[q] = arg[q] /\ event'[q] = event[q]
        /\ \/ pc'[p] = "send" /\ event'[p] = ev
           \/ pc'[p] = Resume(p) /\ event' = event
    BY <1>4 DEF DecrNumObjects, TypeOK
  <2>2. arg[p] # NoObject /\ event[p] = NoEvent
    BY <2>1 DEF LocalsAgree, Apart, EventsLate
  <2>3. ExpiryOf(arg'[p]) = NoExpiry /\ ExpiryOf(arg[p]) = arg[p].expiry
    BY <2>1, <2>2 DEF ExpiryOf
  <2>4. Modest(ev, ExpiryOf(arg[p]))
    BY <2>3 DEF Modest, Event
  <2>5. \A e \in Sent' : e \in Sent \/ e = event'[p]
    BY <2>1, SentByOne
  <2>6. \A e \in Sent' : e \in Sent \/ e = ev
    BY <2>1, <2>2, <2>5 DEF Sent
  <2> HIDE DEF ev
  <2> QED
    BY <1>0, <2>1, <2>2, <2>3, <2>4, <2>6, ObjectsStay DEF Wiping
<1> QED
    BY <1>1, <1>2, <1>3, <1>4 DEF EraseStep

LEMMA ApartGoesOn ==
    ASSUME TypeOK, LocalsAgree, Apart, NEW c \in Clients, ClientGoesOn(c)
    PROVE  Apart'
<1> USE DEF Goto
<1>0. c \in Procs /\ UNCHANGED <<channel, inbox>>
    BY DEF Procs, ClientGoesOn, ttlVars
<1>1. ASSUME SetInsert(c) PROVE Apart'
    BY <1>0, <1>1, SetStores, ObjectStored
<1>2. ASSUME IncrNumObjects(c) PROVE Apart'
  <2>1. /\ objects' = objects /\ arg' = arg /\ event' = event
        /\ pc[c] = "incr" /\ pc'[c] = "base" /\ \A q \in Procs \ {c} : pc'[q] = pc[q]
    BY <1>0, <1>2 DEF IncrNumObjects, TypeOK
  <2> QED
    BY <1>0, <2>1, SentStays, ObjectsStay DEF Wiping
<1>3. ASSUME UpdateBaseUsedSize(c) \/ DecrNumObjects(c) PROVE Apart'
    BY <1>0, <1>3, ApartErase DEF EraseStep
<1>4. ASSUME WipeShard(c) \/ ZeroBaseUsedSize(c) \/ ZeroNumObjects(c) PROVE FALSE
    BY <1>0, <1>4 DEF WipeShard, ZeroBaseUsedSize, ZeroNumObjects, Apart, NoWipe, Wiping
<1>5. ASSUME ResizeStore(c) PROVE Apart'
  <2>1. /\ objects' = objects /\ arg' = arg
        /\ event'[c] = Event("Resize", NoKey, NoExpiry, NoExpiry)
        /\ pc[c] = "resize" /\ pc'[c] = "send"
        /\ \A q \in Procs \ {c} : pc'[q] = pc[q] /\ event'[q] = event[q]
    BY <1>0, <1>5 DEF ResizeStore, TypeOK
  <2>2. Modest(event'[c], ExpiryOf(arg[c]))
    BY <2>1 DEF Modest, Event
  <2> QED
    BY <1>0, <2>1, <2>2, SentByOne, ObjectsStay DEF Wiping
<1> QED
    BY <1>1, <1>2, <1>3, <1>4, <1>5 DEF ClientGoesOn, CallMiddle

LEMMA ApartEvicts ==
    ASSUME TypeOK, LocalsAgree, Apart, NEW p \in PolicyWorkers, PolicyWorkerStep(p),
           UNCHANGED ttlVars
    PROVE  Apart'
<1>0. p \in Procs /\ UNCHANGED <<channel, inbox>>
    BY DEF Procs, ttlVars
<1>1. ASSUME EvictStart(p) \/ EvictLoadBase(p) \/ EvictLoadNum(p) \/ EvictFromStack(p)
                \/ EvictAny(p) \/ EvictNothing(p)
      PROVE  Apart'
  <2>1. /\ objects' = objects /\ arg' = arg /\ event' = event
        /\ pc[p] \in {"idle", "load_base", "load_num", "evict"}
        /\ pc'[p] \in {"idle", "load_base", "load_num", "evict", "erase"}
        /\ \A q \in Procs \ {p} : pc'[q] = pc[q]
    BY <1>0, <1>1 DEF EvictStart, EvictLoadBase, EvictLoadNum, EvictFromStack, EvictAny,
                      EvictNothing, TypeOK, Goto
  <2>2. Sent' = Sent /\ event[p] = NoEvent
    BY <1>0, <2>1, SentStays DEF Apart, EventsLate
  <2> QED
    BY <1>0, <2>1, <2>2, ObjectsStay DEF Wiping
<1> QED
    BY <1>0, <1>1, ApartErase DEF PolicyWorkerStep

-----------------------------------------------------------------------------

LEMMA RangeAppend ==
    ASSUME NEW S, NEW s \in Seq(S), NEW x
    PROVE  Range(Append(s, x)) = Range(s) \cup {x}
<1>1. /\ Len(s) \in Nat /\ DOMAIN s = 1 .. Len(s)
      /\ DOMAIN Append(s, x) = 1 .. Len(s) + 1
      /\ \A i \in 1 .. Len(s) : Append(s, x)[i] = s[i]
      /\ Append(s, x)[Len(s) + 1] = x
    OBVIOUS
<1>2. ASSUME NEW y \in Range(Append(s, x)) PROVE y \in Range(s) \cup {x}
  <2>1. PICK i \in 1 .. Len(s) + 1 : y = Append(s, x)[i]
    BY <1>1, <1>2 DEF Range
  <2>2. i \in 1 .. Len(s) \/ i = Len(s) + 1
    BY <1>1
  <2> QED
    BY <1>1, <2>1, <2>2 DEF Range
<1>3. ASSUME NEW y \in Range(s) \cup {x} PROVE y \in Range(Append(s, x))
  <2>1. CASE y = x
    BY <1>1, <2>1 DEF Range
  <2>2. CASE y \in Range(s)
    <3>1. PICK i \in 1 .. Len(s) : y = s[i]
        BY <1>1, <2>2 DEF Range
    <3> QED
        BY <1>1, <3>1 DEF Range
  <2> QED
    BY <1>3, <2>1, <2>2
<1> QED
    BY <1>2, <1>3

LEMMA RangeHeadTail ==
    ASSUME NEW S, NEW s \in Seq(S), s # <<>>
    PROVE  Range(s) = {Head(s)} \cup Range(Tail(s))
<1>1. /\ Len(s) \in Nat \ {0} /\ DOMAIN s = 1 .. Len(s)
      /\ Head(s) = s[1]
      /\ DOMAIN Tail(s) = 1 .. Len(s) - 1
      /\ \A i \in 1 .. Len(s) - 1 : Tail(s)[i] = s[i + 1]
    OBVIOUS
<1>2. ASSUME NEW y \in Range(s) PROVE y \in {Head(s)} \cup Range(Tail(s))
  <2>1. PICK i \in 1 .. Len(s) : y = s[i]
    BY <1>1, <1>2 DEF Range
  <2>2. CASE i = 1
    BY <1>1, <2>1, <2>2
  <2>3. CASE i # 1
    <3>1. i - 1 \in 1 .. Len(s) - 1 /\ Tail(s)[i - 1] = s[i]
        BY <1>1, <2>3
    <3> QED
        BY <1>1, <2>1, <3>1 DEF Range
  <2> QED
    BY <2>2, <2>3
<1>3. ASSUME NEW y \in {Head(s)} \cup Range(Tail(s)) PROVE y \in Range(s)
  <2>1. CASE y = Head(s)
    BY <1>1, <2>1 DEF Range
  <2>2. CASE y \in Range(Tail(s))
    <3>1. PICK i \in 1 .. Len(s) - 1 : y = Tail(s)[i]
        BY <1>1, <2>2 DEF Range
    <3>2. i + 1 \in 1 .. Len(s) /\ y = s[i + 1]
        BY <1>1, <3>1
    <3> QED
        BY <1>1, <3>2 DEF Range
  <2> QED
    BY <1>3, <2>1, <2>2
<1> QED
    BY <1>2, <1>3

\* Where an event goes: the broadcast and the manager lose none, and the worker takes
\* the first.
LEMMA SentBroadcast ==
    ASSUME TtlInv, NEW c \in Clients, ClientBroadcasts(c)
    PROVE  Sent' = Sent
<1>1. /\ event' = [event EXCEPT ![c] = NoEvent]
      /\ channel' = Append(channel, event[c]) /\ inbox' = inbox
      /\ event \in [Procs -> Events \cup {NoEvent}]
    BY DEF ClientBroadcasts, Broadcast, TtlInv, Typed, TypeOK
<1>2. Range(channel') = Range(channel) \cup {event[c]}
    BY <1>1, RangeAppend DEF TtlInv
<1>3. \A d \in Clients : event'[d] = IF d = c THEN NoEvent ELSE event[d]
    BY <1>1 DEF Procs
<1> QED
    BY <1>1, <1>2, <1>3 DEF Sent, Pending

LEMMA SentForward ==
    ASSUME TtlInv, Forward
    PROVE  Sent' = Sent
<1>1. /\ event' = event /\ channel # <<>>
      /\ inbox' = Append(inbox, Head(channel)) /\ channel' = Tail(channel)
    BY DEF Forward, vars
<1>2. Range(inbox') = Range(inbox) \cup {Head(channel)}
    BY <1>1, RangeAppend DEF TtlInv
<1>3. Range(channel) = {Head(channel)} \cup Range(channel')
    BY <1>1, RangeHeadTail DEF TtlInv
<1> QED
    BY <1>1, <1>2, <1>3 DEF Sent, Pending

LEMMA SentReceive ==
    ASSUME TtlInv, NEW w \in TtlWorkers, Receive(w)
    PROVE  /\ Head(inbox) \in Sent \cap Keyed
           /\ Sent' \subseteq Sent
           /\ Sent \subseteq Sent' \cup {Head(inbox)}
<1>1. /\ event' = event /\ channel' = channel /\ inbox' = Tail(inbox) /\ inbox # <<>>
    BY DEF Receive, vars
<1>2. Range(inbox) = {Head(inbox)} \cup Range(inbox')
    BY <1>1, RangeHeadTail DEF TtlInv
<1>3. Head(inbox) \in Keyed
    BY <1>1 DEF TtlInv
<1>4. Head(inbox) # NoEvent
    BY <1>3, SentinelAssumption DEF Keyed
<1> QED
    BY <1>1, <1>2, <1>3, <1>4 DEF Sent, Pending

-----------------------------------------------------------------------------

LEMMA ApartMoves ==
    ASSUME Apart, UNCHANGED vars, Sent' \subseteq Sent
    PROVE  Apart'
<1> USE DEF Apart, vars
<1>1. StoredOnce' /\ HeldApart'
    BY DEF StoredOnce, HeldApart, Stored
<1>2. InsertedFresh'
    BY DEF InsertedFresh, FreshFor
<1>3. SentAgrees'
    BY DEF SentAgrees, Agrees, Stored
<1>4. EventsLate' /\ NoWipe'
    BY DEF EventsLate, NoWipe
<1> QED
    BY <1>1, <1>2, <1>3, <1>4

LEMMA ApartInit == TtlInit => Apart
<1> SUFFICES ASSUME TtlInit PROVE Apart
    OBVIOUS
<1>1. /\ \A h \in HashedKeys : ExpiryOf(objects[h]) = NoExpiry
      /\ \A p \in Procs : ExpiryOf(arg[p]) = NoExpiry /\ event[p] = NoEvent /\ pc[p] = "idle"
    BY DEF TtlInit, Init, ExpiryOf
<1>2. Sent = {}
    BY <1>1 DEF TtlInit, Sent, Pending, Range, Procs
<1> QED
    BY <1>1, <1>2 DEF Apart, StoredOnce, HeldApart, InsertedFresh, SentAgrees, EventsLate,
                      NoWipe, Wiping

LEMMA ApartStep ==
    ASSUME DistinctInstants, Wipers = {}, TtlInv, Apart, [TtlNext]_allVars
    PROVE  Apart'
<1>0. TypeOK /\ LocalsAgree
    BY DEF TtlInv, Typed
<1>1. ASSUME NEW c \in Clients, ClientBegins(c) PROVE Apart'
    BY <1>0, <1>1, ApartBegin
<1>2. ASSUME NEW c \in Clients, ClientGoesOn(c) PROVE Apart'
    BY <1>0, <1>2, ApartGoesOn
<1>3. ASSUME NEW c \in Clients, ClientBroadcasts(c) PROVE Apart'
  <2>1. /\ objects' = objects /\ arg' = arg /\ c \in Procs
        /\ pc[c] = "send" /\ pc'[c] = "idle" /\ event'[c] = NoEvent
        /\ \A q \in Procs \ {c} : pc'[q] = pc[q] /\ event'[q] = event[q]
    BY <1>0, <1>3 DEF ClientBroadcasts, Broadcast, Goto, TypeOK, Procs
  <2> QED
    BY <1>3, <2>1, SentBroadcast, ObjectsStay DEF Wiping
<1>4. ASSUME Forward PROVE Apart'
    BY <1>4, SentForward, ApartMoves DEF Forward
<1>5. ASSUME NEW w \in TtlWorkers, TtlWorkerStep(w) PROVE Apart'
  <2>0. w \in Procs
    BY DEF Procs
  <2>1. ASSUME WakeUp(w) \/ Drained(w) \/ GoToSleep(w) PROVE Apart'
    <3>1. UNCHANGED vars /\ UNCHANGED <<channel, inbox, event>>
        BY <2>1 DEF WakeUp, Drained, GoToSleep, vars
    <3> QED
        BY <3>1, SentStays, ApartMoves
  <2>2. ASSUME Receive(w) PROVE Apart'
    BY <2>2, SentReceive, ApartMoves DEF Receive
  <2>3. ASSUME PopExpired(w) PROVE Apart'
    <3>1. /\ objects' = objects /\ arg' = arg /\ event' = event
          /\ UNCHANGED <<channel, inbox>>
          /\ pc[w] = "idle" /\ pc'[w] = "erase" /\ \A q \in Procs \ {w} : pc'[q] = pc[q]
        BY <1>0, <2>0, <2>3 DEF PopExpired, TtlWorkerPop, Goto, TypeOK
    <3>2. Sent' = Sent /\ event[w] = NoEvent
        BY <2>0, <3>1, SentStays DEF Apart, EventsLate
    <3> QED
        BY <2>0, <3>1, <3>2, ObjectsStay DEF Wiping
  <2>4. ASSUME Erase(w) PROVE Apart'
    BY <1>0, <2>0, <2>4, ApartErase DEF Erase, ttlVars
  <2> QED
    BY <1>5, <2>1, <2>2, <2>3, <2>4 DEF TtlWorkerStep
<1>6. ASSUME NEW p \in PolicyWorkers, PolicyWorkerStep(p), UNCHANGED ttlVars PROVE Apart'
    BY <1>0, <1>6, ApartEvicts
<1>7. ASSUME Tick, UNCHANGED ttlVars PROVE Apart'
  <2>1. UNCHANGED <<objects, arg, pc, event, channel, inbox>>
    BY <1>7 DEF Tick, ttlVars
  <2>2. Sent' = Sent
    BY <2>1, SentStays
  <2> QED
    BY <2>1, <2>2 DEF Apart, StoredOnce, HeldApart, Stored, InsertedFresh, FreshFor,
                      SentAgrees, Agrees, EventsLate, NoWipe
<1>8. ASSUME UNCHANGED allVars PROVE Apart'
  <2>1. UNCHANGED vars /\ UNCHANGED <<channel, inbox, event>>
    BY <1>8 DEF allVars, vars, ttlVars
  <2> QED
    BY <2>1, SentStays, ApartMoves
<1> QED
    BY <1>1, <1>2, <1>3, <1>4, <1>5, <1>6, <1>7, <1>8 DEF TtlNext

-----------------------------------------------------------------------------

\* The TTL worker knows, or will be told, when h expires, or is about to erase it.
KeptFor(h, e) ==
    \/ e \in DOMAIN expiries /\ expiries[e] = h
    \/ Announced(h, e)
    \/ BeingErased(h)

\* Where the worker's map and its own step stay, what is stored with an expiry was
\* stored with it before or is announced.
LEMMA NothingLost ==
    ASSUME NoLostExpiry, Sent \subseteq Sent', expiries' = expiries,
           \A h \in HashedKeys :
               ExpiryOf(objects'[h]) = NoExpiry
               \/ /\ \/ ExpiryOf(objects'[h]) = ExpiryOf(objects[h])
                     \/ Announced(h, ExpiryOf(objects[h]))'
                  /\ BeingErased(h) => BeingErased(h)'
    PROVE  NoLostExpiry'
<1> SUFFICES ASSUME NEW h \in HashedKeys, NEW e, e = ExpiryOf(objects'[h]), e # NoExpiry
             PROVE  KeptFor(h, e)'
    BY DEF NoLostExpiry, KeptFor
<1>1. CASE Announced(h, ExpiryOf(objects[h]))'
    BY <1>1 DEF KeptFor
<1>2. CASE e = ExpiryOf(objects[h]) /\ (BeingErased(h) => BeingErased(h)')
  <2>1. KeptFor(h, e)
    BY <1>2 DEF NoLostExpiry, KeptFor
  <2>2. Announced(h, e) => Announced(h, e)'
    BY DEF Announced, Sent
  <2> QED
    BY <1>2, <2>1, <2>2 DEF KeptFor
<1> QED
    BY <1>1, <1>2

\* The TTL worker is at its own erase, so no step of another thread ends it.
LEMMA ErasingStays ==
    ASSUME TypeOK, NEW p \in Procs \ TtlWorkers,
           \A q \in Procs \ {p} : pc'[q] = pc[q] /\ target'[q] = target[q]
    PROVE  \A h : BeingErased(h) => BeingErased(h)'
  BY DEF BeingErased, Procs

\* Where a thread other than the TTL worker takes objects away or lets them be.
LEMMA NothingLostBy ==
    ASSUME TypeOK, Apart, NoLostExpiry, NEW p \in Procs \ TtlWorkers, UNCHANGED ttlVars,
           \A q \in Procs \ {p} : pc'[q] = pc[q] /\ target'[q] = target[q]
                                    /\ event'[q] = event[q],
           event'[p] = event[p] \/ pc[p] \notin {"incr", "base", "send"},
           \A h \in HashedKeys : objects'[h] \in {objects[h], NoObject}
    PROVE  NoLostExpiry'
<1>1. UNCHANGED <<channel, inbox, expiries>>
    BY DEF ttlVars
<1>2. \A ev \in Sent : ev \in Sent' \/ ev = event[p]
    BY <1>1, SentByOne
<1>3. event[p] = NoEvent \/ event'[p] = event[p]
    BY DEF Apart, EventsLate
<1>4. Sent \subseteq Sent'
  <2>1. CASE event[p] = NoEvent
    BY <1>2, <2>1 DEF Sent
  <2>2. CASE event'[p] = event[p]
    BY <1>1, <2>2 DEF Sent, Pending, Procs
  <2> QED
    BY <1>3, <2>1, <2>2
<1>5. \A h : BeingErased(h) => BeingErased(h)'
    BY ErasingStays
<1>6. ExpiryOf(NoObject) = NoExpiry
    BY DEF ExpiryOf
<1> QED
    BY <1>1, <1>4, <1>5, <1>6, NothingLost

\* Where a client stores an object, and its event tells of the instant.
LEMMA NothingLostStored ==
    ASSUME TypeOK, Apart, NoLostExpiry, NEW c \in Clients, UNCHANGED ttlVars,
           NEW h \in HashedKeys, NEW o, NEW ev,
           Stores(c, h, o, ev), event'[c] = ev, ev # NoEvent, target' = target
    PROVE  NoLostExpiry'
<1>1. UNCHANGED <<channel, inbox, expiries>> /\ c \in Procs \ TtlWorkers
    BY ThreadsAssumption DEF ttlVars, Procs
<1>2. event[c] = NoEvent
    BY <1>1 DEF Stores, Apart, EventsLate
<1>3. Sent \subseteq Sent'
    BY <1>1, <1>2, SentByOne DEF Stores, Sent
<1>4. \A g : BeingErased(g) => BeingErased(g)'
    BY <1>1, ErasingStays DEF Stores
<1>5. ev \in Sent'
    BY <1>1 DEF Sent, Pending
<1>6. objects'[h] = o /\ \A g \in HashedKeys \ {h} : objects'[g] = objects[g]
    BY DEF Stores, TypeOK
<1>7. Announced(h, ExpiryOf(objects[h]))'
    BY <1>5, <1>6 DEF Announced, Sent, Stores
<1> QED
    BY <1>1, <1>3, <1>4, <1>6, <1>7, NothingLost

\* Receiving an event, the worker forgets no instant of a stored object, and tracks
\* the one announced.
LEMMA HandleForgets ==
    ASSUME NEW ev, Agrees(ev), NEW e, Stored(e), e # NoExpiry, e \in DOMAIN expiries,
           \A h \in HashedKeys : ExpiryOf(objects[h]) = e => h = expiries[e]
    PROVE  e \in DOMAIN Handle(expiries, ev) /\ Handle(expiries, ev)[e] = expiries[e]
<1> DEFINE kept == Forget(expiries, ev.key, ev.removed)
<1>1. ev.removed # e /\ ev.kind # "Wipe"
    BY DEF Agrees
<1>2. e \in DOMAIN kept /\ kept[e] = expiries[e]
    BY <1>1 DEF Forget, Restrict
<1> HIDE DEF kept
<1>3. ev.inserted = e => ev.key = expiries[e]
    BY DEF Agrees, Stored
<1>4. e \in DOMAIN Track(kept, ev.key, ev.inserted) /\ Track(kept, ev.key, ev.inserted)[e] = expiries[e]
    BY <1>2, <1>3 DEF Track
<1> QED
    BY <1>1, <1>2, <1>4 DEF Handle, kept

LEMMA HandleTracks ==
    ASSUME NEW ev, Agrees(ev), ev.inserted # NoExpiry
    PROVE  /\ ev.inserted \in DOMAIN Handle(expiries, ev)
           /\ Handle(expiries, ev)[ev.inserted] = ev.key
<1> DEFINE kept == Forget(expiries, ev.key, ev.removed)
<1>1. Handle(expiries, ev) = Track(kept, ev.key, ev.inserted)
    BY DEF Agrees, Handle
<1> HIDE DEF kept
<1>2. /\ ev.inserted \in DOMAIN Track(kept, ev.key, ev.inserted)
      /\ Track(kept, ev.key, ev.inserted)[ev.inserted] = ev.key
    BY DEF Track
<1> QED
    BY <1>1, <1>2

LEMMA ReceiveLosesNothing ==
    ASSUME TtlInv, Apart, NoLostExpiry, NEW w \in TtlWorkers, Receive(w)
    PROVE  NoLostExpiry'
<1> DEFINE ev == Head(inbox)
<1>1. ev \in Sent /\ Sent \subseteq Sent' \cup {ev}
    BY SentReceive
<1>2. Agrees(ev)
    BY <1>1 DEF Apart, SentAgrees
<1>3. expiries' = Handle(expiries, ev) /\ UNCHANGED <<objects, pc, target>>
    BY DEF Receive, vars
<1> HIDE DEF ev
<1> SUFFICES ASSUME NEW h \in HashedKeys, NEW e, e = ExpiryOf(objects[h]), e # NoExpiry
             PROVE  KeptFor(h, e)'
    BY <1>3 DEF NoLostExpiry, KeptFor
<1>4. KeptFor(h, e)
    BY DEF NoLostExpiry, KeptFor
<1>5. CASE e \in DOMAIN expiries /\ expiries[e] = h
  <2>1. Stored(e) /\ \A g \in HashedKeys : ExpiryOf(objects[g]) = e => g = expiries[e]
    BY <1>5 DEF Stored, Apart, StoredOnce
  <2>2. e \in DOMAIN Handle(expiries, ev) /\ Handle(expiries, ev)[e] = expiries[e]
    BY <1>2, <1>5, <2>1, HandleForgets
  <2> QED
    BY <1>3, <1>5, <2>2 DEF KeptFor
<1>6. CASE Announced(h, e)
  <2>1. PICK sent \in Sent : sent.key = h /\ sent.inserted = e
    BY <1>6 DEF Announced, Sent
  <2>2. CASE sent = ev
    BY <1>2, <1>3, <2>1, <2>2, HandleTracks DEF KeptFor
  <2>3. CASE sent # ev
    <3>1. sent \in Sent'
        BY <1>1, <2>3
    <3>2. Announced(h, e)'
        BY <2>1, <3>1 DEF Announced, Sent
    <3> QED
        BY <3>2 DEF KeptFor
  <2> QED
    BY <2>2, <2>3
<1>7. CASE BeingErased(h)
    BY <1>3, <1>7 DEF BeingErased, KeptFor
<1> QED
    BY <1>4, <1>5, <1>6, <1>7 DEF KeptFor

\* Popping an instant, the worker goes on to erase the key it was tracked for.
LEMMA PopLosesNothing ==
    ASSUME TypeOK, NoLostExpiry, NEW w \in TtlWorkers, PopExpired(w)
    PROVE  NoLostExpiry'
<1>0. w \in Procs
    BY DEF Procs
<1>1. PICK d \in DOMAIN expiries : /\ expiries' = Restrict(expiries, DOMAIN expiries \ {d})
                                   /\ TtlWorkerPop(w, expiries[d])
    BY DEF PopExpired, Due
<1>2. /\ pc[w] = "idle" /\ pc'[w] = "erase" /\ target'[w] = expiries[d]
      /\ \A v \in Procs \ {w} : pc'[v] = pc[v] /\ target'[v] = target[v]
      /\ objects' = objects /\ event' = event /\ UNCHANGED <<channel, inbox>>
    BY <1>0, <1>1 DEF TtlWorkerPop, Goto, TypeOK, PopExpired
<1>3. Sent' = Sent
    BY <1>2, SentStays
<1>4. \A e \in DOMAIN expiries \ {d} : e \in DOMAIN expiries' /\ expiries'[e] = expiries[e]
    BY <1>1 DEF Restrict
<1>5. \A h : BeingErased(h) => BeingErased(h)'
    BY <1>2 DEF BeingErased, Procs
<1>6. ASSUME NEW h, h = expiries[d] PROVE BeingErased(h)'
    BY <1>2, <1>6 DEF BeingErased
<1> SUFFICES ASSUME NEW h \in HashedKeys, NEW e, e = ExpiryOf(objects[h]), e # NoExpiry
             PROVE  KeptFor(h, e)'
    BY <1>2 DEF NoLostExpiry, KeptFor
<1>7. KeptFor(h, e)
    BY DEF NoLostExpiry, KeptFor
<1>8. CASE e \in DOMAIN expiries /\ expiries[e] = h
    BY <1>4, <1>6, <1>8 DEF KeptFor
<1>9. CASE Announced(h, e)
  <2>1. Announced(h, e)'
    BY <1>3, <1>9 DEF Announced, Sent
  <2> QED
    BY <2>1 DEF KeptFor
<1>10. CASE BeingErased(h)
    BY <1>5, <1>10 DEF KeptFor
<1> QED
    BY <1>7, <1>8, <1>9, <1>10 DEF KeptFor

\* The worker's own erase ends with the object gone, whichever object that was.
LEMMA EraseLosesNothing ==
    ASSUME TypeOK, LocalsAgree, Apart, NoLostExpiry, NEW w \in TtlWorkers, Erase(w)
    PROVE  NoLostExpiry'
<1>0. w \in Procs /\ w \notin Clients /\ w \notin PolicyWorkers /\ EraseStep(w)
      /\ UNCHANGED <<channel, inbox, expiries>>
    BY ThreadsAssumption DEF Procs, Erase, ttlVars
<1>1. /\ event' = event
      /\ \A v \in Procs \ {w} : pc'[v] = pc[v] /\ target'[v] = target[v]
    BY <1>0 DEF EraseStep, EraseHashed, EraseAbsent, UpdateBaseUsedSize, DecrNumObjects,
                TakeEntry, Goto, TypeOK
<1>2. /\ \A h \in HashedKeys : objects'[h] \in {objects[h], NoObject}
      /\ pc[w] = "erase" => objects'[target[w]] = NoObject
  <2>1. ASSUME EraseHashed(w)
        PROVE  target[w] \in HashedKeys /\ objects' = [objects EXCEPT ![target[w]] = NoObject]
    BY <1>0, <2>1 DEF EraseHashed, TakeEntry, TypeOK, LocalsAgree
  <2>2. ASSUME EraseAbsent(w)
        PROVE  objects' = objects /\ objects[target[w]] = NoObject
    BY <2>2 DEF EraseAbsent
  <2>3. ASSUME UpdateBaseUsedSize(w) \/ DecrNumObjects(w)
        PROVE  objects' = objects /\ pc[w] # "erase"
    BY <2>3 DEF UpdateBaseUsedSize, DecrNumObjects
  <2> QED
    BY <1>0, <2>1, <2>2, <2>3 DEF EraseStep, TypeOK
<1>3. ASSUME NEW h \in HashedKeys, ExpiryOf(objects'[h]) # NoExpiry
      PROVE  /\ ExpiryOf(objects'[h]) = ExpiryOf(objects[h])
             /\ BeingErased(h) => BeingErased(h)'
  <2>1. objects'[h] # NoObject /\ objects'[h] = objects[h]
    BY <1>2, <1>3 DEF ExpiryOf
  <2>2. ASSUME NEW v \in TtlWorkers, pc[v] = "erase", target[v] = h
        PROVE  pc'[v] = "erase" /\ target'[v] = h
    <3>1. v # w /\ v \in Procs
        BY <1>2, <2>1, <2>2 DEF Procs
    <3> QED
        BY <1>1, <2>2, <3>1
  <2> QED
    BY <2>1, <2>2 DEF BeingErased
<1>4. Sent' = Sent
    BY <1>0, <1>1, SentStays
<1> QED
    BY <1>0, <1>3, <1>4, NothingLost

LEMMA NothingLostBegin ==
    ASSUME DistinctInstants, Wipers = {}, TypeOK, Apart, NoLostExpiry,
           NEW c \in Clients, ClientBegins(c)
    PROVE  NoLostExpiry'
<1> USE DEF Goto
<1>0. c \in Procs \ TtlWorkers /\ UNCHANGED ttlVars /\ UNCHANGED <<channel, inbox>>
    BY ThreadsAssumption DEF Procs, ClientBegins, ttlVars
<1>1. ASSUME /\ pc[c] = "idle" /\ target' = target
             /\ \A q \in Procs \ {c} : pc'[q] = pc[q] /\ event'[q] = event[q]
             /\ \A h \in HashedKeys : objects'[h] \in {objects[h], NoObject}
      PROVE  NoLostExpiry'
    BY <1>0, <1>1, NothingLostBy
<1>2. ASSUME NEW k \in Keys, Get(c, k) PROVE NoLostExpiry'
  <2>1. /\ pc[c] = "idle" /\ target' = target /\ objects' = objects
        /\ \A q \in Procs \ {c} : pc'[q] = pc[q] /\ event'[q] = event[q]
    BY <1>2 DEF Get, TypeOK
  <2> QED
    BY <1>1, <2>1
<1>3. ASSUME NEW k \in Keys, Del(c, k) PROVE NoLostExpiry'
  <2>1. /\ pc[c] = "idle" /\ target' = target /\ event' = event
        /\ \A q \in Procs \ {c} : pc'[q] = pc[q]
        /\ \A h \in HashedKeys : objects'[h] \in {objects[h], NoObject}
    BY <1>3 DEF Del, TakeEntry, TypeOK
  <2> QED
    BY <1>1, <2>1
<1>4. ASSUME NEW k \in Keys, NEW s \in ObjectSizes, NEW ttl \in Ttls, SetCheck(c, k, s, ttl)
      PROVE  NoLostExpiry'
  <2>1. /\ pc[c] = "idle" /\ target' = target /\ event' = event /\ objects' = objects
        /\ \A q \in Procs \ {c} : pc'[q] = pc[q]
    BY <1>4 DEF SetCheck, TypeOK
  <2> QED
    BY <1>1, <2>1
<1>5. ASSUME NEW k \in Keys, NEW ttl \in Ttls, MayStamp(ttl), Ttl(c, k, ttl)
      PROVE  NoLostExpiry'
  <2>1. target' = target
    BY <1>5 DEF Ttl
  <2> QED
    BY <1>0, <1>5, <2>1, TtlStores, NothingLostStored
<1>6. ASSUME NEW size \in CacheSizes, ResizeCheck(c, size) PROVE NoLostExpiry'
  <2>1. /\ pc[c] = "idle" /\ target' = target /\ event' = event /\ objects' = objects
        /\ \A q \in Procs \ {c} : pc'[q] = pc[q]
    BY <1>6 DEF ResizeCheck, TypeOK
  <2> QED
    BY <1>1, <2>1
<1> QED
    BY <1>2, <1>3, <1>4, <1>5, <1>6 DEF ClientBegins

LEMMA NothingLostGoesOn ==
    ASSUME TypeOK, LocalsAgree, Apart, NoLostExpiry, NEW c \in Clients, ClientGoesOn(c)
    PROVE  NoLostExpiry'
<1> USE DEF Goto
<1>0. c \in Procs \ TtlWorkers /\ UNCHANGED ttlVars /\ UNCHANGED <<channel, inbox>>
    BY ThreadsAssumption DEF Procs, ClientGoesOn, ttlVars
<1>1. ASSUME SetInsert(c) PROVE NoLostExpiry'
  <2>1. target' = target
    BY <1>1 DEF SetInsert
  <2> QED
    BY <1>0, <1>1, <2>1, SetStores, NothingLostStored
<1>2. ASSUME IncrNumObjects(c) \/ UpdateBaseUsedSize(c) \/ DecrNumObjects(c) \/ ResizeStore(c)
      PROVE  NoLostExpiry'
  <2>1. /\ target' = target /\ objects' = objects
        /\ pc[c] \notin {"incr", "base", "send"} \/ event' = event
        /\ \A q \in Procs \ {c} : pc'[q] = pc[q] /\ event'[q] = event[q]
    BY <1>2 DEF IncrNumObjects, UpdateBaseUsedSize, DecrNumObjects, ResizeStore, TypeOK
  <2> QED
    BY <1>0, <2>1, NothingLostBy
<1>3. ASSUME WipeShard(c) \/ ZeroBaseUsedSize(c) \/ ZeroNumObjects(c) PROVE FALSE
    BY <1>0, <1>3 DEF WipeShard, ZeroBaseUsedSize, ZeroNumObjects, Apart, NoWipe, Wiping
<1> QED
    BY <1>1, <1>2, <1>3 DEF ClientGoesOn, CallMiddle

LEMMA NothingLostEvicts ==
    ASSUME TypeOK, LocalsAgree, Apart, NoLostExpiry, NEW p \in PolicyWorkers,
           PolicyWorkerStep(p), UNCHANGED ttlVars
    PROVE  NoLostExpiry'
<1>0. p \in Procs \ TtlWorkers /\ p \notin Clients
    BY ThreadsAssumption DEF Procs
<1>1. ASSUME EvictStart(p) \/ EvictLoadBase(p) \/ EvictLoadNum(p) \/ EvictFromStack(p)
                \/ EvictAny(p) \/ EvictNothing(p)
      PROVE  /\ objects' = objects /\ event' = event
             /\ \A q \in Procs \ {p} : pc'[q] = pc[q] /\ target'[q] = target[q]
    BY <1>1 DEF EvictStart, EvictLoadBase, EvictLoadNum, EvictFromStack, EvictAny, EvictNothing,
                TypeOK, Goto
<1>2. ASSUME EraseStep(p)
      PROVE  /\ \A h \in HashedKeys : objects'[h] \in {objects[h], NoObject}
             /\ event' = event
             /\ \A q \in Procs \ {p} : pc'[q] = pc[q] /\ target'[q] = target[q]
    BY <1>0, <1>2 DEF EraseStep, EraseHashed, EraseAbsent, UpdateBaseUsedSize, DecrNumObjects,
                      TakeEntry, TypeOK, Goto
<1> QED
    BY <1>0, <1>1, <1>2, NothingLostBy DEF PolicyWorkerStep

\* Where the store and the worker's map stay, and every event is still under way.
LEMMA NothingLostMoves ==
    ASSUME NoLostExpiry, Sent \subseteq Sent', UNCHANGED <<objects, target, expiries>>,
           \A w \in TtlWorkers : pc'[w] = pc[w]
    PROVE  NoLostExpiry'
<1>1. \A h : BeingErased(h) => BeingErased(h)'
    BY DEF BeingErased
<1> QED
    BY <1>1, NothingLost

LEMMA NothingLostStep ==
    ASSUME DistinctInstants, Wipers = {}, TtlInv, Apart, NoLostExpiry, [TtlNext]_allVars
    PROVE  NoLostExpiry'
<1>0. TypeOK /\ LocalsAgree
    BY DEF TtlInv, Typed
<1>1. ASSUME NEW c \in Clients, ClientBegins(c) PROVE NoLostExpiry'
    BY <1>0, <1>1, NothingLostBegin
<1>2. ASSUME NEW c \in Clients, ClientGoesOn(c) PROVE NoLostExpiry'
    BY <1>0, <1>2, NothingLostGoesOn
<1>3. ASSUME NEW c \in Clients, ClientBroadcasts(c) PROVE NoLostExpiry'
  <2>1. UNCHANGED <<objects, target, expiries>> /\ \A w \in TtlWorkers : pc'[w] = pc[w]
    BY <1>0, <1>3, ThreadsAssumption DEF ClientBroadcasts, Broadcast, Goto, TypeOK, Procs
  <2> QED
    BY <1>3, <2>1, SentBroadcast, NothingLostMoves
<1>4. ASSUME Forward PROVE NoLostExpiry'
  <2>1. UNCHANGED <<objects, target, expiries, pc>>
    BY <1>4 DEF Forward, vars
  <2> QED
    BY <1>4, <2>1, SentForward, NothingLostMoves
<1>5. ASSUME NEW w \in TtlWorkers, TtlWorkerStep(w) PROVE NoLostExpiry'
  <2>1. ASSUME WakeUp(w) \/ Drained(w) \/ GoToSleep(w) PROVE NoLostExpiry'
    <3>1. UNCHANGED <<objects, target, expiries, pc, channel, inbox, event>>
        BY <2>1 DEF WakeUp, Drained, GoToSleep, vars
    <3> QED
        BY <3>1, SentStays, NothingLostMoves
  <2>2. ASSUME Receive(w) PROVE NoLostExpiry'
    BY <2>2, ReceiveLosesNothing
  <2>3. ASSUME PopExpired(w) PROVE NoLostExpiry'
    BY <1>0, <2>3, PopLosesNothing
  <2>4. ASSUME Erase(w) PROVE NoLostExpiry'
    BY <1>0, <2>4, EraseLosesNothing
  <2> QED
    BY <1>5, <2>1, <2>2, <2>3, <2>4 DEF TtlWorkerStep
<1>6. ASSUME NEW p \in PolicyWorkers, PolicyWorkerStep(p), UNCHANGED ttlVars PROVE NoLostExpiry'
    BY <1>0, <1>6, NothingLostEvicts
<1>7. ASSUME (Tick /\ UNCHANGED ttlVars) \/ UNCHANGED allVars PROVE NoLostExpiry'
  <2>1. UNCHANGED <<objects, target, expiries, pc, channel, inbox, event>>
    BY <1>7 DEF Tick, allVars, vars, ttlVars
  <2> QED
    BY <2>1, SentStays, NothingLostMoves
<1> QED
    BY <1>1, <1>2, <1>3, <1>4, <1>5, <1>6, <1>7 DEF TtlNext

-----------------------------------------------------------------------------
(***************************************************************************)
(* The theorems                                                            *)
(***************************************************************************)

\* The channels only ever carry events and the TTL worker only ever tracks instants
\* of hashed keys (worker/ttl/mod.rs, expiries.rs), whatever the clients call.
THEOREM TtlTypeCorrectness == TtlSpec => []TtlTypeOK
<1>1. TtlInv => TtlTypeOK
    BY DEF TtlInv, TtlTypeOK, ExpiryMap, Keyed
<1> QED
    BY <1>1, TtlInvAlways, PTL

\* The TTL worker with its channels is one of the workers that CacheStore allows.
THEOREM Refinement == TtlSpec => Spec
<1>1. TtlInit => Init
    BY DEF TtlInit
<1> QED
    BY <1>1, TtlInvAlways, TtlStepRefines, PTL DEF TtlSpec, Spec

\* So the counters stay accounted for beside the real TTL worker: however its events
\* are delayed, popping stale instants costs no update (lib.rs erase).
THEOREM TtlAccounting == TtlSpec => ([]WipesAlone => []Accounting)
  BY Refinement, AccountingCorrectness, PTL

\* However set, ttl, del, expiry and eviction race and their events are delayed, an
\* object that is to expire is known to the TTL worker, announced to it, or just
\* being erased (lib.rs set and ttl, worker/ttl/mod.rs, expiries.rs): for any number
\* of keys, colliding or not, and of clients, as long as no two stamps coincide and
\* no client wipes.
THEOREM ExpiriesKept ==
    DistinctInstants /\ Wipers = {} => (TtlSpec => []NoLostExpiry)
<1> SUFFICES ASSUME DistinctInstants, Wipers = {} PROVE TtlSpec => []NoLostExpiry
    OBVIOUS
<1>1. TtlInit => Apart /\ NoLostExpiry
  <2>1. ASSUME TtlInit PROVE NoLostExpiry
    BY <2>1 DEF TtlInit, Init, ExpiryOf, NoLostExpiry
  <2> QED
    BY <2>1, ApartInit
<1>2. TtlInv /\ Apart /\ NoLostExpiry /\ [TtlNext]_allVars => Apart' /\ NoLostExpiry'
    BY ApartStep, NothingLostStep
<1> QED
    BY <1>1, <1>2, TtlInvAlways, PTL DEF TtlSpec

===============================================================================
