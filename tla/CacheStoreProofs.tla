--------------------------- MODULE CacheStoreProofs ---------------------------
(***************************************************************************)
(* What holds of CacheStore for any keys, hash function, threads, sizes    *)
(* and bounds that satisfy its assumptions.                                *)
(***************************************************************************)
EXTENDS CacheStore, DataLemmas

-----------------------------------------------------------------------------
(***************************************************************************)
(* The store                                                               *)
(***************************************************************************)

\* Base sizes are within their bound.
LEMMA BaseSizeRange ==
    ASSUME NEW o \in Objects \cup {NoObject}
    PROVE  BaseSize(o) \in 0 .. MaxBaseSize
<1>1. CASE o = NoObject
    BY <1>1, SizesAssumption DEF BaseSize
<1>2. CASE o \in Objects
  <2>1. o.size \in Nat /\ o.size + TtlOverhead <= MaxBaseSize
    BY <1>2, SizesAssumption DEF Objects
  <2>2. BaseSize(o) \in {o.size, o.size + TtlOverhead}
    BY <1>2, <2>1, SentinelAssumption, SizesAssumption DEF BaseSize
  <2> QED
    BY <2>1, <2>2, SizesAssumption
<1> QED
    BY <1>1, <1>2

\* An instance of the WorkerEvent constructor is an event.
LEMMA EventType ==
    ASSUME NEW kind \in EventKinds, NEW h \in HashedKeys \cup {NoKey},
           NEW removed \in Nat, NEW inserted \in Nat
    PROVE  Event(kind, h, removed, inserted) \in Events
  BY DEF Event, Events

\* Objects live under keys with hashes and have natural expiries.
LEMMA ObjectFields ==
    ASSUME NEW o \in Objects
    PROVE  o.key \in Keys /\ HashOf[o.key] \in HashedKeys /\ o.expiry \in Nat
  BY HashAssumption DEF Objects

\* A TTL gives a natural expiry.
LEMMA ExpiryType ==
    ASSUME now \in Nat, NEW ttl \in Ttls
    PROVE  ExpiryFromTtl(ttl) \in Nat
  BY SizesAssumption DEF ExpiryFromTtl, NoExpiry

\* The counters stay in their range whatever is added or subtracted.
LEMMA WrapRange == ASSUME NEW n \in Int PROVE Wrap(n) \in 0 .. Modulus - 1
<1>1. Modulus \in Nat \ {0}
  <2>1. Cardinality(HashedKeys) \in Nat /\ Cardinality(Procs) \in Nat
    <3>1. Cardinality(HashedKeys) \in Nat
        BY RangeAssumption, FS_CardinalityType, Zenon
    <3>2. Cardinality(Procs) \in Nat
        BY RangeAssumption, FS_CardinalityType, Zenon
    <3> QED
        BY <3>1, <3>2
  <2>2. (Cardinality(HashedKeys) + Cardinality(Procs)) * (MaxBaseSize + 1) >= 0
    BY <2>1, SizesAssumption
  <2> QED
    BY <2>2, <2>1, RangeAssumption, SizesAssumption
<1> QED
    BY <1>1 DEF Wrap

-----------------------------------------------------------------------------

\* The types and what they rest on.
Typed == TypeOK /\ LocalsAgree

\* Initially every variable has its type.
LEMMA TypedInit == Init => Typed
<1> SUFFICES ASSUME Init PROVE Typed
    OBVIOUS
<1>1. 0 \in 0 .. Modulus - 1
  <2>1. Wrap(0) \in 0 .. Modulus - 1
    BY WrapRange
  <2> QED
    BY <2>1, RangeAssumption
<1>2. TypeOK
    BY <1>1, SizesAssumption DEF Init, TypeOK, Labels
<1>3. LocalsAgree
    BY DEF Init, LocalsAgree
<1> QED
    BY <1>2, <1>3 DEF Typed

\* Every step keeps the types, and leaves each thread with the locals it needs.
LEMMA TypedStep == Typed /\ [Next]_vars => Typed'
<1> SUFFICES ASSUME TypeOK, LocalsAgree, [Next]_vars PROVE TypeOK' /\ LocalsAgree'
    BY DEF Typed
<1> USE DEF Goto
<1>1. ASSUME NEW c \in Clients, NEW k \in Keys, Get(c, k) PROVE TypeOK' /\ LocalsAgree'
  <2>1. Event("Get", HashOf[k], NoExpiry, NoExpiry) \in Events
    BY EventType, HashAssumption DEF EventKinds, NoExpiry
  <2>2. TypeOK'
    BY <1>1, <2>1 DEF Get, TypeOK, Procs, Labels
  <2>3. LocalsAgree'
    BY <1>1 DEF Get, TypeOK, LocalsAgree, Procs
  <2> QED
    BY <2>2, <2>3
<1>2. ASSUME NEW c \in Clients, NEW k \in Keys, NEW s \in ObjectSizes, NEW ttl \in Ttls,
             SetCheck(c, k, s, ttl)
      PROVE  TypeOK' /\ LocalsAgree'
  <2>1. [key |-> k, size |-> s, expiry |-> ExpiryFromTtl(ttl)] \in Objects
    BY ExpiryType DEF Objects, TypeOK
  <2>2. TypeOK'
    BY <1>2, <2>1 DEF SetCheck, TypeOK, Procs, Labels
  <2>3. LocalsAgree'
    BY <1>2, <2>1, SentinelAssumption DEF SetCheck, TypeOK, LocalsAgree, Procs
  <2> QED
    BY <2>2, <2>3
<1>3. ASSUME NEW c \in Clients, SetInsert(c) PROVE TypeOK' /\ LocalsAgree'
  <2> DEFINE h == HashOf[arg[c].key]
  <2>1. arg[c] \in Objects
    BY <1>3 DEF SetInsert, TypeOK, LocalsAgree, Procs
  <2>2. h \in HashedKeys /\ arg[c].expiry \in Nat
    BY <2>1, ObjectFields
  <2>3. objects[h] \in Objects \cup {NoObject}
    BY <2>2 DEF TypeOK
  <2>4. ExpiryOf(objects[h]) \in Nat
    BY <2>3, ObjectFields DEF ExpiryOf, NoExpiry
  <2>5. Event("Set", h, ExpiryOf(objects[h]), arg[c].expiry) \in Events
    BY <2>2, <2>4, EventType DEF EventKinds
  <2>6. BaseSize(arg[c]) \in 0 .. MaxBaseSize /\ BaseSize(objects[h]) \in 0 .. MaxBaseSize
    BY <2>1, <2>3, BaseSizeRange
  <2>7. TypeOK'
    BY <1>3, <2>1, <2>2, <2>5, <2>6 DEF SetInsert, TypeOK, Procs, Labels
  <2>8. LocalsAgree'
    BY <1>3 DEF SetInsert, TypeOK, LocalsAgree, Procs
  <2> QED
    BY <2>7, <2>8
<1>4. ASSUME NEW c \in Clients, IncrNumObjects(c) PROVE TypeOK' /\ LocalsAgree'
  <2>1. num_objects' \in 0 .. Modulus - 1
    BY <1>4, WrapRange DEF IncrNumObjects, TypeOK
  <2>2. TypeOK'
    BY <1>4, <2>1 DEF IncrNumObjects, TypeOK, Procs, Labels
  <2>3. LocalsAgree'
    BY <1>4 DEF IncrNumObjects, TypeOK, LocalsAgree, Procs
  <2> QED
    BY <2>2, <2>3
<1>5. ASSUME NEW p \in Procs, UpdateBaseUsedSize(p) PROVE TypeOK' /\ LocalsAgree'
  <2>1. base_used_size + credit[p] - debit[p] \in Int
    BY DEF TypeOK
  <2>2. base_used_size' \in 0 .. Modulus - 1
    BY <1>5, <2>1, WrapRange DEF UpdateBaseUsedSize
  <2>3. TypeOK'
    BY <1>5, <2>2, SizesAssumption DEF UpdateBaseUsedSize, TypeOK, Labels
  <2>4. LocalsAgree'
    BY <1>5 DEF UpdateBaseUsedSize, TypeOK, LocalsAgree
  <2> QED
    BY <2>3, <2>4
<1>6. ASSUME NEW c \in Clients, Broadcast(c) PROVE TypeOK' /\ LocalsAgree'
  <2>1. TypeOK'
    BY <1>6 DEF Broadcast, TypeOK, Procs, Labels
  <2>2. LocalsAgree'
    BY <1>6 DEF Broadcast, TypeOK, LocalsAgree, Procs
  <2> QED
    BY <2>1, <2>2
<1>7. ASSUME NEW c \in Clients, NEW k \in Keys, NEW ttl \in Ttls, Ttl(c, k, ttl)
      PROVE  TypeOK' /\ LocalsAgree'
  <2> DEFINE h   == HashOf[k]
             new == [objects[h] EXCEPT !.expiry = ExpiryFromTtl(ttl)]
  <2>1. h \in HashedKeys
    BY HashAssumption
  <2>2. objects[h] \in Objects
    BY <1>7, <2>1 DEF Ttl, Visible, TypeOK
  <2>3. ExpiryFromTtl(ttl) \in Nat
    BY ExpiryType DEF TypeOK
  <2>4. new \in Objects /\ new.expiry = ExpiryFromTtl(ttl)
    BY <2>2, <2>3 DEF Objects
  <2>5. Event("Ttl", h, objects[h].expiry, new.expiry) \in Events
    BY <2>1, <2>2, <2>3, <2>4, ObjectFields, EventType DEF EventKinds
  <2>6. BaseSize(new) \in 0 .. MaxBaseSize /\ BaseSize(objects[h]) \in 0 .. MaxBaseSize
    BY <2>2, <2>4, BaseSizeRange
  <2> HIDE DEF new
  <2>7. /\ objects' = [objects EXCEPT ![h] = new]
        /\ credit' = [credit EXCEPT ![c] = BaseSize(new)]
        /\ debit' = [debit EXCEPT ![c] = BaseSize(objects[h])]
        /\ event' = [event EXCEPT ![c] = Event("Ttl", h, objects[h].expiry, new.expiry)]
    BY <1>7 DEF Ttl, new
  <2>8. TypeOK'
    BY <1>7, <2>1, <2>4, <2>5, <2>6, <2>7 DEF Ttl, TypeOK, Procs, Labels
  <2>9. LocalsAgree'
    BY <1>7 DEF Ttl, TypeOK, LocalsAgree, Procs
  <2> QED
    BY <2>8, <2>9
<1>8. ASSUME NEW p \in Procs, NEW h \in HashedKeys, TakeEntry(p, h)
      PROVE  /\ objects' \in [HashedKeys -> Objects \cup {NoObject}]
             /\ arg' \in [Procs -> Objects \cup {NoObject}]
             /\ arg'[p] # NoObject
             /\ debit' \in [Procs -> 0 .. MaxBaseSize]
             /\ pc' \in [Procs -> Labels]
  <2>1. BaseSize(objects[h]) \in 0 .. MaxBaseSize
    BY BaseSizeRange DEF TypeOK
  <2> QED
    BY <1>8, <2>1 DEF TakeEntry, TypeOK, Labels
<1>9. ASSUME NEW c \in Clients, NEW k \in Keys, Del(c, k) PROVE TypeOK' /\ LocalsAgree'
  <2>1. c \in Procs /\ HashOf[k] \in HashedKeys
    BY HashAssumption DEF Procs
  <2>2. TypeOK'
    BY <1>8, <1>9, <2>1 DEF Del, TypeOK
  <2>3. LocalsAgree'
    BY <1>8, <1>9, <2>1 DEF Del, TakeEntry, TypeOK, LocalsAgree
  <2> QED
    BY <2>2, <2>3
<1>10. ASSUME NEW p \in Procs, EraseHashed(p) PROVE TypeOK' /\ LocalsAgree'
  <2>1. target[p] \in HashedKeys
    BY <1>10 DEF EraseHashed, TypeOK, LocalsAgree
  <2>2. TypeOK'
    BY <1>8, <1>10, <2>1 DEF EraseHashed, TypeOK
  <2>3. LocalsAgree'
    BY <1>8, <1>10, <2>1 DEF EraseHashed, TakeEntry, TypeOK, LocalsAgree
  <2> QED
    BY <2>2, <2>3
<1>11. ASSUME NEW p \in Procs, EraseAbsent(p) PROVE TypeOK' /\ LocalsAgree'
  <2>1. Resume(p) \in {"idle", "load_base"}
    BY DEF Resume
  <2>2. TypeOK'
    BY <1>11, <2>1 DEF EraseAbsent, TypeOK, Labels
  <2>3. LocalsAgree'
    BY <1>11, <2>1 DEF EraseAbsent, TypeOK, LocalsAgree
  <2> QED
    BY <2>2, <2>3
<1>12. ASSUME NEW p \in Procs, DecrNumObjects(p) PROVE TypeOK' /\ LocalsAgree'
  <2>1. Resume(p) \in {"idle", "load_base"}
    BY DEF Resume
  <2>2. arg[p] \in Objects
    BY <1>12 DEF DecrNumObjects, TypeOK, LocalsAgree
  <2>3. Event("Del", HashOf[arg[p].key], arg[p].expiry, NoExpiry) \in Events
    BY <2>2, ObjectFields, EventType DEF EventKinds, NoExpiry
  <2>4. num_objects' \in 0 .. Modulus - 1
    BY <1>12, WrapRange DEF DecrNumObjects, TypeOK
  <2>5. event' \in [Procs -> Events \cup {NoEvent}] /\ pc' \in [Procs -> Labels]
    BY <1>12, <2>1, <2>3 DEF DecrNumObjects, TypeOK, Labels
  <2>6. TypeOK'
    BY <1>12, <2>4, <2>5 DEF DecrNumObjects, TypeOK
  <2>7. pc'[p] \in {"send", "idle", "load_base"} /\ \A q \in Procs \ {p} : pc'[q] = pc[q]
    BY <1>12, <2>1 DEF DecrNumObjects, TypeOK
  <2>8. LocalsAgree'
    BY <1>12, <2>7 DEF DecrNumObjects, TypeOK, LocalsAgree
  <2> QED
    BY <2>6, <2>8
<1>13. ASSUME NEW c \in Clients, WipeStart(c) PROVE TypeOK' /\ LocalsAgree'
  <2>1. TypeOK'
    BY <1>13 DEF WipeStart, TypeOK, Procs, Labels
  <2>2. LocalsAgree'
    BY <1>13 DEF WipeStart, TypeOK, LocalsAgree, Procs
  <2> QED
    BY <2>1, <2>2
<1>14. ASSUME NEW c \in Clients, WipeShard(c) PROVE TypeOK' /\ LocalsAgree'
  <2>1. TypeOK'
    BY <1>14 DEF WipeShard, TypeOK, Procs, Labels
  <2>2. LocalsAgree'
    BY <1>14 DEF WipeShard, TypeOK, LocalsAgree, Procs
  <2> QED
    BY <2>1, <2>2
<1>15. ASSUME NEW c \in Clients, ZeroBaseUsedSize(c) PROVE TypeOK' /\ LocalsAgree'
  <2>1. 0 \in 0 .. Modulus - 1
    BY RangeAssumption DEF TypeOK
  <2>2. TypeOK'
    BY <1>15, <2>1 DEF ZeroBaseUsedSize, TypeOK, Procs, Labels
  <2>3. LocalsAgree'
    BY <1>15 DEF ZeroBaseUsedSize, TypeOK, LocalsAgree, Procs
  <2> QED
    BY <2>2, <2>3
<1>16. ASSUME NEW c \in Clients, ZeroNumObjects(c) PROVE TypeOK' /\ LocalsAgree'
  <2>1. 0 \in 0 .. Modulus - 1
    BY RangeAssumption DEF TypeOK
  <2>2. Event("Wipe", NoKey, NoExpiry, NoExpiry) \in Events
    BY EventType DEF EventKinds, NoExpiry
  <2>3. TypeOK'
    BY <1>16, <2>1, <2>2 DEF ZeroNumObjects, TypeOK, Procs, Labels
  <2>4. LocalsAgree'
    BY <1>16 DEF ZeroNumObjects, TypeOK, LocalsAgree, Procs
  <2> QED
    BY <2>3, <2>4
<1>17. ASSUME NEW c \in Clients, NEW size \in CacheSizes, ResizeCheck(c, size) PROVE TypeOK' /\ LocalsAgree'
  <2>1. TypeOK'
    BY <1>17 DEF ResizeCheck, TypeOK, Procs, Labels
  <2>2. LocalsAgree'
    BY <1>17, SizesAssumption DEF ResizeCheck, TypeOK, LocalsAgree, Procs
  <2> QED
    BY <2>1, <2>2
<1>18. ASSUME NEW c \in Clients, ResizeStore(c) PROVE TypeOK' /\ LocalsAgree'
  <2>1. Event("Resize", NoKey, NoExpiry, NoExpiry) \in Events
    BY EventType DEF EventKinds, NoExpiry
  <2>2. limit[c] \in CacheSizes
    BY <1>18 DEF ResizeStore, TypeOK, LocalsAgree, Procs
  <2>3. TypeOK'
    BY <1>18, <2>1, <2>2 DEF ResizeStore, TypeOK, Procs, Labels
  <2>4. LocalsAgree'
    BY <1>18 DEF ResizeStore, TypeOK, LocalsAgree, Procs
  <2> QED
    BY <2>3, <2>4
<1>19. ASSUME NEW p \in TtlWorkers, NEW h \in HashedKeys, TtlWorkerPop(p, h) PROVE TypeOK' /\ LocalsAgree'
  <2>1. TypeOK'
    BY <1>19 DEF TtlWorkerPop, TypeOK, Procs, Labels
  <2>2. LocalsAgree'
    BY <1>19, SentinelAssumption DEF TtlWorkerPop, TypeOK, LocalsAgree, Procs
  <2> QED
    BY <2>1, <2>2
<1>20. ASSUME NEW p \in PolicyWorkers, EvictStart(p) PROVE TypeOK' /\ LocalsAgree'
  <2>1. TypeOK'
    BY <1>20 DEF EvictStart, TypeOK, Procs, Labels
  <2>2. LocalsAgree'
    BY <1>20 DEF EvictStart, TypeOK, LocalsAgree, Procs
  <2> QED
    BY <2>1, <2>2
<1>21. ASSUME NEW p \in PolicyWorkers, EvictLoadBase(p) PROVE TypeOK' /\ LocalsAgree'
  <2>1. TypeOK'
    BY <1>21 DEF EvictLoadBase, TypeOK, Procs, Labels
  <2>2. LocalsAgree'
    BY <1>21 DEF EvictLoadBase, TypeOK, LocalsAgree, Procs
  <2> QED
    BY <2>1, <2>2
<1>22. ASSUME NEW p \in PolicyWorkers, EvictLoadNum(p) PROVE TypeOK' /\ LocalsAgree'
  <2>1. 0 \in 0 .. Modulus - 1
    BY RangeAssumption DEF TypeOK
  <2>2. TypeOK'
    BY <1>22, <2>1 DEF EvictLoadNum, TypeOK, Procs, Labels
  <2>3. LocalsAgree'
    BY <1>22 DEF EvictLoadNum, TypeOK, LocalsAgree, Procs
  <2> QED
    BY <2>2, <2>3
<1>23. ASSUME NEW p \in PolicyWorkers, EvictFromStack(p) PROVE TypeOK' /\ LocalsAgree'
  <2>1. TypeOK'
    BY <1>23 DEF EvictFromStack, TypeOK, Procs, Labels
  <2>2. LocalsAgree'
    BY <1>23, SentinelAssumption DEF EvictFromStack, TypeOK, LocalsAgree, Procs
  <2> QED
    BY <2>1, <2>2
<1>24. ASSUME NEW p \in PolicyWorkers, EvictAny(p) PROVE TypeOK' /\ LocalsAgree'
  <2>1. TypeOK'
    BY <1>24 DEF EvictAny, TypeOK, Procs, Labels
  <2>2. LocalsAgree'
    BY <1>24, SentinelAssumption DEF EvictAny, TypeOK, LocalsAgree, Procs
  <2> QED
    BY <2>1, <2>2
<1>25. ASSUME NEW p \in PolicyWorkers, EvictNothing(p) PROVE TypeOK' /\ LocalsAgree'
  <2>1. TypeOK'
    BY <1>25 DEF EvictNothing, TypeOK, Procs, Labels
  <2>2. LocalsAgree'
    BY <1>25 DEF EvictNothing, TypeOK, LocalsAgree, Procs
  <2> QED
    BY <2>1, <2>2
<1>26. ASSUME Tick PROVE TypeOK' /\ LocalsAgree'
    BY <1>26 DEF Tick, TypeOK, LocalsAgree
<1>27. ASSUME UNCHANGED vars PROVE TypeOK' /\ LocalsAgree'
    BY <1>27 DEF vars, TypeOK, LocalsAgree
<1>28. ASSUME NEW p \in Procs, EraseStep(p) PROVE TypeOK' /\ LocalsAgree'
    BY <1>5, <1>10, <1>11, <1>12, <1>28 DEF EraseStep
<1>29. ASSUME NEW c \in Clients, CallBegin(c) PROVE TypeOK' /\ LocalsAgree'
    BY <1>1, <1>2, <1>7, <1>9, <1>13, <1>17, <1>29 DEF CallBegin
<1>30. ASSUME NEW c \in Clients, CallStep(c) PROVE TypeOK' /\ LocalsAgree'
  <2>1. c \in Procs
    BY DEF Procs
  <2> QED
    BY <2>1, <1>3, <1>4, <1>5, <1>6, <1>12, <1>14, <1>15, <1>16, <1>18, <1>30 DEF CallStep, CallMiddle
<1>31. ASSUME NEW p \in PolicyWorkers, PolicyWorkerStep(p) PROVE TypeOK' /\ LocalsAgree'
  <2>1. p \in Procs
    BY DEF Procs
  <2> QED
    BY <2>1, <1>20, <1>21, <1>22, <1>23, <1>24, <1>25, <1>28, <1>31 DEF PolicyWorkerStep
<1> QED
  <2>1. TtlWorkers \subseteq Procs
    BY DEF Procs
  <2> QED
    BY <2>1, <1>19, <1>26, <1>27, <1>28, <1>29, <1>30, <1>31 DEF Next

\* Every reachable state is typed, and the thread-local values are those of the
\* step each thread is at (all operations of lib.rs and both workers).
THEOREM TypeCorrectness == Spec => [](TypeOK /\ LocalsAgree)
<1>1. Init => Typed
    BY TypedInit
<1>2. Typed /\ [Next]_vars => Typed'
    BY TypedStep
<1>3. Typed => TypeOK /\ LocalsAgree
    BY DEF Typed
<1> QED
    BY <1>1, <1>2, <1>3, PTL DEF Spec
-----------------------------------------------------------------------------
(***************************************************************************)
(* Accounting.  The argument: a map update moves an amount from "stored"   *)
(* to the deltas in flight, a counter update moves it from there into the  *)
(* counter, and both amounts are small enough for wrapping to be undone.   *)
(***************************************************************************)

\* What may be stored, or in flight, stays below the counters' range.
LEMMA WithinModulus ==
    /\ Cardinality(HashedKeys) \in Nat /\ Cardinality(Procs) \in Nat
    /\ MaxBaseSize \in Nat /\ Modulus \in Nat
    /\ Cardinality(HashedKeys) * MaxBaseSize \in Nat
    /\ Cardinality(Procs) * MaxBaseSize \in Nat
    /\ Cardinality(HashedKeys) * MaxBaseSize + Cardinality(Procs) * MaxBaseSize < Modulus
    /\ Cardinality(HashedKeys) + Cardinality(Procs) < Modulus
<1>1. Cardinality(HashedKeys) \in Nat
    BY RangeAssumption, FS_CardinalityType, Zenon
<1>2. Cardinality(Procs) \in Nat
    BY RangeAssumption, FS_CardinalityType, Zenon
<1>3. \A a, b, m \in Nat :
        /\ (a + b) * (m + 1) = a * m + b * m + a + b
        /\ a * m \in Nat /\ b * m \in Nat
    OBVIOUS
<1> QED
    BY <1>1, <1>2, <1>3, RangeAssumption, SizesAssumption

\* Within one range of the modulus, wrapping adds or subtracts it once.
LEMMA ModShift ==
    \A n \in -Modulus .. 2 * Modulus - 1 :
        Wrap(n) = IF n < 0 THEN n + Modulus
                  ELSE IF n < Modulus THEN n ELSE n - Modulus
<1>1. Modulus \in Nat
    BY WithinModulus
<1> QED
    BY <1>1 DEF Wrap

\* A counter that holds n holds n + d after d is added, if both are in range.
LEMMA HoldsAdd ==
    ASSUME NEW counter, NEW n \in Int, NEW d \in Int, Holds(counter, n),
           -Modulus < n, n < Modulus, -Modulus < n + d, n + d < Modulus
    PROVE  Holds(Wrap(counter + d), n + d)
<1>1. Modulus \in Nat
    BY WithinModulus
<1>2. counter = (IF n < 0 THEN n + Modulus ELSE n)
    BY DEF Holds
<1>3. counter + d \in -Modulus .. 2 * Modulus - 1
    BY <1>1, <1>2
<1>4. Wrap(counter + d) = IF counter + d < 0 THEN counter + d + Modulus
                          ELSE IF counter + d < Modulus THEN counter + d
                          ELSE counter + d - Modulus
    BY <1>1, <1>2, <1>3, ModShift
<1> QED
    BY <1>1, <1>2, <1>4 DEF Holds

\* The sums of the accounting identity are natural numbers in range.
LEMMA SumsRange ==
    /\ StoredSize \in Nat /\ StoredSize <= Cardinality(HashedKeys) * MaxBaseSize
    /\ SumOf(credit, Procs) \in Nat /\ SumOf(credit, Procs) <= Cardinality(Procs) * MaxBaseSize
    /\ SumOf(debit, Procs) \in Nat /\ SumOf(debit, Procs) <= Cardinality(Procs) * MaxBaseSize
  BY TotalRange, RangeAssumption, SizesAssumption DEF StoredSize, SumOf

\* So are the counts.
LEMMA CountsRange ==
    /\ IsFiniteSet(StoredKeys) /\ IsFiniteSet(Uncounted) /\ IsFiniteSet(StillCounted)
    /\ Cardinality(StoredKeys) \in Nat /\ Cardinality(StoredKeys) <= Cardinality(HashedKeys)
    /\ Cardinality(Uncounted) \in Nat /\ Cardinality(Uncounted) <= Cardinality(Procs)
    /\ Cardinality(StillCounted) \in Nat /\ Cardinality(StillCounted) <= Cardinality(Procs)
<1>1. StoredKeys \in SUBSET HashedKeys /\ Uncounted \in SUBSET Procs /\ StillCounted \in SUBSET Procs
    BY DEF StoredKeys, Uncounted, StillCounted
<1>2. IsFiniteSet(StoredKeys) /\ Cardinality(StoredKeys) <= Cardinality(HashedKeys)
    BY <1>1, RangeAssumption, FS_Subset, Zenon
<1>3. IsFiniteSet(Uncounted) /\ Cardinality(Uncounted) <= Cardinality(Procs)
    BY <1>1, RangeAssumption, FS_Subset, Zenon
<1>4. IsFiniteSet(StillCounted) /\ Cardinality(StillCounted) <= Cardinality(Procs)
    BY <1>1, RangeAssumption, FS_Subset, Zenon
<1>5. Cardinality(StoredKeys) \in Nat
    BY <1>2, FS_CardinalityType, Zenon
<1>6. Cardinality(Uncounted) \in Nat
    BY <1>3, FS_CardinalityType, Zenon
<1>7. Cardinality(StillCounted) \in Nat
    BY <1>4, FS_CardinalityType, Zenon
<1> QED
    BY <1>2, <1>3, <1>4, <1>5, <1>6, <1>7

\* Changing one term of a sum changes the sum by the difference.
LEMMA SumUpdate ==
    ASSUME NEW S, IsFiniteSet(S), NEW f, NEW g, NEW x \in S,
           f[x] \in 0 .. MaxBaseSize, g[x] \in 0 .. MaxBaseSize,
           \A y \in S \ {x} : g[y] = f[y]
    PROVE  SumOf(g, S) = SumOf(f, S) - f[x] + g[x]
  BY TotalUpdate, SizesAssumption DEF SumOf

\* A new cache stores nothing and counts nothing.
LEMMA AccountingInit == Init => NoWipe /\ AccountedFor
<1> SUFFICES ASSUME Init PROVE NoWipe /\ AccountedFor
    OBVIOUS
<1>1. StoredSize = 0
  <2>1. \A h \in HashedKeys : Sizes[h] = 0
    BY DEF Init, Sizes, BaseSize
  <2> QED
    BY <2>1, TotalOfZeros, SizesAssumption DEF StoredSize, SumOf
<1>2. SumOf(credit, Procs) = 0
  <2>1. \A p \in Procs : credit[p] = 0
    BY DEF Init
  <2> QED
    BY <2>1, TotalOfZeros, SizesAssumption DEF SumOf
<1>3. SumOf(debit, Procs) = 0
  <2>1. \A p \in Procs : debit[p] = 0
    BY DEF Init
  <2> QED
    BY <2>1, TotalOfZeros, SizesAssumption DEF SumOf
<1>4. StoredKeys = {} /\ Uncounted = {} /\ StillCounted = {}
    BY DEF Init, StoredKeys, Uncounted, StillCounted
<1>5. Cardinality({}) = 0
    BY FS_EmptySet
<1>6. base_used_size = 0 /\ num_objects = 0
    BY DEF Init
<1>7. AccountedFor
    BY <1>1, <1>2, <1>3, <1>4, <1>5, <1>6 DEF AccountedFor, SizeAccounting, CountAccounting, Holds
<1>8. NoWipe
    BY DEF Init, NoWipe, Wiping
<1> QED
    BY <1>7, <1>8

\* Storing v in place of the object at h changes the stored size by the difference.
LEMMA StoredSizeUpdate ==
    ASSUME TypeOK, NEW h \in HashedKeys, NEW o \in Objects \cup {NoObject},
           objects' = [objects EXCEPT ![h] = o]
    PROVE  StoredSize' = StoredSize - BaseSize(objects[h]) + BaseSize(o)
<1>1. \A x \in Objects \cup {NoObject} : BaseSize(x) \in 0 .. MaxBaseSize
    BY BaseSizeRange
<1>2. \A g \in HashedKeys : objects'[g] = IF g = h THEN o ELSE objects[g]
    BY DEF TypeOK
<1>3. Sizes' = [g \in HashedKeys |-> BaseSize(objects'[g])]
    BY DEF Sizes, BaseSize
<1>4. /\ Sizes[h] = BaseSize(objects[h]) /\ Sizes[h] \in 0 .. MaxBaseSize
      /\ Sizes'[h] = BaseSize(o) /\ Sizes'[h] \in 0 .. MaxBaseSize
      /\ \A g \in HashedKeys \ {h} : Sizes'[g] = Sizes[g]
    BY <1>1, <1>2, <1>3 DEF Sizes, TypeOK
<1>5. SumOf(Sizes', HashedKeys) = SumOf(Sizes, HashedKeys) - Sizes[h] + Sizes'[h]
    BY <1>4, SumUpdate, RangeAssumption
<1>6. StoredSize' = SumOf(Sizes', HashedKeys)
    BY DEF StoredSize, SumOf
<1> QED
    BY <1>4, <1>5, <1>6 DEF StoredSize

\* A step that leaves the map, the counters, the deltas and the two sets of
\* threads in flight alone leaves the accounts alone.
LEMMA QuietStep ==
    ASSUME AccountedFor, Uncounted' = Uncounted, StillCounted' = StillCounted,
           UNCHANGED <<objects, base_used_size, num_objects, credit, debit>>
    PROVE  AccountedFor'
<1>1. StoredSize' = StoredSize /\ StoredKeys' = StoredKeys
    BY DEF StoredSize, StoredKeys, Sizes, SumOf, BaseSize
<1>2. SumOf(credit, Procs)' = SumOf(credit, Procs) /\ SumOf(debit, Procs)' = SumOf(debit, Procs)
    BY DEF SumOf
<1> QED
    BY <1>1, <1>2 DEF AccountedFor, SizeAccounting, CountAccounting, Holds

\* A thread that moves between steps with nothing in flight changes neither set.
LEMMA QuietMove ==
    ASSUME TypeOK, NEW p \in Procs, NEW label, pc' = [pc EXCEPT ![p] = label],
           pc[p] \notin {"incr", "erase_base", "decr"},
           label \notin {"incr", "erase_base", "decr"}
    PROVE  Uncounted' = Uncounted /\ StillCounted' = StillCounted
  BY DEF TypeOK, Uncounted, StillCounted

\* Instances of SumUpdate for the deltas in flight.
LEMMA DeltaUpdate ==
    ASSUME NEW f, NEW g, NEW p \in Procs,
           f[p] \in 0 .. MaxBaseSize, g[p] \in 0 .. MaxBaseSize,
           \A q \in Procs \ {p} : g[q] = f[q]
    PROVE  SumOf(g, Procs) = SumOf(f, Procs) - f[p] + g[p]
<1>1. IsFiniteSet(Procs)
    BY RangeAssumption
<1> QED
    BY <1>1, SumUpdate

\* A map update puts into flight exactly what it changes.
LEMMA MapStep ==
    ASSUME TypeOK, SizeAccounting, NEW p \in Procs, NEW h \in HashedKeys,
           NEW o \in Objects \cup {NoObject},
           objects' = [objects EXCEPT ![h] = o], base_used_size' = base_used_size,
           credit[p] = 0, credit'[p] = BaseSize(o),
           debit[p] = 0, debit'[p] = BaseSize(objects[h]),
           \A q \in Procs \ {p} : credit'[q] = credit[q] /\ debit'[q] = debit[q]
    PROVE  SizeAccounting'
<1>1. BaseSize(o) \in 0 .. MaxBaseSize /\ BaseSize(objects[h]) \in 0 .. MaxBaseSize
    BY BaseSizeRange DEF TypeOK
<1>2. StoredSize' = StoredSize - BaseSize(objects[h]) + BaseSize(o)
    BY StoredSizeUpdate
<1>3. /\ credit[p] \in 0 .. MaxBaseSize /\ credit'[p] \in 0 .. MaxBaseSize
      /\ debit[p] \in 0 .. MaxBaseSize /\ debit'[p] \in 0 .. MaxBaseSize
    BY <1>1 DEF TypeOK
<1>4. SumOf(credit', Procs) = SumOf(credit, Procs) - credit[p] + credit'[p]
    BY <1>3, DeltaUpdate
<1>5. SumOf(debit', Procs) = SumOf(debit, Procs) - debit[p] + debit'[p]
    BY <1>3, DeltaUpdate
<1>6. SumOf(credit, Procs)' = SumOf(credit', Procs) /\ SumOf(debit, Procs)' = SumOf(debit', Procs)
    BY DEF SumOf
<1>7. StoredSize' - SumOf(credit, Procs)' + SumOf(debit, Procs)'
        = StoredSize - SumOf(credit, Procs) + SumOf(debit, Procs)
    BY <1>1, <1>2, <1>4, <1>5, <1>6, SumsRange
<1> QED
    BY <1>7 DEF SizeAccounting, Holds

\* A counter update takes out of flight exactly what it adds.
LEMMA CounterStep ==
    ASSUME TypeOK, SizeAccounting, NEW p \in Procs, UpdateBaseUsedSize(p)
    PROVE  SizeAccounting'
<1> DEFINE exact == StoredSize - SumOf(credit, Procs) + SumOf(debit, Procs)
           delta == credit[p] - debit[p]
<1>1. /\ credit' = [credit EXCEPT ![p] = 0] /\ debit' = [debit EXCEPT ![p] = 0]
      /\ base_used_size' = Wrap(base_used_size + credit[p] - debit[p])
      /\ objects' = objects
    BY DEF UpdateBaseUsedSize
<1>2. /\ credit[p] \in 0 .. MaxBaseSize /\ debit[p] \in 0 .. MaxBaseSize
      /\ credit'[p] = 0 /\ \A q \in Procs \ {p} : credit'[q] = credit[q]
      /\ debit'[p] = 0 /\ \A q \in Procs \ {p} : debit'[q] = debit[q]
      /\ credit'[p] \in 0 .. MaxBaseSize /\ debit'[p] \in 0 .. MaxBaseSize
    BY <1>1, SizesAssumption DEF TypeOK
<1>3. SumOf(credit', Procs) = SumOf(credit, Procs) - credit[p] + credit'[p]
    BY <1>2, DeltaUpdate
<1>4. SumOf(debit', Procs) = SumOf(debit, Procs) - debit[p] + debit'[p]
    BY <1>2, DeltaUpdate
<1>5. /\ SumOf(credit, Procs)' = SumOf(credit', Procs)
      /\ SumOf(debit, Procs)' = SumOf(debit', Procs)
      /\ StoredSize' = StoredSize
    BY <1>1 DEF SumOf, StoredSize, Sizes, BaseSize
<1>6. /\ SumOf(credit', Procs) \in Nat
      /\ SumOf(credit', Procs) <= Cardinality(Procs) * MaxBaseSize
      /\ SumOf(debit', Procs) \in Nat
      /\ SumOf(debit', Procs) <= Cardinality(Procs) * MaxBaseSize
    BY TotalRange, RangeAssumption, SizesAssumption DEF SumOf
<1>7. /\ exact \in Int /\ -Modulus < exact /\ exact < Modulus
      /\ delta \in Int /\ -Modulus < exact + delta /\ exact + delta < Modulus
    BY <1>2, <1>3, <1>4, <1>6, SumsRange, WithinModulus
<1>8. Holds(base_used_size, exact)
    BY DEF SizeAccounting
<1>9. base_used_size + credit[p] - debit[p] = base_used_size + delta
    BY <1>2 DEF TypeOK
<1>10. StoredSize' - SumOf(credit, Procs)' + SumOf(debit, Procs)' = exact + delta
    BY <1>2, <1>3, <1>4, <1>5, SumsRange
<1> HIDE DEF exact, delta
<1>11. Holds(Wrap(base_used_size + delta), exact + delta)
    BY <1>7, <1>8, HoldsAdd
<1> QED
    BY <1>1, <1>9, <1>10, <1>11 DEF SizeAccounting, Holds

\* A map update that neither adds nor removes an object keeps the count's account.
LEMMA ReplaceStep ==
    ASSUME CountAccounting, StoredKeys' = StoredKeys, Uncounted' = Uncounted,
           StillCounted' = StillCounted, num_objects' = num_objects
    PROVE  CountAccounting'
  BY DEF CountAccounting, Holds

\* entry.remove() by any thread keeps the accounts.
LEMMA TakeStep ==
    ASSUME TypeOK, LocalsAgree, AccountedFor, NEW p \in Procs, NEW h \in HashedKeys,
           TakeEntry(p, h), pc[p] \in {"idle", "erase"},
           UNCHANGED <<base_used_size, num_objects, credit>>
    PROVE  AccountedFor'
<1>1. credit[p] = 0 /\ debit[p] = 0
    BY DEF LocalsAgree
<1>2. /\ objects' = [objects EXCEPT ![h] = NoObject] /\ objects[h] # NoObject
      /\ debit' = [debit EXCEPT ![p] = BaseSize(objects[h])]
      /\ pc' = [pc EXCEPT ![p] = "erase_base"]
    BY DEF TakeEntry, Goto
<1>3. /\ credit'[p] = BaseSize(NoObject) /\ debit'[p] = BaseSize(objects[h])
      /\ \A q \in Procs \ {p} : credit'[q] = credit[q] /\ debit'[q] = debit[q]
    BY <1>1, <1>2 DEF TypeOK, BaseSize
<1>4. SizeAccounting'
    BY <1>1, <1>2, <1>3, MapStep DEF AccountedFor
<1>5. /\ StoredKeys' = StoredKeys \ {h} /\ h \in StoredKeys
      /\ StillCounted' = StillCounted \cup {p} /\ p \notin StillCounted
      /\ Uncounted' = Uncounted
    BY <1>2 DEF TypeOK, StoredKeys, StillCounted, Uncounted
<1>6. Cardinality(StoredKeys \ {h}) = Cardinality(StoredKeys) - 1
    BY <1>5, CountsRange, FS_RemoveElement, Zenon
<1>7. Cardinality(StillCounted \cup {p}) = Cardinality(StillCounted) + 1
    BY <1>5, CountsRange, FS_AddElement, Zenon
<1>8. CountAccounting'
    BY <1>5, <1>6, <1>7, CountsRange DEF AccountedFor, CountAccounting, Holds
<1> QED
    BY <1>4, <1>8 DEF AccountedFor

\* No step but WipeStart gets a thread into a wipe.
LEMMA WipeEntered ==
    ASSUME TypeOK, [Next]_vars, NEW q \in Procs, pc[q] \notin Wiping, pc'[q] \in Wiping
    PROVE  q \in Wipers /\ WipeStart(q)
<1> DEFINE Enters == pc'[q] \in Wiping
<1> USE DEF Goto, TypeOK, Wiping
<1>1. ASSUME NEW p \in Procs, EraseStep(p) PROVE ~Enters
    BY <1>1 DEF EraseStep, EraseHashed, TakeEntry, EraseAbsent, UpdateBaseUsedSize,
                DecrNumObjects, Resume
<1>2. ASSUME NEW c \in Clients, CallBegin(c) PROVE ~Enters \/ (q \in Wipers /\ WipeStart(q))
  <2>1. ASSUME NEW k \in Keys, Del(c, k) PROVE ~Enters
    BY <2>1 DEF Del, TakeEntry, Procs
  <2>2. ASSUME NEW k \in Keys, Get(c, k) PROVE ~Enters
    BY <2>2 DEF Get, Procs
  <2>3. ASSUME NEW k \in Keys, NEW s \in ObjectSizes, NEW ttl \in Ttls, SetCheck(c, k, s, ttl)
        PROVE ~Enters
    BY <2>3 DEF SetCheck, Procs
  <2>4. ASSUME NEW k \in Keys, NEW ttl \in Ttls, Ttl(c, k, ttl) PROVE ~Enters
    BY <2>4 DEF Ttl, Procs
  <2>5. ASSUME NEW size \in CacheSizes, ResizeCheck(c, size) PROVE ~Enters
    BY <2>5 DEF ResizeCheck, Procs
  <2>6. ASSUME c \in Wipers, WipeStart(c), c # q PROVE ~Enters
    BY <2>6 DEF WipeStart, Procs
  <2> HIDE DEF Enters
  <2> QED
    BY <1>2, <2>1, <2>2, <2>3, <2>4, <2>5, <2>6 DEF CallBegin
<1>3. ASSUME NEW c \in Clients, CallStep(c) PROVE ~Enters
    BY <1>3 DEF CallStep, CallMiddle, SetInsert, IncrNumObjects, UpdateBaseUsedSize, DecrNumObjects,
                Resume, Broadcast, WipeShard, ZeroBaseUsedSize, ZeroNumObjects,
                ResizeStore, Procs
<1>4. ASSUME NEW p \in PolicyWorkers, PolicyWorkerStep(p) PROVE ~Enters
  <2>1. p \in Procs
    BY DEF Procs
  <2>2. EraseStep(p) => ~Enters
    BY <1>1, <2>1
  <2>3. ~EraseStep(p) => ~Enters
    BY <1>4, <2>1 DEF PolicyWorkerStep, EvictStart, EvictLoadBase, EvictLoadNum,
                      EvictFromStack, EvictAny, EvictNothing
  <2> QED
    BY <2>2, <2>3
<1>5. ASSUME NEW p \in TtlWorkers, NEW h \in HashedKeys, TtlWorkerPop(p, h) PROVE ~Enters
    BY <1>5 DEF TtlWorkerPop
<1>6. Tick \/ UNCHANGED vars => ~Enters
    BY DEF Tick, vars
<1>7. TtlWorkers \subseteq Procs
    BY DEF Procs
<1>8. Enters
    OBVIOUS
<1> HIDE DEF Enters
<1> QED
    BY <1>1, <1>2, <1>3, <1>4, <1>5, <1>6, <1>7, <1>8 DEF Next

\* With no wipe under way every step keeps the accounts.
LEMMA AccountingStep ==
    ASSUME Typed, NoWipe, AccountedFor, [Next]_vars
    PROVE  AccountedFor'
<1> USE DEF Goto, Wiping
<1>0. TypeOK /\ LocalsAgree /\ AccountedFor /\ NoWipe
    BY DEF Typed
<1>1. ASSUME NEW c \in Clients, SetInsert(c) PROVE AccountedFor'
  <2> DEFINE h == HashOf[arg[c].key]
  <2>1. c \in Procs /\ arg[c] \in Objects
    BY <1>0, <1>1 DEF SetInsert, TypeOK, LocalsAgree, Procs
  <2>2. h \in HashedKeys
    BY <2>1, ObjectFields
  <2>3. credit[c] = 0 /\ debit[c] = 0
    BY <1>0, <1>1, <2>1 DEF SetInsert, LocalsAgree
  <2>4. /\ objects' = [objects EXCEPT ![h] = arg[c]] /\ base_used_size' = base_used_size
        /\ credit'[c] = BaseSize(arg[c]) /\ debit'[c] = BaseSize(objects[h])
        /\ \A q \in Procs \ {c} : credit'[q] = credit[q] /\ debit'[q] = debit[q]
    BY <1>0, <1>1, <2>1 DEF SetInsert, TypeOK
  <2> HIDE DEF h
  <2>5. SizeAccounting'
    BY <1>0, <2>1, <2>2, <2>3, <2>4, MapStep DEF AccountedFor
  <2>6. StillCounted' = StillCounted /\ num_objects' = num_objects
    BY <1>0, <1>1, <2>1 DEF SetInsert, TypeOK, StillCounted
  <2>7. CASE objects[h] # NoObject
    <3>1. StoredKeys' = StoredKeys
      BY <1>0, <2>1, <2>2, <2>4, <2>7, SentinelAssumption DEF TypeOK, StoredKeys
    <3>2. Uncounted' = Uncounted
      BY <1>0, <1>1, <2>1, <2>7 DEF SetInsert, TypeOK, Uncounted, h
    <3> QED
      BY <1>0, <2>5, <2>6, <3>1, <3>2, ReplaceStep DEF AccountedFor
  <2>8. CASE objects[h] = NoObject
    <3>1. StoredKeys' = StoredKeys \cup {h} /\ h \notin StoredKeys
      BY <1>0, <2>1, <2>2, <2>4, <2>8, SentinelAssumption DEF TypeOK, StoredKeys
    <3>2. Uncounted' = Uncounted \cup {c} /\ c \notin Uncounted
      BY <1>0, <1>1, <2>1, <2>8 DEF SetInsert, TypeOK, Uncounted, h
    <3>3. Cardinality(StoredKeys \cup {h}) = Cardinality(StoredKeys) + 1
      BY <3>1, CountsRange, FS_AddElement, Zenon
    <3>4. Cardinality(Uncounted \cup {c}) = Cardinality(Uncounted) + 1
      BY <3>2, CountsRange, FS_AddElement, Zenon
    <3>5. CountAccounting'
      BY <1>0, <2>6, <3>1, <3>2, <3>3, <3>4, CountsRange
         DEF AccountedFor, CountAccounting, Holds
    <3> QED
      BY <2>5, <3>5 DEF AccountedFor
  <2> QED
    BY <2>7, <2>8
<1>2. ASSUME NEW c \in Clients, IncrNumObjects(c) PROVE AccountedFor'
  <2>1. Uncounted' = Uncounted \ {c} /\ c \in Uncounted /\ StillCounted' = StillCounted
    BY <1>0, <1>2 DEF IncrNumObjects, TypeOK, Procs, Uncounted, StillCounted
  <2>2. StoredSize' = StoredSize /\ StoredKeys' = StoredKeys
    BY <1>2 DEF IncrNumObjects, StoredSize, StoredKeys, Sizes, SumOf, BaseSize
  <2>3. SizeAccounting'
    BY <1>0, <1>2, <2>2 DEF IncrNumObjects, AccountedFor, SizeAccounting, Holds, SumOf
  <2>4. Cardinality(Uncounted \ {c}) = Cardinality(Uncounted) - 1
    BY <2>1, CountsRange, FS_RemoveElement, Zenon
  <2> DEFINE exact == Cardinality(StoredKeys) - Cardinality(Uncounted) + Cardinality(StillCounted)
  <2>5. Cardinality(Uncounted') \in Nat
    BY <2>1, <2>4, CountsRange, FS_CardinalityType, FS_RemoveElement
  <2>6. /\ exact \in Int /\ -Modulus < exact /\ exact < Modulus
        /\ 1 \in Int /\ -Modulus < exact + 1 /\ exact + 1 < Modulus
    BY <2>1, <2>4, <2>5, CountsRange, WithinModulus
  <2>7. Holds(num_objects, exact)
    BY <1>0 DEF AccountedFor, CountAccounting
  <2>8. (Cardinality(StoredKeys) - Cardinality(Uncounted) + Cardinality(StillCounted))' = exact + 1
    BY <2>1, <2>2, <2>4, CountsRange
  <2> HIDE DEF exact
  <2>9. Holds(Wrap(num_objects + 1), exact + 1)
    BY <2>6, <2>7, HoldsAdd
  <2>10. CountAccounting'
    BY <1>2, <2>8, <2>9 DEF IncrNumObjects, CountAccounting, Holds
  <2> QED
    BY <2>3, <2>10 DEF AccountedFor
<1>3. ASSUME NEW p \in Procs, UpdateBaseUsedSize(p) PROVE AccountedFor'
  <2>1. SizeAccounting'
    BY <1>0, <1>3, CounterStep DEF AccountedFor
  <2>2. /\ StoredKeys' = StoredKeys /\ Uncounted' = Uncounted
        /\ StillCounted' = StillCounted /\ num_objects' = num_objects
    BY <1>0, <1>3 DEF UpdateBaseUsedSize, TypeOK, StoredKeys, Uncounted, StillCounted
  <2> QED
    BY <1>0, <2>1, <2>2, ReplaceStep DEF AccountedFor
<1>4. ASSUME NEW c \in Clients, NEW k \in Keys, NEW ttl \in Ttls, Ttl(c, k, ttl)
      PROVE  AccountedFor'
  <2> DEFINE h   == HashOf[k]
             new == [objects[h] EXCEPT !.expiry = ExpiryFromTtl(ttl)]
  <2>1. c \in Procs /\ h \in HashedKeys /\ pc[c] = "idle"
    BY <1>4, HashAssumption DEF Ttl, Procs
  <2>2. objects[h] \in Objects
    BY <1>0, <1>4, <2>1 DEF Ttl, Visible, TypeOK
  <2>3. new \in Objects
    BY <1>0, <2>2, ExpiryType DEF TypeOK, Objects
  <2>4. credit[c] = 0 /\ debit[c] = 0
    BY <1>0, <2>1 DEF LocalsAgree
  <2> HIDE DEF new
  <2>5. /\ objects' = [objects EXCEPT ![h] = new] /\ base_used_size' = base_used_size
        /\ credit'[c] = BaseSize(new) /\ debit'[c] = BaseSize(objects[h])
        /\ \A q \in Procs \ {c} : credit'[q] = credit[q] /\ debit'[q] = debit[q]
    BY <1>0, <1>4, <2>1 DEF Ttl, TypeOK, new
  <2> HIDE DEF h
  <2>6. SizeAccounting'
    BY <1>0, <2>1, <2>3, <2>4, <2>5, MapStep DEF AccountedFor
  <2>7. StoredKeys' = StoredKeys
    BY <1>0, <2>1, <2>2, <2>3, <2>5, SentinelAssumption DEF TypeOK, StoredKeys
  <2>8. Uncounted' = Uncounted /\ StillCounted' = StillCounted /\ num_objects' = num_objects
    BY <1>0, <1>4, <2>1 DEF Ttl, TypeOK, Uncounted, StillCounted
  <2> QED
    BY <1>0, <2>6, <2>7, <2>8, ReplaceStep DEF AccountedFor
<1>5. ASSUME NEW c \in Clients, NEW k \in Keys, Del(c, k) PROVE AccountedFor'
  <2>1. c \in Procs /\ HashOf[k] \in HashedKeys
    BY HashAssumption DEF Procs
  <2> QED
    BY <1>0, <1>5, <2>1, TakeStep DEF Del
<1>6. ASSUME NEW p \in Procs, EraseHashed(p) PROVE AccountedFor'
  <2>1. target[p] \in HashedKeys
    BY <1>0, <1>6 DEF EraseHashed, TypeOK, LocalsAgree
  <2> QED
    BY <1>0, <1>6, <2>1, TakeStep DEF EraseHashed
<1>7. ASSUME NEW p \in Procs, DecrNumObjects(p) PROVE AccountedFor'
  <2>1. StillCounted' = StillCounted \ {p} /\ p \in StillCounted /\ Uncounted' = Uncounted
    BY <1>0, <1>7 DEF DecrNumObjects, Resume, TypeOK, Uncounted, StillCounted
  <2>2. StoredSize' = StoredSize /\ StoredKeys' = StoredKeys
    BY <1>7 DEF DecrNumObjects, StoredSize, StoredKeys, Sizes, SumOf, BaseSize
  <2>3. SizeAccounting'
    BY <1>0, <1>7, <2>2 DEF DecrNumObjects, AccountedFor, SizeAccounting, Holds, SumOf
  <2>4. Cardinality(StillCounted \ {p}) = Cardinality(StillCounted) - 1
    BY <2>1, CountsRange, FS_RemoveElement, Zenon
  <2>5. IsFiniteSet(StillCounted \ {p})
    BY CountsRange, FS_RemoveElement, Zenon
  <2>6. Cardinality(StillCounted \ {p}) \in Nat
    BY <2>5, FS_CardinalityType, Zenon
  <2> DEFINE exact == Cardinality(StoredKeys) - Cardinality(Uncounted) + Cardinality(StillCounted)
  <2>7. /\ exact \in Int /\ -Modulus < exact /\ exact < Modulus
        /\ -1 \in Int /\ -Modulus < exact + (-1) /\ exact + (-1) < Modulus
    BY <2>4, <2>6, CountsRange, WithinModulus
  <2>8. Holds(num_objects, exact)
    BY <1>0 DEF AccountedFor, CountAccounting
  <2>9. (Cardinality(StoredKeys) - Cardinality(Uncounted) + Cardinality(StillCounted))' = exact + (-1)
    BY <2>1, <2>2, <2>4, CountsRange
  <2> HIDE DEF exact
  <2>10. Holds(Wrap(num_objects + (-1)), exact + (-1))
    BY <2>7, <2>8, HoldsAdd
  <2>11. num_objects' = Wrap(num_objects + (-1))
    BY <1>0, <1>7 DEF DecrNumObjects, TypeOK
  <2>12. CountAccounting'
    BY <2>9, <2>10, <2>11 DEF CountAccounting, Holds
  <2> QED
    BY <2>3, <2>12 DEF AccountedFor
<1>8. ASSUME NEW c \in Clients, NEW k \in Keys, Get(c, k) PROVE AccountedFor'
  <2>1. Uncounted' = Uncounted /\ StillCounted' = StillCounted
    BY <1>8, <1>0 DEF Get, TypeOK, Procs, Uncounted, StillCounted
  <2> QED
    BY <1>0, <1>8, <2>1, QuietStep DEF Get
<1>9. ASSUME NEW c \in Clients, NEW k \in Keys, NEW s \in ObjectSizes, NEW ttl \in Ttls,
             SetCheck(c, k, s, ttl)
      PROVE AccountedFor'
  <2>1. Uncounted' = Uncounted /\ StillCounted' = StillCounted
    BY <1>9, <1>0 DEF SetCheck, TypeOK, Procs, Uncounted, StillCounted
  <2> QED
    BY <1>0, <1>9, <2>1, QuietStep DEF SetCheck
<1>10. ASSUME NEW c \in Clients, Broadcast(c) PROVE AccountedFor'
  <2>1. Uncounted' = Uncounted /\ StillCounted' = StillCounted
    BY <1>10, <1>0 DEF Broadcast, TypeOK, Procs, Uncounted, StillCounted
  <2> QED
    BY <1>0, <1>10, <2>1, QuietStep DEF Broadcast
<1>11. ASSUME NEW p \in Procs, EraseAbsent(p) PROVE AccountedFor'
  <2>1. Uncounted' = Uncounted /\ StillCounted' = StillCounted
    BY <1>11, <1>0 DEF EraseAbsent, Resume, TypeOK, Procs, Uncounted, StillCounted
  <2> QED
    BY <1>0, <1>11, <2>1, QuietStep DEF EraseAbsent, Resume
<1>12. ASSUME NEW c \in Clients, NEW size \in CacheSizes, ResizeCheck(c, size) PROVE AccountedFor'
  <2>1. Uncounted' = Uncounted /\ StillCounted' = StillCounted
    BY <1>12, <1>0 DEF ResizeCheck, TypeOK, Procs, Uncounted, StillCounted
  <2> QED
    BY <1>0, <1>12, <2>1, QuietStep DEF ResizeCheck
<1>13. ASSUME NEW c \in Clients, ResizeStore(c) PROVE AccountedFor'
  <2>1. Uncounted' = Uncounted /\ StillCounted' = StillCounted
    BY <1>13, <1>0 DEF ResizeStore, TypeOK, Procs, Uncounted, StillCounted
  <2> QED
    BY <1>0, <1>13, <2>1, QuietStep DEF ResizeStore
<1>14. ASSUME NEW p \in TtlWorkers, NEW h \in HashedKeys, TtlWorkerPop(p, h) PROVE AccountedFor'
  <2>1. Uncounted' = Uncounted /\ StillCounted' = StillCounted
    BY <1>14, <1>0 DEF TtlWorkerPop, TypeOK, Procs, Uncounted, StillCounted
  <2> QED
    BY <1>0, <1>14, <2>1, QuietStep DEF TtlWorkerPop
<1>15. ASSUME NEW p \in PolicyWorkers, EvictStart(p) PROVE AccountedFor'
  <2>1. Uncounted' = Uncounted /\ StillCounted' = StillCounted
    BY <1>15, <1>0 DEF EvictStart, TypeOK, Procs, Uncounted, StillCounted
  <2> QED
    BY <1>0, <1>15, <2>1, QuietStep DEF EvictStart
<1>16. ASSUME NEW p \in PolicyWorkers, EvictLoadBase(p) PROVE AccountedFor'
  <2>1. Uncounted' = Uncounted /\ StillCounted' = StillCounted
    BY <1>16, <1>0 DEF EvictLoadBase, TypeOK, Procs, Uncounted, StillCounted
  <2> QED
    BY <1>0, <1>16, <2>1, QuietStep DEF EvictLoadBase
<1>17. ASSUME NEW p \in PolicyWorkers, EvictLoadNum(p) PROVE AccountedFor'
  <2>1. Uncounted' = Uncounted /\ StillCounted' = StillCounted
    BY <1>17, <1>0 DEF EvictLoadNum, TypeOK, Procs, Uncounted, StillCounted
  <2> QED
    BY <1>0, <1>17, <2>1, QuietStep DEF EvictLoadNum
<1>18. ASSUME NEW p \in PolicyWorkers, EvictFromStack(p) PROVE AccountedFor'
  <2>1. Uncounted' = Uncounted /\ StillCounted' = StillCounted
    BY <1>18, <1>0 DEF EvictFromStack, TypeOK, Procs, Uncounted, StillCounted
  <2> QED
    BY <1>0, <1>18, <2>1, QuietStep DEF EvictFromStack
<1>19. ASSUME NEW p \in PolicyWorkers, EvictAny(p) PROVE AccountedFor'
  <2>1. Uncounted' = Uncounted /\ StillCounted' = StillCounted
    BY <1>19, <1>0 DEF EvictAny, TypeOK, Procs, Uncounted, StillCounted
  <2> QED
    BY <1>0, <1>19, <2>1, QuietStep DEF EvictAny
<1>20. ASSUME NEW p \in PolicyWorkers, EvictNothing(p) PROVE AccountedFor'
  <2>1. Uncounted' = Uncounted /\ StillCounted' = StillCounted
    BY <1>20, <1>0 DEF EvictNothing, TypeOK, Procs, Uncounted, StillCounted
  <2> QED
    BY <1>0, <1>20, <2>1, QuietStep DEF EvictNothing
<1>21. ASSUME Tick PROVE AccountedFor'
  <2>1. Uncounted' = Uncounted /\ StillCounted' = StillCounted
    BY <1>21, <1>0 DEF Tick, TypeOK, Procs, Uncounted, StillCounted
  <2> QED
    BY <1>0, <1>21, <2>1, QuietStep DEF Tick
<1>22. ASSUME UNCHANGED vars PROVE AccountedFor'
  <2>1. Uncounted' = Uncounted /\ StillCounted' = StillCounted
    BY <1>22, <1>0 DEF vars, TypeOK, Procs, Uncounted, StillCounted
  <2> QED
    BY <1>0, <1>22, <2>1, QuietStep DEF vars
<1>23. ASSUME NEW c \in Clients, WipeStart(c) PROVE AccountedFor'
  <2>1. Uncounted' = Uncounted /\ StillCounted' = StillCounted
    BY <1>23, <1>0 DEF WipeStart, TypeOK, Procs, Uncounted, StillCounted
  <2> QED
    BY <1>0, <1>23, <2>1, QuietStep DEF WipeStart
<1>24. ASSUME NEW c \in Clients
      PROVE  ~WipeShard(c) /\ ~ZeroBaseUsedSize(c) /\ ~ZeroNumObjects(c)
    BY <1>0 DEF NoWipe, WipeShard, ZeroBaseUsedSize, ZeroNumObjects, Procs
<1>25. ASSUME NEW p \in Procs, EraseStep(p) PROVE AccountedFor'
    BY <1>3, <1>6, <1>7, <1>11, <1>25 DEF EraseStep
<1>26. ASSUME NEW c \in Clients, CallBegin(c) PROVE AccountedFor'
    BY <1>4, <1>5, <1>8, <1>9, <1>12, <1>23, <1>26 DEF CallBegin
<1>27. ASSUME NEW c \in Clients, CallStep(c) PROVE AccountedFor'
  <2>1. c \in Procs
    BY DEF Procs
  <2> QED
    BY <2>1, <1>1, <1>2, <1>3, <1>7, <1>10, <1>13, <1>24, <1>27 DEF CallStep, CallMiddle
<1>28. ASSUME NEW p \in PolicyWorkers, PolicyWorkerStep(p) PROVE AccountedFor'
  <2>1. p \in Procs
    BY DEF Procs
  <2> QED
    BY <2>1, <1>15, <1>16, <1>17, <1>18, <1>19, <1>20, <1>25, <1>28 DEF PolicyWorkerStep
<1>29. TtlWorkers \subseteq Procs
    BY DEF Procs
<1> QED
    BY <1>14, <1>21, <1>22, <1>25, <1>26, <1>27, <1>28, <1>29 DEF Next

-----------------------------------------------------------------------------
(***************************************************************************)
(* Wipes that run alone.  Beside such a wipe nothing changes the map or a  *)
(* counter, so what it has cleared stays cleared and zero is right.        *)
(***************************************************************************)

\* Of a wiping thread: only the shards it has yet to clear hold anything, and the
\* counter it has zeroed is still zero.
CleanWipe ==
    \A p \in Procs : pc[p] \in Wiping =>
        /\ \A h \in HashedKeys : objects[h] # NoObject => pc[p] = "clear" /\ h \in remaining[p]
        /\ pc[p] = "zero_num" => base_used_size = 0

\* The inductive invariant.
AccountingInv == Typed /\ Accounting /\ CleanWipe

\* A thread is at one step of its wipe, or stays where it is and the map and the
\* used size with it.
LEMMA BesideAWipe ==
    ASSUME TypeOK, WipesAlone, WipesAlone', [Next]_vars, NEW w \in Procs, pc[w] \in Wiping
    PROVE  \/ WipeShard(w) \/ ZeroBaseUsedSize(w) \/ ZeroNumObjects(w)
           \/ UNCHANGED <<objects, base_used_size, pc[w], remaining[w]>>
<1> DEFINE Stays == UNCHANGED <<objects, base_used_size, pc[w], remaining[w]>>
           Wipes == WipeShard(w) \/ ZeroBaseUsedSize(w) \/ ZeroNumObjects(w)
<1> USE DEF Goto, TypeOK, Wiping, Updating
<1>1. ASSUME NEW p \in Procs, pc[p] \in Updating \cup Wiping, p # w PROVE FALSE
    BY <1>1 DEF WipesAlone
<1>2. ASSUME NEW p \in Procs, pc'[p] \in Updating, p # w, pc'[w] = pc[w] PROVE FALSE
    BY <1>2 DEF WipesAlone
<1>3. ASSUME NEW p \in Procs, NEW h, TakeEntry(p, h), pc[p] \in {"idle", "erase"} PROVE FALSE
    BY <1>2, <1>3 DEF TakeEntry
<1>4. ASSUME NEW p \in Procs, EraseStep(p) PROVE Stays
  <2>1. CASE EraseHashed(p)
    BY <1>3, <2>1 DEF EraseHashed
  <2>2. CASE EraseAbsent(p)
    BY <2>2 DEF EraseAbsent
  <2>3. CASE UpdateBaseUsedSize(p)
    BY <1>1, <2>3 DEF UpdateBaseUsedSize
  <2>4. CASE DecrNumObjects(p)
    BY <1>1, <2>4 DEF DecrNumObjects
  <2> QED
    BY <1>4, <2>1, <2>2, <2>3, <2>4 DEF EraseStep
<1>5. ASSUME NEW c \in Clients, CallBegin(c) PROVE Stays
  <2>1. c \in Procs
    BY DEF Procs
  <2>2. ASSUME NEW k \in Keys, Del(c, k) PROVE Stays
    BY <1>3, <2>1, <2>2 DEF Del
  <2>3. ASSUME NEW k \in Keys, Get(c, k) PROVE Stays
    BY <2>1, <2>3 DEF Get
  <2>4. ASSUME NEW k \in Keys, NEW s \in ObjectSizes, NEW ttl \in Ttls, SetCheck(c, k, s, ttl)
        PROVE Stays
    BY <2>1, <2>4 DEF SetCheck
  <2>5. ASSUME NEW k \in Keys, NEW ttl \in Ttls, Ttl(c, k, ttl) PROVE Stays
    BY <1>2, <2>1, <2>5 DEF Ttl
  <2>6. ASSUME NEW size \in CacheSizes, ResizeCheck(c, size) PROVE Stays
    BY <2>1, <2>6 DEF ResizeCheck
  <2>7. ASSUME WipeStart(c) PROVE Stays
    BY <2>1, <2>7 DEF WipeStart
  <2> HIDE DEF Stays
  <2> QED
    BY <1>5, <2>2, <2>3, <2>4, <2>5, <2>6, <2>7 DEF CallBegin
<1>6. ASSUME NEW c \in Clients, CallStep(c) PROVE Stays \/ Wipes
  <2>1. c \in Procs
    BY DEF Procs
  <2>2. CASE SetInsert(c)
    BY <1>2, <2>1, <2>2 DEF SetInsert
  <2>3. CASE IncrNumObjects(c)
    BY <1>1, <2>1, <2>3 DEF IncrNumObjects
  <2>4. CASE UpdateBaseUsedSize(c) \/ DecrNumObjects(c)
    BY <1>4, <2>1, <2>4 DEF EraseStep
  <2>5. CASE WipeShard(c) \/ ZeroBaseUsedSize(c) \/ ZeroNumObjects(c)
    BY <1>1, <2>1, <2>5 DEF WipeShard, ZeroBaseUsedSize, ZeroNumObjects
  <2>6. CASE ResizeStore(c)
    BY <2>1, <2>6 DEF ResizeStore
  <2>7. CASE Broadcast(c)
    BY <2>1, <2>7 DEF Broadcast
  <2> HIDE DEF Stays, Wipes
  <2> QED
    BY <1>6, <2>2, <2>3, <2>4, <2>5, <2>6, <2>7 DEF CallStep, CallMiddle
<1>7. ASSUME NEW p \in PolicyWorkers, PolicyWorkerStep(p) PROVE Stays
  <2>1. p \in Procs
    BY DEF Procs
  <2>2. CASE EraseStep(p)
    BY <1>4, <2>1, <2>2
  <2>3. CASE ~EraseStep(p)
    BY <1>7, <2>1, <2>3 DEF PolicyWorkerStep, EvictStart, EvictLoadBase, EvictLoadNum,
                            EvictFromStack, EvictAny, EvictNothing
  <2> QED
    BY <2>2, <2>3
<1>8. ASSUME NEW p \in TtlWorkers, NEW h \in HashedKeys, TtlWorkerPop(p, h) PROVE Stays
    BY <1>8 DEF TtlWorkerPop, Procs
<1>9. Tick \/ UNCHANGED vars => Stays
    BY DEF Tick, vars
<1>10. TtlWorkers \subseteq Procs
    BY DEF Procs
<1> HIDE DEF Stays, Wipes
<1>11. Stays \/ Wipes
    BY <1>4, <1>5, <1>6, <1>7, <1>8, <1>9, <1>10 DEF Next
<1> QED
    BY <1>11 DEF Stays, Wipes

\* A wipe that ends leaves an empty map, zero counters and nothing in flight.
LEMMA WipeEnds ==
    ASSUME Typed, CleanWipe, WipesAlone, NEW w \in Procs, ZeroNumObjects(w)
    PROVE  NoWipe' /\ AccountedFor'
<1>1. /\ \A h \in HashedKeys : objects[h] = NoObject
      /\ base_used_size = 0
    BY DEF ZeroNumObjects, CleanWipe, Wiping
<1>2. \A p \in Procs : pc[p] \notin Updating /\ pc'[p] \notin Updating \cup Wiping
    BY DEF ZeroNumObjects, WipesAlone, Typed, TypeOK, Goto, Updating, Wiping
<1>3. \A p \in Procs : credit[p] = 0 /\ debit[p] = 0
    BY <1>2 DEF Typed, LocalsAgree, Updating
<1>4. /\ objects' = objects /\ base_used_size' = base_used_size /\ num_objects' = 0
      /\ credit' = credit /\ debit' = debit
    BY DEF ZeroNumObjects
<1>5. SumOf(credit, Procs)' = 0 /\ SumOf(debit, Procs)' = 0
    BY <1>3, <1>4, TotalOfZeros, SizesAssumption DEF SumOf
<1>6. StoredSize' = 0
  <2>1. Sizes' = Sizes
    BY <1>4 DEF Sizes, BaseSize
  <2>2. \A h \in HashedKeys : Sizes[h] = 0
    BY <1>1 DEF Sizes, BaseSize
  <2> QED
    BY <2>1, <2>2, TotalOfZeros, SizesAssumption DEF StoredSize, SumOf
<1>7. StoredKeys' = {} /\ Uncounted' = {} /\ StillCounted' = {}
    BY <1>1, <1>2, <1>4 DEF StoredKeys, Uncounted, StillCounted, Updating
<1>8. Cardinality({}) = 0
    BY FS_EmptySet
<1>9. AccountedFor'
    BY <1>1, <1>4, <1>5, <1>6, <1>7, <1>8 DEF AccountedFor, SizeAccounting, CountAccounting, Holds
<1>10. NoWipe'
    BY <1>2 DEF NoWipe
<1> QED
    BY <1>9, <1>10

\* Every step between two states in which wipes run alone keeps the invariant.
LEMMA AccountingInvStep ==
    ASSUME AccountingInv, WipesAlone, WipesAlone', [Next]_vars
    PROVE  AccountingInv'
<1>0. Typed /\ TypeOK /\ Typed'
    BY TypedStep DEF AccountingInv, Typed
<1>1. CASE NoWipe
  <2>1. AccountedFor'
    BY <1>0, <1>1, AccountingStep DEF AccountingInv, Accounting
  <2>2. ASSUME NEW p \in Procs, pc'[p] \in Wiping
        PROVE  pc'[p] = "clear" /\ remaining'[p] = HashedKeys
    <3>1. p \in Wipers /\ WipeStart(p)
      BY <1>0, <1>1, <2>2, WipeEntered DEF NoWipe
    <3> QED
      BY <1>0, <3>1 DEF WipeStart, Goto, TypeOK
  <2> QED
    BY <1>0, <2>1, <2>2 DEF AccountingInv, Accounting, CleanWipe
<1>2. CASE ~NoWipe
  <2> PICK w \in Procs : pc[w] \in Wiping
    BY <1>2 DEF NoWipe
  <2>1. CASE ZeroNumObjects(w)
    <3>1. NoWipe' /\ AccountedFor'
      BY <1>0, <2>1, WipeEnds DEF AccountingInv
    <3> QED
      BY <1>0, <3>1 DEF AccountingInv, Accounting, CleanWipe, NoWipe
  <2>2. ASSUME pc'[w] \in Wiping,
               \A h \in HashedKeys : objects'[h] # NoObject =>
                   pc'[w] = "clear" /\ h \in remaining'[w],
               pc'[w] = "zero_num" => base_used_size' = 0
        PROVE  AccountingInv'
    <3>1. ~NoWipe'
      BY <2>2 DEF NoWipe
    <3>2. \A p \in Procs \ {w} : pc'[p] \notin Wiping
      BY <2>2 DEF WipesAlone
    <3> QED
      BY <1>0, <2>2, <3>1, <3>2 DEF AccountingInv, Accounting, CleanWipe
  <2>3. /\ \A h \in HashedKeys : objects[h] # NoObject => pc[w] = "clear" /\ h \in remaining[w]
        /\ pc[w] = "zero_num" => base_used_size = 0
    BY DEF AccountingInv, CleanWipe
  <2>4. CASE WipeShard(w)
    <3>1. PICK h \in remaining[w] :
            /\ objects' = [objects EXCEPT ![h] = NoObject]
            /\ remaining' = [remaining EXCEPT ![w] = @ \ {h}]
            /\ pc' = [pc EXCEPT ![w] = IF remaining[w] = {h} THEN "zero_base" ELSE "clear"]
      BY <2>4 DEF WipeShard, Goto
    <3>2. pc'[w] = (IF remaining[w] = {h} THEN "zero_base" ELSE "clear")
          /\ remaining'[w] = remaining[w] \ {h}
      BY <1>0, <3>1 DEF TypeOK
    <3>3. \A g \in HashedKeys : objects'[g] # NoObject => g # h /\ objects[g] # NoObject
      BY <1>0, <3>1 DEF TypeOK
    <3> QED
      BY <2>2, <2>3, <3>2, <3>3 DEF Wiping
  <2>5. CASE ZeroBaseUsedSize(w)
    <3>1. objects' = objects /\ base_used_size' = 0 /\ pc[w] = "zero_base" /\ pc'[w] = "zero_num"
      BY <1>0, <2>5 DEF ZeroBaseUsedSize, Goto, TypeOK
    <3> QED
      BY <2>2, <2>3, <3>1 DEF Wiping
  <2>6. CASE UNCHANGED <<objects, base_used_size, pc[w], remaining[w]>>
    BY <2>2, <2>3, <2>6
  <2> QED
    BY <1>0, <2>1, <2>4, <2>5, <2>6, BesideAWipe
<1> QED
    BY <1>1, <1>2

\* As long as no other thread is updating or wiping beside a wipe, used size and
\* object count never drift: under any interleaving of set, get, del, ttl, wipe and
\* resize with expiry and eviction they are what the map holds, up to the updates
\* threads are in the middle of.
THEOREM AccountingCorrectness == Spec => ([]WipesAlone => []Accounting)
<1>1. Init => AccountingInv
  <2> SUFFICES ASSUME Init PROVE AccountingInv
    OBVIOUS
  <2>1. Typed
    BY TypedInit
  <2>2. NoWipe /\ AccountedFor
    BY AccountingInit
  <2> QED
    BY <2>1, <2>2 DEF AccountingInv, Accounting, CleanWipe, NoWipe
<1>2. AccountingInv /\ WipesAlone /\ WipesAlone' /\ [Next]_vars => AccountingInv'
    BY AccountingInvStep
<1>3. AccountingInv => Accounting
    BY DEF AccountingInv
<1> QED
    BY <1>1, <1>2, <1>3, PTL DEF Spec

\* Then a status taken while no thread is between a change of the map and its
\* counters reports the sum of the stored sizes and the number of stored objects.
THEOREM AccountsAtRestCorrectness == Spec => ([]WipesAlone => []AccountsAtRest)
<1>1. Typed /\ Accounting => AccountsAtRest
  <2> SUFFICES ASSUME Typed, Accounting, AtRest
               PROVE  base_used_size = StoredSize /\ num_objects = Cardinality(StoredKeys)
    BY DEF AccountsAtRest
  <2>0. AccountedFor
    BY DEF Accounting, NoWipe, AtRest
  <2>1. \A p \in Procs : credit[p] = 0 /\ debit[p] = 0
    BY DEF Typed, LocalsAgree, AtRest, Updating
  <2>2. SumOf(credit, Procs) = 0 /\ SumOf(debit, Procs) = 0
    BY <2>1, TotalOfZeros, SizesAssumption DEF SumOf
  <2>3. Uncounted = {} /\ StillCounted = {}
    BY DEF AtRest, Uncounted, StillCounted, Updating
  <2>4. Cardinality({}) = 0
    BY FS_EmptySet
  <2> QED
    BY <2>0, <2>2, <2>3, <2>4, SumsRange, CountsRange
       DEF AccountedFor, SizeAccounting, CountAccounting, Holds
<1>2. Spec => []Typed
  <2>1. Init => Typed
    BY TypedInit
  <2>2. Typed /\ [Next]_vars => Typed'
    BY TypedStep
  <2> QED
    BY <2>1, <2>2, PTL DEF Spec
<1>3. Spec => ([]WipesAlone => []Accounting)
    BY AccountingCorrectness
<1> QED
    BY <1>1, <1>2, <1>3, PTL

\* Where no client may wipe, wipes run alone, and the theorems above hold outright.
THEOREM NoWipersCorrectness == Wipers = {} => (Spec => [](Accounting /\ AccountsAtRest))
<1> SUFFICES ASSUME Wipers = {} PROVE Spec => [](Accounting /\ AccountsAtRest)
    OBVIOUS
<1>1. Init => Typed /\ NoWipe
  <2>1. Init => NoWipe
    BY AccountingInit
  <2> QED
    BY <2>1, TypedInit
<1>2. Typed /\ NoWipe /\ [Next]_vars => Typed' /\ NoWipe'
  <2> SUFFICES ASSUME Typed, NoWipe, [Next]_vars PROVE Typed' /\ NoWipe'
    OBVIOUS
  <2>1. TypeOK
    BY DEF Typed
  <2>2. NoWipe'
    BY <2>1, WipeEntered DEF NoWipe
  <2> QED
    BY <2>2, TypedStep
<1>3. NoWipe => WipesAlone
    BY DEF NoWipe, WipesAlone
<1>4. Spec => ([]WipesAlone => []Accounting)
    BY AccountingCorrectness
<1>5. Spec => ([]WipesAlone => []AccountsAtRest)
    BY AccountsAtRestCorrectness
<1> QED
    BY <1>1, <1>2, <1>3, <1>4, <1>5, PTL DEF Spec

================================================================================
