-------------------------- MODULE PolicyStacksProofs ---------------------------
(***************************************************************************)
(* Whatever calls a policy worker makes, every stack holds the keys it was *)
(* told of and is sound within, and every stack but mru's implements what  *)
(* the eviction loop needs of it; clock and sieve give used keys another   *)
(* chance, fifo, lru and lfu evict in the order they promise, and 2q makes *)
(* room for a key it admits.                                               *)
(***************************************************************************)
EXTENDS PolicyStacks, StacksProofs

LEMMA CallsFit == Fits(HashedKeys, CacheSizes)
  BY StacksAssumption DEF Fits

\* Main of an s3-fifo stack has room for something, whatever the maximum size (with
\* the ratio 1.0 it has none, and evict_one returns None from a stack with keys).
MainHasRoom == "s3-fifo" \in Choices => 0 \notin MainSizes(CacheSizes)

-----------------------------------------------------------------------------
(***************************************************************************)
(* The inductive invariant                                                 *)
(***************************************************************************)

\* Between any two calls the stack is sane and holds the keys it was told of: just
\* those, or with mru, which takes keys up from gets as well, at least those.
StackInv ==
    /\ policy \in Choices
    /\ Sane(policy, stack, HashedKeys, CacheSizes)
    /\ told \subseteq HashedKeys
    /\ told \subseteq KeysIn(policy, stack)
    /\ Exact => told = KeysIn(policy, stack)

LEMMA StackStarts == Init => StackInv
<1> SUFFICES ASSUME Init PROVE StackInv
  OBVIOUS
<1>1. PICK max_size \in CacheSizes : stack = New(policy, max_size)
  BY DEF Init
<1>2. policy \in Choices /\ policy \in Policies /\ told = {}
  BY StacksAssumption DEF Init
<1>3. Then(policy, stack, {}, HashedKeys, CacheSizes)
  BY <1>1, <1>2, CallsFit, NewIsSane
<1> QED
  BY <1>2, <1>3 DEF StackInv, Then, Exact

\* A call that leaves the stack with the right keys keeps the invariant.
LEMMA CallKeeps ==
    ASSUME StackInv, policy' = policy, NEW keys, Then(policy, stack', keys, HashedKeys, CacheSizes),
           told' \subseteq HashedKeys, told' \subseteq keys, Exact => told' = keys
    PROVE  StackInv'
<1>1. Sane(policy, stack', HashedKeys, CacheSizes) /\ keys \subseteq KeysIn(policy, stack')
  BY DEF Then
<1>2. policy # "mru" => KeysIn(policy, stack') = keys
  BY DEF Then
<1> QED
  BY <1>1, <1>2 DEF StackInv, Exact

LEMMA StackSteps == StackInv /\ [Next]_vars => StackInv'
<1> SUFFICES ASSUME StackInv, [Next]_vars PROVE StackInv'
  OBVIOUS
<1>1. /\ policy \in Policies /\ Sane(policy, stack, HashedKeys, CacheSizes)
      /\ told \subseteq HashedKeys /\ told \subseteq KeysIn(policy, stack)
      /\ Exact => told = KeysIn(policy, stack)
  BY StacksAssumption DEF StackInv
<1>2. CASE UNCHANGED vars
  BY <1>2 DEF StackInv, vars, Exact
<1>3. ASSUME NEW k \in HashedKeys, Get(k) PROVE StackInv'
  <2>1. policy' = policy /\ stack' = Update(policy, stack, k) /\ told' = told
    BY <1>3 DEF Get, Call
  <2>2. Then(policy, stack', KeysIn(policy, stack), HashedKeys, CacheSizes)
    BY <1>1, <2>1, CallsFit, UpdateIsSane
  <2> QED
    BY <1>1, <2>1, <2>2, CallKeeps
<1>4. ASSUME NEW k \in HashedKeys, Del(k) PROVE StackInv'
  <2>1. policy' = policy /\ stack' = Remove(policy, stack, k) /\ told' = told \ {k}
    BY <1>4 DEF Del, Call
  <2>2. Then(policy, stack', KeysIn(policy, stack) \ {k}, HashedKeys, CacheSizes)
    BY <1>1, <2>1, CallsFit, RemoveIsSane
  <2>3. /\ told' \subseteq HashedKeys /\ told' \subseteq KeysIn(policy, stack) \ {k}
        /\ Exact => told' = KeysIn(policy, stack) \ {k}
    BY <1>1, <2>1
  <2> QED
    BY <2>1, <2>2, <2>3, CallKeeps
<1>5. ASSUME NEW k \in HashedKeys, NEW s \in ObjectSizes, Set(k, s) PROVE StackInv'
  <2>1. /\ policy' = policy /\ stack' = Insert(policy, stack, k, s) /\ told' = told \cup {k}
        /\ s \in Nat
    BY <1>5, StacksAssumption DEF Set, Call
  <2>2. Then(policy, stack', KeysIn(policy, stack) \cup {k}, HashedKeys, CacheSizes)
    BY <1>1, <2>1, CallsFit, InsertIsSane
  <2>3. /\ told' \subseteq HashedKeys /\ told' \subseteq KeysIn(policy, stack) \cup {k}
        /\ Exact => told' = KeysIn(policy, stack) \cup {k}
    BY <1>1, <2>1
  <2> QED
    BY <2>1, <2>2, <2>3, CallKeeps
<1>6. ASSUME NEW max_size \in CacheSizes, SetMaxSize(max_size) PROVE StackInv'
  <2>1. policy' = policy /\ stack' = Resize(policy, stack, max_size) /\ told' = told
    BY <1>6 DEF SetMaxSize, Call
  <2>2. Then(policy, stack', KeysIn(policy, stack), HashedKeys, CacheSizes)
    BY <1>1, <2>1, CallsFit, ResizeIsSane
  <2> QED
    BY <1>1, <2>1, <2>2, CallKeeps
<1>7. CASE Wipe
  <2>1. policy' = policy /\ stack' = Clear(policy, stack) /\ told' = {}
    BY <1>7 DEF Wipe, Call
  <2>2. Then(policy, stack', {}, HashedKeys, CacheSizes)
    BY <1>1, <2>1, CallsFit, ClearIsSane
  <2> QED
    BY <2>1, <2>2, CallKeeps
<1>8. CASE Evict
  <2> DEFINE evicted == EvictOne(policy, stack)
             keys    == KeysIn(policy, stack)
             left    == KeysIn(policy, stack')
  <2>1. policy' = policy /\ stack' = evicted.stack /\ told' = told \ {evicted.key}
    BY <1>8 DEF Evict, Call
  <2>2. /\ Sane(policy, stack', HashedKeys, CacheSizes) /\ keys \ {evicted.key} \subseteq left
        /\ Exact => \/ GivesUp(evicted, keys, left)
                    \/ evicted.key = NoKey /\ left = keys
    BY <1>1, <2>1, CallsFit, EvictIsSane DEF Evicts, Exact
  <2>3. told' \subseteq HashedKeys /\ told' \subseteq left
    BY <1>1, <2>1, <2>2
  <2>4. Exact => told' = left
    <3>1. CASE Exact /\ GivesUp(evicted, keys, left)
      BY <1>1, <2>1, <3>1 DEF GivesUp
    <3>2. CASE Exact /\ evicted.key = NoKey /\ left = keys
      BY <1>1, <2>1, <3>2, StacksAssumption
    <3> QED
      BY <2>2, <3>1, <3>2
  <2> QED
    BY <1>1, <2>1, <2>2, <2>3, <2>4 DEF StackInv, Exact
<1> QED
  BY <1>2, <1>3, <1>4, <1>5, <1>6, <1>7, <1>8 DEF Next

LEMMA StacksStaySane == Spec => []StackInv
  BY StackStarts, StackSteps, PTL DEF Spec

-----------------------------------------------------------------------------
(***************************************************************************)
(* What follows                                                            *)
(***************************************************************************)

\* No stack of the nine, mru's included, ever loses a key it was told of: whatever is
\* set, read, removed, wiped, resized and evicted, the key stays where an eviction
\* comes to it (the insert, update, remove, resize, clear and evict_one methods of
\* policy_stack/).
THEOREM NoKeyIsForgotten == Spec => []NothingForgotten
<1>1. StackInv => NothingForgotten
  BY DEF StackInv, NothingForgotten
<1> QED
  BY <1>1, StacksStaySane, PTL

\* The used sizes that 2q, s3-fifo and arc keep by adding and subtracting are the
\* sums of the sizes their lists hold, and no key is in two lists that exclude each
\* other (two_q_stack.rs, s_three_fifo_stack.rs, arc_stack.rs).
THEOREM UsedSizesAreSums == Spec => []SizesKept
<1>1. StackInv => SizesKept
  <2> SUFFICES ASSUME StackInv PROVE SizesKept
    OBVIOUS
  <2>1. CASE policy = "2q"
    <3>1. TwoQShape(stack, HashedKeys)
      BY <2>1 DEF StackInv, Sane
    <3> QED
      BY <2>1, <3>1, TwoQConsistent DEF SizesKept
  <2>2. CASE policy = "s3-fifo"
    <3>1. /\ SThreeShape(stack, HashedKeys, MainSizes(CacheSizes))
          /\ MainSizes(CacheSizes) \in SUBSET Nat
      BY <2>2, MainSizesAreNat, CallsFit DEF StackInv, Sane, Fits
    <3>2. SThree!Consistent(stack)
      BY <3>1, SThreeConsistent
    <3> QED
      BY <2>2, <3>2 DEF SizesKept
  <2>3. CASE policy = "arc"
    <3>1. ArcShape(stack, HashedKeys, CacheSizes)
      BY <2>3 DEF StackInv, Sane
    <3> QED
      BY <2>3, <3>1, ArcConsistent DEF SizesKept
  <2>4. CASE policy \notin {"2q", "s3-fifo", "arc"}
    BY <2>4 DEF SizesKept
  <2> QED
    BY <2>1, <2>2, <2>3, <2>4
<1> QED
  BY <1>1, StacksStaySane, PTL

\* No unwrap of an lfu stack fails: each key's index leads to the count stack that
\* holds it, none of them is empty, and their counts ascend (lfu_stack.rs).
THEOREM LfuIsConsistent == Spec => []NoUnwrapFails
<1>1. StackInv => NoUnwrapFails
  <2> SUFFICES ASSUME StackInv, policy = "lfu" PROVE Lfu!Consistent(stack)
    BY DEF NoUnwrapFails
  <2>1. LfuShape(stack, HashedKeys)
    BY DEF StackInv, Sane
  <2> QED
    BY <2>1, LfuConsistent
<1> QED
  BY <1>1, StacksStaySane, PTL

\* Each call of a stack other than mru's is a step of what the eviction loop needs,
\* and evict_one gives up a key whenever the stack was told of one.
LEMMA CallsImplement ==
    ASSUME MainHasRoom, StackInv, StackInv', Exact, [Next]_vars
    PROVE  [Promise!Next]_Promise!vars
<1>1. /\ policy \in Policies /\ policy \in Choices /\ Sane(policy, stack, HashedKeys, CacheSizes)
      /\ told \subseteq HashedKeys /\ told = KeysIn(policy, stack)
  BY StacksAssumption DEF StackInv
<1>2. CASE UNCHANGED vars
  BY <1>2 DEF vars, Promise!vars
<1>3. ASSUME NEW k \in HashedKeys, Get(k) PROVE Promise!Next
  BY <1>3 DEF Get, Call, Promise!Next, Promise!Update
<1>4. ASSUME NEW k \in HashedKeys, Del(k) PROVE Promise!Next
  BY <1>4 DEF Del, Call, Promise!Next, Promise!Remove
<1>5. ASSUME NEW k \in HashedKeys, NEW s \in ObjectSizes, Set(k, s) PROVE Promise!Next
  BY <1>5 DEF Set, Call, Promise!Next, Promise!Insert
<1>6. ASSUME NEW max_size \in CacheSizes, SetMaxSize(max_size) PROVE Promise!Next
  BY <1>6 DEF SetMaxSize, Call, Promise!Next, Promise!Resize
<1>7. CASE Wipe
  BY <1>7 DEF Wipe, Call, Promise!Next, Promise!Clear
<1>8. CASE Evict
  <2> DEFINE evicted == EvictOne(policy, stack)
  <2>1. /\ told' = told \ {evicted.key} /\ last' = <<"evict_one", evicted.key>>
    BY <1>8 DEF Evict, Call
  <2>2. GivesUp(evicted, told, KeysIn(policy, evicted.stack))
    <3>1. ~MayHoldBack(policy, CacheSizes)
      BY <1>1, StacksAssumption DEF MainHasRoom, MayHoldBack
    <3> QED
      BY <1>1, <3>1, CallsFit, EvictIsSane DEF Evicts, Exact
  <2>3. CASE evicted.key \in told
    BY <2>1, <2>3 DEF Promise!Next, Promise!EvictOne
  <2>4. CASE told = {} /\ evicted.key = NoKey
    BY <2>1, <2>4 DEF Promise!Next, Promise!EvictOne
  <2> QED
    BY <2>2, <2>3, <2>4 DEF GivesUp
<1> QED
  BY <1>2, <1>3, <1>4, <1>5, <1>6, <1>7, <1>8 DEF Next

\* Every stack other than mru's implements what the eviction loop of the worker needs
\* of it: it knows just the keys it was told of, and evict_one gives one of them up,
\* each once, and returns None only when there is none; with room in s3-fifo's main.
THEOREM StacksGiveUpEveryKey == MainHasRoom => (Spec => GivesUpAKnownKey)
<1> SUFFICES ASSUME MainHasRoom PROVE Spec => GivesUpAKnownKey
  OBVIOUS
<1>1. Init => (Exact => Promise!Init)
  BY DEF Init, Promise!Init
<1>2. StackInv /\ StackInv' /\ [Next]_vars => (Exact => [Promise!Next]_Promise!vars)
  BY CallsImplement
<1> QED
  BY <1>1, <1>2, StacksStaySane, PTL DEF Spec, GivesUpAKnownKey

-----------------------------------------------------------------------------
(***************************************************************************)
(* The second chance of clock and sieve                                    *)
(***************************************************************************)

\* The marks of a list of objects.
MarksOf(l) == [k \in Lists!KeysOf(l) |-> l[Lists!PositionOf(l, k)].visited]

MarkList(l, S) == l \in Seq(Marked(S)) /\ Apart(l)

LEMMA MarksAreThese ==
    /\ \A l : Clock!Marks(l) = MarksOf(l)
    /\ \A st : Sieve!Marks(st) = MarksOf(st.list)
<1>1. \A l : Clock!Marks(l) = MarksOf(l)
  BY ClockLists DEF Clock!Marks, MarksOf
<1>2. \A st : Sieve!Marks(st) = MarksOf(st.list)
  BY SieveLists DEF Sieve!Marks, MarksOf
<1> QED
  BY <1>1, <1>2

\* What a call does to the marks of the keys, as SecondChance has it.
InsertedMarks(marks, k) ==
    [j \in DOMAIN marks \cup {k} |-> IF j = k THEN k \in DOMAIN marks ELSE marks[j]]
UpdatedMarks(marks, k) == [j \in DOMAIN marks |-> j = k \/ marks[j]]
RemovedMarks(marks, k) == [j \in DOMAIN marks \ {k} |-> marks[j]]

\* Each object has the mark of its key, and nothing but the objects matters.
LEMMA MarksAt ==
    ASSUME NEW S, NEW l, MarkList(l, S)
    PROVE  /\ DOMAIN MarksOf(l) = Lists!KeysOf(l)
           /\ MarksOf(l) = [k \in Lists!KeysOf(l) |-> MarksOf(l)[k]]
           /\ \A k \in Lists!KeysOf(l) : MarksOf(l)[k] \in BOOLEAN
           /\ Lists!KeysOf(l) = {o.key : o \in Lists!Elements(l)}
           /\ \A o \in Lists!Elements(l) : /\ o \in Marked(S) /\ o.key \in Lists!KeysOf(l)
                                           /\ MarksOf(l)[o.key] = o.visited
<1>1. l \in Seq(Marked(S)) /\ DOMAIN l = 1 .. Len(l) /\ \A i, j \in DOMAIN l : l[i].key = l[j].key => i = j
  <2>1. l \in Seq(Marked(S))
    BY DEF MarkList
  <2> QED
    BY <2>1 DEF MarkList, Apart, Once, Lists!NoRepeats, InKeyOrder
<1>2. \A k \in Lists!KeysOf(l) : MarksOf(l)[k] = l[Lists!PositionOf(l, k)].visited
  BY DEF MarksOf
<1>3. \A k \in Lists!KeysOf(l) : MarksOf(l)[k] \in BOOLEAN
  <2> SUFFICES ASSUME NEW k \in Lists!KeysOf(l) PROVE MarksOf(l)[k] \in BOOLEAN
    OBVIOUS
  <2>1. l[Lists!PositionOf(l, k)] \in Marked(S)
    BY <1>1, PositionHolds
  <2> QED
    BY <1>2, <2>1 DEF Marked
<1>4. Lists!KeysOf(l) = {o.key : o \in Lists!Elements(l)}
  BY DEF Lists!KeysOf, Lists!Elements
<1>5. ASSUME NEW o \in Lists!Elements(l)
      PROVE  o \in Marked(S) /\ o.key \in Lists!KeysOf(l) /\ MarksOf(l)[o.key] = o.visited
  <2>1. PICK i \in DOMAIN l : o = l[i]
    BY DEF Lists!Elements
  <2>2. o.key \in Lists!KeysOf(l) /\ o \in Marked(S)
    BY <1>1, <2>1 DEF Lists!KeysOf
  <2>3. Lists!PositionOf(l, o.key) \in DOMAIN l /\ l[Lists!PositionOf(l, o.key)].key = o.key
    BY <1>1, <2>2, PositionHolds
  <2>4. Lists!PositionOf(l, o.key) = i
    BY <1>1, <2>1, <2>3
  <2> QED
    BY <1>2, <2>1, <2>2, <2>4
<1> QED
  BY <1>3, <1>4, <1>5 DEF MarksOf

LEMMA MarksAre ==
    ASSUME NEW S, NEW l, MarkList(l, S), NEW f, f = [k \in Lists!KeysOf(l) |-> f[k]],
           \A o \in Lists!Elements(l) : f[o.key] = o.visited
    PROVE  MarksOf(l) = f
<1>1. \A k \in Lists!KeysOf(l) : MarksOf(l)[k] = f[k]
  <2> SUFFICES ASSUME NEW k \in Lists!KeysOf(l) PROVE MarksOf(l)[k] = f[k]
    OBVIOUS
  <2>1. PICK o \in Lists!Elements(l) : k = o.key
    BY MarksAt
  <2> QED
    BY <2>1, MarksAt
<1> QED
  BY <1>1, MarksAt

\* A new object brings its mark.
LEMMA MarksPush ==
    ASSUME NEW S, NEW l, MarkList(l, S), NEW o \in Marked(S), o.key \notin Lists!KeysOf(l)
    PROVE  /\ MarkList(<<o>> \o l, S)
           /\ MarksOf(<<o>> \o l) = [j \in Lists!KeysOf(l) \cup {o.key} |->
                                        IF j = o.key THEN o.visited ELSE MarksOf(l)[j]]
<1> DEFINE m == <<o>> \o l
           f == [j \in Lists!KeysOf(l) \cup {o.key} |->
                    IF j = o.key THEN o.visited ELSE MarksOf(l)[j]]
<1>1. l \in Seq(Marked(S)) /\ Apart(l) /\ Keyed(Marked(S), S)
  BY MarkedKeyed DEF MarkList
<1>2. m \in Seq(Marked(S)) /\ Apart(m) /\ Lists!KeysOf(m) = {o.key} \cup Lists!KeysOf(l)
  BY <1>1, ObjectsPush
<1>3. Lists!Elements(m) = {o} \cup Lists!Elements(l)
  BY <1>1, PushHolds
<1> HIDE DEF m
<1>4. \A x \in Lists!Elements(m) : f[x.key] = x.visited
  <2> SUFFICES ASSUME NEW x \in Lists!Elements(m) PROVE f[x.key] = x.visited
    OBVIOUS
  <2>1. CASE x = o
    BY <2>1
  <2>2. CASE x # o
    <3>1. x \in Lists!Elements(l) /\ x.key \in Lists!KeysOf(l) /\ MarksOf(l)[x.key] = x.visited
      BY <1>3, <2>2, MarksAt
    <3>2. x.key # o.key
      BY <3>1
    <3> QED
      BY <3>1, <3>2
  <2> QED
    BY <2>1, <2>2
<1>5. f = [j \in Lists!KeysOf(m) |-> f[j]]
  BY <1>2
<1>6. MarkList(m, S)
  BY <1>2 DEF MarkList
<1> HIDE DEF f
<1>7. MarksOf(m) = f
  BY <1>4, <1>5, <1>6, MarksAre
<1> QED
  BY <1>6, <1>7 DEF m, f

\* A use of a key sets its mark, and no other.
LEMMA MarksMark ==
    ASSUME NEW S, NEW l, MarkList(l, S), NEW k \in Lists!KeysOf(l)
    PROVE  /\ MarkList(Mark(l, k), S)
           /\ MarksOf(Mark(l, k)) = [j \in Lists!KeysOf(l) |-> j = k \/ MarksOf(l)[j]]
<1> DEFINE m == Mark(l, k)
           i == Lists!PositionOf(l, k)
           f == [j \in Lists!KeysOf(l) |-> j = k \/ MarksOf(l)[j]]
<1>1. l \in Seq(Marked(S)) /\ Apart(l) /\ DOMAIN l = 1 .. Len(l)
  BY DEF MarkList
<1>2. m \in Seq(Marked(S)) /\ Apart(m) /\ Lists!KeysOf(m) = Lists!KeysOf(l)
  BY <1>1, MarkHolds
<1>3. i \in DOMAIN l /\ l[i].key = k /\ l[i] \in Marked(S)
  BY <1>1, PositionHolds
<1>4. /\ DOMAIN m = DOMAIN l
      /\ \A j \in DOMAIN l : m[j] = IF j = i THEN [l[i] EXCEPT !.visited = TRUE] ELSE l[j]
  BY <1>3 DEF Mark
<1>5. \A a, b \in DOMAIN l : l[a].key = l[b].key => a = b
  BY <1>1 DEF Apart, Once, Lists!NoRepeats, InKeyOrder
<1> HIDE DEF i, m
<1>6. ASSUME NEW x \in Lists!Elements(m) PROVE f[x.key] = x.visited
  <2>1. PICK j \in DOMAIN l : x = m[j]
    BY <1>4 DEF Lists!Elements
  <2>2. CASE j = i
    <3>1. x.key = k /\ x.visited = TRUE
      BY <1>3, <1>4, <2>1, <2>2 DEF Marked
    <3> QED
      BY <3>1
  <2>3. CASE j # i
    <3>1. x = l[j] /\ x.key # k
      BY <1>3, <1>4, <1>5, <2>1, <2>3
    <3>2. x \in Lists!Elements(l)
      BY <3>1 DEF Lists!Elements
    <3>3. x.key \in Lists!KeysOf(l) /\ MarksOf(l)[x.key] = x.visited /\ x.visited \in BOOLEAN
      BY <3>2, MarksAt
    <3>4. f[x.key] = (x.key = k \/ MarksOf(l)[x.key])
      BY <3>3
    <3> QED
      BY <3>1, <3>3, <3>4
  <2> QED
    BY <2>2, <2>3
<1>7. f = [j \in Lists!KeysOf(m) |-> f[j]]
  BY <1>2
<1>8. MarkList(m, S)
  BY <1>2 DEF MarkList
<1> HIDE DEF f
<1>9. MarksOf(m) = f
  BY <1>6, <1>7, <1>8, MarksAre
<1> QED
  BY <1>8, <1>9 DEF m, f

\* A key that goes takes its mark along.
LEMMA MarksOmit ==
    ASSUME NEW S, NEW l, MarkList(l, S), NEW k
    PROVE  /\ MarkList(Lists!OmitObject(l, k), S)
           /\ MarksOf(Lists!OmitObject(l, k)) = RemovedMarks(MarksOf(l), k)
<1> DEFINE m == Lists!OmitObject(l, k)
           f == [j \in Lists!KeysOf(l) \ {k} |-> MarksOf(l)[j]]
<1>1. l \in Seq(Marked(S)) /\ Apart(l) /\ Keyed(Marked(S), S)
  BY MarkedKeyed DEF MarkList
<1>2. m \in Seq(Marked(S)) /\ Apart(m) /\ Lists!KeysOf(m) = Lists!KeysOf(l) \ {k}
  BY <1>1, OmitObjectHolds
<1>3. Lists!Elements(m) \subseteq Lists!Elements(l)
  <2>1. CASE k \in Lists!KeysOf(l)
    <3>1. Lists!PositionOf(l, k) \in 1 .. Len(l)
      BY <1>1, <2>1, PositionHolds
    <3>2. Lists!Elements(Lists!WithoutAt(l, Lists!PositionOf(l, k))) \subseteq Lists!Elements(l)
      BY <1>1, <3>1, WithoutAtHolds
    <3> QED
      BY <2>1, <3>2 DEF Lists!OmitObject
  <2>2. CASE k \notin Lists!KeysOf(l)
    BY <2>2 DEF Lists!OmitObject
  <2> QED
    BY <2>1, <2>2
<1>4. MarkList(m, S)
  BY <1>2 DEF MarkList
<1> HIDE DEF m
<1>5. ASSUME NEW x \in Lists!Elements(m) PROVE f[x.key] = x.visited
  <2>1. x \in Lists!Elements(l) /\ x.key \in Lists!KeysOf(m)
    BY <1>3, <1>4, MarksAt
  <2>2. x.key \in Lists!KeysOf(l) \ {k} /\ MarksOf(l)[x.key] = x.visited
    BY <1>2, <2>1, MarksAt
  <2> QED
    BY <2>2
<1>6. f = [j \in Lists!KeysOf(m) |-> f[j]]
  BY <1>2
<1>7. f = RemovedMarks(MarksOf(l), k)
  BY DEF RemovedMarks, MarksOf
<1> HIDE DEF f
<1>8. MarksOf(m) = f
  BY <1>4, <1>5, <1>6, MarksAre
<1> QED
  BY <1>4, <1>7, <1>8 DEF m

\* All marks are set if that of the evicted key was, and it alone kept it.
GivesChances(k, marks, left) ==
    /\ k \in DOMAIN marks
    /\ marks[k] => \A j \in DOMAIN marks : marks[j]
    /\ \E passed \in IF marks[k] THEN {DOMAIN marks \ {k}} ELSE SUBSET {j \in DOMAIN marks : marks[j]} :
           left = [j \in DOMAIN marks \ {k} |-> marks[j] /\ j \notin passed]

\* insert and update, of a list that is marked or pushed to.
LEMMA MarksAfterUpdate ==
    ASSUME NEW S, NEW l, MarkList(l, S), NEW k
    PROVE  MarksOf(IF k \in Lists!KeysOf(l) THEN Mark(l, k) ELSE l) = UpdatedMarks(MarksOf(l), k)
<1>1. DOMAIN MarksOf(l) = Lists!KeysOf(l)
  BY DEF MarksOf
<1>2. CASE k \in Lists!KeysOf(l)
  BY <1>1, <1>2, MarksMark DEF UpdatedMarks
<1>3. CASE k \notin Lists!KeysOf(l)
  <2> DEFINE f == UpdatedMarks(MarksOf(l), k)
  <2>1. f = [j \in Lists!KeysOf(l) |-> j = k \/ MarksOf(l)[j]]
    BY <1>1 DEF UpdatedMarks
  <2>2. \A o \in Lists!Elements(l) : f[o.key] = o.visited
    <3> SUFFICES ASSUME NEW o \in Lists!Elements(l) PROVE f[o.key] = o.visited
      OBVIOUS
    <3>1. /\ o.key \in Lists!KeysOf(l) /\ o.key # k
          /\ MarksOf(l)[o.key] = o.visited /\ MarksOf(l)[o.key] \in BOOLEAN
      BY <1>3, MarksAt
    <3> HIDE DEF f
    <3>2. f[o.key] = (o.key = k \/ MarksOf(l)[o.key])
      BY <2>1, <3>1
    <3> QED
      BY <3>1, <3>2
  <2>3. f = [j \in Lists!KeysOf(l) |-> f[j]]
    BY <2>1
  <2> HIDE DEF f
  <2>4. MarksOf(l) = f
    BY <2>2, <2>3, MarksAre
  <2> QED
    BY <1>3, <2>4 DEF f
<1> QED
  BY <1>2, <1>3

LEMMA MarksAfterInsert ==
    ASSUME NEW S, NEW l, MarkList(l, S), NEW k \in S
    PROVE  MarksOf(IF k \in Lists!KeysOf(l) THEN Mark(l, k)
                   ELSE <<[key |-> k, visited |-> FALSE]>> \o l) = InsertedMarks(MarksOf(l), k)
<1>1. DOMAIN MarksOf(l) = Lists!KeysOf(l)
  BY DEF MarksOf
<1>2. CASE k \in Lists!KeysOf(l)
  <2>1. MarksOf(Mark(l, k)) = [j \in Lists!KeysOf(l) |-> j = k \/ MarksOf(l)[j]]
    BY <1>2, MarksMark
  <2>2. InsertedMarks(MarksOf(l), k)
            = [j \in Lists!KeysOf(l) |-> IF j = k THEN TRUE ELSE MarksOf(l)[j]]
    BY <1>1, <1>2 DEF InsertedMarks
  <2>3. \A j \in Lists!KeysOf(l) : (j = k \/ MarksOf(l)[j]) = (IF j = k THEN TRUE ELSE MarksOf(l)[j])
    BY MarksAt
  <2> QED
    BY <1>2, <2>1, <2>2, <2>3
<1>3. CASE k \notin Lists!KeysOf(l)
  <2> DEFINE o == [key |-> k, visited |-> FALSE]
             M == MarksOf(l)
             K == Lists!KeysOf(l)
             f == [j \in K \cup {k} |-> IF j = k THEN o.visited ELSE M[j]]
             g == [j \in K \cup {k} |-> IF j = k THEN k \in K ELSE M[j]]
  <2>1. o \in Marked(S) /\ o.key = k /\ o.visited = (k \in K)
    <3>1. o \in Marked(S) /\ o.key = k
      BY DEF Marked
    <3>2. o.visited = FALSE /\ (k \in K) = FALSE
      BY <1>3
    <3> HIDE DEF o, K
    <3> QED
      BY <3>1, <3>2, Zenon
  <2> HIDE DEF o
  <2>2. MarksOf(<<o>> \o l) = f
    BY <1>3, <2>1, MarksPush
  <2>3. InsertedMarks(M, k) = g
    BY <1>1 DEF InsertedMarks
  <2>4. f = g
    <3> HIDE DEF M, K
    <3>1. \A j \in K \cup {k} : f[j] = g[j]
      BY <2>1
    <3> QED
      BY <3>1
  <2> QED
    BY <1>3, <2>2, <2>3, <2>4 DEF o
<1> QED
  BY <1>2, <1>3

\* clock: insert, update and remove.
LEMMA ClockMarks ==
    ASSUME NEW S, NEW held, ClockList(held, S), NEW k \in S
    PROVE  /\ Clock!Marks(Clock!Insert(held, k)) = InsertedMarks(Clock!Marks(held), k)
           /\ Clock!Marks(Clock!Update(held, k)) = UpdatedMarks(Clock!Marks(held), k)
           /\ Clock!Marks(Clock!Remove(held, k)) = RemovedMarks(Clock!Marks(held), k)
<1>1. MarkList(held, S)
  BY DEF ClockList, MarkList
<1>2. Clock!Update(held, k) = IF k \in Lists!KeysOf(held) THEN Mark(held, k) ELSE held
  BY ClockLists DEF Clock!Update, Mark
<1>3. Clock!Insert(held, k) = IF k \in Lists!KeysOf(held) THEN Mark(held, k)
                               ELSE <<[key |-> k, visited |-> FALSE]>> \o held
  BY <1>2, ClockLists DEF Clock!Insert
<1>4. Clock!Remove(held, k) = Lists!OmitObject(held, k)
  BY ClockLists DEF Clock!Remove
<1> QED
  BY <1>1, <1>2, <1>3, <1>4, MarksAreThese, MarksAfterInsert, MarksAfterUpdate, MarksOmit

\* sieve: the same, whatever becomes of the hand.
LEMMA SieveMarks ==
    ASSUME NEW S, NEW held, SieveList(held, S), NEW k \in S
    PROVE  /\ Sieve!Marks(Sieve!Insert(held, k)) = InsertedMarks(Sieve!Marks(held), k)
           /\ Sieve!Marks(Sieve!Update(held, k)) = UpdatedMarks(Sieve!Marks(held), k)
           /\ Sieve!Marks(Sieve!Remove(held, k)) = RemovedMarks(Sieve!Marks(held), k)
<1> DEFINE list == held.list
           hand == held.hand
<1>1. MarkList(list, S) /\ held = [list |-> list, hand |-> hand]
  BY DEF SieveList, MarkList
<1> HIDE DEF list, hand
<1>2. Sieve!Keys(held) = Lists!KeysOf(list)
  BY SieveLists DEF list
<1>3. Sieve!Update(held, k).list = IF k \in Lists!KeysOf(list) THEN Mark(list, k) ELSE list
  BY <1>1, <1>2, SieveLists DEF Sieve!Update, Mark
<1>4. Sieve!Insert(held, k).list = IF k \in Lists!KeysOf(list) THEN Mark(list, k)
                                    ELSE <<[key |-> k, visited |-> FALSE]>> \o list
  <2>1. CASE k \in Lists!KeysOf(list)
    BY <1>2, <1>3, <2>1 DEF Sieve!Insert
  <2>2. CASE k \notin Lists!KeysOf(list)
    BY <1>1, <1>2, <2>2 DEF Sieve!Insert
  <2> QED
    BY <2>1, <2>2
<1>5. Sieve!Remove(held, k).list = Lists!OmitObject(list, k)
  BY SieveLists DEF Sieve!Remove, list
<1>6. Sieve!Marks(held) = MarksOf(list) /\ \A st : Sieve!Marks(st) = MarksOf(st.list)
  BY MarksAreThese DEF list
<1> QED
  BY <1>1, <1>3, <1>4, <1>5, <1>6, MarksAfterInsert, MarksAfterUpdate, MarksOmit

LEMMA RestAt ==
    ASSUME NEW S, NEW s \in Seq(S), NEW n \in 0 .. Len(s)
    PROVE  LET rest == SubSeq(s, n + 1, Len(s))
           IN  /\ rest \in Seq(S) /\ Len(rest) = Len(s) - n
               /\ \A i \in 1 .. Len(s) - n : rest[i] = s[n + i]
<1>1. Len(s) \in Nat /\ n \in Nat
  OBVIOUS
<1> QED
  BY <1>1

\* The object clock evicts is not marked, and all behind it are; or all there are.
LEMMA VictimIsFirst ==
    ASSUME NEW S, NEW l, MarkList(l, S), l # <<>>, NEW i, i = Clock!Victim(l)
    PROVE  /\ i \in 1 .. Len(l)
           /\ l[i].visited => \A o \in Lists!Elements(l) : o.visited
           /\ ~l[i].visited => \A o \in Lists!Elements(SubSeq(l, i + 1, Len(l))) : o.visited
<1> DEFINE unvisited == {j \in DOMAIN l : ~l[j].visited}
           behind == SubSeq(l, i + 1, Len(l))
<1>1. l \in Seq(Marked(S)) /\ DOMAIN l = 1 .. Len(l) /\ Len(l) \in Nat
  BY DEF MarkList
<1>2. i \in 1 .. Len(l)
  BY <1>1, VictimHolds
<1>3. i = IF unvisited = {} THEN Len(l)
          ELSE CHOOSE m \in unvisited : \A j \in unvisited : j <= m
  BY DEF Clock!Victim
<1>4. unvisited # {} => i \in unvisited /\ \A j \in unvisited : j <= i
  <2> SUFFICES ASSUME unvisited # {} PROVE i \in unvisited /\ \A j \in unvisited : j <= i
    OBVIOUS
  <2>1. unvisited \in SUBSET (1 .. Len(l))
    BY <1>1
  <2> HIDE DEF unvisited
  <2>2. \E m \in unvisited : \A j \in unvisited : j <= m
    BY <1>1, <2>1, LargestPosition
  <2> QED
    BY <1>3, <2>2
<1>5. ASSUME l[i].visited PROVE \A o \in Lists!Elements(l) : o.visited
  <2>1. \A j \in DOMAIN l : l[j].visited
    BY <1>4, <1>5
  <2> QED
    BY <2>1 DEF Lists!Elements
<1>6. ASSUME ~l[i].visited, NEW o \in Lists!Elements(behind) PROVE o.visited
  <2>1. \A j \in DOMAIN l : ~l[j].visited => j <= i
    <3>1. i \in unvisited
      BY <1>1, <1>2, <1>6
    <3> QED
      BY <1>4, <3>1
  <2>2. DOMAIN behind = 1 .. Len(l) - i /\ \A j \in 1 .. Len(l) - i : behind[j] = l[i + j]
    <3>1. i \in 0 .. Len(l)
      BY <1>2
    <3>2. /\ behind \in Seq(Marked(S)) /\ Len(behind) = Len(l) - i
          /\ \A j \in 1 .. Len(l) - i : behind[j] = l[i + j]
      BY <1>1, <3>1, RestAt
    <3> HIDE DEF behind
    <3> QED
      BY <3>2
  <2>3. PICK j \in 1 .. Len(l) - i : o = behind[j]
    <3> HIDE DEF behind
    <3> QED
      BY <2>2 DEF Lists!Elements
  <2>4. i + j \in DOMAIN l /\ ~(i + j <= i)
    BY <1>1, <1>2
  <2> QED
    BY <2>1, <2>2, <2>3, <2>4
<1> QED
  BY <1>2, <1>5, <1>6

\* clock: a marked object is evicted only when all are marked; the marks taken away
\* are those behind the evicted one, or all.
LEMMA ClockGives ==
    ASSUME NEW S, NEW held, ClockList(held, S), held # <<>>
    PROVE  GivesChances(Clock!EvictOne(held).key, Clock!Marks(held),
                        Clock!Marks(Clock!EvictOne(held).stack))
<1> DEFINE i      == Clock!Victim(held)
           before == SubSeq(held, 1, i - 1)
           behind == SubSeq(held, i + 1, Len(held))
           back   == IF held[i].visited THEN Clock!Cleared(before) ELSE before
           first  == Clock!Cleared(behind)
           k      == held[i].key
           after  == first \o back
           M      == MarksOf(held)
           K      == Lists!KeysOf(held)
<1>1. MarkList(held, S) /\ held \in Seq(Marked(S)) /\ Apart(held) /\ Keyed(Marked(S), S)
  BY MarkedKeyed DEF ClockList, MarkList
<1>2. Clock!EvictOne(held).key = k /\ Clock!EvictOne(held).stack = after
  BY DEF Clock!EvictOne, Clock!Evicting
<1>3. /\ i \in 1 .. Len(held)
      /\ held[i].visited => \A o \in Lists!Elements(held) : o.visited
      /\ ~held[i].visited => \A o \in Lists!Elements(behind) : o.visited
  BY <1>1, VictimIsFirst
<1>4. ClockList(after, S) /\ GivesUp(Clock!EvictOne(held), K, Lists!KeysOf(after))
  BY <1>2, ClockEvicts, ClockLists
<1> HIDE DEF i
<1>5. /\ before \in Seq(Marked(S)) /\ behind \in Seq(Marked(S))
      /\ Lists!Elements(held) = Lists!Elements(before) \cup {held[i]} \cup Lists!Elements(behind)
      /\ K = Lists!KeysOf(before) \cup {k} \cup Lists!KeysOf(behind)
      /\ Lists!KeysOf(before) \cap Lists!KeysOf(behind) = {}
      /\ k \notin Lists!KeysOf(before) \cup Lists!KeysOf(behind)
  <2>1. /\ held = (before \o <<held[i]>>) \o behind
        /\ before \in Seq(Marked(S)) /\ behind \in Seq(Marked(S)) /\ held[i] \in Marked(S)
    <3>1. held = (before \o <<held[i]>>) \o behind /\ before \in Seq(Marked(S)) /\ behind \in Seq(Marked(S))
      BY <1>1, <1>3, SplitAt
    <3>2. held[i] \in Marked(S)
      BY <1>1, <1>3
    <3> QED
      BY <3>1, <3>2, Zenon
  <2>2. /\ Lists!KeysOf(held) = Lists!KeysOf(before) \cup {k} \cup Lists!KeysOf(behind)
        /\ Lists!KeysOf(before) \cap Lists!KeysOf(behind) = {}
        /\ k \notin Lists!KeysOf(before) \cup Lists!KeysOf(behind)
    BY <1>1, <1>3, ObjectsSplit
  <2> DEFINE x == held[i]
             b == before
             e == behind
  <2>3. held = (b \o <<x>>) \o e /\ b \in Seq(Marked(S)) /\ e \in Seq(Marked(S)) /\ x \in Marked(S)
    BY <2>1
  <2> HIDE DEF x, b, e
  <2> DEFINE o == <<x>>
             bo == b \o o
  <2>4. o \in Seq(Marked(S)) /\ Lists!Elements(o) = {x} /\ held = bo \o e
    BY <2>3, OneHolds
  <2> HIDE DEF o
  <2>5. bo \in Seq(Marked(S)) /\ Lists!Elements(bo) = Lists!Elements(b) \cup {x}
    BY <2>3, <2>4, ConcatHolds
  <2> HIDE DEF bo
  <2>6. Lists!Elements(bo \o e) = Lists!Elements(b) \cup {x} \cup Lists!Elements(e)
    BY <2>3, <2>5, ConcatHolds
  <2> QED
    BY <2>1, <2>2, <2>4, <2>6 DEF x, b, e
<1> HIDE DEF before, behind
<1>6. \A l \in Seq(Marked(S)) :
          /\ Clock!Cleared(l) \in Seq(Marked(S))
          /\ \A o \in Lists!Elements(Clock!Cleared(l)) : o.visited = FALSE /\ o.key \in Lists!KeysOf(l)
  <2> SUFFICES ASSUME NEW l \in Seq(Marked(S))
               PROVE  /\ Clock!Cleared(l) \in Seq(Marked(S))
                      /\ \A o \in Lists!Elements(Clock!Cleared(l)) :
                             o.visited = FALSE /\ o.key \in Lists!KeysOf(l)
    OBVIOUS
  <2>1. Clock!Cleared(l) \in Seq(Marked(S))
    BY ClearedHolds
  <2>2. /\ DOMAIN Clock!Cleared(l) = DOMAIN l
        /\ \A j \in DOMAIN l : Clock!Cleared(l)[j] = [l[j] EXCEPT !.visited = FALSE] /\ l[j] \in Marked(S)
    BY DEF Clock!Cleared
  <2>3. \A j \in DOMAIN l : Clock!Cleared(l)[j].visited = FALSE /\ Clock!Cleared(l)[j].key = l[j].key
    BY <2>2 DEF Marked
  <2>4. \A j \in DOMAIN l : l[j].key \in Lists!KeysOf(l)
    BY DEF Lists!KeysOf
  <2> QED
    BY <2>1, <2>2, <2>3, <2>4 DEF Lists!Elements
<1>7. /\ first \in Seq(Marked(S)) /\ back \in Seq(Marked(S))
      /\ Lists!Elements(after) = Lists!Elements(first) \cup Lists!Elements(back)
  <2>1. first \in Seq(Marked(S)) /\ back \in Seq(Marked(S))
    BY <1>5, <1>6
  <2> HIDE DEF first, back
  <2> QED
    BY <2>1, ConcatHolds
<1>8. Lists!KeysOf(after) = K \ {k} /\ k \in K
  <2>1. K # {}
    BY <1>5
  <2> QED
    BY <1>2, <1>4, <2>1 DEF GivesUp
<1>9. MarkList(after, S)
  BY <1>4 DEF ClockList, MarkList
<1>10. /\ DOMAIN M = K /\ M[k] = held[i].visited
       /\ \A o \in Lists!Elements(held) : o.key \in K /\ M[o.key] = o.visited /\ o.visited \in BOOLEAN
  <2>1. held[i] \in Lists!Elements(held)
    BY <1>5
  <2> QED
    BY <1>1, <2>1, MarksAt DEF Marked
<1> HIDE DEF first, back, after, M, K, k
<1>11. ASSUME NEW passed,
              \A o \in Lists!Elements(after) : o.visited = (M[o.key] /\ o.key \notin passed)
       PROVE  MarksOf(after) = [j \in DOMAIN M \ {k} |-> M[j] /\ j \notin passed]
  <2> DEFINE f == [j \in DOMAIN M \ {k} |-> M[j] /\ j \notin passed]
  <2>1. f = [j \in Lists!KeysOf(after) |-> f[j]]
    BY <1>8, <1>10
  <2>2. ASSUME NEW o \in Lists!Elements(after) PROVE f[o.key] = o.visited
    <3>1. o.key \in DOMAIN M \ {k}
      BY <1>8, <1>9, <1>10, MarksAt
    <3>2. f[o.key] = (M[o.key] /\ o.key \notin passed)
      BY <3>1
    <3> QED
      BY <1>11, <3>2
  <2> HIDE DEF f
  <2>3. MarksOf(after) = f
    BY <1>9, <2>1, <2>2, MarksAre
  <2> QED
    BY <2>3 DEF f
<1>12. CASE held[i].visited
  <2>1. \A j \in K : M[j]
    <3> SUFFICES ASSUME NEW j \in K PROVE M[j]
      OBVIOUS
    <3>1. PICK o \in Lists!Elements(held) : j = o.key
      BY <1>1, MarksAt DEF K
    <3> QED
      BY <1>3, <1>10, <1>12, <3>1
  <2> DEFINE passed == K \ {k}
  <2>2. ASSUME NEW o \in Lists!Elements(after) PROVE o.visited = (M[o.key] /\ o.key \notin passed)
    <3>1. o.visited = FALSE
      <4>1. back = Clock!Cleared(before)
        BY <1>12 DEF back
      <4> QED
        BY <1>5, <1>6, <1>7, <4>1 DEF first
    <3>2. o.key \in K \ {k}
      BY <1>8, <1>9, MarksAt
    <3> QED
      BY <3>1, <3>2
  <2> HIDE DEF passed
  <2>3. MarksOf(after) = [j \in DOMAIN M \ {k} |-> M[j] /\ j \notin passed]
    BY <1>11, <2>2
  <2>4. passed = DOMAIN M \ {k} /\ M[k]
    BY <1>8, <1>10, <2>1 DEF passed
  <2>5. GivesChances(k, M, MarksOf(after))
    BY <1>8, <1>10, <2>1, <2>3, <2>4 DEF GivesChances
  <2> QED
    BY <1>2, <2>5, MarksAreThese DEF M
<1>13. CASE ~held[i].visited
  <2> DEFINE passed == Lists!KeysOf(behind)
  <2>1. passed \in SUBSET {j \in DOMAIN M : M[j]}
    <3> SUFFICES ASSUME NEW j \in passed PROVE j \in DOMAIN M /\ M[j]
      OBVIOUS
    <3>1. PICK o \in Lists!Elements(behind) : j = o.key
      BY DEF Lists!KeysOf, Lists!Elements
    <3>2. o \in Lists!Elements(held) /\ o.visited
      BY <1>3, <1>5, <1>13 DEF behind
    <3> QED
      BY <1>10, <3>1, <3>2
  <2>2. ASSUME NEW o \in Lists!Elements(after) PROVE o.visited = (M[o.key] /\ o.key \notin passed)
    <3>1. o.key \in K \ {k}
      BY <1>8, <1>9, MarksAt
    <3>2. CASE o \in Lists!Elements(first)
      <4>1. o.visited = FALSE /\ o.key \in passed
        BY <1>5, <1>6, <3>2 DEF first
      <4> QED
        BY <3>1, <4>1
    <3>3. CASE o \in Lists!Elements(back)
      <4>1. o \in Lists!Elements(before)
        BY <1>13, <3>3 DEF back
      <4>2. o.key \in Lists!KeysOf(before)
        BY <4>1 DEF Lists!KeysOf, Lists!Elements
      <4>3. o.key \notin passed /\ M[o.key] = o.visited /\ o.visited \in BOOLEAN
        BY <1>5, <1>10, <4>1, <4>2
      <4> HIDE DEF passed
      <4> QED
        BY <4>3
    <3> QED
      BY <1>7, <3>2, <3>3
  <2> HIDE DEF passed
  <2>3. MarksOf(after) = [j \in DOMAIN M \ {k} |-> M[j] /\ j \notin passed]
    BY <1>11, <2>2
  <2>4. ~M[k]
    BY <1>10, <1>13
  <2>5. GivesChances(k, M, MarksOf(after))
    BY <1>8, <1>10, <2>1, <2>3, <2>4 DEF GivesChances
  <2> QED
    BY <1>2, <2>5, MarksAreThese DEF M
<1> QED
  BY <1>12, <1>13

LEMMA OnceRound ==
    ASSUME NEW n \in Nat \ {0}, NEW r \in 0 .. n - 1
    PROVE  r % n = r /\ (r + n) % n = r
<1>1. r % n = r
  OBVIOUS
<1>2. (r + n) % n = r
  OBVIOUS
<1> QED
  BY <1>1, <1>2

\* In one round evict_one of sieve looks at every position.
LEMMA AllLookedAt ==
    ASSUME NEW S, NEW held, SieveList(held, S), NEW i \in 1 .. Len(held.list)
    PROVE  \E j \in 0 .. Len(held.list) - 1 : Sieve!LookedAt(held, j) = i
<1> DEFINE n     == Len(held.list)
           start == IF held.hand = NoKey THEN n ELSE Lists!PositionOf(held.list, held.hand)
<1>1. n \in Nat \ {0} /\ held.list \in Seq(Marked(S))
  BY DEF SieveList
<1>2. start \in 1 .. n
  <2>1. CASE held.hand = NoKey
    BY <1>1, <2>1
  <2>2. CASE held.hand # NoKey
    <3>1. held.hand \in Lists!KeysOf(held.list)
      BY <2>2 DEF SieveList
    <3> QED
      BY <1>1, <2>2, <3>1, PositionHolds
  <2> QED
    BY <2>1, <2>2
<1>3. \A j : Sieve!LookedAt(held, j) = 1 + ((start - 1 + n - j) % n)
  BY SieveLists DEF Sieve!LookedAt
<1>4. i \in 1 .. n
  OBVIOUS
<1> HIDE DEF start, n
<1>5. (i - 1) % n = i - 1 /\ ((i - 1) + n) % n = i - 1
  <2> DEFINE r == i - 1
  <2>1. r \in 0 .. n - 1
    BY <1>1, <1>4
  <2> HIDE DEF r
  <2>2. r % n = r /\ (r + n) % n = r
    BY <1>1, <2>1, OnceRound
  <2> QED
    BY <2>2 DEF r
<1>6. CASE i <= start
  <2> DEFINE j == start - i
  <2>1. j \in 0 .. n - 1 /\ start - 1 + n - j = (i - 1) + n
    BY <1>1, <1>2, <1>4, <1>6
  <2> HIDE DEF j
  <2>2. Sieve!LookedAt(held, j) = 1 + (i - 1)
    BY <1>3, <1>5, <2>1
  <2> QED
    BY <1>4, <2>1, <2>2 DEF n
<1>7. CASE i > start
  <2> DEFINE j == start - i + n
  <2>1. j \in 0 .. n - 1 /\ start - 1 + n - j = i - 1
    BY <1>1, <1>2, <1>4, <1>7
  <2> HIDE DEF j
  <2>2. Sieve!LookedAt(held, j) = 1 + (i - 1)
    BY <1>3, <1>5, <2>1
  <2> QED
    BY <1>4, <2>1, <2>2 DEF n
<1> QED
  BY <1>2, <1>4, <1>6, <1>7

\* sieve: the marks taken away are those of the objects passed.
LEMMA SieveGives ==
    ASSUME NEW S, NEW held, SieveList(held, S), held.list # <<>>
    PROVE  GivesChances(Sieve!EvictOne(held).key, Sieve!Marks(held),
                        Sieve!Marks(Sieve!EvictOne(held).stack))
<1> DEFINE list    == held.list
           n       == Len(list)
           at(j)   == Sieve!LookedAt(held, j)
           passes  == Sieve!Passes(held)
           p       == at(passes % n)
           k       == list[p].key
           passed  == {at(j) : j \in 0 .. passes - 1}
           cleared == [i \in DOMAIN list |-> [list[i] EXCEPT !.visited = @ /\ i \notin passed]]
           after   == Lists!OmitObject(cleared, k)
           M       == MarksOf(list)
           K       == Lists!KeysOf(list)
           gone    == {list[i].key : i \in passed}
<1>1. /\ MarkList(list, S) /\ list \in Seq(Marked(S)) /\ n \in Nat \ {0} /\ DOMAIN list = 1 .. n
      /\ \A i, j \in DOMAIN list : list[i].key = list[j].key => i = j
  <2>1. list \in Seq(Marked(S)) /\ Apart(list) /\ list # <<>>
    BY DEF SieveList
  <2> HIDE DEF list
  <2>2. MarkList(list, S)
    BY <2>1 DEF MarkList
  <2>3. n \in Nat \ {0} /\ DOMAIN list = 1 .. n
    BY <2>1
  <2>4. \A i, j \in DOMAIN list : list[i].key = list[j].key => i = j
    BY <2>1 DEF Apart, Once, Lists!NoRepeats, InKeyOrder
  <2> QED
    BY <2>1, <2>2, <2>3, <2>4
<1>2. Sieve!EvictOne(held).key = k /\ Sieve!EvictOne(held).stack.list = after
  <2>1. ~(held.list = <<>> \/ (held.hand # NoKey /\ held.hand \notin Sieve!Keys(held)))
    BY SieveLists DEF SieveList
  <2> QED
    BY <2>1, SieveLists DEF Sieve!EvictOne, Sieve!Evicting
<1>3. /\ passes \in 0 .. n
      /\ \A j \in 0 .. passes - 1 : list[at(j)].visited
      /\ passes = n \/ ~list[at(passes)].visited
  BY PassesHolds
<1>4. /\ \A j \in 0 .. n : at(j) \in 1 .. n
      /\ \A i \in 1 .. n : \E j \in 0 .. n - 1 : at(j) = i
  BY LookedAtHolds, AllLookedAt
<1> HIDE DEF list, n, at, passes
<1>5. /\ passed \subseteq 1 .. n /\ \A i \in passed : list[i].visited
      /\ passes = n => passed = 1 .. n
  <2>1. \A j \in 0 .. passes - 1 : j \in 0 .. n
    BY <1>1, <1>3
  <2>2. passed \subseteq 1 .. n
    BY <1>4, <2>1
  <2>3. \A i \in passed : list[i].visited
    BY <1>3
  <2>4. ASSUME passes = n PROVE 1 .. n \subseteq passed
    BY <1>4, <2>4
  <2> QED
    BY <2>2, <2>3, <2>4
<1>6. p \in 1 .. n /\ (list[p].visited <=> passes = n)
  <2>1. CASE passes = n
    <3>1. passes % n = 0
      BY <1>1, <2>1
    <3>2. p \in 1 .. n /\ 0 \in 0 .. passes - 1 /\ p = at(0)
      BY <1>1, <1>4, <2>1, <3>1
    <3> QED
      BY <1>3, <2>1, <3>2
  <2>2. CASE passes # n
    <3>1. passes % n = passes
      BY <1>1, <1>3, <2>2
    <3> QED
      BY <1>3, <1>4, <2>2, <3>1
  <2> QED
    BY <2>1, <2>2
<1> HIDE DEF p, passed
<1>7. \A o \in Lists!Elements(list) : o.key \in K /\ M[o.key] = o.visited /\ o.visited \in BOOLEAN
  BY <1>1, MarksAt DEF Marked
<1>8. /\ DOMAIN M = K /\ k \in K /\ M[k] = list[p].visited
      /\ \A i \in 1 .. n : list[i].key \in K /\ M[list[i].key] = list[i].visited
                           /\ list[i].visited \in BOOLEAN /\ list[i] \in Marked(S)
  <2>1. \A i \in 1 .. n : list[i] \in Lists!Elements(list) /\ list[i] \in Marked(S)
    BY <1>1 DEF Lists!Elements
  <2> QED
    BY <1>6, <1>7, <2>1 DEF MarksOf
<1>9. /\ MarkList(cleared, S) /\ Lists!KeysOf(cleared) = K
      /\ MarksOf(cleared) = [j \in K |-> M[j] /\ j \notin gone]
  <2> DEFINE e(i) == [list[i] EXCEPT !.visited = list[i].visited /\ i \notin passed]
  <2>1. \A i \in 1 .. n : /\ e(i) \in Marked(S) /\ e(i).key = list[i].key
                          /\ e(i).visited = (list[i].visited /\ i \notin passed)
    <3> SUFFICES ASSUME NEW i \in 1 .. n
                 PROVE  /\ e(i) \in Marked(S) /\ e(i).key = list[i].key
                        /\ e(i).visited = (list[i].visited /\ i \notin passed)
      OBVIOUS
    <3>1. list[i] \in Marked(S)
      BY <1>8
    <3> QED
      BY <3>1 DEF Marked
  <2>2. cleared = [i \in 1 .. n |-> e(i)]
    BY <1>1
  <2> HIDE DEF e, cleared
  <2>3. \A i \in 1 .. n : /\ cleared[i] \in Marked(S) /\ cleared[i].key = list[i].key
                          /\ cleared[i].visited = (list[i].visited /\ i \notin passed)
    BY <2>1, <2>2, Zenon
  <2>4. cleared \in Seq(Marked(S)) /\ Len(cleared) = n
    <3>1. cleared = [i \in 1 .. n |-> cleared[i]]
      BY <2>2, Zenon
    <3>2. cleared \in Seq(Marked(S))
      BY <1>1, <2>3, <3>1, Lemmas!FunctionIsSeq
    <3> QED
      BY <1>1, <3>1, <3>2
  <2>5. Lists!KeysOf(cleared) = K /\ MarkList(cleared, S)
    BY <1>1, <2>3, <2>4, SameKeys DEF MarkList, n
  <2> DEFINE f == [j \in K |-> M[j] /\ j \notin gone]
  <2>6. ASSUME NEW o \in Lists!Elements(cleared) PROVE f[o.key] = o.visited
    <3>1. PICK i \in 1 .. n : o = cleared[i]
      BY <2>4 DEF Lists!Elements
    <3>2. list[i].key \in gone <=> i \in passed
      BY <1>1, <1>5
    <3>3. f[list[i].key] = (M[list[i].key] /\ list[i].key \notin gone)
      BY <1>8
    <3> QED
      BY <1>8, <2>3, <3>1, <3>2, <3>3
  <2>7. f = [j \in Lists!KeysOf(cleared) |-> f[j]]
    BY <2>5
  <2> HIDE DEF f
  <2>8. MarksOf(cleared) = f
    BY <2>5, <2>6, <2>7, MarksAre
  <2> QED
    BY <2>5, <2>8 DEF f
<1>10. MarksOf(after) = [j \in K \ {k} |-> M[j] /\ j \notin gone]
  <2> DEFINE f == [j \in K |-> M[j] /\ j \notin gone]
  <2> HIDE DEF cleared, k, gone, M, K
  <2>1. MarksOf(after) = RemovedMarks(f, k)
    BY <1>9, MarksOmit
  <2> QED
    BY <2>1 DEF RemovedMarks
<1>11. /\ passes = n => /\ \A j \in K : M[j]
                        /\ gone = K
       /\ gone \subseteq {j \in K : M[j]}
  <2>1. K = {list[i].key : i \in 1 .. n}
    BY <1>1 DEF Lists!KeysOf
  <2> QED
    BY <1>5, <1>8, <2>1
<1> HIDE DEF M, K, gone, k, after, cleared
<1>12. CASE passes = n
  <2> DEFINE others == K \ {k}
  <2>1. M[k] /\ \A j \in K : M[j]
    BY <1>6, <1>8, <1>11, <1>12
  <2>2. \A j \in K \ {k} : (M[j] /\ j \notin gone) = (M[j] /\ j \notin others)
    BY <1>11, <1>12
  <2>3. MarksOf(after) = [j \in K \ {k} |-> M[j] /\ j \notin others]
    BY <1>10, <2>2
  <2> HIDE DEF others
  <2>4. GivesChances(k, M, MarksOf(after))
    BY <1>8, <2>1, <2>3 DEF GivesChances, others
  <2> QED
    BY <1>2, <2>4, MarksAreThese DEF M, list
<1>13. CASE passes # n
  <2>1. ~M[k]
    BY <1>6, <1>8, <1>13
  <2>2. gone \in SUBSET {j \in DOMAIN M : M[j]}
    BY <1>8, <1>11
  <2>3. GivesChances(k, M, MarksOf(after))
    BY <1>8, <1>10, <2>1, <2>2 DEF GivesChances
  <2> QED
    BY <1>2, <2>3, MarksAreThese DEF M, list
<1> QED
  BY <1>12, <1>13

MarksIn(p, st) == IF p = "clock" THEN Clock!Marks(st) ELSE Sieve!Marks(st)

\* Every call but evict_one does to the marks what SecondChance says.
LEMMA MarksAfterCalls ==
    ASSUME NEW p \in {"clock", "sieve"}, NEW st, Sane(p, st, HashedKeys, CacheSizes)
    PROVE  /\ \A k \in HashedKeys :
                  /\ \A s : MarksIn(p, Insert(p, st, k, s)) = InsertedMarks(MarksIn(p, st), k)
                  /\ MarksIn(p, Update(p, st, k)) = UpdatedMarks(MarksIn(p, st), k)
                  /\ MarksIn(p, Remove(p, st, k)) = RemovedMarks(MarksIn(p, st), k)
           /\ \A max_size : Resize(p, st, max_size) = st
           /\ \A max_size : MarksIn(p, New(p, max_size)) = [k \in {} |-> FALSE]
           /\ MarksIn(p, Clear(p, st)) = [k \in {} |-> FALSE]
<1>1. CASE p = "clock"
  <2>1. ClockList(st, HashedKeys)
    BY <1>1 DEF Sane
  <2>2. \A k \in HashedKeys :
            /\ Clock!Marks(Clock!Insert(st, k)) = InsertedMarks(Clock!Marks(st), k)
            /\ Clock!Marks(Clock!Update(st, k)) = UpdatedMarks(Clock!Marks(st), k)
            /\ Clock!Marks(Clock!Remove(st, k)) = RemovedMarks(Clock!Marks(st), k)
    BY <2>1, ClockMarks
  <2>3. Clock!Marks(Clock!New) = [k \in {} |-> FALSE]
    <3>1. Clock!New = <<>> /\ Lists!KeysOf(<<>>) = {}
      BY DEF Clock!New, Lists!KeysOf
    <3> QED
      BY <3>1, MarksAreThese DEF MarksOf
  <2> QED
    BY <1>1, <2>2, <2>3 DEF MarksIn, Insert, Update, Remove, Resize, Clear, New
<1>2. CASE p = "sieve"
  <2>1. SieveList(st, HashedKeys)
    BY <1>2 DEF Sane
  <2>2. \A k \in HashedKeys :
            /\ Sieve!Marks(Sieve!Insert(st, k)) = InsertedMarks(Sieve!Marks(st), k)
            /\ Sieve!Marks(Sieve!Update(st, k)) = UpdatedMarks(Sieve!Marks(st), k)
            /\ Sieve!Marks(Sieve!Remove(st, k)) = RemovedMarks(Sieve!Marks(st), k)
    BY <2>1, SieveMarks
  <2>3. Sieve!Marks(Sieve!New) = [k \in {} |-> FALSE]
    <3>1. Sieve!New.list = <<>> /\ Lists!KeysOf(<<>>) = {}
      BY DEF Sieve!New, Lists!KeysOf
    <3> QED
      BY <3>1, MarksAreThese DEF MarksOf
  <2> QED
    BY <1>2, <2>2, <2>3 DEF MarksIn, Insert, Update, Remove, Resize, Clear, New
<1> QED
  BY <1>1, <1>2

\* evict_one of a stack with keys gives chances; of one without, it returns None.
LEMMA MarksAfterEvict ==
    ASSUME NEW p \in {"clock", "sieve"}, NEW st, Sane(p, st, HashedKeys, CacheSizes),
           NEW evicted, evicted = EvictOne(p, st)
    PROVE  \/ GivesChances(evicted.key, MarksIn(p, st), MarksIn(p, evicted.stack))
           \/ /\ DOMAIN MarksIn(p, st) = {} /\ evicted.key = NoKey
              /\ MarksIn(p, evicted.stack) = MarksIn(p, st)
<1>1. CASE p = "clock"
  <2>1. ClockList(st, HashedKeys) /\ evicted = Clock!EvictOne(st)
    BY <1>1 DEF Sane, EvictOne
  <2>2. CASE st = <<>>
    <3>1. evicted.key = NoKey /\ evicted.stack = st
      BY <2>1, <2>2 DEF Clock!EvictOne, Clock!Evicting
    <3>2. DOMAIN MarksOf(st) = {}
      BY <2>2 DEF MarksOf, Lists!KeysOf
    <3> QED
      BY <1>1, <3>1, <3>2, MarksAreThese DEF MarksIn
  <2>3. CASE st # <<>>
    BY <1>1, <2>1, <2>3, ClockGives DEF MarksIn
  <2> QED
    BY <2>2, <2>3
<1>2. CASE p = "sieve"
  <2>1. SieveList(st, HashedKeys) /\ evicted = Sieve!EvictOne(st)
    BY <1>2 DEF Sane, EvictOne
  <2>2. CASE st.list = <<>>
    <3>1. evicted.key = NoKey /\ evicted.stack.list = st.list
      <4>1. st = [list |-> st.list, hand |-> st.hand]
        BY <2>1 DEF SieveList
      <4> QED
        BY <2>1, <2>2, <4>1 DEF Sieve!EvictOne, Sieve!Evicting
    <3>2. DOMAIN MarksOf(st.list) = {}
      BY <2>2 DEF MarksOf, Lists!KeysOf
    <3> QED
      BY <1>2, <3>1, <3>2, MarksAreThese DEF MarksIn
  <2>3. CASE st.list # <<>>
    BY <1>2, <2>1, <2>3, SieveGives DEF MarksIn
  <2> QED
    BY <2>2, <2>3
<1> QED
  BY <1>1, <1>2

LEMMA CallsGiveChances ==
    ASSUME StackInv, Marking, [Next]_vars
    PROVE  [Chances!Next]_Chances!vars
<1> DEFINE marks == MarksIn(policy, stack)
           next  == MarksIn(policy, stack')
<1>1. policy \in {"clock", "sieve"} /\ Sane(policy, stack, HashedKeys, CacheSizes)
  BY DEF StackInv, Marking
<1>2. CASE UNCHANGED vars
  BY <1>2 DEF vars, Chances!vars
<1>3. ASSUME policy' = policy
      PROVE  /\ \A k : Chances!Insert(k) <=> next = InsertedMarks(marks, k) /\ last' = <<"insert", k>>
             /\ \A k : Chances!Update(k) <=> next = UpdatedMarks(marks, k) /\ last' = <<"update", k>>
             /\ \A k : Chances!Remove(k) <=> next = RemovedMarks(marks, k) /\ last' = <<"remove", k>>
             /\ Chances!Resize <=> next = marks /\ last' = <<"resize", NoKey>>
             /\ Chances!Clear <=> next = [k \in {} |-> FALSE] /\ last' = <<"clear", NoKey>>
             /\ \A k : GivesChances(k, marks, next) /\ last' = <<"evict_one", k>> => Chances!EvictOne
             /\ DOMAIN marks = {} /\ next = marks /\ last' = <<"evict_one", NoKey>> => Chances!EvictOne
  BY <1>3 DEF MarksIn, InsertedMarks, UpdatedMarks, RemovedMarks, GivesChances, Chances!Insert,
     Chances!Update, Chances!Remove, Chances!Resize, Chances!Clear, Chances!EvictOne,
     Chances!known, Chances!PassedOver
<1> HIDE DEF marks, next
<1>4. ASSUME NEW k \in HashedKeys, Get(k) PROVE Chances!Next
  <2>1. policy' = policy /\ stack' = Update(policy, stack, k) /\ last' = <<"update", k>>
    BY <1>4 DEF Get, Call
  <2>2. next = UpdatedMarks(marks, k)
    BY <1>1, <2>1, MarksAfterCalls DEF marks, next
  <2> QED
    BY <1>3, <2>1, <2>2 DEF Chances!Next
<1>5. ASSUME NEW k \in HashedKeys, Del(k) PROVE Chances!Next
  <2>1. policy' = policy /\ stack' = Remove(policy, stack, k) /\ last' = <<"remove", k>>
    BY <1>5 DEF Del, Call
  <2>2. next = RemovedMarks(marks, k)
    BY <1>1, <2>1, MarksAfterCalls DEF marks, next
  <2> QED
    BY <1>3, <2>1, <2>2 DEF Chances!Next
<1>6. ASSUME NEW k \in HashedKeys, NEW s \in ObjectSizes, Set(k, s) PROVE Chances!Next
  <2>1. policy' = policy /\ stack' = Insert(policy, stack, k, s) /\ last' = <<"insert", k>>
    BY <1>6 DEF Set, Call
  <2>2. next = InsertedMarks(marks, k)
    BY <1>1, <2>1, MarksAfterCalls DEF marks, next
  <2> QED
    BY <1>3, <2>1, <2>2 DEF Chances!Next
<1>7. ASSUME NEW max_size \in CacheSizes, SetMaxSize(max_size) PROVE Chances!Next
  <2>1. policy' = policy /\ stack' = Resize(policy, stack, max_size) /\ last' = <<"resize", NoKey>>
    BY <1>7 DEF SetMaxSize, Call
  <2>2. next = marks
    BY <1>1, <2>1, MarksAfterCalls DEF marks, next
  <2> QED
    BY <1>3, <2>1, <2>2 DEF Chances!Next
<1>8. CASE Wipe
  <2>1. policy' = policy /\ stack' = Clear(policy, stack) /\ last' = <<"clear", NoKey>>
    BY <1>8 DEF Wipe, Call
  <2>2. next = [k \in {} |-> FALSE]
    BY <1>1, <2>1, MarksAfterCalls DEF next
  <2> QED
    BY <1>3, <2>1, <2>2 DEF Chances!Next
<1>9. CASE Evict
  <2> DEFINE evicted == EvictOne(policy, stack)
  <2>1. policy' = policy /\ stack' = evicted.stack /\ last' = <<"evict_one", evicted.key>>
    BY <1>9 DEF Evict, Call
  <2>2. \/ GivesChances(evicted.key, marks, next)
        \/ DOMAIN marks = {} /\ evicted.key = NoKey /\ next = marks
    BY <1>1, <2>1, MarksAfterEvict DEF marks, next
  <2> HIDE DEF evicted
  <2> QED
    BY <1>3, <2>1, <2>2 DEF Chances!Next
<1> QED
  BY <1>2, <1>4, <1>5, <1>6, <1>7, <1>8, <1>9 DEF Next

\* clock and sieve implement the second chance: a key used since it was last passed
\* over is not evicted while another was not, and loses its mark by being passed
\* alone, whatever a remove does to sieve's hand (clock_stack.rs, sieve_stack.rs).
THEOREM UsedKeysAreSpared == Spec => UsedKeysGetAnotherChance
<1>1. Init => (Marking => Chances!Init)
  <2> SUFFICES ASSUME Init, Marking PROVE Chances!Init
    OBVIOUS
  <2>1. /\ policy \in {"clock", "sieve"} /\ last = <<"new", NoKey>>
        /\ \E max_size \in CacheSizes : stack = New(policy, max_size)
    BY DEF Init, Marking
  <2>2. Sane(policy, stack, HashedKeys, CacheSizes)
    BY StackStarts DEF StackInv
  <2>3. MarksIn(policy, stack) = [k \in {} |-> FALSE]
    BY <2>1, <2>2, MarksAfterCalls
  <2> QED
    BY <2>1, <2>3 DEF MarksIn, Chances!Init
<1>2. StackInv /\ [Next]_vars => (Marking => [Chances!Next]_Chances!vars)
  BY CallsGiveChances
<1> QED
  BY <1>1, <1>2, StacksStaySane, PTL DEF Spec, UsedKeysGetAnotherChance

\* After a set of a key that is new to a 2q stack, a1_in is within its maximum size or
\* holds that key alone, although no resize ever trims it (restructure_to_fit).
THEOREM AdmittedKeysFit == Spec => NewKeyFits
<1> DEFINE Fit == policy = "2q" =>
                      \A k \in HashedKeys \ told : last' = <<"insert", k>> =>
                          stack'.a1_in.used <= stack.in_size \/ Len(stack'.a1_in.list) = 1
<1>1. ASSUME StackInv, Next PROVE Fit
  <2> SUFFICES ASSUME policy = "2q", NEW k \in HashedKeys \ told, last' = <<"insert", k>>
               PROVE  stack'.a1_in.used <= stack.in_size \/ Len(stack'.a1_in.list) = 1
    OBVIOUS
  <2>1. PICK s \in ObjectSizes : Set(k, s)
    <3>1. /\ \A j : Get(j) => last'[1] = "update"
          /\ \A j : Del(j) => last'[1] = "remove"
          /\ \A max_size : SetMaxSize(max_size) => last'[1] = "resize"
          /\ Wipe => last'[1] = "clear"
          /\ Evict => last'[1] = "evict_one"
      BY DEF Get, Del, SetMaxSize, Wipe, Evict, Call
    <3>2. PICK j \in HashedKeys, s \in ObjectSizes : Set(j, s)
      BY <1>1, <3>1 DEF Next
    <3>3. j = k
      BY <3>2 DEF Set, Call
    <3> QED
      BY <3>2, <3>3
  <2>2. TwoQShape(stack, HashedKeys) /\ s \in Nat /\ stack' = TwoQ!Insert(stack, k, s)
    BY <1>1, <2>1, StacksAssumption DEF StackInv, Sane, Set, Insert
  <2>3. k \notin TwoQ!Keys(stack)
    BY <1>1 DEF StackInv, Exact, KeysIn
  <2>4. stack' = TwoQ!Admit(stack, k, s)
    BY <2>2, <2>3 DEF TwoQ!Insert
  <2> QED
    BY <2>2, <2>4, TwoQMakesRoom
<1>2. StackInv /\ [Next]_vars => [Fit]_vars
  BY <1>1
<1> HIDE DEF Fit
<1>3. Spec => [][Fit]_vars
  BY <1>2, StacksStaySane, PTL DEF Spec
<1> QED
  BY <1>3 DEF Fit, NewKeyFits

-----------------------------------------------------------------------------
(***************************************************************************)
(* The eviction order of fifo, lru and lfu                                 *)
(***************************************************************************)

\* In a list x is behind y, and so is evicted before it.
Before(l, x, y) == \E i, j \in DOMAIN l : i > j /\ x = l[i] /\ y = l[j]

\* The pairs of keys one of which is behind the other, as in PolicyStacks.
OrderOf(l) == {<<l[p[1]], l[p[2]]>> : p \in {p \in (DOMAIN l) \X (DOMAIN l) : p[1] > p[2]}}

LEMMA OrderPairs ==
    ASSUME NEW l
    PROVE  /\ OrderOf(l) \in SUBSET (Lists!Elements(l) \X Lists!Elements(l))
           /\ \A x, y : <<x, y>> \in OrderOf(l) <=> Before(l, x, y)
<1>1. \A x, y : Before(l, x, y) => x \in Lists!Elements(l) /\ y \in Lists!Elements(l)
  BY DEF Before, Lists!Elements
<1>2. ASSUME NEW x, NEW y PROVE <<x, y>> \in OrderOf(l) <=> Before(l, x, y)
  <2>1. ASSUME <<x, y>> \in OrderOf(l) PROVE Before(l, x, y)
    <3>1. PICK p \in (DOMAIN l) \X (DOMAIN l) : p[1] > p[2] /\ <<x, y>> = <<l[p[1]], l[p[2]]>>
      BY <2>1 DEF OrderOf
    <3> QED
      BY <3>1 DEF Before
  <2>2. ASSUME Before(l, x, y) PROVE <<x, y>> \in OrderOf(l)
    <3>1. PICK i, j \in DOMAIN l : i > j /\ x = l[i] /\ y = l[j]
      BY <2>2 DEF Before
    <3> DEFINE p == <<i, j>>
    <3>2. p \in (DOMAIN l) \X (DOMAIN l) /\ p[1] > p[2] /\ <<x, y>> = <<l[p[1]], l[p[2]]>>
      BY <3>1
    <3> HIDE DEF p
    <3> QED
      BY <3>2 DEF OrderOf
  <2> QED
    BY <2>1, <2>2
<1>3. ASSUME NEW q \in OrderOf(l) PROVE q \in Lists!Elements(l) \X Lists!Elements(l)
  <2>1. PICK p \in (DOMAIN l) \X (DOMAIN l) : p[1] > p[2] /\ q = <<l[p[1]], l[p[2]]>>
    BY <1>3 DEF OrderOf
  <2>2. l[p[1]] \in Lists!Elements(l) /\ l[p[2]] \in Lists!Elements(l)
    BY <2>1 DEF Lists!Elements
  <2> QED
    BY <2>1, <2>2
<1> QED
  BY <1>2, <1>3

LEMMA BeforeMembers ==
    ASSUME NEW S, NEW l \in Seq(S)
    PROVE  \A x, y : Before(l, x, y) => /\ x \in Lists!Elements(l) /\ y \in Lists!Elements(l)
                                        /\ Once(l) => x # y
  BY DEF Before, Lists!Elements, Once, Lists!NoRepeats

LEMMA BeforeFew == \A x, y : ~Before(<<>>, x, y) /\ \A k : ~Before(<<k>>, x, y)
  BY DEF Before

\* In two lists joined, the second is behind the first.
LEMMA BeforeConcat ==
    ASSUME NEW S, NEW s \in Seq(S), NEW t \in Seq(S)
    PROVE  \A x, y : Before(s \o t, x, y) <=>
                         \/ Before(s, x, y) \/ Before(t, x, y)
                         \/ x \in Lists!Elements(t) /\ y \in Lists!Elements(s)
<1> DEFINE u == s \o t
           m == Len(s)
           n == Len(t)
<1>1. /\ m \in Nat /\ n \in Nat /\ DOMAIN u = 1 .. (m + n) /\ DOMAIN s = 1 .. m /\ DOMAIN t = 1 .. n
      /\ \A i \in 1 .. m : u[i] = s[i]
      /\ \A i \in 1 .. n : u[m + i] = t[i]
  BY ConcatAt
<1> HIDE DEF u, m, n
<1> SUFFICES ASSUME NEW x, NEW y
             PROVE  Before(u, x, y) <=> \/ Before(s, x, y) \/ Before(t, x, y)
                                        \/ x \in Lists!Elements(t) /\ y \in Lists!Elements(s)
  BY DEF u
<1>2. ASSUME Before(s, x, y) PROVE Before(u, x, y)
  <2>1. PICK i, j \in 1 .. m : i > j /\ x = s[i] /\ y = s[j]
    BY <1>1, <1>2 DEF Before
  <2>2. i \in DOMAIN u /\ j \in DOMAIN u /\ u[i] = x /\ u[j] = y
    BY <1>1, <2>1
  <2> QED
    BY <2>1, <2>2 DEF Before
<1>3. ASSUME Before(t, x, y) PROVE Before(u, x, y)
  <2>1. PICK i, j \in 1 .. n : i > j /\ x = t[i] /\ y = t[j]
    BY <1>1, <1>3 DEF Before
  <2>2. m + i \in DOMAIN u /\ m + j \in DOMAIN u /\ u[m + i] = x /\ u[m + j] = y /\ m + i > m + j
    BY <1>1, <2>1
  <2> QED
    BY <2>2 DEF Before
<1>4. ASSUME x \in Lists!Elements(t), y \in Lists!Elements(s) PROVE Before(u, x, y)
  <2>1. PICK i \in 1 .. n : x = t[i]
    BY <1>1, <1>4 DEF Lists!Elements
  <2>2. PICK j \in 1 .. m : y = s[j]
    BY <1>1, <1>4 DEF Lists!Elements
  <2>3. m + i \in DOMAIN u /\ j \in DOMAIN u /\ u[m + i] = x /\ u[j] = y /\ m + i > j
    BY <1>1, <2>1, <2>2
  <2> QED
    BY <2>3 DEF Before
<1>5. ASSUME Before(u, x, y)
      PROVE  \/ Before(s, x, y) \/ Before(t, x, y)
             \/ x \in Lists!Elements(t) /\ y \in Lists!Elements(s)
  <2>1. PICK i, j \in 1 .. (m + n) : i > j /\ x = u[i] /\ y = u[j]
    BY <1>1, <1>5 DEF Before
  <2>2. CASE i \in 1 .. m
    <3>1. j \in 1 .. m /\ x = s[i] /\ y = s[j]
      BY <1>1, <2>1, <2>2
    <3> QED
      BY <1>1, <2>1, <2>2, <3>1 DEF Before
  <2>3. CASE i \notin 1 .. m
    <3>1. i - m \in 1 .. n /\ m + (i - m) = i
      BY <1>1, <2>1, <2>3
    <3>2. x = t[i - m]
      BY <1>1, <2>1, <3>1
    <3>3. CASE j \in 1 .. m
      BY <1>1, <2>1, <3>1, <3>2, <3>3 DEF Lists!Elements
    <3>4. CASE j \notin 1 .. m
      <4>1. j - m \in 1 .. n /\ m + (j - m) = j /\ i - m > j - m
        BY <1>1, <2>1, <3>4
      <4>2. y = t[j - m]
        BY <1>1, <2>1, <4>1
      <4> QED
        BY <1>1, <3>1, <3>2, <4>1, <4>2 DEF Before
    <3> QED
      BY <3>3, <3>4
  <2> QED
    BY <2>2, <2>3
<1> QED
  BY <1>2, <1>3, <1>4, <1>5

\* A key in front is before none.
LEMMA BeforePush ==
    ASSUME NEW S, NEW l \in Seq(S), NEW k \in S
    PROVE  \A x, y : Before(<<k>> \o l, x, y) <=> \/ Before(l, x, y)
                                                  \/ x \in Lists!Elements(l) /\ y = k
<1> DEFINE o == <<k>>
<1>1. o \in Seq(S) /\ Lists!Elements(o) = {k} /\ \A x, y : ~Before(o, x, y)
  BY OneHolds, BeforeFew
<1> HIDE DEF o
<1>2. \A x, y : Before(o \o l, x, y) <=> \/ Before(o, x, y) \/ Before(l, x, y)
                                         \/ x \in Lists!Elements(l) /\ y \in Lists!Elements(o)
  BY <1>1, BeforeConcat
<1> QED
  BY <1>1, <1>2 DEF o

\* The order of the others stays when a key leaves the list, ...
LEMMA BeforeOmit ==
    ASSUME NEW S, NEW l, KeyList(l, S), NEW k
    PROVE  \A x, y : Before(Lists!Omit(l, k), x, y) <=> Before(l, x, y) /\ x # k /\ y # k
<1>1. l \in Seq(S) /\ Once(l) /\ \A x, y : Before(l, x, y) => /\ x \in Lists!Elements(l)
                                                              /\ y \in Lists!Elements(l)
  BY BeforeMembers DEF KeyList
<1>2. CASE k \notin Lists!Elements(l)
  <2>1. Lists!Omit(l, k) = l
    BY <1>2 DEF Lists!Omit, Lists!Has
  <2> QED
    BY <1>1, <1>2, <2>1
<1>3. CASE k \in Lists!Elements(l)
  <2> DEFINE i == CHOOSE i \in DOMAIN l : l[i] = k
  <2>1. i \in 1 .. Len(l) /\ l[i] = k
    BY <1>1, <1>3 DEF Lists!Elements
  <2>2. Lists!Omit(l, k) = Lists!WithoutAt(l, i)
    BY <1>3 DEF Lists!Omit, Lists!Has
  <2> HIDE DEF i
  <2>3. PICK a, b \in Seq(S) : l = (a \o <<k>>) \o b /\ Lists!WithoutAt(l, i) = a \o b
    <3>1. Around(l, i, S)
      BY <1>1, <2>1, SplitAround
    <3> QED
      BY <2>1, <3>1 DEF Around
  <2> DEFINE o  == <<k>>
             ao == a \o o
  <2>4. o \in Seq(S) /\ Lists!Elements(o) = {k} /\ \A x, y : ~Before(o, x, y)
    <3>1. k \in S
      BY <1>1, <2>1
    <3> QED
      BY <3>1, OneHolds, BeforeFew
  <2>5. l = ao \o b
    BY <2>3
  <2> HIDE DEF o
  <2>6. /\ ao \in Seq(S) /\ Lists!Elements(ao) = Lists!Elements(a) \cup {k}
        /\ Once(ao) <=> Once(a) /\ Once(o) /\ Lists!Elements(a) \cap {k} = {}
        /\ \A x, y : Before(ao, x, y) <=> Before(a, x, y) \/ (x = k /\ y \in Lists!Elements(a))
    <3>1. /\ ao \in Seq(S) /\ Lists!Elements(ao) = Lists!Elements(a) \cup {k}
          /\ Once(ao) <=> Once(a) /\ Once(o) /\ Lists!Elements(a) \cap {k} = {}
      BY <2>4, ConcatHolds
    <3>2. \A x, y : Before(ao, x, y) <=> \/ Before(a, x, y) \/ Before(o, x, y)
                                         \/ x \in Lists!Elements(o) /\ y \in Lists!Elements(a)
      BY <2>4, BeforeConcat
    <3>3. ASSUME NEW x, NEW y
          PROVE  Before(ao, x, y) <=> Before(a, x, y) \/ (x = k /\ y \in Lists!Elements(a))
      BY <2>4, <3>2
    <3> QED
      BY <3>1, <3>3
  <2> HIDE DEF ao
  <2>7. /\ Once(ao) /\ Lists!Elements(ao) \cap Lists!Elements(b) = {}
        /\ \A x, y : Before(l, x, y) <=> \/ Before(ao, x, y) \/ Before(b, x, y)
                                         \/ x \in Lists!Elements(b) /\ y \in Lists!Elements(ao)
    BY <1>1, <2>5, <2>6, ConcatHolds, BeforeConcat
  <2>8. \A x, y : Before(a \o b, x, y) <=> \/ Before(a, x, y) \/ Before(b, x, y)
                                           \/ x \in Lists!Elements(b) /\ y \in Lists!Elements(a)
    BY BeforeConcat
  <2>9. /\ \A x, y : Before(a, x, y) => x \in Lists!Elements(a) /\ y \in Lists!Elements(a)
        /\ \A x, y : Before(b, x, y) => x \in Lists!Elements(b) /\ y \in Lists!Elements(b)
    BY BeforeMembers
  <2>10. k \notin Lists!Elements(a) /\ k \notin Lists!Elements(b)
    BY <2>6, <2>7
  <2>11. ASSUME NEW x, NEW y
         PROVE  Before(a \o b, x, y) <=> Before(l, x, y) /\ x # k /\ y # k
    BY <2>6, <2>7, <2>8, <2>9, <2>10
  <2> QED
    BY <2>2, <2>3, <2>11
<1> QED
  BY <1>2, <1>3

\* ... or moves to its front.
LEMMA BeforePushFront ==
    ASSUME NEW S, NEW l, KeyList(l, S), NEW k \in S
    PROVE  \A x, y : Before(Lists!PushFront(l, k), x, y) <=>
                         \/ Before(l, x, y) /\ x # k /\ y # k
                         \/ x \in Lists!Elements(l) /\ x # k /\ y = k
<1> DEFINE t == Lists!Omit(l, k)
<1>1. /\ t \in Seq(S) /\ Lists!Elements(t) = Lists!Elements(l) \ {k}
      /\ \A x, y : Before(t, x, y) <=> Before(l, x, y) /\ x # k /\ y # k
  <2>1. l \in Seq(S) /\ Once(l)
    BY DEF KeyList
  <2> QED
    BY <2>1, OmitHolds, BeforeOmit
<1>2. Lists!PushFront(l, k) = <<k>> \o t
  BY DEF Lists!PushFront
<1> HIDE DEF t
<1>3. ASSUME NEW x, NEW y
      PROVE  Before(<<k>> \o t, x, y) <=> \/ Before(t, x, y)
                                          \/ x \in Lists!Elements(t) /\ y = k
  BY <1>1, BeforePush, Zenon
<1>4. ASSUME NEW x, NEW y
      PROVE  Before(<<k>> \o t, x, y) <=> \/ Before(l, x, y) /\ x # k /\ y # k
                                          \/ x \in Lists!Elements(l) /\ x # k /\ y = k
  BY <1>1, <1>3
<1> QED
  BY <1>2, <1>4

\* The back is before all others, whose order stays when it goes.
LEMMA BeforeBack ==
    ASSUME NEW S, NEW l, KeyList(l, S), l # <<>>
    PROVE  LET k == Lists!Back(l)
           IN  /\ k \in Lists!Elements(l) /\ \A y \in Lists!Elements(l) \ {k} : Before(l, k, y)
               /\ \A x, y : Before(Lists!WithoutBack(l), x, y) <=> Before(l, x, y) /\ x # k /\ y # k
<1> DEFINE k == Lists!Back(l)
           a == Lists!WithoutBack(l)
           o == <<k>>
<1>1. /\ k \in S /\ a \in Seq(S) /\ l = a \o o /\ Lists!Elements(l) = Lists!Elements(a) \cup {k}
      /\ k \notin Lists!Elements(a)
  BY BackHolds DEF KeyList
<1> HIDE DEF k, a
<1>2. o \in Seq(S) /\ Lists!Elements(o) = {k} /\ \A x, y : ~Before(o, x, y)
  BY <1>1, OneHolds, BeforeFew
<1> HIDE DEF o
<1>3. \A x, y : Before(l, x, y) <=> Before(a, x, y) \/ (x = k /\ y \in Lists!Elements(a))
  <2>1. \A x, y : Before(a \o o, x, y) <=> \/ Before(a, x, y) \/ Before(o, x, y)
                                           \/ x \in Lists!Elements(o) /\ y \in Lists!Elements(a)
    BY <1>1, <1>2, BeforeConcat
  <2>2. ASSUME NEW x, NEW y
        PROVE  Before(l, x, y) <=> Before(a, x, y) \/ (x = k /\ y \in Lists!Elements(a))
    BY <1>1, <1>2, <2>1
  <2> QED
    BY <2>2
<1>4. \A x, y : Before(a, x, y) => x \in Lists!Elements(a) /\ y \in Lists!Elements(a)
  BY <1>1, BeforeMembers
<1>5. /\ k \in Lists!Elements(l) /\ \A y \in Lists!Elements(l) \ {k} : Before(l, k, y)
      /\ \A x, y : Before(a, x, y) <=> Before(l, x, y) /\ x # k /\ y # k
  BY <1>1, <1>3, <1>4
<1> QED
  BY <1>5 DEF k, a

\* lfu: the key is in an entry of this count, ...
At(E, k, count) == \E e \in E : e.count = count /\ k \in Lists!Elements(e.list)

\* ... and behind another in the list of one entry.
Near(E, x, y) == \E e \in E : Before(e.list, x, y)

\* Entries of different counts, with lists that are not empty and share no key.
Tidy(E, S) ==
    /\ E \in SUBSET Counts(S)
    /\ \A e \in E : KeyList(e.list, S) /\ e.list # <<>>
    /\ \A e, f \in E : e = f \/ /\ e.count # f.count
                                /\ Lists!Elements(e.list) \cap Lists!Elements(f.list) = {}

\* Every known key is in the one entry of its number of uses.
LEMMA LfuTidy ==
    ASSUME NEW S, NEW st, LfuShape(st, S)
    PROVE  /\ Tidy(CountStacks(st), S)
           /\ \A k \in Lfu!Keys(st) : /\ Lfu!UsesOf(st, k) \in Nat \ {0}
                                      /\ At(CountStacks(st), k, Lfu!UsesOf(st, k))
           /\ \A k, count : At(CountStacks(st), k, count) =>
                                k \in Lfu!Keys(st) /\ count = Lfu!UsesOf(st, k)
<1>1. PICK map, entries : LfuParts(st, map, entries, S)
  BY DEF LfuShape
<1> DEFINE E == CountStacks(st)
<1>2. /\ st.count_stacks = entries /\ Lfu!Keys(st) = DOMAIN map
      /\ entries \in Seq(Counts(S)) /\ Ranked(entries) /\ Filed(map, Lists!Elements(entries), S)
  BY <1>1, LfuFields DEF LfuParts
<1>3. E = Lists!Elements(entries) /\ E \in SUBSET Counts(S)
  BY <1>2, ElementsOf DEF CountStacks
<1> HIDE DEF E
<1>4. \A e \in E : /\ KeyList(e.list, S) /\ e.list # <<>>
                   /\ \A k \in Lists!Elements(e.list) : k \in DOMAIN map /\ map[k] = e.index
  BY <1>2, <1>3 DEF Filed
<1>5. ASSUME NEW e \in E, NEW f \in E, e # f PROVE e.count # f.count /\ e.index # f.index
  <2>1. PICK i, j \in DOMAIN entries : e = entries[i] /\ f = entries[j]
    BY <1>3 DEF Lists!Elements
  <2>2. i < j \/ j < i
    BY <1>2, <1>5, <2>1
  <2>3. e.count \in Nat /\ f.count \in Nat
    BY <1>3 DEF Counts
  <2> QED
    BY <1>2, <2>1, <2>2, <2>3 DEF Ranked
<1>6. Tidy(E, S)
  BY <1>3, <1>4, <1>5 DEF Tidy
<1>7. ASSUME NEW k \in DOMAIN map
      PROVE  Lfu!UsesOf(st, k) \in Nat \ {0} /\ At(E, k, Lfu!UsesOf(st, k))
  <2> DEFINE i == Lfu!EntryOf(st, k)
  <2>1. i \in DOMAIN entries /\ k \in Lists!Elements(entries[i].list)
    BY <1>1, <1>2, EntryHolds
  <2>2. Lfu!UsesOf(st, k) = entries[i].count
    BY <1>2 DEF Lfu!UsesOf
  <2> HIDE DEF i
  <2>3. entries[i] \in E
    BY <1>3, <2>1 DEF Lists!Elements
  <2> QED
    BY <1>3, <2>1, <2>2, <2>3 DEF Counts, At
<1>8. ASSUME NEW k, NEW count, At(E, k, count)
      PROVE  k \in DOMAIN map /\ count = Lfu!UsesOf(st, k)
  <2>1. k \in DOMAIN map
    BY <1>4, <1>8 DEF At
  <2> QED
    BY <1>5, <1>7, <1>8, <2>1, <1>4 DEF At
<1> QED
  BY <1>2, <1>6, <1>7, <1>8 DEF E

\* The values of the recursive function of InOrder.
Joins(f, s, n) == f = [i \in 0 .. n |-> IF i = 0 THEN <<>> ELSE s[i].list \o f[i - 1]]

LEMMA JoinsAt ==
    ASSUME NEW s, NEW n \in Nat, NEW f, Joins(f, s, n)
    PROVE  /\ f[0] = <<>>
           /\ \A i \in 1 .. n : f[i] = s[i].list \o f[i - 1]
<1> DEFINE g == [j \in 0 .. n |-> IF j = 0 THEN <<>> ELSE s[j].list \o f[j - 1]]
<1>1. f = g
  BY DEF Joins
<1>2. g[0] = <<>>
  OBVIOUS
<1>3. ASSUME NEW i \in 1 .. n PROVE g[i] = s[i].list \o f[i - 1]
  <2>1. i \in 0 .. n /\ ~(i = 0)
    OBVIOUS
  <2> QED
    BY <2>1
<1> HIDE DEF g
<1> QED
  BY <1>1, <1>2, <1>3

LEMMA JoinsExist ==
    ASSUME NEW s, NEW n \in Nat
    PROVE  \E f : Joins(f, s, n)
<1> DEFINE T == {m \in Nat : \E f : Joins(f, s, m)}
<1>1. 0 \in T
  <2> DEFINE f == [i \in 0 .. 0 |-> <<>>]
             g == [i \in 0 .. 0 |-> IF i = 0 THEN <<>> ELSE s[i].list \o f[i - 1]]
  <2>1. f = g
    OBVIOUS
  <2> HIDE DEF f
  <2>2. Joins(f, s, 0)
    BY <2>1 DEF Joins
  <2> QED
    BY <2>2
<1>2. ASSUME NEW m \in Nat, m \in T PROVE m + 1 \in T
  <2>1. PICK f : Joins(f, s, m)
    BY <1>2
  <2>2. f = [i \in 0 .. m |-> IF i = 0 THEN <<>> ELSE s[i].list \o f[i - 1]]
    BY <2>1 DEF Joins
  <2> DEFINE g == [i \in 0 .. m + 1 |-> IF i \in 0 .. m THEN f[i] ELSE s[i].list \o f[i - 1]]
             h == [i \in 0 .. m + 1 |-> IF i = 0 THEN <<>> ELSE s[i].list \o g[i - 1]]
  <2>3. \A i \in 0 .. m + 1 : g[i] = h[i]
    <3> SUFFICES ASSUME NEW i \in 0 .. m + 1 PROVE g[i] = h[i]
      OBVIOUS
    <3>1. CASE i = 0
      BY <2>2, <3>1
    <3>2. CASE i # 0
      <4>1. i - 1 \in 0 .. m /\ g[i - 1] = f[i - 1]
        BY <3>2
      <4>2. g[i] = s[i].list \o f[i - 1]
        BY <2>2, <3>2
      <4> QED
        BY <3>2, <4>1, <4>2
    <3> QED
      BY <3>1, <3>2
  <2>4. g = h
    BY <2>3
  <2> HIDE DEF g
  <2>5. Joins(g, s, m + 1)
    BY <2>4 DEF Joins
  <2> QED
    BY <2>5
<1> QED
  BY <1>1, <1>2, Lemmas!SetInduction

\* What the first m entries come to, the latest in front.
Gathered(l, s, m, S) ==
    /\ l \in Seq(S)
    /\ \A k : k \in Lists!Elements(l) <=> \E a \in 1 .. m : k \in Lists!Elements(s[a].list)
    /\ \A x, y : Before(l, x, y) <=>
           \/ \E a \in 1 .. m : Before(s[a].list, x, y)
           \/ \E a, b \in 1 .. m : /\ a < b /\ x \in Lists!Elements(s[a].list)
                                   /\ y \in Lists!Elements(s[b].list)

LEMMA GatheredNext ==
    ASSUME NEW S, NEW s \in Seq(Counts(S)), NEW m \in Nat, m + 1 \in DOMAIN s,
           NEW l, Gathered(l, s, m, S)
    PROVE  Gathered(s[m + 1].list \o l, s, m + 1, S)
<1> DEFINE t == s[m + 1].list
           u == t \o l
<1>1. t \in Seq(S) /\ l \in Seq(S)
  <2>1. s[m + 1] \in Counts(S)
    OBVIOUS
  <2> QED
    BY <2>1 DEF Gathered, Counts
<1>2. \A a : a \in 1 .. m + 1 <=> a \in 1 .. m \/ a = m + 1
  OBVIOUS
<1> HIDE DEF t
<1>3. /\ u \in Seq(S) /\ Lists!Elements(u) = Lists!Elements(t) \cup Lists!Elements(l)
      /\ \A x, y : Before(u, x, y) <=> \/ Before(t, x, y) \/ Before(l, x, y)
                                       \/ x \in Lists!Elements(l) /\ y \in Lists!Elements(t)
  BY <1>1, ConcatHolds, BeforeConcat
<1> HIDE DEF u
<1>4. ASSUME NEW k
      PROVE  k \in Lists!Elements(u) <=> \E a \in 1 .. m + 1 : k \in Lists!Elements(s[a].list)
  BY <1>2, <1>3 DEF Gathered, t
<1>5. ASSUME NEW x, NEW y
      PROVE  Before(u, x, y) <=>
                 \/ \E a \in 1 .. m + 1 : Before(s[a].list, x, y)
                 \/ \E a, b \in 1 .. m + 1 : /\ a < b /\ x \in Lists!Elements(s[a].list)
                                             /\ y \in Lists!Elements(s[b].list)
  <2>1. Before(l, x, y) <=>
            \/ \E a \in 1 .. m : Before(s[a].list, x, y)
            \/ \E a, b \in 1 .. m : /\ a < b /\ x \in Lists!Elements(s[a].list)
                                    /\ y \in Lists!Elements(s[b].list)
    BY DEF Gathered
  <2>2. x \in Lists!Elements(l) <=> \E a \in 1 .. m : x \in Lists!Elements(s[a].list)
    BY DEF Gathered
  <2>3. \A a, b \in 1 .. m + 1 : a < b => a \in 1 .. m
    OBVIOUS
  <2>4. \A a \in 1 .. m : a < m + 1
    OBVIOUS
  <2> QED
    BY <1>2, <1>3, <2>1, <2>2, <2>3, <2>4, m + 1 \in 1 .. m + 1 DEF t
<1> QED
  BY <1>3, <1>4, <1>5 DEF Gathered, u, t

LEMMA InOrderGathers ==
    ASSUME NEW S, NEW st, NEW s \in Seq(Counts(S)), s = st.count_stacks
    PROVE  Gathered(Lfu!InOrder(st), s, Len(s), S)
<1> DEFINE n      == Len(s)
           joined == CHOOSE f : Joins(f, s, n)
           T      == {m \in Nat : m <= n => Gathered(joined[m], s, m, S)}
<1>1. n \in Nat /\ DOMAIN s = 1 .. n
  OBVIOUS
<1> HIDE DEF n
<1>2. Joins(joined, s, n)
  BY <1>1, JoinsExist
<1>3. Lfu!InOrder(st) = joined[n]
  <2>1. Lfu!InOrder(st) = (CHOOSE f : f = [i \in 0 .. n |->
                              IF i = 0 THEN <<>> ELSE s[i].list \o f[i - 1]])[n]
    BY DEF Lfu!InOrder, n
  <2>2. \A f : f = [i \in 0 .. n |-> IF i = 0 THEN <<>> ELSE s[i].list \o f[i - 1]]
                   <=> Joins(f, s, n)
    BY DEF Joins
  <2> QED
    BY <2>1, <2>2
<1> HIDE DEF joined
<1>4. joined[0] = <<>> /\ \A i \in 1 .. n : joined[i] = s[i].list \o joined[i - 1]
  BY <1>1, <1>2, JoinsAt
<1>5. 0 \in T
  <2>1. joined[0] = <<>>
    BY <1>1, <1>4
  <2>2. Lists!Elements(<<>>) = {} /\ \A x, y : ~Before(<<>>, x, y)
    BY BeforeFew DEF Lists!Elements
  <2>3. 1 .. 0 = {} /\ <<>> \in Seq(S)
    OBVIOUS
  <2>4. Gathered(<<>>, s, 0, S)
    BY <2>2, <2>3 DEF Gathered
  <2> QED
    BY <2>1, <2>4
<1>6. ASSUME NEW m \in Nat, m \in T PROVE m + 1 \in T
  <2> SUFFICES ASSUME m + 1 <= n PROVE Gathered(joined[m + 1], s, m + 1, S)
    OBVIOUS
  <2>1. Gathered(joined[m], s, m, S) /\ m + 1 \in DOMAIN s
    BY <1>1, <1>6
  <2>2. joined[m + 1] = s[m + 1].list \o joined[m]
    <3> DEFINE i == m + 1
    <3>1. i \in 1 .. n /\ i - 1 = m
      BY <1>1
    <3> HIDE DEF i
    <3>2. joined[i] = s[i].list \o joined[i - 1]
      BY <1>4, <3>1
    <3> QED
      BY <3>1, <3>2 DEF i
  <2> QED
    BY <2>1, <2>2, GatheredNext
<1>7. n \in T
  <2>1. Nat \subseteq T
    <3> HIDE DEF T
    <3> QED
      BY <1>5, <1>6, Lemmas!SetInduction
  <2> QED
    BY <1>1, <2>1
<1> QED
  BY <1>1, <1>3, <1>7 DEF n

\* InOrder holds the known keys, those of more uses in front, as EvictionOrder has it.
LEMMA LfuOrder ==
    ASSUME NEW S, NEW st, LfuShape(st, S)
    PROVE  /\ Lists!Elements(Lfu!InOrder(st)) = Lfu!Keys(st)
           /\ \A x, y : Before(Lfu!InOrder(st), x, y) <=>
                  \/ Near(CountStacks(st), x, y)
                  \/ /\ x \in Lfu!Keys(st) /\ y \in Lfu!Keys(st)
                     /\ Lfu!UsesOf(st, x) < Lfu!UsesOf(st, y)
<1> DEFINE s == st.count_stacks
           E == CountStacks(st)
           l == Lfu!InOrder(st)
<1>1. s \in Seq(Counts(S)) /\ Ranked(s)
  BY DEF LfuShape, LfuParts
<1>2. Gathered(l, s, Len(s), S)
  BY <1>1, InOrderGathers
<1>3. /\ \A k \in Lfu!Keys(st) : /\ Lfu!UsesOf(st, k) \in Nat \ {0}
                                 /\ At(E, k, Lfu!UsesOf(st, k))
      /\ \A k, count : At(E, k, count) => k \in Lfu!Keys(st) /\ count = Lfu!UsesOf(st, k)
  BY LfuTidy
<1>4. /\ \A k, count : At(E, k, count) <=>
             \E a \in 1 .. Len(s) : s[a].count = count /\ k \in Lists!Elements(s[a].list)
      /\ \A x, y : Near(E, x, y) <=> \E a \in 1 .. Len(s) : Before(s[a].list, x, y)
  <2>1. E = {s[a] : a \in 1 .. Len(s)}
    BY <1>1 DEF CountStacks, Lists!Elements
  <2> QED
    BY <2>1 DEF At, Near
<1>5. \A a, b \in 1 .. Len(s) : a < b <=> s[a].count < s[b].count
  <2> SUFFICES ASSUME NEW a \in 1 .. Len(s), NEW b \in 1 .. Len(s)
               PROVE  a < b <=> s[a].count < s[b].count
    OBVIOUS
  <2>1. s[a].count \in Nat /\ s[b].count \in Nat
    <3>1. s[a] \in Counts(S) /\ s[b] \in Counts(S)
      BY <1>1
    <3> QED
      BY <3>1 DEF Counts
  <2>2. a < b => s[a].count < s[b].count
    BY <1>1 DEF Ranked
  <2>3. b < a => s[b].count < s[a].count
    BY <1>1 DEF Ranked
  <2>4. a < b \/ b < a \/ a = b
    OBVIOUS
  <2> QED
    BY <2>1, <2>2, <2>3, <2>4
<1> HIDE DEF s, E, l
<1>6. ASSUME NEW k PROVE k \in Lists!Elements(l) <=> k \in Lfu!Keys(st)
  BY <1>2, <1>3, <1>4 DEF Gathered
<1>7. ASSUME NEW x, NEW y
      PROVE  (\E a, b \in 1 .. Len(s) : /\ a < b /\ x \in Lists!Elements(s[a].list)
                                        /\ y \in Lists!Elements(s[b].list))
             <=> /\ x \in Lfu!Keys(st) /\ y \in Lfu!Keys(st)
                 /\ Lfu!UsesOf(st, x) < Lfu!UsesOf(st, y)
  <2>1. ASSUME NEW a \in 1 .. Len(s), NEW b \in 1 .. Len(s), a < b,
               x \in Lists!Elements(s[a].list), y \in Lists!Elements(s[b].list)
        PROVE  /\ x \in Lfu!Keys(st) /\ y \in Lfu!Keys(st)
               /\ Lfu!UsesOf(st, x) < Lfu!UsesOf(st, y)
    <3>1. At(E, x, s[a].count) /\ At(E, y, s[b].count)
      BY <1>4, <2>1
    <3>2. /\ x \in Lfu!Keys(st) /\ s[a].count = Lfu!UsesOf(st, x)
          /\ y \in Lfu!Keys(st) /\ s[b].count = Lfu!UsesOf(st, y)
      BY <1>3, <3>1
    <3> QED
      BY <1>5, <2>1, <3>2
  <2>2. ASSUME x \in Lfu!Keys(st), y \in Lfu!Keys(st), Lfu!UsesOf(st, x) < Lfu!UsesOf(st, y)
        PROVE  \E a, b \in 1 .. Len(s) : /\ a < b /\ x \in Lists!Elements(s[a].list)
                                         /\ y \in Lists!Elements(s[b].list)
    <3>1. At(E, x, Lfu!UsesOf(st, x)) /\ At(E, y, Lfu!UsesOf(st, y))
      BY <1>3, <2>2
    <3>2. PICK a \in 1 .. Len(s) : s[a].count = Lfu!UsesOf(st, x) /\ x \in Lists!Elements(s[a].list)
      BY <1>4, <3>1
    <3>3. PICK b \in 1 .. Len(s) : s[b].count = Lfu!UsesOf(st, y) /\ y \in Lists!Elements(s[b].list)
      BY <1>4, <3>1
    <3> QED
      BY <1>5, <2>2, <3>2, <3>3
  <2> QED
    BY <2>1, <2>2
<1>8. ASSUME NEW x, NEW y
      PROVE  Before(l, x, y) <=>
                 \/ Near(E, x, y)
                 \/ /\ x \in Lfu!Keys(st) /\ y \in Lfu!Keys(st)
                    /\ Lfu!UsesOf(st, x) < Lfu!UsesOf(st, y)
  BY <1>2, <1>4, <1>7 DEF Gathered
<1> QED
  BY <1>6, <1>8 DEF l, E

\* When a key leaves, the others stay where they are, and in their order.
LEMMA LeavesAt ==
    ASSUME NEW S, NEW E, Tidy(E, S), NEW k, NEW Y, Leaves(E, Y, k, S)
    PROVE  /\ Tidy(Y, S)
           /\ \A j, count : At(Y, j, count) <=> At(E, j, count) /\ j # k
           /\ \A x, y : Near(Y, x, y) <=> Near(E, x, y) /\ x # k /\ y # k
<1>1. PICK e \in Counts(S), X \in SUBSET Counts(S) :
          /\ E = X \cup {e} /\ \A x \in X : x.index # e.index
          /\ k \in Lists!Elements(e.list)
          /\ Y = X \cup Lists!Elements(Lfu!Reduced(e, k))
  BY DEF Leaves
<1>2. /\ KeyList(e.list, S)
      /\ \A x \in X : /\ KeyList(x.list, S) /\ x.list # <<>> /\ x.count # e.count
                      /\ Lists!Elements(x.list) \cap Lists!Elements(e.list) = {}
      /\ \A x, y \in X : x = y \/ /\ x.count # y.count
                                  /\ Lists!Elements(x.list) \cap Lists!Elements(y.list) = {}
  BY <1>1 DEF Tidy
<1> DEFINE l == Lists!Omit(e.list, k)
<1>3. /\ l \in Seq(S) /\ Once(l) /\ Lists!Elements(l) = Lists!Elements(e.list) \ {k}
      /\ \A x, y : Before(l, x, y) <=> Before(e.list, x, y) /\ x # k /\ y # k
  <2>1. e.list \in Seq(S) /\ Once(e.list)
    BY <1>2 DEF KeyList
  <2> QED
    BY <1>2, <2>1, OmitHolds, BeforeOmit
<1>4. /\ \A x \in X : k \notin Lists!Elements(x.list)
      /\ \A x \in X : \A i, j : Before(x.list, i, j) => i # k /\ j # k
  <2>1. ASSUME NEW x \in X PROVE k \notin Lists!Elements(x.list)
    BY <1>1, <1>2
  <2>2. ASSUME NEW x \in X, NEW i, NEW j, Before(x.list, i, j) PROVE i # k /\ j # k
    <3>1. x.list \in Seq(S)
      BY <1>2 DEF KeyList
    <3> QED
      BY <2>1, <2>2, <3>1, BeforeMembers
  <2> QED
    BY <2>1, <2>2
<1>5. /\ \A j, count : At(E, j, count) <=> \/ \E x \in X : x.count = count /\ j \in Lists!Elements(x.list)
                                           \/ e.count = count /\ j \in Lists!Elements(e.list)
      /\ \A x, y : Near(E, x, y) <=> \/ \E z \in X : Before(z.list, x, y)
                                     \/ Before(e.list, x, y)
  BY <1>1 DEF At, Near
<1>6. CASE l = <<>>
  <2>1. Y = X
    <3>1. Lfu!Reduced(e, k) = <<>> /\ Lists!Elements(<<>>) = {}
      BY <1>6, LfuLists DEF Lfu!Reduced, Lists!Elements
    <3> QED
      BY <1>1, <3>1
  <2>2. Lists!Elements(l) = {} /\ \A x, y : ~Before(l, x, y)
    BY <1>6, BeforeFew DEF Lists!Elements
  <2> HIDE DEF l
  <2>3. Tidy(Y, S)
    BY <1>2, <2>1 DEF Tidy
  <2>4. \A j, count : At(Y, j, count) <=> At(E, j, count) /\ j # k
    BY <1>3, <1>4, <1>5, <2>1, <2>2 DEF At
  <2>5. \A x, y : Near(Y, x, y) <=> Near(E, x, y) /\ x # k /\ y # k
    BY <1>3, <1>4, <1>5, <2>1, <2>2 DEF Near
  <2> QED
    BY <2>3, <2>4, <2>5
<1>7. CASE l # <<>>
  <2> DEFINE f == [e EXCEPT !.list = l]
  <2>1. f \in Counts(S) /\ f.count = e.count /\ f.list = l
    BY <1>3 DEF Counts
  <2>2. Y = X \cup {f}
    <3>1. Lfu!Reduced(e, k) = <<f>>
      BY <1>7, LfuLists DEF Lfu!Reduced
    <3>2. Lists!Elements(<<f>>) = {f}
      BY <2>1, OneHolds
    <3> QED
      BY <1>1, <3>1, <3>2
  <2> HIDE DEF f, l
  <2>3. Tidy(Y, S)
    <3>1. KeyList(f.list, S) /\ f.list # <<>>
      BY <1>3, <1>7, <2>1 DEF KeyList
    <3>2. ASSUME NEW x \in X
          PROVE  /\ x.count # f.count
                 /\ Lists!Elements(x.list) \cap Lists!Elements(f.list) = {}
      BY <1>2, <1>3, <2>1
    <3> QED
      BY <1>2, <2>1, <2>2, <3>1, <3>2 DEF Tidy
  <2>4. ASSUME NEW j, NEW count PROVE At(Y, j, count) <=> At(E, j, count) /\ j # k
    <3>1. At(Y, j, count) <=> \/ \E x \in X : x.count = count /\ j \in Lists!Elements(x.list)
                              \/ f.count = count /\ j \in Lists!Elements(f.list)
      BY <2>2 DEF At
    <3> QED
      BY <1>3, <1>4, <1>5, <2>1, <3>1
  <2>5. ASSUME NEW x, NEW y PROVE Near(Y, x, y) <=> Near(E, x, y) /\ x # k /\ y # k
    <3>1. Near(Y, x, y) <=> \/ \E z \in X : Before(z.list, x, y)
                            \/ Before(f.list, x, y)
      BY <2>2 DEF Near
    <3> QED
      BY <1>3, <1>4, <1>5, <2>1, <3>1
  <2> QED
    BY <2>3, <2>4, <2>5
<1> QED
  BY <1>6, <1>7

\* When a key comes to an entry, it is in front of those with as many uses.
LEMMA ComesAt ==
    ASSUME NEW S, NEW E, Tidy(E, S), NEW k \in S, NEW Z, NEW n, Comes(E, Z, k, n, S),
           \A count : ~At(E, k, count)
    PROVE  /\ \A j, count : At(Z, j, count) <=> At(E, j, count) \/ (j = k /\ count = n)
           /\ \A x, y : Near(Z, x, y) <=> Near(E, x, y) \/ (y = k /\ At(E, x, n))
<1>1. PICK next \in Counts(S), X \in SUBSET Counts(S) :
          /\ next.count = n /\ \A x \in X : x.count # n
          /\ Z = X \cup {next}
          /\ \/ E = X /\ next.list = <<k>>
             \/ \E f \in Counts(S) : /\ E = X \cup {f} /\ f.count = n
                                     /\ next.list = Lists!PushFront(f.list, k)
  BY DEF Comes
<1>2. /\ \A j, count : At(Z, j, count) <=> \/ \E x \in X : x.count = count /\ j \in Lists!Elements(x.list)
                                           \/ n = count /\ j \in Lists!Elements(next.list)
      /\ \A x, y : Near(Z, x, y) <=> \/ \E z \in X : Before(z.list, x, y)
                                     \/ Before(next.list, x, y)
  BY <1>1 DEF At, Near
<1>3. CASE E = X /\ next.list = <<k>>
  <2>1. Lists!Elements(next.list) = {k} /\ \A x, y : ~Before(next.list, x, y)
    BY <1>3, OneHolds, BeforeFew
  <2>2. \A j, count : At(Z, j, count) <=> At(E, j, count) \/ (j = k /\ count = n)
    BY <1>2, <1>3, <2>1 DEF At
  <2>3. \A x : ~At(E, x, n)
    BY <1>1, <1>3 DEF At
  <2>4. \A x, y : Near(Z, x, y) <=> Near(E, x, y) \/ (y = k /\ At(E, x, n))
    BY <1>2, <1>3, <2>1, <2>3 DEF Near
  <2> QED
    BY <2>2, <2>4
<1>4. ASSUME NEW f \in Counts(S), E = X \cup {f}, f.count = n,
             next.list = Lists!PushFront(f.list, k)
      PROVE  /\ \A j, count : At(Z, j, count) <=> At(E, j, count) \/ (j = k /\ count = n)
             /\ \A x, y : Near(Z, x, y) <=> Near(E, x, y) \/ (y = k /\ At(E, x, n))
  <2>1. KeyList(f.list, S) /\ f.list \in Seq(S) /\ Once(f.list)
    BY <1>4 DEF Tidy, KeyList
  <2>2. k \notin Lists!Elements(f.list)
    BY <1>4 DEF At
  <2>3. \A x, y : Before(next.list, x, y) <=> \/ Before(f.list, x, y)
                                              \/ x \in Lists!Elements(f.list) /\ y = k
    <3>1. \A x, y : Before(Lists!PushFront(f.list, k), x, y) <=>
                        \/ Before(f.list, x, y) /\ x # k /\ y # k
                        \/ x \in Lists!Elements(f.list) /\ x # k /\ y = k
      BY <2>1, BeforePushFront
    <3>2. \A x, y : Before(f.list, x, y) => x \in Lists!Elements(f.list) /\ y \in Lists!Elements(f.list)
      BY <2>1, BeforeMembers
    <3> QED
      BY <1>4, <2>2, <3>1, <3>2
  <2>4. Lists!Elements(next.list) = Lists!Elements(f.list) \cup {k}
    BY <1>4, <2>1, PushFrontHolds
  <2>5. /\ \A j, count : At(E, j, count) <=> \/ \E x \in X : x.count = count /\ j \in Lists!Elements(x.list)
                                             \/ n = count /\ j \in Lists!Elements(f.list)
        /\ \A x, y : Near(E, x, y) <=> \/ \E z \in X : Before(z.list, x, y)
                                       \/ Before(f.list, x, y)
    BY <1>4 DEF At, Near
  <2>6. \A j, count : At(Z, j, count) <=> At(E, j, count) \/ (j = k /\ count = n)
    BY <1>2, <2>4, <2>5
  <2>7. \A x : At(E, x, n) <=> x \in Lists!Elements(f.list)
    BY <1>1, <2>5
  <2>8. \A x, y : Near(Z, x, y) <=> Near(E, x, y) \/ (y = k /\ At(E, x, n))
    BY <1>2, <2>3, <2>5, <2>7
  <2> QED
    BY <2>6, <2>8
<1> QED
  BY <1>1, <1>3, <1>4

\* What EvictionOrder makes of the uses f and the order O: the key k goes in at n
\* uses, or goes.
Placed(f, k, n) == [j \in DOMAIN f \cup {k} |-> IF j = k THEN n ELSE f[j]]
PlacedIn(O, f, k, n) ==
    {pair \in O : k \notin {pair[1], pair[2]}}
        \cup {<<j, k>> : j \in {j \in DOMAIN f \ {k} : f[j] <= n}}
        \cup {<<k, j>> : j \in {j \in DOMAIN f \ {k} : f[j] > n}}
Left(f, k) == [j \in DOMAIN f \ {k} |-> f[j]]
LeftIn(O, k) == {pair \in O : k \notin {pair[1], pair[2]}}

\* Two orders are the same if they say the same of any two keys.
LEMMA SamePairs ==
    ASSUME NEW A, NEW B, NEW O \in SUBSET (A \X A), NEW P \in SUBSET (B \X B),
           \A x, y : <<x, y>> \in O <=> <<x, y>> \in P
    PROVE  O = P
<1>1. ASSUME NEW pair \in O PROVE pair \in P
  <2>1. PICK x, y \in A : pair = <<x, y>>
    OBVIOUS
  <2> QED
    BY <2>1
<1>2. ASSUME NEW pair \in P PROVE pair \in O
  <2>1. PICK x, y \in B : pair = <<x, y>>
    OBVIOUS
  <2> QED
    BY <2>1
<1> QED
  BY <1>1, <1>2

LEMMA LeftPairs ==
    ASSUME NEW A, NEW O \in SUBSET (A \X A), NEW k
    PROVE  /\ LeftIn(O, k) \in SUBSET (A \X A)
           /\ \A x, y : <<x, y>> \in LeftIn(O, k) <=> <<x, y>> \in O /\ x # k /\ y # k
  BY DEF LeftIn

LEMMA PlacedPairs ==
    ASSUME NEW A, NEW O \in SUBSET (A \X A), NEW f, DOMAIN f \subseteq A, NEW k \in A, NEW n
    PROVE  /\ PlacedIn(O, f, k, n) \in SUBSET (A \X A)
           /\ \A x, y : <<x, y>> \in PlacedIn(O, f, k, n) <=>
                  \/ <<x, y>> \in O /\ x # k /\ y # k
                  \/ x \in DOMAIN f \ {k} /\ y = k /\ f[x] <= n
                  \/ x = k /\ y \in DOMAIN f \ {k} /\ f[y] > n
<1> DEFINE C == {j \in DOMAIN f \ {k} : f[j] <= n}
           D == {j \in DOMAIN f \ {k} : f[j] > n}
           V == {<<j, k>> : j \in C}
           W == {<<k, j>> : j \in D}
<1>1. C \subseteq A /\ D \subseteq A
  OBVIOUS
<1>2. /\ \A x : x \in C <=> x \in DOMAIN f \ {k} /\ f[x] <= n
      /\ \A y : y \in D <=> y \in DOMAIN f \ {k} /\ f[y] > n
  OBVIOUS
<1>3. PlacedIn(O, f, k, n) = (LeftIn(O, k) \cup V) \cup W
  BY DEF PlacedIn, LeftIn
<1> HIDE DEF C, D
<1>4. V \in SUBSET (A \X A) /\ \A x, y : <<x, y>> \in V <=> x \in C /\ y = k
  BY <1>1
<1>5. W \in SUBSET (A \X A) /\ \A x, y : <<x, y>> \in W <=> x = k /\ y \in D
  BY <1>1
<1> HIDE DEF V, W
<1>6. /\ LeftIn(O, k) \in SUBSET (A \X A)
      /\ \A x, y : <<x, y>> \in LeftIn(O, k) <=> <<x, y>> \in O /\ x # k /\ y # k
  BY LeftPairs
<1>7. PlacedIn(O, f, k, n) \in SUBSET (A \X A)
  BY <1>3, <1>4, <1>5, <1>6
<1>8. ASSUME NEW x, NEW y
      PROVE  <<x, y>> \in PlacedIn(O, f, k, n) <=>
                 \/ <<x, y>> \in O /\ x # k /\ y # k
                 \/ x \in DOMAIN f \ {k} /\ y = k /\ f[x] <= n
                 \/ x = k /\ y \in DOMAIN f \ {k} /\ f[y] > n
  BY <1>2, <1>3, <1>4, <1>5, <1>6
<1> QED
  BY <1>7, <1>8

\* The queue m is l with the key k placed at n uses, ...
LEMMA QueuePlaces ==
    ASSUME NEW l, NEW m, NEW f, DOMAIN f = Lists!Elements(l), NEW k, NEW n,
           Lists!Elements(m) = Lists!Elements(l) \cup {k},
           \A x, y : Before(m, x, y) <=>
               \/ Before(l, x, y) /\ x # k /\ y # k
               \/ x \in DOMAIN f \ {k} /\ y = k /\ f[x] <= n
               \/ x = k /\ y \in DOMAIN f \ {k} /\ f[y] > n
    PROVE  OrderOf(m) = PlacedIn(OrderOf(l), f, k, n)
<1> DEFINE A == Lists!Elements(l) \cup {k}
           P == PlacedIn(OrderOf(l), f, k, n)
<1>1. /\ OrderOf(l) \in SUBSET (A \X A) /\ OrderOf(m) \in SUBSET (A \X A)
      /\ \A x, y : <<x, y>> \in OrderOf(l) <=> Before(l, x, y)
      /\ \A x, y : <<x, y>> \in OrderOf(m) <=> Before(m, x, y)
  BY OrderPairs
<1>2. k \in A /\ DOMAIN f \subseteq A
  OBVIOUS
<1> HIDE DEF A
<1>3. /\ P \in SUBSET (A \X A)
      /\ \A x, y : <<x, y>> \in P <=>
             \/ <<x, y>> \in OrderOf(l) /\ x # k /\ y # k
             \/ x \in DOMAIN f \ {k} /\ y = k /\ f[x] <= n
             \/ x = k /\ y \in DOMAIN f \ {k} /\ f[y] > n
  BY <1>1, <1>2, PlacedPairs
<1> HIDE DEF P
<1>4. ASSUME NEW x, NEW y PROVE <<x, y>> \in OrderOf(m) <=> <<x, y>> \in P
  BY <1>1, <1>3
<1>5. OrderOf(m) = P
  BY <1>1, <1>3, <1>4, SamePairs
<1> QED
  BY <1>5 DEF P

\* ... or without it.
LEMMA QueueLoses ==
    ASSUME NEW l, NEW m, NEW k, Lists!Elements(m) = Lists!Elements(l) \ {k},
           \A x, y : Before(m, x, y) <=> Before(l, x, y) /\ x # k /\ y # k
    PROVE  OrderOf(m) = LeftIn(OrderOf(l), k)
<1> DEFINE A == Lists!Elements(l)
           P == LeftIn(OrderOf(l), k)
<1>1. /\ OrderOf(l) \in SUBSET (A \X A) /\ OrderOf(m) \in SUBSET (A \X A)
      /\ \A x, y : <<x, y>> \in OrderOf(l) <=> Before(l, x, y)
      /\ \A x, y : <<x, y>> \in OrderOf(m) <=> Before(m, x, y)
  BY OrderPairs
<1> HIDE DEF A
<1>2. /\ P \in SUBSET (A \X A)
      /\ \A x, y : <<x, y>> \in P <=> <<x, y>> \in OrderOf(l) /\ x # k /\ y # k
  BY <1>1, LeftPairs
<1> HIDE DEF P
<1>3. ASSUME NEW x, NEW y PROVE <<x, y>> \in OrderOf(m) <=> <<x, y>> \in P
  BY <1>1, <1>2
<1>4. OrderOf(m) = P
  BY <1>1, <1>2, <1>3, SamePairs
<1> QED
  BY <1>4 DEF P

\* What EvictionOrder sees of a stack, as in PolicyStacks.
UsesIn(p, st) == [k \in KeysIn(p, st) |-> IF p = "lfu" THEN Lfu!UsesOf(st, k) ELSE 0]
QueueIn(p, st) == IF p = "lfu" THEN Lfu!InOrder(st) ELSE st

Places(p, st, st2, k, n) ==
    /\ UsesIn(p, st2) = Placed(UsesIn(p, st), k, n)
    /\ OrderOf(QueueIn(p, st2)) = PlacedIn(OrderOf(QueueIn(p, st)), UsesIn(p, st), k, n)

Loses(p, st, st2, k) ==
    /\ UsesIn(p, st2) = Left(UsesIn(p, st), k)
    /\ OrderOf(QueueIn(p, st2)) = LeftIn(OrderOf(QueueIn(p, st)), k)

LEMMA ListSeen ==
    ASSUME NEW p \in {"fifo", "lru"}
    PROVE  \A st : /\ KeysIn(p, st) = Lists!Elements(st) /\ QueueIn(p, st) = st
                   /\ UsesIn(p, st) = [k \in Lists!Elements(st) |-> 0]
<1>1. \A st : KeysIn(p, st) = Lists!Elements(st)
  BY FifoLists, LruLists DEF KeysIn
<1> QED
  BY <1>1 DEF QueueIn, UsesIn

\* fifo and lru: in front is behind all others, ...
LEMMA ListPlaces ==
    ASSUME NEW p \in {"fifo", "lru"}, NEW S, NEW st, KeyList(st, S), NEW k \in S
    PROVE  Places(p, st, Lists!PushFront(st, k), k, 0)
<1> DEFINE m == Lists!PushFront(st, k)
           f == [j \in Lists!Elements(st) |-> 0]
           g == [j \in Lists!Elements(m) |-> 0]
<1>1. Lists!Elements(m) = Lists!Elements(st) \cup {k}
  <2>1. st \in Seq(S)
    BY DEF KeyList
  <2> QED
    BY <2>1, PushFrontHolds
<1>2. \A x, y : Before(m, x, y) <=> \/ Before(st, x, y) /\ x # k /\ y # k
                                    \/ x \in Lists!Elements(st) /\ x # k /\ y = k
  BY BeforePushFront
<1>3. UsesIn(p, st) = f /\ UsesIn(p, m) = g /\ QueueIn(p, st) = st /\ QueueIn(p, m) = m
  BY ListSeen
<1> HIDE DEF m
<1>4. g = Placed(f, k, 0)
  BY <1>1 DEF Placed
<1>5. ASSUME NEW x, NEW y
      PROVE  Before(m, x, y) <=> \/ Before(st, x, y) /\ x # k /\ y # k
                                 \/ x \in DOMAIN f \ {k} /\ y = k /\ f[x] <= 0
                                 \/ x = k /\ y \in DOMAIN f \ {k} /\ f[y] > 0
  <2>1. DOMAIN f = Lists!Elements(st) /\ \A j \in DOMAIN f : f[j] = 0
    OBVIOUS
  <2> HIDE DEF f
  <2> QED
    BY <1>2, <2>1
<1>6. DOMAIN f = Lists!Elements(st)
  OBVIOUS
<1> HIDE DEF f, g
<1>7. OrderOf(m) = PlacedIn(OrderOf(st), f, k, 0)
  BY <1>1, <1>5, <1>6, QueuePlaces
<1> QED
  BY <1>3, <1>4, <1>7 DEF Places, m

\* ... the others keep their places when a key goes, ...
LEMMA ListLoses ==
    ASSUME NEW p \in {"fifo", "lru"}, NEW st, NEW m, NEW k,
           Lists!Elements(m) = Lists!Elements(st) \ {k},
           \A x, y : Before(m, x, y) <=> Before(st, x, y) /\ x # k /\ y # k
    PROVE  Loses(p, st, m, k)
<1> DEFINE f == [j \in Lists!Elements(st) |-> 0]
           g == [j \in Lists!Elements(m) |-> 0]
<1>1. UsesIn(p, st) = f /\ UsesIn(p, m) = g /\ QueueIn(p, st) = st /\ QueueIn(p, m) = m
  BY ListSeen
<1>2. g = Left(f, k)
  BY DEF Left
<1> HIDE DEF f, g
<1>3. OrderOf(m) = LeftIn(OrderOf(st), k)
  BY QueueLoses
<1> QED
  BY <1>1, <1>2, <1>3 DEF Loses

\* ... and what evict_one gives up was first.
LEMMA ListEvicts ==
    ASSUME NEW p \in {"fifo", "lru"}, NEW S, NEW st, KeyList(st, S), st # <<>>,
           NEW k, k = Lists!Back(st)
    PROVE  /\ k \in KeysIn(p, st) /\ Loses(p, st, Lists!WithoutBack(st), k)
           /\ \A j \in KeysIn(p, st) \ {k} : Before(QueueIn(p, st), k, j)
<1>1. /\ k \in Lists!Elements(st) /\ \A y \in Lists!Elements(st) \ {k} : Before(st, k, y)
      /\ \A x, y : Before(Lists!WithoutBack(st), x, y) <=> Before(st, x, y) /\ x # k /\ y # k
  BY BeforeBack
<1>2. Lists!Elements(Lists!WithoutBack(st)) = Lists!Elements(st) \ {k}
  <2>1. st \in Seq(S) /\ Once(st)
    BY DEF KeyList
  <2>2. /\ Lists!Elements(st) = Lists!Elements(Lists!WithoutBack(st)) \cup {k}
        /\ k \notin Lists!Elements(Lists!WithoutBack(st))
    BY <2>1, BackHolds
  <2> QED
    BY <2>2
<1>3. Loses(p, st, Lists!WithoutBack(st), k)
  BY <1>1, <1>2, ListLoses
<1> QED
  BY <1>1, <1>3, ListSeen

\* lfu: the key comes to the entry of n uses, from another or as a new key, ...
LEMMA LfuPlaces ==
    ASSUME NEW S, NEW st, LfuShape(st, S), NEW st2, LfuShape(st2, S), NEW k, NEW n \in Nat,
           Lfu!Keys(st2) = Lfu!Keys(st) \cup {k},
           \A j, count : At(CountStacks(st2), j, count) <=>
               \/ At(CountStacks(st), j, count) /\ j # k
               \/ j = k /\ count = n,
           \A x, y : Near(CountStacks(st2), x, y) <=>
               \/ Near(CountStacks(st), x, y) /\ x # k /\ y # k
               \/ y = k /\ x # k /\ At(CountStacks(st), x, n)
    PROVE  Places("lfu", st, st2, k, n)
<1> DEFINE f == [j \in Lfu!Keys(st) |-> Lfu!UsesOf(st, j)]
           g == [j \in Lfu!Keys(st2) |-> Lfu!UsesOf(st2, j)]
           l == Lfu!InOrder(st)
           m == Lfu!InOrder(st2)
           K == Lfu!Keys(st)
<1>1. /\ UsesIn("lfu", st) = f /\ UsesIn("lfu", st2) = g
      /\ QueueIn("lfu", st) = l /\ QueueIn("lfu", st2) = m
  BY DEF UsesIn, QueueIn, KeysIn
<1>2. /\ \A j \in K : f[j] \in Nat /\ At(CountStacks(st), j, f[j])
      /\ \A j, count : At(CountStacks(st), j, count) => j \in K /\ count = f[j]
  BY LfuTidy
<1>3. /\ \A j \in K \cup {k} : g[j] \in Nat /\ At(CountStacks(st2), j, g[j])
      /\ \A j, count : At(CountStacks(st2), j, count) => j \in K \cup {k} /\ count = g[j]
  BY LfuTidy
<1>4. /\ Lists!Elements(l) = K /\ Lists!Elements(m) = K \cup {k}
      /\ \A x, y : Before(l, x, y) <=> \/ Near(CountStacks(st), x, y)
                                       \/ x \in K /\ y \in K /\ f[x] < f[y]
      /\ \A x, y : Before(m, x, y) <=> \/ Near(CountStacks(st2), x, y)
                                       \/ x \in K \cup {k} /\ y \in K \cup {k} /\ g[x] < g[y]
  <2>1. /\ Lists!Elements(l) = K /\ Lists!Elements(m) = K \cup {k}
        /\ \A x, y : Before(l, x, y) <=>
               \/ Near(CountStacks(st), x, y)
               \/ x \in K /\ y \in K /\ Lfu!UsesOf(st, x) < Lfu!UsesOf(st, y)
        /\ \A x, y : Before(m, x, y) <=>
               \/ Near(CountStacks(st2), x, y)
               \/ /\ x \in K \cup {k} /\ y \in K \cup {k}
                  /\ Lfu!UsesOf(st2, x) < Lfu!UsesOf(st2, y)
    BY LfuOrder
  <2>2. /\ \A j \in K : f[j] = Lfu!UsesOf(st, j)
        /\ \A j \in K \cup {k} : g[j] = Lfu!UsesOf(st2, j)
    OBVIOUS
  <2> HIDE DEF f, g, l, m, K
  <2> QED
    BY <2>1, <2>2
<1>5. DOMAIN f = K /\ g = [j \in K \cup {k} |-> g[j]]
  OBVIOUS
<1> HIDE DEF f, g, l, m, K
<1>6. g[k] = n /\ \A j \in K \ {k} : g[j] = f[j]
  BY <1>2, <1>3
<1>7. g = Placed(f, k, n)
  BY <1>5, <1>6 DEF Placed
<1>8. ASSUME NEW x, NEW y
      PROVE  Before(m, x, y) <=> \/ Before(l, x, y) /\ x # k /\ y # k
                                 \/ x \in DOMAIN f \ {k} /\ y = k /\ f[x] <= n
                                 \/ x = k /\ y \in DOMAIN f \ {k} /\ f[y] > n
  <2>1. CASE x # k /\ y # k
    BY <1>4, <1>5, <1>6, <2>1
  <2>2. CASE x # k /\ y = k
    <3>1. Before(m, x, y) <=> At(CountStacks(st), x, n) \/ (x \in K /\ f[x] < n)
      BY <1>4, <1>6, <2>2
    <3>2. At(CountStacks(st), x, n) <=> x \in K /\ f[x] = n
      BY <1>2
    <3>3. x \in K => f[x] \in Nat
      BY <1>2
    <3> QED
      BY <1>5, <2>2, <3>1, <3>2, <3>3
  <2>3. CASE x = k
    <3>1. ~Near(CountStacks(st2), x, y)
      BY <2>3
    <3>2. Before(m, x, y) <=> y \in K \cup {k} /\ n < g[y]
      BY <1>4, <1>6, <2>3, <3>1
    <3>3. \A j \in K : f[j] \in Nat
      BY <1>2
    <3> QED
      BY <1>5, <1>6, <2>3, <3>2, <3>3
  <2> QED
    BY <2>1, <2>2, <2>3
<1>9. OrderOf(m) = PlacedIn(OrderOf(l), f, k, n)
  BY <1>4, <1>5, <1>8, QueuePlaces
<1> QED
  BY <1>1, <1>7, <1>9 DEF Places

\* ... or leaves its entry.
LEMMA LfuLoses ==
    ASSUME NEW S, NEW st, LfuShape(st, S), NEW st2, LfuShape(st2, S), NEW k,
           Lfu!Keys(st2) = Lfu!Keys(st) \ {k},
           \A j, count : At(CountStacks(st2), j, count) <=> At(CountStacks(st), j, count) /\ j # k,
           \A x, y : Near(CountStacks(st2), x, y) <=> Near(CountStacks(st), x, y) /\ x # k /\ y # k
    PROVE  Loses("lfu", st, st2, k)
<1> DEFINE f == [j \in Lfu!Keys(st) |-> Lfu!UsesOf(st, j)]
           g == [j \in Lfu!Keys(st2) |-> Lfu!UsesOf(st2, j)]
           l == Lfu!InOrder(st)
           m == Lfu!InOrder(st2)
           K == Lfu!Keys(st)
<1>1. /\ UsesIn("lfu", st) = f /\ UsesIn("lfu", st2) = g
      /\ QueueIn("lfu", st) = l /\ QueueIn("lfu", st2) = m
  BY DEF UsesIn, QueueIn, KeysIn
<1>2. \A j \in K \ {k} : Lfu!UsesOf(st2, j) = Lfu!UsesOf(st, j)
  BY LfuTidy
<1>3. g = Left(f, k)
  BY <1>2 DEF Left
<1>4. /\ Lists!Elements(l) = K /\ Lists!Elements(m) = K \ {k}
      /\ \A x, y : Before(l, x, y) <=>
             \/ Near(CountStacks(st), x, y)
             \/ x \in K /\ y \in K /\ Lfu!UsesOf(st, x) < Lfu!UsesOf(st, y)
      /\ \A x, y : Before(m, x, y) <=>
             \/ Near(CountStacks(st2), x, y)
             \/ /\ x \in K \ {k} /\ y \in K \ {k}
                /\ Lfu!UsesOf(st2, x) < Lfu!UsesOf(st2, y)
  BY LfuOrder
<1> HIDE DEF f, g, l, m, K
<1>5. ASSUME NEW x, NEW y
      PROVE  Before(m, x, y) <=> Before(l, x, y) /\ x # k /\ y # k
  BY <1>2, <1>4
<1>6. OrderOf(m) = LeftIn(OrderOf(l), k)
  BY <1>4, <1>5, QueueLoses
<1> QED
  BY <1>1, <1>3, <1>6 DEF Loses

\* Keys in one list are in one entry.
LEMMA NearAt ==
    ASSUME NEW S, NEW E, Tidy(E, S), NEW x, NEW y, Near(E, x, y)
    PROVE  (\E count : At(E, x, count)) /\ (\E count : At(E, y, count))
<1>1. PICK e \in E : Before(e.list, x, y)
  BY DEF Near
<1>2. e.list \in Seq(S)
  BY DEF Tidy, KeyList
<1>3. x \in Lists!Elements(e.list) /\ y \in Lists!Elements(e.list)
  BY <1>1, <1>2, BeforeMembers
<1> QED
  BY <1>3 DEF At

\* What each call of an lfu stack is to the order.
LEMMA LfuUpdateOrders ==
    ASSUME NEW S, NEW st, LfuShape(st, S), NEW k \in S, k \in Lfu!Keys(st)
    PROVE  Places("lfu", st, Lfu!Update(st, k), k, Lfu!UsesOf(st, k) + 1)
<1> DEFINE E   == CountStacks(st)
           st2 == Lfu!Update(st, k)
           Z   == CountStacks(st2)
           n   == Lfu!UsesOf(st, k) + 1
<1>1. /\ LfuShape(st2, S) /\ Lfu!Keys(st2) = Lfu!Keys(st) \cup {k}
      /\ \E Y : Leaves(E, Y, k, S) /\ Comes(Y, Z, k, n, S)
  BY LfuUpdates
<1>2. Tidy(E, S) /\ n \in Nat
  BY LfuTidy
<1> HIDE DEF E, Z, st2, n
<1>3. PICK Y : Leaves(E, Y, k, S) /\ Comes(Y, Z, k, n, S)
  BY <1>1
<1>4. /\ Tidy(Y, S)
      /\ \A j, count : At(Y, j, count) <=> At(E, j, count) /\ j # k
      /\ \A x, y : Near(Y, x, y) <=> Near(E, x, y) /\ x # k /\ y # k
  BY <1>2, <1>3, LeavesAt
<1>5. \A count : ~At(Y, k, count)
  BY <1>4
<1>6. /\ \A j, count : At(Z, j, count) <=> At(Y, j, count) \/ (j = k /\ count = n)
      /\ \A x, y : Near(Z, x, y) <=> Near(Y, x, y) \/ (y = k /\ At(Y, x, n))
  BY <1>3, <1>4, <1>5, ComesAt
<1>7. \A j, count : At(Z, j, count) <=> \/ At(E, j, count) /\ j # k
                                        \/ j = k /\ count = n
  BY <1>4, <1>6
<1>8. \A x, y : Near(Z, x, y) <=> \/ Near(E, x, y) /\ x # k /\ y # k
                                  \/ y = k /\ x # k /\ At(E, x, n)
  BY <1>4, <1>6
<1>9. Places("lfu", st, st2, k, n)
  BY <1>1, <1>2, <1>7, <1>8, LfuPlaces DEF E, Z
<1> QED
  BY <1>9 DEF st2, n

LEMMA LfuInsertOrders ==
    ASSUME NEW S, NEW st, LfuShape(st, S), NEW k \in S, k \notin Lfu!Keys(st)
    PROVE  Places("lfu", st, Lfu!Insert(st, k), k, 1)
<1> DEFINE E   == CountStacks(st)
           st2 == Lfu!Insert(st, k)
           Z   == CountStacks(st2)
<1>1. LfuShape(st2, S) /\ Lfu!Keys(st2) = Lfu!Keys(st) \cup {k} /\ Comes(E, Z, k, 1, S)
  BY LfuInserts
<1>2. Tidy(E, S) /\ \A count : ~At(E, k, count)
  BY LfuTidy
<1> HIDE DEF E, Z, st2
<1>3. /\ \A j, count : At(Z, j, count) <=> At(E, j, count) \/ (j = k /\ count = 1)
      /\ \A x, y : Near(Z, x, y) <=> Near(E, x, y) \/ (y = k /\ At(E, x, 1))
  BY <1>1, <1>2, ComesAt
<1>4. \A j, count : At(Z, j, count) <=> \/ At(E, j, count) /\ j # k
                                        \/ j = k /\ count = 1
  BY <1>2, <1>3
<1>5. \A x, y : Near(E, x, y) => x # k /\ y # k
  BY <1>2, NearAt
<1>6. \A x, y : Near(Z, x, y) <=> \/ Near(E, x, y) /\ x # k /\ y # k
                                  \/ y = k /\ x # k /\ At(E, x, 1)
  BY <1>2, <1>3, <1>5
<1>7. Places("lfu", st, st2, k, 1)
  BY <1>1, <1>4, <1>6, LfuPlaces DEF E, Z
<1> QED
  BY <1>7 DEF st2

\* A key that leaves, leaves one of the entries; one that is in none, none.
LEMMA LfuLeaves ==
    ASSUME NEW S, NEW st, LfuShape(st, S), NEW st2, LfuShape(st2, S), NEW k,
           Lfu!Keys(st2) = Lfu!Keys(st) \ {k},
           \/ Leaves(CountStacks(st), CountStacks(st2), k, S)
           \/ k \notin Lfu!Keys(st) /\ st2 = st
    PROVE  Loses("lfu", st, st2, k)
<1> DEFINE E == CountStacks(st)
           Z == CountStacks(st2)
<1>1. Tidy(E, S) /\ \A j, count : At(E, j, count) => j \in Lfu!Keys(st)
  BY LfuTidy
<1> HIDE DEF E, Z
<1>2. /\ \A j, count : At(Z, j, count) <=> At(E, j, count) /\ j # k
      /\ \A x, y : Near(Z, x, y) <=> Near(E, x, y) /\ x # k /\ y # k
  <2>1. CASE Leaves(E, Z, k, S)
    BY <1>1, <2>1, LeavesAt
  <2>2. CASE k \notin Lfu!Keys(st) /\ Z = E
    <3>1. \A x, y : Near(E, x, y) => x # k /\ y # k
      BY <1>1, <2>2, NearAt
    <3> QED
      BY <1>1, <2>2, <3>1
  <2> QED
    BY <2>1, <2>2 DEF E, Z
<1> QED
  BY <1>2, LfuLoses DEF E, Z

\* evict_one gives up the key that was there longest of those with the fewest uses.
LEMMA LfuEvictOrders ==
    ASSUME NEW S, NEW st, LfuShape(st, S), Lfu!Keys(st) # {},
           NEW evicted, evicted = Lfu!EvictOne(st)
    PROVE  /\ evicted.key \in Lfu!Keys(st) /\ Loses("lfu", st, evicted.stack, evicted.key)
           /\ \A j \in Lfu!Keys(st) \ {evicted.key} : Before(Lfu!InOrder(st), evicted.key, j)
<1> DEFINE E   == CountStacks(st)
           k   == evicted.key
           st2 == evicted.stack
<1>1. /\ LfuShape(st2, S) /\ GivesUp(evicted, Lfu!Keys(st), Lfu!Keys(st2))
      /\ Leaves(E, CountStacks(st2), k, S)
      /\ \E e \in E : k = Lists!Back(e.list) /\ \A x \in E : x = e \/ e.count < x.count
  BY LfuEvicts
<1>2. Tidy(E, S)
  BY LfuTidy
<1> HIDE DEF E, k, st2
<1>3. k \in Lfu!Keys(st) /\ Lfu!Keys(st2) = Lfu!Keys(st) \ {k}
  BY <1>1 DEF GivesUp, k
<1>4. Loses("lfu", st, st2, k)
  BY <1>1, <1>3, LfuLeaves DEF E
<1>5. PICK e \in E : k = Lists!Back(e.list) /\ \A x \in E : x = e \/ e.count < x.count
  BY <1>1
<1>6. k \in Lists!Elements(e.list) /\ \A y \in Lists!Elements(e.list) \ {k} : Before(e.list, k, y)
  BY <1>2, <1>5, BeforeBack DEF Tidy
<1>7. ASSUME NEW j \in Lfu!Keys(st) \ {k} PROVE Before(Lfu!InOrder(st), k, j)
  <2>1. /\ At(E, k, Lfu!UsesOf(st, k)) /\ At(E, j, Lfu!UsesOf(st, j))
        /\ \A i, count : At(E, i, count) => count = Lfu!UsesOf(st, i)
    BY <1>3, LfuTidy DEF E
  <2>2. Lfu!UsesOf(st, k) = e.count
    BY <1>6, <2>1 DEF At
  <2>3. PICK x \in E : x.count = Lfu!UsesOf(st, j) /\ j \in Lists!Elements(x.list)
    BY <2>1 DEF At
  <2>4. Near(E, k, j) \/ Lfu!UsesOf(st, k) < Lfu!UsesOf(st, j)
    BY <1>5, <1>6, <2>2, <2>3 DEF Near
  <2> QED
    BY <1>3, <2>4, LfuOrder DEF E
<1> QED
  BY <1>3, <1>4, <1>7 DEF k, st2

\* The known keys are those in the queue; without any there is no order.
LEMMA QueueHolds ==
    ASSUME NEW p \in {"fifo", "lru", "lfu"}, NEW st, Sane(p, st, HashedKeys, CacheSizes)
    PROVE  /\ DOMAIN UsesIn(p, st) = KeysIn(p, st)
           /\ Lists!Elements(QueueIn(p, st)) = KeysIn(p, st)
           /\ KeysIn(p, st) = {} => /\ UsesIn(p, st) = [k \in {} |-> 0]
                                    /\ OrderOf(QueueIn(p, st)) = {}
<1>1. Lists!Elements(QueueIn(p, st)) = KeysIn(p, st)
  <2>1. CASE p \in {"fifo", "lru"}
    BY <2>1, ListSeen
  <2>2. CASE p = "lfu"
    <3>1. LfuShape(st, HashedKeys)
      BY <2>2 DEF Sane
    <3> QED
      BY <2>2, <3>1, LfuOrder DEF QueueIn, KeysIn
  <2> QED
    BY <2>1, <2>2
<1>2. OrderOf(QueueIn(p, st)) \in SUBSET (KeysIn(p, st) \X KeysIn(p, st))
  BY <1>1, OrderPairs
<1>3. KeysIn(p, st) = {} => UsesIn(p, st) = [k \in {} |-> 0]
  BY DEF UsesIn
<1> QED
  BY <1>1, <1>2, <1>3 DEF UsesIn

\* Every call but evict_one is to the order what EvictionOrder says.
LEMMA OrderAfterCalls ==
    ASSUME NEW p \in {"fifo", "lru", "lfu"}, NEW st, Sane(p, st, HashedKeys, CacheSizes),
           NEW k \in HashedKeys
    PROVE  /\ IF k \in KeysIn(p, st) /\ p # "fifo"
              THEN Places(p, st, Update(p, st, k), k,
                          IF p = "lfu" THEN UsesIn(p, st)[k] + 1 ELSE 0)
              ELSE Update(p, st, k) = st
           /\ \A s : IF k \in KeysIn(p, st)
                     THEN Insert(p, st, k, s) = Update(p, st, k)
                     ELSE Places(p, st, Insert(p, st, k, s), k, IF p = "lfu" THEN 1 ELSE 0)
           /\ Loses(p, st, Remove(p, st, k), k)
<1>1. CASE p \in {"fifo", "lru"}
  <2>1. KeyList(st, HashedKeys) /\ KeysIn(p, st) = Lists!Elements(st)
    BY <1>1, ListSeen DEF Sane
  <2>2. Places(p, st, Lists!PushFront(st, k), k, 0)
    BY <1>1, <2>1, ListPlaces
  <2>3. Loses(p, st, Lists!Omit(st, k), k)
    <3>1. st \in Seq(HashedKeys) /\ Once(st)
      BY <2>1 DEF KeyList
    <3>2. Lists!Elements(Lists!Omit(st, k)) = Lists!Elements(st) \ {k}
      BY <3>1, OmitHolds
    <3>3. \A x, y : Before(Lists!Omit(st, k), x, y) <=> Before(st, x, y) /\ x # k /\ y # k
      BY <2>1, BeforeOmit
    <3> QED
      BY <1>1, <3>2, <3>3, ListLoses
  <2>4. CASE p = "fifo"
    <3>1. \A s : Insert(p, st, k, s) = IF k \in Lists!Elements(st) THEN st
                                       ELSE Lists!PushFront(st, k)
      BY <2>4, FifoLists DEF Insert, Fifo!Insert
    <3>2. Update(p, st, k) = st /\ Remove(p, st, k) = Lists!Omit(st, k)
      BY <2>4, FifoLists DEF Update, Remove, Fifo!Remove
    <3> QED
      BY <2>1, <2>2, <2>3, <2>4, <3>1, <3>2
  <2>5. CASE p = "lru"
    <3>1. \A s : Insert(p, st, k, s) = Lists!PushFront(st, k)
      BY <2>5, LruLists DEF Insert, Lru!Insert, Lru!Update, Lru!MoveFront
    <3>2. /\ Update(p, st, k) = IF k \in Lists!Elements(st) THEN Lists!PushFront(st, k) ELSE st
          /\ Remove(p, st, k) = Lists!Omit(st, k)
      BY <2>5, LruLists DEF Update, Remove, Lru!Update, Lru!MoveFront, Lru!Remove
    <3> QED
      BY <2>1, <2>2, <2>3, <2>5, <3>1, <3>2
  <2> QED
    BY <1>1, <2>4, <2>5
<1>2. CASE p = "lfu"
  <2>1. LfuShape(st, HashedKeys) /\ KeysIn(p, st) = Lfu!Keys(st)
    BY <1>2 DEF Sane, KeysIn
  <2>2. /\ Update(p, st, k) = Lfu!Update(st, k) /\ Remove(p, st, k) = Lfu!Remove(st, k)
        /\ \A s : Insert(p, st, k, s) = Lfu!Insert(st, k)
    BY <1>2 DEF Update, Remove, Insert
  <2>3. IF k \in KeysIn(p, st)
        THEN Places(p, st, Update(p, st, k), k, UsesIn(p, st)[k] + 1)
        ELSE Update(p, st, k) = st
    <3>1. CASE k \in Lfu!Keys(st)
      <4>1. UsesIn(p, st)[k] = Lfu!UsesOf(st, k)
        BY <1>2, <2>1, <3>1 DEF UsesIn
      <4> QED
        BY <1>2, <2>1, <2>2, <3>1, <4>1, LfuUpdateOrders
    <3>2. CASE k \notin Lfu!Keys(st)
      BY <2>1, <2>2, <3>2, LfuUpdates
    <3> QED
      BY <3>1, <3>2
  <2>4. \A s : IF k \in KeysIn(p, st) THEN Insert(p, st, k, s) = Update(p, st, k)
               ELSE Places(p, st, Insert(p, st, k, s), k, 1)
    <3>1. CASE k \in Lfu!Keys(st)
      BY <2>1, <2>2, <3>1 DEF Lfu!Insert
    <3>2. CASE k \notin Lfu!Keys(st)
      BY <1>2, <2>1, <2>2, <3>2, LfuInsertOrders
    <3> QED
      BY <3>1, <3>2
  <2>5. Loses(p, st, Remove(p, st, k), k)
    BY <1>2, <2>1, <2>2, LfuRemoves, LfuLeaves
  <2> QED
    BY <1>2, <2>3, <2>4, <2>5
<1> QED
  BY <1>1, <1>2

\* evict_one gives up the key that is first; of no key, it returns None.
LEMMA OrderAfterEvict ==
    ASSUME NEW p \in {"fifo", "lru", "lfu"}, NEW st, Sane(p, st, HashedKeys, CacheSizes),
           NEW evicted, evicted = EvictOne(p, st)
    PROVE  \/ /\ evicted.key \in KeysIn(p, st) /\ Loses(p, st, evicted.stack, evicted.key)
              /\ \A j \in KeysIn(p, st) \ {evicted.key} : Before(QueueIn(p, st), evicted.key, j)
           \/ KeysIn(p, st) = {} /\ evicted.key = NoKey /\ evicted.stack = st
<1>1. CASE p \in {"fifo", "lru"}
  <2>1. KeyList(st, HashedKeys) /\ KeysIn(p, st) = Lists!Elements(st)
    BY <1>1, ListSeen DEF Sane
  <2>2. evicted = Lists!PopBack(st)
    BY <1>1, FifoLists, LruLists DEF EvictOne, Fifo!EvictOne, Lru!EvictOne
  <2>3. CASE st = <<>>
    BY <2>1, <2>2, <2>3, EmptyHolds DEF Lists!PopBack, Lists!Evicting
  <2>4. CASE st # <<>>
    <3>1. evicted.key = Lists!Back(st) /\ evicted.stack = Lists!WithoutBack(st)
      BY <2>2, <2>4 DEF Lists!PopBack, Lists!Evicting
    <3> QED
      BY <1>1, <2>1, <2>4, <3>1, ListEvicts
  <2> QED
    BY <2>3, <2>4
<1>2. CASE p = "lfu"
  <2>1. LfuShape(st, HashedKeys) /\ KeysIn(p, st) = Lfu!Keys(st) /\ QueueIn(p, st) = Lfu!InOrder(st)
    BY <1>2 DEF Sane, KeysIn, QueueIn
  <2>2. evicted = Lfu!EvictOne(st)
    BY <1>2 DEF EvictOne
  <2>3. CASE Lfu!Keys(st) = {}
    BY <2>1, <2>2, <2>3, LfuEvicts DEF GivesUp
  <2>4. CASE Lfu!Keys(st) # {}
    BY <1>2, <2>1, <2>2, <2>4, LfuEvictOrders
  <2> QED
    BY <2>3, <2>4
<1> QED
  BY <1>1, <1>2

LEMMA CallsKeepOrder ==
    ASSUME StackInv, Ordered, [Next]_vars
    PROVE  [Order!Next]_Order!vars
<1> DEFINE f == UsesIn(policy, stack)
           g == UsesIn(policy, stack')
           O == OrderOf(QueueIn(policy, stack))
           P == OrderOf(QueueIn(policy, stack'))
           keys == KeysIn(policy, stack)
<1>1. policy \in {"fifo", "lru", "lfu"} /\ Sane(policy, stack, HashedKeys, CacheSizes)
  BY DEF StackInv, Ordered
<1>2. CASE UNCHANGED vars
  BY <1>2 DEF vars, Order!vars, Queue
<1>3. /\ DOMAIN f = keys
      /\ \A x, y : <<x, y>> \in O <=> Before(QueueIn(policy, stack), x, y)
  BY <1>1, QueueHolds, OrderPairs
<1> DEFINE placed(k, n) == g = Placed(f, k, n) /\ P = PlacedIn(O, f, k, n)
           left(k)      == g = Left(f, k) /\ P = LeftIn(O, k)
           same         == g = f /\ P = O
<1>4. ASSUME policy' = policy
      PROVE  /\ \A k : k \notin keys \/ policy = "fifo" => (Order!Use(k) <=> same)
             /\ \A k : k \in keys /\ policy # "fifo" =>
                    (Order!Use(k) <=> placed(k, IF policy = "lfu" THEN f[k] + 1 ELSE 0))
             /\ \A k : k \in keys => (Order!Insert(k) <=> Order!Use(k) /\ last' = <<"insert", k>>)
             /\ \A k : k \notin keys =>
                    (Order!Insert(k) <=> /\ placed(k, IF policy = "lfu" THEN 1 ELSE 0)
                                         /\ last' = <<"insert", k>>)
             /\ \A k : Order!Remove(k) <=> left(k) /\ last' = <<"remove", k>>
             /\ Order!Resize <=> same /\ last' = <<"resize", NoKey>>
             /\ Order!Clear <=> g = [k \in {} |-> 0] /\ P = {} /\ last' = <<"clear", NoKey>>
             /\ \A k \in keys : /\ \A j \in keys \ {k} : <<k, j>> \in O
                                /\ left(k) /\ last' = <<"evict_one", k>>
                                => Order!EvictOne
             /\ keys = {} /\ same /\ last' = <<"evict_one", NoKey>> => Order!EvictOne
  BY <1>4 DEF UsesIn, QueueIn, OrderOf, Queue, Placed, PlacedIn, Left, LeftIn,
     Order!Place, Order!Forget, Order!known, Order!Unordered, Order!Use, Order!Insert,
     Order!Remove, Order!Resize, Order!Clear, Order!EvictOne, Order!Moves, Order!Counts
<1>6. /\ \A st, k, n : Places(policy, stack, st, k, n) /\ st = stack' /\ policy' = policy =>
             placed(k, n)
      /\ \A st, k : Loses(policy, stack, st, k) /\ st = stack' /\ policy' = policy =>
             left(k)
      /\ stack' = stack /\ policy' = policy => same
  BY DEF Places, Loses
<1> DEFINE calls(k) ==
               /\ IF k \in keys /\ policy # "fifo"
                  THEN Places(policy, stack, Update(policy, stack, k), k,
                              IF policy = "lfu" THEN f[k] + 1 ELSE 0)
                  ELSE Update(policy, stack, k) = stack
               /\ \A s : IF k \in keys
                         THEN Insert(policy, stack, k, s) = Update(policy, stack, k)
                         ELSE Places(policy, stack, Insert(policy, stack, k, s), k,
                                     IF policy = "lfu" THEN 1 ELSE 0)
               /\ Loses(policy, stack, Remove(policy, stack, k), k)
<1>7. ASSUME NEW k \in HashedKeys PROVE calls(k)
  BY <1>1, OrderAfterCalls
<1>8. /\ \A max_size : Resize(policy, stack, max_size) = stack
      /\ Sane(policy, stack', HashedKeys, CacheSizes) /\ policy' = policy /\ KeysIn(policy, stack') = {}
         => g = [k \in {} |-> 0] /\ P = {}
  BY <1>1, QueueHolds DEF Resize
<1> HIDE DEF f, g, O, P, keys
<1>9. ASSUME NEW k \in HashedKeys, policy' = policy, stack' = Update(policy, stack, k)
      PROVE  Order!Use(k)
  <2>1. CASE k \in keys /\ policy # "fifo"
    <3> DEFINE n == IF policy = "lfu" THEN f[k] + 1 ELSE 0
    <3>1. Places(policy, stack, stack', k, n)
      BY <1>7, <1>9, <2>1
    <3>2. placed(k, n)
      BY <1>6, <1>9, <3>1
    <3> QED
      BY <1>4, <1>9, <2>1, <3>2
  <2>2. CASE ~(k \in keys /\ policy # "fifo")
    <3>1. same
      BY <1>6, <1>7, <1>9, <2>2
    <3> QED
      BY <1>4, <1>9, <2>2, <3>1
  <2> QED
    BY <2>1, <2>2
<1>10. ASSUME NEW k \in HashedKeys, Get(k) PROVE Order!Next
  <2>1. policy' = policy /\ stack' = Update(policy, stack, k) /\ last' = <<"update", k>>
    BY <1>10 DEF Get, Call
  <2> QED
    BY <1>9, <2>1 DEF Order!Next, Order!Update
<1>11. ASSUME NEW k \in HashedKeys, Del(k) PROVE Order!Next
  <2>1. policy' = policy /\ stack' = Remove(policy, stack, k) /\ last' = <<"remove", k>>
    BY <1>11 DEF Del, Call
  <2>2. left(k)
    BY <1>6, <1>7, <2>1
  <2>3. Order!Remove(k)
    BY <1>4, <2>1, <2>2
  <2> QED
    BY <2>1, <2>3 DEF Order!Next
<1>12. ASSUME NEW k \in HashedKeys, NEW s \in ObjectSizes, Set(k, s) PROVE Order!Next
  <2>1. policy' = policy /\ stack' = Insert(policy, stack, k, s) /\ last' = <<"insert", k>>
    BY <1>12 DEF Set, Call
  <2>2. CASE k \in keys
    <3>1. Order!Use(k)
      BY <1>7, <1>9, <2>1, <2>2
    <3>2. Order!Insert(k)
      BY <1>4, <2>1, <2>2, <3>1
    <3> QED
      BY <2>1, <3>2 DEF Order!Next
  <2>3. CASE k \notin keys
    <3> DEFINE n == IF policy = "lfu" THEN 1 ELSE 0
    <3>1. Places(policy, stack, stack', k, n)
      BY <1>7, <2>1, <2>3
    <3>2. placed(k, n)
      BY <1>6, <2>1, <3>1
    <3>3. Order!Insert(k)
      BY <1>4, <2>1, <2>3, <3>2
    <3> QED
      BY <2>1, <3>3 DEF Order!Next
  <2> QED
    BY <2>2, <2>3
<1>13. ASSUME NEW max_size \in CacheSizes, SetMaxSize(max_size) PROVE Order!Next
  <2>1. policy' = policy /\ stack' = stack /\ last' = <<"resize", NoKey>>
    BY <1>8, <1>13 DEF SetMaxSize, Call
  <2> QED
    BY <1>4, <1>6, <2>1 DEF Order!Next
<1>14. CASE Wipe
  <2>1. policy' = policy /\ stack' = Clear(policy, stack) /\ last' = <<"clear", NoKey>>
    BY <1>14 DEF Wipe, Call
  <2>2. Then(policy, stack', {}, HashedKeys, CacheSizes)
    <3>1. policy \in Policies
      BY StacksAssumption DEF StackInv
    <3> QED
      BY <1>1, <2>1, <3>1, CallsFit, ClearIsSane
  <2>3. Sane(policy, stack', HashedKeys, CacheSizes) /\ KeysIn(policy, stack') = {}
    BY <1>1, <2>2 DEF Then
  <2> QED
    BY <1>4, <1>8, <2>1, <2>3 DEF Order!Next
<1>15. CASE Evict
  <2> DEFINE evicted == EvictOne(policy, stack)
             k       == evicted.key
  <2>1. policy' = policy /\ stack' = evicted.stack /\ last' = <<"evict_one", k>>
    BY <1>15 DEF Evict, Call
  <2>2. \/ /\ k \in keys /\ Loses(policy, stack, evicted.stack, k)
           /\ \A j \in keys \ {k} : Before(QueueIn(policy, stack), k, j)
        \/ keys = {} /\ k = NoKey /\ evicted.stack = stack
    BY <1>1, OrderAfterEvict DEF keys
  <2> HIDE DEF evicted, k
  <2>3. CASE /\ k \in keys /\ Loses(policy, stack, evicted.stack, k)
             /\ \A j \in keys \ {k} : Before(QueueIn(policy, stack), k, j)
    <3>1. left(k)
      BY <1>6, <2>1, <2>3
    <3>2. \A j \in keys \ {k} : <<k, j>> \in O
      BY <1>3, <2>3
    <3> QED
      BY <1>4, <2>1, <2>3, <3>1, <3>2 DEF Order!Next
  <2>4. CASE keys = {} /\ k = NoKey /\ evicted.stack = stack
    BY <1>4, <1>6, <2>1, <2>4 DEF Order!Next
  <2> QED
    BY <2>2, <2>3, <2>4
<1> QED
  BY <1>2, <1>10, <1>11, <1>12, <1>13, <1>14, <1>15 DEF Next

\* fifo, lru and lfu implement the order they promise: fifo gives up the key inserted
\* first, lru the one used longest ago, lfu one with the fewest uses and of those the
\* one that has had that many longest, whatever removes, wipes and empty count stacks
\* come between (fifo_stack.rs, lru_stack.rs, lfu_stack.rs).
THEOREM OrderIsKept == Spec => EvictsInOrder
<1>1. Init => (Ordered => Order!Init)
  <2> SUFFICES ASSUME Init, Ordered PROVE Order!Init
    OBVIOUS
  <2>1. /\ policy \in {"fifo", "lru", "lfu"} /\ policy \in Policies /\ last = <<"new", NoKey>>
        /\ \E max_size \in CacheSizes : stack = New(policy, max_size)
    BY StacksAssumption DEF Init, Ordered
  <2>2. Sane(policy, stack, HashedKeys, CacheSizes) /\ KeysIn(policy, stack) = {}
    BY <2>1, CallsFit, NewIsSane DEF Then
  <2>3. UsesIn(policy, stack) = [k \in {} |-> 0] /\ OrderOf(QueueIn(policy, stack)) = {}
    BY <2>1, <2>2, QueueHolds
  <2> QED
    BY <2>1, <2>3 DEF UsesIn, QueueIn, OrderOf, Queue, Order!Init
<1>2. StackInv /\ [Next]_vars => (Ordered => [Order!Next]_Order!vars)
  BY CallsKeepOrder
<1> QED
  BY <1>1, <1>2, StacksStaySane, PTL DEF Spec, EvictsInOrder

================================================================================
