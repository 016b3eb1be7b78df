--------------------------- MODULE MiniStacksProofs ----------------------------
(***************************************************************************)
(* What holds of the mini stacks for any policies, keys, sizes and shares, *)
(* whatever the events: what they keep of each key, that their loop of     *)
(* evictions ends, and what the auto policy makes of their hits.           *)
(***************************************************************************)
EXTENDS MiniStacks, StacksProofs

-----------------------------------------------------------------------------
(***************************************************************************)
(* The assumptions, and sums                                               *)
(***************************************************************************)

\* The sizes a mini stack can have.
MiniSizes == {MiniSize(size) : size \in CacheSizes}

LEMMA MinisAssume ==
    /\ NoKey \notin HashedKeys /\ Sampled \subseteq HashedKeys /\ IsFiniteSet(HashedKeys)
    /\ IsFiniteSet(Sampled) /\ Cardinality(HashedKeys) \in Nat
    /\ Modulus \in Nat /\ ObjectSizes \subseteq Nat \ {0}
    /\ HashedKeys # {} => /\ \A size \in CacheSizes : size \in 0 .. Modulus - 1
                          /\ \A size \in ObjectSizes : size \in 0 .. Modulus - 1
<1>1. /\ NoKey \notin HashedKeys /\ Sampled \subseteq HashedKeys /\ IsFiniteSet(HashedKeys)
      /\ Modulus \in Nat /\ ObjectSizes \subseteq Nat \ {0} /\ CacheSizes \subseteq Nat \ {0}
      /\ \A size \in CacheSizes \cup ObjectSizes : Cardinality(HashedKeys) * size < Modulus
    BY MiniAssumption
<1>2. IsFiniteSet(Sampled) /\ Cardinality(HashedKeys) \in Nat
    BY <1>1, FS_Subset, FS_CardinalityType
<1>3. ASSUME NEW k \in HashedKeys, NEW size \in CacheSizes \cup ObjectSizes
      PROVE  size < Modulus
  <2> DEFINE n == Cardinality(HashedKeys)
  <2>1. n # 0
    BY <1>1, FS_EmptySet
  <2>2. n \in Nat \ {0} /\ size \in Nat /\ n * size < Modulus
    BY <1>1, <1>2, <2>1
  <2> HIDE DEF n
  <2>3. size <= n * size
    BY <2>2
  <2> QED
    BY <1>1, <2>2, <2>3
<1>4. HashedKeys # {} => \A size \in CacheSizes \cup ObjectSizes : size \in 0 .. Modulus - 1
    BY <1>1, <1>3
<1> QED
    BY <1>1, <1>2, <1>4

LEMMA MinisFit ==
    /\ Fits(HashedKeys, MiniSizes)
    /\ \A size \in CacheSizes : MiniSize(size) \in 0 .. size
<1>1. ASSUME NEW size \in CacheSizes PROVE MiniSize(size) \in 0 .. size
  <2>1. size \in Nat /\ Threshold \in Nat /\ SamplingModulus \in Nat \ {0}
        /\ Threshold < SamplingModulus
    BY MiniAssumption
  <2> QED
    BY <2>1, Lemmas!ShareBound DEF MiniSize
<1>2. CacheSizes \subseteq Nat
    BY MiniAssumption
<1>3. MiniSizes \in SUBSET Nat
    BY <1>1, <1>2 DEF MiniSizes
<1> QED
    BY <1>1, <1>3, MiniAssumption DEF Fits

\* Finite sets and totals are the same, through whatever instance they are named.
LEMMA SameFinite == \A S : Lemmas!IsFiniteSet(S) = IsFiniteSet(S)
<1> SUFFICES ASSUME NEW S PROVE Lemmas!IsFiniteSet(S) = IsFiniteSet(S)
    OBVIOUS
<1> QED
    BY DEF IsFiniteSet, Lemmas!IsFiniteSet

LEMMA SameTotal == \A f, S, bound : Bounded!Total(f, S, bound) = Lemmas!Total(f, S, bound)
<1> SUFFICES ASSUME NEW f, NEW S, NEW bound
             PROVE  Bounded!Total(f, S, bound) = Lemmas!Total(f, S, bound)
    OBVIOUS
<1>1. Bounded!Under(f, S, bound) = Lemmas!Under(f, S, bound)
    BY DEF Bounded!Under, Lemmas!Under
<1>2. \A T : Bounded!Cardinality(T) = Lemmas!Cardinality(T)
  <2> SUFFICES ASSUME NEW T PROVE Bounded!Cardinality(T) = Lemmas!Cardinality(T)
    OBVIOUS
  <2> QED
    BY DEF Bounded!Cardinality, Lemmas!Cardinality
<1> QED
    BY <1>1, <1>2 DEF Bounded!Total, Lemmas!Total

-----------------------------------------------------------------------------
(***************************************************************************)
(* The sizes a mini stack keeps                                            *)
(***************************************************************************)

\* used is the sum of the sizes, which are those of sampled keys.
SizesOK(sizes, used) ==
    /\ DOMAIN sizes \subseteq Sampled
    /\ \A k \in DOMAIN sizes : sizes[k] \in ObjectSizes
    /\ used = Bounded!Total(sizes, DOMAIN sizes, Modulus)

\* What the size of a key can be.
LEMMA SizesRange ==
    ASSUME NEW sizes, NEW used, SizesOK(sizes, used)
    PROVE  /\ IsFiniteSet(DOMAIN sizes) /\ Modulus \in Nat /\ used \in Nat
           /\ \A k \in DOMAIN sizes : sizes[k] \in 0 .. Modulus /\ sizes[k] \in Nat \ {0}
           /\ DOMAIN sizes = {} => used = 0
<1>1. IsFiniteSet(DOMAIN sizes)
    BY MinisAssume, FS_Subset DEF SizesOK
<1>2. used \in Nat
  <2>1. used = Lemmas!Total(sizes, DOMAIN sizes, Modulus)
    BY SameTotal DEF SizesOK
  <2>2. Lemmas!Total(sizes, DOMAIN sizes, Modulus) \in Nat
    BY <1>1, MinisAssume, SameFinite, Lemmas!TotalRange
  <2> QED
    BY <2>1, <2>2
<1>3. \A k \in DOMAIN sizes : sizes[k] \in 0 .. Modulus /\ sizes[k] \in Nat \ {0}
  <2> SUFFICES ASSUME NEW k \in DOMAIN sizes
               PROVE  sizes[k] \in 0 .. Modulus /\ sizes[k] \in Nat \ {0}
    OBVIOUS
  <2>1. sizes[k] \in ObjectSizes /\ HashedKeys # {}
    BY MinisAssume DEF SizesOK
  <2>2. sizes[k] \in 0 .. Modulus - 1 /\ sizes[k] \in Nat \ {0} /\ Modulus \in Nat
    BY <2>1, MinisAssume
  <2> QED
    BY <2>2
<1>4. DOMAIN sizes = {} => used = 0
    BY MinisAssume, SameTotal, SameFinite, Lemmas!TotalOfZeros DEF SizesOK
<1> QED
    BY <1>1, <1>2, <1>3, <1>4, MinisAssume

Less(sizes, k) == [x \in DOMAIN sizes \ {k} |-> sizes[x]]
More(sizes, k, s) == [x \in DOMAIN sizes \cup {k} |-> IF x = k THEN s ELSE sizes[x]]

\* A key is forgotten, ...
LEMMA LessSizes ==
    ASSUME NEW sizes, NEW used, SizesOK(sizes, used), NEW k
    PROVE  LET size == IF k \in DOMAIN sizes THEN sizes[k] ELSE 0
           IN  /\ SizesOK(Less(sizes, k), used - size)
               /\ DOMAIN Less(sizes, k) = DOMAIN sizes \ {k}
               /\ used - size <= used
<1> DEFINE less == Less(sizes, k)
<1>1. DOMAIN less = DOMAIN sizes \ {k} /\ \A x \in DOMAIN sizes \ {k} : less[x] = sizes[x]
    BY DEF Less
<1> HIDE DEF less
<1>2. /\ IsFiniteSet(DOMAIN sizes) /\ Modulus \in Nat /\ used \in Nat
      /\ \A x \in DOMAIN sizes : sizes[x] \in 0 .. Modulus
    BY SizesRange
<1>3. /\ DOMAIN less \subseteq Sampled
      /\ \A x \in DOMAIN less : less[x] \in ObjectSizes
      /\ used = Lemmas!Total(sizes, DOMAIN sizes, Modulus)
    BY <1>1, SameTotal DEF SizesOK
<1>4. CASE k \in DOMAIN sizes
  <2>1. used = Lemmas!Total(less, DOMAIN sizes \ {k}, Modulus) + sizes[k]
    BY <1>1, <1>2, <1>3, <1>4, SameFinite, Lemmas!TotalWithout
  <2>2. Lemmas!Total(less, DOMAIN less, Modulus) = used - sizes[k]
    <3> DEFINE rest == Lemmas!Total(less, DOMAIN sizes \ {k}, Modulus)
    <3>1. IsFiniteSet(DOMAIN sizes \ {k})
        BY <1>2, FS_Difference
    <3>2. rest \in Nat
        BY <1>2, <3>1, SameFinite, Lemmas!TotalRange
    <3>3. used = rest + sizes[k] /\ sizes[k] \in Nat
        BY <1>2, <1>4, <2>1
    <3>4. Lemmas!Total(less, DOMAIN less, Modulus) = rest
        BY <1>1
    <3> HIDE DEF rest
    <3> QED
        BY <3>2, <3>3, <3>4
  <2>3. SizesOK(less, used - sizes[k]) /\ used - sizes[k] <= used
    BY <1>2, <1>3, <1>4, <2>2, SameTotal DEF SizesOK
  <2> QED
    BY <1>1, <1>4, <2>3 DEF less
<1>5. CASE k \notin DOMAIN sizes
  <2>1. DOMAIN less = DOMAIN sizes /\ \A x \in DOMAIN sizes : less[x] = sizes[x]
    BY <1>1, <1>5
  <2>2. Lemmas!Total(less, DOMAIN sizes, Modulus) = Lemmas!Total(sizes, DOMAIN sizes, Modulus)
    BY <1>2, <2>1, Lemmas!TotalSame
  <2>3. SizesOK(less, used - 0) /\ used - 0 <= used
    BY <1>2, <1>3, <2>1, <2>2, SameTotal DEF SizesOK
  <2> QED
    BY <1>1, <1>5, <2>3 DEF less
<1> QED
    BY <1>4, <1>5

\* ... or one is added.
LEMMA MoreSizes ==
    ASSUME NEW sizes, NEW used, SizesOK(sizes, used),
           NEW k \in Sampled, k \notin DOMAIN sizes, NEW s \in ObjectSizes
    PROVE  SizesOK(More(sizes, k, s), used + s) /\ DOMAIN More(sizes, k, s) = DOMAIN sizes \cup {k}
<1> DEFINE more == More(sizes, k, s)
           D    == DOMAIN sizes \cup {k}
<1>1. DOMAIN more = D /\ more[k] = s /\ \A x \in DOMAIN sizes : more[x] = sizes[x]
    BY DEF More
<1> HIDE DEF more
<1>2. /\ IsFiniteSet(DOMAIN sizes) /\ Modulus \in Nat /\ used \in Nat
      /\ used = Lemmas!Total(sizes, DOMAIN sizes, Modulus)
    BY SizesRange, SameTotal DEF SizesOK
<1>3. IsFiniteSet(D) /\ k \in D /\ D \ {k} = DOMAIN sizes
    BY <1>2, FS_AddElement
<1>4. s \in 0 .. Modulus
    BY MinisAssume
<1>5. Lemmas!Total(more, D, Modulus) = Lemmas!Total(sizes, D \ {k}, Modulus) + more[k]
  <2>1. \A y \in D \ {k} : sizes[y] = more[y]
    BY <1>1, <1>3
  <2> QED
    BY <1>1, <1>2, <1>3, <1>4, <2>1, SameFinite, Lemmas!TotalWithout
<1>6. used + s = Bounded!Total(more, DOMAIN more, Modulus)
    BY <1>1, <1>2, <1>3, <1>5, SameTotal
<1>7. DOMAIN more \subseteq Sampled /\ \A x \in DOMAIN more : more[x] \in ObjectSizes
    BY <1>1 DEF SizesOK
<1> QED
    BY <1>1, <1>6, <1>7 DEF SizesOK, more

LEMMA NoSizes == SizesOK(<<>>, 0) /\ DOMAIN <<>> = {}
<1>1. DOMAIN <<>> = {}
    OBVIOUS
<1>2. Bounded!Total(<<>>, DOMAIN <<>>, Modulus) = 0
    BY <1>1, MinisAssume, SameTotal, SameFinite, Lemmas!TotalOfZeros
<1> QED
    BY <1>1, <1>2 DEF SizesOK

-----------------------------------------------------------------------------
(***************************************************************************)
(* One mini stack                                                          *)
(***************************************************************************)

MiniOf(p, st, sizes, max, used, hits, ends) ==
    [policy |-> p, stack |-> st, sizes |-> sizes,
     max_size |-> max, used_size |-> used, hits |-> hits, ends |-> ends]

\* A record of just the fields a mini stack has.
IsMini(mini) ==
    mini = MiniOf(mini.policy, mini.stack, mini.sizes, mini.max_size, mini.used_size,
                  mini.hits, mini.ends)

\* The inductive invariant of a mini stack: its stack is sane, and holds every key
\* of which a size is kept.
MiniInv(mini) ==
    /\ IsMini(mini)
    /\ mini.policy \in Policies /\ mini.max_size \in MiniSizes /\ mini.hits \in Nat
    /\ Sane(mini.policy, mini.stack, HashedKeys, MiniSizes)
    /\ SizesOK(mini.sizes, mini.used_size)
    /\ DOMAIN mini.sizes \subseteq KeysIn(mini.policy, mini.stack)

LEMMA MiniFields ==
    ASSUME NEW p, NEW st, NEW sizes, NEW max, NEW used, NEW hits, NEW ends
    PROVE  LET m == MiniOf(p, st, sizes, max, used, hits, ends)
           IN  /\ IsMini(m) /\ m.policy = p /\ m.stack = st /\ m.sizes = sizes
               /\ m.max_size = max /\ m.used_size = used /\ m.hits = hits /\ m.ends = ends
  BY DEF MiniOf, IsMini

\* One field changed, and more than one.
WithStack(m, x) == [m EXCEPT !.stack = x]
WithSizes(m, x) == [m EXCEPT !.sizes = x]
WithUsed(m, x)  == [m EXCEPT !.used_size = x]
WithMax(m, x)   == [m EXCEPT !.max_size = x]
WithHits(m, x)  == [m EXCEPT !.hits = x]
WithEnds(m, x)  == [m EXCEPT !.ends = x]

LEMMA MiniSets ==
    ASSUME NEW p, NEW st, NEW sizes, NEW max, NEW used, NEW hits, NEW ends, NEW x
    PROVE  LET m == MiniOf(p, st, sizes, max, used, hits, ends)
           IN  /\ WithStack(m, x) = MiniOf(p, x, sizes, max, used, hits, ends)
               /\ WithSizes(m, x) = MiniOf(p, st, x, max, used, hits, ends)
               /\ WithUsed(m, x)  = MiniOf(p, st, sizes, max, x, hits, ends)
               /\ WithMax(m, x)   = MiniOf(p, st, sizes, x, used, hits, ends)
               /\ WithHits(m, x)  = MiniOf(p, st, sizes, max, used, x, ends)
               /\ WithEnds(m, x)  = MiniOf(p, st, sizes, max, used, hits, x)
  BY DEF MiniOf, WithStack, WithSizes, WithUsed, WithMax, WithHits, WithEnds

\* left is what mini has become without some of its keys.
Shrinks(mini, left) ==
    /\ left.policy = mini.policy /\ left.max_size = mini.max_size /\ left.hits = mini.hits
    /\ DOMAIN left.sizes \subseteq DOMAIN mini.sizes
    /\ left.used_size <= mini.used_size

LEMMA ShrinksSelf ==
    ASSUME NEW mini, MiniInv(mini)
    PROVE  Shrinks(mini, mini)
<1>1. mini.used_size \in Nat
    BY SizesRange DEF MiniInv
<1> QED
    BY <1>1 DEF Shrinks

LEMMA ShrinksOn ==
    ASSUME NEW a, NEW b, NEW c, MiniInv(a), MiniInv(b), MiniInv(c), Shrinks(a, b), Shrinks(b, c)
    PROVE  Shrinks(a, c)
<1>1. a.used_size \in Nat /\ b.used_size \in Nat /\ c.used_size \in Nat
    BY SizesRange DEF MiniInv
<1> QED
    BY <1>1 DEF Shrinks

\* A key leaves the sizes, and the stack loses no other.
LEMMA MiniForgets ==
    ASSUME NEW mini, MiniInv(mini), NEW k, NEW st,
           Sane(mini.policy, st, HashedKeys, MiniSizes),
           KeysIn(mini.policy, mini.stack) \ {k} \subseteq KeysIn(mini.policy, st)
    PROVE  LET left == Unsized([mini EXCEPT !.stack = st], k)
           IN  /\ MiniInv(left) /\ Shrinks(mini, left)
               /\ left.stack = st /\ left.ends = mini.ends
               /\ DOMAIN left.sizes = DOMAIN mini.sizes \ {k}
<1> DEFINE p     == mini.policy
           sizes == mini.sizes
           max   == mini.max_size
           used  == mini.used_size
           hits  == mini.hits
           ends  == mini.ends
           size  == IF k \in DOMAIN sizes THEN sizes[k] ELSE 0
           m     == [mini EXCEPT !.stack = st]
           left  == MiniOf(p, st, Less(sizes, k), max, used - size, hits, ends)
<1>1. m = MiniOf(p, st, sizes, max, used, hits, ends)
    BY DEF MiniInv, IsMini, MiniOf
<1>2. Unsized(m, k) = left
  <2> HIDE DEF m, p, sizes, max, used, hits, ends
  <2>1. m.sizes = sizes /\ m.used_size = used
    BY <1>1, MiniFields
  <2>2. SizeIn(m, k) = size
    BY <2>1 DEF SizeIn
  <2> HIDE DEF size
  <2>3. Unsized(m, k) = [m EXCEPT !.sizes = Less(sizes, k), !.used_size = used - size]
    BY <2>1, <2>2 DEF Unsized, Less
  <2>4. [m EXCEPT !.sizes = Less(sizes, k), !.used_size = used - size]
            = WithUsed(WithSizes(m, Less(sizes, k)), used - size)
    BY DEF WithUsed, WithSizes
  <2>5. WithSizes(m, Less(sizes, k)) = MiniOf(p, st, Less(sizes, k), max, used, hits, ends)
    BY <1>1, MiniSets
  <2>6. WithUsed(MiniOf(p, st, Less(sizes, k), max, used, hits, ends), used - size) = left
    BY MiniSets
  <2> QED
    BY <2>3, <2>4, <2>5, <2>6
<1>3. /\ SizesOK(Less(sizes, k), used - size) /\ DOMAIN Less(sizes, k) = DOMAIN sizes \ {k}
      /\ used - size <= used
    BY LessSizes DEF MiniInv
<1>4. /\ p \in Policies /\ max \in MiniSizes /\ hits \in Nat
      /\ DOMAIN sizes \ {k} \subseteq KeysIn(p, st)
    BY DEF MiniInv
<1>5. /\ IsMini(left) /\ left.policy = p /\ left.stack = st /\ left.sizes = Less(sizes, k)
      /\ left.max_size = max /\ left.used_size = used - size /\ left.hits = hits
      /\ left.ends = ends
    BY MiniFields
<1> HIDE DEF left, size, m
<1>6. MiniInv(left)
    BY <1>3, <1>4, <1>5 DEF MiniInv
<1>7. Shrinks(mini, left)
    BY <1>3, <1>5 DEF Shrinks
<1> QED
    BY <1>2, <1>3, <1>5, <1>6, <1>7 DEF m

\* evict_one takes a key from both; with room there is one as long as a size is kept.
LEMMA MiniEvicts ==
    ASSUME NEW mini, MiniInv(mini)
    PROVE  LET evicted == MiniEvictOne(mini)
           IN  /\ MiniInv(evicted.mini) /\ Shrinks(mini, evicted.mini)
               /\ evicted.mini.stack = EvictOne(mini.policy, mini.stack).stack
               /\ evicted.mini.ends = mini.ends
               /\ evicted.key = EvictOne(mini.policy, mini.stack).key
               /\ DOMAIN evicted.mini.sizes = DOMAIN mini.sizes \ {evicted.key}
<1> DEFINE evicted == EvictOne(mini.policy, mini.stack)
<1>1. Evicts(mini.policy, mini.stack, HashedKeys, MiniSizes)
    BY MinisFit, EvictIsSane DEF MiniInv
<1>2. /\ Sane(mini.policy, evicted.stack, HashedKeys, MiniSizes)
      /\ KeysIn(mini.policy, mini.stack) \ {evicted.key} \subseteq KeysIn(mini.policy, evicted.stack)
    BY <1>1 DEF Evicts
<1>3. /\ MiniEvictOne(mini).key = evicted.key
      /\ MiniEvictOne(mini).mini = Unsized([mini EXCEPT !.stack = evicted.stack], evicted.key)
    BY DEF MiniEvictOne
<1> HIDE DEF evicted
<1>4. LET left == Unsized([mini EXCEPT !.stack = evicted.stack], evicted.key)
      IN  /\ MiniInv(left) /\ Shrinks(mini, left)
          /\ left.stack = evicted.stack /\ left.ends = mini.ends
          /\ DOMAIN left.sizes = DOMAIN mini.sizes \ {evicted.key}
    BY <1>2, MiniForgets
<1> QED
    BY <1>3, <1>4 DEF evicted

LEMMA TurnKeeps ==
    ASSUME NEW mini, MiniInv(mini), NEW target
    PROVE  LET left == Turn(mini, target)
           IN  MiniInv(left) /\ Shrinks(mini, left) /\ left.ends = mini.ends
<1>1. CASE mini.used_size > target
    BY <1>1, MiniEvicts DEF Turn
<1>2. CASE ~(mini.used_size > target)
    BY <1>2, ShrinksSelf DEF Turn
<1> QED
    BY <1>1, <1>2

-----------------------------------------------------------------------------
(***************************************************************************)
(* The loop of reduce                                                      *)
(***************************************************************************)

\* f has what is left after each of n turns.
Turns(f, mini, target, n) ==
    f = [i \in 0 .. n |-> IF i = 0 THEN mini ELSE Turn(f[i - 1], target)]

LEMMA TurnsAt ==
    ASSUME NEW mini, NEW target, NEW n, NEW f, Turns(f, mini, target, n), NEW i \in 0 .. n
    PROVE  f[i] = IF i = 0 THEN mini ELSE Turn(f[i - 1], target)
<1> DEFINE g == [j \in 0 .. n |-> IF j = 0 THEN mini ELSE Turn(f[j - 1], target)]
<1>1. f = g
    BY DEF Turns
<1>2. g[i] = IF i = 0 THEN mini ELSE Turn(f[i - 1], target)
    OBVIOUS
<1> HIDE DEF g
<1> QED
    BY <1>1, <1>2

LEMMA TurnsExist ==
    ASSUME NEW mini, NEW target, NEW n \in Nat
    PROVE  \E f : Turns(f, mini, target, n)
<1> DEFINE T == {k \in Nat : \E f : Turns(f, mini, target, k)}
<1>1. 0 \in T
  <2> DEFINE f == [i \in 0 .. 0 |-> mini]
             g == [i \in 0 .. 0 |-> IF i = 0 THEN mini ELSE Turn(f[i - 1], target)]
  <2>1. f = g
    OBVIOUS
  <2> HIDE DEF f
  <2>2. Turns(f, mini, target, 0)
    BY <2>1 DEF Turns
  <2> QED
    BY <2>2
<1>2. ASSUME NEW k \in Nat, k \in T PROVE k + 1 \in T
  <2>1. PICK f : Turns(f, mini, target, k)
    BY <1>2
  <2>2. f = [i \in 0 .. k |-> IF i = 0 THEN mini ELSE Turn(f[i - 1], target)]
    BY <2>1 DEF Turns
  <2> DEFINE g == [i \in 0 .. k + 1 |-> IF i \in 0 .. k THEN f[i] ELSE Turn(f[i - 1], target)]
             h == [i \in 0 .. k + 1 |-> IF i = 0 THEN mini ELSE Turn(g[i - 1], target)]
  <2>3. \A i \in 0 .. k + 1 : g[i] = h[i]
    <3> SUFFICES ASSUME NEW i \in 0 .. k + 1 PROVE g[i] = h[i]
        OBVIOUS
    <3>1. CASE i = 0
        BY <2>2, <3>1
    <3>2. CASE i # 0
      <4>1. i - 1 \in 0 .. k /\ g[i - 1] = f[i - 1]
        BY <3>2
      <4>2. g[i] = Turn(f[i - 1], target)
        BY <2>2, <3>2
      <4> QED
        BY <3>2, <4>1, <4>2
    <3> QED
        BY <3>1, <3>2
  <2>4. g = h
    BY <2>3
  <2> HIDE DEF g
  <2>5. Turns(g, mini, target, k + 1)
    BY <2>4 DEF Turns
  <2> QED
    BY <2>5
<1> QED
    BY <1>1, <1>2, Lemmas!SetInduction

MaxTurns == Cardinality(HashedKeys) + 1

LEMMA ReduceIs ==
    ASSUME NEW mini, NEW target
    PROVE  \E f : /\ Turns(f, mini, target, MaxTurns)
                  /\ Reduce(mini, target)
                        = WithEnds(f[MaxTurns], f[MaxTurns].ends /\ f[MaxTurns].used_size <= target)
<1> DEFINE left == CHOOSE f : Turns(f, mini, target, MaxTurns)
<1>1. MaxTurns \in Nat
    BY MinisAssume DEF MaxTurns
<1>2. Turns(left, mini, target, MaxTurns)
    BY <1>1, TurnsExist
<1>3. \A f : f = [n \in 0 .. MaxTurns |-> IF n = 0 THEN mini ELSE Turn(f[n - 1], target)]
                <=> Turns(f, mini, target, MaxTurns)
    BY DEF Turns
<1>4. Reduce(mini, target)
          = LET l == CHOOSE f : f = [n \in 0 .. MaxTurns |->
                         IF n = 0 THEN mini ELSE Turn(f[n - 1], target)]
            IN  [l[MaxTurns] EXCEPT !.ends = @ /\ l[MaxTurns].used_size <= target]
    BY DEF Reduce, MaxTurns
<1>5. left = CHOOSE f : f = [n \in 0 .. MaxTurns |->
                         IF n = 0 THEN mini ELSE Turn(f[n - 1], target)]
    BY <1>3
<1> HIDE DEF left
<1>6. Reduce(mini, target)
          = [left[MaxTurns] EXCEPT !.ends = @ /\ left[MaxTurns].used_size <= target]
    BY <1>4, <1>5, Zenon
<1> QED
    BY <1>2, <1>6 DEF WithEnds

LEMMA TurnsKeep ==
    ASSUME NEW mini, MiniInv(mini), NEW target, NEW n \in Nat, NEW f, Turns(f, mini, target, n)
    PROVE  \A i \in 0 .. n : MiniInv(f[i]) /\ Shrinks(mini, f[i]) /\ f[i].ends = mini.ends
<1> DEFINE T == {k \in Nat : k \in 0 .. n =>
                    MiniInv(f[k]) /\ Shrinks(mini, f[k]) /\ f[k].ends = mini.ends}
<1>1. 0 \in T
  <2>1. f[0] = mini
    BY TurnsAt
  <2> QED
    BY <2>1, ShrinksSelf
<1>2. ASSUME NEW k \in Nat, k \in T PROVE k + 1 \in T
  <2> SUFFICES ASSUME k + 1 \in 0 .. n
               PROVE  /\ MiniInv(f[k + 1]) /\ Shrinks(mini, f[k + 1])
                      /\ f[k + 1].ends = mini.ends
    OBVIOUS
  <2>1. f[k + 1] = Turn(f[k], target)
    <3>1. k + 1 # 0 /\ (k + 1) - 1 = k
        OBVIOUS
    <3>2. f[k + 1] = IF k + 1 = 0 THEN mini ELSE Turn(f[(k + 1) - 1], target)
        BY TurnsAt
    <3> QED
        BY <3>1, <3>2
  <2>2. MiniInv(f[k]) /\ Shrinks(mini, f[k]) /\ f[k].ends = mini.ends
    BY <1>2
  <2>3. MiniInv(f[k + 1]) /\ Shrinks(f[k], f[k + 1]) /\ f[k + 1].ends = f[k].ends
    BY <2>1, <2>2, TurnKeeps
  <2> QED
    BY <2>2, <2>3, ShrinksOn
<1>3. Nat \subseteq T
    BY <1>1, <1>2, Lemmas!SetInduction
<1> QED
    BY <1>3

\* A turn reaches the target or takes weight off the stack, ...
LEMMA TurnLightens ==
    ASSUME NEW mini, MiniInv(mini), ~MayHoldBack(mini.policy, MiniSizes), NEW target \in Nat,
           mini.used_size > target
    PROVE  Weight(mini.policy, Turn(mini, target).stack) < Weight(mini.policy, mini.stack)
<1>1. mini.used_size \in Nat /\ DOMAIN mini.sizes # {}
  <2>1. SizesOK(mini.sizes, mini.used_size)
    BY DEF MiniInv
  <2>2. mini.used_size \in Nat /\ (DOMAIN mini.sizes = {} => mini.used_size = 0)
    BY <2>1, SizesRange
  <2> QED
    BY <2>2
<1>2. KeysIn(mini.policy, mini.stack) # {}
    BY <1>1 DEF MiniInv
<1>3. Turn(mini, target).stack = EvictOne(mini.policy, mini.stack).stack
    BY MiniEvicts DEF Turn
<1>4. IsFiniteSet(HashedKeys)
    BY MinisAssume
<1> QED
    BY <1>2, <1>3, <1>4, MinisFit, EvictLightens DEF MiniInv

\* ... so that as many turns as a stack has weight are enough.
LEMMA TurnsEnd ==
    ASSUME NEW mini, MiniInv(mini), ~MayHoldBack(mini.policy, MiniSizes), NEW target \in Nat,
           NEW f, Turns(f, mini, target, MaxTurns)
    PROVE  f[MaxTurns].used_size <= target
<1> DEFINE p == mini.policy
           w == Weight(p, mini.stack)
           T == {k \in Nat : k \in 0 .. MaxTurns =>
                    \/ f[k].used_size <= target
                    \/ Weight(p, f[k].stack) + k <= w}
<1>1. MaxTurns \in Nat /\ IsFiniteSet(HashedKeys)
    BY MinisAssume DEF MaxTurns
<1>2. \A i \in 0 .. MaxTurns : MiniInv(f[i]) /\ Shrinks(mini, f[i])
    BY <1>1, TurnsKeep
<1>3. \A i \in 0 .. MaxTurns : /\ f[i].policy = p /\ f[i].used_size \in Nat
                               /\ Weight(p, f[i].stack) \in 0 .. MaxTurns
  <2> SUFFICES ASSUME NEW i \in 0 .. MaxTurns
               PROVE  /\ f[i].policy = p /\ f[i].used_size \in Nat
                      /\ Weight(p, f[i].stack) \in 0 .. MaxTurns
    OBVIOUS
  <2>1. f[i].policy = p /\ f[i].used_size \in Nat
    BY <1>2, SizesRange DEF Shrinks, MiniInv
  <2>2. p \in Policies /\ Sane(p, f[i].stack, HashedKeys, MiniSizes)
    BY <1>2, <2>1 DEF MiniInv
  <2> QED
    BY <1>1, <2>1, <2>2, WeightIsBounded DEF MaxTurns
<1>4. w \in 0 .. MaxTurns
    BY <1>1, WeightIsBounded DEF MiniInv, MaxTurns
<1>5. 0 \in T
  <2>1. f[0] = mini
    BY <1>1, TurnsAt
  <2> QED
    BY <1>4, <2>1
<1> HIDE DEF w
<1>6. ASSUME NEW k \in Nat, k \in T PROVE k + 1 \in T
  <2> SUFFICES ASSUME k + 1 \in 0 .. MaxTurns
               PROVE  \/ f[k + 1].used_size <= target
                      \/ Weight(p, f[k + 1].stack) + (k + 1) <= w
    OBVIOUS
  <2>1. f[k + 1] = Turn(f[k], target)
    <3>1. k + 1 # 0 /\ (k + 1) - 1 = k
        OBVIOUS
    <3>2. f[k + 1] = IF k + 1 = 0 THEN mini ELSE Turn(f[(k + 1) - 1], target)
        BY TurnsAt
    <3> QED
        BY <3>1, <3>2
  <2>2. k \in 0 .. MaxTurns
    BY <1>1
  <2>3. CASE f[k].used_size <= target
    <3>1. Turn(f[k], target) = f[k]
        BY <1>3, <2>2, <2>3 DEF Turn
    <3> QED
        BY <2>1, <2>3, <3>1
  <2>4. CASE f[k].used_size > target
    <3>1. Weight(p, f[k].stack) + k <= w
        BY <1>3, <1>6, <2>2, <2>4
    <3>2. Weight(p, f[k + 1].stack) < Weight(p, f[k].stack)
        BY <1>2, <1>3, <2>1, <2>2, <2>4, TurnLightens
    <3>3. /\ Weight(p, f[k + 1].stack) \in Nat /\ Weight(p, f[k].stack) \in Nat
          /\ w \in Nat /\ k \in Nat
        BY <1>3, <1>4, <2>2
    <3> HIDE DEF p
    <3> QED
        BY <3>1, <3>2, <3>3
  <2> QED
    BY <1>3, <2>2, <2>3, <2>4
<1>7. MaxTurns \in T
    BY <1>1, <1>5, <1>6, Lemmas!SetInduction
<1>8. CASE f[MaxTurns].used_size <= target
    BY <1>8
<1>9. CASE Weight(p, f[MaxTurns].stack) + MaxTurns <= w
  <2>1. Weight(p, f[MaxTurns].stack) = 0 /\ w = MaxTurns
    BY <1>1, <1>3, <1>4, <1>9
  <2>2. SUFFICES ASSUME f[MaxTurns].used_size > target PROVE FALSE
    BY <1>1, <1>3
  <2>3. Weight(p, Turn(f[MaxTurns], target).stack) < 0
    BY <1>1, <1>2, <1>3, <2>1, <2>2, TurnLightens
  <2>4. Weight(p, Turn(f[MaxTurns], target).stack) \in Nat
    <3> DEFINE m == f[MaxTurns]
    <3>1. MiniInv(m) /\ m.policy = p
        BY <1>1, <1>2, <1>3
    <3>2. MiniInv(Turn(m, target)) /\ Shrinks(m, Turn(m, target))
        BY <3>1, TurnKeeps
    <3> HIDE DEF m
    <3>3. p \in Policies /\ Sane(p, Turn(m, target).stack, HashedKeys, MiniSizes)
        BY <3>1, <3>2 DEF MiniInv, Shrinks
    <3>4. Weight(p, Turn(m, target).stack) \in 0 .. Cardinality(HashedKeys) + 1
        BY <1>1, <3>3, WeightIsBounded
    <3> QED
        BY <3>4 DEF m
  <2> QED
    BY <2>3, <2>4
<1> QED
    BY <1>1, <1>7, <1>8, <1>9

\* reduce keeps the mini stack sound, and ends below its target if there is room.
LEMMA ReduceKeeps ==
    ASSUME NEW mini, MiniInv(mini), NEW target \in Nat
    PROVE  LET left == Reduce(mini, target)
           IN  /\ MiniInv(left) /\ Shrinks(mini, left)
               /\ left.ends = (mini.ends /\ left.used_size <= target)
               /\ ~MayHoldBack(mini.policy, MiniSizes) => left.used_size <= target
<1>1. PICK f : /\ Turns(f, mini, target, MaxTurns)
               /\ Reduce(mini, target)
                      = WithEnds(f[MaxTurns], f[MaxTurns].ends /\ f[MaxTurns].used_size <= target)
    BY ReduceIs
<1> DEFINE m == f[MaxTurns]
           e == m.ends /\ m.used_size <= target
<1>2. MaxTurns \in 0 .. MaxTurns /\ MaxTurns \in Nat
    BY MinisAssume DEF MaxTurns
<1>3. MiniInv(m) /\ Shrinks(mini, m) /\ m.ends = mini.ends
    BY <1>1, <1>2, TurnsKeep
<1>4. ~MayHoldBack(mini.policy, MiniSizes) => m.used_size <= target
    BY <1>1, TurnsEnd
<1>5. Reduce(mini, target) = WithEnds(m, e)
    BY <1>1
<1> HIDE DEF m
<1>6. WithEnds(m, e) = MiniOf(m.policy, m.stack, m.sizes, m.max_size, m.used_size, m.hits, e)
  <2>1. m = MiniOf(m.policy, m.stack, m.sizes, m.max_size, m.used_size, m.hits, m.ends)
    BY <1>3 DEF MiniInv, IsMini
  <2> HIDE DEF e
  <2> DEFINE a == m.policy
             b == m.stack
             c == m.sizes
             d == m.max_size
             g == m.used_size
             h == m.hits
             j == m.ends
  <2>2. m = MiniOf(a, b, c, d, g, h, j)
    BY <2>1
  <2> HIDE DEF a, b, c, d, g, h, j
  <2>3. WithEnds(m, e) = MiniOf(a, b, c, d, g, h, e)
    BY <2>2, MiniSets
  <2> QED
    BY <2>3 DEF a, b, c, d, g, h
<1> DEFINE left == WithEnds(m, e)
<1>7. /\ IsMini(left) /\ left.policy = m.policy /\ left.stack = m.stack /\ left.sizes = m.sizes
      /\ left.max_size = m.max_size /\ left.used_size = m.used_size /\ left.hits = m.hits
      /\ left.ends = e
    BY <1>6, MiniFields
<1> HIDE DEF left
<1>8. MiniInv(left) /\ Shrinks(mini, left)
    BY <1>3, <1>7 DEF MiniInv, Shrinks
<1> QED
    BY <1>3, <1>4, <1>5, <1>7, <1>8 DEF left

-----------------------------------------------------------------------------
(***************************************************************************)
(* What each event makes of a mini stack                                   *)
(***************************************************************************)

LEMMA MiniMade ==
    ASSUME NEW p \in Policies, NEW st, Sane(p, st, HashedKeys, MiniSizes),
           NEW sizes, NEW used, SizesOK(sizes, used), DOMAIN sizes \subseteq KeysIn(p, st),
           NEW max \in MiniSizes, NEW hits \in Nat, NEW ends
    PROVE  LET m == MiniOf(p, st, sizes, max, used, hits, ends)
           IN  /\ MiniInv(m) /\ m.policy = p /\ m.stack = st /\ m.sizes = sizes
               /\ m.max_size = max /\ m.used_size = used /\ m.hits = hits /\ m.ends = ends
<1> DEFINE m == MiniOf(p, st, sizes, max, used, hits, ends)
<1>1. /\ IsMini(m) /\ m.policy = p /\ m.stack = st /\ m.sizes = sizes
      /\ m.max_size = max /\ m.used_size = used /\ m.hits = hits /\ m.ends = ends
    BY MiniFields
<1> HIDE DEF m
<1>2. MiniInv(m)
    BY <1>1 DEF MiniInv
<1> QED
    BY <1>1, <1>2 DEF m

LEMMA NewMiniStarts ==
    ASSUME NEW p \in Policies, NEW size \in CacheSizes
    PROVE  LET m == NewMini(p, MiniSize(size))
           IN  /\ MiniInv(m) /\ m.policy = p /\ m.sizes = <<>> /\ m.used_size = 0
               /\ m.hits = 0 /\ m.ends = TRUE
<1> DEFINE max == MiniSize(size)
           st  == New(p, max)
<1>1. max \in MiniSizes
    BY DEF MiniSizes
<1> HIDE DEF max
<1>2. Sane(p, st, HashedKeys, MiniSizes)
    BY <1>1, MinisFit, NewIsSane DEF Then
<1>3. SizesOK(<<>>, 0) /\ DOMAIN <<>> \subseteq KeysIn(p, st) /\ 0 \in Nat
    BY NoSizes
<1> DEFINE e == TRUE
<1>4. NewMini(p, max) = MiniOf(p, st, <<>>, max, 0, 0, e)
    BY DEF NewMini, MiniOf
<1> HIDE DEF st, e
<1>5. LET m == MiniOf(p, st, <<>>, max, 0, 0, e)
      IN  /\ MiniInv(m) /\ m.policy = p /\ m.stack = st /\ m.sizes = <<>>
          /\ m.max_size = max /\ m.used_size = 0 /\ m.hits = 0 /\ m.ends = e
  <2> DEFINE none == <<>>
             zero == 0
  <2>1. p \in Policies /\ SizesOK(none, zero) /\ DOMAIN none \subseteq KeysIn(p, st) /\ zero \in Nat
    BY <1>3
  <2> HIDE DEF none, zero
  <2>2. LET m == MiniOf(p, st, none, max, zero, zero, e)
        IN  /\ MiniInv(m) /\ m.policy = p /\ m.stack = st /\ m.sizes = none
            /\ m.max_size = max /\ m.used_size = zero /\ m.hits = zero /\ m.ends = e
    BY <1>1, <1>2, <2>1, MiniMade
  <2> QED
    BY <2>2 DEF none, zero
<1> QED
    BY <1>4, <1>5 DEF max, e

\* A get changes what a mini stack keeps no more than its hits, by one at most.
LEMMA MiniUpdates ==
    ASSUME NEW mini, MiniInv(mini), NEW k \in HashedKeys
    PROVE  LET m == MiniUpdate(mini, k)
           IN  /\ MiniInv(m) /\ m.policy = mini.policy /\ m.sizes = mini.sizes
               /\ m.max_size = mini.max_size /\ m.used_size = mini.used_size
               /\ m.hits \in {mini.hits, mini.hits + 1} /\ m.ends = mini.ends
<1> DEFINE p     == mini.policy
           st    == mini.stack
           sizes == mini.sizes
           max   == mini.max_size
           used  == mini.used_size
           hits  == mini.hits
           ends  == mini.ends
           h     == IF Contains(mini, k) THEN hits + 1 ELSE hits
           x     == Update(p, st, k)
<1>1. /\ mini = MiniOf(p, st, sizes, max, used, hits, ends)
      /\ p \in Policies /\ max \in MiniSizes /\ hits \in Nat
      /\ Sane(p, st, HashedKeys, MiniSizes) /\ SizesOK(sizes, used)
      /\ DOMAIN sizes \subseteq KeysIn(p, st)
    BY DEF MiniInv, IsMini
<1>2. MiniUpdate(mini, k) = WithStack(WithHits(mini, h), x)
    BY DEF MiniUpdate, WithStack, WithHits
<1>3. h \in Nat /\ h \in {hits, hits + 1}
    BY <1>1
<1> HIDE DEF p, st, sizes, max, used, hits, ends, h
<1>4. Then(p, x, KeysIn(p, st), HashedKeys, MiniSizes)
    BY <1>1, MinisFit, UpdateIsSane
<1>5. Sane(p, x, HashedKeys, MiniSizes) /\ DOMAIN sizes \subseteq KeysIn(p, x)
    BY <1>1, <1>4 DEF Then
<1> HIDE DEF x
<1>6. WithHits(mini, h) = MiniOf(p, st, sizes, max, used, h, ends)
    BY <1>1, MiniSets
<1>7. WithStack(MiniOf(p, st, sizes, max, used, h, ends), x)
          = MiniOf(p, x, sizes, max, used, h, ends)
    BY MiniSets
<1>8. LET m == MiniOf(p, x, sizes, max, used, h, ends)
      IN  /\ MiniInv(m) /\ m.policy = p /\ m.stack = x /\ m.sizes = sizes
          /\ m.max_size = max /\ m.used_size = used /\ m.hits = h /\ m.ends = ends
    BY <1>1, <1>3, <1>5, MiniMade
<1>9. MiniUpdate(mini, k) = MiniOf(p, x, sizes, max, used, h, ends)
    BY <1>2, <1>6, <1>7
<1> QED
    BY <1>3, <1>8, <1>9 DEF p, sizes, max, used, hits, ends

\* A removed key leaves it, and takes nothing else along.
LEMMA MiniRemoves ==
    ASSUME NEW mini, MiniInv(mini), NEW k \in HashedKeys
    PROVE  LET m == MiniRemove(mini, k)
           IN  /\ MiniInv(m) /\ Shrinks(mini, m) /\ m.ends = mini.ends
               /\ DOMAIN m.sizes = DOMAIN mini.sizes \ {k}
<1> DEFINE x == Remove(mini.policy, mini.stack, k)
<1>1. Then(mini.policy, x, KeysIn(mini.policy, mini.stack) \ {k}, HashedKeys, MiniSizes)
    BY MinisFit, RemoveIsSane DEF MiniInv
<1>2. /\ Sane(mini.policy, x, HashedKeys, MiniSizes)
      /\ KeysIn(mini.policy, mini.stack) \ {k} \subseteq KeysIn(mini.policy, x)
    BY <1>1 DEF Then
<1>3. MiniRemove(mini, k) = Unsized([mini EXCEPT !.stack = x], k)
    BY DEF MiniRemove
<1> HIDE DEF x
<1>4. LET left == Unsized([mini EXCEPT !.stack = x], k)
      IN  /\ MiniInv(left) /\ Shrinks(mini, left)
          /\ left.stack = x /\ left.ends = mini.ends
          /\ DOMAIN left.sizes = DOMAIN mini.sizes \ {k}
    BY <1>2, MiniForgets
<1> QED
    BY <1>3, <1>4

\* A wipe empties it, ...
LEMMA MiniClears ==
    ASSUME NEW mini, MiniInv(mini)
    PROVE  LET m == MiniClear(mini)
           IN  /\ MiniInv(m) /\ m.policy = mini.policy /\ m.sizes = <<>>
               /\ m.max_size = mini.max_size /\ m.used_size = 0
               /\ m.hits = 0 /\ m.ends = mini.ends
<1> DEFINE p     == mini.policy
           st    == mini.stack
           max   == mini.max_size
           ends  == mini.ends
           x     == Clear(p, st)
<1>1. /\ mini = MiniOf(p, st, mini.sizes, max, mini.used_size, mini.hits, ends)
      /\ p \in Policies /\ max \in MiniSizes /\ Sane(p, st, HashedKeys, MiniSizes)
    BY DEF MiniInv, IsMini
<1>2. MiniClear(mini) = MiniOf(p, x, <<>>, max, 0, 0, ends)
  <2> DEFINE m == [mini EXCEPT !.stack = x, !.sizes = <<>>, !.used_size = 0, !.hits = 0]
  <2>1. MiniClear(mini) = m
    BY DEF MiniClear
  <2>2. m = WithHits(WithUsed(WithSizes(WithStack(mini, x), <<>>), 0), 0)
    BY DEF WithStack, WithSizes, WithUsed, WithHits
  <2> HIDE DEF m, x, p, st, max, ends
  <2>3. WithStack(mini, x) = MiniOf(p, x, mini.sizes, max, mini.used_size, mini.hits, ends)
    BY <1>1, MiniSets
  <2>4. WithSizes(MiniOf(p, x, mini.sizes, max, mini.used_size, mini.hits, ends), <<>>)
            = MiniOf(p, x, <<>>, max, mini.used_size, mini.hits, ends)
    BY MiniSets
  <2>5. WithUsed(MiniOf(p, x, <<>>, max, mini.used_size, mini.hits, ends), 0)
            = MiniOf(p, x, <<>>, max, 0, mini.hits, ends)
    BY MiniSets
  <2>6. WithHits(MiniOf(p, x, <<>>, max, 0, mini.hits, ends), 0)
            = MiniOf(p, x, <<>>, max, 0, 0, ends)
    BY MiniSets
  <2> QED
    BY <2>1, <2>2, <2>3, <2>4, <2>5, <2>6
<1> HIDE DEF p, st, max, ends
<1>3. Then(p, x, {}, HashedKeys, MiniSizes)
    BY <1>1, MinisFit, ClearIsSane
<1>4. /\ Sane(p, x, HashedKeys, MiniSizes) /\ SizesOK(<<>>, 0) /\ 0 \in Nat
      /\ DOMAIN <<>> \subseteq KeysIn(p, x)
    BY <1>3, NoSizes DEF Then
<1> HIDE DEF x
<1>5. LET m == MiniOf(p, x, <<>>, max, 0, 0, ends)
      IN  /\ MiniInv(m) /\ m.policy = p /\ m.stack = x /\ m.sizes = <<>>
          /\ m.max_size = max /\ m.used_size = 0 /\ m.hits = 0 /\ m.ends = ends
    BY <1>1, <1>4, MiniMade
<1> QED
    BY <1>2, <1>5 DEF p, max, ends

\* ... and a poll takes its hits alone.
LEMMA MiniHitsCleared ==
    ASSUME NEW mini, MiniInv(mini)
    PROVE  LET m == [mini EXCEPT !.hits = 0]
           IN  /\ MiniInv(m) /\ m.policy = mini.policy /\ m.sizes = mini.sizes
               /\ m.max_size = mini.max_size /\ m.used_size = mini.used_size
               /\ m.hits = 0 /\ m.ends = mini.ends
<1> DEFINE p     == mini.policy
           st    == mini.stack
           sizes == mini.sizes
           max   == mini.max_size
           used  == mini.used_size
           hits  == mini.hits
           ends  == mini.ends
<1>1. /\ mini = MiniOf(p, st, sizes, max, used, hits, ends)
      /\ p \in Policies /\ max \in MiniSizes /\ 0 \in Nat
      /\ Sane(p, st, HashedKeys, MiniSizes) /\ SizesOK(sizes, used)
      /\ DOMAIN sizes \subseteq KeysIn(p, st)
    BY DEF MiniInv, IsMini
<1> HIDE DEF p, st, sizes, max, used, hits, ends
<1>2. WithHits(mini, 0) = MiniOf(p, st, sizes, max, used, 0, ends)
    BY <1>1, MiniSets
<1>3. LET m == MiniOf(p, st, sizes, max, used, 0, ends)
      IN  /\ MiniInv(m) /\ m.policy = p /\ m.stack = st /\ m.sizes = sizes
          /\ m.max_size = max /\ m.used_size = used /\ m.hits = 0 /\ m.ends = ends
    BY <1>1, MiniMade
<1>4. [mini EXCEPT !.hits = 0] = MiniOf(p, st, sizes, max, used, 0, ends)
    BY <1>2 DEF WithHits
<1> QED
    BY <1>3, <1>4 DEF p, st, sizes, max, used, ends

\* A resize reduces it to its new size.
LEMMA MiniResizes ==
    ASSUME NEW mini, MiniInv(mini), NEW size \in CacheSizes
    PROVE  LET m == MiniResize(mini, MiniSize(size))
           IN  /\ MiniInv(m) /\ m.policy = mini.policy /\ m.max_size = MiniSize(size)
               /\ m.hits = mini.hits /\ DOMAIN m.sizes \subseteq DOMAIN mini.sizes
               /\ ~MayHoldBack(mini.policy, MiniSizes) =>
                      m.used_size <= m.max_size /\ (mini.ends => m.ends)
<1> DEFINE p     == mini.policy
           st    == mini.stack
           sizes == mini.sizes
           max   == mini.max_size
           used  == mini.used_size
           hits  == mini.hits
           ends  == mini.ends
           new   == MiniSize(size)
           x     == Resize(p, st, new)
           r     == MiniOf(p, x, sizes, new, used, hits, ends)
<1>1. /\ mini = MiniOf(p, st, sizes, max, used, hits, ends)
      /\ p \in Policies /\ max \in MiniSizes /\ hits \in Nat
      /\ Sane(p, st, HashedKeys, MiniSizes) /\ SizesOK(sizes, used)
      /\ DOMAIN sizes \subseteq KeysIn(p, st)
    BY DEF MiniInv, IsMini
<1>2. new \in MiniSizes /\ new \in Nat
    BY MinisFit DEF MiniSizes, Fits
<1>3. MiniResize(mini, new) = Reduce(WithMax(WithStack(mini, x), new), new)
    BY DEF MiniResize, WithStack, WithMax
<1> HIDE DEF p, st, sizes, max, used, hits, ends, new
<1>4. Then(p, x, KeysIn(p, st), HashedKeys, MiniSizes)
    BY <1>1, <1>2, MinisFit, ResizeIsSane
<1>5. Sane(p, x, HashedKeys, MiniSizes) /\ DOMAIN sizes \subseteq KeysIn(p, x)
    BY <1>1, <1>4 DEF Then
<1> HIDE DEF x, r
<1>6. WithMax(WithStack(mini, x), new) = r
  <2>1. WithStack(mini, x) = MiniOf(p, x, sizes, max, used, hits, ends)
    BY <1>1, MiniSets
  <2>2. WithMax(MiniOf(p, x, sizes, max, used, hits, ends), new)
            = MiniOf(p, x, sizes, new, used, hits, ends)
    BY MiniSets
  <2> QED
    BY <2>1, <2>2 DEF r
<1>7. /\ MiniInv(r) /\ r.policy = p /\ r.stack = x /\ r.sizes = sizes
      /\ r.max_size = new /\ r.used_size = used /\ r.hits = hits /\ r.ends = ends
  <2>1. LET m == MiniOf(p, x, sizes, new, used, hits, ends)
        IN  /\ MiniInv(m) /\ m.policy = p /\ m.stack = x /\ m.sizes = sizes
            /\ m.max_size = new /\ m.used_size = used /\ m.hits = hits /\ m.ends = ends
    BY <1>1, <1>2, <1>5, MiniMade
  <2> QED
    BY <2>1 DEF r
<1> DEFINE left == Reduce(r, new)
<1>8. /\ MiniInv(left) /\ Shrinks(r, left)
      /\ left.ends = (r.ends /\ left.used_size <= new)
      /\ ~MayHoldBack(r.policy, MiniSizes) => left.used_size <= new
    BY <1>2, <1>7, ReduceKeeps
<1>9. MiniResize(mini, new) = left
    BY <1>3, <1>6
<1> HIDE DEF left
<1>10. /\ left.policy = p /\ left.max_size = new /\ left.hits = hits
       /\ DOMAIN left.sizes \subseteq DOMAIN sizes
    BY <1>7, <1>8 DEF Shrinks
<1>11. ASSUME ~MayHoldBack(p, MiniSizes)
       PROVE  left.used_size <= left.max_size /\ (ends => left.ends)
  <2>1. left.used_size <= new
    BY <1>7, <1>8, <1>11
  <2>2. left.ends = (ends /\ left.used_size <= new)
    BY <1>7, <1>8
  <2> QED
    BY <1>10, <2>1, <2>2
<1> QED
    BY <1>8, <1>9, <1>10, <1>11 DEF p, sizes, hits, ends, new

\* A key whose size alone is forgotten.
LEMMA MiniUnsized ==
    ASSUME NEW mini, MiniInv(mini), NEW k
    PROVE  LET left == Unsized(mini, k)
           IN  /\ MiniInv(left) /\ Shrinks(mini, left) /\ left.ends = mini.ends
               /\ DOMAIN left.sizes = DOMAIN mini.sizes \ {k}
<1> DEFINE a == mini.stack
<1>1. [mini EXCEPT !.stack = a] = mini
  <2>1. mini = MiniOf(mini.policy, a, mini.sizes, mini.max_size, mini.used_size, mini.hits,
                      mini.ends)
    BY DEF MiniInv, IsMini
  <2>2. WithStack(mini, a) = mini
    BY <2>1, MiniSets
  <2> QED
    BY <2>2 DEF WithStack
<1>2. /\ Sane(mini.policy, a, HashedKeys, MiniSizes)
      /\ KeysIn(mini.policy, mini.stack) \ {k} \subseteq KeysIn(mini.policy, a)
    BY DEF MiniInv
<1> HIDE DEF a
<1>3. LET left == Unsized([mini EXCEPT !.stack = a], k)
      IN  /\ MiniInv(left) /\ Shrinks(mini, left)
          /\ left.stack = a /\ left.ends = mini.ends
          /\ DOMAIN left.sizes = DOMAIN mini.sizes \ {k}
    BY <1>2, MiniForgets
<1> QED
    BY <1>1, <1>3

\* A set reduces it until the key fits, unless the key is larger than all of it.
LEMMA MiniInserts ==
    ASSUME NEW mini, MiniInv(mini), NEW k \in Sampled, NEW s \in ObjectSizes
    PROVE  LET m == MiniInsert(mini, k, s)
           IN  /\ MiniInv(m) /\ m.policy = mini.policy /\ m.max_size = mini.max_size
               /\ m.hits = mini.hits /\ DOMAIN m.sizes \subseteq DOMAIN mini.sizes \cup {k}
               /\ ~MayHoldBack(mini.policy, MiniSizes) =>
                      /\ mini.ends => m.ends
                      /\ s <= mini.max_size => m.used_size <= m.max_size
<1> DEFINE room == (Modulus + mini.max_size - s) % Modulus
           left == Reduce(mini, room)
           gone == Unsized(left, k)
<1>1. /\ k \in HashedKeys /\ s \in Nat /\ Modulus \in Nat \ {0} /\ s \in 0 .. Modulus - 1
      /\ mini.max_size \in 0 .. Modulus - 1
  <2>1. k \in HashedKeys /\ HashedKeys # {}
    BY MinisAssume
  <2>2. s \in Nat /\ Modulus \in Nat /\ s \in 0 .. Modulus - 1
    BY <2>1, MinisAssume
  <2>3. PICK size \in CacheSizes : mini.max_size = MiniSize(size)
    BY DEF MiniInv, MiniSizes
  <2>4. size \in 0 .. Modulus - 1 /\ MiniSize(size) \in 0 .. size
    BY <2>1, MinisAssume, MinisFit
  <2> QED
    BY <2>1, <2>2, <2>3, <2>4
<1>2. room \in Nat /\ (s <= mini.max_size => room = mini.max_size - s)
  <2> DEFINE max == mini.max_size
  <2>1. s \in 0 .. Modulus - 1 /\ max \in 0 .. Modulus - 1 /\ Modulus \in Nat \ {0}
    BY <1>1
  <2> HIDE DEF max
  <2>2. Modulus + max - s \in Nat
    BY <2>1
  <2>3. s <= max => (Modulus + (max - s)) % Modulus = max - s
    BY <2>1
  <2>4. Modulus + max - s = Modulus + (max - s)
    BY <2>1
  <2> QED
    BY <2>1, <2>2, <2>3, <2>4 DEF max
<1>3. /\ MiniInv(left) /\ Shrinks(mini, left)
      /\ left.ends = (mini.ends /\ left.used_size <= room)
      /\ ~MayHoldBack(mini.policy, MiniSizes) => left.used_size <= room
    BY <1>2, ReduceKeeps
<1>4. MiniInsert(mini, k, s)
          = [gone EXCEPT !.sizes = More(gone.sizes, k, s), !.used_size = gone.used_size + s,
                         !.stack = Insert(mini.policy, gone.stack, k, s)]
    BY DEF MiniInsert, More
<1>5. /\ MiniInv(gone) /\ Shrinks(left, gone) /\ gone.ends = left.ends
      /\ DOMAIN gone.sizes = DOMAIN left.sizes \ {k}
  <2> HIDE DEF left
  <2> QED
    BY <1>3, MiniUnsized
<1>6. Shrinks(mini, gone)
    BY <1>3, <1>5, ShrinksOn
<1> HIDE DEF room, left, gone
<1> DEFINE p     == gone.policy
           st    == gone.stack
           sizes == gone.sizes
           max   == gone.max_size
           used  == gone.used_size
           hits  == gone.hits
           ends  == gone.ends
           x     == Insert(p, st, k, s)
           more  == More(sizes, k, s)
           new   == MiniOf(p, x, more, max, used + s, hits, ends)
<1>7. /\ gone = MiniOf(p, st, sizes, max, used, hits, ends)
      /\ p \in Policies /\ max \in MiniSizes /\ hits \in Nat
      /\ Sane(p, st, HashedKeys, MiniSizes) /\ SizesOK(sizes, used)
      /\ DOMAIN sizes \subseteq KeysIn(p, st)
    BY <1>5 DEF MiniInv, IsMini
<1>8. /\ p = mini.policy /\ max = mini.max_size /\ hits = mini.hits
      /\ DOMAIN sizes \subseteq DOMAIN mini.sizes
    BY <1>6 DEF Shrinks
<1>9. k \notin DOMAIN sizes
    BY <1>5
<1>10. MiniInsert(mini, k, s) = WithStack(WithUsed(WithSizes(gone, more), used + s), x)
    BY <1>4, <1>8 DEF WithStack, WithUsed, WithSizes
<1>11. /\ ends = (mini.ends /\ left.used_size <= room)
       /\ used <= left.used_size
    BY <1>3, <1>5 DEF Shrinks
<1> HIDE DEF p, st, sizes, max, used, hits, ends
<1>12. Then(p, x, KeysIn(p, st) \cup {k}, HashedKeys, MiniSizes)
    BY <1>1, <1>7, MinisFit, InsertIsSane
<1>13. Sane(p, x, HashedKeys, MiniSizes) /\ DOMAIN sizes \cup {k} \subseteq KeysIn(p, x)
    BY <1>7, <1>12 DEF Then
<1>14. SizesOK(more, used + s) /\ DOMAIN more = DOMAIN sizes \cup {k}
    BY <1>7, <1>9, MoreSizes
<1> HIDE DEF x, more, new
<1>15. MiniInsert(mini, k, s) = new
  <2>1. WithSizes(gone, more) = MiniOf(p, st, more, max, used, hits, ends)
    BY <1>7, MiniSets
  <2>2. WithUsed(MiniOf(p, st, more, max, used, hits, ends), used + s)
            = MiniOf(p, st, more, max, used + s, hits, ends)
    BY MiniSets
  <2>3. WithStack(MiniOf(p, st, more, max, used + s, hits, ends), x)
            = MiniOf(p, x, more, max, used + s, hits, ends)
    BY MiniSets
  <2> QED
    BY <1>10, <2>1, <2>2, <2>3 DEF new
<1>16. /\ MiniInv(new) /\ new.policy = p /\ new.sizes = more
       /\ new.max_size = max /\ new.used_size = used + s /\ new.hits = hits /\ new.ends = ends
  <2>1. DOMAIN more \subseteq KeysIn(p, x)
    BY <1>13, <1>14
  <2> DEFINE u == used + s
  <2>2. SizesOK(more, u)
    BY <1>14
  <2> HIDE DEF u
  <2>3. LET m == MiniOf(p, x, more, max, u, hits, ends)
        IN  /\ MiniInv(m) /\ m.policy = p /\ m.stack = x /\ m.sizes = more
            /\ m.max_size = max /\ m.used_size = u /\ m.hits = hits /\ m.ends = ends
    BY <1>7, <1>13, <2>1, <2>2, MiniMade
  <2> QED
    BY <2>3 DEF new, u
<1>17. ASSUME ~MayHoldBack(mini.policy, MiniSizes)
       PROVE  /\ mini.ends => new.ends
              /\ s <= mini.max_size => new.used_size <= new.max_size
  <2>1. left.used_size <= room
    BY <1>3, <1>17
  <2>2. mini.ends => new.ends
    <3>1. ends = (mini.ends /\ left.used_size <= room)
        BY <1>11
    <3>2. new.ends = ends
        BY <1>16
    <3> QED
        BY <2>1, <3>1, <3>2
  <2>3. s <= mini.max_size => new.used_size <= new.max_size
    <3>1. used \in Nat /\ left.used_size \in Nat
        BY <1>3, <1>7, SizesRange DEF MiniInv
    <3>2. used <= left.used_size /\ new.used_size = used + s /\ new.max_size = mini.max_size
        BY <1>8, <1>11, <1>16
    <3> QED
        BY <1>1, <1>2, <2>1, <3>1, <3>2
  <2> QED
    BY <2>2, <2>3
<1>18. DOMAIN new.sizes \subseteq DOMAIN mini.sizes \cup {k}
    BY <1>8, <1>14, <1>16
<1> QED
    BY <1>8, <1>15, <1>16, <1>17, <1>18

-----------------------------------------------------------------------------
(***************************************************************************)
(* The manager                                                             *)
(***************************************************************************)

\* The inductive invariant: every mini stack is sound, runs the policy it was made
\* for, and has no more hits than gets were handed to it since the last poll.
MiniAt(mini, i, gets) == MiniInv(mini) /\ mini.policy = Configured[i] /\ mini.hits <= gets

MinisInv ==
    /\ minis = [i \in Indices |-> minis[i]]
    /\ \A i \in Indices : MiniAt(minis[i], i, epoch)
    /\ total_gets \in Nat /\ epoch \in Nat
    /\ current \in Indices

\* What a mini stack owes its evictions.
MiniTold(mini, keys, over) ==
    /\ mini.ends
    /\ DOMAIN mini.sizes \subseteq keys
    /\ over \/ mini.used_size <= mini.max_size

MinisTold == \A i \in Indices : MiniTold(minis[i], present[i], oversized)

\* No mini stack is so small that its main, or all of it, has no room.
MinisHaveRoom == \A i \in Indices : ~MayHoldBack(Configured[i], MiniSizes)

\* No policy is configured twice: the index of a policy is that of its mini stack.
LEMMA IndexOfCurrent ==
    ASSUME NEW i \in Indices
    PROVE  Index(Configured[i]) = i /\ Configured[i] \in Policies
<1>1. /\ Configured \in Seq(Policies)
      /\ \A a, b \in Indices : Configured[a] = Configured[b] => a = b
    BY MiniAssumption
<1>2. i \in Nat /\ Configured[i] \in Policies
    BY <1>1 DEF Indices
<1>3. {j \in Indices : Configured[j] = Configured[i]} = {i}
    BY <1>1
<1>4. Sets!Min({i}) = i
    BY <1>2 DEF Sets!Min
<1> QED
    BY <1>2, <1>3, <1>4 DEF Index

LEMMA MinIsLeast ==
    ASSUME NEW T \in SUBSET Nat, T # {}
    PROVE  Sets!Min(T) \in T
<1>1. \E m \in T : \A k \in T : m <= k
    BY Lemmas!LeastElement
<1> QED
    BY <1>1 DEF Sets!Min

LEMMA HitShareIsNat ==
    ASSUME NEW mini, mini.hits \in Nat, total_gets \in Nat
    PROVE  /\ HitShare(mini) \in 0 .. total_gets * Threshold
           /\ total_gets * Threshold \in Nat
<1> DEFINE a == mini.hits * SamplingModulus
           b == total_gets * Threshold
<1>1. SamplingModulus \in Nat \ {0} /\ Threshold \in Nat
    BY MiniAssumption
<1>2. a \in Nat /\ b \in Nat
    BY <1>1
<1>3. HitShare(mini) = IF total_gets = 0 THEN 0 ELSE Sets!Min({a, b})
    BY DEF HitShare
<1> HIDE DEF a, b
<1>4. Sets!Min({a, b}) \in {a, b} /\ \A k \in {a, b} : Sets!Min({a, b}) <= k
  <2>1. \E m \in {a, b} : \A k \in {a, b} : m <= k
    BY <1>2
  <2> QED
    BY <2>1 DEF Sets!Min
<1>5. HitShare(mini) \in 0 .. b
    BY <1>2, <1>3, <1>4
<1> QED
    BY <1>2, <1>5 DEF b

\* A larger share of hits is one of more hits.
LEMMA MoreHits ==
    ASSUME NEW m, NEW n, m.hits \in Nat, n.hits \in Nat, total_gets \in Nat,
           HitShare(m) > HitShare(n)
    PROVE  m.hits > n.hits
<1> DEFINE a == m.hits * SamplingModulus
           b == n.hits * SamplingModulus
           c == total_gets * Threshold
<1>1. SamplingModulus \in Nat \ {0} /\ Threshold \in Nat
    BY MiniAssumption
<1>2. a \in Nat /\ b \in Nat /\ c \in Nat
    BY <1>1
<1>3. /\ HitShare(m) = IF total_gets = 0 THEN 0 ELSE Sets!Min({a, c})
      /\ HitShare(n) = IF total_gets = 0 THEN 0 ELSE Sets!Min({b, c})
    BY DEF HitShare
<1>4. m.hits <= n.hits => a <= b
    BY <1>1
<1> HIDE DEF a, b, c
<1>5. ASSUME NEW x \in Nat, NEW y \in Nat
      PROVE  Sets!Min({x, y}) = IF x <= y THEN x ELSE y
  <2> DEFINE z == IF x <= y THEN x ELSE y
  <2>1. z \in {x, y} /\ \A k \in {x, y} : z <= k
    OBVIOUS
  <2>2. \A u \in {x, y} : (\A k \in {x, y} : u <= k) => u = z
    OBVIOUS
  <2> HIDE DEF z
  <2>3. Sets!Min({x, y}) \in {x, y} /\ \A k \in {x, y} : Sets!Min({x, y}) <= k
    BY <2>1 DEF Sets!Min
  <2>4. Sets!Min({x, y}) = z
    BY <2>2, <2>3
  <2> QED
    BY <2>4 DEF z
<1>6. total_gets # 0
    BY <1>3
<1>7. (IF a <= c THEN a ELSE c) > (IF b <= c THEN b ELSE c)
    BY <1>2, <1>3, <1>5, <1>6
<1> QED
    BY <1>2, <1>4, <1>7

\* There is an optimum.
LEMMA OptimumExists ==
    ASSUME MinisInv
    PROVE  Optimal \in Indices
<1> DEFINE share(i) == HitShare(minis[i])
           over(i)  == Overhead[minis[i].policy]
           best     == {i \in Indices : \A j \in Indices : share(j) <= share(i)}
           costs    == {over(i) : i \in best}
           top      == total_gets * Threshold
           lacks    == {top - share(i) : i \in Indices}
<1>1. \A i \in Indices : share(i) \in 0 .. top /\ over(i) \in Nat /\ top \in Nat
  <2> SUFFICES ASSUME NEW i \in Indices
               PROVE  share(i) \in 0 .. top /\ over(i) \in Nat /\ top \in Nat
    OBVIOUS
  <2>1. /\ minis[i].hits \in Nat /\ total_gets \in Nat
        /\ minis[i].policy \in Policies
    BY DEF MinisInv, MiniAt, MiniInv
  <2>2. Overhead \in [Policies -> Nat]
    BY MiniAssumption
  <2> QED
    BY <2>1, <2>2, HitShareIsNat
<1>2. Indices # {} /\ Indices \subseteq Nat
    BY MiniAssumption DEF Indices
<1> HIDE DEF share, over, top
<1>3. PICK i \in Indices : \A j \in Indices : share(j) <= share(i)
  <2>1. lacks \in SUBSET Nat /\ lacks # {}
    <3>1. ASSUME NEW j \in Indices PROVE top - share(j) \in Nat
        BY <1>1
    <3> QED
        BY <1>2, <3>1
  <2>2. PICK m \in lacks : \A k \in lacks : m <= k
    BY <2>1, Lemmas!LeastElement
  <2>3. PICK i \in Indices : m = top - share(i)
    BY <2>2
  <2>4. ASSUME NEW j \in Indices PROVE share(j) <= share(i)
    <3>1. top - share(i) <= top - share(j)
        BY <2>2, <2>3
    <3> QED
        BY <1>1, <3>1
  <2> QED
    BY <2>4
<1>4. PICK b \in best : \A a \in best : over(b) <= over(a)
  <2>1. costs \in SUBSET Nat /\ costs # {}
    BY <1>1, <1>3
  <2>2. PICK m \in costs : \A k \in costs : m <= k
    BY <2>1, Lemmas!LeastElement
  <2> QED
    BY <2>2
<1>5. ASSUME NEW j \in Indices PROVE ~Better(minis[j], minis[b])
  <2>1. share(j) <= share(b) /\ share(j) \in Nat /\ share(b) \in Nat
    BY <1>1, <1>4
  <2>2. share(j) = share(b) => j \in best
    BY <1>4
  <2>3. share(j) = share(b) => over(b) <= over(j)
    BY <1>4, <2>2
  <2>4. over(b) \in Nat /\ over(j) \in Nat
    BY <1>1, <1>4
  <2>5. ~(share(j) > share(b)) /\ ~(share(j) = share(b) /\ over(j) < over(b))
    BY <2>1, <2>3, <2>4
  <2> QED
    BY <2>5 DEF Better, share, over
<1> DEFINE all == {x \in Indices : \A j \in Indices : ~Better(minis[j], minis[x])}
<1>6. all \in SUBSET Nat /\ all # {}
    BY <1>2, <1>4, <1>5
<1>7. Optimal = Sets!Min(all)
    BY DEF Optimal
<1> HIDE DEF all
<1>8. Optimal \in all
    BY <1>6, <1>7, MinIsLeast
<1> QED
    BY <1>8 DEF all

LEMMA MinisStart == Init => MinisInv /\ MinisTold
<1> SUFFICES ASSUME Init PROVE MinisInv /\ MinisTold
    OBVIOUS
<1>1. PICK size \in CacheSizes : minis = [i \in Indices |-> NewMini(Configured[i], MiniSize(size))]
    BY DEF Init
<1>2. total_gets = 0 /\ epoch = 0 /\ current \in Indices
    BY DEF Init
<1>3. ASSUME NEW i \in Indices
      PROVE  MiniAt(minis[i], i, epoch) /\ MiniTold(minis[i], present[i], oversized)
  <2> DEFINE m == NewMini(Configured[i], MiniSize(size))
  <2>1. Configured[i] \in Policies
    BY IndexOfCurrent
  <2>2. /\ MiniInv(m) /\ m.policy = Configured[i] /\ m.sizes = <<>> /\ m.used_size = 0
        /\ m.hits = 0 /\ m.ends = TRUE
    BY <2>1, NewMiniStarts
  <2>3. minis[i] = m
    BY <1>1
  <2> HIDE DEF m
  <2>4. 0 <= m.max_size
    <3>1. m.max_size \in MiniSizes
        BY <2>2 DEF MiniInv
    <3>2. MiniSizes \in SUBSET Nat
        BY MinisFit DEF Fits
    <3> DEFINE max == m.max_size
    <3>3. max \in Nat
        BY <3>1, <3>2
    <3> HIDE DEF max
    <3>4. 0 <= max
        BY <3>3
    <3> QED
        BY <3>4 DEF max
  <2>5. DOMAIN m.sizes = {}
    BY <2>2, NoSizes
  <2> QED
    BY <1>2, <2>2, <2>3, <2>4, <2>5 DEF MiniAt, MiniTold
<1>4. minis = [i \in Indices |-> minis[i]]
  <2> DEFINE g == [i \in Indices |-> NewMini(Configured[i], MiniSize(size))]
  <2>1. \A i \in Indices : g[i] = NewMini(Configured[i], MiniSize(size))
    OBVIOUS
  <2>2. g = [i \in Indices |-> g[i]]
    BY <2>1
  <2> HIDE DEF g
  <2> QED
    BY <1>1, <2>2 DEF g
<1> QED
    BY <1>2, <1>3, <1>4 DEF MinisInv, MinisTold

\* A step that makes of each mini stack what f says.
LEMMA AllBecome ==
    ASSUME MinisInv, NEW f, minis' = [i \in Indices |-> f[i]],
           total_gets' \in Nat, epoch' \in Nat, current' \in Indices,
           \A i \in Indices : MiniAt(f[i], i, epoch')
    PROVE  MinisInv' /\ ((\A i \in Indices : MiniTold(f[i], present'[i], oversized')) => MinisTold')
<1>1. \A i \in Indices : minis'[i] = f[i]
    OBVIOUS
<1>2. minis' = [i \in Indices |-> minis'[i]]
    BY <1>1
<1>3. MinisInv'
    BY <1>1, <1>2 DEF MinisInv
<1> QED
    BY <1>1, <1>3 DEF MinisTold

LEMMA OneLeft ==
    ASSUME NEW mini, NEW left, NEW i, NEW gets \in Nat,
           MiniAt(mini, i, gets), MiniInv(left), Shrinks(mini, left), left.ends = mini.ends
    PROVE  /\ MiniAt(left, i, gets)
           /\ \A keys, over, gone :
                  MiniTold(mini, keys, over) /\ gone \cap DOMAIN left.sizes = {}
                      => MiniTold(left, keys \ gone, over)
<1>1. MiniAt(left, i, gets)
    BY DEF MiniAt, Shrinks
<1>2. left.used_size \in Nat /\ mini.used_size \in Nat /\ left.max_size \in Nat
    BY MinisFit, SizesRange DEF MiniAt, MiniInv, Fits
<1>3. ASSUME NEW keys, NEW over, NEW gone,
             MiniTold(mini, keys, over), gone \cap DOMAIN left.sizes = {}
      PROVE  MiniTold(left, keys \ gone, over)
  <2>1. DOMAIN left.sizes \subseteq keys \ gone
    BY <1>3 DEF MiniTold, Shrinks
  <2>2. over \/ left.used_size <= left.max_size
    BY <1>2, <1>3 DEF MiniTold, Shrinks
  <2> QED
    BY <1>3, <2>1, <2>2 DEF MiniTold
<1> QED
    BY <1>1, <1>3

LEMMA GetSteps ==
    ASSUME MinisInv, NEW k \in HashedKeys, Get(k)
    PROVE  MinisInv' /\ (MinisTold => MinisTold')
<1>1. total_gets' \in Nat /\ current' \in Indices /\ present' = present /\ oversized' = oversized
    BY DEF Get, MinisInv
<1>2. CASE k \in Sampled
  <2> DEFINE f == [i \in Indices |-> MiniUpdate(minis[i], k)]
  <2>1. minis' = [i \in Indices |-> f[i]] /\ epoch' = epoch + 1
    BY <1>2 DEF Get, Each
  <2>2. ASSUME NEW i \in Indices
        PROVE  /\ MiniAt(f[i], i, epoch + 1)
               /\ MiniTold(minis[i], present[i], oversized) => MiniTold(f[i], present[i], oversized)
    <3> DEFINE m == MiniUpdate(minis[i], k)
    <3>1. MiniInv(minis[i]) /\ minis[i].policy = Configured[i] /\ minis[i].hits <= epoch
          /\ minis[i].hits \in Nat /\ epoch \in Nat
        BY DEF MinisInv, MiniAt, MiniInv
    <3>2. /\ MiniInv(m) /\ m.policy = minis[i].policy /\ m.sizes = minis[i].sizes
          /\ m.max_size = minis[i].max_size /\ m.used_size = minis[i].used_size
          /\ m.hits \in {minis[i].hits, minis[i].hits + 1} /\ m.ends = minis[i].ends
        BY <3>1, MiniUpdates
    <3>3. f[i] = m
        OBVIOUS
    <3> HIDE DEF m, f
    <3>4. m.hits <= epoch + 1
        BY <3>1, <3>2
    <3> QED
        BY <3>1, <3>2, <3>3, <3>4 DEF MiniAt, MiniTold
  <2> HIDE DEF f
  <2>3. epoch' \in Nat
    BY <2>1 DEF MinisInv
  <2> QED
    BY <1>1, <2>1, <2>2, <2>3, AllBecome DEF MinisTold
<1>3. CASE k \notin Sampled
  <2>1. UNCHANGED <<minis, epoch>>
    BY <1>3 DEF Get
  <2> QED
    BY <1>1, <2>1 DEF MinisInv, MinisTold
<1> QED
    BY <1>2, <1>3

LEMMA SetSteps ==
    ASSUME MinisInv, NEW k \in HashedKeys, NEW s \in ObjectSizes, Set(k, s)
    PROVE  MinisInv' /\ (MinisHaveRoom /\ MinisTold => MinisTold')
<1> DEFINE f == [i \in Indices |-> MiniInsert(minis[i], k, s)]
<1>1. /\ k \in Sampled /\ minis' = [i \in Indices |-> f[i]]
      /\ oversized' = (\E i \in Indices : s > minis[i].max_size)
      /\ present' = [i \in Indices |-> present[i] \cup {k}]
      /\ total_gets' = total_gets /\ current' = current /\ epoch' = epoch
    BY DEF Set, Each
<1>2. ASSUME NEW i \in Indices
      PROVE  /\ MiniAt(f[i], i, epoch)
             /\ MinisHaveRoom /\ MiniTold(minis[i], present[i], oversized)
                    => MiniTold(f[i], present[i] \cup {k}, oversized')
  <2> DEFINE m == MiniInsert(minis[i], k, s)
  <2>1. MiniInv(minis[i]) /\ minis[i].policy = Configured[i] /\ minis[i].hits <= epoch
        /\ minis[i].max_size \in Nat /\ s \in Nat
    <3>1. MiniInv(minis[i]) /\ minis[i].policy = Configured[i] /\ minis[i].hits <= epoch
        BY DEF MinisInv, MiniAt
    <3>2. minis[i].max_size \in MiniSizes /\ MiniSizes \in SUBSET Nat
        BY <3>1, MinisFit DEF MiniInv, Fits
    <3>3. s \in Nat
        BY MinisAssume
    <3> QED
        BY <3>1, <3>2, <3>3
  <2>2. /\ MiniInv(m) /\ m.policy = minis[i].policy /\ m.max_size = minis[i].max_size
        /\ m.hits = minis[i].hits /\ DOMAIN m.sizes \subseteq DOMAIN minis[i].sizes \cup {k}
        /\ ~MayHoldBack(minis[i].policy, MiniSizes) =>
               /\ minis[i].ends => m.ends
               /\ s <= minis[i].max_size => m.used_size <= m.max_size
    BY <1>1, <2>1, MiniInserts
  <2>3. f[i] = m
    OBVIOUS
  <2> HIDE DEF m, f
  <2>4. MiniAt(m, i, epoch)
    BY <2>1, <2>2 DEF MiniAt
  <2>5. ASSUME MinisHaveRoom, MiniTold(minis[i], present[i], oversized)
        PROVE  MiniTold(m, present[i] \cup {k}, oversized')
    <3>1. ~MayHoldBack(minis[i].policy, MiniSizes)
        BY <2>1, <2>5 DEF MinisHaveRoom
    <3>2. oversized' \/ s <= minis[i].max_size
        BY <1>1, <2>1
    <3> QED
        BY <2>2, <2>5, <3>1, <3>2 DEF MiniTold
  <2> QED
    BY <2>3, <2>4, <2>5
<1> HIDE DEF f
<1>3. total_gets' \in Nat /\ epoch' \in Nat /\ current' \in Indices
    BY <1>1 DEF MinisInv
<1>4. MinisInv' /\ ((\A i \in Indices : MiniTold(f[i], present'[i], oversized')) => MinisTold')
    BY <1>1, <1>2, <1>3, AllBecome
<1> QED
    BY <1>1, <1>2, <1>4 DEF MinisTold

LEMMA DelSteps ==
    ASSUME MinisInv, NEW k \in HashedKeys, Del(k)
    PROVE  MinisInv' /\ (MinisTold => MinisTold')
<1> DEFINE f == [i \in Indices |-> MiniRemove(minis[i], k)]
<1>1. /\ minis' = [i \in Indices |-> f[i]] /\ oversized' = oversized
      /\ present' = [i \in Indices |-> present[i] \ {k}]
      /\ total_gets' = total_gets /\ current' = current /\ epoch' = epoch
    BY DEF Del, Each, Gone
<1>2. ASSUME NEW i \in Indices
      PROVE  /\ MiniAt(f[i], i, epoch)
             /\ MiniTold(minis[i], present[i], oversized) => MiniTold(f[i], present[i] \ {k}, oversized)
  <2> DEFINE m == MiniRemove(minis[i], k)
  <2>1. MiniAt(minis[i], i, epoch) /\ epoch \in Nat
    BY DEF MinisInv
  <2>2. /\ MiniInv(m) /\ Shrinks(minis[i], m) /\ m.ends = minis[i].ends
        /\ DOMAIN m.sizes = DOMAIN minis[i].sizes \ {k}
    BY <2>1, MiniRemoves DEF MiniAt
  <2>3. f[i] = m
    OBVIOUS
  <2> HIDE DEF m, f
  <2>4. {k} \cap DOMAIN m.sizes = {}
    BY <2>2
  <2> QED
    BY <2>1, <2>2, <2>3, <2>4, OneLeft
<1> HIDE DEF f
<1>3. total_gets' \in Nat /\ epoch' \in Nat /\ current' \in Indices
    BY <1>1 DEF MinisInv
<1>4. MinisInv' /\ ((\A i \in Indices : MiniTold(f[i], present'[i], oversized')) => MinisTold')
    BY <1>1, <1>2, <1>3, AllBecome
<1> QED
    BY <1>1, <1>2, <1>4 DEF MinisTold

LEMMA SetMaxSizeSteps ==
    ASSUME MinisInv, NEW size \in CacheSizes, SetMaxSize(size)
    PROVE  MinisInv' /\ (MinisHaveRoom /\ MinisTold => MinisTold')
<1> DEFINE f == [i \in Indices |-> MiniResize(minis[i], MiniSize(size))]
<1>1. /\ minis' = [i \in Indices |-> f[i]] /\ present' = present
      /\ total_gets' = total_gets /\ current' = current /\ epoch' = epoch
    BY DEF SetMaxSize, Each
<1>2. ASSUME NEW i \in Indices
      PROVE  /\ MiniAt(f[i], i, epoch)
             /\ MinisHaveRoom /\ MiniTold(minis[i], present[i], oversized)
                    => MiniTold(f[i], present[i], oversized')
  <2> DEFINE m == MiniResize(minis[i], MiniSize(size))
  <2>1. MiniInv(minis[i]) /\ minis[i].policy = Configured[i] /\ minis[i].hits <= epoch
    BY DEF MinisInv, MiniAt
  <2>2. /\ MiniInv(m) /\ m.policy = minis[i].policy
        /\ m.hits = minis[i].hits /\ DOMAIN m.sizes \subseteq DOMAIN minis[i].sizes
        /\ ~MayHoldBack(minis[i].policy, MiniSizes) =>
               m.used_size <= m.max_size /\ (minis[i].ends => m.ends)
    BY <2>1, MiniResizes
  <2>3. f[i] = m
    OBVIOUS
  <2> HIDE DEF m, f
  <2>4. MinisHaveRoom => ~MayHoldBack(minis[i].policy, MiniSizes)
    BY <2>1 DEF MinisHaveRoom
  <2> QED
    BY <2>1, <2>2, <2>3, <2>4 DEF MiniAt, MiniTold
<1> HIDE DEF f
<1>3. total_gets' \in Nat /\ epoch' \in Nat /\ current' \in Indices
    BY <1>1 DEF MinisInv
<1>4. MinisInv' /\ ((\A i \in Indices : MiniTold(f[i], present'[i], oversized')) => MinisTold')
    BY <1>1, <1>2, <1>3, AllBecome
<1> QED
    BY <1>1, <1>2, <1>4 DEF MinisTold

LEMMA WipeSteps ==
    ASSUME MinisInv, Wipe
    PROVE  MinisInv' /\ (MinisTold => MinisTold')
<1> DEFINE f == [i \in Indices |-> MiniClear(minis[i])]
<1>1. /\ minis' = [i \in Indices |-> f[i]] /\ present' = [i \in Indices |-> {}]
      /\ total_gets' = 0 /\ current' = current /\ epoch' = 0
    BY DEF Wipe, Each
<1>2. ASSUME NEW i \in Indices
      PROVE  /\ MiniAt(f[i], i, 0)
             /\ MiniTold(minis[i], present[i], oversized) => MiniTold(f[i], {}, oversized')
  <2> DEFINE m == MiniClear(minis[i])
  <2>1. MiniInv(minis[i]) /\ minis[i].policy = Configured[i]
    BY DEF MinisInv, MiniAt
  <2>2. /\ MiniInv(m) /\ m.policy = minis[i].policy /\ m.sizes = <<>>
        /\ m.max_size = minis[i].max_size /\ m.used_size = 0
        /\ m.hits = 0 /\ m.ends = minis[i].ends
    BY <2>1, MiniClears
  <2>3. f[i] = m
    OBVIOUS
  <2>4. minis[i].max_size \in Nat
    <3>1. minis[i].max_size \in MiniSizes /\ MiniSizes \in SUBSET Nat
        BY <2>1, MinisFit DEF MiniInv, Fits
    <3> QED
        BY <3>1
  <2> HIDE DEF m, f
  <2>5. DOMAIN m.sizes = {} /\ m.used_size <= m.max_size
    BY <2>2, <2>4, NoSizes
  <2> QED
    BY <2>1, <2>2, <2>3, <2>5 DEF MiniAt, MiniTold
<1> HIDE DEF f
<1>3. total_gets' \in Nat /\ epoch' \in Nat /\ current' \in Indices
    BY <1>1 DEF MinisInv
<1>4. MinisInv' /\ ((\A i \in Indices : MiniTold(f[i], present'[i], oversized')) => MinisTold')
    BY <1>1, <1>2, <1>3, AllBecome
<1> QED
    BY <1>1, <1>2, <1>4 DEF MinisTold

\* What the mini stack of the current policy evicts, and what is left of it.
LEMMA CurrentEvicts ==
    ASSUME MinisInv
    PROVE  /\ Index(Configured[current]) = current
           /\ MiniAt(Evicted.mini, current, epoch) /\ MiniInv(Evicted.mini)
           /\ Shrinks(minis[current], Evicted.mini) /\ Evicted.mini.ends = minis[current].ends
           /\ DOMAIN Evicted.mini.sizes = DOMAIN minis[current].sizes \ {Evicted.key}
           /\ MinisHaveRoom /\ Evicted.key = NoKey => DOMAIN Evicted.mini.sizes = {}
<1> DEFINE mini == minis[current]
           e    == MiniEvictOne(mini)
<1>1. current \in Indices /\ Index(Configured[current]) = current
    BY IndexOfCurrent DEF MinisInv
<1>2. Evicted = e
    BY <1>1 DEF Evicted, Evictor
<1>3. MiniAt(mini, current, epoch) /\ MiniInv(mini) /\ epoch \in Nat /\ mini.policy = Configured[current]
    BY <1>1 DEF MinisInv, MiniAt
<1> HIDE DEF mini
<1>4. /\ MiniInv(e.mini) /\ Shrinks(mini, e.mini)
      /\ e.mini.ends = mini.ends
      /\ e.key = EvictOne(mini.policy, mini.stack).key
      /\ DOMAIN e.mini.sizes = DOMAIN mini.sizes \ {e.key}
    BY <1>3, MiniEvicts
<1> HIDE DEF e
<1>5. MiniAt(e.mini, current, epoch)
    BY <1>3, <1>4, OneLeft
<1>6. ASSUME MinisHaveRoom, e.key = NoKey PROVE DOMAIN e.mini.sizes = {}
  <2>1. ~MayHoldBack(mini.policy, MiniSizes)
    BY <1>1, <1>3, <1>6 DEF MinisHaveRoom
  <2>2. KeysIn(mini.policy, mini.stack) = {}
    BY <1>3, <1>4, <1>6, <2>1, MinisFit, EvictNames DEF MiniInv
  <2> QED
    BY <1>3, <1>4, <2>2 DEF MiniInv
<1> QED
    BY <1>1, <1>2, <1>4, <1>5, <1>6 DEF mini

LEMMA EvictMiniSteps ==
    ASSUME MinisInv, NEW k \in HashedKeys, EvictMini(k)
    PROVE  MinisInv' /\ (MinisHaveRoom /\ MinisTold => MinisTold')
<1> DEFINE left == Evicted.mini
           f    == [j \in Indices |-> IF j = current THEN left ELSE MiniRemove(minis[j], k)]
<1>1. /\ Index(Configured[current]) = current
      /\ MiniAt(left, current, epoch) /\ MiniInv(left)
      /\ Shrinks(minis[current], left) /\ left.ends = minis[current].ends
      /\ DOMAIN left.sizes = DOMAIN minis[current].sizes \ {Evicted.key}
      /\ MinisHaveRoom /\ Evicted.key = NoKey => DOMAIN left.sizes = {}
    BY CurrentEvicts
<1>2. /\ Evicted.key \in {k, NoKey} /\ minis' = [i \in Indices |-> f[i]]
      /\ present' = [i \in Indices |-> present[i] \ {k}]
      /\ total_gets' = total_gets /\ current' = current /\ epoch' = epoch
      /\ oversized' = oversized
    BY <1>1 DEF EvictMini, Others, Gone, Evictor
<1> HIDE DEF left
<1>3. ASSUME NEW i \in Indices
      PROVE  /\ MiniAt(f[i], i, epoch)
             /\ MinisHaveRoom /\ MiniTold(minis[i], present[i], oversized)
                    => MiniTold(f[i], present[i] \ {k}, oversized)
  <2> DEFINE m == IF i = current THEN left ELSE MiniRemove(minis[i], k)
  <2>1. MiniAt(minis[i], i, epoch) /\ epoch \in Nat
    BY DEF MinisInv
  <2>2. /\ MiniInv(m) /\ Shrinks(minis[i], m) /\ m.ends = minis[i].ends
        /\ MinisHaveRoom => {k} \cap DOMAIN m.sizes = {}
    <3>1. CASE i = current
        BY <1>1, <1>2, <3>1
    <3>2. CASE i # current
      <4> DEFINE r == MiniRemove(minis[i], k)
      <4>1. /\ MiniInv(r) /\ Shrinks(minis[i], r) /\ r.ends = minis[i].ends
            /\ DOMAIN r.sizes = DOMAIN minis[i].sizes \ {k}
        BY <2>1, MiniRemoves DEF MiniAt
      <4>2. m = r
        BY <3>2
      <4> HIDE DEF m, r
      <4> QED
        BY <4>1, <4>2
    <3> QED
        BY <3>1, <3>2
  <2>3. f[i] = m
    OBVIOUS
  <2> HIDE DEF m, f
  <2> QED
    BY <2>1, <2>2, <2>3, OneLeft
<1> HIDE DEF f
<1>4. total_gets' \in Nat /\ epoch' \in Nat /\ current' \in Indices
    BY <1>2 DEF MinisInv
<1>5. MinisInv' /\ ((\A i \in Indices : MiniTold(f[i], present'[i], oversized')) => MinisTold')
    BY <1>2, <1>3, <1>4, AllBecome
<1> QED
    BY <1>2, <1>3, <1>5 DEF MinisTold

\* An eviction of which only the mini stack that evicts is told.
LEMMA OneEvicts ==
    ASSUME MinisInv, NEW gone, minis' = [minis EXCEPT ![current] = Evicted.mini],
           total_gets' = total_gets, current' = current, epoch' = epoch,
           oversized' = oversized,
           \A i \in Indices : present'[i] = IF i = current THEN present[i] \ gone ELSE present[i]
    PROVE  /\ MinisInv'
           /\ MinisTold /\ gone \cap DOMAIN Evicted.mini.sizes = {} => MinisTold'
<1> DEFINE left == Evicted.mini
           f    == [j \in Indices |-> IF j = current THEN left ELSE minis[j]]
<1>1. /\ MiniAt(left, current, epoch) /\ MiniInv(left)
      /\ Shrinks(minis[current], left) /\ left.ends = minis[current].ends
    BY CurrentEvicts
<1> HIDE DEF left
<1>2. minis' = [i \in Indices |-> f[i]]
  <2>1. minis = [i \in Indices |-> minis[i]]
    BY DEF MinisInv
  <2>2. DOMAIN minis = Indices
    BY <2>1
  <2> QED
    BY <2>2 DEF left
<1>3. ASSUME NEW i \in Indices
      PROVE  /\ MiniAt(f[i], i, epoch)
             /\ MiniTold(minis[i], present[i], oversized) /\ gone \cap DOMAIN left.sizes = {}
                    => MiniTold(f[i], present'[i], oversized)
  <2>1. MiniAt(minis[i], i, epoch) /\ epoch \in Nat
    BY DEF MinisInv
  <2>2. CASE i = current
    <3>1. f[i] = left /\ present'[i] = present[i] \ gone
        BY <2>2
    <3> HIDE DEF f
    <3> QED
        BY <1>1, <2>1, <2>2, <3>1, OneLeft
  <2>3. CASE i # current
    BY <2>1, <2>3
  <2> QED
    BY <2>2, <2>3
<1> HIDE DEF f
<1>4. total_gets' \in Nat /\ epoch' \in Nat /\ current' \in Indices
    BY DEF MinisInv
<1>5. MinisInv' /\ ((\A i \in Indices : MiniTold(f[i], present'[i], oversized')) => MinisTold')
    BY <1>2, <1>3, <1>4, AllBecome
<1> QED
    BY <1>3, <1>5 DEF MinisTold, left

\* The one that evicts is told of an expired object, which no longer matters to it.
LEMMA EvictExpiredSteps ==
    ASSUME MinisInv, NEW k \in HashedKeys, EvictExpired(k)
    PROVE  MinisInv' /\ (MinisHaveRoom /\ MinisTold => MinisTold')
<1> DEFINE left == Evicted.mini
<1>1. /\ Index(Configured[current]) = current
      /\ DOMAIN left.sizes = DOMAIN minis[current].sizes \ {Evicted.key}
      /\ MinisHaveRoom /\ Evicted.key = NoKey => DOMAIN left.sizes = {}
    BY CurrentEvicts
<1>2. /\ Evicted.key \in {k, NoKey} /\ minis' = [minis EXCEPT ![current] = left]
      /\ present' = [i \in Indices |-> IF i = current THEN present[i] \ {k} ELSE present[i]]
      /\ total_gets' = total_gets /\ current' = current /\ epoch' = epoch
      /\ oversized' = oversized
    BY <1>1 DEF EvictExpired, Gone, Evictor
<1> HIDE DEF left
<1>3. MinisHaveRoom => {k} \cap DOMAIN left.sizes = {}
    BY <1>1, <1>2
<1> QED
    BY <1>2, <1>3, OneEvicts DEF left

LEMMA EvictAbsentSteps ==
    ASSUME MinisInv, EvictAbsent
    PROVE  MinisInv' /\ (MinisTold => MinisTold')
<1> DEFINE none == {}
<1>1. Index(Configured[current]) = current
    BY CurrentEvicts
<1>2. /\ minis' = [minis EXCEPT ![current] = Evicted.mini] /\ present' = present
      /\ total_gets' = total_gets /\ current' = current /\ epoch' = epoch
      /\ oversized' = oversized
    BY <1>1 DEF EvictAbsent, Evictor
<1>3. \A i \in Indices : present'[i] = IF i = current THEN present[i] \ none ELSE present[i]
    BY <1>2
<1>4. none \cap DOMAIN Evicted.mini.sizes = {}
    OBVIOUS
<1> HIDE DEF none
<1> QED
    BY <1>2, <1>3, <1>4, OneEvicts

LEMMA ChooseSteps ==
    ASSUME MinisInv, NEW i \in Indices, Choose(i)
    PROVE  MinisInv' /\ (MinisTold => MinisTold')
  BY DEF Choose, MinisInv, MinisTold

LEMMA AutoPolicySteps ==
    ASSUME MinisInv, AutoPolicy
    PROVE  MinisInv' /\ (MinisTold => MinisTold')
<1> DEFINE f == [i \in Indices |-> [minis[i] EXCEPT !.hits = 0]]
<1>1. /\ minis' = [i \in Indices |-> f[i]] /\ present' = present /\ oversized' = oversized
      /\ total_gets' = total_gets /\ current' = Preferred /\ epoch' = 0
    BY DEF AutoPolicy, ClearCounters, Each
<1>2. ASSUME NEW i \in Indices
      PROVE  /\ MiniAt(f[i], i, 0)
             /\ MiniTold(minis[i], present[i], oversized) => MiniTold(f[i], present[i], oversized)
  <2> DEFINE m == [minis[i] EXCEPT !.hits = 0]
  <2>1. MiniInv(minis[i]) /\ minis[i].policy = Configured[i]
    BY DEF MinisInv, MiniAt
  <2>2. /\ MiniInv(m) /\ m.policy = minis[i].policy /\ m.sizes = minis[i].sizes
        /\ m.max_size = minis[i].max_size /\ m.used_size = minis[i].used_size
        /\ m.hits = 0 /\ m.ends = minis[i].ends
    BY <2>1, MiniHitsCleared
  <2>3. f[i] = m
    OBVIOUS
  <2> HIDE DEF m, f
  <2> QED
    BY <2>1, <2>2, <2>3 DEF MiniAt, MiniTold
<1> HIDE DEF f
<1>3. Preferred \in Indices
  <2>1. Optimal \in Indices /\ current \in Indices
    BY OptimumExists DEF MinisInv
  <2> QED
    BY <2>1 DEF Preferred
<1>4. total_gets' \in Nat /\ epoch' \in Nat /\ current' \in Indices
    BY <1>1, <1>3 DEF MinisInv
<1>5. MinisInv' /\ ((\A i \in Indices : MiniTold(f[i], present'[i], oversized')) => MinisTold')
    BY <1>1, <1>2, <1>4, AllBecome
<1> QED
    BY <1>1, <1>2, <1>5 DEF MinisTold

LEMMA MinisStep ==
    ASSUME MinisInv, [Next]_vars
    PROVE  MinisInv' /\ (MinisHaveRoom /\ MinisTold => MinisTold')
<1>1. ASSUME NEW k \in HashedKeys, Get(k) \/ Del(k) \/ EvictMini(k) \/ EvictExpired(k)
      PROVE  MinisInv' /\ (MinisHaveRoom /\ MinisTold => MinisTold')
    BY <1>1, GetSteps, DelSteps, EvictMiniSteps, EvictExpiredSteps
<1>2. ASSUME NEW k \in HashedKeys, NEW s \in ObjectSizes, Set(k, s)
      PROVE  MinisInv' /\ (MinisHaveRoom /\ MinisTold => MinisTold')
    BY <1>2, SetSteps
<1>3. ASSUME NEW size \in CacheSizes, SetMaxSize(size)
      PROVE  MinisInv' /\ (MinisHaveRoom /\ MinisTold => MinisTold')
    BY <1>3, SetMaxSizeSteps
<1>4. ASSUME NEW i \in Indices, Choose(i)
      PROVE  MinisInv' /\ (MinisHaveRoom /\ MinisTold => MinisTold')
    BY <1>4, ChooseSteps
<1>5. CASE Wipe \/ EvictAbsent \/ AutoPolicy
    BY <1>5, WipeSteps, EvictAbsentSteps, AutoPolicySteps
<1>6. CASE UNCHANGED vars
    BY <1>6 DEF vars, MinisInv, MinisTold
<1> QED
    BY <1>1, <1>2, <1>3, <1>4, <1>5, <1>6 DEF Next

LEMMA MinisStaySound == Spec => []MinisInv
<1>1. MinisInv /\ [Next]_vars => MinisInv'
    BY MinisStep
<1> QED
    BY <1>1, MinisStart, PTL DEF Spec

LEMMA MinisStayTold == MinisHaveRoom => (Spec => []MinisTold)
<1> SUFFICES ASSUME MinisHaveRoom PROVE Spec => []MinisTold
    OBVIOUS
<1>1. MinisInv /\ MinisTold /\ [Next]_vars => MinisTold'
    BY MinisStep
<1> QED
    BY <1>1, MinisStart, MinisStaySound, PTL DEF Spec

-----------------------------------------------------------------------------
(***************************************************************************)
(* Theorems                                                                *)
(***************************************************************************)

\* The used size of a mini stack is the sum of the sizes it keeps, all of them of
\* sampled keys in its stack, whatever the policies, the sizes and the calls
\* (mini_stack/mod.rs).
THEOREM MiniSizesAreSums == Spec => []MiniSizesKept
<1>1. MinisInv => MiniSizesKept
  <2> SUFFICES ASSUME MinisInv, NEW i \in Indices
               PROVE  /\ minis[i].used_size
                             = Bounded!Total(minis[i].sizes, DOMAIN minis[i].sizes, Modulus)
                      /\ DOMAIN minis[i].sizes
                             \subseteq Sampled \cap KeysIn(minis[i].policy, minis[i].stack)
    BY DEF MiniSizesKept
  <2>1. MiniInv(minis[i])
    BY DEF MinisInv, MiniAt
  <2> QED
    BY <2>1 DEF MiniInv, SizesOK
<1> QED
    BY <1>1, MinisStaySound, PTL

\* A poll counts no hit of an earlier epoch (manager.rs:156).
THEOREM HitsAreOfTheirEpoch == Spec => []HitsOfEpoch
<1>1. MinisInv => HitsOfEpoch
    BY DEF MinisInv, MiniAt, HitsOfEpoch
<1> QED
    BY <1>1, MinisStaySound, PTL

\* The auto policy finds an optimum, and leaves the current policy only for one
\* whose mini stack had more hits since the last poll (manager.rs:149).
THEOREM AutoPolicyImproves == Spec => SwitchesToBetter
<1>1. MinisInv /\ [Next]_vars =>
          (AutoPolicy /\ current' # current => minis[current'].hits > minis[current].hits)
  <2> SUFFICES ASSUME MinisInv, AutoPolicy, current' # current
               PROVE  minis[current'].hits > minis[current].hits
    OBVIOUS
  <2>1. current \in Indices /\ Index(Configured[current]) = current /\ Optimal \in Indices
    BY IndexOfCurrent, OptimumExists DEF MinisInv
  <2>2. current' = Optimal /\ HitShare(minis[Optimal]) > HitShare(minis[current])
    BY <2>1 DEF AutoPolicy, Preferred
  <2>3. minis[Optimal].hits \in Nat /\ minis[current].hits \in Nat /\ total_gets \in Nat
    BY <2>1 DEF MinisInv, MiniAt, MiniInv
  <2> QED
    BY <2>2, <2>3, MoreHits
<1> QED
    BY <1>1, MinisStaySound, PTL DEF Spec, SwitchesToBetter

\* With room in every mini stack, the loop of reduce ends: a stack with a size to
\* give up names a key, and no more turns are needed than there are keys and one
\* (mini_stack/mod.rs:72).
THEOREM EveryReduceEnds == MinisHaveRoom => (Spec => []ReduceEnds)
<1>1. MinisTold => ReduceEnds
    BY DEF MinisTold, MiniTold, ReduceEnds
<1> QED
    BY <1>1, MinisStayTold, PTL

\* ... and it leaves the mini stack no larger than its size, unless the last key set
\* was larger than all of it (mini_stack/mod.rs:99, :125).
THEOREM MinisFitTheirSize == MinisHaveRoom => (Spec => []MiniFits)
<1>1. MinisTold => MiniFits
    BY DEF MinisTold, MiniTold, MiniFits
<1> QED
    BY <1>1, MinisStayTold, PTL

\* With room, a mini stack that names no key has none, so that the one that evicts
\* keeps nothing of what was erased, expired or not, and none keeps a key it was told
\* is gone: removed, wiped, or evicted by another (manager.rs apply_evictions).
THEOREM MinisKeepNoToldKey == MinisHaveRoom => (Spec => []GoneOnceTold)
<1>1. MinisTold => GoneOnceTold
    BY DEF MinisTold, MiniTold, GoneOnceTold
<1> QED
    BY <1>1, MinisStayTold, PTL

================================================================================
