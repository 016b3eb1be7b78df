----------------------------- MODULE StacksProofs ------------------------------
(***************************************************************************)
(* What the calls of the nine eviction stacks do to the keys they hold.    *)
(***************************************************************************)
EXTENDS Stacks, FiniteSets, FiniteSetTheorems, SequenceTheorems, TLAPS

Lists == INSTANCE SizedStacks
Lemmas == INSTANCE DataLemmas

-----------------------------------------------------------------------------
(***************************************************************************)
(* Lists of keys                                                           *)
(***************************************************************************)

\* A list that holds no key twice.
Once(s) == Lists!NoRepeats(s)

LEMMA ConcatAt ==
    ASSUME NEW S, NEW s \in Seq(S), NEW t \in Seq(S)
    PROVE  /\ s \o t \in Seq(S) /\ Len(s \o t) = Len(s) + Len(t)
           /\ \A i \in 1 .. Len(s) : (s \o t)[i] = s[i]
           /\ \A i \in 1 .. Len(t) : (s \o t)[Len(s) + i] = t[i]
  OBVIOUS

\* What is in one list or another.
LEMMA ConcatHolds ==
    ASSUME NEW S, NEW s \in Seq(S), NEW t \in Seq(S)
    PROVE  /\ s \o t \in Seq(S)
           /\ Lists!Elements(s \o t) = Lists!Elements(s) \cup Lists!Elements(t)
           /\ Once(s \o t) <=> /\ Once(s) /\ Once(t)
                               /\ Lists!Elements(s) \cap Lists!Elements(t) = {}
<1> DEFINE u == s \o t
           m == Len(s)
           n == Len(t)
<1>1. /\ u \in Seq(S) /\ m \in Nat /\ n \in Nat /\ Len(u) = m + n
      /\ DOMAIN s = 1 .. m /\ DOMAIN t = 1 .. n /\ DOMAIN u = 1 .. m + n
      /\ \A i \in 1 .. m : u[i] = s[i]
      /\ \A i \in 1 .. n : u[m + i] = t[i]
    OBVIOUS
<1> HIDE DEF u, m, n
<1>2. \A i \in 1 .. m + n : i \in 1 .. m \/ \E j \in 1 .. n : i = m + j
  <2> SUFFICES ASSUME NEW i \in 1 .. m + n, i \notin 1 .. m PROVE \E j \in 1 .. n : i = m + j
    OBVIOUS
  <2>1. i - m \in 1 .. n /\ i = m + (i - m)
    BY <1>1
  <2> QED
    BY <2>1
<1>3. /\ 1 .. m \subseteq 1 .. m + n
      /\ \A i \in 1 .. n : m + i \in 1 .. m + n /\ m + i \notin 1 .. m
    BY <1>1
<1>4. Lists!Elements(u) = Lists!Elements(s) \cup Lists!Elements(t)
  <2>1. ASSUME NEW i \in 1 .. m + n PROVE u[i] \in Lists!Elements(s) \cup Lists!Elements(t)
    BY <1>1, <1>2 DEF Lists!Elements
  <2>2. \A i \in 1 .. m : s[i] \in Lists!Elements(u)
    BY <1>1, <1>3 DEF Lists!Elements
  <2>3. \A i \in 1 .. n : t[i] \in Lists!Elements(u)
    BY <1>1, <1>3 DEF Lists!Elements
  <2> QED
    BY <1>1, <2>1, <2>2, <2>3 DEF Lists!Elements
<1>5. ASSUME Once(u)
      PROVE  Once(s) /\ Once(t) /\ Lists!Elements(s) \cap Lists!Elements(t) = {}
  <2>1. \A i, j \in 1 .. m + n : u[i] = u[j] => i = j
    BY <1>1, <1>5 DEF Once, Lists!NoRepeats
  <2>2. Once(s)
    BY <1>1, <1>3, <2>1 DEF Once, Lists!NoRepeats
  <2>3. Once(t)
    <3> SUFFICES ASSUME NEW i \in 1 .. n, NEW j \in 1 .. n, t[i] = t[j] PROVE i = j
        BY <1>1 DEF Once, Lists!NoRepeats
    <3>1. m + i = m + j
        BY <1>1, <1>3, <2>1
    <3> QED
        BY <1>1, <3>1
  <2>4. ASSUME NEW i \in 1 .. m, NEW j \in 1 .. n PROVE s[i] # t[j]
    <3>1. i \in 1 .. m + n /\ m + j \in 1 .. m + n /\ m + j \notin 1 .. m
        BY <1>3
    <3> QED
        BY <1>1, <2>1, <3>1
  <2> QED
    BY <1>1, <2>2, <2>3, <2>4 DEF Lists!Elements
<1>6. ASSUME Once(s), Once(t), Lists!Elements(s) \cap Lists!Elements(t) = {}
      PROVE  Once(u)
  <2>1. \A i \in 1 .. m, j \in 1 .. n : s[i] # t[j]
    BY <1>1, <1>6 DEF Lists!Elements
  <2>2. ASSUME NEW i \in 1 .. m + n, NEW j \in 1 .. m + n, u[i] = u[j] PROVE i = j
    <3>1. CASE i \in 1 .. m /\ j \in 1 .. m
        BY <1>1, <1>6, <2>2, <3>1 DEF Once, Lists!NoRepeats
    <3>2. CASE i \in 1 .. m /\ j \notin 1 .. m
        <4>1. PICK b \in 1 .. n : j = m + b
            BY <1>2, <3>2
        <4>2. u[i] = s[i] /\ u[j] = t[b]
            BY <1>1, <3>2, <4>1
        <4> QED
            BY <2>1, <2>2, <3>2, <4>2
    <3>3. CASE i \notin 1 .. m /\ j \in 1 .. m
        <4>1. PICK a \in 1 .. n : i = m + a
            BY <1>2, <3>3
        <4>2. u[j] = s[j] /\ u[i] = t[a]
            BY <1>1, <3>3, <4>1
        <4> QED
            BY <2>1, <2>2, <3>3, <4>2
    <3>4. CASE i \notin 1 .. m /\ j \notin 1 .. m
        <4>1. PICK a \in 1 .. n, b \in 1 .. n : i = m + a /\ j = m + b
            BY <1>2, <3>4
        <4>2. a = b
            BY <1>1, <1>6, <2>2, <4>1 DEF Once, Lists!NoRepeats
        <4> QED
            BY <4>1, <4>2
    <3> QED
        BY <3>1, <3>2, <3>3, <3>4
  <2> QED
    BY <1>1, <2>2 DEF Once, Lists!NoRepeats
<1> QED
    BY <1>1, <1>4, <1>5, <1>6 DEF u

\* An empty list, and a list of one.
LEMMA EmptyHolds == Lists!Elements(<<>>) = {} /\ Once(<<>>)
  BY DEF Lists!Elements, Once, Lists!NoRepeats

LEMMA OneHolds ==
    ASSUME NEW S, NEW k \in S
    PROVE  <<k>> \in Seq(S) /\ Lists!Elements(<<k>>) = {k} /\ Once(<<k>>)
  BY DEF Lists!Elements, Once, Lists!NoRepeats

\* A list is its first n entries, and the rest; ...
LEMMA SplitAfter ==
    ASSUME NEW S, NEW s \in Seq(S), NEW n \in 0 .. Len(s)
    PROVE  /\ SubSeq(s, 1, n) \in Seq(S) /\ SubSeq(s, n + 1, Len(s)) \in Seq(S)
           /\ s = SubSeq(s, 1, n) \o SubSeq(s, n + 1, Len(s))
<1> DEFINE a == SubSeq(s, 1, n)
           b == SubSeq(s, n + 1, Len(s))
<1>1. /\ Len(s) \in Nat /\ n \in Nat
      /\ a \in Seq(S) /\ Len(a) = n /\ \A i \in 1 .. n : a[i] = s[i]
    OBVIOUS
<1>2. b \in Seq(S) /\ Len(b) = Len(s) - n /\ \A i \in 1 .. Len(s) - n : b[i] = s[n + i]
    BY <1>1
<1> HIDE DEF a, b
<1>3. /\ a \o b \in Seq(S) /\ Len(a \o b) = Len(s)
      /\ \A i \in 1 .. n : (a \o b)[i] = a[i]
      /\ \A i \in 1 .. Len(s) - n : (a \o b)[n + i] = b[i]
    BY <1>1, <1>2
<1>4. ASSUME NEW i \in 1 .. Len(s) PROVE (a \o b)[i] = s[i]
  <2>1. CASE i <= n
    BY <1>1, <1>3, <2>1
  <2>2. CASE i > n
    <3>1. i - n \in 1 .. Len(s) - n /\ n + (i - n) = i
        BY <1>1, <2>2
    <3>2. (a \o b)[n + (i - n)] = s[n + (i - n)]
        BY <1>2, <1>3, <3>1
    <3> QED
        BY <3>1, <3>2
  <2>3. i <= n \/ i > n
    BY <1>1
  <2> QED
    BY <2>1, <2>2, <2>3, Zenon
<1>5. a \o b = s
    BY <1>3, <1>4, SeqEqual
<1> QED
    BY <1>1, <1>2, <1>5 DEF a, b

LEMMA LastAlone ==
    ASSUME NEW S, NEW s \in Seq(S), s # <<>>
    PROVE  SubSeq(s, (Len(s) - 1) + 1, Len(s)) = <<s[Len(s)]>>
<1> DEFINE n == Len(s)
           d == SubSeq(s, n, n)
<1>1. n \in Nat \ {0} /\ (n - 1) + 1 = n
    OBVIOUS
<1>2. d \in Seq(S) /\ Len(d) = 1 /\ d[1] = s[n]
    BY <1>1
<1> HIDE DEF d, n
<1>3. d = <<s[n]>>
    BY <1>2
<1> QED
    BY <1>1, <1>3 DEF d, n

\* ... at one of its entries, it is what is in front of it, the entry, and what is behind.
LEMMA SplitAt ==
    ASSUME NEW S, NEW s \in Seq(S), NEW i \in 1 .. Len(s)
    PROVE  /\ SubSeq(s, 1, i - 1) \in Seq(S) /\ SubSeq(s, i + 1, Len(s)) \in Seq(S)
           /\ s = (SubSeq(s, 1, i - 1) \o <<s[i]>>) \o SubSeq(s, i + 1, Len(s))
<1> DEFINE a == SubSeq(s, 1, i - 1)
           b == SubSeq(s, i + 1, Len(s))
           c == SubSeq(s, 1, i)
<1>1. i \in Nat /\ Len(s) \in Nat /\ i - 1 \in 0 .. Len(s) /\ i \in 0 .. Len(s)
    OBVIOUS
<1>2. a \in Seq(S) /\ b \in Seq(S) /\ c \in Seq(S) /\ s = c \o b
    BY <1>1, SplitAfter
<1>3. c = a \o <<s[i]>>
  <2>1. i - 1 \in 0 .. Len(c) /\ Len(c) = i
    BY <1>1
  <2>2. c = SubSeq(c, 1, i - 1) \o SubSeq(c, (i - 1) + 1, Len(c))
    BY <1>2, <2>1, SplitAfter
  <2>3. SubSeq(c, 1, i - 1) = a
    BY <1>1
  <2>4. SubSeq(c, (i - 1) + 1, Len(c)) = <<s[i]>>
    <3>1. c # <<>> /\ c[i] = s[i]
        BY <1>1, <2>1
    <3> HIDE DEF c
    <3> QED
        BY <1>2, <2>1, <3>1, LastAlone
  <2> QED
    BY <2>2, <2>3, <2>4
<1> QED
    BY <1>2, <1>3

\* Around its i-th entry, a list is what is left without it.
Around(s, i, S) ==
    \E a, b \in Seq(S) : s = (a \o <<s[i]>>) \o b /\ Lists!WithoutAt(s, i) = a \o b

LEMMA SplitAround ==
    ASSUME NEW S, NEW s \in Seq(S), NEW i \in 1 .. Len(s)
    PROVE  Around(s, i, S)
  BY SplitAt DEF Around, Lists!WithoutAt

\* Each entry of a list is in one place, and taken out there.
LEMMA WithoutAtHolds ==
    ASSUME NEW S, NEW s \in Seq(S), NEW i \in 1 .. Len(s)
    PROVE  /\ s[i] \in S /\ Lists!WithoutAt(s, i) \in Seq(S)
           /\ Lists!Elements(s) = Lists!Elements(Lists!WithoutAt(s, i)) \cup {s[i]}
           /\ Once(s) => /\ Once(Lists!WithoutAt(s, i))
                         /\ s[i] \notin Lists!Elements(Lists!WithoutAt(s, i))
<1>0. PICK a, b \in Seq(S) :
          s = (a \o <<s[i]>>) \o b /\ Lists!WithoutAt(s, i) = a \o b
  <2>1. Around(s, i, S)
    BY SplitAround
  <2> QED
    BY <2>1, Zenon DEF Around
<1> DEFINE x == s[i]
<1>1. s = (a \o <<x>>) \o b /\ Lists!WithoutAt(s, i) = a \o b
    BY <1>0
<1>2. x \in S
    OBVIOUS
<1> HIDE DEF x
<1>3. <<x>> \in Seq(S) /\ Lists!Elements(<<x>>) = {x} /\ Once(<<x>>)
    BY <1>2, OneHolds
<1>4. /\ a \o <<x>> \in Seq(S)
      /\ Lists!Elements(a \o <<x>>) = Lists!Elements(a) \cup {x}
      /\ Once(a \o <<x>>) <=> Once(a) /\ Lists!Elements(a) \cap {x} = {}
    BY <1>3, ConcatHolds
<1> DEFINE c == a \o <<x>>
<1>5. /\ Lists!Elements(c \o b) = Lists!Elements(c) \cup Lists!Elements(b)
      /\ Once(c \o b) <=> Once(c) /\ Once(b) /\ Lists!Elements(c) \cap Lists!Elements(b) = {}
  <2> HIDE DEF c
  <2>1. c \in Seq(S)
    BY <1>4 DEF c
  <2> QED
    BY <2>1, ConcatHolds
<1>6. /\ a \o b \in Seq(S) /\ Lists!Elements(a \o b) = Lists!Elements(a) \cup Lists!Elements(b)
      /\ Once(a \o b) <=> Once(a) /\ Once(b) /\ Lists!Elements(a) \cap Lists!Elements(b) = {}
    BY ConcatHolds
<1> HIDE DEF c
<1> DEFINE w == a \o b
<1>7. s = c \o b /\ Lists!WithoutAt(s, i) = w /\ w \in Seq(S)
    BY <1>1, <1>6 DEF c
<1>8. /\ Lists!Elements(c) = Lists!Elements(a) \cup {x}
      /\ Once(c) <=> Once(a) /\ Lists!Elements(a) \cap {x} = {}
    BY <1>4 DEF c
<1>9. /\ Lists!Elements(w) = Lists!Elements(a) \cup Lists!Elements(b)
      /\ Once(w) <=> Once(a) /\ Once(b) /\ Lists!Elements(a) \cap Lists!Elements(b) = {}
    BY <1>6
<1>10. Lists!Elements(c \o b) = Lists!Elements(w) \cup {x}
    BY <1>5, <1>8, <1>9
<1>11. Once(c \o b) => Once(w) /\ x \notin Lists!Elements(w)
    BY <1>5, <1>8, <1>9
<1> HIDE DEF w
<1> QED
    BY <1>2, <1>7, <1>10, <1>11 DEF x

\* push_front.
LEMMA PushHolds ==
    ASSUME NEW S, NEW s \in Seq(S), NEW k \in S
    PROVE  /\ <<k>> \o s \in Seq(S)
           /\ Lists!Elements(<<k>> \o s) = {k} \cup Lists!Elements(s)
           /\ Once(<<k>> \o s) <=> Once(s) /\ k \notin Lists!Elements(s)
<1>1. <<k>> \in Seq(S) /\ Lists!Elements(<<k>>) = {k} /\ Once(<<k>>)
    BY OneHolds
<1> DEFINE o == <<k>>
<1>2. o \in Seq(S) /\ Lists!Elements(o) = {k} /\ Once(o)
    BY <1>1
<1> HIDE DEF o
<1>3. /\ o \o s \in Seq(S) /\ Lists!Elements(o \o s) = Lists!Elements(o) \cup Lists!Elements(s)
      /\ Once(o \o s) <=> Once(o) /\ Once(s) /\ Lists!Elements(o) \cap Lists!Elements(s) = {}
    BY <1>2, ConcatHolds
<1>4. Once(o \o s) <=> Once(s) /\ k \notin Lists!Elements(s)
    BY <1>2, <1>3
<1> QED
    BY <1>2, <1>3, <1>4 DEF o

\* pop_back: the back goes, ...
LEMMA BackHolds ==
    ASSUME NEW S, NEW s \in Seq(S), s # <<>>
    PROVE  /\ Lists!Back(s) \in S /\ Lists!WithoutBack(s) \in Seq(S)
           /\ s = Lists!WithoutBack(s) \o <<Lists!Back(s)>>
           /\ Lists!Elements(s) = Lists!Elements(Lists!WithoutBack(s)) \cup {Lists!Back(s)}
           /\ Once(s) => /\ Once(Lists!WithoutBack(s))
                         /\ Lists!Back(s) \notin Lists!Elements(Lists!WithoutBack(s))
<1> DEFINE a == Lists!WithoutBack(s)
           x == Lists!Back(s)
<1>1. Len(s) \in Nat \ {0} /\ Len(s) - 1 \in 0 .. Len(s)
    OBVIOUS
<1>2. x \in S
    BY <1>1 DEF Lists!Back
<1>3. a \in Seq(S) /\ s = a \o SubSeq(s, (Len(s) - 1) + 1, Len(s))
    BY <1>1, SplitAfter DEF Lists!WithoutBack
<1>4. SubSeq(s, (Len(s) - 1) + 1, Len(s)) = <<x>>
    BY LastAlone DEF Lists!Back
<1>5. s = a \o <<x>>
    BY <1>3, <1>4
<1> HIDE DEF a, x
<1>6. <<x>> \in Seq(S) /\ Lists!Elements(<<x>>) = {x} /\ Once(<<x>>)
    BY <1>2, OneHolds
<1>7. /\ Lists!Elements(a \o <<x>>) = Lists!Elements(a) \cup {x}
      /\ Once(a \o <<x>>) <=> Once(a) /\ Lists!Elements(a) \cap {x} = {}
    BY <1>3, <1>6, ConcatHolds
<1> QED
    BY <1>2, <1>3, <1>5, <1>7 DEF a, x

\* ... or the front.
LEMMA FrontHolds ==
    ASSUME NEW S, NEW s \in Seq(S), s # <<>>
    PROVE  /\ Head(s) \in S /\ Tail(s) \in Seq(S)
           /\ Lists!Elements(s) = Lists!Elements(Tail(s)) \cup {Head(s)}
           /\ Once(s) => Once(Tail(s)) /\ Head(s) \notin Lists!Elements(Tail(s))
<1> DEFINE t == Tail(s)
           x == Head(s)
<1>1. x \in S /\ t \in Seq(S) /\ s = <<x>> \o t
    OBVIOUS
<1> HIDE DEF t, x
<1>2. /\ Lists!Elements(<<x>> \o t) = {x} \cup Lists!Elements(t)
      /\ Once(<<x>> \o t) <=> Once(t) /\ x \notin Lists!Elements(t)
    BY <1>1, PushHolds
<1> QED
    BY <1>1, <1>2 DEF t, x

\* remove: if the list holds the key, its entry is taken out.
LEMMA OmitHolds ==
    ASSUME NEW S, NEW s \in Seq(S), NEW k
    PROVE  /\ Lists!Omit(s, k) \in Seq(S)
           /\ Lists!Elements(s) \ {k} \subseteq Lists!Elements(Lists!Omit(s, k))
           /\ Lists!Elements(Lists!Omit(s, k)) \subseteq Lists!Elements(s)
           /\ Once(s) => Once(Lists!Omit(s, k)) /\ k \notin Lists!Elements(Lists!Omit(s, k))
<1>1. CASE Lists!Has(s, k)
  <2> DEFINE i == CHOOSE i \in DOMAIN s : s[i] = k
  <2>1. i \in 1 .. Len(s) /\ s[i] = k
    BY <1>1 DEF Lists!Has, Lists!Elements
  <2>2. Lists!Omit(s, k) = Lists!WithoutAt(s, i)
    BY <1>1 DEF Lists!Omit
  <2> HIDE DEF i
  <2>3. /\ Lists!WithoutAt(s, i) \in Seq(S)
        /\ Lists!Elements(s) = Lists!Elements(Lists!WithoutAt(s, i)) \cup {k}
        /\ Once(s) => /\ Once(Lists!WithoutAt(s, i))
                      /\ k \notin Lists!Elements(Lists!WithoutAt(s, i))
    BY <2>1, WithoutAtHolds
  <2> QED
    BY <2>2, <2>3
<1>2. CASE ~Lists!Has(s, k)
    BY <1>2 DEF Lists!Omit, Lists!Has
<1> QED
    BY <1>1, <1>2

-----------------------------------------------------------------------------
(***************************************************************************)
(* Lists of objects                                                        *)
(***************************************************************************)

\* The objects of O have keys of S.
Keyed(O, S) == \A o \in O : o.key \in S

InKeyOrder(list) == [i \in DOMAIN list |-> list[i].key]

\* A list of objects no two of which have a key in common.
Apart(list) == Once(InKeyOrder(list))

\* The keys of a list of objects are a list of keys; ...
LEMMA KeyOrder ==
    ASSUME NEW O, NEW S, Keyed(O, S), NEW l \in Seq(O)
    PROVE  /\ InKeyOrder(l) \in Seq(S) /\ Len(InKeyOrder(l)) = Len(l)
           /\ Lists!Elements(InKeyOrder(l)) = Lists!KeysOf(l)
<1>1. DOMAIN l = 1 .. Len(l) /\ Len(l) \in Nat /\ \A i \in 1 .. Len(l) : l[i] \in O
    OBVIOUS
<1> DEFINE s == InKeyOrder(l)
<1>2. s = [i \in 1 .. Len(l) |-> l[i].key] /\ \A i \in 1 .. Len(l) : l[i].key \in S
    BY <1>1 DEF InKeyOrder, Keyed
<1> HIDE DEF s
<1>3. s \in Seq(S) /\ Len(s) = Len(l)
    BY <1>1, <1>2
<1>4. Lists!Elements(s) = Lists!KeysOf(l)
    BY <1>1, <1>2 DEF Lists!Elements, Lists!KeysOf
<1> QED
    BY <1>3, <1>4 DEF s

\* ... of two lists, one after the other, ...
LEMMA KeyOrderConcat ==
    ASSUME NEW O, NEW S, Keyed(O, S), NEW l \in Seq(O), NEW m \in Seq(O)
    PROVE  InKeyOrder(l \o m) = InKeyOrder(l) \o InKeyOrder(m)
<1> DEFINE a == InKeyOrder(l)
           b == InKeyOrder(m)
           n == l \o m
           c == InKeyOrder(n)
<1>1. /\ n \in Seq(O) /\ Len(n) = Len(l) + Len(m) /\ Len(l) \in Nat /\ Len(m) \in Nat
      /\ \A i \in 1 .. Len(l) : n[i] = l[i]
      /\ \A i \in 1 .. Len(m) : n[Len(l) + i] = m[i]
      /\ DOMAIN l = 1 .. Len(l) /\ DOMAIN m = 1 .. Len(m) /\ DOMAIN n = 1 .. Len(n)
    OBVIOUS
<1> HIDE DEF n
<1>2. a \in Seq(S) /\ b \in Seq(S) /\ Len(a) = Len(l) /\ Len(b) = Len(m)
    BY KeyOrder
<1>3. c \in Seq(S) /\ Len(c) = Len(n)
    BY <1>1, KeyOrder
<1>4. /\ \A i \in 1 .. Len(l) : a[i] = l[i].key
      /\ \A i \in 1 .. Len(m) : b[i] = m[i].key
      /\ \A i \in 1 .. Len(n) : c[i] = n[i].key
    BY <1>1 DEF InKeyOrder
<1> HIDE DEF a, b, c
<1>5. /\ a \o b \in Seq(S) /\ Len(a \o b) = Len(n)
      /\ \A i \in 1 .. Len(l) : (a \o b)[i] = a[i]
      /\ \A i \in 1 .. Len(m) : (a \o b)[Len(l) + i] = b[i]
  <2>1. /\ a \o b \in Seq(S) /\ Len(a \o b) = Len(a) + Len(b)
        /\ \A i \in 1 .. Len(a) : (a \o b)[i] = a[i]
        /\ \A i \in 1 .. Len(b) : (a \o b)[Len(a) + i] = b[i]
    <3>1. a \in Seq(S) /\ b \in Seq(S)
        BY <1>2
    <3> QED
        BY <3>1, ConcatAt
  <2> QED
    BY <1>1, <1>2, <2>1, Zenon
<1>6. ASSUME NEW i \in 1 .. Len(n) PROVE (a \o b)[i] = c[i]
  <2>1. CASE i \in 1 .. Len(l)
    BY <1>1, <1>4, <1>5, <2>1
  <2>2. CASE i \notin 1 .. Len(l)
    <3> DEFINE j == i - Len(l)
    <3>1. j \in 1 .. Len(m) /\ i = Len(l) + j
        BY <1>1, <2>2
    <3> HIDE DEF j
    <3> QED
        BY <1>1, <1>4, <1>5, <3>1
  <2> QED
    BY <2>1, <2>2
<1>7. a \o b = c
    BY <1>3, <1>5, <1>6, SeqEqual
<1> QED
    BY <1>7 DEF a, b, c, n

\* ... and of an object.
LEMMA KeyOrderOne ==
    ASSUME NEW o
    PROVE  InKeyOrder(<<o>>) = <<o.key>>
  BY DEF InKeyOrder

LEMMA KeyOrderEmpty == InKeyOrder(<<>>) = <<>> /\ Lists!KeysOf(<<>>) = {} /\ Apart(<<>>)
  BY EmptyHolds DEF InKeyOrder, Lists!KeysOf, Apart

\* Two lists of objects one after the other.
LEMMA ObjectsConcat ==
    ASSUME NEW O, NEW S, Keyed(O, S), NEW l \in Seq(O), NEW m \in Seq(O)
    PROVE  /\ l \o m \in Seq(O)
           /\ Lists!KeysOf(l \o m) = Lists!KeysOf(l) \cup Lists!KeysOf(m)
           /\ Apart(l \o m) <=> /\ Apart(l) /\ Apart(m)
                                /\ Lists!KeysOf(l) \cap Lists!KeysOf(m) = {}
<1> DEFINE a == InKeyOrder(l)
           b == InKeyOrder(m)
           n == l \o m
<1>1. n \in Seq(O)
    OBVIOUS
<1>2. InKeyOrder(n) = a \o b
    BY KeyOrderConcat
<1> HIDE DEF n
<1>3. /\ a \in Seq(S) /\ Lists!Elements(a) = Lists!KeysOf(l)
      /\ b \in Seq(S) /\ Lists!Elements(b) = Lists!KeysOf(m)
      /\ Lists!Elements(InKeyOrder(n)) = Lists!KeysOf(n)
    BY <1>1, KeyOrder
<1> HIDE DEF a, b
<1>4. /\ Lists!Elements(a \o b) = Lists!Elements(a) \cup Lists!Elements(b)
      /\ Once(a \o b) <=> Once(a) /\ Once(b) /\ Lists!Elements(a) \cap Lists!Elements(b) = {}
    BY <1>3, ConcatHolds
<1>5. (Apart(l) <=> Once(a)) /\ (Apart(m) <=> Once(b)) /\ (Apart(n) <=> Once(a \o b))
    BY <1>2 DEF Apart, a, b
<1> QED
    BY <1>1, <1>2, <1>3, <1>4, <1>5 DEF n

LEMMA ObjectsOne ==
    ASSUME NEW O, NEW o \in O
    PROVE  <<o>> \in Seq(O) /\ Lists!KeysOf(<<o>>) = {o.key} /\ Apart(<<o>>)
<1>1. Once(<<o.key>>)
    BY DEF Once, Lists!NoRepeats
<1>2. Lists!KeysOf(<<o>>) = {o.key}
    BY DEF Lists!KeysOf
<1> QED
    BY <1>1, <1>2, KeyOrderOne DEF Apart

\* An object without which the list is left.
LEMMA ObjectsWithoutAt ==
    ASSUME NEW O, NEW S, Keyed(O, S), NEW l \in Seq(O), NEW i \in 1 .. Len(l)
    PROVE  /\ l[i] \in O /\ l[i].key \in S /\ Lists!WithoutAt(l, i) \in Seq(O)
           /\ Lists!KeysOf(l) = Lists!KeysOf(Lists!WithoutAt(l, i)) \cup {l[i].key}
           /\ Apart(l) => /\ Apart(Lists!WithoutAt(l, i))
                          /\ l[i].key \notin Lists!KeysOf(Lists!WithoutAt(l, i))
<1>0. PICK a, b \in Seq(O) :
          l = (a \o <<l[i]>>) \o b /\ Lists!WithoutAt(l, i) = a \o b
  <2>1. Around(l, i, O)
    BY SplitAround
  <2> QED
    BY <2>1, Zenon DEF Around
<1> DEFINE x == l[i]
           o == <<x>>
           c == a \o o
           w == a \o b
<1>1. l = c \o b /\ Lists!WithoutAt(l, i) = w /\ x \in O
    BY <1>0
<1>2. o \in Seq(O) /\ Lists!KeysOf(o) = {x.key} /\ Apart(o)
    BY <1>1, ObjectsOne
<1> HIDE DEF x, o
<1>3. /\ c \in Seq(O)
      /\ Lists!KeysOf(c) = Lists!KeysOf(a) \cup {x.key}
      /\ Apart(c) <=> Apart(a) /\ Lists!KeysOf(a) \cap {x.key} = {}
    BY <1>2, ObjectsConcat
<1>4. /\ w \in Seq(O) /\ Lists!KeysOf(w) = Lists!KeysOf(a) \cup Lists!KeysOf(b)
      /\ Apart(w) <=> Apart(a) /\ Apart(b) /\ Lists!KeysOf(a) \cap Lists!KeysOf(b) = {}
    BY ObjectsConcat
<1> HIDE DEF c, w
<1>5. /\ Lists!KeysOf(c \o b) = Lists!KeysOf(c) \cup Lists!KeysOf(b)
      /\ Apart(c \o b) <=> Apart(c) /\ Apart(b) /\ Lists!KeysOf(c) \cap Lists!KeysOf(b) = {}
    BY <1>3, ObjectsConcat
<1>6. /\ Lists!KeysOf(c \o b) = Lists!KeysOf(w) \cup {x.key}
      /\ Apart(c \o b) => Apart(w) /\ x.key \notin Lists!KeysOf(w)
    BY <1>3, <1>4, <1>5
<1>7. x.key \in S
    BY <1>1 DEF Keyed
<1> QED
    BY <1>1, <1>4, <1>6, <1>7 DEF x

\* push_front.
LEMMA ObjectsPush ==
    ASSUME NEW O, NEW S, Keyed(O, S), NEW l \in Seq(O), NEW o \in O
    PROVE  /\ <<o>> \o l \in Seq(O)
           /\ Lists!KeysOf(<<o>> \o l) = {o.key} \cup Lists!KeysOf(l)
           /\ Apart(<<o>> \o l) <=> Apart(l) /\ o.key \notin Lists!KeysOf(l)
<1> DEFINE s == <<o>>
<1>1. s \in Seq(O) /\ Lists!KeysOf(s) = {o.key} /\ Apart(s)
    BY ObjectsOne
<1> HIDE DEF s
<1>2. /\ s \o l \in Seq(O) /\ Lists!KeysOf(s \o l) = Lists!KeysOf(s) \cup Lists!KeysOf(l)
      /\ Apart(s \o l) <=> Apart(s) /\ Apart(l) /\ Lists!KeysOf(s) \cap Lists!KeysOf(l) = {}
    BY <1>1, ObjectsConcat
<1>3. Apart(s \o l) <=> Apart(l) /\ o.key \notin Lists!KeysOf(l)
    BY <1>1, <1>2
<1> QED
    BY <1>1, <1>2, <1>3 DEF s

\* pop_back.
LEMMA ObjectsBack ==
    ASSUME NEW O, NEW S, Keyed(O, S), NEW l \in Seq(O), l # <<>>
    PROVE  /\ Lists!Back(l) \in O /\ Lists!WithoutBack(l) \in Seq(O)
           /\ Lists!KeysOf(l) = Lists!KeysOf(Lists!WithoutBack(l)) \cup {Lists!Back(l).key}
           /\ Apart(l) => /\ Apart(Lists!WithoutBack(l))
                          /\ Lists!Back(l).key \notin Lists!KeysOf(Lists!WithoutBack(l))
<1> DEFINE x == Lists!Back(l)
           w == Lists!WithoutBack(l)
           o == <<x>>
<1>1. x \in O /\ w \in Seq(O) /\ l = w \o o
    BY BackHolds
<1>2. o \in Seq(O) /\ Lists!KeysOf(o) = {x.key} /\ Apart(o)
    BY <1>1, ObjectsOne
<1> HIDE DEF x, w, o
<1>3. /\ Lists!KeysOf(w \o o) = Lists!KeysOf(w) \cup Lists!KeysOf(o)
      /\ Apart(w \o o) <=> Apart(w) /\ Apart(o) /\ Lists!KeysOf(w) \cap Lists!KeysOf(o) = {}
    BY <1>1, <1>2, ObjectsConcat
<1>4. Apart(w \o o) => Apart(w) /\ x.key \notin Lists!KeysOf(w)
    BY <1>2, <1>3
<1> QED
    BY <1>1, <1>2, <1>3, <1>4 DEF x, w

\* The object of a key the list holds.
LEMMA PositionHolds ==
    ASSUME NEW O, NEW l \in Seq(O), NEW k \in Lists!KeysOf(l)
    PROVE  /\ Lists!PositionOf(l, k) \in 1 .. Len(l)
           /\ l[Lists!PositionOf(l, k)].key = k /\ l[Lists!PositionOf(l, k)] \in O
<1>1. DOMAIN l = 1 .. Len(l) /\ \E i \in DOMAIN l : l[i].key = k
    BY DEF Lists!KeysOf
<1>2. Lists!PositionOf(l, k) \in 1 .. Len(l) /\ l[Lists!PositionOf(l, k)].key = k
    BY <1>1 DEF Lists!PositionOf
<1> QED
    BY <1>2

\* remove: if the list holds an object of the key, it is taken out.
LEMMA OmitObjectHolds ==
    ASSUME NEW O, NEW S, Keyed(O, S), NEW l \in Seq(O), NEW k
    PROVE  /\ Lists!OmitObject(l, k) \in Seq(O)
           /\ Lists!KeysOf(l) \ {k} \subseteq Lists!KeysOf(Lists!OmitObject(l, k))
           /\ Lists!KeysOf(Lists!OmitObject(l, k)) \subseteq Lists!KeysOf(l)
           /\ Apart(l) => /\ Apart(Lists!OmitObject(l, k))
                          /\ k \notin Lists!KeysOf(Lists!OmitObject(l, k))
<1>1. CASE k \in Lists!KeysOf(l)
  <2> DEFINE i == Lists!PositionOf(l, k)
  <2>1. i \in 1 .. Len(l) /\ l[i].key = k
    BY <1>1, PositionHolds
  <2>2. Lists!OmitObject(l, k) = Lists!WithoutAt(l, i)
    BY <1>1 DEF Lists!OmitObject
  <2> HIDE DEF i
  <2>3. /\ Lists!WithoutAt(l, i) \in Seq(O)
        /\ Lists!KeysOf(l) = Lists!KeysOf(Lists!WithoutAt(l, i)) \cup {k}
        /\ Apart(l) => /\ Apart(Lists!WithoutAt(l, i))
                       /\ k \notin Lists!KeysOf(Lists!WithoutAt(l, i))
    BY <2>1, ObjectsWithoutAt
  <2> QED
    BY <2>2, <2>3
<1>2. CASE k \notin Lists!KeysOf(l)
    BY <1>2 DEF Lists!OmitObject
<1> QED
    BY <1>1, <1>2

\* Objects that change, but for their keys.
LEMMA SameKeys ==
    ASSUME NEW O, NEW l \in Seq(O), NEW m \in Seq(O), Len(m) = Len(l),
           \A i \in 1 .. Len(l) : m[i].key = l[i].key
    PROVE  Lists!KeysOf(m) = Lists!KeysOf(l) /\ (Apart(m) <=> Apart(l))
<1>1. InKeyOrder(m) = InKeyOrder(l)
    BY DEF InKeyOrder
<1>2. Lists!KeysOf(m) = Lists!KeysOf(l)
    BY DEF Lists!KeysOf
<1> QED
    BY <1>1, <1>2 DEF Apart

-----------------------------------------------------------------------------
(***************************************************************************)
(* The stacks of one list of keys, and of mru                              *)
(***************************************************************************)

\* evict_one of a stack that holds `keys` gives one of them up, or none if there is none.
GivesUp(evicted, keys, left) ==
    \/ evicted.key \in keys /\ left = keys \ {evicted.key}
    \/ keys = {} /\ left = {} /\ evicted.key = NoKey

\* A list of keys of S, none twice.
KeyList(list, S) == list \in Seq(S) /\ Once(list)

LEMMA PushFrontHolds ==
    ASSUME NEW S, NEW s \in Seq(S), NEW k \in S
    PROVE  /\ Lists!PushFront(s, k) \in Seq(S)
           /\ Lists!Elements(Lists!PushFront(s, k)) = Lists!Elements(s) \cup {k}
           /\ Once(s) => Once(Lists!PushFront(s, k))
<1> DEFINE t == Lists!Omit(s, k)
<1>1. /\ t \in Seq(S) /\ Lists!Elements(s) \ {k} \subseteq Lists!Elements(t)
      /\ Lists!Elements(t) \subseteq Lists!Elements(s)
      /\ Once(s) => Once(t) /\ k \notin Lists!Elements(t)
    BY OmitHolds
<1>2. Lists!PushFront(s, k) = <<k>> \o t
    BY DEF Lists!PushFront
<1> HIDE DEF t
<1>3. /\ <<k>> \o t \in Seq(S)
      /\ Lists!Elements(<<k>> \o t) = {k} \cup Lists!Elements(t)
      /\ Once(<<k>> \o t) <=> Once(t) /\ k \notin Lists!Elements(t)
    BY <1>1, PushHolds
<1> QED
    BY <1>1, <1>2, <1>3

LEMMA PopBackHolds ==
    ASSUME NEW S, NEW s, KeyList(s, S)
    PROVE  /\ KeyList(Lists!PopBack(s).stack, S)
           /\ GivesUp(Lists!PopBack(s), Lists!Elements(s), Lists!Elements(Lists!PopBack(s).stack))
<1>1. CASE s = <<>>
  <2>1. Lists!PopBack(s).key = NoKey /\ Lists!PopBack(s).stack = s
    BY <1>1 DEF Lists!PopBack, Lists!Evicting
  <2> QED
    BY <1>1, <2>1, EmptyHolds DEF GivesUp
<1>2. CASE s # <<>>
  <2>1. Lists!PopBack(s).key = Lists!Back(s) /\ Lists!PopBack(s).stack = Lists!WithoutBack(s)
    BY <1>2 DEF Lists!PopBack, Lists!Evicting
  <2>2. /\ Lists!WithoutBack(s) \in Seq(S) /\ Once(Lists!WithoutBack(s))
        /\ Lists!Elements(s) = Lists!Elements(Lists!WithoutBack(s)) \cup {Lists!Back(s)}
        /\ Lists!Back(s) \notin Lists!Elements(Lists!WithoutBack(s))
    BY <1>2, BackHolds DEF KeyList
  <2> QED
    BY <2>1, <2>2 DEF KeyList, GivesUp
<1> QED
    BY <1>1, <1>2

\* The lists of the modules are the same.
LEMMA FifoLists ==
    /\ \A l : Fifo!Elements(l) = Lists!Elements(l) /\ Fifo!PopBack(l) = Lists!PopBack(l)
    /\ \A l, k : /\ Fifo!Has(l, k) = (k \in Lists!Elements(l))
                 /\ Fifo!Omit(l, k) = Lists!Omit(l, k)
                 /\ Fifo!PushFront(l, k) = Lists!PushFront(l, k)
<1>1. \A l : Fifo!Elements(l) = Lists!Elements(l)
    BY DEF Fifo!Elements, Lists!Elements
<1>2. \A l, k : Fifo!Has(l, k) = (k \in Lists!Elements(l)) /\ Lists!Has(l, k) = (k \in Lists!Elements(l))
    BY <1>1 DEF Fifo!Has, Lists!Has
<1>3. \A l, i : Fifo!WithoutAt(l, i) = Lists!WithoutAt(l, i)
    BY DEF Fifo!WithoutAt, Lists!WithoutAt
<1>4. \A l, k : Fifo!Omit(l, k) = Lists!Omit(l, k)
    BY <1>2, <1>3 DEF Fifo!Omit, Lists!Omit
<1>5. \A l, k : Fifo!PushFront(l, k) = Lists!PushFront(l, k)
    BY <1>4 DEF Fifo!PushFront, Lists!PushFront
<1>6. \A l : Fifo!PopBack(l) = Lists!PopBack(l)
    BY DEF Fifo!PopBack, Lists!PopBack, Fifo!Evicting, Lists!Evicting, Fifo!Back, Lists!Back,
           Fifo!WithoutBack, Lists!WithoutBack
<1> QED
    BY <1>1, <1>2, <1>4, <1>5, <1>6

LEMMA LruLists ==
    /\ \A l : Lru!Elements(l) = Lists!Elements(l) /\ Lru!PopBack(l) = Lists!PopBack(l)
    /\ \A l, k : /\ Lru!Has(l, k) = (k \in Lists!Elements(l))
                 /\ Lru!Omit(l, k) = Lists!Omit(l, k)
                 /\ Lru!PushFront(l, k) = Lists!PushFront(l, k)
<1>1. \A l : Lru!Elements(l) = Lists!Elements(l)
    BY DEF Lru!Elements, Lists!Elements
<1>2. \A l, k : Lru!Has(l, k) = (k \in Lists!Elements(l)) /\ Lists!Has(l, k) = (k \in Lists!Elements(l))
    BY <1>1 DEF Lru!Has, Lists!Has
<1>3. \A l, i : Lru!WithoutAt(l, i) = Lists!WithoutAt(l, i)
    BY DEF Lru!WithoutAt, Lists!WithoutAt
<1>4. \A l, k : Lru!Omit(l, k) = Lists!Omit(l, k)
    BY <1>2, <1>3 DEF Lru!Omit, Lists!Omit
<1>5. \A l, k : Lru!PushFront(l, k) = Lists!PushFront(l, k)
    BY <1>4 DEF Lru!PushFront, Lists!PushFront
<1>6. \A l : Lru!PopBack(l) = Lists!PopBack(l)
    BY DEF Lru!PopBack, Lists!PopBack, Lru!Evicting, Lists!Evicting, Lru!Back, Lists!Back,
           Lru!WithoutBack, Lists!WithoutBack
<1> QED
    BY <1>1, <1>2, <1>4, <1>5, <1>6

\* fifo: each call does to the keys what it should.
LEMMA FifoHolds ==
    ASSUME NEW S, NEW stack, KeyList(stack, S), NEW k \in S
    PROVE  /\ KeyList(Fifo!Insert(stack, k), S)
           /\ Fifo!Elements(Fifo!Insert(stack, k)) = Fifo!Elements(stack) \cup {k}
           /\ KeyList(Fifo!Remove(stack, k), S)
           /\ Fifo!Elements(Fifo!Remove(stack, k)) = Fifo!Elements(stack) \ {k}
<1>1. stack \in Seq(S) /\ Once(stack)
    BY DEF KeyList
<1>2. /\ Fifo!Insert(stack, k) = IF k \in Lists!Elements(stack) THEN stack
                                 ELSE Lists!PushFront(stack, k)
      /\ Fifo!Remove(stack, k) = Lists!Omit(stack, k)
    BY FifoLists DEF Fifo!Insert, Fifo!Remove
<1>3. /\ Lists!PushFront(stack, k) \in Seq(S) /\ Once(Lists!PushFront(stack, k))
      /\ Lists!Elements(Lists!PushFront(stack, k)) = Lists!Elements(stack) \cup {k}
    BY <1>1, PushFrontHolds
<1>4. /\ Lists!Omit(stack, k) \in Seq(S) /\ Once(Lists!Omit(stack, k))
      /\ Lists!Elements(Lists!Omit(stack, k)) = Lists!Elements(stack) \ {k}
    BY <1>1, OmitHolds
<1>5. \A l : Fifo!Elements(l) = Lists!Elements(l)
    BY FifoLists
<1> QED
    BY <1>1, <1>2, <1>3, <1>4, <1>5, Zenon DEF KeyList

LEMMA FifoEvicts ==
    ASSUME NEW S, NEW stack, KeyList(stack, S)
    PROVE  /\ KeyList(Fifo!EvictOne(stack).stack, S)
           /\ GivesUp(Fifo!EvictOne(stack), Fifo!Elements(stack),
                      Fifo!Elements(Fifo!EvictOne(stack).stack))
  BY PopBackHolds, FifoLists DEF Fifo!EvictOne

\* lru: the same, and an update only moves.
LEMMA LruHolds ==
    ASSUME NEW S, NEW stack, KeyList(stack, S), NEW k \in S
    PROVE  /\ KeyList(Lru!Insert(stack, k), S)
           /\ Lru!Elements(Lru!Insert(stack, k)) = Lru!Elements(stack) \cup {k}
           /\ KeyList(Lru!Update(stack, k), S)
           /\ Lru!Elements(Lru!Update(stack, k)) = Lru!Elements(stack)
           /\ KeyList(Lru!Remove(stack, k), S)
           /\ Lru!Elements(Lru!Remove(stack, k)) = Lru!Elements(stack) \ {k}
<1>1. stack \in Seq(S) /\ Once(stack)
    BY DEF KeyList
<1>2. /\ Lru!Update(stack, k) = IF k \in Lists!Elements(stack) THEN Lists!PushFront(stack, k)
                                ELSE stack
      /\ Lru!Insert(stack, k) = Lists!PushFront(stack, k)
      /\ Lru!Remove(stack, k) = Lists!Omit(stack, k)
    BY LruLists DEF Lru!Insert, Lru!Update, Lru!MoveFront, Lru!Remove
<1>3. /\ Lists!PushFront(stack, k) \in Seq(S) /\ Once(Lists!PushFront(stack, k))
      /\ Lists!Elements(Lists!PushFront(stack, k)) = Lists!Elements(stack) \cup {k}
    BY <1>1, PushFrontHolds
<1>4. /\ Lists!Omit(stack, k) \in Seq(S) /\ Once(Lists!Omit(stack, k))
      /\ Lists!Elements(Lists!Omit(stack, k)) = Lists!Elements(stack) \ {k}
    BY <1>1, OmitHolds
<1>5. \A l : Lru!Elements(l) = Lists!Elements(l)
    BY LruLists
<1>6. k \in Lists!Elements(stack) => Lists!Elements(stack) \cup {k} = Lists!Elements(stack)
    OBVIOUS
<1> QED
    BY <1>1, <1>2, <1>3, <1>4, <1>5, <1>6, Zenon DEF KeyList

LEMMA LruEvicts ==
    ASSUME NEW S, NEW stack, KeyList(stack, S)
    PROVE  /\ KeyList(Lru!EvictOne(stack).stack, S)
           /\ GivesUp(Lru!EvictOne(stack), Lru!Elements(stack),
                      Lru!Elements(Lru!EvictOne(stack).stack))
  BY PopBackHolds, LruLists DEF Lru!EvictOne

\* mru: the key held apart is of S too, if there is one; it may be in the list as well.
MruStack(stack, S) ==
    stack \in [maybe_mru_key : S \cup {NoKey}, list : Seq(S)] /\ Once(stack.list)

LEMMA MruMade ==
    ASSUME NEW S, NEW mru \in S \cup {NoKey}, NEW list, KeyList(list, S)
    PROVE  MruStack([maybe_mru_key |-> mru, list |-> list], S)
  BY DEF MruStack, KeyList

LEMMA MruStarts == \A S : MruStack(Mru!New, S)
<1>1. \A S : KeyList(<<>>, S)
    BY EmptyHolds DEF KeyList
<1> QED
    BY <1>1, MruMade DEF Mru!New

LEMMA MruLists ==
    /\ \A l : Mru!Elements(l) = Lists!Elements(l)
    /\ \A l, k : /\ Mru!Has(l, k) = (k \in Lists!Elements(l))
                 /\ Mru!Omit(l, k) = Lists!Omit(l, k)
                 /\ Mru!PushFront(l, k) = Lists!PushFront(l, k)
<1>1. \A l : Mru!Elements(l) = Lists!Elements(l)
    BY DEF Mru!Elements, Lists!Elements
<1>2. \A l, k : Mru!Has(l, k) = (k \in Lists!Elements(l)) /\ Lists!Has(l, k) = (k \in Lists!Elements(l))
    BY <1>1 DEF Mru!Has, Lists!Has
<1>3. \A l, i : Mru!WithoutAt(l, i) = Lists!WithoutAt(l, i)
    BY DEF Mru!WithoutAt, Lists!WithoutAt
<1>4. \A l, k : Mru!Omit(l, k) = Lists!Omit(l, k)
    BY <1>2, <1>3 DEF Mru!Omit, Lists!Omit
<1>5. \A l, k : Mru!PushFront(l, k) = Lists!PushFront(l, k)
    BY <1>4 DEF Mru!PushFront, Lists!PushFront
<1> QED
    BY <1>1, <1>2, <1>4, <1>5

\* The key that is held apart gives way to another, and goes to the list.
LEMMA PromoteHolds ==
    ASSUME NEW S, NEW list, KeyList(list, S), NEW mru \in S \cup {NoKey}, NEW k \in S,
           NoKey \notin S
    PROVE  /\ MruStack(Mru!Promote(list, mru, k), S)
           /\ Mru!Keys(Mru!Promote(list, mru, k))
                = Lists!Elements(list) \cup {k} \cup ({mru} \ {NoKey})
<1> DEFINE l == IF mru = NoKey THEN list ELSE Lists!PushFront(list, mru)
<1>1. Mru!Promote(list, mru, k) = [maybe_mru_key |-> k, list |-> l]
    BY MruLists DEF Mru!Promote
<1>2. KeyList(l, S) /\ Lists!Elements(l) = Lists!Elements(list) \cup ({mru} \ {NoKey})
  <2>1. CASE mru = NoKey
    BY <2>1
  <2>2. CASE mru # NoKey
    <3>1. /\ Lists!PushFront(list, mru) \in Seq(S) /\ Once(Lists!PushFront(list, mru))
          /\ Lists!Elements(Lists!PushFront(list, mru)) = Lists!Elements(list) \cup {mru}
        BY <2>2, PushFrontHolds DEF KeyList
    <3> QED
        BY <2>2, <3>1 DEF KeyList
  <2> QED
    BY <2>1, <2>2
<1> HIDE DEF l
<1>3. Mru!Keys([maybe_mru_key |-> k, list |-> l]) = Lists!Elements(l) \cup {k}
    BY MruLists DEF Mru!Keys
<1>4. MruStack([maybe_mru_key |-> k, list |-> l], S)
    BY <1>2, MruMade
<1> QED
    BY <1>1, <1>2, <1>3, <1>4

\* A stack of mru loses no key but the one it is to lose.
LEMMA MruHolds ==
    ASSUME NEW S, NEW stack, MruStack(stack, S), NEW k \in S, NoKey \notin S
    PROVE  /\ MruStack(Mru!Insert(stack, k), S)
           /\ Mru!Keys(stack) \cup {k} \subseteq Mru!Keys(Mru!Insert(stack, k))
           /\ MruStack(Mru!Update(stack, k), S)
           /\ Mru!Keys(stack) \subseteq Mru!Keys(Mru!Update(stack, k))
           /\ MruStack(Mru!Remove(stack, k), S)
           /\ Mru!Keys(stack) \ {k} \subseteq Mru!Keys(Mru!Remove(stack, k))
<1> DEFINE mru == stack.maybe_mru_key
           list == stack.list
<1>1. /\ mru \in S \cup {NoKey} /\ list \in Seq(S) /\ KeyList(list, S)
      /\ stack = [maybe_mru_key |-> mru, list |-> list]
    BY DEF MruStack, KeyList
<1>2. Mru!Keys(stack) = Lists!Elements(list) \cup ({mru} \ {NoKey})
    BY MruLists DEF Mru!Keys
<1>3. /\ KeyList(Lists!Omit(list, k), S)
      /\ Lists!Elements(list) \ {k} \subseteq Lists!Elements(Lists!Omit(list, k))
    BY <1>1, OmitHolds DEF KeyList
<1>4. /\ MruStack(Mru!Update(stack, k), S)
      /\ Mru!Keys(stack) \cup {k} \subseteq Mru!Keys(Mru!Update(stack, k))
  <2>1. Mru!Update(stack, k) = IF mru = k THEN stack ELSE Mru!Promote(Lists!Omit(list, k), mru, k)
    BY MruLists DEF Mru!Update
  <2> DEFINE left == Lists!Omit(list, k)
  <2>2. /\ MruStack(Mru!Promote(left, mru, k), S)
        /\ Mru!Keys(Mru!Promote(left, mru, k))
             = Lists!Elements(left) \cup {k} \cup ({mru} \ {NoKey})
    <3>1. KeyList(left, S)
        BY <1>3
    <3> HIDE DEF left, mru
    <3> QED
        BY <1>1, <3>1, PromoteHolds
  <2> HIDE DEF mru, list
  <2>3. CASE mru = k
    BY <1>2, <2>1, <2>3
  <2>4. CASE mru # k
    BY <1>2, <1>3, <2>1, <2>2, <2>4
  <2> QED
    BY <2>3, <2>4
<1>5. /\ MruStack(Mru!Insert(stack, k), S)
      /\ Mru!Keys(stack) \cup {k} \subseteq Mru!Keys(Mru!Insert(stack, k))
  <2>1. Mru!Insert(stack, k) = IF k \in Lists!Elements(list) THEN Mru!Update(stack, k)
                               ELSE Mru!Promote(list, mru, k)
    BY MruLists DEF Mru!Insert
  <2> HIDE DEF mru, list
  <2>2. /\ MruStack(Mru!Promote(list, mru, k), S)
        /\ Mru!Keys(Mru!Promote(list, mru, k))
             = Lists!Elements(list) \cup {k} \cup ({mru} \ {NoKey})
    BY <1>1, PromoteHolds
  <2> QED
    BY <1>2, <1>4, <2>1, <2>2
<1>6. /\ MruStack(Mru!Remove(stack, k), S)
      /\ Mru!Keys(stack) \ {k} \subseteq Mru!Keys(Mru!Remove(stack, k))
  <2>1. CASE mru # k
    <3>1. Mru!Remove(stack, k) = [maybe_mru_key |-> mru, list |-> Lists!Omit(list, k)]
        BY <1>1, <2>1, MruLists DEF Mru!Remove
    <3> DEFINE left == Lists!Omit(list, k)
    <3> HIDE DEF mru, list
    <3>2. /\ MruStack([maybe_mru_key |-> mru, list |-> left], S)
          /\ Mru!Keys([maybe_mru_key |-> mru, list |-> left])
               = Lists!Elements(left) \cup ({mru} \ {NoKey})
        <4>1. KeyList(left, S)
            BY <1>3
        <4> HIDE DEF left
        <4> QED
            BY <1>1, <4>1, MruLists, MruMade DEF Mru!Keys
    <3> QED
        BY <1>2, <1>3, <3>1, <3>2
  <2>2. CASE mru = k /\ list = <<>>
    <3>1. Mru!Remove(stack, k) = Mru!New
        BY <2>2 DEF Mru!Remove
    <3>2. MruStack(Mru!New, S)
        BY MruStarts
    <3> QED
        BY <1>2, <2>2, <3>1, <3>2, EmptyHolds
  <2>3. CASE mru = k /\ list # <<>>
    <3> DEFINE x == Head(list)
               t == Tail(list)
    <3>1. Mru!Remove(stack, k) = [maybe_mru_key |-> x, list |-> t]
        BY <2>3 DEF Mru!Remove
    <3> HIDE DEF mru, list
    <3>2. x \in S /\ KeyList(t, S) /\ Lists!Elements(list) = Lists!Elements(t) \cup {x}
        BY <1>1, <2>3, FrontHolds DEF KeyList
    <3> HIDE DEF x, t
    <3>3. /\ MruStack([maybe_mru_key |-> x, list |-> t], S)
          /\ Mru!Keys([maybe_mru_key |-> x, list |-> t]) = Lists!Elements(t) \cup ({x} \ {NoKey})
        BY <3>2, MruLists, MruMade DEF Mru!Keys
    <3> QED
        BY <1>2, <2>3, <3>1, <3>2, <3>3
  <2> QED
    BY <2>1, <2>2, <2>3
<1> QED
    BY <1>4, <1>5, <1>6

\* A list without repeats is no longer than its keys are many.
LEMMA OnceBounded ==
    ASSUME NEW S, IsFiniteSet(S), NEW s \in Seq(S), Once(s)
    PROVE  Len(s) <= Cardinality(S)
<1> DEFINE n == Len(s)
           f == [i \in 1 .. n |-> s[i]]
<1>1. n \in Nat /\ DOMAIN s = 1 .. n /\ \A i \in 1 .. n : s[i] \in S
    OBVIOUS
<1>2. \A i, j \in 1 .. n : s[i] = s[j] => i = j
    BY <1>1 DEF Once, Lists!NoRepeats
<1>3. f \in [1 .. n -> S] /\ \A i \in 1 .. n : f[i] = s[i]
    BY <1>1
<1> HIDE DEF n, f
<1>4. IsFiniteSet(1 .. n) /\ Cardinality(1 .. n) = n
    BY <1>1, FS_Interval
<1>5. Cardinality(S) \in Nat
    BY FS_CardinalityType
<1>6. ASSUME Cardinality(S) < n PROVE FALSE
  <2>1. IsFiniteSet(1 .. n) /\ Cardinality(S) < Cardinality(1 .. n) /\ f \in [1 .. n -> S]
    BY <1>3, <1>4, <1>6
  <2> DEFINE D == 1 .. n
  <2>2. IsFiniteSet(D) /\ Cardinality(S) < Cardinality(D) /\ f \in [D -> S]
    BY <2>1
  <2> HIDE DEF D
  <2>3. PICK i, j \in D : i # j /\ f[i] = f[j]
    BY <2>2, FS_PigeonHole
  <2>4. D = 1 .. n
    BY DEF D
  <2> QED
    BY <1>2, <1>3, <2>3, <2>4
<1>7. Len(s) = n
    BY DEF n
<1> QED
    BY <1>1, <1>5, <1>6, <1>7

\* How many entries a stack of mru has, the key held apart included.
MruEntries(stack) ==
    IF stack.maybe_mru_key = NoKey THEN Len(stack.list) ELSE Len(stack.list) + 1

\* There are never more than one for each key, and one.
LEMMA MruEntriesBounded ==
    ASSUME NEW S, IsFiniteSet(S), NEW stack, MruStack(stack, S)
    PROVE  MruEntries(stack) \in 0 .. Cardinality(S) + 1
<1>1. stack.list \in Seq(S) /\ Once(stack.list) /\ Len(stack.list) \in Nat
    BY DEF MruStack
<1>2. Len(stack.list) <= Cardinality(S) /\ Cardinality(S) \in Nat
    BY <1>1, OnceBounded, FS_CardinalityType
<1>3. MruEntries(stack) \in {Len(stack.list), Len(stack.list) + 1}
    BY <1>1 DEF MruEntries
<1> QED
    BY <1>1, <1>2, <1>3

LEMMA MruEvicts ==
    ASSUME NEW S, NEW stack, MruStack(stack, S), NoKey \notin S
    PROVE  /\ MruStack(Mru!EvictOne(stack).stack, S)
           /\ Mru!Keys(stack) \ {Mru!EvictOne(stack).key}
                \subseteq Mru!Keys(Mru!EvictOne(stack).stack)
           /\ \/ Mru!Keys(stack) = {}
              \/ MruEntries(Mru!EvictOne(stack).stack) < MruEntries(stack)
<1> DEFINE mru == stack.maybe_mru_key
           list == stack.list
<1>1. /\ mru \in S \cup {NoKey} /\ list \in Seq(S) /\ KeyList(list, S)
      /\ stack = [maybe_mru_key |-> mru, list |-> list]
    BY DEF MruStack, KeyList
<1>2. Mru!Keys(stack) = Lists!Elements(list) \cup ({mru} \ {NoKey})
    BY MruLists DEF Mru!Keys
<1>3. CASE list = <<>>
  <2>1. Mru!EvictOne(stack).key = mru /\ Mru!EvictOne(stack).stack = Mru!New
    BY <1>3 DEF Mru!EvictOne, Mru!PopFront, Mru!Evicting
  <2>2. MruStack(Mru!New, S)
    BY MruStarts
  <2>3. MruEntries(Mru!New) = 0 /\ Len(list) = 0
    <3>1. Mru!New.maybe_mru_key = NoKey /\ Mru!New.list = <<>>
        BY DEF Mru!New
    <3> QED
        BY <1>3, <3>1 DEF MruEntries
  <2>4. Mru!Keys(stack) = {} \/ MruEntries(Mru!New) < MruEntries(stack)
    <3>1. CASE mru = NoKey
      <4>1. Lists!Elements(list) = {}
        BY <1>3, EmptyHolds
      <4> HIDE DEF mru, list
      <4> QED
        BY <1>2, <3>1, <4>1
    <3>2. CASE mru # NoKey
      <4>1. MruEntries(stack) = Len(list) + 1
        BY <3>2 DEF MruEntries
      <4> QED
        BY <2>3, <4>1
    <3> QED
        BY <3>1, <3>2
  <2> QED
    BY <1>2, <1>3, <2>1, <2>2, <2>4, EmptyHolds
<1>4. CASE list # <<>>
  <2> DEFINE x == Head(list)
             t == Tail(list)
  <2>1. Mru!EvictOne(stack).key = x
        /\ Mru!EvictOne(stack).stack = [maybe_mru_key |-> mru, list |-> t]
    BY <1>1, <1>4 DEF Mru!EvictOne, Mru!PopFront, Mru!Evicting
  <2> HIDE DEF mru, list
  <2>2. x \in S /\ KeyList(t, S) /\ Lists!Elements(list) = Lists!Elements(t) \cup {x}
    BY <1>1, <1>4, FrontHolds DEF KeyList
  <2> HIDE DEF x, t
  <2>3. /\ MruStack([maybe_mru_key |-> mru, list |-> t], S)
        /\ Mru!Keys([maybe_mru_key |-> mru, list |-> t]) = Lists!Elements(t) \cup ({mru} \ {NoKey})
    BY <1>1, <2>2, MruLists, MruMade DEF Mru!Keys
  <2>4. MruEntries([maybe_mru_key |-> mru, list |-> t]) < MruEntries(stack)
    <3>1. Len(t) \in Nat /\ Len(list) \in Nat /\ Len(t) < Len(list)
        BY <1>1, <1>4 DEF t
    <3> QED
        BY <1>1, <3>1 DEF MruEntries
  <2> QED
    BY <1>2, <2>1, <2>2, <2>3, <2>4
<1> QED
    BY <1>3, <1>4

-----------------------------------------------------------------------------
(***************************************************************************)
(* clock                                                                   *)
(***************************************************************************)

\* A list in three parts.
LEMMA ObjectsSplit ==
    ASSUME NEW O, NEW S, Keyed(O, S), NEW l \in Seq(O), NEW i \in 1 .. Len(l)
    PROVE  LET before == SubSeq(l, 1, i - 1)
               behind == SubSeq(l, i + 1, Len(l))
           IN  /\ before \in Seq(O) /\ behind \in Seq(O) /\ l[i] \in O /\ l[i].key \in S
               /\ Lists!KeysOf(l)
                    = Lists!KeysOf(before) \cup {l[i].key} \cup Lists!KeysOf(behind)
               /\ Apart(l) => /\ Apart(before) /\ Apart(behind)
                              /\ Lists!KeysOf(before) \cap Lists!KeysOf(behind) = {}
                              /\ l[i].key \notin Lists!KeysOf(before) \cup Lists!KeysOf(behind)
<1> DEFINE a == SubSeq(l, 1, i - 1)
           b == SubSeq(l, i + 1, Len(l))
           x == l[i]
           o == <<x>>
           c == a \o o
<1>1. a \in Seq(O) /\ b \in Seq(O) /\ l = c \o b /\ x \in O
  <2>1. a \in Seq(O) /\ b \in Seq(O) /\ l = (a \o <<l[i]>>) \o b
    BY SplitAt
  <2>2. l[i] \in O
    OBVIOUS
  <2> QED
    BY <2>1, <2>2, Zenon
<1>2. o \in Seq(O) /\ Lists!KeysOf(o) = {x.key} /\ Apart(o)
    BY <1>1, ObjectsOne
<1>3. x.key \in S
    BY <1>1 DEF Keyed
<1> HIDE DEF a, b, x, o
<1>4. /\ c \in Seq(O)
      /\ Lists!KeysOf(c) = Lists!KeysOf(a) \cup Lists!KeysOf(o)
      /\ Apart(c) <=> Apart(a) /\ Apart(o) /\ Lists!KeysOf(a) \cap Lists!KeysOf(o) = {}
    BY <1>1, <1>2, ObjectsConcat
<1> HIDE DEF c
<1>5. /\ Lists!KeysOf(c \o b) = Lists!KeysOf(c) \cup Lists!KeysOf(b)
      /\ Apart(c \o b) <=> Apart(c) /\ Apart(b) /\ Lists!KeysOf(c) \cap Lists!KeysOf(b) = {}
    BY <1>1, <1>4, ObjectsConcat
<1>6. Lists!KeysOf(l) = Lists!KeysOf(a) \cup {x.key} \cup Lists!KeysOf(b)
    BY <1>1, <1>2, <1>4, <1>5
<1>7. Apart(l) => /\ Apart(a) /\ Apart(b)
                  /\ Lists!KeysOf(a) \cap Lists!KeysOf(b) = {}
                  /\ x.key \notin Lists!KeysOf(a) \cup Lists!KeysOf(b)
    BY <1>1, <1>2, <1>4, <1>5
<1> QED
    BY <1>1, <1>3, <1>6, <1>7 DEF a, b, x

\* A mark is set or not.
Marked(S) == [key : S, visited : BOOLEAN]

LEMMA MarkedKeyed ==
    ASSUME NEW S
    PROVE  Keyed(Marked(S), S)
  BY DEF Keyed, Marked

ClockList(stack, S) == stack \in Seq(Marked(S)) /\ Apart(stack)

LEMMA ClockLists ==
    /\ \A l : Clock!KeysOf(l) = Lists!KeysOf(l) /\ Clock!Keys(l) = Lists!KeysOf(l)
    /\ \A l, k : /\ Clock!PositionOf(l, k) = Lists!PositionOf(l, k)
                 /\ Clock!OmitObject(l, k) = Lists!OmitObject(l, k)
<1>1. \A l : Clock!KeysOf(l) = Lists!KeysOf(l)
    BY DEF Clock!KeysOf, Lists!KeysOf
<1>2. \A l, k : Clock!PositionOf(l, k) = Lists!PositionOf(l, k)
    BY DEF Clock!PositionOf, Lists!PositionOf
<1>3. \A l, i : Clock!WithoutAt(l, i) = Lists!WithoutAt(l, i)
    BY DEF Clock!WithoutAt, Lists!WithoutAt
<1>4. \A l, k : Clock!OmitObject(l, k) = Lists!OmitObject(l, k)
    BY <1>1, <1>2, <1>3 DEF Clock!OmitObject, Lists!OmitObject
<1> QED
    BY <1>1, <1>2, <1>4 DEF Clock!Keys

\* A mark that is set changes no key.
Mark(l, k) == [l EXCEPT ![Lists!PositionOf(l, k)].visited = TRUE]

LEMMA MarkHolds ==
    ASSUME NEW S, NEW l \in Seq(Marked(S)), NEW k \in Lists!KeysOf(l)
    PROVE  /\ Mark(l, k) \in Seq(Marked(S)) /\ Lists!KeysOf(Mark(l, k)) = Lists!KeysOf(l)
           /\ Apart(Mark(l, k)) <=> Apart(l)
<1> DEFINE i == Lists!PositionOf(l, k)
           m == [l EXCEPT ![i].visited = TRUE]
<1>1. i \in 1 .. Len(l) /\ l[i] \in Marked(S)
    BY PositionHolds
<1> HIDE DEF i
<1>2. [l[i] EXCEPT !.visited = TRUE] \in Marked(S) /\ [l[i] EXCEPT !.visited = TRUE].key = l[i].key
    BY <1>1 DEF Marked
<1>3. m = [l EXCEPT ![i] = [l[i] EXCEPT !.visited = TRUE]]
    OBVIOUS
<1>4. /\ m \in Seq(Marked(S)) /\ Len(m) = Len(l)
      /\ \A j \in 1 .. Len(l) : m[j] = IF j = i THEN [l[i] EXCEPT !.visited = TRUE] ELSE l[j]
    BY <1>1, <1>2, <1>3, ExceptSeq
<1>5. \A j \in 1 .. Len(l) : m[j].key = l[j].key
    BY <1>2, <1>4
<1> HIDE DEF m
<1>6. Lists!KeysOf(m) = Lists!KeysOf(l) /\ (Apart(m) <=> Apart(l))
    BY <1>4, <1>5, SameKeys
<1> QED
    BY <1>4, <1>6 DEF m, i, Mark

\* Nor do marks that are taken away.
LEMMA ClearedHolds ==
    ASSUME NEW S, NEW l \in Seq(Marked(S))
    PROVE  /\ Clock!Cleared(l) \in Seq(Marked(S)) /\ Lists!KeysOf(Clock!Cleared(l)) = Lists!KeysOf(l)
           /\ Apart(Clock!Cleared(l)) <=> Apart(l)
<1> DEFINE m == Clock!Cleared(l)
<1>1. DOMAIN l = 1 .. Len(l) /\ Len(l) \in Nat /\ \A i \in 1 .. Len(l) : l[i] \in Marked(S)
    OBVIOUS
<1>2. \A i \in 1 .. Len(l) :
          /\ [l[i] EXCEPT !.visited = FALSE] \in Marked(S)
          /\ [l[i] EXCEPT !.visited = FALSE].key = l[i].key
    BY <1>1 DEF Marked
<1>3. m = [i \in 1 .. Len(l) |-> [l[i] EXCEPT !.visited = FALSE]]
    BY <1>1 DEF Clock!Cleared
<1> HIDE DEF m
<1>4. m \in Seq(Marked(S)) /\ Len(m) = Len(l) /\ \A i \in 1 .. Len(l) : m[i].key = l[i].key
  <2>1. \A i \in 1 .. Len(l) : m[i] \in Marked(S) /\ m[i].key = l[i].key
    BY <1>2, <1>3, Zenon
  <2>2. m = [i \in 1 .. Len(l) |-> m[i]]
    BY <1>3, Zenon
  <2>3. m \in Seq(Marked(S))
    BY <1>1, <2>1, <2>2, Lemmas!FunctionIsSeq
  <2> QED
    BY <1>1, <2>1, <2>2, <2>3
<1>5. Lists!KeysOf(m) = Lists!KeysOf(l) /\ (Apart(m) <=> Apart(l))
    BY <1>4, SameKeys
<1> QED
    BY <1>4, <1>5 DEF m

\* The largest of a set of positions.
LEMMA LargestPosition ==
    ASSUME NEW n \in Nat, NEW T \in SUBSET (1 .. n), T # {}
    PROVE  \E i \in T : \A j \in T : j <= i
<1> DEFINE U == {m \in Nat : \E i \in T : m = n - i}
<1>1. U \in SUBSET Nat /\ U # {}
  <2>1. PICK i \in T : TRUE
    OBVIOUS
  <2>2. n - i \in Nat
    BY <2>1
  <2>3. n - i \in U
    BY <2>1, <2>2
  <2> QED
    BY <2>3
<1>2. PICK m \in U : \A k \in U : m <= k
    BY <1>1, Lemmas!LeastElement
<1>3. PICK i \in T : m = n - i
    BY <1>2
<1>4. \A j \in T : j <= i
  <2> TAKE j \in T
  <2>1. n - j \in Nat
    OBVIOUS
  <2>2. n - j \in U
    BY <2>1
  <2>3. m <= n - j /\ i \in 1 .. n /\ j \in 1 .. n
    BY <1>2, <2>2
  <2> QED
    BY <1>3, <2>3
<1> QED
    BY <1>4

LEMMA VictimHolds ==
    ASSUME NEW S, NEW l \in Seq(S), l # <<>>
    PROVE  Clock!Victim(l) \in 1 .. Len(l)
<1> DEFINE unvisited == {i \in DOMAIN l : ~l[i].visited}
<1>1. Len(l) \in Nat \ {0} /\ unvisited \in SUBSET (1 .. Len(l))
    OBVIOUS
<1>2. Clock!Victim(l) = IF unvisited = {} THEN Len(l)
                        ELSE CHOOSE i \in unvisited : \A j \in unvisited : j <= i
    BY DEF Clock!Victim
<1> HIDE DEF unvisited
<1>3. unvisited # {} => \E i \in unvisited : \A j \in unvisited : j <= i
    BY <1>1, LargestPosition
<1>4. ASSUME unvisited # {}
      PROVE  (CHOOSE i \in unvisited : \A j \in unvisited : j <= i) \in unvisited
    BY <1>3, <1>4
<1>5. CASE unvisited = {}
    BY <1>1, <1>2, <1>5
<1>6. CASE unvisited # {}
  <2>1. Clock!Victim(l) \in unvisited
    BY <1>2, <1>4, <1>6, Zenon
  <2> QED
    BY <1>1, <2>1
<1> QED
    BY <1>5, <1>6

\* clock: each call does to the keys what it should.
LEMMA ClockHolds ==
    ASSUME NEW S, NEW stack, ClockList(stack, S), NEW k \in S
    PROVE  /\ ClockList(Clock!Insert(stack, k), S)
           /\ Clock!Keys(Clock!Insert(stack, k)) = Clock!Keys(stack) \cup {k}
           /\ ClockList(Clock!Update(stack, k), S)
           /\ Clock!Keys(Clock!Update(stack, k)) = Clock!Keys(stack)
           /\ ClockList(Clock!Remove(stack, k), S)
           /\ Clock!Keys(Clock!Remove(stack, k)) = Clock!Keys(stack) \ {k}
<1>1. stack \in Seq(Marked(S)) /\ Apart(stack) /\ Keyed(Marked(S), S)
    BY MarkedKeyed DEF ClockList
<1>2. \A l : Clock!Keys(l) = Lists!KeysOf(l)
    BY ClockLists
<1>3. /\ ClockList(Clock!Update(stack, k), S)
      /\ Clock!Keys(Clock!Update(stack, k)) = Clock!Keys(stack)
  <2>1. CASE k \in Lists!KeysOf(stack)
    <3>1. Clock!Update(stack, k) = Mark(stack, k)
        BY <2>1, ClockLists DEF Clock!Update, Mark
    <3>2. /\ Clock!Update(stack, k) \in Seq(Marked(S))
          /\ Lists!KeysOf(Clock!Update(stack, k)) = Lists!KeysOf(stack)
          /\ Apart(Clock!Update(stack, k))
        BY <1>1, <2>1, <3>1, MarkHolds
    <3> QED
        BY <1>2, <3>2 DEF ClockList
  <2>2. CASE k \notin Lists!KeysOf(stack)
    BY <1>1, <1>2, <2>2 DEF Clock!Update, ClockList
  <2> QED
    BY <2>1, <2>2
<1>4. /\ ClockList(Clock!Insert(stack, k), S)
      /\ Clock!Keys(Clock!Insert(stack, k)) = Clock!Keys(stack) \cup {k}
  <2>1. CASE k \in Lists!KeysOf(stack)
    <3>1. Clock!Insert(stack, k) = Clock!Update(stack, k)
        BY <1>2, <2>1 DEF Clock!Insert
    <3> QED
        BY <1>2, <1>3, <2>1, <3>1
  <2>2. CASE k \notin Lists!KeysOf(stack)
    <3> DEFINE o == [key |-> k, visited |-> FALSE]
    <3>1. Clock!Insert(stack, k) = <<o>> \o stack
        BY <1>2, <2>2 DEF Clock!Insert
    <3>2. o \in Marked(S) /\ o.key = k
        BY DEF Marked
    <3> HIDE DEF o
    <3>3. /\ <<o>> \o stack \in Seq(Marked(S))
          /\ Lists!KeysOf(<<o>> \o stack) = {o.key} \cup Lists!KeysOf(stack)
          /\ Apart(<<o>> \o stack) <=> Apart(stack) /\ o.key \notin Lists!KeysOf(stack)
        BY <1>1, <3>2, ObjectsPush
    <3> QED
        BY <1>1, <1>2, <2>2, <3>1, <3>2, <3>3 DEF ClockList
  <2> QED
    BY <2>1, <2>2
<1>5. /\ ClockList(Clock!Remove(stack, k), S)
      /\ Clock!Keys(Clock!Remove(stack, k)) = Clock!Keys(stack) \ {k}
  <2>1. Clock!Remove(stack, k) = Lists!OmitObject(stack, k)
    BY ClockLists DEF Clock!Remove
  <2>2. /\ Lists!OmitObject(stack, k) \in Seq(Marked(S)) /\ Apart(Lists!OmitObject(stack, k))
        /\ Lists!KeysOf(Lists!OmitObject(stack, k)) = Lists!KeysOf(stack) \ {k}
    BY <1>1, OmitObjectHolds
  <2> QED
    BY <1>2, <2>1, <2>2 DEF ClockList
<1> QED
    BY <1>3, <1>4, <1>5

LEMMA ClockEvicts ==
    ASSUME NEW S, NEW stack, ClockList(stack, S)
    PROVE  /\ ClockList(Clock!EvictOne(stack).stack, S)
           /\ GivesUp(Clock!EvictOne(stack), Clock!Keys(stack),
                      Clock!Keys(Clock!EvictOne(stack).stack))
<1>1. stack \in Seq(Marked(S)) /\ Apart(stack) /\ Keyed(Marked(S), S)
    BY MarkedKeyed DEF ClockList
<1>2. \A l : Clock!Keys(l) = Lists!KeysOf(l)
    BY ClockLists
<1>3. CASE stack = <<>>
  <2>1. Clock!EvictOne(stack).key = NoKey /\ Clock!EvictOne(stack).stack = stack
    BY <1>3 DEF Clock!EvictOne, Clock!Evicting
  <2>2. Lists!KeysOf(stack) = {}
    BY <1>3, KeyOrderEmpty
  <2> QED
    BY <1>2, <2>1, <2>2 DEF GivesUp
<1>4. CASE stack # <<>>
  <2> DEFINE i      == Clock!Victim(stack)
             before == SubSeq(stack, 1, i - 1)
             behind == SubSeq(stack, i + 1, Len(stack))
             last   == IF stack[i].visited THEN Clock!Cleared(before) ELSE before
             first  == Clock!Cleared(behind)
             k      == stack[i].key
  <2>1. Clock!EvictOne(stack).key = k /\ Clock!EvictOne(stack).stack = first \o last
    BY <1>4 DEF Clock!EvictOne, Clock!Evicting
  <2>2. i \in 1 .. Len(stack)
    BY <1>1, <1>4, VictimHolds
  <2> HIDE DEF i
  <2>3. /\ before \in Seq(Marked(S)) /\ behind \in Seq(Marked(S)) /\ k \in S
        /\ Lists!KeysOf(stack) = Lists!KeysOf(before) \cup {k} \cup Lists!KeysOf(behind)
        /\ Apart(before) /\ Apart(behind)
        /\ Lists!KeysOf(before) \cap Lists!KeysOf(behind) = {}
        /\ k \notin Lists!KeysOf(before) \cup Lists!KeysOf(behind)
    BY <1>1, <2>2, ObjectsSplit
  <2> HIDE DEF before, behind
  <2>4. first \in Seq(Marked(S)) /\ Lists!KeysOf(first) = Lists!KeysOf(behind) /\ Apart(first)
    BY <2>3, ClearedHolds
  <2>5. last \in Seq(Marked(S)) /\ Lists!KeysOf(last) = Lists!KeysOf(before) /\ Apart(last)
    BY <2>3, ClearedHolds
  <2> HIDE DEF first, last, k
  <2>6. /\ first \o last \in Seq(Marked(S))
        /\ Lists!KeysOf(first \o last) = Lists!KeysOf(first) \cup Lists!KeysOf(last)
        /\ Apart(first \o last) <=>
             Apart(first) /\ Apart(last) /\ Lists!KeysOf(first) \cap Lists!KeysOf(last) = {}
    BY <1>1, <2>4, <2>5, ObjectsConcat
  <2> QED
    BY <1>2, <2>1, <2>3, <2>4, <2>5, <2>6 DEF ClockList, GivesUp
<1> QED
    BY <1>3, <1>4

-----------------------------------------------------------------------------
(***************************************************************************)
(* sieve                                                                   *)
(***************************************************************************)

\* The hand names an object of the list, if any.
SieveList(stack, S) ==
    /\ stack = [list |-> stack.list, hand |-> stack.hand]
    /\ stack.list \in Seq(Marked(S)) /\ Apart(stack.list)
    /\ stack.hand \in Lists!KeysOf(stack.list) \cup {NoKey}

LEMMA SieveLists ==
    /\ \A l : Sieve!KeysOf(l) = Lists!KeysOf(l)
    /\ \A st : Sieve!Keys(st) = Lists!KeysOf(st.list)
    /\ \A l, k : /\ Sieve!PositionOf(l, k) = Lists!PositionOf(l, k)
                 /\ Sieve!OmitObject(l, k) = Lists!OmitObject(l, k)
                 /\ Sieve!KeyBefore(l, k) = Lists!KeyBefore(l, k)
<1>1. \A l : Sieve!KeysOf(l) = Lists!KeysOf(l)
    BY DEF Sieve!KeysOf, Lists!KeysOf
<1>2. \A l, k : Sieve!PositionOf(l, k) = Lists!PositionOf(l, k)
    BY DEF Sieve!PositionOf, Lists!PositionOf
<1>3. \A l, i : Sieve!WithoutAt(l, i) = Lists!WithoutAt(l, i)
    BY DEF Sieve!WithoutAt, Lists!WithoutAt
<1>4. \A l, k : Sieve!OmitObject(l, k) = Lists!OmitObject(l, k)
    BY <1>1, <1>2, <1>3 DEF Sieve!OmitObject, Lists!OmitObject
<1>5. \A l, k : Sieve!KeyBefore(l, k) = Lists!KeyBefore(l, k)
    BY <1>1, <1>2 DEF Sieve!KeyBefore, Lists!KeyBefore
<1>6. \A st : Sieve!Keys(st) = Lists!KeysOf(st.list)
    BY <1>1 DEF Sieve!Keys
<1> QED
    BY <1>1, <1>2, <1>4, <1>5, <1>6

\* The key in front of a key is another key of the list.
LEMMA KeyBeforeHolds ==
    ASSUME NEW S, NEW l \in Seq(Marked(S)), Apart(l), NEW k
    PROVE  Lists!KeyBefore(l, k) \in (Lists!KeysOf(l) \ {k}) \cup {NoKey}
<1> SUFFICES ASSUME k \in Lists!KeysOf(l), Lists!PositionOf(l, k) > 1
             PROVE  Lists!KeyBefore(l, k) \in Lists!KeysOf(l) \ {k}
    BY DEF Lists!KeyBefore
<1> DEFINE i == Lists!PositionOf(l, k)
<1>1. i \in 1 .. Len(l) /\ l[i].key = k
    BY PositionHolds
<1>2. Lists!KeyBefore(l, k) = l[i - 1].key
    BY DEF Lists!KeyBefore
<1>3. i > 1
    OBVIOUS
<1> HIDE DEF i
<1>4. Len(l) \in Nat /\ DOMAIN l = 1 .. Len(l) /\ i - 1 \in 1 .. Len(l) /\ i - 1 # i
    BY <1>1, <1>3
<1>5. l[i - 1].key \in Lists!KeysOf(l)
    BY <1>4 DEF Lists!KeysOf
<1>6. \A a, b \in DOMAIN l : l[a].key = l[b].key => a = b
    BY DEF Apart, Once, Lists!NoRepeats, InKeyOrder
<1>7. l[i - 1].key # k
    BY <1>1, <1>4, <1>6
<1> QED
    BY <1>2, <1>5, <1>7

\* Every position evict_one looks at is one of the list.
LEMMA LookedAtHolds ==
    ASSUME NEW S, NEW stack, SieveList(stack, S), stack.list # <<>>,
           NEW j \in 0 .. Len(stack.list)
    PROVE  Sieve!LookedAt(stack, j) \in 1 .. Len(stack.list)
<1> DEFINE n     == Len(stack.list)
           start == IF stack.hand = NoKey THEN n ELSE Lists!PositionOf(stack.list, stack.hand)
<1>1. stack.list \in Seq(Marked(S))
    BY DEF SieveList
<1>2. n \in Nat \ {0}
    BY <1>1
<1>3. start \in 1 .. n
  <2>1. CASE stack.hand = NoKey
    BY <1>2, <2>1
  <2>2. CASE stack.hand # NoKey
    <3>1. stack.hand \in Lists!KeysOf(stack.list)
        BY <2>2 DEF SieveList
    <3> QED
        BY <1>1, <2>2, <3>1, PositionHolds
  <2> QED
    BY <2>1, <2>2
<1>4. Sieve!LookedAt(stack, j) = 1 + ((start - 1 + n - j) % n)
    BY SieveLists DEF Sieve!LookedAt
<1> HIDE DEF start
<1>5. start - 1 + n - j \in Nat
    BY <1>2, <1>3
<1> DEFINE m == start - 1 + n - j
<1>6. m \in Nat /\ Sieve!LookedAt(stack, j) = 1 + (m % n)
    BY <1>4, <1>5
<1> HIDE DEF m, n
<1>7. m % n \in 0 .. n - 1
    BY <1>2, <1>6
<1> QED
    BY <1>2, <1>6, <1>7 DEF n

\* The search ends at the first object that is not marked, or is round again.
LEMMA PassesHolds ==
    ASSUME NEW S, NEW stack, SieveList(stack, S), stack.list # <<>>
    PROVE  LET n       == Len(stack.list)
               passes  == Sieve!Passes(stack)
           IN  /\ passes \in 0 .. n
               /\ \A j \in 0 .. passes - 1 : stack.list[Sieve!LookedAt(stack, j)].visited
               /\ passes = n \/ ~stack.list[Sieve!LookedAt(stack, passes)].visited
<1> DEFINE n == Len(stack.list)
           visited(j) == stack.list[Sieve!LookedAt(stack, j)].visited
           T == {m \in 0 .. n : m = n \/ ~visited(m)}
<1>1. n \in Nat
    BY DEF SieveList
<1>2. Sieve!Passes(stack) = CHOOSE m \in 0 .. n :
                                /\ \A j \in 0 .. m - 1 : visited(j)
                                /\ m = n \/ ~visited(m)
    BY DEF Sieve!Passes
<1> HIDE DEF visited, n
<1>3. T \in SUBSET Nat /\ n \in T
    BY <1>1
<1>4. PICK m \in T : \A k \in T : m <= k
  <2> HIDE DEF T
  <2> QED
    BY <1>3, Lemmas!LeastElement
<1>5. m \in 0 .. n /\ (m = n \/ ~visited(m))
    OBVIOUS
<1>6. \A j \in 0 .. m - 1 : visited(j)
  <2> SUFFICES ASSUME NEW j \in 0 .. m - 1, ~visited(j) PROVE FALSE
    OBVIOUS
  <2>1. j \in 0 .. n /\ ~(m <= j)
    BY <1>1, <1>5
  <2>2. j \in T
    BY <2>1
  <2> QED
    BY <1>4, <2>1, <2>2
<1>7. \E i \in 0 .. n : /\ \A j \in 0 .. i - 1 : visited(j)
                        /\ i = n \/ ~visited(i)
    BY <1>5, <1>6, Zenon
<1> DEFINE passes == Sieve!Passes(stack)
<1>8. /\ passes \in 0 .. n
      /\ \A j \in 0 .. passes - 1 : visited(j)
      /\ passes = n \/ ~visited(passes)
    BY <1>2, <1>7
<1> QED
    BY <1>8 DEF n, visited

\* sieve: each call does to the keys what it should.
LEMMA SieveHolds ==
    ASSUME NEW S, NEW stack, SieveList(stack, S), NEW k \in S
    PROVE  /\ SieveList(Sieve!Insert(stack, k), S)
           /\ Sieve!Keys(Sieve!Insert(stack, k)) = Sieve!Keys(stack) \cup {k}
           /\ SieveList(Sieve!Update(stack, k), S)
           /\ Sieve!Keys(Sieve!Update(stack, k)) = Sieve!Keys(stack)
           /\ SieveList(Sieve!Remove(stack, k), S)
           /\ Sieve!Keys(Sieve!Remove(stack, k)) = Sieve!Keys(stack) \ {k}
<1> DEFINE list == stack.list
           hand == stack.hand
<1>1. /\ stack = [list |-> list, hand |-> hand]
      /\ list \in Seq(Marked(S)) /\ Apart(list) /\ Keyed(Marked(S), S)
      /\ hand \in Lists!KeysOf(list) \cup {NoKey}
    BY MarkedKeyed DEF SieveList
<1> HIDE DEF list, hand
<1>2. \A l, h : Sieve!Keys([list |-> l, hand |-> h]) = Lists!KeysOf(l)
    BY SieveLists
<1>3. Sieve!Keys(stack) = Lists!KeysOf(list)
    BY <1>1, <1>2
<1>4. /\ SieveList(Sieve!Update(stack, k), S)
      /\ Sieve!Keys(Sieve!Update(stack, k)) = Sieve!Keys(stack)
  <2>1. CASE k \in Lists!KeysOf(list)
    <3> DEFINE m == Mark(list, k)
    <3>1. Sieve!Update(stack, k) = [list |-> m, hand |-> hand]
        BY <1>1, <1>3, <2>1, SieveLists DEF Sieve!Update, Mark
    <3>2. m \in Seq(Marked(S)) /\ Lists!KeysOf(m) = Lists!KeysOf(list) /\ Apart(m)
        BY <1>1, <2>1, MarkHolds
    <3> HIDE DEF m
    <3> QED
        BY <1>1, <1>2, <1>3, <3>1, <3>2 DEF SieveList
  <2>2. CASE k \notin Lists!KeysOf(list)
    BY <1>3, <2>2 DEF Sieve!Update
  <2> QED
    BY <2>1, <2>2
<1>5. /\ SieveList(Sieve!Insert(stack, k), S)
      /\ Sieve!Keys(Sieve!Insert(stack, k)) = Sieve!Keys(stack) \cup {k}
  <2>1. CASE k \in Lists!KeysOf(list)
    BY <1>3, <1>4, <2>1 DEF Sieve!Insert
  <2>2. CASE k \notin Lists!KeysOf(list)
    <3> DEFINE o == [key |-> k, visited |-> FALSE]
               m == <<o>> \o list
    <3>1. Sieve!Insert(stack, k) = [list |-> m, hand |-> hand]
        BY <1>1, <1>3, <2>2 DEF Sieve!Insert
    <3>2. o \in Marked(S) /\ o.key = k
        BY DEF Marked
    <3> HIDE DEF o
    <3>3. m \in Seq(Marked(S)) /\ Lists!KeysOf(m) = Lists!KeysOf(list) \cup {k} /\ Apart(m)
        BY <1>1, <2>2, <3>2, ObjectsPush
    <3> HIDE DEF m
    <3> QED
        BY <1>1, <1>2, <1>3, <3>1, <3>3 DEF SieveList
  <2> QED
    BY <2>1, <2>2
<1>6. /\ SieveList(Sieve!Remove(stack, k), S)
      /\ Sieve!Keys(Sieve!Remove(stack, k)) = Sieve!Keys(stack) \ {k}
  <2> DEFINE m == Lists!OmitObject(list, k)
             h == Lists!KeyBefore(list, k)
  <2>1. Sieve!Remove(stack, k) = [list |-> m, hand |-> h]
    BY SieveLists DEF Sieve!Remove, list
  <2>2. m \in Seq(Marked(S)) /\ Lists!KeysOf(m) = Lists!KeysOf(list) \ {k} /\ Apart(m)
    BY <1>1, OmitObjectHolds
  <2>3. h \in (Lists!KeysOf(list) \ {k}) \cup {NoKey}
    BY <1>1, KeyBeforeHolds
  <2> HIDE DEF m, h
  <2> QED
    BY <1>2, <1>3, <2>1, <2>2, <2>3 DEF SieveList
<1> QED
    BY <1>4, <1>5, <1>6

LEMMA SieveEvicts ==
    ASSUME NEW S, NEW stack, SieveList(stack, S)
    PROVE  /\ SieveList(Sieve!EvictOne(stack).stack, S)
           /\ GivesUp(Sieve!EvictOne(stack), Sieve!Keys(stack),
                      Sieve!Keys(Sieve!EvictOne(stack).stack))
<1> DEFINE list == stack.list
<1>1. /\ stack = [list |-> list, hand |-> stack.hand]
      /\ list \in Seq(Marked(S)) /\ Apart(list) /\ Keyed(Marked(S), S)
      /\ stack.hand \in Lists!KeysOf(list) \cup {NoKey}
    BY MarkedKeyed DEF SieveList
<1>2. \A l, h : Sieve!Keys([list |-> l, hand |-> h]) = Lists!KeysOf(l)
    BY SieveLists
<1>3. Sieve!Keys(stack) = Lists!KeysOf(list)
    BY SieveLists
<1>4. CASE list = <<>>
  <2>1. /\ Sieve!EvictOne(stack).key = NoKey
        /\ Sieve!EvictOne(stack).stack = [list |-> list, hand |-> NoKey]
    BY <1>1, <1>4 DEF Sieve!EvictOne, Sieve!Evicting
  <2>2. Lists!KeysOf(list) = {}
    BY <1>4, KeyOrderEmpty
  <2> HIDE DEF list
  <2> QED
    BY <1>1, <1>2, <1>3, <2>1, <2>2 DEF GivesUp, SieveList
<1>5. CASE list # <<>>
  <2> DEFINE passes  == Sieve!Passes(stack)
             p       == Sieve!LookedAt(stack, passes % Len(list))
             k       == list[p].key
             passed  == {Sieve!LookedAt(stack, j) : j \in 0 .. passes - 1}
             cleared == [i \in DOMAIN list |-> [list[i] EXCEPT !.visited = @ /\ i \notin passed]]
             m       == Lists!OmitObject(cleared, k)
             h       == Lists!KeyBefore(list, k)
  <2>1. /\ Sieve!EvictOne(stack).key = k
        /\ Sieve!EvictOne(stack).stack = [list |-> m, hand |-> h]
    <3>1. ~(stack.list = <<>> \/ (stack.hand # NoKey /\ stack.hand \notin Sieve!Keys(stack)))
        BY <1>1, <1>3, <1>5
    <3> QED
        BY <3>1, SieveLists DEF Sieve!EvictOne, Sieve!Evicting
  <2>2. p \in 1 .. Len(list)
    <3>1. passes \in Nat /\ Len(list) \in Nat \ {0}
        BY <1>1, <1>5, PassesHolds
    <3> HIDE DEF passes, list
    <3>2. passes % Len(list) \in 0 .. Len(list)
        BY <3>1
    <3> QED
        BY <1>5, <3>2, LookedAtHolds DEF list
  <2> HIDE DEF p, passed
  <2>3. k \in Lists!KeysOf(list)
    BY <1>1, <2>2 DEF Lists!KeysOf
  <2>4. cleared \in Seq(Marked(S)) /\ Lists!KeysOf(cleared) = Lists!KeysOf(list) /\ Apart(cleared)
    <3>1. DOMAIN list = 1 .. Len(list) /\ Len(list) \in Nat /\ \A i \in 1 .. Len(list) : list[i] \in Marked(S)
        BY <1>1
    <3> HIDE DEF list
    <3> DEFINE e(i) == [list[i] EXCEPT !.visited = list[i].visited /\ i \notin passed]
    <3>2. \A i \in 1 .. Len(list) : e(i) \in Marked(S) /\ e(i).key = list[i].key
        BY <3>1 DEF Marked
    <3>3. cleared = [i \in 1 .. Len(list) |-> e(i)]
        BY <3>1
    <3> HIDE DEF e, cleared
    <3>4. \A i \in 1 .. Len(list) : cleared[i] \in Marked(S) /\ cleared[i].key = list[i].key
        BY <3>2, <3>3, Zenon
    <3>5. cleared = [i \in 1 .. Len(list) |-> cleared[i]]
        BY <3>3, Zenon
    <3>6. cleared \in Seq(Marked(S))
        BY <3>1, <3>4, <3>5, Lemmas!FunctionIsSeq
    <3>7. Len(cleared) = Len(list)
        BY <3>1, <3>5, <3>6
    <3> QED
        BY <1>1, <3>4, <3>6, <3>7, SameKeys
  <2> HIDE DEF cleared, k
  <2>5. m \in Seq(Marked(S)) /\ Lists!KeysOf(m) = Lists!KeysOf(list) \ {k} /\ Apart(m)
    BY <1>1, <2>4, OmitObjectHolds
  <2>6. h \in (Lists!KeysOf(list) \ {k}) \cup {NoKey}
    BY <1>1, KeyBeforeHolds
  <2> HIDE DEF m, h, list
  <2> QED
    BY <1>2, <1>3, <2>1, <2>3, <2>5, <2>6 DEF SieveList, GivesUp
<1> QED
    BY <1>4, <1>5

-----------------------------------------------------------------------------
(***************************************************************************)
(* Sums of sizes                                                           *)
(***************************************************************************)

\* The objects of O have sizes.
Sizeable(O) == \A o \in O : o.size \in Nat

\* f adds up the sizes of the first objects, up to each of the first n.
Sums(f, l, n) == f = [i \in 0 .. n |-> IF i = 0 THEN 0 ELSE f[i - 1] + l[i].size]

LEMMA SumsAt ==
    ASSUME NEW l, NEW n, NEW f, Sums(f, l, n), NEW i \in 0 .. n
    PROVE  f[i] = IF i = 0 THEN 0 ELSE f[i - 1] + l[i].size
<1> DEFINE g == [j \in 0 .. n |-> IF j = 0 THEN 0 ELSE f[j - 1] + l[j].size]
<1>1. f = g
    BY DEF Sums
<1>2. g[i] = IF i = 0 THEN 0 ELSE f[i - 1] + l[i].size
    OBVIOUS
<1> HIDE DEF g
<1> QED
    BY <1>1, <1>2

LEMMA SumsExist ==
    ASSUME NEW l, NEW n \in Nat
    PROVE  \E f : Sums(f, l, n)
<1> DEFINE T == {k \in Nat : \E f : Sums(f, l, k)}
<1>1. 0 \in T
  <2> DEFINE f == [i \in 0 .. 0 |-> 0]
             g == [i \in 0 .. 0 |-> IF i = 0 THEN 0 ELSE f[i - 1] + l[i].size]
  <2>1. f = g
    OBVIOUS
  <2> HIDE DEF f
  <2>2. Sums(f, l, 0)
    BY <2>1 DEF Sums
  <2> QED
    BY <2>2
<1>2. ASSUME NEW k \in Nat, k \in T PROVE k + 1 \in T
  <2>1. PICK f : Sums(f, l, k)
    BY <1>2
  <2>2. f = [i \in 0 .. k |-> IF i = 0 THEN 0 ELSE f[i - 1] + l[i].size]
    BY <2>1 DEF Sums
  <2> DEFINE g == [i \in 0 .. k + 1 |-> IF i \in 0 .. k THEN f[i]
                                        ELSE f[i - 1] + l[i].size]
             h == [i \in 0 .. k + 1 |-> IF i = 0 THEN 0 ELSE g[i - 1] + l[i].size]
  <2>3. \A i \in 0 .. k + 1 : g[i] = h[i]
    <3> SUFFICES ASSUME NEW i \in 0 .. k + 1 PROVE g[i] = h[i]
        OBVIOUS
    <3>1. CASE i = 0
        BY <2>2, <3>1
    <3>2. CASE i # 0
      <4>1. i - 1 \in 0 .. k /\ g[i - 1] = f[i - 1]
        BY <3>2
      <4>2. g[i] = f[i - 1] + l[i].size
        BY <2>2, <3>2
      <4> QED
        BY <3>2, <4>1, <4>2
    <3> QED
        BY <3>1, <3>2
  <2>4. g = h
    BY <2>3
  <2> HIDE DEF g
  <2>5. Sums(g, l, k + 1)
    BY <2>4 DEF Sums
  <2> QED
    BY <2>5
<1> QED
    BY <1>1, <1>2, Lemmas!SetInduction

LEMMA SumOfSizesIs ==
    ASSUME NEW O, NEW l \in Seq(O)
    PROVE  \E f : Sums(f, l, Len(l)) /\ Lists!SumOfSizes(l) = f[Len(l)]
<1> DEFINE sum == CHOOSE f : Sums(f, l, Len(l))
<1>1. Sums(sum, l, Len(l))
    BY SumsExist
<1>2. Lists!SumOfSizes(l) = (CHOOSE f : f = [i \in 0 .. Len(l) |->
                                IF i = 0 THEN 0 ELSE f[i - 1] + l[i].size])[Len(l)]
    BY DEF Lists!SumOfSizes
<1>3. \A f : f = [i \in 0 .. Len(l) |-> IF i = 0 THEN 0 ELSE f[i - 1] + l[i].size]
                <=> Sums(f, l, Len(l))
    BY DEF Sums
<1> QED
    BY <1>1, <1>2, <1>3

LEMMA SumsAgree ==
    ASSUME NEW O, NEW l \in Seq(O), NEW o \in O, NEW f, NEW g,
           Sums(f, l, Len(l)), Sums(g, Append(l, o), Len(l) + 1)
    PROVE  \A i \in 0 .. Len(l) : f[i] = g[i]
<1> DEFINE n == Len(l)
           m == Append(l, o)
           T == {k \in Nat : k \in 0 .. n => f[k] = g[k]}
<1>1. n \in Nat /\ \A i \in 1 .. n : m[i] = l[i]
    OBVIOUS
<1>2. Sums(f, l, n) /\ Sums(g, m, n + 1)
    OBVIOUS
<1> HIDE DEF m, n
<1>3. /\ \A i \in 0 .. n : f[i] = IF i = 0 THEN 0 ELSE f[i - 1] + l[i].size
      /\ \A i \in 0 .. n + 1 : g[i] = IF i = 0 THEN 0 ELSE g[i - 1] + m[i].size
    BY <1>2, SumsAt
<1>4. 0 \in T
    BY <1>1, <1>3
<1>5. ASSUME NEW k \in Nat, k \in T PROVE k + 1 \in T
  <2> SUFFICES ASSUME k + 1 \in 0 .. n PROVE f[k + 1] = g[k + 1]
    OBVIOUS
  <2>1. k + 1 \in 1 .. n /\ (k + 1) - 1 = k /\ k + 1 \in 0 .. n + 1 /\ k \in 0 .. n
    BY <1>1
  <2>2. f[k + 1] = f[k] + l[k + 1].size /\ g[k + 1] = g[k] + m[k + 1].size
    BY <1>3, <2>1
  <2> QED
    BY <1>1, <1>5, <2>1, <2>2
<1>6. Nat \subseteq T
    BY <1>4, <1>5, Lemmas!SetInduction
<1> QED
    BY <1>1, <1>6 DEF n

\* The sum of no objects, and of one more.
LEMMA SumEmpty == Lists!SumOfSizes(<<>>) = 0
<1>1. <<>> \in Seq({})
    OBVIOUS
<1>2. PICK f : Sums(f, <<>>, Len(<<>>)) /\ Lists!SumOfSizes(<<>>) = f[Len(<<>>)]
    BY <1>1, SumOfSizesIs
<1>3. f[0] = 0
    BY <1>2, SumsAt
<1> QED
    BY <1>2, <1>3

LEMMA SumAppend ==
    ASSUME NEW O, NEW l \in Seq(O), NEW o \in O
    PROVE  Lists!SumOfSizes(Append(l, o)) = Lists!SumOfSizes(l) + o.size
<1> DEFINE m == Append(l, o)
           n == Len(l)
<1>1. m \in Seq(O) /\ n \in Nat /\ Len(m) = n + 1 /\ m[n + 1] = o
    OBVIOUS
<1>2. PICK f : Sums(f, l, n) /\ Lists!SumOfSizes(l) = f[n]
    BY SumOfSizesIs
<1> HIDE DEF m
<1>3. PICK g : Sums(g, m, n + 1) /\ Lists!SumOfSizes(m) = g[n + 1]
    BY <1>1, SumOfSizesIs
<1>4. f[n] = g[n]
    BY <1>1, <1>2, <1>3, SumsAgree DEF m
<1>5. g[n + 1] = g[n] + m[n + 1].size
  <2>1. n + 1 \in 0 .. n + 1 /\ n + 1 # 0 /\ (n + 1) - 1 = n
    BY <1>1
  <2> HIDE DEF n
  <2>2. g[n + 1] = IF n + 1 = 0 THEN 0 ELSE g[(n + 1) - 1] + m[n + 1].size
    BY <1>3, <2>1, SumsAt
  <2> QED
    BY <2>1, <2>2
<1> QED
    BY <1>1, <1>2, <1>3, <1>4, <1>5 DEF m

LEMMA SumOne ==
    ASSUME NEW O, Sizeable(O), NEW o \in O
    PROVE  Lists!SumOfSizes(<<o>>) = o.size
<1>1. <<>> \in Seq(O) /\ <<o>> = Append(<<>>, o)
    OBVIOUS
<1>2. Lists!SumOfSizes(Append(<<>>, o)) = Lists!SumOfSizes(<<>>) + o.size
    BY <1>1, SumAppend
<1>3. o.size \in Nat
    BY DEF Sizeable
<1> QED
    BY <1>1, <1>2, <1>3, SumEmpty

\* Of two lists, one after the other.
LEMMA SumConcat ==
    ASSUME NEW O, Sizeable(O), NEW l \in Seq(O), NEW m \in Seq(O)
    PROVE  /\ Lists!SumOfSizes(l) \in Nat
           /\ Lists!SumOfSizes(l \o m) = Lists!SumOfSizes(l) + Lists!SumOfSizes(m)
<1> DEFINE P(n) == \A t \in Seq(O) : Len(t) = n =>
                       /\ Lists!SumOfSizes(t) \in Nat
                       /\ \A u \in Seq(O) :
                              Lists!SumOfSizes(u \o t) = Lists!SumOfSizes(u) + Lists!SumOfSizes(t)
           T == {n \in Nat : P(n)}
<1>0. \A t \in Seq(O) : Lists!SumOfSizes(t) \in Nat
  <2> DEFINE U == {n \in Nat : \A t \in Seq(O) : Len(t) = n => Lists!SumOfSizes(t) \in Nat}
  <2>1. 0 \in U
    <3> SUFFICES ASSUME NEW t \in Seq(O), Len(t) = 0 PROVE Lists!SumOfSizes(t) \in Nat
        OBVIOUS
    <3>1. t = <<>>
        BY EmptySeq
    <3> QED
        BY <3>1, SumEmpty
  <2>2. ASSUME NEW n \in Nat, n \in U PROVE n + 1 \in U
    <3> SUFFICES ASSUME NEW t \in Seq(O), Len(t) = n + 1 PROVE Lists!SumOfSizes(t) \in Nat
        OBVIOUS
    <3>1. t # <<>>
        OBVIOUS
    <3>2. PICK front \in Seq(O), last \in O : t = Append(front, last) /\ Len(t) = Len(front) + 1
        BY <3>1, Lemmas!LastApart
    <3>3. Len(front) = n
        BY <3>2
    <3>4. Lists!SumOfSizes(front) \in Nat /\ last.size \in Nat
        BY <2>2, <3>3 DEF Sizeable
    <3>5. Lists!SumOfSizes(t) = Lists!SumOfSizes(front) + last.size
        BY <3>2, SumAppend
    <3> QED
        BY <3>4, <3>5
  <2>3. Nat \subseteq U
    BY <2>1, <2>2, Lemmas!SetInduction
  <2> QED
    BY <2>3
<1>1. 0 \in T
  <2> SUFFICES ASSUME NEW t \in Seq(O), Len(t) = 0, NEW u \in Seq(O)
               PROVE  Lists!SumOfSizes(u \o t) = Lists!SumOfSizes(u) + Lists!SumOfSizes(t)
    BY <1>0
  <2>1. t = <<>>
    BY EmptySeq
  <2>2. u \o t = u
    BY <2>1
  <2>3. Lists!SumOfSizes(t) = 0 /\ Lists!SumOfSizes(u) \in Nat
    BY <1>0, <2>1, SumEmpty
  <2> QED
    BY <2>2, <2>3
<1>2. ASSUME NEW n \in Nat, n \in T PROVE n + 1 \in T
  <2> SUFFICES ASSUME NEW t \in Seq(O), Len(t) = n + 1, NEW u \in Seq(O)
               PROVE  Lists!SumOfSizes(u \o t) = Lists!SumOfSizes(u) + Lists!SumOfSizes(t)
    BY <1>0
  <2>1. t # <<>>
    OBVIOUS
  <2>2. PICK front \in Seq(O), last \in O : t = Append(front, last) /\ Len(t) = Len(front) + 1
    BY <2>1, Lemmas!LastApart
  <2>3. Len(front) = n
    BY <2>2
  <2> DEFINE w == u \o front
  <2>4. u \o t = Append(w, last) /\ w \in Seq(O)
    BY <2>2
  <2>5. Lists!SumOfSizes(w) = Lists!SumOfSizes(u) + Lists!SumOfSizes(front)
    BY <1>2, <2>3
  <2> HIDE DEF w
  <2>6. /\ Lists!SumOfSizes(Append(w, last)) = Lists!SumOfSizes(w) + last.size
        /\ Lists!SumOfSizes(t) = Lists!SumOfSizes(front) + last.size
    BY <2>2, <2>4, SumAppend
  <2>7. /\ Lists!SumOfSizes(u) \in Nat /\ Lists!SumOfSizes(front) \in Nat /\ last.size \in Nat
    BY <1>0 DEF Sizeable
  <2> QED
    BY <2>4, <2>5, <2>6, <2>7
<1>3. Nat \subseteq T
    BY <1>1, <1>2, Lemmas!SetInduction
<1> QED
    BY <1>0, <1>3

-----------------------------------------------------------------------------
(***************************************************************************)
(* Lists with the sum of their sizes                                       *)
(***************************************************************************)

\* The objects of O have keys of S, and sizes.
Sound(O, S) == Keyed(O, S) /\ Sizeable(O)

\* A list of objects, no two with a key in common, and the sum of their sizes.
SizedList(st, O) ==
    /\ st = [list |-> st.list, used |-> st.used]
    /\ st.list \in Seq(O) /\ Apart(st.list)
    /\ st.used = Lists!SumOfSizes(st.list)

KeysHeld(st) == Lists!KeysOf(st.list)

LEMMA SumIsNat ==
    ASSUME NEW O, Sizeable(O), NEW l \in Seq(O)
    PROVE  Lists!SumOfSizes(l) \in Nat
  BY SumConcat

LEMMA SizedEmpty ==
    ASSUME NEW O
    PROVE  SizedList(Lists!NoStack, O) /\ KeysHeld(Lists!NoStack) = {}
  BY KeyOrderEmpty, SumEmpty DEF SizedList, Lists!NoStack, KeysHeld

\* push.
LEMMA SizedPush ==
    ASSUME NEW O, NEW S, Sound(O, S), NEW st, SizedList(st, O), NEW o \in O,
           o.key \notin KeysHeld(st)
    PROVE  /\ SizedList(Lists!Push(st, o), O)
           /\ KeysHeld(Lists!Push(st, o)) = KeysHeld(st) \cup {o.key}
<1> DEFINE l == st.list
           m == <<o>> \o l
<1>1. Lists!Push(st, o) = [list |-> m, used |-> st.used + o.size]
    BY DEF Lists!Push
<1>2. /\ l \in Seq(O) /\ Apart(l) /\ st.used = Lists!SumOfSizes(l) /\ KeysHeld(st) = Lists!KeysOf(l)
      /\ Keyed(O, S) /\ Sizeable(O) /\ o.size \in Nat
    BY DEF SizedList, KeysHeld, Sound, Sizeable
<1> HIDE DEF l
<1>3. m \in Seq(O) /\ Lists!KeysOf(m) = Lists!KeysOf(l) \cup {o.key} /\ Apart(m)
    BY <1>2, ObjectsPush
<1>4. Lists!SumOfSizes(m) = Lists!SumOfSizes(l) + o.size
  <2> DEFINE e == <<o>>
  <2>1. e \in Seq(O) /\ Lists!SumOfSizes(e) = o.size
    BY <1>2, SumOne
  <2> HIDE DEF e
  <2>2. Lists!SumOfSizes(e \o l) = Lists!SumOfSizes(e) + Lists!SumOfSizes(l)
    BY <1>2, <2>1, SumConcat
  <2>3. Lists!SumOfSizes(l) \in Nat
    BY <1>2, SumIsNat
  <2> QED
    BY <1>2, <2>1, <2>2, <2>3 DEF e
<1> HIDE DEF m
<1> QED
    BY <1>1, <1>2, <1>3, <1>4 DEF SizedList, KeysHeld

\* What is left of a list that an object is taken out of.
LEMMA SumWithoutAt ==
    ASSUME NEW O, Sizeable(O), NEW l \in Seq(O), NEW i \in 1 .. Len(l)
    PROVE  /\ Lists!SumOfSizes(Lists!WithoutAt(l, i)) \in Nat /\ l[i].size \in Nat
           /\ Lists!SumOfSizes(l) = Lists!SumOfSizes(Lists!WithoutAt(l, i)) + l[i].size
<1>1. PICK a, b \in Seq(O) : l = (a \o <<l[i]>>) \o b /\ Lists!WithoutAt(l, i) = a \o b
  <2>1. Around(l, i, O)
    BY SplitAround
  <2> QED
    BY <2>1, Zenon DEF Around
<1> DEFINE e == <<l[i]>>
           c == a \o e
           x == l[i].size
<1>2. l = c \o b
    BY <1>1
<1>3. e \in Seq(O) /\ Lists!SumOfSizes(e) = x /\ x \in Nat
    BY SumOne DEF Sizeable
<1> HIDE DEF e, x
<1>4. c \in Seq(O) /\ Lists!SumOfSizes(c) = Lists!SumOfSizes(a) + Lists!SumOfSizes(e)
    BY <1>3, SumConcat
<1> HIDE DEF c
<1>5. Lists!SumOfSizes(c \o b) = Lists!SumOfSizes(c) + Lists!SumOfSizes(b)
    BY <1>4, SumConcat
<1>6. Lists!SumOfSizes(a \o b) = Lists!SumOfSizes(a) + Lists!SumOfSizes(b)
    BY SumConcat
<1>7. Lists!SumOfSizes(a) \in Nat /\ Lists!SumOfSizes(b) \in Nat
    BY SumIsNat
<1>8. Lists!SumOfSizes(a \o b) \in Nat
    BY <1>6, <1>7
<1> QED
    BY <1>1, <1>2, <1>3, <1>4, <1>5, <1>6, <1>7, <1>8 DEF x

\* remove.
LEMMA SizedWithout ==
    ASSUME NEW O, NEW S, Sound(O, S), NEW st, SizedList(st, O), NEW k
    PROVE  /\ SizedList(Lists!Without(st, k), O)
           /\ KeysHeld(Lists!Without(st, k)) = KeysHeld(st) \ {k}
<1> DEFINE l == st.list
<1>1. /\ l \in Seq(O) /\ Apart(l) /\ st.used = Lists!SumOfSizes(l) /\ KeysHeld(st) = Lists!KeysOf(l)
      /\ Keyed(O, S) /\ Sizeable(O)
    BY DEF SizedList, KeysHeld, Sound
<1>2. CASE k \in Lists!KeysOf(l)
  <2> DEFINE i == Lists!PositionOf(l, k)
             m == Lists!OmitObject(l, k)
  <2>1. Lists!Without(st, k) = [list |-> m, used |-> st.used - l[i].size]
    BY <1>2 DEF Lists!Without, Lists!Holds, Lists!ObjectOf
  <2>2. i \in 1 .. Len(l) /\ m = Lists!WithoutAt(l, i)
    BY <1>1, <1>2, PositionHolds DEF Lists!OmitObject
  <2>3. m \in Seq(O) /\ Apart(m) /\ Lists!KeysOf(m) = Lists!KeysOf(l) \ {k}
    BY <1>1, OmitObjectHolds
  <2> HIDE DEF i, l, m
  <2>4. /\ Lists!SumOfSizes(m) \in Nat /\ l[i].size \in Nat
        /\ Lists!SumOfSizes(l) = Lists!SumOfSizes(m) + l[i].size
    BY <1>1, <2>2, SumWithoutAt
  <2>5. Lists!SumOfSizes(m) = st.used - l[i].size
    BY <1>1, <2>4
  <2> QED
    BY <1>1, <2>1, <2>3, <2>5 DEF SizedList, KeysHeld
<1>3. CASE k \notin Lists!KeysOf(l)
  <2>1. Lists!Without(st, k) = st
    BY <1>3 DEF Lists!Without, Lists!Holds
  <2> QED
    BY <1>1, <1>3, <2>1
<1> QED
    BY <1>2, <1>3

\* pop.
LEMMA SizedRest ==
    ASSUME NEW O, NEW S, Sound(O, S), NEW st, SizedList(st, O), st.list # <<>>
    PROVE  /\ SizedList(Lists!Rest(st), O)
           /\ Lists!Popped(st) \in O /\ Lists!Popped(st).key \in KeysHeld(st)
           /\ KeysHeld(Lists!Rest(st)) = KeysHeld(st) \ {Lists!Popped(st).key}
<1> DEFINE l == st.list
           x == Lists!Back(l)
           m == Lists!WithoutBack(l)
<1>1. /\ l \in Seq(O) /\ Apart(l) /\ st.used = Lists!SumOfSizes(l) /\ KeysHeld(st) = Lists!KeysOf(l)
      /\ Keyed(O, S) /\ Sizeable(O) /\ l # <<>>
    BY DEF SizedList, KeysHeld, Sound
<1>2. Lists!Rest(st) = [list |-> m, used |-> st.used - x.size] /\ Lists!Popped(st) = x
    BY DEF Lists!Rest, Lists!Popped
<1> HIDE DEF l
<1>3. /\ x \in O /\ m \in Seq(O) /\ Lists!KeysOf(l) = Lists!KeysOf(m) \cup {x.key}
      /\ Apart(m) /\ x.key \notin Lists!KeysOf(m)
    BY <1>1, ObjectsBack
<1>4. l = m \o <<x>>
    BY <1>1, BackHolds
<1> HIDE DEF m, x
<1> DEFINE e == <<x>>
<1>5. e \in Seq(O) /\ Lists!SumOfSizes(e) = x.size /\ x.size \in Nat
    BY <1>1, <1>3, SumOne DEF Sizeable
<1>6. l = m \o e
    BY <1>4
<1> HIDE DEF e
<1>7. Lists!SumOfSizes(m \o e) = Lists!SumOfSizes(m) + Lists!SumOfSizes(e)
    BY <1>1, <1>3, <1>5, SumConcat
<1>8. Lists!SumOfSizes(m) \in Nat
    BY <1>1, <1>3, SumIsNat
<1>9. Lists!SumOfSizes(m) = st.used - x.size
    BY <1>1, <1>5, <1>6, <1>7, <1>8
<1> QED
    BY <1>1, <1>2, <1>3, <1>9 DEF SizedList, KeysHeld

\* An object may have any of these sizes.
Resizable(O, s) == \A o \in O : [o EXCEPT !.size = s] \in O /\ [o EXCEPT !.size = s].key = o.key
                                  /\ [o EXCEPT !.size = s].size = s

\* Equal lists but for one place are equal without it.
LEMMA WithoutChanged ==
    ASSUME NEW O, NEW l \in Seq(O), NEW i \in 1 .. Len(l), NEW o \in O
    PROVE  Lists!WithoutAt([l EXCEPT ![i] = o], i) = Lists!WithoutAt(l, i)
<1> DEFINE m == [l EXCEPT ![i] = o]
<1>1. /\ m \in Seq(O) /\ Len(m) = Len(l) /\ Len(l) \in Nat
      /\ \A j \in 1 .. Len(l) : m[j] = IF j = i THEN o ELSE l[j]
    BY ExceptSeq
<1> HIDE DEF m
<1>2. SubSeq(m, 1, i - 1) = SubSeq(l, 1, i - 1)
    BY <1>1
<1>3. SubSeq(m, i + 1, Len(m)) = SubSeq(l, i + 1, Len(l))
  <2> DEFINE n == Len(l)
             a == SubSeq(m, i + 1, n)
             b == SubSeq(l, i + 1, n)
  <2>1. n \in Int /\ i + 1 \in Int /\ \A j \in i + 1 .. n : m[j] = l[j] /\ l[j] \in O
    BY <1>1
  <2> HIDE DEF n
  <2>2. /\ a \in Seq(O) /\ Len(a) = IF i + 1 <= n THEN n - (i + 1) + 1 ELSE 0
        /\ \A j \in 1 .. n - (i + 1) + 1 : a[j] = m[(i + 1) + j - 1]
    BY <2>1, SubSeqProperties
  <2>3. /\ b \in Seq(O) /\ Len(b) = IF i + 1 <= n THEN n - (i + 1) + 1 ELSE 0
        /\ \A j \in 1 .. n - (i + 1) + 1 : b[j] = l[(i + 1) + j - 1]
    BY <2>1, SubSeqProperties
  <2> HIDE DEF a, b
  <2>4. Len(a) = Len(b) /\ \A j \in 1 .. Len(a) : a[j] = b[j]
    BY <2>1, <2>2, <2>3
  <2>5. a = b
    BY <2>2, <2>3, <2>4, SeqEqual
  <2> QED
    BY <1>1, <2>5 DEF a, b, n
<1> QED
    BY <1>2, <1>3 DEF m, Lists!WithoutAt

\* An object for another of the same key.
LEMMA SizedChange ==
    ASSUME NEW O, NEW S, Sound(O, S), NEW st, SizedList(st, O), NEW k \in KeysHeld(st),
           NEW o \in O, o.key = k
    PROVE  LET i == Lists!PositionOf(st.list, k)
               changed == [list |-> [st.list EXCEPT ![i] = o],
                           used |-> st.used - st.list[i].size + o.size]
           IN  SizedList(changed, O) /\ KeysHeld(changed) = KeysHeld(st)
<1> DEFINE l == st.list
           i == Lists!PositionOf(l, k)
           m == [l EXCEPT ![i] = o]
           s == o.size
           changed == [list |-> m, used |-> st.used - l[i].size + s]
<1>1. /\ l \in Seq(O) /\ Apart(l) /\ st.used = Lists!SumOfSizes(l) /\ KeysHeld(st) = Lists!KeysOf(l)
      /\ Keyed(O, S) /\ Sizeable(O) /\ s \in Nat
    BY DEF SizedList, KeysHeld, Sound, Sizeable
<1>2. i \in 1 .. Len(l) /\ l[i] \in O /\ l[i].key = k
    BY <1>1, PositionHolds
<1> SUFFICES SizedList(changed, O) /\ KeysHeld(changed) = KeysHeld(st)
    OBVIOUS
<1> HIDE DEF i, l, s
<1>3. /\ m \in Seq(O) /\ Len(m) = Len(l)
      /\ \A j \in 1 .. Len(l) : m[j] = IF j = i THEN o ELSE l[j]
    BY <1>1, <1>2, ExceptSeq
<1>4. Lists!WithoutAt(m, i) = Lists!WithoutAt(l, i)
    BY <1>1, <1>2, WithoutChanged
<1> HIDE DEF m
<1>5. \A j \in 1 .. Len(l) : m[j].key = l[j].key
    BY <1>2, <1>3
<1>6. Lists!KeysOf(m) = Lists!KeysOf(l) /\ Apart(m)
    BY <1>1, <1>3, <1>5, SameKeys
<1>7. /\ Lists!SumOfSizes(Lists!WithoutAt(l, i)) \in Nat /\ l[i].size \in Nat
      /\ Lists!SumOfSizes(l) = Lists!SumOfSizes(Lists!WithoutAt(l, i)) + l[i].size
    BY <1>1, <1>2, SumWithoutAt
<1>8. Lists!SumOfSizes(m) = Lists!SumOfSizes(Lists!WithoutAt(l, i)) + s
  <2>1. i \in 1 .. Len(m) /\ m[i].size = s
    BY <1>2, <1>3 DEF s
  <2>2. Lists!SumOfSizes(m) = Lists!SumOfSizes(Lists!WithoutAt(m, i)) + m[i].size
    BY <1>1, <1>3, <2>1, SumWithoutAt
  <2> QED
    BY <1>4, <2>1, <2>2
<1>9. Lists!SumOfSizes(m) = st.used - l[i].size + s
    BY <1>1, <1>7, <1>8
<1> QED
    BY <1>1, <1>3, <1>6, <1>9 DEF SizedList, KeysHeld

\* update of the size.
LEMMA SizedSized ==
    ASSUME NEW O, NEW S, Sound(O, S), NEW st, SizedList(st, O), NEW k, NEW s \in Nat,
           Resizable(O, s)
    PROVE  /\ SizedList(Lists!Sized(st, k, s), O)
           /\ KeysHeld(Lists!Sized(st, k, s)) = KeysHeld(st)
<1>1. CASE k \in KeysHeld(st)
  <2> DEFINE i == Lists!PositionOf(st.list, k)
             o == [st.list[i] EXCEPT !.size = s]
             changed == [list |-> [st.list EXCEPT ![i] = o],
                         used |-> st.used - st.list[i].size + o.size]
  <2>1. st.list[i] \in O /\ st.list[i].key = k
    BY <1>1, PositionHolds DEF KeysHeld, SizedList
  <2>2. o \in O /\ o.key = k /\ o.size = s
    BY <2>1 DEF Resizable
  <2>3. Lists!Sized(st, k, s) = [list |-> [st.list EXCEPT ![i] = o],
                                 used |-> st.used - st.list[i].size + s]
    BY <1>1 DEF Lists!Sized, Lists!Holds, Lists!ObjectOf, KeysHeld
  <2> HIDE DEF o
  <2>4. SizedList(changed, O) /\ KeysHeld(changed) = KeysHeld(st)
    BY <1>1, <2>2, SizedChange
  <2>5. Lists!Sized(st, k, s) = changed
    BY <2>2, <2>3
  <2> HIDE DEF changed
  <2> QED
    BY <2>4, <2>5
<1>2. CASE k \notin KeysHeld(st)
  <2>1. Lists!Sized(st, k, s) = st
    BY <1>2 DEF Lists!Sized, Lists!Holds, KeysHeld
  <2> QED
    BY <2>1
<1> QED
    BY <1>1, <1>2

\* A list without its last objects, and those.
LEMMA SizedSplit ==
    ASSUME NEW O, NEW S, Sound(O, S), NEW st, SizedList(st, O), NEW n \in 0 .. Len(st.list)
    PROVE  LET kept  == SubSeq(st.list, 1, n)
               moved == SubSeq(st.list, n + 1, Len(st.list))
           IN  /\ kept \in Seq(O) /\ Len(kept) = n /\ moved \in Seq(O)
               /\ Apart(kept) /\ Apart(moved)
               /\ Lists!KeysOf(kept) \cap Lists!KeysOf(moved) = {}
               /\ KeysHeld(st) = Lists!KeysOf(kept) \cup Lists!KeysOf(moved)
               /\ Lists!SumOfSizes(kept) = st.used - Lists!SumOfSizes(moved)
<1> DEFINE l == st.list
           a == SubSeq(l, 1, n)
           b == SubSeq(l, n + 1, Len(l))
<1>1. /\ l \in Seq(O) /\ Apart(l) /\ st.used = Lists!SumOfSizes(l) /\ KeysHeld(st) = Lists!KeysOf(l)
      /\ Keyed(O, S) /\ Sizeable(O) /\ n \in 0 .. Len(l)
    BY DEF SizedList, KeysHeld, Sound
<1> HIDE DEF l
<1>2. a \in Seq(O) /\ b \in Seq(O) /\ l = a \o b
    BY <1>1, SplitAfter
<1>3. Len(a) = n
    BY <1>1
<1> HIDE DEF a, b
<1>4. /\ Lists!KeysOf(a \o b) = Lists!KeysOf(a) \cup Lists!KeysOf(b)
      /\ Apart(a \o b) <=> Apart(a) /\ Apart(b) /\ Lists!KeysOf(a) \cap Lists!KeysOf(b) = {}
    BY <1>1, <1>2, ObjectsConcat
<1>5. Lists!SumOfSizes(a \o b) = Lists!SumOfSizes(a) + Lists!SumOfSizes(b)
    BY <1>1, <1>2, SumConcat
<1>6. Lists!SumOfSizes(a) \in Nat /\ Lists!SumOfSizes(b) \in Nat
    BY <1>1, <1>2, SumIsNat
<1>7. Lists!SumOfSizes(a) = st.used - Lists!SumOfSizes(b)
    BY <1>1, <1>2, <1>5, <1>6
<1> QED
    BY <1>1, <1>2, <1>3, <1>4, <1>7 DEF a, b, l

\* Objects go in front of a list that has none of their keys.
LEMMA SizedJoin ==
    ASSUME NEW O, NEW S, Sound(O, S), NEW st, SizedList(st, O), NEW l \in Seq(O), Apart(l),
           Lists!KeysOf(l) \cap KeysHeld(st) = {}
    PROVE  LET joined == [list |-> l \o st.list, used |-> st.used + Lists!SumOfSizes(l)]
           IN  SizedList(joined, O) /\ KeysHeld(joined) = Lists!KeysOf(l) \cup KeysHeld(st)
<1> DEFINE m == st.list
           j == l \o m
<1>1. /\ m \in Seq(O) /\ Apart(m) /\ st.used = Lists!SumOfSizes(m) /\ KeysHeld(st) = Lists!KeysOf(m)
      /\ Keyed(O, S) /\ Sizeable(O)
    BY DEF SizedList, KeysHeld, Sound
<1> HIDE DEF m
<1>2. j \in Seq(O) /\ Lists!KeysOf(j) = Lists!KeysOf(l) \cup Lists!KeysOf(m) /\ Apart(j)
    BY <1>1, ObjectsConcat
<1>3. Lists!SumOfSizes(j) = Lists!SumOfSizes(l) + Lists!SumOfSizes(m)
    BY <1>1, SumConcat
<1>4. Lists!SumOfSizes(l) \in Nat /\ Lists!SumOfSizes(m) \in Nat
    BY <1>1, SumIsNat
<1>5. Lists!SumOfSizes(j) = st.used + Lists!SumOfSizes(l)
    BY <1>1, <1>3, <1>4
<1>6. [list |-> l \o st.list, used |-> st.used + Lists!SumOfSizes(l)]
        = [list |-> j, used |-> st.used + Lists!SumOfSizes(l)]
    BY DEF m
<1> HIDE DEF j
<1>7. /\ SizedList([list |-> j, used |-> st.used + Lists!SumOfSizes(l)], O)
      /\ KeysHeld([list |-> j, used |-> st.used + Lists!SumOfSizes(l)]) = Lists!KeysOf(j)
    BY <1>2, <1>5 DEF SizedList, KeysHeld
<1> QED
    BY <1>1, <1>2, <1>6, <1>7

-----------------------------------------------------------------------------
(***************************************************************************)
(* 2q                                                                      *)
(***************************************************************************)

Entries(S) == [key : S, size : Nat]

LEMMA EntriesSound ==
    ASSUME NEW S
    PROVE  /\ Sound(Entries(S), S)
           /\ \A s \in Nat : Resizable(Entries(S), s)
           /\ \A k \in S, s \in Nat : Lists!Object(k, s) \in Entries(S) /\ Lists!Object(k, s).key = k
<1>1. Keyed(Entries(S), S) /\ Sizeable(Entries(S))
    BY DEF Keyed, Sizeable, Entries
<1>2. ASSUME NEW s \in Nat PROVE Resizable(Entries(S), s)
    BY DEF Resizable, Entries
<1>3. \A k \in S, s \in Nat : Lists!Object(k, s) \in Entries(S) /\ Lists!Object(k, s).key = k
    BY DEF Lists!Object, Entries
<1> QED
    BY <1>1, <1>2, <1>3 DEF Sound

\* The three lists hold no key in common.
TwoQLists(in, out, am, S) ==
    /\ SizedList(in, Entries(S)) /\ SizedList(out, Entries(S)) /\ SizedList(am, Entries(S))
    /\ KeysHeld(in) \cap KeysHeld(out) = {} /\ KeysHeld(in) \cap KeysHeld(am) = {}
    /\ KeysHeld(out) \cap KeysHeld(am) = {}

TwoQ3(in, out, am, size) == [a1_in |-> in, a1_out |-> out, am |-> am, in_size |-> size]

TwoQShape(stack, S) ==
    /\ stack = TwoQ3(stack.a1_in, stack.a1_out, stack.am, stack.in_size)
    /\ TwoQLists(stack.a1_in, stack.a1_out, stack.am, S)

\* Together they are a stack, with the keys of the three.
TwoQMade(in, out, am, size, S) ==
    /\ TwoQShape(TwoQ3(in, out, am, size), S)
    /\ TwoQ!Keys(TwoQ3(in, out, am, size)) = KeysHeld(in) \cup KeysHeld(out) \cup KeysHeld(am)

LEMMA TwoQMakes ==
    ASSUME NEW S, NEW in, NEW out, NEW am, NEW size, TwoQLists(in, out, am, S)
    PROVE  TwoQMade(in, out, am, size, S)
  BY DEF TwoQMade, TwoQShape, TwoQ3, TwoQ!Keys, KeysHeld, TwoQ!KeysOf, Lists!KeysOf

LEMMA TwoQOperators ==
    /\ TwoQ!NoStack = Lists!NoStack
    /\ \A l : TwoQ!SumOfSizes(l) = Lists!SumOfSizes(l)
    /\ \A l, k : TwoQ!OmitObject(l, k) = Lists!OmitObject(l, k)
    /\ \A k, s : TwoQ!Object(k, s) = Lists!Object(k, s)
    /\ \A st, k : TwoQ!Holds(st, k) <=> k \in KeysHeld(st)
    /\ \A st, k : TwoQ!ObjectOf(st, k) = Lists!ObjectOf(st, k)
    /\ \A st, k : TwoQ!Without(st, k) = Lists!Without(st, k)
    /\ \A st, k, s : TwoQ!Sized(st, k, s) = Lists!Sized(st, k, s)
    /\ \A st, o : TwoQ!Push(st, o) = Lists!Push(st, o)
    /\ \A st : TwoQ!Popped(st) = Lists!Popped(st) /\ TwoQ!Rest(st) = Lists!Rest(st)
<1>1. \A l : TwoQ!KeysOf(l) = Lists!KeysOf(l)
    BY DEF TwoQ!KeysOf, Lists!KeysOf
<1>2. \A l, k : TwoQ!PositionOf(l, k) = Lists!PositionOf(l, k)
    BY DEF TwoQ!PositionOf, Lists!PositionOf
<1>3. \A l, i : TwoQ!WithoutAt(l, i) = Lists!WithoutAt(l, i)
    BY DEF TwoQ!WithoutAt, Lists!WithoutAt
<1>4. \A l, k : TwoQ!OmitObject(l, k) = Lists!OmitObject(l, k)
    BY <1>1, <1>2, <1>3 DEF TwoQ!OmitObject, Lists!OmitObject
<1>5. \A st, k : /\ TwoQ!Holds(st, k) <=> k \in KeysHeld(st)
                 /\ Lists!Holds(st, k) <=> k \in KeysHeld(st)
    BY <1>1 DEF TwoQ!Holds, Lists!Holds, KeysHeld
<1>6. \A st, k : TwoQ!ObjectOf(st, k) = Lists!ObjectOf(st, k)
    BY <1>2 DEF TwoQ!ObjectOf, Lists!ObjectOf
<1>7. \A st, k : TwoQ!Without(st, k) = Lists!Without(st, k)
    BY <1>4, <1>5, <1>6 DEF TwoQ!Without, Lists!Without
<1>8. \A st, k, s : TwoQ!Sized(st, k, s) = Lists!Sized(st, k, s)
    BY <1>2, <1>5, <1>6 DEF TwoQ!Sized, Lists!Sized
<1>9. \A st, o : TwoQ!Push(st, o) = Lists!Push(st, o)
    BY DEF TwoQ!Push, Lists!Push
<1>10. \A st : TwoQ!Popped(st) = Lists!Popped(st) /\ TwoQ!Rest(st) = Lists!Rest(st)
    BY DEF TwoQ!Popped, Lists!Popped, TwoQ!Rest, Lists!Rest, TwoQ!Back, Lists!Back,
           TwoQ!WithoutBack, Lists!WithoutBack
<1>11. \A l : TwoQ!SumOfSizes(l) = Lists!SumOfSizes(l)
    BY DEF TwoQ!SumOfSizes, Lists!SumOfSizes
<1>12. TwoQ!NoStack = Lists!NoStack /\ \A k, s : TwoQ!Object(k, s) = Lists!Object(k, s)
    BY DEF TwoQ!NoStack, Lists!NoStack, TwoQ!Object, Lists!Object
<1> QED
    BY <1>4, <1>5, <1>6, <1>7, <1>8, <1>9, <1>10, <1>11, <1>12

\* The object of a key a list holds.
LEMMA ObjectOfHolds ==
    ASSUME NEW O, NEW st, SizedList(st, O), NEW k \in KeysHeld(st)
    PROVE  Lists!ObjectOf(st, k) \in O /\ Lists!ObjectOf(st, k).key = k
  BY PositionHolds DEF SizedList, KeysHeld, Lists!ObjectOf

\* To the front of a list that holds it already.
LEMMA SizedMove ==
    ASSUME NEW O, NEW S, Sound(O, S), NEW st, SizedList(st, O), NEW k \in KeysHeld(st)
    PROVE  LET o == Lists!ObjectOf(st, k)
               m == Lists!Push(Lists!Without(st, k), o)
           IN  /\ SizedList(m, O) /\ KeysHeld(m) = KeysHeld(st)
               /\ m = [list |-> <<o>> \o Lists!OmitObject(st.list, k), used |-> st.used]
<1> DEFINE o == Lists!ObjectOf(st, k)
           w == Lists!Without(st, k)
<1>1. o \in O /\ o.key = k
    BY ObjectOfHolds
<1>2. SizedList(w, O) /\ KeysHeld(w) = KeysHeld(st) \ {k}
    BY SizedWithout
<1>3. w = [list |-> Lists!OmitObject(st.list, k), used |-> st.used - o.size]
    BY DEF Lists!Without, Lists!Holds, KeysHeld
<1>4. Lists!Push(w, o) = [list |-> <<o>> \o w.list, used |-> w.used + o.size]
    BY DEF Lists!Push
<1> HIDE DEF w, o
<1>5. SizedList(Lists!Push(w, o), O) /\ KeysHeld(Lists!Push(w, o)) = KeysHeld(w) \cup {o.key}
    BY <1>1, <1>2, SizedPush
<1>6. st.used \in Nat /\ o.size \in Nat
    BY <1>1, SumIsNat DEF Sound, Sizeable, SizedList
<1>7. w.list = Lists!OmitObject(st.list, k) /\ w.used + o.size = st.used
    BY <1>3, <1>6
<1>8. Lists!Push(w, o) = [list |-> <<o>> \o Lists!OmitObject(st.list, k), used |-> st.used]
    BY <1>4, <1>7
<1> QED
    BY <1>1, <1>2, <1>5, <1>8 DEF w, o

LEMMA TwoQUpdates ==
    ASSUME NEW S, NEW stack, TwoQShape(stack, S), NEW k \in S
    PROVE  /\ TwoQShape(TwoQ!Update(stack, k), S)
           /\ TwoQ!Keys(TwoQ!Update(stack, k)) = TwoQ!Keys(stack)
<1> DEFINE in   == stack.a1_in
           out  == stack.a1_out
           am   == stack.am
           size == stack.in_size
<1>1. stack = TwoQ3(in, out, am, size) /\ TwoQLists(in, out, am, S)
    BY DEF TwoQShape
<1>2. /\ SizedList(in, Entries(S)) /\ SizedList(out, Entries(S)) /\ SizedList(am, Entries(S))
      /\ KeysHeld(in) \cap KeysHeld(out) = {} /\ KeysHeld(in) \cap KeysHeld(am) = {}
      /\ KeysHeld(out) \cap KeysHeld(am) = {} /\ Sound(Entries(S), S)
    BY <1>1, EntriesSound DEF TwoQLists
<1> HIDE DEF in, out, am, size
<1>3. TwoQ!Keys(stack) = KeysHeld(in) \cup KeysHeld(out) \cup KeysHeld(am)
    BY <1>1, TwoQMakes DEF TwoQMade
<1>4. CASE k \in KeysHeld(out)
  <2> DEFINE o == Lists!ObjectOf(out, k)
             a == Lists!Without(out, k)
             b == Lists!Push(am, o)
  <2>1. TwoQ!Update(stack, k) = TwoQ3(in, a, b, size)
    BY <1>1, <1>4, TwoQOperators DEF TwoQ!Update, TwoQ3
  <2>2. o \in Entries(S) /\ o.key = k
    BY <1>2, <1>4, ObjectOfHolds
  <2> HIDE DEF o
  <2>3. SizedList(a, Entries(S)) /\ KeysHeld(a) = KeysHeld(out) \ {k}
    BY <1>2, SizedWithout
  <2>4. SizedList(b, Entries(S)) /\ KeysHeld(b) = KeysHeld(am) \cup {k}
    BY <1>2, <1>4, <2>2, SizedPush
  <2> HIDE DEF a, b
  <2>5. TwoQLists(in, a, b, S)
    BY <1>2, <1>4, <2>3, <2>4 DEF TwoQLists
  <2>6. KeysHeld(in) \cup KeysHeld(a) \cup KeysHeld(b)
          = KeysHeld(in) \cup KeysHeld(out) \cup KeysHeld(am)
    BY <1>4, <2>3, <2>4
  <2>7. TwoQMade(in, a, b, size, S)
    BY <2>5, TwoQMakes
  <2> QED
    BY <1>3, <2>1, <2>6, <2>7, Zenon DEF TwoQMade
<1>5. CASE k \notin KeysHeld(out) /\ k \in KeysHeld(am)
  <2> DEFINE o == Lists!ObjectOf(am, k)
             b == [list |-> <<o>> \o Lists!OmitObject(am.list, k), used |-> am.used]
  <2>1. am = [list |-> am.list, used |-> am.used]
    BY <1>2 DEF SizedList
  <2>2. TwoQ!Update(stack, k) = [stack EXCEPT !.am.list = <<o>> \o Lists!OmitObject(stack.am.list, k)]
    BY <1>1, <1>5, TwoQOperators DEF TwoQ!Update, TwoQ3
  <2>3. [stack EXCEPT !.am.list = <<o>> \o Lists!OmitObject(stack.am.list, k)]
          = TwoQ3(in, out, b, size)
    <3> DEFINE l == <<o>> \o Lists!OmitObject(am.list, k)
    <3> HIDE DEF l, o
    <3>1. [stack EXCEPT !.am.list = l] = TwoQ3(in, out, [list |-> l, used |-> am.used], size)
        BY <1>1, <2>1 DEF TwoQ3
    <3>2. stack.am = am
        BY DEF am
    <3> QED
        BY <3>1, <3>2 DEF l
  <2>4. SizedList(b, Entries(S)) /\ KeysHeld(b) = KeysHeld(am)
    <3> DEFINE m == Lists!Push(Lists!Without(am, k), o)
    <3>1. SizedList(m, Entries(S)) /\ KeysHeld(m) = KeysHeld(am) /\ m = b
        BY <1>2, <1>5, SizedMove
    <3> HIDE DEF m, b
    <3> QED
        BY <3>1
  <2> HIDE DEF b
  <2>5. TwoQLists(in, out, b, S)
    BY <1>2, <2>4 DEF TwoQLists
  <2>6. TwoQMade(in, out, b, size, S)
    BY <2>5, TwoQMakes
  <2> QED
    BY <1>3, <2>2, <2>3, <2>4, <2>6, Zenon DEF TwoQMade
<1>6. CASE k \notin KeysHeld(out) /\ k \notin KeysHeld(am)
  <2>1. TwoQ!Update(stack, k) = stack
    BY <1>1, <1>6, TwoQOperators DEF TwoQ!Update, TwoQ3
  <2> QED
    BY <2>1
<1> QED
    BY <1>4, <1>5, <1>6

LEMMA LeastWithin ==
    ASSUME NEW n \in Nat, NEW T \in SUBSET (0 .. n), T # {}
    PROVE  \E m \in T : \A k \in T : m <= k
<1>1. T \in SUBSET Nat
    OBVIOUS
<1> QED
    BY <1>1, Lemmas!LeastElement

\* restructure_to_fit ends, with nothing left or with room for the object.
LEMMA OverflowHolds ==
    ASSUME NEW stack, NEW size, Len(stack.a1_in.list) \in Nat
    PROVE  LET list    == stack.a1_in.list
               kept(n) == TwoQ!SumOfSizes(SubSeq(list, 1, Len(list) - n))
               fits(n) == stack.a1_in.used - (TwoQ!SumOfSizes(list) - kept(n)) + size
                              <= stack.in_size
           IN  /\ TwoQ!Overflow(stack, size) \in 0 .. Len(list)
               /\ TwoQ!Overflow(stack, size) = Len(list) \/ fits(TwoQ!Overflow(stack, size))
<1> DEFINE list    == stack.a1_in.list
           kept(n) == TwoQ!SumOfSizes(SubSeq(list, 1, Len(list) - n))
           fits(n) == stack.a1_in.used - (TwoQ!SumOfSizes(list) - kept(n)) + size <= stack.in_size
           T       == {n \in 0 .. Len(list) : n = Len(list) \/ fits(n)}
<1>1. TwoQ!Overflow(stack, size) = CHOOSE n \in 0 .. Len(list) :
                                       /\ n = Len(list) \/ fits(n)
                                       /\ \A m \in 0 .. n - 1 : ~fits(m)
    BY DEF TwoQ!Overflow
<1> HIDE DEF fits
<1>2. Len(list) \in T /\ T \in SUBSET (0 .. Len(list))
    OBVIOUS
<1> HIDE DEF list
<1>3. PICK m \in T : \A k \in T : m <= k
  <2> HIDE DEF T
  <2>1. Len(list) \in Nat
    BY DEF list
  <2> QED
    BY <1>2, <2>1, LeastWithin
<1>4. m \in 0 .. Len(list) /\ (m = Len(list) \/ fits(m))
    OBVIOUS
<1>5. \A j \in 0 .. m - 1 : ~fits(j)
  <2> SUFFICES ASSUME NEW j \in 0 .. m - 1, fits(j) PROVE FALSE
    OBVIOUS
  <2>1. Len(list) \in Nat
    BY DEF list
  <2>2. j \in 0 .. Len(list) /\ ~(m <= j)
    BY <1>4, <2>1
  <2>3. j \in T
    BY <2>2
  <2> QED
    BY <1>3, <2>2, <2>3
<1>6. \E n \in 0 .. Len(list) : /\ n = Len(list) \/ fits(n)
                                /\ \A j \in 0 .. n - 1 : ~fits(j)
    BY <1>4, <1>5, Zenon
<1>7. /\ TwoQ!Overflow(stack, size) \in 0 .. Len(list)
      /\ TwoQ!Overflow(stack, size) = Len(list) \/ fits(TwoQ!Overflow(stack, size))
    BY <1>1, <1>6
<1> QED
    BY <1>7 DEF list, fits

LEMMA TwoQAdmits ==
    ASSUME NEW S, NEW stack, TwoQShape(stack, S), NEW k \in S, NEW s \in Nat,
           k \notin TwoQ!Keys(stack)
    PROVE  /\ TwoQShape(TwoQ!Admit(stack, k, s), S)
           /\ TwoQ!Keys(TwoQ!Admit(stack, k, s)) = TwoQ!Keys(stack) \cup {k}
<1> DEFINE in   == stack.a1_in
           out  == stack.a1_out
           am   == stack.am
           size == stack.in_size
           list == in.list
           left == Len(list) - TwoQ!Overflow(stack, s)
           kept == SubSeq(list, 1, left)
           moved == SubSeq(list, left + 1, Len(list))
           rest == [list |-> kept, used |-> in.used - Lists!SumOfSizes(moved)]
           a == Lists!Push(rest, Lists!Object(k, s))
           b == [list |-> moved \o out.list, used |-> out.used + Lists!SumOfSizes(moved)]
<1>1. stack = TwoQ3(in, out, am, size) /\ TwoQLists(in, out, am, S)
    BY DEF TwoQShape
<1>2. /\ SizedList(in, Entries(S)) /\ SizedList(out, Entries(S)) /\ SizedList(am, Entries(S))
      /\ KeysHeld(in) \cap KeysHeld(out) = {} /\ KeysHeld(in) \cap KeysHeld(am) = {}
      /\ KeysHeld(out) \cap KeysHeld(am) = {} /\ Sound(Entries(S), S)
    BY <1>1, EntriesSound DEF TwoQLists
<1>3. Len(list) \in Nat
    BY <1>2 DEF SizedList
<1>4. left \in 0 .. Len(list)
  <2>1. TwoQ!Overflow(stack, s) \in 0 .. Len(list)
    BY <1>3, OverflowHolds
  <2> HIDE DEF list
  <2> QED
    BY <1>3, <2>1
<1> HIDE DEF in, out, am, size, left
<1>5. /\ kept \in Seq(Entries(S)) /\ Len(kept) = left /\ moved \in Seq(Entries(S))
      /\ Apart(kept) /\ Apart(moved)
      /\ Lists!KeysOf(kept) \cap Lists!KeysOf(moved) = {}
      /\ KeysHeld(in) = Lists!KeysOf(kept) \cup Lists!KeysOf(moved)
      /\ Lists!SumOfSizes(kept) = in.used - Lists!SumOfSizes(moved)
    BY <1>2, <1>4, SizedSplit
<1>6. TwoQ!Admit(stack, k, s) = TwoQ3(a, b, am, size)
  <2>1. stack.a1_in = in /\ stack.a1_out = out
    BY DEF in, out
  <2>2. kept = SubSeq(stack.a1_in.list, 1, Len(stack.a1_in.list) - TwoQ!Overflow(stack, s))
    BY <2>1 DEF left
  <2> HIDE DEF kept
  <2>3. moved = SubSeq(stack.a1_in.list, Len(kept) + 1, Len(stack.a1_in.list))
    BY <1>5, <2>1
  <2> HIDE DEF moved, list
  <2>4. TwoQ!Admit(stack, k, s) =
          [stack EXCEPT
            !.a1_in = TwoQ!Push([list |-> kept, used |-> stack.a1_in.used - TwoQ!SumOfSizes(moved)],
                                TwoQ!Object(k, s)),
            !.a1_out = [list |-> moved \o stack.a1_out.list,
                        used |-> stack.a1_out.used + TwoQ!SumOfSizes(moved)]]
    BY <2>2, <2>3 DEF TwoQ!Admit
  <2> QED
    BY <1>1, <2>1, <2>4, TwoQOperators DEF TwoQ3
<1> HIDE DEF kept, moved
<1>7. SizedList(rest, Entries(S)) /\ KeysHeld(rest) = Lists!KeysOf(kept)
    BY <1>5 DEF SizedList, KeysHeld
<1>8. TwoQ!Keys(stack) = KeysHeld(in) \cup KeysHeld(out) \cup KeysHeld(am)
    BY <1>1, TwoQMakes DEF TwoQMade
<1> HIDE DEF rest
<1>9. SizedList(a, Entries(S)) /\ KeysHeld(a) = Lists!KeysOf(kept) \cup {k}
  <2> DEFINE o == Lists!Object(k, s)
  <2>1. o \in Entries(S) /\ o.key = k
    BY EntriesSound
  <2> HIDE DEF o
  <2>2. o.key \notin KeysHeld(rest)
    BY <1>5, <1>7, <1>8, <2>1
  <2>3. /\ SizedList(Lists!Push(rest, o), Entries(S))
        /\ KeysHeld(Lists!Push(rest, o)) = KeysHeld(rest) \cup {o.key}
    BY <1>2, <1>7, <2>1, <2>2, SizedPush
  <2> QED
    BY <1>7, <2>1, <2>3 DEF o
<1>10. SizedList(b, Entries(S)) /\ KeysHeld(b) = Lists!KeysOf(moved) \cup KeysHeld(out)
  <2>1. Lists!KeysOf(moved) \cap KeysHeld(out) = {}
    BY <1>2, <1>5
  <2> QED
    BY <1>2, <1>5, <2>1, SizedJoin
<1> HIDE DEF a, b
<1>11. TwoQLists(a, b, am, S)
    BY <1>2, <1>5, <1>8, <1>9, <1>10 DEF TwoQLists
<1>12. KeysHeld(a) \cup KeysHeld(b) \cup KeysHeld(am) = TwoQ!Keys(stack) \cup {k}
    BY <1>5, <1>8, <1>9, <1>10
<1>13. TwoQMade(a, b, am, size, S)
    BY <1>11, TwoQMakes
<1> QED
    BY <1>6, <1>12, <1>13, Zenon DEF TwoQMade

\* After a new key a1_in is within its maximum size, or holds that key alone.
LEMMA TwoQMakesRoom ==
    ASSUME NEW S, NEW stack, TwoQShape(stack, S), NEW k, NEW s \in Nat,
           NEW in, in = TwoQ!Admit(stack, k, s).a1_in
    PROVE  in.used <= stack.in_size \/ Len(in.list) = 1
<1> DEFINE list  == stack.a1_in.list
           used  == stack.a1_in.used
           n     == TwoQ!Overflow(stack, s)
           left  == Len(list) - n
           kept  == SubSeq(list, 1, left)
           moved == SubSeq(list, left + 1, Len(list))
           o     == Lists!Object(k, s)
<1>1. /\ SizedList(stack.a1_in, Entries(S)) /\ Sound(Entries(S), S)
      /\ list \in Seq(Entries(S)) /\ used = Lists!SumOfSizes(list) /\ Len(list) \in Nat
  <2>1. SizedList(stack.a1_in, Entries(S)) /\ Sound(Entries(S), S)
    BY EntriesSound DEF TwoQShape, TwoQLists
  <2> QED
    BY <2>1 DEF SizedList
<1>2. n \in 0 .. Len(list) /\ (n = Len(list) \/ used - (TwoQ!SumOfSizes(list) - TwoQ!SumOfSizes(kept)) + s
                                                  <= stack.in_size)
  BY <1>1, OverflowHolds
<1> HIDE DEF n
<1>3. left \in 0 .. Len(list)
  <2> HIDE DEF list
  <2> QED
    BY <1>1, <1>2
<1> HIDE DEF left
<1>4. /\ kept \in Seq(Entries(S)) /\ Len(kept) = left /\ moved \in Seq(Entries(S))
      /\ Lists!SumOfSizes(kept) = used - Lists!SumOfSizes(moved)
  BY <1>1, <1>3, SizedSplit
<1>5. in.list = <<o>> \o kept /\ in.used = used - Lists!SumOfSizes(moved) + s
  <2>1. stack = TwoQ3(stack.a1_in, stack.a1_out, stack.am, stack.in_size)
    BY DEF TwoQShape
  <2>2. kept = SubSeq(stack.a1_in.list, 1, Len(stack.a1_in.list) - TwoQ!Overflow(stack, s))
    BY DEF left, n
  <2> HIDE DEF kept, list
  <2>3. moved = SubSeq(stack.a1_in.list, Len(kept) + 1, Len(stack.a1_in.list))
    BY <1>4 DEF list
  <2> HIDE DEF moved
  <2>4. TwoQ!Admit(stack, k, s).a1_in
            = TwoQ!Push([list |-> kept, used |-> used - TwoQ!SumOfSizes(moved)], TwoQ!Object(k, s))
    BY <2>1, <2>2, <2>3 DEF TwoQ!Admit, TwoQ3
  <2>5. in = Lists!Push([list |-> kept, used |-> used - Lists!SumOfSizes(moved)], o)
    BY <2>4, TwoQOperators
  <2> QED
    BY <2>5 DEF Lists!Push, Lists!Object
<1>6. /\ Lists!SumOfSizes(list) \in Nat /\ Lists!SumOfSizes(kept) \in Nat
      /\ Lists!SumOfSizes(moved) \in Nat
  BY <1>1, <1>4, SumIsNat DEF Sound
<1>7. CASE n = Len(list)
  <2>1. left = 0
    BY <1>1, <1>7 DEF left
  <2> HIDE DEF kept, o
  <2> QED
    BY <1>4, <1>5, <2>1
<1>8. CASE used - (TwoQ!SumOfSizes(list) - TwoQ!SumOfSizes(kept)) + s <= stack.in_size
  <2> HIDE DEF list, kept, moved, used
  <2>1. used - (Lists!SumOfSizes(list) - Lists!SumOfSizes(kept)) + s <= stack.in_size
    BY <1>8, TwoQOperators
  <2>2. used = Lists!SumOfSizes(list)
    BY <1>1 DEF used, list
  <2>3. used - (Lists!SumOfSizes(list) - Lists!SumOfSizes(kept)) + s = in.used
    BY <1>4, <1>5, <1>6, <2>2
  <2> QED
    BY <2>1, <2>3
<1> QED
  BY <1>2, <1>7, <1>8

\* The stack with other lists.
TwoQWith(stack, a, b, c) == [stack EXCEPT !.a1_in = a, !.a1_out = b, !.am = c]

LEMMA TwoQExcept ==
    ASSUME NEW S, NEW stack, TwoQShape(stack, S), NEW a, NEW b, NEW c
    PROVE  TwoQWith(stack, a, b, c) = TwoQ3(a, b, c, stack.in_size)
<1> DEFINE in   == stack.a1_in
           out  == stack.a1_out
           am   == stack.am
           size == stack.in_size
<1>0. stack = TwoQ3(in, out, am, size)
    BY DEF TwoQShape
<1> HIDE DEF in, out, am, size
<1>1. [stack EXCEPT !.a1_in = a] = TwoQ3(a, out, am, size)
    BY <1>0 DEF TwoQ3
<1>2. [TwoQ3(a, out, am, size) EXCEPT !.a1_out = b] = TwoQ3(a, b, am, size)
    BY DEF TwoQ3
<1>3. [TwoQ3(a, b, am, size) EXCEPT !.am = c] = TwoQ3(a, b, c, size)
    BY DEF TwoQ3
<1>4. [stack EXCEPT !.a1_in = a, !.a1_out = b, !.am = c]
        = [[[stack EXCEPT !.a1_in = a] EXCEPT !.a1_out = b] EXCEPT !.am = c]
    OBVIOUS
<1> QED
    BY <1>1, <1>2, <1>3, <1>4 DEF TwoQWith, size

\* 2q: a new stack is empty; ...
LEMMA TwoQStarts ==
    ASSUME NEW S, NEW max_size
    PROVE  TwoQShape(TwoQ!New(max_size), S) /\ TwoQ!Keys(TwoQ!New(max_size)) = {}
<1> DEFINE none == Lists!NoStack
           size == TwoQ!InSize(max_size)
<1>1. TwoQ!New(max_size) = TwoQ3(none, none, none, size)
    BY TwoQOperators DEF TwoQ!New, TwoQ3
<1>2. SizedList(none, Entries(S)) /\ KeysHeld(none) = {}
    BY SizedEmpty
<1> HIDE DEF none, size
<1>3. TwoQMade(none, none, none, size, S)
  <2>1. TwoQLists(none, none, none, S)
    BY <1>2 DEF TwoQLists
  <2> QED
    BY <2>1, TwoQMakes
<1> QED
    BY <1>1, <1>2, <1>3 DEF TwoQMade

\* ... each call does to the keys what it should.
LEMMA TwoQInserts ==
    ASSUME NEW S, NEW stack, TwoQShape(stack, S), NEW k \in S, NEW s \in Nat
    PROVE  /\ TwoQShape(TwoQ!Insert(stack, k, s), S)
           /\ TwoQ!Keys(TwoQ!Insert(stack, k, s)) = TwoQ!Keys(stack) \cup {k}
<1>1. CASE k \notin TwoQ!Keys(stack)
  <2>1. TwoQ!Insert(stack, k, s) = TwoQ!Admit(stack, k, s)
    BY <1>1 DEF TwoQ!Insert
  <2> QED
    BY <1>1, <2>1, TwoQAdmits
<1>2. CASE k \in TwoQ!Keys(stack)
  <2> DEFINE in   == stack.a1_in
             out  == stack.a1_out
             am   == stack.am
             size == stack.in_size
             a    == Lists!Sized(in, k, s)
             b    == Lists!Sized(out, k, s)
             c    == Lists!Sized(am, k, s)
  <2>1. stack = TwoQ3(in, out, am, size) /\ TwoQLists(in, out, am, S)
    BY DEF TwoQShape
  <2>2. TwoQ!Insert(stack, k, s) = TwoQ!Update(TwoQ3(a, b, c, size), k)
    <3>1. a = TwoQ!Sized(stack.a1_in, k, s) /\ b = TwoQ!Sized(stack.a1_out, k, s)
          /\ c = TwoQ!Sized(stack.am, k, s)
        BY TwoQOperators
    <3> HIDE DEF a, b, c, in, out, am
    <3>2. TwoQWith(stack, a, b, c) = TwoQ3(a, b, c, size)
        BY TwoQExcept
    <3> QED
        BY <1>2, <3>1, <3>2 DEF TwoQ!Insert, TwoQWith
  <2>3. /\ SizedList(in, Entries(S)) /\ SizedList(out, Entries(S)) /\ SizedList(am, Entries(S))
        /\ Sound(Entries(S), S) /\ Resizable(Entries(S), s)
    BY <2>1, EntriesSound DEF TwoQLists
  <2> HIDE DEF in, out, am, size
  <2>4. /\ SizedList(a, Entries(S)) /\ KeysHeld(a) = KeysHeld(in)
        /\ SizedList(b, Entries(S)) /\ KeysHeld(b) = KeysHeld(out)
        /\ SizedList(c, Entries(S)) /\ KeysHeld(c) = KeysHeld(am)
    BY <2>3, SizedSized
  <2> HIDE DEF a, b, c
  <2>5. TwoQLists(a, b, c, S)
    BY <2>1, <2>4 DEF TwoQLists
  <2>6. TwoQMade(a, b, c, size, S)
    BY <2>5, TwoQMakes
  <2>7. TwoQMade(in, out, am, size, S)
    BY <2>1, TwoQMakes
  <2> DEFINE t == TwoQ3(a, b, c, size)
  <2>8. TwoQShape(t, S) /\ TwoQ!Keys(t) = TwoQ!Keys(stack)
    BY <2>1, <2>4, <2>6, <2>7 DEF TwoQMade
  <2> HIDE DEF t
  <2>9. /\ TwoQShape(TwoQ!Update(t, k), S)
        /\ TwoQ!Keys(TwoQ!Update(t, k)) = TwoQ!Keys(t)
    BY <2>8, TwoQUpdates
  <2>10. TwoQ!Insert(stack, k, s) = TwoQ!Update(t, k)
    BY <2>2 DEF t
  <2> QED
    BY <1>2, <2>8, <2>9, <2>10
<1> QED
    BY <1>1, <1>2

LEMMA TwoQRemoves ==
    ASSUME NEW S, NEW stack, TwoQShape(stack, S), NEW k \in S
    PROVE  /\ TwoQShape(TwoQ!Remove(stack, k), S)
           /\ TwoQ!Keys(TwoQ!Remove(stack, k)) = TwoQ!Keys(stack) \ {k}
<1> DEFINE in   == stack.a1_in
           out  == stack.a1_out
           am   == stack.am
           size == stack.in_size
           a    == Lists!Without(in, k)
           b    == Lists!Without(out, k)
           c    == Lists!Without(am, k)
<1>1. stack = TwoQ3(in, out, am, size) /\ TwoQLists(in, out, am, S)
    BY DEF TwoQShape
<1>2. TwoQ!Remove(stack, k) = TwoQ3(a, b, c, size)
  <2>1. /\ a = TwoQ!Without(stack.a1_in, k) /\ b = TwoQ!Without(stack.a1_out, k)
        /\ c = TwoQ!Without(stack.am, k)
    BY TwoQOperators
  <2> HIDE DEF a, b, c, in, out, am
  <2>2. TwoQWith(stack, a, b, c) = TwoQ3(a, b, c, size)
    BY TwoQExcept
  <2> QED
    BY <2>1, <2>2 DEF TwoQ!Remove, TwoQWith
<1>3. /\ SizedList(in, Entries(S)) /\ SizedList(out, Entries(S)) /\ SizedList(am, Entries(S))
      /\ Sound(Entries(S), S)
    BY <1>1, EntriesSound DEF TwoQLists
<1> HIDE DEF in, out, am, size
<1>4. /\ SizedList(a, Entries(S)) /\ KeysHeld(a) = KeysHeld(in) \ {k}
      /\ SizedList(b, Entries(S)) /\ KeysHeld(b) = KeysHeld(out) \ {k}
      /\ SizedList(c, Entries(S)) /\ KeysHeld(c) = KeysHeld(am) \ {k}
    BY <1>3, SizedWithout
<1> HIDE DEF a, b, c
<1>5. TwoQLists(a, b, c, S)
    BY <1>1, <1>4 DEF TwoQLists
<1>6. TwoQMade(a, b, c, size, S)
    BY <1>5, TwoQMakes
<1>7. TwoQMade(in, out, am, size, S)
    BY <1>1, TwoQMakes
<1>8. KeysHeld(a) \cup KeysHeld(b) \cup KeysHeld(c)
        = (KeysHeld(in) \cup KeysHeld(out) \cup KeysHeld(am)) \ {k}
    BY <1>4
<1>9. TwoQ!Keys(TwoQ3(a, b, c, size)) = TwoQ!Keys(stack) \ {k}
    BY <1>1, <1>6, <1>7, <1>8, Zenon DEF TwoQMade
<1> QED
    BY <1>2, <1>6, <1>9, Zenon DEF TwoQMade

LEMMA TwoQResizes ==
    ASSUME NEW S, NEW stack, TwoQShape(stack, S), NEW max_size
    PROVE  /\ TwoQShape(TwoQ!Resize(stack, max_size), S)
           /\ TwoQ!Keys(TwoQ!Resize(stack, max_size)) = TwoQ!Keys(stack)
           /\ TwoQShape(TwoQ!Clear(stack), S) /\ TwoQ!Keys(TwoQ!Clear(stack)) = {}
<1> DEFINE in   == stack.a1_in
           out  == stack.a1_out
           am   == stack.am
           size == stack.in_size
           new  == TwoQ!InSize(max_size)
           none == Lists!NoStack
<1>1. stack = TwoQ3(in, out, am, size) /\ TwoQLists(in, out, am, S)
    BY DEF TwoQShape
<1>2. TwoQ!Resize(stack, max_size) = TwoQ3(in, out, am, new)
    BY <1>1 DEF TwoQ!Resize, TwoQ3
<1>3. TwoQ!Clear(stack) = TwoQ3(none, none, none, size)
  <2>1. none = TwoQ!NoStack
    BY TwoQOperators
  <2> HIDE DEF none, in, out, am
  <2>2. TwoQWith(stack, none, none, none) = TwoQ3(none, none, none, size)
    BY TwoQExcept
  <2> QED
    BY <2>1, <2>2 DEF TwoQ!Clear, TwoQWith
<1>4. SizedList(none, Entries(S)) /\ KeysHeld(none) = {}
    BY SizedEmpty
<1> HIDE DEF in, out, am, size, new, none
<1>5. TwoQMade(in, out, am, size, S) /\ TwoQMade(in, out, am, new, S)
    BY <1>1, TwoQMakes
<1>6. TwoQMade(none, none, none, size, S)
  <2>1. TwoQLists(none, none, none, S)
    BY <1>4 DEF TwoQLists
  <2> QED
    BY <2>1, TwoQMakes
<1>7. TwoQ!Keys(TwoQ3(in, out, am, new)) = TwoQ!Keys(stack)
    BY <1>1, <1>5, Zenon DEF TwoQMade
<1>8. TwoQ!Keys(TwoQ3(none, none, none, size)) = {}
    BY <1>4, <1>6 DEF TwoQMade
<1> QED
    BY <1>2, <1>3, <1>5, <1>6, <1>7, <1>8 DEF TwoQMade

LEMMA EmptyHeld ==
    ASSUME NEW O, NEW st, SizedList(st, O)
    PROVE  st.list = <<>> <=> KeysHeld(st) = {}
<1>1. st.list # <<>> => KeysHeld(st) # {}
  <2> SUFFICES ASSUME st.list # <<>> PROVE KeysHeld(st) # {}
    OBVIOUS
  <2>1. 1 \in DOMAIN st.list
    BY DEF SizedList
  <2> QED
    BY <2>1 DEF KeysHeld, Lists!KeysOf
<1> QED
    BY <1>1, KeyOrderEmpty DEF KeysHeld

LEMMA TwoQEvicts ==
    ASSUME NEW S, NEW stack, TwoQShape(stack, S)
    PROVE  /\ TwoQShape(TwoQ!EvictOne(stack).stack, S)
           /\ GivesUp(TwoQ!EvictOne(stack), TwoQ!Keys(stack), TwoQ!Keys(TwoQ!EvictOne(stack).stack))
<1> DEFINE in   == stack.a1_in
           out  == stack.a1_out
           am   == stack.am
           size == stack.in_size
<1>1. stack = TwoQ3(in, out, am, size) /\ TwoQLists(in, out, am, S)
    BY DEF TwoQShape
<1>2. /\ SizedList(in, Entries(S)) /\ SizedList(out, Entries(S)) /\ SizedList(am, Entries(S))
      /\ KeysHeld(in) \cap KeysHeld(out) = {} /\ KeysHeld(in) \cap KeysHeld(am) = {}
      /\ KeysHeld(out) \cap KeysHeld(am) = {} /\ Sound(Entries(S), S)
    BY <1>1, EntriesSound DEF TwoQLists
<1> HIDE DEF in, out, am, size
<1>3. TwoQ!Keys(stack) = KeysHeld(in) \cup KeysHeld(out) \cup KeysHeld(am)
    BY <1>1, TwoQMakes DEF TwoQMade
<1>4. /\ in.list = <<>> <=> KeysHeld(in) = {}
      /\ out.list = <<>> <=> KeysHeld(out) = {}
      /\ am.list = <<>> <=> KeysHeld(am) = {}
    BY <1>2, EmptyHeld
<1>5. CASE out.list # <<>>
  <2> DEFINE r == Lists!Rest(out)
             k == Lists!Popped(out).key
  <2>1. TwoQ!EvictOne(stack).key = k /\ TwoQ!EvictOne(stack).stack = TwoQ3(in, r, am, size)
    BY <1>1, <1>5, TwoQOperators DEF TwoQ!EvictOne, TwoQ!Evicting, TwoQ3
  <2>2. SizedList(r, Entries(S)) /\ k \in KeysHeld(out) /\ KeysHeld(r) = KeysHeld(out) \ {k}
    BY <1>2, <1>5, SizedRest
  <2> HIDE DEF r, k
  <2>3. TwoQLists(in, r, am, S)
    BY <1>2, <2>2 DEF TwoQLists
  <2>4. TwoQMade(in, r, am, size, S)
    BY <2>3, TwoQMakes
  <2>5. KeysHeld(in) \cup KeysHeld(r) \cup KeysHeld(am) = TwoQ!Keys(stack) \ {k}
    BY <1>2, <1>3, <2>2
  <2>6. TwoQ!Keys(TwoQ3(in, r, am, size)) = TwoQ!Keys(stack) \ {k} /\ k \in TwoQ!Keys(stack)
    BY <1>3, <2>2, <2>4, <2>5 DEF TwoQMade
  <2> QED
    BY <2>1, <2>4, <2>6, Zenon DEF TwoQMade, GivesUp
<1>6. CASE out.list = <<>> /\ in.list # <<>>
  <2> DEFINE r == Lists!Rest(in)
             k == Lists!Popped(in).key
  <2>1. TwoQ!EvictOne(stack).key = k /\ TwoQ!EvictOne(stack).stack = TwoQ3(r, out, am, size)
    BY <1>1, <1>6, TwoQOperators DEF TwoQ!EvictOne, TwoQ!Evicting, TwoQ3
  <2>2. SizedList(r, Entries(S)) /\ k \in KeysHeld(in) /\ KeysHeld(r) = KeysHeld(in) \ {k}
    BY <1>2, <1>6, SizedRest
  <2> HIDE DEF r, k
  <2>3. TwoQLists(r, out, am, S)
    BY <1>2, <2>2 DEF TwoQLists
  <2>4. TwoQMade(r, out, am, size, S)
    BY <2>3, TwoQMakes
  <2>5. KeysHeld(r) \cup KeysHeld(out) \cup KeysHeld(am) = TwoQ!Keys(stack) \ {k}
    BY <1>2, <1>3, <2>2
  <2>6. TwoQ!Keys(TwoQ3(r, out, am, size)) = TwoQ!Keys(stack) \ {k} /\ k \in TwoQ!Keys(stack)
    BY <1>3, <2>2, <2>4, <2>5 DEF TwoQMade
  <2> QED
    BY <2>1, <2>4, <2>6, Zenon DEF TwoQMade, GivesUp
<1>7. CASE out.list = <<>> /\ in.list = <<>> /\ am.list # <<>>
  <2> DEFINE r == Lists!Rest(am)
             k == Lists!Popped(am).key
  <2>1. TwoQ!EvictOne(stack).key = k /\ TwoQ!EvictOne(stack).stack = TwoQ3(in, out, r, size)
    BY <1>1, <1>7, TwoQOperators DEF TwoQ!EvictOne, TwoQ!Evicting, TwoQ3
  <2>2. SizedList(r, Entries(S)) /\ k \in KeysHeld(am) /\ KeysHeld(r) = KeysHeld(am) \ {k}
    BY <1>2, <1>7, SizedRest
  <2> HIDE DEF r, k
  <2>3. TwoQLists(in, out, r, S)
    BY <1>2, <2>2 DEF TwoQLists
  <2>4. TwoQMade(in, out, r, size, S)
    BY <2>3, TwoQMakes
  <2>5. KeysHeld(in) \cup KeysHeld(out) \cup KeysHeld(r) = TwoQ!Keys(stack) \ {k}
    BY <1>2, <1>3, <2>2
  <2>6. TwoQ!Keys(TwoQ3(in, out, r, size)) = TwoQ!Keys(stack) \ {k} /\ k \in TwoQ!Keys(stack)
    BY <1>3, <2>2, <2>4, <2>5 DEF TwoQMade
  <2> QED
    BY <2>1, <2>4, <2>6, Zenon DEF TwoQMade, GivesUp
<1>8. CASE out.list = <<>> /\ in.list = <<>> /\ am.list = <<>>
  <2>1. TwoQ!EvictOne(stack).key = NoKey /\ TwoQ!EvictOne(stack).stack = stack
    BY <1>1, <1>8 DEF TwoQ!EvictOne, TwoQ!Evicting, TwoQ3
  <2>2. TwoQ!Keys(stack) = {}
    BY <1>3, <1>4, <1>8
  <2> QED
    BY <2>1, <2>2 DEF GivesUp
<1> QED
    BY <1>5, <1>6, <1>7, <1>8

-----------------------------------------------------------------------------
(***************************************************************************)
(* arc                                                                     *)
(***************************************************************************)

\* The four lists hold no key in common.
ArcLists(t1, t2, b1, b2, S) ==
    /\ SizedList(t1, Entries(S)) /\ SizedList(t2, Entries(S))
    /\ SizedList(b1, Entries(S)) /\ SizedList(b2, Entries(S))
    /\ KeysHeld(t1) \cap KeysHeld(t2) = {} /\ KeysHeld(b1) \cap KeysHeld(b2) = {}
    /\ (KeysHeld(t1) \cup KeysHeld(t2)) \cap (KeysHeld(b1) \cup KeysHeld(b2)) = {}

Arc4(t1, t2, b1, b2, p, size) ==
    [t1 |-> t1, t2 |-> t2, b1 |-> b1, b2 |-> b2, p |-> p, max_size |-> size]

ArcShape(stack, S, M) ==
    /\ stack = Arc4(stack.t1, stack.t2, stack.b1, stack.b2, stack.p, stack.max_size)
    /\ ArcLists(stack.t1, stack.t2, stack.b1, stack.b2, S)
    /\ stack.max_size \in M

\* Together they are a stack, with the keys of t1 and t2.
ArcMade(t1, t2, b1, b2, p, size, S, M) ==
    /\ ArcShape(Arc4(t1, t2, b1, b2, p, size), S, M)
    /\ Arc!Keys(Arc4(t1, t2, b1, b2, p, size)) = KeysHeld(t1) \cup KeysHeld(t2)

LEMMA ArcMakes ==
    ASSUME NEW S, NEW M \in SUBSET Nat, NEW t1, NEW t2, NEW b1, NEW b2, NEW p, NEW size \in M,
           ArcLists(t1, t2, b1, b2, S)
    PROVE  ArcMade(t1, t2, b1, b2, p, size, S, M)
  BY DEF ArcMade, ArcShape, Arc4, Arc!Keys, KeysHeld, Arc!KeysOf, Lists!KeysOf

\* One field at a time.
WithT1(stack, x) == [stack EXCEPT !.t1 = x]
WithT2(stack, x) == [stack EXCEPT !.t2 = x]
WithB1(stack, x) == [stack EXCEPT !.b1 = x]
WithB2(stack, x) == [stack EXCEPT !.b2 = x]
WithP(stack, x)  == [stack EXCEPT !.p = x]

LEMMA ArcSets ==
    \A t1, t2, b1, b2, p, size, x :
        LET stack == Arc4(t1, t2, b1, b2, p, size)
        IN  /\ WithT1(stack, x) = Arc4(x, t2, b1, b2, p, size)
            /\ WithT2(stack, x) = Arc4(t1, x, b1, b2, p, size)
            /\ WithB1(stack, x) = Arc4(t1, t2, x, b2, p, size)
            /\ WithB2(stack, x) = Arc4(t1, t2, b1, x, p, size)
            /\ WithP(stack, x)  = Arc4(t1, t2, b1, b2, x, size)
  BY DEF Arc4, WithT1, WithT2, WithB1, WithB2, WithP

LEMMA ArcFields ==
    \A t1, t2, b1, b2, p, size :
        LET stack == Arc4(t1, t2, b1, b2, p, size)
        IN  /\ stack.t1 = t1 /\ stack.t2 = t2 /\ stack.b1 = b1 /\ stack.b2 = b2
            /\ stack.p = p /\ stack.max_size = size
  BY DEF Arc4

LEMMA ArcOperators ==
    /\ Arc!NoStack = Lists!NoStack
    /\ \A k, s : Arc!Object(k, s) = Lists!Object(k, s)
    /\ \A st, k : Arc!Holds(st, k) <=> k \in KeysHeld(st)
    /\ \A st, k : Arc!ObjectOf(st, k) = Lists!ObjectOf(st, k)
    /\ \A st, k : Arc!Without(st, k) = Lists!Without(st, k)
    /\ \A st, k, s : Arc!Sized(st, k, s) = Lists!Sized(st, k, s)
    /\ \A st, o : Arc!Push(st, o) = Lists!Push(st, o)
    /\ \A st : Arc!Popped(st) = Lists!Popped(st) /\ Arc!Rest(st) = Lists!Rest(st)
<1>1. \A l : Arc!KeysOf(l) = Lists!KeysOf(l)
    BY DEF Arc!KeysOf, Lists!KeysOf
<1>2. \A l, k : Arc!PositionOf(l, k) = Lists!PositionOf(l, k)
    BY DEF Arc!PositionOf, Lists!PositionOf
<1>3. \A l, i : Arc!WithoutAt(l, i) = Lists!WithoutAt(l, i)
    BY DEF Arc!WithoutAt, Lists!WithoutAt
<1>4. \A l, k : Arc!OmitObject(l, k) = Lists!OmitObject(l, k)
    BY <1>1, <1>2, <1>3 DEF Arc!OmitObject, Lists!OmitObject
<1>5. \A st, k : /\ Arc!Holds(st, k) <=> k \in KeysHeld(st)
                 /\ Lists!Holds(st, k) <=> k \in KeysHeld(st)
    BY <1>1 DEF Arc!Holds, Lists!Holds, KeysHeld
<1>6. \A st, k : Arc!ObjectOf(st, k) = Lists!ObjectOf(st, k)
    BY <1>2 DEF Arc!ObjectOf, Lists!ObjectOf
<1>7. \A st, k : Arc!Without(st, k) = Lists!Without(st, k)
    BY <1>4, <1>5, <1>6 DEF Arc!Without, Lists!Without
<1>8. \A st, k, s : Arc!Sized(st, k, s) = Lists!Sized(st, k, s)
    BY <1>2, <1>5, <1>6 DEF Arc!Sized, Lists!Sized
<1>9. \A st, o : Arc!Push(st, o) = Lists!Push(st, o)
    BY DEF Arc!Push, Lists!Push
<1>10. \A st : Arc!Popped(st) = Lists!Popped(st) /\ Arc!Rest(st) = Lists!Rest(st)
    BY DEF Arc!Popped, Lists!Popped, Arc!Rest, Lists!Rest, Arc!Back, Lists!Back,
           Arc!WithoutBack, Lists!WithoutBack
<1>11. Arc!NoStack = Lists!NoStack /\ \A k, s : Arc!Object(k, s) = Lists!Object(k, s)
    BY DEF Arc!NoStack, Lists!NoStack, Arc!Object, Lists!Object
<1> QED
    BY <1>5, <1>6, <1>7, <1>8, <1>9, <1>10, <1>11

\* The parts of a stack.
ArcParts(stack, t1, t2, b1, b2, p, size, S, M) ==
    /\ stack = Arc4(t1, t2, b1, b2, p, size) /\ ArcLists(t1, t2, b1, b2, S)
    /\ size \in M /\ Arc!Keys(stack) = KeysHeld(t1) \cup KeysHeld(t2)

LEMMA ArcApart ==
    ASSUME NEW S, NEW M \in SUBSET Nat, NEW stack, ArcShape(stack, S, M)
    PROVE  \E t1, t2, b1, b2, p, size : ArcParts(stack, t1, t2, b1, b2, p, size, S, M)
<1> DEFINE t1 == stack.t1
           t2 == stack.t2
           b1 == stack.b1
           b2 == stack.b2
           p == stack.p
           size == stack.max_size
<1>1. /\ stack = Arc4(t1, t2, b1, b2, p, size) /\ ArcLists(t1, t2, b1, b2, S)
      /\ size \in M
    BY DEF ArcShape
<1> HIDE DEF t1, t2, b1, b2, p, size
<1>2. ArcMade(t1, t2, b1, b2, p, size, S, M)
    BY <1>1, ArcMakes
<1>3. ArcParts(stack, t1, t2, b1, b2, p, size, S, M)
    BY <1>1, <1>2, Zenon DEF ArcParts, ArcMade
<1> QED
    BY <1>3

\* update moves a key to t2.
LEMMA ArcUpdates ==
    ASSUME NEW S, NEW M \in SUBSET Nat, NEW stack, ArcShape(stack, S, M), NEW k \in S
    PROVE  /\ ArcShape(Arc!Update(stack, k), S, M)
           /\ Arc!Keys(Arc!Update(stack, k)) = Arc!Keys(stack)
<1>1. PICK t1, t2, b1, b2, p, size : ArcParts(stack, t1, t2, b1, b2, p, size, S, M)
    BY ArcApart
<1>2. /\ stack = Arc4(t1, t2, b1, b2, p, size) /\ ArcLists(t1, t2, b1, b2, S)
      /\ size \in M /\ Arc!Keys(stack) = KeysHeld(t1) \cup KeysHeld(t2)
    BY <1>1 DEF ArcParts
<1>3. stack.t1 = t1 /\ stack.t2 = t2
    BY <1>2, ArcFields
<1>4. SizedList(t1, Entries(S)) /\ SizedList(t2, Entries(S)) /\ Sound(Entries(S), S)
    BY <1>2, EntriesSound DEF ArcLists
<1>5. CASE k \in KeysHeld(t1)
  <2> DEFINE o == Lists!ObjectOf(t1, k)
             a == Lists!Without(t1, k)
             b == Lists!Push(t2, o)
  <2>1. Arc!Update(stack, k) = [stack EXCEPT !.t1 = a, !.t2 = b]
    BY <1>3, <1>5, ArcOperators DEF Arc!Update
  <2>2. o \in Entries(S) /\ o.key = k
    BY <1>4, <1>5, ObjectOfHolds
  <2> HIDE DEF o
  <2>3. SizedList(a, Entries(S)) /\ KeysHeld(a) = KeysHeld(t1) \ {k}
    BY <1>4, SizedWithout
  <2>4. SizedList(b, Entries(S)) /\ KeysHeld(b) = KeysHeld(t2) \cup {k}
    BY <1>2, <1>4, <1>5, <2>2, SizedPush DEF ArcLists
  <2> HIDE DEF a, b
  <2>5. Arc!Update(stack, k) = Arc4(a, b, b1, b2, p, size)
    <3>1. Arc!Update(stack, k) = WithT2(WithT1(stack, a), b)
        BY <2>1 DEF WithT1, WithT2
    <3> QED
        BY <1>2, <3>1, ArcSets
  <2>6. ArcLists(a, b, b1, b2, S)
    BY <1>2, <1>5, <2>3, <2>4 DEF ArcLists
  <2>7. ArcMade(a, b, b1, b2, p, size, S, M)
    BY <1>2, <2>6, ArcMakes
  <2>8. KeysHeld(a) \cup KeysHeld(b) = Arc!Keys(stack)
    BY <1>2, <1>5, <2>3, <2>4
  <2> QED
    BY <2>5, <2>7, <2>8, Zenon DEF ArcMade
<1>6. CASE k \notin KeysHeld(t1) /\ k \in KeysHeld(t2)
  <2> DEFINE b == Lists!Push(Lists!Without(t2, k), Lists!ObjectOf(t2, k))
  <2>1. Arc!Update(stack, k) = WithT2(stack, b)
    BY <1>3, <1>6, ArcOperators DEF Arc!Update, WithT2
  <2>2. SizedList(b, Entries(S)) /\ KeysHeld(b) = KeysHeld(t2)
    BY <1>4, <1>6, SizedMove
  <2> HIDE DEF b
  <2>3. Arc!Update(stack, k) = Arc4(t1, b, b1, b2, p, size)
    BY <1>2, <2>1, ArcSets
  <2>4. ArcLists(t1, b, b1, b2, S)
    BY <1>2, <2>2 DEF ArcLists
  <2>5. ArcMade(t1, b, b1, b2, p, size, S, M)
    BY <1>2, <2>4, ArcMakes
  <2> QED
    BY <1>2, <2>2, <2>3, <2>5, Zenon DEF ArcMade
<1>7. CASE k \notin KeysHeld(t1) /\ k \notin KeysHeld(t2)
  <2>1. Arc!Update(stack, k) = stack
    BY <1>3, <1>7, ArcOperators DEF Arc!Update
  <2> QED
    BY <2>1
<1> QED
    BY <1>5, <1>6, <1>7

\* arc: a new stack is empty, and a cleared one; a resize moves nothing.
LEMMA ArcStarts ==
    ASSUME NEW S, NEW M \in SUBSET Nat, NEW size \in M
    PROVE  ArcShape(Arc!New(size), S, M) /\ Arc!Keys(Arc!New(size)) = {}
<1> DEFINE none == Lists!NoStack
<1>1. Arc!New(size) = Arc4(none, none, none, none, 0, size)
    BY ArcOperators DEF Arc!New, Arc4
<1>2. SizedList(none, Entries(S)) /\ KeysHeld(none) = {}
    BY SizedEmpty
<1> HIDE DEF none
<1>3. ArcLists(none, none, none, none, S)
    BY <1>2 DEF ArcLists
<1>4. ArcMade(none, none, none, none, 0, size, S, M)
    BY <1>3, ArcMakes
<1> QED
    BY <1>1, <1>2, <1>4 DEF ArcMade

LEMMA ArcResizes ==
    ASSUME NEW S, NEW M \in SUBSET Nat, NEW stack, ArcShape(stack, S, M), NEW max_size \in M
    PROVE  /\ ArcShape(Arc!Resize(stack, max_size), S, M)
           /\ Arc!Keys(Arc!Resize(stack, max_size)) = Arc!Keys(stack)
           /\ ArcShape(Arc!Clear(stack), S, M) /\ Arc!Keys(Arc!Clear(stack)) = {}
<1>1. PICK t1, t2, b1, b2, p, size : ArcParts(stack, t1, t2, b1, b2, p, size, S, M)
    BY ArcApart
<1>2. /\ stack = Arc4(t1, t2, b1, b2, p, size) /\ ArcLists(t1, t2, b1, b2, S)
      /\ size \in M /\ Arc!Keys(stack) = KeysHeld(t1) \cup KeysHeld(t2)
    BY <1>1 DEF ArcParts
<1>3. Arc!Resize(stack, max_size) = Arc4(t1, t2, b1, b2, p, max_size)
    BY <1>2 DEF Arc!Resize, Arc4
<1> DEFINE none == Lists!NoStack
<1>4. SizedList(none, Entries(S)) /\ KeysHeld(none) = {} /\ none = Arc!NoStack
    BY SizedEmpty, ArcOperators
<1> HIDE DEF none
<1>5. Arc!Clear(stack) = Arc4(none, none, none, none, 0, size)
  <2>1. Arc!Clear(stack)
          = WithP(WithB2(WithB1(WithT2(WithT1(stack, none), none), none), none), 0)
    BY <1>4 DEF Arc!Clear, WithT1, WithT2, WithB1, WithB2, WithP
  <2> QED
    BY <1>2, <2>1, ArcSets
<1>6. ArcMade(t1, t2, b1, b2, p, max_size, S, M)
    BY <1>2, ArcMakes
<1>7. ArcLists(none, none, none, none, S)
    BY <1>4 DEF ArcLists
<1>8. ArcMade(none, none, none, none, 0, size, S, M)
    BY <1>2, <1>7, ArcMakes
<1>9. Arc!Keys(Arc!Resize(stack, max_size)) = Arc!Keys(stack) /\ ArcShape(Arc!Resize(stack, max_size), S, M)
    BY <1>2, <1>3, <1>6, Zenon DEF ArcMade
<1>10. Arc!Keys(Arc!Clear(stack)) = {} /\ ArcShape(Arc!Clear(stack), S, M)
    BY <1>4, <1>5, <1>8 DEF ArcMade
<1> QED
    BY <1>9, <1>10

\* A key that is used again; ...
LEMMA ArcSetsAgain ==
    ASSUME NEW S, NEW M \in SUBSET Nat, NEW stack, ArcShape(stack, S, M), NEW k \in S, NEW s \in Nat
    PROVE  /\ ArcShape(Arc!SetAgain(stack, k, s), S, M)
           /\ Arc!Keys(Arc!SetAgain(stack, k, s)) = Arc!Keys(stack)
<1>1. PICK t1, t2, b1, b2, p, size : ArcParts(stack, t1, t2, b1, b2, p, size, S, M)
    BY ArcApart
<1>2. /\ stack = Arc4(t1, t2, b1, b2, p, size) /\ ArcLists(t1, t2, b1, b2, S)
      /\ size \in M /\ Arc!Keys(stack) = KeysHeld(t1) \cup KeysHeld(t2)
    BY <1>1 DEF ArcParts
<1>3. stack.t1 = t1 /\ stack.t2 = t2
    BY <1>2, ArcFields
<1>4. /\ SizedList(t1, Entries(S)) /\ SizedList(t2, Entries(S)) /\ Sound(Entries(S), S)
      /\ Resizable(Entries(S), s)
    BY <1>2, EntriesSound DEF ArcLists
<1> DEFINE a == Lists!Sized(t1, k, s)
           b == Lists!Sized(t2, k, s)
           t == Arc4(a, b, b1, b2, p, size)
<1>5. Arc!SetAgain(stack, k, s) = Arc!Update(WithT2(WithT1(stack, a), b), k)
    BY <1>3, ArcOperators DEF Arc!SetAgain, WithT1, WithT2
<1>6. SizedList(a, Entries(S)) /\ KeysHeld(a) = KeysHeld(t1)
    BY <1>4, SizedSized
<1>7. SizedList(b, Entries(S)) /\ KeysHeld(b) = KeysHeld(t2)
    BY <1>4, SizedSized
<1> HIDE DEF a, b
<1>8. WithT2(WithT1(stack, a), b) = t
    BY <1>2, ArcSets
<1>9. ArcLists(a, b, b1, b2, S)
    BY <1>2, <1>6, <1>7 DEF ArcLists
<1>10. ArcMade(a, b, b1, b2, p, size, S, M)
    BY <1>2, <1>9, ArcMakes
<1>11. ArcShape(t, S, M) /\ Arc!Keys(t) = Arc!Keys(stack)
    BY <1>2, <1>6, <1>7, <1>10, Zenon DEF ArcMade
<1> HIDE DEF t
<1>12. ArcShape(Arc!Update(t, k), S, M) /\ Arc!Keys(Arc!Update(t, k)) = Arc!Keys(t)
    BY <1>11, ArcUpdates
<1> QED
    BY <1>5, <1>8, <1>11, <1>12

\* ... of arc, each call does to the keys what it should.
LEMMA ArcInserts ==
    ASSUME NEW S, NEW M \in SUBSET Nat, NEW stack, ArcShape(stack, S, M), NEW k \in S, NEW s \in Nat
    PROVE  /\ ArcShape(Arc!Insert(stack, k, s), S, M)
           /\ Arc!Keys(Arc!Insert(stack, k, s)) = Arc!Keys(stack) \cup {k}
<1>1. PICK t1, t2, b1, b2, p, size : ArcParts(stack, t1, t2, b1, b2, p, size, S, M)
    BY ArcApart
<1>2. /\ stack = Arc4(t1, t2, b1, b2, p, size) /\ ArcLists(t1, t2, b1, b2, S)
      /\ size \in M /\ Arc!Keys(stack) = KeysHeld(t1) \cup KeysHeld(t2)
    BY <1>1 DEF ArcParts
<1>3. stack.t1 = t1 /\ stack.t2 = t2 /\ stack.b1 = b1 /\ stack.b2 = b2
    BY <1>2, ArcFields
<1>4. /\ SizedList(t1, Entries(S)) /\ SizedList(t2, Entries(S))
      /\ SizedList(b1, Entries(S)) /\ SizedList(b2, Entries(S)) /\ Sound(Entries(S), S)
    BY <1>2, EntriesSound DEF ArcLists
<1> DEFINE o == Lists!Object(k, s)
<1>5. o \in Entries(S) /\ o.key = k /\ o = Arc!Object(k, s)
    BY EntriesSound, ArcOperators
<1> HIDE DEF o
<1>6. CASE k \in Arc!Keys(stack)
  <2>1. Arc!Insert(stack, k, s) = Arc!SetAgain(stack, k, s)
    BY <1>6 DEF Arc!Insert
  <2> QED
    BY <1>6, <2>1, ArcSetsAgain
<1> DEFINE b == Lists!Push(t2, o)
<1>7. ASSUME k \notin Arc!Keys(stack)
      PROVE  SizedList(b, Entries(S)) /\ KeysHeld(b) = KeysHeld(t2) \cup {k}
    BY <1>2, <1>4, <1>5, <1>7, SizedPush
<1>8. CASE k \notin Arc!Keys(stack) /\ k \in KeysHeld(b1)
  <2> DEFINE w == Lists!Without(b1, k)
             q == Arc!Raised(stack, w.used, b2.used)
  <2>1. Arc!Insert(stack, k, s) = WithT2(WithP(WithB1(stack, w), q), b)
    BY <1>3, <1>5, <1>8, ArcOperators DEF Arc!Insert, WithT2, WithP, WithB1
  <2>2. SizedList(w, Entries(S)) /\ KeysHeld(w) = KeysHeld(b1) \ {k}
    BY <1>4, SizedWithout
  <2> HIDE DEF b, w, q
  <2>3. WithT2(WithP(WithB1(stack, w), q), b) = Arc4(t1, b, w, b2, q, size)
    BY <1>2, ArcSets
  <2>4. ArcLists(t1, b, w, b2, S)
    BY <1>2, <1>7, <1>8, <2>2 DEF ArcLists
  <2>5. ArcMade(t1, b, w, b2, q, size, S, M)
    BY <1>2, <2>4, ArcMakes
  <2>6. KeysHeld(t1) \cup KeysHeld(b) = Arc!Keys(stack) \cup {k}
    BY <1>2, <1>7, <1>8
  <2> QED
    BY <2>1, <2>3, <2>5, <2>6, Zenon DEF ArcMade
<1>9. CASE k \notin Arc!Keys(stack) /\ k \notin KeysHeld(b1) /\ k \in KeysHeld(b2)
  <2> DEFINE w == Lists!Without(b2, k)
             q == Arc!Lowered(stack, w.used, b1.used)
  <2>1. Arc!Insert(stack, k, s) = WithT2(WithP(WithB2(stack, w), q), b)
    BY <1>3, <1>5, <1>9, ArcOperators DEF Arc!Insert, WithT2, WithP, WithB2
  <2>2. SizedList(w, Entries(S)) /\ KeysHeld(w) = KeysHeld(b2) \ {k}
    BY <1>4, SizedWithout
  <2> HIDE DEF b, w, q
  <2>3. WithT2(WithP(WithB2(stack, w), q), b) = Arc4(t1, b, b1, w, q, size)
    BY <1>2, ArcSets
  <2>4. ArcLists(t1, b, b1, w, S)
    BY <1>2, <1>7, <1>9, <2>2 DEF ArcLists
  <2>5. ArcMade(t1, b, b1, w, q, size, S, M)
    BY <1>2, <2>4, ArcMakes
  <2>6. KeysHeld(t1) \cup KeysHeld(b) = Arc!Keys(stack) \cup {k}
    BY <1>2, <1>7, <1>9
  <2> QED
    BY <2>1, <2>3, <2>5, <2>6, Zenon DEF ArcMade
<1>10. CASE k \notin Arc!Keys(stack) /\ k \notin KeysHeld(b1) /\ k \notin KeysHeld(b2)
  <2> DEFINE a == Lists!Push(t1, o)
  <2>1. Arc!Insert(stack, k, s) = WithT1(stack, a)
    BY <1>3, <1>5, <1>10, ArcOperators DEF Arc!Insert, WithT1
  <2>2. SizedList(a, Entries(S)) /\ KeysHeld(a) = KeysHeld(t1) \cup {k}
    BY <1>2, <1>4, <1>5, <1>10, SizedPush
  <2> HIDE DEF a, b
  <2>3. WithT1(stack, a) = Arc4(a, t2, b1, b2, p, size)
    BY <1>2, ArcSets
  <2>4. ArcLists(a, t2, b1, b2, S)
    BY <1>2, <1>10, <2>2 DEF ArcLists
  <2>5. ArcMade(a, t2, b1, b2, p, size, S, M)
    BY <1>2, <2>4, ArcMakes
  <2>6. KeysHeld(a) \cup KeysHeld(t2) = Arc!Keys(stack) \cup {k}
    BY <1>2, <2>2
  <2> QED
    BY <2>1, <2>3, <2>5, <2>6, Zenon DEF ArcMade
<1> QED
    BY <1>6, <1>8, <1>9, <1>10

LEMMA ArcRemoves ==
    ASSUME NEW S, NEW M \in SUBSET Nat, NEW stack, ArcShape(stack, S, M), NEW k \in S
    PROVE  /\ ArcShape(Arc!Remove(stack, k), S, M)
           /\ Arc!Keys(Arc!Remove(stack, k)) = Arc!Keys(stack) \ {k}
<1>1. PICK t1, t2, b1, b2, p, size : ArcParts(stack, t1, t2, b1, b2, p, size, S, M)
    BY ArcApart
<1>2. /\ stack = Arc4(t1, t2, b1, b2, p, size) /\ ArcLists(t1, t2, b1, b2, S)
      /\ size \in M /\ Arc!Keys(stack) = KeysHeld(t1) \cup KeysHeld(t2)
    BY <1>1 DEF ArcParts
<1>3. stack.t1 = t1 /\ stack.t2 = t2 /\ stack.b1 = b1 /\ stack.b2 = b2
    BY <1>2, ArcFields
<1>4. /\ SizedList(t1, Entries(S)) /\ SizedList(t2, Entries(S))
      /\ SizedList(b1, Entries(S)) /\ SizedList(b2, Entries(S)) /\ Sound(Entries(S), S)
    BY <1>2, EntriesSound DEF ArcLists
<1> DEFINE a == Lists!Without(t1, k)
           b == Lists!Without(t2, k)
           c == Lists!Without(b1, k)
           d == Lists!Without(b2, k)
<1>5. Arc!Remove(stack, k) = WithB2(WithB1(WithT2(WithT1(stack, a), b), c), d)
    BY <1>3, ArcOperators DEF Arc!Remove, WithT1, WithT2, WithB1, WithB2
<1>6. SizedList(a, Entries(S)) /\ KeysHeld(a) = KeysHeld(t1) \ {k}
    BY <1>4, SizedWithout
<1>7. SizedList(b, Entries(S)) /\ KeysHeld(b) = KeysHeld(t2) \ {k}
    BY <1>4, SizedWithout
<1>8. SizedList(c, Entries(S)) /\ KeysHeld(c) = KeysHeld(b1) \ {k}
    BY <1>4, SizedWithout
<1>9. SizedList(d, Entries(S)) /\ KeysHeld(d) = KeysHeld(b2) \ {k}
    BY <1>4, SizedWithout
<1> HIDE DEF a, b, c, d
<1>10. Arc!Remove(stack, k) = Arc4(a, b, c, d, p, size)
    BY <1>2, <1>5, ArcSets
<1>11. ArcLists(a, b, c, d, S)
    BY <1>2, <1>6, <1>7, <1>8, <1>9 DEF ArcLists
<1>12. ArcMade(a, b, c, d, p, size, S, M)
    BY <1>2, <1>11, ArcMakes
<1>13. KeysHeld(a) \cup KeysHeld(b) = Arc!Keys(stack) \ {k}
    BY <1>2, <1>6, <1>7
<1> QED
    BY <1>10, <1>12, <1>13, Zenon DEF ArcMade

\* replace: t1 or t2 gives up an object, which its ghost remembers.
LEMMA ArcReplaces ==
    ASSUME NEW S, NEW M \in SUBSET Nat, NEW stack, ArcShape(stack, S, M)
    PROVE  /\ ArcShape(Arc!Replace(stack).stack, S, M)
           /\ GivesUp(Arc!Replace(stack), Arc!Keys(stack), Arc!Keys(Arc!Replace(stack).stack))
<1>1. PICK t1, t2, b1, b2, p, size : ArcParts(stack, t1, t2, b1, b2, p, size, S, M)
    BY ArcApart
<1>2. /\ stack = Arc4(t1, t2, b1, b2, p, size) /\ ArcLists(t1, t2, b1, b2, S)
      /\ size \in M /\ Arc!Keys(stack) = KeysHeld(t1) \cup KeysHeld(t2)
    BY <1>1 DEF ArcParts
<1>3. stack.t1 = t1 /\ stack.t2 = t2 /\ stack.b1 = b1 /\ stack.b2 = b2
    BY <1>2, ArcFields
<1>4. /\ SizedList(t1, Entries(S)) /\ SizedList(t2, Entries(S))
      /\ SizedList(b1, Entries(S)) /\ SizedList(b2, Entries(S)) /\ Sound(Entries(S), S)
    BY <1>2, EntriesSound DEF ArcLists
<1> DEFINE first == t1.list # <<>> /\ (t1.used * Scale >= stack.p \/ t2.list = <<>>)
<1>5. CASE first
  <2> DEFINE r == Lists!Rest(t1)
             o == Lists!Popped(t1)
             g == Lists!Push(b1, o)
  <2>1. /\ Arc!Replace(stack).key = o.key
        /\ Arc!Replace(stack).stack = WithB1(WithT1(stack, r), g)
    BY <1>3, <1>5, ArcOperators DEF Arc!Replace, Arc!Evicting, WithT1, WithB1
  <2>2. /\ SizedList(r, Entries(S)) /\ o \in Entries(S) /\ o.key \in KeysHeld(t1)
        /\ KeysHeld(r) = KeysHeld(t1) \ {o.key}
    BY <1>4, <1>5, SizedRest
  <2> HIDE DEF r, o
  <2>3. SizedList(g, Entries(S)) /\ KeysHeld(g) = KeysHeld(b1) \cup {o.key}
    BY <1>2, <1>4, <2>2, SizedPush DEF ArcLists
  <2> HIDE DEF g, first
  <2>4. WithB1(WithT1(stack, r), g) = Arc4(r, t2, g, b2, p, size)
    BY <1>2, ArcSets
  <2>5. ArcLists(r, t2, g, b2, S)
    BY <1>2, <2>2, <2>3 DEF ArcLists
  <2>6. ArcMade(r, t2, g, b2, p, size, S, M)
    BY <1>2, <2>5, ArcMakes
  <2>7. KeysHeld(r) \cup KeysHeld(t2) = Arc!Keys(stack) \ {o.key} /\ o.key \in Arc!Keys(stack)
    BY <1>2, <2>2 DEF ArcLists
  <2> QED
    BY <2>1, <2>4, <2>6, <2>7, Zenon DEF ArcMade, GivesUp
<1>6. CASE ~first /\ t2.list # <<>>
  <2> DEFINE r == Lists!Rest(t2)
             o == Lists!Popped(t2)
             g == Lists!Push(b2, o)
  <2>1. /\ Arc!Replace(stack).key = o.key
        /\ Arc!Replace(stack).stack = WithB2(WithT2(stack, r), g)
    BY <1>3, <1>6, ArcOperators DEF Arc!Replace, Arc!Evicting, WithT2, WithB2
  <2>2. /\ SizedList(r, Entries(S)) /\ o \in Entries(S) /\ o.key \in KeysHeld(t2)
        /\ KeysHeld(r) = KeysHeld(t2) \ {o.key}
    BY <1>4, <1>6, SizedRest
  <2> HIDE DEF r, o
  <2>3. SizedList(g, Entries(S)) /\ KeysHeld(g) = KeysHeld(b2) \cup {o.key}
    BY <1>2, <1>4, <2>2, SizedPush DEF ArcLists
  <2> HIDE DEF g, first
  <2>4. WithB2(WithT2(stack, r), g) = Arc4(t1, r, b1, g, p, size)
    BY <1>2, ArcSets
  <2>5. ArcLists(t1, r, b1, g, S)
    BY <1>2, <2>2, <2>3 DEF ArcLists
  <2>6. ArcMade(t1, r, b1, g, p, size, S, M)
    BY <1>2, <2>5, ArcMakes
  <2>7. KeysHeld(t1) \cup KeysHeld(r) = Arc!Keys(stack) \ {o.key} /\ o.key \in Arc!Keys(stack)
    BY <1>2, <2>2 DEF ArcLists
  <2> QED
    BY <2>1, <2>4, <2>6, <2>7, Zenon DEF ArcMade, GivesUp
<1>7. CASE ~first /\ t2.list = <<>>
  <2>1. t1.list = <<>>
    BY <1>7
  <2>2. Arc!Replace(stack).key = NoKey /\ Arc!Replace(stack).stack = stack
    BY <1>3, <1>7, <2>1 DEF Arc!Replace, Arc!Evicting
  <2>3. Arc!Keys(stack) = {}
    BY <1>2, <1>4, <1>7, <2>1, EmptyHeld
  <2> QED
    BY <2>2, <2>3 DEF GivesUp
<1> QED
    BY <1>5, <1>6, <1>7

\* A ghost that forgets its oldest key, or none.
LEMMA ArcForgets ==
    ASSUME NEW S, NEW st, SizedList(st, Entries(S))
    PROVE  /\ SizedList(Arc!WithoutOldest(st), Entries(S))
           /\ KeysHeld(Arc!WithoutOldest(st)) \subseteq KeysHeld(st)
<1>1. CASE st.list = <<>>
    BY <1>1 DEF Arc!WithoutOldest
<1>2. CASE st.list # <<>>
  <2>1. Arc!WithoutOldest(st) = Lists!Rest(st)
    BY <1>2, ArcOperators DEF Arc!WithoutOldest
  <2>2. SizedList(Lists!Rest(st), Entries(S)) /\ KeysHeld(Lists!Rest(st)) \subseteq KeysHeld(st)
    BY <1>2, EntriesSound, SizedRest
  <2> QED
    BY <2>1, <2>2
<1> QED
    BY <1>1, <1>2

LEMMA ArcEvicts ==
    ASSUME NEW S, NEW M \in SUBSET Nat, NEW stack, ArcShape(stack, S, M)
    PROVE  /\ ArcShape(Arc!EvictOne(stack).stack, S, M)
           /\ \/ GivesUp(Arc!EvictOne(stack), Arc!Keys(stack),
                         Arc!Keys(Arc!EvictOne(stack).stack))
              \/ /\ stack.max_size = 0 /\ Arc!EvictOne(stack).key = NoKey
                 /\ Arc!Keys(Arc!EvictOne(stack).stack) = Arc!Keys(stack)
<1>1. PICK t1, t2, b1, b2, p, size : ArcParts(stack, t1, t2, b1, b2, p, size, S, M)
    BY ArcApart
<1>2. /\ stack = Arc4(t1, t2, b1, b2, p, size) /\ ArcLists(t1, t2, b1, b2, S)
      /\ size \in M /\ Arc!Keys(stack) = KeysHeld(t1) \cup KeysHeld(t2)
    BY <1>1 DEF ArcParts
<1>3. /\ stack.t1 = t1 /\ stack.t2 = t2 /\ stack.b1 = b1 /\ stack.b2 = b2
      /\ stack.max_size = size
    BY <1>2, ArcFields
<1>4. /\ SizedList(t1, Entries(S)) /\ SizedList(t2, Entries(S))
      /\ SizedList(b1, Entries(S)) /\ SizedList(b2, Entries(S)) /\ Sound(Entries(S), S)
    BY <1>2, EntriesSound DEF ArcLists
<1>5. t1.used \in Nat
    BY <1>4, SumIsNat DEF Sound, SizedList
<1>6. CASE t1.used >= size /\ t1.list # <<>>
  <2> DEFINE r == Lists!Rest(t1)
             k == Lists!Popped(t1).key
  <2>1. Arc!EvictOne(stack).key = k /\ Arc!EvictOne(stack).stack = WithT1(stack, r)
    BY <1>2, <1>3, <1>5, <1>6, ArcOperators DEF Arc!EvictOne, Arc!Evicting, WithT1
  <2>3. SizedList(r, Entries(S)) /\ k \in KeysHeld(t1) /\ KeysHeld(r) = KeysHeld(t1) \ {k}
    BY <1>4, <1>6, SizedRest
  <2> HIDE DEF r, k
  <2>4. WithT1(stack, r) = Arc4(r, t2, b1, b2, p, size)
    BY <1>2, ArcSets
  <2>5. ArcLists(r, t2, b1, b2, S)
    BY <1>2, <2>3 DEF ArcLists
  <2>6. ArcMade(r, t2, b1, b2, p, size, S, M)
    BY <1>2, <2>5, ArcMakes
  <2>7. KeysHeld(r) \cup KeysHeld(t2) = Arc!Keys(stack) \ {k} /\ k \in Arc!Keys(stack)
    BY <1>2, <2>3 DEF ArcLists
  <2> QED
    BY <2>1, <2>4, <2>6, <2>7, Zenon DEF ArcMade, GivesUp
<1>7. ASSUME NEW t, ArcShape(t, S, M), Arc!Keys(t) = Arc!Keys(stack), Arc!EvictOne(stack) = Arc!Replace(t)
      PROVE  /\ ArcShape(Arc!EvictOne(stack).stack, S, M)
             /\ GivesUp(Arc!EvictOne(stack), Arc!Keys(stack), Arc!Keys(Arc!EvictOne(stack).stack))
  <2>1. /\ ArcShape(Arc!Replace(t).stack, S, M)
        /\ GivesUp(Arc!Replace(t), Arc!Keys(t), Arc!Keys(Arc!Replace(t).stack))
    BY <1>7, ArcReplaces
  <2> QED
    BY <1>7, <2>1
<1>8. CASE t1.used < size /\ t1.used + b1.used >= size
  <2> DEFINE g == Arc!WithoutOldest(b1)
             t == WithB1(stack, g)
  <2>1. Arc!EvictOne(stack) = Arc!Replace(t)
    BY <1>2, <1>3, <1>5, <1>8 DEF Arc!EvictOne, WithB1
  <2>2. SizedList(g, Entries(S)) /\ KeysHeld(g) \subseteq KeysHeld(b1)
    BY <1>4, ArcForgets
  <2> HIDE DEF g
  <2>3. t = Arc4(t1, t2, g, b2, p, size)
    BY <1>2, ArcSets
  <2>4. ArcLists(t1, t2, g, b2, S)
    BY <1>2, <2>2 DEF ArcLists
  <2>5. ArcMade(t1, t2, g, b2, p, size, S, M)
    BY <1>2, <2>4, ArcMakes
  <2> HIDE DEF t
  <2>6. ArcShape(t, S, M) /\ Arc!Keys(t) = Arc!Keys(stack)
    BY <1>2, <2>3, <2>5, Zenon DEF ArcMade
  <2> QED
    BY <1>7, <2>1, <2>6
<1>9. CASE t1.used < size /\ ~(t1.used + b1.used >= size)
  <2> DEFINE g == Arc!WithoutOldest(b2)
             t == WithB2(stack, g)
  <2>1. Arc!EvictOne(stack) = Arc!Replace(t) \/ Arc!EvictOne(stack) = Arc!Replace(stack)
    BY <1>2, <1>3, <1>5, <1>9 DEF Arc!EvictOne, WithB2
  <2>2. SizedList(g, Entries(S)) /\ KeysHeld(g) \subseteq KeysHeld(b2)
    BY <1>4, ArcForgets
  <2> HIDE DEF g
  <2>3. t = Arc4(t1, t2, b1, g, p, size)
    BY <1>2, ArcSets
  <2>4. ArcLists(t1, t2, b1, g, S)
    BY <1>2, <2>2 DEF ArcLists
  <2>5. ArcMade(t1, t2, b1, g, p, size, S, M)
    BY <1>2, <2>4, ArcMakes
  <2> HIDE DEF t
  <2>6. ArcShape(t, S, M) /\ Arc!Keys(t) = Arc!Keys(stack)
    BY <1>2, <2>3, <2>5, Zenon DEF ArcMade
  <2> QED
    BY <1>7, <2>1, <2>6
<1>10. CASE t1.used >= size /\ t1.list = <<>>
  <2>1. size = 0
    BY <1>2, <1>4, <1>10, SumEmpty DEF SizedList
  <2>2. Arc!EvictOne(stack).key = NoKey /\ Arc!EvictOne(stack).stack = stack
    BY <1>2, <1>3, <1>5, <1>10 DEF Arc!EvictOne, Arc!Evicting
  <2> QED
    BY <1>3, <2>1, <2>2
<1>11. t1.used >= size \/ t1.used < size
    BY <1>2, <1>5
<1> QED
    BY <1>6, <1>8, <1>9, <1>10, <1>11

-----------------------------------------------------------------------------
(***************************************************************************)
(* s3-fifo                                                                 *)
(***************************************************************************)

Counted(S) == [key : S, size : Nat, freq : 0 .. 3]

LEMMA CountedSound ==
    ASSUME NEW S
    PROVE  /\ Sound(Counted(S), S)
           /\ \A s \in Nat : Resizable(Counted(S), s)
           /\ \A o \in Counted(S) : /\ SThree!IncrFreq(o) \in Counted(S)
                                    /\ SThree!IncrFreq(o).key = o.key
                                    /\ SThree!IncrFreq(o).size = o.size
           /\ \A k \in S, s \in Nat : /\ SThree!NewObject(k, s) \in Counted(S)
                                      /\ SThree!NewObject(k, s).key = k
<1>1. Keyed(Counted(S), S) /\ Sizeable(Counted(S))
    BY DEF Keyed, Sizeable, Counted
<1>2. ASSUME NEW s \in Nat PROVE Resizable(Counted(S), s)
    BY DEF Resizable, Counted
<1>3. ASSUME NEW o \in Counted(S)
      PROVE  /\ SThree!IncrFreq(o) \in Counted(S) /\ SThree!IncrFreq(o).key = o.key
             /\ SThree!IncrFreq(o).size = o.size
  <2> DEFINE f == IF o.freq < 3 THEN o.freq + 1 ELSE o.freq
  <2>1. SThree!IncrFreq(o) = [o EXCEPT !.freq = f]
    BY DEF SThree!IncrFreq, SThree!MaxFreq
  <2>2. f \in 0 .. 3
    BY DEF Counted
  <2> HIDE DEF f
  <2> QED
    BY <2>1, <2>2 DEF Counted
<1>4. ASSUME NEW k \in S, NEW s \in Nat
      PROVE  SThree!NewObject(k, s) \in Counted(S) /\ SThree!NewObject(k, s).key = k
    BY DEF SThree!NewObject, Counted
<1> QED
    BY <1>1, <1>2, <1>3, <1>4 DEF Sound

\* small and main hold no key in common, and ghost, which holds none twice, none of small.
SThreeLists(small, main, ghost, S) ==
    /\ SizedList(small, Counted(S)) /\ SizedList(main, Counted(S))
    /\ KeysHeld(small) \cap KeysHeld(main) = {}
    /\ KeyList(ghost, S) /\ KeysHeld(small) \cap Lists!Elements(ghost) = {}

SThree4(small, main, ghost, size) ==
    [small |-> small, main |-> main, ghost |-> ghost, main_size |-> size]

SThreeShape(stack, S, M) ==
    /\ stack = SThree4(stack.small, stack.main, stack.ghost, stack.main_size)
    /\ SThreeLists(stack.small, stack.main, stack.ghost, S)
    /\ stack.main_size \in M

\* Together they are a stack, with the keys of small and main.
SThreeMade(small, main, ghost, size, S, M) ==
    /\ SThreeShape(SThree4(small, main, ghost, size), S, M)
    /\ SThree!Keys(SThree4(small, main, ghost, size)) = KeysHeld(small) \cup KeysHeld(main)

LEMMA SThreeMakes ==
    ASSUME NEW S, NEW M \in SUBSET Nat, NEW small, NEW main, NEW ghost, NEW size \in M,
           SThreeLists(small, main, ghost, S)
    PROVE  SThreeMade(small, main, ghost, size, S, M)
  BY DEF SThreeMade, SThreeShape, SThree4, SThree!Keys, KeysHeld, SThree!KeysOf, Lists!KeysOf

\* One field at a time.
WithSmall(stack, x) == [stack EXCEPT !.small = x]
WithMain(stack, x)  == [stack EXCEPT !.main = x]
WithGhost(stack, x) == [stack EXCEPT !.ghost = x]

LEMMA SThreeSets ==
    \A small, main, ghost, size, x :
        LET stack == SThree4(small, main, ghost, size)
        IN  /\ WithSmall(stack, x) = SThree4(x, main, ghost, size)
            /\ WithMain(stack, x) = SThree4(small, x, ghost, size)
            /\ WithGhost(stack, x) = SThree4(small, main, x, size)
  BY DEF SThree4, WithSmall, WithMain, WithGhost

LEMMA SThreeFields ==
    \A small, main, ghost, size :
        LET stack == SThree4(small, main, ghost, size)
        IN  /\ stack.small = small /\ stack.main = main /\ stack.ghost = ghost
            /\ stack.main_size = size
  BY DEF SThree4

LEMMA SThreeOperators ==
    /\ SThree!NoStack = Lists!NoStack
    /\ \A l : SThree!SumOfSizes(l) = Lists!SumOfSizes(l)
    /\ \A l, k : SThree!PositionOf(l, k) = Lists!PositionOf(l, k)
    /\ \A l, k : /\ SThree!Has(l, k) <=> k \in Lists!Elements(l)
                 /\ SThree!Omit(l, k) = Lists!Omit(l, k)
                 /\ SThree!PushFront(l, k) = Lists!PushFront(l, k)
    /\ \A st, k : SThree!Holds(st, k) <=> k \in KeysHeld(st)
    /\ \A st, k : SThree!ObjectOf(st, k) = Lists!ObjectOf(st, k)
    /\ \A st, k : SThree!Without(st, k) = Lists!Without(st, k)
    /\ \A st, k, s : SThree!Sized(st, k, s) = Lists!Sized(st, k, s)
    /\ \A st, o : SThree!Push(st, o) = Lists!Push(st, o)
    /\ \A st : SThree!Popped(st) = Lists!Popped(st) /\ SThree!Rest(st) = Lists!Rest(st)
<1>1. \A l : SThree!KeysOf(l) = Lists!KeysOf(l)
    BY DEF SThree!KeysOf, Lists!KeysOf
<1>2. \A l, k : SThree!PositionOf(l, k) = Lists!PositionOf(l, k)
    BY DEF SThree!PositionOf, Lists!PositionOf
<1>3. \A l, i : SThree!WithoutAt(l, i) = Lists!WithoutAt(l, i)
    BY DEF SThree!WithoutAt, Lists!WithoutAt
<1>4. \A l, k : SThree!OmitObject(l, k) = Lists!OmitObject(l, k)
    BY <1>1, <1>2, <1>3 DEF SThree!OmitObject, Lists!OmitObject
<1>5. \A st, k : /\ SThree!Holds(st, k) <=> k \in KeysHeld(st)
                 /\ Lists!Holds(st, k) <=> k \in KeysHeld(st)
    BY <1>1 DEF SThree!Holds, Lists!Holds, KeysHeld
<1>6. \A st, k : SThree!ObjectOf(st, k) = Lists!ObjectOf(st, k)
    BY <1>2 DEF SThree!ObjectOf, Lists!ObjectOf
<1>7. \A st, k : SThree!Without(st, k) = Lists!Without(st, k)
    BY <1>4, <1>5, <1>6 DEF SThree!Without, Lists!Without
<1>8. \A st, k, s : SThree!Sized(st, k, s) = Lists!Sized(st, k, s)
    BY <1>2, <1>5, <1>6 DEF SThree!Sized, Lists!Sized
<1>9. \A st, o : SThree!Push(st, o) = Lists!Push(st, o)
    BY DEF SThree!Push, Lists!Push
<1>10. \A st : SThree!Popped(st) = Lists!Popped(st) /\ SThree!Rest(st) = Lists!Rest(st)
    BY DEF SThree!Popped, Lists!Popped, SThree!Rest, Lists!Rest, SThree!Back, Lists!Back,
           SThree!WithoutBack, Lists!WithoutBack
<1>11. \A l : SThree!SumOfSizes(l) = Lists!SumOfSizes(l)
    BY DEF SThree!SumOfSizes, Lists!SumOfSizes
<1>12. SThree!NoStack = Lists!NoStack
    BY DEF SThree!NoStack, Lists!NoStack
<1>13. \A l, k : /\ SThree!Has(l, k) <=> k \in Lists!Elements(l)
                 /\ Lists!Has(l, k) <=> k \in Lists!Elements(l)
    BY DEF SThree!Has, Lists!Has, SThree!Elements, Lists!Elements
<1>14. \A l, k : SThree!Omit(l, k) = Lists!Omit(l, k)
    BY <1>3, <1>13 DEF SThree!Omit, Lists!Omit
<1>15. \A l, k : SThree!PushFront(l, k) = Lists!PushFront(l, k)
    BY <1>14 DEF SThree!PushFront, Lists!PushFront
<1> QED
    BY <1>2, <1>5, <1>6, <1>7, <1>8, <1>9, <1>10, <1>11, <1>12, <1>13, <1>14, <1>15

\* The parts of a stack.
SThreeParts(stack, small, main, ghost, size, S, M) ==
    /\ stack = SThree4(small, main, ghost, size) /\ SThreeLists(small, main, ghost, S)
    /\ size \in M /\ SThree!Keys(stack) = KeysHeld(small) \cup KeysHeld(main)

LEMMA SThreeApart ==
    ASSUME NEW S, NEW M \in SUBSET Nat, NEW stack, SThreeShape(stack, S, M)
    PROVE  \E small, main, ghost, size : SThreeParts(stack, small, main, ghost, size, S, M)
<1> DEFINE small == stack.small
           main  == stack.main
           ghost == stack.ghost
           size  == stack.main_size
<1>1. /\ stack = SThree4(small, main, ghost, size) /\ SThreeLists(small, main, ghost, S)
      /\ size \in M
    BY DEF SThreeShape
<1> HIDE DEF small, main, ghost, size
<1>2. SThreeMade(small, main, ghost, size, S, M)
    BY <1>1, SThreeMakes
<1>3. SThreeParts(stack, small, main, ghost, size, S, M)
    BY <1>1, <1>2, Zenon DEF SThreeParts, SThreeMade
<1> QED
    BY <1>3

\* s3-fifo: a new stack is empty, and a cleared one; a resize moves nothing.
LEMMA SThreeStarts ==
    ASSUME NEW S, NEW M \in SUBSET Nat, NEW max_size, SThree!MainSize(max_size) \in M
    PROVE  SThreeShape(SThree!New(max_size), S, M) /\ SThree!Keys(SThree!New(max_size)) = {}
<1> DEFINE none == Lists!NoStack
           size == SThree!MainSize(max_size)
<1>1. SThree!New(max_size) = SThree4(none, none, <<>>, size)
    BY SThreeOperators DEF SThree!New, SThree4
<1>2. SizedList(none, Counted(S)) /\ KeysHeld(none) = {} /\ KeyList(<<>>, S)
    BY SizedEmpty, EmptyHolds DEF KeyList
<1> HIDE DEF none, size
<1>3. SThreeLists(none, none, <<>>, S)
    BY <1>2 DEF SThreeLists
<1>4. SThreeMade(none, none, <<>>, size, S, M)
    BY <1>3, SThreeMakes DEF size
<1> QED
    BY <1>1, <1>2, <1>4 DEF SThreeMade

LEMMA SThreeResizes ==
    ASSUME NEW S, NEW M \in SUBSET Nat, NEW stack, SThreeShape(stack, S, M), NEW max_size,
           SThree!MainSize(max_size) \in M
    PROVE  /\ SThreeShape(SThree!Resize(stack, max_size), S, M)
           /\ SThree!Keys(SThree!Resize(stack, max_size)) = SThree!Keys(stack)
           /\ SThreeShape(SThree!Clear(stack), S, M) /\ SThree!Keys(SThree!Clear(stack)) = {}
<1>1. PICK small, main, ghost, size : SThreeParts(stack, small, main, ghost, size, S, M)
    BY SThreeApart
<1>2. /\ stack = SThree4(small, main, ghost, size) /\ SThreeLists(small, main, ghost, S)
      /\ size \in M /\ SThree!Keys(stack) = KeysHeld(small) \cup KeysHeld(main)
    BY <1>1 DEF SThreeParts
<1> DEFINE none == Lists!NoStack
           new == SThree!MainSize(max_size)
<1>3. SThree!Resize(stack, max_size) = SThree4(small, main, ghost, new)
    BY <1>2 DEF SThree!Resize, SThree4
<1>4. /\ SizedList(none, Counted(S)) /\ KeysHeld(none) = {} /\ none = SThree!NoStack
      /\ KeyList(<<>>, S) /\ new \in M
    BY SizedEmpty, SThreeOperators, EmptyHolds DEF KeyList
<1> HIDE DEF none, new
<1>5. SThree!Clear(stack) = SThree4(none, none, <<>>, size)
  <2>1. SThree!Clear(stack) = WithGhost(WithMain(WithSmall(stack, none), none), <<>>)
    BY <1>4 DEF SThree!Clear, WithSmall, WithMain, WithGhost
  <2> QED
    BY <1>2, <2>1, SThreeSets
<1>6. SThreeMade(small, main, ghost, new, S, M)
    BY <1>2, <1>4, SThreeMakes
<1>7. SThreeLists(none, none, <<>>, S)
    BY <1>4 DEF SThreeLists
<1>8. SThreeMade(none, none, <<>>, size, S, M)
    BY <1>2, <1>7, SThreeMakes
<1>9. /\ SThree!Keys(SThree!Resize(stack, max_size)) = SThree!Keys(stack)
      /\ SThreeShape(SThree!Resize(stack, max_size), S, M)
    BY <1>2, <1>3, <1>6, Zenon DEF SThreeMade
<1>10. SThree!Keys(SThree!Clear(stack)) = {} /\ SThreeShape(SThree!Clear(stack), S, M)
    BY <1>4, <1>5, <1>8 DEF SThreeMade
<1> QED
    BY <1>9, <1>10

\* A use counts for the object of the key, if the list holds it.
LEMMA SThreeUses ==
    ASSUME NEW S, NEW st, SizedList(st, Counted(S)), NEW k
    PROVE  SizedList(SThree!Used(st, k), Counted(S)) /\ KeysHeld(SThree!Used(st, k)) = KeysHeld(st)
<1>1. CASE k \in KeysHeld(st)
  <2> DEFINE i == Lists!PositionOf(st.list, k)
             o == SThree!IncrFreq(Lists!ObjectOf(st, k))
             changed == [list |-> [st.list EXCEPT ![i] = o],
                         used |-> st.used - st.list[i].size + o.size]
  <2>1. /\ st.list[i] \in Counted(S) /\ st.list[i].key = k /\ st.list[i] = Lists!ObjectOf(st, k)
        /\ st = [list |-> st.list, used |-> st.used]
    BY <1>1, PositionHolds DEF KeysHeld, SizedList, Lists!ObjectOf
  <2>2. o \in Counted(S) /\ o.key = k /\ o.size = st.list[i].size
    BY <2>1, CountedSound
  <2>3. SThree!Used(st, k) = [st EXCEPT !.list[i] = o]
    BY <1>1, SThreeOperators DEF SThree!Used
  <2> HIDE DEF o
  <2>4. SizedList(changed, Counted(S)) /\ KeysHeld(changed) = KeysHeld(st)
    BY <1>1, <2>2, SizedChange, CountedSound
  <2>5. st.used \in Nat /\ st.list[i].size \in Nat
    BY <2>1, CountedSound, SumIsNat DEF Sound, Sizeable, SizedList
  <2>6. [st EXCEPT !.list[i] = o] = changed
    <3> DEFINE u == st.used
               m == [st.list EXCEPT ![i] = o]
    <3>1. [st EXCEPT !.list[i] = o] = [list |-> m, used |-> u]
        BY <2>1
    <3> HIDE DEF m, i
    <3>2. changed = [list |-> m, used |-> u]
        BY <2>2, <2>5 DEF m
    <3> QED
        BY <3>1, <3>2
  <2> HIDE DEF changed
  <2> QED
    BY <2>3, <2>4, <2>6
<1>2. CASE k \notin KeysHeld(st)
  <2>1. SThree!Used(st, k) = st
    BY <1>2, SThreeOperators DEF SThree!Used
  <2> QED
    BY <2>1
<1> QED
    BY <1>1, <1>2

LEMMA SThreeUpdates ==
    ASSUME NEW S, NEW M \in SUBSET Nat, NEW stack, SThreeShape(stack, S, M), NEW k \in S
    PROVE  /\ SThreeShape(SThree!Update(stack, k), S, M)
           /\ SThree!Keys(SThree!Update(stack, k)) = SThree!Keys(stack)
<1>1. PICK small, main, ghost, size : SThreeParts(stack, small, main, ghost, size, S, M)
    BY SThreeApart
<1>2. /\ stack = SThree4(small, main, ghost, size) /\ SThreeLists(small, main, ghost, S)
      /\ size \in M /\ SThree!Keys(stack) = KeysHeld(small) \cup KeysHeld(main)
    BY <1>1 DEF SThreeParts
<1>3. stack.small = small /\ stack.main = main
    BY <1>2, SThreeFields
<1> DEFINE a == SThree!Used(small, k)
           b == SThree!Used(main, k)
<1>4. SThree!Update(stack, k) = WithMain(WithSmall(stack, a), b)
    BY <1>3 DEF SThree!Update, WithSmall, WithMain
<1>5. SizedList(a, Counted(S)) /\ KeysHeld(a) = KeysHeld(small)
    BY <1>2, SThreeUses DEF SThreeLists
<1>6. SizedList(b, Counted(S)) /\ KeysHeld(b) = KeysHeld(main)
    BY <1>2, SThreeUses DEF SThreeLists
<1> HIDE DEF a, b
<1>7. SThree!Update(stack, k) = SThree4(a, b, ghost, size)
    BY <1>2, <1>4, SThreeSets
<1>8. SThreeLists(a, b, ghost, S)
    BY <1>2, <1>5, <1>6 DEF SThreeLists
<1>9. SThreeMade(a, b, ghost, size, S, M)
    BY <1>2, <1>8, SThreeMakes
<1> QED
    BY <1>2, <1>5, <1>6, <1>7, <1>9, Zenon DEF SThreeMade

\* s3-fifo: each call does to the keys what it should.
LEMMA SThreeInserts ==
    ASSUME NEW S, NEW M \in SUBSET Nat, NEW stack, SThreeShape(stack, S, M), NEW k \in S, NEW s \in Nat
    PROVE  /\ SThreeShape(SThree!Insert(stack, k, s), S, M)
           /\ SThree!Keys(SThree!Insert(stack, k, s)) = SThree!Keys(stack) \cup {k}
<1>1. PICK small, main, ghost, size : SThreeParts(stack, small, main, ghost, size, S, M)
    BY SThreeApart
<1>2. /\ stack = SThree4(small, main, ghost, size) /\ SThreeLists(small, main, ghost, S)
      /\ size \in M /\ SThree!Keys(stack) = KeysHeld(small) \cup KeysHeld(main)
    BY <1>1 DEF SThreeParts
<1>3. stack.small = small /\ stack.main = main /\ stack.ghost = ghost
    BY <1>2, SThreeFields
<1>4. /\ SizedList(small, Counted(S)) /\ SizedList(main, Counted(S)) /\ Sound(Counted(S), S)
      /\ Resizable(Counted(S), s)
    BY <1>2, CountedSound DEF SThreeLists
<1> DEFINE o == SThree!NewObject(k, s)
<1>5. o \in Counted(S) /\ o.key = k
    BY CountedSound
<1>6. CASE k \in SThree!Keys(stack)
  <2> DEFINE a == Lists!Sized(small, k, s)
             b == Lists!Sized(main, k, s)
             t == WithMain(WithSmall(stack, a), b)
  <2>1. SThree!Insert(stack, k, s) = SThree!Update(t, k)
    <3>1. SThree!Resized(stack, k, s) = t
        BY <1>3, SThreeOperators DEF SThree!Resized, WithSmall, WithMain
    <3> QED
        BY <1>6, <3>1 DEF SThree!Insert
  <2>2. SizedList(a, Counted(S)) /\ KeysHeld(a) = KeysHeld(small)
    BY <1>4, SizedSized
  <2>3. SizedList(b, Counted(S)) /\ KeysHeld(b) = KeysHeld(main)
    BY <1>4, SizedSized
  <2> HIDE DEF a, b
  <2>4. t = SThree4(a, b, ghost, size)
    BY <1>2, SThreeSets
  <2>5. SThreeLists(a, b, ghost, S)
    BY <1>2, <2>2, <2>3 DEF SThreeLists
  <2>6. SThreeMade(a, b, ghost, size, S, M)
    BY <1>2, <2>5, SThreeMakes
  <2> HIDE DEF t
  <2>7. SThreeShape(t, S, M) /\ SThree!Keys(t) = SThree!Keys(stack)
    BY <1>2, <2>2, <2>3, <2>4, <2>6, Zenon DEF SThreeMade
  <2>8. SThreeShape(SThree!Update(t, k), S, M) /\ SThree!Keys(SThree!Update(t, k)) = SThree!Keys(t)
    BY <2>7, SThreeUpdates
  <2> QED
    BY <1>6, <2>1, <2>7, <2>8
<1> HIDE DEF o
<1>7. CASE k \notin SThree!Keys(stack) /\ k \in Lists!Elements(ghost)
  <2> DEFINE b == Lists!Push(main, o)
  <2>1. SThree!Insert(stack, k, s) = WithMain(stack, b)
    BY <1>3, <1>7, SThreeOperators DEF SThree!Insert, WithMain, o
  <2>2. SizedList(b, Counted(S)) /\ KeysHeld(b) = KeysHeld(main) \cup {k}
    BY <1>2, <1>4, <1>5, <1>7, SizedPush
  <2> HIDE DEF b
  <2>3. WithMain(stack, b) = SThree4(small, b, ghost, size)
    BY <1>2, SThreeSets
  <2>4. SThreeLists(small, b, ghost, S)
    BY <1>2, <1>7, <2>2 DEF SThreeLists
  <2>5. SThreeMade(small, b, ghost, size, S, M)
    BY <1>2, <2>4, SThreeMakes
  <2>6. KeysHeld(small) \cup KeysHeld(b) = SThree!Keys(stack) \cup {k}
    BY <1>2, <2>2
  <2> QED
    BY <2>1, <2>3, <2>5, <2>6, Zenon DEF SThreeMade
<1>8. CASE k \notin SThree!Keys(stack) /\ k \notin Lists!Elements(ghost)
  <2> DEFINE a == Lists!Push(small, o)
  <2>1. SThree!Insert(stack, k, s) = WithSmall(stack, a)
    BY <1>3, <1>8, SThreeOperators DEF SThree!Insert, WithSmall, o
  <2>2. SizedList(a, Counted(S)) /\ KeysHeld(a) = KeysHeld(small) \cup {k}
    BY <1>2, <1>4, <1>5, <1>8, SizedPush
  <2> HIDE DEF a
  <2>3. WithSmall(stack, a) = SThree4(a, main, ghost, size)
    BY <1>2, SThreeSets
  <2>4. SThreeLists(a, main, ghost, S)
    BY <1>2, <1>8, <2>2 DEF SThreeLists
  <2>5. SThreeMade(a, main, ghost, size, S, M)
    BY <1>2, <2>4, SThreeMakes
  <2>6. KeysHeld(a) \cup KeysHeld(main) = SThree!Keys(stack) \cup {k}
    BY <1>2, <2>2
  <2> QED
    BY <2>1, <2>3, <2>5, <2>6, Zenon DEF SThreeMade
<1> QED
    BY <1>6, <1>7, <1>8

LEMMA SThreeRemoves ==
    ASSUME NEW S, NEW M \in SUBSET Nat, NEW stack, SThreeShape(stack, S, M), NEW k \in S
    PROVE  /\ SThreeShape(SThree!Remove(stack, k), S, M)
           /\ SThree!Keys(SThree!Remove(stack, k)) = SThree!Keys(stack) \ {k}
<1>1. PICK small, main, ghost, size : SThreeParts(stack, small, main, ghost, size, S, M)
    BY SThreeApart
<1>2. /\ stack = SThree4(small, main, ghost, size) /\ SThreeLists(small, main, ghost, S)
      /\ size \in M /\ SThree!Keys(stack) = KeysHeld(small) \cup KeysHeld(main)
    BY <1>1 DEF SThreeParts
<1>3. stack.small = small /\ stack.main = main /\ stack.ghost = ghost
    BY <1>2, SThreeFields
<1>4. SizedList(small, Counted(S)) /\ SizedList(main, Counted(S)) /\ Sound(Counted(S), S)
    BY <1>2, CountedSound DEF SThreeLists
<1> DEFINE a == Lists!Without(small, k)
           b == Lists!Without(main, k)
           g == Lists!Omit(ghost, k)
<1>5. SThree!Remove(stack, k) = WithGhost(WithMain(WithSmall(stack, a), b), g)
    BY <1>3, SThreeOperators DEF SThree!Remove, WithSmall, WithMain, WithGhost
<1>6. SizedList(a, Counted(S)) /\ KeysHeld(a) = KeysHeld(small) \ {k}
    BY <1>4, SizedWithout
<1>7. SizedList(b, Counted(S)) /\ KeysHeld(b) = KeysHeld(main) \ {k}
    BY <1>4, SizedWithout
<1>8. KeyList(g, S) /\ Lists!Elements(g) \subseteq Lists!Elements(ghost)
    BY <1>2, OmitHolds DEF SThreeLists, KeyList
<1> HIDE DEF a, b, g
<1>9. SThree!Remove(stack, k) = SThree4(a, b, g, size)
    BY <1>2, <1>5, SThreeSets
<1>10. SThreeLists(a, b, g, S)
    BY <1>2, <1>6, <1>7, <1>8 DEF SThreeLists
<1>11. SThreeMade(a, b, g, size, S, M)
    BY <1>2, <1>10, SThreeMakes
<1>12. KeysHeld(a) \cup KeysHeld(b) = SThree!Keys(stack) \ {k}
    BY <1>2, <1>6, <1>7
<1> QED
    BY <1>9, <1>11, <1>12, Zenon DEF SThreeMade

\* The sum of the sizes depends on the sizes alone.
LEMMA SameSizes ==
    ASSUME NEW O, Sizeable(O), NEW l \in Seq(O), NEW m \in Seq(O), Len(m) = Len(l),
           \A i \in 1 .. Len(l) : m[i].size = l[i].size
    PROVE  Lists!SumOfSizes(m) = Lists!SumOfSizes(l)
<1> DEFINE n == Len(l)
<1>1. PICK f : Sums(f, l, n) /\ Lists!SumOfSizes(l) = f[n]
    BY SumOfSizesIs
<1>2. PICK g : Sums(g, m, Len(m)) /\ Lists!SumOfSizes(m) = g[Len(m)]
    BY SumOfSizesIs
<1>3. n \in Nat /\ Len(m) = n /\ \A i \in 1 .. n : m[i].size = l[i].size
    OBVIOUS
<1> HIDE DEF n
<1>4. Sums(g, m, n) /\ Lists!SumOfSizes(m) = g[n]
    BY <1>2, <1>3
<1>5. /\ \A i \in 0 .. n : f[i] = IF i = 0 THEN 0 ELSE f[i - 1] + l[i].size
      /\ \A i \in 0 .. n : g[i] = IF i = 0 THEN 0 ELSE g[i - 1] + m[i].size
    BY <1>1, <1>4, SumsAt
<1> DEFINE T == {k \in Nat : k \in 0 .. n => f[k] = g[k]}
<1>6. 0 \in T
    BY <1>3, <1>5
<1>7. ASSUME NEW k \in Nat, k \in T PROVE k + 1 \in T
  <2> SUFFICES ASSUME k + 1 \in 0 .. n PROVE f[k + 1] = g[k + 1]
    OBVIOUS
  <2>1. k + 1 \in 1 .. n /\ (k + 1) - 1 = k /\ k \in 0 .. n /\ k + 1 # 0
    BY <1>3
  <2>2. f[k + 1] = f[k] + l[k + 1].size /\ g[k + 1] = g[k] + m[k + 1].size
    BY <1>5, <2>1
  <2> QED
    BY <1>3, <1>7, <2>1, <2>2
<1>8. Nat \subseteq T
    BY <1>6, <1>7, Lemmas!SetInduction
<1> QED
    BY <1>1, <1>3, <1>4, <1>8

\* Taking uses off changes neither keys nor sizes.
LEMMA LessUsedHolds ==
    ASSUME NEW S, NEW l \in Seq(Counted(S)), NEW n \in Nat, \A i \in 1 .. Len(l) : l[i].freq >= n
    PROVE  /\ SThree!LessUsed(l, n) \in Seq(Counted(S))
           /\ Lists!KeysOf(SThree!LessUsed(l, n)) = Lists!KeysOf(l)
           /\ Apart(SThree!LessUsed(l, n)) <=> Apart(l)
           /\ Lists!SumOfSizes(SThree!LessUsed(l, n)) = Lists!SumOfSizes(l)
<1> DEFINE m == SThree!LessUsed(l, n)
           z == Len(l)
<1>1. DOMAIN l = 1 .. z /\ z \in Nat /\ \A i \in 1 .. z : l[i] \in Counted(S) /\ l[i].freq >= n
    OBVIOUS
<1>2. ASSUME NEW o \in Counted(S), o.freq >= n
      PROVE  /\ [o EXCEPT !.freq = @ - n] \in Counted(S)
             /\ [o EXCEPT !.freq = @ - n].key = o.key /\ [o EXCEPT !.freq = @ - n].size = o.size
  <2> DEFINE f == o.freq - n
  <2>1. f \in 0 .. 3 /\ [o EXCEPT !.freq = @ - n] = [o EXCEPT !.freq = f]
    BY <1>2 DEF Counted
  <2> HIDE DEF f
  <2> QED
    BY <2>1 DEF Counted
<1>3. m = [i \in 1 .. z |-> [l[i] EXCEPT !.freq = @ - n]]
    BY <1>1 DEF SThree!LessUsed
<1> HIDE DEF m, z
<1>4. \A i \in 1 .. z : m[i] = [l[i] EXCEPT !.freq = @ - n]
    BY <1>3
<1>5. \A i \in 1 .. z : m[i] \in Counted(S) /\ m[i].key = l[i].key /\ m[i].size = l[i].size
    BY <1>1, <1>2, <1>4, Zenon
<1>6. m = [i \in 1 .. z |-> m[i]]
    BY <1>3
<1>7. m \in Seq(Counted(S))
    BY <1>1, <1>5, <1>6, Lemmas!FunctionIsSeq
<1>8. Len(m) = z
    BY <1>1, <1>6, <1>7, LenProperties
<1>9. Lists!KeysOf(m) = Lists!KeysOf(l) /\ (Apart(m) <=> Apart(l))
    BY <1>5, <1>7, <1>8, SameKeys DEF z
<1>10. Lists!SumOfSizes(m) = Lists!SumOfSizes(l)
    BY <1>5, <1>7, <1>8, SameSizes, CountedSound DEF z, Sound
<1> QED
    BY <1>7, <1>9, <1>10 DEF m

\* The object evict_main ends at: none has fewer uses, and those behind it have more.
LEMMA RearmostHolds ==
    ASSUME NEW S, NEW l \in Seq(Counted(S)), l # <<>>
    PROVE  /\ SThree!FewestUses(l) \in Nat /\ SThree!Rearmost(l) \in 1 .. Len(l)
           /\ \A j \in 1 .. Len(l) : /\ l[j].freq >= SThree!FewestUses(l)
                                     /\ j > SThree!Rearmost(l) => l[j].freq >= SThree!FewestUses(l) + 1
<1> DEFINE n == Len(l)
           T == {l[i].freq : i \in 1 .. n}
<1>1. DOMAIN l = 1 .. n /\ n \in Nat /\ 1 \in 1 .. n /\ \A i \in 1 .. n : l[i].freq \in 0 .. 3
  <2>1. DOMAIN l = 1 .. n /\ n \in Nat /\ \A i \in 1 .. n : l[i] \in Counted(S)
    OBVIOUS
  <2>2. n # 0
    BY EmptySeq
  <2>3. \A o \in Counted(S) : o.freq \in 0 .. 3
    BY DEF Counted
  <2> HIDE DEF n
  <2>4. 1 \in 1 .. n
    BY <2>1, <2>2
  <2> QED
    BY <2>1, <2>3, <2>4
<1> HIDE DEF n
<1>2. T \in SUBSET Nat /\ T # {}
    BY <1>1
<1>3. PICK f \in T : \A g \in T : f <= g
    BY <1>2, Lemmas!LeastElement
<1>4. f \in 0 .. 3 /\ (\E i \in 1 .. n : l[i].freq = f) /\ \A i \in 1 .. n : l[i].freq >= f
    BY <1>1, <1>3
<1> DEFINE few == SThree!FewestUses(l)
<1>5. few \in 0 .. 3 /\ (\E i \in 1 .. n : l[i].freq = few) /\ \A i \in 1 .. n : l[i].freq >= few
    BY <1>1, <1>4 DEF SThree!FewestUses, SThree!MaxFreq
<1> HIDE DEF few, T
<1> DEFINE U == {i \in 1 .. n : l[i].freq = few}
<1>6. U \in SUBSET (1 .. n) /\ U # {}
    BY <1>5
<1>7. PICK p \in U : \A j \in U : j <= p
    BY <1>1, <1>6, LargestPosition
<1>8. p \in 1 .. n /\ l[p].freq = few /\ \A j \in p + 1 .. n : l[j].freq # few
    BY <1>1, <1>7
<1> DEFINE rear == SThree!Rearmost(l)
<1>9. rear \in 1 .. n /\ l[rear].freq = few /\ \A j \in rear + 1 .. n : l[j].freq # few
    BY <1>1, <1>8, Zenon DEF SThree!Rearmost, few, n
<1> HIDE DEF rear
<1>10. \A j \in 1 .. n : j > rear => l[j].freq >= few + 1
    BY <1>1, <1>5, <1>9
<1> QED
    BY <1>5, <1>9, <1>10 DEF few, rear, n

\* What evict_main leaves of main: the objects in front of the one it gives up, behind
\* those behind it.
SThreeLeft(list) ==
    SThree!LessUsed(SubSeq(list, SThree!Rearmost(list) + 1, Len(list)), SThree!FewestUses(list) + 1)
      \o SThree!LessUsed(SubSeq(list, 1, SThree!Rearmost(list) - 1), SThree!FewestUses(list))

LEMMA SThreeLeftHolds ==
    ASSUME NEW S, NEW main, SizedList(main, Counted(S)), main.list # <<>>
    PROVE  LET i == SThree!Rearmost(main.list)
               m == [list |-> SThreeLeft(main.list), used |-> main.used - main.list[i].size]
           IN  /\ SizedList(m, Counted(S)) /\ main.list[i].key \in KeysHeld(main)
               /\ KeysHeld(m) = KeysHeld(main) \ {main.list[i].key}
<1> DEFINE list   == main.list
           i      == SThree!Rearmost(list)
           r      == SThree!FewestUses(list)
           before == SubSeq(list, 1, i - 1)
           behind == SubSeq(list, i + 1, Len(list))
           a      == SThree!LessUsed(behind, r + 1)
           b      == SThree!LessUsed(before, r)
           k      == list[i].key
           O      == Counted(S)
<1>1. list \in Seq(O) /\ Apart(list) /\ main.used = Lists!SumOfSizes(list) /\ Len(list) \in Nat
    BY DEF SizedList
<1>2. Keyed(O, S) /\ Sizeable(O)
    BY CountedSound DEF Sound
<1>3. /\ r \in Nat /\ i \in 1 .. Len(list)
      /\ \A j \in 1 .. Len(list) : /\ list[j].freq >= r
                                   /\ j > i => list[j].freq >= r + 1
    BY <1>1, RearmostHolds
<1> HIDE DEF i, r, list, O
<1>4. /\ before \in Seq(O) /\ behind \in Seq(O) /\ list[i] \in O
      /\ Lists!KeysOf(list) = Lists!KeysOf(before) \cup {k} \cup Lists!KeysOf(behind)
      /\ Apart(before) /\ Apart(behind) /\ Lists!KeysOf(before) \cap Lists!KeysOf(behind) = {}
      /\ k \notin Lists!KeysOf(before) \cup Lists!KeysOf(behind)
    BY <1>1, <1>2, <1>3, ObjectsSplit
<1>5. /\ Len(before) = i - 1 /\ \A j \in 1 .. i - 1 : before[j] = list[j]
      /\ Len(behind) = Len(list) - i /\ \A j \in 1 .. Len(list) - i : behind[j] = list[i + j]
    BY <1>1, <1>3, SubSeqProperties
<1>6. \A j \in 1 .. Len(before) : before[j].freq >= r
    BY <1>1, <1>3, <1>5
<1>7. \A j \in 1 .. Len(behind) : behind[j].freq >= r + 1
  <2> SUFFICES ASSUME NEW j \in 1 .. Len(behind) PROVE behind[j].freq >= r + 1
    OBVIOUS
  <2>1. i + j \in 1 .. Len(list) /\ i + j > i /\ j \in 1 .. Len(list) - i
    BY <1>1, <1>3, <1>5
  <2>2. list[i + j].freq >= r + 1 /\ behind[j] = list[i + j]
    BY <1>3, <1>5, <2>1
  <2> QED
    BY <2>2
<1>8. r + 1 \in Nat
    BY <1>3
<1> HIDE DEF before, behind
<1>9. /\ a \in Seq(O) /\ Lists!KeysOf(a) = Lists!KeysOf(behind) /\ (Apart(a) <=> Apart(behind))
      /\ Lists!SumOfSizes(a) = Lists!SumOfSizes(behind)
    BY <1>4, <1>7, <1>8, LessUsedHolds DEF O
<1>10. /\ b \in Seq(O) /\ Lists!KeysOf(b) = Lists!KeysOf(before) /\ (Apart(b) <=> Apart(before))
       /\ Lists!SumOfSizes(b) = Lists!SumOfSizes(before)
    BY <1>3, <1>4, <1>6, LessUsedHolds DEF O
<1>11. SThreeLeft(list) = a \o b
    BY DEF SThreeLeft, i, r, before, behind
<1>12. Lists!SumOfSizes(list) - list[i].size = Lists!SumOfSizes(before) + Lists!SumOfSizes(behind)
  <2>1. Lists!WithoutAt(list, i) = before \o behind
    BY DEF Lists!WithoutAt, before, behind
  <2>2. Lists!SumOfSizes(before \o behind) = Lists!SumOfSizes(before) + Lists!SumOfSizes(behind)
    BY <1>2, <1>4, SumConcat
  <2>3. /\ Lists!SumOfSizes(Lists!WithoutAt(list, i)) \in Nat /\ list[i].size \in Nat
        /\ Lists!SumOfSizes(list) = Lists!SumOfSizes(Lists!WithoutAt(list, i)) + list[i].size
    BY <1>1, <1>2, <1>3, SumWithoutAt
  <2> QED
    BY <2>1, <2>2, <2>3
<1> HIDE DEF a, b
<1> DEFINE left == a \o b
           m == [list |-> left, used |-> main.used - list[i].size]
<1>13. /\ left \in Seq(O) /\ Lists!KeysOf(left) = Lists!KeysOf(a) \cup Lists!KeysOf(b)
       /\ Apart(left) <=> Apart(a) /\ Apart(b) /\ Lists!KeysOf(a) \cap Lists!KeysOf(b) = {}
    BY <1>2, <1>9, <1>10, ObjectsConcat
<1>14. Lists!SumOfSizes(left) = Lists!SumOfSizes(a) + Lists!SumOfSizes(b)
    BY <1>2, <1>9, <1>10, SumConcat
<1>15. /\ Lists!SumOfSizes(before) \in Nat /\ Lists!SumOfSizes(behind) \in Nat
    BY <1>2, <1>4, SumIsNat
<1> HIDE DEF left
<1>16. m.list = left /\ m.used = main.used - list[i].size /\ m = [list |-> m.list, used |-> m.used]
    OBVIOUS
<1>17. m.used = Lists!SumOfSizes(left)
    BY <1>1, <1>9, <1>10, <1>12, <1>14, <1>15, <1>16
<1>18. Apart(left)
    BY <1>4, <1>9, <1>10, <1>13
<1> HIDE DEF m
<1>19. SizedList(m, O)
    BY <1>13, <1>16, <1>17, <1>18, Zenon DEF SizedList
<1>20. KeysHeld(m) = Lists!KeysOf(before) \cup Lists!KeysOf(behind)
    BY <1>9, <1>10, <1>13, <1>16 DEF KeysHeld
<1>21. k \in KeysHeld(main) /\ KeysHeld(m) = KeysHeld(main) \ {k}
    BY <1>4, <1>20 DEF KeysHeld, list
<1> QED
    BY <1>11, <1>19, <1>21 DEF m, left, list, i, O

\* evict_main leaves a stack, without the key it gives up; it gives up none if main is
\* empty.
LEMMA SThreeMains ==
    ASSUME NEW S, NEW M \in SUBSET Nat, NEW stack, NEW small, NEW main, NEW ghost, NEW size,
           SThreeParts(stack, small, main, ghost, size, S, M)
    PROVE  /\ SThreeShape(SThree!EvictMain(stack).stack, S, M)
           /\ KeysHeld(main) = {} => /\ SThree!EvictMain(stack).key = NoKey
                                     /\ SThree!EvictMain(stack).stack = stack
           /\ KeysHeld(main) # {} =>
                  /\ SThree!EvictMain(stack).key \in KeysHeld(main)
                  /\ SThree!Keys(SThree!EvictMain(stack).stack)
                       = SThree!Keys(stack) \ {SThree!EvictMain(stack).key}
<1>1. /\ stack = SThree4(small, main, ghost, size) /\ SThreeLists(small, main, ghost, S)
      /\ size \in M /\ SThree!Keys(stack) = KeysHeld(small) \cup KeysHeld(main)
    BY DEF SThreeParts
<1>2. stack.small = small /\ stack.main = main /\ stack.ghost = ghost
    BY <1>1, SThreeFields
<1>3. main.list = <<>> <=> KeysHeld(main) = {}
    BY <1>1, EmptyHeld DEF SThreeLists
<1>4. SThreeShape(stack, S, M)
    BY <1>1, SThreeMakes DEF SThreeMade
<1>5. CASE main.list = <<>>
  <2>1. SThree!EvictMain(stack).key = NoKey /\ SThree!EvictMain(stack).stack = stack
    BY <1>2, <1>5 DEF SThree!EvictMain, SThree!Evicting
  <2> QED
    BY <1>3, <1>4, <1>5, <2>1
<1>6. CASE main.list # <<>>
  <2> DEFINE i    == SThree!Rearmost(main.list)
             k    == main.list[i].key
             left == SThreeLeft(main.list)
             m    == [list |-> left, used |-> main.used - main.list[i].size]
             keep == IF Len(ghost) < Len(left) THEN Len(ghost) ELSE Len(left)
             g    == SubSeq(ghost, 1, keep)
  <2>1. SizedList(m, Counted(S)) /\ k \in KeysHeld(main) /\ KeysHeld(m) = KeysHeld(main) \ {k}
    BY <1>1, <1>6, SThreeLeftHolds DEF SThreeLists
  <2>2. /\ SThree!EvictMain(stack).key = k
        /\ SThree!EvictMain(stack).stack = WithGhost(WithMain(stack, m), g)
    BY <1>2, <1>6 DEF SThree!EvictMain, SThree!Evicting, SThreeLeft, WithGhost, WithMain
  <2>3. left \in Seq(Counted(S)) /\ KeyList(ghost, S)
    BY <1>1, <2>1 DEF SizedList, SThreeLists
  <2> HIDE DEF left, m, k
  <2>4. keep \in 0 .. Len(ghost)
    BY <2>3 DEF KeyList
  <2> HIDE DEF keep
  <2> DEFINE h == SubSeq(ghost, keep + 1, Len(ghost))
  <2>5. g \in Seq(S) /\ h \in Seq(S) /\ ghost = g \o h
    BY <2>3, <2>4, SplitAfter DEF KeyList
  <2> HIDE DEF g, h
  <2>6. KeyList(g, S) /\ Lists!Elements(g) \subseteq Lists!Elements(ghost)
    BY <2>3, <2>5, ConcatHolds DEF KeyList
  <2>7. WithGhost(WithMain(stack, m), g) = SThree4(small, m, g, size)
    BY <1>1, SThreeSets
  <2>8. SThreeLists(small, m, g, S)
    BY <1>1, <2>1, <2>6 DEF SThreeLists
  <2>9. SThreeMade(small, m, g, size, S, M)
    BY <1>1, <2>8, SThreeMakes
  <2>10. KeysHeld(small) \cup KeysHeld(m) = SThree!Keys(stack) \ {k} /\ KeysHeld(main) # {}
    BY <1>1, <2>1 DEF SThreeLists
  <2>11. /\ SThreeShape(SThree!EvictMain(stack).stack, S, M)
         /\ SThree!Keys(SThree!EvictMain(stack).stack) = SThree!Keys(stack) \ {k}
    BY <2>2, <2>7, <2>9, <2>10, Zenon DEF SThreeMade
  <2> QED
    BY <2>1, <2>2, <2>10, <2>11
<1> QED
    BY <1>5, <1>6

\* The loop of evict_small ends.
LEMMA PromotedHolds ==
    ASSUME NEW stack, Len(stack.small.list) \in Nat
    PROVE  SThree!Promoted(stack) \in 0 .. Len(stack.small.list)
<1> DEFINE list    == stack.small.list
           stop(n) == SThree!StopsAfter(stack, n)
           T       == {n \in 0 .. Len(list) : stop(n)}
<1>1. SThree!Promoted(stack)
        = CHOOSE n \in 0 .. Len(list) : stop(n) /\ \A m \in 0 .. n - 1 : ~stop(m)
    BY DEF SThree!Promoted
<1>2. stop(Len(list))
    BY DEF SThree!StopsAfter
<1>3. Len(list) \in Nat
    OBVIOUS
<1> HIDE DEF stop, list
<1>4. Len(list) \in T /\ T \in SUBSET (0 .. Len(list)) /\ T # {}
    BY <1>2, <1>3
<1>5. PICK m \in T : \A k \in T : m <= k
  <2> HIDE DEF T
  <2> QED
    BY <1>3, <1>4, LeastWithin
<1>6. m \in 0 .. Len(list) /\ stop(m)
    OBVIOUS
<1>7. \A j \in 0 .. m - 1 : ~stop(j)
  <2> SUFFICES ASSUME NEW j \in 0 .. m - 1, stop(j) PROVE FALSE
    OBVIOUS
  <2>1. j \in 0 .. Len(list) /\ ~(m <= j)
    BY <1>3, <1>6
  <2>2. j \in T
    BY <2>1
  <2> QED
    BY <1>5, <2>1, <2>2
<1>8. \E n \in 0 .. Len(list) : stop(n) /\ \A j \in 0 .. n - 1 : ~stop(j)
    BY <1>6, <1>7, Zenon
<1>9. SThree!Promoted(stack) \in 0 .. Len(list)
    BY <1>1, <1>8
<1> QED
    BY <1>9 DEF list

\* evict_small up to where its loop ends: what left small came to main.
SThreeAfter(stack) ==
    WithMain(WithSmall(stack,
        [list |-> SubSeq(stack.small.list, 1, Len(stack.small.list) - SThree!Promoted(stack)),
         used |-> stack.small.used
                    - Lists!SumOfSizes(SThree!LastOfSmall(stack, SThree!Promoted(stack)))]),
        [list |-> SThree!LastOfSmall(stack, SThree!Promoted(stack)) \o stack.main.list,
         used |-> stack.main.used
                    + Lists!SumOfSizes(SThree!LastOfSmall(stack, SThree!Promoted(stack)))])

LEMMA SThreePromotes ==
    ASSUME NEW S, NEW M \in SUBSET Nat, NEW stack, SThreeShape(stack, S, M)
    PROVE  \E small, main, ghost, size :
               /\ SThreeParts(SThreeAfter(stack), small, main, ghost, size, S, M)
               /\ size = stack.main_size /\ SThree!Keys(SThreeAfter(stack)) = SThree!Keys(stack)
<1>1. PICK small, main, ghost, size : SThreeParts(stack, small, main, ghost, size, S, M)
    BY SThreeApart
<1>2. /\ stack = SThree4(small, main, ghost, size) /\ SThreeLists(small, main, ghost, S)
      /\ size \in M /\ SThree!Keys(stack) = KeysHeld(small) \cup KeysHeld(main)
    BY <1>1 DEF SThreeParts
<1>3. stack.small = small /\ stack.main = main /\ stack.main_size = size
    BY <1>2, SThreeFields
<1>4. /\ SizedList(small, Counted(S)) /\ SizedList(main, Counted(S)) /\ Sound(Counted(S), S)
      /\ KeysHeld(small) \cap KeysHeld(main) = {}
    BY <1>2, CountedSound DEF SThreeLists
<1>5. small.list \in Seq(Counted(S)) /\ Len(small.list) \in Nat
    BY <1>4 DEF SizedList
<1> DEFINE n     == SThree!Promoted(stack)
           c     == Len(small.list) - n
           kept  == SubSeq(small.list, 1, c)
           moved == SubSeq(small.list, c + 1, Len(small.list))
           a     == [list |-> kept, used |-> small.used - Lists!SumOfSizes(moved)]
           b     == [list |-> moved \o main.list, used |-> main.used + Lists!SumOfSizes(moved)]
<1>6. SThreeAfter(stack) = WithMain(WithSmall(stack, a), b)
    BY <1>3 DEF SThreeAfter, SThree!LastOfSmall
<1>7. n \in 0 .. Len(small.list)
    BY <1>3, <1>5, PromotedHolds
<1> HIDE DEF n
<1>8. c \in 0 .. Len(small.list)
    BY <1>5, <1>7
<1> HIDE DEF c
<1>9. /\ kept \in Seq(Counted(S)) /\ moved \in Seq(Counted(S))
      /\ Apart(kept) /\ Apart(moved)
      /\ Lists!KeysOf(kept) \cap Lists!KeysOf(moved) = {}
      /\ KeysHeld(small) = Lists!KeysOf(kept) \cup Lists!KeysOf(moved)
      /\ Lists!SumOfSizes(kept) = small.used - Lists!SumOfSizes(moved)
    BY <1>4, <1>8, SizedSplit
<1> HIDE DEF kept, moved
<1>10. SizedList(a, Counted(S)) /\ KeysHeld(a) = Lists!KeysOf(kept)
    BY <1>9 DEF SizedList, KeysHeld
<1>11. SizedList(b, Counted(S)) /\ KeysHeld(b) = Lists!KeysOf(moved) \cup KeysHeld(main)
  <2>1. Lists!KeysOf(moved) \cap KeysHeld(main) = {}
    BY <1>4, <1>9
  <2> QED
    BY <1>4, <1>9, <2>1, SizedJoin
<1> HIDE DEF a, b
<1>12. SThreeAfter(stack) = SThree4(a, b, ghost, size)
    BY <1>2, <1>6, SThreeSets
<1>13. SThreeLists(a, b, ghost, S)
    BY <1>2, <1>4, <1>9, <1>10, <1>11 DEF SThreeLists
<1>14. SThreeMade(a, b, ghost, size, S, M)
    BY <1>2, <1>13, SThreeMakes
<1>15. KeysHeld(a) \cup KeysHeld(b) = SThree!Keys(stack)
    BY <1>2, <1>9, <1>10, <1>11
<1>16. SThree!Keys(SThree4(a, b, ghost, size)) = KeysHeld(a) \cup KeysHeld(b)
    BY <1>14 DEF SThreeMade
<1>17. SThreeParts(SThreeAfter(stack), a, b, ghost, size, S, M)
    BY <1>2, <1>12, <1>13, <1>16 DEF SThreeParts
<1> QED
    BY <1>3, <1>12, <1>15, <1>16, <1>17

LEMMA SThreeEvicts ==
    ASSUME NEW S, NEW M \in SUBSET Nat, NEW stack, SThreeShape(stack, S, M)
    PROVE  /\ SThreeShape(SThree!EvictOne(stack).stack, S, M)
           /\ \/ GivesUp(SThree!EvictOne(stack), SThree!Keys(stack),
                         SThree!Keys(SThree!EvictOne(stack).stack))
              \/ /\ stack.main_size = 0 /\ SThree!EvictOne(stack).key = NoKey
                 /\ SThree!Keys(SThree!EvictOne(stack).stack) = SThree!Keys(stack)
<1> DEFINE after == SThreeAfter(stack)
<1>1. PICK small, main, ghost, size :
          /\ SThreeParts(after, small, main, ghost, size, S, M)
          /\ size = stack.main_size /\ SThree!Keys(after) = SThree!Keys(stack)
    BY SThreePromotes
<1>2. SThree!EvictOne(stack)
        = IF SThree!IsFull(after, after.main.used) \/ after.small.list = <<>>
          THEN SThree!EvictMain(after)
          ELSE SThree!Evicting(SThree!Popped(after.small).key,
                   [after EXCEPT !.small = SThree!Rest(@),
                                 !.ghost = SThree!PushFront(@, SThree!Popped(after.small).key)])
  <2> DEFINE n     == SThree!Promoted(stack)
             moved == SThree!LastOfSmall(stack, n)
             made  == [stack EXCEPT
                          !.small = [list |-> SubSeq(@.list, 1, Len(@.list) - n),
                                     used |-> @.used - SThree!SumOfSizes(moved)],
                          !.main = [list |-> moved \o @.list,
                                    used |-> @.used + SThree!SumOfSizes(moved)]]
  <2>1. SThree!SumOfSizes(moved) = Lists!SumOfSizes(moved)
    BY SThreeOperators
  <2>2. made = after
    BY <2>1 DEF SThreeAfter, WithSmall, WithMain
  <2>3. SThree!EvictOne(stack)
          = IF SThree!IsFull(made, made.main.used) \/ made.small.list = <<>>
            THEN SThree!EvictMain(made)
            ELSE SThree!Evicting(SThree!Popped(made.small).key,
                     [made EXCEPT !.small = SThree!Rest(@),
                                  !.ghost = SThree!PushFront(@, SThree!Popped(made.small).key)])
    BY DEF SThree!EvictOne
  <2> HIDE DEF made, after
  <2> QED
    BY <2>2, <2>3
<1> HIDE DEF after
<1>3. /\ after = SThree4(small, main, ghost, size) /\ SThreeLists(small, main, ghost, S)
      /\ size \in M /\ SThree!Keys(after) = KeysHeld(small) \cup KeysHeld(main)
    BY <1>1 DEF SThreeParts
<1>4. /\ after.small = small /\ after.main = main /\ after.ghost = ghost
      /\ after.main_size = size
    BY <1>3, SThreeFields
<1>5. /\ SizedList(small, Counted(S)) /\ SizedList(main, Counted(S)) /\ Sound(Counted(S), S)
      /\ small.list = <<>> <=> KeysHeld(small) = {}
      /\ main.list = <<>> <=> KeysHeld(main) = {}
    BY <1>3, CountedSound, EmptyHeld DEF SThreeLists
<1>6. CASE SThree!IsFull(after, main.used) \/ small.list = <<>>
  <2> DEFINE e == SThree!EvictMain(after)
  <2>1. SThree!EvictOne(stack) = e
    BY <1>2, <1>4, <1>6
  <2>2. /\ SThreeShape(e.stack, S, M)
        /\ KeysHeld(main) = {} => e.key = NoKey /\ e.stack = after
        /\ KeysHeld(main) # {} => /\ e.key \in KeysHeld(main)
                                  /\ SThree!Keys(e.stack) = SThree!Keys(after) \ {e.key}
    BY <1>1, SThreeMains
  <2> HIDE DEF e
  <2>3. CASE KeysHeld(main) # {}
    <3>1. /\ e.key \in SThree!Keys(stack) /\ SThree!Keys(e.stack) = SThree!Keys(stack) \ {e.key}
        BY <1>1, <1>3, <2>2, <2>3
    <3> QED
        BY <2>1, <2>2, <3>1 DEF GivesUp
  <2>4. CASE KeysHeld(main) = {} /\ KeysHeld(small) = {}
    <3>1. /\ SThree!Keys(stack) = {} /\ SThree!Keys(e.stack) = {} /\ e.key = NoKey
        BY <1>1, <1>3, <2>2, <2>4
    <3> QED
        BY <2>1, <2>2, <3>1 DEF GivesUp
  <2>5. CASE KeysHeld(main) = {} /\ KeysHeld(small) # {}
    <3>1. main.used >= size
        BY <1>4, <1>5, <1>6, <2>5 DEF SThree!IsFull
    <3>2. main.used = 0
        BY <1>5, <2>5, SumEmpty DEF SizedList
    <3>3. size = 0
        BY <1>3, <3>1, <3>2
    <3> QED
        BY <1>1, <2>1, <2>2, <2>5, <3>3
  <2> QED
    BY <2>3, <2>4, <2>5
<1>7. CASE ~(SThree!IsFull(after, main.used) \/ small.list = <<>>)
  <2> DEFINE r == Lists!Rest(small)
             k == Lists!Popped(small).key
             g == Lists!PushFront(ghost, k)
  <2> DEFINE j  == SThree!Popped(after.small).key
             to == [after EXCEPT !.small = SThree!Rest(@), !.ghost = SThree!PushFront(@, j)]
  <2>a. SThree!EvictOne(stack) = SThree!Evicting(j, to)
    BY <1>2, <1>4, <1>7
  <2>b. to = WithGhost(WithSmall(after, SThree!Rest(after.small)), SThree!PushFront(after.ghost, j))
    BY DEF WithSmall, WithGhost
  <2>c. j = k /\ SThree!Rest(after.small) = r /\ SThree!PushFront(after.ghost, j) = g
    BY <1>4, SThreeOperators
  <2> HIDE DEF j, to, k, r, g
  <2>1. /\ SThree!EvictOne(stack).key = k
        /\ SThree!EvictOne(stack).stack = WithGhost(WithSmall(after, r), g)
    BY <2>a, <2>b, <2>c DEF SThree!Evicting
  <2> USE DEF k, r, g
  <2>2. /\ SizedList(r, Counted(S)) /\ Lists!Popped(small) \in Counted(S) /\ k \in KeysHeld(small)
        /\ KeysHeld(r) = KeysHeld(small) \ {k}
    BY <1>5, <1>7, SizedRest
  <2>3. k \in S
    BY <2>2 DEF Counted
  <2>4. KeyList(g, S) /\ Lists!Elements(g) = Lists!Elements(ghost) \cup {k}
    BY <1>3, <2>3, PushFrontHolds DEF SThreeLists, KeyList
  <2> HIDE DEF r, k, g
  <2>5. WithGhost(WithSmall(after, r), g) = SThree4(r, main, g, size)
    BY <1>3, SThreeSets
  <2>6. SThreeLists(r, main, g, S)
    BY <1>3, <2>2, <2>4 DEF SThreeLists
  <2>7. SThreeMade(r, main, g, size, S, M)
    BY <1>3, <2>6, SThreeMakes
  <2>8. KeysHeld(r) \cup KeysHeld(main) = SThree!Keys(stack) \ {k} /\ k \in SThree!Keys(stack)
    BY <1>1, <1>3, <2>2 DEF SThreeLists
  <2> QED
    BY <2>1, <2>5, <2>7, <2>8, Zenon DEF SThreeMade, GivesUp
<1> QED
    BY <1>6, <1>7

-----------------------------------------------------------------------------
(***************************************************************************)
(* lfu                                                                     *)
(***************************************************************************)

LEMMA LfuLists ==
    /\ \A l : Lfu!Elements(l) = Lists!Elements(l) /\ Lfu!Back(l) = Lists!Back(l)
    /\ \A l, k : /\ Lfu!Has(l, k) <=> k \in Lists!Elements(l)
                 /\ Lfu!Omit(l, k) = Lists!Omit(l, k)
                 /\ Lfu!PushFront(l, k) = Lists!PushFront(l, k)
<1>1. \A l : Lfu!Elements(l) = Lists!Elements(l) /\ Lfu!Back(l) = Lists!Back(l)
    BY DEF Lfu!Elements, Lists!Elements, Lfu!Back, Lists!Back
<1>2. \A l, k : /\ Lfu!Has(l, k) <=> k \in Lists!Elements(l)
                /\ Lists!Has(l, k) <=> k \in Lists!Elements(l)
    BY <1>1 DEF Lfu!Has, Lists!Has
<1>3. \A l, i : Lfu!WithoutAt(l, i) = Lists!WithoutAt(l, i)
    BY DEF Lfu!WithoutAt, Lists!WithoutAt
<1>4. \A l, k : Lfu!Omit(l, k) = Lists!Omit(l, k)
    BY <1>2, <1>3 DEF Lfu!Omit, Lists!Omit
<1>5. \A l, k : Lfu!PushFront(l, k) = Lists!PushFront(l, k)
    BY <1>4 DEF Lfu!PushFront, Lists!PushFront
<1> QED
    BY <1>1, <1>2, <1>4, <1>5

\* The count stacks of keys of S.
Counts(S) == [index : Nat, count : Nat \ {0}, list : Seq(S)]

\* Some entries have fewer uses than others, and indexes of their own.
Under(E, F) == \A e \in E, f \in F : e.count < f.count /\ e.index # f.index

\* The counts ascend, and no index occurs twice.
Ranked(s) == \A i, j \in DOMAIN s : i < j => s[i].count < s[j].count /\ s[i].index # s[j].index

\* The map leads each key to the entry that has it in its list, and no list is empty.
Filed(map, E, S) ==
    /\ map = [k \in DOMAIN map |-> map[k]] /\ DOMAIN map \subseteq S
    /\ \A k \in DOMAIN map : \E e \in E : e.index = map[k] /\ k \in Lists!Elements(e.list)
    /\ \A e \in E : /\ KeyList(e.list, S) /\ e.list # <<>>
                    /\ \A k \in Lists!Elements(e.list) : k \in DOMAIN map /\ map[k] = e.index

Lfu2(map, entries) == [index_map |-> map, count_stacks |-> entries]

LfuParts(stack, map, entries, S) ==
    /\ stack = Lfu2(map, entries) /\ entries \in Seq(Counts(S))
    /\ Ranked(entries) /\ Filed(map, Lists!Elements(entries), S)

LfuShape(stack, S) == LfuParts(stack, stack.index_map, stack.count_stacks, S)

LEMMA LfuFields ==
    \A map, entries : /\ Lfu2(map, entries).index_map = map
                      /\ Lfu2(map, entries).count_stacks = entries
                      /\ Lfu!Keys(Lfu2(map, entries)) = DOMAIN map
  BY DEF Lfu2, Lfu!Keys

\* Together they are a stack, with the keys of the map.
LEMMA LfuMakes ==
    ASSUME NEW S, NEW stack, NEW map, NEW entries, LfuParts(stack, map, entries, S)
    PROVE  LfuShape(stack, S) /\ Lfu!Keys(stack) = DOMAIN map
<1>1. stack.index_map = map /\ stack.count_stacks = entries /\ Lfu!Keys(stack) = DOMAIN map
    BY LfuFields DEF LfuParts
<1> QED
    BY <1>1 DEF LfuShape

\* E are the entries with the key in one of their lists, Z what they are without it.
Leaves(E, Z, k, S) ==
    \E e \in Counts(S), X \in SUBSET Counts(S) :
        /\ E = X \cup {e} /\ \A x \in X : x.index # e.index
        /\ k \in Lists!Elements(e.list)
        /\ Z = X \cup Lists!Elements(Lfu!Reduced(e, k))

\* The key came to the entry of the count, which may be a new one.
Comes(E, Z, k, count, S) ==
    \E next \in Counts(S), X \in SUBSET Counts(S) :
        /\ next.count = count /\ \A x \in X : x.count # count
        /\ Z = X \cup {next}
        /\ \/ E = X /\ next.list = <<k>>
           \/ \E f \in Counts(S) : /\ E = X \cup {f} /\ f.count = count
                                   /\ next.list = Lists!PushFront(f.list, k)

\* The entries of a stack.
CountStacks(stack) == Lists!Elements(stack.count_stacks)

LEMMA ElementsOf ==
    ASSUME NEW E, NEW s \in Seq(E)
    PROVE  Lists!Elements(s) \in SUBSET E
  BY DEF Lists!Elements

LEMMA RankedConcat ==
    ASSUME NEW E, NEW s \in Seq(E), NEW t \in Seq(E)
    PROVE  /\ Ranked(s \o t) <=> /\ Ranked(s) /\ Ranked(t)
                                 /\ Under(Lists!Elements(s), Lists!Elements(t))
<1> DEFINE u == s \o t
           m == Len(s)
           n == Len(t)
<1>1. /\ m \in Nat /\ n \in Nat /\ DOMAIN u = 1 .. (m + n) /\ DOMAIN s = 1 .. m /\ DOMAIN t = 1 .. n
      /\ \A i \in 1 .. m : u[i] = s[i]
      /\ \A i \in 1 .. n : u[m + i] = t[i]
    BY ConcatAt
<1> HIDE DEF u, m, n
<1>2. ASSUME Ranked(u)
      PROVE  Ranked(s) /\ Ranked(t) /\ Under(Lists!Elements(s), Lists!Elements(t))
  <2>1. Ranked(s)
    BY <1>1, <1>2 DEF Ranked
  <2>2. ASSUME NEW i \in 1 .. n, NEW j \in 1 .. n, i < j
        PROVE  t[i].count < t[j].count /\ t[i].index # t[j].index
    <3>1. m + i \in DOMAIN u /\ m + j \in DOMAIN u /\ m + i < m + j
        BY <1>1, <2>2
    <3>2. u[m + i].count < u[m + j].count /\ u[m + i].index # u[m + j].index
        BY <1>2, <3>1 DEF Ranked
    <3> QED
        BY <1>1, <3>2
  <2>3. ASSUME NEW i \in 1 .. m, NEW j \in 1 .. n
        PROVE  s[i].count < t[j].count /\ s[i].index # t[j].index
    <3>1. i \in DOMAIN u /\ m + j \in DOMAIN u /\ i < m + j
        BY <1>1
    <3>2. u[i].count < u[m + j].count /\ u[i].index # u[m + j].index
        BY <1>2, <3>1 DEF Ranked
    <3> QED
        BY <1>1, <3>2
  <2>4. Ranked(t)
    BY <1>1, <2>2 DEF Ranked
  <2>5. Under(Lists!Elements(s), Lists!Elements(t))
    BY <1>1, <2>3 DEF Under, Lists!Elements
  <2> QED
    BY <2>1, <2>4, <2>5
<1>3. ASSUME Ranked(s), Ranked(t), Under(Lists!Elements(s), Lists!Elements(t))
      PROVE  Ranked(u)
  <2> SUFFICES ASSUME NEW i \in DOMAIN u, NEW j \in DOMAIN u, i < j
               PROVE  u[i].count < u[j].count /\ u[i].index # u[j].index
    BY DEF Ranked
  <2>1. CASE i \in 1 .. m /\ j \in 1 .. m
    BY <1>1, <1>3, <2>1 DEF Ranked
  <2>2. CASE i \in 1 .. m /\ j \notin 1 .. m
    <3>1. j - m \in 1 .. n /\ m + (j - m) = j
        BY <1>1, <2>2
    <3>2. u[i] = s[i] /\ u[j] = t[j - m]
        BY <1>1, <2>2, <3>1
    <3>3. s[i] \in Lists!Elements(s) /\ t[j - m] \in Lists!Elements(t)
        BY <1>1, <2>2, <3>1 DEF Lists!Elements
    <3> QED
        BY <1>3, <3>2, <3>3 DEF Under
  <2>3. CASE i \notin 1 .. m
    <3>1. /\ i - m \in 1 .. n /\ m + (i - m) = i /\ j - m \in 1 .. n /\ m + (j - m) = j
          /\ i - m < j - m
        BY <1>1, <2>3
    <3>2. u[i] = t[i - m] /\ u[j] = t[j - m]
        BY <1>1, <3>1
    <3> QED
        BY <1>1, <1>3, <3>1, <3>2 DEF Ranked
  <2> QED
    BY <2>1, <2>2, <2>3
<1> QED
    BY <1>2, <1>3 DEF u

LEMMA RankedFew ==
    /\ Ranked(<<>>) /\ \A e : Ranked(<<e>>)
  BY DEF Ranked

\* A new entry can have an index of its own.
LEMMA FreshHolds ==
    ASSUME NEW E, NEW entries \in Seq(E)
    PROVE  /\ Lfu!FreshIndex(entries) \in Nat
           /\ \A e \in Lists!Elements(entries) : e.index # Lfu!FreshIndex(entries)
<1> DEFINE n     == Len(entries)
           taken == {entries[i].index : i \in DOMAIN entries}
           T     == {m \in 1 .. n + 1 : m \notin taken}
<1>1. n \in Nat /\ DOMAIN entries = 1 .. n
    OBVIOUS
<1>2. T # {}
  <2> SUFFICES ASSUME \A m \in 1 .. n + 1 : m \in taken PROVE FALSE
    OBVIOUS
  <2> DEFINE f == [m \in 1 .. n + 1 |-> CHOOSE i \in 1 .. n : entries[i].index = m]
  <2>1. \A m \in 1 .. n + 1 : f[m] \in 1 .. n /\ entries[f[m]].index = m
    BY <1>1
  <2>2. f \in [1 .. n + 1 -> 1 .. n]
    BY <2>1
  <2>3. /\ IsFiniteSet(1 .. n + 1) /\ IsFiniteSet(1 .. n)
        /\ Cardinality(1 .. n) < Cardinality(1 .. n + 1)
    BY <1>1, FS_Interval
  <2> HIDE DEF f, n
  <2>4. PICK x, y \in 1 .. n + 1 : x # y /\ f[x] = f[y]
    BY <2>2, <2>3, FS_PigeonHole
  <2> QED
    BY <2>1, <2>4
<1> HIDE DEF n
<1>3. T \in SUBSET Nat /\ n + 1 \in Nat
    BY <1>1
<1>4. PICK m \in T : \A k \in T : m <= k
  <2> HIDE DEF T
  <2> QED
    BY <1>2, <1>3, Lemmas!LeastElement
<1>5. m \in 1 .. n + 1 /\ m \notin taken /\ \A k \in 1 .. m - 1 : k \in taken
    BY <1>1, <1>4
<1> HIDE DEF taken, T
<1>6. \E i \in 1 .. n + 1 : i \notin taken /\ \A k \in 1 .. i - 1 : k \in taken
    BY <1>5
<1>7. Lfu!FreshIndex(entries)
        = CHOOSE i \in 1 .. n + 1 : i \notin taken /\ \A k \in 1 .. i - 1 : k \in taken
    BY DEF Lfu!FreshIndex, taken, n
<1>8. Lfu!FreshIndex(entries) \in 1 .. n + 1 /\ Lfu!FreshIndex(entries) \notin taken
    BY <1>6, <1>7
<1> QED
    BY <1>1, <1>8 DEF taken, Lists!Elements

\* A map without a key.
Dropped(map, k) == [j \in DOMAIN map \ {k} |-> map[j]]

LEMMA CountsFields ==
    ASSUME NEW S, NEW e \in Counts(S), NEW l \in Seq(S)
    PROVE  /\ e.index \in Nat /\ e.count \in Nat \ {0} /\ e.list \in Seq(S)
           /\ [e EXCEPT !.list = l] \in Counts(S) /\ [e EXCEPT !.list = l].index = e.index
           /\ [e EXCEPT !.list = l].count = e.count /\ [e EXCEPT !.list = l].list = l
  BY DEF Counts

\* R is what is left of the entry e without a key, and map what is left of the map.
DropsFrom(R, map, X, e, S) ==
    /\ R \in Seq(Counts(S)) /\ Ranked(R)
    /\ \A x \in Lists!Elements(R) : x.count = e.count /\ x.index = e.index
    /\ Filed(map, X \cup Lists!Elements(R), S)

\* A key leaves its entry, which goes if that empties it.
LEMMA FiledDrops ==
    ASSUME NEW S, NEW map, NEW X, NEW e \in Counts(S), Filed(map, X \cup {e}, S),
           \A x \in X : x.index # e.index, NEW k \in Lists!Elements(e.list)
    PROVE  DropsFrom(Lfu!Reduced(e, k), Dropped(map, k), X, e, S)
<1> DEFINE o == Lists!Omit(e.list, k)
           f == [e EXCEPT !.list = o]
           R == Lfu!Reduced(e, k)
           m == Dropped(map, k)
<1>1. /\ map = [j \in DOMAIN map |-> map[j]] /\ DOMAIN map \subseteq S
      /\ \A j \in DOMAIN map : \E x \in X \cup {e} : x.index = map[j] /\ j \in Lists!Elements(x.list)
      /\ \A x \in X \cup {e} : /\ KeyList(x.list, S) /\ x.list # <<>>
                               /\ \A j \in Lists!Elements(x.list) : j \in DOMAIN map /\ map[j] = x.index
    BY DEF Filed
<1>2. KeyList(o, S) /\ o \in Seq(S) /\ Lists!Elements(o) = Lists!Elements(e.list) \ {k}
  <2>1. e.list \in Seq(S) /\ Once(e.list)
    BY <1>1 DEF KeyList
  <2> QED
    BY <2>1, OmitHolds DEF KeyList
<1>3. R = IF o = <<>> THEN <<>> ELSE <<f>>
    BY LfuLists DEF Lfu!Reduced
<1>4. f \in Counts(S) /\ f.index = e.index /\ f.count = e.count /\ f.list = o
    BY <1>2, CountsFields
<1>5. map[k] = e.index /\ k \in DOMAIN map
    BY <1>1
<1>6. DOMAIN m = DOMAIN map \ {k} /\ \A j \in DOMAIN m : m[j] = map[j]
    BY DEF Dropped
<1>7. m = [j \in DOMAIN m |-> m[j]]
    BY DEF Dropped
<1> HIDE DEF o, f, R, m
<1>8. \A x \in X : \A j \in Lists!Elements(x.list) : j \in DOMAIN m /\ m[j] = x.index
    BY <1>1, <1>5, <1>6
<1>9. DOMAIN m \subseteq S
    BY <1>1, <1>6
<1>10. CASE o = <<>>
  <2>1. R = <<>> /\ Lists!Elements(R) = {} /\ Lists!Elements(o) = {}
    BY <1>3, <1>10, EmptyHolds
  <2>2. ASSUME NEW j \in DOMAIN m
        PROVE  \E x \in X : x.index = m[j] /\ j \in Lists!Elements(x.list)
    BY <1>1, <1>2, <1>6, <2>1
  <2>3. Filed(m, X, S)
    BY <1>1, <1>7, <1>8, <1>9, <2>2 DEF Filed
  <2>4. R \in Seq(Counts(S)) /\ Ranked(R)
    BY <2>1, RankedFew
  <2>5. X \cup Lists!Elements(R) = X
    BY <2>1
  <2> QED
    BY <2>1, <2>3, <2>4, <2>5 DEF R, m, DropsFrom
<1>11. CASE o # <<>>
  <2>1. R = <<f>> /\ R \in Seq(Counts(S)) /\ Lists!Elements(R) = {f} /\ Ranked(R)
    BY <1>3, <1>4, <1>11, OneHolds, RankedFew
  <2>2. ASSUME NEW j \in DOMAIN m
        PROVE  \E x \in X \cup {f} : x.index = m[j] /\ j \in Lists!Elements(x.list)
    BY <1>1, <1>2, <1>4, <1>6
  <2>3. ASSUME NEW x \in X \cup {f}
        PROVE  /\ KeyList(x.list, S) /\ x.list # <<>>
               /\ \A j \in Lists!Elements(x.list) : j \in DOMAIN m /\ m[j] = x.index
    <3>1. CASE x \in X
        BY <1>1, <1>8, <3>1
    <3>2. CASE x = f
        BY <1>1, <1>2, <1>4, <1>6, <1>11, <3>2
    <3> QED
        BY <3>1, <3>2
  <2>4. Filed(m, X \cup {f}, S)
    BY <1>7, <1>9, <2>2, <2>3 DEF Filed
  <2> QED
    BY <1>4, <2>1, <2>4 DEF R, m, DropsFrom
<1> QED
    BY <1>10, <1>11

\* A map with a key, in place of the entry it had.
MadeOf(m, map, k, index) ==
    /\ DOMAIN m = DOMAIN map \cup {k} /\ m = [j \in DOMAIN m |-> m[j]]
    /\ \A j \in DOMAIN map \cup {k} : m[j] = IF j = k THEN index ELSE map[j]

LEMMA IndexedHolds ==
    ASSUME NEW map, NEW k, NEW index
    PROVE  /\ MadeOf(Lfu!Indexed(map, k, index), map, k, index)
           /\ Lfu!Indexed(Dropped(map, k), k, index) = Lfu!Indexed(map, k, index)
  BY DEF Lfu!Indexed, Dropped, MadeOf

\* A key comes to an entry of its own, ...
LEMMA FiledAdds ==
    ASSUME NEW S, NEW map, NEW X, Filed(map, X, S), NEW k \in S, k \notin DOMAIN map,
           NEW e, e.list = <<k>>, \A x \in X : x.index # e.index
    PROVE  Filed(Lfu!Indexed(map, k, e.index), X \cup {e}, S)
<1> DEFINE m == Lfu!Indexed(map, k, e.index)
<1>1. /\ map = [j \in DOMAIN map |-> map[j]] /\ DOMAIN map \subseteq S
      /\ \A j \in DOMAIN map : \E x \in X : x.index = map[j] /\ j \in Lists!Elements(x.list)
      /\ \A x \in X : /\ KeyList(x.list, S) /\ x.list # <<>>
                      /\ \A j \in Lists!Elements(x.list) : j \in DOMAIN map /\ map[j] = x.index
    BY DEF Filed
<1>2. /\ DOMAIN m = DOMAIN map \cup {k} /\ m = [j \in DOMAIN m |-> m[j]]
      /\ \A j \in DOMAIN map \cup {k} : m[j] = IF j = k THEN e.index ELSE map[j]
  <2>1. MadeOf(m, map, k, e.index)
    BY IndexedHolds
  <2> HIDE DEF m
  <2> QED
    BY <2>1, Zenon DEF MadeOf
<1>3. KeyList(e.list, S) /\ e.list # <<>> /\ Lists!Elements(e.list) = {k}
    BY OneHolds DEF KeyList
<1> HIDE DEF m
<1>4. \A j \in DOMAIN m : \E x \in X \cup {e} : x.index = m[j] /\ j \in Lists!Elements(x.list)
    BY <1>1, <1>2, <1>3
<1>5. ASSUME NEW x \in X \cup {e}
      PROVE  /\ KeyList(x.list, S) /\ x.list # <<>>
             /\ \A j \in Lists!Elements(x.list) : j \in DOMAIN m /\ m[j] = x.index
  <2>1. CASE x \in X
    BY <1>1, <1>2, <2>1
  <2>2. CASE x = e
    BY <1>2, <1>3, <2>2
  <2> QED
    BY <2>1, <2>2
<1>6. DOMAIN m \subseteq S
    BY <1>1, <1>2
<1>7. Filed(m, X \cup {e}, S)
    BY <1>2, <1>4, <1>5, <1>6 DEF Filed
<1> QED
    BY <1>7 DEF m

\* ... or to one that is there.
LEMMA FiledJoins ==
    ASSUME NEW S, NEW map, NEW X, NEW f \in Counts(S), Filed(map, X \cup {f}, S),
           \A x \in X : x.index # f.index, NEW k \in S, k \notin DOMAIN map,
           NEW e, e.index = f.index, e.list = Lists!PushFront(f.list, k)
    PROVE  Filed(Lfu!Indexed(map, k, e.index), X \cup {e}, S)
<1> DEFINE m == Lfu!Indexed(map, k, e.index)
<1>1. /\ map = [j \in DOMAIN map |-> map[j]] /\ DOMAIN map \subseteq S
      /\ \A j \in DOMAIN map : \E x \in X \cup {f} : x.index = map[j] /\ j \in Lists!Elements(x.list)
      /\ \A x \in X \cup {f} : /\ KeyList(x.list, S) /\ x.list # <<>>
                               /\ \A j \in Lists!Elements(x.list) : j \in DOMAIN map /\ map[j] = x.index
    BY DEF Filed
<1>2. /\ DOMAIN m = DOMAIN map \cup {k} /\ m = [j \in DOMAIN m |-> m[j]]
      /\ \A j \in DOMAIN map \cup {k} : m[j] = IF j = k THEN e.index ELSE map[j]
  <2>1. MadeOf(m, map, k, e.index)
    BY IndexedHolds
  <2> HIDE DEF m
  <2> QED
    BY <2>1, Zenon DEF MadeOf
<1>3. KeyList(e.list, S) /\ Lists!Elements(e.list) = Lists!Elements(f.list) \cup {k}
  <2>1. f.list \in Seq(S) /\ Once(f.list)
    BY <1>1 DEF KeyList
  <2> QED
    BY <2>1, PushFrontHolds DEF KeyList
<1>4. e.list # <<>>
    BY <1>3, EmptyHolds
<1> HIDE DEF m
<1>5. \A j \in DOMAIN m : \E x \in X \cup {e} : x.index = m[j] /\ j \in Lists!Elements(x.list)
    BY <1>1, <1>2, <1>3
<1>6. ASSUME NEW x \in X \cup {e}
      PROVE  /\ KeyList(x.list, S) /\ x.list # <<>>
             /\ \A j \in Lists!Elements(x.list) : j \in DOMAIN m /\ m[j] = x.index
  <2>1. CASE x \in X
    BY <1>1, <1>2, <2>1
  <2>2. CASE x = e
    <3>1. \A j \in Lists!Elements(f.list) : j \in DOMAIN map /\ map[j] = f.index
        BY <1>1
    <3> QED
        BY <1>2, <1>3, <1>4, <2>2, <3>1
  <2> QED
    BY <2>1, <2>2
<1>7. DOMAIN m \subseteq S
    BY <1>1, <1>2
<1>8. Filed(m, X \cup {e}, S)
    BY <1>2, <1>5, <1>6, <1>7 DEF Filed
<1> QED
    BY <1>8 DEF m

\* Three lists in a row are ranked if each is, and each under those behind it.
RowOfThree(u, a, b, c, E) ==
    /\ u \in Seq(E)
    /\ Lists!Elements(u) = Lists!Elements(a) \cup Lists!Elements(b) \cup Lists!Elements(c)
    /\ Ranked(u) <=> /\ Ranked(a) /\ Ranked(b) /\ Ranked(c)
                     /\ Under(Lists!Elements(a), Lists!Elements(b))
                     /\ Under(Lists!Elements(a), Lists!Elements(c))
                     /\ Under(Lists!Elements(b), Lists!Elements(c))

LEMMA RankedThree ==
    ASSUME NEW E, NEW a \in Seq(E), NEW b \in Seq(E), NEW c \in Seq(E)
    PROVE  RowOfThree((a \o b) \o c, a, b, c, E)
<1> DEFINE d == a \o b
<1>1. /\ d \in Seq(E) /\ Lists!Elements(d) = Lists!Elements(a) \cup Lists!Elements(b)
      /\ Ranked(d) <=> Ranked(a) /\ Ranked(b) /\ Under(Lists!Elements(a), Lists!Elements(b))
    BY ConcatHolds, RankedConcat
<1> HIDE DEF d
<1>2. /\ d \o c \in Seq(E) /\ Lists!Elements(d \o c) = Lists!Elements(d) \cup Lists!Elements(c)
      /\ Ranked(d \o c) <=> Ranked(d) /\ Ranked(c) /\ Under(Lists!Elements(d), Lists!Elements(c))
    BY <1>1, ConcatHolds, RankedConcat
<1>3. Under(Lists!Elements(d), Lists!Elements(c))
        <=> /\ Under(Lists!Elements(a), Lists!Elements(c))
            /\ Under(Lists!Elements(b), Lists!Elements(c))
    BY <1>1 DEF Under
<1>4. Lists!Elements(d \o c) = Lists!Elements(a) \cup Lists!Elements(b) \cup Lists!Elements(c)
    BY <1>1, <1>2
<1>5. Ranked(d \o c) <=>
          /\ Ranked(a) /\ Ranked(b) /\ Ranked(c)
          /\ Under(Lists!Elements(a), Lists!Elements(b))
          /\ Under(Lists!Elements(a), Lists!Elements(c))
          /\ Under(Lists!Elements(b), Lists!Elements(c))
    BY <1>1, <1>2, <1>3, Zenon
<1> QED
    BY <1>2, <1>4, <1>5, Zenon DEF d, RowOfThree

\* An entry with fewer uses than the first is under all.
LEMMA UnderAll ==
    ASSUME NEW S, NEW s \in Seq(Counts(S)), Ranked(s), NEW e, e.count \in Nat,
           \A x \in Lists!Elements(s) : x.index # e.index,
           s # <<>> => e.count < Head(s).count
    PROVE  Under({e}, Lists!Elements(s))
<1>1. DOMAIN s = 1 .. Len(s) /\ Len(s) \in Nat /\ \A i \in 1 .. Len(s) : s[i] \in Counts(S)
    OBVIOUS
<1>2. \A x \in Counts(S) : x.count \in Nat
    BY DEF Counts
<1>3. ASSUME NEW i \in 1 .. Len(s) PROVE e.count < s[i].count
  <2>1. s # <<>> /\ Head(s) = s[1] /\ 1 \in 1 .. Len(s)
    BY <1>1
  <2>2. s[1].count \in Nat /\ s[i].count \in Nat
    BY <1>1, <1>2, <2>1
  <2>3. i = 1 \/ s[1].count < s[i].count
    BY <1>1, <2>1 DEF Ranked
  <2> QED
    BY <2>1, <2>2, <2>3
<1>4. \A x \in Lists!Elements(s) : e.count < x.count
    BY <1>1, <1>3 DEF Lists!Elements
<1> QED
    BY <1>4 DEF Under

\* An entry, those before it and those behind it.
Parted(entries, before, e, behind, S) ==
    /\ before \in Seq(Counts(S)) /\ e \in Counts(S) /\ behind \in Seq(Counts(S))
    /\ Ranked(before) /\ Ranked(behind)
    /\ Under(Lists!Elements(before), {e}) /\ Under({e}, Lists!Elements(behind))
    /\ Under(Lists!Elements(before), Lists!Elements(behind))
    /\ Lists!Elements(entries) = (Lists!Elements(before) \cup Lists!Elements(behind)) \cup {e}
    /\ \A x \in Lists!Elements(before) \cup Lists!Elements(behind) : x.index # e.index

LEMMA PartedHolds ==
    ASSUME NEW S, NEW entries \in Seq(Counts(S)), Ranked(entries), NEW i \in 1 .. Len(entries)
    PROVE  Parted(entries, SubSeq(entries, 1, i - 1), entries[i],
                  SubSeq(entries, i + 1, Len(entries)), S)
<1> DEFINE a == SubSeq(entries, 1, i - 1)
           b == SubSeq(entries, i + 1, Len(entries))
           e == entries[i]
           o == <<e>>
<1>1. a \in Seq(Counts(S)) /\ b \in Seq(Counts(S)) /\ entries = (a \o o) \o b
    BY SplitAt
<1>2. e \in Counts(S)
    OBVIOUS
<1> HIDE DEF a, b, e
<1>3. o \in Seq(Counts(S)) /\ Lists!Elements(o) = {e}
    BY <1>2, OneHolds
<1> HIDE DEF o
<1>4. RowOfThree(entries, a, o, b, Counts(S))
    BY <1>1, <1>3, RankedThree
<1>5. /\ Lists!Elements(entries) = Lists!Elements(a) \cup {e} \cup Lists!Elements(b)
      /\ Ranked(a) /\ Ranked(b) /\ Under(Lists!Elements(a), {e})
      /\ Under(Lists!Elements(a), Lists!Elements(b)) /\ Under({e}, Lists!Elements(b))
  <2>1. Ranked(entries)
    OBVIOUS
  <2> QED
    BY <1>3, <1>4, <2>1, Zenon DEF RowOfThree
<1>6. \A x \in Lists!Elements(a) \cup Lists!Elements(b) : x.index # e.index
    BY <1>5 DEF Under
<1>7. Lists!Elements(entries) = (Lists!Elements(a) \cup Lists!Elements(b)) \cup {e}
    BY <1>5
<1>8. Parted(entries, a, e, b, S)
    BY <1>1, <1>2, <1>5, <1>6, <1>7, Zenon DEF Parted
<1> QED
    BY <1>8 DEF a, b, e

\* The map leads to the entry that holds the key.
LEMMA EntryHolds ==
    ASSUME NEW S, NEW stack, NEW map, NEW entries, LfuParts(stack, map, entries, S),
           NEW k \in DOMAIN map
    PROVE  /\ Lfu!EntryOf(stack, k) \in 1 .. Len(entries)
           /\ k \in Lists!Elements(entries[Lfu!EntryOf(stack, k)].list)
<1>1. stack.index_map = map /\ stack.count_stacks = entries
    BY LfuFields DEF LfuParts
<1>2. DOMAIN entries = 1 .. Len(entries) /\ Len(entries) \in Nat /\ Ranked(entries)
    BY DEF LfuParts
<1>3. PICK e \in Lists!Elements(entries) : e.index = map[k] /\ k \in Lists!Elements(e.list)
    BY DEF LfuParts, Filed
<1>4. PICK i \in DOMAIN entries : entries[i] = e
    BY <1>3 DEF Lists!Elements
<1> DEFINE j == Lfu!EntryOf(stack, k)
<1>5. j \in DOMAIN entries /\ entries[j].index = map[k]
    BY <1>1, <1>3, <1>4 DEF Lfu!EntryOf
<1> HIDE DEF j
<1>6. ~(i < j) /\ ~(j < i)
    BY <1>2, <1>3, <1>4, <1>5 DEF Ranked
<1>7. i = j
    BY <1>2, <1>5, <1>6
<1> QED
    BY <1>2, <1>3, <1>4, <1>5, <1>7 DEF j

\* lfu: each call does to the keys what it should.
LEMMA LfuRemoves ==
    ASSUME NEW S, NEW stack, LfuShape(stack, S), NEW k
    PROVE  /\ LfuShape(Lfu!Remove(stack, k), S)
           /\ Lfu!Keys(Lfu!Remove(stack, k)) = Lfu!Keys(stack) \ {k}
           /\ IF k \in Lfu!Keys(stack)
              THEN Leaves(CountStacks(stack), CountStacks(Lfu!Remove(stack, k)), k, S)
              ELSE Lfu!Remove(stack, k) = stack
<1>1. PICK map, entries : LfuParts(stack, map, entries, S)
    BY DEF LfuShape
<1>2. /\ stack.index_map = map /\ stack.count_stacks = entries /\ Lfu!Keys(stack) = DOMAIN map
      /\ entries \in Seq(Counts(S)) /\ Ranked(entries) /\ Filed(map, Lists!Elements(entries), S)
    BY <1>1, LfuFields DEF LfuParts
<1>3. CASE k \notin DOMAIN map
    BY <1>2, <1>3 DEF Lfu!Remove
<1>4. CASE k \in DOMAIN map
  <2> DEFINE i == Lfu!EntryOf(stack, k)
             a == SubSeq(entries, 1, i - 1)
             b == SubSeq(entries, i + 1, Len(entries))
             e == entries[i]
             R == Lfu!Reduced(e, k)
             m == Dropped(map, k)
             new == (a \o R) \o b
  <2>1. i \in 1 .. Len(entries) /\ k \in Lists!Elements(e.list)
    BY <1>1, <1>4, EntryHolds
  <2>2. Lfu!Remove(stack, k) = Lfu2(m, new)
    BY <1>2, <1>4 DEF Lfu!Remove, Lfu2, Dropped
  <2> HIDE DEF i
  <2>3. Parted(entries, a, e, b, S)
    BY <1>2, <2>1, PartedHolds
  <2> HIDE DEF a, b, e
  <2> DEFINE X == Lists!Elements(a) \cup Lists!Elements(b)
  <2>4. /\ a \in Seq(Counts(S)) /\ e \in Counts(S) /\ b \in Seq(Counts(S)) /\ Ranked(a) /\ Ranked(b)
        /\ Under(Lists!Elements(a), {e}) /\ Under({e}, Lists!Elements(b))
        /\ Under(Lists!Elements(a), Lists!Elements(b))
        /\ Lists!Elements(entries) = X \cup {e}
        /\ \A x \in X : x.index # e.index
    BY <2>3 DEF Parted
  <2> HIDE DEF X
  <2>5. /\ R \in Seq(Counts(S)) /\ Ranked(R) /\ Filed(m, X \cup Lists!Elements(R), S)
        /\ \A x \in Lists!Elements(R) : x.count = e.count /\ x.index = e.index
    <3>1. Filed(map, X \cup {e}, S)
        BY <1>2, <2>4
    <3>2. DropsFrom(R, m, X, e, S)
        BY <2>1, <2>4, <3>1, FiledDrops
    <3> HIDE DEF R, m
    <3> QED
        BY <3>2, Zenon DEF DropsFrom
  <2> HIDE DEF R
  <2>6. Under(Lists!Elements(a), Lists!Elements(R)) /\ Under(Lists!Elements(R), Lists!Elements(b))
    BY <2>4, <2>5 DEF Under
  <2>7. /\ new \in Seq(Counts(S)) /\ Ranked(new)
        /\ Lists!Elements(new) = Lists!Elements(a) \cup Lists!Elements(R) \cup Lists!Elements(b)
    <3>1. RowOfThree(new, a, R, b, Counts(S))
        BY <2>4, <2>5, RankedThree
    <3> HIDE DEF new
    <3> QED
        BY <2>4, <2>5, <2>6, <3>1, Zenon DEF RowOfThree
  <2>8. Lists!Elements(new) = X \cup Lists!Elements(R)
    BY <2>7 DEF X
  <2> HIDE DEF new, m
  <2>9. LfuParts(Lfu!Remove(stack, k), m, new, S)
    BY <2>2, <2>5, <2>7, <2>8, Zenon DEF LfuParts
  <2>10. DOMAIN m = DOMAIN map \ {k}
    BY DEF m, Dropped
  <2>11. Leaves(CountStacks(stack), CountStacks(Lfu!Remove(stack, k)), k, S)
    <3>1. CountStacks(stack) = X \cup {e}
        BY <1>2, <2>4 DEF CountStacks
    <3>2. CountStacks(Lfu!Remove(stack, k)) = X \cup Lists!Elements(Lfu!Reduced(e, k))
        BY <2>2, <2>8, LfuFields DEF CountStacks, R
    <3>3. X \in SUBSET Counts(S)
        BY <2>4, ElementsOf DEF X
    <3> QED
        BY <2>1, <2>4, <3>1, <3>2, <3>3 DEF Leaves
  <2> QED
    BY <1>2, <1>4, <2>9, <2>10, <2>11, LfuMakes
<1> QED
    BY <1>3, <1>4

LEMMA BehindAt ==
    ASSUME NEW E, NEW s \in Seq(E), NEW i \in 0 .. Len(s)
    PROVE  /\ SubSeq(s, i + 1, Len(s)) \in Seq(E) /\ Len(SubSeq(s, i + 1, Len(s))) = Len(s) - i
           /\ \A j \in 1 .. Len(s) - i : SubSeq(s, i + 1, Len(s))[j] = s[i + j]
<1> DEFINE n == Len(s)
           m == i + 1
           b == SubSeq(s, m, n)
<1>1. n \in Nat /\ i \in Nat /\ i <= n /\ \A j \in 1 .. n : s[j] \in E
    OBVIOUS
<1> HIDE DEF n
<1>2. m \in Int /\ n \in Int /\ \A j \in m .. n : s[j] \in E
    BY <1>1
<1> HIDE DEF m
<1>3. /\ b \in Seq(E) /\ Len(b) = IF m <= n THEN n - m + 1 ELSE 0
      /\ \A j \in 1 .. n - m + 1 : b[j] = s[m + j - 1]
    BY <1>2, SubSeqProperties
<1> HIDE DEF b
<1>4. Len(b) = n - i
    BY <1>1, <1>3 DEF m
<1>5. ASSUME NEW j \in 1 .. n - i PROVE b[j] = s[i + j]
  <2>1. j \in 1 .. n - m + 1 /\ m + j - 1 = i + j
    BY <1>1 DEF m
  <2> QED
    BY <1>3, <2>1
<1> QED
    BY <1>3, <1>4, <1>5 DEF b, m, n

\* What is behind the i-th entry, and the entry behind it.
LEMMA NextHolds ==
    ASSUME NEW E, NEW s \in Seq(E), NEW i \in 1 .. Len(s)
    PROVE  LET b == SubSeq(s, i + 1, Len(s))
           IN  /\ i + 1 \in DOMAIN s <=> b # <<>>
               /\ b # <<>> => /\ s[i + 1] = Head(b) /\ SubSeq(s, i + 2, Len(s)) = Tail(b)
                              /\ Head(b) \in E /\ Tail(b) \in Seq(E) /\ b = <<Head(b)>> \o Tail(b)
<1> DEFINE n == Len(s)
           b == SubSeq(s, i + 1, n)
           c == SubSeq(s, i + 2, n)
<1>1. /\ n \in Nat /\ DOMAIN s = 1 .. n /\ i \in 1 .. n /\ i + 1 \in 1 .. n + 1
    OBVIOUS
<1>2. /\ b \in Seq(E) /\ Len(b) = n - i /\ \A j \in 1 .. n - i : b[j] = s[i + j]
  <2>1. i \in 0 .. Len(s)
    BY <1>1
  <2> QED
    BY <2>1, BehindAt
<1> HIDE DEF n
<1>3. CASE i = n
  <2>1. b = <<>>
    BY <1>1, <1>2, <1>3, EmptySeq
  <2>2. i + 1 \notin DOMAIN s
    BY <1>1, <1>3
  <2> QED
    BY <2>1, <2>2
<1>4. CASE i # n
  <2>1. i + 2 \in 1 .. n + 1 /\ n - i \in Nat /\ n - i >= 1 /\ i + 1 \in DOMAIN s
    BY <1>1, <1>4
  <2>2. c \in Seq(E) /\ Len(c) = n - (i + 1) /\ \A j \in 1 .. n - (i + 1) : c[j] = s[(i + 1) + j]
    <3>1. i + 1 \in 0 .. Len(s)
        BY <1>1, <2>1 DEF n
    <3>2. /\ SubSeq(s, (i + 1) + 1, Len(s)) \in Seq(E)
          /\ Len(SubSeq(s, (i + 1) + 1, Len(s))) = Len(s) - (i + 1)
          /\ \A j \in 1 .. Len(s) - (i + 1) : SubSeq(s, (i + 1) + 1, Len(s))[j] = s[(i + 1) + j]
        BY <3>1, BehindAt
    <3>3. (i + 1) + 1 = i + 2
        BY <1>1
    <3> QED
        BY <3>2, <3>3 DEF n
  <2> HIDE DEF b, c
  <2>3. b # <<>> /\ Head(b) = b[1] /\ b[1] = s[i + 1]
    BY <1>2, <2>1, EmptySeq
  <2>4. /\ Head(b) \in E /\ Tail(b) \in Seq(E) /\ b = <<Head(b)>> \o Tail(b)
        /\ Len(Tail(b)) = Len(b) - 1 /\ \A j \in 1 .. Len(b) - 1 : Tail(b)[j] = b[j + 1]
    BY <1>2, <2>3
  <2>5. Len(c) = Len(Tail(b))
    BY <1>1, <1>2, <2>2, <2>4
  <2>6. ASSUME NEW j \in 1 .. Len(c) PROVE c[j] = Tail(b)[j]
    <3>1. /\ j \in 1 .. n - (i + 1) /\ j \in 1 .. Len(b) - 1 /\ j + 1 \in 1 .. n - i
          /\ (i + 1) + j = i + (j + 1)
        BY <1>1, <1>2, <2>1, <2>2
    <3>2. c[j] = s[(i + 1) + j] /\ Tail(b)[j] = b[j + 1] /\ b[j + 1] = s[i + (j + 1)]
        BY <1>2, <2>2, <2>4, <3>1
    <3> QED
        BY <3>1, <3>2
  <2>7. c = Tail(b)
    BY <2>2, <2>4, <2>5, <2>6, SeqEqual
  <2> QED
    BY <2>1, <2>3, <2>4, <2>7 DEF b, c, n
<1> QED
    BY <1>3, <1>4

LEMMA RankedFirst ==
    ASSUME NEW E, NEW f \in E, NEW c \in Seq(E), Ranked(<<f>> \o c)
    PROVE  Ranked(c) /\ Under({f}, Lists!Elements(c))
<1> DEFINE o == <<f>>
<1>1. o \in Seq(E) /\ Lists!Elements(o) = {f}
    BY OneHolds
<1>2. Ranked(o \o c)
    OBVIOUS
<1> HIDE DEF o
<1>3. Ranked(c) /\ Under(Lists!Elements(o), Lists!Elements(c))
    BY <1>1, <1>2, RankedConcat
<1> QED
    BY <1>1, <1>3

\* The key comes to the first entry of b, if that has the count, or to a new one.
JoinsOrNew(next, entries, b, count, k, S) ==
    /\ next \in Counts(S) /\ next.count = count
    /\ \/ /\ b # <<>> /\ Head(b).count = count
          /\ next.index = Head(b).index /\ next.list = Lists!PushFront(Head(b).list, k)
       \/ /\ b # <<>> => Head(b).count # count
          /\ \A e \in Lists!Elements(entries) : e.index # next.index
          /\ next.list = <<k>>

LEMMA JoinedHolds ==
    ASSUME NEW S, NEW entries \in Seq(Counts(S)), NEW i, NEW count \in Nat \ {0}, NEW k \in S,
           NEW b \in Seq(Counts(S)),
           i \in DOMAIN entries <=> b # <<>>, b # <<>> => entries[i] = Head(b)
    PROVE  JoinsOrNew(Lfu!Joined(entries, i, count, k), entries, b, count, k, S)
<1> DEFINE next == Lfu!Joined(entries, i, count, k)
<1>1. CASE b # <<>> /\ Head(b).count = count
  <2> DEFINE f == Head(b)
             l == Lists!PushFront(f.list, k)
  <2>1. f \in Counts(S) /\ f.list \in Seq(S)
    <3>1. f \in Counts(S)
        BY <1>1, FrontHolds
    <3> HIDE DEF f
    <3> QED
        BY <3>1 DEF Counts
  <2>2. next = [f EXCEPT !.list = l]
    <3>1. i \in DOMAIN entries /\ entries[i] = f /\ entries[i].count = count
        BY <1>1
    <3> HIDE DEF f
    <3> QED
        BY <3>1, LfuLists DEF Lfu!Joined
  <2>3. l \in Seq(S)
    BY <2>1, PushFrontHolds
  <2> HIDE DEF f, l
  <2>4. next \in Counts(S) /\ next.count = f.count /\ next.index = f.index /\ next.list = l
    BY <2>1, <2>2, <2>3, CountsFields
  <2> QED
    BY <1>1, <2>4 DEF f, l, JoinsOrNew
<1>2. CASE b # <<>> => Head(b).count # count
  <2> DEFINE x == Lfu!FreshIndex(entries)
             o == <<k>>
  <2>1. next = [index |-> x, count |-> count, list |-> o]
    BY <1>2 DEF Lfu!Joined
  <2>2. x \in Nat /\ \A e \in Lists!Elements(entries) : e.index # x
    BY FreshHolds
  <2>3. o \in Seq(S)
    OBVIOUS
  <2> HIDE DEF x, o
  <2>4. next \in Counts(S) /\ next.count = count /\ next.index = x /\ next.list = o
    BY <2>1, <2>2, <2>3 DEF Counts
  <2> QED
    BY <1>2, <2>2, <2>4 DEF o, JoinsOrNew
<1> QED
    BY <1>1, <1>2

\* The entries between which one comes.
Between(a, R, next, c, e, S) ==
    /\ a \in Seq(Counts(S)) /\ c \in Seq(Counts(S)) /\ next \in Counts(S)
    /\ R \in Seq(Counts(S)) /\ \A x \in Lists!Elements(R) : x.count = e.count /\ x.index = e.index
    /\ Ranked(a) /\ Ranked(R) /\ Ranked(c)
    /\ Under(Lists!Elements(a), {e}) /\ Under(Lists!Elements(a), {next})
    /\ Under(Lists!Elements(a), Lists!Elements(c)) /\ Under({e}, {next})
    /\ Under({e}, Lists!Elements(c)) /\ Under({next}, Lists!Elements(c))

RowBetween(new, a, R, next, c, S) ==
    /\ new \in Seq(Counts(S)) /\ Ranked(new)
    /\ Lists!Elements(new)
         = (Lists!Elements(a) \cup Lists!Elements(c) \cup Lists!Elements(R)) \cup {next}

LEMMA BetweenHolds ==
    ASSUME NEW S, NEW a, NEW R, NEW next, NEW c, NEW e, Between(a, R, next, c, e, S)
    PROVE  RowBetween(((a \o R) \o <<next>>) \o c, a, R, next, c, S)
<1> DEFINE o == <<next>>
           d == (a \o R) \o o
<1>1. /\ a \in Seq(Counts(S)) /\ c \in Seq(Counts(S)) /\ next \in Counts(S) /\ R \in Seq(Counts(S))
      /\ Ranked(a) /\ Ranked(R) /\ Ranked(c)
    BY DEF Between
<1>2. o \in Seq(Counts(S)) /\ Lists!Elements(o) = {next} /\ Ranked(o)
    BY <1>1, OneHolds, RankedFew
<1>3. /\ Under(Lists!Elements(a), Lists!Elements(R)) /\ Under(Lists!Elements(R), {next})
      /\ Under(Lists!Elements(R), Lists!Elements(c))
    BY DEF Between, Under
<1>4. /\ Under(Lists!Elements(a), {next}) /\ Under(Lists!Elements(a), Lists!Elements(c))
      /\ Under({next}, Lists!Elements(c))
    BY DEF Between
<1> HIDE DEF o
<1>5. RowOfThree(d, a, R, o, Counts(S))
    BY <1>1, <1>2, RankedThree
<1> HIDE DEF d
<1>6. /\ d \in Seq(Counts(S)) /\ Ranked(d)
      /\ Lists!Elements(d) = Lists!Elements(a) \cup Lists!Elements(R) \cup {next}
    BY <1>1, <1>2, <1>3, <1>4, <1>5 DEF RowOfThree
<1>7. Under(Lists!Elements(d), Lists!Elements(c))
    BY <1>3, <1>4, <1>6 DEF Under
<1>8. /\ d \o c \in Seq(Counts(S))
      /\ Lists!Elements(d \o c) = Lists!Elements(d) \cup Lists!Elements(c)
      /\ Ranked(d \o c)
    BY <1>1, <1>6, <1>7, ConcatHolds, RankedConcat
<1>9. Lists!Elements(d \o c)
        = (Lists!Elements(a) \cup Lists!Elements(c) \cup Lists!Elements(R)) \cup {next}
    BY <1>6, <1>8
<1> QED
    BY <1>8, <1>9 DEF d, o, RowBetween

\* A use takes a key to the next entry if that has one use more.
LEMMA LfuJoinsNext ==
    ASSUME NEW S, NEW map, NEW entries, Filed(map, Lists!Elements(entries), S),
           NEW a, NEW e, NEW b, Parted(entries, a, e, b, S), NEW k \in Lists!Elements(e.list),
           k \in S, NEW next \in Counts(S), next.count = e.count + 1,
           b # <<>>, Head(b).count = next.count, next.index = Head(b).index,
           next.list = Lists!PushFront(Head(b).list, k)
    PROVE  LET R == Lfu!Reduced(e, k)
               X == Lists!Elements(a) \cup Lists!Elements(Tail(b)) \cup Lists!Elements(R)
           IN  /\ Between(a, R, next, Tail(b), e, S)
               /\ Filed(Lfu!Indexed(map, k, next.index), X \cup {next}, S)
<1> DEFINE R == Lfu!Reduced(e, k)
           f == Head(b)
           c == Tail(b)
           X == Lists!Elements(a) \cup Lists!Elements(c) \cup Lists!Elements(R)
           Y == Lists!Elements(a) \cup Lists!Elements(b)
           m == Dropped(map, k)
<1>1. /\ a \in Seq(Counts(S)) /\ e \in Counts(S) /\ b \in Seq(Counts(S)) /\ Ranked(a) /\ Ranked(b)
      /\ Under(Lists!Elements(a), {e}) /\ Under({e}, Lists!Elements(b))
      /\ Under(Lists!Elements(a), Lists!Elements(b))
      /\ Lists!Elements(entries) = Y \cup {e} /\ \A x \in Y : x.index # e.index
    BY DEF Parted
<1>2. /\ f \in Counts(S) /\ c \in Seq(Counts(S)) /\ b = <<f>> \o c
      /\ Lists!Elements(b) = Lists!Elements(c) \cup {f}
  <2>1. f \in Counts(S) /\ c \in Seq(Counts(S)) /\ Lists!Elements(b) = Lists!Elements(c) \cup {f}
    BY <1>1, FrontHolds
  <2>2. b = <<f>> \o c
    BY <1>1
  <2> QED
    BY <2>1, <2>2
<1>3. f.count = next.count /\ next.index = f.index /\ next.list = Lists!PushFront(f.list, k)
    OBVIOUS
<1> HIDE DEF f, c
<1>4. Ranked(c) /\ Under({f}, Lists!Elements(c))
    BY <1>1, <1>2, RankedFirst
<1>5. DropsFrom(R, m, Y, e, S)
  <2>1. Filed(map, Y \cup {e}, S)
    BY <1>1
  <2> HIDE DEF Y
  <2> QED
    BY <1>1, <2>1, FiledDrops
<1> HIDE DEF R, m
<1>6. /\ R \in Seq(Counts(S)) /\ Ranked(R) /\ Filed(m, Y \cup Lists!Elements(R), S)
      /\ \A x \in Lists!Elements(R) : x.count = e.count /\ x.index = e.index
    BY <1>5, Zenon DEF DropsFrom
<1>7. /\ Under(Lists!Elements(a), {f}) /\ Under(Lists!Elements(a), Lists!Elements(c))
      /\ Under({e}, {f}) /\ Under({e}, Lists!Elements(c))
    BY <1>1, <1>2 DEF Under
<1>8. /\ Under(Lists!Elements(a), {next}) /\ Under({e}, {next})
      /\ Under({next}, Lists!Elements(c))
    BY <1>3, <1>4, <1>7 DEF Under
<1>9. Between(a, R, next, c, e, S)
    BY <1>1, <1>2, <1>4, <1>6, <1>7, <1>8, Zenon DEF Between
<1>10. \A x \in X : x.index # f.index
    BY <1>4, <1>6, <1>7 DEF Under
<1>11. Filed(m, X \cup {f}, S)
  <2>1. Y \cup Lists!Elements(R) = X \cup {f}
    BY <1>2
  <2> QED
    BY <1>6, <2>1
<1> HIDE DEF X
<1>12. k \notin DOMAIN m
    BY DEF m, Dropped
<1>13. Filed(Lfu!Indexed(m, k, next.index), X \cup {next}, S)
    BY <1>2, <1>3, <1>10, <1>11, <1>12, FiledJoins
<1>14. Lfu!Indexed(m, k, next.index) = Lfu!Indexed(map, k, next.index)
    BY IndexedHolds DEF m
<1> QED
    BY <1>9, <1>13, <1>14 DEF X, R, c

\* Otherwise it takes it to an entry of its own.
LEMMA LfuMakesNext ==
    ASSUME NEW S, NEW map, NEW entries, Filed(map, Lists!Elements(entries), S),
           NEW a, NEW e, NEW b, Parted(entries, a, e, b, S), NEW k \in Lists!Elements(e.list),
           k \in S, NEW next \in Counts(S), next.count = e.count + 1,
           b # <<>> => Head(b).count # next.count,
           \A x \in Lists!Elements(entries) : x.index # next.index, next.list = <<k>>
    PROVE  LET R == Lfu!Reduced(e, k)
               X == Lists!Elements(a) \cup Lists!Elements(b) \cup Lists!Elements(R)
           IN  /\ Between(a, R, next, b, e, S)
               /\ Filed(Lfu!Indexed(map, k, next.index), X \cup {next}, S)
<1> DEFINE R == Lfu!Reduced(e, k)
           Y == Lists!Elements(a) \cup Lists!Elements(b)
           X == Y \cup Lists!Elements(R)
           m == Dropped(map, k)
<1>1. /\ a \in Seq(Counts(S)) /\ e \in Counts(S) /\ b \in Seq(Counts(S)) /\ Ranked(a) /\ Ranked(b)
      /\ Under(Lists!Elements(a), {e}) /\ Under({e}, Lists!Elements(b))
      /\ Under(Lists!Elements(a), Lists!Elements(b))
      /\ Lists!Elements(entries) = Y \cup {e} /\ \A x \in Y : x.index # e.index
    BY DEF Parted
<1>2. DropsFrom(R, m, Y, e, S)
  <2>1. Filed(map, Y \cup {e}, S)
    BY <1>1
  <2> HIDE DEF Y
  <2> QED
    BY <1>1, <2>1, FiledDrops
<1> HIDE DEF R, m
<1>3. /\ R \in Seq(Counts(S)) /\ Ranked(R) /\ Filed(m, X, S)
      /\ \A x \in Lists!Elements(R) : x.count = e.count /\ x.index = e.index
    BY <1>2, Zenon DEF DropsFrom
<1>4. e.count \in Nat /\ \A x \in Lists!Elements(a) \cup Lists!Elements(b) : x.count \in Nat
  <2>1. \A x \in Counts(S) : x.count \in Nat
    BY DEF Counts
  <2>2. \A s \in Seq(Counts(S)) : \A x \in Lists!Elements(s) : x \in Counts(S)
    BY DEF Lists!Elements
  <2> QED
    BY <1>1, <2>1, <2>2
<1>5. Under({e}, {next}) /\ Under(Lists!Elements(a), {next})
    BY <1>1, <1>4 DEF Under
<1>6. Under({next}, Lists!Elements(b))
  <2>1. b # <<>> => next.count < Head(b).count
    <3> SUFFICES ASSUME b # <<>> PROVE next.count < Head(b).count
        OBVIOUS
    <3>1. Head(b) \in Lists!Elements(b)
        BY <1>1, FrontHolds
    <3>2. e.count < Head(b).count /\ Head(b).count \in Nat
        BY <1>1, <1>4, <3>1 DEF Under
    <3> QED
        BY <1>4, <3>2
  <2>2. next.count \in Nat /\ \A x \in Lists!Elements(b) : x.index # next.index
    BY <1>1, <1>4
  <2> QED
    BY <1>1, <2>1, <2>2, UnderAll
<1>7. Between(a, R, next, b, e, S)
    BY <1>1, <1>3, <1>5, <1>6, Zenon DEF Between
<1>8. \A x \in X : x.index # next.index
    BY <1>1, <1>3
<1> HIDE DEF X
<1>9. k \notin DOMAIN m
    BY DEF m, Dropped
<1>10. Filed(Lfu!Indexed(m, k, next.index), X \cup {next}, S)
    BY <1>3, <1>8, <1>9, FiledAdds
<1>11. Lfu!Indexed(m, k, next.index) = Lfu!Indexed(map, k, next.index)
    BY IndexedHolds DEF m
<1> QED
    BY <1>7, <1>10, <1>11 DEF X, R

LEMMA LfuUpdates ==
    ASSUME NEW S, NEW stack, LfuShape(stack, S), NEW k \in S
    PROVE  /\ LfuShape(Lfu!Update(stack, k), S)
           /\ Lfu!Keys(Lfu!Update(stack, k)) = Lfu!Keys(stack)
           /\ IF k \in Lfu!Keys(stack)
              THEN \E Y : /\ Leaves(CountStacks(stack), Y, k, S)
                          /\ Comes(Y, CountStacks(Lfu!Update(stack, k)), k,
                                   Lfu!UsesOf(stack, k) + 1, S)
              ELSE Lfu!Update(stack, k) = stack
<1>1. PICK map, entries : LfuParts(stack, map, entries, S)
    BY DEF LfuShape
<1>2. /\ stack.index_map = map /\ stack.count_stacks = entries /\ Lfu!Keys(stack) = DOMAIN map
      /\ entries \in Seq(Counts(S)) /\ Ranked(entries) /\ Filed(map, Lists!Elements(entries), S)
    BY <1>1, LfuFields DEF LfuParts
<1>3. CASE k \notin DOMAIN map
    BY <1>2, <1>3 DEF Lfu!Update
<1>4. CASE k \in DOMAIN map
  <2> DEFINE i    == Lfu!EntryOf(stack, k)
             a    == SubSeq(entries, 1, i - 1)
             e    == entries[i]
             b    == SubSeq(entries, i + 1, Len(entries))
             next == Lfu!Joined(entries, i + 1, e.count + 1, k)
             joins == next.index \in {entries[j].index : j \in DOMAIN entries}
             c    == SubSeq(entries, IF joins THEN i + 2 ELSE i + 1, Len(entries))
             R    == Lfu!Reduced(e, k)
             m    == Lfu!Indexed(map, k, next.index)
             new  == ((a \o R) \o <<next>>) \o c
  <2>1. i \in 1 .. Len(entries) /\ k \in Lists!Elements(e.list)
    BY <1>1, <1>4, EntryHolds
  <2>2. Lfu!Update(stack, k) = Lfu2(m, new)
    BY <1>2, <1>4 DEF Lfu!Update, Lfu2
  <2>3. Parted(entries, a, e, b, S)
    BY <1>2, <2>1, PartedHolds
  <2>4. /\ i + 1 \in DOMAIN entries <=> b # <<>>
        /\ b # <<>> => /\ entries[i + 1] = Head(b)
                       /\ SubSeq(entries, i + 2, Len(entries)) = Tail(b)
    BY <1>2, <2>1, NextHolds
  <2>5. b \in Seq(Counts(S)) /\ e.count + 1 \in Nat \ {0} /\ e \in Counts(S)
    <3>1. b \in Seq(Counts(S)) /\ e \in Counts(S)
        BY <2>3 DEF Parted
    <3> HIDE DEF b, e
    <3> QED
        BY <3>1 DEF Counts
  <2>6. \/ joins /\ c = SubSeq(entries, i + 2, Len(entries))
        \/ ~joins /\ c = b
    OBVIOUS
  <2>7. joins <=> \E x \in Lists!Elements(entries) : x.index = next.index
    BY DEF Lists!Elements
  <2>8. /\ next \in Counts(S) /\ next.count = e.count + 1
        /\ \/ /\ b # <<>> /\ Head(b).count = e.count + 1
              /\ next.index = Head(b).index /\ next.list = Lists!PushFront(Head(b).list, k)
           \/ /\ b # <<>> => Head(b).count # e.count + 1
              /\ \A x \in Lists!Elements(entries) : x.index # next.index
              /\ next.list = <<k>>
    <3>1. JoinsOrNew(next, entries, b, e.count + 1, k, S)
      <4> HIDE DEF i, e, b
      <4> QED
        BY <1>2, <2>4, <2>5, JoinedHolds
    <3> HIDE DEF next, b, e
    <3> QED
        BY <3>1, Zenon DEF JoinsOrNew
  <2>17. Lfu!UsesOf(stack, k) = e.count
    BY <1>2 DEF Lfu!UsesOf
  <2> HIDE DEF i, a, e, b, next, joins, c, R, m
  <2> DEFINE X == Lists!Elements(a) \cup Lists!Elements(c) \cup Lists!Elements(R)
  <2>9. Between(a, R, next, c, e, S) /\ Filed(m, X \cup {next}, S)
    <3>1. CASE /\ b # <<>> /\ Head(b).count = e.count + 1 /\ next.index = Head(b).index
               /\ next.list = Lists!PushFront(Head(b).list, k)
      <4>1. Head(b) \in Lists!Elements(b) /\ Lists!Elements(b) \subseteq Lists!Elements(entries)
        BY <2>3, <2>5, <3>1, FrontHolds DEF Parted
      <4>2. c = Tail(b)
        BY <2>4, <2>6, <2>7, <3>1, <4>1
      <4>3. Head(b).count = next.count
        BY <2>8, <3>1
      <4> QED
        BY <1>2, <2>1, <2>3, <2>8, <3>1, <4>2, <4>3, LfuJoinsNext DEF R, m
    <3>2. CASE /\ b # <<>> => Head(b).count # e.count + 1
               /\ \A x \in Lists!Elements(entries) : x.index # next.index
               /\ next.list = <<k>>
      <4>1. c = b /\ (b # <<>> => Head(b).count # next.count)
        BY <2>6, <2>7, <2>8, <3>2
      <4> QED
        BY <1>2, <2>1, <2>3, <2>8, <3>2, <4>1, LfuMakesNext DEF R, m
    <3> QED
        BY <2>8, <3>1, <3>2, Zenon
  <2>10. /\ new \in Seq(Counts(S)) /\ Ranked(new) /\ Lists!Elements(new) = X \cup {next}
    <3>1. RowBetween(new, a, R, next, c, S)
        BY <2>9, BetweenHolds
    <3> HIDE DEF new
    <3> QED
        BY <3>1 DEF RowBetween, X
  <2> DEFINE Y == (Lists!Elements(a) \cup Lists!Elements(b)) \cup Lists!Elements(R)
  <2>13. Leaves(CountStacks(stack), Y, k, S)
    <3> DEFINE W == Lists!Elements(a) \cup Lists!Elements(b)
    <3>1. e \in Counts(S) /\ CountStacks(stack) = W \cup {e} /\ \A x \in W : x.index # e.index
        BY <1>2, <2>3 DEF CountStacks, Parted
    <3>2. W \in SUBSET Counts(S)
        BY <2>3, ElementsOf DEF Parted
    <3> HIDE DEF W
    <3>3. Y = W \cup Lists!Elements(Lfu!Reduced(e, k))
        BY DEF W, R
    <3> QED
        BY <2>1, <3>1, <3>2, <3>3 DEF Leaves
  <2>14. /\ X \in SUBSET Counts(S) /\ next \in Counts(S) /\ next.count = e.count + 1
         /\ \A x \in X : x.count # next.count
    <3>1. X \in SUBSET Counts(S)
        BY <2>9, ElementsOf DEF Between
    <3>2. \A x \in Counts(S) : x.count \in Nat
        BY DEF Counts
    <3>3. ASSUME NEW x \in X PROVE x.count # next.count
        <4>1. x.count \in Nat /\ next.count \in Nat /\ e.count \in Nat
            BY <2>5, <2>8, <3>1, <3>2
        <4>2. CASE x \in Lists!Elements(a)
            BY <2>9, <4>1, <4>2 DEF Between, Under
        <4>3. CASE x \in Lists!Elements(c)
            BY <2>9, <4>1, <4>3 DEF Between, Under
        <4>4. CASE x \in Lists!Elements(R)
            BY <2>8, <2>9, <4>1, <4>4 DEF Between
        <4> QED
            BY <4>2, <4>3, <4>4
    <3> QED
        BY <2>8, <3>1, <3>3
  <2>15. \/ Y = X /\ next.list = <<k>>
         \/ \E f \in Counts(S) : /\ Y = X \cup {f} /\ f.count = next.count
                                 /\ next.list = Lists!PushFront(f.list, k)
    <3>1. CASE /\ b # <<>> /\ Head(b).count = e.count + 1 /\ next.index = Head(b).index
               /\ next.list = Lists!PushFront(Head(b).list, k)
      <4>1. /\ Head(b) \in Lists!Elements(b) /\ Lists!Elements(b) \subseteq Lists!Elements(entries)
            /\ Head(b) \in Counts(S) /\ Lists!Elements(b) = Lists!Elements(Tail(b)) \cup {Head(b)}
        BY <2>3, <2>5, <3>1, FrontHolds DEF Parted
      <4>2. c = Tail(b)
        BY <2>4, <2>6, <2>7, <3>1, <4>1
      <4>3. Y = X \cup {Head(b)}
        BY <4>1, <4>2
      <4> QED
        BY <2>8, <3>1, <4>1, <4>3
    <3>2. CASE /\ b # <<>> => Head(b).count # e.count + 1
               /\ \A x \in Lists!Elements(entries) : x.index # next.index
               /\ next.list = <<k>>
      <4>1. c = b
        BY <2>6, <2>7, <3>2
      <4> QED
        BY <3>2, <4>1
    <3> QED
        BY <2>8, <3>1, <3>2, Zenon
  <2> HIDE DEF new, X, Y
  <2>16. Comes(Y, CountStacks(Lfu!Update(stack, k)), k, Lfu!UsesOf(stack, k) + 1, S)
    <3>1. CountStacks(Lfu!Update(stack, k)) = X \cup {next}
        BY <2>2, <2>10, LfuFields DEF CountStacks
    <3>2. Comes(Y, X \cup {next}, k, next.count, S)
        BY <2>14, <2>15 DEF Comes
    <3> QED
        BY <2>14, <2>17, <3>1, <3>2
  <2>11. LfuParts(Lfu!Update(stack, k), m, new, S)
    BY <2>2, <2>9, <2>10, Zenon DEF LfuParts
  <2>12. DOMAIN m = DOMAIN map
    <3>1. MadeOf(m, map, k, next.index)
        BY IndexedHolds DEF m
    <3> QED
        BY <1>4, <3>1 DEF MadeOf
  <2> QED
    BY <1>2, <1>4, <2>11, <2>12, <2>13, <2>16, LfuMakes
<1> QED
    BY <1>3, <1>4

LEMMA LfuInserts ==
    ASSUME NEW S, NEW stack, LfuShape(stack, S), NEW k \in S
    PROVE  /\ LfuShape(Lfu!Insert(stack, k), S)
           /\ Lfu!Keys(Lfu!Insert(stack, k)) = Lfu!Keys(stack) \cup {k}
           /\ k \notin Lfu!Keys(stack) =>
                  Comes(CountStacks(stack), CountStacks(Lfu!Insert(stack, k)), k, 1, S)
<1>1. PICK map, entries : LfuParts(stack, map, entries, S)
    BY DEF LfuShape
<1>2. /\ stack.index_map = map /\ stack.count_stacks = entries /\ Lfu!Keys(stack) = DOMAIN map
      /\ entries \in Seq(Counts(S)) /\ Ranked(entries) /\ Filed(map, Lists!Elements(entries), S)
    BY <1>1, LfuFields DEF LfuParts
<1>3. CASE k \in DOMAIN map
    BY <1>2, <1>3, LfuUpdates DEF Lfu!Insert
<1>4. CASE k \notin DOMAIN map
  <2> DEFINE next  == Lfu!Joined(entries, 1, 1, k)
             joins == entries # <<>> /\ next.index = Head(entries).index
             c     == IF joins THEN Tail(entries) ELSE entries
             o     == <<next>>
             m     == Lfu!Indexed(map, k, next.index)
             new   == o \o c
  <2>1. Lfu!Insert(stack, k) = Lfu2(m, new)
    BY <1>2, <1>4 DEF Lfu!Insert, Lfu2
  <2>2. 1 \in DOMAIN entries <=> entries # <<>>
    BY <1>2, EmptySeq
  <2>3. entries # <<>> => /\ entries[1] = Head(entries)
                          /\ Head(entries) \in Counts(S) /\ Tail(entries) \in Seq(Counts(S))
                          /\ entries = <<Head(entries)>> \o Tail(entries)
                          /\ Lists!Elements(entries)
                               = Lists!Elements(Tail(entries)) \cup {Head(entries)}
    <3> SUFFICES ASSUME entries # <<>> PROVE /\ entries[1] = Head(entries)
                          /\ Head(entries) \in Counts(S) /\ Tail(entries) \in Seq(Counts(S))
                          /\ entries = <<Head(entries)>> \o Tail(entries)
                          /\ Lists!Elements(entries)
                               = Lists!Elements(Tail(entries)) \cup {Head(entries)}
        OBVIOUS
    <3>1. /\ Head(entries) \in Counts(S) /\ Tail(entries) \in Seq(Counts(S))
          /\ Lists!Elements(entries) = Lists!Elements(Tail(entries)) \cup {Head(entries)}
        BY <1>2, FrontHolds
    <3>2. entries[1] = Head(entries) /\ entries = <<Head(entries)>> \o Tail(entries)
        BY <1>2
    <3> QED
        BY <3>1, <3>2
  <2>4. /\ next \in Counts(S) /\ next.count = 1
        /\ \/ /\ entries # <<>> /\ Head(entries).count = 1
              /\ next.index = Head(entries).index
              /\ next.list = Lists!PushFront(Head(entries).list, k)
           \/ /\ entries # <<>> => Head(entries).count # 1
              /\ \A x \in Lists!Elements(entries) : x.index # next.index
              /\ next.list = <<k>>
    <3>1. JoinsOrNew(next, entries, entries, 1, k, S)
      <4> DEFINE one == 1
      <4>1. one \in Nat \ {0} /\ (entries # <<>> => entries[one] = Head(entries))
        BY <2>3
      <4>2. one \in DOMAIN entries <=> entries # <<>>
        BY <2>2
      <4> HIDE DEF one
      <4>3. JoinsOrNew(Lfu!Joined(entries, one, one, k), entries, entries, one, k, S)
        BY <1>2, <4>1, <4>2, JoinedHolds
      <4> QED
        BY <4>3 DEF one
    <3> HIDE DEF next
    <3> QED
        BY <3>1, Zenon DEF JoinsOrNew
  <2>5. \/ joins /\ c = Tail(entries)
        \/ ~joins /\ c = entries
    OBVIOUS
  <2>6. o \in Seq(Counts(S)) /\ Lists!Elements(o) = {next} /\ Ranked(o)
    BY <2>4, OneHolds, RankedFew
  <2>7. joins <=> entries # <<>> /\ next.index = Head(entries).index
    OBVIOUS
  <2> HIDE DEF next, joins, c, o, m
  <2>8. /\ c \in Seq(Counts(S)) /\ Ranked(c) /\ Under({next}, Lists!Elements(c))
        /\ Filed(m, Lists!Elements(c) \cup {next}, S)
        /\ \/ Lists!Elements(entries) = Lists!Elements(c) /\ next.list = <<k>>
           \/ \E f \in Counts(S) : /\ Lists!Elements(entries) = Lists!Elements(c) \cup {f}
                                   /\ f.count = 1 /\ next.list = Lists!PushFront(f.list, k)
    <3>1. CASE /\ entries # <<>> /\ Head(entries).count = 1 /\ next.index = Head(entries).index
               /\ next.list = Lists!PushFront(Head(entries).list, k)
      <4> DEFINE f == Head(entries)
      <4>1. c = Tail(entries) /\ f \in Counts(S) /\ c \in Seq(Counts(S))
        BY <2>3, <2>5, <2>7, <3>1
      <4>2. entries = <<f>> \o c /\ Lists!Elements(entries) = Lists!Elements(c) \cup {f}
        BY <2>3, <3>1, <4>1
      <4>3. f.count = next.count /\ f.index = next.index /\ next.list = Lists!PushFront(f.list, k)
        BY <2>4, <3>1
      <4> HIDE DEF f
      <4>4. Ranked(c) /\ Under({f}, Lists!Elements(c))
        BY <1>2, <4>1, <4>2, RankedFirst
      <4>5. Under({next}, Lists!Elements(c)) /\ \A x \in Lists!Elements(c) : x.index # f.index
        BY <4>3, <4>4 DEF Under
      <4>6. Filed(map, Lists!Elements(c) \cup {f}, S)
        BY <1>2, <4>2
      <4>7. Filed(m, Lists!Elements(c) \cup {next}, S)
        BY <1>4, <4>1, <4>3, <4>5, <4>6, FiledJoins DEF m
      <4> QED
        BY <2>4, <4>1, <4>2, <4>3, <4>4, <4>5, <4>7
    <3>2. CASE /\ entries # <<>> => Head(entries).count # 1
               /\ \A x \in Lists!Elements(entries) : x.index # next.index
               /\ next.list = <<k>>
      <4>1. c = entries
        <5>1. entries # <<>> => Head(entries) \in Lists!Elements(entries)
            BY <2>3
        <5> QED
            BY <2>5, <2>7, <3>2, <5>1
      <4>2. entries # <<>> => next.count < Head(entries).count
        BY <2>3, <2>4, <3>2 DEF Counts
      <4>3. Under({next}, Lists!Elements(entries))
        BY <1>2, <2>4, <3>2, <4>2, UnderAll
      <4>4. Filed(m, Lists!Elements(entries) \cup {next}, S)
        BY <1>2, <1>4, <3>2, FiledAdds DEF m
      <4> QED
        BY <1>2, <3>2, <4>1, <4>3, <4>4
    <3> QED
        BY <2>4, <3>1, <3>2, Zenon
  <2>9. /\ new \in Seq(Counts(S)) /\ Ranked(new)
        /\ Lists!Elements(new) = {next} \cup Lists!Elements(c)
    BY <2>6, <2>8, ConcatHolds, RankedConcat
  <2>10. Lists!Elements(new) = Lists!Elements(c) \cup {next}
    BY <2>9
  <2> HIDE DEF new
  <2>11. LfuParts(Lfu!Insert(stack, k), m, new, S)
    BY <2>1, <2>8, <2>9, <2>10, Zenon DEF LfuParts
  <2>12. DOMAIN m = DOMAIN map \cup {k}
    BY IndexedHolds DEF m, MadeOf
  <2>13. Comes(CountStacks(stack), CountStacks(Lfu!Insert(stack, k)), k, 1, S)
    <3>1. CountStacks(stack) = Lists!Elements(entries)
        BY <1>2 DEF CountStacks
    <3>2. CountStacks(Lfu!Insert(stack, k)) = Lists!Elements(c) \cup {next}
        BY <2>1, <2>10, LfuFields DEF CountStacks
    <3> DEFINE X == Lists!Elements(c)
    <3>3. X \in SUBSET Counts(S) /\ \A x \in X : x.count # 1
        <4>1. X \in SUBSET Counts(S)
            BY <2>8, ElementsOf
        <4>2. \A x \in Counts(S) : x.count \in Nat
            BY DEF Counts
        <4> QED
            BY <2>4, <2>8, <4>1, <4>2 DEF Under
    <3> HIDE DEF X
    <3>4. \/ Lists!Elements(entries) = X /\ next.list = <<k>>
          \/ \E f \in Counts(S) : /\ Lists!Elements(entries) = X \cup {f}
                                  /\ f.count = 1 /\ next.list = Lists!PushFront(f.list, k)
        BY <2>8 DEF X
    <3>5. Comes(Lists!Elements(entries), X \cup {next}, k, 1, S)
        BY <2>4, <3>3, <3>4 DEF Comes
    <3> QED
        BY <3>1, <3>2, <3>5 DEF X
  <2> QED
    BY <1>2, <2>11, <2>12, <2>13, LfuMakes
<1> QED
    BY <1>3, <1>4

LEMMA LfuEvicts ==
    ASSUME NEW S, NEW stack, LfuShape(stack, S)
    PROVE  /\ LfuShape(Lfu!EvictOne(stack).stack, S)
           /\ GivesUp(Lfu!EvictOne(stack), Lfu!Keys(stack), Lfu!Keys(Lfu!EvictOne(stack).stack))
           /\ Lfu!Keys(stack) = {} => Lfu!EvictOne(stack).stack = stack
           /\ Lfu!Keys(stack) # {} =>
                  /\ Leaves(CountStacks(stack), CountStacks(Lfu!EvictOne(stack).stack),
                            Lfu!EvictOne(stack).key, S)
                  /\ \E e \in CountStacks(stack) :
                         /\ Lfu!EvictOne(stack).key = Lists!Back(e.list)
                         /\ \A x \in CountStacks(stack) : x = e \/ e.count < x.count
<1>1. PICK map, entries : LfuParts(stack, map, entries, S)
    BY DEF LfuShape
<1>2. /\ stack.index_map = map /\ stack.count_stacks = entries /\ Lfu!Keys(stack) = DOMAIN map
      /\ entries \in Seq(Counts(S)) /\ Ranked(entries) /\ Filed(map, Lists!Elements(entries), S)
    BY <1>1, LfuFields DEF LfuParts
<1>3. CASE entries = <<>>
  <2>1. Lists!Elements(entries) = {}
    BY <1>3, EmptyHolds
  <2>2. DOMAIN map = {}
    BY <1>2, <2>1 DEF Filed
  <2>3. Lfu!EvictOne(stack).key = NoKey /\ Lfu!EvictOne(stack).stack = stack
    BY <1>2, <1>3 DEF Lfu!EvictOne, Lfu!Evicting
  <2> QED
    BY <1>2, <2>2, <2>3 DEF GivesUp
<1>4. CASE entries # <<>>
  <2> DEFINE e   == Head(entries)
             c   == Tail(entries)
             k   == Lists!Back(e.list)
             R   == Lfu!Reduced(e, k)
             m   == Dropped(map, k)
             new == R \o c
  <2>1. /\ Lfu!EvictOne(stack).key = k /\ Lfu!EvictOne(stack).stack = Lfu2(m, new)
    BY <1>2, <1>4, LfuLists DEF Lfu!EvictOne, Lfu!Evicting, Lfu2, Dropped
  <2>2. /\ e \in Counts(S) /\ c \in Seq(Counts(S)) /\ entries = <<e>> \o c
        /\ Lists!Elements(entries) = Lists!Elements(c) \cup {e}
    <3>1. e \in Counts(S) /\ c \in Seq(Counts(S)) /\ Lists!Elements(entries) = Lists!Elements(c) \cup {e}
        BY <1>2, <1>4, FrontHolds
    <3>2. entries = <<e>> \o c
        BY <1>2, <1>4
    <3> QED
        BY <3>1, <3>2
  <2> HIDE DEF e, c
  <2>3. Ranked(c) /\ Under({e}, Lists!Elements(c))
    BY <1>2, <2>2, RankedFirst
  <2>4. KeyList(e.list, S) /\ e.list # <<>> /\ \A j \in Lists!Elements(e.list) : j \in DOMAIN map
    BY <1>2, <2>2 DEF Filed
  <2>5. k \in Lists!Elements(e.list)
    <3>1. e.list \in Seq(S) /\ e.list # <<>>
        BY <2>4 DEF KeyList
    <3>2. Lists!Elements(e.list) = Lists!Elements(Lists!WithoutBack(e.list)) \cup {k}
        BY <3>1, BackHolds
    <3> QED
        BY <3>2
  <2> HIDE DEF k
  <2>6. DropsFrom(R, m, Lists!Elements(c), e, S)
    <3>1. Filed(map, Lists!Elements(c) \cup {e}, S) /\ \A x \in Lists!Elements(c) : x.index # e.index
        BY <1>2, <2>2, <2>3 DEF Under
    <3> QED
        BY <2>2, <2>5, <3>1, FiledDrops
  <2> HIDE DEF R, m
  <2>7. /\ R \in Seq(Counts(S)) /\ Ranked(R) /\ Filed(m, Lists!Elements(c) \cup Lists!Elements(R), S)
        /\ \A x \in Lists!Elements(R) : x.count = e.count /\ x.index = e.index
    BY <2>6, Zenon DEF DropsFrom
  <2>8. Under(Lists!Elements(R), Lists!Elements(c))
    BY <2>3, <2>7 DEF Under
  <2>9. /\ new \in Seq(Counts(S)) /\ Ranked(new)
        /\ Lists!Elements(new) = Lists!Elements(R) \cup Lists!Elements(c)
    BY <2>2, <2>3, <2>7, <2>8, ConcatHolds, RankedConcat
  <2>10. Lists!Elements(new) = Lists!Elements(c) \cup Lists!Elements(R)
    BY <2>9
  <2> HIDE DEF new
  <2>11. LfuParts(Lfu!EvictOne(stack).stack, m, new, S)
    BY <2>1, <2>7, <2>9, <2>10, Zenon DEF LfuParts
  <2>12. LfuShape(Lfu!EvictOne(stack).stack, S) /\ Lfu!Keys(Lfu!EvictOne(stack).stack) = DOMAIN m
    BY <2>11, LfuMakes
  <2>13. DOMAIN m = DOMAIN map \ {k} /\ k \in DOMAIN map
    BY <2>4, <2>5 DEF m, Dropped
  <2> DEFINE X == Lists!Elements(c)
  <2>14. /\ CountStacks(stack) = X \cup {e} /\ X \in SUBSET Counts(S)
         /\ \A x \in X : x.index # e.index /\ e.count < x.count
    BY <1>2, <2>2, <2>3, ElementsOf DEF CountStacks, Under
  <2>15. CountStacks(Lfu!EvictOne(stack).stack) = X \cup Lists!Elements(Lfu!Reduced(e, k))
    BY <2>1, <2>10, LfuFields DEF CountStacks, R
  <2> HIDE DEF X
  <2>16. Leaves(CountStacks(stack), CountStacks(Lfu!EvictOne(stack).stack), k, S)
    BY <2>2, <2>5, <2>14, <2>15 DEF Leaves
  <2>17. \E x \in CountStacks(stack) :
             /\ k = Lists!Back(x.list)
             /\ \A y \in CountStacks(stack) : y = x \/ x.count < y.count
    BY <2>14 DEF k
  <2> QED
    BY <1>2, <2>1, <2>12, <2>13, <2>16, <2>17 DEF GivesUp
<1> QED
    BY <1>3, <1>4

LEMMA LfuStarts ==
    ASSUME NEW S
    PROVE  LfuShape(Lfu!New, S) /\ Lfu!Keys(Lfu!New) = {}
<1> DEFINE none == [k \in {} |-> 0]
<1>1. Lfu!New = Lfu2(none, <<>>)
    BY DEF Lfu!New, Lfu2
<1>2. DOMAIN none = {} /\ none = [k \in DOMAIN none |-> none[k]]
    OBVIOUS
<1> HIDE DEF none
<1>3. Filed(none, Lists!Elements(<<>>), S) /\ Ranked(<<>>) /\ <<>> \in Seq(Counts(S))
    BY <1>2, EmptyHolds, RankedFew DEF Filed
<1>4. LfuParts(Lfu!New, none, <<>>, S)
    BY <1>1, <1>3 DEF LfuParts
<1> QED
    BY <1>2, <1>4, LfuMakes

LEMMA LfuConsistent ==
    ASSUME NEW S, NEW stack, LfuShape(stack, S)
    PROVE  Lfu!Consistent(stack)
<1>1. PICK map, entries : LfuParts(stack, map, entries, S)
    BY DEF LfuShape
<1>2. /\ stack.index_map = map /\ stack.count_stacks = entries /\ Lfu!Keys(stack) = DOMAIN map
      /\ entries \in Seq(Counts(S)) /\ Ranked(entries) /\ Filed(map, Lists!Elements(entries), S)
    BY <1>1, LfuFields DEF LfuParts
<1>3. \A k \in DOMAIN map : \E i \in DOMAIN entries :
          entries[i].index = map[k] /\ k \in Lists!Elements(entries[i].list)
    BY <1>2 DEF Filed, Lists!Elements
<1>4. \A i \in DOMAIN entries :
          /\ entries[i].list # <<>>
          /\ \A j \in DOMAIN entries : i < j => entries[i].count < entries[j].count
          /\ \A k \in Lists!Elements(entries[i].list) : k \in DOMAIN map /\ map[k] = entries[i].index
  <2> SUFFICES ASSUME NEW i \in DOMAIN entries
               PROVE  /\ entries[i].list # <<>>
                      /\ \A j \in DOMAIN entries : i < j => entries[i].count < entries[j].count
                      /\ \A k \in Lists!Elements(entries[i].list) :
                             k \in DOMAIN map /\ map[k] = entries[i].index
    OBVIOUS
  <2>1. entries[i] \in Lists!Elements(entries)
    BY DEF Lists!Elements
  <2>2. \A j \in DOMAIN entries : i < j => entries[i].count < entries[j].count
    BY <1>2 DEF Ranked
  <2> QED
    BY <1>2, <2>1, <2>2 DEF Filed
<1> QED
    BY <1>2, <1>3, <1>4, LfuLists DEF Lfu!Consistent

-----------------------------------------------------------------------------
(***************************************************************************)
(* The sizes                                                               *)
(***************************************************************************)

\* The keys of some lists, one behind the other.
LEMMA KeysApart ==
    ASSUME NEW O, NEW S, Keyed(O, S), NEW a \in Seq(O), NEW b \in Seq(S), Apart(a), Once(b),
           Lists!KeysOf(a) \cap Lists!Elements(b) = {}
    PROVE  /\ InKeyOrder(a) \in Seq(S) /\ Lists!Elements(InKeyOrder(a)) = Lists!KeysOf(a)
           /\ b \o InKeyOrder(a) \in Seq(S) /\ Once(b \o InKeyOrder(a))
           /\ Lists!Elements(b \o InKeyOrder(a)) = Lists!Elements(b) \cup Lists!KeysOf(a)
<1> DEFINE k == InKeyOrder(a)
<1>1. k \in Seq(S) /\ Lists!Elements(k) = Lists!KeysOf(a) /\ Once(k)
    BY KeyOrder DEF Apart
<1> HIDE DEF k
<1>2. /\ b \o k \in Seq(S) /\ Lists!Elements(b \o k) = Lists!Elements(b) \cup Lists!Elements(k)
      /\ Once(b \o k) <=> Once(b) /\ Once(k) /\ Lists!Elements(b) \cap Lists!Elements(k) = {}
    BY <1>1, ConcatHolds
<1>3. Lists!Elements(b) \cap Lists!Elements(k) = {}
    BY <1>1
<1> QED
    BY <1>1, <1>2, <1>3 DEF k

LEMMA TwoQConsistent ==
    ASSUME NEW S, NEW stack, TwoQShape(stack, S)
    PROVE  TwoQ!Consistent(stack)
<1> DEFINE in  == stack.a1_in
           out == stack.a1_out
           am  == stack.am
           p   == InKeyOrder(in.list)
           q   == p \o InKeyOrder(out.list)
           r   == q \o InKeyOrder(am.list)
<1>1. /\ SizedList(in, Entries(S)) /\ SizedList(out, Entries(S)) /\ SizedList(am, Entries(S))
      /\ KeysHeld(in) \cap KeysHeld(out) = {} /\ KeysHeld(in) \cap KeysHeld(am) = {}
      /\ KeysHeld(out) \cap KeysHeld(am) = {} /\ Keyed(Entries(S), S)
    BY EntriesSound DEF TwoQShape, TwoQLists, Sound
<1>2. \A st : /\ SizedList(st, Entries(S)) => TwoQ!SumKept(st)
              /\ TwoQ!KeySeq(st) = InKeyOrder(st.list)
    BY TwoQOperators DEF SizedList, TwoQ!SumKept, TwoQ!KeySeq, InKeyOrder
<1>3. /\ in.list \in Seq(Entries(S)) /\ out.list \in Seq(Entries(S)) /\ am.list \in Seq(Entries(S))
      /\ Apart(in.list) /\ Apart(out.list) /\ Apart(am.list)
    BY <1>1 DEF SizedList
<1> HIDE DEF in, out, am
<1>4. p \in Seq(S) /\ Once(p) /\ Lists!Elements(p) = KeysHeld(in)
    BY <1>1, <1>3, KeyOrder DEF Apart, KeysHeld
<1> HIDE DEF p
<1>5. q \in Seq(S) /\ Once(q) /\ Lists!Elements(q) = KeysHeld(in) \cup KeysHeld(out)
  <2>1. Lists!KeysOf(out.list) \cap Lists!Elements(p) = {}
    BY <1>1, <1>4 DEF KeysHeld
  <2> QED
    BY <1>1, <1>3, <1>4, <2>1, KeysApart DEF KeysHeld
<1> HIDE DEF q
<1>6. Once(r)
  <2>1. Lists!KeysOf(am.list) \cap Lists!Elements(q) = {}
    BY <1>1, <1>5 DEF KeysHeld
  <2> QED
    BY <1>1, <1>3, <1>5, <2>1, KeysApart
<1>7. TwoQ!NoRepeats(r)
    BY <1>6 DEF Once, Lists!NoRepeats, TwoQ!NoRepeats
<1>8. r = TwoQ!KeySeq(in) \o TwoQ!KeySeq(out) \o TwoQ!KeySeq(am)
    BY <1>2 DEF q, p
<1> HIDE DEF r
<1>9. /\ TwoQ!SumKept(in) /\ TwoQ!SumKept(out) /\ TwoQ!SumKept(am)
      /\ TwoQ!NoRepeats(TwoQ!KeySeq(in) \o TwoQ!KeySeq(out) \o TwoQ!KeySeq(am))
    BY <1>1, <1>2, <1>7, <1>8
<1> QED
    BY <1>9 DEF TwoQ!Consistent, in, out, am

LEMMA ArcConsistent ==
    ASSUME NEW S, NEW M, NEW stack, ArcShape(stack, S, M)
    PROVE  Arc!Consistent(stack)
<1> DEFINE t1 == stack.t1
           t2 == stack.t2
           b1 == stack.b1
           b2 == stack.b2
           p  == InKeyOrder(t1.list)
           q  == p \o InKeyOrder(t2.list)
           r  == q \o InKeyOrder(b1.list)
           s  == r \o InKeyOrder(b2.list)
<1>1. /\ SizedList(t1, Entries(S)) /\ SizedList(t2, Entries(S))
      /\ SizedList(b1, Entries(S)) /\ SizedList(b2, Entries(S))
      /\ KeysHeld(t1) \cap KeysHeld(t2) = {} /\ KeysHeld(b1) \cap KeysHeld(b2) = {}
      /\ (KeysHeld(t1) \cup KeysHeld(t2)) \cap (KeysHeld(b1) \cup KeysHeld(b2)) = {}
      /\ Keyed(Entries(S), S)
    BY EntriesSound DEF ArcShape, ArcLists, Sound
<1>2. \A st : /\ SizedList(st, Entries(S)) => Arc!SumKept(st)
              /\ Arc!KeySeq(st) = InKeyOrder(st.list)
  <2>1. \A l : Arc!SumOfSizes(l) = Lists!SumOfSizes(l)
    BY DEF Arc!SumOfSizes, Lists!SumOfSizes
  <2> QED
    BY <2>1 DEF SizedList, Arc!SumKept, Arc!KeySeq, InKeyOrder
<1>3. /\ t1.list \in Seq(Entries(S)) /\ t2.list \in Seq(Entries(S))
      /\ b1.list \in Seq(Entries(S)) /\ b2.list \in Seq(Entries(S))
      /\ Apart(t1.list) /\ Apart(t2.list) /\ Apart(b1.list) /\ Apart(b2.list)
    BY <1>1 DEF SizedList
<1> HIDE DEF t1, t2, b1, b2
<1>4. p \in Seq(S) /\ Once(p) /\ Lists!Elements(p) = KeysHeld(t1)
    BY <1>1, <1>3, KeyOrder DEF Apart, KeysHeld
<1> HIDE DEF p
<1>5. q \in Seq(S) /\ Once(q) /\ Lists!Elements(q) = KeysHeld(t1) \cup KeysHeld(t2)
  <2>1. Lists!KeysOf(t2.list) \cap Lists!Elements(p) = {}
    BY <1>1, <1>4 DEF KeysHeld
  <2> QED
    BY <1>1, <1>3, <1>4, <2>1, KeysApart DEF KeysHeld
<1> HIDE DEF q
<1>6. /\ r \in Seq(S) /\ Once(r)
      /\ Lists!Elements(r) = (KeysHeld(t1) \cup KeysHeld(t2)) \cup KeysHeld(b1)
  <2>1. Lists!KeysOf(b1.list) \cap Lists!Elements(q) = {}
    BY <1>1, <1>5 DEF KeysHeld
  <2> QED
    BY <1>1, <1>3, <1>5, <2>1, KeysApart DEF KeysHeld
<1> HIDE DEF r
<1>7. Once(s)
  <2>1. Lists!KeysOf(b2.list) \cap Lists!Elements(r) = {}
    BY <1>1, <1>6 DEF KeysHeld
  <2> QED
    BY <1>1, <1>3, <1>6, <2>1, KeysApart
<1>8. Arc!NoRepeats(s)
    BY <1>7 DEF Once, Lists!NoRepeats, Arc!NoRepeats
<1>9. s = Arc!KeySeq(t1) \o Arc!KeySeq(t2) \o Arc!KeySeq(b1) \o Arc!KeySeq(b2)
    BY <1>2 DEF r, q, p
<1> HIDE DEF s
<1>10. /\ Arc!SumKept(t1) /\ Arc!SumKept(t2) /\ Arc!SumKept(b1) /\ Arc!SumKept(b2)
       /\ Arc!NoRepeats(Arc!KeySeq(t1) \o Arc!KeySeq(t2) \o Arc!KeySeq(b1) \o Arc!KeySeq(b2))
    BY <1>1, <1>2, <1>8, <1>9
<1> QED
    BY <1>10 DEF Arc!Consistent, t1, t2, b1, b2

LEMMA SThreeConsistent ==
    ASSUME NEW S, NEW M \in SUBSET Nat, NEW stack, SThreeShape(stack, S, M)
    PROVE  SThree!Consistent(stack)
<1> DEFINE small == stack.small
           main  == stack.main
           ghost == stack.ghost
           p     == InKeyOrder(small.list)
           q     == p \o InKeyOrder(main.list)
<1>1. /\ SizedList(small, Counted(S)) /\ SizedList(main, Counted(S))
      /\ KeysHeld(small) \cap KeysHeld(main) = {} /\ Keyed(Counted(S), S)
      /\ Once(ghost) /\ KeysHeld(small) \cap Lists!Elements(ghost) = {}
    BY CountedSound DEF SThreeShape, SThreeLists, Sound, KeyList
<1>2. \A st : /\ SizedList(st, Counted(S)) => SThree!SumKept(st)
              /\ SThree!KeySeq(st) = InKeyOrder(st.list)
    BY SThreeOperators DEF SizedList, SThree!SumKept, SThree!KeySeq, InKeyOrder
<1>3. /\ small.list \in Seq(Counted(S)) /\ main.list \in Seq(Counted(S))
      /\ Apart(small.list) /\ Apart(main.list)
    BY <1>1 DEF SizedList
<1> HIDE DEF small, main, ghost
<1>4. p \in Seq(S) /\ Once(p) /\ Lists!Elements(p) = KeysHeld(small)
    BY <1>1, <1>3, KeyOrder DEF Apart, KeysHeld
<1> HIDE DEF p
<1>5. Once(q)
  <2>1. Lists!KeysOf(main.list) \cap Lists!Elements(p) = {}
    BY <1>1, <1>4 DEF KeysHeld
  <2> QED
    BY <1>1, <1>3, <1>4, <2>1, KeysApart
<1>6. SThree!NoRepeats(q) /\ SThree!NoRepeats(ghost)
    BY <1>1, <1>5 DEF Once, Lists!NoRepeats, SThree!NoRepeats
<1>7. q = SThree!KeySeq(small) \o SThree!KeySeq(main)
    BY <1>2 DEF p
<1> HIDE DEF q
<1>8. \A k \in SThree!KeysOf(small.list) : ~SThree!Has(ghost, k)
    BY <1>1, SThreeOperators DEF KeysHeld, SThree!KeysOf, Lists!KeysOf
<1>9. /\ SThree!SumKept(small) /\ SThree!SumKept(main)
      /\ SThree!NoRepeats(SThree!KeySeq(small) \o SThree!KeySeq(main)) /\ SThree!NoRepeats(ghost)
      /\ \A k \in SThree!KeysOf(small.list) : ~SThree!Has(ghost, k)
    BY <1>1, <1>2, <1>6, <1>7, <1>8
<1> QED
    BY <1>9 DEF SThree!Consistent, small, main, ghost

-----------------------------------------------------------------------------
(***************************************************************************)
(* What the calls do, whatever the policy                                  *)
(***************************************************************************)

\* The sizes that main of an s3-fifo stack can have.
MainSizes(C) == {SThree!MainSize(max_size) : max_size \in C}

\* What holds of the stack of a policy between any two calls.
Sane(p, st, S, C) ==
    /\ p \in {"fifo", "lru"} => KeyList(st, S)
    /\ p = "mru"     => MruStack(st, S)
    /\ p = "clock"   => ClockList(st, S)
    /\ p = "sieve"   => SieveList(st, S)
    /\ p = "lfu"     => LfuShape(st, S)
    /\ p = "2q"      => TwoQShape(st, S)
    /\ p = "s3-fifo" => SThreeShape(st, S, MainSizes(C))
    /\ p = "arc"     => ArcShape(st, S, C)

\* No key of S is the one that stands for none, and the sizes of C are sizes.
Fits(S, C) == NoKey \notin S /\ C \in SUBSET Nat

LEMMA MainSizesAreNat ==
    ASSUME NEW C \in SUBSET Nat
    PROVE  /\ MainSizes(C) \in SUBSET Nat
           /\ \A max_size \in C : SThree!MainSize(max_size) \in MainSizes(C)
<1>1. ASSUME NEW max_size \in C PROVE SThree!MainSize(max_size) \in Nat
  <2> DEFINE share == (Scale - Ratio) * max_size
  <2>1. Scale \in Nat \ {0} /\ Scale - Ratio \in Nat /\ max_size \in Nat
    BY RatiosAssumption
  <2>2. share \in Nat
    BY <2>1
  <2> HIDE DEF share
  <2>3. share \div Scale \in Nat
    BY <2>1, <2>2
  <2> QED
    BY <2>3 DEF share, SThree!MainSize
<1> QED
    BY <1>1 DEF MainSizes

\* The keys after a call: just those, or, for an mru stack, at least those.
Then(p, st, keys, S, C) ==
    /\ Sane(p, st, S, C)
    /\ p # "mru" => KeysIn(p, st) = keys
    /\ keys \subseteq KeysIn(p, st)

\* The policies whose stacks know no sizes start with no key, whatever the size.
LEMMA UnsizedNewIsSane ==
    ASSUME NEW p \in Policies \ {"2q", "s3-fifo", "arc"}, NEW S, NEW C, NEW max_size
    PROVE  Then(p, New(p, max_size), {}, S, C)
<1> DEFINE st == New(p, max_size)
<1>1. CASE p = "fifo"
  <2>1. st = <<>> /\ KeyList(st, S) /\ Fifo!Elements(st) = {}
    BY <1>1, EmptyHolds, FifoLists DEF New, Fifo!New, KeyList
  <2> QED
    BY <1>1, <2>1 DEF Then, Sane, KeysIn
<1>2. CASE p = "lru"
  <2>1. st = <<>> /\ KeyList(st, S) /\ Lru!Elements(st) = {}
    BY <1>2, EmptyHolds, LruLists DEF New, Lru!New, KeyList
  <2> QED
    BY <1>2, <2>1 DEF Then, Sane, KeysIn
<1>3. CASE p = "mru"
  <2>1. MruStack(st, S)
    BY <1>3, MruStarts DEF New
  <2> QED
    BY <1>3, <2>1 DEF Then, Sane
<1>4. CASE p = "clock"
  <2>1. st = <<>> /\ ClockList(st, S) /\ Clock!Keys(st) = {}
    BY <1>4, KeyOrderEmpty, ClockLists DEF New, Clock!New, ClockList
  <2> QED
    BY <1>4, <2>1 DEF Then, Sane, KeysIn
<1>5. CASE p = "sieve"
  <2>1. st = Sieve!New
    BY <1>5 DEF New
  <2>2. /\ Sieve!New.list = <<>> /\ Sieve!New.hand = NoKey
        /\ Sieve!New = [list |-> Sieve!New.list, hand |-> Sieve!New.hand]
    BY DEF Sieve!New
  <2>3. SieveList(Sieve!New, S)
    BY <2>2, KeyOrderEmpty DEF SieveList
  <2>4. Sieve!Keys(Sieve!New) = {}
    BY <2>2, KeyOrderEmpty, SieveLists
  <2> QED
    BY <1>5, <2>1, <2>3, <2>4 DEF Then, Sane, KeysIn
<1>6. CASE p = "lfu"
    BY <1>6, LfuStarts DEF Then, Sane, KeysIn, New
<1> QED
    BY <1>1, <1>2, <1>3, <1>4, <1>5, <1>6 DEF Policies

LEMMA NewIsSane ==
    ASSUME NEW p \in Policies, NEW S, NEW C, Fits(S, C), NEW max_size \in C
    PROVE  Then(p, New(p, max_size), {}, S, C)
<1>1. CASE p = "2q"
    BY <1>1, TwoQStarts DEF Then, Sane, KeysIn, New
<1>2. CASE p = "s3-fifo"
    BY <1>2, SThreeStarts, MainSizesAreNat DEF Fits, Then, Sane, KeysIn, New
<1>3. CASE p = "arc"
  BY <1>3, ArcStarts DEF Fits, Then, Sane, KeysIn, New
<1> QED
    BY <1>1, <1>2, <1>3, UnsizedNewIsSane

LEMMA InsertIsSane ==
    ASSUME NEW p \in Policies, NEW S, NEW C, Fits(S, C),
           NEW st, Sane(p, st, S, C), NEW k \in S, NEW s \in Nat
    PROVE  Then(p, Insert(p, st, k, s), KeysIn(p, st) \cup {k}, S, C)
<1>1. s \in Nat /\ NoKey \notin S /\ C \in SUBSET Nat
    BY DEF Fits
<1>2. CASE p = "fifo"
    BY <1>2, FifoHolds DEF Then, Sane, KeysIn, Insert
<1>3. CASE p = "lru"
    BY <1>3, LruHolds DEF Then, Sane, KeysIn, Insert
<1>4. CASE p = "mru"
    BY <1>1, <1>4, MruHolds DEF Then, Sane, KeysIn, Insert
<1>5. CASE p = "clock"
    BY <1>5, ClockHolds DEF Then, Sane, KeysIn, Insert
<1>6. CASE p = "sieve"
    BY <1>6, SieveHolds DEF Then, Sane, KeysIn, Insert
<1>7. CASE p = "lfu"
    BY <1>7, LfuInserts DEF Then, Sane, KeysIn, Insert
<1>8. CASE p = "2q"
    BY <1>1, <1>8, TwoQInserts DEF Then, Sane, KeysIn, Insert
<1>9. CASE p = "s3-fifo"
    BY <1>1, <1>9, SThreeInserts, MainSizesAreNat DEF Then, Sane, KeysIn, Insert
<1>10. CASE p = "arc"
  <2>1. ArcShape(st, S, C)
    BY <1>10 DEF Sane
  <2>2. ArcShape(Arc!Insert(st, k, s), S, C) /\ Arc!Keys(Arc!Insert(st, k, s)) = Arc!Keys(st) \cup {k}
    BY <1>1, <2>1, ArcInserts
  <2> QED
    BY <1>10, <2>2 DEF Then, Sane, KeysIn, Insert
<1> QED
    BY <1>2, <1>3, <1>4, <1>5, <1>6, <1>7, <1>8, <1>9, <1>10 DEF Policies

LEMMA UpdateIsSane ==
    ASSUME NEW p \in Policies, NEW S, NEW C, Fits(S, C),
           NEW st, Sane(p, st, S, C), NEW k \in S
    PROVE  Then(p, Update(p, st, k), KeysIn(p, st), S, C)
<1>1. NoKey \notin S /\ C \in SUBSET Nat
    BY DEF Fits
<1>2. CASE p = "fifo"
    BY <1>2 DEF Then, Sane, KeysIn, Update
<1>3. CASE p = "lru"
    BY <1>3, LruHolds DEF Then, Sane, KeysIn, Update
<1>4. CASE p = "mru"
    BY <1>1, <1>4, MruHolds DEF Then, Sane, KeysIn, Update
<1>5. CASE p = "clock"
    BY <1>5, ClockHolds DEF Then, Sane, KeysIn, Update
<1>6. CASE p = "sieve"
    BY <1>6, SieveHolds DEF Then, Sane, KeysIn, Update
<1>7. CASE p = "lfu"
    BY <1>7, LfuUpdates DEF Then, Sane, KeysIn, Update
<1>8. CASE p = "2q"
    BY <1>8, TwoQUpdates DEF Then, Sane, KeysIn, Update
<1>9. CASE p = "s3-fifo"
    BY <1>1, <1>9, SThreeUpdates, MainSizesAreNat DEF Then, Sane, KeysIn, Update
<1>10. CASE p = "arc"
    BY <1>1, <1>10, ArcUpdates DEF Then, Sane, KeysIn, Update
<1> QED
    BY <1>2, <1>3, <1>4, <1>5, <1>6, <1>7, <1>8, <1>9, <1>10 DEF Policies

LEMMA RemoveIsSane ==
    ASSUME NEW p \in Policies, NEW S, NEW C, Fits(S, C),
           NEW st, Sane(p, st, S, C), NEW k \in S
    PROVE  Then(p, Remove(p, st, k), KeysIn(p, st) \ {k}, S, C)
<1>1. NoKey \notin S /\ C \in SUBSET Nat
    BY DEF Fits
<1>2. CASE p = "fifo"
    BY <1>2, FifoHolds DEF Then, Sane, KeysIn, Remove
<1>3. CASE p = "lru"
    BY <1>3, LruHolds DEF Then, Sane, KeysIn, Remove
<1>4. CASE p = "mru"
    BY <1>1, <1>4, MruHolds DEF Then, Sane, KeysIn, Remove
<1>5. CASE p = "clock"
    BY <1>5, ClockHolds DEF Then, Sane, KeysIn, Remove
<1>6. CASE p = "sieve"
    BY <1>6, SieveHolds DEF Then, Sane, KeysIn, Remove
<1>7. CASE p = "lfu"
    BY <1>7, LfuRemoves DEF Then, Sane, KeysIn, Remove
<1>8. CASE p = "2q"
    BY <1>8, TwoQRemoves DEF Then, Sane, KeysIn, Remove
<1>9. CASE p = "s3-fifo"
  <2>1. SThreeShape(st, S, MainSizes(C)) /\ MainSizes(C) \in SUBSET Nat
    BY <1>9, MainSizesAreNat DEF Fits, Sane
  <2>2. /\ SThreeShape(SThree!Remove(st, k), S, MainSizes(C))
        /\ SThree!Keys(SThree!Remove(st, k)) = SThree!Keys(st) \ {k}
    BY <2>1, SThreeRemoves
  <2> QED
    BY <1>9, <2>2 DEF Then, Sane, KeysIn, Remove
<1>10. CASE p = "arc"
  <2>1. ArcShape(st, S, C)
    BY <1>10 DEF Sane
  <2>2. ArcShape(Arc!Remove(st, k), S, C) /\ Arc!Keys(Arc!Remove(st, k)) = Arc!Keys(st) \ {k}
    BY <1>1, <2>1, ArcRemoves
  <2> QED
    BY <1>10, <2>2 DEF Then, Sane, KeysIn, Remove
<1> QED
    BY <1>2, <1>3, <1>4, <1>5, <1>6, <1>7, <1>8, <1>9, <1>10 DEF Policies

LEMMA ResizeIsSane ==
    ASSUME NEW p \in Policies, NEW S, NEW C, Fits(S, C),
           NEW st, Sane(p, st, S, C), NEW max_size \in C
    PROVE  Then(p, Resize(p, st, max_size), KeysIn(p, st), S, C)
<1>1. NoKey \notin S /\ C \in SUBSET Nat
    BY DEF Fits
<1>2. CASE p = "2q"
    BY <1>2, TwoQResizes DEF Then, Sane, KeysIn, Resize
<1>3. CASE p = "s3-fifo"
  <2>1. SThreeShape(st, S, MainSizes(C)) /\ MainSizes(C) \in SUBSET Nat
    BY <1>3, MainSizesAreNat DEF Fits, Sane
  <2>2. SThree!MainSize(max_size) \in MainSizes(C)
    BY <1>1, MainSizesAreNat
  <2>3. /\ SThreeShape(SThree!Resize(st, max_size), S, MainSizes(C))
        /\ SThree!Keys(SThree!Resize(st, max_size)) = SThree!Keys(st)
    BY <2>1, <2>2, SThreeResizes
  <2> QED
    BY <1>3, <2>3 DEF Then, Sane, KeysIn, Resize
<1>4. CASE p = "arc"
    BY <1>1, <1>4, ArcResizes DEF Then, Sane, KeysIn, Resize
<1>5. CASE p \notin {"2q", "s3-fifo", "arc"}
  <2>1. Resize(p, st, max_size) = st
    BY <1>5 DEF Resize
  <2> QED
    BY <2>1 DEF Then
<1> QED
    BY <1>2, <1>3, <1>4, <1>5

LEMMA ClearIsSane ==
    ASSUME NEW p \in Policies, NEW S, NEW C, Fits(S, C), NEW st, Sane(p, st, S, C)
    PROVE  Then(p, Clear(p, st), {}, S, C)
<1>1. CASE p = "2q"
  <2>1. TwoQShape(st, S)
    BY <1>1 DEF Sane
  <2>2. TwoQShape(TwoQ!Clear(st), S) /\ TwoQ!Keys(TwoQ!Clear(st)) = {}
    BY <2>1, TwoQResizes
  <2> QED
    BY <1>1, <2>2 DEF Then, Sane, KeysIn, Clear
<1>2. CASE p = "s3-fifo"
  <2>1. SThreeShape(st, S, MainSizes(C)) /\ MainSizes(C) \in SUBSET Nat
    BY <1>2, MainSizesAreNat DEF Fits, Sane
  <2>2. PICK max_size : SThree!MainSize(max_size) \in MainSizes(C)
    BY <2>1 DEF SThreeShape, MainSizes
  <2>3. SThreeShape(SThree!Clear(st), S, MainSizes(C)) /\ SThree!Keys(SThree!Clear(st)) = {}
    BY <2>1, <2>2, SThreeResizes
  <2> QED
    BY <1>2, <2>3 DEF Then, Sane, KeysIn, Clear
<1>3. CASE p = "arc"
  <2>1. ArcShape(st, S, C) /\ C \in SUBSET Nat /\ st.max_size \in C
    BY <1>3 DEF Fits, Sane, ArcShape
  <2>2. ArcShape(Arc!Clear(st), S, C) /\ Arc!Keys(Arc!Clear(st)) = {}
    BY <2>1, ArcResizes
  <2> QED
    BY <1>3, <2>2 DEF Then, Sane, KeysIn, Clear
<1>4. CASE p \notin {"2q", "s3-fifo", "arc"}
  <2>1. Clear(p, st) = New(p, 0)
    BY <1>4 DEF Clear
  <2> QED
    BY <1>4, <2>1, UnsizedNewIsSane
<1> QED
    BY <1>1, <1>2, <1>3, <1>4

\* A stack that can have no room, main of s3-fifo or arc, holds back what it has.
MayHoldBack(p, C) == (p = "s3-fifo" /\ 0 \in MainSizes(C)) \/ (p = "arc" /\ 0 \in C)

\* What an eviction does.
Evicts(p, st, S, C) ==
    LET evicted == EvictOne(p, st)
    IN  /\ Sane(p, evicted.stack, S, C)
        /\ KeysIn(p, st) \ {evicted.key} \subseteq KeysIn(p, evicted.stack)
        /\ p # "mru" => \/ GivesUp(evicted, KeysIn(p, st), KeysIn(p, evicted.stack))
                        \/ /\ MayHoldBack(p, C)
                           /\ evicted.key = NoKey /\ KeysIn(p, evicted.stack) = KeysIn(p, st)

LEMMA GivenUpIsKept ==
    ASSUME NEW evicted, NEW keys, NEW left, GivesUp(evicted, keys, left)
    PROVE  keys \ {evicted.key} \subseteq left
  BY DEF GivesUp

LEMMA EvictIsSane ==
    ASSUME NEW p \in Policies, NEW S, NEW C, Fits(S, C), NEW st, Sane(p, st, S, C)
    PROVE  Evicts(p, st, S, C)
<1> DEFINE evicted == EvictOne(p, st)
<1>1. NoKey \notin S /\ C \in SUBSET Nat
  BY DEF Fits
<1> SUFFICES /\ Sane(p, evicted.stack, S, C)
             /\ \/ p # "mru" /\ GivesUp(evicted, KeysIn(p, st), KeysIn(p, evicted.stack))
                \/ /\ p = "mru"
                   /\ KeysIn(p, st) \ {evicted.key} \subseteq KeysIn(p, evicted.stack)
                \/ /\ MayHoldBack(p, C)
                   /\ evicted.key = NoKey /\ KeysIn(p, evicted.stack) = KeysIn(p, st)
  <2> HIDE DEF evicted
  <2>1. EvictOne(p, st) = evicted
    BY DEF evicted
  <2>2. CASE p # "mru" /\ GivesUp(evicted, KeysIn(p, st), KeysIn(p, evicted.stack))
    <3>1. KeysIn(p, st) \ {evicted.key} \subseteq KeysIn(p, evicted.stack)
      BY <2>2, GivenUpIsKept
    <3> QED
      BY <2>1, <2>2, <3>1, Zenon DEF Evicts
  <2>3. CASE /\ p = "mru"
             /\ KeysIn(p, st) \ {evicted.key} \subseteq KeysIn(p, evicted.stack)
    BY <2>1, <2>3, Zenon DEF Evicts
  <2>4. CASE /\ MayHoldBack(p, C)
             /\ evicted.key = NoKey /\ KeysIn(p, evicted.stack) = KeysIn(p, st)
    <3>1. KeysIn(p, st) \ {evicted.key} \subseteq KeysIn(p, evicted.stack)
      BY <2>4
    <3> QED
      BY <2>1, <2>4, <3>1, Zenon DEF Evicts
  <2> QED
    BY <2>2, <2>3, <2>4
<1>2. CASE p = "fifo"
    BY <1>2, FifoEvicts DEF Sane, KeysIn, EvictOne
<1>3. CASE p = "lru"
    BY <1>3, LruEvicts DEF Sane, KeysIn, EvictOne
<1>4. CASE p = "mru"
    BY <1>1, <1>4, MruEvicts DEF Sane, KeysIn, EvictOne
<1>5. CASE p = "clock"
    BY <1>5, ClockEvicts DEF Sane, KeysIn, EvictOne
<1>6. CASE p = "sieve"
    BY <1>6, SieveEvicts DEF Sane, KeysIn, EvictOne
<1>7. CASE p = "lfu"
    BY <1>7, LfuEvicts DEF Sane, KeysIn, EvictOne
<1>8. CASE p = "2q"
    BY <1>8, TwoQEvicts DEF Sane, KeysIn, EvictOne
<1>9. CASE p = "s3-fifo"
  <2>1. SThreeShape(st, S, MainSizes(C)) /\ MainSizes(C) \in SUBSET Nat
    BY <1>1, <1>9, MainSizesAreNat DEF Sane
  <2>2. st.main_size \in MainSizes(C)
    BY <2>1 DEF SThreeShape
  <2>3. /\ SThreeShape(SThree!EvictOne(st).stack, S, MainSizes(C))
        /\ \/ GivesUp(SThree!EvictOne(st), SThree!Keys(st), SThree!Keys(SThree!EvictOne(st).stack))
           \/ /\ st.main_size = 0 /\ SThree!EvictOne(st).key = NoKey
              /\ SThree!Keys(SThree!EvictOne(st).stack) = SThree!Keys(st)
    BY <2>1, SThreeEvicts
  <2> QED
    BY <1>9, <2>2, <2>3 DEF Sane, KeysIn, EvictOne, MayHoldBack
<1>10. CASE p = "arc"
  <2>1. ArcShape(st, S, C) /\ st.max_size \in C
    BY <1>10 DEF Sane, ArcShape
  <2>2. /\ ArcShape(Arc!EvictOne(st).stack, S, C)
        /\ \/ GivesUp(Arc!EvictOne(st), Arc!Keys(st), Arc!Keys(Arc!EvictOne(st).stack))
           \/ /\ st.max_size = 0 /\ Arc!EvictOne(st).key = NoKey
              /\ Arc!Keys(Arc!EvictOne(st).stack) = Arc!Keys(st)
    BY <1>1, <2>1, ArcEvicts
  <2> QED
    BY <1>10, <2>1, <2>2 DEF Sane, KeysIn, EvictOne, MayHoldBack
<1> QED
    BY <1>2, <1>3, <1>4, <1>5, <1>6, <1>7, <1>8, <1>9, <1>10 DEF Policies

\* A stack holds keys of S alone.
LEMMA KeysAreKnown ==
    ASSUME NEW p \in Policies, NEW S, NEW C, NEW st, Sane(p, st, S, C)
    PROVE  KeysIn(p, st) \subseteq S
<1>1. ASSUME NEW l \in Seq(S) PROVE Lists!Elements(l) \subseteq S
    BY DEF Lists!Elements
<1>2. ASSUME NEW O, Keyed(O, S), NEW l \in Seq(O) PROVE Lists!KeysOf(l) \subseteq S
    BY <1>2 DEF Lists!KeysOf, Keyed
<1>3. Keyed(Marked(S), S) /\ Keyed(Entries(S), S) /\ Keyed(Counted(S), S)
    BY DEF Keyed, Marked, Entries, Counted
<1>4. ASSUME NEW s, SizedList(s, Entries(S)) \/ SizedList(s, Counted(S))
      PROVE  KeysHeld(s) \subseteq S
    BY <1>2, <1>3, <1>4 DEF SizedList, KeysHeld
<1>5. CASE p = "fifo"
  <2>1. st \in Seq(S)
    BY <1>5 DEF Sane, KeyList
  <2> QED
    BY <1>1, <1>5, <2>1, FifoLists DEF KeysIn
<1>6. CASE p = "lru"
  <2>1. st \in Seq(S)
    BY <1>6 DEF Sane, KeyList
  <2> QED
    BY <1>1, <1>6, <2>1, LruLists DEF KeysIn
<1>7. CASE p = "mru"
  <2>1. st.maybe_mru_key \in S \cup {NoKey} /\ st.list \in Seq(S)
    BY <1>7 DEF Sane, MruStack
  <2>2. Mru!Elements(st.list) \subseteq S
    BY <2>1 DEF Mru!Elements
  <2> QED
    BY <1>7, <2>1, <2>2 DEF KeysIn, Mru!Keys
<1>8. CASE p = "clock"
  <2>1. st \in Seq(Marked(S))
    BY <1>8 DEF Sane, ClockList
  <2> QED
    BY <1>2, <1>3, <1>8, <2>1, ClockLists DEF KeysIn
<1>9. CASE p = "sieve"
  <2>1. st.list \in Seq(Marked(S))
    BY <1>9 DEF Sane, SieveList
  <2> QED
    BY <1>2, <1>3, <1>9, <2>1, SieveLists DEF KeysIn
<1>10. CASE p = "lfu"
  <2>1. st = Lfu2(st.index_map, st.count_stacks) /\ DOMAIN st.index_map \subseteq S
    BY <1>10 DEF Sane, LfuShape, LfuParts, Filed
  <2> QED
    BY <1>10, <2>1 DEF KeysIn, Lfu!Keys
<1>11. CASE p = "2q"
  <2>1. /\ SizedList(st.a1_in, Entries(S)) /\ SizedList(st.a1_out, Entries(S))
        /\ SizedList(st.am, Entries(S))
    BY <1>11 DEF Sane, TwoQShape, TwoQLists
  <2>2. KeysHeld(st.a1_in) \subseteq S /\ KeysHeld(st.a1_out) \subseteq S /\ KeysHeld(st.am) \subseteq S
    BY <1>4, <2>1
  <2> QED
    BY <1>11, <2>2 DEF KeysIn, TwoQ!Keys, TwoQ!KeysOf, KeysHeld, Lists!KeysOf
<1>12. CASE p = "s3-fifo"
  <2>1. SizedList(st.small, Counted(S)) /\ SizedList(st.main, Counted(S))
    BY <1>12 DEF Sane, SThreeShape, SThreeLists
  <2>2. KeysHeld(st.small) \subseteq S /\ KeysHeld(st.main) \subseteq S
    BY <1>4, <2>1
  <2> QED
    BY <1>12, <2>2 DEF KeysIn, SThree!Keys, SThree!KeysOf, KeysHeld, Lists!KeysOf
<1>13. CASE p = "arc"
  <2>1. SizedList(st.t1, Entries(S)) /\ SizedList(st.t2, Entries(S))
    BY <1>13 DEF Sane, ArcShape, ArcLists
  <2>2. KeysHeld(st.t1) \subseteq S /\ KeysHeld(st.t2) \subseteq S
    BY <1>4, <2>1
  <2> QED
    BY <1>13, <2>2 DEF KeysIn, Arc!Keys, Arc!KeysOf, KeysHeld, Lists!KeysOf
<1> QED
    BY <1>5, <1>6, <1>7, <1>8, <1>9, <1>10, <1>11, <1>12, <1>13 DEF Policies

\* How many evictions are left in a stack at most: an mru stack may list its most
\* recently used key a second time.
Weight(p, st) == IF p = "mru" THEN MruEntries(st) ELSE Cardinality(KeysIn(p, st))

LEMMA WeightIsBounded ==
    ASSUME NEW p \in Policies, NEW S, IsFiniteSet(S), NEW C, NEW st, Sane(p, st, S, C)
    PROVE  Weight(p, st) \in 0 .. Cardinality(S) + 1
<1>1. CASE p = "mru"
  <2>1. MruStack(st, S)
    BY <1>1 DEF Sane
  <2> QED
    BY <1>1, <2>1, MruEntriesBounded DEF Weight
<1>2. CASE p # "mru"
  <2>1. KeysIn(p, st) \in SUBSET S
    BY KeysAreKnown
  <2>2. IsFiniteSet(KeysIn(p, st)) /\ Cardinality(KeysIn(p, st)) <= Cardinality(S)
    BY <2>1, FS_Subset
  <2>3. Cardinality(KeysIn(p, st)) \in Nat /\ Cardinality(S) \in Nat
    BY <2>2, FS_CardinalityType
  <2> QED
    BY <1>2, <2>2, <2>3 DEF Weight
<1> QED
    BY <1>1, <1>2

\* Each eviction takes one away, as long as there is a key and room.
LEMMA EvictLightens ==
    ASSUME NEW p \in Policies, NEW S, IsFiniteSet(S), NEW C, Fits(S, C),
           NEW st, Sane(p, st, S, C), KeysIn(p, st) # {}, ~MayHoldBack(p, C)
    PROVE  Weight(p, EvictOne(p, st).stack) < Weight(p, st)
<1>1. CASE p = "mru"
  <2>1. MruStack(st, S) /\ Mru!Keys(st) # {} /\ NoKey \notin S
    BY <1>1 DEF Sane, KeysIn, Fits
  <2>2. MruEntries(Mru!EvictOne(st).stack) < MruEntries(st)
    BY <2>1, MruEvicts
  <2> QED
    BY <1>1, <2>2 DEF Weight, EvictOne
<1>2. CASE p # "mru"
  <2> DEFINE keys == KeysIn(p, st)
             left == KeysIn(p, EvictOne(p, st).stack)
             k    == EvictOne(p, st).key
  <2>1. k \in keys /\ left = keys \ {k}
    BY <1>2, EvictIsSane DEF Evicts, GivesUp
  <2>2. keys \in SUBSET S
    BY KeysAreKnown
  <2>3. IsFiniteSet(keys)
    BY <2>2, FS_Subset
  <2> HIDE DEF keys, left, k
  <2>4. Cardinality(left) = Cardinality(keys) - 1 /\ Cardinality(keys) \in Nat
    BY <2>1, <2>3, FS_RemoveElement, FS_CardinalityType
  <2> QED
    BY <1>2, <2>4 DEF Weight, keys, left
<1> QED
    BY <1>1, <1>2

\* With room, a stack that names no key had none.
LEMMA EvictNames ==
    ASSUME NEW p \in Policies, NEW S, NEW C, Fits(S, C), NEW st, Sane(p, st, S, C),
           ~MayHoldBack(p, C), EvictOne(p, st).key = NoKey
    PROVE  KeysIn(p, st) = {}
<1>1. NoKey \notin S /\ KeysIn(p, st) \subseteq S
    BY KeysAreKnown DEF Fits
<1>2. CASE p # "mru"
    BY <1>1, <1>2, EvictIsSane DEF Evicts, GivesUp
<1>3. CASE p = "mru"
  <2>1. MruStack(st, S) /\ Mru!EvictOne(st).key = NoKey /\ KeysIn(p, st) = Mru!Keys(st)
    BY <1>3 DEF Sane, KeysIn, EvictOne
  <2> DEFINE mru == st.maybe_mru_key
             list == st.list
  <2>2. list \in Seq(S) /\ KeyList(list, S)
    BY <2>1 DEF MruStack, KeyList
  <2>3. CASE list = <<>>
    <3>1. Mru!EvictOne(st).key = mru
        BY <2>3 DEF Mru!EvictOne, Mru!PopFront, Mru!Evicting
    <3>2. Mru!Keys(st) = Lists!Elements(list) \cup ({mru} \ {NoKey})
        BY MruLists DEF Mru!Keys
    <3>3. Lists!Elements(list) = {}
        BY <2>3, EmptyHolds
    <3> HIDE DEF mru, list
    <3> QED
        BY <2>1, <3>1, <3>2, <3>3
  <2>4. CASE list # <<>>
    <3>1. Mru!EvictOne(st).key = Head(list)
        BY <2>4 DEF Mru!EvictOne, Mru!PopFront, Mru!Evicting
    <3>2. Head(list) \in S
        BY <2>2, <2>4
    <3> QED
        BY <1>1, <2>1, <3>1, <3>2
  <2> QED
    BY <2>3, <2>4
<1> QED
    BY <1>2, <1>3

================================================================================
