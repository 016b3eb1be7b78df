------------------------------ MODULE DataLemmas ------------------------------
(***************************************************************************)
(* Induction over the natural numbers, and with it what FlattenSeq of the  *)
(* community modules does; sums over finite sets.  The induction is stated *)
(* with sets, as the provers instantiate no operator.                      *)
(***************************************************************************)
EXTENDS BoundedSums, SequencesExt, SequenceTheorems, FiniteSetTheorems, WellFoundedInduction, TLAPS

\* A set of numbers that is not empty has a least element.
LEMMA LeastElement ==
    ASSUME NEW T \in SUBSET Nat, T # {}
    PROVE  \E m \in T : \A k \in T : m <= k
<1> DEFINE R == OpToRel(<, Nat)
<1>1. IsWellFoundedOn(R, Nat)
    BY NatLessThanWellFounded
<1>2. \A x, y \in Nat : <<y, x>> \in R <=> y < x
    BY DEF OpToRel
<1> HIDE DEF R
<1>3. PICK m \in T : \A y \in T : <<y, m>> \notin R
    BY <1>1, WFMin
<1>4. ASSUME NEW k \in T PROVE m <= k
  <2>1. <<k, m>> \notin R /\ k \in Nat /\ m \in Nat
    BY <1>3
  <2>2. ~(k < m)
    BY <1>2, <2>1
  <2> QED
    BY <2>1, <2>2
<1> QED
    BY <1>4

\* A set with zero and the successor of each of its numbers has them all.
LEMMA SetInduction ==
    ASSUME NEW T, 0 \in T, \A n \in Nat : n \in T => n + 1 \in T
    PROVE  Nat \subseteq T
<1> SUFFICES ASSUME NEW n \in Nat, n \notin T PROVE FALSE
    OBVIOUS
<1> DEFINE U == {k \in Nat : k \notin T}
<1>1. PICK m \in U : \A k \in U : m <= k
    BY LeastElement
<1>2. m # 0 /\ m - 1 \in Nat /\ m - 1 \notin U
    BY <1>1
<1> QED
    BY <1>1, <1>2

\* The empty sequence is the one of length zero.
LEMMA EmptyLength ==
    ASSUME NEW S, NEW s \in Seq(S)
    PROVE  s = <<>> <=> Len(s) = 0
  BY EmptySeq

\* Concatenation is associative.
LEMMA ConcatOfThree ==
    ASSUME NEW S, NEW s \in Seq(S), NEW t \in Seq(S), NEW u \in Seq(S)
    PROVE  (s \o t) \o u = s \o (t \o u)
  BY ConcatAssociative

\* A function on 1 .. n is a sequence.
LEMMA FunctionIsSeq ==
    ASSUME NEW S, NEW n \in Nat, NEW f, f = [i \in 1 .. n |-> f[i]], \A i \in 1 .. n : f[i] \in S
    PROVE  f \in Seq(S)
  OBVIOUS

\* A product that fits, fits when divided.
LEMMA DivBound ==
    ASSUME NEW n \in Nat, NEW m \in Nat, NEW d \in Nat \ {0}, n * d <= m
    PROVE  n <= m \div d
<1> DEFINE q == m \div d
           r == m % d
<1>1. q \in Nat /\ r \in Nat /\ m = d * q + r /\ r < d
    OBVIOUS
<1> HIDE DEF q, r
<1>2. SUFFICES ASSUME n >= q + 1 PROVE FALSE
    BY <1>1 DEF q
<1>3. n * d >= (q + 1) * d
    BY <1>1, <1>2
<1>4. (q + 1) * d = d * q + d
    BY <1>1
<1> QED
    BY <1>1, <1>3, <1>4

-----------------------------------------------------------------------------
(***************************************************************************)
(* FlattenSeq                                                              *)
(***************************************************************************)

\* f joins the first sequences of ss, up to each of them.
Joins(f, ss, n) ==
    f = [i \in 1 .. n |-> IF i = 1 THEN ss[1] ELSE f[i - 1] \o ss[i]]

\* What such a function is at each of them.
LEMMA JoinsAt ==
    ASSUME NEW ss, NEW n, NEW f, Joins(f, ss, n), NEW i \in 1 .. n
    PROVE  f[i] = IF i = 1 THEN ss[1] ELSE f[i - 1] \o ss[i]
<1> DEFINE g == [j \in 1 .. n |-> IF j = 1 THEN ss[1] ELSE f[j - 1] \o ss[j]]
<1>1. f = g
    BY DEF Joins
<1>2. g[i] = IF i = 1 THEN ss[1] ELSE f[i - 1] \o ss[i]
    OBVIOUS
<1> HIDE DEF g
<1> QED
    BY <1>1, <1>2

\* There is one such function, ...
LEMMA JoinExists ==
    ASSUME NEW ss, NEW n \in Nat
    PROVE  \E f : Joins(f, ss, n)
<1> DEFINE T == {k \in Nat : \E f : Joins(f, ss, k)}
<1>1. 0 \in T
  <2>1. Joins([i \in {} |-> 0], ss, 0)
    BY DEF Joins
  <2> QED
    BY <2>1
<1>2. ASSUME NEW k \in Nat, k \in T PROVE k + 1 \in T
  <2>1. PICK f : Joins(f, ss, k)
    BY <1>2
  <2>2. f = [i \in 1 .. k |-> IF i = 1 THEN ss[1] ELSE f[i - 1] \o ss[i]]
    BY <2>1 DEF Joins
  <2> DEFINE g == [i \in 1 .. k + 1 |-> IF i \in 1 .. k THEN f[i]
                                        ELSE IF i = 1 THEN ss[1] ELSE f[i - 1] \o ss[i]]
             h == [i \in 1 .. k + 1 |-> IF i = 1 THEN ss[1] ELSE g[i - 1] \o ss[i]]
  <2>3. \A i \in 1 .. k + 1 : g[i] = h[i]
    <3> SUFFICES ASSUME NEW i \in 1 .. k + 1 PROVE g[i] = h[i]
        OBVIOUS
    <3>1. CASE i = 1
        BY <2>2, <3>1
    <3>2. CASE i # 1
      <4>1. i - 1 \in 1 .. k /\ g[i - 1] = f[i - 1]
        BY <3>2
      <4>2. g[i] = f[i - 1] \o ss[i]
        BY <2>2, <3>2
      <4> QED
        BY <3>2, <4>1, <4>2
    <3> QED
        BY <3>1, <3>2
  <2>4. g = h
    BY <2>3
  <2> HIDE DEF g
  <2>5. Joins(g, ss, k + 1)
    BY <2>4 DEF Joins
  <2> QED
    BY <2>5
<1> QED
    BY <1>1, <1>2, SetInduction

\* ... and FlattenSeq is its last value.
LEMMA FlattenJoins ==
    ASSUME NEW S, NEW ss \in Seq(S), ss # <<>>
    PROVE  \E f : Joins(f, ss, Len(ss)) /\ FlattenSeq(ss) = f[Len(ss)]
<1> DEFINE flatten == CHOOSE f : Joins(f, ss, Len(ss))
<1>1. Len(ss) \in Nat /\ Len(ss) # 0
    BY EmptySeq
<1>2. Joins(flatten, ss, Len(ss))
    BY <1>1, JoinExists
<1>3. FlattenSeq(ss) = (CHOOSE f : f = [i \in 1 .. Len(ss) |->
                            IF i = 1 THEN ss[i] ELSE f[i - 1] \o ss[i]])[Len(ss)]
    BY <1>1 DEF FlattenSeq
<1>4. \A f : f = [i \in 1 .. Len(ss) |-> IF i = 1 THEN ss[i] ELSE f[i - 1] \o ss[i]]
                <=> Joins(f, ss, Len(ss))
    BY DEF Joins
<1> QED
    BY <1>2, <1>3, <1>4

\* Two such functions agree where both are defined.
LEMMA JoinUnique ==
    ASSUME NEW ss, NEW m \in Nat, NEW n \in Nat, m <= n, NEW f, NEW g,
           Joins(f, ss, m), Joins(g, ss, n)
    PROVE  \A i \in 1 .. m : f[i] = g[i]
<1> DEFINE T == {k \in Nat : k \in 1 .. m => f[k] = g[k]}
<1>1. 0 \in T
    OBVIOUS
<1>2. ASSUME NEW k \in Nat, k \in T PROVE k + 1 \in T
  <2> SUFFICES ASSUME k + 1 \in 1 .. m PROVE f[k + 1] = g[k + 1]
    OBVIOUS
  <2>1. /\ f[k + 1] = IF k + 1 = 1 THEN ss[1] ELSE f[(k + 1) - 1] \o ss[k + 1]
        /\ g[k + 1] = IF k + 1 = 1 THEN ss[1] ELSE g[(k + 1) - 1] \o ss[k + 1]
    BY JoinsAt
  <2>2. k + 1 # 1 => f[(k + 1) - 1] = g[(k + 1) - 1]
    BY <1>2
  <2> QED
    BY <2>1, <2>2
<1>3. Nat \subseteq T
    BY <1>1, <1>2, SetInduction
<1> QED
    BY <1>3

\* Of no sequences, and what FlattenSeq gives in general.
LEMMA FlattenEmpty == FlattenSeq(<<>>) = <<>>
  BY DEF FlattenSeq

\* Appending a sequence, FlattenSeq gives one that is longer by it.
LEMMA FlattenAppend ==
    ASSUME NEW S, NEW ss \in Seq(Seq(S)), NEW s \in Seq(S)
    PROVE  FlattenSeq(Append(ss, s)) = FlattenSeq(ss) \o s
<1> DEFINE tt == Append(ss, s)
           n == Len(ss)
<1>1. /\ tt \in Seq(Seq(S)) /\ tt # <<>> /\ Len(tt) = n + 1 /\ n \in Nat
      /\ \A i \in 1 .. n : tt[i] = ss[i]
      /\ tt[n + 1] = s
    BY AppendProperties
<1>2. PICK g : Joins(g, tt, n + 1) /\ FlattenSeq(tt) = g[n + 1]
    BY <1>1, FlattenJoins
<1> HIDE DEF tt
<1>3. g[n + 1] = IF n + 1 = 1 THEN tt[1] ELSE g[(n + 1) - 1] \o tt[n + 1]
  <2>1. n + 1 \in 1 .. n + 1
    BY <1>1
  <2> HIDE DEF n
  <2>2. \A i \in 1 .. n + 1 : g[i] = IF i = 1 THEN tt[1] ELSE g[i - 1] \o tt[i]
    BY <1>2, JoinsAt
  <2> QED
    BY <2>1, <2>2
<1>4. CASE n = 0
  <2>1. ss = <<>>
    BY <1>4, EmptySeq
  <2>2. FlattenSeq(ss) \o s = s
    BY <2>1, FlattenEmpty, ConcatEmptySeq
  <2> QED
    BY <1>1, <1>2, <1>3, <1>4, <2>2 DEF tt
<1>5. CASE n # 0
  <2>1. ss # <<>>
    BY <1>5
  <2>2. PICK f : Joins(f, ss, n) /\ FlattenSeq(ss) = f[n]
    BY <2>1, FlattenJoins
  <2>3. Joins(f, tt, n)
    BY <1>1, <1>5, <2>2 DEF Joins
  <2>4. f[n] = g[n]
    BY <1>1, <1>2, <1>5, <2>3, JoinUnique
  <2> QED
    BY <1>1, <1>2, <1>3, <1>5, <2>2, <2>4 DEF tt
<1> QED
    BY <1>4, <1>5

\* A sequence is one that is shorter by its last element, and that element.
LEMMA LastApart ==
    ASSUME NEW S, NEW ss \in Seq(S), ss # <<>>
    PROVE  \E front \in Seq(S), last \in S :
               ss = Append(front, last) /\ Len(ss) = Len(front) + 1
  BY SequenceEmptyOrAppend, AppendProperties

\* It gives a sequence of the same elements.
LEMMA FlattenType ==
    ASSUME NEW S, NEW ss \in Seq(Seq(S))
    PROVE  FlattenSeq(ss) \in Seq(S)
<1> DEFINE T == {n \in Nat : \A tt \in Seq(Seq(S)) : Len(tt) = n => FlattenSeq(tt) \in Seq(S)}
<1>1. 0 \in T
  <2> SUFFICES ASSUME NEW tt \in Seq(Seq(S)), Len(tt) = 0 PROVE FlattenSeq(tt) \in Seq(S)
    OBVIOUS
  <2>1. tt = <<>>
    BY EmptySeq
  <2>2. <<>> \in Seq(S)
    OBVIOUS
  <2> QED
    BY <2>1, <2>2, FlattenEmpty
<1>2. ASSUME NEW n \in Nat, n \in T PROVE n + 1 \in T
  <2> SUFFICES ASSUME NEW tt \in Seq(Seq(S)), Len(tt) = n + 1 PROVE FlattenSeq(tt) \in Seq(S)
    OBVIOUS
  <2>0. tt # <<>>
    BY EmptySeq
  <2>1. PICK front \in Seq(Seq(S)), last \in Seq(S) :
            tt = Append(front, last) /\ Len(tt) = Len(front) + 1
    BY <2>0, LastApart
  <2>2. FlattenSeq(front) \in Seq(S)
    BY <1>2, <2>1, LenProperties
  <2> QED
    BY <2>1, <2>2, FlattenAppend, ConcatProperties
<1>3. Nat \subseteq T
    BY <1>1, <1>2, SetInduction
<1>4. Len(ss) \in T
    BY <1>3
<1> QED
    BY <1>4

\* The first sequence comes first.
LEMMA FlattenHead ==
    ASSUME NEW S, NEW ss \in Seq(Seq(S)), ss # <<>>
    PROVE  FlattenSeq(ss) = Head(ss) \o FlattenSeq(Tail(ss))
<1> DEFINE T == {n \in Nat : \A tt \in Seq(Seq(S)) :
                    Len(tt) = n + 1 => FlattenSeq(tt) = Head(tt) \o FlattenSeq(Tail(tt))}
<1>1. 0 \in T
  <2> SUFFICES ASSUME NEW tt \in Seq(Seq(S)), Len(tt) = 1
               PROVE  FlattenSeq(tt) = Head(tt) \o FlattenSeq(Tail(tt))
    OBVIOUS
  <2>0. tt # <<>>
    <3>1. Len(<<>>) = 0
        OBVIOUS
    <3>2. Len(tt) # Len(<<>>)
        BY <3>1
    <3> QED
        BY <3>2, Zenon
  <2>1. PICK front \in Seq(Seq(S)), last \in Seq(S) :
            tt = Append(front, last) /\ Len(tt) = Len(front) + 1
    BY <2>0, LastApart
  <2>2. front = <<>>
    BY <2>1, EmptySeq
  <2>3. Head(tt) = last /\ Tail(tt) = <<>>
    BY <2>1, <2>2, HeadTailAppend
  <2>4. FlattenSeq(tt) = <<>> \o last
    BY <2>1, <2>2, FlattenAppend, FlattenEmpty
  <2> QED
    BY <2>3, <2>4, FlattenEmpty, ConcatEmptySeq
<1>2. ASSUME NEW n \in Nat, n \in T PROVE n + 1 \in T
  <2> SUFFICES ASSUME NEW tt \in Seq(Seq(S)), Len(tt) = n + 2
               PROVE  FlattenSeq(tt) = Head(tt) \o FlattenSeq(Tail(tt))
    OBVIOUS
  <2>0. tt # <<>>
    BY EmptySeq
  <2>1. PICK front \in Seq(Seq(S)), last \in Seq(S) :
            tt = Append(front, last) /\ Len(tt) = Len(front) + 1
    BY <2>0, LastApart
  <2>2. Len(front) = n + 1 /\ front # <<>>
    BY <2>1, EmptySeq
  <2>3. Head(tt) = Head(front) /\ Tail(tt) = Append(Tail(front), last)
    BY <2>1, <2>2, HeadTailAppend
  <2>4. FlattenSeq(front) = Head(front) \o FlattenSeq(Tail(front))
    BY <1>2, <2>2
  <2>5. Head(front) \in Seq(S) /\ Tail(front) \in Seq(Seq(S))
    BY <2>2, HeadTailProperties
  <2>6. FlattenSeq(Tail(front)) \in Seq(S)
    BY <2>5, FlattenType
  <2>7. FlattenSeq(tt) = (Head(front) \o FlattenSeq(Tail(front))) \o last
    BY <2>1, <2>4, FlattenAppend
  <2>8. FlattenSeq(Tail(tt)) = FlattenSeq(Tail(front)) \o last
    BY <2>3, <2>5, FlattenAppend
  <2>9. FlattenSeq(tt) = Head(front) \o (FlattenSeq(Tail(front)) \o last)
    <3> DEFINE a == Head(front)
               b == FlattenSeq(Tail(front))
    <3>1. a \in Seq(S) /\ b \in Seq(S)
        BY <2>5, <2>6
    <3> HIDE DEF a, b
    <3>2. (a \o b) \o last = a \o (b \o last)
        BY <3>1, ConcatOfThree, SMTT(30)
    <3> QED
        BY <2>7, <3>2 DEF a, b
  <2> QED
    BY <2>3, <2>8, <2>9
<1>3. Len(ss) - 1 \in Nat /\ Len(ss) = (Len(ss) - 1) + 1
    BY EmptySeq
<1>4. Len(ss) - 1 \in T
    BY <1>1, <1>2, <1>3, SetInduction
<1> QED
    BY <1>3, <1>4

\* Replacing the last element.
LEMMA LastReplaced ==
    ASSUME NEW S, NEW front \in Seq(S), NEW last \in S, NEW more \in S
    PROVE  [Append(front, last) EXCEPT ![Len(front) + 1] = more] = Append(front, more)
<1> DEFINE n == Len(front)
           ss == Append(front, last)
           uu == Append(front, more)
           tt == [ss EXCEPT ![n + 1] = more]
<1>1. /\ n \in Nat /\ ss \in Seq(S) /\ Len(ss) = n + 1
      /\ \A i \in 1 .. n : ss[i] = front[i]
    BY AppendProperties, LenProperties
<1>2. /\ uu \in Seq(S) /\ Len(uu) = n + 1 /\ uu[n + 1] = more
      /\ \A i \in 1 .. n : uu[i] = front[i]
    BY AppendProperties
<1> HIDE DEF ss, uu
<1>3. /\ tt \in Seq(S) /\ Len(tt) = n + 1
      /\ \A i \in 1 .. n + 1 : tt[i] = IF i = n + 1 THEN more ELSE ss[i]
    BY <1>1, ExceptSeq
<1> HIDE DEF tt, n
<1>4. \A i \in 1 .. n + 1 : tt[i] = uu[i]
  <2> SUFFICES ASSUME NEW i \in 1 .. n + 1 PROVE tt[i] = uu[i]
    OBVIOUS
  <2>1. i = n + 1 \/ i \in 1 .. n
    BY <1>1
  <2> QED
    BY <1>1, <1>2, <1>3, <2>1
<1>5. tt = uu
    BY <1>2, <1>3, <1>4, SeqEqual
<1> QED
    BY <1>5 DEF tt, uu, ss, n

\* The last sequence becomes longer by an element, and so does the whole.
LEMMA LastGrows ==
    ASSUME NEW S, NEW ss \in Seq(Seq(S)), ss # <<>>, NEW e \in S,
           NEW tt, tt = [ss EXCEPT ![Len(ss)] = Append(ss[Len(ss)], e)]
    PROVE  FlattenSeq(tt) = Append(FlattenSeq(ss), e)
<1>1. PICK front \in Seq(Seq(S)), last \in Seq(S) :
          ss = Append(front, last) /\ Len(ss) = Len(front) + 1
    BY LastApart
<1> DEFINE n == Len(front)
           more == Append(last, e)
           uu == Append(front, more)
<1>2. /\ n \in Nat /\ Len(ss) = n + 1 /\ ss[n + 1] = last
      /\ \A i \in 1 .. n : ss[i] = front[i]
    BY <1>1, AppendProperties
<1>3. more \in Seq(S) /\ more = last \o <<e>>
    BY AppendProperties, AppendIsConcat
<1>4. /\ uu \in Seq(Seq(S)) /\ Len(uu) = n + 1 /\ uu[n + 1] = more
      /\ \A i \in 1 .. n : uu[i] = front[i]
    BY <1>3, AppendProperties
<1>5. tt = [Append(front, last) EXCEPT ![Len(front) + 1] = more]
    BY <1>1, <1>2, Zenon
<1>6. tt = uu
  <2> DEFINE Q == Seq(S)
  <2>1. front \in Seq(Q) /\ last \in Q /\ more \in Q
    BY <1>3
  <2> HIDE DEF more, Q
  <2>2. [Append(front, last) EXCEPT ![Len(front) + 1] = more] = Append(front, more)
    BY <2>1, LastReplaced
  <2> QED
    BY <1>5, <2>2, Zenon
<1>7. FlattenSeq(front) \in Seq(S) /\ <<e>> \in Seq(S)
    BY FlattenType
<1> HIDE DEF more, uu, n
<1>8. FlattenSeq(uu) = FlattenSeq(front) \o more
    BY <1>3, FlattenAppend DEF uu
<1> DEFINE a == FlattenSeq(front)
<1>9. a \in Seq(S) /\ FlattenSeq(ss) = a \o last
    BY <1>1, <1>7, FlattenAppend
<1>10. FlattenSeq(uu) = a \o (last \o <<e>>)
    BY <1>3, <1>8
<1> HIDE DEF a
<1>11. (a \o last) \o <<e>> = a \o (last \o <<e>>)
    BY <1>7, <1>9, ConcatOfThree, SMTT(30)
<1>12. a \o last \in Seq(S)
    BY <1>9, ConcatProperties
<1>13. (a \o last) \o <<e>> = Append(a \o last, e)
    BY <1>12, AppendIsConcat
<1> QED
    BY <1>6, <1>9, <1>10, <1>11, <1>13, Zenon

\* The last sequence comes last.
LEMMA FlattenLast ==
    ASSUME NEW S, NEW k \in Nat, NEW ss \in Seq(Seq(S)), Len(ss) = k + 1
    PROVE  /\ [j \in 1 .. k |-> ss[j]] \in Seq(Seq(S))
           /\ FlattenSeq(ss) = FlattenSeq([j \in 1 .. k |-> ss[j]]) \o ss[k + 1]
<1> DEFINE Q == Seq(S)
<1>1. ss \in Seq(Q)
    OBVIOUS
<1>2. ss # <<>>
  <2>1. Len(<<>>) = 0 /\ k + 1 # 0
    OBVIOUS
  <2> QED
    BY <2>1
<1> HIDE DEF Q
<1>3. PICK front \in Seq(Q), last \in Q : ss = Append(front, last) /\ Len(ss) = Len(front) + 1
    BY <1>1, <1>2, LastApart
<1>4. /\ Len(front) = k /\ ss[k + 1] = last /\ \A j \in 1 .. k : ss[j] = front[j]
  <2>1. Len(front) = k
    BY <1>3, LenProperties
  <2> QED
    BY <1>3, <2>1, AppendProperties
<1>5. front = [j \in 1 .. k |-> ss[j]]
  <2>1. front = [j \in 1 .. k |-> front[j]]
    BY <1>3, <1>4
  <2> QED
    BY <1>4, <2>1
<1>6. FlattenSeq(Append(front, last)) = FlattenSeq(front) \o last
    BY <1>3, FlattenAppend, Zenon DEF Q
<1> QED
    BY <1>3, <1>4, <1>5, <1>6, Zenon DEF Q

-----------------------------------------------------------------------------
(***************************************************************************)
(* Parts of sequences                                                      *)
(***************************************************************************)

\* What is left of t after its first d elements.
IsRest(s, t, d) == d \in 0 .. Len(t) /\ SubSeq(t, d + 1, Len(t)) = s

\* The rest of a sequence that becomes longer, and the rest of the rest.
LEMMA RestGrows ==
    ASSUME NEW S, NEW t \in Seq(S), NEW e \in S, NEW d \in 0 .. Len(t)
    PROVE  SubSeq(Append(t, e), d + 1, Len(Append(t, e))) = Append(SubSeq(t, d + 1, Len(t)), e)
<1> DEFINE u == Append(t, e)
           n == Len(t)
           a == SubSeq(t, d + 1, n)
           b == SubSeq(u, d + 1, Len(u))
<1>1. /\ n \in Nat /\ u \in Seq(S) /\ Len(u) = n + 1 /\ u[n + 1] = e
      /\ \A i \in 1 .. n : u[i] = t[i]
    BY AppendProperties, LenProperties
<1>2. /\ a \in Seq(S) /\ Len(a) = n - d
      /\ \A i \in 1 .. n - d : a[i] = t[d + i]
  <2>1. d \in Nat /\ d <= n /\ \A i \in d + 1 .. n : t[i] \in S
    BY <1>1
  <2>2. /\ a \in Seq(S) /\ Len(a) = IF d + 1 <= n THEN n - (d + 1) + 1 ELSE 0
        /\ \A i \in 1 .. n - (d + 1) + 1 : a[i] = t[(d + 1) + i - 1]
    BY <1>1, <2>1, SubSeqProperties
  <2> HIDE DEF a
  <2> QED
    BY <1>1, <2>1, <2>2
<1>3. /\ b \in Seq(S) /\ Len(b) = (n - d) + 1
      /\ \A i \in 1 .. (n - d) + 1 : b[i] = u[d + i]
  <2>1. d \in Nat /\ d <= n /\ \A i \in d + 1 .. n + 1 : u[i] \in S
    BY <1>1
  <2>2. b = SubSeq(u, d + 1, n + 1)
    BY <1>1
  <2> HIDE DEF u, b
  <2>3. /\ b \in Seq(S) /\ Len(b) = IF d + 1 <= n + 1 THEN (n + 1) - (d + 1) + 1 ELSE 0
        /\ \A i \in 1 .. (n + 1) - (d + 1) + 1 : b[i] = u[(d + 1) + i - 1]
    BY <1>1, <2>1, <2>2, SubSeqProperties
  <2> QED
    BY <1>1, <2>1, <2>3
<1> DEFINE c == Append(a, e)
<1> HIDE DEF a, b, u, n
<1>4. /\ c \in Seq(S) /\ Len(c) = (n - d) + 1 /\ c[(n - d) + 1] = e
      /\ \A i \in 1 .. n - d : c[i] = a[i]
    BY <1>2, AppendProperties
<1> HIDE DEF c
<1>5. ASSUME NEW i \in 1 .. (n - d) + 1 PROVE b[i] = c[i]
  <2>1. CASE i = (n - d) + 1
    <3>1. d + i = n + 1
        BY <1>1, <2>1
    <3> QED
        BY <1>1, <1>3, <1>4, <2>1, <3>1
  <2>2. CASE i # (n - d) + 1
    <3>1. i \in 1 .. n - d /\ d + i \in 1 .. n
        BY <1>1, <2>2
    <3> QED
        BY <1>1, <1>2, <1>3, <1>4, <3>1
  <2> QED
    BY <2>1, <2>2
<1>6. b = c
    BY <1>3, <1>4, <1>5, SeqEqual
<1> QED
    BY <1>6 DEF a, b, c, u, n

\* The rest of the rest.
LEMMA RestOfRest ==
    ASSUME NEW S, NEW t \in Seq(S), NEW d, NEW a \in Seq(S), NEW b \in Seq(S),
           IsRest(a \o b, t, d)
    PROVE  IsRest(b, t, d + Len(a))
<1>0. d \in 0 .. Len(t) /\ SubSeq(t, d + 1, Len(t)) = a \o b
    BY DEF IsRest
<1> DEFINE n == Len(t)
           s == SubSeq(t, d + 1, n)
           k == Len(a)
           c == SubSeq(t, (d + k) + 1, n)
<1>1. n \in Nat /\ k \in Nat /\ Len(b) \in Nat /\ d \in Nat /\ d <= n
    BY <1>0, LenProperties
<1>2. /\ Len(s) = n - d
      /\ \A i \in 1 .. n - d : s[i] = t[d + i]
  <2>1. \A i \in d + 1 .. n : t[i] \in S
    BY <1>1
  <2>2. /\ Len(s) = IF d + 1 <= n THEN n - (d + 1) + 1 ELSE 0
        /\ \A i \in 1 .. n - (d + 1) + 1 : s[i] = t[(d + 1) + i - 1]
    BY <1>1, <2>1, SubSeqProperties
  <2> HIDE DEF s
  <2> QED
    BY <1>1, <2>1, <2>2
<1>3. /\ s = a \o b /\ Len(a \o b) = k + Len(b)
      /\ \A i \in 1 .. Len(b) : (a \o b)[k + i] = b[i]
  <2>1. /\ Len(a \o b) = k + Len(b)
        /\ \A i \in 1 .. k + Len(b) : (a \o b)[i] = IF i <= k THEN a[i] ELSE b[i - k]
    BY ConcatProperties
  <2>2. ASSUME NEW i \in 1 .. Len(b) PROVE (a \o b)[k + i] = b[i]
    <3>1. k + i \in 1 .. k + Len(b) /\ ~(k + i <= k) /\ (k + i) - k = i
        BY <1>1
    <3> QED
        BY <2>1, <3>1
  <2> QED
    BY <1>0, <2>1, <2>2
<1> HIDE DEF s, n, k
<1>4. Len(b) = n - (d + k) /\ d + k \in 0 .. n
  <2> DEFINE m == Len(b)
             l == Len(s)
  <2>1. l = k + m /\ l = n - d
    BY <1>2, <1>3
  <2>2. m \in Nat
    BY <1>1
  <2> HIDE DEF m, l
  <2>3. m = n - (d + k) /\ d + k \in 0 .. n
    BY <1>1, <2>1, <2>2
  <2> QED
    BY <2>3 DEF m
<1>5. /\ c \in Seq(S) /\ Len(c) = n - (d + k)
      /\ \A i \in 1 .. n - (d + k) : c[i] = t[(d + k) + i]
  <2>1. d + k + 1 \in Int /\ \A i \in (d + k) + 1 .. n : t[i] \in S
    BY <1>1 DEF n
  <2>2. /\ c \in Seq(S) /\ Len(c) = IF (d + k) + 1 <= n THEN n - ((d + k) + 1) + 1 ELSE 0
        /\ \A i \in 1 .. n - ((d + k) + 1) + 1 : c[i] = t[((d + k) + 1) + i - 1]
    BY <1>1, <2>1, SubSeqProperties
  <2> HIDE DEF c
  <2> QED
    BY <1>1, <1>4, <2>1, <2>2
<1> HIDE DEF c
<1>6. ASSUME NEW i \in 1 .. n - (d + k) PROVE c[i] = b[i]
  <2>1. k + i \in 1 .. n - d /\ d + (k + i) = (d + k) + i
    BY <1>1, <1>4
  <2>2. b[i] = s[k + i]
    BY <1>3, <1>4
  <2>3. s[k + i] = t[(d + k) + i]
    BY <1>2, <2>1
  <2> QED
    BY <1>5, <2>2, <2>3
<1>7. c = b
    BY <1>4, <1>5, <1>6, SeqEqual
<1> QED
    BY <1>4, <1>7 DEF c, n, k, IsRest

\* What is put first begins the whole.
LEMMA ConcatBegins ==
    ASSUME NEW S, NEW s \in Seq(S), NEW t \in Seq(S)
    PROVE  IsPrefix(s, s \o t)
<1>1. /\ Len(s) \in Nat /\ Len(t) \in Nat /\ Len(s \o t) = Len(s) + Len(t)
      /\ SubSeq(s, 1, Len(s)) = s
    BY ConcatProperties, LenProperties, SubSeqFull
<1>2. SubSeq(s \o t, 1, Len(s)) = s
  <2>1. CASE Len(s) = 0
    BY <2>1, SubSeqEmpty, EmptySeq
  <2>2. CASE Len(s) # 0
    BY <1>1, <2>2, SubSeqOfConcat1
  <2> QED
    BY <2>1, <2>2
<1> QED
    BY <1>1, <1>2 DEF IsPrefix

\* IsPrefix is transitive.
LEMMA BeginsTrans ==
    ASSUME NEW S, NEW s \in Seq(S), NEW t \in Seq(S), NEW u \in Seq(S),
           IsPrefix(s, t), IsPrefix(t, u)
    PROVE  IsPrefix(s, u)
<1>1. /\ Len(s) \in Nat /\ Len(t) \in Nat /\ Len(u) \in Nat
      /\ Len(s) <= Len(t) /\ Len(t) <= Len(u)
      /\ SubSeq(s, 1, Len(s)) = SubSeq(t, 1, Len(s))
      /\ SubSeq(t, 1, Len(t)) = SubSeq(u, 1, Len(t))
    BY LenProperties DEF IsPrefix
<1>2. SubSeq(t, 1, Len(s)) = SubSeq(u, 1, Len(s))
  <2>1. CASE Len(s) = 0
    BY <2>1, SubSeqEmpty
  <2>2. CASE Len(s) # 0
    <3> DEFINE a == SubSeq(t, 1, Len(t))
               b == SubSeq(u, 1, Len(t))
    <3>1. /\ SubSeq(a, 1, Len(s)) = SubSeq(t, 1, Len(s))
          /\ SubSeq(b, 1, Len(s)) = SubSeq(u, 1, Len(s))
      <4>1. 1 \in 1 .. Len(t) /\ Len(t) \in 1 .. Len(t) /\ 1 \in 1 .. (Len(t) - 1) + 1
            /\ Len(s) \in 1 .. (Len(t) - 1) + 1 /\ (1 + 1) - 1 = 1 /\ (1 + Len(s)) - 1 = Len(s)
        BY <1>1, <2>2
      <4>2. 1 \in 1 .. Len(u) /\ Len(t) \in 1 .. Len(u)
        BY <1>1, <2>2
      <4> QED
        BY <4>1, <4>2, SubSeqOfSubSeq
    <3> QED
        BY <1>1, <3>1
  <2> QED
    BY <2>1, <2>2
<1> QED
    BY <1>1, <1>2 DEF IsPrefix

\* The first part of what follows.
LEMMA PartBegins ==
    ASSUME NEW S, NEW s \in Seq(S), NEW t \in Seq(S), NEW m \in 0 .. Len(t)
    PROVE  IsPrefix(s \o SubSeq(t, 1, m), s \o t)
<1> DEFINE n == Len(t)
           a == SubSeq(t, 1, m)
           b == SubSeq(t, m + 1, n)
<1>1. n \in Nat /\ m \in Nat /\ m <= n /\ \A i \in 1 .. n : t[i] \in S
    BY LenProperties, ElementOfSeq
<1>2. a \in Seq(S) /\ b \in Seq(S)
    BY <1>1, SubSeqProperties
<1>3. a \o b = t
  <2>1. /\ Len(a) = m /\ \A i \in 1 .. m : a[i] = t[i]
    <3>1. /\ Len(a) = IF 1 <= m THEN m - 1 + 1 ELSE 0
          /\ \A i \in 1 .. m - 1 + 1 : a[i] = t[1 + i - 1]
        BY <1>1, SubSeqProperties
    <3> HIDE DEF a
    <3> QED
        BY <1>1, <3>1
  <2>2. /\ Len(b) = n - m /\ \A i \in 1 .. n - m : b[i] = t[m + i]
    <3>1. /\ Len(b) = IF m + 1 <= n THEN n - (m + 1) + 1 ELSE 0
          /\ \A i \in 1 .. n - (m + 1) + 1 : b[i] = t[(m + 1) + i - 1]
        BY <1>1, SubSeqProperties
    <3> HIDE DEF b
    <3> QED
        BY <1>1, <3>1
  <2> HIDE DEF a, b
  <2>3. /\ a \o b \in Seq(S) /\ Len(a \o b) = n
        /\ \A i \in 1 .. n : (a \o b)[i] = IF i <= m THEN a[i] ELSE b[i - m]
    BY <1>1, <1>2, <2>1, <2>2, ConcatProperties
  <2>4. ASSUME NEW i \in 1 .. n PROVE (a \o b)[i] = t[i]
    <3>1. CASE i <= m
        BY <1>1, <2>1, <2>3, <3>1
    <3>2. CASE ~(i <= m)
        <4>1. i - m \in 1 .. n - m /\ m + (i - m) = i
            BY <1>1, <3>2
        <4> QED
            BY <2>2, <2>3, <3>2, <4>1
    <3> QED
        BY <3>1, <3>2
  <2> QED
    BY <2>3, <2>4, SeqEqual
<1> HIDE DEF a, b, n
<1>4. (s \o a) \o b = s \o (a \o b)
    BY <1>2, ConcatOfThree, SMTT(30)
<1>5. s \o a \in Seq(S)
    BY <1>2, ConcatProperties
<1>6. IsPrefix(s \o a, (s \o a) \o b)
    BY <1>2, <1>5, ConcatBegins
<1> QED
    BY <1>3, <1>4, <1>6 DEF a

\* The first part becomes longer by an element.
LEMMA PartGrows ==
    ASSUME NEW S, NEW s \in Seq(S), NEW t \in Seq(S), NEW m \in Nat, m + 1 \in 1 .. Len(t)
    PROVE  /\ Append(s \o SubSeq(t, 1, m), t[m + 1]) = s \o SubSeq(t, 1, m + 1)
           /\ t[m + 1] \in S
<1> DEFINE a == SubSeq(t, 1, m)
           e == t[m + 1]
<1>1. Len(t) \in Nat /\ \A i \in 1 .. Len(t) : t[i] \in S
    BY LenProperties, ElementOfSeq
<1>2. a \in Seq(S) /\ e \in S /\ <<e>> \in Seq(S)
  <2>1. \A i \in 1 .. m : t[i] \in S
    BY <1>1
  <2>2. a \in Seq(S)
    BY <2>1, SubSeqProperties
  <2> QED
    BY <1>1, <2>2
<1>3. SubSeq(t, 1, m + 1) = a \o <<e>>
  <2>1. 1 \in 1 .. Len(t) /\ m + 1 \in 1 .. Len(t) /\ (m + 1) - 1 = m
    BY <1>1
  <2>2. SubSeq(t, 1, m + 1) = SubSeq(t, 1, (m + 1) - 1) \o <<t[m + 1]>>
    BY <2>1, SubSeqRecursiveSecond
  <2> QED
    BY <2>1, <2>2
<1> HIDE DEF a, e
<1>4. (s \o a) \o <<e>> = s \o (a \o <<e>>) /\ s \o a \in Seq(S)
    BY <1>2, ConcatOfThree, ConcatProperties, SMTT(30)
<1>5. (s \o a) \o <<e>> = Append(s \o a, e)
    BY <1>2, <1>4, AppendIsConcat
<1> QED
    BY <1>2, <1>3, <1>4, <1>5 DEF a, e


-----------------------------------------------------------------------------
(***************************************************************************)
(* Each element of a sequence replaced by a sequence                       *)
(***************************************************************************)

\* Each element of E is to be replaced by a sequence of elements of C.
Spreads(A, E, C) == A \in [E -> Seq(C)]

Spread(A, s) == FlattenSeq([i \in DOMAIN s |-> A[s[i]]])

\* An element, a sequence and two may come after a sequence, and spread on their own.
SpreadsLast(A, E) ==
    \A s \in Seq(E), e \in E : Spread(A, Append(s, e)) = Spread(A, s) \o A[e]

SpreadsTwo(A, E) ==
    \A s, t \in Seq(E) : Spread(A, s \o t) = Spread(A, s) \o Spread(A, t)

SpreadsThree(A, E) ==
    \A s, t, u \in Seq(E) :
        /\ s \o t \o u \in Seq(E)
        /\ Spread(A, s \o t \o u) = (Spread(A, s) \o Spread(A, t)) \o Spread(A, u)

\* So does one more element e, that spreads to d, at the end of three sequences, or of the
\* first two if the third spreads to nothing; ...
SpreadsMore(A, E, e, d) ==
    \A s, t, u \in Seq(E) :
        /\ Append(u, e) \in Seq(E)
        /\ Spread(A, s \o t \o Append(u, e)) = Append(Spread(A, s \o t \o u), d)
        /\ Spread(A, u) = <<>>
             => Spread(A, s \o Append(t, e) \o u) = Append(Spread(A, s \o t \o u), d)

\* ... and what the first element of a sequence spreads to, with all that is before it,
\* comes before the rest.
SpreadsFirst(A, E, C) ==
    \A s, t, u \in Seq(E) : \A d \in C :
        t # <<>> /\ A[Head(t)] = <<d>> =>
            Spread(A, s \o t \o u)
                = Append(Spread(A, s), d) \o Spread(A, <<>> \o Tail(t) \o u)

\* What FlattenSeq is applied to are sequences.
LEMMA SpreadSeq ==
    ASSUME NEW E, NEW C, NEW A, Spreads(A, E, C)
    PROVE  \A s \in Seq(E) : [i \in DOMAIN s |-> A[s[i]]] \in Seq(Seq(C))
<1> SUFFICES ASSUME NEW s \in Seq(E) PROVE [i \in DOMAIN s |-> A[s[i]]] \in Seq(Seq(C))
    OBVIOUS
<1>1. DOMAIN s = 1 .. Len(s) /\ Len(s) \in Nat /\ \A i \in 1 .. Len(s) : A[s[i]] \in Seq(C)
    BY DEF Spreads
<1> QED
    BY <1>1

LEMMA SpreadType ==
    ASSUME NEW E, NEW C, NEW A, Spreads(A, E, C)
    PROVE  \A s \in Seq(E) : Spread(A, s) \in Seq(C)
  BY SpreadSeq, FlattenType DEF Spread

LEMMA SpreadEmpty ==
    ASSUME NEW A
    PROVE  Spread(A, <<>>) = <<>>
  BY FlattenEmpty DEF Spread

\* One more element spreads at the end.
LEMMA SpreadAppend ==
    ASSUME NEW E, NEW C, NEW A, Spreads(A, E, C)
    PROVE  SpreadsLast(A, E)
<1> SUFFICES ASSUME NEW s \in Seq(E), NEW e \in E
             PROVE  Spread(A, Append(s, e)) = Spread(A, s) \o A[e]
    BY DEF SpreadsLast
<1> DEFINE Parts(t) == [i \in DOMAIN t |-> A[t[i]]]
<1>0. Parts(s) \in Seq(Seq(C))
    BY SpreadSeq
<1>1. Parts(s) \in Seq(Seq(C)) /\ A[e] \in Seq(C)
    BY <1>0 DEF Spreads
<1>2. Parts(Append(s, e)) = Append(Parts(s), A[e])
  <2>1. /\ DOMAIN Append(s, e) = 1 .. Len(s) + 1 /\ Append(s, e)[Len(s) + 1] = e
        /\ DOMAIN s = 1 .. Len(s) /\ Len(s) \in Nat
        /\ \A i \in 1 .. Len(s) : Append(s, e)[i] = s[i]
    OBVIOUS
  <2>2. Len(Parts(s)) = Len(s)
    BY <1>1, <2>1
  <2> QED
    BY <1>1, <2>1, <2>2
<1>3. \A t : Spread(A, t) = FlattenSeq(Parts(t))
    BY DEF Spread
<1> HIDE DEF Parts
<1>4. FlattenSeq(Append(Parts(s), A[e])) = FlattenSeq(Parts(s)) \o A[e]
    BY <1>1, FlattenAppend, Zenon
<1> QED
    BY <1>2, <1>3, <1>4

\* Two sequences may spread one after the other, ...
LEMMA SpreadConcat ==
    ASSUME NEW E, NEW C, NEW A, Spreads(A, E, C)
    PROVE  SpreadsTwo(A, E)
<1> SUFFICES ASSUME NEW s \in Seq(E), NEW t \in Seq(E)
             PROVE  Spread(A, s \o t) = Spread(A, s) \o Spread(A, t)
    BY DEF SpreadsTwo
<1> DEFINE T == {n \in Nat : \A u \in Seq(E) :
                     Len(u) = n => Spread(A, s \o u) = Spread(A, s) \o Spread(A, u)}
<1>1. 0 \in T
  <2> SUFFICES ASSUME NEW u \in Seq(E), Len(u) = 0
               PROVE  Spread(A, s \o u) = Spread(A, s) \o Spread(A, u)
    OBVIOUS
  <2>1. u = <<>> /\ s \o <<>> = s
    BY EmptySeq, ConcatEmptySeq
  <2>2. Spread(A, s) \o <<>> = Spread(A, s)
    BY SpreadType, ConcatEmptySeq
  <2> QED
    BY <2>1, <2>2, SpreadEmpty
<1>2. ASSUME NEW n \in Nat, n \in T PROVE n + 1 \in T
  <2> SUFFICES ASSUME NEW u \in Seq(E), Len(u) = n + 1
               PROVE  Spread(A, s \o u) = Spread(A, s) \o Spread(A, u)
    OBVIOUS
  <2>1. u # <<>>
    BY EmptySeq
  <2>2. PICK front \in Seq(E), last \in E : u = Append(front, last) /\ Len(u) = Len(front) + 1
    BY <2>1, LastApart
  <2>3. Len(front) = n /\ s \o front \in Seq(E)
    BY <2>2, LenProperties, ConcatProperties
  <2>4. s \o u = Append(s \o front, last)
    BY <2>2, <2>3
  <2> DEFINE a == Spread(A, s)
             b == Spread(A, front)
             c == A[last]
  <2>5. a \in Seq(C) /\ b \in Seq(C) /\ c \in Seq(C)
    BY SpreadType DEF Spreads
  <2>0. SpreadsLast(A, E)
    BY SpreadAppend
  <2>6. Spread(A, s \o u) = (a \o b) \o c
    <3>1. Spread(A, Append(s \o front, last)) = Spread(A, s \o front) \o c
        BY <2>0, <2>3 DEF SpreadsLast
    <3>2. Spread(A, s \o front) = a \o b
        BY <1>2, <2>3
    <3> QED
        BY <2>4, <3>1, <3>2
  <2>7. Spread(A, u) = b \o c
    BY <2>0, <2>2 DEF SpreadsLast
  <2> HIDE DEF a, b, c
  <2>8. (a \o b) \o c = a \o (b \o c)
    BY <2>5, ConcatOfThree, SMTT(30)
  <2> QED
    BY <2>6, <2>7, <2>8 DEF a
<1>3. Nat \subseteq T
    BY <1>1, <1>2, SetInduction
<1>4. Len(t) \in T
    BY <1>3, LenProperties
<1> QED
    BY <1>4

\* ... and so may three.
LEMMA SpreadThree ==
    ASSUME NEW E, NEW C, NEW A, Spreads(A, E, C)
    PROVE  SpreadsThree(A, E)
<1> SUFFICES ASSUME NEW s \in Seq(E), NEW t \in Seq(E), NEW u \in Seq(E)
             PROVE  /\ s \o t \o u \in Seq(E)
                    /\ Spread(A, s \o t \o u) = (Spread(A, s) \o Spread(A, t)) \o Spread(A, u)
    BY DEF SpreadsThree
<1>1. s \o t \in Seq(E) /\ (s \o t) \o u \in Seq(E)
    BY ConcatProperties
<1>2. SpreadsTwo(A, E)
    BY SpreadConcat
<1>3. Spread(A, (s \o t) \o u) = Spread(A, s \o t) \o Spread(A, u)
    BY <1>1, <1>2 DEF SpreadsTwo
<1>4. Spread(A, s \o t) = Spread(A, s) \o Spread(A, t)
    BY <1>2 DEF SpreadsTwo
<1> QED
    BY <1>1, <1>3, <1>4

\* An element at the end of the last of two sequences.
LEMMA LastAppended ==
    ASSUME NEW S, NEW s \in Seq(S), NEW t \in Seq(S), NEW e \in S
    PROVE  s \o (t \o <<e>>) = Append(s \o t, e)
<1>1. Append(s \o t, e) = (s \o t) \o <<e>> /\ <<e>> \in Seq(S)
    BY AppendIsConcat, ConcatProperties
<1>2. (s \o t) \o <<e>> = s \o (t \o <<e>>)
    BY <1>1, ConcatOfThree, SMTT(30)
<1> QED
    BY <1>1, <1>2

\* An element that spreads to one of its own.
LEMMA SpreadMore ==
    ASSUME NEW E, NEW C, NEW A, Spreads(A, E, C), NEW e \in E, NEW d \in C, A[e] = <<d>>
    PROVE  SpreadsMore(A, E, e, d)
<1> SUFFICES ASSUME NEW s \in Seq(E), NEW t \in Seq(E), NEW u \in Seq(E)
             PROVE  /\ Append(u, e) \in Seq(E)
                    /\ Spread(A, s \o t \o Append(u, e)) = Append(Spread(A, s \o t \o u), d)
                    /\ Spread(A, u) = <<>>
                        => Spread(A, s \o Append(t, e) \o u) = Append(Spread(A, s \o t \o u), d)
    BY DEF SpreadsMore
<1> DEFINE a == Spread(A, s)
           b == Spread(A, t)
           c == Spread(A, u)
           v == Append(u, e)
           w == Append(t, e)
<1>0. SpreadsLast(A, E) /\ SpreadsThree(A, E)
    BY SpreadAppend, SpreadThree
<1>1. /\ v \in Seq(E) /\ Spread(A, v) = c \o <<d>>
      /\ w \in Seq(E) /\ Spread(A, w) = b \o <<d>>
  <2>1. Spread(A, v) = c \o A[e] /\ Spread(A, w) = b \o A[e]
    BY <1>0, Zenon DEF SpreadsLast
  <2> QED
    BY <2>1, AppendProperties
<1>2. a \in Seq(C) /\ b \in Seq(C) /\ c \in Seq(C) /\ a \o b \in Seq(C)
    BY SpreadType, ConcatProperties
<1> HIDE DEF v, w
<1>3. /\ Spread(A, s \o t \o v) = (a \o b) \o Spread(A, v)
      /\ Spread(A, s \o w \o u) = (a \o Spread(A, w)) \o c
      /\ Spread(A, s \o t \o u) = (a \o b) \o c
    BY <1>0, <1>1, Zenon DEF SpreadsThree
<1> HIDE DEF a, b, c
<1>4. (a \o b) \o (c \o <<d>>) = Append((a \o b) \o c, d)
    BY <1>2, LastAppended
<1>5. a \o (b \o <<d>>) = Append(a \o b, d) /\ Append(a \o b, d) \in Seq(C)
    BY <1>2, LastAppended, AppendProperties
<1>6. (a \o b) \o <<>> = a \o b /\ Append(a \o b, d) \o <<>> = Append(a \o b, d)
    BY <1>2, <1>5, ConcatEmptySeq
<1> QED
    BY <1>1, <1>3, <1>4, <1>5, <1>6 DEF v, w, c

\* One that spreads to nothing.
LEMMA SpreadNoMore ==
    ASSUME NEW E, NEW C, NEW A, Spreads(A, E, C), NEW e \in E, A[e] = <<>>
    PROVE  \A s, t, u \in Seq(E) :
               /\ Append(u, e) \in Seq(E)
               /\ Spread(A, Append(u, e)) = Spread(A, u)
               /\ Spread(A, s \o t \o Append(u, e)) = Spread(A, s \o t \o u)
<1> SUFFICES ASSUME NEW s \in Seq(E), NEW t \in Seq(E), NEW u \in Seq(E)
             PROVE  /\ Append(u, e) \in Seq(E)
                    /\ Spread(A, Append(u, e)) = Spread(A, u)
                    /\ Spread(A, s \o t \o Append(u, e)) = Spread(A, s \o t \o u)
    OBVIOUS
<1> DEFINE v == Append(u, e)
<1>0. Spread(A, v) = Spread(A, u) \o A[e]
  <2>1. SpreadsLast(A, E)
    BY SpreadAppend
  <2> QED
    BY <2>1 DEF SpreadsLast
<1>1. v \in Seq(E) /\ Spread(A, v) = Spread(A, u) \o <<>>
    BY <1>0
<1>2. Spread(A, v) = Spread(A, u)
    BY <1>1, SpreadType, ConcatEmptySeq
<1> HIDE DEF v
<1>3. /\ Spread(A, s \o t \o v) = (Spread(A, s) \o Spread(A, t)) \o Spread(A, v)
      /\ Spread(A, s \o t \o u) = (Spread(A, s) \o Spread(A, t)) \o Spread(A, u)
  <2>1. SpreadsThree(A, E)
    BY SpreadThree
  <2> QED
    BY <1>1, <2>1, Zenon DEF SpreadsThree
<1> QED
    BY <1>1, <1>2, <1>3 DEF v

\* The first of a sequence may as well be the last of the one before.
LEMMA FirstMoves ==
    ASSUME NEW E, NEW s \in Seq(E), NEW t \in Seq(E), NEW u \in Seq(E), t # <<>>
    PROVE  /\ Head(t) \in E /\ Tail(t) \in Seq(E) /\ Append(s, Head(t)) \in Seq(E)
           /\ s \o t \o u = Append(s, Head(t)) \o Tail(t) \o u
<1> DEFINE e == Head(t)
           r == Tail(t)
<1>1. e \in E /\ r \in Seq(E) /\ t = <<e>> \o r /\ <<e>> \in Seq(E)
    OBVIOUS
<1> HIDE DEF e, r
<1>2. Append(s, e) = s \o <<e>> /\ Append(s, e) \in Seq(E)
    BY <1>1, AppendIsConcat, AppendProperties
<1>3. (s \o <<e>>) \o r = s \o (<<e>> \o r)
    BY <1>1, ConcatOfThree, SMTT(30)
<1>4. s \o t = Append(s, e) \o r
    BY <1>1, <1>2, <1>3
<1> QED
    BY <1>1, <1>2, <1>4 DEF e, r

\* The first element of the second of three sequences.
LEMMA SpreadFirst ==
    ASSUME NEW E, NEW C, NEW A, Spreads(A, E, C)
    PROVE  SpreadsFirst(A, E, C)
<1> SUFFICES ASSUME NEW s \in Seq(E), NEW t \in Seq(E), NEW u \in Seq(E), NEW d \in C,
                    t # <<>>, A[Head(t)] = <<d>>
             PROVE  Spread(A, s \o t \o u)
                        = Append(Spread(A, s), d) \o Spread(A, <<>> \o Tail(t) \o u)
  <2>1. SpreadsFirst(A, E, C) <=>
            \A s, t, u \in Seq(E) : \A d \in C :
                t # <<>> /\ A[Head(t)] = <<d>> =>
                    Spread(A, s \o t \o u)
                        = Append(Spread(A, s), d) \o Spread(A, <<>> \o Tail(t) \o u)
    BY Zenon DEF SpreadsFirst
  <2> QED
    BY <2>1
<1> DEFINE e == Head(t)
           r == Tail(t)
           w == Append(s, e)
           gone == Spread(A, s)
           b == Spread(A, r)
           c == Spread(A, u)
           g == Append(gone, d)
<1>1. e \in E /\ r \in Seq(E) /\ w \in Seq(E) /\ s \o t \o u = w \o r \o u
    BY FirstMoves
<1>2. gone \in Seq(C) /\ b \in Seq(C) /\ c \in Seq(C)
    BY <1>1, SpreadType
<1>3. Spread(A, w) = gone \o <<d>>
  <2>1. Spread(A, w) = gone \o A[e]
    <3>1. SpreadsLast(A, E)
        BY SpreadAppend
    <3> QED
        BY <1>1, <3>1 DEF SpreadsLast
  <2> QED
    BY <2>1
<1>4. g \in Seq(C) /\ gone \o <<d>> = g
    BY <1>2, AppendIsConcat
<1> HIDE DEF e, r, w
<1>0. SpreadsThree(A, E)
    BY SpreadThree
<1>5. Spread(A, w \o r \o u) = (Spread(A, w) \o b) \o c
    BY <1>0, <1>1, Zenon DEF SpreadsThree
<1>6. Spread(A, <<>> \o r \o u) = (Spread(A, <<>>) \o b) \o c
  <2>1. <<>> \in Seq(E)
    OBVIOUS
  <2> QED
    BY <1>0, <1>1, <2>1, Zenon DEF SpreadsThree
<1> HIDE DEF gone, b, c, g
<1>7. Spread(A, <<>> \o r \o u) = b \o c
    BY <1>2, <1>6, SpreadEmpty, ConcatEmptySeq
<1>8. (g \o b) \o c = g \o (b \o c)
    BY <1>2, <1>4, ConcatOfThree, SMTT(30)
<1>9. Spread(A, s \o t \o u) = g \o Spread(A, <<>> \o r \o u)
    BY <1>1, <1>3, <1>4, <1>5, <1>7, <1>8
<1> QED
    BY <1>9 DEF g, r, gone

\* A part of a sequence that nothing comes after is its suffix.
LEMMA EndIsSuffix ==
    ASSUME NEW S, NEW p \in Seq(S), NEW t \in Seq(S), NEW h, h = p \o t
    PROVE  /\ IsSuffix(t, h) /\ Len(h) - Len(t) = Len(p) /\ Len(p) \in Nat
           /\ Len(p) # 0 => h[Len(p)] = p[Len(p)]
           /\ Len(p) = 0 => p = <<>>
<1>1. /\ h \in Seq(S) /\ Len(h) = Len(p) + Len(t) /\ Len(p) \in Nat /\ Len(t) \in Nat
      /\ \A i \in 1 .. Len(t) : h[Len(p) + i] = t[i]
      /\ \A i \in 1 .. Len(p) : h[i] = p[i]
    BY ConcatProperties, LenProperties
<1>2. Len(p) = 0 => p = <<>>
    BY EmptySeq
<1> DEFINE n == Len(t)
           rt == Reverse(t)
           rh == Reverse(h)
<1>3. /\ Len(rt) = n /\ Len(rh) = Len(h)
      /\ \A i \in 1 .. n : rt[i] = t[n - i + 1] /\ rh[i] = h[Len(h) - i + 1]
      /\ rt \in Seq(S) /\ rh \in Seq(S)
    BY <1>1 DEF Reverse
<1> HIDE DEF rt, rh
<1>4. \A i \in 1 .. n : rt[i] = rh[i]
  <2> SUFFICES ASSUME NEW i \in 1 .. n PROVE rt[i] = rh[i]
    OBVIOUS
  <2>1. n - i + 1 \in 1 .. n /\ Len(h) - i + 1 = Len(p) + (n - i + 1)
    BY <1>1
  <2> QED
    BY <1>1, <1>3, <2>1
<1>5. SubSeq(rt, 1, n) = SubSeq(rh, 1, n)
    BY <1>1, <1>3, <1>4
<1>6. IsSuffix(t, h)
    BY <1>1, <1>3, <1>5 DEF IsSuffix, IsPrefix, rt, rh
<1> QED
    BY <1>1, <1>2, <1>6

-----------------------------------------------------------------------------
(***************************************************************************)
(* Total: its range, a point changed, and the zero function                *)
(***************************************************************************)

\* The integers from 1 to n are n in number.
LEMMA IntervalCount ==
    ASSUME NEW n \in Nat
    PROVE  IsFiniteSet(1 .. n) /\ Cardinality(1 .. n) = n
<1>1. 1 \in Int /\ n \in Int
    OBVIOUS
<1>2. /\ IsFiniteSet(1 .. n)
      /\ Cardinality(1 .. n) = IF 1 > n THEN 0 ELSE n - 1 + 1
    BY <1>1, FS_Interval, Zenon
<1> QED
    BY <1>2

\* A total is a natural number, at most the number of terms times their bound.
LEMMA TotalRange ==
    ASSUME NEW S, IsFiniteSet(S), NEW bound \in Nat, NEW f
    PROVE  /\ IsFiniteSet(Under(f, S, bound))
           /\ Total(f, S, bound) \in Nat
           /\ Total(f, S, bound) <= Cardinality(S) * bound
<1>1. IsFiniteSet(1 .. bound) /\ Cardinality(1 .. bound) = bound
    BY IntervalCount
<1>2. /\ IsFiniteSet(S \X (1 .. bound))
      /\ Cardinality(S \X (1 .. bound)) = Cardinality(S) * Cardinality(1 .. bound)
    BY <1>1, FS_Product, Zenon
<1>3. Under(f, S, bound) \in SUBSET (S \X (1 .. bound))
    BY DEF Under
<1>4. /\ IsFiniteSet(Under(f, S, bound))
      /\ Cardinality(Under(f, S, bound)) <= Cardinality(S \X (1 .. bound))
    BY <1>2, <1>3, FS_Subset, Zenon
<1>5. Cardinality(Under(f, S, bound)) \in Nat
    BY <1>4, FS_CardinalityType, Zenon
<1> QED
    BY <1>1, <1>2, <1>4, <1>5 DEF Total

\* The total of the zero function is zero.
LEMMA TotalOfZeros ==
    ASSUME NEW S, NEW bound \in Nat, NEW f, \A x \in S : f[x] = 0
    PROVE  Total(f, S, bound) = 0
<1>1. Under(f, S, bound) = {}
    BY DEF Under
<1> QED
    BY <1>1, FS_EmptySet DEF Total

\* The part of the graph that does not belong to x.
Elsewhere(f, S, bound, x) == {u \in S \X (1 .. bound) : u[1] # x /\ u[2] <= f[u[1]]}

\* A total is the term at x and the count of the points elsewhere.
LEMMA TotalSplit ==
    ASSUME NEW S, IsFiniteSet(S), NEW bound \in Nat, NEW f,
           NEW x \in S, f[x] \in 0 .. bound
    PROVE  /\ Cardinality(Elsewhere(f, S, bound, x)) \in Nat
           /\ Total(f, S, bound) = Cardinality(Elsewhere(f, S, bound, x)) + f[x]
<1> DEFINE R == Elsewhere(f, S, bound, x)
           C == {x} \X (1 .. f[x])
<1>1. IsFiniteSet(1 .. f[x]) /\ Cardinality(1 .. f[x]) = f[x]
    BY IntervalCount
<1>2. IsFiniteSet({x}) /\ Cardinality({x}) = 1
    BY FS_Singleton, Zenon
<1>3. IsFiniteSet(C) /\ Cardinality(C) = Cardinality({x}) * Cardinality(1 .. f[x])
    BY <1>1, <1>2, FS_Product, Zenon
<1>4. Cardinality(C) = f[x]
    BY <1>1, <1>2, <1>3
<1>5. IsFiniteSet(Under(f, S, bound))
    BY TotalRange
<1>6. R \in SUBSET Under(f, S, bound)
    BY DEF Under, Elsewhere
<1>7. IsFiniteSet(R)
    BY <1>5, <1>6, FS_Subset, Zenon
<1>8. Cardinality(R) \in Nat
    BY <1>7, FS_CardinalityType, Zenon
<1>9. R \cap C = {}
    BY DEF Elsewhere
<1>10. Under(f, S, bound) = R \cup C
  <2>1. ASSUME NEW u \in Under(f, S, bound) PROVE u \in R \cup C
    <3>1. u \in S \X (1 .. bound) /\ u[2] <= f[u[1]]
        BY <2>1 DEF Under
    <3>2. CASE u[1] = x
        BY <3>1, <3>2
    <3>3. CASE u[1] # x
        BY <3>1, <3>3 DEF Elsewhere
    <3> QED
        BY <3>2, <3>3
  <2>2. C \subseteq Under(f, S, bound)
    BY DEF Under
  <2> QED
    BY <2>1, <2>2, <1>6
<1>11. Cardinality(R \cup C) = Cardinality(R) + Cardinality(C) - Cardinality(R \cap C)
    BY <1>3, <1>7, FS_Union, Zenon
<1>12. Cardinality(R \cap C) = 0
    BY <1>9, FS_EmptySet
<1> QED
    BY <1>4, <1>8, <1>10, <1>11, <1>12 DEF Total

\* Changing f at one point changes the total by the difference.
LEMMA TotalUpdate ==
    ASSUME NEW S, IsFiniteSet(S), NEW bound \in Nat, NEW f, NEW g,
           NEW x \in S, f[x] \in 0 .. bound, g[x] \in 0 .. bound,
           \A y \in S \ {x} : g[y] = f[y]
    PROVE  Total(g, S, bound) = Total(f, S, bound) - f[x] + g[x]
<1>1. Elsewhere(g, S, bound, x) = Elsewhere(f, S, bound, x)
    BY DEF Elsewhere
<1>2. /\ Cardinality(Elsewhere(f, S, bound, x)) \in Nat
      /\ Total(f, S, bound) = Cardinality(Elsewhere(f, S, bound, x)) + f[x]
    BY TotalSplit
<1>3. Total(g, S, bound) = Cardinality(Elsewhere(g, S, bound, x)) + g[x]
    BY TotalSplit
<1> QED
    BY <1>1, <1>2, <1>3

\* Equal functions have equal totals.
LEMMA TotalSame ==
    ASSUME NEW S, NEW bound \in Nat, NEW f, NEW g, \A x \in S : g[x] = f[x]
    PROVE  Total(g, S, bound) = Total(f, S, bound)
<1>1. Under(g, S, bound) = Under(f, S, bound)
    BY DEF Under
<1> QED
    BY <1>1 DEF Total

\* Without one of its terms a total is less by that term.
LEMMA TotalWithout ==
    ASSUME NEW S, IsFiniteSet(S), NEW bound \in Nat, NEW f, NEW g,
           NEW x \in S, f[x] \in 0 .. bound, \A y \in S \ {x} : g[y] = f[y]
    PROVE  Total(f, S, bound) = Total(g, S \ {x}, bound) + f[x]
<1>1. Under(g, S \ {x}, bound) = Elsewhere(f, S, bound, x)
    BY DEF Under, Elsewhere
<1> QED
    BY <1>1, TotalSplit DEF Total

\* A quotient by more than the factor is not more than was divided.
LEMMA ShareBound ==
    ASSUME NEW n \in Nat, NEW t \in Nat, NEW d \in Nat \ {0}, t < d
    PROVE  (n * t) \div d \in 0 .. n
<1> DEFINE m == n * t
           q == m \div d
<1>1. m \in Nat
    OBVIOUS
<1> HIDE DEF m
<1>2. q \in Nat /\ d * q <= m
    BY <1>1
<1> HIDE DEF q
<1>3. SUFFICES ASSUME q >= n + 1 PROVE FALSE
    BY <1>2 DEF q, m
<1>4. d * q >= d * (n + 1)
    BY <1>2, <1>3
<1>5. d * (n + 1) = n * d + d /\ n * d >= n * t
    OBVIOUS
<1> QED
    BY <1>2, <1>4, <1>5 DEF m

================================================================================
