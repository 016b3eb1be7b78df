---------------------------- MODULE SThreeFifoStack ----------------------------
(***************************************************************************)
(* The stack of the s3-fifo policy: small for new keys, main for keys used *)
(* more than once while in small, and ghost, which remembers keys evicted  *)
(* from small so that they enter main when they come back.                 *)
(***************************************************************************)
EXTENDS SizedStacks

CONSTANT Ratio  \* SThreeFifoStack::ratio, the share of small

MaxFreq == 3

\* ((1.0 - ratio) * max_size) as u64; the maximum size of small is never read.
MainSize(max_size) == ((Scale - Ratio) * max_size) \div Scale

New(max_size) ==
    [small |-> NoStack, main |-> NoStack, ghost |-> <<>>, main_size |-> MainSize(max_size)]

Keys(stack) == KeysOf(stack.small.list) \cup KeysOf(stack.main.list)

IncrFreq(o) == [o EXCEPT !.freq = IF @ < MaxFreq THEN @ + 1 ELSE @]

\* update of the object in whichever stack holds it.
Used(st, k) ==
    IF Holds(st, k)
    THEN [st EXCEPT !.list[PositionOf(st.list, k)] = IncrFreq(ObjectOf(st, k))]
    ELSE st

Update(stack, k) == [stack EXCEPT !.small = Used(@, k), !.main = Used(@, k)]

NewObject(k, s) == [key |-> k, size |-> s, freq |-> 0]

Resized(stack, k, s) == [stack EXCEPT !.small = Sized(@, k, s), !.main = Sized(@, k, s)]

\* A key in ghost stays there when it enters main.
Insert(stack, k, s) ==
    IF k \in Keys(stack) THEN Update(Resized(stack, k, s), k)
    ELSE IF Has(stack.ghost, k) THEN [stack EXCEPT !.main = Push(@, NewObject(k, s))]
    ELSE [stack EXCEPT !.small = Push(@, NewObject(k, s))]

Remove(stack, k) ==
    [stack EXCEPT !.small = Without(@, k), !.main = Without(@, k), !.ghost = Omit(@, k)]

Resize(stack, max_size) == [stack EXCEPT !.main_size = MainSize(max_size)]

Clear(stack) == [stack EXCEPT !.small = NoStack, !.main = NoStack, !.ghost = <<>>]

IsFull(stack, used) == used >= stack.main_size

(***************************************************************************)
(* evict_main: the loop takes one use off every object it passes, so it    *)
(* ends at the rearmost object with the fewest uses after that many rounds.*)
(***************************************************************************)
FewestUses(list) ==
    CHOOSE f \in 0 .. MaxFreq :
        /\ \E i \in DOMAIN list : list[i].freq = f
        /\ \A i \in DOMAIN list : list[i].freq >= f

Rearmost(list) ==
    CHOOSE i \in DOMAIN list :
        /\ list[i].freq = FewestUses(list)
        /\ \A j \in i + 1 .. Len(list) : list[j].freq # FewestUses(list)

\* Faulty variant of LessUsed: every object passed loses one use, once.
LessUsedOnce(list, n) ==
    [i \in DOMAIN list |-> [list[i] EXCEPT !.freq = IF @ = 0 THEN 0 ELSE @ - 1]]

LessUsed(list, n) == [i \in DOMAIN list |-> [list[i] EXCEPT !.freq = @ - n]]

EvictMain(stack) ==
    IF stack.main.list = <<>> THEN Evicting(NoKey, stack)
    ELSE LET list   == stack.main.list
             i      == Rearmost(list)
             rounds == FewestUses(list)
             left   == LessUsed(SubSeq(list, i + 1, Len(list)), rounds + 1)
                         \o LessUsed(SubSeq(list, 1, i - 1), rounds)
             keep   == IF Len(stack.ghost) < Len(left) THEN Len(stack.ghost) ELSE Len(left)
         IN  Evicting(list[i].key,
                      [stack EXCEPT !.main = [list |-> left, used |-> @.used - list[i].size],
                                    !.ghost = SubSeq(@, 1, keep)])

(***************************************************************************)
(* evict_small: objects used more than once go from the back of small to   *)
(* the front of main, until main is full, small is empty, or an object was *)
(* not used enough.  None go when main is full to begin with.              *)
(***************************************************************************)
LastOfSmall(stack, n) ==
    SubSeq(stack.small.list, Len(stack.small.list) - n + 1, Len(stack.small.list))

StopsAfter(stack, n) ==
    \/ IsFull(stack, stack.main.used + SumOfSizes(LastOfSmall(stack, n)))
    \/ n = Len(stack.small.list)
    \/ stack.small.list[Len(stack.small.list) - n].freq <= 1

Promoted(stack) == CHOOSE n \in 0 .. Len(stack.small.list) :
    StopsAfter(stack, n) /\ \A m \in 0 .. n - 1 : ~StopsAfter(stack, m)

EvictOne(stack) ==
    LET n     == Promoted(stack)
        moved == LastOfSmall(stack, n)
        after == [stack EXCEPT
                     !.small = [list |-> SubSeq(@.list, 1, Len(@.list) - n),
                                used |-> @.used - SumOfSizes(moved)],
                     !.main = [list |-> moved \o @.list, used |-> @.used + SumOfSizes(moved)]]
    IN  IF IsFull(after, after.main.used) \/ after.small.list = <<>>
        THEN EvictMain(after)
        ELSE Evicting(Popped(after.small).key,
                      [after EXCEPT !.small = Rest(@),
                                    !.ghost = PushFront(@, Popped(after.small).key)])

(***************************************************************************)
(* Each used size is the sum of its list, a key is in at most one of small *)
(* and main, and no key of small is remembered as evicted from it.         *)
(***************************************************************************)
Consistent(stack) ==
    /\ SumKept(stack.small) /\ SumKept(stack.main)
    /\ NoRepeats(KeySeq(stack.small) \o KeySeq(stack.main)) /\ NoRepeats(stack.ghost)
    /\ \A k \in KeysOf(stack.small.list) : ~Has(stack.ghost, k)

================================================================================
