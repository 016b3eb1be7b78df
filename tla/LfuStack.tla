------------------------------- MODULE LfuStack --------------------------------
(***************************************************************************)
(* The stack of the lfu policy (and of auto until it chooses another): a   *)
(* VecList of count stacks, one per number of uses, and a map from each    *)
(* key to the VecList index of its count stack.  An index stays with its   *)
(* entry while other entries come and go: an identity, not a position.     *)
(***************************************************************************)
EXTENDS HashLists

\* count_stacks holds records [index, count, list], the fewest uses in front.
New == [index_map |-> [k \in {} |-> 0], count_stacks |-> <<>>]

Keys(stack) == DOMAIN stack.index_map

\* An index for a new entry of the VecList.
FreshIndex(entries) ==
    LET taken == {entries[i].index : i \in DOMAIN entries}
    IN  CHOOSE n \in 1 .. Len(entries) + 1 : n \notin taken /\ \A m \in 1 .. n - 1 : m \in taken

\* The position of the entry that index_map names for the key.
EntryOf(stack, k) ==
    CHOOSE i \in DOMAIN stack.count_stacks : stack.count_stacks[i].index = stack.index_map[k]

\* All keys, those of the fewest uses last and oldest last.
InOrder(stack) ==
    LET n == Len(stack.count_stacks)
        joined[i \in 0 .. n] ==
            IF i = 0 THEN <<>> ELSE stack.count_stacks[i].list \o joined[i - 1]
    IN  joined[n]

UsesOf(stack, k) == stack.count_stacks[EntryOf(stack, k)].count

\* Faulty variant of Reduced: an emptied count stack stays in the VecList.
ReducedKeeping(entry, k) == <<[entry EXCEPT !.list = Omit(@, k)]>>

\* The entry without the key, dropped from the VecList if that empties it.
Reduced(entry, k) ==
    IF Omit(entry.list, k) = <<>> THEN <<>> ELSE <<[entry EXCEPT !.list = Omit(@, k)]>>

\* The entry with the key in front, if it has that count, or else a new entry.
Joined(entries, i, count, k) ==
    IF i \in DOMAIN entries /\ entries[i].count = count
    THEN [entries[i] EXCEPT !.list = PushFront(@, k)]
    ELSE [index |-> FreshIndex(entries), count |-> count, list |-> <<k>>]

Indexed(map, k, index) == [j \in DOMAIN map \cup {k} |-> IF j = k THEN index ELSE map[j]]

\* on to the next count stack if it has one use more, or to a new one.
Update(stack, k) ==
    IF k \notin Keys(stack) THEN stack
    ELSE LET entries == stack.count_stacks
             i       == EntryOf(stack, k)
             next    == Joined(entries, i + 1, entries[i].count + 1, k)
             joins   == next.index \in {entries[j].index : j \in DOMAIN entries}
         IN  [index_map    |-> Indexed(stack.index_map, k, next.index),
              count_stacks |-> SubSeq(entries, 1, i - 1) \o Reduced(entries[i], k)
                                 \o <<next>>
                                 \o SubSeq(entries, IF joins THEN i + 2 ELSE i + 1, Len(entries))]

\* Faulty variant of Insert: whatever count stack is in front takes a new key.
InsertAnywhere(stack, k) ==
    IF k \in Keys(stack) THEN Update(stack, k)
    ELSE LET entries == stack.count_stacks
             front   == Joined(entries, 1, IF entries = <<>> THEN 1 ELSE Head(entries).count, k)
         IN  [index_map    |-> Indexed(stack.index_map, k, front.index),
              count_stacks |-> <<front>> \o SubSeq(entries, 2, Len(entries))]

\* A new key joins the count stack of one use, made if it is not there.
Insert(stack, k) ==
    IF k \in Keys(stack) THEN Update(stack, k)
    ELSE LET entries == stack.count_stacks
             front   == Joined(entries, 1, 1, k)
             joins   == entries # <<>> /\ front.index = Head(entries).index
         IN  [index_map    |-> Indexed(stack.index_map, k, front.index),
              count_stacks |-> <<front>> \o (IF joins THEN Tail(entries) ELSE entries)]

Remove(stack, k) ==
    IF k \notin Keys(stack) THEN stack
    ELSE LET entries == stack.count_stacks
             i       == EntryOf(stack, k)
         IN  [index_map    |-> [j \in Keys(stack) \ {k} |-> stack.index_map[j]],
              count_stacks |-> SubSeq(entries, 1, i - 1) \o Reduced(entries[i], k)
                                 \o SubSeq(entries, i + 1, Len(entries))]

\* The back of the count stack in front: remove of a key of the fewest uses.
EvictOne(stack) ==
    IF stack.count_stacks = <<>> THEN Evicting(NoKey, stack)
    ELSE LET entries == stack.count_stacks
             k       == Back(Head(entries).list)
         IN  Evicting(k, [index_map    |-> [j \in Keys(stack) \ {k} |-> stack.index_map[j]],
                          count_stacks |-> Reduced(Head(entries), k) \o Tail(entries)])

(***************************************************************************)
(* What the unwraps of update, remove and CountStack::pop rest on.         *)
(***************************************************************************)
Consistent(stack) ==
    LET entries == stack.count_stacks
    IN  /\ \A k \in Keys(stack) : \E i \in DOMAIN entries :
               entries[i].index = stack.index_map[k] /\ Has(entries[i].list, k)
        /\ \A i \in DOMAIN entries :
               /\ entries[i].list # <<>>
               /\ \A j \in DOMAIN entries : i < j => entries[i].count < entries[j].count
               /\ \A k \in Elements(entries[i].list) :
                      k \in Keys(stack) /\ stack.index_map[k] = entries[i].index

================================================================================
