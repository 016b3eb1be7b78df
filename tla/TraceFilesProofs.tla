--------------------------- MODULE TraceFilesProofs ---------------------------
(***************************************************************************)
(* The shared offsets of the trace's files, for any number of readers, any *)
(* events and any widths.                                                  *)
(***************************************************************************)
EXTENDS TraceFiles, DataLemmas

IsSequence(s) == s \in Seq({s[i] : i \in DOMAIN s})

\* The fields of a fragment and of a reader.
FragmentFields == {"created", "bytes", "offset", "pending", "holder"}
ReaderFields == {"at", "index", "start", "count", "owed", "result"}

\* Some bytes, and some in the buffer.
IsFragment(f) ==
    /\ IsSequence(f.bytes) /\ IsSequence(f.pending)
    /\ DOMAIN f = FragmentFields

\* The record of a thread that reads, which counts fragments from one.
IsReader(r) ==
    /\ DOMAIN r = ReaderFields
    /\ r.index \in Nat
    /\ r.at = "lock" => r.index > 0

AtItsEnd(f) == f.holder = NoReader => f.offset = Len(f.bytes)

Files == IsSequence(fragments) /\ \A i \in DOMAIN fragments : IsFragment(fragments[i])

\* Who reads a fragment holds it, and knows where its end is.
ReadersKnow ==
    \A r \in Readers : readers[r].at = "read" =>
        /\ readers[r].index \in DOMAIN fragments
        /\ fragments[readers[r].index].holder = r
        /\ readers[r].start = Len(fragments[readers[r].index].bytes)

-----------------------------------------------------------------------------

LEMMA OwnElements ==
    ASSUME NEW S, NEW t \in Seq(S)
    PROVE  IsSequence(t)
<1> DEFINE T == {t[j] : j \in DOMAIN t}
<1>1. DOMAIN t = 1 .. Len(t) /\ \A j \in 1 .. Len(t) : t[j] \in T
    OBVIOUS
<1> HIDE DEF T
<1>2. t \in Seq(T)
    BY <1>1
<1> QED
    BY <1>2 DEF T, IsSequence

LEMMA Concatenation ==
    ASSUME NEW s, IsSequence(s), NEW t, IsSequence(t)
    PROVE  IsSequence(s \o t) /\ Len(s \o t) = Len(s) + Len(t)
<1> DEFINE S == {s[i] : i \in DOMAIN s}
           T == {t[i] : i \in DOMAIN t}
<1>1. s \in Seq(S) /\ t \in Seq(T)
    BY DEF IsSequence
<1> HIDE DEF S, T
<1>2. s \in Seq(S \cup T) /\ t \in Seq(S \cup T)
    BY <1>1, SeqMonotonic
<1>3. s \o t \in Seq(S \cup T) /\ Len(s \o t) = Len(s) + Len(t)
    BY <1>2, ConcatProperties
<1> QED
    BY <1>3, OwnElements

\* What is written at the end of a file is appended to it.
LEMMA WrittenAtTheEnd ==
    ASSUME NEW f, IsFragment(f), f.offset = Len(f.bytes), NEW data, IsSequence(data)
    PROVE  /\ WrittenTo(f, data).bytes = f.bytes \o data
           /\ WrittenTo(f, data).offset = Len(f.bytes \o data)
           /\ WrittenTo(f, data).pending = f.pending
           /\ WrittenTo(f, data).holder = f.holder
           /\ DOMAIN WrittenTo(f, data) = FragmentFields
<1> DEFINE S == {f.bytes[i] : i \in DOMAIN f.bytes}
           n == Len(f.bytes)
           m == Len(data)
<1>1. f.bytes \in Seq(S) /\ IsSequence(f.bytes)
    BY DEF IsFragment, IsSequence
<1>2. n \in Nat
    BY <1>1
<1>3. m \in Nat
    BY LenProperties DEF IsSequence
<1>4. SubSeq(f.bytes, 1, n) = f.bytes
    BY <1>1, SubSeqFull
<1>5. SubSeq(f.bytes, n + m + 1, n) = <<>>
    BY <1>2, <1>3, SubSeqEmpty
<1>6. IsSequence(f.bytes \o data) /\ Len(f.bytes \o data) = n + m
    BY <1>1, Concatenation
<1>7. (f.bytes \o data) \o <<>> = f.bytes \o data
    BY <1>6, ConcatEmptySeq DEF IsSequence
<1>8. WrittenTo(f, data) =
        [f EXCEPT !.bytes = SubSeq(f.bytes, 1, n) \o data \o SubSeq(f.bytes, n + m + 1, n),
                  !.offset = n + m]
    BY DEF WrittenTo
<1>9. WrittenTo(f, data) = [f EXCEPT !.bytes = f.bytes \o data, !.offset = n + m]
    BY <1>4, <1>5, <1>7, <1>8
<1> HIDE DEF n, m
<1>10. DOMAIN f = FragmentFields
    BY DEF IsFragment
<1> QED
    BY <1>6, <1>9, <1>10 DEF FragmentFields

LEMMA FlushedAtTheEnd ==
    ASSUME NEW f, IsFragment(f), f.offset = Len(f.bytes)
    PROVE  /\ IsFragment(Flushed(f))
           /\ Flushed(f).offset = Len(Flushed(f).bytes)
           /\ Flushed(f).holder = f.holder
<1> DEFINE g == WrittenTo(f, f.pending)
<1>1. /\ g.bytes = f.bytes \o f.pending /\ g.offset = Len(f.bytes \o f.pending)
      /\ g.holder = f.holder /\ DOMAIN g = FragmentFields
    BY WrittenAtTheEnd DEF IsFragment
<1>2. IsSequence(f.bytes \o f.pending)
    BY Concatenation DEF IsFragment
<1>3. IsSequence(<<>>)
    BY DEF IsSequence
<1>4. Flushed(f) = [g EXCEPT !.pending = <<>>]
    BY DEF Flushed
<1> HIDE DEF g
<1> QED
    BY <1>1, <1>2, <1>3, <1>4 DEF IsFragment, FragmentFields

LEMMA BufferedAtTheEnd ==
    ASSUME NEW f, IsFragment(f), f.offset = Len(f.bytes), NEW data, IsSequence(data)
    PROVE  /\ IsFragment(Buffered(f, data))
           /\ Buffered(f, data).offset = Len(Buffered(f, data).bytes)
           /\ Buffered(f, data).holder = f.holder
<1> DEFINE g == IF Len(f.pending) + Len(data) <= Capacity THEN f ELSE Flushed(f)
<1>1. IsFragment(g) /\ g.offset = Len(g.bytes) /\ g.holder = f.holder
    BY FlushedAtTheEnd
<1>2. Buffered(f, data) = [g EXCEPT !.pending = g.pending \o data]
    BY DEF Buffered
<1> HIDE DEF g
<1>3. IsSequence(g.pending \o data)
    BY <1>1, Concatenation DEF IsFragment
<1> QED
    BY <1>1, <1>2, <1>3 DEF IsFragment, FragmentFields

-----------------------------------------------------------------------------

LEMMA BytesSequence ==
    ASSUME NEW n, NEW w \in Nat
    PROVE  IsSequence(Bytes(n, w)) /\ Len(Bytes(n, w)) = w
<1> DEFINE S == {Bytes(n, w)[i] : i \in 1 .. w}
<1>1. Bytes(n, w) \in [1 .. w -> S]
    BY DEF Bytes
<1> HIDE DEF S
<1>2. Bytes(n, w) \in Seq(S)
    BY <1>1, SeqDef
<1>3. Len(Bytes(n, w)) = w
    BY <1>1, <1>2
<1> QED
    BY <1>2, <1>3, OwnElements

LEMMA PaddedSequence ==
    ASSUME NEW b, IsSequence(b), Len(b) <= ChunkSize, ChunkSize \in Nat
    PROVE  IsSequence(Padded(b))
<1> DEFINE zeros == [i \in 1 .. ChunkSize - Len(b) |-> 0]
<1>1. Len(b) \in Nat
    BY LenProperties DEF IsSequence
<1>2. ChunkSize - Len(b) \in Nat
    BY <1>1
<1>3. zeros \in [1 .. ChunkSize - Len(b) -> {0}]
    OBVIOUS
<1> HIDE DEF zeros
<1>4. zeros \in Seq({0})
    BY <1>2, <1>3, SeqDef
<1>5. IsSequence(zeros)
    BY <1>4, OwnElements
<1> QED
    BY <1>5, Concatenation DEF Padded, zeros

LEMMA TaggedSequence ==
    ASSUME NEW tag, NEW b, IsSequence(b)
    PROVE  IsSequence(<<tag>> \o b) /\ Len(<<tag>> \o b) = 1 + Len(b)
<1>1. <<tag>> \in Seq({tag}) /\ Len(<<tag>>) = 1
    OBVIOUS
<1>2. IsSequence(<<tag>>)
    BY <1>1, OwnElements
<1> QED
    BY <1>1, <1>2, Concatenation

LEMMA ChunkSequence == ASSUME NEW e \in TraceEvents PROVE IsSequence(AsChunk(e))
<1>1. /\ KeyWidth \in Nat /\ SizeWidth \in Nat /\ CacheWidth \in Nat /\ ChunkSize \in Nat
      /\ 1 + KeyWidth <= ChunkSize /\ 1 + CacheWidth <= ChunkSize
    BY TraceAssumption DEF ChunkSize
<1> HIDE DEF ChunkSize
<1>p. ASSUME NEW tag, NEW n, NEW w \in Nat, 1 + w <= ChunkSize
      PROVE  IsSequence(Padded(<<tag>> \o Bytes(n, w)))
  <2>1. IsSequence(Bytes(n, w)) /\ Len(Bytes(n, w)) = w
    BY BytesSequence
  <2>2. IsSequence(<<tag>> \o Bytes(n, w)) /\ Len(<<tag>> \o Bytes(n, w)) = 1 + w
    BY <2>1, TaggedSequence
  <2> QED
    BY <1>1, <1>p, <2>2, PaddedSequence
<1>2. CASE e.kind = "Get"
  <2>1. AsChunk(e) = Padded(<<0>> \o Bytes(e.key, KeyWidth))
    BY <1>2 DEF AsChunk
  <2> QED
    BY <1>p, <1>1, <2>1
<1>3. CASE e.kind = "Del"
  <2>1. AsChunk(e) = Padded(<<2>> \o Bytes(e.key, KeyWidth))
    BY <1>3 DEF AsChunk
  <2> QED
    BY <1>p, <1>1, <2>1
<1>4. CASE e.kind = "Resize"
  <2>1. AsChunk(e) = Padded(<<3>> \o Bytes(e.size, CacheWidth))
    BY <1>4 DEF AsChunk
  <2> QED
    BY <1>p, <1>1, <2>1
<1>5. CASE e.kind = "Set"
  <2>1. IsSequence(Bytes(e.key, KeyWidth)) /\ IsSequence(Bytes(e.size, SizeWidth))
    BY <1>1, BytesSequence
  <2>2. IsSequence(<<1>> \o Bytes(e.key, KeyWidth))
    BY <2>1, TaggedSequence
  <2>3. IsSequence((<<1>> \o Bytes(e.key, KeyWidth)) \o Bytes(e.size, SizeWidth))
    BY <2>1, <2>2, Concatenation
  <2> QED
    BY <1>5, <2>3 DEF AsChunk
<1> QED
    BY <1>2, <1>3, <1>4, <1>5 DEF TraceEvents, Get, Set, Del, Resize

-----------------------------------------------------------------------------

TraceInv ==
    /\ Files /\ AtTheEnd /\ ReadersKnow
    /\ pc = "write" => fragments # <<>>
    /\ channel \in Seq(StackEvents) /\ batch \in Seq(StackEvents)
    /\ DOMAIN readers = Readers /\ \A r \in Readers : IsReader(readers[r])

\* One fragment changes, and is at its end if nobody holds it.
LEMMA FragmentChanges ==
    ASSUME Files, AtTheEnd, NEW i \in DOMAIN fragments, NEW f, IsFragment(f), AtItsEnd(f),
           fragments' = [fragments EXCEPT ![i] = f]
    PROVE  /\ Files' /\ AtTheEnd'
           /\ DOMAIN fragments' = DOMAIN fragments
           /\ \A j \in DOMAIN fragments : fragments'[j] = IF j = i THEN f ELSE fragments[j]
<1> DEFINE S == {fragments[j] : j \in DOMAIN fragments} \cup {f}
<1>1. fragments \in Seq(S) /\ f \in S
    BY DEF Files, IsSequence
<1> HIDE DEF S
<1>2. /\ DOMAIN fragments' = DOMAIN fragments
      /\ \A j \in DOMAIN fragments : fragments'[j] = IF j = i THEN f ELSE fragments[j]
      /\ DOMAIN fragments = 1 .. Len(fragments)
    BY <1>1
<1>3. fragments' \in Seq(S)
    BY <1>1, <1>2, ExceptSeq
<1>4. IsSequence(fragments')
    BY <1>3, OwnElements
<1>a. \A j \in DOMAIN fragments : IsFragment(fragments[j]) /\ AtItsEnd(fragments[j])
    BY DEF Files, AtTheEnd, AtItsEnd
<1>5. \A j \in DOMAIN fragments' : IsFragment(fragments'[j]) /\ AtItsEnd(fragments'[j])
    BY <1>2, <1>a
<1>6. Files'
    BY <1>4, <1>5 DEF Files, IsSequence, IsFragment
<1>7. AtTheEnd'
    BY <1>5 DEF AtTheEnd, AtItsEnd
<1> QED
    BY <1>2, <1>6, <1>7

\* While nobody is reading, fragments may come and go.
LEMMA FragmentsComeAndGo ==
    ASSUME NEW S, fragments' \in Seq(S), \A f \in S : IsFragment(f) /\ AtItsEnd(f)
    PROVE  Files' /\ AtTheEnd'
<1>1. IsSequence(fragments')
    BY OwnElements
<1>2. \A j \in DOMAIN fragments' : fragments'[j] \in S
    OBVIOUS
<1>3. \A j \in DOMAIN fragments' : IsFragment(fragments'[j]) /\ AtItsEnd(fragments'[j])
    BY <1>2
<1>4. Files'
    BY <1>1, <1>3 DEF Files, IsSequence, IsFragment
<1>5. AtTheEnd'
    BY <1>3 DEF AtTheEnd, AtItsEnd
<1> QED
    BY <1>4, <1>5

LEMMA TraceInvInit == Init => TraceInv
<1> SUFFICES ASSUME Init PROVE TraceInv
    OBVIOUS
<1>1. fragments = <<>> /\ batch = <<>> /\ pc = "poll"
    BY DEF Init
<1>2. Files /\ AtTheEnd
    BY <1>1 DEF Files, AtTheEnd, IsSequence
<1>3. \A r \in Readers : readers[r].at = "idle"
    BY DEF Init
<1>4. channel \in Seq(StackEvents)
    BY DEF Init, StackEvents, TraceEvents
<1>5. DOMAIN readers = Readers /\ \A r \in Readers : IsReader(readers[r])
    BY DEF Init, IsReader, ReaderFields
<1> QED
    BY <1>1, <1>2, <1>3, <1>4, <1>5 DEF TraceInv, ReadersKnow

\* The readers stay as they are, and so do the fragments they hold.
LEMMA ReadersStay ==
    ASSUME ReadersKnow, UNCHANGED readers, DOMAIN fragments' = DOMAIN fragments,
           \A j \in DOMAIN fragments :
               fragments[j].holder # NoReader => fragments'[j] = fragments[j]
    PROVE  ReadersKnow'
  BY TraceAssumption DEF ReadersKnow

\* One reader goes on, and changes no fragment that another holds.
LEMMA OneReaderGoesOn ==
    ASSUME ReadersKnow, NEW r \in Readers, DOMAIN fragments \subseteq DOMAIN fragments',
           \A q \in Readers \ {r} : readers'[q] = readers[q],
           \A j \in DOMAIN fragments :
               fragments[j].holder \notin {NoReader, r} => fragments'[j] = fragments[j],
           readers'[r].at = "read" =>
               /\ readers'[r].index \in DOMAIN fragments'
               /\ fragments'[readers'[r].index].holder = r
               /\ readers'[r].start = Len(fragments'[readers'[r].index].bytes)
    PROVE  ReadersKnow'
<1> SUFFICES ASSUME NEW q \in Readers \ {r}, readers[q].at = "read"
             PROVE  /\ readers[q].index \in DOMAIN fragments'
                    /\ fragments'[readers[q].index].holder = q
                    /\ readers[q].start = Len(fragments'[readers[q].index].bytes)
    BY DEF ReadersKnow
<1> DEFINE i == readers[q].index
<1>1. i \in DOMAIN fragments /\ fragments[i].holder = q /\ readers[q].start = Len(fragments[i].bytes)
    BY DEF ReadersKnow
<1>2. fragments'[i] = fragments[i]
    BY <1>1, TraceAssumption
<1> QED
    BY <1>1, <1>2

LEMMA TraceInvStep == TraceInv /\ [Next]_vars => TraceInv'
<1> SUFFICES ASSUME TraceInv, [Next]_vars PROVE TraceInv'
    OBVIOUS
<1> DEFINE Reading  == DOMAIN readers = Readers /\ \A r \in Readers : IsReader(readers[r])
           Writing  == pc = "write" => fragments # <<>>
           Channels == channel \in Seq(StackEvents) /\ batch \in Seq(StackEvents)
<1>0. Files /\ AtTheEnd /\ ReadersKnow /\ Writing /\ Channels /\ Reading
    BY DEF TraceInv
<1>f. ASSUME UNCHANGED fragments PROVE Files' /\ AtTheEnd'
    BY <1>0, <1>f DEF Files, AtTheEnd
<1>k. ASSUME UNCHANGED <<fragments, readers>> PROVE ReadersKnow'
    BY <1>0, <1>k DEF ReadersKnow
<1>r. ASSUME UNCHANGED readers PROVE Reading'
    BY <1>0, <1>r DEF IsReader, ReaderFields
<1>c. ASSUME UNCHANGED <<channel, batch>> PROVE Channels'
    BY <1>0, <1>c
<1>n. ASSUME MayChange, UNCHANGED readers PROVE ReadersKnow'
    BY <1>n DEF MayChange, Inside, ReadersKnow
<1>w. ASSUME UNCHANGED fragments, pc' = pc \/ pc' # "write" PROVE Writing'
    BY <1>0, <1>w
<1>1. ASSUME NEW e \in Sent, Send(e) PROVE TraceInv'
  <2>1. Channels'
    BY <1>0, <1>1, SentAssumption DEF Send, workerVars
  <2>2. Writing'
    BY <1>1, <1>w DEF Send, workerVars
  <2> QED
    BY <1>1, <1>f, <1>k, <1>r, <2>1, <2>2 DEF Send, TraceInv
<1>2. ASSUME Tick \/ UNCHANGED vars PROVE TraceInv'
  <2>1. UNCHANGED <<channel, batch, pc, fragments, readers>>
    BY <1>2 DEF Tick, vars, workerVars
  <2> QED
    BY <2>1, <1>f, <1>k, <1>r, <1>c, <1>w DEF TraceInv
<1>3. ASSUME Poll PROVE TraceInv'
  <2>1. Channels'
    BY <1>0, <1>3 DEF Poll
  <2>2. UNCHANGED <<fragments, readers>> /\ pc' # "write"
    BY <1>3 DEF Poll
  <2> QED
    BY <2>1, <2>2, <1>f, <1>k, <1>r, <1>w DEF TraceInv
<1> DEFINE S == {fragments[j] : j \in DOMAIN fragments}
<1>4. fragments \in Seq(S) /\ \A f \in S : IsFragment(f) /\ AtItsEnd(f)
    BY <1>0 DEF Files, IsSequence, AtTheEnd, AtItsEnd
<1> HIDE DEF S
<1>5. ASSUME DropExpired PROVE TraceInv'
  <2>1. /\ MayChange /\ fragments # <<>> /\ fragments' = Tail(fragments)
        /\ pc' = "refresh" /\ UNCHANGED <<channel, batch, readers>>
    BY <1>5 DEF DropExpired, FrontExpired, workerVars
  <2>2. fragments' \in Seq(S)
    BY <1>4, <2>1, HeadTailProperties
  <2>3. Files' /\ AtTheEnd'
    BY <1>4, <2>2, FragmentsComeAndGo
  <2> QED
    BY <2>1, <2>3, <1>n, <1>r, <1>c DEF TraceInv
<1>6. ASSUME Refresh PROVE TraceInv'
  <2>1. KeepOrAdd /\ UNCHANGED <<channel, batch, readers>>
    BY <1>6 DEF Refresh
  <2>2. CASE BackValid
    <3>1. UNCHANGED fragments /\ fragments # <<>>
        BY <2>1, <2>2 DEF KeepOrAdd, BackValid
    <3> QED
        BY <2>1, <3>1, <1>f, <1>k, <1>r, <1>c DEF TraceInv
  <2>3. CASE ~BackValid
    <3>1. MayChange /\ fragments' = Append(fragments, NewFragment)
        BY <2>1, <2>3 DEF KeepOrAdd
    <3>2. IsFragment(NewFragment) /\ AtItsEnd(NewFragment)
        BY DEF NewFragment, IsFragment, FragmentFields, AtItsEnd, IsSequence
    <3> HIDE DEF NewFragment
    <3> DEFINE T == S \cup {NewFragment}
    <3>3. fragments \in Seq(T)
        BY <1>4, SeqMonotonic
    <3>4. fragments' \in Seq(T) /\ fragments' # <<>>
        BY <3>1, <3>3
    <3>5. \A f \in T : IsFragment(f) /\ AtItsEnd(f)
        BY <1>4, <3>2
    <3> HIDE DEF T
    <3>6. Files' /\ AtTheEnd'
        BY <3>4, <3>5, FragmentsComeAndGo
    <3> QED
        BY <2>1, <3>1, <3>4, <3>6, <1>n, <1>r, <1>c DEF TraceInv
  <2> QED
    BY <2>2, <2>3
<1>7. ASSUME WipeTrace PROVE TraceInv'
  <2>1. /\ MayChange /\ fragments' = <<>> /\ batch # <<>> /\ batch' = Tail(batch)
        /\ pc' = "refresh" /\ UNCHANGED <<channel, readers>>
    BY <1>7 DEF WipeTrace
  <2>2. fragments' \in Seq(S)
    BY <2>1
  <2>3. Channels'
    BY <1>0, <2>1, HeadTailProperties
  <2>4. Files' /\ AtTheEnd'
    BY <1>4, <2>2, FragmentsComeAndGo
  <2> QED
    BY <2>1, <2>3, <2>4, <1>n, <1>r DEF TraceInv
<1> DEFINE b == Len(fragments)
<1>8. ASSUME NEW f, IsFragment(f), f.offset = Len(f.bytes), f.holder = fragments[b].holder,
             fragments # <<>>, MayLockBack,
             fragments' = [fragments EXCEPT ![b] = f], UNCHANGED readers
      PROVE  Files' /\ AtTheEnd' /\ ReadersKnow' /\ Reading' /\ fragments' # <<>>
  <2>1. fragments[b].holder = NoReader
    BY <1>8 DEF MayLockBack, Back
  <2>2. AtItsEnd(f) /\ b \in DOMAIN fragments
    BY <1>4, <1>8 DEF AtItsEnd
  <2> HIDE DEF b
  <2>3. /\ Files' /\ AtTheEnd' /\ DOMAIN fragments' = DOMAIN fragments
        /\ \A j \in DOMAIN fragments : fragments'[j] = IF j = b THEN f ELSE fragments[j]
    BY <1>0, <1>8, <2>2, FragmentChanges
  <2>4. ReadersKnow'
    BY <1>0, <1>8, <2>1, <2>3, ReadersStay
  <2> QED
    BY <1>8, <1>r, <2>2, <2>3, <2>4
<1>9. ASSUME fragments # <<>>, MayLockBack
      PROVE  IsFragment(fragments[b]) /\ fragments[b].offset = Len(fragments[b].bytes)
  <2>1. b \in DOMAIN fragments
    BY <1>4, <1>9
  <2> QED
    BY <1>0, <1>9, <2>1 DEF MayLockBack, Back, Files, AtTheEnd
<1>10. ASSUME Write PROVE TraceInv'
  <2> DEFINE f == Buffered(fragments[b], AsChunk(Head(batch)))
  <2>1. /\ pc = "write" /\ batch # <<>> /\ Head(batch) # Wipe /\ MayLockBack
        /\ fragments' = [fragments EXCEPT ![b] = f] /\ batch' = Tail(batch)
        /\ UNCHANGED <<channel, pc, readers>>
    BY <1>10 DEF Write
  <2>2. Head(batch) \in TraceEvents /\ Channels'
    BY <1>0, <2>1, HeadTailProperties DEF StackEvents
  <2>3. IsSequence(AsChunk(Head(batch)))
    BY <2>2, ChunkSequence
  <2>4. fragments # <<>>
    BY <1>0, <2>1
  <2>5. IsFragment(f) /\ f.offset = Len(f.bytes) /\ f.holder = fragments[b].holder
    BY <1>9, <2>1, <2>3, <2>4, BufferedAtTheEnd
  <2> HIDE DEF f, b
  <2> QED
    BY <1>8, <2>1, <2>2, <2>4, <2>5 DEF TraceInv
<1>11. ASSUME Flush PROVE TraceInv'
  <2> DEFINE f == Flushed(fragments[b])
  <2>1. /\ pc = "write" /\ pc' = "poll" /\ UNCHANGED <<channel, batch, readers>>
    BY <1>11 DEF Flush
  <2>2. CASE ~should_flush
    <3>1. UNCHANGED fragments
        BY <1>11, <2>2 DEF Flush
    <3> QED
        BY <2>1, <3>1, <1>f, <1>k, <1>r, <1>c DEF TraceInv
  <2>3. CASE should_flush
    <3>1. MayLockBack /\ fragments' = [fragments EXCEPT ![b] = f]
        BY <1>11, <2>3 DEF Flush
    <3>2. fragments # <<>>
        BY <1>0, <2>1
    <3>3. IsFragment(f) /\ f.offset = Len(f.bytes) /\ f.holder = fragments[b].holder
        BY <1>9, <3>1, <3>2, FlushedAtTheEnd
    <3> HIDE DEF f, b
    <3> QED
        BY <1>8, <1>c, <2>1, <3>1, <3>2, <3>3 DEF TraceInv
  <2> QED
    BY <2>2, <2>3
<1>12. ASSUME WorkerStep PROVE TraceInv'
    BY <1>3, <1>5, <1>6, <1>7, <1>10, <1>11, <1>12 DEF WorkerStep
<1>13. ASSUME NEW r \in Readers, UNCHANGED <<channel, batch, pc>>, UNCHANGED fragments,
              NEW x, IsReader(x), readers' = [readers EXCEPT ![r] = x], x.at # "read"
       PROVE  TraceInv'
  <2>1. Reading'
    BY <1>0, <1>13 DEF IsReader, ReaderFields
  <2>2. \A q \in Readers \ {r} : readers'[q] = readers[q]
    BY <1>0, <1>13
  <2>3. readers'[r] = x
    BY <1>0, <1>13
  <2>4. ReadersKnow'
    BY <1>0, <1>13, <2>2, <2>3, OneReaderGoesOn
  <2> QED
    BY <1>13, <1>f, <1>c, <1>w, <2>1, <2>4 DEF TraceInv
<1>14. ASSUME NEW r \in Readers, UNCHANGED <<channel, batch, pc>>,
              NEW x, IsReader(x), readers' = [readers EXCEPT ![r] = x],
              NEW i \in DOMAIN fragments, NEW f, IsFragment(f), AtItsEnd(f),
              fragments[i].holder \in {NoReader, r},
              fragments' = [fragments EXCEPT ![i] = f],
              x.at = "read" => x.index = i /\ f.holder = r /\ x.start = Len(f.bytes)
       PROVE  TraceInv'
  <2>1. Reading'
    BY <1>0, <1>14 DEF IsReader, ReaderFields
  <2>2. \A q \in Readers \ {r} : readers'[q] = readers[q]
    BY <1>0, <1>14
  <2>3. readers'[r] = x
    BY <1>0, <1>14
  <2>4. /\ Files' /\ AtTheEnd' /\ DOMAIN fragments' = DOMAIN fragments
        /\ \A j \in DOMAIN fragments : fragments'[j] = IF j = i THEN f ELSE fragments[j]
    BY <1>0, <1>14, FragmentChanges
  <2>5. ReadersKnow'
    BY <1>0, <1>14, <2>2, <2>3, <2>4, OneReaderGoesOn
  <2>6. fragments' # <<>>
    BY <1>14, <2>4
  <2> QED
    BY <1>14, <1>c, <2>1, <2>4, <2>5, <2>6 DEF TraceInv
<1>15. ASSUME NEW r \in Readers, Start(r) \/ ReaderStep(r) PROVE TraceInv'
  <2>1. UNCHANGED <<channel, batch, pc>>
    BY <1>15
    DEF Start, ReaderStep, Enter, Rewind, GiveUp, Read, Restore, Leave, ReaderAt,
                workerVars
  <2>2. IsReader(readers[r])
    BY <1>0
  <2> DEFINE i == readers[r].index
  <2>3. ASSUME readers[r].at = "read"
        PROVE  /\ i \in DOMAIN fragments /\ IsFragment(fragments[i])
               /\ fragments[i].holder = r /\ readers[r].start = Len(fragments[i].bytes)
    BY <1>0, <2>3 DEF ReadersKnow, Files
  <2>4. CASE Start(r)
    <3> DEFINE x == [readers[r] EXCEPT !.at = "wait"]
    <3>1. IsReader(x) /\ x.at = "wait"
        BY <2>2 DEF IsReader, ReaderFields
    <3>2. readers' = [readers EXCEPT ![r] = x] /\ UNCHANGED fragments
        BY <2>4 DEF Start
    <3> HIDE DEF x
    <3> QED
        BY <1>13, <2>1, <3>1, <3>2
  <2>5. CASE Enter(r)
    <3>1. PICK owed : readers' = [readers EXCEPT ![r] =
                         [readers[r] EXCEPT !.at = "lock", !.index = 1, !.owed = owed]]
        BY <2>5 DEF Enter
    <3> DEFINE x == [readers[r] EXCEPT !.at = "lock", !.index = 1, !.owed = owed]
    <3>2. IsReader(x) /\ x.at = "lock"
        BY <2>2 DEF IsReader, ReaderFields
    <3>3. readers' = [readers EXCEPT ![r] = x] /\ UNCHANGED fragments
        BY <2>5, <3>1 DEF Enter
    <3> HIDE DEF x
    <3> QED
        BY <1>13, <2>1, <3>2, <3>3
  <2>6. CASE Rewind(r)
    <3>1. CASE i > Len(fragments)
        <4> DEFINE x == [readers[r] EXCEPT !.at = "leave"]
        <4>1. IsReader(x) /\ x.at = "leave"
            BY <2>2 DEF IsReader, ReaderFields
        <4>2. readers' = [readers EXCEPT ![r] = x] /\ UNCHANGED fragments
            BY <2>6, <3>1 DEF Rewind
        <4> HIDE DEF x
        <4> QED
            BY <1>13, <2>1, <4>1, <4>2
    <3>2. CASE ~(i > Len(fragments))
        <4> DEFINE x == [readers[r] EXCEPT !.at = "read", !.count = 0,
                                           !.start = fragments[i].offset]
                   f == [fragments[i] EXCEPT !.holder = r, !.offset = 0]
        <4>1. /\ fragments[i].holder = NoReader
              /\ readers' = [readers EXCEPT ![r] = x]
              /\ fragments' = [fragments EXCEPT ![i] = f]
            BY <2>6, <3>2 DEF Rewind
        <4>2. i \in DOMAIN fragments
            BY <1>4, <2>2, <2>6, <3>2 DEF IsReader, Rewind, ReaderAt
        <4>3. IsFragment(fragments[i]) /\ fragments[i].offset = Len(fragments[i].bytes)
            BY <1>0, <4>1, <4>2 DEF Files, AtTheEnd
        <4>4. IsReader(x) /\ x.index = i /\ x.start = fragments[i].offset
            BY <2>2 DEF IsReader, ReaderFields
        <4>5. IsFragment(f) /\ f.holder = r /\ f.bytes = fragments[i].bytes
            BY <4>3 DEF IsFragment, FragmentFields
        <4>6. AtItsEnd(f)
            BY <4>5, TraceAssumption DEF AtItsEnd
        <4>7. /\ fragments[i].holder \in {NoReader, r}
              /\ x.at = "read" => x.index = i /\ f.holder = r /\ x.start = Len(f.bytes)
            BY <4>1, <4>3, <4>4, <4>5
        <4>8. readers' = [readers EXCEPT ![r] = x] /\ fragments' = [fragments EXCEPT ![i] = f]
            BY <4>1
        <4>9. IsReader(x) /\ IsFragment(f)
            BY <4>4, <4>5
        <4> HIDE DEF x, f, i
        <4> QED
            BY <1>14, <2>1, <4>2, <4>6, <4>7, <4>8, <4>9
    <3> QED
        BY <3>1, <3>2
  <2>7. CASE GiveUp(r) \/ Restore(r)
    <3> DEFINE f == Restored(fragments[i], r)
    <3>1. /\ readers[r].at = "read"
          /\ fragments' = [fragments EXCEPT ![i] = f]
          /\ \/ readers' = [readers EXCEPT ![r] = [readers[r] EXCEPT !.at = "gone"]]
             \/ readers' = [readers EXCEPT ![r] =
                               [readers[r] EXCEPT !.at = "lock", !.index = i + 1]]
        BY <2>7 DEF GiveUp, Restore, ReaderAt
    <3>2. PICK x : IsReader(x) /\ x.at # "read" /\ readers' = [readers EXCEPT ![r] = x]
        <4> DEFINE y == [readers[r] EXCEPT !.at = "gone"]
                   z == [readers[r] EXCEPT !.at = "lock", !.index = i + 1]
        <4>1. IsReader(y) /\ y.at = "gone"
            BY <2>2 DEF IsReader, ReaderFields
        <4>2. IsReader(z) /\ z.at = "lock"
            BY <2>2 DEF IsReader, ReaderFields
        <4> HIDE DEF y, z
        <4>3. readers' = [readers EXCEPT ![r] = y] \/ readers' = [readers EXCEPT ![r] = z]
            BY <3>1 DEF y, z
        <4> QED
            BY <4>1, <4>2, <4>3
    <3>3. IsFragment(f) /\ f.offset = readers[r].start /\ f.bytes = fragments[i].bytes
        BY <2>3, <3>1 DEF Restored, IsFragment, FragmentFields
    <3>4. AtItsEnd(f)
        BY <2>3, <3>1, <3>3 DEF AtItsEnd
    <3> HIDE DEF f, i
    <3> QED
        BY <1>14, <2>1, <2>3, <3>1, <3>2, <3>3, <3>4
  <2>8. CASE Read(r)
    <3>1. PICK result, count, offset :
              /\ readers' = [readers EXCEPT ![r] =
                                [readers[r] EXCEPT !.result = result, !.count = count]]
              /\ fragments' = [fragments EXCEPT ![i] = [fragments[i] EXCEPT !.offset = offset]]
        BY <2>8 DEF Read
    <3> DEFINE x == [readers[r] EXCEPT !.result = result, !.count = count]
               f == [fragments[i] EXCEPT !.offset = offset]
    <3>2. readers[r].at = "read"
        BY <2>8 DEF Read, ReaderAt
    <3>3. IsReader(x) /\ x.index = i /\ x.start = readers[r].start
        BY <2>2, <3>2 DEF IsReader, ReaderFields
    <3>4. IsFragment(f) /\ f.holder = r /\ f.bytes = fragments[i].bytes
        BY <2>3, <3>2 DEF IsFragment, FragmentFields
    <3>5. AtItsEnd(f)
        BY <3>4, TraceAssumption DEF AtItsEnd
    <3>6. readers' = [readers EXCEPT ![r] = x] /\ fragments' = [fragments EXCEPT ![i] = f]
        BY <3>1
    <3>7. /\ i \in DOMAIN fragments /\ fragments[i].holder \in {NoReader, r}
          /\ x.start = Len(f.bytes)
        BY <2>3, <3>2, <3>3, <3>4
    <3> HIDE DEF x, f, i
    <3> QED
        BY <1>14, <2>1, <3>3, <3>4, <3>5, <3>6, <3>7
  <2>9. CASE Leave(r)
    <3> DEFINE x == [readers[r] EXCEPT !.at = "gone"]
    <3>1. IsReader(x) /\ x.at = "gone"
        BY <2>2 DEF IsReader, ReaderFields
    <3>2. readers' = [readers EXCEPT ![r] = x] /\ UNCHANGED fragments
        BY <2>9 DEF Leave
    <3> HIDE DEF x
    <3> QED
        BY <1>13, <2>1, <3>1, <3>2
  <2> QED
    BY <1>15, <2>4, <2>5, <2>6, <2>7, <2>8, <2>9 DEF ReaderStep
<1> QED
    BY <1>1, <1>2, <1>12, <1>15 DEF Next

\* A file is at its end whenever no reader holds it: the offset that a reader and
\* the writer share never leaves the next write in the middle, however many readers
\* come, give up half-way or overlap with it (policy/mod.rs reconstruct_policy_stack).
THEOREM FilesAreLeftAtTheEnd == Spec => []AtTheEnd
<1>1. TraceInv => AtTheEnd
    BY DEF TraceInv
<1> QED
    BY <1>1, TraceInvInit, TraceInvStep, PTL DEF Spec

-----------------------------------------------------------------------------
(***************************************************************************)
(* How many fragments there are                                            *)
(***************************************************************************)

\* A fragment keeps what is in it and its age, whoever holds it.
Keeps(f, g) == f.created = g.created /\ f.bytes = g.bytes /\ f.pending = g.pending

FragmentsKept ==
    /\ Len(fragments') = Len(fragments)
    /\ DOMAIN fragments' = DOMAIN fragments
    /\ \A i \in DOMAIN fragments : Keeps(fragments'[i], fragments[i])

\* The fragments are numbered from one.
LEMMA FragmentsLength ==
    ASSUME Files
    PROVE  Len(fragments) \in Nat /\ DOMAIN fragments = 1 .. Len(fragments)
  BY LenProperties DEF Files, IsSequence

\* One fragment is replaced.
LEMMA OneFragmentChanges ==
    ASSUME Files, NEW i \in DOMAIN fragments, NEW f, fragments' = [fragments EXCEPT ![i] = f]
    PROVE  /\ Len(fragments') = Len(fragments)
           /\ DOMAIN fragments' = DOMAIN fragments
           /\ \A j \in DOMAIN fragments : fragments'[j] = IF j = i THEN f ELSE fragments[j]
<1> DEFINE S == {fragments[j] : j \in DOMAIN fragments} \cup {f}
<1>1. fragments \in Seq(S) /\ f \in S
    BY DEF Files, IsSequence
<1> HIDE DEF S
<1> QED
    BY <1>1, ExceptSeq

\* Readers move the files' offsets, and that is all they do to them.
LEMMA ReadersKeepFragments ==
    ASSUME TraceInv, NEW r \in Readers, Start(r) \/ ReaderStep(r)
    PROVE  FragmentsKept
<1> DEFINE i == readers[r].index
<1>0. Files /\ IsReader(readers[r])
    BY DEF TraceInv
<1>1. ASSUME UNCHANGED fragments PROVE FragmentsKept
    BY <1>1 DEF FragmentsKept, Keeps
<1>2. ASSUME i \in DOMAIN fragments, NEW f, Keeps(f, fragments[i]),
             fragments' = [fragments EXCEPT ![i] = f]
      PROVE  FragmentsKept
    BY <1>0, <1>2, OneFragmentChanges DEF FragmentsKept, Keeps
<1>3. ASSUME i \in DOMAIN fragments,
             NEW holder, NEW offset,
             fragments' = [fragments EXCEPT ![i] =
                              [fragments[i] EXCEPT !.holder = holder, !.offset = offset]]
      PROVE  FragmentsKept
  <2> DEFINE f == [fragments[i] EXCEPT !.holder = holder, !.offset = offset]
  <2>1. Keeps(f, fragments[i])
    BY <1>0, <1>3 DEF Keeps, Files, IsFragment, FragmentFields
  <2> HIDE DEF f
  <2> QED
    BY <1>2, <1>3, <2>1 DEF f
<1>4. ASSUME readers[r].at = "read" PROVE i \in DOMAIN fragments
    BY <1>4 DEF TraceInv, ReadersKnow
<1>5. CASE Start(r) \/ Enter(r) \/ Leave(r)
    BY <1>1, <1>5 DEF Start, Enter, Leave
<1>6. CASE Rewind(r)
  <2>1. CASE i > Len(fragments)
    BY <1>1, <1>6, <2>1 DEF Rewind
  <2>2. CASE ~(i > Len(fragments))
    <3>1. i \in DOMAIN fragments
        BY <1>0, <1>6, <2>2, FragmentsLength DEF Rewind, ReaderAt, IsReader
    <3>2. fragments' = [fragments EXCEPT ![i] = [fragments[i] EXCEPT !.holder = r, !.offset = 0]]
        BY <1>6, <2>2 DEF Rewind
    <3> QED
        BY <1>3, <3>1, <3>2
  <2> QED
    BY <2>1, <2>2
<1>7. CASE GiveUp(r) \/ Restore(r)
  <2>1. /\ readers[r].at = "read"
        /\ fragments' = [fragments EXCEPT ![i] =
               [fragments[i] EXCEPT !.holder = NoReader, !.offset = readers[r].start]]
    BY <1>7 DEF GiveUp, Restore, Restored, ReaderAt
  <2> QED
    BY <1>3, <1>4, <2>1
<1>8. CASE Read(r)
  <2>1. readers[r].at = "read"
    BY <1>8 DEF Read, ReaderAt
  <2>2. fragments' = [fragments EXCEPT ![i] =
            [fragments[i] EXCEPT !.offset = fragments[i].offset + ChunkSize]]
    BY <1>8 DEF Read
  <2> DEFINE f == [fragments[i] EXCEPT !.offset = fragments[i].offset + ChunkSize]
  <2>3. Keeps(f, fragments[i])
    BY <1>0, <1>4, <2>1 DEF Keeps, Files, IsFragment, FragmentFields
  <2> HIDE DEF f
  <2> QED
    BY <1>2, <1>4, <2>1, <2>2, <2>3 DEF f
<1> QED
    BY <1>5, <1>6, <1>7, <1>8 DEF ReaderStep

\* What a flush and a write leave of the last fragment.
LEMMA FlushedKeeps ==
    ASSUME NEW f, IsFragment(f), f.offset = Len(f.bytes)
    PROVE  /\ Flushed(f).bytes = f.bytes \o f.pending
           /\ Flushed(f).pending = <<>>
           /\ Flushed(f).created = f.created
<1> DEFINE g == WrittenTo(f, f.pending)
<1>1. g.bytes = f.bytes \o f.pending /\ DOMAIN g = FragmentFields
    BY WrittenAtTheEnd DEF IsFragment
<1>2. g.created = f.created
    BY DEF WrittenTo, IsFragment, FragmentFields
<1>3. Flushed(f) = [g EXCEPT !.pending = <<>>]
    BY DEF Flushed
<1> HIDE DEF g
<1> QED
    BY <1>1, <1>2, <1>3 DEF FragmentFields

\* A write goes to the buffer, or to the buffer when it has been emptied.
LEMMA BufferedKeeps ==
    ASSUME NEW f, IsFragment(f), f.offset = Len(f.bytes), NEW data
    PROVE  /\ \/ Buffered(f, data).bytes = f.bytes /\ Buffered(f, data).pending = f.pending \o data
              \/ /\ Buffered(f, data).bytes = f.bytes \o f.pending
                 /\ Buffered(f, data).pending = <<>> \o data
           /\ Buffered(f, data).created = f.created
<1> DEFINE room == Len(f.pending) + Len(data) <= Capacity
           g == IF room THEN f ELSE Flushed(f)
<1>1. IsFragment(g) /\ g.created = f.created
    BY FlushedAtTheEnd, FlushedKeeps
<1>2. /\ room => g = f
      /\ ~room => g.bytes = f.bytes \o f.pending /\ g.pending = <<>>
    BY FlushedKeeps
<1>3. Buffered(f, data) = [g EXCEPT !.pending = g.pending \o data]
    BY DEF Buffered
<1> HIDE DEF g, room
<1>4. /\ Buffered(f, data).bytes = g.bytes /\ Buffered(f, data).pending = g.pending \o data
      /\ Buffered(f, data).created = g.created
    BY <1>1, <1>3 DEF IsFragment, FragmentFields
<1>5. CASE room
    BY <1>1, <1>2, <1>4, <1>5
<1>6. CASE ~room
    BY <1>1, <1>2, <1>4, <1>6
<1> QED
    BY <1>5, <1>6

-----------------------------------------------------------------------------

\* The fragments were created more than REFRESH_AGE apart.
Spaced ==
    /\ now \in Nat
    /\ \A i \in DOMAIN fragments : fragments[i].created \in Nat /\ fragments[i].created <= now
    /\ \A i, j \in DOMAIN fragments :
           i < j => fragments[j].created - fragments[i].created >= (j - i) * (RefreshAge + 1)

\* Time passes, and the fragments stay.
LEMMA SpacedStays ==
    ASSUME Spaced, now' \in Nat, now' >= now, DOMAIN fragments' = DOMAIN fragments,
           \A i \in DOMAIN fragments : fragments'[i].created = fragments[i].created
    PROVE  Spaced'
<1>1. \A i \in DOMAIN fragments' : fragments'[i].created \in Nat /\ fragments'[i].created <= now'
    BY DEF Spaced
<1> QED
    BY <1>1 DEF Spaced

\* Adding one: the last is older than REFRESH_AGE, and the first not older than MAX_AGE.
LEMMA SpacedAdd ==
    ASSUME Files, Spaced, FragmentsBounded, ~FrontExpired, ~BackValid,
           fragments' = Append(fragments, NewFragment), now' = now
    PROVE  Spaced' /\ FragmentsBounded'
<1> DEFINE S == {fragments[j] : j \in DOMAIN fragments} \cup {NewFragment}
           n == Len(fragments)
           gap == RefreshAge + 1
<1>1. /\ fragments \in Seq(S) /\ n \in Nat /\ DOMAIN fragments = 1 .. n
      /\ gap \in Nat \ {0} /\ MaxAge \in Nat /\ RefreshAge \in Nat
    BY FragmentsLength, TraceAssumption DEF Files, IsSequence
<1>2. NewFragment \in S /\ NewFragment.created = now
    BY DEF NewFragment
<1> HIDE DEF S, NewFragment
<1>3. /\ fragments' \in Seq(S) /\ Len(fragments') = n + 1 /\ DOMAIN fragments' = 1 .. n + 1
      /\ \A i \in 1 .. n : fragments'[i] = fragments[i]
      /\ fragments'[n + 1] = NewFragment
    BY <1>1, <1>2, AppendProperties
<1>4. ASSUME NEW i \in 1 .. n
      PROVE  now - fragments[i].created >= ((n + 1) - i) * gap
  <2>1. /\ n \in DOMAIN fragments /\ fragments # <<>>
        /\ fragments[n].created \in Nat /\ fragments[n].created <= now
        /\ fragments[i].created \in Nat /\ now \in Nat
    BY <1>1, <1>4 DEF Spaced
  <2>2. now - fragments[n].created >= gap
    BY <1>1, <2>1 DEF BackValid, IsValid, Back
  <2>3. CASE i = n
    <3>1. ((n + 1) - i) * gap = gap
        BY <1>1, <2>3
    <3> QED
        BY <2>2, <2>3, <3>1
  <2>4. CASE i < n
    <3>0. i \in DOMAIN fragments /\ n \in DOMAIN fragments
        BY <1>1, <2>1
    <3>1. fragments[n].created - fragments[i].created >= (n - i) * gap
        BY <2>4, <3>0 DEF Spaced
    <3>2. ((n + 1) - i) * gap = (n - i) * gap + gap
        BY <1>1
    <3>3. (n - i) * gap \in Nat
        BY <1>1
    <3> HIDE DEF gap
    <3> QED
        BY <1>1, <2>1, <2>2, <3>1, <3>2, <3>3
  <2>5. i = n \/ i < n
    <3>1. i \in Nat /\ n \in Nat /\ i <= n
        BY <1>1
    <3> HIDE DEF n
    <3> QED
        BY <3>1
  <2> QED
    BY <2>3, <2>4, <2>5
<1>5. Spaced'
  <2>1. \A i \in DOMAIN fragments' :
            fragments'[i].created \in Nat /\ fragments'[i].created <= now'
    BY <1>1, <1>2, <1>3 DEF Spaced
  <2>2. ASSUME NEW i \in DOMAIN fragments', NEW j \in DOMAIN fragments', i < j
        PROVE  fragments'[j].created - fragments'[i].created >= (j - i) * gap
    <3>1. CASE j = n + 1
        BY <1>1, <1>2, <1>3, <1>4, <2>2, <3>1
    <3>2. CASE j # n + 1
        BY <1>1, <1>3, <2>2, <3>2 DEF Spaced
    <3> QED
        BY <3>1, <3>2
  <2> QED
    BY <2>1, <2>2 DEF Spaced
<1>6. FragmentsBounded'
  <2>1. CASE n = 0
    <3>1. MaxAge \div gap \in Nat
        BY <1>1
    <3> QED
        BY <1>3, <2>1, <3>1 DEF FragmentsBounded
  <2>2. CASE n # 0
    <3>1. now - fragments[1].created <= MaxAge
        BY <1>1, <2>2 DEF FrontExpired, IsExpired, Spaced
    <3>2. now - fragments[1].created >= n * gap
        BY <1>1, <1>4, <2>2
    <3>3. n * gap <= MaxAge
        BY <1>1, <2>2, <3>1, <3>2 DEF Spaced
    <3>4. n <= MaxAge \div gap
        BY <1>1, <3>3, DivBound
    <3> QED
        BY <1>1, <1>3, <3>4 DEF FragmentsBounded
  <2> QED
    BY <2>1, <2>2
<1> QED
    BY <1>5, <1>6

\* The first goes, and the others move up.
LEMMA TailFields ==
    ASSUME Files, fragments # <<>>, fragments' = Tail(fragments)
    PROVE  /\ Len(fragments') = Len(fragments) - 1
           /\ DOMAIN fragments' = 1 .. Len(fragments) - 1
           /\ \A i \in DOMAIN fragments' :
                  i + 1 \in DOMAIN fragments /\ fragments'[i] = fragments[i + 1]
<1> DEFINE S == {fragments[j] : j \in DOMAIN fragments}
<1>1. fragments \in Seq(S)
    BY DEF Files, IsSequence
<1> HIDE DEF S
<1>2. /\ Len(fragments) \in Nat \ {0} /\ Tail(fragments) \in Seq(S)
      /\ Len(Tail(fragments)) = Len(fragments) - 1
      /\ \A i \in 1 .. Len(fragments) - 1 : Tail(fragments)[i] = fragments[i + 1]
    BY <1>1, EmptySeq, HeadTailProperties
<1> QED
    BY <1>1, <1>2, LenProperties

\* One that goes leaves the others apart.
LEMMA SpacedTail ==
    ASSUME Files, Spaced, fragments # <<>>, fragments' = Tail(fragments), now' = now
    PROVE  Spaced'
<1>1. /\ DOMAIN fragments' \subseteq Nat
      /\ \A i \in DOMAIN fragments' :
             i + 1 \in DOMAIN fragments /\ fragments'[i] = fragments[i + 1]
    BY TailFields, FragmentsLength
<1>2. \A i \in DOMAIN fragments' : fragments'[i].created \in Nat /\ fragments'[i].created <= now'
    BY <1>1 DEF Spaced
<1>3. ASSUME NEW i \in DOMAIN fragments', NEW j \in DOMAIN fragments', i < j
      PROVE  fragments'[j].created - fragments'[i].created >= (j - i) * (RefreshAge + 1)
  <2>1. i \in Nat /\ j \in Nat /\ i + 1 < j + 1 /\ (j + 1) - (i + 1) = j - i
    BY <1>1, <1>3
  <2>2. fragments[j + 1].created - fragments[i + 1].created
            >= ((j + 1) - (i + 1)) * (RefreshAge + 1)
    BY <1>1, <2>1 DEF Spaced
  <2> QED
    BY <1>1, <2>1, <2>2
<1> QED
    BY <1>2, <1>3 DEF Spaced

\* The worker writes at the end of the last fragment.
LEMMA LastFragment ==
    ASSUME TraceInv, pc = "write", MayLockBack
    PROVE  /\ Len(fragments) \in DOMAIN fragments
           /\ IsFragment(Back) /\ Back.offset = Len(Back.bytes)
<1>1. Files /\ AtTheEnd /\ fragments # <<>>
    BY DEF TraceInv
<1>2. fragments \in Seq({fragments[j] : j \in DOMAIN fragments})
    BY <1>1 DEF Files, IsSequence
<1>3. Len(fragments) \in DOMAIN fragments
    BY <1>1, <1>2, EmptyLength, FragmentsLength
<1> QED
    BY <1>1, <1>3 DEF Files, AtTheEnd, Back, MayLockBack

\* A write or a flush leaves the fragments' ages alone.
LEMMA WritesKeepAges ==
    ASSUME TraceInv, Write \/ Flush
    PROVE  /\ Len(fragments') = Len(fragments)
           /\ DOMAIN fragments' = DOMAIN fragments
           /\ \A i \in DOMAIN fragments : fragments'[i].created = fragments[i].created
<1> DEFINE n == Len(fragments)
<1>1. CASE Write
  <2> DEFINE f == Buffered(Back, AsChunk(Head(batch)))
  <2>1. n \in DOMAIN fragments /\ IsFragment(Back) /\ Back.offset = Len(Back.bytes)
    BY <1>1, LastFragment DEF Write
  <2>2. f.created = Back.created
    BY <2>1, BufferedKeeps
  <2>3. fragments' = [fragments EXCEPT ![n] = f]
    BY <1>1 DEF Write, Back
  <2> HIDE DEF f
  <2> QED
    BY <2>1, <2>2, <2>3, OneFragmentChanges DEF Back, TraceInv
<1>2. CASE Flush /\ should_flush
  <2> DEFINE f == Flushed(Back)
  <2>1. n \in DOMAIN fragments /\ IsFragment(Back) /\ Back.offset = Len(Back.bytes)
    BY <1>2, LastFragment DEF Flush
  <2>2. f.created = Back.created
    BY <2>1, FlushedKeeps
  <2>3. fragments' = [fragments EXCEPT ![n] = f]
    BY <1>2 DEF Flush, Back
  <2> HIDE DEF f
  <2> QED
    BY <2>1, <2>2, <2>3, OneFragmentChanges DEF Back, TraceInv
<1>3. CASE Flush /\ ~should_flush
    BY <1>3 DEF Flush
<1> QED
    BY <1>1, <1>2, <1>3

\* At first there is none.
LEMMA SpacedInit == Init => Spaced /\ FragmentsBounded
<1> SUFFICES ASSUME Init PROVE Spaced /\ FragmentsBounded
    OBVIOUS
<1>1. now = 0 /\ fragments = <<>> /\ Len(<<>>) = 0 /\ DOMAIN <<>> = {}
    BY DEF Init
<1>2. MaxAge \div (RefreshAge + 1) \in Nat
    BY TraceAssumption
<1> QED
    BY <1>1, <1>2 DEF Spaced, FragmentsBounded

\* No step brings them closer, or adds one too many.
LEMMA SpacedStep ==
    ASSUME TraceInv, Spaced, FragmentsBounded, [Next]_vars
    PROVE  Spaced' /\ FragmentsBounded'
<1>0. Files
    BY DEF TraceInv
<1>1. ASSUME UNCHANGED now, Len(fragments') = Len(fragments), DOMAIN fragments' = DOMAIN fragments,
             \A i \in DOMAIN fragments : fragments'[i].created = fragments[i].created
      PROVE  Spaced' /\ FragmentsBounded'
    BY <1>1, SpacedStays DEF Spaced, FragmentsBounded
<1>2. ASSUME UNCHANGED <<now, fragments>> PROVE Spaced' /\ FragmentsBounded'
    BY <1>1, <1>2
<1>3. ASSUME NEW e \in Sent, Send(e) PROVE Spaced' /\ FragmentsBounded'
    BY <1>2, <1>3 DEF Send
<1>4. CASE Tick
  <2>1. UNCHANGED fragments /\ now' = now + 1 /\ now \in Nat
    BY <1>4 DEF Tick, Spaced
  <2>2. now' \in Nat /\ now' >= now
    BY <2>1
  <2> QED
    BY <2>1, <2>2, SpacedStays DEF FragmentsBounded
<1>5. CASE UNCHANGED vars
    BY <1>2, <1>5 DEF vars
<1>6. CASE Poll
    BY <1>2, <1>6 DEF Poll
<1>7. CASE DropExpired
  <2>1. fragments # <<>> /\ fragments' = Tail(fragments) /\ now' = now
    BY <1>7 DEF DropExpired, FrontExpired
  <2>2. Spaced'
    BY <1>0, <2>1, SpacedTail
  <2>3. Len(fragments') = Len(fragments) - 1 /\ Len(fragments) \in Nat
    BY <1>0, <2>1, TailFields, FragmentsLength
  <2>4. MaxAge \div (RefreshAge + 1) \in Nat
    BY TraceAssumption
  <2> QED
    BY <2>2, <2>3, <2>4 DEF FragmentsBounded
<1>8. CASE Refresh
  <2>1. CASE BackValid
    BY <1>2, <1>8, <2>1 DEF Refresh, KeepOrAdd
  <2>2. CASE ~BackValid
    BY <1>0, <1>8, <2>2, SpacedAdd DEF Refresh, KeepOrAdd
  <2> QED
    BY <2>1, <2>2
<1>9. CASE WipeTrace
  <2>1. fragments' = <<>> /\ now' = now /\ Len(<<>>) = 0 /\ DOMAIN <<>> = {}
    BY <1>9 DEF WipeTrace
  <2>2. MaxAge \div (RefreshAge + 1) \in Nat
    BY TraceAssumption
  <2> QED
    BY <2>1, <2>2 DEF Spaced, FragmentsBounded
<1>10. CASE Write \/ Flush
    BY <1>1, <1>10, WritesKeepAges DEF Write, Flush
<1>11. ASSUME NEW r \in Readers, Start(r) \/ ReaderStep(r) PROVE Spaced' /\ FragmentsBounded'
  <2>1. UNCHANGED now
    BY <1>11 DEF Start, ReaderStep, Enter, Rewind, GiveUp, Read, Restore, Leave, ReaderAt
  <2> QED
    BY <1>1, <1>11, <2>1, ReadersKeepFragments DEF FragmentsKept, Keeps
<1> QED
    BY <1>3, <1>4, <1>5, <1>6, <1>7, <1>8, <1>9, <1>10, <1>11 DEF Next, WorkerStep

\* There are never more fragments than MAX_AGE has room for, however fast events come,
\* for every pair of ages: each was added when the one before it was older than
\* REFRESH_AGE, and none while the first was older than MAX_AGE (trace/mod.rs
\* refresh_fragments).
THEOREM FragmentsStayBounded == Spec => []FragmentsBounded
<1>1. Init => TraceInv /\ Spaced /\ FragmentsBounded
    BY TraceInvInit, SpacedInit
<1>2. (TraceInv /\ Spaced /\ FragmentsBounded) /\ [Next]_vars
        => (TraceInv /\ Spaced /\ FragmentsBounded)'
    BY TraceInvStep, SpacedStep
<1> QED
    BY <1>1, <1>2, PTL DEF Spec

-----------------------------------------------------------------------------
(***************************************************************************)
(* What is in the files                                                    *)
(***************************************************************************)

\* A number of whole chunks.
Chunks(s, m) == m \in Nat /\ Len(s) = m * ChunkSize
Whole(s) == \E m \in Nat : Chunks(s, m)

\* A chunk has a tag at least.
LEMMA ChunkSizePositive == ChunkSize \in Nat \ {0}
  BY TraceAssumption DEF ChunkSize

\* m chunks are m events.
LEMMA EventsLength ==
    ASSUME NEW s, NEW m, Chunks(s, m)
    PROVE  /\ EventsOf(s) = [i \in 1 .. m |->
                  FromChunk(SubSeq(s, (i - 1) * ChunkSize + 1, i * ChunkSize))]
           /\ Len(EventsOf(s)) = m
<1>1. (m * ChunkSize) \div ChunkSize = m
    BY ChunkSizePositive DEF Chunks
<1>2. Len(s) \div ChunkSize = m
    BY <1>1 DEF Chunks
<1>3. EventsOf(s) = [i \in 1 .. m |->
          FromChunk(SubSeq(s, (i - 1) * ChunkSize + 1, i * ChunkSize))]
    BY <1>2 DEF EventsOf
<1>4. m \in Nat
    BY DEF Chunks
<1> QED
    BY <1>3, <1>4

\* A file is decoded part by part.
LEMMA EventsConcat ==
    ASSUME NEW s, NEW m, Chunks(s, m), NEW t, NEW n, Chunks(t, n), IsSequence(s), IsSequence(t)
    PROVE  /\ Chunks(s \o t, m + n)
           /\ EventsOf(s \o t) = EventsOf(s) \o EventsOf(t)
<1> DEFINE S == {s[i] : i \in DOMAIN s} \cup {t[i] : i \in DOMAIN t}
           w == ChunkSize
<1>1. s \in Seq(S) /\ t \in Seq(S)
    BY SeqMonotonic DEF IsSequence
<1> HIDE DEF S
<1>2. /\ w \in Nat \ {0} /\ m \in Nat /\ n \in Nat
      /\ Len(s) = m * w /\ Len(t) = n * w
    BY ChunkSizePositive DEF Chunks
<1>3. Chunks(s \o t, m + n)
  <2>1. Len(s \o t) = m * w + n * w
    BY <1>1, <1>2, ConcatProperties
  <2>2. (m + n) * w = m * w + n * w
    BY <1>2
  <2> QED
    BY <1>2, <2>1, <2>2 DEF Chunks
<1> DEFINE Chunk(u, i) == SubSeq(u, (i - 1) * ChunkSize + 1, i * ChunkSize)
<1>4. /\ EventsOf(s) = [i \in 1 .. m |-> FromChunk(Chunk(s, i))]
      /\ EventsOf(t) = [i \in 1 .. n |-> FromChunk(Chunk(t, i))]
      /\ EventsOf(s \o t) = [i \in 1 .. m + n |-> FromChunk(Chunk(s \o t, i))]
    BY <1>3, EventsLength
<1>5. ASSUME NEW i \in 1 .. m PROVE Chunk(s \o t, i) = Chunk(s, i)
  <2>1. i * w <= m * w /\ i * w \in Nat /\ (i - 1) * w \in Nat /\ (i - 1) * w + w = i * w
    BY <1>2
  <2>2. (i - 1) * w + 1 \in 1 .. Len(s) /\ i * w \in 1 .. Len(s)
    BY <1>2, <2>1
  <2> QED
    BY <1>1, <2>2, SubSeqOfConcat1
<1>6. ASSUME NEW k \in 1 .. n PROVE Chunk(s \o t, m + k) = Chunk(t, k)
  <2> DEFINE a == ((m + k) - 1) * w + 1
             b == (m + k) * w
             c == (k - 1) * w + 1
             d == k * w
  <2>1. /\ ((m + k) - 1) * w = m * w + (k - 1) * w /\ (m + k) * w = m * w + k * w
        /\ m * w \in Nat /\ (k - 1) * w \in Nat /\ k * w = (k - 1) * w + w /\ k * w <= n * w
    BY <1>2
  <2>2. /\ a \in Len(s) + 1 .. Len(s) + Len(t) /\ b \in Len(s) + 1 .. Len(s) + Len(t)
        /\ a - Len(s) = c /\ b - Len(s) = d
    BY <1>2, <2>1
  <2> HIDE DEF a, b, c, d
  <2>3. SubSeq(s \o t, a, b) = SubSeq(t, c, d)
    BY <1>1, <2>2, SubSeqOfConcat2
  <2> QED
    BY <2>3 DEF a, b, c, d
<1> DEFINE e == EventsOf(s)
           f == EventsOf(t)
           g == EventsOf(s \o t)
           E == {FromChunk(Chunk(s, i)) : i \in 1 .. m} \cup {FromChunk(Chunk(t, i)) : i \in 1 .. n}
<1> HIDE DEF Chunk
<1>7. /\ e \in Seq(E) /\ Len(e) = m /\ f \in Seq(E) /\ Len(f) = n
      /\ \A i \in 1 .. m : e[i] = FromChunk(Chunk(s, i))
      /\ \A i \in 1 .. n : f[i] = FromChunk(Chunk(t, i))
  <2>1. /\ \A i \in 1 .. m : FromChunk(Chunk(s, i)) \in E
        /\ \A i \in 1 .. n : FromChunk(Chunk(t, i)) \in E
    OBVIOUS
  <2> HIDE DEF E
  <2>2. e \in Seq(E) /\ Len(e) = m /\ \A i \in 1 .. m : e[i] = FromChunk(Chunk(s, i))
    BY <1>2, <1>4, <2>1
  <2>3. f \in Seq(E) /\ Len(f) = n /\ \A i \in 1 .. n : f[i] = FromChunk(Chunk(t, i))
    BY <1>2, <1>4, <2>1
  <2> QED
    BY <2>2, <2>3
<1>8. /\ Len(g) = m + n /\ g = [i \in 1 .. m + n |-> g[i]]
      /\ \A i \in 1 .. m + n : g[i] = FromChunk(Chunk(s \o t, i))
    BY <1>2, <1>4
<1> HIDE DEF e, f, g, E
<1>9. ASSUME NEW i \in 1 .. m + n
      PROVE  g[i] = IF i <= m THEN e[i] ELSE f[i - m]
  <2>1. CASE i \in 1 .. m
    BY <1>2, <1>5, <1>7, <1>8, <2>1
  <2>2. CASE i \notin 1 .. m
    <3>1. i - m \in 1 .. n /\ m + (i - m) = i /\ ~(i <= m)
        BY <1>2, <2>2
    <3>2. Chunk(s \o t, m + (i - m)) = Chunk(t, i - m)
        BY <1>6, <3>1
    <3> QED
        BY <1>7, <1>8, <3>1, <3>2
  <2> QED
    BY <2>1, <2>2
<1>10. /\ e \o f \in Seq(E) /\ Len(e \o f) = m + n
       /\ \A i \in 1 .. m + n : (e \o f)[i] = IF i <= m THEN e[i] ELSE f[i - m]
    BY <1>7, ConcatProperties
<1>11. g \in Seq(E)
  <2>1. \A i \in 1 .. m + n : (e \o f)[i] \in E
    BY <1>2, <1>10
  <2>2. \A i \in 1 .. m + n : g[i] \in E
    BY <1>9, <1>10, <2>1
  <2> QED
    BY <1>2, <1>8, <2>2
<1>12. g = e \o f
    BY <1>8, <1>9, <1>10, <1>11, SeqEqual
<1> QED
    BY <1>3, <1>12 DEF e, f, g

\* A chunk more is an event more.
LEMMA ChunkAfter ==
    ASSUME NEW s, NEW m, Chunks(s, m), NEW c, Len(c) = ChunkSize,
           IsSequence(s), IsSequence(c)
    PROVE  /\ Chunks(s \o c, m + 1)
           /\ EventsOf(s \o c) = Append(EventsOf(s), FromChunk(c))
<1>1. Chunks(c, 1)
    BY ChunkSizePositive DEF Chunks
<1>2. EventsOf(c) = <<FromChunk(c)>>
  <2>1. c \in Seq({c[i] : i \in DOMAIN c})
    BY DEF IsSequence
  <2>2. SubSeq(c, 1, ChunkSize) = c
    BY <2>1, SubSeqFull
  <2>3. (1 - 1) * ChunkSize + 1 = 1 /\ 1 * ChunkSize = ChunkSize
    BY ChunkSizePositive
  <2>4. EventsOf(c) = [i \in 1 .. 1 |->
            FromChunk(SubSeq(c, (i - 1) * ChunkSize + 1, i * ChunkSize))]
    BY <1>1, EventsLength
  <2>5. \A i \in 1 .. 1 : SubSeq(c, (i - 1) * ChunkSize + 1, i * ChunkSize) = c
    <3> SUFFICES ASSUME NEW i \in 1 .. 1
                 PROVE  SubSeq(c, (i - 1) * ChunkSize + 1, i * ChunkSize) = c
        OBVIOUS
    <3>1. i = 1
        OBVIOUS
    <3> QED
        BY <2>2, <2>3, <3>1
  <2>6. EventsOf(c) = [i \in 1 .. 1 |-> FromChunk(c)]
    BY <2>4, <2>5, Zenon
  <2>7. \A x : [i \in 1 .. 1 |-> x] = <<x>>
    OBVIOUS
  <2> QED
    BY <2>6, <2>7, Zenon
<1>3. EventsOf(s \o c) = EventsOf(s) \o <<FromChunk(c)>>
    BY <1>1, <1>2, EventsConcat
<1>4. EventsOf(s) \o <<FromChunk(c)>> = Append(EventsOf(s), FromChunk(c))
  <2> DEFINE x == FromChunk(c)
             E == {FromChunk(SubSeq(s, (i - 1) * ChunkSize + 1, i * ChunkSize)) : i \in 1 .. m}
                      \cup {x}
  <2>1. EventsOf(s) \in Seq(E) /\ x \in E
    BY EventsLength DEF Chunks
  <2> HIDE DEF E, x
  <2>2. EventsOf(s) \o <<x>> = Append(EventsOf(s), x)
    BY <2>1, AppendIsConcat
  <2> QED
    BY <2>2 DEF x
<1> QED
    BY <1>1, <1>3, <1>4, EventsConcat

-----------------------------------------------------------------------------

\* What is in a fragment, and in its buffer.
Events(f) == EventsOf(f.bytes \o f.pending)

IsAligned(f) == Whole(f.bytes) /\ Whole(f.pending) /\ Events(f) \in Seq(TraceEvents)

EachDecoded == [i \in DOMAIN fragments |-> Events(fragments[i])]

\* What is in the trace is the rest of what has been written, only the last fragment's
\* buffer may hold some of it, and while it does there will be a flush.
Traced ==
    /\ \A i \in DOMAIN fragments :
           /\ IsAligned(fragments[i])
           /\ fragments[i].pending # <<>> => pc = "write" /\ i = Len(fragments) /\ should_flush
    /\ traced \in Seq(TraceEvents) /\ dropped \in 0 .. Len(traced)
    /\ NothingOverwritten

\* The trace, fragment by fragment.
LEMMA ContentsDecoded == Contents = FlattenSeq(EachDecoded)
  BY DEF Contents, EachDecoded, Events

\* Every fragment decodes to events.
LEMMA DecodedType ==
    ASSUME Files, Traced
    PROVE  /\ EachDecoded \in Seq(Seq(TraceEvents)) /\ Len(EachDecoded) = Len(fragments)
           /\ DOMAIN EachDecoded = DOMAIN fragments
           /\ \A i \in DOMAIN fragments : EachDecoded[i] = Events(fragments[i])
<1>1. Len(fragments) \in Nat /\ DOMAIN fragments = 1 .. Len(fragments)
    BY FragmentsLength
<1>2. \A i \in DOMAIN fragments : Events(fragments[i]) \in Seq(TraceEvents)
    BY DEF Traced, IsAligned
<1> QED
    BY <1>1, <1>2 DEF EachDecoded

\* The fragments hold what they held.
LEMMA TracedStays ==
    ASSUME Traced, FragmentsKept, UNCHANGED <<pc, should_flush, traced, dropped>>
    PROVE  Traced'
<1>1. \A i \in DOMAIN fragments :
          /\ fragments'[i].bytes = fragments[i].bytes
          /\ fragments'[i].pending = fragments[i].pending
    BY DEF FragmentsKept, Keeps
<1>2. DOMAIN fragments' = DOMAIN fragments /\ Len(fragments') = Len(fragments)
    BY DEF FragmentsKept
<1>3. Contents' = Contents
    BY <1>1, <1>2 DEF Contents
<1>4. \A i \in DOMAIN fragments : IsAligned(fragments[i]) => IsAligned(fragments'[i])
    BY <1>1 DEF IsAligned, Events
<1>5. \A i \in DOMAIN fragments' :
          /\ IsAligned(fragments'[i])
          /\ fragments'[i].pending # <<>> =>
                 pc' = "write" /\ i = Len(fragments') /\ should_flush'
    BY <1>1, <1>2, <1>4 DEF Traced
<1> QED
    BY <1>3, <1>5 DEF Traced, NothingOverwritten, IsAligned, Events, Whole, Chunks, EventsOf

\* The last fragment is replaced by one that has as much, or an event more.
LEMMA LastDecoded ==
    ASSUME Files, Traced, Len(fragments) \in DOMAIN fragments,
           NEW f, fragments' = [fragments EXCEPT ![Len(fragments)] = f]
    PROVE  /\ Events(f) = Events(Back) => Contents' = Contents
           /\ \A e \in TraceEvents :
                  Events(f) = Append(Events(Back), e) => Contents' = Append(Contents, e)
<1> DEFINE n == Len(fragments)
           ss == EachDecoded
<1>1. /\ ss \in Seq(Seq(TraceEvents)) /\ Len(ss) = n /\ DOMAIN ss = DOMAIN fragments
      /\ \A i \in DOMAIN fragments : ss[i] = Events(fragments[i])
    BY DecodedType
<1>2. /\ Len(fragments') = n /\ DOMAIN fragments' = DOMAIN fragments
      /\ \A i \in DOMAIN fragments : fragments'[i] = IF i = n THEN f ELSE fragments[i]
    BY OneFragmentChanges
<1>3. Contents = FlattenSeq(ss)
    BY ContentsDecoded
<1> DEFINE tt == [i \in DOMAIN fragments' |->
                    EventsOf(fragments'[i].bytes \o fragments'[i].pending)]
<1>4. Contents' = FlattenSeq(tt)
    BY DEF Contents
<1>5. tt = [i \in DOMAIN fragments |-> IF i = n THEN Events(f) ELSE Events(fragments[i])]
  <2>1. \A i \in DOMAIN fragments' :
            EventsOf(fragments'[i].bytes \o fragments'[i].pending)
                = IF i = n THEN Events(f) ELSE Events(fragments[i])
    BY <1>2 DEF Events
  <2> QED
    BY <1>2, <2>1
<1>6. ss = [i \in DOMAIN fragments |-> Events(fragments[i])]
    BY DEF EachDecoded
<1> HIDE DEF ss, tt
<1>7. tt = [ss EXCEPT ![n] = Events(f)]
    BY <1>1, <1>5, <1>6
<1>8. ss # <<>> /\ ss[n] = Events(Back)
    BY <1>1 DEF Back
<1>9. ASSUME Events(f) = Events(Back) PROVE Contents' = Contents
  <2>1. tt = ss
    BY <1>1, <1>5, <1>6, <1>9 DEF Back
  <2> QED
    BY <1>3, <1>4, <2>1
<1>10. ASSUME NEW e \in TraceEvents, Events(f) = Append(Events(Back), e)
       PROVE  Contents' = Append(Contents, e)
  <2>1. tt = [ss EXCEPT ![Len(ss)] = Append(ss[Len(ss)], e)]
    BY <1>1, <1>7, <1>8, <1>10
  <2>2. ss \in Seq(Seq(TraceEvents)) /\ ss # <<>> /\ e \in TraceEvents
    BY <1>1, <1>8
  <2>3. FlattenSeq(tt) = Append(FlattenSeq(ss), e)
    BY <2>1, <2>2, LastGrows, Zenon
  <2> QED
    BY <1>3, <1>4, <2>3
<1> QED
    BY <1>9, <1>10

\* The last fragment is replaced, and the others stay.
LEMMA LastTraced ==
    ASSUME Files, Traced, pc = "write", Len(fragments) \in DOMAIN fragments,
           NEW f, fragments' = [fragments EXCEPT ![Len(fragments)] = f], IsAligned(f),
           f.pending # <<>> => pc' = "write" /\ should_flush'
    PROVE  \A i \in DOMAIN fragments' :
               /\ IsAligned(fragments'[i])
               /\ fragments'[i].pending # <<>> =>
                      pc' = "write" /\ i = Len(fragments') /\ should_flush'
<1>1. /\ Len(fragments') = Len(fragments) /\ DOMAIN fragments' = DOMAIN fragments
      /\ \A i \in DOMAIN fragments :
             fragments'[i] = IF i = Len(fragments) THEN f ELSE fragments[i]
    BY OneFragmentChanges
<1> SUFFICES ASSUME NEW i \in DOMAIN fragments'
             PROVE  /\ IsAligned(fragments'[i])
                    /\ fragments'[i].pending # <<>> =>
                           pc' = "write" /\ i = Len(fragments') /\ should_flush'
    OBVIOUS
<1>2. CASE i = Len(fragments)
    BY <1>1, <1>2
<1>3. CASE i # Len(fragments)
    BY <1>1, <1>3 DEF Traced
<1> QED
    BY <1>2, <1>3

\* An empty file has no chunk and no event.
LEMMA EmptyDecoded == Chunks(<<>>, 0) /\ EventsOf(<<>>) = <<>> /\ Len(<<>>) = 0
<1>1. Len(<<>>) = 0 /\ 0 * ChunkSize = 0
    BY ChunkSizePositive
<1>2. Chunks(<<>>, 0)
    BY <1>1 DEF Chunks
<1>3. 1 .. 0 = {}
    OBVIOUS
<1> QED
    BY <1>1, <1>2, <1>3, EventsLength

\* Whole chunks, one after the other, are whole chunks.
LEMMA WholeConcat ==
    ASSUME NEW s, IsSequence(s), Whole(s), NEW t, IsSequence(t), Whole(t)
    PROVE  Whole(s \o t)
<1>1. PICK m \in Nat : Chunks(s, m)
    BY DEF Whole
<1>2. PICK n \in Nat : Chunks(t, n)
    BY DEF Whole
<1>3. Len(s \o t) = Len(s) + Len(t)
    BY Concatenation
<1>4. (m + n) * ChunkSize = m * ChunkSize + n * ChunkSize /\ m + n \in Nat
    BY ChunkSizePositive
<1>5. Chunks(s \o t, m + n)
    BY <1>1, <1>2, <1>3, <1>4 DEF Chunks
<1> QED
    BY <1>4, <1>5 DEF Whole

\* Concatenation, for any sequences.
LEMMA SequencesJoin ==
    ASSUME NEW s, IsSequence(s), NEW t, IsSequence(t), NEW u, IsSequence(u)
    PROVE  (s \o t) \o u = s \o (t \o u) /\ s \o <<>> = s /\ <<>> \o s = s
<1> DEFINE S == {s[i] : i \in DOMAIN s} \cup {t[i] : i \in DOMAIN t} \cup {u[i] : i \in DOMAIN u}
<1>1. s \in Seq(S) /\ t \in Seq(S) /\ u \in Seq(S)
    BY SeqMonotonic DEF IsSequence
<1> HIDE DEF S
<1>2. s \o <<>> = s /\ <<>> \o s = s
    BY <1>1, ConcatEmptySeq
<1>3. (s \o t) \o u = s \o (t \o u)
    BY <1>1, ConcatOfThree
<1> QED
    BY <1>2, <1>3

\* A write appends its event to the trace.
LEMMA TracedWrite == ASSUME TraceInv, Traced, Write PROVE Traced'
<1> DEFINE n == Len(fragments)
           e == Head(batch)
           c == AsChunk(e)
           f == Buffered(Back, c)
<1>0. Files /\ pc = "write"
    BY DEF TraceInv, Write
<1>1. n \in DOMAIN fragments /\ IsFragment(Back) /\ Back.offset = Len(Back.bytes)
    BY LastFragment DEF Write
<1>2. e \in TraceEvents
  <2>1. batch \in Seq(StackEvents) /\ batch # <<>>
    BY DEF TraceInv, Write
  <2>2. e \in StackEvents
    BY <2>1, HeadTailProperties
  <2> QED
    BY <2>2 DEF Write, StackEvents
<1>3. IsSequence(c) /\ Len(c) = ChunkSize /\ FromChunk(c) = e
    BY <1>2, ChunkSequence, ChunksRoundTrip
<1>4. /\ \/ f.bytes = Back.bytes /\ f.pending = Back.pending \o c
         \/ f.bytes = Back.bytes \o Back.pending /\ f.pending = <<>> \o c
      /\ f.created = Back.created
    BY <1>1, BufferedKeeps
<1>5. /\ fragments' = [fragments EXCEPT ![n] = f]
      /\ traced' = Append(traced, e) /\ dropped' = dropped
      /\ pc' = "write" /\ should_flush' = TRUE
    BY DEF Write, Back
<1>6. IsAligned(Back)
    BY <1>1 DEF Traced, Back
<1>7. IsSequence(Back.bytes) /\ IsSequence(Back.pending)
    BY <1>1 DEF IsFragment
<1> DEFINE x == Back.bytes
           y == Back.pending
<1> HIDE DEF c, f, e, x, y
<1>8. Whole(c) /\ Chunks(c, 1)
    BY <1>3, ChunkSizePositive DEF Whole, Chunks
<1>9. f.bytes \o f.pending = (x \o y) \o c
  <2>0. IsSequence(x) /\ IsSequence(y)
    BY <1>7 DEF x, y
  <2>1. (x \o y) \o c = x \o (y \o c) /\ <<>> \o c = c
    BY <1>3, <2>0, SequencesJoin
  <2>2. \/ f.bytes = x /\ f.pending = y \o c
        \/ f.bytes = x \o y /\ f.pending = <<>> \o c
    BY <1>4 DEF x, y
  <2> QED
    BY <2>1, <2>2, Zenon
<1>10. IsSequence(x \o y) /\ Whole(x \o y) /\ Whole(y \o c) /\ Whole(x) /\ Whole(y)
    BY <1>3, <1>6, <1>7, <1>8, Concatenation, WholeConcat DEF x, y, IsAligned
<1>11. Events(f) = Append(Events(Back), e)
  <2>1. PICK m \in Nat : Chunks(x \o y, m)
    BY <1>10 DEF Whole
  <2>2. EventsOf((x \o y) \o c) = Append(EventsOf(x \o y), FromChunk(c))
    BY <1>3, <1>10, <2>1, ChunkAfter
  <2> QED
    BY <1>3, <1>9, <2>2 DEF Events, x, y
<1>12. IsAligned(f)
  <2>1. <<>> \o c = c
    BY <1>3, SequencesJoin
  <2>2. Whole(f.bytes) /\ Whole(f.pending)
    BY <1>4, <1>8, <1>10, <2>1 DEF x, y
  <2>3. Events(f) \in Seq(TraceEvents)
    BY <1>2, <1>6, <1>11, AppendProperties DEF IsAligned
  <2> QED
    BY <2>2, <2>3 DEF IsAligned
<1>13. \A i \in DOMAIN fragments' :
           /\ IsAligned(fragments'[i])
           /\ fragments'[i].pending # <<>> =>
                  pc' = "write" /\ i = Len(fragments') /\ should_flush'
    BY <1>0, <1>1, <1>5, <1>12, LastTraced
<1>14. Contents' = Append(Contents, e)
    BY <1>0, <1>1, <1>2, <1>5, <1>11, LastDecoded
<1>15. NothingOverwritten'
  <2>1. /\ traced \in Seq(TraceEvents) /\ dropped \in 0 .. Len(traced)
        /\ Contents = SubSeq(traced, dropped + 1, Len(traced))
    BY DEF Traced, NothingOverwritten
  <2>2. SubSeq(Append(traced, e), dropped + 1, Len(Append(traced, e)))
            = Append(SubSeq(traced, dropped + 1, Len(traced)), e)
    BY <1>2, <2>1, RestGrows
  <2> QED
    BY <1>5, <1>14, <2>1, <2>2 DEF NothingOverwritten
<1>16. traced' \in Seq(TraceEvents) /\ dropped' \in 0 .. Len(traced')
  <2>1. Len(Append(traced, e)) = Len(traced) + 1 /\ Append(traced, e) \in Seq(TraceEvents)
    BY <1>2, AppendProperties DEF Traced
  <2>2. dropped \in 0 .. Len(traced) /\ Len(traced) \in Nat
    BY LenProperties DEF Traced
  <2> QED
    BY <1>5, <2>1, <2>2
<1> QED
    BY <1>13, <1>15, <1>16 DEF Traced, IsAligned, Events, Whole, Chunks, EventsOf

\* A flush moves events from the buffer to the file.
LEMMA TracedFlush == ASSUME TraceInv, Traced, Flush PROVE Traced'
<1>0. Files /\ pc = "write" /\ pc' = "poll" /\ UNCHANGED <<traced, dropped>>
    BY DEF TraceInv, Flush
<1>a. ASSUME Contents' = Contents,
             \A i \in DOMAIN fragments' : IsAligned(fragments'[i]) /\ fragments'[i].pending = <<>>
      PROVE  Traced'
  <2>1. NothingOverwritten'
    BY <1>0, <1>a DEF Traced, NothingOverwritten
  <2>2. traced' \in Seq(TraceEvents) /\ dropped' \in 0 .. Len(traced')
    BY <1>0 DEF Traced
  <2> QED
    BY <1>a, <2>1, <2>2 DEF Traced, IsAligned, Events, Whole, Chunks, EventsOf
<1>1. CASE ~should_flush
  <2>1. UNCHANGED fragments
    BY <1>1 DEF Flush
  <2>2. \A i \in DOMAIN fragments : IsAligned(fragments[i]) /\ fragments[i].pending = <<>>
    BY <1>1 DEF Traced
  <2>3. Contents' = Contents
    BY <2>1 DEF Contents
  <2>4. \A i \in DOMAIN fragments' : IsAligned(fragments'[i]) /\ fragments'[i].pending = <<>>
    BY <2>1, <2>2
  <2> QED
    BY <1>a, <2>3, <2>4
<1>2. CASE should_flush
  <2> DEFINE n == Len(fragments)
             f == Flushed(Back)
  <2>1. n \in DOMAIN fragments /\ IsFragment(Back) /\ Back.offset = Len(Back.bytes)
    BY <1>2, LastFragment DEF Flush
  <2>2. f.bytes = Back.bytes \o Back.pending /\ f.pending = <<>>
    BY <2>1, FlushedKeeps
  <2>3. fragments' = [fragments EXCEPT ![n] = f]
    BY <1>2 DEF Flush, Back
  <2>4. IsAligned(Back) /\ IsSequence(Back.bytes) /\ IsSequence(Back.pending)
    BY <2>1 DEF Traced, Back, IsFragment
  <2> HIDE DEF f
  <2>5. IsSequence(Back.bytes \o Back.pending) /\ Whole(Back.bytes \o Back.pending)
    BY <2>4, Concatenation, WholeConcat DEF IsAligned
  <2>6. Events(f) = Events(Back)
    BY <2>2, <2>5, SequencesJoin DEF Events
  <2>7. Whole(<<>>)
    BY EmptyDecoded DEF Whole
  <2>8. IsAligned(f)
    BY <2>2, <2>4, <2>5, <2>6, <2>7 DEF IsAligned
  <2>9. Contents' = Contents
    BY <1>0, <2>1, <2>3, <2>6, LastDecoded
  <2>10. /\ Len(fragments') = n /\ DOMAIN fragments' = DOMAIN fragments
         /\ \A j \in DOMAIN fragments : fragments'[j] = IF j = n THEN f ELSE fragments[j]
    BY <1>0, <2>1, <2>3, OneFragmentChanges
  <2>11. ASSUME NEW i \in DOMAIN fragments'
         PROVE  IsAligned(fragments'[i]) /\ fragments'[i].pending = <<>>
    <3>1. CASE i = n
        BY <2>2, <2>8, <2>10, <3>1
    <3>2. CASE i # n
        BY <2>10, <3>2 DEF Traced
    <3> QED
        BY <3>1, <3>2
  <2> QED
    BY <1>a, <2>9, <2>11
<1> QED
    BY <1>1, <1>2

\* An expired fragment takes the oldest events with it.
LEMMA TracedDrop == ASSUME TraceInv, Traced, DropExpired PROVE Traced'
<1> DEFINE ss == EachDecoded
           h == Head(fragments)
           E == TraceEvents
<1>0. Files /\ fragments # <<>> /\ fragments' = Tail(fragments)
    BY DEF TraceInv, DropExpired, FrontExpired
<1>1. /\ dropped' = dropped + Len(EventsOf(h.bytes)) /\ traced' = traced
      /\ pc = "refresh" /\ pc' = pc /\ should_flush' = should_flush
    BY DEF DropExpired, workerVars
<1>2. /\ ss \in Seq(Seq(E)) /\ Len(ss) = Len(fragments) /\ DOMAIN ss = DOMAIN fragments
      /\ \A i \in DOMAIN fragments : ss[i] = Events(fragments[i])
    BY <1>0, DecodedType
<1>3. 1 \in DOMAIN fragments /\ h = fragments[1] /\ ss # <<>> /\ Len(fragments) \in Nat \ {0}
  <2>1. fragments \in Seq({fragments[j] : j \in DOMAIN fragments})
    BY <1>0 DEF Files, IsSequence
  <2>2. Len(fragments) \in Nat \ {0} /\ DOMAIN fragments = 1 .. Len(fragments)
    BY <1>0, <2>1, EmptyLength, FragmentsLength
  <2>3. Len(ss) # 0 /\ Len(<<>>) = 0
    BY <1>2, <2>2
  <2>4. ss # <<>>
    BY <2>3, Zenon
  <2>5. h = fragments[1]
    BY <2>1
  <2> QED
    BY <2>2, <2>4, <2>5
<1>4. \A i \in DOMAIN fragments : IsAligned(fragments[i]) /\ fragments[i].pending = <<>>
    BY <1>1 DEF Traced
<1>5. Events(h) = EventsOf(h.bytes) /\ Events(h) \in Seq(E)
  <2>1. IsFragment(h) /\ h.pending = <<>> /\ IsAligned(h)
    BY <1>0, <1>3, <1>4 DEF Files
  <2> QED
    BY <2>1, SequencesJoin DEF Events, IsFragment, IsAligned
<1>6. /\ Len(fragments') = Len(fragments) - 1
      /\ DOMAIN fragments' = 1 .. Len(fragments) - 1
      /\ \A i \in DOMAIN fragments' :
             i + 1 \in DOMAIN fragments /\ fragments'[i] = fragments[i + 1]
    BY <1>0, TailFields
<1> DEFINE tt == [i \in DOMAIN fragments' |->
                    EventsOf(fragments'[i].bytes \o fragments'[i].pending)]
<1>7. Contents' = FlattenSeq(tt)
    BY DEF Contents
<1>8. Contents = FlattenSeq(ss)
    BY ContentsDecoded
<1>9. \A i \in DOMAIN fragments' : tt[i] = ss[i + 1]
    BY <1>2, <1>6 DEF Events
<1>10. tt = [i \in 1 .. Len(fragments) - 1 |-> tt[i]]
    BY <1>6
<1> HIDE DEF ss, tt, h
<1>11. ss[1] = Events(h)
    BY <1>2, <1>3
<1> DEFINE Q == Seq(E)
<1>12. ss \in Seq(Q)
    BY <1>2
<1> HIDE DEF Q
<1>13. /\ Head(ss) = ss[1] /\ Tail(ss) \in Seq(Q) /\ Len(Tail(ss)) = Len(fragments) - 1
       /\ \A i \in 1 .. Len(fragments) - 1 : Tail(ss)[i] = ss[i + 1]
    BY <1>2, <1>3, <1>12, HeadTailProperties
<1>14. tt = Tail(ss)
  <2>1. \A i \in 1 .. Len(fragments) - 1 : tt[i] \in Q
    <3> SUFFICES ASSUME NEW i \in 1 .. Len(fragments) - 1 PROVE tt[i] \in Q
        OBVIOUS
    <3>1. i + 1 \in DOMAIN fragments /\ tt[i] = ss[i + 1]
        BY <1>6, <1>9
    <3> QED
        BY <1>2, <1>12, <3>1, ElementOfSeq, FragmentsLength, <1>0
  <2>2. tt \in Seq(Q) /\ Len(tt) = Len(fragments) - 1
    BY <1>3, <1>10, <2>1
  <2> QED
    BY <1>6, <1>9, <1>13, <2>2, SeqEqual
<1>15. FlattenSeq(ss) = Events(h) \o FlattenSeq(Tail(ss))
  <2>1. FlattenSeq(ss) = Head(ss) \o FlattenSeq(Tail(ss))
    BY <1>3, <1>12, FlattenHead, Zenon DEF Q
  <2> QED
    BY <1>11, <1>13, <2>1
<1>16. FlattenSeq(Tail(ss)) \in Seq(E)
    BY <1>13, FlattenType, Zenon DEF Q
<1>17. /\ dropped' \in 0 .. Len(traced')
       /\ Contents' = SubSeq(traced', dropped' + 1, Len(traced'))
  <2>1. traced \in Seq(E) /\ dropped \in 0 .. Len(traced)
    BY DEF Traced
  <2> DEFINE a == Events(h)
             b == FlattenSeq(Tail(ss))
  <2>2. IsRest(a \o b, traced, dropped) /\ a \in Seq(E) /\ b \in Seq(E)
    BY <1>5, <1>8, <1>15, <1>16 DEF Traced, NothingOverwritten, IsRest
  <2> HIDE DEF a, b, E
  <2>3. IsRest(b, traced, dropped + Len(a))
    BY <2>1, <2>2, RestOfRest, Zenon
  <2>4. dropped' = dropped + Len(a) /\ Contents' = b
    BY <1>1, <1>5, <1>7, <1>14 DEF a, b
  <2> QED
    BY <1>1, <2>3, <2>4 DEF IsRest
<1>18. \A i \in DOMAIN fragments' : IsAligned(fragments'[i]) /\ fragments'[i].pending = <<>>
    BY <1>4, <1>6
<1> QED
    BY <1>1, <1>17, <1>18 DEF Traced, IsAligned, Events, Whole, Chunks, EventsOf, NothingOverwritten

\* A new fragment has no events.
LEMMA TracedRefresh == ASSUME TraceInv, Traced, Refresh PROVE Traced'
<1> DEFINE n == Len(fragments)
           ss == EachDecoded
<1>0. Files /\ pc = "refresh" /\ UNCHANGED <<should_flush, traced, dropped>>
    BY DEF TraceInv, Refresh
<1>1. \A i \in DOMAIN fragments : IsAligned(fragments[i]) /\ fragments[i].pending = <<>>
    BY <1>0 DEF Traced
<1>a. ASSUME Contents' = Contents,
             \A i \in DOMAIN fragments' : IsAligned(fragments'[i]) /\ fragments'[i].pending = <<>>
      PROVE  Traced'
  <2>1. NothingOverwritten'
    BY <1>0, <1>a DEF Traced, NothingOverwritten
  <2>2. traced' \in Seq(TraceEvents) /\ dropped' \in 0 .. Len(traced')
    BY <1>0 DEF Traced
  <2> QED
    BY <1>a, <2>1, <2>2 DEF Traced, IsAligned, Events, Whole, Chunks, EventsOf
<1>2. CASE BackValid
  <2>1. UNCHANGED fragments
    BY <1>2 DEF Refresh, KeepOrAdd
  <2>2. Contents' = Contents
    BY <2>1 DEF Contents
  <2>3. \A i \in DOMAIN fragments' : IsAligned(fragments'[i]) /\ fragments'[i].pending = <<>>
    BY <1>1, <2>1
  <2> QED
    BY <1>a, <2>2, <2>3
<1>3. CASE ~BackValid
  <2> DEFINE f == NewFragment
             S == {fragments[j] : j \in DOMAIN fragments} \cup {f}
  <2>1. fragments' = Append(fragments, f)
    BY <1>3 DEF Refresh, KeepOrAdd
  <2>2. f.bytes = <<>> /\ f.pending = <<>>
    BY DEF NewFragment
  <2>3. fragments \in Seq(S) /\ f \in S /\ n \in Nat /\ DOMAIN fragments = 1 .. n
    BY <1>0, FragmentsLength DEF Files, IsSequence
  <2> HIDE DEF f, S
  <2>4. /\ fragments' \in Seq(S) /\ Len(fragments') = n + 1 /\ fragments'[n + 1] = f
        /\ \A i \in 1 .. n : fragments'[i] = fragments[i]
    BY <2>1, <2>3, AppendProperties
  <2>5. DOMAIN fragments' = 1 .. n + 1
    BY <2>4, LenProperties
  <2>6. Events(f) = <<>> /\ Whole(<<>>)
    <3>1. IsSequence(<<>>)
        BY DEF IsSequence
    <3>2. <<>> \o <<>> = <<>>
        BY <3>1, SequencesJoin
    <3> QED
        BY <2>2, <3>2, EmptyDecoded DEF Events, Whole
  <2>7. IsAligned(f)
    <3>1. <<>> \in Seq(TraceEvents)
        OBVIOUS
    <3> QED
        BY <2>2, <2>6, <3>1 DEF IsAligned
  <2>8. ASSUME NEW i \in DOMAIN fragments'
        PROVE  IsAligned(fragments'[i]) /\ fragments'[i].pending = <<>>
    <3>1. i = n + 1 \/ i \in 1 .. n
        BY <2>3, <2>5
    <3>2. CASE i = n + 1
        BY <2>2, <2>4, <2>7, <3>2
    <3>3. CASE i \in 1 .. n
        BY <1>1, <2>3, <2>4, <3>3
    <3> QED
        BY <3>1, <3>2, <3>3
  <2>9. /\ ss \in Seq(Seq(TraceEvents)) /\ Len(ss) = n /\ DOMAIN ss = DOMAIN fragments
        /\ \A i \in DOMAIN fragments : ss[i] = Events(fragments[i])
    BY <1>0, DecodedType
  <2> DEFINE tt == [i \in DOMAIN fragments' |->
                      EventsOf(fragments'[i].bytes \o fragments'[i].pending)]
  <2>10. Contents' = FlattenSeq(tt) /\ Contents = FlattenSeq(ss)
    BY ContentsDecoded DEF Contents
  <2>11. \A i \in 1 .. n + 1 : tt[i] = Events(fragments'[i])
    BY <2>5 DEF Events
  <2>12. tt = [i \in 1 .. n + 1 |-> tt[i]]
    BY <2>5
  <2> DEFINE Q == Seq(TraceEvents)
  <2>13. ss \in Seq(Q) /\ <<>> \in Q
    BY <2>9
  <2> HIDE DEF ss, tt, Q, n
  <2>14. \A i \in 1 .. n + 1 : tt[i] = IF i = n + 1 THEN <<>> ELSE ss[i]
    <3> SUFFICES ASSUME NEW i \in 1 .. n + 1 PROVE tt[i] = IF i = n + 1 THEN <<>> ELSE ss[i]
        OBVIOUS
    <3>1. i = n + 1 \/ i \in 1 .. n
        BY <2>3
    <3>2. CASE i = n + 1
        BY <2>4, <2>6, <2>11, <3>2
    <3>3. CASE i \in 1 .. n
        BY <2>3, <2>4, <2>9, <2>11, <3>3
    <3> QED
        BY <3>1, <3>2, <3>3
  <2>15. tt = Append(ss, <<>>)
    <3>1. /\ Append(ss, <<>>) \in Seq(Q) /\ Len(Append(ss, <<>>)) = n + 1
          /\ \A i \in 1 .. n : Append(ss, <<>>)[i] = ss[i]
          /\ Append(ss, <<>>)[n + 1] = <<>>
        BY <2>9, <2>13, AppendProperties
    <3>2. \A i \in 1 .. n : ss[i] \in Q
        BY <2>3, <2>9, <2>13, ElementOfSeq
    <3>3. \A i \in 1 .. n + 1 : tt[i] \in Q
        BY <2>3, <2>13, <2>14, <3>2
    <3>4. tt \in Seq(Q) /\ Len(tt) = n + 1
        BY <2>3, <2>12, <3>3
    <3>5. \A i \in 1 .. n + 1 : tt[i] = Append(ss, <<>>)[i]
        BY <2>3, <2>14, <3>1
    <3> HIDE DEF Q
    <3> QED
        BY <3>1, <3>4, <3>5, SeqEqual
  <2>16. FlattenSeq(Append(ss, <<>>)) = FlattenSeq(ss) \o <<>>
    BY <2>13, FlattenAppend, Zenon DEF Q
  <2>17. FlattenSeq(ss) \in Seq(TraceEvents)
    BY <2>13, FlattenType, Zenon DEF Q
  <2>18. FlattenSeq(ss) \o <<>> = FlattenSeq(ss)
    BY <2>17, ConcatEmptySeq
  <2>19. Contents' = Contents
    BY <2>10, <2>15, <2>16, <2>18, Zenon
  <2> QED
    BY <1>a, <2>8, <2>19
<1> QED
    BY <1>2, <1>3

\* A wipe leaves neither fragments nor history.
LEMMA TracedWhenEmpty ==
    ASSUME fragments' = <<>>, traced' = <<>>, dropped' = 0
    PROVE  Traced'
<1>1. DOMAIN fragments' = {} /\ Len(<<>>) = 0 /\ <<>> \in Seq(TraceEvents)
    OBVIOUS
<1>2. Contents' = FlattenSeq([i \in {} |->
            EventsOf(fragments'[i].bytes \o fragments'[i].pending)])
    BY <1>1 DEF Contents
<1>4. [i \in {} |-> EventsOf(fragments'[i].bytes \o fragments'[i].pending)] = <<>>
    OBVIOUS
<1>5. Contents' = <<>>
    BY <1>2, <1>4, FlattenEmpty
<1>6. SubSeq(<<>>, 0 + 1, Len(<<>>)) = <<>>
    BY <1>1, SubSeqEmpty
<1>7. NothingOverwritten'
    BY <1>5, <1>6 DEF NothingOverwritten
<1> QED
    BY <1>1, <1>7 DEF Traced, IsAligned, Events, Whole, Chunks, EventsOf

\* At first nothing has been written.
LEMMA TracedInit == Init => Traced
<1> SUFFICES ASSUME Init PROVE Traced
    OBVIOUS
<1>1. /\ fragments = <<>> /\ traced = <<>> /\ dropped = 0
      /\ DOMAIN fragments = {} /\ Len(<<>>) = 0 /\ <<>> \in Seq(TraceEvents)
    BY DEF Init
<1>2. [i \in DOMAIN fragments |-> EventsOf(fragments[i].bytes \o fragments[i].pending)] = <<>>
    BY <1>1
<1>3. Contents = <<>>
    BY <1>2, FlattenEmpty DEF Contents
<1>4. SubSeq(<<>>, 0 + 1, Len(<<>>)) = <<>>
    BY <1>1, SubSeqEmpty
<1> QED
    BY <1>1, <1>3, <1>4 DEF Traced, NothingOverwritten

\* What is in the trace stays the rest of what has been written.
LEMMA TracedStep == ASSUME TraceInv, Traced, [Next]_vars PROVE Traced'
<1>0. Files
    BY DEF TraceInv
<1>1. ASSUME UNCHANGED fragments PROVE FragmentsKept
    BY <1>1 DEF FragmentsKept, Keeps
<1>2. ASSUME NEW e \in Sent, Send(e) PROVE Traced'
    BY <1>1, <1>2, TracedStays DEF Send, workerVars
<1>3. CASE Tick \/ UNCHANGED vars
    BY <1>1, <1>3, TracedStays DEF Tick, vars, workerVars
<1>4. CASE Poll
  <2>1. \A i \in DOMAIN fragments : IsAligned(fragments[i]) /\ fragments[i].pending = <<>>
    BY <1>4 DEF Poll, Traced
  <2>2. UNCHANGED <<fragments, traced, dropped>>
    BY <1>4 DEF Poll
  <2>3. Contents' = Contents
    BY <2>2 DEF Contents
  <2>4. NothingOverwritten'
    BY <2>2, <2>3 DEF Traced, NothingOverwritten
  <2>5. \A i \in DOMAIN fragments' : IsAligned(fragments'[i]) /\ fragments'[i].pending = <<>>
    BY <2>1, <2>2
  <2>6. traced' \in Seq(TraceEvents) /\ dropped' \in 0 .. Len(traced')
    BY <2>2 DEF Traced
  <2> QED
    BY <2>4, <2>5, <2>6 DEF Traced, IsAligned, Events, Whole, Chunks, EventsOf
<1>5. CASE DropExpired
    BY <1>5, TracedDrop
<1>6. CASE Refresh
    BY <1>6, TracedRefresh
<1>7. CASE WipeTrace
    BY <1>7, TracedWhenEmpty DEF WipeTrace
<1>8. CASE Write
    BY <1>8, TracedWrite
<1>9. CASE Flush
    BY <1>9, TracedFlush
<1>10. ASSUME NEW r \in Readers, Start(r) \/ ReaderStep(r) PROVE Traced'
  <2>1. UNCHANGED <<pc, should_flush, traced, dropped>>
    BY <1>10 DEF Start, ReaderStep, Enter, Rewind, GiveUp, Read, Restore, Leave, ReaderAt,
                workerVars
  <2> QED
    BY <1>10, <2>1, ReadersKeepFragments, TracedStays
<1> QED
    BY <1>2, <1>3, <1>4, <1>5, <1>6, <1>7, <1>8, <1>9, <1>10 DEF Next, WorkerStep

\* The files and the buffer hold exactly the events written since the last wipe, less
\* those of the fragments that have expired: no write lands on another or is lost, and
\* every chunk begins where one ended, whatever readers do to the offsets in between
\* and however small the buffer is (trace/mod.rs run, event.rs).
THEOREM NothingIsOverwritten == Spec => []NothingOverwritten
<1>1. Init => TraceInv /\ Traced
    BY TraceInvInit, TracedInit
<1>2. (TraceInv /\ Traced) /\ [Next]_vars => (TraceInv /\ Traced)'
    BY TraceInvStep, TracedStep
<1>3. TraceInv /\ Traced => NothingOverwritten
    BY DEF Traced
<1> QED
    BY <1>1, <1>2, <1>3, PTL DEF Spec

-----------------------------------------------------------------------------
(***************************************************************************)
(* What a reader has seen                                                  *)
(***************************************************************************)

\* The events in the first k files, of files that can be decoded.
FilesOf(fs, k) == FlattenSeq([j \in 1 .. k |-> EventsOf(fs[j].bytes)])

Decodable(fs) ==
    /\ Len(fs) \in Nat /\ DOMAIN fs = 1 .. Len(fs)
    /\ \A j \in 1 .. Len(fs) : EventsOf(fs[j].bytes) \in Seq(TraceEvents)

\* One file more.
LEMMA FilesNext ==
    ASSUME NEW fs, Decodable(fs), NEW k \in Nat, k + 1 <= Len(fs)
    PROVE  FilesOf(fs, k + 1) = FilesOf(fs, k) \o EventsOf(fs[k + 1].bytes)
<1> DEFINE E == TraceEvents
           ss == [j \in 1 .. k + 1 |-> EventsOf(fs[j].bytes)]
<1>1. \A j \in 1 .. k + 1 : EventsOf(fs[j].bytes) \in Seq(E)
    BY DEF Decodable
<1>2. ss \in Seq(Seq(E)) /\ Len(ss) = k + 1
    BY <1>1
<1>3. /\ ss[k + 1] = EventsOf(fs[k + 1].bytes)
      /\ [j \in 1 .. k |-> ss[j]] = [j \in 1 .. k |-> EventsOf(fs[j].bytes)]
  <2>1. k + 1 \in 1 .. k + 1 /\ \A j \in 1 .. k : j \in 1 .. k + 1
    OBVIOUS
  <2>2. \A j \in 1 .. k + 1 : ss[j] = EventsOf(fs[j].bytes)
    OBVIOUS
  <2> HIDE DEF ss
  <2> QED
    BY <2>1, <2>2
<1>4. FilesOf(fs, k + 1) = FlattenSeq(ss)
    BY DEF FilesOf
<1> HIDE DEF ss, E
<1>5. FlattenSeq(ss) = FlattenSeq([j \in 1 .. k |-> ss[j]]) \o ss[k + 1]
    BY <1>2, FlattenLast, Zenon
<1> QED
    BY <1>3, <1>4, <1>5, Zenon DEF FilesOf

\* The same, from the last.
LEMMA FilesLast ==
    ASSUME NEW fs, Decodable(fs), NEW n \in 1 .. Len(fs)
    PROVE  FilesOf(fs, n) = FilesOf(fs, n - 1) \o EventsOf(fs[n].bytes)
<1> DEFINE k == n - 1
<1>1. k \in Nat /\ k + 1 = n /\ k + 1 <= Len(fs)
    BY DEF Decodable
<1> HIDE DEF k
<1>2. FilesOf(fs, k + 1) = FilesOf(fs, k) \o EventsOf(fs[k + 1].bytes)
    BY <1>1, FilesNext
<1> QED
    BY <1>1, <1>2 DEF k

\* Files decode to events.
LEMMA FilesType ==
    ASSUME NEW fs, Decodable(fs), NEW k \in 0 .. Len(fs)
    PROVE  FilesOf(fs, k) \in Seq(TraceEvents)
<1> DEFINE E == TraceEvents
           ss == [j \in 1 .. k |-> EventsOf(fs[j].bytes)]
<1>1. k \in Nat /\ \A j \in 1 .. k : EventsOf(fs[j].bytes) \in Seq(E)
    BY DEF Decodable
<1>2. ss \in Seq(Seq(E))
    BY <1>1
<1> HIDE DEF ss
<1>3. FlattenSeq(ss) \in Seq(E)
    BY <1>2, FlattenType, Zenon
<1> QED
    BY <1>3 DEF FilesOf, ss

\* No files have no events.
LEMMA NoFiles == ASSUME NEW fs PROVE FilesOf(fs, 0) = <<>>
<1>1. [j \in 1 .. 0 |-> EventsOf(fs[j].bytes)] = <<>>
    OBVIOUS
<1> QED
    BY <1>1, FlattenEmpty DEF FilesOf

\* Files with the same bytes have the same events.
LEMMA FilesSame ==
    ASSUME NEW fs, NEW gs, NEW k \in Nat, \A j \in 1 .. k : gs[j].bytes = fs[j].bytes
    PROVE  FilesOf(gs, k) = FilesOf(fs, k)
<1>1. [j \in 1 .. k |-> EventsOf(gs[j].bytes)] = [j \in 1 .. k |-> EventsOf(fs[j].bytes)]
    OBVIOUS
<1> QED
    BY <1>1 DEF FilesOf

\* The first files' events begin those of all.
LEMMA FilesBegin ==
    ASSUME NEW fs, Decodable(fs), NEW k \in 0 .. Len(fs)
    PROVE  IsPrefix(FilesOf(fs, k), FilesOf(fs, Len(fs)))
<1> DEFINE F(n) == FilesOf(fs, n)
           T == {d \in Nat : k + d <= Len(fs) => IsPrefix(F(k), F(k + d))}
<1>0. k \in Nat /\ Len(fs) \in Nat
    BY DEF Decodable
<1>1. 0 \in T
  <2>1. k + 0 = k
    BY <1>0
  <2> QED
    BY <1>0, <2>1, FilesType, LenProperties DEF IsPrefix
<1>2. ASSUME NEW d \in Nat, d \in T PROVE d + 1 \in T
  <2> SUFFICES ASSUME k + (d + 1) <= Len(fs) PROVE IsPrefix(F(k), F(k + (d + 1)))
    OBVIOUS
  <2>1. k + d \in Nat /\ (k + d) + 1 = k + (d + 1) /\ k + d \in 0 .. Len(fs)
    BY <1>0
  <2>2. F((k + d) + 1) = F(k + d) \o EventsOf(fs[(k + d) + 1].bytes)
    BY <2>1, FilesNext
  <2>3. (k + d) + 1 \in 1 .. Len(fs) /\ (k + d) + 1 \in 0 .. Len(fs)
    BY <2>1
  <2>4. /\ F(k) \in Seq(TraceEvents) /\ F(k + d) \in Seq(TraceEvents)
        /\ F((k + d) + 1) \in Seq(TraceEvents)
        /\ EventsOf(fs[(k + d) + 1].bytes) \in Seq(TraceEvents)
    BY <2>1, <2>3, FilesType DEF Decodable
  <2>5. IsPrefix(F(k), F(k + d))
    BY <1>2, <2>1
  <2> HIDE DEF F
  <2>6. IsPrefix(F(k + d), F((k + d) + 1))
    BY <2>2, <2>4, ConcatBegins
  <2> QED
    BY <2>1, <2>4, <2>5, <2>6, BeginsTrans
<1>3. Len(fs) - k \in Nat /\ k + (Len(fs) - k) = Len(fs)
    BY <1>0
<1>4. Len(fs) - k \in T
    BY <1>1, <1>2, <1>3, SetInduction
<1> QED
    BY <1>3, <1>4

\* The reader x has got to the end.
HasAll(x, fs) ==
    IsPrefix(x.result, FilesOf(fs, Len(fs))) /\ Len(x.result) >= x.owed

\* The reader x has read the files before the one it is at, and of that m chunks.
HasRead(x, fs, m) ==
    LET events == EventsOf(fs[x.index].bytes)
    IN  /\ m \in 0 .. Len(events)
        /\ fs[x.index].offset = m * ChunkSize
        /\ x.result = FilesOf(fs, x.index - 1) \o SubSeq(events, 1, m)

Sees(x, fs) ==
    /\ x.result \in Seq(TraceEvents)
    /\ x.at \in {"idle", "wait"} => x.result = <<>>
    /\ x.at \in {"lock", "read", "leave"} => x.owed \in 0 .. Len(FilesOf(fs, Len(fs)))
    /\ x.at = "lock" =>
           \/ x.index \in 1 .. Len(fs) /\ x.result = FilesOf(fs, x.index - 1)
           \/ x.index \in Nat /\ x.index > Len(fs) /\ HasAll(x, fs)
    /\ x.at = "read" => x.index \in 1 .. Len(fs) /\ \E m \in Nat : HasRead(x, fs, m)
    /\ x.at = "leave" => HasAll(x, fs)

\* A reader's view stays true when the last file grows, but for the one it is reading.
LEMMA SeesGrows ==
    ASSUME NEW fs, Decodable(fs), NEW gs, Decodable(gs), Len(gs) = Len(fs),
           \A j \in 1 .. Len(fs) - 1 : gs[j].bytes = fs[j].bytes,
           IsPrefix(FilesOf(fs, Len(fs)), FilesOf(gs, Len(gs))),
           NEW x, Sees(x, fs),
           x.at = "read" => /\ gs[x.index].bytes = fs[x.index].bytes
                            /\ gs[x.index].offset = fs[x.index].offset
    PROVE  Sees(x, gs)
<1> DEFINE n == Len(fs)
           all == FilesOf(fs, n)
           more == FilesOf(gs, Len(gs))
<1>0. n \in Nat
    BY DEF Decodable
<1>1. all \in Seq(TraceEvents) /\ more \in Seq(TraceEvents)
    BY <1>0, FilesType
<1>2. IsPrefix(all, more) /\ Len(all) \in Nat /\ Len(more) \in Nat /\ Len(all) <= Len(more)
    BY <1>1, LenProperties DEF IsPrefix
<1>3. ASSUME HasAll(x, fs) PROVE HasAll(x, gs)
  <2>1. x.result \in Seq(TraceEvents) /\ IsPrefix(x.result, all)
    BY <1>3 DEF Sees, HasAll
  <2> HIDE DEF all, more
  <2>2. IsPrefix(x.result, more)
    BY <1>1, <1>2, <2>1, BeginsTrans
  <2> QED
    BY <1>3, <2>2 DEF HasAll, more
<1>4. ASSUME x.index \in 1 .. n PROVE FilesOf(gs, x.index - 1) = FilesOf(fs, x.index - 1)
  <2>1. x.index - 1 \in Nat /\ 1 .. x.index - 1 \subseteq 1 .. n - 1
    BY <1>0, <1>4
  <2> QED
    BY <2>1, FilesSame
<1>5. x.at \in {"lock", "read", "leave"} => x.owed \in 0 .. Len(more)
    BY <1>2 DEF Sees
<1>6. x.at = "lock" =>
          \/ x.index \in 1 .. Len(gs) /\ x.result = FilesOf(gs, x.index - 1)
          \/ x.index \in Nat /\ x.index > Len(gs) /\ HasAll(x, gs)
    BY <1>3, <1>4 DEF Sees
<1>7. ASSUME x.at = "read"
      PROVE  x.index \in 1 .. Len(gs) /\ \E m \in Nat : HasRead(x, gs, m)
  <2>1. x.index \in 1 .. Len(gs)
    BY <1>7 DEF Sees
  <2>2. PICK m \in Nat : HasRead(x, fs, m)
    BY <1>7 DEF Sees
  <2>3. HasRead(x, gs, m)
    BY <1>4, <1>7, <2>1, <2>2 DEF HasRead
  <2> QED
    BY <2>1, <2>3
<1>8. x.at = "leave" => HasAll(x, gs)
    BY <1>3 DEF Sees
<1> QED
    BY <1>5, <1>6, <1>7, <1>8 DEF Sees

\* Inside, a reader has seen the beginning of what is in the files.
LEMMA SeesPrefix ==
    ASSUME NEW fs, Decodable(fs), NEW x, Sees(x, fs), x.at \in {"lock", "read", "leave"}
    PROVE  IsPrefix(x.result, FilesOf(fs, Len(fs)))
<1> DEFINE n == Len(fs)
           i == x.index
<1>0. n \in Nat /\ x.result \in Seq(TraceEvents)
    BY DEF Decodable, Sees
<1>1. CASE x.at = "leave" \/ (x.at = "lock" /\ HasAll(x, fs))
    BY <1>1 DEF Sees, HasAll
<1>2. CASE x.at = "lock" /\ i \in 1 .. n /\ x.result = FilesOf(fs, i - 1)
  <2>1. i - 1 \in 0 .. n
    BY <1>0, <1>2
  <2> QED
    BY <1>2, <2>1, FilesBegin
<1>3. CASE x.at = "read"
  <2>1. i \in 1 .. n
    BY <1>3 DEF Sees
  <2>2. PICK m \in Nat : HasRead(x, fs, m)
    BY <1>3 DEF Sees
  <2> DEFINE a == FilesOf(fs, i - 1)
             e == EventsOf(fs[i].bytes)
             b == SubSeq(e, 1, m)
             c == FilesOf(fs, i)
             all == FilesOf(fs, n)
  <2>3. i - 1 \in Nat /\ (i - 1) + 1 = i /\ i - 1 \in 0 .. n /\ i \in 0 .. n
    BY <1>0, <2>1
  <2>4. e \in Seq(TraceEvents)
    BY <2>1 DEF Decodable
  <2>5. c = a \o e
    BY <2>1, FilesLast
  <2>6. a \in Seq(TraceEvents) /\ c \in Seq(TraceEvents) /\ all \in Seq(TraceEvents)
    BY <1>0, <2>3, FilesType
  <2>7. m \in 0 .. Len(e) /\ x.result = a \o b
    BY <2>2 DEF HasRead
  <2>8. IsPrefix(c, all)
    BY <2>3, FilesBegin
  <2> HIDE DEF a, e, c, all, i, n
  <2>9. IsPrefix(a \o b, c)
    BY <2>4, <2>5, <2>6, <2>7, PartBegins
  <2>10. a \o b \in Seq(TraceEvents)
    BY <1>0, <2>7
  <2>11. IsPrefix(a \o b, all)
    BY <2>6, <2>8, <2>9, <2>10, BeginsTrans
  <2> QED
    BY <2>7, <2>11 DEF all, n
<1> QED
    BY <1>1, <1>2, <1>3 DEF Sees

\* What is in a fragment is what is in its file and then what is in its buffer.
LEMMA FragmentParts ==
    ASSUME NEW f, IsFragment(f), IsAligned(f)
    PROVE  /\ Events(f) = EventsOf(f.bytes) \o EventsOf(f.pending)
           /\ EventsOf(f.bytes) \in Seq(TraceEvents) /\ EventsOf(f.pending) \in Seq(TraceEvents)
<1>1. PICK m \in Nat : Chunks(f.bytes, m)
    BY DEF IsAligned, Whole
<1>2. PICK n \in Nat : Chunks(f.pending, n)
    BY DEF IsAligned, Whole
<1>3. Events(f) = EventsOf(f.bytes) \o EventsOf(f.pending)
    BY <1>1, <1>2, EventsConcat DEF IsFragment, Events
<1>4. Events(f) \in Seq(TraceEvents)
    BY DEF IsAligned
<1> DEFINE a == EventsOf(f.bytes)
           b == EventsOf(f.pending)
           S == {a[i] : i \in 1 .. m} \cup {b[i] : i \in 1 .. n} \cup TraceEvents
<1>5. Len(a) = m /\ a = [i \in 1 .. m |-> a[i]] /\ Len(b) = n /\ b = [i \in 1 .. n |-> b[i]]
    BY <1>1, <1>2, EventsLength
<1>s. TraceEvents \subseteq S /\ (\A i \in 1 .. m : a[i] \in S) /\ (\A i \in 1 .. n : b[i] \in S)
    OBVIOUS
<1> HIDE DEF a, b, S
<1>6. a \in Seq(S) /\ b \in Seq(S)
    BY <1>5, <1>s, FunctionIsSeq
<1>7. /\ Len(a \o b) = m + n
      /\ \A i \in 1 .. m + n : (a \o b)[i] = IF i <= m THEN a[i] ELSE b[i - m]
    BY <1>5, <1>6, ConcatProperties
<1>8. a \o b \in Seq(TraceEvents)
    BY <1>3, <1>4 DEF a, b
<1>9. \A i \in 1 .. m + n : (a \o b)[i] \in TraceEvents
    BY <1>7, <1>8, ElementOfSeq
<1>10. \A i \in 1 .. m : a[i] \in TraceEvents
  <2> SUFFICES ASSUME NEW i \in 1 .. m PROVE a[i] \in TraceEvents
    OBVIOUS
  <2>1. i \in 1 .. m + n /\ i <= m
    OBVIOUS
  <2> QED
    BY <1>7, <1>9, <2>1
<1>11. \A i \in 1 .. n : b[i] \in TraceEvents
  <2> SUFFICES ASSUME NEW i \in 1 .. n PROVE b[i] \in TraceEvents
    OBVIOUS
  <2>1. m + i \in 1 .. m + n /\ ~(m + i <= m) /\ (m + i) - m = i
    OBVIOUS
  <2> QED
    BY <1>7, <1>9, <2>1
<1>12. a \in Seq(TraceEvents) /\ b \in Seq(TraceEvents)
    BY <1>5, <1>10, <1>11, FunctionIsSeq
<1> QED
    BY <1>3, <1>12 DEF a, b

\* Fragments in whole chunks can be decoded.
LEMMA AlignedDecodable ==
    ASSUME NEW fs, IsSequence(fs), \A i \in DOMAIN fs : IsFragment(fs[i]) /\ IsAligned(fs[i])
    PROVE  Decodable(fs)
<1>1. Len(fs) \in Nat /\ DOMAIN fs = 1 .. Len(fs)
    BY LenProperties DEF IsSequence
<1> QED
    BY <1>1, FragmentParts DEF Decodable

\* InFiles, of the fragments there are.
LEMMA InFilesAre == InFiles = FilesOf(fragments, Len(fragments)) \/ ~Files
<1> SUFFICES ASSUME Files PROVE InFiles = FilesOf(fragments, Len(fragments))
    OBVIOUS
<1>1. DOMAIN fragments = 1 .. Len(fragments)
    BY FragmentsLength
<1> QED
    BY <1>1 DEF InFiles, FilesOf

\* What is in the files begins what is in the trace.
LEMMA FilesBeginContents ==
    ASSUME Files, Traced
    PROVE  /\ IsPrefix(InFiles, Contents)
           /\ InFiles \in Seq(TraceEvents) /\ Contents \in Seq(TraceEvents)
<1> DEFINE n == Len(fragments)
           E == TraceEvents
           ss == EachDecoded
           all == FilesOf(fragments, n)
<1>1. n \in Nat /\ DOMAIN fragments = 1 .. n
    BY FragmentsLength
<1>2. Decodable(fragments)
    BY AlignedDecodable DEF Files, Traced
<1>3. InFiles = all /\ Contents = FlattenSeq(ss)
    BY InFilesAre, ContentsDecoded
<1>4. /\ ss \in Seq(Seq(E)) /\ Len(ss) = n
      /\ \A i \in 1 .. n : ss[i] = Events(fragments[i])
    BY <1>1, DecodedType
<1> HIDE DEF ss, E
<1>5. all \in Seq(E) /\ FlattenSeq(ss) \in Seq(E)
  <2>1. all \in Seq(E)
    BY <1>1, <1>2, FilesType DEF E
  <2>2. FlattenSeq(ss) \in Seq(E)
    BY <1>4, FlattenType, Zenon
  <2> QED
    BY <2>1, <2>2
<1>6. CASE n = 0
  <2>1. all = <<>>
    BY <1>6, NoFiles
  <2>2. Len(<<>>) = 0 /\ SubSeq(<<>>, 1, 0) = <<>> /\ SubSeq(FlattenSeq(ss), 1, 0) = <<>>
    BY SubSeqEmpty
  <2>3. Len(FlattenSeq(ss)) \in Nat
    BY <1>5, LenProperties
  <2> HIDE DEF all
  <2>4. IsPrefix(all, FlattenSeq(ss))
    BY <2>1, <2>2, <2>3 DEF IsPrefix
  <2> QED
    BY <1>3, <1>5, <2>4 DEF E
<1>7. CASE n # 0
  <2> DEFINE k == n - 1
             f == fragments[n]
             a == FilesOf(fragments, k)
             b == EventsOf(f.bytes)
             c == EventsOf(f.pending)
  <2>1. k \in Nat /\ k + 1 = n /\ k \in 0 .. n /\ n \in 1 .. n
    BY <1>1, <1>7
  <2>2. /\ Events(f) = b \o c /\ b \in Seq(E) /\ c \in Seq(E)
    BY <1>1, <2>1, FragmentParts DEF Files, Traced, E
  <2>3. \A j \in 1 .. k : ss[j] = EventsOf(fragments[j].bytes)
    <3> SUFFICES ASSUME NEW j \in 1 .. n - 1 PROVE ss[j] = EventsOf(fragments[j].bytes)
        OBVIOUS
    <3>1. j \in 1 .. n /\ j # n
        <4>1. n \in Nat /\ j \in 1 .. n - 1
            BY <1>1
        <4> HIDE DEF n
        <4> QED
            BY <4>1
    <3>2. fragments[j].pending = <<>>
        BY <1>1, <3>1 DEF Traced
    <3>3. IsFragment(fragments[j])
        BY <1>1, <3>1 DEF Files
    <3>4. Events(fragments[j]) = EventsOf(fragments[j].bytes)
        BY <3>2, <3>3, SequencesJoin DEF Events, IsFragment
    <3> QED
        BY <1>4, <3>1, <3>4
  <2>4. a = FlattenSeq([j \in 1 .. k |-> ss[j]])
    <3>1. [j \in 1 .. k |-> EventsOf(fragments[j].bytes)] = [j \in 1 .. k |-> ss[j]]
        BY <2>3
    <3> QED
        BY <3>1 DEF FilesOf
  <2>5. all = a \o b
    BY <1>2, <2>1, FilesLast
  <2>6. a \in Seq(E)
    BY <1>2, <2>1, FilesType DEF E
  <2>7. ss[n] = b \o c
    BY <1>4, <2>1, <2>2
  <2> HIDE DEF a, b, c, all, n, k
  <2>8. FlattenSeq(ss) = FlattenSeq([j \in 1 .. k |-> ss[j]]) \o ss[k + 1]
    <3>1. Len(ss) = k + 1
        BY <1>4, <2>1
    <3> QED
        BY <1>4, <2>1, <3>1, FlattenLast, Zenon
  <2>9. FlattenSeq(ss) = a \o (b \o c)
    BY <2>1, <2>4, <2>7, <2>8
  <2>10. (a \o b) \o c = a \o (b \o c)
    BY <2>2, <2>6, ConcatOfThree, SMTT(30)
  <2>11. IsPrefix(a \o b, (a \o b) \o c)
    BY <1>5, <2>2, <2>5, ConcatBegins
  <2> QED
    BY <1>3, <1>5, <2>5, <2>9, <2>10, <2>11 DEF E
<1> QED
    BY <1>6, <1>7

\* The files grow at the end of the last, which nobody reads.
LEMMA LastFileGrows ==
    ASSUME TraceInv, Traced, Write \/ Flush
    PROVE  /\ Len(fragments') = Len(fragments) /\ DOMAIN fragments' = DOMAIN fragments
           /\ \A j \in 1 .. Len(fragments) - 1 : fragments'[j].bytes = fragments[j].bytes
           /\ \A j \in DOMAIN fragments :
                  fragments[j].holder # NoReader => fragments'[j] = fragments[j]
           /\ \E more \in Seq(TraceEvents) :
                  FilesOf(fragments', Len(fragments'))
                      = FilesOf(fragments, Len(fragments)) \o more
<1> DEFINE n == Len(fragments)
           all == FilesOf(fragments, n)
<1>0. Files /\ n \in Nat /\ DOMAIN fragments = 1 .. n /\ pc = "write"
    BY FragmentsLength DEF TraceInv, Write, Flush
<1>1. Decodable(fragments)
    BY <1>0, AlignedDecodable DEF Files, Traced
<1>2. all \in Seq(TraceEvents)
    BY <1>0, <1>1, FilesType
<1>3. CASE UNCHANGED fragments
  <2>1. all \o <<>> = all /\ <<>> \in Seq(TraceEvents)
    BY <1>2, ConcatEmptySeq
  <2> QED
    BY <1>3, <2>1
<1>4. CASE ~UNCHANGED fragments
  <2>1. MayLockBack
    BY <1>4 DEF Write, Flush
  <2>2. n \in DOMAIN fragments /\ IsFragment(Back) /\ Back.offset = Len(Back.bytes)
    BY <1>0, <2>1, LastFragment
  <2>3. PICK f : /\ fragments' = [fragments EXCEPT ![n] = f]
                 /\ f.bytes = Back.bytes \/ f.bytes = Back.bytes \o Back.pending
    <3>1. CASE Write
        <4> DEFINE f == Buffered(Back, AsChunk(Head(batch)))
        <4>1. fragments' = [fragments EXCEPT ![n] = f]
            BY <3>1 DEF Write, Back
        <4>2. f.bytes = Back.bytes \/ f.bytes = Back.bytes \o Back.pending
            BY <2>2, BufferedKeeps
        <4> HIDE DEF f
        <4> QED
            BY <4>1, <4>2
    <3>2. CASE Flush
        <4> DEFINE f == Flushed(Back)
        <4>1. fragments' = [fragments EXCEPT ![n] = f]
            BY <1>4, <3>2 DEF Flush, Back
        <4>2. f.bytes = Back.bytes \o Back.pending
            BY <2>2, FlushedKeeps
        <4> HIDE DEF f
        <4> QED
            BY <4>1, <4>2
    <3> QED
        BY <3>1, <3>2
  <2>4. /\ Len(fragments') = n /\ DOMAIN fragments' = DOMAIN fragments
        /\ \A j \in DOMAIN fragments : fragments'[j] = IF j = n THEN f ELSE fragments[j]
    BY <1>0, <2>2, <2>3, OneFragmentChanges
  <2>5. \A j \in 1 .. n - 1 : fragments'[j].bytes = fragments[j].bytes
    BY <1>0, <2>4
  <2>6. \A j \in DOMAIN fragments : fragments[j].holder # NoReader => fragments'[j] = fragments[j]
    BY <2>1, <2>4 DEF MayLockBack, Back
  <2>7. IsAligned(Back) /\ Back = fragments[n]
    BY <2>2 DEF Traced, Back
  <2> DEFINE k == n - 1
             a == FilesOf(fragments, k)
             b == EventsOf(Back.bytes)
             c == EventsOf(Back.pending)
  <2>8. k \in Nat /\ k + 1 = n /\ k \in 0 .. n
    BY <1>0, <2>2
  <2>9. all = a \o b
    BY <1>0, <1>1, <2>2, <2>7, FilesLast
  <2>10. Events(Back) = b \o c /\ b \in Seq(TraceEvents) /\ c \in Seq(TraceEvents)
    BY <2>2, <2>7, FragmentParts
  <2>11. EventsOf(f.bytes) = b \/ EventsOf(f.bytes) = b \o c
    BY <2>3, <2>10 DEF Events
  <2>12. /\ Len(fragments') \in Nat /\ DOMAIN fragments' = 1 .. Len(fragments')
         /\ \A j \in 1 .. Len(fragments') :
                EventsOf(fragments'[j].bytes) \in Seq(TraceEvents)
    <3>1. EventsOf(f.bytes) \in Seq(TraceEvents)
        BY <2>10, <2>11, ConcatProperties
    <3> QED
        BY <1>0, <1>1, <2>4, <3>1 DEF Decodable
  <2>13. Decodable(fragments')
    BY <2>12 DEF Decodable
  <2>14. FilesOf(fragments', n) = a \o EventsOf(f.bytes)
    <3>1. FilesOf(fragments', k) = a
        BY <2>5, <2>8, FilesSame
    <3>2. FilesOf(fragments', n) = FilesOf(fragments', k) \o EventsOf(fragments'[n].bytes)
        BY <1>0, <2>2, <2>4, <2>13, FilesLast
    <3>3. fragments'[n] = f
        BY <2>2, <2>4
    <3> QED
        BY <3>1, <3>2, <3>3
  <2>15. a \in Seq(TraceEvents)
    BY <1>1, <2>8, FilesType
  <2> HIDE DEF a, b, c, all
  <2>16. \E more \in Seq(TraceEvents) : FilesOf(fragments', n) = all \o more
    <3>1. CASE EventsOf(f.bytes) = b
        <4>1. all \o <<>> = all /\ <<>> \in Seq(TraceEvents)
            BY <1>2, ConcatEmptySeq
        <4> QED
            BY <2>9, <2>14, <3>1, <4>1
    <3>2. CASE EventsOf(f.bytes) = b \o c
        <4>1. (a \o b) \o c = a \o (b \o c)
            BY <2>10, <2>15, ConcatOfThree, SMTT(30)
        <4> QED
            BY <2>9, <2>10, <2>14, <3>2, <4>1
    <3> QED
        BY <2>11, <3>1, <3>2
  <2> QED
    BY <2>4, <2>5, <2>6, <2>16 DEF all
<1> QED
    BY <1>3, <1>4

\* The files have the bytes they had.
SameFiles(fs, gs) ==
    /\ Decodable(fs) /\ Decodable(gs) /\ Len(gs) = Len(fs)
    /\ \A j \in 1 .. Len(fs) : gs[j].bytes = fs[j].bytes

\* Files with the same bytes, from any point to the end.
LEMMA SameFilesSame ==
    ASSUME NEW fs, NEW gs, SameFiles(fs, gs)
    PROVE  /\ \A k \in 0 .. Len(fs) : FilesOf(gs, k) = FilesOf(fs, k)
           /\ IsPrefix(FilesOf(fs, Len(fs)), FilesOf(gs, Len(gs)))
           /\ FilesOf(gs, Len(gs)) = FilesOf(fs, Len(fs))
           /\ Len(FilesOf(fs, Len(fs))) \in Nat
<1>1. Len(fs) \in Nat /\ Decodable(fs)
    BY DEF SameFiles, Decodable
<1>2. ASSUME NEW k \in 0 .. Len(fs) PROVE FilesOf(gs, k) = FilesOf(fs, k)
  <2>1. k \in Nat /\ 1 .. k \subseteq 1 .. Len(fs)
    BY <1>1
  <2> QED
    BY <2>1, FilesSame DEF SameFiles
<1>3. Len(fs) \in 0 .. Len(fs)
    BY <1>1
<1>4. FilesOf(gs, Len(gs)) = FilesOf(fs, Len(fs))
    BY <1>2, <1>3 DEF SameFiles
<1>5. Len(FilesOf(fs, Len(fs))) \in Nat
    BY <1>1, <1>3, FilesType, LenProperties
<1> QED
    BY <1>2, <1>4, <1>5 DEF IsPrefix

\* A reader that does nothing.
LEMMA WatcherSees ==
    ASSUME NEW fs, NEW gs, SameFiles(fs, gs), NEW x, Sees(x, fs),
           x.at = "read" => gs[x.index].offset = fs[x.index].offset
    PROVE  Sees(x, gs)
<1>1. x.at = "read" => x.index \in 1 .. Len(fs)
    BY DEF Sees
<1>2. 1 .. Len(fs) - 1 \subseteq 1 .. Len(fs)
    BY DEF SameFiles, Decodable
<1> QED
    BY <1>1, <1>2, SameFilesSame, SeesGrows DEF SameFiles

\* One that enters has seen nothing.
LEMMA EntererSees ==
    ASSUME NEW fs, Decodable(fs), NEW x, DOMAIN x = ReaderFields, Sees(x, fs), x.at = "wait",
           NEW y, y = [x EXCEPT !.at = "lock", !.index = 1, !.owed = Len(FilesOf(fs, Len(fs)))]
    PROVE  Sees(y, fs)
<1> DEFINE n == Len(fs)
           all == FilesOf(fs, n)
<1>1. /\ y.at = "lock" /\ y.index = 1 /\ y.owed = Len(all) /\ y.result = x.result
      /\ x.result = <<>>
    BY DEF ReaderFields, Sees
<1>2. n \in Nat /\ all \in Seq(TraceEvents) /\ <<>> \in Seq(TraceEvents)
    BY FilesType DEF Decodable
<1>3. Len(all) \in Nat /\ Len(all) \in 0 .. Len(all)
    BY <1>2, LenProperties
<1>4. \/ y.index \in 1 .. n /\ y.result = FilesOf(fs, y.index - 1)
      \/ y.index \in Nat /\ y.index > n /\ HasAll(y, fs)
  <2>1. CASE n = 0
    <3>1. all = <<>> /\ Len(<<>>) = 0
        BY <2>1, NoFiles
    <3>2. HasAll(y, fs)
        BY <1>1, <3>1 DEF HasAll, IsPrefix
    <3>3. y.index \in Nat /\ y.index > n
        BY <1>1, <2>1
    <3> QED
        BY <3>2, <3>3
  <2>2. CASE n # 0
    <3>1. y.index \in 1 .. n /\ y.index - 1 = 0
        BY <1>1, <1>2, <2>2
    <3> QED
        BY <1>1, <3>1, NoFiles
  <2> QED
    BY <2>1, <2>2
<1>5. y.result \in Seq(TraceEvents) /\ y.owed \in 0 .. Len(all)
    BY <1>1, <1>2, <1>3
<1> QED
    BY <1>1, <1>4, <1>5 DEF Sees

\* One that begins with a file has not read any of it.
LEMMA BeginnerSees ==
    ASSUME NEW fs, NEW gs, SameFiles(fs, gs), NEW x, Sees(x, fs),
           x.at = "lock", x.index \in 1 .. Len(fs), gs[x.index].offset = 0,
           NEW y, y.at = "read", y.index = x.index, y.owed = x.owed, y.result = x.result
    PROVE  Sees(y, gs)
<1> DEFINE i == x.index
           e == EventsOf(gs[i].bytes)
           a == FilesOf(fs, i - 1)
<1>1. /\ y.at = "read" /\ y.index = i /\ y.owed = x.owed /\ y.result = x.result
      /\ x.result \in Seq(TraceEvents) /\ x.owed \in 0 .. Len(FilesOf(fs, Len(fs)))
    BY DEF Sees
<1>2. /\ Len(fs) \in Nat /\ i \in 1 .. Len(gs) /\ i - 1 \in 0 .. Len(fs)
      /\ FilesOf(gs, i - 1) = a
  <2>1. Len(fs) \in Nat /\ i \in 1 .. Len(gs)
    BY DEF SameFiles, Decodable
  <2>2. i - 1 \in 0 .. Len(fs)
    BY <2>1
  <2> QED
    BY <2>1, <2>2, SameFilesSame
<1>3. x.result = a
    BY <1>2 DEF Sees
<1>4. e \in Seq(TraceEvents)
    BY <1>2 DEF SameFiles, Decodable
<1>5. a \o SubSeq(e, 1, 0) = a /\ 0 \in 0 .. Len(e) /\ 0 = 0 * ChunkSize
  <2>1. SubSeq(e, 1, 0) = <<>>
    BY SubSeqEmpty
  <2>2. a \o <<>> = a
    BY <1>1, <1>3, ConcatEmptySeq
  <2>3. Len(e) \in Nat /\ 0 * ChunkSize = 0
    BY <1>4, LenProperties, ChunkSizePositive
  <2> HIDE DEF a, e
  <2>4. a \o SubSeq(e, 1, 0) = a
    BY <2>1, <2>2, Zenon
  <2>5. 0 \in 0 .. Len(e)
    BY <2>3
  <2> QED
    BY <2>3, <2>4, <2>5
<1>6. HasRead(y, gs, 0)
    BY <1>1, <1>2, <1>3, <1>5 DEF HasRead
<1>7. y.owed \in 0 .. Len(FilesOf(gs, Len(gs)))
    BY <1>1, SameFilesSame
<1> QED
    BY <1>1, <1>2, <1>6, <1>7 DEF Sees

\* One that reads on has read a chunk more.
LEMMA ReaderSees ==
    ASSUME NEW fs, NEW gs, SameFiles(fs, gs), NEW x, DOMAIN x = ReaderFields, Sees(x, fs),
           x.at = "read", NEW at, at = fs[x.index].offset,
           NEW bytes, bytes = fs[x.index].bytes, Whole(bytes), at < Len(bytes),
           gs[x.index].offset = at + ChunkSize,
           NEW count, NEW y,
           y = [x EXCEPT !.result = Append(x.result,
                                           FromChunk(SubSeq(bytes, at + 1, at + ChunkSize))),
                         !.count = count]
    PROVE  Sees(y, gs)
<1> DEFINE i == x.index
           e == EventsOf(bytes)
           a == FilesOf(fs, i - 1)
           v == FromChunk(SubSeq(bytes, at + 1, at + ChunkSize))
           w == ChunkSize
<1>1. /\ y.at = "read" /\ y.index = i /\ y.owed = x.owed /\ y.result = Append(x.result, v)
      /\ x.result \in Seq(TraceEvents) /\ x.owed \in 0 .. Len(FilesOf(fs, Len(fs)))
      /\ i \in 1 .. Len(fs)
    BY DEF ReaderFields, Sees
<1>2. PICK m \in Nat : HasRead(x, fs, m)
    BY DEF Sees
<1>3. PICK c \in Nat : Chunks(bytes, c)
    BY DEF Whole
<1>4. /\ e = [k \in 1 .. c |-> FromChunk(SubSeq(bytes, (k - 1) * ChunkSize + 1, k * ChunkSize))]
      /\ Len(e) = c
    BY <1>3, EventsLength
<1>5. /\ m \in 0 .. c /\ at = m * w /\ x.result = a \o SubSeq(e, 1, m)
    BY <1>2, <1>4 DEF HasRead
<1>6. w \in Nat \ {0} /\ Len(bytes) = c * w
    BY <1>3, ChunkSizePositive DEF Chunks
<1>7. m + 1 \in 1 .. c /\ at + w = (m + 1) * w /\ at = ((m + 1) - 1) * w
  <2>1. m < c
    <3> SUFFICES ASSUME m >= c PROVE FALSE
        BY <1>5
    <3>1. m * w >= c * w
        BY <1>6
    <3> QED
        BY <1>5, <1>6, <3>1
  <2> QED
    BY <1>5, <1>6, <2>1
<1>8. e[m + 1] = v
  <2>1. e[m + 1] = FromChunk(SubSeq(bytes, ((m + 1) - 1) * ChunkSize + 1, (m + 1) * ChunkSize))
    BY <1>4, <1>7
  <2> QED
    BY <1>7, <2>1
<1>9. e \in Seq(TraceEvents) /\ a \in Seq(TraceEvents)
  <2>1. i - 1 \in 0 .. Len(fs) /\ Decodable(fs)
    BY <1>1 DEF SameFiles, Decodable
  <2> QED
    BY <1>1, <2>1, FilesType DEF Decodable
<1> HIDE DEF e, a, v
<1>10. /\ Append(a \o SubSeq(e, 1, m), v) = a \o SubSeq(e, 1, m + 1)
       /\ v \in TraceEvents
    BY <1>4, <1>7, <1>8, <1>9, PartGrows
<1>11. Append(x.result, v) \in Seq(TraceEvents)
    BY <1>1, <1>10, AppendProperties
<1>12. HasRead(y, gs, m + 1)
  <2>1. EventsOf(gs[i].bytes) = e /\ FilesOf(gs, i - 1) = a
    <3>1. gs[i].bytes = bytes
        BY <1>1 DEF SameFiles
    <3>2. i - 1 \in 0 .. Len(fs)
        BY <1>1 DEF SameFiles, Decodable
    <3> QED
        BY <3>1, <3>2, SameFilesSame DEF e, a
  <2>2. m + 1 \in 0 .. Len(e)
    BY <1>4, <1>7 DEF e
  <2>3. y.result = a \o SubSeq(e, 1, m + 1)
    BY <1>1, <1>5, <1>10
  <2> QED
    BY <1>1, <1>7, <2>1, <2>2, <2>3 DEF HasRead
<1>13. y.owed \in 0 .. Len(FilesOf(gs, Len(gs))) /\ i \in 1 .. Len(gs) /\ m + 1 \in Nat
  <2>1. FilesOf(gs, Len(gs)) = FilesOf(fs, Len(fs)) /\ Len(gs) = Len(fs)
    BY SameFilesSame DEF SameFiles
  <2> QED
    BY <1>1, <2>1
<1> QED
    BY <1>1, <1>11, <1>12, <1>13 DEF Sees

\* One that is at the end of a file has read it, and after the last all of them.
LEMMA FinisherSees ==
    ASSUME NEW fs, NEW gs, SameFiles(fs, gs), NEW x, DOMAIN x = ReaderFields, Sees(x, fs),
           x.at = "read", Whole(fs[x.index].bytes),
           fs[x.index].offset >= Len(fs[x.index].bytes),
           NEW y, y = [x EXCEPT !.at = "lock", !.index = x.index + 1]
    PROVE  Sees(y, gs)
<1> DEFINE i == x.index
           bytes == fs[i].bytes
           e == EventsOf(bytes)
           a == FilesOf(fs, i - 1)
           w == ChunkSize
           all == FilesOf(fs, Len(fs))
<1>1. /\ y.at = "lock" /\ y.index = i + 1 /\ y.owed = x.owed /\ y.result = x.result
      /\ x.result \in Seq(TraceEvents) /\ x.owed \in 0 .. Len(all)
      /\ i \in 1 .. Len(fs) /\ Len(fs) \in Nat /\ Decodable(fs)
    BY DEF ReaderFields, Sees, SameFiles, Decodable
<1>2. PICK m \in Nat : HasRead(x, fs, m)
    BY DEF Sees
<1>3. PICK c \in Nat : Chunks(bytes, c)
    BY DEF Whole
<1>4. Len(e) = c /\ w \in Nat \ {0} /\ Len(bytes) = c * w
    BY <1>3, EventsLength, ChunkSizePositive DEF Chunks
<1>5. m \in 0 .. c /\ fs[i].offset = m * w /\ x.result = a \o SubSeq(e, 1, m)
    BY <1>2, <1>4 DEF HasRead
<1>6. m = c
  <2> SUFFICES ASSUME m + 1 <= c PROVE FALSE
    BY <1>5
  <2>1. (m + 1) * w <= c * w /\ (m + 1) * w = m * w + w
    <3> DEFINE k == m + 1
    <3>1. k \in Nat /\ k <= c
        OBVIOUS
    <3> HIDE DEF k, w
    <3>2. k * w <= c * w
        BY <1>4, <3>1
    <3>3. (m + 1) * w = m * w + w
        BY <1>4
    <3> QED
        BY <3>2, <3>3 DEF k
  <2>2. m * w >= c * w
    BY <1>4, <1>5
  <2>3. m * w \in Nat /\ c * w \in Nat
    BY <1>4
  <2> QED
    BY <1>4, <2>1, <2>2, <2>3
<1>7. e \in Seq(TraceEvents)
    BY <1>1 DEF Decodable
<1>8. x.result = FilesOf(fs, i)
  <2>1. SubSeq(e, 1, Len(e)) = e
    BY <1>7, SubSeqFull
  <2>2. FilesOf(fs, i) = a \o e
    BY <1>1, FilesLast
  <2> QED
    BY <1>4, <1>5, <1>6, <2>1, <2>2
<1>9. FilesOf(gs, i) = FilesOf(fs, i) /\ FilesOf(gs, Len(gs)) = all /\ Len(gs) = Len(fs)
  <2>1. i \in 0 .. Len(fs)
    BY <1>1
  <2> QED
    BY <2>1, SameFilesSame DEF SameFiles
<1>10. CASE i < Len(fs)
  <2>1. y.index \in 1 .. Len(gs) /\ y.index - 1 = i
    BY <1>1, <1>9, <1>10
  <2> QED
    BY <1>1, <1>8, <1>9, <2>1 DEF Sees
<1>11. CASE i = Len(fs)
  <2>1. y.index \in Nat /\ y.index > Len(gs)
    BY <1>1, <1>9, <1>11
  <2>2. Len(all) \in Nat
    BY SameFilesSame
  <2>3. x.result = all
    BY <1>8, <1>11
  <2> HIDE DEF all
  <2>4. HasAll(y, gs)
    BY <1>1, <1>9, <2>2, <2>3 DEF HasAll, IsPrefix
  <2> QED
    BY <1>1, <1>9, <2>1, <2>4 DEF Sees
<1> QED
    BY <1>1, <1>10, <1>11

ReadersSee == \A r \in Readers : Sees(readers[r], fragments)

\* A reader's step leaves the fragments that another holds, and the other readers.
LEMMA OthersAreLeft ==
    ASSUME TraceInv, NEW r \in Readers, Start(r) \/ ReaderStep(r)
    PROVE  /\ \A j \in DOMAIN fragments :
                  fragments[j].holder \notin {NoReader, r} => fragments'[j] = fragments[j]
           /\ \A q \in Readers \ {r} : readers'[q] = readers[q]
<1> DEFINE i == readers[r].index
           Left == \A j \in DOMAIN fragments :
                       fragments[j].holder \notin {NoReader, r} => fragments'[j] = fragments[j]
<1>0. Files /\ DOMAIN readers = Readers
    BY DEF TraceInv
<1>1. ASSUME NEW x, readers' = [readers EXCEPT ![r] = x]
      PROVE  \A q \in Readers \ {r} : readers'[q] = readers[q]
    BY <1>0, <1>1
<1>2. ASSUME i \in DOMAIN fragments, fragments[i].holder \in {NoReader, r}, NEW f,
             fragments' = [fragments EXCEPT ![i] = f]
      PROVE  Left
    BY <1>0, <1>2, OneFragmentChanges
<1>3. ASSUME readers[r].at = "read"
      PROVE  i \in DOMAIN fragments /\ fragments[i].holder = r
    BY <1>3 DEF TraceInv, ReadersKnow
<1>4. CASE Start(r) \/ Enter(r) \/ Leave(r)
  <2>1. UNCHANGED fragments
    BY <1>4 DEF Start, Enter, Leave
  <2>2. \E x : readers' = [readers EXCEPT ![r] = x]
    BY <1>4 DEF Start, Enter, Leave
  <2> QED
    BY <1>1, <2>1, <2>2
<1>5. CASE Rewind(r)
  <2>1. \E x : readers' = [readers EXCEPT ![r] = x]
    BY <1>5 DEF Rewind
  <2>2. CASE i > Len(fragments)
    BY <1>1, <1>5, <2>1, <2>2 DEF Rewind
  <2>3. CASE ~(i > Len(fragments))
    <3>1. i \in DOMAIN fragments
        BY <1>0, <1>5, <2>3, FragmentsLength DEF Rewind, ReaderAt, IsReader, TraceInv
    <3>2. fragments[i].holder = NoReader /\ \E f : fragments' = [fragments EXCEPT ![i] = f]
        BY <1>5, <2>3 DEF Rewind
    <3>3. Left
        BY <1>2, <3>1, <3>2
    <3> QED
        BY <1>1, <2>1, <3>3
  <2> QED
    BY <2>2, <2>3
<1>6. CASE GiveUp(r) \/ Read(r) \/ Restore(r)
  <2>1. /\ readers[r].at = "read"
        /\ \E x : readers' = [readers EXCEPT ![r] = x]
        /\ \E f : fragments' = [fragments EXCEPT ![i] = f]
    BY <1>6 DEF GiveUp, Read, Restore, ReaderAt
  <2>2. Left
    BY <1>2, <1>3, <2>1
  <2> QED
    BY <1>1, <2>1, <2>2
<1> QED
    BY <1>4, <1>5, <1>6 DEF ReaderStep

\* The reader that makes a step.
LEMMA ReaderGoesOn ==
    ASSUME TraceInv, Traced, Decodable(fragments), Decodable(fragments'), ReadersSee,
           NEW r \in Readers, Start(r) \/ ReaderStep(r)
    PROVE  Sees(readers'[r], fragments')
<1> DEFINE x == readers[r]
           i == x.index
           fs == fragments
           gs == fragments'
           Goes(y) == readers' = [readers EXCEPT ![r] = y]
<1>0. Files /\ DOMAIN readers = Readers /\ IsReader(x) /\ DOMAIN x = ReaderFields /\ Sees(x, fs)
    BY DEF TraceInv, IsReader, ReadersSee
<1>1. SameFiles(fs, gs)
  <2>1. FragmentsKept
    BY ReadersKeepFragments
  <2> QED
    BY <2>1 DEF SameFiles, FragmentsKept, Keeps, Decodable
<1>2. ASSUME NEW y, Goes(y) PROVE readers'[r] = y
    BY <1>0, <1>2
<1>3. \A j \in DOMAIN fs : Whole(fs[j].bytes)
    BY DEF Traced, IsAligned
<1>4. Sees(x, fs) /\ x.result \in Seq(TraceEvents)
    BY <1>0 DEF Sees
<1>5. ASSUME NEW y, y = [x EXCEPT !.at = "gone"] PROVE Sees(y, gs)
  <2>1. y.at = "gone" /\ y.result = x.result
    BY <1>0, <1>5 DEF ReaderFields
  <2> QED
    BY <1>4, <2>1 DEF Sees
<1>6. CASE Start(r)
  <2> DEFINE y == [x EXCEPT !.at = "wait"]
  <2>1. Goes(y) /\ x.at = "idle"
    BY <1>6 DEF Start, ReaderAt
  <2>2. y.at = "wait" /\ y.result = x.result
    BY <1>0 DEF ReaderFields
  <2> HIDE DEF y
  <2>3. Sees(y, gs)
    BY <1>4, <2>1, <2>2 DEF Sees
  <2> QED
    BY <1>2, <2>1, <2>3
<1>7. CASE Enter(r)
  <2> DEFINE y == [x EXCEPT !.at = "lock", !.index = 1, !.owed = Len(FilesOf(fs, Len(fs)))]
  <2>1. Goes(y) /\ x.at = "wait" /\ gs = fs
    BY <1>0, <1>7, InFilesAre DEF Enter, ReaderAt
  <2> HIDE DEF y
  <2>2. Sees(y, gs)
    BY <1>0, <2>1, EntererSees DEF y
  <2> QED
    BY <1>2, <2>1, <2>2
<1>8. CASE Rewind(r)
  <2>1. CASE i > Len(fs)
    <3> DEFINE y == [x EXCEPT !.at = "leave"]
    <3>1. Goes(y) /\ x.at = "lock" /\ gs = fs
        BY <1>8, <2>1 DEF Rewind, ReaderAt
    <3>2. y.at = "leave" /\ y.result = x.result /\ y.owed = x.owed
        BY <1>0 DEF ReaderFields
    <3>3. HasAll(x, fs) /\ x.owed \in 0 .. Len(FilesOf(fs, Len(fs)))
        BY <1>0, <2>1, <3>1 DEF Sees, Decodable
    <3> HIDE DEF y
    <3>4. HasAll(y, fs)
        BY <3>2, <3>3 DEF HasAll
    <3>5. Sees(y, gs)
        BY <1>4, <3>1, <3>2, <3>3, <3>4 DEF Sees
    <3> QED
        BY <1>2, <3>1, <3>5
  <2>2. CASE ~(i > Len(fs))
    <3> DEFINE start == fs[i].offset
               y == [x EXCEPT !.at = "read", !.count = 0, !.start = start]
               f == [fs[i] EXCEPT !.holder = r, !.offset = 0]
    <3>1. Goes(y) /\ x.at = "lock" /\ gs = [fs EXCEPT ![i] = f]
        BY <1>8, <2>2 DEF Rewind, ReaderAt
    <3>2. i \in 1 .. Len(fs) /\ i \in DOMAIN fs
        BY <1>0, <2>2, <3>1, FragmentsLength DEF IsReader
    <3>3. f.offset = 0
        BY <1>0, <3>2 DEF Files, IsFragment, FragmentFields
    <3> HIDE DEF f
    <3>4. gs[i].offset = 0
        BY <1>0, <3>1, <3>2, <3>3, OneFragmentChanges
    <3>5. y.at = "read" /\ y.index = x.index /\ y.owed = x.owed /\ y.result = x.result
        BY <1>0 DEF ReaderFields
    <3> HIDE DEF y, start
    <3>6. Sees(y, gs)
        BY <1>0, <1>1, <3>1, <3>2, <3>4, <3>5, BeginnerSees
    <3> QED
        BY <1>2, <3>1, <3>6
  <2> QED
    BY <2>1, <2>2
<1>9. CASE GiveUp(r) \/ Leave(r)
  <2>1. Goes([x EXCEPT !.at = "gone"])
    BY <1>9 DEF GiveUp, Leave
  <2> QED
    BY <1>2, <1>5, <2>1
<1>10. ASSUME x.at = "read" PROVE i \in DOMAIN fs
    BY <1>10 DEF TraceInv, ReadersKnow
<1>11. CASE Read(r)
  <2> DEFINE at == fs[i].offset
             bytes == fs[i].bytes
             v == FromChunk(SubSeq(bytes, at + 1, at + ChunkSize))
             f == [fs[i] EXCEPT !.offset = at + ChunkSize]
  <2>1. x.at = "read" /\ gs = [fs EXCEPT ![i] = f] /\ at < Len(bytes)
    BY <1>11 DEF Read, ReaderAt
  <2>c. PICK count : Goes([x EXCEPT !.result = Append(x.result, v), !.count = count])
    BY <1>11 DEF Read
  <2> DEFINE y == [x EXCEPT !.result = Append(x.result, v), !.count = count]
  <2>2. i \in DOMAIN fs /\ Whole(bytes)
    BY <1>3, <1>10, <2>1
  <2>3. f.offset = at + ChunkSize
    BY <1>0, <2>2 DEF Files, IsFragment, FragmentFields
  <2> HIDE DEF f
  <2>4. gs[i].offset = at + ChunkSize
    BY <1>0, <2>1, <2>2, <2>3, OneFragmentChanges
  <2> HIDE DEF y, at, bytes
  <2>5. Sees(y, gs)
    BY <1>0, <1>1, <2>1, <2>2, <2>4, ReaderSees DEF y, at, bytes
  <2> QED
    BY <1>2, <2>c, <2>5 DEF y, at, bytes
<1>12. CASE Restore(r)
  <2> DEFINE y == [x EXCEPT !.at = "lock", !.index = i + 1]
  <2>1. Goes(y) /\ x.at = "read" /\ fs[i].offset >= Len(fs[i].bytes)
    BY <1>12 DEF Restore, ReaderAt
  <2>2. i \in DOMAIN fs /\ Whole(fs[i].bytes)
    BY <1>3, <1>10, <2>1
  <2> HIDE DEF y
  <2>3. Sees(y, gs)
    BY <1>0, <1>1, <2>1, <2>2, FinisherSees DEF y
  <2> QED
    BY <1>2, <2>1, <2>3
<1> QED
    BY <1>6, <1>7, <1>8, <1>9, <1>11, <1>12 DEF ReaderStep

\* At first no reader has seen anything.
LEMMA SeesInit == Init => ReadersSee
<1> SUFFICES ASSUME Init, NEW r \in Readers PROVE Sees(readers[r], fragments)
    BY DEF ReadersSee
<1>1. readers[r].at = "idle" /\ readers[r].result = <<>> /\ <<>> \in Seq(TraceEvents)
    BY DEF Init
<1> QED
    BY <1>1 DEF Sees

\* Every step leaves every reader with the beginning of the trace.
LEMMA SeesStep ==
    ASSUME TraceInv, Traced, Decodable(fragments), Decodable(fragments'), ReadersSee, [Next]_vars
    PROVE  \A r \in Readers : Sees(readers'[r], fragments')
<1>0. Files
    BY DEF TraceInv
<1>1. ASSUME UNCHANGED <<fragments, readers>>
      PROVE  \A r \in Readers : Sees(readers'[r], fragments')
    BY <1>1 DEF ReadersSee
<1>2. ASSUME MayChange, UNCHANGED readers
      PROVE  \A r \in Readers : Sees(readers'[r], fragments')
  <2> SUFFICES ASSUME NEW r \in Readers PROVE Sees(readers[r], fragments')
    BY <1>2
  <2>1. Sees(readers[r], fragments) /\ readers[r].at \notin {"lock", "read", "leave"}
    BY <1>2 DEF ReadersSee, MayChange, Inside
  <2> QED
    BY <2>1 DEF Sees
<1>3. ASSUME NEW e \in Sent, Send(e) PROVE \A r \in Readers : Sees(readers'[r], fragments')
    BY <1>1, <1>3 DEF Send
<1>4. CASE Tick \/ UNCHANGED vars \/ Poll
    BY <1>1, <1>4 DEF Tick, vars, Poll
<1>5. CASE DropExpired \/ WipeTrace
    BY <1>2, <1>5 DEF DropExpired, WipeTrace
<1>6. CASE Refresh
    BY <1>1, <1>2, <1>6 DEF Refresh, KeepOrAdd
<1>7. CASE Write \/ Flush
  <2> SUFFICES ASSUME NEW r \in Readers PROVE Sees(readers[r], fragments')
    BY <1>7 DEF Write, Flush
  <2> DEFINE x == readers[r]
             all == FilesOf(fragments, Len(fragments))
  <2>1. /\ Len(fragments') = Len(fragments) /\ DOMAIN fragments' = DOMAIN fragments
        /\ \A j \in 1 .. Len(fragments) - 1 : fragments'[j].bytes = fragments[j].bytes
        /\ \A j \in DOMAIN fragments :
               fragments[j].holder # NoReader => fragments'[j] = fragments[j]
    BY <1>7, LastFileGrows
  <2>2. PICK more \in Seq(TraceEvents) :
            FilesOf(fragments', Len(fragments')) = all \o more
    BY <1>7, LastFileGrows
  <2>3. all \in Seq(TraceEvents)
    BY FilesType DEF Decodable
  <2>4. IsPrefix(all, all \o more)
    BY <2>3, ConcatBegins
  <2>5. x.at = "read" => fragments'[x.index] = fragments[x.index]
    BY <2>1, TraceAssumption DEF TraceInv, ReadersKnow
  <2>6. Sees(x, fragments)
    BY DEF ReadersSee
  <2> HIDE DEF x
  <2> QED
    BY <2>1, <2>2, <2>4, <2>5, <2>6, SeesGrows DEF x
<1>8. ASSUME NEW r \in Readers, Start(r) \/ ReaderStep(r)
      PROVE  \A q \in Readers : Sees(readers'[q], fragments')
  <2> SUFFICES ASSUME NEW q \in Readers PROVE Sees(readers'[q], fragments')
    OBVIOUS
  <2>1. CASE q = r
    BY <1>8, <2>1, ReaderGoesOn
  <2>2. CASE q # r
    <3>1. readers'[q] = readers[q]
        BY <1>8, <2>2, OthersAreLeft
    <3>2. readers[q].at = "read" => fragments'[readers[q].index] = fragments[readers[q].index]
        BY <1>8, <2>2, OthersAreLeft, TraceAssumption DEF TraceInv, ReadersKnow
    <3>3. FragmentsKept
        BY <1>8, ReadersKeepFragments
    <3>4. SameFiles(fragments, fragments')
        BY <3>3 DEF SameFiles, FragmentsKept, Keeps, Decodable
    <3>5. Sees(readers[q], fragments)
        BY DEF ReadersSee
    <3> QED
        BY <3>1, <3>2, <3>4, <3>5, WatcherSees
  <2> QED
    BY <2>1, <2>2
<1> QED
    BY <1>3, <1>4, <1>5, <1>6, <1>7, <1>8 DEF Next, WorkerStep

ReadInv == TraceInv /\ Traced /\ Decodable(fragments) /\ ReadersSee

\* The readers' invariant holds at first, ...
LEMMA ReadInvInit == Init => ReadInv
<1> SUFFICES ASSUME Init PROVE ReadInv
    OBVIOUS
<1>1. TraceInv /\ Traced /\ ReadersSee
    BY TraceInvInit, TracedInit, SeesInit
<1>2. Decodable(fragments)
    BY <1>1, AlignedDecodable DEF TraceInv, Files, Traced
<1> QED
    BY <1>1, <1>2 DEF ReadInv

\* ... and after every step.
LEMMA ReadInvStep == ReadInv /\ [Next]_vars => ReadInv'
<1> SUFFICES ASSUME ReadInv, [Next]_vars PROVE ReadInv'
    OBVIOUS
<1>0. TraceInv /\ Traced /\ Decodable(fragments) /\ ReadersSee
    BY DEF ReadInv
<1>1. TraceInv' /\ Traced'
    BY <1>0, TraceInvStep, TracedStep
<1>2. Files'
    BY <1>1 DEF TraceInv
<1>3. IsSequence(fragments') /\ \A i \in DOMAIN fragments' : IsFragment(fragments'[i])
    BY <1>2 DEF Files, IsSequence, IsFragment
<1>4. \A i \in DOMAIN fragments' : IsAligned(fragments'[i])
    BY <1>1 DEF Traced, IsAligned, Events, Whole, Chunks, EventsOf
<1>5. Decodable(fragments')
    BY <1>3, <1>4, AlignedDecodable
<1>6. \A r \in Readers : Sees(readers'[r], fragments')
    BY <1>0, <1>5, SeesStep
<1>7. ReadersSee'
    BY <1>6 DEF ReadersSee
<1>8. Decodable(fragments)'
    BY <1>5 DEF Decodable
<1> QED
    BY <1>1, <1>7, <1>8 DEF ReadInv

\* A thread that reconstructs a policy's stack sees the trace from its beginning and
\* without a gap, although the worker writes to one file while it reads another and
\* other threads read the same files; and when it leaves, it has seen all that was in
\* the files when it began (policy/mod.rs reconstruct_policy_stack).
THEOREM ReadersSeeTheTrace == Spec => []ReadsWithoutGap
<1>1. ReadInv => ReadsWithoutGap
  <2> SUFFICES ASSUME ReadInv, NEW r \in Readers, Inside(r)
               PROVE  /\ IsPrefix(readers[r].result, SubSeq(traced, dropped + 1, Len(traced)))
                      /\ readers[r].at = "leave" => Len(readers[r].result) >= readers[r].owed
    BY DEF ReadsWithoutGap
  <2> DEFINE x == readers[r]
  <2>1. Files /\ Traced /\ Decodable(fragments) /\ Sees(x, fragments)
    BY DEF ReadInv, TraceInv, ReadersSee
  <2>2. x.at \in {"lock", "read", "leave"}
    BY DEF Inside
  <2> HIDE DEF x
  <2>3. IsPrefix(x.result, FilesOf(fragments, Len(fragments)))
    BY <2>1, <2>2, SeesPrefix
  <2>4. FilesOf(fragments, Len(fragments)) = InFiles
    BY <2>1, InFilesAre
  <2>5. x.result \in Seq(TraceEvents)
    BY <2>1 DEF Sees
  <2>6. IsPrefix(InFiles, Contents) /\ InFiles \in Seq(TraceEvents) /\ Contents \in Seq(TraceEvents)
    BY <2>1, FilesBeginContents
  <2>7. IsPrefix(x.result, Contents)
    BY <2>3, <2>4, <2>5, <2>6, BeginsTrans
  <2>8. Contents = SubSeq(traced, dropped + 1, Len(traced))
    BY <2>1 DEF Traced, NothingOverwritten
  <2>9. x.at = "leave" => Len(x.result) >= x.owed
    BY <2>1 DEF Sees, HasAll
  <2> QED
    BY <2>7, <2>8, <2>9 DEF x
<1> QED
    BY <1>1, ReadInvInit, ReadInvStep, PTL DEF Spec

===============================================================================
