------------------------------ MODULE TraceFiles -------------------------------
(***************************************************************************)
(* The trace: a deque of temporary files, its fragments, to which the trace*)
(* worker writes the stack events it receives, and from which threads read *)
(* them back to reconstruct a stack.                                       *)
(*                                                                         *)
(* A fragment's reader and writer are clones of one file, so they share the*)
(* file's offset: who reads has to put it back, or the next write lands in *)
(* the middle.  The writer buffers; the reader's own buffer is empty       *)
(* whenever it does not hold the fragment's lock.  Errors of the file      *)
(* system, which end the worker, are left out.                             *)
(***************************************************************************)
EXTENDS Naturals, FiniteSets, SequencesExt

CONSTANTS
    Readers,        \* the reconstructions, each with a policy of its own
    NoReader,
    HashedKeys, ObjectSizes, CacheSizes,    \* sets of numbers
    Base, KeyWidth, SizeWidth, CacheWidth,  \* what a byte holds; the widths in bytes
    Capacity,       \* of the writer's buffer, in bytes
    MaxAge, RefreshAge,
    Polling,        \* RECONSTRUCT_POLICY_POLLING
    Sent,           \* the events that are sent
    MaxEvents,      \* bound: events sent
    Horizon         \* bound: the clock

ASSUME TraceAssumption ==
    /\ NoReader \notin Readers
    /\ HashedKeys \subseteq 0 .. Base ^ KeyWidth - 1
    /\ ObjectSizes \subseteq 0 .. Base ^ SizeWidth - 1
    /\ CacheSizes \subseteq 0 .. Base ^ CacheWidth - 1 /\ CacheSizes # {}
    /\ KeyWidth \in Nat /\ SizeWidth \in Nat /\ Capacity \in Nat
    /\ CacheWidth \in 1 .. KeyWidth + SizeWidth     \* 8, and 8 + 4, in the code
    /\ MaxAge \in Nat /\ RefreshAge \in 0 .. MaxAge - 1
    /\ Polling \in Nat \ {0}
    /\ MaxEvents \in Nat /\ Horizon \in Nat

VARIABLES
    now,
    current,        \* current_policy: the reconstruction it is the policy of
    channel,        \* events on their way to the trace worker
    fragments,      \* trace_fragments
    pc, batch, should_flush,    \* the trace worker
    readers,
    sent,           \* bound: events sent
    traced,         \* history: the events written since the last wipe
    dropped         \* history: how many of them were in fragments that have expired

workerVars == <<pc, batch, should_flush>>
vars == <<now, current, channel, fragments, workerVars, readers, sent, traced, dropped>>

-----------------------------------------------------------------------------
(***************************************************************************)
(* Events and chunks                                                       *)
(***************************************************************************)

Get(k)       == [kind |-> "Get", key |-> k]
Set(k, s)    == [kind |-> "Set", key |-> k, size |-> s]
Del(k)       == [kind |-> "Del", key |-> k]
Resize(size) == [kind |-> "Resize", size |-> size]
Wipe         == [kind |-> "Wipe"]

\* TraceEvent and StackEvent
TraceEvents ==
    {Get(k) : k \in HashedKeys} \cup {Del(k) : k \in HashedKeys}
    \cup {Set(k, s) : k \in HashedKeys, s \in ObjectSizes}
    \cup {Resize(size) : size \in CacheSizes}

StackEvents == TraceEvents \cup {Wipe}

\* The bytes of a number, and the number of some bytes.
Bytes(n, width) == [i \in 1 .. width |-> (n \div Base ^ (i - 1)) % Base]
Number(bytes) == FoldRight(LAMBDA byte, n : byte + Base * n, bytes, 0)

ChunkSize == 1 + (IF KeyWidth + SizeWidth > CacheWidth THEN KeyWidth + SizeWidth ELSE CacheWidth)

Padded(bytes) == bytes \o [i \in 1 .. ChunkSize - Len(bytes) |-> 0]

AsChunk(e) ==
    CASE e.kind = "Get"    -> Padded(<<0>> \o Bytes(e.key, KeyWidth))
      [] e.kind = "Set"    -> <<1>> \o Bytes(e.key, KeyWidth) \o Bytes(e.size, SizeWidth)
      [] e.kind = "Del"    -> Padded(<<2>> \o Bytes(e.key, KeyWidth))
      [] e.kind = "Resize" -> Padded(<<3>> \o Bytes(e.size, CacheWidth))

FromChunk(chunk) ==
    LET key == Number(SubSeq(chunk, 2, KeyWidth + 1))
    IN  CASE chunk[1] = 0 -> Get(key)
          [] chunk[1] = 1 -> Set(key, Number(SubSeq(chunk, KeyWidth + 2, Len(chunk))))
          [] chunk[1] = 2 -> Del(key)
          [] chunk[1] = 3 -> Resize(Number(SubSeq(chunk, 2, CacheWidth + 1)))

\* What a reader makes of a file from its start: as many events as it has chunks.
EventsOf(bytes) ==
    [i \in 1 .. Len(bytes) \div ChunkSize |->
        FromChunk(SubSeq(bytes, (i - 1) * ChunkSize + 1, i * ChunkSize))]

ASSUME SentAssumption == Sent \subseteq StackEvents

\* Chunks are of one size and give back the event (event.rs).
ASSUME ChunksRoundTrip ==
    \A e \in TraceEvents : Len(AsChunk(e)) = ChunkSize /\ FromChunk(AsChunk(e)) = e

-----------------------------------------------------------------------------
(***************************************************************************)
(* Fragments                                                               *)
(***************************************************************************)

\* TraceFragment::new
NewFragment ==
    [created |-> now, bytes |-> <<>>, offset |-> 0, pending |-> <<>>, holder |-> NoReader]

IsExpired(fragment) == now - fragment.created > MaxAge
IsValid(fragment) == now - fragment.created <= RefreshAge

\* A write of the file at its offset, over what is there.
WrittenTo(fragment, data) ==
    LET at  == fragment.offset
        end == at + Len(data)
    IN  [fragment EXCEPT
            !.bytes = SubSeq(@, 1, at) \o data \o SubSeq(@, end + 1, Len(@)),
            !.offset = end]

\* flush of the writer's buffer
Flushed(fragment) == [WrittenTo(fragment, fragment.pending) EXCEPT !.pending = <<>>]

\* Faulty variant of Buffered: a full buffer is not written first.
BufferedOver(fragment, data) ==
    LET room == Len(fragment.pending) + Len(data) <= Capacity
    IN  [fragment EXCEPT !.pending = IF room THEN @ \o data ELSE data]

\* write_chunk: into the buffer, which is written first if there is no room.
Buffered(fragment, data) ==
    LET room == Len(fragment.pending) + Len(data) <= Capacity
    IN  [(IF room THEN fragment ELSE Flushed(fragment)) EXCEPT !.pending = @ \o data]

\* All that is in the trace, or will be with the next flush.
Contents ==
    FlattenSeq([i \in DOMAIN fragments |-> EventsOf(fragments[i].bytes \o fragments[i].pending)])

-----------------------------------------------------------------------------
(***************************************************************************)
(* The trace worker                                                        *)
(***************************************************************************)

Inside(r) == readers[r].at \in {"lock", "read", "leave"}

\* trace_fragments.write(): a reader keeps its read lock to the end.
MayChange == \A r \in Readers : ~Inside(r)

Back == fragments[Len(fragments)]
MayLockBack == Back.holder = NoReader

Init ==
    /\ now = 0
    /\ current = NoReader
    /\ \E size \in CacheSizes : channel = <<Resize(size)>>
    /\ fragments = <<>>
    /\ pc = "poll" /\ batch = <<>> /\ should_flush = FALSE
    /\ readers = [r \in Readers |->
                    [at |-> "idle", index |-> 0, start |-> 0, count |-> 0, owed |-> 0,
                     result |-> <<>>]]
    /\ sent = 0 /\ traced = <<>> /\ dropped = 0

Poll ==
    /\ pc = "poll"
    /\ batch' = channel
    /\ channel' = <<>>
    /\ should_flush' = FALSE
    /\ pc' = IF channel = <<>> THEN "poll" ELSE "refresh"
    /\ UNCHANGED <<now, current, fragments, readers, sent, traced, dropped>>

FrontExpired == fragments # <<>> /\ IsExpired(Head(fragments))
BackValid == fragments # <<>> /\ IsValid(Back)

\* refresh_fragments: drop an expired fragment ...
DropExpired ==
    /\ pc = "refresh"
    /\ FrontExpired
    /\ MayChange
    /\ fragments' = Tail(fragments)
    /\ dropped' = dropped + Len(EventsOf(Head(fragments).bytes))
    /\ UNCHANGED <<now, current, channel, workerVars, readers, sent, traced>>

\* Faulty variant of KeepOrAdd: a fragment for every batch.
AddAlways == MayChange /\ fragments' = Append(fragments, NewFragment)

KeepOrAdd ==
    IF BackValid THEN UNCHANGED fragments
    ELSE MayChange /\ fragments' = Append(fragments, NewFragment)

\* ... and when there is none, go on with the youngest or add one.
Refresh ==
    /\ pc = "refresh"
    /\ ~FrontExpired
    /\ KeepOrAdd
    /\ pc' = "write"
    /\ UNCHANGED <<now, current, channel, batch, should_flush, readers, sent, traced, dropped>>

WipeTrace ==
    /\ pc = "write"
    /\ batch # <<>> /\ Head(batch) = Wipe
    /\ MayChange
    /\ fragments' = <<>>
    /\ traced' = <<>> /\ dropped' = 0
    /\ batch' = Tail(batch)
    /\ pc' = "refresh"
    /\ UNCHANGED <<now, current, channel, should_flush, readers, sent>>

Write ==
    /\ pc = "write"
    /\ batch # <<>> /\ Head(batch) # Wipe
    /\ MayLockBack
    /\ fragments' = [fragments EXCEPT ![Len(fragments)] = Buffered(@, AsChunk(Head(batch)))]
    /\ traced' = Append(traced, Head(batch))
    /\ batch' = Tail(batch)
    /\ should_flush' = TRUE
    /\ UNCHANGED <<now, current, channel, pc, readers, sent, dropped>>

\* Faulty variant of Flush: the buffer waits for the next batch.
FlushLater ==
    /\ pc = "write" /\ batch = <<>>
    /\ pc' = "poll"
    /\ UNCHANGED <<now, current, channel, fragments, batch, should_flush, readers, sent, traced,
                   dropped>>

Flush ==
    /\ pc = "write" /\ batch = <<>>
    /\ IF should_flush
       THEN MayLockBack /\ fragments' = [fragments EXCEPT ![Len(fragments)] = Flushed(@)]
       ELSE UNCHANGED fragments
    /\ pc' = "poll"
    /\ UNCHANGED <<now, current, channel, batch, should_flush, readers, sent, traced, dropped>>

WorkerStep == Poll \/ DropExpired \/ Refresh \/ WipeTrace \/ Write \/ Flush

-----------------------------------------------------------------------------
(***************************************************************************)
(* reconstruct_policy_stack                                                *)
(***************************************************************************)

ReaderAt(r, at) ==
    /\ readers[r].at = at
    /\ UNCHANGED <<now, channel, workerVars, sent, traced, dropped>>

\* The worker waits for the write lock, which keeps new readers out.
Wanted ==
    \/ pc = "write" /\ batch # <<>> /\ Head(batch) = Wipe
    \/ pc = "refresh" /\ (FrontExpired \/ ~BackValid)

\* A switch to the policy of r.
Start(r) ==
    /\ ReaderAt(r, "idle")
    /\ current' = r
    /\ readers' = [readers EXCEPT ![r] = [@ EXCEPT !.at = "wait"]]
    /\ UNCHANGED fragments

InFiles == FlattenSeq([i \in DOMAIN fragments |-> EventsOf(fragments[i].bytes)])

\* trace_fragments.read()
Enter(r) ==
    /\ ReaderAt(r, "wait")
    /\ MayChange \/ ~Wanted
    /\ readers' = [readers EXCEPT ![r] =
                     [@ EXCEPT !.at = "lock", !.index = 1, !.owed = Len(InFiles)]]
    /\ UNCHANGED <<current, fragments>>

\* fragment.lock(), stream_position and rewind
Rewind(r) ==
    /\ ReaderAt(r, "lock")
    /\ LET i == readers[r].index
       IN  IF i > Len(fragments)
           THEN readers' = [readers EXCEPT ![r] = [@ EXCEPT !.at = "leave"]] /\ UNCHANGED fragments
           ELSE /\ fragments[i].holder = NoReader
                /\ readers' = [readers EXCEPT ![r] = [@ EXCEPT !.at = "read", !.count = 0,
                                                               !.start = fragments[i].offset]]
                /\ fragments' = [fragments EXCEPT ![i] = [@ EXCEPT !.holder = r, !.offset = 0]]
    /\ UNCHANGED current

\* Faulty variant of Restored: the file is left where the reader is.
LeftThere(fragment, r) == [fragment EXCEPT !.holder = NoReader]

\* The file as the reader leaves it.
Restored(fragment, r) == [fragment EXCEPT !.holder = NoReader, !.offset = readers[r].start]

\* The policy has changed, as a look at it every Polling events shows.
GiveUp(r) ==
    LET i == readers[r].index
    IN  /\ ReaderAt(r, "read")
        /\ fragments[i].offset < Len(fragments[i].bytes)
        /\ readers[r].count % Polling = 0 /\ current # r
        /\ fragments' = [fragments EXCEPT ![i] = Restored(@, r)]
        /\ readers' = [readers EXCEPT ![r] = [@ EXCEPT !.at = "gone"]]
        /\ UNCHANGED current

Read(r) ==
    LET i  == readers[r].index
        at == fragments[i].offset
    IN  /\ ReaderAt(r, "read")
        /\ at < Len(fragments[i].bytes)
        /\ readers[r].count % Polling # 0 \/ current = r
        /\ LET e == FromChunk(SubSeq(fragments[i].bytes, at + 1, at + ChunkSize))
           IN  readers' = [readers EXCEPT ![r] = [@ EXCEPT !.result = Append(readers[r].result, e),
                                                           !.count = readers[r].count + 1]]
        /\ fragments' = [fragments EXCEPT ![i] = [@ EXCEPT !.offset = at + ChunkSize]]
        /\ UNCHANGED current

\* The end of the file: "returned back to its original position".
Restore(r) ==
    LET i == readers[r].index
    IN  /\ ReaderAt(r, "read")
        /\ fragments[i].offset >= Len(fragments[i].bytes)
        /\ fragments' = [fragments EXCEPT ![i] = Restored(@, r)]
        /\ readers' = [readers EXCEPT ![r] = [@ EXCEPT !.at = "lock", !.index = i + 1]]
        /\ UNCHANGED current

Leave(r) ==
    /\ ReaderAt(r, "leave")
    /\ readers' = [readers EXCEPT ![r] = [@ EXCEPT !.at = "gone"]]
    /\ UNCHANGED <<current, fragments>>

ReaderStep(r) == Enter(r) \/ Rewind(r) \/ GiveUp(r) \/ Read(r) \/ Restore(r) \/ Leave(r)

-----------------------------------------------------------------------------

\* The policy worker sends an event.
Send(e) ==
    /\ sent < MaxEvents
    /\ sent' = sent + 1
    /\ channel' = Append(channel, e)
    /\ UNCHANGED <<now, current, fragments, workerVars, readers, traced, dropped>>

Tick ==
    /\ now < Horizon
    /\ now' = now + 1
    /\ UNCHANGED <<current, channel, fragments, workerVars, readers, sent, traced, dropped>>

Next ==
    \/ \E e \in Sent : Send(e)
    \/ Tick
    \/ WorkerStep
    \/ \E r \in Readers : Start(r) \/ ReaderStep(r)

Spec == Init /\ [][Next]_vars

\* The worker sleeps one second at a time, threads are scheduled, and every lock is
\* given back.
Fairness == WF_vars(WorkerStep) /\ \A r \in Readers : WF_vars(ReaderStep(r))

FairSpec == Spec /\ Fairness

-----------------------------------------------------------------------------
(***************************************************************************)
(* Properties                                                              *)
(***************************************************************************)

(* What is in the files, or buffered for them, decodes to exactly the      *)
(* events written since the last wipe, less those in expired fragments:    *)
(* whatever readers do in between, no write lands on another, and no chunk *)
(* is out of step with the others (trace/mod.rs run, event.rs).            *)
NothingOverwritten == Contents = SubSeq(traced, dropped + 1, Len(traced))

(* A reader sees the trace without a gap, although fragments come and go   *)
(* and the worker writes to one while another is read; and by the end it   *)
(* has seen all that was in the files when it began (policy/mod.rs:456).   *)
ReadsWithoutGap ==
    \A r \in Readers : Inside(r) =>
        /\ IsPrefix(readers[r].result, SubSeq(traced, dropped + 1, Len(traced)))
        /\ readers[r].at = "leave" => Len(readers[r].result) >= readers[r].owed

(* A file is at its end whenever nobody reads it, so that the next write   *)
(* goes there (policy/mod.rs:496).                                         *)
AtTheEnd ==
    \A i \in DOMAIN fragments :
        fragments[i].holder = NoReader => fragments[i].offset = Len(fragments[i].bytes)

(* There are never more fragments than MAX_AGE has room for: one that is   *)
(* expired goes before one is added, and one is added only when the last   *)
(* is older than REFRESH_AGE (trace/mod.rs:103).  The ages are looked at in *)
(* one instant here; the clock's next tick between the two looks, in the   *)
(* code, leaves room for one more.                                         *)
FragmentsBounded == Len(fragments) <= MaxAge \div (RefreshAge + 1) + 1

(* Every event comes to be in a file, where a reader finds it: neither the *)
(* readers' locks nor the worker's keep it away (trace/mod.rs:105).        *)
EventuallyInAFile ==
    <>[](channel = <<>> /\ batch = <<>> /\ \A i \in DOMAIN fragments : fragments[i].pending = <<>>)

================================================================================
