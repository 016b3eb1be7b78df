----------------------------- MODULE PolicySwitch ------------------------------
(***************************************************************************)
(* The policy worker's event loop, and how a policy is switched at runtime.*)
(*                                                                         *)
(* A client changes the map and sends an event.  The worker tells its      *)
(* stack of the event and passes it on to the trace worker, which writes   *)
(* it to the trace some time later.  A switch drops the stack and starts a *)
(* thread that builds the new one from the trace; until that stack arrives *)
(* a mini stack chooses what to evict, and events wait in a buffer, to be  *)
(* replayed on the new stack and then sent to the trace.  Evictions wait   *)
(* in the same buffer.  Switches may overlap.                              *)
(*                                                                         *)
(* Objects have a base size of one; the loads and the counters behind the  *)
(* loop's condition are CacheStore's subject, the mini stacks' choices     *)
(* MiniStacks', the trace's files TraceFiles'.                             *)
(***************************************************************************)
EXTENDS Stacks, FiniteSets

Seqs == INSTANCE SequencesExt

CONSTANTS
    HashedKeys,
    Sampled,        \* the keys the mini stacks sample
    Expiring,       \* the keys whose objects have a TTL
    Configured,        \* the policies the cache is configured with
    Overhead,       \* get_policy_overhead, less the least of them
    CacheSizes,
    CallKinds,      \* the calls of an instance
    MaxCalls,       \* bound: calls of a client
    MaxSwitches,    \* bound: policies a client or the auto policy may choose
    MayFail,        \* a reconstruction may fail to read the trace
    NoEvent, NoPolicy

ASSUME SwitchAssumption ==
    /\ NoKey \notin HashedKeys /\ Sampled \subseteq HashedKeys /\ Expiring \subseteq HashedKeys
    /\ Configured \subseteq Policies /\ NoPolicy \notin Configured
    /\ Overhead \in [Configured -> Nat]
    /\ CacheSizes \subseteq Nat \ {0}
    /\ MaxCalls \in Nat /\ MaxSwitches \in Nat /\ MayFail \in BOOLEAN

VARIABLES
    stored,         \* the hashed keys in the map
    max_size, status_policy, is_auto,   \* AtomicStatus
    call,           \* the client: the step its call has come to, and its event
    listener,       \* events on their way to the worker
    pc, batch, has_current_set,         \* the worker's place in its loop
    limit,          \* max_cache_size, read before a loop of evictions
    picked,         \* the policy the auto policy has picked
    policy_stack,   \* Option of a stack, with the policy it was made for
    mini_index,     \* Option of a mini stack, named by its policy
    mini,           \* what that mini stack holds
    current_policy,
    buffered,       \* buffered_events
    trace_channel,  \* events on their way to the trace worker
    trace,          \* what the trace worker has written
    threads,        \* the reconstructions, in the order they were started
    reconstructed,  \* policy_reconstruct_rx
    calls, switches,                    \* bounds: calls, choices of a policy
    handled,        \* history: the clients' stack events, as handled
    told,           \* history: keys set, and not removed, since the last switch
    overlapped      \* history: a switch was handled before the last one was over

storeVars == <<stored, max_size, status_policy, is_auto>>
clientVars == <<call, calls>>
stackVars == <<policy_stack, mini_index, mini, current_policy, threads>>
traceVars == <<buffered, trace_channel, trace>>
loopVars == <<pc, batch, has_current_set, limit, picked>>
history == <<handled, told, overlapped>>

vars == <<storeVars, clientVars, listener, loopVars, stackVars, traceVars,
          reconstructed, switches, history>>

Idle == [at |-> "idle", event |-> NoEvent]

\* A WorkerEvent or StackEvent; evictions are marked, for the properties alone.
Event(kind, arg) == [kind |-> kind, arg |-> arg, evicted |-> FALSE]
Eviction(k) == [kind |-> "Del", arg |-> k, evicted |-> TRUE]

\* StackEvent::maybe_from_worker_event: a get that missed and a policy are none.
IsStackEvent(e) == e.kind \in {"Get", "Set", "Del", "Wipe", "Resize"}

\* A stack after a stack event; all objects have size one.
After(policy, stack, e) ==
    CASE e.kind = "Get"    -> Update(policy, stack, e.arg)
      [] e.kind = "Miss"   -> Update(policy, stack, e.arg)
      [] e.kind = "Set"    -> Insert(policy, stack, e.arg, 1)
      [] e.kind = "Del"    -> Remove(policy, stack, e.arg)
      [] e.kind = "Wipe"   -> Clear(policy, stack)
      [] e.kind = "Resize" -> Resize(policy, stack, e.arg)
      [] OTHER             -> stack

\* An Option of a stack: none is one of no policy.
NoStack == [policy |-> NoPolicy, stack |-> <<>>]
IsSome(maybe) == maybe.policy # NoPolicy

\* A stack for a policy, and that stack after an event and after some events.
Made(policy, size) == [policy |-> policy, stack |-> New(policy, size)]

Told(made, e) == [policy |-> made.policy, stack |-> After(made.policy, made.stack, e)]

AfterAll(policy, stack, events) ==
    LET after[n \in 0 .. Len(events)] ==
            IF n = 0 THEN stack ELSE After(policy, after[n - 1], events[n])
    IN  after[Len(events)]

Replay(made, events) ==
    [policy |-> made.policy, stack |-> AfterAll(made.policy, made.stack, events)]

\* used_size(&policy)
Used(policy) == Cardinality(stored) * (1 + Overhead[policy])

Init ==
    /\ stored = {}
    /\ max_size \in CacheSizes
    /\ status_policy \in Configured
    /\ is_auto \in (IF "Auto" \in CallKinds THEN BOOLEAN ELSE {FALSE})
    /\ call = Idle
    /\ listener = <<>>
    /\ pc = "collect" /\ batch = <<>> /\ has_current_set = FALSE
    /\ limit = max_size /\ picked = NoPolicy
    /\ current_policy = status_policy
    /\ policy_stack = Made(status_policy, max_size)
    /\ mini_index = NoPolicy /\ mini = {}
    /\ buffered = <<>>
    /\ trace_channel = <<Event("Resize", max_size)>>
    /\ trace = <<>>
    /\ threads = <<>> /\ reconstructed = <<>>
    /\ calls = 0 /\ switches = 0
    /\ handled = trace_channel /\ told = {} /\ overlapped = FALSE

-----------------------------------------------------------------------------
(***************************************************************************)
(* The client: it changes the map or the status, then sends an event.      *)
(***************************************************************************)

MayCall(kind) == kind \in CallKinds /\ call = Idle /\ calls < MaxCalls

Begin(at, e) ==
    /\ call' = [at |-> at, event |-> e]
    /\ calls' = calls + 1
    /\ UNCHANGED <<listener, loopVars, stackVars, traceVars, reconstructed, history>>

Get(k) ==
    /\ MayCall("Get")
    /\ Begin("send", Event(IF k \in stored THEN "Get" ELSE "Miss", k))
    /\ UNCHANGED <<storeVars, switches>>

Set(k) ==
    /\ MayCall("Set")
    /\ stored' = stored \cup {k}
    /\ Begin("send", Event("Set", k))
    /\ UNCHANGED <<max_size, status_policy, is_auto, switches>>

Del(k) ==
    /\ MayCall("Del")
    /\ k \in stored
    /\ stored' = stored \ {k}
    /\ Begin("send", Event("Del", k))
    /\ UNCHANGED <<max_size, status_policy, is_auto, switches>>

Wipe ==
    /\ MayCall("Wipe")
    /\ stored' = {}
    /\ Begin("send", Event("Wipe", NoKey))
    /\ UNCHANGED <<max_size, status_policy, is_auto, switches>>

SetMaxSize(size) ==
    /\ MayCall("Resize")
    /\ size # max_size
    /\ max_size' = size
    /\ Begin("send", Event("Resize", size))
    /\ UNCHANGED <<stored, status_policy, is_auto, switches>>

\* policy of a configured policy: its index first, then the auto flag.
SetPolicy(p) ==
    /\ MayCall("Policy")
    /\ switches < MaxSwitches
    /\ status_policy' = p
    /\ switches' = switches + 1
    /\ Begin("unset_auto", Event("Policy", p))
    /\ UNCHANGED <<stored, max_size, is_auto>>

UnsetAuto ==
    /\ call.at = "unset_auto"
    /\ is_auto' = FALSE
    /\ call' = [call EXCEPT !.at = "send"]
    /\ UNCHANGED <<stored, max_size, status_policy, calls, listener, loopVars, stackVars,
                   traceVars, reconstructed, switches, history>>

\* policy(Auto) only sets the flag; the worker ignores the event.
SetAuto ==
    /\ MayCall("Auto")
    /\ is_auto' = TRUE
    /\ Begin("send", Event("Policy", NoPolicy))
    /\ UNCHANGED <<stored, max_size, status_policy, switches>>

Broadcast ==
    /\ call.at = "send"
    /\ listener' = Append(listener, call.event)
    /\ call' = Idle
    /\ UNCHANGED <<storeVars, calls, loopVars, stackVars, traceVars, reconstructed,
                   switches, history>>

\* The TTL worker erases an object; it tells the policy worker nothing.
Reap(k) ==
    /\ k \in Expiring \cap stored
    /\ stored' = stored \ {k}
    /\ UNCHANGED <<max_size, status_policy, is_auto, clientVars, listener, loopVars,
                   stackVars, traceVars, reconstructed, switches, history>>

-----------------------------------------------------------------------------
(***************************************************************************)
(* The policy worker                                                       *)
(***************************************************************************)

Goto(label) == pc' = label

Collect ==
    /\ pc = "collect"
    /\ batch' = listener
    /\ listener' = <<>>
    /\ has_current_set' = FALSE
    /\ Goto(IF listener = <<>> THEN "apply" ELSE "handle")
    /\ UNCHANGED <<storeVars, clientVars, limit, picked, stackVars, traceVars,
                   reconstructed, switches, history>>

Switched(p) ==
    /\ current_policy' = p
    /\ policy_stack' = NoStack
    /\ mini_index' = p
    /\ mini' \in SUBSET Sampled
    /\ threads' = Append(threads, [at |-> "read", made |-> Made(p, max_size)])
    /\ told' = {}
    /\ overlapped' = (overlapped \/ mini_index # NoPolicy)

\* Faulty variant of Switch: the policy is written before it is looked at.
SwitchBlindly(p) ==
    IF p = NoPolicy \/ p = current_policy
    THEN /\ current_policy' = p
         /\ UNCHANGED <<policy_stack, mini_index, mini, threads, told, overlapped>>
    ELSE Switched(p)

\* handle_policy: drop the stack, let the policy's mini stack choose meanwhile, and
\* start a thread that reconstructs the stack.
Switch(p) ==
    IF p = NoPolicy \/ p = current_policy
    THEN UNCHANGED <<stackVars, told, overlapped>>
    ELSE Switched(p)

\* What the mini stack that evicts makes of an event: it may drop other keys to fit.
MiniAfter(e) ==
    CASE mini_index = NoPolicy  -> {{}}
      [] e.kind = "Set"         -> {m \cup ({e.arg} \cap Sampled) : m \in SUBSET mini}
      [] e.kind = "Del"         -> {mini \ {e.arg}}
      [] e.kind = "Wipe"        -> {{}}
      [] e.kind = "Resize"      -> SUBSET mini
      [] OTHER                  -> {mini}

ToldAfter(e) ==
    CASE e.kind = "Set"  -> told \cup {e.arg}
      [] e.kind = "Del"  -> told \ {e.arg}
      [] e.kind = "Wipe" -> {}
      [] OTHER           -> told

\* Once handled, a stack event goes to the trace if there is a stack, or else to
\* the buffer.
Pass(e) ==
    IF ~IsStackEvent(e) THEN UNCHANGED <<buffered, trace_channel, handled>>
    ELSE /\ handled' = Append(handled, e)
         /\ IF IsSome(policy_stack')
            THEN trace_channel' = Append(trace_channel, e) /\ UNCHANGED buffered
            ELSE buffered' = Append(buffered, e) /\ UNCHANGED trace_channel

Handle ==
    /\ pc = "handle"
    /\ LET e == Head(batch)
       IN  /\ IF e.kind = "Policy"
              THEN Switch(e.arg)
              ELSE /\ policy_stack' = IF IsSome(policy_stack) THEN Told(policy_stack, e)
                                      ELSE NoStack
                   /\ mini' \in MiniAfter(e)
                   /\ told' = ToldAfter(e)
                   /\ UNCHANGED <<mini_index, current_policy, threads, overlapped>>
           /\ has_current_set' = (has_current_set \/ e.kind = "Set")
           /\ Pass(e)
    /\ batch' = Tail(batch)
    /\ Goto(IF Tail(batch) = <<>> THEN "apply" ELSE "handle")
    /\ UNCHANGED <<storeVars, clientVars, listener, limit, picked, trace, reconstructed,
                   switches>>

\* Faulty variants of Install: a stack is taken only if there is something to replay,
\* and the mini stack goes on evicting.
InstallIfBuffered ==
    IF reconstructed # <<>> /\ buffered # <<>>
    THEN /\ policy_stack' = Replay(Seqs!Last(reconstructed), buffered)
         /\ mini_index' = NoPolicy /\ mini' = {}
    ELSE UNCHANGED <<policy_stack, mini_index, mini>>

InstallBeside ==
    /\ policy_stack' = IF reconstructed # <<>> THEN Replay(Seqs!Last(reconstructed), buffered)
                       ELSE policy_stack
    /\ UNCHANGED <<mini_index, mini>>

\* apply_buffered_events: every stack that has arrived is brought up to date, and
\* the last one stays.
Install ==
    IF reconstructed # <<>>
    THEN /\ policy_stack' = Replay(Seqs!Last(reconstructed), buffered)
         /\ mini_index' = NoPolicy /\ mini' = {}
    ELSE UNCHANGED <<policy_stack, mini_index, mini>>

\* Faulty variants of Flush: the buffer is sent while a mini stack runs, and sent
\* again.
FlushAnyway == trace_channel' = trace_channel \o buffered /\ buffered' = <<>>

FlushAgain ==
    /\ trace_channel' = IF mini_index' = NoPolicy THEN trace_channel \o buffered ELSE trace_channel
    /\ UNCHANGED buffered

\* flush_buffered_events
Flush ==
    IF mini_index' = NoPolicy
    THEN trace_channel' = trace_channel \o buffered /\ buffered' = <<>>
    ELSE UNCHANGED <<trace_channel, buffered>>

\* A loop of evictions follows, which begins by reading the maximum size.
Apply ==
    /\ pc = "apply"
    /\ Install
    /\ Flush
    /\ reconstructed' = <<>>
    /\ limit' = max_size
    /\ Goto("evict")
    /\ UNCHANGED <<storeVars, clientVars, listener, batch, has_current_set, picked,
                   current_policy, threads, trace, switches, history>>

\* erase(None) takes any object there is.
Victims(k) == IF k # NoKey THEN {k} ELSE stored

\* What erase leaves behind: an eviction is buffered unless the object was not
\* there, or had expired.
Erased(k) ==
    /\ stored' = stored \ {k}
    /\ told' = told \ {k}
    /\ \E live \in IF k \in Expiring THEN BOOLEAN ELSE {TRUE} :
           buffered' = IF k \in stored /\ live THEN Append(buffered, Eviction(k)) ELSE buffered
    /\ UNCHANGED <<max_size, status_policy, is_auto, clientVars, listener, loopVars,
                   mini_index, current_policy, threads, trace_channel, trace,
                   reconstructed, switches, handled, overlapped>>

\* Faulty variant of MustEvict: the policy's overhead does not count.
MustEvictLess == pc = "evict" /\ Cardinality(stored) > limit

MustEvict == pc = "evict" /\ Used(current_policy) > limit

\* apply_evictions, one turn of its loop.  ("No active policy or mini stack" would
\* end the worker.)
Evict ==
    /\ MustEvict /\ mini_index = NoPolicy
    /\ IF ~IsSome(policy_stack)
       THEN /\ Goto("dead")
            /\ UNCHANGED <<storeVars, clientVars, listener, batch, has_current_set, limit,
                           picked, stackVars, traceVars, reconstructed, switches, history>>
       ELSE LET evicted == EvictOne(policy_stack.policy, policy_stack.stack)
            IN  /\ policy_stack' = [policy |-> policy_stack.policy, stack |-> evicted.stack]
                /\ \E k \in Victims(evicted.key) : Erased(k)
                /\ UNCHANGED mini

\* apply_mini_evictions, one turn of its loop.
EvictMini ==
    /\ MustEvict /\ mini_index # NoPolicy
    /\ \E k \in IF mini = {} THEN {NoKey} ELSE mini :
           /\ mini' = mini \ {k}
           /\ \E v \in Victims(k) :
                  IF v \in stored THEN Erased(v)
                  ELSE UNCHANGED <<storeVars, clientVars, listener, loopVars, mini_index,
                                   current_policy, threads, traceVars, reconstructed,
                                   switches, history>>
    /\ UNCHANGED policy_stack

\* The loop ends; perform_auto_policy picks a policy, if it is its turn to.
EvictedEnough ==
    /\ pc = "evict" /\ ~MustEvict
    /\ \/ /\ Goto("collect")
          /\ UNCHANGED <<picked, switches>>
       \/ /\ ~has_current_set /\ is_auto /\ mini_index = NoPolicy
          /\ switches < MaxSwitches
          /\ switches' = switches + 1
          /\ picked' \in Configured \ {current_policy}
          /\ Goto("auto")
    /\ UNCHANGED <<storeVars, clientVars, listener, batch, has_current_set, limit,
                   stackVars, traceVars, reconstructed, history>>

\* set_auto_policy, and handle_policy as for a client's choice.
AutoPolicy ==
    /\ pc = "auto"
    /\ status_policy' = picked
    /\ picked' = NoPolicy
    /\ Switch(picked)
    /\ Goto("collect")
    /\ UNCHANGED <<stored, max_size, is_auto, clientVars, listener, batch, has_current_set,
                   limit, traceVars, reconstructed, switches, handled>>

WorkerStep ==
    \/ Collect \/ Handle \/ Apply
    \/ Evict \/ EvictMini \/ EvictedEnough \/ AutoPolicy

-----------------------------------------------------------------------------
(***************************************************************************)
(* The trace worker and the reconstructions                                *)
(***************************************************************************)

\* A wipe deletes the trace; any other event is written at its end.
Write ==
    /\ trace_channel # <<>>
    /\ trace' = IF Head(trace_channel).kind = "Wipe" THEN <<>>
                ELSE Append(trace, Head(trace_channel))
    /\ trace_channel' = Tail(trace_channel)
    /\ UNCHANGED <<storeVars, clientVars, listener, loopVars, stackVars, buffered,
                   reconstructed, switches, history>>

ThreadAt(i, at) == threads[i].at = at /\ UNCHANGED
    <<storeVars, clientVars, listener, loopVars, policy_stack, mini_index, mini,
      current_policy, traceVars, switches, history>>

Ended == [at |-> "ended", made |-> NoStack]

\* Replay the trace on the new stack, or give up: the policy has changed (which it
\* looks for only if there is an event to replay), or the trace cannot be read.
ReadTrace(i) ==
    /\ ThreadAt(i, "read")
    /\ threads' = [threads EXCEPT ![i] =
                     IF trace # <<>> /\ threads[i].made.policy # current_policy THEN Ended
                     ELSE [at |-> "check", made |-> Replay(threads[i].made, trace)]]
    /\ UNCHANGED reconstructed

FailToRead(i) ==
    /\ MayFail
    /\ ThreadAt(i, "read")
    /\ threads' = [threads EXCEPT ![i] = [at |-> "failed", made |-> NoStack]]
    /\ UNCHANGED reconstructed

\* "check to make sure the configured policy was not modified" ...
CheckPolicy(i) ==
    /\ ThreadAt(i, "check")
    /\ threads' = [threads EXCEPT ![i] =
                     IF threads[i].made.policy = current_policy THEN [@ EXCEPT !.at = "send"]
                     ELSE Ended]
    /\ UNCHANGED reconstructed

\* ... "before sending the reconstructed stack"
SendStack(i) ==
    /\ ThreadAt(i, "send")
    /\ reconstructed' = Append(reconstructed, threads[i].made)
    /\ threads' = [threads EXCEPT ![i] = Ended]

Reconstruct(i) == ReadTrace(i) \/ FailToRead(i) \/ CheckPolicy(i) \/ SendStack(i)

-----------------------------------------------------------------------------

ClientStep == UnsetAuto \/ Broadcast

Next ==
    \/ \E k \in HashedKeys : Get(k) \/ Set(k) \/ Del(k) \/ Reap(k)
    \/ Wipe \/ SetAuto
    \/ \E size \in CacheSizes : SetMaxSize(size)
    \/ \E p \in Configured : SetPolicy(p)
    \/ ClientStep
    \/ WorkerStep
    \/ Write
    \/ \E i \in DOMAIN threads : Reconstruct(i)

Spec == Init /\ [][Next]_vars

\* Threads are scheduled; the sleeps of the two workers' loops are bounded.
Fairness ==
    /\ WF_vars(ClientStep) /\ WF_vars(WorkerStep) /\ WF_vars(Write)
    /\ \A i \in 1 .. MaxSwitches : WF_vars(i \in DOMAIN threads /\ Reconstruct(i))

FairSpec == Spec /\ Fairness

-----------------------------------------------------------------------------
(***************************************************************************)
(* Properties                                                              *)
(***************************************************************************)

(* Types: the worker runs and the status shows one of the configured       *)
(* policies, never auto itself (policy/mod.rs:239).                        *)
SwitchTypeOK ==
    /\ stored \subseteq HashedKeys /\ mini \subseteq Sampled
    /\ max_size \in CacheSizes /\ limit \in CacheSizes
    /\ status_policy \in Configured /\ current_policy \in Configured
    /\ is_auto \in BOOLEAN /\ has_current_set \in BOOLEAN
    /\ call.at \in {"idle", "unset_auto", "send"}
    /\ pc \in {"collect", "handle", "apply", "evict", "auto", "dead"}
    /\ mini_index \in Configured \cup {NoPolicy}

(* Someone can always choose what to evict: a stack is missing exactly     *)
(* while a mini stack stands in, through any overlap of switches, stacks   *)
(* that arrive late and clients' events, so the worker never ends with "No *)
(* active policy or mini stack" (policy/mod.rs:352).                       *)
SomeoneEvicts ==
    /\ IsSome(policy_stack) <=> mini_index = NoPolicy
    /\ pc # "dead"

\* The events that are no evictions.
Clients(events) ==
    Seqs!FlattenSeq([i \in DOMAIN events |-> IF events[i].evicted THEN <<>> ELSE <<events[i]>>])

(* What is in the trace, on its way to it and in the buffer is, evictions  *)
(* aside, what the clients sent since the last wipe that was traced: no    *)
(* switch loses an event, repeats one or lets one overtake another         *)
(* (policy/mod.rs run, flush_buffered_events).                             *)
TracedInOrder ==
    LET traced == Clients(trace \o trace_channel \o buffered)
        before == Len(handled) - Len(traced)
    IN  /\ Seqs!IsSuffix(traced, handled)
        /\ before = 0 \/ handled[before].kind = "Wipe"

(* A key that is set after a switch was handled, and neither removed nor   *)
(* evicted since, is in the stack the switch ends with, whether it was     *)
(* buffered or is handled after the stack arrived (policy/mod.rs           *)
(* apply_buffered_events).  Overlapping switches do without: a stack that  *)
(* arrives late may have missed what was flushed for the one before.       *)
NothingHandledIsForgotten ==
    IsSome(policy_stack) /\ ~overlapped
        => told \subseteq KeysIn(policy_stack.policy, policy_stack.stack)

(* Every switch ends: a cache is left with a mini stack for good only if   *)
(* the trace could not be read (policy/mod.rs:270).                        *)
EventuallyInstalled ==
    \/ <>[]IsSome(policy_stack)
    \/ <>(\E i \in DOMAIN threads : threads[i].at = "failed")

(* Once the clients stop, the objects come to fit, with the overhead of    *)
(* the policy that is then the current one, whoever evicts (policy/mod.rs  *)
(* apply_evictions, apply_mini_evictions).                                 *)
EventuallyFits == <>[](Used(current_policy) <= max_size)

(* The stack that evicts is of the current policy: a reconstructed stack   *)
(* is sent only if the policy "was not modified" (policy/mod.rs:271).      *)
StackOfCurrentPolicy == IsSome(policy_stack) => policy_stack.policy = current_policy

================================================================================
