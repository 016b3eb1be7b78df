-------------------------- MODULE PolicySwitchProofs --------------------------
(***************************************************************************)
(* There is always a stack or a mini stack to evict with, the policies are *)
(* configured ones, the trace keeps every event once and in order, and a   *)
(* switch forgets no key that was set while it ran, for any keys, sizes    *)
(* and number of overlapping switches.                                     *)
(***************************************************************************)
EXTENDS PolicySwitch, StacksProofs

IsSequence(s) == s \in Seq({s[i] : i \in DOMAIN s})

\* A reconstruction that may still send its stack has one to send.
ThreadsMade ==
    /\ IsSequence(threads)
    /\ \A i \in DOMAIN threads :
           threads[i].at \in {"read", "check", "send"} => IsSome(threads[i].made)

\* What has been sent are stacks.
StacksArrive ==
    /\ IsSequence(reconstructed)
    /\ \A i \in DOMAIN reconstructed : IsSome(reconstructed[i])

SwitchInv == SomeoneEvicts /\ ThreadsMade /\ StacksArrive

-----------------------------------------------------------------------------

LEMMA OwnElements ==
    ASSUME NEW S, NEW t \in Seq(S)
    PROVE  IsSequence(t)
<1> DEFINE T == {t[j] : j \in DOMAIN t}
<1>1. DOMAIN t = 1 .. Len(t) /\ \A j \in 1 .. Len(t) : t[j] \in T
    OBVIOUS
<1> HIDE DEF T
<1>2. t \in Seq(T)
    BY <1>1
<1> QED
    BY <1>2 DEF T, IsSequence

LEMMA AppendToSequence ==
    ASSUME NEW s, IsSequence(s), NEW e
    PROVE  /\ IsSequence(Append(s, e))
           /\ DOMAIN Append(s, e) = 1 .. Len(s) + 1
           /\ Append(s, e)[Len(s) + 1] = e
           /\ \A i \in DOMAIN s : Append(s, e)[i] = s[i]
           /\ DOMAIN s = 1 .. Len(s) /\ Len(s) \in Nat
<1> DEFINE S == {s[i] : i \in DOMAIN s} \cup {e}
           t == Append(s, e)
<1>1. s \in Seq(S) /\ e \in S
    BY DEF IsSequence
<1> HIDE DEF S
<1>2. DOMAIN s = 1 .. Len(s) /\ Len(s) \in Nat
    BY <1>1
<1>3. /\ t \in Seq(S) /\ DOMAIN t = 1 .. Len(s) + 1
      /\ t[Len(s) + 1] = e /\ \A i \in 1 .. Len(s) : t[i] = s[i]
    BY <1>1
<1> QED
    BY <1>2, <1>3, OwnElements

LEMMA ChangeInSequence ==
    ASSUME NEW s, IsSequence(s), NEW i \in DOMAIN s, NEW e, NEW t, t = [s EXCEPT ![i] = e]
    PROVE  /\ IsSequence(t) /\ DOMAIN t = DOMAIN s
           /\ \A j \in DOMAIN s : t[j] = IF j = i THEN e ELSE s[j]
<1> DEFINE S == {s[j] : j \in DOMAIN s} \cup {e}
<1>1. s \in Seq(S) /\ e \in S
    BY DEF IsSequence
<1> HIDE DEF S
<1>2. /\ DOMAIN t = DOMAIN s /\ \A j \in DOMAIN s : t[j] = IF j = i THEN e ELSE s[j]
      /\ DOMAIN s = 1 .. Len(s) /\ Len(s) \in Nat
    BY <1>1
<1>3. Len(t) = Len(s) /\ t \in Seq(S)
    BY <1>1, <1>2, ExceptSeq
<1> QED
    BY <1>2, <1>3, OwnElements

LEMMA LastOfSequence ==
    ASSUME NEW s, IsSequence(s), s # <<>>
    PROVE  \E i \in DOMAIN s : Seqs!Last(s) = s[i]
<1> DEFINE S == {s[j] : j \in DOMAIN s}
<1>1. s \in Seq(S)
    BY DEF IsSequence
<1> HIDE DEF S
<1>2. Len(s) \in 1 .. Len(s) /\ DOMAIN s = 1 .. Len(s)
    BY <1>1
<1> QED
    BY <1>2 DEF Seqs!Last

LEMMA ReplayIsSome == \A made, events : IsSome(Replay(made, events)) <=> IsSome(made)
  BY DEF Replay, IsSome

-----------------------------------------------------------------------------

\* Dropping the stack for a mini stack, or leaving everything as it is.
LEMMA SwitchKeepsInv ==
    ASSUME SwitchInv, NEW p, Switch(p), pc' # "dead", UNCHANGED reconstructed
    PROVE  SwitchInv'
<1>1. CASE p = NoPolicy \/ p = current_policy
    BY <1>1 DEF Switch, SwitchInv, SomeoneEvicts, ThreadsMade, StacksArrive, stackVars,
                IsSome, IsSequence
<1>2. CASE p # NoPolicy /\ p # current_policy
  <2> DEFINE thread == [at |-> "read", made |-> Made(p, max_size)]
  <2>1. /\ policy_stack' = NoStack /\ mini_index' = p
        /\ threads' = Append(threads, thread)
    BY <1>2 DEF Switch, Switched
  <2>2. IsSome(thread.made)
    BY <1>2 DEF Made, IsSome
  <2>3. SomeoneEvicts'
    BY <1>2, <2>1 DEF SomeoneEvicts, NoStack, IsSome
  <2> HIDE DEF thread
  <2>4. ThreadsMade'
    BY <2>1, <2>2, AppendToSequence DEF SwitchInv, ThreadsMade, IsSome, IsSequence
  <2>5. StacksArrive'
    BY DEF SwitchInv, StacksArrive, IsSome, IsSequence
  <2> QED
    BY <2>3, <2>4, <2>5 DEF SwitchInv
<1> QED
    BY <1>1, <1>2

\* One reconstruction goes on, with nothing else changed.
LEMMA ThreadKeepsInv ==
    ASSUME SwitchInv, NEW i \in DOMAIN threads, NEW thread,
           threads' = [threads EXCEPT ![i] = thread],
           thread.at \in {"read", "check", "send"} => IsSome(thread.made),
           UNCHANGED <<policy_stack, mini_index, pc>>
    PROVE  SomeoneEvicts' /\ ThreadsMade'
<1>1. SomeoneEvicts'
    BY DEF SwitchInv, SomeoneEvicts, IsSome
<1>2. IsSequence(threads)
    BY DEF SwitchInv, ThreadsMade
<1>3. /\ IsSequence(threads') /\ DOMAIN threads' = DOMAIN threads
      /\ \A j \in DOMAIN threads : threads'[j] = IF j = i THEN thread ELSE threads[j]
    BY <1>2, ChangeInSequence
<1>4. ThreadsMade'
    BY <1>3 DEF SwitchInv, ThreadsMade, IsSome, IsSequence
<1> QED
    BY <1>1, <1>4

LEMMA SwitchInvInit == Init => SwitchInv
<1> SUFFICES ASSUME Init PROVE SwitchInv
    OBVIOUS
<1>1. IsSome(policy_stack) /\ mini_index = NoPolicy /\ pc # "dead"
    BY SwitchAssumption DEF Init, Made, IsSome
<1>2. threads = <<>> /\ reconstructed = <<>>
    BY DEF Init
<1> QED
    BY <1>1, <1>2 DEF SwitchInv, SomeoneEvicts, ThreadsMade, StacksArrive, IsSequence

LEMMA SwitchInvStep == SwitchInv /\ [Next]_vars => SwitchInv'
<1> SUFFICES ASSUME SwitchInv, [Next]_vars PROVE SwitchInv'
    OBVIOUS
<1> USE DEF Goto
<1>1. ASSUME UNCHANGED <<policy_stack, mini_index, threads, reconstructed>>, pc' # "dead"
      PROVE  SwitchInv'
    BY <1>1 DEF SwitchInv, SomeoneEvicts, ThreadsMade, StacksArrive, IsSome, IsSequence
<1>2. ASSUME UNCHANGED <<loopVars, stackVars, reconstructed>> PROVE SwitchInv'
  <2>1. pc # "dead"
    BY DEF SwitchInv, SomeoneEvicts
  <2> QED
    BY <1>1, <1>2, <2>1 DEF loopVars, stackVars
<1>3. ASSUME NEW k \in HashedKeys, Get(k) \/ Set(k) \/ Del(k) \/ Reap(k) PROVE SwitchInv'
    BY <1>2, <1>3 DEF Get, Set, Del, Reap, Begin
<1>4. ASSUME Wipe \/ SetAuto \/ ClientStep \/ Write PROVE SwitchInv'
    BY <1>2, <1>4 DEF Wipe, SetAuto, ClientStep, UnsetAuto, Broadcast, Write, Begin
<1>5. ASSUME NEW size \in CacheSizes, SetMaxSize(size) PROVE SwitchInv'
    BY <1>2, <1>5 DEF SetMaxSize, Begin
<1>6. ASSUME NEW p \in Configured, SetPolicy(p) PROVE SwitchInv'
    BY <1>2, <1>6 DEF SetPolicy, Begin
<1>7. ASSUME Collect PROVE SwitchInv'
    BY <1>1, <1>7 DEF Collect, stackVars
<1>8. ASSUME Handle PROVE SwitchInv'
  <2>1. UNCHANGED reconstructed /\ pc' # "dead"
    BY <1>8 DEF Handle
  <2>2. CASE Head(batch).kind = "Policy"
    <3>1. Switch(Head(batch).arg)
        BY <1>8, <2>2 DEF Handle
    <3> QED
        BY <2>1, <3>1, SwitchKeepsInv
  <2>3. CASE Head(batch).kind # "Policy"
    <3>1. /\ policy_stack' = IF IsSome(policy_stack) THEN Told(policy_stack, Head(batch))
                             ELSE NoStack
          /\ UNCHANGED <<mini_index, threads>>
        BY <1>8, <2>3 DEF Handle
    <3>2. IsSome(policy_stack') <=> IsSome(policy_stack)
        BY <3>1 DEF IsSome, Told, NoStack
    <3> QED
        BY <2>1, <3>1, <3>2
        DEF SwitchInv, SomeoneEvicts, ThreadsMade, StacksArrive, IsSome, IsSequence
  <2> QED
    BY <2>2, <2>3
<1>9. ASSUME Apply PROVE SwitchInv'
  <2>1. /\ Install /\ pc' # "dead" /\ reconstructed' = <<>> /\ UNCHANGED threads
    BY <1>9 DEF Apply
  <2>2. ThreadsMade' /\ StacksArrive'
    BY <2>1 DEF SwitchInv, ThreadsMade, StacksArrive, IsSome, IsSequence
  <2>3. CASE reconstructed = <<>>
    BY <2>1, <2>2, <2>3 DEF Install, SwitchInv, SomeoneEvicts, IsSome
  <2>4. CASE reconstructed # <<>>
    <3>1. /\ policy_stack' = Replay(Seqs!Last(reconstructed), buffered)
          /\ mini_index' = NoPolicy
        BY <2>1, <2>4 DEF Install
    <3>2. IsSome(Seqs!Last(reconstructed))
        BY <2>4, LastOfSequence DEF SwitchInv, StacksArrive
    <3>3. IsSome(policy_stack')
        BY <3>1, <3>2, ReplayIsSome
    <3> QED
        BY <2>1, <2>2, <3>1, <3>3 DEF SwitchInv, SomeoneEvicts, IsSome
  <2> QED
    BY <2>3, <2>4
<1>10. ASSUME Evict PROVE SwitchInv'
  <2>1. mini_index = NoPolicy /\ IsSome(policy_stack) /\ pc # "dead"
    BY <1>10 DEF Evict, SwitchInv, SomeoneEvicts
  <2>2. \E k \in Victims(EvictOne(policy_stack.policy, policy_stack.stack).key) : Erased(k)
    BY <1>10, <2>1 DEF Evict
  <2>3. UNCHANGED <<mini_index, threads, reconstructed, pc>>
    BY <2>2 DEF Erased, loopVars
  <2>4. policy_stack' = [policy |-> policy_stack.policy,
                         stack |-> EvictOne(policy_stack.policy, policy_stack.stack).stack]
    BY <1>10, <2>1 DEF Evict
  <2>5. policy_stack'.policy = policy_stack.policy
    BY <2>4
  <2> QED
    BY <2>1, <2>3, <2>5
    DEF SwitchInv, SomeoneEvicts, ThreadsMade, StacksArrive, IsSome, IsSequence
<1>11. ASSUME EvictMini PROVE SwitchInv'
  <2>1. UNCHANGED <<policy_stack, mini_index, threads, reconstructed, pc>>
    BY <1>11 DEF EvictMini, Erased, loopVars
  <2> QED
    BY <1>1, <2>1 DEF SwitchInv, SomeoneEvicts
<1>12. ASSUME EvictedEnough PROVE SwitchInv'
    BY <1>1, <1>12 DEF EvictedEnough, stackVars
<1>13. ASSUME AutoPolicy PROVE SwitchInv'
    BY <1>13, SwitchKeepsInv DEF AutoPolicy
<1>14. ASSUME NEW i \in DOMAIN threads, Reconstruct(i) PROVE SwitchInv'
  <2>1. /\ UNCHANGED <<policy_stack, mini_index, pc>>
    BY <1>14 DEF Reconstruct, ReadTrace, FailToRead, CheckPolicy, SendStack, ThreadAt, loopVars
  <2>2. ~IsSome(Ended.made) /\ Ended.at = "ended"
    BY DEF Ended, NoStack, IsSome
  <2>3. ASSUME UNCHANGED reconstructed PROVE StacksArrive'
    BY <2>3 DEF SwitchInv, StacksArrive, IsSome, IsSequence
  <2>4. CASE ReadTrace(i)
    <3>1. IsSome(Replay(threads[i].made, trace))
        BY <2>4, ReplayIsSome DEF ReadTrace, ThreadAt, SwitchInv, ThreadsMade
    <3>2. /\ UNCHANGED reconstructed
          /\ \/ threads' = [threads EXCEPT ![i] = Ended]
             \/ threads' = [threads EXCEPT ![i] =
                              [at |-> "check", made |-> Replay(threads[i].made, trace)]]
        BY <2>4 DEF ReadTrace
    <3> QED
        BY <2>1, <2>2, <2>3, <3>1, <3>2, ThreadKeepsInv DEF SwitchInv
  <2>5. CASE FailToRead(i)
    <3>1. /\ UNCHANGED reconstructed
          /\ threads' = [threads EXCEPT ![i] = [at |-> "failed", made |-> NoStack]]
        BY <2>5 DEF FailToRead
    <3> QED
        BY <2>1, <2>3, <3>1, ThreadKeepsInv DEF SwitchInv
  <2>6. CASE CheckPolicy(i)
    <3>1. IsSome(threads[i].made)
        BY <2>6 DEF CheckPolicy, ThreadAt, SwitchInv, ThreadsMade
    <3>2. /\ UNCHANGED reconstructed
          /\ \/ threads' = [threads EXCEPT ![i] = Ended]
             \/ threads' = [threads EXCEPT ![i] = [threads[i] EXCEPT !.at = "send"]]
        BY <2>6 DEF CheckPolicy
    <3>3. IsSome([threads[i] EXCEPT !.at = "send"].made)
        BY <3>1
    <3> QED
        BY <2>1, <2>2, <2>3, <3>2, <3>3, ThreadKeepsInv DEF SwitchInv
  <2>7. CASE SendStack(i)
    <3>1. IsSome(threads[i].made)
        BY <2>7 DEF SendStack, ThreadAt, SwitchInv, ThreadsMade
    <3>2. /\ reconstructed' = Append(reconstructed, threads[i].made)
          /\ threads' = [threads EXCEPT ![i] = Ended]
        BY <2>7 DEF SendStack
    <3>3. StacksArrive'
        BY <3>1, <3>2, AppendToSequence DEF SwitchInv, StacksArrive, IsSome, IsSequence
    <3> QED
        BY <2>1, <2>2, <3>2, <3>3, ThreadKeepsInv DEF SwitchInv
  <2> QED
    BY <1>14, <2>4, <2>5, <2>6, <2>7 DEF Reconstruct
<1>15. ASSUME UNCHANGED vars PROVE SwitchInv'
    BY <1>2, <1>15 DEF vars
<1> QED
    BY <1>3, <1>4, <1>5, <1>6, <1>7, <1>8, <1>9, <1>10, <1>11, <1>12, <1>13, <1>14, <1>15
    DEF Next, WorkerStep

\* At every moment either the stack or a mini stack can choose what to evict: no
\* overlap of switches, of reconstructions that fail or arrive late and of clients'
\* events brings the worker to "No active policy or mini stack"
\* (policy/mod.rs handle_policy, apply_buffered_events, apply_evictions).
THEOREM SomeoneAlwaysEvicts == Spec => []SomeoneEvicts
<1>1. SwitchInv => SomeoneEvicts
    BY DEF SwitchInv
<1> QED
    BY <1>1, SwitchInvInit, SwitchInvStep, PTL DEF Spec

-----------------------------------------------------------------------------
(***************************************************************************)
(* The policies                                                            *)
(***************************************************************************)

\* A Policy event carries a configured policy, or stands for policy(Auto).
Configures(e) == e.kind = "Policy" => e.arg \in Configured \cup {NoPolicy}

AllConfigure(events) ==
    /\ IsSequence(events)
    /\ \A i \in DOMAIN events : Configures(events[i])

LEMMA AppendConfigures ==
    ASSUME NEW s, AllConfigure(s), NEW e, Configures(e)
    PROVE  AllConfigure(Append(s, e))
<1> HIDE DEF Configures
<1>1. IsSequence(s)
    BY DEF AllConfigure
<1>2. /\ IsSequence(Append(s, e)) /\ DOMAIN Append(s, e) = 1 .. Len(s) + 1
      /\ Append(s, e)[Len(s) + 1] = e
      /\ \A i \in DOMAIN s : Append(s, e)[i] = s[i]
      /\ DOMAIN s = 1 .. Len(s) /\ Len(s) \in Nat
    BY <1>1, AppendToSequence
<1>3. ASSUME NEW i \in 1 .. Len(s) + 1 PROVE Configures(Append(s, e)[i])
    BY <1>2 DEF AllConfigure
<1> QED
    BY <1>2, <1>3 DEF AllConfigure

LEMMA TailConfigures ==
    ASSUME NEW s, AllConfigure(s), s # <<>>
    PROVE  Configures(Head(s)) /\ AllConfigure(Tail(s))
<1> DEFINE S == {s[i] : i \in DOMAIN s}
<1>1. s \in Seq(S) /\ \A e \in S : Configures(e)
    BY DEF AllConfigure, IsSequence
<1> HIDE DEF S
<1>2. Head(s) \in S /\ Tail(s) \in Seq(S)
    BY <1>1
<1>3. IsSequence(Tail(s))
    BY <1>2, OwnElements
<1>4. \A i \in DOMAIN Tail(s) : Tail(s)[i] \in S
    BY <1>2
<1> QED
    BY <1>1, <1>2, <1>3, <1>4 DEF AllConfigure

\* Whatever names a policy names a configured one.
ConfiguredInv ==
    /\ SwitchTypeOK
    /\ AllConfigure(listener) /\ AllConfigure(batch)
    /\ call.at # "idle" => Configures(call.event)
    /\ pc = "auto" => picked \in Configured
    /\ pc = "handle" => batch # <<>>

LEMMA ConfiguredInit == Init => ConfiguredInv
<1> SUFFICES ASSUME Init PROVE ConfiguredInv
    OBVIOUS
<1>1. SwitchTypeOK
    BY SwitchAssumption DEF Init, SwitchTypeOK, Idle
<1>2. AllConfigure(<<>>)
    BY DEF AllConfigure, IsSequence
<1> QED
    BY <1>1, <1>2 DEF Init, ConfiguredInv, Idle

LEMMA ConfiguredStep == ConfiguredInv /\ [Next]_vars => ConfiguredInv'
<1> SUFFICES ASSUME ConfiguredInv, [Next]_vars PROVE ConfiguredInv'
    OBVIOUS
<1> USE DEF Goto
<1> DEFINE Queues == AllConfigure(listener) /\ AllConfigure(batch)
           Place  == /\ pc = "auto" => picked \in Configured
                     /\ pc = "handle" => batch # <<>>
           Called == call.at # "idle" => Configures(call.event)
<1>0. SwitchTypeOK /\ Queues /\ Place /\ Called
    BY DEF ConfiguredInv
<1>s. ASSUME UNCHANGED <<listener, batch>> PROVE Queues'
    BY <1>0, <1>s DEF AllConfigure, IsSequence, Configures
<1>c. ASSUME UNCHANGED call PROVE Called'
    BY <1>0, <1>c DEF Configures
<1>l. ASSUME UNCHANGED loopVars PROVE Place'
    BY <1>0, <1>l DEF loopVars
<1>1. ASSUME NEW k \in HashedKeys, Get(k) \/ Set(k) \/ Del(k) PROVE ConfiguredInv'
  <2>1. PICK kind \in {"Get", "Miss", "Set", "Del"} : Begin("send", Event(kind, k))
    BY <1>1 DEF Get, Set, Del
  <2>2. Queues' /\ Place' /\ Called'
    BY <2>1, <1>s, <1>l DEF Begin, Event, Configures, loopVars
  <2>3. SwitchTypeOK'
    BY <1>0, <1>1, <2>1 DEF SwitchTypeOK, Get, Set, Del, Begin, loopVars, stackVars, storeVars
  <2> QED
    BY <2>2, <2>3 DEF ConfiguredInv
<1>2. ASSUME NEW k \in HashedKeys, Reap(k) PROVE ConfiguredInv'
  <2>1. Queues' /\ Place' /\ Called'
    BY <1>2, <1>s, <1>l, <1>c DEF Reap, clientVars, loopVars
  <2>2. SwitchTypeOK'
    BY <1>0, <1>2 DEF SwitchTypeOK, Reap, clientVars, loopVars, stackVars
  <2> QED
    BY <2>1, <2>2 DEF ConfiguredInv
<1>3. ASSUME Wipe \/ SetAuto PROVE ConfiguredInv'
  <2>1. Begin("send", Event("Wipe", NoKey)) \/ Begin("send", Event("Policy", NoPolicy))
    BY <1>3 DEF Wipe, SetAuto
  <2>2. Queues' /\ Place' /\ Called'
    BY <2>1, <1>s, <1>l DEF Begin, Event, Configures, loopVars
  <2>3. is_auto' \in BOOLEAN /\ stored' \subseteq stored
    BY <1>0, <1>3, Zenon DEF SwitchTypeOK, Wipe, SetAuto
  <2>4. call'.at = "send" /\ UNCHANGED <<max_size, status_policy, loopVars, stackVars>>
    BY <1>3 DEF Wipe, SetAuto, Begin
  <2>5. SwitchTypeOK'
    BY <1>0, <2>3, <2>4 DEF SwitchTypeOK, loopVars, stackVars
  <2> QED
    BY <2>2, <2>5 DEF ConfiguredInv
<1>4. ASSUME NEW size \in CacheSizes, SetMaxSize(size) PROVE ConfiguredInv'
  <2>1. Queues' /\ Place' /\ Called'
    BY <1>4, <1>s, <1>l DEF SetMaxSize, Begin, Event, Configures, loopVars
  <2>2. SwitchTypeOK'
    BY <1>0, <1>4 DEF SwitchTypeOK, SetMaxSize, Begin, loopVars, stackVars
  <2> QED
    BY <2>1, <2>2 DEF ConfiguredInv
<1>5. ASSUME NEW p \in Configured, SetPolicy(p) PROVE ConfiguredInv'
  <2>1. Queues' /\ Place' /\ Called'
    BY <1>5, <1>s, <1>l DEF SetPolicy, Begin, Event, Configures, loopVars
  <2>2. SwitchTypeOK'
    BY <1>0, <1>5 DEF SwitchTypeOK, SetPolicy, Begin, loopVars, stackVars
  <2> QED
    BY <2>1, <2>2 DEF ConfiguredInv
<1>6. ASSUME UnsetAuto PROVE ConfiguredInv'
  <2>1. Queues' /\ Place'
    BY <1>6, <1>s, <1>l DEF UnsetAuto, loopVars
  <2>2. Called' /\ call'.at \in {"idle", "unset_auto", "send"}
    BY <1>0, <1>6 DEF UnsetAuto, Configures, SwitchTypeOK
  <2>3. SwitchTypeOK'
    BY <1>0, <1>6, <2>2 DEF SwitchTypeOK, UnsetAuto, loopVars, stackVars
  <2> QED
    BY <2>1, <2>2, <2>3 DEF ConfiguredInv
<1>7. ASSUME Broadcast PROVE ConfiguredInv'
  <2>1. /\ listener' = Append(listener, call.event) /\ call' = Idle
        /\ UNCHANGED <<storeVars, loopVars, stackVars>>
    BY <1>7 DEF Broadcast
  <2>2. Configures(call.event)
    BY <1>0, <1>7 DEF Broadcast
  <2>3. AllConfigure(listener')
    BY <1>0, <2>1, <2>2, AppendConfigures
  <2>4. Queues'
    BY <1>0, <2>1, <2>3 DEF loopVars, AllConfigure, IsSequence, Configures
  <2>5. Place' /\ Called'
    BY <2>1, <1>l DEF Idle
  <2>6. SwitchTypeOK'
    BY <1>0, <2>1 DEF SwitchTypeOK, storeVars, loopVars, stackVars, Idle
  <2> QED
    BY <2>4, <2>5, <2>6 DEF ConfiguredInv
<1>8. ASSUME Collect PROVE ConfiguredInv'
  <2>1. /\ batch' = listener /\ listener' = <<>> /\ has_current_set' = FALSE
        /\ pc' = IF listener = <<>> THEN "apply" ELSE "handle"
        /\ UNCHANGED <<storeVars, clientVars, limit, stackVars>>
    BY <1>8 DEF Collect
  <2>2. AllConfigure(<<>>)
    BY DEF AllConfigure, IsSequence
  <2>3. AllConfigure(batch') /\ AllConfigure(listener')
    BY <1>0, <2>1, <2>2
  <2>4. Queues'
    BY <2>3 DEF AllConfigure, IsSequence, Configures
  <2>5. Place' /\ Called'
    BY <2>1, <1>c DEF clientVars
  <2>6. SwitchTypeOK'
    BY <1>0, <2>1 DEF SwitchTypeOK, storeVars, clientVars, stackVars
  <2> QED
    BY <2>4, <2>5, <2>6 DEF ConfiguredInv
<1>9. ASSUME NEW p, p \in Configured \cup {NoPolicy}, Switch(p)
      PROVE  /\ current_policy' \in Configured /\ mini' \subseteq Sampled
             /\ mini_index' \in Configured \cup {NoPolicy}
  <2>1. CASE p = NoPolicy \/ p = current_policy
    BY <1>0, <1>9, <2>1 DEF Switch, stackVars, SwitchTypeOK
  <2>2. CASE p # NoPolicy /\ p # current_policy
    BY <1>9, <2>2 DEF Switch, Switched
  <2> QED
    BY <2>1, <2>2
<1>10. ASSUME Handle PROVE ConfiguredInv'
  <2>1. /\ pc = "handle" /\ batch' = Tail(batch)
        /\ pc' = IF Tail(batch) = <<>> THEN "apply" ELSE "handle"
        /\ UNCHANGED <<storeVars, clientVars, listener, limit>>
        /\ has_current_set' = (has_current_set \/ Head(batch).kind = "Set")
    BY <1>10 DEF Handle
  <2>2. Configures(Head(batch)) /\ AllConfigure(batch')
    BY <1>0, <2>1, TailConfigures
  <2>3. Queues'
    BY <1>0, <2>1, <2>2 DEF AllConfigure, IsSequence, Configures
  <2>4. Place' /\ Called'
    BY <2>1, <1>c DEF clientVars
  <2>5. /\ current_policy' \in Configured /\ mini' \subseteq Sampled
        /\ mini_index' \in Configured \cup {NoPolicy}
    <3>1. CASE Head(batch).kind = "Policy"
        <4>1. Switch(Head(batch).arg) /\ Head(batch).arg \in Configured \cup {NoPolicy}
            BY <1>10, <2>2, <3>1 DEF Handle, Configures
        <4> QED
            BY <1>9, <4>1
    <3>2. CASE Head(batch).kind # "Policy"
        <4>1. mini' \in MiniAfter(Head(batch)) /\ UNCHANGED <<mini_index, current_policy>>
            BY <1>10, <3>2 DEF Handle
        <4>2. mini \subseteq Sampled
            BY <1>0 DEF SwitchTypeOK
        <4>3. mini' \subseteq Sampled
            BY <4>1, <4>2 DEF MiniAfter
        <4> QED
            BY <1>0, <4>1, <4>3 DEF SwitchTypeOK
    <3> QED
        BY <3>1, <3>2
  <2>6. has_current_set' \in BOOLEAN
    BY <1>0, <2>1 DEF SwitchTypeOK
  <2>7. SwitchTypeOK'
    BY <1>0, <2>1, <2>5, <2>6 DEF SwitchTypeOK, storeVars, clientVars
  <2> QED
    BY <2>3, <2>4, <2>7 DEF ConfiguredInv
<1>11. ASSUME Apply PROVE ConfiguredInv'
  <2>1. /\ limit' = max_size /\ pc' = "evict"
        /\ UNCHANGED <<storeVars, clientVars, listener, batch, has_current_set, current_policy>>
    BY <1>11 DEF Apply
  <2>2. (mini_index' = NoPolicy /\ mini' = {}) \/ UNCHANGED <<mini_index, mini>>
    BY <1>11 DEF Apply, Install
  <2>3. Queues' /\ Place' /\ Called'
    BY <2>1, <1>s, <1>c DEF clientVars
  <2>4. SwitchTypeOK'
    BY <1>0, <2>1, <2>2 DEF SwitchTypeOK, storeVars, clientVars
  <2> QED
    BY <2>3, <2>4 DEF ConfiguredInv
<1>12. ASSUME Evict \/ EvictMini PROVE ConfiguredInv'
  <2>1. /\ UNCHANGED <<max_size, status_policy, is_auto, clientVars, listener, batch,
                       has_current_set, limit, picked, mini_index, current_policy>>
        /\ stored' \subseteq stored /\ pc' \in {pc, "dead"} /\ mini' \subseteq mini
    <3>1. CASE Evict
        <4>1. CASE IsSome(policy_stack)
            <5>1. UNCHANGED mini /\ \E k : Erased(k)
                BY <3>1, <4>1 DEF Evict
            <5> QED
                BY <5>1 DEF Erased, loopVars
        <4>2. CASE ~IsSome(policy_stack)
            BY <3>1, <4>2 DEF Evict, storeVars, stackVars
        <4> QED
            BY <4>1, <4>2
    <3>2. CASE EvictMini
        <4>1. mini' \subseteq mini
            BY <3>2 DEF EvictMini
        <4>2. \/ \E v : Erased(v)
              \/ UNCHANGED <<storeVars, clientVars, listener, loopVars, mini_index, current_policy>>
            BY <3>2 DEF EvictMini
        <4> QED
            BY <4>1, <4>2 DEF Erased, storeVars, loopVars
    <3> QED
        BY <1>12, <3>1, <3>2
  <2>2. Queues' /\ Called'
    BY <2>1, <1>s, <1>c DEF clientVars
  <2>3. Place'
    BY <1>0, <2>1
  <2>4. SwitchTypeOK'
    BY <1>0, <2>1 DEF SwitchTypeOK, clientVars
  <2> QED
    BY <2>2, <2>3, <2>4 DEF ConfiguredInv
<1>13. ASSUME EvictedEnough PROVE ConfiguredInv'
  <2>1. /\ UNCHANGED <<storeVars, clientVars, listener, batch, has_current_set, limit, stackVars>>
        /\ pc' = "collect" \/ (pc' = "auto" /\ picked' \in Configured)
    BY <1>13 DEF EvictedEnough
  <2>2. Queues' /\ Called' /\ Place'
    BY <2>1, <1>s, <1>c DEF clientVars
  <2>3. SwitchTypeOK'
    BY <1>0, <2>1 DEF SwitchTypeOK, storeVars, clientVars, stackVars
  <2> QED
    BY <2>2, <2>3 DEF ConfiguredInv
<1>14. ASSUME AutoPolicy PROVE ConfiguredInv'
  <2>1. /\ picked \in Configured /\ status_policy' = picked /\ Switch(picked) /\ pc' = "collect"
        /\ UNCHANGED <<stored, max_size, is_auto, clientVars, listener, batch,
                       has_current_set, limit>>
    BY <1>0, <1>14 DEF AutoPolicy
  <2>2. Queues' /\ Called' /\ Place'
    BY <2>1, <1>s, <1>c DEF clientVars
  <2>3. SwitchTypeOK'
    BY <1>0, <1>9, <2>1 DEF SwitchTypeOK, clientVars
  <2> QED
    BY <2>2, <2>3 DEF ConfiguredInv
<1>15. ASSUME UNCHANGED <<storeVars, clientVars, listener, loopVars, mini_index, mini,
                          current_policy>>
       PROVE  ConfiguredInv'
  <2>1. Queues' /\ Called' /\ Place'
    BY <1>15, <1>s, <1>c, <1>l DEF clientVars, loopVars
  <2>2. SwitchTypeOK'
    BY <1>0, <1>15 DEF SwitchTypeOK, storeVars, clientVars, loopVars
  <2> QED
    BY <2>1, <2>2 DEF ConfiguredInv
<1>16. ASSUME Write PROVE ConfiguredInv'
    BY <1>15, <1>16 DEF Write, stackVars
<1>17. ASSUME NEW i \in DOMAIN threads, Reconstruct(i) PROVE ConfiguredInv'
    BY <1>15, <1>17 DEF Reconstruct, ReadTrace, FailToRead, CheckPolicy, SendStack, ThreadAt
<1>18. ASSUME UNCHANGED vars PROVE ConfiguredInv'
    BY <1>15, <1>18 DEF vars, stackVars
<1> QED
    BY <1>1, <1>2, <1>3, <1>4, <1>5, <1>6, <1>7, <1>8, <1>10, <1>11, <1>12, <1>13, <1>14,
       <1>16, <1>17, <1>18
    DEF Next, ClientStep, WorkerStep

\* The policy the worker runs and the one the status shows are always configured
\* ones, whoever chooses (lib.rs policy, policy/mod.rs handle_policy, status.rs).
THEOREM SwitchTypeCorrectness == Spec => []SwitchTypeOK
<1>1. ConfiguredInv => SwitchTypeOK
    BY DEF ConfiguredInv
<1> QED
    BY <1>1, ConfiguredInit, ConfiguredStep, PTL DEF Spec

-----------------------------------------------------------------------------
(***************************************************************************)
(* The order of the trace                                                  *)
(***************************************************************************)

\* The events there are: clients' calls, and evictions.
KeyKinds == {"Get", "Miss", "Set", "Del"}

CallEvents ==
    {Event(kind, k) : kind \in KeyKinds, k \in HashedKeys}
    \cup {Event("Resize", size) : size \in CacheSizes}
    \cup {Event("Policy", p) : p \in Configured \cup {NoPolicy}}
    \cup {Event("Wipe", NoKey)}

Events == CallEvents \cup {Eviction(k) : k \in HashedKeys}

\* An event on its own, unless it is an eviction.
Alone(e) == IF e.evicted THEN <<>> ELSE <<e>>

\* What a call sends is an event of a client.
LEMMA CallsAreEvents ==
    /\ \A kind \in KeyKinds, k \in HashedKeys : Event(kind, k) \in CallEvents
    /\ \A size \in CacheSizes : Event("Resize", size) \in CallEvents
    /\ \A p \in Configured \cup {NoPolicy} : Event("Policy", p) \in CallEvents
    /\ Event("Wipe", NoKey) \in CallEvents
    /\ \A e \in CallEvents : ~e.evicted
<1>1. /\ \A kind \in KeyKinds, k \in HashedKeys : Event(kind, k) \in CallEvents
      /\ \A size \in CacheSizes : Event("Resize", size) \in CallEvents
      /\ \A p \in Configured \cup {NoPolicy} : Event("Policy", p) \in CallEvents
      /\ Event("Wipe", NoKey) \in CallEvents
    BY DEF CallEvents
<1>2. ASSUME NEW e \in CallEvents PROVE ~e.evicted
  <2>1. \E kind, arg : e = Event(kind, arg)
    BY DEF CallEvents
  <2> QED
    BY <2>1 DEF Event
<1> QED
    BY <1>1, <1>2

\* Only evictions are marked, and they are no wipes.
LEMMA EventFacts ==
    /\ \A e \in CallEvents : ~e.evicted
    /\ \A e \in Events : e.evicted \in BOOLEAN /\ (~e.evicted => e \in CallEvents)
    /\ \A e \in Events : e.kind = "Wipe" => e \in CallEvents
    /\ \A k \in HashedKeys : Eviction(k) \in Events /\ Eviction(k).evicted
    /\ \A e \in Events : Alone(e) \in Seq(CallEvents)
<1>1. \A e \in CallEvents : e.evicted = FALSE
  <2> SUFFICES ASSUME NEW e \in CallEvents PROVE e.evicted = FALSE
    OBVIOUS
  <2>1. \E kind, arg : e = Event(kind, arg)
    BY DEF CallEvents
  <2> QED
    BY <2>1 DEF Event
<1>2. \A k \in HashedKeys :
          Eviction(k) \in Events /\ Eviction(k).evicted /\ Eviction(k).kind # "Wipe"
  <2>1. \A k \in HashedKeys : Eviction(k) \in Events
    BY DEF Events
  <2>2. \A k \in HashedKeys : Eviction(k).evicted /\ Eviction(k).kind # "Wipe"
    BY DEF Eviction
  <2> QED
    BY <2>1, <2>2
<1>3. \A e \in Events : e.evicted \in BOOLEAN /\ (~e.evicted => e \in CallEvents)
  <2>1. \A e \in CallEvents : e.evicted \in BOOLEAN
    BY <1>1
  <2>2. \A k \in HashedKeys : Eviction(k).evicted \in BOOLEAN
    BY DEF Eviction
  <2> QED
    BY <1>2, <2>1, <2>2 DEF Events
<1>4. \A e \in Events : Alone(e) \in Seq(CallEvents)
    BY <1>3 DEF Alone
<1>5. \A e \in Events : e.kind = "Wipe" => e \in CallEvents
    BY <1>2 DEF Events
<1> QED
    BY <1>1, <1>2, <1>3, <1>4, <1>5

\* The operator the lemmas speak of is the one the model uses.
LEMMA SameFlatten == \A ss : Seqs!FlattenSeq(ss) = Lemmas!FlattenSeq(ss)
  BY DEF Seqs!FlattenSeq, Lemmas!FlattenSeq

\* What is left of each event without the evictions.
Kept == [e \in Events |-> Alone(e)]

\* The clients' events of a sequence are what its events spread to.
LEMMA ClientsSpread ==
    /\ Lemmas!Spreads(Kept, Events, CallEvents)
    /\ \A s \in Seq(Events) : Clients(s) = Lemmas!Spread(Kept, s)
<1>1. Lemmas!Spreads(Kept, Events, CallEvents)
    BY EventFacts DEF Lemmas!Spreads, Kept
<1>2. ASSUME NEW s \in Seq(Events) PROVE Clients(s) = Lemmas!Spread(Kept, s)
  <2>1. [i \in DOMAIN s |-> Alone(s[i])] = [i \in DOMAIN s |-> Kept[s[i]]]
    <3>1. \A i \in DOMAIN s : s[i] \in Events
        BY ElementOfSeq
    <3> QED
        BY <3>1 DEF Kept
  <2>2. Clients(s) = Lemmas!FlattenSeq([i \in DOMAIN s |-> Alone(s[i])])
    BY SameFlatten DEF Clients, Alone
  <2> QED
    BY <2>1, <2>2 DEF Lemmas!Spread
<1> QED
    BY <1>1, <1>2

\* No events, no clients' events ...
LEMMA ClientsEmpty == Clients(<<>>) = <<>>
  BY ClientsSpread, Lemmas!SpreadEmpty, EmptySeq

\* ... and of some, only clients' events.
LEMMA ClientsType == \A s \in Seq(Events) : Clients(s) \in Seq(CallEvents)
  BY ClientsSpread, Lemmas!SpreadType

\* All that the trace worker has written, is to write, or must wait to be sent to it.
Queued == trace \o trace_channel \o buffered

\* What the trace worker wrote before it last deleted the trace.
WasTraced(past, all, queued) ==
    /\ past \in Seq(CallEvents)
    /\ all = past \o Clients(queued)
    /\ past = <<>> \/ past[Len(past)].kind = "Wipe"

TracedInv ==
    /\ call.at # "idle" => call.event \in CallEvents
    /\ listener \in Seq(CallEvents) /\ batch \in Seq(CallEvents)
    /\ trace \in Seq(Events) /\ trace_channel \in Seq(Events) /\ buffered \in Seq(Events)
    /\ mini_index = NoPolicy => Clients(buffered) = <<>>
    /\ \E past : WasTraced(past, handled, Queued)

\* The parts of the invariant that queues and the trace have in.
TracedSame == UNCHANGED <<trace, trace_channel, buffered, handled>>

\* Sequences one after the other are one.
LEMMA QueuedType ==
    ASSUME NEW s \in Seq(Events), NEW t \in Seq(Events), NEW u \in Seq(Events)
    PROVE  s \o t \o u \in Seq(Events)
<1>1. s \o t \in Seq(Events)
    BY ConcatProperties
<1> QED
    BY <1>1, ConcatProperties

\* A client's event at the end of what is buffered, or of what is sent if no other
\* clients' event waits after it.
LEMMA OneMoreQueued ==
    ASSUME trace \in Seq(Events), trace_channel \in Seq(Events), buffered \in Seq(Events),
           NEW e \in CallEvents
    PROVE  /\ Append(buffered, e) \in Seq(Events) /\ Append(trace_channel, e) \in Seq(Events)
           /\ Clients(trace \o trace_channel \o Append(buffered, e))
                = Append(Clients(trace \o trace_channel \o buffered), e)
           /\ Clients(buffered) = <<>>
                => Clients(trace \o Append(trace_channel, e) \o buffered)
                     = Append(Clients(trace \o trace_channel \o buffered), e)
<1>1. e \in Events /\ Kept[e] = <<e>>
    BY EventFacts DEF Events, Alone, Kept
<1>2. Lemmas!Spreads(Kept, Events, CallEvents)
    BY ClientsSpread
<1>3. /\ Lemmas!Spread(Kept, trace \o trace_channel \o Append(buffered, e))
            = Append(Lemmas!Spread(Kept, trace \o trace_channel \o buffered), e)
      /\ Lemmas!Spread(Kept, buffered) = <<>>
            => Lemmas!Spread(Kept, trace \o Append(trace_channel, e) \o buffered)
                 = Append(Lemmas!Spread(Kept, trace \o trace_channel \o buffered), e)
  <2>1. Lemmas!SpreadsMore(Kept, Events, e, e)
    BY <1>1, <1>2, Lemmas!SpreadMore
  <2>2. Lemmas!Spread(Kept, trace \o trace_channel \o Append(buffered, e))
          = Append(Lemmas!Spread(Kept, trace \o trace_channel \o buffered), e)
    BY <2>1, ZenonT(60) DEF Lemmas!SpreadsMore
  <2>3. Lemmas!Spread(Kept, buffered) = <<>>
          => Lemmas!Spread(Kept, trace \o Append(trace_channel, e) \o buffered)
               = Append(Lemmas!Spread(Kept, trace \o trace_channel \o buffered), e)
    BY <2>1, ZenonT(60) DEF Lemmas!SpreadsMore
  <2> QED
    BY <2>2, <2>3, Zenon
<1> DEFINE v == Append(buffered, e)
           w == Append(trace_channel, e)
<1>4. v \in Seq(Events) /\ w \in Seq(Events)
    BY <1>1, AppendProperties
<1> HIDE DEF v, w
<1>5. /\ trace \o trace_channel \o v \in Seq(Events)
      /\ trace \o trace_channel \o buffered \in Seq(Events)
      /\ trace \o w \o buffered \in Seq(Events)
    BY <1>4, QueuedType
<1> QED
    BY <1>3, <1>4, <1>5, ClientsSpread DEF v, w

\* An eviction at the end of what is buffered is no client's.
LEMMA NoneMoreQueued ==
    ASSUME trace \in Seq(Events), trace_channel \in Seq(Events), buffered \in Seq(Events),
           NEW k \in HashedKeys
    PROVE  /\ Append(buffered, Eviction(k)) \in Seq(Events)
           /\ Clients(Append(buffered, Eviction(k))) = Clients(buffered)
           /\ Clients(trace \o trace_channel \o Append(buffered, Eviction(k)))
                = Clients(trace \o trace_channel \o buffered)
<1> DEFINE e == Eviction(k)
           v == Append(buffered, e)
<1>1. e \in Events /\ Kept[e] = <<>>
    BY EventFacts DEF Alone, Kept
<1> HIDE DEF e
<1>2. Lemmas!Spreads(Kept, Events, CallEvents)
    BY ClientsSpread
<1>3. /\ Lemmas!Spread(Kept, v) = Lemmas!Spread(Kept, buffered)
      /\ Lemmas!Spread(Kept, trace \o trace_channel \o v)
            = Lemmas!Spread(Kept, trace \o trace_channel \o buffered)
    BY <1>1, <1>2, Lemmas!SpreadNoMore
<1>4. v \in Seq(Events)
    BY <1>1, AppendProperties
<1> HIDE DEF v
<1>5. /\ trace \o trace_channel \o v \in Seq(Events)
      /\ trace \o trace_channel \o buffered \in Seq(Events)
    BY <1>4, QueuedType
<1> QED
    BY <1>3, <1>4, <1>5, ClientsSpread DEF v, e

\* A client's event that is the first on its way comes before all that is queued after it.
LEMMA FirstKept ==
    ASSUME trace \in Seq(Events), trace_channel \in Seq(Events), buffered \in Seq(Events),
           trace_channel # <<>>, Head(trace_channel) \in CallEvents,
           Kept[Head(trace_channel)] = <<Head(trace_channel)>>
    PROVE  Lemmas!Spread(Kept, trace \o trace_channel \o buffered)
               = Append(Lemmas!Spread(Kept, trace), Head(trace_channel))
                   \o Lemmas!Spread(Kept, <<>> \o Tail(trace_channel) \o buffered)
<1>1. Lemmas!SpreadsFirst(Kept, Events, CallEvents)
    BY ClientsSpread, Lemmas!SpreadFirst
<1> DEFINE First(s, t, u, d) ==
        t # <<>> /\ Kept[Head(t)] = <<d>> =>
            Lemmas!Spread(Kept, s \o t \o u)
                = Append(Lemmas!Spread(Kept, s), d) \o Lemmas!Spread(Kept, <<>> \o Tail(t) \o u)
<1>2. \A s, t, u \in Seq(Events) : \A d \in CallEvents : First(s, t, u, d)
    BY <1>1, Zenon DEF Lemmas!SpreadsFirst
<1> HIDE DEF First
<1>3. First(trace, trace_channel, buffered, Head(trace_channel))
    BY <1>2, Zenon
<1> QED
    BY <1>3 DEF First

\* The first event on its way may as well be the last of the trace; and a client's event,
\* with all that is before it, comes before the rest.
LEMMA FirstQueued ==
    ASSUME trace \in Seq(Events), trace_channel \in Seq(Events), buffered \in Seq(Events),
           trace_channel # <<>>
    PROVE  LET e    == Head(trace_channel)
               rest == Tail(trace_channel)
           IN  /\ e \in Events /\ rest \in Seq(Events) /\ Append(trace, e) \in Seq(Events)
               /\ trace \o trace_channel \o buffered = Append(trace, e) \o rest \o buffered
               /\ e \in CallEvents =>
                    Clients(trace \o trace_channel \o buffered)
                        = Append(Clients(trace), e) \o Clients(<<>> \o rest \o buffered)
<1> DEFINE e == Head(trace_channel)
           rest == Tail(trace_channel)
<1>1. /\ e \in Events /\ rest \in Seq(Events) /\ Append(trace, e) \in Seq(Events)
      /\ trace \o trace_channel \o buffered = Append(trace, e) \o rest \o buffered
    BY Lemmas!FirstMoves
<1>2. ASSUME e \in CallEvents
      PROVE  Clients(trace \o trace_channel \o buffered)
                 = Append(Clients(trace), e) \o Clients(<<>> \o rest \o buffered)
  <2>1. Kept[e] = <<e>>
    BY <1>1, <1>2, EventFacts DEF Alone, Kept
  <2>2. Lemmas!Spread(Kept, trace \o trace_channel \o buffered)
            = Append(Lemmas!Spread(Kept, trace), e)
                \o Lemmas!Spread(Kept, <<>> \o Tail(trace_channel) \o buffered)
    BY <1>2, <2>1, FirstKept
  <2>3. /\ <<>> \o rest \o buffered \in Seq(Events)
        /\ trace \o trace_channel \o buffered \in Seq(Events)
    <3>1. <<>> \in Seq(Events)
        OBVIOUS
    <3> HIDE DEF rest
    <3> QED
        BY <1>1, <3>1, QueuedType
  <2>4. Clients(trace) = Lemmas!Spread(Kept, trace)
    BY ClientsSpread
  <2> QED
    BY <2>2, <2>3, <2>4, ClientsSpread
<1> HIDE DEF e, rest
<1> QED
    BY <1>1, <1>2 DEF e, rest

\* One more event is handled and waits at the end of what is queued.
LEMMA OneMoreHandled ==
    ASSUME NEW past, NEW all, NEW q \in Seq(Events), NEW r \in Seq(Events), WasTraced(past, all, q),
           NEW e \in CallEvents, Clients(r) = Append(Clients(q), e)
    PROVE  WasTraced(past, Append(all, e), r)
<1>1. Clients(q) \in Seq(CallEvents)
    BY ClientsType
<1>2. Append(past \o Clients(q), e) = past \o Append(Clients(q), e)
  <2> DEFINE c == Clients(q)
  <2>1. c \in Seq(CallEvents) /\ past \in Seq(CallEvents)
    BY <1>1 DEF WasTraced
  <2> HIDE DEF c
  <2>2. Append(past \o c, e) = past \o Append(c, e)
    <3>1. /\ Append(past \o c, e) = (past \o c) \o <<e>> /\ Append(c, e) = c \o <<e>>
          /\ <<e>> \in Seq(CallEvents)
        BY <2>1, AppendIsConcat, ConcatProperties
    <3>2. (past \o c) \o <<e>> = past \o (c \o <<e>>)
        BY <2>1, <3>1, Lemmas!ConcatOfThree, SMTT(30)
    <3> QED
        BY <3>1, <3>2
  <2> QED
    BY <2>2 DEF c
<1> QED
    BY <1>2 DEF WasTraced

\* At first the size the cache was made with is on its way to the trace.
LEMMA TracedInit == Init => TracedInv
<1> SUFFICES ASSUME Init PROVE TracedInv
    OBVIOUS
<1> DEFINE e == Event("Resize", max_size)
<1>1. e \in CallEvents /\ ~e.evicted
    BY CallsAreEvents DEF Init
<1>2. e \in Events
    BY <1>1 DEF Events
<1>3. /\ trace = <<>> /\ trace_channel = <<e>> /\ buffered = <<>> /\ handled = <<e>>
      /\ call.at = "idle" /\ listener = <<>> /\ batch = <<>>
    BY DEF Init, Idle
<1> HIDE DEF e
<1>4. <<>> \in Seq(Events) /\ <<>> \in Seq(CallEvents) /\ <<e>> \in Seq(Events)
    BY <1>2
<1>5. Queued = Append(<<>>, e)
    BY <1>3, <1>4 DEF Queued
<1>6. Clients(Queued) = <<>> \o <<e>>
  <2>1. Lemmas!SpreadsLast(Kept, Events)
    BY ClientsSpread, Lemmas!SpreadAppend
  <2>2. Lemmas!Spread(Kept, Append(<<>>, e)) = Lemmas!Spread(Kept, <<>>) \o Kept[e]
    BY <1>2, <1>4, <2>1, Zenon DEF Lemmas!SpreadsLast
  <2>3. Kept[e] = <<e>> /\ Append(<<>>, e) \in Seq(Events)
    BY <1>1, <1>2, <1>4 DEF Kept, Alone
  <2> QED
    BY <1>5, <2>2, <2>3, ClientsSpread, Lemmas!SpreadEmpty
<1>7. WasTraced(<<>>, handled, Queued)
    BY <1>1, <1>3, <1>4, <1>6 DEF WasTraced
<1> QED
    BY <1>3, <1>4, <1>7, ClientsEmpty DEF TracedInv

\* The invariant holds on if nothing changes that it is about.
LEMMA TracedQuiet ==
    ASSUME TracedInv, TracedSame, mini_index' = NoPolicy => mini_index = NoPolicy,
           call'.at # "idle" => call'.event \in CallEvents,
           listener' \in Seq(CallEvents), batch' \in Seq(CallEvents)
    PROVE  TracedInv'
<1>1. Queued' = Queued /\ Clients(buffered)' = Clients(buffered)
    BY DEF TracedSame, Queued, Clients
<1>2. PICK past : WasTraced(past, handled, Queued)
    BY DEF TracedInv
<1>3. \A q : q = Queued => WasTraced(past, handled', q)
    BY <1>2 DEF TracedSame
<1>4. WasTraced(past, handled', Queued')
    BY <1>1, <1>3
<1> QED
    BY <1>1, <1>4 DEF TracedInv, TracedSame, WasTraced, Clients

\* A call changes nothing the worker has handled.
LEMMA CallsBegin ==
    ASSUME TracedInv, NEW at, NEW e \in CallEvents, Begin(at, e)
    PROVE  TracedInv'
  BY TracedQuiet DEF Begin, TracedInv, TracedSame, loopVars, stackVars, traceVars, history

\* A switch never sends a mini stack away.
LEMMA SwitchKeepsMini ==
    ASSUME NEW p, Switch(p), mini_index' = NoPolicy
    PROVE  mini_index = NoPolicy
  BY DEF Switch, Switched, stackVars

\* An eviction is no client's event.
LEMMA EvictionsWait ==
    ASSUME TracedInv, NEW k, k \in stored => k \in HashedKeys, Erased(k)
    PROVE  TracedInv'
<1>1. /\ UNCHANGED <<call, listener, batch, mini_index, trace, trace_channel, handled>>
      /\ buffered' = buffered \/ (k \in stored /\ buffered' = Append(buffered, Eviction(k)))
    BY DEF Erased, clientVars, loopVars
<1>2. CASE buffered' = buffered
    BY <1>1, <1>2, TracedQuiet DEF TracedSame, TracedInv
<1>3. CASE k \in stored /\ buffered' = Append(buffered, Eviction(k))
  <2> DEFINE e == Eviction(k)
  <2>1. e \in Events /\ Alone(e) = <<>>
    BY <1>3, EventFacts DEF Alone
  <2> HIDE DEF e
  <2>2. /\ buffered \in Seq(Events) /\ trace \in Seq(Events) /\ trace_channel \in Seq(Events)
        /\ buffered' = Append(buffered, e)
    BY <1>3 DEF TracedInv, e
  <2>3. buffered' \in Seq(Events)
    BY <2>2, NoneMoreQueued, <1>3 DEF e
  <2>5. Clients(Append(buffered, e)) = Clients(buffered)
    BY <1>3, <2>2, NoneMoreQueued DEF e
  <2>6. Clients(trace \o trace_channel \o Append(buffered, e))
            = Clients(trace \o trace_channel \o buffered)
    BY <1>3, <2>2, NoneMoreQueued DEF e
  <2>7. PICK past : WasTraced(past, handled, Queued)
    BY DEF TracedInv
  <2>8. WasTraced(past, handled, trace \o trace_channel \o Append(buffered, e))
    BY <2>6, <2>7 DEF WasTraced, Queued
  <2>9. \E p : WasTraced(p, handled, Queued)'
    BY <1>1, <2>2, <2>8 DEF WasTraced, Queued, Clients
  <2>10. (mini_index = NoPolicy => Clients(buffered) = <<>>)'
    BY <1>1, <2>2, <2>5 DEF TracedInv, Clients
  <2> QED
    BY <1>1, <2>2, <2>3, <2>9, <2>10 DEF TracedInv
<1> QED
    BY <1>1, <1>2, <1>3

\* A stack event goes to the trace worker, or waits for it.
LEMMA PassedOn ==
    ASSUME TracedInv, NEW e \in CallEvents,
           handled' = Append(handled, e), UNCHANGED <<trace, mini_index>>,
           \/ /\ mini_index = NoPolicy
              /\ trace_channel' = Append(trace_channel, e) /\ UNCHANGED buffered
           \/ /\ mini_index # NoPolicy
              /\ buffered' = Append(buffered, e) /\ UNCHANGED trace_channel,
           call'.at # "idle" => call'.event \in CallEvents,
           listener' \in Seq(CallEvents), batch' \in Seq(CallEvents)
    PROVE  TracedInv'
<1>1. /\ trace \in Seq(Events) /\ trace_channel \in Seq(Events) /\ buffered \in Seq(Events)
      /\ mini_index = NoPolicy => Clients(buffered) = <<>>
    BY DEF TracedInv
<1>2. PICK past : WasTraced(past, handled, Queued)
    BY DEF TracedInv
<1>4. /\ Clients(trace \o trace_channel \o Append(buffered, e))
            = Append(Clients(trace \o trace_channel \o buffered), e)
      /\ Clients(buffered) = <<>>
            => Clients(trace \o Append(trace_channel, e) \o buffered)
                 = Append(Clients(trace \o trace_channel \o buffered), e)
    BY <1>1, OneMoreQueued
<1>5. Queued \in Seq(Events)
    BY <1>1, QueuedType DEF Queued
<1>6. ASSUME NEW c \in Seq(Events), NEW b \in Seq(Events), trace_channel' = c, buffered' = b,
             Clients(trace \o c \o b) = Append(Clients(Queued), e),
             mini_index = NoPolicy => Clients(b) = <<>>
      PROVE  TracedInv'
  <2>1. trace \o c \o b \in Seq(Events)
    BY <1>1, <1>6, QueuedType
  <2>2. WasTraced(past, Append(handled, e), trace \o c \o b)
    BY <1>2, <1>5, <1>6, <2>1, OneMoreHandled
  <2>3. \E p : WasTraced(p, handled, Queued)'
    BY <1>6, <2>2 DEF WasTraced, Queued, Clients
  <2>4. (mini_index = NoPolicy => Clients(buffered) = <<>>)'
    BY <1>6 DEF Clients
  <2> QED
    BY <1>1, <1>6, <2>3, <2>4 DEF TracedInv
<1>7. CASE /\ mini_index = NoPolicy
           /\ trace_channel' = Append(trace_channel, e) /\ UNCHANGED buffered
  <2> DEFINE c == Append(trace_channel, e)
  <2>1. c \in Seq(Events)
    BY <1>1, OneMoreQueued
  <2>2. Clients(trace \o c \o buffered) = Append(Clients(Queued), e)
    BY <1>1, <1>4, <1>7 DEF Queued
  <2> HIDE DEF c
  <2> QED
    BY <1>1, <1>6, <1>7, <2>1, <2>2 DEF c
<1>8. CASE /\ mini_index # NoPolicy
           /\ buffered' = Append(buffered, e) /\ UNCHANGED trace_channel
  <2> DEFINE b == Append(buffered, e)
  <2>1. b \in Seq(Events)
    BY <1>1, OneMoreQueued
  <2>2. Clients(trace \o trace_channel \o b) = Append(Clients(Queued), e)
    BY <1>4 DEF Queued
  <2> HIDE DEF b
  <2> QED
    BY <1>1, <1>6, <1>8, <2>1, <2>2 DEF b
<1> QED
    BY <1>7, <1>8

\* What is buffered is sent, and nothing is sent while a mini stack evicts.
LEMMA FlushKeepsTraced ==
    ASSUME TracedInv, Flush, UNCHANGED <<trace, handled, call, listener, batch>>,
           mini_index' # NoPolicy => UNCHANGED mini_index
    PROVE  TracedInv'
<1>1. CASE mini_index' # NoPolicy
    BY <1>1, TracedQuiet DEF Flush, TracedSame, TracedInv
<1>2. CASE mini_index' = NoPolicy
  <2> DEFINE c == trace_channel \o buffered
  <2>1. /\ trace \in Seq(Events) /\ trace_channel \in Seq(Events) /\ buffered \in Seq(Events)
        /\ trace_channel' = c /\ buffered' = <<>>
    BY <1>2 DEF Flush, TracedInv
  <2>2. c \in Seq(Events) /\ <<>> \in Seq(Events)
    BY <2>1, ConcatProperties
  <2>3. trace \o c \o <<>> = Queued
    <3>1. trace \o c \in Seq(Events)
        BY <2>1, <2>2, ConcatProperties
    <3>2. (trace \o c) \o <<>> = trace \o c
        BY <3>1, ConcatEmptySeq
    <3>3. trace \o c = Queued
        BY <2>1, Lemmas!ConcatOfThree, SMTT(30) DEF Queued
    <3> QED
        BY <3>2, <3>3
  <2>4. PICK past : WasTraced(past, handled, Queued)
    BY DEF TracedInv
  <2> HIDE DEF c
  <2>5. Queued' = Queued
    BY <2>1, <2>3 DEF Queued
  <2>6. \E p : WasTraced(p, handled, Queued)'
    BY <2>4, <2>5 DEF WasTraced, Clients
  <2>7. (Clients(buffered) = <<>>)'
    BY <2>1, ClientsEmpty DEF Clients
  <2> QED
    BY <2>1, <2>2, <2>6, <2>7 DEF TracedInv
<1> QED
    BY <1>1, <1>2

\* The trace worker takes the next event: it comes after what is written, and a wipe
\* takes all that before with it.
LEMMA WriteKeepsTraced ==
    ASSUME TracedInv, Write
    PROVE  TracedInv'
<1> DEFINE e == Head(trace_channel)
           rest == Tail(trace_channel)
<1>1. /\ trace \in Seq(Events) /\ trace_channel \in Seq(Events) /\ buffered \in Seq(Events)
      /\ trace_channel # <<>> /\ trace_channel' = rest
      /\ trace' = IF e.kind = "Wipe" THEN <<>> ELSE Append(trace, e)
      /\ UNCHANGED <<buffered, handled, mini_index, call, listener, batch>>
    BY DEF Write, TracedInv, clientVars, loopVars, stackVars, history
<1>2. /\ e \in Events /\ rest \in Seq(Events) /\ Append(trace, e) \in Seq(Events)
      /\ Queued = Append(trace, e) \o rest \o buffered
      /\ e \in CallEvents =>
             Clients(Queued) = Append(Clients(trace), e) \o Clients(<<>> \o rest \o buffered)
    BY <1>1, FirstQueued DEF Queued
<1>3. PICK past : WasTraced(past, handled, Queued)
    BY DEF TracedInv
<1> HIDE DEF e, rest
<1>4. ASSUME NEW past_1, NEW t \in Seq(Events), trace' = t,
             WasTraced(past_1, handled, t \o rest \o buffered)
      PROVE  TracedInv'
  <2>1. \E p : WasTraced(p, handled, Queued)'
    BY <1>1, <1>4 DEF WasTraced, Queued, Clients
  <2> QED
    BY <1>1, <1>2, <1>4, <2>1 DEF TracedInv, Clients
<1>5. CASE e.kind # "Wipe"
  <2>1. trace' = Append(trace, e)
    BY <1>1, <1>5
  <2>2. WasTraced(past, handled, Append(trace, e) \o rest \o buffered)
    BY <1>2, <1>3
  <2> QED
    BY <1>2, <1>4, <2>1, <2>2
<1>6. CASE e.kind = "Wipe"
  <2>1. e \in CallEvents
    BY <1>2, <1>6, EventFacts
  <2>2. Clients(Queued) = Append(Clients(trace), e) \o Clients(<<>> \o rest \o buffered)
    BY <1>2, <2>1
  <2> DEFINE g == Append(Clients(trace), e)
             left == Clients(<<>> \o rest \o buffered)
             before == past \o g
  <2>3. /\ past \in Seq(CallEvents) /\ g \in Seq(CallEvents) /\ left \in Seq(CallEvents)
        /\ handled = past \o (g \o left)
        /\ g[Len(g)] = e /\ Len(g) \in Nat \ {0}
    <3>1. <<>> \in Seq(Events)
        OBVIOUS
    <3>2. left \in Seq(CallEvents)
        BY <1>1, <1>2, <3>1, QueuedType, ClientsType
    <3>3. Clients(trace) \in Seq(CallEvents)
        BY <1>1, ClientsType
    <3>4. g \in Seq(CallEvents) /\ g[Len(g)] = e /\ Len(g) \in Nat \ {0}
        BY <2>1, <3>3, AppendProperties
    <3> HIDE DEF g, left
    <3>5. handled = past \o Clients(Queued) /\ past \in Seq(CallEvents)
        BY <1>3 DEF WasTraced
    <3>6. Clients(Queued) = g \o left
        BY <2>2 DEF g, left
    <3> QED
        BY <3>2, <3>4, <3>5, <3>6
  <2> HIDE DEF g, left
  <2>4. handled = before \o left /\ before \in Seq(CallEvents)
    BY <2>3, Lemmas!ConcatOfThree, ConcatProperties, SMTT(30)
  <2>5. before[Len(before)] = e
    BY <2>3, ConcatProperties
  <2> HIDE DEF before
  <2>6. WasTraced(before, handled, <<>> \o rest \o buffered)
    BY <1>6, <2>4, <2>5 DEF WasTraced, left
  <2>7. trace' = <<>> /\ <<>> \in Seq(Events)
    BY <1>1, <1>6
  <2> QED
    BY <1>4, <2>6, <2>7
<1> QED
    BY <1>5, <1>6

\* Each step keeps what is queued in step with what was handled.
LEMMA TracedStep == ConfiguredInv /\ SwitchInv /\ TracedInv /\ [Next]_vars => TracedInv'
<1> SUFFICES ASSUME ConfiguredInv, SwitchInv, TracedInv, [Next]_vars PROVE TracedInv'
    OBVIOUS
<1> USE DEF Goto
<1>0. /\ call.at # "idle" => call.event \in CallEvents
      /\ listener \in Seq(CallEvents) /\ batch \in Seq(CallEvents)
    BY DEF TracedInv
<1>q. ASSUME UNCHANGED <<call, listener, batch, trace, trace_channel, buffered, handled>>,
             mini_index' = NoPolicy => mini_index = NoPolicy
      PROVE  TracedInv'
    BY <1>0, <1>q, TracedQuiet DEF TracedSame
<1>1. ASSUME NEW k \in HashedKeys, Get(k) \/ Set(k) \/ Del(k) PROVE TracedInv'
  <2>1. PICK kind \in {"Get", "Miss", "Set", "Del"} : Begin("send", Event(kind, k))
    BY <1>1 DEF Get, Set, Del
  <2>2. Event(kind, k) \in CallEvents
    BY <2>1, CallsAreEvents DEF KeyKinds
  <2> QED
    BY <2>1, <2>2, CallsBegin
<1>2. ASSUME Wipe PROVE TracedInv'
  <2>1. Event("Wipe", NoKey) \in CallEvents
    BY CallsAreEvents
  <2> QED
    BY <1>2, <2>1, CallsBegin DEF Wipe
<1>3. ASSUME SetAuto PROVE TracedInv'
  <2>1. Event("Policy", NoPolicy) \in CallEvents
    BY CallsAreEvents
  <2> QED
    BY <1>3, <2>1, CallsBegin DEF SetAuto
<1>4. ASSUME NEW size \in CacheSizes, SetMaxSize(size) PROVE TracedInv'
  <2>1. Event("Resize", size) \in CallEvents
    BY CallsAreEvents
  <2> QED
    BY <1>4, <2>1, CallsBegin DEF SetMaxSize
<1>5. ASSUME NEW p \in Configured, SetPolicy(p) PROVE TracedInv'
  <2>1. Event("Policy", p) \in CallEvents
    BY CallsAreEvents
  <2> QED
    BY <1>5, <2>1, CallsBegin DEF SetPolicy
<1>6. ASSUME UnsetAuto PROVE TracedInv'
  <2>1. call'.event \in CallEvents
    BY <1>0, <1>6 DEF UnsetAuto
  <2>2. /\ TracedSame /\ UNCHANGED <<mini_index, listener, batch>>
    BY <1>6 DEF UnsetAuto, TracedSame, loopVars, stackVars, traceVars, history
  <2> QED
    BY <1>0, <2>1, <2>2, TracedQuiet
<1>7. ASSUME Broadcast PROVE TracedInv'
  <2>1. listener' \in Seq(CallEvents) /\ call'.at = "idle"
    BY <1>0, <1>7 DEF Broadcast, Idle
  <2>2. /\ TracedSame /\ UNCHANGED <<mini_index, batch>>
    BY <1>7 DEF Broadcast, TracedSame, loopVars, stackVars, traceVars, history
  <2> QED
    BY <1>0, <2>1, <2>2, TracedQuiet
<1>8. ASSUME NEW k \in HashedKeys, Reap(k) PROVE TracedInv'
    BY <1>8, <1>q DEF Reap, clientVars, loopVars, stackVars, traceVars, history
<1>9. ASSUME Collect PROVE TracedInv'
  <2>1. listener' \in Seq(CallEvents) /\ batch' \in Seq(CallEvents)
    BY <1>0, <1>9 DEF Collect
  <2>2. TracedSame /\ UNCHANGED <<mini_index, call>>
    BY <1>9 DEF Collect, TracedSame, clientVars, stackVars, traceVars, history
  <2> QED
    BY <1>0, <2>1, <2>2, TracedQuiet
<1>10. ASSUME Handle PROVE TracedInv'
  <2> DEFINE e == Head(batch)
  <2>1. batch # <<>>
    BY <1>10 DEF Handle, ConfiguredInv
  <2>2. e \in CallEvents /\ batch' \in Seq(CallEvents)
    BY <1>0, <1>10, <2>1 DEF Handle
  <2>3. Pass(e) /\ UNCHANGED <<call, listener, trace>>
    BY <1>10 DEF Handle, clientVars
  <2>4. CASE e.kind = "Policy"
    <3>1. Switch(e.arg)
        BY <1>10, <2>4 DEF Handle
    <3>2. TracedSame
        BY <2>3, <2>4 DEF Pass, IsStackEvent, TracedSame
    <3> QED
        BY <1>0, <2>2, <2>3, <3>1, <3>2, SwitchKeepsMini, TracedQuiet
  <2>5. CASE e.kind # "Policy"
    <3>1. /\ policy_stack' = IF IsSome(policy_stack) THEN Told(policy_stack, e) ELSE NoStack
          /\ UNCHANGED mini_index
        BY <1>10, <2>5 DEF Handle
    <3>2. IsSome(policy_stack') <=> mini_index = NoPolicy
        BY <3>1 DEF SwitchInv, SomeoneEvicts, IsSome, Told, NoStack
    <3>3. CASE ~IsStackEvent(e)
        <4>1. TracedSame
            BY <2>3, <3>3 DEF Pass, TracedSame
        <4> QED
            BY <1>0, <2>2, <2>3, <3>1, <4>1, TracedQuiet
    <3>4. CASE IsStackEvent(e)
        <4>1. /\ handled' = Append(handled, e)
              /\ \/ /\ mini_index = NoPolicy
                    /\ trace_channel' = Append(trace_channel, e) /\ UNCHANGED buffered
                 \/ /\ mini_index # NoPolicy
                    /\ buffered' = Append(buffered, e) /\ UNCHANGED trace_channel
            BY <2>3, <3>2, <3>4 DEF Pass
        <4> HIDE DEF e
        <4> QED
            BY <1>0, <2>2, <2>3, <3>1, <4>1, PassedOn
    <3> QED
        BY <3>3, <3>4
  <2> QED
    BY <2>4, <2>5
<1>11. ASSUME Apply PROVE TracedInv'
  <2>1. /\ Install /\ Flush
        /\ UNCHANGED <<trace, handled, call, listener, batch>>
    BY <1>11 DEF Apply, clientVars, history
  <2>2. mini_index' # NoPolicy => UNCHANGED mini_index
    BY <2>1 DEF Install
  <2> QED
    BY <2>1, <2>2, FlushKeepsTraced
<1>12. ASSUME Evict PROVE TracedInv'
  <2>1. stored \subseteq HashedKeys
    BY DEF ConfiguredInv, SwitchTypeOK
  <2>2. IsSome(policy_stack)
    BY <1>12 DEF Evict, SwitchInv, SomeoneEvicts
  <2>3. \E k : Erased(k)
    BY <1>12, <2>2 DEF Evict
  <2> QED
    BY <2>1, <2>3, EvictionsWait
<1>13. ASSUME EvictMini PROVE TracedInv'
  <2>1. stored \subseteq HashedKeys
    BY DEF ConfiguredInv, SwitchTypeOK
  <2>2. \/ \E k : Erased(k)
        \/ UNCHANGED <<clientVars, listener, loopVars, mini_index, traceVars, history>>
    BY <1>13 DEF EvictMini
  <2>3. CASE \E k : Erased(k)
    BY <2>1, <2>3, EvictionsWait
  <2>4. CASE UNCHANGED <<clientVars, listener, loopVars, mini_index, traceVars, history>>
    BY <1>q, <2>4 DEF clientVars, loopVars, traceVars, history
  <2> QED
    BY <2>2, <2>3, <2>4
<1>14. ASSUME EvictedEnough PROVE TracedInv'
    BY <1>14, <1>q DEF EvictedEnough, clientVars, stackVars, traceVars, history
<1>15. ASSUME AutoPolicy PROVE TracedInv'
    BY <1>15, <1>q, SwitchKeepsMini DEF AutoPolicy, clientVars, traceVars
<1>16. ASSUME Write PROVE TracedInv'
    BY <1>16, WriteKeepsTraced
<1>17. ASSUME NEW i \in DOMAIN threads, Reconstruct(i) PROVE TracedInv'
  <2>1. UNCHANGED <<call, listener, batch, trace, trace_channel, buffered, handled, mini_index>>
    BY <1>17 DEF Reconstruct, ReadTrace, FailToRead, CheckPolicy, SendStack, ThreadAt,
                 clientVars, loopVars, traceVars, history
  <2> QED
    BY <1>q, <2>1
<1>18. ASSUME UNCHANGED vars PROVE TracedInv'
    BY <1>18, <1>q DEF vars, clientVars, loopVars, stackVars, traceVars, history
<1> QED
    BY <1>1, <1>2, <1>3, <1>4, <1>5, <1>6, <1>7, <1>8, <1>9, <1>10, <1>11, <1>12, <1>13, <1>14,
       <1>15, <1>16, <1>17, <1>18
    DEF Next, ClientStep, WorkerStep

\* The trace, what is on its way to it and what is buffered are, evictions aside, the
\* end of what the worker has handled, from the wipe on that was traced last: whatever
\* switches overlap, no event is lost, repeated or overtaken
\* (policy/mod.rs run, flush_buffered_events; trace/mod.rs).
THEOREM TraceStaysInOrder == Spec => []TracedInOrder
<1>1. Init => ConfiguredInv /\ SwitchInv /\ TracedInv
    BY ConfiguredInit, SwitchInvInit, TracedInit
<1>2. ConfiguredInv /\ SwitchInv /\ TracedInv /\ [Next]_vars
          => (ConfiguredInv /\ SwitchInv /\ TracedInv)'
    BY ConfiguredStep, SwitchInvStep, TracedStep
<1>3. TracedInv => TracedInOrder
  <2> SUFFICES ASSUME TracedInv PROVE TracedInOrder
    OBVIOUS
  <2>1. PICK past : WasTraced(past, handled, Queued)
    BY DEF TracedInv
  <2> DEFINE traced == Clients(Queued)
  <2>2. traced \in Seq(CallEvents)
    BY QueuedType, ClientsType DEF TracedInv, Queued
  <2>3. past \in Seq(CallEvents) /\ handled = past \o traced
    BY <2>1 DEF WasTraced
  <2> HIDE DEF traced
  <2>4. /\ Lemmas!IsSuffix(traced, handled) /\ Len(handled) - Len(traced) = Len(past)
        /\ Len(past) # 0 => handled[Len(past)] = past[Len(past)]
        /\ Len(past) = 0 => past = <<>>
    BY <2>2, <2>3, Lemmas!EndIsSuffix
  <2>5. Len(past) = 0 \/ handled[Len(past)].kind = "Wipe"
    BY <2>1, <2>4 DEF WasTraced
  <2>6. Seqs!IsSuffix(traced, handled)
    BY <2>4 DEF Seqs!IsSuffix, Seqs!IsPrefix, Seqs!Reverse,
                Lemmas!IsSuffix, Lemmas!IsPrefix, Lemmas!Reverse
  <2> QED
    BY <2>4, <2>5, <2>6 DEF TracedInOrder, traced, Queued
<1> QED
    BY <1>1, <1>2, <1>3, PTL DEF Spec

-----------------------------------------------------------------------------
(***************************************************************************)
(* Stacks and what they were told                                          *)
(***************************************************************************)

Known(made) == KeysIn(made.policy, made.stack)

SoundStack(made) ==
    /\ made.policy \in Configured
    /\ Sane(made.policy, made.stack, HashedKeys, CacheSizes)

Adds(e, k) == e.kind = "Set" /\ e.arg = k
Drops(e, k) == e.kind = "Wipe" \/ (e.kind = "Del" /\ e.arg = k)

LEMMA SwitchFits ==
    /\ Fits(HashedKeys, CacheSizes) /\ Configured \subseteq Policies /\ NoPolicy \notin Configured
    /\ NoKey \notin HashedKeys
  BY SwitchAssumption DEF Fits

LEMMA EventArgs ==
    ASSUME NEW e \in Events
    PROVE  /\ e.kind \in KeyKinds => e.arg \in HashedKeys
           /\ e.kind = "Resize" => e.arg \in CacheSizes
<1>1. ASSUME NEW kind, NEW arg, e = Event(kind, arg) PROVE e.kind = kind /\ e.arg = arg
    BY <1>1 DEF Event
<1>2. CASE \E kind \in KeyKinds, k \in HashedKeys : e = Event(kind, k)
    BY <1>1, <1>2 DEF KeyKinds
<1>3. CASE \E size \in CacheSizes : e = Event("Resize", size)
  <2>1. PICK size \in CacheSizes : e = Event("Resize", size)
    BY <1>3
  <2>2. e.kind = "Resize" /\ e.arg = size
    BY <1>1, <2>1
  <2> QED
    BY <2>2 DEF KeyKinds
<1>4. CASE \E kind \in {"Policy", "Wipe"} : \E arg : e = Event(kind, arg)
  <2>1. e.kind \in {"Policy", "Wipe"}
    BY <1>1, <1>4
  <2> QED
    BY <2>1 DEF KeyKinds
<1>5. CASE \E k \in HashedKeys : e = Eviction(k)
  <2>1. e.kind = "Del" /\ e.arg \in HashedKeys
    BY <1>5 DEF Eviction
  <2> QED
    BY <2>1
<1> QED
    BY <1>2, <1>3, <1>4, <1>5 DEF Events, CallEvents

\* A stack told of an event has the key that was set, and loses none but those the
\* event drops.
LEMMA AfterKeeps ==
    ASSUME NEW p \in Configured, NEW st, Sane(p, st, HashedKeys, CacheSizes), NEW e \in Events
    PROVE  /\ Sane(p, After(p, st, e), HashedKeys, CacheSizes)
           /\ \A k : \/ k \in KeysIn(p, st) /\ ~Drops(e, k)
                     \/ Adds(e, k)
                     => k \in KeysIn(p, After(p, st, e))
<1> DEFINE a == e.arg
           one == 1
           S == HashedKeys
           C == CacheSizes
<1>1. p \in Policies /\ Fits(S, C) /\ Sane(p, st, S, C) /\ one \in Nat
    BY SwitchFits
<1>2. /\ e.kind \in KeyKinds => a \in S
      /\ e.kind = "Resize" => a \in C
    BY EventArgs
<1>3. After(p, st, e) =
          CASE e.kind = "Get"    -> Update(p, st, a)
            [] e.kind = "Miss"   -> Update(p, st, a)
            [] e.kind = "Set"    -> Insert(p, st, a, one)
            [] e.kind = "Del"    -> Remove(p, st, a)
            [] e.kind = "Wipe"   -> Clear(p, st)
            [] e.kind = "Resize" -> Resize(p, st, a)
            [] OTHER             -> st
    BY DEF After
<1> DEFINE b == After(p, st, e)
<1>a. a = e.arg
    OBVIOUS
<1> HIDE DEF a, one, b
<1>4. CASE e.kind \in {"Get", "Miss"}
  <2>1. b = Update(p, st, a)
    BY <1>3, <1>4 DEF b
  <2>2. Then(p, b, KeysIn(p, st), S, C)
    BY <1>1, <1>2, <1>4, <2>1, UpdateIsSane DEF KeyKinds
  <2> QED
    BY <1>4, <2>2 DEF Then, Adds, b
<1>5. CASE e.kind = "Set"
  <2>1. b = Insert(p, st, a, one)
    BY <1>3, <1>5 DEF b
  <2>2. Then(p, b, KeysIn(p, st) \cup {a}, S, C)
    BY <1>1, <1>2, <1>5, <2>1, InsertIsSane DEF KeyKinds
  <2> QED
    BY <1>5, <1>a, <2>2 DEF Then, Adds, b
<1>6. CASE e.kind = "Del"
  <2>1. b = Remove(p, st, a)
    BY <1>3, <1>6 DEF b
  <2>2. Then(p, b, KeysIn(p, st) \ {a}, S, C)
    BY <1>1, <1>2, <1>6, <2>1, RemoveIsSane DEF KeyKinds
  <2> QED
    BY <1>6, <1>a, <2>2 DEF Then, Adds, Drops, b
<1>7. CASE e.kind = "Wipe"
  <2>1. b = Clear(p, st)
    BY <1>3, <1>7 DEF b
  <2>2. Then(p, b, {}, S, C)
    BY <1>1, <2>1, ClearIsSane
  <2> QED
    BY <1>7, <2>2 DEF Then, Adds, Drops, b
<1>8. CASE e.kind = "Resize"
  <2>1. b = Resize(p, st, a)
    BY <1>3, <1>8 DEF b
  <2>2. Then(p, b, KeysIn(p, st), S, C)
    BY <1>1, <1>2, <1>8, <2>1, ResizeIsSane
  <2> QED
    BY <1>8, <2>2 DEF Then, Adds, b
<1>9. CASE e.kind \notin {"Get", "Miss", "Set", "Del", "Wipe", "Resize"}
  <2>1. b = st
    BY <1>3, <1>9 DEF b
  <2> QED
    BY <1>1, <1>9, <2>1 DEF Adds, b
<1> QED
    BY <1>4, <1>5, <1>6, <1>7, <1>8, <1>9

\* The first n events set the key, and drop it no more.
SurvivesTo(k, events, n) ==
    \E i \in 1 .. n :
        /\ Adds(events[i], k)
        /\ \A j \in i + 1 .. n : ~Drops(events[j], k)

Survives(k, events) == SurvivesTo(k, events, Len(events))

\* f has the stack after each of the first n events.
Replays(f, p, st, events, n) ==
    f = [i \in 0 .. n |-> IF i = 0 THEN st ELSE After(p, f[i - 1], events[i])]

LEMMA ReplaysAt ==
    ASSUME NEW p, NEW st, NEW events, NEW n, NEW f, Replays(f, p, st, events, n), NEW i \in 0 .. n
    PROVE  f[i] = IF i = 0 THEN st ELSE After(p, f[i - 1], events[i])
<1> DEFINE g == [j \in 0 .. n |-> IF j = 0 THEN st ELSE After(p, f[j - 1], events[j])]
<1>1. f = g
    BY DEF Replays
<1>2. g[i] = IF i = 0 THEN st ELSE After(p, f[i - 1], events[i])
    OBVIOUS
<1> HIDE DEF g
<1> QED
    BY <1>1, <1>2

LEMMA ReplaysExist ==
    ASSUME NEW p, NEW st, NEW events, NEW n \in Nat
    PROVE  \E f : Replays(f, p, st, events, n)
<1> DEFINE T == {k \in Nat : \E f : Replays(f, p, st, events, k)}
<1>1. 0 \in T
  <2> DEFINE f == [i \in 0 .. 0 |-> st]
             g == [i \in 0 .. 0 |-> IF i = 0 THEN st ELSE After(p, f[i - 1], events[i])]
  <2>1. f = g
    OBVIOUS
  <2> HIDE DEF f
  <2>2. Replays(f, p, st, events, 0)
    BY <2>1 DEF Replays
  <2> QED
    BY <2>2
<1>2. ASSUME NEW k \in Nat, k \in T PROVE k + 1 \in T
  <2>1. PICK f : Replays(f, p, st, events, k)
    BY <1>2
  <2>2. f = [i \in 0 .. k |-> IF i = 0 THEN st ELSE After(p, f[i - 1], events[i])]
    BY <2>1 DEF Replays
  <2> DEFINE g == [i \in 0 .. k + 1 |-> IF i \in 0 .. k THEN f[i]
                                        ELSE After(p, f[i - 1], events[i])]
             h == [i \in 0 .. k + 1 |-> IF i = 0 THEN st ELSE After(p, g[i - 1], events[i])]
  <2>3. \A i \in 0 .. k + 1 : g[i] = h[i]
    <3> SUFFICES ASSUME NEW i \in 0 .. k + 1 PROVE g[i] = h[i]
        OBVIOUS
    <3>1. CASE i = 0
        BY <2>2, <3>1
    <3>2. CASE i # 0
      <4>1. i - 1 \in 0 .. k /\ g[i - 1] = f[i - 1]
        BY <3>2
      <4>2. g[i] = After(p, f[i - 1], events[i])
        BY <2>2, <3>2
      <4> QED
        BY <3>2, <4>1, <4>2
    <3> QED
        BY <3>1, <3>2
  <2>4. g = h
    BY <2>3
  <2> HIDE DEF g
  <2>5. Replays(g, p, st, events, k + 1)
    BY <2>4 DEF Replays
  <2> QED
    BY <2>5
<1> QED
    BY <1>1, <1>2, Lemmas!SetInduction

LEMMA AfterAllIs ==
    ASSUME NEW p, NEW st, NEW events, Len(events) \in Nat
    PROVE  \E f : /\ Replays(f, p, st, events, Len(events))
                  /\ AfterAll(p, st, events) = f[Len(events)]
<1> DEFINE len == Len(events)
           f == CHOOSE g : Replays(g, p, st, events, len)
<1>1. Replays(f, p, st, events, len)
    BY ReplaysExist
<1>2. \A g : g = [n \in 0 .. len |-> IF n = 0 THEN st ELSE After(p, g[n - 1], events[n])]
                <=> Replays(g, p, st, events, len)
    BY DEF Replays
<1>3. AfterAll(p, st, events)
          = LET g == CHOOSE g : g = [n \in 0 .. len |->
                         IF n = 0 THEN st ELSE After(p, g[n - 1], events[n])]
            IN  g[len]
    BY DEF AfterAll
<1>4. f = CHOOSE g : g = [n \in 0 .. len |->
                         IF n = 0 THEN st ELSE After(p, g[n - 1], events[n])]
    BY <1>2
<1> HIDE DEF f
<1>5. AfterAll(p, st, events) = f[len]
    BY <1>3, <1>4, Zenon
<1> QED
    BY <1>1, <1>5

\* A stack on which events are replayed has every key that survives them.
LEMMA ReplayKeeps ==
    ASSUME NEW made, SoundStack(made), NEW events \in Seq(Events)
    PROVE  /\ SoundStack(Replay(made, events))
           /\ Replay(made, events).policy = made.policy
           /\ \A k : Survives(k, events) => k \in Known(Replay(made, events))
<1> DEFINE p == made.policy
           st == made.stack
           len == Len(events)
<1>1. len \in Nat /\ \A i \in 1 .. len : events[i] \in Events
    OBVIOUS
<1>2. PICK f : Replays(f, p, st, events, len) /\ AfterAll(p, st, events) = f[len]
    BY <1>1, AfterAllIs
<1>3. p \in Configured /\ Sane(p, st, HashedKeys, CacheSizes)
    BY DEF SoundStack
<1> HIDE DEF p, st, len
<1> DEFINE OK(n) == /\ Sane(p, f[n], HashedKeys, CacheSizes)
                    /\ \A k : SurvivesTo(k, events, n) => k \in KeysIn(p, f[n])
           T == {n \in Nat : n \in 0 .. len => OK(n)}
<1>4. 0 \in T
  <2>1. 0 \in 0 .. len
    BY <1>1
  <2>2. f[0] = st
    BY <1>2, <2>1, ReplaysAt
  <2>3. \A k : ~SurvivesTo(k, events, 0)
    BY DEF SurvivesTo
  <2> QED
    BY <1>3, <2>2, <2>3
<1>5. ASSUME NEW n \in Nat, n \in T PROVE n + 1 \in T
  <2> SUFFICES ASSUME n + 1 \in 0 .. len PROVE OK(n + 1)
    OBVIOUS
  <2> DEFINE e == events[n + 1]
             b == f[n]
  <2>1. n \in 0 .. len /\ OK(n) /\ e \in Events
    BY <1>1, <1>5
  <2>2. f[n + 1] = After(p, b, e)
    <3> DEFINE m == n + 1
    <3>1. m \in 0 .. len /\ m # 0 /\ m - 1 = n
        BY <1>1
    <3> HIDE DEF m
    <3>2. f[m] = After(p, f[m - 1], events[m])
        BY <1>2, <3>1, ReplaysAt
    <3> QED
        BY <3>1, <3>2 DEF m
  <2> HIDE DEF e, b
  <2>3. /\ Sane(p, b, HashedKeys, CacheSizes)
        /\ \A k : SurvivesTo(k, events, n) => k \in KeysIn(p, b)
    BY <2>1 DEF b
  <2>4. /\ Sane(p, After(p, b, e), HashedKeys, CacheSizes)
        /\ \A k : \/ k \in KeysIn(p, b) /\ ~Drops(e, k)
                  \/ Adds(e, k)
                  => k \in KeysIn(p, After(p, b, e))
    BY <1>3, <2>1, <2>3, AfterKeeps
  <2>5. ASSUME NEW k, SurvivesTo(k, events, n + 1)
        PROVE  (SurvivesTo(k, events, n) /\ ~Drops(e, k)) \/ Adds(e, k)
    <3>1. PICK i \in 1 .. n + 1 : /\ Adds(events[i], k)
                                  /\ \A j \in i + 1 .. n + 1 : ~Drops(events[j], k)
        BY <2>5 DEF SurvivesTo
    <3>2. CASE i = n + 1
        BY <3>1, <3>2 DEF e
    <3>3. CASE i # n + 1
      <4>1. i \in 1 .. n /\ n + 1 \in i + 1 .. n + 1
        BY <3>3
      <4>2. \A j \in i + 1 .. n : j \in i + 1 .. n + 1
        BY <4>1
      <4> QED
        BY <3>1, <4>1, <4>2 DEF SurvivesTo, e
    <3> QED
        BY <3>2, <3>3
  <2> QED
    BY <2>2, <2>3, <2>4, <2>5
<1>6. len \in T
    BY <1>1, <1>4, <1>5, Lemmas!SetInduction
<1>7. OK(len)
    BY <1>1, <1>6
<1>8. Replay(made, events).policy = p /\ Replay(made, events).stack = f[len]
    BY <1>2 DEF Replay, p, st
<1> QED
    BY <1>3, <1>7, <1>8 DEF SoundStack, Known, Survives, len, p

\* What waits to be replayed has a key as long as it was set last.
LEMMA SurvivesMore ==
    ASSUME NEW events \in Seq(Events), NEW e \in Events, NEW k,
           (Survives(k, events) /\ ~Drops(e, k)) \/ Adds(e, k)
    PROVE  Survives(k, Append(events, e))
<1> DEFINE n == Len(events)
           more == Append(events, e)
<1>1. /\ n \in Nat /\ Len(more) = n + 1 /\ more[n + 1] = e
      /\ \A i \in 1 .. n : more[i] = events[i]
    OBVIOUS
<1> HIDE DEF n, more
<1>2. CASE Adds(e, k)
  <2>1. n + 1 \in 1 .. n + 1 /\ \A j \in n + 1 + 1 .. n + 1 : FALSE
    BY <1>1
  <2>2. SurvivesTo(k, more, n + 1)
    BY <1>1, <1>2, <2>1 DEF SurvivesTo
  <2> QED
    BY <1>1, <2>2 DEF Survives, more
<1>3. CASE Survives(k, events) /\ ~Drops(e, k)
  <2>1. PICK i \in 1 .. n : /\ Adds(events[i], k)
                            /\ \A j \in i + 1 .. n : ~Drops(events[j], k)
    BY <1>3 DEF Survives, SurvivesTo, n
  <2>2. i \in 1 .. n + 1 /\ Adds(more[i], k)
    BY <1>1, <2>1
  <2>3. ASSUME NEW j \in i + 1 .. n + 1 PROVE ~Drops(more[j], k)
    <3>1. CASE j = n + 1
        BY <1>1, <1>3, <3>1
    <3>2. CASE j # n + 1
      <4>1. j \in 1 .. n /\ j \in i + 1 .. n
        BY <1>1, <3>2
      <4> QED
        BY <1>1, <2>1, <4>1
    <3> QED
        BY <3>1, <3>2
  <2>4. SurvivesTo(k, more, n + 1)
    BY <2>2, <2>3 DEF SurvivesTo
  <2> QED
    BY <1>1, <2>4 DEF Survives, more
<1> QED
    BY <1>2, <1>3

-----------------------------------------------------------------------------
(***************************************************************************)
(* What the stack knows                                                    *)
(***************************************************************************)

\* A reconstruction that may still send a stack.
Live(thread) == thread.at \in {"read", "check", "send"}

\* Every stack there is, is sane.
SoundInv ==
    /\ IsSome(policy_stack) => SoundStack(policy_stack)
    /\ \A i \in DOMAIN threads : Live(threads[i]) => SoundStack(threads[i].made)
    /\ \A i \in DOMAIN reconstructed : SoundStack(reconstructed[i])

\* Until switches overlap there is one stack at a time: to be made, sent or used.
OneAtATime ==
    /\ mini_index = NoPolicy => reconstructed = <<>>
    /\ mini_index = NoPolicy \/ reconstructed # <<>> => \A i \in DOMAIN threads : ~Live(threads[i])
    /\ \A i, j \in DOMAIN threads : Live(threads[i]) /\ Live(threads[j]) => i = j

\* Each key told of is in the stack, or set among the events that it will be told of.
ToldOf(k) ==
    IF mini_index = NoPolicy THEN k \in Known(policy_stack) ELSE Survives(k, buffered)

KnownInv ==
    /\ told \subseteq HashedKeys
    /\ ~overlapped => OneAtATime /\ \A k \in told : ToldOf(k)

AllInv == ConfiguredInv /\ SwitchInv /\ TracedInv /\ SoundInv

LEMMA SoundInit == Init => SoundInv /\ KnownInv
<1> SUFFICES ASSUME Init PROVE SoundInv /\ KnownInv
    OBVIOUS
<1>1. /\ policy_stack = Made(status_policy, max_size) /\ status_policy \in Configured
      /\ max_size \in CacheSizes /\ threads = <<>> /\ reconstructed = <<>> /\ told = {}
    BY DEF Init
<1>2. SoundStack(policy_stack)
  <2>1. Sane(status_policy, New(status_policy, max_size), HashedKeys, CacheSizes)
    BY <1>1, SwitchFits, NewIsSane DEF Then
  <2> QED
    BY <1>1, <2>1 DEF Made, SoundStack
<1>3. DOMAIN threads = {} /\ DOMAIN reconstructed = {}
    BY <1>1
<1> QED
    BY <1>1, <1>2, <1>3 DEF SoundInv, KnownInv, OneAtATime

LEMMA NewIsSound ==
    ASSUME NEW p \in Configured, NEW size \in CacheSizes
    PROVE  SoundStack(Made(p, size))
<1>1. Sane(p, New(p, size), HashedKeys, CacheSizes)
    BY SwitchFits, NewIsSane DEF Then
<1> QED
    BY <1>1 DEF Made, SoundStack

\* A switch starts one reconstruction, with a sane stack.
LEMMA SwitchKeepsSound ==
    ASSUME AllInv, NEW p \in Configured \cup {NoPolicy}, Switch(p), UNCHANGED reconstructed
    PROVE  SoundInv'
<1>1. CASE p = NoPolicy \/ p = current_policy
    BY <1>1 DEF Switch, AllInv, SoundInv, stackVars, IsSome
<1>2. CASE p # NoPolicy /\ p # current_policy
  <2> DEFINE thread == [at |-> "read", made |-> Made(p, max_size)]
  <2>1. policy_stack' = NoStack /\ threads' = Append(threads, thread)
    BY <1>2 DEF Switch, Switched
  <2>2. SoundStack(thread.made)
    BY <1>2, NewIsSound DEF AllInv, ConfiguredInv, SwitchTypeOK
  <2>3. IsSequence(threads)
    BY DEF AllInv, SwitchInv, ThreadsMade
  <2> HIDE DEF thread
  <2>4. /\ DOMAIN threads' = 1 .. Len(threads) + 1 /\ threads'[Len(threads) + 1] = thread
        /\ \A i \in DOMAIN threads : threads'[i] = threads[i]
        /\ DOMAIN threads = 1 .. Len(threads) /\ Len(threads) \in Nat
    BY <2>1, <2>3, AppendToSequence
  <2>5. ASSUME NEW i \in DOMAIN threads', Live(threads'[i]) PROVE SoundStack(threads'[i].made)
    <3>1. CASE i = Len(threads) + 1
        BY <2>2, <2>4, <3>1
    <3>2. CASE i # Len(threads) + 1
      <4>1. i \in DOMAIN threads
        BY <2>4, <3>2
      <4> QED
        BY <2>4, <2>5, <4>1 DEF AllInv, SoundInv
    <3> QED
        BY <3>1, <3>2
  <2>6. ~IsSome(policy_stack')
    BY <2>1 DEF NoStack, IsSome
  <2> QED
    BY <2>5, <2>6 DEF AllInv, SoundInv, IsSome
<1> QED
    BY <1>1, <1>2

\* One reconstruction goes on.
LEMMA ThreadKeepsSound ==
    ASSUME AllInv, NEW i \in DOMAIN threads, NEW thread,
           threads' = [threads EXCEPT ![i] = thread],
           Live(thread) => SoundStack(thread.made),
           UNCHANGED policy_stack, \A j \in DOMAIN reconstructed' : SoundStack(reconstructed'[j])
    PROVE  SoundInv'
<1>1. IsSequence(threads)
    BY DEF AllInv, SwitchInv, ThreadsMade
<1>2. /\ DOMAIN threads' = DOMAIN threads
      /\ \A j \in DOMAIN threads : threads'[j] = IF j = i THEN thread ELSE threads[j]
    BY <1>1, ChangeInSequence
<1>3. \A j \in DOMAIN threads' : Live(threads'[j]) => SoundStack(threads'[j].made)
    BY <1>2 DEF AllInv, SoundInv
<1> QED
    BY <1>3 DEF AllInv, SoundInv, IsSome

LEMMA SoundStep == AllInv /\ [Next]_vars => SoundInv'
<1> SUFFICES ASSUME AllInv, [Next]_vars PROVE SoundInv'
    OBVIOUS
<1> USE DEF Goto
<1>1. ASSUME UNCHANGED <<policy_stack, threads, reconstructed>> PROVE SoundInv'
    BY <1>1 DEF AllInv, SoundInv, IsSome
<1>2. ASSUME UNCHANGED <<stackVars, reconstructed>> PROVE SoundInv'
    BY <1>1, <1>2 DEF stackVars
<1>3. ASSUME NEW k \in HashedKeys, Get(k) \/ Set(k) \/ Del(k) \/ Reap(k) PROVE SoundInv'
    BY <1>2, <1>3 DEF Get, Set, Del, Reap, Begin
<1>4. ASSUME Wipe \/ SetAuto \/ ClientStep \/ Write PROVE SoundInv'
    BY <1>2, <1>4 DEF Wipe, SetAuto, ClientStep, UnsetAuto, Broadcast, Write, Begin
<1>5. ASSUME NEW size \in CacheSizes, SetMaxSize(size) PROVE SoundInv'
    BY <1>2, <1>5 DEF SetMaxSize, Begin
<1>6. ASSUME NEW p \in Configured, SetPolicy(p) PROVE SoundInv'
    BY <1>2, <1>6 DEF SetPolicy, Begin
<1>7. ASSUME Collect \/ EvictedEnough PROVE SoundInv'
    BY <1>2, <1>7 DEF Collect, EvictedEnough
<1>8. ASSUME Handle PROVE SoundInv'
  <2> DEFINE e == Head(batch)
  <2>1. UNCHANGED reconstructed /\ e \in CallEvents
    BY <1>8 DEF Handle, AllInv, TracedInv, ConfiguredInv
  <2>2. CASE e.kind = "Policy"
    <3>1. Switch(e.arg)
        BY <1>8, <2>2 DEF Handle
    <3>2. Configures(e)
        BY <1>8, TailConfigures DEF Handle, AllInv, ConfiguredInv
    <3>3. e.arg \in Configured \cup {NoPolicy}
        BY <2>2, <3>2 DEF Configures
    <3> HIDE DEF e
    <3> QED
        BY <2>1, <3>1, <3>3, SwitchKeepsSound
  <2>3. CASE e.kind # "Policy"
    <3>1. /\ policy_stack' = IF IsSome(policy_stack) THEN Told(policy_stack, e) ELSE NoStack
          /\ UNCHANGED threads
        BY <1>8, <2>3 DEF Handle
    <3>2. e \in Events
        BY <2>1 DEF Events
    <3> HIDE DEF e
    <3>3. CASE IsSome(policy_stack)
      <4>1. SoundStack(policy_stack) /\ policy_stack' = Told(policy_stack, e)
        BY <3>1, <3>3 DEF AllInv, SoundInv
      <4>2. Sane(policy_stack.policy, After(policy_stack.policy, policy_stack.stack, e),
                 HashedKeys, CacheSizes)
        BY <3>2, <4>1, AfterKeeps DEF SoundStack
      <4>3. SoundStack(policy_stack')
        BY <4>1, <4>2 DEF Told, SoundStack
      <4> QED
        BY <2>1, <3>1, <4>3 DEF AllInv, SoundInv
    <3>4. CASE ~IsSome(policy_stack)
      <4>1. ~IsSome(policy_stack')
        BY <3>1, <3>4 DEF NoStack, IsSome
      <4> QED
        BY <2>1, <3>1, <4>1 DEF AllInv, SoundInv, IsSome
    <3> QED
        BY <3>3, <3>4
  <2> QED
    BY <2>2, <2>3
<1>9. ASSUME Apply PROVE SoundInv'
  <2>1. Install /\ reconstructed' = <<>> /\ UNCHANGED threads
    BY <1>9 DEF Apply
  <2>2. DOMAIN reconstructed' = {}
    BY <2>1
  <2>3. IsSome(policy_stack') => SoundStack(policy_stack')
    <3>1. CASE reconstructed = <<>>
        BY <2>1, <3>1 DEF Install, AllInv, SoundInv, IsSome
    <3>2. CASE reconstructed # <<>>
      <4>1. policy_stack' = Replay(Seqs!Last(reconstructed), buffered)
        BY <2>1, <3>2 DEF Install
      <4>2. SoundStack(Seqs!Last(reconstructed))
        BY <3>2, LastOfSequence DEF AllInv, SwitchInv, StacksArrive, SoundInv
      <4>3. buffered \in Seq(Events)
        BY DEF AllInv, TracedInv
      <4> QED
        BY <4>1, <4>2, <4>3, ReplayKeeps
    <3> QED
        BY <3>1, <3>2
  <2> QED
    BY <2>1, <2>2, <2>3 DEF AllInv, SoundInv, IsSome
<1>10. ASSUME Evict PROVE SoundInv'
  <2> DEFINE p == policy_stack.policy
             st == policy_stack.stack
  <2>1. mini_index = NoPolicy /\ IsSome(policy_stack)
    BY <1>10 DEF Evict, AllInv, SwitchInv, SomeoneEvicts
  <2>2. /\ policy_stack' = [policy |-> p, stack |-> EvictOne(p, st).stack]
        /\ \E k \in Victims(EvictOne(p, st).key) : Erased(k)
    BY <1>10, <2>1 DEF Evict
  <2>3. UNCHANGED <<threads, reconstructed>>
    BY <2>2 DEF Erased
  <2>4. SoundStack(policy_stack)
    BY <2>1 DEF AllInv, SoundInv
  <2>5. Sane(p, EvictOne(p, st).stack, HashedKeys, CacheSizes)
    BY <2>4, SwitchFits, EvictIsSane DEF SoundStack, Evicts
  <2>6. SoundStack(policy_stack')
    BY <2>2, <2>4, <2>5 DEF SoundStack
  <2> QED
    BY <2>3, <2>6 DEF AllInv, SoundInv
<1>11. ASSUME EvictMini PROVE SoundInv'
  <2>1. UNCHANGED <<policy_stack, threads, reconstructed>>
    BY <1>11 DEF EvictMini, Erased
  <2> QED
    BY <1>1, <2>1
<1>12. ASSUME AutoPolicy PROVE SoundInv'
  <2>1. picked \in Configured /\ Switch(picked) /\ UNCHANGED reconstructed
    BY <1>12 DEF AutoPolicy, AllInv, ConfiguredInv
  <2> QED
    BY <2>1, SwitchKeepsSound
<1>13. ASSUME NEW i \in DOMAIN threads, Reconstruct(i) PROVE SoundInv'
  <2>1. UNCHANGED policy_stack
    BY <1>13 DEF Reconstruct, ReadTrace, FailToRead, CheckPolicy, SendStack, ThreadAt
  <2>2. ~Live(Ended)
    BY DEF Ended, Live
  <2>3. ASSUME UNCHANGED reconstructed PROVE \A j \in DOMAIN reconstructed' : SoundStack(reconstructed'[j])
    BY <2>3 DEF AllInv, SoundInv
  <2>4. CASE ReadTrace(i)
    <3> DEFINE made == Replay(threads[i].made, trace)
    <3>1. SoundStack(made)
      <4>1. SoundStack(threads[i].made) /\ trace \in Seq(Events)
        BY <2>4 DEF ReadTrace, ThreadAt, Live, AllInv, SoundInv, TracedInv
      <4> QED
        BY <4>1, ReplayKeeps
    <3>2. /\ UNCHANGED reconstructed
          /\ \/ threads' = [threads EXCEPT ![i] = Ended]
             \/ threads' = [threads EXCEPT ![i] = [at |-> "check", made |-> made]]
        BY <2>4 DEF ReadTrace
    <3> HIDE DEF made
    <3> QED
        BY <2>1, <2>2, <2>3, <3>1, <3>2, ThreadKeepsSound
  <2>5. CASE FailToRead(i)
    <3>1. /\ UNCHANGED reconstructed
          /\ threads' = [threads EXCEPT ![i] = [at |-> "failed", made |-> NoStack]]
        BY <2>5 DEF FailToRead
    <3>2. ~Live([at |-> "failed", made |-> NoStack])
        BY DEF Live
    <3> QED
        BY <2>1, <2>3, <3>1, <3>2, ThreadKeepsSound
  <2>6. CASE CheckPolicy(i)
    <3>1. SoundStack(threads[i].made)
        BY <2>6 DEF CheckPolicy, ThreadAt, Live, AllInv, SoundInv
    <3>2. /\ UNCHANGED reconstructed
          /\ \/ threads' = [threads EXCEPT ![i] = Ended]
             \/ threads' = [threads EXCEPT ![i] = [threads[i] EXCEPT !.at = "send"]]
        BY <2>6 DEF CheckPolicy
    <3>3. SoundStack([threads[i] EXCEPT !.at = "send"].made)
        BY <3>1
    <3> QED
        BY <2>1, <2>2, <2>3, <3>2, <3>3, ThreadKeepsSound
  <2>7. CASE SendStack(i)
    <3>1. SoundStack(threads[i].made)
        BY <2>7 DEF SendStack, ThreadAt, Live, AllInv, SoundInv
    <3>2. /\ reconstructed' = Append(reconstructed, threads[i].made)
          /\ threads' = [threads EXCEPT ![i] = Ended]
        BY <2>7 DEF SendStack
    <3>3. \A j \in DOMAIN reconstructed' : SoundStack(reconstructed'[j])
      <4>1. IsSequence(reconstructed)
        BY DEF AllInv, SwitchInv, StacksArrive
      <4> DEFINE made == threads[i].made
                 len == Len(reconstructed)
      <4> HIDE DEF made
      <4>2. /\ DOMAIN reconstructed' = 1 .. len + 1 /\ reconstructed'[len + 1] = made
            /\ \A j \in DOMAIN reconstructed : reconstructed'[j] = reconstructed[j]
            /\ DOMAIN reconstructed = 1 .. len /\ len \in Nat
        BY <3>2, <4>1, AppendToSequence DEF made
      <4> HIDE DEF len
      <4>3. ASSUME NEW j \in 1 .. len + 1 PROVE SoundStack(reconstructed'[j])
        <5>1. CASE j = len + 1
            BY <3>1, <4>2, <5>1 DEF made
        <5>2. CASE j # len + 1
          <6>1. j \in DOMAIN reconstructed
            BY <4>2, <5>2
          <6> QED
            BY <4>2, <6>1 DEF AllInv, SoundInv
        <5> QED
            BY <5>1, <5>2
      <4> QED
        BY <4>2, <4>3
    <3> QED
        BY <2>1, <2>2, <3>2, <3>3, ThreadKeepsSound
  <2> QED
    BY <1>13, <2>4, <2>5, <2>6, <2>7 DEF Reconstruct
<1>14. ASSUME UNCHANGED vars PROVE SoundInv'
    BY <1>2, <1>14 DEF vars
<1> QED
    BY <1>3, <1>4, <1>5, <1>6, <1>7, <1>8, <1>9, <1>10, <1>11, <1>12, <1>13, <1>14
    DEF Next, WorkerStep

\* A switch that overlaps no other finds a stack, and starts the one reconstruction.
LEMMA SwitchKeepsKnown ==
    ASSUME AllInv, KnownInv, NEW p, Switch(p), UNCHANGED <<buffered, reconstructed>>
    PROVE  KnownInv'
<1>1. CASE p = NoPolicy \/ p = current_policy
    BY <1>1 DEF Switch, stackVars, KnownInv, OneAtATime, ToldOf
<1>2. CASE p # NoPolicy /\ p # current_policy
  <2> DEFINE thread == [at |-> "read", made |-> Made(p, max_size)]
  <2>1. /\ mini_index' = p /\ threads' = Append(threads, thread) /\ told' = {}
        /\ overlapped' = (overlapped \/ mini_index # NoPolicy)
    BY <1>2 DEF Switch, Switched
  <2>2. IsSequence(threads)
    BY DEF AllInv, SwitchInv, ThreadsMade
  <2> HIDE DEF thread
  <2>3. /\ DOMAIN threads' = 1 .. Len(threads) + 1
        /\ \A i \in DOMAIN threads : threads'[i] = threads[i]
        /\ DOMAIN threads = 1 .. Len(threads) /\ Len(threads) \in Nat
    BY <2>1, <2>2, AppendToSequence
  <2>4. ASSUME ~overlapped' PROVE OneAtATime'
    <3>1. reconstructed = <<>> /\ \A i \in DOMAIN threads : ~Live(threads[i])
        BY <2>1, <2>4 DEF KnownInv, OneAtATime
    <3>2. ASSUME NEW i \in DOMAIN threads', Live(threads'[i]) PROVE i = Len(threads) + 1
        BY <2>3, <3>1, <3>2
    <3>3. \A i, j \in DOMAIN threads' : Live(threads'[i]) /\ Live(threads'[j]) => i = j
        BY <3>2
    <3>4. mini_index' # NoPolicy /\ reconstructed' = <<>>
        BY <1>2, <2>1, <3>1
    <3> QED
        BY <3>3, <3>4 DEF OneAtATime
  <2> QED
    BY <2>1, <2>4 DEF KnownInv
<1> QED
    BY <1>1, <1>2

\* One reconstruction goes on: until switches overlap it is the only one.
LEMMA ThreadKeepsKnown ==
    ASSUME AllInv, KnownInv, NEW i \in DOMAIN threads, Live(threads[i]), NEW thread,
           threads' = [threads EXCEPT ![i] = thread],
           UNCHANGED <<told, overlapped, mini_index, policy_stack, buffered>>,
           \/ UNCHANGED reconstructed
           \/ ~Live(thread)
    PROVE  KnownInv'
<1>1. IsSequence(threads)
    BY DEF AllInv, SwitchInv, ThreadsMade
<1>2. /\ DOMAIN threads' = DOMAIN threads
      /\ \A j \in DOMAIN threads : threads'[j] = IF j = i THEN thread ELSE threads[j]
    BY <1>1, ChangeInSequence
<1>3. ASSUME ~overlapped PROVE OneAtATime'
  <2>1. /\ mini_index # NoPolicy /\ reconstructed = <<>>
        /\ \A j \in DOMAIN threads : Live(threads[j]) => j = i
    BY <1>3 DEF KnownInv, OneAtATime
  <2>2. \A j \in DOMAIN threads' : Live(threads'[j]) => j = i
    BY <1>2, <2>1
  <2>3. reconstructed' # <<>> => \A j \in DOMAIN threads' : ~Live(threads'[j])
    BY <1>2, <2>1, <2>2
  <2> QED
    BY <2>1, <2>2, <2>3 DEF OneAtATime
<1> QED
    BY <1>3 DEF KnownInv, ToldOf

\* An erased key is told of no more, and no other key is lost by it.
LEMMA ErasedKeepsKnown ==
    ASSUME AllInv, KnownInv, NEW k, Erased(k),
           mini_index = NoPolicy => Known(policy_stack) \ {k} \subseteq Known(policy_stack')
    PROVE  KnownInv'
<1>1. /\ told' = told \ {k} /\ UNCHANGED <<mini_index, threads, reconstructed, overlapped>>
      /\ buffered' = buffered \/ (k \in stored /\ buffered' = Append(buffered, Eviction(k)))
    BY DEF Erased
<1>2. ASSUME NEW j \in told', ToldOf(j) PROVE ToldOf(j)'
  <2>1. j \in told /\ j # k
    BY <1>1
  <2>2. CASE mini_index = NoPolicy
    BY <1>1, <1>2, <2>1, <2>2 DEF ToldOf
  <2>3. CASE mini_index # NoPolicy
    <3>1. Survives(j, buffered)
        BY <1>2, <2>3 DEF ToldOf
    <3>2. CASE buffered' = buffered
        BY <1>1, <2>3, <3>1, <3>2 DEF ToldOf
    <3>3. CASE k \in stored /\ buffered' = Append(buffered, Eviction(k))
      <4>1. Eviction(k) \in Events /\ buffered \in Seq(Events)
        BY <3>3, EventFacts DEF AllInv, ConfiguredInv, SwitchTypeOK, TracedInv
      <4>2. ~Drops(Eviction(k), j)
        BY <2>1 DEF Drops, Eviction
      <4>3. Survives(j, buffered')
        BY <3>1, <3>3, <4>1, <4>2, SurvivesMore
      <4> QED
        BY <1>1, <2>3, <4>3 DEF ToldOf
    <3> QED
        BY <1>1, <3>2, <3>3
  <2> QED
    BY <2>2, <2>3
<1>3. OneAtATime => OneAtATime'
    BY <1>1 DEF OneAtATime
<1> QED
    BY <1>1, <1>2, <1>3 DEF KnownInv

\* The stack, or the buffer in its place, is told of an event.
LEMMA EventKeepsKnown ==
    ASSUME AllInv, KnownInv, NEW e \in CallEvents,
           policy_stack' = IF IsSome(policy_stack) THEN Told(policy_stack, e) ELSE NoStack,
           told' = ToldAfter(e), Pass(e),
           UNCHANGED <<mini_index, threads, reconstructed, overlapped>>
    PROVE  KnownInv'
<1>0. e \in Events
    BY DEF Events
<1>1. told' \subseteq HashedKeys
    BY <1>0, EventArgs DEF KnownInv, ToldAfter, KeyKinds
<1>2. ASSUME NEW k \in told' PROVE (k \in told /\ ~Drops(e, k)) \/ Adds(e, k)
    BY <1>2 DEF ToldAfter, Drops, Adds
<1>3. ASSUME NEW k \in told', k \in told => ToldOf(k) PROVE ToldOf(k)'
  <2>1. (ToldOf(k) /\ ~Drops(e, k)) \/ Adds(e, k)
    BY <1>2, <1>3
  <2>2. CASE mini_index = NoPolicy
    <3> DEFINE p == policy_stack.policy
               st == policy_stack.stack
    <3>1. IsSome(policy_stack) /\ SoundStack(policy_stack)
        BY <2>2 DEF AllInv, SwitchInv, SomeoneEvicts, SoundInv
    <3>2. policy_stack' = [policy |-> p, stack |-> After(p, st, e)]
        BY <3>1 DEF Told
    <3>3. (k \in KeysIn(p, st) /\ ~Drops(e, k)) \/ Adds(e, k)
        BY <2>1, <2>2 DEF ToldOf, Known
    <3>4. p \in Configured /\ Sane(p, st, HashedKeys, CacheSizes)
        BY <3>1 DEF SoundStack
    <3> HIDE DEF p, st
    <3>5. k \in KeysIn(p, After(p, st, e))
        BY <1>0, <3>3, <3>4, AfterKeeps
    <3>6. k \in Known(policy_stack')
        BY <3>2, <3>5 DEF Known
    <3> QED
        BY <2>2, <3>6 DEF ToldOf
  <2>3. CASE mini_index # NoPolicy
    <3>1. ~IsSome(policy_stack')
        BY <2>3 DEF AllInv, SwitchInv, SomeoneEvicts, IsSome, NoStack
    <3>2. (Survives(k, buffered) /\ ~Drops(e, k)) \/ Adds(e, k)
        BY <2>1, <2>3 DEF ToldOf
    <3>3. CASE IsStackEvent(e)
      <4>1. buffered' = Append(buffered, e)
        BY <3>1, <3>3 DEF Pass
      <4>2. Survives(k, buffered')
        BY <1>0, <3>2, <4>1, SurvivesMore DEF AllInv, TracedInv
      <4> QED
        BY <2>3, <4>2 DEF ToldOf
    <3>4. CASE ~IsStackEvent(e)
      <4>1. buffered' = buffered /\ ~Adds(e, k)
        BY <3>4 DEF Pass, IsStackEvent, Adds
      <4> QED
        BY <2>3, <3>2, <4>1 DEF ToldOf
    <3> QED
        BY <3>3, <3>4
  <2> QED
    BY <2>2, <2>3
<1>4. OneAtATime => OneAtATime'
    BY DEF OneAtATime
<1> QED
    BY <1>1, <1>3, <1>4 DEF KnownInv

\* The stack that arrives is told of what was buffered, and so has every key in it.
LEMMA ApplyKeepsKnown ==
    ASSUME AllInv, KnownInv, Apply
    PROVE  KnownInv'
<1>1. /\ Install /\ Flush /\ reconstructed' = <<>>
      /\ UNCHANGED <<threads, told, overlapped>>
    BY DEF Apply, history
<1>2. CASE reconstructed = <<>>
  <2>1. UNCHANGED <<policy_stack, mini_index>> /\ (mini_index # NoPolicy => UNCHANGED buffered)
    BY <1>1, <1>2 DEF Install, Flush
  <2>2. \A k : ToldOf(k) => ToldOf(k)'
    BY <2>1 DEF ToldOf
  <2>3. OneAtATime => OneAtATime'
    BY <1>1, <1>2, <2>1 DEF OneAtATime
  <2> QED
    BY <1>1, <2>2, <2>3 DEF KnownInv
<1>3. CASE reconstructed # <<>>
  <2>1. /\ policy_stack' = Replay(Seqs!Last(reconstructed), buffered)
        /\ mini_index' = NoPolicy
    BY <1>1, <1>3 DEF Install
  <2>2. SoundStack(Seqs!Last(reconstructed)) /\ buffered \in Seq(Events)
    BY <1>3, LastOfSequence DEF AllInv, SwitchInv, StacksArrive, SoundInv, TracedInv
  <2>3. \A k : Survives(k, buffered) => k \in Known(policy_stack')
    BY <2>1, <2>2, ReplayKeeps
  <2>4. ASSUME ~overlapped PROVE OneAtATime' /\ \A k \in told : ToldOf(k)'
    <3>1. /\ mini_index # NoPolicy /\ \A i \in DOMAIN threads : ~Live(threads[i])
          /\ \A k \in told : ToldOf(k)
        BY <1>3, <2>4 DEF KnownInv, OneAtATime
    <3>2. \A k \in told : Survives(k, buffered)
        BY <3>1 DEF ToldOf
    <3>3. \A k \in told : ToldOf(k)'
        BY <2>1, <2>3, <3>2 DEF ToldOf
    <3> QED
        BY <1>1, <3>1, <3>3 DEF OneAtATime
  <2> QED
    BY <1>1, <2>4 DEF KnownInv
<1> QED
    BY <1>2, <1>3

LEMMA KnownStep == AllInv /\ KnownInv /\ [Next]_vars => KnownInv'
<1> SUFFICES ASSUME AllInv, KnownInv, [Next]_vars PROVE KnownInv'
    OBVIOUS
<1> USE DEF Goto
<1>1. ASSUME UNCHANGED <<told, overlapped, mini_index, policy_stack, buffered, threads,
                         reconstructed>>
      PROVE  KnownInv'
    BY <1>1 DEF KnownInv, OneAtATime, ToldOf
<1>2. ASSUME UNCHANGED <<stackVars, buffered, reconstructed, history>> PROVE KnownInv'
    BY <1>1, <1>2 DEF stackVars, history
<1>3. ASSUME NEW k \in HashedKeys, Get(k) \/ Set(k) \/ Del(k) \/ Reap(k) PROVE KnownInv'
    BY <1>2, <1>3 DEF Get, Set, Del, Reap, Begin, traceVars
<1>4. ASSUME Wipe \/ SetAuto \/ ClientStep \/ Write PROVE KnownInv'
    BY <1>2, <1>4 DEF Wipe, SetAuto, ClientStep, UnsetAuto, Broadcast, Write, Begin, traceVars
<1>5. ASSUME NEW size \in CacheSizes, SetMaxSize(size) PROVE KnownInv'
    BY <1>2, <1>5 DEF SetMaxSize, Begin, traceVars
<1>6. ASSUME NEW p \in Configured, SetPolicy(p) PROVE KnownInv'
    BY <1>2, <1>6 DEF SetPolicy, Begin, traceVars
<1>7. ASSUME Collect \/ EvictedEnough PROVE KnownInv'
    BY <1>2, <1>7 DEF Collect, EvictedEnough, traceVars
<1>8. ASSUME Handle PROVE KnownInv'
  <2> DEFINE e == Head(batch)
  <2>1. UNCHANGED reconstructed /\ e \in CallEvents /\ Pass(e)
    BY <1>8 DEF Handle, AllInv, TracedInv, ConfiguredInv
  <2>2. CASE e.kind = "Policy"
    <3>1. Switch(e.arg)
        BY <1>8, <2>2 DEF Handle
    <3>2. UNCHANGED buffered
        BY <2>1, <2>2 DEF Pass, IsStackEvent
    <3> HIDE DEF e
    <3> QED
        BY <2>1, <3>1, <3>2, SwitchKeepsKnown
  <2>3. CASE e.kind # "Policy"
    <3>1. /\ policy_stack' = IF IsSome(policy_stack) THEN Told(policy_stack, e) ELSE NoStack
          /\ told' = ToldAfter(e)
          /\ UNCHANGED <<mini_index, threads, overlapped>>
        BY <1>8, <2>3 DEF Handle
    <3> HIDE DEF e
    <3> QED
        BY <2>1, <3>1, EventKeepsKnown
  <2> QED
    BY <2>2, <2>3
<1>9. ASSUME Apply PROVE KnownInv'
    BY <1>9, ApplyKeepsKnown
<1>10. ASSUME Evict PROVE KnownInv'
  <2> DEFINE p == policy_stack.policy
             st == policy_stack.stack
  <2>1. mini_index = NoPolicy /\ IsSome(policy_stack)
    BY <1>10 DEF Evict, AllInv, SwitchInv, SomeoneEvicts
  <2>2. policy_stack' = [policy |-> p, stack |-> EvictOne(p, st).stack]
    BY <1>10, <2>1 DEF Evict
  <2>3. PICK k \in Victims(EvictOne(p, st).key) : Erased(k)
    BY <1>10, <2>1 DEF Evict
  <2>4. SoundStack(policy_stack)
    BY <2>1 DEF AllInv, SoundInv
  <2>5. KeysIn(p, st) \ {EvictOne(p, st).key} \subseteq KeysIn(p, EvictOne(p, st).stack)
    BY <2>4, SwitchFits, EvictIsSane DEF SoundStack, Evicts
  <2>6. KeysIn(p, st) \ {k} \subseteq KeysIn(p, EvictOne(p, st).stack)
    <3>1. CASE EvictOne(p, st).key # NoKey
        BY <2>3, <2>5, <3>1 DEF Victims
    <3>2. CASE EvictOne(p, st).key = NoKey
      <4>1. NoKey \notin KeysIn(p, st)
        BY <2>4, SwitchFits, KeysAreKnown DEF SoundStack
      <4> QED
        BY <2>5, <3>2, <4>1
    <3> QED
        BY <3>1, <3>2
  <2>7. Known(policy_stack) \ {k} \subseteq Known(policy_stack')
    BY <2>2, <2>6 DEF Known
  <2> HIDE DEF p, st
  <2> QED
    BY <2>3, <2>7, ErasedKeepsKnown
<1>11. ASSUME EvictMini PROVE KnownInv'
  <2>1. mini_index # NoPolicy /\ UNCHANGED policy_stack
    BY <1>11 DEF EvictMini
  <2>2. CASE UNCHANGED <<mini_index, threads, traceVars, reconstructed, history>>
    BY <1>1, <2>1, <2>2 DEF traceVars, history
  <2>3. CASE \E k : Erased(k)
    BY <2>1, <2>3, ErasedKeepsKnown
  <2> QED
    BY <1>11, <2>2, <2>3 DEF EvictMini
<1>12. ASSUME AutoPolicy PROVE KnownInv'
  <2>1. Switch(picked) /\ UNCHANGED <<buffered, reconstructed>>
    BY <1>12 DEF AutoPolicy, traceVars
  <2> QED
    BY <2>1, SwitchKeepsKnown
<1>13. ASSUME NEW i \in DOMAIN threads, Reconstruct(i) PROVE KnownInv'
  <2>1. /\ UNCHANGED <<told, overlapped, mini_index, policy_stack, buffered>>
        /\ Live(threads[i])
    BY <1>13 DEF Reconstruct, ReadTrace, FailToRead, CheckPolicy, SendStack, ThreadAt, Live,
                 history, traceVars
  <2>2. PICK thread : threads' = [threads EXCEPT ![i] = thread]
                      /\ (UNCHANGED reconstructed \/ ~Live(thread))
    <3>1. CASE ReadTrace(i) \/ FailToRead(i) \/ CheckPolicy(i)
      <4>1. UNCHANGED reconstructed /\ \E thread : threads' = [threads EXCEPT ![i] = thread]
        BY <3>1 DEF ReadTrace, FailToRead, CheckPolicy
      <4> QED
        BY <4>1
    <3>2. CASE SendStack(i)
      <4>1. threads' = [threads EXCEPT ![i] = Ended] /\ ~Live(Ended)
        BY <3>2 DEF SendStack, Live, Ended
      <4> QED
        BY <4>1
    <3> QED
        BY <1>13, <3>1, <3>2 DEF Reconstruct
  <2> QED
    BY <2>1, <2>2, ThreadKeepsKnown
<1>14. ASSUME UNCHANGED vars PROVE KnownInv'
    BY <1>2, <1>14 DEF vars, traceVars
<1> QED
    BY <1>3, <1>4, <1>5, <1>6, <1>7, <1>8, <1>9, <1>10, <1>11, <1>12, <1>13, <1>14
    DEF Next, WorkerStep

(* A key that is set after a switch, and neither removed nor evicted since,*)
(* is in the stack the switch ends with: apply_buffered_events replays on  *)
(* it whatever was handled while it was made (policy/mod.rs), for any      *)
(* number of keys, events and stacks of every policy.                      *)
THEOREM NothingIsForgotten == Spec => []NothingHandledIsForgotten
<1>1. Init => AllInv /\ KnownInv
    BY ConfiguredInit, SwitchInvInit, TracedInit, SoundInit DEF AllInv
<1>2. AllInv /\ KnownInv /\ [Next]_vars => (AllInv /\ KnownInv)'
    BY ConfiguredStep, SwitchInvStep, TracedStep, SoundStep, KnownStep DEF AllInv
<1>3. AllInv /\ KnownInv => NothingHandledIsForgotten
    BY DEF AllInv, SwitchInv, SomeoneEvicts, KnownInv, ToldOf, Known, NothingHandledIsForgotten
<1> QED
    BY <1>1, <1>2, <1>3, PTL DEF Spec

================================================================================
