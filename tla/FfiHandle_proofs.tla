-------------------------- MODULE FfiHandle_proofs ---------------------------
(***************************************************************************)
(* The C ABI, for any number of threads, handles and callbacks and any      *)
(* queue length: the inductive invariant of the handles, that a handle is   *)
(* started once and never reused, and that its packets follow the header.   *)
(***************************************************************************)
EXTENDS FfiHandle, HostPackets, SequenceTheorems, TLAPS

\* The part of the type invariant the argument needs.
HandleTypes ==
    /\ next_id \in Nat \ {0} /\ registry \subseteq Ids
    /\ taken \subseteq Ids /\ running \subseteq Ids
    /\ starts \in [Ids -> Nat]
    /\ at \in [Ids -> {"none", "loop", "serving", "starting", "dropping", "gone"}]
    /\ lock \in [Ids -> Threads \union {Nobody}]
    /\ pc \in [Threads -> {"idle", "wait", "lock", "join", "remove"}]
    /\ on \in [Threads -> Ids \union {Nobody}]
    /\ inside \in [Threads -> Ids \union {Nobody}]

\* Nothing refers to an identifier that was not given out.
Unused ==
    /\ \A h \in registry \union taken : h < next_id
    /\ \A t \in Threads : pc[t] \in {"lock", "join", "remove"} => on[t] \in Ids /\ on[t] < next_id
    /\ \A h \in Ids : h >= next_id => at[h] = "none"

\* A Running is held by a worker that is in its loop.
RunningInLoop == \A h \in running : at[h] \in {"loop", "serving", "starting"}

\* A worker that has ended has dropped its runtime.
GoneIsQuiet == \A h \in Ids : at[h] = "gone" => \A t \in Threads : inside[t] # h

\* A thread that joins holds the mutex; a JoinHandle that is taken while the
\* mutex is free has been joined.
JoinsUnderLock ==
    /\ \A t \in Threads : pc[t] = "join" => lock[on[t]] = t
    /\ \A t \in Threads : pc[t] = "remove" => at[on[t]] = "gone"
    /\ \A h \in taken : lock[h] = Nobody => at[h] = "gone"

\* A start that happened shows in lifecycle or in stop.
StartRemembered ==
    \A h \in Ids : starts[h] <= 1 /\ (starts[h] # 0 => h \in lifecycle \union stop)

IInv ==
    /\ HandleTypes
    /\ Unused
    /\ RunningInLoop
    /\ GoneIsQuiet
    /\ JoinsUnderLock
    /\ StartRemembered

USE DEF Ids

-----------------------------------------------------------------------------
\* No handle exists.
LEMMA InitIInv == Init => IInv
BY HandleConstants DEF Init, IInv, HandleTypes, Unused, RunningInLoop, GoneIsQuiet,
   JoinsUnderLock, StartRemembered

\* A call that ends disturbs no other call.
LEMMA LeaveFacts ==
    ASSUME HandleTypes, NEW t \in Threads, NEW s, Leave(t, s)
    PROVE  /\ pc' \in [Threads -> {"idle", "wait", "lock", "join", "remove"}]
           /\ on' \in [Threads -> Ids \union {Nobody}]
           /\ pc'[t] = "idle"
           /\ \A u \in Threads : u # t => pc'[u] = pc[u] /\ on'[u] = on[u]
BY Zenon DEF HandleTypes, Leave

\* Creating a handle.
LEMMA CreateStep ==
    ASSUME IInv, NEW t \in Threads, Create(t) \/ CreateFails(t) PROVE IInv'
<1>1. UNCHANGED <<stop, running, lifecycle, starts, pc, on, lock, taken, inside>>
  BY Zenon DEF Create, CreateFails, workerVars, callVars, joinVars, cbVars
<1>2. /\ next_id' = next_id + 1 /\ next_id \in Ids
      /\ registry' \subseteq registry \union {next_id}
      /\ \A h \in Ids : at'[h] = at[h] \/ (h = next_id /\ at'[h] = "loop")
      /\ at' \in [Ids -> {"none", "loop", "serving", "starting", "dropping", "gone"}]
  <2>1. next_id \in Ids
    BY HandleConstants DEF IInv, HandleTypes, Create, CreateFails
  <2> QED BY <2>1, Zenon DEF IInv, HandleTypes, Create, CreateFails, workerVars
<1>3. at[next_id] = "none"
  BY <1>2 DEF IInv, Unused, HandleTypes
<1>4. \A h \in Ids : at[h] # "none" => at'[h] = at[h]
  BY <1>2, <1>3, Zenon
<1>5. HandleTypes'
  BY <1>1, <1>2 DEF IInv, HandleTypes
<1>6. Unused'
  BY <1>1, <1>2 DEF IInv, HandleTypes, Unused
<1>7. RunningInLoop' /\ StartRemembered'
  BY <1>1, <1>2, <1>4, Zenon DEF IInv, RunningInLoop, StartRemembered, HandleTypes
<1>8. GoneIsQuiet'
  BY <1>1, <1>2, Zenon DEF IInv, GoneIsQuiet
<1>9. JoinsUnderLock'
  BY <1>1, <1>4, Zenon DEF IInv, JoinsUnderLock, Unused, HandleTypes
<1> QED BY <1>5, <1>6, <1>7, <1>8, <1>9, Zenon DEF IInv

\* A call that begins with a command, or that gives up waiting for the reply.
LEMMA CommandStep ==
    ASSUME IInv, NEW t \in Threads,
           \/ Timeout(t) \/ Disconnected(t)
           \/ \E h \in Ids, c \in Kinds : Command(t, h, c)
    PROVE  IInv'
<1>1. UNCHANGED <<registry, next_id, running, lifecycle, starts, at, lock, taken, inside>>
  BY Zenon DEF Timeout, Disconnected, Command, registryVars, workerVars, joinVars, cbVars
<1>2. /\ pc' \in [Threads -> {"idle", "wait", "lock", "join", "remove"}]
      /\ on' \in [Threads -> Ids \union {Nobody}]
      /\ pc'[t] \in {"idle", "wait"}
      /\ \A u \in Threads : u # t => pc'[u] = pc[u] /\ on'[u] = on[u]
  <2>1. CASE Timeout(t) \/ Disconnected(t)
    BY <2>1, LeaveFacts, Zenon DEF IInv, Timeout, Disconnected
  <2>2. CASE \E h \in Ids, c \in Kinds : Command(t, h, c)
    BY <2>2 DEF IInv, HandleTypes, Command, Enter
  <2> QED BY <2>1, <2>2, Zenon
<1>3. stop \subseteq stop'
  BY Zenon DEF Timeout, Disconnected, Command
<1>4. HandleTypes' /\ Unused'
  BY <1>1, <1>2, Zenon DEF IInv, HandleTypes, Unused
<1>5. JoinsUnderLock'
  BY <1>1, <1>2 DEF IInv, JoinsUnderLock
<1>6. StartRemembered'
  BY <1>1, <1>3, Zenon DEF IInv, StartRemembered
<1> QED BY <1>1, <1>4, <1>5, <1>6, Zenon DEF IInv, RunningInLoop, GoneIsQuiet

\* The worker between two commands: it never leaves or enters the ended state.
LEMMA WorkerStep ==
    ASSUME IInv, NEW h \in Ids,
           \/ Serve(h) \/ BeginStart(h) \/ StartOk(h) \/ StartFails(h)
           \/ StartRefused(h) \/ NetworkChanged(h) \/ SetFd(h) \/ SetFdFails(h) \/ Break(h)
    PROVE  IInv'
<1>1. UNCHANGED <<registry, next_id, lock, taken, inside>>
  BY Zenon DEF Serve, BeginStart, StartOk, StartFails, StartRefused, NetworkChanged, SetFd, SetFdFails, Break, registryVars,
     joinVars, cbVars
<1>2. /\ at[h] \in {"loop", "serving", "starting"}
      /\ at'[h] \in {"loop", "serving", "starting", "dropping"}
      /\ at' \in [Ids -> {"none", "loop", "serving", "starting", "dropping", "gone"}]
      /\ \A k \in Ids : k # h => at'[k] = at[k]
  BY Zenon DEF IInv, HandleTypes, Serve, BeginStart, StartOk, StartFails, StartRefused, NetworkChanged, SetFd, SetFdFails,
     Break, Reply
<1>3. /\ pc' \in [Threads -> {"idle", "wait", "lock", "join", "remove"}]
      /\ on' \in [Threads -> Ids \union {Nobody}]
      /\ \A u \in Threads : pc'[u] = "idle" \/ (pc'[u] = pc[u] /\ on'[u] = on[u])
  <2>1. CASE UNCHANGED callVars
    BY <2>1, Zenon DEF IInv, HandleTypes, callVars
  <2>2. CASE \E c \in {"OK", "ERROR"} : Leave(serving[h].caller, c)
    BY <2>2, Zenon DEF IInv, HandleTypes, Leave
  <2> QED BY <2>1, <2>2, Zenon DEF Serve, BeginStart, StartOk, StartFails, StartRefused, NetworkChanged, SetFd, SetFdFails,
     Break, Reply
<1>4. /\ running' \subseteq running \union {h}
      /\ h \in running' => at'[h] # "dropping"
  BY <1>2, Zenon DEF Serve, BeginStart, StartOk, StartFails, StartRefused, NetworkChanged, SetFd, SetFdFails, Break, Reply
<1>5. HandleTypes'
  <2>1. starts' \in [Ids -> Nat]
    BY DEF IInv, HandleTypes, Serve, BeginStart, StartOk, StartFails, StartRefused, NetworkChanged,
       SetFd, SetFdFails, Break
  <2> QED BY <1>1, <1>2, <1>3, <1>4, <2>1, Zenon DEF IInv, HandleTypes
<1>6. Unused'
  BY <1>1, <1>2, <1>3, Zenon DEF IInv, HandleTypes, Unused
<1>7. RunningInLoop' /\ GoneIsQuiet'
  BY <1>1, <1>2, <1>4, Zenon DEF IInv, HandleTypes, RunningInLoop, GoneIsQuiet
<1>8. JoinsUnderLock'
  BY <1>1, <1>2, <1>3 DEF IInv, HandleTypes, JoinsUnderLock, Unused
<1>9. StartRemembered'
  <2>1. CASE BeginStart(h)
    BY <2>1 DEF BeginStart, StartAllowed, IInv, HandleTypes, StartRemembered
  <2>2. CASE ~BeginStart(h)
    <3>1. UNCHANGED starts /\ stop \subseteq stop' /\ \A k \in lifecycle : k \in lifecycle' \union stop'
      BY <2>2, Zenon DEF Serve, StartOk, StartFails, StartRefused, NetworkChanged, SetFd, SetFdFails, Break
    <3> QED BY <3>1, Zenon DEF IInv, StartRemembered
  <2> QED BY <2>1, <2>2, Zenon
<1> QED BY <1>5, <1>6, <1>7, <1>8, <1>9, Zenon DEF IInv

\* The worker ends once no callback of its runtime is left.
LEMMA WorkerEndsStep ==
    ASSUME IInv, NEW h \in Ids, WorkerEnds(h) PROVE IInv'
<1>1. UNCHANGED <<registry, next_id, stop, running, lifecycle, starts, lock, taken, inside>>
  BY Zenon DEF WorkerEnds, registryVars, joinVars, cbVars
<1>2. /\ at[h] = "dropping" /\ at'[h] = "gone"
      /\ at' \in [Ids -> {"none", "loop", "serving", "starting", "dropping", "gone"}]
      /\ \A k \in Ids : k # h => at'[k] = at[k]
  BY Zenon DEF IInv, HandleTypes, WorkerEnds
<1>3. UNCHANGED <<pc, on>>
  BY Zenon DEF WorkerEnds, callVars
<1>4. HandleTypes' /\ Unused'
  BY <1>1, <1>2, <1>3, Zenon DEF IInv, HandleTypes, Unused
<1>5. RunningInLoop' /\ StartRemembered'
  BY <1>1, <1>2, Zenon DEF IInv, HandleTypes, RunningInLoop, StartRemembered
<1>6. GoneIsQuiet'
  <2>1. \A t \in Threads : inside[t] # h
    BY Zenon DEF WorkerEnds, Quiesced
  <2> QED BY <1>1, <1>2, <2>1, Zenon DEF IInv, GoneIsQuiet
<1>7. JoinsUnderLock'
  <2>1. \A k \in Ids : at[k] = "gone" => at'[k] = "gone"
    BY <1>2, Zenon
  <2> QED BY <1>1, <1>3, <2>1, Zenon DEF IInv, HandleTypes, JoinsUnderLock, Unused
<1> QED BY <1>4, <1>5, <1>6, <1>7, Zenon DEF IInv

\* A callback starts only in a runtime that exists.
LEMMA CallbackStep ==
    ASSUME IInv, NEW t \in Threads, CallbackReturns(t) \/ \E h \in Ids : Callback(t, h)
    PROVE  IInv'
<1>1. UNCHANGED <<registry, next_id, stop, running, lifecycle, starts, at, lock, taken, pc, on>>
  BY Zenon DEF Callback, CallbackReturns, registryVars, workerVars, joinVars, callVars
<1>2. PICK k \in Ids \union {Nobody} :
         inside' = [inside EXCEPT ![t] = k] /\ (k \in Ids => at[k] # "gone")
  <2>1. CASE CallbackReturns(t)
    BY <2>1, HandleConstants, Zenon DEF CallbackReturns
  <2>2. CASE \E h \in Ids : Callback(t, h)
    BY <2>2, Zenon DEF Callback, IInv, RunningInLoop
  <2> QED BY <2>1, <2>2, Zenon
<1>3. HandleTypes' /\ Unused'
  BY <1>1, <1>2, Zenon DEF IInv, HandleTypes, Unused
<1>4. GoneIsQuiet'
  BY <1>1, <1>2, Zenon DEF IInv, HandleTypes, GoneIsQuiet
<1> QED BY <1>1, <1>3, <1>4, Zenon DEF IInv, RunningInLoop, JoinsUnderLock,
   StartRemembered

\* Handle::shutdown cancels the core and heads for the mutex.
LEMMA ShutdownStep ==
    ASSUME IInv, NEW t \in Threads, NEW h \in Ids, NEW s, Shutdown(t, h, s) PROVE IInv'
<1>1. UNCHANGED <<registry, next_id, running, lifecycle, starts, at, lock, taken, inside>>
  BY Zenon DEF Shutdown, registryVars, workerVars, joinVars, cbVars
<1>2. /\ pc' \in [Threads -> {"idle", "wait", "lock", "join", "remove"}]
      /\ on' \in [Threads -> Ids \union {Nobody}]
      /\ pc'[t] = "lock" /\ on'[t] = h /\ h \in registry
      /\ \A u \in Threads : u # t => pc'[u] = pc[u] /\ on'[u] = on[u]
  BY Zenon DEF Shutdown, Enter, IInv, HandleTypes
<1>3. HandleTypes' /\ Unused'
  BY <1>1, <1>2, Zenon DEF IInv, HandleTypes, Unused
<1>4. JoinsUnderLock'
  BY <1>1, <1>2, Zenon DEF IInv, JoinsUnderLock
<1>5. StartRemembered'
  BY <1>1, Zenon DEF Shutdown, IInv, StartRemembered
<1> QED BY <1>1, <1>3, <1>4, <1>5, Zenon DEF IInv, RunningInLoop, GoneIsQuiet

\* The JoinHandle is taken and the mutex kept.
LEMMA TakeStep ==
    ASSUME IInv, NEW t \in Threads, Take(t) PROVE IInv'
<1>1. UNCHANGED <<registry, next_id, stop, running, lifecycle, starts, at, inside, on>>
  BY Zenon DEF Take, registryVars, workerVars, cbVars
<1>2. on[t] \in Ids /\ on[t] < next_id /\ lock[on[t]] = Nobody
  BY Zenon DEF Take, IInv, Unused
<1>3. /\ pc' = [pc EXCEPT ![t] = "join"] /\ lock' = [lock EXCEPT ![on[t]] = t]
      /\ taken' = taken \union {on[t]}
  BY Zenon DEF Take
<1>4. HandleTypes' /\ Unused'
  BY <1>1, <1>2, <1>3, Zenon DEF IInv, HandleTypes, Unused
<1>5. JoinsUnderLock'
  <2>1. \A u \in Threads : pc'[u] = "join" => lock'[on'[u]] = u
    <3> SUFFICES ASSUME NEW u \in Threads, pc'[u] = "join", u # t PROVE lock'[on[u]] = u
      BY <1>1, <1>2, <1>3, Zenon DEF IInv, HandleTypes
    <3>1. pc[u] = "join" /\ lock[on[u]] = u /\ on[u] \in Ids
      BY <1>3, Zenon DEF IInv, HandleTypes, JoinsUnderLock, Unused
    <3>2. on[u] # on[t]
      BY <3>1, <1>2, HandleConstants, Zenon
    <3> QED BY <3>1, <3>2, <1>3, <1>2, Zenon DEF IInv, HandleTypes
  <2>2. \A u \in Threads : pc'[u] = "remove" => at'[on'[u]] = "gone"
    BY <1>1, <1>3, Zenon DEF IInv, HandleTypes, JoinsUnderLock
  <2>3. \A h \in taken' : lock'[h] = Nobody => at'[h] = "gone"
    BY <1>1, <1>2, <1>3, HandleConstants, Zenon DEF IInv, HandleTypes, JoinsUnderLock
  <2> QED BY <2>1, <2>2, <2>3, Zenon DEF JoinsUnderLock
<1> QED BY <1>1, <1>4, <1>5, Zenon DEF IInv, RunningInLoop, GoneIsQuiet, StartRemembered

\* A shutdown is over: the worker has ended.
LEMMA FinishStep ==
    ASSUME IInv, NEW t \in Threads, Untaken(t) \/ Joined(t) \/ Remove(t) PROVE IInv'
<1>1. UNCHANGED <<next_id, stop, running, lifecycle, starts, at, taken, inside>>
  BY Zenon DEF Untaken, Joined, Remove, registryVars, workerVars, cbVars
<1>2. on[t] \in Ids /\ on[t] < next_id /\ at[on[t]] = "gone"
  BY Zenon DEF Untaken, Joined, Remove, IInv, Unused, JoinsUnderLock
<1>3. /\ pc' \in [Threads -> {"idle", "wait", "lock", "join", "remove"}]
      /\ on' \in [Threads -> Ids \union {Nobody}]
      /\ pc'[t] = "idle" \/ (pc'[t] = "remove" /\ on'[t] = on[t])
      /\ \A u \in Threads : u # t => pc'[u] = pc[u] /\ on'[u] = on[u]
      /\ registry' \subseteq registry
  BY Zenon DEF Untaken, Joined, Remove, Finish, Leave, registryVars, IInv, HandleTypes
<1>4. /\ lock' \in [Ids -> Threads \union {Nobody}]
      /\ \A h \in Ids : lock'[h] = lock[h] \/ (h = on[t] /\ pc[t] = "join" /\ lock'[h] = Nobody)
  BY <1>2, Zenon DEF Untaken, Joined, Remove, IInv, HandleTypes
<1>5. HandleTypes' /\ Unused'
  BY <1>1, <1>2, <1>3, <1>4, Zenon DEF IInv, HandleTypes, Unused
<1>6. JoinsUnderLock'
  <2>1. ASSUME NEW u \in Threads, pc'[u] = "join" PROVE lock'[on'[u]] = u
    <3>1. u # t /\ pc[u] = "join" /\ on'[u] = on[u]
      BY <1>3, <2>1, Zenon
    <3>2. lock[on[u]] = u /\ on[u] \in Ids
      BY <3>1, Zenon DEF IInv, JoinsUnderLock, Unused
    <3>3. pc[t] = "join" => on[u] # on[t]
      BY <3>1, <3>2, Zenon DEF IInv, JoinsUnderLock
    <3> QED BY <3>1, <3>2, <3>3, <1>4, Zenon
  <2>2. \A u \in Threads : pc'[u] = "remove" => at'[on'[u]] = "gone"
    BY <1>1, <1>2, <1>3 DEF IInv, JoinsUnderLock
  <2>3. \A h \in taken' : lock'[h] = Nobody => at'[h] = "gone"
    BY <1>1, <1>2, <1>4, Zenon DEF IInv, HandleTypes, JoinsUnderLock
  <2> QED BY <2>1, <2>2, <2>3, Zenon DEF JoinsUnderLock
<1> QED BY <1>1, <1>5, <1>6, Zenon DEF IInv, RunningInLoop, GoneIsQuiet, StartRemembered

-----------------------------------------------------------------------------
\* Every step keeps the invariant.
LEMMA StepIInv == IInv /\ [Next]_vars => IInv'
<1> SUFFICES ASSUME IInv, [Next]_vars PROVE IInv'
  BY Zenon
<1>1. CASE \E h \in Ids : Worker(h)
  BY <1>1, WorkerStep, WorkerEndsStep, Zenon DEF Worker
<1>2. CASE \E t \in Threads : Create(t) \/ CreateFails(t)
  BY <1>2, CreateStep, Zenon
<1>3. CASE \E t \in Threads : \/ Timeout(t) \/ Disconnected(t)
                             \/ \E h \in Ids, c \in Kinds : Command(t, h, c)
  BY <1>3, CommandStep, Zenon
<1>4. CASE \E t \in Threads : Proceed(t)
  BY <1>4, TakeStep, FinishStep, CommandStep, Zenon DEF Proceed
<1>5. CASE \E t \in Threads : CallbackReturns(t) \/ \E h \in Ids : Callback(t, h)
  BY <1>5, CallbackStep, Zenon
<1>6. CASE \E t \in Threads, h \in Ids, s \in {"stop", "destroy"} : Shutdown(t, h, s)
  BY <1>6, ShutdownStep, Zenon
<1>7. CASE \E h \in Ids : PacketsEnd(h)
  <2>1. /\ UNCHANGED <<registry, next_id, running, lifecycle, starts, at, pc, on, lock, taken, inside>>
        /\ stop \subseteq stop' /\ stop' \subseteq stop \union Ids
    BY <1>7, Zenon DEF PacketsEnd, registryVars, workerVars, callVars, joinVars, cbVars
  <2>2. HandleTypes' /\ StartRemembered'
    BY <2>1, Zenon DEF IInv, HandleTypes, StartRemembered
  <2>3. Unused'
    BY <2>1, Zenon DEF IInv, Unused
  <2> QED BY <2>1, <2>2, <2>3, Zenon DEF IInv, RunningInLoop, GoneIsQuiet, JoinsUnderLock
<1>8. CASE UNCHANGED vars
  BY <1>8, Zenon DEF vars, dataVars, registryVars, workerVars, callVars, joinVars, cbVars, IInv, HandleTypes, Unused,
     RunningInLoop, GoneIsQuiet, JoinsUnderLock, StartRemembered
<1> QED BY <1>1, <1>2, <1>3, <1>4, <1>5, <1>6, <1>7, <1>8, Zenon DEF Next

\* The invariant holds in every state of the handles.
THEOREM HandleInvariant == Spec => []IInv
<1>1. Init => IInv
  BY InitIInv, Zenon
<1>2. IInv /\ [Next]_vars => IInv'
  BY StepIInv, Zenon
<1> QED BY <1>1, <1>2, PTL DEF Spec

-----------------------------------------------------------------------------
\* start_inner runs at most once per handle.
THEOREM StartIsOneShot == Spec => []StartedOnce
<1>1. IInv => StartedOnce
  BY Zenon DEF IInv, StartRemembered, StartedOnce
<1> QED BY <1>1, HandleInvariant, PTL

\* A destroyed handle never becomes valid again.
THEOREM HandlesNeverReused == Spec => NeverReused
<1>1. IInv /\ [Next]_vars => [\A h \in Ids : h \in registry' \ registry => h >= next_id]_vars
  <2> SUFFICES ASSUME IInv, Next, NEW h \in Ids, h \in registry' \ registry
               PROVE  h >= next_id
    BY Zenon DEF vars
  <2>1. registry' \subseteq registry \union {next_id}
    <3>1. CASE \E k \in Ids : Worker(k)
      BY <3>1, Zenon DEF Worker, Serve, BeginStart, StartOk, StartFails, StartRefused, NetworkChanged,
         SetFd, SetFdFails, Break, WorkerEnds, registryVars
    <3>2. CASE \E t \in Threads : Create(t) \/ CreateFails(t)
      BY <3>2, Zenon DEF Create, CreateFails
    <3>3. CASE \E t \in Threads : Proceed(t)
      BY <3>3, Zenon DEF Proceed, Take, Untaken, Joined, Remove, Disconnected, registryVars
    <3>4. CASE \E t \in Threads : Timeout(t) \/ CallbackReturns(t) \/ \E k \in Ids : Callback(t, k)
      BY <3>4, Zenon DEF Timeout, CallbackReturns, Callback, registryVars
    <3>5. CASE \E t \in Threads, k \in Ids : \/ \E c \in Kinds : Command(t, k, c)
                                           \/ \E s \in {"stop", "destroy"} : Shutdown(t, k, s)
      BY <3>5, Zenon DEF Command, Shutdown, registryVars
    <3>6. CASE \E k \in Ids : PacketsEnd(k)
      BY <3>6, Zenon DEF PacketsEnd, registryVars
    <3> QED BY <3>1, <3>2, <3>3, <3>4, <3>5, <3>6, Zenon DEF Next
  <2> QED BY <2>1 DEF IInv, HandleTypes
<1> QED BY <1>1, HandleInvariant, PTL DEF Spec, NeverReused

-----------------------------------------------------------------------------
(* The packets of a handle                                                  *)

Sendable == 1..MaxPackets

\* The writer's packet is one of the packets, and it puts nothing once the worker
\* has ended; nothing was taken up when a descriptor replaces the channels.
PacketInv ==
    /\ sent \in 0..MaxPackets
    /\ writer \in {"idle", "send", "notify", "gone"}
    /\ writer = "send" => sent \in Sendable
    /\ gone => writer = "gone"
    /\ enabled \in BOOLEAN
    /\ ~enabled => sent = 0
    /\ sent = 0 => writer \in {"idle", "gone"} /\ Unread = <<>>
    /\ output \in Seq(Sendable) /\ pending \in Sendable \union {None}

\* Nothing is in the queue.
LEMMA PacketInitInv == PacketInit => PacketInv
BY PacketConstants DEF PacketInit, PacketInv, Sendable, Unread

\* What a sequence with one element before it is.
LEMMA PutBefore ==
    ASSUME NEW S, NEW p \in S, NEW q \in Seq(S)
    PROVE  /\ <<p>> \o q \in Seq(S) /\ <<p>> \o q # <<>>
           /\ Head(<<p>> \o q) = p /\ Tail(<<p>> \o q) = q
           /\ \A x \in S : Append(<<p>> \o q, x) = <<p>> \o Append(q, x)
<1>1. <<p>> \in Seq(S) /\ Len(<<p>>) = 1 /\ <<p>>[1] = p /\ <<p>> # <<>>
  OBVIOUS
<1>2. /\ <<p>> \o q \in Seq(S) /\ <<p>> \o q # <<>> /\ Len(<<p>> \o q) = Len(q) + 1
      /\ (<<p>> \o q)[1] = p
      /\ \A i \in 1..Len(q) : (<<p>> \o q)[i + 1] = q[i]
  BY <1>1
<1>3. Head(<<p>> \o q) = p
  BY <1>2
<1>4. Tail(<<p>> \o q) = q
  BY <1>2
<1>5. ASSUME NEW x \in S PROVE Append(<<p>> \o q, x) = <<p>> \o Append(q, x)
  <2>1. /\ <<x>> \in Seq(S) /\ Append(q, x) = q \o <<x>>
        /\ Append(<<p>> \o q, x) = (<<p>> \o q) \o <<x>>
    BY <1>2, AppendIsConcat
  <2> QED BY <2>1, <1>1, ConcatAssociative
<1> QED BY <1>2, <1>3, <1>4, <1>5, Zenon

\* A sequence is its head before its tail.
LEMMA HeadBeforeTail ==
    ASSUME NEW S, NEW q \in Seq(S), q # <<>>
    PROVE  Head(q) \in S /\ Tail(q) \in Seq(S) /\ <<Head(q)>> \o Tail(q) = q
<1>1. Head(q) \in S /\ Tail(q) \in Seq(S)
  BY HeadTailProperties, Zenon
<1>2. /\ <<Head(q)>> \o Tail(q) \in Seq(S)
      /\ Len(<<Head(q)>> \o Tail(q)) = Len(q)
      /\ \A i \in 1..Len(q) : (<<Head(q)>> \o Tail(q))[i] = q[i]
  BY <1>1
<1> QED BY <1>1, <1>2, SeqEqual, Zenon

\* What the host has not read, by whether a read has left a packet.
LEMMA UnreadFacts ==
    ASSUME PacketInv
    PROVE  /\ None \notin Sendable
           /\ Unread \in Seq(Sendable)
           /\ pending = None => Unread = output
           /\ pending # None => /\ Unread = <<pending>> \o output /\ Unread # <<>>
                                /\ Head(Unread) = pending /\ Tail(Unread) = output
<1>1. None \notin Sendable
  BY PacketConstants, Zenon DEF Sendable
<1>2. CASE pending = None
  BY <1>1, <1>2, ConcatEmptySeq, Zenon DEF Unread, PacketInv
<1>3. CASE pending # None
  BY <1>1, <1>3, PutBefore DEF Unread, PacketInv
<1> QED BY <1>1, <1>2, <1>3, Zenon
\* A read takes the head of the queue or leaves it there.
LEMMA TakesHead ==
    ASSUME PacketInv, Unread # <<>>, output' = Rest
    PROVE  /\ Head(Unread) \in Sendable /\ output' \in Seq(Sendable)
           /\ pending' = None => Unread' = Tail(Unread)
           /\ pending' = Head(Unread) => Unread' = Unread
<1>0. /\ None \notin Sendable /\ Unread \in Seq(Sendable)
      /\ pending = None => Unread = output
      /\ pending # None => Unread = <<pending>> \o output /\ Head(Unread) = pending /\ Tail(Unread) = output
  BY UnreadFacts, Zenon
<1>1. output' = Tail(Unread)
  BY <1>0, Zenon DEF Rest
<1>2. Head(Unread) \in Sendable /\ output' \in Seq(Sendable) /\ <<Head(Unread)>> \o output' = Unread
  BY <1>0, <1>1, HeadBeforeTail, Zenon
<1>3. ASSUME pending' = None PROVE Unread' = Tail(Unread)
  BY <1>1, <1>2, <1>3, ConcatEmptySeq, Zenon DEF Unread
<1>4. ASSUME pending' = Head(Unread) PROVE Unread' = Unread
  BY <1>0, <1>2, <1>4, Zenon DEF Unread
<1> QED BY <1>2, <1>3, <1>4, Zenon

\* A read that returns is one the header describes.
LEMMA ReadsStep ==
    ASSUME PacketInv, enabled, ReadNothing \/ TakeTooSmall \/ TakeOk, UNCHANGED <<stopVars, writer, sent>>
    PROVE  PacketInv' /\ Queue!QueueNext
<1>1. CASE ReadNothing
  <2>1. UNCHANGED <<output, pending, gone, enabled, Unread>>
    BY <1>1, Zenon DEF ReadNothing, readVars, stopVars, Unread
  <2> QED BY <1>1, <2>1, Zenon DEF PacketInv, ReadNothing, Returns, Queue!QueueNext, Queue!ReadWouldBlock,
             Queue!ReadFails, Queue!Answers
<1>2. CASE TakeTooSmall
  <2>1. /\ Head(Unread) \in Sendable /\ output' \in Seq(Sendable) /\ Unread' = Unread
        /\ pending' = Head(Unread) /\ Unread # <<>> /\ gone' = gone /\ enabled' = enabled
    BY <1>2, TakesHead, Zenon DEF TakeTooSmall, stopVars
  <2> QED BY <1>2, <2>1, Zenon DEF PacketInv, TakeTooSmall, Returns, Queue!QueueNext, Queue!ReadTooSmall, Queue!Answers
<1>3. CASE TakeOk
  <2>1. /\ output' \in Seq(Sendable) /\ Unread' = Tail(Unread)
        /\ pending' = None /\ Unread # <<>> /\ gone' = gone /\ enabled' = enabled
    BY <1>3, TakesHead, Zenon DEF TakeOk, stopVars
  <2> QED BY <1>3, <2>1, Zenon DEF PacketInv, TakeOk, Returns, Queue!QueueNext, Queue!ReadOk, Queue!Answers
<1> QED BY <1>1, <1>2, <1>3, Zenon

\* The writer's packet comes last in the queue.
LEMMA SendStep ==
    ASSUME PacketInv, Send
    PROVE  PacketInv' /\ Queue!QueueNext
<1>1. CASE writer = "send"
  <2>1. /\ sent \in Sendable /\ sent # 0 /\ enabled /\ enabled' = enabled /\ ~gone /\ gone' = gone /\ pending' = pending /\ sent' = sent
        /\ output' = Append(output, sent) /\ writer' = "notify" /\ answer' = NoAnswer
    BY <1>1 DEF Send, PacketInv, Quietly, stopVars, Sendable
  <2>2. Unread' = Append(Unread, sent)
    <3>1. CASE pending = None
      BY <2>1, <3>1, UnreadFacts, ConcatEmptySeq, AppendProperties DEF Unread, PacketInv
    <3>2. CASE pending # None
      BY <2>1, <3>2, PutBefore DEF Unread, PacketInv
    <3> QED BY <3>1, <3>2, Zenon
  <2>3. PacketInv'
    BY <2>1, AppendProperties, Zenon DEF PacketInv
  <2>4. Queue!Put(sent)
    BY <2>1, <2>2, Zenon DEF Queue!Put, Queue!NoAnswer, NoAnswer
  <2> QED BY <2>1, <2>3, <2>4, Zenon DEF Queue!QueueNext, Sendable
<1>2. CASE writer # "send"
  <2>1. UNCHANGED <<output, pending, gone, enabled, sent, Unread>> /\ writer = "notify" /\ writer' = "idle" /\ answer' = NoAnswer
    BY <1>2, Zenon DEF Send, Quietly, readVars, stopVars, Unread
  <2> QED BY <2>1, Zenon DEF PacketInv, Queue!QueueNext, Queue!Unseen, Queue!NoAnswer, NoAnswer
<1> QED BY <1>1, <1>2, Zenon

\* No other step changes the queue, and only the end of the worker and a
\* descriptor close it.
LEMMA PacketStep ==
    PacketInv /\ [PacketNext]_packetVars => PacketInv' /\ [Queue!QueueNext]_(Queue!queueVars)
<1> SUFFICES ASSUME PacketInv, [PacketNext]_packetVars
             PROVE  PacketInv' /\ [Queue!QueueNext]_(Queue!queueVars)
  BY Zenon
<1>1. CASE Send
  BY <1>1, SendStep, Zenon
<1>2. CASE enabled /\ (Read \/ Drain)
  BY <1>2, ReadsStep, Zenon DEF Read, Drain, Refused
<1>3. CASE ~enabled /\ Read
  <2>1. UNCHANGED <<output, pending, gone, enabled, sent, writer, Unread>> /\ Unread = <<>>
    BY <1>3, Zenon DEF Read, Refused, PacketInv, readVars, stopVars, Unread
  <2>2. answer' = [status |-> "ERROR", packet |-> None]
    BY <1>3, Zenon DEF Read, Refused, Returns
  <2> QED BY <1>3, <2>1, <2>2, Zenon DEF PacketInv, Queue!QueueNext, Queue!ReadFails, Queue!Answers
<1>4. CASE UseDescriptor
  <2>1. UNCHANGED <<output, pending, sent, gone, writer, Unread>> /\ sent = 0 /\ enabled' = FALSE /\ answer' = NoAnswer
    BY <1>4, Zenon DEF UseDescriptor, Quietly, readVars, Unread
  <2> QED BY <2>1, Zenon DEF PacketInv, Queue!QueueNext, Queue!Close, Queue!NoAnswer, NoAnswer
<1>5. CASE Produce \/ SendTimeout \/ Halt \/ Wake \/ Write \/ Recv
  <2>1. UNCHANGED <<output, pending, gone, enabled, Unread>> /\ answer' = NoAnswer
    BY <1>5, Zenon DEF Produce, SendTimeout, Halt, Wake, Write, Recv, Quietly, readVars, stopVars, Unread
  <2>2. PacketInv'
    BY <1>5, <2>1, PacketConstants DEF PacketInv, Sendable, Produce, SendTimeout, Halt, Wake, Write, Recv
  <2> QED BY <2>1, <2>2, Zenon DEF Queue!QueueNext, Queue!Unseen, Queue!NoAnswer, NoAnswer
<1>6. CASE WorkerGone
  <2>1. UNCHANGED <<output, pending, sent, enabled, Unread>> /\ gone' = TRUE /\ writer' = "gone" /\ answer' = NoAnswer
    BY <1>6, Zenon DEF WorkerGone, Quietly, readVars, Unread
  <2> QED BY <2>1, Zenon DEF PacketInv, Queue!QueueNext, Queue!Close, Queue!NoAnswer, NoAnswer
<1>7. CASE UNCHANGED packetVars
  <2>1. UNCHANGED <<output, pending, gone, enabled, sent, writer, answer, Unread>>
    BY <1>7, Zenon DEF packetVars, readVars, stopVars, Unread
  <2> QED BY <2>1, Zenon DEF PacketInv, Queue!queueVars
<1> QED BY <1>1, <1>2, <1>3, <1>4, <1>5, <1>6, <1>7, Zenon DEF PacketNext, Drain

\* The packet queue of host.rs implements the queue of the header: packets come in
\* order, and a buffer that is too small neither loses nor repeats one.
THEOREM PacketsFollowHeader == PacketSpec => ReadsFollowHeader
<1>1. PacketInit => Queue!QueueInit
  <2> SUFFICES ASSUME PacketInit PROVE Queue!QueueInit
    BY Zenon
  <2>1. Unread = <<>>
    BY PacketInitInv, UnreadFacts, Zenon DEF PacketInit
  <2> QED BY <2>1, Zenon DEF PacketInit, Queue!QueueInit, Queue!NoAnswer, NoAnswer
<1> QED BY <1>1, PacketInitInv, PacketStep, PTL DEF PacketSpec, ReadsFollowHeader, Queue!QueueSpec
=============================================================================
