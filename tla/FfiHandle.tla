----------------------------- MODULE FfiHandle ------------------------------
(***************************************************************************)
(* The handles of the C ABI (crates/ffi/src/lib.rs, host.rs).  Each handle  *)
(* owns a worker thread that serves a bounded queue of commands and owns    *)
(* the runtime whose threads call back into the host.  Host threads create, *)
(* start, notify, stop and destroy handles at the same time; a call waits   *)
(* for the worker's reply (30 s) or joins the worker.  MetaAbi is what the  *)
(* header promises of all this.                                             *)
(***************************************************************************)
EXTENDS Naturals, Sequences, FiniteSets

CONSTANTS
    MaxId,          \* the last handle identifier (2^64 - 1)
    MaxHandles,     \* the capacity of the registry (16)
    QueueLen,       \* the length of the command queue (4)
    MaxCalls,       \* bound: callbacks per handle
    HostThreads,    \* threads of the host
    RuntimeThreads, \* runtime threads while they run a callback
    Nobody          \* no thread, no handle

Ids == 1..(MaxId - 1)   \* checked_add never gives the last one out
Threads == HostThreads \union RuntimeThreads

ASSUME HandleConstants ==
    /\ MaxId \in Nat /\ MaxHandles \in Nat /\ QueueLen \in Nat /\ MaxCalls \in Nat
    /\ HostThreads \cap RuntimeThreads = {} /\ Nobody \notin Threads \union Ids

VARIABLES
    registry, next_id,  \* HANDLES and NEXT
    stop,               \* the cancelled cores
    lifecycle, starts,  \* Core::lifecycle, and how often start_inner ran
    queue,              \* the commands of each handle, with the waiting caller
    at, serving,        \* where the worker is, and the command it serves
    running,            \* the worker holds a Running
    lock, taken,        \* Handle::worker: who holds the mutex, whether it is empty
    pc, on, op,         \* the call a thread is in, its handle and what it is
    inside, calls,      \* the handle whose callback a thread runs; callbacks so far
    fd,                 \* the handle has a descriptor
    reply               \* the call that returns in this step, and its status

registryVars == <<registry, next_id>>
workerVars == <<queue, at, serving, running, lifecycle, starts>>
callVars == <<pc, on, op>>
joinVars == <<lock, taken>>
cbVars == <<inside, calls>>
dataVars == <<registryVars, stop, workerVars, callVars, joinVars, cbVars, fd>>
vars == <<dataVars, reply>>

Kinds == {"start", "network", "fd"}
Commands == [cmd : Kinds, caller : Threads \union {Nobody}]
Nothing == [thread |-> Nobody, status |-> "none"]
Idle == [cmd |-> "none", caller |-> Nobody]

Init ==
    /\ registry = {} /\ next_id = 1 /\ stop = {}
    /\ lifecycle = {} /\ starts = [h \in Ids |-> 0]
    /\ queue = [h \in Ids |-> <<>>]
    /\ at = [h \in Ids |-> "none"] /\ serving = [h \in Ids |-> Idle] /\ running = {}
    /\ lock = [h \in Ids |-> Nobody] /\ taken = {}
    /\ pc = [t \in Threads |-> "idle"] /\ on = [t \in Threads |-> Nobody]
    /\ op = [t \in Threads |-> "none"]
    /\ inside = [t \in Threads |-> Nobody] /\ calls = [h \in Ids |-> 0]
    /\ fd = {} /\ reply = Nothing

-----------------------------------------------------------------------------
\* a thread that may call: a host thread, or a callback that tries to
Calls(t) == pc[t] = "idle" /\ (t \in HostThreads \/ inside[t] # Nobody)

\* check_lifecycle
MayEnterAlways(t) == TRUE
MayEnter(t) == inside[t] = Nobody

\* boundary: a call returns its status, ERROR with the text of this thread
Answer(t, s) == reply' = [thread |-> t, status |-> s]
Silent == reply' = Nothing

HasRoom == Cardinality(registry) < MaxHandles

\* meta_create_v1, Handle::new: the registry is locked throughout
Create(t) ==
    /\ Calls(t) /\ MayEnter(t)
    /\ HasRoom /\ next_id < MaxId
    /\ next_id' = next_id + 1
    /\ registry' = registry \union {next_id}
    /\ at' = [at EXCEPT ![next_id] = "loop"]
    /\ Answer(t, "OK")
    /\ UNCHANGED <<stop, queue, serving, running, lifecycle, starts, callVars, joinVars, cbVars, fd>>

\* Handle::new fails: the identifier is spent
CreateFails(t) ==
    /\ Calls(t) /\ MayEnter(t)
    /\ HasRoom /\ next_id < MaxId
    /\ next_id' = next_id + 1
    /\ Answer(t, "ERROR")
    /\ UNCHANGED <<registry, stop, workerVars, callVars, joinVars, cbVars, fd>>

Enter(t, h, what, where) ==
    /\ Silent
    /\ pc' = [pc EXCEPT ![t] = where]
    /\ on' = [on EXCEPT ![t] = h] /\ op' = [op EXCEPT ![t] = what]
Leave(t, s) ==
    /\ Answer(t, s)
    /\ pc' = [pc EXCEPT ![t] = "idle"]
    /\ on' = [on EXCEPT ![t] = Nobody] /\ op' = [op EXCEPT ![t] = "none"]

\* Handle::command: refused on a stopped core and on a full or closed queue
Command(t, h, what) ==
    /\ Calls(t) /\ MayEnter(t) /\ h \in registry
    /\ h \notin stop
    /\ at[h] # "gone" /\ Len(queue[h]) < QueueLen
    /\ queue' = [queue EXCEPT ![h] = Append(@, [cmd |-> what, caller |-> t])]
    /\ Enter(t, h, what, "wait")
    /\ UNCHANGED <<registryVars, stop, at, serving, running, lifecycle, starts, joinVars, cbVars, fd>>

\* recv_timeout expires: the core is cancelled, and the reply will reach nobody
Orphan(c, t) == IF c.caller = t THEN [c EXCEPT !.caller = Nobody] ELSE c
Timeout(t) ==
    /\ pc[t] = "wait"
    /\ LET h == on[t] IN
       /\ stop' = stop \union {h}
       /\ queue' = [queue EXCEPT ![h] = [i \in DOMAIN @ |-> Orphan(@[i], t)]]
       /\ serving' = [serving EXCEPT ![h] = Orphan(@, t)]
    /\ Leave(t, "ERROR")
    /\ UNCHANGED <<registryVars, at, running, lifecycle, starts, joinVars, cbVars, fd>>

\* the worker has ended with the command in its queue
Disconnected(t) ==
    /\ pc[t] = "wait" /\ at[on[t]] = "gone"
    /\ stop' = stop \union {on[t]}
    /\ Leave(t, "ERROR")
    /\ UNCHANGED <<registryVars, workerVars, joinVars, cbVars, fd>>

-----------------------------------------------------------------------------
\* the worker takes a command; the select is biased towards stop
StartAllowed(h) == h \notin lifecycle /\ h \notin stop

Serve(h) ==
    /\ at[h] = "loop" /\ h \notin stop /\ queue[h] # <<>>
    /\ queue' = [queue EXCEPT ![h] = Tail(@)]
    /\ serving' = [serving EXCEPT ![h] = Head(queue[h])]
    /\ at' = [at EXCEPT ![h] = "serving"]
    /\ Silent
    /\ UNCHANGED <<registryVars, stop, running, lifecycle, starts, callVars, joinVars, cbVars, fd>>

\* start_with_packets up to start_inner
BeginStart(h) ==
    /\ at[h] = "serving" /\ serving[h].cmd = "start" /\ StartAllowed(h)
    /\ lifecycle' = lifecycle \union {h}
    /\ starts' = [starts EXCEPT ![h] = @ + 1]
    /\ at' = [at EXCEPT ![h] = "starting"]
    /\ Silent
    /\ UNCHANGED <<registryVars, stop, queue, serving, running, callVars, joinVars, cbVars, fd>>

\* reply.send: the caller, if it still waits, returns
Reply(h, s) ==
    /\ at' = [at EXCEPT ![h] = "loop"] /\ serving' = [serving EXCEPT ![h] = Idle]
    /\ LET t == serving[h].caller IN
       IF t = Nobody THEN Silent /\ UNCHANGED callVars ELSE Leave(t, s)

StartOk(h) ==
    /\ at[h] = "starting" /\ running' = running \union {h}
    /\ Reply(h, "OK")
    /\ UNCHANGED <<registryVars, stop, queue, lifecycle, starts, joinVars, cbVars, fd>>

\* start_inner fails: the core is cancelled for good
StartFails(h) ==
    /\ at[h] = "starting" /\ stop' = stop \union {h} /\ lifecycle' = lifecycle \ {h}
    /\ Reply(h, "ERROR")
    /\ UNCHANGED <<registryVars, queue, running, starts, joinVars, cbVars, fd>>

StartRefused(h) ==
    /\ at[h] = "serving" /\ serving[h].cmd = "start" /\ ~StartAllowed(h)
    /\ Reply(h, "ERROR")
    /\ UNCHANGED <<registryVars, stop, queue, running, lifecycle, starts, joinVars, cbVars, fd>>

NetworkChanged(h) ==
    /\ at[h] = "serving" /\ serving[h].cmd = "network"
    /\ Reply(h, "OK")
    /\ UNCHANGED <<registryVars, stop, queue, running, lifecycle, starts, joinVars, cbVars, fd>>

\* Command::SetFd: the queues give way to the descriptor; it fails when the core
\* runs, without tun.enable, and when the descriptor is no TUN device
SetFd(h) ==
    /\ at[h] = "serving" /\ serving[h].cmd = "fd" /\ h \notin running
    /\ fd' = fd \union {h}
    /\ Reply(h, "OK")
    /\ UNCHANGED <<registryVars, stop, queue, running, lifecycle, starts, joinVars, cbVars>>
SetFdFails(h) ==
    /\ at[h] = "serving" /\ serving[h].cmd = "fd"
    /\ Reply(h, "ERROR")
    /\ UNCHANGED <<registryVars, stop, queue, running, lifecycle, starts, joinVars, cbVars, fd>>

\* the task of the packet interface ends, and cancels the core
PacketsEnd(h) ==
    /\ h \in running \/ at[h] = "starting"
    /\ h \notin stop /\ stop' = stop \union {h} /\ Silent
    /\ UNCHANGED <<registryVars, workerVars, callVars, joinVars, cbVars, fd>>

\* the loop ends and the Running, if there is one, shuts down
Break(h) ==
    /\ at[h] = "loop" /\ h \in stop
    /\ at' = [at EXCEPT ![h] = "dropping"]
    /\ running' = running \ {h}
    /\ lifecycle' = IF h \in running THEN lifecycle \ {h} ELSE lifecycle
    /\ Silent
    /\ UNCHANGED <<registryVars, stop, queue, serving, starts, callVars, joinVars, cbVars, fd>>

\* the runtime is dropped, which waits for its threads, then the thread ends and
\* the queue with it
Quiesced(h) == \A t \in Threads : inside[t] # h
WorkerEnds(h) ==
    /\ at[h] = "dropping" /\ Quiesced(h)
    /\ at' = [at EXCEPT ![h] = "gone"]
    /\ queue' = [queue EXCEPT ![h] = <<>>]
    /\ Silent
    /\ UNCHANGED <<registryVars, stop, serving, running, lifecycle, starts, callVars, joinVars, cbVars, fd>>

\* a task of the runtime protects a socket or announces a packet: tasks run from
\* start_inner on and, until the runtime has joined its threads, while it drops
Callback(t, h) ==
    /\ t \in RuntimeThreads /\ inside[t] = Nobody
    /\ at[h] \in {"starting", "dropping"} \/ h \in running
    /\ starts[h] > 0 /\ calls[h] < MaxCalls
    /\ inside' = [inside EXCEPT ![t] = h] /\ calls' = [calls EXCEPT ![h] = @ + 1]
    /\ Silent
    /\ UNCHANGED <<registryVars, stop, workerVars, callVars, joinVars, fd>>

CallbackReturns(t) ==
    /\ inside[t] # Nobody /\ pc[t] = "idle"
    /\ inside' = [inside EXCEPT ![t] = Nobody]
    /\ Silent
    /\ UNCHANGED <<registryVars, stop, workerVars, callVars, joinVars, calls, fd>>

-----------------------------------------------------------------------------
\* Handle::shutdown up to the mutex, from meta_stop_v1 or meta_destroy_v1
Shutdown(t, h, what) ==
    /\ Calls(t) /\ MayEnter(t) /\ h \in registry
    /\ stop' = stop \union {h}
    /\ Enter(t, h, what, "lock")
    /\ UNCHANGED <<registryVars, workerVars, joinVars, cbVars, fd>>

\* the mutex is held while the worker is joined
TakeReleased(t) ==
    /\ pc[t] = "lock" /\ lock[on[t]] = Nobody /\ on[t] \notin taken
    /\ taken' = taken \union {on[t]}
    /\ pc' = [pc EXCEPT ![t] = "join"]
    /\ Silent
    /\ UNCHANGED <<registryVars, stop, workerVars, on, op, lock, cbVars, fd>>
Take(t) ==
    /\ pc[t] = "lock" /\ lock[on[t]] = Nobody /\ on[t] \notin taken
    /\ lock' = [lock EXCEPT ![on[t]] = t] /\ taken' = taken \union {on[t]}
    /\ pc' = [pc EXCEPT ![t] = "join"]
    /\ Silent
    /\ UNCHANGED <<registryVars, stop, workerVars, on, op, cbVars, fd>>

\* stop returns; destroy goes on to remove the handle
Finish(t) ==
    IF op[t] = "stop"
      THEN Leave(t, "OK")
      ELSE pc' = [pc EXCEPT ![t] = "remove"] /\ Silent /\ UNCHANGED <<on, op>>

\* the worker was joined before: nothing to wait for
Untaken(t) ==
    /\ pc[t] = "lock" /\ lock[on[t]] = Nobody /\ on[t] \in taken
    /\ Finish(t)
    /\ UNCHANGED <<registryVars, stop, workerVars, lock, taken, cbVars, fd>>

Joined(t) ==
    /\ pc[t] = "join" /\ at[on[t]] = "gone"
    /\ lock' = [lock EXCEPT ![on[t]] = Nobody]
    /\ Finish(t)
    /\ UNCHANGED <<registryVars, stop, workerVars, taken, cbVars, fd>>

Remove(t) ==
    /\ pc[t] = "remove"
    /\ registry' = registry \ {on[t]}
    /\ Leave(t, "OK")
    /\ UNCHANGED <<next_id, stop, workerVars, lock, taken, cbVars, fd>>

-----------------------------------------------------------------------------
\* the header's view of this state
PhaseOf(h) ==
    CASE at[h] = "none" -> "none"
      [] at[h] = "dropping" -> "ended"
      [] at[h] = "gone" -> "joined"
      [] OTHER -> IF h \in running THEN "running"
                  ELSE IF starts[h] > 0 THEN "starting" ELSE "fresh"
Abi == INSTANCE MetaAbi WITH
    Handles <- Ids, valid <- registry,
    phase <- [h \in Ids |-> PhaseOf(h)],
    call <- [t \in Threads |-> [fn |-> op[t], handle |-> on[t]]]

-----------------------------------------------------------------------------
Worker(h) ==
    \/ Serve(h) \/ BeginStart(h) \/ StartOk(h) \/ StartFails(h) \/ StartRefused(h)
    \/ NetworkChanged(h) \/ SetFd(h) \/ SetFdFails(h) \/ Break(h) \/ WorkerEnds(h)
Proceed(t) == Take(t) \/ Untaken(t) \/ Joined(t) \/ Remove(t) \/ Disconnected(t)

Next ==
    \/ \E h \in Ids : Worker(h)
    \/ \E h \in Ids : PacketsEnd(h)
    \/ \E t \in Threads : \/ Create(t) \/ CreateFails(t) \/ Timeout(t)
                          \/ Proceed(t) \/ CallbackReturns(t)
                          \/ \E h \in Ids : \/ Callback(t, h)
                                            \/ \E c \in Kinds : Command(t, h, c)
                                            \/ \E s \in {"stop", "destroy"} : Shutdown(t, h, s)

Spec == Init /\ [][Next]_vars

\* The worker, the runtime and a thread inside a call go on; start_inner ends,
\* since every await in it has a deadline; callbacks return, as the header asks.
Fairness ==
    /\ \A h \in Ids : WF_vars(Worker(h))
    /\ \A t \in HostThreads : WF_vars(Proceed(t))
    /\ \A t \in RuntimeThreads : WF_vars(CallbackReturns(t))
LiveSpec == Spec /\ Fairness

-----------------------------------------------------------------------------

\* The library keeps the contract of its header: handles are checked and never
\* reused, start succeeds once and only when asked for, a descriptor is set before
\* start only, lifecycle calls are refused in a callback, and stop and destroy
\* return when worker and callbacks are joined.
KeepsContract == Abi!Spec

\* Start is allowed once: start_inner never runs twice for one handle, whatever
\* starts are queued, fail or time out.
StartedOnce == \A h \in Ids : starts[h] <= 1

\* Handles are checked IDs: a destroyed handle never becomes valid again.
NeverReused ==
    [][\A h \in Ids : h \in registry' \ registry => h >= next_id]_vars

\* Every call of the ABI returns: no start, stop or destroy waits for ever,
\* whatever the others do, although callbacks may try to call.
CallsReturn == \A t \in HostThreads : pc[t] # "idle" ~> pc[t] = "idle"
=============================================================================
