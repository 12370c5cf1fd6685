------------------------------ MODULE GrpcPool ------------------------------
(***************************************************************************)
(* The pool of HTTP/2 connections behind the gRPC transport                 *)
(* (crates/protocol/src/grpc.rs), for one pool key.  connect picks a pooled *)
(* connection or makes one while it holds the key's creation lock; the      *)
(* stream it returns holds one unit of the connection's active counter.     *)
(* Every await of connect may be where its caller drops it.  The pool is a   *)
(* static of the process: it outlives the runtime of an FFI handle, and with *)
(* it the driver tasks that would have taken ended connections out.          *)
(***************************************************************************)
EXTENDS Naturals, FiniteSets

CONSTANTS
    Callers,        \* concurrent callers of connect, and then their streams
    MaxPhysical,    \* bound: physical connections a run makes
    Options,        \* the GrpcOptions of a proxy: 0 is no limit
    Nobody          \* no caller, no connection

Physicals == 1..MaxPhysical

ASSUME PoolConstants ==
    /\ MaxPhysical \in Nat
    /\ Options \subseteq [max_connections : Nat, min_streams : Nat, max_streams : Nat]
    /\ Nobody \notin Callers /\ Nobody \notin Physicals /\ IsFiniteSet(Callers)

VARIABLES
    opt,        \* the options of the proxy whose pool this is
    pool,       \* the connections in POOL
    active,     \* the counter of each connection
    driven,     \* the connections whose driver task runs
    ended,      \* the connections that ended and whose driver task is not over
    next_physical, \* NEXT_PHYSICAL_ID
    guard,      \* who holds the creation lock
    pc, on      \* where a caller is, and on which connection it holds a lease

tasks == <<driven, ended>>
grpcVars == <<opt, pool, active, tasks, next_physical, guard, pc, on>>

GrpcInit ==
    /\ opt \in Options
    /\ pool = {} /\ active = [p \in Physicals |-> 0] /\ driven = {} /\ ended = {} /\ next_physical = 1
    /\ guard = Nobody
    /\ pc = [c \in Callers |-> "idle"] /\ on = [c \in Callers |-> Nobody]

-----------------------------------------------------------------------------
At(c, where) == pc' = [pc EXCEPT ![c] = where]

\* ActiveLease::new, and the drop of a lease or of a GrpcStream
Lease(c, p) == active' = [active EXCEPT ![p] = @ + 1] /\ on' = [on EXCEPT ![c] = p]
UnleaseForgets(c) == on' = [on EXCEPT ![c] = Nobody] /\ UNCHANGED active
Unlease(c) == active' = [active EXCEPT ![on[c]] = @ - 1] /\ on' = [on EXCEPT ![c] = Nobody]
NoLease == UNCHANGED <<active, on>>

RemovePhysical(p) == pool' = pool \ {p}

\* connect_lock
Connect(c) ==
    /\ pc[c] = "idle"
    /\ At(c, "lock") /\ NoLease /\ UNCHANGED <<pool, tasks, next_physical, guard>>
LockIgnored == TRUE
LockFree == guard = Nobody
Lock(c) ==
    /\ pc[c] = "lock" /\ LockFree
    /\ guard' = c /\ At(c, "pick")
    /\ NoLease /\ UNCHANGED <<pool, tasks, next_physical>>

\* reuse_least_loaded
Reuse(load) ==
    \/ load = 0
    \/ opt.max_connections > 0 /\ (Cardinality(pool) >= opt.max_connections \/ load < opt.min_streams)
    \/ opt.max_connections = 0 /\ (opt.max_streams = 0 \/ load < opt.max_streams)

\* pooled: a connection with the least load
Least(p) == p \in pool /\ \A q \in pool : active[p] <= active[q]

PickPooled(c, p) ==
    /\ pc[c] = "pick" /\ Least(p) /\ Reuse(active[p])
    /\ Lease(c, p) /\ At(c, "ready")
    /\ UNCHANGED <<pool, tasks, next_physical, guard>>
PickNew(c) ==
    /\ pc[c] = "pick" /\ (pool = {} \/ \E p \in pool : Least(p) /\ ~Reuse(active[p]))
    /\ At(c, "handshake") /\ NoLease
    /\ UNCHANGED <<pool, tasks, next_physical, guard>>

\* ready() on the pooled connection: granted, or refused because the connection
\* has ended or its peer takes no more streams on it
Ready(c) ==
    /\ pc[c] \in {"ready", "fresh"} /\ on[c] \in driven
    /\ guard' = Nobody /\ At(c, "request") /\ NoLease
    /\ UNCHANGED <<pool, tasks, next_physical>>
ReadyFailsInPlace(c) ==
    /\ pc[c] = "ready"
    /\ Unlease(c) /\ At(c, "pick")
    /\ UNCHANGED <<pool, tasks, next_physical, guard>>
ReadyFails(c) ==
    /\ pc[c] = "ready"
    /\ RemovePhysical(on[c]) /\ Unlease(c) /\ At(c, "pick")
    /\ UNCHANGED <<tasks, next_physical, guard>>

\* the handshake, the push into the pool, the driver task and the lease
Handshake(c) ==
    /\ pc[c] = "handshake" /\ next_physical \in Physicals
    /\ next_physical' = next_physical + 1
    /\ pool' = pool \union {next_physical} /\ driven' = driven \union {next_physical}
    /\ Lease(c, next_physical) /\ At(c, "fresh")
    /\ UNCHANGED <<ended, guard>>

\* TLS or the handshake fails, or the caller's 20 s pass: before the lease
GiveUp(c) ==
    /\ pc[c] \in {"lock", "handshake"}
    /\ guard' = IF guard = c THEN Nobody ELSE guard
    /\ At(c, "idle") /\ NoLease
    /\ UNCHANGED <<pool, tasks, next_physical>>

\* ready or send_request fails, or the caller is dropped: with the lease
Abandon(c) ==
    /\ pc[c] \in {"ready", "fresh", "request"}
    /\ guard' = IF guard = c THEN Nobody ELSE guard
    /\ Unlease(c) /\ At(c, "idle")
    /\ UNCHANGED <<pool, tasks, next_physical>>

\* send_request: the lease is transferred to the stream
OpenStream(c) ==
    /\ pc[c] = "request"
    /\ At(c, "stream") /\ NoLease
    /\ UNCHANGED <<pool, tasks, next_physical, guard>>
DropStream(c) ==
    /\ pc[c] = "stream"
    /\ Unlease(c) /\ At(c, "idle")
    /\ UNCHANGED <<pool, tasks, next_physical, guard>>

\* the connection ends, and its driver task then removes it from the pool, ...
Die(p) ==
    /\ p \in driven
    /\ driven' = driven \ {p} /\ ended' = ended \union {p}
    /\ UNCHANGED <<pool, active, next_physical, guard, pc, on>>
Cleanup(p) ==
    /\ p \in ended
    /\ RemovePhysical(p) /\ ended' = ended \ {p}
    /\ UNCHANGED <<active, driven, next_physical, guard, pc, on>>
\* ... or the task goes with its runtime: the connection ends and stays there.
RuntimeDropped(p) ==
    /\ p \in driven \union ended
    /\ driven' = driven \ {p} /\ ended' = ended \ {p}
    /\ UNCHANGED <<pool, active, next_physical, guard, pc, on>>

Step ==
    \/ \E c \in Callers :
          \/ Connect(c) \/ Lock(c) \/ PickNew(c) \/ Ready(c) \/ ReadyFails(c) \/ Handshake(c)
          \/ GiveUp(c) \/ Abandon(c) \/ OpenStream(c) \/ DropStream(c)
          \/ \E p \in Physicals : PickPooled(c, p)
    \/ \E p \in Physicals : Die(p) \/ Cleanup(p) \/ RuntimeDropped(p)

GrpcNext == Step /\ UNCHANGED opt

GrpcSpec == GrpcInit /\ [][GrpcNext]_grpcVars
\* The loop of connect runs on, and a caller waits for ready at most its 20 s.
Looks(c) ==
    /\ pc[c] \in {"pick", "ready"}
    /\ PickNew(c) \/ (\E p \in Physicals : PickPooled(c, p)) \/ Ready(c) \/ ReadyFails(c) \/ Abandon(c)
LiveSpec == GrpcSpec /\ \A c \in Callers : WF_grpcVars(Looks(c) /\ UNCHANGED opt)

-----------------------------------------------------------------------------
Holders(p) == {c \in Callers : on[c] = p}
Holding == {"ready", "fresh", "request", "stream"}

\* The counter of a connection is the number of leases and streams on it,
\* wherever connect failed or was dropped, and also once it is not pooled.
ActiveIsExact == \A p \in Physicals : active[p] = Cardinality(Holders(p))

\* max-connections bounds the pool: the creation lock is held from the look at
\* the pool to the push.
PoolWithinLimit == opt.max_connections > 0 => Cardinality(pool) <= opt.max_connections

\* max-streams bounds the streams of a connection.
StreamsWithinLimit ==
    opt.max_connections = 0 /\ opt.max_streams > 0 => \A p \in Physicals : active[p] <= opt.max_streams

\* Both limits of the options hold, whatever callers do between the look at the
\* pool and the push of a connection.
WithinLimits == PoolWithinLimit /\ StreamsWithinLimit

\* The loop of connect ends, although no driver task may ever take an ended
\* connection out of the pool: a caller does not look at the same ones for ever,
\* with the creation lock in its hand.
RetriesEnd ==
    \A c \in Callers : pc[c] = "pick" ~> pc[c] \notin {"pick", "ready"}
=============================================================================
