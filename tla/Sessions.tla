------------------------------ MODULE Sessions ------------------------------
(***************************************************************************)
(* Proxied connections from accept to the end of their relay                *)
(* (crates/core/src/inbound.rs, lib.rs and traffic.rs): the permit, the     *)
(* handshake, the dial, the tracker with its entry in Core::connections and *)
(* its cancellation token, and the three things that end them from outside: *)
(* close_connection, network_changed and the stop of the core.  A dial over *)
(* the gRPC transport may drop its socket and take a connection of the pool *)
(* instead (GrpcPool); the pool outlives the connections that filled it.    *)
(***************************************************************************)
EXTENDS Naturals, FiniteSets

CONSTANTS
    Tasks,    \* connection tasks of the listeners
    Slots,    \* permits for accepted connections (4096)
    MaxConns, \* limit of tracked connections (4096)
    MaxNet    \* bound: changes of the network

ASSUME SessionsConstants ==
    IsFiniteSet(Tasks) /\ Slots \in Nat /\ MaxConns \in Nat /\ MaxNet \in Nat

VARIABLES
    listening,   \* serve runs
    stop,        \* Core::stop is cancelled
    stage,       \* "idle", "hello", "dial", "reply", "token", "track", "relay", "ended"
    connections, \* Core::connections
    cancelled,   \* connections whose token is cancelled
    net,         \* the present network
    from,        \* the network of the socket below a connection
    pooled,      \* the networks of the sockets in the pool of grpc.rs
    changer,     \* network_changed: "idle" or "cancel"
    closing,     \* the connections it has still to cancel
    handled,     \* the network whose change it has dealt with
    racing,      \* history: tasks between dial and tracker when the list was taken
    revived      \* history: tasks that took an older socket from the pool since then

taskVars == <<listening, stop, stage, connections, cancelled, net, from, pooled, changer, closing, handled,
              racing, revived>>
past == <<racing, revived>>
calls == <<listening, stop, net, changer, handled>>
outside == <<calls, closing>>

TaskInit ==
    /\ listening = TRUE /\ stop = FALSE /\ stage = [t \in Tasks |-> "idle"]
    /\ connections = {} /\ cancelled = {} /\ net = 0 /\ from = [t \in Tasks |-> 0]
    /\ changer = "idle" /\ closing = {} /\ handled = 0 /\ pooled = {} /\ racing = {} /\ revived = {}

Busy == {t \in Tasks : stage[t] # "idle"}
Goto(t, p) == stage' = [stage EXCEPT ![t] = p]
Step(t, a, b) == stage[t] = a /\ Goto(t, b)

-----------------------------------------------------------------------------
(* one connection                                                           *)

\* accept and try_acquire_owned; without a permit the socket is dropped
HasPermit == Cardinality(Busy) < Slots
Accept(t) ==
    /\ listening /\ HasPermit /\ Step(t, "idle", "hello")
    /\ UNCHANGED <<outside, connections, cancelled, from, pooled, past>>

\* the SOCKS or HTTP handshake, and perhaps a sniffed first packet
Handshake(t) ==
    /\ Step(t, "hello", "dial") /\ from' = [from EXCEPT ![t] = net]
    /\ UNCHANGED <<outside, connections, cancelled, pooled, past>>

\* dial: routing, DNS and connecting within 20 s, or until the core stops.  The
\* new socket stays with the connection, or enters the pool as well, ...
Dial(t) ==
    /\ Step(t, "dial", "reply") /\ pooled' \in {pooled, pooled \union {from[t]}}
    /\ UNCHANGED <<outside, connections, cancelled, from, past>>
\* ... or is dropped, and the connection is a stream on a pooled one.
DialPooled(t, n) ==
    /\ n \in pooled /\ Step(t, "dial", "reply") /\ from' = [from EXCEPT ![t] = n]
    /\ revived' = IF n < handled THEN revived \union {t} ELSE revived
    /\ UNCHANGED <<outside, connections, cancelled, pooled, racing>>

\* the client is told, and Tracker::new looks at the stop token ...
Reply(t) ==
    /\ ~stop /\ Step(t, "reply", "token")
    /\ UNCHANGED <<outside, connections, cancelled, from, pooled, past>>
\* ... makes a child of it, which is born cancelled if the core stopped meanwhile,
FreeToken(t) == cancelled
ChildToken(t) == IF stop THEN cancelled \union {t} ELSE cancelled
Token(t) ==
    /\ Step(t, "token", "track") /\ cancelled' = ChildToken(t)
    /\ UNCHANGED <<outside, connections, from, pooled, past>>
\* ... and enters the connection if there is room
Track(t) ==
    /\ Cardinality(connections) < MaxConns
    /\ Step(t, "track", "relay") /\ connections' = connections \union {t}
    /\ UNCHANGED <<outside, cancelled, from, pooled, past>>

\* The task is over: by an error before the relay, by the end of the copy, the
\* idle limit, or its token.  The tracker leaves the table before the permit
\* comes back.
MayEnd(t) ==
    \/ stage[t] \in {"hello", "dial", "relay"}
    \/ stage[t] = "reply"
    \/ stage[t] = "track" /\ Cardinality(connections) >= MaxConns
MustEnd(t) ==
    \/ stage[t] \in {"dial", "reply"} /\ stop
    \/ stage[t] = "relay" /\ t \in cancelled
    \/ stage[t] = "track" /\ Cardinality(connections) >= MaxConns
StayTracked(t) == connections
Untrack(t) == connections \ {t}
\* To cancel its token has no effect any more.
Gone(t) ==
    /\ Goto(t, "ended") /\ connections' = Untrack(t) /\ from' = [from EXCEPT ![t] = 0]
    /\ cancelled' = cancelled \ {t} /\ closing' = closing \ {t}
    /\ racing' = racing \ {t} /\ revived' = revived \ {t}
    /\ UNCHANGED <<calls, pooled>>
End(t) ==
    /\ MayEnd(t) /\ Gone(t)
Release(t) ==
    /\ Step(t, "ended", "idle")
    /\ UNCHANGED <<outside, connections, cancelled, from, pooled, past>>

\* serve has ended, and with it the JoinSet of its tasks
Aborted(t) ==
    /\ ~listening /\ stage[t] \in {"hello", "dial", "reply", "relay"} /\ Gone(t)

-----------------------------------------------------------------------------
(* from outside                                                             *)

CloseConnection(t) ==
    /\ t \in connections /\ cancelled' = cancelled \union {t}
    /\ UNCHANGED <<outside, stage, connections, from, pooled, past>>

NetworkMoves ==
    /\ net < MaxNet /\ net' = net + 1
    /\ UNCHANGED <<listening, stop, stage, connections, cancelled, from, pooled, changer, closing, handled, past>>

\* a pooled connection ends (its driver task, or ready fails)
PoolLoses(n) ==
    /\ n \in pooled /\ pooled' = pooled \ {n}
    /\ UNCHANGED <<outside, stage, connections, cancelled, from, past>>

\* network_changed takes the list of connections, then cancels each of it; the
\* pool stays as it is
Listed == connections
NetworkChanged ==
    /\ changer = "idle"
    /\ changer' = "cancel" /\ closing' = Listed /\ handled' = net
    /\ racing' = {t \in Tasks : stage[t] \in {"dial", "reply", "token", "track"}} /\ revived' = {}
    /\ UNCHANGED <<listening, stop, stage, connections, cancelled, net, from, pooled>>
CancelNext(t) ==
    /\ changer = "cancel" /\ t \in closing /\ closing' = closing \ {t}
    /\ cancelled' = cancelled \union {t}
    /\ UNCHANGED <<listening, stop, stage, connections, net, from, pooled, changer, handled, past>>
ChangeDoneEarly ==
    /\ changer = "cancel" /\ changer' = "idle" /\ closing' = {}
    /\ UNCHANGED <<listening, stop, stage, connections, cancelled, net, from, pooled, handled, past>>
ChangeDone ==
    /\ changer = "cancel" /\ closing = {} /\ changer' = "idle"
    /\ UNCHANGED <<listening, stop, stage, connections, cancelled, net, from, pooled, closing, handled, past>>

\* the stop token cancels its children
Stop ==
    /\ ~stop /\ stop' = TRUE
    /\ cancelled' = cancelled \union {t \in Tasks : stage[t] \in {"track", "relay"}}
    /\ UNCHANGED <<listening, stage, connections, net, from, pooled, changer, closing, handled, past>>
\* serve sees the stop, or an accept fails
ServeEnds ==
    /\ listening /\ listening' = FALSE
    /\ UNCHANGED <<stop, stage, connections, cancelled, net, from, pooled, changer, closing, handled, past>>

Advance(t) ==
    \/ Handshake(t) \/ Dial(t) \/ (\E n \in 0..MaxNet : DialPooled(t, n)) \/ Reply(t) \/ Token(t) \/ Track(t) \/ Release(t)
TaskNext ==
    \/ \E t \in Tasks : Accept(t) \/ Advance(t) \/ End(t) \/ Aborted(t) \/ CloseConnection(t) \/ CancelNext(t)
    \/ (\E n \in 0..MaxNet : PoolLoses(n))
    \/ NetworkMoves \/ NetworkChanged \/ ChangeDone \/ Stop \/ ServeEnds

TaskSpec == TaskInit /\ [][TaskNext]_taskVars

\* Tokio runs every task: each await before the relay has a deadline, and a
\* cancelled relay ends.
LiveSpec ==
    /\ TaskSpec /\ WF_taskVars(listening /\ stop /\ ServeEnds)
    /\ \A t \in Tasks :
         /\ WF_taskVars(Token(t) \/ Track(t) \/ Release(t))
         /\ WF_taskVars(stage[t] = "hello" /\ (Handshake(t) \/ End(t)))
         /\ WF_taskVars(MustEnd(t) /\ End(t)) /\ WF_taskVars(Aborted(t))

-----------------------------------------------------------------------------
\* The type of the state; permits and tracked connections stay within their limits.
TypeOK ==
    /\ listening \in BOOLEAN /\ stop \in BOOLEAN
    /\ stage \in [Tasks -> {"idle", "hello", "dial", "reply", "token", "track", "relay", "ended"}]
    /\ net \in 0..MaxNet /\ from \in [Tasks -> 0..MaxNet] /\ handled \in 0..MaxNet
    /\ changer \in {"idle", "cancel"} /\ closing \subseteq Tasks
    /\ pooled \subseteq 0..MaxNet /\ racing \subseteq Tasks /\ revived \subseteq Tasks
    /\ Cardinality(Busy) <= Slots /\ Cardinality(connections) <= MaxConns

\* Core::connections holds exactly the connections that are relayed.
TrackedExact == connections = {t \in Tasks : stage[t] = "relay"}

\* No connection that is or will be tracked misses the stop of the core, also
\* when the stop falls between the check of Tracker::new and the entry.
StopReachesAll ==
    stop => \A t \in Tasks : stage[t] \in {"track", "relay"} => t \in cancelled

\* Once network_changed is done, a connection over an earlier network goes on
\* only if it was between its dial and its entry when the list was taken, or has
\* since been dialed over a pooled connection.
OldNetworkNeedsRaceOrPool ==
    changer = "idle" =>
        \A t \in connections : from[t] < handled => t \in cancelled \union racing \union revived

\* "invalidates connections" (docs/platform-runtime.md): once network_changed is
\* done, no connection that was dialed after it runs over an earlier network.
ReconnectsAll ==
    changer = "idle" =>
        \A t \in connections : from[t] < handled => t \in cancelled \union racing

\* After the stop every connection task ends and the table is empty.
StopDrains == stop ~> (connections = {} /\ Busy = {})
=============================================================================
