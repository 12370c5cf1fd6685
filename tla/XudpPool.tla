------------------------------ MODULE XudpPool ------------------------------
(***************************************************************************)
(* UDP sessions of a core over XUDP (crates/core/src/lib.rs,                *)
(* datagram_with_global_id and datagram_inner): a caller takes the          *)
(* multiplexer of its node from the pool, or dials one while it holds the   *)
(* pool's lock.  The pool refers weakly to a multiplexer, which lives as    *)
(* long as somebody holds it; each await may be where the 20 s of the call  *)
(* end.  What goes over a multiplexer is module XudpMux.                    *)
(***************************************************************************)
EXTENDS Naturals

CONSTANTS
    Flows,      \* callers, and then their sessions
    Nodes,      \* proxies that use XUDP
    MaxMuxes    \* bound: multiplexers of a behaviour

ASSUME NodesAssumption == Nodes # {}

VARIABLES
    call,       \* of a flow: "none", "wait", "dial", "got", "open"
    node,       \* the node a flow is routed to
    holds,      \* the multiplexer a flow holds, 0 when there is none
    locked,     \* the flow that holds the lock of xudp_pool
    entry,      \* xudp_pool: the multiplexer of a node
    works,      \* the multiplexers that have not failed
    dialed      \* how many were made

muxVars == <<call, node, holds, locked, entry, works, dialed>>

XudpInit ==
    /\ call = [f \in Flows |-> "none"]
    /\ node = [f \in Flows |-> CHOOSE n \in Nodes : TRUE]
    /\ holds = [f \in Flows |-> 0] /\ locked = {}
    /\ entry = [n \in Nodes |-> 0] /\ works = {} /\ dialed = 0

Becomes(f, stage) == call' = [call EXCEPT ![f] = stage]
Takes(f, m) == holds' = [holds EXCEPT ![f] = m]
Upgrades(m) == \E f \in Flows : holds[f] = m

-----------------------------------------------------------------------------
\* route_decision has named a node
Routed(f, n) ==
    /\ call[f] = "none" /\ Becomes(f, "wait") /\ node' = [node EXCEPT ![f] = n]
    /\ UNCHANGED <<holds, locked, entry, works, dialed>>

\* the lock, retain, and the look at the pool
Retained == [n \in Nodes |-> IF Upgrades(entry[n]) /\ entry[n] \in works THEN entry[n] ELSE 0]
PoolFreeAlways == TRUE
PoolFree == locked = {}
Reuses(f) ==
    /\ call[f] = "wait" /\ PoolFree
    /\ Retained[node[f]] # 0 /\ entry' = Retained
    /\ Takes(f, Retained[node[f]]) /\ Becomes(f, "got")
    /\ UNCHANGED <<node, locked, works, dialed>>
BeginsDial(f) ==
    /\ call[f] = "wait" /\ PoolFree
    /\ Retained[node[f]] = 0 /\ entry' = Retained
    /\ locked' = {f} /\ Becomes(f, "dial")
    /\ UNCHANGED <<node, holds, works, dialed>>

\* vless_stream, the new multiplexer and its entry
Dials(f) ==
    /\ call[f] = "dial" /\ dialed < MaxMuxes
    /\ dialed' = dialed + 1 /\ works' = works \union {dialed'}
    /\ entry' = [entry EXCEPT ![node[f]] = dialed']
    /\ Takes(f, dialed') /\ locked' = locked \ {f} /\ Becomes(f, "got")
    /\ UNCHANGED node

\* Multiplexer::session
Opens(f) ==
    /\ call[f] = "got" /\ holds[f] \in works /\ Becomes(f, "open")
    /\ UNCHANGED <<node, holds, locked, entry, works, dialed>>

\* The call fails, runs out of time or is dropped, or the session is dropped; the
\* multiplexer ends with the last that holds it.
Leaves(f) ==
    /\ call[f] # "none" /\ Becomes(f, "none")
    /\ Takes(f, 0) /\ locked' = locked \ {f}
    /\ works' = {m \in works : \E g \in Flows \ {f} : holds[g] = m}
    /\ UNCHANGED <<node, entry, dialed>>

\* the stream ends, or a write on it is cut off
MuxFails(m) ==
    /\ m \in works /\ works' = works \ {m}
    /\ UNCHANGED <<call, node, holds, locked, entry, dialed>>

XudpNext ==
    \/ \E f \in Flows : \/ Reuses(f) \/ BeginsDial(f) \/ Dials(f) \/ Opens(f) \/ Leaves(f)
                        \/ \E n \in Nodes : Routed(f, n)
    \/ \E m \in works : MuxFails(m)

XudpSpec == XudpInit /\ [][XudpNext]_muxVars

-----------------------------------------------------------------------------
\* The sessions of a node share one multiplexer as long as it works, and the pool
\* knows it: no two calls of one node dial at the same time, however long a dial
\* takes and wherever a call is given up.
OneMuxPerNode ==
    \A f \in Flows : holds[f] \in works => entry[node[f]] = holds[f]
=============================================================================
