------------------------------- MODULE TunUdp -------------------------------
(***************************************************************************)
(* The UDP half of the packet adapter (crates/core/src/packet.rs): the loop *)
(* of run with its destination sockets (ports) and its table of flows, and  *)
(* one session task per flow.  The loop alone touches sockets and table;    *)
(* sessions run on other threads between any two of its steps, and their    *)
(* results are matched by flow, not by session.                             *)
(*                                                                          *)
(* Time is seen only where the code compares it: a port that was used in    *)
(* this iteration is not idle, any other may be.  The device takes what a   *)
(* poll sends; one that does not for 5 s ends run (module HostPackets).     *)
(***************************************************************************)
EXTENDS Naturals, Sequences, FiniteSets

CONSTANTS
    Sources, Targets,   \* endpoints of clients and of destinations
    MaxFlows,           \* MAX_UDP (512)
    MaxPorts,           \* MAX_PORTS (256)
    SocketRoom,         \* datagrams a socket buffers (16)
    InputRoom,          \* datagrams of a session's channel (16)
    ReplyRoom,          \* capacity of the reply channel, and replies of an iteration (256)
    MaxTasks            \* bound: sessions of a behaviour

ASSUME UdpConstants == MaxTasks \in Nat

Flows == Sources \X Targets
SessionIds == 1..MaxTasks

VARIABLES
    stage,      \* the loop: "select", "join", "pump", "reply", "expire", "stopped"
    ports,      \* the destinations that have a socket
    used,       \* the ports whose last is of this iteration
    rx, tx,     \* sources of the datagrams in a socket; ports with unsent replies
    table,      \* udp_flows: the session of a flow, 0 when there is none
    owner,      \* the flow of every session so far
    life,       \* of a session: "none", "run", "done" (not yet joined), "gone"
    inbox,      \* datagrams in a session's channel
    replies,    \* the reply channel
    told,       \* sessions told to abort
    raced,      \* history: some session completed although told to abort
    stray       \* history: some session was removed for the result of another

udpLoop == <<stage, ports, used, rx, tx>>
udpHistory == <<raced, stray>>
udpVars == <<udpLoop, table, owner, life, inbox, replies, told, udpHistory>>

UdpInit ==
    /\ stage = "select" /\ ports = {} /\ used = {}
    /\ rx = [p \in Targets |-> <<>>] /\ tx = {}
    /\ table = [f \in Flows |-> 0] /\ owner = <<>>
    /\ life = [s \in SessionIds |-> "none"] /\ inbox = [s \in SessionIds |-> 0]
    /\ replies = <<>> /\ told = {} /\ raced = FALSE /\ stray = FALSE

InTable(s) == \E f \in Flows : table[f] = s

-----------------------------------------------------------------------------
(* select, with the iface.poll that follows                                 *)

\* a datagram opens the socket of its destination, and is put into it
HasPort(p) == p \in ports \/ Cardinality(ports) < MaxPorts
Datagram(f) ==
    /\ stage = "select" /\ stage' = "join"
    /\ LET p == f[2] IN
       /\ ports' = IF HasPort(p) THEN ports \union {p} ELSE ports
       /\ used' = (ports' \ ports)
       /\ rx' = IF p \in ports' /\ Len(rx[p]) < SocketRoom
                  THEN [rx EXCEPT ![p] = Append(@, f[1])] ELSE rx
    /\ UNCHANGED <<tx, table, owner, life, inbox, replies, told, udpHistory>>

UdpTick ==
    /\ stage = "select" /\ stage' = "join" /\ used' = {}
    /\ UNCHANGED <<ports, rx, tx, table, owner, life, inbox, replies, told, udpHistory>>

\* stop, or an error of the device: every session is told to abort
UdpStop ==
    /\ stage = "select" /\ stage' = "stopped"
    /\ told' = told \union {s \in SessionIds : life[s] = "run"}
    /\ table' = [f \in Flows |-> 0] /\ ports' = {} /\ used' = {}
    /\ UNCHANGED <<rx, tx, owner, life, inbox, replies, udpHistory>>

-----------------------------------------------------------------------------
(* the rest of an iteration                                                 *)

\* try_join_next: the entry of the flow goes, whichever session it names
JoinRemoves(s) == table' = [table EXCEPT ![owner[s]] = 0]
UdpJoin(s) ==
    /\ stage = "join" /\ life[s] = "done"
    /\ life' = [life EXCEPT ![s] = "gone"]
    /\ JoinRemoves(s)
    /\ stray' = (stray \/ table[owner[s]] \notin {0, s})
    /\ UNCHANGED <<udpLoop, owner, inbox, replies, told, raced>>

UdpJoined ==
    /\ stage = "join" /\ \A s \in SessionIds : life[s] # "done"
    /\ stage' = "pump"
    /\ UNCHANGED <<ports, used, rx, tx, table, owner, life, inbox, replies, told, udpHistory>>

\* a datagram goes to the session of its flow, which is made if there is room
Spawns(f) == table[f] = 0 /\ Cardinality({g \in Flows : table[g] # 0}) < MaxFlows
Enqueue(s) == IF life[s] \in {"none", "run"} /\ inbox[s] < InputRoom
             THEN inbox' = [inbox EXCEPT ![s] = @ + 1] ELSE UNCHANGED inbox
Pump(p) ==
    /\ stage = "pump" /\ p \in ports /\ rx[p] # <<>>
    /\ used' = used \union {p} /\ rx' = [rx EXCEPT ![p] = Tail(@)]
    /\ LET f == <<Head(rx[p]), p>>
           s == Len(owner) + 1 IN
       \/ /\ Spawns(f) /\ s <= MaxTasks
          /\ table' = [table EXCEPT ![f] = s] /\ owner' = Append(owner, f)
          /\ life' = [life EXCEPT ![s] = "run"] /\ Enqueue(s)
       \/ /\ table[f] # 0 /\ Enqueue(table[f])
          /\ UNCHANGED <<table, owner, life>>
       \/ /\ table[f] = 0 /\ ~(Spawns(f) /\ s <= MaxTasks)
          /\ UNCHANGED <<table, owner, life, inbox>>
    /\ UNCHANGED <<stage, ports, tx, replies, told, udpHistory>>

Pumped ==
    /\ stage = "pump" /\ \A p \in ports : rx[p] = <<>>
    /\ stage' = "reply"
    /\ UNCHANGED <<ports, used, rx, tx, table, owner, life, inbox, replies, told, udpHistory>>

\* the replies go into the sockets; one whose port is gone is dropped
Answered == {p \in ports : \E i \in DOMAIN replies : replies[i][2] = p}
SendRepliesIdle ==
    /\ stage = "reply" /\ stage' = "expire"
    /\ replies' = <<>> /\ tx' = tx \union Answered
    /\ UNCHANGED <<ports, used, rx, table, owner, life, inbox, told, udpHistory>>
SendReplies ==
    /\ stage = "reply" /\ stage' = "expire"
    /\ replies' = <<>> /\ tx' = tx \union Answered /\ used' = used \union Answered
    /\ UNCHANGED <<ports, rx, table, owner, life, inbox, told, udpHistory>>

\* the sessions of the flows that go are told to abort
ForgetSessions(gone) == UNCHANGED told
AbortSessions(gone) == told' = told \union {s \in gone : life[s] = "run"}

\* idle ports go, with their flows; the second poll sends what the others have
Orphaned(idle) == {f \in Flows : f[2] \in idle}
Expire(idle) ==
    /\ stage = "expire" /\ stage' = "select"
    /\ idle \subseteq ports \ used
    /\ LET gone == {table[f] : f \in Orphaned(idle)} \ {0} IN
       /\ AbortSessions(gone)
       /\ raced' = (raced \/ \E s \in gone : life[s] = "done")
    /\ table' = [f \in Flows |-> IF f \in Orphaned(idle) THEN 0 ELSE table[f]]
    /\ ports' = ports \ idle /\ tx' = {} /\ used' = {}
    /\ UNCHANGED <<rx, owner, life, inbox, replies, stray>>

-----------------------------------------------------------------------------
(* udp_session                                                              *)

Alive(s) == life[s] = "run" /\ UNCHANGED <<udpLoop, table, owner, stray>>

\* its end of the channel goes with it
Leaves(s, how) ==
    /\ life' = [life EXCEPT ![s] = how] /\ inbox' = [inbox EXCEPT ![s] = 0]
    /\ told' = told \ {s}
    /\ raced' = (raced \/ (how = "done" /\ s \in told))
    /\ UNCHANGED replies

Upload(s) ==
    /\ Alive(s) /\ inbox[s] > 0 /\ inbox' = [inbox EXCEPT ![s] = @ - 1]
    /\ UNCHANGED <<life, replies, told, raced>>

Download(s) ==
    /\ Alive(s) /\ Len(replies) < ReplyRoom /\ replies' = Append(replies, owner[s])
    /\ UNCHANGED <<life, inbox, told, raced>>

\* the loop has dropped the channel and everything in it was sent
NeverClosed(s) == FALSE
InputClosed(s) == ~InTable(s) /\ inbox[s] = 0
InputEnds(s) == Alive(s) /\ InputClosed(s) /\ Leaves(s, "done")

\* no datagram for 120 s, a failed dial, send or receive, or stop
SessionEnds(s) == Alive(s) /\ Leaves(s, "done")

UdpCancelled(s) == Alive(s) /\ s \in told /\ Leaves(s, "gone")

-----------------------------------------------------------------------------
Iteration ==
    \/ \E s \in SessionIds : UdpJoin(s)
    \/ UdpJoined \/ Pumped \/ SendReplies
    \/ \E p \in Targets : Pump(p)
    \/ \E idle \in SUBSET Targets : Expire(idle)
UdpNext ==
    \/ \E f \in Flows : Datagram(f)
    \/ UdpTick \/ UdpStop \/ Iteration
    \/ \E s \in SessionIds : \/ Upload(s) \/ Download(s) \/ InputEnds(s) \/ SessionEnds(s)
                             \/ UdpCancelled(s)

UdpSpec == UdpInit /\ [][UdpNext]_udpVars

\* A dial and a send have 20 s, so a session goes on to its next datagram and to
\* the end of its input; a session told to abort is dropped when it is polled.
UdpFairness ==
    \A s \in SessionIds : /\ WF_udpVars(Upload(s)) /\ WF_udpVars(InputEnds(s))
                          /\ WF_udpVars(UdpCancelled(s))

-----------------------------------------------------------------------------
\* An idle port is removed only when its socket holds no datagram the loop has
\* not passed on and no reply that was not sent.
ExpiryLosesNothing ==
    [][\A p \in ports \ ports' : stage' # "stopped" => rx[p] = <<>> /\ p \notin tx]_udpVars

\* A session is removed from the table for the result of another session of its
\* flow only after some session completed although it had been told to abort.
StrayRemovalNeedsRace == stray => raced

\* A session that lost its entry, whoever removed it, ends: it drains its input.
OrphansEnd == \A s \in SessionIds : (life[s] = "run" /\ ~InTable(s)) ~> life[s] # "run"
=============================================================================
