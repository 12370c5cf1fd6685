----------------------------- MODULE Tun_proofs ------------------------------
(***************************************************************************)
(* What is proved about the packet adapter: that no TCP stream is taken for *)
(* whole when it is not, which results of sessions may hit a later one,     *)
(* what an idle UDP port takes with it, and that exactly the packets whose  *)
(* fragments fit together are put together; for any number of connections,  *)
(* fragments and units of data, and any capacities.                         *)
(***************************************************************************)
EXTENDS MCTun, FiniteSetTheorems, WellFoundedInduction, TLAPS

\* The states of a socket of the userspace stack.
Socks == {"none", "listen", "open", "half", "fin", "last", "closed"}
TcpTypes ==
    /\ load \in Loads /\ made \in Nat /\ flow \in Gens \cup {0} /\ flow <= made
    /\ at \in {"select", "join", "in", "out", "end", "stopped"}
    /\ at \in {"in", "out", "end"} => flow \in Gens
    /\ sock \in [Gens -> Socks]
    /\ sess \in [Gens -> {"none", "run", "left", "ok", "err", "gone"}]
    /\ sent \in [Gens -> Nat] /\ recvd \in [Gens -> Nat] /\ fed \in [Gens -> Nat] /\ got \in [Gens -> Nat]
    /\ wrote \in [Gens -> Nat] /\ taken \in [Gens -> Nat]
    /\ queued \in [Gens -> Nat] /\ delivered \in [Gens -> Nat]
    /\ pending \subseteq Gens /\ input \subseteq Gens /\ eof \subseteq Gens /\ shut \subseteq Gens
    /\ ended \subseteq Gens /\ fin \subseteq Gens /\ outran \subseteq Gens

\* A generation that is yet to come has nothing.
YetToCome ==
    \A g \in Gens : g > made =>
        /\ sess[g] = "none" /\ g \notin input /\ g \notin ended
        /\ fed[g] = 0 /\ recvd[g] = 0

\* What was read was fed, and what was fed was received.
FedInOrder ==
    \A g \in Gens : /\ recvd[g] = sent[g] /\ got[g] <= fed[g]
                    /\ flow = g => fed[g] <= recvd[g]

\* The end of an upload: the input is dropped after its last byte ...
EndFed ==
    at # "stopped" => \A g \in Gens :
        g <= made /\ g \notin input =>
            sock[g] \in {"none", "closed"} \/ (sock[g] \in {"half", "last"} /\ fed[g] = recvd[g])
\* ... and seen by the session after it.
EndRead ==
    \A g \in ended : /\ g \notin input
                     /\ at = "stopped" \/ sock[g] \in {"none", "closed"} \/ got[g] = fed[g]

\* What the loop took from the session is queued, or pending.
QueuedInOrder ==
    \A g \in Gens : taken[g] = IF g \in pending THEN queued[g] + 1 ELSE queued[g]

\* A socket is closed after all the session wrote, and the client sees it last.
Closing ==
    /\ \A g \in Gens : sock[g] \in {"fin", "last"} => g \in eof /\ g \notin pending
    /\ \A g \in eof : taken[g] = wrote[g] /\ g \in shut
    /\ \A g \in fin : g \in eof /\ g \notin pending /\ delivered[g] = queued[g]

TcpInv == TcpTypes /\ YetToCome /\ FedInOrder /\ EndFed /\ EndRead /\ QueuedInOrder /\ Closing

\* Without a race, the only result that waits to be joined is that of the flow.
Results ==
    /\ \A g \in Gens : sess[g] \in {"run", "left"} => g = flow \/ g \in aborted
    /\ outran = {} /\ at # "stopped" => \A g \in Gens : sess[g] \in {"ok", "err"} => g = flow
RaceInv == Results /\ StrayAbortNeedsRace

-----------------------------------------------------------------------------
\* Generations are counted from one.
LEMMA GensNat == \A g \in Gens : g \in Nat /\ g # 0
BY TunTcpConstants DEF Gens

\* Initially there is no flow.
LEMMA TcpInit == Init => TcpInv
<1> SUFFICES ASSUME Init PROVE TcpInv
  BY Zenon
<1>1. TcpTypes
  BY TunTcpConstants DEF Init, TcpTypes, Socks, Zero
<1>2. YetToCome /\ FedInOrder /\ EndFed /\ EndRead
  BY GensNat DEF Init, YetToCome, FedInOrder, EndFed, EndRead, Zero
<1>3. QueuedInOrder /\ Closing
  BY Zenon DEF Init, QueuedInOrder, Closing, Zero
<1> QED BY <1>1, <1>2, <1>3, Zenon DEF TcpInv

\* A segment of the client: data only while the upload is open, and the end of the
\* download is seen when everything queued was.
LEMMA SegmentStep ==
    ASSUME TcpInv, NEW g \in Gens, Established(g) \/ Data(g) \/ Fin(g) \/ Rst(g) \/ Ack(g)
    PROVE  TcpInv'
<1>1. CASE Established(g)
  <2>1. TcpTypes'
    BY <1>1, GensNat, Zenon DEF TcpInv, TcpTypes, Socks, Established, Packet, To, clientVars,
        channelVars, sessionVars
  <2>2. YetToCome' /\ FedInOrder' /\ EndFed' /\ EndRead'
    BY <1>1, GensNat, Zenon DEF TcpInv, TcpTypes, YetToCome, FedInOrder, EndFed, EndRead, Established, Packet,
        To, clientVars, channelVars, sessionVars
  <2>3. QueuedInOrder' /\ Closing'
    BY <1>1, GensNat, Zenon DEF TcpInv, TcpTypes, QueuedInOrder, Closing, Established, Packet, To, clientVars,
        channelVars, sessionVars
  <2> QED BY <2>1, <2>2, <2>3, Zenon DEF TcpInv
<1>2. CASE Data(g)
  <2>1. TcpTypes'
    BY <1>2, GensNat DEF TcpInv, TcpTypes, Socks, Data, Packet, Unread, channelVars, sessionVars
  <2>2. YetToCome' /\ FedInOrder' /\ EndFed' /\ EndRead'
    BY <1>2, GensNat DEF TcpInv, TcpTypes, YetToCome, FedInOrder, EndFed, EndRead, Data, Packet, Unread,
        channelVars, sessionVars
  <2>3. QueuedInOrder' /\ Closing'
    BY <1>2, GensNat, Zenon DEF TcpInv, TcpTypes, QueuedInOrder, Closing, Data, Packet, Unread, channelVars,
        sessionVars
  <2> QED BY <2>1, <2>2, <2>3, Zenon DEF TcpInv
<1>3. CASE Fin(g)
  <2>1. TcpTypes'
    BY <1>3, GensNat, Zenon DEF TcpInv, TcpTypes, Socks, Fin, Packet, To, clientVars, channelVars,
        sessionVars
  <2>2. YetToCome' /\ FedInOrder' /\ EndFed' /\ EndRead'
    BY <1>3, GensNat, Zenon DEF TcpInv, TcpTypes, YetToCome, FedInOrder, EndFed, EndRead, Fin, Packet, To,
        clientVars, channelVars, sessionVars
  <2>3. QueuedInOrder' /\ Closing'
    BY <1>3, GensNat, Zenon DEF TcpInv, TcpTypes, QueuedInOrder, Closing, Fin, Packet, To, clientVars,
        channelVars, sessionVars
  <2> QED BY <2>1, <2>2, <2>3, Zenon DEF TcpInv
<1>4. CASE Rst(g)
  <2>1. TcpTypes'
    BY <1>4, GensNat, Zenon DEF TcpInv, TcpTypes, Socks, Rst, Packet, To, clientVars, channelVars,
        sessionVars
  <2>2. YetToCome' /\ FedInOrder' /\ EndFed' /\ EndRead'
    BY <1>4, GensNat, Zenon DEF TcpInv, TcpTypes, YetToCome, FedInOrder, EndFed, EndRead, Rst, Packet, To,
        clientVars, channelVars, sessionVars
  <2>3. QueuedInOrder' /\ Closing'
    BY <1>4, GensNat, Zenon DEF TcpInv, TcpTypes, QueuedInOrder, Closing, Rst, Packet, To, clientVars,
        channelVars, sessionVars
  <2> QED BY <2>1, <2>2, <2>3, Zenon DEF TcpInv
<1>5. CASE Ack(g)
  <2>1. TcpTypes'
    BY <1>5, GensNat DEF TcpInv, TcpTypes, Socks, Ack, Packet, Unfinished, To, channelVars,
        sessionVars
  <2>2. YetToCome' /\ FedInOrder' /\ EndFed' /\ EndRead'
    BY <1>5, GensNat DEF TcpInv, TcpTypes, YetToCome, FedInOrder, EndFed, EndRead, Ack, Packet,
        Unfinished, To, channelVars, sessionVars
  <2>3. QueuedInOrder' /\ Closing'
    BY <1>5, GensNat DEF TcpInv, TcpTypes, QueuedInOrder, Closing, Ack, Packet, Unfinished, To,
        channelVars, sessionVars
  <2> QED BY <2>1, <2>2, <2>3, Zenon DEF TcpInv
<1> QED BY <1>1, <1>2, <1>3, <1>4, <1>5, Zenon

\* The loop wakes for a new connection, for the clock, or to stop.
LEMMA WakeStep ==
    ASSUME TcpInv, Syn \/ Tick \/ Stop \/ DeviceFails
    PROVE  TcpInv'
<1>1. CASE Syn
  <2>0. made + 1 \in Gens /\ made + 1 # 0
    BY <1>1, TunTcpConstants DEF Syn, TcpInv, TcpTypes, Gens
  <2>1. TcpTypes'
    BY <1>1, GensNat, <2>0 DEF TcpInv, TcpTypes, Socks, Syn, To, clientVars
  <2>2. YetToCome' /\ FedInOrder' /\ EndFed' /\ EndRead'
    BY <1>1, GensNat, <2>0 DEF TcpInv, TcpTypes, YetToCome, FedInOrder, EndFed, EndRead, Syn, To, clientVars
  <2>3. QueuedInOrder' /\ Closing'
    BY <1>1, GensNat, <2>0, Zenon DEF TcpInv, TcpTypes, QueuedInOrder, Closing, Syn, To, clientVars
  <2> QED BY <2>1, <2>2, <2>3, Zenon DEF TcpInv
<1>2. CASE Tick
  <2>1. TcpTypes'
    BY <1>2, GensNat, Zenon DEF TcpInv, TcpTypes, Socks, Tick, socketVars, clientVars, channelVars,
        sessionVars
  <2>2. YetToCome' /\ FedInOrder' /\ EndFed' /\ EndRead'
    BY <1>2, GensNat, Zenon DEF TcpInv, TcpTypes, YetToCome, FedInOrder, EndFed, EndRead, Tick, socketVars,
        clientVars, channelVars, sessionVars
  <2>3. QueuedInOrder' /\ Closing'
    BY <1>2, GensNat, Zenon DEF TcpInv, TcpTypes, QueuedInOrder, Closing, Tick, socketVars, clientVars,
        channelVars, sessionVars
  <2> QED BY <2>1, <2>2, <2>3, Zenon DEF TcpInv
<1>3. CASE Stop
  <2>1. TcpTypes'
    BY <1>3, GensNat, Zenon DEF TcpInv, TcpTypes, Socks, Stop, AbortAll, socketVars, clientVars,
        channelVars
  <2>2. YetToCome' /\ FedInOrder' /\ EndFed' /\ EndRead'
    BY <1>3, GensNat, Zenon DEF TcpInv, TcpTypes, YetToCome, FedInOrder, EndFed, EndRead, Stop, AbortAll,
        socketVars, clientVars, channelVars
  <2>3. QueuedInOrder' /\ Closing'
    BY <1>3, GensNat, Zenon DEF TcpInv, TcpTypes, QueuedInOrder, Closing, Stop, AbortAll, socketVars,
        clientVars, channelVars
  <2> QED BY <2>1, <2>2, <2>3, Zenon DEF TcpInv
<1>4. CASE DeviceFails
  <2>1. TcpTypes'
    BY <1>4, GensNat DEF TcpInv, TcpTypes, Socks, DeviceFails, AbortAll, socketVars, clientVars
  <2>2. YetToCome' /\ FedInOrder' /\ EndFed' /\ EndRead'
    BY <1>4, GensNat, Zenon DEF TcpInv, TcpTypes, YetToCome, FedInOrder, EndFed, EndRead, DeviceFails, AbortAll,
        socketVars, clientVars
  <2>3. QueuedInOrder' /\ Closing'
    BY <1>4, GensNat, Zenon DEF TcpInv, TcpTypes, QueuedInOrder, Closing, DeviceFails, AbortAll, socketVars,
        clientVars
  <2> QED BY <2>1, <2>2, <2>3, Zenon DEF TcpInv
<1> QED BY <1>1, <1>2, <1>3, <1>4, Zenon

\* The result of a session is joined.
LEMMA JoinStep ==
    ASSUME TcpInv, NEW g \in Gens, Join(g)
    PROVE  TcpInv'
<1>1. CASE Join(g)
  <2>1. TcpTypes'
    BY <1>1, GensNat DEF TcpInv, TcpTypes, Socks, Join, JoinAbort, To, clientVars, channelVars
  <2>2. YetToCome' /\ FedInOrder' /\ EndFed' /\ EndRead'
    BY <1>1, GensNat DEF TcpInv, TcpTypes, YetToCome, FedInOrder, EndFed, EndRead, Join, JoinAbort, To,
        clientVars, channelVars
  <2>3. QueuedInOrder' /\ Closing'
    BY <1>1, GensNat DEF TcpInv, TcpTypes, QueuedInOrder, Closing, Join, JoinAbort, To, clientVars,
        channelVars
  <2> QED BY <2>1, <2>2, <2>3, Zenon DEF TcpInv
<1> QED BY <1>1, Zenon

\* An idle socket is closed.
LEMMA JoinedStep ==
    ASSUME TcpInv, NEW idle \in BOOLEAN, Joined(idle)
    PROVE  TcpInv'
<1>1. CASE Joined(idle)
  <2>1. TcpTypes'
    BY <1>1, GensNat, Zenon DEF TcpInv, TcpTypes, Socks, Joined, To, clientVars, channelVars, sessionVars
  <2>2. YetToCome' /\ FedInOrder' /\ EndFed' /\ EndRead'
    BY <1>1, GensNat DEF TcpInv, TcpTypes, YetToCome, FedInOrder, EndFed, EndRead, Joined, To, clientVars,
        channelVars, sessionVars
  <2>3. QueuedInOrder' /\ Closing'
    BY <1>1, GensNat, Zenon DEF TcpInv, TcpTypes, QueuedInOrder, Closing, Joined, To, clientVars, channelVars,
        sessionVars
  <2> QED BY <2>1, <2>2, <2>3, Zenon DEF TcpInv
<1> QED BY <1>1, Zenon

\* From the socket to the session: the input is dropped when nothing is unread and
\* nothing can come.
LEMMA InputStep ==
    ASSUME TcpInv, Feed \/ Fed
    PROVE  TcpInv'
<1>1. CASE Feed
  <2>1. TcpTypes'
    BY <1>1, GensNat DEF TcpInv, TcpTypes, Socks, Feed, Unread, Room, socketVars, clientVars,
        sessionVars
  <2>2. YetToCome' /\ FedInOrder' /\ EndFed' /\ EndRead'
    BY <1>1, GensNat DEF TcpInv, TcpTypes, YetToCome, FedInOrder, EndFed, EndRead, Feed, Unread, Room,
        socketVars, clientVars, sessionVars
  <2>3. QueuedInOrder' /\ Closing'
    BY <1>1, GensNat, Zenon DEF TcpInv, TcpTypes, QueuedInOrder, Closing, Feed, Unread, Room, socketVars,
        clientVars, sessionVars
  <2> QED BY <2>1, <2>2, <2>3, Zenon DEF TcpInv
<1>2. CASE Fed
  <2>1. TcpTypes'
    BY <1>2, GensNat, Zenon DEF TcpInv, TcpTypes, Socks, Fed, Unread, Room, To, PassEof, MayRecv,
        clientVars, sessionVars
  <2>2. YetToCome' /\ FedInOrder'
    BY <1>2, GensNat, Zenon DEF TcpInv, TcpTypes, YetToCome, FedInOrder, Fed, Unread, Room, To, PassEof, MayRecv,
        clientVars, sessionVars
  <2>3. EndFed' /\ EndRead'
    <3>1. /\ flow \in Gens /\ at = "in" /\ at' = "out" /\ UNCHANGED <<fed, recvd, made, ended, got>>
          /\ \A g \in Gens : sock'[g] \in {sock[g], "closed"}
      BY <1>2, Zenon DEF TcpInv, TcpTypes, Fed, To, clientVars, sessionVars
    <3>2. /\ input' \subseteq input
          /\ \A g \in Gens : g \in input /\ g \notin input' =>
                sock[g] \notin {"listen", "open", "fin"} /\ fed[g] = recvd[g]
      BY <1>2 DEF TcpInv, TcpTypes, FedInOrder, Fed, PassEof, MayRecv, Unread
    <3>3. EndFed'
      BY <3>1, <3>2, Zenon DEF TcpInv, TcpTypes, Socks, EndFed
    <3>4. EndRead'
      BY <3>1, <3>2, Zenon DEF TcpInv, TcpTypes, EndRead
    <3> QED BY <3>3, <3>4, Zenon
  <2>4. QueuedInOrder' /\ Closing'
    BY <1>2, GensNat, Zenon DEF TcpInv, TcpTypes, QueuedInOrder, Closing, Fed, Unread, Room, To, PassEof,
        MayRecv, clientVars, sessionVars
  <2> QED BY <2>1, <2>2, <2>3, <2>4, Zenon DEF TcpInv
<1> QED BY <1>1, <1>2, Zenon

\* From the session to the socket: it is closed when the channel is empty and no
\* part of a chunk is pending.
LEMMA OutputStep ==
    ASSUME TcpInv, Take \/ Push \/ Close \/ Idle
    PROVE  TcpInv'
<1>1. CASE Take
  <2>1. TcpTypes'
    BY <1>1, GensNat DEF TcpInv, TcpTypes, Socks, Take, CanSend, clientVars, sessionVars
  <2>2. YetToCome' /\ FedInOrder' /\ EndFed' /\ EndRead'
    BY <1>1, GensNat, Zenon DEF TcpInv, TcpTypes, YetToCome, FedInOrder, EndFed, EndRead, Take, CanSend,
        clientVars, sessionVars
  <2>3. QueuedInOrder' /\ Closing'
    BY <1>1, GensNat DEF TcpInv, TcpTypes, QueuedInOrder, Closing, Take, CanSend, clientVars, sessionVars
  <2> QED BY <2>1, <2>2, <2>3, Zenon DEF TcpInv
<1>2. CASE Push
  <2>1. TcpTypes'
    BY <1>2, GensNat DEF TcpInv, TcpTypes, Socks, Push, CanSend, clientVars, sessionVars
  <2>2. YetToCome' /\ FedInOrder' /\ EndFed' /\ EndRead'
    BY <1>2, GensNat, Zenon DEF TcpInv, TcpTypes, YetToCome, FedInOrder, EndFed, EndRead, Push, CanSend,
        clientVars, sessionVars
  <2>3. QueuedInOrder' /\ Closing'
    BY <1>2, GensNat, Zenon DEF TcpInv, TcpTypes, QueuedInOrder, Closing, Push, CanSend, clientVars, sessionVars
  <2> QED BY <2>1, <2>2, <2>3, Zenon DEF TcpInv
<1>3. CASE Close
  <2>1. TcpTypes'
    BY <1>3, GensNat, Zenon DEF TcpInv, TcpTypes, Socks, Close, CanSend, Drained, To, AfterClose,
        clientVars, sessionVars
  <2>2. YetToCome' /\ FedInOrder' /\ EndFed' /\ EndRead'
    BY <1>3, GensNat, Zenon DEF TcpInv, TcpTypes, YetToCome, FedInOrder, EndFed, EndRead, Close, CanSend,
        Drained, To, AfterClose, clientVars, sessionVars
  <2>3. QueuedInOrder' /\ Closing'
    BY <1>3, GensNat, Zenon DEF TcpInv, TcpTypes, QueuedInOrder, Closing, Close, CanSend, Drained, To,
        AfterClose, clientVars, sessionVars
  <2> QED BY <2>1, <2>2, <2>3, Zenon DEF TcpInv
<1>4. CASE Idle
  <2>1. TcpTypes'
    BY <1>4, GensNat, Zenon DEF TcpInv, TcpTypes, Socks, Idle, CanSend, Drained, socketVars, clientVars,
        channelVars, sessionVars
  <2>2. YetToCome' /\ FedInOrder' /\ EndFed' /\ EndRead'
    BY <1>4, GensNat, Zenon DEF TcpInv, TcpTypes, YetToCome, FedInOrder, EndFed, EndRead, Idle, CanSend, Drained,
        socketVars, clientVars, channelVars, sessionVars
  <2>3. QueuedInOrder' /\ Closing'
    BY <1>4, GensNat, Zenon DEF TcpInv, TcpTypes, QueuedInOrder, Closing, Idle, CanSend, Drained, socketVars,
        clientVars, channelVars, sessionVars
  <2> QED BY <2>1, <2>2, <2>3, Zenon DEF TcpInv
<1> QED BY <1>1, <1>2, <1>3, <1>4, Zenon

\* A flow whose socket is done leaves with its buffers.
LEMMA FlowEndStep ==
    ASSUME TcpInv, Retire \/ Keep
    PROVE  TcpInv'
<1>1. CASE Retire
  <2>1. TcpTypes'
    BY <1>1, GensNat DEF TcpInv, TcpTypes, Socks, FedInOrder, Retire, Unfinished, StopSession, To, Drop
  <2>2. YetToCome' /\ FedInOrder' /\ EndFed' /\ EndRead'
    BY <1>1, GensNat DEF TcpInv, TcpTypes, YetToCome, FedInOrder, EndFed, EndRead, Retire, Unfinished,
        StopSession, To, Drop
  <2>3. QueuedInOrder' /\ Closing'
    BY <1>1, GensNat, Zenon DEF TcpInv, TcpTypes, QueuedInOrder, Closing, Retire, Unfinished, StopSession, To,
        Drop
  <2> QED BY <2>1, <2>2, <2>3, Zenon DEF TcpInv
<1>2. CASE Keep
  <2>1. TcpTypes'
    BY <1>2, GensNat, Zenon DEF TcpInv, TcpTypes, Socks, Keep, Unfinished, socketVars, clientVars,
        channelVars, sessionVars
  <2>2. YetToCome' /\ FedInOrder' /\ EndFed' /\ EndRead'
    BY <1>2, GensNat, Zenon DEF TcpInv, TcpTypes, YetToCome, FedInOrder, EndFed, EndRead, Keep, Unfinished,
        socketVars, clientVars, channelVars, sessionVars
  <2>3. QueuedInOrder' /\ Closing'
    BY <1>2, GensNat, Zenon DEF TcpInv, TcpTypes, QueuedInOrder, Closing, Keep, Unfinished, socketVars,
        clientVars, channelVars, sessionVars
  <2> QED BY <2>1, <2>2, <2>3, Zenon DEF TcpInv
<1> QED BY <1>1, <1>2, Zenon

\* The session reads what was fed, and writes until it gives up its half.
LEMMA SessionStep ==
    ASSUME TcpInv, NEW g \in Gens, NEW result \in {"ok", "err"}, Read(g) \/ Write(g) \/ ShutDown(g) \/ Leave(g) \/ Complete(g, result) \/ Cancelled(g)
    PROVE  TcpInv'
<1>1. CASE Read(g)
  <2>1. TcpTypes'
    BY <1>1, GensNat DEF TcpInv, TcpTypes, Socks, Read, Session, socketVars, clientVars, loopVars
  <2>2. YetToCome' /\ FedInOrder' /\ EndFed' /\ EndRead'
    BY <1>1, GensNat DEF TcpInv, TcpTypes, YetToCome, FedInOrder, EndFed, EndRead, Read, Session,
        socketVars, clientVars, loopVars
  <2>3. QueuedInOrder' /\ Closing'
    BY <1>1, GensNat, Zenon DEF TcpInv, TcpTypes, QueuedInOrder, Closing, Read, Session, socketVars,
        clientVars, loopVars
  <2> QED BY <2>1, <2>2, <2>3, Zenon DEF TcpInv
<1>2. CASE Write(g)
  <2>1. TcpTypes'
    BY <1>2, GensNat DEF TcpInv, TcpTypes, Socks, Write, Session, socketVars, clientVars,
        sessionVars, loopVars
  <2>2. YetToCome' /\ FedInOrder' /\ EndFed' /\ EndRead'
    BY <1>2, GensNat, Zenon DEF TcpInv, TcpTypes, YetToCome, FedInOrder, EndFed, EndRead, Write, Session,
        socketVars, clientVars, sessionVars, loopVars
  <2>3. QueuedInOrder' /\ Closing'
    BY <1>2, GensNat, Zenon DEF TcpInv, TcpTypes, QueuedInOrder, Closing, Write, Session, socketVars,
        clientVars, sessionVars, loopVars
  <2> QED BY <2>1, <2>2, <2>3, Zenon DEF TcpInv
<1>3. CASE ShutDown(g)
  <2>1. TcpTypes'
    BY <1>3, GensNat, Zenon DEF TcpInv, TcpTypes, Socks, ShutDown, Session, socketVars, clientVars,
        loopVars
  <2>2. YetToCome' /\ FedInOrder' /\ EndFed' /\ EndRead'
    BY <1>3, GensNat, Zenon DEF TcpInv, TcpTypes, YetToCome, FedInOrder, EndFed, EndRead, ShutDown, Session,
        socketVars, clientVars, loopVars
  <2>3. QueuedInOrder' /\ Closing'
    BY <1>3, GensNat, Zenon DEF TcpInv, TcpTypes, QueuedInOrder, Closing, ShutDown, Session, socketVars,
        clientVars, loopVars
  <2> QED BY <2>1, <2>2, <2>3, Zenon DEF TcpInv
<1>4. CASE Leave(g)
  <2>1. TcpTypes'
    BY <1>4, GensNat, Zenon DEF TcpInv, TcpTypes, Socks, Leave, Session, socketVars, clientVars, loopVars
  <2>2. YetToCome' /\ FedInOrder' /\ EndFed' /\ EndRead'
    BY <1>4, GensNat, Zenon DEF TcpInv, TcpTypes, YetToCome, FedInOrder, EndFed, EndRead, Leave, Session,
        socketVars, clientVars, loopVars
  <2>3. QueuedInOrder' /\ Closing'
    BY <1>4, GensNat, Zenon DEF TcpInv, TcpTypes, QueuedInOrder, Closing, Leave, Session, socketVars,
        clientVars, loopVars
  <2> QED BY <2>1, <2>2, <2>3, Zenon DEF TcpInv
<1>5. CASE Complete(g, result)
  <2>1. TcpTypes'
    BY <1>5, GensNat, Zenon DEF TcpInv, TcpTypes, Socks, Complete, socketVars, clientVars, channelVars,
        loopVars
  <2>2. YetToCome' /\ FedInOrder' /\ EndFed' /\ EndRead'
    BY <1>5, GensNat, Zenon DEF TcpInv, TcpTypes, YetToCome, FedInOrder, EndFed, EndRead, Complete, socketVars,
        clientVars, channelVars, loopVars
  <2>3. QueuedInOrder' /\ Closing'
    BY <1>5, GensNat, Zenon DEF TcpInv, TcpTypes, QueuedInOrder, Closing, Complete, socketVars, clientVars,
        channelVars, loopVars
  <2> QED BY <2>1, <2>2, <2>3, Zenon DEF TcpInv
<1>6. CASE Cancelled(g)
  <2>1. TcpTypes'
    BY <1>6, GensNat, Zenon DEF TcpInv, TcpTypes, Socks, Cancelled, socketVars, clientVars, channelVars,
        loopVars
  <2>2. YetToCome' /\ FedInOrder' /\ EndFed' /\ EndRead'
    BY <1>6, GensNat, Zenon DEF TcpInv, TcpTypes, YetToCome, FedInOrder, EndFed, EndRead, Cancelled, socketVars,
        clientVars, channelVars, loopVars
  <2>3. QueuedInOrder' /\ Closing'
    BY <1>6, GensNat, Zenon DEF TcpInv, TcpTypes, QueuedInOrder, Closing, Cancelled, socketVars, clientVars,
        channelVars, loopVars
  <2> QED BY <2>1, <2>2, <2>3, Zenon DEF TcpInv
<1> QED BY <1>1, <1>2, <1>3, <1>4, <1>5, <1>6, Zenon

\* Every step of the loop, a session or the client keeps the invariant.
LEMMA TcpStep == TcpInv /\ [Next]_vars => TcpInv'
<1> SUFFICES ASSUME TcpInv, [Next]_vars PROVE TcpInv'
  BY Zenon
<1>1. ASSUME NEW g \in Gens, Segments(g) PROVE TcpInv'
  BY <1>1, SegmentStep, Zenon DEF Segments
<1>2. CASE Syn \/ Stop \/ DeviceFails \/ Tick
  BY <1>2, WakeStep, Zenon
<1>3. CASE Joined(TRUE) \/ Joined(FALSE)
  BY <1>3, JoinedStep, Zenon
<1>4. CASE \E g \in Gens : Join(g)
  BY <1>4, JoinStep, Zenon
<1>5. CASE Feed \/ Fed \/ Take \/ Push \/ Close \/ Idle \/ Retire \/ Keep
  BY <1>5, InputStep, OutputStep, FlowEndStep, Zenon
<1>6. ASSUME NEW g \in Gens, Sessions(g) PROVE TcpInv'
  BY <1>6, SessionStep, Zenon DEF Sessions
<1>7. CASE UNCHANGED vars
  BY <1>7, Zenon DEF vars, socketVars, clientVars, channelVars, sessionVars, loopVars, TcpInv, TcpTypes, YetToCome, FedInOrder, EndFed, EndRead, QueuedInOrder, Closing
<1> QED BY <1>1, <1>2, <1>3, <1>4, <1>5, <1>6, <1>7, Zenon DEF Next, Loop, Rest

\* A client that sees its connection end got all the session wrote, and a session
\* that sees the end of its input, of a connection that is still there, read all
\* the client sent before its FIN (run and ChannelStream of packet.rs),
\* for any number of connections and any buffers.
THEOREM StreamsAreWhole == Spec => []NoTruncation
<1>1. TcpInv => NoTruncation
  <2> SUFFICES ASSUME TcpInv PROVE NoTruncation
    BY Zenon
  <2>1. EofAfterUpload
    BY GensNat DEF TcpInv, TcpTypes, YetToCome, FedInOrder, EndFed, EndRead, EofAfterUpload
  <2>2. FinAfterDownload
    BY Zenon DEF TcpInv, TcpTypes, QueuedInOrder, Closing, FinAfterDownload
  <2> QED BY <2>1, <2>2, Zenon DEF NoTruncation
<1> QED BY TcpInit, TcpStep, <1>1, PTL DEF Spec

-----------------------------------------------------------------------------
\* Initially no result waits to be joined.
LEMMA RaceInit == Init => RaceInv
BY Zenon DEF Init, RaceInv, Results, StrayAbortNeedsRace

\* Most steps start, end and abort no session.
LEMMA RaceQuiet ==
    ASSUME RaceInv, UNCHANGED <<sess, flow, aborted, outran, blamed>>,
           at = "stopped" => at' = "stopped"
    PROVE  RaceInv'
BY Zenon DEF RaceInv, Results, StrayAbortNeedsRace

\* The loop takes a flow down together with its session.
LEMMA RaceLoop ==
    ASSUME TcpInv, RaceInv, Loop
    PROVE  RaceInv'
<1>1. CASE Tick \/ (\E g \in Gens : Segments(g)) \/ Joined(TRUE) \/ Joined(FALSE)
  BY <1>1, RaceQuiet, Zenon DEF Tick, Segments, Established, Data, Fin, Rst, Ack, Packet, Joined, sessionVars
<1>2. CASE Feed \/ Fed \/ Take \/ Push \/ Close \/ Idle \/ Keep
  BY <1>2, RaceQuiet, Zenon DEF Feed, Fed, Take, Push, Close, Idle, Keep, sessionVars
<1>3. CASE Syn
  BY <1>3, GensNat, Zenon DEF TcpInv, TcpTypes, YetToCome, RaceInv, Results, StrayAbortNeedsRace, Syn
<1>4. CASE Stop \/ DeviceFails
  BY <1>4, Zenon DEF RaceInv, Results, StrayAbortNeedsRace, Stop, DeviceFails, AbortAll
<1>5. ASSUME NEW g \in Gens, Join(g) PROVE RaceInv'
  BY <1>5, GensNat, Zenon DEF TcpInv, TcpTypes, RaceInv, Results, StrayAbortNeedsRace, Join, JoinAbort, To
<1>6. CASE Retire
  BY <1>6, GensNat, Zenon DEF TcpInv, TcpTypes, RaceInv, Results, StrayAbortNeedsRace, Retire, StopSession
<1> QED BY <1>1, <1>2, <1>3, <1>4, <1>5, <1>6, Zenon DEF Loop, Rest

\* A session alone changes its own result only.
LEMMA RaceSession ==
    ASSUME TcpInv, RaceInv, NEW g \in Gens, Sessions(g)
    PROVE  RaceInv'
<1>1. CASE Read(g) \/ Write(g) \/ ShutDown(g)
  BY <1>1, RaceQuiet, Zenon DEF Read, Write, ShutDown, Session, loopVars, sessionVars
<1>2. CASE Leave(g) \/ Cancelled(g)
  BY <1>2, GensNat, Zenon DEF TcpInv, TcpTypes, RaceInv, Results, StrayAbortNeedsRace, Leave, Cancelled, Session, loopVars
<1>3. ASSUME NEW result \in {"ok", "err"}, Complete(g, result) PROVE RaceInv'
  BY <1>3, GensNat, Zenon DEF TcpInv, TcpTypes, RaceInv, Results, StrayAbortNeedsRace, Complete, loopVars
<1> QED BY <1>1, <1>2, <1>3, Zenon DEF Sessions

\* Every step keeps the account of the results.
LEMMA RaceStep == TcpInv /\ RaceInv /\ [Next]_vars => RaceInv'
<1> SUFFICES ASSUME TcpInv, RaceInv, [Next]_vars PROVE RaceInv'
  BY Zenon
<1>1. CASE UNCHANGED vars
  BY <1>1, RaceQuiet, Zenon DEF vars, sessionVars, loopVars
<1> QED BY <1>1, RaceLoop, RaceSession, Zenon DEF Next

-----------------------------------------------------------------------------
(* UDP sessions of the packet adapter                                       *)

\* When ports expire the loop has passed on what the sockets held, and a socket
\* with unsent replies was used in this iteration.
PortInv ==
    /\ tx \subseteq used /\ (stage # "expire" => tx = {})
    /\ stage \in {"reply", "expire"} => \A p \in ports : rx[p] = <<>>

\* No step removes a port but those of an expiry and a stop.
LEMMA PortStep ==
    PortInv /\ [UdpNext]_udpVars =>
      /\ PortInv'
      /\ [\A p \in ports \ ports' : stage' # "stopped" => rx[p] = <<>> /\ p \notin tx]_udpVars
<1> SUFFICES ASSUME PortInv, [UdpNext]_udpVars
             PROVE  /\ PortInv'
                    /\ \A p \in ports \ ports' : stage' # "stopped" => rx[p] = <<>> /\ p \notin tx
  BY Zenon
<1>1. CASE \E f \in Flows : Datagram(f)
  BY <1>1, Zenon DEF Datagram, PortInv
<1>2. CASE UdpTick \/ UdpStop
  BY <1>2, Zenon DEF UdpTick, UdpStop, PortInv
<1>3. CASE (\E s \in SessionIds : UdpJoin(s)) \/ UdpJoined
  BY <1>3, Zenon DEF UdpJoin, UdpJoined, udpLoop, PortInv
<1>4. CASE Pumped \/ \E p \in Targets : Pump(p)
  BY <1>4, Zenon DEF Pump, Pumped, PortInv
<1>5. CASE SendReplies
  BY <1>5, Zenon DEF SendReplies, PortInv
<1>6. ASSUME NEW idle \in SUBSET Targets, Expire(idle)
      PROVE  /\ PortInv'
             /\ \A p \in ports \ ports' : rx[p] = <<>> /\ p \notin tx
  BY <1>6, Zenon DEF Expire, PortInv
<1>7. CASE (\E s \in SessionIds : Upload(s) \/ Download(s) \/ InputEnds(s) \/ SessionEnds(s) \/ UdpCancelled(s))
  BY <1>7, Zenon DEF Upload, Download, InputEnds, SessionEnds, UdpCancelled, Alive, udpLoop, PortInv
<1>8. CASE UNCHANGED udpVars
  BY <1>8, Zenon DEF udpVars, udpLoop, PortInv
<1> QED BY <1>1, <1>2, <1>3, <1>4, <1>5, <1>6, <1>7, <1>8, Zenon DEF UdpNext, Iteration

\* An idle port takes no datagram and no reply with it, whatever the limits.
THEOREM IdlePortsAreEmpty == UdpSpec => ExpiryLosesNothing
<1>1. UdpInit => PortInv
  BY Zenon DEF UdpInit, PortInv
<1> QED BY <1>1, PortStep, PTL DEF UdpSpec, ExpiryLosesNothing

-----------------------------------------------------------------------------
\* The entry of a flow names a session of that flow.
Entries ==
    /\ rx \in [Targets -> Seq(Sources)]
    /\ owner \in Seq(Flows) /\ table \in [Flows -> Nat]
    /\ life \in [SessionIds -> {"none", "run", "done", "gone"}]
    /\ \A s \in SessionIds : life[s] # "none" => s <= Len(owner)
    /\ \A f \in Flows : table[f] # 0 => /\ table[f] \in SessionIds /\ table[f] <= Len(owner)
                                        /\ owner[table[f]] = f

\* Without a race, a session that is not in the table was told to abort.
Accounted(s) == table[owner[s]] = s \/ stage = "stopped" \/ (life[s] = "run" /\ s \in told)
StrayInv ==
    /\ Entries /\ StrayRemovalNeedsRace
    /\ ~raced => \A s \in SessionIds : life[s] \in {"run", "done"} => Accounted(s)

\* Initially no session runs.
LEMMA StrayInitInv == UdpInit => StrayInv
BY UdpConstants DEF UdpInit, StrayInv, Entries, StrayRemovalNeedsRace, SessionIds

\* The result of a session takes its own entry, unless there was a race.
LEMMA UdpJoinStep == ASSUME StrayInv, NEW s \in SessionIds, UdpJoin(s) PROVE StrayInv'
<1>1. /\ life[s] = "done" /\ owner[s] \in Flows /\ stage = "join" /\ stage' = stage /\ owner' = owner
      /\ told' = told /\ raced' = raced
      /\ table' = [table EXCEPT ![owner[s]] = 0] /\ life' = [life EXCEPT ![s] = "gone"]
      /\ rx' = rx
      /\ stray' = (stray \/ table[owner[s]] \notin {0, s})
  BY DEF UdpJoin, JoinRemoves, StrayInv, Entries, udpLoop, SessionIds
<1>2. Entries'
  BY <1>1, Zenon DEF StrayInv, Entries, SessionIds
<1>3. ASSUME ~raced PROVE table[owner[s]] = s
  BY <1>1, <1>3, Zenon DEF StrayInv, Accounted
<1>4. StrayRemovalNeedsRace'
  BY <1>1, <1>3, Zenon DEF StrayInv, StrayRemovalNeedsRace
<1>5. ASSUME ~raced', NEW t \in SessionIds, life'[t] \in {"run", "done"} PROVE Accounted(t)'
  <2>1. t # s /\ life[t] \in {"run", "done"} /\ life'[t] = life[t] /\ Accounted(t) /\ owner[t] \in Flows
    <3>1. t # s /\ life'[t] = life[t] /\ life[t] \in {"run", "done"}
      BY <1>1, <1>5, Zenon DEF StrayInv, Entries
    <3>2. t \in 1..Len(owner) /\ owner \in Seq(Flows)
      BY <3>1 DEF StrayInv, Entries, SessionIds
    <3>3. Accounted(t)
      BY <1>1, <1>5, <3>1, Zenon DEF StrayInv
    <3> QED BY <3>1, <3>2, <3>3
  <2>2. table[owner[t]] = t => owner[t] # owner[s]
    BY <1>1, <1>3, <1>5, <2>1, Zenon
  <2> QED BY <1>1, <2>1, <2>2, Zenon DEF Accounted, StrayInv, Entries
<1> QED BY <1>2, <1>4, <1>5, Zenon DEF StrayInv

\* A datagram makes a session only where the table has none.
LEMMA PumpStep == ASSUME StrayInv, NEW p \in Targets, Pump(p) PROVE StrayInv'
<1> DEFINE f == <<Head(rx[p]), p>>
           s == Len(owner) + 1
<1>0. rx[p] \in Seq(Sources) /\ rx[p] # <<>> /\ rx' = [rx EXCEPT ![p] = Tail(@)]
  BY Zenon DEF Pump, StrayInv, Entries
<1>1. /\ f \in Flows /\ rx' \in [Targets -> Seq(Sources)]
      /\ stage' = stage /\ told' = told /\ raced' = raced /\ stray' = stray
  <2>1. Head(rx[p]) \in Sources /\ Tail(rx[p]) \in Seq(Sources)
    BY <1>0
  <2> QED BY <1>0, <2>1, Zenon DEF Pump, Flows, udpHistory, StrayInv, Entries
<1>2. CASE UNCHANGED <<table, owner, life>>
  BY <1>1, <1>2, Zenon DEF StrayInv, Entries, Accounted, StrayRemovalNeedsRace
<1>3. CASE /\ Spawns(f) /\ s <= MaxTasks
           /\ table' = [table EXCEPT ![f] = s] /\ owner' = Append(owner, f)
           /\ life' = [life EXCEPT ![s] = "run"]
  <2>0. s \in SessionIds /\ s \in Nat \ {0} /\ table[f] = 0 /\ owner \in Seq(Flows)
    BY <1>3, UdpConstants DEF StrayInv, Entries, SessionIds, Spawns
  <2>1. /\ owner' \in Seq(Flows) /\ Len(owner') = s /\ owner'[s] = f
        /\ \A i \in 1..Len(owner) : owner'[i] = owner[i]
    BY <1>1, <1>3, <2>0
  <2>2. Entries'
    BY <1>1, <1>3, <2>0, <2>1 DEF StrayInv, Entries, SessionIds
  <2>3. ASSUME ~raced', NEW t \in SessionIds, life'[t] \in {"run", "done"} PROVE Accounted(t)'
    <3>1. CASE t = s
      BY <1>1, <1>3, <2>1, <3>1 DEF Accounted, StrayInv, Entries
    <3>2. CASE t # s
      <4>1. /\ life'[t] = life[t] /\ Accounted(t) /\ t \in 1..Len(owner) /\ owner'[t] = owner[t]
            /\ owner[t] \in Flows /\ t # 0
        <5>1. life'[t] = life[t] /\ life[t] \in {"run", "done"} /\ ~raced
          BY <1>1, <1>3, <2>0, <2>3, <3>2, Zenon DEF StrayInv, Entries
        <5>2. Accounted(t) /\ t <= Len(owner) /\ t \in Nat \ {0}
          BY <5>1 DEF StrayInv, Entries, SessionIds
        <5>3. t \in 1..Len(owner) /\ owner[t] \in Flows
          BY <2>0, <5>2
        <5> QED BY <2>1, <5>1, <5>2, <5>3, Zenon
      <4> QED BY <1>1, <1>3, <2>0, <4>1, Zenon DEF Accounted, StrayInv, Entries
    <3> QED BY <3>1, <3>2, Zenon
  <2> QED BY <1>1, <2>2, <2>3, Zenon DEF StrayInv, StrayRemovalNeedsRace
<1> QED BY <1>2, <1>3, Zenon DEF Pump

\* An expiry tells the sessions it removes, and races with those that are done.
LEMMA ExpireStep == ASSUME StrayInv, NEW idle \in SUBSET Targets, Expire(idle) PROVE StrayInv'
<1> DEFINE gone == {table[f] : f \in Orphaned(idle)} \ {0}
<1>1. /\ UNCHANGED <<rx, owner, life, stray>>
      /\ told' = told \union {s \in gone : life[s] = "run"}
      /\ raced' = (raced \/ \E s \in gone : life[s] = "done")
      /\ table' = [f \in Flows |-> IF f \in Orphaned(idle) THEN 0 ELSE table[f]]
      /\ stage = "expire"
  BY Zenon DEF Expire, AbortSessions
<1>2. Entries' /\ StrayRemovalNeedsRace'
  BY <1>1, Zenon DEF StrayInv, Entries, StrayRemovalNeedsRace
<1>3. ASSUME ~raced', NEW s \in SessionIds, life'[s] \in {"run", "done"} PROVE Accounted(s)'
  <2>1. ~raced /\ (s \in gone => life[s] = "run" /\ s \in told') /\ life' = life /\ owner' = owner
    BY <1>1, <1>3, Zenon
  <2>2. Accounted(s) /\ owner[s] \in Flows /\ s # 0
    BY <1>3, <2>1 DEF StrayInv, Entries, SessionIds
  <2>3. CASE table[owner[s]] = s
    BY <1>1, <2>1, <2>2, <2>3, Zenon DEF Accounted
  <2>4. CASE table[owner[s]] # s
    BY <1>1, <2>1, <2>2, <2>4, Zenon DEF Accounted
  <2> QED BY <2>3, <2>4, Zenon
<1> QED BY <1>2, <1>3, Zenon DEF StrayInv

\* A session ends; one that was told to abort and completes has raced.
LEMMA LeavesStep ==
    ASSUME StrayInv, NEW s \in SessionIds, NEW how \in {"done", "gone"}, Alive(s), Leaves(s, how)
    PROVE  StrayInv'
<1>1. /\ UNCHANGED <<rx, table, owner, stage, stray>> /\ life[s] = "run"
      /\ life' = [life EXCEPT ![s] = how] /\ told' = told \ {s}
      /\ raced' = (raced \/ (how = "done" /\ s \in told))
  BY Zenon DEF Alive, Leaves, udpLoop
<1>2. Entries' /\ StrayRemovalNeedsRace'
  BY <1>1, Zenon DEF StrayInv, Entries, StrayRemovalNeedsRace
<1>3. ASSUME ~raced', NEW t \in SessionIds, life'[t] \in {"run", "done"} PROVE Accounted(t)'
  <2>1. CASE t = s
    BY <1>1, <1>3, <2>1, Zenon DEF StrayInv, Entries, Accounted
  <2>2. CASE t # s
    BY <1>1, <1>3, <2>2, Zenon DEF StrayInv, Entries, Accounted
  <2> QED BY <2>1, <2>2, Zenon
<1> QED BY <1>2, <1>3, Zenon DEF StrayInv

\* One step per action.
LEMMA StrayStep == StrayInv /\ [UdpNext]_udpVars => StrayInv'
<1> SUFFICES ASSUME StrayInv, [UdpNext]_udpVars PROVE StrayInv'
  BY Zenon
<1>1. ASSUME NEW f \in Flows, Datagram(f) PROVE StrayInv'
  <2>1. /\ f[1] \in Sources /\ f[2] \in Targets
        /\ UNCHANGED <<table, owner, life, told, raced, stray>> /\ stage = "select"
    BY <1>1, Zenon DEF Datagram, Flows, udpHistory
  <2>2. rx' \in [Targets -> Seq(Sources)]
    BY <1>1, <2>1 DEF Datagram, StrayInv, Entries
  <2> QED BY <2>1, <2>2, Zenon DEF StrayInv, Entries, Accounted, StrayRemovalNeedsRace
<1>2. CASE UdpStop
  BY <1>2, Zenon DEF UdpStop, udpHistory, StrayInv, Entries, Accounted, StrayRemovalNeedsRace
<1>3. CASE \E s \in SessionIds : UdpJoin(s)
  BY <1>3, UdpJoinStep, Zenon
<1>4. CASE \E p \in Targets : Pump(p)
  BY <1>4, PumpStep, Zenon
<1>5. CASE \E idle \in SUBSET Targets : Expire(idle)
  BY <1>5, ExpireStep, Zenon
<1>6. CASE \E s \in SessionIds : InputEnds(s) \/ SessionEnds(s) \/ UdpCancelled(s)
  BY <1>6, LeavesStep, Zenon DEF InputEnds, SessionEnds, UdpCancelled
<1>7. CASE \/ UdpTick \/ UdpJoined \/ Pumped \/ SendReplies \/ UNCHANGED udpVars
           \/ \E s \in SessionIds : Upload(s) \/ Download(s)
  <2>1. UNCHANGED <<rx, table, owner, life, told, raced, stray>> /\ (stage = "stopped" => stage' = stage)
    BY <1>7, Zenon DEF UdpTick, UdpJoined, Pumped, SendReplies, udpVars, udpLoop, udpHistory, Upload, Download, Alive
  <2> QED BY <2>1, Zenon DEF StrayInv, Entries, Accounted, StrayRemovalNeedsRace
<1> QED BY <1>1, <1>2, <1>3, <1>4, <1>5, <1>6, <1>7, Zenon DEF UdpNext, Iteration

\* The result of a session removes the entry of another only after a race, for any
\* numbers of flows, ports and sessions and any capacities.
THEOREM StrayRemovalsNeedARace == UdpSpec => []StrayRemovalNeedsRace
<1>1. StrayInv => StrayRemovalNeedsRace
  BY Zenon DEF StrayInv
<1> QED BY <1>1, StrayInitInv, StrayStep, PTL DEF UdpSpec

-----------------------------------------------------------------------------
\* However the loop and the sessions interleave, over any number of connections of a
\* flow: a new one is aborted, and a new UDP session removed, for the result of an
\* older one only if that was complete when it was told to abort.
THEOREM StraysNeedARace == SpecAny => []StrayNeedsRace
<1> DEFINE Inv == TcpInv /\ RaceInv /\ StrayInv
<1>1. InitAny => Inv
  BY TcpInit, RaceInit, StrayInitInv, Zenon DEF InitAny
<1>2. Inv /\ [NextAny]_allVars => Inv'
  <2>1. [NextAny]_allVars => [Next]_vars /\ [UdpNext]_udpVars
    BY Zenon DEF NextAny, allVars
  <2> QED BY <2>1, TcpStep, RaceStep, StrayStep, Zenon
<1>3. Inv => StrayNeedsRace
  BY Zenon DEF RaceInv, StrayInv, StrayNeedsRace
<1> QED BY <1>1, <1>2, <1>3, PTL DEF SpecAny

-----------------------------------------------------------------------------
\* A length is a multiple of the unit exactly when the end is, after such a start.
LEMMA UnitsAdd ==
    ASSUME NEW u \in Nat \ {0}, NEW a \in Nat, NEW b \in Nat, b <= a, b % u = 0
    PROVE  (a - b) % u = 0 <=> a % u = 0
<1>1. ASSUME NEW n \in Nat, n % u = 0 PROVE \E p \in Nat : n = u * p
  <2>1. n \div u \in Nat /\ n = u * (n \div u) + (n % u)
    OBVIOUS
  <2>2. n = u * (n \div u)
    BY <1>1, <2>1
  <2> QED BY <2>1, <2>2, Zenon
<1>2. \A q \in Int : (u * q) % u = 0
  OBVIOUS
<1>3. PICK p \in Nat : b = u * p
  BY <1>1, Zenon
<1>4. ASSUME a % u = 0 PROVE (a - b) % u = 0
  <2>1. PICK q \in Nat : a = u * q
    BY <1>1, <1>4, Zenon
  <2>2. a - b = u * (q - p) /\ q - p \in Int
    BY <1>3, <2>1
  <2> QED BY <1>2, <2>2, Zenon
<1>5. ASSUME (a - b) % u = 0 PROVE a % u = 0
  <2>1. a - b \in Nat
    OBVIOUS
  <2>2. PICK q \in Nat : a - b = u * q
    BY <1>1, <1>5, <2>1, Zenon
  <2>3. a = u * (q + p) /\ q + p \in Int
    BY <1>3, <2>2
  <2> QED BY <1>2, <2>3, Zenon
<1> QED BY <1>4, <1>5, Zenon

\* Of a set of numbers, one is the least.
LEMMA Least ==
    ASSUME NEW S, S \subseteq Nat, S # {}
    PROVE  \E x \in S : \A y \in S : x <= y
<1>1. PICK x \in S : \A y \in S : ~(<<y, x>> \in OpToRel(<, Nat))
  BY WFMin, NatLessThanWellFounded, Zenon
<1>2. \A y \in S : ~(y < x)
  BY <1>1, Zenon DEF OpToRel
<1> QED BY <1>2

Proper(f) == f.start < f.end /\ f.end <= RoomLeft /\ (f.more => f.end % Unit = 0)

\* A fragment as the wire has it.
LEMMA OfferTypes ==
    ASSUME NEW f \in Offers
    PROVE  /\ f.start \in Nat /\ f.end \in Nat /\ f.more \in BOOLEAN
           /\ f.start <= f.end /\ f.start % Unit = 0
  BY FragmentsAssumption, Zenon

\* Fragments that are not empty overlap exactly when they share a byte.
LEMMA OverlapIsSharing ==
    ASSUME NEW f \in Offers, NEW g \in Offers, f.end <= RoomLeft, g.start < g.end, f.start < f.end
    PROVE  Overlaps(f, g) <=> Shares(f, g)
<1>1. /\ f.start \in Nat /\ f.end \in Nat /\ g.start \in Nat /\ g.end \in Nat /\ RoomLeft \in Nat
  BY OfferTypes, FragmentsAssumption, Zenon
<1>2. ASSUME Overlaps(f, g) PROVE Shares(f, g)
  <2>1. CASE f.start <= g.start
    <3>1. g.start \in 0..RoomLeft /\ f.start <= g.start /\ g.start < f.end /\ g.start <= g.start /\ g.start < g.end
      BY <1>1, <1>2, <2>1 DEF Overlaps
    <3> QED BY <3>1, Zenon DEF Shares
  <2>2. CASE g.start < f.start
    <3>1. f.start \in 0..RoomLeft /\ f.start <= f.start /\ f.start < f.end /\ g.start <= f.start /\ f.start < g.end
      BY <1>1, <1>2, <2>2 DEF Overlaps
    <3> QED BY <3>1, Zenon DEF Shares
  <2> QED BY <1>1, <2>1, <2>2
<1>3. ASSUME Shares(f, g) PROVE Overlaps(f, g)
  <2>1. PICK b \in 0..RoomLeft : f.start <= b /\ b < f.end /\ g.start <= b /\ b < g.end
    BY <1>3, Zenon DEF Shares
  <2> QED BY <1>1, <2>1 DEF Overlaps
<1> QED BY <1>2, <1>3, Zenon

\* Sharing a byte has no direction.
LEMMA SharingIsMutual == \A f, g : Shares(f, g) <=> Shares(g, f)
  BY Zenon DEF Shares

\* What it takes to add a fragment to those that agree.
Agrees(f, g) ==
    ~Shares(f, g) /\ f.shape = g.shape /\ (~f.more => g.end <= f.start) /\ (~g.more => f.end <= g.start)

\* Fragments that fit together do so with one more if it is proper and agrees with each.
LEMMA OneMore ==
    ASSUME NEW S, Consistent(S), NEW f, f \notin S
    PROVE  Consistent(S \union {f}) <=> Proper(f) /\ \A g \in S : Agrees(f, g)
<1>1. ASSUME Proper(f), \A g \in S : Agrees(f, g) PROVE Consistent(S \union {f})
  BY <1>1, SharingIsMutual, Zenon DEF Consistent, Agrees, Proper
<1>2. ASSUME Consistent(S \union {f}) PROVE Proper(f) /\ \A g \in S : Agrees(f, g)
  BY <1>2, SharingIsMutual, Zenon DEF Consistent, Agrees, Proper
<1> QED BY <1>1, <1>2, Zenon

-----------------------------------------------------------------------------
Assembly ==
    [age : Nat, shape : {f.shape : f \in Offers}, received : SUBSET Offers,
     total : Nat \union {Nil}, rejected : BOOLEAN]

\* What an assembly that is not given up knows of its fragments: they agree, with
\* each other and on the headers, and the total is where the last of them ends.
Sound(v) ==
    /\ v \in Assembly
    /\ v.rejected => v.received = {}
    /\ ~v.rejected =>
         /\ Consistent(v.received)
         /\ \A f \in v.received : f.shape = v.shape
         /\ v.total = Nil => \A f \in v.received : f.more
         /\ v.total # Nil => \E f \in v.received : ~f.more /\ f.end = v.total

\* accept finds a fragment invalid exactly when it contradicts what was received.
LEMMA InvalidIsBroken ==
    ASSUME NEW v, Sound(v), ~v.rejected, NEW f \in Offers, v.received = {} => v.shape = f.shape
    PROVE  Invalid(v, f) <=>
             (f \in v.received \/ ~Consistent(v.received \union {f}) \/ Ranges(v.received \union {f}) > MaxRanges)
<1> DEFINE S == v.received
<1>0. /\ v \in Assembly /\ S \subseteq Offers /\ Consistent(S)
      /\ \A g \in S : Proper(g) /\ g.shape = v.shape
      /\ v.total = Nil => \A g \in S : g.more
      /\ v.total # Nil => \E g \in S : ~g.more /\ g.end = v.total
  BY Zenon DEF Sound, Assembly, Consistent, Proper
<1>1. /\ f.start \in Nat /\ f.end \in Nat /\ f.more \in BOOLEAN /\ f.start <= f.end /\ RoomLeft \in Nat
      /\ (f.end - f.start) % Unit = 0 <=> f.end % Unit = 0
  BY OfferTypes, UnitsAdd, FragmentsAssumption, Zenon
<1>2. ASSUME NEW g \in S
      PROVE  /\ g.start \in Nat /\ g.end \in Nat /\ g.more \in BOOLEAN
             /\ g.start < g.end /\ g.end <= RoomLeft
  BY <1>0, OfferTypes, Zenon DEF Proper
<1>3. CASE f \in S
  <2>1. Overlaps(f, f)
    BY <1>1, <1>2, <1>3, Zenon DEF Overlaps
  <2> QED BY <1>3, <2>1, Zenon DEF Invalid
<1>4. CASE f \notin S
  <2>1. Consistent(S \union {f}) <=> Proper(f) /\ \A g \in S : Agrees(f, g)
    BY <1>0, <1>4, OneMore, Zenon
  <2>2. ASSUME ~Invalid(v, f) PROVE Proper(f)
    BY <1>1, <2>2 DEF Invalid, Proper
  <2>3. ASSUME ~Invalid(v, f), NEW g \in S PROVE Agrees(f, g)
    <3>1. Proper(f) /\ g \in Offers
      BY <1>0, <2>2, <2>3, Zenon
    <3>2. ~Overlaps(f, g) /\ ~PastEnd(v, f) /\ (~f.more => ~(g.end > f.end)) /\ v.shape = f.shape
      BY <2>3, Zenon DEF Invalid
    <3>3. ~Shares(f, g)
      BY <1>2, <3>1, <3>2, OverlapIsSharing, Zenon DEF Proper
    <3>4. f.start < f.end /\ f.end <= RoomLeft
      BY <3>1, Zenon DEF Proper
    <3>5. ~f.more => g.end <= f.start
      BY <1>1, <1>2, <3>2, <3>4 DEF Overlaps
    <3>6. ASSUME ~g.more PROVE f.end <= g.start
      <4>1. PICK l \in S : ~l.more /\ l.end = v.total
        BY <1>0, <3>6, Zenon
      <4>2. l = g
        <5>1. l # g => g.end <= l.start /\ l.end <= g.start
          BY <1>0, <3>6, <4>1, Zenon DEF Consistent
        <5> QED BY <1>2, <4>1, <5>1
      <4>3. v.total = g.end /\ v.total # Nil
        BY <1>0, <3>6, <4>1, <4>2, Zenon
      <4>4. f.end <= g.end
        BY <1>1, <1>2, <3>2, <4>3 DEF PastEnd
      <4>5. g.start >= f.end \/ f.start >= g.end
        BY <1>1, <1>2, <3>2 DEF Overlaps
      <4> QED BY <1>1, <1>2, <3>4, <4>4, <4>5
    <3> QED BY <1>0, <3>2, <3>3, <3>5, <3>6, Zenon DEF Agrees
  <2>4. ASSUME Proper(f), \A g \in S : Agrees(f, g), Invalid(v, f)
        PROVE  Ranges(S \union {f}) > MaxRanges
    <3>1. f.start # f.end /\ ~(f.more /\ (f.end - f.start) % Unit # 0) /\ ~(f.end > RoomLeft)
      BY <1>1, <2>4 DEF Proper
    <3>2. v.shape = f.shape
      <4>1. CASE S = {}
        BY <4>1, Zenon
      <4>2. CASE S # {}
        BY <1>0, <2>4, <4>2, Zenon DEF Agrees
      <4> QED BY <4>1, <4>2, Zenon
    <3>3. ~PastEnd(v, f)
      <4>1. SUFFICES ASSUME v.total # Nil PROVE ~PastEnd(v, f)
        BY Zenon DEF PastEnd
      <4>2. PICK l \in S : ~l.more /\ l.end = v.total
        BY <1>0, <4>1, Zenon
      <4>3. f.end <= l.start /\ (~f.more => l.end <= f.start)
        BY <2>4, <4>2, Zenon DEF Agrees
      <4>4. f.end < v.total /\ f.more
        BY <1>1, <1>2, <4>2, <4>3
      <4> QED BY <1>1, <1>2, <4>2, <4>4 DEF PastEnd
    <3>4. ASSUME ~f.more, NEW g \in S PROVE ~(g.end > f.end)
      <4>1. g.end <= f.start
        BY <2>4, <3>4, Zenon DEF Agrees
      <4> QED BY <1>1, <1>2, <4>1
    <3>5. ASSUME NEW g \in S PROVE ~Overlaps(f, g)
      <4>1. ~Shares(f, g) /\ g \in Offers
        BY <1>0, <2>4, Zenon DEF Agrees
      <4> QED BY <1>2, <2>4, <4>1, OverlapIsSharing, Zenon DEF Proper
    <3> QED BY <2>4, <3>1, <3>2, <3>3, <3>4, <3>5, Zenon DEF Invalid
  <2>5. Ranges(S \union {f}) > MaxRanges => Invalid(v, f)
    BY Zenon DEF Invalid
  <2> QED BY <1>4, <2>1, <2>2, <2>3, <2>4, <2>5, Zenon
<1> QED BY <1>3, <1>4, Zenon

\* The data before the first hole reaches the end of the last fragment exactly when
\* the fragments are a whole packet.
LEMMA WholeIsCovered ==
    ASSUME NEW S \in SUBSET Offers, Consistent(S), NEW l \in S, ~l.more
    PROVE  Front(S) = l.end <=> Whole(S)
<1> DEFINE Covered(n) == \A b \in 0..(n - 1) : \E f \in S : f.start <= b /\ b < f.end
           N == {n \in 0..RoomLeft : Covered(n)}
<1>1. ASSUME NEW g \in S
      PROVE  /\ g.start \in Nat /\ g.end \in Nat /\ g.more \in BOOLEAN
             /\ g.start < g.end /\ g.end <= RoomLeft
  BY OfferTypes, Zenon DEF Consistent
<1>2. RoomLeft \in Nat
  BY FragmentsAssumption, Zenon
<1>3. ASSUME NEW g \in S PROVE g.end <= l.end
  <2>1. g # l => g.end <= l.start
    BY Zenon DEF Consistent
  <2> QED BY <1>1, <2>1
<1>4. Front(S) = CHOOSE x \in N : \A y \in N : x >= y
  BY Zenon DEF Front, Max
<1>5. ASSUME Whole(S) PROVE Front(S) = l.end
  <2>1. ASSUME NEW b \in 0..(l.end - 1) PROVE \E f \in S : f.start <= b /\ b < f.end
    <3>1. SUFFICES ASSUME ~\E f \in S : f.start <= b /\ b < f.end PROVE FALSE
      BY Zenon
    <3> DEFINE Later == {f.start : f \in {g \in S : g.start > b}}
    <3>2. l.start > b
      BY <1>1, <2>1, <3>1
    <3>3. Later \subseteq Nat /\ Later # {}
      BY <1>1, <3>2, Zenon
    <3>4. PICK x \in Later : \A y \in Later : x <= y
      BY <3>3, Least, Zenon
    <3>5. PICK f \in S : f.start > b /\ f.start = x
      BY <3>4, Zenon
    <3>6. PICK g \in S : g.end = f.start
      <4>1. f.start # 0
        BY <1>1, <2>1, <3>5
      <4> QED BY <1>5, <4>1, Zenon DEF Whole
    <3>7. ~(g.start <= b)
      BY <1>1, <2>1, <3>1, <3>5, <3>6, Zenon
    <3>8. g.start > b
      BY <1>1, <2>1, <3>7
    <3>9. g.start \in Later
      BY <3>8, Zenon
    <3>10. f.start <= g.start
      BY <3>4, <3>5, <3>9, Zenon
    <3> QED BY <1>1, <3>6, <3>10
  <2>2. l.end \in N
    BY <1>1, <1>2, <2>1
  <2>3. ASSUME NEW y \in N PROVE l.end >= y
    <3>1. SUFFICES ASSUME l.end < y PROVE FALSE
      BY <1>1, <1>2
    <3>2. l.end \in 0..(y - 1)
      BY <1>1, <1>2, <3>1
    <3>3. PICK f \in S : f.start <= l.end /\ l.end < f.end
      BY <3>2, Zenon
    <3> QED BY <1>1, <1>3, <3>3
  <2>4. ASSUME NEW x \in N, \A y \in N : x >= y PROVE x = l.end
    BY <1>1, <1>2, <2>2, <2>3, <2>4
  <2>5. \E x \in N : \A y \in N : x >= y
    BY <2>2, <2>3, Zenon
  <2>6. (CHOOSE x \in N : \A y \in N : x >= y) \in N /\ \A y \in N : (CHOOSE x \in N : \A y1 \in N : x >= y1) >= y
    BY <2>5, Zenon
  <2> QED BY <1>4, <2>4, <2>6, Zenon
<1>6. ASSUME Front(S) = l.end PROVE Whole(S)
  <2>1. \E x \in N : \A y \in N : x >= y
    <3> DEFINE Beyond == {RoomLeft - n : n \in N}
    <3>1. 0 \in N
      BY <1>2
    <3>2. Beyond \subseteq Nat /\ Beyond # {}
      BY <1>2, <3>1
    <3>3. PICK r \in Beyond : \A y \in Beyond : r <= y
      BY <3>2, Least, Zenon
    <3>4. PICK x \in N : r = RoomLeft - x
      BY <3>3, Zenon
    <3>5. ASSUME NEW y \in N PROVE x >= y
      <4>1. RoomLeft - y \in Beyond
        BY Zenon
      <4>2. RoomLeft - x <= RoomLeft - y
        BY <3>3, <3>4, <4>1, Zenon
      <4>3. x \in Nat /\ y \in Nat
        BY <1>2
      <4> HIDE DEF N
      <4> QED BY <1>2, <4>2, <4>3
    <3> QED BY <3>5, Zenon
  <2>2. l.end \in N
    BY <1>4, <1>6, <2>1, Zenon
  <2>3. ASSUME NEW f \in S PROVE f.start = 0 \/ \E g \in S : g.end = f.start
    <3>1. SUFFICES ASSUME f.start # 0 PROVE \E g \in S : g.end = f.start
      BY Zenon
    <3>2. f.start - 1 \in 0..(l.end - 1)
      BY <1>1, <1>3, <3>1
    <3>3. PICK g \in S : g.start <= f.start - 1 /\ f.start - 1 < g.end
      BY <2>2, <3>2, Zenon
    <3>4. g # f
      BY <1>1, <3>3
    <3>5. ~Shares(f, g)
      BY <3>4, Zenon DEF Consistent
    <3>6. f.start \in 0..RoomLeft /\ f.start <= f.start /\ f.start < f.end /\ g.start <= f.start
      BY <1>1, <1>2, <3>3
    <3>7. ~(f.start < g.end)
      BY <3>5, <3>6, Zenon DEF Shares
    <3>8. g.end = f.start
      BY <1>1, <3>3, <3>7
    <3> QED BY <3>8, Zenon
  <2> QED BY <2>3, Zenon DEF Whole
<1> QED BY <1>5, <1>6, Zenon

-----------------------------------------------------------------------------
FragInv ==
    /\ assemblies \in [Keys -> Assembly \union {Nil}]
    /\ \A k \in Keys : assemblies[k] # Nil =>
         Sound(assemblies[k]) /\ (assemblies[k].rejected \/ assemblies[k].received # {})

\* What is added to a sound assembly leaves it sound, and says whether it is complete.
LEMMA AddedIsSound ==
    ASSUME NEW v, Sound(v), ~v.rejected, NEW f \in Offers, v.received = {} => v.shape = f.shape
    PROVE  LET w == Added(v, f) IN
           /\ Sound(w) /\ (w.rejected <=> Invalid(v, f))
           /\ ~w.rejected => w.received = v.received \union {f}
           /\ IsComplete(w) <=> Whole(w.received)
<1> DEFINE w == Added(v, f)
<1>1. v \in Assembly /\ v.received \in SUBSET Offers /\ f.more \in BOOLEAN /\ f.end \in Nat /\ Nil \notin Nat
  BY OfferTypes, FragmentsAssumption, Zenon DEF Sound, Assembly
<1>2. CASE Invalid(v, f)
  <2>1. w = [v EXCEPT !.rejected = TRUE, !.received = {}]
    BY <1>2, Zenon DEF Added
  <2>2. w \in Assembly /\ w.rejected = TRUE /\ w.received = {}
    BY <1>1, <2>1, Zenon DEF Assembly
  <2>3. ~Whole({})
    BY Zenon DEF Whole
  <2> HIDE DEF w
  <2>4. Sound(w) /\ ~IsComplete(w) /\ ~Whole(w.received)
    BY <2>2, <2>3, Zenon DEF Sound, IsComplete
  <2> QED BY <1>2, <2>2, <2>4, Zenon DEF w
<1>3. CASE ~Invalid(v, f)
  <2>1. w = [v EXCEPT !.received = v.received \union {f}, !.total = IF f.more THEN v.total ELSE f.end]
    BY <1>1, <1>3, Zenon DEF Added, Assembly
  <2>2. /\ w \in Assembly /\ w.rejected = FALSE /\ w.received = v.received \union {f}
        /\ w.shape = v.shape /\ w.total = IF f.more THEN v.total ELSE f.end
    BY <1>1, <2>1 DEF Assembly
  <2> HIDE DEF w
  <2>3. Consistent(w.received)
    BY <1>3, <2>2, InvalidIsBroken, Zenon
  <2>4. v.shape = f.shape
    BY <1>3, Zenon DEF Invalid
  <2>5. \A g \in w.received : g.shape = w.shape
    BY <2>2, <2>4, Zenon DEF Sound
  <2>6. w.total = Nil => \A g \in w.received : g.more
    BY <1>1, <2>2, Zenon DEF Sound
  <2>7. w.total # Nil => \E g \in w.received : ~g.more /\ g.end = w.total
    BY <1>1, <2>2, Zenon DEF Sound
  <2>8. Sound(w)
    BY <2>2, <2>3, <2>5, <2>6, <2>7, Zenon DEF Sound
  <2>9. IsComplete(w) <=> Whole(w.received)
    <3>1. CASE w.total = Nil
      BY <2>6, <3>1, Zenon DEF IsComplete, Whole
    <3>2. CASE w.total # Nil
      <4>1. PICK l \in w.received : ~l.more /\ l.end = w.total
        BY <2>7, <3>2, Zenon
      <4>2. w.received \in SUBSET Offers
        BY <1>1, <2>2, Zenon
      <4>3. Front(w.received) = l.end <=> Whole(w.received)
        BY <2>3, <4>1, <4>2, WholeIsCovered, Zenon
      <4> QED BY <2>2, <3>2, <4>1, <4>3, Zenon DEF IsComplete
    <3> QED BY <3>1, <3>2, Zenon
  <2> QED BY <1>3, <2>2, <2>8, <2>9, Zenon DEF w
<1> QED BY <1>2, <1>3, Zenon

\* What expire keeps is what was there, or nothing.
LEMMA KeptIsHeld ==
    ASSUME FragInv
    PROVE  /\ Kept \in [Keys -> Assembly \union {Nil}]
           /\ \A k \in Keys : Kept[k] = IF Dated(k) THEN Nil ELSE assemblies[k]
           /\ \A k \in Keys : Kept[k] # Nil <=> ~Dated(k)
<1>1. Lifetime \in Nat
  BY FragmentsAssumption, Zenon
<1>2. ASSUME NEW k \in Keys PROVE Fresh(assemblies[k]) <=> ~Dated(k)
  <2>1. assemblies[k] # Nil => assemblies[k].age \in Nat
    BY Zenon DEF FragInv, Assembly
  <2> QED BY <1>1, <2>1 DEF Fresh, Dated
<1>3. ASSUME NEW k \in Keys PROVE Kept[k] = IF Dated(k) THEN Nil ELSE assemblies[k]
  BY <1>2, Zenon DEF Kept
<1>4. ASSUME NEW k \in Keys PROVE Kept[k] \in Assembly \union {Nil}
  BY <1>3, Zenon DEF FragInv
<1>5. Kept \in [Keys -> Assembly \union {Nil}]
  BY <1>4, Zenon DEF Kept
<1>6. ASSUME NEW k \in Keys PROVE Kept[k] # Nil <=> ~Dated(k)
  BY <1>3, Zenon DEF Dated
<1> QED BY <1>3, <1>5, <1>6, Zenon

\* The assembly a fragment goes to.
Target(k, f) == IF Kept[k] = Nil THEN New(f) ELSE Kept[k]

\* What accept works on is sound: the entry of the packet, or a new one.
LEMMA TargetIsSound ==
    ASSUME FragInv, NEW k \in Keys, NEW f \in Offers
    PROVE  LET v == Target(k, f) IN
           /\ Sound(v) /\ v.received = Held(k)
           /\ ~v.rejected => (v.received = {} => v.shape = f.shape)
           /\ v.rejected <=> ~(Dated(k) \/ ~assemblies[k].rejected)
<1> DEFINE v == Target(k, f)
<1>1. CASE Dated(k)
  <2>1. v = New(f)
    BY <1>1, KeptIsHeld, Zenon DEF Target
  <2>2. v \in Assembly /\ v.received = {} /\ v.rejected = FALSE /\ v.total = Nil /\ v.shape = f.shape
    BY <2>1 DEF New, Assembly
  <2> HIDE DEF v
  <2>3. Consistent({})
    BY Zenon DEF Consistent
  <2>4. Sound(v)
    BY <2>2, <2>3, Zenon DEF Sound
  <2> QED BY <1>1, <2>2, <2>4, Zenon DEF v, Held
<1>2. CASE ~Dated(k)
  <2>1. v = assemblies[k] /\ assemblies[k] # Nil
    BY <1>2, KeptIsHeld, Zenon DEF Target, Dated
  <2>2. Sound(v) /\ (v.rejected \/ v.received # {})
    BY <2>1, Zenon DEF FragInv
  <2> HIDE DEF v
  <2> QED BY <1>2, <2>1, <2>2, Zenon DEF v, Held
<1> QED BY <1>1, <1>2, Zenon

Emits ==
    \A k \in Keys : Joins(k) =>
        /\ emitted' # {} => Whole(emitted') /\ emitted' = Held(k) \union {arrival'.frag}
        /\ assemblies'[k] # Nil => ~Whole(assemblies'[k].received)
Rejects ==
    \A k \in Keys : Joins(k) /\ assemblies'[k] # Nil /\ (Dated(k) \/ ~assemblies[k].rejected) =>
        LET f == arrival'.frag
            S == Held(k) \union {f}
        IN  assemblies'[k].rejected <=>
              (f \in Held(k) \/ ~Consistent(S) \/ Ranges(S) > MaxRanges)

\* No fragments, no packet.
LEMMA NothingIsNotWhole == ~Whole({})
  BY Zenon DEF Whole

\* A fragment is taken: what it leaves, what it emits and what it gives up.
LEMMA AcceptStep ==
    ASSUME FragInv, NEW k \in Keys, NEW f \in Offers, AcceptFragment(k, f)
    PROVE  FragInv' /\ Emits /\ Rejects
<1> DEFINE v == Target(k, f)
           w == Added(v, f)
<1>1. /\ Kept \in [Keys -> Assembly \union {Nil}]
      /\ \A j \in Keys : Kept[j] = IF Dated(j) THEN Nil ELSE assemblies[j]
      /\ \A j \in Keys : Kept[j] # Nil <=> ~Dated(j)
  BY KeptIsHeld, Zenon
<1>2. \A j \in Keys : Kept[j] # Nil =>
        Sound(Kept[j]) /\ (Kept[j].rejected \/ Kept[j].received # {})
  BY <1>1, Zenon DEF FragInv
<1>3. /\ Sound(v) /\ v.received = Held(k)
      /\ ~v.rejected => (v.received = {} => v.shape = f.shape)
      /\ v.rejected <=> ~(Dated(k) \/ ~assemblies[k].rejected)
  BY TargetIsSound, Zenon
<1>4. \A j \in Keys : Joins(j) => j = k /\ arrival'.frag = f
  BY Zenon DEF AcceptFragment, Joins
<1>5. \/ (~HasRoomFor(k) \/ v.rejected) /\ assemblies' = Kept /\ emitted' = {}
      \/ ~v.rejected /\ IsComplete(w) /\ assemblies' = [Kept EXCEPT ![k] = Nil] /\ emitted' = w.received
      \/ ~v.rejected /\ ~IsComplete(w) /\ assemblies' = [Kept EXCEPT ![k] = w] /\ emitted' = {}
  BY Zenon DEF AcceptFragment, Target
<1>6. v.rejected => v = Kept[k] /\ v.received = {}
  BY <1>3, Zenon DEF Target, New, Sound
<1> HIDE DEF v
<1>7. CASE (~HasRoomFor(k) \/ v.rejected) /\ assemblies' = Kept /\ emitted' = {}
  <2>1. FragInv'
    BY <1>1, <1>2, <1>7, Zenon DEF FragInv
  <2>2. Kept[k] # Nil => v = Kept[k] /\ v.rejected
    BY <1>7, Zenon DEF HasRoomFor, v, Target
  <2>3. Emits
    BY <1>4, <1>6, <1>7, <2>2, NothingIsNotWhole, Zenon DEF Emits
  <2>4. Rejects
    BY <1>3, <1>4, <1>7, <2>2, Zenon DEF Rejects
  <2> QED BY <2>1, <2>3, <2>4, Zenon
<1>8. ASSUME ~v.rejected
      PROVE  /\ Sound(w) /\ (w.rejected <=> Invalid(v, f))
             /\ ~w.rejected => w.received = v.received \union {f}
             /\ IsComplete(w) <=> Whole(w.received)
  BY <1>3, <1>8, AddedIsSound, Zenon
<1>9. ASSUME ~v.rejected
      PROVE  Invalid(v, f) <=>
               (f \in v.received \/ ~Consistent(v.received \union {f}) \/ Ranges(v.received \union {f}) > MaxRanges)
  BY <1>3, <1>9, InvalidIsBroken, Zenon
<1> HIDE DEF w
<1>10. CASE ~v.rejected /\ IsComplete(w) /\ assemblies' = [Kept EXCEPT ![k] = Nil] /\ emitted' = w.received
  <2>1. assemblies' \in [Keys -> Assembly \union {Nil}] /\ assemblies'[k] = Nil
        /\ \A j \in Keys : j # k => assemblies'[j] = Kept[j]
    BY <1>1, <1>10, Zenon
  <2>2. FragInv'
    BY <1>2, <2>1, Zenon DEF FragInv
  <2>3. w.received = v.received \union {f} /\ Whole(w.received)
    BY <1>8, <1>10, Zenon DEF IsComplete
  <2>4. Emits /\ Rejects
    BY <1>3, <1>4, <1>10, <2>1, <2>3, Zenon DEF Emits, Rejects
  <2> QED BY <2>2, <2>4, Zenon
<1>11. CASE ~v.rejected /\ ~IsComplete(w) /\ assemblies' = [Kept EXCEPT ![k] = w] /\ emitted' = {}
  <2>0. Sound(w)
    BY <1>8, <1>11, Zenon
  <2>1. w \in Assembly
    BY <2>0, Zenon DEF Sound
  <2>2. assemblies' \in [Keys -> Assembly \union {Nil}] /\ assemblies'[k] = w
        /\ \A j \in Keys : j # k => assemblies'[j] = Kept[j]
    BY <1>1, <1>11, <2>1, Zenon
  <2>3. w.rejected \/ w.received # {}
    BY <1>8, <1>11, Zenon
  <2>4. FragInv'
    BY <1>2, <2>0, <2>2, <2>3, Zenon DEF FragInv
  <2>5. Emits
    BY <1>4, <1>8, <1>11, <2>2, Zenon DEF Emits
  <2>6. w.rejected <=> (f \in Held(k) \/ ~Consistent(Held(k) \union {f}) \/ Ranges(Held(k) \union {f}) > MaxRanges)
    <3>1. w.rejected <=> Invalid(v, f)
      BY <1>8, <1>11, Zenon
    <3>2. v.received = Held(k)
      BY <1>3, Zenon
    <3> QED BY <1>9, <1>11, <3>1, <3>2, Zenon
  <2>7. Rejects
    BY <1>4, <2>2, <2>6, Zenon DEF Rejects
  <2> QED BY <2>4, <2>5, <2>7, Zenon
<1> QED BY <1>5, <1>7, <1>10, <1>11, Zenon

\* Every step of the reassembly keeps the invariant and does as the properties say.
LEMMA FragStep == FragInv /\ [FragNext]_fragVars => FragInv' /\ [Emits]_fragVars /\ [Rejects]_fragVars
<1> SUFFICES ASSUME FragInv, [FragNext]_fragVars
             PROVE  FragInv' /\ [Emits]_fragVars /\ [Rejects]_fragVars
  BY Zenon
<1>1. ASSUME NEW k \in Keys, NEW f \in Offers, AcceptAtomic(k, f) PROVE FragInv' /\ Emits /\ Rejects
  <2>1. FragInv'
    BY <1>1, Zenon DEF FragInv, AcceptAtomic
  <2>2. \A j \in Keys : ~Joins(j)
    BY <1>1, Zenon DEF AcceptAtomic, Joins
  <2> QED BY <2>1, <2>2, Zenon DEF Emits, Rejects
<1>2. ASSUME NEW k \in Keys, NEW f \in Offers, AcceptFragment(k, f) PROVE FragInv' /\ Emits /\ Rejects
  BY <1>2, AcceptStep, Zenon
<1>3. CASE ExpireAll
  <2>1. FragInv'
    BY <1>3, KeptIsHeld, Zenon DEF ExpireAll, FragInv
  <2> QED BY <1>3, <2>1, Zenon DEF ExpireAll, Joins, Emits, Rejects
<1>4. CASE ClockTick
  <2>1. ASSUME NEW k \in Keys, assemblies[k] # Nil
        PROVE  LET v == [assemblies[k] EXCEPT !.age = @ + 1] IN
               v \in Assembly /\ v.received = assemblies[k].received /\ v.rejected = assemblies[k].rejected
               /\ v.shape = assemblies[k].shape /\ v.total = assemblies[k].total
    <3>1. assemblies[k] \in Assembly
      BY <2>1, Zenon DEF FragInv, Sound
    <3> QED BY <3>1 DEF Assembly
  <2>2. ASSUME NEW k \in Keys, assemblies[k] # Nil
        PROVE  LET v == [assemblies[k] EXCEPT !.age = @ + 1] IN
               Sound(v) /\ (v.rejected \/ v.received # {}) /\ v \in Assembly
    <3> DEFINE v == [assemblies[k] EXCEPT !.age = @ + 1]
    <3>1. v \in Assembly /\ v.received = assemblies[k].received /\ v.rejected = assemblies[k].rejected
          /\ v.shape = assemblies[k].shape /\ v.total = assemblies[k].total
      BY <2>1, <2>2, Zenon
    <3>2. Sound(assemblies[k]) /\ (assemblies[k].rejected \/ assemblies[k].received # {})
      BY <2>2, Zenon DEF FragInv
    <3> HIDE DEF v
    <3>3. Sound(v) /\ (v.rejected \/ v.received # {}) /\ v \in Assembly
      BY <3>1, <3>2, Zenon DEF Sound
    <3> QED BY <3>3, Zenon DEF v
  <2>3. ASSUME NEW k \in Keys
        PROVE  /\ assemblies'[k] \in Assembly \union {Nil}
               /\ assemblies'[k] # Nil =>
                    Sound(assemblies'[k]) /\ (assemblies'[k].rejected \/ assemblies'[k].received # {})
    <3>1. \/ assemblies[k] # Nil /\ assemblies'[k] = [assemblies[k] EXCEPT !.age = @ + 1]
          \/ assemblies'[k] = assemblies[k]
      BY <1>4, Zenon DEF ClockTick
    <3>2. assemblies[k] \in Assembly \union {Nil}
      BY Zenon DEF FragInv
    <3> QED BY <2>2, <3>1, <3>2, Zenon DEF FragInv
  <2>4. assemblies' \in [Keys -> Assembly \union {Nil}]
    <3>1. assemblies' = [k \in Keys |-> assemblies'[k]]
      BY <1>4, Zenon DEF ClockTick
    <3> QED BY <2>3, <3>1, Zenon
  <2>5. FragInv'
    BY <2>3, <2>4, Zenon DEF FragInv
  <2> QED BY <1>4, <2>5, Zenon DEF ClockTick, Joins, Emits, Rejects
<1>5. CASE UNCHANGED fragVars
  <2>1. FragInv'
    BY <1>5, Zenon DEF fragVars, FragInv
  <2> QED BY <1>5, <2>1, Zenon
<1> QED BY <1>1, <1>2, <1>3, <1>4, <1>5, Zenon DEF FragNext

\* Initially nothing is pending.
LEMMA FragStart == FragInit => FragInv
  BY Zenon DEF FragInit, FragInv

\* accept returns a packet exactly when the fragments of its key that arrived within
\* the lifetime are a whole one, for any fragments in any order: none is emitted
\* with a hole, a byte twice or bytes after its end, and none that is whole waits.
THEOREM PacketsAreWhole == FragSpec => EmitsExactlyWhole
<1>1. FragInv /\ [FragNext]_fragVars => FragInv' /\ [Emits]_fragVars
  BY FragStep, Zenon
<1>2. FragSpec => [][Emits]_fragVars
  BY <1>1, FragStart, PTL DEF FragSpec
<1> QED BY <1>2, PTL DEF Emits, EmitsExactlyWhole

\* accept gives a packet up exactly when its fragments contradict each other,
\* whatever order they came in, or leave too many holes.
THEOREM BrokenAreRejected == FragSpec => RejectsExactlyBroken
<1>1. FragInv /\ [FragNext]_fragVars => FragInv' /\ [Rejects]_fragVars
  BY FragStep, Zenon
<1>2. FragSpec => [][Rejects]_fragVars
  BY <1>1, FragStart, PTL DEF FragSpec
<1> QED BY <1>2, PTL DEF Rejects, RejectsExactlyBroken
=============================================================================
