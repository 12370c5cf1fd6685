------------------------------- MODULE TunTcp -------------------------------
(***************************************************************************)
(* The TCP half of the packet adapter (crates/core/src/packet.rs): the loop *)
(* of run, which owns the sockets of the user-space stack, and the session  *)
(* tasks it spawns, for one flow (source, target).  A connection of the     *)
(* client is a generation: its socket, its two channels and its session are *)
(* made together, but the results of sessions are matched by flow.  The     *)
(* loop alone touches sockets, so packet and poll are one step; sessions    *)
(* run on other threads between any two steps of the loop.                  *)
(*                                                                          *)
(* Bytes are counted in chunks; channels and buffers are queues, so counts  *)
(* stand for their contents.                                                *)
(***************************************************************************)
EXTENDS Naturals, FiniteSets

CONSTANTS
    Loads,   \* bounds: [last |-> connections, up, down |-> chunks each way]
    Channel, \* capacity of a channel (4 items)
    Buffer   \* capacity of a socket buffer in chunks (32 KiB)

ASSUME TunTcpConstants ==
    Loads \subseteq [last : Nat, up : Nat, down : Nat] /\ Channel \in Nat /\ Buffer \in Nat

Gens == UNION {1..l.last : l \in Loads}

VARIABLES
    load,    \* the bounds of this behaviour
    at,      \* the loop: "select", "join", "in", "out", "end"
    flow,    \* the generation in tcp_flows, 0 when there is none
    made,    \* generations so far
    sock,    \* "none", "listen", "open", "half" (client's FIN), "fin" (ours), "closed"
    sent, recvd, fed, got,             \* upload: by the client, in the socket, in the channel, read
    wrote, taken, pending, queued, delivered, \* download: by the session ... to the client
    input,   \* TcpFlow::input is still there
    eof,     \* TcpFlow::eof
    sess,    \* "none", "run", "left" (its stream is dropped), "ok", "err", "gone"
    shut,    \* the session has given up its half of the output channel
    aborted, \* sessions told to abort
    ended,   \* sessions that read the end of the upload
    fin,     \* history: clients that saw a clean end of the download
    blamed,  \* history: sockets aborted for the failure of another generation
    outran   \* history: sessions that were complete when told to abort

socketVars == <<sock, recvd, queued, delivered>>
clientVars == <<load, sent, fin>>
channelVars == <<fed, wrote, taken, pending, input, eof>>
sessionVars == <<got, sess, shut, aborted, ended, outran>>
loopVars == <<at, flow, made, blamed>>
vars == <<socketVars, clientVars, channelVars, sessionVars, loopVars>>

Zero == [g \in Gens |-> 0]
Init ==
    /\ load \in Loads
    /\ at = "select" /\ flow = 0 /\ made = 0
    /\ sock = [g \in Gens |-> "none"] /\ sess = [g \in Gens |-> "none"]
    /\ sent = Zero /\ recvd = Zero /\ fed = Zero /\ got = Zero
    /\ wrote = Zero /\ taken = Zero /\ queued = Zero /\ delivered = Zero
    /\ pending = {} /\ input = {} /\ eof = {}
    /\ shut = {} /\ aborted = {} /\ ended = {} /\ fin = {} /\ blamed = {} /\ outran = {}

-----------------------------------------------------------------------------
(* The socket of the user-space stack (external: smoltcp)                   *)

To(g, s) == sock' = [sock EXCEPT ![g] = s]
Unread(g) == recvd[g] - fed[g]
MayRecv(g) == sock[g] \in {"open", "fin"} \/ Unread(g) > 0
CanSend(g) == sock[g] \in {"open", "half"} /\ queued[g] - delivered[g] < Buffer
AfterClose(g) == IF sock[g] = "open" THEN "fin" ELSE "last"
Unfinished(g) == sock[g] \in {"listen", "open", "half", "fin", "last"}

-----------------------------------------------------------------------------
(* select, with the iface.poll that follows                                 *)

\* a client may connect again once its connection is over
Syn ==
    /\ at = "select" /\ flow = 0 /\ made < load.last
    /\ LET g == made + 1 IN
       /\ made' = g /\ flow' = g /\ To(g, "listen")
       /\ sess' = [sess EXCEPT ![g] = "run"] /\ input' = input \union {g}
    /\ at' = "join"
    /\ UNCHANGED <<recvd, queued, delivered, clientVars, fed, wrote, taken, pending, eof,
                   got, shut, aborted, ended, outran, blamed>>

Packet(g) == at = "select" /\ flow = g /\ at' = "join" /\ UNCHANGED <<flow, made, blamed>>

Established(g) ==
    /\ Packet(g) /\ sock[g] = "listen" /\ To(g, "open")
    /\ UNCHANGED <<recvd, queued, delivered, clientVars, channelVars, sessionVars>>
Data(g) ==
    /\ Packet(g) /\ sock[g] \in {"open", "fin"} /\ sent[g] < load.up /\ Unread(g) < Buffer
    /\ sent' = [sent EXCEPT ![g] = @ + 1] /\ recvd' = [recvd EXCEPT ![g] = @ + 1]
    /\ UNCHANGED <<load, sock, queued, delivered, fin, channelVars, sessionVars>>
Fin(g) ==
    /\ Packet(g)
    /\ \/ sock[g] = "open" /\ To(g, "half")
       \/ sock[g] = "fin" /\ g \in fin /\ To(g, "closed")
    /\ UNCHANGED <<recvd, queued, delivered, clientVars, channelVars, sessionVars>>
Rst(g) ==
    /\ Packet(g) /\ sock[g] \in {"open", "half", "fin", "last"} /\ To(g, "closed")
    /\ UNCHANGED <<recvd, queued, delivered, clientVars, channelVars, sessionVars>>
\* the client receives, and acknowledges, what was queued and then the FIN
Ack(g) ==
    /\ Packet(g) /\ Unfinished(g)
    /\ \/ /\ delivered[g] < queued[g] /\ delivered' = [delivered EXCEPT ![g] = @ + 1]
          /\ UNCHANGED <<sock, fin>>
       \/ /\ delivered[g] = queued[g] /\ sock[g] \in {"fin", "last"} /\ fin' = fin \union {g}
          /\ g \notin fin
          /\ IF sock[g] = "last" THEN To(g, "closed") ELSE UNCHANGED sock
          /\ UNCHANGED delivered
    /\ UNCHANGED <<load, recvd, queued, sent, channelVars, sessionVars>>
Tick ==
    /\ at = "select" /\ at' = "join"
    /\ UNCHANGED <<socketVars, clientVars, channelVars, sessionVars, flow, made, blamed>>

-----------------------------------------------------------------------------
(* the rest of an iteration                                                 *)

\* try_join_next: a failed session aborts the socket the flow has now
JoinAbort(g) == IF sess[g] = "err" /\ flow # 0 THEN To(flow, "closed") ELSE UNCHANGED sock
Join(g) ==
    /\ at = "join" /\ sess[g] \in {"ok", "err"}
    /\ JoinAbort(g)
    /\ blamed' = IF sock' # sock /\ flow # g THEN blamed \union {flow} ELSE blamed
    /\ sess' = [sess EXCEPT ![g] = "gone"]
    /\ UNCHANGED <<at, flow, made, recvd, queued, delivered, clientVars, channelVars,
                   got, shut, aborted, ended, outran>>

\* no result is left; the idle and the handshake limit are looked at
Joined(idle) ==
    /\ at = "join" /\ \A g \in Gens : sess[g] \notin {"ok", "err"}
    /\ at' = IF flow = 0 THEN "select" ELSE "in"
    /\ IF idle /\ flow # 0 THEN To(flow, "closed") ELSE UNCHANGED sock
    /\ UNCHANGED <<recvd, queued, delivered, clientVars, channelVars, sessionVars, flow, made, blamed>>

\* a chunk goes from the socket to the session
Room(g) == fed[g] - got[g] < Channel
Feed ==
    /\ at = "in" /\ Unread(flow) > 0 /\ flow \in input
    /\ sess[flow] = "run" /\ Room(flow)
    /\ fed' = [fed EXCEPT ![flow] = @ + 1]
    /\ UNCHANGED <<at, socketVars, clientVars, wrote, taken, pending, input, eof, sessionVars,
                   flow, made, blamed>>

\* nothing more to feed: the end of the upload is passed on after its last byte
PassEof(g) == sock[g] # "listen" /\ ~MayRecv(g)
Fed ==
    /\ at = "in" /\ at' = "out"
    /\ \/ /\ Unread(flow) = 0 \/ (sess[flow] = "run" /\ ~Room(flow))
          /\ UNCHANGED sock
       \/ /\ Unread(flow) > 0 /\ sess[flow] # "run"
          /\ To(flow, "closed")
    /\ input' = IF PassEof(flow) THEN input \ {flow} ELSE input
    /\ UNCHANGED <<recvd, queued, delivered, clientVars, fed, wrote, taken, pending, eof,
                   sessionVars, flow, made, blamed>>

\* a chunk goes from the session to the socket, perhaps in two parts
Take ==
    /\ at = "out" /\ CanSend(flow) /\ flow \notin pending \union eof
    /\ taken[flow] < wrote[flow]
    /\ taken' = [taken EXCEPT ![flow] = @ + 1]
    /\ \/ queued' = [queued EXCEPT ![flow] = @ + 1] /\ UNCHANGED pending
       \/ pending' = pending \union {flow} /\ UNCHANGED queued
    /\ UNCHANGED <<at, sock, recvd, delivered, clientVars, fed, wrote, input, eof, sessionVars,
                   flow, made, blamed>>
Push ==
    /\ at = "out" /\ CanSend(flow) /\ flow \in pending
    /\ pending' = pending \ {flow} /\ queued' = [queued EXCEPT ![flow] = @ + 1]
    /\ UNCHANGED <<at, sock, recvd, delivered, clientVars, fed, wrote, taken, input, eof,
                   sessionVars, flow, made, blamed>>

\* the channel is empty, and its sender gone: the socket is closed
DrainedEarly(g) == g \in shut
DrainedNever(g) == FALSE
Drained(g) == taken[g] = wrote[g] /\ g \in shut
Close ==
    /\ at = "out" /\ CanSend(flow) /\ flow \notin pending /\ (flow \in eof \/ Drained(flow))
    /\ eof' = eof \union {flow} /\ To(flow, AfterClose(flow)) /\ at' = "end"
    /\ UNCHANGED <<recvd, queued, delivered, clientVars, fed, wrote, taken, pending, input,
                   sessionVars, flow, made, blamed>>
Idle ==
    /\ at = "out" /\ at' = "end"
    /\ ~CanSend(flow) \/ (flow \notin pending \union eof /\ taken[flow] = wrote[flow] /\ ~Drained(flow))
    /\ UNCHANGED <<socketVars, clientVars, channelVars, sessionVars, flow, made, blamed>>

\* a socket that is closed is removed, with its flow and its ends of the channels;
\* what the session has not read stays readable
StopSession(g) == aborted' = aborted \union {g}
Drop(f) == [f EXCEPT ![flow] = 0]
Retire ==
    /\ at = "end" /\ ~Unfinished(flow)
    /\ StopSession(flow) /\ outran' = IF sess[flow] \in {"ok", "err"} THEN outran \union {flow} ELSE outran
    /\ To(flow, "none") /\ recvd' = Drop(recvd) /\ queued' = Drop(queued) /\ delivered' = Drop(delivered)
    /\ sent' = Drop(sent) /\ fin' = fin \ {flow}
    /\ fed' = [fed EXCEPT ![flow] = @ - got[flow]] /\ got' = Drop(got)
    /\ wrote' = Drop(wrote) /\ taken' = Drop(taken)
    /\ pending' = pending \ {flow} /\ input' = input \ {flow} /\ eof' = eof \ {flow}
    /\ flow' = 0 /\ at' = "select"
    /\ UNCHANGED <<load, sess, shut, ended, made, blamed>>
Keep ==
    /\ at = "end" /\ Unfinished(flow) /\ at' = "select"
    /\ UNCHANGED <<socketVars, clientVars, channelVars, sessionVars, flow, made, blamed>>

\* the core stops: every session is told to abort and is waited for; an error of
\* the device returns at once, and drops the flows while sessions still run
AbortAll == aborted' = aborted \union {g \in Gens : sess[g] \in {"run", "left"}}
Stop ==
    /\ at = "select" /\ at' = "stopped" /\ AbortAll
    /\ UNCHANGED <<socketVars, clientVars, channelVars, got, sess, shut, ended, outran, flow, made, blamed>>
DeviceFails ==
    /\ at = "select" /\ at' = "stopped" /\ AbortAll
    /\ flow' = 0 /\ input' = {}
    /\ UNCHANGED <<socketVars, clientVars, fed, wrote, taken, pending, eof, got, sess, shut, ended, outran,
                   made, blamed>>

-----------------------------------------------------------------------------
(* tcp_session over a ChannelStream                                         *)

Session(g) == sess[g] = "run" /\ UNCHANGED <<loopVars, socketVars, clientVars, fed, taken, pending, input, eof>>

Read(g) ==
    /\ Session(g) /\ g \notin ended
    /\ \/ got[g] < fed[g] /\ got' = [got EXCEPT ![g] = @ + 1] /\ UNCHANGED ended
       \/ got[g] = fed[g] /\ g \notin input /\ ended' = ended \union {g} /\ UNCHANGED got
    /\ UNCHANGED <<wrote, sess, shut, aborted, outran>>
Write(g) ==
    /\ Session(g) /\ g \notin shut /\ wrote[g] < load.down /\ flow = g /\ wrote[g] - taken[g] < Channel
    /\ wrote' = [wrote EXCEPT ![g] = @ + 1]
    /\ UNCHANGED sessionVars
ShutDown(g) ==
    /\ Session(g) /\ g \notin shut /\ shut' = shut \union {g}
    /\ UNCHANGED <<wrote, got, sess, aborted, ended, outran>>
\* the relay ends, is cancelled, or fails: the stream goes first, then the result
Leave(g) ==
    /\ Session(g) /\ shut' = shut \union {g} /\ sess' = [sess EXCEPT ![g] = "left"]
    /\ UNCHANGED <<wrote, got, aborted, ended, outran>>
Complete(g, result) ==
    /\ sess[g] = "left" /\ sess' = [sess EXCEPT ![g] = result]
    /\ outran' = IF g \in aborted THEN outran \union {g} ELSE outran
    /\ UNCHANGED <<loopVars, socketVars, clientVars, channelVars, got, shut, aborted, ended>>
Cancelled(g) ==
    /\ g \in aborted /\ sess[g] \in {"run", "left"}
    /\ sess' = [sess EXCEPT ![g] = "gone"] /\ shut' = shut \union {g}
    /\ UNCHANGED <<loopVars, socketVars, clientVars, channelVars, got, aborted, ended, outran>>

-----------------------------------------------------------------------------
Segments(g) == Established(g) \/ Data(g) \/ Fin(g) \/ Rst(g) \/ Ack(g)
Rest ==
    \/ \E g \in Gens : Join(g)
    \/ Joined(FALSE) \/ Feed \/ Fed \/ Take \/ Push \/ Close \/ Idle \/ Retire \/ Keep
Loop == Syn \/ Stop \/ DeviceFails \/ Tick \/ Joined(TRUE) \/ Rest \/ \E g \in Gens : Segments(g)
Sessions(g) ==
    \/ Read(g) \/ Write(g) \/ ShutDown(g) \/ Leave(g) \/ Cancelled(g)
    \/ \E result \in {"ok", "err"} : Complete(g, result)
Next == Loop \/ \E g \in Gens : Sessions(g)

Spec == Init /\ [][Next]_vars

\* The loop wakes at least every 2 ms and runs to its end; a session that left
\* its stream completes; the client acknowledges and answers a FIN with its own.
Answer(g) == Established(g) \/ Ack(g) \/ (Fin(g) /\ g \in fin)
Finish(g) == Complete(g, "ok") \/ Complete(g, "err") \/ Cancelled(g)
Fairness ==
    WF_vars(Rest) /\ \A g \in Gens : WF_vars(Finish(g)) /\ SF_vars(Answer(g))
LiveSpec == Spec /\ WF_vars(Tick) /\ Fairness

-----------------------------------------------------------------------------
\* A session reads the end of the upload only after every byte the client sent
\* before its FIN, or when the connection itself, or the adapter, is gone.
EofAfterUpload ==
    \A g \in ended \ {h \in Gens : at = "stopped"} : sock[g] \in {"none", "closed"} \/ (got[g] = sent[g] /\ sock[g] \in {"half", "last"})

\* A client sees a clean end only after every byte the session wrote.
FinAfterDownload == \A g \in fin : delivered[g] = wrote[g]

\* While their connection is there, neither side takes a truncated stream for a
\* whole one: of what the client sent, and of what the session wrote.
NoTruncation == EofAfterUpload /\ FinAfterDownload

\* A new connection of a flow is aborted for the failure of an older one only
\* if that one was complete, and not yet joined, when it was told to abort.
StrayAbortNeedsRace == blamed # {} => outran # {}

\* A flow whose session is over leaves the table, if its client cooperates.
Retires == \A g \in Gens : (flow = g /\ sess[g] \in {"left", "ok", "err"}) ~> (flow # g \/ at = "stopped")
=============================================================================
