----------------------------- MODULE HostPackets -----------------------------
(***************************************************************************)
(* The packet queues of a handle (crates/ffi/src/host.rs, lib.rs, and the   *)
(* writer task of crates/core/src/packet.rs).  The writer puts a packet     *)
(* into a bounded channel and then calls packet_ready; threads of the host  *)
(* read at any time, with a buffer that is large enough or not.  The other  *)
(* way round the host writes into a bounded channel the adapter receives    *)
(* from.  The host that drains is the one the header asks for: on           *)
(* packet_ready it reads until META_WOULD_BLOCK.                            *)
(***************************************************************************)
EXTENDS Naturals, Sequences

CONSTANTS
    QueueSize,      \* packets of each channel (256)
    MaxPackets,     \* bound: packets the adapter has for the host
    None            \* no packet

ASSUME PacketConstants == MaxPackets \in Nat /\ None \notin 1..MaxPackets

VARIABLES
    output, pending,    \* PacketsOut: the channel, and the packet a read left
    input,              \* how many packets of the host the adapter has not received
    writer, sent,       \* the writer task, and the packets it has taken up
    got,                \* history: the packets read, in order
    signal, draining,   \* packet_ready has been called; the host's thread drains
    halted, gone,       \* Core::stop; the worker has ended and dropped the channel
    enabled,            \* packet_queue_enabled
    answer              \* the read that returns in this step

readVars == <<output, pending, got>>
hostVars == <<signal, draining>>
stopVars == <<halted, gone, enabled>>
packetVars == <<readVars, input, hostVars, stopVars, writer, sent, answer>>

NoAnswer == [status |-> "none", packet |-> None]
Returns(s, p) == answer' = [status |-> s, packet |-> p]
Quietly == answer' = NoAnswer

PacketInit ==
    /\ output = <<>> /\ pending = None /\ got = <<>>
    /\ input = 0
    /\ writer = "idle" /\ sent = 0
    /\ signal = FALSE /\ draining = FALSE
    /\ halted = FALSE /\ gone = FALSE /\ enabled \in BOOLEAN     \* tun.enable
    /\ answer = NoAnswer

-----------------------------------------------------------------------------
\* the writer of packet.rs takes up a packet
Produce ==
    /\ enabled /\ writer = "idle" /\ sent < MaxPackets
    /\ sent' = sent + 1 /\ writer' = "send" /\ Quietly
    /\ UNCHANGED <<readVars, input, hostVars, stopVars>>

\* HostPackets::send: the channel first, packet_ready after it
SendNotifiesFirst ==
    \/ /\ writer = "send" /\ writer' = "notify" /\ signal' = TRUE
       /\ Quietly /\ UNCHANGED <<readVars, input, draining, stopVars, sent>>
    \/ /\ writer = "notify" /\ Len(output) < QueueSize
       /\ output' = Append(output, sent) /\ writer' = "idle"
       /\ Quietly /\ UNCHANGED <<pending, got, input, hostVars, stopVars, sent>>
Send ==
    \/ /\ writer = "send" /\ Len(output) < QueueSize
       /\ output' = Append(output, sent) /\ writer' = "notify"
       /\ Quietly /\ UNCHANGED <<pending, got, input, hostVars, stopVars, sent>>
    \/ /\ writer = "notify" /\ writer' = "idle" /\ signal' = TRUE
       /\ Quietly /\ UNCHANGED <<readVars, input, draining, stopVars, sent>>

\* the channel stays full for 5 s: run fails, and the core stops
SendTimeout ==
    /\ writer = "send" /\ Len(output) = QueueSize
    /\ writer' = "gone" /\ halted' = TRUE /\ Quietly
    /\ UNCHANGED <<readVars, input, hostVars, gone, enabled, sent>>

Halt ==
    /\ ~halted /\ halted' = TRUE /\ Quietly
    /\ UNCHANGED <<readVars, input, hostVars, gone, enabled, writer, sent>>

\* the runtime is dropped with its tasks, outside a callback, and the worker ends
WorkerGone ==
    /\ halted /\ ~gone /\ writer # "notify"
    /\ gone' = TRUE /\ writer' = "gone" /\ input' = 0 /\ Quietly
    /\ UNCHANGED <<readVars, hostVars, halted, enabled, sent>>

\* Command::SetFd, before start and so before the first packet: the descriptor
\* takes the place of the channels, which are dropped with what the host wrote
UseDescriptor ==
    /\ enabled /\ ~gone /\ sent = 0
    /\ enabled' = FALSE /\ input' = 0 /\ Quietly
    /\ UNCHANGED <<readVars, hostVars, halted, gone, writer, sent>>

-----------------------------------------------------------------------------
\* what the host has not read, in the order it will
Unread == (IF pending = None THEN <<>> ELSE <<pending>>) \o output

\* the mutex is held throughout meta_read_packet_v1: nothing to read
ReadNothing ==
    /\ Unread = <<>>
    /\ IF gone THEN Returns("ERROR", None) ELSE Returns("WOULD_BLOCK", None)
    /\ UNCHANGED readVars

\* the packet moves to pending, and leaves it when it was copied
Rest == IF pending = None THEN Tail(output) ELSE output
TakeTooSmallDropped ==
    /\ Unread # <<>> /\ output' = Rest /\ pending' = None
    /\ Returns("BUFFER_TOO_SMALL", Head(Unread)) /\ UNCHANGED got
TakeTooSmall ==
    /\ Unread # <<>> /\ output' = Rest /\ pending' = Head(Unread)
    /\ Returns("BUFFER_TOO_SMALL", Head(Unread)) /\ UNCHANGED got
TakeOk ==
    /\ Unread # <<>> /\ output' = Rest /\ pending' = None
    /\ got' = Append(got, Head(Unread))
    /\ Returns("OK", Head(Unread))

\* check_packet_queue comes first
Refused == ~enabled /\ Returns("ERROR", None) /\ UNCHANGED readVars

\* any thread of the host, in a callback or not
Read ==
    /\ Refused \/ (enabled /\ (ReadNothing \/ TakeTooSmall \/ TakeOk))
    /\ UNCHANGED <<input, hostVars, stopVars, writer, sent>>

\* the host's thread that waits for packet_ready
Wake ==
    /\ signal /\ ~draining
    /\ signal' = FALSE /\ draining' = TRUE /\ Quietly
    /\ UNCHANGED <<readVars, input, stopVars, writer, sent>>

Drain ==
    /\ draining /\ enabled
    /\ \/ TakeOk /\ UNCHANGED draining
       \/ ReadNothing /\ draining' = FALSE
    /\ UNCHANGED <<input, signal, stopVars, writer, sent>>

\* meta_write_packet_v1: WOULD_BLOCK when full, ERROR on a stopped core or without
\* a queue
Write ==
    /\ ~halted /\ enabled /\ input < QueueSize
    /\ input' = input + 1 /\ Quietly
    /\ UNCHANGED <<readVars, hostVars, stopVars, writer, sent>>

\* PacketIo::recv
Recv ==
    /\ ~gone /\ enabled /\ input > 0
    /\ input' = input - 1 /\ Quietly
    /\ UNCHANGED <<readVars, hostVars, stopVars, writer, sent>>

PacketNext ==
    \/ Produce \/ Send \/ SendTimeout \/ Halt \/ WorkerGone \/ UseDescriptor
    \/ Read \/ Wake \/ Drain \/ Write \/ Recv

PacketSpec == PacketInit /\ [][PacketNext]_packetVars

\* The writer task is scheduled, and the host does what the header asks for.
PacketFairness ==
    WF_packetVars(Send) /\ WF_packetVars(Wake) /\ WF_packetVars(Drain)

-----------------------------------------------------------------------------
Queue == INSTANCE HostQueue WITH
    Packets <- 1..MaxPackets, NoPacket <- None, queue <- Unread,
    open <- enabled /\ ~gone

\* Reads follow the header: packets come in order, none is lost or repeated by a
\* buffer that is too small, and WOULD_BLOCK and ERROR mean an empty queue, which
\* a descriptor closes, with readers in callbacks and other threads at one time.
ReadsFollowHeader == Queue!QueueSpec

\* Draining on packet_ready until META_WOULD_BLOCK is enough: a packet that was
\* put into the channel is read, or the core stops.
EverythingDrained ==
    \A p \in 1..MaxPackets :
        (\E i \in DOMAIN output : output[i] = p) ~> (halted \/ \E i \in DOMAIN got : got[i] = p)
=============================================================================
