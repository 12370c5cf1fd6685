------------------------------ MODULE HostQueue ------------------------------
(***************************************************************************)
(* What the header promises of the packets the library has for its host     *)
(* (crates/ffi/include/meta_rust.h, meta_read_packet_v1): a first-in        *)
(* first-out queue.  A call that has no room for the packet leaves it, and  *)
(* WOULD_BLOCK means that the queue was empty.                              *)
(***************************************************************************)
EXTENDS Sequences

CONSTANTS Packets, NoPacket

VARIABLES
    queue,      \* the packets the host has not read
    open,       \* packets may still come: never without TUN, or with a descriptor
    answer      \* the read that returns in this step: status and packet

queueVars == <<queue, open, answer>>

NoAnswer == [status |-> "none", packet |-> NoPacket]
Answers(s, p) == answer' = [status |-> s, packet |-> p]

QueueInit == queue = <<>> /\ open \in BOOLEAN /\ answer = NoAnswer

Put(p) ==
    /\ open /\ queue' = Append(queue, p) /\ answer' = NoAnswer /\ UNCHANGED open

ReadOk ==
    /\ queue # <<>> /\ queue' = Tail(queue) /\ Answers("OK", Head(queue))
    /\ UNCHANGED open

\* the required length is that of the packet the next read returns
ReadTooSmall ==
    /\ queue # <<>> /\ Answers("BUFFER_TOO_SMALL", Head(queue))
    /\ UNCHANGED <<queue, open>>

ReadWouldBlock ==
    /\ open /\ queue = <<>> /\ Answers("WOULD_BLOCK", NoPacket)
    /\ UNCHANGED <<queue, open>>

\* the core has stopped or uses no queue, and everything was read
ReadFails ==
    /\ ~open /\ queue = <<>> /\ Answers("ERROR", NoPacket)
    /\ UNCHANGED <<queue, open>>

Close == open' = FALSE /\ answer' = NoAnswer /\ UNCHANGED queue
Unseen == answer' = NoAnswer /\ UNCHANGED <<queue, open>>

QueueNext ==
    \/ ReadOk \/ ReadTooSmall \/ ReadWouldBlock \/ ReadFails \/ Close \/ Unseen
    \/ \E p \in Packets : Put(p)

QueueSpec == QueueInit /\ [][QueueNext]_queueVars
=============================================================================
