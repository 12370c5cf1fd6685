------------------------------- MODULE XudpMux -------------------------------
(***************************************************************************)
(* One XUDP multiplexer (crates/protocol/src/xudp.rs): UDP flows that share *)
(* one physical VLESS stream, with an async writer lock, a reader task, an  *)
(* END task per dropped session, and a failure that must reach every flow.  *)
(*                                                                          *)
(* A frame is NEW, KEEP or END with a session ID; payloads and targets are  *)
(* left out.  Frames of the peer carry, as history, the session the peer    *)
(* answers.  A future may be dropped (timeout, core stop) wherever it       *)
(* awaits: at the writer lock and inside the write.                         *)
(***************************************************************************)
EXTENDS Integers, Sequences, FiniteSets

CONSTANTS
    Sessions,   \* the MuxSessions opened over the multiplexer's life
    IdSpace,    \* 65536 session IDs
    QueueCap,   \* 64 packets in a session's receive queue
    MaxTransit, \* bound: frames of the peer in flight
    None

ASSUME MuxConstants ==
    /\ IdSpace \in Nat \ {0} /\ QueueCap \in Nat \ {0} /\ MaxTransit \in Nat
    /\ None \notin Sessions

Ids == 0 .. IdSpace - 1
Unlocked == <<"free", None>>

VARIABLES
    \* Shared
    alive,      \* Shared::alive
    draining,   \* fail_multiplexer swapped alive and has yet to take the routes
    routes,     \* Shared::routes, ID -> session or None
    next_id,    \* Shared::next_id
    writer,     \* holder of the writer lock: <<"send" or "end", session>>
    \* MuxSession
    state,      \* "new", "got" (holds the Arc), "open", "dropped"
    id,         \* MuxSession::id
    first,      \* MuxSendState
    usable,
    sendpc,     \* the send future: "idle", "lock", "write", "fail"
    endpc,      \* the END task: "none", "start", "lock", "write", "fail"
    queue,      \* the session's mpsc channel: the flow a packet is for, or None: an error
    recvpc,     \* the receive loop: "waiting", "failed"
    \* reader task
    reader,     \* "run", "deliver" (a route was looked up), "gone"
    found,      \* that route's session, and what goes into its channel
    \* the peer and the wire
    owner,      \* the session the peer has open under each ID
    transit,    \* frames of the peer that the reader has not read
    partial,    \* a frame was cut off on the physical stream
    after       \* kinds of frames written after that

sharedVars == <<alive, draining, routes, next_id, writer>>
sessionVars == <<state, id, first, usable, sendpc, endpc, queue, recvpc>>
peerVars == <<owner, transit, partial, after>>
readerVars == <<reader, found>>
vars == <<sharedVars, sessionVars, readerVars, peerVars>>

Init ==
    /\ alive = TRUE /\ draining = FALSE
    /\ routes = [i \in Ids |-> None] /\ next_id = 0 /\ writer = Unlocked
    /\ state = [s \in Sessions |-> "new"] /\ id = [s \in Sessions |-> 0]
    /\ first = [s \in Sessions |-> TRUE] /\ usable = [s \in Sessions |-> TRUE]
    /\ sendpc = [s \in Sessions |-> "idle"] /\ endpc = [s \in Sessions |-> "none"]
    /\ queue = [s \in Sessions |-> <<>>] /\ recvpc = [s \in Sessions |-> "waiting"]
    /\ reader = "run" /\ found = [to |-> None, item |-> None]
    /\ owner = [i \in Ids |-> None] /\ transit = <<>>
    /\ partial = FALSE /\ after = {}

-----------------------------------------------------------------------------
\* The sender of a session's channel lives in its route and, while the reader
\* has looked the route up, in the reader.
Connected(s) ==
    \/ \E i \in Ids : routes[i] = s
    \/ reader = "deliver" /\ found.to = s

\* mpsc::Sender::try_send: a full channel drops the item
TrySend(q, item) == IF Len(q) < QueueCap THEN Append(q, item) ELSE q

-----------------------------------------------------------------------------
(* Multiplexer                                                             *)

\* A flow takes the multiplexer from the pool and passes session's first test.
Acquire(s) ==
    /\ state[s] = "new" /\ alive
    /\ state' = [state EXCEPT ![s] = "got"]
    /\ UNCHANGED <<sharedVars, id, first, usable, sendpc, endpc, queue, recvpc,
                   readerVars, peerVars>>

\* The first free ID from next_id on, in wrapping order.
FreeIds == {i \in Ids : routes[i] = None}
Distance(i) == (i - next_id) % IdSpace

\* Mutant of NextFree: the lowest free ID is reused at once.
NextFreeLowest == CHOOSE i \in FreeIds : \A j \in FreeIds : i <= j

NextFree == CHOOSE i \in FreeIds : \A j \in FreeIds : Distance(i) <= Distance(j)

\* Mutant of Admits: alive is not tested again under the routes lock.
AdmitsUnchecked == FreeIds # {}

Admits == alive /\ FreeIds # {}

\* Multiplexer::session, under the routes lock
OpenSession(s) ==
    /\ state[s] = "got" /\ Admits
    /\ state' = [state EXCEPT ![s] = "open"]
    /\ id' = [id EXCEPT ![s] = NextFree]
    /\ routes' = [routes EXCEPT ![NextFree] = s]
    /\ next_id' = (NextFree + 1) % IdSpace
    /\ UNCHANGED <<alive, draining, writer, first, usable, sendpc, endpc, queue,
                   recvpc, readerVars, peerVars>>

\* Multiplexer::session refuses; the Arc is given back
OpenRefused(s) ==
    /\ state[s] = "got" /\ ~Admits
    /\ state' = [state EXCEPT ![s] = "dropped"]
    /\ UNCHANGED <<sharedVars, id, first, usable, sendpc, endpc, queue, recvpc,
                   readerVars, peerVars>>

\* fail_multiplexer, first half: the caller that swaps alive takes the routes
Swap == alive' = FALSE /\ draining' = (alive \/ draining)

\* Mutant of Drain: the routes are told but not taken.
DrainKeepsRoutes ==
    /\ draining /\ draining' = FALSE
    /\ queue' = [s \in Sessions |->
           IF \E i \in Ids : routes[i] = s THEN TrySend(queue[s], None) ELSE queue[s]]
    /\ UNCHANGED <<alive, routes, next_id, writer, state, id, first, usable, sendpc,
                   endpc, recvpc, readerVars, peerVars>>

\* fail_multiplexer, second half: every route gets the error, no route is left
Drain ==
    /\ draining /\ draining' = FALSE
    /\ routes' = [i \in Ids |-> None]
    /\ queue' = [s \in Sessions |->
           IF \E i \in Ids : routes[i] = s THEN TrySend(queue[s], None) ELSE queue[s]]
    /\ UNCHANGED <<alive, next_id, writer, state, id, first, usable, sendpc, endpc,
                   recvpc, readerVars, peerVars>>

\* Multiplexer::drop, once no flow holds the Arc: the reader is aborted
MuxDrop ==
    /\ reader # "gone"
    /\ \A s \in Sessions : state[s] \notin {"got", "open"}
    /\ \E s \in Sessions : state[s] = "dropped"
    /\ reader' = "gone" /\ found' = [to |-> None, item |-> None] /\ Swap
    /\ UNCHANGED <<routes, next_id, writer, sessionVars, peerVars>>

-----------------------------------------------------------------------------
(* MuxSession::send                                                        *)

SendStart(s) ==
    /\ state[s] = "open" /\ sendpc[s] = "idle" /\ alive /\ usable[s]
    /\ usable' = [usable EXCEPT ![s] = FALSE]
    /\ sendpc' = [sendpc EXCEPT ![s] = "lock"]
    /\ UNCHANGED <<sharedVars, state, id, first, endpc, queue, recvpc, readerVars, peerVars>>

\* Mutant of MayWrite: alive is not tested again under the writer lock.
MayWriteUnchecked == TRUE

MayWrite == alive

\* The writer lock is taken; a dead multiplexer ends the send there.
SendLock(s) ==
    /\ sendpc[s] = "lock" /\ writer = Unlocked
    /\ IF MayWrite
       THEN /\ writer' = <<"send", s>>
            /\ sendpc' = [sendpc EXCEPT ![s] = "write"]
       ELSE /\ sendpc' = [sendpc EXCEPT ![s] = "idle"]
            /\ UNCHANGED writer
    /\ UNCHANGED <<alive, draining, routes, next_id, state, id, first, usable, endpc,
                   queue, recvpc, readerVars, peerVars>>

\* The send future is dropped while it waits for the lock.
SendCancel(s) ==
    /\ sendpc[s] = "lock"
    /\ sendpc' = [sendpc EXCEPT ![s] = "idle"]
    /\ UNCHANGED <<sharedVars, state, id, first, usable, endpc, queue, recvpc,
                   readerVars, peerVars>>

\* A whole frame reached the stream: what the peer makes of it.
PeerReads(kind, i, s) ==
    owner' = IF partial THEN owner
             ELSE CASE kind = "new"  -> [owner EXCEPT ![i] = s]
                    [] kind = "keep" -> owner
                    [] kind = "end"  -> [owner EXCEPT ![i] = None]

Wrote(kind) == after' = IF partial THEN after \cup {kind} ELSE after

\* write_all and flush complete
SendDone(s) ==
    /\ sendpc[s] = "write"
    /\ LET kind == IF first[s] THEN "new" ELSE "keep" IN
       PeerReads(kind, id[s], s) /\ Wrote(kind)
    /\ writer' = Unlocked
    /\ first' = [first EXCEPT ![s] = FALSE]
    /\ usable' = [usable EXCEPT ![s] = TRUE]
    /\ sendpc' = [sendpc EXCEPT ![s] = "idle"]
    /\ UNCHANGED <<alive, draining, routes, next_id, state, id, endpc, queue, recvpc,
                   readerVars, transit, partial>>

\* The write fails or its future is dropped, mid-frame or not: WriteAttempt's
\* drop fails the multiplexer before the lock is released.
SendCut(s) ==
    /\ sendpc[s] = "write"
    /\ sendpc' = [sendpc EXCEPT ![s] = "fail"]
    /\ Swap
    /\ partial' \in {partial, TRUE}
    /\ UNCHANGED <<routes, next_id, writer, state, id, first, usable, endpc, queue,
                   recvpc, readerVars, owner, transit, after>>

\* fail_multiplexer returned: the writer lock is released
SendFailed(s) ==
    /\ sendpc[s] = "fail" /\ ~draining
    /\ sendpc' = [sendpc EXCEPT ![s] = "idle"]
    /\ writer' = Unlocked
    /\ UNCHANGED <<alive, draining, routes, next_id, state, id, first, usable, endpc,
                   queue, recvpc, readerVars, peerVars>>

-----------------------------------------------------------------------------
(* MuxSession::recv and MuxSession::drop                                   *)

\* One packet, or the error that ends the receive loop of the flow.
Recv(s) ==
    /\ state[s] = "open" /\ recvpc[s] = "waiting"
    /\ \/ /\ queue[s] # <<>>
          /\ queue' = [queue EXCEPT ![s] = Tail(@)]
          /\ recvpc' = [recvpc EXCEPT ![s] =
                 IF Head(queue[s]) = None THEN "failed" ELSE "waiting"]
       \/ /\ queue[s] = <<>> /\ ~Connected(s)
          /\ recvpc' = [recvpc EXCEPT ![s] = "failed"]
          /\ UNCHANGED queue
    /\ UNCHANGED <<sharedVars, state, id, first, usable, sendpc, endpc, readerVars, peerVars>>

\* The flow ends.  Its route, if there still is one under its ID, is removed
\* and an END task is spawned.
DropSession(s) ==
    /\ state[s] = "open" /\ sendpc[s] = "idle"
    /\ state' = [state EXCEPT ![s] = "dropped"]
    /\ IF routes[id[s]] = None
       THEN UNCHANGED <<routes, endpc>>
       ELSE /\ routes' = [routes EXCEPT ![id[s]] = None]
            /\ endpc' = [endpc EXCEPT ![s] = "start"]
    /\ UNCHANGED <<alive, draining, next_id, writer, id, first, usable, sendpc, queue,
                   recvpc, readerVars, peerVars>>

\* The END task tests alive once, before it waits for the writer lock.
EndStart(s) ==
    /\ endpc[s] = "start"
    /\ endpc' = [endpc EXCEPT ![s] = IF alive THEN "lock" ELSE "none"]
    /\ UNCHANGED <<sharedVars, state, id, first, usable, sendpc, queue, recvpc,
                   readerVars, peerVars>>

EndLock(s) ==
    /\ endpc[s] = "lock" /\ writer = Unlocked
    /\ writer' = <<"end", s>>
    /\ endpc' = [endpc EXCEPT ![s] = "write"]
    /\ UNCHANGED <<alive, draining, routes, next_id, state, id, first, usable, sendpc,
                   queue, recvpc, readerVars, peerVars>>

EndDone(s) ==
    /\ endpc[s] = "write"
    /\ PeerReads("end", id[s], s) /\ Wrote("end")
    /\ writer' = Unlocked
    /\ endpc' = [endpc EXCEPT ![s] = "none"]
    /\ UNCHANGED <<alive, draining, routes, next_id, state, id, first, usable, sendpc,
                   queue, recvpc, readerVars, transit, partial>>

\* The END frame fails, possibly cut off.
EndCut(s) ==
    /\ endpc[s] = "write"
    /\ endpc' = [endpc EXCEPT ![s] = "fail"]
    /\ Swap
    /\ partial' \in {partial, TRUE}
    /\ UNCHANGED <<routes, next_id, writer, state, id, first, usable, sendpc, queue,
                   recvpc, readerVars, owner, transit, after>>

EndFailed(s) ==
    /\ endpc[s] = "fail" /\ ~draining
    /\ endpc' = [endpc EXCEPT ![s] = "none"]
    /\ writer' = Unlocked
    /\ UNCHANGED <<alive, draining, routes, next_id, state, id, first, usable, sendpc,
                   queue, recvpc, readerVars, peerVars>>

-----------------------------------------------------------------------------
(* The peer, and the reader task (read_multiplexed)                        *)

\* External: the peer answers or ends a flow it has open.
PeerFrame(i, kind) ==
    /\ owner[i] # None /\ Len(transit) < MaxTransit
    /\ transit' = Append(transit, [id |-> i, kind |-> kind, of |-> owner[i]])
    /\ owner' = IF kind = "end" THEN [owner EXCEPT ![i] = None] ELSE owner
    /\ UNCHANGED <<sharedVars, sessionVars, readerVars, partial, after>>

\* A frame is read and its route looked up, or removed for an END.
ReadFrame ==
    /\ reader = "run" /\ transit # <<>>
    /\ transit' = Tail(transit)
    /\ LET f == Head(transit) IN
       /\ IF routes[f.id] = None
          THEN UNCHANGED readerVars
          ELSE /\ reader' = "deliver"
               /\ found' = [to |-> routes[f.id],
                            item |-> IF f.kind = "end" THEN None ELSE f.of]
       /\ routes' = IF f.kind = "end" THEN [routes EXCEPT ![f.id] = None] ELSE routes
    /\ UNCHANGED <<alive, draining, next_id, writer, sessionVars, owner, partial, after>>

\* The packet or the error goes to the channel that was looked up.
Deliver ==
    /\ reader = "deliver"
    /\ queue' = [queue EXCEPT ![found.to] = TrySend(@, found.item)]
    /\ reader' = "run" /\ found' = [to |-> None, item |-> None]
    /\ UNCHANGED <<sharedVars, state, id, first, usable, sendpc, endpc, recvpc, peerVars>>

\* The stream ends, or a frame does not parse: the reader fails the multiplexer.
ReaderFails ==
    /\ reader = "run"
    /\ reader' = "gone" /\ found' = [to |-> None, item |-> None] /\ Swap
    /\ UNCHANGED <<routes, next_id, writer, sessionVars, peerVars>>

-----------------------------------------------------------------------------
Next ==
    \/ Drain \/ MuxDrop \/ ReadFrame \/ Deliver \/ ReaderFails
    \/ \E s \in Sessions :
        \/ Acquire(s) \/ OpenSession(s) \/ OpenRefused(s)
        \/ SendStart(s) \/ SendLock(s) \/ SendCancel(s) \/ SendDone(s)
        \/ SendCut(s) \/ SendFailed(s)
        \/ Recv(s) \/ DropSession(s)
        \/ EndStart(s) \/ EndLock(s) \/ EndDone(s) \/ EndCut(s) \/ EndFailed(s)
    \/ \E i \in Ids, kind \in {"keep", "end"} : PeerFrame(i, kind)

Spec == Init /\ [][Next]_vars

\* fail_multiplexer is synchronous once it has swapped alive, the reader hands
\* over what it looked up without an await, and a flow keeps calling recv.
Fairness ==
    /\ WF_vars(Drain) /\ WF_vars(Deliver)
    /\ \A s \in Sessions : WF_vars(Recv(s))

FairSpec == Spec /\ Fairness

-----------------------------------------------------------------------------
\* A failed multiplexer keeps no route: session tests alive under the routes
\* lock, so no flow slips in between the swap and the take and then waits on
\* a channel nobody will ever close.
NoRouteOutlivesMux == ~alive /\ ~draining => \A i \in Ids : routes[i] = None

\* After a cut frame no data frame goes out on the stream: its bytes would be
\* read as the rest of the cut one.  Only a dropped session's END task, which
\* tested alive before it waited for the lock, may still write.
OnlyEndAfterCut == after \subseteq {"end"}

\* A packet is only ever delivered to the flow the peer sent it for.
PacketsReachTheirFlow ==
    \A s \in Sessions : \A n \in 1 .. Len(queue[s]) : queue[s][n] \in {s, None}

\* A flow's datagrams reach the peer under its own session: when it writes a
\* KEEP frame, the peer has that ID open for it or for nobody.
UploadsReachTheirFlow ==
    \A s \in Sessions : sendpc[s] = "write" /\ ~first[s] /\ ~partial =>
        owner[id[s]] \in {s, None}

\* No frame crosses over to another flow, as long as no ID is given out twice: IDs
\* go round before one is reused, so that takes more sessions than there are IDs.
FramesReachTheirFlow == PacketsReachTheirFlow /\ UploadsReachTheirFlow

\* Once the multiplexer has failed, every flow that is still receiving learns
\* of it: also one whose queue was too full for the error.
FailureReachesEveryFlow ==
    \A s \in Sessions :
        (~alive /\ state[s] = "open") ~> (recvpc[s] = "failed" \/ state[s] = "dropped")
=============================================================================
