------------------------- MODULE Transports_proofs --------------------------
(***************************************************************************)
(* The shared connections of the protocol crate.  The failure discipline of *)
(* the XUDP multiplexer, for any number of sessions, any ID space (also one *)
(* that wraps) and any queue length; where its frames go, as long as no ID  *)
(* is given out twice; the pool of multiplexers, for any number of calls    *)
(* and nodes; and the limits and the counters of the gRPC pool, for any     *)
(* number of callers and connections and any options.                       *)
(***************************************************************************)
EXTENDS XudpMux, XudpPool, GrpcPool, FiniteSetTheorems, WellFoundedInduction, TLAPS

\* Only a dead multiplexer is being drained.
DrainsWhenDead == draining => ~alive

\* Whoever writes, or fails while writing, holds the writer lock.
WriterHeld ==
    \A s \in Sessions :
        /\ sendpc[s] \in {"write", "fail"} => writer = <<"send", s>>
        /\ endpc[s] \in {"write", "fail"} => writer = <<"end", s>>

\* A cut frame has killed the multiplexer.
CutKills == partial => ~alive

\* A send that is writing started on a whole stream.
WritesOnWholeStream == \A s \in Sessions : sendpc[s] = "write" => ~partial

\* The part of the type invariant the argument needs.
MuxTypes ==
    /\ alive \in BOOLEAN /\ draining \in BOOLEAN /\ partial \in BOOLEAN
    /\ routes \in [Ids -> Sessions \cup {None}]
    /\ sendpc \in [Sessions -> {"idle", "lock", "write", "fail"}]
    /\ endpc \in [Sessions -> {"none", "start", "lock", "write", "fail"}]
    /\ after \subseteq {"new", "keep", "end"}

IInv ==
    /\ MuxTypes
    /\ DrainsWhenDead
    /\ NoRouteOutlivesMux
    /\ WriterHeld
    /\ CutKills
    /\ WritesOnWholeStream
    /\ OnlyEndAfterCut

-----------------------------------------------------------------------------
\* A new multiplexer is alive and its stream is whole.
LEMMA InitIInv == Init => IInv
<1> SUFFICES ASSUME Init PROVE IInv
  BY Zenon
<1>1. MuxTypes
  <2>1. alive \in BOOLEAN /\ draining \in BOOLEAN /\ partial \in BOOLEAN
    BY Zenon DEF Init
  <2> QED BY <2>1, Zenon DEF Init, MuxTypes
<1>2. alive /\ ~draining /\ ~partial
  BY Zenon DEF Init
<1>3. WriterHeld /\ OnlyEndAfterCut
  BY Zenon DEF Init, WriterHeld, OnlyEndAfterCut
<1> QED BY <1>1, <1>2, <1>3, Zenon DEF IInv, DrainsWhenDead, NoRouteOutlivesMux, CutKills,
   WritesOnWholeStream

\* fail_multiplexer's swap leaves the multiplexer dead, and undrained when the
\* caller was the one to kill it.
LEMMA SwapFacts ==
    ASSUME Swap, alive \in BOOLEAN, draining \in BOOLEAN
    PROVE  /\ ~alive' /\ alive' \in BOOLEAN /\ draining' \in BOOLEAN
           /\ ~draining' => ~alive /\ ~draining
BY Zenon DEF Swap

\* Opening a session, up to the insertion of its route.
LEMMA AcquireIInv ==
    ASSUME IInv, NEW s \in Sessions, Acquire(s) \/ OpenRefused(s)
    PROVE  IInv'
<1>1. UNCHANGED <<alive, draining, partial, after, routes, sendpc, endpc, writer>>
  BY Zenon DEF Acquire, OpenRefused, sharedVars, peerVars
<1> QED BY <1>1, Zenon DEF IInv, MuxTypes, DrainsWhenDead, NoRouteOutlivesMux, WriterHeld,
   CutKills, WritesOnWholeStream, OnlyEndAfterCut

\* Routes grow only while alive is set.
LEMMA OpenIInv ==
    ASSUME IInv, NEW s \in Sessions, OpenSession(s)
    PROVE  IInv'
<1>1. /\ UNCHANGED <<alive, draining, partial, after, sendpc, endpc, writer>>
      /\ routes' = [routes EXCEPT ![NextFree] = s]
  BY Zenon DEF OpenSession, peerVars
<1>2. alive
  BY Zenon DEF OpenSession, Admits
<1>3. routes' \in [Ids -> Sessions \cup {None}]
  BY <1>1, Zenon DEF IInv, MuxTypes
<1>4. MuxTypes'
  BY <1>1, <1>3, Zenon DEF IInv, MuxTypes
<1>5. NoRouteOutlivesMux'
  BY <1>1, <1>2, Zenon DEF NoRouteOutlivesMux
<1> QED BY <1>1, <1>4, <1>5, Zenon DEF IInv, DrainsWhenDead, WriterHeld, CutKills,
   WritesOnWholeStream, OnlyEndAfterCut

\* Sending: only the lock's holder writes, and a cut kills before it unlocks.
LEMMA SendIInv ==
    ASSUME IInv, NEW s \in Sessions,
           \/ SendStart(s) \/ SendLock(s) \/ SendCancel(s) \/ SendDone(s)
           \/ SendCut(s) \/ SendFailed(s)
    PROVE  IInv'
<1> USE MuxConstants DEF Unlocked, IInv, MuxTypes, DrainsWhenDead, NoRouteOutlivesMux, WriterHeld, CutKills,
        WritesOnWholeStream, OnlyEndAfterCut, sharedVars, peerVars
<1>1. CASE SendStart(s)
  BY <1>1, Zenon DEF SendStart
<1>2. CASE SendLock(s)
  BY <1>2, Zenon DEF SendLock, MayWrite
<1>3. CASE SendCancel(s)
  BY <1>3, Zenon DEF SendCancel
<1>4. CASE SendDone(s)
  BY <1>4 DEF SendDone, Wrote
<1>5. CASE SendCut(s)
  <2>1. /\ ~alive' /\ alive' \in BOOLEAN /\ draining' \in BOOLEAN
        /\ ~draining' => ~alive /\ ~draining
    BY <1>5, SwapFacts, Zenon DEF SendCut
  <2>2. partial' \in BOOLEAN
    BY <1>5, Zenon DEF SendCut
  <2> QED BY <1>5, <2>1, <2>2 DEF SendCut
<1>6. CASE SendFailed(s)
  BY <1>6 DEF SendFailed
<1> QED BY <1>1, <1>2, <1>3, <1>4, <1>5, <1>6, Zenon

\* Ending: a dropped session's route goes, its END task writes END frames only.
LEMMA EndIInv ==
    ASSUME IInv, NEW s \in Sessions,
           \/ Recv(s) \/ DropSession(s) \/ EndStart(s) \/ EndLock(s)
           \/ EndDone(s) \/ EndCut(s) \/ EndFailed(s)
    PROVE  IInv'
<1> USE MuxConstants DEF Unlocked, IInv, MuxTypes, DrainsWhenDead, NoRouteOutlivesMux, WriterHeld, CutKills,
        WritesOnWholeStream, OnlyEndAfterCut, sharedVars, peerVars
<1>1. CASE Recv(s)
  BY <1>1, Zenon DEF Recv
<1>2. CASE DropSession(s)
  BY <1>2, Zenon DEF DropSession
<1>3. CASE EndStart(s)
  BY <1>3, Zenon DEF EndStart
<1>4. CASE EndLock(s)
  BY <1>4, Zenon DEF EndLock
<1>5. CASE EndDone(s)
  BY <1>5 DEF EndDone, Wrote
<1>6. CASE EndCut(s)
  <2>1. /\ ~alive' /\ alive' \in BOOLEAN /\ draining' \in BOOLEAN
        /\ ~draining' => ~alive /\ ~draining
    BY <1>6, SwapFacts, Zenon DEF EndCut
  <2>2. partial' \in BOOLEAN
    BY <1>6, Zenon DEF EndCut
  <2> QED BY <1>6, <2>1, <2>2 DEF EndCut
<1>7. CASE EndFailed(s)
  BY <1>7 DEF EndFailed
<1> QED BY <1>1, <1>2, <1>3, <1>4, <1>5, <1>6, <1>7, Zenon

\* The reader, the peer, and the two halves of fail_multiplexer.
LEMMA ReaderIInv ==
    ASSUME IInv,
           \/ Drain \/ MuxDrop \/ ReadFrame \/ Deliver \/ ReaderFails
           \/ \E i \in Ids, kind \in {"keep", "end"} : PeerFrame(i, kind)
           \/ UNCHANGED vars
    PROVE  IInv'
<1> USE DEF IInv, MuxTypes, DrainsWhenDead, NoRouteOutlivesMux, WriterHeld, CutKills,
        WritesOnWholeStream, OnlyEndAfterCut, sharedVars, sessionVars, peerVars
<1>1. CASE Drain
  BY <1>1, Zenon DEF Drain
<1>2. CASE MuxDrop
  <2>1. /\ ~alive' /\ alive' \in BOOLEAN /\ draining' \in BOOLEAN
        /\ ~draining' => ~alive /\ ~draining
    BY <1>2, SwapFacts, Zenon DEF MuxDrop
  <2> QED BY <1>2, <2>1, Zenon DEF MuxDrop
<1>3. CASE ReadFrame
  BY <1>3, Zenon DEF ReadFrame
<1>4. CASE Deliver
  BY <1>4, Zenon DEF Deliver
<1>5. CASE ReaderFails
  <2>1. /\ ~alive' /\ alive' \in BOOLEAN /\ draining' \in BOOLEAN
        /\ ~draining' => ~alive /\ ~draining
    BY <1>5, SwapFacts, Zenon DEF ReaderFails
  <2> QED BY <1>5, <2>1, Zenon DEF ReaderFails
<1>6. CASE \E i \in Ids, kind \in {"keep", "end"} : PeerFrame(i, kind)
  BY <1>6 DEF PeerFrame
<1>7. CASE UNCHANGED vars
  BY <1>7, Zenon DEF vars
<1> QED BY <1>1, <1>2, <1>3, <1>4, <1>5, <1>6, <1>7, Zenon

\* The failure discipline is inductive.
THEOREM MuxInvariant == Spec => []IInv
<1>1. IInv /\ [Next]_vars => IInv'
  BY AcquireIInv, OpenIInv, SendIInv, EndIInv, ReaderIInv, Zenon DEF Next
<1> QED BY InitIInv, <1>1, PTL DEF Spec

\* No flow is left in the routes of a failed multiplexer.
THEOREM NoRouteIsLeft == Spec => []NoRouteOutlivesMux
<1>1. IInv => NoRouteOutlivesMux
  BY Zenon DEF IInv
<1> QED BY <1>1, MuxInvariant, PTL

\* No data frame follows a cut one.
THEOREM NoDataAfterCut == Spec => []OnlyEndAfterCut
<1>1. IInv => OnlyEndAfterCut
  BY Zenon DEF IInv
<1> QED BY <1>1, MuxInvariant, PTL

-----------------------------------------------------------------------------
(* Whose frames reach whom                                                 *)

\* What the peer has sent.
Frames == [id : Ids, kind : {"keep", "end"}, of : Sessions]
\* The types of the parts that carry or name sessions.
FrameTypes ==
    /\ id \in [Sessions -> Ids] /\ next_id \in Ids
    /\ state \in [Sessions -> {"new", "got", "open", "dropped"}]
    /\ sendpc \in [Sessions -> {"idle", "lock", "write", "fail"}]
    /\ routes \in [Ids -> Sessions \cup {None}] /\ owner \in [Ids -> Sessions \cup {None}]
    /\ transit \in Seq(Frames)
    /\ found \in [to : Sessions \cup {None}, item : Sessions \cup {None}]
    /\ queue \in [Sessions -> Seq(Sessions \cup {None})]

\* The sessions that were ever open; no other sends.
Known(W) ==
    /\ \A s \in W : state[s] \in {"open", "dropped"}
    /\ \A s \in Sessions \ W : state[s] # "open" /\ sendpc[s] = "idle"

\* Routes, the peer, frames in flight and the reader name sessions by their own ID.
RoutesAgree(W) == \A i \in Ids : routes[i] # None => routes[i] \in W /\ id[routes[i]] = i
OwnersAgree(W) == \A i \in Ids : owner[i] # None => owner[i] \in W /\ id[owner[i]] = i
TransitAgrees(W) ==
    \A n \in 1..Len(transit) : transit[n].of \in W /\ id[transit[n].of] = transit[n].id
FoundAgrees(W) ==
    /\ found.to # None => found.to \in W
    /\ found.item # None => found.to \in W /\ found.item \in W /\ id[found.item] = id[found.to]
QueuesAgree(W) ==
    \A s \in Sessions : \A n \in 1..Len(queue[s]) :
        queue[s][n] # None => s \in W /\ queue[s][n] \in W /\ id[queue[s][n]] = id[s]

\* W is the set of the sessions that were given an ID.
FrameInv(W) ==
    /\ W \subseteq Sessions /\ FrameTypes /\ Known(W)
    /\ RoutesAgree(W) /\ OwnersAgree(W) /\ TransitAgrees(W) /\ FoundAgrees(W) /\ QueuesAgree(W)

frameVars == <<id, next_id, routes, owner, transit, found, queue>>

\* Initially nobody has an ID.
LEMMA FrameInit == Init => FrameInv({})
<1> SUFFICES ASSUME Init PROVE FrameInv({})
  BY Zenon
<1>1. 0 \in Ids
  BY MuxConstants DEF Ids
<1>2. FrameTypes
  BY <1>1 DEF Init, FrameTypes
<1>3. QueuesAgree({}) /\ TransitAgrees({})
  BY DEF Init, QueuesAgree, TransitAgrees
<1> QED BY <1>2, <1>3, Zenon DEF Init, FrameInv, Known, RoutesAgree, OwnersAgree, FoundAgrees

\* A step that leaves IDs, routes, frames and packets alone.
LEMMA FrameQuiet ==
    ASSUME NEW W, FrameInv(W), UNCHANGED frameVars, Known(W)',
           state' \in [Sessions -> {"new", "got", "open", "dropped"}],
           sendpc' \in [Sessions -> {"idle", "lock", "write", "fail"}]
    PROVE  FrameInv(W)'
BY Zenon DEF FrameInv, FrameTypes, frameVars, RoutesAgree, OwnersAgree, TransitAgrees, FoundAgrees, QueuesAgree

\* Locks, cuts and refusals move no frame.
LEMMA FrameControl ==
    ASSUME NEW W, FrameInv(W), NEW s \in Sessions,
           \/ Acquire(s) \/ OpenRefused(s) \/ SendStart(s) \/ SendLock(s) \/ SendCancel(s)
           \/ SendCut(s) \/ SendFailed(s) \/ EndStart(s) \/ EndLock(s) \/ EndCut(s) \/ EndFailed(s)
    PROVE  FrameInv(W)'
<1>1. UNCHANGED frameVars
  BY Zenon DEF frameVars, Acquire, OpenRefused, SendStart, SendLock, SendCancel, SendCut, SendFailed,
         EndStart, EndLock, EndCut, EndFailed, sharedVars, readerVars, peerVars, sessionVars
<1>2. /\ Known(W)'
      /\ state' \in [Sessions -> {"new", "got", "open", "dropped"}]
      /\ sendpc' \in [Sessions -> {"idle", "lock", "write", "fail"}]
  BY DEF FrameInv, FrameTypes, Known, Acquire, OpenRefused, SendStart, SendLock, SendCancel, SendCut, SendFailed,
         EndStart, EndLock, EndCut, EndFailed, sharedVars, readerVars, peerVars, sessionVars
<1> QED BY <1>1, <1>2, FrameQuiet, Zenon

\* A whole frame: the peer's table still names every flow by its ID.
LEMMA FrameWritten ==
    ASSUME NEW W, FrameInv(W), NEW s \in Sessions, SendDone(s) \/ EndDone(s)
    PROVE  FrameInv(W)'
<1>1. UNCHANGED <<id, next_id, routes, transit, found, queue, state>> 
  BY Zenon DEF SendDone, EndDone, readerVars
<1>2. /\ owner' \in [Ids -> Sessions \cup {None}]
      /\ \A i \in Ids : owner'[i] \in {owner[i], None} \/ (owner'[i] = s /\ sendpc[s] = "write" /\ i = id[s])
  <2>1. owner \in [Ids -> Sessions \cup {None}] /\ id[s] \in Ids
    BY Zenon DEF FrameInv, FrameTypes
  <2>2. \/ owner' = owner \/ owner' = [owner EXCEPT ![id[s]] = None]
        \/ owner' = [owner EXCEPT ![id[s]] = s] /\ sendpc[s] = "write"
    BY Zenon DEF SendDone, EndDone, PeerReads
  <2> QED BY <2>1, <2>2, Zenon
<1>3. Known(W)' /\ sendpc' \in [Sessions -> {"idle", "lock", "write", "fail"}]
  BY <1>1, Zenon DEF FrameInv, FrameTypes, Known, SendDone, EndDone
<1>4. sendpc[s] = "write" => s \in W
  BY Zenon DEF FrameInv, Known
<1>5. OwnersAgree(W)'
  BY <1>1, <1>2, <1>4, Zenon DEF FrameInv, OwnersAgree
<1> QED BY <1>1, <1>2, <1>3, <1>5, Zenon DEF FrameInv, FrameTypes, RoutesAgree, TransitAgrees, FoundAgrees, QueuesAgree

\* A flow takes the first packet of its own channel.
LEMMA FrameReceived ==
    ASSUME NEW W, FrameInv(W), NEW s \in Sessions, Recv(s)
    PROVE  FrameInv(W)'
<1>1. UNCHANGED <<id, next_id, routes, owner, transit, found, state, sendpc>>
  BY Zenon DEF Recv, sharedVars, readerVars, peerVars
<1>2. queue' \in [Sessions -> Seq(Sessions \cup {None})] /\ QueuesAgree(W)'
  <2>1. CASE queue[s] # <<>> /\ queue' = [queue EXCEPT ![s] = Tail(@)]
    <3>1. /\ Tail(queue[s]) \in Seq(Sessions \cup {None})
          /\ \A n \in 1..Len(Tail(queue[s])) : n + 1 \in 1..Len(queue[s]) /\ Tail(queue[s])[n] = queue[s][n + 1]
      BY <2>1 DEF FrameInv, FrameTypes
    <3>2. queue' \in [Sessions -> Seq(Sessions \cup {None})]
      BY <2>1, <3>1, Zenon DEF FrameInv, FrameTypes
    <3>3. queue'[s] = Tail(queue[s]) /\ \A t \in Sessions \ {s} : queue'[t] = queue[t]
      BY <2>1, Zenon DEF FrameInv, FrameTypes
    <3>4. QueuesAgree(W)'
      <4>1. ASSUME NEW t \in Sessions, NEW n \in 1..Len(queue'[t]), queue'[t][n] # None
            PROVE  t \in W /\ queue'[t][n] \in W /\ id[queue'[t][n]] = id[t]
        <5>1. CASE t = s
          <6>1. n \in 1..Len(Tail(queue[s])) /\ queue'[s][n] = queue[s][n + 1] /\ n + 1 \in 1..Len(queue[s])
            BY <3>1, <3>3, <5>1, Zenon
          <6> QED BY <4>1, <5>1, <6>1, Zenon DEF FrameInv, QueuesAgree
        <5>2. CASE t # s
          BY <3>3, <4>1, <5>2, Zenon DEF FrameInv, QueuesAgree
        <5> QED BY <5>1, <5>2, Zenon
      <4> QED BY <1>1, <4>1, Zenon DEF QueuesAgree
    <3> QED BY <3>2, <3>4, Zenon
  <2>2. CASE UNCHANGED queue
    BY <1>1, <2>2, Zenon DEF FrameInv, FrameTypes, QueuesAgree
  <2> QED BY <2>1, <2>2, Zenon DEF Recv
<1> QED BY <1>1, <1>2, Zenon DEF FrameInv, FrameTypes, Known, RoutesAgree, OwnersAgree, TransitAgrees, FoundAgrees

\* A flow that ends takes its route with it.
LEMMA FrameDropped ==
    ASSUME NEW W, FrameInv(W), NEW s \in Sessions, DropSession(s)
    PROVE  FrameInv(W)'
<1>1. UNCHANGED <<id, next_id, owner, transit, found, queue, sendpc>>
  BY Zenon DEF DropSession, readerVars, peerVars
<1>2. routes' \in [Ids -> Sessions \cup {None}] /\ \A i \in Ids : routes'[i] \in {routes[i], None}
  BY Zenon DEF DropSession, FrameInv, FrameTypes
<1>3. state' \in [Sessions -> {"new", "got", "open", "dropped"}] /\ Known(W)'
  BY <1>1, Zenon DEF DropSession, FrameInv, FrameTypes, Known
<1>4. RoutesAgree(W)'
  BY <1>1, <1>2, Zenon DEF FrameInv, RoutesAgree
<1> QED BY <1>1, <1>2, <1>3, <1>4, Zenon DEF FrameInv, FrameTypes, OwnersAgree, TransitAgrees, FoundAgrees, QueuesAgree

\* An item goes into a channel, or the channel is full.
LEMMA FrameTrySend ==
    ASSUME NEW q \in Seq(Sessions \cup {None}), NEW item \in Sessions \cup {None}
    PROVE  /\ TrySend(q, item) \in Seq(Sessions \cup {None})
           /\ \A n \in 1..Len(TrySend(q, item)) :
                 \/ n \in 1..Len(q) /\ TrySend(q, item)[n] = q[n]
                 \/ TrySend(q, item)[n] = item
BY DEF TrySend

\* The error is for every flow.
LEMMA FrameDrained ==
    ASSUME NEW W, FrameInv(W), Drain
    PROVE  FrameInv(W)'
<1>1. UNCHANGED <<id, next_id, owner, transit, found, sendpc, state>>
  BY Zenon DEF Drain, readerVars, peerVars
<1>2. routes' \in [Ids -> Sessions \cup {None}] /\ \A i \in Ids : routes'[i] = None
  BY Zenon DEF Drain
<1>3. ASSUME NEW s \in Sessions
      PROVE  /\ queue'[s] \in Seq(Sessions \cup {None})
             /\ \A n \in 1..Len(queue'[s]) : queue'[s][n] # None => n \in 1..Len(queue[s]) /\ queue'[s][n] = queue[s][n]
  <2>1. queue[s] \in Seq(Sessions \cup {None})
    BY Zenon DEF FrameInv, FrameTypes
  <2>2. queue'[s] = TrySend(queue[s], None) \/ queue'[s] = queue[s]
    BY Zenon DEF Drain
  <2> QED BY <2>1, <2>2, FrameTrySend, Zenon
<1>4. queue' \in [Sessions -> Seq(Sessions \cup {None})] 
  <2>1. queue' = [s \in Sessions |-> queue'[s]]
    BY Zenon DEF Drain
  <2> QED BY <1>3, <2>1, Zenon
<1>5. QueuesAgree(W)'
  BY <1>1, <1>3 DEF FrameInv, QueuesAgree
<1>6. RoutesAgree(W)'
  BY <1>2, Zenon DEF RoutesAgree
<1> QED BY <1>1, <1>2, <1>4, <1>5, <1>6, Zenon DEF FrameInv, FrameTypes, Known, OwnersAgree, TransitAgrees, FoundAgrees

\* The reader ends, and lets go of what it has looked up.
LEMMA FrameReaderGone ==
    ASSUME NEW W, FrameInv(W), MuxDrop \/ ReaderFails
    PROVE  FrameInv(W)'
<1>1. UNCHANGED <<id, next_id, owner, transit, routes, sendpc, state, queue>>
  BY Zenon DEF MuxDrop, ReaderFails, sessionVars, peerVars
<1>2. found' = [to |-> None, item |-> None]
  BY Zenon DEF MuxDrop, ReaderFails
<1>3. found' \in [to : Sessions \cup {None}, item : Sessions \cup {None}] /\ FoundAgrees(W)'
  BY <1>2, Zenon DEF FoundAgrees
<1> QED BY <1>1, <1>3, Zenon DEF FrameInv, FrameTypes, Known, OwnersAgree, TransitAgrees, RoutesAgree, QueuesAgree

\* The peer answers the flow it has open under the ID.
LEMMA FramePeer ==
    ASSUME NEW W, FrameInv(W), NEW i \in Ids, NEW kind \in {"keep", "end"}, PeerFrame(i, kind)
    PROVE  FrameInv(W)'
<1>1. UNCHANGED <<id, next_id, found, routes, sendpc, state, queue>>
  BY Zenon DEF PeerFrame, sharedVars, sessionVars, readerVars
<1>2. owner' \in [Ids -> Sessions \cup {None}] /\ \A j \in Ids : owner'[j] \in {owner[j], None}
  BY Zenon DEF PeerFrame, FrameInv, FrameTypes
<1>3. owner[i] \in W /\ owner[i] \in Sessions /\ id[owner[i]] = i
  BY Zenon DEF PeerFrame, FrameInv, OwnersAgree
<1>4. transit' \in Seq(Frames) /\ TransitAgrees(W)'
  BY <1>1, <1>3 DEF PeerFrame, FrameInv, FrameTypes, Frames, TransitAgrees
<1>5. OwnersAgree(W)'
  BY <1>1, <1>2, Zenon DEF FrameInv, OwnersAgree
<1> QED BY <1>1, <1>2, <1>4, <1>5, Zenon DEF FrameInv, FrameTypes, Known, FoundAgrees, RoutesAgree, QueuesAgree

\* The frame and the route it selects have the same ID.
LEMMA FrameRead ==
    ASSUME NEW W, FrameInv(W), ReadFrame
    PROVE  FrameInv(W)'
<1>1. UNCHANGED <<id, next_id, owner, sendpc, state, queue>>
  BY Zenon DEF ReadFrame, sessionVars
<1>2. /\ Head(transit) \in Frames /\ Head(transit).of \in W /\ id[Head(transit).of] = Head(transit).id
      /\ transit' \in Seq(Frames) /\ \A n \in 1..Len(transit') : n + 1 \in 1..Len(transit) /\ transit'[n] = transit[n + 1]
  <2>1. transit \in Seq(Frames) /\ transit # <<>> /\ transit' = Tail(transit)
    BY Zenon DEF ReadFrame, FrameInv, FrameTypes
  <2>2. /\ 1 \in 1..Len(transit) /\ Head(transit) = transit[1] /\ Head(transit) \in Frames
        /\ transit' \in Seq(Frames) /\ \A n \in 1..Len(transit') : n + 1 \in 1..Len(transit) /\ transit'[n] = transit[n + 1]
    BY <2>1
  <2> QED BY <2>2, Zenon DEF FrameInv, TransitAgrees
<1>3. PICK f \in Frames : f = Head(transit)
  BY <1>2, Zenon
<1>4. routes' \in [Ids -> Sessions \cup {None}] /\ \A i \in Ids : routes'[i] \in {routes[i], None}
  BY <1>3, Zenon DEF ReadFrame, FrameInv, FrameTypes
<1>5. /\ found' \in [to : Sessions \cup {None}, item : Sessions \cup {None}]
      /\ FoundAgrees(W)'
  <2>1. CASE routes[f.id] = None
    BY <1>1, <1>3, <2>1, Zenon DEF ReadFrame, readerVars, FrameInv, FrameTypes, FoundAgrees
  <2>2. CASE routes[f.id] # None
    <3>1. routes[f.id] \in W /\ routes[f.id] \in Sessions /\ id[routes[f.id]] = f.id /\ f.of \in Sessions
      BY <2>2, Zenon DEF FrameInv, FrameTypes, RoutesAgree, Frames
    <3>2. found' = [to |-> routes[f.id], item |-> IF f.kind = "end" THEN None ELSE f.of]
      BY <1>3, <2>2, Zenon DEF ReadFrame
    <3> QED BY <1>1, <1>2, <1>3, <3>1, <3>2, Zenon DEF FoundAgrees
  <2> QED BY <2>1, <2>2, Zenon
<1>6. TransitAgrees(W)'
  BY <1>1, <1>2, Zenon DEF FrameInv, TransitAgrees
<1>7. RoutesAgree(W)'
  BY <1>1, <1>4, Zenon DEF FrameInv, RoutesAgree
<1>8. FrameTypes'
  BY <1>1, <1>2, <1>4, <1>5, Zenon DEF FrameInv, FrameTypes
<1> QED BY <1>1, <1>5, <1>6, <1>7, <1>8, Zenon DEF FrameInv, Known, OwnersAgree, QueuesAgree

\* What the reader has looked up goes into that channel.
LEMMA FrameDelivered ==
    ASSUME NEW W, FrameInv(W), Deliver
    PROVE  FrameInv(W)'
<1>1. UNCHANGED <<id, next_id, owner, transit, routes, sendpc, state>>
  BY Zenon DEF Deliver, sharedVars, peerVars
<1>2. found' \in [to : Sessions \cup {None}, item : Sessions \cup {None}] /\ FoundAgrees(W)'
  BY Zenon DEF Deliver, FoundAgrees
<1>3. found.to \in Sessions \cup {None} /\ found.item \in Sessions \cup {None}
  BY Zenon DEF FrameInv, FrameTypes
<1>4. ASSUME NEW s \in Sessions
      PROVE  /\ queue'[s] \in Seq(Sessions \cup {None})
             /\ \A n \in 1..Len(queue'[s]) : queue'[s][n] # None =>
                   s \in W /\ queue'[s][n] \in W /\ id[queue'[s][n]] = id[s]
  <2>1. queue[s] \in Seq(Sessions \cup {None})
    BY Zenon DEF FrameInv, FrameTypes
  <2>2. (queue'[s] = TrySend(queue[s], found.item) /\ s = found.to) \/ queue'[s] = queue[s]
    BY Zenon DEF Deliver, FrameInv, FrameTypes
  <2>3. CASE queue'[s] = queue[s]
    BY <2>1, <2>3, Zenon DEF FrameInv, QueuesAgree
  <2>4. CASE queue'[s] = TrySend(queue[s], found.item) /\ s = found.to
    <3>1. found.item # None => s \in W /\ found.item \in W /\ id[found.item] = id[s]
      BY <2>4, Zenon DEF FrameInv, FoundAgrees
    <3>2. /\ queue'[s] \in Seq(Sessions \cup {None})
          /\ \A n \in 1..Len(queue'[s]) : \/ n \in 1..Len(queue[s]) /\ queue'[s][n] = queue[s][n]
                                         \/ queue'[s][n] = found.item
      BY <1>3, <2>1, <2>4, FrameTrySend
    <3> QED BY <3>1, <3>2, Zenon DEF FrameInv, QueuesAgree
  <2> QED BY <2>2, <2>3, <2>4, Zenon
<1>5. queue' \in [Sessions -> Seq(Sessions \cup {None})]
  <2>1. queue' = [s \in Sessions |-> queue'[s]]
    BY Zenon DEF Deliver, FrameInv, FrameTypes
  <2> QED BY <1>4, <2>1, Zenon
<1>6. QueuesAgree(W)'
  BY <1>1, <1>4, Zenon DEF QueuesAgree
<1> QED BY <1>1, <1>2, <1>5, <1>6, Zenon DEF FrameInv, FrameTypes, Known, OwnersAgree, TransitAgrees, RoutesAgree

-----------------------------------------------------------------------------
\* Two IDs at distance zero are the same.
LEMMA DistanceZero ==
    ASSUME NEW N \in Nat \ {0}, NEW i \in 0..N-1, NEW n \in 0..N-1
    PROVE  /\ (n - n) % N = 0
           /\ (i - n) % N = 0 => i = n
           /\ (i - n) % N \in Nat
OBVIOUS

\* A session gets a free ID, the first time it is open.
LEMMA FrameOpened ==
    ASSUME NEW W, FrameInv(W), NEW s \in Sessions, OpenSession(s)
    PROVE  s \notin W /\ FrameInv(W \cup {s})'
<1>1. UNCHANGED <<owner, transit, found, queue, sendpc>>
  BY Zenon DEF OpenSession, readerVars, peerVars
<1>2. s \notin W /\ state[s] = "got" /\ W \subseteq Sessions
  BY Zenon DEF OpenSession, FrameInv, Known
<1>3. NextFree \in FreeIds /\ NextFree \in Ids
  <2>1. \E i \in FreeIds : \A j \in FreeIds : Distance(i) <= Distance(j)
    <3> DEFINE D == {Distance(i) : i \in FreeIds}
    <3>1. \A i \in FreeIds : Distance(i) \in Nat
      BY MuxConstants, DistanceZero, Zenon DEF FreeIds, Ids, Distance, FrameInv, FrameTypes
    <3>2. D \subseteq Nat /\ D # {}
      BY <3>1, Zenon DEF OpenSession, Admits
    <3>3. PICK d \in D : \A e \in D : ~(<<e, d>> \in OpToRel(<, Nat))
      BY <3>2, WFMin, NatLessThanWellFounded, Zenon
    <3>4. \A e \in D : ~(e < d)
      BY <3>2, <3>3, Zenon DEF OpToRel
    <3>5. \A j \in FreeIds : d <= Distance(j)
      <4>1. \A j \in FreeIds : Distance(j) \in D
        BY Zenon
      <4> HIDE DEF D
      <4> QED BY <3>1, <3>2, <3>4, <4>1
    <3>6. PICK i \in FreeIds : d = Distance(i)
      BY Zenon
    <3> QED BY <3>5, <3>6, Zenon
  <2> QED BY <2>1, Zenon DEF NextFree, FreeIds
<1>4. PICK i \in Ids : i = NextFree /\ i \in FreeIds
  BY <1>3, Zenon
<1>5. /\ state' = [state EXCEPT ![s] = "open"]
      /\ id' = [id EXCEPT ![s] = i]
      /\ routes' = [routes EXCEPT ![i] = s]
      /\ next_id' = (i + 1) % IdSpace
  BY <1>4, Zenon DEF OpenSession
<1>6. next_id' \in Ids
  BY <1>5, MuxConstants DEF Ids
<1>7. FrameTypes'
  BY <1>1, <1>5, <1>6, Zenon DEF FrameInv, FrameTypes
<1>8. Known(W \cup {s})'
  BY <1>1, <1>2, <1>5 DEF FrameInv, FrameTypes, Known
<1>9. id'[s] = i /\ \A t \in W : id'[t] = id[t]
  BY <1>2, <1>5, Zenon DEF FrameInv, FrameTypes
<1>10. RoutesAgree(W \cup {s})'
  BY <1>2, <1>5, <1>9, Zenon DEF FrameInv, FrameTypes, RoutesAgree
<1>11. /\ OwnersAgree(W \cup {s})' /\ TransitAgrees(W \cup {s})'
  BY <1>1, <1>2, <1>9, Zenon DEF FrameInv, OwnersAgree, TransitAgrees
<1>12. FoundAgrees(W \cup {s})' /\ QueuesAgree(W \cup {s})'
  BY <1>1, <1>2, <1>9 DEF FrameInv, FoundAgrees, QueuesAgree
<1> QED BY <1>2, <1>7, <1>8, <1>10, <1>11, <1>12, Zenon DEF FrameInv

\* Any other step leaves the IDs alone.
LEMMA FrameStep ==
    ASSUME NEW W, FrameInv(W), [Next]_vars, \A s \in Sessions : ~OpenSession(s)
    PROVE  FrameInv(W)' /\ UNCHANGED <<id, next_id>>
<1>1. CASE Drain \/ MuxDrop \/ ReadFrame \/ Deliver \/ ReaderFails
  <2>1. FrameInv(W)'
    BY <1>1, FrameDrained, FrameReaderGone, FrameRead, FrameDelivered, Zenon
  <2> QED BY <1>1, <2>1, Zenon DEF Drain, MuxDrop, ReadFrame, Deliver, ReaderFails, sharedVars, sessionVars
<1>2. ASSUME NEW s \in Sessions,
             \/ Acquire(s) \/ OpenRefused(s) \/ SendStart(s) \/ SendLock(s) \/ SendCancel(s)
             \/ SendCut(s) \/ SendFailed(s) \/ EndStart(s) \/ EndLock(s) \/ EndCut(s) \/ EndFailed(s)
      PROVE  FrameInv(W)' /\ UNCHANGED <<id, next_id>>
  <2>1. FrameInv(W)'
    BY <1>2, FrameControl, Zenon
  <2> QED BY <1>2, <2>1, Zenon DEF Acquire, OpenRefused, SendStart, SendLock, SendCancel, SendCut, SendFailed,
         EndStart, EndLock, EndCut, EndFailed, sharedVars
<1>3. ASSUME NEW s \in Sessions, SendDone(s) \/ EndDone(s) \/ Recv(s) \/ DropSession(s)
      PROVE  FrameInv(W)' /\ UNCHANGED <<id, next_id>>
  <2>1. FrameInv(W)'
    BY <1>3, FrameWritten, FrameReceived, FrameDropped, Zenon
  <2> QED BY <1>3, <2>1, Zenon DEF SendDone, EndDone, Recv, DropSession, sharedVars
<1>4. ASSUME NEW i \in Ids, NEW kind \in {"keep", "end"}, PeerFrame(i, kind)
      PROVE  FrameInv(W)' /\ UNCHANGED <<id, next_id>>
  BY <1>4, FramePeer, Zenon DEF PeerFrame, sharedVars, sessionVars
<1>5. CASE UNCHANGED vars
  <2>1. UNCHANGED frameVars /\ UNCHANGED <<state, sendpc>>
    BY <1>5, Zenon DEF vars, frameVars, sharedVars, sessionVars, readerVars, peerVars
  <2>2. Known(W)'
    BY <2>1, Zenon DEF FrameInv, Known
  <2> QED BY <2>1, <2>2, FrameQuiet, Zenon DEF FrameInv, FrameTypes, frameVars
<1> QED BY <1>1, <1>2, <1>3, <1>4, <1>5, Zenon DEF Next

\* A packet that waits for a flow, and the flow the peer has open for one, have its ID.
FramesKeepTheirId ==
    /\ \A s \in Sessions : \A n \in 1..Len(queue[s]) : queue[s][n] # None => id[queue[s][n]] = id[s]
    /\ \A s \in Sessions : owner[id[s]] # None => id[owner[id[s]]] = id[s]

\* Frames follow IDs, also when the IDs have wrapped and are given out again.
THEOREM FramesFollowIds == Spec => []FramesKeepTheirId
<1> DEFINE Inv == \E W \in SUBSET Sessions : FrameInv(W)
<1>1. Init => Inv
  BY FrameInit, Zenon
<1>2. Inv /\ [Next]_vars => Inv'
  <2> SUFFICES ASSUME NEW W \in SUBSET Sessions, FrameInv(W), [Next]_vars PROVE Inv'
    BY Zenon
  <2>1. CASE \E s \in Sessions : OpenSession(s)
    <3>1. PICK s \in Sessions : OpenSession(s)
      BY <2>1, Zenon
    <3>2. W \cup {s} \in SUBSET Sessions /\ FrameInv(W \cup {s})'
      BY <3>1, FrameOpened, Zenon
    <3> QED BY <3>2, Zenon
  <2>2. CASE \A s \in Sessions : ~OpenSession(s)
    BY <2>2, FrameStep, Zenon
  <2> QED BY <2>1, <2>2, Zenon
<1>3. Inv => FramesKeepTheirId
  BY Zenon DEF FrameInv, FrameTypes, QueuesAgree, OwnersAgree, FramesKeepTheirId
<1> QED BY <1>1, <1>2, <1>3, PTL DEF Spec

-----------------------------------------------------------------------------
\* IDs are given out from zero on, as long as there are any left.
Counted(W) ==
    /\ Cardinality(W) < IdSpace => next_id = Cardinality(W)
    /\ \A s \in W : id[s] < Cardinality(W)
    /\ \A s, t \in W : id[s] = id[t] => s = t

\* The next session gets the next ID, which nobody has had.
LEMMA CountedOpened ==
    ASSUME IsFiniteSet(Sessions), Cardinality(Sessions) <= IdSpace,
           NEW W, FrameInv(W), Counted(W), NEW s \in Sessions, OpenSession(s)
    PROVE  Counted(W \cup {s})'
<1>1. s \notin W /\ W \subseteq Sessions
  BY FrameOpened, Zenon DEF FrameInv
<1>2. IsFiniteSet(W) /\ Cardinality(W) \in Nat /\ Cardinality(Sessions) \in Nat
      /\ Cardinality(W \cup {s}) = Cardinality(W) + 1
  BY <1>1, FS_Subset, FS_AddElement, FS_CardinalityType, Zenon
<1>3. Cardinality(W \cup {s}) <= Cardinality(Sessions)
  BY <1>1, FS_Subset, Zenon
<1>4. next_id = Cardinality(W) /\ next_id \in Ids
  BY <1>2, <1>3, MuxConstants DEF Counted, FrameInv, FrameTypes
<1>5. next_id \in FreeIds
  BY <1>4, <1>2 DEF FreeIds, FrameInv, RoutesAgree, Counted
<1>6. NextFree = next_id
  <2>1. \A i \in FreeIds : i \in 0..IdSpace-1
    BY Zenon DEF FreeIds, Ids
  <2>2. Distance(next_id) = 0 /\ \A i \in FreeIds : Distance(i) \in Nat /\ (Distance(i) = 0 => i = next_id)
    BY <1>4, <2>1, DistanceZero, MuxConstants, Zenon DEF Distance, Ids
  <2>3. \E i \in FreeIds : \A j \in FreeIds : Distance(i) <= Distance(j)
    BY <1>5, <2>2
  <2>4. NextFree \in FreeIds /\ Distance(NextFree) <= Distance(next_id)
    BY <1>5, <2>3, Zenon DEF NextFree
  <2> QED BY <2>2, <2>4
<1>7. id' = [id EXCEPT ![s] = next_id] /\ next_id' = (next_id + 1) % IdSpace
  BY <1>6, Zenon DEF OpenSession
<1>8. id'[s] = Cardinality(W) /\ \A t \in W : id'[t] = id[t] /\ id[t] < Cardinality(W) /\ id[t] \in Nat
  BY <1>1, <1>4, <1>7, MuxConstants DEF FrameInv, FrameTypes, Counted, Ids
<1>9. Cardinality(W) + 1 < IdSpace => next_id' = Cardinality(W) + 1
  BY <1>2, <1>4, <1>7, MuxConstants
<1>10. \A t \in W \cup {s} : id'[t] < Cardinality(W) + 1
  BY <1>2, <1>8
<1>11. \A t, u \in W \cup {s} : id'[t] = id'[u] => t = u
  BY <1>2, <1>8 DEF Counted
<1> QED BY <1>2, <1>9, <1>10, <1>11, Zenon DEF Counted

\* Until the 16-bit counter has wrapped (a multiplexer has no more sessions over its
\* life than there are IDs), no frame crosses over to another flow, whatever is
\* in flight when flows end and others begin.
THEOREM FramesReachFlows ==
    ASSUME IsFiniteSet(Sessions), Cardinality(Sessions) <= IdSpace
    PROVE  Spec => []FramesReachTheirFlow
<1> DEFINE Inv == \E W \in SUBSET Sessions : FrameInv(W) /\ Counted(W)
<1>1. Init => Inv
  <2> SUFFICES ASSUME Init PROVE FrameInv({}) /\ Counted({})
    BY Zenon
  <2>1. Counted({})
    BY FS_EmptySet, Zenon DEF Init, Counted
  <2> QED BY <2>1, FrameInit, Zenon
<1>2. Inv /\ [Next]_vars => Inv'
  <2> SUFFICES ASSUME NEW W \in SUBSET Sessions, FrameInv(W), Counted(W), [Next]_vars PROVE Inv'
    BY Zenon
  <2>1. CASE \E s \in Sessions : OpenSession(s)
    <3>1. PICK s \in Sessions : OpenSession(s)
      BY <2>1, Zenon
    <3>2. W \cup {s} \in SUBSET Sessions /\ FrameInv(W \cup {s})' /\ Counted(W \cup {s})'
      BY <3>1, FrameOpened, CountedOpened, Zenon
    <3> QED BY <3>2, Zenon
  <2>2. CASE \A s \in Sessions : ~OpenSession(s)
    <3>1. FrameInv(W)' /\ UNCHANGED <<id, next_id>>
      BY <2>2, FrameStep, Zenon
    <3>2. Counted(W)'
      BY <3>1, Zenon DEF Counted
    <3> QED BY <3>1, <3>2, Zenon
  <2> QED BY <2>1, <2>2, Zenon
<1>3. Inv => FramesReachTheirFlow
  <2> SUFFICES ASSUME NEW W \in SUBSET Sessions, FrameInv(W), Counted(W) PROVE FramesReachTheirFlow
    BY Zenon
  <2>1. PacketsReachTheirFlow
    BY DEF FrameInv, QueuesAgree, Counted, PacketsReachTheirFlow
  <2>2. UploadsReachTheirFlow
    <3>1. ASSUME NEW s \in Sessions, sendpc[s] = "write" PROVE owner[id[s]] \in {s, None}
      <4>1. s \in W /\ id[s] \in Ids
        BY <3>1, Zenon DEF FrameInv, FrameTypes, Known
      <4> QED BY <4>1, Zenon DEF FrameInv, OwnersAgree, Counted
    <3> QED BY <3>1, Zenon DEF UploadsReachTheirFlow
  <2> QED BY <2>1, <2>2, Zenon DEF FramesReachTheirFlow
<1> QED BY <1>1, <1>2, <1>3, PTL DEF Spec

-----------------------------------------------------------------------------
\* The types of the pool; a multiplexer has a number that was given out.
XudpTypes ==
    /\ call \in [Flows -> {"none", "wait", "dial", "got", "open"}]
    /\ node \in [Flows -> Nodes] /\ dialed \in Nat
    /\ holds \in [Flows -> 0..dialed] /\ entry \in [Nodes -> 0..dialed] /\ works \subseteq 1..dialed

\* Only a call that is past the pool holds a multiplexer.
HoldsAfterPool == \A f \in Flows : call[f] \in {"none", "wait", "dial"} => holds[f] = 0

\* Who dials has the lock, and nobody else does.
DialsUnderLock ==
    /\ locked \subseteq Flows
    /\ \A f \in Flows : call[f] = "dial" <=> f \in locked
    /\ \A f, g \in locked : f = g

\* While a multiplexer is dialed, the pool has none for its node.
DialsForEmpty == \A f \in Flows : call[f] = "dial" => entry[node[f]] = 0

XudpInv == XudpTypes /\ HoldsAfterPool /\ DialsUnderLock /\ DialsForEmpty /\ OneMuxPerNode

LEMMA XudpInitInv == XudpInit => XudpInv
<1> SUFFICES ASSUME XudpInit PROVE XudpInv
  BY Zenon
<1>1. (CHOOSE n \in Nodes : TRUE) \in Nodes
  BY NodesAssumption, Zenon
<1>2. XudpTypes
  BY <1>1 DEF XudpInit, XudpTypes
<1> QED BY <1>2, Zenon DEF XudpInit, XudpInv, HoldsAfterPool, DialsUnderLock, DialsForEmpty, OneMuxPerNode

\* retain forgets no multiplexer that works and is held.
LEMMA RetainKeepsWorking ==
  ASSUME XudpInv
  PROVE  /\ Retained \in [Nodes -> 0..dialed]
         /\ \A f \in Flows : holds[f] \in works => Retained[node[f]] = holds[f]
         /\ \A n \in Nodes : entry[n] = 0 => Retained[n] = 0
<1>1. \A f \in Flows : holds[f] \in works => Upgrades(entry[node[f]]) /\ entry[node[f]] = holds[f]
  BY Zenon DEF XudpInv, XudpTypes, OneMuxPerNode, Upgrades
<1> QED BY <1>1 DEF XudpInv, XudpTypes, Retained

LEMMA XudpStepInv == XudpInv /\ [XudpNext]_muxVars => XudpInv'
<1> SUFFICES ASSUME XudpInv, [XudpNext]_muxVars PROVE XudpInv'
  BY Zenon
<1> USE DEF XudpInv, XudpTypes, HoldsAfterPool, DialsUnderLock, DialsForEmpty, OneMuxPerNode,
            Becomes, Takes, PoolFree
<1>1. ASSUME NEW f \in Flows, NEW n \in Nodes, Routed(f, n) PROVE XudpInv'
  BY <1>1 DEF Routed
<1>2. ASSUME NEW f \in Flows, Reuses(f) PROVE XudpInv'
  BY <1>2, RetainKeepsWorking DEF Reuses
<1>3. ASSUME NEW f \in Flows, BeginsDial(f) PROVE XudpInv'
  BY <1>3, RetainKeepsWorking DEF BeginsDial
<1>4. ASSUME NEW f \in Flows, Dials(f) PROVE XudpInv'
  <2>1. \A g \in Flows : node[g] = node[f] => holds[g] \notin works
    BY <1>4 DEF Dials
  <2>2. dialed' \notin works /\ \A g \in Flows \ {f} : call[g] # "dial"
    BY <1>4 DEF Dials
  <2>3. XudpTypes' /\ HoldsAfterPool' /\ DialsUnderLock' /\ DialsForEmpty'
    BY <1>4, <2>2 DEF Dials
  <2>. QED BY <1>4, <2>1, <2>2, <2>3 DEF Dials
<1>5. ASSUME NEW f \in Flows, Opens(f) PROVE XudpInv'
  BY <1>5, Zenon DEF Opens
<1>6. ASSUME NEW f \in Flows, Leaves(f) PROVE XudpInv'
  BY <1>6 DEF Leaves
<1>7. ASSUME NEW m \in works, MuxFails(m) PROVE XudpInv'
  BY <1>7, Zenon DEF MuxFails
<1>8. CASE UNCHANGED muxVars
  BY <1>8, Zenon DEF muxVars
<1> QED BY <1>1, <1>2, <1>3, <1>4, <1>5, <1>6, <1>7, <1>8, Zenon DEF XudpNext

\* However many calls dial, wait and are given up, the sessions of a node share the
\* one multiplexer the pool has for it, as long as that works.
THEOREM MuxesAreShared == XudpSpec => []OneMuxPerNode
<1>1. XudpInv => OneMuxPerNode
  BY Zenon DEF XudpInv
<1> QED BY XudpInitInv, XudpStepInv, <1>1, PTL DEF XudpSpec

-----------------------------------------------------------------------------
(* The pool of HTTP/2 connections                                           *)

PoolTypes ==
    /\ opt \in Options
    /\ pool \subseteq Physicals /\ active \in [Physicals -> Nat] /\ next_physical \in Nat
    /\ guard \in Callers \union {Nobody}
    /\ pc \in [Callers -> {"idle", "lock", "pick", "handshake"} \union Holding]
    /\ on \in [Callers -> Physicals \union {Nobody}]

\* a lease is held exactly where the control says so
LeaseHeld == \A c \in Callers : on[c] \in Physicals <=> pc[c] \in Holding

\* from the look at the pool to ready, the caller has the creation lock
UnderLock == \A c \in Callers : pc[c] \in {"pick", "handshake", "ready", "fresh"} => guard = c

\* identifiers not given out yet are unused
Unmade == \A p \in Physicals : p >= next_physical => p \notin pool /\ active[p] = 0 /\ \A c \in Callers : on[c] # p

\* there is still room for the connection being made
RoomToPush ==
    \A c \in Callers : pc[c] = "handshake" /\ opt.max_connections > 0 => Cardinality(pool) < opt.max_connections

LeaseInv ==
    /\ PoolTypes /\ LeaseHeld /\ UnderLock /\ Unmade /\ RoomToPush
    /\ ActiveIsExact /\ PoolWithinLimit /\ StreamsWithinLimit

USE PoolConstants

\* The pool is finite: it holds identifiers that were given out.
LEMMA PoolFinite == ASSUME pool \subseteq Physicals PROVE IsFiniteSet(pool) /\ Cardinality(pool) \in Nat
  <1>1. IsFiniteSet(Physicals) BY FS_Interval DEF Physicals
  <1>. QED BY <1>1, FS_Subset, FS_CardinalityType, Zenon

\* The holders of a connection are finitely many callers.
LEMMA HoldersFinite == \A p : IsFiniteSet(Holders(p)) /\ Cardinality(Holders(p)) \in Nat
  <1>1. SUFFICES ASSUME NEW p PROVE IsFiniteSet(Holders(p)) /\ Cardinality(Holders(p)) \in Nat
    BY Zenon
  <1>2. Holders(p) \subseteq Callers BY Zenon DEF Holders
  <1>. QED BY <1>2, FS_Subset, FS_CardinalityType, Zenon

\* A new lease keeps every counter exact (ActiveLease::new).
LEMMA LeaseExact ==
    ASSUME LeaseInv, NEW c \in Callers, NEW p \in Physicals, on[c] = Nobody, Lease(c, p)
    PROVE  /\ ActiveIsExact'
           /\ on' \in [Callers -> Physicals \union {Nobody}] /\ active' \in [Physicals -> Nat]
           /\ on'[c] = p /\ \A d \in Callers \ {c} : on'[d] = on[d]
           /\ active'[p] = active[p] + 1 /\ \A q \in Physicals \ {p} : active'[q] = active[q]
  <1>1. /\ on' \in [Callers -> Physicals \union {Nobody}] /\ active' \in [Physicals -> Nat]
        /\ on'[c] = p /\ \A d \in Callers \ {c} : on'[d] = on[d]
        /\ active'[p] = active[p] + 1 /\ \A q \in Physicals \ {p} : active'[q] = active[q]
    BY DEF LeaseInv, PoolTypes, Lease
  <1>2. ASSUME NEW q \in Physicals PROVE active'[q] = Cardinality(Holders(q)')
    <2>1. CASE q = p
      <3>1. Holders(q)' = Holders(q) \union {c} /\ c \notin Holders(q)
        BY <1>1, <2>1, Zenon DEF Holders
      <3>2. Cardinality(Holders(q)') = Cardinality(Holders(q)) + 1
        BY <3>1, HoldersFinite, FS_AddElement, Zenon
      <3>. QED BY <3>2, <1>1, <2>1, Zenon DEF LeaseInv, ActiveIsExact
    <2>2. CASE q # p
      <3>1. Holders(q)' = Holders(q) BY <1>1, <2>2, Zenon DEF Holders
      <3>. QED BY <3>1, <1>1, <2>2, Zenon DEF LeaseInv, ActiveIsExact
    <2>. QED BY <2>1, <2>2, Zenon
  <1>3. ActiveIsExact' BY <1>2, Zenon DEF ActiveIsExact
  <1>. QED BY <1>1, <1>3, Zenon

\* The drop of a lease or a stream keeps every counter exact, and never
\* takes one below zero.
LEMMA UnleaseExact ==
    ASSUME LeaseInv, NEW c \in Callers, on[c] \in Physicals, Unlease(c)
    PROVE  /\ ActiveIsExact'
           /\ on' \in [Callers -> Physicals \union {Nobody}] /\ active' \in [Physicals -> Nat]
           /\ on'[c] = Nobody /\ \A d \in Callers \ {c} : on'[d] = on[d]
           /\ \A q \in Physicals : active'[q] <= active[q]
  <1>0. PICK p \in Physicals : p = on[c] BY Zenon
  <1>1. /\ on' \in [Callers -> Physicals \union {Nobody}]
        /\ on'[c] = Nobody /\ \A d \in Callers \ {c} : on'[d] = on[d]
        /\ active'[p] = active[p] - 1 /\ \A q \in Physicals \ {p} : active'[q] = active[q]
        /\ active' = [active EXCEPT ![p] = active[p] - 1] /\ active \in [Physicals -> Nat]
    BY <1>0, Zenon DEF LeaseInv, PoolTypes, Unlease
  <1>2. Holders(p)' = Holders(p) \ {c} /\ c \in Holders(p)
    BY <1>0, <1>1 DEF Holders
  <1>3. Cardinality(Holders(p)') = Cardinality(Holders(p)) - 1
    BY <1>2, HoldersFinite, FS_RemoveElement, Zenon
  <1>4. IsFiniteSet(Holders(p)') /\ Cardinality(Holders(p)') \in Nat
    <2>1. IsFiniteSet(Holders(p) \ {c}) BY HoldersFinite, FS_RemoveElement, Zenon
    <2>. QED BY <2>1, <1>2, FS_CardinalityType, Zenon
  <1>5. active[p] >= 1 /\ active'[p] = Cardinality(Holders(p)')
    BY <1>1, <1>3, <1>4, HoldersFinite DEF LeaseInv, ActiveIsExact
  <1>6. active' \in [Physicals -> Nat] /\ \A q \in Physicals : active'[q] <= active[q]
    BY <1>1, <1>5
  <1>7. ASSUME NEW q \in Physicals PROVE active'[q] = Cardinality(Holders(q)')
    <2>1. CASE q = p BY <2>1, <1>5, Zenon
    <2>2. CASE q # p
      <3>1. Holders(q)' = Holders(q) BY <1>0, <1>1, <2>2, Zenon DEF Holders
      <3>. QED BY <3>1, <1>1, <2>2, Zenon DEF LeaseInv, ActiveIsExact
    <2>. QED BY <2>1, <2>2, Zenon
  <1>8. ActiveIsExact' BY <1>7, Zenon DEF ActiveIsExact
  <1>. QED BY <1>1, <1>6, <1>8, Zenon

\* A pool that lost a connection still meets its limits.
LEMMA PoolShrinks ==
    ASSUME LeaseInv, NEW p, pool' = pool \ {p}
    PROVE  Cardinality(pool') <= Cardinality(pool) /\ Cardinality(pool') \in Nat
  <1>1. IsFiniteSet(pool) BY PoolFinite, Zenon DEF LeaseInv, PoolTypes
  <1>. QED BY <1>1, FS_Subset, FS_CardinalityType, Zenon

\* Steps that leave leases and pool alone.
LEMMA QuietStep ==
    ASSUME LeaseInv, UNCHANGED <<opt, pool, active, next_physical, on>>, PoolTypes', UnderLock',
           \A c \in Callers : pc'[c] \in Holding <=> pc[c] \in Holding,
           \A c \in Callers : pc'[c] = "handshake" => pc[c] = "handshake"
    PROVE  LeaseInv'
  <1>1. LeaseHeld' /\ Unmade' /\ RoomToPush'
    BY Zenon DEF LeaseInv, LeaseHeld, Unmade, RoomToPush
  <1>2. ActiveIsExact' /\ PoolWithinLimit' /\ StreamsWithinLimit'
    BY Zenon DEF LeaseInv, ActiveIsExact, PoolWithinLimit, StreamsWithinLimit, Holders
  <1>. QED BY <1>1, <1>2, Zenon DEF LeaseInv

LEMMA InitLeaseInv == GrpcInit => LeaseInv
  <1>. SUFFICES ASSUME GrpcInit PROVE LeaseInv BY Zenon
  <1>1. PoolTypes /\ LeaseHeld /\ UnderLock /\ Unmade
    BY Zenon DEF GrpcInit, PoolTypes, LeaseHeld, UnderLock, Unmade, Holding, Physicals
  <1>2. RoomToPush /\ PoolWithinLimit /\ StreamsWithinLimit
    BY FS_EmptySet DEF GrpcInit, RoomToPush, PoolWithinLimit, StreamsWithinLimit
  <1>3. ActiveIsExact
    <2>1. \A p \in Physicals : Holders(p) = {} BY Zenon DEF GrpcInit, Holders
    <2>. QED BY <2>1, FS_EmptySet, Zenon DEF GrpcInit, ActiveIsExact
  <1>. QED BY <1>1, <1>2, <1>3, Zenon DEF LeaseInv

\* Every step of a caller, and of a driver task, preserves the invariant.
LEMMA StepIInv == LeaseInv /\ [GrpcNext]_grpcVars => LeaseInv'
  <1>. SUFFICES ASSUME LeaseInv, [GrpcNext]_grpcVars, UNCHANGED opt PROVE LeaseInv' BY Zenon DEF GrpcNext, grpcVars
  <1>0. /\ PoolTypes /\ LeaseHeld /\ UnderLock /\ Unmade /\ UNCHANGED opt
        /\ opt.max_connections \in Nat /\ opt.max_streams \in Nat
    BY Zenon DEF LeaseInv, PoolTypes
  <1>1. ASSUME NEW c \in Callers, Connect(c) \/ OpenStream(c) PROVE LeaseInv'
    <2>1. UNCHANGED <<opt, pool, active, next_physical, on, guard>>
      BY <1>1, Zenon DEF Connect, OpenStream, NoLease
    <2>2. PoolTypes' /\ UnderLock' /\ \A d \in Callers : (pc'[d] \in Holding <=> pc[d] \in Holding)
                                           /\ (pc'[d] = "handshake" => pc[d] = "handshake")
      BY <1>0, <1>1, <2>1, Zenon DEF Connect, OpenStream, At, PoolTypes, UnderLock, Holding
    <2>. QED BY <2>1, <2>2, QuietStep, Zenon
  <1>2. ASSUME NEW c \in Callers, Lock(c) PROVE LeaseInv'
    <2>1. UNCHANGED <<opt, pool, active, next_physical, on>> /\ guard = Nobody /\ guard' = c
      BY <1>2, Zenon DEF Lock, LockFree, NoLease
    <2>2. PoolTypes' /\ UnderLock' /\ \A d \in Callers : (pc'[d] \in Holding <=> pc[d] \in Holding)
                                           /\ (pc'[d] = "handshake" => pc[d] = "handshake")
      BY <1>0, <1>2, <2>1, Zenon DEF Lock, At, PoolTypes, UnderLock, Holding
    <2>. QED BY <2>1, <2>2, QuietStep, Zenon
  <1>3. ASSUME NEW c \in Callers, GiveUp(c) PROVE LeaseInv'
    <2>1. UNCHANGED <<opt, pool, active, next_physical, on>>
      BY <1>3, Zenon DEF GiveUp, NoLease
    <2>2. PoolTypes' /\ UnderLock' /\ \A d \in Callers : (pc'[d] \in Holding <=> pc[d] \in Holding)
                                           /\ (pc'[d] = "handshake" => pc[d] = "handshake")
      BY <1>0, <1>3, <2>1, Zenon DEF GiveUp, At, PoolTypes, UnderLock, Holding
    <2>. QED BY <2>1, <2>2, QuietStep, Zenon
  <1>4. ASSUME NEW c \in Callers, Ready(c) PROVE LeaseInv'
    <2>1. UNCHANGED <<opt, pool, active, next_physical, on>>
      BY <1>4, Zenon DEF Ready, NoLease
    <2>2. PoolTypes' /\ UnderLock' /\ \A d \in Callers : (pc'[d] \in Holding <=> pc[d] \in Holding)
                                           /\ (pc'[d] = "handshake" => pc[d] = "handshake")
      BY <1>0, <1>4, <2>1, Zenon DEF Ready, At, PoolTypes, UnderLock, Holding
    <2>. QED BY <2>1, <2>2, QuietStep, Zenon
  <1>5. ASSUME NEW c \in Callers, PickNew(c) PROVE LeaseInv'
    <2>1. UNCHANGED <<opt, pool, active, next_physical, on, guard>> /\ guard = c /\ pc[c] = "pick"
      BY <1>0, <1>5, Zenon DEF PickNew, NoLease, UnderLock
    <2>2. PoolTypes' /\ UnderLock' /\ LeaseHeld' /\ Unmade'
      BY <1>0, <1>5, <2>1, Zenon DEF PickNew, At, PoolTypes, UnderLock, LeaseHeld, Unmade, Holding
    <2>3. ASSUME opt.max_connections > 0 PROVE Cardinality(pool) < opt.max_connections
      <3>1. IsFiniteSet(pool) /\ Cardinality(pool) \in Nat BY <1>0, PoolFinite, Zenon DEF PoolTypes
      <3>2. CASE pool = {} BY <3>2, <2>3, FS_EmptySet, Zenon
      <3>3. CASE pool # {}
        <4>2. PICK p \in pool : ~Reuse(active[p]) BY <3>3, <1>5, Zenon DEF PickNew
        <4>. QED BY <1>0, <4>2, <3>1, <2>3 DEF Reuse
      <3>. QED BY <3>2, <3>3, Zenon
    <2>4. RoomToPush' BY <1>0, <2>1, <2>3, Zenon DEF RoomToPush
    <2>5. ActiveIsExact' /\ PoolWithinLimit' /\ StreamsWithinLimit'
      BY <2>1, Zenon DEF LeaseInv, ActiveIsExact, PoolWithinLimit, StreamsWithinLimit, Holders
    <2>. QED BY <2>2, <2>4, <2>5, Zenon DEF LeaseInv
  <1>6. ASSUME NEW c \in Callers, NEW p \in Physicals, PickPooled(c, p) PROVE LeaseInv'
    <2>1. UNCHANGED <<opt, pool, next_physical, guard>> /\ guard = c /\ pc[c] = "pick" /\ p \in pool
          /\ Reuse(active[p]) /\ Lease(c, p)
      BY <1>0, <1>6, Zenon DEF PickPooled, UnderLock, Least
    <2>2. on[c] = Nobody BY <1>0, <2>1, Zenon DEF LeaseHeld, PoolTypes, Holding
    <2>3. /\ ActiveIsExact'
          /\ on' \in [Callers -> Physicals \union {Nobody}] /\ active' \in [Physicals -> Nat]
          /\ on'[c] = p /\ \A d \in Callers \ {c} : on'[d] = on[d]
          /\ active'[p] = active[p] + 1 /\ \A q \in Physicals \ {p} : active'[q] = active[q]
      BY <2>1, <2>2, LeaseExact, Zenon
    <2>4. pc' = [pc EXCEPT ![c] = "ready"] BY <1>6, Zenon DEF PickPooled, At
    <2>5. PoolTypes' BY <1>0, <2>1, <2>3, <2>4, Zenon DEF PoolTypes, Holding
    <2>6. LeaseHeld' /\ UnderLock' BY <1>0, <2>1, <2>3, <2>4, Zenon DEF PoolTypes, LeaseHeld, UnderLock, Holding
    <2>7. Unmade' BY <1>0, <2>1, <2>3, Zenon DEF Unmade
    <2>8. RoomToPush' /\ PoolWithinLimit'
      BY <1>0, <2>1, <2>4, Zenon DEF LeaseInv, RoomToPush, PoolWithinLimit, PoolTypes
    <2>9. StreamsWithinLimit' BY <1>0, <2>1, <2>3 DEF LeaseInv, StreamsWithinLimit, Reuse, PoolTypes
    <2>. QED BY <2>3, <2>5, <2>6, <2>7, <2>8, <2>9, Zenon DEF LeaseInv
  <1>7. ASSUME NEW c \in Callers, Handshake(c) PROVE LeaseInv'
    <2>1. /\ next_physical \in Physicals /\ next_physical' = next_physical + 1 /\ pool' = pool \union {next_physical}
          /\ Lease(c, next_physical) /\ UNCHANGED <<opt, guard>> /\ guard = c /\ pc[c] = "handshake"
      BY <1>0, <1>7, Zenon DEF Handshake, UnderLock
    <2>2. on[c] = Nobody BY <1>0, <2>1, Zenon DEF LeaseHeld, PoolTypes, Holding
    <2>3. /\ ActiveIsExact'
          /\ on' \in [Callers -> Physicals \union {Nobody}] /\ active' \in [Physicals -> Nat]
          /\ on'[c] = next_physical /\ \A d \in Callers \ {c} : on'[d] = on[d]
          /\ active'[next_physical] = active[next_physical] + 1 /\ \A q \in Physicals \ {next_physical} : active'[q] = active[q]
      BY <2>1, <2>2, LeaseExact, Zenon
    <2>4. pc' = [pc EXCEPT ![c] = "fresh"] BY <1>7, Zenon DEF Handshake, At
    <2>5. PoolTypes'
      <3>1. next_physical \in Nat BY <1>0, Zenon DEF PoolTypes
      <3>2. next_physical' \in Nat BY <2>1, <3>1
      <3>3. pool' \subseteq Physicals BY <1>0, <2>1, Zenon DEF PoolTypes
      <3>. QED BY <1>0, <2>1, <2>3, <2>4, <3>2, <3>3, Zenon DEF PoolTypes, Holding
    <2>6. LeaseHeld' /\ UnderLock' BY <1>0, <2>1, <2>3, <2>4, Zenon DEF PoolTypes, LeaseHeld, UnderLock, Holding
    <2>7. active[next_physical] = 0 /\ next_physical \notin pool BY <1>0, <2>1 DEF Unmade, Physicals
    <2>8. Unmade' BY <1>0, <2>1, <2>3 DEF Unmade, PoolTypes, Physicals
    <2>9. RoomToPush' BY <1>0, <2>1, <2>4, Zenon DEF RoomToPush, UnderLock, PoolTypes
    <2>10. PoolWithinLimit'
      <3>1. Cardinality(pool') = Cardinality(pool) + 1 /\ Cardinality(pool) \in Nat
        BY <1>0, <2>1, <2>7, PoolFinite, FS_AddElement, Zenon DEF PoolTypes
      <3>. QED BY <1>0, <3>1, <2>1 DEF LeaseInv, PoolWithinLimit, RoomToPush
    <2>11. StreamsWithinLimit' BY <1>0, <2>1, <2>3, <2>7 DEF LeaseInv, StreamsWithinLimit, PoolTypes
    <2>. QED BY <2>3, <2>5, <2>6, <2>8, <2>9, <2>10, <2>11, Zenon DEF LeaseInv
  <1>8. ASSUME NEW c \in Callers, DropStream(c) \/ Abandon(c) PROVE LeaseInv'
    <2>1. /\ UNCHANGED <<opt, pool, next_physical>> /\ Unlease(c) /\ pc[c] \in Holding
          /\ pc' = [pc EXCEPT ![c] = "idle"]
      BY <1>8, Zenon DEF DropStream, Abandon, Holding, At
    <2>2. on[c] \in Physicals BY <1>0, <2>1, Zenon DEF LeaseHeld
    <2>3. /\ ActiveIsExact'
          /\ on' \in [Callers -> Physicals \union {Nobody}] /\ active' \in [Physicals -> Nat]
          /\ on'[c] = Nobody /\ \A d \in Callers \ {c} : on'[d] = on[d]
          /\ \A q \in Physicals : active'[q] <= active[q]
      BY <2>1, <2>2, UnleaseExact, Zenon
    <2>4. guard' = guard \/ (guard = c /\ guard' = Nobody) BY <1>8, Zenon DEF DropStream, Abandon
    <2>5. PoolTypes' BY <1>0, <2>1, <2>3, <2>4, Zenon DEF PoolTypes, Holding
    <2>6. LeaseHeld' BY <1>0, <2>1, <2>3, Zenon DEF PoolTypes, LeaseHeld, Holding
    <2>7. UnderLock' BY <1>0, <2>1, <2>4, Zenon DEF PoolTypes, UnderLock, Holding
    <2>8. Unmade' BY <1>0, <2>1, <2>3 DEF Unmade, PoolTypes
    <2>9. RoomToPush' /\ PoolWithinLimit'
      BY <1>0, <2>1, Zenon DEF LeaseInv, RoomToPush, PoolWithinLimit, PoolTypes
    <2>10. StreamsWithinLimit' BY <1>0, <2>3 DEF LeaseInv, StreamsWithinLimit, PoolTypes
    <2>. QED BY <2>3, <2>5, <2>6, <2>7, <2>8, <2>9, <2>10, Zenon DEF LeaseInv
  <1>9. ASSUME NEW c \in Callers, ReadyFails(c) PROVE LeaseInv'
    <2>1. /\ UNCHANGED <<opt, guard, next_physical>> /\ Unlease(c) /\ pc[c] = "ready" /\ guard = c
          /\ pc' = [pc EXCEPT ![c] = "pick"] /\ pool' = pool \ {on[c]}
      BY <1>0, <1>9, Zenon DEF ReadyFails, At, UnderLock, RemovePhysical
    <2>2. on[c] \in Physicals BY <1>0, <2>1, Zenon DEF LeaseHeld, Holding
    <2>3. /\ ActiveIsExact'
          /\ on' \in [Callers -> Physicals \union {Nobody}] /\ active' \in [Physicals -> Nat]
          /\ on'[c] = Nobody /\ \A d \in Callers \ {c} : on'[d] = on[d]
          /\ \A q \in Physicals : active'[q] <= active[q]
      BY <2>1, <2>2, UnleaseExact, Zenon
    <2>5. PoolTypes' BY <1>0, <2>1, <2>3, Zenon DEF PoolTypes, Holding
    <2>6. LeaseHeld' BY <1>0, <2>1, <2>3, Zenon DEF PoolTypes, LeaseHeld, Holding
    <2>7. UnderLock' BY <1>0, <2>1, Zenon DEF PoolTypes, UnderLock, Holding
    <2>8. Unmade' BY <1>0, <2>1, <2>3 DEF Unmade, PoolTypes
    <2>9. RoomToPush' /\ PoolWithinLimit'
      <3>1. Cardinality(pool') <= Cardinality(pool) /\ Cardinality(pool') \in Nat /\ Cardinality(pool) \in Nat
        BY <1>0, <2>1, PoolShrinks, PoolFinite, Zenon DEF PoolTypes
      <3>. QED BY <1>0, <2>1, <3>1 DEF LeaseInv, RoomToPush, PoolWithinLimit, PoolTypes
    <2>10. StreamsWithinLimit' BY <1>0, <2>3 DEF LeaseInv, StreamsWithinLimit, PoolTypes
    <2>. QED BY <2>3, <2>5, <2>6, <2>7, <2>8, <2>9, <2>10, Zenon DEF LeaseInv
  <1>10. ASSUME NEW p \in Physicals, Die(p) PROVE LeaseInv'
    <2>1. UNCHANGED <<opt, pool, active, next_physical, on, guard, pc>> BY <1>10, Zenon DEF Die
    <2>2. PoolTypes' /\ UnderLock' BY <1>0, <2>1, Zenon DEF PoolTypes, UnderLock
    <2>. QED BY <2>1, <2>2, QuietStep, Zenon
  <1>11. ASSUME NEW p \in Physicals, Cleanup(p) PROVE LeaseInv'
    <2>1. UNCHANGED <<opt, active, next_physical, on, guard, pc>> /\ pool' = pool \ {p} BY <1>11, Zenon DEF Cleanup, RemovePhysical
    <2>2. PoolTypes' /\ UnderLock' /\ LeaseHeld' /\ Unmade'
      BY <1>0, <2>1, Zenon DEF PoolTypes, UnderLock, LeaseHeld, Unmade
    <2>3. Cardinality(pool') <= Cardinality(pool) /\ Cardinality(pool') \in Nat /\ Cardinality(pool) \in Nat
      BY <1>0, <2>1, PoolShrinks, PoolFinite, Zenon DEF PoolTypes
    <2>4. RoomToPush' /\ PoolWithinLimit'
      BY <1>0, <2>1, <2>3 DEF LeaseInv, RoomToPush, PoolWithinLimit
    <2>5. ActiveIsExact' /\ StreamsWithinLimit'
      BY <2>1, Zenon DEF LeaseInv, ActiveIsExact, StreamsWithinLimit, Holders
    <2>. QED BY <2>2, <2>4, <2>5, Zenon DEF LeaseInv
  <1>12. ASSUME NEW p \in Physicals, RuntimeDropped(p) PROVE LeaseInv'
    <2>1. UNCHANGED <<opt, pool, active, next_physical, on, guard, pc>> BY <1>12, Zenon DEF RuntimeDropped
    <2>2. PoolTypes' /\ UnderLock' BY <1>0, <2>1, Zenon DEF PoolTypes, UnderLock
    <2>. QED BY <2>1, <2>2, QuietStep, Zenon
  <1>13. CASE UNCHANGED grpcVars
    <2>1. UNCHANGED <<opt, pool, active, next_physical, on, guard, pc>> BY <1>13, Zenon DEF grpcVars
    <2>2. PoolTypes' /\ UnderLock' BY <1>0, <2>1, Zenon DEF PoolTypes, UnderLock
    <2>. QED BY <2>1, <2>2, QuietStep, Zenon
  <1>. QED
    BY <1>1, <1>2, <1>3, <1>4, <1>5, <1>6, <1>7, <1>8, <1>9, <1>10, <1>11, <1>12, <1>13, Zenon DEF GrpcNext, Step

\* Whatever fails and whoever is dropped, LeaseInv holds.
THEOREM PoolInvariant == GrpcSpec => []LeaseInv
  BY InitLeaseInv, StepIInv, PTL DEF GrpcSpec

\* The counter of a connection is the number of leases and streams on it: no
\* error path of connect leaks or drops a unit.
THEOREM CountersExact == GrpcSpec => []ActiveIsExact
  <1>1. LeaseInv => ActiveIsExact BY Zenon DEF LeaseInv
  <1>. QED BY <1>1, PoolInvariant, PTL

\* max-connections bounds the pool and max-streams the streams of each
\* connection, for any number of concurrent callers.
THEOREM LimitsHold == GrpcSpec => []WithinLimits
  <1>1. LeaseInv => WithinLimits BY Zenon DEF LeaseInv, WithinLimits
  <1>. QED BY <1>1, PoolInvariant, PTL
=============================================================================
