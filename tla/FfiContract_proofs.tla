------------------------- MODULE FfiContract_proofs -------------------------
(***************************************************************************)
(* The commands of a handle match the threads that wait for their replies,  *)
(* whatever the numbers of handles, threads and queued commands, from the   *)
(* call that queues a command to its reply, its timeout or the end of the   *)
(* worker.  With it the library keeps the contract of its header: every     *)
(* step of FfiHandle is a step of MetaAbi or leaves what the header sees    *)
(* unchanged.                                                               *)
(***************************************************************************)
EXTENDS FfiHandle_proofs

\* What a thread's call looks like.
CallShape ==
    /\ op \in [Threads -> Kinds \union {"none", "stop", "destroy"}]
    /\ \A t \in Threads :
         /\ pc[t] = "idle" => op[t] = "none" /\ on[t] = Nobody
         /\ pc[t] = "wait" => op[t] \in Kinds /\ on[t] \in Ids
         /\ pc[t] \in {"lock", "join"} => op[t] \in {"stop", "destroy"}
         /\ pc[t] = "remove" => op[t] = "destroy"

\* A command and the thread that waits for its reply; one that nobody waits for
\* belongs to a cancelled core.
Entry(h, c) ==
    /\ c.cmd \in Kinds
    /\ c.caller = Nobody => h \in stop
    /\ c.caller # Nobody => /\ c.caller \in Threads /\ pc[c.caller] = "wait"
                            /\ on[c.caller] = h /\ op[c.caller] = c.cmd

ServedWaits ==
    /\ serving \in [Ids -> Commands \union {Idle}]
    /\ \A h \in Ids :
         /\ at[h] \in {"serving", "starting"} => Entry(h, serving[h])
         /\ at[h] = "starting" => serving[h].cmd = "start"
         /\ at[h] \notin {"serving", "starting"} => serving[h] = Idle

QueuedWait ==
    /\ queue \in [Ids -> Seq(Commands)]
    /\ \A h \in Ids : \A i \in 1..Len(queue[h]) : Entry(h, queue[h][i])
    /\ \A h \in Ids : at[h] = "gone" => queue[h] = <<>>

\* No thread waits for two commands.
OneEntry ==
    \A h \in Ids : \A i \in 1..Len(queue[h]) : queue[h][i].caller # Nobody =>
        /\ serving[h].caller # queue[h][i].caller
        /\ \A j \in 1..Len(queue[h]) : j # i => queue[h][j].caller # queue[h][i].caller

\* How far a start is shows in starts, running and stop.
PhaseFacts ==
    \A h \in Ids :
        /\ h >= next_id => starts[h] = 0
        /\ h \in running => starts[h] > 0
        /\ at[h] = "starting" => starts[h] > 0 /\ h \notin running
        /\ at[h] = "serving" /\ starts[h] > 0 => h \in running
        /\ at[h] = "loop" /\ starts[h] > 0 /\ h \notin running => h \in stop

Matched == CallShape /\ ServedWaits /\ QueuedWait /\ OneEntry /\ PhaseFacts

USE DEF Ids

-----------------------------------------------------------------------------
\* The initial state matches: no handle has a command.
LEMMA InitMatched == Init => Matched
BY HandleConstants DEF Init, Matched, CallShape, ServedWaits, QueuedWait, OneEntry, PhaseFacts, Entry,
   Idle

\* A thread is in no command of a handle it does not wait for.
LEMMA NoEntry ==
    ASSUME Matched, NEW t \in Threads, NEW k \in Ids, pc[t] # "wait" \/ on[t] # k
    PROVE  /\ \A i \in 1..Len(queue[k]) : queue[k][i].caller # t
           /\ serving[k].caller # t
<1>1. t # Nobody
  BY HandleConstants, Zenon
<1>2. ASSUME NEW i \in 1..Len(queue[k]), queue[k][i].caller = t PROVE FALSE
  <2>1. Entry(k, queue[k][i])
    BY Zenon DEF Matched, QueuedWait
  <2> QED BY <2>1, <1>1, <1>2, Zenon DEF Entry
<1>3. ASSUME serving[k].caller = t PROVE FALSE
  <2>1. CASE at[k] \in {"serving", "starting"}
    <3>1. Entry(k, serving[k])
      BY <2>1, Zenon DEF Matched, ServedWaits
    <3> QED BY <3>1, <1>1, <1>3, Zenon DEF Entry
  <2>2. CASE at[k] \notin {"serving", "starting"}
    <3>1. serving[k] = Idle
      BY <2>2, Zenon DEF Matched, ServedWaits
    <3> QED BY <3>1, <1>1, <1>3 DEF Idle
  <2> QED BY <2>1, <2>2, Zenon
<1> QED BY <1>2, <1>3, Zenon

\* Creating a handle touches no command.
LEMMA CreateMatched ==
    ASSUME IInv, Matched, NEW t \in Threads, Create(t) \/ CreateFails(t) PROVE Matched'
<1>1. UNCHANGED <<stop, running, starts, pc, on, op, queue, serving>>
  BY Zenon DEF Create, CreateFails, workerVars, callVars
<1>2. /\ next_id' = next_id + 1 /\ next_id \in Ids /\ at[next_id] = "none"
      /\ \A h \in Ids : at'[h] = at[h] \/ (h = next_id /\ at'[h] = "loop")
  <2>1. next_id \in Ids
    BY HandleConstants DEF IInv, HandleTypes, Create, CreateFails
  <2>2. at[next_id] = "none"
    BY <2>1 DEF IInv, HandleTypes, Unused
  <2>3. \A h \in Ids : at'[h] = at[h] \/ (h = next_id /\ at'[h] = "loop")
    BY <2>1, Zenon DEF IInv, HandleTypes, Create, CreateFails, workerVars
  <2> QED BY <2>1, <2>2, <2>3, Zenon DEF Create, CreateFails
<1>3. CallShape' /\ OneEntry'
  BY <1>1 DEF Matched, CallShape, OneEntry
<1>4. ServedWaits'
  BY <1>1, <1>2 DEF Matched, ServedWaits, Entry
<1>5. QueuedWait'
  BY <1>1, <1>2 DEF Matched, QueuedWait, Entry
<1>6. PhaseFacts'
  BY <1>1, <1>2 DEF Matched, PhaseFacts, IInv, HandleTypes
<1> QED BY <1>3, <1>4, <1>5, <1>6, Zenon DEF Matched

\* A command joins the queue with a thread that waited for nothing.
LEMMA CommandMatched ==
    ASSUME IInv, Matched, NEW t \in Threads, NEW h \in Ids, NEW c \in Kinds, Command(t, h, c)
    PROVE  Matched'
<1>1. /\ UNCHANGED <<next_id, stop, running, starts, at, serving>>
      /\ pc[t] = "idle" /\ h \in Ids
  BY Zenon DEF Command, Calls, registryVars, IInv, HandleTypes
<1>2. /\ pc' = [pc EXCEPT ![t] = "wait"] /\ on' = [on EXCEPT ![t] = h]
      /\ op' = [op EXCEPT ![t] = c]
      /\ queue' = [queue EXCEPT ![h] = Append(queue[h], [cmd |-> c, caller |-> t])]
      /\ at[h] # "gone"
  BY Zenon DEF Command, Enter
<1>3. [cmd |-> c, caller |-> t] \in Commands
  BY Zenon DEF Commands
<1>4. /\ queue' \in [Ids -> Seq(Commands)]
      /\ \A k \in Ids : k # h => queue'[k] = queue[k]
      /\ Len(queue'[h]) = Len(queue[h]) + 1 /\ Len(queue[h]) \in Nat
      /\ \A i \in 1..Len(queue[h]) : queue'[h][i] = queue[h][i]
      /\ queue'[h][Len(queue[h]) + 1] = [cmd |-> c, caller |-> t]
  BY <1>2, <1>3 DEF Matched, QueuedWait
<1>5. /\ \A k \in Ids : \A i \in 1..Len(queue[k]) : queue[k][i].caller # t
      /\ \A k \in Ids : serving[k].caller # t
  BY <1>1, NoEntry, Zenon
<1>6. CallShape'
  BY <1>2, Zenon DEF Matched, CallShape, IInv, HandleTypes
<1>7. ServedWaits'
  BY <1>1, <1>2, <1>5, Zenon DEF Matched, ServedWaits, Entry, CallShape, IInv, HandleTypes
<1>8. QueuedWait'
  <2>1. ASSUME NEW k \in Ids, NEW i \in 1..Len(queue'[k]) PROVE Entry(k, queue[k][i])'
    <3>1. CASE k = h /\ i = Len(queue[h]) + 1
      BY <3>1, <1>2, <1>4, HandleConstants DEF Entry, Matched, CallShape, IInv, HandleTypes
    <3>2. CASE ~(k = h /\ i = Len(queue[h]) + 1)
      <4>1. i \in 1..Len(queue[k]) /\ queue'[k][i] = queue[k][i]
        <5>1. CASE k # h
          BY <5>1, <1>4, Zenon
        <5>2. CASE k = h
          <6>1. i \in 1..Len(queue[h])
            BY <5>2, <3>2, <1>4
          <6> QED BY <5>2, <6>1, <1>4, Zenon
        <5> QED BY <5>1, <5>2, Zenon
      <4>2. Entry(k, queue[k][i]) /\ queue[k][i].caller # t
        BY <4>1, <1>5, Zenon DEF Matched, QueuedWait
      <4> QED BY <4>1, <4>2, <1>1, <1>2, Zenon DEF Entry, Matched, CallShape, IInv, HandleTypes
    <3> QED BY <3>1, <3>2, Zenon
  <2> QED BY <1>1, <1>2, <1>4, <2>1, Zenon DEF Matched, QueuedWait
<1>9. OneEntry'
  <2> SUFFICES ASSUME NEW k \in Ids, NEW i \in 1..Len(queue'[k]), queue'[k][i].caller # Nobody
               PROVE  /\ serving[k].caller # queue'[k][i].caller
                      /\ \A j \in 1..Len(queue'[k]) : j # i => queue'[k][j].caller # queue'[k][i].caller
    BY <1>1, Zenon DEF OneEntry
  <2>1. CASE k # h
    BY <2>1, <1>4 DEF Matched, OneEntry
  <2>2. CASE k = h /\ i = Len(queue[h]) + 1
    <3>1. queue'[k][i].caller = t
      BY <2>2, <1>4
    <3>2. \A j \in 1..Len(queue'[k]) : j # i => j \in 1..Len(queue[h]) /\ queue'[k][j] = queue[h][j]
      BY <2>2, <1>4
    <3>3. \A j \in 1..Len(queue'[k]) : j # i => queue'[k][j].caller # t
      BY <3>2, <1>5, Zenon
    <3>4. serving[k].caller # t
      BY <1>5, Zenon
    <3> QED BY <3>1, <3>3, <3>4, Zenon
  <2>3. CASE k = h /\ i # Len(queue[h]) + 1
    <3>1. i \in 1..Len(queue[h]) /\ queue'[k][i] = queue[h][i]
      BY <2>3, <1>4
    <3>2. serving[h].caller # queue[h][i].caller
      BY <3>1, Zenon DEF Matched, OneEntry
    <3>3. ASSUME NEW j \in 1..Len(queue'[k]), j # i PROVE queue'[k][j].caller # queue[h][i].caller
      <4>1. CASE j = Len(queue[h]) + 1
        <5>1. queue'[k][j].caller = t
          BY <2>3, <4>1, <1>4
        <5> QED BY <5>1, <3>1, <1>5, Zenon
      <4>2. CASE j # Len(queue[h]) + 1
        <5>1. j \in 1..Len(queue[h]) /\ queue'[k][j] = queue[h][j]
          BY <2>3, <4>2, <1>4
        <5> QED BY <5>1, <3>1, <3>3, Zenon DEF Matched, OneEntry
      <4> QED BY <4>1, <4>2, Zenon
    <3> QED BY <2>3, <3>1, <3>2, <3>3, Zenon
  <2> QED BY <2>1, <2>2, <2>3, Zenon
<1>10. PhaseFacts'
  BY <1>1, Zenon DEF Matched, PhaseFacts
<1> QED BY <1>6, <1>7, <1>8, <1>9, <1>10, Zenon DEF Matched

\* The thread that gives up leaves its command to nobody, and the core is cancelled.
LEMMA TimeoutMatched ==
    ASSUME IInv, Matched, NEW t \in Threads, Timeout(t) PROVE Matched'
<1> DEFINE h == on[t]
<1>1. /\ UNCHANGED <<next_id, running, starts, at>>
      /\ pc[t] = "wait" /\ h \in Ids /\ stop' = stop \union {h}
  BY Zenon DEF Timeout, registryVars, Matched, CallShape
<1>2. /\ pc' = [pc EXCEPT ![t] = "idle"] /\ on' = [on EXCEPT ![t] = Nobody]
      /\ op' = [op EXCEPT ![t] = "none"]
      /\ queue' = [queue EXCEPT ![h] = [i \in DOMAIN queue[h] |-> Orphan(queue[h][i], t)]]
      /\ serving' = [serving EXCEPT ![h] = Orphan(serving[h], t)]
  BY Zenon DEF Timeout, Leave
<1>3. \A c \in Commands \union {Idle} :
        /\ Orphan(c, t) \in Commands \union {Idle} /\ (c \in Commands => Orphan(c, t) \in Commands)
        /\ Orphan(c, t).cmd = c.cmd
        /\ c.caller = t => Orphan(c, t).caller = Nobody
        /\ c.caller # t => Orphan(c, t) = c
  BY HandleConstants DEF Orphan, Commands, Idle
<1>4. /\ queue[h] \in Seq(Commands) /\ serving[h] \in Commands \union {Idle}
      /\ DOMAIN queue[h] = 1..Len(queue[h]) /\ Len(queue[h]) \in Nat
      /\ \A i \in 1..Len(queue[h]) : queue[h][i] \in Commands
  BY <1>1 DEF Matched, QueuedWait, ServedWaits
<1>5. /\ Len(queue'[h]) = Len(queue[h])
      /\ \A i \in 1..Len(queue[h]) : queue'[h][i] = Orphan(queue[h][i], t)
      /\ queue'[h] \in Seq(Commands)
      /\ serving'[h] = Orphan(serving[h], t)
      /\ \A k \in Ids : k # h => queue'[k] = queue[k] /\ serving'[k] = serving[k]
  <2>1. queue'[h] = [i \in 1..Len(queue[h]) |-> Orphan(queue[h][i], t)]
    BY <1>1, <1>2, <1>4, Zenon DEF Matched, QueuedWait
  <2>2. \A i \in 1..Len(queue[h]) : Orphan(queue[h][i], t) \in Commands
    BY <1>3, <1>4, Zenon
  <2>3. queue'[h] \in Seq(Commands) /\ Len(queue'[h]) = Len(queue[h])
    BY <2>1, <2>2, <1>4
  <2> QED BY <2>1, <2>3, <1>1, <1>2, Zenon DEF Matched, QueuedWait, ServedWaits
<1>6. \A k \in Ids : k # h => /\ \A i \in 1..Len(queue[k]) : queue[k][i].caller # t
                              /\ serving[k].caller # t
  BY NoEntry, Zenon
<1>7. CallShape'
  BY <1>2, Zenon DEF Matched, CallShape, IInv, HandleTypes
<1>8. \A u \in Threads : u # t => pc'[u] = pc[u] /\ on'[u] = on[u] /\ op'[u] = op[u]
  BY <1>2, Zenon DEF Matched, CallShape, IInv, HandleTypes
<1>9. ServedWaits'
  <2>1. serving' \in [Ids -> Commands \union {Idle}]
    BY <1>2, <1>3, <1>4, Zenon DEF Matched, ServedWaits
  <2>2. ASSUME NEW k \in Ids, at[k] \in {"serving", "starting"} PROVE Entry(k, serving[k])'
    <3>1. Entry(k, serving[k])
      BY <2>2, Zenon DEF Matched, ServedWaits
    <3>2. CASE k # h
      BY <3>1, <3>2, <1>1, <1>5, <1>6, <1>8 DEF Entry
    <3>3. CASE k = h /\ serving[h].caller # t
      BY <3>1, <3>3, <1>1, <1>3, <1>4, <1>5, <1>8 DEF Entry
    <3>4. CASE k = h /\ serving[h].caller = t
      BY <3>1, <3>4, <1>1, <1>3, <1>4, <1>5 DEF Entry
    <3> QED BY <3>2, <3>3, <3>4, Zenon
  <2>3. \A k \in Ids : /\ at[k] = "starting" => serving'[k].cmd = "start"
                       /\ at[k] \notin {"serving", "starting"} => serving'[k] = Idle
    <3>1. \A k \in Ids : serving'[k].cmd = serving[k].cmd
      BY <1>3, <1>4, <1>5
    <3>2. Orphan(Idle, t) = Idle
      BY HandleConstants, Zenon DEF Orphan, Idle
    <3> QED BY <3>1, <3>2, <1>5, Zenon DEF Matched, ServedWaits
  <2> QED BY <2>1, <2>2, <2>3, <1>1, Zenon DEF ServedWaits
<1>10. QueuedWait'
  <2>1. ASSUME NEW k \in Ids, NEW i \in 1..Len(queue'[k]) PROVE Entry(k, queue[k][i])'
    <3>1. i \in 1..Len(queue[k])
      BY <1>5, Zenon
    <3>2. Entry(k, queue[k][i])
      BY <3>1, Zenon DEF Matched, QueuedWait
    <3>3. CASE k # h
      BY <3>1, <3>2, <3>3, <1>1, <1>5, <1>6, <1>8 DEF Entry
    <3>4. CASE k = h /\ queue[h][i].caller # t
      <4>1. queue'[k][i] = queue[h][i]
        BY <3>1, <3>4, <1>3, <1>4, <1>5
      <4> QED BY <3>2, <3>4, <4>1, <1>1, <1>8, Zenon DEF Entry
    <3>5. CASE k = h /\ queue[h][i].caller = t
      <4>1. queue'[k][i].caller = Nobody /\ queue'[k][i].cmd = queue[h][i].cmd
        BY <3>1, <3>5, <1>3, <1>4, <1>5
      <4> QED BY <3>2, <3>5, <4>1, <1>1, Zenon DEF Entry
    <3> QED BY <3>3, <3>4, <3>5, Zenon
  <2>2. queue' \in [Ids -> Seq(Commands)]
    BY <1>2, <1>5, Zenon DEF Matched, QueuedWait
  <2>3. \A k \in Ids : at[k] = "gone" => queue'[k] = <<>>
    BY <1>4, <1>5 DEF Matched, QueuedWait
  <2> QED BY <2>1, <2>2, <2>3, <1>1, Zenon DEF QueuedWait
<1>11. OneEntry'
  <2> SUFFICES ASSUME NEW k \in Ids, NEW i \in 1..Len(queue'[k]), queue'[k][i].caller # Nobody
               PROVE  /\ serving'[k].caller # queue'[k][i].caller
                      /\ \A j \in 1..Len(queue'[k]) : j # i => queue'[k][j].caller # queue'[k][i].caller
    BY Zenon DEF OneEntry
  <2>1. CASE k # h
    BY <2>1, <1>5 DEF Matched, OneEntry
  <2>2. CASE k = h
    <3>1. i \in 1..Len(queue[h]) /\ queue'[k][i] = queue[h][i]
      BY <2>2, <1>3, <1>4, <1>5
    <3>2. serving'[k].caller \in {Nobody, serving[h].caller}
      BY <2>2, <1>3, <1>4, <1>5, Zenon
    <3>3. ASSUME NEW j \in 1..Len(queue'[k])
          PROVE  j \in 1..Len(queue[h]) /\ queue'[k][j].caller \in {Nobody, queue[h][j].caller}
      BY <2>2, <1>3, <1>4, <1>5
    <3>4. /\ serving[h].caller # queue[h][i].caller
          /\ \A j \in 1..Len(queue[h]) : j # i => queue[h][j].caller # queue[h][i].caller
      BY <2>2, <3>1, Zenon DEF Matched, OneEntry
    <3> QED BY <3>1, <3>2, <3>3, <3>4, Zenon
  <2> QED BY <2>1, <2>2, Zenon
<1>12. PhaseFacts'
  BY <1>1, Zenon DEF Matched, PhaseFacts
<1> QED BY <1>7, <1>9, <1>10, <1>11, <1>12, Zenon DEF Matched

\* A thread that leaves and was in no command disturbs none.
LEMMA LeaveMatched ==
    ASSUME IInv, Matched, NEW t \in Threads, NEW s, Leave(t, s),
           UNCHANGED <<next_id, running, starts, at, queue, serving>>, stop \subseteq stop',
           \A k \in Ids : /\ \A i \in 1..Len(queue[k]) : queue[k][i].caller # t
                          /\ serving[k].caller # t
    PROVE  Matched'
<1>1. /\ pc' = [pc EXCEPT ![t] = "idle"] /\ on' = [on EXCEPT ![t] = Nobody]
      /\ op' = [op EXCEPT ![t] = "none"]
  BY Zenon DEF Leave
<1>2. \A u \in Threads : u # t => pc'[u] = pc[u] /\ on'[u] = on[u] /\ op'[u] = op[u]
  BY <1>1, Zenon DEF Matched, CallShape, IInv, HandleTypes
<1>3. CallShape'
  BY <1>1, Zenon DEF Matched, CallShape, IInv, HandleTypes
<1>4. ServedWaits'
  BY <1>2 DEF Matched, ServedWaits, Entry
<1>5. QueuedWait'
  <2>1. ASSUME NEW k \in Ids, NEW i \in 1..Len(queue[k]) PROVE Entry(k, queue[k][i])'
    <3>1. Entry(k, queue[k][i]) /\ queue[k][i].caller # t
      BY Zenon DEF Matched, QueuedWait
    <3> QED BY <3>1, <1>2, Zenon DEF Entry
  <2> QED BY <2>1, Zenon DEF Matched, QueuedWait
<1>6. OneEntry' /\ PhaseFacts'
  BY DEF Matched, OneEntry, PhaseFacts
<1> QED BY <1>3, <1>4, <1>5, <1>6, Zenon DEF Matched

\* The queue of a worker that has ended is gone.
LEMMA DisconnectedMatched ==
    ASSUME IInv, Matched, NEW t \in Threads, Disconnected(t) PROVE Matched'
<1>1. /\ UNCHANGED <<next_id, running, starts, at, queue, serving>>
      /\ pc[t] = "wait" /\ at[on[t]] = "gone" /\ on[t] \in Ids /\ stop \subseteq stop'
      /\ Leave(t, "ERROR")
  BY Zenon DEF Disconnected, registryVars, workerVars, Matched, CallShape
<1>2. queue[on[t]] = <<>> /\ serving[on[t]] = Idle
  BY <1>1, Zenon DEF Matched, QueuedWait, ServedWaits
<1>3. \A k \in Ids : /\ \A i \in 1..Len(queue[k]) : queue[k][i].caller # t
                     /\ serving[k].caller # t
  <2> SUFFICES ASSUME NEW k \in Ids PROVE /\ \A i \in 1..Len(queue[k]) : queue[k][i].caller # t
                                          /\ serving[k].caller # t
    BY Zenon
  <2>1. CASE k # on[t]
    BY <2>1, NoEntry, Zenon
  <2>2. CASE k = on[t]
    BY <2>2, <1>2, HandleConstants DEF Idle
  <2> QED BY <2>1, <2>2, Zenon
<1> QED BY <1>1, <1>3, LeaveMatched, Zenon

\* The worker answers the command it serves: its caller leaves, and waited for
\* nothing else.
LEMMA ReplyMatched ==
    ASSUME IInv, Matched, NEW h \in Ids, NEW s, Reply(h, s), UNCHANGED <<queue, next_id>>,
           at[h] \in {"serving", "starting"}, stop \subseteq stop'
    PROVE  CallShape' /\ ServedWaits' /\ QueuedWait' /\ OneEntry'
<1> DEFINE t == serving[h].caller
<1>1. /\ at' = [at EXCEPT ![h] = "loop"] /\ serving' = [serving EXCEPT ![h] = Idle]
      /\ t = Nobody => UNCHANGED <<pc, on, op>>
      /\ t # Nobody => /\ pc' = [pc EXCEPT ![t] = "idle"] /\ on' = [on EXCEPT ![t] = Nobody]
                       /\ op' = [op EXCEPT ![t] = "none"]
  BY Zenon DEF Reply, Leave, callVars
<1>2. Entry(h, serving[h])
  BY Zenon DEF Matched, ServedWaits
<1>3. t # Nobody => t \in Threads /\ on[t] = h
  BY <1>2, Zenon DEF Entry
<1>4. \A u \in Threads : u # t => pc'[u] = pc[u] /\ on'[u] = on[u] /\ op'[u] = op[u]
  BY <1>1, <1>3 DEF Matched, CallShape, IInv, HandleTypes
<1>5. t # Nobody => \A k \in Ids : /\ \A i \in 1..Len(queue[k]) : queue[k][i].caller # t
                                   /\ k # h => serving[k].caller # t
  <2> SUFFICES ASSUME t # Nobody, NEW k \in Ids
               PROVE  /\ \A i \in 1..Len(queue[k]) : queue[k][i].caller # t
                      /\ k # h => serving[k].caller # t
    BY Zenon
  <2>1. CASE k # h
    BY <2>1, <1>3, NoEntry, Zenon
  <2>2. CASE k = h
    BY <2>2, Zenon DEF Matched, OneEntry
  <2> QED BY <2>1, <2>2, Zenon
<1>6. CallShape'
  BY <1>1, <1>3 DEF Matched, CallShape, IInv, HandleTypes
<1>7. /\ \A k \in Ids : k # h => serving'[k] = serving[k] /\ at'[k] = at[k]
      /\ serving'[h] = Idle /\ at'[h] = "loop"
      /\ serving' \in [Ids -> Commands \union {Idle}]
  BY <1>1, Zenon DEF Matched, ServedWaits, IInv, HandleTypes
<1>8. ServedWaits'
  <2>1. ASSUME NEW k \in Ids, k # h, at[k] \in {"serving", "starting"} PROVE Entry(k, serving[k])'
    <3>1. Entry(k, serving[k])
      BY <2>1, Zenon DEF Matched, ServedWaits
    <3>2. serving[k].caller # Nobody => serving[k].caller # t
      BY <2>1, <1>5, Zenon
    <3> QED BY <2>1, <3>1, <3>2, <1>4, <1>7, Zenon DEF Entry
  <2> QED BY <2>1, <1>7, Zenon DEF Matched, ServedWaits
<1>9. QueuedWait'
  <2>1. ASSUME NEW k \in Ids, NEW i \in 1..Len(queue[k]) PROVE Entry(k, queue[k][i])'
    <3>1. Entry(k, queue[k][i])
      BY Zenon DEF Matched, QueuedWait
    <3>2. queue[k][i].caller # Nobody => queue[k][i].caller # t
      BY <1>5, Zenon
    <3> QED BY <3>1, <3>2, <1>4, Zenon DEF Entry
  <2> QED BY <2>1, <1>7, Zenon DEF Matched, QueuedWait
<1>10. OneEntry'
  <2>1. \A k \in Ids : serving'[k].caller \in {Nobody, serving[k].caller}
    BY <1>7 DEF Idle
  <2> QED BY <2>1 DEF Matched, OneEntry
<1> QED BY <1>6, <1>8, <1>9, <1>10, Zenon

\* The steps that end with an answer.
LEMMA AnswerMatched ==
    ASSUME IInv, Matched, NEW h \in Ids,
           \/ StartOk(h) \/ StartFails(h) \/ StartRefused(h) \/ NetworkChanged(h)
           \/ SetFd(h) \/ SetFdFails(h)
    PROVE  Matched'
<1>1. /\ UNCHANGED <<queue, next_id, starts>> /\ stop \subseteq stop'
      /\ at[h] \in {"serving", "starting"}
      /\ \E s \in {"OK", "ERROR"} : Reply(h, s)
  BY Zenon DEF StartOk, StartFails, StartRefused, NetworkChanged, SetFd, SetFdFails, registryVars
<1>2. CallShape' /\ ServedWaits' /\ QueuedWait' /\ OneEntry'
  BY <1>1, ReplyMatched, Zenon
<1>3. /\ at'[h] = "loop" /\ \A k \in Ids : k # h => at'[k] = at[k]
  BY <1>1, Zenon DEF Reply, IInv, HandleTypes
<1>4. /\ running' \in {running, running \union {h}}
      /\ h \in running' => at[h] = "starting" \/ h \in running
      /\ at[h] = "starting" => h \in running' \/ h \in stop'
  BY Zenon DEF StartOk, StartFails, StartRefused, NetworkChanged, SetFd, SetFdFails
<1>5. PhaseFacts'
  BY <1>1, <1>3, <1>4, Zenon DEF Matched, PhaseFacts, IInv, HandleTypes
<1> QED BY <1>2, <1>5, Zenon DEF Matched

\* The worker takes the oldest command.
LEMMA ServeMatched ==
    ASSUME IInv, Matched, NEW h \in Ids, Serve(h) PROVE Matched'
<1>1. /\ UNCHANGED <<next_id, stop, running, starts, pc, on, op>>
      /\ at[h] = "loop" /\ h \notin stop /\ queue[h] # <<>>
      /\ queue' = [queue EXCEPT ![h] = Tail(queue[h])]
      /\ serving' = [serving EXCEPT ![h] = Head(queue[h])]
      /\ at' = [at EXCEPT ![h] = "serving"]
  BY Zenon DEF Serve, registryVars, callVars
<1>2. /\ queue[h] \in Seq(Commands) /\ Len(queue[h]) \in Nat /\ 1 \in 1..Len(queue[h])
      /\ Head(queue[h]) = queue[h][1] /\ queue[h][1] \in Commands
  BY <1>1 DEF Matched, QueuedWait
<1>3. /\ Tail(queue[h]) \in Seq(Commands) /\ Len(Tail(queue[h])) = Len(queue[h]) - 1
      /\ \A i \in 1..(Len(queue[h]) - 1) : Tail(queue[h])[i] = queue[h][i + 1]
  BY <1>1, <1>2
<1>4. /\ \A k \in Ids : k # h => queue'[k] = queue[k] /\ serving'[k] = serving[k] /\ at'[k] = at[k]
      /\ queue'[h] = Tail(queue[h]) /\ serving'[h] = queue[h][1] /\ at'[h] = "serving"
      /\ queue' \in [Ids -> Seq(Commands)] /\ serving' \in [Ids -> Commands \union {Idle}]
  BY <1>1, <1>2, <1>3, Zenon DEF Matched, QueuedWait, ServedWaits, IInv, HandleTypes
<1>5. \A i \in 1..Len(queue'[h]) : i + 1 \in 1..Len(queue[h]) /\ queue'[h][i] = queue[h][i + 1]
  BY <1>2, <1>3, <1>4
<1>6. CallShape'
  BY <1>1, Zenon DEF Matched, CallShape
<1>7. ServedWaits'
  <2>1. Entry(h, serving[h])'
    <3>1. Entry(h, queue[h][1])
      BY <1>2, Zenon DEF Matched, QueuedWait
    <3> QED BY <3>1, <1>1, <1>4, Zenon DEF Entry
  <2>2. ASSUME NEW k \in Ids, k # h, at[k] \in {"serving", "starting"} PROVE Entry(k, serving[k])'
    <3>1. Entry(k, serving[k])
      BY <2>2, Zenon DEF Matched, ServedWaits
    <3> QED BY <2>2, <3>1, <1>1, <1>4, Zenon DEF Entry
  <2> QED BY <2>1, <2>2, <1>4, Zenon DEF Matched, ServedWaits
<1>8. QueuedWait'
  <2>1. ASSUME NEW k \in Ids, NEW i \in 1..Len(queue'[k]) PROVE Entry(k, queue[k][i])'
    <3>1. PICK j \in 1..Len(queue[k]) : queue'[k][i] = queue[k][j]
      <4>1. CASE k = h
        BY <4>1, <1>5, Zenon
      <4>2. CASE k # h
        BY <4>2, <1>4, Zenon
      <4> QED BY <4>1, <4>2, Zenon
    <3>2. Entry(k, queue[k][j])
      BY Zenon DEF Matched, QueuedWait
    <3> QED BY <3>1, <3>2, <1>1, Zenon DEF Entry
  <2> QED BY <2>1, <1>4, Zenon DEF Matched, QueuedWait
<1>9. OneEntry'
  <2> SUFFICES ASSUME NEW k \in Ids, NEW i \in 1..Len(queue'[k]), queue'[k][i].caller # Nobody
               PROVE  /\ serving'[k].caller # queue'[k][i].caller
                      /\ \A j \in 1..Len(queue'[k]) : j # i => queue'[k][j].caller # queue'[k][i].caller
    BY Zenon DEF OneEntry
  <2>1. CASE k # h
    BY <2>1, <1>4 DEF Matched, OneEntry
  <2>2. CASE k = h
    <3>1. i + 1 \in 1..Len(queue[h]) /\ queue'[k][i] = queue[h][i + 1] /\ i + 1 # 1
      BY <2>2, <1>5
    <3>2. \A j \in 1..Len(queue[h]) : j # i + 1 => queue[h][j].caller # queue[h][i + 1].caller
      BY <2>2, <3>1, Zenon DEF Matched, OneEntry
    <3>3. serving'[k].caller # queue'[k][i].caller
      BY <2>2, <3>1, <3>2, <1>2, <1>4, Zenon
    <3>4. ASSUME NEW j \in 1..Len(queue'[k]), j # i PROVE queue'[k][j].caller # queue'[k][i].caller
      <4>1. j + 1 \in 1..Len(queue[h]) /\ queue'[k][j] = queue[h][j + 1] /\ j + 1 # i + 1
        BY <2>2, <3>4, <1>5
      <4> QED BY <4>1, <3>1, <3>2, Zenon
    <3> QED BY <3>3, <3>4, Zenon
  <2> QED BY <2>1, <2>2, Zenon
<1>10. PhaseFacts'
  BY <1>1, <1>4 DEF Matched, PhaseFacts, IInv, HandleTypes
<1> QED BY <1>6, <1>7, <1>8, <1>9, <1>10, Zenon DEF Matched

-----------------------------------------------------------------------------
\* The worker begins a start, leaves its loop, or ends.
LEMMA WorkerMatched ==
    ASSUME IInv, Matched, NEW h \in Ids, BeginStart(h) \/ Break(h) \/ WorkerEnds(h) PROVE Matched'
<1>1. /\ UNCHANGED <<next_id, stop, serving, pc, on, op>>
      /\ \A k \in Ids : k # h => at'[k] = at[k] /\ starts'[k] = starts[k] /\ queue'[k] = queue[k]
      /\ \A k \in Ids : k # h => (k \in running' <=> k \in running)
  BY Zenon DEF BeginStart, Break, WorkerEnds, registryVars, callVars, IInv, HandleTypes, Matched, QueuedWait
<1>2. CallShape'
  BY <1>1, Zenon DEF Matched, CallShape
<1>3. ServedWaits'
  <2>1. CASE BeginStart(h)
    BY <2>1, <1>1 DEF BeginStart, Matched, ServedWaits, Entry, IInv, HandleTypes
  <2>2. CASE Break(h) \/ WorkerEnds(h)
    <3>1. at[h] \in {"loop", "dropping"} /\ at'[h] \in {"dropping", "gone"}
      BY <2>2, Zenon DEF Break, WorkerEnds, IInv, HandleTypes
    <3>2. serving'[h] = Idle
      BY <3>1, <1>1, Zenon DEF Matched, ServedWaits
    <3>3. ASSUME NEW k \in Ids, k # h, at[k] \in {"serving", "starting"} PROVE Entry(k, serving[k])'
      BY <3>3, <1>1, Zenon DEF Matched, ServedWaits, Entry
    <3> QED BY <3>1, <3>2, <3>3, <1>1, Zenon DEF Matched, ServedWaits
  <2> QED BY <2>1, <2>2, Zenon
<1>4. QueuedWait'
  <2>1. CASE BeginStart(h) \/ Break(h)
    <3>1. queue' = queue /\ at'[h] # "gone"
      BY <2>1, Zenon DEF BeginStart, Break, IInv, HandleTypes
    <3>2. ASSUME NEW k \in Ids, NEW i \in 1..Len(queue[k]) PROVE Entry(k, queue[k][i])'
      BY <3>1, <1>1 DEF Matched, QueuedWait, Entry
    <3> QED BY <3>1, <3>2, <1>1, Zenon DEF Matched, QueuedWait
  <2>2. CASE WorkerEnds(h)
    <3>1. queue' \in [Ids -> Seq(Commands)] /\ queue'[h] = <<>>
      BY <2>2 DEF WorkerEnds, Matched, QueuedWait
    <3>2. ASSUME NEW k \in Ids, NEW i \in 1..Len(queue'[k]) PROVE Entry(k, queue[k][i])'
      <4>1. k # h
        BY <3>1
      <4>2. queue'[k] = queue[k] /\ Entry(k, queue[k][i])
        BY <4>1, <1>1, Zenon DEF Matched, QueuedWait
      <4> QED BY <4>2, <1>1, Zenon DEF Entry
    <3> QED BY <3>1, <3>2, <1>1, Zenon DEF Matched, QueuedWait
  <2> QED BY <2>1, <2>2, Zenon
<1>5. OneEntry'
  <2>1. queue'[h] = queue[h] \/ queue'[h] = <<>>
    BY Zenon DEF BeginStart, Break, WorkerEnds, Matched, QueuedWait
  <2>2. ASSUME NEW k \in Ids, NEW i \in 1..Len(queue'[k]) PROVE queue'[k] = queue[k]
    <3>1. queue'[k] # <<>>
      OBVIOUS
    <3> QED BY <1>1, <2>1, <3>1, Zenon
  <2>3. ASSUME NEW k \in Ids, NEW i \in 1..Len(queue'[k]), queue'[k][i].caller # Nobody
        PROVE  /\ serving'[k].caller # queue'[k][i].caller
               /\ \A j \in 1..Len(queue'[k]) : j # i => queue'[k][j].caller # queue'[k][i].caller
    <3>1. queue'[k] = queue[k] /\ serving' = serving
      BY <1>1, <2>2, Zenon
    <3> QED BY <2>3, <3>1 DEF Matched, OneEntry
  <2> QED BY <2>3, Zenon DEF OneEntry
<1>6. PhaseFacts'
  <2>1. CASE BeginStart(h)
    <3>0. starts[h] = 0 /\ at[h] # "none"
      BY <2>1, Zenon DEF BeginStart, StartAllowed, IInv, StartRemembered
    <3>1. starts[h] = 0 /\ h < next_id
      BY <3>0 DEF IInv, Unused, HandleTypes
    <3>2. h \notin running
      BY <3>1 DEF Matched, PhaseFacts
    <3>3. starts'[h] = starts[h] + 1 /\ at'[h] = "starting" /\ running' = running
      BY <2>1, Zenon DEF BeginStart, IInv, HandleTypes
    <3>4. starts'[h] = 1 /\ next_id' = next_id /\ ~(h >= next_id)
      BY <1>1, <3>1, <3>3 DEF IInv, HandleTypes
    <3>5. starts'[h] > 0
      BY <3>4
    <3> QED BY <1>1, <3>2, <3>3, <3>4, <3>5, Zenon DEF Matched, PhaseFacts
  <2>2. CASE Break(h) \/ WorkerEnds(h)
    BY <2>2, <1>1, Zenon DEF Break, WorkerEnds, Matched, PhaseFacts, IInv, HandleTypes
  <2> QED BY <2>1, <2>2, Zenon
<1> QED BY <1>2, <1>3, <1>4, <1>5, <1>6, Zenon DEF Matched

\* A step that changes no command, call or phase keeps them matched.
LEMMA QuietMatched ==
    ASSUME Matched, stop \subseteq stop',
           UNCHANGED <<next_id, running, starts, at, queue, serving, pc, on, op>>
    PROVE  Matched'
<1>1. CallShape' /\ PhaseFacts' /\ OneEntry'
  BY DEF Matched, CallShape, PhaseFacts, OneEntry
<1>2. ServedWaits'
  BY Zenon DEF Matched, ServedWaits, Entry
<1>3. QueuedWait'
  BY DEF Matched, QueuedWait, Entry
<1> QED BY <1>1, <1>2, <1>3, Zenon DEF Matched

\* Callbacks touch no command.
LEMMA CallbackMatched ==
    ASSUME IInv, Matched, NEW t \in Threads, CallbackReturns(t) \/ \E h \in Ids : Callback(t, h)
    PROVE  Matched'
<1>1. UNCHANGED <<next_id, stop, running, starts, at, queue, serving, pc, on, op>>
  BY Zenon DEF Callback, CallbackReturns, registryVars, workerVars, callVars
<1> QED BY <1>1, QuietMatched, Zenon

\* A thread that shuts a handle down waits for no command.
LEMMA ShutdownMatched ==
    ASSUME IInv, Matched, NEW t \in Threads,
           \/ Take(t)
           \/ \E h \in Ids, s \in {"stop", "destroy"} : Shutdown(t, h, s)
           \/ (Untaken(t) \/ Joined(t)) /\ op[t] # "stop"
    PROVE  Matched'
<1>1. /\ UNCHANGED <<next_id, running, starts, at, queue, serving>>
      /\ stop \subseteq stop' /\ pc[t] # "wait"
  BY Zenon DEF Take, Shutdown, Untaken, Joined, Calls, registryVars, workerVars
<1>2. /\ \A u \in Threads : u # t => pc'[u] = pc[u] /\ on'[u] = on[u] /\ op'[u] = op[u]
      /\ CallShape'
  <2>1. CASE \E h \in Ids, s \in {"stop", "destroy"} : Shutdown(t, h, s)
    BY <2>1 DEF Shutdown, Enter, Matched, CallShape, IInv, HandleTypes
  <2>2. CASE Take(t)
    BY <2>2, Zenon DEF Take, Matched, CallShape, IInv, HandleTypes
  <2>3. CASE (Untaken(t) \/ Joined(t)) /\ op[t] # "stop"
    BY <2>3 DEF Untaken, Joined, Finish, Matched, CallShape, IInv, HandleTypes
  <2> QED BY <2>1, <2>2, <2>3, Zenon
<1>3. \A k \in Ids : /\ \A i \in 1..Len(queue[k]) : queue[k][i].caller # t
                     /\ serving[k].caller # t
  BY <1>1, NoEntry, Zenon
<1>4. ServedWaits'
  BY <1>1, <1>2, <1>3 DEF Matched, ServedWaits, Entry
<1>5. QueuedWait'
  <2>1. ASSUME NEW k \in Ids, NEW i \in 1..Len(queue[k]) PROVE Entry(k, queue[k][i])'
    <3>1. Entry(k, queue[k][i]) /\ queue[k][i].caller # t
      BY <1>3, Zenon DEF Matched, QueuedWait
    <3> QED BY <3>1, <1>1, <1>2, Zenon DEF Entry
  <2> QED BY <1>1, <2>1, Zenon DEF Matched, QueuedWait
<1>6. OneEntry' /\ PhaseFacts'
  BY <1>1 DEF Matched, OneEntry, PhaseFacts
<1> QED BY <1>2, <1>4, <1>5, <1>6, Zenon DEF Matched

\* stop returns, or destroy has removed the handle.
LEMMA ReturnMatched ==
    ASSUME IInv, Matched, NEW t \in Threads,
           \/ Remove(t)
           \/ (Untaken(t) \/ Joined(t)) /\ op[t] = "stop"
    PROVE  Matched'
<1>1. /\ UNCHANGED <<next_id, running, starts, at, queue, serving>>
      /\ stop \subseteq stop' /\ pc[t] # "wait" /\ Leave(t, "OK")
  BY Zenon DEF Remove, Untaken, Joined, Finish, registryVars, workerVars
<1>2. \A k \in Ids : /\ \A i \in 1..Len(queue[k]) : queue[k][i].caller # t
                     /\ serving[k].caller # t
  BY <1>1, NoEntry, Zenon
<1> QED BY <1>1, <1>2, LeaveMatched, Zenon

\* Every step keeps commands and callers matched.
LEMMA StepMatched == IInv /\ Matched /\ [Next]_vars => Matched'
<1> SUFFICES ASSUME IInv, Matched, [Next]_vars PROVE Matched'
  BY Zenon
<1>1. CASE \E h \in Ids : Worker(h)
  BY <1>1, AnswerMatched, ServeMatched, WorkerMatched, Zenon DEF Worker
<1>2. CASE \E t \in Threads : Create(t) \/ CreateFails(t) \/ Timeout(t) \/ CallbackReturns(t)
  BY <1>2, CreateMatched, TimeoutMatched, CallbackMatched, Zenon
<1>3. CASE \E t \in Threads : Proceed(t)
  <2>1. PICK t \in Threads : Proceed(t)
    BY <1>3, Zenon
  <2>2. CASE Take(t)
    BY <2>2, ShutdownMatched, Zenon
  <2>3. CASE Untaken(t) \/ Joined(t)
    <3>1. CASE op[t] = "stop"
      BY <2>3, <3>1, ReturnMatched, Zenon
    <3>2. CASE op[t] # "stop"
      BY <2>3, <3>2, ShutdownMatched, Zenon
    <3> QED BY <3>1, <3>2, Zenon
  <2>4. CASE Remove(t)
    BY <2>4, ReturnMatched, Zenon
  <2>5. CASE Disconnected(t)
    BY <2>5, DisconnectedMatched, Zenon
  <2> QED BY <2>1, <2>2, <2>3, <2>4, <2>5, Zenon DEF Proceed
<1>4. CASE \E t \in Threads, h \in Ids : Callback(t, h)
  BY <1>4, CallbackMatched, Zenon
<1>5. CASE \E t \in Threads, h \in Ids : \/ \E c \in Kinds : Command(t, h, c)
                                       \/ \E s \in {"stop", "destroy"} : Shutdown(t, h, s)
  BY <1>5, CommandMatched, ShutdownMatched, Zenon
<1>6. CASE \E h \in Ids : PacketsEnd(h)
  <2>1. UNCHANGED <<next_id, running, starts, at, queue, serving, pc, on, op>> /\ stop \subseteq stop'
    BY <1>6, Zenon DEF PacketsEnd, registryVars, workerVars, callVars
  <2> QED BY <2>1, QuietMatched, Zenon
<1>7. CASE UNCHANGED vars
  <2>1. UNCHANGED <<next_id, stop, running, starts, at, queue, serving, pc, on, op>>
    BY <1>7, Zenon DEF vars, dataVars, registryVars, workerVars, callVars
  <2> QED BY <2>1, QuietMatched, Zenon
<1> QED BY <1>1, <1>2, <1>3, <1>4, <1>5, <1>6, <1>7, Zenon DEF Next

\* Commands and callers always match.
THEOREM HandlesMatched == Spec => [](IInv /\ Matched)
<1>1. Init => IInv /\ Matched
  BY InitIInv, InitMatched, Zenon
<1>2. IInv /\ Matched /\ [Next]_vars => (IInv /\ Matched)'
  BY StepIInv, StepMatched, Zenon
<1> QED BY <1>1, <1>2, PTL DEF Spec

-----------------------------------------------------------------------------

\* The refinement mapping, as the header sees the worker and the calls.
phaseMap == [h \in Ids |-> PhaseOf(h)]
callMap == [t \in Threads |-> [fn |-> op[t], handle |-> on[t]]]

\* A step changes the phase of at most one handle.
LEMMA PhaseMoves ==
    ASSUME NEW h \in Ids, NEW p, PhaseOf(h)' = p, \A k \in Ids : k # h => PhaseOf(k)' = PhaseOf(k)
    PROVE  phaseMap' = [phaseMap EXCEPT ![h] = p]
BY Zenon DEF phaseMap

\* A handle whose worker does not move keeps its phase.
LEMMA PhaseKept ==
    ASSUME NEW k \in Ids, at'[k] = at[k], starts'[k] = starts[k], k \in running' <=> k \in running
    PROVE  PhaseOf(k)' = PhaseOf(k)
BY Zenon DEF PhaseOf

LEMMA PhasesKept ==
    ASSUME UNCHANGED <<at, starts, running>> PROVE phaseMap' = phaseMap
BY PhaseKept, Zenon DEF phaseMap

LEMMA CallsKept == UNCHANGED callVars => callMap' = callMap
BY Zenon DEF callVars, callMap

\* A thread outside a call is outside one for the header too.
LEMMA IdleIsNoCall ==
    ASSUME Matched, NEW t \in Threads, pc[t] = "idle" PROVE callMap[t] = Abi!NoCall
BY Zenon DEF Matched, CallShape, callMap, Abi!NoCall

LEMMA EnterCall ==
    ASSUME IInv, Matched, NEW t \in Threads, NEW h, NEW f, NEW w, Enter(t, h, f, w)
    PROVE  /\ callMap' = [callMap EXCEPT ![t] = [fn |-> f, handle |-> h]]
           /\ reply' = Abi!Nothing
BY Zenon DEF Enter, Silent, Nothing, Abi!Nothing, callMap, IInv, HandleTypes, Matched, CallShape

LEMMA LeaveCall ==
    ASSUME IInv, Matched, NEW t \in Threads, NEW s, Leave(t, s)
    PROVE  /\ callMap' = [callMap EXCEPT ![t] = Abi!NoCall]
           /\ reply' = [thread |-> t, status |-> s]
BY Zenon DEF Leave, Answer, Abi!NoCall, callMap, IInv, HandleTypes, Matched, CallShape

\* There are no handles and no calls at first.
LEMMA InitRefines == Init => Abi!Init
BY DEF Init, Abi!Init, Abi!Threads, Threads, Abi!NoCall, Abi!Nothing, Nothing, PhaseOf

LEMMA CreateRefines ==
    ASSUME IInv, Matched, NEW t \in Threads, Create(t) PROVE Abi!Create(t)
<1>1. /\ pc[t] = "idle" /\ (t \in HostThreads \/ inside[t] # Nobody) /\ inside[t] = Nobody
      /\ UNCHANGED <<callVars, starts, running, fd, inside>>
  BY Zenon DEF Create, Calls, MayEnter, cbVars
<1>2. callMap[t] = Abi!NoCall /\ callMap' = callMap
  BY <1>1, IdleIsNoCall, CallsKept, Zenon
<1>3. PICK h \in Ids : h = next_id
  BY HandleConstants DEF Create, IInv, HandleTypes
<1>4. at[h] = "none" /\ starts[h] = 0 /\ h \notin running /\ at' = [at EXCEPT ![h] = "loop"]
  BY <1>3 DEF Create, IInv, HandleTypes, Unused, Matched, PhaseFacts
<1>5. PhaseOf(h) = "none" /\ PhaseOf(h)' = "fresh"
  <2>1. at'[h] = "loop"
    BY <1>4, Zenon DEF IInv, HandleTypes
  <2> QED BY <1>1, <1>4, <2>1 DEF PhaseOf
<1>6. ASSUME NEW k \in Ids, k # h PROVE PhaseOf(k)' = PhaseOf(k)
  <2>1. at'[k] = at[k]
    BY <1>4, <1>6, Zenon DEF IInv, HandleTypes
  <2> QED BY <1>1, <2>1, PhaseKept, Zenon
<1>7. phaseMap' = [phaseMap EXCEPT ![h] = "fresh"] /\ phaseMap[h] = "none"
  BY <1>5, <1>6, PhaseMoves, Zenon DEF phaseMap
<1>8. registry' = registry \union {h} /\ reply' = [thread |-> t, status |-> "OK"]
  BY <1>3, Zenon DEF Create, Answer
<1> QED BY <1>1, <1>2, <1>7, <1>8, Zenon
        DEF Abi!Create, Abi!NeverValid, Abi!Outside, Abi!Free, Abi!Answer, phaseMap, callMap

LEMMA CreateFailsRefines ==
    ASSUME IInv, Matched, NEW t \in Threads, CreateFails(t) PROVE Abi!Refuse(t)
<1>1. /\ pc[t] = "idle" /\ (t \in HostThreads \/ inside[t] # Nobody)
      /\ UNCHANGED <<registry, callVars, at, starts, running, fd, inside>>
      /\ reply' = [thread |-> t, status |-> "ERROR"]
  BY Zenon DEF CreateFails, Calls, cbVars, workerVars, Answer
<1>2. callMap[t] = Abi!NoCall /\ callMap' = callMap /\ phaseMap' = phaseMap
  BY <1>1, IdleIsNoCall, CallsKept, PhasesKept, Zenon
<1> QED BY <1>1, <1>2, Zenon DEF Abi!Refuse, Abi!Free, Abi!Answer, phaseMap, callMap

LEMMA BeginRefines ==
    ASSUME IInv, Matched, NEW t \in Threads, NEW h \in Ids,
           NEW f \in {"start", "network", "fd", "stop", "destroy"},
           Command(t, h, f) \/ Shutdown(t, h, f)
    PROVE  Abi!Begin(t, f, h)
<1>1. /\ pc[t] = "idle" /\ (t \in HostThreads \/ inside[t] # Nobody) /\ inside[t] = Nobody
      /\ h \in registry
      /\ UNCHANGED <<registry, at, starts, running, fd, inside>>
      /\ \E w \in {"wait", "lock"} : Enter(t, h, f, w)
  BY Zenon DEF Command, Shutdown, Calls, MayEnter, cbVars, registryVars, workerVars
<1>2. callMap[t] = Abi!NoCall /\ phaseMap' = phaseMap
  BY <1>1, IdleIsNoCall, PhasesKept, Zenon
<1>3. callMap' = [callMap EXCEPT ![t] = [fn |-> f, handle |-> h]] /\ reply' = Abi!Nothing
  BY <1>1, EnterCall, Zenon
<1> QED BY <1>1, <1>2, <1>3, Zenon DEF Abi!Begin, Abi!Outside, Abi!Free, phaseMap, callMap

LEMMA GivesUpRefines ==
    ASSUME IInv, Matched, NEW t \in Threads, Timeout(t) \/ Disconnected(t) PROVE Abi!Fails(t)
<1>1. /\ pc[t] = "wait" /\ Leave(t, "ERROR")
      /\ UNCHANGED <<registry, at, starts, running, fd, inside>>
  BY Zenon DEF Timeout, Disconnected, cbVars, registryVars, workerVars
<1>2. callMap[t].fn \in {"start", "network", "fd"} /\ phaseMap' = phaseMap
  BY <1>1, PhasesKept, Zenon DEF Matched, CallShape, callMap, Kinds
<1>3. /\ callMap' = [callMap EXCEPT ![t] = Abi!NoCall]
      /\ reply' = [thread |-> t, status |-> "ERROR"]
  BY <1>1, LeaveCall, Zenon
<1> QED BY <1>1, <1>2, <1>3, Zenon DEF Abi!Fails, Abi!Return, Abi!Answer, phaseMap, callMap

\* What the worker does inside its loop shows in running and starts only.
LEMMA LoopPhase ==
    ASSUME NEW h \in Ids, at[h] \in {"loop", "serving", "starting"},
           at'[h] \in {"loop", "serving", "starting"},
           UNCHANGED <<starts, running>>, \A k \in Ids : k # h => at'[k] = at[k]
    PROVE  phaseMap' = phaseMap
<1>1. PhaseOf(h)' = PhaseOf(h)
  BY Zenon DEF PhaseOf
<1>2. \A k \in Ids : k # h => PhaseOf(k)' = PhaseOf(k)
  BY PhaseKept, Zenon
<1> QED BY <1>1, <1>2, Zenon DEF phaseMap

\* A reply ends the call it answers, or reaches nobody.
LEMMA ReplyReturns ==
    ASSUME IInv, Matched, NEW h \in Ids, NEW s, at[h] \in {"serving", "starting"}, Reply(h, s)
    PROVE  \/ callMap' = callMap /\ reply' = Abi!Nothing
           \/ \E t \in Threads :
                /\ callMap[t] = [fn |-> serving[h].cmd, handle |-> h]
                /\ callMap' = [callMap EXCEPT ![t] = Abi!NoCall]
                /\ reply' = [thread |-> t, status |-> s]
<1>1. CASE serving[h].caller = Nobody
  <2>1. reply' = Nothing /\ UNCHANGED callVars
    BY <1>1, Zenon DEF Reply, Silent
  <2> QED BY <2>1, CallsKept, Zenon DEF Nothing, Abi!Nothing
<1>2. CASE serving[h].caller # Nobody
  <2>1. PICK t \in Threads : t = serving[h].caller /\ on[t] = h /\ op[t] = serving[h].cmd
    BY <1>2, Zenon DEF Matched, ServedWaits, Entry
  <2>2. Leave(t, s)
    BY <1>2, <2>1, Zenon DEF Reply
  <2> QED BY <2>1, <2>2, LeaveCall, Zenon DEF callMap
<1> QED BY <1>1, <1>2, Zenon

\* An answer that moves no phase.
LEMMA RefusalRefines ==
    ASSUME IInv, Matched, NEW h \in Ids,
           StartFails(h) \/ StartRefused(h) \/ NetworkChanged(h) \/ SetFdFails(h)
    PROVE  Abi!Next
<1>1. /\ at[h] \in {"serving", "starting"} /\ serving[h].cmd \in {"start", "network", "fd"}
      /\ UNCHANGED <<registry, starts, running, fd, inside>>
      /\ Reply(h, "ERROR") \/ (serving[h].cmd = "network" /\ Reply(h, "OK"))
  BY Zenon DEF StartFails, StartRefused, NetworkChanged, SetFdFails, registryVars, cbVars, Matched,
     ServedWaits
<1>2. phaseMap' = phaseMap
  <2>1. at'[h] = "loop" /\ \A k \in Ids : k # h => at'[k] = at[k]
    BY <1>1, Zenon DEF Reply, IInv, HandleTypes
  <2> QED BY <1>1, <2>1, LoopPhase, Zenon
<1>3. CASE callMap' = callMap /\ reply' = Abi!Nothing
  BY <1>1, <1>2, <1>3, Zenon DEF Abi!Next, Abi!Internal, phaseMap, callMap
<1>4. CASE \E t \in Threads :
             /\ callMap[t] = [fn |-> serving[h].cmd, handle |-> h]
             /\ callMap' = [callMap EXCEPT ![t] = Abi!NoCall]
             /\ \/ reply' = [thread |-> t, status |-> "ERROR"]
                \/ serving[h].cmd = "network" /\ reply' = [thread |-> t, status |-> "OK"]
  <2>1. PICK t \in Threads :
             /\ callMap[t] = [fn |-> serving[h].cmd, handle |-> h]
             /\ callMap' = [callMap EXCEPT ![t] = Abi!NoCall]
             /\ \/ reply' = [thread |-> t, status |-> "ERROR"]
                \/ serving[h].cmd = "network" /\ reply' = [thread |-> t, status |-> "OK"]
    BY <1>4, Zenon
  <2>2. Abi!Fails(t) \/ Abi!NetworkChanged(t)
    BY <1>1, <1>2, <2>1, Zenon DEF Abi!Fails, Abi!NetworkChanged, Abi!Return, Abi!Answer, phaseMap, callMap
  <2> QED BY <2>2, Zenon DEF Abi!Next, Abi!Threads, Threads
<1> QED BY <1>1, <1>3, <1>4, ReplyReturns

LEMMA StartOkRefines ==
    ASSUME IInv, Matched, NEW h \in Ids, StartOk(h) PROVE Abi!Started(h)
<1>1. /\ at[h] = "starting" /\ running' = running \union {h} /\ Reply(h, "OK")
      /\ UNCHANGED <<registry, starts, fd, inside>>
  BY Zenon DEF StartOk, registryVars, cbVars
<1>2. serving[h].cmd = "start" /\ starts[h] > 0 /\ h \notin running
  BY <1>1, Zenon DEF Matched, ServedWaits, PhaseFacts
<1>3. at'[h] = "loop" /\ \A k \in Ids : k # h => at'[k] = at[k]
  BY <1>1, Zenon DEF Reply, IInv, HandleTypes
<1>4. PhaseOf(h) = "starting" /\ PhaseOf(h)' = "running"
  BY <1>1, <1>2, <1>3, Zenon DEF PhaseOf
<1>5. \A k \in Ids : k # h => PhaseOf(k)' = PhaseOf(k)
  BY <1>1, <1>3, PhaseKept, Zenon
<1>6. phaseMap' = [phaseMap EXCEPT ![h] = "running"] /\ phaseMap[h] = "starting"
  BY <1>4, <1>5, PhaseMoves, Zenon DEF phaseMap
<1>7. \/ callMap' = callMap /\ reply' = Abi!Nothing
      \/ \E t \in Threads : /\ callMap[t] = [fn |-> "start", handle |-> h]
                            /\ callMap' = [callMap EXCEPT ![t] = Abi!NoCall]
                            /\ reply' = [thread |-> t, status |-> "OK"]
  BY <1>1, <1>2, ReplyReturns
<1> QED BY <1>1, <1>6, <1>7, Zenon
        DEF Abi!Started, Abi!Return, Abi!Answer, Abi!Threads, Threads, phaseMap, callMap

LEMMA SetFdRefines ==
    ASSUME IInv, Matched, NEW h \in Ids, SetFd(h) PROVE Abi!SetFd(h)
<1>1. /\ at[h] = "serving" /\ serving[h].cmd = "fd" /\ h \notin running /\ Reply(h, "OK")
      /\ UNCHANGED <<registry, starts, running, inside>> /\ fd' = fd \union {h}
  BY Zenon DEF SetFd, registryVars, cbVars
<1>2. phaseMap[h] = "fresh"
  <2>1. ~(starts[h] > 0)
    BY <1>1, Zenon DEF Matched, PhaseFacts
  <2> QED BY <1>1, <2>1, Zenon DEF PhaseOf, phaseMap
<1>3. at'[h] = "loop" /\ \A k \in Ids : k # h => at'[k] = at[k]
  BY <1>1, Zenon DEF Reply, IInv, HandleTypes
<1>4. phaseMap' = phaseMap
  BY <1>1, <1>3, LoopPhase, Zenon
<1>5. \/ callMap' = callMap /\ reply' = Abi!Nothing
      \/ \E t \in Threads : /\ callMap[t] = [fn |-> "fd", handle |-> h]
                            /\ callMap' = [callMap EXCEPT ![t] = Abi!NoCall]
                            /\ reply' = [thread |-> t, status |-> "OK"]
  BY <1>1, ReplyReturns
<1> QED BY <1>1, <1>2, <1>4, <1>5, Zenon
        DEF Abi!SetFd, Abi!Return, Abi!Answer, Abi!Threads, Threads, phaseMap, callMap

LEMMA BeginStartRefines ==
    ASSUME IInv, Matched, NEW h \in Ids, BeginStart(h) PROVE Abi!Starts(h)
<1>1. /\ at[h] = "serving" /\ serving[h].cmd = "start" /\ h \notin lifecycle /\ h \notin stop
      /\ at' = [at EXCEPT ![h] = "starting"] /\ starts' = [starts EXCEPT ![h] = @ + 1]
      /\ UNCHANGED <<registry, running, callVars, fd, inside>> /\ reply' = Abi!Nothing
  BY Zenon DEF BeginStart, StartAllowed, registryVars, cbVars, Silent, Nothing, Abi!Nothing
<1>2. starts[h] = 0 /\ h \notin running
  BY <1>1 DEF IInv, StartRemembered, HandleTypes, Matched, PhaseFacts
<1>3. /\ at'[h] = "starting" /\ starts'[h] = 1
      /\ \A k \in Ids : k # h => at'[k] = at[k] /\ starts'[k] = starts[k]
  BY <1>1, <1>2 DEF IInv, HandleTypes
<1>4. PhaseOf(h) = "fresh" /\ PhaseOf(h)' = "starting"
  BY <1>1, <1>2, <1>3 DEF PhaseOf
<1>5. \A k \in Ids : k # h => PhaseOf(k)' = PhaseOf(k)
  BY <1>1, <1>3, PhaseKept, Zenon
<1>6. phaseMap' = [phaseMap EXCEPT ![h] = "starting"] /\ phaseMap[h] = "fresh"
  BY <1>4, <1>5, PhaseMoves, Zenon DEF phaseMap
<1>7. \E t \in Threads : callMap[t] = [fn |-> "start", handle |-> h]
  <2>1. Entry(h, serving[h])
    BY <1>1, Zenon DEF Matched, ServedWaits
  <2>2. PICK t \in Threads : t = serving[h].caller /\ on[t] = h /\ op[t] = "start"
    BY <1>1, <2>1, Zenon DEF Entry
  <2> QED BY <2>2, Zenon DEF callMap
<1>8. callMap' = callMap
  BY <1>1, CallsKept, Zenon
<1> QED BY <1>1, <1>6, <1>7, <1>8, Zenon DEF Abi!Starts, Abi!Threads, Threads, phaseMap, callMap

LEMMA EndRefines ==
    ASSUME IInv, Matched, NEW h \in Ids, Break(h) \/ WorkerEnds(h) PROVE Abi!Ends(h) \/ Abi!Joins(h)
<1>1. /\ UNCHANGED <<registry, callVars, starts, fd, inside>> /\ reply' = Abi!Nothing
      /\ \A k \in Ids : k # h => at'[k] = at[k] /\ (k \in running' <=> k \in running)
  BY Zenon DEF Break, WorkerEnds, registryVars, cbVars, Silent, Nothing, Abi!Nothing, IInv, HandleTypes
<1>2. callMap' = callMap /\ \A k \in Ids : k # h => PhaseOf(k)' = PhaseOf(k)
  BY <1>1, CallsKept, PhaseKept, Zenon
<1>3. CASE Break(h)
  <2>1. at[h] = "loop" /\ at'[h] = "dropping"
    BY <1>3, Zenon DEF Break, IInv, HandleTypes
  <2>2. PhaseOf(h) \in {"fresh", "starting", "running"} /\ PhaseOf(h)' = "ended"
    BY <2>1, Zenon DEF PhaseOf
  <2>3. phaseMap' = [phaseMap EXCEPT ![h] = "ended"] /\ phaseMap[h] \in {"fresh", "starting", "running"}
    BY <1>2, <2>2, PhaseMoves, Zenon DEF phaseMap
  <2> QED BY <1>1, <1>2, <2>3, Zenon DEF Abi!Ends, phaseMap, callMap
<1>4. CASE WorkerEnds(h)
  <2>1. at[h] = "dropping" /\ at'[h] = "gone" /\ \A t \in Threads : inside[t] # h
    BY <1>4, Zenon DEF WorkerEnds, Quiesced, IInv, HandleTypes
  <2>2. PhaseOf(h) = "ended" /\ PhaseOf(h)' = "joined"
    BY <2>1, Zenon DEF PhaseOf
  <2>3. phaseMap' = [phaseMap EXCEPT ![h] = "joined"] /\ phaseMap[h] = "ended"
    BY <1>2, <2>2, PhaseMoves, Zenon DEF phaseMap
  <2> QED BY <1>1, <1>2, <2>1, <2>3, Zenon DEF Abi!Joins, Abi!Threads, Threads, phaseMap, callMap
<1> QED BY <1>3, <1>4, Zenon

LEMMA CallbackRefines ==
    ASSUME IInv, Matched, NEW t \in Threads, NEW h \in Ids, Callback(t, h) PROVE Abi!Callback(t, h)
<1>1. /\ t \in RuntimeThreads /\ inside[t] = Nobody /\ inside' = [inside EXCEPT ![t] = h]
      /\ UNCHANGED <<registry, callVars, at, starts, running, fd>> /\ reply' = Abi!Nothing
      /\ at[h] \in {"starting", "dropping"} \/ h \in running
  BY Zenon DEF Callback, registryVars, workerVars, Silent, Nothing, Abi!Nothing
<1>2. callMap' = callMap /\ phaseMap' = phaseMap
  BY <1>1, CallsKept, PhasesKept, Zenon
<1>3. CASE at[h] = "starting"
  <2>1. starts[h] > 0 /\ h \notin running
    BY <1>3, Zenon DEF Matched, PhaseFacts
  <2> QED BY <1>1, <1>2, <1>3, <2>1, Zenon DEF Abi!Callback, PhaseOf, phaseMap, callMap
<1>4. CASE at[h] = "dropping"
  BY <1>1, <1>2, <1>4, Zenon DEF Abi!Callback, PhaseOf, phaseMap, callMap
<1>5. CASE h \in running
  <2>1. at[h] \in {"loop", "serving", "starting"}
    BY <1>5, Zenon DEF IInv, RunningInLoop
  <2> QED BY <1>1, <1>2, <1>5, <2>1, Zenon DEF Abi!Callback, PhaseOf, phaseMap, callMap
<1> QED BY <1>1, <1>3, <1>4, <1>5, Zenon

LEMMA CallbackReturnsRefines ==
    ASSUME IInv, Matched, NEW t \in Threads, CallbackReturns(t) PROVE Abi!CallbackReturns(t)
<1>1. /\ pc[t] = "idle" /\ inside[t] # Nobody /\ inside' = [inside EXCEPT ![t] = Nobody]
      /\ UNCHANGED <<registry, callVars, at, starts, running, fd>> /\ reply' = Abi!Nothing
  BY Zenon DEF CallbackReturns, registryVars, workerVars, Silent, Nothing, Abi!Nothing
<1>2. callMap' = callMap /\ phaseMap' = phaseMap /\ callMap[t] = Abi!NoCall
  BY <1>1, CallsKept, PhasesKept, IdleIsNoCall, Zenon
<1> QED BY <1>1, <1>2, Zenon DEF Abi!CallbackReturns, phaseMap, callMap

\* The steps the host cannot see.
LEMMA InternalRefines ==
    ASSUME IInv, Matched,
           \/ \E h \in Ids : Serve(h) \/ PacketsEnd(h)
           \/ \E t \in Threads : \/ Take(t)
                                 \/ (Untaken(t) \/ Joined(t)) /\ op[t] # "stop"
    PROVE  Abi!Internal
<1>1. CASE \E h \in Ids : Serve(h)
  <2>1. PICK h \in Ids : Serve(h)
    BY <1>1, Zenon
  <2>2. /\ UNCHANGED <<registry, callVars, starts, running, fd, inside>> /\ reply' = Abi!Nothing
        /\ at[h] = "loop" /\ at' = [at EXCEPT ![h] = "serving"]
    BY <2>1, Zenon DEF Serve, registryVars, cbVars, Silent, Nothing, Abi!Nothing
  <2>3. at'[h] = "serving" /\ \A k \in Ids : k # h => at'[k] = at[k]
    BY <2>2, Zenon DEF IInv, HandleTypes
  <2>4. callMap' = callMap /\ phaseMap' = phaseMap
    BY <2>2, <2>3, CallsKept, LoopPhase, Zenon
  <2> QED BY <2>2, <2>4, Zenon DEF Abi!Internal, phaseMap, callMap
<1>2. CASE \/ \E h \in Ids : PacketsEnd(h)
           \/ \E t \in Threads : \/ Take(t)
                                 \/ (Untaken(t) \/ Joined(t)) /\ op[t] # "stop"
  <2>1. UNCHANGED <<registry, on, op, at, starts, running, fd, inside>> /\ reply' = Abi!Nothing
    BY <1>2, Zenon DEF PacketsEnd, Take, Untaken, Joined, Finish, registryVars, callVars, workerVars, cbVars, Silent, Nothing, Abi!Nothing
  <2>2. callMap' = callMap /\ phaseMap' = phaseMap
    BY <2>1, PhasesKept, Zenon DEF callMap
  <2> QED BY <2>1, <2>2, Zenon DEF Abi!Internal, phaseMap, callMap
<1> QED BY <1>1, <1>2, Zenon

\* stop and destroy return when the worker is joined.
LEMMA StoppedRefines ==
    ASSUME IInv, Matched, NEW t \in Threads,
           \/ Remove(t)
           \/ (Untaken(t) \/ Joined(t)) /\ op[t] = "stop"
    PROVE  Abi!Stopped(t) \/ Abi!Destroyed(t)
<1>1. /\ UNCHANGED <<at, starts, running, fd, inside>> /\ Leave(t, "OK")
      /\ pc[t] \in {"lock", "join", "remove"}
  BY Zenon DEF Remove, Untaken, Joined, Finish, workerVars, cbVars
<1>2. on[t] \in Ids /\ at[on[t]] = "gone"
  BY <1>1, Zenon DEF Remove, Untaken, Joined, IInv, JoinsUnderLock, Unused
<1>3. callMap[t] = [fn |-> op[t], handle |-> on[t]] /\ phaseMap[on[t]] = "joined"
  BY <1>2, Zenon DEF callMap, phaseMap, PhaseOf
<1>4. /\ callMap' = [callMap EXCEPT ![t] = Abi!NoCall] /\ phaseMap' = phaseMap
      /\ reply' = [thread |-> t, status |-> "OK"]
  BY <1>1, LeaveCall, PhasesKept, Zenon
<1>5. CASE Remove(t)
  <2>1. op[t] = "destroy" /\ registry' = registry \ {on[t]}
    BY <1>5, Zenon DEF Remove, Matched, CallShape
  <2> QED BY <1>1, <1>3, <1>4, <2>1, Zenon DEF Abi!Destroyed, Abi!Return, Abi!Answer, phaseMap, callMap
<1>6. CASE (Untaken(t) \/ Joined(t)) /\ op[t] = "stop"
  <2>1. registry' = registry
    BY <1>6, Zenon DEF Untaken, Joined, registryVars
  <2> QED BY <1>1, <1>3, <1>4, <1>6, <2>1, Zenon DEF Abi!Stopped, Abi!Return, Abi!Answer, phaseMap, callMap
<1> QED BY <1>5, <1>6, Zenon

\* Every step of the library is one the header allows, or one it does not see.
LEMMA StepRefines == IInv /\ Matched /\ [Next]_vars => [Abi!Next]_(Abi!vars)
<1> SUFFICES ASSUME IInv, Matched, [Next]_vars PROVE [Abi!Next]_(Abi!vars)
  BY Zenon
<1>1. CASE \E h \in Ids : Worker(h)
  <2>1. PICK h \in Ids : Worker(h)
    BY <1>1, Zenon
  <2>2. \/ Abi!Internal \/ Abi!Next
        \/ Abi!Starts(h) \/ Abi!Started(h) \/ Abi!SetFd(h) \/ Abi!Ends(h) \/ Abi!Joins(h)
    BY <2>1, InternalRefines, BeginStartRefines, StartOkRefines, RefusalRefines, SetFdRefines,
       EndRefines, Zenon DEF Worker
  <2> QED BY <2>2, Zenon DEF Abi!Next
<1>2. ASSUME NEW t \in Threads, Create(t) \/ CreateFails(t) \/ Timeout(t) \/ CallbackReturns(t)
      PROVE  Abi!Next
  <2>1. Abi!Create(t) \/ Abi!Refuse(t) \/ Abi!Fails(t) \/ Abi!CallbackReturns(t)
    BY <1>2, CreateRefines, CreateFailsRefines, GivesUpRefines, CallbackReturnsRefines, Zenon
  <2> QED BY <2>1, Zenon DEF Abi!Next, Abi!Threads, Threads
<1>3. ASSUME NEW t \in Threads, Proceed(t) PROVE Abi!Next
  <2>1. CASE Take(t)
    BY <2>1, InternalRefines, Zenon DEF Abi!Next
  <2>2. CASE Untaken(t) \/ Joined(t)
    <3>1. CASE op[t] = "stop"
      BY <2>2, <3>1, StoppedRefines, Zenon DEF Abi!Next, Abi!Threads, Threads
    <3>2. CASE op[t] # "stop"
      BY <2>2, <3>2, InternalRefines, Zenon DEF Abi!Next
    <3> QED BY <3>1, <3>2, Zenon
  <2>3. CASE Remove(t)
    BY <2>3, StoppedRefines, Zenon DEF Abi!Next, Abi!Threads, Threads
  <2>4. CASE Disconnected(t)
    BY <2>4, GivesUpRefines, Zenon DEF Abi!Next, Abi!Threads, Threads
  <2> QED BY <1>3, <2>1, <2>2, <2>3, <2>4, Zenon DEF Proceed
<1>4. ASSUME NEW t \in Threads, NEW h \in Ids, Callback(t, h) PROVE Abi!Next
  BY <1>4, CallbackRefines, Zenon DEF Abi!Next, Abi!Threads, Threads
<1>5. ASSUME NEW t \in Threads, NEW h \in Ids, NEW f \in {"start", "network", "fd", "stop", "destroy"},
             Command(t, h, f) \/ Shutdown(t, h, f)
      PROVE  Abi!Next
  BY <1>5, BeginRefines, Zenon DEF Abi!Next, Abi!Threads, Threads
<1>6. CASE \E h \in Ids : PacketsEnd(h)
  BY <1>6, InternalRefines, Zenon DEF Abi!Next
<1>7. CASE UNCHANGED vars
  <2>1. UNCHANGED <<registry, callVars, at, starts, running, fd, inside, reply>>
    BY <1>7, Zenon DEF vars, dataVars, registryVars, workerVars, cbVars
  <2>2. callMap' = callMap /\ phaseMap' = phaseMap
    BY <2>1, CallsKept, PhasesKept, Zenon
  <2> QED BY <2>1, <2>2, Zenon DEF Abi!vars, phaseMap, callMap
<1> QED BY <1>1, <1>2, <1>3, <1>4, <1>5, <1>6, <1>7, Zenon DEF Next, Kinds

\* The handles keep the contract of the header, whatever the numbers of handles,
\* threads and queued commands: worker, queue and join implement MetaAbi.
THEOREM HandlesKeepContract == Spec => KeepsContract
<1>1. Init => Abi!Init
  BY InitRefines, Zenon
<1>2. IInv /\ Matched /\ [Next]_vars => [Abi!Next]_(Abi!vars)
  BY StepRefines, Zenon
<1> QED BY <1>1, <1>2, HandlesMatched, PTL DEF Spec, KeepsContract, Abi!Spec
=============================================================================
