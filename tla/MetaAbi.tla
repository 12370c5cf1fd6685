------------------------------- MODULE MetaAbi -------------------------------
(***************************************************************************)
(* The contract of the C ABI as its header states it                        *)
(* (crates/ffi/include/meta_rust.h): which calls a host may make from       *)
(* where, with which status they return, and when its callbacks run.  There *)
(* is no worker, queue or lock here: module FfiHandle shows how the library *)
(* keeps this contract.                                                     *)
(***************************************************************************)
CONSTANTS
    Handles,        \* the values of meta_handle
    HostThreads,    \* threads of the host
    RuntimeThreads, \* worker threads of the library, which run callbacks
    Nobody          \* no thread, no handle

VARIABLES
    valid,          \* the handles a call accepts
    phase,          \* how far the runtime of a handle is
    fd,             \* the handles whose packets use a TUN descriptor
    inside,         \* the handle whose callback a thread runs
    call,           \* the call a thread is in
    reply           \* the call that returns in this step, and its status

vars == <<valid, phase, fd, inside, call, reply>>

Threads == HostThreads \union RuntimeThreads

NoCall == [fn |-> "none", handle |-> Nobody]
Nothing == [thread |-> Nobody, status |-> "none"]

Init ==
    /\ valid = {} /\ fd = {}
    /\ phase = [h \in Handles |-> "none"]
    /\ inside = [t \in Threads |-> Nobody]
    /\ call = [t \in Threads |-> NoCall]
    /\ reply = Nothing

-----------------------------------------------------------------------------
\* the host's own code runs on this thread, in a callback or not
Free(t) == call[t] = NoCall /\ (t \in HostThreads \/ inside[t] # Nobody)

\* a lifecycle call is accepted outside callbacks only
Outside(t) == Free(t) /\ inside[t] = Nobody

Answer(t, s) == reply' = [thread |-> t, status |-> s]

\* ERROR at once, and nothing else happens
Refuse(t) ==
    /\ Free(t) /\ Answer(t, "ERROR")
    /\ UNCHANGED <<valid, phase, fd, inside, call>>

\* a handle that was valid before never becomes valid again
NeverValid(h) == phase[h] = "none"

Create(t) ==
    /\ Outside(t)
    /\ \E h \in Handles :
         /\ NeverValid(h)
         /\ valid' = valid \union {h} /\ phase' = [phase EXCEPT ![h] = "fresh"]
    /\ Answer(t, "OK")
    /\ UNCHANGED <<fd, inside, call>>

Begin(t, f, h) ==
    /\ Outside(t) /\ h \in valid
    /\ call' = [call EXCEPT ![t] = [fn |-> f, handle |-> h]]
    /\ reply' = Nothing
    /\ UNCHANGED <<valid, phase, fd, inside>>

Return(t, s) == call' = [call EXCEPT ![t] = NoCall] /\ Answer(t, s)

\* start is allowed once, and nothing starts that no thread asked for
Starts(h) ==
    /\ phase[h] = "fresh"
    /\ \E t \in Threads : call[t] = [fn |-> "start", handle |-> h]
    /\ phase' = [phase EXCEPT ![h] = "starting"]
    /\ reply' = Nothing
    /\ UNCHANGED <<valid, fd, inside, call>>

\* the start succeeds; the caller may have given up
Started(h) ==
    /\ phase[h] = "starting" /\ phase' = [phase EXCEPT ![h] = "running"]
    /\ \/ \E t \in Threads : call[t] = [fn |-> "start", handle |-> h] /\ Return(t, "OK")
       \/ reply' = Nothing /\ UNCHANGED call
    /\ UNCHANGED <<valid, fd, inside>>

\* a descriptor is set before start
SetFd(h) ==
    /\ phase[h] = "fresh" /\ fd' = fd \union {h}
    /\ \/ \E t \in Threads : call[t] = [fn |-> "fd", handle |-> h] /\ Return(t, "OK")
       \/ reply' = Nothing /\ UNCHANGED call
    /\ UNCHANGED <<valid, phase, inside>>

NetworkChanged(t) ==
    /\ call[t].fn = "network" /\ Return(t, "OK")
    /\ UNCHANGED <<valid, phase, fd, inside>>

\* refused later on, timed out, or the core stopped meanwhile
Fails(t) ==
    /\ call[t].fn \in {"start", "network", "fd"} /\ Return(t, "ERROR")
    /\ UNCHANGED <<valid, phase, fd, inside>>

\* stop and destroy join the worker and all callbacks, and do not fail
Stopped(t) ==
    /\ call[t].fn = "stop" /\ phase[call[t].handle] = "joined" /\ Return(t, "OK")
    /\ UNCHANGED <<valid, phase, fd, inside>>

Destroyed(t) ==
    /\ call[t].fn = "destroy" /\ phase[call[t].handle] = "joined" /\ Return(t, "OK")
    /\ valid' = valid \ {call[t].handle}
    /\ UNCHANGED <<phase, fd, inside>>

-----------------------------------------------------------------------------
\* the core ends: it was stopped, or it failed
Ends(h) ==
    /\ phase[h] \in {"fresh", "starting", "running"}
    /\ phase' = [phase EXCEPT ![h] = "ended"]
    /\ reply' = Nothing
    /\ UNCHANGED <<valid, fd, inside, call>>

Joins(h) ==
    /\ phase[h] = "ended" /\ \A t \in Threads : inside[t] # h
    /\ phase' = [phase EXCEPT ![h] = "joined"]
    /\ reply' = Nothing
    /\ UNCHANGED <<valid, fd, inside, call>>

\* protect_socket or packet_ready, on a worker thread of a runtime that is there
Callback(t, h) ==
    /\ t \in RuntimeThreads /\ inside[t] = Nobody
    /\ phase[h] \in {"starting", "running", "ended"}
    /\ inside' = [inside EXCEPT ![t] = h]
    /\ reply' = Nothing
    /\ UNCHANGED <<valid, phase, fd, call>>

CallbackReturns(t) ==
    /\ inside[t] # Nobody /\ call[t] = NoCall
    /\ inside' = [inside EXCEPT ![t] = Nobody]
    /\ reply' = Nothing
    /\ UNCHANGED <<valid, phase, fd, call>>

\* a step the host cannot see
Internal == reply' = Nothing /\ UNCHANGED <<valid, phase, fd, inside, call>>

Next ==
    \/ Internal
    \/ \E h \in Handles : Starts(h) \/ Started(h) \/ SetFd(h) \/ Ends(h) \/ Joins(h)
    \/ \E t \in Threads :
         \/ Refuse(t) \/ Create(t) \/ NetworkChanged(t) \/ Fails(t)
         \/ Stopped(t) \/ Destroyed(t) \/ CallbackReturns(t)
         \/ \E h \in Handles :
              \/ Callback(t, h)
              \/ \E f \in {"start", "network", "fd", "stop", "destroy"} : Begin(t, f, h)

Spec == Init /\ [][Next]_vars
=============================================================================
