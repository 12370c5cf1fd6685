-------------------------------- MODULE MCFfi --------------------------------
(* Handles and the packet queues of one handle, in one run: they share no      *)
(* variable, so either part is explored on its own.  Two host threads, a and   *)
(* b, and one runtime thread, r.                                               *)
EXTENDS FfiHandle, HostPackets

CONSTANTS a, b, r

VARIABLE part
allVars == <<part, vars, packetVars>>

InitEither ==
    /\ part \in {"handles", "packets"} /\ Init /\ PacketInit
    /\ part = "handles" => enabled
NextEither ==
    /\ UNCHANGED part
    /\ \/ part = "handles" /\ Next /\ UNCHANGED packetVars
       \/ part = "packets" /\ PacketNext /\ UNCHANGED vars

\* No fair action is enabled in the initial state of the part that rests.
SpecEither == InitEither /\ [][NextEither]_allVars /\ Fairness /\ PacketFairness
=============================================================================
