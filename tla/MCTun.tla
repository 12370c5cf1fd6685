-------------------------------- MODULE MCTun --------------------------------
(* The three parts of the packet adapter in one run: TCP flows, UDP flows and  *)
(* reassembly.  They share no variable, so each is explored on its own.        *)
EXTENDS TunTcp, TunUdp, Reassembly

\* two connections of one flow with an upload, and one with enough data to
\* fill the channels and the buffers
MCLoads == {[last |-> 2, up |-> 1, down |-> 0], [last |-> 1, up |-> 2, down |-> 2]}

\* a packet of 7 bytes in chunks of 2; an empty fragment, one whose length is no
\* multiple of the unit, one that is too long, one with other headers, a whole one
MCCuts == {<<7, 2>>}
Frag(s, e, m, h) == [start |-> s, end |-> e, more |-> m, shape |-> h]
MCStrange == {Frag(2, 2, TRUE, 1), Frag(0, 3, TRUE, 1), Frag(6, 9, FALSE, 1),
              Frag(2, 4, TRUE, 2), Frag(0, 4, FALSE, 1)}

VARIABLE part
allVars == <<part, vars, udpVars, fragVars>>

InitAny ==
    /\ part \in {"tcp", "udp", "fragments"} /\ Init /\ UdpInit /\ FragInit
    /\ part # "tcp" => load = CHOOSE l \in Loads : TRUE
NextAny ==
    /\ UNCHANGED part
    /\ \/ part = "tcp" /\ Next /\ UNCHANGED <<udpVars, fragVars>>
       \/ part = "udp" /\ UdpNext /\ UNCHANGED <<vars, fragVars>>
       \/ part = "fragments" /\ FragNext /\ UNCHANGED <<vars, udpVars>>

\* Only Tick is enabled in the initial state of a part that rests.
SpecAny ==
    /\ InitAny /\ [][NextAny]_allVars
    /\ WF_vars(part = "tcp" /\ Tick) /\ Fairness /\ UdpFairness

\* A new connection or session of a flow suffers for the result of an older one
\* only if that one was complete when it was told to abort.
StrayNeedsRace == StrayAbortNeedsRace /\ StrayRemovalNeedsRace
=============================================================================
