------------------------------ MODULE MCXudpMux ------------------------------
(* Two flows that share an ID space of two on one multiplexer, and three calls  *)
(* for the multiplexers of two nodes; each is explored on its own.              *)
EXTENDS XudpMux, XudpPool

VARIABLE part
allVars == <<part, vars, muxVars>>

InitAny == part \in {"mux", "pool"} /\ Init /\ XudpInit
NextAny ==
    /\ UNCHANGED part
    /\ \/ part = "mux" /\ Next /\ UNCHANGED muxVars
       \/ part = "pool" /\ XudpNext /\ UNCHANGED vars

\* No fair action is enabled in the initial state of a part that rests.
SpecAny == InitAny /\ [][NextAny]_allVars /\ Fairness
=============================================================================
