------------------------------ MODULE MCRouting ------------------------------
(* The routing policy and the proxy groups in one run.  They share no variable, *)
(* so each is explored on its own.                                              *)
EXTENDS MCPolicy, Groups

\* Groups that are nested one way in one document and the other way in the next,
\* so that a profile of the first would make a cycle in the second; a document
\* with a cycle, which is refused; one that has lost a node and restores nothing.
Document(a, b, nodes, store) ==
    [order |-> <<"a", "b">>, proxies |-> [a |-> a, b |-> b], nodes |-> nodes,
     tests |-> {"b"}, store |-> store]
MCDocuments ==
    {Document(<<"b", "x">>, <<"x", "y">>, {"x", "y"}, TRUE),
     Document(<<"x">>, <<"a", "y">>, {"x", "y"}, TRUE),
     Document(<<"b", "x">>, <<"a", "y">>, {"x", "y"}, TRUE),
     Document(<<"y">>, <<"y", "REJECT">>, {"y"}, FALSE)}

VARIABLE part
allVars == <<part, vars, groupVars>>

InitAny ==
    /\ part \in {"policy", "groups"} /\ Init /\ GroupInit
    /\ part = "groups" => raw = {} /\ file = [a \in Assets |-> Missing]
NextAny ==
    /\ UNCHANGED part
    /\ \/ part = "policy" /\ Next /\ UNCHANGED groupVars
       \/ part = "groups" /\ GroupNext /\ UNCHANGED vars
SpecAny == InitAny /\ [][NextAny]_allVars
=============================================================================
