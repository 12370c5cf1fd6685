------------------------------- MODULE Groups -------------------------------
(***************************************************************************)
(* Proxy groups of a core (crates/core/src/lib.rs): the selection of every  *)
(* group, changed by the controller and by the rounds of url-test groups,   *)
(* the delays their probes record, and the profile (profile.rs) that keeps  *)
(* the selection across restarts, also when the configuration has changed   *)
(* meanwhile.                                                               *)
(***************************************************************************)
EXTENDS Naturals, Sequences, Functions

CONSTANTS
    Documents,  \* configurations: the order of the groups, their proxies, the
                \* nodes, the url-test groups, and store_selected
    Delays,     \* what a probe may measure
    Tolerance,
    Longest,    \* u64::MAX
    Nothing

ASSUME GroupConstants ==
    /\ Delays \subseteq Nat /\ Tolerance \in Nat /\ Longest \in Nat
    /\ \A d \in Delays : d + Tolerance < Longest
    /\ \A c \in Documents : /\ c.order \in Seq(DOMAIN c.proxies) /\ Range(c.order) = DOMAIN c.proxies
                           /\ c.tests \subseteq DOMAIN c.proxies
                           /\ \A g \in DOMAIN c.proxies : c.proxies[g] \in Seq(STRING)

Savers == {"timer", "select"}
Idle == [at |-> "idle", file |-> <<>>]

VARIABLES
    conf, running,
    selection,  \* policy.selection
    delay,      \* policy.delay, of the names a url-test group has
    stored,     \* the selection in the profile on disk
    saves,      \* where a caller of save_profile is, and what it is to write
    round       \* of a url-test group: the next target and the best so far

groupVars == <<conf, running, selection, delay, stored, saves, round>>

-----------------------------------------------------------------------------
(* Config::validate                                                         *)

Members(c, g) == IF g \in DOMAIN c.proxies THEN Range(c.proxies[g]) ELSE {}
Names(c) == {"DIRECT", "REJECT"} \union c.nodes \union DOMAIN c.proxies

\* visit: the names below a group
Below(c, g) ==
    LET level[n \in 0..Len(c.order)] ==
            IF n = 0 THEN Members(c, g)
            ELSE level[n - 1] \union UNION {Members(c, x) : x \in level[n - 1]}
    IN  level[Len(c.order)]
Valid(c) ==
    \A g \in DOMAIN c.proxies :
        c.proxies[g] # <<>> /\ Below(c, g) \subseteq Names(c) /\ g \notin Below(c, g)

-----------------------------------------------------------------------------
(* Core::new and load_profile                                               *)

RestoredUnchecked(c, g) == c.store /\ g \in DOMAIN stored
Restored(c, g) == c.store /\ g \in DOMAIN stored /\ stored[g] \in Members(c, g)

StartCore(c) ==
    /\ ~running /\ Valid(c)
    /\ running' = TRUE /\ conf' = c
    /\ selection' = [g \in DOMAIN c.proxies |-> IF Restored(c, g) THEN stored[g] ELSE c.proxies[g][1]]
    /\ delay' = [x \in UNION {Members(c, g) : g \in c.tests} |-> Longest]
    /\ round' = [g \in c.tests |-> Nothing]
    /\ UNCHANGED <<stored, saves>>

\* the process ends; a save that has not renamed its file is lost
Halts ==
    /\ running /\ running' = FALSE /\ saves' = [s \in Savers |-> Idle]
    /\ selection' = <<>> /\ delay' = <<>> /\ round' = <<>>
    /\ UNCHANGED <<conf, stored>>

GroupInit ==
    /\ conf = (CHOOSE c \in Documents : TRUE) /\ running = FALSE
    /\ selection = <<>> /\ delay = <<>> /\ round = <<>>
    /\ stored = <<>> /\ saves = [s \in Savers |-> Idle]

-----------------------------------------------------------------------------
(* leaf: at most one hop more than there are groups                         *)

First == IF conf.order # <<>> THEN conf.order[1]
         ELSE IF conf.nodes # {} THEN CHOOSE n \in conf.nodes : TRUE ELSE "DIRECT"
Hops(name) ==
    LET at[n \in 0..Len(conf.order)] ==
            IF n = 0 THEN IF name = "GLOBAL" THEN First ELSE name
            ELSE IF at[n - 1] \in DOMAIN selection THEN selection[at[n - 1]] ELSE at[n - 1]
    IN  at
Leaf(name) == Hops(name)[Len(conf.order)]

-----------------------------------------------------------------------------
(* select and save_profile                                                  *)

Select(g, n) ==
    /\ running /\ saves["select"] = Idle
    /\ n \in Members(conf, g)
    /\ selection' = [selection EXCEPT ![g] = n]
    /\ saves' = [saves EXCEPT !["select"].at = "due"]
    /\ UNCHANGED <<conf, running, delay, stored, round>>

\* the snapshot; the timer begins one at any time, a selection saves itself
Export(s) ==
    /\ running /\ saves[s].at = IF s = "select" THEN "due" ELSE "idle"
    /\ saves' = [saves EXCEPT ![s] = [at |-> "write", file |-> IF conf.store THEN selection ELSE <<>>]]
    /\ UNCHANGED <<conf, running, selection, delay, stored, round>>

\* atomic_write
Rename(s) ==
    /\ saves[s].at = "write" /\ stored' = saves[s].file
    /\ saves' = [saves EXCEPT ![s] = Idle]
    /\ UNCHANGED <<conf, running, selection, delay, round>>
RenameFails(s) ==
    /\ saves[s].at = "write" /\ saves' = [saves EXCEPT ![s] = Idle]
    /\ UNCHANGED <<conf, running, selection, delay, stored, round>>

-----------------------------------------------------------------------------
(* probe, and the task of a url-test group                                  *)

Record(name, d) == name # "REJECT" /\ delay' = [delay EXCEPT ![name] = d]

\* the controller asks for the delay of a name
ProbeNow(name, d) ==
    /\ running /\ Record(name, d)
    /\ UNCHANGED <<conf, running, selection, stored, saves, round>>

RoundBegins(g) ==
    /\ running /\ round[g] = Nothing
    /\ round' = [round EXCEPT ![g] = [at |-> 1, best |-> Nothing, fastest |-> Longest]]
    /\ UNCHANGED <<conf, running, selection, delay, stored, saves>>

Probing(g) == running /\ round[g] # Nothing /\ round[g].at <= Len(conf.proxies[g])
ProbeAnswers(g, d) ==
    /\ Probing(g)
    /\ LET r == round[g]
           target == conf.proxies[g][r.at]
       IN  /\ Record(target, d)
           /\ round' = [round EXCEPT ![g] =
                IF d < r.fastest THEN [at |-> r.at + 1, best |-> target, fastest |-> d]
                                 ELSE [r EXCEPT !.at = @ + 1]]
    /\ UNCHANGED <<conf, running, selection, stored, saves>>

\* the delay of an earlier round stays
ProbeFails(g) ==
    /\ Probing(g) /\ round' = [round EXCEPT ![g].at = @ + 1]
    /\ UNCHANGED <<conf, running, selection, delay, stored, saves>>

BeatsKnown(d, old) == old # Longest /\ d + Tolerance < old
Beats(d, old) == d + Tolerance < old
Decides(g) ==
    /\ running /\ round[g] # Nothing /\ round[g].at > Len(conf.proxies[g])
    /\ round' = [round EXCEPT ![g] = Nothing]
    /\ selection' = IF round[g].best # Nothing /\ Beats(round[g].fastest, delay[selection[g]])
                      THEN [selection EXCEPT ![g] = round[g].best] ELSE selection
    /\ UNCHANGED <<conf, running, delay, stored, saves>>

-----------------------------------------------------------------------------
Rounds(g) ==
    \/ RoundBegins(g) \/ ProbeFails(g) \/ Decides(g)
    \/ \E d \in Delays : ProbeAnswers(g, d)
GroupNext ==
    \/ \E c \in Documents : StartCore(c)
    \/ Halts
    \/ \E g \in DOMAIN selection : \E n \in Members(conf, g) : Select(g, n)
    \/ \E s \in Savers : Export(s) \/ Rename(s) \/ RenameFails(s)
    \/ \E n \in DOMAIN delay, d \in Delays : ProbeNow(n, d)
    \/ \E g \in DOMAIN round : Rounds(g)

GroupSpec == GroupInit /\ [][GroupNext]_groupVars

-----------------------------------------------------------------------------
\* Every group, and GLOBAL, leads to a node of the configuration in force: no
\* selection restored from a profile that another configuration wrote makes leaf
\* report a cycle or name a node that is gone.
LeafResolves ==
    running => \A g \in DOMAIN conf.proxies \union {"GLOBAL"} :
                  Leaf(g) \in Names(conf) \ DOMAIN conf.proxies

\* A url-test group never stays with a node that has not answered since the core
\* started, once a round has found one that does, whatever is selected or probed
\* during the round.
LeavesSilentNode ==
    [][\A g \in DOMAIN round : Decides(g) /\ round[g].best # Nothing =>
          delay[selection'[g]] # Longest]_groupVars
=============================================================================
