---------------------------- MODULE RouteJournal ----------------------------
(***************************************************************************)
(* Desktop routing (crates/platform/src/desktop.rs): the routes a TUN       *)
(* session adds to the operating system, and the journal that records them  *)
(* before they are added, so that a failed, stopped or interrupted session  *)
(* can take them away again.                                                *)
(*                                                                          *)
(* A session is one process (crates/cli/src/main.rs): it opens, applies the *)
(* desired routes, refreshes when the network changes and restores.  Every  *)
(* call to the file system or to the routing table is a step of its own; it *)
(* may fail, and the process may be killed before or after it.              *)
(***************************************************************************)
EXTENDS Integers, Sequences, FiniteSets, Functions

CONSTANTS
    Prefixes,       \* destination networks
    Adapters,       \* physical interfaces over time: [index, name]
    Tun,            \* the tunnel, [index, name]
    NoExit,         \* no physical interface found
    Networks,       \* what discover may return: [exit, dns, local]
    Split,          \* the split default routes, a sequence of prefixes
    Exclusions,     \* route-exclude-address, a sequence of prefixes
    MaxRoutes,      \* 4096 routes in a journal
    Meddling        \* other programs change the table while a session applies

Specs == [network : Prefixes, interface : Adapters \cup {Tun}]
Route(s) == <<s.network, s.interface.index>>
Routes == {Route(s) : s \in Specs}

ASSUME RouteConstants ==
    /\ MaxRoutes \in Nat /\ Meddling \in BOOLEAN
    /\ Split \in Seq(Prefixes) /\ Exclusions \in Seq(Prefixes)
    /\ NoExit \notin Adapters
    /\ \A a \in Adapters : a.index # Tun.index
    /\ \A n \in Networks : /\ n.exit \in Adapters \cup {NoExit}
                           /\ n.dns \in Seq(Prefixes) /\ n.local \in Seq(Prefixes)

VARIABLES
    os,         \* the routing table
    mine,       \* history: the routes in it that this program added
    up,         \* physical interfaces present
    file,       \* meta-rust-tun-state.json exists
    disk,       \* the routes it holds ({} without a file)
    pc,         \* "down", "apply", "obsolete" (apply's second loop), "idle",
                \* "restore", "exit"
    tries,      \* restores left: main's, then DesktopTun::drop's
    journal,    \* Transaction::journal.routes
    hooks,      \* EgressHooks::network
    desired,    \* what apply was called with; {} in restore
    wanted,     \* history: its routes, but for those others have taken away since
    todo,       \* its entries not yet looked at
    present,    \* the table as apply listed it
    deleted     \* the entry whose route was deleted and that is still journalled

osVars == <<os, mine, up>>
diskVars == <<file, disk>>
vars == <<osVars, diskVars, pc, tries, journal, hooks, desired, wanted, todo, present, deleted>>

Init ==
    /\ os \in SUBSET {r \in Routes : r[2] # Tun.index} /\ mine = {}
    /\ up \in {u \in SUBSET Adapters : \A a, b \in u : a.index = b.index => a = b}
    /\ \A r \in os : \E a \in up : a.index = r[2]
    /\ file = FALSE /\ disk = {}
    /\ pc = "down" /\ tries = 0 /\ journal = {} /\ hooks \in Networks
    /\ desired = {} /\ wanted = {} /\ todo = <<>> /\ present = {} /\ deleted = {}

-----------------------------------------------------------------------------
(* What a session wants                                                    *)

Via(prefixes, interface) ==
    [i \in 1 .. Len(prefixes) |-> [network |-> prefixes[i], interface |-> interface]]

\* DesktopTun::desired_routes with auto_route and capture_dns: the tunnel takes
\* the split defaults and the DNS servers, the physical exit the local networks
\* and the exclusions.  The constants are what the sort and the dedups leave.
DesiredRoutes(n) ==
    Via(Split, Tun) \o Via(n.dns, Tun)
        \o (IF n.exit = NoExit THEN <<>>
            ELSE Via(n.local, n.exit) \o Via(Exclusions, n.exit))

\* discover: an exit that is up
Discovered(n) == n \in Networks /\ n.exit \in up \cup {NoExit}

\* Transaction::apply up to its first entry
BeginApply(n) ==
    /\ hooks' = n
    /\ todo' = DesiredRoutes(n)
    /\ desired' = Range(DesiredRoutes(n)) /\ wanted' = {Route(s) : s \in desired'}
    /\ present' = os
    /\ pc' = "apply"

\* An error ends apply or a restore: the next restore runs.  DesktopTun::drop,
\* the last one, restores only when something is journalled.
Unwind(left, entries) ==
    /\ IF left = 2 \/ (left = 1 /\ entries # {})
       THEN pc' = "restore" /\ tries' = left - 1
       ELSE pc' = "exit" /\ tries' = 0
    /\ desired' = {} /\ wanted' = {} /\ todo' = <<>> /\ present' = {} /\ deleted' = {}

\* Transaction::save: written, synced and renamed; a failure may come after the
\* rename, from the sync of the directory
Save(entries) == file' = TRUE /\ disk' = entries
SaveFails(entries) == UNCHANGED diskVars \/ Save(entries)

-----------------------------------------------------------------------------
(* DesktopTun::open, refresh and Transaction::apply                        *)

\* A session starts only over an empty journal.
Open ==
    /\ pc = "down" /\ disk = {}
    /\ \E n \in Networks : Discovered(n) /\ n.exit # NoExit /\ BeginApply(n)
    /\ tries' = 1 /\ journal' = {} /\ deleted' = {}
    /\ UNCHANGED <<osVars, diskVars>>

\* Mutant of Listed: apply does not look at the table first.
ListedNever(s) == FALSE

Listed(s) == Route(s) \in present

\* The table already has the route: it is neither added nor journalled.
Skip ==
    /\ pc = "apply" /\ todo # <<>> /\ Listed(Head(todo))
    /\ todo' = Tail(todo)
    /\ UNCHANGED <<osVars, diskVars, pc, tries, journal, hooks, desired, wanted, present, deleted>>

Room == Cardinality(journal) < MaxRoutes

\* Mutant of Record: the intent is not flushed before the route is added.
RecordInMemory ==
    /\ pc = "apply" /\ todo # <<>> /\ ~Listed(Head(todo)) /\ Head(todo) \notin journal
    /\ Room
    /\ journal' = journal \cup {Head(todo)}
    /\ UNCHANGED <<osVars, diskVars, pc, tries, hooks, desired, wanted, todo, present, deleted>>

\* The intent reaches the disk before the table changes.
Record ==
    /\ pc = "apply" /\ todo # <<>> /\ ~Listed(Head(todo)) /\ Head(todo) \notin journal
    /\ Room
    /\ journal' = journal \cup {Head(todo)}
    /\ Save(journal')
    /\ UNCHANGED <<osVars, pc, tries, hooks, desired, wanted, todo, present, deleted>>

RecordFails ==
    /\ pc = "apply" /\ todo # <<>> /\ ~Listed(Head(todo)) /\ Head(todo) \notin journal
    /\ \/ ~Room /\ UNCHANGED <<journal, diskVars>>
       \/ Room /\ journal' = journal \cup {Head(todo)} /\ SaveFails(journal')
    /\ Unwind(tries, journal')
    /\ UNCHANGED <<osVars, hooks>>

\* External: the system accepts a route that is new, on an interface it has.
Accepts(s) ==
    /\ Route(s) \notin os
    /\ s.interface = Tun \/ \E a \in up : a.index = s.interface.index

Add ==
    /\ pc = "apply" /\ todo # <<>> /\ ~Listed(Head(todo)) /\ Head(todo) \in journal
    /\ Accepts(Head(todo))
    /\ os' = os \cup {Route(Head(todo))} /\ mine' = mine \cup {Route(Head(todo))}
    /\ todo' = Tail(todo)
    /\ UNCHANGED <<up, diskVars, pc, tries, journal, hooks, desired, wanted, present, deleted>>

AddFails ==
    /\ pc = "apply" /\ todo # <<>> /\ ~Listed(Head(todo)) /\ Head(todo) \in journal
    /\ Unwind(tries, journal)
    /\ UNCHANGED <<osVars, diskVars, journal, hooks>>

AllAdded ==
    /\ pc = "apply" /\ todo = <<>>
    /\ pc' = "obsolete"
    /\ UNCHANGED <<osVars, diskVars, tries, journal, hooks, desired, wanted, todo, present, deleted>>

-----------------------------------------------------------------------------
(* The loops of apply and restore that take routes away                    *)

\* Mutant of Doomed: apply does not spare what it has just been asked for.
DoomedAll == journal

Doomed == IF pc = "obsolete" THEN journal \ desired ELSE journal

\* Transaction::remove
Delete(s) ==
    /\ pc \in {"obsolete", "restore"} /\ deleted = {} /\ s \in Doomed
    /\ os' = os \ {Route(s)} /\ mine' = mine \ {Route(s)}
    /\ deleted' = {s}
    /\ UNCHANGED <<up, diskVars, pc, tries, journal, hooks, desired, wanted, todo, present>>

\* retain and save, once the route is gone
Forget ==
    /\ deleted # {}
    /\ journal' = journal \ deleted /\ Save(journal')
    /\ deleted' = {}
    /\ UNCHANGED <<osVars, pc, tries, hooks, desired, wanted, todo, present>>

\* list or delete fails, or the save after it
RemoveFails ==
    /\ pc \in {"obsolete", "restore"}
    /\ \/ deleted = {} /\ Doomed # {} /\ UNCHANGED <<journal, diskVars>>
       \/ deleted # {} /\ journal' = journal \ deleted /\ SaveFails(journal')
    /\ Unwind(tries, journal')
    /\ UNCHANGED <<osVars, hooks>>

Applied ==
    /\ pc = "obsolete" /\ deleted = {} /\ Doomed = {}
    /\ pc' = "idle" /\ tries' = 2 /\ present' = {}
    /\ UNCHANGED <<osVars, diskVars, journal, hooks, desired, wanted, todo, deleted>>

\* restore ends by removing the file; that may fail, which leaves it empty
Restored ==
    /\ pc = "restore" /\ deleted = {} /\ Doomed = {}
    /\ \/ file' = FALSE /\ disk' = {}
       \/ UNCHANGED diskVars
    /\ pc' = "exit" /\ tries' = 0
    /\ UNCHANGED <<osVars, journal, hooks, desired, wanted, todo, present, deleted>>

-----------------------------------------------------------------------------
(* The session's process, and --recover-tun                                *)

\* Every three seconds: a network other than the one in use is applied.
Refresh ==
    /\ pc = "idle"
    /\ \E n \in Networks : Discovered(n) /\ n # hooks /\ BeginApply(n)
    /\ UNCHANGED <<osVars, diskVars, tries, journal, deleted>>

\* The core does not start (only the drop restores), or it is stopped.
Quit ==
    /\ pc = "idle"
    /\ \E left \in {1, 2} : Unwind(left, journal)
    /\ UNCHANGED <<osVars, diskVars, journal, hooks>>

\* The process ends; the tunnel goes with it, and with the tunnel its routes.
End ==
    /\ os' = {r \in os : r[2] # Tun.index} /\ mine' = {r \in mine : r[2] # Tun.index}
    /\ pc' = "down" /\ tries' = 0 /\ journal' = {}
    /\ desired' = {} /\ wanted' = {} /\ todo' = <<>> /\ present' = {} /\ deleted' = {}
    /\ UNCHANGED <<up, diskVars, hooks>>

Exit == pc = "exit" /\ End
Crash == pc \notin {"down", "exit"} /\ End

\* recover: entries of interfaces that are not there are dropped, the rest restored
Recover ==
    /\ pc = "down"
    /\ pc' = "restore" /\ tries' = 0
    /\ journal' = {s \in disk : s.interface \in up}
    /\ UNCHANGED <<osVars, diskVars, hooks, desired, wanted, todo, present, deleted>>

-----------------------------------------------------------------------------
(* The system and its other users                                          *)

Unplug(a) ==
    /\ a \in up /\ up' = up \ {a}
    /\ os' = {r \in os : r[2] # a.index} /\ mine' = {r \in mine : r[2] # a.index}
    /\ wanted' = {r \in wanted : r[2] # a.index}
    /\ UNCHANGED <<diskVars, pc, tries, journal, hooks, desired, todo, present, deleted>>

\* Assumption: while a session applies, the index of an interface it discovered
\* is not given to another one.
Plug(a) ==
    /\ a \in Adapters /\ \A b \in up : b.index # a.index
    /\ pc = "apply" => \A s \in desired : s.interface.index = a.index => s.interface = a
    /\ up' = up \cup {a}
    /\ UNCHANGED <<os, mine, diskVars, pc, tries, journal, hooks, desired, wanted, todo, present, deleted>>

\* Unless Meddling, others do not race apply and do not add what is journalled.
OthersAdd(r) ==
    /\ r \notin os /\ \E a \in up : a.index = r[2]
    /\ Meddling \/ (pc # "apply" /\ r \notin {Route(s) : s \in journal \cup disk})
    /\ os' = os \cup {r}
    /\ UNCHANGED <<mine, up, diskVars, pc, tries, journal, hooks, desired, wanted, todo, present, deleted>>

OthersRemove(r) ==
    /\ r \in os /\ r[2] # Tun.index
    /\ os' = os \ {r} /\ mine' = mine \ {r} /\ wanted' = wanted \ {r}
    /\ UNCHANGED <<up, diskVars, pc, tries, journal, hooks, desired, todo, present, deleted>>

Others ==
    \/ \E a \in Adapters : Unplug(a) \/ Plug(a)
    \/ \E r \in Routes : OthersAdd(r) \/ OthersRemove(r)

Next ==
    \/ Open \/ Skip \/ Record \/ RecordFails \/ Add \/ AddFails \/ AllAdded
    \/ (\E s \in Specs : Delete(s)) \/ Forget \/ RemoveFails \/ Applied \/ Restored
    \/ Refresh \/ Quit \/ Exit \/ Crash \/ Recover
    \/ Others

Spec == Init /\ [][Next]_vars

-----------------------------------------------------------------------------
\* The type of the routing table, of the journal and of the session.
TypeOK ==
    /\ os \subseteq Routes /\ mine \subseteq os /\ up \subseteq Adapters
    /\ file \in BOOLEAN /\ disk \subseteq Specs
    /\ pc \in {"down", "apply", "obsolete", "idle", "restore", "exit"}
    /\ tries \in 0 .. 2
    /\ journal \subseteq Specs /\ hooks \in Networks /\ desired \subseteq Specs
    /\ todo \in Seq(Specs) /\ present \subseteq Routes /\ deleted \subseteq Specs

\* Every route the program has in the table is in the journal on disk, under an
\* interface that recover will recognise: whatever fails and whenever the
\* process dies, --recover-tun can still take it away.
Recoverable ==
    \A r \in mine : \E s \in disk :
        Route(s) = r /\ (s.interface \in up \/ (s.interface = Tun /\ pc # "down"))

\* apply, restore and recover take away no route that others put there, also
\* not one that a session wanted and found present.
OthersUntouched == [][Others \/ (os \ mine) \subseteq os']_vars

\* A journal that was written is one Transaction::open accepts.
JournalReadable == Cardinality(disk) <= MaxRoutes

\* Once an apply is done, every route it was asked for is in the table, however
\* old the list was by which it skipped some, and whatever it took away of earlier
\* networks; unless somebody else has removed the route since.
RoutesInPlace == pc = "idle" => wanted \subseteq os

\* apply deletes no route that it was asked to have in place.
KeepsDesired ==
    [][pc = "obsolete" /\ pc' = "obsolete" /\ deleted' # deleted =>
          \A s \in deleted' : Route(s) \notin {Route(d) : d \in desired}]_vars
=============================================================================
