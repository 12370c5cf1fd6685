------------------------ MODULE RouteJournal_proofs -------------------------
(***************************************************************************)
(* The journal discipline, for any prefixes, interfaces (also ones that     *)
(* share an index over time), networks, configuration and journal limit.    *)
(***************************************************************************)
EXTENDS RouteJournal, FiniteSetTheorems, TLAPS

\* Entries that take away all the program's routes, as recover would read them.
Covers(entries, tunnel) ==
    \A r \in mine : \E s \in entries :
        Route(s) = r /\ (s.interface \in up \/ (s.interface = Tun /\ tunnel))

UniqueIndex == \A a, b \in up : a.index = b.index => a = b

\* The journal in memory covers the routes for as long as there is a process;
\* until a restore begins it is the one on disk.
InMemory ==
    /\ pc # "down" => Covers(journal, TRUE)
    /\ pc \in {"apply", "obsolete", "idle"} => journal = disk
    /\ pc = "down" => Covers(disk, FALSE)

\* A deleted route is gone until its entry is.
DeletedGone ==
    /\ \A s \in deleted : Route(s) \notin mine
    /\ pc \notin {"obsolete", "restore"} => deleted = {}

\* What apply adds by index lands on the interface it names.
StableIndex ==
    pc = "apply" =>
        /\ \A i \in 1 .. Len(todo) : todo[i] \in desired
        /\ \A s \in desired : \/ s.interface = Tun
                              \/ \A b \in up : b.index = s.interface.index => b = s.interface

Bounded ==
    /\ IsFiniteSet(journal) /\ Cardinality(journal) <= MaxRoutes
    /\ IsFiniteSet(disk) /\ Cardinality(disk) <= MaxRoutes

IInv ==
    /\ TypeOK /\ UniqueIndex /\ Recoverable /\ InMemory
    /\ DeletedGone /\ StableIndex /\ Bounded

-----------------------------------------------------------------------------
\* A sequence of prefixes sent over one interface.
LEMMA ViaType ==
    ASSUME NEW p \in Seq(Prefixes), NEW a \in Adapters \cup {Tun}
    PROVE  /\ Via(p, a) \in Seq(Specs) /\ Len(Via(p, a)) = Len(p)
           /\ \A i \in 1 .. Len(p) : Via(p, a)[i].interface = a
<1>1. \A i \in 1 .. Len(p) : p[i] \in Prefixes
  OBVIOUS
<1> QED BY <1>1 DEF Via, Specs

\* Two such sequences, one after the other.
LEMMA ConcatInterfaces ==
    ASSUME NEW x \in Seq(Specs), NEW y \in Seq(Specs), NEW I,
           \A i \in 1 .. Len(x) : x[i].interface \in I,
           \A i \in 1 .. Len(y) : y[i].interface \in I
    PROVE  /\ x \o y \in Seq(Specs)
           /\ \A i \in 1 .. Len(x \o y) : (x \o y)[i].interface \in I
<1>1. Len(x) \in Nat /\ Len(y) \in Nat /\ Len(x \o y) = Len(x) + Len(y) /\ x \o y \in Seq(Specs)
  OBVIOUS
<1>2. ASSUME NEW i \in 1 .. Len(x \o y) PROVE (x \o y)[i].interface \in I
  <2>1. CASE i <= Len(x)
    <3>1. (x \o y)[i] = x[i] /\ i \in 1 .. Len(x)
      BY <1>1, <2>1
    <3> QED BY <3>1, Zenon
  <2>2. CASE i > Len(x)
    <3>1. (x \o y)[i] = y[i - Len(x)] /\ i - Len(x) \in 1 .. Len(y)
      BY <1>1, <2>2
    <3> QED BY <3>1, Zenon
  <2> QED BY <1>1, <2>1, <2>2
<1> QED BY <1>1, <1>2, Zenon

\* desired_routes names the tunnel or the discovered exit, and nothing else.
LEMMA DesiredType ==
    ASSUME NEW n \in Networks
    PROVE  /\ DesiredRoutes(n) \in Seq(Specs)
           /\ Range(DesiredRoutes(n)) \subseteq Specs
           /\ \A i \in 1 .. Len(DesiredRoutes(n)) :
                 DesiredRoutes(n)[i] \in Range(DesiredRoutes(n))
           /\ \A s \in Range(DesiredRoutes(n)) : s.interface \in {Tun, n.exit}
<1> DEFINE I == {Tun, n.exit}
           From(x) == x \in Seq(Specs) /\ \A i \in 1 .. Len(x) : x[i].interface \in I
           a == Via(Split, Tun)
           b == Via(n.dns, Tun)
           d == Via(n.local, n.exit)
           e == Via(Exclusions, n.exit)
           c == IF n.exit = NoExit THEN <<>> ELSE d \o e
<1>1. From(a) /\ From(b)
  BY RouteConstants, ViaType, Zenon
<1>2. n.exit # NoExit => From(d) /\ From(e)
  BY RouteConstants, ViaType, Zenon
<1>3. DesiredRoutes(n) = (a \o b) \o c
  BY Zenon DEF DesiredRoutes
<1> HIDE DEF a, b, d, e, I
<1>4. \A x, y : From(x) /\ From(y) => From(x \o y)
  BY ConcatInterfaces, Zenon
<1>5. From(c)
  <2>1. CASE n.exit = NoExit
    BY <2>1
  <2>2. CASE n.exit # NoExit
    BY <1>2, <1>4, <2>2, Zenon
  <2> QED BY <2>1, <2>2, Zenon
<1> HIDE DEF From, c
<1>6. From(DesiredRoutes(n))
  BY <1>1, <1>3, <1>4, <1>5, Zenon
<1>7. /\ DOMAIN DesiredRoutes(n) = 1 .. Len(DesiredRoutes(n))
      /\ \A i \in 1 .. Len(DesiredRoutes(n)) : DesiredRoutes(n)[i] \in Specs
  BY <1>6 DEF From
<1> QED BY <1>6, <1>7, Zenon DEF Range, From, I

LEMMA InitIInv == Init => IInv
<1> SUFFICES ASSUME Init PROVE IInv
  BY Zenon
<1>1. TypeOK
  <2>1. os \subseteq Routes /\ up \subseteq Adapters /\ file \in BOOLEAN
    BY Zenon DEF Init
  <2> QED BY <2>1 DEF Init, TypeOK
<1>2. Bounded
  BY FS_EmptySet, RouteConstants DEF Init, Bounded
<1> QED BY <1>1, <1>2, Zenon DEF Init, IInv, UniqueIndex, Recoverable, InMemory, Covers,
                          DeletedGone, StableIndex

\* Where an error leads: to a restore or to the end, with nothing left to add.
LEMMA UnwindFacts ==
    ASSUME NEW left \in 0 .. 2, NEW entries, Unwind(left, entries)
    PROVE  /\ pc' \in {"restore", "exit"} /\ tries' \in 0 .. 2
           /\ desired' = {} /\ todo' = <<>> /\ present' = {} /\ deleted' = {}
BY DEF Unwind

\* Steps that only move on to a restore or to the end keep the invariant, as long
\* as the journals still cover what is in the table.
LEMMA UnwoundIInv ==
    ASSUME IInv, UNCHANGED <<os, mine, up, hooks>>,
           NEW left \in 0 .. 2, NEW entries, Unwind(left, entries), pc # "down",
           file' \in BOOLEAN, disk' \subseteq Specs, journal' \subseteq Specs,
           Covers(journal', TRUE), Covers(disk', TRUE),
           IsFiniteSet(journal'), Cardinality(journal') <= MaxRoutes,
           IsFiniteSet(disk'), Cardinality(disk') <= MaxRoutes
    PROVE  IInv'
<1>1. /\ pc' \in {"restore", "exit"} /\ tries' \in 0 .. 2
      /\ desired' = {} /\ todo' = <<>> /\ present' = {} /\ deleted' = {}
  BY UnwindFacts, Zenon
<1>2. TypeOK'
  BY <1>1 DEF IInv, TypeOK
<1>3. Recoverable' /\ InMemory'
  BY <1>1, Zenon DEF Covers, Recoverable, InMemory
<1> QED BY <1>1, <1>2, <1>3, Zenon DEF IInv, UniqueIndex, DeletedGone, StableIndex, Bounded

LEMMA OpenIInv == ASSUME IInv, Open PROVE IInv'
<1>1. PICK n \in Networks : Discovered(n) /\ n.exit # NoExit /\ BeginApply(n)
  BY Zenon DEF Open
<1>2. /\ desired' \subseteq Specs /\ todo' \in Seq(Specs) /\ hooks' \in Networks
      /\ pc' = "apply" /\ present' \subseteq Routes
      /\ \A i \in 1 .. Len(todo') : todo'[i] \in desired'
      /\ \A s \in desired' : s.interface \in {Tun, n.exit}
  BY <1>1, DesiredType, Zenon DEF BeginApply, IInv, TypeOK
<1>3. n.exit \in up
  BY <1>1, Zenon DEF Discovered
<1>4. mine = {}
  BY Zenon DEF Open, IInv, Recoverable
<1> QED BY <1>2, <1>3, <1>4, FS_EmptySet
    DEF Open, IInv, TypeOK, UniqueIndex, Recoverable, InMemory, Covers, DeletedGone,
        StableIndex, Bounded, osVars, diskVars

LEMMA RefreshIInv == ASSUME IInv, Refresh PROVE IInv'
<1>1. PICK n \in Networks : Discovered(n) /\ BeginApply(n)
  BY Zenon DEF Refresh
<1>2. /\ desired' \subseteq Specs /\ todo' \in Seq(Specs) /\ hooks' \in Networks
      /\ pc' = "apply" /\ present' \subseteq Routes
      /\ \A i \in 1 .. Len(todo') : todo'[i] \in desired'
      /\ \A s \in desired' : s.interface \in {Tun, n.exit}
  BY <1>1, DesiredType, Zenon DEF BeginApply, IInv, TypeOK
<1>3. n.exit \in up \/ \A s \in desired' : s.interface = Tun
  <2>1. CASE n.exit # NoExit
    BY <1>1, <2>1, Zenon DEF Discovered
  <2>2. CASE n.exit = NoExit
    BY <1>1, <1>2, <2>2, RouteConstants, Zenon DEF Specs
  <2> QED BY <2>1, <2>2, Zenon
<1> QED BY <1>2, <1>3
    DEF Refresh, IInv, TypeOK, UniqueIndex, Recoverable, InMemory, Covers, DeletedGone,
        StableIndex, Bounded, osVars, diskVars

-----------------------------------------------------------------------------
(* One lemma per step of apply                                             *)

\* The entry apply looks at.
LEMMA HeadFacts ==
    ASSUME IInv, pc = "apply", todo # <<>>
    PROVE  /\ Head(todo) \in Specs /\ Head(todo) \in desired
           /\ Tail(todo) \in Seq(Specs)
           /\ \A i \in 1 .. Len(Tail(todo)) : Tail(todo)[i] \in desired
<1>1. todo \in Seq(Specs) /\ \A i \in 1 .. Len(todo) : todo[i] \in desired
  BY DEF IInv, TypeOK, StableIndex
<1>2. Len(todo) \in Nat /\ Len(todo) # 0 /\ Len(Tail(todo)) = Len(todo) - 1
  BY <1>1
<1>3. \A i \in 1 .. Len(Tail(todo)) : i + 1 \in 1 .. Len(todo) /\ Tail(todo)[i] = todo[i + 1]
  BY <1>1, <1>2
<1> QED BY <1>1, <1>2, <1>3

LEMMA SkipIInv == ASSUME IInv, Skip PROVE IInv'
<1>1. /\ UNCHANGED <<os, mine, up, file, disk, pc, tries, journal, hooks, desired, present, deleted>>
      /\ todo' \in Seq(Specs) /\ \A i \in 1 .. Len(todo') : todo'[i] \in desired
  BY HeadFacts, Zenon DEF Skip, osVars, diskVars
<1>2. TypeOK'
  BY <1>1, Zenon DEF IInv, TypeOK
<1> QED BY <1>1, <1>2 DEF IInv, UniqueIndex, Recoverable, InMemory, Covers, DeletedGone,
                          StableIndex, Bounded

\* A journal with one entry more, within the limit.
LEMMA RoomFacts ==
    ASSUME IInv, Room, NEW s
    PROVE  IsFiniteSet(journal \cup {s}) /\ Cardinality(journal \cup {s}) <= MaxRoutes
<1>1. IsFiniteSet(journal) /\ Cardinality(journal) \in Nat /\ Cardinality(journal) < MaxRoutes
  BY FS_CardinalityType, Zenon DEF IInv, Bounded, Room
<1>2. /\ IsFiniteSet(journal \cup {s})
      /\ Cardinality(journal \cup {s}) \in {Cardinality(journal), Cardinality(journal) + 1}
  BY <1>1, FS_AddElement
<1> QED BY <1>1, <1>2, RouteConstants

\* A journal with entries less.
LEMMA FewerFacts ==
    ASSUME IInv, NEW T
    PROVE  IsFiniteSet(journal \ T) /\ Cardinality(journal \ T) <= MaxRoutes
<1>1. (journal \ T) \in SUBSET journal /\ IsFiniteSet(journal) /\ Cardinality(journal) <= MaxRoutes
  BY Zenon DEF IInv, Bounded
<1>2. IsFiniteSet(journal \ T) /\ Cardinality(journal \ T) <= Cardinality(journal)
  BY <1>1, FS_Subset
<1> QED BY <1>1, <1>2, FS_CardinalityType, RouteConstants

LEMMA RecordIInv == ASSUME IInv, Record PROVE IInv'
<1>1. journal' \subseteq Specs /\ disk' = journal' /\ file' \in BOOLEAN
  BY HeadFacts, Zenon DEF Record, Save, IInv, TypeOK
<1>2. Bounded'
  BY <1>1, RoomFacts DEF Record, Bounded
<1>3. UNCHANGED <<os, mine, up, pc, tries, hooks, desired, todo, present, deleted>>
      /\ pc = "apply"
  BY Zenon DEF Record, osVars
<1>4. TypeOK'
  BY <1>1, <1>3, Zenon DEF IInv, TypeOK
<1>5. Recoverable' /\ InMemory'
  BY <1>1, <1>3, Zenon DEF Record, IInv, Recoverable, InMemory, Covers
<1> QED BY <1>2, <1>3, <1>4, <1>5 DEF IInv, UniqueIndex, DeletedGone, StableIndex

LEMMA RecordFailsIInv == ASSUME IInv, RecordFails PROVE IInv'
<1>1. /\ UNCHANGED <<os, mine, up, hooks>> /\ pc = "apply" /\ Unwind(tries, journal')
      /\ tries \in 0 .. 2 /\ journal = disk
      /\ \/ journal' = journal /\ UNCHANGED <<file, disk>>
         \/ /\ Room /\ journal' = journal \cup {Head(todo)}
            /\ UNCHANGED <<file, disk>> \/ (file' = TRUE /\ disk' = journal')
  BY Zenon DEF RecordFails, SaveFails, Save, osVars, diskVars, IInv, TypeOK, InMemory
<1>2. /\ journal \subseteq journal' /\ disk \subseteq disk'
      /\ journal' \subseteq Specs /\ disk' \subseteq Specs /\ file' \in BOOLEAN
  BY <1>1, HeadFacts, Zenon DEF IInv, TypeOK, RecordFails
<1>3. Bounded'
  BY <1>1, RoomFacts, Zenon DEF IInv, Bounded
<1>4. Covers(journal', TRUE) /\ Covers(disk', TRUE)
  BY <1>1, <1>2, Zenon DEF IInv, InMemory, Covers
<1> QED BY <1>1, <1>2, <1>3, <1>4, UnwoundIInv DEF Bounded

LEMMA AddIInv == ASSUME IInv, Add PROVE IInv'
<1> DEFINE h == Head(todo)
<1>1. /\ h \in Specs /\ h \in desired /\ h \in journal /\ journal = disk /\ pc = "apply"
      /\ todo' \in Seq(Specs) /\ \A i \in 1 .. Len(todo') : todo'[i] \in desired
  BY HeadFacts, Zenon DEF Add, IInv, InMemory
<1>2. /\ os' = os \cup {Route(h)} /\ mine' = mine \cup {Route(h)}
      /\ UNCHANGED <<up, file, disk, pc, tries, journal, hooks, desired, present, deleted>>
  BY Zenon DEF Add, diskVars
<1>3. h.interface \in up \/ h.interface = Tun
  BY <1>1, Zenon DEF Add, Accepts, IInv, StableIndex
<1>4. TypeOK'
  BY <1>1, <1>2, Zenon DEF IInv, TypeOK, Routes
<1>5. Recoverable' /\ InMemory'
  BY <1>1, <1>2, <1>3, Zenon DEF IInv, Recoverable, InMemory, Covers
<1>6. DeletedGone' /\ StableIndex'
  BY <1>1, <1>2, Zenon DEF IInv, DeletedGone, StableIndex
<1> QED BY <1>2, <1>4, <1>5, <1>6 DEF IInv, UniqueIndex, Bounded

LEMMA AddFailsIInv == ASSUME IInv, AddFails PROVE IInv'
<1>1. /\ UNCHANGED <<os, mine, up, file, disk, journal, hooks>> /\ pc = "apply"
      /\ Unwind(tries, journal) /\ tries \in 0 .. 2 /\ journal = disk
  BY Zenon DEF AddFails, osVars, diskVars, IInv, TypeOK, InMemory
<1>2. /\ journal' \subseteq Specs /\ disk' \subseteq Specs /\ file' \in BOOLEAN
  BY <1>1, Zenon DEF IInv, TypeOK
<1>3. Bounded'
  BY <1>1, Zenon DEF IInv, Bounded
<1>4. Covers(journal', TRUE) /\ Covers(disk', TRUE)
  BY <1>1, Zenon DEF IInv, InMemory, Covers
<1> QED BY <1>1, <1>2, <1>3, <1>4, UnwoundIInv DEF Bounded

LEMMA AllAddedIInv == ASSUME IInv, AllAdded PROVE IInv'
BY Zenon DEF AllAdded, IInv, TypeOK, UniqueIndex, Recoverable, InMemory, Covers, DeletedGone,
       StableIndex, Bounded, osVars, diskVars

-----------------------------------------------------------------------------
(* One lemma per step that takes routes away                               *)

LEMMA DeleteIInv == ASSUME IInv, NEW s \in Specs, Delete(s) PROVE IInv'
<1>1. /\ os' = os \ {Route(s)} /\ mine' = mine \ {Route(s)} /\ deleted' = {s}
      /\ pc \in {"obsolete", "restore"}
      /\ UNCHANGED <<up, file, disk, pc, tries, journal, hooks, desired, todo, present>>
  BY Zenon DEF Delete, diskVars
<1>2. TypeOK'
  BY <1>1, Zenon DEF IInv, TypeOK
<1>3. Recoverable' /\ InMemory'
  BY <1>1, Zenon DEF IInv, Recoverable, InMemory, Covers
<1> QED BY <1>1, <1>2, <1>3 DEF IInv, UniqueIndex, DeletedGone, StableIndex, Bounded

\* What remains after the entry of a deleted route is gone still covers the rest.
LEMMA StillCovered ==
    ASSUME IInv, pc # "down" PROVE Covers(journal \ deleted, TRUE)
BY Zenon DEF IInv, InMemory, Covers, DeletedGone

LEMMA ForgetIInv == ASSUME IInv, Forget PROVE IInv'
<1>1. /\ journal' = journal \ deleted /\ disk' = journal' /\ file' = TRUE /\ deleted' = {}
      /\ UNCHANGED <<os, mine, up, pc, tries, hooks, desired, todo, present>>
      /\ pc \in {"obsolete", "restore"}
  BY Zenon DEF Forget, Save, osVars, IInv, DeletedGone
<1>2. Bounded'
  BY <1>1, FewerFacts, Zenon DEF Bounded
<1>3. TypeOK'
  BY <1>1, Zenon DEF IInv, TypeOK
<1>4. Recoverable' /\ InMemory'
  BY <1>1, StillCovered, Zenon DEF Recoverable, InMemory, Covers
<1> QED BY <1>1, <1>2, <1>3, <1>4 DEF IInv, UniqueIndex, DeletedGone, StableIndex

LEMMA RemoveFailsIInv == ASSUME IInv, RemoveFails PROVE IInv'
<1>1. /\ UNCHANGED <<os, mine, up, hooks>> /\ pc \in {"obsolete", "restore"}
      /\ Unwind(tries, journal') /\ tries \in 0 .. 2
      /\ \/ journal' = journal /\ UNCHANGED <<file, disk>>
         \/ /\ journal' = journal \ deleted
            /\ UNCHANGED <<file, disk>> \/ (file' = TRUE /\ disk' = journal')
  BY Zenon DEF RemoveFails, SaveFails, Save, osVars, diskVars, IInv, TypeOK
<1>2. /\ journal' \subseteq Specs /\ disk' \subseteq Specs /\ file' \in BOOLEAN
  BY <1>1, Zenon DEF IInv, TypeOK
<1>3. Bounded'
  BY <1>1, FewerFacts, Zenon DEF IInv, Bounded
<1>4. Covers(journal, TRUE) /\ Covers(disk, TRUE)
  BY <1>1, Zenon DEF IInv, InMemory, Covers, Recoverable
<1>5. Covers(journal', TRUE) /\ Covers(disk', TRUE)
  BY <1>1, <1>4, StillCovered, Zenon
<1> QED BY <1>1, <1>2, <1>3, <1>5, UnwoundIInv DEF Bounded

LEMMA AppliedIInv == ASSUME IInv, Applied PROVE IInv'
BY DEF Applied, IInv, TypeOK, UniqueIndex, Recoverable, InMemory, Covers, DeletedGone,
       StableIndex, Bounded, osVars, diskVars

LEMMA RestoredIInv == ASSUME IInv, Restored PROVE IInv'
<1>1. mine = {}
  BY Zenon DEF Restored, Doomed, IInv, InMemory, Covers
<1>2. /\ UNCHANGED <<os, mine, up, journal, hooks, desired, todo, present, deleted>>
      /\ pc' = "exit" /\ tries' = 0 /\ deleted = {}
      /\ (file' = FALSE /\ disk' = {}) \/ UNCHANGED <<file, disk>>
  BY Zenon DEF Restored, osVars, diskVars
<1>3. file' \in BOOLEAN /\ disk' \subseteq Specs /\ Bounded'
  <2>1. CASE file' = FALSE /\ disk' = {}
    <3>1. IsFiniteSet(disk') /\ Cardinality(disk') <= MaxRoutes
      BY <2>1, FS_EmptySet, RouteConstants
    <3> QED BY <1>2, <2>1, <3>1, Zenon DEF IInv, Bounded
  <2>2. CASE UNCHANGED <<file, disk>>
    BY <1>2, <2>2, Zenon DEF IInv, TypeOK, Bounded
  <2> QED BY <1>2, <2>1, <2>2
<1>4. TypeOK'
  BY <1>2, <1>3 DEF IInv, TypeOK
<1> QED BY <1>1, <1>2, <1>3, <1>4
    DEF IInv, UniqueIndex, Recoverable, InMemory, Covers, DeletedGone, StableIndex

-----------------------------------------------------------------------------
(* The process and the others                                              *)

LEMMA QuitIInv == ASSUME IInv, Quit PROVE IInv'
<1>1. PICK left \in {1, 2} : Unwind(left, journal)
  BY Zenon DEF Quit
<1>2. /\ UNCHANGED <<os, mine, up, file, disk, journal, hooks>> /\ pc = "idle"
      /\ journal = disk
  BY Zenon DEF Quit, osVars, diskVars, IInv, InMemory
<1>3. /\ journal' \subseteq Specs /\ disk' \subseteq Specs /\ file' \in BOOLEAN /\ Bounded'
  BY <1>2, Zenon DEF IInv, TypeOK, Bounded
<1>4. Covers(journal', TRUE) /\ Covers(disk', TRUE)
  BY <1>2 DEF IInv, InMemory, Covers
<1>5. left \in 0 .. 2
  OBVIOUS
<1> QED BY <1>1, <1>2, <1>3, <1>4, <1>5, UnwoundIInv DEF Bounded

LEMMA EndIInv == ASSUME IInv, End, pc # "down" PROVE IInv'
<1>1. /\ os' = {r \in os : r[2] # Tun.index} /\ mine' = {r \in mine : r[2] # Tun.index}
      /\ pc' = "down" /\ tries' = 0 /\ journal' = {}
      /\ desired' = {} /\ todo' = <<>> /\ present' = {} /\ deleted' = {}
      /\ UNCHANGED <<up, file, disk, hooks>>
  BY DEF End, diskVars
<1>2. TypeOK'
  BY <1>1 DEF IInv, TypeOK
<1>3. \A s : Route(s)[2] = s.interface.index
  BY Zenon DEF Route
<1>4. Recoverable' /\ InMemory'
  BY <1>1, <1>3 DEF IInv, Recoverable, InMemory, Covers
<1>5. Bounded'
  BY <1>1, FS_EmptySet, RouteConstants DEF IInv, Bounded
<1> QED BY <1>1, <1>2, <1>4, <1>5 DEF IInv, UniqueIndex, DeletedGone, StableIndex

LEMMA RecoverIInv == ASSUME IInv, Recover PROVE IInv'
<1>1. /\ pc = "down" /\ pc' = "restore" /\ tries' = 0
      /\ journal' = {s \in disk : s.interface \in up}
      /\ UNCHANGED <<os, mine, up, file, disk, hooks, desired, todo, present, deleted>>
  BY DEF Recover, osVars, diskVars
<1>2. TypeOK'
  BY <1>1 DEF IInv, TypeOK
<1>3. Recoverable' /\ InMemory'
  BY <1>1, Zenon DEF IInv, Recoverable, InMemory, Covers
<1>4. Bounded'
  <2>1. journal' \in SUBSET disk
    BY <1>1
  <2>2. IsFiniteSet(journal') /\ Cardinality(journal') <= Cardinality(disk)
    BY <2>1, FS_Subset, Zenon DEF IInv, Bounded
  <2> QED BY <1>1, <2>2, FS_CardinalityType, RouteConstants DEF IInv, Bounded
<1> QED BY <1>1, <1>2, <1>3, <1>4 DEF IInv, UniqueIndex, DeletedGone, StableIndex

LEMMA UnplugIInv == ASSUME IInv, NEW a \in Adapters, Unplug(a) PROVE IInv'
<1>1. /\ a \in up /\ up' = up \ {a}
      /\ os' = {r \in os : r[2] # a.index} /\ mine' = {r \in mine : r[2] # a.index}
      /\ UNCHANGED <<file, disk, pc, tries, journal, hooks, desired, todo, present, deleted>>
  BY Zenon DEF Unplug, diskVars
<1>2. TypeOK'
  BY <1>1, Zenon DEF IInv, TypeOK
<1>3. \A s : Route(s)[2] = s.interface.index
  BY Zenon DEF Route
<1>4. Recoverable'
  BY <1>1, <1>3, Zenon DEF IInv, Recoverable
<1>5. InMemory'
  BY <1>1, <1>3 DEF IInv, InMemory, Covers
<1> QED BY <1>1, <1>2, <1>4, <1>5 DEF IInv, UniqueIndex, DeletedGone, StableIndex, Bounded

LEMMA PlugIInv == ASSUME IInv, NEW a \in Adapters, Plug(a) PROVE IInv'
<1>1. /\ \A b \in up : b.index # a.index
      /\ pc = "apply" => \A s \in desired : s.interface.index = a.index => s.interface = a
      /\ up' = up \cup {a}
      /\ UNCHANGED <<os, mine, file, disk, pc, tries, journal, hooks, desired, todo, present, deleted>>
  BY Zenon DEF Plug, diskVars
<1>2. TypeOK'
  BY <1>1, Zenon DEF IInv, TypeOK
<1>3. UniqueIndex'
  BY <1>1, Zenon DEF IInv, UniqueIndex
<1>4. StableIndex'
  BY <1>1 DEF IInv, StableIndex
<1> QED BY <1>1, <1>2, <1>3, <1>4 DEF IInv, Recoverable, InMemory, Covers, DeletedGone, Bounded

LEMMA OthersAddIInv == ASSUME IInv, NEW r \in Routes, OthersAdd(r) PROVE IInv'
<1>1. /\ os' = os \cup {r}
      /\ UNCHANGED <<mine, up, file, disk, pc, tries, journal, hooks, desired, todo, present, deleted>>
  BY Zenon DEF OthersAdd, diskVars
<1>2. TypeOK'
  BY <1>1 DEF IInv, TypeOK
<1> QED BY <1>1, <1>2
    DEF IInv, UniqueIndex, Recoverable, InMemory, Covers, DeletedGone, StableIndex, Bounded

LEMMA OthersRemoveIInv == ASSUME IInv, NEW r \in Routes, OthersRemove(r) PROVE IInv'
<1>1. /\ os' = os \ {r} /\ mine' = mine \ {r}
      /\ UNCHANGED <<up, file, disk, pc, tries, journal, hooks, desired, todo, present, deleted>>
  BY Zenon DEF OthersRemove, diskVars
<1>2. TypeOK'
  BY <1>1 DEF IInv, TypeOK
<1> QED BY <1>1, <1>2, Zenon DEF IInv, UniqueIndex, Recoverable, InMemory, Covers, DeletedGone, StableIndex, Bounded

\* Every step keeps the journal discipline.
LEMMA StepIInv == IInv /\ [Next]_vars => IInv'
<1> SUFFICES ASSUME IInv, [Next]_vars PROVE IInv'
  BY Zenon
<1>1. CASE UNCHANGED vars
  BY <1>1, Zenon DEF vars, osVars, diskVars, IInv, TypeOK, UniqueIndex, Recoverable, InMemory,
              Covers, DeletedGone, StableIndex, Bounded
<1>2. CASE Others
  BY <1>2, UnplugIInv, PlugIInv, OthersAddIInv, OthersRemoveIInv, Zenon DEF Others
<1>3. CASE Exit \/ Crash
  BY <1>3, EndIInv, Zenon DEF Exit, Crash
<1>4. CASE Open \/ Refresh \/ Quit \/ Recover
  BY <1>4, OpenIInv, RefreshIInv, QuitIInv, RecoverIInv, Zenon
<1>5. CASE Skip \/ Record \/ RecordFails \/ Add \/ AddFails \/ AllAdded
  BY <1>5, SkipIInv, RecordIInv, RecordFailsIInv, AddIInv, AddFailsIInv, AllAddedIInv
<1>6. CASE (\E s \in Specs : Delete(s)) \/ Forget \/ RemoveFails \/ Applied \/ Restored
  BY <1>6, DeleteIInv, ForgetIInv, RemoveFailsIInv, AppliedIInv, RestoredIInv
<1> QED BY <1>1, <1>2, <1>3, <1>4, <1>5, <1>6 DEF Next

\* The journal discipline holds in every state of a session, a failed session,
\* a crash and a recovery.
THEOREM JournalInvariant == Spec => []IInv
BY InitIInv, StepIInv, PTL DEF Spec

\* Every route the program has added can be taken away from the journal on disk.
THEOREM RoutesRecoverable == Spec => []Recoverable
<1>1. IInv => Recoverable
  BY Zenon DEF IInv
<1> QED BY <1>1, JournalInvariant, PTL

\* Every journal written is within the limit Transaction::open accepts.
THEOREM JournalsReadable == Spec => []JournalReadable
<1>1. IInv => JournalReadable
  BY Zenon DEF IInv, Bounded, JournalReadable
<1> QED BY <1>1, JournalInvariant, PTL

-----------------------------------------------------------------------------
(* Whose routes are taken away                                             *)

\* What is journalled and in the table is the program's, unless others meddle.
OwnEntries ==
    /\ \A s \in journal \cup disk : Route(s) \in os => Route(s) \in mine
    /\ pc = "apply" => os \ mine \subseteq present
    /\ \A r \in os \ mine : r[2] # Tun.index

\* Every step keeps that, and only the others take their routes away.
LEMMA OwnStep ==
    ASSUME ~Meddling, IInv, OwnEntries, [Next]_vars
    PROVE  OwnEntries' /\ (Others \/ (os \ mine) \subseteq os' \/ UNCHANGED vars)
<1> USE DEF OwnEntries
<1>1. CASE UNCHANGED vars
  BY <1>1, Zenon DEF vars, osVars, diskVars
<1>2. CASE Others
  <2>1. ASSUME NEW a \in Adapters, Unplug(a) PROVE OwnEntries'
    BY <2>1, Zenon DEF Unplug, diskVars
  <2>2. ASSUME NEW a \in Adapters, Plug(a) PROVE OwnEntries'
    BY <2>2, Zenon DEF Plug, diskVars
  <2>3. ASSUME NEW r \in Routes, OthersAdd(r) PROVE OwnEntries'
    BY <2>3, RouteConstants DEF OthersAdd, diskVars, IInv, TypeOK
  <2>4. ASSUME NEW r \in Routes, OthersRemove(r) PROVE OwnEntries'
    BY <2>4, Zenon DEF OthersRemove, diskVars
  <2> QED BY <1>2, <2>1, <2>2, <2>3, <2>4 DEF Others
<1>3. CASE Exit \/ Crash
  <2>1. End /\ pc # "down"
    BY <1>3, Zenon DEF Exit, Crash
  <2>2. /\ os' = {r \in os : r[2] # Tun.index} /\ mine' = {r \in mine : r[2] # Tun.index}
        /\ pc' = "down" /\ journal' = {} /\ disk' = disk
    BY <2>1, Zenon DEF End, diskVars
  <2>3. \A r \in os \ mine : r[2] # Tun.index
    BY Zenon
  <2> QED BY <2>2, <2>3
<1>4. CASE Open \/ Refresh
  <2>1. UNCHANGED <<os, mine, disk>> /\ journal' \subseteq journal /\ present' = os
    BY <1>4, Zenon DEF Open, Refresh, BeginApply, osVars, diskVars
  <2> QED BY <2>1
<1>5. CASE Quit \/ Recover \/ Applied \/ Restored \/ AllAdded \/ AddFails
  <2>1. UNCHANGED <<os, mine>> /\ journal' \cup disk' \subseteq journal \cup disk /\ pc' # "apply"
    BY <1>5, Zenon DEF Quit, Recover, Applied, Restored, AllAdded, AddFails, Unwind, osVars, diskVars
  <2> QED BY <2>1
<1>6. CASE Skip
  BY <1>6, Zenon DEF Skip, osVars, diskVars
<1>7. CASE Record \/ RecordFails
  <2>1. /\ UNCHANGED <<os, mine>> /\ pc = "apply" /\ Route(Head(todo)) \notin present
        /\ journal' \cup disk' \subseteq journal \cup disk \cup {Head(todo)}
        /\ pc' = "apply" => present' = present
    BY <1>7, Zenon DEF Record, RecordFails, Save, SaveFails, Unwind, Listed, osVars, diskVars
  <2> QED BY <2>1, Zenon
<1>8. CASE Add
  BY <1>8 DEF Add, diskVars
<1>9. CASE \E s \in Specs : Delete(s)
  <2>1. PICK s \in Specs : Delete(s)
    BY <1>9, Zenon
  <2>2. /\ os' = os \ {Route(s)} /\ mine' = mine \ {Route(s)} /\ s \in journal
        /\ UNCHANGED <<journal, disk>> /\ pc' # "apply"
    BY <2>1, Zenon DEF Delete, Doomed, diskVars
  <2> QED BY <2>2, Zenon
<1>10. CASE Forget \/ RemoveFails
  <2>1. UNCHANGED <<os, mine>> /\ journal' \cup disk' \subseteq journal \cup disk
        /\ pc' # "apply"
    BY <1>10, Zenon DEF Forget, RemoveFails, Save, SaveFails, Unwind, osVars, diskVars, IInv, DeletedGone
  <2> QED BY <2>1
<1> QED BY <1>1, <1>2, <1>3, <1>4, <1>5, <1>6, <1>7, <1>8, <1>9, <1>10 DEF Next

LEMMA InitOwn == Init => OwnEntries
BY DEF Init, OwnEntries

\* As long as others do not race apply and do not add what is journalled, no
\* step of a session or a recovery takes away a route that others put there.
THEOREM OthersRoutesUntouched == ASSUME ~Meddling PROVE Spec => OthersUntouched
<1>1. IInv /\ OwnEntries /\ [Next]_vars => OwnEntries'
  BY OwnStep, Zenon
<1>2. IInv /\ OwnEntries /\ [Next]_vars => [Others \/ (os \ mine) \subseteq os']_vars
  BY OwnStep
<1> QED BY <1>1, <1>2, InitOwn, JournalInvariant, PTL DEF Spec, OthersUntouched

-----------------------------------------------------------------------------
(* What an apply leaves in the table                                       *)

Desired == {Route(d) : d \in desired}

\* A route apply answers for is in the table or still to be looked at, and in the
\* table if the list apply goes by has it; after the first loop it is in the table.
Answered ==
    /\ wanted \subseteq Desired
    /\ pc = "apply" => \A r \in wanted :
          /\ r \in present => r \in os
          /\ r \in os \/ \E i \in 1 .. Len(todo) : Route(todo[i]) = r
    /\ pc \in {"obsolete", "idle"} => wanted \subseteq os

LEMMA InitAnswered == Init => Answered
BY DEF Init, Answered

\* What apply was called with is what it has to look at.
LEMMA BeginAnswered == ASSUME NEW n \in Networks, BeginApply(n), os' = os PROVE Answered'
<1>1. /\ todo' = DesiredRoutes(n) /\ desired' = Range(DesiredRoutes(n)) /\ present' = os
      /\ pc' = "apply" /\ wanted' = {Route(s) : s \in desired'}
  BY Zenon DEF BeginApply
<1>2. DOMAIN DesiredRoutes(n) = 1 .. Len(DesiredRoutes(n))
  BY DesiredType
<1>3. \A r \in wanted' : \E i \in 1 .. Len(todo') : Route(todo'[i]) = r
  BY <1>1, <1>2, Zenon DEF Range
<1> QED BY <1>1, <1>3, Zenon DEF Answered, Desired

\* The entry looked at is the one dropped from the list.
LEMMA HeadAnswered ==
    ASSUME IInv, Answered, pc = "apply", todo # <<>>, NEW r \in wanted, r \notin os, r # Route(Head(todo))
    PROVE  \E i \in 1 .. Len(Tail(todo)) : Route(Tail(todo)[i]) = r
<1>1. todo \in Seq(Specs)
  BY Zenon DEF IInv, TypeOK
<1>2. PICK i \in 1 .. Len(todo) : Route(todo[i]) = r
  BY Zenon DEF Answered
<1>3. i # 1
  BY <1>1, <1>2
<1>4. i - 1 \in 1 .. Len(Tail(todo)) /\ Tail(todo)[i - 1] = todo[i]
  BY <1>1, <1>2, <1>3
<1> QED BY <1>2, <1>4, Zenon

\* Every step keeps that, where no two interfaces share an index.
LEMMA StepAnswered ==
    ASSUME \A a, b \in Adapters : a.index = b.index => a = b,
           IInv, Answered, [Next]_vars
    PROVE  Answered'
<1>0. ASSUME NEW s \in Specs, NEW d \in Specs, Route(s) = Route(d) PROVE s = d
  <2>1. s.network = d.network /\ s.interface.index = d.interface.index
    BY <1>0 DEF Route
  <2>2. s.interface = d.interface
    BY <2>1, RouteConstants, Zenon DEF Specs
  <2> QED BY <2>1, <2>2 DEF Specs
<1>1. ASSUME UNCHANGED <<os, desired, wanted, todo, present, pc>> PROVE Answered'
  BY <1>1, Zenon DEF Answered, Desired
<1>2. CASE UNCHANGED vars \/ Record \/ Forget
  BY <1>1, <1>2, Zenon DEF vars, osVars, Record, Forget
<1>3. CASE Restored \/ Recover
  BY <1>3, Zenon DEF Restored, Recover, osVars, Answered, Desired
<1>4. ASSUME wanted' = {}, pc' # "apply" PROVE Answered'
  BY <1>4, Zenon DEF Answered
<1>5. CASE RecordFails \/ AddFails \/ RemoveFails \/ Quit \/ Exit \/ Crash
  BY <1>4, <1>5 DEF RecordFails, AddFails, RemoveFails, Quit, Exit, Crash, End, Unwind
<1>6. CASE Open \/ Refresh
  BY <1>6, BeginAnswered, Zenon DEF Open, Refresh, osVars
<1>7. CASE Skip
  <2>1. /\ pc = "apply" /\ todo # <<>> /\ Route(Head(todo)) \in present /\ todo' = Tail(todo)
        /\ UNCHANGED <<os, desired, wanted, present, pc>>
    BY <1>7, Zenon DEF Skip, Listed, osVars
  <2>2. \A r \in wanted : r \in os \/ \E i \in 1 .. Len(todo') : Route(todo'[i]) = r
    BY <2>1, HeadAnswered, Zenon DEF Answered
  <2> QED BY <2>1, <2>2, Zenon DEF Answered, Desired
<1>8. CASE Add
  <2>1. /\ pc = "apply" /\ todo # <<>> /\ os' = os \cup {Route(Head(todo))} /\ todo' = Tail(todo)
        /\ UNCHANGED <<desired, wanted, present, pc>>
    BY <1>8, Zenon DEF Add
  <2>2. \A r \in wanted : r \in os' \/ \E i \in 1 .. Len(todo') : Route(todo'[i]) = r
    BY <2>1, HeadAnswered, Zenon
  <2> QED BY <2>1, <2>2, Zenon DEF Answered, Desired
<1>9. CASE AllAdded \/ Applied
  <2>1. /\ UNCHANGED <<os, desired, wanted>> /\ pc' \in {"obsolete", "idle"}
        /\ (pc = "apply" /\ todo = <<>>) \/ pc = "obsolete"
    BY <1>9, Zenon DEF AllAdded, Applied, osVars
  <2>2. wanted \subseteq os
    BY <2>1 DEF Answered
  <2> QED BY <2>1, <2>2 DEF Answered, Desired
<1>10. CASE \E s \in Specs : Delete(s)
  <2>1. PICK s \in Specs : Delete(s)
    BY <1>10, Zenon
  <2>2. /\ os' = os \ {Route(s)} /\ pc \in {"obsolete", "restore"}
        /\ pc = "obsolete" => s \notin desired
        /\ UNCHANGED <<desired, wanted, pc>>
    BY <2>1, Zenon DEF Delete, Doomed
  <2>3. pc = "obsolete" => Route(s) \notin Desired
    BY <1>0, <2>2, Zenon DEF Desired, IInv, TypeOK
  <2>4. pc' = "obsolete" => wanted' \subseteq os'
    BY <2>2, <2>3, Zenon DEF Answered
  <2> QED BY <2>2, <2>4 DEF Answered, Desired
<1>11. CASE Others
  <2>1. ASSUME NEW T, os' = os \ T, wanted' = wanted \ T, UNCHANGED <<desired, todo, present, pc>>
        PROVE  Answered'
    BY <2>1, Zenon DEF Answered, Desired
  <2>2. ASSUME NEW a \in Adapters, Unplug(a) PROVE Answered'
    <3> DEFINE T == {r \in os \cup wanted : r[2] = a.index}
    <3>1. os' = os \ T /\ wanted' = wanted \ T /\ UNCHANGED <<desired, todo, present, pc>>
      BY <2>2, Zenon DEF Unplug
    <3> QED BY <2>1, <3>1, Zenon
  <2>3. ASSUME NEW r \in Routes, OthersRemove(r) PROVE Answered'
    BY <2>1, <2>3, Zenon DEF OthersRemove
  <2>4. ASSUME NEW r \in Routes, OthersAdd(r) PROVE Answered'
    BY <2>4, Zenon DEF OthersAdd, Answered, Desired
  <2>5. ASSUME NEW a \in Adapters, Plug(a) PROVE Answered'
    BY <1>1, <2>5, Zenon DEF Plug
  <2> QED BY <1>11, <2>2, <2>3, <2>4, <2>5, Zenon DEF Others
<1> QED BY <1>2, <1>3, <1>5, <1>6, <1>7, <1>8, <1>9, <1>10, <1>11, Zenon DEF Next

\* Where no two interfaces ever share an index, an apply that is done has put every
\* route it was asked for into the table, or somebody else has removed it since.
\* (A renamed interface shares its index with itself: the run routes_rename.)
THEOREM AppliedRoutesInPlace ==
    ASSUME \A a, b \in Adapters : a.index = b.index => a = b
    PROVE  Spec => []RoutesInPlace
<1>1. IInv /\ Answered /\ [Next]_vars => Answered'
  BY StepAnswered, Zenon
<1>2. Answered => RoutesInPlace
  BY Zenon DEF Answered, RoutesInPlace
<1> QED BY <1>1, <1>2, InitAnswered, JournalInvariant, PTL DEF Spec
=============================================================================
