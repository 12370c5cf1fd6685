----------------------------- MODULE Reassembly -----------------------------
(***************************************************************************)
(* Reassembly of IPv6 packets in the packet adapter                         *)
(* (crates/core/src/packet_ipv6.rs): fragments arrive in any order, twice,  *)
(* with headers that disagree, and of several packets at a time.  A         *)
(* fragment is where it starts, how long it is, whether more follow, and    *)
(* the shape of the headers before it; its bytes are where they belong.     *)
(***************************************************************************)
EXTENDS Naturals, FiniteSets, FiniteSetsExt

CONSTANTS
    Keys,           \* source, destination and identification
    Cuts,           \* lengths and chunk lengths of packets that are fragmented
    Strange,        \* fragments no sender of such packets makes
    Unit,           \* fragments start at multiples of this (8)
    RoomLeft,       \* the longest payload (65535 less the headers)
    MaxRanges,      \* ranges the assembler keeps apart (smoltcp: 4)
    MaxAssemblies,  \* MAX_PACKETS (64)
    Lifetime,       \* LIFETIME in ticks of the clock (30 s)
    Nil             \* no assembly, no packet

VARIABLES
    assemblies,     \* Reassembly::pending
    arrival,        \* the fragment of this step
    emitted         \* what accept returns for it: the fragments of a packet

fragVars == <<assemblies, arrival, emitted>>

\* fragment: the chunks of a packet of n bytes
Fragment(n, step) ==
    {[start |-> i * step, end |-> Min({(i + 1) * step, n}), more |-> (i + 1) * step < n, shape |-> 1]
        : i \in {j \in 0..n : j * step < n}}
Offers == UNION {Fragment(c[1], c[2]) : c \in Cuts} \union Strange

\* the offset of a fragment counts units, and its end is its length further on
ASSUME FragmentsAssumption ==
    /\ Unit \in Nat \ {0} /\ RoomLeft \in Nat /\ Lifetime \in Nat /\ Nil \notin Nat
    /\ \A f \in Offers :
         f.start \in Nat /\ f.end \in Nat /\ f.more \in BOOLEAN /\ f.start <= f.end /\ f.start % Unit = 0

FragInit ==
    /\ assemblies = [k \in Keys |-> Nil]
    /\ arrival = Nil /\ emitted = {}

-----------------------------------------------------------------------------
\* expire
FreshAlways(v) == v # Nil
Fresh(v) == v # Nil /\ v.age < Lifetime
Kept == [k \in Keys |-> IF Fresh(assemblies[k]) THEN assemblies[k] ELSE Nil]

New(f) == [age |-> 0, shape |-> f.shape, received |-> {}, total |-> Nil, rejected |-> FALSE]

\* Assembler (external: smoltcp): the data before the first hole, and the ranges
Front(S) == Max({n \in 0..RoomLeft : \A b \in 0..(n - 1) : \E f \in S : f.start <= b /\ b < f.end})
Ranges(S) == Cardinality({f \in S : \A g \in S : g.end # f.start})

\* accept: a fragment that does not fit what was received
OverlapsLoosely(f, g) == f.start < g.start /\ f.end > g.start
Overlaps(f, g) == f.start < g.end /\ f.end > g.start
PastEnd(v, f) ==
    v.total # Nil /\ (f.end > v.total \/ (~f.more /\ f.end # v.total) \/ (f.more /\ f.end >= v.total))
Invalid(v, f) ==
    \/ f.start = f.end
    \/ f.more /\ (f.end - f.start) % Unit # 0
    \/ f.end > RoomLeft
    \/ v.shape # f.shape
    \/ PastEnd(v, f)
    \/ ~f.more /\ \E g \in v.received : g.end > f.end
    \/ \E g \in v.received : Overlaps(f, g)
    \/ Ranges(v.received \union {f}) > MaxRanges

Added(v, f) ==
    IF Invalid(v, f) THEN [v EXCEPT !.rejected = TRUE, !.received = {}]
    ELSE [v EXCEPT !.received = @ \union {f}, !.total = IF f.more THEN @ ELSE f.end]

IsComplete(v) == ~v.rejected /\ v.total # Nil /\ Front(v.received) = v.total

\* a whole packet in one fragment passes by the assemblies
Atomic(f) == ~f.more /\ f.start = 0
AcceptAtomic(k, f) ==
    /\ Atomic(f)
    /\ arrival' = [key |-> k, frag |-> f] /\ emitted' = {f}
    /\ UNCHANGED assemblies

HasRoomFor(k) == Kept[k] # Nil \/ Cardinality({j \in Keys : Kept[j] # Nil}) < MaxAssemblies

AcceptFragment(k, f) ==
    /\ ~Atomic(f)
    /\ arrival' = [key |-> k, frag |-> f]
    /\ LET v == IF Kept[k] = Nil THEN New(f) ELSE Kept[k] IN
       IF ~HasRoomFor(k) \/ v.rejected
         THEN assemblies' = Kept /\ emitted' = {}
         ELSE LET w == Added(v, f) IN
              IF IsComplete(w)
                THEN assemblies' = [Kept EXCEPT ![k] = Nil] /\ emitted' = w.received
                ELSE assemblies' = [Kept EXCEPT ![k] = w] /\ emitted' = {}

\* the loop of run expires once a second; the clock goes on
ExpireAll == assemblies' = Kept /\ arrival' = Nil /\ emitted' = {}
ClockTick ==
    /\ assemblies' = [k \in Keys |->
         IF assemblies[k] # Nil /\ assemblies[k].age < Lifetime   \* bound
           THEN [assemblies[k] EXCEPT !.age = @ + 1] ELSE assemblies[k]]
    /\ arrival' = Nil /\ emitted' = {}

FragNext ==
    \/ \E k \in Keys, f \in Offers : AcceptAtomic(k, f) \/ AcceptFragment(k, f)
    \/ ExpireAll \/ ClockTick

FragSpec == FragInit /\ [][FragNext]_fragVars

-----------------------------------------------------------------------------
\* The reference: what a set of fragments is, whatever order they came in.
Shares(f, g) == \E b \in 0..RoomLeft : f.start <= b /\ b < f.end /\ g.start <= b /\ b < g.end
Consistent(S) ==
    /\ \A f \in S : f.start < f.end /\ f.end <= RoomLeft /\ (f.more => f.end % Unit = 0)
    /\ \A f, g \in S : f # g => ~Shares(f, g) /\ f.shape = g.shape /\ (~f.more => g.end <= f.start)
Whole(S) ==
    /\ Consistent(S) /\ \E f \in S : ~f.more
    /\ \A f \in S : f.start = 0 \/ \E g \in S : g.end = f.start

Dated(k) == assemblies[k] = Nil \/ assemblies[k].age >= Lifetime
Held(k) == IF Dated(k) THEN {} ELSE assemblies[k].received
Joins(k) == arrival' # Nil /\ arrival'.key = k /\ ~Atomic(arrival'.frag)

\* Fragments make a packet exactly when they are a whole one: what accept returns
\* covers the packet once without gaps, from fragments of one key that arrived
\* within the lifetime, and no packet that is whole waits for more.
EmitsExactlyWhole ==
    [][\A k \in Keys : Joins(k) =>
        /\ emitted' # {} => Whole(emitted') /\ emitted' = Held(k) \union {arrival'.frag}
        /\ assemblies'[k] # Nil => ~Whole(assemblies'[k].received)]_fragVars

\* A packet is given up exactly when its fragments contradict each other, in
\* whatever order they came, or leave more holes than the assembler can hold.
RejectsExactlyBroken ==
    [][\A k \in Keys : Joins(k) /\ assemblies'[k] # Nil /\ (Dated(k) \/ ~assemblies[k].rejected) =>
        LET f == arrival'.frag
            S == Held(k) \union {f}
        IN  assemblies'[k].rejected <=>
              (f \in Held(k) \/ ~Consistent(S) \/ Ranges(S) > MaxRanges)]_fragVars
=============================================================================
