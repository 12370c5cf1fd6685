------------------------------- MODULE FakeIp -------------------------------
(***************************************************************************)
(* The fake-IP table of the DNS resolver (crates/core/src/dns.rs, FakeMap): *)
(* the pool a DNS answer takes an address from, and the reverse map a       *)
(* connection to such an address is restored through.  Every operation      *)
(* holds the `fake` mutex from its first line to its last, so each one is   *)
(* a single action.                                                         *)
(*                                                                          *)
(* A name stands for a host already trimmed and lower-cased (answer does    *)
(* this before it calls fake_address); an address is a family and an offset *)
(* into that family's configured range.                                     *)
(***************************************************************************)
EXTENDS Integers, FiniteSets

CONSTANTS
    Names,      \* host names
    Families,   \* the two ranges, fake_ip_range and fake_ip_range6
    Last,       \* last offset a family may hand out: the end of its range,
                \* for IPv4 the one before the broadcast address
    Capacity,   \* 32768 mappings
    ServFail,   \* the reply to a query that no address is left for
    NoReply     \* the name was not asked for yet

ASSUME FakeIpConstants ==
    /\ Last \in [Families -> Nat]
    /\ Capacity \in Nat
    /\ IsFiniteSet(Names) /\ IsFiniteSet(Families)

Keys == Names \X Families
Offsets(f) == 2 .. Last[f]
Ips == {ip \in Families \X Nat : ip[2] \in Offsets(ip[1])}
Entries == Names \X (Families \X Nat)

ASSUME RepliesDistinct == ServFail \notin Ips /\ NoReply \notin Ips

VARIABLES
    by_name,    \* (host, family) -> address
    by_ip,      \* address -> host
    next,       \* next4 and next6
    reply       \* history: the last reply to each query

-----------------------------------------------------------------------------
\* HashMap::insert
Insert(f, k, v) ==
    [x \in DOMAIN f \cup {k} |-> IF x = k THEN v ELSE f[x]]

EmptyMap == [x \in {} |-> NoReply]

NewFakeMap ==
    /\ by_name = EmptyMap
    /\ by_ip = EmptyMap
    /\ next = [f \in Families |-> 2]

FakeInit ==
    /\ NewFakeMap
    /\ reply = [k \in Keys |-> NoReply]

-----------------------------------------------------------------------------

\* The two reasons for which fake_address has no address for a new key.
Full == ~ Cardinality(DOMAIN by_name) < Capacity

Exhausted(f) == next[f] \notin Offsets(f)

Known(k) == k \in DOMAIN by_name

Allocate(k) ==
    LET ip == <<k[2], next[k[2]]>> IN
    /\ by_name' = Insert(by_name, k, ip)
    /\ by_ip' = Insert(by_ip, ip, k[1])
    /\ next' = [next EXCEPT ![k[2]] = @ + 1]
    /\ reply' = [reply EXCEPT ![k] = ip]

\* fake_address, with the reply answer builds from its result
FakeAddress(k) ==
    \/ /\ Known(k)
       /\ reply' = [reply EXCEPT ![k] = by_name[k]]
       /\ UNCHANGED <<by_name, by_ip, next>>
    \/ /\ ~Known(k)
       /\ Full \/ Exhausted(k[2])
       /\ reply' = [reply EXCEPT ![k] = ServFail]
       /\ UNCHANGED <<by_name, by_ip, next>>
    \/ /\ ~Known(k)
       /\ ~Full /\ ~Exhausted(k[2])
       /\ Allocate(k)

\* export_fake: what save_profile writes
ExportFake == {<<by_ip[ip], ip>> : ip \in DOMAIN by_ip}

\* original: the host restore_target dials for an address
Original(ip) == by_ip[ip]

-----------------------------------------------------------------------------

\* What import_fake's checks ask of the saved entries as a whole.
Importable(entries) ==
    /\ Cardinality(entries) <= Capacity
    /\ \A e \in entries : e[2] \in Ips
    /\ \A d, e \in entries :
          d[2] = e[2] \/ (d[1] = e[1] /\ d[2][1] = e[2][1]) => d = e

\* Mutant of IsNextAfter: the counter of a new table.
IsNextFresh(entries, f, m) == m = 2

\* m is max(2, n + 1) over the imported offsets n of a family
IsNextAfter(entries, f, m) ==
    /\ m = 2 \/ \E e \in entries : e[2] = <<f, m - 1>>
    /\ \A e \in entries : e[2][1] = f => e[2][2] < m

\* import_fake: the new table replaces the old one only after every entry
\* was accepted
ImportFake(entries) ==
    /\ Importable(entries)
    /\ by_ip' = [ip \in {e[2] : e \in entries} |->
                    (CHOOSE e \in entries : e[2] = ip)[1]]
    /\ by_name' = [k \in {<<e[1], e[2][1]>> : e \in entries} |->
                    (CHOOSE e \in entries : <<e[1], e[2][1]>> = k)[2]]
    /\ next' \in [Families -> {2} \cup {e[2][2] + 1 : e \in entries}]
    /\ \A f \in Families : IsNextAfter(entries, f, next'[f])

-----------------------------------------------------------------------------
\* The type of the table.
FakeTypeOK ==
    /\ DOMAIN by_name \subseteq Keys
    /\ by_name \in [DOMAIN by_name -> Ips]
    /\ DOMAIN by_ip \subseteq Ips
    /\ by_ip \in [DOMAIN by_ip -> Names]
    /\ next \in [Families -> Nat]
    /\ reply \in [Keys -> Ips \cup {ServFail, NoReply}]

\* The two maps of FakeMap are inverse to each other: every address handed
\* out for a host is restored to that host, and to no other.
MapsInverse ==
    /\ \A k \in DOMAIN by_name :
          by_name[k] \in DOMAIN by_ip /\ by_ip[by_name[k]] = k[1]
              /\ by_name[k][1] = k[2]
    /\ \A ip \in DOMAIN by_ip :
          <<by_ip[ip], ip[1]>> \in DOMAIN by_name
              /\ by_name[<<by_ip[ip], ip[1]>>] = ip

\* Every address in use lies below the counter of its family, so the next
\* one handed out is free, whether the table was grown or imported.
NextIsFree == \A ip \in DOMAIN by_ip : ip[2] < next[ip[1]]

\* fake_address and import_fake both keep the table within 32,768 mappings.
WithinCapacity ==
    /\ IsFiniteSet(DOMAIN by_name)
    /\ Cardinality(DOMAIN by_name) <= Capacity

\* A client that was told an address reaches the host it asked for: whatever
\* was answered in this core's lifetime restores to the name it was given for,
\* and is of the family that was asked for.
RestoresWhatWasAnswered ==
    \A k \in Keys : reply[k] \in Ips =>
        /\ reply[k] \in DOMAIN by_ip /\ Original(reply[k]) = k[1]
        /\ reply[k][1] = k[2]
=============================================================================
