-------------------------- MODULE Resolver_proofs ---------------------------
(***************************************************************************)
(* The resolver.  The fake-IP table and its profile, for every set of names,*)
(* every pair of ranges, every capacity and every number of concurrent      *)
(* savers; and the answer cache, for every set of requests, clients and     *)
(* responses, and every capacity and lifetime.                              *)
(***************************************************************************)
EXTENDS Profile, DnsCache, FiniteSetTheorems, WellFoundedInduction, TLAPS

\* A core that is not running has Core::new's empty table, and that is what a
\* selection saves.
DownIsEmpty ==
    phase # "up" =>
        /\ DOMAIN by_name = {} /\ DOMAIN by_ip = {}
        /\ \A k \in Keys : reply[k] = NoReply
        /\ \A s \in saving : snapshot[s] = {}

\* The counters start past the two reserved offsets.
NextPastReserved == \A f \in Families : next[f] >= 2

\* A snapshot in flight was exported by this core, whose table only grew.
SnapshotsHonoured == \A s \in saving : snapshot[s] \subseteq ExportFake

\* Profiles are finite, the core's own and the one it found.
DiskFinite == IsFiniteSet(disk)

IInv ==
    /\ TypeOK
    /\ MapsInverse
    /\ NextIsFree
    /\ WithinCapacity
    /\ RestoresWhatWasAnswered
    /\ DownIsEmpty
    /\ NextPastReserved
    /\ SnapshotsHonoured
    /\ SavedMappingsHonoured
    /\ DiskFinite

-----------------------------------------------------------------------------
\* A query is answered from the table, by fake_address: a known key keeps its
\* address, a refused one leaves the table alone, a new one takes the next
\* offset of its range.
LEMMA FakeAddressCases ==
    ASSUME NEW k \in Keys, FakeAddress(k)
    PROVE  \/ /\ k \in DOMAIN by_name
              /\ reply' = [reply EXCEPT ![k] = by_name[k]]
              /\ UNCHANGED <<by_name, by_ip, next>>
           \/ /\ k \notin DOMAIN by_name
              /\ reply' = [reply EXCEPT ![k] = ServFail]
              /\ UNCHANGED <<by_name, by_ip, next>>
           \/ /\ k \notin DOMAIN by_name
              /\ Cardinality(DOMAIN by_name) < Capacity
              /\ next[k[2]] \in Offsets(k[2])
              /\ Allocate(k)
BY Zenon DEF FakeAddress, Known, Full, Exhausted

\* The address that Allocate takes is unused, and both maps gain exactly one
\* pair.
LEMMA AllocateFacts ==
    ASSUME TypeOK, MapsInverse, NextIsFree, NextPastReserved,
           NEW k \in Keys, k \notin DOMAIN by_name,
           next[k[2]] \in Offsets(k[2]), Allocate(k)
    PROVE  LET ip == <<k[2], next[k[2]]>> IN
           /\ ip \in Ips /\ ip \notin DOMAIN by_ip
           /\ DOMAIN by_name' = DOMAIN by_name \cup {k}
           /\ DOMAIN by_ip' = DOMAIN by_ip \cup {ip}
           /\ by_name'[k] = ip /\ by_ip'[ip] = k[1]
           /\ \A j \in DOMAIN by_name : by_name'[j] = by_name[j]
           /\ \A j \in DOMAIN by_ip : by_ip'[j] = by_ip[j]
           /\ by_name' \in [DOMAIN by_name' -> Ips]
           /\ by_ip' \in [DOMAIN by_ip' -> Names]
           /\ next' \in [Families -> Nat]
           /\ next'[k[2]] = next[k[2]] + 1
           /\ \A f \in Families : f # k[2] => next'[f] = next[f]
           /\ reply' = [reply EXCEPT ![k] = ip]
<1> DEFINE ip == <<k[2], next[k[2]]>>
<1>1. k[1] \in Names /\ k[2] \in Families /\ k = <<k[1], k[2]>>
  BY DEF Keys
<1>2. next \in [Families -> Nat]
  BY Zenon DEF TypeOK, FakeTypeOK
<1>3. ip \in Ips
  BY <1>1, <1>2, Zenon DEF Ips
<1>4. ip \notin DOMAIN by_ip
  <2>1. SUFFICES ASSUME ip \in DOMAIN by_ip PROVE FALSE
    BY Zenon
  <2>2. next[k[2]] < next[k[2]]
    BY <2>1, Zenon DEF NextIsFree
  <2> QED BY <1>1, <1>2, <2>2
<1>5. by_name' = Insert(by_name, k, ip) /\ by_ip' = Insert(by_ip, ip, k[1])
      /\ next' = [next EXCEPT ![k[2]] = @ + 1] /\ reply' = [reply EXCEPT ![k] = ip]
  BY Zenon DEF Allocate
<1>6. /\ DOMAIN by_name' = DOMAIN by_name \cup {k}
      /\ DOMAIN by_ip' = DOMAIN by_ip \cup {ip}
      /\ by_name'[k] = ip /\ by_ip'[ip] = k[1]
      /\ \A j \in DOMAIN by_name : by_name'[j] = by_name[j]
      /\ \A j \in DOMAIN by_ip : by_ip'[j] = by_ip[j]
  BY <1>4, <1>5, Zenon DEF Insert
<1>7. by_name' \in [DOMAIN by_name' -> Ips]
  BY <1>3, <1>5, Zenon DEF Insert, TypeOK, FakeTypeOK
<1>8. by_ip' \in [DOMAIN by_ip' -> Names]
  BY <1>1, <1>5, Zenon DEF Insert, TypeOK, FakeTypeOK
<1> QED
  BY <1>1, <1>2, <1>3, <1>4, <1>5, <1>6, <1>7, <1>8

\* The exported entries, seen from the hosts: as many as the table has keys.
LEMMA ExportIsImportable ==
    ASSUME TypeOK, MapsInverse, WithinCapacity
    PROVE  IsFiniteSet(ExportFake) /\ Importable(ExportFake)
<1> DEFINE f == [k \in DOMAIN by_name |-> <<k[1], by_name[k]>>]
<1>1. f \in Surjection(DOMAIN by_name, ExportFake)
  <2>1. \A k \in DOMAIN by_name : f[k] \in ExportFake
    BY Zenon DEF MapsInverse, ExportFake
  <2>2. \A e \in ExportFake : \E k \in DOMAIN by_name : f[k] = e
    <3>1. TAKE e \in ExportFake
    <3>2. PICK ip \in DOMAIN by_ip : e = <<by_ip[ip], ip>>
      BY Zenon DEF ExportFake
    <3>3. f[<<by_ip[ip], ip[1]>>] = e
      BY <3>2, Zenon DEF MapsInverse
    <3> QED BY <3>3, Zenon DEF MapsInverse
  <2> QED BY <2>1, <2>2, Zenon DEF Surjection
<1>2. IsFiniteSet(ExportFake) /\ Cardinality(ExportFake) <= Cardinality(DOMAIN by_name)
  BY <1>1, FS_Surjection, Zenon DEF WithinCapacity
<1>3. Cardinality(ExportFake) <= Capacity
  BY <1>2, FS_CardinalityType, FakeIpConstants DEF WithinCapacity
<1>4. \A e \in ExportFake : e[2] \in Ips
  BY DEF ExportFake, TypeOK, FakeTypeOK
<1>5. ASSUME NEW d \in ExportFake, NEW e \in ExportFake,
             d[2] = e[2] \/ (d[1] = e[1] /\ d[2][1] = e[2][1])
      PROVE  d = e
  <2>1. PICK i \in DOMAIN by_ip : d = <<by_ip[i], i>>
    BY Zenon DEF ExportFake
  <2>2. PICK j \in DOMAIN by_ip : e = <<by_ip[j], j>>
    BY Zenon DEF ExportFake
  <2> QED BY <1>5, <2>1, <2>2, Zenon DEF MapsInverse
<1> QED BY <1>2, <1>3, <1>4, <1>5, Zenon DEF Importable

\* import_fake builds the two maps from the accepted entries.
LEMMA ImportFacts ==
    ASSUME NEW S \in SUBSET Entries, IsFiniteSet(S), ImportFake(S)
    PROVE  /\ DOMAIN by_ip' = {e[2] : e \in S}
           /\ DOMAIN by_name' = {<<e[1], e[2][1]>> : e \in S}
           /\ \A e \in S : /\ e = <<e[1], <<e[2][1], e[2][2]>>>>
                           /\ e[1] \in Names /\ e[2] \in Ips /\ e[2][1] \in Families
                           /\ e[2][2] \in Nat /\ e[2][2] >= 2
                           /\ by_ip'[e[2]] = e[1]
                           /\ by_name'[<<e[1], e[2][1]>>] = e[2]
                           /\ e[2][2] < next'[e[2][1]]
           /\ by_ip' \in [DOMAIN by_ip' -> Names]
           /\ by_name' \in [DOMAIN by_name' -> Ips]
           /\ next' \in [Families -> Nat]
           /\ \A f \in Families : next'[f] >= 2
<1>1. \A e \in S : /\ e = <<e[1], <<e[2][1], e[2][2]>>>> /\ e[2] = <<e[2][1], e[2][2]>>
                   /\ e[1] \in Names /\ e[2] \in Ips /\ e[2][1] \in Families
                   /\ e[2][2] \in Nat /\ e[2][2] >= 2
  <2>1. TAKE e \in S
  <2>2. e \in Names \X (Families \X Nat) /\ e[2] \in Ips
    BY Zenon DEF Entries, ImportFake, Importable
  <2>3. e[2][2] \in 2 .. Last[e[2][1]] /\ e[2][1] \in Families
    BY <2>2, Zenon DEF Ips, Offsets
  <2>4. Last[e[2][1]] \in Nat
    BY <2>3, FakeIpConstants, Zenon
  <2> QED BY <2>2, <2>3, <2>4
<1>2. /\ DOMAIN by_ip' = {e[2] : e \in S}
      /\ \A ip \in DOMAIN by_ip' : by_ip'[ip] = (CHOOSE e \in S : e[2] = ip)[1]
      /\ DOMAIN by_name' = {<<e[1], e[2][1]>> : e \in S}
      /\ \A k \in DOMAIN by_name' :
            by_name'[k] = (CHOOSE e \in S : <<e[1], e[2][1]>> = k)[2]
      /\ by_ip' = [ip \in DOMAIN by_ip' |-> by_ip'[ip]]
      /\ by_name' = [k \in DOMAIN by_name' |-> by_name'[k]]
  BY DEF ImportFake
<1>3. ASSUME NEW e \in S
      PROVE  by_ip'[e[2]] = e[1] /\ by_name'[<<e[1], e[2][1]>>] = e[2]
  <2> DEFINE d == CHOOSE c \in S : c[2] = e[2]
             g == CHOOSE c \in S : <<c[1], c[2][1]>> = <<e[1], e[2][1]>>
  <2>1. d \in S /\ d[2] = e[2]
    BY Zenon
  <2>2. g \in S /\ <<g[1], g[2][1]>> = <<e[1], e[2][1]>>
    BY Zenon
  <2>3. d = e /\ g = e
    BY <2>1, <2>2, Zenon DEF ImportFake, Importable
  <2>4. e[2] \in DOMAIN by_ip' /\ <<e[1], e[2][1]>> \in DOMAIN by_name'
    BY <1>2, Zenon
  <2> QED BY <1>2, <2>3, <2>4
<1>4. by_ip' \in [DOMAIN by_ip' -> Names]
  BY <1>1, <1>2, <1>3
<1>5. by_name' \in [DOMAIN by_name' -> Ips]
  BY <1>1, <1>2, <1>3
<1>6. next' \in [Families -> Nat]
  BY <1>1 DEF ImportFake
<1>7. \A f \in Families : IsNextAfter(S, f, next'[f])
  BY Zenon DEF ImportFake
<1>8. \A e \in S : e[2][2] < next'[e[2][1]]
  BY <1>1, <1>7, Zenon DEF IsNextAfter
<1>9. \A f \in Families : next'[f] >= 2
  <2>1. TAKE f \in Families
  <2>2. CASE next'[f] = 2
    BY <2>2
  <2>3. CASE \E e \in S : e[2] = <<f, next'[f] - 1>>
    BY <1>1, <1>6, <2>3
  <2> QED BY <1>7, <2>2, <2>3, Zenon DEF IsNextAfter
<1> QED BY <1>1, <1>2, <1>3, <1>4, <1>5, <1>6, <1>8, <1>9, Zenon

-----------------------------------------------------------------------------
\* A core that is not started has an empty table and whatever profile an
\* earlier process left.
LEMMA InitIInv == Init => IInv
<1> SUFFICES ASSUME Init PROVE IInv
  BY Zenon
<1>1. DOMAIN by_name = {} /\ DOMAIN by_ip = {}
      /\ by_name = [x \in DOMAIN by_name |-> by_name[x]]
      /\ by_ip = [x \in DOMAIN by_ip |-> by_ip[x]]
  BY Zenon DEF Init, FakeInit, NewFakeMap, EmptyMap
<1>2. TypeOK
  BY <1>1, ProfileConstants, Zenon DEF Init, FakeInit, NewFakeMap, TypeOK, FakeTypeOK
<1>3. WithinCapacity
  BY <1>1, FS_EmptySet, FakeIpConstants DEF WithinCapacity
<1>4. RestoresWhatWasAnswered
  BY RepliesDistinct, Zenon DEF RestoresWhatWasAnswered, Init, FakeInit
<1>5. DiskFinite
  BY ProfileConstants, Zenon DEF DiskFinite, Init
<1>6. MapsInverse /\ NextIsFree
  BY <1>1, Zenon DEF MapsInverse, NextIsFree
<1>7. DownIsEmpty /\ NextPastReserved /\ SnapshotsHonoured /\ SavedMappingsHonoured
  BY <1>1 DEF Init, FakeInit, NewFakeMap, DownIsEmpty, NextPastReserved,
     SnapshotsHonoured, SavedMappingsHonoured
<1> QED BY <1>2, <1>3, <1>4, <1>5, <1>6, <1>7, Zenon DEF IInv

\* load_profile: the table becomes what the profile says.
LEMMA LoadIInv == IInv /\ LoadProfile => IInv'
<1> SUFFICES ASSUME IInv, LoadProfile PROVE IInv'
  BY Zenon
<1>0. disk \in SUBSET Entries /\ IsFiniteSet(disk) /\ ImportFake(disk)
  BY Zenon DEF IInv, TypeOK, DiskFinite, LoadProfile
<1>f. /\ DOMAIN by_ip' = {e[2] : e \in disk}
      /\ DOMAIN by_name' = {<<e[1], e[2][1]>> : e \in disk}
      /\ \A e \in disk : /\ e = <<e[1], <<e[2][1], e[2][2]>>>>
                         /\ e[1] \in Names /\ e[2] \in Ips /\ e[2][1] \in Families
                         /\ e[2][2] \in Nat /\ e[2][2] >= 2
                         /\ by_ip'[e[2]] = e[1]
                         /\ by_name'[<<e[1], e[2][1]>>] = e[2]
                         /\ e[2][2] < next'[e[2][1]]
      /\ by_ip' \in [DOMAIN by_ip' -> Names]
      /\ by_name' \in [DOMAIN by_name' -> Ips]
      /\ next' \in [Families -> Nat]
      /\ \A f \in Families : next'[f] >= 2
  BY <1>0, ImportFacts, Zenon
<1>u. /\ phase = "down" /\ phase' = "up" /\ UNCHANGED <<reply, disk, saving, snapshot>>
      /\ (\A s \in saving : snapshot[s] = {}) /\ \A k \in Keys : reply[k] = NoReply
  BY Zenon DEF LoadProfile, IInv, DownIsEmpty
<1>1. TypeOK'
  <2>1. DOMAIN by_name' \subseteq Keys /\ DOMAIN by_ip' \subseteq Ips
    <3>1. \A e \in disk : <<e[1], e[2][1]>> \in Keys /\ e[2] \in Ips
      <4>1. TAKE e \in disk
      <4>2. e[1] \in Names /\ e[2][1] \in Families /\ e[2] \in Ips
        BY <1>f, Zenon
      <4> QED BY <4>2, Zenon DEF Keys
    <3>2. DOMAIN by_ip' = {e[2] : e \in disk} /\ DOMAIN by_name' = {<<e[1], e[2][1]>> : e \in disk}
      BY <1>f
    <3> QED BY <3>1, <3>2, Zenon
  <2> QED BY <1>f, <1>u, <2>1, Zenon DEF IInv, TypeOK, FakeTypeOK
<1>d. DOMAIN by_ip' = {e[2] : e \in disk} /\ DOMAIN by_name' = {<<e[1], e[2][1]>> : e \in disk}
  BY <1>f, Zenon
<1>v. ASSUME NEW e \in disk
      PROVE  /\ e = <<e[1], e[2]>> /\ e[2] = <<e[2][1], e[2][2]>> /\ by_ip'[e[2]] = e[1]
             /\ by_name'[<<e[1], e[2][1]>>] = e[2] /\ e[2][2] < next'[e[2][1]]
             /\ e[2] \in DOMAIN by_ip' /\ <<e[1], e[2][1]>> \in DOMAIN by_name'
  <2>1. /\ by_ip'[e[2]] = e[1] /\ by_name'[<<e[1], e[2][1]>>] = e[2] /\ e[2][2] < next'[e[2][1]]
    BY <1>f, Zenon
  <2>2. e \in Names \X (Families \X Nat)
    BY <1>0, Zenon DEF Entries
  <2> QED BY <1>d, <2>1, <2>2
<1>2. MapsInverse' /\ NextIsFree'
  <2>1. ASSUME NEW j \in DOMAIN by_name'
        PROVE  by_name'[j] \in DOMAIN by_ip' /\ by_ip'[by_name'[j]] = j[1]
               /\ by_name'[j][1] = j[2]
    <3>1. PICK e \in disk : j = <<e[1], e[2][1]>>
      BY <1>d, Zenon
    <3> QED BY <3>1, <1>v, Zenon
  <2>2. ASSUME NEW i \in DOMAIN by_ip'
        PROVE  <<by_ip'[i], i[1]>> \in DOMAIN by_name'
               /\ by_name'[<<by_ip'[i], i[1]>>] = i /\ i[2] < next'[i[1]]
    <3>1. PICK e \in disk : i = e[2]
      BY <1>d, Zenon
    <3> QED BY <3>1, <1>v, Zenon
  <2> QED BY <2>1, <2>2, Zenon DEF MapsInverse, NextIsFree
<1>3. WithinCapacity'
  <2> DEFINE f == [e \in disk |-> <<e[1], e[2][1]>>]
  <2>1. f \in Surjection(disk, DOMAIN by_name')
    BY <1>f, Zenon DEF Surjection
  <2>2. IsFiniteSet(DOMAIN by_name') /\ Cardinality(DOMAIN by_name') <= Cardinality(disk)
    BY <1>0, <2>1, FS_Surjection, Zenon
  <2>3. Cardinality(disk) <= Capacity
    BY <1>0, Zenon DEF ImportFake, Importable
  <2>4. Cardinality(disk) \in Nat /\ Cardinality(DOMAIN by_name') \in Nat /\ Capacity \in Nat
    BY <1>0, <2>2, FS_CardinalityType, FakeIpConstants, Zenon
  <2> QED BY <2>2, <2>3, <2>4 DEF WithinCapacity
<1>4. RestoresWhatWasAnswered'
  BY <1>u, RepliesDistinct, Zenon DEF RestoresWhatWasAnswered
<1>5. DownIsEmpty' /\ NextPastReserved' /\ SnapshotsHonoured' /\ DiskFinite'
  BY <1>0, <1>f, <1>u, Zenon DEF DownIsEmpty, NextPastReserved, SnapshotsHonoured, DiskFinite
<1>6. SavedMappingsHonoured'
  <2>1. \A e \in disk : e \in ExportFake'
    <3>1. TAKE e \in disk
    <3>2. e[2] \in DOMAIN by_ip' /\ e = <<by_ip'[e[2]], e[2]>>
      BY <1>v, Zenon
    <3> QED BY <3>2, Zenon DEF ExportFake
  <2> QED BY <2>1, <1>u, Zenon DEF SavedMappingsHonoured
<1> QED BY <1>1, <1>2, <1>3, <1>4, <1>5, <1>6, Zenon DEF IInv

\* A query: the table stays or gains one pair whose address was free.
LEMMA AnswerIInv ==
    ASSUME IInv, NEW k \in Keys, Answer(k)
    PROVE  IInv'
<1>u. /\ phase = "up" /\ FakeAddress(k) /\ UNCHANGED <<phase, disk, saving, snapshot>>
      /\ TypeOK /\ MapsInverse /\ NextIsFree /\ WithinCapacity /\ NextPastReserved
  BY Zenon DEF Answer, IInv
<1>1. CASE k \in DOMAIN by_name /\ reply' = [reply EXCEPT ![k] = by_name[k]]
           /\ UNCHANGED <<by_name, by_ip, next>>
  <2>1. by_name[k] \in Ips /\ reply \in [Keys -> Ips \cup {ServFail, NoReply}]
    BY <1>1, <1>u, Zenon DEF TypeOK, FakeTypeOK
  <2>2. TypeOK'
    BY <1>1, <1>u, <2>1, Zenon DEF TypeOK, FakeTypeOK
  <2>3. RestoresWhatWasAnswered'
    BY <1>1, <1>u, <2>1 DEF IInv, RestoresWhatWasAnswered, MapsInverse, Original
  <2> QED BY <1>1, <1>u, <2>2, <2>3 DEF IInv, MapsInverse, NextIsFree, WithinCapacity,
        DownIsEmpty, NextPastReserved, SnapshotsHonoured, SavedMappingsHonoured,
        DiskFinite, ExportFake
<1>2. CASE k \notin DOMAIN by_name /\ reply' = [reply EXCEPT ![k] = ServFail]
           /\ UNCHANGED <<by_name, by_ip, next>>
  <2>1. reply \in [Keys -> Ips \cup {ServFail, NoReply}]
    BY <1>u, Zenon DEF TypeOK, FakeTypeOK
  <2>2. TypeOK'
    BY <1>2, <1>u, <2>1, Zenon DEF TypeOK, FakeTypeOK
  <2>3. RestoresWhatWasAnswered'
    BY <1>2, <1>u, <2>1, RepliesDistinct, Zenon DEF IInv, RestoresWhatWasAnswered, Original
  <2> QED BY <1>2, <1>u, <2>2, <2>3 DEF IInv, MapsInverse, NextIsFree, WithinCapacity,
        DownIsEmpty, NextPastReserved, SnapshotsHonoured, SavedMappingsHonoured,
        DiskFinite, ExportFake
<1>3. CASE /\ k \notin DOMAIN by_name /\ Cardinality(DOMAIN by_name) < Capacity
           /\ next[k[2]] \in Offsets(k[2]) /\ Allocate(k)
  <2> DEFINE ip == <<k[2], next[k[2]]>>
  <2>k. k[1] \in Names /\ k[2] \in Families /\ k = <<k[1], k[2]>>
    BY DEF Keys
  <2>f. /\ ip \in Ips /\ ip \notin DOMAIN by_ip
        /\ DOMAIN by_name' = DOMAIN by_name \cup {k}
        /\ DOMAIN by_ip' = DOMAIN by_ip \cup {ip}
        /\ by_name'[k] = ip /\ by_ip'[ip] = k[1]
        /\ \A j \in DOMAIN by_name : by_name'[j] = by_name[j]
        /\ \A j \in DOMAIN by_ip : by_ip'[j] = by_ip[j]
        /\ by_name' \in [DOMAIN by_name' -> Ips]
        /\ by_ip' \in [DOMAIN by_ip' -> Names]
        /\ next' \in [Families -> Nat]
        /\ next'[k[2]] = next[k[2]] + 1
        /\ \A f \in Families : f # k[2] => next'[f] = next[f]
        /\ reply' = [reply EXCEPT ![k] = ip]
    BY <1>u, <1>3, AllocateFacts, Zenon
  <2>t. /\ reply \in [Keys -> Ips \cup {ServFail, NoReply}] /\ next \in [Families -> Nat]
        /\ DOMAIN by_name \subseteq Keys /\ DOMAIN by_ip \subseteq Ips
    BY <1>u, Zenon DEF TypeOK, FakeTypeOK
  <2>1. TypeOK'
    BY <1>u, <2>f, <2>t, Zenon DEF TypeOK, FakeTypeOK
  <2>2. MapsInverse'
    <3>1. ASSUME NEW j \in DOMAIN by_name'
          PROVE  by_name'[j] \in DOMAIN by_ip' /\ by_ip'[by_name'[j]] = j[1]
                 /\ by_name'[j][1] = j[2]
      BY <1>u, <2>f DEF MapsInverse
    <3>2. ASSUME NEW i \in DOMAIN by_ip'
          PROVE  <<by_ip'[i], i[1]>> \in DOMAIN by_name'
                 /\ by_name'[<<by_ip'[i], i[1]>>] = i
      BY <1>u, <2>f, <2>k DEF MapsInverse
    <3> QED BY <3>1, <3>2, Zenon DEF MapsInverse
  <2>3. NextIsFree' /\ NextPastReserved'
    <3>1. \A i \in DOMAIN by_ip : i[1] \in Families /\ i[2] \in Nat
      BY <2>t, Zenon DEF Ips
    <3>2. NextIsFree'
      BY <1>u, <2>f, <2>k, <2>t, <3>1 DEF NextIsFree
    <3>3. NextPastReserved'
      BY <1>u, <2>f, <2>k, <2>t DEF NextPastReserved
    <3> QED BY <3>2, <3>3, Zenon
  <2>4. WithinCapacity'
    <3>1. IsFiniteSet(DOMAIN by_name) /\ Cardinality(DOMAIN by_name) \in Nat
      BY <1>u, FS_CardinalityType, Zenon DEF WithinCapacity
    <3>2. /\ IsFiniteSet(DOMAIN by_name')
          /\ Cardinality(DOMAIN by_name') = Cardinality(DOMAIN by_name) + 1
      BY <1>3, <2>f, <3>1, FS_AddElement
    <3> QED BY <1>3, <3>1, <3>2, FakeIpConstants DEF WithinCapacity
  <2>5. RestoresWhatWasAnswered'
    <3>1. ASSUME NEW j \in Keys, reply'[j] \in Ips
          PROVE  reply'[j] \in DOMAIN by_ip' /\ by_ip'[reply'[j]] = j[1]
                 /\ reply'[j][1] = j[2]
      <4>1. CASE j = k
        BY <4>1, <2>f, <2>t, Zenon
      <4>2. CASE j # k
        BY <3>1, <4>2, <2>f, <2>t, Zenon DEF IInv, RestoresWhatWasAnswered, Original
      <4> QED BY <4>1, <4>2, Zenon
    <3> QED BY <3>1, Zenon DEF RestoresWhatWasAnswered, Original
  <2>6. ExportFake \subseteq ExportFake'
    BY <2>f DEF ExportFake
  <2>7. DownIsEmpty' /\ SnapshotsHonoured' /\ SavedMappingsHonoured' /\ DiskFinite'
    BY <1>u, <2>6, Zenon DEF IInv, DownIsEmpty, SnapshotsHonoured, SavedMappingsHonoured, DiskFinite
  <2> QED BY <2>1, <2>2, <2>3, <2>4, <2>5, <2>7, Zenon DEF IInv
<1> QED BY <1>1, <1>2, <1>3, <1>u, FakeAddressCases, Zenon

\* Saving and failing to save leave the table alone; a restart empties it.
LEMMA OtherIInv ==
    ASSUME IInv,
           \/ LoadFails \/ Restart \/ UNCHANGED vars
           \/ \E s \in Savers : BeginSave(s) \/ EndSave(s) \/ SaveFails(s)
    PROVE  IInv'
<1>t. /\ TypeOK /\ MapsInverse /\ NextIsFree /\ WithinCapacity /\ RestoresWhatWasAnswered
      /\ DownIsEmpty /\ NextPastReserved /\ SnapshotsHonoured /\ SavedMappingsHonoured
      /\ DiskFinite
  BY Zenon DEF IInv
<1>e. IsFiniteSet(ExportFake) /\ ExportFake \in SUBSET Entries
  <2>1. ExportFake \in SUBSET Entries
    BY <1>t DEF TypeOK, FakeTypeOK, ExportFake, Entries, Ips
  <2> QED BY <1>t, <2>1, ExportIsImportable, Zenon
<1>a. ASSUME UNCHANGED <<by_name, by_ip, next, reply>>, UNCHANGED phase
      PROVE  /\ FakeTypeOK' /\ MapsInverse' /\ NextIsFree' /\ WithinCapacity'
             /\ RestoresWhatWasAnswered' /\ NextPastReserved' /\ ExportFake' = ExportFake
  BY <1>a, <1>t, Zenon DEF TypeOK, FakeTypeOK, MapsInverse, NextIsFree, WithinCapacity,
     RestoresWhatWasAnswered, NextPastReserved, ExportFake, Original
<1>1. CASE LoadFails
  <2>1. ExportFake' = ExportFake
    BY <1>1, Zenon DEF LoadFails, ExportFake
  <2> QED BY <1>1, <1>t, <2>1, Zenon DEF LoadFails, IInv, TypeOK, FakeTypeOK, MapsInverse, NextIsFree,
     WithinCapacity, RestoresWhatWasAnswered, NextPastReserved, DownIsEmpty,
     SnapshotsHonoured, SavedMappingsHonoured, DiskFinite, Original
<1>2. CASE Restart
  <2>1. DOMAIN by_name' = {} /\ DOMAIN by_ip' = {}
        /\ by_name' = [x \in DOMAIN by_name' |-> by_name'[x]]
        /\ by_ip' = [x \in DOMAIN by_ip' |-> by_ip'[x]]
    BY <1>2, Zenon DEF Restart, EmptyMap
  <2>2. TypeOK'
    BY <1>2, <1>t, <2>1, Zenon DEF Restart, TypeOK, FakeTypeOK
  <2>3. WithinCapacity'
    BY <2>1, FS_EmptySet, FakeIpConstants DEF WithinCapacity
  <2>4. RestoresWhatWasAnswered'
    BY <1>2, RepliesDistinct, Zenon DEF Restart, RestoresWhatWasAnswered
  <2>5. MapsInverse' /\ NextIsFree'
    BY <2>1, Zenon DEF MapsInverse, NextIsFree
  <2>6. DownIsEmpty' /\ NextPastReserved' /\ SnapshotsHonoured' /\ SavedMappingsHonoured' /\ DiskFinite'
    BY <1>2, <1>t, <2>1 DEF Restart, DownIsEmpty, NextPastReserved, SnapshotsHonoured,
       SavedMappingsHonoured, DiskFinite
  <2> QED BY <2>2, <2>3, <2>4, <2>5, <2>6, Zenon DEF IInv
<1>3. CASE UNCHANGED vars
  BY <1>3, <1>t, <1>a, Zenon DEF vars, IInv, TypeOK, DownIsEmpty, SnapshotsHonoured,
     SavedMappingsHonoured, DiskFinite
<1>4. ASSUME NEW s \in Savers, BeginSave(s) PROVE IInv'
  <2>1. /\ UNCHANGED <<by_name, by_ip, next, reply, phase, disk>> /\ saving' = saving \cup {s}
        /\ snapshot' = [snapshot EXCEPT ![s] = ExportFake]
    BY <1>4, Zenon DEF BeginSave
  <2>2. phase # "up" => ExportFake = {}
    BY <1>t, Zenon DEF DownIsEmpty, ExportFake
  <2>3. /\ snapshot' \in [Savers -> SUBSET Entries]
        /\ \A x \in saving' : snapshot'[x] = snapshot[x] \/ (x = s /\ snapshot'[x] = ExportFake)
        /\ \A x \in saving' : x = s \/ x \in saving
        /\ snapshot'[s] = ExportFake
    BY <1>t, <1>e, <2>1, Zenon DEF TypeOK
  <2>4. TypeOK'
    BY <1>t, <1>a, <2>1, <2>3, Zenon DEF TypeOK
  <2>5. DownIsEmpty' /\ SnapshotsHonoured'
    BY <1>t, <1>a, <2>1, <2>2, <2>3, Zenon DEF DownIsEmpty, SnapshotsHonoured
  <2> QED BY <1>t, <1>a, <2>1, <2>4, <2>5, Zenon DEF IInv, SavedMappingsHonoured, DiskFinite
<1>5. ASSUME NEW s \in Savers, EndSave(s) PROVE IInv'
  <2>1. snapshot[s] \subseteq ExportFake /\ snapshot[s] \in SUBSET Entries
    BY <1>5, <1>t, Zenon DEF EndSave, SnapshotsHonoured, TypeOK
  <2>2. IsFiniteSet(snapshot[s])
    BY <1>e, <2>1, FS_Subset, Zenon
  <2> QED BY <1>5, <1>t, <1>a, <2>1, <2>2, Zenon DEF EndSave, IInv, TypeOK, DownIsEmpty,
     SnapshotsHonoured, SavedMappingsHonoured, DiskFinite
<1>6. ASSUME NEW s \in Savers, SaveFails(s) PROVE IInv'
  BY <1>6, <1>t, <1>a, Zenon DEF SaveFails, IInv, TypeOK, DownIsEmpty,
     SnapshotsHonoured, SavedMappingsHonoured, DiskFinite
<1> QED BY <1>1, <1>2, <1>3, <1>4, <1>5, <1>6, Zenon

-----------------------------------------------------------------------------
\* IInv is inductive: it holds before the core starts, and loading, answering,
\* saving, failing and restarting preserve it.
THEOREM ProfileInvariant == Spec => []IInv
<1>1. IInv /\ [Next]_vars => IInv'
  BY LoadIInv, AnswerIInv, OtherIInv, Zenon DEF Next
<1> QED BY InitIInv, <1>1, PTL DEF Spec

\* Type correctness of the table, the profile and the saves in flight.
THEOREM ProfileTypeCorrect == Spec => []TypeOK
<1>1. IInv => TypeOK
  BY Zenon DEF IInv
<1> QED BY <1>1, ProfileInvariant, PTL

\* Every address ever answered in a core's lifetime restores to the name it
\* was answered for.
THEOREM AnswersRestored == Spec => []RestoresWhatWasAnswered
<1>1. IInv => RestoresWhatWasAnswered
  BY Zenon DEF IInv
<1> QED BY <1>1, ProfileInvariant, PTL

\* A running core honours every mapping of the profile, whichever of any
\* number of concurrent saves renamed last.
THEOREM SavedMappingsAreHonoured == Spec => []SavedMappingsHonoured
<1>1. IInv => SavedMappingsHonoured
  BY Zenon DEF IInv
<1> QED BY <1>1, ProfileInvariant, PTL

\* The table never exceeds its capacity, by growth or by import.
THEOREM TableBounded == Spec => []WithinCapacity
<1>1. IInv => WithinCapacity
  BY Zenon DEF IInv
<1> QED BY <1>1, ProfileInvariant, PTL

\* A name keeps its address for the core's lifetime.
THEOREM AnswersStable == Spec => StableAnswers
<1>1. ASSUME IInv, [Next]_vars
      PROVE  [phase' = "up" => \A k \in Keys : reply[k] \in Ips => reply'[k] = reply[k]]_vars
  <2>1. SUFFICES ASSUME Next, phase' = "up", NEW k \in Keys, reply[k] \in Ips
                 PROVE  reply'[k] = reply[k]
    BY <1>1, Zenon
  <2>t. reply \in [Keys -> Ips \cup {ServFail, NoReply}] /\ MapsInverse /\ RestoresWhatWasAnswered
    BY <1>1, Zenon DEF IInv, TypeOK, FakeTypeOK
  <2>n. /\ reply[k] \in DOMAIN by_ip /\ by_ip[reply[k]] = k[1] /\ NoReply \notin Ips
    BY <2>1, <2>t, RepliesDistinct, Zenon DEF RestoresWhatWasAnswered, Original
  <2>2. ASSUME NEW j \in Keys, Answer(j) PROVE reply'[k] = reply[k]
    <3>1. CASE j # k
      BY <2>2, <3>1, <2>t, FakeAddressCases, Zenon DEF Answer, Allocate
    <3>2. CASE j = k
      <4>1. <<k[1], reply[k][1]>> \in DOMAIN by_name /\ by_name[<<k[1], reply[k][1]>>] = reply[k]
        BY <2>n, <2>t, Zenon DEF MapsInverse
      <4>2. k = <<k[1], reply[k][1]>>
        BY <2>1, <2>t DEF RestoresWhatWasAnswered, Keys
      <4>3. reply' = [reply EXCEPT ![k] = by_name[k]]
        BY <2>2, <3>2, <4>1, <4>2, FakeAddressCases, Zenon DEF Answer
      <4> QED BY <4>1, <4>2, <4>3, <2>t, Zenon
    <3> QED BY <3>1, <3>2, Zenon
  <2>3. ~Restart /\ ~LoadFails
    BY <2>1, Zenon DEF Restart, LoadFails
  <2>4. CASE LoadProfile \/ \E s \in Savers : BeginSave(s) \/ EndSave(s) \/ SaveFails(s)
    BY <2>4, Zenon DEF LoadProfile, BeginSave, EndSave, SaveFails
  <2> QED BY <2>1, <2>2, <2>3, <2>4, Zenon DEF Next
<1> QED BY <1>1, ProfileInvariant, PTL DEF Spec, StableAnswers

\* What the core writes, the next import accepts.
THEOREM WrittenProfilesImportable == Spec => StaysImportable
<1>1. ASSUME IInv, [Next]_vars PROVE [phase = "up" => Importable(disk')]_vars
  <2>1. SUFFICES ASSUME phase = "up", Next PROVE Importable(disk')
    BY <1>1, Zenon
  <2>2. IsFiniteSet(ExportFake) /\ Importable(ExportFake)
    BY <1>1, ExportIsImportable, Zenon DEF IInv
  <2>3. disk' \subseteq ExportFake
    BY <1>1, <2>1, Zenon DEF IInv, Next, SavedMappingsHonoured, SnapshotsHonoured, LoadProfile,
       LoadFails, Restart, Answer, BeginSave, EndSave, SaveFails
  <2>4. /\ IsFiniteSet(disk') /\ Cardinality(disk') <= Cardinality(ExportFake)
        /\ Cardinality(disk') \in Nat /\ Cardinality(ExportFake) \in Nat
    BY <2>2, <2>3, FS_Subset, FS_CardinalityType, Zenon
  <2> QED BY <2>2, <2>3, <2>4, FakeIpConstants DEF Importable
<1> QED BY <1>1, ProfileInvariant, PTL DEF Spec, StaysImportable

-----------------------------------------------------------------------------
(* The answer cache                                                         *)

Types ==
    /\ now \in Nat /\ epoch \in Nat /\ clean \in Nat /\ clean <= epoch
    /\ overtaken \subseteq Clients
    /\ task \in [Clients -> [at : {"idle", "ask"}, key : Requests \union {{}}, server : Nat, from : Nat]]
    /\ \A c \in Clients : task[c].from <= epoch

\* A query that began before the cache was last emptied is known to be overtaken.
Flight == \A c \in Clients : task[c].at = "ask" /\ task[c].from < clean => c \in overtaken

Sound(e) ==
    /\ e.response \in Responses /\ Storable(e.response)
    /\ e.inserted \in Nat /\ e.inserted <= now /\ e.expires = e.inserted + Lifetime(e.response)

EntriesSound == \A k \in Cached : Sound(cache[k])

CacheInv == Types /\ Flight /\ EntriesSound /\ StaleNeedsFlight

Sized == IsFiniteSet(Cached) /\ EntriesBounded

\* Every set of numbers that is not empty has a least one, and Min finds it.
LEMMA MinNat ==
    ASSUME NEW S, S \subseteq Nat, S # {}
    PROVE  Min(S) \in S /\ \A y \in S : Min(S) <= y
  <1>1. \E x \in S : \A y \in S : ~(y < x)
    <2>1. PICK x \in S : \A y \in S : ~(<<y, x>> \in OpToRel(<, Nat))
      BY WFMin, NatLessThanWellFounded, Zenon
    <2>2. \A y \in S : ~(y < x)
      BY <2>1, Zenon DEF OpToRel
    <2>. QED
      BY <2>2, Zenon
  <1>2. PICK x \in S : \A y \in S : ~(y < x)
    BY <1>1, Zenon
  <1>3. \A y \in S : x <= y
    BY <1>2
  <1>. QED
    BY <1>3, Zenon DEF Min

\* The lifetime of a response that is stored is at most every TTL it is taken
\* from, of which there is one.
LEMMA LifetimeBound ==
    ASSUME NEW r \in Responses, Storable(r)
    PROVE  Ttls(r) # {} /\ Lifetime(r) \in Nat /\ \A t \in Ttls(r) : t \in Nat /\ Lifetime(r) <= t
  <1>1. Ttls(r) \subseteq Nat
    BY DnsConstants, Zenon DEF Ttls
  <1>2. Ttls(r) # {}
    BY DEF Storable, Lifetime
  <1>3. Min(Ttls(r)) \in Nat /\ \A t \in Ttls(r) : Min(Ttls(r)) <= t
    BY <1>1, <1>2, MinNat, Zenon
  <1>. DEFINE m == Min(Ttls(r))
  <1>4. {m, MaxTtl} \subseteq Nat /\ {m, MaxTtl} # {}
    BY <1>3, DnsConstants, Zenon
  <1>5. Min({m, MaxTtl}) \in Nat /\ Min({m, MaxTtl}) <= m
    BY <1>4, MinNat, Zenon
  <1>6. Lifetime(r) = Min({m, MaxTtl})
    BY <1>2, Zenon DEF Lifetime
  <1>7. \A t \in Ttls(r) : t \in Nat /\ Lifetime(r) <= t
    BY <1>1, <1>3, <1>5, <1>6
  <1>. QED
    BY <1>2, <1>5, <1>6, <1>7, Zenon

\* Initially the cache is empty and no lookup is under way.
LEMMA InitInv == CacheInit => CacheInv /\ Sized
  <1>. SUFFICES ASSUME CacheInit PROVE CacheInv /\ Sized
    BY Zenon
  <1>1. Cached = {}
    BY DEF CacheInit, Cached
  <1>2. CacheInv
    BY <1>1 DEF CacheInit, Idle, CacheInv, Types, Flight, EntriesSound, StaleNeedsFlight
  <1>3. Sized
    BY <1>1, FS_EmptySet, DnsConstants DEF Sized, EntriesBounded
  <1>. QED
    BY <1>2, <1>3, Zenon

\* What a step leaves in the cache is sound: the lemma for an answer, the only
\* step that adds an entry.
LEMMA AnswerEntries ==
    ASSUME CacheInv, NEW c \in Clients, NEW r \in Responses, Answered(c, r)
    PROVE  /\ EntriesSound' /\ StaleNeedsFlight'
           /\ \/ cache' = cache
              \/ \E K \in SUBSET ({k \in Cached : Live(k)} \ {task[c].key}) :
                    /\ YoungestOf(K, {k \in Cached : Live(k)} \ {task[c].key})
                    /\ Cardinality(K) < Cap /\ DOMAIN cache' = K \union {task[c].key}
                    /\ \A k \in K : cache'[k] = cache[k]
                    /\ cache'[task[c].key].inserted = now
  <1>. USE DEF CacheInv, Types, EntriesSound, StaleNeedsFlight
  <1>1. now' = now /\ clean' = clean
    BY Zenon DEF Answered
  <1>2. CASE cache' = cache
    BY <1>1, <1>2, Zenon DEF Cached, Sound
  <1>3. CASE cache' # cache
    <2>. DEFINE key == task[c].key
                live == {k \in Cached : Live(k)} \ {key}
    <2>1. Storable(r) /\ task[c].at = "ask"
      BY <1>3, Zenon DEF Answered
    <2>2. PICK K \in SUBSET live :
             /\ Leaves(K, live, r.size)
             /\ cache' = [k \in K \union {key} |-> IF k = key THEN Entry(c, r) ELSE cache[k]]
      BY <1>3, Zenon DEF Answered
    <2>3. DOMAIN cache' = K \union {key} /\ cache'[key] = Entry(c, r)
      BY <2>2, Zenon
    <2>4. \A k \in K : cache'[k] = cache[k] /\ k \in Cached
      BY <2>2, Zenon
    <2>6. cache'[key].inserted = now /\ cache'[key].response = r
          /\ cache'[key].expires = now + Lifetime(r) /\ cache'[key].from = task[c].from
      BY <2>3 DEF Entry
    <2>7. task[c].from < clean => cache'[key].overtaken
      <3>1. task[c].from < clean => c \in overtaken
        BY <2>1, Zenon DEF Flight
      <3>2. Entry(c, r).overtaken = (c \in overtaken)
        BY Zenon DEF Entry
      <3>3. cache'[key].overtaken = (c \in overtaken)
        BY <2>3, <3>2, Zenon
      <3>. QED
        BY <3>1, <3>3, Zenon
    <2>8. EntriesSound'
      BY <1>1, <2>1, <2>3, <2>4, <2>6 DEF Cached, Sound
    <2>9. StaleNeedsFlight'
      BY <1>1, <2>3, <2>4, <2>6, <2>7, Zenon DEF Cached
    <2>10. YoungestOf(K, live) /\ Cardinality(K) < Cap
      BY <2>2, Zenon DEF Leaves, Fits
    <2>. QED
      BY <2>3, <2>4, <2>6, <2>8, <2>9, <2>10, Zenon
  <1>. QED
    BY <1>2, <1>3, Zenon

\* Every step keeps the inductive invariant.
LEMMA StepInv == CacheInv /\ [CacheNext]_cacheVars => CacheInv'
  <1>. SUFFICES ASSUME CacheInv, [CacheNext]_cacheVars PROVE CacheInv'
    BY Zenon
  <1>. USE DEF CacheInv
  <1>0. ASSUME UNCHANGED <<cache, clean>>, now <= now', now' \in Nat PROVE EntriesSound' /\ StaleNeedsFlight'
    <2>1. StaleNeedsFlight'
      BY <1>0, Zenon DEF StaleNeedsFlight, Cached
    <2>2. EntriesSound'
      BY <1>0 DEF EntriesSound, Cached, Sound, Types
    <2>. QED
      BY <2>1, <2>2, Zenon
  <1>1. ASSUME NEW c \in Clients, NEW k \in Requests, Hit(c, k) PROVE CacheInv'
    <2>1. UNCHANGED cacheVars
      BY <1>1, Zenon DEF Hit
    <2>. QED
      BY <2>1, <1>0 DEF cacheVars, Types, Flight
  <1>2. ASSUME NEW c \in Clients, NEW k \in Requests, Miss(c, k) PROVE CacheInv'
    <2>. DEFINE asking == [at |-> "ask", key |-> k, server |-> 1, from |-> epoch]
    <2>1. task' = [task EXCEPT ![c] = asking] /\ UNCHANGED <<now, epoch, clean, cache, overtaken>>
      BY <1>2, Zenon DEF Miss
    <2>2. task'[c] = asking /\ \A d \in Clients \ {c} : task'[d] = task[d]
      BY <2>1, Zenon DEF Types
    <2>3. Types'
      BY <2>1, <2>2 DEF Types
    <2>4. Flight'
      BY <2>1, <2>2 DEF Flight, Types
    <2>. QED
      BY <2>1, <2>3, <2>4, <1>0 DEF Types
  \* a lookup that ends leaves the other ones as they are
  <1>f. ASSUME NEW c \in Clients, Finish(c), UNCHANGED <<now, epoch, clean>> PROVE Types' /\ Flight'
    <2>1. task' = [task EXCEPT ![c] = Idle] /\ overtaken' = overtaken \ {c}
      BY <1>f, Zenon DEF Finish
    <2>2. task'[c] = Idle /\ \A d \in Clients \ {c} : task'[d] = task[d]
      BY <2>1, Zenon DEF Types
    <2>3. Types'
      BY <1>f, <2>1, <2>2 DEF Types, Idle
    <2>4. Flight'
      BY <1>f, <2>1, <2>2 DEF Flight, Idle
    <2>. QED
      BY <2>3, <2>4, Zenon
  <1>3. ASSUME NEW c \in Clients, NEW r \in Responses, Answered(c, r) PROVE CacheInv'
    <2>1. EntriesSound' /\ StaleNeedsFlight'
      BY <1>3, AnswerEntries, Zenon
    <2>2. Types' /\ Flight'
      BY <1>3, <1>f, Zenon DEF Answered
    <2>. QED
      BY <2>1, <2>2, Zenon
  <1>4. ASSUME NEW c \in Clients, ServerFails(c) PROVE CacheInv'
    <2>1. UNCHANGED <<now, epoch, clean, cache>>
      BY <1>4, Zenon DEF ServerFails
    <2>2. Types' /\ Flight'
      <3>1. CASE Finish(c)
        BY <3>1, <2>1, <1>f, Zenon
      <3>2. CASE task' = [task EXCEPT ![c].server = @ + 1] /\ UNCHANGED overtaken
        BY <3>2, <2>1 DEF Types, Flight
      <3>. QED
        BY <1>4, <3>1, <3>2, Zenon DEF ServerFails
    <2>. QED
      BY <2>1, <2>2, <1>0 DEF Types
  <1>5. ASSUME NEW c \in Clients, GiveUp(c) PROVE CacheInv'
    <2>1. Finish(c) /\ UNCHANGED <<now, epoch, clean, cache>>
      BY <1>5, Zenon DEF GiveUp
    <2>. QED
      BY <2>1, <1>0, <1>f DEF Types
  <1>6. CASE Change
    <2>1. epoch' = epoch + 1 /\ UNCHANGED <<now, clean, cache, task, overtaken>>
      BY <1>6, Zenon DEF Change
    <2>. QED
      BY <2>1, <1>0 DEF Types, Flight
  <1>7. CASE ClearCache
    <2>1. Types' /\ Flight'
      BY <1>7 DEF ClearCache, Types, Flight
    <2>. QED
      BY <1>7, <2>1 DEF ClearCache, Emptied, EntriesSound, StaleNeedsFlight, Cached
  <1>8. CASE Tick
    <2>1. now' = now + 1 /\ UNCHANGED <<epoch, clean, cache, task, overtaken>>
      BY <1>8, Zenon DEF Tick
    <2>. QED
      BY <2>1, <1>0 DEF Types, Flight
  <1>9. CASE UNCHANGED cacheVars
    BY <1>9, <1>0 DEF cacheVars, Types, Flight
  <1>. QED
    BY <1>1, <1>2, <1>3, <1>4, <1>5, <1>6, <1>7, <1>8, <1>9, Zenon DEF CacheNext

\* A step keeps the cache finite and within its capacity: an answer is added
\* to fewer than Cap entries.
LEMMA StepSized == CacheInv /\ Sized /\ [CacheNext]_cacheVars => Sized'
  <1>. SUFFICES ASSUME CacheInv, Sized, [CacheNext]_cacheVars PROVE Sized'
    BY Zenon
  <1>. USE DEF Sized, EntriesBounded, Cached
  <1>1. ASSUME NEW c \in Clients, NEW r \in Responses, Answered(c, r), cache' # cache PROVE Sized'
    <2>1. PICK K \in SUBSET Cached :
             Cardinality(K) < Cap /\ DOMAIN cache' = K \union {task[c].key}
      BY <1>1, AnswerEntries, Zenon
    <2>2. IsFiniteSet(K) /\ Cardinality(K) \in Nat
      BY <2>1, FS_Subset, FS_CardinalityType, Zenon
    <2>3. /\ IsFiniteSet(K \union {task[c].key})
          /\ Cardinality(K \union {task[c].key}) =
                IF task[c].key \in K THEN Cardinality(K) ELSE Cardinality(K) + 1
      BY <2>2, FS_AddElement, Zenon
    <2>. QED
      BY <2>1, <2>2, <2>3, DnsConstants
  <1>2. CASE ClearCache
    <2>1. DOMAIN cache' = {}
      BY <1>2 DEF ClearCache, Emptied
    <2>. QED
      BY <2>1, FS_EmptySet, DnsConstants
  <1>3. CASE cache' = cache
    BY <1>3, Zenon
  <1>. QED
    BY <1>1, <1>2, <1>3, Zenon DEF CacheNext, Hit, Miss, ServerFails, GiveUp, Change, Tick, cacheVars

\* The inductive invariant: every entry's lifetime is that of its response, and
\* queries from before the cache was emptied are known.
THEOREM Invariance == CacheSpec => [](CacheInv /\ Sized)
  BY InitInv, StepInv, StepSized, PTL DEF CacheSpec

\* The resolver never keeps more than Cap answers, whatever is asked and
\* answered.
THEOREM CacheBounded == CacheSpec => []EntriesBounded
  BY Invariance, PTL DEF Sized

\* After configure or network_changed empties the cache, the only answers from
\* before are those whose query was out at that time.
THEOREM StaleOnlyFromFlight == CacheSpec => []StaleNeedsFlight
  BY Invariance, PTL DEF CacheInv

\* No answer from the cache is older than any TTL it was stored for, and a
\* negative one has a SOA.
THEOREM HitsAlive == CacheSpec => []HitsAreAlive
  <1>1. CacheInv => HitsAreAlive
    <2>. SUFFICES ASSUME CacheInv, NEW k \in Requests, Served(k)
                  PROVE  /\ Ttls(cache[k].response) # {}
                         /\ \A t \in Ttls(cache[k].response) : now - cache[k].inserted < t
      BY Zenon DEF HitsAreAlive
    <2>1. Sound(cache[k]) /\ cache[k].expires > now /\ now \in Nat
      BY Zenon DEF CacheInv, Types, EntriesSound, Served, Live
    <2>2. /\ Ttls(cache[k].response) # {} /\ Lifetime(cache[k].response) \in Nat
          /\ \A t \in Ttls(cache[k].response) : t \in Nat /\ Lifetime(cache[k].response) <= t
      BY <2>1, LifetimeBound, Zenon DEF Sound
    <2>3. now - cache[k].inserted < Lifetime(cache[k].response)
      BY <2>1, <2>2 DEF Sound
    <2>. QED
      BY <2>1, <2>2, <2>3 DEF Sound
  <1>. QED
    BY <1>1, Invariance, PTL

\* Room is made at the expense of the oldest answers: the loop before the
\* insertion never removes a live answer younger than one it keeps.
THEOREM EvictionOrder == CacheSpec => EvictsOldest
  <1>. DEFINE A == clean' = clean =>
         \A gone \in {k \in Cached : Live(k)} \ DOMAIN cache' :
            \A kept \in Cached \intersect DOMAIN cache' :
               cache'[kept] = cache[kept] => cache[gone].inserted <= cache[kept].inserted
  <1>1. CacheInv /\ [CacheNext]_cacheVars => [A]_cacheVars
    <2>. SUFFICES ASSUME CacheInv, CacheNext PROVE A
      BY Zenon
    <2>1. ASSUME NEW c \in Clients, NEW r \in Responses, Answered(c, r), cache' # cache PROVE A
      <3>. DEFINE live == {k \in Cached : Live(k)} \ {task[c].key}
      <3>1. PICK K \in SUBSET live :
               /\ YoungestOf(K, live) /\ DOMAIN cache' = K \union {task[c].key}
               /\ cache'[task[c].key].inserted = now
        BY <2>1, AnswerEntries, Zenon
      <3>2. ASSUME NEW gone \in {k \in Cached : Live(k)} \ DOMAIN cache',
                   NEW kept \in Cached \intersect DOMAIN cache', cache'[kept] = cache[kept]
            PROVE  cache[gone].inserted <= cache[kept].inserted
        <4>1. gone \in live \ K
          BY <3>1, Zenon
        <4>2. CASE kept \in K
          BY <3>1, <4>1, <4>2, Zenon DEF YoungestOf, CacheInv, EntriesSound, Sound
        <4>3. CASE kept = task[c].key
          BY <3>1, <3>2, <4>1, <4>3, Zenon DEF CacheInv, EntriesSound, Sound
        <4>. QED
          BY <3>1, <4>2, <4>3, Zenon
      <3>. QED
        BY <3>2, Zenon
    <2>2. CASE cache' = cache
      BY <2>2, Zenon DEF Cached
    <2>3. CASE ClearCache
      BY <2>3 DEF ClearCache, CacheInv, Types
    <2>. QED
      BY <2>1, <2>2, <2>3, Zenon DEF CacheNext, Hit, Miss, ServerFails, GiveUp, Change, Tick, cacheVars
  <1>. QED
    BY <1>1, Invariance, PTL DEF CacheSpec, EvictsOldest
=============================================================================
