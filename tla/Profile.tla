------------------------------ MODULE Profile -------------------------------
(***************************************************************************)
(* The saved profile (crates/core/src/profile.rs) around the fake-IP table: *)
(* a core loads it when it starts, and three callers save it: the           *)
(* five-second task and shutdown of a core that runs, and a group selection *)
(* (the controller, meta_select_v1), which needs no started core.           *)
(* A save is two steps, the export under the table's lock and the atomic    *)
(* rename, and nothing orders the saves of different callers.               *)
(***************************************************************************)
EXTENDS FakeIp

CONSTANTS
    Savers,         \* callers of save_profile that may run at the same time
    Selectors,      \* those of them that select a node
    SavedProfiles,  \* the profiles an earlier process may have left
    LongNames,      \* names that weigh in the size of the file, and how many
    MaxLong         \* of them 8 MiB hold

ASSUME ProfileConstants ==
    \A p \in SavedProfiles : p \subseteq Entries /\ IsFiniteSet(p)

VARIABLES
    phase,      \* "down": not started; "up": started; "failed": load_profile failed
    disk,       \* the saved entries of .meta-profile.json
    saving,     \* the callers with a save in flight
    snapshot    \* what each of them is about to write

vars == <<by_name, by_ip, next, reply, phase, disk, saving, snapshot>>

Init ==
    /\ FakeInit
    /\ phase = "down"
    /\ disk \in SavedProfiles
    /\ saving = {}
    /\ snapshot = [s \in Savers |-> {}]

-----------------------------------------------------------------------------
\* the size test of load_profile; save_profile has none
TooLarge(p) == Cardinality({e \in p : e[1] \in LongNames}) > MaxLong

\* load_profile in start_inner, on the core Core::new has just made
LoadProfile ==
    /\ phase = "down"
    /\ ~TooLarge(disk) /\ ImportFake(disk)
    /\ phase' = "up"
    /\ UNCHANGED <<reply, disk, saving, snapshot>>

\* load_profile rejects the profile: start fails and cancels the core
LoadFails ==
    /\ phase = "down"
    /\ TooLarge(disk) \/ ~Importable(disk)
    /\ phase' = "failed"
    /\ UNCHANGED <<by_name, by_ip, next, reply, disk, saving, snapshot>>

\* a DNS query answered from the table
Answer(k) ==
    /\ phase = "up"
    /\ FakeAddress(k)
    /\ UNCHANGED <<phase, disk, saving, snapshot>>

\* save_profile up to the serialised snapshot
BeginSave(s) ==
    /\ phase = "up" \/ s \in Selectors
    /\ s \notin saving
    /\ saving' = saving \cup {s}
    /\ snapshot' = [snapshot EXCEPT ![s] = ExportFake]
    /\ UNCHANGED <<by_name, by_ip, next, reply, phase, disk>>

\* atomic_write succeeded: temporary file written, synced and renamed
EndSave(s) ==
    /\ s \in saving
    /\ disk' = snapshot[s]
    /\ saving' = saving \ {s}
    /\ snapshot' = [snapshot EXCEPT ![s] = {}]
    /\ UNCHANGED <<by_name, by_ip, next, reply, phase>>

\* atomic_write failed: the temporary file is removed, the profile stays
SaveFails(s) ==
    /\ s \in saving
    /\ saving' = saving \ {s}
    /\ snapshot' = [snapshot EXCEPT ![s] = {}]
    /\ UNCHANGED <<by_name, by_ip, next, reply, phase, disk>>

\* the process ends, by a crash or after shutdown, and a new core is made
Restart ==
    /\ phase # "down"
    /\ phase' = "down"
    /\ by_name' = EmptyMap /\ by_ip' = EmptyMap
    /\ next' = [f \in Families |-> 2]
    /\ reply' = [k \in Keys |-> NoReply]
    /\ saving' = {}
    /\ snapshot' = [s \in Savers |-> {}]
    /\ UNCHANGED disk

Next ==
    \/ LoadProfile \/ LoadFails \/ Restart
    \/ \E k \in Keys : Answer(k)
    \/ \E s \in Savers : BeginSave(s) \/ EndSave(s) \/ SaveFails(s)

Spec == Init /\ [][Next]_vars

-----------------------------------------------------------------------------
\* The type of the table, of the saves in flight and of the profile.
TypeOK ==
    /\ FakeTypeOK
    /\ phase \in {"down", "up", "failed"}
    /\ disk \in SUBSET Entries
    /\ saving \subseteq Savers
    /\ snapshot \in [Savers -> SUBSET Entries]

\* Whatever save wins the race of renames, and wherever the process is
\* killed, a mapping found in the profile is one the running core still
\* honours: an address that is durably saved is never given to another name.
SavedMappingsHonoured == phase = "up" => disk \subseteq ExportFake

\* A profile the core itself wrote passes every check of the next import_fake:
\* no interleaving of saves, failed saves and restarts leaves a torn or
\* contradictory profile.  (The size test is the one check that can fail.)
StaysImportable == [][phase = "up" => Importable(disk')]_vars

\* Once a name has been answered with an address, every further answer in
\* the core's lifetime is that address: also when the table is full.
StableAnswers ==
    [][phase' = "up" => \A k \in Keys : reply[k] \in Ips => reply'[k] = reply[k]]_vars
=============================================================================
