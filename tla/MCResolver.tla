----------------------------- MODULE MCResolver -----------------------------
(* The fake-IP table with its profile, and the answer cache, in one run.  They *)
(* share no variable, so each is explored on its own.                          *)
EXTENDS Profile, DnsCache, TLC

\* Three names and both families over ranges of three and one addresses, so that
\* a range runs out before the capacity and the other way round.
CONSTANTS n1, n2, n3

MCNames == {n1, n2, n3}
MCFamilies == {"v4", "v6"}
MCLast == [f \in MCFamilies |-> IF f = "v4" THEN 4 ELSE 2]

\* No profile, one written by an earlier core, and ones import_fake rejects:
\* a reserved offset, an address of a wider range, one name saved twice.
MCSavedProfiles ==
    { {},
      {<<n1, <<"v4", 3>>>>},
      {<<n1, <<"v4", 3>>>>, <<n2, <<"v6", 2>>>>},
      {<<n1, <<"v4", 1>>>>},
      {<<n1, <<"v4", 9>>>>},
      {<<n1, <<"v4", 2>>>>, <<n1, <<"v4", 3>>>>} }

\* Positive answers of two lifetimes and sizes, a negative one with and without a
\* SOA, and one that is not cached for its code.
MCResponses ==
    { [ok |-> TRUE, negative |-> FALSE, ttls |-> {1, 2}, soa |-> {}, size |-> 1],
      [ok |-> TRUE, negative |-> FALSE, ttls |-> {9}, soa |-> {}, size |-> 2],
      [ok |-> TRUE, negative |-> TRUE, ttls |-> {9}, soa |-> {2}, size |-> 1],
      [ok |-> TRUE, negative |-> TRUE, ttls |-> {9}, soa |-> {}, size |-> 1],
      [ok |-> FALSE, negative |-> TRUE, ttls |-> {}, soa |-> {2}, size |-> 1] }

\* neither keys nor clients are told apart by any property
MCSymmetry == Permutations(Requests) \union Permutations(Clients)

VARIABLE part
allVars == <<part, vars, cacheVars>>

InitAny ==
    /\ part \in {"profile", "cache"} /\ Init /\ CacheInit
    /\ part = "cache" => disk = {}
NextAny ==
    /\ UNCHANGED part
    /\ \/ part = "profile" /\ Next /\ UNCHANGED cacheVars
       \/ part = "cache" /\ CacheNext /\ UNCHANGED vars
SpecAny == InitAny /\ [][NextAny]_allVars
=============================================================================
