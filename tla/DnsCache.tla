------------------------------ MODULE DnsCache ------------------------------
(***************************************************************************)
(* The answer cache of the resolver (crates/core/src/dns.rs) under           *)
(* concurrent lookups: cached_exchange looks under the cache lock, asks the  *)
(* servers in turn without it, and stores under it again; a change of the    *)
(* network or of the routing data empties the cache while lookups are under  *)
(* way.  An epoch is what an answer depends on: the network it came over and *)
(* the servers the policy chose.                                             *)
(***************************************************************************)
EXTENDS Naturals, FiniteSets, FiniteSetsExt

CONSTANTS
    Requests,   \* encoded requests, without their id
    Clients,    \* tasks in cached_exchange
    Servers,    \* length of the list of servers
    Responses,  \* [ok, negative : BOOLEAN, ttls, soa : sets of TTLs, size : Nat];
                \* at most 64 KiB, so that none is larger than the cache
    Cap,        \* 4096 entries
    Limit,      \* 8 MiB
    MaxTtl,     \* 3600 s
    Horizon,    \* bound: seconds
    Epochs      \* bound: changes of the network or the policy

ASSUME DnsConstants ==
    /\ Servers \in Nat /\ Cap \in Nat \ {0} /\ Limit \in Nat /\ MaxTtl \in Nat
    /\ Horizon \in Nat /\ Epochs \in Nat
    /\ \A r \in Responses : r.size <= Limit /\ r.ttls \subseteq Nat /\ r.soa \subseteq Nat

VARIABLES
    now,       \* the clock, in seconds
    epoch,     \* the present network and policy
    clean,     \* the epoch for which the cache was last emptied
    cache,     \* function from the cached keys to their entries
    task,      \* [at, key, server, from] of each client
    overtaken  \* history: clients whose query was out when the cache was emptied

cacheVars == <<now, epoch, clean, cache, task, overtaken>>

Idle == [at |-> "idle", key |-> {}, server |-> 0, from |-> 0]

CacheInit ==
    /\ now = 0 /\ epoch = 0 /\ clean = 0 /\ cache = << >>
    /\ task = [c \in Clients |-> Idle] /\ overtaken = {}

-----------------------------------------------------------------------------
\* for how long a response may be kept: a negative one needs a SOA
Ttls(r) == IF r.negative THEN r.soa ELSE r.ttls
LifetimeLongest(r) == IF Ttls(r) = {} THEN 0 ELSE Min({Max(Ttls(r)), MaxTtl})
Lifetime(r) == IF Ttls(r) = {} THEN 0 ELSE Min({Min(Ttls(r)), MaxTtl})

Cached == DOMAIN cache
Live(k) == cache[k].expires > now
Bytes(K) == MapThenSumSet(LAMBDA k : cache[k].size, K)
Restricted(K) == [k \in K |-> cache[k]]

\* what the loop that evicts the oldest entry leaves of the live ones, to make
\* room for size bytes
FitsByCount(K, size) == Cardinality(K) < Cap
Fits(K, size) == Cardinality(K) < Cap /\ Bytes(K) + size <= Limit
OldestOf(K, all) == \A k \in K, o \in all \ K : cache[k].inserted <= cache[o].inserted
YoungestOf(K, all) == \A k \in K, o \in all \ K : cache[k].inserted >= cache[o].inserted
Leaves(K, all, size) ==
    /\ K \subseteq all /\ YoungestOf(K, all)
    /\ Fits(K, size)
    /\ \A o \in all \ K :
          (\A p \in all \ K : cache[o].inserted >= cache[p].inserted) => ~Fits(K \union {o}, size)

-----------------------------------------------------------------------------
(* cached_exchange                                                          *)

\* a live entry is a hit, and its records are aged; nothing changes
Served(k) == k \in Cached /\ Live(k)
Hit(c, k) == task[c] = Idle /\ Served(k) /\ UNCHANGED cacheVars
Miss(c, k) ==
    /\ task[c] = Idle /\ ~Served(k)
    /\ task' = [task EXCEPT ![c] = [at |-> "ask", key |-> k, server |-> 1, from |-> epoch]]
    /\ UNCHANGED <<now, epoch, clean, cache, overtaken>>

Finish(c) == task' = [task EXCEPT ![c] = Idle] /\ overtaken' = overtaken \ {c}

\* a server fails or does not answer within five seconds: the next one, if any
ServerFails(c) ==
    /\ task[c].at = "ask"
    /\ \/ /\ task[c].server < Servers /\ task' = [task EXCEPT ![c].server = @ + 1]
          /\ UNCHANGED overtaken
       \/ task[c].server >= Servers /\ Finish(c)
    /\ UNCHANGED <<now, epoch, clean, cache>>

Storable(r) == r.ok /\ Lifetime(r) > 0
Entry(c, r) ==
    [response |-> r, from |-> task[c].from, inserted |-> now, expires |-> now + Lifetime(r),
     size |-> r.size, overtaken |-> c \in overtaken]
Answered(c, r) ==
    /\ task[c].at = "ask"
    /\ \/ ~Storable(r) /\ UNCHANGED cache
       \/ /\ Storable(r)
          /\ LET live == {k \in Cached : Live(k)} \ {task[c].key} IN
             \E K \in SUBSET live :
                /\ Leaves(K, live, r.size)
                /\ cache' = [k \in K \union {task[c].key} |->
                               IF k = task[c].key THEN Entry(c, r) ELSE cache[k]]
    /\ Finish(c) /\ UNCHANGED <<now, epoch, clean>>

\* the caller gives up (its own deadline, or cancellation)
GiveUp(c) ==
    /\ task[c].at = "ask" /\ Finish(c)
    /\ UNCHANGED <<now, epoch, clean, cache>>

-----------------------------------------------------------------------------
(* configure and network_changed                                            *)

\* the network moves, or configure writes the policy
Change ==
    /\ epoch < Epochs /\ epoch' = epoch + 1
    /\ UNCHANGED <<now, clean, cache, task, overtaken>>

EmptiedOfExpired == Restricted({k \in Cached : Live(k)})
Emptied == << >>
ClearCache ==
    /\ clean < epoch /\ clean' = epoch /\ cache' = Emptied
    /\ overtaken' = {c \in Clients : task[c].at = "ask"}
    /\ UNCHANGED <<now, epoch, task>>

Tick ==
    /\ now < Horizon /\ now' = now + 1
    /\ UNCHANGED <<epoch, clean, cache, task, overtaken>>

CacheNext ==
    \/ \E c \in Clients :
          \/ \E k \in Requests : Hit(c, k) \/ Miss(c, k)
          \/ \E r \in Responses : Answered(c, r)
          \/ ServerFails(c) \/ GiveUp(c)
    \/ Change \/ ClearCache \/ Tick

CacheSpec == CacheInit /\ [][CacheNext]_cacheVars

-----------------------------------------------------------------------------
\* The entries of the cache are at most Cap.
EntriesBounded == Cardinality(Cached) <= Cap

\* However many answers come in, of whatever sizes and lifetimes, and whichever
\* expire first, the cache holds at most Cap entries and Limit bytes.
CacheWithinBounds == EntriesBounded /\ Bytes(Cached) <= Limit

\* The type of the state.
CacheTypeOK ==
    /\ now \in 0..Horizon /\ epoch \in 0..Epochs /\ clean \in 0..epoch
    /\ Cached \subseteq Requests /\ overtaken \subseteq Clients
    /\ \A c \in Clients : task[c] = Idle \/ (task[c].key \in Requests /\ task[c].from \in 0..epoch)
    /\ CacheWithinBounds

\* An answer from the cache is younger than every TTL it was given for, and a
\* negative one has a SOA.
HitsAreAlive ==
    \A k \in Requests : Served(k) =>
        LET ttls == Ttls(cache[k].response)
        IN  ttls # {} /\ \A t \in ttls : now - cache[k].inserted < t

\* An answer from before the last time the cache was emptied is in it only if
\* its query was under way at that time.
StaleNeedsFlight ==
    \A k \in Cached : cache[k].from < clean => cache[k].overtaken

\* Room is made at the expense of the oldest: a live answer that leaves the
\* cache while another stays is not younger than that one.
EvictsOldest ==
    [][clean' = clean =>
         \A gone \in {k \in Cached : Live(k)} \ DOMAIN cache' :
            \A kept \in Cached \intersect DOMAIN cache' :
               cache'[kept] = cache[kept] => cache[gone].inserted <= cache[kept].inserted]_cacheVars
=============================================================================
