------------------------------- MODULE Policy -------------------------------
(***************************************************************************)
(* The routing policy of a core (crates/core/src/lib.rs) and the data it is *)
(* bound to (crates/core/src/resources.rs).  prepare_resources loads a      *)
(* snapshot, across many awaits, and commits it under the locks of the      *)
(* resources and of the policy; update_policy binds new rules to the active *)
(* snapshot under the first lock and installs them under the second.        *)
(*                                                                          *)
(* A rule list is the set of references (GEOIP, GEOSITE, RULE-SET) its      *)
(* rules name, and a bound list maps each of them to the contents it was    *)
(* read from.                                                               *)
(***************************************************************************)
EXTENDS Naturals, FiniteSets, Functions

CONSTANTS
    Refs,       \* references to routing data
    Assets,     \* the files that hold the data
    AssetOf,    \* the asset a reference is looked up in
    Providers,  \* the assets of rule-providers, loaded even if no rule names them
    DnsRefs,    \* the references of nameserver-policy and fake-ip-filter
    Contents,   \* what an asset may contain
    NamedBy,    \* the geo references a provider names that has these contents
    Corrupt,    \* the contents load refuses: they do not parse or lack a category
    Missing,    \* no such file
    Unbound,    \* a reference Core::new has parsed and not bound
    RuleLists,  \* the lists the configuration and the updates name
    Modes,
    Clients,    \* callers of update_policy that may run at the same time
    Keep        \* the mode or the rules an update leaves alone

ASSUME PolicyConstants ==
    /\ AssetOf \in [Refs -> Assets] /\ Providers \subseteq Assets
    /\ DnsRefs \subseteq Refs /\ RuleLists \subseteq SUBSET Refs
    /\ Corrupt \subseteq Contents /\ NamedBy \in [Contents -> SUBSET Refs]
    /\ Missing \notin Contents /\ Unbound \notin Contents
    /\ Keep \notin RuleLists /\ Keep \notin Modes

VARIABLES
    mode, raw, rules,   \* the policy: mode, the rules as text, the rules bound
    resources,          \* the active snapshot: what each loaded reference holds
    dns,                \* what the resolver's policy and filters are bound to
    file,               \* the assets in the configuration directory
    pc,                 \* where prepare_resources is
    started,            \* the first prepare_resources has committed
    want,               \* the rules it read before loading
    fetched, pending,   \* the assets it has, and those it has yet to save
    update,             \* the update each client is about to install
    overtaken, raced    \* history: updates bound before the last commit, and
                        \* whether the rules in force come from one of them

policyVars == <<mode, raw, rules>>
snapVars == <<resources, dns>>
loadVars == <<want, fetched, pending>>
history == <<overtaken, raced>>
vars == <<policyVars, snapVars, file, pc, started, loadVars, update, history>>

\* Resources::bind and Resources::rules: every reference must be loaded
Bindable(snapshot, list) == list \subseteq DOMAIN snapshot
Bind(snapshot, list) == [r \in list |-> snapshot[r]]

None == <<>>

\* Core::new: the rules are parsed, no data is loaded
Init ==
    /\ mode \in Modes /\ raw \in RuleLists
    /\ rules = [r \in raw |-> Unbound]
    /\ resources = None /\ dns = None
    /\ file \in [Assets -> Contents \union {Missing}]
    /\ pc = "idle" /\ started = FALSE
    /\ want = {} /\ fetched = None /\ pending = {}
    /\ update = [c \in Clients |-> None]
    /\ overtaken = {} /\ raced = FALSE

-----------------------------------------------------------------------------
\* the references load looks for, those in the providers it has included, and the
\* files it needs
Named(list) ==
    list \union DnsRefs \union UNION {NamedBy[fetched[a]] : a \in Providers \cap DOMAIN fetched}
Loaded(list) == Named(list) \union {r \in Refs : AssetOf[r] \in Providers}
Needed(list) == Providers \union {AssetOf[r] : r \in Named(list)}

\* prepare_resources: in start_inner, or in the refresh task
BeginLoad ==
    /\ pc = "idle"
    /\ pc' = "loading" /\ want' = raw
    /\ UNCHANGED <<policyVars, snapVars, file, started, fetched, pending, update, history>>

Fetch(a, c) == fetched' = [x \in DOMAIN fetched \union {a} |->
                              IF x = a THEN c ELSE fetched[x]]

\* asset: the file is there and, for a refresh, not expired
ReadAsset(a) ==
    /\ pc = "loading" /\ a \in Needed(want) \ DOMAIN fetched
    /\ file[a] # Missing
    /\ Fetch(a, file[a])
    /\ UNCHANGED <<policyVars, snapVars, file, pc, started, want, pending, update, history>>

\* asset, download: the file is missing or has expired
Download(a, c) ==
    /\ pc = "loading" /\ a \in Needed(want) \ DOMAIN fetched
    /\ started \/ file[a] = Missing
    /\ Fetch(a, c) /\ pending' = pending \union {a}
    /\ UNCHANGED <<policyVars, snapVars, file, pc, started, want, update, history>>

\* every asset is there and parses, and the rules of the load bind to them
Parsed ==
    /\ pc = "loading" /\ DOMAIN fetched = Needed(want)
    /\ Range(fetched) \cap Corrupt = {}
    /\ pc' = "saving"
    /\ UNCHANGED <<policyVars, snapVars, file, started, loadVars, update, history>>

\* load saves what it has downloaded, file by file
SaveAsset(a) ==
    /\ pc = "saving" /\ a \in pending
    /\ file' = [file EXCEPT ![a] = fetched[a]] /\ pending' = pending \ {a}
    /\ UNCHANGED <<policyVars, snapVars, pc, started, want, fetched, update, history>>

EndLoad == want' = {} /\ fetched' = None /\ pending' = {}

Loading == [r \in Loaded(want) |-> fetched[AssetOf[r]]]

\* the commit, with both locks held: the rules of now, not those of the load
CommitWanted ==
    /\ pc = "saving" /\ pending = {}
    /\ resources' = Loading /\ rules' = Bind(Loading, want) /\ dns' = Bind(Loading, DnsRefs)
    /\ pc' = "idle" /\ started' = TRUE
    /\ overtaken' = {c \in Clients : update[c] # None} /\ raced' = FALSE
    /\ EndLoad /\ UNCHANGED <<mode, raw, file, update>>
CommitKeepsRules ==
    /\ pc = "saving" /\ pending = {} /\ Bindable(Loading, raw)
    /\ resources' = Loading /\ dns' = Bind(Loading, DnsRefs)
    /\ pc' = "idle" /\ started' = TRUE
    /\ overtaken' = {c \in Clients : update[c] # None} /\ raced' = FALSE
    /\ EndLoad /\ UNCHANGED <<policyVars, file, update>>
Commit ==
    /\ pc = "saving" /\ pending = {} /\ Bindable(Loading, raw)
    /\ resources' = Loading /\ rules' = Bind(Loading, raw) /\ dns' = Bind(Loading, DnsRefs)
    /\ pc' = "idle" /\ started' = TRUE
    /\ overtaken' = {c \in Clients : update[c] # None} /\ raced' = FALSE
    /\ EndLoad /\ UNCHANGED <<mode, raw, file, update>>

\* start returns the error, the refresh task goes on with the snapshot it has
Abandon ==
    /\ pc' = IF started THEN "idle" ELSE "stopped"
    /\ EndLoad /\ UNCHANGED <<policyVars, file, started, update, history>>

\* a file or download that fails, data that is refused
LoadFails ==
    /\ pc = "loading" /\ Abandon /\ UNCHANGED snapVars
SaveFails ==
    /\ pc = "saving" /\ pending # {} /\ Abandon /\ UNCHANGED snapVars
\* an update since the load names data that the load did not look for
CommitConfiguresFirst ==
    /\ pc = "saving" /\ pending = {} /\ ~Bindable(Loading, raw) /\ Abandon
    /\ dns' = Bind(Loading, DnsRefs) /\ UNCHANGED resources
CommitFails ==
    /\ pc = "saving" /\ pending = {} /\ ~Bindable(Loading, raw)
    /\ Abandon /\ UNCHANGED snapVars

-----------------------------------------------------------------------------
\* update_policy up to the bound rules; an update that does not bind is refused
BindUpdate(c, m, list) ==
    /\ update[c] = None
    /\ LET named == IF list = Keep THEN raw ELSE list IN
       /\ Bindable(resources, named)
       /\ update' = [update EXCEPT ![c] =
                        [mode |-> m, raw |-> list, rules |-> Bind(resources, named)]]
    /\ UNCHANGED <<policyVars, snapVars, file, pc, started, loadVars, history>>

\* update_policy from policy.write() on
Install(c) ==
    /\ update[c] # None
    /\ IF update[c].raw = Keep
         THEN UNCHANGED <<raw, rules, raced>>
         ELSE /\ raw' = update[c].raw /\ rules' = update[c].rules
              /\ raced' = (c \in overtaken)
    /\ mode' = IF update[c].mode = Keep THEN mode ELSE update[c].mode
    /\ update' = [update EXCEPT ![c] = None] /\ overtaken' = overtaken \ {c}
    /\ UNCHANGED <<snapVars, file, pc, started, loadVars>>

Next ==
    \/ BeginLoad \/ Parsed \/ Commit \/ LoadFails \/ SaveFails \/ CommitFails
    \/ \E a \in Assets : ReadAsset(a) \/ SaveAsset(a) \/ \E c \in Contents : Download(a, c)
    \/ \E c \in Clients : Install(c) \/
          \E m \in Modes \union {Keep}, list \in RuleLists \union {Keep} : BindUpdate(c, m, list)

Spec == Init /\ [][Next]_vars

-----------------------------------------------------------------------------
\* The rules that route (policy.rules) are the rules the controller shows
\* (policy.raw_rules), although a refresh that was loading while they were
\* replaced rebinds them.
ShownRulesInForce == DOMAIN rules = raw

\* The resolver and the router use the same snapshot: prepare_resources
\* configures the one and installs the other, or does neither.
OneSnapshot == started => Bindable(resources, DnsRefs) /\ dns = Bind(resources, DnsRefs)

BoundToActive == Bindable(resources, raw) /\ rules = Bind(resources, raw)

\* The rules in force are bound to the active snapshot, unless the update that
\* installed them had bound them before a refresh committed.
StaleOnlyAfterRace == started => BoundToActive \/ raced

\* What the refresh test of resources.rs relies on: once prepare_resources has
\* succeeded the router uses the data it loaded.
RulesFollowSnapshot == started => BoundToActive

\* No step replaces a routing file by data that does not parse: load saves its
\* downloads only after all of them were accepted.
NoCorruptFile ==
    [][\A a \in Assets : file'[a] # file[a] => file'[a] \notin Corrupt]_vars
=============================================================================
