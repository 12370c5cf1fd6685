----------------------------- MODULE Core_proofs -----------------------------
(***************************************************************************)
(* What refreshes and concurrent updates keep, for every set of references, *)
(* assets, rule lists and clients; that groups lead to nodes, and what      *)
(* url-test groups keep, for every set of configurations; and what holds of *)
(* connection tasks, for every set of tasks and every limit.                *)
(***************************************************************************)
EXTENDS Policy, Groups, Sessions, FiniteSetTheorems, WellFoundedInduction, TLAPS

\* An update carries the rules it names, bound; if no refresh has committed
\* since, they are bound to the active snapshot.
UpdatesBound ==
    \A c \in Clients : update[c] # None /\ update[c].raw # Keep =>
        /\ DOMAIN update[c].rules = update[c].raw
        /\ c \notin overtaken =>
              /\ Bindable(resources, update[c].raw)
              /\ update[c].rules = Bind(resources, update[c].raw)

\* What load is about to save has been accepted.
SavesAccepted ==
    /\ pending \subseteq DOMAIN fetched
    /\ pc = "saving" => Range(fetched) \cap Corrupt = {}

IInv ==
    /\ update = [c \in Clients |-> update[c]]
    /\ file = [a \in Assets |-> file[a]]
    /\ UpdatesBound
    /\ SavesAccepted
    /\ ShownRulesInForce
    /\ OneSnapshot
    /\ StaleOnlyAfterRace

-----------------------------------------------------------------------------
\* Core::new: nothing is loaded and no update is under way.
LEMMA InitIInv == Init => IInv
<1> SUFFICES ASSUME Init PROVE IInv
  BY Zenon
<1>1. ~started
  BY Zenon DEF Init
<1>2. UpdatesBound
  BY Zenon DEF Init, UpdatesBound
<1>3. SavesAccepted
  BY Zenon DEF Init, SavesAccepted, None
<1> QED BY <1>1, <1>2, <1>3, Zenon DEF Init, IInv, ShownRulesInForce, OneSnapshot, StaleOnlyAfterRace

\* What a snapshot binds has the list as its domain.
LEMMA BindDomain ==
    ASSUME NEW s, NEW list PROVE DOMAIN Bind(s, list) = list
BY Zenon DEF Bind

\* A step that leaves policy, snapshot, updates and history alone keeps what is
\* said of them.
LEMMA PolicyStutter ==
    ASSUME IInv, UNCHANGED <<policyVars, snapVars, started, update, history>>
    PROVE  /\ update' = [c \in Clients |-> update'[c]]
           /\ UpdatesBound' /\ ShownRulesInForce' /\ OneSnapshot' /\ StaleOnlyAfterRace'
<1>1. UNCHANGED <<mode, raw, rules, resources, dns, started, update, overtaken, raced>>
  BY Zenon DEF policyVars, snapVars, history
<1> QED BY <1>1 DEF IInv, UpdatesBound, ShownRulesInForce, OneSnapshot, StaleOnlyAfterRace,
   BoundToActive, Bindable, Bind

\* Fetching an asset adds it to what was fetched.
LEMMA FetchKeeps ==
    ASSUME NEW a, NEW c, Fetch(a, c) PROVE DOMAIN fetched' = DOMAIN fetched \union {a}
BY Zenon DEF Fetch

\* The steps of a load change neither policy nor snapshot.
LEMMA LoadStep ==
    ASSUME IInv,
           \/ BeginLoad \/ Parsed \/ LoadFails \/ SaveFails \/ CommitFails
           \/ \E a \in Assets : ReadAsset(a) \/ SaveAsset(a) \/ \E c \in Contents : Download(a, c)
    PROVE  IInv'
<1>1. UNCHANGED <<policyVars, snapVars, started, update, history>>
  BY Zenon DEF BeginLoad, Parsed, LoadFails, SaveFails, CommitFails, Abandon, ReadAsset, SaveAsset,
     Download
<1>2. file' = [a \in Assets |-> file'[a]]
  BY Zenon DEF IInv, BeginLoad, Parsed, LoadFails, SaveFails, CommitFails, Abandon, ReadAsset,
     SaveAsset, Download
<1>3. SavesAccepted'
  <2>1. CASE BeginLoad \/ Parsed
    BY <2>1, Zenon DEF BeginLoad, Parsed, loadVars, IInv, SavesAccepted, Range
  <2>2. CASE LoadFails \/ SaveFails \/ CommitFails
    BY <2>2, Zenon DEF LoadFails, SaveFails, CommitFails, Abandon, EndLoad, None, SavesAccepted
  <2>3. CASE \E a \in Assets : ReadAsset(a) \/ \E c \in Contents : Download(a, c)
    BY <2>3, FetchKeeps, Zenon DEF ReadAsset, Download, IInv, SavesAccepted
  <2>4. CASE \E a \in Assets : SaveAsset(a)
    BY <2>4 DEF SaveAsset, IInv, SavesAccepted, Range
  <2> QED BY <2>1, <2>2, <2>3, <2>4, Zenon
<1> QED BY <1>1, <1>2, <1>3, PolicyStutter, Zenon DEF IInv

\* The commit binds the rules of now to the snapshot it installs, and marks the
\* updates it overtakes.
LEMMA CommitStep ==
    ASSUME IInv, Commit PROVE IInv'
<1>1. rules' = Bind(resources', raw) /\ dns' = Bind(resources', DnsRefs) /\ raw' = raw
  BY Zenon DEF Commit
<1>2. DOMAIN resources' = Loaded(want) /\ Bindable(resources', raw)
  BY Zenon DEF Commit, Loading, Bindable
<1>3. Bindable(resources', DnsRefs)
  BY <1>2, Zenon DEF Bindable, Loaded, Named
<1>4. ShownRulesInForce'
  BY <1>1, BindDomain, Zenon DEF ShownRulesInForce
<1>5. OneSnapshot'
  BY <1>1, <1>3, Zenon DEF OneSnapshot, Bind, Bindable
<1>6. StaleOnlyAfterRace'
  BY <1>1, <1>2, Zenon DEF StaleOnlyAfterRace, BoundToActive, Bind, Bindable
<1>7. UpdatesBound'
  BY Zenon DEF Commit, IInv, UpdatesBound
<1>8. SavesAccepted' /\ file' = [a \in Assets |-> file'[a]] /\ update' = [c \in Clients |-> update'[c]]
  BY Zenon DEF Commit, EndLoad, None, SavesAccepted, IInv
<1> QED BY <1>4, <1>5, <1>6, <1>7, <1>8, Zenon DEF IInv

\* Binding an update uses the active snapshot.
LEMMA BindStep ==
    ASSUME IInv, NEW c \in Clients, NEW m, NEW list, BindUpdate(c, m, list)
    PROVE  IInv'
<1>1. UNCHANGED <<mode, raw, rules, resources, dns, file, pc, started, want, fetched, pending,
                  overtaken, raced>>
  BY Zenon DEF BindUpdate, policyVars, snapVars, loadVars, history
<1>2. update' = [d \in Clients |-> update'[d]]
  BY Zenon DEF BindUpdate, IInv
<1>3. \A d \in Clients : d # c => update'[d] = update[d]
  BY Zenon DEF BindUpdate, IInv
<1>4. update'[c].raw # Keep =>
         /\ update'[c].raw = list /\ Bindable(resources, list)
         /\ update'[c].rules = Bind(resources, list)
  BY Zenon DEF BindUpdate, IInv
<1>5. UpdatesBound'
  BY <1>1, <1>3, <1>4, BindDomain DEF IInv, UpdatesBound, Bindable, Bind
<1>6. SavesAccepted' /\ file' = [a \in Assets |-> file'[a]]
  BY <1>1, Zenon DEF IInv, SavesAccepted, Range
<1>7. ShownRulesInForce' /\ OneSnapshot' /\ StaleOnlyAfterRace'
  BY <1>1, Zenon DEF IInv, ShownRulesInForce, OneSnapshot, StaleOnlyAfterRace, BoundToActive, Bind, Bindable
<1> QED BY <1>2, <1>5, <1>6, <1>7, Zenon DEF IInv

\* Installing an update: text and bound rules together, stale only if overtaken.
LEMMA InstallStep ==
    ASSUME IInv, NEW c \in Clients, Install(c) PROVE IInv'
<1>1. UNCHANGED <<resources, dns, file, pc, started, want, fetched, pending>>
  BY Zenon DEF Install, snapVars, loadVars
<1>2. update' = [d \in Clients |-> update'[d]] /\ update'[c] = None
  BY Zenon DEF Install, IInv
<1>3. \A d \in Clients : d # c => update'[d] = update[d]
  BY Zenon DEF Install, IInv
<1>4. overtaken' = overtaken \ {c}
  BY Zenon DEF Install
<1>5. UpdatesBound'
  BY <1>1, <1>2, <1>3, <1>4, Zenon DEF IInv, UpdatesBound, Bind, Bindable
<1>6. SavesAccepted' /\ file' = [a \in Assets |-> file'[a]]
  BY <1>1, Zenon DEF IInv, SavesAccepted, Range
<1>7. OneSnapshot'
  BY <1>1, Zenon DEF IInv, OneSnapshot, Bind, Bindable
<1>8. CASE update[c].raw = Keep
  <2>1. UNCHANGED <<raw, rules, raced>>
    BY <1>8, Zenon DEF Install
  <2>2. ShownRulesInForce' /\ StaleOnlyAfterRace'
    BY <1>1, <2>1, Zenon DEF IInv, ShownRulesInForce, StaleOnlyAfterRace, BoundToActive, Bind, Bindable
  <2> QED BY <1>2, <1>5, <1>6, <1>7, <2>2, Zenon DEF IInv
<1>9. CASE update[c].raw # Keep
  <2>1. raw' = update[c].raw /\ rules' = update[c].rules /\ raced' = (c \in overtaken)
    BY <1>9, Zenon DEF Install
  <2>2. update[c] # None
    BY Zenon DEF Install
  <2>3. DOMAIN update[c].rules = update[c].raw
    BY <1>9, <2>2, Zenon DEF IInv, UpdatesBound
  <2>4. ~raced' => BoundToActive'
    <3> SUFFICES ASSUME ~raced' PROVE BoundToActive'
      BY Zenon
    <3>0. c \notin overtaken
      BY <2>1, Zenon
    <3>1. Bindable(resources, update[c].raw) /\ update[c].rules = Bind(resources, update[c].raw)
      BY <3>0, <1>9, <2>2, Zenon DEF IInv, UpdatesBound
    <3> QED BY <3>1, <2>1, <1>1, Zenon DEF BoundToActive, Bindable, Bind
  <2>6. ShownRulesInForce'
    BY <2>1, <2>3, Zenon DEF ShownRulesInForce
  <2>7. StaleOnlyAfterRace'
    BY <2>4, Zenon DEF StaleOnlyAfterRace
  <2> QED BY <1>2, <1>5, <1>6, <1>7, <2>6, <2>7, Zenon DEF IInv
<1> QED BY <1>8, <1>9, Zenon

-----------------------------------------------------------------------------
\* Every step keeps the invariant.
LEMMA StepIInv == IInv /\ [Next]_vars => IInv'
<1> SUFFICES ASSUME IInv, [Next]_vars PROVE IInv'
  BY Zenon
<1>1. CASE \/ BeginLoad \/ Parsed \/ LoadFails \/ SaveFails \/ CommitFails
           \/ \E a \in Assets : ReadAsset(a) \/ SaveAsset(a) \/ \E c \in Contents : Download(a, c)
  BY <1>1, LoadStep, Zenon
<1>2. CASE Commit
  BY <1>2, CommitStep, Zenon
<1>3. CASE \E c \in Clients : Install(c)
  BY <1>3, InstallStep, Zenon
<1>4. CASE \E c \in Clients, m \in Modes \union {Keep}, list \in RuleLists \union {Keep} :
              BindUpdate(c, m, list)
  BY <1>4, BindStep, Zenon
<1>5. CASE UNCHANGED vars
  <2>1. UNCHANGED <<file, pc, fetched, pending>>
    BY <1>5, Zenon DEF vars, loadVars
  <2>2. SavesAccepted' /\ file' = [a \in Assets |-> file'[a]]
    BY <2>1, Zenon DEF IInv, SavesAccepted, Range
  <2> QED BY <1>5, <2>2, PolicyStutter, Zenon DEF vars, IInv
<1> QED BY <1>1, <1>2, <1>3, <1>4, <1>5, Zenon DEF Next

\* The invariant holds in every state of the policy.
THEOREM PolicyInvariant == Spec => []IInv
<1>1. Init => IInv
  BY InitIInv, Zenon
<1>2. IInv /\ [Next]_vars => IInv'
  BY StepIInv, Zenon
<1> QED BY <1>1, <1>2, PTL DEF Spec

\* The rules that route are the rules the controller shows, whatever refreshes
\* and updates overlap.
THEOREM RulesShownAreInForce == Spec => []ShownRulesInForce
<1>1. IInv => ShownRulesInForce
  BY Zenon DEF IInv
<1> QED BY <1>1, PolicyInvariant, PTL

\* Resolver and router are always bound to one snapshot.
THEOREM SnapshotsAgree == Spec => []OneSnapshot
<1>1. IInv => OneSnapshot
  BY Zenon DEF IInv
<1> QED BY <1>1, PolicyInvariant, PTL

\* Rules bound to a replaced snapshot are in force only after an update that a
\* refresh has overtaken.
THEOREM StaleRulesNeedARace == Spec => []StaleOnlyAfterRace
<1>1. IInv => StaleOnlyAfterRace
  BY Zenon DEF IInv
<1> QED BY <1>1, PolicyInvariant, PTL

\* No routing file is replaced by data load would refuse.
THEOREM FilesNeverCorrupted == Spec => NoCorruptFile
<1>1. IInv /\ [Next]_vars =>
        [\A a \in Assets : file'[a] # file[a] => file'[a] \notin Corrupt]_vars
  <2> SUFFICES ASSUME IInv, Next, NEW a \in Assets, file'[a] # file[a]
               PROVE  file'[a] \notin Corrupt
    BY Zenon DEF vars
  <2>1. PICK b \in Assets : SaveAsset(b)
    BY Zenon DEF Next, BeginLoad, Parsed, Commit, LoadFails, SaveFails, CommitFails, Abandon, ReadAsset,
       Download, Install, BindUpdate
  <2>2. a = b /\ file'[a] = fetched[a] /\ a \in DOMAIN fetched /\ pc = "saving"
    BY <2>1, Zenon DEF SaveAsset, IInv, SavesAccepted
  <2> QED BY <2>2, Zenon DEF IInv, SavesAccepted, Range
<1> QED BY <1>1, PolicyInvariant, PTL DEF Spec, NoCorruptFile

-----------------------------------------------------------------------------
(* Proxy groups                                                             *)

\* The best target of a round has answered, in this round or since.
Found(g) ==
    /\ round[g].at \in Nat \ {0} /\ round[g].fastest \in Nat
    /\ round[g].best # Nothing => /\ round[g].best \in Members(conf, g)
                                  /\ round[g].fastest \in Delays
                                  /\ delay[round[g].best] # Longest
RoundType == [at : Nat, best : STRING \union {Nothing}, fastest : Nat]

\* While a core runs, a group has one of its members selected.
GroupInv ==
    running =>
      /\ conf \in Documents /\ Valid(conf)
      /\ \A g \in conf.tests : \A n \in Members(conf, g) : n \in DOMAIN delay
      /\ \A n \in DOMAIN delay : delay[n] \in Nat
      /\ DOMAIN selection = DOMAIN conf.proxies
      /\ selection = [g \in DOMAIN selection |-> selection[g]]
      /\ \A g \in DOMAIN selection : selection[g] \in Members(conf, g)
      /\ DOMAIN round = conf.tests
      /\ \A g \in conf.tests : round[g] # Nothing => round[g] \in RoundType /\ Found(g)

\* No core runs at first.
LEMMA GroupInitInv == GroupInit => GroupInv
BY Zenon DEF GroupInit, GroupInv

\* A member is a name, and a place in the list has one.
LEMMA MemberFacts ==
    ASSUME NEW c \in Documents, NEW g \in DOMAIN c.proxies
    PROVE  /\ Members(c, g) \subseteq STRING
           /\ \A i \in Nat \ {0} : i <= Len(c.proxies[g]) => c.proxies[g][i] \in Members(c, g)
           /\ c.proxies[g] # <<>> => c.proxies[g][1] \in Members(c, g)
<1>1. c.proxies[g] \in Seq(STRING)
  BY GroupConstants, Zenon
<1>2. Members(c, g) = {c.proxies[g][i] : i \in 1..Len(c.proxies[g])}
  BY <1>1 DEF Members, Range
<1> QED BY <1>1, <1>2

\* A core starts with a member of every group and no delay known.
LEMMA StartStep == ASSUME NEW c \in Documents, StartCore(c) PROVE GroupInv'
<1>1. /\ conf' = c /\ Valid(c) /\ c.tests \subseteq DOMAIN c.proxies
      /\ DOMAIN selection' = DOMAIN c.proxies
      /\ \A g \in DOMAIN c.proxies :
           selection'[g] = IF Restored(c, g) THEN stored[g] ELSE c.proxies[g][1]
      /\ selection' = [g \in DOMAIN selection' |-> selection'[g]]
  BY GroupConstants, Zenon DEF StartCore
<1>2. ASSUME NEW g \in DOMAIN c.proxies PROVE selection'[g] \in Members(c, g)
  BY <1>1, <1>2, MemberFacts, Zenon DEF StartCore, Valid, Restored
<1>3. /\ \A n \in DOMAIN delay' : delay'[n] = Longest
      /\ DOMAIN delay' = UNION {Members(c, g) : g \in c.tests}
  BY Zenon DEF StartCore
<1>4. DOMAIN round' = c.tests /\ \A g \in c.tests : round'[g] = Nothing
  BY Zenon DEF StartCore
<1>5. \A g \in DOMAIN selection' : selection'[g] \in Members(conf', g)
  BY <1>1, <1>2, Zenon
<1> QED BY <1>1, <1>3, <1>4, <1>5, GroupConstants DEF GroupInv

\* A delay that is recorded is one that was measured: it makes no node silent.
LEMMA RecordStep ==
    ASSUME GroupInv, running, NEW n, NEW d \in Delays, Record(n, d)
    PROVE  /\ DOMAIN delay' = DOMAIN delay
           /\ \A x \in DOMAIN delay : delay'[x] \in Nat
           /\ n \in DOMAIN delay => delay'[n] # Longest
           /\ \A x \in DOMAIN delay : delay[x] # Longest => delay'[x] # Longest
<1>1. d \in Nat /\ d # Longest
  BY GroupConstants
<1>2. DOMAIN delay' = DOMAIN delay /\ \A x \in DOMAIN delay : delay'[x] = IF x = n THEN d ELSE delay[x]
  BY Zenon DEF Record
<1> QED BY <1>1, <1>2, Zenon DEF GroupInv

\* What a step of a running core keeps when it leaves the rounds alone.
LEMMA SelectionStep ==
    ASSUME GroupInv, running, running' = running, conf' = conf, round' = round, delay' = delay,
           DOMAIN selection' = DOMAIN selection,
           selection' = [x \in DOMAIN selection' |-> selection'[x]],
           \A x \in DOMAIN selection : selection'[x] \in Members(conf, x)
    PROVE  GroupInv'
BY Zenon DEF GroupInv, Found

\* The controller probes a name.
LEMMA ProbeNowStep ==
    ASSUME GroupInv, NEW n \in DOMAIN delay, NEW d \in Delays, ProbeNow(n, d) PROVE GroupInv'
<1>1. /\ running /\ Record(n, d) /\ UNCHANGED <<conf, running, selection, round>>
  BY Zenon DEF ProbeNow
<1>2. /\ DOMAIN delay' = DOMAIN delay
      /\ \A x \in DOMAIN delay : delay'[x] \in Nat
      /\ \A x \in DOMAIN delay : delay[x] # Longest => delay'[x] # Longest
  BY <1>1, RecordStep, Zenon
<1> QED BY <1>1, <1>2, Zenon DEF GroupInv, Found

\* A round of one group leaves the rounds of the others alone.
LEMMA RoundStep ==
    ASSUME GroupInv, running, NEW g \in DOMAIN round, NEW r,
           UNCHANGED <<conf, running, selection>>, round' = [round EXCEPT ![g] = r],
           DOMAIN delay' = DOMAIN delay, \A x \in DOMAIN delay : delay'[x] \in Nat,
           \A x \in DOMAIN delay : delay[x] # Longest => delay'[x] # Longest,
           r # Nothing => /\ r \in RoundType /\ r.at # 0
                          /\ r.best # Nothing => /\ r.best \in Members(conf, g)
                                                 /\ r.fastest \in Delays
                                                 /\ delay'[r.best] # Longest
    PROVE  GroupInv'
<1>1. DOMAIN round' = DOMAIN round /\ \A x \in DOMAIN round : round'[x] = IF x = g THEN r ELSE round[x]
  BY Zenon
<1>2. ASSUME NEW x \in conf.tests, round'[x] # Nothing PROVE round'[x] \in RoundType /\ Found(x)'
  BY <1>1, <1>2, Zenon DEF GroupInv, Found, RoundType
<1> QED BY <1>1, <1>2, Zenon DEF GroupInv

\* A round begins, and goes from target to target.
LEMMA RoundsStep ==
    ASSUME GroupInv, NEW g \in DOMAIN round, 
           RoundBegins(g) \/ ProbeFails(g) \/ \E d \in Delays : ProbeAnswers(g, d)
    PROVE  GroupInv'
<1>1. CASE RoundBegins(g)
  <2> DEFINE r == [at |-> 1, best |-> Nothing, fastest |-> Longest]
  <2>1. r \in RoundType /\ r.at # 0 /\ r.best = Nothing
    BY GroupConstants DEF RoundType
  <2> HIDE DEF r
  <2> QED BY <1>1, <2>1, RoundStep, Zenon DEF RoundBegins, r, GroupInv
<1> DEFINE old == round[g]
<1>2. ASSUME Probing(g)
      PROVE  /\ running /\ old # Nothing /\ old \in RoundType /\ Found(g)
             /\ conf \in Documents /\ g \in DOMAIN conf.proxies
             /\ conf.proxies[g][old.at] \in Members(conf, g)
             /\ conf.proxies[g][old.at] \in STRING /\ conf.proxies[g][old.at] \in DOMAIN delay
  <2>1. /\ running /\ old # Nothing /\ old \in RoundType /\ Found(g) /\ conf \in Documents
        /\ g \in conf.tests /\ old.at <= Len(conf.proxies[g])
    BY <1>2, Zenon DEF Probing, GroupInv
  <2>2. g \in DOMAIN conf.proxies
    BY <2>1, GroupConstants, Zenon
  <2> QED BY <2>1, <2>2, MemberFacts, Zenon DEF Found, GroupInv
<1>3. CASE ProbeFails(g)
  <2> DEFINE r == [old EXCEPT !.at = @ + 1]
  <2>1. Probing(g) /\ round' = [round EXCEPT ![g] = r] /\ UNCHANGED <<conf, running, selection, delay>>
    BY <1>3, Zenon DEF ProbeFails
  <2>2. r \in RoundType /\ r.at # 0 /\ r.best = old.best /\ r.fastest = old.fastest
    BY <1>2, <2>1 DEF RoundType, Found
  <2> HIDE DEF r
  <2> QED BY <1>2, <2>1, <2>2, RoundStep, Zenon DEF Found, GroupInv
<1>4. ASSUME NEW d \in Delays, ProbeAnswers(g, d) PROVE GroupInv'
  <2> DEFINE target == conf.proxies[g][old.at]
             r == IF d < old.fastest THEN [at |-> old.at + 1, best |-> target, fastest |-> d]
                                     ELSE [old EXCEPT !.at = @ + 1]
  <2>1. /\ Probing(g) /\ round' = [round EXCEPT ![g] = r] /\ UNCHANGED <<conf, running, selection>>
        /\ Record(target, d)
    BY <1>4, Zenon DEF ProbeAnswers
  <2>2. /\ DOMAIN delay' = DOMAIN delay /\ \A x \in DOMAIN delay : delay'[x] \in Nat
        /\ delay'[target] # Longest
        /\ \A x \in DOMAIN delay : delay[x] # Longest => delay'[x] # Longest
    BY <1>2, <2>1, RecordStep, Zenon
  <2>3. r \in RoundType /\ r.at # 0
    <3>1. d \in Nat /\ old.at \in Nat \ {0} /\ target \in STRING /\ old \in RoundType
      BY <1>2, <2>1, GroupConstants, Zenon DEF Found
    <3> HIDE DEF old, target
    <3>2. [at |-> old.at + 1, best |-> target, fastest |-> d] \in RoundType
      BY <3>1 DEF RoundType
    <3>3. [old EXCEPT !.at = @ + 1] \in RoundType /\ [old EXCEPT !.at = @ + 1].at = old.at + 1
      BY <3>1 DEF RoundType
    <3> QED BY <3>1, <3>2, <3>3
  <2>4. ASSUME r.best # Nothing
        PROVE  r.best \in Members(conf, g) /\ r.fastest \in Delays /\ delay'[r.best] # Longest
    <3>1. CASE d < old.fastest
      BY <1>2, <2>1, <2>2, <3>1, Zenon
    <3>2. CASE ~(d < old.fastest)
      <4>1. r.best = old.best /\ r.fastest = old.fastest
        BY <1>2, <2>1, <3>2, Zenon DEF RoundType
      <4>2. old.best \in DOMAIN delay
        BY <1>2, <2>1, <2>4, <4>1, Zenon DEF Found, GroupInv
      <4> QED BY <1>2, <2>1, <2>2, <2>4, <4>1, <4>2, Zenon DEF Found
    <3> QED BY <3>1, <3>2, Zenon
  <2> HIDE DEF r
  <2> QED BY <1>2, <2>1, <2>2, <2>3, <2>4, RoundStep, Zenon
<1> QED BY <1>1, <1>3, <1>4, Zenon

\* A round ends with a node that has answered.
LEMMA DecidesStep ==
    ASSUME GroupInv, NEW g \in DOMAIN round, Decides(g)
    PROVE  /\ GroupInv'
           /\ round[g].best # Nothing => delay[selection'[g]] # Longest
<1>1. /\ running /\ round[g] # Nothing /\ round[g] \in RoundType /\ Found(g) /\ conf \in Documents
      /\ g \in conf.tests /\ g \in DOMAIN conf.proxies /\ g \in DOMAIN selection
      /\ selection[g] \in Members(conf, g)
      /\ UNCHANGED <<conf, running, delay>> /\ round' = [round EXCEPT ![g] = Nothing]
  BY GroupConstants, Zenon DEF Decides, GroupInv
<1> DEFINE Moves == round[g].best # Nothing /\ Beats(round[g].fastest, delay[selection[g]])
<1>2. selection' = IF Moves THEN [selection EXCEPT ![g] = round[g].best] ELSE selection
  BY Zenon DEF Decides
<1>3. /\ DOMAIN selection' = DOMAIN selection
      /\ selection' = [x \in DOMAIN selection' |-> selection'[x]]
      /\ \A x \in DOMAIN selection : selection'[x] \in Members(conf, x)
      /\ selection'[g] = IF Moves THEN round[g].best ELSE selection[g]
  BY <1>1, <1>2, Zenon DEF GroupInv, Found
<1>4. ASSUME round[g].best # Nothing PROVE delay[selection'[g]] # Longest
  <2>1. CASE Moves
    BY <1>1, <1>3, <1>4, <2>1, Zenon DEF Found
  <2>2. CASE ~Moves
    <3>1. /\ round[g].fastest \in Delays /\ delay[selection[g]] \in Nat
          /\ ~Beats(round[g].fastest, delay[selection[g]])
      BY <1>1, <1>4, <2>2, Zenon DEF Found, GroupInv
    <3> QED BY <1>3, <2>2, <3>1, GroupConstants, Zenon DEF Beats
  <2> QED BY <2>1, <2>2, Zenon
<1>5. DOMAIN round' = DOMAIN round /\ \A x \in DOMAIN round : round'[x] = IF x = g THEN Nothing ELSE round[x]
  BY <1>1, Zenon
<1>6. \A x \in conf.tests : round'[x] # Nothing => round'[x] \in RoundType /\ Found(x)'
  BY <1>1, <1>5, Zenon DEF GroupInv, Found
<1>7. GroupInv'
  BY <1>1, <1>3, <1>5, <1>6, Zenon DEF GroupInv
<1> QED BY <1>4, <1>7, Zenon

\* One step per action.
LEMMA GroupStepInv == GroupInv /\ [GroupNext]_groupVars => GroupInv'
<1> SUFFICES ASSUME GroupInv, [GroupNext]_groupVars PROVE GroupInv'
  BY Zenon
<1>1. CASE \E c \in Documents : StartCore(c)
  BY <1>1, StartStep, Zenon
<1>2. CASE Halts
  BY <1>2, Zenon DEF Halts, GroupInv
<1>3. ASSUME NEW g \in DOMAIN selection, NEW n \in Members(conf, g), Select(g, n) PROVE GroupInv'
  BY <1>3, SelectionStep, Zenon DEF Select, GroupInv
<1>4. CASE (\E s \in Savers : Export(s) \/ Rename(s) \/ RenameFails(s)) \/ UNCHANGED groupVars
  BY <1>4, Zenon DEF Export, Rename, RenameFails, groupVars, GroupInv, Found
<1>5. CASE \E n \in DOMAIN delay, d \in Delays : ProbeNow(n, d)
  BY <1>5, ProbeNowStep, Zenon
<1>6. CASE \E g \in DOMAIN round : Rounds(g)
  BY <1>6, RoundsStep, DecidesStep, Zenon DEF Rounds
<1> QED BY <1>1, <1>2, <1>3, <1>4, <1>5, <1>6, Zenon DEF GroupNext

\* A url-test group leaves a node that never answered at the end of a round that
\* found another, for any configurations, delays and tolerance.
THEOREM SilentNodesAreLeft == GroupSpec => LeavesSilentNode
<1>1. GroupInv /\ [GroupNext]_groupVars =>
        [\A g \in DOMAIN round : Decides(g) /\ round[g].best # Nothing =>
            delay[selection'[g]] # Longest]_groupVars
  BY DecidesStep, Zenon
<1> QED BY <1>1, GroupInitInv, GroupStepInv, PTL DEF GroupSpec, LeavesSilentNode

-----------------------------------------------------------------------------
\* Of a set of numbers, one is the least.
LEMMA Least ==
    ASSUME NEW S, S \subseteq Nat, S # {}
    PROVE  \E x \in S : \A y \in S : x <= y
<1>1. PICK x \in S : \A y \in S : ~(<<y, x>> \in OpToRel(<, Nat))
  BY WFMin, NatLessThanWellFounded, Zenon
<1>2. \A y \in S : ~(y < x)
  BY <1>1, Zenon DEF OpToRel
<1> QED BY <1>2

\* If the numbers that lack something go down, there are none.
LEMMA NoneLeft ==
    ASSUME NEW S, S \subseteq Nat, 0 \notin S, \A n \in Nat : n + 1 \in S => n \in S
    PROVE  S = {}
<1> SUFFICES ASSUME S # {} PROVE FALSE
  OBVIOUS
<1>1. PICK x \in S : \A y \in S : x <= y
  BY Least, Zenon
<1>2. x \in Nat /\ x # 0
  OBVIOUS
<1>3. x - 1 \in Nat /\ (x - 1) + 1 = x
  BY <1>2
<1>4. x - 1 \in S
  BY <1>3
<1> QED BY <1>1, <1>2, <1>4

\* A document has as many hops as it has groups.
LEMMA OrderFacts ==
    ASSUME NEW c \in Documents
    PROVE  /\ Len(c.order) \in Nat /\ IsFiniteSet(DOMAIN c.proxies)
           /\ Cardinality(DOMAIN c.proxies) <= Len(c.order)
           /\ Len(c.order) = 0 => DOMAIN c.proxies = {}
           /\ c.order # <<>> => c.order[1] \in DOMAIN c.proxies
<1> DEFINE G == DOMAIN c.proxies
<1>1. c.order \in Seq(G) /\ Range(c.order) = G
  BY GroupConstants, Zenon
<1>2. Len(c.order) \in Nat /\ DOMAIN c.order = 1..Len(c.order) /\ c.order \in [1..Len(c.order) -> G]
  BY <1>1
<1>3. \A g \in G : \E i \in 1..Len(c.order) : c.order[i] = g
  BY <1>1, <1>2, Zenon DEF Range
<1>4. c.order \in Surjection(1..Len(c.order), G)
  BY <1>2, <1>3, Zenon DEF Surjection
<1>5. IsFiniteSet(1..Len(c.order)) /\ Cardinality(1..Len(c.order)) = Len(c.order)
  BY <1>2, FS_Interval
<1>6. IsFiniteSet(G) /\ Cardinality(G) <= Len(c.order)
  BY <1>4, <1>5, FS_Surjection
<1>7. Len(c.order) = 0 => G = {}
  BY <1>3
<1>8. c.order # <<>> => c.order[1] \in G
  BY <1>1
<1> QED BY <1>2, <1>6, <1>7, <1>8, Zenon

\* The names a number of levels below a group, as far as visit goes.
LEMMA BelowLevels ==
    ASSUME NEW c \in Documents, NEW g
    PROVE  \E level :
             /\ level[0] = Members(c, g)
             /\ \A n \in Nat : n + 1 <= Len(c.order) =>
                  level[n + 1] = level[n] \union UNION {Members(c, x) : x \in level[n]}
             /\ Below(c, g) = level[Len(c.order)]
<1> DEFINE More(X) == X \union UNION {Members(c, x) : x \in X}
           Is(f, m) == f = [n \in 0..m |-> IF n = 0 THEN Members(c, g) ELSE More(f[n - 1])]
           N == Len(c.order)
<1>1. N \in Nat
  BY OrderFacts, Zenon
<1>2. \E f : Is(f, N)
  <2> HIDE DEF More
  <2> DEFINE Bad == {m \in Nat : ~\E f : Is(f, m)}
  <2>1. 0 \notin Bad
    <3> DEFINE f == [n \in 0..0 |-> Members(c, g)]
    <3>1. Is(f, 0)
      OBVIOUS
    <3> QED BY <3>1, Zenon
  <2>2. ASSUME NEW m \in Nat, m \notin Bad PROVE m + 1 \notin Bad
    <3>1. PICK f : Is(f, m)
      BY <2>2, Zenon
    <3> DEFINE h == [n \in 0..(m + 1) |-> IF n = m + 1 THEN More(f[m]) ELSE f[n]]
    <3>2. ASSUME NEW n \in 0..(m + 1)
          PROVE  h[n] = IF n = 0 THEN Members(c, g) ELSE More(h[n - 1])
      <4>1. CASE n = 0
        BY <3>1, <4>1
      <4>2. CASE n # 0 /\ n # m + 1
        <5>1. n \in 0..m /\ n - 1 \in 0..(m + 1) /\ n - 1 # m + 1
          BY <4>2
        <5>2. h[n] = f[n] /\ h[n - 1] = f[n - 1]
          BY <4>2, <5>1
        <5>3. f[n] = More(f[n - 1])
          BY <3>1, <4>2, <5>1
        <5> QED BY <4>2, <5>2, <5>3, Zenon
      <4>3. CASE n = m + 1
        <5>1. m \in 0..(m + 1) /\ m # m + 1 /\ n # 0 /\ n - 1 = m
          BY <4>3
        <5> QED BY <4>3, <5>1
      <4> QED BY <4>1, <4>2, <4>3, Zenon
    <3>3. Is(h, m + 1)
      BY <3>2
    <3> QED BY <3>3, Zenon
  <2>3. Bad = {}
    <3> HIDE DEF Is
    <3>1. Bad \subseteq Nat
      OBVIOUS
    <3>2. \A n \in Nat : n + 1 \in Bad => n \in Bad
      BY <2>2, Zenon
    <3> HIDE DEF Bad
    <3> QED BY <2>1, <3>1, <3>2, NoneLeft, Zenon
  <2> QED BY <1>1, <2>3, Zenon
<1> DEFINE level == CHOOSE f : Is(f, N)
<1>3. Is(level, N)
  BY <1>2, Zenon
<1>4. Below(c, g) = level[N]
  BY Zenon DEF Below
<1>5. level = [n \in 0..N |-> IF n = 0 THEN Members(c, g) ELSE More(level[n - 1])]
  BY <1>3
<1> HIDE DEF level
<1>6. level[0] = Members(c, g)
  BY <1>1, <1>5
<1>7. ASSUME NEW n \in Nat, n + 1 <= N PROVE level[n + 1] = More(level[n])
  <2>1. n + 1 \in 0..N /\ n + 1 # 0 /\ (n + 1) - 1 = n
    BY <1>1, <1>7
  <2> HIDE DEF N, More
  <2> QED BY <1>5, <2>1
<1> QED BY <1>4, <1>6, <1>7, Zenon

\* leaf goes from a group to what it has selected.
LEMMA HopsFacts ==
    ASSUME conf \in Documents, NEW name
    PROVE  /\ Hops(name)[0] = IF name = "GLOBAL" THEN First ELSE name
           /\ \A n \in Nat : n + 1 <= Len(conf.order) =>
                Hops(name)[n + 1] = IF Hops(name)[n] \in DOMAIN selection
                                      THEN selection[Hops(name)[n]] ELSE Hops(name)[n]
<1> DEFINE Hop(x) == IF x \in DOMAIN selection THEN selection[x] ELSE x
           Start == IF name = "GLOBAL" THEN First ELSE name
           Is(f, m) == f = [n \in 0..m |-> IF n = 0 THEN Start ELSE Hop(f[n - 1])]
           N == Len(conf.order)
<1>1. N \in Nat
  BY OrderFacts, Zenon
<1>2. \E f : Is(f, N)
  <2> HIDE DEF Hop, Start
  <2> DEFINE Bad == {m \in Nat : ~\E f : Is(f, m)}
  <2>1. 0 \notin Bad
    <3> DEFINE f == [n \in 0..0 |-> Start]
    <3>1. Is(f, 0)
      OBVIOUS
    <3> QED BY <3>1, Zenon
  <2>2. ASSUME NEW m \in Nat, m \notin Bad PROVE m + 1 \notin Bad
    <3>1. PICK f : Is(f, m)
      BY <2>2, Zenon
    <3> DEFINE h == [n \in 0..(m + 1) |-> IF n = m + 1 THEN Hop(f[m]) ELSE f[n]]
    <3>2. ASSUME NEW n \in 0..(m + 1)
          PROVE  h[n] = IF n = 0 THEN Start ELSE Hop(h[n - 1])
      <4>1. CASE n = 0
        BY <3>1, <4>1
      <4>2. CASE n # 0 /\ n # m + 1
        <5>1. n \in 0..m /\ n - 1 \in 0..(m + 1) /\ n - 1 # m + 1
          BY <4>2
        <5>2. h[n] = f[n] /\ h[n - 1] = f[n - 1]
          BY <4>2, <5>1
        <5>3. f[n] = Hop(f[n - 1])
          BY <3>1, <4>2, <5>1
        <5> QED BY <4>2, <5>2, <5>3, Zenon
      <4>3. CASE n = m + 1
        <5>1. m \in 0..(m + 1) /\ m # m + 1 /\ n # 0 /\ n - 1 = m
          BY <4>3
        <5> QED BY <4>3, <5>1
      <4> QED BY <4>1, <4>2, <4>3, Zenon
    <3>3. Is(h, m + 1)
      BY <3>2
    <3> QED BY <3>3, Zenon
  <2>3. Bad = {}
    <3> HIDE DEF Is
    <3>1. Bad \subseteq Nat
      OBVIOUS
    <3>2. \A n \in Nat : n + 1 \in Bad => n \in Bad
      BY <2>2, Zenon
    <3> HIDE DEF Bad
    <3> QED BY <2>1, <3>1, <3>2, NoneLeft, Zenon
  <2> QED BY <1>1, <2>3, Zenon
<1> DEFINE at == CHOOSE f : Is(f, N)
<1>3. Is(at, N)
  BY <1>2, Zenon
<1>4. Hops(name) = at
  BY Zenon DEF Hops
<1>5. at = [n \in 0..N |-> IF n = 0 THEN Start ELSE Hop(at[n - 1])]
  BY <1>3
<1> HIDE DEF at
<1>6. at[0] = Start
  BY <1>1, <1>5
<1>7. ASSUME NEW n \in Nat, n + 1 <= N PROVE at[n + 1] = Hop(at[n])
  <2>1. n + 1 \in 0..N /\ n + 1 # 0 /\ (n + 1) - 1 = n
    BY <1>1, <1>7
  <2> HIDE DEF N, Hop
  <2> QED BY <1>5, <2>1
<1> QED BY <1>4, <1>6, <1>7, Zenon

\* In groups without a cycle, a walk from a group over selected members that does
\* not leave the groups would come to one of them twice, and it would be below itself.
LEMMA LeafIsNode ==
    ASSUME conf \in Documents, Valid(conf), DOMAIN selection = DOMAIN conf.proxies,
           \A g \in DOMAIN selection : selection[g] \in Members(conf, g),
           NEW name \in DOMAIN conf.proxies \union {"GLOBAL"}
    PROVE  Leaf(name) \in Names(conf) \ DOMAIN conf.proxies
<1> DEFINE at == Hops(name)
           N == Len(conf.order)
           G == DOMAIN conf.proxies
<1>1. /\ N \in Nat /\ IsFiniteSet(G) /\ Cardinality(G) <= N
      /\ N = 0 => G = {}
      /\ conf.order # <<>> => conf.order[1] \in G
  BY OrderFacts, Zenon
<1>2. /\ at[0] = IF name = "GLOBAL" THEN First ELSE name
      /\ \A n \in Nat : n + 1 <= N => at[n + 1] = IF at[n] \in G THEN selection[at[n]] ELSE at[n]
  BY HopsFacts, Zenon
<1> HIDE DEF N
<1>3. ASSUME NEW g \in G PROVE Members(conf, g) \subseteq Below(conf, g)
  <2>1. PICK level :
          /\ level[0] = Members(conf, g)
          /\ \A n \in Nat : n + 1 <= N =>
               level[n + 1] = level[n] \union UNION {Members(conf, x) : x \in level[n]}
          /\ Below(conf, g) = level[N]
    BY BelowLevels, Zenon DEF N
  <2> DEFINE Bad == {m \in Nat : m <= N /\ ~(Members(conf, g) \subseteq level[m])}
  <2>2. 0 \notin Bad
    BY <2>1, Zenon
  <2>3. ASSUME NEW m \in Nat, m + 1 \in Bad PROVE m \in Bad
    <3>1. m + 1 <= N /\ m <= N
      BY <1>1, <2>3
    <3>2. level[m] \subseteq level[m + 1]
      BY <2>1, <3>1, Zenon
    <3> QED BY <2>3, <3>1, <3>2, Zenon
  <2>4. Bad = {}
    <3>1. Bad \subseteq Nat
      OBVIOUS
    <3> HIDE DEF Bad
    <3> QED BY <2>2, <2>3, <3>1, NoneLeft, Zenon
  <2> QED BY <1>1, <2>1, <2>4
<1>4. ASSUME NEW n \in Nat, n <= N PROVE at[n] \in Names(conf)
  <2> DEFINE Bad == {m \in Nat : m <= N /\ at[m] \notin Names(conf)}
  <2>1. 0 \notin Bad
    <3>1. at[0] \in Names(conf)
      BY <1>1, <1>2, Zenon DEF First, Names
    <3> QED BY <3>1, Zenon
  <2>2. ASSUME NEW m \in Nat, m + 1 \in Bad PROVE m \in Bad
    <3>1. m + 1 <= N /\ m <= N
      BY <1>1, <2>2
    <3>2. at[m] \in G => at[m + 1] \in Names(conf)
      BY <1>2, <1>3, <3>1, Zenon DEF Valid
    <3>3. at[m + 1] \notin Names(conf)
      BY <2>2, Zenon
    <3>4. at[m + 1] = at[m]
      BY <1>2, <3>1, <3>2, <3>3, Zenon
    <3> QED BY <3>1, <3>3, <3>4, Zenon
  <2>3. Bad = {}
    <3>1. Bad \subseteq Nat
      OBVIOUS
    <3> HIDE DEF Bad
    <3> QED BY <2>1, <2>2, <3>1, NoneLeft, Zenon
  <2> QED BY <1>4, <2>3, Zenon
<1>5. ASSUME at[N] \in G PROVE FALSE
  <2>1. ASSUME NEW n \in Nat, n <= N PROVE at[n] \in G
    <3> DEFINE Bad == {k \in Nat : k <= N /\ at[N - k] \notin G}
    <3>1. 0 \notin Bad
      BY <1>1, <1>5
    <3>2. ASSUME NEW k \in Nat, k + 1 \in Bad PROVE k \in Bad
      <4>1. k + 1 <= N /\ k <= N /\ N - (k + 1) \in Nat /\ N - k = (N - (k + 1)) + 1 /\ (N - (k + 1)) + 1 <= N
        BY <1>1, <3>2
      <4>2. at[N - (k + 1)] \notin G
        BY <3>2, Zenon
      <4>3. at[N - k] = at[N - (k + 1)]
        BY <1>2, <4>1, <4>2, Zenon
      <4> QED BY <4>1, <4>2, <4>3, Zenon
    <3>3. Bad = {}
      <4>1. Bad \subseteq Nat
        OBVIOUS
      <4> HIDE DEF Bad
      <4> QED BY <3>1, <3>2, <4>1, NoneLeft, Zenon
    <3>4. N - n \in Nat /\ N - n <= N /\ N - (N - n) = n
      BY <1>1, <2>1
    <3> QED BY <3>3, <3>4, Zenon
  <2>2. PICK i \in 0..N, j \in 0..N : i < j /\ at[i] = at[j]
    <3> DEFINE walk == [n \in 0..N |-> at[n]]
    <3>1. walk \in [0..N -> G]
      BY <1>1, <2>1
    <3>2. IsFiniteSet(0..N) /\ Cardinality(0..N) = N + 1
      BY <1>1, FS_Interval
    <3>3. Cardinality(G) \in Nat
      BY <1>1, FS_CardinalityType, Zenon
    <3>4. Cardinality(G) < Cardinality(0..N)
      BY <1>1, <3>2, <3>3
    <3>5. \E x, y \in 0..N : x # y /\ walk[x] = walk[y]
      <4> HIDE DEF walk, G
      <4> QED BY <1>1, <3>1, <3>2, <3>4, FS_PigeonHole, Zenon
    <3>6. PICK x \in 0..N, y \in 0..N : x # y /\ at[x] = at[y]
      BY <3>5, Zenon
    <3>7. x < y \/ y < x
      BY <1>1, <3>6
    <3> QED BY <3>6, <3>7, Zenon
  <2> DEFINE g == at[i]
  <2>3. g \in G /\ i \in Nat /\ j \in Nat /\ i <= N /\ j <= N
    BY <1>1, <2>1, <2>2
  <2>4. PICK level :
          /\ level[0] = Members(conf, g)
          /\ \A n \in Nat : n + 1 <= N =>
               level[n + 1] = level[n] \union UNION {Members(conf, x) : x \in level[n]}
          /\ Below(conf, g) = level[N]
    BY BelowLevels, Zenon DEF N
  <2>5. ASSUME NEW n \in Nat, n + 1 <= N PROVE at[n + 1] \in Members(conf, at[n])
    <3>1. at[n] \in G
      BY <1>1, <2>1, <2>5
    <3> QED BY <1>2, <2>5, <3>1, Zenon
  <2> HIDE DEF g
  <2>6. at[j] \in level[j - i - 1] /\ j - i - 1 \in Nat /\ j - i - 1 <= N
    <3> DEFINE Bad == {k \in Nat : i + k + 1 <= N /\ at[i + k + 1] \notin level[k]}
    <3>1. 0 \notin Bad
      <4>1. i + 0 + 1 = i + 1
        BY <2>3
      <4> QED BY <2>3, <2>4, <2>5, <4>1, Zenon DEF g
    <3>2. ASSUME NEW k \in Nat, k + 1 \in Bad PROVE k \in Bad
      <4>1. /\ i + (k + 1) + 1 = (i + k + 1) + 1 /\ (i + k + 1) + 1 <= N /\ i + k + 1 \in Nat
            /\ k + 1 <= N /\ i + k + 1 <= N
        BY <1>1, <2>3, <3>2
      <4>2. at[(i + k + 1) + 1] \in Members(conf, at[i + k + 1])
        BY <2>5, <4>1, Zenon
      <4>3. at[i + k + 1] \in level[k] => at[(i + k + 1) + 1] \in level[k + 1]
        <5>1. level[k + 1] = level[k] \union UNION {Members(conf, x) : x \in level[k]}
          BY <2>4, <4>1, Zenon
        <5> QED BY <4>2, <5>1
      <4>4. at[(i + k + 1) + 1] \notin level[k + 1]
        BY <3>2, <4>1, Zenon
      <4> QED BY <4>1, <4>3, <4>4, Zenon
    <3>3. Bad = {}
      <4>1. Bad \subseteq Nat
        OBVIOUS
      <4> HIDE DEF Bad
      <4> QED BY <3>1, <3>2, <4>1, NoneLeft, Zenon
    <3>4. j - i - 1 \in Nat /\ j - i - 1 <= N /\ i + (j - i - 1) + 1 = j
      BY <1>1, <2>2, <2>3
    <3> QED BY <2>3, <3>3, <3>4, Zenon
  <2>7. level[j - i - 1] \subseteq level[N]
    <3> DEFINE m == j - i - 1
               Bad == {k \in Nat : m + k <= N /\ ~(level[m] \subseteq level[m + k])}
    <3>1. 0 \notin Bad
      BY <2>6
    <3>2. ASSUME NEW k \in Nat, k + 1 \in Bad PROVE k \in Bad
      <4>1. m + (k + 1) = (m + k) + 1 /\ (m + k) + 1 <= N /\ m + k \in Nat /\ m + k <= N
        BY <1>1, <2>6, <3>2
      <4>2. level[m + k] \subseteq level[(m + k) + 1]
        BY <2>4, <4>1, Zenon
      <4>3. ~(level[m] \subseteq level[(m + k) + 1])
        BY <3>2, <4>1, Zenon
      <4> QED BY <4>1, <4>2, <4>3, Zenon
    <3>3. Bad = {}
      <4>1. Bad \subseteq Nat
        OBVIOUS
      <4> HIDE DEF Bad
      <4> QED BY <3>1, <3>2, <4>1, NoneLeft, Zenon
    <3>4. N - m \in Nat /\ m + (N - m) = N /\ m + (N - m) <= N
      BY <1>1, <2>6
    <3> QED BY <3>3, <3>4, Zenon
  <2>8. g \in Below(conf, g)
    BY <2>2, <2>4, <2>6, <2>7, Zenon DEF g
  <2> QED BY <2>3, <2>8, Zenon DEF Valid
<1> QED BY <1>1, <1>4, <1>5 DEF Leaf, N

\* leaf takes every group, and GLOBAL, to a node of the configuration in force, for
\* any configurations and any order of starts, selections, rounds and saves.
THEOREM GroupsLeadToNodes == GroupSpec => []LeafResolves
<1>1. GroupInv => LeafResolves
  BY LeafIsNode, Zenon DEF GroupInv, LeafResolves
<1> QED BY <1>1, GroupInitInv, GroupStepInv, PTL DEF GroupSpec

-----------------------------------------------------------------------------
(* Connection tasks.                                                        *)

Places == {"idle", "hello", "dial", "reply", "token", "track", "relay", "ended"}
\* between the dial and the entry in the table
Underway == {"dial", "reply", "token", "track"}

Types ==
    /\ stage \in [Tasks -> Places] /\ from \in [Tasks -> 0..MaxNet]
    /\ net \in 0..MaxNet /\ handled \in 0..MaxNet /\ handled <= net
    /\ changer \in {"idle", "cancel"} /\ closing \subseteq Tasks /\ connections \subseteq Tasks
    /\ pooled \subseteq 0..MaxNet /\ racing \subseteq Tasks /\ revived \subseteq Tasks

Limits == Cardinality(Busy) <= Slots /\ Cardinality(connections) <= MaxConns

Flags == listening \in BOOLEAN /\ stop \in BOOLEAN

\* A connection over an earlier network is cancelled, on the list that is being
\* cancelled, was under way when that list was taken, or has taken a pooled socket
\* since; and a task under way over an earlier network is one of the last two.
Reached ==
    /\ \A t \in connections :
          from[t] < handled => t \in cancelled \union racing \union revived \union closing
    /\ \A t \in Tasks : stage[t] \in Underway /\ from[t] < handled => t \in racing \union revived
    /\ changer = "idle" => closing = {}

TasksInv == Types /\ TrackedExact /\ StopReachesAll /\ Reached

\* The sets whose sizes are limited are finite.
LEMMA FiniteTables ==
    ASSUME Types
    PROVE  IsFiniteSet(Busy) /\ IsFiniteSet(connections)
           /\ Cardinality(Busy) \in Nat /\ Cardinality(connections) \in Nat
  <1>1. Busy \subseteq Tasks
    BY Zenon DEF Busy
  <1>2. IsFiniteSet(Busy) /\ IsFiniteSet(connections)
    BY <1>1, FS_Subset, SessionsConstants, Zenon DEF Types
  <1>. QED
    BY <1>2, FS_CardinalityType, Zenon

\* Initially no task runs and no connection is tracked.
LEMMA TasksInit == TaskInit => TasksInv /\ Limits /\ Flags
  <1>. SUFFICES ASSUME TaskInit PROVE TasksInv /\ Limits /\ Flags
    BY Zenon
  <1>1. TasksInv
    BY SessionsConstants DEF TaskInit, TasksInv, Types, TrackedExact, StopReachesAll, Reached, Places, Underway
  <1>2. Busy = {}
    BY Zenon DEF TaskInit, Busy
  <1>3. Limits
    BY <1>2, FS_EmptySet, SessionsConstants DEF TaskInit, Limits
  <1>4. Flags
    BY Zenon DEF TaskInit, Flags
  <1>. QED
    BY <1>1, <1>3, <1>4, Zenon

\* Every step keeps the inductive invariant.
LEMMA TasksStep == TasksInv /\ [TaskNext]_taskVars => TasksInv'
  <1>. SUFFICES ASSUME TasksInv, [TaskNext]_taskVars PROVE TasksInv'
    BY Zenon
  <1>. USE SessionsConstants DEF TasksInv, Types, TrackedExact, StopReachesAll, Reached, Places, Underway
  <1>a. ASSUME NEW t \in Tasks, Accept(t) PROVE TasksInv'
    BY <1>a, Zenon DEF Accept, Step, Goto, outside, calls, past
  <1>b. ASSUME NEW t \in Tasks, Handshake(t) PROVE TasksInv'
    BY <1>b DEF Handshake, Step, Goto, outside, calls, past
  <1>c. ASSUME NEW t \in Tasks, Dial(t) PROVE TasksInv'
    BY <1>c DEF Dial, Step, Goto, outside, calls, past
  <1>q. ASSUME NEW t \in Tasks, NEW n \in 0..MaxNet, DialPooled(t, n) PROVE TasksInv'
    BY <1>q DEF DialPooled, Step, Goto, outside, calls
  <1>d. ASSUME NEW t \in Tasks, Reply(t) PROVE TasksInv'
    BY <1>d, Zenon DEF Reply, Step, Goto, outside, calls, past
  <1>e. ASSUME NEW t \in Tasks, Token(t) PROVE TasksInv'
    BY <1>e, Zenon DEF Token, ChildToken, Step, Goto, outside, calls, past
  <1>f. ASSUME NEW t \in Tasks, Track(t) PROVE TasksInv'
    BY <1>f, Zenon DEF Track, Step, Goto, outside, calls, past
  <1>g. ASSUME NEW t \in Tasks, Release(t) PROVE TasksInv'
    BY <1>g, Zenon DEF Release, Step, Goto, outside, calls, past
  <1>h. ASSUME NEW t \in Tasks, Gone(t) PROVE TasksInv'
    BY <1>h DEF Gone, Untrack, Goto, calls
  <1>i. ASSUME NEW t \in Tasks, CloseConnection(t) PROVE TasksInv'
    BY <1>i, Zenon DEF CloseConnection, outside, calls, past
  <1>j. ASSUME NEW t \in Tasks, CancelNext(t) PROVE TasksInv'
    BY <1>j, Zenon DEF CancelNext, past
  <1>r. ASSUME NEW n \in 0..MaxNet, PoolLoses(n) PROVE TasksInv'
    BY <1>r, Zenon DEF PoolLoses, outside, calls, past
  <1>k. CASE NetworkMoves
    BY <1>k DEF NetworkMoves, past
  <1>l. CASE NetworkChanged
    BY <1>l DEF NetworkChanged, Listed
  <1>m. CASE ChangeDone
    BY <1>m, Zenon DEF ChangeDone, past
  <1>n. CASE Stop
    BY <1>n, Zenon DEF Stop, past
  <1>o. CASE ServeEnds
    BY <1>o, Zenon DEF ServeEnds, past
  <1>p. CASE UNCHANGED taskVars
    BY <1>p, Zenon DEF taskVars, past
  <1>. QED
    BY <1>a, <1>b, <1>c, <1>d, <1>e, <1>f, <1>g, <1>h, <1>i, <1>j, <1>k, <1>l, <1>m, <1>n, <1>o, <1>p, <1>q, <1>r, Zenon DEF TaskNext, Advance, End, Aborted

\* Every step keeps the permits and the table of connections within their
\* limits: a task starts only with a permit and is entered only if there is room.
LEMMA StepLimits == TasksInv /\ TasksInv' /\ Limits /\ [TaskNext]_taskVars => Limits'
  <1>. SUFFICES ASSUME TasksInv, TasksInv', Limits, [TaskNext]_taskVars PROVE Limits'
    BY Zenon
  <1>1. /\ IsFiniteSet(Busy) /\ IsFiniteSet(connections)
        /\ Cardinality(Busy) \in Nat /\ Cardinality(connections) \in Nat
        /\ stage \in [Tasks -> Places]
    BY FiniteTables, Zenon DEF TasksInv, Types
  <1>2. ASSUME Busy' \subseteq Busy PROVE Cardinality(Busy') <= Slots
    <2>1. Cardinality(Busy') <= Cardinality(Busy) /\ Cardinality(Busy') \in Nat
      BY <1>1, <1>2, FS_Subset, FS_CardinalityType, Zenon
    <2>. QED
      BY <1>1, <2>1, SessionsConstants DEF Limits
  <1>3. ASSUME connections' \subseteq connections PROVE Cardinality(connections') <= MaxConns
    <2>1. Cardinality(connections') <= Cardinality(connections) /\ Cardinality(connections') \in Nat
      BY <1>1, <1>3, FS_Subset, FS_CardinalityType, Zenon
    <2>. QED
      BY <1>1, <2>1, SessionsConstants DEF Limits
  <1>a. ASSUME NEW t \in Tasks, Accept(t) PROVE Limits'
    <2>1. connections' = connections /\ Busy' = Busy \union {t} /\ Cardinality(Busy) < Slots
      BY <1>1, <1>a, Zenon DEF Accept, Step, Goto, Busy, HasPermit
    <2>2. Cardinality(Busy \union {t}) = IF t \in Busy THEN Cardinality(Busy) ELSE Cardinality(Busy) + 1
      BY <1>1, FS_AddElement, Zenon
    <2>3. Cardinality(Busy \union {t}) \in Nat
      BY <1>1, FS_AddElement, FS_CardinalityType, Zenon
    <2>4. Cardinality(Busy') <= Slots
      BY <1>1, <2>1, <2>2, <2>3, SessionsConstants
    <2>. QED
      BY <1>3, <2>1, <2>4, Zenon DEF Limits
  <1>b. ASSUME NEW t \in Tasks, Track(t) PROVE Limits'
    <2>1. connections' = connections \union {t} /\ Busy' \subseteq Busy
          /\ Cardinality(connections) < MaxConns
      BY <1>1, <1>b, Zenon DEF Track, Step, Goto, Busy
    <2>2. Cardinality(connections \union {t})
            = IF t \in connections THEN Cardinality(connections) ELSE Cardinality(connections) + 1
      BY <1>1, FS_AddElement, Zenon
    <2>3. Cardinality(connections \union {t}) \in Nat
      BY <1>1, FS_AddElement, FS_CardinalityType, Zenon
    <2>4. Cardinality(connections') <= MaxConns
      BY <1>1, <2>1, <2>2, <2>3, SessionsConstants
    <2>. QED
      BY <1>2, <2>1, <2>4, Zenon DEF Limits
  <1>c. ASSUME NEW t \in Tasks,
               Handshake(t) \/ Dial(t) \/ (\E n \in 0..MaxNet : DialPooled(t, n)) \/ Reply(t) \/ Token(t) \/ Release(t) \/ End(t) \/ Aborted(t)
        PROVE  Limits'
    <2>1. connections' \subseteq connections
      BY <1>c, Zenon DEF Handshake, Dial, DialPooled, Reply, Token, Release, End, Aborted, Gone, Untrack
    <2>2. stage[t] # "idle"
      BY <1>c, Zenon DEF Handshake, Dial, DialPooled, Reply, Token, Release, End, Aborted, MayEnd, Step
    <2>3. PICK p : stage' = [stage EXCEPT ![t] = p]
      BY <1>c, Zenon DEF Handshake, Dial, DialPooled, Reply, Token, Release, End, Aborted, Gone, Step, Goto
    <2>4. Busy' \subseteq Busy
      BY <1>1, <2>2, <2>3, Zenon DEF Busy
    <2>. QED
      BY <1>2, <1>3, <2>1, <2>4, Zenon DEF Limits
  <1>d. ASSUME stage' = stage, connections' = connections PROVE Limits'
    <2>1. Busy' = Busy
      BY <1>d, Zenon DEF Busy
    <2>. QED
      BY <1>2, <1>3, <1>d, <2>1, Zenon DEF Limits
  <1>e. ASSUME NEW t \in Tasks, CloseConnection(t) \/ CancelNext(t) PROVE Limits'
    BY <1>d, <1>e, Zenon DEF CloseConnection, CancelNext
  <1>g. ASSUME NEW n \in 0..MaxNet, PoolLoses(n) PROVE Limits'
    BY <1>d, <1>g, Zenon DEF PoolLoses
  <1>f. CASE NetworkMoves \/ NetworkChanged \/ ChangeDone \/ Stop \/ ServeEnds \/ UNCHANGED taskVars
    BY <1>d, <1>f, Zenon DEF NetworkMoves, NetworkChanged, ChangeDone, Stop, ServeEnds, taskVars
  <1>. QED
    BY <1>a, <1>b, <1>c, <1>e, <1>f, <1>g, Zenon DEF TaskNext, Advance

\* The two flags stay flags.
LEMMA StepFlags == Flags /\ [TaskNext]_taskVars => Flags'
  BY Zenon DEF Flags, TaskNext, Advance, Accept, Handshake, Dial, DialPooled, PoolLoses, Reply, Token, Track, Release, End, Aborted, Gone,
         CloseConnection, CancelNext, NetworkMoves, NetworkChanged, ChangeDone, Stop, ServeEnds,
         outside, calls, taskVars

\* The invariant, the limits and the flags hold in every reachable state.
THEOREM Invariance == TaskSpec => [](TasksInv /\ Limits /\ Flags)
  <1>1. TasksInv /\ Limits /\ Flags /\ [TaskNext]_taskVars => (TasksInv /\ Limits /\ Flags)'
    BY TasksStep, StepLimits, StepFlags, Zenon
  <1>. QED
    BY TasksInit, <1>1, PTL DEF TaskSpec

\* For any number of tasks the state keeps its type, the accepted connections
\* never exceed the permits and the tracked ones never their limit.
THEOREM SessionsTypeCorrect == TaskSpec => []TypeOK
  <1>1. TasksInv /\ Limits /\ Flags => TypeOK
    BY Zenon DEF TasksInv, Types, Limits, Flags, TypeOK, Places
  <1>. QED
    BY Invariance, <1>1, PTL

\* Core::connections is exactly the set of relayed connections.
THEOREM TableExact == TaskSpec => []TrackedExact
  <1>1. TasksInv => TrackedExact
    BY Zenon DEF TasksInv
  <1>. QED
    BY Invariance, <1>1, PTL

\* The stop of the core cancels every connection that is or will be tracked.
THEOREM StopCancelsAll == TaskSpec => []StopReachesAll
  <1>1. TasksInv => StopReachesAll
    BY Zenon DEF TasksInv
  <1>. QED
    BY Invariance, <1>1, PTL

\* After network_changed only connections that raced it, or that took a pooled
\* connection after it, run over an earlier network.
THEOREM ChangeReachesAll == TaskSpec => []OldNetworkNeedsRaceOrPool
  <1>1. TasksInv => OldNetworkNeedsRaceOrPool
    BY Zenon DEF TasksInv, Types, Reached, OldNetworkNeedsRaceOrPool
  <1>. QED
    BY Invariance, <1>1, PTL
=============================================================================
