# Verification of meta-rust

TLA+ models of the proxy core in `crates/`, the TLC runs that check them on
small instances, and TLAPS proofs of the properties that matter most for every
instance. Paths below are relative to `src/crates/`; the source lines of every
definition are in `PROJECT.json` (`map`), the lines where things can go wrong in
`hazards`.

## 1. The system

A core (`core/src/lib.rs`, `Core`) routes connections and datagrams that come in
through HTTP/SOCKS listeners (`inbound.rs`), through a TUN device or the host's
packets (`packet.rs`), to VLESS proxies (`protocol/`) or directly. Names are
resolved by `dns.rs`; routing data comes from files and downloads
(`resources.rs`). The command line (`cli/`) owns the desktop's routing table
(`platform/src/desktop.rs`), a host application owns cores through a C ABI
(`ffi/`). Everything runs on Tokio tasks: a future may be dropped at any await,
and locks are held only between awaits, with a few named exceptions.

| part | source | state | operations | what is hard |
|---|---|---|---|---|
| fake-IP table | `core/src/dns.rs` | two inverse maps, next address per family | answer, restore, export, import | end of the range, capacity, import of an older profile |
| saved profile | `core/src/profile.rs` | one file | load, three concurrent savers | snapshots renamed out of order, crashes |
| resolver cache | `core/src/dns.rs` | entries with deadline and size | lookup, store, evict, clear | a query that is out when the cache is cleared |
| routing policy | `core/src/lib.rs`, `resources.rs` | rules as text and bound, snapshot, asset files | load, commit, update | a load lasts minutes and the rules change meanwhile |
| proxy groups | `core/src/lib.rs`, `config/src/lib.rs`, `profile.rs` | selection and delay of each group | select, probe, url-test rounds, restart | a saved selection under another configuration, probes during a round |
| connections | `inbound.rs`, `lib.rs`, `traffic.rs` | permits, connection table, cancellation tokens | accept, dial, track, relay, close, network change, stop | stop or change between dial and entry, pooled connections that outlive a change |
| TUN TCP | `core/src/packet.rs` | sockets, channels, session tasks, flow table | one loop, many sessions | half-closes, full channels, results matched by flow |
| TUN UDP | `core/src/packet.rs` | ports, flow table, session tasks, replies | the same loop, one session per flow | ports that expire, results of old sessions |
| IPv6 fragments | `core/src/packet_ipv6.rs` | assemblies of packets | accept, expire | any order, repeated, overlapping, late |
| XUDP pool | `core/src/lib.rs` | one multiplexer per node | reuse, dial, session | dials of seconds under one lock, calls given up |
| XUDP multiplexer | `protocol/src/xudp.rs` | routes, IDs, writer lock, liveness flag | open, send, receive, end, fail | cut frames, dropped futures, failure racing an open |
| gRPC pool | `protocol/src/grpc.rs` | pooled connections, counters, creation lock | lease, dial, stream, end | callers dropped at every await, connections whose runtime is gone |
| VLESS streams | `vless.rs`, `websocket.rs`, `grpc.rs`, `vision.rs`, `record.rs` | buffers of every layer | poll_read, poll_write, flush | bytes cut anywhere, direct copy under TLS, wake-ups |
| desktop routes | `platform/src/desktop.rs`, `cli/src/main.rs` | routing table, journal on disk | open, refresh, restore, recover | crashes and failures between any two system calls |
| C ABI handles | `ffi/src/lib.rs`, `host.rs` | registry, worker, command queue, join lock | create, start, notify, stop, destroy, callbacks | two stops at once, callbacks that call, timeouts |
| packets of a handle | `ffi/src/host.rs`, `lib.rs` | two bounded channels, the packet a read left | send and notify, read, write | a packet that comes between the read that finds nothing and the next callback |

The parts without a module are listed in section 8.

What should hold, in a sentence each: a client that was given an address reaches
the name it asked for, also after a crash; no answer outlives its TTL or, beyond
queries that were out, the network it came from; what the controller shows is
what routes; no connection misses a stop, and one that is tracked when the network
changes is closed; both ends of a
relayed stream see all of it before they see its end; a cut frame is never
followed by data; a whole packet is put together from fragments, and nothing else
is; counters come back whoever gives up; a url-test group leaves a node that has
not answered since the core started;
every route the program adds can be taken away again, and no other is; every call
of the ABI does what its header says and returns, and no callback follows a stop.

## 2. Modules

Each component is a module with its state, one action per handler or step
between two awaits, and its properties at the end. A definition whose name adds
a word to the one below it (`FitsByCount`, `Fits`) is a plausible mistake in the
same code: the definition it stands for is replaced by it to see that the
property it is meant for notices. `MC*` modules hold the constants of a run and
`*_proofs` the theorems. Parts that share no variable are checked in one run by a
module that is their sum: its variable `part` says which one moves (`MCFfi`,
`MCTun`, `MCRouting`, `MCXudpMux`, `MCResolver`).

**`FakeIp`, `Profile`.** `FakeIp` is `FakeMap`: `by_name`, `by_ip`, `next` are its
maps, `reply` remembers what clients were told. Every operation holds the
`fake` mutex throughout, so it is one action. `Profile` extends it with the
process: `LoadProfile`/`LoadFails` on the fresh core, `BeginSave` (the snapshot
under the lock), `EndSave` (the rename), `SaveFails`, and `Restart` at any point,
also between a snapshot and its rename. A saver of `Selectors` may save before the
core has started, as `meta_select_v1` does.

**`DnsCache`.** `cached_exchange` looks under the lock, asks server after server
without it, and stores under it again: `Hit`, `Miss`, `ServerFails`, `Answered`,
`GiveUp`. `Change` moves the network or the policy, `ClearCache` is the emptying
that follows. `Leaves` says which live entries the eviction loop keeps: the
youngest that fit in entries and bytes. Responses are records of their TTLs, SOA
TTLs, size and status.

**`Policy`.** `prepare_resources` is a load over many steps (`ReadAsset`,
`Download`, `SaveAsset`) and a `Commit`; `update_policy` is a bind and an
install with a gap between its two locks. A rule list is the set of references
it names, a bound list maps each to the contents it was read from; a provider may
name more of them once it has been read.

**`Groups`.** A core with its groups: `StartCore` checks a document (`Valid`: no
group is below itself) and restores the selections of the profile that still name
a member; `Select` and the two halves of a save; rounds of the url-test groups,
one probe at a time, in which the controller may probe and select. `Leaf` follows
selections as `Core::leaf` does, with its bound on the hops.

**`Sessions`.** A connection task goes through permit, handshake, dial, reply,
the two steps of `Tracker::new`, relay and end; `network_changed` takes the list
and cancels it one by one; stop, `close_connection` and the abort of the
listener's tasks come in between. `from` is the network a connection goes over:
that of its own socket, or that of the pooled gRPC connection a dial has taken
instead (`DialPooled`); `pooled` are the networks of the connections in the pool.

**`TunTcp`.** One flow (source, target) over several connections, because the
results of sessions are matched by flow. The loop's sections (`select`, `join`,
`in`, `out`, `end`) are steps of their own, as sessions run on other threads
between any two of them. Bytes are chunks, and queues are counts.

**`TunUdp`.** The same loop for datagrams: a port per local address with its socket
buffers, a table from flows to session tasks, and one channel for the replies.
`UdpJoin` removes the entry of the flow a completed task reports, as the code
does, whichever session that entry is. `Expire` drops idle ports and aborts their
sessions.

**`Reassembly`.** `Reassembly::accept` over offsets and lengths: several
assemblies with a limit, the ranges of smoltcp's assembler, overlaps, ends that
disagree, and the lifetime that starts with the first fragment. Times are ticks;
a fragment is its packet's key, its range, its more-flag and its header.

**`XudpPool`.** The pool of `datagram_inner`: the async lock that is held over the
dial, the weak entries that are retained while their multiplexer works, the
session it opens, and the end of a call at every await.

**`XudpMux`.** The multiplexer with its flows, its reader and an END task per
dropped flow. `fail_multiplexer` is two steps, `Swap` and `Drain`, as the swap of
`alive` and the take of the routes are two critical sections. `SendCut` is a
write that fails, or whose future is dropped, inside a frame.

**`GrpcPool`.** One pool key. `connect` is split at its awaits: the creation lock,
the handshake, the readiness of HTTP/2, the request; at each the caller may be
dropped. The connection's driver task removes it from the pool when it ends, unless
the runtime of the task was dropped first (`RuntimeDropped`): the pool is static and
keeps the entry until a caller finds it dead.

**`VlessStream`.** The stack of layers of one connection over a socket that
delivers cells one at a time. A cell is what the code treats as a unit (a frame
header, a piece of payload or of padding). A step is one turn of a loop in
`poll_read` or `poll_write`; `asleep` is a task whose last poll returned Pending
and that nothing has woken. For Vision this includes the record boundary that
keeps BoringSSL from reading ahead and the direct switch in both directions.

**`RouteJournal`.** A desktop session from open to restore, `--recover-tun`,
interfaces that come and go, and other programs that use the same table. Every
call to the file system or the routing table is a step that may fail, and the
process may die before or after it. `mine` remembers who added a route, `wanted`
the routes the last apply was asked for that nobody else has taken away since.

**`MetaAbi`, `HostQueue`.** What `ffi/include/meta_rust.h` promises a host, without
workers or channels. `MetaAbi`: which handles are valid, how far the runtime of a
handle is, which call a thread is in, with which status it may return and when
callbacks may run. `HostQueue`: the packets a host has not read, and what
`meta_read_packet` may answer.

**`FfiHandle`.** Host threads inside calls, workers with their command queue, and
runtime threads inside callbacks. A command waits for a reply or 30 seconds; a
stop takes the worker under its lock and joins it; the packet task may end and
cancel the core. `KeepsContract` is `MetaAbi`
under a mapping of the worker's place, `starts` and `running` to a phase.

**`HostPackets`.** The writer task that puts a packet into the channel and then
calls `packet_ready`, and readers in callbacks and on other threads that take the
pending packet or the head of the channel under the lock, with a buffer that is
large enough or not. Without TUN, or once a descriptor has taken its place, there is
no queue, and every read is refused (`check_packet_queue`). `ReadsFollowHeader` is
`HostQueue` with the pending packet and the channel as its queue.

The components meet at few places, and a module carries the other side as an
action or a constant: `Profile` extends `FakeIp`; `Groups` has its own profile, as
selections and fake addresses do not touch; `XudpPool` has a multiplexer as what
`XudpMux` shows of it, working or failed; `Sessions` and `DnsCache` both
have the network change; `FfiHandle` has `start_inner` as one long step;
`TunTcp` and `Sessions` have the proxy side as a stream that may end or fail at
any time, which is what `VlessStream` and `XudpMux` show of it.

## 3. Runs

`tlc -config <cfg> <module>`; the number is the distinct states TLC visits.

| run | what it asks | properties | result |
|---|---|---|---|
| `resolver` | Is a saved mapping honoured after any crash? Is a hit younger than every TTL it was stored for, does only a query that was out survive an emptying, are the limits of the cache kept and the oldest evicted? | `SavedMappingsHonoured`, `HitsAreAlive`, `StaleNeedsFlight`, `CacheWithinBounds`, `EvictsOldest` | holds, 156,479 |
| `policy` | Are the rules in force those the controller shows, do resolver and router agree on the snapshot, when may rules be bound to replaced data? Does every group lead to a node whatever profile it starts from, and does a url-test group leave a node that never answered? | `ShownRulesInForce`, `OneSnapshot`, `StaleOnlyAfterRace`, `LeafResolves`, `LeavesSilentNode` | holds, 673,850 |
| `policy_race` | Does the router always use the data the last refresh loaded? | `RulesFollowSnapshot` | **violated**: section 6 |
| `sessions` | Does any connection miss the stop, which ones may go on over an earlier network, do all tasks end after a stop? | `StopReachesAll`, `OldNetworkNeedsRaceOrPool`, `StopDrains` | holds, 879,740 |
| `network_pool` | Does a connection dialed after a network change use the new network? | `ReconnectsAll` | **violated**: section 6 |
| `tun` | Does either side of a TCP flow see an end before all bytes, when does a session suffer for the result of an older one, do flows leave the table and orphans end, does an idle port take datagrams with it? Is exactly every whole packet put together, exactly every broken one refused? | `NoTruncation`, `StrayNeedsRace`, `Retires`, `OrphansEnd`, `ExpiryLosesNothing`, `EmitsExactlyWhole`, `RejectsExactlyBroken` | holds, 101,127 |
| `mux` | Do frames reach their flow and no other, does a data frame follow a cut one, does every flow learn of a failure? Do the flows of a node share one multiplexer? | `NoRouteOutlivesMux`, `OnlyEndAfterCut`, `FramesReachTheirFlow`, `FailureReachesEveryFlow`, `OneMuxPerNode` | holds, 474,545 |
| `grpc_pool` | Are counters exact whoever gives up, are the limits kept, does a caller that meets dead connections get past them? | `ActiveIsExact`, `WithinLimits`, `RetriesEnd` | holds, 320,924 |
| `vless_stream` | Is anything lost, added or left unread however the wire is cut, is the upload readable by the peer, do accepted writes leave without a second one? | `NothingLost`, `WholeStreamRead`, `UploadIntact`, `EverythingRead`, `FlushesWhileReading` | holds, 89,039 |
| `routes` | Is every route of the program recoverable after any failure or crash, are others' routes left alone, is every route in place that an apply without error was asked for? | `Recoverable`, `OthersUntouched`, `RoutesInPlace` | holds, 214,537 |
| `routes_rename` | Does apply keep the routes it was asked for when an interface was renamed? | `KeepsDesired` | **violated**: section 6 |
| `ffi` | Do handles and packets behave as the header says, does every call return, is draining on `packet_ready` enough to read every packet? | `KeepsContract`, `CallsReturn`, `ReadsFollowHeader`, `EverythingDrained` | holds, 153,163 |

`KeepsContract` and `ReadsFollowHeader` are refinements: the abstract
specification, instantiated with the state of the detailed one, is the property.

Deadlock is checked in `resolver`, `routes` and `routes_rename`. The
other systems come to rest: all flows ended, the core stopped, all handle
identifiers used, the stream read to its end; a policy whose load at the start
failed is `stopped`.

## 4. Bounds

Named in the `CONSTANTS` of each module. They are chosen so that each limit in
the code is reached and passed by one:

- `resolver`, profile: three names, two families, ranges of three and one addresses,
  capacity 3: a range runs out before the capacity and the reverse. Two savers
  are enough for one to overtake the other, and one of them may also save before
  the start; six profiles on disk, three of them
  ones import_fake refuses.
- `resolver`, cache: three requests for two entries and three bytes; TTLs below and
  above `MaxTtl`; two lookups, two servers, one change.
- `policy`: a rule asset and a provider asset with three contents, one corrupt;
  two controllers. One mode only: the mode is a value nothing else depends on.
  Groups: four documents, one of them cyclic and refused; a profile of one meets
  the groups of another; delays 1 and 3 with a tolerance of 1, so that a node is
  left for a faster one and kept for one that is hardly faster.
- `sessions`: three tasks for two permits and one place in the table; two
  changes of the network. `network_pool` needs two tasks and one change.
- `tun`: TCP: two connections of one flow, or one with two chunks each way
  through channels and buffers of one. UDP: one source and two targets, one flow
  in the table, two ports, two sessions, room for one datagram everywhere, so
  that each limit is met. Fragments: three keys for two assemblies, a packet of
  seven bytes cut in pieces of two, and five fragments that fit none of them
  (an empty one, an overlap, one past the end, an earlier end, another header); one
  hole (`MaxRanges`), a lifetime of one tick.
- `mux`: two flows, two IDs, queues of one packet. An ID is not given out twice;
  what happens when it is, is in section 6. The pool: three calls, two nodes,
  three multiplexers.
- `grpc_pool`: three callers, three connections, the default options, a limit of
  connections and a limit of streams.
- `vless_stream`: sixteen connections; a read buffer of one cell, so that every
  read can be cut; a budget of three cells for the search for inner TLS.
- `routes`: two interfaces, three networks (one without exit), a journal of
  three routes, which a session with all its routes fills.
- `ffi`: two host threads, one runtime thread, identifiers 1 to 3 with one place
  in the registry, a command queue of one, so that two threads find it full; one
  callback per handle. Three packets for a channel of two.

Symmetry is used for clients and keys only where no liveness property is checked.

## 5. Fairness

Weak fairness of what the code does once it can, never of the environment:

- `mux`: `fail_multiplexer` finishes, the reader hands over what it looked up,
  and a flow goes on calling recv (each does so in a loop of its own).
- `sessions`: the awaits before the relay all have deadlines, a cancelled relay
  ends, and the aborted tasks of a listener are dropped by Tokio.
- `tun`, TCP: the loop wakes every 2 ms; a session that has left its stream
  completes. A client that answers a FIN with its own is the one assumption on
  the outside (`SF` of `Answer`), and the comment of `Retires` says so.
- `tun`, UDP: a session goes on sending what is in its channel (dial and send have
  deadlines of 20 s), ends when the channel is closed and empty, and a task that
  was aborted is dropped when Tokio polls it.
- `grpc_pool`: a caller that looks at the pool goes on, and waits for a pooled
  connection at most its 20 s. Nothing is assumed of the driver tasks, which a
  runtime that is dropped takes with it.
- `vless_stream`: a task that was woken is polled, and polls until Pending.
- `ffi`: worker, runtime and threads inside a call go on; callbacks return, as
  `include/meta_rust.h` asks of the host. The writer of the packets is scheduled,
  and the host reads on `packet_ready` until `META_WOULD_BLOCK`, as the header
  asks of it.

## 6. Where code and documentation disagree

- `policy_race`: `update_policy` (`core/src/lib.rs:523`) binds new rules to the
  snapshot and installs them under another lock. A refresh that commits in
  between leaves the router with the replaced data until the next refresh, while
  the refresh test (`core/src/resources.rs:689`) expects the new data to be used.
  `StaleOnlyAfterRace` shows that this is the only way.
- `routes_rename`: `RouteSpec` equality includes the interface's name,
  `RouteSpec::matches` only its index. After a rename, `apply` deletes the routes
  it has just found in place (`platform/src/desktop.rs:393`), although
  `docs/platform-runtime.md:46` says they are always there. `RoutesInPlace` holds
  where no two interfaces have the same index, at one time or one after the other.
- `network_pool`: `network_changed` (`core/src/lib.rs:936`) cancels the tracked
  connections and empties the DNS cache, and leaves the pool of `grpc.rs` alone,
  whose key has no network in it. A gRPC dial after the change drops its new socket
  and opens a stream on the pooled connection of the earlier network
  (`protocol/src/grpc.rs:161`), while `docs/platform-runtime.md:87` says that the
  call invalidates connections. `OldNetworkNeedsRaceOrPool` shows that beside dials
  that are under way there is no other way.

Met while modelling, and not runs:

- An XUDP flow that the peer ended keeps its ID while its route is gone. Once the
  16-bit counter has wrapped, a second live flow may have the same ID, which
  `docs/vless-protocol.md:33` excludes, and datagrams of one go out as the
  other's. With an ID space of one `FramesReachTheirFlow` fails in this way, and
  by a late packet for a flow that was dropped. It holds for a multiplexer that
  opens no more flows than there are IDs (`FramesReachFlows`); past that,
  frames still follow their ID (`FramesFollowIds`).
- With `Meddling = TRUE`, other programs may add a route the journal already
  names; restore then deletes it (`OthersUntouched` fails). The journal records
  intent, and nothing tells the two routes apart.
- A WebSocket frame that came together with the control frame before it is looked
  at only after the next read (`Behind`), and an unframed Vision downlink
  shorter than the first header is not passed on (`TooShort`). Both are named in
  `WholeStreamRead` and `EverythingRead`, which hold for everything else.
- A dial that is under way while the network changes is tracked afterwards and
  not cancelled (`racing` in `OldNetworkNeedsRaceOrPool`); a query that is out may store an
  answer of the old network (`overtaken` in `StaleNeedsFlight`); a session that
  was complete when it was told to abort may abort the next TCP connection of its
  flow, or remove the next UDP session of its flow from the table (`outran` and
  `raced` in `StrayNeedsRace`). Each of these properties excepts what the code
  allows, by name, and says that nothing else has the same effect.
- `meta_select_v1` works on a core that was not started, and saves: the file then
  has an empty fake-IP table in the place of the one of the earlier run
  (`ffi/src/lib.rs:244`). `SavedMappingsHonoured` holds for the core that starts
  after it, and the earlier mappings are gone. So are the newest ones when an older
  snapshot is renamed last and the process dies before the next save.
- A node whose probe fails keeps the delay of an earlier round
  (`core/src/lib.rs:347`), so a url-test group may stay with it; `LeavesSilentNode`
  is about nodes that never answered.

## 7. Proofs

`tlapm <module>` checks a module. All theorems are for arbitrary constants under
the named assumptions of the modules (`FakeIpConstants`, `MuxConstants`, ...),
which say little more than the kinds of the constants, and which TLC evaluates
in the runs. `Groups` assumes that every delay plus the tolerance is less than the
value that stands for no answer: a measured delay is at most five seconds, so this
leaves out only tolerances near 2^64.

| module | about | theorems | inductive invariant |
|---|---|---|---|
| `Resolver_proofs` | `Profile` | type, restored names, saved mappings, capacity, stable answers, importable profiles | the two maps are inverse, the counters are past every address in use, a snapshot in flight is part of the table: the table only grows, so whichever save renames last is honoured |
| | `DnsCache` | capacity, hits alive, stale only from flight, eviction order | an entry expires at its insertion plus the least TTL; a query from before the last emptying is marked. Uses that a set of numbers has a least one (`MinNat`) |
| `Core_proofs` | `Policy` | shown rules in force, one snapshot, stale only after a race, no corrupt file | an update in flight carries rules bound to the active snapshot, unless overtaken; what is being saved was accepted |
| | `Groups` | groups lead to nodes, silent nodes are left | the configuration in force is one `Valid` accepts, a group has one of its members selected, and the best of a round is a member whose delay is known |
| | `Sessions` | type and limits, table exact, stop reaches all, what goes on over an earlier network | a connection of an earlier network is cancelled, on the list being cancelled, known to be racing, or known to have taken a pooled connection; so is a task between dial and entry |
| `Tun_proofs` | `TunTcp` | streams are whole, stray aborts need a race | the input of a session is dropped after the last byte received, or with the socket; a socket is closed after all its session wrote, and the client sees that last (`TcpInv`). Without a race the only result that waits is that of the flow |
| | `TunUdp` | idle ports are empty, stray removals need a race | when ports expire the sockets were emptied and one with unsent replies counts as used; without a race, a session outside the table runs and was told to abort |
| | `Reassembly` | packets are whole, broken ones are rejected | an assembly that is not rejected holds fragments that fit together, all with its header, and its length is the end of the last fragment, if that has come (`Sound`) |
| `VlessStream_proofs` | `VlessStream` | uploads stay intact | all that was sent and all that is pending say what was accepted; the one frame that announces direct copying is the last one until the switch, and the outer TLS ends with it (`SealInv`) |
| `Transports_proofs` | `XudpMux` | no route left, only END after a cut | whoever writes holds the writer lock, and a cut has killed the multiplexer before the lock is free again |
| | | frames follow IDs; frames reach their flow (if no more flows than IDs) | routes, packets under way, the reader's find and the peer's flows carry the ID of the flow they are for; IDs are given out in order |
| | `XudpPool` | one multiplexer per node | who dials holds the lock, and the pool then has no entry for the node |
| | `GrpcPool` | counters exact, both limits | a lease is held exactly where control says, whatever became of the driver task, and from the look at the pool to the push the caller has the creation lock |
| `RouteJournal_proofs` | `RouteJournal` | recoverable, readable, others untouched (without `Meddling`), applied routes in place (if no two interfaces ever share an index) | memory and disk journal cover all routes of the program; a deleted route stays deleted until its entry is gone. In apply, a wanted route is in the table, as the list shows it, or still ahead of the loop (`Answered`); with distinct indices none of them is deleted after it |
| `FfiHandle_proofs` | `FfiHandle` | one start, identifiers never reused | whoever joins holds the join lock, and a taken JoinHandle under a free lock has been joined (`IInv`) |
| | `HostPackets` | implements `HostQueue` | what the writer has taken up; nothing is put once the worker has ended, and nothing was taken up when a descriptor replaces the queue |
| `FfiContract_proofs` | `FfiHandle` | commands and callers match; implements `MetaAbi` | `IInv` and `Matched` |

Each module proves that the initial states satisfy the invariant, one lemma or
step per action, and the theorems from the invariant. Types are part of the
invariants.

The refinement of the header needs more than `IInv`: a reply of the worker is a
return of a call only if somebody still waits for it. `Matched` says that a queued
or served command belongs to the one thread that waits for it on this handle, or
to nobody, and then the core is cancelled, because a caller that times out stops
it; and that `starts`, `running` and the worker's place tell how far a start is.
With it every step is one of `MetaAbi` (`StepRefines` has a lemma for each) or
leaves the mapped state unchanged.

Three proofs are about what a definition computes for every input: the hops of
`Leaf` and the levels of `Below`, the payload that `Says` finds in a sequence of
cells, and `Front`, the data before the first hole. The first two are recursive
functions, and the induction over their arguments is one over the least
counterexample: a set of numbers has a least one (`Least`, from the
well-foundedness of `<`), so a set without zero that has, with every successor,
the number before it is empty (`NoneLeft`).

`GroupsLeadToNodes` rests on `Valid`. A walk over selections that is still inside
the groups after as many hops as there are groups has been at one group twice, by
counting; that group is then below itself, and `Valid` has refused the document.
`PacketsAreWhole` rests on `WholeIsCovered`: for fragments that fit together, the
test the assembler makes (the data before the first hole is as long as the packet)
is the same as each fragment beginning where another ends.

Assumptions that are more than the kind of a constant:

- `FramesReachFlows` has the number of flows and IDs as a hypothesis, see section 6.
- `FragmentsAssumption`: a fragment starts at a multiple of the unit and does not
  end before it starts, as `packet_ipv6.rs` computes both from the header and the
  length; nothing relates one fragment to another.
- `GroupConstants`: the order of a document lists all its groups and nothing else.
- `LinksAssumption`: what the application writes is payload. Nothing is assumed
  about what the peer sends.

Only model-checked: everything about liveness (`StopDrains`, `Retires`,
`OrphansEnd`, `FailureReachesEveryFlow`, `RetriesEnd`, `CallsReturn`,
`EverythingDrained`, `EverythingRead`, `FlushesWhileReading`), which is out of
the prover's reach; the byte limit of the DNS cache in `CacheWithinBounds`, which is
a sum over the entries (`CacheBounded` proves the limit on entries); and the
download of `VlessStream` (`NothingLost`, `WholeStreamRead`). These two are
false for a peer that frames its bytes wrongly, so a theorem needs the grammar of
what each transport, the records and Vision may send as its hypothesis, and an
invariant that says at which place of that grammar every layer stands.

## 8. Not modelled

- Pure functions over bytes or text: configuration and its compatibility layer
  (beyond the cycles of groups), encrypted files, rule syntax and matching, the
  sniffer, address encodings, frame encodings, WebSocket masks. They have no
  state, and what they compute for every input is an induction over data.
- Cryptography and the operating system: fingerprinted TLS, REALITY, native TUN,
  socket binding, the vendored libraries. They appear only as what the code that
  uses them may see.
- Input and output: HTTP of the controller, log files, the command line beyond
  the order in which it uses the routes; the NTP offset is floating point.
- UDP with one owner: SOCKS associations (one task with its sessions by target),
  `UdpSession` and the single-flow XUDP `Session`. Each is a stream with one user;
  what they share with others is the pool (`XudpPool`).
- A panic of a worker or of a callback.
- Left out inside modelled parts, with the reason in `PROJECT.json`: the limit of
  512 TCP flows, aliases and bootstrap of the resolver, the VLESS request header
  and early data, write errors of the socket below a VLESS stream and the yield of
  Vision after 64 frames; simultaneous close of a TCP flow; null pointers and
  lengths in the calls of the ABI; the gateway of a route, which is part of what
  `matches` compares; answers larger than the whole cache, which no transport of
  the resolver delivers.
- Assumed of the outside: an index that `discover` returned is not given to another
  interface while apply runs; a write to a VLESS stream comes from the task that
  reads it, as in `copy_bidirectional` (`core/src/lib.rs:918`). The halves of a
  split stream (`vless.rs:310`, `xudp.rs:47`) belong to the UDP sessions and the
  multiplexer, which have a model of their own or none.

Seen and without a property, as no document promises more: one failing accept
ends a listener (`core/src/inbound.rs:30`); a profile of more than 8 MiB is written
and then refused at every start (`core/src/profile.rs:22`); a failing flush or open
in a rotation leaves the log without a file (`cli/src/logging.rs:144`); a pong
waits for the next write of the application (`protocol/src/websocket.rs:261`).

## 9. What could follow

1. An abstract byte stream (what was written is read, then the end) that
   `VlessStream` and `TunTcp` implement under a refinement mapping.
2. Proofs of `NothingLost` and `WholeStreamRead`, with the grammar of a download
   as an assumption on `Links`.
3. SOCKS associations and the single UDP sessions, whose direction is unusable
   after an interrupted frame.
