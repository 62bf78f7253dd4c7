# A TLA+ model of Krikos

Krikos is a peer-to-peer networking stack in Rust: endpoints that are known by
their public key, connect to each other directly or through relay servers, and
carry protocols (gossip, blobs, docs, identity) over those connections. This
directory holds TLA+ modules for its concurrent and distributed parts, the
configurations with which TLC checks them on small instances, and proofs of
their central invariants that TLAPS checks for every value of the constants.
`PROJECT.json` maps every definition to the lines it models and lists the runs,
the hazards of the code, and the theorems.

To check it: `tlc -config MCSocket.cfg MCSocket` (and so on, see the table of
runs), and `tlapm` on each of the modules whose name ends in `Proofs`.

## 1. The system and its parts

State, operations and hard behaviours are listed by component; the last column
says what correctness means there.

| component | state | operations | what is hard | correct means |
|---|---|---|---|---|
| relay server: registry and client actors (`krikos-relay/src/server/clients.rs`, `client.rs`) | map from endpoint to active and inactive sessions, `sent_to`, session permits, two bounded queues per client | register, unregister, send_packet, disconnect, shutdown; the actor's loop and its drop | sessions of one endpoint that overlap; notifications after the lock; drain against re-registration; permits on every way out | registry and actors agree, permits exact, an endpoint with a session stays reachable, departures are announced |
| relay client: RelayActor and ActiveRelayActors (`krikos/src/socket/transports/relay/actor/`) | home-relay watchable, handles, permits, completions; per actor: inbox, phase, known routes | network change, send datagram, reap; dial, connect, fail, inactivity, set_status | an actor ends while it becomes home; check-then-set on a watchable | the home relay is served, its status is true, tasks and permits add up |
| remote map and RemoteStateActors (`krikos/src/socket/remote_map.rs`, `remote_state.rs`) | senders map, permits, completions, inboxes, leftovers | send_to_actor, try_send, cleanup, restart, idle end, drain | idle check against arriving messages; restart order; waiting on a full inbox at shutdown | one live actor per remote, each message in one place, order kept, no deadlock |
| gossip: HyParView (`krikos-gossip/src/proto/hyparview.rs`, `topic.rs`, `net.rs`) | active and passive view, pending requests, disconnecting peers; connections | join, forwarded join, neighbor, shuffle, disconnect, timers, quit | replies that cross evictions; timers of old requests; eviction cascades | views bounded and disjoint, application told the truth, walks end |
| gossip: PlumTree (`proto/plumtree.rs`) | eager and lazy peers, received and missing messages, cache, lazy queue | broadcast, gossip, IHave, graft, prune, neighbours up and down, three timers | tree repair while links change; a timer that is set only when none is set | every neighbour is pushed to, what was announced is asked for, delivered everywhere |
| blobs store (`krikos-blobs/src/store/fs.rs`, `fs/meta.rs`, `fs/bao_file.rs`, `fs/delete_set.rs`, `gc.rs`, `util/temp_tag.rs`) | database with open transaction, delete set, files, entities, tags, temp tags, protected set | import, download, observe, tags, garbage collection, commit, crash | gc against imports and temp tags; delete against use; crash between file and database | an entry has its file, no live blob is collected |
| docs replica and ranger (`krikos-docs/src/sync.rs`, `ranger.rs`, `store/fs.rs`, `net/codec.rs`) | entries by author and key | insert, deletion by prefix, range reconciliation | recursion over ranges that wrap; prefixes; inserts during a session | the session ends with the merge of both, what is outdated goes |
| docs live engine (`engine/live.rs`, `state.rs`) | sync state per document and peer; wanted, queued and running downloads | dial, accept, finish, reports, leave; downloads | simultaneous connects, re-sync requests, limits | one sync at a time, no end forgotten, content announced when it is there |
| identity (`krikos-identity/src/state.rs`, `store.rs`, `sync.rs`) | account projection, journal of events, lineage, fork | operations, forks and their resolution, recovery, migration, commit of an event or a frame | events in any order, histories that are taken back, evicted pre-states | the projection is what the graph of events says, the account stays controllable |
| socket actor, path state, net report, address lookup, endpoint API, router | net reports, direct addresses, paths, lookups | | measurements and their timing | the socket actor appears as the environment of RelayHome and RemoteMap |
| runtime, DNS server, blob transfer and pool | task groups; packets; pooled connections | | | not modelled, see section 5 |
| formats, cryptography, HTTP/TLS I/O, simulator, tools | none that is shared | | | out of scope: no protocol state, or test tooling |

How the modelled parts interact: the socket actor turns a net report into a
message to the RelayActor, which chooses the home relay and starts an
ActiveRelayActor for it; that actor's connection is a client of a relay server,
whose registry forwards datagrams and announces departures, from which the actor
learns its routes. The same socket actor owns the remote map and sends to the
RemoteStateActors. Gossip runs above: HyParView keeps the links, PlumTree the
tree over them, and the network actor the connections under both. A docs peer
hears over gossip of new entries and contents, reconciles its replicas with its
neighbours, and downloads contents into the blob store. The identity stores
exchange account histories over connections of their own.

## 2. The modules

### RelayClients: the relay server's registry

Variables: `active` and `inactive` (ClientState), `sentTo` (sent_to),
`permits` (the session semaphore); `phase`, `cancelled`, `packets`, `messages`,
`notifying` for the actor of each connection; `closing`, `draining`, `stopped`
for a running `Clients::shutdown`. One action is what one thread does under the
lock of one map entry. `unregister` releases the lock before it informs the
peers, so it is an Unregister… action followed by one NotifyPeer per peer;
`shutdown` collects the keys, removes entry by entry, cancels, and joins, each a
step. An actor's way is fresh → running → ending (its loop has returned) →
notifying (its drop has unregistered it) → closed.

Left out: what ends a loop (pings, write and idle timeouts, stream errors are all
RunReturns), admission before registration, a task group that is cancelled
before an actor's first poll, and a second shutdown while one runs. Queueing a
packet and recording it in sent_to is one step. The branch of SendPacket for a
closed queue is in the model and, by NoZombies, never taken.

### RelaySessions: what the registry promises

The abstract specification of RelayClients: each endpoint has a stack of
sessions. Accept puts a connection that was never seen on top, Refuse turns one
away, Leave takes a session out wherever it is, and Close empties the stack of an
endpoint. The one that is served is always the newest that is still there. The
mapping reads a stack off the registry: `Stack` is the inactive sessions in
order with the active one on top, `Seen` the connections that are past
registration. `ServesNewest` (in RelayClients) is the abstract specification
under this mapping.

### RelayRoutes: the registry with its clients

Extends RelayClients with `present` and `lastSrc` (endpoints_present and
last_packet_src of the client at the other end) and a history variable `missed`.
A frame the server writes is handled by the client in the same step: the stream
is FIFO and nothing else touches that state. There is no disconnect and no
shutdown of the server here: to a client they are a connection that ends.
`missed` collects the three ways in which the end of a route goes unannounced:
the notification goes to one connection of the peer, of which there may be
several; it is dropped when that one's queue is full (Notify); and a sender whose
send record is full relays without being recorded (Relay). In the run the
endpoints send to each other and not to themselves.

### RelayHome: home relay, relay actors, status

The home-relay watchable is `url` and `status`; `reports`, `at`, `homing`,
`untold`, `handles` are the RelayActor, which does one thing at a time;
`phase`, `homes`, `inbox`, `writing` are the ActiveRelayActors (`writing` is a
set_status between its comparison and its write); `permits`, `tasks`,
`leaving`, `completions` are the admission of actors. Left out: rejected spawns,
shutdown, CheckConnection, HasEndpointRoute, the datagram queues. Reap reads the
watchable twice in the code and once here. A relay given at construction behaves
as a first report.

### RemoteMap: one actor per remote

The socket actor (`at`, `cur`) sends message `cur` to an actor: Reserve takes a
slot of its inbox and Push fills it, the two steps tokio makes of a send. An
actor ends by Leave (the idle check), Close (inbox.close) and Drain (what it
then finds), and Complete queues it with its leftovers (`stage` says how far it
is); Cleanup and Join remove or restart it. `free` is the permits of the ledger,
and `handled`, `refused`, `dropped`, `lost` are the fate of each message. `conns`
stands for everything that keeps an actor from being idle. TrySendRemote is a
send from another thread and stands for on_network_change and remote_info too.
Left out: path selection, clock failures, panics.

### HyParView: gossip membership

The handlers of `hyparview.rs` are operators from the state of a node to the set
of its next states (one for each random choice). `out` collects what they push:
the messages to each peer, in order, the connections to drop, the peers reported
up and down, the timers. Perform and Become do with it what `topic.rs`,
`state.rs` and `net.rs` do. `node` is the state of each node, `neighbors` what its
application was told, `timers` the pending-neighbor timers, and `net` the
connections: `chan` what is under way, `entry` who holds a sender for whom,
`broken` the connections that have ended, `closing` the ends yet to be reported.
All nodes start subscribed and alone.

Left out: peer data, statistics, MAX_SHUFFLE_PEERS, several topics, dial
failures. There is one connection per pair and order is kept on it. Nodes are
added to the passive view in any order, two timers for the same peer are one, and
a close may be reported late or never, as the code closes a connection only when
both its loops have ended.

### PlumTree: the broadcast tree

The handlers of `plumtree.rs` map the record of a node (`tree[n]`) to its next
one and push mail into `out`. The overlay under it is what `topic.rs` makes of
HyParView's events: `view` is each side's active view, NeighborUp and
NeighborDown are links taken up and given up by one side, with the message that
tells the other, LinkLost loses a connection with all that is on it, and
LinkClosed is its end being noticed. `changed` remembers the links that did not
stay up. A content is its id, a message its id and round; the message cache and
the set of received ids expire by EvictCache, of any subset, the code's
durations being different for the two. A node that broadcasts what others have
announced to it keeps their announcements; when its own id expires it would not
ask for it again, which is why GraftPending excludes behaviours with evictions.

### BlobStore: the file store and its garbage collection

`db` and `tags` are the tables as the open transaction (`txn`) sees them, `saved`
what is committed. HandleCommand is the metadata actor's handler of the head of
its queue `cmds`; CommitTxn ends a batch and DeleteFiles is the delete set
(`marked`) taking effect after it. `handle` and `got` are the entity of a hash,
which is Loaded from the database, used and Recycled. A client imports (temp tag,
file moved in place, update sent, update handled), downloads, observes, tags and
untags; `gc` is the gc task with its place (list tags, list temp tags, mark,
read children, snapshot, sweep, sync). Crash keeps files and what was committed.
`raced` remembers the hashes deleted while their entity was in use and `steady`
the roots that stand since the run began; both are for the properties only.

An import of a blob that is stored already but under no tag may meet the gc's
delete between the move of its file and its update: the update restores the
entry, and the file is deleted after the commit all the same. ImportKept
therefore asks for the entry always, and for the file of the hashes that are not
in `raced`.

Data and outboard are one file. Left out: imports by reference, exports, ranges
of partial blobs, the add_protected callback, forced deletes.

### DocsSync, DocsContent, DocsRanger: documents

*DocsSync*: `state` and `resync` are PeerState of `engine/state.rs`, a session is
dialed by a connect task (Alice) and served by an accept task (Bob), and each
side's actor learns of its end by joining its own task. An accept task that
fails to process a message, because its replica was closed by `leave` or the
store failed, panics in `BobState::into_outcome`, and the live actor that joins
it ends (`live.rs:281-284`) with all its tasks: `ended` is the peers whose actor
did. *DocsContent*: the
downloads of one live actor: `missing`, `providers`, the two maps of
QueuedHashes, `tasks`, and may_emit_ready. *DocsRanger*: put with deletion by
prefix, fingerprints, the splitting of ranges and the message loops of both ends
are operators; a session may fail at each end between messages, and entries are
inserted by other ways meanwhile. The values in EmptyValues are deletion markers,
which Put does not see among the prefixes of a key, nor at the key itself, as
`parents()` does not, and which clear what is below them as entries do. A key stands for an author and a path, a value
for a timestamp with its hash, and a fingerprint is the entries it is computed
from, that is, no two sets of entries collide. `horizon` is each end's clock,
by which it refuses entries of the future.

### AccountState: accounts and their history

Events name their predecessors. `pool` is the events in the order in which they
were authored, `accepted` each replica's journal, `account` its projection with
lineage and fork. Author is the application that prepares an event at the
revision it reads and commits it; the two commit entry points of `store.rs`
(one event, and the frame of a peer's history) are actions. ValidateAndApply is
the projection of one event with its ways: a replay, an extension, the opening of
a fork, an extension of a branch, a resolution, a conflict below the retained
lineage. Operations are partial functions given as sets of results, {} for a
refusal.

Abstractions: an event's identifier is its place in `pool`, so identifiers are
ordered as the events were authored (the code's are hashes); every active
controller signs and weighs one, and a policy gives the weight that each kind of
operation requires, 0 where it has no rule and the operation is denied; a recovery
plan names controllers that can satisfy its policy; guardians
approve recoveries; signatures, receipts and deadlines are in order; a frame is
the whole history (pages are left out). The changes of the recovery policy and
of the provider policy are left out.

## 3. The runs

A run of several parts has a variable `part` that is chosen at the start and
says which of them moves: the parts share nothing, and the run checks each of
them.

| run | module and cfg | checks | instance |
|---|---|---|---|
| relay_routes | MCRelayRoutes | PermitsAccounted, NoZombies, NoOrphans, StaysReachable, RoutesRevocable; SenderCurrent, ActorPermits, Conserved, OrderKept | *server*: two endpoints, one of which connects three times, twice at once, three permits, queues of one. *map*: two remotes, two permits, three messages, one from another thread |
| relay_shutdown | MCRelayShutdown | DrainedApart, CancelledLeaves, ServesNewest | one endpoint, three connections, a limit of three with a shutdown, or of two without, with fairness |
| socket | MCSocket | TasksAccounted, HomeServed, StatusSettles; Delivered, Stops | *relay*: two relays, two permits, three reports, one datagram. *map*: two remotes, one permit, three messages. With fairness |
| gossip | MCGossip | ViewsApart, NeighborsTold, WalksSafe, Settles; NeighborsServed, GraftPending, DispatchPending, Delivered; QueuesAgree, ReadyPending, ReadyAnnounced | *forming*: three nodes with one slot, two joins, one lost connection, one quit. *swarm*: a fourth node joins a full swarm of three with a shuffle, or a connection is lost and a node quits. *tree*: three peers, all linked, one message, sent by A as the peers are alike, one disturbance. *content*: two documents, three hashes, limits of two and one, five events. With fairness |
| replicas | MCReplicas | AcceptsAccounted, LesserExclusive; Merged, Reconciled, NoneUnderContent, Logarithmic; Projected, Unstuck, TombstonesKept | *sync*: two peers, two syncs, one report, one leaves and returns. *ranger*: a document of eight keys of which the other end has all but two or at most two; all pairs of replicas of three keys, each a path of the next, without deletions, and of two with them; one insert meanwhile. *account*: thirteen scenarios, see below |
| blobs | MCBlobStore | FilesKept, ImportKept, SteadyKept | a hash sequence (inlined) and its child (a file), two tags, two clients, two operations, one gc run, one crash |
| relay_home_stale | MCRelayHome, MCRelayHomeStale.cfg | StaleWritesDropped (violated) | two relays |
| remote_map_lost | MCRemoteMap, MCRemoteMapLost.cfg | NoneLost (violated) | three remotes |
| hyparview_symmetric | MCHyParView, MCHyParViewSymmetric.cfg | Bidirectional (violated) | three nodes, one slot |
| blob_children | MCBlobStore, MCBlobChildrenKept.cfg | ChildrenKept (violated) | as blobs |
| docs_deletions | MCDocs, MCDocsDeletions.cfg | NoneOutdated (violated) | two keys of three, a deletion, the empty path |
| account_duplicates | MCAccount, MCAccountDuplicates.cfg | DuplicatesTolerated (violated) | two replicas, policy changes |

What the properties say is written above each of them. In short, the passing
runs show that

- the relay server's registry, its actors and its permits agree through every
  overlap of registrations, departures, disconnects and a shutdown; the registry
  is a stack of sessions; a client's route is one whose end will be announced;
- the home relay is served and its published status settles on the truth, and a
  socket that sends to actors that end loses its place in no queue, reorders
  nothing, and can always be stopped;
- gossip views stay sound and settle, every neighbour stays in the tree, and a
  message reaches every peer over links that stay up;
- a docs session brings both ends to the merge of what they had, unless a deletion
  meets what it deletes, in a number of messages logarithmic in the entries;
  crossing sessions are told apart, and a peer that is noted as accepted has a
  task that the live actor has yet to join, which makes it idle or, if the task
  panicked, ends the actor;
- an account's projection is the one a replay of the event graph gives, however
  the events came in, its controllers can move it on and end its forks by
  what its policy has a rule for, and what was revoked stays so on the history that revoked it;
- the blob store has a file for every entry that says so, after a crash too, unless
  the blob was deleted while it was in use; gc spares the entry of what is being
  imported and what is under a root that stands, but not always the children of a
  hash sequence (blob_children).

`Merged` and `Projected` compare an algorithm with a reference definition: the
merge of two replicas by prefix and value, and the projection of a set of events
by sorting the graph from the genesis, with no lineage, eviction or reopening.

**Why the bounds are enough.** Relay: every role change needs one or two other
connections of the same endpoint (in relay_routes a third comes when one of two
has left, in relay_shutdown there are three at once, so that one leaves from the
middle), queues of one are full and empty, and the limits are reached.
Home relay: two relays are the old and the new one, and three reports move home
away and back while a write is under way. Remote map: three messages fill an
inbox of one, wait on it, and find the actor ending; more actors than messages
cannot differ. HyParView: views of one slot make every join an eviction; the
formed swarm has views of two, so that walks have somewhere to go. It starts in
a state that the model reaches from two joins with all messages read. PlumTree:
a triangle is the least graph with a link that the tree does not need, and a
round longer than another. The run has one broadcast; the theorems have
any number, but Delivered is checked for one. Content: limits of two and, per
document, of one are both reached, with hashes to spare; the theorems are about
all limits. Sync: two syncs cross and a third is asked for while they run.
LesserExclusive is about the lesser peer; at the greater, the end of its own
refused request makes the peer idle while it serves the other.
Ranger: with a split factor of two and sets of one, eight keys are three levels of
splitting, and a session that took a message per key would exceed the bound of
Logarithmic; the short documents have every combination of values, prefixes and
deletions. Accounts: the scenarios are a
fork of three branches at three replicas, all different or with one that goes
on; and, with two replicas and as many events as their phases take, controllers
and policy (four events over two controllers, three over all three, so that the
required weight is one to three), policies under which a fork is resolved by more
than anything else or not at all, recovery onto either policy, and of a controller
that was removed, the lifecycle of a device, rotation between two
devices, recovery, suite migration, and migration with upgrade and retirement.
Kinds of operations in different scenarios are not mixed. MaxLineage is
two for the code's 256, so that pre-states are evicted, and MaxForkHeads three for 16.
Blobs: two operations are a client against another or against gc; the crash
comes at any moment.

CHECK_DEADLOCK is off: all of these systems may be idle, and the bounds end
every behaviour. Symmetry is used only in runs that check no liveness, over
connections of one endpoint, remotes, clients or replicas that no definition
tells apart. Where liveness is checked, the first step is fixed up to the names
instead: in socket the first relay and the first remote are A, in gossip the
first join is of A through B and the broadcast is A's. The blobs run leaves out
a crash before the first operation or gc run, which changes nothing.

### Fairness

- RelayClients: a spawned task is polled until it ends, and a cancelled actor
  leaves its loop. The final flush (`client.rs:418`) has no timeout of its own:
  it is assumed to end. Nothing is assumed of a client that is not cancelled.
- RelayHome: tasks are polled and backoffs end. Reading an inbox is strongly
  fair: a dial is not finished at its first poll and a connected actor polls its
  inbox before the relay's frames. The inactivity timer is assumed only of a
  connected actor: while dialing it is restarted every three seconds. No dial
  is assumed to succeed.
- RemoteMap: tasks are polled. No connection is assumed to close and no idle
  timer to fire.
- HyParView and PlumTree: messages on live connections are read, timers fire,
  and for PlumTree a connection that is gone is noticed.
- DocsContent: a download ends, well or not, and its task is joined.

The rest is checked for safety only.

### Where the code and its comments disagree

- *relay_home_stale*: `set_status` compares and sets in two steps; a change of
  the home relay between them is undone, which its comment rules out.
  StatusSettles and HomeServed hold all the same, as seen from the relay that
  ends up being published.
- *remote_map_lost*: a message whose slot was taken before `inbox.close()` and
  filled after the drain is dropped with the channel. Conserved shows that this
  is the only way a message is lost.
- *hyparview_symmetric*: a Neighbor that crosses an eviction is taken for the
  reply to the pending request, and one side stays active alone.
- *blob_children*: `gc_mark_task` reads the children of a hash sequence only if
  its hash was not live before; if the same hash is also a plain root and comes
  first, the children are swept under a temp tag that promises to keep them.
- *docs_deletions*: `parents()` looks up the prefixes of a key without the empty
  entries, that is without deletion markers, so `put` takes an entry below a
  deleted path, or at it, that is not newer than the deletion, where its comment
  says that it does not; what was deleted at one replica comes back with the next
  session. `parents()` also stops before the empty path. NoneUnderContent (run
  replicas) is what remains: nothing is kept beside an entry with content of a
  path, other than the empty one, that starts its own and is as new.
- *account_duplicates*: an event below a resolved fork is no longer recognised
  as a replay, and a frame that brings it again is refused with all that is new
  in it, where `commit_events` is said to take duplicates.

### Seen and not stated as a property

Each of these is a hazard in `PROJECT.json` without a property, or too small for
one; the models have them as the code does.

- Accounts: of an extension of a losing branch and the resolution of the fork,
  the one that arrives second is refused; two replicas that got them in
  different orders stay apart. `docs/design-evidence.md:94` says late branches
  reopen a fork, which holds for a rival of the resolution.
- Docs: leaving a document while a peer syncs with it, or a failing store, ends
  the live actor, and with it the sync of all documents (see DocsSync above).
  A connect task refused with AlreadySyncing leaves the peer in
  Running(Connect) (`live.rs:529`), and if the other side's own session fails,
  nothing is dialed until the other side asks. A session that fails at one end
  after the exchange ends well at the other. A ranger answer above
  MAX_ENTRIES_PER_SYNC_MESSAGE is refused by its own encoder. `hash_providers`
  never shrinks, and counts against a limit.
- Blobs: gc may delete the file of a blob that is imported again (see BlobStore
  above). Tags are listed before temp tags, so that a temp tag made a tag and
  dropped in between is in neither list. An update of a download may be queued
  behind the delete of the gc.
- Gossip: a connection that ends while its peer is in no view leaves a stale
  sender (`net.rs:743`); pending requests hold a slot; marks in
  alive_disconnect_peers outlive their connection.
- Relay: `last_packet_src` hides a route; a former home relay is never told.

## 4. The proofs

**RelayClientsProofs**, for every set of endpoints and connections, every owner
function, every limit and any number of shutdowns:

- *TypeCorrect*: TypeOK is inductive.
- *RegistryAgrees*: `Agreement` = NoZombies ∧ NoOrphans ∧ DrainedApart. None is
  inductive alone. That a registered connection has an actor that has yet to
  unregister it (NoZombies) depends on each being filed once and under its
  owner; that a drained connection does not disturb a new entry depends on
  DrainedApart; that a leaving actor finds its entry depends on NoOrphans. The
  lemmas RegisterSessions and UnregisterSessions say what one step does to the
  set Sessions(e); the per-step lemmas use only that.
- *PermitsExact*: PermitsAccounted, from Agreement: a permit is taken with a
  connection that held none, and returned with one that held one. `PermitsInv`
  adds that the holders are finite, so that counting them is meaningful.
- *HandOver*: StaysReachable, an action property, from the same invariant.

**RelaySessionsProofs**, on top of it:

- *Implements*: RelayClients implements RelaySessions (ServesNewest). Each
  registration is an Accept or a Refuse, each Unregister action a Leave,
  shutdown's removal of an entry a Close, and every other step a stutter.
  Agreement gives that a connection that unregisters is in the stack of its
  owner once. PermitsInv gives that where a permit is left, fewer sessions than
  the limit are on the stacks: an Accept stays within the abstract limits.

**RelayHomeProofs**, for every finite set of relays and every limit:

- *TypeCorrect*, and *TasksExact*: TasksAccounted, by the invariant
  `IInv` = TypeOK ∧ TasksAccounted ∧ Handled ∧ Decided. Handled (no actor runs
  without a handle) is what makes a started actor a new one; Decided says that
  the RelayActor acts on a report it still has.

**GossipProofs**, HyParView: for every finite swarm, all capacities and walk lengths, and
any number of joins, losses and quits:

- *TypeCorrect*, *Apart* (ViewsApart), *Told* (NeighborsTold) and *Walks*
  (WalksSafe), from one invariant, `Swarm`. They depend on each other: that views
  stay within capacity needs messages to name nodes only, so that adding them
  gives finite sets; that a node's own shuffle does not go to itself needs
  ViewsApart; that what is reported is the active view is kept for nodes that
  are not joined too, as they may join again.
- The predicate `Good` follows a handler through its helpers: the views are
  apart and bounded, what has been pushed so far may be sent, and the active view
  is the one at the start changed as reported so far. There is one lemma per
  helper and handler, and one per action. The one order that matters is that
  a handler removes peers before it reports one as up: a removal after that
  would be undone in TopicState::neighbors.

**GossipProofs**, PlumTree: for every set of peers, finite set of ids and
overlay at the start, and any number of broadcasts, disturbances and
evictions:

- *AlwaysServed* (NeighborsServed), *AlwaysAsked* (GraftPending) and
  *AlwaysDispatched* (DispatchPending), from `TreeInv`: types, and for each node
  `Sound` and `Asking`, which say what the three properties say of one record.
  They are about one node each, so a handler keeps them whatever the message and
  whoever sent it; there is one lemma per helper and handler. The work is in
  their order: a handler that removes an announcement must leave a timer or
  leave nothing to ask for.

**RelaySessionsProofs**, RelayRoutes: for every number of endpoints, connections
and permits:

- *RoutesKept* (RoutesRevocable). It is not inductive: a packet that waits in a
  queue is a route to be. `Booked` is the same statement about `Believed`, what
  a client believes present or will when it has read its packets. A client
  reads EndpointGone only when it has no packets left, which is where the order
  of the two queues is used; nothing is queued for a connection that is not
  registered (FreshEmpty), and only a departing connection has peers to notify
  (OnlyNotifying).

**RemoteMapProofs** and **RemoteOrderProofs**, for any set of remotes and any
number of messages and permits:

- *SendersLead* (SenderCurrent) and *PermitsKept* (ActorPermits), from `MapInv`:
  the sender of a remote leads to the one task that was not joined, actors are
  started in turn, and the completion queue names a task at most once.
- *OnePlace* (Conserved). Conserved counts the copies of a message; `PlaceInv`
  says it with sets. `Parted` divides the messages that were issued into those
  handled, in a slot of an inbox, waiting at an actor, failed, and at hand in the
  socket actor; an action moves one of them, or those of one actor, from a set to
  another. It needs that a queue holds messages once and for its own remote.
- *InOrder* (OrderKept). `OrderInv` says that every queue of an actor is in
  order, that the queues come in the order initial, inbox, and that all are behind
  what was handled. It rests on OnePlace (a remote's earlier messages are nowhere
  else) and on the socket actor having one message at hand, the last it took up.

**BlobStoreProofs**, for any blobs, hash sequences, tags and clients, and any
number of operations, gc runs and crashes:

- `BInv` = Types ∧ Tidy ∧ ClientsOk ∧ FilesInv ∧ ImportInv ∧ SteadyInv. Tidy: the
  command queue has at most one command of each party, which waits for it.
  ClientsOk: an import holds the temp tag of its blob at every place.
- *OwnedFilesStay* (FilesKept). FilesInv adds that the committed entries have
  their files too (a crash goes back to them), that commands and imports under
  way are sound, and that a file that is marked for deletion has no entry.
- *ImportsStay* (ImportKept): the entry of what an import holds, and its file
  unless the hash is in `raced`. ImportInv adds that while gc marks and sweeps,
  what an import holds is in the protected set, marked, or a root to be marked;
  the file follows from FilesInv.
- *SteadyStay* (SteadyKept), an action property, from the same for the roots
  that stand since the run began, and from Tidy: a queued Delete names nothing
  that is live.

**DocsLiveProofs**, for any set of peers, documents and hashes, and all limits:

- *AcceptsEnd* (AcceptsAccounted: the task of an accepted peer has yet to be joined,
  a task that panicked included) and *LesserSyncsOnce* (LesserExclusive), from
  `SyncInv`. LesserExclusive is about the sessions that run; what is inductive
  is Single, about the sessions whose end a peer has yet to learn, which are more:
  there is at most one, and the state of the peer says which. Slots counts
  the sessions against the reports and neighbours that caused them, so that the
  model's finite supply of sessions never runs out.
- *QueueExact* (QueuesAgree) and *WaitsEnd* (ReadyPending), from `ContentInv`:
  the documents that the end of a download completes are read off one map of the
  queue and what they still wait for off the other.

**Assumptions.** The ASSUMEs of the modules that the proofs extend: positive
limits and capacities, natural numbers for the bounds, an owner for each
connection, null values outside their sets, finitely many relays, nodes and
message ids, links between two different peers, peers
that are ordered (integers), tags and clients that differ. The bounds on events (MaxMsgs, MaxUps and so on)
are constants of which the theorems hold for every value, so they limit nothing.

**Provers.** A proof module names Zenon as its default prover; the leaves that
need arithmetic, sequences or functions as data cite SMT.

**Only model-checked.**

- *Liveness*: Settles and Delivered (gossip), ReadyAnnounced, CancelledLeaves,
  HomeServed, StatusSettles, Delivered and Stops (socket). They need fairness and
  ENABLED, which the prover does not handle.
- *DocsRanger* (Merged, Reconciled, NoneUnderContent, Logarithmic) and *AccountState*
  (Projected, Unstuck, TombstonesKept): they say what recursion over data
  computes, the splitting of ranges in the one and the replay of an event
  sequence in the other, compared with a reference definition. A proof is an
  induction over that data, which the provers cannot instantiate.

Every other property of a passing run is a theorem.

## 5. Not modelled

- *Path state, path selection, holepunching, net report, the socket actor's
  re-STUN schedule*: what they do follows from measurements and their timing; a
  model would be one of the measurements.
- *Blob transfer, connection pool, exports, the in-memory stores*: streaming I/O
  that is verified chunk by chunk; one task owns all state in the in-memory
  stores, and the gc that runs on them is the one in BlobStore.
- *Gossip with several topics, dial queues, subscriptions*: HyParView and
  PlumTree are of one topic, with connections opened by sending.
- *Docs engine, subscribers, queries and indices*: wiring of channels, and reads.
- *Identity: providers, pairing, publication, transparency, capabilities*:
  sequential validation of cryptographic formats. The effect outbox and its
  leases, checkpoints, pages and continuation cursors, and the replay of the
  journal at a restart are state of the store that AccountState leaves out.
- *Runtime task groups, router and endpoint API*: thin wrappers over the async
  runtime and the QUIC implementation, which is not part of the repository; the
  tasks they run are in the models of the components.
- *DNS server, address lookup, relay HTTP and TLS front ends*: services and I/O
  beside the protocols.
- *Encodings, base types, cryptography, simulator, fuzzing, tools*: no protocol
  state. `docs/identity/AccountControl.tla` is the repository's own abstract
  model of account control; AccountState is written from the code.
