# Crab Router in TLA+

A specification of crab-router, a Bitcoin P2P relay node (Rust, tokio): models
for TLC and proofs for TLAPS. The reference is the code; where a document or a
comment says otherwise, a run shows the difference (see *Disagreements*).

## 1. The system

| Component | Source | State | Operations |
|---|---|---|---|
| PeerManager | `src/src/manager.rs` | `peers` (list of handles), `pending_outbound`, event channel | outbound ticker, inbound listener, connection tasks, event loop |
| RelayEngine | `src/src/manager.rs` (`RelayState`, `handle_message`) | seen hashes, requests with dates, transaction cache, wtxid index, two eviction queues | `Inv`, `Tx`, `GetData` handlers |
| Peer sessions | `src/src/p2p/peer.rs` | socket, read buffer, bounded channel of 2048 messages | handshake, read, process, write, keepalive, end |
| AddressDb | `src/src/db.rs` | SQLite table of nodes | upsert, failure count, ranked query, pruning |
| DiscoveryService | `src/src/discovery.rs` | none of its own | DNS seeds, `getaddr` cycle, storing gossip |
| Metrics | `src/src/metrics.rs` | gauges and counters | set, increment |
| Wire format | `src/src/p2p/message.rs` | none | parse, serialise |
| Start-up | `src/src/main.rs`, `config.rs` | none | construct and spawn the above |
| Steganography demo | `src/tools/lsb-stego-demo` | image files | `gen`, `encode`, `decode`, `demo`; a separate sequential tool |

How they interact:

- The ticker, every connection task, every peer task, the discovery task and the
  event loop are tokio tasks. They share `peers` and `pending_outbound` under
  read/write locks, and the table under a mutex. No lock is held from one
  section to the next, so what a task read may be stale when it uses it.
- Peer tasks and handshakes tell the event loop what happened through one
  unbounded channel, in order. An event carries an address and no session.
- Everything else sends to a peer by `try_send` on the bounded channel of its
  handle. A refused message makes the event loop drop the handle
  (`prune_stale_peers`), not the session.
- A connection task pushes the handle; only the event loop removes handles.
- The table is written by handshakes, failed dials, ends of sessions, gossip and
  DNS seeds, all to the same rows; the ticker reads it, the discovery task prunes
  it.

What is hard about it: the snapshots of the ticker against tasks that end at any
moment; events of an old session that arrive when a new one to the same address
is there; an event that is posted before the state it announces is in place;
channels at their limit; two caches evicted separately; requests that are never
answered; a stream whose pieces have nothing to do with its messages; rows that
five writers overwrite. PROJECT.json lists these hazards at their lines.

What makes each component correct:

- PeerManager: one handle per address, one dial per address, every dial released,
  every dead handle removed, counters that balance, a gauge that does not
  overstate.
- RelayEngine: consistent indexes; nothing requested that was seen; nothing
  served that was not asked for; everybody told once, but the sender and Knots;
  what is announced is eventually fetched.
- AddressDb: each row is one node's last known state; the query returns each
  address once, best class first.
- Discovery and dialling over time: nobody given up but for failures since the row
  was last renewed, each counted once; what is given up pruned, nobody connected
  pruned, a bound on how far the target is exceeded, and the target reached (it is
  not, see *Disagreements*).
- Peer sessions: a handshake that ends, every message handled once and in order
  under any chunking of the stream, a bounded buffer, the class of the first
  version, and one lifecycle of events towards the event loop.
- Steganography demo: what is hidden is found, the image survives.

## 2. Modules

| Module | What it is |
|---|---|
| `AddressDb` | the table as a function, one operator per statement |
| `Directory` | abstract: what the tasks of the manager keep together, a directory of addresses and a count of it |
| `PeerManager` | the tasks of `PeerManager::run` and the sessions, as actions; implements `Directory` |
| `RelayOps` | `RelayState` as a record, its methods as operators |
| `RelayMemory` | abstract: the relay memory as three sets |
| `RelayCache` | the relay memory on its own under any `inv`, `tx` and time; implements `RelayMemory` |
| `Relay` | the relay memory among remotes with bounded channels |
| `Crawl` | the table over days: discovery, dials and sessions by address, at the grain of ticks |
| `SessionLifecycle` | abstract: the events a session promises |
| `PeerSession` | `peer.rs`: handshake, read buffer, select loop; implements `SessionLifecycle` |
| `LsbCodec` | the bit and BMP functions of the demo, as operators |
| `LsbStego` | the commands of the demo over the files they share |
| `MC...` | values for the constants |
| `..._proofs` | lemmas and theorems |

`PeerManager` and `Crawl` extend `AddressDb`; `RelayCache` and `Relay` extend
`RelayOps`; `RelayCache` instantiates `RelayMemory` with `cached <-
Range(relay.tx_cache)`; `PeerManager` instantiates `Directory` with `dialling <-
pending`, `listed <- PeerAddrs`, `shown <- gauge`; `PeerSession` instantiates `SessionLifecycle` with
`phase <- Phase`
and `posted <- events`; `LsbStego` extends `LsbCodec`.

**PeerManager.** A step is what a task does between two points where another task
can come between, i.e. an `.await` or the release of a lock. So the ticker is
five actions with its locals in `ticker` (`TickCount`, `TickConnected`,
`TickPending`, `TickQuery`, `TickDial`; `TickEnd` is the end of its loop), a
connection task is the control state `task[s]` (`handshake`, `push`, `count`,
`unpend`), and the event loop has its program counter and locals in `mgr`: it
goes through `disconnected`, `relay`, `prune` and `counts` before it receives
again. `HandshakeOk` writes the row and posts `Connected`, since there is no
await between them and the return; the duplicate check comes in the next step.
`running` is the set of sessions whose peer task lives, `peers` the set of those
that have a handle: they are different things, and most of what can go wrong is
in the difference. What a message says is reduced to what the manager does with
it: `Tx` (relay to all), `Request` (answer the sender), `Addresses` (store rows).

**Directory.** Four variables for the lists, events, snapshots and tasks of the
manager: the addresses being dialled, the addresses listed, whether a count is due
and the last count. An address is dialled and listed once at a time, entries go
only when no count is due, and going makes one due: so the count that is shown was
right when it was made. Which entries go is open (a late event may strike the
wrong session, see *Disagreements*).

**AddressDb.** A row keeps class, date, failures, reachability. Failures stop at
the limit, where nothing tells them apart any more. `PeerManager` gives every row
the same date, so the query may return rows of one class in any order, and
pruning may find any set of unreachable rows old: more behaviours than the code
has, never fewer.

**RelayOps.** An `Instant` is an age: `Age` is the clock. `MarkRequested` is the
loop over an inventory, whose keys are all marked at one instant under one lock.
`AcceptTx` is the locked section of the `Tx` handler. Txids and wtxids are
members of one set `Id`, as the code keeps both in one `HashSet`; the assumption
says what hashing gives: the wtxid tells all transactions apart, and the txid of
x is the wtxid of y only if y has no witness, and then it is the txid of y too.

**RelayMemory.** The filter, the cache and the requests as sets, with no queue and
no index: what is taken in is there afterwards, and something is forgotten only
when the limit is reached. Which element goes is open there; the queues of
`RelayOps` choose the oldest.

**Relay.** Each handler of the event loop is one step. That loses nothing: beside
the loop only a peer task touches what a handler uses, by draining or closing a
channel, and a drain during the handler can as well happen before or after it.
`told` and `source` are history. A message names one hash (lists are in
`RelayCache`). The steps of the remotes are the environment.

**PeerSession.** One session from its open socket. `pc` is where the task is:
waiting for the `version` or the `verack`, `established` (the handshake returned,
the connection task has the peer), then at `select`, in `process_buffer`
(`process`) or in the write of a queued message or a keepalive (`write`). A
message on the wire is a header and a payload counted in units, each unit naming
the message it belongs to and its place; the real parsing is `HasFrame`, `FrameOf`
and `After` on the units in the buffer, so misaligned reads are really misaligned:
a header read from the middle of a message has the length `Misread` says and does
not parse. `recv_message` takes one message off the stream, `Read` any number of
units. What this end writes is counted (`unsent`, `wire`): a write blocks while
`SocketBuffer` messages are unread, which is all that the rest of the task sees
of it. The handshake can be cut by its timeout at any await.

**SessionLifecycle.** Four phases and the events of each. It is what
`PeerManager` assumes of a session (`HandshakeOk`, `Report`, `Stop` there), with
the liveness that the manager needs: a handshake ends.

**Crawl.** A tick is one step; the races inside it are in `PeerManager`, with which
it shares `AddressDb`. What is new is time: dates slide (`Day`), a dial counts the
ticks it has seen, rows are ranked, limited and pruned. Sessions have no names here
but are counted by address: `sessions[a]` is the number of those handed over whose
end is not marked yet, of which at most one has the handle. So an address can lose
its handle (`PruneStalePeer`), be dialled again and have the old session beside the
new one. A connection task takes two steps, as the event loop can come between: the
row is written (`Greet`, by `Establish` for a dial and `AcceptFrom` for a caller),
then the handle is added or the session is dropped (`Join`). The end of a session is
two steps of the event loop as well: the handle of the address goes
(`Disconnected`), whichever session has it, then the row gets its failure
(`FinishDisconnected`), handle or not. `Restart` kills the process at any moment and
starts it again over the table it left, the one thing that is kept.

Nothing makes a tick wait for a dial: `interval` makes up for missed ticks at once, so
a dial may see any number of them. On schedule it sees `DialTicks`, the timeout over
the interval and one more (21): its timeout starts after its own tick, and so is about
to fire at the twentieth after that one. `called` are the peers that were dialled.
History: `causes` (what may count against an address: its sessions open when its row
was last written anew, and failed dials since), `overtaken` (addresses that got a
failure between row and handle), `overdue` (some dial saw more than `DialTicks`
ticks).

**LsbCodec, LsbStego.** The tool is pure functions and four commands. A file is
the header fields that are read and the bytes behind them. `Foreign` are files of
other programs, given together with the image they show, drawn independently of
`WriteBmp`: that is what tells a wrong row order or a wrong padding from a right
one. `Wrap` is the number of values of a `u32`.

## 3. Runs

| Run | Instance | Shows |
|---|---|---|
| `relay_cache` | 5 transactions (no witness, witness, two variants), 8 hashes, cache sizes 6 and 2 | `SeenIndexed`, `CacheIndexed`, `RequestsUnseen`, `CachedRemembered`, `ServedAsAsked`, `RequestsHeld`, `MemoryKept` |
| `dialling` | an address with two connections, an IPv6 address; target 1 | `UniqueHandles`, `PendingExact`, `Accounted`, `NoOrphanHandle`, `ConnectionTasksEnd`, `DeadHandlesRemoved`, `DirectoryKept` |
| `inbound` | two accepted connections of one address and one Knots node, channels of 1 | `GaugeNeverOverstates` |
| `relay` | two peers and a Knots node, a plain transaction and two variants, channels of 1 | `ToldExactly`, `ToldOnce` |
| `fetch` | two peers that stay, channels of 4 | `AnnouncedIsFetched` |
| `session` | four messages out of a modern Knots version, an old Core version and one of each other kind, unparsable and oversized ones among them | `HandledExactly`, `BufferBounded`, `ClassifiedOnce`, `LifecycleKept`, `SentIsHandled` |
| `crawl` | two stable nodes and one that comes, goes and calls, with two sessions at once; gossip and seeds about them | `OvershootBounded`, `GivenUpForAReason`, `ConnectedKnown`, `GivenUpGoes` |
| `stego` | two files, messages of 0 to 2 bytes, four sizes, four foreign files | `RoundTrip`, `CarrierKept`, `CapacityExact` |
| `fetch_again`, `knots_get_nothing`, `forwards_to_all`, `target` | | disagreements, below |

One invariant `TypeOK` of each module is checked too.

Bounds, and why they are enough:

- `Session` is a pool of names. A finished connection is forgotten and its name
  is used again, so an execution has any number of connections and the pool
  bounds only how many exist at once. Two names per address are what the races
  between an old and a new session take.
- `MaxEvents` bounds the event channel, which the code does not bound; a task
  that would post waits. Two is the least with which events of two sessions of
  one address can wait together, so that the older one is handled late.
- `Capacity` 1 makes a full channel the usual case. `FailureLimit` 1 or 2 makes
  nodes unreachable within a run (5 in the code).
- `SeenLimit` is twice `TxLimit` and two more, and small enough that both caches
  evict (`relay_cache`); in `relay` it holds every hash,
  because "once" is only meant while the filter remembers.
- `session`: a header of 2 units can be cut in two, a payload of 1 and the
  largest size of 1 put a message at and above the limit, and four messages take
  a handshake and two messages after it, or an oversized one and its successors.
- `crawl`: rows are old after a day, a limit of three failures, dials of two ticks,
  one attempt per tick, two sessions of an address at once (`MaxSessions`), one
  restart (`MaxRestarts`): each limit is reached, the ends of two leftover sessions
  and a failed dial together give an address up, and one address can have failures,
  gossip, sessions and a date in any order. `target` scales the window: two rows per
  attempt for the code's four, so that two connected nodes fill it; an IPv6 row is
  ranked with them. `crawl` has no IPv6 row: nothing it looks at tells one from a row that is not dialled.
- `stego`: `Wrap` 2048 makes the products of a shade wrap within the sizes; 11 x 2
  pixels hold 4 bytes more than the length, 3 x 3 are too small for one. Messages
  and images are chosen so that the highest byte of a length stays within TLC's
  integers, whatever the low bits of the picture are.

Fairness. The event loop waits for locks only, each held for a few statements:
`WF(Manage)`. A connection task always ends, at the latest by its timeout:
`WF(Connect(s))` for each. A remote is never obliged to send, read or hang up,
and the ticker is not needed by any liveness property, so neither is fair. In
`Relay` a remote answers what it is asked (`WF(Deliver(p))`), time passes, and
nobody has to announce anything or stay.

In `PeerSession` the task goes on whenever it can (`WF(Process)`, `WF(Send)`,
`WF(HandOver)`), the timer of the handshake fires (`WF(HandshakeTimeout)`), and
the remote reads (`WF(RemoteRead)`), without which a write may block for ever.
`Read` and `TakeQueued` have strong fairness: `select!` starts with a random one of
its branches, so a branch that is ready again and again is taken, although the
others make it wait. `crawl`
assumes only that the discovery ticker ticks, days pass and look-ups end; `target`
also that the outbound ticker ticks, dials end, a stable node answers, and the tasks
and the event loop go on after their first step (`Join`, `FinishDisconnected`).

## 4. Disagreements

- `target`. `README.org:40`: "Maintains target connection count". The query
  returns the first 4 x budget rows by class and date, and connected ones are
  passed over afterwards. With one peer missing that is 4 rows; when connected
  nodes are ranked first, nobody is dialled although another node is known and
  would answer. (The run has 2 x budget rows, and two connected nodes.) The window is at most 768 rows, the default target is 1000.
  `WindowCloses` (section 5) proves the mechanism for every table and every budget.
- `forwards_to_all`. `README.org:49`: "Forward to all except" the sender and
  Knots. A session whose handle was pruned goes on, because `Peer` keeps a sender
  of its own channel and so never sees it closed. It is read from and never
  relayed to. Its address can be dialled again; when the old session ends, its
  event removes the handle of the new one.
- `knots_get_nothing`. `README.org:31`: "relays only to non-Knots". Announcements
  are withheld, but `getdata` is answered for everybody.
- `fetch_again`. `manager.rs:405`: "Request tx data for unseen tx announcements."
  A hash requested of one peer is not requested of another for 120 s, and the
  announcements made meanwhile are dropped for good. If the first peer leaves,
  the transaction is not fetched. `fetch` shows that with peers that stay it is, and
  `ForgetsNone` (section 5) proves that it takes a peer that leaves, or a full
  channel, to lose an announcement.

Two remarks without a run. The filter (100 000 hashes) is larger than twice the
cache (20 000), so what is cached is remembered, but not in all cases: each
variant of a transaction with another witness costs the filter a hash and the
cache nothing, as the router does not validate. When more than 60 000 variants
arrive while a transaction is cached, the filter forgets it first. It is then
announced again, and a variant may be cached under its txid while the wtxid index
has the first one, so a request by wtxid gets a different transaction. `Roomy` in
`RelayCache` is the condition under which `CachedRemembered` and `ServedAsAsked`
hold; with `SeenLimit` 5 and without it TLC finds the trace.

`metrics.rs:48` calls the gauge the "Number of currently
connected peers". The handshake posts `Connected` before the handle is in the
list; if the event loop is first, it counts without the new peer, and nothing
counts again until the next event of that kind. `GaugeNeverOverstates` is what
holds.

Three things the models show that no document speaks of. A session that lost its
handle still counts against its address when it ends: with as many of them as the
limit, a node is given up without a failed dial, while it may be connected again, if
the row is not renewed between. `GivenUpForAReason` says what is left: no session
counts that had ended when the row was renewed, and none counts twice. Failures that the
event loop marks between the row and the handle of a new session stay on the row:
with enough of them a node is connected and given up, so `ConnectedKnown` leaves
those addresses (`overtaken`) out. And `OvershootBounded` holds while no dial is
`overdue`: a ticker that was held up dials for the same missing peers several times
at once, once for each tick it makes up for.

## 5. Proofs

All theorems hold for every value of the constants under the named assumptions
(`RelayAssumption`, `AnnouncementsAssumption`, `RelayPeersAssumption`,
`AddressDbAssumption`, `PeerManagerAssumption`, `CrawlAssumption`,
`PeerSessionAssumption`, `LsbStegoAssumption`), which the runs evaluate. `CrawlAssumption`
takes the table of a previous run to be one that `MarkFailed` leaves: rows that are
given up have as many failures as the limit, which is above two (5 in the code).

`RelayOps_proofs` has one lemma per method; `RelayCache_proofs` derives
`Invariance`. The inductive invariant `Consistent` is the conjunction of types,
`SeenIndex`, `OrderIndex`, `WtxidIndex` and "nothing requested is seen". It is
needed as a whole: eviction removes the right elements only because a queue has
no hash twice and agrees with its set, and the wtxid index keeps pointing into
the cache only because a cached transaction is filed under its own txid.
Consequences: `TypeCorrect`, `SeenNeverDrifts`, `CacheNeverDrifts`,
`SeenIsAnswered`. `HoldsRequests` goes through the steps with that invariant: a
key that leaves the record early was answered, and is in the filter then.

The second part of `RelayCache_proofs` is `Implements`: every step of `RelayCache` is one of
`RelayMemory` or stutters. A queue without duplicates has as many elements as it
is long, so a queue that was cut is a set at its limit; and what was pushed last,
or last but one, survives the cut, for which `SeenLimit` must not be 1.

The third part relates the two caches, which are evicted apart: `RemembersCached`
and `ServesAsAsked`, under `Roomy` as in the properties. How much room is enough is
a count of what the filter may take in behind a cached txid before that txid leaves
the cache. `CacheInv` has three parts:

- `Paired`: the two hashes of a transaction without variants stay together in the
  queue of the filter: its txid is directly followed by its wtxid, and in front of
  the wtxid is the txid, unless eviction has just taken it. So such a transaction
  never costs the filter a hash of its own a second time. The two `mark_seen` of a
  transaction are looked at together, since between them this does not hold.
- `Remembered`: a cached txid is in the queue, and all that is behind it there are
  hashes that may have come since it was cached (`Since`): wtxids of variants, txids
  cached later, and wtxids of those and of itself. They are fewer than `SeenLimit`
  (`SinceIsSmall`), so eviction does not reach it while it is cached.
- `Filed`: what the wtxid index has under a wtxid is a transaction of that wtxid.
  An overwrite of a cached txid by a variant would break it, and does not happen,
  as a cached txid is in the filter and so not new.

`PeerManager_proofs`:

- `TypeCorrect`: types, and no channel above its capacity.
- `HandlesStayUnique` is inductive by itself: handles are added only by a task
  that has looked, in the same step.
- `OneDialPerAddress` needs `SnapshotCovers`: from its snapshot on, the ticker's
  copy of `pending_outbound` contains every address that is pending and still on
  the ticker's list. It is kept because only the ticker adds to the set, each
  address occurs once on its list (`GetKnotsExcludingOK`), and an address goes
  off the list when it is dialled. The snapshot of connected addresses plays no
  part, so the gap between the two snapshots is harmless for this property.
- `OrphansGo`: a peer task posts its last event in the step in which it ends, and
  handling an event removes every handle of its address.
- `GaugeBounded`: the gauge is bounded by the number of handles in every state
  but those between a removal and its recount (`GaugeInv`).
- `ConnectionsBalance` is inductive together with `Apart`: a task that has yet to
  hand its session over has no peer task, so handing it over adds one to the
  sessions that run. Each step then moves one unit from one term of `Accounted` to
  another; receiving an event shifts the numbers of those behind it, which a
  bijection says leaves their count.
- `KeepsDirectory`: every step is one of `Directory` or stutters. A dial is of an
  address that is not being dialled (`FreshDial`, from the invariant of
  `OneDialPerAddress`), a handle is pushed for an address without one, and the gauge
  counts handles where `Directory` counts addresses: by `HandlesStayUnique` there are
  as many. What is left of `DirectoryKept` to the run is the fairness.

`AddressDb_proofs`: `GetKnotsExcludingOK` for the manager, and two theorems about the
query for every table. `QueryRanks`: it returns as many candidates as there are, up to
its limit, each once, and none that ranks before a returned one is missing.
`WindowCloses`: if as many nodes as the limit rank before all others, exactly they are
returned, so if they are connected nobody is dialled. That there is an order to
return at all is induction over the size of the table; the runs show it.

`PeerSession_proofs`: `TypeCorrect`, and `KeepsLifecycle`: every step of a session
is one of `SessionLifecycle` or stutters. What is left of `LifecycleKept` to the
run is the fairness.

The second part of `PeerSession_proofs` is about any messages, any sizes and any chunking:

- `HandlesExactly`. The argument looks at what was sent and not taken yet,
  `buf \o stream`. `Flows` says that it is a piece of the concatenated frames that
  ends where they end; as induction on the length of a sequence is not available,
  it relates any two units by their distance, which taking a piece off the front
  (`SuffixFlows`) and adding a frame at the end (`SendFlows`) preserve. The
  inductive invariant `Framed` adds that either the first unit starts a message
  and all valid ones before it were handled (`Aligned`), or a message over the
  limit was met when they were (`Overrun`), and that what was handled lies before
  what is left. `TakeFramed` is the step that takes a frame, also one that a
  header in the middle of a message made up. `FramingInv` says in addition that a
  task that waits has no whole message in its buffer; so, while it is aligned,
  the next message has not arrived in whole (`NothingWaits`).
- `BoundsBuffer` follows from the same invariant.
- `ClassifiesOnce` needs that the handshake stays aligned, so that the first
  version it meets is the first that was sent (`NamingInv`).

`Relay_proofs`: `TypeCorrect`, together with the consistency of the memory; and,
under the hypothesis `RoomyFilter` (no more hashes on the network than the filter
holds, without which the same transaction is new a second time), `TellsExactly` and
`TellsOnce`. They need that a roomy filter forgets nothing (`MarkSeenKeeps`: the
queue has no hash twice, so it is not longer than there are hashes) and
`SourceInv`: what was accepted is in the filter, and nobody was told of anything
else. So a transaction that passes the filter has not been told to anybody.

The later parts of `Relay_proofs` compose and look at both directions of the exchange:

- `UsesCache`: a behaviour of `Relay` is one of `RelayCache`, whatever the remotes do.
  So the theorems about the memory on its own hold for the memory there; the
  instance `Cache` brings them over by name.
- `ServesTheNamed`, under `Cache!Roomy`: the only messages that carry a transaction are
  answers to a `getdata`, to its sender, and the transaction is one of the name that
  was asked for. For wtxids this is `ServesAsAsked` of the memory.
- `ForgetsNone`, under `RoomyFilter`, is the safety half of `AnnouncedIsFetched`: as
  long as nobody left and no channel refused a message (`Undisturbed`), every announced
  transaction is accepted, or on its way (`Wanted`: a request for a hash of it waits
  at a peer that has it, or such a transaction waits in the event channel), or its
  announcement waits. The inductive invariant `PursuitInv` adds that whatever is on
  record as requested is on its way (`RequestsWanted`), which is why an announcement
  that the record holds back is not lost; that who announces has what it announces
  (`OffersBacked`); and that a wtxid in the filter has its txid there (`SeenClosed`).
  Each step is shown to go on with all that was on its way (`Onward`) and to add
  nothing to the record or to the announcements that is not (`Backed`). Without
  `Undisturbed` it is false: that is the trace of `fetch_again`.

`Crawl_proofs`:

- `TypeCorrect` says in particular that a task which wrote the row of a dial still has
  the dial, so two tasks never hold one mark, and that the event loop ends only a
  session that is open.
- `KnowsConnected` and `GivesUpForAReason` follow from `RowsInv`, which looks at each
  address alone: the failures of a row and the open sessions together are no more than
  its `causes`; it is given up at the limit only; and when its node is connected, and
  was not overtaken, it has two failures at most, of a dial that was under way and of
  an end that was half handled (so the limit has to be above two). A step makes a row
  new (`Fresh`), leaves what it counts (`Untouched`) or marks a failure
  (`MarkFailedRow`), the one case with something to show.
- `BoundsOvershoot`, for every target and every length of a dial. By induction, while
  none is overdue, the dials of one age are no more than a budget (`AgesInv`); numbering
  those of each age makes the dials below the last age pairs of an age and a number
  (`DialsBelowLast`), so a tick adds its budget to at most `DialTicks - 1` others.

`LsbStego_proofs`:

- `DecodeEncode`: for every image and every message that fits, the low bits say
  the message. It rests on the eight bits of a byte (`ByteIsItsBits`), on the
  length prefix and on writing a bit changing no other.
- `WriteRead`: a written file reads as its image, for every width and height. The
  argument is division with remainder: a byte of a row is at
  `y * stride + 3 * x + c`, and `InRow` recovers y, x and c from it.
- `FilesKnown` is the inductive invariant of the commands: each file is a foreign
  one or the written form of an image, and a file with a hidden message is the
  written form of an image that the message was encoded into. From it follow
  `TypeCorrect`, `HiddenIsFound`, `CapacityTrue` and `CarriersStay`; the last under
  the hypothesis that the foreign files are read as the image they show, which
  the run checks for its four.

Only model-checked: liveness, which is out of reach of the prover, and with it the
fairness in `LifecycleKept` and `DirectoryKept`. Every invariant and every action
property of the passing runs is a theorem (`ToldExactly` and `ToldOnce` under
`RoomyFilter`, `CarrierKept` under the hypothesis on the foreign files).

## 6. Not modelled, and the plan

Left out: what a transaction contains and whether it is valid (the router does
not check it either); message counters; HTTP; `get_by_type`, `get_random`,
`mark_connected`, `count_by_type`, which nothing calls; failures of SQLite, whose
errors the callers ignore or treat as a failed handshake; the conversions between
the crate's messages and the router's, which keep no state; the start-up, which
constructs the parts in a row (its restart over an old table is in `Crawl`);
command lines and the errors for images that a BMP header cannot describe.

Simplifications that no property depends on: `PeerManager.Probe` sends its `getaddr`
messages and prunes in one step; in `PeerSession` a header read from the middle of a
message never parses; `Crawl` has at most one connection task per address and way
between its row and its handle, and counts no session with an inbound handle in
`called`. The shades of `demo_image` wrap and are cut as in a release build; what they
should look like nobody says, so no property is about them.

In order, for the next stages:

1. What the router does when it is disturbed: which announcements `ForgetsNone` loses
   when a peer leaves, as the set of hashes it was asked for.
2. `Directory` with the sessions behind the entries: which handles a late event may
   strike, and that a session without a handle stays without one.
3. `Relay` under `PeerManager`: the sends of its handlers as those of `RelayTo`.
