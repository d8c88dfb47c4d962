---------------------------- MODULE PeerManager ----------------------------
(***************************************************************************)
(* The tasks of PeerManager::run (src/src/manager.rs) and of the peers it   *)
(* runs (src/src/p2p/peer.rs), with the state they share:                  *)
(*   - the outbound ticker, which dials known addresses up to a target;    *)
(*   - one connection task per dialled or accepted socket: handshake,      *)
(*     duplicate check, hand-over to a peer task, bookkeeping;             *)
(*   - one peer task per established session, which reports what happens   *)
(*     on the socket as events and drains the queue of its handle;         *)
(*   - the event loop, which alone removes handles.                        *)
(* An action is what a task does between two points where another task can *)
(* come between: an .await, or the release of a lock.                      *)
(*                                                                         *)
(* A session is one TCP connection.  A finished session is forgotten, so   *)
(* its name may stand for a later connection to the same address.  Events  *)
(* carry an address and no session, as in the code.                        *)
(***************************************************************************)
EXTENDS Integers, AddressDb

CONSTANTS
  Session,        \* names of TCP connections
  Outbound,       \* the ones this router opens; it accepts the others
  AddrOf,         \* [Session -> Addr], the remote address
  TypeOf,         \* [Session -> NodeType], the class the remote's version gives
  Ipv6,           \* the IPv6 addresses
  KnownNodes,     \* the table a previous run left behind
  Gossip,         \* the sets of public addresses an addr message may carry
  Reports,        \* the kinds of messages the remotes send
  EnableDiscovery,  \* enable_discovery
  Target,         \* target_peers
  MaxAttempts,    \* MAX_CONNECT_ATTEMPTS_PER_TICK (192)
  Oversample,     \* rows asked for per attempt (4)
  Capacity,       \* OUTBOUND_QUEUE_CAPACITY (2048)
  MaxEvents       \* bound of the model: length of the event channel

ASSUME PeerManagerAssumption ==
  /\ IsFiniteSet(Session)
  /\ Outbound \subseteq Session
  /\ AddrOf \in [Session -> Addr]
  /\ TypeOf \in [Session -> NodeType]
  /\ Ipv6 \subseteq Addr
  /\ IsTable(KnownNodes)
  /\ Gossip \subseteq SUBSET Addr
  /\ Reports \subseteq {"Tx", "Request", "Addresses"}
  /\ EnableDiscovery \in BOOLEAN
  /\ Target \in Nat
  /\ {MaxAttempts, Oversample, Capacity, MaxEvents} \subseteq Nat \ {0}

VARIABLES
  task,        \* where each session's connection task is
  running,     \* the sessions whose peer task runs
  queue,       \* how many messages wait in each session's channel
  peers,       \* the sessions whose handle is in PeerManager.peers
  pending,     \* PeerManager.pending_outbound
  events,      \* the event channel
  mgr,         \* the event loop: its program counter and locals
  ticker,      \* the outbound ticker: its program counter and locals
  gauge,       \* metric connected_peers
  balance,     \* metrics total_connections - total_disconnections
  nodes        \* the address table

connVars == <<task, running, queue>>
sharedVars == <<peers, pending, events>>
metricVars == <<gauge, balance>>
vars == <<connVars, sharedVars, mgr, ticker, metricVars, nodes>>

PeerAddrs == {AddrOf[s] : s \in peers}

\* No task, queue or local variable refers to the session any more.
Free(s) ==
  /\ task[s] = "idle"
  /\ s \notin running \cup peers \cup mgr.targets

Event(kind, addr) == [kind |-> kind, addr |-> addr]

\* event_tx.send: the channel is unbounded in the code.
Post(event) ==
  /\ Len(events) < MaxEvents
  /\ events' = Append(events, event)

IdleManager == [pc |-> "recv", addr |-> {}, targets |-> {}, stale |-> {}]
IdleTicker == [pc |-> "count", budget |-> 0, connected |-> {}, pending |-> {}, todo |-> << >>]

Init ==
  /\ task = [s \in Session |-> "idle"]
  /\ running = {}
  /\ queue = [s \in Session |-> 0]
  /\ peers = {}
  /\ pending = {}
  /\ events = << >>
  /\ mgr = IdleManager
  /\ ticker = IdleTicker
  /\ gauge = 0
  /\ balance = 0
  /\ nodes = KnownNodes

-----------------------------------------------------------------------------
(* The outbound ticker: every OUTBOUND_REFILL_INTERVAL it compares the      *)
(* number of handles with the target, takes two snapshots and a list of     *)
(* addresses, each under a lock of its own, and walks the list.             *)

Attempts(missing) == Min({missing + missing \div 2, MaxAttempts})

TickCount ==
  /\ ticker.pc = "count"
  /\ Cardinality(peers) < Target
  /\ ticker' = [ticker EXCEPT !.pc = "connected", !.budget = Attempts(Target - Cardinality(peers))]
  /\ UNCHANGED <<connVars, sharedVars, mgr, metricVars, nodes>>

TickConnected ==
  /\ ticker.pc = "connected"
  /\ ticker' = [ticker EXCEPT !.pc = "pending", !.connected = PeerAddrs]
  /\ UNCHANGED <<connVars, sharedVars, mgr, metricVars, nodes>>

TickPending ==
  /\ ticker.pc = "pending"
  /\ ticker' = [ticker EXCEPT !.pc = "query", !.pending = pending]
  /\ UNCHANGED <<connVars, sharedVars, mgr, metricVars, nodes>>

TickQuery ==
  /\ ticker.pc = "query"
  /\ \E addrs \in GetKnotsExcluding(nodes, ticker.budget * Oversample) :
       ticker' = [ticker EXCEPT !.pc = "dial", !.todo = addrs]
  /\ UNCHANGED <<connVars, sharedVars, mgr, metricVars, nodes>>

\* Mutant: the snapshot of pending_outbound is not looked at.
SkippedConnected == Ipv6 \cup ticker.connected

\* The addresses the loop passes over.
Skipped == Ipv6 \cup ticker.connected \cup ticker.pending

\* The next address that is not passed over: it goes into pending_outbound and
\* a connection task is spawned for it.
TickDial(s) ==
  /\ ticker.pc = "dial"
  /\ ticker.budget > 0
  /\ s \in Outbound /\ Free(s)
  /\ \E i \in DOMAIN ticker.todo :
       /\ ticker.todo[i] = AddrOf[s]
       /\ ticker.todo[i] \notin Skipped
       /\ \A j \in 1..(i - 1) : ticker.todo[j] \in Skipped
       /\ ticker' = [ticker EXCEPT !.budget = @ - 1,
                                   !.todo = SubSeq(@, i + 1, Len(@))]
  /\ pending' = pending \cup {AddrOf[s]}
  /\ task' = [task EXCEPT ![s] = "handshake"]
  /\ UNCHANGED <<running, queue, peers, events, mgr, metricVars, nodes>>

\* The list or the attempts are used up: wait for the next tick.
TickEnd ==
  /\ ticker.pc = "dial"
  /\ ticker.budget = 0 \/ Range(ticker.todo) \subseteq Skipped
  /\ ticker' = IdleTicker
  /\ UNCHANGED <<connVars, sharedVars, mgr, metricVars, nodes>>

-----------------------------------------------------------------------------
(* Connection tasks.                                                       *)

\* listener.accept: two open sockets of the listener differ in their remote
\* address.
Accept(s) ==
  /\ s \in Session \ Outbound /\ Free(s)
  /\ \A r \in Session \ Outbound :
       AddrOf[r] = AddrOf[s] => r \notin running /\ task[r] \in {"idle", "count"}
  /\ task' = [task EXCEPT ![s] = "handshake"]
  /\ UNCHANGED <<running, queue, sharedVars, mgr, ticker, metricVars, nodes>>

\* Where a connection task goes when it is done with the session: an outbound
\* one still holds its address in pending_outbound.
Done(s) == IF s \in Outbound THEN "unpend" ELSE "idle"

\* The end of Peer::handshake.  The row is written and the event is sent here,
\* before the caller has looked for a duplicate.
HandshakeOk(s) ==
  /\ task[s] = "handshake"
  /\ nodes' = InsertOrUpdate(nodes, AddrOf[s], NodeInfo(TypeOf[s], 0))
  /\ Post(Event("Connected", AddrOf[s]))
  /\ task' = [task EXCEPT ![s] = "push"]
  /\ UNCHANGED <<running, queue, peers, pending, mgr, ticker, metricVars>>

\* Mutant: an attempt that failed is made again by the same task.
HandshakeRetry(s) ==
  /\ task[s] = "handshake"
  /\ nodes' = MarkFailed(nodes, AddrOf[s])
  /\ UNCHANGED <<connVars, sharedVars, mgr, ticker, metricVars>>

\* An error or the timeout, at any point of connect or accept.
HandshakeFail(s) ==
  /\ task[s] = "handshake"
  /\ nodes' = IF s \in Outbound THEN MarkFailed(nodes, AddrOf[s]) ELSE nodes
  /\ task' = [task EXCEPT ![s] = Done(s)]
  /\ UNCHANGED <<running, queue, sharedVars, mgr, ticker, metricVars>>

\* Mutant: no duplicate check.
PushUnchecked(s) ==
  /\ task[s] = "push"
  /\ peers' = peers \cup {s}
  /\ running' = running \cup {s}
  /\ queue' = [queue EXCEPT ![s] = 0]
  /\ task' = [task EXCEPT ![s] = "count"]
  /\ UNCHANGED <<pending, events, mgr, ticker, metricVars, nodes>>

\* Under the write lock of `peers'.
PushHandle(s) ==
  /\ task[s] = "push"
  /\ AddrOf[s] \notin PeerAddrs
  /\ peers' = peers \cup {s}
  /\ running' = running \cup {s}
  /\ queue' = [queue EXCEPT ![s] = 0]
  /\ task' = [task EXCEPT ![s] = "count"]
  /\ UNCHANGED <<pending, events, mgr, ticker, metricVars, nodes>>

\* Mutant: a duplicate is counted as a connection.
SkipCounted(s) ==
  /\ task[s] = "push"
  /\ AddrOf[s] \in PeerAddrs
  /\ task' = [task EXCEPT ![s] = "count"]
  /\ UNCHANGED <<running, queue, sharedVars, mgr, ticker, metricVars, nodes>>

\* The socket is dropped without a word to the event loop.
SkipDuplicate(s) ==
  /\ task[s] = "push"
  /\ AddrOf[s] \in PeerAddrs
  /\ task' = [task EXCEPT ![s] = Done(s)]
  /\ UNCHANGED <<running, queue, sharedVars, mgr, ticker, metricVars, nodes>>

CountConnection(s) ==
  /\ task[s] = "count"
  /\ balance' = balance + 1
  /\ task' = [task EXCEPT ![s] = Done(s)]
  /\ UNCHANGED <<running, queue, sharedVars, mgr, ticker, gauge, nodes>>

Unpend(s) ==
  /\ s \in Outbound /\ task[s] = "unpend"
  /\ pending' = pending \ {AddrOf[s]}
  /\ task' = [task EXCEPT ![s] = "idle"]
  /\ UNCHANGED <<running, queue, peers, events, mgr, ticker, metricVars, nodes>>

-----------------------------------------------------------------------------
(* Peer tasks: Peer::run.                                                  *)

\* Mutant: the peer task ends without its last event.
StopSilently(s) ==
  /\ s \in running
  /\ running' = running \ {s}
  /\ queue' = [queue EXCEPT ![s] = 0]
  /\ UNCHANGED <<task, sharedVars, mgr, ticker, metricVars, nodes>>

\* Closed by the remote, a read error, or a failed write: the last event of the
\* session, after which its channel has no receiver.
Stop(s) ==
  /\ s \in running
  /\ Post(Event("Disconnected", AddrOf[s]))
  /\ running' = running \ {s}
  /\ queue' = [queue EXCEPT ![s] = 0]
  /\ UNCHANGED <<task, peers, pending, mgr, ticker, metricVars, nodes>>

\* One message of the channel is written to the socket.
Drain(s) ==
  /\ s \in running /\ queue[s] > 0
  /\ queue' = [queue EXCEPT ![s] = @ - 1]
  /\ UNCHANGED <<task, running, sharedVars, mgr, ticker, metricVars, nodes>>

\* A message of the remote: a transaction not seen before, a request that has
\* an answer (inv, getdata or getaddr), or addresses.
Report(s, kind) ==
  /\ s \in running
  /\ Post(Event(kind, AddrOf[s]))
  /\ UNCHANGED <<connVars, peers, pending, mgr, ticker, metricVars, nodes>>

-----------------------------------------------------------------------------
(* Channels.                                                               *)

\* Mutant: an unbounded channel.
CanSendUnbounded(s) == s \in running

\* PeerHandle::send, a try_send: refused when the channel is full or when the
\* peer task has dropped it.
CanSend(s) == s \in running /\ queue[s] < Capacity

Sent(S) == [s \in Session |-> IF s \in S THEN queue[s] + 1 ELSE queue[s]]

\* run_discovery_cycle: some of the peers (at most 10) are asked for addresses,
\* and the unreachable nodes not seen for a week are deleted.
Probe(S) ==
  /\ EnableDiscovery
  /\ S \subseteq peers
  /\ queue' = Sent({s \in S : CanSend(s)})
  /\ \E old \in SUBSET DOMAIN nodes : nodes' = PruneOld(nodes, old)
  /\ UNCHANGED <<task, running, sharedVars, mgr, ticker, metricVars>>

-----------------------------------------------------------------------------
(* The event loop.                                                         *)

Receive(kind) ==
  /\ mgr.pc = "recv"
  /\ events # << >>
  /\ Head(events).kind = kind
  /\ events' = Tail(events)

\* peers.retain: drop the handles of some addresses.
Retain(addrs) == {s \in peers : AddrOf[s] \notin addrs}

HandleConnected ==
  /\ Receive("Connected")
  /\ mgr' = [mgr EXCEPT !.pc = "counts"]
  /\ UNCHANGED <<connVars, peers, pending, ticker, metricVars, nodes>>

\* Mutant: the handle stays.
HandleDisconnectedKeep ==
  /\ Receive("Disconnected")
  /\ mgr' = [mgr EXCEPT !.pc = "disconnected", !.addr = {Head(events).addr}]
  /\ UNCHANGED <<connVars, peers, pending, ticker, metricVars, nodes>>

HandleDisconnected ==
  /\ Receive("Disconnected")
  /\ peers' = Retain({Head(events).addr})
  /\ mgr' = [mgr EXCEPT !.pc = "disconnected", !.addr = {Head(events).addr}]
  /\ UNCHANGED <<connVars, pending, ticker, metricVars, nodes>>

FinishDisconnected ==
  /\ mgr.pc = "disconnected"
  /\ balance' = balance - 1
  /\ \E addr \in mgr.addr : nodes' = MarkFailed(nodes, addr)
  /\ mgr' = [IdleManager EXCEPT !.pc = "counts"]
  /\ UNCHANGED <<connVars, sharedVars, ticker, gauge>>

\* Message::Tx, a new transaction: relay_inv takes a snapshot of the handles.
HandleTx ==
  /\ Receive("Tx")
  /\ mgr' = [mgr EXCEPT !.pc = "relay", !.addr = {Head(events).addr}, !.targets = peers]
  /\ UNCHANGED <<connVars, peers, pending, ticker, metricVars, nodes>>

\* One handle of the snapshot: not the sender's, not a Knots node's.
Relayed(s) == AddrOf[s] \notin mgr.addr /\ TypeOf[s] # "knots"

RelayTo(s) ==
  /\ mgr.pc = "relay" /\ s \in mgr.targets
  /\ LET refused == Relayed(s) /\ ~CanSend(s)
     IN  /\ queue' = Sent({r \in {s} : Relayed(r) /\ CanSend(r)})
         /\ mgr' = [mgr EXCEPT !.targets = @ \ {s},
                               !.stale = IF refused THEN @ \cup {AddrOf[s]} ELSE @]
  /\ UNCHANGED <<task, running, sharedVars, ticker, metricVars, nodes>>

RelayEnd ==
  /\ mgr.pc = "relay" /\ mgr.targets = {}
  /\ mgr' = IF mgr.stale = {}
            THEN IdleManager
            ELSE [IdleManager EXCEPT !.pc = "prune", !.stale = mgr.stale]
  /\ UNCHANGED <<connVars, sharedVars, ticker, metricVars, nodes>>

\* send_to_peer with a handle of that address, if there is one.
HandleRequest ==
  /\ Receive("Request")
  /\ LET addr  == Head(events).addr
         found == {s \in peers : AddrOf[s] = addr}
     IN  \/ /\ found = {}
            /\ UNCHANGED <<queue, mgr>>
         \/ \E s \in found :
              /\ queue' = Sent({r \in {s} : CanSend(r)})
              /\ mgr' = IF CanSend(s)
                        THEN mgr
                        ELSE [mgr EXCEPT !.pc = "prune", !.stale = {addr}]
  /\ UNCHANGED <<task, running, peers, pending, ticker, metricVars, nodes>>

\* Mutant: the peers are not counted again.
PruneUncounted ==
  /\ mgr.pc = "prune"
  /\ peers' = Retain(mgr.stale)
  /\ mgr' = IdleManager
  /\ UNCHANGED <<connVars, pending, events, ticker, metricVars, nodes>>

\* prune_stale_peers: it counts the peers again only if it removed one.
PruneStale ==
  /\ mgr.pc = "prune"
  /\ peers' = Retain(mgr.stale)
  /\ mgr' = [IdleManager EXCEPT !.pc = IF peers' = peers THEN "recv" ELSE "counts"]
  /\ UNCHANGED <<connVars, pending, events, ticker, metricVars, nodes>>

\* DiscoveryService::handle_new_addresses, for the public addresses received.
HandleAddresses ==
  /\ Receive("Addresses")
  /\ \E addrs \in IF EnableDiscovery THEN Gossip ELSE {{}} :
       nodes' = [a \in DOMAIN nodes \cup addrs |->
                   IF a \in addrs THEN NodeInfo("unknown", 0) ELSE nodes[a]]
  /\ UNCHANGED <<connVars, peers, pending, mgr, ticker, metricVars>>

UpdatePeerCounts ==
  /\ mgr.pc = "counts"
  /\ gauge' = Cardinality(peers)
  /\ mgr' = IdleManager
  /\ UNCHANGED <<connVars, sharedVars, ticker, balance, nodes>>

-----------------------------------------------------------------------------
Tick ==
  \/ TickCount \/ TickConnected \/ TickPending \/ TickQuery \/ TickEnd
  \/ \E s \in Session : TickDial(s)

Connect(s) ==
  \/ HandshakeOk(s) \/ HandshakeFail(s)
  \/ PushHandle(s) \/ SkipDuplicate(s)
  \/ CountConnection(s) \/ Unpend(s)

Manage ==
  \/ HandleConnected \/ HandleDisconnected \/ FinishDisconnected
  \/ HandleTx \/ RelayEnd \/ \E s \in Session : RelayTo(s)
  \/ HandleRequest \/ HandleAddresses
  \/ PruneStale \/ UpdatePeerCounts

Environment(s) ==
  \/ Accept(s) \/ Stop(s) \/ Drain(s)
  \/ \E kind \in Reports : Report(s, kind)

Next ==
  \/ Tick
  \/ Manage
  \/ \E s \in Session : Connect(s) \/ Environment(s)
  \/ \E S \in SUBSET peers : Probe(S)

(* The event loop only waits for locks, which are held for a few statements; *)
(* a connection task ends by itself or by its timeout.                       *)
Fairness == WF_vars(Manage) /\ \A s \in Session : WF_vars(Connect(s))

Spec == Init /\ [][Next]_vars /\ Fairness

-----------------------------------------------------------------------------
(* Type invariant.                                                         *)
Events == [kind : {"Connected", "Disconnected", "Tx", "Request", "Addresses"},
           addr : Addr]

TypeOK ==
  /\ task \in [Session -> {"idle", "handshake", "push", "count", "unpend"}]
  /\ running \subseteq Session
  /\ queue \in [Session -> 0..Capacity]
  /\ peers \subseteq Session
  /\ pending \subseteq Addr
  /\ events \in Seq(Events)
  /\ mgr \in [pc : {"recv", "disconnected", "relay", "prune", "counts"},
              addr : SUBSET Addr, targets : SUBSET Session, stale : SUBSET Addr]
  /\ ticker \in [pc : {"count", "connected", "pending", "query", "dial"},
                 budget : Nat, connected : SUBSET Addr, pending : SUBSET Addr,
                 todo : Seq(Addr)]
  /\ gauge \in Nat
  /\ balance \in Int
  /\ IsTable(nodes)

(* No two handles have the same address: retain and find take an address   *)
(* for a name of a handle, so a second handle would be served nothing and   *)
(* would vanish with the first (duplicate check, manager.rs:202, 315).      *)
UniqueHandles ==
  \A r, s \in peers : AddrOf[r] = AddrOf[s] => r = s

(* pending_outbound holds the addresses of the outbound connection tasks    *)
(* that have not finished, and no address is being dialled twice: with two  *)
(* dials, the first to end would lift the mark of the other; with a mark    *)
(* left behind, the address would never be dialled again.                   *)
Dialling == {s \in Outbound : task[s] # "idle"}

PendingExact ==
  /\ pending = {AddrOf[s] : s \in Dialling}
  /\ \A r, s \in Dialling : AddrOf[r] = AddrOf[s] => r = s

(* The two connection counters tell how many sessions run, up to what is    *)
(* still on its way: sessions handed over but not yet counted, and          *)
(* Disconnected events not yet handled.  A session that is dropped as a     *)
(* duplicate, or whose handle was pruned, must not unbalance them.          *)
InFlight(kind) == {i \in DOMAIN events : events[i].kind = kind}

Counting == {s \in Session : task[s] = "count"}

Accounted ==
  balance = Cardinality(running)
            + Cardinality(InFlight("Disconnected"))
            + (IF mgr.pc = "disconnected" THEN 1 ELSE 0)
            - Cardinality(Counting)

(* A handle without a peer task behind it is about to go: the Disconnected  *)
(* event that will remove it is in the channel.  Otherwise the address      *)
(* would count as connected, and be refused and never dialled, for ever.    *)
NoOrphanHandle ==
  \A s \in peers \ running :
    \E i \in InFlight("Disconnected") : events[i].addr = AddrOf[s]

(* Between two events the gauge never shows more peers than there are:      *)
(* every removal of a handle is followed by a recount before the event loop *)
(* goes on.  It may show fewer, and for good: Connected is posted before the*)
(* handle is pushed (peer.rs:225, manager.rs:323), and a push counts nothing*)
GaugeNeverOverstates == mgr.pc = "recv" => gauge <= Cardinality(peers)

(* Every connection task ends, whatever the remote does.                    *)
ConnectionTasksEnd == \A s \in Session : task[s] # "idle" ~> task[s] = "idle"

(* The handle of a session that stopped goes.                               *)
DeadHandlesRemoved ==
  \A s \in Session : (s \in peers /\ s \notin running) ~> s \notin peers

(* The lists, the events and the snapshots keep one directory: an address   *)
(* is dialled and listed once, only the event loop strikes entries, and it  *)
(* counts the handles before it strikes again.  Every dial settles and      *)
(* every count that is due is made.                                         *)
Book == INSTANCE Directory WITH
          dialling <- pending,
          listed   <- PeerAddrs,
          owed     <- mgr.pc \in {"disconnected", "counts"},
          shown    <- gauge

DirectoryKept == Book!Spec

-----------------------------------------------------------------------------
(* Promises of the documentation.                                          *)

\* Nothing is under way: every event handled, every connection task ended.
Quiescent ==
  events = << >> /\ mgr = IdleManager /\ \A s \in Session : task[s] = "idle"

(* README.org:49-51, "Forward to all except" the originating peer and Knots *)
(* nodes: every other session that runs can be reached through a handle.    *)
ForwardsToAll ==
  Quiescent => {s \in running : TypeOf[s] # "knots"} \subseteq peers
=============================================================================
