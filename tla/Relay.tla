------------------------------- MODULE Relay -------------------------------
(***************************************************************************)
(* The relay of transactions, from one remote to the others: the relay     *)
(* memory (RelayOps) in the hands of PeerManager::handle_message, with the *)
(* channels to the peers and what the remotes do with what they are sent.  *)
(*                                                                         *)
(* The sessions are there from the start; one that ends does not come back *)
(* (PeerManager has their life cycle).  A handler is one step: besides the *)
(* event loop only a peer task touches what a handler uses, by draining a  *)
(* channel or by closing it, and that may as well happen before or after.  *)
(***************************************************************************)
EXTENDS RelayOps, FiniteSets

CONSTANTS
  Peer,        \* sessions
  Knots,       \* the ones whose version says Knots
  Held,        \* [Peer -> SUBSET Tx], what a remote has to offer
  Pushers,     \* remotes that send transactions nobody asked for
  Askers,      \* remotes that send getdata
  Leavers,     \* remotes that may hang up
  Capacity,    \* OUTBOUND_QUEUE_CAPACITY
  MaxEvents    \* bound of the model: length of the event channel

ASSUME RelayPeersAssumption ==
  /\ Knots \cup Pushers \cup Askers \cup Leavers \subseteq Peer
  /\ Held \in [Peer -> SUBSET Tx]
  /\ {Capacity, MaxEvents} \subseteq Nat \ {0}

VARIABLES
  relay,       \* PeerManager.relay_state
  handles,     \* PeerManager.peers
  open,        \* the sessions whose peer task runs
  events,      \* the event channel
  out,         \* the channel of each session
  announced,   \* what each remote has announced (state of the remotes)
  told,        \* history: the txids each session was told of
  source       \* history: the senders each new transaction came from, by txid

TxidsOf == {TxidOf[tx] : tx \in Tx}

history == <<told, source>>
vars == <<relay, handles, open, events, out, announced, history>>

\* An Inventory of a transaction: Transaction and WitnessTransaction hold its
\* txid, WTx its wtxid.
Naming == {[by |-> "txid", id |-> TxidOf[tx]] : tx \in Tx}
          \cup {[by |-> "wtxid", id |-> WtxidOf[tx]] : tx \in Tx}

Named(item) ==
  {tx \in Tx : item.id = IF item.by = "txid" THEN TxidOf[tx] ELSE WtxidOf[tx]}

\* Messages with one inventory (the lists are in RelayCache), with one
\* transaction, and the Disconnected event.
Message ==
  [kind : {"inv", "getdata"}, item : Naming] \cup [kind : {"tx"}, tx : Tx]

Inv(item)     == [kind |-> "inv", item |-> item]
GetData(item) == [kind |-> "getdata", item |-> item]
TxMsg(tx)     == [kind |-> "tx", tx |-> tx]
Gone          == [kind |-> "gone"]

Init ==
  /\ relay = EmptyRelayState
  /\ handles = Peer
  /\ open = Peer
  /\ events = << >>
  /\ out = [p \in Peer |-> << >>]
  /\ announced = [p \in Peer |-> {}]
  /\ told = [p \in Peer |-> {}]
  /\ source = [t \in TxidsOf |-> {}]

-----------------------------------------------------------------------------
(* The remotes.  What one sends reaches the event channel in order.        *)

Post(p, msg) ==
  /\ Len(events) < MaxEvents
  /\ events' = Append(events, [from |-> p, msg |-> msg])

Announce(p) ==
  /\ p \in open
  /\ \E tx \in Held[p] \ announced[p] :
       /\ \E item \in {i \in Naming : tx \in Named(i)} : Post(p, Inv(item))
       /\ announced' = [announced EXCEPT ![p] = @ \cup {tx}]
  /\ UNCHANGED <<relay, handles, open, out, history>>

\* A transaction nobody asked for.
Push(p) ==
  /\ p \in open \cap Pushers
  /\ \E tx \in Held[p] : Post(p, TxMsg(tx))
  /\ UNCHANGED <<relay, handles, open, out, announced, history>>

Ask(p) ==
  /\ p \in open \cap Askers
  /\ \E item \in Naming : Post(p, GetData(item))
  /\ UNCHANGED <<relay, handles, open, out, announced, history>>

\* The remote gets the next message of its channel, and answers a getdata with
\* a transaction it holds of that name.
Deliver(p) ==
  /\ p \in open /\ out[p] # << >>
  /\ LET msg   == Head(out[p])
         asked == IF msg.kind = "getdata" THEN Held[p] \cap Named(msg.item) ELSE {}
     IN  \/ asked = {} /\ UNCHANGED events
         \/ \E tx \in asked : Post(p, TxMsg(tx))
  /\ out' = [out EXCEPT ![p] = Tail(@)]
  /\ UNCHANGED <<relay, handles, open, announced, history>>

\* The peer task ends, and with it the channel.
Leave(p) ==
  /\ p \in open \cap Leavers
  /\ Post(p, Gone)
  /\ open' = open \ {p}
  /\ out' = [out EXCEPT ![p] = << >>]
  /\ UNCHANGED <<relay, handles, announced, history>>

-----------------------------------------------------------------------------
(* The event loop.                                                         *)

\* Mutant: an unbounded channel.
CanSendUnbounded(p) == p \in open

CanSend(p) == p \in open /\ Len(out[p]) < Capacity

Receive(kind) ==
  /\ events # << >>
  /\ Head(events).msg.kind = kind
  /\ events' = Tail(events)

From == Head(events).from
Body == Head(events).msg

\* Mutant: a handle that refuses a message is passed over.
SendLossy(S, msg) ==
  /\ out' = [p \in Peer |-> IF p \in S /\ CanSend(p) THEN Append(out[p], msg) ELSE out[p]]
  /\ UNCHANGED handles

\* `msg' goes to the handles in S; prune_stale_peers takes those that refuse.
Send(S, msg) ==
  LET reached == {p \in S : CanSend(p)}
  IN  /\ out' = [p \in Peer |-> IF p \in reached THEN Append(out[p], msg) ELSE out[p]]
      /\ handles' = handles \ (S \ reached)

\* Mutant: the request is recorded before it is looked for.
HandleInvLate ==
  /\ Receive("inv")
  /\ relay' = MarkRequested(relay, {Body.item.id})
  /\ IF Unrequested(relay', {Body.item.id}) = {}
     THEN UNCHANGED <<out, handles>>
     ELSE Send(handles \cap {From}, GetData(Body.item))
  /\ UNCHANGED <<open, announced, history>>

\* Message::Inv: what mark_requested lets pass is asked for, of the announcer.
HandleInv ==
  /\ Receive("inv")
  /\ relay' = MarkRequested(relay, {Body.item.id})
  /\ IF Unrequested(relay, {Body.item.id}) = {}
     THEN UNCHANGED <<out, handles>>
     ELSE Send(handles \cap {From}, GetData(Body.item))
  /\ UNCHANGED <<open, announced, history>>

\* relay_inv sends to every handle but the sender's and those of Knots nodes.
Targets(from) == handles \ (Knots \cup {from})

\* Mutant: every transaction is relayed, new or not.
HandleTxAgain ==
  /\ Receive("tx")
  /\ relay' = AcceptTx(relay, Body.tx)
  /\ LET txid == TxidOf[Body.tx]
         inv  == Inv([by |-> "txid", id |-> txid])
     IN  /\ Send(Targets(From), inv)
         /\ told' = [p \in Peer |-> IF p \in Targets(From) /\ CanSend(p)
                                    THEN told[p] \cup {txid} ELSE told[p]]
         /\ source' = [source EXCEPT ![txid] = @ \cup {From}]
  /\ UNCHANGED <<open, announced>>

\* Message::Tx: a transaction that is new goes on to the others.
HandleTx ==
  /\ Receive("tx")
  /\ relay' = AcceptTx(relay, Body.tx)
  /\ LET txid == TxidOf[Body.tx]
         inv  == Inv([by |-> "txid", id |-> txid])
     IN  IF IsNew(relay, Body.tx)
         THEN /\ Send(Targets(From), inv)
              /\ told' = [p \in Peer |-> IF p \in Targets(From) /\ CanSend(p)
                                         THEN told[p] \cup {txid} ELSE told[p]]
              /\ source' = [source EXCEPT ![txid] = @ \cup {From}]
         ELSE UNCHANGED <<out, handles, history>>
  /\ UNCHANGED <<open, announced>>

\* Message::GetData: what is found goes to whoever asks.
Found(item) ==
  IF item.by = "txid" THEN GetTx(relay, item.id) ELSE GetTxByWtxid(relay, item.id)

HandleGetData ==
  /\ Receive("getdata")
  /\ \/ Found(Body.item) = {} /\ UNCHANGED <<out, handles>>
     \/ \E tx \in Found(Body.item) : Send(handles \cap {From}, TxMsg(tx))
  /\ UNCHANGED <<relay, open, announced, history>>

\* PeerEvent::Disconnected.
HandleGone ==
  /\ Receive("gone")
  /\ handles' = handles \ {From}
  /\ UNCHANGED <<relay, open, out, announced, history>>

\* The clock the requests are dated with.
Tick ==
  /\ relay' = Age(relay)
  /\ UNCHANGED <<handles, open, events, out, announced, history>>

-----------------------------------------------------------------------------
Handle == HandleInv \/ HandleTx \/ HandleGetData \/ HandleGone

Next ==
  \/ Handle \/ Tick
  \/ \E p \in Peer : Announce(p) \/ Push(p) \/ Ask(p) \/ Deliver(p) \/ Leave(p)

(* The event loop and the peer tasks are scheduled, and a remote answers    *)
(* what it is asked.  Nobody has to announce, push, ask or leave.           *)
Fairness == WF_vars(Handle) /\ WF_vars(Tick) /\ \A p \in Peer : WF_vars(Deliver(p))

Spec == Init /\ [][Next]_vars /\ Fairness

-----------------------------------------------------------------------------
(* Type invariant.                                                         *)
TypeOK ==
  /\ IsRelayState(relay)
  /\ handles \subseteq Peer /\ open \subseteq Peer
  /\ events \in Seq([from : Peer, msg : Message \cup {Gone}])
  /\ out \in [Peer -> Seq(Message)]
  /\ \A p \in Peer : Len(out[p]) <= Capacity
  /\ announced \in [Peer -> SUBSET Tx]
  /\ told \in [Peer -> SUBSET TxidsOf]
  /\ source \in [TxidsOf -> SUBSET Peer]

(* README.org:47-52 and manager.rs:450, for the peers that keep their       *)
(* handle: of each transaction that was accepted every such peer has been   *)
(* told, but for the one it came from and for Knots nodes, which have not.  *)
(* A peer whose channel refused the announcement loses its handle instead.  *)
ToldExactly ==
  \A t \in TxidsOf, p \in handles :
    source[t] # {} => (t \in told[p] <=> p \notin source[t] \cup Knots)

(* README.org:52, "Deduplicate via txid hash cache": while the filter is    *)
(* large enough for what is on the network, no peer is told of a            *)
(* transaction twice, by whatever route and in whatever variant it comes.   *)
Announced(p) == {i \in DOMAIN out[p] : out[p][i].kind = "inv"}

ToldOnce ==
  [][\A p \in Peer :
       Len(out'[p]) > Len(out[p]) /\ out'[p][Len(out'[p])].kind = "inv"
         => out'[p][Len(out'[p])].item.id \notin told[p]]_vars

(* An announcement of a peer that stays, when nobody leaves with a request  *)
(* unanswered, ends with the transaction in hand: the getdata reaches it,   *)
(* or another peer was asked first and answers.                             *)
AnnouncedIsFetched ==
  \A p \in Peer \ Leavers : \A tx \in Held[p] :
    tx \in announced[p] ~> TxidOf[tx] \in relay.seen_txids

-----------------------------------------------------------------------------
(* Promises of the documentation.                                          *)

(* README.org:8 and 31: Knots nodes are excluded "from receiving relayed    *)
(* data", the router "relays only to non-Knots".                            *)
KnotsGetNothing ==
  \A p \in Knots : \A i \in DOMAIN out[p] : out[p][i].kind # "tx"
=============================================================================
