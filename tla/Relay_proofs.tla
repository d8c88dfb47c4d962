---------------------------- MODULE Relay_proofs ----------------------------
(***************************************************************************)
(* Theorems about the relay from one remote to the others, for every set   *)
(* of sessions and of transactions, and every behaviour of the remotes.    *)
(***************************************************************************)
EXTENDS Relay, RelayOps_proofs

-----------------------------------------------------------------------------
(* Messages and channels.                                                  *)

Envelope == [from : Peer, msg : Message \cup {Gone}]

LEMMA MessageOK ==
  /\ \A item \in Naming : Inv(item) \in Message /\ GetData(item) \in Message
  /\ \A tx \in Tx : TxMsg(tx) \in Message
  /\ \A tx \in Tx : [by |-> "txid", id |-> TxidOf[tx]] \in Naming
BY DEF Message, Inv, GetData, TxMsg, Naming

(* What a received event carries.                                           *)
LEMMA ReceivedOK ==
  ASSUME TypeOK, NEW kind, Receive(kind)
  PROVE  /\ From \in Peer /\ events' \in Seq(Envelope)
         /\ kind \in {"inv", "getdata"} => Body \in Message /\ Body.item \in Naming
                                           /\ Body.item.id \in Id
         /\ kind = "tx" => Body.tx \in Tx
<1>1. events \in Seq(Envelope) /\ events # << >>
  BY DEF TypeOK, Receive, Envelope
<1>2. Head(events) \in Envelope /\ events' = Tail(events) /\ Tail(events) \in Seq(Envelope)
  BY <1>1 DEF Receive
<1>3. From \in Peer /\ Body \in Message \cup {Gone} /\ Body.kind = kind
  BY <1>2 DEF Envelope, From, Body, Receive
<1>4. \A item \in Naming : item.id \in Id
  BY RelayAssumption DEF Naming
<1> HIDE DEF From, Body
<1>5. kind \in {"inv", "getdata"} => Body \in Message /\ Body.item \in Naming
  BY <1>3 DEF Message, Gone
<1>6. kind = "tx" => Body.tx \in Tx
  BY <1>3 DEF Message, Gone
<1> QED
  BY <1>2, <1>3, <1>4, <1>5, <1>6

(* A message is put at the end of the event channel.                        *)
LEMMA PostOK ==
  ASSUME TypeOK, NEW p \in Peer, NEW msg \in Message \cup {Gone}, Post(p, msg)
  PROVE  events' \in Seq(Envelope)
<1>1. [from |-> p, msg |-> msg] \in Envelope /\ events \in Seq(Envelope)
  BY DEF Envelope, TypeOK
<1> QED
  BY <1>1 DEF Post

(* A message that is sent: the channels with room get it at their end, the  *)
(* handles of the others go.                                                *)
LEMMA SendOK ==
  ASSUME TypeOK, NEW S \in SUBSET Peer, NEW msg \in Message, Send(S, msg)
  PROVE  /\ out' \in [Peer -> Seq(Message)]
         /\ \A p \in Peer : Len(out'[p]) <= Capacity
         /\ handles' \subseteq handles
         /\ \A p \in handles' : p \in S => CanSend(p)
         /\ \A p \in Peer : \/ out'[p] = out[p]
                            \/ /\ Len(out'[p]) = Len(out[p]) + 1
                               /\ out'[p][Len(out'[p])] = msg
<1>1. ASSUME NEW p \in Peer
      PROVE  /\ out'[p] \in Seq(Message) /\ Len(out'[p]) <= Capacity
             /\ \/ out'[p] = out[p]
                \/ /\ Len(out'[p]) = Len(out[p]) + 1
                   /\ out'[p][Len(out'[p])] = msg
  <2>1. out[p] \in Seq(Message) /\ Len(out[p]) \in Nat /\ Len(out[p]) <= Capacity
        /\ Capacity \in Nat
    BY RelayPeersAssumption DEF TypeOK
  <2>2. CASE p \in S /\ CanSend(p)
    <3>1. out'[p] = Append(out[p], msg) /\ Len(out[p]) < Capacity
      BY <2>2 DEF Send, CanSend
    <3>2. /\ Append(out[p], msg) \in Seq(Message)
          /\ Len(Append(out[p], msg)) = Len(out[p]) + 1
          /\ Append(out[p], msg)[Len(out[p]) + 1] = msg
      BY <2>1
    <3> QED
      BY <2>1, <3>1, <3>2
  <2>3. CASE ~(p \in S /\ CanSend(p))
    BY <2>1, <2>3 DEF Send
  <2> QED
    BY <2>2, <2>3
<1>2. out' \in [Peer -> Seq(Message)]
  BY <1>1 DEF Send
<1>3. handles' \subseteq handles /\ \A p \in handles' : p \in S => CanSend(p)
  BY DEF Send
<1> QED
  BY <1>1, <1>2, <1>3

-----------------------------------------------------------------------------
(* Type correctness.                                                       *)

(* The memory is consistent besides.                                        *)
LEMMA TypeAndMemory == Spec => [](TypeOK /\ Consistent(relay))
<1>1. Init => TypeOK /\ Consistent(relay)
  BY EmptyOK, RelayPeersAssumption DEF Init, TypeOK, Consistent
<1>2. TypeOK /\ Consistent(relay) /\ [Next]_vars => (TypeOK /\ Consistent(relay))'
  <2> SUFFICES ASSUME TypeOK, Consistent(relay), [Next]_vars
               PROVE  TypeOK' /\ Consistent(relay')
    OBVIOUS
  <2> USE DEF history, Envelope
  <2>1. CASE HandleInv
    <3>1. From \in Peer /\ events' \in Seq(Envelope) /\ Body.item \in Naming /\ Body.item.id \in Id
      BY <2>1, ReceivedOK DEF HandleInv
    <3>2. Consistent(relay')
      BY <2>1, <3>1, HandleInvOK DEF HandleInv
    <3>3. /\ out' \in [Peer -> Seq(Message)] /\ handles' \subseteq Peer
          /\ \A p \in Peer : Len(out'[p]) <= Capacity
      <4>1. CASE UNCHANGED <<out, handles>>
        BY <4>1 DEF TypeOK
      <4>2. CASE Send(handles \cap {From}, GetData(Body.item))
        BY <3>1, <4>2, SendOK, MessageOK DEF TypeOK
      <4> QED
        BY <2>1, <4>1, <4>2 DEF HandleInv
    <3> QED
      BY <2>1, <3>1, <3>2, <3>3 DEF HandleInv, TypeOK, Consistent
  <2>2. CASE HandleTx
    <3>1. From \in Peer /\ events' \in Seq(Envelope) /\ Body.tx \in Tx
      BY <2>2, ReceivedOK DEF HandleTx
    <3>2. Consistent(relay')
      BY <2>2, <3>1, HandleTxOK DEF HandleTx
    <3> DEFINE txid == TxidOf[Body.tx]
               inv  == Inv([by |-> "txid", id |-> txid])
    <3>3. txid \in TxidsOf /\ inv \in Message
      BY <3>1, MessageOK DEF TxidsOf
    <3>4. /\ out' \in [Peer -> Seq(Message)] /\ handles' \subseteq Peer
          /\ \A p \in Peer : Len(out'[p]) <= Capacity
          /\ told' \in [Peer -> SUBSET TxidsOf] /\ source' \in [TxidsOf -> SUBSET Peer]
      <4>1. CASE UNCHANGED <<out, handles, history>>
        BY <4>1 DEF TypeOK
      <4>2. CASE /\ Send(Targets(From), inv)
                 /\ told' = [p \in Peer |-> IF p \in Targets(From) /\ CanSend(p)
                                            THEN told[p] \cup {txid} ELSE told[p]]
                 /\ source' = [source EXCEPT ![txid] = @ \cup {From}]
        <5> HIDE DEF txid, inv
        <5>1. Targets(From) \in SUBSET Peer
          BY DEF Targets, TypeOK
        <5>2. /\ out' \in [Peer -> Seq(Message)] /\ handles' \subseteq handles
              /\ \A p \in Peer : Len(out'[p]) <= Capacity
          BY <3>3, <4>2, <5>1, SendOK
        <5>3. told' \in [Peer -> SUBSET TxidsOf]
          BY <3>3, <4>2 DEF TypeOK
        <5>4. source' \in [TxidsOf -> SUBSET Peer]
          BY <3>1, <3>3, <4>2 DEF TypeOK
        <5> QED
          BY <5>2, <5>3, <5>4 DEF TypeOK
      <4> QED
        BY <2>2, <4>1, <4>2 DEF HandleTx
    <3> QED
      BY <2>2, <3>1, <3>2, <3>4 DEF HandleTx, TypeOK, Consistent
  <2>3. CASE HandleGetData
    <3>1. From \in Peer /\ events' \in Seq(Envelope) /\ Body.item \in Naming
      BY <2>3, ReceivedOK DEF HandleGetData
    <3>2. /\ out' \in [Peer -> Seq(Message)] /\ handles' \subseteq Peer
          /\ \A p \in Peer : Len(out'[p]) <= Capacity
      <4>1. CASE UNCHANGED <<out, handles>>
        BY <4>1 DEF TypeOK
      <4>2. ASSUME NEW tx \in Found(Body.item), Send(handles \cap {From}, TxMsg(tx))
            PROVE  /\ out' \in [Peer -> Seq(Message)] /\ handles' \subseteq Peer
                   /\ \A p \in Peer : Len(out'[p]) <= Capacity
        <5>1. tx \in Tx
          BY <4>2 DEF Found, GetTx, GetTxByWtxid, Consistent, IsRelayState, IsHashMap
        <5> QED
          BY <4>2, <5>1, SendOK, MessageOK DEF TypeOK
      <4> QED
        BY <2>3, <4>1, <4>2 DEF HandleGetData
    <3> QED
      BY <2>3, <3>1, <3>2 DEF HandleGetData, TypeOK
  <2>4. CASE HandleGone
    <3>1. events' \in Seq(Envelope)
      BY <2>4, ReceivedOK DEF HandleGone
    <3> QED
      BY <2>4, <3>1 DEF HandleGone, TypeOK
  <2>5. CASE Tick
    <3>1. Consistent(relay')
      BY <2>5, AgeOK DEF Tick
    <3> QED
      BY <2>5, <3>1 DEF Tick, TypeOK, Consistent
  <2>6. ASSUME NEW p \in Peer, Announce(p) PROVE TypeOK' /\ Consistent(relay')
    <3>1. PICK tx \in Held[p], item \in Naming :
            /\ Post(p, Inv(item))
            /\ announced' = [announced EXCEPT ![p] = @ \cup {tx}]
      BY <2>6 DEF Announce
    <3>2. tx \in Tx /\ events' \in Seq(Envelope)
      BY <3>1, PostOK, MessageOK, RelayPeersAssumption
    <3> QED
      BY <2>6, <3>1, <3>2 DEF Announce, TypeOK
  <2>7. ASSUME NEW p \in Peer, Push(p) PROVE TypeOK' /\ Consistent(relay')
    <3>1. PICK tx \in Held[p] : Post(p, TxMsg(tx))
      BY <2>7 DEF Push
    <3>2. events' \in Seq(Envelope)
      BY <3>1, PostOK, MessageOK, RelayPeersAssumption
    <3> QED
      BY <2>7, <3>2 DEF Push, TypeOK
  <2>8. ASSUME NEW p \in Peer, Ask(p) PROVE TypeOK' /\ Consistent(relay')
    <3>1. PICK item \in Naming : Post(p, GetData(item))
      BY <2>8 DEF Ask
    <3>2. events' \in Seq(Envelope)
      BY <3>1, PostOK, MessageOK
    <3> QED
      BY <2>8, <3>2 DEF Ask, TypeOK
  <2>9. ASSUME NEW p \in Peer, Deliver(p) PROVE TypeOK' /\ Consistent(relay')
    <3>1. events' \in Seq(Envelope)
      <4>1. CASE UNCHANGED events
        BY <4>1 DEF TypeOK
      <4>2. ASSUME NEW tx \in Held[p], Post(p, TxMsg(tx)) PROVE events' \in Seq(Envelope)
        BY <4>2, PostOK, MessageOK, RelayPeersAssumption
      <4> QED
        BY <2>9, <4>1, <4>2 DEF Deliver
    <3>2. /\ out[p] \in Seq(Message) /\ out[p] # << >> /\ Len(out[p]) <= Capacity
          /\ Capacity \in Nat
      BY <2>9, RelayPeersAssumption DEF Deliver, TypeOK
    <3>3. Tail(out[p]) \in Seq(Message) /\ Len(Tail(out[p])) <= Capacity
      BY <3>2
    <3>4. out' \in [Peer -> Seq(Message)] /\ \A q \in Peer : Len(out'[q]) <= Capacity
      BY <2>9, <3>3 DEF Deliver, TypeOK
    <3> QED
      BY <2>9, <3>1, <3>4 DEF Deliver, TypeOK
  <2>10. ASSUME NEW p \in Peer, Leave(p) PROVE TypeOK' /\ Consistent(relay')
    <3>1. events' \in Seq(Envelope)
      BY <2>10, PostOK DEF Leave
    <3>2. << >> \in Seq(Message) /\ Len(<< >>) <= Capacity
      BY RelayPeersAssumption
    <3>3. out' \in [Peer -> Seq(Message)] /\ \A q \in Peer : Len(out'[q]) <= Capacity
      BY <2>10, <3>2 DEF Leave, TypeOK
    <3> QED
      BY <2>10, <3>1, <3>3 DEF Leave, TypeOK
  <2>11. CASE UNCHANGED vars
    BY <2>11 DEF vars, TypeOK
  <2> QED
    BY <2>1, <2>2, <2>3, <2>4, <2>5, <2>6, <2>7, <2>8, <2>9, <2>10, <2>11 DEF Next, Handle
<1> QED
  BY <1>1, <1>2, PTL DEF Spec

(* Every message in a channel is one the code sends, no channel holds more  *)
(* than its capacity, and the memory has its types.                         *)
THEOREM TypeCorrect == Spec => []TypeOK
<1>1. TypeOK /\ Consistent(relay) => TypeOK
  OBVIOUS
<1> QED
  BY <1>1, TypeAndMemory, PTL

-----------------------------------------------------------------------------
(* The filter while it is large enough.                                    *)

(* There are no more hashes on the network than the filter holds.           *)
RoomyFilter == IsFiniteSet(Id) /\ Cardinality(Id) <= SeenLimit

(* A roomy filter forgets nothing when it takes a hash.                     *)
LEMMA MarkSeenKeeps ==
  ASSUME RoomyFilter, NEW rs, IsRelayState(rs), SeenIndex(rs), NEW key \in Id
  PROVE  rs.seen_txids \cup {key} \subseteq MarkSeen(rs, key).seen_txids
<1> DEFINE order == Append(rs.seen_order, key)
<1>1. CASE key \in rs.seen_txids
  BY <1>1 DEF MarkSeen
<1>2. CASE key \notin rs.seen_txids
  <2>1. rs.seen_order \in Seq(Id) /\ IsInjective(rs.seen_order) /\ key \notin Range(rs.seen_order)
    BY <1>2 DEF IsRelayState, SeenIndex
  <2>2. order \in Seq(Id) /\ IsInjective(order)
    BY <2>1, AppendNew
  <2> HIDE DEF order
  <2>3. IsFiniteSet(Range(order)) /\ Cardinality(Range(order)) = Len(order)
    BY <2>2, QueueCardinality
  <2>4. Range(order) \in SUBSET Id
    BY <2>2 DEF Range
  <2>5. Cardinality(Range(order)) <= Cardinality(Id) /\ Cardinality(Id) \in Nat
    BY <2>4, FS_Subset, FS_CardinalityType DEF RoomyFilter
  <2>6. Len(order) <= SeenLimit
    BY <2>2, <2>3, <2>5, RelayAssumption DEF RoomyFilter
  <2>7. Popped(order, SeenLimit) = {}
    BY <2>2, <2>6, NewestLength, RelayAssumption
  <2>8. MarkSeen(rs, key).seen_txids = rs.seen_txids \cup {key}
    BY <1>2, <2>7 DEF MarkSeen, IsRelayState, order
  <2> QED
    BY <2>8
<1> QED
  BY <1>1, <1>2

(* Nor when it takes the two hashes of a transaction, whose requests go.    *)
LEMMA AcceptTxKeeps ==
  ASSUME RoomyFilter, NEW rs, Consistent(rs), NEW tx \in Tx
  PROVE  LET r == AcceptTx(rs, tx)
         IN  /\ r.seen_txids = rs.seen_txids \cup {TxidOf[tx], WtxidOf[tx]}
             /\ DOMAIN r.requested_txids
                  = DOMAIN rs.requested_txids \ {TxidOf[tx], WtxidOf[tx]}
<1> DEFINE txid  == TxidOf[tx]
           wtxid == WtxidOf[tx]
           a == CompleteRequest(rs, txid)
           b == CompleteRequest(a, wtxid)
           c == MarkSeen(b, txid)
           d == MarkSeen(c, wtxid)
           e == InsertTx(d, tx)
           left == DOMAIN rs.requested_txids \ {txid, wtxid}
<1>1. txid \in Id /\ wtxid \in Id
  BY RelayAssumption
<1>2. AcceptTx(rs, tx) = IF IsNew(rs, tx) THEN e ELSE d
  BY DEF AcceptTx
<1>3. IsRelayState(rs) /\ SeenIndex(rs) /\ OrderIndex(rs) /\ WtxidIndex(rs)
  BY DEF Consistent
<1> HIDE DEF txid, wtxid
<1>4. /\ IsRelayState(a)
      /\ a.seen_txids = rs.seen_txids /\ a.seen_order = rs.seen_order
      /\ a.tx_cache = rs.tx_cache /\ a.tx_by_wtxid = rs.tx_by_wtxid
      /\ a.tx_cache_order = rs.tx_cache_order
      /\ DOMAIN a.requested_txids = DOMAIN rs.requested_txids \ {txid}
  BY <1>3, CompleteRequestOK
<1> HIDE DEF a
<1>5. /\ IsRelayState(b)
      /\ b.seen_txids = rs.seen_txids /\ b.seen_order = rs.seen_order
      /\ b.tx_cache = rs.tx_cache /\ b.tx_by_wtxid = rs.tx_by_wtxid
      /\ b.tx_cache_order = rs.tx_cache_order
      /\ DOMAIN b.requested_txids = left
  BY <1>4, CompleteRequestOK
<1> HIDE DEF b, left
<1>6. SeenIndex(b)
  BY <1>3, <1>5 DEF SeenIndex
<1>7. /\ IsRelayState(c) /\ SeenIndex(c)
      /\ c.tx_cache = rs.tx_cache /\ c.tx_by_wtxid = rs.tx_by_wtxid
      /\ c.tx_cache_order = rs.tx_cache_order
      /\ c.seen_txids = rs.seen_txids \cup {txid}
      /\ DOMAIN c.requested_txids = left
  <2>1. b.seen_txids \cup {txid} \subseteq c.seen_txids
    BY <1>1, <1>5, <1>6, MarkSeenKeeps
  <2> QED
    BY <1>1, <1>5, <1>6, <2>1, MarkSeenOK
<1> HIDE DEF c
<1>8. /\ IsRelayState(d)
      /\ d.tx_cache = rs.tx_cache /\ d.tx_by_wtxid = rs.tx_by_wtxid
      /\ d.tx_cache_order = rs.tx_cache_order
      /\ d.seen_txids = rs.seen_txids \cup {txid, wtxid}
      /\ DOMAIN d.requested_txids = left
  <2>1. c.seen_txids \cup {wtxid} \subseteq d.seen_txids
    BY <1>1, <1>7, MarkSeenKeeps
  <2> QED
    BY <1>1, <1>7, <2>1, MarkSeenOK
<1> HIDE DEF d
<1>9. e.seen_txids = d.seen_txids /\ e.requested_txids = d.requested_txids
  <2>1. OrderIndex(d) /\ WtxidIndex(d)
    BY <1>3, <1>8 DEF OrderIndex, WtxidIndex
  <2> QED
    BY <1>8, <2>1, InsertTxOK
<1> HIDE DEF e
<1> QED
  BY <1>2, <1>8, <1>9 DEF txid, wtxid, left

-----------------------------------------------------------------------------
(* Who is told of what.                                                    *)

(* An accepted transaction is in the filter, and nobody has been told of    *)
(* another.                                                                 *)
SourceInv ==
  /\ \A t \in TxidsOf : source[t] # {} => t \in relay.seen_txids
  /\ \A p \in Peer : \A t \in told[p] : source[t] # {}

(* What a transaction does to the history: nothing when it is not new, and  *)
(* otherwise it is told to the targets with room, the others losing their   *)
(* handles.                                                                 *)
LEMMA TxTold ==
  ASSUME TypeOK, HandleTx
  PROVE  /\ From \in Peer /\ Body.tx \in Tx
         /\ \/ UNCHANGED <<out, handles, told, source>>
            \/ LET txid == TxidOf[Body.tx]
               IN  /\ txid \in TxidsOf /\ txid \notin relay.seen_txids
                   /\ handles' \subseteq handles
                   /\ \A p \in handles' :
                        p \notin Knots \cup {From} => p \in Targets(From) /\ CanSend(p)
                   /\ told' = [p \in Peer |-> IF p \in Targets(From) /\ CanSend(p)
                                              THEN told[p] \cup {txid} ELSE told[p]]
                   /\ source' = [source EXCEPT ![txid] = @ \cup {From}]
                   /\ \A p \in Peer : \/ out'[p] = out[p]
                                      \/ out'[p][Len(out'[p])].item.id = txid
<1>1. From \in Peer /\ Body.tx \in Tx
  BY ReceivedOK DEF HandleTx
<1> DEFINE txid == TxidOf[Body.tx]
           item == [by |-> "txid", id |-> txid]
<1>2. CASE IsNew(relay, Body.tx)
  <2>1. /\ txid \in TxidsOf /\ txid \notin relay.seen_txids
        /\ Inv(item) \in Message /\ Inv(item).item.id = txid
    BY <1>1, <1>2, MessageOK DEF TxidsOf, IsNew, Inv
  <2>2. /\ Send(Targets(From), Inv(item))
        /\ told' = [p \in Peer |-> IF p \in Targets(From) /\ CanSend(p)
                                   THEN told[p] \cup {txid} ELSE told[p]]
        /\ source' = [source EXCEPT ![txid] = @ \cup {From}]
    BY <1>2 DEF HandleTx
  <2>3. Targets(From) \in SUBSET Peer
    BY DEF Targets, TypeOK
  <2> HIDE DEF txid, item
  <2>4. /\ handles' \subseteq handles
        /\ \A p \in handles' : p \in Targets(From) => CanSend(p)
        /\ \A p \in Peer : \/ out'[p] = out[p]
                           \/ out'[p][Len(out'[p])] = Inv(item)
    BY <2>1, <2>2, <2>3, SendOK
  <2>5. \A p \in handles' :
          p \notin Knots \cup {From} => p \in Targets(From) /\ CanSend(p)
    BY <2>4 DEF Targets
  <2>6. \A p \in Peer : \/ out'[p] = out[p]
                        \/ out'[p][Len(out'[p])].item.id = txid
    BY <2>1, <2>4
  <2> QED
    BY <1>1, <2>1, <2>2, <2>4, <2>5, <2>6 DEF txid
<1>3. CASE ~IsNew(relay, Body.tx)
  BY <1>1, <1>3 DEF HandleTx, history
<1> QED
  BY <1>2, <1>3

(* The steps but HandleTx: the history stays, no handle is added, no hash   *)
(* leaves the filter, and what is put into a channel is no announcement.    *)
LEMMA OtherSteps ==
  ASSUME TypeOK, Consistent(relay), [Next]_vars, ~HandleTx
  PROVE  /\ UNCHANGED <<told, source>>
         /\ handles' \subseteq handles
         /\ relay'.seen_txids = relay.seen_txids
         /\ \A p \in Peer : \/ ~(Len(out'[p]) > Len(out[p]))
                            \/ out'[p][Len(out'[p])].kind # "inv"
<1> USE DEF history
<1>1. \A p \in Peer : Len(out[p]) \in Nat
  BY DEF TypeOK
<1>2. CASE HandleInv
  <2>1. From \in Peer /\ Body.item \in Naming /\ Body.item.id \in Id
    BY <1>2, ReceivedOK DEF HandleInv
  <2>2. relay'.seen_txids = relay.seen_txids
    BY <1>2, <2>1, MarkRequestedOK DEF HandleInv, Consistent
  <2>3. CASE Send(handles \cap {From}, GetData(Body.item))
    <3>1. /\ handles' \subseteq handles
          /\ \A p \in Peer : out'[p] = out[p] \/ out'[p][Len(out'[p])] = GetData(Body.item)
      BY <2>1, <2>3, SendOK, MessageOK DEF TypeOK
    <3>2. GetData(Body.item).kind # "inv"
      BY DEF GetData
    <3> QED
      BY <1>1, <1>2, <2>2, <3>1, <3>2 DEF HandleInv
  <2>4. CASE UNCHANGED <<out, handles>>
    BY <1>1, <1>2, <2>2, <2>4 DEF HandleInv
  <2> QED
    BY <1>2, <2>3, <2>4 DEF HandleInv
<1>3. CASE HandleGetData
  <2>1. From \in Peer /\ Body.item \in Naming
    BY <1>3, ReceivedOK DEF HandleGetData
  <2>2. ASSUME NEW tx \in Found(Body.item), Send(handles \cap {From}, TxMsg(tx))
        PROVE  /\ handles' \subseteq handles
               /\ \A p \in Peer : \/ ~(Len(out'[p]) > Len(out[p]))
                                  \/ out'[p][Len(out'[p])].kind # "inv"
    <3>1. tx \in Tx
      BY <2>2 DEF Found, GetTx, GetTxByWtxid, Consistent, IsRelayState, IsHashMap
    <3>2. /\ handles' \subseteq handles
          /\ \A p \in Peer : out'[p] = out[p] \/ out'[p][Len(out'[p])] = TxMsg(tx)
      BY <2>1, <2>2, <3>1, SendOK, MessageOK DEF TypeOK
    <3>3. TxMsg(tx).kind # "inv"
      BY DEF TxMsg
    <3> QED
      BY <1>1, <3>2, <3>3
  <2>3. CASE UNCHANGED <<out, handles>>
    BY <1>1, <1>3, <2>3 DEF HandleGetData
  <2> QED
    BY <1>3, <2>2, <2>3 DEF HandleGetData
<1>4. CASE HandleGone
  BY <1>1, <1>4 DEF HandleGone
<1>5. CASE Tick
  <2>1. relay'.seen_txids = relay.seen_txids
    BY <1>5 DEF Tick, Age, Consistent, IsRelayState
  <2> QED
    BY <1>1, <1>5, <2>1 DEF Tick
<1>6. ASSUME NEW p \in Peer, Announce(p) \/ Push(p) \/ Ask(p)
      PROVE  UNCHANGED <<told, source, handles, relay, out>>
  BY <1>6 DEF Announce, Push, Ask
<1>7. ASSUME NEW p \in Peer, Deliver(p) \/ Leave(p)
      PROVE  /\ UNCHANGED <<told, source, handles, relay>>
             /\ \A q \in Peer : ~(Len(out'[q]) > Len(out[q]))
  <2>1. UNCHANGED <<told, source, handles, relay>>
    BY <1>7 DEF Deliver, Leave
  <2>2. ASSUME NEW q \in Peer PROVE ~(Len(out'[q]) > Len(out[q]))
    <3>1. out[q] \in Seq(Message) /\ Len(out[q]) \in Nat
      BY DEF TypeOK
    <3>2. CASE out'[q] = out[q]
      BY <3>1, <3>2
    <3>3. CASE out'[q] = << >>
      BY <3>1, <3>3
    <3>4. CASE out[q] # << >> /\ out'[q] = Tail(out[q])
      BY <3>1, <3>4
    <3> QED
      BY <1>7, <3>2, <3>3, <3>4 DEF Deliver, Leave, TypeOK
  <2> QED
    BY <2>1, <2>2
<1>8. CASE UNCHANGED vars
  BY <1>1, <1>8 DEF vars
<1> QED
  BY <1>1, <1>2, <1>3, <1>4, <1>5, <1>6, <1>7, <1>8 DEF Next, Handle

(* With a roomy filter, what was accepted stays in it.                      *)
LEMMA SourcesKept == ASSUME RoomyFilter PROVE Spec => []SourceInv
<1>1. Init => SourceInv
  BY DEF Init, SourceInv
<1>2. TypeOK /\ Consistent(relay) /\ SourceInv /\ [Next]_vars => SourceInv'
  <2> SUFFICES ASSUME TypeOK, Consistent(relay), SourceInv, [Next]_vars PROVE SourceInv'
    OBVIOUS
  <2>1. CASE HandleTx
    <3>1. From \in Peer /\ Body.tx \in Tx
      BY <2>1, TxTold
    <3> DEFINE txid == TxidOf[Body.tx]
    <3>2. relay.seen_txids \cup {txid} \subseteq relay'.seen_txids
      BY <2>1, <3>1, AcceptTxKeeps DEF HandleTx
    <3>3. CASE UNCHANGED <<told, source>>
      BY <3>2, <3>3 DEF SourceInv
    <3>4. CASE /\ txid \in TxidsOf
               /\ told' = [p \in Peer |-> IF p \in Targets(From) /\ CanSend(p)
                                          THEN told[p] \cup {txid} ELSE told[p]]
               /\ source' = [source EXCEPT ![txid] = @ \cup {From}]
      <4> HIDE DEF txid
      <4>1. /\ source'[txid] # {}
            /\ \A t \in TxidsOf : t # txid => source'[t] = source[t]
        BY <3>4 DEF TypeOK
      <4>2. \A p \in Peer : told'[p] \subseteq told[p] \cup {txid} /\ told[p] \subseteq TxidsOf
        BY <3>4 DEF TypeOK
      <4> QED
        BY <3>2, <4>1, <4>2 DEF SourceInv
    <3> QED
      BY <2>1, <3>3, <3>4, TxTold
  <2>2. CASE ~HandleTx
    BY <2>2, OtherSteps DEF SourceInv
  <2> QED
    BY <2>1, <2>2
<1> QED
  BY <1>1, <1>2, TypeAndMemory, PTL DEF Spec

(* Every peer that keeps its handle is told of every accepted transaction,  *)
(* but for its sender and the Knots nodes, who are not told.                *)
THEOREM TellsExactly == ASSUME RoomyFilter PROVE Spec => []ToldExactly
<1>1. Init => ToldExactly
  BY DEF Init, ToldExactly
<1>2. TypeOK /\ Consistent(relay) /\ SourceInv /\ ToldExactly /\ [Next]_vars => ToldExactly'
  <2> SUFFICES ASSUME TypeOK, Consistent(relay), SourceInv, ToldExactly, [Next]_vars
               PROVE  ToldExactly'
    OBVIOUS
  <2>1. CASE HandleTx
    <3> DEFINE txid == TxidOf[Body.tx]
    <3>1. CASE UNCHANGED <<out, handles, told, source>>
      BY <3>1 DEF ToldExactly
    <3>2. CASE /\ txid \in TxidsOf /\ txid \notin relay.seen_txids
               /\ handles' \subseteq handles
               /\ \A p \in handles' :
                    p \notin Knots \cup {From} => p \in Targets(From) /\ CanSend(p)
               /\ told' = [p \in Peer |-> IF p \in Targets(From) /\ CanSend(p)
                                          THEN told[p] \cup {txid} ELSE told[p]]
               /\ source' = [source EXCEPT ![txid] = @ \cup {From}]
      <4> HIDE DEF txid
      <4> SUFFICES ASSUME NEW t \in TxidsOf, NEW p \in handles', source'[t] # {}
                   PROVE  t \in told'[p] <=> p \notin source'[t] \cup Knots
        BY DEF ToldExactly
      <4>1. p \in handles /\ p \in Peer
        BY <3>2 DEF TypeOK
      <4>2. CASE t # txid
        BY <3>2, <4>1, <4>2 DEF ToldExactly, TypeOK
      <4>3. CASE t = txid
        <5>1. source[t] = {} /\ t \notin told[p]
          BY <3>2, <4>1, <4>3 DEF SourceInv
        <5>2. source'[t] = {From}
          BY <3>2, <4>3, <5>1 DEF TypeOK
        <5>3. t \in told'[p] <=> p \in Targets(From) /\ CanSend(p)
          BY <3>2, <4>1, <4>3, <5>1
        <5>4. p \in Targets(From) => p \notin Knots \cup {From}
          BY DEF Targets
        <5> QED
          BY <3>2, <5>2, <5>3, <5>4
      <4> QED
        BY <4>2, <4>3
    <3> QED
      BY <2>1, <3>1, <3>2, TxTold
  <2>2. CASE ~HandleTx
    BY <2>2, OtherSteps DEF ToldExactly
  <2> QED
    BY <2>1, <2>2
<1> QED
  BY <1>1, <1>2, TypeAndMemory, SourcesKept, PTL DEF Spec

(* No peer is told of a transaction twice, by whatever route it comes.      *)
THEOREM TellsOnce == ASSUME RoomyFilter PROVE Spec => ToldOnce
<1> DEFINE Once ==
      \A p \in Peer :
        Len(out'[p]) > Len(out[p]) /\ out'[p][Len(out'[p])].kind = "inv"
          => out'[p][Len(out'[p])].item.id \notin told[p]
<1>1. TypeOK /\ Consistent(relay) /\ SourceInv /\ [Next]_vars => Once
  <2> SUFFICES ASSUME TypeOK, Consistent(relay), SourceInv, [Next]_vars PROVE Once
    OBVIOUS
  <2>1. CASE HandleTx
    <3>1. \A p \in Peer : Len(out[p]) \in Nat /\ told[p] \subseteq TxidsOf
      BY DEF TypeOK
    <3>2. CASE UNCHANGED out
      BY <3>1, <3>2
    <3>3. CASE /\ TxidOf[Body.tx] \notin relay.seen_txids
               /\ \A p \in Peer : \/ out'[p] = out[p]
                                  \/ out'[p][Len(out'[p])].item.id = TxidOf[Body.tx]
      BY <3>1, <3>3 DEF SourceInv
    <3> QED
      BY <2>1, <3>2, <3>3, TxTold
  <2>2. CASE ~HandleTx
    BY <2>2, OtherSteps
  <2> QED
    BY <2>1, <2>2
<1> QED
  BY <1>1, TypeAndMemory, SourcesKept, PTL DEF Spec, ToldOnce

-----------------------------------------------------------------------------
(* The memory in the hands of the event loop is the memory of RelayCache:  *)
(* whatever the remotes do, what reaches it are inv messages, transactions *)
(* and time.  So what is proved of it there holds here.                    *)
Cache == INSTANCE RelayCache_proofs WITH Announcements <- SUBSET Id

(* The operators of RelayOps that the instance brings are those of Relay.   *)
LEMMA SameParts ==
  /\ Cache!EmptyRelayState = EmptyRelayState
  /\ \A order, limit : /\ Cache!Newest(order, limit) = Newest(order, limit)
                       /\ Cache!Popped(order, limit) = Popped(order, limit)
  /\ \A map, S : Cache!Restrict(map, S) = Restrict(map, S)
  /\ \A map, key, value : Cache!Insert(map, key, value) = Insert(map, key, value)
<1>1. Cache!EmptyRelayState = EmptyRelayState
  BY DEF EmptyRelayState, Cache!EmptyRelayState, EmptyMap, Cache!EmptyMap
<1>2. ASSUME NEW order, NEW limit
      PROVE  /\ Cache!Newest(order, limit) = Newest(order, limit)
             /\ Cache!Popped(order, limit) = Popped(order, limit)
  BY DEF Newest, Cache!Newest, Popped, Cache!Popped
<1>3. ASSUME NEW map, NEW S
      PROVE  Cache!Restrict(map, S) = Restrict(map, S)
  BY DEF Restrict, Cache!Restrict
<1>4. ASSUME NEW map, NEW key, NEW value
      PROVE  Cache!Insert(map, key, value) = Insert(map, key, value)
  BY DEF Insert, Cache!Insert
<1> QED
  BY <1>1, <1>2, <1>3, <1>4

LEMMA SameRequests ==
  ASSUME NEW rs
  PROVE  /\ \A keys : Cache!MarkRequested(rs, keys) = MarkRequested(rs, keys)
         /\ Cache!Age(rs) = Age(rs)
<1>1. Cache!CleanupRequested(rs) = CleanupRequested(rs)
  BY SameParts DEF CleanupRequested, Cache!CleanupRequested
<1>2. ASSUME NEW keys
      PROVE  Cache!MarkRequested(rs, keys) = MarkRequested(rs, keys)
  <2>1. Cache!Unrequested(rs, keys) = Unrequested(rs, keys)
    BY <1>1 DEF Unrequested, Cache!Unrequested
  <2> QED
    BY <1>1, <2>1 DEF MarkRequested, Cache!MarkRequested
<1>3. Cache!Age(rs) = Age(rs)
  BY DEF Age, Cache!Age
<1> QED
  BY <1>2, <1>3

LEMMA SameAcceptTx ==
  ASSUME NEW rs, NEW tx
  PROVE  Cache!AcceptTx(rs, tx) = AcceptTx(rs, tx)
<1>1. ASSUME NEW memory, NEW key
      PROVE  /\ Cache!CompleteRequest(memory, key) = CompleteRequest(memory, key)
             /\ Cache!MarkSeen(memory, key) = MarkSeen(memory, key)
  BY SameParts DEF CompleteRequest, Cache!CompleteRequest, MarkSeen, Cache!MarkSeen
<1>2. ASSUME NEW memory
      PROVE  Cache!InsertTx(memory, tx) = InsertTx(memory, tx)
  BY SameParts DEF InsertTx, Cache!InsertTx
<1> QED
  BY <1>1, <1>2 DEF AcceptTx, Cache!AcceptTx, IsNew, Cache!IsNew

(* Every step of the relay is a step of its memory or leaves the memory     *)
(* alone.                                                                   *)
THEOREM UsesCache == Spec => Cache!Spec
<1>1. Init => Cache!Init
  BY SameParts DEF Init, Cache!Init
<1>2. TypeOK /\ [Next]_vars => [Cache!Next]_(Cache!vars)
  <2> SUFFICES ASSUME TypeOK, [Next]_vars PROVE [Cache!Next]_(Cache!vars)
    OBVIOUS
  <2>1. CASE HandleInv
    <3>1. {Body.item.id} \in SUBSET Id
      BY <2>1, ReceivedOK DEF HandleInv
    <3>2. Cache!HandleInv({Body.item.id})
      BY <2>1, SameRequests DEF HandleInv, Cache!HandleInv
    <3> QED
      BY <3>1, <3>2 DEF Cache!Next
  <2>2. CASE HandleTx
    <3>1. Body.tx \in Tx
      BY <2>2, ReceivedOK DEF HandleTx
    <3>2. Cache!HandleTx(Body.tx)
      BY <2>2, SameAcceptTx DEF HandleTx, Cache!HandleTx
    <3> QED
      BY <3>1, <3>2 DEF Cache!Next
  <2>3. CASE Tick
    BY <2>3, SameRequests DEF Tick, Cache!Tick, Cache!Next
  <2>4. CASE UNCHANGED relay
    BY <2>4 DEF Cache!vars
  <2>5. HandleGetData \/ HandleGone => UNCHANGED relay
    BY DEF HandleGetData, HandleGone
  <2>6. \A p \in Peer : Announce(p) \/ Push(p) \/ Ask(p) \/ Deliver(p) \/ Leave(p)
                          => UNCHANGED relay
    BY DEF Announce, Push, Ask, Deliver, Leave
  <2> QED
    BY <2>1, <2>2, <2>3, <2>4, <2>5, <2>6 DEF Next, Handle, vars
<1> QED
  BY <1>1, <1>2, TypeCorrect, PTL DEF Spec, Cache!Spec

(* While the filter has room for what is cached and for the variants, no    *)
(* transaction that can be served is forgotten by it.                       *)
LEMMA MemoryServes == Spec => []Cache!ServedAsAsked
<1>1. Cache!Spec => []Cache!ServedAsAsked
  BY Cache!ServesAsAsked, RelayAssumption
<1> QED
  BY <1>1, UsesCache, PTL

(* What is handed out in answer to a getdata is what it named, by txid or   *)
(* by wtxid, whoever sent it and in whatever variants it is about, while    *)
(* the filter has that room: no other message of the loop carries a         *)
(* transaction.                                                             *)
Served(p) == Len(out'[p]) > Len(out[p]) /\ out'[p][Len(out'[p])].kind = "tx"

ServesNamed ==
  [][\A p \in Peer : Served(p) =>
       /\ HandleGetData /\ p = From
       /\ out'[p][Len(out'[p])].tx \in Named(Body.item)]_vars

(* A transaction that is found has the name it was looked for under.        *)
LEMMA FoundNamed ==
  ASSUME Consistent(relay), Cache!ServedAsAsked, Cache!Roomy, NEW item \in Naming
  PROVE  Found(item) \subseteq Named(item)
<1> SUFFICES ASSUME NEW tx \in Found(item) PROVE tx \in Named(item)
  OBVIOUS
<1>1. item.id \in Id /\ item.by \in {"txid", "wtxid"}
  BY RelayAssumption DEF Naming
<1>2. \A t \in DOMAIN relay.tx_cache : relay.tx_cache[t] \in Tx /\ TxidOf[relay.tx_cache[t]] = t
  BY DEF Consistent, IsRelayState, IsHashMap, WtxidIndex
<1>3. CASE item.by = "txid"
  BY <1>2, <1>3 DEF Found, GetTx, Named
<1>4. CASE item.by = "wtxid"
  <2>1. tx \in GetTxByWtxid(relay, item.id)
    BY <1>4 DEF Found
  <2>2. tx \in Tx
    BY <1>2, <2>1 DEF GetTxByWtxid, GetTx
  <2>3. tx \in Cache!GetTxByWtxid(relay, item.id)
    BY <2>1 DEF GetTxByWtxid, GetTx, Cache!GetTxByWtxid, Cache!GetTx
  <2>4. WtxidOf[tx] = item.id
    BY <1>1, <2>3 DEF Cache!ServedAsAsked
  <2> QED
    BY <1>4, <2>2, <2>4 DEF Named
<1> QED
  BY <1>1, <1>3, <1>4

(* A step other than HandleGetData puts no transaction into a channel.      *)
LEMMA OthersServeNothing ==
  ASSUME TypeOK, Consistent(relay), [Next]_vars, ~HandleGetData, NEW p \in Peer
  PROVE  ~Served(p)
<1> USE DEF history
<1>1. out[p] \in Seq(Message) /\ Len(out[p]) \in Nat
  BY DEF TypeOK
<1>2. CASE HandleInv
  <2>1. From \in Peer /\ Body.item \in Naming
    BY <1>2, ReceivedOK DEF HandleInv
  <2>2. CASE Send(handles \cap {From}, GetData(Body.item))
    <3>1. out'[p] = out[p] \/ out'[p][Len(out'[p])] = GetData(Body.item)
      BY <2>1, <2>2, SendOK, MessageOK DEF TypeOK
    <3>2. GetData(Body.item).kind # "tx"
      BY DEF GetData
    <3> QED
      BY <1>1, <3>1, <3>2 DEF Served
  <2>3. CASE UNCHANGED <<out, handles>>
    BY <1>1, <2>3 DEF Served
  <2> QED
    BY <1>2, <2>2, <2>3 DEF HandleInv
<1>3. CASE HandleTx
  <2> DEFINE inv == Inv([by |-> "txid", id |-> TxidOf[Body.tx]])
  <2>1. Body.tx \in Tx /\ inv \in Message /\ inv.kind # "tx"
    BY <1>3, ReceivedOK, MessageOK DEF HandleTx, Inv
  <2>2. CASE Send(Targets(From), inv)
    <3>1. Targets(From) \subseteq Peer
      BY DEF Targets, TypeOK
    <3>2. out'[p] = out[p] \/ out'[p][Len(out'[p])] = inv
      BY <2>1, <2>2, <3>1, SendOK
    <3> QED
      BY <1>1, <2>1, <3>2 DEF Served
  <2>3. CASE UNCHANGED out
    BY <1>1, <2>3 DEF Served
  <2> QED
    BY <1>3, <2>2, <2>3 DEF HandleTx
<1>4. CASE HandleGone \/ Tick \/ UNCHANGED vars
  BY <1>1, <1>4 DEF HandleGone, Tick, vars, Served
<1>5. ASSUME NEW q \in Peer, Announce(q) \/ Push(q) \/ Ask(q)
      PROVE  ~Served(p)
  <2>1. UNCHANGED out
    BY <1>5 DEF Announce, Push, Ask
  <2> QED
    BY <1>1, <2>1 DEF Served
<1>6. ASSUME NEW q \in Peer, Deliver(q) \/ Leave(q)
      PROVE  ~Served(p)
  <2>1. CASE out'[p] = out[p]
    BY <1>1, <2>1 DEF Served
  <2>2. CASE out'[p] = << >>
    BY <1>1, <2>2 DEF Served
  <2>3. CASE out[p] # << >> /\ out'[p] = Tail(out[p])
    BY <1>1, <2>3 DEF Served
  <2> QED
    BY <1>6, <2>1, <2>2, <2>3 DEF Deliver, Leave, TypeOK
<1> QED
  BY <1>2, <1>3, <1>4, <1>5, <1>6 DEF Next, Handle

(* Whoever asks is served the transaction asked for, and nobody else is     *)
(* served anything.                                                         *)
THEOREM ServesTheNamed == ASSUME Cache!Roomy PROVE Spec => ServesNamed
<1> DEFINE Exact == \A p \in Peer : Served(p) =>
                      /\ HandleGetData /\ p = From
                      /\ out'[p][Len(out'[p])].tx \in Named(Body.item)
<1>1. TypeOK /\ Consistent(relay) /\ Cache!ServedAsAsked /\ [Next]_vars => Exact
  <2> SUFFICES ASSUME TypeOK, Consistent(relay), Cache!ServedAsAsked, [Next]_vars,
                      NEW p \in Peer, Served(p)
               PROVE  /\ HandleGetData /\ p = From
                      /\ out'[p][Len(out'[p])].tx \in Named(Body.item)
    OBVIOUS
  <2>1. HandleGetData
    BY OthersServeNothing
  <2>2. From \in Peer /\ Body.item \in Naming
    BY <2>1, ReceivedOK DEF HandleGetData
  <2>3. out'[p] # out[p]
    BY DEF Served, TypeOK
  <2>4. PICK tx \in Found(Body.item) : Send(handles \cap {From}, TxMsg(tx))
    BY <2>1, <2>3 DEF HandleGetData
  <2>5. tx \in Named(Body.item) /\ tx \in Tx
    BY <2>2, FoundNamed DEF Named
  <2>6. out'[p][Len(out'[p])] = TxMsg(tx)
    BY <2>2, <2>3, <2>4, <2>5, SendOK, MessageOK DEF TypeOK
  <2>7. p = From
    BY <2>3, <2>4 DEF Send, TypeOK
  <2> QED
    BY <2>1, <2>5, <2>6, <2>7 DEF TxMsg
<1> QED
  BY <1>1, TypeAndMemory, MemoryServes, PTL DEF Spec, ServesNamed

-----------------------------------------------------------------------------
(* What is announced is pursued: the safety half of AnnouncedIsFetched.     *)

(* The messages of a channel that got one at its end, or lost its first.    *)
LEMMA RangeOfAppend ==
  ASSUME NEW T, NEW s \in Seq(T), NEW e \in T
  PROVE  Range(Append(s, e)) = Range(s) \cup {e}
<1> DEFINE t == Append(s, e)
<1>1. /\ DOMAIN t = 1..(Len(s) + 1) /\ DOMAIN s = 1..Len(s) /\ Len(s) \in Nat
      /\ \A i \in 1..Len(s) : t[i] = s[i]
      /\ t[Len(s) + 1] = e
  BY AppendProperties
<1> HIDE DEF t
<1>2. \A i \in DOMAIN t : i \in DOMAIN s \/ i = Len(s) + 1
  BY <1>1
<1>3. Range(t) \subseteq Range(s) \cup {e}
  BY <1>1, <1>2 DEF Range
<1>4. Range(s) \subseteq Range(t)
  BY <1>1 DEF Range
<1>5. e \in Range(t)
  BY <1>1 DEF Range
<1> QED
  BY <1>3, <1>4, <1>5 DEF t

LEMMA RangeOfTail ==
  ASSUME NEW T, NEW s \in Seq(T), s # << >>
  PROVE  Range(s) = {Head(s)} \cup Range(Tail(s))
<1> DEFINE t == Tail(s)
<1>1. /\ DOMAIN s = 1..Len(s) /\ Len(s) \in Nat \ {0} /\ Head(s) = s[1]
      /\ DOMAIN t = 1..(Len(s) - 1)
      /\ \A i \in 1..(Len(s) - 1) : t[i] = s[i + 1]
  OBVIOUS
<1> HIDE DEF t
<1>2. \A i \in DOMAIN s : i = 1 \/ (i - 1 \in DOMAIN t /\ t[i - 1] = s[i])
  BY <1>1
<1>3. \A i \in DOMAIN t : i + 1 \in DOMAIN s /\ t[i] = s[i + 1]
  BY <1>1
<1>4. Range(s) \subseteq {Head(s)} \cup Range(t)
  BY <1>1, <1>2 DEF Range
<1>5. Range(t) \subseteq Range(s)
  BY <1>3 DEF Range
<1>6. Head(s) \in Range(s)
  BY <1>1 DEF Range
<1> QED
  BY <1>4, <1>5, <1>6 DEF t

Envelop(p, msg) == [from |-> p, msg |-> msg]

(* A hash is on its way: a peer that can answer has yet to read the request *)
(* for it, or a transaction of that hash has yet to be handled.             *)
Wanted(id) ==
  \/ \E q \in Peer, item \in Naming :
       /\ GetData(item) \in Range(out[q])
       /\ item.id = id
       /\ Held[q] \cap Named(item) # {}
  \/ \E q \in Peer, tx \in Tx :
       /\ Envelop(q, TxMsg(tx)) \in Range(events)
       /\ id \in {TxidOf[tx], WtxidOf[tx]}

(* The announced transaction was accepted, in one variant or another, or a  *)
(* hash of it is on its way, or the announcement has yet to be handled.     *)
Pursued(p, tx) ==
  \/ TxidOf[tx] \in relay.seen_txids
  \/ \E item \in Naming :
       /\ tx \in Named(item)
       /\ Wanted(item.id) \/ Envelop(p, Inv(item)) \in Range(events)

(* Nobody left, and no channel refused a message.                           *)
Undisturbed == handles = Peer /\ open = Peer

(* As long as nobody leaves and no channel is full, the request record      *)
(* forgets no announcement: what it keeps back was asked of a peer that has *)
(* it, and is not answered yet.  When a peer left, this is what fails.      *)
NoneForgotten ==
  Undisturbed => \A p \in Peer : \A tx \in announced[p] : Pursued(p, tx)

(* What it rests on.  A wtxid in the filter has its txid there too; who     *)
(* announces has what is announced; a request on record is on its way.      *)
SeenClosed ==
  \A tx \in Tx : WtxidOf[tx] \in relay.seen_txids => TxidOf[tx] \in relay.seen_txids

OffersBacked ==
  \A p \in Peer, item \in Naming :
    Envelop(p, Inv(item)) \in Range(events) => Held[p] \cap Named(item) # {}

RequestsWanted ==
  Undisturbed => \A id \in DOMAIN relay.requested_txids : Wanted(id)

PursuitInv == SeenClosed /\ OffersBacked /\ RequestsWanted /\ NoneForgotten

(* A hash of a transaction that is in the filter is there as its txid.      *)
LEMMA NamedSeen ==
  ASSUME SeenClosed, NEW item \in Naming, NEW tx \in Named(item),
         item.id \in relay.seen_txids
  PROVE  TxidOf[tx] \in relay.seen_txids
BY DEF SeenClosed, Named

(* With a roomy filter a transaction brings both its hashes.                *)
LEMMA SeenCloses ==
  ASSUME RoomyFilter, TypeOK, Consistent(relay), SeenClosed, [Next]_vars
  PROVE  SeenClosed' /\ relay.seen_txids \subseteq relay'.seen_txids
<1>1. CASE ~HandleTx
  BY <1>1, OtherSteps DEF SeenClosed
<1>2. CASE HandleTx
  <2>1. Body.tx \in Tx
    BY <1>2, ReceivedOK DEF HandleTx
  <2>2. relay'.seen_txids = relay.seen_txids \cup {TxidOf[Body.tx], WtxidOf[Body.tx]}
    BY <1>2, <2>1, AcceptTxKeeps DEF HandleTx
  <2>3. ASSUME NEW tx \in Tx, WtxidOf[tx] \in relay'.seen_txids
        PROVE  TxidOf[tx] \in relay'.seen_txids
    BY <2>1, <2>2, <2>3, RelayAssumption DEF SeenClosed
  <2> QED
    BY <2>2, <2>3 DEF SeenClosed
<1> QED
  BY <1>1, <1>2

(* Nobody comes back, and a lost handle is not restored.                    *)
LEMMA DisturbedStays ==
  ASSUME TypeOK, Consistent(relay), [Next]_vars
  PROVE  Undisturbed' => Undisturbed /\ ~HandleGone /\ \A p \in Peer : ~Leave(p)
<1>1. handles' \subseteq handles
  <2>1. CASE HandleTx
    BY <2>1, TxTold
  <2> QED
    BY <2>1, OtherSteps
<1>2. open' \subseteq open
  BY DEF Next, Handle, HandleInv, HandleTx, HandleGetData, HandleGone, Tick,
         Announce, Push, Ask, Deliver, Leave, vars
<1>3. handles \subseteq Peer /\ open \subseteq Peer
  BY DEF TypeOK
<1>4. HandleGone => handles' # Peer
  BY ReceivedOK DEF HandleGone
<1>5. \A p \in Peer : Leave(p) => open' # Peer
  BY DEF Leave
<1> QED
  BY <1>1, <1>2, <1>3, <1>4, <1>5 DEF Undisturbed

(* A message to the handles in S reaches them all when none is lost by it.  *)
LEMMA SendReaches ==
  ASSUME TypeOK, Undisturbed, Undisturbed', NEW S \in SUBSET Peer, NEW msg \in Message,
         Send(S, msg)
  PROVE  /\ \A p \in Peer : Range(out[p]) \subseteq Range(out'[p])
         /\ \A p \in S : msg \in Range(out'[p])
<1>1. \A p \in S : CanSend(p)
  BY DEF Send, Undisturbed
<1>2. ASSUME NEW p \in Peer
      PROVE  /\ Range(out[p]) \subseteq Range(out'[p])
             /\ p \in S => msg \in Range(out'[p])
  <2>1. out[p] \in Seq(Message)
    BY DEF TypeOK
  <2>2. CASE p \in S
    <3>1. out'[p] = Append(out[p], msg)
      BY <1>1, <2>2 DEF Send
    <3> QED
      BY <2>1, <3>1, RangeOfAppend
  <2>3. CASE p \notin S
    BY <2>3 DEF Send
  <2> QED
    BY <2>2, <2>3
<1> QED
  BY <1>2

(* A step that loses nothing that is on its way but to the filter, and no   *)
(* announcement but to a request or the filter.                             *)
LEMMA PursuitGoesOn ==
  ASSUME SeenClosed', relay.seen_txids \subseteq relay'.seen_txids,
         \A id : Wanted(id) => Wanted(id)' \/ id \in relay'.seen_txids,
         \A p \in Peer, item \in Naming :
           Envelop(p, Inv(item)) \in Range(events) =>
             \/ Envelop(p, Inv(item)) \in Range(events')
             \/ Wanted(item.id)' \/ item.id \in relay'.seen_txids,
         NEW p \in Peer, NEW tx, Pursued(p, tx)
  PROVE  Pursued(p, tx)'
<1>1. CASE TxidOf[tx] \in relay.seen_txids
  BY <1>1 DEF Pursued
<1>2. ASSUME NEW item \in Naming, tx \in Named(item),
             Wanted(item.id) \/ Envelop(p, Inv(item)) \in Range(events)
      PROVE  Pursued(p, tx)'
  <2>1. CASE item.id \in relay'.seen_txids
    BY <1>2, <2>1 DEF SeenClosed, Named, Pursued
  <2>2. CASE item.id \notin relay'.seen_txids
    BY <1>2, <2>2 DEF Pursued
  <2> QED
    BY <2>1, <2>2
<1> QED
  BY <1>1, <1>2 DEF Pursued

(* What a step does to the two channels of the loop.                        *)
LEMMA PostRange ==
  ASSUME TypeOK, NEW p \in Peer, NEW msg \in Message \cup {Gone}, Post(p, msg)
  PROVE  Range(events') = Range(events) \cup {Envelop(p, msg)}
<1>1. Envelop(p, msg) \in Envelope /\ events \in Seq(Envelope)
  BY DEF Envelop, Envelope, TypeOK
<1>2. events' = Append(events, Envelop(p, msg))
  BY DEF Post, Envelop
<1> QED
  BY <1>1, <1>2, RangeOfAppend

LEMMA ReceiveRange ==
  ASSUME TypeOK, NEW kind, Receive(kind)
  PROVE  /\ Range(events) = {Envelop(From, Body)} \cup Range(events')
         /\ Body.kind = kind
         /\ kind = "inv" => Body = Inv(Body.item)
         /\ kind = "tx" => Body = TxMsg(Body.tx)
<1>1. events \in Seq(Envelope) /\ events # << >> /\ events' = Tail(events)
  BY DEF TypeOK, Receive, Envelope
<1>2. Range(events) = {Head(events)} \cup Range(events')
  BY <1>1, RangeOfTail
<1>3. Head(events) \in Envelope /\ Body.kind = kind
  BY <1>1 DEF Receive, Body
<1>4. Head(events) = Envelop(From, Body) /\ Body \in Message \cup {Gone}
  BY <1>3 DEF Envelope, Envelop, From, Body
<1> HIDE DEF From, Body
<1>5. /\ kind = "inv" => Body = Inv(Body.item)
      /\ kind = "tx" => Body = TxMsg(Body.tx)
  BY <1>3, <1>4 DEF Message, Gone, Inv, TxMsg
<1> QED
  BY <1>2, <1>3, <1>4, <1>5

(* The three messages of an envelope are told apart.                        *)
LEMMA EnvelopesDiffer ==
  /\ \A p, q, item, tx : Envelop(p, Inv(item)) # Envelop(q, TxMsg(tx))
  /\ \A p, q, item, other : Envelop(p, Inv(item)) # Envelop(q, GetData(other))
  /\ \A p, q, item : Envelop(p, Inv(item)) # Envelop(q, Gone)
  /\ \A p, q, item, other :
       Envelop(p, Inv(item)) = Envelop(q, Inv(other)) => p = q /\ item = other
  /\ \A p, q, tx, other :
       Envelop(p, TxMsg(tx)) = Envelop(q, TxMsg(other)) => p = q /\ tx = other
<1>1. \A p, q, m, n : Envelop(p, m) = Envelop(q, n) => p = q /\ m = n
  <2> TAKE p, q, m, n
  <2> HAVE Envelop(p, m) = Envelop(q, n)
  <2>1. Envelop(p, m).from = p /\ Envelop(p, m).msg = m
    BY DEF Envelop
  <2>2. Envelop(q, n).from = q /\ Envelop(q, n).msg = n
    BY DEF Envelop
  <2> QED
    BY <2>1, <2>2
<1>2. \A item, tx, other :
        /\ Inv(item).kind = "inv" /\ Inv(item).item = item
        /\ TxMsg(tx).kind = "tx" /\ TxMsg(tx).tx = tx
        /\ GetData(other).kind = "getdata" /\ Gone.kind = "gone"
  BY DEF Inv, TxMsg, GetData, Gone
<1>3. /\ \A item, tx : Inv(item) # TxMsg(tx)
      /\ \A item, other : Inv(item) # GetData(other)
      /\ \A item : Inv(item) # Gone
      /\ \A item, other : Inv(item) = Inv(other) => item = other
      /\ \A tx, other : TxMsg(tx) = TxMsg(other) => tx = other
  BY <1>2
<1> QED
  BY <1>1, <1>3

(* An announcement is made by a peer that holds a transaction of that name. *)
LEMMA OffersKept ==
  ASSUME TypeOK, OffersBacked, [Next]_vars
  PROVE  OffersBacked'
<1>1. CASE Range(events') \subseteq Range(events)
  BY <1>1 DEF OffersBacked
<1>2. ASSUME NEW kind, Receive(kind) PROVE OffersBacked'
  BY <1>1, <1>2, ReceiveRange
<1>3. ASSUME NEW p \in Peer, NEW msg \in Message \cup {Gone}, Post(p, msg),
             \A item \in Naming : msg = Inv(item) => Held[p] \cap Named(item) # {}
      PROVE  OffersBacked'
  <2>1. ASSUME NEW q \in Peer, NEW item \in Naming, Envelop(q, Inv(item)) \in Range(events')
        PROVE  Held[q] \cap Named(item) # {}
    <3>1. CASE Envelop(q, Inv(item)) \in Range(events)
      BY <3>1 DEF OffersBacked
    <3>2. CASE Envelop(q, Inv(item)) = Envelop(p, msg)
      <4>1. q = p /\ msg = Inv(item)
        <5>1. Envelop(q, Inv(item)).from = Envelop(p, msg).from
              /\ Envelop(q, Inv(item)).msg = Envelop(p, msg).msg
          BY <3>2
        <5> QED
          BY <5>1 DEF Envelop
      <4> QED
        BY <1>3, <4>1
    <3> QED
      BY <1>3, <2>1, <3>1, <3>2, PostRange
  <2> QED
    BY <2>1 DEF OffersBacked
<1>4. \A tx, item, other : TxMsg(tx) # Inv(item) /\ GetData(other) # Inv(item) /\ Gone # Inv(item)
  <2>1. \A tx, item, other : /\ TxMsg(tx).kind = "tx" /\ Inv(item).kind = "inv"
                             /\ GetData(other).kind = "getdata" /\ Gone.kind = "gone"
    BY DEF TxMsg, Inv, GetData, Gone
  <2> QED
    BY <2>1
<1>5. ASSUME NEW p \in Peer, Announce(p) PROVE OffersBacked'
  <2>1. PICK tx \in Held[p], item \in Naming : tx \in Named(item) /\ Post(p, Inv(item))
    BY <1>5 DEF Announce
  <2>2. \A other \in Naming : Inv(item) = Inv(other) => item = other
    BY EnvelopesDiffer
  <2> QED
    BY <1>3, <2>1, <2>2, MessageOK
<1>6. ASSUME NEW p \in Peer, Push(p) \/ Ask(p) \/ Deliver(p) PROVE OffersBacked'
  <2>1. Held[p] \subseteq Tx
    BY RelayPeersAssumption
  <2>2. ASSUME NEW tx \in Tx, Post(p, TxMsg(tx)) PROVE OffersBacked'
    BY <1>3, <1>4, <2>2, MessageOK
  <2>3. ASSUME NEW item \in Naming, Post(p, GetData(item)) PROVE OffersBacked'
    BY <1>3, <1>4, <2>3, MessageOK
  <2>4. CASE UNCHANGED events
    BY <1>1, <2>4
  <2> QED
    BY <1>6, <2>1, <2>2, <2>3, <2>4 DEF Push, Ask, Deliver
<1>7. ASSUME NEW p \in Peer, Leave(p) PROVE OffersBacked'
  BY <1>3, <1>4, <1>7 DEF Leave
<1>8. CASE Tick \/ UNCHANGED vars
  BY <1>1, <1>8 DEF Tick, vars
<1> QED
  BY <1>2, <1>5, <1>6, <1>7, <1>8
     DEF Next, Handle, HandleInv, HandleTx, HandleGetData, HandleGone

(* What a step that disturbs nobody does to what is on its way, and what it *)
(* adds to what has to be.                                                  *)
Onward ==
  /\ \A id : Wanted(id) => Wanted(id)' \/ id \in relay'.seen_txids
  /\ \A p \in Peer, item \in Naming :
       Envelop(p, Inv(item)) \in Range(events) =>
         \/ Envelop(p, Inv(item)) \in Range(events')
         \/ Wanted(item.id)' \/ item.id \in relay'.seen_txids

Backed ==
  /\ \A id \in DOMAIN relay'.requested_txids :
       id \in DOMAIN relay.requested_txids \/ Wanted(id)'
  /\ \A p \in Peer : \A tx \in announced'[p] : tx \in announced[p] \/ Pursued(p, tx)'

(* A hash stays on its way while no channel loses a message of its own, and *)
(* the loop no transaction but to the filter.                               *)
LEMMA WantedStays ==
  ASSUME \A q \in Peer : Range(out[q]) \subseteq Range(out'[q]),
         \A q \in Peer, tx \in Tx :
           Envelop(q, TxMsg(tx)) \in Range(events) =>
             \/ Envelop(q, TxMsg(tx)) \in Range(events')
             \/ {TxidOf[tx], WtxidOf[tx]} \subseteq relay'.seen_txids,
         NEW id, Wanted(id)
  PROVE  Wanted(id)' \/ id \in relay'.seen_txids
<1>1. CASE \E q \in Peer, item \in Naming :
             /\ GetData(item) \in Range(out[q])
             /\ item.id = id
             /\ Held[q] \cap Named(item) # {}
  BY <1>1 DEF Wanted
<1>2. CASE \E q \in Peer, tx \in Tx :
             /\ Envelop(q, TxMsg(tx)) \in Range(events)
             /\ id \in {TxidOf[tx], WtxidOf[tx]}
  BY <1>2 DEF Wanted
<1> QED
  BY <1>1, <1>2 DEF Wanted

(* An announcement that is handled is asked for, unless it is known or was  *)
(* asked for before and is on its way.                                      *)
LEMMA InvGoesOn ==
  ASSUME TypeOK, Consistent(relay), PursuitInv, Undisturbed, Undisturbed', HandleInv
  PROVE  Onward /\ Backed
<1>0. PICK item : item = Body.item
  OBVIOUS
<1> DEFINE asked == Unrequested(relay, {item.id})
<1>1. /\ From \in Peer /\ item \in Naming /\ item.id \in Id
      /\ Range(events) = {Envelop(From, Inv(item))} \cup Range(events')
  BY <1>0, ReceivedOK, ReceiveRange DEF HandleInv
<1>2. Held[From] \cap Named(item) # {}
  BY <1>1 DEF PursuitInv, OffersBacked
<1>3. relay' = MarkRequested(relay, {item.id}) /\ IsRelayState(relay)
  BY <1>0 DEF HandleInv, Consistent
<1>4. relay'.seen_txids = relay.seen_txids
  BY <1>1, <1>3, MarkRequestedOK
<1>5. IF asked = {} THEN UNCHANGED out ELSE Send(handles \cap {From}, GetData(item))
  BY <1>0 DEF HandleInv
<1>6. asked \subseteq {item.id}
  BY DEF Unrequested
<1>7. asked = {} => item.id \in relay.seen_txids \/ item.id \in DOMAIN relay.requested_txids
  BY DEF Unrequested, CleanupRequested, Restrict
<1>8. DOMAIN relay'.requested_txids \subseteq DOMAIN relay.requested_txids \cup asked
  <2>1. DOMAIN CleanupRequested(relay).requested_txids \subseteq DOMAIN relay.requested_txids
    BY <1>3 DEF CleanupRequested, Restrict, IsRelayState
  <2>2. DOMAIN relay'.requested_txids
          = DOMAIN CleanupRequested(relay).requested_txids \cup asked
    BY <1>3 DEF MarkRequested, IsRelayState
  <2> QED
    BY <2>1, <2>2
<1> HIDE DEF asked
<1>9. /\ \A q \in Peer : Range(out[q]) \subseteq Range(out'[q])
      /\ asked # {} => GetData(item) \in Range(out'[From])
  <2>1. CASE asked = {}
    BY <1>5, <2>1
  <2>2. CASE asked # {}
    <3>1. handles \cap {From} = {From} /\ GetData(item) \in Message
      BY <1>1, MessageOK DEF Undisturbed
    <3> QED
      BY <1>1, <1>5, <2>2, <3>1, SendReaches
  <2> QED
    BY <2>1, <2>2
<1>10. \A id : Wanted(id) => Wanted(id)' \/ id \in relay'.seen_txids
  BY <1>1, <1>9, EnvelopesDiffer, WantedStays
<1>11. asked # {} => Wanted(item.id)'
  BY <1>1, <1>2, <1>9 DEF Wanted
<1>12. Wanted(item.id)' \/ item.id \in relay'.seen_txids
  BY <1>4, <1>7, <1>10, <1>11 DEF PursuitInv, RequestsWanted
<1>13. \A p \in Peer, other \in Naming :
         Envelop(p, Inv(other)) \in Range(events) =>
           \/ Envelop(p, Inv(other)) \in Range(events')
           \/ Wanted(other.id)' \/ other.id \in relay'.seen_txids
  BY <1>1, <1>12, EnvelopesDiffer
<1>14. Backed
  BY <1>6, <1>8, <1>11 DEF Backed, HandleInv
<1> QED
  BY <1>10, <1>13, <1>14 DEF Onward

(* A transaction that is handled leaves both its hashes in the filter.      *)
LEMMA TxGoesOn ==
  ASSUME RoomyFilter, TypeOK, Consistent(relay), Undisturbed, Undisturbed', HandleTx
  PROVE  Onward /\ Backed
<1> DEFINE tx == Body.tx
<1>1. /\ From \in Peer /\ tx \in Tx
      /\ Range(events) = {Envelop(From, TxMsg(tx))} \cup Range(events')
  BY ReceivedOK, ReceiveRange DEF HandleTx
<1>2. /\ relay'.seen_txids = relay.seen_txids \cup {TxidOf[tx], WtxidOf[tx]}
      /\ DOMAIN relay'.requested_txids \subseteq DOMAIN relay.requested_txids
  BY <1>1, AcceptTxKeeps DEF HandleTx
<1>3. \A q \in Peer : Range(out[q]) \subseteq Range(out'[q])
  <2>1. CASE UNCHANGED out
    BY <2>1
  <2>2. CASE Send(Targets(From), Inv([by |-> "txid", id |-> TxidOf[tx]]))
    <3>1. /\ Targets(From) \in SUBSET Peer
          /\ Inv([by |-> "txid", id |-> TxidOf[tx]]) \in Message
      BY <1>1, MessageOK DEF Targets, TypeOK
    <3> QED
      BY <2>2, <3>1, SendReaches
  <2> QED
    BY <2>1, <2>2 DEF HandleTx
<1> HIDE DEF tx
<1>4. \A id : Wanted(id) => Wanted(id)' \/ id \in relay'.seen_txids
  <2>1. \A q \in Peer, other \in Tx :
          Envelop(q, TxMsg(other)) \in Range(events) =>
            \/ Envelop(q, TxMsg(other)) \in Range(events')
            \/ {TxidOf[other], WtxidOf[other]} \subseteq relay'.seen_txids
    BY <1>1, <1>2, EnvelopesDiffer
  <2> QED
    BY <1>3, <2>1, WantedStays
<1>5. \A p \in Peer, item \in Naming :
        Envelop(p, Inv(item)) \in Range(events) => Envelop(p, Inv(item)) \in Range(events')
  BY <1>1, EnvelopesDiffer
<1>6. Backed
  BY <1>2 DEF Backed, HandleTx
<1> QED
  BY <1>4, <1>5, <1>6 DEF Onward

(* A question of a peer is not about what is pursued.                       *)
LEMMA GetDataGoesOn ==
  ASSUME TypeOK, Consistent(relay), Undisturbed, Undisturbed', HandleGetData
  PROVE  Onward /\ Backed
<1>1. From \in Peer /\ Range(events) = {Envelop(From, Body)} \cup Range(events')
      /\ Body.kind = "getdata"
  BY ReceivedOK, ReceiveRange DEF HandleGetData
<1> DEFINE msg == Body
<1>2. /\ \A q, item : Envelop(q, Inv(item)) # Envelop(From, msg)
      /\ \A q, tx : Envelop(q, TxMsg(tx)) # Envelop(From, msg)
  <2>1. \A q, m : Envelop(q, m).msg = m
    BY DEF Envelop
  <2>2. \A item, tx : Inv(item).kind = "inv" /\ TxMsg(tx).kind = "tx"
    BY DEF Inv, TxMsg
  <2>3. msg.kind = "getdata"
    BY <1>1
  <2> HIDE DEF msg
  <2> QED
    BY <2>1, <2>2, <2>3
<1>3. \A q \in Peer : Range(out[q]) \subseteq Range(out'[q])
  <2>1. CASE UNCHANGED out
    BY <2>1
  <2>2. ASSUME NEW tx \in Found(Body.item), Send(handles \cap {From}, TxMsg(tx))
        PROVE  \A q \in Peer : Range(out[q]) \subseteq Range(out'[q])
    <3>1. tx \in Tx
      BY <2>2 DEF Found, GetTx, GetTxByWtxid, Consistent, IsRelayState, IsHashMap
    <3>2. handles \cap {From} \in SUBSET Peer /\ TxMsg(tx) \in Message
      BY <1>1, <3>1, MessageOK
    <3> QED
      BY <2>2, <3>2, SendReaches
  <2> QED
    BY <2>1, <2>2 DEF HandleGetData
<1>4. UNCHANGED <<relay, announced>>
  BY DEF HandleGetData
<1> HIDE DEF msg
<1>5. /\ \A q \in Peer, item \in Naming :
           Envelop(q, Inv(item)) \in Range(events) => Envelop(q, Inv(item)) \in Range(events')
      /\ \A q \in Peer, tx \in Tx :
           Envelop(q, TxMsg(tx)) \in Range(events) => Envelop(q, TxMsg(tx)) \in Range(events')
  BY <1>1, <1>2 DEF msg
<1>6. \A id : Wanted(id) => Wanted(id)' \/ id \in relay'.seen_txids
  BY <1>3, <1>5, WantedStays
<1> QED
  BY <1>4, <1>5, <1>6 DEF Onward, Backed

(* A peer that speaks up adds to what is on its way; what it announces has  *)
(* its announcement in the event channel.                                   *)
LEMMA RemoteGoesOn ==
  ASSUME TypeOK, NEW p \in Peer, Announce(p) \/ Push(p) \/ Ask(p)
  PROVE  Onward /\ Backed
<1>1. Held[p] \subseteq Tx /\ announced \in [Peer -> SUBSET Tx] /\ UNCHANGED <<relay, out>>
  BY RelayPeersAssumption DEF TypeOK, Announce, Push, Ask
<1>2. Range(events) \subseteq Range(events')
  <2>1. ASSUME NEW msg \in Message, Post(p, msg) PROVE Range(events) \subseteq Range(events')
    BY <2>1, PostRange
  <2> QED
    BY <1>1, <2>1, MessageOK DEF Announce, Push, Ask
<1>3. \A id : Wanted(id) => Wanted(id)' \/ id \in relay'.seen_txids
  BY <1>1, <1>2, WantedStays
<1>4. Onward
  BY <1>2, <1>3 DEF Onward
<1>5. \A q \in Peer : \A tx \in announced'[q] : tx \in announced[q] \/ Pursued(q, tx)'
  <2>1. CASE Announce(p)
    <3>1. PICK tx \in Held[p], item \in Naming :
            /\ tx \in Named(item) /\ Post(p, Inv(item))
            /\ announced' = [announced EXCEPT ![p] = @ \cup {tx}]
      BY <2>1 DEF Announce
    <3>2. Envelop(p, Inv(item)) \in Range(events')
      BY <3>1, PostRange, MessageOK
    <3>3. Pursued(p, tx)'
      BY <3>1, <3>2 DEF Pursued
    <3> QED
      BY <1>1, <3>1, <3>3
  <2>2. CASE Push(p) \/ Ask(p)
    BY <2>2 DEF Push, Ask
  <2> QED
    BY <1>1, <2>1, <2>2
<1> QED
  BY <1>1, <1>4, <1>5 DEF Backed

(* A peer that reads a request for what it has answers it.                  *)
LEMMA DeliverGoesOn ==
  ASSUME TypeOK, NEW p \in Peer, Deliver(p)
  PROVE  Onward /\ Backed
<1>1. /\ out[p] \in Seq(Message) /\ out[p] # << >> /\ out \in [Peer -> Seq(Message)]
      /\ out' = [out EXCEPT ![p] = Tail(@)]
      /\ UNCHANGED <<relay, announced>> /\ Held[p] \subseteq Tx
  BY RelayPeersAssumption DEF TypeOK, Deliver
<1>2. /\ Range(out[p]) = {Head(out[p])} \cup Range(out'[p])
      /\ \A q \in Peer \ {p} : out'[q] = out[q]
  BY <1>1, RangeOfTail
<1>3. Range(events) \subseteq Range(events')
  <2>1. ASSUME NEW tx \in Tx, Post(p, TxMsg(tx)) PROVE Range(events) \subseteq Range(events')
    BY <2>1, PostRange, MessageOK
  <2> QED
    BY <1>1, <2>1 DEF Deliver
<1>4. ASSUME NEW item \in Naming, GetData(item) = Head(out[p]), Held[p] \cap Named(item) # {}
      PROVE  Wanted(item.id)'
  <2>1. GetData(item).kind = "getdata" /\ GetData(item).item = item
    BY DEF GetData
  <2>2. PICK tx \in Held[p] \cap Named(item) : Post(p, TxMsg(tx))
    BY <1>4, <2>1 DEF Deliver
  <2>3. tx \in Tx /\ item.id \in {TxidOf[tx], WtxidOf[tx]}
    BY <1>1 DEF Named
  <2>4. Envelop(p, TxMsg(tx)) \in Range(events')
    BY <2>2, <2>3, PostRange, MessageOK
  <2> QED
    BY <2>3, <2>4 DEF Wanted
<1>5. ASSUME NEW id, Wanted(id) PROVE Wanted(id)'
  <2>1. ASSUME NEW q \in Peer, NEW item \in Naming, GetData(item) \in Range(out[q]),
               item.id = id, Held[q] \cap Named(item) # {}
        PROVE  Wanted(id)'
    <3>1. CASE GetData(item) \in Range(out'[q])
      BY <2>1, <3>1 DEF Wanted
    <3>2. CASE GetData(item) \notin Range(out'[q])
      <4>1. q = p /\ GetData(item) = Head(out[p])
        BY <1>2, <2>1, <3>2
      <4> QED
        BY <1>4, <2>1, <4>1
    <3> QED
      BY <3>1, <3>2
  <2>2. ASSUME NEW q \in Peer, NEW tx \in Tx, Envelop(q, TxMsg(tx)) \in Range(events),
               id \in {TxidOf[tx], WtxidOf[tx]}
        PROVE  Wanted(id)'
    BY <1>3, <2>2 DEF Wanted
  <2> QED
    BY <1>5, <2>1, <2>2 DEF Wanted
<1> QED
  BY <1>1, <1>3, <1>5 DEF Onward, Backed

(* A step that disturbs nobody carries on with all that is on its way.      *)
LEMMA StepGoesOn ==
  ASSUME RoomyFilter, TypeOK, Consistent(relay), PursuitInv, [Next]_vars,
         Undisturbed, Undisturbed'
  PROVE  Onward /\ Backed
<1>1. ~HandleGone /\ \A p \in Peer : ~Leave(p)
  BY DisturbedStays
<1>2. CASE Handle
  BY <1>1, <1>2, InvGoesOn, TxGoesOn, GetDataGoesOn DEF Handle
<1>3. CASE Tick \/ UNCHANGED vars
  <2>1. UNCHANGED <<out, events, announced>>
    BY <1>3 DEF Tick, vars
  <2>2. /\ relay'.seen_txids = relay.seen_txids
        /\ DOMAIN relay'.requested_txids = DOMAIN relay.requested_txids
    BY <1>3 DEF Tick, Age, vars, Consistent, IsRelayState
  <2>3. \A id : Wanted(id) => Wanted(id)' \/ id \in relay'.seen_txids
    BY <2>1, WantedStays
  <2> QED
    BY <2>1, <2>2, <2>3 DEF Onward, Backed
<1>4. ASSUME NEW p \in Peer, Announce(p) \/ Push(p) \/ Ask(p) \/ Deliver(p)
      PROVE  Onward /\ Backed
  BY <1>4, RemoteGoesOn, DeliverGoesOn
<1> QED
  BY <1>1, <1>2, <1>3, <1>4 DEF Next

(* What is announced is in the filter, on its way, or about to be asked     *)
(* for: while nobody leaves and no channel is full, the filter and the      *)
(* record of requests (mark_requested, manager.rs) hold back nothing that   *)
(* is not coming.  It is the safety half of AnnouncedIsFetched.             *)
THEOREM ForgetsNone == ASSUME RoomyFilter PROVE Spec => []NoneForgotten
<1>1. Init => PursuitInv
  <2> SUFFICES ASSUME Init PROVE PursuitInv
    OBVIOUS
  <2>1. DOMAIN relay.requested_txids = {} /\ relay.seen_txids = {}
    BY EmptyOK DEF Init, EmptyRelayState
  <2>2. Range(events) = {} /\ \A p \in Peer : announced[p] = {}
    BY DEF Init, Range
  <2> QED
    BY <2>1, <2>2
       DEF PursuitInv, SeenClosed, OffersBacked, RequestsWanted, NoneForgotten
<1>2. /\ TypeOK /\ Consistent(relay) /\ Consistent(relay)' /\ PursuitInv /\ [Next]_vars
      => PursuitInv'
  <2> SUFFICES ASSUME TypeOK, Consistent(relay), Consistent(relay)', PursuitInv, [Next]_vars
               PROVE  PursuitInv'
    OBVIOUS
  <2>1. SeenClosed' /\ relay.seen_txids \subseteq relay'.seen_txids
    BY SeenCloses DEF PursuitInv
  <2>2. OffersBacked'
    BY OffersKept DEF PursuitInv
  <2>3. ASSUME Undisturbed' PROVE RequestsWanted' /\ NoneForgotten'
    <3>1. Undisturbed /\ Onward /\ Backed
      BY <2>3, DisturbedStays, StepGoesOn
    <3>2. ASSUME NEW id \in DOMAIN relay'.requested_txids PROVE Wanted(id)'
      <4>1. id \notin relay'.seen_txids
        BY <3>2 DEF Consistent
      <4>2. CASE id \in DOMAIN relay.requested_txids
        BY <3>1, <4>1, <4>2 DEF Onward, PursuitInv, RequestsWanted
      <4> QED
        BY <3>1, <4>2 DEF Backed
    <3>3. ASSUME NEW p \in Peer, NEW tx \in announced'[p] PROVE Pursued(p, tx)'
      <4>1. CASE tx \in announced[p]
        <5>1. Pursued(p, tx)
          BY <3>1, <4>1 DEF PursuitInv, NoneForgotten
        <5> QED
          BY <2>1, <3>1, <5>1, PursuitGoesOn DEF Onward
      <4> QED
        BY <3>1, <3>3, <4>1 DEF Backed
    <3> QED
      BY <3>2, <3>3 DEF RequestsWanted, NoneForgotten
  <2>4. RequestsWanted' /\ NoneForgotten'
    BY <2>3 DEF RequestsWanted, NoneForgotten
  <2> QED
    BY <2>1, <2>2, <2>4 DEF PursuitInv
<1>3. PursuitInv => NoneForgotten
  BY DEF PursuitInv
<1> QED
  BY <1>1, <1>2, <1>3, TypeAndMemory, PTL DEF Spec
=============================================================================
