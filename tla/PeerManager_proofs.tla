------------------------- MODULE PeerManager_proofs -------------------------
(***************************************************************************)
(* Theorems about the peer manager, for every set of sessions and          *)
(* addresses, every target and every size of the queues.                   *)
(***************************************************************************)
EXTENDS PeerManager, AddressDb_proofs, FunctionTheorems

-----------------------------------------------------------------------------
(* Small facts about the channels.                                         *)

(* Appending an event, and taking the first one.                            *)
LEMMA PostOK ==
  ASSUME TypeOK, NEW e \in Events, Post(e)
  PROVE  /\ events' \in Seq(Events)
         /\ DOMAIN events \subseteq DOMAIN events'
         /\ \A i \in DOMAIN events : events'[i] = events[i]
         /\ Len(events) + 1 \in DOMAIN events'
         /\ events'[Len(events) + 1] = e
BY DEF TypeOK, Post

LEMMA ReceiveOK ==
  ASSUME TypeOK, NEW kind, Receive(kind)
  PROVE  /\ events' \in Seq(Events)
         /\ Head(events) \in Events
         /\ Head(events) = events[1]
         /\ Head(events).kind = kind
         /\ \A i \in DOMAIN events : i # 1 => i - 1 \in DOMAIN events' /\ events'[i - 1] = events[i]
BY DEF TypeOK, Receive

(* try_send never fills a channel beyond its capacity.                      *)
LEMMA SentOK ==
  ASSUME TypeOK, NEW S, \A s \in S : s \in Session => CanSend(s)
  PROVE  Sent(S) \in [Session -> 0..Capacity]
BY PeerManagerAssumption DEF TypeOK, Sent, CanSend

LEMMA EventOK ==
  ASSUME NEW kind \in {"Connected", "Disconnected", "Tx", "Request", "Addresses"},
         NEW s \in Session
  PROVE  Event(kind, AddrOf[s]) \in Events
BY PeerManagerAssumption DEF Event, Events

LEMMA AttemptsOK ==
  ASSUME NEW missing \in Nat
  PROVE  Attempts(missing) \in Nat
<1>1. missing + missing \div 2 \in Nat
  OBVIOUS
<1> QED
  BY <1>1, MinOfTwo, PeerManagerAssumption DEF Attempts

LEMMA PeersFinite ==
  ASSUME TypeOK
  PROVE  IsFiniteSet(peers) /\ Cardinality(peers) \in Nat
BY PeerManagerAssumption, FS_Subset, FS_CardinalityType DEF TypeOK

-----------------------------------------------------------------------------
(* Type correctness.                                                       *)

LEMMA TypeInit == Init => TypeOK
<1> SUFFICES ASSUME Init PROVE TypeOK
  OBVIOUS
<1> USE PeerManagerAssumption
<1>1. mgr \in [pc : {"recv", "disconnected", "relay", "prune", "counts"},
               addr : SUBSET Addr, targets : SUBSET Session, stale : SUBSET Addr]
  BY DEF Init, IdleManager
<1>2. ticker \in [pc : {"count", "connected", "pending", "query", "dial"},
                  budget : Nat, connected : SUBSET Addr, pending : SUBSET Addr,
                  todo : Seq(Addr)]
  BY DEF Init, IdleTicker
<1> QED
  BY <1>1, <1>2 DEF Init, TypeOK

(* The steps of the ticker.                                                 *)
LEMMA TypeTick == TypeOK /\ Tick => TypeOK'
<1> SUFFICES ASSUME TypeOK, Tick PROVE TypeOK'
  OBVIOUS
<1> USE DEF connVars, sharedVars, metricVars
<1> DEFINE Tickers == [pc : {"count", "connected", "pending", "query", "dial"},
                       budget : Nat, connected : SUBSET Addr, pending : SUBSET Addr,
                       todo : Seq(Addr)]
<1>0. ticker \in Tickers
  BY DEF TypeOK
<1>1. CASE TickCount
  <2>1. Target - Cardinality(peers) \in Nat
    BY <1>1, PeersFinite, PeerManagerAssumption DEF TickCount
  <2>2. Attempts(Target - Cardinality(peers)) \in Nat
    BY <2>1, AttemptsOK
  <2>3. ticker' \in Tickers
    BY <1>0, <1>1, <2>2 DEF TickCount
  <2> QED
    BY <1>1, <2>3 DEF TickCount, TypeOK
<1>2. CASE TickConnected
  <2>1. PeerAddrs \subseteq Addr
    BY PeerManagerAssumption DEF PeerAddrs, TypeOK
  <2>2. ticker' \in Tickers
    BY <1>0, <1>2, <2>1 DEF TickConnected
  <2> QED
    BY <1>2, <2>2 DEF TickConnected, TypeOK
<1>3. CASE TickPending
  <2>1. ticker' \in Tickers
    BY <1>0, <1>3 DEF TickPending, TypeOK
  <2> QED
    BY <1>3, <2>1 DEF TickPending, TypeOK
<1>4. CASE TickQuery
  <2>1. ticker.budget * Oversample \in Nat
    BY <1>0, PeerManagerAssumption
  <2>2. \A addrs \in GetKnotsExcluding(nodes, ticker.budget * Oversample) : addrs \in Seq(Addr)
    BY <2>1, GetKnotsExcludingOK DEF TypeOK
  <2>3. ticker' \in Tickers
    BY <1>0, <1>4, <2>2 DEF TickQuery
  <2> QED
    BY <1>4, <2>3 DEF TickQuery, TypeOK
<1>5. CASE TickEnd
  <2>1. ticker' \in Tickers
    BY <1>5 DEF TickEnd, IdleTicker
  <2> QED
    BY <1>5, <2>1 DEF TickEnd, TypeOK
<1>6. ASSUME NEW s \in Session, TickDial(s) PROVE TypeOK'
  <2>1. PICK i \in DOMAIN ticker.todo :
          ticker' = [ticker EXCEPT !.budget = @ - 1,
                                   !.todo = SubSeq(@, i + 1, Len(@))]
    BY <1>6 DEF TickDial
  <2>2. ticker.budget - 1 \in Nat
    BY <1>0, <1>6 DEF TickDial
  <2>3. SubSeq(ticker.todo, i + 1, Len(ticker.todo)) \in Seq(Addr)
    BY <1>0
  <2>4. ticker' \in Tickers
    BY <1>0, <2>1, <2>2, <2>3
  <2> QED
    BY <1>6, <2>4, PeerManagerAssumption, SMTT(30) DEF TickDial, TypeOK
<1> QED
  BY <1>1, <1>2, <1>3, <1>4, <1>5, <1>6 DEF Tick

(* The steps of the connection tasks.                                       *)
LEMMA TypeConnect ==
  ASSUME TypeOK, NEW s \in Session, Connect(s)
  PROVE  TypeOK'
<1> USE DEF connVars, sharedVars, metricVars
<1>0. AddrOf[s] \in Addr /\ TypeOf[s] \in NodeType /\ Done(s) \in {"idle", "unpend"}
  BY PeerManagerAssumption DEF Done
<1>1. CASE HandshakeOk(s)
  <2>1. IsTable(nodes')
    BY <1>0, <1>1, InsertOrUpdateOK DEF HandshakeOk, TypeOK
  <2>2. events' \in Seq(Events)
    BY <1>1, EventOK, PostOK DEF HandshakeOk
  <2> QED
    BY <1>1, <2>1, <2>2 DEF HandshakeOk, TypeOK
<1>2. CASE HandshakeFail(s)
  <2>1. IsTable(nodes')
    BY <1>2, MarkFailedOK DEF HandshakeFail, TypeOK
  <2> QED
    BY <1>0, <1>2, <2>1 DEF HandshakeFail, TypeOK
<1>3. CASE PushHandle(s)
  BY <1>3, PeerManagerAssumption DEF PushHandle, TypeOK
<1>4. CASE SkipDuplicate(s)
  BY <1>0, <1>4 DEF SkipDuplicate, TypeOK
<1>5. CASE CountConnection(s)
  BY <1>0, <1>5 DEF CountConnection, TypeOK
<1>6. CASE Unpend(s)
  BY <1>6 DEF Unpend, TypeOK
<1> QED
  BY <1>1, <1>2, <1>3, <1>4, <1>5, <1>6 DEF Connect

(* The steps of the sockets and of the discovery task.                      *)
LEMMA TypeEnvironment ==
  ASSUME TypeOK, NEW s \in Session, Environment(s)
  PROVE  TypeOK'
<1> USE DEF connVars, sharedVars, metricVars
<1>1. CASE Accept(s)
  BY <1>1 DEF Accept, TypeOK
<1>2. CASE Stop(s)
  <2>1. events' \in Seq(Events)
    BY <1>2, EventOK, PostOK DEF Stop
  <2> QED
    BY <1>2, <2>1, PeerManagerAssumption DEF Stop, TypeOK
<1>3. CASE Drain(s)
  BY <1>3, PeerManagerAssumption DEF Drain, TypeOK
<1>4. ASSUME NEW kind \in Reports, Report(s, kind) PROVE TypeOK'
  <2>1. kind \in {"Tx", "Request", "Addresses"}
    BY PeerManagerAssumption
  <2>2. events' \in Seq(Events)
    BY <1>4, <2>1, EventOK, PostOK DEF Report
  <2> QED
    BY <1>4, <2>2 DEF Report, TypeOK
<1> QED
  BY <1>1, <1>2, <1>3, <1>4 DEF Environment

LEMMA TypeProbe ==
  ASSUME TypeOK, NEW S \in SUBSET peers, Probe(S)
  PROVE  TypeOK'
<1>1. queue' \in [Session -> 0..Capacity]
  BY SentOK DEF Probe
<1>2. IsTable(nodes')
  BY PruneOldOK DEF Probe, TypeOK
<1> QED
  BY <1>1, <1>2 DEF Probe, TypeOK, sharedVars, metricVars

(* The steps of the event loop.                                             *)
LEMMA TypeManage == TypeOK /\ Manage => TypeOK'
<1> SUFFICES ASSUME TypeOK, Manage PROVE TypeOK'
  OBVIOUS
<1> USE DEF connVars, sharedVars, metricVars
<1> DEFINE Loops == [pc : {"recv", "disconnected", "relay", "prune", "counts"},
                     addr : SUBSET Addr, targets : SUBSET Session, stale : SUBSET Addr]
<1>0. mgr \in Loops /\ IdleManager \in Loops
  BY DEF TypeOK, IdleManager
<1>1. CASE HandleConnected
  <2>1. mgr' \in Loops
    BY <1>0, <1>1 DEF HandleConnected
  <2>2. events' \in Seq(Events)
    BY <1>1, ReceiveOK DEF HandleConnected
  <2> QED
    BY <1>1, <2>1, <2>2 DEF HandleConnected, TypeOK
<1>2. CASE HandleDisconnected
  <2>1. events' \in Seq(Events) /\ Head(events).addr \in Addr
    BY <1>2, ReceiveOK DEF HandleDisconnected, Events
  <2>2. mgr' \in Loops
    BY <1>0, <1>2, <2>1 DEF HandleDisconnected
  <2>3. peers' \subseteq Session
    BY <1>2 DEF HandleDisconnected, Retain, TypeOK
  <2> QED
    BY <1>2, <2>1, <2>2, <2>3 DEF HandleDisconnected, TypeOK
<1>3. CASE FinishDisconnected
  <2>1. mgr' \in Loops
    BY <1>0, <1>3 DEF FinishDisconnected
  <2>2. IsTable(nodes')
    BY <1>3, MarkFailedOK DEF FinishDisconnected, TypeOK
  <2>3. balance' \in Int
    BY <1>3 DEF FinishDisconnected, TypeOK
  <2>4. UNCHANGED <<connVars, sharedVars, ticker, gauge>>
    BY <1>3 DEF FinishDisconnected
  <2> QED
    BY <2>1, <2>2, <2>3, <2>4 DEF TypeOK
<1>4. CASE HandleTx
  <2>1. events' \in Seq(Events) /\ Head(events).addr \in Addr
    BY <1>4, ReceiveOK DEF HandleTx, Events
  <2>2. mgr' \in Loops
    BY <1>0, <1>4, <2>1 DEF HandleTx, TypeOK
  <2> QED
    BY <1>4, <2>1, <2>2 DEF HandleTx, TypeOK
<1>5. ASSUME NEW s \in Session, RelayTo(s) PROVE TypeOK'
  <2>1. queue' \in [Session -> 0..Capacity]
    <3>1. queue' = Sent({r \in {s} : Relayed(r) /\ CanSend(r)})
      BY <1>5 DEF RelayTo
    <3> QED
      BY <3>1, SentOK
  <2>2. AddrOf[s] \in Addr
    BY PeerManagerAssumption
  <2>3. mgr' \in Loops
    BY <1>0, <1>5, <2>2 DEF RelayTo
  <2> QED
    BY <1>5, <2>1, <2>3 DEF RelayTo, TypeOK
<1>6. CASE RelayEnd
  <2>1. mgr' \in Loops
    BY <1>0, <1>6 DEF RelayEnd
  <2> QED
    BY <1>6, <2>1 DEF RelayEnd, TypeOK
<1>7. CASE HandleRequest
  <2>1. events' \in Seq(Events) /\ Head(events).addr \in Addr
    BY <1>7, ReceiveOK DEF HandleRequest, Events
  <2>2. mgr' \in Loops /\ queue' \in [Session -> 0..Capacity]
    <3>1. CASE UNCHANGED <<queue, mgr>>
      BY <1>0, <3>1 DEF TypeOK
    <3>2. ASSUME NEW s \in peers,
                 queue' = Sent({r \in {s} : CanSend(r)}),
                 mgr' = IF CanSend(s)
                        THEN mgr
                        ELSE [mgr EXCEPT !.pc = "prune", !.stale = {Head(events).addr}]
          PROVE  mgr' \in Loops /\ queue' \in [Session -> 0..Capacity]
      <4>1. queue' \in [Session -> 0..Capacity]
        BY <3>2, SentOK
      <4>2. mgr' \in Loops
        BY <1>0, <2>1, <3>2
      <4> QED
        BY <4>1, <4>2
    <3> QED
      BY <1>7, <3>1, <3>2 DEF HandleRequest
  <2> QED
    BY <1>7, <2>1, <2>2 DEF HandleRequest, TypeOK
<1>8. CASE HandleAddresses
  <2>1. events' \in Seq(Events)
    BY <1>8, ReceiveOK DEF HandleAddresses
  <2>2. PICK addrs \in SUBSET Addr :
          nodes' = [a \in DOMAIN nodes \cup addrs |->
                      IF a \in addrs THEN NodeInfo("unknown", 0) ELSE nodes[a]]
    BY <1>8, PeerManagerAssumption DEF HandleAddresses
  <2>3. NodeInfo("unknown", 0) \in Row
    BY AddressDbAssumption DEF NodeInfo, Row, NodeType
  <2>4. IsTable(nodes')
    BY <2>2, <2>3 DEF IsTable, TypeOK
  <2> QED
    BY <1>8, <2>1, <2>4 DEF HandleAddresses, TypeOK
<1>9. CASE PruneStale
  <2>1. mgr' \in Loops
    BY <1>0, <1>9 DEF PruneStale
  <2>2. peers' \subseteq Session
    BY <1>9 DEF PruneStale, Retain, TypeOK
  <2> QED
    BY <1>9, <2>1, <2>2 DEF PruneStale, TypeOK
<1>10. CASE UpdatePeerCounts
  <2>1. gauge' \in Nat
    BY <1>10, PeersFinite DEF UpdatePeerCounts
  <2>2. mgr' \in Loops
    BY <1>0, <1>10 DEF UpdatePeerCounts
  <2> QED
    BY <1>10, <2>1, <2>2 DEF UpdatePeerCounts, TypeOK
<1> QED
  BY <1>1, <1>2, <1>3, <1>4, <1>5, <1>6, <1>7, <1>8, <1>9, <1>10 DEF Manage

(* Every variable of the router keeps its type.                             *)
LEMMA TypeNext == TypeOK /\ [Next]_vars => TypeOK'
<1>1. TypeOK /\ UNCHANGED vars => TypeOK'
  BY DEF vars, connVars, sharedVars, metricVars, TypeOK
<1> QED
  BY <1>1, TypeTick, TypeManage, TypeConnect, TypeEnvironment, TypeProbe DEF Next

(* Type correctness of the peer manager.                                    *)
THEOREM TypeCorrect == Spec => []TypeOK
BY TypeInit, TypeNext, PTL DEF Spec

-----------------------------------------------------------------------------
(* One handle per address.                                                 *)

(* The duplicate check and the push happen under one write lock, and every  *)
(* other step only removes handles.                                         *)
THEOREM HandlesStayUnique == Spec => []UniqueHandles
<1>1. Init => UniqueHandles
  BY DEF Init, UniqueHandles
<1>2. TypeOK /\ UniqueHandles /\ [Next]_vars => UniqueHandles'
  <2> SUFFICES ASSUME UniqueHandles, [Next]_vars PROVE UniqueHandles'
    OBVIOUS
  <2> USE DEF connVars, sharedVars, metricVars
  <2>1. CASE peers' \subseteq peers
    BY <2>1 DEF UniqueHandles
  <2>2. ASSUME NEW s \in Session, PushHandle(s) PROVE UniqueHandles'
    BY <2>2 DEF PushHandle, PeerAddrs, UniqueHandles
  <2>3. Tick => UNCHANGED peers
    BY DEF Tick, TickCount, TickConnected, TickPending, TickQuery, TickEnd, TickDial
  <2>4. Manage => peers' \subseteq peers
    BY DEF Manage, HandleConnected, HandleDisconnected, FinishDisconnected, HandleTx,
           RelayEnd, RelayTo, HandleRequest, HandleAddresses, PruneStale,
           UpdatePeerCounts, Retain
  <2>5. ASSUME NEW s \in Session, Connect(s) PROVE PushHandle(s) \/ UNCHANGED peers
    BY <2>5 DEF Connect, HandshakeOk, HandshakeFail, SkipDuplicate, CountConnection, Unpend
  <2>6. ASSUME NEW s \in Session, Environment(s) PROVE UNCHANGED peers
    BY <2>6 DEF Environment, Accept, Stop, Drain, Report
  <2>7. ASSUME NEW S \in SUBSET peers, Probe(S) PROVE UNCHANGED peers
    BY <2>7 DEF Probe
  <2>8. UNCHANGED vars => UNCHANGED peers
    BY DEF vars
  <2> QED
    BY <2>1, <2>2, <2>3, <2>4, <2>5, <2>6, <2>7, <2>8 DEF Next
<1> QED
  BY <1>1, <1>2, TypeCorrect, PTL DEF Spec

-----------------------------------------------------------------------------
(* One dial per address.                                                   *)

(* What PendingExact rests on: from the snapshot on, an address that is in  *)
(* pending_outbound is in the snapshot or is no longer on the list, because *)
(* only the ticker adds addresses; and the list names no address twice.     *)
SnapshotCovers ==
  /\ ticker.pc = "query" => pending \subseteq ticker.pending
  /\ ticker.pc = "dial" =>
       /\ pending \cap Range(ticker.todo) \subseteq ticker.pending
       /\ IsInjective(ticker.todo)

DialInv == TypeOK /\ PendingExact /\ SnapshotCovers

LEMMA DialInit == Init => DialInv
<1> SUFFICES ASSUME Init PROVE DialInv
  OBVIOUS
<1>1. PendingExact
  <2>1. Dialling = {}
    BY PeerManagerAssumption DEF Init, Dialling
  <2> QED
    BY <2>1 DEF Init, PendingExact
<1>2. SnapshotCovers
  BY DEF Init, IdleTicker, SnapshotCovers
<1> QED
  BY <1>1, <1>2, TypeInit DEF DialInv

(* A step that starts and ends no outbound task, and is not the ticker's.   *)
LEMMA DialFrame ==
  ASSUME DialInv, UNCHANGED <<pending, ticker>>,
         \A s \in Outbound : task'[s] = "idle" <=> task[s] = "idle"
  PROVE  PendingExact' /\ SnapshotCovers'
BY DEF DialInv, PendingExact, Dialling, SnapshotCovers

(* The address that is dialled next is not pending, although it was looked  *)
(* up in a copy of pending_outbound.                                        *)
LEMMA FreshDial ==
  ASSUME DialInv, NEW s \in Session, TickDial(s)
  PROVE  AddrOf[s] \notin pending
<1>1. PICK i \in DOMAIN ticker.todo :
        ticker.todo[i] = AddrOf[s] /\ AddrOf[s] \notin Skipped
  BY DEF TickDial
<1>2. AddrOf[s] \in Range(ticker.todo)
  BY <1>1 DEF Range
<1> QED
  BY <1>1, <1>2 DEF TickDial, Skipped, DialInv, SnapshotCovers

LEMMA DialTick == DialInv /\ Tick => PendingExact' /\ SnapshotCovers'
<1> SUFFICES ASSUME DialInv, Tick PROVE PendingExact' /\ SnapshotCovers'
  OBVIOUS
<1> USE DEF connVars, sharedVars, metricVars
<1>1. CASE TickCount \/ TickConnected \/ TickPending \/ TickEnd
  <2>1. UNCHANGED <<task, pending>>
    BY <1>1 DEF TickCount, TickConnected, TickPending, TickEnd
  <2>2. PendingExact'
    BY <2>1 DEF DialInv, PendingExact, Dialling
  <2>3. SnapshotCovers'
    <3>1. ticker'.pc # "dial" /\ (ticker'.pc = "query" => ticker'.pending = pending)
      <4>1. CASE TickCount
        BY <4>1 DEF TickCount, DialInv, TypeOK
      <4>2. CASE TickConnected
        BY <4>2 DEF TickConnected, DialInv, TypeOK
      <4>3. CASE TickPending
        BY <4>3 DEF TickPending, DialInv, TypeOK
      <4>4. CASE TickEnd
        BY <4>4 DEF TickEnd, IdleTicker
      <4> QED
        BY <1>1, <4>1, <4>2, <4>3, <4>4
    <3> QED
      BY <2>1, <3>1 DEF SnapshotCovers
  <2> QED
    BY <2>2, <2>3
<1>2. CASE TickQuery
  <2>1. UNCHANGED <<task, pending>>
    BY <1>2 DEF TickQuery
  <2>2. PendingExact'
    BY <2>1 DEF DialInv, PendingExact, Dialling
  <2>3. PICK addrs \in GetKnotsExcluding(nodes, ticker.budget * Oversample) :
          ticker' = [ticker EXCEPT !.pc = "dial", !.todo = addrs]
    BY <1>2 DEF TickQuery
  <2>4. ticker.budget * Oversample \in Nat
    BY PeerManagerAssumption DEF DialInv, TypeOK
  <2>5. IsInjective(addrs)
    BY <2>4, GetKnotsExcludingOK DEF DialInv, TypeOK
  <2>6. ticker'.todo = addrs /\ ticker'.pending = ticker.pending /\ ticker'.pc = "dial"
    BY <2>3 DEF DialInv, TypeOK
  <2>7. SnapshotCovers'
    BY <1>2, <2>1, <2>5, <2>6 DEF TickQuery, SnapshotCovers, DialInv
  <2> QED
    BY <2>2, <2>7
<1>3. ASSUME NEW s \in Session, TickDial(s) PROVE PendingExact' /\ SnapshotCovers'
  <2> DEFINE a == AddrOf[s]
             todo == ticker.todo
  <2>1. PICK i \in DOMAIN todo :
          /\ todo[i] = a
          /\ a \notin Skipped
          /\ ticker' = [ticker EXCEPT !.budget = @ - 1,
                                      !.todo = SubSeq(@, i + 1, Len(@))]
    BY <1>3 DEF TickDial
  <2>2. /\ ticker.pc = "dial"
        /\ s \in Outbound
        /\ task[s] = "idle"
        /\ pending' = pending \cup {a}
        /\ task' = [task EXCEPT ![s] = "handshake"]
    BY <1>3 DEF TickDial, Free
  <2>3. a \notin pending
    BY <1>3, FreshDial
  <2>4. Dialling' = Dialling \cup {s}
    BY <2>2 DEF Dialling, DialInv, TypeOK
  <2>5. PendingExact'
    BY <2>2, <2>3, <2>4 DEF PendingExact, DialInv
  <2>6. /\ ticker'.todo = SubSeq(todo, i + 1, Len(todo))
        /\ ticker'.pending = ticker.pending
        /\ ticker'.pc = "dial"
    BY <2>1, <2>2 DEF DialInv, TypeOK
  <2>7. todo \in Seq(Addr) /\ IsInjective(todo)
    BY <2>2 DEF DialInv, TypeOK, SnapshotCovers
  <2> HIDE DEF todo
  <2> DEFINE rest == SubSeq(todo, i + 1, Len(todo))
  <2>8. /\ DOMAIN rest = 1..(Len(todo) - i)
        /\ \A j \in DOMAIN rest : i + j \in DOMAIN todo /\ rest[j] = todo[i + j]
    BY <2>7
  <2> HIDE DEF rest
  <2>9. IsInjective(rest)
    <3> SUFFICES ASSUME NEW j \in DOMAIN rest, NEW k \in DOMAIN rest, rest[j] = rest[k]
                 PROVE  j = k
      BY DEF IsInjective
    <3>1. i + j = i + k
      BY <2>7, <2>8 DEF IsInjective
    <3> QED
      BY <2>7, <2>8, <3>1
  <2>10. a \notin Range(rest) /\ Range(rest) \subseteq Range(todo)
    <3>1. \A j \in DOMAIN rest : i + j # i
      BY <2>7, <2>8
    <3>2. \A j \in DOMAIN rest : rest[j] # a
      BY <2>1, <2>7, <2>8, <3>1 DEF IsInjective, todo
    <3> QED
      BY <2>8, <3>2 DEF Range
  <2>11. SnapshotCovers'
    <3>1. pending \cap Range(todo) \subseteq ticker.pending
      BY <2>2 DEF DialInv, SnapshotCovers, todo
    <3>2. pending' \cap Range(rest) \subseteq ticker.pending
      BY <2>2, <2>10, <3>1
    <3> QED
      BY <2>6, <2>9, <3>2 DEF SnapshotCovers, rest
  <2> QED
    BY <2>5, <2>11
<1> QED
  BY <1>1, <1>2, <1>3 DEF Tick

LEMMA DialConnect ==
  ASSUME DialInv, NEW s \in Session, Connect(s)
  PROVE  PendingExact' /\ SnapshotCovers'
<1> USE DEF connVars, sharedVars, metricVars
<1>1. CASE Unpend(s) /\ s \in Outbound
  <2>1. /\ task[s] = "unpend"
        /\ pending' = pending \ {AddrOf[s]}
        /\ task' = [task EXCEPT ![s] = "idle"]
        /\ UNCHANGED ticker
    BY <1>1 DEF Unpend
  <2>2. s \in Dialling /\ Dialling' = Dialling \ {s}
    BY <1>1, <2>1 DEF Dialling, DialInv, TypeOK
  <2>3. PendingExact'
    BY <2>1, <2>2 DEF PendingExact, DialInv
  <2>4. SnapshotCovers'
    BY <2>1 DEF SnapshotCovers, DialInv
  <2> QED
    BY <2>3, <2>4
<1>2. ASSUME NEW t \in {"unpend", "push", "count"},
             task' = [task EXCEPT ![s] = t], task[s] # "idle",
             UNCHANGED <<pending, ticker>>
      PROVE  PendingExact' /\ SnapshotCovers'
  BY <1>2, DialFrame DEF DialInv, TypeOK
<1>3. ASSUME s \notin Outbound, NEW t, task' = [task EXCEPT ![s] = t],
             UNCHANGED <<pending, ticker>>
      PROVE  PendingExact' /\ SnapshotCovers'
  BY <1>3, DialFrame DEF DialInv, TypeOK
<1>4. CASE HandshakeOk(s)
  BY <1>2, <1>4 DEF HandshakeOk
<1>5. CASE HandshakeFail(s)
  BY <1>2, <1>3, <1>5 DEF HandshakeFail, Done
<1>6. CASE PushHandle(s)
  BY <1>2, <1>6 DEF PushHandle
<1>7. CASE SkipDuplicate(s)
  BY <1>2, <1>3, <1>7 DEF SkipDuplicate, Done
<1>8. CASE CountConnection(s)
  BY <1>2, <1>3, <1>8 DEF CountConnection, Done
<1>9. CASE Unpend(s)
  BY <1>1, <1>9 DEF Unpend
<1> QED
  BY <1>4, <1>5, <1>6, <1>7, <1>8, <1>9 DEF Connect

LEMMA DialNext == DialInv /\ [Next]_vars => DialInv'
<1> SUFFICES ASSUME DialInv, [Next]_vars PROVE PendingExact' /\ SnapshotCovers'
  BY TypeNext DEF DialInv
<1> USE DEF connVars, sharedVars, metricVars
<1>1. CASE UNCHANGED <<task, pending, ticker>>
  BY <1>1, DialFrame
<1>2. CASE Manage
  <2>1. UNCHANGED <<task, pending, ticker>>
    BY <1>2 DEF Manage, HandleConnected, HandleDisconnected, FinishDisconnected, HandleTx,
                RelayEnd, RelayTo, HandleRequest, HandleAddresses, PruneStale,
                UpdatePeerCounts
  <2> QED
    BY <1>1, <2>1
<1>3. ASSUME NEW s \in Session, Environment(s) PROVE PendingExact' /\ SnapshotCovers'
  <2>1. CASE Accept(s)
    BY <2>1, DialFrame DEF Accept, DialInv, TypeOK
  <2>2. CASE ~Accept(s)
    <3>1. UNCHANGED <<task, pending, ticker>>
      BY <1>3, <2>2 DEF Environment, Stop, Drain, Report
    <3> QED
      BY <1>1, <3>1
  <2> QED
    BY <2>1, <2>2
<1>4. ASSUME NEW S \in SUBSET peers, Probe(S) PROVE UNCHANGED <<task, pending, ticker>>
  BY <1>4 DEF Probe
<1>5. UNCHANGED vars => UNCHANGED <<task, pending, ticker>>
  BY DEF vars
<1> QED
  BY <1>1, <1>2, <1>3, <1>4, <1>5, DialTick, DialConnect DEF Next

(* No address is dialled twice at a time, and pending_outbound is exactly   *)
(* the addresses being dialled, although the ticker decides on snapshots.   *)
THEOREM OneDialPerAddress == Spec => []PendingExact
<1>1. DialInv => PendingExact
  BY DEF DialInv
<1> QED
  BY <1>1, DialInit, DialNext, PTL DEF Spec

-----------------------------------------------------------------------------
(* Handles without a peer task.                                            *)

(* A step that takes no event, stops no session and adds no handle.         *)
LEMMA OrphanFrame ==
  ASSUME NoOrphanHandle,
         peers' \ running' \subseteq peers \ running,
         DOMAIN events \subseteq DOMAIN events',
         \A i \in DOMAIN events : events'[i] = events[i]
  PROVE  NoOrphanHandle'
<1> SUFFICES ASSUME NEW s \in peers' \ running'
             PROVE  \E i \in InFlight("Disconnected")' : events'[i].addr = AddrOf[s]
  BY DEF NoOrphanHandle
<1>1. PICK i \in InFlight("Disconnected") : events[i].addr = AddrOf[s]
  BY DEF NoOrphanHandle
<1> QED
  BY <1>1 DEF InFlight

(* A step of the event loop that takes an event: it may drop handles, and   *)
(* if the event is a disconnection it drops all those it stands for.        *)
LEMMA OrphanReceive ==
  ASSUME TypeOK, NoOrphanHandle, NEW kind, Receive(kind),
         peers' \subseteq peers, running' = running,
         kind = "Disconnected" => \A s \in peers' : AddrOf[s] # Head(events).addr
  PROVE  NoOrphanHandle'
<1> SUFFICES ASSUME NEW s \in peers' \ running'
             PROVE  \E i \in InFlight("Disconnected")' : events'[i].addr = AddrOf[s]
  BY DEF NoOrphanHandle
<1>1. PICK i \in DOMAIN events :
        events[i].kind = "Disconnected" /\ events[i].addr = AddrOf[s]
  BY DEF NoOrphanHandle, InFlight
<1>2. i # 1
  BY <1>1, ReceiveOK
<1>3. i - 1 \in DOMAIN events' /\ events'[i - 1] = events[i]
  BY <1>2, ReceiveOK
<1> QED
  BY <1>1, <1>3 DEF InFlight

(* Every handle that has lost its peer task is about to be removed.         *)
THEOREM OrphansGo == Spec => []NoOrphanHandle
<1>1. Init => NoOrphanHandle
  BY DEF Init, NoOrphanHandle
<1>2. TypeOK /\ NoOrphanHandle /\ [Next]_vars => NoOrphanHandle'
  <2> SUFFICES ASSUME TypeOK, NoOrphanHandle, [Next]_vars PROVE NoOrphanHandle'
    OBVIOUS
  <2> USE DEF connVars, sharedVars, metricVars
  <2>1. CASE UNCHANGED <<peers, running, events>>
    BY <2>1, OrphanFrame
  <2>2. Tick => UNCHANGED <<peers, running, events>>
    BY DEF Tick, TickCount, TickConnected, TickPending, TickQuery, TickEnd, TickDial
  <2>3. ASSUME Manage PROVE NoOrphanHandle'
    <3>1. CASE HandleConnected
      BY <3>1, OrphanReceive DEF HandleConnected
    <3>2. CASE HandleDisconnected
      BY <3>2, OrphanReceive DEF HandleDisconnected, Retain
    <3>3. CASE HandleTx
      BY <3>3, OrphanReceive DEF HandleTx
    <3>4. CASE HandleRequest
      BY <3>4, OrphanReceive DEF HandleRequest
    <3>5. CASE HandleAddresses
      BY <3>5, OrphanReceive DEF HandleAddresses
    <3>6. CASE PruneStale
      BY <3>6, OrphanFrame DEF PruneStale, Retain
    <3>7. CASE \/ FinishDisconnected \/ RelayEnd \/ UpdatePeerCounts
               \/ \E s \in Session : RelayTo(s)
      BY <2>1, <3>7 DEF FinishDisconnected, RelayEnd, UpdatePeerCounts, RelayTo
    <3> QED
      BY <2>3, <3>1, <3>2, <3>3, <3>4, <3>5, <3>6, <3>7 DEF Manage
  <2>4. ASSUME NEW s \in Session, Connect(s) PROVE NoOrphanHandle'
    <3>1. CASE HandshakeOk(s)
      <4>1. Event("Connected", AddrOf[s]) \in Events
        BY EventOK
      <4> QED
        BY <3>1, <4>1, PostOK, OrphanFrame DEF HandshakeOk
    <3>2. CASE PushHandle(s)
      BY <3>2, OrphanFrame DEF PushHandle
    <3>3. CASE HandshakeFail(s) \/ SkipDuplicate(s) \/ CountConnection(s) \/ Unpend(s)
      BY <2>1, <3>3 DEF HandshakeFail, SkipDuplicate, CountConnection, Unpend
    <3> QED
      BY <2>4, <3>1, <3>2, <3>3 DEF Connect
  <2>5. ASSUME NEW s \in Session, Environment(s) PROVE NoOrphanHandle'
    <3>1. CASE Accept(s) \/ Drain(s)
      BY <2>1, <3>1 DEF Accept, Drain
    <3>2. ASSUME NEW kind \in Reports, Report(s, kind) PROVE NoOrphanHandle'
      <4>1. Event(kind, AddrOf[s]) \in Events
        BY EventOK, PeerManagerAssumption
      <4> QED
        BY <3>2, <4>1, PostOK, OrphanFrame DEF Report
    <3>3. CASE Stop(s)
      <4> DEFINE e == Event("Disconnected", AddrOf[s])
      <4>1. e \in Events /\ e.kind = "Disconnected" /\ e.addr = AddrOf[s]
        BY EventOK DEF Event
      <4> HIDE DEF e
      <4>2. /\ DOMAIN events \subseteq DOMAIN events'
            /\ \A i \in DOMAIN events : events'[i] = events[i]
            /\ Len(events) + 1 \in DOMAIN events'
            /\ events'[Len(events) + 1] = e
        BY <3>3, <4>1, PostOK DEF Stop, e
      <4> SUFFICES ASSUME NEW r \in peers' \ running'
                   PROVE  \E i \in DOMAIN events' : /\ events'[i].kind = "Disconnected"
                                                    /\ events'[i].addr = AddrOf[r]
        BY DEF NoOrphanHandle, InFlight
      <4>3. CASE r = s
        BY <4>1, <4>2, <4>3
      <4>4. CASE r # s
        <5>1. r \in peers \ running
          BY <3>3, <4>4 DEF Stop
        <5> QED
          BY <4>2, <5>1 DEF NoOrphanHandle, InFlight
      <4> QED
        BY <4>3, <4>4
    <3> QED
      BY <2>5, <3>1, <3>2, <3>3 DEF Environment
  <2>6. ASSUME NEW S \in SUBSET peers, Probe(S) PROVE UNCHANGED <<peers, running, events>>
    BY <2>6 DEF Probe
  <2>7. UNCHANGED vars => UNCHANGED <<peers, running, events>>
    BY DEF vars
  <2> QED
    BY <2>1, <2>2, <2>3, <2>4, <2>5, <2>6, <2>7 DEF Next
<1> QED
  BY <1>1, <1>2, TypeCorrect, PTL DEF Spec

-----------------------------------------------------------------------------
(* The gauge.                                                              *)

(* The gauge may lag behind removals only while a recount is due.           *)
GaugeInv ==
  mgr.pc \notin {"counts", "disconnected"} => gauge <= Cardinality(peers)

THEOREM GaugeBounded == Spec => []GaugeNeverOverstates
<1>1. Init => GaugeInv
  BY FS_EmptySet DEF Init, GaugeInv
<1>2. TypeOK /\ TypeOK' /\ GaugeInv /\ [Next]_vars => GaugeInv'
  <2> SUFFICES ASSUME TypeOK, TypeOK', GaugeInv, [Next]_vars PROVE GaugeInv'
    OBVIOUS
  <2> USE DEF connVars, sharedVars, metricVars
  <2>1. /\ IsFiniteSet(peers) /\ Cardinality(peers) \in Nat
        /\ IsFiniteSet(peers') /\ Cardinality(peers') \in Nat
        /\ gauge \in Nat /\ gauge' \in Nat
    BY PeerManagerAssumption, FS_Subset, FS_CardinalityType DEF TypeOK
  <2>2. ASSUME peers \subseteq peers', UNCHANGED gauge,
               mgr'.pc \in {"counts", "disconnected"} \/ mgr.pc \notin {"counts", "disconnected"}
        PROVE  GaugeInv'
    <3>1. Cardinality(peers) <= Cardinality(peers')
      BY <2>1, <2>2, FS_Subset
    <3> QED
      BY <2>1, <2>2, <3>1 DEF GaugeInv
  <2>3. ASSUME peers \subseteq peers', UNCHANGED <<gauge, mgr>> PROVE GaugeInv'
    <3>1. CASE mgr.pc \in {"counts", "disconnected"}
      BY <2>3, <3>1 DEF GaugeInv
    <3>2. CASE mgr.pc \notin {"counts", "disconnected"}
      BY <2>2, <2>3, <3>2
    <3> QED
      BY <3>1, <3>2
  <2>4. Tick => UNCHANGED <<peers, gauge, mgr>>
    BY DEF Tick, TickCount, TickConnected, TickPending, TickQuery, TickEnd, TickDial
  <2>5. ASSUME Manage PROVE GaugeInv'
    <3>1. CASE HandleConnected
      BY <3>1 DEF HandleConnected, GaugeInv, TypeOK
    <3>2. CASE HandleDisconnected
      BY <3>2 DEF HandleDisconnected, GaugeInv, TypeOK
    <3>3. CASE FinishDisconnected
      BY <3>3 DEF FinishDisconnected, IdleManager, GaugeInv
    <3>4. CASE HandleTx
      BY <2>2, <3>4 DEF HandleTx, Receive
    <3>5. ASSUME NEW s \in Session, RelayTo(s) PROVE GaugeInv'
      BY <2>2, <3>5 DEF RelayTo
    <3>6. CASE RelayEnd
      BY <2>2, <3>6 DEF RelayEnd
    <3>7. CASE HandleRequest
      BY <2>2, <3>7 DEF HandleRequest, Receive
    <3>8. CASE HandleAddresses
      BY <2>3, <3>8 DEF HandleAddresses
    <3>9. CASE PruneStale
      <4>1. CASE peers' = peers
        BY <2>2, <3>9, <4>1 DEF PruneStale
      <4>2. CASE peers' # peers
        BY <3>9, <4>2 DEF PruneStale, IdleManager, GaugeInv
      <4> QED
        BY <4>1, <4>2
    <3>10. CASE UpdatePeerCounts
      BY <2>1, <3>10 DEF UpdatePeerCounts, GaugeInv
    <3> QED
      BY <2>5, <3>1, <3>2, <3>3, <3>4, <3>5, <3>6, <3>7, <3>8, <3>9, <3>10 DEF Manage
  <2>6. ASSUME NEW s \in Session, Connect(s) PROVE peers \subseteq peers' /\ UNCHANGED <<gauge, mgr>>
    BY <2>6 DEF Connect, HandshakeOk, HandshakeFail, PushHandle, SkipDuplicate,
                CountConnection, Unpend
  <2>7. ASSUME NEW s \in Session, Environment(s) PROVE UNCHANGED <<peers, gauge, mgr>>
    BY <2>7 DEF Environment, Accept, Stop, Drain, Report
  <2>8. ASSUME NEW S \in SUBSET peers, Probe(S) PROVE UNCHANGED <<peers, gauge, mgr>>
    BY <2>8 DEF Probe
  <2>9. UNCHANGED vars => UNCHANGED <<peers, gauge, mgr>>
    BY DEF vars
  <2> QED
    BY <2>3, <2>4, <2>5, <2>6, <2>7, <2>8, <2>9 DEF Next
<1>3. GaugeInv => GaugeNeverOverstates
  BY DEF GaugeInv, GaugeNeverOverstates
<1> QED
  BY <1>1, <1>2, <1>3, TypeCorrect, PTL DEF Spec

-----------------------------------------------------------------------------
(* The books of the connection counters.                                   *)

(* How many events of a kind wait: one more after a post of that kind, one  *)
(* fewer after the event loop took one.                                     *)
LEMMA InFlightFinite ==
  ASSUME TypeOK, NEW kind
  PROVE  IsFiniteSet(InFlight(kind)) /\ Cardinality(InFlight(kind)) \in Nat
<1>1. DOMAIN events = 1..Len(events) /\ Len(events) \in Nat
  BY DEF TypeOK
<1>2. IsFiniteSet(DOMAIN events)
  BY <1>1, FS_Interval
<1> QED
  BY <1>2, FS_Subset, FS_CardinalityType DEF InFlight

LEMMA PostCounts ==
  ASSUME TypeOK, NEW e \in Events, Post(e), NEW kind
  PROVE  Cardinality(InFlight(kind)') =
           Cardinality(InFlight(kind)) + (IF e.kind = kind THEN 1 ELSE 0)
<1> DEFINE n == Len(events) + 1
<1>1. DOMAIN events' = DOMAIN events \cup {n} /\ n \notin DOMAIN events
  BY DEF TypeOK, Post
<1>2. events'[n] = e /\ \A i \in DOMAIN events : events'[i] = events[i]
  BY PostOK
<1> HIDE DEF n
<1>3. n \notin InFlight(kind)
  BY <1>1 DEF InFlight
<1>4. CASE e.kind = kind
  <2>1. InFlight(kind)' = InFlight(kind) \cup {n}
    BY <1>1, <1>2, <1>4 DEF InFlight
  <2> QED
    BY <1>3, <1>4, <2>1, InFlightFinite, FS_AddElement
<1>5. CASE e.kind # kind
  <2>1. InFlight(kind)' = InFlight(kind)
    BY <1>1, <1>2, <1>5 DEF InFlight
  <2> QED
    BY <1>5, <2>1, InFlightFinite
<1> QED
  BY <1>4, <1>5

LEMMA ReceiveCounts ==
  ASSUME TypeOK, NEW taken, Receive(taken), NEW kind
  PROVE  Cardinality(InFlight(kind)') =
           Cardinality(InFlight(kind)) - (IF taken = kind THEN 1 ELSE 0)
<1> DEFINE rest == InFlight(kind) \ {1}
           shift == [i \in rest |-> i - 1]
<1>1. /\ events' = Tail(events)
      /\ events[1].kind = taken
      /\ Len(events) \in Nat \ {0}
      /\ DOMAIN events = 1..Len(events)
  BY ReceiveOK DEF TypeOK, Receive
<1>2. /\ DOMAIN events' = 1..(Len(events) - 1)
      /\ \A i \in DOMAIN events' : i + 1 \in DOMAIN events /\ events'[i] = events[i + 1]
  BY <1>1 DEF TypeOK
<1>3. 1 \in InFlight(kind) <=> taken = kind
  BY <1>1 DEF InFlight
<1>4. IsFiniteSet(rest) /\ Cardinality(rest) = Cardinality(InFlight(kind)) - (IF taken = kind THEN 1 ELSE 0)
  BY <1>3, InFlightFinite, FS_RemoveElement
<1>5. rest \subseteq 2..Len(events)
  BY <1>1 DEF InFlight
<1>6. shift \in [rest -> InFlight(kind)']
  BY <1>1, <1>2, <1>5 DEF InFlight
<1>7. \A a, b \in rest : shift[a] = shift[b] => a = b
  BY <1>5
<1>8. \A t \in InFlight(kind)' : \E a \in rest : shift[a] = t
  <2> SUFFICES ASSUME NEW t \in InFlight(kind)'
               PROVE  t + 1 \in rest /\ shift[t + 1] = t
    OBVIOUS
  <2>1. t \in DOMAIN events' /\ events'[t].kind = kind
    BY DEF InFlight
  <2>2. t + 1 \in DOMAIN events /\ events[t + 1].kind = kind /\ t \in Nat \ {0}
    BY <1>1, <1>2, <2>1
  <2> QED
    BY <2>2 DEF InFlight
<1> HIDE DEF shift, rest
<1>9. shift \in Bijection(rest, InFlight(kind)')
  BY <1>6, <1>7, <1>8, Fun_IsBij
<1> QED
  BY <1>4, <1>9, FS_Bijection DEF ExistsBijection

(* How many connection tasks have handed a session over and not counted it *)
(* yet.                                                                    *)
LEMMA CountingFinite ==
  ASSUME TypeOK
  PROVE  /\ IsFiniteSet(Counting) /\ Cardinality(Counting) \in Nat
         /\ IsFiniteSet(running) /\ Cardinality(running) \in Nat
BY PeerManagerAssumption, FS_Subset, FS_CardinalityType DEF TypeOK, Counting

LEMMA CountingMoves ==
  ASSUME TypeOK, NEW s \in Session,
         \A r \in Session \ {s} : task'[r] = task[r]
  PROVE  Cardinality(Counting') =
           Cardinality(Counting) + (IF task'[s] = "count" THEN 1 ELSE 0)
                                 - (IF task[s] = "count" THEN 1 ELSE 0)
<1>1. s \in Counting <=> task[s] = "count"
  BY DEF Counting
<1>2. CASE task'[s] = "count"
  <2>1. Counting' = Counting \cup {s}
    BY <1>2 DEF Counting
  <2>2. Cardinality(Counting \cup {s}) = IF s \in Counting THEN Cardinality(Counting)
                                                           ELSE Cardinality(Counting) + 1
    BY CountingFinite, FS_AddElement
  <2> QED
    BY <1>1, <1>2, <2>1, <2>2, CountingFinite
<1>3. CASE task'[s] # "count"
  <2>1. Counting' = Counting \ {s}
    BY <1>3 DEF Counting
  <2>2. Cardinality(Counting \ {s}) = IF s \in Counting THEN Cardinality(Counting) - 1
                                                       ELSE Cardinality(Counting)
    BY CountingFinite, FS_RemoveElement
  <2> QED
    BY <1>1, <1>3, <2>1, <2>2, CountingFinite
<1> QED
  BY <1>2, <1>3

(* The terms of the balance are numbers.                                    *)
LEMMA BooksAreNumbers ==
  ASSUME TypeOK
  PROVE  /\ balance \in Int
         /\ Cardinality(running) \in Nat
         /\ Cardinality(Counting) \in Nat
         /\ Cardinality(InFlight("Disconnected")) \in Nat
<1>1. balance \in Int
  BY DEF TypeOK
<1> QED
  BY <1>1, CountingFinite, InFlightFinite

(* What Accounted rests on: a session whose connection task has yet to hand *)
(* it over has no peer task, so that the hand-over starts one.              *)
Apart == \A s \in Session : task[s] \in {"handshake", "push"} => s \notin running

BalanceInv == TypeOK /\ Apart /\ Accounted

(* A step that leaves the sessions and the counters alone, and takes and    *)
(* posts no Disconnected event.                                             *)
LEMMA BalanceFrame ==
  ASSUME BalanceInv, UNCHANGED <<task, running, balance>>,
         Cardinality(InFlight("Disconnected")') = Cardinality(InFlight("Disconnected")),
         mgr'.pc = "disconnected" <=> mgr.pc = "disconnected"
  PROVE  Apart' /\ Accounted'
BY DEF BalanceInv, Apart, Accounted, Counting

LEMMA BalanceConnect ==
  ASSUME BalanceInv, NEW s \in Session, Connect(s)
  PROVE  Apart' /\ Accounted'
<1> USE DEF connVars, sharedVars, metricVars
<1>0. TypeOK /\ Apart /\ Accounted /\ Done(s) \in {"idle", "unpend"}
  BY DEF BalanceInv, Done
<1> DEFINE closing == Cardinality(InFlight("Disconnected"))
<1>1. ASSUME NEW t \in {"idle", "unpend", "push"}, task' = [task EXCEPT ![s] = t],
             t = "push" => task[s] = "handshake", task[s] # "count",
             UNCHANGED <<running, balance, mgr>>, closing' = closing
      PROVE  Apart' /\ Accounted'
  <2>1. Apart'
    BY <1>0, <1>1 DEF Apart, TypeOK
  <2>2. task'[s] = t /\ \A r \in Session \ {s} : task'[r] = task[r]
    BY <1>0, <1>1 DEF TypeOK
  <2>3. Cardinality(Counting') = Cardinality(Counting)
    BY <1>0, <1>1, <2>2, CountingMoves, BooksAreNumbers
  <2> QED
    BY <1>0, <1>1, <2>1, <2>3 DEF Accounted
<1>2. CASE HandshakeOk(s)
  <2>1. closing' = closing
    BY <1>0, <1>2, EventOK, PostCounts, InFlightFinite DEF HandshakeOk, Event
  <2> QED
    BY <1>1, <1>2, <2>1 DEF HandshakeOk
<1>3. CASE HandshakeFail(s)
  BY <1>0, <1>1, <1>3 DEF HandshakeFail, InFlight
<1>4. CASE PushHandle(s)
  <2>1. s \notin running /\ running' = running \cup {s}
    BY <1>0, <1>4 DEF PushHandle, Apart
  <2>2. Cardinality(running') = Cardinality(running) + 1
    BY <1>0, <2>1, CountingFinite, FS_AddElement
  <2>3. Cardinality(Counting') = Cardinality(Counting) + 1
    <3>1. task[s] = "push" /\ task'[s] = "count" /\ \A r \in Session \ {s} : task'[r] = task[r]
      BY <1>0, <1>4 DEF PushHandle, TypeOK
    <3> QED
      BY <1>0, <3>1, CountingMoves, BooksAreNumbers
  <2>4. UNCHANGED <<balance, mgr>> /\ closing' = closing
    BY <1>4 DEF PushHandle, InFlight
  <2>5. Accounted'
    BY <1>0, <2>2, <2>3, <2>4, BooksAreNumbers DEF Accounted
  <2>6. Apart'
    BY <1>0, <1>4 DEF PushHandle, Apart, TypeOK
  <2> QED
    BY <2>5, <2>6
<1>5. CASE SkipDuplicate(s)
  BY <1>0, <1>1, <1>5 DEF SkipDuplicate, InFlight
<1>6. CASE CountConnection(s)
  <2>1. Cardinality(Counting') = Cardinality(Counting) - 1
    <3>1. task[s] = "count" /\ task'[s] = Done(s) /\ \A r \in Session \ {s} : task'[r] = task[r]
      BY <1>0, <1>6 DEF CountConnection, TypeOK
    <3> QED
      BY <1>0, <3>1, CountingMoves, BooksAreNumbers
  <2>2. UNCHANGED <<running, mgr>> /\ closing' = closing /\ balance' = balance + 1
    BY <1>6 DEF CountConnection, InFlight
  <2>3. Accounted'
    BY <1>0, <2>1, <2>2, BooksAreNumbers DEF Accounted
  <2>4. Apart'
    BY <1>0, <1>6 DEF CountConnection, Apart, TypeOK
  <2> QED
    BY <2>3, <2>4
<1>7. CASE Unpend(s)
  BY <1>0, <1>1, <1>7 DEF Unpend, InFlight
<1> QED
  BY <1>2, <1>3, <1>4, <1>5, <1>6, <1>7 DEF Connect

LEMMA BalanceEnvironment ==
  ASSUME BalanceInv, NEW s \in Session, Environment(s)
  PROVE  Apart' /\ Accounted'
<1> USE DEF connVars, sharedVars, metricVars
<1>0. TypeOK /\ Apart /\ Accounted
  BY DEF BalanceInv
<1> DEFINE closing == Cardinality(InFlight("Disconnected"))
<1>1. CASE Accept(s)
  <2>1. Cardinality(Counting') = Cardinality(Counting)
    <3>1. /\ task[s] = "idle" /\ task'[s] = "handshake"
          /\ \A r \in Session \ {s} : task'[r] = task[r]
      BY <1>0, <1>1 DEF Accept, Free, TypeOK
    <3> QED
      BY <1>0, <3>1, CountingMoves, BooksAreNumbers
  <2>2. UNCHANGED <<running, balance, mgr>> /\ closing' = closing
    BY <1>1 DEF Accept, InFlight
  <2>3. Apart'
    BY <1>0, <1>1 DEF Accept, Free, Apart, TypeOK
  <2> QED
    BY <1>0, <2>1, <2>2, <2>3 DEF Accounted
<1>2. CASE Stop(s)
  <2>1. Cardinality(running') = Cardinality(running) - 1
    BY <1>0, <1>2, CountingFinite, FS_RemoveElement DEF Stop
  <2>2. closing' = closing + 1
    BY <1>0, <1>2, EventOK, PostCounts DEF Stop, Event
  <2>3. UNCHANGED <<balance, mgr, Counting>>
    BY <1>2 DEF Stop, Counting
  <2>4. Accounted'
    BY <1>0, <2>1, <2>2, <2>3, BooksAreNumbers DEF Accounted
  <2>5. Apart'
    BY <1>0, <1>2 DEF Stop, Apart
  <2> QED
    BY <2>4, <2>5
<1>3. CASE Drain(s)
  BY <1>3, BalanceFrame DEF Drain, InFlight
<1>4. ASSUME NEW kind \in Reports, Report(s, kind) PROVE Apart' /\ Accounted'
  <2>1. kind \in {"Tx", "Request", "Addresses"}
    BY PeerManagerAssumption
  <2>2. closing' = closing
    BY <1>0, <1>4, <2>1, EventOK, PostCounts, InFlightFinite DEF Report, Event
  <2> QED
    BY <1>4, <2>2, BalanceFrame DEF Report
<1> QED
  BY <1>1, <1>2, <1>3, <1>4 DEF Environment

LEMMA BalanceManage == BalanceInv /\ Manage => Apart' /\ Accounted'
<1> SUFFICES ASSUME BalanceInv, Manage PROVE Apart' /\ Accounted'
  OBVIOUS
<1> USE DEF connVars, sharedVars, metricVars
<1>0. TypeOK /\ Apart /\ Accounted
  BY DEF BalanceInv
<1> DEFINE closing == Cardinality(InFlight("Disconnected"))
<1>1. ASSUME NEW kind, Receive(kind), kind # "Disconnected",
             UNCHANGED <<task, running, balance>>, mgr'.pc # "disconnected"
      PROVE  Apart' /\ Accounted'
  <2>1. closing' = closing
    BY <1>0, <1>1, ReceiveCounts, InFlightFinite
  <2> QED
    BY <1>1, <2>1, BalanceFrame DEF Receive
<1>2. CASE HandleConnected
  BY <1>0, <1>1, <1>2 DEF HandleConnected, TypeOK
<1>3. CASE HandleDisconnected
  <2>1. closing' = closing - 1
    BY <1>0, <1>3, ReceiveCounts DEF HandleDisconnected
  <2>2. /\ mgr.pc = "recv" /\ mgr'.pc = "disconnected"
        /\ UNCHANGED <<task, running, balance, Counting>>
    BY <1>0, <1>3 DEF HandleDisconnected, Receive, Counting, TypeOK
  <2> QED
    BY <1>0, <2>1, <2>2, BooksAreNumbers DEF Apart, Accounted
<1>4. CASE FinishDisconnected
  <2>1. mgr.pc = "disconnected" /\ mgr'.pc = "counts" /\ balance' = balance - 1
    BY <1>4 DEF FinishDisconnected, IdleManager
  <2>2. UNCHANGED <<task, running, Counting>> /\ closing' = closing
    BY <1>4 DEF FinishDisconnected, Counting, InFlight
  <2> QED
    BY <1>0, <2>1, <2>2, BooksAreNumbers DEF Apart, Accounted
<1>5. CASE HandleTx
  BY <1>0, <1>1, <1>5 DEF HandleTx, TypeOK
<1>6. ASSUME NEW s \in Session, RelayTo(s) PROVE Apart' /\ Accounted'
  BY <1>0, <1>6, BalanceFrame DEF RelayTo, InFlight, TypeOK
<1>7. CASE RelayEnd
  BY <1>7, BalanceFrame DEF RelayEnd, IdleManager, InFlight
<1>8. CASE HandleRequest
  <2>1. mgr'.pc # "disconnected"
    BY <1>0, <1>8 DEF HandleRequest, Receive, TypeOK
  <2> QED
    BY <1>1, <1>8, <2>1 DEF HandleRequest
<1>9. CASE HandleAddresses
  BY <1>0, <1>1, <1>9 DEF HandleAddresses, Receive
<1>10. CASE PruneStale
  BY <1>10, BalanceFrame DEF PruneStale, IdleManager, InFlight
<1>11. CASE UpdatePeerCounts
  BY <1>11, BalanceFrame DEF UpdatePeerCounts, IdleManager, InFlight
<1> QED
  BY <1>2, <1>3, <1>4, <1>5, <1>6, <1>7, <1>8, <1>9, <1>10, <1>11 DEF Manage

LEMMA BalanceTick == BalanceInv /\ Tick => Apart' /\ Accounted'
<1> SUFFICES ASSUME BalanceInv, Tick PROVE Apart' /\ Accounted'
  OBVIOUS
<1> USE DEF connVars, sharedVars, metricVars
<1>0. TypeOK /\ Apart /\ Accounted
  BY DEF BalanceInv
<1>1. ASSUME NEW s \in Session, TickDial(s) PROVE Apart' /\ Accounted'
  <2>1. Cardinality(Counting') = Cardinality(Counting)
    <3>1. /\ task[s] = "idle" /\ task'[s] = "handshake"
          /\ \A r \in Session \ {s} : task'[r] = task[r]
      BY <1>0, <1>1 DEF TickDial, Free, TypeOK
    <3> QED
      BY <1>0, <3>1, CountingMoves, BooksAreNumbers
  <2>2. /\ UNCHANGED <<running, balance, mgr>>
        /\ Cardinality(InFlight("Disconnected"))' = Cardinality(InFlight("Disconnected"))
    BY <1>1 DEF TickDial, InFlight
  <2>3. Apart'
    BY <1>0, <1>1 DEF TickDial, Free, Apart, TypeOK
  <2> QED
    BY <1>0, <2>1, <2>2, <2>3 DEF Accounted
<1>2. CASE TickCount \/ TickConnected \/ TickPending \/ TickQuery \/ TickEnd
  BY <1>2, BalanceFrame
     DEF TickCount, TickConnected, TickPending, TickQuery, TickEnd, InFlight
<1> QED
  BY <1>1, <1>2 DEF Tick

(* The connection counters never drift from the sessions: whatever is       *)
(* skipped as a duplicate, refused a message or pruned, every session that  *)
(* is counted in is counted out once, when its Disconnected event is        *)
(* handled.                                                                 *)
THEOREM ConnectionsBalance == Spec => []Accounted
<1>1. Init => BalanceInv
  <2> SUFFICES ASSUME Init PROVE Apart /\ Accounted
    BY TypeInit DEF BalanceInv
  <2>1. InFlight("Disconnected") = {} /\ running = {}
    BY DEF Init, InFlight
  <2>2. Counting = {}
    BY DEF Init, Counting
  <2>3. mgr.pc # "disconnected" /\ balance = 0
    BY DEF Init, IdleManager
  <2>4. Accounted
    BY <2>1, <2>2, <2>3, FS_EmptySet DEF Accounted
  <2> QED
    BY <2>1, <2>4 DEF Apart
<1>2. BalanceInv /\ [Next]_vars => BalanceInv'
  <2> SUFFICES ASSUME BalanceInv, [Next]_vars PROVE Apart' /\ Accounted'
    BY TypeNext DEF BalanceInv
  <2>1. CASE UNCHANGED vars
    BY <2>1, BalanceFrame DEF vars, connVars, sharedVars, metricVars, InFlight
  <2>2. ASSUME NEW S \in SUBSET peers, Probe(S) PROVE Apart' /\ Accounted'
    BY <2>2, BalanceFrame DEF Probe, sharedVars, metricVars, InFlight
  <2> QED
    BY <2>1, <2>2, BalanceTick, BalanceManage, BalanceConnect, BalanceEnvironment DEF Next
<1>3. BalanceInv => Accounted
  BY DEF BalanceInv
<1> QED
  BY <1>1, <1>2, <1>3, PTL DEF Spec

-----------------------------------------------------------------------------
(* The abstract directory.                                                 *)

(* The directory counts as the peer manager does.                           *)
LEMMA BookCardinality ==
  ASSUME NEW S
  PROVE  Book!Cardinality(S) = Cardinality(S)
BY DEF Cardinality, Book!Cardinality

(* As no two handles share an address, there are as many handles as there   *)
(* are addresses listed.                                                    *)
LEMMA HandlesAreAddresses ==
  ASSUME TypeOK, UniqueHandles
  PROVE  Cardinality(PeerAddrs) = Cardinality(peers)
<1> DEFINE addr == [s \in peers |-> AddrOf[s]]
<1>1. addr \in [peers -> PeerAddrs]
  BY DEF PeerAddrs
<1>2. \A r, s \in peers : addr[r] = addr[s] => r = s
  BY DEF UniqueHandles
<1>3. \A a \in PeerAddrs : \E s \in peers : addr[s] = a
  BY DEF PeerAddrs
<1> HIDE DEF addr
<1>4. addr \in Bijection(peers, PeerAddrs)
  BY <1>1, <1>2, <1>3, Fun_IsBij
<1> QED
  BY <1>4, PeersFinite, FS_Bijection DEF ExistsBijection

(* Striking some addresses leaves the handles of the others.                *)
LEMMA RetainStrikes ==
  ASSUME TypeOK, NEW addrs \in SUBSET Addr, peers' = Retain(addrs)
  PROVE  PeerAddrs' = PeerAddrs \ addrs
BY DEF Retain, PeerAddrs

Owed == mgr.pc \in {"disconnected", "counts"}

(* A step that neither dials, lists, strikes nor counts.                    *)
LEMMA BookFrame ==
  ASSUME UNCHANGED <<pending, peers, gauge>>, Owed' <=> Owed
  PROVE  UNCHANGED Book!vars
BY DEF Book!vars, PeerAddrs, Owed

LEMMA BookManage ==
  ASSUME TypeOK, UniqueHandles, Manage
  PROVE  [Book!Next]_(Book!vars)
<1> USE DEF connVars, sharedVars, metricVars
<1>1. CASE HandleConnected
  <2>1. ~Owed /\ Owed' /\ UNCHANGED <<pending, PeerAddrs, gauge>>
    BY <1>1 DEF HandleConnected, Receive, Owed, PeerAddrs, TypeOK
  <2>2. Book!Strike({})
    BY <2>1 DEF Book!Strike, Owed
  <2> QED
    BY <2>2 DEF Book!Next
<1>2. CASE HandleDisconnected
  <2>1. {Head(events).addr} \in SUBSET Addr
    BY <1>2, ReceiveOK DEF HandleDisconnected, Events
  <2>2. ~Owed /\ Owed' /\ UNCHANGED <<pending, gauge>>
    BY <1>2 DEF HandleDisconnected, Receive, Owed, TypeOK
  <2>3. PeerAddrs' = PeerAddrs \ {Head(events).addr}
    BY <1>2, <2>1, RetainStrikes DEF HandleDisconnected
  <2>4. Book!Strike({Head(events).addr})
    BY <2>2, <2>3 DEF Book!Strike, Owed
  <2> QED
    BY <2>1, <2>4 DEF Book!Next
<1>3. CASE FinishDisconnected
  BY <1>3, BookFrame DEF FinishDisconnected, IdleManager, Owed
<1>4. CASE HandleTx
  BY <1>4, BookFrame DEF HandleTx, Receive, Owed, TypeOK
<1>5. CASE RelayEnd
  BY <1>5, BookFrame DEF RelayEnd, IdleManager, Owed
<1>6. ASSUME NEW s \in Session, RelayTo(s) PROVE UNCHANGED Book!vars
  BY <1>6, BookFrame DEF RelayTo, Owed, TypeOK
<1>7. CASE HandleRequest
  <2>1. mgr.pc = "recv" /\ mgr'.pc \in {"recv", "prune"}
    BY <1>7 DEF HandleRequest, Receive, TypeOK
  <2> QED
    BY <1>7, <2>1, BookFrame DEF HandleRequest, Owed
<1>8. CASE HandleAddresses
  BY <1>8, BookFrame DEF HandleAddresses, Receive, Owed
<1>9. CASE PruneStale
  <2>1. mgr.stale \in SUBSET Addr /\ UNCHANGED <<pending, gauge>> /\ ~Owed
    BY <1>9 DEF PruneStale, Owed, TypeOK
  <2>2. CASE peers' = peers
    BY <1>9, <2>1, <2>2, BookFrame DEF PruneStale, IdleManager, Owed
  <2>3. CASE peers' # peers
    <3>1. Owed'
      BY <1>9, <2>3 DEF PruneStale, IdleManager, Owed
    <3>2. PeerAddrs' = PeerAddrs \ mgr.stale
      BY <1>9, <2>1, RetainStrikes DEF PruneStale
    <3>3. Book!Strike(mgr.stale)
      BY <2>1, <3>1, <3>2 DEF Book!Strike, Owed
    <3> QED
      BY <2>1, <3>3 DEF Book!Next
  <2> QED
    BY <2>2, <2>3
<1>10. CASE UpdatePeerCounts
  <2>1. Owed /\ ~Owed' /\ UNCHANGED <<pending, PeerAddrs>> /\ gauge' = Cardinality(PeerAddrs)
    BY <1>10, HandlesAreAddresses DEF UpdatePeerCounts, IdleManager, PeerAddrs, Owed
  <2>2. Book!Count
    BY <2>1, BookCardinality DEF Book!Count, Owed
  <2> QED
    BY <2>2 DEF Book!Next
<1> QED
  BY <1>1, <1>2, <1>3, <1>4, <1>5, <1>6, <1>7, <1>8, <1>9, <1>10 DEF Manage

LEMMA BookConnect ==
  ASSUME TypeOK, PendingExact, NEW s \in Session, Connect(s)
  PROVE  [Book!Next]_(Book!vars)
<1> USE DEF connVars, sharedVars, metricVars
<1>0. AddrOf[s] \in Addr
  BY PeerManagerAssumption
<1>1. CASE PushHandle(s)
  <2>1. AddrOf[s] \notin PeerAddrs /\ PeerAddrs' = PeerAddrs \cup {AddrOf[s]}
    BY <1>1 DEF PushHandle, PeerAddrs
  <2>2. Book!List(AddrOf[s])
    BY <1>1, <2>1 DEF PushHandle, Book!List
  <2> QED
    BY <1>0, <2>2 DEF Book!Next
<1>2. CASE Unpend(s)
  <2>1. AddrOf[s] \in pending
    BY <1>2 DEF Unpend, PendingExact, Dialling
  <2>2. Book!Settle(AddrOf[s])
    BY <1>2, <2>1 DEF Unpend, PeerAddrs, Book!Settle
  <2> QED
    BY <1>0, <2>2 DEF Book!Next
<1>3. CASE HandshakeOk(s) \/ HandshakeFail(s) \/ SkipDuplicate(s) \/ CountConnection(s)
  <2>1. UNCHANGED <<pending, peers, gauge, mgr>>
    BY <1>3 DEF HandshakeOk, HandshakeFail, SkipDuplicate, CountConnection
  <2> QED
    BY <2>1, BookFrame DEF Owed
<1> QED
  BY <1>1, <1>2, <1>3 DEF Connect

LEMMA BookTick ==
  ASSUME DialInv, Tick
  PROVE  [Book!Next]_(Book!vars)
<1> USE DEF connVars, sharedVars, metricVars
<1>1. ASSUME NEW s \in Session, TickDial(s) PROVE Book!Dial(AddrOf[s]) /\ AddrOf[s] \in Addr
  BY <1>1, FreshDial, PeerManagerAssumption DEF TickDial, PeerAddrs, Book!Dial
<1>2. CASE TickCount \/ TickConnected \/ TickPending \/ TickQuery \/ TickEnd
  <2>1. UNCHANGED <<pending, peers, gauge, mgr>>
    BY <1>2 DEF TickCount, TickConnected, TickPending, TickQuery, TickEnd
  <2> QED
    BY <2>1, BookFrame DEF Owed
<1> QED
  BY <1>1, <1>2 DEF Tick, Book!Next

(* Every step of the peer manager is a step of the directory or stutters    *)
(* there: the safety part of DirectoryKept.                                 *)
THEOREM KeepsDirectory == Spec => Book!Init /\ [][Book!Next]_(Book!vars)
<1>1. Init => Book!Init
  BY DEF Init, IdleManager, PeerAddrs, Book!Init
<1>2. DialInv /\ UniqueHandles /\ [Next]_vars => [Book!Next]_(Book!vars)
  <2> SUFFICES ASSUME DialInv, UniqueHandles, [Next]_vars PROVE [Book!Next]_(Book!vars)
    OBVIOUS
  <2>0. TypeOK /\ PendingExact
    BY DEF DialInv
  <2>1. ASSUME UNCHANGED <<pending, peers, gauge, mgr>> PROVE UNCHANGED Book!vars
    BY <2>1, BookFrame DEF Owed
  <2>2. ASSUME NEW s \in Session, Environment(s) PROVE UNCHANGED <<pending, peers, gauge, mgr>>
    BY <2>2 DEF Environment, Accept, Stop, Drain, Report, connVars, sharedVars, metricVars
  <2>3. ASSUME NEW S \in SUBSET peers, Probe(S) PROVE UNCHANGED <<pending, peers, gauge, mgr>>
    BY <2>3 DEF Probe, connVars, sharedVars, metricVars
  <2>4. UNCHANGED vars => UNCHANGED <<pending, peers, gauge, mgr>>
    BY DEF vars, connVars, sharedVars, metricVars
  <2> QED
    BY <2>0, <2>1, <2>2, <2>3, <2>4, BookManage, BookConnect, BookTick DEF Next
<1>3. Spec => []DialInv
  BY DialInit, DialNext, PTL DEF Spec
<1> QED
  BY <1>1, <1>2, <1>3, HandlesStayUnique, PTL DEF Spec
=============================================================================
