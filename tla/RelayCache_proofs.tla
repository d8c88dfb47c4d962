-------------------------- MODULE RelayCache_proofs --------------------------
(***************************************************************************)
(* Theorems about the relay memory, for every set of transactions, every   *)
(* size of its caches and every expiry time.                               *)
(***************************************************************************)
EXTENDS RelayCache, RelayOps_proofs, FunctionTheorems

(* The inductive invariant: the properties of RelayCache that do not depend *)
(* on how the two caches are sized relative to each other.                  *)
Inv == Consistent(relay)

(* Every reachable memory is consistent.                                    *)
THEOREM Invariance == Spec => []Inv
<1>1. Init => Inv
  BY EmptyOK DEF Init, Inv, Consistent
<1>2. Inv /\ [Next]_vars => Inv'
  <2> SUFFICES ASSUME Inv, [Next]_vars PROVE Inv'
    OBVIOUS
  <2>1. ASSUME NEW keys \in Announcements, HandleInv(keys) PROVE Inv'
    BY <2>1, HandleInvOK, AnnouncementsAssumption DEF Inv, HandleInv
  <2>2. ASSUME NEW tx \in Tx, HandleTx(tx) PROVE Inv'
    BY <2>2, HandleTxOK DEF Inv, HandleTx
  <2>3. CASE Tick
    BY <2>3, AgeOK DEF Inv, Tick
  <2>4. CASE UNCHANGED vars
    BY <2>4 DEF Inv, vars
  <2> QED
    BY <2>1, <2>2, <2>3, <2>4 DEF Next
<1> QED
  BY <1>1, <1>2, PTL DEF Spec

(* Type correctness of the relay memory.                                    *)
THEOREM TypeCorrect == Spec => []TypeOK
<1>1. Inv => TypeOK
  BY DEF Inv, Consistent, TypeOK
<1> QED
  BY <1>1, Invariance, PTL

(* The duplicate filter and its eviction queue never drift apart, so a hash *)
(* that is filtered out is one that will be evicted again.                  *)
THEOREM SeenNeverDrifts == Spec => []SeenIndexed
<1>1. Inv => SeenIndexed
  BY DEF Inv, Consistent, SeenIndexed
<1> QED
  BY <1>1, Invariance, PTL

(* The three indexes of the transaction cache always agree.                 *)
THEOREM CacheNeverDrifts == Spec => []CacheIndexed
<1>1. Inv => CacheIndexed
  BY DEF Inv, Consistent, CacheIndexed
<1> QED
  BY <1>1, Invariance, PTL

(* No hash is waited for once it has been seen.                             *)
THEOREM SeenIsAnswered == Spec => []RequestsUnseen
<1>1. Inv => RequestsUnseen
  BY DEF Inv, Consistent, RequestsUnseen
<1> QED
  BY <1>1, Invariance, PTL

-----------------------------------------------------------------------------
(* The memory with its queues and its index implements RelayMemory.        *)

(* The instance counts as this module does.                                 *)
LEMMA SameCardinality ==
  ASSUME NEW S
  PROVE  Memory!Cardinality(S) = Cardinality(S)
BY DEF Cardinality, Memory!Cardinality

(* What mark_seen evicts: nothing while there is room, never the hash it was *)
(* called with before, and the filter stays full once it is.                 *)
LEMMA MarkSeenEvicts ==
  ASSUME NEW rs, IsRelayState(rs), SeenIndex(rs), NEW key \in Id
  PROVE  LET r == MarkSeen(rs, key)
             n == Len(rs.seen_order)
         IN  /\ Len(r.seen_order) >= n
             /\ r.seen_txids # rs.seen_txids \cup {key} => Len(r.seen_order) = SeenLimit
             /\ key \notin rs.seen_txids =>
                  Len(r.seen_order) >= 1 /\ r.seen_order[Len(r.seen_order)] = key
             /\ n >= 1 => rs.seen_order[n] \in r.seen_txids
<1> DEFINE r     == MarkSeen(rs, key)
           old   == rs.seen_order
           n     == Len(old)
           order == Append(old, key)
<1>1. old \in Seq(Id) /\ IsInjective(old) /\ rs.seen_txids = Range(old) /\ n <= SeenLimit
  BY DEF IsRelayState, SeenIndex
<1>2. SeenLimit \in Nat \ {0, 1} /\ n \in Nat /\ DOMAIN old = 1..n
  BY <1>1, RelayAssumption
<1>3. CASE key \in rs.seen_txids
  BY <1>1, <1>2, <1>3 DEF MarkSeen, Range
<1>4. CASE key \notin rs.seen_txids
  <2>1. /\ r.seen_txids = (rs.seen_txids \cup {key}) \ Popped(order, SeenLimit)
        /\ r.seen_order = Newest(order, SeenLimit)
    BY <1>4 DEF MarkSeen, IsRelayState
  <2>2. /\ order \in Seq(Id)
        /\ Len(order) = n + 1
        /\ IsInjective(order)
    BY <1>1, <1>4, AppendNew
  <2>3. order[n + 1] = key /\ \A i \in 1..n : order[i] = old[i]
    BY <1>1, <1>2, <1>4, AppendProperties
  <2> HIDE DEF order
  <2>4. /\ Len(order) <= SeenLimit =>
             Newest(order, SeenLimit) = order /\ Popped(order, SeenLimit) = {}
        /\ Len(order) > SeenLimit =>
             /\ Len(Newest(order, SeenLimit)) = SeenLimit
             /\ Newest(order, SeenLimit)[SeenLimit] = order[Len(order)]
    BY <1>2, <2>2, NewestLength
  <2>5. ASSUME n >= 1 PROVE old[n] \in r.seen_txids
    <3>1. \A j \in DOMAIN order : order[j] = old[n] => j = n
      BY <1>2, <2>2, <2>3, <2>5 DEF IsInjective
    <3>2. ~ (n + SeenLimit <= Len(order))
      BY <1>2, <2>2
    <3>3. old[n] \notin Popped(order, SeenLimit)
      BY <3>1, <3>2 DEF Popped
    <3>4. old[n] \in rs.seen_txids
      BY <1>1, <1>2, <2>5 DEF Range
    <3> QED
      BY <2>1, <3>3, <3>4
  <2> HIDE DEF r, old, n
  <2>6. /\ Len(r.seen_order) >= n
        /\ r.seen_txids # rs.seen_txids \cup {key} => Len(r.seen_order) = SeenLimit
        /\ Len(r.seen_order) >= 1 /\ r.seen_order[Len(r.seen_order)] = key
    <3>1. CASE Len(order) <= SeenLimit
      BY <1>2, <2>1, <2>2, <2>3, <2>4, <3>1
    <3>2. CASE Len(order) > SeenLimit
      BY <1>1, <1>2, <2>1, <2>2, <2>3, <2>4, <3>2
    <3> QED
      BY <1>2, <2>2, <3>1, <3>2
  <2> QED
    BY <2>5, <2>6 DEF r, old, n
<1> QED
  BY <1>3, <1>4

-----------------------------------------------------------------------------
(* Two calls of mark_seen take in both hashes, as the locked section of the *)
(* Tx handler does; when the first finds its hash, one call remains.        *)
LEMMA SeenTakesIn ==
  ASSUME NEW rs, IsRelayState(rs), SeenIndex(rs), NEW a \in Id, NEW b \in Id
  PROVE  LET r == MarkSeen(MarkSeen(rs, a), b)
         IN  IF a \in rs.seen_txids
             THEN Memory!TakesIn(rs.seen_txids, {b}, SeenLimit, r.seen_txids)
             ELSE Memory!TakesIn(rs.seen_txids, {a, b}, SeenLimit, r.seen_txids)
<1> DEFINE c == MarkSeen(rs, a)
           r == MarkSeen(c, b)
<1>1. /\ IsRelayState(c)
      /\ SeenIndex(c)
      /\ a \in c.seen_txids
      /\ c.seen_txids \subseteq rs.seen_txids \cup {a}
      /\ a \in rs.seen_txids => c = rs
      /\ c.seen_txids # rs.seen_txids \cup {a} => Len(c.seen_order) = SeenLimit
      /\ a \notin rs.seen_txids =>
           Len(c.seen_order) >= 1 /\ c.seen_order[Len(c.seen_order)] = a
  <2>1. a \in rs.seen_txids => c = rs
    BY DEF MarkSeen
  <2>2. /\ IsRelayState(c)
        /\ SeenIndex(c)
        /\ a \in c.seen_txids
        /\ c.seen_txids \subseteq rs.seen_txids \cup {a}
    BY MarkSeenOK
  <2>3. /\ c.seen_txids # rs.seen_txids \cup {a} => Len(c.seen_order) = SeenLimit
        /\ a \notin rs.seen_txids =>
             Len(c.seen_order) >= 1 /\ c.seen_order[Len(c.seen_order)] = a
    BY MarkSeenEvicts
  <2> QED
    BY <2>1, <2>2, <2>3
<1> HIDE DEF c
<1>2. /\ IsRelayState(r)
      /\ SeenIndex(r)
      /\ b \in r.seen_txids
      /\ r.seen_txids \subseteq c.seen_txids \cup {b}
      /\ Len(r.seen_order) >= Len(c.seen_order)
      /\ r.seen_txids # c.seen_txids \cup {b} => Len(r.seen_order) = SeenLimit
      /\ Len(c.seen_order) >= 1 => c.seen_order[Len(c.seen_order)] \in r.seen_txids
  BY <1>1, MarkSeenOK, MarkSeenEvicts
<1> HIDE DEF r
<1>3. Len(r.seen_order) <= SeenLimit /\ Len(r.seen_order) \in Nat /\ Len(c.seen_order) \in Nat
  BY <1>1, <1>2 DEF SeenIndex, IsRelayState
<1>4. Memory!Cardinality(r.seen_txids) = Len(r.seen_order)
  BY <1>2, QueueCardinality, SameCardinality DEF SeenIndex, IsRelayState
<1>5. SeenLimit \in Nat
  BY RelayAssumption
<1>6. Len(c.seen_order) = SeenLimit => Len(r.seen_order) = SeenLimit
  BY <1>2, <1>3, <1>5
<1>7. Memory!Cardinality(r.seen_txids) <= SeenLimit
  BY <1>3, <1>4
<1>8. CASE a \in rs.seen_txids
  BY <1>1, <1>2, <1>4, <1>7, <1>8 DEF Memory!TakesIn, r, c
<1>9. CASE a \notin rs.seen_txids
  <2>1. a \in r.seen_txids
    BY <1>1, <1>2, <1>9
  <2>2. r.seen_txids \subseteq rs.seen_txids \cup {a, b}
    BY <1>1, <1>2
  <2>3. r.seen_txids # rs.seen_txids \cup {a, b} => Len(r.seen_order) = SeenLimit
    BY <1>1, <1>2, <1>6
  <2>4. Memory!TakesIn(rs.seen_txids, {a, b}, SeenLimit, r.seen_txids)
    BY <1>2, <1>4, <1>7, <2>1, <2>2, <2>3 DEF Memory!TakesIn
  <2> QED
    BY <1>9, <2>4 DEF r, c
<1> QED
  BY <1>8, <1>9

(* insert_tx takes the transaction into the cache, in the place of the one  *)
(* with its txid if there is one, and evicts only to stay within the limit. *)
LEMMA CacheTakesIn ==
  ASSUME NEW rs, IsRelayState(rs), OrderIndex(rs), WtxidIndex(rs), NEW tx \in Tx
  PROVE  Memory!TakesIn({x \in Range(rs.tx_cache) : TxidOf[x] # TxidOf[tx]}, {tx},
                        TxLimit, Range(InsertTx(rs, tx).tx_cache))
<1> DEFINE r      == InsertTx(rs, tx)
           txid   == TxidOf[tx]
           order  == IF txid \in DOMAIN rs.tx_cache
                     THEN rs.tx_cache_order
                     ELSE Append(rs.tx_cache_order, txid)
           gone   == Popped(order, TxLimit)
           left   == Newest(order, TxLimit)
           cache  == Insert(rs.tx_cache, txid, tx)
           txs    == Restrict(cache, DOMAIN cache \ gone)
           others == {x \in Range(rs.tx_cache) : TxidOf[x] # txid}
<1>1. r.tx_cache = txs /\ r.tx_cache_order = left
  BY DEF InsertTx, IsRelayState
<1>2. IsRelayState(r) /\ OrderIndex(r) /\ WtxidIndex(r)
  BY InsertTxOK
<1>3. TxLimit \in Nat \ {0} /\ txid \in Id
  BY RelayAssumption
<1>4. /\ rs.tx_cache_order \in Seq(Id)
      /\ IsInjective(rs.tx_cache_order)
      /\ Range(rs.tx_cache_order) = DOMAIN rs.tx_cache
      /\ Len(rs.tx_cache_order) <= TxLimit
  BY DEF IsRelayState, OrderIndex
<1>5. order \in Seq(Id)
  BY <1>3, <1>4
<1>6. txid \notin gone
  <2>1. CASE txid \in DOMAIN rs.tx_cache
    <3>1. gone = {}
      BY <1>3, <1>4, <2>1, NewestLength
    <3> QED
      BY <3>1
  <2>2. CASE txid \notin DOMAIN rs.tx_cache
    <3>1. /\ Len(order) = Len(rs.tx_cache_order) + 1
          /\ IsInjective(order)
          /\ order[Len(order)] = txid
          /\ Len(order) \in DOMAIN order
      BY <1>3, <1>4, <2>2, AppendNew, AppendProperties
    <3> HIDE DEF order
    <3>2. \A j \in DOMAIN order : order[j] = txid => j = Len(order)
      BY <3>1 DEF IsInjective
    <3>3. ~ (Len(order) + TxLimit <= Len(order))
      BY <1>3, <1>5
    <3> QED
      BY <3>2, <3>3 DEF Popped
  <2> QED
    BY <2>1, <2>2
<1>7. Len(order) <= TxLimit => gone = {}
  BY <1>3, <1>5, NewestLength
<1>8. Len(order) > TxLimit => Len(left) = TxLimit
  BY <1>3, <1>5, NewestLength
<1>9. Len(order) \in Nat
  BY <1>5
<1> HIDE DEF order, gone, left
<1>10. /\ DOMAIN txs = (DOMAIN rs.tx_cache \cup {txid}) \ gone
       /\ txs[txid] = tx
       /\ \A t \in DOMAIN txs : t # txid => txs[t] = rs.tx_cache[t]
  BY <1>6 DEF Insert, Restrict
<1>11. \A t \in DOMAIN rs.tx_cache : TxidOf[rs.tx_cache[t]] = t
  BY DEF WtxidIndex
<1> HIDE DEF txs
<1>12. tx \in Range(txs)
  BY <1>6, <1>10 DEF Range
<1>13. Range(txs) \subseteq others \cup {tx}
  <2> SUFFICES ASSUME NEW t \in DOMAIN txs, t # txid
               PROVE  txs[t] \in others
    BY <1>10 DEF Range
  <2> QED
    BY <1>10, <1>11 DEF Range
<1>14. gone = {} => others \subseteq Range(txs)
  <2> SUFFICES ASSUME gone = {}, NEW t \in DOMAIN rs.tx_cache, TxidOf[rs.tx_cache[t]] # txid
               PROVE  rs.tx_cache[t] \in Range(txs)
    BY DEF Range
  <2> QED
    BY <1>10, <1>11 DEF Range
<1>15. Memory!Cardinality(Range(txs)) = Len(left)
  <2> DEFINE D == Range(left)
  <2>1. D = DOMAIN txs /\ left \in Seq(Id) /\ IsInjective(left)
    BY <1>1, <1>2 DEF OrderIndex, IsRelayState
  <2>2. IsFiniteSet(D) /\ Cardinality(D) = Len(left)
    BY <2>1, QueueCardinality
  <2>3. \A t \in DOMAIN txs : TxidOf[txs[t]] = t
    BY <1>1, <1>2 DEF WtxidIndex
  <2> DEFINE f == [t \in D |-> txs[t]]
  <2>4. f \in Bijection(D, Range(txs))
    <3>1. \A t \in D : f[t] \in Range(txs)
      BY <2>1 DEF Range
    <3>2. \A s, t \in D : f[s] = f[t] => s = t
      BY <2>1, <2>3
    <3>3. \A x \in Range(txs) : \E t \in D : f[t] = x
      BY <2>1 DEF Range
    <3> HIDE DEF D
    <3> QED
      BY <3>1, <3>2, <3>3 DEF Bijection, Injection, Surjection, IsInjective
  <2>5. ExistsBijection(D, Range(txs))
    BY <2>4 DEF ExistsBijection
  <2> QED
    BY <2>2, <2>5, FS_Bijection, SameCardinality
<1>16. Len(left) <= TxLimit
  BY <1>1, <1>2 DEF OrderIndex
<1>17. Range(txs) # others \cup {tx} => Len(left) = TxLimit
  BY <1>3, <1>7, <1>8, <1>9, <1>12, <1>13, <1>14
<1> HIDE DEF others
<1>18. Memory!TakesIn(others, {tx}, TxLimit, Range(txs))
  BY <1>12, <1>13, <1>15, <1>16, <1>17 DEF Memory!TakesIn
<1> QED
  BY <1>1, <1>18 DEF others

-----------------------------------------------------------------------------
(* The queues and the index are an implementation of the sets.              *)
THEOREM Implements == Spec => MemoryKept
<1>1. Init => Memory!Init
  BY DEF Init, Memory!Init, EmptyRelayState, EmptyMap, Range
<1>2. Inv /\ [Next]_vars => [Memory!Next]_(Memory!vars)
  <2> SUFFICES ASSUME Inv, [Next]_vars PROVE [Memory!Next]_(Memory!vars)
    OBVIOUS
  <2> USE DEF Inv, Consistent
  <2>1. ASSUME NEW keys \in Announcements, HandleInv(keys)
        PROVE  Memory!Announce(keys)
    <3>1. /\ relay'.seen_txids = relay.seen_txids
          /\ relay'.tx_cache = relay.tx_cache
          /\ DOMAIN relay'.requested_txids
               \subseteq DOMAIN relay.requested_txids \cup (keys \ relay.seen_txids)
      BY <2>1, MarkRequestedOK, AnnouncementsAssumption DEF HandleInv
    <3>2. keys \ relay.seen_txids \subseteq DOMAIN relay'.requested_txids
      <4>1. CASE keys = {}
        BY <4>1
      <4>2. CASE keys # {}
        <5>1. DOMAIN relay'.requested_txids
                = DOMAIN CleanupRequested(relay).requested_txids \cup Unrequested(relay, keys)
          BY <2>1, <4>2 DEF HandleInv, MarkRequested, IsRelayState
        <5> QED
          BY <5>1 DEF Unrequested
      <4> QED
        BY <4>1, <4>2
    <3> QED
      BY <3>1, <3>2 DEF Memory!Announce
  <2>2. ASSUME NEW tx \in Tx, HandleTx(tx)
        PROVE  Memory!AcceptNew(tx) \/ Memory!FilterOut(tx)
    <3> DEFINE txid  == TxidOf[tx]
               wtxid == WtxidOf[tx]
               b == CompleteRequest(CompleteRequest(relay, txid), wtxid)
               d == MarkSeen(MarkSeen(b, txid), wtxid)
               e == InsertTx(d, tx)
    <3>1. txid \in Id /\ wtxid \in Id
      BY RelayAssumption
    <3>2. relay' = IF txid \in relay.seen_txids THEN d ELSE e
      BY <2>2 DEF HandleTx, AcceptTx, IsNew
    <3> HIDE DEF txid, wtxid
    <3>3. /\ IsRelayState(b)
          /\ b.seen_txids = relay.seen_txids
          /\ b.seen_order = relay.seen_order
          /\ b.tx_cache = relay.tx_cache
          /\ b.tx_by_wtxid = relay.tx_by_wtxid
          /\ b.tx_cache_order = relay.tx_cache_order
          /\ DOMAIN b.requested_txids = DOMAIN relay.requested_txids \ {txid, wtxid}
      BY CompleteRequestOK
    <3> HIDE DEF b
    <3>4. SeenIndex(b)
      BY <3>3 DEF SeenIndex
    <3>5. /\ IsRelayState(d)
          /\ SeenIndex(d)
          /\ d.requested_txids = b.requested_txids
          /\ d.tx_cache = relay.tx_cache
          /\ d.tx_by_wtxid = relay.tx_by_wtxid
          /\ d.tx_cache_order = relay.tx_cache_order
      BY <3>1, <3>3, <3>4, MarkSeenOK
    <3>6. IF txid \in relay.seen_txids
          THEN Memory!TakesIn(relay.seen_txids, {wtxid}, SeenLimit, d.seen_txids)
          ELSE Memory!TakesIn(relay.seen_txids, {txid, wtxid}, SeenLimit, d.seen_txids)
      BY <3>1, <3>3, <3>4, SeenTakesIn
    <3> HIDE DEF d
    <3>7. OrderIndex(d) /\ WtxidIndex(d)
      BY <3>5 DEF OrderIndex, WtxidIndex
    <3>8. /\ e.seen_txids = d.seen_txids
          /\ e.requested_txids = d.requested_txids
          /\ Memory!TakesIn({x \in Range(relay.tx_cache) : TxidOf[x] # TxidOf[tx]}, {tx},
                            TxLimit, Range(e.tx_cache))
      BY <3>5, <3>7, InsertTxOK, CacheTakesIn
    <3> HIDE DEF e
    <3>9. CASE txid \in relay.seen_txids
      BY <3>2, <3>3, <3>5, <3>6, <3>9 DEF Memory!FilterOut, Memory!Answered, txid, wtxid
    <3>10. CASE txid \notin relay.seen_txids
      BY <3>2, <3>3, <3>5, <3>6, <3>8, <3>10 DEF Memory!AcceptNew, Memory!Answered, txid, wtxid
    <3> QED
      BY <3>9, <3>10
  <2>3. CASE Tick
    BY <2>3 DEF Tick, Age, IsRelayState, Memory!vars
  <2>4. CASE UNCHANGED vars
    BY <2>4 DEF vars, Memory!vars
  <2> QED
    BY <2>1, <2>2, <2>3, <2>4 DEF Next, Memory!Next
<1> QED
  BY <1>1, <1>2, Invariance, PTL DEF Spec, MemoryKept, Memory!Spec

-----------------------------------------------------------------------------
(* Requests.                                                               *)

(* A transaction takes the requests for its two hashes off the record, and  *)
(* both are in the filter then, or the txid was.                            *)
LEMMA AcceptTxAnswers ==
  ASSUME NEW rs, Consistent(rs), NEW tx \in Tx
  PROVE  LET r == AcceptTx(rs, tx)
         IN  /\ DOMAIN r.requested_txids
                  = DOMAIN rs.requested_txids \ {TxidOf[tx], WtxidOf[tx]}
             /\ \A k \in DOMAIN r.requested_txids :
                  r.requested_txids[k] = rs.requested_txids[k]
             /\ WtxidOf[tx] \in r.seen_txids
             /\ TxidOf[tx] \notin rs.seen_txids => TxidOf[tx] \in r.seen_txids
<1> DEFINE txid  == TxidOf[tx]
           wtxid == WtxidOf[tx]
           a == CompleteRequest(rs, txid)
           b == CompleteRequest(a, wtxid)
           d == MarkSeen(MarkSeen(b, txid), wtxid)
           e == InsertTx(d, tx)
           r == AcceptTx(rs, tx)
<1>1. txid \in Id /\ wtxid \in Id
  BY RelayAssumption
<1>2. r = IF txid \in rs.seen_txids THEN d ELSE e
  BY DEF AcceptTx, IsNew
<1>3. IsRelayState(rs) /\ SeenIndex(rs) /\ OrderIndex(rs) /\ WtxidIndex(rs)
  BY DEF Consistent
<1> HIDE DEF txid, wtxid, r
<1>4. /\ IsRelayState(a)
      /\ a.seen_txids = rs.seen_txids
      /\ a.seen_order = rs.seen_order
      /\ a.tx_cache = rs.tx_cache
      /\ a.tx_by_wtxid = rs.tx_by_wtxid
      /\ a.tx_cache_order = rs.tx_cache_order
      /\ DOMAIN a.requested_txids = DOMAIN rs.requested_txids \ {txid}
      /\ \A k \in DOMAIN a.requested_txids : a.requested_txids[k] = rs.requested_txids[k]
  BY <1>3, CompleteRequestOK
<1> HIDE DEF a
<1>5. /\ IsRelayState(b)
      /\ b.seen_txids = rs.seen_txids
      /\ b.seen_order = rs.seen_order
      /\ b.tx_cache = rs.tx_cache
      /\ b.tx_by_wtxid = rs.tx_by_wtxid
      /\ b.tx_cache_order = rs.tx_cache_order
      /\ DOMAIN b.requested_txids = DOMAIN rs.requested_txids \ {txid, wtxid}
      /\ \A k \in DOMAIN b.requested_txids : b.requested_txids[k] = rs.requested_txids[k]
  BY <1>4, CompleteRequestOK
<1> HIDE DEF b
<1>6. SeenIndex(b)
  BY <1>3, <1>5 DEF SeenIndex
<1>7. /\ IsRelayState(d)
      /\ d.requested_txids = b.requested_txids
      /\ d.tx_cache = rs.tx_cache
      /\ d.tx_by_wtxid = rs.tx_by_wtxid
      /\ d.tx_cache_order = rs.tx_cache_order
  BY <1>1, <1>5, <1>6, MarkSeenOK
<1>8. IF txid \in rs.seen_txids
      THEN Memory!TakesIn(rs.seen_txids, {wtxid}, SeenLimit, d.seen_txids)
      ELSE Memory!TakesIn(rs.seen_txids, {txid, wtxid}, SeenLimit, d.seen_txids)
  BY <1>1, <1>5, <1>6, SeenTakesIn
<1> HIDE DEF d
<1>9. OrderIndex(d) /\ WtxidIndex(d)
  BY <1>3, <1>7 DEF OrderIndex, WtxidIndex
<1>10. e.seen_txids = d.seen_txids /\ e.requested_txids = d.requested_txids
  BY <1>7, <1>9, InsertTxOK
<1> HIDE DEF e
<1>11. wtxid \in d.seen_txids /\ (txid \notin rs.seen_txids => txid \in d.seen_txids)
  BY <1>8 DEF Memory!TakesIn
<1>12. r.requested_txids = b.requested_txids /\ r.seen_txids = d.seen_txids
  BY <1>2, <1>7, <1>10
<1> QED
  BY <1>5, <1>11, <1>12 DEF r, txid, wtxid

(* A request is neither renewed by another announcement nor lost before it  *)
(* expires or is answered.                                                  *)
THEOREM HoldsRequests == Spec => RequestsHeld
<1> DEFINE Held ==
      \A k \in DOMAIN relay.requested_txids :
        relay.requested_txids[k] < RequestTtl =>
          IF k \in DOMAIN relay'.requested_txids
          THEN relay'.requested_txids[k] >= relay.requested_txids[k]
          ELSE k \in relay'.seen_txids
<1>1. Inv /\ [Next]_vars => [Held]_vars
  <2> SUFFICES ASSUME Inv, Next,
                      NEW k \in DOMAIN relay.requested_txids,
                      relay.requested_txids[k] < RequestTtl
               PROVE  IF k \in DOMAIN relay'.requested_txids
                      THEN relay'.requested_txids[k] >= relay.requested_txids[k]
                      ELSE k \in relay'.seen_txids
    OBVIOUS
  <2>1. /\ relay.requested_txids[k] \in 0..RequestTtl /\ RequestTtl \in Nat
        /\ IsRelayState(relay) /\ Consistent(relay)
    BY RelayAssumption DEF Inv, Consistent, IsRelayState, IsHashMap
  <2>2. ASSUME NEW keys \in Announcements, HandleInv(keys)
        PROVE  k \in DOMAIN relay'.requested_txids
               /\ relay'.requested_txids[k] = relay.requested_txids[k]
    <3> DEFINE live == CleanupRequested(relay).requested_txids
               map == [j \in DOMAIN live \cup Unrequested(relay, keys) |->
                         IF j \in Unrequested(relay, keys) THEN 0 ELSE live[j]]
    <3>1. live = Restrict(relay.requested_txids,
                   {j \in DOMAIN relay.requested_txids : relay.requested_txids[j] < RequestTtl})
      BY <2>1 DEF CleanupRequested, IsRelayState
    <3>2. k \in DOMAIN live /\ live[k] = relay.requested_txids[k]
      BY <3>1 DEF Restrict
    <3>3. k \notin Unrequested(relay, keys)
      BY <3>2 DEF Unrequested
    <3>4. relay' = relay \/ relay'.requested_txids = map
      BY <2>1, <2>2 DEF HandleInv, MarkRequested, IsRelayState
    <3>5. map[k] = relay.requested_txids[k] /\ k \in DOMAIN map
      BY <3>2, <3>3
    <3> HIDE DEF map
    <3> QED
      BY <3>4, <3>5
  <2>3. ASSUME NEW tx \in Tx, HandleTx(tx)
        PROVE  IF k \in DOMAIN relay'.requested_txids
               THEN relay'.requested_txids[k] = relay.requested_txids[k]
               ELSE k \in relay'.seen_txids
    <3>1. /\ DOMAIN relay'.requested_txids
               = DOMAIN relay.requested_txids \ {TxidOf[tx], WtxidOf[tx]}
          /\ \A j \in DOMAIN relay'.requested_txids :
               relay'.requested_txids[j] = relay.requested_txids[j]
          /\ WtxidOf[tx] \in relay'.seen_txids
          /\ TxidOf[tx] \notin relay.seen_txids => TxidOf[tx] \in relay'.seen_txids
      BY <2>1, <2>3, AcceptTxAnswers DEF HandleTx
    <3>2. k \notin relay.seen_txids
      BY <2>1 DEF Consistent
    <3> QED
      BY <3>1, <3>2
  <2>4. CASE Tick
    <3>1. /\ DOMAIN relay'.requested_txids = DOMAIN relay.requested_txids
          /\ relay'.requested_txids[k] = relay.requested_txids[k] + 1
      BY <2>1, <2>4 DEF Tick, Age, IsRelayState
    <3> QED
      BY <2>1, <3>1
  <2>5. PICK v \in 0..RequestTtl : v = relay.requested_txids[k]
    BY <2>1
  <2>6. v >= v
    BY <2>1
  <2> QED
    BY <2>2, <2>3, <2>4, <2>5, <2>6 DEF Next
<1>2. Spec => [][Held]_vars
  BY <1>1, Invariance, PTL DEF Spec
<1> QED
  BY <1>2 DEF RequestsHeld

-----------------------------------------------------------------------------
(* What is cached is remembered.  The eviction queue of the filter is        *)
(* bounded in hashes and the cache in transactions, and a transaction costs *)
(* the filter one hash or two, not always in one go.  The argument counts   *)
(* the hashes that can stand behind a cached txid in the queue.             *)

(* Appending to a bounded queue moves it by one place if it was full.       *)
LEMMA NewestShifts ==
  ASSUME NEW S, NEW s \in Seq(S), NEW e \in S, NEW n \in Nat \ {0}, Len(s) <= n
  PROVE  LET r == Newest(Append(s, e), n)
             d == IF Len(s) = n THEN 1 ELSE 0
         IN  /\ Len(r) = Len(s) + 1 - d
             /\ r[Len(r)] = e
             /\ \A i \in 1..(Len(r) - 1) : r[i] = s[i + d]
<1> DEFINE t == Append(s, e)
           r == Newest(t, n)
<1>1. /\ t \in Seq(S)
      /\ Len(t) = Len(s) + 1
      /\ t[Len(t)] = e
      /\ \A i \in 1..Len(s) : t[i] = s[i]
  BY AppendProperties
<1>2. Len(s) \in Nat /\ n \in Nat \ {0}
  OBVIOUS
<1> HIDE DEF t
<1>3. CASE Len(s) = n
  <2>1. r = SubSeq(t, 2, n + 1)
    BY <1>1, <1>2, <1>3 DEF Newest
  <2>2. Len(r) = n /\ \A i \in 1..n : r[i] = t[i + 1]
    BY <1>1, <1>2, <1>3, <2>1
  <2> QED
    BY <1>1, <1>2, <1>3, <2>2 DEF t
<1>4. CASE Len(s) # n
  <2>1. r = t
    BY <1>1, <1>2, <1>4 DEF Newest
  <2> QED
    BY <1>1, <1>2, <1>4, <2>1 DEF t
<1> QED
  BY <1>3, <1>4

LEMMA MarkSeenShifts ==
  ASSUME NEW rs, IsRelayState(rs), SeenIndex(rs), NEW key \in Id, key \notin rs.seen_txids
  PROVE  LET q == rs.seen_order
             r == MarkSeen(rs, key).seen_order
             d == IF Len(q) = SeenLimit THEN 1 ELSE 0
         IN  /\ Len(r) = Len(q) + 1 - d
             /\ r[Len(r)] = key
             /\ \A i \in 1..(Len(r) - 1) : r[i] = q[i + d]
<1>1. MarkSeen(rs, key).seen_order = Newest(Append(rs.seen_order, key), SeenLimit)
  BY DEF MarkSeen, IsRelayState
<1> DEFINE q == rs.seen_order
<1>2. q \in Seq(Id) /\ Len(q) <= SeenLimit /\ SeenLimit \in Nat \ {0}
  BY RelayAssumption DEF IsRelayState, SeenIndex
<1> HIDE DEF q
<1>3. LET r == Newest(Append(q, key), SeenLimit)
          d == IF Len(q) = SeenLimit THEN 1 ELSE 0
      IN  /\ Len(r) = Len(q) + 1 - d
          /\ r[Len(r)] = key
          /\ \A i \in 1..(Len(r) - 1) : r[i] = q[i + d]
  BY <1>2, NewestShifts
<1> QED
  BY <1>1, <1>3 DEF q

-----------------------------------------------------------------------------
(* The two hashes of a transaction without variants.                       *)

(* The transactions that share their txid with no other.                    *)
Single == Tx \ Variants

(* The txid is followed by the wtxid; a wtxid without its txid before it is *)
(* the next hash to go.  So such a transaction, filtered out by its txid,   *)
(* never costs the filter another hash.                                     *)
Together(q, x) ==
  \A i \in DOMAIN q :
    /\ q[i] = TxidOf[x] => i < Len(q) /\ q[i + 1] = WtxidOf[x]
    /\ q[i] = WtxidOf[x] /\ i # 1 => q[i - 1] = TxidOf[x]
    /\ q[i] = WtxidOf[x] /\ i = 1 => Len(q) = SeenLimit

Paired(rs) ==
  \A x \in Single : TxidOf[x] # WtxidOf[x] => Together(rs.seen_order, x)

(* No other transaction has either of its hashes.                           *)
LEMMA SingleApart ==
  ASSUME NEW x \in Tx, NEW y \in Single, x # y
  PROVE  /\ TxidOf[x] # TxidOf[y] /\ TxidOf[x] # WtxidOf[y]
         /\ WtxidOf[x] # TxidOf[y] /\ WtxidOf[x] # WtxidOf[y]
<1>1. y \in Tx /\ TxidOf[x] # TxidOf[y]
  BY DEF Single, Variants
<1> QED
  BY <1>1, RelayAssumption

(* A foreign hash does not come between the two.                            *)
LEMMA ForeignHash ==
  ASSUME NEW rs, IsRelayState(rs), SeenIndex(rs), NEW key \in Id,
         NEW x \in Tx, key # TxidOf[x], key # WtxidOf[x],
         Together(rs.seen_order, x)
  PROVE  Together(MarkSeen(rs, key).seen_order, x)
<1> DEFINE q == rs.seen_order
           r == MarkSeen(rs, key).seen_order
           d == IF Len(q) = SeenLimit THEN 1 ELSE 0
<1>1. CASE key \in rs.seen_txids
  BY <1>1 DEF MarkSeen
<1>2. CASE key \notin rs.seen_txids
  <2>1. Len(q) \in Nat /\ DOMAIN q = 1..Len(q)
    <3>1. q \in Seq(Id)
      BY DEF IsRelayState
    <3> QED
      BY <3>1
  <2>2. Len(r) \in Nat /\ DOMAIN r = 1..Len(r)
    <3>1. r \in Seq(Id)
      BY MarkSeenOK DEF IsRelayState
    <3> QED
      BY <3>1
  <2>3. /\ Len(r) = Len(q) + 1 - d
        /\ r[Len(r)] = key
        /\ \A i \in 1..(Len(r) - 1) : r[i] = q[i + d]
    BY <1>2, MarkSeenShifts
  <2>4. Together(q, x)
    OBVIOUS
  <2>5. d \in Nat /\ d <= 1 /\ (d = 1 <=> Len(q) = SeenLimit)
    OBVIOUS
  <2> HIDE DEF q, r, d
  <2> SUFFICES ASSUME NEW i \in DOMAIN r
               PROVE  /\ r[i] = TxidOf[x] => i < Len(r) /\ r[i + 1] = WtxidOf[x]
                      /\ r[i] = WtxidOf[x] /\ i # 1 => r[i - 1] = TxidOf[x]
                      /\ r[i] = WtxidOf[x] /\ i = 1 => Len(r) = SeenLimit
    BY DEF Together, q, r
  <2>6. CASE i = Len(r)
    BY <2>3, <2>6
  <2>7. CASE i # Len(r)
    <3>0. i \in Nat \ {0} /\ i < Len(r)
      BY <2>2, <2>7
    <3>1. i \in 1..(Len(r) - 1) /\ i + d \in DOMAIN q /\ r[i] = q[i + d]
      BY <2>1, <2>2, <2>3, <2>5, <3>0
    <3>2. ASSUME r[i] = TxidOf[x] PROVE i < Len(r) /\ r[i + 1] = WtxidOf[x]
      <4>1. i + d < Len(q) /\ q[i + d + 1] = WtxidOf[x]
        BY <2>4, <3>1, <3>2 DEF Together
      <4>2. i + 1 \in 1..(Len(r) - 1) /\ i + 1 + d = i + d + 1
        BY <2>1, <2>2, <2>3, <2>5, <3>0, <4>1
      <4> QED
        BY <2>3, <3>1, <4>1, <4>2
    <3>3. ASSUME r[i] = WtxidOf[x]
          PROVE  /\ i # 1 => r[i - 1] = TxidOf[x]
                 /\ i = 1 => Len(r) = SeenLimit
      <4> DEFINE k == i + d
      <4>1. k \in DOMAIN q /\ q[k] = WtxidOf[x]
        BY <3>1, <3>3
      <4>2. k \in Nat /\ k = i + d
        BY <2>5, <3>0
      <4> HIDE DEF k
      <4>3. /\ k # 1 => q[k - 1] = TxidOf[x]
            /\ k = 1 => Len(q) = SeenLimit
        BY <2>4, <4>1 DEF Together
      <4>4. CASE i = 1
        BY <2>1, <2>2, <2>3, <2>5, <4>2, <4>3, <4>4
      <4>5. CASE i # 1
        <5>1. i - 1 \in 1..(Len(r) - 1) /\ i - 1 + d = k - 1 /\ k # 1
          BY <2>2, <2>5, <3>0, <4>2, <4>5
        <5> QED
          BY <2>3, <4>3, <4>5, <5>1
      <4> QED
        BY <4>4, <4>5
    <3> QED
      BY <3>2, <3>3
  <2> QED
    BY <2>6, <2>7
<1> QED
  BY <1>1, <1>2

(* A new transaction puts its two hashes side by side: if its wtxid was      *)
(* still there, it was the one to go when the txid came.                    *)
LEMMA OwnHashes ==
  ASSUME NEW rs, IsRelayState(rs), SeenIndex(rs),
         NEW x \in Tx, TxidOf[x] # WtxidOf[x], Together(rs.seen_order, x)
  PROVE  Together(MarkSeen(MarkSeen(rs, TxidOf[x]), WtxidOf[x]).seen_order, x)
<1> DEFINE a  == TxidOf[x]
           b  == WtxidOf[x]
           c  == MarkSeen(rs, a)
           q0 == rs.seen_order
           q1 == c.seen_order
           q2 == MarkSeen(c, b).seen_order
           d0 == IF Len(q0) = SeenLimit THEN 1 ELSE 0
           d1 == IF Len(q1) = SeenLimit THEN 1 ELSE 0
<1>1. a \in Id /\ b \in Id /\ SeenLimit \in Nat \ {0, 1}
  BY RelayAssumption
<1>2. /\ IsRelayState(c) /\ SeenIndex(c)
      /\ IsRelayState(MarkSeen(c, b)) /\ SeenIndex(MarkSeen(c, b))
  BY <1>1, MarkSeenOK
<1>3. /\ q0 \in Seq(Id) /\ IsInjective(q0) /\ rs.seen_txids = Range(q0) /\ Len(q0) <= SeenLimit
      /\ q1 \in Seq(Id) /\ IsInjective(q1) /\ c.seen_txids = Range(q1) /\ Len(q1) <= SeenLimit
      /\ q2 \in Seq(Id) /\ IsInjective(q2)
  BY <1>2 DEF IsRelayState, SeenIndex
<1>4. a # b
  OBVIOUS
<1>5. /\ Len(q0) \in Nat /\ DOMAIN q0 = 1..Len(q0)
      /\ Len(q1) \in Nat /\ DOMAIN q1 = 1..Len(q1)
      /\ Len(q2) \in Nat /\ DOMAIN q2 = 1..Len(q2)
      /\ d0 \in Nat /\ d0 <= 1 /\ (d0 = 1 <=> Len(q0) = SeenLimit)
      /\ d1 \in Nat /\ d1 <= 1 /\ (d1 = 1 <=> Len(q1) = SeenLimit)
  BY <1>3
<1>6. CASE a \in rs.seen_txids
  <2>1. c = rs
    BY <1>6 DEF MarkSeen
  <2>2. PICK i \in DOMAIN q0 : q0[i] = a
    BY <1>3, <1>6 DEF Range
  <2>3. i + 1 \in DOMAIN q0 /\ q0[i + 1] = b
    BY <1>5, <2>2 DEF Together
  <2>4. b \in rs.seen_txids
    BY <1>3, <2>3 DEF Range
  <2>5. MarkSeen(c, b) = rs
    BY <2>1, <2>4 DEF MarkSeen
  <2> QED
    BY <2>5
<1>7. CASE a \notin rs.seen_txids
  <2>1. /\ Len(q1) = Len(q0) + 1 - d0
        /\ q1[Len(q1)] = a
        /\ \A i \in 1..(Len(q1) - 1) : q1[i] = q0[i + d0]
    BY <1>1, <1>7, MarkSeenShifts
  <2> HIDE DEF d0, q1, a, b, c
  <2>2. b \notin c.seen_txids
    <3> SUFFICES ASSUME NEW j \in DOMAIN q1, q1[j] = b PROVE FALSE
      BY <1>3 DEF Range
    <3>1. j # Len(q1)
      BY <1>4, <2>1
    <3>2. j \in Nat \ {0} /\ j < Len(q1)
      BY <1>5, <3>1
    <3> DEFINE k == j + d0
    <3>3. j \in 1..(Len(q1) - 1) /\ k \in DOMAIN q0 /\ k \in Nat /\ k = j + d0
      BY <1>5, <2>1, <3>2
    <3>4. q0[k] = b
      BY <2>1, <3>3
    <3> HIDE DEF k
    <3>5. k = 1
      <4>1. ASSUME k # 1 PROVE q0[k - 1] = a /\ k - 1 \in DOMAIN q0
        BY <1>5, <3>3, <3>4, <4>1 DEF Together, a, b
      <4> QED
        BY <1>3, <1>7, <4>1 DEF Range
    <3>6. Len(q0) = SeenLimit
      BY <3>3, <3>4, <3>5 DEF Together, a, b
    <3> QED
      BY <1>5, <3>2, <3>3, <3>5, <3>6
  <2>3. /\ Len(q2) = Len(q1) + 1 - d1
        /\ q2[Len(q2)] = b
        /\ \A i \in 1..(Len(q2) - 1) : q2[i] = q1[i + d1]
    BY <1>1, <1>2, <2>2, MarkSeenShifts DEF q1
  <2> HIDE DEF q0, q2, d1
  <2>4. Len(q1) >= 1 /\ Len(q2) >= 2 /\ q2[Len(q2) - 1] = a
    <3>1. Len(q1) >= 1 /\ Len(q2) >= 2
      <4>1. \A n, m, d \in Nat :
              d <= 1 /\ (d = 1 <=> n = SeenLimit) /\ m = n + 1 - d =>
                m >= 1 /\ (n >= 1 => m >= 2)
        BY <1>1
      <4> QED
        BY <1>5, <2>1, <2>3, <4>1
    <3>2. Len(q2) - 1 \in 1..(Len(q2) - 1) /\ Len(q2) - 1 + d1 = Len(q1)
      BY <1>5, <2>3, <3>1
    <3> QED
      BY <2>1, <2>3, <3>1, <3>2
  <2>5. \A i \in DOMAIN q2 : q2[i] = a => i = Len(q2) - 1
    BY <1>3, <1>5, <2>4 DEF IsInjective
  <2>6. \A i \in DOMAIN q2 : q2[i] = b => i = Len(q2)
    BY <1>3, <1>5, <2>3, <2>4 DEF IsInjective
  <2>7. Together(q2, x)
    <3> SUFFICES ASSUME NEW i \in DOMAIN q2
                 PROVE  /\ q2[i] = a => i < Len(q2) /\ q2[i + 1] = b
                        /\ q2[i] = b => i # 1 /\ q2[i - 1] = a
      BY DEF Together, a, b
    <3>1. ASSUME q2[i] = a PROVE i < Len(q2) /\ q2[i + 1] = b
      <4>1. i = Len(q2) - 1
        BY <2>5, <3>1
      <4> QED
        BY <1>5, <2>3, <4>1
    <3>2. ASSUME q2[i] = b PROVE i # 1 /\ q2[i - 1] = a
      BY <1>5, <2>4, <2>6, <3>2
    <3> QED
      BY <3>1, <3>2
  <2> QED
    BY <2>7 DEF q2, c, a, b
<1> QED
  BY <1>6, <1>7

(* The two calls of mark_seen keep every such pair together.                *)
LEMMA PairsKept ==
  ASSUME NEW rs, IsRelayState(rs), SeenIndex(rs), Paired(rs), NEW tx \in Tx
  PROVE  Paired(MarkSeen(MarkSeen(rs, TxidOf[tx]), WtxidOf[tx]))
<1> SUFFICES ASSUME NEW x \in Single, TxidOf[x] # WtxidOf[x]
             PROVE  Together(MarkSeen(MarkSeen(rs, TxidOf[tx]), WtxidOf[tx]).seen_order, x)
  BY DEF Paired
<1>1. x \in Tx /\ Together(rs.seen_order, x)
  BY DEF Single, Paired
<1>2. TxidOf[tx] \in Id /\ WtxidOf[tx] \in Id
  BY RelayAssumption
<1>3. CASE x = tx
  BY <1>1, <1>3, OwnHashes
<1>4. CASE x # tx
  <2>1. IsRelayState(MarkSeen(rs, TxidOf[tx])) /\ SeenIndex(MarkSeen(rs, TxidOf[tx]))
    BY <1>2, MarkSeenOK
  <2>2. Together(MarkSeen(rs, TxidOf[tx]).seen_order, x)
    BY <1>1, <1>2, <1>4, SingleApart, ForeignHash
  <2> QED
    BY <1>1, <1>2, <1>4, <2>1, <2>2, SingleApart, ForeignHash
<1> QED
  BY <1>3, <1>4

(* And so does the Tx handler.                                              *)
LEMMA TxPairs ==
  ASSUME NEW rs, Consistent(rs), Paired(rs), NEW tx \in Tx
  PROVE  Paired(AcceptTx(rs, tx))
<1> DEFINE b == CompleteRequest(CompleteRequest(rs, TxidOf[tx]), WtxidOf[tx])
           d == MarkSeen(MarkSeen(b, TxidOf[tx]), WtxidOf[tx])
<1>1. IsRelayState(rs) /\ SeenIndex(rs) /\ OrderIndex(rs) /\ WtxidIndex(rs)
  BY DEF Consistent
<1>2. /\ IsRelayState(b)
      /\ b.seen_txids = rs.seen_txids
      /\ b.seen_order = rs.seen_order
      /\ b.tx_cache = rs.tx_cache
      /\ b.tx_by_wtxid = rs.tx_by_wtxid
      /\ b.tx_cache_order = rs.tx_cache_order
  BY <1>1, CompleteRequestOK
<1>3. AcceptTx(rs, tx) \in {d, InsertTx(d, tx)}
  BY DEF AcceptTx
<1> HIDE DEF b
<1>4. SeenIndex(b) /\ Paired(b)
  BY <1>1, <1>2 DEF SeenIndex, Paired
<1>5. TxidOf[tx] \in Id /\ WtxidOf[tx] \in Id
  BY RelayAssumption
<1>6. Paired(d)
  BY <1>2, <1>4, PairsKept
<1>7. /\ IsRelayState(d)
      /\ d.tx_cache = rs.tx_cache
      /\ d.tx_by_wtxid = rs.tx_by_wtxid
      /\ d.tx_cache_order = rs.tx_cache_order
  BY <1>2, <1>4, <1>5, MarkSeenOK
<1> HIDE DEF d
<1>8. OrderIndex(d) /\ WtxidIndex(d)
  BY <1>1, <1>7 DEF OrderIndex, WtxidIndex
<1>9. InsertTx(d, tx).seen_order = d.seen_order
  BY <1>7, <1>8, InsertTxOK
<1> QED
  BY <1>3, <1>6, <1>9 DEF Paired

-----------------------------------------------------------------------------
(* What may stand behind a cached txid.                                    *)

(* The txids cached after t.                                                *)
Later(order, t) ==
  {order[j] : j \in {k \in DOMAIN order : \E i \in DOMAIN order : i < k /\ order[i] = t}}

(* The hashes that may have come since t was cached: the wtxids of variants, *)
(* the txids cached later, and the wtxids of t and of these.                *)
Since(order, t) ==
  VariantWtxids \cup Later(order, t)
    \cup {WtxidOf[x] : x \in {y \in Single : TxidOf[y] \in {t} \cup Later(order, t)}}

(* They are fewer than the filter holds.                                    *)
LEMMA SinceIsSmall ==
  ASSUME Roomy, NEW order \in Seq(Id), IsInjective(order), Len(order) <= TxLimit,
         NEW t \in Range(order)
  PROVE  IsFiniteSet(Since(order, t)) /\ Cardinality(Since(order, t)) < SeenLimit
<1> DEFINE L == Later(order, t)
           X == {y \in Single : TxidOf[y] \in {t} \cup L}
           W == {WtxidOf[x] : x \in X}
           f == [x \in X |-> TxidOf[x]]
           g == [x \in X |-> WtxidOf[x]]
<1>1. IsFiniteSet(Range(order)) /\ Cardinality(Range(order)) = Len(order)
  BY QueueCardinality
<1>2. t \notin L /\ L \subseteq Range(order)
  <2>1. L \subseteq Range(order)
    BY DEF Later, Range
  <2>2. ASSUME t \in L PROVE FALSE
    <3>1. PICK k \in DOMAIN order : order[k] = t /\ \E i \in DOMAIN order : i < k /\ order[i] = t
      BY <2>2 DEF Later
    <3>2. PICK i \in DOMAIN order : i < k /\ order[i] = t
      BY <3>1
    <3>3. i = k
      BY <3>1, <3>2 DEF IsInjective
    <3> QED
      BY <3>2, <3>3
  <2> QED
    BY <2>1, <2>2
<1>3. IsFiniteSet(L) /\ Cardinality(L) \in Nat
  BY <1>1, <1>2, FS_Subset, FS_CardinalityType
<1>4. IsFiniteSet(L \cup {t}) /\ Cardinality(L \cup {t}) = Cardinality(L) + 1
  BY <1>2, <1>3, FS_AddElement
<1>5. Cardinality(L) + 1 <= TxLimit /\ TxLimit \in Nat
  <2>1. L \cup {t} \subseteq Range(order)
    BY <1>2
  <2>2. Cardinality(L \cup {t}) <= Cardinality(Range(order))
    BY <1>1, <2>1, FS_Subset
  <2>3. Cardinality(L) + 1 <= Len(order)
    BY <1>1, <1>4, <2>2
  <2>4. Len(order) \in Nat /\ TxLimit \in Nat
    BY RelayAssumption
  <2> QED
    BY <1>3, <2>3, <2>4
<1>6. \A x, y \in X : TxidOf[x] = TxidOf[y] => x = y
  BY DEF Single, Variants
<1> HIDE DEF L
<1>7. IsFiniteSet(X) /\ Cardinality(X) <= Cardinality(L) + 1 /\ Cardinality(X) \in Nat
  <2>1. f \in [X -> L \cup {t}]
    OBVIOUS
  <2>2. \A x, y \in X : f[x] = f[y] => x = y
    BY <1>6
  <2> HIDE DEF f, X
  <2>3. f \in Injection(X, L \cup {t})
    BY <2>1, <2>2, Fun_IsInj
  <2> QED
    BY <1>4, <2>3, FS_Injection, FS_CardinalityType
<1>8. IsFiniteSet(W) /\ Cardinality(W) <= Cardinality(X) /\ Cardinality(W) \in Nat
  <2>1. g \in [X -> W]
    OBVIOUS
  <2>2. \A w \in W : \E x \in X : g[x] = w
    OBVIOUS
  <2> HIDE DEF g, X, W
  <2>3. g \in Surjection(X, W)
    BY <2>1, <2>2, Fun_IsSurj
  <2> QED
    BY <1>7, <2>3, FS_Surjection, FS_CardinalityType
<1> DEFINE V == VariantWtxids
<1>9. /\ IsFiniteSet(V) /\ Cardinality(V) \in Nat
      /\ 2 * TxLimit + Cardinality(V) <= SeenLimit /\ SeenLimit \in Nat
  BY RelayAssumption, FS_CardinalityType DEF Roomy
<1>10. Since(order, t) = (V \cup L) \cup W
  BY DEF Since, L
<1> HIDE DEF V, X, W
<1>11. IsFiniteSet(V \cup L) /\ Cardinality(V \cup L) <= Cardinality(V) + Cardinality(L)
  <2>1. /\ IsFiniteSet(V \cup L)
        /\ Cardinality(V \cup L) = Cardinality(V) + Cardinality(L) - Cardinality(V \cap L)
    BY <1>3, <1>9, FS_Union
  <2>2. Cardinality(V \cap L) \in Nat
    BY <1>9, FS_Intersection, FS_CardinalityType
  <2> QED
    BY <1>3, <1>9, <2>1, <2>2
<1>12. /\ IsFiniteSet((V \cup L) \cup W)
       /\ Cardinality((V \cup L) \cup W) <= Cardinality(V) + Cardinality(L) + Cardinality(W)
  <2>1. /\ IsFiniteSet((V \cup L) \cup W)
        /\ Cardinality((V \cup L) \cup W)
             = Cardinality(V \cup L) + Cardinality(W) - Cardinality((V \cup L) \cap W)
    BY <1>8, <1>11, FS_Union
  <2>2. Cardinality((V \cup L) \cap W) \in Nat /\ Cardinality(V \cup L) \in Nat
    BY <1>11, FS_Intersection, FS_CardinalityType
  <2> QED
    BY <1>3, <1>8, <1>9, <1>11, <2>1, <2>2
<1>13. Cardinality((V \cup L) \cup W) \in Nat
  BY <1>12, FS_CardinalityType
<1>14. Cardinality((V \cup L) \cup W) < SeenLimit
  BY <1>3, <1>5, <1>7, <1>8, <1>9, <1>12, <1>13
<1> QED
  BY <1>10, <1>12, <1>14

(* t is in the queue, and all that stands behind it is in A.                *)
Holds(q, t, A) ==
  \E i \in DOMAIN q : q[i] = t /\ \A j \in DOMAIN q : i < j => q[j] \in A

LEMMA HoldsMore ==
  ASSUME NEW q, NEW t, NEW A, Holds(q, t, A), NEW B, A \subseteq B
  PROVE  Holds(q, t, B)
BY DEF Holds

(* With room for A and t, a hash of A does not push t out.                  *)
LEMMA HoldsOn ==
  ASSUME NEW rs, IsRelayState(rs), SeenIndex(rs), NEW key \in Id,
         NEW t, NEW A, IsFiniteSet(A), Cardinality(A) < SeenLimit,
         key \in A, Holds(rs.seen_order, t, A)
  PROVE  Holds(MarkSeen(rs, key).seen_order, t, A)
<1> DEFINE q == rs.seen_order
           r == MarkSeen(rs, key).seen_order
           d == IF Len(q) = SeenLimit THEN 1 ELSE 0
<1>1. CASE key \in rs.seen_txids
  BY <1>1 DEF MarkSeen
<1>2. CASE key \notin rs.seen_txids
  <2>1. q \in Seq(Id) /\ Len(q) <= SeenLimit /\ SeenLimit \in Nat
    BY RelayAssumption DEF IsRelayState, SeenIndex
  <2>2. r \in Seq(Id) /\ IsInjective(r)
    BY MarkSeenOK DEF IsRelayState, SeenIndex
  <2>3. /\ Len(r) = Len(q) + 1 - d
        /\ r[Len(r)] = key
        /\ \A j \in 1..(Len(r) - 1) : r[j] = q[j + d]
    BY <1>2, MarkSeenShifts
  <2>4. d \in Nat /\ d <= 1 /\ (d = 1 <=> Len(q) = SeenLimit)
    OBVIOUS
  <2>5. PICK i \in DOMAIN q : q[i] = t /\ \A j \in DOMAIN q : i < j => q[j] \in A
    BY DEF Holds
  <2> HIDE DEF q, r, d
  <2>6. /\ Len(q) \in Nat /\ DOMAIN q = 1..Len(q)
        /\ Len(r) \in Nat /\ DOMAIN r = 1..Len(r)
    BY <2>1, <2>2
  <2>7. \A j \in DOMAIN r : j + d > i => r[j] \in A
    <3> SUFFICES ASSUME NEW j \in DOMAIN r, j + d > i, j # Len(r) PROVE r[j] \in A
      BY <2>3
    <3>1. j \in Nat \ {0} /\ j < Len(r)
      BY <2>6
    <3>2. j \in 1..(Len(r) - 1) /\ j + d \in DOMAIN q
      BY <2>3, <2>4, <2>6, <3>1
    <3>3. r[j] = q[j + d]
      BY <2>3, <3>2
    <3> QED
      BY <2>5, <3>2, <3>3
  <2>8. i - d >= 1
    <3> SUFFICES ASSUME ~ (i - d >= 1) PROVE FALSE
      OBVIOUS
    <3>1. i = 1 /\ d = 1
      BY <2>4, <2>6
    <3>2. Len(r) = SeenLimit
      BY <2>3, <2>4, <2>6, <3>1
    <3>3. Range(r) \subseteq A
      <4>1. \A j \in DOMAIN r : j + d > i
        BY <2>6, <3>1
      <4> QED
        BY <2>7, <4>1 DEF Range
    <3>4. Cardinality(Range(r)) = Len(r)
      BY <2>2, QueueCardinality
    <3>5. Cardinality(Range(r)) <= Cardinality(A) /\ Cardinality(A) \in Nat
      BY <3>3, FS_Subset, FS_CardinalityType
    <3> QED
      BY <2>1, <3>2, <3>4, <3>5
  <2>9. i - d \in DOMAIN r /\ r[i - d] = t
    <3>1. i - d \in 1..(Len(r) - 1) /\ i - d + d = i
      BY <2>3, <2>4, <2>6, <2>8
    <3> QED
      BY <2>3, <2>5, <2>6, <3>1
  <2>10. \A j \in DOMAIN r : i - d < j => r[j] \in A
    <3> SUFFICES ASSUME NEW j \in DOMAIN r, i - d < j PROVE j + d > i
      BY <2>7
    <3> QED
      BY <2>4, <2>6
  <2>11. Holds(r, t, A)
    <3> DEFINE k == i - d
    <3>1. k \in DOMAIN r /\ r[k] = t /\ \A j \in DOMAIN r : k < j => r[j] \in A
      BY <2>9, <2>10
    <3> HIDE DEF k
    <3> QED
      BY <3>1 DEF Holds
  <2> QED
    BY <2>11 DEF r
<1> QED
  BY <1>1, <1>2

(* A hash that was not there goes to the back of the queue.                 *)
LEMMA HoldsNew ==
  ASSUME NEW rs, IsRelayState(rs), SeenIndex(rs), NEW key \in Id,
         key \notin rs.seen_txids, NEW A
  PROVE  Holds(MarkSeen(rs, key).seen_order, key, A)
<1> DEFINE r == MarkSeen(rs, key).seen_order
           n == Len(r)
<1>1. r \in Seq(Id) /\ key \in Range(r)
  BY MarkSeenOK DEF IsRelayState, SeenIndex
<1>2. r[n] = key
  BY MarkSeenShifts
<1> HIDE DEF r
<1>3. n \in DOMAIN r /\ \A j \in DOMAIN r : ~ (n < j)
  BY <1>1 DEF Range
<1> HIDE DEF n
<1> QED
  BY <1>2, <1>3 DEF Holds, r

-----------------------------------------------------------------------------
(* The cache and the filter together.                                      *)

(* Every cached txid is in the filter, and what came since is behind it.    *)
Remembered(rs) ==
  \A t \in DOMAIN rs.tx_cache : Holds(rs.seen_order, t, Since(rs.tx_cache_order, t))

(* The wtxid index leads from a wtxid to the transaction that has it.       *)
Filed(rs) ==
  \A w \in DOMAIN rs.tx_by_wtxid : WtxidOf[rs.tx_cache[rs.tx_by_wtxid[w]]] = w

LEMMA RememberedIsSeen ==
  ASSUME NEW rs, SeenIndex(rs), Remembered(rs)
  PROVE  DOMAIN rs.tx_cache \subseteq rs.seen_txids
BY DEF SeenIndex, Remembered, Holds, Range

(* A txid that joins the queue of the cache comes later than those it finds *)
(* there and leaves there.                                                  *)
LEMMA LaterGrows ==
  ASSUME NEW order \in Seq(Id), IsInjective(order), Len(order) <= TxLimit,
         NEW key \in Id, key \notin Range(order),
         NEW t \in Range(Newest(Append(order, key), TxLimit)), t # key
  PROVE  /\ t \in Range(order)
         /\ Later(order, t) \cup {key} \subseteq Later(Newest(Append(order, key), TxLimit), t)
<1> DEFINE r == Newest(Append(order, key), TxLimit)
           d == IF Len(order) = TxLimit THEN 1 ELSE 0
           n == Len(order)
           m == Len(r)
<1>1. TxLimit \in Nat \ {0}
  BY RelayAssumption
<1>2. /\ m = n + 1 - d
      /\ r[m] = key
      /\ \A i \in 1..(m - 1) : r[i] = order[i + d]
  BY <1>1, NewestShifts
<1>3. n \in Nat /\ DOMAIN order = 1..n /\ d \in Nat /\ d <= 1
  OBVIOUS
<1>4. m \in Nat /\ DOMAIN r = 1..m
  <2>1. Append(order, key) \in Seq(Id) /\ IsInjective(Append(order, key))
    BY AppendNew
  <2>2. r \in Seq(Id)
    BY <1>1, <2>1, NewestKeeps
  <2> QED
    BY <2>2
<1>5. PICK i \in DOMAIN r : r[i] = t
  BY DEF Range
<1> HIDE DEF r, d, n, m
<1>6. i \in Nat \ {0} /\ i < m
  BY <1>2, <1>4, <1>5
<1>7. i \in 1..(m - 1) /\ i + d \in DOMAIN order
  BY <1>2, <1>3, <1>6
<1>8. order[i + d] = t
  BY <1>2, <1>5, <1>7
<1>9. t \in Range(order)
  BY <1>7, <1>8 DEF Range
<1>10. key \in Later(r, t)
  <2>1. m \in DOMAIN r /\ i \in DOMAIN r
    BY <1>4, <1>6
  <2> QED
    BY <1>2, <1>5, <1>6, <2>1 DEF Later
<1>11. Later(order, t) \subseteq Later(r, t)
  <2> SUFFICES ASSUME NEW j \in DOMAIN order, NEW k \in DOMAIN order, k < j, order[k] = t
               PROVE  order[j] \in Later(r, t)
    BY DEF Later
  <2>1. k = i + d
    BY <1>7, <1>8 DEF IsInjective
  <2> DEFINE l == j - d
  <2>2. l \in 1..(m - 1) /\ l + d = j /\ i < l
    BY <1>2, <1>3, <1>6, <2>1
  <2> HIDE DEF l
  <2>3. l \in DOMAIN r /\ i \in DOMAIN r
    BY <1>4, <1>6, <2>2
  <2>4. r[l] = order[j]
    BY <1>2, <2>2
  <2>5. r[l] \in Later(r, t)
    BY <1>5, <2>2, <2>3 DEF Later
  <2> QED
    BY <2>4, <2>5
<1> QED
  BY <1>9, <1>10, <1>11 DEF r

(* What insert_tx does to the queue of the cache.                           *)
LEMMA InsertTxQueue ==
  ASSUME NEW rs, IsRelayState(rs), OrderIndex(rs), NEW tx \in Tx,
         TxidOf[tx] \notin DOMAIN rs.tx_cache
  PROVE  InsertTx(rs, tx).tx_cache_order = Newest(Append(rs.tx_cache_order, TxidOf[tx]), TxLimit)
BY DEF InsertTx, IsRelayState

(* The Tx handler keeps every cached txid in the filter.                    *)
LEMMA TxRemembers ==
  ASSUME Roomy, NEW rs, Consistent(rs), Paired(rs), Remembered(rs), NEW tx \in Tx
  PROVE  Remembered(AcceptTx(rs, tx))
<1> DEFINE txid  == TxidOf[tx]
           wtxid == WtxidOf[tx]
           b == CompleteRequest(CompleteRequest(rs, txid), wtxid)
           c == MarkSeen(b, txid)
           d == MarkSeen(c, wtxid)
           e == InsertTx(d, tx)
           r == AcceptTx(rs, tx)
<1>1. txid \in Id /\ wtxid \in Id
  BY RelayAssumption
<1>2. r = IF txid \in rs.seen_txids THEN d ELSE e
  BY DEF AcceptTx, IsNew
<1>3. IsRelayState(rs) /\ SeenIndex(rs) /\ OrderIndex(rs) /\ WtxidIndex(rs)
  BY DEF Consistent
<1> HIDE DEF r
<1>4. /\ IsRelayState(b)
      /\ b.seen_txids = rs.seen_txids
      /\ b.seen_order = rs.seen_order
      /\ b.tx_cache = rs.tx_cache
      /\ b.tx_by_wtxid = rs.tx_by_wtxid
      /\ b.tx_cache_order = rs.tx_cache_order
  BY <1>3, CompleteRequestOK
<1> HIDE DEF b
<1>5. SeenIndex(b)
  BY <1>3, <1>4 DEF SeenIndex
<1>6. /\ IsRelayState(c) /\ SeenIndex(c)
      /\ c.tx_cache = rs.tx_cache
      /\ c.tx_by_wtxid = rs.tx_by_wtxid
      /\ c.tx_cache_order = rs.tx_cache_order
  BY <1>1, <1>4, <1>5, MarkSeenOK
<1>7. /\ IsRelayState(d)
      /\ d.tx_cache = rs.tx_cache
      /\ d.tx_by_wtxid = rs.tx_by_wtxid
      /\ d.tx_cache_order = rs.tx_cache_order
  BY <1>1, <1>6, MarkSeenOK
<1>8. OrderIndex(d) /\ WtxidIndex(d)
  BY <1>3, <1>7 DEF OrderIndex, WtxidIndex
<1>9. ASSUME NEW t, NEW A, IsFiniteSet(A), Cardinality(A) < SeenLimit,
             txid \in A \/ txid \in rs.seen_txids, wtxid \in A, Holds(rs.seen_order, t, A)
      PROVE  Holds(d.seen_order, t, A)
  <2>1. Holds(b.seen_order, t, A)
    BY <1>4, <1>9
  <2>2. Holds(c.seen_order, t, A)
    <3>1. CASE txid \in A
      BY <1>1, <1>4, <1>5, <1>9, <2>1, <3>1, HoldsOn
    <3>2. CASE txid \in rs.seen_txids
      <4>1. c = b
        BY <1>4, <3>2 DEF MarkSeen
      <4> QED
        BY <2>1, <4>1
    <3> QED
      BY <1>9, <3>1, <3>2
  <2> QED
    BY <1>1, <1>6, <1>9, <2>2, HoldsOn
<1>10. CASE txid \in rs.seen_txids
  <2>1. r.tx_cache = rs.tx_cache /\ r.tx_cache_order = rs.tx_cache_order /\ r = d
    BY <1>2, <1>7, <1>10
  <2> SUFFICES ASSUME NEW t \in DOMAIN rs.tx_cache
               PROVE  Holds(d.seen_order, t, Since(rs.tx_cache_order, t))
    BY <2>1 DEF Remembered, r
  <2> DEFINE A == Since(rs.tx_cache_order, t)
  <2>2. Holds(rs.seen_order, t, A)
    BY DEF Remembered
  <2>3. IsFiniteSet(A) /\ Cardinality(A) < SeenLimit
    BY <1>3, SinceIsSmall DEF IsRelayState, OrderIndex
  <2>4. CASE tx \in Variants
    <3>1. wtxid \in A
      BY <2>4 DEF Since, VariantWtxids
    <3> QED
      BY <1>9, <1>10, <2>2, <2>3, <3>1
  <2>5. CASE tx \notin Variants
    <3>1. wtxid \in rs.seen_txids
      <4>1. CASE txid = wtxid
        BY <1>10, <4>1
      <4>2. CASE txid # wtxid
        <5>1. tx \in Single /\ Together(rs.seen_order, tx)
          BY <2>5, <4>2 DEF Paired, Single
        <5>2. rs.seen_txids = Range(rs.seen_order) /\ rs.seen_order \in Seq(Id)
          BY <1>3 DEF SeenIndex, IsRelayState
        <5>3. PICK i \in DOMAIN rs.seen_order : rs.seen_order[i] = txid
          BY <1>10, <5>2 DEF Range
        <5>4. i < Len(rs.seen_order) /\ rs.seen_order[i + 1] = wtxid
          BY <5>1, <5>3 DEF Together
        <5>5. i + 1 \in DOMAIN rs.seen_order
          BY <5>2, <5>3, <5>4
        <5> QED
          BY <5>2, <5>4, <5>5 DEF Range
      <4> QED
        BY <4>1, <4>2
    <3>2. c = b
      BY <1>4, <1>10 DEF MarkSeen
    <3>3. d = b
      BY <1>4, <3>1, <3>2 DEF MarkSeen
    <3> QED
      BY <1>4, <2>2, <3>3
  <2> QED
    BY <2>4, <2>5
<1>11. CASE txid \notin rs.seen_txids
  <2> DEFINE old == rs.tx_cache_order
             order == Newest(Append(old, txid), TxLimit)
  <2>1. txid \notin DOMAIN rs.tx_cache /\ DOMAIN rs.tx_cache = Range(old)
    BY <1>3, <1>11, RememberedIsSeen DEF OrderIndex
  <2>2. r = e /\ e.tx_cache_order = order
    BY <1>2, <1>7, <1>8, <1>11, <2>1, InsertTxQueue
  <2>3. e.seen_order = d.seen_order /\ IsRelayState(e) /\ OrderIndex(e)
    BY <1>7, <1>8, InsertTxOK
  <2>4. old \in Seq(Id) /\ IsInjective(old) /\ Len(old) <= TxLimit
    BY <1>3 DEF IsRelayState, OrderIndex
  <2>5. /\ order \in Seq(Id) /\ IsInjective(order) /\ Len(order) <= TxLimit
        /\ DOMAIN e.tx_cache = Range(order)
    BY <2>2, <2>3 DEF IsRelayState, OrderIndex
  <2> SUFFICES ASSUME NEW t \in Range(order)
               PROVE  Holds(d.seen_order, t, Since(order, t))
    BY <2>2, <2>3, <2>5 DEF Remembered, r
  <2> DEFINE A == Since(order, t)
  <2>6. IsFiniteSet(A) /\ Cardinality(A) < SeenLimit
    BY <2>5, SinceIsSmall
  <2>7. txid \in {t} \cup Later(order, t) => wtxid \in A
    BY DEF Since, VariantWtxids, Single
  <2>8. CASE t = txid
    <3>1. Holds(c.seen_order, txid, A)
      BY <1>1, <1>4, <1>5, <1>11, HoldsNew
    <3> QED
      BY <1>1, <1>6, <2>6, <2>7, <2>8, <3>1, HoldsOn
  <2>9. CASE t # txid
    <3>1. t \in Range(old) /\ Later(old, t) \cup {txid} \subseteq Later(order, t)
      BY <1>1, <2>1, <2>4, <2>9, LaterGrows
    <3>2. Since(old, t) \subseteq A
      BY <3>1 DEF Since
    <3>3. Holds(rs.seen_order, t, Since(old, t))
      BY <2>1, <3>1 DEF Remembered
    <3>4. Holds(rs.seen_order, t, A)
      BY <3>2, <3>3, HoldsMore
    <3>5. txid \in A /\ wtxid \in A
      BY <2>7, <3>1 DEF Since
    <3> QED
      BY <1>9, <2>6, <3>4, <3>5
  <2> QED
    BY <2>8, <2>9
<1> QED
  BY <1>10, <1>11 DEF r

(* A cached transaction is never replaced by another one.                   *)
LEMMA TxFiles ==
  ASSUME NEW rs, Consistent(rs), Filed(rs), DOMAIN rs.tx_cache \subseteq rs.seen_txids,
         NEW tx \in Tx
  PROVE  Filed(AcceptTx(rs, tx))
<1> DEFINE txid  == TxidOf[tx]
           wtxid == WtxidOf[tx]
           b == CompleteRequest(CompleteRequest(rs, txid), wtxid)
           d == MarkSeen(MarkSeen(b, txid), wtxid)
           e == InsertTx(d, tx)
           r == AcceptTx(rs, tx)
<1>1. txid \in Id /\ wtxid \in Id
  BY RelayAssumption
<1>2. r = IF txid \in rs.seen_txids THEN d ELSE e
  BY DEF AcceptTx, IsNew
<1>3. IsRelayState(rs) /\ SeenIndex(rs) /\ OrderIndex(rs) /\ WtxidIndex(rs)
  BY DEF Consistent
<1> HIDE DEF r
<1>4. /\ IsRelayState(b)
      /\ b.seen_txids = rs.seen_txids
      /\ b.seen_order = rs.seen_order
      /\ b.tx_cache = rs.tx_cache
      /\ b.tx_by_wtxid = rs.tx_by_wtxid
      /\ b.tx_cache_order = rs.tx_cache_order
  BY <1>3, CompleteRequestOK
<1> HIDE DEF b
<1>5. SeenIndex(b)
  BY <1>3, <1>4 DEF SeenIndex
<1>6. /\ IsRelayState(d)
      /\ d.tx_cache = rs.tx_cache
      /\ d.tx_by_wtxid = rs.tx_by_wtxid
      /\ d.tx_cache_order = rs.tx_cache_order
  BY <1>1, <1>4, <1>5, MarkSeenOK
<1>7. OrderIndex(d) /\ WtxidIndex(d) /\ Filed(d)
  BY <1>3, <1>6 DEF OrderIndex, WtxidIndex, Filed
<1> HIDE DEF d
<1>8. CASE txid \in rs.seen_txids
  BY <1>2, <1>7, <1>8 DEF r
<1>9. CASE txid \notin rs.seen_txids
  <2>1. txid \notin DOMAIN d.tx_cache
    BY <1>6, <1>9
  <2> DEFINE order  == Append(d.tx_cache_order, txid)
             gone   == Popped(order, TxLimit)
             cache  == Insert(d.tx_cache, txid, tx)
             wtxids == Insert(d.tx_by_wtxid, wtxid, txid)
  <2>2. /\ e.tx_by_wtxid = Restrict(wtxids, {w \in DOMAIN wtxids : wtxids[w] \notin gone})
        /\ e.tx_cache = Restrict(cache, DOMAIN cache \ gone)
    BY <1>6, <2>1 DEF InsertTx, IsRelayState
  <2> HIDE DEF e, gone
  <2> SUFFICES ASSUME NEW w \in DOMAIN e.tx_by_wtxid
               PROVE  WtxidOf[e.tx_cache[e.tx_by_wtxid[w]]] = w
    BY <1>2, <1>9 DEF Filed, r
  <2>3. w \in DOMAIN wtxids /\ e.tx_by_wtxid[w] = wtxids[w] /\ wtxids[w] \notin gone
    BY <2>2 DEF Restrict
  <2>4. CASE w = wtxid
    <3>1. wtxids[w] = txid
      BY <2>4 DEF Insert
    <3>2. e.tx_cache[txid] = tx
      BY <2>2, <2>3, <3>1 DEF Restrict, Insert
    <3> QED
      BY <2>3, <2>4, <3>1, <3>2
  <2>5. CASE w # wtxid
    <3>1. w \in DOMAIN d.tx_by_wtxid /\ wtxids[w] = d.tx_by_wtxid[w]
      BY <2>3, <2>5 DEF Insert
    <3>2. d.tx_by_wtxid[w] \in DOMAIN d.tx_cache
      BY <1>7, <3>1 DEF WtxidIndex
    <3>3. e.tx_cache[wtxids[w]] = d.tx_cache[d.tx_by_wtxid[w]]
      BY <2>1, <2>2, <2>3, <3>1, <3>2 DEF Restrict, Insert
    <3> QED
      BY <1>7, <2>3, <3>1, <3>3 DEF Filed
  <2> QED
    BY <2>4, <2>5
<1> QED
  BY <1>8, <1>9 DEF r

(* Together they are inductive.                                             *)
CacheInv ==
  Inv /\ Paired(relay) /\ (Roomy => Remembered(relay) /\ Filed(relay))

LEMMA CacheInit == Init => CacheInv
<1> SUFFICES ASSUME Init PROVE CacheInv
  OBVIOUS
<1>1. Inv
  BY EmptyOK DEF Init, Inv, Consistent
<1>2. /\ relay.seen_order = << >>
      /\ DOMAIN relay.tx_cache = {}
      /\ DOMAIN relay.tx_by_wtxid = {}
  BY DEF Init, EmptyRelayState, EmptyMap
<1> QED
  BY <1>1, <1>2 DEF CacheInv, Paired, Together, Remembered, Filed

LEMMA CacheNext == CacheInv /\ [Next]_vars => CacheInv'
<1> SUFFICES ASSUME CacheInv, [Next]_vars PROVE CacheInv'
  OBVIOUS
<1>1. Inv /\ Consistent(relay) /\ IsRelayState(relay) /\ SeenIndex(relay)
  BY DEF CacheInv, Inv, Consistent
<1>2. ASSUME NEW new, Consistent(new),
             relay' = new,
             new.seen_order = relay.seen_order,
             new.tx_cache = relay.tx_cache,
             new.tx_by_wtxid = relay.tx_by_wtxid,
             new.tx_cache_order = relay.tx_cache_order
      PROVE  CacheInv'
  BY <1>2 DEF CacheInv, Inv, Paired, Remembered, Filed
<1>3. ASSUME NEW keys \in Announcements, HandleInv(keys) PROVE CacheInv'
  BY <1>1, <1>2, <1>3, HandleInvOK, MarkRequestedOK, AnnouncementsAssumption DEF HandleInv
<1>4. ASSUME NEW tx \in Tx, HandleTx(tx) PROVE CacheInv'
  <2>1. relay' = AcceptTx(relay, tx)
    BY <1>4 DEF HandleTx
  <2>2. Inv'
    BY <1>1, <2>1, HandleTxOK DEF Inv
  <2>3. Paired(AcceptTx(relay, tx))
    BY <1>1, TxPairs DEF CacheInv
  <2>4. Roomy => Remembered(AcceptTx(relay, tx)) /\ Filed(AcceptTx(relay, tx))
    BY <1>1, TxRemembers, TxFiles, RememberedIsSeen DEF CacheInv
  <2> QED
    BY <2>1, <2>2, <2>3, <2>4 DEF CacheInv
<1>5. CASE Tick
  <2>1. /\ Age(relay).seen_order = relay.seen_order
        /\ Age(relay).tx_cache = relay.tx_cache
        /\ Age(relay).tx_by_wtxid = relay.tx_by_wtxid
        /\ Age(relay).tx_cache_order = relay.tx_cache_order
    BY <1>1 DEF Age, IsRelayState
  <2> QED
    BY <1>1, <1>2, <1>5, <2>1, AgeOK DEF Tick
<1>6. CASE UNCHANGED vars
  BY <1>6 DEF vars, CacheInv, Inv
<1> QED
  BY <1>3, <1>4, <1>5, <1>6 DEF Next

(* No transaction that can still be served is taken for a new one.          *)
THEOREM RemembersCached == Spec => []CachedRemembered
<1>1. CacheInv => CachedRemembered
  BY RememberedIsSeen DEF CacheInv, Inv, Consistent, CachedRemembered
<1> QED
  BY <1>1, CacheInit, CacheNext, PTL DEF Spec

(* A getdata by wtxid is answered with the transaction that has it.         *)
THEOREM ServesAsAsked == Spec => []ServedAsAsked
<1>1. CacheInv => ServedAsAsked
  BY DEF CacheInv, Filed, ServedAsAsked, GetTxByWtxid, GetTx
<1> QED
  BY <1>1, CacheInit, CacheNext, PTL DEF Spec
=============================================================================
