--------------------------- MODULE RelayOps_proofs ---------------------------
(***************************************************************************)
(* Lemmas about the operators of RelayOps, for every set of transactions   *)
(* and every size of the caches: what each method of RelayState preserves. *)
(***************************************************************************)
EXTENDS RelayOps, FiniteSetTheorems, SequenceTheorems, TLAPS

-----------------------------------------------------------------------------
(* Bounded queues.                                                         *)

(* Pushing a new element adds it to the range and keeps the queue free of   *)
(* duplicates: push_back after the membership test of mark_seen/insert_tx.  *)
LEMMA AppendNew ==
  ASSUME NEW S, NEW s \in Seq(S), IsInjective(s), NEW e \in S, e \notin Range(s)
  PROVE  /\ Append(s, e) \in Seq(S)
         /\ Len(Append(s, e)) = Len(s) + 1
         /\ IsInjective(Append(s, e))
         /\ Range(Append(s, e)) = Range(s) \cup {e}
<1> DEFINE t == Append(s, e)
<1>1. /\ t \in Seq(S)
      /\ Len(t) = Len(s) + 1
      /\ DOMAIN t = 1..(Len(s) + 1)
      /\ \A i \in 1..Len(s) : t[i] = s[i]
      /\ t[Len(s) + 1] = e
  BY AppendProperties
<1>2. DOMAIN s = 1..Len(s) /\ Len(s) \in Nat
  OBVIOUS
<1>3. \A i \in 1..Len(s) : s[i] # e
  BY <1>2 DEF Range
<1>4. IsInjective(t)
  <2> SUFFICES ASSUME NEW a \in DOMAIN t, NEW b \in DOMAIN t, t[a] = t[b]
               PROVE  a = b
    BY DEF IsInjective
  <2>1. CASE a \in 1..Len(s) /\ b \in 1..Len(s)
    BY <1>1, <1>2, <2>1 DEF IsInjective
  <2>2. CASE a = Len(s) + 1 \/ b = Len(s) + 1
    BY <1>1, <1>2, <1>3, <2>2
  <2> QED
    BY <1>1, <1>2, <2>1, <2>2
<1>5. Range(t) = Range(s) \cup {e}
  <2>1. Range(t) \subseteq Range(s) \cup {e}
    BY <1>1, <1>2 DEF Range
  <2>2. \A i \in 1..Len(s) : s[i] \in Range(t)
    BY <1>1, <1>2 DEF Range
  <2>3. e \in Range(t)
    BY <1>1, <1>2 DEF Range
  <2> QED
    BY <1>2, <2>1, <2>2, <2>3 DEF Range
<1> QED
  BY <1>1, <1>4, <1>5

(* Popping the oldest elements of a queue without duplicates down to a      *)
(* limit leaves a queue without duplicates that holds exactly what was not  *)
(* popped.                                                                  *)
LEMMA NewestKeeps ==
  ASSUME NEW S, NEW s \in Seq(S), IsInjective(s), NEW n \in Nat
  PROVE  /\ Newest(s, n) \in Seq(S)
         /\ Len(Newest(s, n)) <= n
         /\ IsInjective(Newest(s, n))
         /\ Range(Newest(s, n)) = Range(s) \ Popped(s, n)
<1>1. DOMAIN s = 1..Len(s) /\ Len(s) \in Nat
  OBVIOUS
<1>2. CASE Len(s) <= n
  <2>1. Newest(s, n) = s
    BY <1>1, <1>2 DEF Newest
  <2>2. \A j \in DOMAIN s : ~ (j + n <= Len(s))
    BY <1>1, <1>2
  <2>3. Popped(s, n) = {}
    BY <2>2 DEF Popped
  <2> QED
    BY <2>1, <2>3, <1>2
<1>3. CASE Len(s) > n
  <2> DEFINE t == Newest(s, n)
             d == Len(s) - n
  <2>1. t = SubSeq(s, d + 1, Len(s)) /\ d \in 1..Len(s)
    BY <1>1, <1>3 DEF Newest
  <2>2. \A i \in (d + 1)..Len(s) : s[i] \in S
    BY <1>1, <2>1
  <2>3. /\ t \in Seq(S)
        /\ Len(t) = n
        /\ \A i \in 1..n : t[i] = s[d + i]
    <3>1. /\ t \in Seq(S)
          /\ Len(t) = IF d + 1 <= Len(s) THEN Len(s) - (d + 1) + 1 ELSE 0
          /\ \A i \in 1..(Len(s) - (d + 1) + 1) : t[i] = s[(d + 1) + i - 1]
      <4> HIDE DEF t
      <4>1. d + 1 \in Int /\ Len(s) \in Int
        BY <1>1, <2>1
      <4> HIDE DEF d
      <4> QED
        BY <2>1, <2>2, <4>1, SubSeqProperties
    <3> QED
      BY <3>1, <1>1, <1>3
  <2>4. DOMAIN t = 1..n
    BY <2>3
  <2> HIDE DEF t
  <2>5. IsInjective(t)
    <3> SUFFICES ASSUME NEW a \in 1..n, NEW b \in 1..n, t[a] = t[b]
                 PROVE  a = b
      BY <2>4 DEF IsInjective
    <3>1. s[d + a] = s[d + b] /\ d + a \in DOMAIN s /\ d + b \in DOMAIN s
      BY <1>1, <1>3, <2>3
    <3>2. d + a = d + b
      BY <3>1 DEF IsInjective
    <3> QED
      BY <3>2, <1>1
  <2>6. Range(t) = {s[i] : i \in (d + 1)..Len(s)}
    <3>1. \A i \in 1..n : d + i \in (d + 1)..Len(s)
      BY <1>1, <1>3
    <3>2. \A i \in (d + 1)..Len(s) : i - d \in 1..n /\ t[i - d] = s[i]
      BY <1>1, <1>3, <2>3, SMTT(30)
    <3>3. Range(t) = {t[i] : i \in 1..n}
      BY <2>4 DEF Range
    <3>4. \A i \in 1..n : t[i] \in {s[j] : j \in (d + 1)..Len(s)}
      BY <2>3, <3>1
    <3>5. \A i \in (d + 1)..Len(s) : s[i] \in {t[j] : j \in 1..n}
      BY <3>2
    <3> QED
      BY <3>3, <3>4, <3>5
  <2>7. Popped(s, n) = {s[i] : i \in 1..d}
    <3>1. \A j \in DOMAIN s : j + n <= Len(s) <=> j \in 1..d
      BY <1>1, <1>3
    <3>2. {j \in DOMAIN s : j + n <= Len(s)} = 1..d
      BY <3>1, <1>1, <1>3
    <3> QED
      BY <3>2 DEF Popped
  <2>8. Range(s) \ Popped(s, n) = {s[i] : i \in (d + 1)..Len(s)}
    <3>1. \A i \in (d + 1)..Len(s), j \in 1..d : s[i] # s[j]
      BY <1>1, <1>3 DEF IsInjective
    <3>2. \A i \in 1..Len(s) : i \in 1..d \/ i \in (d + 1)..Len(s)
      BY <1>1, <1>3
    <3>3. \A i \in (d + 1)..Len(s) : i \in 1..Len(s)
      BY <1>1, <1>3
    <3> QED
      BY <1>1, <2>7, <3>1, <3>2, <3>3 DEF Range
  <2> QED
    BY <2>3, <2>5, <2>6, <2>8 DEF t
<1> QED
  BY <1>1, <1>2, <1>3

-----------------------------------------------------------------------------
(* Maps.                                                                   *)

(* A queue without duplicates holds as many elements as it is long.         *)
LEMMA QueueCardinality ==
  ASSUME NEW S, NEW s \in Seq(S), IsInjective(s)
  PROVE  IsFiniteSet(Range(s)) /\ Cardinality(Range(s)) = Len(s)
<1> DEFINE n == Len(s)
           R == Range(s)
           f == [i \in 1..n |-> s[i]]
<1>1. n \in Nat /\ DOMAIN s = 1..n
  OBVIOUS
<1> HIDE DEF n
<1>2. \A i \in 1..n : f[i] \in R
  BY <1>1 DEF Range
<1>3. \A a, b \in 1..n : f[a] = f[b] => a = b
  BY <1>1 DEF IsInjective
<1>4. \A r \in R : \E i \in 1..n : f[i] = r
  BY <1>1 DEF Range
<1> HIDE DEF R
<1>5. f \in Bijection(1..n, R)
  BY <1>2, <1>3, <1>4 DEF Bijection, Injection, Surjection, IsInjective
<1>6. ExistsBijection(1..n, R)
  BY <1>5 DEF ExistsBijection
<1>7. IsFiniteSet(1..n) /\ Cardinality(1..n) = n
  BY <1>1, FS_Interval
<1> QED
  BY <1>6, <1>7, FS_Bijection DEF n, R

(* `while order.len() > limit { pop_front }': a queue within its limit is   *)
(* left alone, one above it is cut to the limit.                            *)
LEMMA NewestLength ==
  ASSUME NEW S, NEW s \in Seq(S), NEW n \in Nat \ {0}
  PROVE  /\ Len(s) <= n => Newest(s, n) = s /\ Popped(s, n) = {}
         /\ Len(s) > n => Len(Newest(s, n)) = n /\ Newest(s, n)[n] = s[Len(s)]
<1>1. DOMAIN s = 1..Len(s) /\ Len(s) \in Nat
  OBVIOUS
<1>2. CASE Len(s) <= n
  <2>1. \A j \in DOMAIN s : ~ (j + n <= Len(s))
    BY <1>1, <1>2
  <2>2. Popped(s, n) = {}
    BY <2>1 DEF Popped
  <2>3. Newest(s, n) = s
    BY <1>1, <1>2 DEF Newest
  <2>4. ~ (Len(s) > n)
    BY <1>1, <1>2
  <2> QED
    BY <2>2, <2>3, <2>4
<1>3. CASE Len(s) > n
  <2> DEFINE d == Len(s) - n + 1
             t == SubSeq(s, d, Len(s))
  <2>1. Newest(s, n) = t /\ d \in 1..Len(s) /\ Len(s) - d + 1 = n /\ d + n - 1 = Len(s)
    BY <1>1, <1>3 DEF Newest
  <2>2. \A i \in d..Len(s) : s[i] \in S
    BY <1>1, <2>1
  <2> HIDE DEF d
  <2>3. /\ Len(t) = IF d <= Len(s) THEN Len(s) - d + 1 ELSE 0
        /\ \A i \in 1..(Len(s) - d + 1) : t[i] = s[d + i - 1]
    BY <1>1, <2>1, <2>2, SubSeqProperties
  <2> HIDE DEF t
  <2>4. Len(t) = n /\ t[n] = s[d + n - 1]
    BY <1>1, <2>1, <2>3
  <2> QED
    BY <1>1, <1>3, <2>1, <2>4
<1> QED
  BY <1>1, <1>2, <1>3

(* HashMap::retain and HashMap::remove, on maps.                           *)
LEMMA RestrictMap ==
  ASSUME NEW K, NEW V, NEW f, IsHashMap(f, K, V), NEW D, D \subseteq DOMAIN f
  PROVE  /\ IsHashMap(Restrict(f, D), K, V)
         /\ DOMAIN Restrict(f, D) = D
         /\ \A j \in D : Restrict(f, D)[j] = f[j]
BY DEF IsHashMap, Restrict

-----------------------------------------------------------------------------
(* The methods of RelayState.                                              *)

(* RelayState::default(): the empty memory is consistent.                   *)
LEMMA EmptyOK ==
  /\ IsRelayState(EmptyRelayState)
  /\ SeenIndex(EmptyRelayState)
  /\ OrderIndex(EmptyRelayState)
  /\ WtxidIndex(EmptyRelayState)
  /\ DOMAIN EmptyRelayState.requested_txids = {}
<1> USE RelayAssumption DEF EmptyRelayState, EmptyMap
<1>1. IsRelayState(EmptyRelayState)
  BY DEF IsRelayState, IsHashMap
<1>2. SeenIndex(EmptyRelayState) /\ OrderIndex(EmptyRelayState)
  BY DEF SeenIndex, OrderIndex, Range, IsInjective
<1> QED
  BY <1>1, <1>2 DEF WtxidIndex

(* mark_requested, for all the keys of an inventory: it touches the request *)
(* map only, and adds no request for a hash that has been seen.             *)
LEMMA MarkRequestedOK ==
  ASSUME NEW rs, IsRelayState(rs), NEW keys, keys \subseteq Id
  PROVE  LET r == MarkRequested(rs, keys)
         IN  /\ IsRelayState(r)
             /\ r.seen_txids = rs.seen_txids
             /\ r.seen_order = rs.seen_order
             /\ r.tx_cache = rs.tx_cache
             /\ r.tx_by_wtxid = rs.tx_by_wtxid
             /\ r.tx_cache_order = rs.tx_cache_order
             /\ DOMAIN r.requested_txids
                  \subseteq DOMAIN rs.requested_txids \cup (keys \ rs.seen_txids)
<1> DEFINE r == MarkRequested(rs, keys)
           live == CleanupRequested(rs).requested_txids
           fresh == Unrequested(rs, keys)
           map == [k \in DOMAIN live \cup fresh |-> IF k \in fresh THEN 0 ELSE live[k]]
<1>1. CASE keys = {}
  BY <1>1 DEF MarkRequested
<1>2. CASE keys # {}
  <2>1. r = [rs EXCEPT !.requested_txids = map]
    BY <1>2 DEF MarkRequested
  <2>2. live = Restrict(rs.requested_txids,
                        {k \in DOMAIN rs.requested_txids : rs.requested_txids[k] < RequestTtl})
    BY DEF CleanupRequested, IsRelayState
  <2>3. /\ IsHashMap(live, Id, 0..RequestTtl)
        /\ DOMAIN live \subseteq DOMAIN rs.requested_txids
    BY <2>2, RestrictMap DEF IsRelayState
  <2>4. fresh \subseteq keys \ rs.seen_txids
    BY DEF Unrequested
  <2>5. /\ IsHashMap(map, Id, 0..RequestTtl)
        /\ DOMAIN map \subseteq DOMAIN rs.requested_txids \cup (keys \ rs.seen_txids)
    <3> HIDE DEF live, fresh
    <3> QED
      BY <2>3, <2>4, RelayAssumption DEF IsHashMap
  <2> HIDE DEF map
  <2> QED
    BY <2>1, <2>5 DEF IsRelayState
<1> QED
  BY <1>1, <1>2

(* complete_request removes one request and nothing else.                   *)
LEMMA CompleteRequestOK ==
  ASSUME NEW rs, IsRelayState(rs), NEW key
  PROVE  LET r == CompleteRequest(rs, key)
         IN  /\ IsRelayState(r)
             /\ r.seen_txids = rs.seen_txids
             /\ r.seen_order = rs.seen_order
             /\ r.tx_cache = rs.tx_cache
             /\ r.tx_by_wtxid = rs.tx_by_wtxid
             /\ r.tx_cache_order = rs.tx_cache_order
             /\ DOMAIN r.requested_txids = DOMAIN rs.requested_txids \ {key}
             /\ \A k \in DOMAIN r.requested_txids :
                  r.requested_txids[k] = rs.requested_txids[k]
<1> DEFINE map == Restrict(rs.requested_txids, DOMAIN rs.requested_txids \ {key})
<1>1. CompleteRequest(rs, key) = [rs EXCEPT !.requested_txids = map]
  BY DEF CompleteRequest
<1>2. /\ IsHashMap(map, Id, 0..RequestTtl)
      /\ DOMAIN map = DOMAIN rs.requested_txids \ {key}
      /\ \A k \in DOMAIN map : map[k] = rs.requested_txids[k]
  BY RestrictMap DEF IsRelayState
<1> HIDE DEF map
<1> QED
  BY <1>1, <1>2 DEF IsRelayState

(* mark_seen keeps the duplicate filter and its queue in step, and the hash *)
(* is in the filter when it returns.                                        *)
LEMMA MarkSeenOK ==
  ASSUME NEW rs, IsRelayState(rs), SeenIndex(rs), NEW key \in Id
  PROVE  LET r == MarkSeen(rs, key)
         IN  /\ IsRelayState(r)
             /\ SeenIndex(r)
             /\ key \in r.seen_txids
             /\ r.seen_txids \subseteq rs.seen_txids \cup {key}
             /\ r.requested_txids = rs.requested_txids
             /\ r.tx_cache = rs.tx_cache
             /\ r.tx_by_wtxid = rs.tx_by_wtxid
             /\ r.tx_cache_order = rs.tx_cache_order
<1> DEFINE r == MarkSeen(rs, key)
           order == Append(rs.seen_order, key)
           seen == (rs.seen_txids \cup {key}) \ Popped(order, SeenLimit)
           left == Newest(order, SeenLimit)
<1>1. CASE key \in rs.seen_txids
  BY <1>1 DEF MarkSeen
<1>2. CASE key \notin rs.seen_txids
  <2>1. r = [rs EXCEPT !.seen_txids = seen, !.seen_order = left]
    BY <1>2 DEF MarkSeen
  <2>2. rs.seen_order \in Seq(Id) /\ IsInjective(rs.seen_order) /\ key \notin Range(rs.seen_order)
    BY <1>2 DEF IsRelayState, SeenIndex
  <2>3. /\ order \in Seq(Id)
        /\ Len(order) = Len(rs.seen_order) + 1
        /\ IsInjective(order)
        /\ Range(order) = rs.seen_txids \cup {key}
    BY <2>2, AppendNew DEF SeenIndex
  <2>4. order[Len(order)] = key
    BY <2>2, <2>3
  <2> HIDE DEF order
  <2>5. /\ left \in Seq(Id)
        /\ Len(left) <= SeenLimit
        /\ IsInjective(left)
        /\ Range(left) = Range(order) \ Popped(order, SeenLimit)
    BY <2>3, NewestKeeps, RelayAssumption
  <2>6. Range(left) = seen
    BY <2>3, <2>5
  <2>7. key \in seen
    <3>1. Len(order) \in DOMAIN order /\ DOMAIN order = 1..Len(order)
      BY <2>2, <2>3
    <3>2. \A j \in DOMAIN order : order[j] = key => j = Len(order)
      BY <2>3, <2>4, <3>1 DEF IsInjective
    <3>3. key \notin Popped(order, SeenLimit)
      BY <3>1, <3>2, RelayAssumption DEF Popped
    <3> QED
      BY <3>3
  <2>8. seen \subseteq Id
    BY DEF IsRelayState
  <2>9. seen \subseteq rs.seen_txids \cup {key}
    OBVIOUS
  <2> HIDE DEF seen, left
  <2>10. /\ r.seen_txids = seen
         /\ r.seen_order = left
         /\ r.requested_txids = rs.requested_txids
         /\ r.tx_cache = rs.tx_cache
         /\ r.tx_by_wtxid = rs.tx_by_wtxid
         /\ r.tx_cache_order = rs.tx_cache_order
         /\ DOMAIN r = DOMAIN rs
    BY <2>1 DEF IsRelayState
  <2> HIDE DEF r
  <2>11. IsRelayState(r)
    BY <2>5, <2>8, <2>10 DEF IsRelayState
  <2>12. SeenIndex(r)
    BY <2>5, <2>6, <2>10 DEF SeenIndex
  <2> QED
    BY <2>7, <2>9, <2>10, <2>11, <2>12 DEF r
<1> QED
  BY <1>1, <1>2

(* insert_tx keeps the three indexes of the cache in step, and leaves the   *)
(* duplicate filter and the requests alone.                                 *)
LEMMA InsertTxOK ==
  ASSUME NEW rs, IsRelayState(rs), OrderIndex(rs), WtxidIndex(rs), NEW tx \in Tx
  PROVE  LET r == InsertTx(rs, tx)
         IN  /\ IsRelayState(r)
             /\ OrderIndex(r)
             /\ WtxidIndex(r)
             /\ r.seen_txids = rs.seen_txids
             /\ r.seen_order = rs.seen_order
             /\ r.requested_txids = rs.requested_txids
<1> DEFINE r      == InsertTx(rs, tx)
           txid   == TxidOf[tx]
           wtxid  == WtxidOf[tx]
           order  == IF txid \in DOMAIN rs.tx_cache
                     THEN rs.tx_cache_order
                     ELSE Append(rs.tx_cache_order, txid)
           gone   == Popped(order, TxLimit)
           left   == Newest(order, TxLimit)
           cache  == Insert(rs.tx_cache, txid, tx)
           wtxids == Insert(rs.tx_by_wtxid, wtxid, txid)
           stay   == {w \in DOMAIN wtxids : wtxids[w] \notin gone}
           byw    == Restrict(wtxids, stay)
           txs    == Restrict(cache, DOMAIN cache \ gone)
<1>1. txid \in Id /\ wtxid \in Id
  BY RelayAssumption
<1>2. r = [rs EXCEPT !.tx_by_wtxid = byw, !.tx_cache = txs, !.tx_cache_order = left]
  BY DEF InsertTx
<1>3. /\ order \in Seq(Id)
      /\ IsInjective(order)
      /\ Range(order) = DOMAIN rs.tx_cache \cup {txid}
  <2>1. CASE txid \in DOMAIN rs.tx_cache
    BY <2>1 DEF OrderIndex, IsRelayState
  <2>2. CASE txid \notin DOMAIN rs.tx_cache
    <3>1. /\ rs.tx_cache_order \in Seq(Id)
          /\ IsInjective(rs.tx_cache_order)
          /\ txid \notin Range(rs.tx_cache_order)
      BY <2>2 DEF OrderIndex, IsRelayState
    <3>2. order = Append(rs.tx_cache_order, txid)
      BY <2>2
    <3> HIDE DEF order
    <3> QED
      BY <1>1, <3>1, <3>2, AppendNew DEF OrderIndex
  <2> QED
    BY <2>1, <2>2
<1> HIDE DEF order, txid, wtxid
<1>4. /\ left \in Seq(Id)
      /\ Len(left) <= TxLimit
      /\ IsInjective(left)
      /\ Range(left) = Range(order) \ gone
  BY <1>3, NewestKeeps, RelayAssumption
<1>5. /\ IsHashMap(cache, Id, Tx)
      /\ DOMAIN cache = DOMAIN rs.tx_cache \cup {txid}
      /\ cache[txid] = tx
      /\ \A t \in DOMAIN rs.tx_cache : t # txid => cache[t] = rs.tx_cache[t]
  <2>1. IsHashMap(rs.tx_cache, Id, Tx)
    BY DEF IsRelayState
  <2> QED
    BY <1>1, <2>1 DEF IsHashMap, Insert
<1>6. /\ IsHashMap(wtxids, Id, Id)
      /\ DOMAIN wtxids = DOMAIN rs.tx_by_wtxid \cup {wtxid}
      /\ wtxids[wtxid] = txid
      /\ \A w \in DOMAIN rs.tx_by_wtxid : w # wtxid => wtxids[w] = rs.tx_by_wtxid[w]
  <2>1. IsHashMap(rs.tx_by_wtxid, Id, Id)
    BY DEF IsRelayState
  <2> QED
    BY <1>1, <2>1 DEF IsHashMap, Insert
<1> HIDE DEF gone, left, cache, wtxids
<1>7. /\ IsHashMap(txs, Id, Tx)
      /\ DOMAIN txs = (DOMAIN rs.tx_cache \cup {txid}) \ gone
      /\ \A t \in DOMAIN txs : txs[t] = cache[t]
  BY <1>5, RestrictMap
<1>8. /\ IsHashMap(byw, Id, Id)
      /\ DOMAIN byw = stay
      /\ \A w \in DOMAIN byw : byw[w] = wtxids[w]
  BY <1>6, RestrictMap
<1> HIDE DEF txs, byw
<1>9. /\ r.tx_by_wtxid = byw
      /\ r.tx_cache = txs
      /\ r.tx_cache_order = left
      /\ r.seen_txids = rs.seen_txids
      /\ r.seen_order = rs.seen_order
      /\ r.requested_txids = rs.requested_txids
      /\ DOMAIN r = DOMAIN rs
  BY <1>2 DEF IsRelayState
<1> HIDE DEF r
<1>10. IsRelayState(r)
  BY <1>4, <1>7, <1>8, <1>9 DEF IsRelayState
<1>11. OrderIndex(r)
  BY <1>3, <1>4, <1>7, <1>9 DEF OrderIndex
<1>12. ASSUME NEW t \in DOMAIN txs
       PROVE  /\ TxidOf[txs[t]] = t
              /\ WtxidOf[txs[t]] \in DOMAIN byw
              /\ byw[WtxidOf[txs[t]]] = t
  <2>1. CASE t = txid
    BY <1>5, <1>6, <1>7, <1>8, <2>1 DEF txid, wtxid
  <2>2. CASE t # txid
    <3>1. t \in DOMAIN rs.tx_cache /\ txs[t] = rs.tx_cache[t] /\ t \notin gone
      BY <1>5, <1>7, <2>2
    <3>2. rs.tx_cache[t] \in Tx
      BY <3>1 DEF IsRelayState, IsHashMap
    <3>3. /\ TxidOf[rs.tx_cache[t]] = t
          /\ WtxidOf[rs.tx_cache[t]] \in DOMAIN rs.tx_by_wtxid
          /\ rs.tx_by_wtxid[WtxidOf[rs.tx_cache[t]]] = t
      BY <3>1 DEF WtxidIndex
    <3>4. WtxidOf[rs.tx_cache[t]] # wtxid
      BY <2>2, <3>2, <3>3, RelayAssumption DEF txid, wtxid
    <3> QED
      BY <1>6, <1>8, <3>1, <3>3, <3>4
  <2> QED
    BY <2>1, <2>2
<1>13. ASSUME NEW w \in DOMAIN byw
       PROVE  byw[w] \in DOMAIN txs
  <2>1. w \in DOMAIN wtxids /\ wtxids[w] \notin gone /\ byw[w] = wtxids[w]
    BY <1>8
  <2>2. wtxids[w] \in DOMAIN rs.tx_cache \cup {txid}
    BY <1>6, <2>1 DEF WtxidIndex
  <2> QED
    BY <1>7, <2>1, <2>2
<1>14. WtxidIndex(r)
  BY <1>9, <1>12, <1>13 DEF WtxidIndex
<1> QED
  BY <1>9, <1>10, <1>11, <1>14 DEF r

-----------------------------------------------------------------------------
(* The sections of the event loop.                                         *)

(* The memory is consistent, and no hash is both seen and waited for.       *)
Consistent(rs) ==
  /\ IsRelayState(rs)
  /\ SeenIndex(rs)
  /\ OrderIndex(rs)
  /\ WtxidIndex(rs)
  /\ DOMAIN rs.requested_txids \cap rs.seen_txids = {}

(* An inv, a tx and the clock each leave a consistent memory consistent.    *)
LEMMA HandleInvOK ==
  ASSUME NEW rs, Consistent(rs), NEW keys, keys \subseteq Id
  PROVE  Consistent(MarkRequested(rs, keys))
<1> DEFINE r == MarkRequested(rs, keys)
<1>1. /\ IsRelayState(r)
      /\ r.seen_txids = rs.seen_txids
      /\ r.seen_order = rs.seen_order
      /\ r.tx_cache = rs.tx_cache
      /\ r.tx_by_wtxid = rs.tx_by_wtxid
      /\ r.tx_cache_order = rs.tx_cache_order
      /\ DOMAIN r.requested_txids
           \subseteq DOMAIN rs.requested_txids \cup (keys \ rs.seen_txids)
  BY MarkRequestedOK DEF Consistent
<1> HIDE DEF r
<1>2. Consistent(r)
  BY <1>1 DEF Consistent, SeenIndex, OrderIndex, WtxidIndex
<1> QED
  BY <1>2 DEF r

LEMMA HandleTxOK ==
  ASSUME NEW rs, Consistent(rs), NEW tx \in Tx
  PROVE  Consistent(AcceptTx(rs, tx))
<1> DEFINE txid == TxidOf[tx]
           wtxid == WtxidOf[tx]
           a == CompleteRequest(rs, txid)
           b == CompleteRequest(a, wtxid)
           c == MarkSeen(b, txid)
           d == MarkSeen(c, wtxid)
           e == InsertTx(d, tx)
<1>1. txid \in Id /\ wtxid \in Id
  BY RelayAssumption
<1> HIDE DEF txid, wtxid
<1>2. /\ Consistent(a)
      /\ a.seen_txids = rs.seen_txids
      /\ DOMAIN a.requested_txids = DOMAIN rs.requested_txids \ {txid}
  BY CompleteRequestOK DEF Consistent, SeenIndex, OrderIndex, WtxidIndex
<1> HIDE DEF a
<1>3. /\ Consistent(b)
      /\ b.seen_txids = rs.seen_txids
      /\ DOMAIN b.requested_txids = DOMAIN a.requested_txids \ {wtxid}
  <2>1. IsRelayState(a)
    BY <1>2 DEF Consistent
  <2>2. /\ IsRelayState(b)
        /\ b.seen_txids = a.seen_txids
        /\ b.seen_order = a.seen_order
        /\ b.tx_cache = a.tx_cache
        /\ b.tx_by_wtxid = a.tx_by_wtxid
        /\ b.tx_cache_order = a.tx_cache_order
        /\ DOMAIN b.requested_txids = DOMAIN a.requested_txids \ {wtxid}
    BY <2>1, CompleteRequestOK
  <2> HIDE DEF b
  <2> QED
    BY <1>2, <2>2 DEF Consistent, SeenIndex, OrderIndex, WtxidIndex
<1> HIDE DEF b
<1>4. /\ Consistent(c)
      /\ c.seen_txids \subseteq rs.seen_txids \cup {txid}
      /\ c.requested_txids = b.requested_txids
  BY <1>1, <1>2, <1>3, MarkSeenOK DEF Consistent, OrderIndex, WtxidIndex
<1> HIDE DEF c
<1>5. /\ Consistent(d)
      /\ d.requested_txids = b.requested_txids
  BY <1>1, <1>2, <1>3, <1>4, MarkSeenOK DEF Consistent, OrderIndex, WtxidIndex
<1> HIDE DEF d
<1>6. Consistent(e)
  BY <1>5, InsertTxOK DEF Consistent, SeenIndex
<1> HIDE DEF e
<1>7. AcceptTx(rs, tx) = IF IsNew(rs, tx) THEN e ELSE d
  BY DEF AcceptTx, a, b, c, d, e, txid, wtxid
<1> QED
  BY <1>5, <1>6, <1>7

LEMMA AgeOK ==
  ASSUME NEW rs, Consistent(rs)
  PROVE  Consistent(Age(rs))
<1> DEFINE r   == Age(rs)
           map == [k \in DOMAIN rs.requested_txids |->
                     IF rs.requested_txids[k] < RequestTtl
                     THEN rs.requested_txids[k] + 1
                     ELSE rs.requested_txids[k]]
<1>1. r = [rs EXCEPT !.requested_txids = map]
  BY DEF Age
<1>2. IsHashMap(map, Id, 0..RequestTtl) /\ DOMAIN map = DOMAIN rs.requested_txids
  BY RelayAssumption DEF Consistent, IsRelayState, IsHashMap
<1> HIDE DEF map
<1>3. Consistent(r)
  BY <1>1, <1>2 DEF Consistent, IsRelayState, SeenIndex, OrderIndex, WtxidIndex
<1> QED
  BY <1>3
=============================================================================
