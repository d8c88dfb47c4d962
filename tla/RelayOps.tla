------------------------------ MODULE RelayOps ------------------------------
(***************************************************************************)
(* The relay memory of the router: struct RelayState of src/src/manager.rs *)
(* and its methods, as operators on a record with the same fields.         *)
(*                                                                         *)
(* Data abstraction.  A transaction is a member of Tx, a 32-byte hash a    *)
(* member of Id; txids and wtxids share one key space, as they do in the   *)
(* code.  An Instant is the age it has: a request made at `now' has age 0, *)
(* every clock tick adds one, and RequestTtl stands for "expired".         *)
(***************************************************************************)
EXTENDS Naturals, Sequences, Functions

CONSTANTS
  Tx,           \* transactions, told apart by their whole contents
  Id,           \* hashes
  TxidOf,       \* [Tx -> Id], compute_txid
  WtxidOf,      \* [Tx -> Id], compute_wtxid
  SeenLimit,    \* SEEN_TX_CACHE_LIMIT
  TxLimit,      \* RECENT_TX_CACHE_LIMIT
  RequestTtl    \* REQUESTED_TXID_TTL in clock ticks

(* The wtxid commits to the whole transaction, the txid to all but its      *)
(* witness.  A hash is the txid of x and the wtxid of y only when y has no  *)
(* witness, and then it is the txid of y too.                               *)
ASSUME RelayAssumption ==
  /\ TxidOf \in [Tx -> Id]
  /\ WtxidOf \in [Tx -> Id]
  /\ \A x, y \in Tx : WtxidOf[x] = WtxidOf[y] => x = y
  /\ \A x, y \in Tx : TxidOf[x] = WtxidOf[y] => TxidOf[y] = TxidOf[x]
  /\ SeenLimit \in Nat \ {0, 1}
  /\ TxLimit \in Nat \ {0}
  /\ RequestTtl \in Nat \ {0}

-----------------------------------------------------------------------------
(* Maps and bounded queues.                                                *)

EmptyMap == [k \in {} |-> k]

\* A HashMap with keys from Keys and values from Values.
IsHashMap(map, Keys, Values) ==
  DOMAIN map \subseteq Keys /\ map \in [DOMAIN map -> Values]

\* HashMap::insert: add the key or overwrite its value.
Insert(map, key, value) ==
  [k \in DOMAIN map \cup {key} |-> IF k = key THEN value ELSE map[k]]

\* `while order.len() > limit { pop_front }': what it pops, and what it leaves.
Popped(order, limit) == {order[i] : i \in {j \in DOMAIN order : j + limit <= Len(order)}}

Newest(order, limit) ==
  IF Len(order) > limit
  THEN SubSeq(order, Len(order) - limit + 1, Len(order))
  ELSE order

-----------------------------------------------------------------------------
(* RelayState.                                                             *)

IsRelayState(rs) ==
  /\ DOMAIN rs = {"seen_txids", "seen_order", "requested_txids",
                  "tx_cache", "tx_by_wtxid", "tx_cache_order"}
  /\ rs.seen_txids \subseteq Id
  /\ rs.seen_order \in Seq(Id)
  /\ IsHashMap(rs.requested_txids, Id, 0..RequestTtl)
  /\ IsHashMap(rs.tx_cache, Id, Tx)
  /\ IsHashMap(rs.tx_by_wtxid, Id, Id)
  /\ rs.tx_cache_order \in Seq(Id)

EmptyRelayState ==
  [ seen_txids      |-> {},
    seen_order      |-> << >>,
    requested_txids |-> EmptyMap,
    tx_cache        |-> EmptyMap,
    tx_by_wtxid     |-> EmptyMap,
    tx_cache_order  |-> << >> ]

CleanupRequested(rs) ==
  [rs EXCEPT !.requested_txids =
     Restrict(@, {k \in DOMAIN @ : @[k] < RequestTtl})]

\* The keys of `keys' for which mark_requested returns true: not seen, and no
\* unexpired request for them.
Unrequested(rs, keys) ==
  {k \in keys : /\ k \notin rs.seen_txids
                /\ k \notin DOMAIN CleanupRequested(rs).requested_txids}

\* Mutant: a key that is announced again is requested again.
MarkRefreshed(rs, keys) ==
  LET live  == CleanupRequested(rs).requested_txids
      fresh == keys \ rs.seen_txids
  IN  [rs EXCEPT !.requested_txids =
         [k \in DOMAIN live \cup fresh |-> IF k \in fresh THEN 0 ELSE live[k]]]

\* Mutant: the date on which the request expires is recorded for the one on
\* which it was made.
MarkExpiring(rs, keys) ==
  LET live  == CleanupRequested(rs).requested_txids
      fresh == Unrequested(rs, keys)
  IN  [rs EXCEPT !.requested_txids =
         [k \in DOMAIN live \cup fresh |-> IF k \in fresh THEN 0 - RequestTtl ELSE live[k]]]

\* mark_requested for every key of an inventory, at one instant and under one
\* write lock.  The expired requests go first; a request made in this pass has
\* age 0, so no later pass of the same instant drops it and a repeated key is
\* refused.
MarkRequested(rs, keys) ==
  LET live  == CleanupRequested(rs).requested_txids
      fresh == Unrequested(rs, keys)
  IN  IF keys = {}
      THEN rs
      ELSE [rs EXCEPT !.requested_txids =
              [k \in DOMAIN live \cup fresh |-> IF k \in fresh THEN 0 ELSE live[k]]]

\* Mutants: the evicted hash stays in the set; one hash too many is evicted.
MarkSeenKept(rs, key) ==
  IF key \in rs.seen_txids
  THEN rs
  ELSE [rs EXCEPT !.seen_txids = @ \cup {key},
                  !.seen_order = Newest(Append(@, key), SeenLimit)]

MarkSeenShort(rs, key) ==
  LET order == Append(rs.seen_order, key)
  IN  IF key \in rs.seen_txids
      THEN rs
      ELSE [rs EXCEPT
              !.seen_txids = (@ \cup {key}) \ Popped(order, SeenLimit - 1),
              !.seen_order = Newest(order, SeenLimit - 1)]

MarkSeen(rs, key) ==
  LET order == Append(rs.seen_order, key)
  IN  IF key \in rs.seen_txids
      THEN rs
      ELSE [rs EXCEPT
              !.seen_txids = (@ \cup {key}) \ Popped(order, SeenLimit),
              !.seen_order = Newest(order, SeenLimit)]

CompleteRequest(rs, key) ==
  [rs EXCEPT !.requested_txids = Restrict(@, DOMAIN @ \ {key})]

\* Mutant: the wtxid index is cleaned by key instead of by value.
InsertTxByKey(rs, tx) ==
  LET txid   == TxidOf[tx]
      order  == IF txid \in DOMAIN rs.tx_cache
                THEN rs.tx_cache_order
                ELSE Append(rs.tx_cache_order, txid)
      gone   == Popped(order, TxLimit)
      cache  == Insert(rs.tx_cache, txid, tx)
      wtxids == Insert(rs.tx_by_wtxid, WtxidOf[tx], txid)
  IN  [rs EXCEPT
         !.tx_by_wtxid    = Restrict(wtxids, DOMAIN wtxids \ gone),
         !.tx_cache       = Restrict(cache, DOMAIN cache \ gone),
         !.tx_cache_order = Newest(order, TxLimit)]

\* Mutant: the newest transactions are evicted.
InsertTxStacked(rs, tx) ==
  LET txid   == TxidOf[tx]
      order  == IF txid \in DOMAIN rs.tx_cache
                THEN rs.tx_cache_order
                ELSE Append(rs.tx_cache_order, txid)
      gone   == {order[i] : i \in {j \in DOMAIN order : j > TxLimit}}
      cache  == Insert(rs.tx_cache, txid, tx)
      wtxids == Insert(rs.tx_by_wtxid, WtxidOf[tx], txid)
  IN  [rs EXCEPT
         !.tx_by_wtxid    = Restrict(wtxids, {w \in DOMAIN wtxids : wtxids[w] \notin gone}),
         !.tx_cache       = Restrict(cache, DOMAIN cache \ gone),
         !.tx_cache_order = SelectSeq(order, LAMBDA t : t \notin gone)]

InsertTx(rs, tx) ==
  LET txid   == TxidOf[tx]
      order  == IF txid \in DOMAIN rs.tx_cache
                THEN rs.tx_cache_order
                ELSE Append(rs.tx_cache_order, txid)
      gone   == Popped(order, TxLimit)
      cache  == Insert(rs.tx_cache, txid, tx)
      wtxids == Insert(rs.tx_by_wtxid, WtxidOf[tx], txid)
  IN  [rs EXCEPT
         !.tx_by_wtxid    = Restrict(wtxids, {w \in DOMAIN wtxids : wtxids[w] \notin gone}),
         !.tx_cache       = Restrict(cache, DOMAIN cache \ gone),
         !.tx_cache_order = Newest(order, TxLimit)]

\* get_tx and get_tx_by_wtxid return an Option: the set of at most one result.
GetTx(rs, txid) == {rs.tx_cache[t] : t \in {txid} \cap DOMAIN rs.tx_cache}

GetTxByWtxid(rs, wtxid) ==
  UNION {GetTx(rs, rs.tx_by_wtxid[w]) : w \in {wtxid} \cap DOMAIN rs.tx_by_wtxid}

-----------------------------------------------------------------------------
(* The two sections of PeerManager::handle_message that hold the write lock. *)

IsNew(rs, tx) == TxidOf[tx] \notin rs.seen_txids

\* Mutants: only the txid is answered; every transaction is inserted.
AcceptTxHalf(rs, tx) ==
  LET answered == CompleteRequest(rs, TxidOf[tx])
      marked   == MarkSeen(MarkSeen(answered, TxidOf[tx]), WtxidOf[tx])
  IN  IF IsNew(rs, tx) THEN InsertTx(marked, tx) ELSE marked

AcceptTxAgain(rs, tx) ==
  LET answered == CompleteRequest(CompleteRequest(rs, TxidOf[tx]), WtxidOf[tx])
  IN  InsertTx(MarkSeen(MarkSeen(answered, TxidOf[tx]), WtxidOf[tx]), tx)

\* Message::Tx: both ids are answered and remembered, a new transaction cached.
AcceptTx(rs, tx) ==
  LET answered == CompleteRequest(CompleteRequest(rs, TxidOf[tx]), WtxidOf[tx])
      marked   == MarkSeen(MarkSeen(answered, TxidOf[tx]), WtxidOf[tx])
  IN  IF IsNew(rs, tx) THEN InsertTx(marked, tx) ELSE marked

\* One tick of the clock: every request on record ages.
Age(rs) ==
  [rs EXCEPT !.requested_txids =
     [k \in DOMAIN @ |-> IF @[k] < RequestTtl THEN @[k] + 1 ELSE @[k]]]

-----------------------------------------------------------------------------
(* What keeps the memory consistent.                                       *)

\* The duplicate filter: the set and its eviction queue hold the same hashes.
SeenIndex(rs) ==
  /\ rs.seen_txids = Range(rs.seen_order)
  /\ IsInjective(rs.seen_order)
  /\ Len(rs.seen_order) <= SeenLimit

\* The eviction queue of the transaction cache holds the cached txids.
OrderIndex(rs) ==
  /\ DOMAIN rs.tx_cache = Range(rs.tx_cache_order)
  /\ IsInjective(rs.tx_cache_order)
  /\ Len(rs.tx_cache_order) <= TxLimit

\* A cached transaction is filed under its txid and found by its wtxid, and the
\* wtxid index points at nothing else.
WtxidIndex(rs) ==
  /\ \A t \in DOMAIN rs.tx_cache :
       LET w == WtxidOf[rs.tx_cache[t]]
       IN  /\ TxidOf[rs.tx_cache[t]] = t
           /\ w \in DOMAIN rs.tx_by_wtxid
           /\ rs.tx_by_wtxid[w] = t
  /\ \A w \in DOMAIN rs.tx_by_wtxid : rs.tx_by_wtxid[w] \in DOMAIN rs.tx_cache
=============================================================================
