----------------------------- MODULE RelayCache -----------------------------
(***************************************************************************)
(* The relay memory on its own: one action per section of the event loop   *)
(* that holds its write lock (src/src/manager.rs, handle_message), and the *)
(* clock.  getdata only reads it.                                          *)
(***************************************************************************)
EXTENDS RelayOps, FiniteSets

CONSTANT Announcements      \* the sets of keys an inv message may carry

ASSUME AnnouncementsAssumption == Announcements \subseteq SUBSET Id

VARIABLE relay

vars == <<relay>>

Init == relay = EmptyRelayState

\* Message::Inv: every key of the inventory goes through mark_requested.
HandleInv(keys) == relay' = MarkRequested(relay, keys)

\* Message::Tx, up to the release of the lock.
HandleTx(tx) == relay' = AcceptTx(relay, tx)

\* The clock the requests are dated with.
Tick == relay' = Age(relay)

Next ==
  \/ \E keys \in Announcements : HandleInv(keys)
  \/ \E tx \in Tx : HandleTx(tx)
  \/ Tick

Spec == Init /\ [][Next]_vars

-----------------------------------------------------------------------------
(* Type invariant: every field holds what its Rust type says; a map is a    *)
(* function on a part of its key type.                                      *)
TypeOK == IsRelayState(relay)

(* The set of seen hashes and the queue that evicts them hold the same      *)
(* hashes, each once, and no more than SEEN_TX_CACHE_LIMIT of them: a hash  *)
(* in the set but not in the queue would be filtered out for ever.          *)
SeenIndexed == SeenIndex(relay)

(* The three indexes of the transaction cache agree: the eviction queue     *)
(* holds the cached txids, each once; a cached transaction is filed under   *)
(* its own txid and found again by its wtxid; the wtxid index points only   *)
(* at cached txids, so it cannot grow past the cache.                       *)
CacheIndexed == OrderIndex(relay) /\ WtxidIndex(relay)

(* Nothing that has been seen is still being waited for, under either of    *)
(* its two hashes: a request that outlived its answer would block the hash  *)
(* for REQUESTED_TXID_TTL once the seen cache has forgotten it.             *)
RequestsUnseen == DOMAIN relay.requested_txids \cap relay.seen_txids = {}

(* The filter has room for both hashes of every cached transaction and for  *)
(* the wtxids of the variants: transactions that share their txid.          *)
Variants == {x \in Tx : \E y \in Tx \ {x} : TxidOf[y] = TxidOf[x]}

VariantWtxids == {WtxidOf[x] : x \in Variants}

Roomy ==
  /\ IsFiniteSet(VariantWtxids)
  /\ 2 * TxLimit + Cardinality(VariantWtxids) <= SeenLimit

(* What can still be served has not been forgotten by the duplicate filter: *)
(* otherwise a transaction in the cache would be taken for new, announced   *)
(* to everyone again and inserted a second time.  It takes a filter with    *)
(* room for the variants too, as each of them costs it a hash.              *)
CachedRemembered == Roomy => DOMAIN relay.tx_cache \subseteq relay.seen_txids

(* A peer that asks for a wtxid is served the transaction with that wtxid,  *)
(* not another one with the same txid.  Without the room a second variant   *)
(* may be cached under the txid while the index still has the wtxid of the  *)
(* first.                                                                   *)
ServedAsAsked ==
  Roomy => \A w \in Id : \A tx \in GetTxByWtxid(relay, w) : WtxidOf[tx] = w

(* A request keeps its date until it expires, however often the hash is     *)
(* announced again, and it leaves the map only by expiring or by the        *)
(* arrival of a transaction with that hash.                                 *)
RequestsHeld ==
  [][\A k \in DOMAIN relay.requested_txids :
       relay.requested_txids[k] < RequestTtl =>
         IF k \in DOMAIN relay'.requested_txids
         THEN relay'.requested_txids[k] >= relay.requested_txids[k]
         ELSE k \in relay'.seen_txids]_vars

(* The record with its queues and its index does what the sets of           *)
(* RelayMemory promise: a transaction that is not filtered out is cached    *)
(* and remembered, and nothing is forgotten before its cache is full.       *)
Memory == INSTANCE RelayMemory WITH
            seen   <- relay.seen_txids,
            cached <- Range(relay.tx_cache),
            asked  <- DOMAIN relay.requested_txids

MemoryKept == Memory!Spec
=============================================================================
