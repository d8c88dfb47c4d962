---------------------------- MODULE RelayMemory ----------------------------
(***************************************************************************)
(* What the relay memory promises the event loop: a filter of hashes, a    *)
(* cache of transactions and a record of requests, each of them a set.     *)
(* There are no queues and no index here: something is forgotten only to   *)
(* stay within a limit, and never what has just been taken in.             *)
(***************************************************************************)
EXTENDS Naturals, FiniteSets

CONSTANTS Tx, TxidOf, WtxidOf, SeenLimit, TxLimit, Announcements

VARIABLES
  seen,      \* hashes that are filtered out
  cached,    \* transactions that can be served
  asked      \* hashes with a request on record

vars == <<seen, cached, asked>>

Init == seen = {} /\ cached = {} /\ asked = {}

\* `after' is `before' and `new', less what does not fit.
TakesIn(before, new, limit, after) ==
  /\ new \subseteq after /\ after \subseteq before \cup new
  /\ Cardinality(after) <= limit
  /\ after # before \cup new => Cardinality(after) = limit

\* Every hash that has not been seen is on record afterwards; requests that have
\* expired may go.
Announce(keys) ==
  /\ asked' \subseteq asked \cup (keys \ seen)
  /\ keys \ seen \subseteq asked'
  /\ UNCHANGED <<seen, cached>>

\* Neither hash is waited for any longer, whether or not it is new.
Answered(tx) == asked' = asked \ {TxidOf[tx], WtxidOf[tx]}

\* It replaces what is cached under the same txid.
AcceptNew(tx) ==
  /\ TxidOf[tx] \notin seen
  /\ TakesIn(seen, {TxidOf[tx], WtxidOf[tx]}, SeenLimit, seen')
  /\ TakesIn({x \in cached : TxidOf[x] # TxidOf[tx]}, {tx}, TxLimit, cached')
  /\ Answered(tx)

FilterOut(tx) ==
  /\ TxidOf[tx] \in seen
  /\ TakesIn(seen, {WtxidOf[tx]}, SeenLimit, seen')
  /\ UNCHANGED cached
  /\ Answered(tx)

Next ==
  \/ \E keys \in Announcements : Announce(keys)
  \/ \E tx \in Tx : AcceptNew(tx) \/ FilterOut(tx)

Spec == Init /\ [][Next]_vars
=============================================================================
