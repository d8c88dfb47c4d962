------------------------------ MODULE MCRelay ------------------------------
(* Small values for Relay: a transaction without a witness, and one that is *)
(* about in two variants, which share their txid.                           *)
EXTENDS Relay

CONSTANTS a, b, k,                        \* sessions; k is the Knots node
          tP, tV, wV1, wV2,               \* hashes
          plain, variant1, variant2       \* transactions

MCTx == {plain, variant1, variant2}
MCId == {tP, tV, wV1, wV2}
MCTxidOf == [x \in MCTx |-> IF x = plain THEN tP ELSE tV]
MCWtxidOf ==
  [x \in MCTx |-> CASE x = plain -> tP [] x = variant1 -> wV1 [] x = variant2 -> wV2]
MCHeld ==
  [p \in Peer |-> CASE p = a -> {variant1} [] p = b -> {variant2} [] p = k -> {plain}]
MCFetchHeld ==
  [p \in Peer |-> IF p = a THEN {plain, variant1} ELSE {variant2}]
MCSharedHeld == [p \in Peer |-> {plain}]
=============================================================================
