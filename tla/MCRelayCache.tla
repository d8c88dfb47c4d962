---------------------------- MODULE MCRelayCache ----------------------------
(* Small values for RelayCache: a transaction without a witness, two with a *)
(* witness, and two more that differ only in their witness.                 *)
EXTENDS RelayCache

CONSTANTS tP, tS, tR, tV, wS, wR, wV1, wV2,
          plain, segwit, segwit2, variant1, variant2

MCTx == {plain, segwit, segwit2, variant1, variant2}
MCId == {tP, tS, tR, tV, wS, wR, wV1, wV2}
MCTxidOf == [x \in MCTx |-> CASE x = plain -> tP [] x = segwit -> tS [] x = segwit2 -> tR [] OTHER -> tV]
MCWtxidOf == [x \in MCTx |-> CASE x = plain -> tP [] x = segwit -> wS [] x = segwit2 -> wR
                               [] x = variant1 -> wV1 [] x = variant2 -> wV2]
MCAnnouncements == {{tP}, {tS, wS}, {tV, wV1}, {wV2}}
=============================================================================
