--------------------------- MODULE MCPeerManager ---------------------------
(* Small values for PeerManager: addresses of each class, and connections   *)
(* opened to them or accepted from them.                                    *)
EXTENDS PeerManager

CONSTANTS
  libre, libre2, core, knots, v6,       \* addresses
  l1, l2, m1, c1, c2, k1                \* connections

MCAddrOf ==
  [s \in Session |-> CASE s \in {l1, l2} -> libre
                       [] s = m1 -> libre2
                       [] s \in {c1, c2} -> core
                       [] s = k1 -> knots]

TypeAt(a) ==
  CASE a \in {libre, libre2} -> "libre" [] a = knots -> "knots"
    [] a = core -> "core" [] OTHER -> "unknown"

MCTypeOf == [s \in Session |-> TypeAt(MCAddrOf[s])]
MCKnownNodes == [a \in Addr |-> NodeInfo(TypeAt(a), 0)]
MCGossip == {{a} : a \in Addr \ {knots}}
=============================================================================
