----------------------------- MODULE AddressDb -----------------------------
(***************************************************************************)
(* The table of known nodes (src/src/db.rs), as operators on a function    *)
(* from the stored addresses to their rows.  Every method runs one         *)
(* statement under the connection's mutex, so each is one atomic step.     *)
(*                                                                         *)
(* Data abstraction.  A row keeps the columns some query reads.  A date is *)
(* a natural number.  connection_failures is only ever compared with the   *)
(* limit, after adding one, so it stops at the limit.                      *)
(***************************************************************************)
EXTENDS Naturals, FiniteSets, SequencesExt

CONSTANTS
  Addr,           \* socket addresses
  FailureLimit    \* failures that make a node unreachable (5)

ASSUME AddressDbAssumption ==
  /\ IsFiniteSet(Addr)
  /\ FailureLimit \in Nat \ {0}

NodeType == {"unknown", "knots", "core", "libre", "other"}

Row == [node_type : NodeType, last_seen : Nat,
        failures : 0..FailureLimit, reachable : BOOLEAN]

\* The rows of a set of nodes.
IsTable(nodes) == DOMAIN nodes \subseteq Addr /\ nodes \in [DOMAIN nodes -> Row]

-----------------------------------------------------------------------------
\* The row every writer of the table stores: no failures on record, reachable.
NodeInfo(node_type, last_seen) ==
  [node_type |-> node_type, last_seen |-> last_seen,
   failures |-> 0, reachable |-> TRUE]

\* INSERT ... ON CONFLICT(addr) DO UPDATE: every column of the row is replaced.
InsertOrUpdate(nodes, addr, info) ==
  [a \in DOMAIN nodes \cup {addr} |-> IF a = addr THEN info ELSE nodes[a]]

\* UPDATE ... WHERE addr = ?1: no row, no effect.
MarkFailed(nodes, addr) ==
  [a \in DOMAIN nodes |->
     IF a # addr
     THEN nodes[a]
     ELSE LET failures == Min({nodes[a].failures + 1, FailureLimit})
          IN  [nodes[a] EXCEPT !.failures  = failures,
                               !.reachable = @ /\ failures < FailureLimit]]

\* DELETE ... WHERE last_seen < ?1 AND is_reachable = 0, the dates of `old' being
\* the ones before ?1.
PruneOld(nodes, old) ==
  Restrict(nodes, {a \in DOMAIN nodes : a \notin old \/ nodes[a].reachable})

-----------------------------------------------------------------------------
(* get_knots_excluding: the reachable nodes that are not Knots, by class    *)
(* and most recently seen first, up to a limit.  The order of equals is     *)
(* SQLite's, so the result is one of several.                               *)

Candidates(nodes) ==
  {a \in DOMAIN nodes : nodes[a].node_type # "knots" /\ nodes[a].reachable}

Rank(node_type) ==
  CASE node_type = "libre"   -> 0
    [] node_type = "core"    -> 1
    [] node_type = "other"   -> 2
    [] node_type = "unknown" -> 3
    [] OTHER                 -> 4

Precedes(nodes, a, b) ==
  LET ra == Rank(nodes[a].node_type)
      rb == Rank(nodes[b].node_type)
  IN  ra < rb \/ (ra = rb /\ nodes[a].last_seen > nodes[b].last_seen)

GetKnotsExcluding(nodes, limit) ==
  {SubSeq(order, 1, Min({limit, Len(order)})) :
     order \in {o \in SetToSeqs(Candidates(nodes)) :
                  \A i, j \in DOMAIN o : Precedes(nodes, o[i], o[j]) => i < j}}
=============================================================================
