-------------------------- MODULE AddressDb_proofs --------------------------
(***************************************************************************)
(* Lemmas about the operators of AddressDb: the statements keep the table  *)
(* well formed, and the query returns distinct known addresses.            *)
(***************************************************************************)
EXTENDS AddressDb, FiniteSetTheorems, FunctionTheorems, TLAPS

LEMMA MinOfTwo ==
  ASSUME NEW a \in Nat, NEW b \in Nat
  PROVE  /\ Min({a, b}) \in {a, b}
         /\ Min({a, b}) <= a
         /\ Min({a, b}) <= b
<1>1. \E x \in {a, b} : \A y \in {a, b} : x <= y
  <2>1. CASE a <= b
    BY <2>1
  <2>2. CASE b <= a
    BY <2>2
  <2> QED
    BY <2>1, <2>2
<1> QED
  BY <1>1 DEF Min

(* An upsert replaces one whole row.                                        *)
LEMMA InsertOrUpdateOK ==
  ASSUME NEW nodes, IsTable(nodes), NEW addr \in Addr,
         NEW node_type \in NodeType, NEW seen \in Nat
  PROVE  IsTable(InsertOrUpdate(nodes, addr, NodeInfo(node_type, seen)))
<1>1. NodeInfo(node_type, seen) \in Row
  BY AddressDbAssumption DEF NodeInfo, Row
<1> QED
  BY <1>1 DEF IsTable, InsertOrUpdate

(* A failure is recorded in the address's own row, if there is one.         *)
LEMMA MarkFailedOK ==
  ASSUME NEW nodes, IsTable(nodes), NEW addr
  PROVE  IsTable(MarkFailed(nodes, addr))
<1> SUFFICES ASSUME NEW a \in DOMAIN nodes
             PROVE  MarkFailed(nodes, addr)[a] \in Row
  BY DEF IsTable, MarkFailed
<1>1. nodes[a] \in Row
  BY DEF IsTable
<1> DEFINE failures == Min({nodes[a].failures + 1, FailureLimit})
<1>2. failures \in 0..FailureLimit
  <2>1. nodes[a].failures + 1 \in Nat /\ FailureLimit \in Nat
    BY <1>1, AddressDbAssumption DEF Row
  <2> QED
    BY <2>1, MinOfTwo
<1> HIDE DEF failures
<1>3. [nodes[a] EXCEPT !.failures = failures,
                       !.reachable = @ /\ failures < FailureLimit] \in Row
  <2>1. (nodes[a].reachable /\ failures < FailureLimit) \in BOOLEAN
    OBVIOUS
  <2> HIDE DEF failures
  <2> QED
    BY <1>1, <1>2, <2>1 DEF Row
<1> QED
  BY <1>1, <1>3 DEF MarkFailed, failures

(* Pruning leaves rows as they are.                                         *)
LEMMA PruneOldOK ==
  ASSUME NEW nodes, IsTable(nodes), NEW old
  PROVE  IsTable(PruneOld(nodes, old))
BY DEF IsTable, PruneOld, Restrict

(* The query's result has no address twice.                                 *)
LEMMA GetKnotsExcludingOK ==
  ASSUME NEW nodes, IsTable(nodes), NEW limit \in Nat,
         NEW addrs \in GetKnotsExcluding(nodes, limit)
  PROVE  addrs \in Seq(Addr) /\ IsInjective(addrs)
<1> DEFINE C == Candidates(nodes)
           n == Cardinality(C)
<1>1. C \subseteq Addr
  BY DEF Candidates, IsTable
<1>2. n \in Nat
  BY <1>1, AddressDbAssumption, FS_Subset, FS_CardinalityType
<1>3. PICK o \in SetToSeqs(C) : addrs = SubSeq(o, 1, Min({limit, Len(o)}))
  BY DEF GetKnotsExcluding
<1>4. /\ o \in [1..n -> C]
      /\ \A i, j \in 1..n : i # j => o[i] # o[j]
  BY DEF SetToSeqs
<1> HIDE DEF C, n
<1>5. o \in Seq(C) /\ Len(o) = n
  BY <1>2, <1>4
<1>6. Min({limit, Len(o)}) \in 0..n
  BY <1>2, <1>5, MinOfTwo
<1> DEFINE m == Min({limit, Len(o)})
<1> HIDE DEF m
<1>7. addrs = [i \in 1..m |-> o[i]] /\ m \in 0..n
  BY <1>3, <1>5, <1>6 DEF m
<1>8. \A i \in 1..m : i \in 1..n
  BY <1>2, <1>7
<1>9. addrs \in Seq(Addr)
  BY <1>1, <1>4, <1>7, <1>8
<1>10. IsInjective(addrs)
  BY <1>4, <1>7, <1>8 DEF IsInjective
<1> QED
  BY <1>9, <1>10

-----------------------------------------------------------------------------
(* The order of the query.                                                 *)

(* A sequence of SetToSeqs names every element of the set.                  *)
LEMMA SetToSeqsOK ==
  ASSUME NEW S, IsFiniteSet(S), NEW o \in SetToSeqs(S)
  PROVE  /\ Cardinality(S) \in Nat
         /\ o \in [1..Cardinality(S) -> S]
         /\ Len(o) = Cardinality(S)
         /\ \A i, j \in DOMAIN o : o[i] = o[j] => i = j
         /\ \A x \in S : \E i \in DOMAIN o : o[i] = x
<1> DEFINE n == Cardinality(S)
<1>1. n \in Nat
  BY FS_CardinalityType
<1>2. o \in [1..n -> S] /\ \A i, j \in 1..n : i # j => o[i] # o[j]
  BY DEF SetToSeqs
<1> HIDE DEF n
<1>3. o \in Injection(1..n, S)
  BY <1>2, Fun_IsInj
<1>4. Cardinality(1..n) = n
  <2>1. Cardinality(1..n) = IF 1 > n THEN 0 ELSE n - 1 + 1
    BY <1>1, FS_Interval
  <2> QED
    BY <1>1, <2>1
<1>5. o \in Surjection(1..n, S)
  <2>1. Cardinality(1..n) = Cardinality(S)
    BY <1>4 DEF n
  <2>2. Cardinality(1..n) = Cardinality(S) <=> o \in Surjection(1..n, S)
    BY <1>3, FS_Injection
  <2> QED
    BY <2>1, <2>2
<1>6. \A x \in S : \E i \in 1..n : o[i] = x
  BY <1>5 DEF Surjection
<1> QED
  BY <1>1, <1>2, <1>6 DEF n

(* What the ticker is offered: as many candidates as there are, up to the   *)
(* limit, and before each of them every candidate that ranks before it.     *)
(* Nothing better is passed over, whatever the order of equals.             *)
THEOREM QueryRanks ==
  ASSUME NEW nodes, IsTable(nodes), NEW limit \in Nat,
         NEW addrs \in GetKnotsExcluding(nodes, limit)
  PROVE  /\ Len(addrs) = Min({limit, Cardinality(Candidates(nodes))})
         /\ \A i \in DOMAIN addrs :
              /\ addrs[i] \in Candidates(nodes)
              /\ \A a \in Candidates(nodes) :
                   Precedes(nodes, a, addrs[i]) => \E j \in 1..(i - 1) : addrs[j] = a
<1> DEFINE C == Candidates(nodes)
           n == Cardinality(C)
           m == Min({limit, n})
<1>1. IsFiniteSet(C)
  BY AddressDbAssumption, FS_Subset DEF Candidates, IsTable
<1>2. PICK o \in SetToSeqs(C) :
        /\ \A i, j \in DOMAIN o : Precedes(nodes, o[i], o[j]) => i < j
        /\ addrs = SubSeq(o, 1, Min({limit, Len(o)}))
  BY DEF GetKnotsExcluding
<1> HIDE DEF C
<1>3. /\ n \in Nat /\ o \in [1..n -> C] /\ Len(o) = n
      /\ \A a \in C : \E i \in DOMAIN o : o[i] = a
  BY <1>1, SetToSeqsOK
<1>4. m \in 0..n
  BY <1>3, MinOfTwo
<1>5. addrs = SubSeq(o, 1, m)
  BY <1>2, <1>3
<1> HIDE DEF m, n
<1>6. addrs = [i \in 1..m |-> o[i]] /\ Len(addrs) = m
  BY <1>3, <1>4, <1>5
<1>7. ASSUME NEW i \in DOMAIN addrs, NEW a \in C, Precedes(nodes, a, addrs[i])
      PROVE  \E j \in 1..(i - 1) : addrs[j] = a
  <2>1. PICK j \in DOMAIN o : o[j] = a
    BY <1>3
  <2>2. i \in 1..m /\ i \in DOMAIN o /\ addrs[i] = o[i]
    BY <1>3, <1>4, <1>6, <1>7
  <2>3. j < i
    BY <1>2, <1>7, <2>1, <2>2
  <2>4. j \in 1..(i - 1) /\ j \in 1..m
    BY <1>3, <1>4, <2>1, <2>2, <2>3
  <2> QED
    BY <1>6, <2>1, <2>4
<1>8. \A i \in DOMAIN addrs : addrs[i] \in C
  BY <1>3, <1>4, <1>6
<1> QED
  BY <1>6, <1>7, <1>8 DEF C, n, m

(* Why the target is not kept: when as many nodes as the query returns rank *)
(* before all others, it offers only them.  If they are the connected ones, *)
(* nobody is dialled, for every target, every budget and every table.       *)
THEOREM WindowCloses ==
  ASSUME NEW nodes, IsTable(nodes), NEW limit \in Nat,
         NEW first \in SUBSET Candidates(nodes), limit <= Cardinality(first),
         \A a \in first : \A b \in Candidates(nodes) \ first : Precedes(nodes, a, b),
         NEW addrs \in GetKnotsExcluding(nodes, limit)
  PROVE  \A i \in DOMAIN addrs : addrs[i] \in first
<1> SUFFICES ASSUME NEW i \in DOMAIN addrs, addrs[i] \notin first
             PROVE  FALSE
  OBVIOUS
<1> DEFINE n == Cardinality(Candidates(nodes))
<1>1. IsFiniteSet(Candidates(nodes)) /\ IsFiniteSet(first)
  BY AddressDbAssumption, FS_Subset DEF Candidates, IsTable
<1>2. n \in Nat /\ Cardinality(first) \in Nat
  BY <1>1, FS_CardinalityType
<1>3. /\ Len(addrs) = Min({limit, n})
      /\ addrs[i] \in Candidates(nodes)
      /\ \A a \in first : \E j \in 1..(i - 1) : addrs[j] = a
  BY QueryRanks
<1>4. i \in Nat \ {0} /\ i <= limit
  <2>1. addrs \in Seq(Addr)
    BY GetKnotsExcludingOK
  <2>2. Min({limit, n}) <= limit
    BY <1>2, MinOfTwo
  <2>3. Min({limit, n}) \in Nat
    BY <1>2, MinOfTwo
  <2> QED
    BY <1>3, <2>1, <2>2, <2>3
<1> DEFINE place == [a \in first |-> CHOOSE j \in 1..(i - 1) : addrs[j] = a]
<1>5. \A a \in first : place[a] \in 1..(i - 1) /\ addrs[place[a]] = a
  BY <1>3
<1> HIDE DEF place
<1>6. place \in Injection(first, 1..(i - 1))
  <2>1. place \in [first -> 1..(i - 1)]
    BY <1>5 DEF place
  <2>2. \A a, b \in first : place[a] = place[b] => a = b
    BY <1>5
  <2> QED
    BY <2>1, <2>2, Fun_IsInj
<1>7. IsFiniteSet(1..(i - 1)) /\ Cardinality(1..(i - 1)) = i - 1
  <2>0. 1 \in Int /\ i - 1 \in Int
    BY <1>4
  <2>1. /\ IsFiniteSet(1..(i - 1))
        /\ Cardinality(1..(i - 1)) = IF 1 > i - 1 THEN 0 ELSE i - 1 - 1 + 1
    BY <2>0, FS_Interval
  <2> QED
    BY <1>4, <2>1
<1>8. Cardinality(first) <= i - 1
  BY <1>6, <1>7, FS_Injection
<1> QED
  BY <1>2, <1>4, <1>8
=============================================================================
