----------------------------- MODULE Crawl_proofs -----------------------------
(***************************************************************************)
(* Theorems about the table over time, for every set of addresses, every   *)
(* target, every failure limit and every length of a dial.                 *)
(***************************************************************************)
EXTENDS Crawl, AddressDb_proofs

-----------------------------------------------------------------------------
(* The operators.                                                          *)

LEMMA AttemptsType ==
  ASSUME NEW n \in Nat
  PROVE  /\ Attempts(n) \in Nat
         /\ Attempts(n) <= MaxAttempts /\ Attempts(n) <= n + n \div 2
         /\ \A m \in 0..n : Attempts(m) <= Attempts(n)
<1>1. MaxAttempts \in Nat
  BY CrawlAssumption
<1>2. \A m \in Nat : /\ m + m \div 2 \in Nat
                     /\ Attempts(m) \in {m + m \div 2, MaxAttempts}
                     /\ Attempts(m) <= m + m \div 2 /\ Attempts(m) <= MaxAttempts
  <2> SUFFICES ASSUME NEW m \in Nat
               PROVE  /\ m + m \div 2 \in Nat
                      /\ Attempts(m) \in {m + m \div 2, MaxAttempts}
                      /\ Attempts(m) <= m + m \div 2 /\ Attempts(m) <= MaxAttempts
    OBVIOUS
  <2>1. m + m \div 2 \in Nat
    OBVIOUS
  <2> QED
    BY <1>1, <2>1, MinOfTwo DEF Attempts
<1>3. \A m \in 0..n : m \div 2 <= n \div 2
  OBVIOUS
<1> QED
  BY <1>1, <1>2, <1>3

(* What a tick dials are addresses of the table that are neither connected  *)
(* nor being dialled, and no more than the budget.                          *)
LEMMA ChosenOK ==
  ASSUME NEW listed \in Seq(Addr), NEW budget \in Nat
  PROVE  /\ Chosen(listed, budget) \subseteq Addr \ (peers \cup Dialling)
         /\ IsFiniteSet(Chosen(listed, budget))
         /\ Cardinality(Chosen(listed, budget)) <= budget
<1> DEFINE free == {i \in DOMAIN listed : listed[i] \notin Ipv6 \cup peers \cup Dialling}
           upto(j) == {k \in free : k <= j}
           J == {j \in free : Cardinality(upto(j)) <= budget}
           C == {listed[i] : i \in J}
<1>1. Chosen(listed, budget) = C
  BY DEF Chosen
<1>2. DOMAIN listed = 1..Len(listed) /\ Len(listed) \in Nat
  OBVIOUS
<1>3. C \subseteq Addr \ (peers \cup Dialling)
  <2>1. \A i \in free : listed[i] \in Addr \ (peers \cup Dialling)
    BY <1>2
  <2> HIDE DEF upto, free
  <2> QED
    BY <2>1
<1>4. IsFiniteSet(free) /\ free \subseteq Nat
  <2>1. IsFiniteSet(1..Len(listed))
    BY <1>2, FS_Interval
  <2> QED
    BY <1>2, <2>1, FS_Subset
<1>5. IsFiniteSet(C)
  BY <1>3, AddressDbAssumption, FS_Subset
<1>6. \A j \in free : /\ IsFiniteSet(upto(j)) /\ Cardinality(upto(j)) \in Nat \ {0}
                     /\ \A k \in free : k < j => Cardinality(upto(k)) < Cardinality(upto(j))
  <2> SUFFICES ASSUME NEW j \in free
               PROVE  /\ IsFiniteSet(upto(j)) /\ Cardinality(upto(j)) \in Nat \ {0}
                      /\ \A k \in free : k < j => Cardinality(upto(k)) < Cardinality(upto(j))
    OBVIOUS
  <2> HIDE DEF free
  <2>1. \A i \in free : /\ IsFiniteSet(upto(i)) /\ Cardinality(upto(i)) \in Nat
    <3> SUFFICES ASSUME NEW i \in free
                 PROVE  IsFiniteSet(upto(i)) /\ Cardinality(upto(i)) \in Nat
      OBVIOUS
    <3>1. upto(i) \in SUBSET free
      OBVIOUS
    <3> HIDE DEF upto
    <3> QED
      BY <1>4, <3>1, FS_Subset, FS_CardinalityType
  <2>2. j \in upto(j)
    BY <1>4
  <2>3. Cardinality(upto(j)) # 0
    <3> HIDE DEF upto
    <3> QED
      BY <2>1, <2>2, FS_EmptySet
  <2>4. ASSUME NEW k \in free, k < j PROVE Cardinality(upto(k)) < Cardinality(upto(j))
    <3>1. /\ upto(k) \in SUBSET upto(j)
          /\ j \notin upto(k)
      <4>1. j \in Nat /\ k \in Nat /\ \A i \in free : i \in Nat
        BY <1>4, <2>4
      <4>2. j \notin upto(k)
        BY <2>4, <4>1
      <4>3. \A i \in upto(k) : i \in free /\ i <= j
        BY <2>4, <4>1
      <4> QED
        BY <4>2, <4>3
    <3> HIDE DEF upto
    <3>2. Cardinality(upto(k)) <= Cardinality(upto(j))
      BY <2>1, <3>1, FS_Subset
    <3>3. Cardinality(upto(k)) # Cardinality(upto(j))
      BY <2>1, <2>2, <3>1, FS_Subset
    <3> QED
      BY <2>1, <3>2, <3>3
  <2> QED
    BY <2>1, <2>3, <2>4
<1> HIDE DEF upto, free
<1>7. J \subseteq free /\ \A j \in J : j \in Nat
  BY <1>4
<1>8. IsFiniteSet(J) /\ Cardinality(J) \in Nat
  BY <1>4, <1>7, FS_Subset, FS_CardinalityType
<1>9. Cardinality(J) <= budget
  <2> DEFINE f == [j \in J |-> Cardinality(upto(j))]
  <2>1. \A j \in J : f[j] \in 1..budget
    BY <1>6
  <2>2. \A j, k \in J : f[j] = f[k] => j = k
    <3> SUFFICES ASSUME NEW j \in J, NEW k \in J, j # k PROVE f[j] # f[k]
      OBVIOUS
    <3>1. j < k \/ k < j
      BY <1>7
    <3> QED
      BY <1>6, <1>7, <3>1
  <2> HIDE DEF J
  <2>3. f \in Injection(J, 1..budget)
    BY <2>1, <2>2 DEF Injection, IsInjective
  <2>4. IsFiniteSet(1..budget) /\ Cardinality(1..budget) = budget
    BY FS_Interval
  <2> QED
    BY <2>3, <2>4, FS_Injection
<1>10. Cardinality(C) <= Cardinality(J)
  <2> DEFINE f == [j \in J |-> listed[j]]
  <2> HIDE DEF J
  <2>1. f \in Surjection(J, C)
    BY DEF Surjection
  <2> HIDE DEF f, C
  <2> QED
    BY <1>8, <2>1, FS_Surjection
<1>11. Cardinality(C) \in Nat
  BY <1>5, FS_CardinalityType
<1> HIDE DEF C, J
<1>12. Cardinality(C) <= budget
  BY <1>8, <1>9, <1>10, <1>11
<1> QED
  BY <1>1, <1>3, <1>5, <1>12

(* What a tick does to the dials: it starts a set C of them, of an even     *)
(* budget, and the others get one tick older.                               *)
LEMMA TickDials ==
  ASSUME TypeOK, Tick
  PROVE  \E C \in SUBSET (Addr \ (peers \cup Dialling)), b \in Nat :
           /\ DialAll(C)
           /\ IsFiniteSet(C) /\ Cardinality(C) <= b
           /\ \/ b = 0
              \/ /\ Cardinality(peers) < Target
                 /\ b = Attempts(Target - Cardinality(peers))
<1>1. Cardinality(peers) \in Nat
  BY AddressDbAssumption, FS_Subset, FS_CardinalityType DEF TypeOK
<1>2. CASE Cardinality(peers) < Target
  <2> DEFINE b == Attempts(Target - Cardinality(peers))
  <2>1. Target - Cardinality(peers) \in Nat
    BY <1>1, <1>2, CrawlAssumption
  <2>2. b \in Nat
    BY <2>1, AttemptsType
  <2>3. b * Oversample \in Nat
    BY <2>2, CrawlAssumption
  <2>4. PICK listed \in GetKnotsExcluding(nodes, b * Oversample) : DialAll(Chosen(listed, b))
    BY <1>2 DEF Tick
  <2>5. listed \in Seq(Addr)
    BY <2>3, <2>4, GetKnotsExcludingOK DEF TypeOK
  <2> HIDE DEF b
  <2> DEFINE C == Chosen(listed, b)
  <2>6. C \in SUBSET (Addr \ (peers \cup Dialling)) /\ IsFiniteSet(C) /\ Cardinality(C) <= b
    BY <2>2, <2>5, ChosenOK
  <2> HIDE DEF C
  <2>7. DialAll(C)
    BY <2>4 DEF C
  <2> QED
    BY <1>2, <2>2, <2>6, <2>7 DEF b
<1>3. CASE ~(Cardinality(peers) < Target)
  <2>1. DialAll({})
    BY <1>3 DEF Tick
  <2> QED
    BY <2>1, FS_EmptySet
<1> QED
  BY <1>2, <1>3

(* What the steps of the connection tasks do to the number of sessions.     *)
LEMMA OpenType ==
  ASSUME TypeOK, NEW a \in Addr
  PROVE  sessions[a] \in Nat /\ Open(a) \in Nat
<1>1. sessions[a] \in Nat
  BY CrawlAssumption DEF TypeOK
<1> QED
  BY <1>1 DEF Open

LEMMA GreetOpens ==
  ASSUME TypeOK, NEW a \in Addr, NEW how \in Way, Greet(a, how)
  PROVE  /\ Open(a)' = Open(a) + 1
         /\ \A b \in Addr \ {a} : Open(b)' = Open(b) /\ (Joining(b)' <=> Joining(b))
<1>1. joining' = joining \cup {<<a, how>>} /\ <<a, how>> \notin joining /\ sessions' = sessions
  BY DEF Greet
<1>2. \A b \in Addr : sessions[b] \in Nat
  BY DEF TypeOK
<1>3. Open(a)' = Open(a) + 1
  <2>1. CASE how = "dialled"
    BY <1>1, <1>2, <2>1 DEF Open
  <2>2. CASE how = "accepted"
    BY <1>1, <1>2, <2>2 DEF Open
  <2> QED
    BY <2>1, <2>2 DEF Way
<1>4. \A b \in Addr \ {a} : \A w \in Way : <<b, w>> \in joining' <=> <<b, w>> \in joining
  BY <1>1
<1>5. \A b \in Addr \ {a} : Open(b)' = Open(b) /\ (Joining(b)' <=> Joining(b))
  BY <1>1, <1>4 DEF Open, Joining, Way
<1> QED
  BY <1>3, <1>5

LEMMA JoinOpens ==
  ASSUME TypeOK, NEW a \in Addr, NEW how \in Way, Join(a, how)
  PROVE  /\ Open(a)' <= Open(a) /\ Open(a)' \in Nat
         /\ sessions' \in [Addr -> Nat]
         /\ \A b \in Addr : sessions'[b] >= sessions[b]
         /\ \A b \in Addr \ {a} : Open(b)' = Open(b) /\ (Joining(b)' <=> Joining(b))
<1>1. joining' = joining \ {<<a, how>>} /\ <<a, how>> \in joining
  BY DEF Join
<1>2. \A b \in Addr : sessions[b] \in Nat
  BY DEF TypeOK
<1>3. sessions' = sessions \/ sessions' = [sessions EXCEPT ![a] = @ + 1]
  BY DEF Join
<1>4. sessions' \in [Addr -> Nat] /\ \A b \in Addr : sessions'[b] >= sessions[b]
  BY <1>2, <1>3 DEF TypeOK
<1>5. sessions'[a] \in {sessions[a], sessions[a] + 1} /\ \A b \in Addr \ {a} : sessions'[b] = sessions[b]
  BY <1>3 DEF TypeOK
<1>6. Open(a)' <= Open(a) /\ Open(a)' \in Nat
  <2>1. CASE how = "dialled"
    BY <1>1, <1>2, <1>5, <2>1 DEF Open
  <2>2. CASE how = "accepted"
    BY <1>1, <1>2, <1>5, <2>2 DEF Open
  <2> QED
    BY <2>1, <2>2 DEF Way
<1>7. \A b \in Addr \ {a} : \A w \in Way : <<b, w>> \in joining' <=> <<b, w>> \in joining
  BY <1>1
<1>8. \A b \in Addr \ {a} : Open(b)' = Open(b) /\ (Joining(b)' <=> Joining(b))
  BY <1>5, <1>7 DEF Open, Joining, Way
<1> QED
  BY <1>4, <1>6, <1>8

(* Rows written anew make a table of a table, and renew the history.        *)
LEMMA StoreOK ==
  ASSUME TypeOK, NEW addrs \in SUBSET Addr, NEW class \in [Addr -> NodeType], Store(addrs, class),
         \A a \in Addr : Open(a)' \in Nat
  PROVE  IsTable(nodes') /\ causes' \in [Addr -> 0..FailureLimit] /\ overtaken' \subseteq Addr
<1>1. \A a \in Addr : NodeInfo(class[a], Today) \in Row
  BY AddressDbAssumption, CrawlAssumption DEF NodeInfo, Row
<1>2. DOMAIN nodes' = DOMAIN nodes \cup addrs
  BY DEF Store
<1>3. \A a \in DOMAIN nodes' : nodes'[a] \in Row
  BY <1>1, <1>2 DEF Store, TypeOK, IsTable
<1>4. IsTable(nodes')
  BY <1>2, <1>3 DEF Store, TypeOK, IsTable
<1>5. \A a \in Addr : Min({Open(a)', FailureLimit}) \in 0..FailureLimit
  <2> SUFFICES ASSUME NEW a \in Addr PROVE Min({Open(a)', FailureLimit}) \in 0..FailureLimit
    OBVIOUS
  <2> DEFINE n == Open(a)'
  <2>1. n \in Nat /\ FailureLimit \in Nat
    BY AddressDbAssumption
  <2> HIDE DEF n
  <2>2. Min({n, FailureLimit}) \in 0..FailureLimit
    BY <2>1, MinOfTwo
  <2> QED
    BY <2>2 DEF n
<1>6. \A a \in Addr : causes[a] \in 0..FailureLimit
  BY DEF TypeOK
<1>7. causes' \in [Addr -> 0..FailureLimit]
  BY <1>5, <1>6 DEF Store
<1>8. overtaken' \subseteq Addr
  BY DEF Store, TypeOK
<1> QED
  BY <1>4, <1>7, <1>8

(* A day later a table is a table.                                          *)
LEMMA DayOK ==
  ASSUME TypeOK, Day
  PROVE  IsTable(nodes')
<1>1. DOMAIN nodes' = DOMAIN nodes
  BY DEF Day
<1>2. ASSUME NEW a \in DOMAIN nodes PROVE nodes'[a] \in Row
  <2>1. nodes[a] \in Row
    BY <1>2 DEF TypeOK, IsTable
  <2>2. nodes'[a] = [nodes[a] EXCEPT !.last_seen = IF @ = 0 THEN 0 ELSE @ - 1]
    BY <1>2 DEF Day
  <2> QED
    BY <2>1, <2>2 DEF Row
<1> QED
  BY <1>1, <1>2 DEF Day, TypeOK, IsTable

-----------------------------------------------------------------------------
(* Type correctness.                                                       *)

(* What the type invariant says of the dials and sessions, and what it says *)
(* of the table and the history.                                            *)
LinksOK ==
  /\ called \subseteq peers /\ peers \subseteq Addr
  /\ Dialling \subseteq Addr /\ dials \in [Dialling -> 1..DialTicks]
  /\ joining \subseteq Addr \X Way
  /\ \A a \in Addr : <<a, "dialled">> \in joining => a \in Dialling
  /\ sessions \in [Addr -> 0..MaxSessions]
  /\ \A a \in Addr : Open(a) <= MaxSessions
  /\ closing \subseteq {a \in Addr : sessions[a] > 0}

TableOK ==
  /\ IsTable(nodes)
  /\ causes \in [Addr -> 0..FailureLimit]
  /\ overtaken \subseteq Addr

(* A step that leaves one of the two alone keeps what is said of it.        *)
LEMMA LinksKept ==
  ASSUME TypeOK, UNCHANGED links
  PROVE  LinksOK' /\ \A a \in Addr : Open(a)' = Open(a)
BY DEF TypeOK, LinksOK, links, Dialling, Open

LEMMA TableKept ==
  ASSUME TypeOK, UNCHANGED <<nodes, history>>
  PROVE  TableOK'
BY DEF TypeOK, TableOK, history, IsTable

LEMMA FailedOK ==
  ASSUME TypeOK, NEW a \in Addr, Failed(a)
  PROVE  IsTable(nodes') /\ overtaken' \subseteq Addr
BY MarkFailedOK DEF TypeOK, Failed

(* A dial that ends leaves the others as they are.                          *)
LEMMA UndialOK ==
  ASSUME TypeOK, NEW a, Undial(a)
  PROVE  /\ Dialling' = Dialling \ {a} /\ dials' \in [Dialling' -> 1..DialTicks]
         /\ \A b \in Dialling' : dials'[b] = dials[b]
BY DEF Undial, Restrict, TypeOK, Dialling

LEMMA GreetOK ==
  ASSUME TypeOK, NEW a \in Addr, NEW how \in Way, Greet(a, how), how = "dialled" => a \in Dialling
  PROVE  LinksOK' /\ TableOK'
<1>1. /\ joining' = joining \cup {<<a, how>>} /\ Open(a) < MaxSessions
      /\ UNCHANGED <<peers, called, dials, sessions, closing>> /\ Store({a}, ClassOf)
  BY DEF Greet
<1>2. \A b \in Addr : Open(b)' \in Nat /\ Open(b)' <= MaxSessions
  <2>1. MaxSessions \in Nat /\ \A b \in Addr : Open(b) \in Nat /\ Open(b) <= MaxSessions
    BY OpenType, CrawlAssumption DEF TypeOK
  <2>2. Open(a) + 1 \in Nat /\ Open(a) + 1 <= MaxSessions
    BY <1>1, <2>1
  <2>3. Open(a)' = Open(a) + 1 /\ \A b \in Addr \ {a} : Open(b)' = Open(b)
    BY GreetOpens
  <2> QED
    BY <2>1, <2>2, <2>3
<1>3. TableOK'
  BY <1>1, <1>2, StoreOK, CrawlAssumption DEF TableOK
<1>4. LinksOK'
  BY <1>1, <1>2 DEF LinksOK, TypeOK, Dialling
<1> QED
  BY <1>3, <1>4

LEMMA JoinOK ==
  ASSUME TypeOK, NEW a \in Addr, NEW how \in Way, Join(a, how)
  PROVE  LinksOK' /\ TableOK'
<1>1. /\ joining' = joining \ {<<a, how>>} /\ closing' = closing
      /\ IF how = "dialled" THEN Undial(a) ELSE UNCHANGED dials
  BY DEF Join
<1>2. called' \subseteq peers' /\ peers' \subseteq Addr
  BY DEF Join, TypeOK
<1>3. Dialling' \subseteq Addr /\ dials' \in [Dialling' -> 1..DialTicks]
  <2>1. CASE how = "dialled"
    BY <1>1, <2>1, UndialOK DEF TypeOK
  <2>2. CASE how # "dialled"
    BY <1>1, <2>2 DEF TypeOK, Dialling
  <2> QED
    BY <2>1, <2>2
<1>4. \A b \in Addr : <<b, "dialled">> \in joining' => b \in Dialling'
  <2>1. CASE how = "dialled"
    BY <1>1, <2>1, UndialOK DEF TypeOK
  <2>2. CASE how # "dialled"
    BY <1>1, <2>2 DEF TypeOK, Dialling
  <2> QED
    BY <2>1, <2>2
<1>5. \A b \in Addr : Open(b)' <= MaxSessions
  <2>1. \A b \in Addr : Open(b) \in Nat /\ Open(b) <= MaxSessions
    BY OpenType DEF TypeOK
  <2>2. MaxSessions \in Nat
    BY CrawlAssumption
  <2>3. Open(a)' <= MaxSessions
    BY <2>1, <2>2, JoinOpens
  <2> QED
    BY <2>1, <2>3, JoinOpens
<1>6. sessions' \in [Addr -> 0..MaxSessions]
  <2>1. \A b \in Addr : sessions'[b] \in Nat /\ sessions'[b] <= Open(b)'
    <3>1. \A b \in Addr : sessions'[b] \in Nat
      BY JoinOpens
    <3> QED
      BY <3>1 DEF Open
  <2>2. \A b \in Addr : sessions'[b] \in 0..MaxSessions
    <3>1. MaxSessions \in Nat
      BY CrawlAssumption
    <3>2. \A b \in Addr : Open(b)' \in Nat
      BY JoinOpens, OpenType
    <3> QED
      BY <1>5, <2>1, <3>1, <3>2
  <2> QED
    BY <2>2, JoinOpens
<1>7. closing' \subseteq {b \in Addr : sessions'[b] > 0}
  <2>1. \A b \in Addr : sessions[b] \in Nat /\ sessions'[b] \in Nat /\ sessions'[b] >= sessions[b]
    BY JoinOpens, OpenType
  <2>2. \A b \in closing : b \in Addr /\ sessions[b] > 0
    BY DEF TypeOK
  <2> QED
    BY <1>1, <2>1, <2>2
<1>8. joining' \subseteq Addr \X Way
  BY <1>1 DEF TypeOK
<1>9. LinksOK'
  BY <1>2, <1>3, <1>4, <1>5, <1>6, <1>7, <1>8 DEF LinksOK
<1>10. TableOK'
  BY TableKept DEF Join
<1> QED
  BY <1>9, <1>10

(* The table stays a table, no address has more sessions than the bound,    *)
(* and what is called, about to join or closing is what it should be.       *)
THEOREM TypeCorrect == DiscoverySpec => []TypeOK
<1>1. Init => TypeOK
  <2> SUFFICES ASSUME Init PROVE TypeOK
    OBVIOUS
  <2>1. LinksOK
    BY CrawlAssumption DEF Init, LinksOK, Dialling, Open
  <2>2. TableOK
    BY AddressDbAssumption, CrawlAssumption DEF Init, TableOK, IsTable, Row
  <2>3. unseeded \subseteq DnsSeeds /\ restarts \in 0..MaxRestarts /\ overdue \in BOOLEAN
    <3>1. restarts \in 0..MaxRestarts
      BY CrawlAssumption DEF Init
    <3> QED
      BY <3>1 DEF Init
  <2> QED
    BY <2>1, <2>2, <2>3 DEF LinksOK, TableOK, TypeOK
<1>2. TypeOK /\ [Next]_vars => TypeOK'
  <2> SUFFICES ASSUME TypeOK, [Next]_vars PROVE TypeOK'
    OBVIOUS
  <2>1. unseeded' \subseteq DnsSeeds /\ restarts' \in 0..MaxRestarts /\ overdue' \in BOOLEAN
    <3>1. CASE Tick
      <4>1. PICK C : DialAll(C)
        BY <3>1, TickDials
      <4>2. overdue' \in BOOLEAN
        BY <4>1 DEF DialAll
      <4> QED
        BY <3>1, <4>2 DEF Tick, TypeOK
    <3>2. CASE Restart
      <4>1. restarts' \in 0..MaxRestarts
        BY <3>2, CrawlAssumption DEF Restart, TypeOK
      <4> QED
        BY <3>2, <4>1 DEF Restart
    <3>3. CASE \E addrs \in DnsSeeds : SeedFromDns(addrs)
      BY <3>3 DEF SeedFromDns, TypeOK
    <3>4. CASE UNCHANGED <<unseeded, restarts, overdue>>
      BY <3>4 DEF TypeOK
    <3> QED
      BY <3>1, <3>2, <3>3, <3>4
      DEF Next, vars, RunDiscoveryCycle, Day, Establish, AcceptFrom, Greet, Join, Fail,
          PruneStalePeer, Disconnected, FinishDisconnected, HandleNewAddresses
  <2>2. ASSUME LinksOK', TableOK' PROVE TypeOK'
    BY <2>1, <2>2 DEF LinksOK, TableOK, TypeOK
  <2>3. ASSUME Tick PROVE TypeOK'
    <3>1. PICK C \in SUBSET (Addr \ (peers \cup Dialling)) : DialAll(C)
      BY <2>3, TickDials
    <3>2. \A a \in Dialling : Min({dials[a] + 1, DialTicks}) \in 1..DialTicks
      <4>1. \A a \in Dialling : dials[a] + 1 \in Nat /\ dials[a] + 1 >= 1
        BY CrawlAssumption DEF TypeOK
      <4>2. DialTicks \in Nat /\ DialTicks >= 1
        BY CrawlAssumption
      <4> QED
        BY <4>1, <4>2, MinOfTwo
    <3>3. 1 \in 1..DialTicks
      BY CrawlAssumption
    <3>4. Dialling' = Dialling \cup C /\ dials' \in [Dialling' -> 1..DialTicks]
      BY <3>1, <3>2, <3>3 DEF DialAll, Dialling
    <3>5. UNCHANGED <<peers, called, joining, sessions, closing>>
      BY <2>3 DEF Tick
    <3>6. LinksOK'
      BY <3>4, <3>5 DEF LinksOK, TypeOK, Open
    <3>7. TableOK'
      BY <2>3, TableKept DEF Tick
    <3> QED
      BY <2>2, <3>6, <3>7
  <2>4. ASSUME RunDiscoveryCycle PROVE TypeOK'
    <3>1. TableOK'
      BY <2>4, PruneOldOK DEF RunDiscoveryCycle, TypeOK, TableOK, history
    <3> QED
      BY <2>2, <2>4, <3>1, LinksKept DEF RunDiscoveryCycle
  <2>5. ASSUME Day PROVE TypeOK'
    <3>1. TableOK'
      BY <2>5, DayOK DEF Day, TypeOK, TableOK, history
    <3> QED
      BY <2>2, <2>5, <3>1, LinksKept DEF Day
  <2>6. ASSUME Restart PROVE TypeOK'
    <3>1. LinksOK'
      BY <2>6, CrawlAssumption DEF Restart, LinksOK, Dialling, Open
    <3>2. TableOK'
      BY <2>6 DEF Restart, TypeOK, TableOK, IsTable
    <3> QED
      BY <2>2, <3>1, <3>2
  <2>7. ASSUME NEW a \in Addr, Establish(a) PROVE TypeOK'
    BY <2>2, <2>7, GreetOK DEF Establish, Way
  <2>8. ASSUME NEW a \in Addr, AcceptFrom(a) PROVE TypeOK'
    BY <2>2, <2>8, GreetOK DEF AcceptFrom, Way
  <2>9. ASSUME NEW a \in Addr, NEW how \in Way, Join(a, how) PROVE TypeOK'
    BY <2>2, <2>9, JoinOK
  <2>10. ASSUME NEW a \in Addr, Fail(a) PROVE TypeOK'
    <3>1. /\ Failed(a) /\ Undial(a) /\ <<a, "dialled">> \notin joining
          /\ causes' = [causes EXCEPT ![a] = Min({@ + 1, FailureLimit})]
          /\ UNCHANGED <<peers, called, joining, sessions, closing>>
      BY <2>10 DEF Fail
    <3>2. Min({causes[a] + 1, FailureLimit}) \in 0..FailureLimit
      BY MinOfTwo, AddressDbAssumption DEF TypeOK
    <3>3. TableOK'
      BY <3>1, <3>2, FailedOK DEF TableOK, TypeOK
    <3>4. Dialling' = Dialling \ {a} /\ dials' \in [Dialling' -> 1..DialTicks]
      BY <3>1, UndialOK
    <3>5. LinksOK'
      BY <3>1, <3>4 DEF LinksOK, TypeOK, Open
    <3> QED
      BY <2>2, <3>3, <3>5
  <2>11. ASSUME NEW a \in Addr, PruneStalePeer(a) PROVE TypeOK'
    <3>1. LinksOK'
      BY <2>11 DEF PruneStalePeer, LinksOK, TypeOK, Open, Dialling
    <3> QED
      BY <2>2, <2>11, <3>1, TableKept DEF PruneStalePeer
  <2>12. ASSUME NEW a \in Addr, Disconnected(a) PROVE TypeOK'
    <3>1. LinksOK'
      BY <2>12 DEF Disconnected, LinksOK, TypeOK, Open, Dialling
    <3> QED
      BY <2>2, <2>12, <3>1, TableKept DEF Disconnected
  <2>13. ASSUME NEW a \in Addr, FinishDisconnected(a) PROVE TypeOK'
    <3>1. /\ a \in closing /\ closing' = {} /\ Failed(a)
          /\ sessions' = [sessions EXCEPT ![a] = @ - 1]
          /\ UNCHANGED <<peers, called, dials, joining, causes>>
      BY <2>13 DEF FinishDisconnected
    <3>2. sessions[a] \in 1..MaxSessions
      BY <3>1, CrawlAssumption DEF TypeOK
    <3>3. sessions' \in [Addr -> 0..MaxSessions] /\ \A b \in Addr : sessions'[b] <= sessions[b]
      BY <3>1, <3>2, CrawlAssumption DEF TypeOK
    <3>4. \A b \in Addr : Open(b)' <= MaxSessions
      <4> SUFFICES ASSUME NEW b \in Addr PROVE Open(b)' <= MaxSessions
        OBVIOUS
      <4>1. sessions[b] \in Nat /\ sessions'[b] \in Nat /\ sessions'[b] <= sessions[b] /\ MaxSessions \in Nat
        BY <3>3, CrawlAssumption DEF TypeOK
      <4>2. Open(b) <= MaxSessions
        BY DEF TypeOK
      <4> QED
        BY <3>1, <4>1, <4>2 DEF Open
    <3>5. LinksOK'
      BY <3>1, <3>3, <3>4 DEF LinksOK, TypeOK, Dialling
    <3>6. TableOK'
      BY <3>1, FailedOK DEF TableOK, TypeOK
    <3> QED
      BY <2>2, <3>5, <3>6
  <2>14. ASSUME NEW addrs \in SUBSET Addr, Store(addrs, Unknown), UNCHANGED links PROVE TypeOK'
    <3>1. Unknown \in [Addr -> NodeType]
      BY DEF Unknown, NodeType
    <3>2. LinksOK' /\ \A a \in Addr : Open(a)' \in Nat
      BY <2>14, LinksKept, OpenType
    <3>3. TableOK'
      BY <2>14, <3>1, <3>2, StoreOK DEF TableOK
    <3> QED
      BY <2>2, <3>2, <3>3
  <2>15. ASSUME UNCHANGED <<nodes, history>>, UNCHANGED links PROVE TypeOK'
    BY <2>2, <2>15, LinksKept, TableKept
  <2>16. ASSUME NEW addrs \in DnsSeeds, SeedFromDns(addrs) PROVE TypeOK'
    <3>1. addrs \cap Public \in SUBSET Addr
      BY CrawlAssumption
    <3>2. UNCHANGED links /\ (Store(addrs \cap Public, Unknown) \/ UNCHANGED <<nodes, history>>)
      BY <2>16 DEF SeedFromDns
    <3> QED
      BY <2>14, <2>15, <3>1, <3>2
  <2>17. ASSUME NEW addrs \in Gossip, HandleNewAddresses(addrs) PROVE TypeOK'
    <3>1. addrs \cap Public \in SUBSET Addr
      BY CrawlAssumption
    <3>2. UNCHANGED links /\ Store(addrs \cap Public, Unknown)
      BY <2>17 DEF HandleNewAddresses
    <3> QED
      BY <2>14, <3>1, <3>2
  <2>18. CASE UNCHANGED vars
    BY <2>15, <2>18 DEF vars
  <2> QED
    BY <2>3, <2>4, <2>5, <2>6, <2>7, <2>8, <2>9, <2>10, <2>11, <2>12, <2>13, <2>16, <2>17, <2>18
    DEF Next
<1> QED
  BY <1>1, <1>2, PTL DEF DiscoverySpec

-----------------------------------------------------------------------------
(* The rows and their writers.                                             *)

(* What is known of a row at any time: it is given up at the limit only;    *)
(* the failures on record and those that open sessions may still add have   *)
(* their causes; the row of a session about to join is as good as new; and  *)
(* the row of a connected node is good, with two failures at most, one of a *)
(* dial that ends after the node itself has called and one of a session     *)
(* that lost its handle before.                                             *)
RowInv(a) ==
  /\ ~nodes[a].reachable => nodes[a].failures = FailureLimit
  /\ causes[a] = FailureLimit \/ nodes[a].failures + Open(a) <= causes[a]
  /\ Joining(a) /\ a \notin overtaken => nodes[a].reachable /\ nodes[a].failures = 0
  /\ a \in peers \ overtaken =>
       /\ nodes[a].reachable
       /\ nodes[a].failures + (IF a \in Dialling THEN 1 ELSE 0)
                            + (IF a \in closing THEN 1 ELSE 0) <= 2

HasRows == \A a \in Addr \ overtaken : a \in peers \/ Joining(a) => a \in DOMAIN nodes

RowsInv == HasRows /\ \A a \in DOMAIN nodes : RowInv(a)

\* The row is as good as new.
Fresh(a) ==
  /\ nodes'[a].failures = 0 /\ nodes'[a].reachable
  /\ causes'[a] = Min({Open(a)', FailureLimit})

\* The row counts what it counted, and no session of the address is new.
Untouched(a) ==
  /\ a \in DOMAIN nodes
  /\ nodes'[a].failures = nodes[a].failures
  /\ nodes'[a].reachable = nodes[a].reachable
  /\ causes'[a] = causes[a] /\ Open(a)' <= Open(a)
  /\ a \notin overtaken' =>
       /\ Joining(a)' => Joining(a) /\ a \notin overtaken
       /\ a \in peers' => \/ Joining(a) /\ a \notin overtaken
                          \/ /\ a \in peers \ overtaken
                             /\ a \in Dialling' => a \in Dialling
                             /\ a \in closing' => a \in closing

(* A row that is new, or that no step has touched, is as the invariant has  *)
(* it.                                                                      *)
LEMMA RowInvKept ==
  ASSUME TypeOK, TypeOK', RowsInv, NEW a \in DOMAIN nodes', Fresh(a) \/ Untouched(a)
  PROVE  RowInv(a)'
<1> DEFINE open == Open(a)'
           ends == (IF a \in Dialling' THEN 1 ELSE 0) + (IF a \in closing' THEN 1 ELSE 0)
<1>1. /\ a \in Addr /\ causes'[a] \in Nat /\ nodes'[a].failures \in Nat /\ FailureLimit \in Nat
      /\ open \in Nat /\ ends \in 0..2
  <2>1. a \in Addr /\ causes'[a] \in Nat /\ nodes'[a].failures \in Nat /\ FailureLimit \in Nat
    BY AddressDbAssumption DEF TypeOK, IsTable, Row
  <2>2. sessions'[a] \in Nat
    BY <2>1, CrawlAssumption DEF TypeOK
  <2> QED
    BY <2>1, <2>2 DEF Open
<1>2. CASE Fresh(a)
  <2>1. causes'[a] \in {open, FailureLimit}
    <3>1. causes'[a] = Min({open, FailureLimit})
      BY <1>2 DEF Fresh
    <3> HIDE DEF open
    <3> QED
      BY <1>1, <3>1, MinOfTwo
  <2>2. causes'[a] = FailureLimit \/ nodes'[a].failures + open <= causes'[a]
    <3>1. nodes'[a].failures = 0
      BY <1>2 DEF Fresh
    <3> HIDE DEF open
    <3> QED
      BY <1>1, <2>1, <3>1
  <2> QED
    BY <1>1, <1>2, <2>2 DEF Fresh, RowInv
<1>3. CASE Untouched(a)
  <2>1. RowInv(a) /\ a \in DOMAIN nodes /\ a \in Addr
    BY <1>1, <1>3 DEF Untouched, RowsInv
  <2>2. causes[a] \in Nat /\ nodes[a].failures \in Nat /\ Open(a) \in Nat
    BY <2>1, OpenType, AddressDbAssumption DEF TypeOK, IsTable, Row
  <2>3. causes'[a] = FailureLimit \/ nodes'[a].failures + open <= causes'[a]
    <3>1. /\ open <= Open(a) /\ causes'[a] = causes[a] /\ nodes'[a].failures = nodes[a].failures
          /\ causes[a] = FailureLimit \/ nodes[a].failures + Open(a) <= causes[a]
      BY <1>3, <2>1 DEF Untouched, RowInv
    <3> HIDE DEF open
    <3> QED
      BY <1>1, <2>2, <3>1
  <2>4. ASSUME a \notin overtaken'
        PROVE  /\ Joining(a)' => nodes'[a].reachable /\ nodes'[a].failures = 0
               /\ a \in peers' => nodes'[a].reachable /\ nodes'[a].failures + ends <= 2
    <3>1. CASE Joining(a) /\ a \notin overtaken
      <4>1. nodes'[a].reachable /\ nodes'[a].failures = 0
        BY <1>3, <2>1, <3>1 DEF Untouched, RowInv
      <4> HIDE DEF ends
      <4> QED
        BY <1>1, <4>1
    <3>2. CASE ~(Joining(a) /\ a \notin overtaken)
      <4>1. ~Joining(a)'
        BY <1>3, <2>4, <3>2 DEF Untouched
      <4>2. ASSUME a \in peers' PROVE nodes'[a].reachable /\ nodes'[a].failures + ends <= 2
        <5>1. /\ a \in peers \ overtaken
              /\ a \in Dialling' => a \in Dialling
              /\ a \in closing' => a \in closing
              /\ nodes'[a].failures = nodes[a].failures
              /\ nodes'[a].reachable = nodes[a].reachable
          BY <1>3, <2>4, <3>2, <4>2 DEF Untouched
        <5>2. /\ nodes[a].reachable
              /\ nodes[a].failures + (IF a \in Dialling THEN 1 ELSE 0)
                                   + (IF a \in closing THEN 1 ELSE 0) <= 2
          BY <2>1, <5>1 DEF RowInv
        <5> QED
          BY <2>2, <5>1, <5>2
      <4> QED
        BY <4>1, <4>2
    <3> QED
      BY <3>1, <3>2
  <2>5. ~nodes'[a].reachable => nodes'[a].failures = FailureLimit
    BY <1>3, <2>1 DEF Untouched, RowInv
  <2>6. a \in peers' \ overtaken' =>
          /\ nodes'[a].reachable
          /\ nodes'[a].failures + (IF a \in Dialling' THEN 1 ELSE 0)
                                + (IF a \in closing' THEN 1 ELSE 0) <= 2
    BY <1>1, <2>4
  <2> QED
    BY <2>3, <2>4, <2>5, <2>6 DEF RowInv
<1> QED
  BY <1>2, <1>3

LEMMA RowsInvKept ==
  ASSUME TypeOK, TypeOK', RowsInv, HasRows', \A a \in DOMAIN nodes' : Fresh(a) \/ Untouched(a)
  PROVE  RowsInv'
BY RowInvKept DEF RowsInv

(* Steps that write rows anew.                                              *)
LEMMA StoreRows ==
  ASSUME TypeOK, NEW addrs \in SUBSET Addr, NEW class, Store(addrs, class)
  PROVE  /\ DOMAIN nodes' = DOMAIN nodes \cup addrs /\ overtaken' = overtaken \ addrs
         /\ \A a \in addrs : Fresh(a)
         /\ \A a \in DOMAIN nodes \ addrs : nodes'[a] = nodes[a] /\ causes'[a] = causes[a]
<1>1. \A a \in addrs : NodeInfo(class[a], Today).failures = 0 /\ NodeInfo(class[a], Today).reachable
  BY DEF NodeInfo
<1>2. \A a \in DOMAIN nodes : a \in Addr
  BY DEF TypeOK, IsTable
<1>3. DOMAIN nodes' = DOMAIN nodes \cup addrs /\ overtaken' = overtaken \ addrs
  BY DEF Store
<1>4. ASSUME NEW a \in addrs PROVE Fresh(a)
  <2>1. nodes'[a] = NodeInfo(class[a], Today) /\ causes'[a] = Min({Open(a)', FailureLimit})
    BY <1>4 DEF Store
  <2> QED
    BY <1>1, <2>1 DEF Fresh
<1>5. \A a \in DOMAIN nodes \ addrs : nodes'[a] = nodes[a] /\ causes'[a] = causes[a]
  BY <1>2 DEF Store
<1> QED
  BY <1>3, <1>4, <1>5

LEMMA GreetRows ==
  ASSUME TypeOK, TypeOK', RowsInv, NEW a \in Addr, NEW how \in Way, Greet(a, how)
  PROVE  RowsInv'
<1>1. Store({a}, ClassOf) /\ UNCHANGED <<peers, dials, closing>>
  BY DEF Greet
<1>2. /\ DOMAIN nodes' = DOMAIN nodes \cup {a} /\ overtaken' = overtaken \ {a} /\ Fresh(a)
      /\ \A b \in DOMAIN nodes \ {a} : nodes'[b] = nodes[b] /\ causes'[b] = causes[b]
  BY <1>1, StoreRows, ZenonT(30)
<1>3. HasRows'
  BY <1>1, <1>2, GreetOpens DEF RowsInv, HasRows
<1>4. ASSUME NEW b \in DOMAIN nodes \ {a} PROVE Untouched(b)
  <2>1. b \in Addr \ {a}
    BY <1>4 DEF TypeOK, IsTable
  <2>2. Open(b)' = Open(b) /\ Open(b) \in Nat /\ (Joining(b)' <=> Joining(b))
    BY <2>1, GreetOpens, OpenType
  <2> QED
    BY <1>1, <1>2, <2>1, <2>2 DEF Untouched, Dialling
<1> QED
  BY <1>2, <1>3, <1>4, RowsInvKept

LEMMA JoinRows ==
  ASSUME TypeOK, TypeOK', RowsInv, NEW a \in Addr, NEW how \in Way, Join(a, how)
  PROVE  RowsInv'
<1>1. UNCHANGED <<nodes, causes, overtaken, closing>> /\ peers' = peers \cup {a} /\ Joining(a)
  BY DEF Join, history, Joining
<1>2. Dialling' \subseteq Dialling
  BY UndialOK DEF Join, Dialling
<1>3. Joining(a)' => Joining(a)
  BY <1>1
<1>4. HasRows'
  BY <1>1, JoinOpens DEF RowsInv, HasRows
<1>5. ASSUME NEW b \in DOMAIN nodes PROVE Untouched(b)
  <2>1. b \in Addr
    BY <1>5 DEF TypeOK, IsTable
  <2>2. Open(b)' <= Open(b) /\ (Joining(b)' => Joining(b))
    <3>1. CASE b = a
      BY <1>1, <3>1, JoinOpens
    <3>2. CASE b # a
      BY <2>1, <3>2, JoinOpens, OpenType
    <3> QED
      BY <3>1, <3>2
  <2> QED
    BY <1>1, <1>2, <2>1, <2>2 DEF Untouched
<1> QED
  BY <1>1, <1>4, <1>5, RowsInvKept

(* What a failure does to a row.                                            *)
LEMMA MarkFailedRow ==
  ASSUME TypeOK, NEW a \in Addr
  PROVE  /\ DOMAIN MarkFailed(nodes, a) = DOMAIN nodes
         /\ \A b \in DOMAIN nodes \ {a} : MarkFailed(nodes, a)[b] = nodes[b]
         /\ a \in DOMAIN nodes =>
              LET row == MarkFailed(nodes, a)[a]
              IN  /\ row.failures = Min({nodes[a].failures + 1, FailureLimit})
                  /\ row.reachable <=> nodes[a].reachable /\ row.failures < FailureLimit
<1>1. a \in DOMAIN nodes => nodes[a] \in Row
  BY DEF TypeOK, IsTable
<1> QED
  BY <1>1 DEF MarkFailed, Row

(* A failure has its cause: it is a dial's, or takes an open session away;  *)
(* and one of the two that a connected node may still get is marked.        *)
LEMMA FailedRows ==
  ASSUME TypeOK, TypeOK', RowsInv, NEW a \in Addr, Failed(a), UNCHANGED <<peers, joining>>,
         \A b \in Addr \ {a} : Open(b)' = Open(b) /\ causes'[b] = causes[b],
         \/ /\ causes'[a] = Min({causes[a] + 1, FailureLimit}) /\ Open(a)' = Open(a)
            /\ a \in Dialling /\ Dialling' = Dialling \ {a} /\ closing' = closing
         \/ /\ causes'[a] = causes[a] /\ Open(a)' = Open(a) - 1
            /\ a \in closing /\ closing' = {} /\ Dialling' = Dialling
  PROVE  RowsInv'
<1>1. /\ DOMAIN nodes' = DOMAIN nodes
      /\ \A b \in DOMAIN nodes \ {a} : nodes'[b] = nodes[b]
  BY MarkFailedRow DEF Failed
<1>2. \A b \in Addr : Joining(b)' <=> Joining(b)
  BY DEF Joining
<1>3. overtaken \subseteq overtaken' /\ overtaken' \subseteq overtaken \cup {a}
      /\ (Joining(a) => a \in overtaken')
  BY DEF Failed
<1>4. HasRows'
  BY <1>1, <1>2, <1>3 DEF RowsInv, HasRows
<1>5. ASSUME NEW b \in DOMAIN nodes \ {a} PROVE RowInv(b)'
  <2>1. b \in Addr \ {a}
    BY <1>5 DEF TypeOK, IsTable
  <2>2. Open(b)' <= Open(b)
    BY <2>1, OpenType
  <2>3. Untouched(b)
    BY <1>1, <1>2, <1>3, <1>5, <2>1, <2>2 DEF Untouched
  <2> QED
    BY <1>1, <1>5, <2>3, RowInvKept
<1>6. ASSUME a \in DOMAIN nodes PROVE RowInv(a)'
  <2> DEFINE f == nodes[a].failures   m == causes[a]   o == Open(a)
             g == nodes'[a].failures  n == causes'[a]  p == Open(a)'
  <2>1. f \in Nat /\ m \in Nat /\ o \in Nat /\ p \in Nat /\ FailureLimit \in Nat /\ f <= FailureLimit
    <3>1. f \in Nat /\ m \in Nat /\ FailureLimit \in Nat /\ f <= FailureLimit
      BY <1>6, AddressDbAssumption DEF TypeOK, IsTable, Row
    <3>2. o \in Nat
      BY OpenType
    <3>3. p \in Nat
      <4>1. sessions'[a] \in Nat
        BY CrawlAssumption DEF TypeOK
      <4> QED
        BY <4>1 DEF Open
    <3> QED
      BY <3>1, <3>2, <3>3
  <2>2. /\ g = Min({f + 1, FailureLimit})
        /\ nodes'[a].reachable <=> nodes[a].reachable /\ g < FailureLimit
    BY <1>6, MarkFailedRow DEF Failed
  <2>3. \A k \in Nat : /\ Min({k + 1, FailureLimit}) \in {k + 1, FailureLimit}
                       /\ Min({k + 1, FailureLimit}) <= k + 1
                       /\ Min({k + 1, FailureLimit}) <= FailureLimit
    BY MinOfTwo, AddressDbAssumption
  <2>4. g \in {f + 1, FailureLimit} /\ g <= f + 1 /\ g <= FailureLimit
    <3> HIDE DEF f, g
    <3> QED
      BY <2>1, <2>2, <2>3
  <2>5. RowInv(a)
    BY <1>6 DEF RowsInv
  <2>6. ~nodes'[a].reachable => g = FailureLimit
    <3>1. ~nodes[a].reachable => f = FailureLimit
      BY <2>5 DEF RowInv
    <3> HIDE DEF f, g
    <3> QED
      BY <2>1, <2>2, <2>4, <3>1
  <2>7. n = FailureLimit \/ g + p <= n
    <3>1. m = FailureLimit \/ f + o <= m
      BY <2>5 DEF RowInv
    <3>2. (n = Min({m + 1, FailureLimit}) /\ p = o) \/ (n = m /\ p = o - 1)
      OBVIOUS
    <3> HIDE DEF f, g, m, n, o, p
    <3>3. CASE n = Min({m + 1, FailureLimit}) /\ p = o
      <4>1. n \in {m + 1, FailureLimit} /\ n <= FailureLimit /\ n <= m + 1
        BY <2>1, <2>3, <3>3
      <4>2. m <= FailureLimit
        BY <1>6 DEF TypeOK, IsTable, m
      <4> QED
        BY <2>1, <2>4, <3>1, <3>3, <4>1, <4>2
    <3>4. CASE n = m /\ p = o - 1
      BY <2>1, <2>4, <3>1, <3>4
    <3> QED
      BY <3>2, <3>3, <3>4
  <2>8. Joining(a)' => a \in overtaken'
    BY <1>2, <1>3
  <2>9. a \in peers' \ overtaken' =>
          /\ nodes'[a].reachable
          /\ g + (IF a \in Dialling' THEN 1 ELSE 0) + (IF a \in closing' THEN 1 ELSE 0) <= 2
    <3> SUFFICES ASSUME a \in peers' \ overtaken'
                 PROVE  /\ nodes'[a].reachable
                        /\ g + (IF a \in Dialling' THEN 1 ELSE 0)
                             + (IF a \in closing' THEN 1 ELSE 0) <= 2
      OBVIOUS
    <3> DEFINE d == IF a \in Dialling THEN 1 ELSE 0    c == IF a \in closing THEN 1 ELSE 0
               e == IF a \in Dialling' THEN 1 ELSE 0   h == IF a \in closing' THEN 1 ELSE 0
    <3>1. nodes[a].reachable /\ f + d + c <= 2
      BY <1>3, <2>5 DEF RowInv
    <3>2. d \in 0..1 /\ c \in 0..1 /\ e \in 0..1 /\ h \in 0..1 /\ e + h + 1 <= d + c
      OBVIOUS
    <3> HIDE DEF d, c, e, h, f, g
    <3>3. g + e + h <= 2 /\ g <= 2
      BY <2>1, <2>4, <3>1, <3>2
    <3>4. g < FailureLimit
      BY <2>1, <2>4, <3>3, CrawlAssumption
    <3> QED
      BY <2>2, <3>1, <3>3, <3>4 DEF e, h
  <2> QED
    BY <2>6, <2>7, <2>8, <2>9 DEF RowInv
<1> QED
  BY <1>1, <1>4, <1>5, <1>6 DEF RowsInv

(* The rows are as RowsInv has them, always.                                *)
LEMMA RowsKept == DiscoverySpec => []RowsInv
<1>1. Init => RowsInv
  <2> SUFFICES ASSUME Init PROVE RowsInv
    OBVIOUS
  <2>1. peers = {} /\ joining = {} /\ nodes = KnownNodes
    BY DEF Init
  <2>2. HasRows
    BY <2>1 DEF HasRows, Joining
  <2>3. ASSUME NEW a \in DOMAIN nodes PROVE RowInv(a)
    <3>1. a \in Addr /\ nodes[a].failures \in Nat /\ causes[a] = nodes[a].failures
      BY <2>1, <2>3, CrawlAssumption, AddressDbAssumption DEF Init, IsTable, Row
    <3>2. Open(a) = 0
      BY <2>1, <3>1 DEF Init, Open
    <3>3. ~nodes[a].reachable => nodes[a].failures = FailureLimit
      BY <2>1, <2>3, CrawlAssumption
    <3> QED
      BY <2>1, <3>1, <3>2, <3>3 DEF RowInv, Joining
  <2> QED
    BY <2>2, <2>3 DEF RowsInv
<1>2. TypeOK /\ TypeOK' /\ RowsInv /\ [Next]_vars => RowsInv'
  <2> SUFFICES ASSUME TypeOK, TypeOK', RowsInv, [Next]_vars PROVE RowsInv'
    OBVIOUS
  <2>1. \A a \in DOMAIN nodes : a \in Addr
    BY DEF TypeOK, IsTable
  <2>2. ASSUME UNCHANGED <<sessions, joining>>
        PROVE  \A a \in Addr : Open(a)' <= Open(a) /\ Open(a)' = Open(a) /\ (Joining(a)' <=> Joining(a))
    <3>1. \A a \in Addr : Open(a)' = Open(a) /\ (Joining(a)' <=> Joining(a))
      BY <2>2 DEF Open, Joining
    <3>2. \A a \in Addr : Open(a) \in Nat
      BY OpenType
    <3> QED
      BY <3>1, <3>2
  <2>3. ASSUME Tick PROVE RowsInv'
    <3>1. PICK C \in SUBSET (Addr \ (peers \cup Dialling)) : DialAll(C)
      BY <2>3, TickDials
    <3>2. Dialling' = Dialling \cup C
      BY <3>1 DEF DialAll, Dialling
    <3>3. UNCHANGED <<nodes, peers, joining, sessions, closing, causes, overtaken>>
      BY <2>3 DEF Tick, history
    <3>4. HasRows'
      BY <3>3 DEF RowsInv, HasRows, Joining
    <3>5. \A a \in DOMAIN nodes : Untouched(a)
      BY <2>1, <2>2, <3>1, <3>2, <3>3 DEF Untouched
    <3> QED
      BY <3>3, <3>4, <3>5, RowsInvKept
  <2>4. ASSUME UNCHANGED <<links, causes, overtaken>>, DOMAIN nodes' \subseteq DOMAIN nodes,
               \A a \in DOMAIN nodes' : nodes'[a].failures = nodes[a].failures
                                        /\ nodes'[a].reachable = nodes[a].reachable,
               \A a \in DOMAIN nodes \ DOMAIN nodes' : ~nodes[a].reachable
        PROVE  RowsInv'
    <3>1. /\ UNCHANGED <<peers, joining, sessions, closing>>
          /\ Dialling' = Dialling
      BY <2>4 DEF links, Dialling
    <3>2. HasRows'
      BY <2>4, <3>1 DEF RowsInv, HasRows, RowInv, Joining
    <3>3. \A a \in DOMAIN nodes' : Untouched(a)
      BY <2>1, <2>2, <2>4, <3>1 DEF Untouched
    <3> QED
      BY <3>2, <3>3, RowsInvKept
  <2>5. ASSUME RunDiscoveryCycle PROVE RowsInv'
    <3>1. /\ DOMAIN nodes' = {a \in DOMAIN nodes : a \notin Old \/ nodes[a].reachable}
          /\ \A a \in DOMAIN nodes' : nodes'[a] = nodes[a]
      BY <2>5 DEF RunDiscoveryCycle, PruneOld, Restrict
    <3> QED
      BY <2>4, <2>5, <3>1 DEF RunDiscoveryCycle, history
  <2>6. ASSUME Day PROVE RowsInv'
    <3>1. DOMAIN nodes' = DOMAIN nodes
      BY <2>6 DEF Day
    <3>2. ASSUME NEW a \in DOMAIN nodes'
          PROVE  nodes'[a].failures = nodes[a].failures /\ nodes'[a].reachable = nodes[a].reachable
      <4>1. nodes[a] \in Row
        BY <3>1, <3>2 DEF TypeOK, IsTable
      <4> QED
        BY <2>6, <3>1, <3>2, <4>1 DEF Day, Row
    <3> QED
      BY <2>4, <2>6, <3>1, <3>2 DEF Day, history
  <2>7. ASSUME Restart PROVE RowsInv'
    <3>1. /\ peers' = {} /\ joining' = {} /\ UNCHANGED <<nodes, causes>>
          /\ \A a \in Addr : sessions'[a] = 0
      BY <2>7 DEF Restart
    <3>2. HasRows' /\ \A a \in Addr : ~Joining(a)'
      BY <3>1 DEF HasRows, Joining
    <3>3. \A a \in Addr : Open(a)' = 0 /\ Open(a)' <= Open(a)
      <4>1. \A a \in Addr : Open(a)' = 0
        BY <3>1 DEF Open
      <4>2. \A a \in Addr : Open(a) \in Nat
        BY OpenType
      <4> QED
        BY <4>1, <4>2
    <3>4. \A a \in DOMAIN nodes : Untouched(a)
      BY <2>1, <3>1, <3>2, <3>3 DEF Untouched
    <3> QED
      BY <3>1, <3>2, <3>4, RowsInvKept
  <2>8. ASSUME NEW a \in Addr, Establish(a) PROVE RowsInv'
    BY <2>8, GreetRows DEF Establish, Way
  <2>9. ASSUME NEW a \in Addr, AcceptFrom(a) PROVE RowsInv'
    BY <2>9, GreetRows DEF AcceptFrom, Way
  <2>10. ASSUME NEW a \in Addr, NEW how \in Way, Join(a, how) PROVE RowsInv'
    BY <2>10, JoinRows
  <2>11. ASSUME NEW a \in Addr, Fail(a) PROVE RowsInv'
    <3>1. /\ Failed(a) /\ UNCHANGED <<peers, joining, sessions, closing>> /\ a \in Dialling
          /\ causes' = [causes EXCEPT ![a] = Min({@ + 1, FailureLimit})]
          /\ Undial(a)
      BY <2>11 DEF Fail
    <3>2. Dialling' = Dialling \ {a}
      BY <3>1, UndialOK
    <3>3. causes'[a] = Min({causes[a] + 1, FailureLimit}) /\ \A b \in Addr \ {a} : causes'[b] = causes[b]
      BY <3>1 DEF TypeOK
    <3> QED
      BY <2>2, <3>1, <3>2, <3>3, FailedRows
  <2>12. ASSUME NEW a \in Addr, FinishDisconnected(a) PROVE RowsInv'
    <3>1. /\ a \in closing /\ closing' = {} /\ Failed(a)
          /\ sessions' = [sessions EXCEPT ![a] = @ - 1]
          /\ UNCHANGED <<peers, dials, joining, causes>>
      BY <2>12 DEF FinishDisconnected
    <3>2. Open(a)' = Open(a) - 1 /\ \A b \in Addr \ {a} : Open(b)' = Open(b)
      <4>1. sessions'[a] = sessions[a] - 1 /\ \A b \in Addr \ {a} : sessions'[b] = sessions[b]
        BY <3>1 DEF TypeOK
      <4>2. \A b \in Addr : sessions[b] \in Nat
        BY OpenType
      <4> QED
        BY <3>1, <4>1, <4>2 DEF Open
    <3> QED
      BY <3>1, <3>2, FailedRows DEF Dialling
  <2>13. ASSUME NEW a \in Addr, peers' = peers \ {a}, \A b \in closing' : b \in closing \/ b = a,
                UNCHANGED <<nodes, dials, joining, sessions, history>>
         PROVE  RowsInv'
    <3>1. UNCHANGED <<causes, overtaken>> /\ Dialling' = Dialling
      BY <2>13 DEF history, Dialling
    <3>2. HasRows'
      BY <2>13, <3>1 DEF RowsInv, HasRows, Joining
    <3>3. \A b \in DOMAIN nodes : Untouched(b)
      BY <2>1, <2>2, <2>13, <3>1 DEF Untouched
    <3> QED
      BY <2>13, <3>2, <3>3, RowsInvKept
  <2>14. ASSUME NEW a \in Addr, PruneStalePeer(a) PROVE RowsInv'
    BY <2>13, <2>14 DEF PruneStalePeer
  <2>15. ASSUME NEW a \in Addr, Disconnected(a) PROVE RowsInv'
    BY <2>13, <2>15 DEF Disconnected
  <2>16. ASSUME NEW addrs \in SUBSET Addr, Store(addrs, Unknown), UNCHANGED links PROVE RowsInv'
    <3>1. /\ UNCHANGED <<peers, joining, sessions, closing>>
          /\ Dialling' = Dialling
      BY <2>16 DEF links, Dialling
    <3>2. /\ DOMAIN nodes' = DOMAIN nodes \cup addrs /\ overtaken' = overtaken \ addrs
          /\ \A a \in addrs : Fresh(a)
          /\ \A a \in DOMAIN nodes \ addrs : nodes'[a] = nodes[a] /\ causes'[a] = causes[a]
      BY <2>16, StoreRows
    <3>3. HasRows'
      BY <3>1, <3>2 DEF RowsInv, HasRows, Joining
    <3>4. \A a \in DOMAIN nodes \ addrs : Untouched(a)
      BY <2>1, <2>2, <3>1, <3>2 DEF Untouched
    <3> QED
      BY <3>2, <3>3, <3>4, RowsInvKept
  <2>17. ASSUME UNCHANGED <<nodes, history>>, UNCHANGED links PROVE RowsInv'
    BY <2>4, <2>17 DEF history
  <2>18. ASSUME NEW addrs \in DnsSeeds, SeedFromDns(addrs) PROVE RowsInv'
    <3>1. addrs \cap Public \in SUBSET Addr
      BY CrawlAssumption
    <3>2. UNCHANGED links /\ (Store(addrs \cap Public, Unknown) \/ UNCHANGED <<nodes, history>>)
      BY <2>18 DEF SeedFromDns
    <3> QED
      BY <2>16, <2>17, <3>1, <3>2
  <2>19. ASSUME NEW addrs \in Gossip, HandleNewAddresses(addrs) PROVE RowsInv'
    <3>1. addrs \cap Public \in SUBSET Addr
      BY CrawlAssumption
    <3>2. UNCHANGED links /\ Store(addrs \cap Public, Unknown)
      BY <2>19 DEF HandleNewAddresses
    <3> QED
      BY <2>16, <3>1, <3>2
  <2>20. CASE UNCHANGED vars
    BY <2>17, <2>20 DEF vars
  <2> QED
    BY <2>3, <2>5, <2>6, <2>7, <2>8, <2>9, <2>10, <2>11, <2>12, <2>14, <2>15, <2>18, <2>19, <2>20
    DEF Next
<1> QED
  BY <1>1, <1>2, TypeCorrect, PTL DEF DiscoverySpec

(* The row of a connected node is there and reachable, whatever the other   *)
(* writers of the row do and however long the session lasts, unless a       *)
(* failure was marked after the row was written and before the handle was   *)
(* there.                                                                   *)
THEOREM KnowsConnected == DiscoverySpec => []ConnectedKnown
<1>1. TypeOK /\ RowsInv => ConnectedKnown
  BY DEF TypeOK, RowsInv, HasRows, RowInv, ConnectedKnown
<1> QED
  BY <1>1, RowsKept, TypeCorrect, PTL

(* An address is given up only for as many causes as the limit: failed      *)
(* dials since its row was last written anew and sessions open then.        *)
THEOREM GivesUpForAReason == DiscoverySpec => []GivenUpForAReason
<1>1. TypeOK /\ RowsInv => GivenUpForAReason
  <2> SUFFICES ASSUME TypeOK, RowsInv, NEW a \in DOMAIN nodes, ~nodes[a].reachable
               PROVE  causes[a] >= FailureLimit
    BY DEF GivenUpForAReason
  <2>1. a \in Addr /\ causes[a] \in Nat /\ FailureLimit \in Nat
    BY AddressDbAssumption DEF TypeOK, IsTable
  <2>2. Open(a) \in Nat
    BY <2>1, OpenType
  <2>3. /\ nodes[a].failures = FailureLimit
        /\ causes[a] = FailureLimit \/ nodes[a].failures + Open(a) <= causes[a]
    BY DEF RowsInv, RowInv
  <2> QED
    BY <2>1, <2>2, <2>3
<1> QED
  BY <1>1, RowsKept, TypeCorrect, PTL

-----------------------------------------------------------------------------
(* How far the dials overshoot.                                            *)

(* The dials of the same tick, and the invariant that a tick starts no more *)
(* than its budget.  (Of an overdue dial the age is not known.)             *)
Age(k) == {a \in Dialling : dials[a] = k}

AgesInv == ~overdue => \A k \in 1..DialTicks : Cardinality(Age(k)) <= Attempts(Target)

LEMMA TickBudget ==
  /\ Target \in Nat /\ Attempts(Target) \in Nat
  /\ DialTicks \in Nat \ {0} /\ (DialTicks - 1) * Attempts(Target) \in Nat
  /\ \A p \in 0..Target : /\ Attempts(Target - p) \in Nat
                          /\ Attempts(Target - p) <= Attempts(Target)
<1>1. Target \in Nat /\ DialTicks \in Nat \ {0}
  BY CrawlAssumption
<1>2. Attempts(Target) \in Nat
  BY <1>1, AttemptsType
<1>3. ASSUME NEW p \in 0..Target
      PROVE  Attempts(Target - p) \in Nat /\ Attempts(Target - p) <= Attempts(Target)
  <2>1. Target - p \in 0..Target /\ Target - p \in Nat
    BY <1>1
  <2> QED
    BY <1>1, <2>1, AttemptsType
<1>4. DialTicks - 1 \in Nat
  BY <1>1
<1>5. \A m, n \in Nat : m * n \in Nat
  OBVIOUS
<1> QED
  BY <1>1, <1>2, <1>3, <1>4, <1>5

(* The dials of one age fit into the budget, so those of all the ages below *)
(* the last fit into as many budgets: number the dials of each age.      *)
LEMMA DialsBelowLast ==
  ASSUME TypeOK, AgesInv, ~overdue, Age(DialTicks) = {}
  PROVE  /\ IsFiniteSet(Dialling)
         /\ Cardinality(Dialling) <= (DialTicks - 1) * Attempts(Target)
<1> DEFINE c == Attempts(Target)
           ages == 1..(DialTicks - 1)
<1>1. c \in Nat /\ DialTicks - 1 \in Nat /\ DialTicks \in Nat
  BY TickBudget
<1>2. \A a \in Dialling : dials[a] \in ages
  BY <1>1 DEF TypeOK, Age
<1>3. IsFiniteSet(Dialling) /\ \A k \in ages : IsFiniteSet(Age(k))
  BY AddressDbAssumption, FS_Subset DEF TypeOK, Age
<1>4. ASSUME NEW k \in ages
      PROVE  \E f \in [Age(k) -> 1..c] : IsInjective(f)
  <2> DEFINE n == Cardinality(Age(k))
  <2>1. n \in Nat /\ ExistsBijection(1..n, Age(k))
    BY <1>3, FS_CardinalityType
  <2>2. n <= c
    BY <1>1 DEF AgesInv
  <2>3. PICK b \in Bijection(1..n, Age(k)) : TRUE
    BY <2>1 DEF ExistsBijection
  <2> HIDE DEF n, c
  <2>4. /\ b \in [1..n -> Age(k)]
        /\ \A a \in Age(k) : \E i \in 1..n : b[i] = a
    BY <2>3 DEF Bijection, Surjection
  <2> DEFINE f == [a \in Age(k) |-> CHOOSE i \in 1..n : b[i] = a]
  <2>5. \A a \in Age(k) : f[a] \in 1..n /\ b[f[a]] = a
    BY <2>4
  <2>6. 1..n \subseteq 1..c
    BY <1>1, <2>1, <2>2
  <2>7. f \in [Age(k) -> 1..c]
    BY <2>5, <2>6
  <2>8. IsInjective(f)
    <3> HIDE DEF f
    <3> QED
      BY <2>5, <2>7 DEF IsInjective
  <2> QED
    BY <2>7, <2>8
<1> DEFINE number == [k \in ages |-> CHOOSE f \in [Age(k) -> 1..c] : IsInjective(f)]
<1>5. \A k \in ages : number[k] \in [Age(k) -> 1..c] /\ IsInjective(number[k])
  BY <1>4
<1> HIDE DEF number, c, ages
<1> DEFINE g == [a \in Dialling |-> <<dials[a], number[dials[a]][a]>>]
<1>6. \A a \in Dialling : dials[a] \in ages /\ a \in Age(dials[a])
  BY <1>2 DEF Age
<1>7. \A a \in Dialling : g[a] \in ages \X (1..c)
  <2> SUFFICES ASSUME NEW a \in Dialling PROVE g[a] \in ages \X (1..c)
    OBVIOUS
  <2>1. number[dials[a]][a] \in 1..c
    BY <1>5, <1>6
  <2> QED
    BY <1>6, <2>1
<1>8. \A a, b \in Dialling : g[a] = g[b] => a = b
  <2> SUFFICES ASSUME NEW a \in Dialling, NEW b \in Dialling, g[a] = g[b] PROVE a = b
    OBVIOUS
  <2>1. dials[a] = dials[b] /\ number[dials[a]][a] = number[dials[a]][b]
    OBVIOUS
  <2>2. a \in Age(dials[a]) /\ b \in Age(dials[a]) /\ dials[a] \in ages
    BY <1>6, <2>1
  <2>3. number[dials[a]] \in [Age(dials[a]) -> 1..c] /\ IsInjective(number[dials[a]])
    BY <1>5, <2>2
  <2> HIDE DEF g
  <2> QED
    BY <2>1, <2>2, <2>3 DEF IsInjective
<1>9. g \in Injection(Dialling, ages \X (1..c))
  <2>1. g \in [Dialling -> ages \X (1..c)]
    BY <1>7
  <2>2. IsInjective(g)
    BY <1>8 DEF IsInjective
  <2> QED
    BY <2>1, <2>2 DEF Injection
<1>10. /\ IsFiniteSet(ages) /\ Cardinality(ages) = DialTicks - 1
       /\ IsFiniteSet(1..c) /\ Cardinality(1..c) = c
  BY <1>1, FS_Interval DEF ages
<1>11. /\ IsFiniteSet(ages \X (1..c))
       /\ Cardinality(ages \X (1..c)) = (DialTicks - 1) * c
  <2>1. IsFiniteSet(ages) /\ IsFiniteSet(1..c)
    BY <1>10
  <2>2. /\ IsFiniteSet(ages \X (1..c))
        /\ Cardinality(ages \X (1..c)) = Cardinality(ages) * Cardinality(1..c)
    BY <2>1, FS_Product, ZenonT(30)
  <2> QED
    BY <1>10, <2>2
<1> HIDE DEF g
<1>12. Cardinality(Dialling) <= Cardinality(ages \X (1..c))
  BY <1>9, <1>11, FS_Injection
<1> QED
  BY <1>3, <1>11, <1>12 DEF c

(* What a tick on schedule does to the ages: one older each, and a new one. *)
LEMMA TickAges ==
  ASSUME TypeOK, Tick, ~overdue', NEW C \in SUBSET (Addr \ (peers \cup Dialling)), DialAll(C),
         NEW k \in 1..DialTicks
  PROVE  Age(k)' = IF k = 1 THEN C ELSE Age(k - 1)
<1>1. DialTicks \in Nat
  BY CrawlAssumption
<1>2. \A a \in Dialling : dials[a] \in 1..(DialTicks - 1)
  <2>1. \A a \in Dialling : dials[a] # DialTicks
    BY DEF DialAll
  <2>2. \A a \in Dialling : dials[a] \in 1..DialTicks
    BY DEF TypeOK
  <2> QED
    BY <1>1, <2>1, <2>2
<1>3. \A a \in Dialling : Min({dials[a] + 1, DialTicks}) = dials[a] + 1
  <2> SUFFICES ASSUME NEW a \in Dialling PROVE Min({dials[a] + 1, DialTicks}) = dials[a] + 1
    OBVIOUS
  <2> DEFINE n == dials[a] + 1
  <2>1. n \in Nat /\ n <= DialTicks
    BY <1>1, <1>2
  <2> HIDE DEF n
  <2>2. Min({n, DialTicks}) = n
    BY <1>1, <2>1, MinOfTwo
  <2> QED
    BY <2>2 DEF n
<1>4. /\ Dialling' = Dialling \cup C
      /\ \A a \in Dialling : dials'[a] = dials[a] + 1
      /\ \A a \in C : a \notin Dialling /\ dials'[a] = 1
  BY <1>3 DEF DialAll, Dialling
<1>5. \A a \in Dialling : dials'[a] # 1 /\ (dials'[a] = k <=> dials[a] = k - 1)
  BY <1>1, <1>2, <1>4
<1>6. CASE k = 1
  BY <1>4, <1>5, <1>6 DEF Age
<1>7. CASE k # 1
  BY <1>4, <1>5, <1>7 DEF Age
<1> QED
  BY <1>6, <1>7

(* The ages and the bound together are kept by every step.                  *)
LEMMA AgesKept == DiscoverySpec => [](AgesInv /\ OvershootBounded)
<1>1. called = {} /\ Dialling = {} => AgesInv /\ OvershootBounded
  <2> SUFFICES ASSUME called = {}, Dialling = {} PROVE AgesInv /\ OvershootBounded
    OBVIOUS
  <2>1. \A k \in 1..DialTicks : Age(k) = {}
    BY DEF Age
  <2>2. AgesInv
    BY <2>1, FS_EmptySet, TickBudget DEF AgesInv
  <2>3. Cardinality(called \cup Dialling) = 0
    BY FS_EmptySet
  <2>4. 0 \in 0..Target /\ 0 <= 0 + Attempts(Target - 0) + (DialTicks - 1) * Attempts(Target)
    <3>1. 0 \in 0..Target
      BY TickBudget
    <3> QED
      BY <3>1, TickBudget
  <2> QED
    BY <2>2, <2>3, <2>4 DEF OvershootBounded
<1>1a. (called = {} /\ Dialling = {})' => (AgesInv /\ OvershootBounded)'
  BY <1>1, PTL
<1>2. TypeOK /\ TypeOK' /\ AgesInv /\ OvershootBounded /\ [Next]_vars => (AgesInv /\ OvershootBounded)'
  <2> SUFFICES ASSUME TypeOK, TypeOK', AgesInv, OvershootBounded, [Next]_vars
               PROVE  AgesInv' /\ OvershootBounded'
    OBVIOUS
  <2>1. ASSUME NEW S \in SUBSET Addr PROVE IsFiniteSet(S) /\ Cardinality(S) \in Nat
    BY AddressDbAssumption, FS_Subset, FS_CardinalityType
  <2>2. /\ called \cup Dialling \in SUBSET Addr /\ called' \cup Dialling' \in SUBSET Addr
        /\ peers \in SUBSET Addr
        /\ \A k : Age(k) \in SUBSET Addr /\ Age(k)' \in SUBSET Addr
    BY DEF TypeOK, Age
  <2>3. ASSUME Dialling' \subseteq Dialling, \A a \in Dialling' : dials'[a] = dials[a],
               called' \subseteq called \cup Dialling, overdue' = overdue
        PROVE  AgesInv' /\ OvershootBounded'
    <3> SUFFICES ASSUME ~overdue
                 PROVE  /\ \A k \in 1..DialTicks : Cardinality(Age(k)') <= Attempts(Target)
                        /\ OvershootBounded'
      BY <2>3 DEF AgesInv, OvershootBounded
    <3>1. ASSUME NEW k \in 1..DialTicks PROVE Cardinality(Age(k)') <= Attempts(Target)
      <4>1. Age(k)' \in SUBSET Age(k)
        BY <2>3 DEF Age
      <4>2. Cardinality(Age(k)') <= Cardinality(Age(k))
        BY <2>1, <2>2, <4>1, FS_Subset
      <4>3. /\ Cardinality(Age(k)) \in Nat /\ Cardinality(Age(k)') \in Nat
            /\ Cardinality(Age(k)) <= Attempts(Target)
        BY <2>1, <2>2 DEF AgesInv
      <4> QED
        BY <4>2, <4>3, TickBudget
    <3>2. called' \cup Dialling' \in SUBSET (called \cup Dialling)
      BY <2>3
    <3>3. Cardinality(called' \cup Dialling') <= Cardinality(called \cup Dialling)
      BY <2>1, <2>2, <3>2, FS_Subset
    <3>4. Cardinality(called' \cup Dialling') \in Nat /\ Cardinality(called \cup Dialling) \in Nat
      BY <2>1, <2>2
    <3>5. PICK p \in 0..Target :
            Cardinality(called \cup Dialling) <=
              p + Attempts(Target - p) + (DialTicks - 1) * Attempts(Target)
      BY DEF OvershootBounded
    <3>6. Cardinality(called' \cup Dialling') <=
            p + Attempts(Target - p) + (DialTicks - 1) * Attempts(Target)
      BY <3>3, <3>4, <3>5, TickBudget
    <3> QED
      BY <3>1, <3>6 DEF OvershootBounded
  <2>4. ASSUME Tick PROVE AgesInv' /\ OvershootBounded'
    <3>1. PICK C \in SUBSET (Addr \ (peers \cup Dialling)), b \in Nat :
            /\ DialAll(C)
            /\ IsFiniteSet(C) /\ Cardinality(C) <= b
            /\ \/ b = 0
               \/ /\ Cardinality(peers) < Target
                  /\ b = Attempts(Target - Cardinality(peers))
      BY <2>4, TickDials
    <3> SUFFICES ASSUME ~overdue'
                 PROVE  AgesInv' /\ OvershootBounded'
      BY DEF AgesInv, OvershootBounded
    <3>0. ~overdue /\ Age(DialTicks) = {}
      BY <3>1 DEF DialAll, Age
    <3>2. Cardinality(peers) \in Nat /\ Cardinality(C) \in Nat
      BY <2>1, <2>2, <3>1, FS_CardinalityType
    <3>3. b <= Attempts(Target)
      BY <3>1, <3>2, TickBudget
    <3>4. AgesInv'
      <4> SUFFICES ASSUME NEW k \in 1..DialTicks PROVE Cardinality(Age(k)') <= Attempts(Target)
        BY DEF AgesInv
      <4>1. Age(k)' = IF k = 1 THEN C ELSE Age(k - 1)
        BY <2>4, <3>1, TickAges
      <4>2. CASE k = 1
        BY <3>1, <3>2, <3>3, <4>1, <4>2, TickBudget
      <4>3. CASE k # 1
        <5>1. k - 1 \in 1..DialTicks
          BY <4>3, TickBudget
        <5> QED
          BY <3>0, <4>1, <4>3, <5>1 DEF AgesInv
      <4> QED
        BY <4>2, <4>3
    <3>5. IsFiniteSet(Dialling) /\ Cardinality(Dialling) <= (DialTicks - 1) * Attempts(Target)
      BY <3>0, DialsBelowLast
    <3>6. Cardinality(Dialling) \in Nat
      BY <3>5, FS_CardinalityType
    <3>7. Dialling' = Dialling \cup C /\ called' = called /\ called \subseteq peers
      BY <2>4, <3>1 DEF DialAll, Dialling, Tick, TypeOK
    <3>8. CASE b = 0
      <4>1. C = {}
        BY <3>1, <3>2, <3>8, FS_EmptySet
      <4>2. called' \cup Dialling' = called \cup Dialling
        BY <3>7, <4>1
      <4> QED
        BY <3>0, <3>4, <4>2 DEF OvershootBounded
    <3>9. CASE /\ Cardinality(peers) < Target
               /\ b = Attempts(Target - Cardinality(peers))
      <4> DEFINE p == Cardinality(peers)
                 S == peers \cup C
      <4>1. p \in 0..Target
        BY <3>2, <3>9, TickBudget
      <4>2. IsFiniteSet(S) /\ Cardinality(S) = p + Cardinality(C) - Cardinality(peers \cap C)
        BY <2>1, <2>2, <3>1, FS_Union
      <4>3. peers \cap C = {}
        BY <3>1
      <4>4. Cardinality(S) \in Nat /\ Cardinality(S) <= p + b
        <5>1. Cardinality(peers \cap C) = 0
          BY <4>3, FS_EmptySet
        <5>2. Cardinality(S) = p + Cardinality(C)
          BY <3>2, <4>2, <5>1
        <5> QED
          BY <3>1, <3>2, <5>2
      <4> HIDE DEF S
      <4>5. /\ IsFiniteSet(S \cup Dialling)
            /\ Cardinality(S \cup Dialling) =
                 Cardinality(S) + Cardinality(Dialling) - Cardinality(S \cap Dialling)
        BY <3>5, <4>2, FS_Union
      <4>6. Cardinality(S \cap Dialling) \in Nat
        BY <4>2, FS_Intersection, FS_CardinalityType
      <4>7. called' \cup Dialling' \in SUBSET (S \cup Dialling)
        BY <3>7 DEF S
      <4>8. Cardinality(called' \cup Dialling') <= Cardinality(S \cup Dialling)
        BY <4>5, <4>7, FS_Subset
      <4>9. Cardinality(called' \cup Dialling') \in Nat
        BY <2>1, <2>2
      <4>10. b = Attempts(Target - p)
        BY <3>9
      <4> HIDE DEF p
      <4>11. Cardinality(called' \cup Dialling') <=
               p + Attempts(Target - p) + (DialTicks - 1) * Attempts(Target)
        <5> DEFINE older == (DialTicks - 1) * Attempts(Target)
        <5>1. older \in Nat /\ Cardinality(Dialling) <= older
          BY <3>5, TickBudget
        <5> HIDE DEF older
        <5>2. Cardinality(called' \cup Dialling') <= p + b + older
          BY <3>2, <3>6, <4>1, <4>4, <4>5, <4>6, <4>8, <4>9, <5>1
        <5> QED
          BY <4>10, <5>2 DEF older
      <4> QED
        BY <3>4, <4>1, <4>11 DEF OvershootBounded
    <3> QED
      BY <3>1, <3>8, <3>9
  <2>5. ASSUME UNCHANGED <<dials, overdue>>, called' \subseteq called
        PROVE  AgesInv' /\ OvershootBounded'
    BY <2>3, <2>5 DEF Dialling
  <2>6. ASSUME UNCHANGED links, UNCHANGED overdue PROVE AgesInv' /\ OvershootBounded'
    BY <2>5, <2>6 DEF links
  <2>7. ASSUME NEW a \in Addr, NEW how \in Way, Greet(a, how) PROVE AgesInv' /\ OvershootBounded'
    BY <2>5, <2>7 DEF Greet
  <2>8. ASSUME NEW a \in Addr, NEW how \in Way, Join(a, how) PROVE AgesInv' /\ OvershootBounded'
    <3>1. /\ called' \subseteq called \cup (IF how = "dialled" THEN {a} ELSE {})
          /\ overdue' = overdue /\ <<a, how>> \in joining
          /\ IF how = "dialled" THEN Undial(a) ELSE UNCHANGED dials
      BY <2>8 DEF Join
    <3>2. CASE how = "dialled"
      <4>1. a \in Dialling
        BY <3>1, <3>2 DEF TypeOK
      <4> QED
        BY <2>3, <3>1, <3>2, <4>1, UndialOK
    <3>3. CASE how # "dialled"
      BY <2>5, <3>1, <3>3
    <3> QED
      BY <3>2, <3>3
  <2>9. ASSUME NEW a \in Addr, Fail(a) PROVE AgesInv' /\ OvershootBounded'
    <3>1. Undial(a) /\ UNCHANGED <<called, overdue>>
      BY <2>9 DEF Fail
    <3> QED
      BY <2>3, <3>1, UndialOK
  <2>10. ASSUME NEW a \in Addr, PruneStalePeer(a) \/ Disconnected(a) \/ FinishDisconnected(a)
         PROVE  AgesInv' /\ OvershootBounded'
    BY <2>5, <2>10 DEF PruneStalePeer, Disconnected, FinishDisconnected
  <2>11. ASSUME Restart PROVE AgesInv' /\ OvershootBounded'
    <3>1. (called = {} /\ Dialling = {})'
      BY <2>11 DEF Restart, Dialling
    <3> QED
      BY <1>1a, <3>1
  <2> QED
    BY <2>4, <2>6, <2>7, <2>8, <2>9, <2>10, <2>11
    DEF Next, RunDiscoveryCycle, Day, Establish, AcceptFrom, SeedFromDns, HandleNewAddresses,
        Way, vars
<1>3. Init => AgesInv /\ OvershootBounded
  BY <1>1 DEF Init, Dialling
<1> QED
  BY <1>2, <1>3, TypeCorrect, PTL DEF DiscoverySpec

(* As long as no dial has seen more than DialTicks ticks, those that ended  *)
(* in a session that has its handle and those under way stay within what    *)
(* the last DialTicks ticks may start.                                      *)
THEOREM BoundsOvershoot == DiscoverySpec => []OvershootBounded
<1>1. AgesInv /\ OvershootBounded => OvershootBounded
  OBVIOUS
<1> QED
  BY <1>1, AgesKept, PTL
=============================================================================
