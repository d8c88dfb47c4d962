------------------------------- MODULE Crawl -------------------------------
(***************************************************************************)
(* The table of nodes over time: DiscoveryService (src/src/discovery.rs)   *)
(* fills it and prunes it, the outbound ticker (src/src/manager.rs) dials  *)
(* from it, and every dial and every session writes its outcome back.      *)
(*                                                                         *)
(* A connection task writes the row and adds the handle in two steps, and  *)
(* the event loop takes two for the end of a session.  A tick is one step  *)
(* (PeerManager has it in pieces).  An address may have several sessions:  *)
(* one with the handle and those that have lost theirs and run on.         *)
(*                                                                         *)
(* Dates slide: what is written now is dated Today, a Day takes one from   *)
(* every date, and 0 is older than the age at which rows are pruned.  The  *)
(* ticks of 3 s within a day have the same date.                           *)
(***************************************************************************)
EXTENDS AddressDb

CONSTANTS
  Ipv6,         \* the IPv6 addresses
  ClassOf,      \* [Addr -> NodeType], the class a handshake gives
  Stable,       \* addresses at which a node listens that answers and stays
  Callers,      \* addresses from which remotes connect to this router
  Public,       \* is_public_addr
  Gossip,       \* the sets of addresses an addr message may carry
  DnsSeeds,     \* what the names of DNS_SEEDS resolve to: a set of sets
  KnownNodes,   \* the table a previous run left behind
  Today,        \* age in days at which a row is old (7), plus one
  Target,       \* target_peers
  MaxAttempts,  \* MAX_CONNECT_ATTEMPTS_PER_TICK (192)
  Oversample,   \* rows asked for per attempt (4)
  DialTicks,    \* ticks on schedule within a dial, its own and the one its timeout
                \* is about to end it at: peer_timeout / OUTBOUND_REFILL_INTERVAL + 1
  MaxSessions,  \* bound: sessions of one address whose end is not marked
  MaxRestarts   \* bound: how often the router is killed and started again

ASSUME CrawlAssumption ==
  /\ Ipv6 \cup Stable \cup Callers \cup Public \subseteq Addr
  /\ ClassOf \in [Addr -> NodeType]
  /\ Gossip \subseteq SUBSET Addr /\ DnsSeeds \subseteq SUBSET Addr
  /\ IsTable(KnownNodes)
  /\ \A a \in DOMAIN KnownNodes :
       KnownNodes[a].reachable \/ KnownNodes[a].failures = FailureLimit
  /\ {Today, MaxAttempts, Oversample, DialTicks, MaxSessions} \subseteq Nat \ {0}
  /\ Target \in Nat /\ MaxRestarts \in Nat
  /\ FailureLimit > 2

VARIABLES
  nodes,     \* the table
  peers,     \* addresses with a handle
  called,    \* the ones among them that were dialled
  dials,     \* pending_outbound: for each address the ticks it has seen
  joining,   \* connection tasks that wrote the row and wait for the list of peers
  sessions,  \* for each address the sessions handed over, their end not marked yet
  closing,   \* the address whose Disconnected event is half handled
  unseeded,  \* DNS seeds not looked up yet
  restarts,  \* restarts so far
  causes,    \* history: what may count against an address: its sessions open when
             \* the row was last written anew, and failed dials since; of a
             \* previous run, the failures on record
  overtaken, \* history: addresses that got a failure between row and handle
  overdue    \* history: some dial has seen more than DialTicks ticks

links   == <<peers, called, dials, joining, sessions, closing>>
history == <<causes, overtaken>>
vars    == <<nodes, links, unseeded, restarts, history, overdue>>

Dialling == DOMAIN dials

Way == {"dialled", "accepted"}

Joining(a) == \E how \in Way : <<a, how>> \in joining

\* The sessions of an address, those about to be handed over included.
Open(a) ==
  sessions[a] + (IF <<a, "dialled">>  \in joining THEN 1 ELSE 0)
              + (IF <<a, "accepted">> \in joining THEN 1 ELSE 0)

Init ==
  /\ nodes = KnownNodes
  /\ peers = {} /\ called = {}
  /\ dials = [a \in {} |-> 0]
  /\ joining = {} /\ closing = {}
  /\ sessions = [a \in Addr |-> 0]
  /\ unseeded = DnsSeeds
  /\ restarts = 0
  /\ causes = [a \in Addr |-> IF a \in DOMAIN KnownNodes THEN KnownNodes[a].failures ELSE 0]
  /\ overtaken = {} /\ overdue = FALSE

\* The row is written anew, and with it its date and its failures.
Store(addrs, class) ==
  /\ nodes' = [a \in DOMAIN nodes \cup addrs |->
                 IF a \in addrs THEN NodeInfo(class[a], Today) ELSE nodes[a]]
  /\ causes' = [a \in Addr |-> IF a \in addrs THEN Min({Open(a)', FailureLimit}) ELSE causes[a]]
  /\ overtaken' = overtaken \ addrs

\* A failure is marked.
Failed(a) ==
  /\ nodes' = MarkFailed(nodes, a)
  /\ overtaken' = IF Joining(a) THEN overtaken \cup {a} ELSE overtaken

-----------------------------------------------------------------------------
(* The outbound ticker.                                                    *)

Attempts(missing) == Min({missing + missing \div 2, MaxAttempts})

\* The first of the listed addresses that are not passed over.
Chosen(listed, budget) ==
  LET free == {i \in DOMAIN listed : listed[i] \notin Ipv6 \cup peers \cup Dialling}
  IN  {listed[i] : i \in {j \in free : Cardinality({k \in free : k <= j}) <= budget}}

\* No tick waits for a dial: after a stall the ticks missed come at once.
DialAll(addrs) ==
  /\ dials' = [a \in Dialling \cup addrs |->
                 IF a \in Dialling THEN Min({dials[a] + 1, DialTicks}) ELSE 1]
  /\ overdue' = (overdue \/ \E a \in Dialling : dials[a] = DialTicks)

\* Mutant: the handles are not counted.
TickUncounted ==
  /\ \E listed \in GetKnotsExcluding(nodes, Attempts(Target) * Oversample) :
       DialAll(Chosen(listed, Attempts(Target)))
  /\ UNCHANGED <<nodes, peers, called, joining, sessions, closing, unseeded, restarts, history>>

Tick ==
  /\ IF Cardinality(peers) < Target
     THEN LET budget == Attempts(Target - Cardinality(peers))
          IN  \E listed \in GetKnotsExcluding(nodes, budget * Oversample) :
                DialAll(Chosen(listed, budget))
     ELSE DialAll({})
  /\ UNCHANGED <<nodes, peers, called, joining, sessions, closing, unseeded, restarts, history>>

-----------------------------------------------------------------------------
(* Dials and sessions.                                                     *)

Undial(a) == dials' = Restrict(dials, Dialling \ {a})

\* Mutant: a row that is there is left as it is.
GreetKept(a, how) ==
  /\ <<a, how>> \notin joining /\ Open(a) < MaxSessions
  /\ joining' = joining \cup {<<a, how>>}
  /\ UNCHANGED <<peers, called, dials, sessions, closing, unseeded, restarts, overdue>>
  /\ Store({a} \ DOMAIN nodes, ClassOf)

\* Mutant: the dial is over before the handle is there.
GreetUndialled(a, how) ==
  /\ <<a, how>> \notin joining /\ Open(a) < MaxSessions
  /\ joining' = joining \cup {<<a, how>>}
  /\ IF how = "dialled" THEN Undial(a) ELSE UNCHANGED dials
  /\ UNCHANGED <<peers, called, sessions, closing, unseeded, restarts, overdue>>
  /\ Store({a}, ClassOf)

\* The handshake is done and the row is written.
Greet(a, how) ==
  /\ <<a, how>> \notin joining /\ Open(a) < MaxSessions
  /\ joining' = joining \cup {<<a, how>>}
  /\ UNCHANGED <<peers, called, dials, sessions, closing, unseeded, restarts, overdue>>
  /\ Store({a}, ClassOf)

Establish(a) == a \in Dialling /\ Greet(a, "dialled")

\* The row of a remote that connects is written under the address it called
\* from, whether or not a node listens there.
AcceptFrom(a) == a \in Callers /\ Greet(a, "accepted")

\* The handle is added and the session runs.  When there is a handle the session
\* is dropped, and no event tells of its end.
Join(a, how) ==
  /\ <<a, how>> \in joining
  /\ joining' = joining \ {<<a, how>>}
  /\ IF a \in peers
     THEN UNCHANGED <<peers, called, sessions>>
     ELSE /\ peers' = peers \cup {a}
          /\ called' = IF how = "dialled" THEN called \cup {a} ELSE called
          /\ sessions' = [sessions EXCEPT ![a] = @ + 1]
  /\ IF how = "dialled" THEN Undial(a) ELSE UNCHANGED dials
  /\ UNCHANGED <<nodes, closing, unseeded, restarts, history, overdue>>

\* Connection refused, an error of the handshake, or the timeout.
Fail(a) ==
  /\ a \in Dialling \ Stable /\ <<a, "dialled">> \notin joining
  /\ Failed(a)
  /\ causes' = [causes EXCEPT ![a] = Min({@ + 1, FailureLimit})]
  /\ Undial(a)
  /\ UNCHANGED <<peers, called, joining, sessions, closing, unseeded, restarts, overdue>>

\* A full channel costs the handle.  The session runs on.
PruneStalePeer(a) ==
  /\ closing = {}
  /\ a \in peers \ Stable
  /\ peers' = peers \ {a} /\ called' = called \ {a}
  /\ UNCHANGED <<nodes, dials, joining, sessions, closing, unseeded, restarts, history, overdue>>

\* A session has ended.  Its event names the address: whichever session has the
\* handle loses it, and the address gets a failure.
Disconnected(a) ==
  /\ closing = {}
  /\ a \notin Stable /\ sessions[a] > 0
  /\ closing' = {a}
  /\ peers' = peers \ {a} /\ called' = called \ {a}
  /\ UNCHANGED <<nodes, dials, joining, sessions, unseeded, restarts, history, overdue>>

FinishDisconnected(a) ==
  /\ a \in closing
  /\ closing' = {}
  /\ sessions' = [sessions EXCEPT ![a] = @ - 1]
  /\ Failed(a)
  /\ UNCHANGED <<peers, called, dials, joining, unseeded, restarts, causes, overdue>>

-----------------------------------------------------------------------------
(* DiscoveryService.                                                       *)

Unknown == [a \in Addr |-> "unknown"]

\* One name is resolved, or fails to.
SeedFromDns(addrs) ==
  /\ addrs \in unseeded
  /\ unseeded' = unseeded \ {addrs}
  /\ UNCHANGED <<links, restarts, overdue>>
  /\ \/ Store(addrs \cap Public, Unknown)
     \/ UNCHANGED <<nodes, history>>

\* An addr or addrv2 message of a session, its Disconnected event behind it.
HandleNewAddresses(addrs) ==
  /\ closing = {}
  /\ \E a \in Addr : sessions[a] > 0
  /\ UNCHANGED <<links, unseeded, restarts, overdue>>
  /\ Store(addrs \cap Public, Unknown)

Old == {a \in DOMAIN nodes : nodes[a].last_seen = 0}

\* Mutant: what is old goes, reachable or not.
PruneAllOld ==
  /\ unseeded = {}
  /\ nodes' = Restrict(nodes, DOMAIN nodes \ Old)
  /\ UNCHANGED <<links, unseeded, restarts, history, overdue>>

\* Mutant: the cycle ends early when there is no peer to ask.
PruneAmongPeers ==
  /\ unseeded = {}
  /\ peers # {}
  /\ nodes' = PruneOld(nodes, Old)
  /\ UNCHANGED <<links, unseeded, restarts, history, overdue>>

\* The names are resolved before the first cycle.  What a cycle asks of some
\* peers comes back as addr messages.
RunDiscoveryCycle ==
  /\ unseeded = {}
  /\ nodes' = PruneOld(nodes, Old)
  /\ UNCHANGED <<links, unseeded, restarts, history, overdue>>

Day ==
  /\ nodes' = [a \in DOMAIN nodes |->
                 [nodes[a] EXCEPT !.last_seen = IF @ = 0 THEN 0 ELSE @ - 1]]
  /\ UNCHANGED <<links, unseeded, restarts, history, overdue>>

\* The process dies, with its sessions and dials, and starts again: the table is
\* a file, the rest is built anew, and the names are looked up again.
Restart ==
  /\ restarts < MaxRestarts
  /\ restarts' = restarts + 1
  /\ peers' = {} /\ called' = {} /\ joining' = {} /\ closing' = {}
  /\ dials' = [a \in {} |-> 0]
  /\ sessions' = [a \in Addr |-> 0]
  /\ unseeded' = DnsSeeds
  /\ overtaken' = {} /\ overdue' = FALSE
  /\ UNCHANGED <<nodes, causes>>

-----------------------------------------------------------------------------
Next ==
  \/ Tick \/ RunDiscoveryCycle \/ Day \/ Restart
  \/ \E a \in Addr :
       \/ Establish(a) \/ Fail(a) \/ AcceptFrom(a) \/ \E how \in Way : Join(a, how)
       \/ PruneStalePeer(a) \/ Disconnected(a) \/ FinishDisconnected(a)
  \/ \E addrs \in DnsSeeds : SeedFromDns(addrs)
  \/ \E addrs \in Gossip : HandleNewAddresses(addrs)

(* The discovery ticker ticks, days pass and the look-up of a name ends.    *)
(* Nobody has to call, to leave or to send addresses, and the router need   *)
(* not die.                                                                 *)
DiscoveryFairness ==
  /\ WF_vars(RunDiscoveryCycle) /\ WF_vars(Day)
  /\ \A addrs \in DnsSeeds : WF_vars(SeedFromDns(addrs))

DiscoverySpec == Init /\ [][Next]_vars /\ DiscoveryFairness

(* The outbound ticker ticks, and a dial ends: with a session where a       *)
(* stable node listens, otherwise in one way or the other.  What has got    *)
(* its lock goes on.                                                        *)
DialFairness ==
  /\ WF_vars(Tick)
  /\ \A a \in Addr : /\ WF_vars(Establish(a) \/ Fail(a))
                     /\ WF_vars(FinishDisconnected(a))
                     /\ \A how \in Way : WF_vars(Join(a, how))

Spec == DiscoverySpec /\ DialFairness

-----------------------------------------------------------------------------
(* Type invariant.                                                         *)
TypeOK ==
  /\ IsTable(nodes)
  /\ called \subseteq peers /\ peers \subseteq Addr
  /\ Dialling \subseteq Addr /\ dials \in [Dialling -> 1..DialTicks]
  /\ joining \subseteq Addr \X Way
  /\ \A a \in Addr : <<a, "dialled">> \in joining => a \in Dialling
  /\ sessions \in [Addr -> 0..MaxSessions]
  /\ \A a \in Addr : Open(a) <= MaxSessions
  /\ closing \subseteq {a \in Addr : sessions[a] > 0}
  /\ unseeded \subseteq DnsSeeds
  /\ restarts \in 0..MaxRestarts
  /\ causes \in [Addr -> 0..FailureLimit]
  /\ overtaken \subseteq Addr /\ overdue \in BOOLEAN

(* How far the router dials past its target, manager.rs:256, as long as no  *)
(* dial has seen more ticks than fit into its timeout: the budget of a tick *)
(* leaves out the dials under way, so what DialTicks ticks start may all    *)
(* succeed, but no more: the last of them with p peers, the others with     *)
(* none.  A ticker that makes up for missed ticks starts more.              *)
OvershootBounded ==
  ~overdue =>
    \E p \in 0..Target :
      Cardinality(called \cup Dialling) <=
        p + Attempts(Target - p) + (DialTicks - 1) * Attempts(Target)

(* An address is given up only for as many causes as the limit: each        *)
(* failure on record is a failed dial since the row was last written anew   *)
(* (manager.rs:332-339), or the end (manager.rs:369) of a session that was  *)
(* open then.  No session counts that began or ended before, however many   *)
(* came and went, and none counts twice.                                    *)
GivenUpForAReason ==
  \A a \in DOMAIN nodes : ~nodes[a].reachable => causes[a] >= FailureLimit

(* The row of a connected node is there and reachable, however old its date *)
(* is and whatever the other writers of the row do: pruning goes by a date  *)
(* that a long session does not renew.  Failures marked after the row was   *)
(* written and before the handle was there are not looked at.               *)
ConnectedKnown ==
  \A a \in peers \ overtaken : a \in DOMAIN nodes /\ nodes[a].reachable

(* README.org:41, "prunes dead ones": an address that was given up leaves   *)
(* the table, unless gossip or a call renews its row.  (A stable one is     *)
(* never given up, its dials and sessions having no end.)                   *)
GivenUp(a) == a \in DOMAIN nodes /\ ~nodes[a].reachable

GivenUpGoes ==
  \A a \in Addr \ Stable : GivenUp(a) ~> ~GivenUp(a)

-----------------------------------------------------------------------------
(* Promises of the documentation.                                          *)

(* README.org:40, "Maintains target connection count": a node that answers  *)
(* and stays is connected to once its address is in the table, or the       *)
(* target is met without it.                                                *)
TargetMaintained ==
  \A a \in Stable \ Ipv6 :
    a \in DOMAIN nodes ~> a \in peers \/ Cardinality(peers) >= Target
=============================================================================
