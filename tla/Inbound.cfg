SPECIFICATION Spec
CONSTANTS
  libre = libre
  libre2 = libre2
  core = core
  knots = knots
  v6 = v6
  l1 = l1
  l2 = l2
  m1 = m1
  c1 = c1
  c2 = c2
  k1 = k1
  AddrOf <- MCAddrOf
  TypeOf <- MCTypeOf
  KnownNodes <- MCKnownNodes
  Gossip <- MCGossip
  Addr = {libre, knots}
  Ipv6 = {}
  Session = {l1, l2, k1}
  Outbound = {}
  Reports = {"Tx", "Addresses"}
  EnableDiscovery = TRUE
  FailureLimit = 1
  Target = 0
  MaxAttempts = 2
  Oversample = 4
  Capacity = 1
  MaxEvents = 2
INVARIANTS
  TypeOK
  GaugeNeverOverstates
