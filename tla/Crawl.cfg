SPECIFICATION DiscoverySpec
CONSTANTS
  stable = stable
  steady = steady
  flaky = flaky
  s1 = s1
  s2 = s2
  late = late
  v6 = v6
  Addr = {stable, steady, flaky}
  Ipv6 = {}
  ClassOf <- MCClassOf
  Stable = {stable, steady}
  Callers = {flaky}
  Public = {stable, steady, flaky}
  Gossip = {{flaky}}
  DnsSeeds = {{stable, steady, flaky}}
  KnownNodes <- MCKnownNodes
  FailureLimit = 3
  Today = 1
  Target = 1
  MaxAttempts = 1
  Oversample = 4
  DialTicks = 2
  MaxSessions = 2
  MaxRestarts = 1
INVARIANTS
  TypeOK
  OvershootBounded
  GivenUpForAReason
  ConnectedKnown
PROPERTIES
  GivenUpGoes
