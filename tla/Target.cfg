SPECIFICATION Spec
CONSTANTS
  stable = stable
  steady = steady
  flaky = flaky
  s1 = s1
  s2 = s2
  late = late
  v6 = v6
  Addr = {s1, s2, late, v6}
  Ipv6 = {v6}
  ClassOf <- MCLibre
  Stable = {s1, s2, late}
  Callers = {}
  Public = {late, v6}
  Gossip = {{late, v6}}
  DnsSeeds = {}
  KnownNodes <- MCLibreKnown
  FailureLimit = 5
  Today = 1
  Target = 3
  MaxAttempts = 192
  Oversample = 2
  DialTicks = 1
  MaxSessions = 1
  MaxRestarts = 0
PROPERTIES
  TargetMaintained
