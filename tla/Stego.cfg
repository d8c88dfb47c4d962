SPECIFICATION Spec
CONSTANTS
  p = p
  q = q
  Path = {p, q}
  CarrierPath = p
  StegoPath = q
  Message <- MCMessage
  DemoMessage <- MCDemoMessage
  Size <- MCSize
  DemoSize <- MCDemoSize
  Foreign <- MCForeign
  Wrap = 2048
  BitXor <- MCBitXor
INVARIANTS
  TypeOK
  RoundTrip
  CarrierKept
  CapacityExact
