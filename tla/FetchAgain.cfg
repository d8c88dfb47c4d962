SPECIFICATION Spec
CONSTANTS
  a = a
  b = b
  k = k
  tP = tP
  tV = tV
  wV1 = wV1
  wV2 = wV2
  plain = plain
  variant1 = variant1
  variant2 = variant2
  Tx <- MCTx
  Id <- MCId
  TxidOf <- MCTxidOf
  WtxidOf <- MCWtxidOf
  Held <- MCSharedHeld
  Peer = {a, b}
  Knots = {}
  Pushers = {}
  Askers = {}
  Leavers = {b}
  SeenLimit = 4
  TxLimit = 2
  RequestTtl = 1
  Capacity = 2
  MaxEvents = 2
PROPERTIES
  AnnouncedIsFetched
