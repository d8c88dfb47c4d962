SPECIFICATION Spec
CONSTANTS
  tP = tP
  tS = tS
  tV = tV
  wS = wS
  tR = tR
  wR = wR
  wV1 = wV1
  wV2 = wV2
  plain = plain
  segwit = segwit
  segwit2 = segwit2
  variant1 = variant1
  variant2 = variant2
  Tx <- MCTx
  Id <- MCId
  TxidOf <- MCTxidOf
  WtxidOf <- MCWtxidOf
  Announcements <- MCAnnouncements
  SeenLimit = 6
  TxLimit = 2
  RequestTtl = 2
INVARIANTS
  TypeOK
  SeenIndexed
  CacheIndexed
  RequestsUnseen
  CachedRemembered
  ServedAsAsked
PROPERTIES
  RequestsHeld
  MemoryKept
