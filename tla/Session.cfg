SPECIFICATION Spec
CONSTANTS
  Message <- MCMessage
  Misread <- MCMisread
  HeaderSize = 2
  MaxSize = 1
  SocketBuffer = 1
  Capacity = 1
  MaxSent = 4
INVARIANTS
  TypeOK
  HandledExactly
  BufferBounded
  ClassifiedOnce
\* A session that is over stays over.
PROPERTIES
  LifecycleKept
  SentIsHandled
CHECK_DEADLOCK FALSE
