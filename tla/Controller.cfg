SPECIFICATION ControllerSpec
CONSTANTS
  ChunkSize = 2
  Sizes = {0, 2, 3}
  Timeout = 2
  RecvWait = 2
  MaxUploads = 2
  MaxLosses = 1
  RetryMax = 2
  MaxEvents = 3
  Fds = {f1, f2}
  Nodes = {n1, n2, n3}
  Nil = Nil
  BufferLines = 1
  MaxLines = 2
  MaxChain = 2
  PropCnt = 2
  ReadProps = {0}
  PostProps = {0}
  PutProps = {1}
  Null = Null
  Freed = Freed
INVARIANTS ControllerTypeOK ChunkIsBody ProvenImageKept NetworkIsKnown ListLive MemoryIsSafe
PROPERTIES ComesUp AcceptedStarts LineReachesAll
CHECK_DEADLOCK FALSE
