\* Connections: two in turn on one descriptor number, one request of two parts.
\* Commands: two clients, two commands, one expiring or lasting item.
CONSTANTS
  Ops = {1, 2}
  Threads <- MCThreads
  Depth = 2
  NoOp = 0
  NoThread = NoThread
  Fds = {f1}
  NoFd = NoFd
  Parts = 2
  MaxSent = 2
  Plans <- MCPlans
  Clients = {c1, c2}
  Kinds = {"set", "add", "replace", "append", "prepend", "get", "incr", "decr", "delete"}
  Exptimes = {1}
  RealtimeMaxdelta = 2
  MaxLen = 2
  Numbers = 2
  AnyVersion = AnyVersion
  MaxVer = 2
  MaxReqs = 2
  MaxErrs = 1
  FirstTime = 3
  LastTime = 4
SPECIFICATION MCSpec
INVARIANTS FrameSafety OneWaker OpenIsTracked
PROPERTIES ImplementsCache StopReturns
CHECK_DEADLOCK FALSE
