SPECIFICATION Spec
CONSTANTS
  Sizes = {1, 4}
  MaxQueuedSize = 3
  MaxQueuedCount = 1
  MaxDatagram = 4
  MaxLogs = 3
  MaxBeside = 1
  MaxTaken = 4
  MaxRestarts = 1
  Threads = {"wx", "udp", "reader"}
  Loggers = {"udp", "reader"}
  MaxOwn = 1
CHECK_DEADLOCK FALSE
INVARIANTS ShownInOrder
PROPERTIES EventuallySent EventuallyShown
