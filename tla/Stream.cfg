SPECIFICATION Spec
CONSTANTS
  Readers = {"daemon", "client", "receiver"}
  MaxBody = 3
  MaxMessages = 3
CHECK_DEADLOCK FALSE
INVARIANTS StopsOnlyIfClosed
PROPERTIES ImplementsChannel Delivered
