SPECIFICATION Spec
CONSTANTS
  Environment = {"kill", "load_error", "locked"}
  MaxPosted = 2
  Books = 3
INVARIANTS TurnTaking RepliesMatch NothingUnexpected NoMutualWait
PROPERTIES ReadMessageReturns ImplementsDebuggee LostDaemonNoticed
