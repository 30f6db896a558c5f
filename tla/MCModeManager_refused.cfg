SPECIFICATION Spec
CONSTANTS
  RequestedModes <- MCRequestedModes
  RecvQueueSize = 1
  SendQueueSize = 3
INVARIANTS
  RefusedTcNotExecuted
