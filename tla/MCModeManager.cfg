SPECIFICATION FairSpec
CONSTANTS
  RequestedModes <- MCRequestedModes
  RecvQueueSize = 2
  SendQueueSize = 2
INVARIANTS
  TypeOK
  ScienceFollowsMode
  AsmTasksCarryMode
  NoEventToSuspendedTask
  SnapshotsNotRestarted
PROPERTIES
  RestartSequenceEnds
  ImplementsContract
