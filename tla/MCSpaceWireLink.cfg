SPECIFICATION MCSpec
CONSTANTS
  ConnectAttempts = 3
  PostedStopped <- Either
  KeptByRestart <- Either
INVARIANTS
  TypeOK
  RecoveryNeverLost
  OneDriverOwner
PROPERTIES
  CommunicationRestored
  DriverRestored
