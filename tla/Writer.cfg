SPECIFICATION FairSpec
CONSTANTS
  LineSize <- MCLineSize
  MaxBufferSize = 4
  BatchSize = 2
  MaxAttempts = 3
  Retention = TRUE
  Databases <- MCDatabases
  MaxPoints = 5
  MaxFaults = 5
CHECK_DEADLOCK FALSE
INVARIANT BufferBounded
INVARIANT RetentionFirst
PROPERTY ImplementsQueue
PROPERTY Drains
