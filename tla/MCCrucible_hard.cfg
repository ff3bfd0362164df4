SPECIFICATION FairSpec
CONSTANTS
  lineA = lineA
  lineB = lineB
  Line <- MCLine
  Limit = 2
  DefaultLimit = 3
  PipeSize = 2
  MayDaemonize = TRUE
  MaxWritten = 1
PROPERTY HardDeadline
