SPECIFICATION AssaySpec
CONSTANTS
  v1 = v1
  e1 = e1
  bad = bad
  Value <- MCValue
  Error <- MCError
  Unparsable = bad
  Fns <- MCFns
  Noise <- Loud
  KeepHarness = FALSE
  Line <- MCLine
  Limit = 0
  DefaultLimit = 2
  PipeSize = 2
  MayDaemonize = FALSE
  MaxWritten = 3
INVARIANT VerdictUninfluenced
