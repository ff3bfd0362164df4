SPECIFICATION DoreSpec
CONSTANTS
  Sources <- MCSources
  MaxPaths = 3
INVARIANTS CheckExitTells ToldInOrder AssayExitTells
