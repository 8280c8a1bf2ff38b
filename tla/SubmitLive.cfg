\* Two commands that compete for two outputs until both settle; debug build.
SPECIFICATION LiveSpec
CONSTANTS
  a = a
  b = b
  U64Max = 1000000000
  OverflowChecks = TRUE
  Posts <- TwoPosts
  Requests <- WithOverflow
  Genesis <- Tied
  Deposits <- None
  MaxDisconnects = 1
  MaxReorgs = 1
  MaxEvictions = 0
PROPERTIES
  EveryPostSettles
\* Every command may be done.
CHECK_DEADLOCK FALSE
