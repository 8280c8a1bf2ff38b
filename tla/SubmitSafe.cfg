\* Two commands of one address, a deposit, a lost answer, an undone block.
SPECIFICATION Spec
CONSTANTS
  a = a
  b = b
  U64Max = 1000000000
  OverflowChecks = FALSE
  Posts <- TwoPosts
  Requests <- WithOverflow
  Genesis <- Tied
  Deposits <- Larger
  MaxDisconnects = 1
  MaxReorgs = 1
  MaxEvictions = 1
INVARIANTS
  TypeOK
  Balance
  UnderpaidOnlyOnOverflow
  WrappedNeverLands
  TwiceOnlyUnanswered
  TwiceOnlyOnNewView
PROPERTIES
  ImplementsBoard
\* Every command may be done.
CHECK_DEADLOCK FALSE
