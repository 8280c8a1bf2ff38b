\* The walker on three alphabets: kinds of items, wide arguments, nesting.
\* The selection on every set of ten outputs, ties included; nothing overflows.
SPECIFICATION Inputting
CONSTANTS
  Inputs <- Alphabets
  U64Max = 100000000
  OverflowChecks = FALSE
  Coins <- MCCoins
  Requests <- MCRequests
INVARIANTS
  AcceptsExactlyCanonical
  SelfDelimiting
  SelectionComplete
  SelectionFewest
  TiesCostTheSame
\* The input ends.
CHECK_DEADLOCK FALSE
