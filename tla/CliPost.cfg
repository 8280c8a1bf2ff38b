\* Every subcommand, four changes of its options or to another one, two payloads printed.
SPECIFICATION Spec
CONSTANTS
  ExtensionKeys <- MCExtensionKeys
  Commands <- AllCommands
  TurnedTo <- EditCommand
  OptionValues <- MCOptionValues
  Keys <- MCKeys
  MaxChanges = 4
  MaxPrinted = 2
INVARIANTS
  PrintedReadsBack
  DetachedSignature
\* Changes and runs are bounded.
CHECK_DEADLOCK FALSE
