\* The role subcommands with every option they have.
SPECIFICATION Spec
CONSTANTS
  ExtensionKeys <- MCExtensionKeys
  Commands <- RoleCommands
  TurnedTo <- NoCommands
  OptionValues <- MCOptionValues
  Keys <- MCKeys
  MaxChanges = 2
  MaxPrinted = 1
INVARIANTS
  ListedOptionsSuffice
\* Changes and runs are bounded.
CHECK_DEADLOCK FALSE
