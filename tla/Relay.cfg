\* Six drafts, two edits, one payload; two where signatures are in question.
SPECIFICATION Spec
CONSTANTS
  ExtensionKeys <- MCExtensionKeys
  Drafts <- MCDrafts
  Overlays <- MCOverlays
  Clearable <- MCClearable
  ForeignPayloads <- MCForeign
  MaxEdits = 2
  MaxPosts = 2
INVARIANTS
  TypeOK
  RelayIntegrity
  RelayStable
  RoundTrip
  FreshVerifies
  OnlySignedVerifies
CONSTRAINTS
  SecondPostAboutSignatures
  ForeignAlone
\* Every post, edit and copy is bounded, so the system may stop.
CHECK_DEADLOCK FALSE
