\* A group-encrypted v0 event loses its enc_scheme.
SPECIFICATION Spec
CONSTANTS
  ExtensionKeys <- MCExtensionKeys
  Drafts <- GroupOnly
  Overlays <- BackToV0
  Clearable <- NoOverlays
  ForeignPayloads <- NoOverlays
  MaxEdits = 1
  MaxPosts = 1
INVARIANTS
  EncodedIsParseable
\* Every post, edit and copy is bounded, so the system may stop.
CHECK_DEADLOCK FALSE
