\* A signed device registration.
SPECIFICATION Spec
CONSTANTS
  ExtensionKeys <- MCExtensionKeys
  Drafts <- NoDrafts
  Overlays <- NoOverlays
  Clearable <- NoOverlays
  ForeignPayloads <- SignedRegistration
  MaxEdits = 0
  MaxPosts = 1
INVARIANTS
  SignedVerifies
\* Every post, edit and copy is bounded, so the system may stop.
CHECK_DEADLOCK FALSE
