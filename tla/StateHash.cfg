\* Two faithful indexers and one whose projection of one event has drifted.
SPECIFICATION Spec
CONSTANTS
  p = p
  q = q
  r = r
  root = root
  Indexers <- TwoAndADrifted
  Blocks <- Tree
  Parent <- ParentOf
  Root = root
  Daa <- DaaOf
  Accepted <- AcceptedBy
  Projection <- Projections
INVARIANT OneHashPerHistory
PROPERTY ImplementsStateLog
