SPECIFICATION FairSpec
CONSTANTS
  NumLayers = 2
  Experts = {e1, e2, e3}
  Slots = {s1, s2}
  TopK = 2
  TileExperts = 1
  MaxPendingDepth = 1
  MaxQueued = 2
  NoExpert = NoExpert
  e1 = e1
  e2 = e2
  e3 = e3
  s1 = s1
  s2 = s2
INVARIANTS
  QueuedWorkReadsItsExperts
  BudgetSuffices
  PipelineInv
PROPERTIES
  StepsEnd
  ImplementsOwnedSlots
