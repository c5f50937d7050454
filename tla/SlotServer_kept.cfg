SPECIFICATION FairSpec
CONSTANTS
  Requests <- MCRequests
  Tasks <- MCTasks
  Roots <- MCRoots
  Children <- MCChildren
  Pin <- MCPin
  Impatient <- MCImpatient
  Empty <- MCEmpty
  SlotCount = 2
  NoTask = NoTask
  MaxChunks = 1
  MaxTokens = 2
PROPERTY EverySlotComesFree
CHECK_DEADLOCK FALSE
