SPECIFICATION FairSpec
CONSTANTS
  Keys = {a, b}
  NoKey = NoKey
  MaxText = 2
  MaxCalls = 4
INVARIANTS AnswersInOrder ReadyIsLoaded CancelReachesTask
PROPERTIES ImplementsEventStream RunEnds
CHECK_DEADLOCK FALSE
