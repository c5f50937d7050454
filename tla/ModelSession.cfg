SPECIFICATION SessionSpec
CONSTANTS
  Tokens = {u, e, r}
  EndOfTurn = e
  ToolResponse = r
  StopTokens = {e, r}
  MaxContext = 6
  SlidingWindow = 2
  MaxChunkTokens = 2
  ChunkTokens = 2
  MaxPrompt = 3
  MaxNewTokens = 2
  NoEntry = NoEntry
  u = u
  e = e
  r = r
INVARIANTS
  AttentionReadsItsText
  EntryIsBacked
  RunnerIsReady
  FinishedTurnsArePublishable
PROPERTIES
  ContinuationRemembers
