SPECIFICATION FairHTTPSpec
CONSTANTS
  Requests = {a, b, x}
  QueueLimit = 1
  Conns = {c1, c2}
  ConnOf <- TwoConns
  Streaming = {a}
  MaxEvents = 1
  NoRequest = NoRequest
  a = a
  b = b
  x = x
  c1 = c1
  c2 = c2
INVARIANTS
  HTTPInv
  ResponsesAreFramed
  NoOrphans
  ShutdownQuiesces
PROPERTIES
  AnsweredOrClosed
  ShutdownEnds
CHECK_DEADLOCK FALSE
