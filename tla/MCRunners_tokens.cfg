\* Three rows, four tokens, a request, the browser of an administrator with two
\* renewals at a time, restarts of the server
CONSTANTS
  emb = emb  m1 = m1  m2 = m2  q1 = q1
  Name <- ThreeNames
  Embedded = emb
  Request <- OneRequest
  MaxRunners = 3
  MaxTokens = 4
  MaxFlight = 2
SPECIFICATION SpecPages
SYMMETRY Symmetry
INVARIANTS PagesTypeOK RevokedStaysRevoked EmbeddedIsKnown ShownIsCurrent
\* a server that cannot start is over
CHECK_DEADLOCK FALSE
