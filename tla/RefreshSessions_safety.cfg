SPECIFICATION Spec
CONSTANTS
  t1 = t1
  t2 = t2
  t3 = t3
  t4 = t4
  r1 = r1
  r2 = r2
  r3 = r3
  NoToken = NoToken
  NoRequest = NoRequest
  Tokens <- FourTokens
  Requests <- ThreeRequests
  MayFail = TRUE
SYMMETRY Symmetry
INVARIANTS
  TypeOK
  OneLiveCredential
PROPERTIES
  NoResurrection
  SessionsSpec
CHECK_DEADLOCK FALSE
