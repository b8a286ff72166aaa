SPECIFICATION FairSpec
CONSTANTS
  Requests = {r1, r2}
  NoRequest = NoRequest
  Conns = {c1, c2, c3}
  NoConn = NoConn
  Traffic = {"status", "print", "ippStatus"}
  Poll = "status"
INVARIANTS
  IInv
  HandleOwned
  JobsDoNotOverlap
PROPERTIES
  RequestsEnd
  Recovers
