SPECIFICATION FairSpec
CONSTANTS
  Requests = {r1}
  NoRequest = NoRequest
  Conns = {c1, c2}
  NoConn = NoConn
  Traffic = {"ippStatus"}
  Poll = "ippStatus"
PROPERTY
  Recovers
