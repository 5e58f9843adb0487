SPECIFICATION Spec

CONSTANTS
  c1 = c1
  c2 = c2
  Clients <- OneClient
  Mode = "AtMostOnce"
  Flag <- OneFlag
  DropReply = {FALSE}
  Duplicates = FALSE
  MaxTries = 2
  MaxCalls <- OneCalls
  MaxLog = 3
  Commands <- OneCommand
  UintSize = 20000
  FirstID = 10000
  Names = {"alice", "bob"}
  Passwords = {"pa"}
  Currencies = {0, 1}
  NaN = NaN
  Inf = Inf
  NegInf = NegInf

INVARIANTS
  RepliesMatchRequests

\* A client whose calls are used up stops, and an idle server waits.
CHECK_DEADLOCK FALSE
