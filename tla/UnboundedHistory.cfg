SPECIFICATION Spec

CONSTANTS
  c1 = c1
  c2 = c2
  Clients <- OneClient
  Mode = "AtMostOnce"
  Flag <- OneFlag
  DropReply = {TRUE}
  Duplicates = FALSE
  MaxTries = 1
  MaxCalls <- TwelveCalls
  MaxLog = 3
  Commands <- BalanceOnly
  UintSize = 20000
  FirstID = 10000
  Names = {"alice", "bob"}
  Passwords = {"pa"}
  Currencies = {0, 1}
  NaN = NaN
  Inf = Inf
  NegInf = NegInf

INVARIANTS
  HistoryIsWindowed

\* A client whose calls are used up stops, and an idle server waits.
CHECK_DEADLOCK FALSE
