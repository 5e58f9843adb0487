SPECIFICATION Spec

CONSTANTS
  c1 = c1
  c2 = c2
  Clients <- MCClients
  Mode = "AtLeastOnce"
  Flag <- OneOfEach
  DropReply = {FALSE}
  Duplicates = TRUE
  MaxTries = 2
  MaxCalls <- Calls31
  MaxLog = 4
  Commands <- MixedCommands
  UintSize = 20000
  FirstID = 10000
  Names = {"alice", "bob"}
  Passwords = {"pa"}
  Currencies = {0, 1}
  NaN = NaN
  Inf = Inf
  NegInf = NegInf

INVARIANTS
  ClosedForGood
  WrongFlagNeverServed

\* A client whose calls are used up stops, and an idle server waits.
CHECK_DEADLOCK FALSE
