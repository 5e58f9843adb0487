SPECIFICATION Spec

CONSTANTS
  c1 = c1
  c2 = c2
  Clients <- MCClients
  Mode = "AtMostOnce"
  Flag <- AllAtMostOnce
  DropReply = {FALSE}
  Duplicates = TRUE
  MaxTries = 2
  MaxCalls <- Calls22
  MaxLog = 3
  Commands <- MoneyCommands
  UintSize = 20000
  FirstID = 10000
  Names = {"alice", "bob"}
  Passwords = {"pa"}
  Currencies = {0, 1}
  NaN = NaN
  Inf = Inf
  NegInf = NegInf

INVARIANTS
  IndInv
  AtMostOnce
  AnswersAreExecutions
  BalanceIsSumOfCalls

PROPERTIES
  ImplementsAtMostOnceBank

\* A client whose calls are used up stops, and an idle server waits.
CHECK_DEADLOCK FALSE
