SPECIFICATION Spec

CONSTANTS
  c1 = c1
  c2 = c2
  Clients <- MCClients
  Mode = "AtMostOnce"
  Flag <- AllAtMostOnce
  DropReply = {FALSE}
  Duplicates = TRUE
  MaxTries = 1
  MaxCalls <- Calls13
  MaxLog = 3
  Commands <- MonitorCommands
  UintSize = 20000
  FirstID = 10000
  Names = {"alice", "bob"}
  Passwords = {"pa", "px"}
  Currencies = {0, 1}
  NaN = NaN
  Inf = Inf
  NegInf = NegInf

INVARIANTS
  CallbacksReportExecutions
  NotifyOnce
  AccountNumbersUnique

PROPERTIES
  NoOverdraft

\* A client whose calls are used up stops, and an idle server waits.
CHECK_DEADLOCK FALSE
