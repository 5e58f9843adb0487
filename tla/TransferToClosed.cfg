SPECIFICATION Spec

CONSTANTS
  t1 = t1
  t2 = t2
  t3 = t3
  Threads <- MCThreads
  Jobs <- OneTransfer
  InitialAccounts <- TwoAccounts
  MaxJobs = 1
  UintSize = 20000
  FirstID = 10000
  Names = {"alice", "bob", "carol"}
  Passwords = {"pa", "pb", "pc"}
  Currencies = {0, 1, 2}
  NaN = NaN
  Inf = Inf
  NegInf = NegInf

INVARIANTS
  TransferFindsBothAccounts

\* Threads that have made their calls stop.
CHECK_DEADLOCK FALSE
