SPECIFICATION Spec

CONSTANTS
  UintSize = 65536
  FirstID = 10000
  Names <- MCNames
  Passwords <- MCPasswords
  Currencies = {0, 1, 2}
  NaN = NaN
  Inf = Inf
  NegInf = NegInf
  Octets = 16
  PasswordSize = 2
  StringLimit = 8
  BufSize = 82
  Commands <- TransferCommands
  MaxCalls = 3

INVARIANTS
  CallbacksNameTheCurrency

\* The calls are used up.
CHECK_DEADLOCK FALSE
