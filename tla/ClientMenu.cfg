SPECIFICATION FairSpec

CONSTANTS
  UintSize = 20000
  FirstID = 10000
  Names = {}
  Passwords = {}
  Currencies = {0, 1, 2}
  NaN = NaN
  Inf = Inf
  NegInf = NegInf
  Words <- MCWords
  Alphabetic <- MCAlphabetic
  AlphaNumeric <- MCAlphaNumeric
  TooLong = {"nan"}
  WithoutFirst <- MCWithoutFirst
  CurrencyOf <- MCCurrencyOf
  IntegerOf <- MCIntegerOf
  DoubleOf <- MCDoubleOf
  MaxTries = 2
  TypeAhead = 4

INVARIANTS
  TypeOK
  CallsAreWellFormed
  CallsHoldOwnFields
  NoPhantomAnswers

PROPERTIES
  PromptsEnd

\* The client may end.
CHECK_DEADLOCK FALSE
