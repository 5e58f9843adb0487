------------------------------- MODULE MCWire -------------------------------
(***************************************************************************)
(* An instance of Wire with 16 values of an octet, so that an account      *)
(* number has three octets that differ, a buffer that a request of the     *)
(* longest kind with short names just fits, and names long enough for the  *)
(* end of the buffer to fall anywhere behind them.                         *)
(***************************************************************************)
EXTENDS Wire

Al == <<1>>
Bo == <<2, 1>>
Long(n) == [i \in 1 .. n |-> 3]

Short == <<7>>
Full == <<7, 8>>
Other == <<7, 9>>

Open(name, password, currency, amount) ==
  [service |-> "OpenAccount", name |-> name, password |-> password, currency |-> currency,
   amount |-> amount]

On(service, account, name, password) ==
  [service |-> service, account |-> account, name |-> name, password |-> password]

Move(service, account, name, password, currency, amount) ==
  On(service, account, name, password) @@ [currency |-> currency, amount |-> amount]

Transfers(account, name, password, to, toName, amount) ==
  Move("TransferFunds", account, name, password, 1, amount) @@ [toAccount |-> to, toName |-> toName]

Watch(name, interval) == On("Monitor", 10000, name, Full) @@ [interval |-> interval]

FittingCommands ==
  {Open(Al, Full, 1, 300), Open(Bo, Other, 1, -5), Open(Al, Short, 0, 0),
   On("CloseAccount", 10000, Al, Full), On("GetBalance", 10001, Bo, Other),
   Move("Deposit", 10000, Al, Full, 1, 70000), Move("Deposit", 10000, Al, Other, 1, 70000),
   Move("Deposit", 10001, Bo, Other, 0, 5), Move("Withdraw", 10000, Al, Full, 1, 299),
   Move("Withdraw", 10000, Al, Full, 1, NaN), Open(Al, Full, 0, NegInf),
   Transfers(10000, Al, Full, 10001, Bo, 17), Transfers(10001, Al, Full, 10000, Al, 1),
   Watch(Al, 300)}

\* For each service, the names with which its request ends up to 30 octets behind the buffer.
CutCommands ==
  {Open(Long(27 + n), Full, 1, 300) : n \in 1 .. 30} \cup
  {On("GetBalance", 10000, Long(37 + n), Full) : n \in 1 .. 30} \cup
  {Move("Deposit", 10000, Long(18 + n), Full, 1, 300) : n \in 1 .. 30} \cup
  {Transfers(10000, Al, Full, 10001, Long(2 + n), 17) : n \in 1 .. 30} \cup
  {Watch(Long(28 + n), 300) : n \in 1 .. 30}

MCCommands == FittingCommands \cup CutCommands

MCNames == {Al, Bo} \cup {Long(n) : n \in 3 .. 67}
MCPasswords == {Short, Full, Other}

\* callback_currency: an account in a currency other than the client's first.
TransferCommands == {Open(Al, Full, 1, 300), Transfers(10000, Al, Full, 10001, Al, 17)}
=============================================================================
