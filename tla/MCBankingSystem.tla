--------------------------- MODULE MCBankingSystem ---------------------------
(***************************************************************************)
(* Finite instances of BankingSystem: which clients there are, how they    *)
(* were started and what their users ask for.  Account 10000 is the first  *)
(* one opened, 10001 the second.                                           *)
(***************************************************************************)
EXTENDS BankingSystem, TLC

CONSTANTS c1, c2

MCClients == {c1, c2}

AllAtMostOnce == [c \in MCClients |-> "AtMostOnce"]
OneOfEach == (c1 :> "AtLeastOnce") @@ (c2 :> "AtMostOnce")

Open(amount, currency) ==
  [service |-> "OpenAccount", name |-> "alice", password |-> "pa",
   currency |-> currency, amount |-> amount]

On(service, account, password) ==
  [service |-> service, name |-> "alice", password |-> password, account |-> account]

Move(service, account, amount) ==
  [service |-> service, name |-> "alice", password |-> "pa", account |-> account,
   currency |-> 1, amount |-> amount]

Send(from, to, amount) ==
  [service |-> "TransferFunds", name |-> "alice", password |-> "pa", account |-> from,
   toAccount |-> to, toName |-> "bob", currency |-> 1, amount |-> amount]

Watch ==
  [service |-> "Monitor", name |-> "alice", password |-> "pa", account |-> 10000, interval |-> 1]

\* at_most_once: two clients with one account between them, or one each.  An account
\* of c2 holds NaN from the start, and pays or is paid.
Calls22 == [c \in MCClients |-> 2]
MoneyCommands ==
  (c1 :> {Open(2, 1), Move("Deposit", 10000, 1)}) @@
  (c2 :> {Open(NaN, 1), Send(10000, 10001, 1)})

\* monitoring: c1 watches, c2 uses every service that notifies, also where it fails.
Calls13 == (c1 :> 1) @@ (c2 :> 3)
MonitorCommands ==
  (c1 :> {Watch}) @@
  (c2 :> {Open(2, 1), Move("Withdraw", 10000, 2), Send(10000, 10001, 2), On("CloseAccount", 10000, "pa")})

\* at_least_once: c1 opens, uses and closes accounts, c2 was started with the other
\* semantics.
Calls31 == (c1 :> 3) @@ (c2 :> 1)
MixedCommands ==
  (c1 :> {Open(1, 1), Move("Deposit", 10000, 1), On("CloseAccount", 10000, "pa")}) @@
  (c2 :> {Open(1, 1), Watch})

\* stale_reply: one client is enough.
OneClient == {c1}
OneFlag == [c \in OneClient |-> "AtMostOnce"]
OneCalls == [c \in OneClient |-> 2]
OneCommand == [c \in OneClient |-> {Open(2, 1), Move("Deposit", 10000, 1)}]

\* unbounded_history: one client, one more call than the window and its newest request.
TwelveCalls == [c \in OneClient |-> 12]
BalanceOnly == [c \in OneClient |-> {On("GetBalance", 10000, "pa")}]
=============================================================================
