---------------------------- MODULE MCAccountLocks ----------------------------
(***************************************************************************)
(* Finite instances of AccountLocks: three threads on two accounts, 10000  *)
(* of alice and 10001 of bob.                                              *)
(***************************************************************************)
EXTENDS AccountLocks, TLC

CONSTANTS t1, t2, t3

MCThreads == {t1, t2, t3}

TwoAccounts ==
  (10000 :> [name |-> "alice", password |-> "pa", currency |-> 1, balance |-> 1]) @@
  (10001 :> [name |-> "bob", password |-> "pb", currency |-> 1, balance |-> 1])

By(account) == IF account = 10000 THEN [name |-> "alice", password |-> "pa"] ELSE [name |-> "bob", password |-> "pb"]

On(service, account) ==
  [service |-> service, name |-> By(account).name, password |-> By(account).password, account |-> account]

Move(service, account, currency, amount) ==
  [currency |-> currency, amount |-> amount] @@ On(service, account)

Send(from, to, amount) ==
  [toAccount |-> to, toName |-> "carol", currency |-> 1, amount |-> amount] @@ On("TransferFunds", from)

Open(amount) ==
  [service |-> "OpenAccount", name |-> "carol", password |-> "pc", currency |-> 1, amount |-> amount]

\* atomic_calls: opposite transfers, and everything else but a close.
AtomicJobs ==
  (t1 :> {Send(10000, 10001, 1), Send(10000, 10002, 1), Send(10000, 10000, 1)}) @@
  (t2 :> {Send(10001, 10000, 1), Move("Withdraw", 10001, 1, 1), Move("Deposit", 10001, 2, 1)}) @@
  (t3 :> {Open(1), On("GetBalance", 10000), Move("Deposit", 10001, 1, 1), Move("Withdraw", 10000, 1, 2),
          Move("Deposit", 10000, 1, 0)})

\* closing: the same accounts, which t1 may close.
ClosingJobs ==
  (t1 :> {On("CloseAccount", 10000), On("CloseAccount", 10001), Move("Withdraw", 10000, 1, 1)}) @@
  (t2 :> {Send(10000, 10001, 1), Move("Withdraw", 10000, 1, 1), Open(1)}) @@
  (t3 :> {Move("Deposit", 10000, 1, 1), Move("Deposit", 10001, 1, 1), On("CloseAccount", 10000)})

\* transfer_to_closed: one transfer and one close.
OneTransfer ==
  (t1 :> {On("CloseAccount", 10001)}) @@ (t2 :> {Send(10000, 10001, 1)}) @@ (t3 :> {})
=============================================================================
