---------------------------- MODULE Bank_proofs ----------------------------
(***************************************************************************)
(* What the banking service and the handler keep true of the account       *)
(* store, for every request and every size of the store.                   *)
(***************************************************************************)
EXTENDS Handler, Recursion_proofs

\* A database is a record, so its fields can be compared one by one.
LEMMA DatabaseFields ==
  ASSUME NEW db, IsDatabase(db)
  PROVE  /\ db.nextID \in Uint32
         /\ DOMAIN db.accounts \subseteq Uint32
         /\ \A a \in DOMAIN db.accounts : db.accounts[a] \in Account
  BY DEF IsDatabase

\* Inserting an account of the right type under a uint32 number keeps the store well-formed.
LEMMA CreateTyped ==
  ASSUME NEW db, IsDatabase(db), NEW acc \in Account
  PROVE  IsDatabase(CreateAccount(db, acc))
<1>1. db.nextID \in 0 .. UintSize - 1 /\ UintSize \in Nat /\ UintSize > 0
  BY UintAssumption, SMT DEF IsDatabase, Uint32
<1>2. (db.nextID + 1) % UintSize \in Uint32
  BY <1>1, SMT DEF Uint32
<1> QED BY <1>1, <1>2 DEF IsDatabase, CreateAccount, Put, Uint32

\* Removing an account keeps the store well-formed.
LEMMA DeleteTyped ==
  ASSUME NEW db, IsDatabase(db), NEW a
  PROVE  IsDatabase(DeleteAccount(db, a))
  BY DEF IsDatabase, DeleteAccount, Restrict

\* The arithmetic of doubles stays among the doubles.
LEMMA MoneyClosed ==
  ASSUME NEW x \in Money, NEW y \in Money
  PROVE  /\ Plus(x, y) \in Money
         /\ Plus(x, 0) = x
         /\ Negative(x) \in Money
  BY DoubleAssumption DEF Plus, Negative, Money

\* Moving money in or out of an account changes its balance and nothing else.
LEMMA AddTyped ==
  ASSUME NEW db, IsDatabase(db), NEW a \in DOMAIN db.accounts, NEW n \in Money
  PROVE  /\ IsDatabase(AddToBalance(db, a, n))
         /\ DOMAIN AddToBalance(db, a, n).accounts = DOMAIN db.accounts
         /\ \A b \in DOMAIN db.accounts :
              AddToBalance(db, a, n).accounts[b].balance =
                IF a = b THEN Plus(db.accounts[b].balance, n) ELSE db.accounts[b].balance
<1>1. db.accounts[a].balance \in Money
  BY DatabaseFields DEF Account
<1>2. Plus(db.accounts[a].balance, n) \in Money
  BY <1>1, MoneyClosed
<1> QED
  BY <1>2 DEF IsDatabase, AddToBalance, Account

\* A request that passed the lookup names an account of the store.
LEMMA AuthFindsAccount ==
  ASSUME NEW db, NEW q, AuthError(db, q) = None
  PROVE  q.account \in DOMAIN db.accounts
  BY DEF AuthError, None

LEMMA MovementFindsAccount ==
  ASSUME NEW db, NEW q, MovementError(db, q) = None
  PROVE  q.account \in DOMAIN db.accounts
  BY AuthFindsAccount DEF MovementError, None

LEMMA TransferFindsAccounts ==
  ASSUME NEW db, NEW q, TransferError(db, q) = None
  PROVE  /\ q.account \in DOMAIN db.accounts
         /\ q.toAccount \in DOMAIN db.accounts
         /\ q.account # q.toAccount
  BY DEF TransferError, None

\* Whatever a request asks for, the handler leaves a well-formed store and a number to report.
THEOREM OutcomeTyped ==
  ASSUME NEW db, IsDatabase(db), NEW q, WellTyped(q)
  PROVE  IsDatabase(Outcome(db, q).db) /\ Outcome(db, q).value \in Money
<1>0. 0 \in Money
  BY DEF Money
<1> USE <1>0
<1>1. CASE ~ WellFormed(q)
  BY <1>1 DEF Outcome, Fails
<1>2. CASE WellFormed(q)
  <2> USE <1>2
  <2>0. Outcome(db, q) = CallService(db, q)
    BY DEF Outcome
  <2>1. CASE q.service = "OpenAccount"
    <3>1. [name |-> q.name, password |-> q.password, currency |-> q.currency,
           balance |-> q.amount] \in Account
      BY <2>1 DEF WellFormed, RequiredFields, WellTyped, Account
    <3>2. db.nextID \in Money
      BY DatabaseFields, UintAssumption DEF Uint32, Money
    <3> QED BY <2>0, <2>1, <3>1, <3>2, CreateTyped DEF CallService, OpenAccount, Returns
  <2>2. CASE q.service = "CloseAccount"
    BY <2>0, <2>2, DeleteTyped DEF CallService, CloseAccount, Returns, Fails
  <2>3. CASE q.service = "Deposit"
    <3>1. q.amount \in Money
      BY <2>3 DEF WellFormed, RequiredFields, WellTyped
    <3>2. CASE MovementError(db, q) # None
      BY <2>0, <2>3, <3>2 DEF CallService, Deposit, Fails
    <3>3. CASE MovementError(db, q) = None
      <4>1. q.account \in DOMAIN db.accounts
        BY <3>3, MovementFindsAccount
      <4>2. Plus(db.accounts[q.account].balance, q.amount) \in Money
        BY <3>1, <4>1, MoneyClosed, DatabaseFields DEF Account
      <4> QED BY <2>0, <2>3, <3>1, <3>3, <4>1, <4>2, AddTyped DEF CallService, Deposit, Returns
    <3> QED BY <3>2, <3>3
  <2>4. CASE q.service = "Withdraw"
    <3>1. q.amount \in Money /\ Negative(q.amount) \in Money
      BY MoneyClosed, <2>4 DEF WellFormed, RequiredFields, WellTyped
    <3>2. CASE WithdrawError(db, q) # None
      BY <2>0, <2>4, <3>2 DEF CallService, Withdraw, Fails
    <3>3. CASE WithdrawError(db, q) = None
      <4>1. q.account \in DOMAIN db.accounts
        BY <3>3, MovementFindsAccount DEF WithdrawError
      <4>2. Plus(db.accounts[q.account].balance, Negative(q.amount)) \in Money
        BY <3>1, <4>1, MoneyClosed, DatabaseFields DEF Account
      <4> QED BY <2>0, <2>4, <3>1, <3>3, <4>1, <4>2, AddTyped DEF CallService, Withdraw, Returns
    <3> QED BY <3>2, <3>3
  <2>5. CASE q.service = "GetBalance"
    <3>1. CASE AuthError(db, q) # None
      BY <2>0, <2>5, <3>1 DEF CallService, CheckBalance, Fails
    <3>2. CASE AuthError(db, q) = None
      <4>1. db.accounts[q.account].balance \in Money
        BY <3>2, AuthFindsAccount, DatabaseFields DEF Account
      <4> QED BY <2>0, <2>5, <3>2, <4>1 DEF CallService, CheckBalance, Returns
    <3> QED BY <3>1, <3>2
  <2>6. CASE q.service = "TransferFunds"
    <3>1. q.amount \in Money /\ Negative(q.amount) \in Money
      BY MoneyClosed, <2>6 DEF WellFormed, RequiredFields, WellTyped
    <3>2. CASE TransferError(db, q) # None
      BY <2>0, <2>6, <3>2 DEF CallService, Transfer, Fails
    <3>3. CASE TransferError(db, q) = None
      <4>1. q.account \in DOMAIN db.accounts /\ q.toAccount \in DOMAIN db.accounts
        BY <3>3, TransferFindsAccounts
      <4>2. Plus(db.accounts[q.account].balance, Negative(q.amount)) \in Money
        BY <3>1, <4>1, MoneyClosed, DatabaseFields DEF Account
      <4> DEFINE mid == AddToBalance(db, q.account, Negative(q.amount))
      <4>3. IsDatabase(mid) /\ q.toAccount \in DOMAIN mid.accounts
        BY <3>1, <4>1, AddTyped
      <4>4. IsDatabase(AddToBalance(mid, q.toAccount, q.amount))
        <5> HIDE DEF mid
        <5> QED BY <3>1, <4>3, AddTyped
      <4> QED BY <2>0, <2>6, <3>3, <4>2, <4>4 DEF CallService, Transfer, Returns
    <3> QED BY <3>2, <3>3
  <2>7. CASE q.service = "Monitor"
    BY <2>0, <2>7 DEF CallService, Returns
  <2> QED BY <2>1, <2>2, <2>3, <2>4, <2>5, <2>6, <2>7 DEF WellFormed, Services, RequiredFields
<1> QED BY <1>1, <1>2

\* What is passed to NotifyAll is a list of one or two updates, or nothing.
THEOREM UpdatesTyped ==
  ASSUME NEW db, IsDatabase(db), NEW q, WellTyped(q)
  PROVE  LET updates == UpdatesOf(q, Outcome(db, q))
         IN /\ DOMAIN updates \subseteq {1, 2}
            /\ \A k \in DOMAIN updates : updates[k] \in Updates
<1> DEFINE out == Outcome(db, q)
<1>1. CASE out.err # None
  BY <1>1 DEF UpdatesOf
<1>2. CASE out.err = None
  <2>1. WellFormed(q)
    BY <1>2 DEF Outcome, Fails, None
  <2>2. out = CallService(db, q)
    BY <2>1 DEF Outcome
  <2>3. IsDatabase(out.db) /\ out.value \in Money
    BY OutcomeTyped
  <2> USE <2>1
  <2>4. CASE q.service = "OpenAccount"
    <3>1. q.amount \in Money /\ q.name \in Names /\ q.currency \in Currencies
      BY <2>4 DEF WellFormed, RequiredFields, WellTyped
    <3>2. out.value \in Uint32
      BY <2>2, <2>4, DatabaseFields DEF CallService, OpenAccount, Returns
    <3>3. AccountUpdate(q, out.value, q.name, q.currency, q.amount) \in Updates
      BY <2>4, <3>1, <3>2 DEF AccountUpdate, Updates, Services, RequiredFields
    <3>4. UpdatesOf(q, out) = <<AccountUpdate(q, out.value, q.name, q.currency, q.amount)>>
      BY <1>2, <2>4 DEF UpdatesOf
    <3> QED BY <3>3, <3>4
  <2>5. CASE q.service = "CloseAccount"
    <3>1. q.account \in Uint32 /\ q.name \in Names
      BY <2>5 DEF WellFormed, RequiredFields, WellTyped
    <3>2. AccountUpdate(q, q.account, q.name, NoCurrency, 0) \in Updates
      BY <2>5, <3>1 DEF AccountUpdate, Updates, Services, RequiredFields, Money
    <3>3. UpdatesOf(q, out) = <<AccountUpdate(q, q.account, q.name, NoCurrency, 0)>>
      BY <1>2, <2>5 DEF UpdatesOf
    <3> QED BY <3>2, <3>3
  <2>6. CASE q.service \in {"Deposit", "Withdraw"}
    <3>1. q.account \in Uint32 /\ q.name \in Names /\ q.currency \in Currencies
      BY <2>6 DEF WellFormed, RequiredFields, WellTyped
    <3>2. AccountUpdate(q, q.account, q.name, q.currency, out.value) \in Updates
      BY <2>6, <2>3, <3>1 DEF AccountUpdate, Updates, Services, RequiredFields
    <3>3. UpdatesOf(q, out) = <<AccountUpdate(q, q.account, q.name, q.currency, out.value)>>
      BY <1>2, <2>6 DEF UpdatesOf
    <3> QED BY <3>2, <3>3
  <2>7. CASE q.service = "TransferFunds"
    <3>1. /\ q.account \in Uint32 /\ q.name \in Names /\ q.toAccount \in Uint32 /\ q.toName \in Names
          /\ q.amount \in Money /\ Negative(q.amount) \in Money
      BY <2>7, MoneyClosed DEF WellFormed, RequiredFields, WellTyped
    <3>2. TransferError(db, q) = None
      BY <1>2, <2>2, <2>7 DEF CallService, Transfer, Fails
    <3>3. q.account \in DOMAIN db.accounts /\ q.toAccount \in DOMAIN db.accounts
      BY <3>2, TransferFindsAccounts
    <3> DEFINE mid == AddToBalance(db, q.account, Negative(q.amount))
    <3>4. IsDatabase(mid) /\ q.toAccount \in DOMAIN mid.accounts
      BY <3>1, <3>3, AddTyped
    <3>5. DOMAIN AddToBalance(mid, q.toAccount, q.amount).accounts = DOMAIN mid.accounts
      <4> HIDE DEF mid
      <4> QED BY <3>1, <3>4, AddTyped
    <3>6. q.toAccount \in DOMAIN out.db.accounts
      BY <2>2, <2>7, <3>2, <3>4, <3>5 DEF CallService, Transfer, Returns
    <3>7. out.db.accounts[q.toAccount].balance \in Money
      BY <2>3, <3>6, DatabaseFields DEF Account
    <3>8. /\ AccountUpdate(q, q.account, q.name, NoCurrency, out.value) \in Updates
          /\ AccountUpdate(q, q.toAccount, q.toName, NoCurrency,
                           out.db.accounts[q.toAccount].balance) \in Updates
      BY <2>7, <2>3, <3>1, <3>7 DEF AccountUpdate, Updates, Services, RequiredFields
    <3>9. UpdatesOf(q, out) =
            <<AccountUpdate(q, q.account, q.name, NoCurrency, out.value),
              AccountUpdate(q, q.toAccount, q.toName, NoCurrency,
                            out.db.accounts[q.toAccount].balance)>>
      BY <1>2, <2>7 DEF UpdatesOf
    <3> QED BY <3>8, <3>9
  <2>8. CASE q.service \in {"GetBalance", "Monitor"}
    BY <1>2, <2>8 DEF UpdatesOf
  <2> QED BY <2>4, <2>5, <2>6, <2>7, <2>8 DEF WellFormed, Services, RequiredFields
<1> QED BY <1>1, <1>2

\* An outcome is reported as an answer of the reply type.
LEMMA AnswerTyped ==
  ASSUME NEW out, out.value \in Money
  PROVE  Answer(out) \in Answers
  BY DEF Answer, Answers, MapBankingError, Statuses

\* A request that fails, whatever the reason, leaves the store as it was.
THEOREM FailureChangesNothing ==
  ASSUME NEW db, NEW q, Outcome(db, q).err # None
  PROVE  Outcome(db, q).db = db
  BY DEF Outcome, CallService, OpenAccount, CloseAccount, Deposit, Withdraw, CheckBalance,
         Transfer, Returns, Fails

\* What a call may take out, the check of the funds has found there: no number is left below 0.
LEMMA EnoughIsLeft ==
  ASSUME NEW x \in Money, NEW n \in Money, ~ AtMost(n, 0), ~ Less(x, n)
  PROVE  ~ Less(Plus(x, Negative(n)), 0)
<1>1. CASE n \in Int
  <2>1. Negative(n) = -n /\ -n \in Int /\ n > 0
    BY <1>1, DoubleAssumption DEF Negative, AtMost, Less
  <2>2. CASE x \in Int
    BY <1>1, <2>1, <2>2, DoubleAssumption DEF Plus, Less
  <2>3. CASE x \notin Int
    BY <1>1, <2>1, <2>3, DoubleAssumption DEF Plus, Less, Money
  <2> QED BY <2>2, <2>3
<1>2. CASE n \in {Inf, NegInf}
  BY <1>2, DoubleAssumption DEF Plus, Negative, Less, AtMost, Money
<1>3. CASE n = NaN
  BY <1>3, DoubleAssumption DEF Plus, Negative, Less
<1> QED BY <1>1, <1>2, <1>3 DEF Money

\* A payment in lowers no balance.
LEMMA PaymentRaises ==
  ASSUME NEW x \in Money, NEW n \in Money, ~ AtMost(n, 0)
  PROVE  ~ Less(Plus(x, n), x)
<1>1. CASE n \in Int /\ x \in Int
  BY <1>1, DoubleAssumption DEF Plus, AtMost, Less
<1>2. CASE n \notin Int \/ x \notin Int
  BY <1>2, DoubleAssumption DEF Plus, AtMost, Less, Money
<1> QED BY <1>1, <1>2

\* No balance is below itself.
LEMMA NotBelowItself == ASSUME NEW x \in Money PROVE ~ Less(x, x)
  BY DoubleAssumption DEF Less, Money

\* A transfer takes from one account what it gives to the other, leaves the payer
\* with no debt and every other account as it was (bank.go: Transfer).
THEOREM TransferMovesMoney ==
  ASSUME NEW db, IsDatabase(db), NEW q, WellFormed(q), WellTyped(q),
         q.service = "TransferFunds", TransferError(db, q) = None
  PROVE  LET new == Transfer(db, q).db.accounts
         IN /\ DOMAIN new = DOMAIN db.accounts
            /\ new[q.account].balance = Plus(db.accounts[q.account].balance, Negative(q.amount))
            /\ ~ Less(new[q.account].balance, 0)
            /\ new[q.toAccount].balance = Plus(db.accounts[q.toAccount].balance, q.amount)
            /\ \A a \in DOMAIN new \ {q.account, q.toAccount} :
                 new[a].balance = db.accounts[a].balance
<1> DEFINE paid == AddToBalance(db, q.account, Negative(q.amount))
           new == AddToBalance(paid, q.toAccount, q.amount)
<1>1. q.amount \in Money /\ Negative(q.amount) \in Money
  BY MoneyClosed DEF WellFormed, WellTyped, RequiredFields
<1>2. q.account \in DOMAIN db.accounts /\ q.toAccount \in DOMAIN db.accounts /\ q.account # q.toAccount
  BY TransferFindsAccounts
<1>3. ~ AtMost(q.amount, 0) /\ ~ Less(db.accounts[q.account].balance, q.amount)
  BY DEF TransferError, None
<1>4. /\ IsDatabase(paid) /\ DOMAIN paid.accounts = DOMAIN db.accounts
      /\ \A b \in DOMAIN db.accounts :
           paid.accounts[b].balance =
             IF q.account = b THEN Plus(db.accounts[b].balance, Negative(q.amount))
             ELSE db.accounts[b].balance
  BY <1>1, <1>2, AddTyped
<1>5. q.toAccount \in DOMAIN paid.accounts
  BY <1>2, <1>4
<1>6. /\ DOMAIN new.accounts = DOMAIN paid.accounts
      /\ \A b \in DOMAIN paid.accounts :
           new.accounts[b].balance =
             IF q.toAccount = b THEN Plus(paid.accounts[b].balance, q.amount)
             ELSE paid.accounts[b].balance
  <2> HIDE DEF paid
  <2> QED BY <1>1, <1>4, <1>5, AddTyped
<1>7. Transfer(db, q).db = new
  BY DEF Transfer, Returns
<1>8. db.accounts[q.account].balance \in Money
  BY <1>2, DatabaseFields DEF Account
<1> HIDE DEF paid, new
<1>9. new.accounts[q.account].balance = Plus(db.accounts[q.account].balance, Negative(q.amount))
  BY <1>2, <1>4, <1>6
<1>10. ~ Less(new.accounts[q.account].balance, 0)
  BY <1>1, <1>3, <1>8, <1>9, EnoughIsLeft
<1>11. new.accounts[q.toAccount].balance = Plus(db.accounts[q.toAccount].balance, q.amount)
  BY <1>2, <1>4, <1>6
<1>12. \A a \in DOMAIN db.accounts \ {q.account, q.toAccount} :
         new.accounts[a].balance = db.accounts[a].balance
  BY <1>4, <1>6
<1> QED BY <1>4, <1>6, <1>7, <1>9, <1>10, <1>11, <1>12

\* What a call that succeeds makes of the balance of an account that stays: it is left
\* alone, paid into, or paid out of after the check of the funds.  A stranger's request
\* with no number as its amount therefore reaches only the accounts it names
\* (bank.go: Deposit, Withdraw and Transfer).
THEOREM BalanceAfterCall ==
  ASSUME NEW db, IsDatabase(db), db.nextID \notin DOMAIN db.accounts, NEW q, WellTyped(q),
         NEW a \in DOMAIN db.accounts \cap DOMAIN Outcome(db, q).db.accounts
  PROVE  LET old == db.accounts[a].balance
             new == Outcome(db, q).db.accounts[a].balance
         IN \/ new = old
            \/ /\ "amount" \in DOMAIN q /\ q.amount \in Money /\ ~ AtMost(q.amount, 0)
               /\ \/ new = Plus(old, q.amount)
                  \/ new = Plus(old, Negative(q.amount)) /\ ~ Less(old, q.amount)
<1>1. CASE Outcome(db, q).err # None
  BY <1>1, FailureChangesNothing
<1>2. CASE Outcome(db, q).err = None
  <2>1. WellFormed(q) /\ Outcome(db, q) = CallService(db, q)
    BY <1>2 DEF Outcome, Fails, None
  <2>2. CASE q.service = "OpenAccount"
    BY <2>1, <2>2 DEF CallService, OpenAccount, Returns, CreateAccount, Put
  <2>3. CASE q.service = "CloseAccount"
    BY <1>2, <2>1, <2>3 DEF CallService, CloseAccount, Fails, Returns, DeleteAccount, Restrict
  <2>4. CASE q.service = "Deposit"
    <3>1. "amount" \in DOMAIN q /\ q.amount \in Money
      BY <2>1, <2>4 DEF WellFormed, WellTyped, RequiredFields
    <3>2. MovementError(db, q) = None /\ Outcome(db, q).db = AddToBalance(db, q.account, q.amount)
      BY <1>2, <2>1, <2>4 DEF CallService, Deposit, Fails, Returns, None
    <3>3. ~ AtMost(q.amount, 0) /\ q.account \in DOMAIN db.accounts
      BY <3>2, MovementFindsAccount DEF MovementError, None
    <3> QED BY <3>1, <3>2, <3>3, AddTyped
  <2>5. CASE q.service = "Withdraw"
    <3>1. "amount" \in DOMAIN q /\ q.amount \in Money /\ Negative(q.amount) \in Money
      BY <2>1, <2>5, MoneyClosed DEF WellFormed, WellTyped, RequiredFields
    <3>2. /\ WithdrawError(db, q) = None
          /\ Outcome(db, q).db = AddToBalance(db, q.account, Negative(q.amount))
      BY <1>2, <2>1, <2>5 DEF CallService, Withdraw, Fails, Returns, None
    <3>3. MovementError(db, q) = None /\ ~ Less(db.accounts[q.account].balance, q.amount)
      BY <3>2 DEF WithdrawError, None
    <3>4. ~ AtMost(q.amount, 0) /\ q.account \in DOMAIN db.accounts
      BY <3>3, MovementFindsAccount DEF MovementError, None
    <3>5. Outcome(db, q).db.accounts[a].balance =
            IF q.account = a THEN Plus(db.accounts[a].balance, Negative(q.amount))
            ELSE db.accounts[a].balance
      BY <3>1, <3>2, <3>4, AddTyped
    <3> QED BY <3>1, <3>3, <3>4, <3>5
  <2>6. CASE q.service = "TransferFunds"
    <3>1. TransferError(db, q) = None /\ Outcome(db, q).db = Transfer(db, q).db
      BY <1>2, <2>1, <2>6 DEF CallService, Transfer, Fails, None
    <3>2. "amount" \in DOMAIN q /\ q.amount \in Money
      BY <2>1, <2>6 DEF WellFormed, WellTyped, RequiredFields
    <3>3. ~ AtMost(q.amount, 0) /\ ~ Less(db.accounts[q.account].balance, q.amount)
      BY <3>1 DEF TransferError, None
    <3> QED BY <2>1, <2>6, <3>1, <3>2, <3>3, TransferMovesMoney
  <2>7. CASE q.service \in {"Monitor", "GetBalance"}
    BY <2>1, <2>7 DEF CallService, CheckBalance, Fails, Returns
  <2> QED
    BY <2>1, <2>2, <2>3, <2>4, <2>5, <2>6, <2>7 DEF WellFormed, Services, RequiredFields
<1> QED BY <1>1, <1>2

\* No request takes an account below zero, and none takes one that is below zero
\* further down, as long as the number of the next account is free.
THEOREM NoCallOverdraws ==
  ASSUME NEW db, IsDatabase(db), db.nextID \notin DOMAIN db.accounts, NEW q, WellTyped(q),
         NEW a \in DOMAIN db.accounts \cap DOMAIN Outcome(db, q).db.accounts,
         Less(Outcome(db, q).db.accounts[a].balance, 0)
  PROVE  ~ Less(Outcome(db, q).db.accounts[a].balance, db.accounts[a].balance)
<1>1. db.accounts[a].balance \in Money
  BY DatabaseFields DEF Account
<1> QED BY <1>1, BalanceAfterCall, NotBelowItself, PaymentRaises, EnoughIsLeft

\* A balance that is a number stays one as long as the amounts asked for are numbers, even
\* beside accounts that hold none: a transfer from those does not carry over what they hold.
THEOREM NumbersStayNumbers ==
  ASSUME NEW db, IsDatabase(db), db.nextID \notin DOMAIN db.accounts, NEW q, WellTyped(q),
         "amount" \in DOMAIN q => q.amount \in Int,
         NEW a \in DOMAIN db.accounts \cap DOMAIN Outcome(db, q).db.accounts,
         db.accounts[a].balance \in Int
  PROVE  Outcome(db, q).db.accounts[a].balance \in Int
<1>1. \A x, n \in Int : Plus(x, n) \in Int /\ Negative(n) \in Int
  BY DoubleAssumption DEF Plus, Negative
<1>2. CASE "amount" \in DOMAIN q
  <2>1. q.amount \in Int
    BY <1>2
  <2> DEFINE old == db.accounts[a].balance
             new == Outcome(db, q).db.accounts[a].balance
  <2>2. new \in {old, Plus(old, q.amount), Plus(old, Negative(q.amount))}
    BY BalanceAfterCall
  <2>3. old \in Int
    OBVIOUS
  <2> HIDE DEF old, new
  <2>4. new \in Int
    BY <1>1, <2>1, <2>2, <2>3
  <2> QED BY <2>4 DEF new
<1>3. CASE "amount" \notin DOMAIN q
  BY <1>3, BalanceAfterCall
<1> QED BY <1>2, <1>3

-----------------------------------------------------------------------------
(* Addition, and the total of what the elements of a finite set are worth. *)

\* The total does not depend on the order: also with NaN and the infinities among the
\* summands, addition of doubles (without rounding) commutes and associates.
LEMMA PlusCommutes ==
  ASSUME NEW x \in Money, NEW y \in Money
  PROVE  /\ Plus(x, y) \in Money
         /\ Plus(x, y) = Plus(y, x)
         /\ Plus(x, 0) = x /\ Plus(0, x) = x
  BY DoubleAssumption DEF Plus, Money

LEMMA PlusAssociates ==
  ASSUME NEW x \in Money, NEW y \in Money, NEW z \in Money
  PROVE  Plus(x, Plus(y, z)) = Plus(Plus(x, y), z)
  BY DoubleAssumption DEF Plus, Money

\* What is asked of Moved of a call and its outcome: what it is worth to account a.
Worth(d, q, a) == IF Outcome(d, q).err # None THEN 0 ELSE Moved(q, Outcome(d, q).value, a)

\* A call changes each account by what Moved says it moved: one that stays has that much
\* more, one that is opened starts with it, and nothing is moved to a number that no
\* account has (bank.go: OpenAccount, CloseAccount, Deposit, Withdraw, Transfer).
THEOREM CallMovesWhatItSays ==
  ASSUME NEW d, IsDatabase(d), d.nextID \notin DOMAIN d.accounts, NEW q, WellTyped(q), NEW a
  PROVE  LET out == Outcome(d, q)
         IN /\ Worth(d, q, a) \in Money
            /\ Worth(d, q, a) # 0 =>
                 \/ a \in DOMAIN d.accounts
                 \/ out.err = None /\ q.service = "OpenAccount" /\ a = d.nextID
            /\ a \in DOMAIN out.db.accounts /\ a \in DOMAIN d.accounts =>
                 out.db.accounts[a].balance = Plus(Worth(d, q, a), d.accounts[a].balance)
            /\ a \in DOMAIN out.db.accounts /\ a \notin DOMAIN d.accounts =>
                 a = d.nextID /\ out.db.accounts[a].balance = Worth(d, q, a)
<1> DEFINE out == Outcome(d, q)
           w == Worth(d, q, a)
           Goal == /\ w \in Money
                   /\ w # 0 => \/ a \in DOMAIN d.accounts
                               \/ out.err = None /\ q.service = "OpenAccount" /\ a = d.nextID
                   /\ a \in DOMAIN out.db.accounts /\ a \in DOMAIN d.accounts =>
                        out.db.accounts[a].balance = Plus(w, d.accounts[a].balance)
                   /\ a \in DOMAIN out.db.accounts /\ a \notin DOMAIN d.accounts =>
                        a = d.nextID /\ out.db.accounts[a].balance = w
<1> SUFFICES Goal
  OBVIOUS
<1>0. 0 \in Money /\ \A b \in DOMAIN d.accounts : d.accounts[b].balance \in Money
  BY DatabaseFields DEF Account, Money
<1>1. ASSUME w = 0, DOMAIN out.db.accounts \subseteq DOMAIN d.accounts,
             \A b \in DOMAIN out.db.accounts : out.db.accounts[b].balance = d.accounts[b].balance
      PROVE  Goal
  <2> HIDE DEF w, out
  <2> QED BY <1>0, <1>1, PlusCommutes
<1>2. CASE out.err # None
  <2>1. out.db = d /\ w = 0
    BY <1>2, FailureChangesNothing DEF Worth
  <2> HIDE DEF w, out
  <2> QED BY <1>1, <2>1
<1>3. CASE out.err = None
  <2>1. WellFormed(q) /\ out = CallService(d, q) /\ w = Moved(q, out.value, a)
    BY <1>3 DEF Outcome, Fails, None, Worth
  <2>2. "amount" \in DOMAIN q => q.amount \in Money /\ Negative(q.amount) \in Money
    BY MoneyClosed DEF WellTyped
  <2>3. CASE q.service = "OpenAccount"
    <3>1. "amount" \in DOMAIN q
      BY <2>1, <2>3 DEF WellFormed, RequiredFields
    <3>2. /\ out.value = d.nextID
          /\ DOMAIN out.db.accounts = DOMAIN d.accounts \cup {d.nextID}
          /\ \A b \in DOMAIN out.db.accounts :
               out.db.accounts[b].balance = IF b = d.nextID THEN q.amount ELSE d.accounts[b].balance
      BY <2>1, <2>3 DEF CallService, OpenAccount, Returns, CreateAccount, Put
    <3>3. w = IF d.nextID = a THEN q.amount ELSE 0
      BY <2>1, <2>3, <3>2 DEF Moved
    <3> HIDE DEF w, out
    <3> QED BY <1>0, <1>3, <2>2, <2>3, <3>1, <3>2, <3>3, PlusCommutes
  <2>4. CASE q.service = "CloseAccount"
    <3>1. /\ w = 0 /\ DOMAIN out.db.accounts \subseteq DOMAIN d.accounts
          /\ \A b \in DOMAIN out.db.accounts :
               out.db.accounts[b].balance = d.accounts[b].balance
      BY <1>3, <2>1, <2>4 DEF CallService, CloseAccount, Fails, Returns, DeleteAccount, Restrict, Moved
    <3> HIDE DEF w, out
    <3> QED BY <1>1, <3>1
  <2>5. CASE q.service = "Deposit"
    <3>1. "amount" \in DOMAIN q
      BY <2>1, <2>5 DEF WellFormed, RequiredFields
    <3>2. MovementError(d, q) = None /\ out.db = AddToBalance(d, q.account, q.amount)
      BY <1>3, <2>1, <2>5 DEF CallService, Deposit, Fails, Returns, None
    <3>3. q.account \in DOMAIN d.accounts
      BY <3>2, MovementFindsAccount
    <3>4. /\ DOMAIN out.db.accounts = DOMAIN d.accounts
          /\ \A b \in DOMAIN d.accounts :
               out.db.accounts[b].balance =
                 IF q.account = b THEN Plus(d.accounts[b].balance, q.amount)
                 ELSE d.accounts[b].balance
      BY <2>2, <3>1, <3>2, <3>3, AddTyped
    <3>5. w = IF q.account = a THEN q.amount ELSE 0
      BY <2>1, <2>5 DEF Moved
    <3> HIDE DEF w, out
    <3> QED BY <1>0, <2>2, <3>1, <3>3, <3>4, <3>5, PlusCommutes
  <2>6. CASE q.service = "Withdraw"
    <3>1. "amount" \in DOMAIN q
      BY <2>1, <2>6 DEF WellFormed, RequiredFields
    <3>2. WithdrawError(d, q) = None /\ out.db = AddToBalance(d, q.account, Negative(q.amount))
      BY <1>3, <2>1, <2>6 DEF CallService, Withdraw, Fails, Returns, None
    <3>3. q.account \in DOMAIN d.accounts
      BY <3>2, MovementFindsAccount DEF WithdrawError, None
    <3>4. /\ DOMAIN out.db.accounts = DOMAIN d.accounts
          /\ \A b \in DOMAIN d.accounts :
               out.db.accounts[b].balance =
                 IF q.account = b THEN Plus(d.accounts[b].balance, Negative(q.amount))
                 ELSE d.accounts[b].balance
      BY <2>2, <3>1, <3>2, <3>3, AddTyped
    <3>5. w = IF q.account = a THEN Negative(q.amount) ELSE 0
      BY <2>1, <2>6 DEF Moved
    <3> HIDE DEF w, out
    <3> QED BY <1>0, <2>2, <3>1, <3>3, <3>4, <3>5, PlusCommutes
  <2>7. CASE q.service = "TransferFunds"
    <3>1. "amount" \in DOMAIN q
      BY <2>1, <2>7 DEF WellFormed, RequiredFields
    <3>2. TransferError(d, q) = None /\ out.db = Transfer(d, q).db
      BY <1>3, <2>1, <2>7 DEF CallService, Transfer, Fails, None
    <3>3. q.account \in DOMAIN d.accounts /\ q.toAccount \in DOMAIN d.accounts /\ q.account # q.toAccount
      BY <3>2, TransferFindsAccounts
    <3>4. /\ DOMAIN out.db.accounts = DOMAIN d.accounts
          /\ out.db.accounts[q.account].balance =
               Plus(d.accounts[q.account].balance, Negative(q.amount))
          /\ out.db.accounts[q.toAccount].balance =
               Plus(d.accounts[q.toAccount].balance, q.amount)
          /\ \A b \in DOMAIN d.accounts \ {q.account, q.toAccount} :
               out.db.accounts[b].balance = d.accounts[b].balance
      BY <2>1, <2>7, <3>2, TransferMovesMoney
    <3>5. w = IF q.toAccount = a THEN q.amount
              ELSE IF q.account = a THEN Negative(q.amount) ELSE 0
      BY <2>1, <2>7 DEF Moved
    <3> HIDE DEF w, out
    <3> QED BY <1>0, <2>2, <3>1, <3>3, <3>4, <3>5, PlusCommutes
  <2>8. CASE q.service \in {"Monitor", "GetBalance"}
    <3>1. out.db = d /\ w = 0
      BY <2>1, <2>8 DEF CallService, CheckBalance, Fails, Returns, Moved
    <3> HIDE DEF w, out
    <3> QED BY <1>1, <3>1
  <2> QED
    BY <2>1, <2>3, <2>4, <2>5, <2>6, <2>7, <2>8 DEF WellFormed, Services, RequiredFields
<1> QED BY <1>2, <1>3

\* f holds the totals of the parts of S on top of base.
Totals(f, S, base, g) ==
  f = [T \in SUBSET S |->
         IF T = {} THEN base
         ELSE Plus(g[CHOOSE x \in T : TRUE], f[T \ {CHOOSE x \in T : TRUE}])]

Total(S, base, g) == (CHOOSE f : Totals(f, S, base, g))[S]

LEMMA FoldIsTotal ==
  ASSUME NEW base, NEW g
  PROVE  FoldFunction(Plus, base, g) = Total(DOMAIN g, base, g)
  BY DEF FoldFunction, FoldFunctionOnSet, MapThenFoldSet, Total, Totals

LEMMA TotalsExist ==
  ASSUME NEW S, IsFiniteSet(S), NEW base \in Money, NEW g, \A x \in S : g[x] \in Money
  PROVE  \E f \in [SUBSET S -> Money] : Totals(f, S, base, g)
<1> DEFINE choose == [T \in SUBSET S |-> CHOOSE x \in T : TRUE]
           op == [p \in S \X Money |-> Plus(g[p[1]], p[2])]
<1>1. \A T \in SUBSET S : T # {} => choose[T] \in T
  OBVIOUS
<1>2. \A x \in S : \A v \in Money : op[<<x, v>>] = Plus(g[x], v) /\ op[<<x, v>>] \in Money
  BY PlusCommutes
<1>3. PICK f \in [SUBSET S -> Money] : SetRecursion(f, S, base, choose, op)
  <2> HIDE DEF choose, op
  <2> QED BY <1>1, <1>2, RecursionOverSet
<1>4. ASSUME NEW T \in SUBSET S
      PROVE  f[T] = IF T = {} THEN base
                    ELSE Plus(g[CHOOSE x \in T : TRUE], f[T \ {CHOOSE x \in T : TRUE}])
  <2>1. f[T] = IF T = {} THEN base ELSE op[<<choose[T], f[T \ {choose[T]}]>>]
    BY <1>3 DEF SetRecursion
  <2>2. T # {} => op[<<choose[T], f[T \ {choose[T]}]>>] = Plus(g[choose[T]], f[T \ {choose[T]}])
    <3> HIDE DEF choose, op
    <3> QED BY <1>1, <1>2
  <2> QED BY <2>1, <2>2
<1>5. Totals(f, S, base, g)
  BY <1>4 DEF Totals
<1> QED BY <1>5

LEMMA TotalsAgree ==
  ASSUME NEW T, IsFiniteSet(T), NEW base, NEW g,
         NEW R, NEW e, T \subseteq R, Totals(e, R, base, g),
         NEW S, NEW f, T \subseteq S, Totals(f, S, base, g)
  PROVE  e[T] = f[T]
<1> DEFINE P == {U \in SUBSET T : e[U] = f[U]}
<1>1. ASSUME NEW U \in SUBSET T, \A V \in SUBSET U : V # U => V \in P
      PROVE  U \in P
  <2> DEFINE x == CHOOSE y \in U : TRUE
  <2>1. /\ e[U] = IF U = {} THEN base ELSE Plus(g[x], e[U \ {x}])
        /\ f[U] = IF U = {} THEN base ELSE Plus(g[x], f[U \ {x}])
    BY DEF Totals
  <2>2. CASE U = {}
    BY <2>1, <2>2
  <2>3. CASE U # {}
    <3>1. x \in U
      BY <2>3
    <3>2. U \ {x} \in P
      <4> HIDE DEF x, P
      <4> QED BY <1>1, <3>1
    <3> QED BY <2>1, <2>3, <3>2
  <2> QED BY <2>2, <2>3
<1>2. SUBSET T \subseteq P
  <2> HIDE DEF P
  <2> QED BY <1>1, PartInduction
<1> QED BY <1>2

\* Any function that holds the totals of the parts holds the total of the set.
LEMMA TotalIs ==
  ASSUME NEW S, IsFiniteSet(S), NEW base, NEW g, NEW f, Totals(f, S, base, g)
  PROVE  Total(S, base, g) = f[S]
<1> DEFINE e == CHOOSE e : Totals(e, S, base, g)
<1>1. Totals(e, S, base, g)
  <2> QED BY Zenon
<1> HIDE DEF e
<1>2. e[S] = f[S]
  BY <1>1, TotalsAgree
<1> QED BY <1>2 DEF Total, e

LEMMA TotalTyped ==
  ASSUME NEW S, IsFiniteSet(S), NEW base \in Money, NEW g, \A x \in S : g[x] \in Money
  PROVE  Total(S, base, g) \in Money
<1>1. PICK f \in [SUBSET S -> Money] : Totals(f, S, base, g)
  BY TotalsExist
<1> QED BY <1>1, TotalIs

LEMMA TotalOfNone == ASSUME NEW base \in Money, NEW g PROVE Total({}, base, g) = base
<1>1. IsFiniteSet({})
  BY FS_EmptySet
<1>2. PICK f \in [SUBSET {} -> Money] : Totals(f, {}, base, g)
  BY <1>1, TotalsExist
<1>3. f[{}] = base
  BY <1>2 DEF Totals
<1> QED BY <1>1, <1>2, <1>3, TotalIs

\* Any element can be taken out first.
LEMMA TotalPicks ==
  ASSUME NEW S, IsFiniteSet(S), NEW base \in Money, NEW g, \A x \in S : g[x] \in Money,
         NEW x \in S
  PROVE  Total(S, base, g) = Plus(g[x], Total(S \ {x}, base, g))
<1>1. PICK f \in [SUBSET S -> Money] : Totals(f, S, base, g)
  BY TotalsExist
<1>2. ASSUME NEW T \in SUBSET S PROVE Total(T, base, g) = f[T]
  <2>1. IsFiniteSet(T) /\ \A y \in T : g[y] \in Money
    BY FS_Subset
  <2>2. PICK e \in [SUBSET T -> Money] : Totals(e, T, base, g)
    BY <2>1, TotalsExist
  <2>3. e[T] = f[T]
    BY <1>1, <2>1, <2>2, TotalsAgree
  <2> QED BY <2>1, <2>2, <2>3, TotalIs
<1> DEFINE P == {T \in SUBSET S : \A y \in T : f[T] = Plus(g[y], f[T \ {y}])}
<1>3. ASSUME NEW T \in SUBSET S, \A U \in SUBSET T : U # T => U \in P
      PROVE  T \in P
  <2> DEFINE c == CHOOSE y \in T : TRUE
  <2>1. ASSUME NEW y \in T PROVE f[T] = Plus(g[y], f[T \ {y}])
    <3>1. c \in T /\ f[T] = Plus(g[c], f[T \ {c}])
      BY <1>1 DEF Totals
    <3> HIDE DEF c
    <3>2. CASE y = c
      BY <3>1, <3>2
    <3>3. CASE y # c
      <4>1. T \ {c} \in P /\ T \ {y} \in P
        BY <1>3, <3>1
      <4>2. f[T \ {c}] = Plus(g[y], f[(T \ {c}) \ {y}])
        BY <3>3, <4>1
      <4>3. f[T \ {y}] = Plus(g[c], f[(T \ {y}) \ {c}])
        BY <3>1, <3>3, <4>1
      <4>4. (T \ {c}) \ {y} = (T \ {y}) \ {c} /\ (T \ {y}) \ {c} \in SUBSET S
        OBVIOUS
      <4> PICK rest : rest = f[(T \ {y}) \ {c}]
        OBVIOUS
      <4>5. rest \in Money /\ g[c] \in Money /\ g[y] \in Money
        BY <3>1, <4>4
      <4>6. f[T] = Plus(g[c], Plus(g[y], rest)) /\ f[T \ {y}] = Plus(g[c], rest)
        BY <3>1, <4>2, <4>3, <4>4
      <4>7. Plus(g[c], Plus(g[y], rest)) = Plus(g[y], Plus(g[c], rest))
        <5>1. Plus(g[c], Plus(g[y], rest)) = Plus(Plus(g[c], g[y]), rest)
          BY <4>5, PlusAssociates
        <5>2. Plus(g[y], Plus(g[c], rest)) = Plus(Plus(g[y], g[c]), rest)
          BY <4>5, PlusAssociates
        <5>3. Plus(g[c], g[y]) = Plus(g[y], g[c])
          BY <4>5, PlusCommutes
        <5> QED BY <5>1, <5>2, <5>3
      <4> QED BY <4>6, <4>7
    <3> QED BY <3>2, <3>3
  <2> QED BY <2>1
<1>4. SUBSET S \subseteq P
  <2> HIDE DEF P
  <2> QED BY <1>3, PartInduction
<1>5. f[S] = Plus(g[x], f[S \ {x}])
  BY <1>4
<1> QED BY <1>2, <1>5

\* Elements are worth the same: so are the sets.
LEMMA TotalSame ==
  ASSUME NEW S, IsFiniteSet(S), NEW base \in Money, NEW g, NEW h,
         \A x \in S : g[x] \in Money /\ g[x] = h[x]
  PROVE  Total(S, base, g) = Total(S, base, h)
<1>1. PICK f \in [SUBSET S -> Money] : Totals(f, S, base, g)
  BY TotalsExist
<1>2. Totals(f, S, base, h)
  <2>1. ASSUME NEW T \in SUBSET S, T # {}
        PROVE  g[CHOOSE x \in T : TRUE] = h[CHOOSE x \in T : TRUE]
    <3>1. (CHOOSE x \in T : TRUE) \in T
      BY <2>1
    <3> QED BY <3>1
  <2>2. [T \in SUBSET S |->
           IF T = {} THEN base
           ELSE Plus(g[CHOOSE x \in T : TRUE], f[T \ {CHOOSE x \in T : TRUE}])] =
        [T \in SUBSET S |->
           IF T = {} THEN base
           ELSE Plus(h[CHOOSE x \in T : TRUE], f[T \ {CHOOSE x \in T : TRUE}])]
    BY <2>1
  <2> QED BY <1>1, <2>2 DEF Totals
<1> QED BY <1>1, <1>2, TotalIs

\* An element that is added counts once.
LEMMA TotalAdds ==
  ASSUME NEW S, IsFiniteSet(S), NEW x, x \notin S, NEW base \in Money, NEW g,
         \A y \in S \cup {x} : g[y] \in Money
  PROVE  Total(S \cup {x}, base, g) = Plus(g[x], Total(S, base, g))
<1>1. IsFiniteSet(S \cup {x}) /\ (S \cup {x}) \ {x} = S /\ x \in S \cup {x}
  BY FS_AddElement
<1> QED BY <1>1, TotalPicks

\* An element is added, and the others are worth what they were.
LEMMA TotalGrows ==
  ASSUME NEW S, IsFiniteSet(S), NEW x, x \notin S, NEW base \in Money, NEW g, NEW h,
         g[x] \in Money, \A y \in S : g[y] \in Money /\ g[y] = h[y]
  PROVE  Total(S \cup {x}, base, g) = Plus(g[x], Total(S, base, h))
<1>1. \A y \in S \cup {x} : g[y] \in Money
  OBVIOUS
<1>2. Total(S \cup {x}, base, g) = Plus(g[x], Total(S, base, g))
  BY <1>1, TotalAdds
<1>3. Total(S, base, g) = Total(S, base, h)
  BY TotalSame
<1> QED BY <1>2, <1>3

\* When the worth of one element changes, so does the total.
LEMMA TotalChanges ==
  ASSUME NEW S, IsFiniteSet(S), NEW base \in Money, NEW g, NEW h, NEW x \in S, NEW d \in Money,
         \A y \in S : g[y] \in Money, h[x] = Plus(d, g[x]), \A y \in S \ {x} : h[y] = g[y]
  PROVE  Total(S, base, h) = Plus(d, Total(S, base, g))
<1> PICK rest : rest = Total(S \ {x}, base, g)
  OBVIOUS
<1>1. IsFiniteSet(S \ {x}) /\ g[x] \in Money
  BY FS_Subset
<1>2. h[x] \in Money
  BY <1>1, PlusCommutes
<1>3. \A y \in S : h[y] \in Money
  BY <1>2
<1>4. Total(S \ {x}, base, h) = rest /\ rest \in Money
  BY <1>1, TotalSame, TotalTyped
<1>5. Total(S, base, h) = Plus(h[x], rest)
  BY <1>3, <1>4, TotalPicks
<1>6. Total(S, base, g) = Plus(g[x], rest)
  BY TotalPicks
<1>7. Plus(Plus(d, g[x]), rest) = Plus(d, Plus(g[x], rest))
  BY <1>1, <1>4, PlusAssociates
<1> QED BY <1>5, <1>6, <1>7

\* Elements that are worth nothing do not count.
LEMMA TotalOfWorthless ==
  ASSUME NEW S, IsFiniteSet(S), NEW base \in Money, NEW g, \A x \in S : g[x] = 0
  PROVE  Total(S, base, g) = base
<1> DEFINE P == {T \in SUBSET S : Total(T, base, g) = base}
<1>0. \A x \in S : g[x] \in Money
  BY DEF Money
<1>1. {} \in P
  BY TotalOfNone
<1>2. ASSUME NEW T \in SUBSET S, NEW x \in S \ T, T \in P PROVE T \cup {x} \in P
  <2>1. IsFiniteSet(T) /\ \A y \in T \cup {x} : g[y] \in Money
    BY <1>0, FS_Subset
  <2>2. Total(T \cup {x}, base, g) = Plus(g[x], Total(T, base, g))
    BY <2>1, TotalAdds
  <2>3. Plus(0, base) = base
    BY PlusCommutes
  <2> QED BY <1>2, <2>2, <2>3
<1>3. S \in P
  <2> HIDE DEF P
  <2> QED BY <1>1, <1>2, SetInduction
<1> QED BY <1>3
=============================================================================
