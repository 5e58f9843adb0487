-------------------------------- MODULE Bank --------------------------------
(***************************************************************************)
(* The account store (server/internal/store/memory.go) and the banking     *)
(* service on top of it (server/internal/banking/bank.go), as operators    *)
(* on a database                                                           *)
(*                                                                         *)
(*     [accounts : partial function from account numbers to accounts,      *)
(*      nextID   : the number the next account gets].                      *)
(*                                                                         *)
(* A service operator takes the database and the request q (a record of    *)
(* the fields the request carries) and returns [db, err, value]: the       *)
(* database afterwards, the error the Go function returns ("None" when     *)
(* nil) and its result.  The order of the checks is the order of the       *)
(* code, because it decides which error a client sees.                     *)
(*                                                                         *)
(* These are the operations run one at a time, as the single-threaded      *)
(* server loop runs them: GetAccount, the account mutex and UpdateAccount  *)
(* of one call see the same store.  AccountLocks models the same           *)
(* operations step by step, called from several goroutines.                *)
(*                                                                         *)
(* Money is a double: a number of cents, or one of the values that are no  *)
(* number and that stod, the wire and the checks of the bank let pass.     *)
(* Rounding is left out.                                                   *)
(*                                                                         *)
(* Here and in the modules above this one, a definition marked "Faulty" is *)
(* the mistake the definition after it avoids.  Nothing uses it; putting   *)
(* it in the place of that definition shows which property notices.        *)
(***************************************************************************)
EXTENDS Integers, Functions

CONSTANTS
  UintSize,    \* number of values of a uint32: 2^32 in the program
  FirstID,     \* the first account number: 10000 in the program
  Names, Passwords, Currencies,
  NaN, Inf, NegInf   \* the doubles "not a number", infinity and minus infinity

ASSUME UintAssumption == UintSize \in Nat /\ FirstID \in Nat /\ FirstID < UintSize

ASSUME DoubleAssumption ==
  /\ NaN \notin Int /\ Inf \notin Int /\ NegInf \notin Int
  /\ NaN # Inf /\ NaN # NegInf /\ Inf # NegInf

Uint32 == 0 .. UintSize - 1

Money == Int \cup {NaN, Inf, NegInf}

Account == [name : Names, password : Passwords, currency : Currencies, balance : Money]

\* The store is a record, its accounts a partial function.
IsDatabase(db) ==
  /\ db \in [accounts : {db.accounts}, nextID : Uint32]
  /\ DOMAIN db.accounts \subseteq Uint32
  /\ db.accounts \in [DOMAIN db.accounts -> Account]

EmptyDatabase == [accounts |-> [a \in {} |-> 0], nextID |-> FirstID]

-----------------------------------------------------------------------------
(* Arithmetic and comparison of doubles. *)

\* A comparison with NaN is false.
Less(x, y) ==
  /\ x # NaN /\ y # NaN
  /\ \/ x = NegInf /\ y # NegInf
     \/ y = Inf /\ x # Inf
     \/ x \in Int /\ y \in Int /\ x < y

AtMost(x, y) == Less(x, y) \/ (x # NaN /\ x = y)

\* NaN stays NaN, and so becomes an infinity less itself.
Plus(x, y) ==
  IF x = NaN \/ y = NaN THEN NaN
  ELSE IF (x = Inf /\ y = NegInf) \/ (x = NegInf /\ y = Inf) THEN NaN
  ELSE IF x \notin Int THEN x
  ELSE IF y \notin Int THEN y
  ELSE x + y

Negative(x) ==
  CASE x = Inf -> NegInf [] x = NegInf -> Inf [] x = NaN -> NaN [] OTHER -> -x

-----------------------------------------------------------------------------
(* The store. *)

\* UpdateAccount on an account that is present, or the insertion of CreateAccount.
Put(accounts, a, acc) ==
  [b \in DOMAIN accounts \cup {a} |-> IF b = a THEN acc ELSE accounts[b]]

CreateAccount(db, acc) ==
  [accounts |-> Put(db.accounts, db.nextID, acc), nextID |-> (db.nextID + 1) % UintSize]

\* Faulty: the number of a closed account is given out again.
DeleteAndReuse(db, a) == [accounts |-> Restrict(db.accounts, DOMAIN db.accounts \ {a}), nextID |-> a]

DeleteAccount(db, a) == [db EXCEPT !.accounts = Restrict(@, DOMAIN @ \ {a})]

AddToBalance(db, a, amount) == [db EXCEPT !.accounts[a].balance = Plus(@, amount)]

-----------------------------------------------------------------------------
(* The service. *)

None == "None"

\* The error of the lookup that opens every call on account q.account, then of checkAuth.
AuthError(db, q) ==
  IF q.account \notin DOMAIN db.accounts THEN "ErrInvalidCredentials"
  ELSE IF db.accounts[q.account].password # q.password THEN "ErrInvalidCredentials"
  ELSE IF db.accounts[q.account].name # q.name THEN "ErrAccountMismatch"
  ELSE None

Fails(db, err) == [db |-> db, err |-> err, value |-> 0]
Returns(db, value) == [db |-> db, err |-> None, value |-> value]

\* OpenAccount validates nothing: a negative opening balance is stored as given.
OpenAccount(db, q) ==
  Returns(CreateAccount(db, [name |-> q.name, password |-> q.password,
                             currency |-> q.currency, balance |-> q.amount]),
          db.nextID)

CloseAccount(db, q) ==
  IF AuthError(db, q) # None THEN Fails(db, AuthError(db, q))
  ELSE Returns(DeleteAccount(db, q.account), 0)

\* What Deposit and Withdraw check before the balance: the amount, the account, the currency.
MovementError(db, q) ==
  IF AtMost(q.amount, 0) THEN "ErrNonPositiveAmount"
  ELSE IF AuthError(db, q) # None THEN AuthError(db, q)
  ELSE IF db.accounts[q.account].currency # q.currency THEN "ErrCurrencyMismatch"
  ELSE None

Deposit(db, q) ==
  IF MovementError(db, q) # None THEN Fails(db, MovementError(db, q))
  ELSE Returns(AddToBalance(db, q.account, q.amount),
               Plus(db.accounts[q.account].balance, q.amount))

\* Faulty: the funds are not checked.
WithdrawErrorNoFunds(db, q) == MovementError(db, q)

WithdrawError(db, q) ==
  IF MovementError(db, q) # None THEN MovementError(db, q)
  ELSE IF Less(db.accounts[q.account].balance, q.amount) THEN "ErrInsufficientFunds"
  ELSE None

Withdraw(db, q) ==
  IF WithdrawError(db, q) # None THEN Fails(db, WithdrawError(db, q))
  ELSE Returns(AddToBalance(db, q.account, Negative(q.amount)),
               Plus(db.accounts[q.account].balance, Negative(q.amount)))

CheckBalance(db, q) ==
  IF AuthError(db, q) # None THEN Fails(db, AuthError(db, q))
  ELSE Returns(db, db.accounts[q.account].balance)

\* Both lookups come before the credentials are checked.
TransferError(db, q) ==
  IF AtMost(q.amount, 0) THEN "ErrNonPositiveAmount"
  ELSE IF q.account = q.toAccount THEN "ErrTransferSameAccount"
  ELSE IF q.account \notin DOMAIN db.accounts THEN "ErrInvalidCredentials"
  ELSE IF q.toAccount \notin DOMAIN db.accounts THEN "ErrAccountNotFound"
  ELSE IF AuthError(db, q) # None THEN AuthError(db, q)
  ELSE IF \/ db.accounts[q.account].currency # q.currency
          \/ db.accounts[q.account].currency # db.accounts[q.toAccount].currency
       THEN "ErrCurrencyMismatch"
  ELSE IF Less(db.accounts[q.account].balance, q.amount) THEN "ErrInsufficientFunds"
  ELSE None

\* Faulty: the payee gets what the payer keeps.
TransferWithoutDebit(db, q) ==
  IF TransferError(db, q) # None THEN Fails(db, TransferError(db, q))
  ELSE Returns(AddToBalance(db, q.toAccount, q.amount), Plus(db.accounts[q.account].balance, Negative(q.amount)))

Transfer(db, q) ==
  IF TransferError(db, q) # None THEN Fails(db, TransferError(db, q))
  ELSE Returns(AddToBalance(AddToBalance(db, q.account, Negative(q.amount)), q.toAccount, q.amount),
               Plus(db.accounts[q.account].balance, Negative(q.amount)))
=============================================================================
