------------------------------ MODULE Handler -------------------------------
(***************************************************************************)
(* The request handler (server/internal/handler/handler.go): it checks     *)
(* that a request carries the fields its service needs, calls the banking  *)
(* service, maps its error to a wire status and says which account updates *)
(* go to the monitoring clients and in which order.                        *)
(*                                                                         *)
(* A request is a record whose DOMAIN is the set of TLV fields present in  *)
(* the datagram.  A payload that does not decode is the record without a   *)
(* service field, which gets the same reply.                               *)
(***************************************************************************)
EXTENDS Bank, Sequences

RequiredFields ==
  [OpenAccount   |-> {"name", "password", "currency", "amount"},
   CloseAccount  |-> {"name", "account", "password"},
   Deposit       |-> {"name", "account", "password", "currency", "amount"},
   Withdraw      |-> {"name", "account", "password", "currency", "amount"},
   Monitor       |-> {"interval"},
   GetBalance    |-> {"name", "account", "password"},
   TransferFunds |-> {"name", "account", "password", "toAccount", "toName", "currency", "amount"}]

Services == DOMAIN RequiredFields

WellFormed(q) ==
  /\ "service" \in DOMAIN q
  /\ q.service \in Services
  /\ RequiredFields[q.service] \subseteq DOMAIN q

\* The fields that are present hold values of their types.
WellTyped(q) ==
  /\ "name" \in DOMAIN q => q.name \in Names
  /\ "password" \in DOMAIN q => q.password \in Passwords
  /\ "currency" \in DOMAIN q => q.currency \in Currencies
  /\ "amount" \in DOMAIN q => q.amount \in Money
  /\ "account" \in DOMAIN q => q.account \in Uint32
  /\ "toAccount" \in DOMAIN q => q.toAccount \in Uint32
  /\ "toName" \in DOMAIN q => q.toName \in Names

Success == "SUCCESS"

\* store.ErrAccountNotFound and banking.ErrNonPositiveAmount fall to the default.
MapBankingError(err) ==
  CASE err = None -> Success
    [] err = "ErrInvalidCredentials" -> "INVALID_CREDENTIALS"
    [] err = "ErrAccountMismatch" -> "ACCOUNT_MISMATCH"
    [] err = "ErrCurrencyMismatch" -> "CURRENCY_MISMATCH"
    [] err = "ErrInsufficientFunds" -> "INSUFFICIENT_FUNDS"
    [] err = "ErrTransferSameAccount" -> "SAME_ACCOUNT"
    [] err = "ErrAccountNotFound" -> "ACCOUNT_NOT_FOUND"
    [] OTHER -> "INTERNAL_ERROR"

Statuses ==
  {Success, "INVALID_CREDENTIALS", "ACCOUNT_MISMATCH", "CURRENCY_MISMATCH",
   "INSUFFICIENT_FUNDS", "SAME_ACCOUNT", "ACCOUNT_NOT_FOUND", "INTERNAL_ERROR"}

\* What the banking service returns for a well-formed request; Monitor does not call it.
CallService(db, q) ==
  CASE q.service = "OpenAccount" -> OpenAccount(db, q)
    [] q.service = "CloseAccount" -> CloseAccount(db, q)
    [] q.service = "Deposit" -> Deposit(db, q)
    [] q.service = "Withdraw" -> Withdraw(db, q)
    [] q.service = "GetBalance" -> CheckBalance(db, q)
    [] q.service = "TransferFunds" -> Transfer(db, q)
    [] OTHER -> Returns(db, 0)

\* The outcome of a request: the database, the error and the reply's number.
Outcome(db, q) == IF WellFormed(q) THEN CallService(db, q) ELSE Fails(db, "ErrMalformed")

AccountUpdate(q, a, name, currency, balance) ==
  [service |-> q.service, account |-> a, name |-> name, currency |-> currency, balance |-> balance]

\* The currency of an update whose handler does not know it.
NoCurrency == 0

\* Faulty: a withdrawal notifies whether or not it was refused.
UpdatesOfRefused(q, out) ==
  IF "service" \in DOMAIN q /\ q.service = "Withdraw"
  THEN <<AccountUpdate(q, q.account, q.name, q.currency, out.value)>> ELSE <<>>

\* The updates a successful call passes to NotifyAll, in order; out is its outcome.
UpdatesOf(q, out) ==
  IF out.err # None THEN <<>>
  ELSE CASE q.service = "OpenAccount" ->
              <<AccountUpdate(q, out.value, q.name, q.currency, q.amount)>>
         [] q.service = "CloseAccount" ->
              <<AccountUpdate(q, q.account, q.name, NoCurrency, 0)>>
         [] q.service \in {"Deposit", "Withdraw"} ->
              <<AccountUpdate(q, q.account, q.name, q.currency, out.value)>>
         [] q.service = "TransferFunds" ->
              <<AccountUpdate(q, q.account, q.name, NoCurrency, out.value),
                AccountUpdate(q, q.toAccount, q.toName, NoCurrency,
                              out.db.accounts[q.toAccount].balance)>>
         [] OTHER -> <<>>

Updates == [service : Services, account : Uint32, name : Names,
            currency : Currencies \cup {NoCurrency}, balance : Money]

Answers == [status : Statuses, value : Money]
Answer(out) == [status |-> MapBankingError(out.err), value |-> out.value]

Registers(q) == WellFormed(q) /\ q.service = "Monitor"

\* What a call q that succeeds with this value adds to the balance of account a.
Moved(q, value, a) ==
  CASE q.service = "OpenAccount" -> IF value = a THEN q.amount ELSE 0
    [] q.service = "Deposit" -> IF q.account = a THEN q.amount ELSE 0
    [] q.service = "Withdraw" -> IF q.account = a THEN Negative(q.amount) ELSE 0
    [] q.service = "TransferFunds" ->
         IF q.toAccount = a THEN q.amount ELSE IF q.account = a THEN Negative(q.amount) ELSE 0
    [] OTHER -> 0
=============================================================================
