------------------------- MODULE Linearizable_proofs -------------------------
(***************************************************************************)
(* AccountLocks implements AtomicBank where no account is closed and all   *)
(* amounts are numbers: for any number of threads, accounts and calls,     *)
(* each call has the effect and the result of the sequential operator of   *)
(* Bank at one moment of its run.                                          *)
(*                                                                         *)
(* That moment is the step that creates the account, the one that decides  *)
(* an error or reads the balance asked for, or the one that writes the     *)
(* last balance.  Between the two writes of a transfer its amount counts   *)
(* as being with the payer still (InTransit).                              *)
(***************************************************************************)
EXTENDS AccountLocks_proofs

NoCloses == \A t \in Threads : \A q \in Jobs[t] : q.service # "CloseAccount"

AmountsAreNumbers ==
  /\ \A a \in DOMAIN InitialAccounts : InitialAccounts[a].balance \in Int
  /\ \A t \in Threads : \A q \in Jobs[t] : "amount" \in DOMAIN q => q.amount \in Int

-----------------------------------------------------------------------------
(* The invariant. *)

BalancesAreNumbers == \A a \in DOMAIN object : object[a].balance \in Int

\* A call has a result from its decision to its end.
DecidedOK(t) ==
  /\ pc[t] = "Idle" => job[t] = NoJob
  /\ pc[t] \in {"Unlock", "Return"} => result[t] # Undecided
  /\ pc[t] \notin {"Unlock", "Return"} => result[t] = Undecided

CurrenciesAgree(q) ==
  object[q.account].currency = q.currency
  /\ (q.service = "TransferFunds" => object[q.account].currency = object[q.toAccount].currency)

\* What the checks of a call have found is still so.
CheckedOK(t) ==
  /\ pc[t] \in {"Lock", "Check", "Load", "Write", "Update"} =>
       /\ AuthError([accounts |-> object], job[t]) = None
       /\ job[t].service = "TransferFunds" => CurrenciesAgree(job[t])
  /\ pc[t] \in {"Load", "Write", "Update"} => CurrenciesAgree(job[t])

\* Between a check of funds and the last write, a balance is what the call made of it.
MovementOK(t) ==
  /\ pc[t] = "Write" => loaded[t] = object[Moves(job[t])[step[t]].account].balance
  /\ pc[t] \in {"Load", "Write"} /\ Pays(t) => job[t].amount <= object[job[t].account].balance
  /\ pc[t] \in {"Load", "Write"} /\ step[t] = 2 => 0 <= object[job[t].account].balance

AtomicInv ==
  /\ LocksInv
  /\ stored = DOMAIN object
  /\ BalancesAreNumbers
  /\ \A t \in Threads : DecidedOK(t) /\ CheckedOK(t) /\ MovementOK(t)

-----------------------------------------------------------------------------
(* Numbers, and what a step does to the accounts. *)

\* Where all is numbers, money is the integers.
LEMMA Numbers ==
  ASSUME NEW x \in Int, NEW n \in Int
  PROVE  /\ Plus(x, n) = x + n /\ Negative(n) = -n
         /\ Less(x, n) <=> x < n
         /\ AtMost(x, n) <=> x <= n
  BY DoubleAssumption DEF Plus, Negative, Less, AtMost

LEMMA AmountIsNumber ==
  ASSUME AmountsAreNumbers, NEW t \in Threads, NEW q \in Jobs[t],
         q.service \in Movements \cup {"OpenAccount"}
  PROVE  q.amount \in Int
<1>1. WellFormed(q)
  BY JobsAssumption
<1>2. "amount" \in DOMAIN q
  BY <1>1 DEF WellFormed, RequiredFields, Movements
<1> QED BY <1>2 DEF AmountsAreNumbers

\* A thread that writes is in a call that moves an amount above 0 on its own accounts.
LEMMA Movement ==
  ASSUME AmountsAreNumbers, LocksInv, NEW t \in Threads, pc[t] \in {"Load", "Write", "Update"}
  PROVE  /\ job[t] \in Jobs[t] /\ job[t].service \in Movements /\ step[t] \in {1, 2}
         /\ step[t] = 2 => job[t].service = "TransferFunds"
         /\ job[t].service = "TransferFunds" => job[t].account # job[t].toAccount
         /\ job[t].amount \in Int /\ job[t].amount > 0
         /\ Accounts(job[t]) \subseteq DOMAIN object
         /\ Moves(job[t])[step[t]].account = IF step[t] = 1 THEN job[t].account ELSE job[t].toAccount
         /\ Moves(job[t])[step[t]].account \in Accounts(job[t])
         /\ Moves(job[t])[step[t]].amount = IF Pays(t) THEN -job[t].amount ELSE job[t].amount
<1>1. /\ job[t] \in Jobs[t] /\ job[t].service \in Movements /\ step[t] \in {1, 2}
      /\ step[t] = 2 => job[t].service = "TransferFunds"
  BY DEF LocksInv, FunctionsOK, CallOK
<1>2. Accounts(job[t]) \subseteq DOMAIN object /\ ArgumentError(job[t]) = None
  <2>1. CallOK(t)
    BY DEF LocksInv
  <2> QED BY <2>1 DEF CallOK, Critical
<1>3. job[t].amount \in Int
  BY <1>1, AmountIsNumber
<1>4. job[t].amount > 0 /\ (job[t].service = "TransferFunds" => job[t].account # job[t].toAccount)
  BY <1>1, <1>2, <1>3, Numbers, ArgumentFacts
<1>5. CASE step[t] = 1
  <2>1. /\ Moves(job[t])[step[t]].account = job[t].account
        /\ Moves(job[t])[step[t]].amount =
             IF job[t].service = "Deposit" THEN job[t].amount ELSE Negative(job[t].amount)
    BY <1>1, <1>5, MoveFacts
  <2>2. Negative(job[t].amount) = -job[t].amount
    BY <1>3, Numbers
  <2>3. Pays(t) <=> job[t].service # "Deposit"
    BY <1>1, <1>5 DEF Pays, Movements
  <2>4. job[t].account \in Accounts(job[t])
    BY DEF Accounts
  <2> QED BY <1>1, <1>2, <1>3, <1>4, <1>5, <2>1, <2>2, <2>3, <2>4
<1>6. CASE step[t] = 2
  BY <1>1, <1>2, <1>3, <1>4, <1>6, MoveFacts, Numbers DEF Pays, Accounts
<1>7. step[t] = 1 \/ step[t] = 2
  BY <1>1
<1> QED BY <1>5, <1>6, <1>7

\* A write adds its amount to the balance as it is.
LEMMA WriteAdds ==
  ASSUME AmountsAreNumbers, AtomicInv, NEW t \in Threads, Write(t)
  PROVE  LET move == Moves(job[t])[step[t]]
         IN /\ object' = [object EXCEPT ![move.account].balance = @ + move.amount]
            /\ stored' = stored /\ nextID' = nextID
            /\ move.amount \in Int /\ move.account \in Accounts(job[t])
            /\ Accounts(job[t]) \subseteq DOMAIN object
<1> DEFINE move == Moves(job[t])[step[t]]
<1>1. /\ pc[t] = "Write" /\ stored' = stored /\ nextID' = nextID
      /\ object' = [object EXCEPT ![move.account].balance = Plus(loaded[t], move.amount)]
  BY DEF Write
<1>2. /\ move.amount \in Int /\ move.account \in Accounts(job[t])
      /\ Accounts(job[t]) \subseteq DOMAIN object
  BY <1>1, Movement DEF AtomicInv
<1>3. loaded[t] = object[move.account].balance /\ object[move.account].balance \in Int
  BY <1>1, <1>2 DEF AtomicInv, MovementOK, BalancesAreNumbers
<1>4. Plus(loaded[t], move.amount) = object[move.account].balance + move.amount
  BY <1>2, <1>3, Numbers
<1> HIDE DEF move
<1>5. object' = [object EXCEPT ![move.account].balance = @ + move.amount]
  BY <1>1, <1>4
<1> QED BY <1>1, <1>2, <1>5 DEF move

\* A call that opens an account adds a new one to the store, with a number for its balance.
LEMMA CreateAdds ==
  ASSUME AmountsAreNumbers, AtomicInv, NumbersLeft, NEW t \in Threads, Create(t)
  PROVE  /\ object' = Put(object, nextID, [name |-> job[t].name, password |-> job[t].password,
                                           currency |-> job[t].currency, balance |-> job[t].amount])
         /\ nextID \notin DOMAIN object
         /\ stored' = stored \cup {nextID} /\ DOMAIN object' = DOMAIN object \cup {nextID}
         /\ \A a \in DOMAIN object : object'[a] = object[a]
         /\ object'[nextID].balance \in Int
         /\ job[t].service = "OpenAccount"
<1>1. job[t] \in Jobs[t] /\ job[t].service = "OpenAccount"
  BY DEF AtomicInv, LocksInv, Create, CallOK
<1>2. job[t].amount \in Int
  BY <1>1, AmountIsNumber
<1>3. /\ object' = Put(object, nextID, [name |-> job[t].name, password |-> job[t].password,
                                        currency |-> job[t].currency, balance |-> job[t].amount])
      /\ stored' = stored \cup {nextID}
  BY DEF Create, OpenAccount, Returns, CreateAccount
<1>4. nextID \notin DOMAIN object
  BY DEF AtomicInv, LocksInv, StoreOK
<1> QED BY <1>1, <1>2, <1>3, <1>4 DEF Put

\* No step closes an account.
LEMMA NothingDeleted ==
  ASSUME NoCloses, LocksInv, NEW t \in Threads
  PROVE  ~ Delete(t)
  BY DEF NoCloses, LocksInv, CallOK, Delete

\* Only Create and Write touch the structs.
LEMMA OthersLeaveStore ==
  ASSUME NoCloses, LocksInv, NEW t \in Threads, (\E q \in Jobs[t] : Invoke(t, q)) \/ Step(t),
         ~ Create(t), ~ Write(t)
  PROVE  UNCHANGED storeVars
<1>1. ~ Delete(t)
  BY NothingDeleted
<1> QED
  BY <1>1
  DEF Step, Invoke, CheckArguments, Lookup, LookupPayee, Lock, Check, Load, Update, Unlock, Return

\* What a step leaves of the accounts there are: all but balances, and of those all but
\* the ones of the accounts the thread has locked to write them.
LEMMA AccountsKept ==
  ASSUME NoCloses, AmountsAreNumbers, AtomicInv, NumbersLeft, NEW t \in Threads,
         (\E q \in Jobs[t] : Invoke(t, q)) \/ Step(t)
  PROVE  /\ stored' = DOMAIN object' /\ DOMAIN object \subseteq DOMAIN object'
         /\ BalancesAreNumbers'
         /\ \A a \in DOMAIN object :
              /\ object'[a].name = object[a].name
              /\ object'[a].password = object[a].password
              /\ object'[a].currency = object[a].currency
              /\ a \notin Accounts(job[t]) \/ ~ Write(t) => object'[a] = object[a]
<1>1. stored = DOMAIN object /\ BalancesAreNumbers /\ LocksInv
      /\ \A a \in DOMAIN object : object[a] \in Account
  BY DEF AtomicInv, LocksInv, StoreOK
<1>2. CASE Create(t)
  BY <1>1, <1>2, CreateAdds DEF BalancesAreNumbers, Create, Write
<1>3. CASE Write(t)
  <2> DEFINE move == Moves(job[t])[step[t]]
  <2>1. /\ object' = [object EXCEPT ![move.account].balance = @ + move.amount]
        /\ stored' = stored /\ move.amount \in Int
        /\ move.account \in Accounts(job[t]) /\ move.account \in DOMAIN object
    BY <1>3, WriteAdds
  <2> HIDE DEF move
  <2>2. DOMAIN object' = DOMAIN object
    BY <2>1
  <2>3. \A a \in DOMAIN object : a # move.account => object'[a] = object[a]
    BY <2>1
  <2>4. object'[move.account] = [object[move.account] EXCEPT !.balance = @ + move.amount]
    BY <2>1
  <2>5. /\ object'[move.account].name = object[move.account].name
        /\ object'[move.account].password = object[move.account].password
        /\ object'[move.account].currency = object[move.account].currency
        /\ object'[move.account].balance = object[move.account].balance + move.amount
    BY <1>1, <2>1, <2>4 DEF Account
  <2> QED BY <1>1, <1>3, <2>1, <2>2, <2>3, <2>5 DEF BalancesAreNumbers
<1>4. CASE ~ Create(t) /\ ~ Write(t)
  <2>1. UNCHANGED storeVars
    BY <1>1, <1>4, OthersLeaveStore
  <2> QED BY <1>1, <2>1 DEF storeVars, BalancesAreNumbers
<1> QED BY <1>2, <1>3, <1>4

-----------------------------------------------------------------------------
(* The invariant is kept. *)

\* The credentials of a call stay good: names and passwords do not change, and no account goes.
LEMMA ChecksKept ==
  ASSUME NoCloses, AmountsAreNumbers, AtomicInv, NumbersLeft, NEW t \in Threads,
         (\E q \in Jobs[t] : Invoke(t, q)) \/ Step(t),
         NEW q, Accounts(q) \subseteq DOMAIN object
  PROVE  AuthError([accounts |-> object'], q) = AuthError([accounts |-> object], q)
<1>1. q.account \in DOMAIN object /\ q.account \in DOMAIN object'
  BY AccountsKept DEF Accounts
<1>2. \A a \in DOMAIN object :
        object'[a].name = object[a].name /\ object'[a].password = object[a].password
  BY AccountsKept
<1> QED BY <1>1, <1>2 DEF AuthError

\* A thread with its mutexes is alone with its accounts.
LEMMA OwnAccountsKept ==
  ASSUME NoCloses, AmountsAreNumbers, AtomicInv, NumbersLeft, NEW t \in Threads,
         (\E q \in Jobs[t] : Invoke(t, q)) \/ Step(t),
         NEW u \in Threads, u # t, pc[u] \in Critical, NEW a \in Accounts(job[u])
  PROVE  a \in DOMAIN object /\ object'[a] = object[a]
<1>1. a \in DOMAIN object /\ a \in held[u]
  BY DEF AtomicInv, LocksInv, CallOK, HoldsOwn
<1>2. CASE Write(t)
  <2>1. held[t] = Accounts(job[t])
    BY <1>2 DEF AtomicInv, LocksInv, HoldsOwn, Critical, Write
  <2>2. a \notin Accounts(job[t])
    BY <1>1, <2>1 DEF AtomicInv, LocksInv, Exclusion
  <2> QED BY <1>1, <2>2, AccountsKept
<1>3. CASE ~ Write(t)
  BY <1>1, <1>3, AccountsKept
<1> QED BY <1>2, <1>3

LEMMA OthersKeepInv ==
  ASSUME NoCloses, AmountsAreNumbers, AtomicInv, NumbersLeft, NEW t \in Threads,
         (\E q \in Jobs[t] : Invoke(t, q)) \/ Step(t), NEW u \in Threads, u # t
  PROVE  DecidedOK(u)' /\ CheckedOK(u)' /\ MovementOK(u)'
<1>1. /\ pc'[u] = pc[u] /\ job'[u] = job[u] /\ step'[u] = step[u]
      /\ loaded'[u] = loaded[u] /\ result'[u] = result[u]
  BY OthersStay DEF AtomicInv, LocksInv
<1>2. DecidedOK(u) /\ CheckedOK(u) /\ MovementOK(u) /\ CallOK(u)
  BY DEF AtomicInv, LocksInv
<1>3. DecidedOK(u)'
  BY <1>1, <1>2 DEF DecidedOK
<1>4. CheckedOK(u)'
  <2>1. CASE pc[u] \in {"Lock", "Check", "Load", "Write", "Update"}
    <3>1. Accounts(job[u]) \subseteq DOMAIN object
      BY <1>2, <2>1 DEF CallOK, Critical
    <3>2. /\ AuthError([accounts |-> object'], job[u]) = AuthError([accounts |-> object], job[u])
          /\ CurrenciesAgree(job[u])' <=> CurrenciesAgree(job[u])
      <4> DEFINE q == job[u]
      <4>1. Accounts(q) \subseteq DOMAIN object
        BY <3>1
      <4>2. q' = q
        BY <1>1
      <4>3. /\ q.account \in DOMAIN object /\ (q.service = "TransferFunds" => q.toAccount \in DOMAIN object)
            /\ \A a \in DOMAIN object : object'[a].currency = object[a].currency
        BY <4>1, AccountsKept DEF Accounts
      <4>4. AuthError([accounts |-> object'], q) = AuthError([accounts |-> object], q)
        BY <4>1, ChecksKept
      <4> QED BY <4>2, <4>3, <4>4 DEF CurrenciesAgree
    <3> QED BY <1>1, <1>2, <3>2 DEF CheckedOK
  <2>2. CASE pc[u] \notin {"Lock", "Check", "Load", "Write", "Update"}
    BY <1>1, <2>2 DEF CheckedOK
  <2> QED BY <2>1, <2>2
<1>5. MovementOK(u)'
  <2>1. CASE pc[u] \in {"Load", "Write"}
    <3>1. Moves(job[u])[step[u]].account \in Accounts(job[u]) /\ job[u].account \in Accounts(job[u])
      BY <2>1, Movement DEF AtomicInv, Accounts
    <3>2. \A a \in Accounts(job[u]) : object'[a] = object[a]
      BY <2>1, OwnAccountsKept DEF Critical
    <3> QED BY <1>1, <1>2, <3>1, <3>2 DEF MovementOK, Pays
  <2>2. CASE pc[u] \notin {"Load", "Write"}
    BY <1>1, <2>2 DEF MovementOK
  <2> QED BY <2>1, <2>2
<1> QED BY <1>3, <1>4, <1>5

\* A call is decided where the code decides it.
LEMMA OwnDecided ==
  ASSUME NoCloses, AtomicInv, NEW t \in Threads, (\E q \in Jobs[t] : Invoke(t, q)) \/ Step(t)
  PROVE  DecidedOK(t)'
<1>0. /\ DOMAIN pc = Threads /\ DOMAIN job = Threads /\ DOMAIN result = Threads
      /\ DecidedOK(t) /\ CallOK(t) /\ step[t] \in {1, 2}
  BY DEF AtomicInv, LocksInv, FunctionsOK
<1>1. \A v : Ok(v) # Undecided
  BY DEF Ok, Undecided, None
<1>2. \A a, e : Error(e).err = e
  BY DEF Error
<1>3. CASE \E q \in Jobs[t] : Invoke(t, q)
  BY <1>0, <1>3 DEF Invoke, Goto, DecidedOK
<1>4. CASE Create(t)
  BY <1>0, <1>1, <1>4 DEF Create, Goto, Decide, DecidedOK
<1>5. CASE CheckArguments(t)
  <2>1. ArgumentError(job[t]) # "Undecided"
    BY DEF ArgumentError, None
  <2>2. Error(ArgumentError(job[t])) # Undecided
    BY <2>1 DEF Error, Undecided
  <2> QED BY <1>0, <1>5, <2>2 DEF CheckArguments, Goto, Decide, DecidedOK
<1>6. CASE Lookup(t)
  <2> DEFINE q == job[t]
             err == IF q.account \notin stored THEN "ErrInvalidCredentials"
                    ELSE IF q.service = "TransferFunds" THEN None
                    ELSE AuthError(Database, q)
  <2>1. err # "Undecided"
    BY DEF AuthError, None
  <2>2. Error(err) # Undecided
    BY <2>1 DEF Error, Undecided
  <2>3. /\ pc[t] = "Lookup" /\ UNCHANGED job
        /\ \/ result' = [result EXCEPT ![t] = Error(err)] /\ pc' = [pc EXCEPT ![t] = "Return"]
           \/ /\ UNCHANGED result
              /\ pc' \in {[pc EXCEPT ![t] = "LookupPayee"], [pc EXCEPT ![t] = "Lock"]}
    BY <1>6 DEF Lookup, Goto, Decide
  <2> HIDE DEF err
  <2> QED BY <1>0, <2>2, <2>3 DEF DecidedOK
<1>7. CASE LookupPayee(t)
  <2> DEFINE q == job[t]
             auth == AuthError([accounts |-> object], q)
             err == IF q.toAccount \notin stored THEN "ErrAccountNotFound"
                    ELSE IF auth # None THEN auth
                    ELSE IF \/ object[q.account].currency # q.currency
                            \/ object[q.account].currency # object[q.toAccount].currency
                    THEN "ErrCurrencyMismatch" ELSE None
  <2>1. err # "Undecided"
    BY DEF AuthError, None
  <2>2. Error(err) # Undecided
    BY <2>1 DEF Error, Undecided
  <2>3. /\ pc[t] = "LookupPayee" /\ UNCHANGED job
        /\ \/ result' = [result EXCEPT ![t] = Error(err)] /\ pc' = [pc EXCEPT ![t] = "Return"]
           \/ UNCHANGED result /\ pc' = [pc EXCEPT ![t] = "Lock"]
    BY <1>7 DEF LookupPayee, Goto, Decide
  <2> HIDE DEF err
  <2> QED BY <1>0, <2>2, <2>3 DEF DecidedOK
<1>8. CASE Check(t)
  <2>1. LockedError(job[t]) # "Undecided"
    BY DEF LockedError, None
  <2>2. Error(LockedError(job[t])) # Undecided
    BY <2>1 DEF Error, Undecided
  <2>3. /\ pc[t] = "Check" /\ UNCHANGED job
        /\ \/ /\ \E r : r # Undecided /\ result' = [result EXCEPT ![t] = r]
              /\ pc' = [pc EXCEPT ![t] = "Unlock"]
           \/ UNCHANGED result /\ pc' \in {[pc EXCEPT ![t] = "Delete"], [pc EXCEPT ![t] = "Load"]}
    BY <1>1, <1>8, <2>2 DEF Check, Goto, Decide
  <2> QED BY <1>0, <2>3 DEF DecidedOK
<1>9. CASE Lock(t) \/ Load(t) \/ Write(t)
  BY <1>0, <1>9 DEF Lock, Load, Write, Goto, Advance, DecidedOK
<1>10. CASE Update(t)
  <2>1. Error("ErrStoreAccountNotFound") # Undecided
    BY DEF Error, Undecided
  <2> QED BY <1>0, <1>1, <1>10, <2>1 DEF Update, Goto, Decide, DecidedOK
<1>11. CASE Unlock(t)
  BY <1>0, <1>11 DEF Unlock, Goto, Advance, DecidedOK
<1>12. CASE Return(t)
  BY <1>0, <1>12 DEF Return, Goto, Decide, DecidedOK
<1> QED
  BY <1>3, <1>4, <1>5, <1>6, <1>7, <1>8, <1>9, <1>10, <1>11, <1>12, NothingDeleted
  DEF Step, AtomicInv

\* The checks of a call, when it passes them, find what CheckedOK says.
LEMMA OwnChecked ==
  ASSUME NoCloses, AmountsAreNumbers, AtomicInv, NumbersLeft, NEW t \in Threads,
         (\E q \in Jobs[t] : Invoke(t, q)) \/ Step(t)
  PROVE  CheckedOK(t)'
<1> DEFINE Checked == {"Lock", "Check", "Load", "Write", "Update"}
<1>0. /\ DOMAIN pc = Threads /\ DOMAIN job = Threads /\ stored = DOMAIN object
      /\ CheckedOK(t) /\ CallOK(t) /\ step[t] \in {1, 2}
  BY DEF AtomicInv, LocksInv, FunctionsOK
<1>1. CASE pc'[t] \notin Checked
  BY <1>1 DEF CheckedOK
<1>2. CASE Lookup(t) /\ pc'[t] \in Checked
  <2>1. /\ UNCHANGED <<job, object>> /\ pc'[t] = "Lock" /\ job[t].service # "TransferFunds"
        /\ AuthError(Database, job[t]) = None
    BY <1>0, <1>2 DEF Lookup, Goto, storeVars, None
  <2>2. AuthError([accounts |-> object], job[t]) = None
    BY <1>0, <2>1 DEF AuthError, Database, None
  <2> QED BY <2>1, <2>2 DEF CheckedOK
<1>3. CASE LookupPayee(t) /\ pc'[t] \in Checked
  <2>1. /\ UNCHANGED <<job, object>> /\ pc'[t] = "Lock"
        /\ AuthError([accounts |-> object], job[t]) = None
        /\ object[job[t].account].currency = job[t].currency
        /\ object[job[t].account].currency = object[job[t].toAccount].currency
    BY <1>0, <1>3 DEF LookupPayee, Goto, storeVars, None
  <2> QED BY <2>1 DEF CheckedOK, CurrenciesAgree
<1>4. CASE Check(t) /\ pc'[t] \in Checked
  <2>1. /\ UNCHANGED <<job, object>> /\ pc'[t] = "Load" /\ pc[t] = "Check"
        /\ LockedError(job[t]) = None /\ job[t].service \notin {"GetBalance", "CloseAccount"}
    BY <1>0, <1>4 DEF Check, Goto, storeVars
  <2>2. job[t].service \in Movements
    <3>1. job[t].service \in Services \ {"Monitor"} /\ job[t].service # "OpenAccount"
      BY <1>0, <2>1, JobFacts DEF CallOK
    <3> QED BY <2>1, <3>1 DEF Services, RequiredFields, Movements
  <2>3. CurrenciesAgree(job[t])
    <3>1. job[t].service \in {"Deposit", "Withdraw"} => object[job[t].account].currency = job[t].currency
      BY <2>1 DEF LockedError, None
    <3> QED BY <1>0, <2>1, <2>2, <3>1 DEF CheckedOK, CurrenciesAgree, Movements
  <2> QED BY <1>0, <2>1, <2>3 DEF CheckedOK, CurrenciesAgree
<1>5. CASE Lock(t) \/ Load(t) \/ Update(t)
  <2>1. UNCHANGED <<job, object>> /\ pc[t] \in Checked
        /\ (pc'[t] \in {"Load", "Write", "Update"} => pc[t] \in {"Load", "Write", "Update"})
    BY <1>0, <1>5 DEF Lock, Load, Update, Goto, Advance, storeVars
  <2> QED BY <1>0, <2>1 DEF CheckedOK, CurrenciesAgree
<1>6. CASE Write(t)
  <2>1. UNCHANGED job /\ pc[t] = "Write"
    BY <1>6 DEF Write
  <2>2. Accounts(job[t]) \subseteq DOMAIN object
    BY <1>0, <2>1 DEF CallOK, Critical
  <2>3. /\ job[t].account \in DOMAIN object
        /\ job[t].service = "TransferFunds" => job[t].toAccount \in DOMAIN object
    BY <2>2 DEF Accounts
  <2>4. \A a \in DOMAIN object : object'[a].currency = object[a].currency
    BY AccountsKept
  <2>5. AuthError([accounts |-> object'], job[t]) = AuthError([accounts |-> object], job[t])
    BY <2>2, ChecksKept
  <2> QED BY <1>0, <2>1, <2>3, <2>4, <2>5 DEF CheckedOK, CurrenciesAgree
<1>7. CASE \/ \E q \in Jobs[t] : Invoke(t, q)
           \/ Create(t) \/ CheckArguments(t) \/ Unlock(t) \/ Return(t)
  <2>1. pc'[t] \notin Checked
    BY <1>0, <1>7 DEF Invoke, Create, CheckArguments, Unlock, Return, Goto, Advance
  <2> QED BY <1>1, <2>1
<1> QED
  BY <1>1, <1>2, <1>3, <1>4, <1>5, <1>6, <1>7, NothingDeleted DEF Step, AtomicInv

\* Nothing comes between a check of funds and the write that relies on it.
LEMMA OwnMovement ==
  ASSUME NoCloses, AmountsAreNumbers, AtomicInv, NumbersLeft, NEW t \in Threads,
         (\E q \in Jobs[t] : Invoke(t, q)) \/ Step(t)
  PROVE  MovementOK(t)'
<1>0. /\ DOMAIN pc = Threads /\ DOMAIN step = Threads /\ DOMAIN loaded = Threads
      /\ MovementOK(t) /\ CallOK(t) /\ step[t] \in {1, 2} /\ LocksInv /\ BalancesAreNumbers
  BY DEF AtomicInv, LocksInv, FunctionsOK
<1>1. CASE pc'[t] \notin {"Load", "Write"}
  BY <1>1 DEF MovementOK
<1>2. CASE Check(t) /\ pc'[t] \in {"Load", "Write"}
  <2>1. /\ UNCHANGED <<job, object, step>> /\ pc'[t] = "Load" /\ pc[t] = "Check"
        /\ LockedError(job[t]) = None
    BY <1>0, <1>2 DEF Check, Goto, storeVars
  <2>2. step[t] = 1 /\ job[t] \in Jobs[t] /\ job[t].account \in DOMAIN object
    BY <1>0, <2>1 DEF CallOK, Critical, Accounts
  <2>3. ASSUME job[t].service \in {"Withdraw", "TransferFunds"}
        PROVE  job[t].amount <= object[job[t].account].balance
    <3>1. job[t].amount \in Int /\ object[job[t].account].balance \in Int
      BY <1>0, <2>2, <2>3, AmountIsNumber DEF BalancesAreNumbers, Movements
    <3>2. ~ Less(object[job[t].account].balance, job[t].amount)
      BY <2>1, <2>3 DEF LockedError, None
    <3>3. Less(object[job[t].account].balance, job[t].amount)
            <=> object[job[t].account].balance < job[t].amount
      BY <3>1, Numbers
    <3> QED BY <3>1, <3>2, <3>3
  <2> QED BY <2>1, <2>2, <2>3 DEF MovementOK, Pays
<1>3. CASE Load(t)
  <2>1. /\ pc[t] = "Load" /\ pc'[t] = "Write" /\ UNCHANGED <<job, step, object>>
        /\ loaded'[t] = object[Moves(job[t])[step[t]].account].balance
    BY <1>0, <1>3 DEF Load, Goto, storeVars
  <2> QED BY <1>0, <2>1 DEF MovementOK, Pays
<1>4. CASE Write(t) /\ pc'[t] \in {"Load", "Write"}
  <2>1. pc[t] = "Write" /\ UNCHANGED job /\ pc'[t] = "Load" /\ step'[t] = step[t] + 1
    BY <1>0, <1>4 DEF Write, Advance, Goto
  <2>2. step[t] = 1 /\ job[t].service = "TransferFunds"
    <3>1. Len(Moves(job[t])) = IF job[t].service = "TransferFunds" THEN 2 ELSE 1
      BY <1>0, <2>1, Movement, MoveFacts
    <3>2. step[t] # Len(Moves(job[t]))
      BY <1>0, <1>4, <2>1 DEF Write, Advance, Goto
    <3> QED BY <1>0, <2>1, <3>1, <3>2, Movement
  <2>3. /\ job[t].account \in DOMAIN object /\ object[job[t].account].balance \in Int
        /\ job[t].amount \in Int /\ job[t].amount <= object[job[t].account].balance
        /\ Moves(job[t])[step[t]].account = job[t].account
        /\ Moves(job[t])[step[t]].amount = -job[t].amount
    <3>1. Pays(t)
      BY <2>2 DEF Pays
    <3>2. job[t].account \in DOMAIN object
      BY <1>0, <2>1 DEF CallOK, Critical, Accounts
    <3> QED BY <1>0, <2>1, <2>2, <3>1, <3>2, Movement DEF BalancesAreNumbers, MovementOK
  <2>4. object' = [object EXCEPT ![job[t].account].balance = @ + (-job[t].amount)]
    BY <1>4, <2>3, WriteAdds
  <2>5. object[job[t].account] \in Account
    BY <2>3 DEF AtomicInv, LocksInv, StoreOK
  <2>6. object'[job[t].account].balance = object[job[t].account].balance - job[t].amount
    BY <2>3, <2>4, <2>5 DEF Account
  <2>7. 0 <= object'[job[t].account].balance
    BY <2>3, <2>6
  <2> QED BY <2>1, <2>2, <2>7 DEF MovementOK, Pays
<1>5. CASE \/ \E q \in Jobs[t] : Invoke(t, q)
           \/ Create(t) \/ CheckArguments(t) \/ Lookup(t) \/ LookupPayee(t) \/ Lock(t) \/ Update(t)
           \/ Unlock(t) \/ Return(t)
  <2>1. pc'[t] \notin {"Load", "Write"}
    BY <1>0, <1>5
    DEF Invoke, Create, CheckArguments, Lookup, LookupPayee, Lock, Update, Unlock, Return, Goto, Advance
  <2> QED BY <1>1, <2>1
<1> QED
  BY <1>0, <1>1, <1>2, <1>3, <1>4, <1>5, NothingDeleted DEF Step

LEMMA AtomicInvInit ==
  ASSUME AmountsAreNumbers, Init
  PROVE  AtomicInv
<1>1. LocksInv
  BY LocksInvInit
<1>2. stored = DOMAIN object /\ BalancesAreNumbers
  BY DEF Init, BalancesAreNumbers, AmountsAreNumbers
<1>3. \A t \in Threads : DecidedOK(t) /\ CheckedOK(t) /\ MovementOK(t)
  BY DEF Init, DecidedOK, CheckedOK, MovementOK
<1> QED BY <1>1, <1>2, <1>3 DEF AtomicInv

LEMMA AtomicInvNext ==
  ASSUME NoCloses, AmountsAreNumbers, AtomicInv, NumbersLeft, [Next]_vars
  PROVE  AtomicInv'
<1>1. LocksInv'
  BY LocksInvNext DEF AtomicInv
<1>2. ASSUME NEW t \in Threads, (\E q \in Jobs[t] : Invoke(t, q)) \/ Step(t)
      PROVE  AtomicInv'
  <2>1. stored' = DOMAIN object' /\ BalancesAreNumbers'
    BY <1>2, AccountsKept
  <2>2. DecidedOK(t)' /\ CheckedOK(t)' /\ MovementOK(t)'
    BY <1>2, OwnDecided, OwnChecked, OwnMovement
  <2>3. \A u \in Threads : u # t => DecidedOK(u)' /\ CheckedOK(u)' /\ MovementOK(u)'
    BY <1>2, OthersKeepInv
  <2> QED BY <1>1, <2>1, <2>2, <2>3 DEF AtomicInv
<1>3. CASE UNCHANGED vars
  BY <1>1, <1>3
  DEF vars, threadVars, storeVars, AtomicInv, BalancesAreNumbers, DecidedOK, CheckedOK,
      MovementOK, CurrenciesAgree, Pays
<1> QED BY <1>2, <1>3 DEF Next

LEMMA AtomicInvAlways == NoCloses /\ AmountsAreNumbers /\ Spec /\ []NumbersLeft => []AtomicInv
<1>1. SUFFICES ASSUME NoCloses, AmountsAreNumbers PROVE Spec /\ []NumbersLeft => []AtomicInv
  OBVIOUS
<1>2. Init => AtomicInv
  BY <1>1, AtomicInvInit
<1>3. AtomicInv /\ NumbersLeft /\ [Next]_vars => AtomicInv'
  BY <1>1, AtomicInvNext
<1> QED BY <1>2, <1>3, PTL DEF Spec

-----------------------------------------------------------------------------
(* The abstract bank that the threads work on. *)

\* The accounts with what is in transit out of them.
Whole(a) == [object[a] EXCEPT !.balance = Plus(@, InTransit(a))]

AbstractDb == [accounts |-> [a \in stored |-> Whole(a)], nextID |-> nextID]

AbstractResult ==
  [t \in Threads |-> IF pc[t] = "Update" THEN Ok(object[job[t].account].balance) ELSE result[t]]

OneInTransit ==
  \A a : /\ \A u \in Threads : HalfDone(u, a) => InTransit(a) = job[u].amount
         /\ (\A u \in Threads : ~ HalfDone(u, a)) => InTransit(a) = 0

\* One transfer at a time is half done out of an account, because it holds the mutex.
LEMMA Transit == LocksInv => OneInTransit
<1> SUFFICES ASSUME LocksInv, NEW a
             PROVE  /\ \A u \in Threads : HalfDone(u, a) => InTransit(a) = job[u].amount
                    /\ (\A u \in Threads : ~ HalfDone(u, a)) => InTransit(a) = 0
  BY DEF OneInTransit
<1>1. \A u \in Threads : HalfDone(u, a) => a \in held[u]
  BY DEF LocksInv, HoldsOwn, HalfDone, Critical, Accounts
<1>2. ASSUME NEW u \in Threads, HalfDone(u, a) PROVE InTransit(a) = job[u].amount
  <2> DEFINE w == CHOOSE t \in Threads : HalfDone(t, a)
  <2>1. w \in Threads /\ HalfDone(w, a)
    BY <1>2
  <2>2. w = u
    BY <1>1, <1>2, <2>1 DEF LocksInv, Exclusion
  <2>3. InTransit(a) = job[w].amount
    BY <1>2 DEF InTransit
  <2> HIDE DEF w
  <2> QED BY <2>2, <2>3
<1>3. ASSUME \A u \in Threads : ~ HalfDone(u, a) PROVE InTransit(a) = 0
  BY <1>3 DEF InTransit
<1> QED BY <1>2, <1>3

LEMMA TransitLater == LocksInv' => OneInTransit'
BY Transit, PTL

\* What the abstract bank holds.
LEMMA WholeAccounts ==
  ASSUME AmountsAreNumbers, AtomicInv, NEW a \in stored
  PROVE  /\ object[a] \in Account /\ object[a].balance \in Int /\ InTransit(a) \in Int
         /\ Whole(a) = [object[a] EXCEPT !.balance = object[a].balance + InTransit(a)]
         /\ Whole(a).name = object[a].name /\ Whole(a).password = object[a].password
         /\ Whole(a).currency = object[a].currency
         /\ Whole(a).balance = object[a].balance + InTransit(a)
<1>1. LocksInv /\ object[a] \in Account /\ object[a].balance \in Int
  BY DEF AtomicInv, LocksInv, StoreOK, BalancesAreNumbers
<1>2. InTransit(a) \in Int
  <2>1. CASE \E u \in Threads : HalfDone(u, a)
    <3>1. PICK u \in Threads : HalfDone(u, a)
      BY <2>1
    <3>2. job[u].amount \in Int
      BY <1>1, <3>1, Movement DEF HalfDone
    <3> QED BY <1>1, <3>1, <3>2, Transit DEF OneInTransit
  <2>2. CASE \A u \in Threads : ~ HalfDone(u, a)
    BY <1>1, <2>2, Transit DEF OneInTransit
  <2> QED BY <2>1, <2>2
<1>3. Plus(object[a].balance, InTransit(a)) = object[a].balance + InTransit(a)
  BY <1>1, <1>2, Numbers
<1>4. Whole(a) = [object[a] EXCEPT !.balance = object[a].balance + InTransit(a)]
  BY <1>3 DEF Whole
<1> QED BY <1>1, <1>2, <1>4 DEF Account

\* Nothing is in transit out of an account that a thread has locked, but by that thread.
LEMMA WholeHere ==
  ASSUME AmountsAreNumbers, AtomicInv, NEW t \in Threads, pc[t] \in Critical,
         NEW a \in Accounts(job[t]), ~ HalfDone(t, a)
  PROVE  a \in stored /\ InTransit(a) = 0 /\ Whole(a) = object[a]
<1>1. LocksInv /\ a \in stored /\ a \in held[t]
  BY DEF AtomicInv, LocksInv, CallOK, HoldsOwn
<1>2. \A u \in Threads : HalfDone(u, a) => a \in held[u]
  BY <1>1 DEF LocksInv, HoldsOwn, HalfDone, Critical, Accounts
<1>3. \A u \in Threads : ~ HalfDone(u, a)
  BY <1>1, <1>2 DEF LocksInv, Exclusion
<1>4. InTransit(a) = 0
  BY <1>1, <1>3, Transit DEF OneInTransit
<1>5. object[a].balance + 0 = object[a].balance /\ object[a] \in Account
      /\ Whole(a) = [object[a] EXCEPT !.balance = object[a].balance + InTransit(a)]
  BY <1>1, WholeAccounts
<1>6. Whole(a) = [object[a] EXCEPT !.balance = object[a].balance]
  BY <1>4, <1>5
<1> QED BY <1>1, <1>4, <1>5, <1>6 DEF Account

\* The credentials and currencies of the abstract bank are those of the structs.
LEMMA AbstractDbFacts ==
  ASSUME AmountsAreNumbers, AtomicInv
  PROVE  /\ AbstractDb.nextID = nextID /\ DOMAIN AbstractDb.accounts = stored
         /\ \A a \in stored : AbstractDb.accounts[a] = Whole(a)
         /\ \A q : /\ AuthError(AbstractDb, q) = AuthError(Database, q)
                   /\ AuthError(AbstractDb, q) = AuthError([accounts |-> object], q)
<1>1. /\ AbstractDb.nextID = nextID /\ DOMAIN AbstractDb.accounts = stored
      /\ \A a \in stored : AbstractDb.accounts[a] = Whole(a)
  BY DEF AbstractDb
<1>2. \A a \in stored : Whole(a).name = object[a].name /\ Whole(a).password = object[a].password
  BY WholeAccounts
<1>3. ASSUME NEW q
      PROVE  /\ AuthError(AbstractDb, q) = AuthError(Database, q)
             /\ AuthError(AbstractDb, q) = AuthError([accounts |-> object], q)
  BY <1>1, <1>2 DEF AuthError, Database, AtomicInv
<1> QED BY <1>1, <1>3

\* What is in transit does not change by a step of a thread that begins and ends no transfer.
LEMMA TransitKept ==
  ASSUME LocksInv, LocksInv', NEW t \in Threads, (\E q \in Jobs[t] : Invoke(t, q)) \/ Step(t),
         NEW a, HalfDone(t, a)' <=> HalfDone(t, a), HalfDone(t, a) => job'[t] = job[t]
  PROVE  InTransit(a)' = InTransit(a)
<1>1. \A u \in Threads : u # t => pc'[u] = pc[u] /\ job'[u] = job[u] /\ step'[u] = step[u]
  BY OthersStay DEF LocksInv
<1>2. \A u \in Threads : /\ HalfDone(u, a)' <=> HalfDone(u, a)
                         /\ HalfDone(u, a) => job'[u] = job[u]
  BY <1>1 DEF HalfDone
<1>3. /\ \A u \in Threads : HalfDone(u, a)' => InTransit(a)' = job'[u].amount
      /\ (\A u \in Threads : ~ HalfDone(u, a)') => InTransit(a)' = 0
  BY TransitLater DEF OneInTransit
<1> QED BY <1>2, <1>3, Transit DEF OneInTransit

-----------------------------------------------------------------------------
(* The operators of the instance are those of the code's model. *)

LEMMA SameService ==
  ASSUME NEW d, NEW q
  PROVE  Abstract!CallService(d, q) = CallService(d, q)
<1> USE DEF Abstract!Fails, Fails, Abstract!Returns, Returns, Abstract!None, None
<1>0. ASSUME NEW x, NEW y
      PROVE  /\ Abstract!Less(x, y) = Less(x, y) /\ Abstract!AtMost(x, y) = AtMost(x, y)
             /\ Abstract!Plus(x, y) = Plus(x, y) /\ Abstract!Negative(x) = Negative(x)
  BY DEF Abstract!Less, Less, Abstract!AtMost, AtMost, Abstract!Plus, Plus, Abstract!Negative, Negative
<1>1. Abstract!AuthError(d, q) = AuthError(d, q)
  BY DEF Abstract!AuthError, AuthError
<1>2. Abstract!MovementError(d, q) = MovementError(d, q)
  BY <1>0, <1>1 DEF Abstract!MovementError, MovementError
<1>3. Abstract!WithdrawError(d, q) = WithdrawError(d, q)
  BY <1>0, <1>2 DEF Abstract!WithdrawError, WithdrawError
<1>4. Abstract!TransferError(d, q) = TransferError(d, q)
  BY <1>0, <1>1 DEF Abstract!TransferError, TransferError
<1>5. ASSUME NEW x, NEW a, NEW n PROVE Abstract!AddToBalance(x, a, n) = AddToBalance(x, a, n)
  BY <1>0 DEF Abstract!AddToBalance, AddToBalance
<1>6. Abstract!OpenAccount(d, q) = OpenAccount(d, q)
  BY DEF Abstract!OpenAccount, OpenAccount, Abstract!CreateAccount, CreateAccount, Abstract!Put, Put
<1>7. Abstract!CloseAccount(d, q) = CloseAccount(d, q)
  BY <1>1 DEF Abstract!CloseAccount, CloseAccount, Abstract!DeleteAccount, DeleteAccount,
              Abstract!Restrict, Restrict
<1>8. Abstract!Deposit(d, q) = Deposit(d, q)
  BY <1>0, <1>2, <1>5 DEF Abstract!Deposit, Deposit
<1>9. Abstract!Withdraw(d, q) = Withdraw(d, q)
  BY <1>0, <1>3, <1>5 DEF Abstract!Withdraw, Withdraw
<1>10. Abstract!CheckBalance(d, q) = CheckBalance(d, q)
  BY <1>1 DEF Abstract!CheckBalance, CheckBalance
<1>11. Abstract!Transfer(d, q) = Transfer(d, q)
  BY <1>0, <1>4, <1>5 DEF Abstract!Transfer, Transfer
<1> QED
  BY <1>6, <1>7, <1>8, <1>9, <1>10, <1>11 DEF Abstract!CallService, CallService

\* Services are told apart by their names.
LEMMA ServiceOperators ==
  ASSUME NEW d, NEW q
  PROVE  /\ q.service = "OpenAccount" => CallService(d, q) = OpenAccount(d, q)
         /\ q.service = "Deposit" => CallService(d, q) = Deposit(d, q)
         /\ q.service = "Withdraw" => CallService(d, q) = Withdraw(d, q)
         /\ q.service = "GetBalance" => CallService(d, q) = CheckBalance(d, q)
         /\ q.service = "TransferFunds" => CallService(d, q) = Transfer(d, q)
  BY DEF CallService

\* Which errors the sequential operators give, in the order in which the threads look for them.
LEMMA RefusedForArguments ==
  ASSUME NEW d, NEW q, ArgumentError(q) # None
  PROVE  CallService(d, q) = Fails(d, ArgumentError(q))
<1>1. q.service \in Movements
  BY DEF ArgumentError, Movements
<1>2. CASE q.service = "Deposit"
  BY <1>2, ServiceOperators DEF ArgumentError, Deposit, MovementError, None
<1>3. CASE q.service = "Withdraw"
  BY <1>3, ServiceOperators DEF ArgumentError, Withdraw, WithdrawError, MovementError, None
<1>4. CASE q.service = "TransferFunds"
  BY <1>4, ServiceOperators DEF ArgumentError, Transfer, TransferError, None
<1> QED BY <1>1, <1>2, <1>3, <1>4 DEF Movements

LEMMA RefusedForCredentials ==
  ASSUME NEW d, NEW q, q.service \in {"Deposit", "Withdraw", "GetBalance"},
         ArgumentError(q) = None, AuthError(d, q) # None
  PROVE  CallService(d, q) = Fails(d, AuthError(d, q))
<1>1. CASE q.service = "Deposit"
  BY <1>1, ServiceOperators DEF ArgumentError, Deposit, MovementError, None
<1>2. CASE q.service = "Withdraw"
  BY <1>2, ServiceOperators DEF ArgumentError, Withdraw, WithdrawError, MovementError, None
<1>3. CASE q.service = "GetBalance"
  BY <1>3, ServiceOperators DEF CheckBalance
<1> QED BY <1>1, <1>2, <1>3

LEMMA TransferOutcome ==
  ASSUME NEW d, NEW q, q.service = "TransferFunds", ArgumentError(q) = None
  PROVE  /\ TransferError(d, q) # None => CallService(d, q) = Fails(d, TransferError(d, q))
         /\ TransferError(d, q) =
              IF q.account \notin DOMAIN d.accounts THEN "ErrInvalidCredentials"
              ELSE IF q.toAccount \notin DOMAIN d.accounts THEN "ErrAccountNotFound"
              ELSE IF AuthError(d, q) # None THEN AuthError(d, q)
              ELSE IF \/ d.accounts[q.account].currency # q.currency
                      \/ d.accounts[q.account].currency # d.accounts[q.toAccount].currency
                   THEN "ErrCurrencyMismatch"
              ELSE IF Less(d.accounts[q.account].balance, q.amount) THEN "ErrInsufficientFunds"
              ELSE None
<1>1. ~ AtMost(q.amount, 0) /\ q.account # q.toAccount
  BY DEF ArgumentError, None
<1> QED BY <1>1, ServiceOperators DEF Transfer, TransferError

-----------------------------------------------------------------------------
(* What a step is to the abstract bank. *)

LEMMA AbstractState ==
  ASSUME UNCHANGED <<job, AbstractResult, AbstractDb>>
  PROVE  UNCHANGED Abstract!vars
BY DEF Abstract!vars, AbstractResult, AbstractDb, Whole

\* Steps that write no struct leave the abstract database as it is.
LEMMA AbstractDbKept ==
  ASSUME NoCloses, AtomicInv, AtomicInv', NEW t \in Threads,
         (\E q \in Jobs[t] : Invoke(t, q)) \/ Step(t), ~ Create(t), ~ Write(t)
  PROVE  AbstractDb' = AbstractDb
<1>0. /\ LocksInv /\ LocksInv' /\ DOMAIN pc = Threads /\ CallOK(t)
      /\ step[t] \in {1, 2} /\ DOMAIN step = Threads
  BY DEF AtomicInv, LocksInv, FunctionsOK
<1>1. UNCHANGED <<object, stored, nextID>>
  BY <1>0, OthersLeaveStore DEF storeVars
<1>2. \/ pc[t] \notin {"Load", "Write"} /\ (pc'[t] \in {"Load", "Write"} => step'[t] = 1)
      \/ pc[t] = "Load" /\ pc'[t] = "Write" /\ UNCHANGED <<step, job>>
  <2>1. CASE Load(t)
    BY <1>0, <2>1 DEF Load, Goto
  <2>2. CASE Check(t)
    BY <1>0, <2>2 DEF Check, Goto, CallOK
  <2>3. CASE \/ \E q \in Jobs[t] : Invoke(t, q)
             \/ CheckArguments(t) \/ Lookup(t) \/ LookupPayee(t) \/ Lock(t) \/ Update(t)
             \/ Unlock(t) \/ Return(t)
    BY <1>0, <2>3
    DEF Invoke, CheckArguments, Lookup, LookupPayee, Lock, Update, Unlock, Return, Goto, Advance
  <2> QED BY <1>0, <2>1, <2>2, <2>3, NothingDeleted DEF Step
<1>3. ASSUME NEW a PROVE InTransit(a)' = InTransit(a)
  <2>1. /\ HalfDone(t, a)' <=> HalfDone(t, a)
        /\ HalfDone(t, a) => job'[t] = job[t]
    BY <1>2 DEF HalfDone
  <2> QED BY <1>0, <2>1, TransitKept
<1>4. \A a \in stored : Whole(a)' = Whole(a)
  BY <1>1, <1>3 DEF Whole
<1> QED BY <1>1, <1>4 DEF AbstractDb

\* What the others are going to return stays.
LEMMA OthersKeepResult ==
  ASSUME NoCloses, AmountsAreNumbers, AtomicInv, NumbersLeft, NEW t \in Threads,
         (\E q \in Jobs[t] : Invoke(t, q)) \/ Step(t)
  PROVE  /\ \A u \in Threads : u # t => AbstractResult'[u] = AbstractResult[u]
         /\ AbstractResult' = [AbstractResult EXCEPT ![t] = AbstractResult'[t]]
<1>1. ASSUME NEW u \in Threads, u # t PROVE AbstractResult'[u] = AbstractResult[u]
  <2>1. pc'[u] = pc[u] /\ job'[u] = job[u] /\ result'[u] = result[u]
    BY <1>1, OthersStay DEF AtomicInv, LocksInv
  <2>2. CASE pc[u] = "Update"
    <3>1. job[u].account \in Accounts(job[u])
      BY DEF Accounts
    <3>2. object'[job[u].account] = object[job[u].account]
      BY <1>1, <2>2, <3>1, OwnAccountsKept DEF Critical
    <3> QED BY <2>1, <2>2, <3>2 DEF AbstractResult, Ok
  <2>3. CASE pc[u] # "Update"
    BY <2>1, <2>3 DEF AbstractResult
  <2> QED BY <2>2, <2>3
<1>2. DOMAIN AbstractResult = Threads /\ DOMAIN AbstractResult' = Threads
  BY DEF AbstractResult
<1>3. AbstractResult' = [u \in Threads |-> AbstractResult'[u]]
      /\ AbstractResult = [u \in Threads |-> AbstractResult[u]]
  BY DEF AbstractResult
<1> QED BY <1>1, <1>2, <1>3

\* A call is open and not decided until it takes effect.
LEMMA OpenCall ==
  ASSUME AtomicInv, NEW t \in Threads, pc[t] \notin {"Idle", "Unlock", "Return"}
  PROVE  /\ job[t] \in Jobs[t] /\ job[t] # NoJob
         /\ result[t] = Undecided
         /\ pc[t] # "Update" => AbstractResult[t] = Undecided
<1>1. job[t] \in Jobs[t]
  BY DEF AtomicInv, LocksInv, CallOK
<1>2. job[t] # NoJob
  <2>1. job[t].service \in Services
    BY <1>1, JobFacts
  <2> QED BY <2>1 DEF NoJob, Services, RequiredFields
<1> QED BY <1>1, <1>2 DEF AtomicInv, DecidedOK, AbstractResult

\* A step that leaves database, calls and results is none of the abstract bank.
LEMMA Stutters ==
  ASSUME NoCloses, AmountsAreNumbers, AtomicInv, NumbersLeft, NEW t \in Threads,
         (\E q \in Jobs[t] : Invoke(t, q)) \/ Step(t), UNCHANGED job,
         AbstractDb' = AbstractDb, AbstractResult'[t] = AbstractResult[t]
  PROVE  UNCHANGED Abstract!vars
<1>1. AbstractResult' = AbstractResult
  <2>1. AbstractResult = [AbstractResult EXCEPT ![t] = AbstractResult[t]]
    BY DEF AbstractResult
  <2> QED BY <2>1, OthersKeepResult
<1> QED BY <1>1, AbstractState

\* A step in which a call takes effect.
LEMMA TakesEffect ==
  ASSUME NoCloses, AmountsAreNumbers, AtomicInv, NumbersLeft, NEW t \in Threads,
         (\E q \in Jobs[t] : Invoke(t, q)) \/ Step(t), UNCHANGED job,
         pc[t] \notin {"Idle", "Update", "Unlock", "Return"},
         AbstractDb' = CallService(AbstractDb, job[t]).db,
         AbstractResult'[t] = [err |-> CallService(AbstractDb, job[t]).err,
                               value |-> CallService(AbstractDb, job[t]).value]
  PROVE  Abstract!TakeEffect(t)
<1>1. job[t] # Abstract!NoJob /\ AbstractResult[t] = Abstract!Undecided
  BY OpenCall DEF Abstract!NoJob, NoJob, Abstract!Undecided, Undecided
<1>2. Abstract!CallService(AbstractDb, job[t]) = CallService(AbstractDb, job[t])
  BY SameService
<1>3. AbstractResult' = [AbstractResult EXCEPT ![t] = AbstractResult'[t]]
  BY OthersKeepResult
<1> QED
  BY <1>1, <1>2, <1>3 DEF Abstract!TakeEffect, AbstractResult, AbstractDb, Whole

\* One in which it is refused.
LEMMA IsRefused ==
  ASSUME NoCloses, AmountsAreNumbers, AtomicInv, AtomicInv', NumbersLeft, NEW t \in Threads,
         (\E q \in Jobs[t] : Invoke(t, q)) \/ Step(t), UNCHANGED job,
         pc[t] \notin {"Idle", "Create", "Write", "Update", "Unlock", "Return"},
         NEW e, CallService(AbstractDb, job[t]) = Fails(AbstractDb, e),
         AbstractResult'[t] = Error(e)
  PROVE  Abstract!TakeEffect(t)
<1>1. AbstractDb' = AbstractDb
  BY AbstractDbKept DEF Create, Write
<1> QED BY <1>1, TakesEffect DEF Fails, Error

-----------------------------------------------------------------------------
(* The steps, one by one. *)

LEMMA InvokeStep ==
  ASSUME NoCloses, AmountsAreNumbers, AtomicInv, AtomicInv', NumbersLeft,
         NEW t \in Threads, NEW q \in Jobs[t], Invoke(t, q)
  PROVE  Abstract!Invoke(t, q)
<1>1. /\ pc[t] = "Idle" /\ pc'[t] \in {"Create", "Arguments"} /\ UNCHANGED result
      /\ job' = [job EXCEPT ![t] = q] /\ job[t] = NoJob
  BY DEF Invoke, Goto, AtomicInv, LocksInv, FunctionsOK, DecidedOK
<1>2. AbstractDb' = AbstractDb
  <2>1. ~ Create(t) /\ ~ Write(t)
    BY <1>1 DEF Create, Write
  <2> QED BY <2>1, AbstractDbKept
<1>3. AbstractResult' = AbstractResult
  <2>1. AbstractResult'[t] = AbstractResult[t]
    BY <1>1 DEF AbstractResult
  <2>2. AbstractResult = [AbstractResult EXCEPT ![t] = AbstractResult[t]]
    BY DEF AbstractResult
  <2> QED BY <2>1, <2>2, OthersKeepResult
<1> QED
  BY <1>1, <1>2, <1>3 DEF Abstract!Invoke, Abstract!NoJob, NoJob, AbstractResult, AbstractDb, Whole

LEMMA CreateStep ==
  ASSUME NoCloses, AmountsAreNumbers, AtomicInv, AtomicInv', NumbersLeft,
         NEW t \in Threads, Create(t)
  PROVE  Abstract!TakeEffect(t)
<1> DEFINE q == job[t]
           acc == [name |-> q.name, password |-> q.password,
                   currency |-> q.currency, balance |-> q.amount]
<1>0. LocksInv /\ LocksInv' /\ stored = DOMAIN object
  BY DEF AtomicInv
<1>1. /\ pc[t] = "Create" /\ pc'[t] = "Return" /\ UNCHANGED <<job, step>>
      /\ result'[t] = Ok(nextID) /\ nextID' = (nextID + 1) % UintSize
  BY DEF Create, Goto, Decide, AtomicInv, LocksInv, FunctionsOK
<1>2. /\ object' = Put(object, nextID, acc) /\ nextID \notin DOMAIN object
      /\ stored' = stored \cup {nextID} /\ q.service = "OpenAccount"
      /\ \A a \in DOMAIN object : object'[a] = object[a]
  BY CreateAdds
<1>3. \A a : ~ HalfDone(t, a) /\ ~ HalfDone(t, a)'
  BY <1>1 DEF HalfDone
<1>4. \A a \in stored : Whole(a)' = Whole(a)
  <2>1. ASSUME NEW a PROVE InTransit(a)' = InTransit(a)
    BY <1>0, <1>3, TransitKept DEF Step
  <2> QED BY <1>0, <1>2, <2>1 DEF Whole
<1>5. ASSUME NEW n, n = nextID PROVE Whole(n)' = acc
  <2>1. \A u \in Threads : ~ HalfDone(u, n)
    <3>1. \A u \in Threads : HalfDone(u, n) => n \in DOMAIN object
      BY <1>0 DEF HalfDone, LocksInv, CallOK, Critical, Accounts
    <3> QED BY <1>2, <1>5, <3>1
  <2>2. InTransit(n) = 0 /\ InTransit(n)' = InTransit(n)
    BY <1>0, <1>3, <2>1, Transit, TransitKept DEF Step, OneInTransit
  <2>3. object'[n] = acc
    BY <1>2, <1>5 DEF Put
  <2>4. Plus(acc.balance, 0) = acc.balance
    <3>1. q \in Jobs[t]
      BY <1>0, <1>1 DEF LocksInv, CallOK
    <3>2. q.amount \in Int
      BY <1>2, <3>1, AmountIsNumber
    <3>3. Plus(q.amount, 0) = q.amount + 0
      BY <3>2, Numbers
    <3> QED BY <3>2, <3>3
  <2>5. Whole(n)' = [acc EXCEPT !.balance = Plus(@, 0)]
    BY <2>2, <2>3 DEF Whole
  <2> QED BY <2>4, <2>5
<1>6. AbstractDb'.accounts = Put(AbstractDb.accounts, nextID, acc)
  <2>1. AbstractDb'.accounts = [a \in stored \cup {nextID} |-> Whole(a)']
    BY <1>2 DEF AbstractDb
  <2> HIDE DEF acc
  <2>2. \A a \in stored \cup {nextID} :
          Whole(a)' = IF a = nextID THEN acc ELSE Whole(a)
    BY <1>0, <1>2, <1>4, <1>5
  <2> QED BY <2>1, <2>2 DEF Put, AbstractDb
<1>7. CallService(AbstractDb, q) =
        Returns([accounts |-> Put(AbstractDb.accounts, nextID, acc), nextID |-> nextID'], nextID)
  <2>1. CallService(AbstractDb, q) = OpenAccount(AbstractDb, q) /\ AbstractDb.nextID = nextID
    BY <1>2, ServiceOperators DEF AbstractDb
  <2> QED BY <1>1, <2>1 DEF OpenAccount, CreateAccount
<1>8. AbstractDb' = [accounts |-> AbstractDb'.accounts, nextID |-> nextID']
  BY DEF AbstractDb
<1>9. AbstractResult'[t] = Ok(nextID)
  BY <1>1 DEF AbstractResult
<1> QED BY <1>1, <1>6, <1>7, <1>8, <1>9, TakesEffect DEF Returns, Ok, Step

LEMMA ArgumentsStep ==
  ASSUME NoCloses, AmountsAreNumbers, AtomicInv, AtomicInv', NumbersLeft,
         NEW t \in Threads, CheckArguments(t)
  PROVE  Abstract!TakeEffect(t) \/ UNCHANGED Abstract!vars
<1>0. /\ pc[t] = "Arguments" /\ UNCHANGED job /\ Step(t)
      /\ DOMAIN pc = Threads /\ DOMAIN result = Threads
  BY DEF CheckArguments, Step, AtomicInv, LocksInv, FunctionsOK
<1>1. CASE ArgumentError(job[t]) # None
  <2>1. pc'[t] = "Return" /\ result'[t] = Error(ArgumentError(job[t]))
    BY <1>0, <1>1 DEF CheckArguments, Goto, Decide
  <2>2. AbstractResult'[t] = Error(ArgumentError(job[t]))
    BY <2>1 DEF AbstractResult
  <2> QED BY <1>0, <1>1, <2>2, RefusedForArguments, IsRefused
<1>2. CASE ArgumentError(job[t]) = None
  <2>1. pc'[t] = "Lookup" /\ UNCHANGED result
    BY <1>0, <1>2 DEF CheckArguments, Goto
  <2>2. AbstractResult'[t] = AbstractResult[t]
    BY <1>0, <2>1 DEF AbstractResult
  <2>3. AbstractDb' = AbstractDb
    BY <1>0, AbstractDbKept DEF Create, Write
  <2> QED BY <1>0, <2>2, <2>3, Stutters
<1> QED BY <1>1, <1>2

LEMMA LookupStep ==
  ASSUME NoCloses, AmountsAreNumbers, AtomicInv, AtomicInv', NumbersLeft,
         NEW t \in Threads, Lookup(t)
  PROVE  Abstract!TakeEffect(t) \/ UNCHANGED Abstract!vars
<1> DEFINE q == job[t]
           err == IF q.account \notin stored THEN "ErrInvalidCredentials"
                  ELSE IF q.service = "TransferFunds" THEN None
                  ELSE AuthError(Database, q)
<1>0. /\ pc[t] = "Lookup" /\ UNCHANGED job /\ Step(t)
      /\ DOMAIN pc = Threads /\ DOMAIN result = Threads
  BY DEF Lookup, Step, AtomicInv, LocksInv, FunctionsOK
<1>1. ArgumentError(q) = None /\ q.service \in {"Deposit", "Withdraw", "GetBalance", "TransferFunds"}
  <2>1. CallOK(t)
    BY DEF AtomicInv, LocksInv
  <2>2. q \in Jobs[t] /\ q.service # "OpenAccount" /\ ArgumentError(q) = None
    BY <1>0, <2>1 DEF CallOK
  <2>3. q.service \in Services \ {"Monitor"} /\ q.service # "CloseAccount"
    BY <2>2, JobFacts DEF NoCloses
  <2> QED BY <2>2, <2>3 DEF Services, RequiredFields
<1>2. CASE err # None
  <2>1. pc'[t] = "Return" /\ result'[t] = Error(err)
    BY <1>0, <1>2 DEF Lookup, Goto, Decide
  <2>2. AbstractResult'[t] = Error(err)
    BY <2>1 DEF AbstractResult
  <2>3. CallService(AbstractDb, q) = Fails(AbstractDb, err)
    <3>1. DOMAIN AbstractDb.accounts = stored /\ AuthError(AbstractDb, q) = AuthError(Database, q)
          /\ DOMAIN Database.accounts = stored
      BY AbstractDbFacts DEF Database
    <3>2. CASE q.service = "TransferFunds"
      BY <1>1, <1>2, <3>1, <3>2, TransferOutcome DEF None
    <3>3. CASE q.service # "TransferFunds"
      <4>1. err = AuthError(AbstractDb, q)
        BY <3>1, <3>3 DEF AuthError
      <4> QED BY <1>1, <1>2, <3>3, <4>1, RefusedForCredentials
    <3> QED BY <3>2, <3>3
  <2> HIDE DEF err
  <2> QED BY <1>0, <2>2, <2>3, IsRefused
<1>3. CASE err = None
  <2>1. pc'[t] \in {"LookupPayee", "Lock"} /\ UNCHANGED result
    BY <1>0, <1>3 DEF Lookup, Goto
  <2>2. AbstractResult'[t] = AbstractResult[t]
    BY <1>0, <2>1 DEF AbstractResult
  <2>3. AbstractDb' = AbstractDb
    BY <1>0, AbstractDbKept DEF Create, Write
  <2> QED BY <1>0, <2>2, <2>3, Stutters
<1> QED BY <1>2, <1>3

LEMMA LookupPayeeStep ==
  ASSUME NoCloses, AmountsAreNumbers, AtomicInv, AtomicInv', NumbersLeft,
         NEW t \in Threads, LookupPayee(t)
  PROVE  Abstract!TakeEffect(t) \/ UNCHANGED Abstract!vars
<1> DEFINE q == job[t]
           auth == AuthError([accounts |-> object], q)
           err == IF q.toAccount \notin stored THEN "ErrAccountNotFound"
                  ELSE IF auth # None THEN auth
                  ELSE IF \/ object[q.account].currency # q.currency
                          \/ object[q.account].currency # object[q.toAccount].currency
                  THEN "ErrCurrencyMismatch" ELSE None
<1>0. /\ pc[t] = "LookupPayee" /\ UNCHANGED job /\ Step(t)
      /\ DOMAIN pc = Threads /\ DOMAIN result = Threads
  BY DEF LookupPayee, Step, AtomicInv, LocksInv, FunctionsOK
<1>1. ArgumentError(q) = None /\ q.service = "TransferFunds" /\ q.account \in stored
  <2>1. CallOK(t) /\ stored = DOMAIN object
    BY DEF AtomicInv, LocksInv
  <2> QED BY <1>0, <2>1 DEF CallOK
<1>2. CASE err # None
  <2>1. pc'[t] = "Return" /\ result'[t] = Error(err)
    BY <1>0, <1>2 DEF LookupPayee, Goto, Decide
  <2>2. AbstractResult'[t] = Error(err)
    BY <2>1 DEF AbstractResult
  <2>3. CallService(AbstractDb, q) = Fails(AbstractDb, err)
    <3>1. DOMAIN AbstractDb.accounts = stored /\ AuthError(AbstractDb, q) = auth
      BY AbstractDbFacts
    <3>2. \A a \in stored : AbstractDb.accounts[a].currency = object[a].currency
      BY AbstractDbFacts, WholeAccounts
    <3> HIDE DEF auth
    <3> QED BY <1>1, <1>2, <3>1, <3>2, TransferOutcome DEF None
  <2> HIDE DEF err
  <2> QED BY <1>0, <2>2, <2>3, IsRefused
<1>3. CASE err = None
  <2>1. pc'[t] = "Lock" /\ UNCHANGED result
    BY <1>0, <1>3 DEF LookupPayee, Goto
  <2>2. AbstractResult'[t] = AbstractResult[t]
    BY <1>0, <2>1 DEF AbstractResult
  <2>3. AbstractDb' = AbstractDb
    BY <1>0, AbstractDbKept DEF Create, Write
  <2> QED BY <1>0, <2>2, <2>3, Stutters
<1> QED BY <1>2, <1>3

LEMMA MutexStep ==
  ASSUME NoCloses, AmountsAreNumbers, AtomicInv, AtomicInv', NumbersLeft,
         NEW t \in Threads, Lock(t) \/ Unlock(t) \/ Load(t)
  PROVE  UNCHANGED Abstract!vars
<1>1. /\ pc[t] \notin {"Create", "Write", "Update"} /\ pc'[t] # "Update"
      /\ UNCHANGED <<job, result>> /\ Step(t)
  BY DEF Lock, Unlock, Load, Step, Goto, Advance, AtomicInv, LocksInv, FunctionsOK
<1>2. AbstractDb' = AbstractDb
  BY <1>1, AbstractDbKept DEF Create, Write
<1>3. AbstractResult'[t] = AbstractResult[t]
  BY <1>1 DEF AbstractResult
<1> QED BY <1>1, <1>2, <1>3, Stutters

LEMMA CheckStep ==
  ASSUME NoCloses, AmountsAreNumbers, AtomicInv, AtomicInv', NumbersLeft,
         NEW t \in Threads, Check(t)
  PROVE  Abstract!TakeEffect(t) \/ UNCHANGED Abstract!vars
<1> DEFINE q == job[t]
           acc == AbstractDb.accounts[q.account]
<1>0. /\ pc[t] = "Check" /\ UNCHANGED job /\ Step(t)
      /\ DOMAIN pc = Threads /\ DOMAIN result = Threads
      /\ CallOK(t) /\ CheckedOK(t) /\ stored = DOMAIN object
  BY DEF Check, Step, AtomicInv, LocksInv, FunctionsOK
<1>1. ArgumentError(q) = None /\ q.service \in {"Deposit", "Withdraw", "GetBalance", "TransferFunds"}
  <2>1. q \in Jobs[t] /\ q.service # "OpenAccount" /\ ArgumentError(q) = None
    BY <1>0 DEF CallOK
  <2>2. q.service \in Services \ {"Monitor"} /\ q.service # "CloseAccount"
    BY <2>1, JobFacts DEF NoCloses
  <2> QED BY <2>1, <2>2 DEF Services, RequiredFields
<1>2. /\ q.account \in stored /\ acc = object[q.account]
      /\ AuthError(AbstractDb, q) = None
      /\ q.service = "TransferFunds" =>
           /\ q.toAccount \in stored /\ object[q.account].currency = q.currency
           /\ object[q.account].currency = object[q.toAccount].currency
           /\ AbstractDb.accounts[q.toAccount].currency = object[q.toAccount].currency
  <2>1. ~ HalfDone(t, q.account) /\ q.account \in Accounts(q) /\ pc[t] \in Critical
    BY <1>0 DEF HalfDone, Accounts, Critical
  <2>2. q.account \in stored /\ Whole(q.account) = object[q.account]
    BY <2>1, WholeHere
  <2>3. q.service = "TransferFunds" => q.toAccount \in stored /\ CurrenciesAgree(q)
    BY <1>0 DEF CallOK, CheckedOK, Critical, Accounts
  <2>4. AuthError(AbstractDb, q) = None
    BY <1>0, AbstractDbFacts DEF CheckedOK
  <2> QED BY <2>2, <2>3, <2>4, AbstractDbFacts, WholeAccounts DEF CurrenciesAgree
<1>3. CASE LockedError(q) # None
  <2> DEFINE err == LockedError(q)
  <2>1. pc'[t] = "Unlock" /\ result'[t] = Error(err)
    BY <1>0, <1>3 DEF Check, Goto, Decide
  <2>2. AbstractResult'[t] = Error(err)
    BY <2>1 DEF AbstractResult
  <2>3. CallService(AbstractDb, q) = Fails(AbstractDb, err)
    <3>1. ~ (q.service \in {"Deposit", "Withdraw"} /\ AtMost(q.amount, 0))
      BY <1>1 DEF ArgumentError, None
    <3>2. DOMAIN AbstractDb.accounts = stored
      BY AbstractDbFacts
    <3> HIDE DEF acc
    <3>3. CASE q.service = "Deposit"
      BY <1>2, <1>3, <3>1, <3>3, ServiceOperators DEF acc, LockedError, Deposit, MovementError, None
    <3>4. CASE q.service = "Withdraw"
      BY <1>2, <1>3, <3>1, <3>4, ServiceOperators
      DEF acc, LockedError, Withdraw, WithdrawError, MovementError, None
    <3>5. CASE q.service = "TransferFunds"
      BY <1>1, <1>2, <1>3, <3>2, <3>5, TransferOutcome DEF acc, LockedError, None
    <3>6. CASE q.service = "GetBalance"
      BY <1>3, <3>6 DEF LockedError
    <3> QED BY <1>1, <3>3, <3>4, <3>5, <3>6
  <2> HIDE DEF err
  <2> QED BY <1>0, <2>2, <2>3, IsRefused
<1>4. CASE LockedError(q) = None /\ q.service = "GetBalance"
  <2>1. pc'[t] = "Unlock" /\ result'[t] = Ok(object[q.account].balance)
    BY <1>0, <1>4 DEF Check, Goto, Decide
  <2>2. AbstractResult'[t] = Ok(object[q.account].balance)
    BY <2>1 DEF AbstractResult
  <2>3. CallService(AbstractDb, q) = Returns(AbstractDb, object[q.account].balance)
    BY <1>2, <1>4, ServiceOperators DEF CheckBalance
  <2>4. AbstractDb' = AbstractDb
    BY <1>0, AbstractDbKept DEF Create, Write
  <2> QED BY <1>0, <2>2, <2>3, <2>4, TakesEffect DEF Returns, Ok
<1>5. CASE LockedError(q) = None /\ q.service # "GetBalance"
  <2>1. pc'[t] = "Load" /\ UNCHANGED result
    BY <1>0, <1>1, <1>5 DEF Check, Goto
  <2>2. AbstractResult'[t] = AbstractResult[t]
    BY <1>0, <2>1 DEF AbstractResult
  <2>3. AbstractDb' = AbstractDb
    BY <1>0, AbstractDbKept DEF Create, Write
  <2> QED BY <1>0, <2>2, <2>3, Stutters
<1> QED BY <1>3, <1>4, <1>5

LEMMA UpdateStep ==
  ASSUME NoCloses, AmountsAreNumbers, AtomicInv, AtomicInv', NumbersLeft,
         NEW t \in Threads, Update(t)
  PROVE  UNCHANGED Abstract!vars
<1> DEFINE q == job[t]
<1>0. /\ pc[t] = "Update" /\ UNCHANGED <<job, object>> /\ Step(t)
      /\ DOMAIN pc = Threads /\ DOMAIN result = Threads /\ q.account \in stored
  <2>1. CallOK(t) /\ stored = DOMAIN object
    BY DEF AtomicInv, LocksInv
  <2> QED BY <2>1 DEF Update, Step, storeVars, AtomicInv, LocksInv, FunctionsOK, CallOK, Critical, Accounts
<1>1. \/ pc'[t] = "Update"
      \/ pc'[t] # "Update" /\ result'[t] = Ok(object[q.account].balance)
  BY <1>0 DEF Update, Goto, Decide
<1>2. AbstractResult'[t] = AbstractResult[t]
  BY <1>0, <1>1 DEF AbstractResult, Ok
<1>3. AbstractDb' = AbstractDb
  BY <1>0, AbstractDbKept DEF Create, Write
<1> QED BY <1>0, <1>2, <1>3, Stutters

LEMMA ReturnStep ==
  ASSUME NoCloses, AmountsAreNumbers, AtomicInv, AtomicInv', NumbersLeft,
         NEW t \in Threads, Return(t)
  PROVE  Abstract!Return(t)
<1>1. /\ pc[t] = "Return" /\ pc'[t] = "Idle" /\ Step(t)
      /\ result'[t] = Undecided /\ result[t] # Undecided
      /\ job' = [job EXCEPT ![t] = NoJob]
  BY DEF Return, Step, Goto, Decide, AtomicInv, LocksInv, FunctionsOK, DecidedOK
<1>2. AbstractDb' = AbstractDb
  BY <1>1, AbstractDbKept DEF Create, Write
<1>3. AbstractResult[t] # Undecided /\ AbstractResult'[t] = Undecided
  BY <1>1 DEF AbstractResult
<1>4. AbstractResult' = [AbstractResult EXCEPT ![t] = Undecided]
  BY <1>1, <1>3, OthersKeepResult
<1> QED
  BY <1>1, <1>2, <1>3, <1>4
  DEF Abstract!Return, Abstract!Undecided, Undecided, Abstract!NoJob, NoJob,
      AbstractResult, AbstractDb, Whole

\* A payment into an account of the abstract database.
LEMMA Paid ==
  ASSUME NEW f, NEW k, NEW a \in DOMAIN f, NEW n
  PROVE  AddToBalance([accounts |-> f, nextID |-> k], a, n) =
           [accounts |-> [f EXCEPT ![a].balance = Plus(@, n)], nextID |-> k]
BY DEF AddToBalance

\* What a write changes of the abstract accounts, in terms of the step it is.
LEMMA WriteFacts ==
  ASSUME NoCloses, AmountsAreNumbers, AtomicInv, AtomicInv', NumbersLeft,
         NEW t \in Threads, Write(t)
  PROVE  /\ pc[t] = "Write" /\ Step(t) /\ UNCHANGED <<job, result, stored, nextID>>
         /\ stored = DOMAIN object
         /\ step[t] = 1 /\ job[t].service = "TransferFunds" =>
              pc'[t] = "Load" /\ step'[t] = 2
         /\ ~ (step[t] = 1 /\ job[t].service = "TransferFunds") => pc'[t] = "Update"
<1>0. /\ LocksInv /\ DOMAIN pc = Threads /\ DOMAIN step = Threads /\ stored = DOMAIN object
      /\ pc[t] = "Write" /\ Step(t) /\ UNCHANGED <<job, result, stored, nextID>>
  BY DEF Write, Step, AtomicInv, LocksInv, FunctionsOK
<1>1. /\ Len(Moves(job[t])) = IF job[t].service = "TransferFunds" THEN 2 ELSE 1
      /\ step[t] \in {1, 2} /\ (step[t] = 2 => job[t].service = "TransferFunds")
  BY <1>0, Movement, MoveFacts
<1>2. Advance(t, Moves(job[t]), "Update", "Load")
  BY DEF Write
<1>3. CASE step[t] = 1 /\ job[t].service = "TransferFunds"
  BY <1>0, <1>1, <1>2, <1>3 DEF Advance, Goto
<1>4. CASE ~ (step[t] = 1 /\ job[t].service = "TransferFunds")
  BY <1>0, <1>1, <1>2, <1>4 DEF Advance, Goto
<1> QED BY <1>0, <1>3, <1>4

\* The first write of a transfer: what the payer's struct loses is in transit.
LEMMA FirstWriteStep ==
  ASSUME NoCloses, AmountsAreNumbers, AtomicInv, AtomicInv', NumbersLeft,
         NEW t \in Threads, Write(t), step[t] = 1, job[t].service = "TransferFunds"
  PROVE  UNCHANGED Abstract!vars
<1> DEFINE q == job[t]
<1>0. /\ pc[t] = "Write" /\ pc'[t] = "Load" /\ step'[t] = 2 /\ Step(t)
      /\ UNCHANGED <<job, result, stored, nextID>> /\ LocksInv /\ LocksInv' /\ stored = DOMAIN object
  BY WriteFacts DEF AtomicInv
<1>1. /\ q.account \in stored /\ Whole(q.account) = object[q.account]
      /\ object[q.account] \in Account /\ object[q.account].balance \in Int
      /\ q.amount \in Int
  <2>1. ~ HalfDone(t, q.account) /\ q.account \in Accounts(q) /\ pc[t] \in Critical
    BY <1>0 DEF HalfDone, Accounts, Critical
  <2>2. q.account \in stored /\ Whole(q.account) = object[q.account]
    BY <2>1, WholeHere
  <2> QED BY <1>0, <2>2, Movement, WholeAccounts
<1>2. object' = [object EXCEPT ![q.account].balance = @ + (-q.amount)]
  <2>1. Moves(q)[step[t]].account = q.account /\ Moves(q)[step[t]].amount = -q.amount
    BY <1>0, Movement DEF Pays
  <2> QED BY <2>1, WriteAdds
<1>3. ASSUME NEW a \in stored PROVE Whole(a)' = Whole(a)
  <2>1. HalfDone(t, a)' <=> a = q.account
    BY <1>0 DEF HalfDone
  <2>2. CASE a = q.account
    <3>1. InTransit(a)' = q.amount
      BY <1>0, <2>1, <2>2, TransitLater DEF OneInTransit
    <3>2. object'[a] = [object[a] EXCEPT !.balance = @ + (-q.amount)]
      BY <1>0, <1>1, <1>2, <2>2
    <3>3. object'[a].balance = object[a].balance + (-q.amount)
      BY <1>1, <2>2, <3>2 DEF Account
    <3>4. Plus(object'[a].balance, q.amount) = object[a].balance
      <4>1. object'[a].balance \in Int
        BY <1>1, <2>2, <3>3
      <4>2. Plus(object'[a].balance, q.amount) = object'[a].balance + q.amount
        BY <1>1, <4>1, Numbers
      <4> QED BY <1>1, <2>2, <3>3, <4>2
    <3>5. Whole(a)' = [object'[a] EXCEPT !.balance = object[a].balance]
      BY <3>1, <3>4 DEF Whole
    <3>6. Whole(a)' = object[a]
      BY <1>1, <2>2, <3>2, <3>5 DEF Account
    <3> QED BY <1>1, <2>2, <3>6
  <2>3. CASE a # q.account
    <3>1. ~ HalfDone(t, a) /\ ~ HalfDone(t, a)'
      BY <2>1, <2>3 DEF HalfDone
    <3>2. InTransit(a)' = InTransit(a)
      BY <1>0, <3>1, TransitKept
    <3>3. object'[a] = object[a]
      BY <1>0, <1>2, <2>3
    <3> QED BY <3>2, <3>3 DEF Whole
  <2> QED BY <2>2, <2>3
<1>4. AbstractDb' = AbstractDb
  BY <1>0, <1>3 DEF AbstractDb
<1>5. AbstractResult'[t] = AbstractResult[t]
  BY <1>0 DEF AbstractResult
<1> QED BY <1>0, <1>4, <1>5, Stutters

\* The write of a deposit or a withdrawal.
LEMMA OnlyWriteStep ==
  ASSUME NoCloses, AmountsAreNumbers, AtomicInv, AtomicInv', NumbersLeft,
         NEW t \in Threads, Write(t), job[t].service \in {"Deposit", "Withdraw"}
  PROVE  Abstract!TakeEffect(t)
<1> DEFINE q == job[t]
           n == Moves(q)[step[t]].amount
<1>0. /\ pc[t] = "Write" /\ pc'[t] = "Update" /\ Step(t)
      /\ UNCHANGED <<job, result, stored, nextID>> /\ LocksInv /\ LocksInv' /\ stored = DOMAIN object
  BY WriteFacts DEF AtomicInv
<1>1. /\ step[t] = 1 /\ Moves(q)[step[t]].account = q.account
      /\ n = IF q.service = "Withdraw" THEN -q.amount ELSE q.amount
      /\ q.amount \in Int /\ n \in Int
  BY <1>0, Movement DEF Pays
<1>2. /\ q.account \in stored /\ Whole(q.account) = object[q.account]
      /\ object[q.account] \in Account /\ object[q.account].balance \in Int
  <2>1. ~ HalfDone(t, q.account) /\ q.account \in Accounts(q) /\ pc[t] \in Critical
    BY <1>0, <1>1 DEF HalfDone, Accounts, Critical
  <2>2. q.account \in stored /\ Whole(q.account) = object[q.account]
    BY <2>1, WholeHere
  <2> QED BY <2>2, WholeAccounts
<1>3. object' = [object EXCEPT ![q.account].balance = @ + n]
  BY <1>1, WriteAdds
<1> HIDE DEF n
<1>4. AbstractDb' = AddToBalance(AbstractDb, q.account, n)
  <2>1. ASSUME NEW a PROVE InTransit(a)' = InTransit(a)
    <3>1. ~ HalfDone(t, a) /\ ~ HalfDone(t, a)'
      BY <1>0, <1>1 DEF HalfDone
    <3> QED BY <1>0, <3>1, TransitKept
  <2>2. \A a \in stored : a # q.account => Whole(a)' = Whole(a)
    BY <1>0, <1>3, <2>1 DEF Whole
  <2>3. ASSUME NEW a, a = q.account
        PROVE  Whole(a)' = [Whole(a) EXCEPT !.balance = Plus(@, n)]
    <3>1. object'[a] = [object[a] EXCEPT !.balance = @ + n]
      BY <1>0, <1>2, <1>3, <2>3
    <3>2. object'[a] = [object[a] EXCEPT !.balance = Plus(@, n)]
      BY <1>1, <1>2, <2>3, <3>1, Numbers
    <3>3. Whole(a)' = object'[a]
      <4>1. pc'[t] \in Critical /\ a \in Accounts(q) /\ ~ HalfDone(t, a)'
        BY <1>0, <2>3 DEF Critical, Accounts, HalfDone
      <4>2. InTransit(a) = 0
        <5>1. ~ HalfDone(t, a) /\ a \in Accounts(q) /\ pc[t] \in Critical
          BY <1>0, <1>1, <4>1 DEF HalfDone, Critical
        <5> QED BY <5>1, WholeHere
      <4>3. InTransit(a)' = 0
        BY <2>1, <4>2
      <4>4. object'[a].balance = object[a].balance + n
        BY <1>2, <2>3, <3>1 DEF Account
      <4>5. Plus(object'[a].balance, 0) = object'[a].balance
        <5>1. object'[a].balance \in Int
          BY <1>1, <1>2, <2>3, <4>4
        <5>2. Plus(object'[a].balance, 0) = object'[a].balance + 0
          BY <5>1, Numbers
        <5> QED BY <5>1, <5>2
      <4>6. Whole(a)' = [object'[a] EXCEPT !.balance = object'[a].balance]
        BY <4>3, <4>5 DEF Whole
      <4> QED BY <1>2, <2>3, <3>1, <4>6 DEF Account
    <3> QED BY <1>2, <2>3, <3>2, <3>3
  <2>4. AbstractDb' = [accounts |-> [a \in stored |-> Whole(a)'], nextID |-> nextID]
    BY <1>0 DEF AbstractDb
  <2>5. AddToBalance(AbstractDb, q.account, n) =
          [accounts |-> [AbstractDb.accounts EXCEPT ![q.account].balance = Plus(@, n)],
           nextID |-> nextID]
    BY <1>2, Paid DEF AbstractDb
  <2>6. [a \in stored |-> Whole(a)'] =
          [AbstractDb.accounts EXCEPT ![q.account].balance = Plus(@, n)]
    BY <1>2, <2>2, <2>3 DEF AbstractDb
  <2> QED BY <2>4, <2>5, <2>6
<1>5. CallService(AbstractDb, q) =
        Returns(AddToBalance(AbstractDb, q.account, n), Plus(object[q.account].balance, n))
  <2>1. /\ AuthError(AbstractDb, q) = None /\ ~ AtMost(q.amount, 0)
        /\ AbstractDb.accounts[q.account] = object[q.account]
        /\ object[q.account].currency = q.currency
    <3>1. CheckedOK(t) /\ CallOK(t)
      BY <1>0 DEF AtomicInv, LocksInv
    <3>2. ArgumentError(q) = None
      BY <1>0, <3>1 DEF CallOK
    <3> QED BY <1>0, <1>2, <3>1, <3>2, AbstractDbFacts
            DEF CheckedOK, CurrenciesAgree, ArgumentError, None
  <2>2. MovementError(AbstractDb, q) = None
    BY <2>1 DEF MovementError, None
  <2>3. CASE q.service = "Deposit"
    BY <1>1, <2>1, <2>2, <2>3, ServiceOperators DEF Deposit, n
  <2>4. CASE q.service = "Withdraw"
    <3>1. q.amount <= object[q.account].balance
      BY <1>0, <1>1, <2>4 DEF AtomicInv, MovementOK, Pays
    <3>2. ~ Less(object[q.account].balance, q.amount)
      <4>1. Less(object[q.account].balance, q.amount) <=> object[q.account].balance < q.amount
        BY <1>1, <1>2, Numbers
      <4> QED BY <1>1, <1>2, <3>1, <4>1
    <3>3. WithdrawError(AbstractDb, q) = None
      BY <2>1, <2>2, <3>2 DEF WithdrawError
    <3>4. Negative(q.amount) = n
      BY <1>1, <2>4, Numbers
    <3> QED BY <2>1, <2>4, <3>3, <3>4, ServiceOperators DEF Withdraw
  <2> QED BY <2>3, <2>4
<1>6. AbstractResult'[t] = Ok(Plus(object[q.account].balance, n))
  <2>1. AbstractResult'[t] = Ok(object'[q.account].balance)
    BY <1>0 DEF AbstractResult, Ok
  <2>2. object'[q.account].balance = object[q.account].balance + n
    BY <1>0, <1>2, <1>3 DEF Account
  <2> QED BY <1>1, <1>2, <2>1, <2>2, Numbers
<1> QED BY <1>0, <1>4, <1>5, <1>6, TakesEffect DEF Returns, Ok

\* The second write of a transfer: nothing is in transit out of the payer any more.
LEMMA LastWriteStep ==
  ASSUME NoCloses, AmountsAreNumbers, AtomicInv, AtomicInv', NumbersLeft,
         NEW t \in Threads, Write(t), step[t] = 2
  PROVE  Abstract!TakeEffect(t)
<1> DEFINE q == job[t]
           n == q.amount
           payer == q.account
           payee == q.toAccount
<1>0. /\ pc[t] = "Write" /\ pc'[t] = "Update" /\ Step(t)
      /\ UNCHANGED <<job, result, stored, nextID>> /\ LocksInv /\ LocksInv' /\ stored = DOMAIN object
  BY WriteFacts DEF AtomicInv
<1>1. /\ q.service = "TransferFunds" /\ payer # payee /\ n \in Int
      /\ Moves(q)[step[t]].account = payee /\ Moves(q)[step[t]].amount = n
  BY <1>0, Movement DEF Pays
<1>2. /\ \A a : HalfDone(t, a) <=> a = payer
      /\ \A a : ~ HalfDone(t, a)'
  BY <1>0 DEF HalfDone
<1>3. /\ payer \in stored /\ payee \in stored /\ Accounts(q) = {payer, payee}
  <2>1. CallOK(t)
    BY <1>0 DEF LocksInv
  <2> QED BY <1>0, <1>1, <2>1 DEF CallOK, Critical, Accounts
<1>4. /\ InTransit(payer) = n /\ Whole(payer).balance = object[payer].balance + n
      /\ object[payer] \in Account /\ object[payer].balance \in Int
      /\ Whole(payer) = [object[payer] EXCEPT !.balance = object[payer].balance + n]
  <2>1. InTransit(payer) = n
    BY <1>0, <1>2, Transit DEF OneInTransit
  <2> QED BY <1>3, <2>1, WholeAccounts
<1>5. /\ InTransit(payee) = 0 /\ Whole(payee) = object[payee]
      /\ object[payee] \in Account /\ object[payee].balance \in Int
  <2>1. ~ HalfDone(t, payee) /\ payee \in Accounts(q) /\ pc[t] \in Critical
    BY <1>0, <1>1, <1>2, <1>3 DEF Critical
  <2>2. payee \in stored /\ InTransit(payee) = 0 /\ Whole(payee) = object[payee]
    BY <2>1, WholeHere
  <2> QED BY <2>2, WholeAccounts
<1>6. object' = [object EXCEPT ![payee].balance = @ + n]
  BY <1>1, WriteAdds
<1>7. ASSUME NEW a, a # payer PROVE InTransit(a)' = InTransit(a)
  BY <1>0, <1>2, <1>7, TransitKept
<1>8. ASSUME NEW a, a = payer PROVE InTransit(a)' = 0
  <2>1. a \in held[t]
    BY <1>0, <1>3, <1>8 DEF LocksInv, HoldsOwn, Critical
  <2>2. ASSUME NEW u \in Threads, u # t PROVE ~ HalfDone(u, a)'
    <3>1. HalfDone(u, a) => a \in held[u]
      BY <1>0 DEF LocksInv, HoldsOwn, HalfDone, Critical, Accounts
    <3>2. ~ HalfDone(u, a)
      BY <1>0, <2>1, <2>2, <3>1 DEF LocksInv, Exclusion
    <3>3. pc'[u] = pc[u] /\ job'[u] = job[u] /\ step'[u] = step[u]
      BY <1>0, <2>2, OthersStay DEF LocksInv
    <3> QED BY <3>2, <3>3 DEF HalfDone
  <2> QED BY <1>0, <1>2, <2>2, TransitLater DEF OneInTransit
<1> HIDE DEF payer, payee, n
\* The accounts afterwards.
<1>9. ASSUME NEW a, a = payer PROVE Whole(a)' = [Whole(a) EXCEPT !.balance = Plus(@, -n)]
  <2>1. object'[a] = object[a] /\ InTransit(a)' = 0
    BY <1>0, <1>1, <1>6, <1>8, <1>9
  <2>2. Plus(object[a].balance, 0) = object[a].balance + 0
    BY <1>4, <1>9, Numbers
  <2>3. Whole(a)' = [object[a] EXCEPT !.balance = object[a].balance + 0]
    BY <2>1, <2>2 DEF Whole
  <2>4. Whole(a)' = object[a]
    BY <1>4, <1>9, <2>3 DEF Account
  <2>5. Plus(Whole(a).balance, -n) = object[a].balance
    <3>0. Whole(a).balance = object[a].balance + n /\ object[a].balance \in Int
      BY <1>4, <1>9
    <3>1. /\ Whole(a).balance = object[a].balance + n /\ object[a].balance \in Int
          /\ Whole(a).balance \in Int /\ -n \in Int
      BY <1>1, <3>0
    <3>2. Plus(Whole(a).balance, -n) = Whole(a).balance + (-n)
      BY <3>1, Numbers
    <3> QED BY <1>1, <3>1, <3>2
  <2>6. [Whole(a) EXCEPT !.balance = Plus(@, -n)] = [Whole(a) EXCEPT !.balance = object[a].balance]
    BY <2>5
  <2>7. Whole(a) = [object[a] EXCEPT !.balance = object[a].balance + n]
    BY <1>4, <1>9
  <2> QED BY <1>4, <1>9, <2>4, <2>6, <2>7 DEF Account
<1>10. ASSUME NEW a, a = payee PROVE Whole(a)' = [Whole(a) EXCEPT !.balance = Plus(@, n)]
  <2>1. object'[a] = [object[a] EXCEPT !.balance = @ + n] /\ InTransit(a)' = 0
    BY <1>0, <1>1, <1>3, <1>5, <1>6, <1>7, <1>10
  <2>2. object[a] \in Account /\ object[a].balance \in Int /\ Whole(a) = object[a]
    BY <1>5, <1>10
  <2>3. object'[a].balance = object[a].balance + n
    BY <2>1, <2>2 DEF Account
  <2>4. Plus(object'[a].balance, 0) = object'[a].balance
    <3>1. object'[a].balance \in Int
      BY <1>1, <2>2, <2>3
    <3>2. Plus(object'[a].balance, 0) = object'[a].balance + 0
      BY <3>1, Numbers
    <3> QED BY <3>1, <3>2
  <2>5. Whole(a)' = [object'[a] EXCEPT !.balance = object'[a].balance]
    BY <2>1, <2>4 DEF Whole
  <2>6. Whole(a)' = [object[a] EXCEPT !.balance = @ + n]
    BY <2>1, <2>2, <2>3, <2>5 DEF Account
  <2>7. Plus(object[a].balance, n) = object[a].balance + n
    BY <1>1, <2>2, Numbers
  <2> QED BY <2>2, <2>6, <2>7
<1>11. \A a \in stored \ {payer, payee} : Whole(a)' = Whole(a)
  BY <1>0, <1>6, <1>7 DEF Whole
<1>12. AbstractDb' = AddToBalance(AddToBalance(AbstractDb, payer, -n), payee, n)
  <2> DEFINE f == AbstractDb.accounts
             g == [f EXCEPT ![payer].balance = Plus(@, -n)]
             h == [g EXCEPT ![payee].balance = Plus(@, n)]
  <2>1. AbstractDb = [accounts |-> f, nextID |-> nextID] /\ DOMAIN f = stored
    BY DEF AbstractDb
  <2>2. AddToBalance(AbstractDb, payer, -n) = [accounts |-> g, nextID |-> nextID]
    BY <1>3, <2>1, Paid
  <2>3. AddToBalance([accounts |-> g, nextID |-> nextID], payee, n) = [accounts |-> h, nextID |-> nextID]
    <3>1. payee \in DOMAIN g
      BY <1>3, <2>1
    <3> QED BY <3>1, Paid
  <2>4. AbstractDb' = [accounts |-> [a \in stored |-> Whole(a)'], nextID |-> nextID]
    BY <1>0 DEF AbstractDb
  <2>5. [a \in stored |-> Whole(a)'] = h
    <3>1. f = [a \in stored |-> Whole(a)]
      BY DEF AbstractDb
    <3>2. h = [a \in stored |-> IF a = payer THEN [Whole(a) EXCEPT !.balance = Plus(@, -n)]
                                ELSE IF a = payee THEN [Whole(a) EXCEPT !.balance = Plus(@, n)]
                                ELSE Whole(a)]
      BY <1>1, <1>3, <3>1
    <3>3. \A a \in stored :
            Whole(a)' = IF a = payer THEN [Whole(a) EXCEPT !.balance = Plus(@, -n)]
                        ELSE IF a = payee THEN [Whole(a) EXCEPT !.balance = Plus(@, n)]
                        ELSE Whole(a)
      BY <1>9, <1>10, <1>11
    <3> HIDE DEF h
    <3> QED BY <3>2, <3>3
  <2> QED BY <2>2, <2>3, <2>4, <2>5
<1>13. CallService(AbstractDb, q) =
         Returns(AddToBalance(AddToBalance(AbstractDb, payer, -n), payee, n), object[payer].balance)
  <2>1. CheckedOK(t) /\ CallOK(t) /\ MovementOK(t) /\ ArgumentError(q) = None
    BY <1>0 DEF AtomicInv, LocksInv, CallOK
  <2>2. /\ DOMAIN AbstractDb.accounts = stored
        /\ AbstractDb.accounts[payer] = Whole(payer) /\ AbstractDb.accounts[payee] = Whole(payee)
        /\ AuthError(AbstractDb, q) = None
    BY <1>0, <1>3, <2>1, AbstractDbFacts DEF CheckedOK
  <2>3. /\ AbstractDb.accounts[payer].currency = q.currency
        /\ AbstractDb.accounts[payer].currency = AbstractDb.accounts[payee].currency
    BY <1>0, <1>1, <1>3, <2>1, <2>2, WholeAccounts DEF CheckedOK, CurrenciesAgree, payer, payee
  <2>4. ~ Less(AbstractDb.accounts[payer].balance, n)
    <3>1. 0 <= object[payer].balance
      BY <1>0, <2>1 DEF MovementOK, payer
    <3>2. Whole(payer).balance = object[payer].balance + n /\ Whole(payer).balance \in Int
      BY <1>1, <1>4
    <3>3. Less(Whole(payer).balance, n) <=> Whole(payer).balance < n
      BY <1>1, <3>2, Numbers
    <3> QED BY <1>1, <1>4, <2>2, <3>1, <3>2, <3>3
  <2>5. TransferError(AbstractDb, q) = None
    <3>1. ~ AtMost(n, 0)
      BY <1>1, <2>1 DEF ArgumentError, None, n
    <3> QED BY <1>1, <1>3, <2>2, <2>3, <2>4, <3>1 DEF TransferError, payer, payee, n
  <2>6. Negative(n) = -n /\ Plus(Whole(payer).balance, -n) = object[payer].balance
    <3>1. Negative(n) = -n
      BY <1>1, Numbers
    <3>2. Whole(payer).balance \in Int /\ -n \in Int
      BY <1>1, <1>4
    <3>3. Plus(Whole(payer).balance, -n) = Whole(payer).balance + (-n)
      BY <3>2, Numbers
    <3> QED BY <1>1, <1>4, <3>1, <3>3
  <2>7. CallService(AbstractDb, q) = Transfer(AbstractDb, q)
    BY <1>1, ServiceOperators
  <2>8. Transfer(AbstractDb, q) =
          Returns(AddToBalance(AddToBalance(AbstractDb, payer, Negative(n)), payee, n),
                  Plus(AbstractDb.accounts[payer].balance, Negative(n)))
    BY <2>5 DEF Transfer, payer, payee, n
  <2> QED BY <2>2, <2>6, <2>7, <2>8
<1>14. AbstractResult'[t] = Ok(object[payer].balance)
  <2>1. AbstractResult'[t] = Ok(object'[payer].balance)
    BY <1>0 DEF AbstractResult, Ok, payer
  <2>2. object'[payer] = object[payer]
    BY <1>0, <1>1, <1>3, <1>6
  <2> QED BY <2>1, <2>2
<1> QED BY <1>0, <1>12, <1>13, <1>14, TakesEffect DEF Returns, Ok

-----------------------------------------------------------------------------
(* The refinement. *)

LEMMA AbstractInit ==
  ASSUME AmountsAreNumbers, Init
  PROVE  Abstract!Init
<1>1. AtomicInv
  BY AtomicInvInit
<1>2. /\ pc = [t \in Threads |-> "Idle"] /\ job = [t \in Threads |-> NoJob]
      /\ result = [t \in Threads |-> Undecided] /\ object = InitialAccounts
      /\ stored = DOMAIN InitialAccounts /\ nextID = FirstID + Cardinality(DOMAIN InitialAccounts)
  BY DEF Init
<1>3. AbstractResult = [t \in Threads |-> Undecided]
  BY <1>2 DEF AbstractResult
<1>4. ASSUME NEW a \in stored PROVE Whole(a) = InitialAccounts[a]
  <2>1. InTransit(a) = 0
    <3>1. \A u \in Threads : ~ HalfDone(u, a)
      BY <1>2 DEF HalfDone
    <3> QED BY <1>1, <3>1, Transit DEF OneInTransit, AtomicInv
  <2>2. Whole(a) = [object[a] EXCEPT !.balance = object[a].balance + 0]
        /\ object[a] \in Account /\ object[a].balance \in Int
    BY <1>1, <2>1, WholeAccounts
  <2>3. Whole(a) = object[a]
    BY <2>2 DEF Account
  <2> QED BY <1>2, <2>3
<1>5. AbstractDb.accounts = InitialAccounts
  <2>1. InitialAccounts = [a \in DOMAIN InitialAccounts |-> InitialAccounts[a]]
    BY AccountsAssumption
  <2> QED BY <1>2, <1>4, <2>1 DEF AbstractDb
<1>6. AbstractDb = [accounts |-> InitialAccounts,
                    nextID |-> FirstID + Cardinality(DOMAIN InitialAccounts)]
  BY <1>2, <1>5 DEF AbstractDb
<1> QED
  BY <1>2, <1>3, <1>6
  DEF Abstract!Init, Abstract!NoJob, NoJob, Abstract!Undecided, Undecided, AbstractResult,
      AbstractDb, Whole

LEMMA AbstractNext ==
  ASSUME NoCloses, AmountsAreNumbers, AtomicInv, AtomicInv', NumbersLeft, [Next]_vars
  PROVE  [Abstract!Next]_Abstract!vars
<1>1. ASSUME NEW t \in Threads, NEW q \in Jobs[t], Invoke(t, q) PROVE Abstract!Next
  BY <1>1, InvokeStep DEF Abstract!Next
<1>2. ASSUME NEW t \in Threads, Step(t) PROVE Abstract!Next \/ UNCHANGED Abstract!vars
  <2>1. CASE Create(t)
    BY <2>1, CreateStep DEF Abstract!Next
  <2>2. CASE CheckArguments(t)
    BY <2>2, ArgumentsStep DEF Abstract!Next
  <2>3. CASE Lookup(t)
    BY <2>3, LookupStep DEF Abstract!Next
  <2>4. CASE LookupPayee(t)
    BY <2>4, LookupPayeeStep DEF Abstract!Next
  <2>5. CASE Lock(t) \/ Unlock(t) \/ Load(t)
    BY <2>5, MutexStep
  <2>6. CASE Check(t)
    BY <2>6, CheckStep DEF Abstract!Next
  <2>7. CASE Write(t)
    <3>1. /\ job[t].service \in Movements /\ step[t] \in {1, 2}
          /\ step[t] = 2 => job[t].service = "TransferFunds"
      BY <2>7, Movement DEF Write, AtomicInv
    <3>2. CASE step[t] = 1 /\ job[t].service = "TransferFunds"
      BY <2>7, <3>2, FirstWriteStep
    <3>3. CASE step[t] = 2
      BY <2>7, <3>3, LastWriteStep DEF Abstract!Next
    <3>4. CASE job[t].service \in {"Deposit", "Withdraw"}
      BY <2>7, <3>4, OnlyWriteStep DEF Abstract!Next
    <3> QED BY <3>1, <3>2, <3>3, <3>4 DEF Movements
  <2>8. CASE Update(t)
    BY <2>8, UpdateStep
  <2>9. CASE Return(t)
    BY <2>9, ReturnStep DEF Abstract!Next
  <2> QED
    BY <1>2, <2>1, <2>2, <2>3, <2>4, <2>5, <2>6, <2>7, <2>8, <2>9, NothingDeleted
    DEF Step, AtomicInv
<1>3. ASSUME UNCHANGED vars PROVE UNCHANGED Abstract!vars
  <2>1. UNCHANGED <<pc, job, step, result, object, stored, nextID>>
    BY <1>3 DEF vars, threadVars, storeVars
  <2>2. AbstractResult' = AbstractResult
    BY <2>1 DEF AbstractResult
  <2>3. ASSUME NEW a PROVE Whole(a)' = Whole(a)
    <3>1. \A u \in Threads : HalfDone(u, a)' <=> HalfDone(u, a)
      BY <2>1 DEF HalfDone
    <3>2. InTransit(a)' = InTransit(a)
      BY <2>1, <3>1, Transit, TransitLater DEF OneInTransit, AtomicInv
    <3> QED BY <2>1, <3>2 DEF Whole
  <2>4. AbstractDb' = AbstractDb
    BY <2>1, <2>3 DEF AbstractDb
  <2> QED BY <2>1, <2>2, <2>4, AbstractState
<1> QED BY <1>1, <1>2, <1>3 DEF Next

\* Calls made at once behave as calls made one after the other, in some order that agrees
\* with when they were made and answered, where no account is closed, amounts are numbers and
\* account numbers have not come round (bank.go: the mutexes of the accounts, both of which a
\* transfer holds; bank_test.go: TestService_ConcurrentTransfers).
THEOREM Linearizable ==
  NoCloses /\ AmountsAreNumbers /\ Spec /\ []NumbersLeft => ImplementsAtomicBank
<1>1. SUFFICES ASSUME NoCloses, AmountsAreNumbers
               PROVE  Spec /\ []NumbersLeft => Abstract!Spec
  BY DEF ImplementsAtomicBank
<1>2. Init => Abstract!Init
  BY <1>1, AbstractInit
<1>3. AtomicInv /\ AtomicInv' /\ NumbersLeft /\ [Next]_vars => [Abstract!Next]_Abstract!vars
  BY <1>1, AbstractNext
<1>4. Spec /\ []NumbersLeft => []AtomicInv
  BY <1>1, AtomicInvAlways
<1> QED BY <1>2, <1>3, <1>4, PTL DEF Spec, Abstract!Spec
=============================================================================
