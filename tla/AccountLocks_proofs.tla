------------------------- MODULE AccountLocks_proofs -------------------------
(***************************************************************************)
(* What the account mutexes achieve, for any number of threads, accounts   *)
(* and calls: a thread has the accounts it works on to itself, so no       *)
(* balance goes below zero and no call that reports success has worked on  *)
(* an account that was closed under its hands; and when no call is in its  *)
(* course, each balance is what was there at the start plus what the calls *)
(* that returned have added to it.                                         *)
(***************************************************************************)
EXTENDS AccountLocks, Bank_proofs, SequenceTheorems

Labels == {"Idle", "Create", "Arguments", "Lookup", "LookupPayee", "Lock", "Check", "Load",
           "Write", "Update", "Delete", "Unlock", "Return"}

\* Where the mutexes of a call are all held.
Critical == {"Check", "Load", "Write", "Update", "Delete"}

Movements == {"Deposit", "Withdraw", "TransferFunds"}

Accounts(q) == IF q.service = "TransferFunds" THEN {q.account, q.toAccount} ELSE {q.account}

\* The numbers of accounts have not come round to the first one again.
NumbersLeft == nextID + 1 < UintSize

-----------------------------------------------------------------------------
(* The inductive invariant. *)

FunctionsOK ==
  /\ pc \in [Threads -> Labels]
  /\ DOMAIN job = Threads
  /\ step \in [Threads -> {1, 2}]
  /\ loaded \in [Threads -> Money]
  /\ DOMAIN result = Threads
  /\ held \in [Threads -> SUBSET DOMAIN object]

StoreOK ==
  /\ object \in [DOMAIN object -> Account]
  /\ DOMAIN object \subseteq Nat
  /\ stored \subseteq DOMAIN object
  /\ nextID \in Nat
  /\ \A a \in DOMAIN object : a < nextID

\* What a thread has found out about its call by the time it is where it is.
CallOK(t) ==
  /\ pc[t] # "Idle" => job[t] \in Jobs[t]
  /\ pc[t] = "Create" => job[t].service = "OpenAccount"
  /\ pc[t] \notin {"Idle", "Create", "Return"} => job[t].service # "OpenAccount"
  /\ pc[t] \notin {"Idle", "Create", "Arguments", "Return"} => ArgumentError(job[t]) = None
  /\ pc[t] = "LookupPayee" =>
       job[t].service = "TransferFunds" /\ job[t].account \in DOMAIN object
  /\ pc[t] \in Critical \cup {"Lock", "Unlock"} => Accounts(job[t]) \subseteq DOMAIN object
  /\ pc[t] \in {"Load", "Write", "Update"} => job[t].service \in Movements
  /\ pc[t] = "Delete" => job[t].service = "CloseAccount"
  /\ step[t] = 2 =>
       job[t].service = "TransferFunds" /\ pc[t] \in {"Lock", "Load", "Write", "Update", "Unlock"}

\* The mutexes a thread holds, by where it is.
HoldsOwn(t) ==
  /\ pc[t] \notin Critical \cup {"Lock", "Unlock"} => held[t] = {}
  /\ pc[t] = "Lock" => held[t] = IF step[t] = 1 THEN {} ELSE {LockOrder(job[t])[1]}
  /\ pc[t] \in Critical => held[t] = Accounts(job[t])
  /\ pc[t] = "Unlock" => held[t] = IF step[t] = 1 THEN Accounts(job[t]) ELSE {job[t].account}

\* No mutex is held by two threads.
Exclusion == \A t, u \in Threads : t # u => held[t] \cap held[u] = {}

\* Thread t is about to take its amount out of an account.
Pays(t) == step[t] = 1 /\ job[t].service \in {"Withdraw", "TransferFunds"}

\* A check of funds stays true until the balance is written.
FundsOK(t) ==
  /\ pc[t] = "Load" /\ Pays(t) => ~ Less(object[job[t].account].balance, job[t].amount)
  /\ pc[t] = "Write" => ~ Less(loaded[t], 0)
  /\ pc[t] = "Write" /\ Pays(t) => ~ Less(loaded[t], job[t].amount)

LocksInv ==
  /\ FunctionsOK /\ StoreOK /\ Exclusion
  /\ \A t \in Threads : CallOK(t) /\ HoldsOwn(t)

\* Nobody opens an account with a debt.
NoDebtAtOpening ==
  /\ \A a \in DOMAIN InitialAccounts : ~ Less(InitialAccounts[a].balance, 0)
  /\ \A t \in Threads : \A q \in Jobs[t] : q.service = "OpenAccount" => ~ Less(q.amount, 0)

-----------------------------------------------------------------------------
\* What the calls of a thread carry.
LEMMA JobFacts ==
  ASSUME NEW t \in Threads, NEW q \in Jobs[t]
  PROVE  /\ q.service \in Services \ {"Monitor"}
         /\ q.service # "OpenAccount" => q.account \in Nat
         /\ q.service = "TransferFunds" => q.toAccount \in Nat
         /\ q.service \in Movements => q.amount \in Money
<1>1. WellFormed(q) /\ WellTyped(q) /\ q.service # "Monitor"
  BY JobsAssumption
<1>2. Uint32 \subseteq Nat
  BY UintAssumption DEF Uint32
<1>3. q.service \in Services /\ RequiredFields[q.service] \subseteq DOMAIN q
  BY <1>1 DEF WellFormed
<1>4. q.service # "OpenAccount" => "account" \in DOMAIN q
  BY <1>1, <1>3 DEF RequiredFields, Services
<1>5. q.service = "TransferFunds" => "toAccount" \in DOMAIN q
  BY <1>3 DEF RequiredFields
<1>6. q.service \in Movements => "amount" \in DOMAIN q
  BY <1>3 DEF RequiredFields, Movements
<1> QED BY <1>1, <1>2, <1>3, <1>4, <1>5, <1>6 DEF WellTyped

\* The order of locking names the accounts of the call, each once.
LEMMA LockOrderFacts ==
  ASSUME NEW q, q.service = "TransferFunds" => q.account # q.toAccount
  PROVE  /\ q.service # "TransferFunds" => Len(LockOrder(q)) = 1 /\ LockOrder(q)[1] = q.account
         /\ q.service = "TransferFunds" =>
              /\ Len(LockOrder(q)) = 2
              /\ {LockOrder(q)[1], LockOrder(q)[2]} = Accounts(q)
              /\ LockOrder(q)[1] # LockOrder(q)[2]
         /\ LockOrder(q)[1] \in Accounts(q)
  BY DEF LockOrder, Accounts

LEMMA UnlockOrderFacts ==
  ASSUME NEW q
  PROVE  /\ q.service # "TransferFunds" => Len(UnlockOrder(q)) = 1 /\ UnlockOrder(q)[1] = q.account
         /\ q.service = "TransferFunds" =>
              Len(UnlockOrder(q)) = 2 /\ UnlockOrder(q)[1] = q.toAccount /\ UnlockOrder(q)[2] = q.account
  BY DEF UnlockOrder

\* The additions a call makes are to its own accounts, in this order.
LEMMA MoveFacts ==
  ASSUME NEW q, q.service \in Movements
  PROVE  /\ Len(Moves(q)) = IF q.service = "TransferFunds" THEN 2 ELSE 1
         /\ Moves(q)[1].account = q.account
         /\ Moves(q)[1].amount = IF q.service = "Deposit" THEN q.amount ELSE Negative(q.amount)
         /\ q.service = "TransferFunds" =>
              Moves(q)[2].account = q.toAccount /\ Moves(q)[2].amount = q.amount
<1>1. CASE q.service = "Deposit"
  BY <1>1 DEF Moves
<1>2. CASE q.service = "Withdraw"
  BY <1>2 DEF Moves
<1>3. CASE q.service = "TransferFunds"
  BY <1>3 DEF Moves
<1> QED BY <1>1, <1>2, <1>3 DEF Movements

\* A call past its arguments is on two accounts if it is a transfer, and moves something.
LEMMA ArgumentFacts ==
  ASSUME NEW q, ArgumentError(q) = None
  PROVE  /\ q.service = "TransferFunds" => q.account # q.toAccount
         /\ q.service \in Movements => ~ AtMost(q.amount, 0)
  BY DEF ArgumentError, None, Movements

\* The other threads stay where they are.
LEMMA OthersStay ==
  ASSUME FunctionsOK, NEW t \in Threads, (\E q \in Jobs[t] : Invoke(t, q)) \/ Step(t),
         NEW u \in Threads, u # t
  PROVE  /\ pc'[u] = pc[u] /\ job'[u] = job[u] /\ step'[u] = step[u]
         /\ loaded'[u] = loaded[u] /\ result'[u] = result[u] /\ held'[u] = held[u]
<1>1. CASE \E q \in Jobs[t] : Invoke(t, q)
  BY <1>1 DEF FunctionsOK, Invoke, Goto
<1>2. CASE Create(t) \/ CheckArguments(t) \/ Lookup(t) \/ LookupPayee(t)
  BY <1>2 DEF FunctionsOK, Create, CheckArguments, Lookup, LookupPayee, Goto, Decide
<1>3. CASE Lock(t) \/ Unlock(t)
  BY <1>3 DEF FunctionsOK, Lock, Unlock, Goto, Advance
<1>4. CASE Check(t)
  BY <1>4 DEF FunctionsOK, Check, Goto, Decide
<1>5. CASE Load(t) \/ Write(t)
  BY <1>5 DEF FunctionsOK, Load, Write, Goto, Advance
<1>6. CASE Update(t) \/ Delete(t) \/ Return(t)
  BY <1>6 DEF FunctionsOK, Update, Delete, Return, Goto, Decide
<1> QED BY <1>1, <1>2, <1>3, <1>4, <1>5, <1>6 DEF Step

\* Only Create makes an account, and it makes a new one; only Write changes a balance.
LEMMA StoreByStep ==
  ASSUME LocksInv, NumbersLeft, NEW t \in Threads, (\E q \in Jobs[t] : Invoke(t, q)) \/ Step(t)
  PROVE  /\ StoreOK'
         /\ DOMAIN object \subseteq DOMAIN object'
         /\ \A a \in stored' \ stored : a \notin DOMAIN object
         /\ ~ Write(t) => \A a \in DOMAIN object : object'[a] = object[a]
<1> USE DEF LocksInv
<1>1. CASE Create(t)
  <2> DEFINE q == job[t]
             acc == [name |-> q.name, password |-> q.password,
                     currency |-> q.currency, balance |-> q.amount]
  <2>1. q \in Jobs[t] /\ q.service = "OpenAccount"
    BY <1>1 DEF Create, CallOK
  <2>2. acc \in Account
    <3>1. WellFormed(q) /\ WellTyped(q)
      BY <2>1, JobsAssumption
    <3>2. {"name", "password", "currency", "amount"} \subseteq DOMAIN q
      BY <2>1, <3>1 DEF WellFormed, RequiredFields
    <3> QED BY <3>1, <3>2 DEF WellTyped, Account
  <2>3. object' = Put(object, nextID, acc) /\ stored' = stored \cup {nextID}
    BY <1>1 DEF Create, OpenAccount, Returns, CreateAccount
  <2>4. nextID' = nextID + 1 /\ nextID \in Nat
    <3>1. nextID \in Nat /\ UintSize \in Nat /\ nextID + 1 < UintSize
      BY UintAssumption DEF NumbersLeft, StoreOK
    <3>2. (nextID + 1) % UintSize = nextID + 1
      BY <3>1
    <3> QED BY <1>1, <3>1, <3>2 DEF Create
  <2> HIDE DEF acc
  <2>5. nextID \notin DOMAIN object
    BY <2>4 DEF StoreOK
  <2>6. /\ DOMAIN object' = DOMAIN object \cup {nextID}
        /\ \A a \in DOMAIN object : object'[a] = object[a]
        /\ object' \in [DOMAIN object' -> Account]
    BY <2>2, <2>3, <2>5 DEF Put, StoreOK
  <2> QED BY <2>3, <2>4, <2>5, <2>6 DEF StoreOK
<1>2. CASE Write(t)
  <2> DEFINE move == Moves(job[t])[step[t]]
  <2>0. pc[t] = "Write" /\ step[t] \in {1, 2}
    BY <1>2 DEF Write, FunctionsOK
  <2>1. job[t] \in Jobs[t] /\ job[t].service \in Movements
        /\ (step[t] = 2 => job[t].service = "TransferFunds")
    BY <2>0 DEF CallOK
  <2>2. job[t].amount \in Money
    BY <2>1, JobFacts
  <2>3. move.amount \in Money
    BY <2>0, <2>1, <2>2, MoveFacts, MoneyClosed
  <2>4. loaded[t] \in Money
    BY DEF FunctionsOK
  <2>5. Plus(loaded[t], move.amount) \in Money
    BY <2>3, <2>4, MoneyClosed
  <2>6. object' = [object EXCEPT ![move.account].balance = Plus(loaded[t], move.amount)]
        /\ UNCHANGED <<stored, nextID>>
    BY <1>2 DEF Write
  <2> HIDE DEF move
  <2> QED BY <1>2, <2>5, <2>6 DEF StoreOK, Account
<1>3. CASE Delete(t)
  BY <1>3 DEF Delete, StoreOK
<1>4. CASE UNCHANGED storeVars
  BY <1>4 DEF storeVars, StoreOK
<1> QED
  BY <1>1, <1>2, <1>3, <1>4
  DEF Step, Invoke, CheckArguments, Lookup, LookupPayee, Lock, Check, Load, Update, Unlock, Return

\* A thread that takes a step keeps to its own call and its own mutexes.
LEMMA OwnStep ==
  ASSUME LocksInv, NumbersLeft, NEW t \in Threads, (\E q \in Jobs[t] : Invoke(t, q)) \/ Step(t)
  PROVE  /\ FunctionsOK'
         /\ CallOK(t)' /\ HoldsOwn(t)'
         /\ held'[t] \subseteq held[t] \/ \E a : held'[t] = held[t] \cup {a}
                                              /\ \A u \in Threads : a \notin held[u]
<1> USE DEF LocksInv
<1> DEFINE Goal == /\ FunctionsOK'
                   /\ CallOK(t)' /\ HoldsOwn(t)'
                   /\ \/ held'[t] \subseteq held[t]
                      \/ \E a : held'[t] = held[t] \cup {a} /\ \A u \in Threads : a \notin held[u]
<1>0. /\ DOMAIN object \subseteq DOMAIN object' /\ stored \subseteq DOMAIN object
      /\ CallOK(t) /\ HoldsOwn(t) /\ step[t] \in {1, 2} /\ 0 \in Money
  BY StoreByStep DEF StoreOK, FunctionsOK, Money
<1>1. ASSUME NEW q \in Jobs[t], Invoke(t, q) PROVE Goal
  <2>1. q.service = "OpenAccount" \/ q.service # "OpenAccount"
    OBVIOUS
  <2> QED BY <1>0, <1>1 DEF Invoke, Goto, storeVars, FunctionsOK, CallOK, HoldsOwn, Labels, Critical
<1>2. ASSUME Create(t) PROVE Goal
  BY <1>0, <1>2 DEF Create, Goto, Decide, FunctionsOK, CallOK, HoldsOwn, Labels, Critical
<1>3. ASSUME CheckArguments(t) PROVE Goal
  BY <1>0, <1>3
  DEF CheckArguments, Goto, Decide, storeVars, FunctionsOK, CallOK, HoldsOwn, Labels, Critical
<1>4. ASSUME Lookup(t) PROVE Goal
  <2>1. pc'[t] # "Return" => job[t].account \in DOMAIN object
    BY <1>0, <1>4 DEF Lookup, Goto, FunctionsOK, None
  <2> QED
    BY <1>0, <1>4, <2>1
    DEF Lookup, Goto, Decide, storeVars, FunctionsOK, CallOK, HoldsOwn, Labels, Critical, Accounts
<1>5. ASSUME LookupPayee(t) PROVE Goal
  <2>1. pc'[t] # "Return" => job[t].toAccount \in DOMAIN object
    BY <1>0, <1>5 DEF LookupPayee, Goto, FunctionsOK, None
  <2> QED
    BY <1>0, <1>5, <2>1
    DEF LookupPayee, Goto, Decide, storeVars, FunctionsOK, CallOK, HoldsOwn, Labels, Critical, Accounts
<1>6. ASSUME Lock(t) PROVE Goal
  <2> DEFINE q == job[t]
             a == LockOrder(q)[step[t]]
  <2>1. pc[t] = "Lock" /\ ArgumentError(q) = None /\ Accounts(q) \subseteq DOMAIN object
    BY <1>0, <1>6 DEF Lock, CallOK, Critical
  <2>2. q.service = "TransferFunds" => q.account # q.toAccount
    BY <2>1, ArgumentFacts
  <2>3. held' = [held EXCEPT ![t] = @ \cup {a}] /\ \A u \in Threads : a \notin held[u]
    BY <1>6 DEF Lock
  <2>4. CASE step[t] = 1 /\ q.service = "TransferFunds"
    <3>1. a = LockOrder(q)[1] /\ a \in Accounts(q) /\ Len(LockOrder(q)) = 2
      BY <2>2, <2>4, LockOrderFacts
    <3>2. pc' = [pc EXCEPT ![t] = "Lock"] /\ step' = [step EXCEPT ![t] = 2]
      BY <1>6, <2>4, <3>1 DEF Lock, Advance, Goto
    <3>3. held[t] = {}
      BY <1>0, <2>1, <2>4 DEF HoldsOwn
    <3> HIDE DEF a
    <3>4. UNCHANGED <<job, loaded, result, object>>
      BY <1>6 DEF Lock, storeVars
    <3>5. FunctionsOK'
      BY <2>1, <2>3, <3>1, <3>2, <3>4 DEF FunctionsOK, Labels
    <3>6. /\ pc'[t] = "Lock" /\ step'[t] = 2 /\ job'[t] = job[t] /\ pc[t] # "Idle"
          /\ held'[t] = {LockOrder(job'[t])[1]}
      BY <2>1, <2>3, <3>1, <3>2, <3>3, <3>4 DEF FunctionsOK
    <3>7. CallOK(t)'
      BY <1>0, <2>1, <2>4, <3>4, <3>6 DEF CallOK, Critical
    <3>8. HoldsOwn(t)'
      BY <3>6 DEF HoldsOwn, Critical
    <3> QED BY <2>3, <3>5, <3>7, <3>8 DEF FunctionsOK
  <2>5. CASE ~ (step[t] = 1 /\ q.service = "TransferFunds")
    <3>1. step[t] = Len(LockOrder(q)) /\ held[t] \cup {a} = Accounts(q) /\ a \in Accounts(q)
      <4>1. CASE step[t] = 1
        BY <1>0, <2>1, <2>2, <2>5, <4>1, LockOrderFacts DEF HoldsOwn, Accounts
      <4>2. CASE step[t] = 2
        BY <1>0, <2>1, <2>2, <4>2, LockOrderFacts DEF HoldsOwn, CallOK
      <4> QED BY <1>0, <4>1, <4>2
    <3>2. pc' = [pc EXCEPT ![t] = "Check"] /\ step' = [step EXCEPT ![t] = 1]
      BY <1>6, <3>1 DEF Lock, Advance, Goto
    <3> HIDE DEF a
    <3>3. UNCHANGED <<job, loaded, result, object>>
      BY <1>6 DEF Lock, storeVars
    <3>4. FunctionsOK'
      BY <2>1, <2>3, <3>1, <3>2, <3>3 DEF FunctionsOK, Labels
    <3>5. /\ pc'[t] = "Check" /\ step'[t] = 1 /\ job'[t] = job[t] /\ held'[t] = Accounts(job'[t])
      BY <2>1, <2>3, <3>1, <3>2, <3>3 DEF FunctionsOK
    <3>6. CallOK(t)'
      BY <1>0, <2>1, <3>3, <3>5 DEF CallOK, Critical
    <3>7. HoldsOwn(t)'
      BY <3>5 DEF HoldsOwn, Critical
    <3> QED BY <2>3, <3>4, <3>6, <3>7 DEF FunctionsOK
  <2> QED BY <2>4, <2>5
<1>7. ASSUME Check(t) PROVE Goal
  <2>1. /\ pc' \in {[pc EXCEPT ![t] = "Unlock"], [pc EXCEPT ![t] = "Delete"], [pc EXCEPT ![t] = "Load"]}
        /\ pc'[t] = "Delete" => job[t].service = "CloseAccount"
        /\ pc'[t] = "Load" => job[t].service \notin {"GetBalance", "CloseAccount"}
    BY <1>7 DEF Check, Goto, FunctionsOK
  <2>2. job[t].service \in Services \ {"Monitor", "OpenAccount"}
    BY <1>0, <1>7, JobFacts DEF Check, CallOK
  <2>3. pc'[t] = "Load" => job[t].service \in Movements
    BY <2>1, <2>2 DEF Services, RequiredFields, Movements
  <2>4. DOMAIN result' = DOMAIN result
    BY <1>7 DEF Check, Decide
  <2>5. pc[t] = "Check" /\ UNCHANGED <<job, step, loaded, storeVars, held>>
    BY <1>7 DEF Check
  <2> QED
    BY <1>0, <2>1, <2>3, <2>4, <2>5
    DEF storeVars, FunctionsOK, CallOK, HoldsOwn, Labels, Critical
<1>8. ASSUME Load(t) PROVE Goal
  <2> DEFINE a == Moves(job[t])[step[t]].account
  <2>1. job[t].service \in Movements /\ Accounts(job[t]) \subseteq DOMAIN object
    BY <1>0, <1>8 DEF Load, CallOK, Critical
  <2>2. a \in DOMAIN object
    BY <1>0, <2>1, MoveFacts DEF Accounts, CallOK
  <2>3. object[a].balance \in Money
    BY <2>2 DEF StoreOK, Account
  <2>4. pc[t] = "Load" /\ pc' = [pc EXCEPT ![t] = "Write"]
        /\ loaded' = [loaded EXCEPT ![t] = object[a].balance]
        /\ UNCHANGED <<job, step, result, storeVars, held>>
    BY <1>8 DEF Load, Goto
  <2> HIDE DEF a
  <2> QED
    BY <1>0, <2>1, <2>3, <2>4 DEF storeVars, FunctionsOK, CallOK, HoldsOwn, Labels, Critical
<1>9. ASSUME Write(t) PROVE Goal
  <2>1. job[t].service \in Movements
    BY <1>0, <1>9 DEF Write, CallOK
  <2>2. \/ pc' = [pc EXCEPT ![t] = "Update"] /\ step' = [step EXCEPT ![t] = 1]
        \/ /\ pc' = [pc EXCEPT ![t] = "Load"] /\ step' = [step EXCEPT ![t] = 2]
           /\ job[t].service = "TransferFunds"
    <3>1. step[t] = Len(Moves(job[t])) \/ (step[t] = 1 /\ job[t].service = "TransferFunds")
      BY <1>0, <2>1, MoveFacts DEF CallOK
    <3>2. Advance(t, Moves(job[t]), "Update", "Load")
      BY <1>9 DEF Write
    <3>3. CASE step[t] = Len(Moves(job[t]))
      BY <3>2, <3>3 DEF Advance, Goto
    <3>4. CASE step[t] # Len(Moves(job[t]))
      BY <3>1, <3>2, <3>4 DEF Advance, Goto
    <3> QED BY <3>3, <3>4
  <2>3. pc[t] = "Write" /\ loaded' = [loaded EXCEPT ![t] = 0]
        /\ UNCHANGED <<job, result, held>>
    BY <1>9 DEF Write
  <2>4. held' \in [Threads -> SUBSET DOMAIN object']
    BY <1>0, <2>3 DEF FunctionsOK
  <2> QED
    BY <1>0, <2>1, <2>2, <2>3, <2>4 DEF FunctionsOK, CallOK, HoldsOwn, Labels, Critical
<1>10. ASSUME Update(t) PROVE Goal
  <2>1. \/ pc' = [pc EXCEPT ![t] = "Unlock"] /\ step' = [step EXCEPT ![t] = 1]
        \/ /\ pc' = [pc EXCEPT ![t] = "Update"] /\ step' = [step EXCEPT ![t] = 2]
           /\ job[t].service = "TransferFunds"
    BY <1>10 DEF Update, Goto
  <2>2. pc[t] = "Update" /\ DOMAIN result' = DOMAIN result
        /\ UNCHANGED <<job, loaded, storeVars, held>>
    BY <1>10 DEF Update, Decide
  <2> QED
    BY <1>0, <2>1, <2>2 DEF storeVars, FunctionsOK, CallOK, HoldsOwn, Labels, Critical
<1>11. ASSUME Delete(t) PROVE Goal
  BY <1>0, <1>11 DEF Delete, Goto, Decide, FunctionsOK, CallOK, HoldsOwn, Labels, Critical
<1>12. ASSUME Unlock(t) PROVE Goal
  <2> DEFINE a == UnlockOrder(job[t])[step[t]]
  <2>1. held' = [held EXCEPT ![t] = @ \ {a}] /\ pc[t] = "Unlock"
        /\ UNCHANGED <<job, loaded, result, storeVars>>
    BY <1>12 DEF Unlock
  <2>2. ArgumentError(job[t]) = None
    BY <1>0, <2>1 DEF CallOK
  <2>3. CASE step[t] = 1 /\ job[t].service = "TransferFunds"
    <3>1. pc' = [pc EXCEPT ![t] = "Unlock"] /\ step' = [step EXCEPT ![t] = 2]
      BY <1>12, <2>3, UnlockOrderFacts DEF Unlock, Advance, Goto
    <3>2. held[t] \ {a} = {job[t].account}
      BY <1>0, <2>1, <2>2, <2>3, UnlockOrderFacts, ArgumentFacts DEF HoldsOwn, Accounts
    <3> HIDE DEF a
    <3> QED
      BY <1>0, <2>1, <2>3, <3>1, <3>2
      DEF storeVars, FunctionsOK, CallOK, HoldsOwn, Labels, Critical
  <2>4. CASE ~ (step[t] = 1 /\ job[t].service = "TransferFunds")
    <3>1. step[t] = Len(UnlockOrder(job[t])) /\ held[t] \ {a} = {}
      <4>1. CASE step[t] = 1
        BY <1>0, <2>1, <2>4, <4>1, UnlockOrderFacts DEF HoldsOwn, Accounts
      <4>2. CASE step[t] = 2
        BY <1>0, <2>1, <4>2, UnlockOrderFacts DEF HoldsOwn, CallOK
      <4> QED BY <1>0, <4>1, <4>2
    <3>2. pc' = [pc EXCEPT ![t] = "Return"] /\ step' = [step EXCEPT ![t] = 1]
      BY <1>12, <3>1 DEF Unlock, Advance, Goto
    <3> HIDE DEF a
    <3> QED
      BY <1>0, <2>1, <3>1, <3>2
      DEF storeVars, FunctionsOK, CallOK, HoldsOwn, Labels, Critical
  <2> QED BY <2>3, <2>4
<1>13. ASSUME Return(t) PROVE Goal
  BY <1>0, <1>13
  DEF Return, Goto, Decide, storeVars, FunctionsOK, CallOK, HoldsOwn, Labels, Critical
<1>14. Goal
  BY <1>1, <1>2, <1>3, <1>4, <1>5, <1>6, <1>7, <1>8, <1>9, <1>10, <1>11, <1>12, <1>13 DEF Step
<1> QED BY <1>14

LEMMA LocksInvNext ==
  ASSUME LocksInv, NumbersLeft, [Next]_vars
  PROVE  LocksInv'
<1> USE DEF LocksInv
<1>1. ASSUME NEW t \in Threads, (\E q \in Jobs[t] : Invoke(t, q)) \/ Step(t)
      PROVE  LocksInv'
  <2>1. ASSUME NEW u \in Threads, u # t
        PROVE  CallOK(u)' /\ HoldsOwn(u)' /\ held'[u] = held[u]
    <3>1. /\ pc'[u] = pc[u] /\ job'[u] = job[u] /\ step'[u] = step[u] /\ held'[u] = held[u]
          /\ DOMAIN object \subseteq DOMAIN object'
      BY <1>1, <2>1, OthersStay, StoreByStep
    <3>2. CallOK(u)'
      BY <3>1 DEF CallOK
    <3>3. HoldsOwn(u)'
      BY <3>1 DEF HoldsOwn
    <3> QED BY <3>1, <3>2, <3>3
  <2>2. /\ FunctionsOK' /\ StoreOK' /\ CallOK(t)' /\ HoldsOwn(t)'
        /\ held'[t] \subseteq held[t] \/ \E a : held'[t] = held[t] \cup {a}
                                             /\ \A u \in Threads : a \notin held[u]
    BY <1>1, OwnStep, StoreByStep
  <2>3. Exclusion'
    <3>1. \A u, w \in Threads : u # w => held[u] \cap held[w] = {}
      BY DEF Exclusion
    <3>2. \A u \in Threads : u # t => held'[u] = held[u]
      BY <2>1
    <3> QED BY <2>2, <3>1, <3>2 DEF Exclusion
  <2> QED BY <2>1, <2>2, <2>3
<1>2. CASE UNCHANGED vars
  BY <1>2
  DEF vars, threadVars, storeVars, FunctionsOK, StoreOK, CallOK, HoldsOwn, Exclusion
<1> QED BY <1>1, <1>2 DEF Next

LEMMA LocksInvInit == ASSUME Init PROVE LocksInv
<1>1. /\ FirstID + Cardinality(DOMAIN InitialAccounts) \in Nat
      /\ \A a \in DOMAIN InitialAccounts :
           a \in Nat /\ a < FirstID + Cardinality(DOMAIN InitialAccounts)
      /\ InitialAccounts \in [DOMAIN InitialAccounts -> Account]
  <2> DEFINE n == FirstID + Cardinality(DOMAIN InitialAccounts)
  <2>0. n \in Uint32
    BY AccountsAssumption
  <2>1. DOMAIN InitialAccounts \subseteq Uint32 /\ \A a \in DOMAIN InitialAccounts : a < n
    BY AccountsAssumption
  <2> HIDE DEF n
  <2>2. n \in Nat /\ \A a \in DOMAIN InitialAccounts : a \in Nat /\ a < n
    BY <2>0, <2>1, UintAssumption DEF Uint32
  <2> QED BY <2>2, AccountsAssumption DEF n
<1>2. StoreOK
  BY <1>1 DEF Init, StoreOK
<1>3. FunctionsOK
  BY DEF Init, FunctionsOK, Labels, Money
<1>4. Exclusion /\ \A t \in Threads : CallOK(t) /\ HoldsOwn(t)
  BY DEF Init, Exclusion, CallOK, HoldsOwn, Critical
<1> QED BY <1>2, <1>3, <1>4 DEF LocksInv

LEMMA LocksInvAlways == Spec /\ []NumbersLeft => []LocksInv
<1> QED BY LocksInvInit, LocksInvNext, PTL DEF Spec

-----------------------------------------------------------------------------
(* What follows. *)

\* A balance is read for writing, and written, by the one thread that holds the mutex of
\* its account (bank.go: acc.Mu.Lock before, the deferred Unlock after).
THEOREM OneThreadPerBalance ==
  Spec /\ []NumbersLeft =>
    [](\A t, u \in Threads :
         t # u /\ pc[t] \in Critical /\ pc[u] \in Critical
           => Accounts(job[t]) \cap Accounts(job[u]) = {})
<1>1. LocksInv =>
        \A t, u \in Threads :
          t # u /\ pc[t] \in Critical /\ pc[u] \in Critical
            => Accounts(job[t]) \cap Accounts(job[u]) = {}
  BY DEF LocksInv, HoldsOwn, Exclusion
<1> QED BY <1>1, LocksInvAlways, PTL

\* Threads wait for a mutex only above those they hold, so none waits in a circle
\* (bank.go: "Lock both accounts in order"); CallsReturn is what this is for.
THEOREM WaitsUpwards ==
  Spec /\ []NumbersLeft =>
    [](\A t \in Threads :
         pc[t] = "Lock" => \A a \in held[t] : a < LockOrder(job[t])[step[t]])
<1>1. ASSUME LocksInv, NEW t \in Threads, pc[t] = "Lock", NEW a \in held[t]
      PROVE  a < LockOrder(job[t])[step[t]]
  <2>1. /\ step[t] = 2 /\ job[t].service = "TransferFunds" /\ a = LockOrder(job[t])[1]
        /\ job[t] \in Jobs[t] /\ ArgumentError(job[t]) = None
    BY <1>1 DEF LocksInv, FunctionsOK, CallOK, HoldsOwn
  <2>2. /\ job[t].account \in Nat /\ job[t].toAccount \in Nat
        /\ job[t].account # job[t].toAccount
    BY <2>1, JobFacts, ArgumentFacts
  <2> QED BY <2>1, <2>2 DEF LockOrder
<1>2. LocksInv =>
        \A t \in Threads : pc[t] = "Lock" => \A a \in held[t] : a < LockOrder(job[t])[step[t]]
  BY <1>1
<1> QED BY <1>2, LocksInvAlways, PTL

\* A closed account never comes back as long as the numbers have not come round
\* (memory.go: CreateAccount, UpdateAccount).
THEOREM ClosedAccountsStayClosed == Spec /\ []NumbersLeft => ClosedStaysClosed
<1>1. ASSUME LocksInv, NumbersLeft, [Next]_vars
      PROVE  [\A a \in stored' \ stored : a \notin DOMAIN object]_vars
  BY <1>1, StoreByStep DEF Next
<1> QED BY <1>1, LocksInvAlways, PTL DEF Spec, ClosedStaysClosed

LEMMA SuccessIsStoredNext ==
  ASSUME LocksInv, NumbersLeft, SuccessIsStored, [Next]_vars
  PROVE  SuccessIsStored'
<1> USE DEF LocksInv
<1>1. ASSUME NEW t \in Threads, (\E q \in Jobs[t] : Invoke(t, q)) \/ Step(t)
      PROVE  SuccessIsStored'
  <2>0. /\ pc \in [Threads -> Labels] /\ DOMAIN job = Threads /\ DOMAIN result = Threads
        /\ CallOK(t) /\ HoldsOwn(t)
    BY DEF FunctionsOK
  <2>1. SUFFICES ASSUME NEW u \in Threads, pc'[u] = "Unlock",
                        job'[u].service \in {"Deposit", "Withdraw"}, result'[u].err = None
                 PROVE  job'[u].account \in stored'
    BY DEF SuccessIsStored
  <2>2. CASE u = t
    <3>1. CASE Update(t)
      BY <2>0, <2>1, <2>2, <3>1 DEF Update, Decide, Error, None, storeVars, Goto
    <3>2. CASE Unlock(t)
      BY <2>0, <2>1, <2>2, <3>2 DEF Unlock, storeVars, SuccessIsStored
    <3>3. CASE Check(t)
      BY <2>0, <2>1, <2>2, <3>3 DEF Check, Decide, Error, None, Goto
    <3>4. CASE Delete(t)
      BY <2>0, <2>1, <2>2, <3>4 DEF Delete, CallOK
    <3>5. CASE \/ \E q \in Jobs[t] : Invoke(t, q)
               \/ Create(t) \/ CheckArguments(t) \/ Lookup(t) \/ LookupPayee(t) \/ Load(t)
               \/ Write(t) \/ Return(t) \/ Lock(t)
      BY <2>0, <2>1, <2>2, <3>5
      DEF Invoke, Create, CheckArguments, Lookup, LookupPayee, Load, Write, Return, Lock, Goto,
          Advance
    <3> QED BY <1>1, <3>1, <3>2, <3>3, <3>4, <3>5 DEF Step
  <2>3. CASE u # t
    <3>1. pc[u] = "Unlock" /\ job[u] = job'[u] /\ result[u] = result'[u]
      BY <1>1, <2>1, <2>3, OthersStay
    <3>2. job[u].account \in stored
      BY <2>1, <3>1 DEF SuccessIsStored
    <3>3. held[u] = {job[u].account}
      <4>1. CallOK(u) /\ HoldsOwn(u) /\ step[u] \in {1, 2}
        BY DEF FunctionsOK
      <4> QED BY <2>1, <3>1, <4>1 DEF CallOK, HoldsOwn, Accounts
    <3>4. CASE Delete(t)
      <4>1. held[t] = {job[t].account}
        BY <2>0, <3>4 DEF Delete, HoldsOwn, CallOK, Accounts, Critical
      <4>2. job[t].account # job[u].account
        BY <2>3, <3>3, <4>1 DEF Exclusion
      <4> QED BY <3>1, <3>2, <3>4, <4>2 DEF Delete
    <3>5. CASE ~ Delete(t)
      <4>1. stored \subseteq stored'
        BY <1>1, <3>5
        DEF Step, Invoke, Create, CheckArguments, Lookup, LookupPayee, Lock, Check, Load, Write,
            Update, Unlock, Return, storeVars
      <4> QED BY <3>1, <3>2, <4>1
    <3> QED BY <3>4, <3>5
  <2> QED BY <2>2, <2>3
<1>2. CASE UNCHANGED vars
  BY <1>2 DEF vars, threadVars, storeVars, SuccessIsStored
<1> QED BY <1>1, <1>2 DEF Next

\* A deposit or withdrawal that reports success has not been made on an account that was
\* closed while it waited for the mutex (bank.go: the error of UpdateAccount).
THEOREM SuccessIsStoredAlways == Spec /\ []NumbersLeft => []SuccessIsStored
<1>1. Init => SuccessIsStored
  BY DEF Init, SuccessIsStored
<1> QED BY <1>1, SuccessIsStoredNext, LocksInvAlways, PTL DEF Spec

\* A payment into an account without a debt leaves none.
LEMMA PaymentLeavesNoDebt ==
  ASSUME NEW x \in Money, NEW n \in Money, ~ Less(x, 0), ~ AtMost(n, 0)
  PROVE  ~ Less(Plus(x, n), 0)
<1>1. CASE n \in Int /\ x \in Int
  BY <1>1, DoubleAssumption DEF Plus, AtMost, Less
<1>2. CASE n \notin Int \/ x \notin Int
  BY <1>2, DoubleAssumption DEF Plus, AtMost, Less, Money
<1> QED BY <1>1, <1>2

\* What a thread is about to write is no debt.
LEMMA WritesNoDebt ==
  ASSUME LocksInv, NEW t \in Threads, FundsOK(t), pc[t] = "Write"
  PROVE  LET move == Moves(job[t])[step[t]]
         IN /\ move.account \in Accounts(job[t])
            /\ ~ Less(Plus(loaded[t], move.amount), 0)
<1> DEFINE q == job[t]
<1>1. /\ q \in Jobs[t] /\ q.service \in Movements /\ step[t] \in {1, 2} /\ loaded[t] \in Money
      /\ step[t] = 2 => q.service = "TransferFunds"
      /\ ArgumentError(q) = None
  BY DEF LocksInv, FunctionsOK, CallOK
<1>2. q.amount \in Money /\ ~ AtMost(q.amount, 0)
  BY <1>1, JobFacts, ArgumentFacts
<1>3. ~ Less(loaded[t], 0) /\ (Pays(t) => ~ Less(loaded[t], q.amount))
  BY DEF FundsOK
<1>4. CASE Pays(t)
  <2>1. Moves(q)[step[t]].account = q.account /\ Moves(q)[step[t]].amount = Negative(q.amount)
    BY <1>1, <1>4, MoveFacts DEF Pays
  <2>2. ~ Less(Plus(loaded[t], Negative(q.amount)), 0)
    BY <1>1, <1>2, <1>3, <1>4, EnoughIsLeft
  <2> QED BY <2>1, <2>2 DEF Accounts
<1>5. CASE ~ Pays(t)
  <2>1. Moves(q)[step[t]].account \in Accounts(q) /\ Moves(q)[step[t]].amount = q.amount
    <3>1. CASE step[t] = 1
      <4>1. q.service = "Deposit"
        BY <1>1, <1>5, <3>1 DEF Pays, Movements
      <4> QED BY <1>1, <3>1, <4>1, MoveFacts DEF Accounts
    <3>2. CASE step[t] = 2
      BY <1>1, <3>2, MoveFacts DEF Accounts
    <3> QED BY <1>1, <3>1, <3>2
  <2>2. ~ Less(Plus(loaded[t], q.amount), 0)
    BY <1>1, <1>2, <1>3, PaymentLeavesNoDebt
  <2> QED BY <2>1, <2>2
<1> QED BY <1>4, <1>5

LEMMA NoDebtNext ==
  ASSUME NoDebtAtOpening, LocksInv, NumbersLeft, NoDebt, \A t \in Threads : FundsOK(t), [Next]_vars
  PROVE  NoDebt' /\ \A t \in Threads : FundsOK(t)'
<1> USE DEF LocksInv
<1>1. ASSUME NEW t \in Threads, (\E q \in Jobs[t] : Invoke(t, q)) \/ Step(t)
      PROVE  NoDebt' /\ \A u \in Threads : FundsOK(u)'
  <2>0. /\ pc \in [Threads -> Labels] /\ DOMAIN job = Threads /\ step \in [Threads -> {1, 2}]
        /\ loaded \in [Threads -> Money]
        /\ object \in [DOMAIN object -> Account] /\ DOMAIN object \subseteq DOMAIN object'
        /\ CallOK(t) /\ HoldsOwn(t) /\ FundsOK(t)
    BY <1>1, StoreByStep DEF FunctionsOK, StoreOK
  <2>1. NoDebt'
    <3>1. CASE Create(t)
      <4>1. job[t] \in Jobs[t] /\ job[t].service = "OpenAccount"
        BY <2>0, <3>1 DEF Create, CallOK
      <4>2. ~ Less(job[t].amount, 0)
        BY <4>1 DEF NoDebtAtOpening
      <4>3. /\ DOMAIN object' = DOMAIN object \cup {nextID}
            /\ object'[nextID].balance = job[t].amount
            /\ \A a \in DOMAIN object \ {nextID} : object'[a] = object[a]
        BY <3>1 DEF Create, OpenAccount, Returns, CreateAccount, Put
      <4> QED BY <4>2, <4>3 DEF NoDebt
    <3>2. CASE Write(t)
      <4> DEFINE move == Moves(job[t])[step[t]]
      <4>1. ~ Less(Plus(loaded[t], move.amount), 0)
        BY <2>0, <3>2, WritesNoDebt DEF Write
      <4>2. object' = [object EXCEPT ![move.account].balance = Plus(loaded[t], move.amount)]
        BY <3>2 DEF Write
      <4> HIDE DEF move
      <4>3. ASSUME NEW a \in DOMAIN object' PROVE ~ Less(object'[a].balance, 0)
        <5>1. object[a] \in Account /\ ~ Less(object[a].balance, 0) /\ a \in DOMAIN object
          BY <2>0, <4>2, <4>3 DEF NoDebt
        <5>2. object'[a].balance \in {object[a].balance, Plus(loaded[t], move.amount)}
          BY <2>0, <4>2, <5>1 DEF Account
        <5> QED BY <4>1, <5>1, <5>2
      <4> QED BY <4>3 DEF NoDebt
    <3>3. CASE UNCHANGED object
      BY <3>3 DEF NoDebt
    <3> QED
      BY <1>1, <3>1, <3>2, <3>3
      DEF Step, Invoke, CheckArguments, Lookup, LookupPayee, Lock, Check, Load, Update, Delete,
          Unlock, Return, storeVars
  <2>2. ASSUME NEW u \in Threads, u # t PROVE FundsOK(u)'
    <3>1. /\ pc'[u] = pc[u] /\ job'[u] = job[u] /\ step'[u] = step[u] /\ loaded'[u] = loaded[u]
      BY <1>1, <2>2, OthersStay
    <3>2. pc[u] = "Load" => object'[job[u].account].balance = object[job[u].account].balance
      <4>1. SUFFICES ASSUME pc[u] = "Load"
                     PROVE  object'[job[u].account].balance = object[job[u].account].balance
        OBVIOUS
      <4>2. /\ Accounts(job[u]) \subseteq DOMAIN object
            /\ held[u] = Accounts(job[u]) /\ job[u].account \in Accounts(job[u])
        BY <4>1 DEF CallOK, HoldsOwn, Critical, Accounts
      <4>3. CASE Write(t)
        <5> DEFINE move == Moves(job[t])[step[t]]
        <5>1. move.account \in Accounts(job[t]) /\ held[t] = Accounts(job[t])
          BY <2>0, <4>3, WritesNoDebt DEF Write, HoldsOwn, Critical
        <5>2. object' = [object EXCEPT ![move.account].balance = Plus(loaded[t], move.amount)]
          BY <4>3 DEF Write
        <5>3. move.account # job[u].account
          BY <2>2, <4>2, <5>1 DEF Exclusion
        <5> HIDE DEF move
        <5> QED BY <2>0, <4>2, <5>2, <5>3
      <4>4. CASE ~ Write(t)
        BY <1>1, <4>2, <4>4, StoreByStep
      <4> QED BY <4>3, <4>4
    <3>3. FundsOK(u)
      OBVIOUS
    <3> QED BY <3>1, <3>2, <3>3 DEF FundsOK, Pays
  <2>3. FundsOK(t)'
    <3>1. CASE Check(t)
      <4>1. pc'[t] = "Load" /\ job[t].service \in {"Withdraw", "TransferFunds"}
              => ~ Less(object[job[t].account].balance, job[t].amount)
        BY <2>0, <3>1 DEF Check, Goto, LockedError, None
      <4>2. pc'[t] # "Write" /\ UNCHANGED <<job, object, step>>
        BY <2>0, <3>1 DEF Check, Goto, storeVars
      <4> QED BY <4>1, <4>2 DEF FundsOK, Pays
    <3>2. CASE Load(t)
      <4> DEFINE a == Moves(job[t])[step[t]].account
      <4>1. /\ pc[t] = "Load" /\ pc'[t] = "Write" /\ UNCHANGED <<job, step>>
            /\ loaded'[t] = object[a].balance
        BY <2>0, <3>2 DEF Load, Goto
      <4>2. /\ job[t].service \in Movements /\ Accounts(job[t]) \subseteq DOMAIN object
            /\ step[t] \in {1, 2} /\ (step[t] = 2 => job[t].service = "TransferFunds")
        BY <2>0, <4>1 DEF CallOK, Critical
      <4>3. a \in DOMAIN object /\ (step[t] = 1 => a = job[t].account)
        BY <4>2, MoveFacts DEF Accounts
      <4> HIDE DEF a
      <4>4. ~ Less(loaded'[t], 0)
        BY <4>1, <4>3 DEF NoDebt
      <4>5. Pays(t) => ~ Less(loaded'[t], job[t].amount)
        BY <2>0, <4>1, <4>3 DEF FundsOK, Pays
      <4> QED BY <4>1, <4>4, <4>5 DEF FundsOK, Pays
    <3>3. CASE Write(t)
      <4>1. pc'[t] = "Update" \/ (pc'[t] = "Load" /\ step'[t] # 1)
        BY <2>0, <3>3 DEF Write, Advance, Goto
      <4> QED BY <4>1 DEF FundsOK, Pays
    <3>4. CASE ~ (Check(t) \/ Load(t) \/ Write(t))
      <4>1. pc'[t] \notin {"Load", "Write"}
        BY <1>1, <2>0, <3>4
        DEF Step, Invoke, Create, CheckArguments, Lookup, LookupPayee, Lock, Update, Delete,
            Unlock, Return, Goto, Advance
      <4> QED BY <4>1 DEF FundsOK
    <3> QED BY <3>1, <3>2, <3>3, <3>4
  <2> QED BY <2>1, <2>2, <2>3
<1>2. CASE UNCHANGED vars
  BY <1>2 DEF vars, threadVars, storeVars, NoDebt, FundsOK, Pays
<1> QED BY <1>1, <1>2 DEF Next

\* Where no account is opened with a debt, no balance is ever below zero, between the two
\* halves of a transfer neither (bank.go: the checks of funds under the mutex).
THEOREM NoDebtAlways == NoDebtAtOpening /\ Spec /\ []NumbersLeft => []NoDebt
<1>1. SUFFICES ASSUME NoDebtAtOpening PROVE Spec /\ []NumbersLeft => []NoDebt
  OBVIOUS
<1>2. Init => NoDebt /\ \A t \in Threads : FundsOK(t)
  BY <1>1 DEF Init, NoDebt, NoDebtAtOpening, FundsOK
<1>3. LocksInv /\ NumbersLeft /\ NoDebt /\ (\A t \in Threads : FundsOK(t)) /\ [Next]_vars
        => NoDebt' /\ (\A t \in Threads : FundsOK(t))'
  BY <1>1, NoDebtNext
<1> QED BY <1>2, <1>3, LocksInvAlways, PTL DEF Spec

-----------------------------------------------------------------------------
(* The balances are the sums of the calls. *)

Errors ==
  {"ErrNonPositiveAmount", "ErrTransferSameAccount", "ErrInvalidCredentials", "ErrAccountMismatch",
   "ErrAccountNotFound", "ErrCurrencyMismatch", "ErrInsufficientFunds", "ErrStoreAccountNotFound"}

Results == [err : Errors \cup {None, "Undecided"}, value : Money]

AllJobs == UNION {Jobs[t] : t \in Threads}

\* The calls thread t has made, the one it is in included.
Begun(t) == Len(finished[t]) + (IF pc[t] = "Idle" THEN 0 ELSE 1)

ResultsOK ==
  /\ result \in [Threads -> Results]
  /\ finished \in [Threads -> Seq([q : AllJobs, result : Results])]
  /\ \A t \in Threads : Begun(t) <= MaxJobs

\* What was read for writing is what is there.
LoadedOK(t) == pc[t] = "Write" => loaded[t] = object[Moves(job[t])[step[t]].account].balance

\* What the call thread t is in has added to the balance of account a so far.
Pending(t, a) ==
  IF HalfDone(t, a) THEN Negative(job[t].amount)
  ELSE IF pc[t] = "Update" THEN Moved(job[t], 0, a)
  ELSE IF pc[t] \in {"Unlock", "Return"} /\ result[t].err = None
       THEN Moved(job[t], result[t].value, a)
  ELSE 0

CallsBegun == {k \in Threads \X (1 .. MaxJobs) : k[2] <= Begun(k[1])}

\* What call k has added to the balance of account a.
WorthOf(k, a) ==
  IF k[2] <= Len(finished[k[1]]) THEN Effect(finished[k[1]][k[2]], a) ELSE Pending(k[1], a)

WorthsOf(a) == [k \in CallsBegun |-> WorthOf(k, a)]

\* The inductive invariant: at every moment a balance is what was there at the start plus
\* what the calls have added so far, and nothing was added to an account not yet opened.
BalancesAreSums ==
  /\ ResultsOK
  /\ IsFiniteSet(CallsBegun)
  /\ DOMAIN InitialAccounts \subseteq DOMAIN object
  /\ \A t \in Threads : LoadedOK(t)
  /\ \A a \in stored : object[a].balance = Total(CallsBegun, AtStart(a), WorthsOf(a))
  /\ \A a \in Nat \ DOMAIN object : \A k \in CallsBegun : WorthOf(k, a) = 0

\* A step takes up a call, ends it, or goes on with it.
LEMMA FinishedByStep ==
  ASSUME LocksInv, ResultsOK, NEW t \in Threads, (\E q \in Jobs[t] : Invoke(t, q)) \/ Step(t)
  PROVE  /\ finished' \in [Threads -> Seq([q : AllJobs, result : Results])]
         /\ \A u \in Threads : u # t => finished'[u] = finished[u]
         /\ \/ pc[t] = "Idle" /\ pc'[t] # "Idle" /\ finished' = finished /\ Len(finished[t]) < MaxJobs
            \/ /\ Return(t) /\ pc[t] = "Return" /\ pc'[t] = "Idle"
               /\ finished'[t] = Append(finished[t], [q |-> job[t], result |-> result[t]])
               /\ [q |-> job[t], result |-> result[t]] \in [q : AllJobs, result : Results]
            \/ ~ Return(t) /\ pc[t] # "Idle" /\ pc'[t] # "Idle" /\ finished' = finished
<1> DEFINE Records == [q : AllJobs, result : Results]
<1>0. /\ pc \in [Threads -> Labels] /\ CallOK(t)
      /\ finished \in [Threads -> Seq(Records)] /\ result \in [Threads -> Results]
  BY DEF LocksInv, FunctionsOK, ResultsOK
<1>1. CASE \E q \in Jobs[t] : Invoke(t, q)
  BY <1>0, <1>1 DEF Invoke, Goto
<1>2. CASE Return(t)
  <2> DEFINE record == [q |-> job[t], result |-> result[t]]
  <2>1. job[t] \in AllJobs /\ result[t] \in Results
    BY <1>0, <1>2 DEF Return, CallOK, AllJobs
  <2>2. record \in Records
    BY <2>1
  <2>3. /\ pc[t] = "Return" /\ pc'[t] = "Idle"
        /\ finished' = [finished EXCEPT ![t] = Append(@, record)]
    BY <1>0, <1>2 DEF Return, Goto
  <2> HIDE DEF record, Records
  <2>4. finished[t] \in Seq(Records) /\ Append(finished[t], record) \in Seq(Records)
    BY <1>0, <2>2, AppendProperties
  <2>5. /\ finished' \in [Threads -> Seq(Records)]
        /\ \A u \in Threads : u # t => finished'[u] = finished[u]
        /\ finished'[t] = Append(finished[t], record)
    BY <1>0, <2>3, <2>4
  <2> QED BY <1>2, <2>2, <2>3, <2>5 DEF record, Records
<1>3. CASE Create(t) \/ CheckArguments(t) \/ Lookup(t) \/ LookupPayee(t)
  BY <1>0, <1>3 DEF Create, CheckArguments, Lookup, LookupPayee, Goto, Return
<1>4. CASE Lock(t) \/ Unlock(t) \/ Check(t)
  BY <1>0, <1>4 DEF Lock, Unlock, Check, Goto, Advance, Return
<1>5. CASE Load(t) \/ Write(t) \/ Update(t) \/ Delete(t)
  BY <1>0, <1>5 DEF Load, Write, Update, Delete, Goto, Advance, Return
<1> QED BY <1>1, <1>2, <1>3, <1>4, <1>5 DEF Step

LEMMA ResultsByStep ==
  ASSUME LocksInv, ResultsOK, NumbersLeft, NEW t \in Threads,
         (\E q \in Jobs[t] : Invoke(t, q)) \/ Step(t)
  PROVE  result' \in [Threads -> Results]
<1>0. /\ result \in [Threads -> Results] /\ CallOK(t) /\ nextID \in Nat /\ 0 \in Money
      /\ object \in [DOMAIN object -> Account]
  BY DEF LocksInv, StoreOK, ResultsOK, Money
<1>1. \A r : r \in Results /\ Decide(t, r) => result' \in [Threads -> Results]
  BY <1>0 DEF Decide
<1>2. /\ \A e \in Errors : Error(e) \in Results
      /\ \A v \in Money : Ok(v) \in Results
      /\ Undecided \in Results
  BY <1>0 DEF Error, Ok, Undecided, Results
<1>3. CASE (\E q \in Jobs[t] : Invoke(t, q)) \/ Lock(t) \/ Load(t) \/ Write(t) \/ Unlock(t)
  BY <1>0, <1>3 DEF Invoke, Lock, Load, Write, Unlock
<1>4. CASE Create(t)
  BY <1>0, <1>1, <1>2, <1>4 DEF Create, Money
<1>5. CASE CheckArguments(t)
  <2>1. ArgumentError(job[t]) \in Errors \cup {None}
    BY DEF ArgumentError, Errors
  <2> QED BY <1>0, <1>1, <1>2, <1>5, <2>1 DEF CheckArguments
<1>6. \A d, q : AuthError(d, q) \in Errors \cup {None}
  BY DEF AuthError, Errors
<1>7. CASE Lookup(t)
  BY <1>0, <1>1, <1>2, <1>6, <1>7 DEF Lookup, Errors
<1>8. CASE LookupPayee(t)
  BY <1>0, <1>1, <1>2, <1>6, <1>8 DEF LookupPayee, Errors
<1>9. pc[t] \in Critical => object[job[t].account].balance \in Money
  BY <1>0 DEF CallOK, Accounts, Account
<1>10. CASE Check(t)
  <2>1. LockedError(job[t]) \in Errors \cup {None}
    BY DEF LockedError, Errors
  <2> QED BY <1>0, <1>1, <1>2, <1>9, <1>10, <2>1 DEF Check, Critical
<1>11. CASE Update(t)
  BY <1>0, <1>1, <1>2, <1>9, <1>11 DEF Update, Critical, Errors
<1>12. CASE Delete(t)
  BY <1>0, <1>1, <1>2, <1>12 DEF Delete, Errors
<1>13. CASE Return(t)
  BY <1>0, <1>1, <1>2, <1>13 DEF Return
<1> QED
  BY <1>3, <1>4, <1>5, <1>7, <1>8, <1>10, <1>11, <1>12, <1>13 DEF Step

\* The move a thread is at goes to an account it holds.
LEMMA MoveOfThread ==
  ASSUME LocksInv, NEW t \in Threads, pc[t] \in {"Load", "Write"}
  PROVE  LET move == Moves(job[t])[step[t]]
         IN /\ move.account \in held[t] /\ held[t] = Accounts(job[t]) /\ held[t] \subseteq DOMAIN object
            /\ move.amount \in Money /\ job[t].amount \in Money /\ Negative(job[t].amount) \in Money
            /\ job[t].service \in Movements /\ ArgumentError(job[t]) = None
            /\ step[t] \in {1, 2} /\ (step[t] = 2 => job[t].service = "TransferFunds")
<1>1. /\ step[t] \in {1, 2} /\ (step[t] = 2 => job[t].service = "TransferFunds")
      /\ job[t] \in Jobs[t] /\ job[t].service \in Movements /\ ArgumentError(job[t]) = None
      /\ held[t] = Accounts(job[t]) /\ Accounts(job[t]) \subseteq DOMAIN object
  BY DEF LocksInv, FunctionsOK, CallOK, HoldsOwn, Critical
<1>2. job[t].amount \in Money /\ Negative(job[t].amount) \in Money
  BY <1>1, JobFacts, MoneyClosed
<1> QED BY <1>1, <1>2, MoveFacts DEF Accounts

\* A write adds what the call moves to the balance that is there, and no other.
LEMMA WriteAddsMove ==
  ASSUME LocksInv, NEW t \in Threads, LoadedOK(t), Write(t)
  PROVE  LET move == Moves(job[t])[step[t]]
         IN \A a \in DOMAIN object :
              object'[a].balance = IF a = move.account THEN Plus(move.amount, object[a].balance)
                                   ELSE object[a].balance
<1> DEFINE move == Moves(job[t])[step[t]]
<1>1. /\ pc[t] = "Write" /\ loaded[t] = object[move.account].balance
      /\ object' = [object EXCEPT ![move.account].balance = Plus(loaded[t], move.amount)]
  BY DEF Write, LoadedOK
<1>2. move.account \in DOMAIN object /\ move.amount \in Money
  BY <1>1, MoveOfThread
<1>3. object \in [DOMAIN object -> Account]
  BY DEF LocksInv, StoreOK
<1> HIDE DEF move
<1>4. object[move.account] \in Account /\ object[move.account].balance \in Money
  BY <1>2, <1>3 DEF Account
<1>5. Plus(object[move.account].balance, move.amount) = Plus(move.amount, object[move.account].balance)
  BY <1>2, <1>4, PlusCommutes
<1> QED BY <1>1, <1>2, <1>3, <1>4, <1>5 DEF move, Account

\* Nothing comes between the reading of a balance and the writing.
LEMMA LoadedByStep ==
  ASSUME LocksInv, NumbersLeft, \A u \in Threads : LoadedOK(u), NEW t \in Threads,
         (\E q \in Jobs[t] : Invoke(t, q)) \/ Step(t), NEW u \in Threads
  PROVE  LoadedOK(u)'
<1>0. /\ DOMAIN pc = Threads /\ DOMAIN loaded = Threads
  BY DEF LocksInv, FunctionsOK
<1>1. CASE u = t
  <2>1. CASE Load(t)
    BY <1>0, <1>1, <2>1 DEF Load, Goto, LoadedOK, storeVars
  <2>2. CASE Write(t) \/ Lock(t) \/ Unlock(t)
    BY <1>0, <1>1, <2>2 DEF Write, Lock, Unlock, Advance, Goto, LoadedOK
  <2>3. CASE \/ \E q \in Jobs[t] : Invoke(t, q)
             \/ Create(t) \/ CheckArguments(t) \/ Lookup(t) \/ LookupPayee(t) \/ Check(t)
             \/ Update(t) \/ Delete(t) \/ Return(t)
    BY <1>0, <1>1, <2>3
    DEF Invoke, Create, CheckArguments, Lookup, LookupPayee, Check, Update, Delete, Return, Goto, LoadedOK
  <2> QED BY <2>1, <2>2, <2>3 DEF Step
<1>2. CASE u # t
  <2> DEFINE a == Moves(job[u])[step[u]].account
  <2>1. /\ pc'[u] = pc[u] /\ job'[u] = job[u] /\ step'[u] = step[u] /\ loaded'[u] = loaded[u]
    BY <1>2, OthersStay DEF LocksInv
  <2>2. ASSUME pc[u] = "Write" PROVE object'[a].balance = object[a].balance
    <3>1. a \in held[u] /\ held[u] \subseteq DOMAIN object
      BY <2>2, MoveOfThread
    <3>2. CASE Write(t)
      <4>1. pc[t] = "Write" /\ Moves(job[t])[step[t]].account \in held[t]
        BY <3>2, MoveOfThread DEF Write
      <4>2. held[t] \cap held[u] = {}
        BY <1>2 DEF LocksInv, Exclusion
      <4>3. a # Moves(job[t])[step[t]].account /\ a \in DOMAIN object
        BY <3>1, <4>1, <4>2
      <4> HIDE DEF a
      <4> QED BY <3>2, <4>3, WriteAddsMove
    <3>3. CASE ~ Write(t)
      BY <3>1, <3>3, StoreByStep
    <3> QED BY <3>2, <3>3
  <2>3. LoadedOK(u)
    OBVIOUS
  <2> QED BY <2>1, <2>2, <2>3 DEF LoadedOK
<1> QED BY <1>1, <1>2

\* What a call is about to have added is an amount of money.
LEMMA MovedByJob ==
  ASSUME NEW t \in Threads, NEW q \in Jobs[t], NEW value, NEW a
  PROVE  Moved(q, value, a) \in Money
<1>1. WellFormed(q) /\ WellTyped(q) /\ 0 \in Money
  BY JobsAssumption DEF Money
<1>2. "amount" \in DOMAIN q => q.amount \in Money /\ Negative(q.amount) \in Money
  BY <1>1, MoneyClosed DEF WellTyped
<1>3. q.service \in {"OpenAccount", "Deposit", "Withdraw", "TransferFunds"} => "amount" \in DOMAIN q
  BY <1>1 DEF WellFormed, RequiredFields
<1> QED BY <1>1, <1>2, <1>3 DEF Moved

LEMMA PendingTyped ==
  ASSUME LocksInv, NEW t \in Threads, NEW a
  PROVE  Pending(t, a) \in Money
<1>1. HalfDone(t, a) => Negative(job[t].amount) \in Money
  BY MoveOfThread DEF HalfDone
<1>2. pc[t] # "Idle" => job[t] \in Jobs[t]
  BY DEF LocksInv, CallOK
<1>3. 0 \in Money
  BY DEF Money
<1> QED BY <1>1, <1>2, <1>3, MovedByJob DEF Pending

\* What a call has added so far grows by what it writes.
LEMMA PendingByWrite ==
  ASSUME LocksInv, NEW t \in Threads, Write(t), NEW a
  PROVE  LET move == Moves(job[t])[step[t]]
         IN Pending(t, a)' = Plus(IF a = move.account THEN move.amount ELSE 0, Pending(t, a))
<1> DEFINE q == job[t]
           move == Moves(q)[step[t]]
           n == q.amount
<1>1. /\ pc[t] = "Write" /\ q' = q
      /\ n \in Money /\ Negative(n) \in Money /\ 0 \in Money
      /\ q.service \in Movements /\ ArgumentError(q) = None
      /\ step[t] \in {1, 2} /\ (step[t] = 2 => q.service = "TransferFunds")
  BY MoveOfThread DEF Write, Money
<1>2. /\ Len(Moves(q)) = IF q.service = "TransferFunds" THEN 2 ELSE 1
      /\ Moves(q)[1].account = q.account
      /\ Moves(q)[1].amount = IF q.service = "Deposit" THEN n ELSE Negative(n)
      /\ q.service = "TransferFunds" => Moves(q)[2].account = q.toAccount /\ Moves(q)[2].amount = n
      /\ q.service = "TransferFunds" => q.account # q.toAccount
  BY <1>1, MoveFacts, ArgumentFacts
<1>3. IF step[t] = Len(Moves(q)) THEN pc'[t] = "Update" ELSE pc'[t] = "Load" /\ step'[t] = step[t] + 1
  BY DEF Write, Advance, Goto, LocksInv, FunctionsOK
<1>4. \A x \in Money : Plus(x, 0) = x /\ Plus(0, x) = x
  BY PlusCommutes
<1>5. CASE step[t] = 1 /\ q.service # "TransferFunds"
  <2>1. Pending(t, a) = 0
    BY <1>1, <1>5 DEF Pending, HalfDone
  <2>2. Pending(t, a)' = Moved(q, 0, a)
    BY <1>1, <1>2, <1>3, <1>5 DEF Pending, HalfDone
  <2>3. Moved(q, 0, a) = IF q.account = a THEN Moves(q)[1].amount ELSE 0
    BY <1>1, <1>2, <1>5 DEF Moved, Movements
  <2> QED BY <1>1, <1>2, <1>4, <1>5, <2>1, <2>2, <2>3
<1>6. CASE step[t] = 1 /\ q.service = "TransferFunds"
  <2>1. Pending(t, a) = 0
    BY <1>1, <1>6 DEF Pending, HalfDone
  <2>2. pc'[t] = "Load" /\ step'[t] = 2
    BY <1>2, <1>3, <1>6
  <2>3. Pending(t, a)' = IF q.account = a THEN Negative(n) ELSE 0
    BY <1>1, <2>2 DEF Pending, HalfDone
  <2> QED BY <1>1, <1>2, <1>4, <1>6, <2>1, <2>3
<1>7. CASE step[t] = 2
  <2>1. Pending(t, a) = IF q.account = a THEN Negative(n) ELSE 0
    BY <1>1, <1>7 DEF Pending, HalfDone
  <2>2. Pending(t, a)' = Moved(q, 0, a)
    BY <1>1, <1>2, <1>3, <1>7 DEF Pending, HalfDone
  <2>3. Moved(q, 0, a) = IF q.toAccount = a THEN n ELSE IF q.account = a THEN Negative(n) ELSE 0
    BY <1>1, <1>7 DEF Moved
  <2> QED BY <1>1, <1>2, <1>4, <1>7, <2>1, <2>2, <2>3
<1> QED BY <1>1, <1>5, <1>6, <1>7

\* Any other step but the opening of the account leaves it, unless the account is gone.
LEMMA PendingByOtherStep ==
  ASSUME LocksInv, NumbersLeft, NEW t \in Threads, Step(t), ~ Write(t), ~ Return(t), NEW a,
         Create(t) => a # nextID,
         a \in stored \/ a \notin DOMAIN object
  PROVE  Pending(t, a)' = Pending(t, a)
<1>0. /\ DOMAIN pc = Threads /\ DOMAIN step = Threads /\ DOMAIN result = Threads
      /\ CallOK(t) /\ step[t] \in {1, 2} /\ stored \subseteq DOMAIN object
  BY DEF LocksInv, FunctionsOK, StoreOK
<1>1. CASE Create(t)
  BY <1>0, <1>1 DEF Create, Goto, Decide, Pending, HalfDone, Moved, CallOK, Ok
<1>2. CASE CheckArguments(t) \/ Lookup(t) \/ LookupPayee(t)
  BY <1>0, <1>2 DEF CheckArguments, Lookup, LookupPayee, Goto, Decide, Pending, HalfDone, Error
<1>3. CASE Lock(t)
  BY <1>0, <1>3 DEF Lock, Goto, Advance, Pending, HalfDone
<1>4. CASE Check(t)
  <2>1. pc[t] = "Check" /\ step[t] = 1 /\ UNCHANGED <<job, step>>
    BY <1>0, <1>4 DEF Check, CallOK
  <2>2. \/ pc'[t] = "Unlock" /\ result'[t].err # None
        \/ pc'[t] = "Unlock" /\ job[t].service = "GetBalance"
        \/ pc'[t] \in {"Delete", "Load"}
    BY <1>0, <1>4 DEF Check, Goto, Decide, Error
  <2>3. job[t].service = "GetBalance" => \A v : Moved(job[t], v, a) = 0
    BY DEF Moved
  <2> QED BY <2>1, <2>2, <2>3 DEF Pending, HalfDone
<1>5. CASE Load(t)
  BY <1>0, <1>5 DEF Load, Goto, Pending, HalfDone
<1>6. CASE Update(t)
  <2> DEFINE q == job[t]
  <2>1. pc[t] = "Update" /\ q' = q /\ q.service \in Movements /\ Accounts(q) \subseteq DOMAIN object
    BY <1>0, <1>6 DEF Update, CallOK, Critical
  <2>2. \A v : Moved(q, v, a) = Moved(q, 0, a)
    BY <2>1 DEF Moved, Movements
  <2>3. Pending(t, a) = Moved(q, 0, a)
    BY <2>1 DEF Pending, HalfDone
  <2>4. \/ pc'[t] = "Update"
        \/ pc'[t] = "Unlock" /\ result'[t].err = None
        \/ /\ pc'[t] = "Unlock" /\ result'[t].err # None
           /\ q.service # "TransferFunds" /\ q.account \notin stored
    BY <1>0, <1>6 DEF Update, Goto, Decide, Error, Ok, None
  <2>5. q.service # "TransferFunds" /\ q.account \notin stored => Moved(q, 0, a) = 0
    <3>1. ASSUME q.service # "TransferFunds", q.account \notin stored PROVE q.account # a
      BY <2>1, <3>1 DEF Accounts
    <3> QED BY <2>1, <3>1 DEF Moved, Movements
  <2>6. pc'[t] \in {"Update", "Unlock"}
    BY <2>4
  <2> QED BY <2>1, <2>2, <2>3, <2>4, <2>5, <2>6 DEF Pending, HalfDone
<1>7. CASE Delete(t)
  <2>1. /\ pc[t] = "Delete" /\ pc'[t] = "Unlock" /\ UNCHANGED job
        /\ job[t].service = "CloseAccount"
    BY <1>0, <1>7 DEF Delete, Goto, CallOK
  <2>2. \A v : Moved(job[t], v, a) = 0
    BY <2>1 DEF Moved
  <2> QED BY <2>1, <2>2 DEF Pending, HalfDone
<1>8. CASE Unlock(t)
  BY <1>0, <1>8 DEF Unlock, Goto, Advance, Pending, HalfDone
<1> QED BY <1>1, <1>2, <1>3, <1>4, <1>5, <1>6, <1>7, <1>8 DEF Step

LEMMA WorthTyped ==
  ASSUME LocksInv, ResultsOK, NEW k \in CallsBegun, NEW a
  PROVE  WorthOf(k, a) \in Money
<1>1. k[1] \in Threads /\ k[2] \in Nat /\ k[2] > 0
  BY DEF CallsBegun
<1>2. CASE k[2] <= Len(finished[k[1]])
  <2> DEFINE Records == [q : AllJobs, result : Results]
             f == finished[k[1]][k[2]]
  <2>1. finished[k[1]] \in Seq(Records)
    BY <1>1 DEF ResultsOK
  <2>2. f \in Records
    <3> HIDE DEF Records
    <3> QED BY <1>1, <1>2, <2>1, ElementOfSeq
  <2>3. \E t \in Threads : f.q \in Jobs[t]
    BY <2>2 DEF AllJobs
  <2>4. Moved(f.q, f.result.value, a) \in Money
    BY <2>3, MovedByJob
  <2>5. 0 \in Money
    BY DEF Money
  <2> QED BY <1>2, <2>4, <2>5 DEF WorthOf, Effect
<1>3. CASE ~ k[2] <= Len(finished[k[1]])
  BY <1>1, <1>3, PendingTyped DEF WorthOf
<1> QED BY <1>2, <1>3

\* After a step of thread t the call it is in, or has just ended, is among those begun.
LEMMA CallsByStep ==
  ASSUME LocksInv, ResultsOK, NEW t \in Threads, (\E q \in Jobs[t] : Invoke(t, q)) \/ Step(t)
  PROVE  LET k == <<t, Len(finished[t]) + 1>>
         IN /\ \A u \in Threads : Begun(u)' <= MaxJobs
            /\ CallsBegun' = CallsBegun \cup {k}
            /\ k \in CallsBegun <=> pc[t] # "Idle"
            /\ \A j \in CallsBegun \ {k} : \A a : WorthOf(j, a)' = WorthOf(j, a)
<1> DEFINE Records == [q : AllJobs, result : Results]
<1> PICK n : n = Len(finished[t]) + 1
  OBVIOUS
<1>1. /\ finished \in [Threads -> Seq(Records)] /\ MaxJobs \in Nat
      /\ \A u \in Threads : Begun(u) <= MaxJobs
  BY JobsAssumption DEF ResultsOK
<1>2. \A u \in Threads : u # t => /\ pc'[u] = pc[u] /\ job'[u] = job[u] /\ step'[u] = step[u]
                                  /\ result'[u] = result[u] /\ finished'[u] = finished[u]
  BY OthersStay, FinishedByStep DEF LocksInv
<1> HIDE DEF Records
<1>3. /\ \A u \in Threads : Len(finished[u]) \in Nat
      /\ \A r \in Records : /\ Len(Append(finished[t], r)) = n
                            /\ \A i \in 1 .. Len(finished[t]) : Append(finished[t], r)[i] = finished[t][i]
  BY <1>1, AppendProperties, LenProperties
<1>4. /\ Begun(t)' = n
      /\ n <= MaxJobs
      /\ Begun(t) = IF pc[t] = "Idle" THEN n - 1 ELSE n
      /\ Len(finished[t]) <= Len(finished'[t])
      /\ \A i \in 1 .. Len(finished[t]) : finished'[t][i] = finished[t][i]
  <2>1. CASE pc[t] = "Idle" /\ pc'[t] # "Idle" /\ finished' = finished /\ Len(finished[t]) < MaxJobs
    BY <1>1, <1>3, <2>1 DEF Begun
  <2>2. CASE /\ Return(t) /\ pc[t] = "Return" /\ pc'[t] = "Idle"
             /\ finished'[t] = Append(finished[t], [q |-> job[t], result |-> result[t]])
             /\ [q |-> job[t], result |-> result[t]] \in Records
    BY <1>1, <1>3, <2>2 DEF Begun
  <2>3. CASE pc[t] # "Idle" /\ pc'[t] # "Idle" /\ finished' = finished
    BY <1>1, <1>3, <2>3 DEF Begun
  <2> QED BY <2>1, <2>2, <2>3, FinishedByStep DEF Records
<1>5. \A u \in Threads : u # t => Begun(u)' = Begun(u)
  BY <1>2 DEF Begun
<1>6. \A u \in Threads : Begun(u)' <= MaxJobs
  BY <1>1, <1>4, <1>5
<1>7. CallsBegun' = CallsBegun \cup {<<t, n>>}
  BY <1>1, <1>3, <1>4, <1>5 DEF CallsBegun
<1>8. <<t, n>> \in CallsBegun <=> pc[t] # "Idle"
  BY <1>1, <1>3, <1>4 DEF CallsBegun
<1>9. ASSUME NEW j \in CallsBegun, j # <<t, n>>, NEW a PROVE WorthOf(j, a)' = WorthOf(j, a)
  <2>1. j = <<j[1], j[2]>> /\ j[1] \in Threads /\ j[2] \in 1 .. MaxJobs /\ j[2] <= Begun(j[1])
    BY DEF CallsBegun
  <2>2. CASE j[1] = t
    <3>1. j[2] \in 1 .. Len(finished[t]) /\ j[2] <= Len(finished'[t])
      <4>1. j[2] # n
        BY <1>9, <2>1, <2>2
      <4> QED BY <1>1, <1>3, <1>4, <2>1, <2>2, <4>1, FinishedByStep, LenProperties DEF Records
    <3> QED BY <1>4, <2>2, <3>1 DEF WorthOf
  <2>3. CASE j[1] # t
    <3>1. Pending(j[1], a)' = Pending(j[1], a)
      BY <1>2, <2>1, <2>3 DEF Pending, HalfDone
    <3> QED BY <1>2, <2>1, <2>3, <3>1 DEF WorthOf
  <2> QED BY <2>2, <2>3
<1> QED BY <1>6, <1>7, <1>8, <1>9

\* What the balance grows by, the worth of the call grows by.
LEMMA StepAdds ==
  ASSUME LocksInv, NumbersLeft, ResultsOK, NEW t \in Threads, LoadedOK(t), Step(t), NEW a,
         a \in stored \/ a \notin DOMAIN object, Create(t) => a # nextID,
         NEW n, n = Len(finished[t]) + 1
  PROVE  \E d \in Money : /\ WorthOf(<<t, n>>, a)' = Plus(d, WorthOf(<<t, n>>, a))
                          /\ a \in stored => object'[a].balance = Plus(d, object[a].balance)
                          /\ a \notin DOMAIN object => d = 0
<1>0. /\ Len(finished[t]) \in Nat /\ 0 \in Money /\ stored \subseteq DOMAIN object
      /\ \A b \in DOMAIN object : object[b].balance \in Money
  BY LenProperties DEF ResultsOK, Money, LocksInv, StoreOK, Account
<1>1. WorthOf(<<t, n>>, a) = Pending(t, a)
  BY <1>0 DEF WorthOf
<1>2. Pending(t, a) \in Money
  BY PendingTyped
<1>3. ASSUME ~ Write(t), WorthOf(<<t, n>>, a)' = Pending(t, a)
      PROVE  /\ WorthOf(<<t, n>>, a)' = Plus(0, WorthOf(<<t, n>>, a))
             /\ a \in stored => object'[a].balance = Plus(0, object[a].balance)
  <2>1. a \in stored => object'[a] = object[a] /\ object[a].balance \in Money
    BY <1>0, <1>3, StoreByStep
  <2> QED BY <1>1, <1>2, <1>3, <2>1, PlusCommutes
<1>4. CASE Return(t)
  <2> DEFINE record == [q |-> job[t], result |-> result[t]]
  <2>1. pc[t] = "Return" /\ ~ Write(t)
    BY <1>4 DEF Return, Write
  <2>2. finished'[t][n] = record /\ n <= Len(finished'[t])
    <3> DEFINE Records == [q : AllJobs, result : Results]
    <3>1. finished[t] \in Seq(Records)
      BY DEF ResultsOK
    <3>2. /\ finished'[t] = Append(finished[t], record) /\ record \in Records
      BY <1>4, <2>1, FinishedByStep
    <3> HIDE DEF record, Records
    <3> QED BY <3>1, <3>2, AppendProperties
  <2>3. WorthOf(<<t, n>>, a)' = IF result[t].err # None THEN 0 ELSE Moved(job[t], result[t].value, a)
    BY <2>2 DEF WorthOf, Effect
  <2>4. Pending(t, a) = IF result[t].err # None THEN 0 ELSE Moved(job[t], result[t].value, a)
    BY <2>1 DEF Pending, HalfDone
  <2> QED BY <1>0, <1>3, <2>1, <2>3, <2>4
<1>5. CASE ~ Return(t)
  <2>1. finished' = finished
    BY <1>5, FinishedByStep
  <2>2. WorthOf(<<t, n>>, a)' = Pending(t, a)'
    BY <1>0, <2>1 DEF WorthOf
  <2>3. CASE Write(t)
    <3> DEFINE move == Moves(job[t])[step[t]]
    <3>1. Pending(t, a)' = Plus(IF a = move.account THEN move.amount ELSE 0, Pending(t, a))
      BY <2>3, PendingByWrite
    <3>2. move.amount \in Money /\ move.account \in DOMAIN object
      BY <2>3, MoveOfThread DEF Write
    <3>3. a \in stored => object'[a].balance =
                            IF a = move.account THEN Plus(move.amount, object[a].balance)
                            ELSE object[a].balance
      BY <1>0, <2>3, WriteAddsMove
    <3> HIDE DEF move
    <3>4. a \in stored => object[a].balance = Plus(0, object[a].balance)
      BY <1>0, PlusCommutes
    <3>5. CASE a = move.account
      BY <1>1, <2>2, <3>1, <3>2, <3>3, <3>5
    <3>6. CASE a # move.account
      BY <1>0, <1>1, <2>2, <3>1, <3>3, <3>4, <3>6
    <3> QED BY <3>5, <3>6
  <2>4. CASE ~ Write(t)
    <3>1. Pending(t, a)' = Pending(t, a)
      BY <1>5, <2>4, PendingByOtherStep
    <3> QED BY <1>0, <1>3, <2>2, <2>4, <3>1
  <2> QED BY <2>3, <2>4
<1> QED BY <1>4, <1>5

\* An account is opened with the amount the call says, and is new to all other calls.
LEMMA AccountOpens ==
  ASSUME LocksInv, NumbersLeft, ResultsOK, NEW t \in Threads, Create(t),
         NEW n, n = Len(finished[t]) + 1, NEW a, a = nextID
  PROVE  /\ a \notin DOMAIN object /\ a \in Nat /\ a \in DOMAIN object'
         /\ stored' = stored \cup {a}
         /\ WorthOf(<<t, n>>, a)' = object'[a].balance
         /\ object'[a].balance \in Money
<1> DEFINE q == job[t]
<1>1. q \in Jobs[t] /\ q.service = "OpenAccount" /\ pc[t] = "Create"
  BY DEF Create, LocksInv, CallOK
<1>2. a \in Nat /\ a \notin DOMAIN object
  BY DEF LocksInv, StoreOK
<1>3. /\ DOMAIN object' = DOMAIN object \cup {a} /\ object'[a].balance = q.amount
      /\ stored' = stored \cup {a}
  BY DEF Create, OpenAccount, Returns, CreateAccount, Put
<1>4. /\ pc'[t] = "Return" /\ result'[t].err = None /\ result'[t].value = a
      /\ job' = job /\ finished' = finished
  BY DEF Create, Goto, Decide, Ok, LocksInv, FunctionsOK
<1>5. Moved(q, a, a) = q.amount /\ Moved(q, a, a) \in Money
  BY <1>1, MovedByJob DEF Moved
<1>6. Pending(t, a)' = q.amount
  BY <1>4, <1>5 DEF Pending, HalfDone
<1>7. Len(finished[t]) \in Nat
  BY LenProperties DEF ResultsOK
<1> QED BY <1>2, <1>3, <1>4, <1>5, <1>6, <1>7 DEF WorthOf

LEMMA StartTyped == ASSUME NEW a PROVE AtStart(a) \in Money
<1>1. a \in DOMAIN InitialAccounts => InitialAccounts[a] \in Account
  BY AccountsAssumption
<1> QED BY <1>1 DEF AtStart, Account, Money

\* Taking up a call adds nothing.
LEMMA SumsByInvoke ==
  ASSUME LocksInv, NumbersLeft, BalancesAreSums, NEW t \in Threads, NEW q \in Jobs[t], Invoke(t, q),
         NEW a, a \in stored \/ a \in Nat \ DOMAIN object
  PROVE  /\ a \in stored => object[a].balance = Total(CallsBegun, AtStart(a), WorthsOf(a))'
         /\ a \notin DOMAIN object => \A j \in CallsBegun' : WorthOf(j, a)' = 0
<1> PICK n : n = Len(finished[t]) + 1
  OBVIOUS
<1> PICK g : g = WorthsOf(a)'
  OBVIOUS
<1> PICK h : h = WorthsOf(a)
  OBVIOUS
<1>1. /\ CallsBegun' = CallsBegun \cup {<<t, n>>} /\ <<t, n>> \notin CallsBegun
      /\ \A j \in CallsBegun : WorthOf(j, a)' = WorthOf(j, a) /\ WorthOf(j, a) \in Money
  <2>1. pc[t] = "Idle"
    BY DEF Invoke
  <2> QED BY <2>1, CallsByStep, WorthTyped DEF BalancesAreSums
<1>2. WorthOf(<<t, n>>, a)' = 0
  <2>1. finished' = finished /\ pc'[t] \in {"Create", "Arguments"} /\ Len(finished[t]) \in Nat
    BY LenProperties DEF Invoke, Goto, LocksInv, FunctionsOK, BalancesAreSums, ResultsOK
  <2> QED BY <2>1 DEF WorthOf, Pending, HalfDone
<1>k. PICK k : k = <<t, n>>
  OBVIOUS
<1>3. /\ CallsBegun' = CallsBegun \cup {k} /\ k \notin CallsBegun /\ g[k] = 0
      /\ \A j \in CallsBegun : g[j] = h[j] /\ g[j] \in Money
  BY <1>1, <1>2, <1>k DEF WorthsOf
<1>4. Total(CallsBegun \cup {k}, AtStart(a), g) = Plus(0, Total(CallsBegun, AtStart(a), h))
  <2>1. g[k] \in Money /\ IsFiniteSet(CallsBegun) /\ AtStart(a) \in Money
    BY <1>3, StartTyped DEF BalancesAreSums, Money
  <2>2. Total(CallsBegun \cup {k}, AtStart(a), g) = Plus(g[k], Total(CallsBegun, AtStart(a), h))
    <3> PICK base : base = AtStart(a)
      OBVIOUS
    <3>1. base \in Money /\ g[k] \in Money /\ k \notin CallsBegun /\ IsFiniteSet(CallsBegun)
      BY <1>3, <2>1
    <3>2. \A j \in CallsBegun : g[j] \in Money /\ g[j] = h[j]
      BY <1>3
    <3>3. Total(CallsBegun \cup {k}, base, g) = Plus(g[k], Total(CallsBegun, base, h))
      BY <3>1, <3>2, TotalGrows
    <3> QED BY <3>3
  <2> QED BY <1>3, <2>2
<1>5. Total(CallsBegun, AtStart(a), WorthsOf(a))' = Total(CallsBegun \cup {k}, AtStart(a), g)
  BY <1>3 DEF AtStart
<1>6. a \in stored => object[a].balance = Total(CallsBegun, AtStart(a), h) /\ object[a].balance \in Money
  BY DEF BalancesAreSums, LocksInv, StoreOK, Account
<1>7. \A x \in Money : Plus(0, x) = x
  BY PlusCommutes
<1>8. a \in stored => object[a].balance = Total(CallsBegun, AtStart(a), WorthsOf(a))'
  BY <1>4, <1>5, <1>6, <1>7
<1>9. ASSUME a \notin DOMAIN object, NEW j \in CallsBegun' PROVE WorthOf(j, a)' = 0
  <2>1. a \in Nat \ DOMAIN object
    BY <1>9 DEF LocksInv, StoreOK
  <2> QED BY <1>1, <1>2, <1>9, <2>1 DEF BalancesAreSums
<1> QED BY <1>8, <1>9

\* What a step adds to a balance the totals have too.
LEMMA SumsByStep ==
  ASSUME LocksInv, NumbersLeft, BalancesAreSums, NEW t \in Threads, Step(t),
         NEW a, a \in stored' \/ a \in Nat \ DOMAIN object'
  PROVE  /\ a \in stored' => object'[a].balance = Total(CallsBegun, AtStart(a), WorthsOf(a))'
         /\ a \notin DOMAIN object' => \A j \in CallsBegun' : WorthOf(j, a)' = 0
<1> PICK n : n = Len(finished[t]) + 1
  OBVIOUS
<1> PICK g : g = WorthsOf(a)
  OBVIOUS
<1> PICK h : h = WorthsOf(a)'
  OBVIOUS
<1> PICK k : k = <<t, n>>
  OBVIOUS
<1>0. ResultsOK /\ LoadedOK(t) /\ IsFiniteSet(CallsBegun) /\ AtStart(a) \in Money
  BY StartTyped DEF BalancesAreSums
<1>1. /\ CallsBegun' = CallsBegun /\ k \in CallsBegun
      /\ \A j \in CallsBegun \ {k} : WorthOf(j, a)' = WorthOf(j, a)
      /\ \A j \in CallsBegun : WorthOf(j, a) \in Money
  <2>1. pc[t] # "Idle"
    BY DEF Step, Create, CheckArguments, Lookup, LookupPayee, Lock, Check, Load, Write, Update,
           Delete, Unlock, Return
  <2> QED BY <1>0, <2>1, CallsByStep, WorthTyped
<1>2. /\ h[k] = WorthOf(k, a)' /\ g[k] = WorthOf(k, a)
      /\ \A j \in CallsBegun \ {k} : h[j] = g[j]
      /\ \A j \in CallsBegun : g[j] \in Money
  BY <1>1 DEF WorthsOf
<1>3. Total(CallsBegun, AtStart(a), WorthsOf(a))' = Total(CallsBegun, AtStart(a), h)
  BY <1>1 DEF AtStart
<1>4. ASSUME NEW d \in Money, WorthOf(k, a)' = Plus(d, WorthOf(k, a))
      PROVE  Total(CallsBegun, AtStart(a), h) = Plus(d, Total(CallsBegun, AtStart(a), g))
  <2>1. h[k] = Plus(d, g[k])
    BY <1>2, <1>4
  <2> QED BY <1>0, <1>1, <1>2, <2>1, TotalChanges
<1>5. CASE Create(t) /\ a = nextID
  <2>1. /\ a \notin DOMAIN object /\ a \in Nat /\ a \in DOMAIN object'
        /\ WorthOf(k, a)' = object'[a].balance /\ object'[a].balance \in Money
    BY <1>0, <1>5, AccountOpens
  <2>2. \A j \in CallsBegun : WorthOf(j, a) = 0
    BY <2>1 DEF BalancesAreSums
  <2>3. \A j \in CallsBegun : g[j] = 0
    BY <2>2 DEF WorthsOf
  <2>4. AtStart(a) = 0
    BY <2>1 DEF BalancesAreSums, AtStart
  <2>5. Total(CallsBegun, AtStart(a), g) = 0
    BY <1>0, <2>3, <2>4, TotalOfWorthless
  <2>6. WorthOf(k, a)' = Plus(object'[a].balance, WorthOf(k, a))
        /\ Plus(object'[a].balance, 0) = object'[a].balance
    BY <1>1, <2>1, <2>2, PlusCommutes
  <2>7. Total(CallsBegun, AtStart(a), h) = Plus(object'[a].balance, 0)
    BY <1>4, <2>1, <2>5, <2>6
  <2> QED BY <1>3, <2>1, <2>6, <2>7
<1>6. CASE ~ (Create(t) /\ a = nextID)
  <2>1. DOMAIN object \subseteq DOMAIN object'
    BY StoreByStep
  <2>2. a \in stored' => a \in stored
    BY <1>6
    DEF Step, Create, CheckArguments, Lookup, LookupPayee, Lock, Check, Load, Write, Update,
        Delete, Unlock, Return, storeVars
  <2>3. a \in stored \/ a \notin DOMAIN object
    BY <2>1, <2>2
  <2>4. PICK d \in Money : /\ WorthOf(k, a)' = Plus(d, WorthOf(k, a))
                           /\ a \in stored => object'[a].balance = Plus(d, object[a].balance)
                           /\ a \notin DOMAIN object => d = 0
    BY <1>0, <1>6, <2>3, StepAdds
  <2>5. a \in stored => object[a].balance = Total(CallsBegun, AtStart(a), g)
    BY DEF BalancesAreSums
  <2>6. a \in stored' => object'[a].balance = Total(CallsBegun, AtStart(a), h)
    BY <1>4, <2>2, <2>4, <2>5
  <2>7. ASSUME a \notin DOMAIN object', NEW j \in CallsBegun' PROVE WorthOf(j, a)' = 0
    <3>1. a \in Nat \ DOMAIN object
      <4>1. stored' \subseteq DOMAIN object'
        BY StoreByStep DEF StoreOK
      <4> QED BY <2>1, <2>7, <4>1
    <3>2. WorthOf(j, a) = 0 /\ WorthOf(k, a) = 0
      BY <1>1, <2>7, <3>1 DEF BalancesAreSums
    <3>3. Plus(0, 0) = 0
      BY PlusCommutes DEF Money
    <3> QED BY <1>1, <2>4, <2>7, <3>1, <3>2, <3>3
  <2> QED BY <1>3, <2>6, <2>7
<1> QED BY <1>5, <1>6

LEMMA BalancesAreSumsNext ==
  ASSUME LocksInv, NumbersLeft, BalancesAreSums, [Next]_vars
  PROVE  BalancesAreSums'
<1>1. ASSUME NEW t \in Threads, (\E q \in Jobs[t] : Invoke(t, q)) \/ Step(t)
      PROVE  BalancesAreSums'
  <2>1. ResultsOK'
    BY <1>1, FinishedByStep, ResultsByStep, CallsByStep DEF BalancesAreSums, ResultsOK
  <2>2. IsFiniteSet(CallsBegun')
    <3>1. \E k : CallsBegun' = CallsBegun \cup {k}
      BY <1>1, CallsByStep DEF BalancesAreSums
    <3> QED BY <3>1, FS_AddElement DEF BalancesAreSums
  <2>3. DOMAIN object \subseteq DOMAIN object' /\ \A u \in Threads : LoadedOK(u)'
    BY <1>1, StoreByStep, LoadedByStep DEF BalancesAreSums
  <2>4. ASSUME NEW a, a \in stored' \/ a \in Nat \ DOMAIN object'
        PROVE  /\ a \in stored' => object'[a].balance = Total(CallsBegun, AtStart(a), WorthsOf(a))'
               /\ a \notin DOMAIN object' => \A j \in CallsBegun' : WorthOf(j, a)' = 0
    <3>1. CASE Step(t)
      BY <2>4, <3>1, SumsByStep
    <3>2. CASE \E q \in Jobs[t] : Invoke(t, q)
      <4>1. object' = object /\ stored' = stored
        BY <3>2 DEF Invoke, storeVars
      <4> QED BY <2>4, <3>2, <4>1, SumsByInvoke
    <3> QED BY <1>1, <3>1, <3>2
  <2> QED BY <2>1, <2>2, <2>3, <2>4 DEF BalancesAreSums, LocksInv, StoreOK
<1>2. CASE UNCHANGED vars
  <2>1. ASSUME NEW a PROVE \A k : WorthOf(k, a)' = WorthOf(k, a)
    BY <1>2 DEF vars, threadVars, storeVars, WorthOf, Effect, Pending, HalfDone
  <2>2. CallsBegun' = CallsBegun
    BY <1>2 DEF vars, threadVars, CallsBegun, Begun
  <2>3. ASSUME NEW a PROVE WorthsOf(a)' = WorthsOf(a)
    BY <2>1, <2>2 DEF WorthsOf
  <2> QED
    BY <1>2, <2>1, <2>2, <2>3
    DEF vars, threadVars, storeVars, BalancesAreSums, ResultsOK, Begun, LoadedOK, AtStart
<1> QED BY <1>1, <1>2 DEF Next

\* Where several threads call the service at once and may close accounts under each other's
\* hands, the balance of every account in the store is what it was opened with plus what
\* the calls that reported success moved, once all have returned (bank.go: the mutex of the
\* account, and the error of UpdateAccount).
THEOREM BalancesAddUpAlways == Spec /\ []NumbersLeft => []BalancesAddUp
<1>1. ASSUME Init PROVE BalancesAreSums
  <2>1. /\ CallsBegun = {}
        /\ \A t \in Threads : Begun(t) = 0
    <3>1. \A t \in Threads : Begun(t) = 0
      BY <1>1 DEF Init, Begun
    <3> QED BY <3>1 DEF CallsBegun
  <2>2. ResultsOK
    <3> DEFINE Records == [q : AllJobs, result : Results]
    <3>1. <<>> \in Seq(Records)
      BY EmptySeq
    <3>2. Undecided \in Results
      BY DEF Undecided, Results, Money
    <3> HIDE DEF Records
    <3>3. finished \in [Threads -> Seq(Records)] /\ result \in [Threads -> Results]
      BY <1>1, <3>1, <3>2 DEF Init
    <3>4. \A t \in Threads : Begun(t) <= MaxJobs
      <4>1. MaxJobs \in Nat
        BY JobsAssumption
      <4> QED BY <2>1, <4>1
    <3> QED BY <3>3, <3>4 DEF ResultsOK, Records
  <2>3. \A a \in stored : object[a].balance = AtStart(a)
    BY <1>1 DEF Init, AtStart
  <2>4. \A a : Total({}, AtStart(a), WorthsOf(a)) = AtStart(a)
    BY StartTyped, TotalOfNone
  <2>5. \A t \in Threads : LoadedOK(t)
    BY <1>1 DEF Init, LoadedOK
  <2> QED BY <1>1, <2>1, <2>2, <2>3, <2>4, <2>5, FS_EmptySet DEF BalancesAreSums, Init
<1>2. ASSUME BalancesAreSums, \A t \in Threads : pc[t] = "Idle", NEW a \in stored
      PROVE  object[a].balance =
               FoldFunction(Plus, AtStart(a), [k \in Returned |-> Effect(finished[k[1]][k[2]], a)])
  <2>0. \A t \in Threads : Len(finished[t]) \in Nat
    BY <1>2, LenProperties DEF BalancesAreSums, ResultsOK
  <2>1. CallsBegun = Returned
    <3>1. \A t \in Threads : Begun(t) = Len(finished[t])
      <4> TAKE t \in Threads
      <4>1. Begun(t) = Len(finished[t]) + 0
        BY <1>2 DEF Begun
      <4> QED BY <2>0, <4>1
    <3> QED BY <3>1 DEF CallsBegun, Returned
  <2>2. [k \in Returned |-> Effect(finished[k[1]][k[2]], a)] = WorthsOf(a)
    <3>1. \A k \in Returned : WorthOf(k, a) = Effect(finished[k[1]][k[2]], a)
      BY DEF WorthOf, Returned
    <3> QED BY <2>1, <3>1 DEF WorthsOf
  <2>3. FoldFunction(Plus, AtStart(a), WorthsOf(a)) = Total(DOMAIN WorthsOf(a), AtStart(a), WorthsOf(a))
    BY FoldIsTotal
  <2> QED BY <1>2, <2>2, <2>3 DEF BalancesAreSums, WorthsOf
<1>3. BalancesAreSums => BalancesAddUp
  BY <1>2 DEF BalancesAddUp
<1> QED BY <1>1, <1>3, BalancesAreSumsNext, LocksInvAlways, PTL DEF Spec
=============================================================================
