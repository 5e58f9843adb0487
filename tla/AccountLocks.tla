---------------------------- MODULE AccountLocks ----------------------------
(***************************************************************************)
(* The banking service called from several goroutines: the operations of   *)
(* server/internal/banking/bank.go, one step for each access to the store, *)
(* to a mutex or to a balance.                                             *)
(*                                                                         *)
(* GetAccount returns a pointer, so an operation goes on using its account *)
(* after the account has been removed from the store.  object[a] is the    *)
(* account struct numbered a; it outlives its entry in the map.  Numbers   *)
(* are not given out twice, so a pointer is a number.  Name, password and  *)
(* currency of an account never change; its balance is guarded by its      *)
(* mutex.  The store's own mutex makes each store operation one step.      *)
(*                                                                         *)
(* The server loop of main.go calls the service from one goroutine; the    *)
(* tests of bank.go call it from many.                                     *)
(***************************************************************************)
EXTENDS Handler, FiniteSets

CONSTANTS
  Threads,
  Jobs,              \* Jobs[t]: the calls thread t may make
  InitialAccounts,   \* the accounts opened before the threads start
  MaxJobs            \* bound: calls of each thread

ASSUME JobsAssumption ==
  /\ MaxJobs \in Nat
  /\ \A t \in Threads : \A q \in Jobs[t] : WellFormed(q) /\ WellTyped(q) /\ q.service # "Monitor"

\* The accounts there are at the start were opened one after the other.
ASSUME AccountsAssumption ==
  /\ InitialAccounts \in [DOMAIN InitialAccounts -> Account]
  /\ FirstID + Cardinality(DOMAIN InitialAccounts) \in Uint32
  /\ DOMAIN InitialAccounts \subseteq Uint32
  /\ \A a \in DOMAIN InitialAccounts : a < FirstID + Cardinality(DOMAIN InitialAccounts)

VARIABLES
  pc,        \* pc[t]: where thread t is in its call
  job,       \* job[t]: the request thread t is serving
  step,      \* step[t]: which of several accounts thread t is at
  loaded,    \* loaded[t]: a balance that was read and is not written yet
  result,    \* result[t]: the error and value the call is going to return
  object,    \* object[a]: the account struct with number a
  stored,    \* the numbers in the store's map
  nextID,
  held,      \* held[t]: the accounts whose mutex thread t holds
  finished   \* ghost. finished[t]: the calls of t that returned, with their results

threadVars == <<pc, job, step, loaded, result>>
storeVars == <<object, stored, nextID>>
vars == <<threadVars, storeVars, held, finished>>

NoJob == [service |-> "None"]
Undecided == [err |-> "Undecided", value |-> 0]
Ok(value) == [err |-> None, value |-> value]
Error(err) == [err |-> err, value |-> 0]

\* The store as the operators of Bank see it.
Database == [accounts |-> [a \in stored |-> object[a]], nextID |-> nextID]

\* Faulty: a transfer locks its payer first.
LockOrderAsGiven(q) ==
  IF q.service = "TransferFunds" THEN <<q.account, q.toAccount>> ELSE <<q.account>>

\* Faulty: a transfer locks its payer only.
LockPayerOnly(q) == <<q.account>>

\* The mutexes a call takes, in the order it takes them.
LockOrder(q) ==
  IF q.service = "TransferFunds"
  THEN IF q.account < q.toAccount THEN <<q.account, q.toAccount>> ELSE <<q.toAccount, q.account>>
  ELSE <<q.account>>

\* Deferred calls run last in, first out.
UnlockOrder(q) ==
  IF q.service = "TransferFunds" THEN <<q.toAccount, q.account>> ELSE <<q.account>>

\* The additions to a balance a call makes, in order.
Moves(q) ==
  CASE q.service = "Deposit" -> <<[account |-> q.account, amount |-> q.amount]>>
    [] q.service = "Withdraw" -> <<[account |-> q.account, amount |-> Negative(q.amount)]>>
    [] q.service = "TransferFunds" -> <<[account |-> q.account, amount |-> Negative(q.amount)],
                                        [account |-> q.toAccount, amount |-> q.amount]>>

Goto(t, label) == pc' = [pc EXCEPT ![t] = label]
Decide(t, res) == result' = [result EXCEPT ![t] = res]

\* After the last of seq, go to label; before it, go on with the next one here.
Advance(t, seq, label, here) ==
  IF step[t] = Len(seq)
  THEN Goto(t, label) /\ step' = [step EXCEPT ![t] = 1]
  ELSE Goto(t, here) /\ step' = [step EXCEPT ![t] = @ + 1]

-----------------------------------------------------------------------------
Invoke(t, q) ==
  /\ pc[t] = "Idle"
  /\ Len(finished[t]) < MaxJobs
  /\ job' = [job EXCEPT ![t] = q]
  /\ Goto(t, IF q.service = "OpenAccount" THEN "Create" ELSE "Arguments")
  /\ UNCHANGED <<step, loaded, result, storeVars, held, finished>>

Create(t) ==
  /\ pc[t] = "Create"
  /\ object' = OpenAccount([accounts |-> object, nextID |-> nextID], job[t]).db.accounts
  /\ stored' = stored \cup {nextID}
  /\ nextID' = (nextID + 1) % UintSize
  /\ Decide(t, Ok(nextID))
  /\ Goto(t, "Return")
  /\ UNCHANGED <<job, step, loaded, held, finished>>

\* What is checked before the store is looked at.
ArgumentError(q) ==
  IF q.service \in {"Deposit", "Withdraw", "TransferFunds"} /\ AtMost(q.amount, 0)
  THEN "ErrNonPositiveAmount"
  ELSE IF q.service = "TransferFunds" /\ q.account = q.toAccount THEN "ErrTransferSameAccount"
  ELSE None

CheckArguments(t) ==
  LET err == ArgumentError(job[t])
  IN /\ pc[t] = "Arguments"
     /\ IF err # None THEN Decide(t, Error(err)) /\ Goto(t, "Return")
                      ELSE UNCHANGED result /\ Goto(t, "Lookup")
     /\ UNCHANGED <<job, step, loaded, storeVars, held, finished>>

\* GetAccount, then checkAuth; a transfer looks up its payee before that.
Lookup(t) ==
  LET q == job[t]
      err == IF q.account \notin stored THEN "ErrInvalidCredentials"
             ELSE IF q.service = "TransferFunds" THEN None
             ELSE AuthError(Database, q)
  IN /\ pc[t] = "Lookup"
     /\ IF err # None THEN Decide(t, Error(err)) /\ Goto(t, "Return")
        ELSE /\ UNCHANGED result
             /\ Goto(t, IF q.service = "TransferFunds" THEN "LookupPayee" ELSE "Lock")
     /\ UNCHANGED <<job, step, loaded, storeVars, held, finished>>

\* The payer may be gone from the store by now: its checks use the struct.
LookupPayee(t) ==
  LET q == job[t]
      auth == AuthError([accounts |-> object], q)
      err == IF q.toAccount \notin stored THEN "ErrAccountNotFound"
             ELSE IF auth # None THEN auth
             ELSE IF \/ object[q.account].currency # q.currency
                     \/ object[q.account].currency # object[q.toAccount].currency
             THEN "ErrCurrencyMismatch" ELSE None
  IN /\ pc[t] = "LookupPayee"
     /\ IF err # None THEN Decide(t, Error(err)) /\ Goto(t, "Return")
                      ELSE UNCHANGED result /\ Goto(t, "Lock")
     /\ UNCHANGED <<job, step, loaded, storeVars, held, finished>>

\* Faulty: the mutex does not exclude.
LockAnyway(t) ==
  /\ pc[t] = "Lock"
  /\ Advance(t, LockOrder(job[t]), "Check", "Lock")
  /\ UNCHANGED <<job, loaded, result, storeVars, held, finished>>

Lock(t) ==
  LET a == LockOrder(job[t])[step[t]]
  IN /\ pc[t] = "Lock"
     /\ \A u \in Threads : a \notin held[u]
     /\ held' = [held EXCEPT ![t] = @ \cup {a}]
     /\ Advance(t, LockOrder(job[t]), "Check", "Lock")
     /\ UNCHANGED <<job, loaded, result, storeVars, finished>>

\* What is checked with the mutexes held.
LockedError(q) ==
  IF q.service \in {"Deposit", "Withdraw"} /\ object[q.account].currency # q.currency
  THEN "ErrCurrencyMismatch"
  ELSE IF q.service \in {"Withdraw", "TransferFunds"} /\ Less(object[q.account].balance, q.amount)
  THEN "ErrInsufficientFunds"
  ELSE None

Check(t) ==
  LET q == job[t]
      err == LockedError(q)
  IN /\ pc[t] = "Check"
     /\ CASE err # None -> Decide(t, Error(err)) /\ Goto(t, "Unlock")
          [] err = None /\ q.service = "GetBalance" ->
               Decide(t, Ok(object[q.account].balance)) /\ Goto(t, "Unlock")
          [] err = None /\ q.service = "CloseAccount" -> UNCHANGED result /\ Goto(t, "Delete")
          [] OTHER -> UNCHANGED result /\ Goto(t, "Load")
     /\ UNCHANGED <<job, step, loaded, storeVars, held, finished>>

\* balance += amount is a read and a write.
Load(t) ==
  /\ pc[t] = "Load"
  /\ loaded' = [loaded EXCEPT ![t] = object[Moves(job[t])[step[t]].account].balance]
  /\ Goto(t, "Write")
  /\ UNCHANGED <<job, step, result, storeVars, held, finished>>

Write(t) ==
  LET move == Moves(job[t])[step[t]]
  IN /\ pc[t] = "Write"
     /\ object' = [object EXCEPT ![move.account].balance = Plus(loaded[t], move.amount)]
     /\ loaded' = [loaded EXCEPT ![t] = 0]
     /\ Advance(t, Moves(job[t]), "Update", "Load")
     /\ UNCHANGED <<job, result, stored, nextID, held, finished>>

\* Faulty: UpdateAccount inserts an account that is not there.
UpdateInserts(t) ==
  /\ pc[t] = "Update"
  /\ stored' = stored \cup {job[t].account}
  /\ Decide(t, Ok(object[job[t].account].balance))
  /\ Goto(t, "Unlock")
  /\ step' = [step EXCEPT ![t] = 1]
  /\ UNCHANGED <<job, loaded, object, nextID, held, finished>>

\* Faulty: the error of UpdateAccount is ignored by every caller.
UpdateIgnored(t) ==
  /\ pc[t] = "Update"
  /\ Decide(t, Ok(object[job[t].account].balance))
  /\ Goto(t, "Unlock")
  /\ step' = [step EXCEPT ![t] = 1]
  /\ UNCHANGED <<job, loaded, storeVars, held, finished>>

\* UpdateAccount stores the pointer that is there already, or finds the account gone:
\* Deposit and Withdraw return that error, Transfer, which updates both, ignores it.
Update(t) ==
  LET q == job[t]
  IN /\ pc[t] = "Update"
     /\ IF q.service = "TransferFunds" /\ step[t] = 1
        THEN Goto(t, "Update") /\ step' = [step EXCEPT ![t] = 2] /\ UNCHANGED result
        ELSE /\ Decide(t, IF q.service # "TransferFunds" /\ q.account \notin stored
                          THEN Error("ErrStoreAccountNotFound")
                          ELSE Ok(object[q.account].balance))
             /\ Goto(t, "Unlock")
             /\ step' = [step EXCEPT ![t] = 1]
     /\ UNCHANGED <<job, loaded, storeVars, held, finished>>

Delete(t) ==
  /\ pc[t] = "Delete"
  /\ stored' = stored \ {job[t].account}
  /\ Decide(t, IF job[t].account \in stored THEN Ok(0) ELSE Error("ErrStoreAccountNotFound"))
  /\ Goto(t, "Unlock")
  /\ UNCHANGED <<job, step, loaded, object, nextID, held, finished>>

Unlock(t) ==
  LET a == UnlockOrder(job[t])[step[t]]
  IN /\ pc[t] = "Unlock"
     /\ held' = [held EXCEPT ![t] = @ \ {a}]
     /\ Advance(t, UnlockOrder(job[t]), "Return", "Unlock")
     /\ UNCHANGED <<job, loaded, result, storeVars, finished>>

Return(t) ==
  /\ pc[t] = "Return"
  /\ finished' = [finished EXCEPT ![t] = Append(@, [q |-> job[t], result |-> result[t]])]
  /\ job' = [job EXCEPT ![t] = NoJob]
  /\ Decide(t, Undecided)
  /\ Goto(t, "Idle")
  /\ UNCHANGED <<step, loaded, storeVars, held>>

Step(t) ==
  \/ Create(t) \/ CheckArguments(t) \/ Lookup(t) \/ LookupPayee(t) \/ Lock(t) \/ Check(t)
  \/ Load(t) \/ Write(t) \/ Update(t) \/ Delete(t) \/ Unlock(t) \/ Return(t)

-----------------------------------------------------------------------------
Init ==
  /\ pc = [t \in Threads |-> "Idle"]
  /\ job = [t \in Threads |-> NoJob]
  /\ step = [t \in Threads |-> 1]
  /\ loaded = [t \in Threads |-> 0]
  /\ result = [t \in Threads |-> Undecided]
  /\ object = InitialAccounts
  /\ stored = DOMAIN InitialAccounts
  /\ nextID = FirstID + Cardinality(DOMAIN InitialAccounts)
  /\ held = [t \in Threads |-> {}]
  /\ finished = [t \in Threads |-> <<>>]

Next == \E t \in Threads : (\E q \in Jobs[t] : Invoke(t, q)) \/ Step(t)

Spec == Init /\ [][Next]_vars

\* The Go scheduler runs every goroutine that can go on.  Nothing is assumed of which
\* waiting goroutine gets a mutex: the calls are finitely many.
FairSpec == Spec /\ \A t \in Threads : WF_vars(Step(t))

-----------------------------------------------------------------------------
(* What the mutexes are for. *)

\* A thread is at most once in the middle of a transfer out of a: the amount is
\* gone from the payer and not with the payee yet.
HalfDone(t, a) ==
  /\ pc[t] \in {"Load", "Write"} /\ step[t] = 2
  /\ job[t].account = a

InTransit(a) ==
  IF \E t \in Threads : HalfDone(t, a) THEN job[CHOOSE t \in Threads : HalfDone(t, a)].amount ELSE 0

\* A call takes effect when its last balance is written, or when its error or
\* result is decided, whichever is first.
Abstract == INSTANCE AtomicBank WITH
  InitialDatabase <- [accounts |-> InitialAccounts, nextID |-> FirstID + Cardinality(DOMAIN InitialAccounts)],
  db <- [accounts |-> [a \in stored |-> [object[a] EXCEPT !.balance = Plus(@, InTransit(a))]],
         nextID |-> nextID],
  result <- [t \in Threads |->
               IF pc[t] = "Update" THEN Ok(object[job[t].account].balance) ELSE result[t]]

\* Where no account is closed and every amount is a number, which can be taken back out
\* of InTransit, concurrent calls are linearizable: each has the effect and the result of
\* the sequential operator at one moment of its run (bank_test.go: TestService_ConcurrentTransfers, ConcurrentCheckBalanceAndWithdraw).
ImplementsAtomicBank == Abstract!Spec

\* No call hangs: two transfers in opposite directions lock in the same order
\* (bank.go: "Lock both accounts in order").
CallsReturn == \A t \in Threads : pc[t] # "Idle" ~> pc[t] = "Idle"

\* What a returned call adds to the balance of account a.
Effect(f, a) == IF f.result.err # None THEN 0 ELSE Moved(f.q, f.result.value, a)

\* Call k = <<t, n>> is the n-th of thread t.
Returned == {k \in Threads \X (1 .. MaxJobs) : k[2] <= Len(finished[k[1]])}

\* What account a held when the threads started.
AtStart(a) == IF a \in DOMAIN InitialAccounts THEN InitialAccounts[a].balance ELSE 0

\* Once all calls have returned, an account of the store holds what it was opened
\* with plus what the calls that reported success moved: no update was lost and
\* none was made by a call that reported an error, even while accounts were closed.
BalancesAddUp ==
  (\A t \in Threads : pc[t] = "Idle") =>
    \A a \in stored :
      object[a].balance =
        FoldFunction(Plus, AtStart(a), [k \in Returned |-> Effect(finished[k[1]][k[2]], a)])

\* No balance is below zero at any moment, in the middle of a transfer neither
\* (bank.go: "This prevents account balance from going negative").
NoDebt == \A a \in DOMAIN object : ~ Less(object[a].balance, 0)

\* A deposit or withdrawal that is about to report success worked on an account
\* of the store, not on the struct of one that was closed in the meantime.
SuccessIsStored ==
  \A t \in Threads :
    pc[t] = "Unlock" /\ job[t].service \in {"Deposit", "Withdraw"} /\ result[t].err = None
    => job[t].account \in stored

\* A closed account never comes back: only OpenAccount adds to the store, and what
\* it adds is new (memory.go: "assigns a unique ID").
ClosedStaysClosed == [][\A a \in stored' \ stored : a \notin DOMAIN object]_vars

-----------------------------------------------------------------------------
(* What the repository says and the code does not do. *)

\* report.tex:885: "Under the locks, the handler verifies that both accounts
\* exist": a transfer writes a balance only while both its accounts are in the store.
TransferFindsBothAccounts ==
  \A t \in Threads :
    pc[t] = "Write" /\ job[t].service = "TransferFunds" =>
      {job[t].account, job[t].toAccount} \subseteq stored
=============================================================================
