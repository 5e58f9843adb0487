----------------------------- MODULE AtomicBank -----------------------------
(***************************************************************************)
(* What concurrent callers of the banking service are promised: each call  *)
(* takes effect in one step, somewhere between its start and its end, and  *)
(* does what the operator of Bank for it does when nothing else runs.      *)
(***************************************************************************)
EXTENDS Handler

CONSTANTS
  Threads, Jobs,      \* the callers, and what each may ask for
  InitialDatabase

VARIABLES
  job,      \* job[t]: the call thread t is in, or NoJob
  result,   \* result[t]: what that call will return, once it is decided
  db

vars == <<job, result, db>>

NoJob == [service |-> "None"]
Undecided == [err |-> "Undecided", value |-> 0]

Init ==
  /\ job = [t \in Threads |-> NoJob]
  /\ result = [t \in Threads |-> Undecided]
  /\ db = InitialDatabase

Invoke(t, q) ==
  /\ job[t] = NoJob
  /\ job' = [job EXCEPT ![t] = q]
  /\ UNCHANGED <<result, db>>

TakeEffect(t) ==
  /\ job[t] # NoJob /\ result[t] = Undecided
  /\ LET out == CallService(db, job[t])
     IN /\ db' = out.db
        /\ result' = [result EXCEPT ![t] = [err |-> out.err, value |-> out.value]]
  /\ UNCHANGED job

Return(t) ==
  /\ result[t] # Undecided
  /\ job' = [job EXCEPT ![t] = NoJob]
  /\ result' = [result EXCEPT ![t] = Undecided]
  /\ UNCHANGED db

Next ==
  \E t \in Threads : (\E q \in Jobs[t] : Invoke(t, q)) \/ TakeEffect(t) \/ Return(t)

Spec == Init /\ [][Next]_vars
=============================================================================
