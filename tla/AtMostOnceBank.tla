--------------------------- MODULE AtMostOnceBank ---------------------------
(***************************************************************************)
(* What the clients of the bank are promised under at-most-once: a bank    *)
(* with no network, no retransmission and no reply cache.                  *)
(*                                                                         *)
(* A client has one call open at a time.  A call takes effect in one step, *)
(* at most once, after it was issued - possibly after the client gave up   *)
(* on it.  It ends with the answer of an executed call of the same client, *)
(* or with no answer, which says nothing about whether it was executed.    *)
(*                                                                         *)
(* The answer is not promised to be the one of the call it ends: see       *)
(* RepliesMatchRequests in BankingSystem.                                  *)
(***************************************************************************)
EXTENDS Handler

CONSTANTS Clients, Commands

VARIABLES
  issued,    \* issued[c]: the commands of the calls of client c
  executed,  \* the calls that took effect, with their answers
  returned,  \* returned[c]: what the finished calls of client c ended with
  db         \* the account store

vars == <<issued, executed, returned, db>>

NoAnswer == [status |-> "NO_REPLY", value |-> 0]

Init ==
  /\ issued = [c \in Clients |-> <<>>]
  /\ executed = {}
  /\ returned = [c \in Clients |-> <<>>]
  /\ db = EmptyDatabase

Issue(c, q) ==
  /\ Len(returned[c]) = Len(issued[c])
  /\ issued' = [issued EXCEPT ![c] = Append(@, q)]
  /\ UNCHANGED <<executed, returned, db>>

Execute(c, n) ==
  /\ n \in DOMAIN issued[c]
  /\ ~ \E e \in executed : e.client = c /\ e.call = n
  /\ LET out == Outcome(db, issued[c][n])
     IN /\ db' = out.db
        /\ executed' = executed \cup {[client |-> c, call |-> n, answer |-> Answer(out)]}
  /\ UNCHANGED <<issued, returned>>

Return(c, answer) ==
  /\ Len(returned[c]) < Len(issued[c])
  /\ answer \in {NoAnswer} \cup {e.answer : e \in {x \in executed : x.client = c}}
  /\ returned' = [returned EXCEPT ![c] = Append(@, answer)]
  /\ UNCHANGED <<issued, executed, db>>

Next ==
  \E c \in Clients :
    \/ \E q \in Commands[c] : Issue(c, q)
    \/ \E n \in DOMAIN issued[c] : Execute(c, n)
    \/ \E answer \in {NoAnswer} \cup {e.answer : e \in executed} : Return(c, answer)

Spec == Init /\ [][Next]_vars
=============================================================================
