--------------------------- MODULE BankingSystem ---------------------------
(***************************************************************************)
(* The whole system: the C++ clients (client/src/core/bankClient.cpp), the *)
(* UDP network between them and the server, and the Go server loop         *)
(* (server/cmd/main.go) with its dispatcher and reply history              *)
(* (server/internal/semantics), its request handler and the set of         *)
(* monitoring clients (server/internal/monitor).                           *)
(*                                                                         *)
(* The server loop is one thread: it reads a datagram, dispatches it and   *)
(* sends the reply before it reads the next one.  Its effects are visible  *)
(* to a client only through datagrams, so one turn of the loop is one      *)
(* step.  The sweeper goroutine and the passing of time interleave with it.*)
(*                                                                         *)
(* The network is the set of datagrams in flight.  Any of them may arrive  *)
(* next, so datagrams are reordered and delayed without limit; one that    *)
(* never arrives is lost; when Duplicates is TRUE one that arrived may     *)
(* arrive again.                                                           *)
(*                                                                         *)
(* A client is named by its address, the ip:port of its socket.            *)
(***************************************************************************)
EXTENDS Handler, FiniteSetsExt

CONSTANTS
  Clients,
  Mode,         \* the semantics the server was started with
  Flag,         \* the semantics each client was started with
  DropReply,    \* the values LossSimulator.ShouldDrop may return
  Duplicates,   \* whether the network duplicates datagrams
  MaxTries,     \* MAX_TRIES of the client: 5 in the program
  Commands,     \* what the user of each client may ask for
  MaxCalls,     \* bound: calls of each client
  MaxLog        \* bound: executions under at-least-once

Modes == {"AtLeastOnce", "AtMostOnce"}

ASSUME SystemAssumption ==
  /\ Mode \in Modes
  /\ Flag \in [Clients -> Modes]
  /\ DropReply \subseteq BOOLEAN
  /\ Duplicates \in BOOLEAN
  /\ MaxTries \in Nat \ {0}
  /\ MaxCalls \in [Clients -> Nat]
  /\ MaxLog \in Nat

\* A client sends fewer requests than there are request ids.
ASSUME NoWrapAssumption == \A c \in Clients : MaxCalls[c] < UintSize

\* build_command and its fill_ functions fill in what the service needs, and more.
ASSUME CommandAssumption ==
  \A c \in Clients : \A q \in Commands[c] : WellFormed(q) /\ WellTyped(q)

VARIABLES
  pc,        \* pc[c]: where client c is in run() and send_to_server()
  issued,    \* issued[c]: the commands client c has sent off, the last one current
  requestId, \* requestId[c]: current_request_id of client c
  tries,     \* tries[c]: the loop counter of send_to_server
  returned,  \* ghost. returned[c]: what each finished call of c ended with
  net,       \* the datagrams in flight
  db,        \* the account store
  history,   \* history[c]: the cached replies of client c by request id
  live,      \* subscribers whose interval has not passed
  lapsed,    \* subscribers whose interval has passed, still in the map
  log,       \* ghost: the executions of the handler, in order
  notices    \* ghost: the sets of callbacks sent together, in order

clientVars == <<pc, issued, requestId, tries, returned>>
serverVars == <<db, history, live, lapsed, log, notices>>
vars == <<clientVars, net, serverVars>>

-----------------------------------------------------------------------------
(* Datagrams.  The fields call, try and cause are ghosts: no guard reads   *)
(* them.  They tell the copies of a datagram apart, and which call of the  *)
(* client a reply is about.                                                *)

\* The command client c is working on, and its request datagram.
Current(c) == issued[c][Len(issued[c])]

\* Under at-least-once the id field is 0 in every request.
WireId(c) == IF Flag[c] = "AtMostOnce" THEN requestId[c] ELSE 0

\* Retransmissions are told apart only where each copy arrives at most once.
Copy(c) == IF Duplicates THEN 1 ELSE tries[c]

RequestOf(c) ==
  [type |-> "Request", client |-> c, flag |-> Flag[c], id |-> WireId(c), q |-> Current(c),
   call |-> Len(issued[c]), try |-> Copy(c)]

\* What a reply says: the echoed request id and the answer.
Body(d, out) == [id |-> d.id, answer |-> Answer(out), call |-> d.call]

ReplyTo(d, body) == [type |-> "Reply", client |-> d.client, body |-> body, try |-> d.try]

CallbacksOf(d, updates, to) ==
  {[type |-> "Callback", client |-> c, update |-> updates[k],
    cause |-> [client |-> d.client, call |-> d.call, try |-> d.try, part |-> k]] :
     c \in to, k \in DOMAIN updates}

\* What is in flight once d has been delivered.
After(d) == IF Duplicates THEN net ELSE net \ {d}

NoReply == [id |-> 0, answer |-> [status |-> "NO_REPLY", value |-> 0], call |-> 0]

-----------------------------------------------------------------------------
(* The client. *)

\* The user enters a command; build_message gives it its request id.
Call(c, q) ==
  /\ pc[c] = "Idle"
  /\ Len(issued[c]) < MaxCalls[c]
  /\ issued' = [issued EXCEPT ![c] = Append(@, q)]
  /\ requestId' = [requestId EXCEPT ![c] = IF Flag[c] = "AtMostOnce" THEN (@ + 1) % UintSize ELSE @]
  /\ tries' = [tries EXCEPT ![c] = 1]
  /\ pc' = [pc EXCEPT ![c] = "Send"]
  /\ UNCHANGED <<returned, net, serverVars>>

Transmit(c) ==
  /\ pc[c] = "Send"
  /\ net' = net \cup {RequestOf(c)}
  /\ pc' = [pc EXCEPT ![c] = "Receive"]
  /\ UNCHANGED <<issued, requestId, tries, returned, serverVars>>

\* The send failed, or a receive timed out or failed: back off, or give up after the last try.
AttemptFails(c) ==
  /\ pc[c] \in {"Send", "Receive"}
  /\ IF tries[c] < MaxTries
     THEN /\ pc' = [pc EXCEPT ![c] = "Backoff"]
          /\ UNCHANGED returned
     ELSE /\ pc' = [pc EXCEPT ![c] = "Idle"]
          /\ returned' = [returned EXCEPT ![c] = Append(@, NoReply)]
  /\ UNCHANGED <<issued, requestId, tries, net, serverVars>>

BackoffEnds(c) ==
  /\ pc[c] = "Backoff"
  /\ tries' = [tries EXCEPT ![c] = @ + 1]
  /\ pc' = [pc EXCEPT ![c] = "Send"]
  /\ UNCHANGED <<issued, requestId, returned, net, serverVars>>

SkipCallback(c, d) ==
  /\ pc[c] = "Receive"
  /\ d.type = "Callback" /\ d.client = c
  /\ net' = After(d)
  /\ UNCHANGED <<clientVars, serverVars>>

\* Any datagram that is not a callback ends the call: its request id is not looked at.
AcceptReply(c, d) ==
  /\ pc[c] = "Receive"
  /\ d.type = "Reply" /\ d.client = c
  /\ returned' = [returned EXCEPT ![c] = Append(@, d.body)]
  /\ pc' = [pc EXCEPT ![c] =
              IF Current(c).service = "Monitor" /\ d.body.answer.status = Success
              THEN "Listen" ELSE "Idle"]
  /\ net' = After(d)
  /\ UNCHANGED <<issued, requestId, tries, serverVars>>

\* While listening a callback is displayed; anything else is dropped.
ListenReceive(c, d) ==
  /\ pc[c] = "Listen"
  /\ d.type \in {"Callback", "Reply"} /\ d.client = c
  /\ net' = After(d)
  /\ UNCHANGED <<clientVars, serverVars>>

ListenEnds(c) ==
  /\ pc[c] = "Listen"
  /\ pc' = [pc EXCEPT ![c] = "Idle"]
  /\ UNCHANGED <<issued, requestId, tries, returned, net, serverVars>>

ClientStep(c) ==
  \/ Transmit(c) \/ AttemptFails(c) \/ BackoffEnds(c) \/ ListenEnds(c)
  \/ \E d \in net : SkipCallback(c, d) \/ AcceptReply(c, d) \/ ListenReceive(c, d)

-----------------------------------------------------------------------------
(* The server. *)

\* The reply is sent unless the loss simulator drops it; callbacks are not subject to it.
SendReply(d, body, callbacks) ==
  /\ \E drop \in DropReply :
       net' = After(d) \cup callbacks \cup (IF drop THEN {} ELSE {ReplyTo(d, body)})
  /\ notices' = IF callbacks = {} THEN notices ELSE Append(notices, callbacks)

\* Dispatch returns an error and the loop sends nothing.
RejectFlag(d) ==
  /\ d.type = "Request" /\ d.flag # Mode
  /\ net' = After(d)
  /\ UNCHANGED <<clientVars, serverVars>>

LogEntry(d, out) == [client |-> d.client, call |-> d.call, try |-> d.try, answer |-> Answer(out)]

\* The handler: the banking service, Register or NotifyAll (which evicts what has lapsed).
RunHandler(d, out) ==
  LET updates == UpdatesOf(d.q, out)
  IN /\ db' = out.db
     /\ live' = IF Registers(d.q) THEN live \cup {d.client} ELSE live
     /\ lapsed' = IF Registers(d.q) THEN lapsed \ {d.client}
                  ELSE IF updates # <<>> THEN {} ELSE lapsed
     /\ log' = Append(log, LogEntry(d, out))
     /\ SendReply(d, Body(d, out), CallbacksOf(d, updates, live))
     /\ UNCHANGED clientVars

\* Faulty: the flag of the request is not compared with the mode of the server.
ExecuteAnyFlag(d) ==
  /\ d.type = "Request" /\ Mode = "AtLeastOnce"
  /\ Len(log) < MaxLog
  /\ RunHandler(d, Outcome(db, d.q))
  /\ UNCHANGED history

ExecuteAlways(d) ==
  /\ d.type = "Request" /\ d.flag = Mode /\ Mode = "AtLeastOnce"
  /\ Len(log) < MaxLog
  /\ RunHandler(d, Outcome(db, d.q))
  /\ UNCHANGED history

\* Faulty: a duplicate is only noticed while no later request has come in.
FoundIfLast(d) ==
  /\ d.id \in DOMAIN history[d.client]
  /\ \A id \in DOMAIN history[d.client] : id <= d.id

\* Faulty: there is no lookup.
FoundNever(d) == FALSE

\* ReplyHistory.Lookup and Store, keyed by the client's address and the request id.
Found(d) == d.id \in DOMAIN history[d.client]

\* Faulty: one reply is kept for each client.
StoreOnlyLast(d, body) == history' = [history EXCEPT ![d.client] = [id \in {d.id} |-> body]]

\* Faulty: the key is the request id alone.
StoreForAll(d, body) ==
  history' = [c \in Clients |->
                [id \in DOMAIN history[c] \cup {d.id} |-> IF id = d.id THEN body ELSE history[c][id]]]

Store(d, body) ==
  history' = [history EXCEPT ![d.client] =
                [id \in DOMAIN @ \cup {d.id} |-> IF id = d.id THEN body ELSE @[id]]]

\* Faulty: the callbacks of the call are sent again with its reply.
ReplayNotifies(d) ==
  /\ d.type = "Request" /\ d.flag = Mode /\ Mode = "AtMostOnce"
  /\ Found(d)
  /\ LET answer == history[d.client][d.id].answer
         out == [db |-> db, err |-> IF answer.status = Success THEN None ELSE answer.status,
                 value |-> answer.value]
     IN SendReply(d, history[d.client][d.id], CallbacksOf(d, UpdatesOf(d.q, out), live))
  /\ UNCHANGED <<clientVars, db, history, live, lapsed, log>>

ReplayCached(d) ==
  /\ d.type = "Request" /\ d.flag = Mode /\ Mode = "AtMostOnce"
  /\ Found(d)
  /\ SendReply(d, history[d.client][d.id], {})
  /\ UNCHANGED <<clientVars, serverVars>>

ExecuteAndCache(d) ==
  /\ d.type = "Request" /\ d.flag = Mode /\ Mode = "AtMostOnce"
  /\ ~ Found(d)
  /\ RunHandler(d, Outcome(db, d.q))
  /\ Store(d, Body(d, Outcome(db, d.q)))

ServerStep ==
  \E d \in net : RejectFlag(d) \/ ExecuteAlways(d) \/ ReplayCached(d) \/ ExecuteAndCache(d)

\* Time passes the end of a subscriber's interval.
Lapse(c) ==
  /\ c \in live
  /\ live' = live \ {c}
  /\ lapsed' = lapsed \cup {c}
  /\ UNCHANGED <<clientVars, net, db, history, log, notices>>

\* evictExpired, from the sweeper goroutine.
Sweep ==
  /\ lapsed # {}
  /\ lapsed' = {}
  /\ UNCHANGED <<clientVars, net, db, history, live, log, notices>>

-----------------------------------------------------------------------------
Init ==
  /\ pc = [c \in Clients |-> "Idle"]
  /\ issued = [c \in Clients |-> <<>>]
  /\ requestId = [c \in Clients |-> 0]
  /\ tries = [c \in Clients |-> 0]
  /\ returned = [c \in Clients |-> <<>>]
  /\ net = {}
  /\ db = EmptyDatabase
  /\ history = [c \in Clients |-> [id \in {} |-> NoReply]]
  /\ live = {}
  /\ lapsed = {}
  /\ log = <<>>
  /\ notices = <<>>

Next ==
  \/ \E c \in Clients : (\E q \in Commands[c] : Call(c, q)) \/ ClientStep(c) \/ Lapse(c)
  \/ ServerStep
  \/ Sweep

Spec == Init /\ [][Next]_vars

-----------------------------------------------------------------------------
(* Types. *)

AllCommands == UNION {Commands[c] : c \in Clients}

Bodies == [id : Uint32, answer : Answers, call : Nat]
Causes == [client : Clients, call : Nat, try : 1 .. MaxTries, part : {1, 2}]

Requests == [type : {"Request"}, client : Clients, flag : Modes, id : Uint32, q : AllCommands,
             call : Nat, try : 1 .. MaxTries]
Replies == [type : {"Reply"}, client : Clients, body : Bodies, try : 1 .. MaxTries]
Callbacks == [type : {"Callback"}, client : Clients, update : Updates, cause : Causes]

TypeOK ==
  /\ pc \in [Clients -> {"Idle", "Send", "Receive", "Backoff", "Listen"}]
  /\ issued \in [Clients -> Seq(AllCommands)]
  /\ requestId \in [Clients -> Uint32]
  /\ tries \in [Clients -> 0 .. MaxTries]
  /\ returned \in [Clients -> Seq(Bodies \cup {NoReply})]
  /\ net \subseteq Requests \cup Replies \cup Callbacks
  /\ IsDatabase(db)
  /\ \A c \in Clients : /\ DOMAIN history[c] \subseteq Uint32
                        /\ history[c] \in [DOMAIN history[c] -> Bodies]
  /\ DOMAIN history = Clients
  /\ live \subseteq Clients /\ lapsed \subseteq Clients /\ live \cap lapsed = {}
  /\ log \in Seq([client : Clients, call : Nat, try : 1 .. MaxTries, answer : Answers])
  /\ notices \in Seq(SUBSET Callbacks)

-----------------------------------------------------------------------------
(* The inductive invariant: why a call is not executed twice. *)

\* Only a client that has issued a call is past run()'s menu.
ClientsHaveCalls ==
  \A c \in Clients :
    /\ Len(issued[c]) <= MaxCalls[c]
    /\ pc[c] # "Idle" => Len(issued[c]) > 0
    /\ pc[c] \in {"Send", "Receive", "Backoff"} =>
         tries[c] > 0 /\ Len(issued[c]) = Len(returned[c]) + 1
    /\ pc[c] = "Backoff" => tries[c] < MaxTries
    /\ pc[c] \in {"Idle", "Listen"} => Len(issued[c]) = Len(returned[c])

\* The request id of an at-most-once client counts its calls.
IdsCountCalls == \A c \in Clients : Flag[c] = "AtMostOnce" => requestId[c] = Len(issued[c])

\* A request in flight is one its client issued, under the id of that call.
RequestsAreCalls ==
  \A d \in net :
    d.type = "Request" =>
      /\ d.call \in DOMAIN issued[d.client]
      /\ d.q = issued[d.client][d.call]
      /\ d.flag = Flag[d.client]
      /\ d.flag = "AtMostOnce" => d.id = d.call

\* A call of client c was executed with the answer that body reports.
Executed(c, body) ==
  \E i \in DOMAIN log :
    log[i].client = c /\ log[i].call = body.call /\ log[i].answer = body.answer

\* The reply history holds the answers of the executions in the log, and all of them.
HistoryIsLog ==
  Mode = "AtMostOnce" =>
    /\ \A i \in DOMAIN log : log[i].call \in DOMAIN history[log[i].client]
    /\ \A c \in Clients : \A id \in DOMAIN history[c] :
         /\ history[c][id].id = id
         /\ Executed(c, history[c][id])

-----------------------------------------------------------------------------
(* What the system promises. *)

\* Under at-most-once no call is executed twice, however often its request is
\* retransmitted, duplicated or delayed (dispatcher.go: look up the reply
\* history before running the handler, store the reply after).
AtMostOnce ==
  Mode = "AtMostOnce" =>
    \A i, j \in DOMAIN log :
      log[i].client = log[j].client /\ log[i].call = log[j].call => i = j

\* The inductive invariant.
IndInv ==
  TypeOK /\ ClientsHaveCalls /\ IdsCountCalls /\ RequestsAreCalls /\ HistoryIsLog /\ AtMostOnce

\* Every answer on its way to a client, and every answer a client was given, is
\* the answer of an execution of a call of that client: no reply reaches another
\* client, none is made up, and the reply cache hands back what was computed.
AnswersAreExecutions ==
  /\ \A d \in net : d.type = "Reply" => Executed(d.client, d.body)
  /\ \A c \in Clients : \A n \in DOMAIN returned[c] :
       returned[c][n] = NoReply \/ Executed(c, returned[c][n])

\* What call k = <<client, call>> does to the balance of account a, by its first execution.
FirstExecution(k) ==
  log[Min({i \in DOMAIN log : log[i].client = k[1] /\ log[i].call = k[2]})]

Effect(k, a) ==
  LET answer == FirstExecution(k).answer
  IN IF answer.status # Success THEN 0 ELSE Moved(issued[k[1]][k[2]], answer.value, a)

\* The calls the handler has run.
Called == {<<log[i].client, log[i].call>> : i \in DOMAIN log}

\* Under at-most-once the balance of an account is what the distinct calls of the
\* users add up to: a retransmission neither repeats nor loses a movement, and a
\* transfer takes from one account what it gives to the other (bank.go).
BalanceIsSumOfCalls ==
  Mode = "AtMostOnce" =>
    \A a \in DOMAIN db.accounts :
      db.accounts[a].balance = FoldFunction(Plus, 0, [k \in Called |-> Effect(k, a)])

\* A balance below zero never sinks further, and no call takes a balance below
\* zero; only OpenAccount, which checks nothing, can make one (bank.go:137).
NoOverdraft ==
  [][\A a \in DOMAIN db.accounts \cap DOMAIN db'.accounts :
       Less(db'.accounts[a].balance, 0)
         => ~ Less(db'.accounts[a].balance, db.accounts[a].balance)]_vars

\* A callback on its way tells of a call that was executed with success, and the
\* balance it carries for the caller's account is the one in the reply to that call.
CallbacksReportExecutions ==
  \A d \in net :
    d.type = "Callback" =>
      \E i \in DOMAIN log :
        /\ log[i].client = d.cause.client
        /\ log[i].call = d.cause.call
        /\ log[i].try = d.cause.try
        /\ log[i].answer.status = Success
        /\ d.update.service \in {"Deposit", "Withdraw", "TransferFunds"} /\ d.cause.part = 1
             => d.update.balance = log[i].answer.value

\* Under at-most-once a monitoring client is sent one callback for each part of a
\* call that changed an account: neither a second execution nor a replayed reply
\* sends it again (dispatcher.go:99-113: a duplicate does not reach the handler).
NotifyOnce ==
  Mode = "AtMostOnce" =>
    \A i, j \in DOMAIN notices : \A d \in notices[i], e \in notices[j] :
      /\ d.client = e.client
      /\ d.cause.client = e.cause.client /\ d.cause.call = e.cause.call
      /\ d.cause.part = e.cause.part
      => i = j /\ d = e

\* No two calls are told the same account number (memory.go: "assigns a unique ID").
AccountNumbersUnique ==
  \A i, j \in DOMAIN log :
    /\ log[i].answer.status = Success /\ log[j].answer.status = Success
    /\ issued[log[i].client][log[i].call].service = "OpenAccount"
    /\ issued[log[j].client][log[j].call].service = "OpenAccount"
    /\ log[i].answer.value = log[j].answer.value
    => i = j

\* The account numbers that call q is about, if it succeeded.
AccountsOf(q, answer) ==
  IF answer.status # Success THEN {}
  ELSE CASE q.service = "OpenAccount" -> {answer.value}
         [] q.service = "TransferFunds" -> {q.account, q.toAccount}
         [] q.service = "Monitor" -> {}
         [] OTHER -> {q.account}

\* Once a call has closed an account, no execution succeeds on its number again: a
\* close, a deposit or a transfer that at-least-once executes late or repeatedly does
\* not reach an account opened since (memory.go:28-38, 71-81: no number is reused).
ClosedForGood ==
  \A i, j \in DOMAIN log :
    LET q == issued[log[i].client][log[i].call]
        r == issued[log[j].client][log[j].call]
    IN i < j /\ q.service = "CloseAccount"
         => AccountsOf(q, log[i].answer) \cap AccountsOf(r, log[j].answer) = {}

\* A client started with the other semantics than the server gets no call executed,
\* none answered, and is no subscriber (dispatcher.go: the flag must match the mode).
WrongFlagNeverServed ==
  \A c \in Clients :
    Flag[c] # Mode =>
      /\ \A i \in DOMAIN log : log[i].client # c
      /\ \A n \in DOMAIN returned[c] : returned[c][n] = NoReply
      /\ c \notin live \cup lapsed

\* The state of the abstract bank: the calls in the log, and the answers without their bodies.
ExecutedCalls ==
  {[client |-> log[i].client, call |-> log[i].call, answer |-> log[i].answer] : i \in DOMAIN log}

ReturnedAnswers ==
  [c \in Clients |-> [n \in DOMAIN returned[c] |-> returned[c][n].answer]]

Abstract == INSTANCE AtMostOnceBank WITH executed <- ExecutedCalls, returned <- ReturnedAnswers

\* To its clients the system behaves as the bank of AtMostOnceBank: no call takes
\* effect twice or halfway, and no call ends with another client's answer (with
\* Mode = "AtMostOnce").
ImplementsAtMostOnceBank == Abstract!Spec

-----------------------------------------------------------------------------
(* What the repository says and the code does not do. *)

\* reply.go:32: "Echo back the request ID so the client can match it": the reply
\* that ends a call carries the request id the call was sent with.
RepliesMatchRequests ==
  \A c \in Clients : \A n \in DOMAIN returned[c] :
    Flag[c] = "AtMostOnce" => returned[c][n] = NoReply \/ returned[c][n].id = n

\* report.tex:1014: on request N the dispatcher calls EvictBefore, which leaves no
\* entry "less than N - 10" (nothing calls it: dispatcher.go:99-113).
WindowSize == 10

HistoryIsWindowed ==
  \A c \in Clients : \A old, new \in DOMAIN history[c] : new - old <= WindowSize
=============================================================================
