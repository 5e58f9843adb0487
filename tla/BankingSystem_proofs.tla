------------------------ MODULE BankingSystem_proofs ------------------------
(***************************************************************************)
(* Type correctness and at-most-once execution of BankingSystem, for any   *)
(* set of clients, any commands and any number of tries and calls; what    *)
(* follows from them: every answer a client gets is the answer of an       *)
(* execution of one of its calls, and under at-most-once the system        *)
(* implements AtMostOnceBank; and what else the system promises.           *)
(***************************************************************************)
EXTENDS BankingSystem, Bank_proofs, SequenceTheorems

\* Every command a user may enter is well-formed and of the right types.
LEMMA CommandsTyped ==
  ASSUME NEW q \in AllCommands
  PROVE  WellFormed(q) /\ WellTyped(q)
  BY CommandAssumption DEF AllCommands

LEMMA SmallModulus ==
  ASSUME NEW n \in Nat, NEW m \in Nat, n < m
  PROVE  n % m = n
  BY SMT

\* What Append does, element by element.
LEMMA AppendFacts ==
  ASSUME NEW S, NEW s \in Seq(S), NEW e \in S
  PROVE  /\ Len(s) \in Nat
         /\ DOMAIN s = 1 .. Len(s)
         /\ DOMAIN Append(s, e) = 1 .. Len(s) + 1
         /\ Append(s, e)[Len(s) + 1] = e
         /\ \A i \in 1 .. Len(s) : Append(s, e)[i] = s[i]
<1>1. Append(s, e) \in Seq(S) /\ Len(Append(s, e)) = Len(s) + 1
  BY AppendProperties
<1> QED BY <1>1, AppendProperties, LenProperties

\* The database and the history are not reached by a client's own steps.
LEMMA TypeByClientSteps ==
  ASSUME TypeOK, ClientsHaveCalls, IdsCountCalls, NEW c \in Clients,
         \/ \E q \in Commands[c] : Call(c, q)
         \/ ClientStep(c)
  PROVE  TypeOK'
<1> USE SystemAssumption
<1>1. ASSUME NEW q \in Commands[c], Call(c, q) PROVE TypeOK'
  <2>1. (requestId[c] + 1) % UintSize \in Uint32
    BY UintAssumption DEF TypeOK, Uint32
  <2>2. q \in AllCommands
    BY DEF AllCommands
  <2>3. issued' \in [Clients -> Seq(AllCommands)]
    <3>1. issued[c] \in Seq(AllCommands)
      BY DEF TypeOK, AllCommands
    <3>2. Append(issued[c], q) \in Seq(AllCommands)
      BY <2>2, <3>1, AppendProperties
    <3>3. issued' = [issued EXCEPT ![c] = Append(@, q)]
      BY <1>1 DEF Call
    <3> QED BY <3>2, <3>3 DEF TypeOK, AllCommands
  <2>4. requestId' \in [Clients -> Uint32]
    BY <1>1, <2>1 DEF Call, TypeOK
  <2>5. tries' \in [Clients -> 0 .. MaxTries]
    BY <1>1 DEF Call, TypeOK
  <2>6. pc' \in [Clients -> {"Idle", "Send", "Receive", "Backoff", "Listen"}]
    BY <1>1 DEF Call, TypeOK
  <2> QED BY <1>1, <2>3, <2>4, <2>5, <2>6 DEF Call, TypeOK, serverVars, AllCommands
<1>2. ASSUME Transmit(c) PROVE TypeOK'
  <2>1. Len(issued[c]) \in Nat /\ Len(issued[c]) > 0 /\ tries[c] \in 1 .. MaxTries
    BY <1>2 DEF Transmit, TypeOK, ClientsHaveCalls
  <2>2. Current(c) \in AllCommands
    <3>1. issued[c] \in Seq(AllCommands)
      BY DEF TypeOK, AllCommands
    <3> QED BY <2>1, <3>1 DEF Current
  <2>3. Copy(c) \in 1 .. MaxTries
    BY <2>1 DEF Copy
  <2>4. WireId(c) \in Uint32
    BY UintAssumption DEF WireId, TypeOK, Uint32
  <2>5. RequestOf(c) \in Requests
    BY <2>1, <2>2, <2>3, <2>4 DEF RequestOf, Requests, AllCommands
  <2>6. pc' \in [Clients -> {"Idle", "Send", "Receive", "Backoff", "Listen"}]
    BY <1>2 DEF Transmit, TypeOK
  <2> QED BY <1>2, <2>5, <2>6 DEF Transmit, TypeOK, serverVars
<1>3. ASSUME AttemptFails(c) PROVE TypeOK'
  <2>1. returned' \in [Clients -> Seq(Bodies \cup {NoReply})]
    <3>1. Append(returned[c], NoReply) \in Seq(Bodies \cup {NoReply})
      BY AppendProperties DEF TypeOK
    <3>2. \/ UNCHANGED returned
          \/ returned' = [returned EXCEPT ![c] = Append(@, NoReply)]
      BY <1>3 DEF AttemptFails
    <3> QED BY <3>1, <3>2 DEF TypeOK
  <2>2. pc' \in [Clients -> {"Idle", "Send", "Receive", "Backoff", "Listen"}]
    BY <1>3 DEF AttemptFails, TypeOK
  <2> QED BY <1>3, <2>1, <2>2 DEF AttemptFails, TypeOK, serverVars
<1>4. ASSUME BackoffEnds(c) PROVE TypeOK'
  <2>1. tries' \in [Clients -> 0 .. MaxTries]
    BY <1>4 DEF BackoffEnds, TypeOK, ClientsHaveCalls
  <2>2. pc' \in [Clients -> {"Idle", "Send", "Receive", "Backoff", "Listen"}]
    BY <1>4 DEF BackoffEnds, TypeOK
  <2> QED BY <1>4, <2>1, <2>2 DEF BackoffEnds, TypeOK, serverVars
<1>5. ASSUME ListenEnds(c) PROVE TypeOK'
  <2>1. pc' \in [Clients -> {"Idle", "Send", "Receive", "Backoff", "Listen"}]
    BY <1>5 DEF ListenEnds, TypeOK
  <2> QED BY <1>5, <2>1 DEF ListenEnds, TypeOK, serverVars
<1>6. ASSUME NEW d \in net, SkipCallback(c, d) PROVE TypeOK'
  BY <1>6 DEF SkipCallback, After, TypeOK, serverVars, clientVars
<1>7. ASSUME NEW d \in net, AcceptReply(c, d) PROVE TypeOK'
  <2>1. d.body \in Bodies
    BY <1>7 DEF AcceptReply, TypeOK, Replies, Requests, Callbacks
  <2>2. returned' \in [Clients -> Seq(Bodies \cup {NoReply})]
    BY <1>7, <2>1 DEF AcceptReply, TypeOK
  <2>3. pc' \in [Clients -> {"Idle", "Send", "Receive", "Backoff", "Listen"}]
    BY <1>7 DEF AcceptReply, TypeOK
  <2> QED BY <1>7, <2>2, <2>3 DEF AcceptReply, After, TypeOK, serverVars
<1>8. ASSUME NEW d \in net, ListenReceive(c, d) PROVE TypeOK'
  BY <1>8 DEF ListenReceive, After, TypeOK, serverVars, clientVars
<1> QED BY <1>1, <1>2, <1>3, <1>4, <1>5, <1>6, <1>7, <1>8 DEF ClientStep

\* What the handler logs of a request in flight.
LEMMA EntryTyped ==
  ASSUME TypeOK, NEW d \in Requests
  PROVE  LogEntry(d, Outcome(db, d.q)) \in
           [client : Clients, call : Nat, try : 1 .. MaxTries, answer : Answers]
<1>1. IsDatabase(db) /\ d.q \in AllCommands
  BY DEF TypeOK, Requests
<1>2. Answer(Outcome(db, d.q)) \in Answers
  BY <1>1, CommandsTyped, OutcomeTyped, AnswerTyped
<1> QED BY <1>2 DEF LogEntry, Requests

\* The handler's part of a server step.
LEMMA TypeByHandler ==
  ASSUME TypeOK, NEW d \in net, d.type = "Request",
         RunHandler(d, Outcome(db, d.q)),
         \/ UNCHANGED history
         \/ Store(d, Body(d, Outcome(db, d.q)))
  PROVE  TypeOK'
<1> DEFINE out == Outcome(db, d.q)
           updates == UpdatesOf(d.q, out)
<1>1. d \in Requests
  BY DEF TypeOK, Requests, Replies, Callbacks
<1>2. d.client \in Clients /\ d.q \in AllCommands
  BY <1>1 DEF Requests
<1>3. WellFormed(d.q) /\ WellTyped(d.q)
  BY <1>2, CommandsTyped
<1>4. IsDatabase(db)
  BY DEF TypeOK
<1>5. IsDatabase(out.db) /\ out.value \in Money
  BY <1>3, <1>4, OutcomeTyped
<1>6. DOMAIN updates \subseteq {1, 2} /\ \A k \in DOMAIN updates : updates[k] \in Updates
  BY <1>3, <1>4, UpdatesTyped
<1>7. Answer(out) \in Answers
  BY <1>5, AnswerTyped
<1>8. Body(d, out) \in Bodies
  BY <1>1, <1>7 DEF Body, Bodies, Requests
<1>9. ReplyTo(d, Body(d, out)) \in Replies
  BY <1>1, <1>8 DEF ReplyTo, Replies, Requests
<1>10. CallbacksOf(d, updates, live) \subseteq Callbacks
  <2>1. ASSUME NEW c \in live, NEW k \in DOMAIN updates
        PROVE  [type |-> "Callback", client |-> c, update |-> updates[k],
                cause |-> [client |-> d.client, call |-> d.call, try |-> d.try, part |-> k]]
                 \in Callbacks
    <3>1. k \in {1, 2} /\ updates[k] \in Updates
      BY <1>6
    <3>2. [client |-> d.client, call |-> d.call, try |-> d.try, part |-> k] \in Causes
      BY <1>1, <3>1 DEF Causes, Requests
    <3> HIDE DEF updates
    <3> QED BY <3>1, <3>2 DEF Callbacks, TypeOK
  <2> HIDE DEF updates
  <2> QED BY <2>1 DEF CallbacksOf
<1>11. LogEntry(d, out) \in [client : Clients, call : Nat, try : 1 .. MaxTries, answer : Answers]
  BY <1>1, EntryTyped
<1> HIDE DEF out, updates
<1>12. net' \subseteq Requests \cup Replies \cup Callbacks
  BY <1>9, <1>10 DEF RunHandler, SendReply, After, TypeOK, out, updates
<1>13. db' = out.db
  BY DEF RunHandler, out
<1>14. IsDatabase(db')
  BY <1>5, <1>13
<1>15. log' \in Seq([client : Clients, call : Nat, try : 1 .. MaxTries, answer : Answers])
  BY <1>11, AppendProperties DEF RunHandler, TypeOK, out
<1>16. /\ live' \subseteq Clients /\ lapsed' \subseteq Clients
       /\ live' \cap lapsed' = {}
  BY <1>2 DEF RunHandler, TypeOK
<1>17. /\ DOMAIN history' = Clients
       /\ \A c \in Clients : /\ DOMAIN history'[c] \subseteq Uint32
                            /\ history'[c] \in [DOMAIN history'[c] -> Bodies]
  <2>1. CASE UNCHANGED history
    BY <2>1 DEF TypeOK
  <2>2. CASE Store(d, Body(d, Outcome(db, d.q)))
    <3>1. d.id \in Uint32
      BY <1>1 DEF Requests
    <3>2. Store(d, Body(d, out))
      BY <2>2 DEF out
    <3> QED BY <3>1, <3>2, <1>2, <1>8 DEF Store, TypeOK
  <2> QED BY <2>1, <2>2
<1>18. notices' \in Seq(SUBSET Callbacks)
  <2> PICK round : round = CallbacksOf(d, updates, live)
    OBVIOUS
  <2>1. notices' = notices \/ notices' = Append(notices, round)
    BY DEF RunHandler, SendReply, out, updates
  <2>2. round \in SUBSET Callbacks /\ notices \in Seq(SUBSET Callbacks)
    BY <1>10 DEF TypeOK
  <2>3. Append(notices, round) \in Seq(SUBSET Callbacks)
    BY <2>2, AppendProperties
  <2> QED BY <2>1, <2>2, <2>3
<1> QED BY <1>12, <1>14, <1>15, <1>16, <1>17, <1>18 DEF RunHandler, TypeOK, clientVars

\* A step of the server loop or of the sweeper, and the passing of time.
LEMMA TypeByServerSteps ==
  ASSUME TypeOK, RequestsAreCalls, ServerStep \/ Sweep \/ (\E c \in Clients : Lapse(c))
  PROVE  TypeOK'
<1>1. ASSUME NEW d \in net, RejectFlag(d) PROVE TypeOK'
  BY <1>1 DEF RejectFlag, After, TypeOK, clientVars, serverVars
<1>2. ASSUME NEW d \in net, ExecuteAlways(d) PROVE TypeOK'
  BY <1>2, TypeByHandler DEF ExecuteAlways
<1>3. ASSUME NEW d \in net, ReplayCached(d) PROVE TypeOK'
  <2>1. d \in Requests
    BY <1>3 DEF ReplayCached, TypeOK, Requests, Replies, Callbacks
  <2>2. history[d.client][d.id] \in Bodies
    BY <1>3, <2>1 DEF ReplayCached, Found, TypeOK, Requests
  <2>3. ReplyTo(d, history[d.client][d.id]) \in Replies
    BY <2>1, <2>2 DEF ReplyTo, Replies, Requests
  <2> QED BY <1>3, <2>3 DEF ReplayCached, SendReply, After, TypeOK, clientVars, serverVars
<1>4. ASSUME NEW d \in net, ExecuteAndCache(d) PROVE TypeOK'
  BY <1>4, TypeByHandler DEF ExecuteAndCache
<1>5. ASSUME NEW c \in Clients, Lapse(c) PROVE TypeOK'
  BY <1>5 DEF Lapse, TypeOK, clientVars
<1>6. ASSUME Sweep PROVE TypeOK'
  BY <1>6 DEF Sweep, TypeOK, clientVars
<1> QED BY <1>1, <1>2, <1>3, <1>4, <1>5, <1>6 DEF ServerStep

\* A client's control state agrees with the calls it has issued and finished.
LEMMA CallsByClientSteps ==
  ASSUME TypeOK, ClientsHaveCalls, IdsCountCalls, NEW c \in Clients,
         \/ \E q \in Commands[c] : Call(c, q)
         \/ ClientStep(c)
  PROVE  ClientsHaveCalls' /\ IdsCountCalls'
<1> USE SystemAssumption
<1>1. ASSUME NEW q \in Commands[c], Call(c, q) PROVE ClientsHaveCalls' /\ IdsCountCalls'
  <2>1. /\ issued[c] \in Seq(AllCommands) /\ q \in AllCommands
        /\ Len(issued[c]) < MaxCalls[c] /\ MaxCalls[c] \in Nat /\ MaxCalls[c] < UintSize
    BY <1>1, NoWrapAssumption DEF Call, TypeOK, AllCommands
  <2>2. Len(issued'[c]) = Len(issued[c]) + 1 /\ Len(issued[c]) \in Nat
    <3>1. issued'[c] = Append(issued[c], q)
      BY <1>1 DEF Call, TypeOK
    <3> HIDE DEF AllCommands
    <3> QED BY <2>1, <3>1, AppendProperties, LenProperties
  <2>3. Flag[c] = "AtMostOnce" => (requestId[c] + 1) % UintSize = Len(issued'[c])
    <3>1. Len(issued'[c]) \in Nat /\ Len(issued'[c]) < UintSize /\ UintSize \in Nat
      BY <2>1, <2>2, UintAssumption
    <3>2. Len(issued'[c]) % UintSize = Len(issued'[c])
      BY <3>1, SmallModulus
    <3> QED BY <2>2, <3>2 DEF IdsCountCalls
  <2>4. IdsCountCalls'
    BY <1>1, <2>3 DEF IdsCountCalls, Call, TypeOK
  <2>5. ASSUME NEW x \in Clients, x # c
        PROVE  /\ pc'[x] = pc[x] /\ issued'[x] = issued[x]
               /\ tries'[x] = tries[x] /\ returned'[x] = returned[x]
    BY <1>1, <2>5 DEF Call, TypeOK
  <2>6. /\ pc'[c] = "Send" /\ tries'[c] = 1 /\ Len(issued'[c]) <= MaxCalls[c]
        /\ Len(issued'[c]) = Len(returned'[c]) + 1
    BY <1>1, <2>1, <2>2 DEF Call, TypeOK, ClientsHaveCalls
  <2>7. ClientsHaveCalls'
    <3>1. Len(issued'[c]) > 0
      BY <2>2
    <3> QED BY <1>1, <2>5, <2>6, <3>1 DEF ClientsHaveCalls, Call
  <2> QED BY <2>4, <2>7
<1>2. ASSUME Transmit(c) PROVE ClientsHaveCalls' /\ IdsCountCalls'
  BY <1>2 DEF Transmit, TypeOK, ClientsHaveCalls, IdsCountCalls
<1>3. ASSUME AttemptFails(c) PROVE ClientsHaveCalls' /\ IdsCountCalls'
  <2>1. CASE tries[c] < MaxTries
    BY <1>3, <2>1 DEF AttemptFails, TypeOK, ClientsHaveCalls, IdsCountCalls
  <2>2. CASE ~ (tries[c] < MaxTries)
    <3>1. Len(returned'[c]) = Len(returned[c]) + 1 /\ Len(returned[c]) \in Nat
      BY <1>3, <2>2, AppendProperties DEF AttemptFails, TypeOK
    <3> QED BY <1>3, <2>2, <3>1 DEF AttemptFails, TypeOK, ClientsHaveCalls, IdsCountCalls
  <2> QED BY <2>1, <2>2
<1>4. ASSUME BackoffEnds(c) PROVE ClientsHaveCalls' /\ IdsCountCalls'
  BY <1>4 DEF BackoffEnds, TypeOK, ClientsHaveCalls, IdsCountCalls
<1>5. ASSUME ListenEnds(c) PROVE ClientsHaveCalls' /\ IdsCountCalls'
  BY <1>5 DEF ListenEnds, TypeOK, ClientsHaveCalls, IdsCountCalls
<1>6. ASSUME NEW d \in net, SkipCallback(c, d) PROVE ClientsHaveCalls' /\ IdsCountCalls'
  BY <1>6 DEF SkipCallback, clientVars, ClientsHaveCalls, IdsCountCalls
<1>7. ASSUME NEW d \in net, AcceptReply(c, d) PROVE ClientsHaveCalls' /\ IdsCountCalls'
  <2>1. d.body \in Bodies
    BY <1>7 DEF AcceptReply, TypeOK, Replies, Requests, Callbacks
  <2>2. Len(returned'[c]) = Len(returned[c]) + 1 /\ Len(returned[c]) \in Nat
    BY <1>7, <2>1, AppendProperties DEF AcceptReply, TypeOK
  <2> QED BY <1>7, <2>2 DEF AcceptReply, TypeOK, ClientsHaveCalls, IdsCountCalls
<1>8. ASSUME NEW d \in net, ListenReceive(c, d) PROVE ClientsHaveCalls' /\ IdsCountCalls'
  BY <1>8 DEF ListenReceive, clientVars, ClientsHaveCalls, IdsCountCalls
<1> QED BY <1>1, <1>2, <1>3, <1>4, <1>5, <1>6, <1>7, <1>8 DEF ClientStep

\* A datagram a client puts in flight is a request of a call it issued.
LEMMA RequestsByClientSteps ==
  ASSUME TypeOK, ClientsHaveCalls, IdsCountCalls, RequestsAreCalls, NEW c \in Clients,
         \/ \E q \in Commands[c] : Call(c, q)
         \/ ClientStep(c)
  PROVE  RequestsAreCalls'
<1> USE SystemAssumption
<1>0. \A d \in net : d.type = "Request" => d.client \in Clients /\ d.call \in Nat
  BY DEF TypeOK, Requests, Replies, Callbacks
<1>1. ASSUME NEW q \in Commands[c], Call(c, q) PROVE RequestsAreCalls'
  <2>1. issued[c] \in Seq(AllCommands)
    BY DEF TypeOK
  <2>2. ASSUME NEW x \in Clients
        PROVE  /\ DOMAIN issued[x] \subseteq DOMAIN issued'[x]
               /\ \A n \in DOMAIN issued[x] : issued'[x][n] = issued[x][n]
    BY <1>1, <2>1, AppendProperties DEF Call, TypeOK
  <2> QED BY <1>0, <1>1, <2>2 DEF Call, RequestsAreCalls
<1>2. ASSUME Transmit(c) PROVE RequestsAreCalls'
  <2>1. issued[c] \in Seq(AllCommands) /\ Len(issued[c]) > 0
    BY <1>2 DEF Transmit, TypeOK, ClientsHaveCalls
  <2>2. Len(issued[c]) \in DOMAIN issued[c]
    BY <2>1, LenProperties
  <2> QED BY <1>2, <2>2 DEF Transmit, RequestOf, Current, WireId, RequestsAreCalls, IdsCountCalls
<1>3. CASE AttemptFails(c) \/ BackoffEnds(c) \/ ListenEnds(c)
  BY <1>3 DEF AttemptFails, BackoffEnds, ListenEnds, RequestsAreCalls
<1>4. CASE \E d \in net : SkipCallback(c, d) \/ AcceptReply(c, d) \/ ListenReceive(c, d)
  BY <1>4 DEF SkipCallback, AcceptReply, ListenReceive, After, clientVars, RequestsAreCalls
<1> QED BY <1>1, <1>2, <1>3, <1>4 DEF ClientStep

\* The server puts replies and callbacks in flight, never requests.
LEMMA RequestsByServerSteps ==
  ASSUME RequestsAreCalls, ServerStep \/ Sweep \/ (\E c \in Clients : Lapse(c))
  PROVE  RequestsAreCalls'
<1>1. ASSUME NEW d, NEW body, NEW callbacks, SendReply(d, body, callbacks),
             \A x \in callbacks : x.type = "Callback", UNCHANGED clientVars
      PROVE  RequestsAreCalls'
  BY <1>1 DEF SendReply, ReplyTo, After, clientVars, RequestsAreCalls
<1>2. ASSUME NEW d \in net, RejectFlag(d) PROVE RequestsAreCalls'
  BY <1>2 DEF RejectFlag, After, clientVars, RequestsAreCalls
<1>3. ASSUME NEW d \in net, RunHandler(d, Outcome(db, d.q)) PROVE RequestsAreCalls'
  <2> DEFINE callbacks == CallbacksOf(d, UpdatesOf(d.q, Outcome(db, d.q)), live)
  <2>1. \A x \in callbacks : x.type = "Callback"
    BY DEF CallbacksOf
  <2>2. SendReply(d, Body(d, Outcome(db, d.q)), callbacks) /\ UNCHANGED clientVars
    BY <1>3 DEF RunHandler
  <2> HIDE DEF callbacks
  <2> QED BY <1>1, <2>1, <2>2
<1>4. ASSUME NEW d \in net, ReplayCached(d) PROVE RequestsAreCalls'
  BY <1>1, <1>4 DEF ReplayCached
<1>5. CASE Sweep \/ (\E c \in Clients : Lapse(c))
  BY <1>5 DEF Sweep, Lapse, clientVars, RequestsAreCalls
<1> QED BY <1>2, <1>3, <1>4, <1>5 DEF ServerStep, ExecuteAlways, ExecuteAndCache

\* Only the handler moves the log, and only in a server step.
LEMMA CallsByServerSteps ==
  ASSUME ClientsHaveCalls, IdsCountCalls,
         ServerStep \/ Sweep \/ (\E c \in Clients : Lapse(c))
  PROVE  ClientsHaveCalls' /\ IdsCountCalls'
<1>1. UNCHANGED clientVars
  BY DEF ServerStep, RejectFlag, ExecuteAlways, ReplayCached, ExecuteAndCache, RunHandler,
         Sweep, Lapse
<1> QED BY <1>1 DEF clientVars, ClientsHaveCalls, IdsCountCalls

\* The handler adds one entry to the log and keeps the others.
LEMMA LogByHandler ==
  ASSUME TypeOK, NEW d \in net, d.type = "Request", RunHandler(d, Outcome(db, d.q))
  PROVE  /\ Len(log) \in Nat /\ DOMAIN log = 1 .. Len(log)
         /\ DOMAIN log' = 1 .. Len(log) + 1
         /\ log'[Len(log) + 1] = LogEntry(d, Outcome(db, d.q))
         /\ \A i \in DOMAIN log : log'[i] = log[i]
<1> DEFINE entry == LogEntry(d, Outcome(db, d.q))
           Entries == [client : Clients, call : Nat, try : 1 .. MaxTries, answer : Answers]
<1>1. log' = Append(log, entry) /\ log \in Seq(Entries)
  BY DEF RunHandler, TypeOK
<1>2. d \in Requests
  BY DEF TypeOK, Requests, Replies, Callbacks
<1>3. entry \in Entries
  BY <1>2, EntryTyped
<1> HIDE DEF entry, Entries
<1>4. /\ Len(log) \in Nat /\ DOMAIN log = 1 .. Len(log)
      /\ DOMAIN log' = 1 .. Len(log) + 1
      /\ log'[Len(log) + 1] = entry
      /\ \A i \in 1 .. Len(log) : log'[i] = log[i]
  BY <1>1, <1>3, AppendFacts
<1> QED BY <1>4 DEF entry

\* A request that is executed under at-most-once was not executed before, and
\* its reply is cached under the number of its call.
LEMMA LogByExecuteAndCache ==
  ASSUME IndInv, NEW d \in net, ExecuteAndCache(d)
  PROVE  HistoryIsLog' /\ AtMostOnce'
<1> DEFINE out == Outcome(db, d.q)
           entry == LogEntry(d, out)
           body == Body(d, out)
           Entries == [client : Clients, call : Nat, try : 1 .. MaxTries, answer : Answers]
<1>1. Mode = "AtMostOnce" /\ d.type = "Request" /\ d.flag = Mode /\ d.id \notin DOMAIN history[d.client]
  BY DEF ExecuteAndCache, Found
<1>2. d \in Requests
  BY <1>1 DEF IndInv, TypeOK, Requests, Replies, Callbacks
<1>3. d.client \in Clients /\ d.id = d.call /\ d.call \in Nat
  BY <1>1, <1>2 DEF IndInv, RequestsAreCalls, Requests
<1>4. \A i \in DOMAIN log : ~ (log[i].client = d.client /\ log[i].call = d.call)
  BY <1>1, <1>3 DEF IndInv, HistoryIsLog
<1>5. /\ entry.client = d.client /\ entry.call = d.call /\ entry.answer = Answer(out)
      /\ body.id = d.id /\ body.call = d.call /\ body.answer = Answer(out)
  BY DEF LogEntry, Body
<1>6. log \in Seq(Entries)
  BY DEF IndInv, TypeOK
<1>7. /\ DOMAIN history' = Clients
      /\ \A c \in Clients \ {d.client} : history'[c] = history[c]
      /\ DOMAIN history'[d.client] = DOMAIN history[d.client] \cup {d.id}
      /\ history'[d.client][d.id] = body
      /\ \A id \in DOMAIN history[d.client] : history'[d.client][id] = history[d.client][id]
  BY <1>1, <1>3 DEF ExecuteAndCache, Store, IndInv, TypeOK
<1> HIDE DEF entry, body, out, Entries
<1>8. /\ Len(log) \in Nat /\ DOMAIN log = 1 .. Len(log)
      /\ DOMAIN log' = 1 .. Len(log) + 1
      /\ log'[Len(log) + 1] = entry
      /\ \A i \in DOMAIN log : log'[i] = log[i]
  BY <1>1, LogByHandler DEF ExecuteAndCache, IndInv, entry, out
<1>9. HistoryIsLog'
  <2>1. ASSUME NEW i \in DOMAIN log' PROVE log'[i].call \in DOMAIN history'[log'[i].client]
    <3>1. CASE i = Len(log) + 1
      BY <1>3, <1>5, <1>7, <1>8, <3>1
    <3>2. CASE i # Len(log) + 1
      <4>1. i \in DOMAIN log /\ log'[i] = log[i]
        BY <1>8, <3>2
      <4>2. log[i].client \in Clients
        <5>1. log[i] \in Entries
          BY <1>6, <1>8, <4>1, ElementOfSeq
        <5> QED BY <5>1 DEF Entries
      <4>3. log[i].call \in DOMAIN history[log[i].client]
        BY <1>1, <4>1 DEF IndInv, HistoryIsLog
      <4> QED BY <1>7, <4>1, <4>2, <4>3
    <3> QED BY <3>1, <3>2
  <2>2. ASSUME NEW c \in Clients, NEW id \in DOMAIN history'[c]
        PROVE  history'[c][id].id = id /\ Executed(c, history[c][id])'
    <3>1. CASE c = d.client /\ id = d.id
      <4>1. history'[c][id] = body
        BY <1>7, <3>1
      <4>2. Len(log) + 1 \in DOMAIN log' /\ log'[Len(log) + 1] = entry
        BY <1>8
      <4> QED BY <1>5, <3>1, <4>1, <4>2 DEF Executed
    <3>2. CASE ~ (c = d.client /\ id = d.id)
      <4>1. id \in DOMAIN history[c] /\ history'[c][id] = history[c][id]
        BY <1>7, <3>2
      <4>2. history[c][id].id = id /\ Executed(c, history[c][id])
        BY <1>1, <4>1 DEF IndInv, HistoryIsLog
      <4>3. DOMAIN log \subseteq DOMAIN log'
        BY <1>8
      <4> QED BY <1>8, <4>1, <4>2, <4>3 DEF Executed
    <3> QED BY <3>1, <3>2
  <2> QED BY <2>1, <2>2 DEF HistoryIsLog
<1>10. AtMostOnce'
  <2>1. ASSUME NEW i \in DOMAIN log', NEW j \in DOMAIN log',
               log'[i].client = log'[j].client, log'[i].call = log'[j].call
        PROVE  i = j
    <3>1. CASE i \in DOMAIN log /\ j \in DOMAIN log
      BY <1>1, <1>8, <2>1, <3>1 DEF IndInv, AtMostOnce
    <3>2. CASE i = Len(log) + 1 /\ j = Len(log) + 1
      BY <3>2
    <3>3. CASE i = Len(log) + 1 /\ j \in DOMAIN log
      BY <1>4, <1>5, <1>8, <2>1, <3>3
    <3>4. CASE i \in DOMAIN log /\ j = Len(log) + 1
      BY <1>4, <1>5, <1>8, <2>1, <3>4
    <3> QED BY <1>8, <3>1, <3>2, <3>3, <3>4
  <2> QED BY <2>1 DEF AtMostOnce
<1> QED BY <1>9, <1>10

\* No other step moves the log or the history under at-most-once.
LEMMA LogByOtherSteps ==
  ASSUME HistoryIsLog, AtMostOnce, UNCHANGED <<history, log>>
  PROVE  HistoryIsLog' /\ AtMostOnce'
BY DEF HistoryIsLog, AtMostOnce, Executed

LEMMA IndInvInit == ASSUME Init PROVE IndInv
<1> USE SystemAssumption, UintAssumption
<1>1. TypeOK
  <2>1. IsDatabase(db)
    BY DEF Init, EmptyDatabase, IsDatabase, Uint32
  <2>2. requestId \in [Clients -> Uint32]
    BY DEF Init, Uint32
  <2> QED BY <2>1, <2>2 DEF Init, TypeOK
<1>2. ClientsHaveCalls /\ IdsCountCalls /\ RequestsAreCalls
  BY DEF Init, ClientsHaveCalls, IdsCountCalls, RequestsAreCalls
<1>3. HistoryIsLog /\ AtMostOnce
  BY DEF Init, HistoryIsLog, AtMostOnce
<1> QED BY <1>1, <1>2, <1>3 DEF IndInv

LEMMA IndInvNext == ASSUME IndInv, [Next]_vars PROVE IndInv'
<1> USE DEF IndInv
<1>1. ASSUME NEW c \in Clients, (\E q \in Commands[c] : Call(c, q)) \/ ClientStep(c) PROVE IndInv'
  <2>1. UNCHANGED serverVars
    BY <1>1 DEF Call, ClientStep, Transmit, AttemptFails, BackoffEnds, ListenEnds, SkipCallback,
                AcceptReply, ListenReceive
  <2>2. UNCHANGED <<history, log>>
    BY <2>1 DEF serverVars
  <2> QED BY <1>1, <2>2, TypeByClientSteps, CallsByClientSteps, RequestsByClientSteps, LogByOtherSteps
<1>2. ASSUME ServerStep \/ Sweep \/ (\E c \in Clients : Lapse(c)) PROVE IndInv'
  <2>1. TypeOK' /\ ClientsHaveCalls' /\ IdsCountCalls' /\ RequestsAreCalls'
    BY <1>2, TypeByServerSteps, CallsByServerSteps, RequestsByServerSteps
  <2>2. HistoryIsLog' /\ AtMostOnce'
    <3>1. ASSUME NEW d \in net, ExecuteAndCache(d) PROVE HistoryIsLog' /\ AtMostOnce'
      BY <3>1, LogByExecuteAndCache
    <3>2. ASSUME NEW d \in net, ExecuteAlways(d) PROVE HistoryIsLog' /\ AtMostOnce'
      BY <3>2 DEF ExecuteAlways, HistoryIsLog, AtMostOnce
    <3>3. CASE \/ \E d \in net : RejectFlag(d) \/ ReplayCached(d)
               \/ Sweep \/ (\E c \in Clients : Lapse(c))
      <4>1. UNCHANGED <<history, log>>
        BY <3>3 DEF RejectFlag, ReplayCached, Sweep, Lapse, serverVars
      <4> QED BY <4>1, LogByOtherSteps
    <3> QED BY <1>2, <3>1, <3>2, <3>3 DEF ServerStep
  <2> QED BY <2>1, <2>2
<1>3. CASE UNCHANGED vars
  BY <1>3, LogByOtherSteps
     DEF vars, clientVars, serverVars, TypeOK, ClientsHaveCalls, IdsCountCalls, RequestsAreCalls
<1> QED BY <1>1, <1>2, <1>3 DEF Next

\* The state of clients, network and server keeps its types, the handler never
\* stores an ill-formed account, and each reply in the cache is the answer of
\* the one execution of its call.
THEOREM IndInvAlways == Spec => []IndInv
<1> QED BY IndInvInit, IndInvNext, PTL DEF Spec

\* Under at-most-once no call is executed twice, for any number of clients, of
\* retransmissions and of duplicates (dispatcher.go, history.go).
THEOREM AtMostOnceAlways == Spec => []AtMostOnce
<1>1. IndInv => AtMostOnce
  BY DEF IndInv
<1> QED BY <1>1, IndInvAlways, PTL

-----------------------------------------------------------------------------
(* Answers are executions. *)

\* What was executed stays executed.
LEMMA ExecutedStays ==
  ASSUME IndInv, [Next]_vars, NEW c, NEW body, Executed(c, body)
  PROVE  Executed(c, body)'
<1>1. ASSUME NEW d \in net, d.type = "Request", RunHandler(d, Outcome(db, d.q))
      PROVE  Executed(c, body)'
  <2>1. /\ DOMAIN log \subseteq DOMAIN log'
        /\ \A i \in DOMAIN log : log'[i] = log[i]
    BY <1>1, LogByHandler DEF IndInv
  <2> QED BY <2>1 DEF Executed
<1>2. CASE UNCHANGED log
  BY <1>2 DEF Executed
<1>3. \/ UNCHANGED log
      \/ \E d \in net : d.type = "Request" /\ RunHandler(d, Outcome(db, d.q))
  BY DEF Next, vars, serverVars, Call, ClientStep, Transmit, AttemptFails, BackoffEnds, ListenEnds,
         SkipCallback, AcceptReply, ListenReceive, ServerStep, RejectFlag, ExecuteAlways,
         ReplayCached, ExecuteAndCache, Sweep, Lapse
<1> QED BY <1>1, <1>2, <1>3

\* What the handler puts in a reply is what it logs.
LEMMA HandlerExecutes ==
  ASSUME TypeOK, NEW d \in net, d.type = "Request", RunHandler(d, Outcome(db, d.q)),
         NEW body, body = Body(d, Outcome(db, d.q))
  PROVE  Executed(d.client, body)'
<1>1. /\ Len(log) + 1 \in DOMAIN log'
      /\ log'[Len(log) + 1] = LogEntry(d, Outcome(db, d.q))
  BY LogByHandler
<1> QED BY <1>1 DEF Executed, LogEntry, Body

\* A server step puts only replies about executions in flight.
LEMMA RepliesByServerSteps ==
  ASSUME IndInv, AnswersAreExecutions, ServerStep
  PROVE  \A x \in net' : x.type = "Reply" => Executed(x.client, x.body)'
<1>1. ASSUME NEW x \in net, x.type = "Reply" PROVE Executed(x.client, x.body)'
  <2>1. Executed(x.client, x.body)
    BY <1>1 DEF AnswersAreExecutions
  <2> QED BY <2>1, ExecutedStays DEF Next
<1>2. ASSUME NEW d, NEW body, NEW callbacks, SendReply(d, body, callbacks),
             \A x \in callbacks : x.type = "Callback", Executed(d.client, body)'
      PROVE  \A x \in net' : x.type = "Reply" => Executed(x.client, x.body)'
  BY <1>1, <1>2 DEF SendReply, ReplyTo, After
<1>3. ASSUME NEW d \in net, RejectFlag(d)
      PROVE  \A x \in net' : x.type = "Reply" => Executed(x.client, x.body)'
  BY <1>1, <1>3 DEF RejectFlag, After
<1>4. ASSUME NEW d \in net, d.type = "Request", RunHandler(d, Outcome(db, d.q))
      PROVE  \A x \in net' : x.type = "Reply" => Executed(x.client, x.body)'
  <2> DEFINE callbacks == CallbacksOf(d, UpdatesOf(d.q, Outcome(db, d.q)), live)
             body == Body(d, Outcome(db, d.q))
  <2>1. \A x \in callbacks : x.type = "Callback"
    BY DEF CallbacksOf
  <2>2. SendReply(d, body, callbacks)
    BY <1>4 DEF RunHandler
  <2>3. PICK b : b = body
    OBVIOUS
  <2>4. Executed(d.client, b)'
    BY <1>4, <2>3, HandlerExecutes DEF IndInv
  <2> HIDE DEF callbacks, body
  <2> QED BY <1>2, <2>1, <2>2, <2>3, <2>4
<1>5. ASSUME NEW d \in net, ReplayCached(d)
      PROVE  \A x \in net' : x.type = "Reply" => Executed(x.client, x.body)'
  <2>1. d \in Requests
    BY <1>5 DEF ReplayCached, IndInv, TypeOK, Requests, Replies, Callbacks
  <2>2. PICK b : b = history[d.client][d.id]
    OBVIOUS
  <2>3. Executed(d.client, b)
    BY <1>5, <2>1, <2>2 DEF ReplayCached, Found, Requests, IndInv, HistoryIsLog
  <2>4. Executed(d.client, b)'
    BY <2>3, ExecutedStays DEF Next
  <2> QED BY <1>2, <1>5, <2>2, <2>4 DEF ReplayCached
<1> QED BY <1>3, <1>4, <1>5 DEF ServerStep, ExecuteAlways, ExecuteAndCache

\* No other step puts a reply in flight.
LEMMA RepliesByOtherSteps ==
  ASSUME [Next]_vars, ~ ServerStep
  PROVE  \A x \in net' : x.type = "Reply" => x \in net
BY DEF Next, vars, clientVars, Call, ClientStep, Transmit, RequestOf, AttemptFails, BackoffEnds,
       ListenEnds, SkipCallback, AcceptReply, ListenReceive, After, Sweep, Lapse

\* A client ends a call with no answer or with the body of a reply sent to it.
LEMMA ReturnedByStep ==
  ASSUME TypeOK, [Next]_vars
  PROVE  \/ UNCHANGED returned
         \/ \E c \in Clients, body \in Bodies \cup {NoReply} :
              /\ returned' = [returned EXCEPT ![c] = Append(@, body)]
              /\ body = NoReply \/ \E d \in net : d.type = "Reply" /\ d.client = c /\ d.body = body
<1>1. ASSUME NEW c \in Clients, AttemptFails(c), ~ UNCHANGED returned
      PROVE  returned' = [returned EXCEPT ![c] = Append(@, NoReply)]
  BY <1>1 DEF AttemptFails
<1>2. ASSUME NEW c \in Clients, NEW d \in net, AcceptReply(c, d)
      PROVE  /\ returned' = [returned EXCEPT ![c] = Append(@, d.body)]
             /\ d.type = "Reply" /\ d.client = c /\ d.body \in Bodies
  BY <1>2 DEF AcceptReply, TypeOK, Requests, Replies, Callbacks
<1>3. \/ UNCHANGED returned
      \/ \E c \in Clients : AttemptFails(c)
      \/ \E c \in Clients, d \in net : AcceptReply(c, d)
  BY DEF Next, vars, clientVars, Call, ClientStep, Transmit, BackoffEnds, ListenEnds, SkipCallback,
         ListenReceive, ServerStep, RejectFlag, ExecuteAlways, ReplayCached, ExecuteAndCache,
         RunHandler, Sweep, Lapse
<1> QED BY <1>1, <1>2, <1>3

LEMMA AnswersNext ==
  ASSUME IndInv, AnswersAreExecutions, [Next]_vars
  PROVE  AnswersAreExecutions'
<1>1. \A x \in net' : x.type = "Reply" => Executed(x.client, x.body)'
  <2>1. CASE ServerStep
    BY <2>1, RepliesByServerSteps
  <2>2. CASE ~ ServerStep
    <3>1. ASSUME NEW x \in net', x.type = "Reply" PROVE Executed(x.client, x.body)'
      <4>1. Executed(x.client, x.body)
        BY <2>2, <3>1, RepliesByOtherSteps DEF AnswersAreExecutions
      <4> QED BY <4>1, ExecutedStays
    <3> QED BY <3>1
  <2> QED BY <2>1, <2>2
<1>2. ASSUME NEW c \in Clients, NEW n \in DOMAIN returned'[c]
      PROVE  (returned[c][n] = NoReply \/ Executed(c, returned[c][n]))'
  <2>1. ASSUME n \in DOMAIN returned[c], returned'[c][n] = returned[c][n]
        PROVE  (returned[c][n] = NoReply \/ Executed(c, returned[c][n]))'
    <3>1. PICK b : b = returned[c][n]
      OBVIOUS
    <3>2. b = NoReply \/ Executed(c, b)
      BY <2>1, <3>1 DEF AnswersAreExecutions
    <3>3. b = NoReply \/ Executed(c, b)'
      BY <3>2, ExecutedStays
    <3> QED BY <2>1, <3>1, <3>3 DEF Executed
  <2>2. CASE UNCHANGED returned
    BY <2>1, <2>2
  <2>3. ASSUME NEW e \in Clients, NEW body \in Bodies \cup {NoReply},
               returned' = [returned EXCEPT ![e] = Append(@, body)],
               body = NoReply \/ \E d \in net : d.type = "Reply" /\ d.client = e /\ d.body = body
        PROVE  (returned[c][n] = NoReply \/ Executed(c, returned[c][n]))'
    <3>1. returned \in [Clients -> Seq(Bodies \cup {NoReply})]
      BY DEF IndInv, TypeOK
    <3>2. CASE e # c
      BY <2>1, <2>3, <3>1, <3>2
    <3>3. CASE e = c
      <4>1. returned'[c] = Append(returned[c], body) /\ returned[c] \in Seq(Bodies \cup {NoReply})
        BY <2>3, <3>1, <3>3
      <4>2. /\ Len(returned[c]) \in Nat
            /\ DOMAIN returned[c] = 1 .. Len(returned[c])
            /\ DOMAIN returned'[c] = 1 .. Len(returned[c]) + 1
            /\ returned'[c][Len(returned[c]) + 1] = body
            /\ \A i \in 1 .. Len(returned[c]) : returned'[c][i] = returned[c][i]
        BY <4>1, AppendFacts
      <4>3. CASE n \in 1 .. Len(returned[c])
        BY <2>1, <4>2, <4>3
      <4>4. CASE n = Len(returned[c]) + 1
        <5>1. body = NoReply \/ Executed(c, body)
          BY <2>3, <3>3 DEF AnswersAreExecutions
        <5>2. body = NoReply \/ Executed(c, body)'
          BY <5>1, ExecutedStays
        <5> QED BY <4>2, <4>4, <5>2 DEF Executed
      <4> QED BY <4>2, <4>3, <4>4
    <3> QED BY <3>2, <3>3
  <2> QED BY <2>2, <2>3, ReturnedByStep DEF IndInv
<1> QED BY <1>1, <1>2 DEF AnswersAreExecutions

\* Every answer in flight to a client, and every answer a client was given, is
\* the answer of an execution of a call of that client, under either semantics.
THEOREM AnswersAreExecutionsAlways == Spec => []AnswersAreExecutions
<1>1. Init => AnswersAreExecutions
  BY DEF Init, AnswersAreExecutions
<1> QED BY <1>1, AnswersNext, IndInvAlways, PTL DEF Spec

-----------------------------------------------------------------------------
(* The refinement. *)

\* The abstract bank runs the same bank and the same handler.
LEMMA SameBank ==
  ASSUME NEW d, NEW q
  PROVE  /\ Abstract!OpenAccount(d, q) = OpenAccount(d, q)
         /\ Abstract!CloseAccount(d, q) = CloseAccount(d, q)
         /\ Abstract!Deposit(d, q) = Deposit(d, q)
         /\ Abstract!Withdraw(d, q) = Withdraw(d, q)
         /\ Abstract!CheckBalance(d, q) = CheckBalance(d, q)
         /\ Abstract!Transfer(d, q) = Transfer(d, q)
<1> USE DEF Abstract!Fails, Fails, Abstract!Returns, Returns, Abstract!None, None
<1>0. ASSUME NEW x, NEW y
      PROVE  /\ Abstract!Less(x, y) = Less(x, y) /\ Abstract!AtMost(x, y) = AtMost(x, y)
             /\ Abstract!Plus(x, y) = Plus(x, y) /\ Abstract!Negative(x) = Negative(x)
  BY DEF Abstract!Less, Less, Abstract!AtMost, AtMost, Abstract!Plus, Plus, Abstract!Negative, Negative
<1>1. Abstract!AuthError(d, q) = AuthError(d, q)
  BY DEF Abstract!AuthError, AuthError
<1>2. Abstract!MovementError(d, q) = MovementError(d, q)
  BY <1>0, <1>1 DEF Abstract!MovementError, MovementError
<1>3. Abstract!WithdrawError(d, q) = WithdrawError(d, q)
  BY <1>0, <1>2 DEF Abstract!WithdrawError, WithdrawError
<1>4. Abstract!TransferError(d, q) = TransferError(d, q)
  BY <1>0, <1>1 DEF Abstract!TransferError, TransferError
<1>5. ASSUME NEW x, NEW a, NEW n PROVE Abstract!AddToBalance(x, a, n) = AddToBalance(x, a, n)
  BY <1>0 DEF Abstract!AddToBalance, AddToBalance
<1>6. Abstract!OpenAccount(d, q) = OpenAccount(d, q)
  BY DEF Abstract!OpenAccount, OpenAccount, Abstract!CreateAccount, CreateAccount, Abstract!Put, Put
<1>7. Abstract!CloseAccount(d, q) = CloseAccount(d, q)
  BY <1>1 DEF Abstract!CloseAccount, CloseAccount, Abstract!DeleteAccount, DeleteAccount,
              Abstract!Restrict, Restrict
<1>8. Abstract!Deposit(d, q) = Deposit(d, q)
  BY <1>0, <1>2, <1>5 DEF Abstract!Deposit, Deposit
<1>9. Abstract!Withdraw(d, q) = Withdraw(d, q)
  BY <1>0, <1>3, <1>5 DEF Abstract!Withdraw, Withdraw
<1>10. Abstract!CheckBalance(d, q) = CheckBalance(d, q)
  BY <1>1 DEF Abstract!CheckBalance, CheckBalance
<1>11. Abstract!Transfer(d, q) = Transfer(d, q)
  BY <1>0, <1>4, <1>5 DEF Abstract!Transfer, Transfer
<1> QED BY <1>6, <1>7, <1>8, <1>9, <1>10, <1>11

LEMMA SameOutcome ==
  ASSUME NEW d, NEW q
  PROVE  /\ Abstract!Outcome(d, q) = Outcome(d, q)
         /\ Abstract!Answer(Outcome(d, q)) = Answer(Outcome(d, q))
<1>1. Abstract!WellFormed(q) <=> WellFormed(q)
  BY DEF Abstract!WellFormed, WellFormed, Abstract!RequiredFields, RequiredFields,
         Abstract!Services, Services
<1>2. Abstract!CallService(d, q) = CallService(d, q)
  BY SameBank DEF Abstract!CallService, CallService, Abstract!Returns, Returns, Abstract!None, None
<1>3. Abstract!Outcome(d, q) = Outcome(d, q)
  BY <1>1, <1>2 DEF Abstract!Outcome, Outcome, Abstract!Fails, Fails
<1>4. Abstract!Answer(Outcome(d, q)) = Answer(Outcome(d, q))
  BY DEF Abstract!Answer, Answer, Abstract!MapBankingError, MapBankingError, Abstract!Success,
         Success, Abstract!None, None
<1> QED BY <1>3, <1>4

\* Reading off the answers of a sequence of bodies.
LEMMA AnswersOfSeq ==
  ASSUME NEW S, NEW s \in Seq(S)
  PROVE  Len([n \in DOMAIN s |-> s[n].answer]) = Len(s)
<1> DEFINE f == [n \in 1 .. Len(s) |-> s[n].answer]
           T == {s[n].answer : n \in 1 .. Len(s)}
<1>1. DOMAIN s = 1 .. Len(s) /\ Len(s) \in Nat
  BY LenProperties
<1>2. f \in [1 .. Len(s) -> T]
  OBVIOUS
<1>3. f \in Seq(T)
  BY <1>1, <1>2
<1>4. DOMAIN f = 1 .. Len(f) /\ Len(f) \in Nat
  BY <1>3, LenProperties
<1>5. Len(f) = Len(s)
  BY <1>1, <1>4
<1> QED BY <1>1, <1>5

LEMMA AnswersOfAppend ==
  ASSUME NEW S, NEW s \in Seq(S), NEW e \in S
  PROVE  [n \in DOMAIN Append(s, e) |-> Append(s, e)[n].answer] =
           Append([n \in DOMAIN s |-> s[n].answer], e.answer)
<1> DEFINE f == [n \in DOMAIN s |-> s[n].answer]
           g == [n \in DOMAIN Append(s, e) |-> Append(s, e)[n].answer]
           T == {s[n].answer : n \in 1 .. Len(s)} \cup {e.answer}
<1>1. /\ Len(s) \in Nat /\ DOMAIN s = 1 .. Len(s)
      /\ DOMAIN Append(s, e) = 1 .. Len(s) + 1
      /\ Append(s, e)[Len(s) + 1] = e
      /\ \A i \in 1 .. Len(s) : Append(s, e)[i] = s[i]
  BY AppendFacts
<1>2. f \in [1 .. Len(s) -> T]
  BY <1>1
<1>3. f \in Seq(T)
  BY <1>1, <1>2
<1>4. Len(f) = Len(s)
  BY AnswersOfSeq
<1> HIDE DEF T
<1>5. e.answer \in T
  BY DEF T
<1>6. /\ DOMAIN Append(f, e.answer) = 1 .. Len(s) + 1
      /\ Append(f, e.answer)[Len(s) + 1] = e.answer
      /\ \A i \in 1 .. Len(s) : Append(f, e.answer)[i] = f[i]
  <2> HIDE DEF f
  <2> QED BY <1>3, <1>4, <1>5, AppendFacts
<1>7. /\ DOMAIN g = 1 .. Len(s) + 1
      /\ \A i \in 1 .. Len(s) + 1 : g[i] = Append(f, e.answer)[i]
  BY <1>1, <1>6
<1>8. \E B : Append(f, e.answer) \in Seq(B)
  <2> HIDE DEF f
  <2> QED BY <1>3, <1>5, AppendProperties
<1>9. Append(f, e.answer) = [i \in 1 .. Len(s) + 1 |-> Append(f, e.answer)[i]]
  <2> HIDE DEF f
  <2>1. PICK B : Append(f, e.answer) \in Seq(B)
    BY <1>8
  <2>2. Append(f, e.answer) \in [1 .. Len(Append(f, e.answer)) -> B]
    BY <2>1, LenProperties
  <2>3. Append(f, e.answer) = [i \in DOMAIN Append(f, e.answer) |-> Append(f, e.answer)[i]]
    BY <2>2
  <2> QED BY <1>6, <2>3
<1> QED BY <1>7, <1>9

LEMMA AbstractInit == ASSUME Init PROVE Abstract!Init
<1>1. ExecutedCalls = {}
  BY DEF Init, ExecutedCalls
<1>2. ReturnedAnswers = [c \in Clients |-> <<>>]
  BY DEF Init, ReturnedAnswers
<1>3. db = Abstract!EmptyDatabase
  BY DEF Init, EmptyDatabase, Abstract!EmptyDatabase
<1> QED BY <1>1, <1>2, <1>3 DEF Init, Abstract!Init

\* A step that leaves the log, the bodies, the calls and the store alone is invisible.
LEMMA AbstractStutter ==
  ASSUME UNCHANGED <<issued, returned, db, log>>
  PROVE  UNCHANGED Abstract!vars
BY DEF Abstract!vars, ExecutedCalls, ReturnedAnswers

LEMMA CallIssues ==
  ASSUME IndInv, NEW c \in Clients, NEW q \in Commands[c], Call(c, q)
  PROVE  Abstract!Issue(c, q)
<1>1. Len(issued[c]) = Len(returned[c]) /\ returned[c] \in Seq(Bodies \cup {NoReply})
  BY DEF Call, IndInv, ClientsHaveCalls, TypeOK
<1>2. Len(ReturnedAnswers[c]) = Len(returned[c])
  BY <1>1, AnswersOfSeq DEF ReturnedAnswers
<1>3. UNCHANGED <<returned, db, log>>
  BY DEF Call, serverVars
<1>4. UNCHANGED <<ExecutedCalls, ReturnedAnswers, db>>
  BY <1>3 DEF ExecutedCalls, ReturnedAnswers
<1> QED BY <1>1, <1>2, <1>4 DEF Call, Abstract!Issue

\* A client that gives up, or accepts a reply, ends its call.
LEMMA EndReturns ==
  ASSUME IndInv, AnswersAreExecutions, NEW c \in Clients,
         pc[c] \in {"Send", "Receive"}, UNCHANGED <<issued, db, log>>,
         NEW body \in Bodies \cup {NoReply},
         body = NoReply \/ Executed(c, body),
         returned' = [returned EXCEPT ![c] = Append(@, body)]
  PROVE  Abstract!Return(c, body.answer)
<1>1. returned \in [Clients -> Seq(Bodies \cup {NoReply})]
  BY DEF IndInv, TypeOK
<1>2. Len(returned[c]) \in Nat /\ Len(ReturnedAnswers[c]) = Len(returned[c])
  BY <1>1, AnswersOfSeq, LenProperties DEF ReturnedAnswers
<1>3. Len(ReturnedAnswers[c]) < Len(issued[c])
  BY <1>2 DEF IndInv, ClientsHaveCalls
<1>4. \/ body.answer = Abstract!NoAnswer
      \/ \E x \in ExecutedCalls : x.client = c /\ x.answer = body.answer
  <2>1. CASE body = NoReply
    BY <2>1 DEF NoReply, Abstract!NoAnswer
  <2>2. ASSUME NEW i \in DOMAIN log, log[i].client = c, log[i].answer = body.answer
        PROVE  \E x \in ExecutedCalls : x.client = c /\ x.answer = body.answer
    <3> DEFINE x == [client |-> log[i].client, call |-> log[i].call, answer |-> log[i].answer]
    <3>1. x \in ExecutedCalls
      BY <2>2 DEF ExecutedCalls
    <3>2. x.client = c /\ x.answer = body.answer
      BY <2>2
    <3> QED BY <3>1, <3>2
  <2> QED BY <2>1, <2>2 DEF Executed
<1>5. ReturnedAnswers' = [ReturnedAnswers EXCEPT ![c] = Append(@, body.answer)]
  <2>1. [n \in DOMAIN Append(returned[c], body) |-> Append(returned[c], body)[n].answer] =
          Append(ReturnedAnswers[c], body.answer)
    BY <1>1, AnswersOfAppend DEF ReturnedAnswers
  <2>2. ReturnedAnswers'[c] = Append(ReturnedAnswers[c], body.answer)
    BY <1>1, <2>1 DEF ReturnedAnswers
  <2>3. \A x \in Clients \ {c} : ReturnedAnswers'[x] = ReturnedAnswers[x]
    BY <1>1 DEF ReturnedAnswers
  <2> QED BY <2>2, <2>3 DEF ReturnedAnswers
<1>6. UNCHANGED <<issued, ExecutedCalls, db>>
  BY DEF ExecutedCalls
<1> QED BY <1>3, <1>4, <1>5, <1>6 DEF Abstract!Return

\* Under at-most-once the handler runs for a call that was not executed yet.
LEMMA ServerExecutes ==
  ASSUME IndInv, NEW d \in net, ExecuteAndCache(d)
  PROVE  d.client \in Clients /\ Abstract!Execute(d.client, d.call)
<1> DEFINE out == Outcome(db, d.q)
           entry == [client |-> d.client, call |-> d.call, answer |-> Answer(out)]
<1>1. Mode = "AtMostOnce" /\ d.type = "Request" /\ d.flag = Mode /\ d.id \notin DOMAIN history[d.client]
  BY DEF ExecuteAndCache, Found
<1>2. d \in Requests
  BY <1>1 DEF IndInv, TypeOK, Requests, Replies, Callbacks
<1>3. /\ d.client \in Clients /\ d.id = d.call
      /\ d.call \in DOMAIN issued[d.client] /\ d.q = issued[d.client][d.call]
  BY <1>1, <1>2 DEF IndInv, RequestsAreCalls, Requests
<1>4. \A i \in DOMAIN log : ~ (log[i].client = d.client /\ log[i].call = d.call)
  BY <1>1, <1>3 DEF IndInv, HistoryIsLog
<1>5. ~ \E e \in ExecutedCalls : e.client = d.client /\ e.call = d.call
  BY <1>4 DEF ExecutedCalls
<1>6. RunHandler(d, out)
  BY DEF ExecuteAndCache
<1>7. /\ Len(log) \in Nat /\ DOMAIN log = 1 .. Len(log)
      /\ DOMAIN log' = 1 .. Len(log) + 1
      /\ log'[Len(log) + 1] = LogEntry(d, out)
      /\ \A i \in DOMAIN log : log'[i] = log[i]
  BY <1>1, <1>6, LogByHandler DEF IndInv
<1>8. ExecutedCalls' = ExecutedCalls \cup {entry}
  <2> DEFINE e(x) == [client |-> x.client, call |-> x.call, answer |-> x.answer]
  <2>1. e(LogEntry(d, out)) = entry
    BY DEF LogEntry
  <2> HIDE DEF entry, out
  <2>2. DOMAIN log' = DOMAIN log \cup {Len(log) + 1}
    BY <1>7
  <2>3. ExecutedCalls' = {e(log'[i]) : i \in DOMAIN log'} /\ ExecutedCalls = {e(log[i]) : i \in DOMAIN log}
    BY DEF ExecutedCalls
  <2> HIDE DEF e
  <2> QED BY <1>7, <2>1, <2>2, <2>3
<1>9. db' = out.db /\ UNCHANGED <<issued, ReturnedAnswers>>
  BY <1>6 DEF RunHandler, clientVars, ReturnedAnswers
<1>10. Abstract!Outcome(db, issued[d.client][d.call]) = out /\ Abstract!Answer(out) = Answer(out)
  BY <1>3, SameOutcome
<1> HIDE DEF out
<1> QED BY <1>3, <1>5, <1>8, <1>9, <1>10 DEF Abstract!Execute

LEMMA AbstractNext ==
  ASSUME Mode = "AtMostOnce", IndInv, AnswersAreExecutions, [Next]_vars
  PROVE  [Abstract!Next]_(Abstract!vars)
<1>1. ASSUME NEW c \in Clients, NEW q \in Commands[c], Call(c, q)
      PROVE  Abstract!Next
  BY <1>1, CallIssues DEF Abstract!Next
<1>2. ASSUME NEW c \in Clients, AttemptFails(c), ~ UNCHANGED returned
      PROVE  Abstract!Next
  <2>1. /\ pc[c] \in {"Send", "Receive"} /\ UNCHANGED <<issued, db, log>>
        /\ returned' = [returned EXCEPT ![c] = Append(@, NoReply)]
    BY <1>2 DEF AttemptFails, serverVars
  <2>2. Abstract!Return(c, NoReply.answer)
    BY <2>1, EndReturns
  <2>3. NoReply.answer = Abstract!NoAnswer
    BY DEF NoReply, Abstract!NoAnswer
  <2> HIDE DEF NoReply
  <2> QED BY <2>2, <2>3 DEF Abstract!Next
<1>3. ASSUME NEW c \in Clients, NEW d \in net, AcceptReply(c, d)
      PROVE  Abstract!Next
  <2>1. /\ pc[c] \in {"Send", "Receive"} /\ UNCHANGED <<issued, db, log>>
        /\ returned' = [returned EXCEPT ![c] = Append(@, d.body)]
    BY <1>3 DEF AcceptReply, serverVars
  <2>2. d.body \in Bodies /\ Executed(c, d.body)
    BY <1>3 DEF AcceptReply, AnswersAreExecutions, IndInv, TypeOK, Requests, Replies, Callbacks
  <2>3. Abstract!Return(c, d.body.answer)
    BY <2>1, <2>2, EndReturns
  <2>4. PICK i \in DOMAIN log : log[i].client = c /\ log[i].answer = d.body.answer
    BY <2>2 DEF Executed
  <2>5. d.body.answer \in {x.answer : x \in ExecutedCalls}
    <3> DEFINE x == [client |-> log[i].client, call |-> log[i].call, answer |-> log[i].answer]
    <3>1. x \in ExecutedCalls /\ x.answer = d.body.answer
      BY <2>4 DEF ExecutedCalls
    <3> HIDE DEF x
    <3> QED BY <3>1
  <2> QED BY <2>3, <2>5 DEF Abstract!Next
<1>4. ASSUME NEW d \in net, ExecuteAndCache(d)
      PROVE  Abstract!Next
  <2>1. d.client \in Clients /\ Abstract!Execute(d.client, d.call)
    BY <1>4, ServerExecutes
  <2>2. d.call \in DOMAIN issued[d.client]
    BY <2>1 DEF Abstract!Execute
  <2> QED BY <2>1, <2>2 DEF Abstract!Next
<1>5. CASE UNCHANGED <<issued, returned, db, log>>
  BY <1>5, AbstractStutter
<1>6. \/ \E c \in Clients : \E q \in Commands[c] : Call(c, q)
      \/ \E c \in Clients : AttemptFails(c) /\ ~ UNCHANGED returned
      \/ \E c \in Clients, d \in net : AcceptReply(c, d)
      \/ \E d \in net : ExecuteAndCache(d)
      \/ UNCHANGED <<issued, returned, db, log>>
  BY DEF Next, vars, clientVars, serverVars, ClientStep, Transmit, AttemptFails, BackoffEnds,
         ListenEnds, SkipCallback, ListenReceive, ServerStep, RejectFlag, ExecuteAlways,
         ReplayCached, Sweep, Lapse
<1> QED BY <1>1, <1>2, <1>3, <1>4, <1>5, <1>6

\* Started with at-most-once, the system behaves to its clients as a bank with no
\* network: each call takes effect in one step and at most once, and every call
\* ends with an answer of that client or with none.
THEOREM Refinement ==
  ASSUME Mode = "AtMostOnce"
  PROVE  Spec => ImplementsAtMostOnceBank
<1>1. Init => Abstract!Init
  BY AbstractInit
<1>2. IndInv /\ AnswersAreExecutions /\ [Next]_vars => [Abstract!Next]_(Abstract!vars)
  BY AbstractNext
<1> QED
  BY <1>1, <1>2, IndInvAlways, AnswersAreExecutionsAlways, PTL
  DEF Spec, ImplementsAtMostOnceBank, Abstract!Spec

-----------------------------------------------------------------------------
(* What else the system promises, from the same invariant: who is served, what
   callbacks tell and how often they are sent, which numbers accounts get and that none
   is used again, and that the balances are the sums of what the calls moved. *)

\* A step runs the handler on a request of the server's own mode, or leaves log and store
\* alone and notifies nobody.
LEMMA HandlerOrNot ==
  ASSUME [Next]_vars
  PROVE  \/ UNCHANGED <<log, db, notices>>
         \/ \E d \in net : d.type = "Request" /\ d.flag = Mode /\ RunHandler(d, Outcome(db, d.q))
  BY DEF Next, vars, serverVars, Call, ClientStep, Transmit, AttemptFails, BackoffEnds, ListenEnds,
         SkipCallback, AcceptReply, ListenReceive, ServerStep, RejectFlag, ExecuteAlways,
         ReplayCached, ExecuteAndCache, Sweep, Lapse

\* What TypeOK says of a request in flight.
LEMMA RequestTyped ==
  ASSUME TypeOK, NEW d \in net, d.type = "Request"
  PROVE  /\ d.client \in Clients /\ d.call \in Nat /\ d.try \in 1 .. MaxTries
         /\ WellFormed(d.q) /\ WellTyped(d.q)
<1>1. d \in Requests
  BY DEF TypeOK, Requests, Replies, Callbacks
<1> QED BY <1>1, CommandsTyped DEF Requests

\* What TypeOK says of an entry of the log.
LEMMA EntryOfLog ==
  ASSUME TypeOK, NEW i \in DOMAIN log
  PROVE  log[i].client \in Clients /\ log[i].call \in Nat /\ log[i].try \in 1 .. MaxTries
<1> DEFINE Entries == [client : Clients, call : Nat, try : 1 .. MaxTries, answer : Answers]
<1>1. log \in Seq(Entries)
  BY DEF TypeOK
<1> HIDE DEF Entries
<1>2. log[i] \in Entries
  BY <1>1, ElementOfSeq, LenProperties
<1> QED BY <1>2 DEF Entries

\* The handler logs the client, the call and the transmission of the request, and its answer.
LEMMA LogGrows ==
  ASSUME TypeOK, NEW d \in net, d.type = "Request", RunHandler(d, Outcome(db, d.q))
  PROVE  LET last == Len(log) + 1
         IN /\ Len(log) \in Nat /\ DOMAIN log = 1 .. Len(log) /\ DOMAIN log' = 1 .. last
            /\ \A i \in DOMAIN log : log'[i] = log[i]
            /\ log'[last].client = d.client
            /\ log'[last].call = d.call
            /\ log'[last].try = d.try
            /\ log'[last].answer = Answer(Outcome(db, d.q))
<1> DEFINE entry == LogEntry(d, Outcome(db, d.q))
<1>1. /\ entry.client = d.client /\ entry.call = d.call /\ entry.try = d.try
      /\ entry.answer = Answer(Outcome(db, d.q))
  BY DEF LogEntry
<1>2. /\ Len(log) \in Nat /\ DOMAIN log = 1 .. Len(log) /\ DOMAIN log' = 1 .. Len(log) + 1
      /\ log'[Len(log) + 1] = entry
      /\ \A i \in DOMAIN log : log'[i] = log[i]
  BY LogByHandler
<1> HIDE DEF entry
<1> QED BY <1>1, <1>2

\* SUCCESS is what an outcome without an error is mapped to, and no other.
LEMMA SuccessMeansNone ==
  ASSUME NEW out
  PROVE  Answer(out).status = Success <=> out.err = None
  BY DEF Answer, MapBankingError, Success, None

-----------------------------------------------------------------------------
(* Who is served. *)

\* Nothing is logged for a client of the other mode, and it is no subscriber.
ServedMatchMode ==
  \A c \in Clients :
    Flag[c] # Mode => /\ \A i \in DOMAIN log : log[i].client # c
                      /\ c \notin live \cup lapsed

LEMMA ServedMatchModeNext ==
  ASSUME IndInv, ServedMatchMode, [Next]_vars
  PROVE  ServedMatchMode'
<1>1. ASSUME NEW d \in net, d.type = "Request", d.flag = Mode, RunHandler(d, Outcome(db, d.q))
      PROVE  ServedMatchMode'
  <2>1. d.client \in Clients /\ Flag[d.client] = Mode
    BY <1>1, RequestTyped DEF IndInv, RequestsAreCalls
  <2>2. /\ DOMAIN log = 1 .. Len(log) /\ Len(log) \in Nat
        /\ DOMAIN log' = 1 .. Len(log) + 1
        /\ log'[Len(log) + 1].client = d.client
        /\ \A i \in DOMAIN log : log'[i] = log[i]
    BY <1>1, LogGrows DEF IndInv
  <2>3. live' \subseteq live \cup {d.client} /\ lapsed' \subseteq lapsed
    BY <1>1 DEF RunHandler
  <2>4. ASSUME NEW c \in Clients, Flag[c] # Mode, NEW i \in DOMAIN log' PROVE log'[i].client # c
    <3>1. CASE i \in DOMAIN log
      BY <2>2, <2>4, <3>1 DEF ServedMatchMode
    <3>2. CASE i = Len(log) + 1
      BY <2>1, <2>2, <2>4, <3>2
    <3> QED BY <2>2, <3>1, <3>2
  <2> QED BY <2>1, <2>3, <2>4 DEF ServedMatchMode
<1>2. CASE UNCHANGED log /\ live' \cup lapsed' \subseteq live \cup lapsed
  BY <1>2 DEF ServedMatchMode
<1>3. \/ UNCHANGED log /\ live' \cup lapsed' \subseteq live \cup lapsed
      \/ \E d \in net : d.type = "Request" /\ d.flag = Mode /\ RunHandler(d, Outcome(db, d.q))
  BY DEF Next, vars, serverVars, Call, ClientStep, Transmit, AttemptFails, BackoffEnds, ListenEnds,
         SkipCallback, AcceptReply, ListenReceive, ServerStep, RejectFlag, ExecuteAlways,
         ReplayCached, ExecuteAndCache, Sweep, Lapse
<1> QED BY <1>1, <1>2, <1>3

\* A client started with the other semantics than the server is never served, however
\* many clients of either kind there are (dispatcher.go: the comparison of the flag).
THEOREM WrongFlagAlways == Spec => []WrongFlagNeverServed
<1>1. Init => ServedMatchMode
  BY DEF Init, ServedMatchMode
<1>2. ServedMatchMode /\ AnswersAreExecutions => WrongFlagNeverServed
  BY DEF ServedMatchMode, AnswersAreExecutions, WrongFlagNeverServed, Executed
<1> QED BY <1>1, <1>2, ServedMatchModeNext, IndInvAlways, AnswersAreExecutionsAlways, PTL DEF Spec

-----------------------------------------------------------------------------
(* What callbacks tell. *)

\* A callback on its way carries update part of the outcome of its call.
LEMMA NewCallbacks ==
  ASSUME IndInv, NEW d \in net, d.type = "Request", RunHandler(d, Outcome(db, d.q)),
         NEW x \in net' \ net, x.type = "Callback"
  PROVE  LET updates == UpdatesOf(d.q, Outcome(db, d.q))
         IN /\ x.cause.client = d.client /\ x.cause.call = d.call /\ x.cause.try = d.try
            /\ x.cause.part \in DOMAIN updates
            /\ x.update = updates[x.cause.part]
<1> DEFINE updates == UpdatesOf(d.q, Outcome(db, d.q))
<1>1. x \in CallbacksOf(d, updates, live)
  BY DEF RunHandler, SendReply, ReplyTo, After
<1> HIDE DEF updates
<1>2. /\ x.cause.client = d.client /\ x.cause.call = d.call /\ x.cause.try = d.try
      /\ x.cause.part \in DOMAIN updates
      /\ x.update = updates[x.cause.part]
  BY <1>1 DEF CallbacksOf
<1> QED BY <1>2 DEF updates

\* Steps other than the handler's put no callback in flight.
LEMMA OldCallbacks ==
  ASSUME [Next]_vars
  PROVE  \/ \A x \in net' : x.type = "Callback" => x \in net
         \/ \E d \in net : d.type = "Request" /\ d.flag = Mode /\ RunHandler(d, Outcome(db, d.q))
<1>1. ASSUME NEW d \in net, ReplayCached(d) PROVE \A x \in net' : x.type = "Callback" => x \in net
  BY <1>1 DEF ReplayCached, SendReply, ReplyTo, After
<1>2. ASSUME NEW c \in Clients, Transmit(c) PROVE \A x \in net' : x.type = "Callback" => x \in net
  BY <1>2 DEF Transmit, RequestOf
<1> QED
  BY <1>1, <1>2
  DEF Next, vars, serverVars, clientVars, Call, ClientStep, AttemptFails, BackoffEnds, ListenEnds,
      SkipCallback, AcceptReply, ListenReceive, ServerStep, RejectFlag, ExecuteAlways,
      ExecuteAndCache, Sweep, Lapse, After

\* The update for the caller's account carries the balance of the reply.
LEMMA FirstUpdate ==
  ASSUME NEW q, NEW out,
         1 \in DOMAIN UpdatesOf(q, out),
         UpdatesOf(q, out)[1].service \in {"Deposit", "Withdraw", "TransferFunds"}
  PROVE  UpdatesOf(q, out)[1].balance = out.value
<1>1. out.err = None
  BY DEF UpdatesOf
<1>2. CASE q.service = "OpenAccount"
  BY <1>1, <1>2 DEF UpdatesOf, AccountUpdate
<1>3. CASE q.service = "CloseAccount"
  BY <1>1, <1>3 DEF UpdatesOf, AccountUpdate
<1>4. CASE q.service \in {"Deposit", "Withdraw"}
  BY <1>1, <1>4 DEF UpdatesOf, AccountUpdate
<1>5. CASE q.service = "TransferFunds"
  BY <1>1, <1>5 DEF UpdatesOf, AccountUpdate
<1>6. CASE q.service \notin {"OpenAccount", "CloseAccount", "Deposit", "Withdraw", "TransferFunds"}
  BY <1>1, <1>6 DEF UpdatesOf
<1> QED BY <1>2, <1>3, <1>4, <1>5, <1>6

LEMMA CallbacksReportNext ==
  ASSUME IndInv, CallbacksReportExecutions, [Next]_vars
  PROVE  CallbacksReportExecutions'
<1>1. ASSUME NEW d \in net, d.type = "Request", RunHandler(d, Outcome(db, d.q))
      PROVE  CallbacksReportExecutions'
  <2> DEFINE out == Outcome(db, d.q)
             last == Len(log) + 1
  <2>1. /\ DOMAIN log \subseteq DOMAIN log' /\ last \in DOMAIN log'
        /\ \A i \in DOMAIN log : log'[i] = log[i]
        /\ log'[last].client = d.client /\ log'[last].call = d.call /\ log'[last].try = d.try
        /\ log'[last].answer = Answer(out)
    BY <1>1, LogGrows DEF IndInv
  <2>2. ASSUME NEW x \in net, x.type = "Callback"
        PROVE  \E i \in DOMAIN log' :
                 /\ log'[i].client = x.cause.client
                 /\ log'[i].call = x.cause.call
                 /\ log'[i].try = x.cause.try
                 /\ log'[i].answer.status = Success
                 /\ x.update.service \in {"Deposit", "Withdraw", "TransferFunds"} /\ x.cause.part = 1
                      => x.update.balance = log'[i].answer.value
    <3> HIDE DEF last, out
    <3> QED BY <2>1, <2>2 DEF CallbacksReportExecutions
  <2>3. ASSUME NEW x \in net' \ net, x.type = "Callback"
        PROVE  /\ log'[last].client = x.cause.client
               /\ log'[last].call = x.cause.call
               /\ log'[last].try = x.cause.try
               /\ log'[last].answer.status = Success
               /\ x.update.service \in {"Deposit", "Withdraw", "TransferFunds"} /\ x.cause.part = 1
                    => x.update.balance = log'[last].answer.value
    <3>1. /\ x.cause.client = d.client /\ x.cause.call = d.call /\ x.cause.try = d.try
          /\ x.cause.part \in DOMAIN UpdatesOf(d.q, out)
          /\ x.update = UpdatesOf(d.q, out)[x.cause.part]
      BY <1>1, <2>3, NewCallbacks
    <3>2. out.err = None
      BY <3>1 DEF UpdatesOf
    <3>3. Answer(out).status = Success /\ Answer(out).value = out.value
      BY <3>2, SuccessMeansNone DEF Answer
    <3>4. x.update.service \in {"Deposit", "Withdraw", "TransferFunds"} /\ x.cause.part = 1
            => x.update.balance = out.value
      BY <3>1, FirstUpdate
    <3> HIDE DEF last, out
    <3> QED BY <2>1, <3>1, <3>3, <3>4
  <2> HIDE DEF last, out
  <2> QED BY <2>1, <2>2, <2>3 DEF CallbacksReportExecutions
<1>2. CASE UNCHANGED log /\ \A x \in net' : x.type = "Callback" => x \in net
  BY <1>2 DEF CallbacksReportExecutions
<1> QED BY <1>1, <1>2, OldCallbacks, HandlerOrNot

\* A callback tells of a call that was executed with success, and brings the balance of
\* the reply to that call (handler.go: NotifyAll after the banking service returned).
THEOREM CallbacksReportAlways == Spec => []CallbacksReportExecutions
<1>1. Init => CallbacksReportExecutions
  BY DEF Init, CallbacksReportExecutions
<1> QED BY <1>1, CallbacksReportNext, IndInvAlways, PTL DEF Spec

\* A round of callbacks has one for each recipient and part of the call.
LEMMA OnePerPart ==
  ASSUME NEW r, NEW updates, NEW to,
         NEW d \in CallbacksOf(r, updates, to), NEW e \in CallbacksOf(r, updates, to)
  PROVE  /\ d.cause.client = r.client /\ d.cause.call = r.call
         /\ d.client = e.client /\ d.cause.part = e.cause.part => d = e
  BY DEF CallbacksOf

\* The handler sends one round of callbacks, or none.
LEMMA NoticesGrow ==
  ASSUME TypeOK, TypeOK', NEW r \in net, r.type = "Request", RunHandler(r, Outcome(db, r.q))
  PROVE  \/ UNCHANGED notices
         \/ LET last == Len(notices) + 1
            IN /\ DOMAIN notices' = DOMAIN notices \cup {last} /\ last \notin DOMAIN notices
               /\ \A i \in DOMAIN notices : notices'[i] = notices[i]
               /\ notices'[last] = CallbacksOf(r, UpdatesOf(r.q, Outcome(db, r.q)), live)
<1> PICK round : round = CallbacksOf(r, UpdatesOf(r.q, Outcome(db, r.q)), live)
  OBVIOUS
<1>1. UNCHANGED notices \/ notices' = Append(notices, round)
  BY DEF RunHandler, SendReply
<1>2. notices \in Seq(SUBSET Callbacks) /\ notices' \in Seq(SUBSET Callbacks)
  BY DEF TypeOK
<1>3. ASSUME notices' = Append(notices, round)
      PROVE  /\ Len(notices) \in Nat /\ DOMAIN notices = 1 .. Len(notices)
             /\ DOMAIN notices' = 1 .. Len(notices) + 1
             /\ \A i \in 1 .. Len(notices) : notices'[i] = notices[i]
             /\ notices'[Len(notices) + 1] = round
  <2> PICK S : S = SUBSET Callbacks
    OBVIOUS
  <2>1. round \in S
    <3>1. Len(notices') = Len(notices) + 1 /\ notices'[Len(notices) + 1] = round
      BY <1>2, <1>3
    <3>2. Len(notices) + 1 \in 1 .. Len(notices')
      BY <1>2, <3>1, LenProperties
    <3> QED BY <1>2, <3>1, <3>2, ElementOfSeq
  <2> QED BY <1>2, <1>3, <2>1, AppendFacts
<1>4. CASE notices' = Append(notices, round)
  <2> PICK last : last = Len(notices) + 1
    OBVIOUS
  <2>1. DOMAIN notices' = DOMAIN notices \cup {last} /\ last \notin DOMAIN notices
    BY <1>3, <1>4
  <2> QED BY <1>3, <1>4, <2>1
<1> QED BY <1>1, <1>4

\* The inductive invariant: also, whatever was sent tells of a call in the log.
NoticesAreOfLog ==
  \A i \in DOMAIN notices : \A d \in notices[i] :
    \E k \in DOMAIN log : log[k].client = d.cause.client /\ log[k].call = d.cause.call

LEMMA NoticesAreOfLogNext ==
  ASSUME IndInv, IndInv', NoticesAreOfLog, [Next]_vars
  PROVE  NoticesAreOfLog'
<1>1. CASE UNCHANGED <<log, notices>>
  BY <1>1 DEF NoticesAreOfLog
<1>2. ASSUME NEW r \in net, r.type = "Request", RunHandler(r, Outcome(db, r.q))
      PROVE  NoticesAreOfLog'
  <2> PICK round : round = CallbacksOf(r, UpdatesOf(r.q, Outcome(db, r.q)), live)
    OBVIOUS
  <2> PICK last : last = Len(log) + 1
    OBVIOUS
  <2>1. /\ DOMAIN log \subseteq DOMAIN log' /\ last \in DOMAIN log'
        /\ \A k \in DOMAIN log : log'[k] = log[k]
        /\ log'[last].client = r.client /\ log'[last].call = r.call
    BY <1>2, LogGrows DEF IndInv
  <2>2. ASSUME NEW i \in DOMAIN notices'
        PROVE  (i \in DOMAIN notices /\ notices'[i] = notices[i]) \/ notices'[i] = round
    BY <1>2, NoticesGrow DEF IndInv
  <2>3. \A d \in round : d.cause.client = r.client /\ d.cause.call = r.call
    BY OnePerPart
  <2> QED BY <2>1, <2>2, <2>3 DEF NoticesAreOfLog
<1> QED BY <1>1, <1>2, HandlerOrNot

LEMMA NotifyOnceNext ==
  ASSUME IndInv, IndInv', NoticesAreOfLog, NotifyOnce, [Next]_vars
  PROVE  NotifyOnce'
<1> SUFFICES ASSUME Mode = "AtMostOnce",
                    NEW i \in DOMAIN notices', NEW j \in DOMAIN notices',
                    NEW d \in notices'[i], NEW e \in notices'[j],
                    d.client = e.client, d.cause.client = e.cause.client,
                    d.cause.call = e.cause.call, d.cause.part = e.cause.part
             PROVE  i = j /\ d = e
  BY DEF NotifyOnce
<1>1. CASE UNCHANGED notices
  BY <1>1 DEF NotifyOnce
<1>2. ASSUME NEW r \in net, r.type = "Request", RunHandler(r, Outcome(db, r.q)),
             ~ UNCHANGED notices
      PROVE  i = j /\ d = e
  <2> PICK round : round = CallbacksOf(r, UpdatesOf(r.q, Outcome(db, r.q)), live)
    OBVIOUS
  <2> PICK last : last = Len(notices) + 1
    OBVIOUS
  <2>1. /\ DOMAIN notices' = DOMAIN notices \cup {last} /\ last \notin DOMAIN notices
        /\ \A k \in DOMAIN notices : notices'[k] = notices[k]
        /\ notices'[last] = round
    BY <1>2, NoticesGrow DEF IndInv
  <2>2. ASSUME NEW k \in DOMAIN log PROVE ~ (log[k].client = r.client /\ log[k].call = r.call)
    <3>1. /\ k \in DOMAIN log' /\ Len(log) + 1 \in DOMAIN log' /\ k # Len(log) + 1
          /\ log'[k] = log[k]
          /\ log'[Len(log) + 1].client = r.client /\ log'[Len(log) + 1].call = r.call
      BY <1>2, LogGrows DEF IndInv
    <3>2. AtMostOnce'
      BY DEF IndInv
    <3> QED BY <3>1, <3>2 DEF AtMostOnce
  <2>3. \A k \in DOMAIN notices : \A x \in notices[k] :
          ~ (x.cause.client = r.client /\ x.cause.call = r.call)
    BY <2>2 DEF NoticesAreOfLog
  <2>4. \A x \in round : x.cause.client = r.client /\ x.cause.call = r.call
    BY OnePerPart
  <2>5. CASE i \in DOMAIN notices /\ j \in DOMAIN notices
    BY <2>1, <2>5 DEF NotifyOnce
  <2>6. CASE i = last /\ j = last
    BY <2>1, <2>6, OnePerPart
  <2> QED BY <2>1, <2>3, <2>4, <2>5, <2>6
<1> QED BY <1>1, <1>2, HandlerOrNot

\* Under at-most-once each monitoring client is sent a call's update once: no second
\* execution and no replayed reply sends it again, however the request is repeated
\* (dispatcher.go: a duplicate does not reach the handler, which calls NotifyAll).
THEOREM NotifyOnceAlways == Spec => []NotifyOnce
<1>1. Init => NotifyOnce /\ NoticesAreOfLog
  BY DEF Init, NotifyOnce, NoticesAreOfLog
<1> QED BY <1>1, NotifyOnceNext, NoticesAreOfLogNext, IndInvAlways, PTL DEF Spec

-----------------------------------------------------------------------------
(* Account numbers, and balances below zero. *)

\* The handler has not run so often that account numbers could wrap around.
NumbersLeft == FirstID + Len(log) < UintSize

Numbered(d) == \A a \in DOMAIN d.accounts : a < d.nextID

\* Only an account that is opened gets a number, and it gets the next one.
LEMMA NumberByOutcome ==
  ASSUME NEW d, IsDatabase(d), Numbered(d), d.nextID + 1 < UintSize, NEW q, WellTyped(q)
  PROVE  LET out == Outcome(d, q)
         IN /\ Numbered(out.db)
            /\ out.db.nextID \in {d.nextID, d.nextID + 1}
            /\ out.err = None /\ q.service = "OpenAccount" =>
                 out.value = d.nextID /\ out.db.nextID = d.nextID + 1
<1> DEFINE out == Outcome(d, q)
<1>0. d.nextID \in Nat /\ DOMAIN d.accounts \subseteq Nat /\ UintSize \in Nat
  BY DatabaseFields, UintAssumption DEF Uint32
<1> DEFINE Goal == /\ Numbered(out.db)
                   /\ out.db.nextID \in {d.nextID, d.nextID + 1}
                   /\ out.err = None /\ q.service = "OpenAccount" =>
                        out.value = d.nextID /\ out.db.nextID = d.nextID + 1
<1>1. ASSUME out.err # None PROVE Goal
  <2>1. out.db = d
    BY <1>1, FailureChangesNothing
  <2> HIDE DEF out
  <2> QED BY <1>1, <2>1
<1>2. ASSUME out.err = None PROVE Goal
  <2>1. WellFormed(q) /\ out = CallService(d, q)
    BY <1>2 DEF Outcome, Fails, None
  <2>2. ASSUME q.service = "OpenAccount" PROVE Goal
    <3>1. (d.nextID + 1) % UintSize = d.nextID + 1
      BY <1>0, SmallModulus
    <3>2. /\ out.value = d.nextID /\ out.db.nextID = d.nextID + 1
          /\ DOMAIN out.db.accounts = DOMAIN d.accounts \cup {d.nextID}
      BY <2>1, <2>2, <3>1 DEF CallService, OpenAccount, Returns, CreateAccount, Put
    <3> HIDE DEF out
    <3> QED BY <1>0, <3>2 DEF Numbered
  <2>3. ASSUME q.service # "OpenAccount" PROVE Goal
    <3>1. DOMAIN out.db.accounts \subseteq DOMAIN d.accounts /\ out.db.nextID = d.nextID
      <4>1. CASE q.service = "CloseAccount"
        BY <1>2, <2>1, <4>1 DEF CallService, CloseAccount, Fails, Returns, DeleteAccount, Restrict
      <4>2. CASE q.service = "Deposit"
        BY <1>2, <2>1, <4>2, MovementFindsAccount
           DEF CallService, Deposit, Fails, Returns, None, AddToBalance
      <4>3. CASE q.service = "Withdraw"
        BY <1>2, <2>1, <4>3, MovementFindsAccount
           DEF CallService, Withdraw, Fails, Returns, None, AddToBalance
      <4>4. CASE q.service = "TransferFunds"
        BY <1>2, <2>1, <4>4, TransferFindsAccounts
           DEF CallService, Transfer, Fails, Returns, None, AddToBalance
      <4>5. CASE q.service \in {"GetBalance", "Monitor"}
        BY <2>1, <4>5 DEF CallService, CheckBalance, Fails, Returns
      <4> QED BY <2>1, <2>3, <4>1, <4>2, <4>3, <4>4, <4>5 DEF WellFormed, Services, RequiredFields
    <3> HIDE DEF out
    <3> QED BY <2>3, <3>1 DEF Numbered
  <2> QED BY <2>2, <2>3
<1>3. Goal
  BY <1>1, <1>2
<1> QED BY <1>3

\* Entry i of the log is an account that was opened.
Opens(i) ==
  log[i].answer.status = Success /\ issued[log[i].client][log[i].call].service = "OpenAccount"

\* While numbers are left, those given out are below the next one.
NumbersGrow ==
  /\ \A i \in DOMAIN log : log[i].call \in DOMAIN issued[log[i].client]
  /\ NumbersLeft =>
       /\ db.nextID <= FirstID + Len(log)
       /\ Numbered(db)
       /\ \A i \in DOMAIN log :
            Opens(i) => log[i].answer.value \in Nat /\ log[i].answer.value < db.nextID
       /\ AccountNumbersUnique

\* A client's commands are never changed once issued.
LEMMA IssuedStay ==
  ASSUME TypeOK, [Next]_vars, NEW c \in Clients
  PROVE  /\ DOMAIN issued[c] \subseteq DOMAIN issued'[c]
         /\ \A n \in DOMAIN issued[c] : issued'[c][n] = issued[c][n]
<1>1. ASSUME NEW b \in Clients, NEW q \in Commands[b], Call(b, q)
      PROVE  \/ issued'[c] = issued[c]
             \/ issued'[c] = Append(issued[c], q) /\ q \in AllCommands
  BY <1>1 DEF Call, TypeOK, AllCommands
<1>2. issued'[c] = issued[c] \/ \E q \in AllCommands : issued'[c] = Append(issued[c], q)
  BY <1>1
  DEF Next, vars, clientVars, ClientStep, Transmit, AttemptFails, BackoffEnds, ListenEnds,
      SkipCallback, AcceptReply, ListenReceive, ServerStep, RejectFlag, ExecuteAlways,
      ReplayCached, ExecuteAndCache, RunHandler, Sweep, Lapse
<1>3. issued[c] \in Seq(AllCommands)
  BY DEF TypeOK
<1> HIDE DEF AllCommands
<1> QED BY <1>2, <1>3, AppendProperties, LenProperties

LEMMA NumbersGrowNext ==
  ASSUME IndInv, NumbersGrow, [Next]_vars
  PROVE  NumbersGrow'
<1> USE DEF IndInv
<1>1. ASSUME NEW i \in DOMAIN log, log'[i] = log[i]
      PROVE  /\ log'[i].call \in DOMAIN issued'[log'[i].client]
             /\ Opens(i)' <=> Opens(i)
  <2>1. log[i].client \in Clients /\ log[i].call \in DOMAIN issued[log[i].client]
    BY EntryOfLog DEF NumbersGrow
  <2> QED BY <1>1, <2>1, IssuedStay DEF Opens
<1>2. CASE UNCHANGED <<log, db>>
  BY <1>1, <1>2 DEF NumbersGrow, NumbersLeft, AccountNumbersUnique, Opens
<1>3. ASSUME NEW d \in net, d.type = "Request", RunHandler(d, Outcome(db, d.q))
      PROVE  NumbersGrow'
  <2> DEFINE out == Outcome(db, d.q)
  <2> PICK last : last = Len(log) + 1
    OBVIOUS
  <2>1. /\ Len(log) \in Nat /\ DOMAIN log = 1 .. Len(log) /\ DOMAIN log' = 1 .. last
        /\ \A i \in DOMAIN log : log'[i] = log[i]
        /\ log'[last].client = d.client /\ log'[last].call = d.call
        /\ log'[last].answer = Answer(out)
    BY <1>3, LogGrows
  <2>2. d.client \in Clients /\ WellTyped(d.q) /\ IsDatabase(db)
    BY <1>3, RequestTyped DEF TypeOK
  <2>3. d.call \in DOMAIN issued'[d.client] /\ issued'[d.client][d.call] = d.q
    BY <1>3, <2>2, IssuedStay DEF RequestsAreCalls
  <2>4. db' = out.db
    BY <1>3 DEF RunHandler
  <2>5. Opens(last)' => out.err = None /\ d.q.service = "OpenAccount"
    <3>1. Opens(last)' => Answer(out).status = Success /\ d.q.service = "OpenAccount"
      <4> HIDE DEF out
      <4> QED BY <2>1, <2>3 DEF Opens
    <3> QED BY <3>1, SuccessMeansNone
  <2>6. log'[last].answer.value = out.value
    BY <2>1 DEF Answer
  <2>7. Len(log') = last
    BY <1>3, <2>1 DEF RunHandler
  <2> HIDE DEF out
  <2>8. \A i \in DOMAIN log' : log'[i].call \in DOMAIN issued'[log'[i].client]
    BY <1>1, <2>1, <2>3
  <2>9. ASSUME NumbersLeft'
        PROVE  /\ db'.nextID <= FirstID + Len(log')
               /\ Numbered(db')
               /\ \A i \in DOMAIN log' :
                    Opens(i)' => log'[i].answer.value \in Nat /\ log'[i].answer.value < db'.nextID
               /\ AccountNumbersUnique'
    <3>0. FirstID \in Nat /\ UintSize \in Nat /\ db.nextID \in Nat
      BY <2>2, UintAssumption, DatabaseFields DEF Uint32
    <3>1. NumbersLeft /\ db.nextID + 1 < UintSize /\ db.nextID <= FirstID + Len(log)
      BY <2>1, <2>7, <2>9, <3>0 DEF NumbersLeft, NumbersGrow
    <3>2. /\ Numbered(db') /\ db'.nextID \in {db.nextID, db.nextID + 1}
          /\ Opens(last)' => log'[last].answer.value = db.nextID /\ db'.nextID = db.nextID + 1
      BY <2>2, <2>4, <2>5, <2>6, <3>1, NumberByOutcome DEF NumbersGrow, out
    <3>3. \A i \in DOMAIN log :
            Opens(i)' => /\ Opens(i)
                         /\ log'[i].answer.value \in Nat /\ log'[i].answer.value < db.nextID
      BY <1>1, <2>1, <3>1 DEF NumbersGrow
    <3>4. \A i \in DOMAIN log' : i \in DOMAIN log \/ i = last
      BY <2>1
    <3>5. ASSUME NEW i \in DOMAIN log', Opens(i)'
          PROVE  log'[i].answer.value \in Nat /\ log'[i].answer.value < db'.nextID
      <4>1. CASE i \in DOMAIN log
        <5>1. log'[i].answer.value \in Nat /\ log'[i].answer.value < db.nextID
          BY <3>3, <3>5, <4>1
        <5> QED BY <3>0, <3>2, <5>1
      <4>2. CASE i = last
        BY <3>0, <3>2, <3>5, <4>2
      <4> QED BY <3>4, <4>1, <4>2
    <3>6. ASSUME NEW i \in DOMAIN log', NEW j \in DOMAIN log', Opens(i)', Opens(j)',
                 log'[i].answer.value = log'[j].answer.value
          PROVE  i = j
      <4>1. CASE i \in DOMAIN log /\ j \in DOMAIN log
        BY <2>1, <3>1, <3>3, <3>6, <4>1 DEF NumbersGrow, AccountNumbersUnique, Opens
      <4>2. CASE i = last /\ j \in DOMAIN log
        BY <3>0, <3>2, <3>3, <3>6, <4>2
      <4>3. CASE i \in DOMAIN log /\ j = last
        BY <3>0, <3>2, <3>3, <3>6, <4>3
      <4> QED BY <3>4, <4>1, <4>2, <4>3
    <3>7. AccountNumbersUnique'
      BY <3>6 DEF AccountNumbersUnique, Opens
    <3>8. db'.nextID <= FirstID + Len(log')
      BY <2>1, <2>7, <3>0, <3>1, <3>2
    <3> QED BY <3>2, <3>5, <3>7, <3>8
  <2> QED BY <2>8, <2>9 DEF NumbersGrow
<1> QED BY <1>2, <1>3, HandlerOrNot

\* No two accounts that were opened were told the same number, as long as the numbers
\* did not run out (memory.go: CreateAccount counts nextID up and wraps unchecked).
THEOREM AccountNumbersUniqueAlways == Spec /\ []NumbersLeft => []AccountNumbersUnique
<1>1. Init => NumbersGrow
  BY UintAssumption
     DEF Init, NumbersGrow, NumbersLeft, Numbered, EmptyDatabase, AccountNumbersUnique
<1>2. NumbersGrow /\ NumbersLeft => AccountNumbersUnique
  BY DEF NumbersGrow
<1> QED BY <1>1, <1>2, NumbersGrowNext, IndInvAlways, PTL DEF Spec

\* A call succeeds on accounts that are there or on the one it opens, and one that it
\* closes is there no more.
LEMMA AccountsByOutcome ==
  ASSUME NEW d, NEW q
  PROVE  LET out == Outcome(d, q)
         IN /\ AccountsOf(q, Answer(out)) \subseteq DOMAIN d.accounts \cup {d.nextID}
            /\ DOMAIN out.db.accounts \subseteq DOMAIN d.accounts \cup {d.nextID}
            /\ q.service = "CloseAccount" =>
                 AccountsOf(q, Answer(out)) \subseteq DOMAIN d.accounts \ DOMAIN out.db.accounts
<1> PICK out : out = Outcome(d, q)
  OBVIOUS
<1> DEFINE there == DOMAIN d.accounts
           about == AccountsOf(q, Answer(out))
           Goal == /\ about \subseteq there \cup {d.nextID}
                   /\ DOMAIN out.db.accounts \subseteq there \cup {d.nextID}
                   /\ q.service = "CloseAccount" => about \subseteq there \ DOMAIN out.db.accounts
<1>1. ASSUME out.err # None PROVE Goal
  <2>1. out.db = d
    BY <1>1, FailureChangesNothing
  <2>2. about = {}
    BY <1>1, SuccessMeansNone DEF AccountsOf
  <2> HIDE DEF about
  <2> QED BY <2>1, <2>2
<1>2. ASSUME out.err = None PROVE Goal
  <2>1. WellFormed(q) /\ out = CallService(d, q)
    BY <1>2 DEF Outcome, Fails, None
  <2>2. Answer(out).status = Success /\ Answer(out).value = out.value
    BY <1>2, SuccessMeansNone DEF Answer
  <2>3. CASE q.service = "OpenAccount"
    <3>1. about = {out.value}
      BY <2>2, <2>3 DEF AccountsOf
    <3>2. out.value = d.nextID /\ DOMAIN out.db.accounts = there \cup {d.nextID}
      BY <2>1, <2>3 DEF CallService, OpenAccount, Returns, CreateAccount, Put
    <3> HIDE DEF about
    <3> QED BY <2>3, <3>1, <3>2
  <2>4. CASE q.service = "CloseAccount"
    <3>1. about = {q.account}
      BY <2>2, <2>4 DEF AccountsOf
    <3>2. AuthError(d, q) = None /\ out.db = DeleteAccount(d, q.account)
      BY <1>2, <2>1, <2>4 DEF CallService, CloseAccount, Fails, Returns
    <3>3. q.account \in there /\ DOMAIN out.db.accounts = there \ {q.account}
      BY <3>2, AuthFindsAccount DEF DeleteAccount, Restrict
    <3> HIDE DEF about
    <3> QED BY <3>1, <3>3
  <2>5. CASE q.service \in {"Deposit", "Withdraw"}
    <3>1. about = {q.account}
      BY <2>2, <2>5 DEF AccountsOf
    <3>2. q.account \in there /\ DOMAIN out.db.accounts \subseteq there
      BY <1>2, <2>1, <2>5, MovementFindsAccount
         DEF CallService, Deposit, Withdraw, WithdrawError, Fails, Returns, None, AddToBalance
    <3> HIDE DEF about
    <3> QED BY <2>5, <3>1, <3>2
  <2>6. CASE q.service = "GetBalance"
    <3>1. about = {q.account}
      BY <2>2, <2>6 DEF AccountsOf
    <3>2. AuthError(d, q) = None /\ out.db = d
      BY <1>2, <2>1, <2>6 DEF CallService, CheckBalance, Fails, Returns
    <3>3. q.account \in there
      BY <3>2, AuthFindsAccount
    <3> HIDE DEF about
    <3> QED BY <2>6, <3>1, <3>2, <3>3
  <2>7. CASE q.service = "TransferFunds"
    <3>1. about = {q.account, q.toAccount}
      BY <2>2, <2>7 DEF AccountsOf
    <3>2. q.account \in there /\ q.toAccount \in there /\ DOMAIN out.db.accounts \subseteq there
      BY <1>2, <2>1, <2>7, TransferFindsAccounts
         DEF CallService, Transfer, Fails, Returns, None, AddToBalance
    <3> HIDE DEF about
    <3> QED BY <2>7, <3>1, <3>2
  <2>8. CASE q.service = "Monitor"
    <3>1. about = {} /\ out.db = d
      BY <2>1, <2>2, <2>8 DEF AccountsOf, CallService, Returns
    <3> HIDE DEF about
    <3> QED BY <2>8, <3>1
  <2> QED BY <2>1, <2>3, <2>4, <2>5, <2>6, <2>7, <2>8 DEF WellFormed, Services, RequiredFields
<1>3. Goal
  BY <1>1, <1>2
<1> QED BY <1>3

\* The accounts that entry i of the log is about, and those it has closed.
About(i) == AccountsOf(issued[log[i].client][log[i].call], log[i].answer)

Closed(i) == IF issued[log[i].client][log[i].call].service = "CloseAccount" THEN About(i) ELSE {}

\* The inductive invariant: also, a number that was closed was given out before and has
\* no account.
ClosedIsGone ==
  NumbersLeft =>
    /\ \A i \in DOMAIN log : \A a \in Closed(i) :
         a \in Nat /\ a < db.nextID /\ a \notin DOMAIN db.accounts
    /\ \A i, j \in DOMAIN log : i < j => Closed(i) \cap About(j) = {}

LEMMA ClosedIsGoneNext ==
  ASSUME IndInv, NumbersGrow, ClosedIsGone, [Next]_vars
  PROVE  ClosedIsGone'
<1>1. ASSUME NEW i \in DOMAIN log, log'[i] = log[i]
      PROVE  About(i)' = About(i) /\ Closed(i)' = Closed(i)
  <2>1. log[i].client \in Clients /\ log[i].call \in DOMAIN issued[log[i].client]
    BY EntryOfLog DEF IndInv, NumbersGrow
  <2>2. issued'[log[i].client][log[i].call] = issued[log[i].client][log[i].call]
    BY <2>1, IssuedStay DEF IndInv
  <2> QED BY <1>1, <2>2 DEF About, Closed
<1>2. CASE UNCHANGED <<log, db>>
  BY <1>1, <1>2 DEF ClosedIsGone, NumbersLeft
<1>3. ASSUME NEW d \in net, d.type = "Request", RunHandler(d, Outcome(db, d.q)), NumbersLeft'
      PROVE  ClosedIsGone'
  <2> PICK last : last = Len(log) + 1
    OBVIOUS
  <2> PICK out : out = Outcome(db, d.q)
    OBVIOUS
  <2>1. /\ Len(log) \in Nat /\ DOMAIN log = 1 .. Len(log) /\ DOMAIN log' = 1 .. last
        /\ \A i \in DOMAIN log : log'[i] = log[i]
        /\ log'[last].client = d.client /\ log'[last].call = d.call
        /\ log'[last].answer = Answer(out)
    BY <1>3, LogGrows DEF IndInv
  <2>2. d.client \in Clients /\ WellTyped(d.q) /\ IsDatabase(db)
    BY <1>3, RequestTyped DEF IndInv, TypeOK
  <2>3. issued'[d.client][d.call] = d.q
    BY <1>3, <2>2, IssuedStay DEF IndInv, RequestsAreCalls
  <2>4. db' = out.db
    BY <1>3 DEF RunHandler
  <2>5. FirstID \in Nat /\ UintSize \in Nat /\ db.nextID \in Nat /\ DOMAIN db.accounts \subseteq Nat
    BY <2>2, UintAssumption, DatabaseFields DEF Uint32
  <2>6. NumbersLeft /\ db.nextID + 1 < UintSize /\ Numbered(db)
    <3>1. Len(log') = last
      BY <2>1, <1>3 DEF RunHandler
    <3> QED BY <1>3, <2>1, <2>5, <3>1 DEF NumbersLeft, NumbersGrow
  <2>7. db'.nextID \in {db.nextID, db.nextID + 1}
    BY <2>2, <2>4, <2>6, NumberByOutcome
  <2>8. /\ About(last)' \subseteq DOMAIN db.accounts \cup {db.nextID}
        /\ DOMAIN db'.accounts \subseteq DOMAIN db.accounts \cup {db.nextID}
        /\ Closed(last)' \subseteq DOMAIN db.accounts \ DOMAIN db'.accounts
    <3>1. About(last)' = AccountsOf(d.q, Answer(out))
      BY <2>1, <2>3 DEF About
    <3>2. Closed(last)' = IF d.q.service = "CloseAccount" THEN About(last)' ELSE {}
      BY <2>1, <2>3 DEF Closed
    <3> QED BY <2>4, <3>1, <3>2, AccountsByOutcome
  <2>9. ASSUME NEW i \in DOMAIN log, NEW a \in Closed(i)
        PROVE  a \in Nat /\ a < db.nextID /\ a \notin DOMAIN db.accounts /\ a # db.nextID
    BY <2>5, <2>6 DEF ClosedIsGone
  <2>10. \A i \in DOMAIN log' : i \in DOMAIN log \/ i = last
    BY <2>1
  <2>11. ASSUME NEW i \in DOMAIN log', NEW a \in Closed(i)'
         PROVE  a \in Nat /\ a < db'.nextID /\ a \notin DOMAIN db'.accounts
    <3>1. CASE i \in DOMAIN log
      <4>1. a \in Nat /\ a < db.nextID /\ a \notin DOMAIN db.accounts /\ a # db.nextID
        BY <1>1, <2>1, <2>9, <2>11, <3>1
      <4> QED BY <2>5, <2>7, <2>8, <4>1
    <3>2. CASE i = last
      <4>1. a \in DOMAIN db.accounts /\ a \notin DOMAIN db'.accounts
        BY <2>8, <2>11, <3>2
      <4>2. a \in Nat /\ a < db.nextID
        BY <2>5, <2>6, <4>1 DEF Numbered
      <4> QED BY <2>5, <2>7, <4>1, <4>2
    <3> QED BY <2>10, <3>1, <3>2
  <2>12. ASSUME NEW i \in DOMAIN log', NEW j \in DOMAIN log', i < j
         PROVE  (Closed(i) \cap About(j))' = {}
    <3>1. i \in DOMAIN log
      BY <2>1, <2>12
    <3>2. CASE j \in DOMAIN log
      BY <1>1, <2>1, <2>6, <2>12, <3>1, <3>2 DEF ClosedIsGone
    <3>3. CASE j = last
      BY <1>1, <2>1, <2>8, <2>9, <3>1, <3>3
    <3> QED BY <2>10, <3>2, <3>3
  <2> QED BY <2>11, <2>12 DEF ClosedIsGone
<1> QED BY <1>2, <1>3, HandlerOrNot DEF ClosedIsGone

\* An account that a call has closed stays closed, also for requests that are executed
\* late or again, as long as the numbers did not run out (memory.go: DeleteAccount
\* leaves nextID alone).
THEOREM ClosedForGoodAlways == Spec /\ []NumbersLeft => []ClosedForGood
<1>1. Init => NumbersGrow /\ ClosedIsGone
  BY UintAssumption
     DEF Init, NumbersGrow, NumbersLeft, Numbered, EmptyDatabase, AccountNumbersUnique, ClosedIsGone
<1>2. ClosedIsGone /\ NumbersLeft => ClosedForGood
  BY DEF ClosedIsGone, ClosedForGood, Closed, About
<1> QED BY <1>1, <1>2, NumbersGrowNext, ClosedIsGoneNext, IndInvAlways, PTL DEF Spec

\* No step takes a balance below zero, or one that is below zero further down, as long
\* as the numbers did not run out (bank.go: the checks of funds in Withdraw and Transfer).
THEOREM NoOverdraftAlways == Spec /\ []NumbersLeft => NoOverdraft
<1>1. Init => NumbersGrow
  BY UintAssumption
     DEF Init, NumbersGrow, NumbersLeft, Numbered, EmptyDatabase, AccountNumbersUnique
<1>2. ASSUME IndInv, NumbersGrow, NumbersLeft, [Next]_vars
      PROVE  [\A a \in DOMAIN db.accounts \cap DOMAIN db'.accounts :
                Less(db'.accounts[a].balance, 0)
                  => ~ Less(db'.accounts[a].balance, db.accounts[a].balance)]_vars
  <2>1. ASSUME NEW a \in DOMAIN db.accounts \cap DOMAIN db'.accounts,
               Less(db'.accounts[a].balance, 0)
        PROVE  ~ Less(db'.accounts[a].balance, db.accounts[a].balance)
    <3>0. IsDatabase(db)
      BY <1>2 DEF IndInv, TypeOK
    <3>1. CASE UNCHANGED db
      <4>1. db.accounts[a].balance \in Money
        BY <2>1, <3>0, DatabaseFields DEF Account
      <4> QED BY <3>1, <4>1, NotBelowItself
    <3>2. ASSUME NEW d \in net, d.type = "Request", RunHandler(d, Outcome(db, d.q))
          PROVE  ~ Less(db'.accounts[a].balance, db.accounts[a].balance)
      <4>1. db.nextID \notin DOMAIN db.accounts
        <5>1. db.nextID \in Nat
          BY <3>0, DatabaseFields, UintAssumption DEF Uint32
        <5> QED BY <1>2, <5>1 DEF NumbersGrow, Numbered
      <4>2. WellTyped(d.q) /\ db' = Outcome(db, d.q).db
        BY <1>2, <3>2, RequestTyped DEF RunHandler, IndInv
      <4> QED BY <2>1, <3>0, <4>1, <4>2, NoCallOverdraws
    <3> QED BY <1>2, <3>1, <3>2, HandlerOrNot
  <2> QED BY <2>1
<1> QED BY <1>1, <1>2, NumbersGrowNext, IndInvAlways, PTL DEF Spec, NoOverdraft

-----------------------------------------------------------------------------
(* The balances are the sums of the calls. *)

Effects(a) == [k \in Called |-> Effect(k, a)]

\* The inductive invariant: also, no call has moved anything to a number still to be given out.
BalancesAreSums ==
  Mode = "AtMostOnce" /\ NumbersLeft =>
    /\ \A a \in DOMAIN db.accounts : db.accounts[a].balance = Total(Called, 0, Effects(a))
    /\ \A a \in Nat : a >= db.nextID => \A k \in Called : Effect(k, a) = 0

LEMMA LogDomain ==
  ASSUME TypeOK
  PROVE  DOMAIN log = 1 .. Len(log) /\ Len(log) \in Nat /\ DOMAIN log \subseteq Nat
<1> DEFINE Entries == [client : Clients, call : Nat, try : 1 .. MaxTries, answer : Answers]
<1>1. log \in Seq(Entries)
  BY DEF TypeOK
<1> HIDE DEF Entries
<1> QED BY <1>1, LenProperties

LEMMA CalledIsFinite == ASSUME TypeOK PROVE IsFiniteSet(Called)
<1> DEFINE Key(i) == <<log[i].client, log[i].call>>
<1>1. IsFiniteSet(DOMAIN log)
  BY LogDomain, FS_Interval
<1>2. PICK key : key = [i \in DOMAIN log |-> Key(i)]
  OBVIOUS
<1>3. \A k \in Called : \E i \in DOMAIN log : key[i] = k
  BY <1>2 DEF Called
<1>4. key \in Surjection(DOMAIN log, Called)
  BY <1>2, <1>3 DEF Surjection, Called
<1> QED BY <1>1, <1>4, FS_Surjection

\* What the call of an entry of the log is worth, by that entry: there is only one.
EntriesTell ==
  Mode = "AtMostOnce" =>
    \A i \in DOMAIN log : \A k, a :
      k = <<log[i].client, log[i].call>> =>
        Effect(k, a) = IF log[i].answer.status # Success THEN 0
                       ELSE Moved(issued[log[i].client][log[i].call], log[i].answer.value, a)

LEMMA EffectOfEntry == IndInv => EntriesTell
<1> SUFFICES ASSUME IndInv, Mode = "AtMostOnce", NEW i \in DOMAIN log, NEW k, NEW a,
                    k = <<log[i].client, log[i].call>>
             PROVE  Effect(k, a) =
                      IF log[i].answer.status # Success THEN 0
                      ELSE Moved(issued[log[i].client][log[i].call], log[i].answer.value, a)
  BY DEF EntriesTell
<1>1. {j \in DOMAIN log : log[j].client = k[1] /\ log[j].call = k[2]} = {i}
  BY DEF IndInv, AtMostOnce
<1>2. i \in Nat
  BY LogDomain DEF IndInv
<1>3. Min({i}) = i
  BY <1>2 DEF Min
<1>4. FirstExecution(k) = log[i]
  BY <1>1, <1>3 DEF FirstExecution
<1> QED BY <1>4 DEF Effect

LEMMA EffectOfEntryLater == IndInv' => EntriesTell'
  BY EffectOfEntry, PTL

\* An effect is an amount of money.
LEMMA MovedTyped ==
  ASSUME NEW q \in AllCommands, NEW value, NEW a
  PROVE  Moved(q, value, a) \in Money
<1>1. WellFormed(q) /\ WellTyped(q) /\ 0 \in Money
  BY CommandsTyped DEF Money
<1>2. "amount" \in DOMAIN q => q.amount \in Money /\ Negative(q.amount) \in Money
  BY <1>1, MoneyClosed DEF WellTyped
<1>3. q.service \in {"OpenAccount", "Deposit", "Withdraw", "TransferFunds"} => "amount" \in DOMAIN q
  BY <1>1 DEF WellFormed, RequiredFields
<1> QED BY <1>1, <1>2, <1>3 DEF Moved

\* A logged call is among those its client issued.
LEMMA CallOfEntry ==
  ASSUME IndInv, NumbersGrow, NEW i \in DOMAIN log
  PROVE  /\ log[i].client \in Clients /\ log[i].call \in DOMAIN issued[log[i].client]
         /\ issued[log[i].client][log[i].call] \in AllCommands
<1>1. log[i].client \in Clients /\ log[i].call \in DOMAIN issued[log[i].client]
  BY EntryOfLog DEF IndInv, NumbersGrow
<1>2. issued[log[i].client] \in Seq(AllCommands)
  BY <1>1 DEF IndInv, TypeOK
<1> HIDE DEF AllCommands
<1> QED BY <1>1, <1>2, ElementOfSeq, LenProperties

LEMMA EffectsTyped ==
  ASSUME IndInv, NumbersGrow, Mode = "AtMostOnce", NEW k \in Called, NEW a
  PROVE  Effect(k, a) \in Money
<1>1. PICK i \in DOMAIN log : k = <<log[i].client, log[i].call>>
  BY DEF Called
<1>2. 0 \in Money
  BY DEF Money
<1> QED BY <1>1, <1>2, CallOfEntry, EffectOfEntry, MovedTyped DEF EntriesTell

\* What a call was worth it stays worth.
LEMMA EffectsStay ==
  ASSUME IndInv, IndInv', NumbersGrow, [Next]_vars, Mode = "AtMostOnce",
         DOMAIN log \subseteq DOMAIN log', \A i \in DOMAIN log : log'[i] = log[i],
         NEW k \in Called, NEW a
  PROVE  Effect(k, a)' = Effect(k, a)
<1>1. PICK i \in DOMAIN log : k = <<log[i].client, log[i].call>>
  BY DEF Called
<1>2. issued'[log[i].client][log[i].call] = issued[log[i].client][log[i].call]
  BY CallOfEntry, IssuedStay DEF IndInv
<1>3. i \in DOMAIN log' /\ log'[i] = log[i]
  OBVIOUS
<1> QED BY <1>1, <1>2, <1>3, EffectOfEntry, EffectOfEntryLater DEF EntriesTell

\* A call the handler runs is a new one, and counts for what the bank did with it.
LEMMA CallCounts ==
  ASSUME IndInv, IndInv', NumbersGrow, [Next]_vars, Mode = "AtMostOnce",
         NEW d \in net, d.type = "Request", RunHandler(d, Outcome(db, d.q)),
         db.nextID \notin DOMAIN db.accounts
  PROVE  \E k \in Called' :
           /\ \A a : Effect(k, a)' = Worth(db, d.q, a)
           /\ Called' = Called \cup {k}
           /\ \A a : Total(Called, 0, Effects(a))' =
                      Plus(Worth(db, d.q, a), Total(Called, 0, Effects(a)))
           /\ \A a : \A j \in Called : Effect(j, a)' = Effect(j, a)
<1> DEFINE k == <<d.client, d.call>>
<1> PICK last : last = Len(log) + 1
  OBVIOUS
<1> PICK out : out = Outcome(db, d.q)
  OBVIOUS
<1>1. /\ Len(log) \in Nat /\ DOMAIN log = 1 .. Len(log) /\ DOMAIN log' = 1 .. last
      /\ \A i \in DOMAIN log : log'[i] = log[i]
      /\ log'[last].client = d.client /\ log'[last].call = d.call
      /\ log'[last].answer = Answer(out)
  BY LogGrows DEF IndInv
<1>2. DOMAIN log \subseteq DOMAIN log' /\ last \in DOMAIN log' /\ last \notin DOMAIN log
      /\ \A i \in DOMAIN log' : i \in DOMAIN log \/ i = last
  BY <1>1
<1>3. Called' = Called \cup {k}
  BY <1>1, <1>2 DEF Called
<1>4. k \notin Called
  <2>1. AtMostOnce'
    BY DEF IndInv
  <2> QED BY <1>1, <1>2, <2>1 DEF Called, AtMostOnce
<1>5. d.client \in Clients /\ WellTyped(d.q) /\ IsDatabase(db)
  BY RequestTyped DEF IndInv, TypeOK
<1>6. issued'[d.client][d.call] = d.q
  BY <1>5, IssuedStay DEF IndInv, RequestsAreCalls
<1>7. ASSUME NEW a PROVE Effect(k, a)' = Worth(db, d.q, a) /\ Worth(db, d.q, a) \in Money
  <2>1. Effect(k, a)' = IF Answer(out).status # Success THEN 0 ELSE Moved(d.q, Answer(out).value, a)
    BY <1>1, <1>2, <1>6, EffectOfEntryLater DEF EntriesTell
  <2>2. Answer(out).value = out.value /\ (Answer(out).status = Success <=> out.err = None)
    BY SuccessMeansNone DEF Answer
  <2> QED BY <1>5, <2>1, <2>2, CallMovesWhatItSays DEF Worth
<1>8. ASSUME NEW a, NEW j \in Called PROVE Effect(j, a)' = Effect(j, a) /\ Effect(j, a) \in Money
  BY <1>1, <1>2, EffectsStay, EffectsTyped
<1>9. ASSUME NEW a
      PROVE  Total(Called, 0, Effects(a))' = Plus(Worth(db, d.q, a), Total(Called, 0, Effects(a)))
  <2> PICK g : g = Effects(a)'
    OBVIOUS
  <2> PICK h : h = Effects(a)
    OBVIOUS
  <2>1. /\ g[k] = Worth(db, d.q, a)
        /\ \A j \in Called : g[j] = Effect(j, a) /\ h[j] = Effect(j, a)
    BY <1>3, <1>7, <1>8 DEF Effects
  <2> HIDE DEF k
  <2>2. \A j \in Called : g[j] \in Money /\ g[j] = h[j]
    BY <1>8, <2>1
  <2>3. g[k] \in Money /\ IsFiniteSet(Called) /\ 0 \in Money
    BY <1>7, <2>1, CalledIsFinite DEF IndInv, Money
  <2>4. Total(Called \cup {k}, 0, g) = Plus(g[k], Total(Called, 0, h))
    BY <1>4, <2>2, <2>3, TotalGrows
  <2>6. Total(Called, 0, Effects(a))' = Total(Called', 0, g)
    OBVIOUS
  <2> QED BY <1>3, <2>1, <2>4, <2>6
<1> QED BY <1>3, <1>7, <1>8, <1>9

LEMMA BalancesAreSumsNext ==
  ASSUME IndInv, IndInv', NumbersGrow, BalancesAreSums, [Next]_vars
  PROVE  BalancesAreSums'
<1> SUFFICES ASSUME Mode = "AtMostOnce", NumbersLeft'
             PROVE  /\ \A a \in DOMAIN db'.accounts :
                         db'.accounts[a].balance = Total(Called, 0, Effects(a))'
                    /\ \A a \in Nat : a >= db'.nextID => \A k \in Called' : Effect(k, a)' = 0
  BY DEF BalancesAreSums
<1>1. CASE UNCHANGED <<log, db>>
  <2>1. Called' = Called /\ NumbersLeft
    BY <1>1 DEF Called, NumbersLeft
  <2>2. \A k \in Called : \A a : Effect(k, a)' = Effect(k, a)
    BY <1>1, EffectsStay
  <2>3. ASSUME NEW a PROVE Effects(a)' = Effects(a)
    BY <2>1, <2>2 DEF Effects
  <2> QED BY <1>1, <2>1, <2>2, <2>3 DEF BalancesAreSums
<1>2. ASSUME NEW d \in net, d.type = "Request", RunHandler(d, Outcome(db, d.q))
      PROVE  /\ \A a \in DOMAIN db'.accounts :
                  db'.accounts[a].balance = Total(Called, 0, Effects(a))'
             /\ \A a \in Nat : a >= db'.nextID => \A k \in Called' : Effect(k, a)' = 0
  <2>1. /\ Len(log) \in Nat /\ Len(log') = Len(log) + 1
    BY <1>2, LogDomain, AppendProperties DEF RunHandler, IndInv, TypeOK
  <2>2. /\ FirstID \in Nat /\ UintSize \in Nat /\ db.nextID \in Nat
        /\ IsDatabase(db) /\ WellTyped(d.q)
    <3>1. TypeOK /\ IsDatabase(db)
      BY DEF IndInv, TypeOK
    <3> QED BY <1>2, <3>1, RequestTyped, UintAssumption, DatabaseFields DEF Uint32
  <2>3. NumbersLeft /\ db.nextID + 1 < UintSize /\ Numbered(db)
    BY <2>1, <2>2 DEF NumbersLeft, NumbersGrow
  <2>4. db.nextID \notin DOMAIN db.accounts
    BY <2>2, <2>3 DEF Numbered
  <2>5. db' = Outcome(db, d.q).db
    BY <1>2 DEF RunHandler
  <2>6. PICK k \in Called' :
           /\ \A a : Effect(k, a)' = Worth(db, d.q, a)
           /\ Called' = Called \cup {k}
           /\ \A a : Total(Called, 0, Effects(a))' =
                      Plus(Worth(db, d.q, a), Total(Called, 0, Effects(a)))
           /\ \A a : \A j \in Called : Effect(j, a)' = Effect(j, a)
    BY <1>2, <2>4, CallCounts
  <2>7. ASSUME NEW a \in DOMAIN db'.accounts
        PROVE  db'.accounts[a].balance = Total(Called, 0, Effects(a))'
    <3>1. CASE a \in DOMAIN db.accounts
      <4>1. db'.accounts[a].balance = Plus(Worth(db, d.q, a), db.accounts[a].balance)
        BY <2>2, <2>4, <2>5, <2>7, <3>1, CallMovesWhatItSays
      <4> QED BY <2>3, <2>6, <3>1, <4>1 DEF BalancesAreSums
    <3>2. CASE a \notin DOMAIN db.accounts
      <4>1. /\ a = db.nextID /\ db'.accounts[a].balance = Worth(db, d.q, a)
            /\ Worth(db, d.q, a) \in Money
        BY <2>2, <2>4, <2>5, <2>7, <3>2, CallMovesWhatItSays
      <4>2. \A j \in Called : Effect(j, a) = 0
        BY <2>2, <2>3, <4>1 DEF BalancesAreSums
      <4>3. Total(Called, 0, Effects(a)) = 0
        <5>1. \A j \in Called : Effects(a)[j] = 0
          BY <4>2 DEF Effects
        <5>2. IsFiniteSet(Called) /\ 0 \in Money
          BY CalledIsFinite DEF IndInv, Money
        <5> QED BY <5>1, <5>2, TotalOfWorthless
      <4>4. Plus(Worth(db, d.q, a), 0) = Worth(db, d.q, a)
        BY <4>1, PlusCommutes DEF Money
      <4> QED BY <2>6, <4>1, <4>3, <4>4
    <3> QED BY <3>1, <3>2
  <2>8. ASSUME NEW a \in Nat, a >= db'.nextID, NEW j \in Called' PROVE Effect(j, a)' = 0
    <3>1. /\ db'.nextID \in {db.nextID, db.nextID + 1}
          /\ Outcome(db, d.q).err = None /\ d.q.service = "OpenAccount" => db'.nextID = db.nextID + 1
      BY <2>2, <2>3, <2>5, NumberByOutcome
    <3>2. a >= db.nextID /\ a \notin DOMAIN db.accounts
      BY <2>2, <2>3, <2>8, <3>1 DEF Numbered
    <3>3. Worth(db, d.q, a) = 0
      BY <2>2, <2>4, <2>8, <3>1, <3>2, CallMovesWhatItSays
    <3> QED BY <2>3, <2>6, <3>2, <3>3 DEF BalancesAreSums
  <2> QED BY <2>7, <2>8
<1> QED BY <1>1, <1>2, HandlerOrNot

\* With a server that answers at most once, the balance of every account is what the
\* distinct calls of the users add up to, however their datagrams are lost, repeated or
\* delayed, as long as the numbers did not run out (dispatcher.go: the reply history;
\* bank.go: what each operation moves).
THEOREM BalanceIsSumOfCallsAlways == Spec /\ []NumbersLeft => []BalanceIsSumOfCalls
<1>1. Init => BalancesAreSums /\ NumbersGrow
  BY UintAssumption
     DEF Init, NumbersGrow, NumbersLeft, Numbered, EmptyDatabase, AccountNumbersUnique,
         BalancesAreSums, Called
<1>2. BalancesAreSums /\ NumbersLeft => BalanceIsSumOfCalls
  <2>1. ASSUME NEW a PROVE FoldFunction(Plus, 0, [k \in Called |-> Effect(k, a)]) =
                             Total(Called, 0, Effects(a))
    BY FoldIsTotal DEF Effects
  <2> QED BY <2>1 DEF BalancesAreSums, BalanceIsSumOfCalls
<1> QED BY <1>1, <1>2, NumbersGrowNext, BalancesAreSumsNext, IndInvAlways, PTL DEF Spec
=============================================================================
