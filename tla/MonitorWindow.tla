--------------------------- MODULE MonitorWindow ---------------------------
(***************************************************************************)
(* Time in the monitor service: how long the server keeps a subscription   *)
(* (server/internal/monitor/manager.go), how long the client listens on it *)
(* (listen_server in client/src/core/bankClient.cpp), and how long a call  *)
(* takes that has to get through first (send_to_server, with the timeouts  *)
(* of client/src/networkUtils/udpSocket.cpp).                              *)
(*                                                                         *)
(* Register, NotifyAll and evictExpired treat each entry of the subscriber *)
(* map alone, so the module follows one client and the entry of its        *)
(* address.  The requests of the other clients are seen as the updates     *)
(* they cause.  What the calls say is left out (BankingSystem has it).     *)
(*                                                                         *)
(* Each timer holds the time that is left; Tick lets one unit pass on all  *)
(* of them.  Tick waits for whatever is due: a step of the program takes   *)
(* no time and a goroutine or a blocked call wakes when its time comes.    *)
(* A datagram in flight may arrive at any time or never: then it is lost.  *)
(***************************************************************************)
EXTENDS Integers, Sequences, FiniteSets

CONSTANTS
  TIMEOUT,        \* of a receive and of a send: 5 s in the program
  BACKOFF,        \* the first pause between attempts: 2 s
  MAX_TRIES,      \* attempts of a call: 5
  SweepInterval,  \* defaultSweepSeconds: 5 s
  Intervals,      \* the intervals the user may ask to monitor for
  Plain,          \* stands for a call of any other service
  MaxCalls,       \* bound: calls of the client
  MaxUpdates      \* bound: changes of accounts

ASSUME TimeAssumption ==
  /\ TIMEOUT \in Nat \ {0}
  /\ BACKOFF \in Nat \ {0}
  /\ MAX_TRIES \in Nat \ {0}
  /\ SweepInterval \in Nat \ {0}
  /\ Intervals \subseteq Nat
  /\ Plain \notin Nat
  /\ MaxCalls \in Nat
  /\ MaxUpdates \in Nat

VARIABLES
  client,      \* where the client is in send_to_server and listen_server
  asked,       \* what the calls so far asked for: an interval or Plain; the last is current
  try,         \* the loop counter of send_to_server
  pause,       \* cur_backoff
  timer,       \* time left of the client's send, receive or sleep
  listenLeft,  \* time left of the interval listen_server counts; negative in its last receive
  toServer,    \* requests in flight
  toClient,    \* replies and callbacks in flight or in the client's socket buffer
  mode,        \* the server's semantics
  history,     \* the requests whose replies the dispatcher keeps
  registered,  \* whether the client is in the subscriber map
  expiresIn,   \* time left of its entry; negative once it has expired
  entryOf,     \* ghost: the call whose request wrote the entry last; 0 before the first
  sweepLeft,   \* time left until the sweeper's next turn
  updates,     \* the updates so far
  age,         \* ghost: time since the current call began, while the client is not idle
  skips,       \* ghost: callbacks the current call has skipped
  callTook,    \* ghost: how long the call took that the client listens after
  answered     \* ghost: it is the answer to its own request that ended the call

callVars == <<try, pause, skips>>
listenVars == <<listenLeft, callTook, answered>>
clientVars == <<client, asked, timer, age, callVars, listenVars>>
entryVars == <<registered, expiresIn, entryOf>>
serverVars == <<mode, history, entryVars, sweepLeft, updates>>
vars == <<clientVars, toServer, toClient, serverVars>>

Current == Len(asked)

Request(id, t) == [id |-> id, try |-> t]
Reply(id, t) == [type |-> "Reply", id |-> id, try |-> t]
Callback(n) == [type |-> "Callback", id |-> n, try |-> 0]

Init ==
  /\ client = "Idle"
  /\ asked = <<>>
  /\ try = 0
  /\ pause = BACKOFF
  /\ timer = 0
  /\ listenLeft = 0
  /\ toServer = {}
  /\ toClient = {}
  /\ mode \in {"AtLeastOnce", "AtMostOnce"}
  /\ history = {}
  /\ registered = FALSE
  /\ expiresIn = 0
  /\ entryOf = 0
  /\ sweepLeft = SweepInterval
  /\ updates = 0
  /\ age = 0
  /\ skips = 0
  /\ callTook = 0
  /\ answered = FALSE

-----------------------------------------------------------------------------
(* The client.  What is local to a function begins anew when it returns.  *)

\* The user makes a call; send_to_server begins its first attempt.
Call(a) ==
  /\ client = "Idle"
  /\ Current < MaxCalls
  /\ client' = "Sending"
  /\ asked' = Append(asked, a)
  /\ try' = 1
  /\ timer' = TIMEOUT
  /\ UNCHANGED <<pause, skips, age, listenVars, toServer, toClient, serverVars>>

\* send_to_server returns.
EndCall == try' = 0 /\ pause' = BACKOFF /\ skips' = 0

\* The call is over, and the user sees the menu.
BackToMenu == client' = "Idle" /\ timer' = 0 /\ age' = 0

\* Faulty: one attempt too many.
FailOnceMore ==
  /\ IF try <= MAX_TRIES
       THEN client' = "Sleeping" /\ timer' = pause /\ UNCHANGED <<callVars, age>>
       ELSE EndCall /\ BackToMenu
  /\ UNCHANGED <<asked, listenVars, toServer, toClient, serverVars>>

\* An attempt has failed: sleep before the next, or give the call up.
Fail ==
  /\ IF try < MAX_TRIES
       THEN client' = "Sleeping" /\ timer' = pause /\ UNCHANGED <<callVars, age>>
       ELSE EndCall /\ BackToMenu
  /\ UNCHANGED <<asked, listenVars, toServer, toClient, serverVars>>

\* send_message returns: the request is off, and receive_message is called.
Send ==
  /\ client = "Sending"
  /\ client' = "Waiting"
  /\ timer' = TIMEOUT
  /\ toServer' = toServer \cup {Request(Current, try)}
  /\ UNCHANGED <<asked, age, callVars, listenVars, toClient, serverVars>>

\* send_message ends in SEND_FAILED, or in SEND_TIMEOUT when its time is up.
SendFails == client = "Sending" /\ Fail

\* receive_message returns a callback: the loop receives again.
SkipCallback(d) ==
  /\ client = "Waiting"
  /\ d.type = "Callback"
  /\ toClient' = toClient \ {d}
  /\ timer' = TIMEOUT
  /\ skips' = skips + 1
  /\ UNCHANGED <<client, asked, age, try, pause, listenVars, toServer, serverVars>>

\* Faulty: after a timeout the inner loop receives again.
ReceiveAgain ==
  /\ client = "Waiting"
  /\ timer = 0
  /\ timer' = TIMEOUT
  /\ UNCHANGED <<client, asked, age, callVars, listenVars, toServer, toClient, serverVars>>

\* receive_message fails at once (RECEIVE_FAILED) or when its time is up.
ReceiveFails == client = "Waiting" /\ Fail

\* The sleep between two attempts is over.
Wake ==
  /\ client = "Sleeping"
  /\ timer = 0
  /\ client' = "Sending"
  /\ try' = try + 1
  /\ pause' = 2 * pause
  /\ timer' = TIMEOUT
  /\ UNCHANGED <<asked, age, skips, listenVars, toServer, toClient, serverVars>>

\* listen_server begins, and calls receive_message.
StartListening(interval) ==
  /\ client' = "Listening"
  /\ timer' = TIMEOUT
  /\ listenLeft' = interval
  /\ callTook' = age
  /\ UNCHANGED age

\* receive_message returns a reply, which nobody compares with the request.  It
\* ends the call; good tells whether it reads as a success.
TakeReply(d, good) ==
  /\ client = "Waiting"
  /\ d.type = "Reply"
  /\ asked[d.id] # Plain => good
  /\ toClient' = toClient \ {d}
  /\ EndCall
  /\ IF good /\ asked[Current] # Plain /\ asked[Current] > 0
       THEN StartListening(asked[Current]) /\ answered' = (d.id = Current)
       ELSE BackToMenu /\ UNCHANGED listenVars
  /\ UNCHANGED <<asked, toServer, serverVars>>

\* listen_server returns.
EndListening == BackToMenu /\ listenLeft' = 0 /\ callTook' = 0 /\ answered' = FALSE

\* Faulty: the clock is read again before each receive.
HeardRestarts ==
  /\ client = "Listening"
  /\ IF listenLeft > 0
       THEN timer' = TIMEOUT /\ listenLeft' = asked[Current]
              /\ UNCHANGED <<client, age, callTook, answered>>
       ELSE EndListening
  /\ UNCHANGED <<asked, callVars, toServer, serverVars>>

\* Faulty: a receive whose time is up ends the loop.
HeardBreaks ==
  /\ client = "Listening"
  /\ IF listenLeft > 0 /\ timer > 0
       THEN timer' = TIMEOUT /\ UNCHANGED <<client, age, listenVars>>
       ELSE EndListening
  /\ UNCHANGED <<asked, callVars, toServer, serverVars>>

\* A receive of listen_server has ended; it starts another while its interval lasts.
Heard ==
  /\ client = "Listening"
  /\ IF listenLeft > 0
       THEN timer' = TIMEOUT /\ UNCHANGED <<client, age, listenVars>>
       ELSE EndListening
  /\ UNCHANGED <<asked, callVars, toServer, serverVars>>

\* It returned a datagram: a callback is shown, any other is dropped.
Hear(d) == Heard /\ toClient' = toClient \ {d}

\* It failed, at once or when its time was up.
HearNothing == Heard /\ UNCHANGED toClient

-----------------------------------------------------------------------------
(* The server and the network. *)

Expired == registered /\ expiresIn < 0

\* Faulty: an entry that is there is kept.
RegisterOnce(k) ==
  /\ registered' = TRUE
  /\ expiresIn' = IF registered THEN expiresIn ELSE asked[k]
  /\ entryOf' = k

\* Register puts the client into the map for what call k asked, over any entry it has there.
Register(k) ==
  /\ registered' = TRUE
  /\ expiresIn' = asked[k]
  /\ entryOf' = k

Evict ==
  /\ registered' = FALSE
  /\ expiresIn' = 0
  /\ UNCHANGED entryOf

\* Dispatch: under at-most-once a request that was answered before is answered from
\* the history; otherwise the handler runs, and a Monitor request registers.
Serve(r) ==
  /\ r \in toServer
  /\ toServer' = toServer \ {r}
  /\ toClient' = toClient \cup {Reply(r.id, r.try)}
  /\ IF mode = "AtMostOnce" /\ r.id \in history
       THEN UNCHANGED <<history, entryVars>>
       ELSE /\ history' = IF mode = "AtMostOnce" THEN history \cup {r.id} ELSE history
            /\ IF asked[r.id] # Plain
                 THEN Register(r.id)
                 ELSE UNCHANGED entryVars
  /\ UNCHANGED <<clientVars, mode, sweepLeft, updates>>

\* Faulty: nothing is sent in the last instant of an entry.
NotifyBefore ==
  /\ updates < MaxUpdates
  /\ updates' = updates + 1
  /\ IF Expired
       THEN Evict /\ UNCHANGED toClient
       ELSE /\ toClient' = toClient \cup
                 IF registered /\ expiresIn > 0 THEN {Callback(updates')} ELSE {}
            /\ UNCHANGED entryVars
  /\ UNCHANGED <<clientVars, toServer, mode, history, sweepLeft>>

\* A request, mostly another client's, changes an account: NotifyAll sends the callback
\* to whoever is registered, and removes whoever has expired.
NotifyAll ==
  /\ updates < MaxUpdates
  /\ updates' = updates + 1
  /\ IF Expired
       THEN Evict /\ UNCHANGED toClient
       ELSE /\ toClient' = toClient \cup IF registered THEN {Callback(updates')} ELSE {}
            /\ UNCHANGED entryVars
  /\ UNCHANGED <<clientVars, toServer, mode, history, sweepLeft>>

\* Faulty: the sweeper leaves entries that expired since its last turn to NotifyAll.
EvictOld ==
  /\ sweepLeft = 0
  /\ sweepLeft' = SweepInterval
  /\ IF Expired /\ expiresIn < -SweepInterval
       THEN Evict ELSE UNCHANGED entryVars
  /\ UNCHANGED <<clientVars, toServer, toClient, mode, history, updates>>

\* The sweeper's ticker fires.
EvictExpired ==
  /\ sweepLeft = 0
  /\ sweepLeft' = SweepInterval
  /\ IF Expired THEN Evict ELSE UNCHANGED entryVars
  /\ UNCHANGED <<clientVars, toServer, toClient, mode, history, updates>>

\* One unit of time passes.
Tick ==
  /\ client # "Idle" => timer > 0
  /\ sweepLeft > 0
  /\ sweepLeft' = sweepLeft - 1
  /\ expiresIn' = IF registered THEN expiresIn - 1 ELSE expiresIn
  /\ timer' = IF client = "Idle" THEN timer ELSE timer - 1
  /\ age' = IF client = "Idle" THEN age ELSE age + 1
  /\ listenLeft' = IF client = "Listening" THEN listenLeft - 1 ELSE listenLeft
  /\ UNCHANGED <<client, asked, callVars, callTook, answered, toServer, toClient, mode,
                 history, registered, entryOf, updates>>

-----------------------------------------------------------------------------

Client ==
  \/ \E a \in Intervals \cup {Plain} : Call(a)
  \/ Send
  \/ SendFails
  \/ \E d \in toClient : SkipCallback(d)
  \/ ReceiveFails
  \/ Wake
  \/ \E d \in toClient, good \in BOOLEAN : TakeReply(d, good)
  \/ \E d \in toClient : Hear(d)
  \/ HearNothing

Server ==
  \/ \E r \in toServer : Serve(r)
  \/ NotifyAll
  \/ EvictExpired

Next == Client \/ Server \/ Tick

Spec == Init /\ [][Next]_vars

-----------------------------------------------------------------------------
(* Properties. *)

FlagsOK == registered \in BOOLEAN /\ answered \in BOOLEAN

\* Every variable stays in its range, and every datagram is about a call that was
\* made or an update that happened.
TypeOK ==
  /\ client \in {"Idle", "Sending", "Waiting", "Sleeping", "Listening"}
  /\ asked \in Seq(Intervals \cup {Plain})
  /\ try \in 0..MAX_TRIES
  /\ pause \in Nat
  /\ timer \in Nat
  /\ listenLeft \in Int
  /\ callTook \in Nat
  /\ \A r \in toServer : r.id \in 1..Current /\ r.try \in 1..MAX_TRIES
  /\ \A d \in toClient : \/ d.type = "Reply" /\ d.id \in 1..Current
                         \/ d.type = "Callback" /\ d.id \in 1..updates
  /\ mode \in {"AtLeastOnce", "AtMostOnce"}
  /\ history \subseteq 1..Current
  /\ expiresIn \in Int
  /\ entryOf \in 0..Current
  /\ entryOf > 0 => asked[entryOf] # Plain
  /\ sweepLeft \in 0..SweepInterval
  /\ updates \in Nat
  /\ age \in Nat
  /\ skips \in Nat
  /\ FlagsOK

\* From the beginning of the current call on, the subscription covers what the request
\* asked for that wrote the client's entry last.
Covered ==
  /\ entryOf > 0
  /\ \/ age > asked[entryOf]
     \/ registered /\ expiresIn >= asked[entryOf] - age

\* A client that listens on the answer to its Monitor call is covered, though a repeated
\* request is answered without a new Register (dispatcher.go:103) and an expired entry
\* may be removed at any moment: what the server's interval began before the client's is
\* no more than the call took.  The interval is the call's own, unless an older Monitor
\* request of the client arrived after the call's: Register overwrites the entry
\* (manager.go:54), and then it is the older one's.
SubscriptionCoversListener ==
  client = "Listening" /\ answered => Covered

\* An update that happens while such a client listens, before that interval counted
\* from its call is over, is sent to it: NotifyAll has it in the map.
UpdatesReachListener ==
  [][ updates' # updates /\ client = "Listening" /\ answered /\ age <= asked[entryOf]
      => Callback(updates') \in toClient' ]_vars

\* listen_server ends less than one receive timeout after its interval, whatever
\* arrives and fails meanwhile: nothing may restart the interval.
ListeningIsBounded ==
  client = "Listening" => age - callTook < asked[Current] + TIMEOUT

\* And not before its interval is over: no reply and no failed receive cuts it short.
ListensToTheEnd ==
  [][ client = "Listening" /\ client' # "Listening"
      => age - callTook >= asked[Current] ]_vars

\* 2^n.
PowerOfTwo[n \in 0..MAX_TRIES] == IF n = 0 THEN 1 ELSE 2 * PowerOfTwo[n - 1]

\* A call lasts no longer than its sends, receives and pauses, plus a receive for each
\* callback it skips (bankClient.cpp:369): only callbacks can hold it up.
CallIsBounded ==
  client \in {"Sending", "Waiting", "Sleeping"} =>
    age <= 2 * MAX_TRIES * TIMEOUT + BACKOFF * (PowerOfTwo[MAX_TRIES - 1] - 1) + skips * TIMEOUT

\* An entry stays in the map no longer than a sweep interval after it expired, also
\* when no update comes.
LapsedGoneInTime == registered => expiresIn >= -SweepInterval
=============================================================================
