----------------------- MODULE MonitorWindow_proofs -----------------------
(***************************************************************************)
(* Proofs about MonitorWindow: for any timeouts, intervals and numbers of  *)
(* calls, a client that listens on the answer to its Monitor call is       *)
(* covered by the entry that was written last and sent the updates, and    *)
(* listens for its interval and not much longer; no entry stays behind,    *)
(* and a call is bounded but for the callbacks it skips.                   *)
(***************************************************************************)
EXTENDS MonitorWindow, Recursion_proofs

\* The entry goes with the sweep after it expired: the sweeper's timer says how long
\* ago the last sweep was, which left no expired entry.
SweptInTime == registered => expiresIn >= sweepLeft - SweepInterval

\* There is an answer to the current call: kept, on its way or taken.
CurrentAnswered ==
  \/ Current \in history
  \/ \E d \in toClient : d.type = "Reply" /\ d.id = Current
  \/ client = "Listening" /\ answered

\* A Monitor call that has an answer has made the server register the client, and
\* nothing that happened since has taken it out of the map too early.
AnsweredIsCovered ==
  client # "Idle" /\ asked[Current] # Plain /\ CurrentAnswered => Covered

\* What is left of the client's interval, and of the receive it is in, which it
\* started while there was something left.
ListeningTime ==
  client = "Listening" =>
    /\ asked[Current] # Plain
    /\ listenLeft = asked[Current] - (age - callTook)
    /\ listenLeft - timer > -TIMEOUT

\* A client that is not at its menu is at work on a call.
AtWork == client # "Idle" => Current >= 1 /\ try <= MAX_TRIES

\* Outside listen_server the first attempt has been begun.
Trying == client \in {"Sending", "Waiting", "Sleeping"} => try >= 1 /\ (client = "Sleeping" => try < MAX_TRIES)

\* What the attempts of a call so far, the one under way included, may take.
Attempts(n) == n * TIMEOUT + skips * TIMEOUT

\* The pauses of a call double; their sum is the next one less the first.  So the time
\* since the call began, and what is left of its send, receive or pause, is bounded.
CallTime ==
  /\ client \in {"Idle", "Listening"} => pause = BACKOFF /\ skips = 0
  /\ client = "Idle" => age = 0
  /\ client \in {"Sending", "Waiting", "Sleeping"} => pause = BACKOFF * PowerOfTwo[try - 1]
  /\ client = "Sending" => age + timer <= Attempts(2 * try - 1) + pause - BACKOFF
  /\ client = "Waiting" => age + timer <= Attempts(2 * try) + pause - BACKOFF
  /\ client = "Sleeping" => age + timer <= Attempts(2 * try) + 2 * pause - BACKOFF

IndInv ==
  /\ TypeOK
  /\ AtWork
  /\ Trying
  /\ SweptInTime
  /\ AnsweredIsCovered
  /\ ListeningTime
  /\ CallTime

-----------------------------------------------------------------------------

\* The powers of two by their recursion.
LEMMA Powers ==
  /\ PowerOfTwo[0] = 1
  /\ \A n \in 1..MAX_TRIES : PowerOfTwo[n] = 2 * PowerOfTwo[n - 1]
<1> DEFINE twice == [x \in Nat |-> 2 * x]
<1>1. MAX_TRIES \in Nat /\ 1 \in Nat /\ twice \in [Nat -> Nat]
  BY TimeAssumption
<1>2. PICK f \in [0..MAX_TRIES -> Nat] : Recursion(f, MAX_TRIES, 1, twice)
  <2> HIDE DEF twice
  <2> QED
    BY <1>1, RecursionUpTo
<1>3. ASSUME NEW n \in 0..MAX_TRIES
      PROVE  f[n] = IF n = 0 THEN 1 ELSE 2 * f[n - 1]
  <2>1. f[n] = IF n = 0 THEN 1 ELSE twice[f[n - 1]]
    BY <1>2 DEF Recursion
  <2>2. n # 0 => f[n - 1] \in Nat
    BY <1>1
  <2> QED
    BY <2>1, <2>2
<1>4. f = [n \in 0..MAX_TRIES |-> IF n = 0 THEN 1 ELSE 2 * f[n - 1]]
  BY <1>3
<1>5. PowerOfTwo = [n \in 0..MAX_TRIES |-> IF n = 0 THEN 1 ELSE 2 * PowerOfTwo[n - 1]]
  BY <1>4 DEF PowerOfTwo
<1>6. \A n \in 0..MAX_TRIES : PowerOfTwo[n] = IF n = 0 THEN 1 ELSE 2 * PowerOfTwo[n - 1]
  BY <1>5
<1> QED
  BY <1>1, <1>6

\* The powers of two are positive and grow.
LEMMA PowersGrow ==
  ASSUME NEW n \in 0..MAX_TRIES, NEW m \in 0..n
  PROVE  PowerOfTwo[m] \in Nat /\ PowerOfTwo[n] \in Nat /\ PowerOfTwo[m] <= PowerOfTwo[n]
<1> DEFINE Good(k) == k <= MAX_TRIES => /\ PowerOfTwo[k] \in Nat
                                        /\ \A j \in 0..k : PowerOfTwo[j] \in Nat /\ PowerOfTwo[j] <= PowerOfTwo[k]
           P == {k \in Nat : Good(k)}
<1>1. 0 \in P
  BY Powers
<1>2. ASSUME NEW k \in Nat, k \in P PROVE k + 1 \in P
  <2>1. ASSUME k + 1 <= MAX_TRIES PROVE Good(k + 1)
    <3>1. k + 1 \in 1..MAX_TRIES /\ (k + 1) - 1 = k /\ k <= MAX_TRIES
      BY <2>1, TimeAssumption
    <3>2. PowerOfTwo[k + 1] = 2 * PowerOfTwo[k]
      BY <3>1, Powers
    <3>3. PowerOfTwo[k] \in Nat /\ \A j \in 0..k : PowerOfTwo[j] \in Nat /\ PowerOfTwo[j] <= PowerOfTwo[k]
      BY <1>2, <3>1
    <3>4. ASSUME NEW j \in 0..k + 1 PROVE PowerOfTwo[j] \in Nat /\ PowerOfTwo[j] <= PowerOfTwo[k + 1]
      <4>1. CASE j \in 0..k
        BY <3>2, <3>3, <4>1
      <4>2. CASE j = k + 1
        BY <3>2, <3>3, <4>2
      <4> QED
        BY <4>1, <4>2
    <3> QED
      BY <3>2, <3>3, <3>4
  <2> QED
    BY <2>1
<1>3. Nat \subseteq P
  <2> HIDE DEF P
  <2> QED
    BY <1>1, <1>2, NumberInduction
<1> QED
  BY <1>3, TimeAssumption

-----------------------------------------------------------------------------

\* The initial states satisfy the invariant.
LEMMA InitIndInv == Init => IndInv
<1> SUFFICES ASSUME Init PROVE IndInv
  OBVIOUS
<1>1. FlagsOK
  BY DEF Init, FlagsOK
<1>2. asked \in Seq(Intervals \cup {Plain}) /\ Len(asked) = 0
  BY DEF Init
<1>3. TypeOK
  BY <1>1, <1>2, TimeAssumption DEF Init, TypeOK, Current
<1>4. AtWork /\ Trying /\ SweptInTime /\ AnsweredIsCovered /\ ListeningTime
  BY TimeAssumption DEF Init, AtWork, Trying, SweptInTime, AnsweredIsCovered, ListeningTime
<1>5. PowerOfTwo[0] = 1 /\ CallTime
  BY Powers, TimeAssumption DEF Init, CallTime
<1> QED
  BY <1>3, <1>4, <1>5 DEF IndInv

\* The two flags stay Boolean.
LEMMA FlagsStep == FlagsOK /\ [Next]_vars => FlagsOK'
<1> SUFFICES ASSUME FlagsOK, [Next]_vars PROVE FlagsOK'
  OBVIOUS
<1> USE DEF FlagsOK, clientVars, serverVars, entryVars, callVars, listenVars
<1>1. ASSUME NEW a, Call(a) PROVE FlagsOK'
  BY <1>1 DEF Call
<1>2. CASE Send \/ SendFails \/ ReceiveFails \/ Wake
  BY <1>2 DEF Send, SendFails, ReceiveFails, Fail, Wake
<1>3. ASSUME NEW d, SkipCallback(d) PROVE FlagsOK'
  BY <1>3 DEF SkipCallback
<1>4. ASSUME NEW d, NEW good, TakeReply(d, good) PROVE FlagsOK'
  BY <1>4 DEF TakeReply
<1>5. CASE Heard
  BY <1>5 DEF Heard, EndListening
<1>6. ASSUME NEW r, Serve(r) PROVE FlagsOK'
  BY <1>6 DEF Serve, Register
<1>7. CASE NotifyAll \/ EvictExpired
  BY <1>7 DEF NotifyAll, EvictExpired, Evict
<1>8. CASE Tick
  BY <1>8 DEF Tick
<1>9. CASE UNCHANGED vars
  BY <1>9 DEF vars
<1> QED
  BY <1>1, <1>2, <1>3, <1>4, <1>5, <1>6, <1>7, <1>8, <1>9 DEF Next, Client, Server, Hear, HearNothing

\* A call that is not a plain one asked for a length of time.
LEMMA AskedIsTime ==
  ASSUME asked \in Seq(Intervals \cup {Plain}), NEW k \in 1..Current, asked[k] # Plain
  PROVE  asked[k] \in Nat
<1>1. asked[k] \in Intervals \cup {Plain}
  BY DEF Current
<1>2. asked[k] \in Intervals
  BY <1>1
<1> QED
  BY <1>2, TimeAssumption

\* Every step keeps the variables in their ranges.
LEMMA TypeStep == TypeOK /\ AtWork /\ Trying /\ [Next]_vars => (TypeOK /\ AtWork /\ Trying)'
<1> SUFFICES ASSUME TypeOK, AtWork, Trying, [Next]_vars PROVE (TypeOK /\ AtWork /\ Trying)'
  OBVIOUS
<1>0. FlagsOK'
  BY FlagsStep DEF TypeOK
<1> USE <1>0, TimeAssumption DEF TypeOK, AtWork, Trying, Current, clientVars, serverVars, entryVars, callVars, listenVars
<1>1. ASSUME NEW a \in Intervals \cup {Plain}, Call(a) PROVE (TypeOK /\ AtWork /\ Trying)'
  <2>1. asked' \in Seq(Intervals \cup {Plain}) /\ Len(asked') = Len(asked) + 1
    BY <1>1 DEF Call
  <2>2. 1..Len(asked) \subseteq 1..Len(asked')
    BY <2>1
  <2> QED
    BY <1>1, <2>1, <2>2 DEF Call
<1>2. CASE Send
  BY <1>2 DEF Send, Request
<1>3. CASE SendFails
  BY <1>3 DEF SendFails, Fail, EndCall, BackToMenu
<1>4. ASSUME NEW d \in toClient, SkipCallback(d) PROVE (TypeOK /\ AtWork /\ Trying)'
  BY <1>4 DEF SkipCallback
<1>5. CASE ReceiveFails
  BY <1>5 DEF ReceiveFails, Fail, EndCall, BackToMenu
<1>6. CASE Wake
  BY <1>6 DEF Wake
<1>7. ASSUME NEW d \in toClient, NEW good \in BOOLEAN, TakeReply(d, good)
      PROVE  (TypeOK /\ AtWork /\ Trying)'
  <2>1. client = "Waiting" /\ toClient' \subseteq toClient /\ EndCall
        /\ UNCHANGED <<asked, toServer, serverVars>>
    BY <1>7 DEF TakeReply
  <2>2. CASE StartListening(asked[Current]) /\ asked[Current] # Plain
    <3>1. asked[Current] \in Nat
      <4>1. Current \in 1..Current
        BY <1>7 DEF TakeReply
      <4> QED
        BY <2>2, <4>1, AskedIsTime
    <3> QED
      BY <2>1, <2>2, <3>1 DEF StartListening, EndCall
  <2>3. CASE BackToMenu /\ UNCHANGED listenVars
    BY <2>1, <2>3 DEF BackToMenu, EndCall
  <2> QED
    BY <1>7, <2>2, <2>3 DEF TakeReply
<1>8. ASSUME NEW d \in toClient, Hear(d) PROVE (TypeOK /\ AtWork /\ Trying)'
  BY <1>8 DEF Hear, Heard, EndListening, BackToMenu
<1>9. CASE HearNothing
  BY <1>9 DEF HearNothing, Heard, EndListening, BackToMenu
<1>10. ASSUME NEW r \in toServer, Serve(r) PROVE (TypeOK /\ AtWork /\ Trying)'
  <2>1. r.id \in 1..Current /\ (asked[r.id] # Plain => asked[r.id] \in Nat)
    BY AskedIsTime
  <2>2. /\ expiresIn' \in Int /\ entryOf' \in 0..Current
        /\ entryOf' > 0 => asked[entryOf'] # Plain
    BY <1>10, <2>1 DEF Serve, Register
  <2>3. history' \subseteq 1..Current
    BY <1>10, <2>1 DEF Serve
  <2>4. \A d \in toClient' : d \in toClient \/ (d.type = "Reply" /\ d.id \in 1..Current)
    BY <1>10, <2>1 DEF Serve, Reply
  <2>5. toServer' \subseteq toServer /\ UNCHANGED <<clientVars, mode, sweepLeft, updates>>
    BY <1>10 DEF Serve
  <2> QED
    BY <2>2, <2>3, <2>4, <2>5
<1>11. CASE NotifyAll
  BY <1>11 DEF NotifyAll, Evict, Callback
<1>12. CASE EvictExpired
  BY <1>12 DEF EvictExpired, Evict
<1>13. CASE Tick
  BY <1>13 DEF Tick
<1>14. CASE UNCHANGED vars
  BY <1>14 DEF vars
<1> QED
  BY <1>1, <1>2, <1>3, <1>4, <1>5, <1>6, <1>7, <1>8, <1>9, <1>10, <1>11, <1>12, <1>13, <1>14
     DEF Next, Client, Server

\* The sweeper's clock and the entry's run alike; a turn of the sweeper leaves no
\* expired entry, and Register never makes one.
LEMMA SweptStep == TypeOK /\ SweptInTime /\ [Next]_vars => SweptInTime'
<1> SUFFICES ASSUME TypeOK, SweptInTime, [Next]_vars PROVE SweptInTime'
  OBVIOUS
<1> USE TimeAssumption DEF SweptInTime, clientVars, serverVars, entryVars, callVars, listenVars
<1>0. expiresIn \in Int /\ sweepLeft \in 0..SweepInterval
  BY DEF TypeOK
<1>1. CASE UNCHANGED serverVars
  BY <1>1
<1>2. ASSUME NEW r \in toServer, Serve(r) PROVE SweptInTime'
  <2>1. CASE UNCHANGED <<registered, expiresIn>>
    BY <1>2, <2>1 DEF Serve
  <2>2. CASE Register(r.id) /\ asked[r.id] # Plain
    <3>1. asked[r.id] \in Nat
      BY <2>2, AskedIsTime DEF TypeOK
    <3> QED
      BY <1>0, <1>2, <2>2, <3>1 DEF Serve, Register
  <2> QED
    BY <1>2, <2>1, <2>2 DEF Serve
<1>3. CASE NotifyAll
  BY <1>3 DEF NotifyAll, Evict
<1>4. CASE EvictExpired
  <2>1. CASE Expired
    BY <1>4, <2>1 DEF EvictExpired, Evict
  <2>2. CASE ~Expired
    <3>1. registered => expiresIn >= 0
      BY <1>0, <2>2 DEF Expired
    <3>2. sweepLeft' = SweepInterval /\ registered' = registered /\ expiresIn' = expiresIn
      BY <1>4, <2>2 DEF EvictExpired
    <3> QED
      BY <1>0, <3>1, <3>2
  <2> QED
    BY <2>1, <2>2
<1>5. CASE Tick
  BY <1>0, <1>5 DEF Tick
<1>6. Client => UNCHANGED serverVars
  BY DEF Client, Call, Send, SendFails, ReceiveFails, Fail, SkipCallback, Wake, TakeReply, Heard,
         Hear, HearNothing
<1> QED
  BY <1>1, <1>2, <1>3, <1>4, <1>5, <1>6 DEF Next, Server, vars

\* Whoever is removed from the map had expired, so an interval that was covered when
\* the entry was there is over.
LEMMA EvictKeepsCovered ==
  ASSUME TypeOK, Covered, Expired, Evict, UNCHANGED <<asked, age>>
  PROVE  Covered'
<1>1. entryOf > 0 /\ asked[entryOf] \in Nat
  BY AskedIsTime DEF TypeOK, Covered
<1>2. age > asked[entryOf]
  BY <1>1 DEF TypeOK, Covered, Expired
<1> QED
  BY <1>1, <1>2 DEF Covered, Evict

\* While the client is at one call, what was covered stays so.
LEMMA CoveredStep ==
  ASSUME TypeOK, Covered, [Next]_vars, asked' = asked, client # "Idle", client' # "Idle"
  PROVE  Covered'
<1> USE DEF clientVars, serverVars, entryVars, callVars, listenVars
<1>0. entryOf > 0 /\ asked[entryOf] \in Nat
  BY AskedIsTime DEF TypeOK, Covered
<1>1. CASE UNCHANGED <<entryVars, age>>
  BY <1>1 DEF Covered
<1>2. Client => UNCHANGED <<entryVars, age>>
  BY DEF Client, Call, Send, SendFails, ReceiveFails, Fail, SkipCallback, Wake, TakeReply, Heard,
         Hear, HearNothing, StartListening, EndListening, BackToMenu
<1>3. ASSUME NEW r \in toServer, Serve(r) PROVE Covered'
  <2>1. CASE Register(r.id) /\ asked[r.id] # Plain
    <3>1. r.id \in 1..Current /\ asked[r.id] \in Nat
      BY <2>1, AskedIsTime DEF TypeOK
    <3>2. registered' /\ expiresIn' = asked[r.id] /\ entryOf' = r.id /\ age' = age /\ age \in Nat
      BY <1>3, <2>1 DEF Serve, Register, TypeOK
    <3> QED
      BY <3>1, <3>2 DEF Covered
  <2> QED
    BY <1>1, <1>3, <2>1 DEF Serve
<1>4. CASE NotifyAll
  BY <1>1, <1>4, EvictKeepsCovered DEF NotifyAll
<1>5. CASE EvictExpired
  BY <1>1, <1>5, EvictKeepsCovered DEF EvictExpired
<1>6. CASE Tick
  <2>1. entryOf' = entryOf /\ registered' = registered /\ age' = age + 1
        /\ (registered => expiresIn' = expiresIn - 1)
    BY <1>6 DEF Tick
  <2> QED
    BY <1>0, <2>1 DEF Covered, TypeOK
<1> QED
  BY <1>1, <1>2, <1>3, <1>4, <1>5, <1>6 DEF Next, Server, vars

\* A step that answers the current call leaves it covered.
LEMMA AnsweredStep ==
  ASSUME TypeOK, AtWork, AnsweredIsCovered, [Next]_vars
  PROVE  AnsweredIsCovered'
<1> SUFFICES ASSUME client' # "Idle", asked'[Current'] # Plain, CurrentAnswered' PROVE Covered'
  BY DEF AnsweredIsCovered
<1> USE DEF clientVars, serverVars, entryVars, callVars, listenVars
<1>1. ASSUME NEW a, Call(a) PROVE FALSE
  <2>1. Current' = Current + 1 /\ Current \in Nat
    BY <1>1 DEF Call, Current, TypeOK
  <2>2. UNCHANGED <<history, toClient>> /\ client' = "Sending"
    BY <1>1 DEF Call
  <2> QED
    BY <2>1, <2>2 DEF CurrentAnswered, TypeOK
<1>2. CASE asked' = asked /\ client # "Idle"
  <2>1. CASE CurrentAnswered
    BY <1>2, <2>1, CoveredStep DEF AnsweredIsCovered, Current
  <2>2. CASE ~CurrentAnswered
    <3>1. ASSUME NEW r \in toServer, Serve(r) PROVE Covered'
      <4>1. r.id = Current /\ ~(mode = "AtMostOnce" /\ r.id \in history)
        BY <1>2, <2>2, <3>1 DEF Serve, Reply, CurrentAnswered, Current
      <4>2. Register(Current) /\ age' = age
        BY <1>2, <3>1, <4>1 DEF Serve, Current
      <4>3. Current \in 1..Current /\ asked[Current] \in Nat
        BY <1>2, <3>1, <4>1, AskedIsTime DEF TypeOK, Current
      <4> QED
        BY <1>2, <4>2, <4>3 DEF Covered, Register, TypeOK
    <3>2. CASE NotifyAll
      BY <1>2, <2>2, <3>2 DEF NotifyAll, Callback, CurrentAnswered, Current
    <3>3. ASSUME NEW d \in toClient, NEW good, TakeReply(d, good) PROVE FALSE
      BY <1>2, <2>2, <3>3 DEF TakeReply, StartListening, BackToMenu, CurrentAnswered, Current
    <3>4. CASE UNCHANGED <<history>> /\ toClient' \subseteq toClient /\ UNCHANGED answered
               /\ (client' = "Listening" => client = "Listening")
      BY <1>2, <2>2, <3>4 DEF CurrentAnswered, Current
    <3> QED
      BY <1>1, <1>2, <3>1, <3>2, <3>3, <3>4
         DEF Next, Client, Server, Send, SendFails, SkipCallback, ReceiveFails, Fail, Wake, Hear,
             HearNothing, Heard, EndListening, BackToMenu, EvictExpired, Tick, vars
  <2> QED
    BY <2>1, <2>2
<1>3. asked' = asked \/ \E a : Call(a)
  BY DEF Next, Client, Server, Send, SendFails, SkipCallback, ReceiveFails, Fail, Wake, TakeReply, Hear,
         HearNothing, Heard, Serve, NotifyAll, EvictExpired, Tick, vars
<1>4. client # "Idle" \/ client' = "Idle" \/ \E a : Call(a)
  BY DEF Next, Client, Server, Send, SendFails, SkipCallback, ReceiveFails, Fail, Wake, TakeReply, Hear,
         HearNothing, Heard, Serve, NotifyAll, EvictExpired, Tick, vars
<1> QED
  BY <1>1, <1>2, <1>3, <1>4

\* The client's clock: a receive starts only while the interval lasts, and every timer
\* runs down with the time that has passed.
LEMMA ListeningStep ==
  ASSUME TypeOK, AtWork, ListeningTime, [Next]_vars
  PROVE  ListeningTime'
<1> USE TimeAssumption DEF ListeningTime, clientVars, serverVars, entryVars, callVars, listenVars
<1>0. age \in Nat /\ callTook \in Nat /\ timer \in Nat /\ listenLeft \in Int
  BY DEF TypeOK
<1>1. CASE UNCHANGED clientVars
  BY <1>1 DEF Current
<1>2. CASE client' # "Listening"
  BY <1>2
<1>3. ASSUME NEW d \in toClient, NEW good, TakeReply(d, good), client' = "Listening"
      PROVE  ListeningTime'
  <2>1. StartListening(asked[Current]) /\ asked[Current] # Plain /\ asked[Current] > 0 /\ asked' = asked
    BY <1>3 DEF TakeReply, BackToMenu
  <2>2. Current \in 1..Current
    BY <1>3 DEF TakeReply, AtWork, TypeOK, Current
  <2>3. asked[Current] \in Nat
    BY <2>1, <2>2, AskedIsTime DEF TypeOK
  <2> QED
    BY <1>0, <2>1, <2>3 DEF StartListening, Current
<1>4. CASE Heard
  <2>1. client = "Listening" /\ asked' = asked
    BY <1>4 DEF Heard
  <2>2. CASE listenLeft > 0
    BY <1>0, <1>4, <2>1, <2>2 DEF Heard, Current
  <2> QED
    BY <1>2, <1>4, <2>2 DEF Heard, EndListening, BackToMenu
<1>5. CASE Tick
  <2>1. client' = client /\ asked' = asked /\ callTook' = callTook
    BY <1>5 DEF Tick
  <2>2. CASE client = "Listening"
    <3>1. Current \in 1..Current /\ asked[Current] \in Nat
      BY <2>2, AskedIsTime DEF AtWork, TypeOK, Current
    <3> QED
      BY <1>0, <1>5, <2>1, <2>2, <3>1 DEF Tick, Current
  <2> QED
    BY <1>2, <2>1, <2>2
<1>6. Server => UNCHANGED clientVars
  BY DEF Server, Serve, NotifyAll, EvictExpired
<1> QED
  BY <1>1, <1>2, <1>3, <1>4, <1>5, <1>6
     DEF Next, Client, Call, Send, SendFails, SkipCallback, ReceiveFails, Fail, BackToMenu, Wake,
         Hear, HearNothing, vars

\* A call's clock: each attempt starts its timers anew, and the pause before the next
\* attempt is as long as all the pauses before it and one more first pause.
LEMMA CallTimeStep ==
  ASSUME TypeOK, AtWork, Trying, CallTime, [Next]_vars
  PROVE  CallTime'
<1> USE TimeAssumption DEF clientVars, serverVars, entryVars, callVars, listenVars
<1>0. age \in Nat /\ timer \in Nat /\ skips \in Nat /\ pause \in Nat /\ try \in 0..MAX_TRIES
  BY DEF TypeOK
<1>1. CASE UNCHANGED <<client, age, timer, callVars>>
  BY <1>1 DEF CallTime, Attempts
<1>2. ASSUME client' \in {"Idle", "Listening"}, pause' = BACKOFF, skips' = 0, client' = "Idle" => age' = 0
      PROVE  CallTime'
  BY <1>2 DEF CallTime
<1>3. ASSUME NEW a, Call(a) PROVE CallTime'
  <2>1. /\ client' = "Sending" /\ try' = 1 /\ timer' = TIMEOUT
        /\ pause' = BACKOFF /\ skips' = 0 /\ age' = 0
    BY <1>3 DEF Call, CallTime
  <2>2. PowerOfTwo[try' - 1] = 1
    BY <2>1, Powers
  <2> QED
    BY <2>1, <2>2 DEF CallTime, Attempts
<1>4. CASE Send
  <2>1. /\ client = "Sending" /\ client' = "Waiting" /\ timer' = TIMEOUT
        /\ try' = try /\ pause' = pause /\ skips' = skips /\ age' = age
    BY <1>4 DEF Send
  <2>2. Attempts(2 * try) = Attempts(2 * try - 1) + TIMEOUT
    BY <1>0 DEF Attempts
  <2>3. Attempts(2 * try) \in Int /\ Attempts(2 * try - 1) \in Int
    BY <1>0 DEF Attempts
  <2>4. Attempts(2 * try)' = Attempts(2 * try)
    BY <2>1 DEF Attempts
  <2> QED
    BY <1>0, <2>1, <2>2, <2>3, <2>4 DEF CallTime
<1>5. CASE (client = "Sending" \/ client = "Waiting") /\ Fail /\ client' = "Sleeping"
  <2>1. /\ try < MAX_TRIES /\ timer' = pause
        /\ try' = try /\ pause' = pause /\ skips' = skips /\ age' = age
    BY <1>5 DEF Fail, BackToMenu
  <2>2. Attempts(2 * try) = Attempts(2 * try - 1) + TIMEOUT
    BY <1>0 DEF Attempts
  <2>3. Attempts(2 * try) \in Int /\ Attempts(2 * try - 1) \in Int
    BY <1>0 DEF Attempts
  <2>4. Attempts(2 * try)' = Attempts(2 * try)
    BY <2>1 DEF Attempts
  <2> QED
    BY <1>0, <1>5, <2>1, <2>2, <2>3, <2>4 DEF CallTime
<1>6. CASE Fail /\ client' # "Sleeping"
  BY <1>2, <1>6 DEF Fail, EndCall, BackToMenu
<1>7. ASSUME NEW d, SkipCallback(d) PROVE CallTime'
  <2>1. /\ client = "Waiting" /\ client' = "Waiting" /\ timer' = TIMEOUT
        /\ try' = try /\ pause' = pause /\ skips' = skips + 1 /\ age' = age
    BY <1>7 DEF SkipCallback
  <2>2. Attempts(2 * try)' = Attempts(2 * try) + TIMEOUT /\ Attempts(2 * try) \in Int
    BY <1>0, <2>1 DEF Attempts
  <2> QED
    BY <1>0, <2>1, <2>2 DEF CallTime
<1>8. CASE Wake
  <2>1. /\ client = "Sleeping" /\ client' = "Sending" /\ timer = 0 /\ timer' = TIMEOUT
        /\ try' = try + 1 /\ pause' = 2 * pause /\ skips' = skips /\ age' = age
    BY <1>8 DEF Wake
  <2>2. try \in 1..MAX_TRIES /\ (try + 1) - 1 = try /\ try < MAX_TRIES
    BY <1>0, <2>1 DEF Trying
  <2>3. PowerOfTwo[try] = 2 * PowerOfTwo[try - 1] /\ PowerOfTwo[try - 1] \in Nat
    BY <2>2, Powers, PowersGrow
  <2>4. pause' = BACKOFF * PowerOfTwo[try' - 1]
    BY <2>1, <2>2, <2>3 DEF CallTime
  <2>5. Attempts(2 * try - 1)' = Attempts(2 * try) + TIMEOUT /\ Attempts(2 * try) \in Int
    BY <1>0, <2>1 DEF Attempts
  <2> QED
    BY <1>0, <2>1, <2>4, <2>5 DEF CallTime
<1>9. ASSUME NEW d, NEW good, TakeReply(d, good) PROVE CallTime'
  BY <1>2, <1>9 DEF TakeReply, EndCall, StartListening, BackToMenu
<1>10. CASE Heard
  <2>1. client = "Listening" /\ client' \in {"Idle", "Listening"}
        /\ pause' = pause /\ skips' = skips /\ (client' = "Idle" => age' = 0)
    BY <1>10 DEF Heard, EndListening, BackToMenu
  <2> QED
    BY <1>2, <2>1 DEF CallTime
<1>11. CASE Tick
  <2>1. client' = client /\ try' = try /\ pause' = pause /\ skips' = skips
    BY <1>11 DEF Tick
  <2>2. client # "Idle" => timer > 0 /\ timer' = timer - 1 /\ age' = age + 1
    BY <1>11 DEF Tick
  <2>3. client = "Idle" => age' = age
    BY <1>11 DEF Tick
  <2>4. client # "Idle" => age' + timer' = age + timer
    BY <1>0, <2>2
  <2> QED
    BY <2>1, <2>3, <2>4 DEF CallTime, Attempts
<1> QED
  BY <1>1, <1>3, <1>4, <1>5, <1>6, <1>7, <1>8, <1>9, <1>10, <1>11
     DEF Next, Client, Server, SendFails, ReceiveFails, Hear, HearNothing, Serve, NotifyAll,
         EvictExpired, vars

-----------------------------------------------------------------------------

\* The invariant holds in every reachable state.
THEOREM Invariance == Spec => []IndInv
<1>1. IndInv /\ [Next]_vars => IndInv'
  BY TypeStep, SweptStep, AnsweredStep, ListeningStep, CallTimeStep DEF IndInv
<1> QED
  BY InitIndInv, <1>1, PTL DEF Spec

\* The variables stay in their ranges; so a call makes at most MAX_TRIES attempts.
THEOREM Types == Spec => []TypeOK
<1> QED
  BY Invariance, PTL DEF IndInv

\* A client that listens on the answer to its own Monitor call is covered by the
\* server's entry for what was asked by the request that wrote it, whatever was
\* retransmitted, answered from the history or delayed.
THEOREM Coverage == Spec => []SubscriptionCoversListener
<1>1. IndInv => SubscriptionCoversListener
  <2> SUFFICES ASSUME IndInv, client = "Listening", answered PROVE Covered
    BY DEF SubscriptionCoversListener
  <2> QED
    BY DEF IndInv, AnsweredIsCovered, CurrentAnswered, ListeningTime
<1> QED
  BY <1>1, Invariance, PTL

\* Such a client is sent every update that happens within that interval of its call.
THEOREM UpdatesAreSent == Spec => UpdatesReachListener
<1>1. IndInv /\ [Next]_vars =>
        (updates' # updates /\ client = "Listening" /\ answered /\ age <= asked[entryOf]
           => Callback(updates') \in toClient')
  <2> SUFFICES ASSUME IndInv, [Next]_vars, updates' # updates, client = "Listening", answered,
                      age <= asked[entryOf]
               PROVE  Callback(updates') \in toClient'
    OBVIOUS
  <2>1. NotifyAll
    BY DEF Next, Client, Server, Call, Send, SendFails, SkipCallback, ReceiveFails, Fail, Wake,
           TakeReply, Hear, HearNothing, Heard, Serve, EvictExpired, Tick, vars, serverVars, entryVars
  <2>2. Covered
    BY DEF IndInv, AnsweredIsCovered, CurrentAnswered, ListeningTime
  <2>3. registered /\ ~Expired
    <3>1. asked[entryOf] \in Nat /\ age \in Nat /\ expiresIn \in Int
      BY <2>2, AskedIsTime DEF Covered, IndInv, TypeOK
    <3> QED
      BY <2>2, <3>1 DEF Covered, Expired
  <2> QED
    BY <2>1, <2>3 DEF NotifyAll
<1> QED
  BY <1>1, Invariance, PTL DEF Spec, UpdatesReachListener

\* listen_server ends less than a receive timeout after its interval.
THEOREM ListeningEnds == Spec => []ListeningIsBounded
<1>1. IndInv => ListeningIsBounded
  <2> SUFFICES ASSUME IndInv, client = "Listening" PROVE age - callTook < asked[Current] + TIMEOUT
    BY DEF ListeningIsBounded
  <2>1. asked[Current] \in Nat
    BY AskedIsTime DEF IndInv, AtWork, ListeningTime, TypeOK, Current
  <2> QED
    BY <2>1, TimeAssumption DEF IndInv, ListeningTime, TypeOK
<1> QED
  BY <1>1, Invariance, PTL

\* And not before its interval is over.
THEOREM ListeningLasts == Spec => ListensToTheEnd
<1>1. IndInv /\ [Next]_vars =>
        (client = "Listening" /\ client' # "Listening" => age - callTook >= asked[Current])
  <2> SUFFICES ASSUME IndInv, [Next]_vars, client = "Listening", client' # "Listening"
               PROVE  age - callTook >= asked[Current]
    OBVIOUS
  <2>1. Heard /\ ~(listenLeft > 0)
    BY DEF Next, Client, Server, Call, Send, SendFails, SkipCallback, ReceiveFails, Wake,
           TakeReply, Hear, HearNothing, Heard, Serve, NotifyAll, EvictExpired, Tick, vars, clientVars
  <2>2. asked[Current] \in Nat
    BY AskedIsTime DEF IndInv, AtWork, ListeningTime, TypeOK, Current
  <2> QED
    BY <2>1, <2>2 DEF IndInv, ListeningTime, TypeOK
<1> QED
  BY <1>1, Invariance, PTL DEF Spec, ListensToTheEnd

\* No entry outlives its interval by more than a turn of the sweeper.
THEOREM EntriesGo == Spec => []LapsedGoneInTime
<1>1. IndInv => LapsedGoneInTime
  BY TimeAssumption DEF IndInv, SweptInTime, LapsedGoneInTime, TypeOK
<1> QED
  BY <1>1, Invariance, PTL

\* A call lasts no longer than the sends and receives of its attempts, the pauses between
\* them, and one receive for each callback it skipped (send_to_server).
THEOREM CallsEnd == Spec => []CallIsBounded
<1> SUFFICES IndInv => CallIsBounded
  BY Invariance, PTL
<1> SUFFICES ASSUME IndInv, client \in {"Sending", "Waiting", "Sleeping"}
             PROVE  age <= 2 * MAX_TRIES * TIMEOUT + BACKOFF * (PowerOfTwo[MAX_TRIES - 1] - 1) + skips * TIMEOUT
  BY DEF CallIsBounded
<1> USE TimeAssumption
<1>1. age \in Nat /\ timer \in Nat /\ skips \in Nat /\ pause \in Nat /\ try \in 1..MAX_TRIES
  BY DEF IndInv, TypeOK, Trying
<1> DEFINE spent == IF client = "Sleeping" THEN 2 * pause ELSE pause
<1>2. spent <= BACKOFF * PowerOfTwo[MAX_TRIES - 1] /\ BACKOFF * PowerOfTwo[MAX_TRIES - 1] \in Nat
  <2>1. try - 1 \in 0..MAX_TRIES - 1 /\ MAX_TRIES - 1 \in 0..MAX_TRIES
    BY <1>1
  <2>2. PowerOfTwo[MAX_TRIES - 1] \in Nat /\ pause = BACKOFF * PowerOfTwo[try - 1]
    BY <2>1, PowersGrow DEF IndInv, CallTime
  <2>3. CASE client # "Sleeping"
    <3>1. PowerOfTwo[try - 1] \in Nat /\ PowerOfTwo[try - 1] <= PowerOfTwo[MAX_TRIES - 1]
      BY <2>1, PowersGrow
    <3> QED
      BY <2>2, <2>3, <3>1
  <2>4. CASE client = "Sleeping"
    <3>1. try \in 0..MAX_TRIES - 1
      BY <1>1, <2>4 DEF IndInv, Trying
    <3>2. PowerOfTwo[try] \in Nat /\ PowerOfTwo[try] <= PowerOfTwo[MAX_TRIES - 1]
      BY <2>1, <3>1, PowersGrow
    <3>3. PowerOfTwo[try] = 2 * PowerOfTwo[try - 1] /\ PowerOfTwo[try - 1] \in Nat
      BY <1>1, <2>1, Powers, PowersGrow
    <3>4. 2 * pause = BACKOFF * PowerOfTwo[try]
      BY <2>2, <3>3
    <3> QED
      BY <2>2, <2>4, <3>2, <3>4
  <2> QED
    BY <2>3, <2>4
<1>3. Attempts(2 * try - 1) <= Attempts(2 * MAX_TRIES) /\ Attempts(2 * try) <= Attempts(2 * MAX_TRIES)
  BY <1>1 DEF Attempts
<1>4. age <= Attempts(2 * MAX_TRIES) + spent - BACKOFF
  <2>1. Attempts(2 * try - 1) \in Int /\ Attempts(2 * try) \in Int /\ Attempts(2 * MAX_TRIES) \in Int
    BY <1>1 DEF Attempts
  <2> QED
    BY <1>1, <1>3, <2>1 DEF IndInv, CallTime
<1>5. BACKOFF * (PowerOfTwo[MAX_TRIES - 1] - 1) = BACKOFF * PowerOfTwo[MAX_TRIES - 1] - BACKOFF
  <2>1. PowerOfTwo[MAX_TRIES - 1] \in Nat
    BY PowersGrow
  <2> QED
    BY <2>1
<1>6. spent \in Int /\ 2 * MAX_TRIES * TIMEOUT \in Int /\ skips * TIMEOUT \in Int
  BY <1>1
<1>7. Attempts(2 * MAX_TRIES) = 2 * MAX_TRIES * TIMEOUT + skips * TIMEOUT
  BY DEF Attempts
<1> HIDE DEF spent
<1> QED
  BY <1>1, <1>2, <1>4, <1>5, <1>6, <1>7
=============================================================================
