# A verification project for the distributed bank

A bank of in-memory accounts is served over UDP. A Go server (`server/`) executes
requests under *at-least-once* or *at-most-once* semantics; a C++ console client
(`client/`) retransmits a request until a reply comes or five attempts are used up,
and can listen for callbacks that tell of other clients' account updates. These
TLA+ modules model that system from its source, TLC checks them on small
instances, and TLAPS proves the most important results for every value of the
constants. `PROJECT.json` maps each definition to the source lines it models and
lists runs, hazards, findings and theorems.

## 1. Inventory

| Part | Source | State | Operations | Talks to |
|---|---|---|---|---|
| client core | `client/src/core/bankClient.cpp`, `bankClient.h` | `current_request_id`, the command being built, the attempt counter and backoff of a call | `run`, `build_command`, `build_message`, `send_to_server`, `listen_server` | the socket; the user |
| client socket | `client/src/networkUtils/udpSocket.cpp` | socket with 5 s send and receive timeouts | `send_message`, `receive_message` | the network |
| client console | `bankIO.cpp` | stdin | `read_int`, `read_line`, `ensure_clean_buffer`, `wait_for_enter` | the user |
| client command line | `main.cpp`, `semantics.cpp` | none | `-l` / `-m` | client core |
| client codecs | `client/src/protocol/*` | none | encode commands, decode replies and callbacks | client core |
| server loop | `server/cmd/main.go` | the read buffer | read, dispatch, drop or send | dispatcher, loss simulator |
| dispatcher | `server/internal/semantics/dispatcher.go` | mode, history | `Dispatch` | history, handler |
| reply history | `semantics/history.go` | replies by client address and request id | `Lookup`, `Store` (`EvictClient`, `EvictBefore`: no caller) | dispatcher |
| loss simulator | `semantics/losssim.go` | random source | `ShouldDrop` | server loop |
| header, TLV | `semantics/header.go`, `internal/marshalling/*` | none | parse, build | dispatcher, handler |
| request handler | `internal/handler/handler.go` | none | one function per service, error mapping | banking service, monitor |
| banking service | `internal/banking/bank.go` | the account structs and their mutexes | Open, Close, Deposit, Withdraw, CheckBalance, Transfer | store |
| account store | `internal/store/memory.go` | `accounts`, `nextID`, one mutex | Create, Get, Update, Delete | - |
| monitor | `internal/monitor/manager.go` | subscribers with their expiry, one mutex | `Register`, `NotifyAll`, the sweeper goroutine | the server's socket |

What is hard here:

* **the network**: a datagram may be lost, delayed past the call it belongs to,
  reordered or duplicated, and the loss simulator drops replies of calls that were
  executed. The client's timeout races the reply; a retransmission races the first copy;
  a call the client gave up on may be executed during its next one;
* **sharing of one socket**: replies and callbacks reach the client through the same
  socket, and which of them ends a call is decided by the type byte alone;
* **goroutines**: the sweeper and the server loop share the subscriber map. The banking
  service locks as if it were called concurrently; the server loop is one goroutine, so
  in the program as it is wired it never is, but the tests of `bank.go` do it
  (`bank_test.go`: ConcurrentWithdrawals, ConcurrentTransfers, ConcurrentCheckBalanceAndWithdraw)
  and the locking is there to keep that possible;
* **formats defined twice**: the C++ client and the Go server each have their own numbers,
  sizes and orders of fields, and a request longer than the server's buffer is cut silently;
* **terminal input**: three ways of reading stdin leave the end of a line in different places;
* **time**: the server counts a subscription's interval from the Monitor request, the client from its
  reply, and between the two lie retransmissions, pauses and skipped callbacks; the client's receives have timeouts
  of their own, the server's sweeper a period of its own;
* **doubles**: `stod` reads `nan` and `inf`, the wire carries them, and no check of the bank
  refuses them where a comparison with NaN is false;
* **partial failure**: an account may be closed between the lookup and the lock of
  another operation, whose `UpdateAccount` then fails after the balance has been written.

What makes the parts correct:

* dispatcher and history: no call is executed twice under at-most-once, and a cached
  reply is the reply that was computed, for that client and that call; a client with the
  other semantics is not served;
* client: a command that leaves the menu is complete and nothing of a cancelled one is in it; every prompt ends; a call ends, with a reply or after its last
  attempt, unless callbacks keep arriving; the reply that ends a call is the reply to that call (it need not be: see 5);
* codecs: the bank executes the command the user meant or none, the user sees its outcome, a
  subscriber its updates;
* banking: money is neither made nor lost, no balance is taken below zero, concurrent
  calls are atomic to each other and none hangs, closed accounts stay closed and their numbers are
  never used again;
* monitor: callbacks tell of executed calls, with the right balance, and under at-most-once a subscriber is sent one for
  each part of a call; whoever listens is subscribed and is sent what happens, for the interval of the request that wrote its
  entry last: its own, unless an older one arrived after it (see 5); listening ends when it should; lapsed subscribers go away;
* the whole: to its clients the server under at-most-once looks like a bank without a
  network (`AtMostOnceBank`).

## 2. Modules

| Module | What it is |
|---|---|
| `Bank` | the store and the six operations of `bank.go`, as operators from a database and a request to a database, an error and a value; the order of the checks is the code's |
| `Handler` | `handler.go`: required fields, routing, error mapping, the updates each call passes to `NotifyAll` |
| `BankingSystem` | clients, network, server loop, dispatcher, history, monitor; the state machine of the whole |
| `AtMostOnceBank` | abstract specification: calls are issued, take effect at most once, and return |
| `AccountLocks` | `bank.go` called from several goroutines: one step per access to the store, a mutex or a balance |
| `AtomicBank` | abstract specification: each concurrent call takes effect in one step |
| `Wire` | one call from command to octets to the bank, and its reply and callbacks back: the codecs of both sides |
| `ClientMenu` | the client between two calls: menu, prompts, stdin |
| `MonitorWindow` | a Monitor call and what follows it, against the clock: timeouts, pauses, the subscription, the sweeper, `listen_server` |
| `MCBankingSystem`, `MCAccountLocks`, `MCWire`, `MCClientMenu`, `MCMonitorWindow` | finite instances for TLC |
| `Recursion_proofs`, `Bank_proofs`, `BankingSystem_proofs`, `AccountLocks_proofs`, `Linearizable_proofs`, `Wire_proofs`, `MonitorWindow_proofs`, `ClientMenu_proofs` | theorems and their proofs |

`Handler` extends `Bank`; `BankingSystem`, `AccountLocks`, `Wire` and `ClientMenu` extend `Handler`.
`ClientMenu` produces the commands (*Calling*), `BankingSystem` takes them for its `Commands` and treats a datagram as a record of its fields,
which `Wire` shows to be right. `MonitorWindow` stands alone: it follows one client through time and leaves out what the
calls say, where `BankingSystem` follows several through all they say and lets time pass as it may. Both
abstract specifications use the same operators of `Handler` and `Bank`, so the
refinements are about *when and how often* a call takes effect, while `Bank_proofs` is
about *what* it does.

### BankingSystem and the code

* A client is its address. `pc[c]` is its place in `run` and `send_to_server`: *Idle* at
  the menu, *Send* before `send_message`, *Receive* in the receive loop, *Backoff* in
  `sleep_for`, *Listen* in `listen_server`. `tries` is the loop counter `i`,
  `requestId` is `current_request_id`.
* `AttemptFails` is a failed or timed-out send or receive, at any moment: a timeout is
  not tied to what the network does. `AcceptReply` ends the call with whatever reply
  arrives; `SkipCallback` and `ListenReceive` are the two receive loops. A reply that is not a
  success does not start listening.
* `net` is the set of datagrams in flight. Delivery takes any of them; one that is never
  taken is lost. With `Duplicates` a delivered datagram stays, without it it is removed, and the ghost `try`
  keeps retransmissions apart.
* `db` is the store, `history[c]` the inner map of `ReplyHistory`, `live` and `lapsed`
  the subscribers before and after their `expiresAt`. `log` (executions in order), `notices`, `issued` and `returned` are ghosts, but
  for the current command, which is the last of `issued`.
* `notices` is what the server's turns sent to subscribers, one set of callbacks for each reply it made. `net` is a set, in which a callback that is sent a second time
  is not seen; in `notices` it is.
* One turn of the server loop is one step: `RejectFlag`, `ExecuteAlways`,
  `ReplayCached` or `ExecuteAndCache`. The loop is a single goroutine and its effects are seen by
  clients only through datagrams. It shares the subscriber map with the sweeper alone,
  which can only remove entries that `NotifyAll` would not write to. A datagram sent early
  in the turn (a callback) may be delivered after one sent late (the reply) and the
  other way round.
* A payload that does not decode gets the reply of one that lacks a field, so `WellFormed` stands for both.
* Replies that do not parse, and the send errors of the server, are lost datagrams.

### MonitorWindow and the code

* `client` is the place in `send_to_server` and `listen_server`; `timer` is what is left of the send, the
  receive or the sleep it is in, `pause` is `cur_backoff`, `listenLeft` what is left of the interval that `listen_server` measures
  with `steady_clock`.
* `registered` and `expiresIn` are the entry of the client's address in the subscriber map. `Register`, `NotifyAll` and the sweeper treat each entry alone, so one is
  enough; what other clients do is seen as the updates they cause.
* `Serve` is the server's turn for a request of this client: it registers, or under at-most-once answers from the
  history without registering. The reply is always a success for a Monitor request (`handleMonitor` refuses none that has the field,
  and the client always sends it); for the reply to another call either is possible.
* A step of the program takes no time; only `Tick` does, one unit on every timer at once. It waits for whatever is due (`timer > 0`, `sweepLeft > 0`).
  A datagram takes any time or is lost, which is when no step ever takes it. Sends and receives may also fail at once.
* An expiry is strict, as `now.After(expiresAt)` is: at `expiresIn = 0` the entry is still good.
* `Register` overwrites the entry, whichever of the client's requests arrives (`manager.go:54-69`). The ghost `entryOf` is the number of the call whose request wrote it last, so
  `asked[entryOf]` is the interval that the entry was written with.
* `age`, `skips`, `callTook` and `answered` are ghosts. `answered` says that the reply that ended the call was its own: a late reply of an earlier
  call also ends it (see 5), and then nobody may have registered.

### Money

A double is a whole number of cents or one of `NaN`, `Inf` and `NegInf` (`Bank`: `Money`, `Less`, `AtMost`, `Plus`, `Negative`);
rounding is left out. The checks are the code's comparisons: `amount <= 0` and `balance < amount` are false of NaN, so a NaN passes both.

### AccountLocks and the code

`Lookup`, `LookupPayee`, `Lock`, `Check`, `Load`, `Write`, `Update`, `Delete`, `Unlock`
are the lines of an operation in order; `balance += amount` is a read (`Load`) and a write
(`Write`). An account struct outlives its entry in the map, as a Go pointer does:
`object` holds the structs, `stored` the keys of the map. The `RWMutex` of the store makes
each store call one step. A deferred unlock runs last in, first out.

### Wire and the code

* `Serve` is the server's loop from the socket's `ReadFromUDP` to the reply, `Show` the client from the datagram to
  the screen, `Send` from the command to the datagram. One call is under way at a time and nothing is lost: the interleavings are
  `BankingSystem`'s.
* `bank` is a ghost that executes the command as the user typed it; `db` executes what `DecodeTLV` makes of the octets. The
  invariants compare the two, so that they speak of both sides' tables at once and of neither alone.
* `Decode` is the loop both decoders share, as a recursive function of the offset; what differs is a parameter.
* An octet has `Octets` values and a uint32 four of them. Of a double only the order of its octets matters: it is a kind octet (plus, minus, NaN or an infinity) and a
  magnitude in cents.
* Nothing limits the length of a name (`getValidatedString`), so a request can outgrow the server's 4096 octets; `Read` cuts it
  at `BufSize`. A cut request is refused because the last field of each service is required, which is what `CommandsReachTheBank` rests on.

### ClientMenu and the code

* `place` is where the client reads: *Menu* in `read_int`, *Prompt* before and *Reading* after `ensure_clean_buffer` in `read_line`, *Calling* while the
  request is sent, *Waiting* and *Getting* in `wait_for_enter`. `prompt` and `tries` are the position in the `fill_` functions and the `i` of the
  `getValidated` functions.
* `stdin` is a sequence of words and ends of lines. `read_int` skips ends and leaves the one behind its word; `ensure_clean_buffer`
  skips one end; `getline` takes a line with its end; `cin.get` takes one character.
* What a word means to each prompt is a constant (`Alphabetic`, `IntegerOf`, `DoubleOf`, `CurrencyOf`, ...), because trimming, `isalpha`,
  `stoll` and `stod` are pure functions of the word. A number with something behind it on its line (`7 x`) is left out.
* The menu's number is cast to an octet (`Choice`); 0, no number, or a number that is not in the menu ends the client, as five refused answers to
  one prompt do: `run` breaks on every error but a cancellation.

## 3. Runs

| Run | Instance | States | Shows |
|---|---|---|---|
| `at_most_once` | 2 clients, 2 calls each, 2 attempts, duplication | 279,000 | `IndInv`, `AtMostOnce`, `AnswersAreExecutions`, `BalanceIsSumOfCalls`; implements `AtMostOnceBank` |
| `monitoring` | 1 subscriber, 1 client with 3 calls of 4 services, duplication | 811,000 | `CallbacksReportExecutions`, `NotifyOnce`, `AccountNumbersUnique`, `NoOverdraft` |
| `at_least_once` | 1 client of each semantics, 3 calls and 1, 2 attempts, duplication, 4 executions | 3,292,000 | `ClosedForGood`, `WrongFlagNeverServed` |
| `atomic_calls` | 3 goroutines, 1 call each of 11, no close | 20,000 | implements `AtomicBank`; liveness `CallsReturn` |
| `closing_accounts` | 3 goroutines, 2 calls each, both accounts may be closed | 2,300,000 | `BalancesAddUp`, `NoDebt`, `SuccessIsStored`, `ClosedStaysClosed` |
| `wire` | 4 calls of 164 commands, 16 values of an octet, a buffer of 82 | 71,000 | `CommandsReachTheBank`, `OutcomesReachTheUser`, `UpdatesReachTheMonitor` |
| `client_menu` | 7 words, 2 tries per prompt, 4 words and ends typed ahead | 656,000 | `CallsAreWellFormed`, `CallsHoldOwnFields`, `NoPhantomAnswers`; liveness `PromptsEnd` |
| `monitor_window` | 1 client, 2 calls of 2 intervals or none, 2 attempts, 1 update, timeouts and periods of 1 to 3 units | 5,178,000 | `SubscriptionCoversListener`, `ListeningIsBounded`, `CallIsBounded`, `LapsedGoneInTime`, `UpdatesReachListener`, `ListensToTheEnd` |
| `stale_reply` | 1 client, 2 calls | violation | `RepliesMatchRequests` fails |
| `transfer_to_closed` | 1 transfer, 1 close | violation | `TransferFindsBothAccounts` fails |
| `unbounded_history` | 1 client, 12 calls, every reply lost | violation | `HistoryIsWindowed` fails |
| `callback_currency` | 3 calls that open accounts in USD and transfer | violation | `CallbacksNameTheCurrency` fails |

Every property of a passing run has a mutant, a definition marked "Faulty" beside the one it
replaces: with the fault in place TLC finds the property violated in the same run.

**Bounds, and why they are enough.** `MaxTries` is 5 in the program, 2 (or 1) here: a
second attempt gives every race between a timeout, a late reply and a retransmission, and with
`Duplicates` any number of further copies arrive. Two calls per client let a late
reply or a late request of one call meet the next; two clients count the same
request ids, so the history's outer key matters. Three calls of one client open, use and
close an account, or open two and transfer. `MaxLog` bounds executions only under at-least-once, where they are
otherwise unlimited: four are an open, a close, a second open and a late copy of the close or of a deposit. `at_least_once` drops no reply, because a
dropped reply is as good as one that is never delivered, which any reply may be. Amounts of 1 and 2 reach a balance that equals the amount, is above and is below it. Two accounts are what one
transfer locks; three goroutines put a third call between two opposite transfers. `MaxCalls` and
`MaxJobs` bound the environment, not the program. The uint32 of account numbers and request ids is `UintSize`;
account numbers wrap in the model as they do in the code, and the bounds stay below the wrap.
`HistoryIsWindowed` needs a twelfth call to leave a window of ten.
In `wire`, 16 values of an octet make account numbers from 10000 have three octets that differ; passwords are of the server's field size, shorter, and
equal but for the last octet; the buffer holds the longest kind of request with short names, and for five services names of 30
lengths put its end at every octet of the fields behind the name, so that every place of a cut occurs. Four calls open two accounts, move money and close one. In
`client_menu`, two tries tell a refusal from the last refusal, the two services have all fields but the interval between them, and four places in
`stdin` hold a line left over and a line typed ahead.
In `at_most_once` the second client opens its account with NaN, so that an account with NaN is deposited to, pays and is paid beside one that holds a number; `wire` opens an account with minus
infinity and withdraws NaN.
In `monitor_window` the numbers are smaller than 5, 2, 5 and 5 seconds and keep their order: a receive
timeout is longer than the first pause, one interval is shorter and one longer than both the timeout and the
sweeper's period, so an entry can expire during a call, in the middle of listening and between two turns of the sweeper. The second call lets the first one's late requests and replies meet it;
one update is enough, because each property speaks of one. The theorems of `MonitorWindow_proofs` hold for all of these numbers.
No run uses symmetry.

**Fairness.** Safety is checked on `Spec`, without fairness. `BankingSystem` has no liveness property. That a call ends cannot be one:
callbacks can hold it open for ever, since each skipped callback starts the receive anew (`bankClient.cpp:365-373`). `CallIsBounded` of `MonitorWindow` says
instead how long a call may take, with a term for each callback it skipped. That lapsed entries go is bounded there too (`LapsedGoneInTime`).
`FairSpec` of `AccountLocks` assumes that the Go scheduler runs each goroutine that can
take a step; it does not assume that mutexes are fair, because the calls are finitely many. `FairSpec` of `ClientMenu` assumes that the client goes on when it has something to read
and that the user goes on typing, whatever and as blankly as may be: a prompt blocks in `getline` without that, as it should.

`MonitorWindow` needs no fairness: that something ends in time is a bound on a clock, a safety property, and
holds because `Tick` waits for what is due. Deadlock is checked there, so that such a `Tick` never waits in vain.
In all other runs deadlock checking is off: the instances' clients and goroutines use up their calls and
stop, an idle server waits, and the client's menu may end. That nobody waits for ever *inside* a call is `CallsReturn` for the goroutines and,
but for callbacks, `CallIsBounded` for the client.

## 4. Proofs

`tlapm` checks all of this; nothing is assumed but the ASSUMEs of the modules
(`UintAssumption`, `DoubleAssumption`, `SystemAssumption`, `NoWrapAssumption`, `CommandAssumption`, `AccountsAssumption`, `OctetAssumption`, `TimeAssumption`, `MenuAssumption`, ...), which TLC
evaluates in the runs. `NoWrapAssumption` says that a client makes fewer calls than there are request ids: after
2^32 calls an id would name two calls. Hypotheses stand in the theorems that need them: `NumbersLeft`, that the account numbers
have not come round to the first one (`nextID` is a uint32 that wraps), and `NoDebtAtOpening`, because `OpenAccount` takes a negative opening balance.
In `Wire`, `BalancesFit` is a third (below). Its constants have `OctetAssumption` (a tag and a status need an octet, a uint32 has four), `StringAssumption` (what `isAlpha`,
`isAlphaNumeric` and `isWithinMaxLength` let pass), `CommandAssumption` (`build_command` fills exactly the fields it prompts for) and `BufferAssumption` (a header fits).

* `Recursion_proofs`: induction over numbers and over finite sets, and the existence of recursive functions over both, from the library's
  well-foundedness facts. The library's induction theorems take an operator, which no installed prover can instantiate; here a *set* of
  elements stands for what is to be proved of them, and a function for the step of a recursion.
* `Bank_proofs`: for every database and every request, also a malformed one, the outcome is a
  database and an answer of the protocol (`OutcomeTyped`), the updates passed to the monitor are
  well formed (`UpdatesTyped`), a refused request changes nothing
  (`FailureChangesNothing`), a transfer moves its amount and touches no third account
  (`TransferMovesMoney`), a balance is afterwards what it was, or that plus or less the amount (`BalanceAfterCall`),
  more precisely: what it was plus what the request and its answer say was moved (`CallMovesWhatItSays`),
  no request takes a balance below zero or further below it (`NoCallOverdraws`), NaN and infinities included,
  and where the amounts are numbers a balance that is a number stays one (`NumbersStayNumbers`).
  Sums of money over a finite set are `Total`, which is what `FoldFunction(Plus, ...)` computes (`FoldIsTotal`). `Plus` commutes and associates, also on
  NaN and the infinities (`PlusCommutes`, `PlusAssociates`), so a total does not depend on the order of its elements (`TotalPicks`): it
  follows an element that is added (`TotalGrows`) or changes its worth (`TotalChanges`).
* `BankingSystem_proofs`: `IndInvAlways == Spec => []IndInv` and
  `AtMostOnceAlways == Spec => []AtMostOnce`. `AtMostOnce` alone is not inductive: that a second execution cannot happen
  follows from the history having an entry for *every* logged call under *that call's* id. So the
  strengthening is `IndInv`: types; the client's control state agrees with the calls it has issued
  and returned (`ClientsHaveCalls`); an at-most-once client's request id counts its calls (`IdsCountCalls`); a
  request in flight carries the command and id of its call (`RequestsAreCalls`); the history holds exactly the
  logged executions (`HistoryIsLog`). The run `at_most_once` checks `IndInv` too.
  Of the same module are `AnswersAreExecutionsAlways` and `Refinement`: with
  `Mode = "AtMostOnce"`, `Spec` implements `AtMostOnceBank` under the mapping `ExecutedCalls`, `ReturnedAnswers`.
  The invariants above show that an execution is of an issued call that was not executed yet, and that what
  a client returns with is an answer in the abstract bank's set; every other step is a stutter.
* Its second half has the remaining promises of `BankingSystem`, each from `IndInv` and what it lacks.
  `WrongFlagAlways` needs that nobody of the other mode is in the log or the subscriber map (`ServedMatchMode`), and with
  `AnswersAreExecutions` that nobody of them has an answer. `CallbacksReportAlways` is inductive as it stands. `NotifyOnceAlways` needs
  that whatever was sent tells of a call in the log (`NoticesAreOfLog`): a round of callbacks belongs to a call that was not in the log before (`AtMostOnce`), so none of
  it was sent earlier; within the round each part has one callback for each subscriber (`OnePerPart`), and a replay sends none.
  `ClosedForGoodAlways` holds under both semantics: the number of an account that a call has closed is below `nextID` and has no account (`ClosedIsGone`), so a new
  account gets another and every other operation on it fails.
  `AccountNumbersUniqueAlways` and `NoOverdraftAlways` need that every number in use or told to a client is below `nextID` (`NumbersGrow`).
  `BalanceIsSumOfCallsAlways`: an execution adds one call to the sum and moves its worth into the balances (`CallMovesWhatItSays`); it needs
  that it was not in the sum before (`AtMostOnce`), and that no earlier execution speaks of a number that is not given yet.
* `AccountLocks_proofs`: for any threads and calls. `LocksInv` says what a thread knows of its call at each place (`CallOK`), which
  mutexes it holds there (`HoldsOwn`), that no mutex is held twice (`Exclusion`), and that every struct is below `nextID` (`StoreOK`). From it:
  a balance is worked on by one thread at a time (`OneThreadPerBalance`); a thread waits only for mutexes above those it
  holds, so no circle of threads waits (`WaitsUpwards`); `ClosedAccountsStayClosed`, `SuccessIsStoredAlways`, and `NoDebtAlways`,
  for which a thread that has passed its check of funds must find them unchanged when it writes (`FundsOK`).
  `BalancesAddUpAlways` speaks of moments without a call in its course, its invariant of all moments: `BalancesAreSums` counts for each call, also one half done, what it has
  added *so far* (`Pending`: a transfer between its two writes has taken the amount and not given it), which every step keeps in
  accord with the balances. It needs that the balance a thread writes to is the one it read (`LoadedOK`), which is the mutex's doing.
  A call that fails in `Update` because the account was closed has moved money in a struct that is no longer in the store, so that struct drops out.
* `Linearizable_proofs`: `AccountLocks` implements `AtomicBank`, for any threads, accounts and calls. A call takes effect when it creates its account, decides its
  error, reads the balance asked for or writes its last balance; between the writes of a transfer the amount is counted as being with the payer still (`InTransit`), which is
  well defined because the mutex admits one such transfer for each payer (`OneInTransit`). `AtomicInv` adds to `LocksInv` what makes
  the sequential operator, applied at that moment, give what the thread has worked out since its first look at the store: what it checked before it had the mutexes is still so
  (`CheckedOK`: no account goes, and names, passwords and currencies do not change), and nothing comes between a check of funds and the write that relies on it
  (`MovementOK`). The hypotheses are needed: with `CloseAccount` a transfer may pay an account that is gone (`transfer_to_closed`), and a transfer of an infinite amount cannot be
  taken back out of a balance (`AmountsAreNumbers`).
* `Wire_proofs`: for any width of an octet above 10, any sizes of buffer and password field, and any commands that the prompts can produce. The way is
  from the bottom: a number that fits its octets is read as it was written (`NumberRead`, `DoubleRead`); a field is found where the encoder put it, as far as the
  message was kept (`TLVFound`); the decoder, from the last field to the first, makes of a message cut *anywhere* some of its fields with their own values, or refuses it,
  and of a whole message all of them (`MessageReadable`). It follows that the server makes of a whole request the command itself and of a cut one nothing
  it would execute (`RequestRead`): a field that the service requires is the last in the message (`LastField`). `ReplyRead` and `CallbackRead` are the ways back.
  A bank that keeps passwords at fixed size does on every command what the bank as meant does (`OutcomeFixed`), since no two accepted passwords become the same
  (`PasswordsDiffer`). The invariants then are short: the store is the fixed bank and a request encodes its command (`BankInv`), the reply under way reads as what is
  due (`ReplyInv`), and of the updates the first `n` are printed and the others under way (`UpdatesInv`). `RequestsReachTheBank` needs no hypothesis; `RepliesReachTheUser`
  and `CallbacksReachTheMonitor` assume `BalancesFit`, that every balance that is a number has a magnitude of seven octets: the amounts a user enters do
  (`CommandAssumption`), their sums need not. A double, which rounds, has no such bound; `Wire` has because it takes cents for whole numbers.
* `MonitorWindow_proofs`: for any timeouts, pauses, numbers of attempts, intervals, calls and updates. The core is `AnsweredIsCovered`: as soon as there is an
  answer to the current Monitor call, kept in the history or on its way or taken, the client has been registered since the call began. `Covered`
  speaks of the interval of the request that wrote the entry last (`entryOf`), so an older Monitor request that overwrites the entry
  establishes it with its own interval; it survives an eviction, which comes only after the interval. `SweptInTime` ties an entry's age to the sweeper's timer, `ListeningTime` the interval that is left to the receive under way.
  `Types`, `Coverage`, `UpdatesAreSent`, `ListeningEnds`, `ListeningLasts` and `EntriesGo` follow.
  `CallsEnd` bounds the whole of a call: `CallTime` says at each place how much of its time the attempts up to now can have used, the pauses, which
  double (`PowerOfTwo`, a recursive function, by `NumberInduction`), and the callbacks it skipped, each of which starts the receive timeout again.
* `ClientMenu_proofs`: for any words, whatever they mean to a prompt, and any amount of typing ahead. `WholeLines` says that a word in
  stdin has the end of its line behind it, and such an end its word before it, but at the very front, where `operator>>` may have taken the
  word. So what a read leaves is told from its front, and `AtLineStart`, that `getline` begins at the beginning of a line, is
  inductive: from it no answer is blank but a blank line (`NoPhantomAnswersAlways`). `Collected` says that the command under way has its service and the fields
  of the prompts that are done, and no others, also after prompts that were cancelled and answers that were refused: `CallsAreWellFormedAlways`,
  `CallsHoldOwnFieldsAlways`. `MenuAssumption` says that words and ends of lines are different things.

Only model-checked: liveness and `ENABLED` (`CallsReturn`, `PromptsEnd`), which are out of the provers' reach.

## 5. Where the code and its documents differ

Shown by a run:

* **a reply is not matched with its request** (`stale_reply`): `reply.go:32` echoes the
  request id "so the client can match it", the report (362) lists "request-response matching", but
  `send_to_server` (`bankClient.cpp:369`) takes any datagram that is not a callback. A late
  reply ends the next call, which shows the earlier call's answer. What still holds, and is
  proved, is that the answer belongs to *some* executed call of the same client.
* **a transfer checks its accounts before it locks them** (`transfer_to_closed`): against report 885. Concurrent
  callers only.
* **the history is never evicted** (`unbounded_history`): against report 1014-1015. Note that
  `AtMostOnce` as proved rests on entries being kept: with a window, a request delayed by more than the window would run again.

* **callbacks of a transfer carry currency 0** (`callback_currency`): against the report's table of the callback packet (517). The client prints 0
  as SGD, whatever the accounts are in; `handler.go:353` says that the currency is not among the parameters, but `cmd.Currency` is required (314) and
  checked by `Transfer`.

Seen while reading, not the subject of a run: the report says the timeout doubles (5, 10, 20, 40, 80 s) where the code
keeps a 5 s receive timeout and backs off 2, 4, 8, 16 s; report 909 speaks of 3 attempts where there are 5; the
flag bytes are 1 and 2, not 0 and 1 as in the report's table; `handler.go:343-346` says only the sender is notified of a
transfer, and the code notifies for both accounts; `CheckBalance` checks no currency; the client counts currencies from SGD = 0 and the constants of the Go models from 1;
"Press Enter to continue" needs Enter twice and otherwise swallows the first character of the next choice (`bankIO.cpp:62-66`: every prompt has
read its line to the end); the header comment in `header.go` describes a 5-byte header.

Two more, where the code does what it says and a user may not expect it. An older Monitor request that arrives late overwrites the client's
entry (`manager.go:54-55`) and can cut a longer subscription short while the client listens. The menu's number is cast to an octet
before it is looked at (`bankClient.cpp:72`), so 257 opens an account; `Choice` models the cast. No property forbids either.

## 6. Not modelled

* The command line, end of file on stdin, colours and layout.
* Octets that neither side builds: `Wire` decodes what the other side encoded, whole or cut.
* Rounding of doubles.
* Time outside `MonitorWindow`, and within it the time the program's own steps take.
* Restart of a client or of the server. The server keeps everything in memory and recovers nothing. A client process gets
  its port from the operating system (`udpSocket.cpp:28`); should a later process get the same address and the same request ids, the
  history would answer it with the earlier one's replies. Neither program has a step that deals with this.
* A server that stops: `main` never returns, so `Manager.Stop` is never called.
* `EvictClient`, `EvictBefore`, `Size`, `ActiveCount`, `Rate`, `IsEnabled`, `Stop`: no caller in the running program.

## 7. Plan

Done, in this order: `Bank`, `Handler`, `BankingSystem` with its abstract specification, its proofs;
`AccountLocks` with its own; `Wire`; `ClientMenu`; `MonitorWindow`; the special values of doubles in `Money`; the proofs about
the promises of `BankingSystem`, about `AccountLocks` up to the refinement of `AtomicBank`, `MonitorWindow` and `ClientMenu`;
induction over numbers and finite sets, and with it the sums of money, the length of a call and the codecs of `Wire`.

What could follow: the history with the window that the report describes, to show which delay it tolerates, once the
code evicts.
