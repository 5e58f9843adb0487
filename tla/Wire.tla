-------------------------------- MODULE Wire --------------------------------
(***************************************************************************)
(* What becomes of a command on its way to the bank and back: the client's *)
(* command encoder, message serializer and callback decoder (C++) and the  *)
(* server's header and TLV decoder, reply builder and callback marshaller  *)
(* (Go), which two programs define twice and must agree on.  The other     *)
(* modules take a datagram for a record of its fields; this one shows what *)
(* that rests on.                                                          *)
(*                                                                         *)
(* One call is under way at a time, on a network that loses nothing.  The  *)
(* ghost bank executes the commands as the user meant them; db, the store  *)
(* of the server, executes what the server makes of the octets.            *)
(*                                                                         *)
(* An octet has Octets values, 256 in the program.  A string is a sequence *)
(* of octets.  Of a double, an amount of cents here, what counts is the    *)
(* order of its 8 octets: a sign octet, then the magnitude.                *)
(***************************************************************************)
EXTENDS Handler, SequencesExt

CONSTANTS
  Octets,        \* the number of values of an octet
  PasswordSize,  \* the size of the server's password field, 8 in the program
  StringLimit,   \* MAX_STRING_LENGTH of the client, 1024 in the program
  BufSize,       \* maxPacketSize of the server, 4096 in the program
  Commands,      \* what users ask for
  MaxCalls       \* bound: the number of calls

\* How many numbers there are of so many octets, at most the 8 of a double.
Numbers[width \in 0 .. 8] == IF width = 0 THEN 1 ELSE Octets * Numbers[width - 1]

\* The magnitudes of doubles are the numbers of 7 octets.
Fits(x) == x \in Int => x < Numbers[7] /\ -x < Numbers[7]

\* The prompts of a service, which are the fields of its command.
PromptedFields ==
  [OpenAccount   |-> {"name", "password", "currency", "amount"},
   CloseAccount  |-> {"name", "account", "password"},
   Deposit       |-> {"name", "account", "password", "currency", "amount"},
   Withdraw      |-> {"name", "account", "password", "currency", "amount"},
   Monitor       |-> {"name", "account", "password", "interval"},
   GetBalance    |-> {"name", "account", "password"},
   TransferFunds |-> {"name", "account", "password", "toAccount", "toName", "currency", "amount"}]

ASSUME OctetAssumption == Octets \in Nat /\ Octets > 10 /\ UintSize = Numbers[4]

\* isAlpha, isAlphaNumeric and isWithinMaxLength: no octet of a password is 0, and none
\* is longer than the field it is kept in.
ASSUME StringAssumption ==
  /\ PasswordSize \in Uint32
  /\ Currencies \subseteq 0 .. Octets - 1
  /\ \A pw \in Passwords : pw \in Seq(1 .. Octets - 1) /\ Len(pw) <= PasswordSize
  /\ \A name \in Names : name \in Seq(1 .. Octets - 1) /\ Len(name) < UintSize

ASSUME CommandAssumption ==
  \A c \in Commands :
    /\ WellFormed(c) /\ WellTyped(c)
    /\ DOMAIN c = {"service"} \cup PromptedFields[c.service]
    /\ "amount" \in DOMAIN c => Fits(c.amount)
    /\ "interval" \in DOMAIN c => c.interval \in Uint32

\* The buffer holds a header.
ASSUME BufferAssumption == BufSize \in Nat /\ BufSize >= 18

-----------------------------------------------------------------------------
(* Numbers and strings. *)

\* Each octet is what the ones to its right leave of n.
BigEndian(n, width) ==
  LET Left[k \in 0 .. width] == IF k = 0 THEN n ELSE Left[k - 1] \div Octets
  IN [i \in 1 .. width |-> Left[width - i] % Octets]

Number(octets) == FoldLeft(LAMBDA n, o : n * Octets + o, 0, octets)

Position(x, seq) == SelectInSeq(seq, LAMBDA y : y = x)

NoNumbers == <<NaN, Inf, NegInf>>

Double(x) ==
  IF x \notin Int THEN <<1 + Position(x, NoNumbers)>> \o BigEndian(0, 7)
  ELSE IF x < 0 THEN <<1>> \o BigEndian(-x, 7)
  ELSE <<0>> \o BigEndian(x, 7)

DoubleIn(octets) ==
  CASE octets[1] \in 2 .. 4 -> NoNumbers[octets[1] - 1]
    [] octets[1] = 1 -> -Number(Tail(octets))
    [] OTHER -> Number(Tail(octets))

\* Faulty: the last octet of the field is kept for a terminator.
FixedPasswordTerminated(pw) ==
  [i \in 1 .. PasswordSize |-> IF i <= Len(pw) /\ i < PasswordSize THEN pw[i] ELSE 0]

\* Padded with zeros or cut.
FixedPassword(pw) == [i \in 1 .. PasswordSize |-> IF i <= Len(pw) THEN pw[i] ELSE 0]

NoFields == [f \in {} |-> 0]

-----------------------------------------------------------------------------
(* The numbers of services, statuses and fields, on either side. *)

ClientServices ==
  <<"OpenAccount", "CloseAccount", "Deposit", "Withdraw", "Monitor", "GetBalance", "TransferFunds">>

ServerServices ==
  <<"OpenAccount", "CloseAccount", "Deposit", "Withdraw", "Monitor", "GetBalance", "TransferFunds">>

\* Statuses count from 0.
ClientStatuses ==
  <<Success, "ACCOUNT_NOT_FOUND", "INVALID_CREDENTIALS", "ACCOUNT_MISMATCH", "CURRENCY_MISMATCH",
    "INSUFFICIENT_FUNDS", "SAME_ACCOUNT", "INTERNAL_ERROR">>

ServerStatuses ==
  <<Success, "ACCOUNT_NOT_FOUND", "INVALID_CREDENTIALS", "ACCOUNT_MISMATCH", "CURRENCY_MISMATCH",
    "INSUFFICIENT_FUNDS", "SAME_ACCOUNT", "INTERNAL_ERROR">>

\* Also the order in which iterate() writes them.
ClientFields ==
  <<"service", "account", "name", "password", "toAccount", "toName", "amount", "currency",
    "updates", "interval">>

ServerFields ==
  <<"service", "account", "name", "password", "toAccount", "toName", "amount", "currency",
    "updates", "interval">>

\* The sizes of the fields that have one; the others are strings.
ClientSizes ==
  [service |-> 1, currency |-> 1, account |-> 4, toAccount |-> 4, interval |-> 4, amount |-> 8]

ServerSizes ==
  [service |-> 1, currency |-> 1, account |-> 4, toAccount |-> 4, interval |-> 4, amount |-> 8]

-----------------------------------------------------------------------------
(* Tag, length, value. *)

TLV(id, octets) == <<id>> \o BigEndian(Len(octets), 4) \o octets

ValueOctets(f, v) ==
  CASE f = "service" -> <<Position(v, ClientServices)>>
    [] f = "currency" -> <<v>>
    [] f = "amount" -> Double(v)
    [] f \in {"account", "toAccount", "interval"} -> BigEndian(v, 4)
    [] OTHER -> v

OctetsValue(f, octets) ==
  CASE f \in {"service", "currency"} -> octets[1]
    [] f = "amount" -> DoubleIn(octets)
    [] f \in {"account", "toAccount", "interval"} -> Number(octets)
    [] OTHER -> octets

EncodeMessage(cmd) ==
  LET Append1(bytes, f) ==
        IF f \in DOMAIN cmd THEN bytes \o TLV(Position(f, ClientFields), ValueOctets(f, cmd[f]))
        ELSE bytes
  IN FoldLeft(Append1, <<>>, ClientFields)

\* The fields with f added where it is not among them.
Under(fields, f, value) ==
  [g \in DOMAIN fields \cup {f} |-> IF g \in DOMAIN fields THEN fields[g] ELSE value]

\* The loop of both decoders, on octets from an offset on.  A rest shorter than a
\* tag and a length ends it; of two fields with one tag the later one counts.  A field
\* has its own of the sizes, or one of the others.
Decode(bytes, fields, sizes, others) ==
  LET Refused == [ok |-> FALSE, fields |-> NoFields]
      Accepts(f, size) == IF f \in DOMAIN sizes THEN size = sizes[f] ELSE size \in others
      From[at \in 0 .. Len(bytes)] ==
        LET id == bytes[at + 1]
            size == Number(SubSeq(bytes, at + 2, at + 5))
            end == at + 5 + size
            rest == From[end]
        IN IF at + 5 > Len(bytes) THEN [ok |-> TRUE, fields |-> NoFields]
           ELSE IF id \notin DOMAIN fields \/ end > Len(bytes) THEN Refused
           ELSE IF ~Accepts(fields[id], size) \/ ~rest.ok THEN Refused
           ELSE [ok |-> TRUE,
                 fields |-> Under(rest.fields, fields[id],
                                  OctetsValue(fields[id], SubSeq(bytes, at + 6, end)))]
  IN From[0]

DecodeTLV(payload) == Decode(payload, ServerFields, ServerSizes, Nat)

\* The client's decoder also limits strings and refuses an empty content.
DecodeMessage(content) ==
  IF content = <<>> THEN [ok |-> FALSE, fields |-> NoFields]
  ELSE Decode(content, ClientFields, ClientSizes, 0 .. StringLimit)

-----------------------------------------------------------------------------
(* The 18 octets in front: type, flag, request id, address, port, status, length. *)

HeaderSize == 18
RequestType == 0
ReplyType == 1
CallbackType == 2
AtMostOnceFlag == 2

\* The client's own address, which nobody reads.
Address == BigEndian(127, 4) \o BigEndian(9, 2)

Serialize(id, content) ==
  <<RequestType, AtMostOnceFlag>> \o BigEndian(id, 4) \o Address \o BigEndian(0, 2)
    \o BigEndian(Len(content), 4) \o content

ParseHeader(bytes) == [flag |-> bytes[2], id |-> Number(SubSeq(bytes, 3, 6))]

\* Faulty: the status is one octet.
BuildReplyNarrow(id, status, content) ==
  <<ReplyType, 0>> \o BigEndian(id, 4) \o Address \o <<status>>
    \o BigEndian(Len(content), 4) \o content

BuildReply(id, status, content) ==
  <<ReplyType, 0>> \o BigEndian(id, 4) \o Address \o BigEndian(status, 2)
    \o BigEndian(Len(content), 4) \o content

Deserialize(bytes) ==
  IF Len(bytes) < HeaderSize \/ HeaderSize + Number(SubSeq(bytes, 15, 18)) > Len(bytes)
  THEN [ok |-> FALSE]
  ELSE [ok |-> TRUE, status |-> Number(SubSeq(bytes, 13, 14)),
        content |-> SubSeq(bytes, 19, 18 + Number(SubSeq(bytes, 15, 18)))]

-----------------------------------------------------------------------------
(* Callbacks have a format of their own. *)

\* Faulty: the last two fields are swapped.
MarshalCallbackSwapped(u) ==
  <<CallbackType, Position(u.service, ServerServices)>> \o BigEndian(u.account, 4)
    \o BigEndian(Len(u.name), 4) \o u.name \o Double(u.balance) \o <<u.currency>>

MarshalCallbackUpdate(u) ==
  <<CallbackType, Position(u.service, ServerServices)>> \o BigEndian(u.account, 4)
    \o BigEndian(Len(u.name), 4) \o u.name \o <<u.currency>> \o Double(u.balance)

DecodeCallback(bytes) ==
  LET size == Number(SubSeq(bytes, 7, 10))
  IN [service |-> ClientServices[bytes[2]], account |-> Number(SubSeq(bytes, 3, 6)),
      name |-> SubSeq(bytes, 11, 10 + size), currency |-> bytes[11 + size],
      balance |-> DoubleIn(SubSeq(bytes, 12 + size, 19 + size))]

-----------------------------------------------------------------------------
(* A call. *)

VARIABLES
  stage,      \* "Menu", then "Request", "Reply" and "Shown"
  calls,      \* current_request_id of the client
  cmd,        \* the command
  datagram,   \* the request or the reply
  db,         \* the store
  screen,     \* the status and the fields the client prints
  callbacks,  \* the callback datagrams under way to a monitoring client
  notices,    \* what that client has printed
  bank,       \* ghost: the store as the users mean it
  due         \* ghost: the outcome of the command on it, and its updates

vars == <<stage, calls, cmd, datagram, db, screen, callbacks, notices, bank, due>>

NothingDue == [out |-> Fails(NoFields, None), updates |-> <<>>]

Init ==
  /\ stage = "Menu" /\ calls = 0 /\ cmd = NoFields /\ datagram = <<>>
  /\ db = EmptyDatabase /\ bank = EmptyDatabase
  /\ screen = NoFields /\ callbacks = <<>> /\ notices = <<>> /\ due = NothingDue

\* build_message counts the request id up before it is used.
Send(c) ==
  /\ stage = "Menu" /\ calls < MaxCalls
  /\ stage' = "Request" /\ calls' = calls + 1 /\ cmd' = c
  /\ datagram' = Serialize(calls + 1, EncodeMessage(c))
  /\ UNCHANGED <<db, screen, callbacks, notices, bank, due>>

\* A datagram longer than the server's buffer is cut.
Read(bytes) == SubSeq(bytes, 1, IF Len(bytes) <= BufSize THEN Len(bytes) ELSE BufSize)

ServiceIn(n) == IF n \in DOMAIN ServerServices THEN ServerServices[n] ELSE "Unknown"

\* The request the handler makes of a datagram: without a service where it does not decode.
RequestIn(bytes) ==
  LET parsed == DecodeTLV(SubSeq(bytes, HeaderSize + 1, Len(bytes))).fields
  IN [f \in DOMAIN parsed |->
        CASE f = "service" -> ServiceIn(parsed[f])
          [] f = "password" -> FixedPassword(parsed[f])
          [] OTHER -> parsed[f]]

\* Close and Monitor reply with the status alone, and so does every error.
ReplyContent(q, out) ==
  IF out.err # None THEN <<>>
  ELSE CASE q.service = "OpenAccount" ->
              TLV(Position("account", ServerFields), BigEndian(out.value, 4))
         [] q.service \in {"Deposit", "Withdraw", "GetBalance", "TransferFunds"} ->
              TLV(Position("amount", ServerFields), Double(out.value))
         [] OTHER -> <<>>

ReplyOf(id, q, out) ==
  BuildReply(id, Position(MapBankingError(out.err), ServerStatuses) - 1, ReplyContent(q, out))

\* The user's command on the ghost bank: one that does not fit the buffer counts as malformed.
Meant ==
  IF Len(datagram) <= BufSize THEN Outcome(bank, cmd) ELSE Fails(bank, "ErrMalformed")

Serve ==
  LET q == RequestIn(Read(datagram))
      out == Outcome(db, q)
      updates == UpdatesOf(q, out)
  IN /\ stage = "Request" /\ stage' = "Reply"
     /\ ParseHeader(Read(datagram)).flag = AtMostOnceFlag
     /\ db' = out.db
     /\ datagram' = ReplyOf(ParseHeader(Read(datagram)).id, q, out)
     /\ callbacks' = [i \in DOMAIN updates |-> MarshalCallbackUpdate(updates[i])]
     /\ bank' = Meant.db
     /\ due' = [out |-> Meant, updates |-> UpdatesOf(cmd, Meant)]
     /\ UNCHANGED <<calls, cmd, screen, notices>>

\* A status other than success is all that is shown; a content that does not decode is not.
Show ==
  LET msg == Deserialize(datagram)
      status == IF msg.ok THEN ClientStatuses[msg.status + 1] ELSE "Unreadable"
  IN /\ stage = "Reply" /\ stage' = "Shown"
     /\ screen' = IF status = Success
                  THEN [status |-> status, fields |-> DecodeMessage(msg.content).fields]
                  ELSE [status |-> status, fields |-> NoFields]
     /\ UNCHANGED <<calls, cmd, datagram, db, callbacks, notices, bank, due>>

Hear ==
  /\ stage = "Shown" /\ callbacks # <<>>
  /\ notices' = Append(notices, DecodeCallback(Head(callbacks)))
  /\ callbacks' = Tail(callbacks)
  /\ UNCHANGED <<stage, calls, cmd, datagram, db, screen, bank, due>>

\* wait_for_enter, then the menu.
Enter ==
  /\ stage = "Shown" /\ callbacks = <<>> /\ stage' = "Menu"
  /\ cmd' = NoFields /\ datagram' = <<>> /\ screen' = NoFields /\ notices' = <<>>
  /\ due' = NothingDue
  /\ UNCHANGED <<calls, db, callbacks, bank>>

Next == (\E c \in Commands : Send(c)) \/ Serve \/ Show \/ Hear \/ Enter

Spec == Init /\ [][Next]_vars

-----------------------------------------------------------------------------
(* Properties. *)

FixedAccount(acc) == [acc EXCEPT !.password = FixedPassword(@)]

\* What the server keeps of a store: its passwords are of fixed size.
Fixed(d) == [d EXCEPT !.accounts = [a \in DOMAIN @ |-> FixedAccount(@[a])]]

\* The store is what the users' commands make of it, but for passwords being of fixed
\* size: no field is lost, displaced or taken for another on the way, no two passwords a
\* client accepts are the same to the server, and a request cut to the server's buffer,
\* wherever the cut falls, is not executed (encode_message, DecodeTLV, handler.go).
CommandsReachTheBank == db = Fixed(bank)

\* The user is shown the status of the command and, after a success, the account number
\* or the balance it came to (BuildReply, deserialize, decode_command); of a request that
\* was cut, the internal error.
OutcomesReachTheUser ==
  stage = "Shown" =>
    LET out == due.out
    IN screen = [status |-> MapBankingError(out.err),
                 fields |-> IF out.err # None THEN NoFields
                            ELSE CASE cmd.service = "OpenAccount" -> [account |-> out.value]
                                   [] cmd.service \in {"CloseAccount", "Monitor"} -> NoFields
                                   [] OTHER -> [amount |-> out.value]]

\* A monitoring client prints the updates of the command, all of them and in their order,
\* with the values they were sent with (MarshalCallbackUpdate, CallbackEncoder).
UpdatesReachTheMonitor ==
  stage = "Shown" =>
    /\ notices = SubSeq(due.updates, 1, Len(notices))
    /\ Len(notices) + Len(callbacks) = Len(due.updates)

\* The currency a callback shows is the account's.  The report's table of the callback
\* packet says so ("The account's currency code"); the callbacks of a transfer carry 0,
\* which is the client's code of SGD.
CallbacksNameTheCurrency ==
  \A i \in DOMAIN notices :
    LET a == notices[i].account
    IN a \in DOMAIN bank.accounts => notices[i].currency = bank.accounts[a].currency
=============================================================================
