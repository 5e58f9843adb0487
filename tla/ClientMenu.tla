----------------------------- MODULE ClientMenu -----------------------------
(***************************************************************************)
(* The client between two calls (client/src/core/bankClient.cpp: run,      *)
(* build_command, the fill_ and getValidated functions; bankIO.cpp): the   *)
(* menu, a prompt for each field of the chosen service with MAX_TRIES      *)
(* answers each, and what the user types ahead.  BankingSystem takes over  *)
(* with the command that leaves it.                                        *)
(*                                                                         *)
(* stdin holds the words of lines and the ends of lines, which operator>>, *)
(* getline and cin.get() leave behind in different ways.  The end of a     *)
(* line of its own is told from the end of a word's line for the           *)
(* properties only; the program cannot tell.                               *)
(***************************************************************************)
EXTENDS Handler

CONSTANTS
  Words,         \* what the user types
  Alphabetic,    \* the words of letters only
  AlphaNumeric,  \* the words of letters and digits only
  TooLong,       \* the words of more than MAX_PW_LEN characters
  WithoutFirst,  \* from the words of several characters to what is left without the first
  CurrencyOf,    \* from the words for currencies to the client's codes
  IntegerOf,     \* from the words that are integers to their values
  DoubleOf,      \* from the words stod can read to what it reads
  MaxTries,      \* MAX_TRIES
  TypeAhead      \* bound: the number of words and ends in stdin

WordEnd == "end of a word's line"
BlankEnd == "end of a blank line"
Ends == {WordEnd, BlankEnd}

ASSUME MenuAssumption ==
  /\ "quit" \in Words
  /\ (Words \cup DOMAIN WithoutFirst \cup Range(WithoutFirst)) \cap Ends = {}
  /\ MaxTries \in Nat \ {0}
  /\ TypeAhead \in Nat

\* Faulty: the payee's details are asked for, the currency is not.
PromptsOfNoCurrency(service) ==
  LET Auth == <<"name", "account", "password">>
  IN CASE service = "OpenAccount" -> <<"name", "password", "currency", "amount">>
       [] service \in {"CloseAccount", "GetBalance"} -> Auth
       [] service \in {"Deposit", "Withdraw"} -> Auth \o <<"currency", "amount">>
       [] service = "TransferFunds" -> Auth \o <<"toName", "toAccount", "amount">>
       [] service = "Monitor" -> Auth \o <<"interval">>

\* The fields a service asks for, in the order of its fill_ functions.
PromptsOf(service) ==
  LET Auth == <<"name", "account", "password">>
  IN CASE service = "OpenAccount" -> <<"name", "password", "currency", "amount">>
       [] service \in {"CloseAccount", "GetBalance"} -> Auth
       [] service \in {"Deposit", "Withdraw"} -> Auth \o <<"currency", "amount">>
       [] service = "TransferFunds" -> Auth \o <<"toName", "toAccount", "currency", "amount">>
       [] service = "Monitor" -> Auth \o <<"interval">>

\* The menu's numbers, enum class Service.
ServiceOf ==
  <<"OpenAccount", "CloseAccount", "Deposit", "Withdraw", "Monitor", "GetBalance", "TransferFunds">>

\* The choice is cast to an octet after it was compared with 0.
Choice(word) == IF word \in DOMAIN IntegerOf THEN IntegerOf[word] % 256 ELSE 0

\* The answers getValidated takes for a field, and what it makes of them.
Readings(field) ==
  CASE field \in {"name", "toName"} -> [w \in Alphabetic |-> w]
    [] field = "password" -> [w \in AlphaNumeric \ TooLong |-> w]
    [] field = "currency" -> CurrencyOf
    [] field = "amount" -> DoubleOf
    [] field \in {"account", "toAccount", "interval"} ->
         Restrict(IntegerOf, {w \in DOMAIN IntegerOf : IntegerOf[w] \in Uint32})

VARIABLES
  place,    \* see TypeOK
  service,  \* of the command being built
  prompt,   \* the index of the prompt
  tries,    \* the answers it has refused
  cmd,      \* the fields so far
  stdin,
  blankFrom \* ghost: the end that the last blank answer was read from

vars == <<place, service, prompt, tries, cmd, stdin, blankFrom>>

Empty == [f \in {} |-> 0]

Init ==
  /\ place = "Menu" /\ service = "" /\ prompt = 0 /\ tries = 0 /\ cmd = Empty
  /\ stdin = <<>> /\ blankFrom = BlankEnd

Type(line) ==
  /\ place # "Ended" /\ Len(stdin) + Len(line) <= TypeAhead
  /\ stdin' = stdin \o line
  /\ UNCHANGED <<place, service, prompt, tries, cmd, blankFrom>>

\* The user types a word, or Enter alone.
User == Type(<<BlankEnd>>) \/ \E w \in Words : Type(<<w, WordEnd>>)

\* Faulty: the command is not a new one.
SelectInOld ==
  /\ place = "Menu" /\ stdin # <<>> /\ Choice(Head(stdin)) \in DOMAIN ServiceOf
  /\ service' = ServiceOf[Choice(Head(stdin))]
  /\ cmd' = [f \in DOMAIN cmd \cup {"service"} |-> IF f = "service" THEN service' ELSE cmd[f]]
  /\ place' = "Prompt" /\ prompt' = 1 /\ tries' = 0 /\ stdin' = Tail(stdin)
  /\ UNCHANGED blankFrom

\* read_int leaves the end of the line.
Select ==
  /\ place = "Menu" /\ stdin # <<>> /\ Choice(Head(stdin)) \in DOMAIN ServiceOf
  /\ service' = ServiceOf[Choice(Head(stdin))]
  /\ cmd' = [f \in {"service"} |-> service']
  /\ place' = "Prompt" /\ prompt' = 1 /\ tries' = 0 /\ stdin' = Tail(stdin)
  /\ UNCHANGED blankFrom

\* read_int passes over ends of lines.
SkipEnd ==
  /\ place = "Menu" /\ stdin # <<>> /\ Head(stdin) \in Ends
  /\ stdin' = Tail(stdin)
  /\ UNCHANGED <<place, service, prompt, tries, cmd, blankFrom>>

\* Zero, what is no number and counts as zero, or a number that is not in the menu.
Quit ==
  /\ place = "Menu" /\ stdin # <<>> /\ Head(stdin) \notin Ends
  /\ Choice(Head(stdin)) \notin DOMAIN ServiceOf
  /\ place' = "Ended" /\ stdin' = Tail(stdin)
  /\ UNCHANGED <<service, prompt, tries, cmd, blankFrom>>

\* Faulty: no end is skipped.
PeekOnly ==
  /\ place = "Prompt" /\ stdin # <<>> /\ place' = "Reading"
  /\ UNCHANGED <<service, prompt, tries, cmd, stdin, blankFrom>>

\* ensure_clean_buffer: one end is skipped, whatever it is the end of.
Peek ==
  /\ place = "Prompt" /\ stdin # <<>> /\ place' = "Reading"
  /\ stdin' = IF Head(stdin) \in Ends THEN Tail(stdin) ELSE stdin
  /\ UNCHANGED <<service, prompt, tries, cmd, blankFrom>>

\* The rest of the line, which getline takes with its end.
Line == IF Head(stdin) \in Ends THEN <<>> ELSE <<Head(stdin)>>
GetLine == place = "Reading" /\ stdin # <<>> /\ stdin' = SubSeq(stdin, Len(Line) + 2, Len(stdin))

Field == PromptsOf(service)[prompt]
Acceptable == {<<w>> : w \in DOMAIN Readings(Field) \ {"quit"}}

\* Faulty: the tries are not counted.
RefuseUncounted ==
  /\ GetLine /\ Line \notin Acceptable \cup {<<"quit">>}
  /\ place' = "Prompt"
  /\ blankFrom' = IF Line = <<>> THEN Head(stdin) ELSE blankFrom
  /\ UNCHANGED <<service, prompt, tries, cmd>>

\* Faulty: one try too many.
RefuseOneMore ==
  /\ GetLine /\ Line \notin Acceptable \cup {<<"quit">>}
  /\ tries' = tries + 1
  /\ place' = IF tries' > MaxTries THEN "Ended" ELSE "Prompt"
  /\ blankFrom' = IF Line = <<>> THEN Head(stdin) ELSE blankFrom
  /\ UNCHANGED <<service, prompt, cmd>>

\* After the last try the client ends: run breaks on every error but a cancellation.
Refuse ==
  /\ GetLine /\ Line \notin Acceptable \cup {<<"quit">>}
  /\ tries' = tries + 1
  /\ place' = IF tries' = MaxTries THEN "Ended" ELSE "Prompt"
  /\ blankFrom' = IF Line = <<>> THEN Head(stdin) ELSE blankFrom
  /\ UNCHANGED <<service, prompt, cmd>>

Cancel ==
  /\ GetLine /\ Line = <<"quit">> /\ place' = "Menu"
  /\ UNCHANGED <<service, prompt, tries, cmd, blankFrom>>

Accept ==
  /\ GetLine /\ Line \in Acceptable
  /\ cmd' = [f \in DOMAIN cmd \cup {Field} |->
               IF f = Field THEN Readings(Field)[Line[1]] ELSE cmd[f]]
  /\ tries' = 0
  /\ IF prompt = Len(PromptsOf(service))
     THEN place' = "Calling" /\ UNCHANGED prompt
     ELSE place' = "Prompt" /\ prompt' = prompt + 1
  /\ UNCHANGED <<service, blankFrom>>

\* execute_client_req or monitor_server_updates, whatever comes of it.
CallEnds ==
  /\ place = "Calling" /\ place' = "Waiting"
  /\ UNCHANGED <<service, prompt, tries, cmd, stdin, blankFrom>>

\* wait_for_enter drops what it finds up to the end of a line ...
DropLine ==
  /\ place = "Waiting" /\ stdin # <<>> /\ stdin' = Tail(stdin)
  /\ place' = IF Head(stdin) \in Ends THEN "Getting" ELSE "Waiting"
  /\ UNCHANGED <<service, prompt, tries, cmd, blankFrom>>

\* ... and then one character more: an end, or the first character of a word.
DropCharacter ==
  /\ place = "Getting" /\ stdin # <<>> /\ place' = "Menu"
  /\ stdin' = IF Head(stdin) \in DOMAIN WithoutFirst
              THEN <<WithoutFirst[Head(stdin)]>> \o Tail(stdin) ELSE Tail(stdin)
  /\ UNCHANGED <<service, prompt, tries, cmd, blankFrom>>

Client ==
  \/ SkipEnd \/ Select \/ Quit
  \/ Peek \/ Refuse \/ Cancel \/ Accept
  \/ CallEnds \/ DropLine \/ DropCharacter

Next == User \/ Client

Spec == Init /\ [][Next]_vars

\* The client runs when it can, and the user goes on typing where the client waits.
FairSpec == Spec /\ WF_vars(Client) /\ WF_vars(User)

-----------------------------------------------------------------------------
(* Properties. *)

Prompting == place \in {"Prompt", "Reading"}

\* stdin is made of whole lines, but for its front, and a prompt is one of its service.
TypeOK ==
  /\ place \in {"Menu", "Prompt", "Reading", "Calling", "Waiting", "Getting", "Ended"}
  /\ tries \in 0 .. MaxTries
  /\ stdin \in Seq(Words \cup Ends \cup Range(WithoutFirst)) /\ Len(stdin) <= TypeAhead
  /\ Prompting => prompt \in DOMAIN PromptsOf(service) /\ tries < MaxTries

\* Whatever the user answered, corrected and cancelled before: a command that is sent has
\* every field the server's handler requires for its service (handler.go against the
\* fill_ functions of bankClient.cpp).
CallsAreWellFormed == place = "Calling" => WellFormed(cmd)

\* A command holds the fields of its own prompts and none of a command that was cancelled
\* or sent before it (build_command).
CallsHoldOwnFields ==
  place = "Calling" =>
    DOMAIN cmd = {"service"} \cup {PromptsOf(cmd.service)[k] : k \in DOMAIN PromptsOf(cmd.service)}

\* A prompt takes an answer for blank only where the user typed a blank line: the end of
\* line that operator>> left behind at the menu costs no try (ensure_clean_buffer).
NoPhantomAnswers == blankFrom = BlankEnd

\* No prompt is stuck: as long as the user types, every command is sent, cancelled or ends
\* the client after the last try (MAX_TRIES in getValidated).
PromptsEnd == Prompting ~> ~Prompting
=============================================================================
