------------------------- MODULE ClientMenu_proofs -------------------------
(***************************************************************************)
(* Proofs about ClientMenu: whatever words there are, whatever they mean   *)
(* to each prompt and however far the user types ahead, the commands that  *)
(* leave the menu are complete and unmixed, and no prompt takes the end of *)
(* a line that an earlier read left behind for an answer.                  *)
(***************************************************************************)
EXTENDS ClientMenu, SequenceTheorems, TLAPS

\* What stdin is made of.
Tokens == Words \cup Ends \cup Range(WithoutFirst)

\* A word has the end of its line behind it, and an end of a word's line its word before
\* it, but at the front, where the word may be read already.
WholeLines(s) ==
  /\ \A k \in 1 .. Len(s) : s[k] \notin Ends => k < Len(s) /\ s[k + 1] = WordEnd
  /\ \A k \in 2 .. Len(s) : s[k] = WordEnd => s[k - 1] \notin Ends

StdinOK == stdin \in Seq(Tokens) /\ Len(stdin) <= TypeAhead /\ WholeLines(stdin)

\* getline begins at the beginning of a line.
AtLineStart == place = "Reading" /\ stdin # <<>> => stdin[1] # WordEnd

Fields(s, n) == {PromptsOf(s)[k] : k \in 1 .. n}

\* The command holds the answers to the prompts that are done, and no more.
Collected ==
  /\ Prompting =>
       /\ service \in Range(ServiceOf)
       /\ DOMAIN cmd = {"service"} \cup Fields(service, prompt - 1)
       /\ cmd.service = service
  /\ place = "Calling" =>
       /\ service \in Range(ServiceOf)
       /\ DOMAIN cmd = {"service"} \cup Fields(service, Len(PromptsOf(service)))
       /\ cmd.service = service

MenuInv == TypeOK /\ StdinOK /\ AtLineStart /\ Collected /\ NoPhantomAnswers

-----------------------------------------------------------------------------
(* The prompts of a service. *)

\* The prompts of a service, one by one.
LEMMA OpenPrompts ==
  ASSUME NEW p, p = PromptsOf("OpenAccount")
  PROVE  /\ Len(p) = 4 /\ DOMAIN p = 1 .. 4
         /\ p[1] = "name" /\ p[2] = "password" /\ p[3] = "currency" /\ p[4] = "amount"
BY DEF PromptsOf

LEMMA AccountPrompts ==
  ASSUME NEW s \in {"CloseAccount", "GetBalance"}, NEW p, p = PromptsOf(s)
  PROVE  /\ Len(p) = 3 /\ DOMAIN p = 1 .. 3
         /\ p[1] = "name" /\ p[2] = "account" /\ p[3] = "password"
BY DEF PromptsOf

LEMMA MovementPrompts ==
  ASSUME NEW s \in {"Deposit", "Withdraw"}, NEW p, p = PromptsOf(s)
  PROVE  /\ Len(p) = 5 /\ DOMAIN p = 1 .. 5
         /\ p[1] = "name" /\ p[2] = "account" /\ p[3] = "password"
         /\ p[4] = "currency" /\ p[5] = "amount"
<1>1. p = <<"name", "account", "password">> \o <<"currency", "amount">>
  BY DEF PromptsOf
<1> QED BY <1>1

LEMMA TransferPrompts ==
  ASSUME NEW p, p = PromptsOf("TransferFunds")
  PROVE  /\ Len(p) = 7 /\ DOMAIN p = 1 .. 7
         /\ p[1] = "name" /\ p[2] = "account" /\ p[3] = "password"
         /\ p[4] = "toName" /\ p[5] = "toAccount" /\ p[6] = "currency" /\ p[7] = "amount"
<1>1. p = <<"name", "account", "password">> \o <<"toName", "toAccount", "currency", "amount">>
  BY DEF PromptsOf
<1> QED BY <1>1

LEMMA MonitorPrompts ==
  ASSUME NEW p, p = PromptsOf("Monitor")
  PROVE  /\ Len(p) = 4 /\ DOMAIN p = 1 .. 4
         /\ p[1] = "name" /\ p[2] = "account" /\ p[3] = "password" /\ p[4] = "interval"
<1>1. p = <<"name", "account", "password">> \o <<"interval">>
  BY DEF PromptsOf
<1> QED BY <1>1

\* The services of the menu.
LEMMA MenuServices ==
  Range(ServiceOf) = {"OpenAccount", "CloseAccount", "Deposit", "Withdraw", "Monitor",
                      "GetBalance", "TransferFunds"}
BY DEF Range, ServiceOf

\* Each service asks for something, and for all that the server's handler requires.
LEMMA PromptsSuffice ==
  ASSUME NEW s \in Range(ServiceOf), NEW p, p = PromptsOf(s)
  PROVE  /\ Len(p) \in Nat \ {0}
         /\ DOMAIN p = 1 .. Len(p)
         /\ \A k \in DOMAIN p : p[k] # "service"
         /\ s \in Services
         /\ RequiredFields[s] \subseteq {p[k] : k \in 1 .. Len(p)}
<1>1. CASE s = "OpenAccount"
  BY <1>1, OpenPrompts DEF RequiredFields, Services
<1>2. CASE s \in {"CloseAccount", "GetBalance"}
  BY <1>2, AccountPrompts DEF RequiredFields, Services
<1>3. CASE s \in {"Deposit", "Withdraw"}
  <2>1. /\ s \in Services
        /\ RequiredFields[s] = {"name", "account", "password", "currency", "amount"}
    BY <1>3 DEF RequiredFields, Services
  <2>2. /\ Len(p) = 5 /\ DOMAIN p = 1 .. 5
        /\ p[1] = "name" /\ p[2] = "account" /\ p[3] = "password"
        /\ p[4] = "currency" /\ p[5] = "amount"
    BY <1>3, MovementPrompts
  <2> QED BY <2>1, <2>2
<1>4. CASE s = "TransferFunds"
  <2>1. /\ s \in Services
        /\ RequiredFields[s] =
             {"name", "account", "password", "toAccount", "toName", "currency", "amount"}
    BY <1>4 DEF RequiredFields, Services
  <2>2. /\ Len(p) = 7 /\ DOMAIN p = 1 .. 7
        /\ p[1] = "name" /\ p[2] = "account" /\ p[3] = "password"
        /\ p[4] = "toName" /\ p[5] = "toAccount" /\ p[6] = "currency" /\ p[7] = "amount"
    BY <1>4, TransferPrompts
  <2> QED BY <2>1, <2>2
<1>5. CASE s = "Monitor"
  BY <1>5, MonitorPrompts DEF RequiredFields, Services
<1> QED BY <1>1, <1>2, <1>3, <1>4, <1>5, MenuServices

-----------------------------------------------------------------------------
(* Lines in stdin. *)

\* What is left of whole lines is made of whole lines.
LEMMA SuffixOfLines ==
  ASSUME NEW s \in Seq(Tokens), WholeLines(s), NEW m \in 1 .. Len(s) + 1
  PROVE  LET r == SubSeq(s, m, Len(s))
         IN /\ r \in Seq(Tokens)
            /\ Len(r) = Len(s) - m + 1
            /\ \A i \in 1 .. Len(r) : r[i] = s[m + i - 1]
            /\ WholeLines(r)
<1> DEFINE r == SubSeq(s, m, Len(s))
<1>1. Len(s) \in Nat /\ \A i \in m .. Len(s) : s[i] \in Tokens
  BY ElementOfSeq, LenProperties
<1>2. /\ r \in Seq(Tokens)
      /\ Len(r) = Len(s) - m + 1
      /\ \A i \in 1 .. Len(s) - m + 1 : r[i] = s[m + i - 1]
  BY <1>1, SubSeqProperties
<1> HIDE DEF r
<1>3. ASSUME NEW k \in 1 .. Len(r), r[k] \notin Ends
      PROVE  k < Len(r) /\ r[k + 1] = WordEnd
  <2>1. m + k - 1 \in 1 .. Len(s) /\ s[m + k - 1] \notin Ends
    BY <1>1, <1>2, <1>3
  <2>2. m + k - 1 < Len(s) /\ s[(m + k - 1) + 1] = WordEnd
    BY <2>1 DEF WholeLines
  <2>3. k + 1 \in 1 .. Len(r) /\ m + (k + 1) - 1 = (m + k - 1) + 1
    BY <1>1, <1>2, <2>2
  <2> QED BY <1>2, <2>2, <2>3
<1>4. ASSUME NEW k \in 2 .. Len(r), r[k] = WordEnd
      PROVE  r[k - 1] \notin Ends
  <2>1. m + k - 1 \in 2 .. Len(s) /\ s[m + k - 1] = WordEnd
    BY <1>1, <1>2, <1>4
  <2>2. s[(m + k - 1) - 1] \notin Ends
    BY <2>1 DEF WholeLines
  <2>3. k - 1 \in 1 .. Len(r) /\ m + (k - 1) - 1 = (m + k - 1) - 1
    BY <1>1, <1>2
  <2> QED BY <1>2, <2>2, <2>3
<1> QED BY <1>1, <1>2, <1>3, <1>4 DEF WholeLines, r

\* The same of the tail.
LEMMA TailOfLines ==
  ASSUME NEW s \in Seq(Tokens), s # <<>>, WholeLines(s)
  PROVE  /\ Tail(s) \in Seq(Tokens)
         /\ Len(Tail(s)) = Len(s) - 1
         /\ \A i \in 1 .. Len(s) - 1 : Tail(s)[i] = s[i + 1]
         /\ WholeLines(Tail(s))
<1> DEFINE r == SubSeq(s, 2, Len(s))
<1>1. Tail(s) = r
  BY TailIsSubSeq
<1>0. Len(s) \in Nat \ {0}
  BY EmptySeq
<1>2. 2 \in 1 .. Len(s) + 1
  BY <1>0
<1>3. /\ r \in Seq(Tokens) /\ Len(r) = Len(s) - 2 + 1 /\ WholeLines(r)
      /\ \A i \in 1 .. Len(r) : r[i] = s[2 + i - 1]
  BY <1>2, SuffixOfLines
<1> HIDE DEF r
<1>4. \A i \in 1 .. Len(s) - 1 : r[i] = s[i + 1]
  BY <1>0, <1>3
<1>5. Len(r) = Len(s) - 1
  BY <1>0, <1>3
<1>6. /\ r \in Seq(Tokens) /\ Len(r) = Len(s) - 1 /\ WholeLines(r)
      /\ \A i \in 1 .. Len(s) - 1 : r[i] = s[i + 1]
  BY <1>3, <1>4, <1>5
<1> QED BY <1>1, <1>6

\* A line typed behind whole lines.
LEMMA LinesAndLine ==
  ASSUME NEW s \in Seq(Tokens), WholeLines(s), NEW line \in Seq(Tokens), WholeLines(line),
         line # <<>>, line[1] # WordEnd
  PROVE  /\ s \o line \in Seq(Tokens)
         /\ Len(s \o line) = Len(s) + Len(line)
         /\ (s \o line)[1] = IF s = <<>> THEN line[1] ELSE s[1]
         /\ WholeLines(s \o line)
<1> DEFINE r == s \o line
<1>1. Len(s) \in Nat /\ Len(line) \in Nat \ {0} /\ (s # <<>> => Len(s) # 0)
  BY EmptySeq
<1>2. /\ r \in Seq(Tokens)
      /\ Len(r) = Len(s) + Len(line)
      /\ \A i \in 1 .. Len(s) + Len(line) :
           r[i] = IF i <= Len(s) THEN s[i] ELSE line[i - Len(s)]
  BY ConcatProperties
<1>3. s = <<>> => Len(s) = 0
  OBVIOUS
<1> HIDE DEF r
<1>4. ASSUME NEW k \in 1 .. Len(r), r[k] \notin Ends
      PROVE  k < Len(r) /\ r[k + 1] = WordEnd
  <2>1. CASE k <= Len(s)
    <3>1. k < Len(s) /\ s[k + 1] = WordEnd
      BY <1>1, <1>2, <1>4, <2>1 DEF WholeLines
    <3> QED BY <1>1, <1>2, <3>1
  <2>2. CASE k > Len(s)
    <3>1. k - Len(s) \in 1 .. Len(line) /\ line[k - Len(s)] \notin Ends
      BY <1>1, <1>2, <1>4, <2>2
    <3>2. k - Len(s) < Len(line) /\ line[(k - Len(s)) + 1] = WordEnd
      BY <3>1 DEF WholeLines
    <3>3. (k - Len(s)) + 1 = (k + 1) - Len(s) /\ k + 1 \in 1 .. Len(r) /\ ~ (k + 1 <= Len(s))
      BY <1>1, <1>2, <2>2, <3>2
    <3> QED BY <1>1, <1>2, <3>2, <3>3
  <2> QED BY <1>1, <2>1, <2>2
<1>5. ASSUME NEW k \in 2 .. Len(r), r[k] = WordEnd
      PROVE  r[k - 1] \notin Ends
  <2>1. CASE k <= Len(s)
    <3>1. s[k - 1] \notin Ends
      BY <1>1, <1>2, <1>5, <2>1 DEF WholeLines
    <3> QED BY <1>1, <1>2, <2>1, <3>1
  <2>2. CASE k = Len(s) + 1
    BY <1>1, <1>2, <1>5, <2>2
  <2>3. CASE k > Len(s) + 1
    <3>1. k - Len(s) \in 2 .. Len(line) /\ line[k - Len(s)] = WordEnd
      BY <1>1, <1>2, <1>5, <2>3
    <3>2. line[(k - Len(s)) - 1] \notin Ends
      BY <3>1 DEF WholeLines
    <3>3. (k - Len(s)) - 1 = (k - 1) - Len(s) /\ k - 1 \in 1 .. Len(r) /\ ~ (k - 1 <= Len(s))
      BY <1>1, <1>2, <2>3
    <3> QED BY <1>1, <1>2, <3>2, <3>3
  <2> QED BY <1>1, <2>1, <2>2, <2>3
<1>6. r[1] = IF s = <<>> THEN line[1] ELSE s[1]
  <2>1. 1 \in 1 .. Len(s) + Len(line)
    BY <1>1
  <2>2. CASE s = <<>>
    BY <1>1, <1>2, <1>3, <2>1, <2>2
  <2>3. CASE s # <<>>
    BY <1>1, <1>2, <2>1, <2>3
  <2> QED BY <2>2, <2>3
<1> QED BY <1>2, <1>4, <1>5, <1>6 DEF WholeLines, r
-----------------------------------------------------------------------------
(* The invariant. *)

LEMMA HeadIsFirst ==
  ASSUME stdin \in Seq(Tokens), stdin # <<>>
  PROVE  Head(stdin) = stdin[1] /\ Len(stdin) \in Nat \ {0}
BY EmptySeq

\* What the user types is one line.
LEMMA TypedLine ==
  ASSUME NEW w, w = BlankEnd \/ w \in Words,
         NEW line, line = IF w = BlankEnd THEN <<w>> ELSE <<w, WordEnd>>
  PROVE  line \in Seq(Tokens) /\ WholeLines(line) /\ line # <<>> /\ line[1] # WordEnd
<1>1. CASE w = BlankEnd
  <2>1. line \in Seq(Tokens) /\ Len(line) = 1 /\ line[1] = BlankEnd
    BY <1>1 DEF Tokens, Ends
  <2>2. BlankEnd \in Ends /\ BlankEnd # WordEnd
    BY DEF Ends, WordEnd, BlankEnd
  <2>3. 1 .. Len(line) = {1} /\ 2 .. Len(line) = {}
    BY <2>1
  <2>4. WholeLines(line)
    BY <2>1, <2>2, <2>3 DEF WholeLines
  <2>5. line # <<>>
    BY <2>1
  <2> QED BY <2>1, <2>2, <2>4, <2>5
<1>2. CASE w # BlankEnd
  <2>1. w \in Words /\ w \notin Ends
    BY <1>2, MenuAssumption
  <2>2. line \in Seq(Tokens) /\ Len(line) = 2 /\ line[1] = w /\ line[2] = WordEnd
    BY <1>2, <2>1 DEF Tokens, Ends
  <2>3. WordEnd \in Ends
    BY DEF Ends
  <2>4. WholeLines(line)
    <3>1. ASSUME NEW k \in 1 .. Len(line), line[k] \notin Ends
          PROVE  k < Len(line) /\ line[k + 1] = WordEnd
      BY <2>2, <2>3, <3>1
    <3>2. ASSUME NEW k \in 2 .. Len(line) PROVE line[k - 1] \notin Ends
      BY <2>1, <2>2
    <3> QED BY <3>1, <3>2 DEF WholeLines
  <2>5. line # <<>>
    BY <2>2
  <2> QED BY <2>1, <2>2, <2>3, <2>4, <2>5
<1> QED BY <1>1, <1>2

\* A line read, or what is left of one.
LEMMA LineRead ==
  ASSUME StdinOK, GetLine
  PROVE  StdinOK' /\ (Line # <<>> => Line = <<stdin[1]>>) /\ (Line = <<>> <=> stdin[1] \in Ends)
<1>1. Head(stdin) = stdin[1] /\ Len(stdin) \in Nat \ {0}
  BY HeadIsFirst DEF StdinOK, GetLine
<1>2. CASE stdin[1] \in Ends
  <2>1. Line = <<>> /\ stdin' = SubSeq(stdin, 2, Len(stdin))
    BY <1>1, <1>2 DEF Line, GetLine
  <2>2. 2 \in 1 .. Len(stdin) + 1
    BY <1>1
  <2>3. stdin' \in Seq(Tokens) /\ Len(stdin') = Len(stdin) - 2 + 1 /\ WholeLines(stdin')
    BY <2>1, <2>2, SuffixOfLines DEF StdinOK
  <2> QED BY <1>1, <1>2, <2>1, <2>3, MenuAssumption DEF StdinOK
<1>3. CASE stdin[1] \notin Ends
  <2>1. Line = <<stdin[1]>> /\ stdin' = SubSeq(stdin, 3, Len(stdin))
    BY <1>1, <1>3 DEF Line, GetLine
  <2>2. 1 < Len(stdin)
    BY <1>1, <1>3 DEF StdinOK, WholeLines
  <2>3. 3 \in 1 .. Len(stdin) + 1
    BY <1>1, <2>2
  <2>4. stdin' \in Seq(Tokens) /\ Len(stdin') = Len(stdin) - 3 + 1 /\ WholeLines(stdin')
    BY <2>1, <2>3, SuffixOfLines DEF StdinOK
  <2> QED BY <1>1, <1>3, <2>1, <2>4, MenuAssumption DEF StdinOK
<1> QED BY <1>2, <1>3

\* A token read, and what is behind an end is the beginning of a line.
LEMMA TokenRead ==
  ASSUME StdinOK, stdin # <<>>, stdin' = Tail(stdin)
  PROVE  StdinOK' /\ (stdin[1] \in Ends /\ stdin' # <<>> => stdin'[1] # WordEnd)
<1>1. Len(stdin) \in Nat \ {0}
  BY HeadIsFirst DEF StdinOK
<1>2. /\ stdin' \in Seq(Tokens) /\ Len(stdin') = Len(stdin) - 1 /\ WholeLines(stdin')
      /\ \A i \in 1 .. Len(stdin) - 1 : stdin'[i] = stdin[i + 1]
  BY TailOfLines DEF StdinOK
<1>3. StdinOK'
  BY <1>1, <1>2, MenuAssumption DEF StdinOK
<1>4. ASSUME stdin[1] \in Ends, stdin' # <<>> PROVE stdin'[1] # WordEnd
  <2>1. Len(stdin') \in Nat \ {0}
    BY <1>2, <1>4, EmptySeq
  <2>2. 2 \in 2 .. Len(stdin) /\ stdin'[1] = stdin[2]
    BY <1>1, <1>2, <2>1
  <2> QED BY <1>4, <2>2 DEF StdinOK, WholeLines
<1> QED BY <1>3, <1>4

\* Every step leaves whole lines, and getline at the beginning of one.
LEMMA LinesStep ==
  ASSUME StdinOK, AtLineStart, [Next]_vars
  PROVE  StdinOK' /\ AtLineStart'
<1>1. ASSUME User PROVE StdinOK' /\ AtLineStart'
  <2>1. PICK w, line : /\ w = BlankEnd \/ w \in Words
                       /\ line = IF w = BlankEnd THEN <<w>> ELSE <<w, WordEnd>>
                       /\ Type(line)
    <3>1. \A w \in Words : w # BlankEnd
      BY MenuAssumption DEF Ends
    <3> QED BY <1>1, <3>1 DEF User
  <2>2. line \in Seq(Tokens) /\ WholeLines(line) /\ line # <<>> /\ line[1] # WordEnd
    BY <2>1, TypedLine
  <2>3. /\ stdin' = stdin \o line /\ Len(stdin) + Len(line) <= TypeAhead
        /\ place' = place
    BY <2>1 DEF Type
  <2>4. /\ stdin' \in Seq(Tokens) /\ Len(stdin') = Len(stdin) + Len(line)
        /\ stdin'[1] = IF stdin = <<>> THEN line[1] ELSE stdin[1]
        /\ WholeLines(stdin')
    BY <2>2, <2>3, LinesAndLine DEF StdinOK
  <2> QED BY <2>2, <2>3, <2>4 DEF StdinOK, AtLineStart
<1>2. CASE Select \/ SkipEnd \/ Quit \/ DropLine
  <2>1. stdin # <<>> /\ stdin' = Tail(stdin) /\ place' # "Reading"
    BY <1>2 DEF Select, SkipEnd, Quit, DropLine
  <2> QED BY <2>1, TokenRead DEF AtLineStart
<1>3. CASE Peek
  <2>1. stdin # <<>> /\ Head(stdin) = stdin[1]
    BY <1>3, HeadIsFirst DEF Peek, StdinOK
  <2>2. CASE stdin[1] \in Ends
    BY <1>3, <2>1, <2>2, TokenRead DEF Peek, AtLineStart
  <2>3. CASE stdin[1] \notin Ends
    BY <1>3, <2>1, <2>3 DEF Peek, AtLineStart, StdinOK, Ends
  <2> QED BY <2>2, <2>3
<1>4. CASE Refuse \/ Cancel \/ Accept
  <2>1. GetLine /\ place' # "Reading"
    BY <1>4 DEF Refuse, Cancel, Accept
  <2> QED BY <2>1, LineRead DEF AtLineStart
<1>5. CASE DropCharacter
  <2>1. stdin # <<>> /\ place' # "Reading" /\ Head(stdin) = stdin[1] /\ Len(stdin) \in Nat \ {0}
    BY <1>5, HeadIsFirst DEF DropCharacter, StdinOK
  <2>2. CASE stdin[1] \notin DOMAIN WithoutFirst
    <3>1. stdin' = Tail(stdin)
      BY <1>5, <2>1, <2>2 DEF DropCharacter
    <3> QED BY <2>1, <3>1, TokenRead DEF AtLineStart
  <2>3. CASE stdin[1] \in DOMAIN WithoutFirst
    <3> DEFINE first == WithoutFirst[stdin[1]]
               rest == Tail(stdin)
    <3>1. stdin' = <<first>> \o rest
      BY <1>5, <2>1, <2>3 DEF DropCharacter
    <3>2. first \in Tokens /\ first \notin Ends /\ stdin[1] \notin Ends
      BY <2>3, MenuAssumption DEF Tokens, Range
    <3>3. /\ rest \in Seq(Tokens) /\ Len(rest) = Len(stdin) - 1
          /\ \A i \in 1 .. Len(stdin) - 1 : rest[i] = stdin[i + 1]
      BY <2>1, TailOfLines DEF StdinOK
    <3> HIDE DEF first, rest
    <3>4. <<first>> \in Seq(Tokens) /\ Len(<<first>>) = 1 /\ <<first>>[1] = first
      BY <3>2
    <3>5. /\ stdin' \in Seq(Tokens) /\ Len(stdin') = Len(stdin)
          /\ \A i \in 1 .. Len(stdin) : stdin'[i] = IF i = 1 THEN first ELSE stdin[i]
      <4>1. /\ stdin' \in Seq(Tokens) /\ Len(stdin') = 1 + Len(rest)
            /\ \A i \in 1 .. 1 + Len(rest) : stdin'[i] = IF i <= 1 THEN <<first>>[i] ELSE rest[i - 1]
        BY <3>1, <3>3, <3>4, ConcatProperties
      <4>2. ASSUME NEW i \in 1 .. Len(stdin) PROVE stdin'[i] = IF i = 1 THEN first ELSE stdin[i]
        <5>1. CASE i = 1
          BY <2>1, <3>3, <3>4, <4>1, <5>1
        <5>2. CASE i # 1
          <6>1. i - 1 \in 1 .. Len(stdin) - 1 /\ (i - 1) + 1 = i /\ ~ (i <= 1)
            BY <2>1, <5>2
          <6>2. rest[i - 1] = stdin[(i - 1) + 1]
            BY <3>3, <6>1
          <6> QED BY <2>1, <3>3, <4>1, <5>2, <6>1, <6>2
        <5> QED BY <5>1, <5>2
      <4> QED BY <2>1, <3>3, <4>1, <4>2
    <3>6. WholeLines(stdin')
      <4>1. ASSUME NEW k \in 1 .. Len(stdin), stdin'[k] \notin Ends
            PROVE  k < Len(stdin) /\ stdin'[k + 1] = WordEnd
        <5>1. stdin[k] \notin Ends
          BY <3>2, <3>5, <4>1
        <5>2. k < Len(stdin) /\ stdin[k + 1] = WordEnd
          BY <5>1 DEF StdinOK, WholeLines
        <5> QED BY <2>1, <3>5, <5>2
      <4>2. ASSUME NEW k \in 2 .. Len(stdin), stdin'[k] = WordEnd
            PROVE  stdin'[k - 1] \notin Ends
        <5>1. stdin[k] = WordEnd
          BY <3>5, <4>2
        <5>2. stdin[k - 1] \notin Ends
          BY <5>1 DEF StdinOK, WholeLines
        <5> QED BY <2>1, <3>2, <3>5, <5>2
      <4> QED BY <3>5, <4>1, <4>2 DEF WholeLines
    <3> QED BY <2>1, <3>5, <3>6 DEF StdinOK, AtLineStart
  <2> QED BY <2>2, <2>3
<1>6. CASE CallEnds \/ UNCHANGED vars
  BY <1>6 DEF CallEnds, vars, StdinOK, AtLineStart
<1> QED BY <1>1, <1>2, <1>3, <1>4, <1>5, <1>6 DEF Next, Client

\* A command is begun with nothing but its service, and grows by the field of its prompt.
LEMMA CollectedStep ==
  ASSUME TypeOK, Collected, [Next]_vars
  PROVE  Collected'
<1>1. CASE User
  BY <1>1 DEF User, Type, Collected, Prompting
<1>2. CASE Select
  <2>1. /\ place' = "Prompt" /\ prompt' = 1 /\ service' \in Range(ServiceOf)
        /\ cmd' = [f \in {"service"} |-> service']
    BY <1>2 DEF Select, Range
  <2>2. Fields(service', prompt' - 1) = {}
    BY <2>1 DEF Fields
  <2>3. DOMAIN cmd' = {"service"} /\ cmd'.service = service'
    BY <2>1
  <2> QED BY <2>1, <2>2, <2>3 DEF Collected, Prompting
<1>3. CASE SkipEnd \/ Quit \/ Cancel \/ CallEnds \/ DropLine \/ DropCharacter
  BY <1>3 DEF SkipEnd, Quit, Cancel, CallEnds, DropLine, DropCharacter, Collected, Prompting
<1>4. CASE Peek \/ Refuse
  BY <1>4 DEF Peek, Refuse, GetLine, Collected, Prompting
<1>5. CASE Accept
  <2> DEFINE p == PromptsOf(service)
  <2>1. /\ Prompting /\ service \in Range(ServiceOf) /\ service' = service
        /\ DOMAIN cmd = {"service"} \cup Fields(service, prompt - 1)
        /\ cmd.service = service
    BY <1>5 DEF Accept, GetLine, Collected, Prompting
  <2>2. /\ Len(p) \in Nat \ {0} /\ DOMAIN p = 1 .. Len(p) /\ prompt \in 1 .. Len(p)
        /\ \A k \in DOMAIN p : p[k] # "service"
    BY <2>1, PromptsSuffice DEF TypeOK
  <2>3. /\ DOMAIN cmd' = DOMAIN cmd \cup {p[prompt]}
        /\ p[prompt] # "service"
        /\ cmd'.service = cmd.service
    BY <1>5, <2>1, <2>2 DEF Accept, Field
  <2>4. Fields(service, prompt) = Fields(service, prompt - 1) \cup {p[prompt]}
    <3>1. 1 .. prompt = (1 .. prompt - 1) \cup {prompt}
      BY <2>2
    <3> QED BY <3>1 DEF Fields
  <2>5. CASE prompt = Len(p)
    BY <1>5, <2>1, <2>3, <2>4, <2>5 DEF Accept, Collected, Prompting
  <2>6. CASE prompt # Len(p)
    <3>1. place' = "Prompt" /\ prompt' = prompt + 1
      BY <1>5, <2>6 DEF Accept
    <3>2. prompt' - 1 = prompt
      BY <2>2, <3>1
    <3> QED BY <2>1, <2>3, <2>4, <3>1, <3>2 DEF Collected, Prompting
  <2> QED BY <2>5, <2>6
<1>6. CASE UNCHANGED vars
  BY <1>6 DEF vars, Collected, Prompting
<1> QED BY <1>1, <1>2, <1>3, <1>4, <1>5, <1>6 DEF Next, Client

\* The place, the prompt and the tries stay in their ranges.
LEMMA TypeStep ==
  ASSUME TypeOK, Collected, StdinOK', [Next]_vars
  PROVE  TypeOK'
<1> USE MenuAssumption
<1>1. stdin' \in Seq(Words \cup Ends \cup Range(WithoutFirst)) /\ Len(stdin') <= TypeAhead
  BY DEF StdinOK, Tokens
<1>2. CASE User
  BY <1>1, <1>2 DEF User, Type, TypeOK, Prompting
<1>3. CASE Select
  <2>1. /\ place' = "Prompt" /\ prompt' = 1 /\ tries' = 0 /\ service' \in Range(ServiceOf)
    BY <1>3 DEF Select, Range
  <2>2. 1 \in DOMAIN PromptsOf(service')
    BY <2>1, PromptsSuffice
  <2> QED BY <1>1, <2>1, <2>2 DEF TypeOK, Prompting
<1>4. CASE SkipEnd \/ Quit \/ Cancel \/ CallEnds \/ DropLine \/ DropCharacter
  BY <1>1, <1>4 DEF SkipEnd, Quit, Cancel, CallEnds, DropLine, DropCharacter, TypeOK, Prompting
<1>5. CASE Peek \/ Refuse
  BY <1>1, <1>5 DEF Peek, Refuse, GetLine, TypeOK, Prompting
<1>6. CASE Accept
  <2>1. Prompting /\ service \in Range(ServiceOf) /\ service' = service /\ tries' = 0
    BY <1>6 DEF Accept, GetLine, Collected, Prompting
  <2>2. /\ Len(PromptsOf(service)) \in Nat \ {0} /\ prompt \in DOMAIN PromptsOf(service)
        /\ DOMAIN PromptsOf(service) = 1 .. Len(PromptsOf(service))
    BY <2>1, PromptsSuffice DEF TypeOK
  <2>3. CASE prompt = Len(PromptsOf(service))
    BY <1>1, <1>6, <2>1, <2>3 DEF Accept, TypeOK, Prompting
  <2>4. CASE prompt # Len(PromptsOf(service))
    <3>1. place' = "Prompt" /\ prompt' \in DOMAIN PromptsOf(service)
      BY <1>6, <2>2, <2>4 DEF Accept
    <3> QED BY <1>1, <2>1, <3>1 DEF TypeOK, Prompting
  <2> QED BY <2>3, <2>4
<1>7. CASE UNCHANGED vars
  BY <1>7 DEF vars, TypeOK, Prompting
<1> QED BY <1>2, <1>3, <1>4, <1>5, <1>6, <1>7 DEF Next, Client

\* A blank answer is a blank line.
LEMMA PhantomStep ==
  ASSUME StdinOK, AtLineStart, NoPhantomAnswers, [Next]_vars
  PROVE  NoPhantomAnswers'
<1>1. CASE Refuse
  <2>1. CASE Line = <<>>
    <3>1. Head(stdin) = stdin[1] /\ stdin[1] \in Ends /\ stdin[1] # WordEnd
      BY <1>1, <2>1, HeadIsFirst, LineRead DEF Refuse, GetLine, StdinOK, AtLineStart
    <3> QED BY <1>1, <2>1, <3>1 DEF Refuse, NoPhantomAnswers, Ends
  <2>2. CASE Line # <<>>
    BY <1>1, <2>2 DEF Refuse, NoPhantomAnswers
  <2> QED BY <2>1, <2>2
<1>2. CASE ~ Refuse
  <2>1. UNCHANGED blankFrom
    BY <1>2 DEF Next, Client, User, Type, Select, SkipEnd, Quit, Peek, Cancel, Accept, CallEnds,
               DropLine, DropCharacter, vars
  <2> QED BY <2>1 DEF NoPhantomAnswers
<1> QED BY <1>1, <1>2

LEMMA MenuInvInit == ASSUME Init PROVE MenuInv
<1>1. stdin \in Seq(Tokens) /\ Len(stdin) = 0 /\ stdin = <<>>
  BY EmptySeq DEF Init
<1>2. StdinOK
  BY <1>1, MenuAssumption DEF StdinOK, WholeLines
<1>3. TypeOK
  <2>1. stdin \in Seq(Words \cup Ends \cup Range(WithoutFirst)) /\ Len(stdin) <= TypeAhead
    BY <1>1, MenuAssumption DEF Tokens
  <2>2. place = "Menu" /\ tries = 0
    BY DEF Init
  <2>3. 0 \in 0 .. MaxTries
    BY MenuAssumption
  <2> QED BY <2>1, <2>2, <2>3 DEF TypeOK, Prompting
<1> QED BY <1>1, <1>2, <1>3 DEF Init, MenuInv, AtLineStart, Collected, Prompting, NoPhantomAnswers

LEMMA MenuInvNext == ASSUME MenuInv, [Next]_vars PROVE MenuInv'
BY LinesStep, CollectedStep, TypeStep, PhantomStep DEF MenuInv

LEMMA MenuInvAlways == Spec => []MenuInv
BY MenuInvInit, MenuInvNext, PTL DEF Spec

-----------------------------------------------------------------------------
(* What follows. *)

\* The variables stay in their ranges: a prompt refuses MAX_TRIES answers at most, and
\* the user's lines stay whole behind the one that is being read.
THEOREM MenuTyped == Spec => []TypeOK
BY MenuInvAlways, PTL DEF MenuInv

\* Whatever words there are and whatever the user cancelled and corrected before, a command
\* that leaves the menu has all the fields its service requires (bankClient.cpp: the fill_
\* functions; handler.go: the checks for missing fields).
THEOREM CallsAreWellFormedAlways == Spec => []CallsAreWellFormed
<1>1. ASSUME MenuInv, place = "Calling" PROVE WellFormed(cmd)
  <2>1. /\ service \in Range(ServiceOf)
        /\ DOMAIN cmd = {"service"} \cup Fields(service, Len(PromptsOf(service)))
        /\ cmd.service = service
    BY <1>1 DEF MenuInv, Collected
  <2>2. service \in Services /\ RequiredFields[service] \subseteq Fields(service, Len(PromptsOf(service)))
    BY <2>1, PromptsSuffice DEF Fields
  <2> QED BY <2>1, <2>2 DEF WellFormed
<1>2. MenuInv => CallsAreWellFormed
  BY <1>1 DEF CallsAreWellFormed
<1> QED BY <1>2, MenuInvAlways, PTL

\* Such a command holds the answers to its own prompts and nothing else (bankClient.cpp:
\* build_command begins each with an empty one).
THEOREM CallsHoldOwnFieldsAlways == Spec => []CallsHoldOwnFields
<1>1. ASSUME MenuInv, place = "Calling"
      PROVE  DOMAIN cmd = {"service"} \cup
               {PromptsOf(cmd.service)[k] : k \in DOMAIN PromptsOf(cmd.service)}
  <2>1. /\ service \in Range(ServiceOf)
        /\ DOMAIN cmd = {"service"} \cup Fields(service, Len(PromptsOf(service)))
        /\ cmd.service = service
    BY <1>1 DEF MenuInv, Collected
  <2>2. DOMAIN PromptsOf(service) = 1 .. Len(PromptsOf(service))
    BY <2>1, PromptsSuffice
  <2> QED BY <2>1, <2>2 DEF Fields
<1>2. MenuInv => CallsHoldOwnFields
  BY <1>1 DEF CallsHoldOwnFields
<1> QED BY <1>2, MenuInvAlways, PTL

\* However far the user types ahead, no prompt takes for a blank answer the end of a line
\* that operator>> left behind (bankIO.cpp: ensure_clean_buffer).
THEOREM NoPhantomAnswersAlways == Spec => []NoPhantomAnswers
BY MenuInvAlways, PTL DEF MenuInv
=============================================================================
