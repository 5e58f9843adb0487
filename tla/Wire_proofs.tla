------------------------------ MODULE Wire_proofs ------------------------------
(***************************************************************************)
(* What one side encodes the other decodes: every command reaches the bank *)
(* as it was meant or, cut to the server's buffer, not at all; the client  *)
(* shows the outcome the bank came to; and a monitoring client prints the  *)
(* updates it was sent.  For every width of an octet, buffer and password  *)
(* field, and whatever commands the client's prompts allow.                *)
(*                                                                         *)
(* From the bottom: numbers of so many octets, pieces of sequences, the    *)
(* tables of both programs, fields one behind the other and the decoders   *)
(* that walk over them, headers; then a request, a reply and a callback    *)
(* as they are read; the bank on passwords of fixed size; and at the end   *)
(* the invariants of Wire.                                                 *)
(***************************************************************************)
EXTENDS Wire, Bank_proofs, SequenceTheorems
-----------------------------------------------------------------------------
(* Numbers and octets. *)

\* A fact of all numbers up to N, from each to the next.
LEMMA InductionUpTo ==
  ASSUME NEW N \in Nat, NEW P, 0 \in P, \A k \in 1 .. N : k - 1 \in P => k \in P
  PROVE  0 .. N \subseteq P
<1> DEFINE Q == {k \in Nat : k <= N => k \in P}
<1>1. 0 \in Q
  OBVIOUS
<1>2. ASSUME NEW k \in Nat, k \in Q PROVE k + 1 \in Q
  <2>1. ASSUME k + 1 <= N PROVE k + 1 \in P
    <3>1. k \in P /\ k + 1 \in 1 .. N /\ (k + 1) - 1 = k
      BY <1>2, <2>1
    <3> QED BY <3>1
  <2> QED BY <2>1
<1>3. Nat \subseteq Q
  <2> HIDE DEF Q
  <2> QED BY <1>1, <1>2, NumberInduction
<1> QED BY <1>3

LEMMA NumbersAre ==
  \A n \in 0 .. 8 : Numbers[n] = (IF n = 0 THEN 1 ELSE Octets * Numbers[n - 1]) /\ Numbers[n] \in Nat
<1> DEFINE times == [x \in Nat |-> Octets * x]
<1>1. 8 \in Nat /\ 1 \in Nat /\ times \in [Nat -> Nat]
  BY OctetAssumption
<1>2. PICK f \in [0 .. 8 -> Nat] : Recursion(f, 8, 1, times)
  <2> HIDE DEF times
  <2> QED BY <1>1, RecursionUpTo
<1>3. ASSUME NEW n \in 0 .. 8 PROVE f[n] = IF n = 0 THEN 1 ELSE Octets * f[n - 1]
  <2>1. f[n] = IF n = 0 THEN 1 ELSE times[f[n - 1]]
    BY <1>2 DEF Recursion
  <2>2. n # 0 => f[n - 1] \in Nat
    OBVIOUS
  <2> QED BY <2>1, <2>2
<1>4. f = [n \in 0 .. 8 |-> IF n = 0 THEN 1 ELSE Octets * f[n - 1]]
  BY <1>3
<1>5. Numbers = [n \in 0 .. 8 |-> IF n = 0 THEN 1 ELSE Octets * Numbers[n - 1]]
  BY <1>4 DEF Numbers
<1>6. \A n \in 0 .. 8 : Numbers[n] = IF n = 0 THEN 1 ELSE Octets * Numbers[n - 1]
  BY <1>5
<1> DEFINE P == {n \in 0 .. 8 : Numbers[n] \in Nat}
<1>7. 0 \in P
  BY <1>6
<1>8. ASSUME NEW n \in 1 .. 8, n - 1 \in P PROVE n \in P
  <2>1. Numbers[n] = Octets * Numbers[n - 1]
    BY <1>6
  <2> QED BY <1>8, <2>1, OctetAssumption
<1>9. 0 .. 8 \subseteq P
  <2> HIDE DEF P
  <2> QED BY <1>7, <1>8, InductionUpTo
<1> QED BY <1>6, <1>9

\* What is left of n as octets are taken off.
Leaves(f, n, width) == \A k \in 0 .. width : f[k] = IF k = 0 THEN n ELSE f[k - 1] \div Octets

LEMMA Divides == ASSUME NEW x \in Nat PROVE x \div Octets \in Nat /\ x = ((x \div Octets) * Octets) + (x % Octets)
  BY OctetAssumption

LEMMA BigEndianIs ==
  ASSUME NEW n \in Nat, NEW width \in Nat
  PROVE  \E f \in [0 .. width -> Nat] :
           Leaves(f, n, width) /\ BigEndian(n, width) = [i \in 1 .. width |-> f[width - i] % Octets]
<1> DEFINE Left == CHOOSE f : f = [k \in 0 .. width |-> IF k = 0 THEN n ELSE f[k - 1] \div Octets]
           div == [x \in Nat |-> x \div Octets]
<1>1. div \in [Nat -> Nat]
  BY Divides
<1>2. PICK f \in [0 .. width -> Nat] : Recursion(f, width, n, div)
  <2> HIDE DEF div
  <2> QED BY <1>1, RecursionUpTo
<1>3. ASSUME NEW k \in 0 .. width PROVE f[k] = IF k = 0 THEN n ELSE f[k - 1] \div Octets
  <2>1. f[k] = IF k = 0 THEN n ELSE div[f[k - 1]]
    BY <1>2 DEF Recursion
  <2>2. k # 0 => f[k - 1] \in Nat
    OBVIOUS
  <2> QED BY <2>1, <2>2
<1>4. f = [k \in 0 .. width |-> IF k = 0 THEN n ELSE f[k - 1] \div Octets]
  BY <1>3
<1>5. Left = [k \in 0 .. width |-> IF k = 0 THEN n ELSE Left[k - 1] \div Octets]
  BY <1>4
<1>6. BigEndian(n, width) = [i \in 1 .. width |-> Left[width - i] % Octets]
  BY DEF BigEndian
<1> HIDE DEF Left
<1>7. Leaves(Left, n, width) /\ DOMAIN Left = 0 .. width
  BY <1>5 DEF Leaves
<1>8. Left \in [0 .. width -> Nat]
  <2> DEFINE P == {k \in 0 .. width : Left[k] \in Nat}
  <2>1. 0 \in P
    BY <1>7 DEF Leaves
  <2>2. ASSUME NEW k \in 1 .. width, k - 1 \in P PROVE k \in P
    <3>1. k \in 0 .. width /\ k # 0 /\ Left[k - 1] \in Nat
      BY <2>2
    <3>2. Left[k] = Left[k - 1] \div Octets
      BY <1>7, <3>1 DEF Leaves
    <3> QED BY <3>1, <3>2, Divides
  <2>3. 0 .. width \subseteq P
    <3> HIDE DEF P
    <3> QED BY <2>1, <2>2, InductionUpTo
  <2>4. Left = [k \in 0 .. width |-> Left[k]]
    BY <1>5
  <2> QED BY <2>3, <2>4
<1> QED BY <1>6, <1>7, <1>8

\* n has so many octets: so has each rest of it that many less.
LEMMA LeavesShrink ==
  ASSUME NEW width \in 0 .. 8, NEW n \in Nat, n < Numbers[width],
         NEW f \in [0 .. width -> Nat], Leaves(f, n, width)
  PROVE  f[width] = 0
<1> DEFINE P == {k \in 0 .. width : f[k] < Numbers[width - k]}
<1>1. 0 \in P
  BY DEF Leaves
<1>2. ASSUME NEW k \in 1 .. width, k - 1 \in P PROVE k \in P
  <2>1. f[k - 1] < Numbers[width - (k - 1)] /\ f[k] = f[k - 1] \div Octets /\ f[k - 1] \in Nat
    BY <1>2 DEF Leaves
  <2>2. width - (k - 1) \in 0 .. 8 /\ width - (k - 1) # 0 /\ (width - (k - 1)) - 1 = width - k /\ width - k \in 0 .. 8
    OBVIOUS
  <2>3. Numbers[width - (k - 1)] = Octets * Numbers[width - k] /\ Numbers[width - k] \in Nat
    BY <2>2, NumbersAre
  <2>4. \A x, m \in Nat : x < Octets * m => x \div Octets < m
    BY OctetAssumption
  <2>5. f[k - 1] \div Octets < Numbers[width - k]
    BY <2>1, <2>3, <2>4
  <2> QED BY <2>1, <2>5
<1>3. 0 .. width \subseteq P
  <2>1. width \in Nat
    OBVIOUS
  <2> HIDE DEF P
  <2> QED BY <1>1, <1>2, <2>1, InductionUpTo
<1>4. f[width] < Numbers[0]
  BY <1>3
<1>5. Numbers[0] = 1
  BY NumbersAre
<1> QED BY <1>4, <1>5

\* The number read after the first i octets.
Reads(f, octets) ==
  \A i \in 0 .. Len(octets) : f[i] = IF i = 0 THEN 0 ELSE (f[i - 1] * Octets) + octets[i]

LEMMA LargestIs ==
  ASSUME NEW S, NEW m \in S, S \subseteq Int, \A k \in S : m >= k
  PROVE  Max(S) = m
<1>1. \A x \in S : (\A k \in S : x >= k) => x = m
  OBVIOUS
<1> QED BY <1>1 DEF Max

LEMMA LargestExists ==
  ASSUME NEW n \in Nat, NEW S \in SUBSET (1 .. n), S # {}
  PROVE  Max(S) \in S
<1> DEFINE P == {k \in 0 .. n : \A T \in SUBSET (1 .. k) : T # {} => Max(T) \in T}
<1>1. 0 \in P
  <2>1. \A T \in SUBSET (1 .. 0) : T = {}
    OBVIOUS
  <2>2. \A T \in SUBSET (1 .. 0) : T # {} => Max(T) \in T
    BY <2>1
  <2>3. 0 \in 0 .. n
    OBVIOUS
  <2> QED BY <2>2, <2>3
<1>2. ASSUME NEW k \in 1 .. n, k - 1 \in P PROVE k \in P
  <2>1. ASSUME NEW T \in SUBSET (1 .. k), T # {} PROVE Max(T) \in T
    <3>1. CASE k \in T
      <4>1. T \subseteq Int /\ \A j \in T : k >= j
        OBVIOUS
      <4>2. Max(T) = k
        BY <3>1, <4>1, LargestIs
      <4> QED BY <3>1, <4>2
    <3>2. CASE k \notin T
      <4>1. T \in SUBSET (1 .. k - 1)
        BY <3>2
      <4> QED BY <1>2, <2>1, <4>1
    <3> QED BY <3>1, <3>2
  <2> QED BY <2>1
<1>3. 0 .. n \subseteq P
  <2> HIDE DEF P
  <2> QED BY <1>1, <1>2, InductionUpTo
<1> QED BY <1>3

LEMMA NumberIs ==
  ASSUME NEW octets \in Seq(Nat)
  PROVE  \E f \in [0 .. Len(octets) -> Nat] : Reads(f, octets) /\ Number(octets) = f[Len(octets)]
<1> DEFINE S == DOMAIN octets
           iter == CHOOSE g : g = [s \in SUBSET S |->
                     IF s = {} THEN 0 ELSE (g[s \ {Max(s)}] * Octets) + octets[Max(s)]]
           choose == [s \in SUBSET S |-> Max(s)]
           op == [p \in S \X Nat |-> (p[2] * Octets) + octets[p[1]]]
<1>1. S = 1 .. Len(octets) /\ Len(octets) \in Nat /\ \A i \in S : octets[i] \in Nat
  BY LenProperties, ElementOfSeq
<1>2. IsFiniteSet(S)
  BY <1>1, FS_Interval
<1>3. Number(octets) = iter[S]
  BY DEF Number, FoldLeft, MapThenFoldSet
<1> SUFFICES \E f \in [0 .. Len(octets) -> Nat] : Reads(f, octets) /\ iter[S] = f[Len(octets)]
  BY <1>3
<1>0. \A v, o \in Nat : (v * Octets) + o \in Nat
  BY OctetAssumption
<1>4. \A s \in SUBSET S : s # {} => choose[s] \in s
  BY <1>1, LargestExists
<1>5. \A i \in S : \A v \in Nat : op[<<i, v>>] = (v * Octets) + octets[i] /\ op[<<i, v>>] \in Nat
  BY <1>0, <1>1
<1>6. PICK g \in [SUBSET S -> Nat] : SetRecursion(g, S, 0, choose, op)
  <2>1. 0 \in Nat
    OBVIOUS
  <2> HIDE DEF S, choose, op
  <2> QED BY <1>2, <1>4, <1>5, <2>1, RecursionOverSet
<1>7. ASSUME NEW s \in SUBSET S
      PROVE  g[s] = IF s = {} THEN 0 ELSE (g[s \ {Max(s)}] * Octets) + octets[Max(s)]
  <2>1. g[s] = IF s = {} THEN 0 ELSE op[<<choose[s], g[s \ {choose[s]}]>>]
    BY <1>6 DEF SetRecursion
  <2>2. ASSUME s # {} PROVE op[<<choose[s], g[s \ {choose[s]}]>>] = (g[s \ {choose[s]}] * Octets) + octets[choose[s]]
    <3>1. choose[s] \in S /\ g[s \ {choose[s]}] \in Nat
      BY <1>4, <2>2
    <3> HIDE DEF S, choose, op
    <3> QED BY <1>5, <3>1
  <2> QED BY <2>1, <2>2
<1>8. g = [s \in SUBSET S |-> IF s = {} THEN 0 ELSE (g[s \ {Max(s)}] * Octets) + octets[Max(s)]]
  <2> HIDE DEF S, choose, op
  <2> QED BY <1>7
<1>9. iter = [s \in SUBSET S |-> IF s = {} THEN 0 ELSE (iter[s \ {Max(s)}] * Octets) + octets[Max(s)]]
  <2> HIDE DEF S
  <2> QED BY <1>8
<1> DEFINE f == [i \in 0 .. Len(octets) |-> iter[1 .. i]]
<1>10. ASSUME NEW i \in 0 .. Len(octets)
       PROVE  f[i] = IF i = 0 THEN 0 ELSE (f[i - 1] * Octets) + octets[i]
  <2>1. 1 .. i \in SUBSET S
    BY <1>1
  <2>2. ASSUME i # 0 PROVE Max(1 .. i) = i /\ (1 .. i) \ {i} = 1 .. i - 1 /\ 1 .. i # {}
    <3>1. i \in Nat /\ i > 0
      BY <1>1, <2>2
    <3>2. i \in 1 .. i /\ 1 .. i \subseteq Int /\ \A k \in 1 .. i : i >= k
      BY <3>1
    <3>3. Max(1 .. i) = i
      BY <3>2, LargestIs
    <3>4. (1 .. i) \ {i} = 1 .. i - 1
      BY <3>1
    <3> QED BY <3>2, <3>3, <3>4
  <2>3. iter[1 .. i] = IF 1 .. i = {} THEN 0 ELSE (iter[(1 .. i) \ {Max(1 .. i)}] * Octets) + octets[Max(1 .. i)]
    <3> HIDE DEF S, iter
    <3> QED BY <1>9, <2>1
  <2> HIDE DEF iter
  <2>4. CASE i = 0
    <3>1. 1 .. 0 = {}
      OBVIOUS
    <3> QED BY <2>3, <2>4, <3>1
  <2>5. CASE i # 0
    <3>1. i - 1 \in 0 .. Len(octets)
      BY <1>1, <2>5
    <3>2. f[i] = iter[1 .. i] /\ f[i - 1] = iter[1 .. i - 1]
      BY <3>1
    <3> HIDE DEF f
    <3> QED BY <2>2, <2>3, <2>5, <3>2
  <2> QED BY <2>4, <2>5
<1>11. Reads(f, octets) /\ iter[S] = f[Len(octets)]
  <2> HIDE DEF iter
  <2>1. iter[S] = f[Len(octets)]
    BY <1>1
  <2> HIDE DEF f
  <2> QED BY <1>10, <2>1 DEF Reads
<1>12. f \in [0 .. Len(octets) -> Nat]
  <2> DEFINE P == {i \in 0 .. Len(octets) : f[i] \in Nat}
  <2> HIDE DEF f
  <2>1. 0 \in P
    <3>1. 0 \in 0 .. Len(octets)
      BY <1>1
    <3> QED BY <1>10, <3>1
  <2>2. ASSUME NEW i \in 1 .. Len(octets), i - 1 \in P PROVE i \in P
    <3>1. i \in 0 .. Len(octets) /\ i # 0 /\ f[i - 1] \in Nat /\ octets[i] \in Nat
      BY <1>1, <2>2
    <3>2. f[i] = (f[i - 1] * Octets) + octets[i]
      BY <1>10, <3>1
    <3> QED BY <1>0, <3>1, <3>2
  <2>3. 0 .. Len(octets) \subseteq P
    <3> HIDE DEF P
    <3> QED BY <1>1, <2>1, <2>2, InductionUpTo
  <2> USE DEF f
  <2> HIDE DEF iter
  <2> QED BY <2>3
<1> HIDE DEF f
<1> QED BY <1>11, <1>12

LEMMA NumberTyped == ASSUME NEW octets \in Seq(Nat) PROVE Number(octets) \in Nat
<1>1. PICK f \in [0 .. Len(octets) -> Nat] : Number(octets) = f[Len(octets)]
  BY NumberIs
<1>2. Len(octets) \in Nat
  BY LenProperties
<1> QED BY <1>1, <1>2

LEMMA BigEndianTyped ==
  ASSUME NEW n \in Nat, NEW width \in Nat
  PROVE  BigEndian(n, width) \in Seq(Nat) /\ Len(BigEndian(n, width)) = width
<1>1. PICK f \in [0 .. width -> Nat] : BigEndian(n, width) = [i \in 1 .. width |-> f[width - i] % Octets]
  BY BigEndianIs
<1>2. \A i \in 1 .. width : f[width - i] % Octets \in Nat
  BY OctetAssumption
<1>3. [i \in 1 .. width |-> f[width - i] % Octets] \in Seq(Nat)
  BY <1>2, IsASeq
<1> QED BY <1>1, <1>3, LenProperties

\* What was written is read.
LEMMA NumberRead ==
  ASSUME NEW width \in 0 .. 8, NEW n \in Nat, n < Numbers[width]
  PROVE  Number(BigEndian(n, width)) = n
<1>0. width \in Nat
  OBVIOUS
<1>1. PICK f \in [0 .. width -> Nat] :
        Leaves(f, n, width) /\ BigEndian(n, width) = [i \in 1 .. width |-> f[width - i] % Octets]
  BY <1>0, BigEndianIs
<1> DEFINE octets == BigEndian(n, width)
<1>2. octets \in Seq(Nat) /\ Len(octets) = width
  BY <1>0, BigEndianTyped
<1>3. PICK g \in [0 .. width -> Nat] : Reads(g, octets) /\ Number(octets) = g[width]
  BY <1>2, NumberIs
<1> DEFINE P == {k \in 0 .. width : g[k] = f[width - k]}
<1>4. 0 \in P
  <2>1. f[width] = 0
    BY <1>1, LeavesShrink
  <2>2. g[0] = 0
    BY <1>2, <1>3 DEF Reads
  <2> QED BY <2>1, <2>2
<1>5. ASSUME NEW k \in 1 .. width, k - 1 \in P PROVE k \in P
  <2>1. g[k] = (g[k - 1] * Octets) + octets[k] /\ g[k - 1] = f[width - (k - 1)]
    BY <1>2, <1>3, <1>5 DEF Reads
  <2>2. width - (k - 1) \in 0 .. width /\ width - (k - 1) # 0 /\ (width - (k - 1)) - 1 = width - k /\ width - k \in 0 .. width
    OBVIOUS
  <2>3. f[width - (k - 1)] = f[width - k] \div Octets
    BY <1>1, <2>2 DEF Leaves
  <2>4. octets[k] = f[width - k] % Octets
    BY <1>1
  <2>5. f[width - k] = ((f[width - k] \div Octets) * Octets) + (f[width - k] % Octets)
    BY <2>2, Divides
  <2> HIDE DEF octets
  <2> QED BY <2>1, <2>3, <2>4, <2>5
<1>6. 0 .. width \subseteq P
  <2>1. width \in Nat
    OBVIOUS
  <2> HIDE DEF P
  <2> QED BY <1>4, <1>5, <2>1, InductionUpTo
<1>7. g[width] = f[0] /\ f[0] = n
  BY <1>1, <1>6 DEF Leaves
<1> QED BY <1>3, <1>7

\* What was put together, and its pieces.
LEMMA Joined ==
  ASSUME NEW s \in Seq(Nat), NEW t \in Seq(Nat)
  PROVE  /\ s \o t \in Seq(Nat) /\ Len(s \o t) = Len(s) + Len(t)
         /\ \A i \in 1 .. Len(s) : (s \o t)[i] = s[i]
         /\ \A i \in 1 .. Len(t) : (s \o t)[Len(s) + i] = t[i]
<1>1. Len(s) \in Nat /\ Len(t) \in Nat
  BY LenProperties
<1>2. /\ s \o t \in Seq(Nat) /\ Len(s \o t) = Len(s) + Len(t)
      /\ \A i \in 1 .. Len(s) + Len(t) : (s \o t)[i] = IF i <= Len(s) THEN s[i] ELSE t[i - Len(s)]
  BY ConcatProperties
<1>3. \A i \in 1 .. Len(t) : Len(s) + i \in 1 .. Len(s) + Len(t) /\ ~(Len(s) + i <= Len(s)) /\ (Len(s) + i) - Len(s) = i
  BY <1>1
<1>4. \A i \in 1 .. Len(s) : i \in 1 .. Len(s) + Len(t) /\ i <= Len(s)
  BY <1>1
<1> QED BY <1>2, <1>3, <1>4

LEMMA FrontPiece ==
  ASSUME NEW s \in Seq(Nat), NEW t \in Seq(Nat)
  PROVE  \A m, n \in 1 .. Len(s) : SubSeq(s \o t, m, n) = SubSeq(s, m, n)
  BY SubSeqOfConcat1

LEMMA BackPiece ==
  ASSUME NEW s \in Seq(Nat), NEW t \in Seq(Nat)
  PROVE  SubSeq(s \o t, Len(s) + 1, Len(s) + Len(t)) = t
<1>1. Len(s) \in Nat /\ Len(t) \in Nat
  BY LenProperties
<1>2. CASE Len(t) = 0
  <2>1. t = <<>>
    BY <1>2, EmptySeq
  <2> QED BY <1>1, <1>2, <2>1, SubSeqEmpty
<1>3. CASE Len(t) # 0
  <2>1. Len(s) + 1 \in Len(s) + 1 .. Len(s) + Len(t) /\ Len(s) + Len(t) \in Len(s) + 1 .. Len(s) + Len(t)
    BY <1>1, <1>3
  <2>2. SubSeq(s \o t, Len(s) + 1, Len(s) + Len(t)) = SubSeq(t, (Len(s) + 1) - Len(s), (Len(s) + Len(t)) - Len(s))
    BY <2>1, SubSeqOfConcat2
  <2>3. (Len(s) + 1) - Len(s) = 1 /\ (Len(s) + Len(t)) - Len(s) = Len(t)
    BY <1>1
  <2> QED BY <2>2, <2>3, SubSeqFull
<1> QED BY <1>2, <1>3

-----------------------------------------------------------------------------
(* Doubles. *)

LEMMA PositionIs ==
  ASSUME NEW seq, NEW n \in Nat, DOMAIN seq = 1 .. n, Len(seq) = n, NEW i \in 1 .. n,
         \A j \in 1 .. n : seq[j] = seq[i] => j = i
  PROVE  Position(seq[i], seq) = i
<1>1. {j \in 1 .. Len(seq) : seq[j] = seq[i]} = {i}
  OBVIOUS
<1>2. Min({i}) = i
  BY DEF Min
<1> QED BY <1>1, <1>2 DEF Position, SelectInSeq

LEMMA PositionOfNoNumber ==
  ASSUME NEW x \in {NaN, Inf, NegInf}
  PROVE  Position(x, NoNumbers) \in 1 .. 3 /\ NoNumbers[Position(x, NoNumbers)] = x
<1>1. PICK i \in 1 .. 3 : x = NoNumbers[i]
  BY DEF NoNumbers
<1>2. DOMAIN NoNumbers = 1 .. 3 /\ Len(NoNumbers) = 3
  BY DEF NoNumbers
<1>3. \A j \in 1 .. 3 : NoNumbers[j] = NoNumbers[i] => j = i
  BY DoubleAssumption DEF NoNumbers
<1>4. Position(x, NoNumbers) = i
  BY <1>1, <1>2, <1>3, PositionIs
<1> QED BY <1>1, <1>4

LEMMA WithKind ==
  ASSUME NEW kind \in Nat, NEW n \in Nat
  PROVE  /\ <<kind>> \o BigEndian(n, 7) \in Seq(Nat) /\ Len(<<kind>> \o BigEndian(n, 7)) = 8
         /\ (<<kind>> \o BigEndian(n, 7))[1] = kind
         /\ n < Numbers[7] => Number(Tail(<<kind>> \o BigEndian(n, 7))) = n
<1>b. PICK b : b = BigEndian(n, 7)
  OBVIOUS
<1>s. PICK s : s = <<kind>>
  OBVIOUS
<1>d. PICK d : d = s \o b
  OBVIOUS
<1>1. b \in Seq(Nat) /\ Len(b) = 7
  BY <1>b, BigEndianTyped
<1>2. s \in Seq(Nat) /\ Len(s) = 1 /\ s[1] = kind
  BY <1>s
<1>4. /\ d \in Seq(Nat) /\ Len(d) = 8
      /\ \A i \in 1 .. 8 : d[i] = IF i <= 1 THEN s[i] ELSE b[i - 1]
  <2>1. /\ s \o b \in Seq(Nat) /\ Len(s \o b) = Len(s) + Len(b)
        /\ \A i \in 1 .. Len(s) + Len(b) : (s \o b)[i] = IF i <= Len(s) THEN s[i] ELSE b[i - Len(s)]
    BY <1>1, <1>2, ConcatProperties
  <2>2. Len(s) + Len(b) = 8
    BY <1>1, <1>2
  <2> QED BY <1>2, <1>d, <2>1, <2>2
<1>5. d[1] = kind /\ d # <<>>
  <2>1. d[1] = kind
    BY <1>2, <1>4
  <2>2. Len(<<>>) = 0 /\ Len(d) # 0
    BY <1>4, EmptySeq
  <2> QED BY <2>1, <2>2
<1>6. /\ Tail(d) \in Seq(Nat) /\ Len(Tail(d)) = 7
      /\ \A i \in 1 .. 7 : Tail(d)[i] = d[i + 1]
  <2>1. /\ Tail(d) \in Seq(Nat) /\ Len(Tail(d)) = Len(d) - 1
        /\ \A i \in 1 .. Len(Tail(d)) : Tail(d)[i] = d[i + 1]
    BY <1>4, <1>5, HeadTailProperties
  <2>2. Len(Tail(d)) = 7
    BY <1>4, <2>1
  <2> QED BY <2>1, <2>2
<1>7. \A i \in 1 .. 7 : Tail(d)[i] = b[i]
  <2> TAKE i \in 1 .. 7
  <2>1. i + 1 \in 1 .. 8 /\ ~(i + 1 <= 1) /\ (i + 1) - 1 = i
    OBVIOUS
  <2> QED BY <1>4, <1>6, <2>1
<1>8. Tail(d) = b
  BY <1>1, <1>6, <1>7, SeqEqual
<1>9. n < Numbers[7] => Number(b) = n
  BY <1>b, NumberRead
<1> QED BY <1>4, <1>5, <1>8, <1>9, <1>b, <1>s, <1>d

LEMMA DoubleRead ==
  ASSUME NEW x \in Money, Fits(x)
  PROVE  Double(x) \in Seq(Nat) /\ Len(Double(x)) = 8 /\ DoubleIn(Double(x)) = x
<1>1. CASE x \notin Int
  <2> PICK p : p = Position(x, NoNumbers)
    OBVIOUS
  <2>1. p \in 1 .. 3 /\ NoNumbers[p] = x
    BY <1>1, PositionOfNoNumber DEF Money
  <2>2. Double(x) = <<1 + p>> \o BigEndian(0, 7) /\ 1 + p \in Nat /\ 1 + p \in 2 .. 4 /\ (1 + p) - 1 = p
    BY <1>1, <2>1 DEF Double
  <2>3. Double(x) \in Seq(Nat) /\ Len(Double(x)) = 8 /\ Double(x)[1] = 1 + p
    BY <2>2, WithKind
  <2> QED BY <2>1, <2>2, <2>3 DEF DoubleIn
<1>2. CASE x \in Int /\ x < 0
  <2>n. PICK n : n = -x
    OBVIOUS
  <2>1. Double(x) = <<1>> \o BigEndian(n, 7) /\ n \in Nat /\ n < Numbers[7] /\ -n = x
    BY <1>2, <2>n DEF Double, Fits
  <2>2. Double(x) \in Seq(Nat) /\ Len(Double(x)) = 8 /\ Double(x)[1] = 1 /\ Number(Tail(Double(x))) = n
    <3>1. 1 \in Nat
      OBVIOUS
    <3> QED BY <2>1, <3>1, WithKind
  <2> QED BY <2>1, <2>2 DEF DoubleIn
<1>3. CASE x \in Int /\ ~(x < 0)
  <2>1. Double(x) = <<0>> \o BigEndian(x, 7) /\ x \in Nat /\ x < Numbers[7]
    BY <1>3 DEF Double, Fits
  <2>2. Double(x) \in Seq(Nat) /\ Len(Double(x)) = 8 /\ Double(x)[1] = 0 /\ Number(Tail(Double(x))) = x
    <3>1. 0 \in Nat
      OBVIOUS
    <3> QED BY <2>1, <3>1, WithKind
  <2> QED BY <2>2 DEF DoubleIn
<1> QED BY <1>1, <1>2, <1>3

-----------------------------------------------------------------------------
(* Fields. *)

\* The tables of both sides are the same, and no entry is in one twice.
LEMMA FieldTables ==
  /\ ServerFields = ClientFields /\ ServerServices = ClientServices
  /\ ServerSizes = ClientSizes /\ ServerStatuses = ClientStatuses
  /\ DOMAIN ClientFields = 1 .. 10 /\ Len(ClientFields) = 10
  /\ DOMAIN ClientServices = 1 .. 7 /\ Len(ClientServices) = 7
  /\ DOMAIN ClientStatuses = 1 .. 8 /\ Len(ClientStatuses) = 8
  BY DEF ServerFields, ClientFields, ServerServices, ClientServices, ServerSizes, ClientSizes,
         ServerStatuses, ClientStatuses

LEMMA FieldsDiffer ==
  ASSUME NEW i \in 1 .. 10, NEW j \in 1 .. 10, ClientFields[i] = ClientFields[j]
  PROVE  i = j
  BY DEF ClientFields

LEMMA FieldPosition ==
  ASSUME NEW i \in 1 .. 10
  PROVE  Position(ClientFields[i], ClientFields) = i
<1>1. \A j \in 1 .. 10 : ClientFields[j] = ClientFields[i] => j = i
  BY FieldsDiffer
<1> QED BY <1>1, FieldTables, PositionIs

LEMMA ServicePosition ==
  ASSUME NEW i \in 1 .. 7
  PROVE  Position(ClientServices[i], ClientServices) = i
<1>1. \A j \in 1 .. 7 : ClientServices[j] = ClientServices[i] => j = i
  BY DEF ClientServices
<1> QED BY <1>1, FieldTables, PositionIs

LEMMA StatusPosition ==
  ASSUME NEW i \in 1 .. 8
  PROVE  Position(ClientStatuses[i], ClientStatuses) = i
<1>1. \A j \in 1 .. 8 : ClientStatuses[j] = ClientStatuses[i] => j = i
  BY DEF ClientStatuses, Success
<1> QED BY <1>1, FieldTables, PositionIs

\* What the server reads of a field: a service by its number.
Coded(f, v) == IF f = "service" THEN Position(v, ClientServices) ELSE v

\* The octets of a value, at most a string of them, are read as that value.
Carries(octets, f, v) ==
  /\ octets \in Seq(Nat) /\ Len(octets) < Numbers[4]
  /\ f \in DOMAIN ClientSizes => Len(octets) = ClientSizes[f]
  /\ OctetsValue(f, octets) = v

LEMMA NumbersSuffice == Numbers[4] > 8 /\ Numbers[2] > 8
<1>1. \A x \in Nat : x >= 1 => Octets * x > 8 /\ Octets * x \in Nat
  BY OctetAssumption
<1>2. Numbers[0] = 1
  BY NumbersAre
<1>3. Numbers[1] > 8 /\ Numbers[1] \in Nat
  <2>1. Numbers[1] = Octets * Numbers[1 - 1] /\ Numbers[1] \in Nat
    BY NumbersAre
  <2> QED BY <1>1, <1>2, <2>1
<1>4. Numbers[2] > 8 /\ Numbers[2] \in Nat
  <2>1. Numbers[2] = Octets * Numbers[2 - 1] /\ Numbers[2] \in Nat
    BY NumbersAre
  <2> QED BY <1>1, <1>3, <2>1
<1>5. Numbers[3] > 8 /\ Numbers[3] \in Nat
  <2>1. Numbers[3] = Octets * Numbers[3 - 1] /\ Numbers[3] \in Nat
    BY NumbersAre
  <2> QED BY <1>1, <1>4, <2>1
<1>6. Numbers[4] > 8 /\ Numbers[4] \in Nat
  <2>1. Numbers[4] = Octets * Numbers[4 - 1] /\ Numbers[4] \in Nat
    BY NumbersAre
  <2> QED BY <1>1, <1>5, <2>1
<1> QED BY <1>4, <1>6

LEMMA NumberCarried ==
  ASSUME NEW f \in {"account", "toAccount", "interval"}, NEW v \in Uint32
  PROVE  Carries(BigEndian(v, 4), f, v)
<1>1. v \in Nat /\ v < Numbers[4]
  BY OctetAssumption, UintAssumption DEF Uint32
<1>2. BigEndian(v, 4) \in Seq(Nat) /\ Len(BigEndian(v, 4)) = 4 /\ Number(BigEndian(v, 4)) = v
  <2>1. 4 \in Nat /\ 4 \in 0 .. 8
    OBVIOUS
  <2> QED BY <1>1, <2>1, BigEndianTyped, NumberRead
<1>b. PICK b : b = BigEndian(v, 4)
  OBVIOUS
<1>3. b \in Seq(Nat) /\ Len(b) = 4 /\ Number(b) = v /\ 4 < Numbers[4]
  BY <1>2, <1>b, NumbersSuffice, NumbersAre
<1>4. ClientSizes[f] = 4 /\ f # "amount" /\ f \notin {"service", "currency"}
  BY DEF ClientSizes
<1>5. OctetsValue(f, b) = v
  BY <1>3, <1>4 DEF OctetsValue
<1> QED BY <1>3, <1>4, <1>5, <1>b DEF Carries

LEMMA AmountCarried ==
  ASSUME NEW v \in Money, Fits(v)
  PROVE  Carries(Double(v), "amount", v)
<1>1. Double(v) \in Seq(Nat) /\ Len(Double(v)) = 8 /\ DoubleIn(Double(v)) = v
  BY DoubleRead
<1> QED BY <1>1, NumbersSuffice DEF Carries, OctetsValue, ClientSizes

LEMMA StringCarried ==
  ASSUME NEW f \in {"name", "password", "toName"}, NEW v \in Seq(Nat), Len(v) < UintSize
  PROVE  Carries(v, f, v)
  BY OctetAssumption DEF Carries, OctetsValue, ClientSizes

LEMMA OctetCarried ==
  ASSUME NEW f \in {"service", "currency"}, NEW v \in Nat
  PROVE  Carries(<<v>>, f, v)
<1>1. <<v>> \in Seq(Nat) /\ Len(<<v>>) = 1 /\ <<v>>[1] = v
  OBVIOUS
<1>2. 1 < Numbers[4]
  BY NumbersSuffice, NumbersAre
<1>3. ClientSizes[f] = 1
  BY DEF ClientSizes
<1>4. OctetsValue(f, <<v>>) = v
  BY <1>1 DEF OctetsValue
<1> QED BY <1>1, <1>2, <1>3, <1>4 DEF Carries

LEMMA ServiceNumber ==
  ASSUME NEW s \in Services
  PROVE  Position(s, ClientServices) \in 1 .. 7 /\ ClientServices[Position(s, ClientServices)] = s
<1>1. PICK i \in 1 .. 7 : s = ClientServices[i]
  BY DEF Services, RequiredFields, ClientServices
<1> QED BY <1>1, ServicePosition

\* Every field of a command has its place, and its octets carry it.
LEMMA CommandCarried ==
  ASSUME NEW c \in Commands
  PROVE  /\ "service" \in DOMAIN c /\ c.service \in Services /\ WellFormed(c) /\ WellTyped(c)
         /\ \A f \in DOMAIN c : \E i \in 1 .. 10 : f = ClientFields[i]
         /\ \A f \in DOMAIN c : Carries(ValueOctets(f, c[f]), f, Coded(f, c[f]))
<1>1. /\ WellFormed(c) /\ WellTyped(c) /\ DOMAIN c = {"service"} \cup PromptedFields[c.service]
      /\ "amount" \in DOMAIN c => Fits(c.amount)
      /\ "interval" \in DOMAIN c => c.interval \in Uint32
  BY CommandAssumption
<1>2. "service" \in DOMAIN c /\ c.service \in Services
  BY <1>1 DEF WellFormed
<1>3. ASSUME NEW f \in DOMAIN c
      PROVE  f \in {"service", "account", "name", "password", "toAccount", "toName", "amount",
                    "currency", "interval"}
  BY <1>1, <1>2, <1>3 DEF Services, RequiredFields, PromptedFields
<1>4. ASSUME NEW f \in DOMAIN c PROVE \E i \in 1 .. 10 : f = ClientFields[i]
  BY <1>3, <1>4 DEF ClientFields
<1>5. ASSUME NEW f \in DOMAIN c PROVE Carries(ValueOctets(f, c[f]), f, Coded(f, c[f]))
  <2>1. CASE f = "service"
    <3>1. Position(c[f], ClientServices) \in Nat
      BY <1>2, <2>1, ServiceNumber
    <3>2. ValueOctets(f, c[f]) = <<Position(c[f], ClientServices)>> /\ Coded(f, c[f]) = Position(c[f], ClientServices)
      BY <2>1 DEF ValueOctets, Coded
    <3> QED BY <2>1, <3>1, <3>2, OctetCarried
  <2>2. CASE f = "currency"
    <3>1. c[f] \in Nat
      <4>1. c[f] \in Currencies
        BY <1>1, <2>2 DEF WellTyped
      <4>2. Currencies \subseteq 0 .. Octets - 1 /\ Octets \in Nat
        BY StringAssumption, OctetAssumption
      <4>3. \A v \in 0 .. Octets - 1 : v \in Nat
        BY <4>2
      <4> QED BY <4>1, <4>2, <4>3
    <3>2. ValueOctets(f, c[f]) = <<c[f]>> /\ Coded(f, c[f]) = c[f]
      BY <2>2 DEF ValueOctets, Coded
    <3> QED BY <2>2, <3>1, <3>2, OctetCarried
  <2>3. CASE f = "amount"
    <3>1. c[f] \in Money /\ Fits(c[f])
      BY <1>1, <2>3 DEF WellTyped
    <3>2. ValueOctets(f, c[f]) = Double(c[f]) /\ Coded(f, c[f]) = c[f]
      BY <2>3 DEF ValueOctets, Coded
    <3> QED BY <2>3, <3>1, <3>2, AmountCarried
  <2>4. CASE f \in {"account", "toAccount", "interval"}
    <3>1. c[f] \in Uint32
      BY <1>1, <2>4 DEF WellTyped
    <3>2. ValueOctets(f, c[f]) = BigEndian(c[f], 4) /\ Coded(f, c[f]) = c[f]
      BY <2>4 DEF ValueOctets, Coded
    <3> QED BY <2>4, <3>1, <3>2, NumberCarried
  <2>5. CASE f \in {"name", "password", "toName"}
    <3>1. c[f] \in Names \cup Passwords
      BY <1>1, <2>5 DEF WellTyped
    <3>2. c[f] \in Seq(1 .. Octets - 1) /\ Len(c[f]) < UintSize
      BY <3>1, StringAssumption, UintAssumption, LenProperties DEF Uint32
    <3>3. c[f] \in Seq(Nat)
      <4>1. 1 .. Octets - 1 \subseteq Nat
        OBVIOUS
      <4> QED BY <3>2, <4>1, SeqMonotonic
    <3>4. ValueOctets(f, c[f]) = c[f] /\ Coded(f, c[f]) = c[f]
      BY <2>5 DEF ValueOctets, Coded
    <3> QED BY <2>5, <3>2, <3>3, <3>4, StringCarried
  <2> QED BY <1>3, <2>1, <2>2, <2>3, <2>4, <2>5
<1> QED BY <1>1, <1>2, <1>4, <1>5

\* A field with its tag and its length in front.
LEMMA TLVIs ==
  ASSUME NEW i \in Nat, NEW o \in Seq(Nat), Len(o) < Numbers[4]
  PROVE  /\ TLV(i, o) \in Seq(Nat) /\ Len(TLV(i, o)) = 5 + Len(o) /\ TLV(i, o)[1] = i
         /\ Number(SubSeq(TLV(i, o), 2, 5)) = Len(o)
         /\ SubSeq(TLV(i, o), 6, 5 + Len(o)) = o
<1>1. Len(o) \in Nat
  BY LenProperties
<1>b. PICK b : b = BigEndian(Len(o), 4)
  OBVIOUS
<1>2. b \in Seq(Nat) /\ Len(b) = 4 /\ Number(b) = Len(o)
  <2>1. 4 \in Nat /\ 4 \in 0 .. 8
    OBVIOUS
  <2> QED BY <1>1, <1>b, <2>1, BigEndianTyped, NumberRead
<1>s. PICK s : s = <<i>>
  OBVIOUS
<1>3. s \in Seq(Nat) /\ Len(s) = 1 /\ s[1] = i
  BY <1>s
<1>h. PICK h : h = s \o b
  OBVIOUS
<1>4. h \in Seq(Nat) /\ Len(h) = 5 /\ h[1] = i /\ SubSeq(h, 2, 5) = b
  <2>1. Len(s) + Len(b) = 5 /\ Len(s) + 1 = 2 /\ 1 \in 1 .. Len(s)
    BY <1>2, <1>3
  <2>2. s \o b \in Seq(Nat) /\ Len(s \o b) = Len(s) + Len(b) /\ \A j \in 1 .. Len(s) : (s \o b)[j] = s[j]
    BY <1>2, <1>3, Joined
  <2>3. SubSeq(s \o b, Len(s) + 1, Len(s) + Len(b)) = b
    BY <1>2, <1>3, BackPiece
  <2> QED BY <1>3, <1>h, <2>1, <2>2, <2>3
<1>t. PICK t : t = h \o o
  OBVIOUS
<1>5. t \in Seq(Nat) /\ Len(t) = 5 + Len(o) /\ t[1] = i /\ SubSeq(t, 2, 5) = b /\ SubSeq(t, 6, 5 + Len(o)) = o
  <2>1. Len(h) + 1 = 6 /\ 1 \in 1 .. Len(h) /\ 2 \in 1 .. Len(h) /\ 5 \in 1 .. Len(h)
    BY <1>4
  <2>2. h \o o \in Seq(Nat) /\ Len(h \o o) = Len(h) + Len(o) /\ \A j \in 1 .. Len(h) : (h \o o)[j] = h[j]
    BY <1>4, Joined
  <2>3. SubSeq(h \o o, Len(h) + 1, Len(h) + Len(o)) = o
    BY <1>4, BackPiece
  <2>4. \A m, n \in 1 .. Len(h) : SubSeq(h \o o, m, n) = SubSeq(h, m, n)
    BY <1>4, FrontPiece
  <2>5. SubSeq(h \o o, 2, 5) = SubSeq(h, 2, 5)
    BY <2>1, <2>4
  <2>6. SubSeq(h \o o, 6, 5 + Len(o)) = o
    BY <1>4, <2>1, <2>3
  <2> QED BY <1>4, <1>t, <2>1, <2>2, <2>5, <2>6
<1>8. TLV(i, o) = t
  BY <1>b, <1>s, <1>h, <1>t DEF TLV
<1> QED BY <1>2, <1>5, <1>8

-----------------------------------------------------------------------------
(* A message of fields. *)

\* P holds what is encoded after each of the fields in their order.
Encodes(P, c) ==
  \A i \in 0 .. 10 :
    P[i] = IF i = 0 THEN <<>>
           ELSE IF ClientFields[i] \in DOMAIN c
           THEN P[i - 1] \o TLV(i, ValueOctets(ClientFields[i], c[ClientFields[i]]))
           ELSE P[i - 1]

LEMMA EncodedIs ==
  ASSUME NEW c, \A f \in DOMAIN c : ValueOctets(f, c[f]) \in Seq(Nat) /\ Len(ValueOctets(f, c[f])) < Numbers[4]
  PROVE  \E P \in [0 .. 10 -> Seq(Nat)] : Encodes(P, c) /\ EncodeMessage(c) = P[10]
<1> DEFINE S == DOMAIN ClientFields
           Add(bytes, f) == IF f \in DOMAIN c
                            THEN bytes \o TLV(Position(f, ClientFields), ValueOctets(f, c[f]))
                            ELSE bytes
           iter == CHOOSE g : g = [s \in SUBSET S |->
                     IF s = {} THEN <<>> ELSE Add(g[s \ {Max(s)}], ClientFields[Max(s)])]
           choose == [s \in SUBSET S |-> Max(s)]
           op == [p \in S \X Seq(Nat) |-> Add(p[2], ClientFields[p[1]])]
<1>1. S = 1 .. 10
  BY FieldTables
<1>2. IsFiniteSet(S)
  <2>1. \A n \in Nat : IsFiniteSet(1 .. n)
    BY FS_Interval
  <2>2. IsFiniteSet(1 .. 10)
    BY <2>1
  <2> QED BY <1>1, <2>2
<1>3. EncodeMessage(c) = iter[S]
  BY DEF EncodeMessage, FoldLeft, MapThenFoldSet
<1>4. ASSUME NEW i \in S, NEW v \in Seq(Nat)
      PROVE  /\ Add(v, ClientFields[i]) \in Seq(Nat)
             /\ Add(v, ClientFields[i]) =
                  IF ClientFields[i] \in DOMAIN c
                  THEN v \o TLV(i, ValueOctets(ClientFields[i], c[ClientFields[i]])) ELSE v
  <2>1. CASE ClientFields[i] \in DOMAIN c
    <3>1. Position(ClientFields[i], ClientFields) = i /\ i \in Nat
      BY <1>1, FieldPosition
    <3>2. TLV(i, ValueOctets(ClientFields[i], c[ClientFields[i]])) \in Seq(Nat)
      BY <2>1, <3>1, TLVIs
    <3>3. v \o TLV(i, ValueOctets(ClientFields[i], c[ClientFields[i]])) \in Seq(Nat)
      BY <3>2, Joined
    <3> QED BY <2>1, <3>1, <3>3
  <2>2. CASE ClientFields[i] \notin DOMAIN c
    BY <2>2
  <2> QED BY <2>1, <2>2
<1> HIDE DEF Add
<1>5. \A s \in SUBSET S : s # {} => choose[s] \in s
  <2>1. 10 \in Nat
    OBVIOUS
  <2> QED BY <1>1, <2>1, LargestExists
<1>6. \A i \in S : \A v \in Seq(Nat) : op[<<i, v>>] = Add(v, ClientFields[i]) /\ op[<<i, v>>] \in Seq(Nat)
  BY <1>4
<1>7. PICK g \in [SUBSET S -> Seq(Nat)] : SetRecursion(g, S, <<>>, choose, op)
  <2>1. <<>> \in Seq(Nat)
    BY EmptySeq
  <2> HIDE DEF S, choose, op
  <2> QED BY <1>2, <1>5, <1>6, <2>1, RecursionOverSet
<1>8. ASSUME NEW s \in SUBSET S
      PROVE  g[s] = IF s = {} THEN <<>> ELSE Add(g[s \ {Max(s)}], ClientFields[Max(s)])
  <2>1. g[s] = IF s = {} THEN <<>> ELSE op[<<choose[s], g[s \ {choose[s]}]>>]
    BY <1>7 DEF SetRecursion
  <2>2. ASSUME s # {}
        PROVE  op[<<choose[s], g[s \ {choose[s]}]>>] = Add(g[s \ {choose[s]}], ClientFields[choose[s]])
    <3>1. choose[s] \in S /\ g[s \ {choose[s]}] \in Seq(Nat)
      BY <1>5, <2>2
    <3> HIDE DEF S, choose, op
    <3> QED BY <1>6, <3>1
  <2> QED BY <2>1, <2>2
<1>9. g = [s \in SUBSET S |-> IF s = {} THEN <<>> ELSE Add(g[s \ {Max(s)}], ClientFields[Max(s)])]
  <2> HIDE DEF S, choose, op
  <2> QED BY <1>8
<1>10. iter = [s \in SUBSET S |-> IF s = {} THEN <<>> ELSE Add(iter[s \ {Max(s)}], ClientFields[Max(s)])]
  <2> HIDE DEF S
  <2> QED BY <1>9
<1> HIDE DEF iter
<1>11. iter[{}] = <<>> /\ \A i \in 1 .. 10 : iter[1 .. i] = Add(iter[1 .. i - 1], ClientFields[i])
  <2>1. iter[{}] = <<>>
    BY <1>10
  <2>2. ASSUME NEW i \in 1 .. 10 PROVE iter[1 .. i] = Add(iter[1 .. i - 1], ClientFields[i])
    <3>1. 1 .. i \in SUBSET S /\ i \in 1 .. i /\ 1 .. i \subseteq Int /\ \A k \in 1 .. i : i >= k
      BY <1>1
    <3>2. Max(1 .. i) = i
      BY <3>1, LargestIs
    <3>3. (1 .. i) \ {i} = 1 .. i - 1
      OBVIOUS
    <3>4. 1 .. i # {}
      BY <3>1
    <3>5. iter[1 .. i] = Add(iter[(1 .. i) \ {Max(1 .. i)}], ClientFields[Max(1 .. i)])
      <4> HIDE DEF S
      <4> QED BY <1>10, <3>1, <3>4
    <3> QED BY <3>2, <3>3, <3>5
  <2> QED BY <2>1, <2>2
<1> DEFINE P == [i \in 0 .. 10 |-> IF i = 0 THEN <<>> ELSE iter[1 .. i]]
<1>12. P[0] = <<>> /\ \A i \in 1 .. 10 : P[i] = Add(P[i - 1], ClientFields[i])
  <2>1. ASSUME NEW i \in 1 .. 10 PROVE P[i] = Add(P[i - 1], ClientFields[i])
    <3>1. P[i] = iter[1 .. i] /\ P[i] = Add(iter[1 .. i - 1], ClientFields[i])
      <4>1. i \in 0 .. 10 /\ i # 0
        OBVIOUS
      <4> QED BY <1>11, <4>1
    <3>2. P[i - 1] = iter[1 .. i - 1]
      <4>1. CASE i = 1
        <5>1. 1 .. i - 1 = {} /\ i - 1 = 0
          BY <4>1
        <5> QED BY <1>11, <5>1
      <4>2. CASE i # 1
        BY <4>2
      <4> QED BY <4>1, <4>2
    <3> HIDE DEF P
    <3> QED BY <3>1, <3>2
  <2> QED BY <2>1
<1>13. EncodeMessage(c) = P[10]
  BY <1>1, <1>3
<1>14. P = [i \in 0 .. 10 |-> P[i]]
  OBVIOUS
<1> HIDE DEF P
<1>15. 0 .. 10 \subseteq {i \in 0 .. 10 : P[i] \in Seq(Nat)}
  <2>1. 0 \in {i \in 0 .. 10 : P[i] \in Seq(Nat)}
    <3>1. <<>> \in Seq(Nat)
      BY EmptySeq
    <3>2. P[0] \in Seq(Nat) /\ 0 \in 0 .. 10
      BY <1>12, <3>1
    <3> QED BY <3>2
  <2>2. ASSUME NEW i \in 1 .. 10, i - 1 \in {k \in 0 .. 10 : P[k] \in Seq(Nat)}
        PROVE  i \in {k \in 0 .. 10 : P[k] \in Seq(Nat)}
    <3>1. P[i] = Add(P[i - 1], ClientFields[i]) /\ P[i - 1] \in Seq(Nat) /\ i \in S
      BY <1>1, <1>12, <2>2
    <3>2. P[i] \in Seq(Nat)
      BY <1>4, <3>1
    <3> QED BY <3>2
  <2>3. 10 \in Nat
    OBVIOUS
  <2> QED BY <2>1, <2>2, <2>3, InductionUpTo
<1>16. P \in [0 .. 10 -> Seq(Nat)]
  BY <1>14, <1>15
<1>17. Encodes(P, c)
  <2>1. ASSUME NEW i \in 1 .. 10
        PROVE  P[i] = IF ClientFields[i] \in DOMAIN c
                      THEN P[i - 1] \o TLV(i, ValueOctets(ClientFields[i], c[ClientFields[i]]))
                      ELSE P[i - 1]
    <3>1. P[i] = Add(P[i - 1], ClientFields[i]) /\ P[i - 1] \in Seq(Nat) /\ i \in S
      <4>1. i - 1 \in 0 .. 10 /\ i \in S
        BY <1>1
      <4>2. P[i - 1] \in Seq(Nat)
        BY <1>16, <4>1
      <4> QED BY <1>12, <4>1, <4>2
    <3> QED BY <1>4, <3>1
  <2>2. ASSUME NEW i \in 0 .. 10, i # 0 PROVE i \in 1 .. 10
    BY <2>2
  <2> QED BY <1>12, <2>1, <2>2 DEF Encodes
<1> QED BY <1>13, <1>16, <1>17

-----------------------------------------------------------------------------
(* The decoders. *)

SizeAt(bytes, at) == Number(SubSeq(bytes, at + 2, at + 5))

Accepted(f, size, sizes, others) == IF f \in DOMAIN sizes THEN size = sizes[f] ELSE size \in others

\* What is decoded from offset at on, where F is what is decoded from the later ones on.
DecodedAt(F, at, bytes, fields, sizes, others) ==
  IF at + 5 > Len(bytes) THEN [ok |-> TRUE, fields |-> NoFields]
  ELSE IF bytes[at + 1] \notin DOMAIN fields \/ at + 5 + SizeAt(bytes, at) > Len(bytes)
       THEN [ok |-> FALSE, fields |-> NoFields]
  ELSE IF \/ ~Accepted(fields[bytes[at + 1]], SizeAt(bytes, at), sizes, others)
          \/ ~F[at + 5 + SizeAt(bytes, at)].ok
       THEN [ok |-> FALSE, fields |-> NoFields]
  ELSE [ok |-> TRUE,
        fields |-> Under(F[at + 5 + SizeAt(bytes, at)].fields, fields[bytes[at + 1]],
                         OctetsValue(fields[bytes[at + 1]],
                                     SubSeq(bytes, at + 6, at + 5 + SizeAt(bytes, at))))]

\* F holds what is decoded from each offset on.
Decoding(F, bytes, fields, sizes, others) ==
  /\ \A at \in 0 .. Len(bytes) : F[at] = DecodedAt(F, at, bytes, fields, sizes, others)
  /\ Decode(bytes, fields, sizes, others) = F[0]

LEMMA DecodeIs ==
  ASSUME NEW bytes \in Seq(Nat), NEW fields, NEW sizes, NEW others
  PROVE  \E F : Decoding(F, bytes, fields, sizes, others)
<1> DEFINE L == Len(bytes)
           D(F, at) == DecodedAt(F, at, bytes, fields, sizes, others)
           Good(F, k) == DOMAIN F = 0 .. L /\ \A at \in 0 .. L : at >= L - k => F[at] = D(F, at)
           Q == {k \in 0 .. L : \E F : Good(F, k)}
<1>1. L \in Nat /\ DOMAIN bytes = 1 .. L /\ \A i \in 1 .. L : bytes[i] \in Nat
  BY LenProperties, ElementOfSeq
<1>2. ASSUME NEW at \in 0 .. L, at + 5 <= L PROVE SizeAt(bytes, at) \in Nat
  <2>1. at + 2 \in Int /\ at + 5 \in Int /\ \A i \in at + 2 .. at + 5 : bytes[i] \in Nat
    BY <1>1, <1>2
  <2>2. SubSeq(bytes, at + 2, at + 5) \in Seq(Nat)
    BY <2>1, SubSeqProperties
  <2> QED BY <2>2, NumberTyped DEF SizeAt
<1>3. ASSUME NEW at \in 0 .. L, NEW F, NEW G,
             \A later \in 0 .. L : later > at => F[later] = G[later]
      PROVE  D(F, at) = D(G, at)
  <2>1. CASE at + 5 > L
    BY <2>1 DEF DecodedAt
  <2>2. CASE at + 5 <= L /\ at + 5 + SizeAt(bytes, at) > L
    BY <2>2, <1>1 DEF DecodedAt
  <2>3. CASE at + 5 <= L /\ at + 5 + SizeAt(bytes, at) <= L
    <3>1. SizeAt(bytes, at) \in Nat
      BY <1>2, <2>3
    <3>x. PICK x : x = at + 5 + SizeAt(bytes, at)
      OBVIOUS
    <3>2. x \in 0 .. L /\ x > at
      BY <1>1, <2>3, <3>1, <3>x
    <3>3. F[x] = G[x]
      BY <1>3, <3>2
    <3>4. F[at + 5 + SizeAt(bytes, at)] = G[at + 5 + SizeAt(bytes, at)]
      BY <3>3, <3>x
    <3> QED BY <3>4 DEF DecodedAt
  <2>4. at + 5 \in Int /\ (at + 5 <= L => at + 5 + SizeAt(bytes, at) \in Int)
    BY <1>1, <1>2
  <2> QED BY <1>1, <2>1, <2>2, <2>3, <2>4
<1> HIDE DEF D
<1>4. 0 \in Q
  <2> DEFINE F == [at \in 0 .. L |-> D([a \in {} |-> 0], at)]
  <2>1. ASSUME NEW at \in 0 .. L, at >= L - 0 PROVE F[at] = D(F, at)
    <3>1. \A later \in 0 .. L : later > at => F[later] = [a \in {} |-> 0][later]
      BY <1>1, <2>1
    <3> QED BY <3>1, <1>3
  <2>2. Good(F, 0)
    BY <2>1
  <2> HIDE DEF F, Good
  <2> QED BY <1>1, <2>2
<1>5. ASSUME NEW k \in 1 .. L, k - 1 \in Q PROVE k \in Q
  <2>1. PICK F : Good(F, k - 1)
    BY <1>5
  <2> DEFINE G == [at \in 0 .. L |-> IF at = L - k THEN D(F, at) ELSE F[at]]
  <2>2. ASSUME NEW at \in 0 .. L, at >= L - k PROVE G[at] = D(G, at)
    <3>1. ASSUME NEW later \in 0 .. L, later > at PROVE G[later] = F[later]
      <4>1. ASSUME NEW m \in Nat PROVE \A i \in 0 .. m, j \in 0 .. m, n \in 1 .. m : i >= m - n /\ j > i => j # m - n
        OBVIOUS
      <4>2. later # L - k
        <5> HIDE DEF L
        <5> QED BY <1>1, <2>2, <3>1, <4>1
      <4> QED BY <4>2
    <3>2. D(G, at) = D(F, at)
      <4> HIDE DEF G
      <4> QED BY <1>3, <3>1
    <3>3. CASE at = L - k
      BY <3>2, <3>3
    <3>4. CASE at # L - k
      <4>1. at >= L - (k - 1)
        <5>1. ASSUME NEW m \in Nat
              PROVE  \A i \in 0 .. m, n \in 1 .. m : i >= m - n /\ i # m - n => i >= m - (n - 1)
          OBVIOUS
        <5> HIDE DEF L
        <5> QED BY <1>1, <2>2, <3>4, <5>1
      <4>2. F[at] = D(F, at)
        BY <2>1, <4>1
      <4> QED BY <3>2, <3>4, <4>2
    <3> QED BY <3>3, <3>4
  <2>3. Good(G, k)
    BY <2>2
  <2> HIDE DEF G, Good
  <2> QED BY <2>3
<1>6. 0 .. L \subseteq Q
  <2> HIDE DEF Q, L
  <2> QED BY <1>1, <1>4, <1>5, InductionUpTo
<1>7. PICK F : Good(F, L)
  BY <1>1, <1>6
<1>8. F = [at \in 0 .. L |-> D(F, at)]
  <2>1. \A at \in 0 .. L : F[at] = D(F, at)
    BY <1>1, <1>7
  <2>2. F = [at \in 0 .. L |-> F[at]]
    BY <1>7
  <2> QED BY <2>1, <2>2
<1> DEFINE From == CHOOSE f : f = [at \in 0 .. L |-> D(f, at)]
<1>9. From = [at \in 0 .. L |-> D(From, at)]
  BY <1>8
<1>10. Decode(bytes, fields, sizes, others) = From[0]
  BY DEF Decode, DecodedAt, SizeAt, Accepted, D
<1> HIDE DEF From
<1>11. \A at \in 0 .. L : From[at] = D(From, at)
  BY <1>9
<1> QED BY <1>10, <1>11 DEF D, Decoding


-----------------------------------------------------------------------------
(* Requests, whole and cut. *)

\* w is the front, of length B, of the octets s, t and u.
Front3(s, t, u, B, w) ==
  /\ s \in Seq(Nat) /\ t \in Seq(Nat) /\ u \in Seq(Nat)
  /\ B \in 0 .. Len((s \o t) \o u) /\ w = SubSeq((s \o t) \o u, 1, B)

\* A piece from the middle of a message is where it was, as far as the message was kept.
LEMMA MiddlePiece ==
  ASSUME NEW s, NEW t, NEW u, NEW B, NEW w, Front3(s, t, u, B, w)
  PROVE  /\ w \in Seq(Nat) /\ Len(w) = B
         /\ \A k \in 1 .. Len(t) : Len(s) + k <= B => w[Len(s) + k] = t[k]
<1>v. PICK v : v = (s \o t) \o u
  OBVIOUS
<1>0. s \in Seq(Nat) /\ t \in Seq(Nat) /\ u \in Seq(Nat) /\ v \in Seq(Nat) /\ B \in 0 .. Len(v) /\ w = SubSeq(v, 1, B)
  <2>1. s \in Seq(Nat) /\ t \in Seq(Nat) /\ u \in Seq(Nat)
    BY DEF Front3
  <2>2. v \in Seq(Nat)
    BY <1>v, <2>1, ConcatProperties
  <2> QED BY <1>v, <2>1, <2>2 DEF Front3
<1>1. Len(s) \in Nat /\ Len(t) \in Nat /\ Len(u) \in Nat
  BY <1>0, LenProperties
<1>l. PICK l \in Nat : l = Len(s)
  BY <1>1
<1>2. v \in Seq(Nat) /\ Len(v) = l + Len(t) + Len(u) /\ \A k \in 1 .. Len(t) : v[l + k] = t[k]
  <2>1. /\ s \o t \in Seq(Nat) /\ Len(s \o t) = Len(s) + Len(t)
        /\ \A i \in 1 .. Len(t) : (s \o t)[Len(s) + i] = t[i]
    BY <1>0, Joined
  <2>2. /\ v \in Seq(Nat) /\ Len(v) = Len(s \o t) + Len(u)
        /\ \A i \in 1 .. Len(s \o t) : v[i] = (s \o t)[i]
    BY <1>0, <1>v, <2>1, Joined
  <2>3. ASSUME NEW k \in 1 .. Len(t) PROVE v[l + k] = t[k]
    <3>1. Len(s) + k \in 1 .. Len(s \o t)
      BY <1>1, <2>1
    <3> QED BY <1>l, <2>1, <2>2, <3>1
  <2> QED BY <1>l, <2>1, <2>2, <2>3
<1>3. B \in Nat /\ B <= Len(v)
  BY <1>0, <1>1, <1>2
<1>4. w \in Seq(Nat) /\ Len(w) = B /\ \A i \in 1 .. B : w[i] = v[i]
  <2>1. \A i \in 1 .. B : v[i] \in Nat
    BY <1>2, <1>3, ElementOfSeq, LenProperties
  <2>2. /\ w \in Seq(Nat) /\ Len(w) = (IF 1 <= B THEN B - 1 + 1 ELSE 0)
        /\ \A i \in 1 .. B - 1 + 1 : w[i] = v[1 + i - 1]
    BY <1>0, <1>3, <2>1, SubSeqProperties
  <2> QED BY <1>3, <2>2
<1>5. ASSUME NEW k \in 1 .. Len(t), l + k <= B PROVE w[l + k] = t[k]
  BY <1>1, <1>2, <1>3, <1>4, <1>5
<1> QED BY <1>4, <1>5, <1>l

Behind(s, m, a) == m \in Nat /\ m # 0 /\ a \in Int /\ a = Len(s) + m

Slice(seq, m, n) == SubSeq(seq, m, n)

LEMMA MiddleSlice ==
  ASSUME NEW s, NEW t, NEW u, NEW B, NEW w, Front3(s, t, u, B, w),
         NEW m, NEW n, n <= Len(t), Len(s) + n <= B,
         NEW a, Behind(s, m, a), NEW b, Behind(s, n, b)
  PROVE  Slice(w, a, b) = Slice(t, m, n)
<1>v. PICK v : v = (s \o t) \o u
  OBVIOUS
<1>0. s \in Seq(Nat) /\ t \in Seq(Nat) /\ u \in Seq(Nat) /\ v \in Seq(Nat) /\ B \in 0 .. Len(v) /\ w = SubSeq(v, 1, B)
  <2>1. s \in Seq(Nat) /\ t \in Seq(Nat) /\ u \in Seq(Nat)
    BY DEF Front3
  <2>2. v \in Seq(Nat)
    BY <1>v, <2>1, ConcatProperties
  <2> QED BY <1>v, <2>1, <2>2 DEF Front3
<1>1. Len(s) \in Nat /\ Len(t) \in Nat /\ Len(v) \in Nat
  BY <1>0, LenProperties
<1>l. PICK l \in Nat : l = Len(s)
  BY <1>1
<1>3. B \in Nat /\ B <= Len(v)
  BY <1>0, <1>1
<1>4. w \in Seq(Nat) /\ Len(w) = B
  BY MiddlePiece
<1>5. ASSUME NEW k \in 1 .. Len(t), l + k <= B PROVE w[l + k] = t[k]
  BY <1>5, <1>l, MiddlePiece
<1>6. l + n <= B
  BY <1>l
<1>a. a = l + m /\ a \in Int /\ m \in Nat /\ m # 0
  BY <1>l DEF Behind
<1>b. b = l + n /\ b \in Int /\ n \in Nat
  BY <1>l DEF Behind
<1>7. n \in Int /\ m \in Int
  BY <1>1, <1>a, <1>b
<1>8. \A i \in a .. b : w[i] \in Nat
  <2>1. \A i \in a .. b : i \in 1 .. Len(w)
    BY <1>3, <1>4, <1>6, <1>a, <1>b, <1>7
  <2> QED BY <1>4, <2>1, ElementOfSeq
<1>9. \A i \in m .. n : t[i] \in Nat
  <2>1. \A i \in m .. n : i \in 1 .. Len(t)
    BY <1>1, <1>a, <1>b
  <2> QED BY <1>0, <2>1, ElementOfSeq
<1>10. /\ SubSeq(w, a, b) \in Seq(Nat) /\ Len(SubSeq(w, a, b)) = IF a <= b THEN b - a + 1 ELSE 0
      /\ \A i \in 1 .. b - a + 1 : SubSeq(w, a, b)[i] = w[a + i - 1]
  <2>1. a \in Int /\ b \in Int
    BY <1>a, <1>b
  <2> QED BY ONLY <1>8, <2>1, SubSeqProperties
<1>11. /\ SubSeq(t, m, n) \in Seq(Nat) /\ Len(SubSeq(t, m, n)) = IF m <= n THEN n - m + 1 ELSE 0
      /\ \A i \in 1 .. n - m + 1 : SubSeq(t, m, n)[i] = t[m + i - 1]
  BY <1>7, <1>9, SubSeqProperties
<1>12. b - a + 1 = n - m + 1 /\ (a <= b <=> m <= n) /\ b - a + 1 \in Int
  BY <1>a, <1>b, <1>7
<1>13. ASSUME NEW i \in 1 .. Len(SubSeq(w, a, b)) PROVE SubSeq(w, a, b)[i] = SubSeq(t, m, n)[i]
  <2>1. i \in 1 .. b - a + 1 /\ i \in 1 .. n - m + 1
    BY <1>10, <1>12
  <2>2. m + i - 1 \in 1 .. Len(t) /\ l + (m + i - 1) <= B /\ a + i - 1 = l + (m + i - 1)
    BY <1>1, <1>3, <1>6, <1>a, <1>b, <2>1
  <2> QED BY <1>5, <1>10, <1>11, <2>1, <2>2
<1>14. Len(SubSeq(w, a, b)) = Len(SubSeq(t, m, n))
  BY <1>10, <1>11, <1>12
<1>15. SubSeq(w, a, b) = SubSeq(t, m, n)
  BY ONLY <1>10, <1>11, <1>13, <1>14, SeqEqual
<1> QED BY <1>15 DEF Slice

\* At offset at of octets of length B there are number i and value o, unless the end is before.
Found(octets, B, at, i, o) ==
  /\ at + 5 <= B => octets[at + 1] = i /\ SizeAt(octets, at) = Len(o)
  /\ at + 5 + Len(o) <= B => SubSeq(octets, at + 6, at + 5 + Len(o)) = o

LEMMA TLVFound ==
  ASSUME NEW i \in Nat, NEW o \in Seq(Nat), Len(o) < Numbers[4],
         NEW s, NEW u, NEW B, NEW w, Front3(s, TLV(i, o), u, B, w)
  PROVE  Found(w, B, Len(s), i, o)
<1>t. PICK t : t = TLV(i, o)
  OBVIOUS
<1>1. /\ t \in Seq(Nat) /\ Len(t) = 5 + Len(o) /\ t[1] = i
      /\ Number(SubSeq(t, 2, 5)) = Len(o) /\ SubSeq(t, 6, 5 + Len(o)) = o
  BY <1>t, TLVIs
<1>2. Front3(s, t, u, B, w)
  BY <1>t
<1>3. Len(s) \in Nat /\ Len(o) \in Nat /\ B \in Int
  <2>1. s \in Seq(Nat) /\ B \in Int
    BY <1>2 DEF Front3
  <2> QED BY <2>1, LenProperties
<1>5. ASSUME Len(s) + 5 <= B PROVE w[Len(s) + 1] = i /\ SizeAt(w, Len(s)) = Len(o)
  <2>1. 1 \in 1 .. Len(t) /\ 5 <= Len(t) /\ Len(s) + 1 <= B
    BY <1>1, <1>3, <1>5
  <2>2. w[Len(s) + 1] = t[1]
    BY <1>2, <2>1, MiddlePiece
  <2>3. SubSeq(w, Len(s) + 2, Len(s) + 5) = SubSeq(t, 2, 5)
    <3>1. Behind(s, 2, Len(s) + 2) /\ Behind(s, 5, Len(s) + 5)
      BY <1>3 DEF Behind
    <3>2. Slice(w, Len(s) + 2, Len(s) + 5) = Slice(t, 2, 5)
      BY ONLY <1>2, <1>5, <2>1, <3>1, MiddleSlice
    <3> QED BY <3>2 DEF Slice
  <2> QED BY <1>1, <2>2, <2>3 DEF SizeAt
<1>6. ASSUME Len(s) + 5 + Len(o) <= B PROVE SubSeq(w, Len(s) + 6, Len(s) + 5 + Len(o)) = o
  <2>1. Len(t) \in Nat /\ Len(t) <= Len(t) /\ Len(s) + Len(t) <= B
    BY <1>1, <1>3, <1>6
  <2>2. SubSeq(w, Len(s) + 6, Len(s) + Len(t)) = SubSeq(t, 6, Len(t))
    <3>1. Len(s) + 6 \in Int /\ Len(s) + Len(t) \in Int
      BY <1>3, <2>1
    <3>2. Behind(s, 6, Len(s) + 6) /\ Behind(s, Len(t), Len(s) + Len(t))
      BY <1>1, <1>3, <2>1, <3>1 DEF Behind
    <3>3. Slice(w, Len(s) + 6, Len(s) + Len(t)) = Slice(t, 6, Len(t))
      BY ONLY <1>2, <2>1, <3>2, MiddleSlice
    <3> QED BY <3>3 DEF Slice
  <2>3. SubSeq(t, 6, Len(t)) = o
    BY <1>1
  <2>4. Len(s) + Len(t) = Len(s) + 5 + Len(o)
    BY <1>1, <1>3
  <2> QED BY <2>2, <2>3, <2>4
<1> QED BY <1>5, <1>6 DEF Found

LEMMA CutTyped ==
  ASSUME NEW s \in Seq(Nat), NEW B \in 0 .. Len(s)
  PROVE  Slice(s, 1, B) \in Seq(Nat) /\ Len(Slice(s, 1, B)) = B /\ B \in Nat
<1>1. Len(s) \in Nat
  BY LenProperties
<1>2. B \in Nat /\ B <= Len(s)
  BY <1>1
<1>3. \A k \in 1 .. B : s[k] \in Nat
  <2>1. \A k \in 1 .. B : k \in 1 .. Len(s)
    BY <1>1, <1>2
  <2> QED BY <2>1, ElementOfSeq
<1>4. SubSeq(s, 1, B) \in Seq(Nat) /\ Len(SubSeq(s, 1, B)) = IF 1 <= B THEN B - 1 + 1 ELSE 0
  BY <1>2, <1>3, SubSeqProperties
<1> QED BY <1>2, <1>4 DEF Slice

LEMMA Reassociated ==
  ASSUME NEW s \in Seq(Nat), NEW t \in Seq(Nat), NEW u \in Seq(Nat)
  PROVE  (s \o t) \o u = s \o (t \o u) /\ t \o u \in Seq(Nat)
<1>1. (s \o t) \o u = s \o (t \o u)
  BY ConcatAssociative
<1>2. t \o u \in Seq(Nat)
  BY ConcatProperties
<1> QED BY <1>1, <1>2

LEMMA FieldNumbers ==
  /\ \A i \in 1 .. 10 : i \in Nat /\ i - 1 \in 0 .. 10 /\ i \in 0 .. 10 /\ i # 0
  /\ \A k \in 1 .. 10 : 10 - (k - 1) \in 1 .. 10 /\ (10 - (k - 1)) - 1 = 10 - k
  /\ \A i \in 1 .. 10 : /\ i \in (i - 1) + 1 .. 10 /\ i + 1 .. 10 \subseteq (i - 1) + 1 .. 10
                         /\ \A j \in (i - 1) + 1 .. 10 : j = i \/ j \in i + 1 .. 10
  /\ 10 + 1 .. 10 = {}
  OBVIOUS

\* The encoding of the first fields is the front of the whole.
LEMMA FrontOfMessage ==
  ASSUME NEW c \in Commands, NEW P \in [0 .. 10 -> Seq(Nat)], Encodes(P, c), NEW i \in 0 .. 10
  PROVE  \E u \in Seq(Nat) : P[10] = P[i] \o u
<1> DEFINE Q == {k \in 0 .. 10 : \E u \in Seq(Nat) : P[10] = P[10 - k] \o u}
<1>1. 0 \in Q
  <2>1. <<>> \in Seq(Nat) /\ P[10] \o <<>> = P[10] /\ 10 - 0 = 10 /\ 0 \in 0 .. 10
    BY EmptySeq, ConcatEmptySeq
  <2> QED BY <2>1
<1>2. ASSUME NEW k \in 1 .. 10, k - 1 \in Q PROVE k \in Q
  <2>j. PICK j \in 1 .. 10 : j = 10 - (k - 1)
    BY FieldNumbers
  <2>1. PICK u \in Seq(Nat) : P[10] = P[j] \o u
    BY <1>2, <2>j
  <2>2. j - 1 = 10 - k /\ j - 1 \in 0 .. 10 /\ j \in 0 .. 10 /\ j # 0
    BY ONLY <2>j, j \in 1 .. 10, k \in 1 .. 10, FieldNumbers
  <2>3. P[j - 1] \in Seq(Nat) /\ P[j] \in Seq(Nat)
    BY <2>2
  <2>4. P[10] = P[j - 1] \o u \/ \E t \in Seq(Nat) : P[10] = (P[j - 1] \o t) \o u
    <3>1. CASE ClientFields[j] \in DOMAIN c
      <4>1. P[j] = P[j - 1] \o TLV(j, ValueOctets(ClientFields[j], c[ClientFields[j]]))
        BY <2>2, <3>1 DEF Encodes
      <4>o. PICK o : o = ValueOctets(ClientFields[j], c[ClientFields[j]])
        OBVIOUS
      <4>2. o \in Seq(Nat) /\ Len(o) < Numbers[4] /\ j \in Nat
        <5>1. Carries(o, ClientFields[j], Coded(ClientFields[j], c[ClientFields[j]]))
          BY <3>1, <4>o, CommandCarried
        <5>2. j \in Nat
          BY FieldNumbers
        <5> QED BY <5>1, <5>2 DEF Carries
      <4>3. TLV(j, o) \in Seq(Nat)
        BY <4>2, TLVIs
      <4> QED BY <2>1, <4>1, <4>3, <4>o
    <3>2. CASE ClientFields[j] \notin DOMAIN c
      BY <2>1, <2>2, <3>2 DEF Encodes
    <3> QED BY <3>1, <3>2
  <2>5. \E v \in Seq(Nat) : P[10] = P[j - 1] \o v
    <3>1. ASSUME NEW t \in Seq(Nat), P[10] = (P[j - 1] \o t) \o u PROVE \E v \in Seq(Nat) : P[10] = P[j - 1] \o v
      <4>p. PICK p \in Seq(Nat) : p = P[j - 1]
        BY <2>3
      <4>2. (p \o t) \o u = p \o (t \o u)
        BY Reassociated
      <4>3. t \o u \in Seq(Nat)
        BY Reassociated
      <4>1. P[10] = P[j - 1] \o (t \o u) /\ t \o u \in Seq(Nat)
        BY <3>1, <4>p, <4>2, <4>3
      <4> QED BY <4>1
    <3> QED BY <2>1, <2>4, <3>1
  <2>6. k \in 0 .. 10
    BY FieldNumbers
  <2> QED BY <2>2, <2>5, <2>6
<1>3. 0 .. 10 \subseteq Q
  <2>1. 10 \in Nat
    OBVIOUS
  <2> HIDE DEF Q
  <2> QED BY <1>1, <1>2, <2>1, InductionUpTo
<1>4. 10 - i \in 0 .. 10 /\ 10 - (10 - i) = i
  OBVIOUS
<1> QED BY <1>3, <1>4

\* A field is found where it was put, unless the message was cut before it.
LEMMA FieldFound ==
  ASSUME NEW c \in Commands, NEW P \in [0 .. 10 -> Seq(Nat)], Encodes(P, c),
         NEW i \in 1 .. 10, ClientFields[i] \in DOMAIN c, NEW B \in 0 .. Len(P[10])
  PROVE  LET o == ValueOctets(ClientFields[i], c[ClientFields[i]])
             bytes == SubSeq(P[10], 1, B)
             at == Len(P[i - 1])
         IN /\ Len(P[i]) = at + 5 + Len(o) /\ Len(P[i]) <= Len(P[10])
            /\ Found(bytes, B, at, i, o)
<1>o. PICK o : o = ValueOctets(ClientFields[i], c[ClientFields[i]])
  OBVIOUS
<1>1. o \in Seq(Nat) /\ Len(o) < Numbers[4] /\ i \in Nat
  <2>1. Carries(o, ClientFields[i], Coded(ClientFields[i], c[ClientFields[i]]))
    BY <1>o, CommandCarried
  <2>2. i \in Nat
    BY FieldNumbers
  <2> QED BY <2>1, <2>2 DEF Carries
<1>t. PICK t : t = TLV(i, o)
  OBVIOUS
<1>2. /\ t \in Seq(Nat) /\ Len(t) = 5 + Len(o) /\ t[1] = i
      /\ Number(SubSeq(t, 2, 5)) = Len(o) /\ SubSeq(t, 6, 5 + Len(o)) = o
  BY <1>1, <1>t, TLVIs
<1>3. i - 1 \in 0 .. 10 /\ i \in 0 .. 10 /\ i # 0
  BY FieldNumbers
<1>s. PICK s \in Seq(Nat) : s = P[i - 1]
  BY <1>3
<1>4. P[i] = s \o t
  BY <1>3, <1>o, <1>s, <1>t DEF Encodes
<1>5. PICK u \in Seq(Nat) : P[10] = (s \o t) \o u
  BY <1>3, <1>4, FrontOfMessage
<1>6. Len(s) \in Nat /\ Len(o) \in Nat /\ Len(u) \in Nat
  BY <1>1, LenProperties
<1>7. Len(P[i]) = Len(s) + Len(t) /\ Len(P[i]) <= Len(P[10])
  <2>1. s \o t \in Seq(Nat) /\ Len(s \o t) = Len(s) + Len(t)
    BY <1>2, Joined
  <2>2. Len((s \o t) \o u) = Len(s \o t) + Len(u)
    BY <2>1, Joined
  <2> QED BY <1>2, <1>4, <1>5, <1>6, <2>1, <2>2
<1>b. PICK bytes : bytes = SubSeq(P[10], 1, B)
  OBVIOUS
<1>8. Front3(s, TLV(i, o), u, B, bytes)
  BY <1>2, <1>5, <1>b, <1>s, <1>t DEF Front3
<1>9. Found(bytes, B, Len(s), i, o)
  BY ONLY <1>1, <1>8, TLVFound
<1>11. Len(s) + Len(t) = Len(s) + 5 + Len(o)
  BY <1>2, <1>6
<1> QED BY <1>7, <1>9, <1>11, <1>b, <1>o, <1>s

\* What is to be read of the fields from number i + 1 on, of a message cut to B octets.
Readable(r, i, c, P, B) ==
  /\ r.ok \in BOOLEAN
  /\ ~r.ok => r.fields = NoFields
  /\ r.ok => \A f \in DOMAIN r.fields :
               /\ f \in DOMAIN c /\ r.fields[f] = Coded(f, c[f])
               /\ \E j \in i + 1 .. 10 : f = ClientFields[j] /\ Len(P[j]) <= B
  /\ B = Len(P[10]) =>
       r.ok /\ \A j \in i + 1 .. 10 : ClientFields[j] \in DOMAIN c => ClientFields[j] \in DOMAIN r.fields

Refused == [ok |-> FALSE, fields |-> NoFields]
Nothing == [ok |-> TRUE, fields |-> NoFields]

\* What d, decoded from offset at on, is if field f with the octets o is there and B is the end.
Cases(d, F, at, B, f, o, sizes, others) ==
  /\ at + 5 > B => d = Nothing
  /\ at + 5 <= B /\ at + 5 + Len(o) > B => d = Refused
  /\ at + 5 + Len(o) <= B /\ Accepted(f, Len(o), sizes, others) /\ ~F[at + 5 + Len(o)].ok => d = Refused
  /\ at + 5 + Len(o) <= B /\ Accepted(f, Len(o), sizes, others) /\ F[at + 5 + Len(o)].ok =>
       d = [ok |-> TRUE, fields |-> Under(F[at + 5 + Len(o)].fields, f, OctetsValue(f, o))]

\* The cases of a decoder at a field whose number, size and value are known.
LEMMA DecodedCases ==
  ASSUME NEW bytes, NEW B \in Nat, Len(bytes) = B, NEW at \in Nat, NEW F, NEW fields, NEW sizes, NEW others,
         NEW i, NEW o, Len(o) \in Nat, Found(bytes, B, at, i, o), i \in DOMAIN fields
  PROVE  Cases(DecodedAt(F, at, bytes, fields, sizes, others), F, at, B, fields[i], o, sizes, others)
<1> DEFINE r == DecodedAt(F, at, bytes, fields, sizes, others)
<1>1. ASSUME at + 5 > B PROVE r = Nothing
  BY <1>1 DEF DecodedAt, Nothing
<1>2. ASSUME at + 5 <= B PROVE bytes[at + 1] = i /\ SizeAt(bytes, at) = Len(o) /\ ~(at + 5 > B)
  BY <1>2 DEF Found
<1>3. ASSUME at + 5 <= B, at + 5 + Len(o) > B PROVE r = Refused
  BY <1>2, <1>3 DEF DecodedAt, Refused
<1>4. ASSUME at + 5 + Len(o) <= B
      PROVE  at + 5 <= B /\ ~(at + 5 + Len(o) > B) /\ SubSeq(bytes, at + 6, at + 5 + Len(o)) = o
  BY <1>4 DEF Found
<1>5. ASSUME at + 5 + Len(o) <= B, Accepted(fields[i], Len(o), sizes, others), ~F[at + 5 + Len(o)].ok
      PROVE  r = Refused
  BY <1>2, <1>4, <1>5 DEF DecodedAt, Refused
<1>6. ASSUME at + 5 + Len(o) <= B, Accepted(fields[i], Len(o), sizes, others), F[at + 5 + Len(o)].ok
      PROVE  r = [ok |-> TRUE, fields |-> Under(F[at + 5 + Len(o)].fields, fields[i], OctetsValue(fields[i], o))]
  <2>1. r = [ok |-> TRUE, fields |-> Under(F[at + 5 + Len(o)].fields, fields[i],
                                       OctetsValue(fields[i], SubSeq(bytes, at + 6, at + 5 + Len(o))))]
    BY <1>2, <1>4, <1>6 DEF DecodedAt
  <2>2. SubSeq(bytes, at + 6, at + 5 + Len(o)) = o
    BY <1>4, <1>6
  <2>v. PICK v : v = SubSeq(bytes, at + 6, at + 5 + Len(o))
    OBVIOUS
  <2>3. r = [ok |-> TRUE, fields |-> Under(F[at + 5 + Len(o)].fields, fields[i], OctetsValue(fields[i], v))]
    BY <2>1, <2>v
  <2>4. v = o
    BY <2>2, <2>v
  <2> HIDE DEF r
  <2> QED BY <2>3, <2>4
<1> HIDE DEF r
<1>7. /\ at + 5 > B => r = Nothing
      /\ at + 5 <= B /\ at + 5 + Len(o) > B => r = Refused
      /\ at + 5 + Len(o) <= B /\ Accepted(fields[i], Len(o), sizes, others) /\ ~F[at + 5 + Len(o)].ok => r = Refused
      /\ at + 5 + Len(o) <= B /\ Accepted(fields[i], Len(o), sizes, others) /\ F[at + 5 + Len(o)].ok =>
           r = [ok |-> TRUE, fields |-> Under(F[at + 5 + Len(o)].fields, fields[i], OctetsValue(fields[i], o))]
  BY <1>1, <1>3, <1>5, <1>6
<1> QED BY <1>7 DEF r, Cases

\* One field of a message: r is what is decoded from its tag on, rest from its end on.
LEMMA FieldCases ==
  ASSUME NEW c, NEW P, NEW B \in Nat, NEW i \in 1 .. 10, ClientFields[i] \in DOMAIN c,
         NEW at \in Nat, NEW L \in Nat, L = Len(P[i]), at + 5 <= L, NEW W \in Nat, W = Len(P[10]), L <= W,
         NEW f, f = ClientFields[i], NEW v, v = Coded(f, c[f]), NEW r, NEW rest,
         L <= B => Readable(rest, i, c, P, B),
         at + 5 > B => r = Nothing,
         at + 5 <= B /\ L > B => r = Refused,
         L <= B /\ ~rest.ok => r = Refused,
         L <= B /\ rest.ok => r = [ok |-> TRUE, fields |-> Under(rest.fields, f, v)]
  PROVE  Readable(r, i - 1, c, P, B)
<1>1. CASE at + 5 > B \/ L > B \/ ~rest.ok
  <2>1. r = Nothing \/ r = Refused
    BY <1>1
  <2>2. B # W
    BY <1>1 DEF Readable
  <2>3. r.ok \in BOOLEAN /\ r.fields = NoFields
    <3>1. Nothing.ok = TRUE /\ Nothing.fields = NoFields /\ Refused.ok = FALSE /\ Refused.fields = NoFields
      BY DEF Nothing, Refused
    <3>2. CASE r = Nothing
      BY ONLY <3>1, <3>2
    <3>3. CASE r = Refused
      BY ONLY <3>1, <3>3
    <3> QED BY <2>1, <3>2, <3>3
  <2>4. DOMAIN r.fields = {}
    BY <2>3 DEF NoFields
  <2>5. W = Len(P[10])
    OBVIOUS
  <2> QED BY ONLY <2>2, <2>3, <2>4, <2>5 DEF Readable
<1>2. CASE L <= B /\ rest.ok
  <2>1. r = [ok |-> TRUE, fields |-> Under(rest.fields, f, v)]
    BY <1>2
  <2>2. Readable(rest, i, c, P, B)
    BY <1>2
  <2>3. DOMAIN r.fields = DOMAIN rest.fields \cup {f}
    BY <2>1 DEF Under
  <2>4. ASSUME NEW g \in DOMAIN r.fields
        PROVE  /\ g \in DOMAIN c /\ r.fields[g] = Coded(g, c[g])
               /\ \E j \in (i - 1) + 1 .. 10 : g = ClientFields[j] /\ Len(P[j]) <= B
    <3>1. CASE g \in DOMAIN rest.fields
      <4>1. r.fields[g] = rest.fields[g]
        BY <2>1, <3>1 DEF Under
      <4>2. /\ g \in DOMAIN c /\ rest.fields[g] = Coded(g, c[g])
            /\ \E j \in i + 1 .. 10 : g = ClientFields[j] /\ Len(P[j]) <= B
        BY <1>2, <2>2, <3>1 DEF Readable
      <4>3. i + 1 .. 10 \subseteq (i - 1) + 1 .. 10
        BY FieldNumbers
      <4> QED BY <4>1, <4>2, <4>3
    <3>2. CASE g = f /\ g \notin DOMAIN rest.fields
      <4>1. r.fields[g] = v
        BY <2>1, <2>3, <2>4, <3>2 DEF Under
      <4>2. i \in (i - 1) + 1 .. 10
        BY FieldNumbers
      <4> QED BY <1>2, <3>2, <4>1, <4>2
    <3> QED BY <2>3, <2>4, <3>1, <3>2
  <2>5. ASSUME B = W, NEW j \in (i - 1) + 1 .. 10, ClientFields[j] \in DOMAIN c
        PROVE  ClientFields[j] \in DOMAIN r.fields
    <3>1. j = i \/ j \in i + 1 .. 10
      BY FieldNumbers
    <3>2. j \in i + 1 .. 10 => ClientFields[j] \in DOMAIN rest.fields
      BY <2>2, <2>5 DEF Readable
    <3> QED BY <2>3, <3>1, <3>2
  <2>6. r.ok = TRUE
    BY <2>1
  <2>7. W = Len(P[10])
    OBVIOUS
  <2>8. r.ok \in BOOLEAN /\ (~r.ok => r.fields = NoFields)
    BY <2>6
  <2>9. \A g \in DOMAIN r.fields :
          /\ g \in DOMAIN c /\ r.fields[g] = Coded(g, c[g])
          /\ \E j \in (i - 1) + 1 .. 10 : g = ClientFields[j] /\ Len(P[j]) <= B
    BY <2>4
  <2>10. B = Len(P[10]) =>
           r.ok /\ \A j \in (i - 1) + 1 .. 10 : ClientFields[j] \in DOMAIN c => ClientFields[j] \in DOMAIN r.fields
    BY <2>5, <2>6, <2>7
  <2> QED BY ONLY <2>8, <2>9, <2>10 DEF Readable
<1> QED BY <1>1, <1>2

LEMMA FieldReadable ==
  ASSUME NEW c \in Commands, NEW P \in [0 .. 10 -> Seq(Nat)], Encodes(P, c), NEW B \in 0 .. Len(P[10]),
         NEW bytes, bytes = Slice(P[10], 1, B), NEW F,
         \A at \in 0 .. B : F[at] = DecodedAt(F, at, bytes, ClientFields, ClientSizes, Nat),
         NEW i \in 1 .. 10, Len(P[i]) <= B => Readable(F[Len(P[i])], i, c, P, B), Len(P[i - 1]) <= B
  PROVE  Readable(F[Len(P[i - 1])], i - 1, c, P, B)
<1>at. PICK at : at = Len(P[i - 1])
  OBVIOUS
<1>0. P[i - 1] \in Seq(Nat) /\ P[i] \in Seq(Nat) /\ P[10] \in Seq(Nat) /\ i \in 0 .. 10 /\ i # 0
  <2>1. i - 1 \in 0 .. 10 /\ i \in 0 .. 10 /\ i # 0
    BY FieldNumbers
  <2>2. 10 \in 0 .. 10
    OBVIOUS
  <2> QED BY <2>1, <2>2
<1>1. at \in Nat /\ Len(P[10]) \in Nat /\ B \in Nat /\ Len(P[i]) \in Nat /\ at <= B /\ Len(bytes) = B
  <2>1. at \in Nat /\ Len(P[10]) \in Nat /\ Len(P[i]) \in Nat
    BY <1>0, <1>at, LenProperties
  <2>2. Len(Slice(P[10], 1, B)) = B /\ B \in Nat
    BY <1>0, CutTyped
  <2> QED BY <1>at, <2>1, <2>2
<1>2. CASE ClientFields[i] \notin DOMAIN c
  <2>1. P[i] = P[i - 1]
    BY <1>0, <1>2 DEF Encodes
  <2>r. PICK r : r = F[Len(P[i - 1])]
    OBVIOUS
  <2>2. Readable(r, i, c, P, B)
    BY <2>1, <2>r
  <2>3. \A j \in (i - 1) + 1 .. 10 : j = i \/ j \in i + 1 .. 10
    BY FieldNumbers
  <2>4. i + 1 .. 10 \subseteq (i - 1) + 1 .. 10
    BY FieldNumbers
  <2>5. Readable(r, i - 1, c, P, B)
    BY <1>2, <2>2, <2>3, <2>4 DEF Readable
  <2> QED BY <2>5, <2>r
<1>3. CASE ClientFields[i] \in DOMAIN c
  <2>f. PICK f : f = ClientFields[i]
    OBVIOUS
  <2>o. PICK o : o = ValueOctets(ClientFields[i], c[ClientFields[i]])
    OBVIOUS
  <2>v. PICK v : v = Coded(ClientFields[i], c[ClientFields[i]])
    OBVIOUS
  <2>L. PICK L : L = Len(P[i])
    OBVIOUS
  <2>1. L = at + 5 + Len(o) /\ L <= Len(P[10]) /\ Found(bytes, B, at, i, o)
    BY <1>3, <1>at, <2>L, <2>o, FieldFound DEF Slice
  <2>2. Carries(o, f, v)
    BY <1>3, <2>f, <2>o, <2>v, CommandCarried
  <2>3. Len(o) \in Nat /\ OctetsValue(f, o) = v /\ Accepted(f, Len(o), ClientSizes, Nat)
    <3>1. Len(o) \in Nat
      BY <2>2, LenProperties DEF Carries
    <3> QED BY <2>2, <3>1 DEF Carries, Accepted
  <2>4. F[at] = DecodedAt(F, at, bytes, ClientFields, ClientSizes, Nat)
    BY <1>1
  <2>5. i \in DOMAIN ClientFields
    BY FieldTables
  <2>r. PICK r : r = F[at]
    OBVIOUS
  <2>e. PICK rest : rest = F[L]
    OBVIOUS
  <2>6. Cases(DecodedAt(F, at, bytes, ClientFields, ClientSizes, Nat), F, at, B, ClientFields[i], o, ClientSizes, Nat)
    BY <1>1, <2>1, <2>3, <2>5, DecodedCases
  <2>7. /\ at + 5 > B => r = Nothing
        /\ at + 5 <= B /\ L > B => r = Refused
        /\ L <= B /\ ~rest.ok => r = Refused
        /\ L <= B /\ rest.ok => r = [ok |-> TRUE, fields |-> Under(rest.fields, f, v)]
    <3> HIDE DEF Under, Nothing, Refused
    <3> QED BY ONLY <2>1, <2>3, <2>4, <2>6, <2>e, <2>f, <2>r DEF Cases
  <2>8. L \in Nat /\ at + 5 <= L
    <3>1. \A a, n \in Nat : a + 5 + n \in Nat /\ a + 5 <= a + 5 + n
      OBVIOUS
    <3> QED BY ONLY <1>1, <2>1, <2>3, <3>1
  <2>9. L <= B => Readable(rest, i, c, P, B)
    BY <2>L, <2>e
  <2>10. v = Coded(f, c[f])
    BY <2>f, <2>v
  <2>11. Readable(r, i - 1, c, P, B)
    BY ONLY <1>1, <1>3, i \in 1 .. 10, <2>1, <2>7, <2>8, <2>9, <2>10, <2>f, <2>L, FieldCases
  <2> QED BY <1>at, <2>11, <2>r
<1> QED BY <1>2, <1>3

LEMMA MessageReadable ==
  ASSUME NEW c \in Commands, NEW P \in [0 .. 10 -> Seq(Nat)], Encodes(P, c), NEW B \in 0 .. Len(P[10])
  PROVE  Readable(Decode(Slice(P[10], 1, B), ClientFields, ClientSizes, Nat), 0, c, P, B)
<1>b. PICK bytes : bytes = Slice(P[10], 1, B)
  OBVIOUS
<1>0. P[10] \in Seq(Nat) /\ P[0] = <<>> /\ Len(P[0]) = 0
  <2>1. 10 \in 0 .. 10 /\ 0 \in 0 .. 10
    OBVIOUS
  <2> QED BY <2>1, EmptySeq DEF Encodes
<1>1. Len(P[10]) \in Nat /\ B \in Nat /\ B <= Len(P[10])
  <2>1. Len(P[10]) \in Nat
    BY <1>0, LenProperties
  <2> QED BY <2>1
<1>2. bytes \in Seq(Nat) /\ Len(bytes) = B
  BY <1>0, <1>b, CutTyped
<1>f. PICK F : Decoding(F, bytes, ClientFields, ClientSizes, Nat)
  BY <1>2, DecodeIs
<1>3. /\ \A at \in 0 .. Len(bytes) : F[at] = DecodedAt(F, at, bytes, ClientFields, ClientSizes, Nat)
      /\ Decode(bytes, ClientFields, ClientSizes, Nat) = F[0]
  BY <1>f DEF Decoding
<1>4. \A at \in 0 .. B : F[at] = DecodedAt(F, at, bytes, ClientFields, ClientSizes, Nat)
  BY <1>2, <1>3
<1> DEFINE Q == {k \in 0 .. 10 : Len(P[10 - k]) <= B => Readable(F[Len(P[10 - k])], 10 - k, c, P, B)}
<1>5. 0 \in Q
  <2>1. ASSUME Len(P[10]) <= B PROVE Readable(F[Len(P[10])], 10, c, P, B)
    <3>1. B = Len(P[10])
      BY <1>1, <2>1
    <3>2. F[B] = Nothing
      <4>1. F[B] = DecodedAt(F, B, bytes, ClientFields, ClientSizes, Nat)
        BY <1>1, <1>4
      <4>2. B + 5 > Len(bytes)
        BY <1>1, <1>2
      <4> QED BY <4>1, <4>2 DEF DecodedAt, Nothing
    <3>3. 10 + 1 .. 10 = {}
      BY FieldNumbers
    <3> QED BY <3>1, <3>2, <3>3 DEF Readable, Nothing, NoFields
  <2>2. 10 - 0 = 10 /\ 0 \in 0 .. 10
    OBVIOUS
  <2> QED BY <2>1, <2>2
<1>6. ASSUME NEW k \in 1 .. 10, k - 1 \in Q PROVE k \in Q
  <2>i. PICK i \in 1 .. 10 : i = 10 - (k - 1)
    BY FieldNumbers
  <2>1. i - 1 = 10 - k
    BY ONLY <2>i, k \in 1 .. 10, FieldNumbers
  <2>2. Len(P[i]) <= B => Readable(F[Len(P[i])], i, c, P, B)
    BY <1>6, <2>i
  <2>3. Len(P[i - 1]) <= B => Readable(F[Len(P[i - 1])], i - 1, c, P, B)
    BY <1>4, <1>b, <2>2, FieldReadable
  <2>4. k \in 0 .. 10
    BY FieldNumbers
  <2> QED BY <2>1, <2>3, <2>4
<1>7. 0 .. 10 \subseteq Q
  <2>1. 10 \in Nat
    OBVIOUS
  <2> HIDE DEF Q
  <2> QED BY <1>5, <1>6, <2>1, InductionUpTo
<1>8. Readable(F[0], 0, c, P, B)
  <2>1. 10 \in Q /\ 10 - 10 = 0 /\ 0 <= B
    BY <1>1, <1>7
  <2> QED BY <1>0, <2>1
<1> QED BY <1>3, <1>8, <1>b

-----------------------------------------------------------------------------
(* Headers. *)

\* v is u with x behind it.
Grown(v, u, x) == u \in Seq(Nat) /\ x \in Seq(Nat) /\ v = u \o x

LEMMA GrownIs ==
  ASSUME NEW u, NEW x, NEW v, Grown(v, u, x)
  PROVE  /\ v \in Seq(Nat) /\ Len(v) = Len(u) + Len(x) /\ Len(u) \in Nat /\ Len(x) \in Nat
         /\ Slice(v, Len(u) + 1, Len(v)) = x
         /\ \A i \in 1 .. Len(u) : v[i] = u[i]
<1>1. u \in Seq(Nat) /\ x \in Seq(Nat) /\ v = u \o x
  BY DEF Grown
<1>2. Len(u) \in Nat /\ Len(x) \in Nat
  BY <1>1, LenProperties
<1>3. v \in Seq(Nat) /\ Len(v) = Len(u) + Len(x) /\ \A i \in 1 .. Len(u) : v[i] = u[i]
  BY <1>1, Joined
<1>4. SubSeq(u \o x, Len(u) + 1, Len(u) + Len(x)) = x
  BY <1>1, BackPiece
<1>5. SubSeq(v, Len(u) + 1, Len(v)) = x
  BY <1>1, <1>3, <1>4
<1> QED BY <1>2, <1>3, <1>5 DEF Slice

LEMMA GrownKeeps ==
  ASSUME NEW u, NEW x, NEW v, Grown(v, u, x), NEW a \in Nat, a # 0, NEW b \in Nat, b <= Len(u)
  PROVE  Slice(v, a, b) = Slice(u, a, b)
<1>1. u \in Seq(Nat) /\ x \in Seq(Nat) /\ v = u \o x
  BY DEF Grown
<1>2. CASE b < a
  <2>1. \A w : SubSeq(w, a, b) = <<>>
    BY <1>2, SubSeqEmpty
  <2> QED BY <2>1 DEF Slice
<1>3. CASE a <= b
  <2>1. a \in 1 .. Len(u) /\ b \in 1 .. Len(u)
    <3>1. Len(u) \in Nat
      BY <1>1, LenProperties
    <3> QED BY <1>3, <3>1
  <2>2. SubSeq(u \o x, a, b) = SubSeq(u, a, b)
    BY <1>1, <2>1, FrontPiece
  <2> QED BY <1>1, <2>2 DEF Slice
<1> QED BY <1>2, <1>3

\* The octets of a header, and of what follows it.
Framed(d, status, content) ==
  /\ d \in Seq(Nat) /\ Len(d) = 18 + Len(content)
  /\ Slice(d, 13, 14) = BigEndian(status, 2)
  /\ Slice(d, 15, 18) = BigEndian(Len(content), 4)
  /\ Slice(d, 19, 18 + Len(content)) = content
  /\ \E h : Len(h) = 18 /\ Grown(d, h, content)

LEMMA FrameIs ==
  ASSUME NEW a \in Seq(Nat), Len(a) = 2, NEW id \in Nat, NEW status \in Nat, NEW content \in Seq(Nat)
  PROVE  Framed(a \o BigEndian(id, 4) \o Address \o BigEndian(status, 2) \o BigEndian(Len(content), 4) \o content,
                status, content)
<1>0. Len(content) \in Nat
  BY LenProperties
<1>x. PICK x : x = BigEndian(id, 4)
  OBVIOUS
<1>y. PICK y : y = BigEndian(status, 2)
  OBVIOUS
<1>z. PICK z : z = BigEndian(Len(content), 4)
  OBVIOUS
<1>1. x \in Seq(Nat) /\ Len(x) = 4
  BY <1>x, BigEndianTyped
<1>2. Address \in Seq(Nat) /\ Len(Address) = 6
  <2>p. PICK p : p = BigEndian(127, 4)
    OBVIOUS
  <2>q. PICK q : q = BigEndian(9, 2)
    OBVIOUS
  <2>1. p \in Seq(Nat) /\ Len(p) = 4
    <3>1. 127 \in Nat /\ 4 \in Nat
      OBVIOUS
    <3>2. BigEndian(127, 4) \in Seq(Nat) /\ Len(BigEndian(127, 4)) = 4
      BY ONLY <3>1, BigEndianTyped
    <3> QED BY <2>p, <3>2
  <2>2. q \in Seq(Nat) /\ Len(q) = 2
    <3>1. 9 \in Nat /\ 2 \in Nat
      OBVIOUS
    <3>2. BigEndian(9, 2) \in Seq(Nat) /\ Len(BigEndian(9, 2)) = 2
      BY ONLY <3>1, BigEndianTyped
    <3> QED BY <2>q, <3>2
  <2>3. Grown(Address, p, q)
    BY <2>1, <2>2, <2>p, <2>q DEF Address, Grown
  <2>4. Address \in Seq(Nat) /\ Len(Address) = Len(p) + Len(q)
    BY ONLY <2>3, GrownIs
  <2>5. Len(Address) = 6
    BY ONLY <2>1, <2>2, <2>4
  <2> QED BY <2>4, <2>5
<1>3. y \in Seq(Nat) /\ Len(y) = 2
  BY <1>y, BigEndianTyped
<1>4. z \in Seq(Nat) /\ Len(z) = 4
  BY <1>0, <1>z, BigEndianTyped
<1>b. PICK b : b = a \o x
  OBVIOUS
<1>5. Grown(b, a, x) /\ b \in Seq(Nat) /\ Len(b) = 6
  <2>1. Grown(b, a, x)
    BY <1>1, <1>b DEF Grown
  <2>2. b \in Seq(Nat) /\ Len(b) = Len(a) + Len(x)
    BY ONLY <2>1, GrownIs
  <2>3. Len(b) = 6
    <3>1. Len(a) = 2
      OBVIOUS
    <3> QED BY ONLY <1>1, <2>2, <3>1
  <2> QED BY <2>1, <2>2, <2>3
<1>c. PICK c : c = b \o Address
  OBVIOUS
<1>6. Grown(c, b, Address) /\ c \in Seq(Nat) /\ Len(c) = 12
  <2>1. Grown(c, b, Address)
    BY <1>2, <1>5, <1>c DEF Grown
  <2>2. c \in Seq(Nat) /\ Len(c) = Len(b) + Len(Address)
    BY ONLY <2>1, GrownIs
  <2> QED BY <1>2, <1>5, <2>1, <2>2
<1>e. PICK e : e = c \o y
  OBVIOUS
<1>7. Grown(e, c, y) /\ e \in Seq(Nat) /\ Len(e) = 14 /\ Slice(e, 13, 14) = y
  <2>1. Grown(e, c, y)
    BY <1>3, <1>6, <1>e DEF Grown
  <2>2. e \in Seq(Nat) /\ Len(e) = Len(c) + Len(y) /\ Slice(e, Len(c) + 1, Len(e)) = y
    BY ONLY <2>1, GrownIs
  <2>3. Len(e) = 14 /\ Len(c) + 1 = 13
    BY ONLY <1>3, <1>6, <2>2
  <2> QED BY <2>1, <2>2, <2>3
<1>h. PICK h : h = e \o z
  OBVIOUS
<1>8. /\ Grown(h, e, z) /\ h \in Seq(Nat) /\ Len(h) = 18
      /\ Slice(h, 15, 18) = z
  <2>1. Grown(h, e, z)
    BY <1>4, <1>7, <1>h DEF Grown
  <2>2. /\ h \in Seq(Nat) /\ Len(h) = Len(e) + Len(z)
        /\ Slice(h, Len(e) + 1, Len(h)) = z
    BY ONLY <2>1, GrownIs
  <2>3. Len(h) = 18 /\ Len(e) + 1 = 15
    BY ONLY <1>4, <1>7, <2>2
  <2> QED BY <2>1, <2>2, <2>3
<1>d. PICK d : d = h \o content
  OBVIOUS
<1>9. Grown(d, h, content) /\ d \in Seq(Nat) /\ Len(d) = 18 + Len(content) /\ Slice(d, 19, 18 + Len(content)) = content
  <2>1. Grown(d, h, content)
    BY <1>8, <1>d DEF Grown
  <2>2. d \in Seq(Nat) /\ Len(d) = Len(h) + Len(content) /\ Slice(d, Len(h) + 1, Len(d)) = content
    BY ONLY <2>1, GrownIs
  <2>3. Len(d) = 18 + Len(content) /\ Len(h) + 1 = 19
    BY <1>8, <2>2
  <2> QED BY <2>1, <2>2, <2>3
<1>10. Slice(d, 13, 14) = y
  <2>1. 13 \in Nat /\ 13 # 0 /\ 14 \in Nat /\ 14 <= Len(e) /\ 14 <= Len(h)
    BY <1>7, <1>8
  <2>2. Slice(h, 13, 14) = Slice(e, 13, 14)
    BY ONLY <1>8, <2>1, GrownKeeps
  <2>3. Slice(d, 13, 14) = Slice(h, 13, 14)
    BY ONLY <1>9, <2>1, GrownKeeps
  <2> QED BY <1>7, <2>2, <2>3
<1>11. Slice(d, 15, 18) = z
  <2>1. 15 \in Nat /\ 15 # 0 /\ 18 \in Nat /\ 18 <= Len(h)
    BY <1>8
  <2>2. Slice(d, 15, 18) = Slice(h, 15, 18)
    BY ONLY <1>9, <2>1, GrownKeeps
  <2> QED BY <1>8, <2>2
<1>12. Framed(d, status, content)
  BY <1>8, <1>9, <1>10, <1>11, <1>y, <1>z DEF Framed
<1> QED BY <1>12, <1>b, <1>c, <1>d, <1>e, <1>h, <1>x, <1>y, <1>z

-----------------------------------------------------------------------------
(* What the server makes of a command. *)

\* The command as the server keeps it.
FixedCommand(c) == [f \in DOMAIN c |-> IF f = "password" THEN FixedPassword(c[f]) ELSE c[f]]

\* What follows the header of a datagram cut to N octets.
LEMMA PayloadIs ==
  ASSUME NEW h, NEW m, NEW d, Grown(d, h, m), Len(h) = 18, NEW N \in Nat, N >= 18, N <= Len(d)
  PROVE  /\ Slice(Slice(d, 1, N), 19, N) = Slice(m, 1, N - 18) /\ N - 18 \in 0 .. Len(m)
         /\ Slice(d, 1, N) \in Seq(Nat) /\ Len(Slice(d, 1, N)) = N
<1>1. h \in Seq(Nat) /\ m \in Seq(Nat) /\ d = h \o m
  BY DEF Grown
<1>2. d \in Seq(Nat) /\ Len(d) = Len(h) + Len(m) /\ Len(m) \in Nat
  BY GrownIs
<1>3. Len(d) = 18 + Len(m) /\ N - 18 \in 0 .. Len(m) /\ N \in 0 .. Len(d)
  <2>1. Len(d) = 18 + Len(m)
    BY <1>2
  <2> QED BY <1>2, <2>1
<1>w. PICK w : w = Slice(d, 1, N)
  OBVIOUS
<1>4. w \in Seq(Nat) /\ Len(w) = N
  BY <1>2, <1>3, <1>w, CutTyped
<1>5. Slice(w, 19, N) = Slice(m, 1, N - 18)
  <2>1. CASE N = 18
    <3>1. \A u : SubSeq(u, 19, 18) = <<>> /\ SubSeq(u, 1, 0) = <<>>
      BY SubSeqEmpty
    <3>2. N - 18 = 0
      BY <2>1
    <3> QED BY <2>1, <3>1, <3>2 DEF Slice
  <2>2. CASE N # 18
    <3>1. Front3(h, m, <<>>, N, w)
      <4>1. <<>> \in Seq(Nat)
        BY EmptySeq
      <4>2. (h \o m) \o <<>> = d
        BY <1>1, <1>2, ConcatEmptySeq
      <4>3. w = SubSeq(d, 1, N)
        BY <1>w DEF Slice
      <4> QED BY <1>1, <1>3, <4>1, <4>2, <4>3 DEF Front3
    <3>n. PICK n : n = N - 18
      OBVIOUS
    <3>2. Behind(h, 1, 19) /\ Behind(h, n, N) /\ n \in Nat
      BY <2>2, <3>n DEF Behind
    <3>3. n <= Len(m) /\ Len(h) + n <= N
      BY <1>2, <1>3, <3>n
    <3>4. Slice(w, 19, N) = Slice(m, 1, n)
      BY ONLY <3>1, <3>2, <3>3, MiddleSlice
    <3> QED BY <3>4, <3>n
  <2> QED BY <2>1, <2>2
<1> QED BY <1>3, <1>4, <1>5, <1>w

\* The last field of a message is one its service requires.
LEMMA LastField ==
  ASSUME NEW c \in Commands, NEW P \in [0 .. 10 -> Seq(Nat)], Encodes(P, c)
  PROVE  \E j \in 1 .. 10 : ClientFields[j] \in RequiredFields[c.service] /\ P[j] = P[10]
<1>1. c.service \in Services /\ DOMAIN c = {"service"} \cup PromptedFields[c.service]
  BY CommandAssumption, CommandCarried
<1>r. ASSUME NEW s \in Services
      PROVE  /\ s \in {"CloseAccount", "GetBalance"} => "password" \in RequiredFields[s]
             /\ s \in {"OpenAccount", "Deposit", "Withdraw", "TransferFunds"} => "currency" \in RequiredFields[s]
             /\ s = "Monitor" => "interval" \in RequiredFields[s]
  <2>1. /\ "password" \in RequiredFields["CloseAccount"] /\ "password" \in RequiredFields["GetBalance"]
        /\ "currency" \in RequiredFields["OpenAccount"] /\ "currency" \in RequiredFields["Deposit"]
        /\ "currency" \in RequiredFields["Withdraw"] /\ "currency" \in RequiredFields["TransferFunds"]
        /\ "interval" \in RequiredFields["Monitor"]
    BY DEF RequiredFields
  <2> QED BY ONLY <2>1
<1>2. ASSUME NEW i \in 1 .. 10, ClientFields[i] \notin DOMAIN c PROVE P[i] = P[i - 1]
  BY <1>2, FieldNumbers DEF Encodes
<1>n. /\ ClientFields[4] = "password" /\ ClientFields[5] = "toAccount" /\ ClientFields[6] = "toName"
      /\ ClientFields[7] = "amount" /\ ClientFields[8] = "currency" /\ ClientFields[9] = "updates"
      /\ ClientFields[10] = "interval"
  BY DEF ClientFields
<1>p. ASSUME NEW s \in Services
      PROVE  /\ "updates" \notin PromptedFields[s]
             /\ s # "Monitor" => "interval" \notin PromptedFields[s]
             /\ s \in {"CloseAccount", "GetBalance"} => PromptedFields[s] = {"name", "account", "password"}
  <2>1. s \in {"OpenAccount", "CloseAccount", "Deposit", "Withdraw", "Monitor", "GetBalance", "TransferFunds"}
    BY DEF Services, RequiredFields
  <2>5. /\ PromptedFields["OpenAccount"] = {"name", "password", "currency", "amount"}
        /\ PromptedFields["CloseAccount"] = {"name", "account", "password"}
        /\ PromptedFields["Deposit"] = {"name", "account", "password", "currency", "amount"}
        /\ PromptedFields["Withdraw"] = {"name", "account", "password", "currency", "amount"}
        /\ PromptedFields["Monitor"] = {"name", "account", "password", "interval"}
        /\ PromptedFields["GetBalance"] = {"name", "account", "password"}
        /\ PromptedFields["TransferFunds"] =
             {"name", "account", "password", "toAccount", "toName", "currency", "amount"}
    BY DEF PromptedFields
  <2>2. "updates" \notin PromptedFields[s]
    <3>1. PromptedFields[s] \subseteq {"name", "account", "password", "toAccount", "toName", "currency", "amount",
                                      "interval"}
      BY ONLY <2>1, <2>5
    <3>2. "updates" \notin {"name", "account", "password", "toAccount", "toName", "currency", "amount", "interval"}
      OBVIOUS
    <3> QED BY <3>1, <3>2
  <2>3. s # "Monitor" => "interval" \notin PromptedFields[s]
    BY <2>1, <2>5
  <2>4. s \in {"CloseAccount", "GetBalance"} => PromptedFields[s] = {"name", "account", "password"}
    BY ONLY <2>5
  <2> QED BY <2>2, <2>3, <2>4
<1>3. ClientFields[9] \notin DOMAIN c
  BY <1>1, <1>n, <1>p
<1>4. P[9] = P[8]
  <2>1. 9 \in 1 .. 10 /\ 9 - 1 = 8
    OBVIOUS
  <2> QED BY <1>2, <1>3, <2>1
<1>5. CASE c.service = "Monitor"
  <2>1. ClientFields[10] \in RequiredFields[c.service] /\ 10 \in 1 .. 10
    BY <1>1, <1>5, <1>n, <1>r
  <2> QED BY <2>1
<1>6. CASE c.service # "Monitor"
  <2>1. ClientFields[10] \notin DOMAIN c
    BY <1>1, <1>6, <1>n, <1>p
  <2>2. P[10] = P[8]
    <3>1. 10 \in 1 .. 10 /\ 10 - 1 = 9
      OBVIOUS
    <3> QED BY <1>2, <1>4, <2>1, <3>1
  <2>3. CASE c.service \in {"CloseAccount", "GetBalance"}
    <3>1. /\ ClientFields[8] \notin DOMAIN c /\ ClientFields[7] \notin DOMAIN c
          /\ ClientFields[6] \notin DOMAIN c /\ ClientFields[5] \notin DOMAIN c
      BY <1>1, <1>n, <1>p, <2>3
    <3>2. P[8] = P[7] /\ P[7] = P[6] /\ P[6] = P[5] /\ P[5] = P[4]
      <4>1. 8 \in 1 .. 10 /\ 7 \in 1 .. 10 /\ 6 \in 1 .. 10 /\ 5 \in 1 .. 10 /\ 8 - 1 = 7 /\ 7 - 1 = 6 /\ 6 - 1 = 5 /\ 5 - 1 = 4
        OBVIOUS
      <4> QED BY <1>2, <3>1, <4>1
    <3>3. ClientFields[4] \in RequiredFields[c.service]
      <4>1. "password" \in RequiredFields[c.service]
        BY <1>1, <1>r, <2>3
      <4> QED BY ONLY <1>n, <4>1
    <3>4. 4 \in 1 .. 10
      OBVIOUS
    <3> QED BY ONLY <2>2, <3>2, <3>3, <3>4
  <2>4. CASE c.service \in {"OpenAccount", "Deposit", "Withdraw", "TransferFunds"}
    <3>1. ClientFields[8] \in RequiredFields[c.service]
      <4>1. "currency" \in RequiredFields[c.service]
        BY <1>1, <1>r, <2>4
      <4> QED BY ONLY <1>n, <4>1
    <3>2. 8 \in 1 .. 10
      OBVIOUS
    <3> QED BY ONLY <2>2, <3>1, <3>2
  <2> QED BY <1>1, <1>6, <2>3, <2>4 DEF Services, RequiredFields
<1> QED BY <1>5, <1>6

\* A service is the same on both sides.
LEMMA ServiceKept ==
  ASSUME NEW s \in Services
  PROVE  ServiceIn(Position(s, ClientServices)) = s
  BY ServiceNumber, FieldTables DEF ServiceIn

LEMMA CutLength ==
  \A n, l \in Nat : /\ ~(l <= n) => n <= l /\ n < l
                    /\ n >= 18 => \A i \in 3 .. 6 : i \in 1 .. n
  OBVIOUS

\* A request that fits the buffer asks for its command, one that was cut for nothing.
THEOREM RequestRead ==
  ASSUME NEW c \in Commands, NEW id \in Nat
  PROVE  LET d == Serialize(id, EncodeMessage(c))
         IN /\ Len(d) \in Nat
            /\ Len(d) <= BufSize => RequestIn(Read(d)) = FixedCommand(c)
            /\ Len(d) > BufSize => ~WellFormed(RequestIn(Read(d)))
            /\ ParseHeader(Read(d)).id \in Nat
<1>1. PICK P \in [0 .. 10 -> Seq(Nat)] : Encodes(P, c) /\ EncodeMessage(c) = P[10]
  <2>1. \A f \in DOMAIN c : ValueOctets(f, c[f]) \in Seq(Nat) /\ Len(ValueOctets(f, c[f])) < Numbers[4]
    BY CommandCarried DEF Carries
  <2> QED BY <2>1, EncodedIs
<1>m. PICK m : m = P[10]
  OBVIOUS
<1>d. PICK d : d = Serialize(id, EncodeMessage(c))
  OBVIOUS
<1>2. m \in Seq(Nat)
  <2>1. 10 \in 0 .. 10
    OBVIOUS
  <2> QED BY <1>1, <1>m, <2>1
<1>3. Framed(d, 0, m)
  <2>a. PICK a : a = <<RequestType, AtMostOnceFlag>>
    OBVIOUS
  <2>1. a \in Seq(Nat) /\ Len(a) = 2 /\ 0 \in Nat
    BY <2>a DEF RequestType, AtMostOnceFlag
  <2>2. Framed(a \o BigEndian(id, 4) \o Address \o BigEndian(0, 2) \o BigEndian(Len(m), 4) \o m, 0, m)
    BY <1>2, <2>1, FrameIs
  <2> QED BY <1>1, <1>d, <1>m, <2>2, <2>a DEF Serialize
<1>4. d \in Seq(Nat) /\ Len(d) = 18 + Len(m) /\ Len(m) \in Nat
  BY <1>2, <1>3, LenProperties DEF Framed
<1>5. PICK h : Len(h) = 18 /\ Grown(d, h, m)
  BY <1>3 DEF Framed
<1>n. PICK N : N = IF Len(d) <= BufSize THEN Len(d) ELSE BufSize
  OBVIOUS
<1>6. N \in Nat /\ N >= 18 /\ N <= Len(d) /\ (Len(d) <= BufSize => N = Len(d)) /\ (Len(d) > BufSize => N < Len(d))
  <2>1. BufSize \in Nat /\ BufSize >= 18
    BY BufferAssumption
  <2>2. CASE Len(d) <= BufSize
    <3>1. N = Len(d)
      BY <1>n, <2>2
    <3>2. Len(d) >= 18 /\ Len(d) \in Nat
      BY ONLY <1>4
    <3>3. N \in Nat /\ N >= 18 /\ N <= Len(d)
      BY ONLY <3>1, <3>2
    <3>4. ~(Len(d) > BufSize)
      BY ONLY <2>1, <2>2, <3>2
    <3> QED BY ONLY <3>1, <3>3, <3>4, Zenon
  <2>3. CASE ~(Len(d) <= BufSize)
    <3>1. N = BufSize
      BY <1>n, <2>3
    <3>2. Len(d) \in Nat
      BY ONLY <1>4
    <3>3. BufSize <= Len(d) /\ BufSize < Len(d) /\ ~(Len(d) <= BufSize)
      BY ONLY <2>1, <2>3, <3>2, CutLength
    <3>4. Len(d) > BufSize => N < Len(d)
      BY ONLY <3>1, <3>3
    <3>5. N \in Nat /\ N >= 18 /\ N <= Len(d)
      BY ONLY <2>1, <3>1, <3>3
    <3>6. Len(d) <= BufSize => N = Len(d)
      BY ONLY <3>3, Zenon
    <3> QED BY ONLY <3>4, <3>5, <3>6, Zenon
  <2> QED BY <2>2, <2>3
<1>w. PICK w : w = Slice(d, 1, N)
  OBVIOUS
<1>7. Read(d) = w
  BY <1>n, <1>w DEF Read, Slice
<1>8. Slice(w, 19, N) = Slice(m, 1, N - 18) /\ N - 18 \in 0 .. Len(m) /\ w \in Seq(Nat) /\ Len(w) = N
  <2>1. /\ Slice(Slice(d, 1, N), 19, N) = Slice(m, 1, N - 18) /\ N - 18 \in 0 .. Len(m)
        /\ Slice(d, 1, N) \in Seq(Nat) /\ Len(Slice(d, 1, N)) = N
    BY ONLY <1>5, <1>6, PayloadIs
  <2> QED BY <1>w, <2>1
<1>r. PICK r : r = Decode(Slice(m, 1, N - 18), ClientFields, ClientSizes, Nat)
  OBVIOUS
<1>9. Readable(r, 0, c, P, N - 18)
  BY <1>1, <1>8, <1>m, <1>r, MessageReadable
<1>10. DecodeTLV(SubSeq(w, HeaderSize + 1, Len(w))) = r
  <2>1. HeaderSize + 1 = 19
    BY DEF HeaderSize
  <2>2. SubSeq(w, HeaderSize + 1, Len(w)) = Slice(m, 1, N - 18)
    BY <1>8, <2>1 DEF Slice
  <2> QED BY <1>r, <2>2, FieldTables DEF DecodeTLV
<1>q. PICK q : q = RequestIn(w)
  OBVIOUS
<1>11. q = [f \in DOMAIN r.fields |->
              CASE f = "service" -> ServiceIn(r.fields[f])
                [] f = "password" -> FixedPassword(r.fields[f])
                [] OTHER -> r.fields[f]]
  BY <1>10, <1>q DEF RequestIn
<1>12. "service" \in DOMAIN c /\ c.service \in Services /\ \A f \in DOMAIN c : \E i \in 1 .. 10 : f = ClientFields[i]
  BY CommandCarried
<1>13. /\ DOMAIN q \subseteq DOMAIN c
       /\ \A f \in DOMAIN q : /\ q[f] = IF f = "password" THEN FixedPassword(c[f]) ELSE c[f]
                              /\ \E j \in 1 .. 10 : f = ClientFields[j] /\ Len(P[j]) <= N - 18
  <2>1. ASSUME NEW f \in DOMAIN q
        PROVE  /\ f \in DOMAIN c /\ f \in DOMAIN r.fields /\ r.fields[f] = Coded(f, c[f])
               /\ \E j \in 1 .. 10 : f = ClientFields[j] /\ Len(P[j]) <= N - 18
    <3>1. f \in DOMAIN r.fields
      BY <1>11, <2>1
    <3>2. r.ok
      <4>1. r.fields = NoFields => DOMAIN r.fields = {}
        BY DEF NoFields
      <4> QED BY <1>9, <3>1, <4>1 DEF Readable
    <3>3. 0 + 1 .. 10 = 1 .. 10
      OBVIOUS
    <3> QED BY <1>9, <3>1, <3>2, <3>3 DEF Readable
  <2>2. ASSUME NEW f \in DOMAIN q PROVE q[f] = IF f = "password" THEN FixedPassword(c[f]) ELSE c[f]
    <3>1. q[f] = CASE f = "service" -> ServiceIn(Coded(f, c[f]))
                   [] f = "password" -> FixedPassword(Coded(f, c[f]))
                   [] OTHER -> Coded(f, c[f])
      BY <1>11, <2>1
    <3>2. CASE f = "service"
      <4>1. q[f] = ServiceIn(Coded(f, c[f]))
        BY <3>1, <3>2
      <4> QED BY <1>12, <3>2, <4>1, ServiceKept DEF Coded
    <3>3. CASE f # "service"
      BY <3>1, <3>3 DEF Coded
    <3> QED BY <3>2, <3>3
  <2> QED BY <2>1, <2>2
<1>14. ASSUME Len(d) <= BufSize PROVE q = FixedCommand(c)
  <2>1. N - 18 = Len(P[10])
    BY <1>4, <1>6, <1>14, <1>m
  <2>2. DOMAIN q = DOMAIN c
    <3>1. ASSUME NEW f \in DOMAIN c PROVE f \in DOMAIN r.fields
      <4>1. 0 + 1 .. 10 = 1 .. 10
        OBVIOUS
      <4>2. PICK i \in 1 .. 10 : f = ClientFields[i]
        BY <1>12, <3>1
      <4>3. \A j \in 0 + 1 .. 10 : ClientFields[j] \in DOMAIN c => ClientFields[j] \in DOMAIN r.fields
        BY <1>9, <2>1 DEF Readable
      <4> QED BY <3>1, <4>1, <4>2, <4>3
    <3> QED BY <1>11, <1>13, <3>1
  <2>3. q = [f \in DOMAIN q |-> q[f]]
    BY <1>11
  <2> QED BY <1>13, <2>2, <2>3 DEF FixedCommand
<1>15. ASSUME Len(d) > BufSize PROVE ~WellFormed(q)
  <2>1. PICK j \in 1 .. 10 : ClientFields[j] \in RequiredFields[c.service] /\ P[j] = P[10]
    BY <1>1, LastField
  <2>2. ~(Len(P[10]) <= N - 18)
    BY <1>4, <1>6, <1>15, <1>m
  <2>3. ClientFields[j] \notin DOMAIN q
    <3>1. ASSUME ClientFields[j] \in DOMAIN q PROVE FALSE
      <4>1. PICK k \in 1 .. 10 : ClientFields[j] = ClientFields[k] /\ Len(P[k]) <= N - 18
        BY <1>13, <3>1
      <4>2. k = j
        BY <4>1, FieldsDiffer
      <4> QED BY <2>1, <2>2, <4>1, <4>2
    <3> QED BY <3>1
  <2>4. "service" \in DOMAIN q => q.service = c.service
    BY <1>13
  <2> QED BY <2>1, <2>3, <2>4 DEF WellFormed
<1>16. ParseHeader(w).id \in Nat
  <2>1. \A i \in 3 .. 6 : w[i] \in Nat
    <3>1. \A i \in 3 .. 6 : i \in 1 .. Len(w)
      <4>1. \A i \in 3 .. 6 : i \in 1 .. N
        BY ONLY <1>6, CutLength
      <4> QED BY <1>8, <4>1
    <3> QED BY <1>8, <3>1, ElementOfSeq
  <2>2. SubSeq(w, 3, 6) \in Seq(Nat)
    BY <2>1, SubSeqProperties
  <2> QED BY <2>2, NumberTyped DEF ParseHeader
<1>17. Len(d) \in Nat
  BY <1>4
<1> QED BY <1>7, <1>14, <1>15, <1>16, <1>17, <1>d, <1>q

-----------------------------------------------------------------------------
(* The bank with passwords of fixed size does what the bank would do. *)

\* No two passwords a client accepts are the same to the server.
LEMMA PasswordsDiffer ==
  ASSUME NEW p \in Passwords, NEW q \in Passwords
  PROVE  FixedPassword(p) = FixedPassword(q) <=> p = q
<1>1. /\ p \in Seq(1 .. Octets - 1) /\ Len(p) <= PasswordSize
      /\ q \in Seq(1 .. Octets - 1) /\ Len(q) <= PasswordSize
  BY StringAssumption
<1>2. PasswordSize \in Nat /\ Len(p) \in Nat /\ Len(q) \in Nat
  BY <1>1, LenProperties, StringAssumption, UintAssumption DEF Uint32
<1>3. /\ \A i \in 1 .. Len(p) : p[i] \in 1 .. Octets - 1
      /\ \A i \in 1 .. Len(q) : q[i] \in 1 .. Octets - 1
  BY <1>1, ElementOfSeq
<1>4. ASSUME FixedPassword(p) = FixedPassword(q) PROVE p = q
  <2>1. \A i \in 1 .. PasswordSize : (IF i <= Len(p) THEN p[i] ELSE 0) = (IF i <= Len(q) THEN q[i] ELSE 0)
    BY <1>4 DEF FixedPassword
  <2>2. ASSUME NEW i \in 1 .. Len(p) PROVE i <= Len(q) /\ p[i] = q[i]
    <3>1. i \in 1 .. PasswordSize
      BY <1>1, <1>2
    <3> QED BY <1>2, <1>3, <2>1, <3>1, OctetAssumption
  <2>3. ASSUME NEW i \in 1 .. Len(q) PROVE i <= Len(p)
    <3>1. i \in 1 .. PasswordSize
      BY <1>1, <1>2
    <3> QED BY <1>2, <1>3, <2>1, <3>1, OctetAssumption
  <2>4. Len(p) = Len(q)
    BY <1>2, <2>2, <2>3
  <2> QED BY <1>1, <2>2, <2>4, SeqEqual
<1> QED BY <1>4

LEMMA FixedIs ==
  ASSUME NEW d, IsDatabase(d)
  PROVE  /\ Fixed(d) = [accounts |-> [a \in DOMAIN d.accounts |-> FixedAccount(d.accounts[a])], nextID |-> d.nextID]
         /\ Fixed(d).nextID = d.nextID /\ DOMAIN Fixed(d).accounts = DOMAIN d.accounts
         /\ \A a \in DOMAIN d.accounts :
              /\ Fixed(d).accounts[a] = FixedAccount(d.accounts[a])
              /\ Fixed(d).accounts[a].name = d.accounts[a].name
              /\ Fixed(d).accounts[a].currency = d.accounts[a].currency
              /\ Fixed(d).accounts[a].balance = d.accounts[a].balance
              /\ Fixed(d).accounts[a].password = FixedPassword(d.accounts[a].password)
              /\ d.accounts[a].password \in Passwords
<1>1. Fixed(d) = [accounts |-> [a \in DOMAIN d.accounts |-> FixedAccount(d.accounts[a])], nextID |-> d.nextID]
  BY DEF Fixed, IsDatabase
<1>2. \A a \in DOMAIN d.accounts : d.accounts[a] \in Account
  BY DatabaseFields
<1> QED BY <1>1, <1>2 DEF FixedAccount, Account

LEMMA CreateFixed ==
  ASSUME NEW d, IsDatabase(d), NEW acc
  PROVE  CreateAccount(Fixed(d), FixedAccount(acc)) = Fixed(CreateAccount(d, acc))
<1> DEFINE e == CreateAccount(d, acc)
           A == Put(d.accounts, d.nextID, acc)
<1>1. Fixed(e) = [accounts |-> [a \in DOMAIN A |-> FixedAccount(A[a])], nextID |-> e.nextID]
  BY DEF Fixed, CreateAccount
<1>2. DOMAIN A = DOMAIN d.accounts \cup {d.nextID}
  BY DEF Put
<1>3. Put(Fixed(d).accounts, d.nextID, FixedAccount(acc)) = [a \in DOMAIN A |-> FixedAccount(A[a])]
  BY FixedIs DEF Put
<1> QED BY <1>1, <1>3, FixedIs DEF CreateAccount

LEMMA DeleteFixed ==
  ASSUME NEW d, IsDatabase(d), NEW a
  PROVE  DeleteAccount(Fixed(d), a) = Fixed(DeleteAccount(d, a))
<1>1. d = [accounts |-> d.accounts, nextID |-> d.nextID]
  BY DEF IsDatabase
<1>d. PICK A : A = d.accounts
  OBVIOUS
<1>2. DeleteAccount(d, a) = [accounts |-> Restrict(A, DOMAIN A \ {a}), nextID |-> d.nextID]
  BY <1>1, <1>d DEF DeleteAccount
<1>B. PICK B : B = Restrict(A, DOMAIN A \ {a})
  OBVIOUS
<1>3. DOMAIN B = DOMAIN A \ {a} /\ \A b \in DOMAIN B : B[b] = A[b]
  BY <1>B DEF Restrict
<1>C. PICK C : C = Fixed(d).accounts
  OBVIOUS
<1>4. Fixed(d) = [accounts |-> C, nextID |-> d.nextID] /\ C = [b \in DOMAIN A |-> FixedAccount(A[b])]
  BY <1>C, <1>d, FixedIs
<1>5. DeleteAccount(Fixed(d), a) = [accounts |-> Restrict(C, DOMAIN C \ {a}), nextID |-> d.nextID]
  BY <1>4 DEF DeleteAccount
<1>6. Restrict(C, DOMAIN C \ {a}) = [b \in DOMAIN B |-> FixedAccount(B[b])]
  BY <1>3, <1>4 DEF Restrict
<1>e. PICK e : e = DeleteAccount(d, a)
  OBVIOUS
<1>7. e = [accounts |-> B, nextID |-> d.nextID]
  BY <1>2, <1>B, <1>e
<1>8. Fixed(e) = [accounts |-> [b \in DOMAIN B |-> FixedAccount(B[b])], nextID |-> d.nextID]
  <2>1. e.accounts = B /\ e.nextID = d.nextID
    BY <1>7
  <2>2. Fixed(e) = [e EXCEPT !.accounts = [b \in DOMAIN B |-> FixedAccount(B[b])]]
    BY <2>1, Zenon DEF Fixed
  <2> QED BY <1>7, <2>2
<1> QED BY <1>5, <1>6, <1>8, <1>e

LEMMA AddFixed ==
  ASSUME NEW d, IsDatabase(d), NEW a \in DOMAIN d.accounts, NEW n
  PROVE  AddToBalance(Fixed(d), a, n) = Fixed(AddToBalance(d, a, n))
<1>1. d = [accounts |-> d.accounts, nextID |-> d.nextID] /\ d.accounts = [b \in DOMAIN d.accounts |-> d.accounts[b]]
  BY DEF IsDatabase
<1>2. \A b \in DOMAIN d.accounts : d.accounts[b] \in Account
  BY DatabaseFields
<1>A. PICK A : A = d.accounts
  OBVIOUS
<1>B. PICK B : B = [A EXCEPT ![a].balance = Plus(@, n)]
  OBVIOUS
<1>3. AddToBalance(d, a, n) = [accounts |-> B, nextID |-> d.nextID]
  BY <1>1, <1>A, <1>B DEF AddToBalance
<1>4. DOMAIN B = DOMAIN A /\ \A b \in DOMAIN A : B[b] = IF b = a THEN [A[b] EXCEPT !.balance = Plus(@, n)] ELSE A[b]
  BY <1>B
<1>5. Fixed(AddToBalance(d, a, n)) = [accounts |-> [b \in DOMAIN B |-> FixedAccount(B[b])], nextID |-> d.nextID]
  BY <1>3 DEF Fixed
<1>C. PICK C : C = Fixed(d).accounts
  OBVIOUS
<1>6. Fixed(d) = [accounts |-> C, nextID |-> d.nextID] /\ C = [b \in DOMAIN A |-> FixedAccount(A[b])]
  BY <1>A, <1>C, FixedIs
<1>7. AddToBalance(Fixed(d), a, n) = [accounts |-> [C EXCEPT ![a].balance = Plus(@, n)], nextID |-> d.nextID]
  BY <1>6 DEF AddToBalance
<1>8. [C EXCEPT ![a].balance = Plus(@, n)]
        = [b \in DOMAIN A |-> IF b = a THEN [FixedAccount(A[b]) EXCEPT !.balance = Plus(@, n)] ELSE FixedAccount(A[b])]
  BY <1>6, <1>A
<1>9. \A b \in DOMAIN A :
        FixedAccount(B[b]) = IF b = a THEN [FixedAccount(A[b]) EXCEPT !.balance = Plus(@, n)] ELSE FixedAccount(A[b])
  BY <1>2, <1>4, <1>A DEF FixedAccount, Account
<1>10. [C EXCEPT ![a].balance = Plus(@, n)] = [b \in DOMAIN B |-> FixedAccount(B[b])]
  BY <1>4, <1>8, <1>9
<1> QED BY <1>5, <1>7, <1>10

\* The fields of a command as the server has them.
LEMMA FixedFields ==
  ASSUME NEW c, "service" \in DOMAIN c
  PROVE  /\ DOMAIN FixedCommand(c) = DOMAIN c /\ FixedCommand(c).service = c.service
         /\ "account" \in DOMAIN c => FixedCommand(c).account = c.account
         /\ "toAccount" \in DOMAIN c => FixedCommand(c).toAccount = c.toAccount
         /\ "name" \in DOMAIN c => FixedCommand(c).name = c.name
         /\ "toName" \in DOMAIN c => FixedCommand(c).toName = c.toName
         /\ "currency" \in DOMAIN c => FixedCommand(c).currency = c.currency
         /\ "amount" \in DOMAIN c => FixedCommand(c).amount = c.amount
         /\ "password" \in DOMAIN c => FixedCommand(c).password = FixedPassword(c.password)
  BY DEF FixedCommand

LEMMA AuthFixed ==
  ASSUME NEW d, IsDatabase(d), NEW c, WellTyped(c), {"service", "account", "name", "password"} \subseteq DOMAIN c
  PROVE  AuthError(Fixed(d), FixedCommand(c)) = AuthError(d, c)
<1>1. c.password \in Passwords
  BY DEF WellTyped
<1>2. /\ FixedCommand(c).account = c.account /\ FixedCommand(c).name = c.name
      /\ FixedCommand(c).password = FixedPassword(c.password)
  BY FixedFields
<1>3. CASE c.account \notin DOMAIN d.accounts
  <2>1. c.account \notin DOMAIN Fixed(d).accounts
    BY <1>3, FixedIs
  <2> QED BY <1>2, <1>3, <2>1 DEF AuthError
<1>4. CASE c.account \in DOMAIN d.accounts
  <2>1. /\ c.account \in DOMAIN Fixed(d).accounts
        /\ Fixed(d).accounts[c.account].name = d.accounts[c.account].name
        /\ Fixed(d).accounts[c.account].password = FixedPassword(d.accounts[c.account].password)
        /\ d.accounts[c.account].password \in Passwords
    BY <1>4, FixedIs
  <2>2. FixedPassword(d.accounts[c.account].password) = FixedPassword(c.password)
          <=> d.accounts[c.account].password = c.password
    BY <1>1, <2>1, PasswordsDiffer
  <2> QED BY <1>2, <1>4, <2>1, <2>2 DEF AuthError
<1> QED BY <1>3, <1>4

LEMMA MovementFixed ==
  ASSUME NEW d, IsDatabase(d), NEW c, WellTyped(c),
         {"service", "account", "name", "password", "currency", "amount"} \subseteq DOMAIN c
  PROVE  /\ MovementError(Fixed(d), FixedCommand(c)) = MovementError(d, c)
         /\ WithdrawError(Fixed(d), FixedCommand(c)) = WithdrawError(d, c)
<1>1. /\ FixedCommand(c).account = c.account /\ FixedCommand(c).amount = c.amount
      /\ FixedCommand(c).currency = c.currency
  BY FixedFields
<1>2. AuthError(Fixed(d), FixedCommand(c)) = AuthError(d, c)
  BY AuthFixed
<1>3. c.account \in DOMAIN d.accounts =>
        /\ Fixed(d).accounts[c.account].currency = d.accounts[c.account].currency
        /\ Fixed(d).accounts[c.account].balance = d.accounts[c.account].balance
  BY FixedIs
<1>4. MovementError(Fixed(d), FixedCommand(c)) = MovementError(d, c)
  BY <1>1, <1>2, <1>3, AuthFindsAccount DEF MovementError
<1>5. MovementError(d, c) = None => c.account \in DOMAIN d.accounts
  BY MovementFindsAccount
<1> QED BY <1>1, <1>3, <1>4, <1>5 DEF WithdrawError

LEMMA TransferFixed ==
  ASSUME NEW d, IsDatabase(d), NEW c, WellTyped(c),
         {"service", "account", "name", "password", "toAccount", "currency", "amount"} \subseteq DOMAIN c
  PROVE  TransferError(Fixed(d), FixedCommand(c)) = TransferError(d, c)
<1>1. /\ FixedCommand(c).account = c.account /\ FixedCommand(c).amount = c.amount
      /\ FixedCommand(c).currency = c.currency /\ FixedCommand(c).toAccount = c.toAccount
  BY FixedFields
<1>2. AuthError(Fixed(d), FixedCommand(c)) = AuthError(d, c)
  BY AuthFixed
<1>3. DOMAIN Fixed(d).accounts = DOMAIN d.accounts
  BY FixedIs
<1>4. \A a \in DOMAIN d.accounts : /\ Fixed(d).accounts[a].currency = d.accounts[a].currency
                                  /\ Fixed(d).accounts[a].balance = d.accounts[a].balance
  BY FixedIs
<1> QED BY <1>1, <1>2, <1>3, <1>4, Zenon DEF TransferError

\* A command has the same outcome in both banks.
THEOREM OutcomeFixed ==
  ASSUME NEW d, IsDatabase(d), NEW c, WellFormed(c), WellTyped(c)
  PROVE  Outcome(Fixed(d), FixedCommand(c))
           = [db |-> Fixed(Outcome(d, c).db), err |-> Outcome(d, c).err, value |-> Outcome(d, c).value]
<1> DEFINE e == Fixed(d)
           q == FixedCommand(c)
           Same(o, p) == o = [db |-> Fixed(p.db), err |-> p.err, value |-> p.value]
<1>1. ASSUME NEW x, NEW err, NEW v
      PROVE  Same(Fails(Fixed(x), err), Fails(x, err)) /\ Same(Returns(Fixed(x), v), Returns(x, v))
  BY DEF Fails, Returns
<1> HIDE DEF Same
<1>2. "service" \in DOMAIN c /\ c.service \in Services /\ RequiredFields[c.service] \subseteq DOMAIN c
  BY DEF WellFormed
<1>3. q.service = c.service /\ DOMAIN q = DOMAIN c
  BY <1>2, FixedFields
<1>4. WellFormed(q)
  BY <1>2, <1>3 DEF WellFormed
<1>5. Outcome(e, q) = CallService(e, q) /\ Outcome(d, c) = CallService(d, c)
  BY <1>4 DEF Outcome
<1>6. CASE c.service = "OpenAccount"
  <2>1. {"name", "password", "currency", "amount"} \subseteq DOMAIN c
    BY <1>2, <1>6 DEF RequiredFields
  <2>2. /\ q.name = c.name /\ q.currency = c.currency /\ q.amount = c.amount
        /\ q.password = FixedPassword(c.password)
    BY <1>2, <2>1, FixedFields
  <2>a. PICK acc : acc = [name |-> c.name, password |-> c.password, currency |-> c.currency, balance |-> c.amount]
    OBVIOUS
  <2>3. FixedAccount(acc) = [name |-> q.name, password |-> q.password, currency |-> q.currency, balance |-> q.amount]
    BY <2>2, <2>a DEF FixedAccount
  <2>4. CreateAccount(e, FixedAccount(acc)) = Fixed(CreateAccount(d, acc)) /\ e.nextID = d.nextID
    BY CreateFixed, FixedIs
  <2>5. OpenAccount(e, q) = Returns(Fixed(CreateAccount(d, acc)), d.nextID)
    BY <2>3, <2>4 DEF OpenAccount
  <2>6. OpenAccount(d, c) = Returns(CreateAccount(d, acc), d.nextID)
    BY <2>a DEF OpenAccount
  <2>7. CallService(e, q) = OpenAccount(e, q) /\ CallService(d, c) = OpenAccount(d, c)
    BY <1>3, <1>6 DEF CallService
  <2> QED BY <1>1, <1>5, <2>5, <2>6, <2>7 DEF Same
<1>7. CASE c.service = "CloseAccount"
  <2>1. {"service", "account", "name", "password"} \subseteq DOMAIN c
    BY <1>2, <1>7 DEF RequiredFields
  <2>2. q.account = c.account
    BY <1>2, <2>1, FixedFields
  <2>3. AuthError(e, q) = AuthError(d, c)
    BY <2>1, AuthFixed
  <2>4. DeleteAccount(e, q.account) = Fixed(DeleteAccount(d, c.account))
    BY <2>2, DeleteFixed
  <2>5. Same(CloseAccount(e, q), CloseAccount(d, c))
    BY <1>1, <2>3, <2>4 DEF CloseAccount
  <2>7. CallService(e, q) = CloseAccount(e, q) /\ CallService(d, c) = CloseAccount(d, c)
    BY <1>3, <1>7 DEF CallService
  <2> QED BY <1>5, <2>5, <2>7 DEF Same
<1>8. CASE c.service \in {"Deposit", "Withdraw"}
  <2>1. {"service", "account", "name", "password", "currency", "amount"} \subseteq DOMAIN c
    BY <1>2, <1>8 DEF RequiredFields
  <2>2. q.account = c.account /\ q.amount = c.amount
    BY <1>2, <2>1, FixedFields
  <2>3. MovementError(e, q) = MovementError(d, c) /\ WithdrawError(e, q) = WithdrawError(d, c)
    BY <2>1, MovementFixed
  <2>4. MovementError(d, c) = None \/ WithdrawError(d, c) = None => c.account \in DOMAIN d.accounts
    BY MovementFindsAccount DEF WithdrawError
  <2>5. ASSUME c.account \in DOMAIN d.accounts, NEW n
        PROVE  /\ AddToBalance(e, q.account, n) = Fixed(AddToBalance(d, c.account, n))
               /\ e.accounts[q.account].balance = d.accounts[c.account].balance
    BY <2>2, <2>5, AddFixed, FixedIs
  <2>6. Same(Deposit(e, q), Deposit(d, c))
    <3>1. CASE MovementError(d, c) # None
      BY <1>1, <2>3, <3>1 DEF Deposit
    <3>2. CASE MovementError(d, c) = None
      <4>1. Deposit(d, c) = Returns(AddToBalance(d, c.account, c.amount), Plus(d.accounts[c.account].balance, c.amount))
        BY <3>2 DEF Deposit
      <4>2. Deposit(e, q) = Returns(Fixed(AddToBalance(d, c.account, c.amount)), Plus(d.accounts[c.account].balance, c.amount))
        BY <2>2, <2>3, <2>4, <2>5, <3>2 DEF Deposit
      <4> QED BY <1>1, <4>1, <4>2
    <3> QED BY <3>1, <3>2
  <2>7. Same(Withdraw(e, q), Withdraw(d, c))
    <3>1. CASE WithdrawError(d, c) # None
      BY <1>1, <2>3, <3>1 DEF Withdraw
    <3>2. CASE WithdrawError(d, c) = None
      <4>1. Withdraw(d, c) = Returns(AddToBalance(d, c.account, Negative(c.amount)),
                                     Plus(d.accounts[c.account].balance, Negative(c.amount)))
        BY <3>2 DEF Withdraw
      <4>2. Withdraw(e, q) = Returns(Fixed(AddToBalance(d, c.account, Negative(c.amount))),
                                     Plus(d.accounts[c.account].balance, Negative(c.amount)))
        BY <2>2, <2>3, <2>4, <2>5, <3>2 DEF Withdraw
      <4> QED BY <1>1, <4>1, <4>2
    <3> QED BY <3>1, <3>2
  <2>8. \/ CallService(e, q) = Deposit(e, q) /\ CallService(d, c) = Deposit(d, c)
        \/ CallService(e, q) = Withdraw(e, q) /\ CallService(d, c) = Withdraw(d, c)
    BY <1>3, <1>8 DEF CallService
  <2> QED BY <1>5, <2>6, <2>7, <2>8 DEF Same
<1>9. CASE c.service = "GetBalance"
  <2>1. {"service", "account", "name", "password"} \subseteq DOMAIN c
    BY <1>2, <1>9 DEF RequiredFields
  <2>2. q.account = c.account
    BY <1>2, <2>1, FixedFields
  <2>3. AuthError(e, q) = AuthError(d, c)
    BY <2>1, AuthFixed
  <2>4. AuthError(d, c) = None => e.accounts[q.account].balance = d.accounts[c.account].balance
    BY <2>2, AuthFindsAccount, FixedIs
  <2>5. Same(CheckBalance(e, q), CheckBalance(d, c))
    BY <1>1, <2>3, <2>4 DEF CheckBalance
  <2>7. CallService(e, q) = CheckBalance(e, q) /\ CallService(d, c) = CheckBalance(d, c)
    BY <1>3, <1>9 DEF CallService
  <2> QED BY <1>5, <2>5, <2>7 DEF Same
<1>10. CASE c.service = "TransferFunds"
  <2>1. {"service", "account", "name", "password", "toAccount", "currency", "amount"} \subseteq DOMAIN c
    BY <1>2, <1>10 DEF RequiredFields
  <2>2. q.account = c.account /\ q.amount = c.amount /\ q.toAccount = c.toAccount
    BY <1>2, <2>1, FixedFields
  <2>3. TransferError(e, q) = TransferError(d, c)
    BY <2>1, TransferFixed
  <2>5. Same(Transfer(e, q), Transfer(d, c))
    <3>1. CASE TransferError(d, c) # None
      BY <1>1, <2>3, <3>1 DEF Transfer
    <3>2. CASE TransferError(d, c) = None
      <4>1. c.account \in DOMAIN d.accounts /\ c.toAccount \in DOMAIN d.accounts
        BY <3>2, TransferFindsAccounts
      <4>p. PICK paid : paid = AddToBalance(d, c.account, Negative(c.amount))
        OBVIOUS
      <4>2. Negative(c.amount) \in Money
        BY <2>1, MoneyClosed DEF WellTyped
      <4>3. IsDatabase(paid) /\ DOMAIN paid.accounts = DOMAIN d.accounts
        BY <4>1, <4>2, <4>p, AddTyped
      <4>4. AddToBalance(e, c.account, Negative(c.amount)) = Fixed(paid)
        BY <4>1, <4>p, AddFixed
      <4>5. AddToBalance(Fixed(paid), c.toAccount, c.amount) = Fixed(AddToBalance(paid, c.toAccount, c.amount))
        BY <4>1, <4>3, AddFixed
      <4>6. e.accounts[c.account].balance = d.accounts[c.account].balance
        BY <4>1, FixedIs
      <4>7. Transfer(d, c) = Returns(AddToBalance(paid, c.toAccount, c.amount),
                                     Plus(d.accounts[c.account].balance, Negative(c.amount)))
        BY <3>2, <4>p DEF Transfer
      <4>8. Transfer(e, q) = Returns(Fixed(AddToBalance(paid, c.toAccount, c.amount)),
                                     Plus(d.accounts[c.account].balance, Negative(c.amount)))
        BY <2>2, <2>3, <3>2, <4>4, <4>5, <4>6 DEF Transfer
      <4> QED BY <1>1, <4>7, <4>8
    <3> QED BY <3>1, <3>2
  <2>7. CallService(e, q) = Transfer(e, q) /\ CallService(d, c) = Transfer(d, c)
    BY <1>3, <1>10 DEF CallService
  <2> QED BY <1>5, <2>5, <2>7 DEF Same
<1>11. CASE c.service = "Monitor"
  <2>1. CallService(e, q) = Returns(e, 0) /\ CallService(d, c) = Returns(d, 0)
    BY <1>3, <1>11 DEF CallService
  <2> QED BY <1>1, <1>5, <2>1 DEF Same
<1> QED BY <1>2, <1>6, <1>7, <1>8, <1>9, <1>10, <1>11 DEF Services, RequiredFields

\* And both banks tell the monitoring clients the same.
LEMMA UpdatesFixed ==
  ASSUME NEW d, IsDatabase(d), NEW c, WellFormed(c), WellTyped(c)
  PROVE  UpdatesOf(FixedCommand(c), Outcome(Fixed(d), FixedCommand(c))) = UpdatesOf(c, Outcome(d, c))
<1>o. PICK o : o = Outcome(d, c)
  OBVIOUS
<1>p. PICK p : p = Outcome(Fixed(d), FixedCommand(c))
  OBVIOUS
<1>q. PICK q : q = FixedCommand(c)
  OBVIOUS
<1>1. p = [db |-> Fixed(o.db), err |-> o.err, value |-> o.value] /\ IsDatabase(o.db)
  BY <1>o, <1>p, OutcomeFixed, OutcomeTyped
<1>2. "service" \in DOMAIN c /\ c.service \in Services /\ RequiredFields[c.service] \subseteq DOMAIN c
  BY DEF WellFormed
<1>3. q.service = c.service /\ p.err = o.err /\ p.value = o.value /\ p.db = Fixed(o.db)
  BY <1>1, <1>2, <1>q, FixedFields
<1>4. CASE o.err # None
  BY <1>3, <1>4, <1>o, <1>p, <1>q DEF UpdatesOf
<1>5. CASE o.err = None
  <2>1. CASE c.service = "OpenAccount"
    <3>1. {"name", "password", "currency", "amount"} \subseteq DOMAIN c
      BY <1>2, <2>1 DEF RequiredFields
    <3>2. q.name = c.name /\ q.currency = c.currency /\ q.amount = c.amount
      BY <1>2, <1>q, <3>1, FixedFields
    <3>3. UpdatesOf(q, p) = UpdatesOf(c, o)
      BY <1>3, <1>5, <2>1, <3>2 DEF UpdatesOf, AccountUpdate
    <3> QED BY <3>3, <1>o, <1>p, <1>q
  <2>2. CASE c.service = "CloseAccount"
    <3>1. {"name", "account"} \subseteq DOMAIN c
      BY <1>2, <2>2 DEF RequiredFields
    <3>2. q.name = c.name /\ q.account = c.account
      BY <1>2, <1>q, <3>1, FixedFields
    <3>3. UpdatesOf(q, p) = UpdatesOf(c, o)
      BY <1>3, <1>5, <2>2, <3>2 DEF UpdatesOf, AccountUpdate
    <3> QED BY <3>3, <1>o, <1>p, <1>q
  <2>3. CASE c.service \in {"Deposit", "Withdraw"}
    <3>1. {"name", "account", "currency"} \subseteq DOMAIN c
      BY <1>2, <2>3 DEF RequiredFields
    <3>2. q.name = c.name /\ q.account = c.account /\ q.currency = c.currency
      BY <1>2, <1>q, <3>1, FixedFields
    <3>3. UpdatesOf(q, p) = UpdatesOf(c, o)
      BY <1>3, <1>5, <2>3, <3>2 DEF UpdatesOf, AccountUpdate
    <3> QED BY <3>3, <1>o, <1>p, <1>q
  <2>4. CASE c.service = "TransferFunds"
    <3>1. {"name", "account", "toName", "toAccount", "amount"} \subseteq DOMAIN c
      BY <1>2, <2>4 DEF RequiredFields
    <3>2. q.name = c.name /\ q.account = c.account /\ q.toName = c.toName /\ q.toAccount = c.toAccount
      BY <1>2, <1>q, <3>1, FixedFields
    <3>3. c.toAccount \in DOMAIN o.db.accounts
      <4>1. o = Transfer(d, c)
        BY <1>o, <2>4 DEF Outcome, CallService
      <4>2. TransferError(d, c) = None
        BY <1>5, <4>1 DEF Transfer, Fails
      <4>3. c.account \in DOMAIN d.accounts /\ c.toAccount \in DOMAIN d.accounts
        BY <4>2, TransferFindsAccounts
      <4>4. o.db = AddToBalance(AddToBalance(d, c.account, Negative(c.amount)), c.toAccount, c.amount)
        BY <4>1, <4>2 DEF Transfer, Returns
      <4>5. c.amount \in Money /\ Negative(c.amount) \in Money
        BY <3>1, MoneyClosed DEF WellTyped
      <4>p. PICK paid : paid = AddToBalance(d, c.account, Negative(c.amount))
        OBVIOUS
      <4>6. IsDatabase(paid) /\ DOMAIN paid.accounts = DOMAIN d.accounts
        BY <4>3, <4>5, <4>p, AddTyped
      <4>7. DOMAIN AddToBalance(paid, c.toAccount, c.amount).accounts = DOMAIN paid.accounts
        BY <4>3, <4>5, <4>6, AddTyped
      <4> QED BY <4>3, <4>4, <4>6, <4>7, <4>p
    <3>4. p.db.accounts[q.toAccount].balance = o.db.accounts[c.toAccount].balance
      BY <1>1, <1>3, <3>2, <3>3, FixedIs
    <3>5. UpdatesOf(q, p) = UpdatesOf(c, o)
      BY <1>3, <1>5, <2>4, <3>2, <3>4 DEF UpdatesOf, AccountUpdate
    <3> QED BY <3>5, <1>o, <1>p, <1>q
  <2>5. CASE c.service \in {"GetBalance", "Monitor"}
    BY <1>3, <1>5, <2>5, <1>o, <1>p, <1>q DEF UpdatesOf
  <2> QED BY <1>2, <2>1, <2>2, <2>3, <2>4, <2>5 DEF Services, RequiredFields
<1> QED BY <1>4, <1>5

-----------------------------------------------------------------------------
(* Replies. *)

\* A message is read as it was framed.
LEMMA FrameRead ==
  ASSUME NEW d, NEW status \in Nat, NEW content \in Seq(Nat), Framed(d, status, content),
         status < Numbers[2], Len(content) < Numbers[4]
  PROVE  Deserialize(d) = [ok |-> TRUE, status |-> status, content |-> content]
<1>1. Len(content) \in Nat
  BY LenProperties
<1>2. Number(Slice(d, 13, 14)) = status
  <2>1. 2 \in 0 .. 8
    OBVIOUS
  <2>2. Slice(d, 13, 14) = BigEndian(status, 2)
    BY DEF Framed
  <2> QED BY <2>1, <2>2, NumberRead
<1>3. Number(Slice(d, 15, 18)) = Len(content)
  <2>1. 4 \in 0 .. 8
    OBVIOUS
  <2>2. Slice(d, 15, 18) = BigEndian(Len(content), 4)
    BY DEF Framed
  <2> QED BY <1>1, <2>1, <2>2, NumberRead
<1>n. PICK n : n = Number(SubSeq(d, 15, 18))
  OBVIOUS
<1>4. n = Len(content)
  BY <1>3, <1>n DEF Slice
<1>5. SubSeq(d, 19, 18 + n) = content
  BY <1>4 DEF Framed, Slice
<1>6. Number(SubSeq(d, 13, 14)) = status
  BY <1>2 DEF Slice
<1>7. ~(Len(d) < HeaderSize \/ HeaderSize + n > Len(d))
  <2>1. Len(d) = 18 + Len(content)
    BY DEF Framed
  <2> QED BY ONLY <1>1, <1>4, <2>1 DEF HeaderSize
<1>8. Deserialize(d) = IF Len(d) < HeaderSize \/ HeaderSize + n > Len(d) THEN [ok |-> FALSE]
                       ELSE [ok |-> TRUE, status |-> Number(SubSeq(d, 13, 14)), content |-> SubSeq(d, 19, 18 + n)]
  BY <1>n DEF Deserialize
<1> QED BY ONLY <1>5, <1>6, <1>7, <1>8, Zenon

\* A content of one field is read as it was written.
LEMMA OneField ==
  ASSUME NEW i \in 1 .. 10, NEW f, f = ClientFields[i], f \in DOMAIN ClientSizes,
         NEW o \in Seq(Nat), Len(o) = ClientSizes[f], Len(o) < Numbers[4]
  PROVE  /\ DecodeMessage(TLV(i, o)).fields = Under(NoFields, f, OctetsValue(f, o))
         /\ TLV(i, o) \in Seq(Nat) /\ Len(TLV(i, o)) = 5 + Len(o)
<1>t. PICK t : t = TLV(i, o)
  OBVIOUS
<1>0. i \in Nat
  BY FieldNumbers
<1>1. t \in Seq(Nat) /\ Len(t) = 5 + Len(o) /\ Len(o) \in Nat
  BY <1>0, <1>t, TLVIs, LenProperties
<1>B. PICK B : B = Len(t)
  OBVIOUS
<1>2. B \in Nat /\ B = 5 + Len(o)
  BY <1>1, <1>B
<1>3. Found(t, B, 0, i, o)
  <2>1. <<>> \in Seq(Nat) /\ Len(<<>>) = 0
    BY EmptySeq
  <2>2. (<<>> \o t) \o <<>> = t
    <3>1. <<>> \o t = t /\ t \o <<>> = t
      BY <1>1, ConcatEmptySeq
    <3> QED BY <3>1
  <2>3. SubSeq(t, 1, B) = t
    BY <1>1, <1>B, SubSeqFull
  <2>4. Front3(<<>>, t, <<>>, B, t)
    BY <1>1, <1>2, <1>B, <2>1, <2>2, <2>3 DEF Front3
  <2>5. Found(t, B, Len(<<>>), i, o)
    BY <1>0, <1>t, <2>4, TLVFound
  <2> QED BY <2>1, <2>5
<1>4. PICK F : Decoding(F, t, ClientFields, ClientSizes, 0 .. StringLimit)
  BY <1>1, DecodeIs
<1>5. /\ \A at \in 0 .. B : F[at] = DecodedAt(F, at, t, ClientFields, ClientSizes, 0 .. StringLimit)
      /\ Decode(t, ClientFields, ClientSizes, 0 .. StringLimit) = F[0]
  BY <1>4, <1>B DEF Decoding
<1>6. F[B] = Nothing
  <2>1. B \in 0 .. B /\ B + 5 > B
    BY ONLY <1>2
  <2>2. F[B] = DecodedAt(F, B, t, ClientFields, ClientSizes, 0 .. StringLimit)
    BY <1>5, <2>1
  <2> QED BY <1>B, <2>1, <2>2 DEF DecodedAt, Nothing
<1>7. Cases(F[0], F, 0, B, f, o, ClientSizes, 0 .. StringLimit)
  <2>1. 0 \in 0 .. B /\ 0 \in Nat
    BY ONLY <1>2
  <2>2. i \in DOMAIN ClientFields
    BY FieldTables
  <2>3. Cases(DecodedAt(F, 0, t, ClientFields, ClientSizes, 0 .. StringLimit), F, 0, B, ClientFields[i], o, ClientSizes, 0 .. StringLimit)
    BY <1>1, <1>2, <1>3, <1>B, <2>1, <2>2, DecodedCases
  <2> QED BY <1>5, <2>1, <2>3
<1>8. Accepted(f, Len(o), ClientSizes, 0 .. StringLimit)
  BY DEF Accepted
<1>9. 0 + 5 + Len(o) = B /\ 0 + 5 + Len(o) <= B
  BY ONLY <1>1, <1>2
<1>10. F[0] = [ok |-> TRUE, fields |-> Under(F[B].fields, f, OctetsValue(f, o))]
  <2>1. F[B].ok = TRUE
    BY <1>6 DEF Nothing
  <2> QED BY <1>7, <1>8, <1>9, <2>1 DEF Cases
<1>11. F[B].fields = NoFields
  BY <1>6 DEF Nothing
<1>12. t # <<>>
  <2>1. Len(<<>>) = 0
    BY EmptySeq
  <2>2. Len(t) # 0
    BY ONLY <1>1
  <2> QED BY <2>1, <2>2
<1>13. DecodeMessage(t) = F[0]
  BY <1>5, <1>12 DEF DecodeMessage
<1> QED BY <1>1, <1>10, <1>11, <1>13, <1>t

\* Every error of the bank has its number, which the client reads as the same status.
LEMMA StatusNumber ==
  ASSUME NEW err
  PROVE  LET n == Position(MapBankingError(err), ServerStatuses) - 1
         IN n \in Nat /\ n < Numbers[2] /\ ClientStatuses[n + 1] = MapBankingError(err)
<1>1. PICK i \in 1 .. 8 : MapBankingError(err) = ClientStatuses[i]
  <2>1. /\ ClientStatuses[1] = Success /\ ClientStatuses[2] = "ACCOUNT_NOT_FOUND"
        /\ ClientStatuses[3] = "INVALID_CREDENTIALS" /\ ClientStatuses[4] = "ACCOUNT_MISMATCH"
        /\ ClientStatuses[5] = "CURRENCY_MISMATCH" /\ ClientStatuses[6] = "INSUFFICIENT_FUNDS"
        /\ ClientStatuses[7] = "SAME_ACCOUNT" /\ ClientStatuses[8] = "INTERNAL_ERROR"
    BY DEF ClientStatuses
  <2>2. MapBankingError(err) \in {Success, "ACCOUNT_NOT_FOUND", "INVALID_CREDENTIALS", "ACCOUNT_MISMATCH",
                                  "CURRENCY_MISMATCH", "INSUFFICIENT_FUNDS", "SAME_ACCOUNT", "INTERNAL_ERROR"}
    BY DEF MapBankingError
  <2> QED BY <2>1, <2>2
<1>2. Position(MapBankingError(err), ServerStatuses) = i
  BY <1>1, FieldTables, StatusPosition
<1>3. Numbers[2] > 8
  BY NumbersSuffice
<1>4. i - 1 \in Nat /\ i - 1 < Numbers[2] /\ (i - 1) + 1 = i
  <2>1. Numbers[2] \in Nat
    <3>1. 2 \in 0 .. 8
      OBVIOUS
    <3> QED BY <3>1, NumbersAre
  <2> QED BY <1>3, <2>1
<1> QED BY <1>1, <1>2, <1>4

\* A value that the reply can carry.
Reportable(q, out) ==
  out.err = None =>
    /\ q.service \in Services
    /\ q.service = "OpenAccount" => out.value \in Uint32
    /\ q.service \in {"Deposit", "Withdraw", "GetBalance", "TransferFunds"} => out.value \in Money /\ Fits(out.value)

\* What the user is to be shown of the outcome of q.
Reported(q, out) ==
  [status |-> MapBankingError(out.err),
   fields |-> IF out.err # None THEN NoFields
              ELSE CASE q.service = "OpenAccount" -> [account |-> out.value]
                     [] q.service \in {"CloseAccount", "Monitor"} -> NoFields
                     [] OTHER -> [amount |-> out.value]]

\* What the client makes of a reply.
ScreenOf(bytes) ==
  LET msg == Deserialize(bytes)
      status == IF msg.ok THEN ClientStatuses[msg.status + 1] ELSE "Unreadable"
  IN IF status = Success THEN [status |-> status, fields |-> DecodeMessage(msg.content).fields]
     ELSE [status |-> status, fields |-> NoFields]

LEMMA ContentRead ==
  ASSUME NEW q, NEW out, Reportable(q, out)
  PROVE  /\ ReplyContent(q, out) \in Seq(Nat) /\ Len(ReplyContent(q, out)) < Numbers[4]
         /\ out.err = None => DecodeMessage(ReplyContent(q, out)).fields = Reported(q, out).fields
<1>0. /\ <<>> \in Seq(Nat) /\ Len(<<>>) < Numbers[4] /\ DecodeMessage(<<>>).fields = NoFields
      /\ Numbers[4] \in Nat /\ Numbers[4] > 13
  <2>1. <<>> \in Seq(Nat) /\ Len(<<>>) = 0
    BY EmptySeq
  <2>2. Numbers[4] \in Nat /\ Numbers[4] > 13
    <3>1. \A x \in Nat : x > 8 => Octets * x \in Nat /\ Octets * x > 13
      BY OctetAssumption
    <3>2. Numbers[2] > 8 /\ Numbers[2] \in Nat
      <4>1. 2 \in 0 .. 8
        OBVIOUS
      <4> QED BY <4>1, NumbersAre, NumbersSuffice
    <3>3. Numbers[3] = Octets * Numbers[2] /\ Numbers[4] = Octets * Numbers[3]
      <4>1. 3 \in 0 .. 8 /\ 4 \in 0 .. 8 /\ 3 # 0 /\ 4 # 0 /\ 3 - 1 = 2 /\ 4 - 1 = 3
        OBVIOUS
      <4> QED BY <4>1, NumbersAre
    <3>4. Numbers[3] \in Nat /\ Numbers[3] > 13
      BY <3>1, <3>2, <3>3
    <3>5. Numbers[3] > 8
      BY ONLY <3>4
    <3> QED BY <3>1, <3>3, <3>4, <3>5
  <2>3. DecodeMessage(<<>>).fields = NoFields
    BY DEF DecodeMessage
  <2>4. Len(<<>>) < Numbers[4]
    BY ONLY <2>1, <2>2
  <2> QED BY <2>1, <2>2, <2>3, <2>4
<1>1. CASE out.err # None
  <2>1. ReplyContent(q, out) = <<>>
    BY <1>1 DEF ReplyContent
  <2> QED BY <1>0, <1>1, <2>1
<1>2. CASE out.err = None /\ q.service = "OpenAccount"
  <2>o. PICK o : o = BigEndian(out.value, 4)
    OBVIOUS
  <2>1. out.value \in Nat /\ out.value < Numbers[4]
    <3>1. out.value \in 0 .. Numbers[4] - 1
      BY <1>2, OctetAssumption DEF Reportable, Uint32
    <3> QED BY ONLY <1>0, <3>1
  <2>2. o \in Seq(Nat) /\ Len(o) = 4 /\ Number(o) = out.value
    <3>1. 4 \in Nat /\ 4 \in 0 .. 8
      OBVIOUS
    <3> QED BY <2>1, <2>o, <3>1, BigEndianTyped, NumberRead
  <2>3. 2 \in 1 .. 10 /\ ClientFields[2] = "account" /\ ClientSizes["account"] = 4 /\ "account" \in DOMAIN ClientSizes
    BY DEF ClientFields, ClientSizes
  <2>4. Len(o) < Numbers[4] /\ 5 + Len(o) < Numbers[4]
    BY ONLY <1>0, <2>2
  <2>5. /\ DecodeMessage(TLV(2, o)).fields = Under(NoFields, "account", OctetsValue("account", o))
        /\ TLV(2, o) \in Seq(Nat) /\ Len(TLV(2, o)) = 5 + Len(o)
    BY <2>2, <2>3, <2>4, OneField
  <2>6. Position("account", ServerFields) = 2
    BY <2>3, FieldPosition, FieldTables
  <2>7. ReplyContent(q, out) = TLV(2, o)
    BY <1>2, <2>6, <2>o DEF ReplyContent
  <2>8. OctetsValue("account", o) = out.value
    BY <2>2 DEF OctetsValue
  <2>9. Under(NoFields, "account", out.value) = [account |-> out.value]
    BY DEF Under, NoFields
  <2>10. Reported(q, out).fields = [account |-> out.value]
    BY <1>2 DEF Reported
  <2> QED BY <2>4, <2>5, <2>7, <2>8, <2>9, <2>10
<1>3. CASE out.err = None /\ q.service \in {"Deposit", "Withdraw", "GetBalance", "TransferFunds"}
  <2>o. PICK o : o = Double(out.value)
    OBVIOUS
  <2>1. out.value \in Money /\ Fits(out.value)
    BY <1>3 DEF Reportable
  <2>2. o \in Seq(Nat) /\ Len(o) = 8 /\ DoubleIn(o) = out.value
    BY <2>1, <2>o, DoubleRead
  <2>3. 7 \in 1 .. 10 /\ ClientFields[7] = "amount" /\ ClientSizes["amount"] = 8 /\ "amount" \in DOMAIN ClientSizes
    BY DEF ClientFields, ClientSizes
  <2>4. Len(o) < Numbers[4] /\ 5 + Len(o) < Numbers[4]
    BY ONLY <1>0, <2>2
  <2>5. /\ DecodeMessage(TLV(7, o)).fields = Under(NoFields, "amount", OctetsValue("amount", o))
        /\ TLV(7, o) \in Seq(Nat) /\ Len(TLV(7, o)) = 5 + Len(o)
    BY <2>2, <2>3, <2>4, OneField
  <2>6. Position("amount", ServerFields) = 7
    BY <2>3, FieldPosition, FieldTables
  <2>7. ReplyContent(q, out) = TLV(7, o)
    BY <1>3, <2>6, <2>o DEF ReplyContent
  <2>8. OctetsValue("amount", o) = out.value
    BY <2>2 DEF OctetsValue
  <2>9. Under(NoFields, "amount", out.value) = [amount |-> out.value]
    BY DEF Under, NoFields
  <2>10. Reported(q, out).fields = [amount |-> out.value]
    BY <1>3 DEF Reported
  <2> QED BY <2>4, <2>5, <2>7, <2>8, <2>9, <2>10
<1>4. CASE out.err = None /\ q.service \in {"CloseAccount", "Monitor"}
  <2>1. ReplyContent(q, out) = <<>>
    BY <1>4 DEF ReplyContent
  <2>2. Reported(q, out).fields = NoFields
    BY <1>4 DEF Reported
  <2> QED BY <1>0, <2>1, <2>2
<1>5. out.err = None => q.service \in {"OpenAccount", "CloseAccount", "Deposit", "Withdraw", "Monitor", "GetBalance", "TransferFunds"}
  BY DEF Reportable, Services, RequiredFields
<1> QED BY <1>1, <1>2, <1>3, <1>4, <1>5

\* The client shows what the server replied.
THEOREM ReplyRead ==
  ASSUME NEW id \in Nat, NEW q, NEW out, Reportable(q, out)
  PROVE  ScreenOf(ReplyOf(id, q, out)) = Reported(q, out)
<1>d. PICK d : d = ReplyOf(id, q, out)
  OBVIOUS
<1>n. PICK n : n = Position(MapBankingError(out.err), ServerStatuses) - 1
  OBVIOUS
<1>c. PICK c : c = ReplyContent(q, out)
  OBVIOUS
<1>1. n \in Nat /\ n < Numbers[2] /\ ClientStatuses[n + 1] = MapBankingError(out.err)
  BY <1>n, StatusNumber
<1>2. /\ c \in Seq(Nat) /\ Len(c) < Numbers[4]
      /\ out.err = None => DecodeMessage(c).fields = Reported(q, out).fields
  BY <1>c, ContentRead
<1>3. Framed(d, n, c)
  <2>a. PICK a : a = <<ReplyType, 0>>
    OBVIOUS
  <2>1. a \in Seq(Nat) /\ Len(a) = 2
    BY <2>a DEF ReplyType
  <2>2. Framed(a \o BigEndian(id, 4) \o Address \o BigEndian(n, 2) \o BigEndian(Len(c), 4) \o c, n, c)
    BY <1>1, <1>2, <2>1, FrameIs
  <2> QED BY <1>c, <1>d, <1>n, <2>2, <2>a DEF ReplyOf, BuildReply
<1>4. Deserialize(d) = [ok |-> TRUE, status |-> n, content |-> c]
  BY <1>1, <1>2, <1>3, FrameRead
<1>m. PICK m : m = Deserialize(d)
  OBVIOUS
<1>5. m.ok = TRUE /\ m.status = n /\ m.content = c
  BY <1>4, <1>m
<1>6. ScreenOf(d) = IF MapBankingError(out.err) = Success
                    THEN [status |-> MapBankingError(out.err), fields |-> DecodeMessage(c).fields]
                    ELSE [status |-> MapBankingError(out.err), fields |-> NoFields]
  BY <1>1, <1>5, <1>m DEF ScreenOf
<1>7. MapBankingError(out.err) = Success <=> out.err = None
  BY DEF MapBankingError, Success, None
<1>8. Reported(q, out) = [status |-> MapBankingError(out.err), fields |-> Reported(q, out).fields]
  BY DEF Reported
<1>9. out.err # None => Reported(q, out).fields = NoFields
  BY DEF Reported
<1> QED BY <1>2, <1>6, <1>7, <1>8, <1>9, <1>d

-----------------------------------------------------------------------------
(* Callbacks. *)

\* An update is read as it was sent.
THEOREM CallbackRead ==
  ASSUME NEW u \in Updates, Fits(u.balance)
  PROVE  DecodeCallback(MarshalCallbackUpdate(u)) = u
<1>u. /\ u = [service |-> u.service, account |-> u.account, name |-> u.name, currency |-> u.currency, balance |-> u.balance]
      /\ u.service \in Services /\ u.account \in Uint32 /\ u.name \in Names
      /\ u.currency \in Currencies \cup {NoCurrency} /\ u.balance \in Money
  BY DEF Updates
<1>p. PICK p : p = Position(u.service, ServerServices)
  OBVIOUS
<1>1. p \in Nat /\ ClientServices[p] = u.service
  <2>1. p \in 1 .. 7 /\ ClientServices[p] = u.service
    BY <1>u, <1>p, ServiceNumber, FieldTables
  <2> QED BY <2>1
<1>2. u.name \in Seq(Nat) /\ Len(u.name) \in Nat /\ Len(u.name) < Numbers[4]
  <2>1. u.name \in Seq(1 .. Octets - 1) /\ Len(u.name) < Numbers[4]
    BY <1>u, StringAssumption, OctetAssumption
  <2>2. Len(u.name) \in Nat /\ \A i \in 1 .. Len(u.name) : u.name[i] \in 1 .. Octets - 1
    BY <2>1, LenProperties, ElementOfSeq
  <2>3. 1 .. Octets - 1 \subseteq Nat
    BY OctetAssumption
  <2> QED BY <2>1, <2>2, <2>3
<1>3. u.currency \in Nat
  <2>1. \A x \in 0 .. Octets - 1 : x \in Nat
    BY OctetAssumption
  <2> QED BY <1>u, <2>1, StringAssumption DEF NoCurrency
<1>4. u.account \in Nat /\ u.account < Numbers[4]
  BY <1>u, OctetAssumption, UintAssumption DEF Uint32
<1>4b. 4 \in 0 .. 8 /\ 4 \in Nat
  OBVIOUS
<1>a. PICK a : a = <<CallbackType, p>>
  OBVIOUS
<1>b. PICK b : b = BigEndian(u.account, 4)
  OBVIOUS
<1>c. PICK c : c = BigEndian(Len(u.name), 4)
  OBVIOUS
<1>n. PICK n : n = u.name
  OBVIOUS
<1>e. PICK e : e = <<u.currency>>
  OBVIOUS
<1>f. PICK f : f = Double(u.balance)
  OBVIOUS
<1>l. PICK l : l = Len(n)
  OBVIOUS
<1>5. a \in Seq(Nat) /\ Len(a) = 2 /\ a[2] = p
  BY <1>1, <1>a DEF CallbackType
<1>6. b \in Seq(Nat) /\ Len(b) = 4 /\ Number(b) = u.account
  BY <1>4, <1>4b, <1>b, BigEndianTyped, NumberRead
<1>7. c \in Seq(Nat) /\ Len(c) = 4 /\ Number(c) = l
  BY <1>2, <1>4b, <1>c, <1>n, <1>l, BigEndianTyped, NumberRead
<1>8. n \in Seq(Nat) /\ l \in Nat /\ Len(n) = l
  BY <1>2, <1>n, <1>l
<1>9. e \in Seq(Nat) /\ Len(e) = 1 /\ e[1] = u.currency
  BY <1>3, <1>e
<1>10. f \in Seq(Nat) /\ Len(f) = 8 /\ DoubleIn(f) = u.balance
  BY <1>u, <1>f, DoubleRead
<1>s. PICK s : s = a \o b
  OBVIOUS
<1>11. Grown(s, a, b) /\ s \in Seq(Nat) /\ Len(s) = 6 /\ Slice(s, 3, 6) = b /\ s[2] = p
  <2>1. Grown(s, a, b)
    BY <1>5, <1>6, <1>s DEF Grown
  <2>2. s \in Seq(Nat) /\ Len(s) = Len(a) + Len(b) /\ Slice(s, Len(a) + 1, Len(s)) = b /\ \A i \in 1 .. Len(a) : s[i] = a[i]
    BY ONLY <2>1, GrownIs
  <2>3. Len(s) = 6 /\ Len(a) + 1 = 3 /\ 2 \in 1 .. Len(a)
    BY ONLY <1>5, <1>6, <2>2
  <2> QED BY <1>5, <2>1, <2>2, <2>3
<1>t. PICK t : t = s \o c
  OBVIOUS
<1>12. Grown(t, s, c) /\ t \in Seq(Nat) /\ Len(t) = 10 /\ Slice(t, 7, 10) = c /\ t[2] = p
  <2>1. Grown(t, s, c)
    BY <1>7, <1>11, <1>t DEF Grown
  <2>2. t \in Seq(Nat) /\ Len(t) = Len(s) + Len(c) /\ Slice(t, Len(s) + 1, Len(t)) = c /\ \A i \in 1 .. Len(s) : t[i] = s[i]
    BY ONLY <2>1, GrownIs
  <2>3. Len(t) = 10 /\ Len(s) + 1 = 7 /\ 2 \in 1 .. Len(s)
    BY ONLY <1>7, <1>11, <2>2
  <2> QED BY <1>11, <2>1, <2>2, <2>3
<1>v. PICK v : v = t \o n
  OBVIOUS
<1>13. Grown(v, t, n) /\ v \in Seq(Nat) /\ Len(v) = 10 + l /\ Slice(v, 11, 10 + l) = n /\ v[2] = p
  <2>1. Grown(v, t, n)
    BY <1>8, <1>12, <1>v DEF Grown
  <2>2. v \in Seq(Nat) /\ Len(v) = Len(t) + Len(n) /\ Slice(v, Len(t) + 1, Len(v)) = n /\ \A i \in 1 .. Len(t) : v[i] = t[i]
    BY ONLY <2>1, GrownIs
  <2>3. Len(v) = 10 + l /\ Len(t) + 1 = 11 /\ 2 \in 1 .. Len(t)
    BY ONLY <1>8, <1>12, <2>2
  <2> QED BY <1>12, <2>1, <2>2, <2>3
<1>w. PICK w : w = v \o e
  OBVIOUS
<1>14. Grown(w, v, e) /\ w \in Seq(Nat) /\ Len(w) = 11 + l /\ w[11 + l] = u.currency /\ w[2] = p
  <2>1. Grown(w, v, e)
    BY <1>9, <1>13, <1>w DEF Grown
  <2>2. w \in Seq(Nat) /\ Len(w) = Len(v) + Len(e) /\ \A i \in 1 .. Len(v) : w[i] = v[i]
    BY ONLY <2>1, GrownIs
  <2>3. Len(w) = 11 + l /\ Len(v) + 1 = 11 + l /\ 2 \in 1 .. Len(v)
    BY ONLY <1>8, <1>9, <1>13, <2>2
  <2>4. w[Len(v) + 1] = e[1]
    <3>1. 1 \in 1 .. Len(e)
      BY ONLY <1>9
    <3>2. \A i \in 1 .. Len(e) : (v \o e)[Len(v) + i] = e[i]
      BY <1>9, <1>13, Joined
    <3> QED BY <1>w, <3>1, <3>2
  <2> QED BY <1>9, <1>13, <2>1, <2>2, <2>3, <2>4
<1>x. PICK x : x = w \o f
  OBVIOUS
<1>15. Grown(x, w, f) /\ x \in Seq(Nat) /\ Len(x) = 19 + l /\ Slice(x, 12 + l, 19 + l) = f /\ x[11 + l] = u.currency /\ x[2] = p
  <2>1. Grown(x, w, f)
    BY <1>10, <1>14, <1>x DEF Grown
  <2>2. x \in Seq(Nat) /\ Len(x) = Len(w) + Len(f) /\ Slice(x, Len(w) + 1, Len(x)) = f /\ \A i \in 1 .. Len(w) : x[i] = w[i]
    BY ONLY <2>1, GrownIs
  <2>3. Len(x) = 19 + l /\ Len(w) + 1 = 12 + l /\ 2 \in 1 .. Len(w) /\ 11 + l \in 1 .. Len(w)
    BY ONLY <1>8, <1>10, <1>14, <2>2
  <2> QED BY <1>14, <2>1, <2>2, <2>3
<1>16. x = MarshalCallbackUpdate(u)
  BY <1>p, <1>a, <1>b, <1>c, <1>n, <1>e, <1>f, <1>s, <1>t, <1>v, <1>w, <1>x DEF MarshalCallbackUpdate
<1>17. Slice(x, 3, 6) = b
  <2>1. 3 \in Nat /\ 3 # 0 /\ 6 \in Nat /\ 6 <= Len(s) /\ 6 <= Len(t) /\ 6 <= Len(v) /\ 6 <= Len(w)
    BY ONLY <1>8, <1>11, <1>12, <1>13, <1>14
  <2>2. Slice(t, 3, 6) = Slice(s, 3, 6)
    BY ONLY <1>12, <2>1, GrownKeeps
  <2>3. Slice(v, 3, 6) = Slice(t, 3, 6)
    BY ONLY <1>13, <2>1, GrownKeeps
  <2>4. Slice(w, 3, 6) = Slice(v, 3, 6)
    BY ONLY <1>14, <2>1, GrownKeeps
  <2>5. Slice(x, 3, 6) = Slice(w, 3, 6)
    BY ONLY <1>15, <2>1, GrownKeeps
  <2> QED BY <1>11, <2>2, <2>3, <2>4, <2>5
<1>18. Slice(x, 7, 10) = c
  <2>1. 7 \in Nat /\ 7 # 0 /\ 10 \in Nat /\ 10 <= Len(t) /\ 10 <= Len(v) /\ 10 <= Len(w)
    BY ONLY <1>8, <1>12, <1>13, <1>14
  <2>3. Slice(v, 7, 10) = Slice(t, 7, 10)
    BY ONLY <1>13, <2>1, GrownKeeps
  <2>4. Slice(w, 7, 10) = Slice(v, 7, 10)
    BY ONLY <1>14, <2>1, GrownKeeps
  <2>5. Slice(x, 7, 10) = Slice(w, 7, 10)
    BY ONLY <1>15, <2>1, GrownKeeps
  <2> QED BY <1>12, <2>3, <2>4, <2>5
<1>19. Slice(x, 11, 10 + l) = n
  <2>1. 11 \in Nat /\ 11 # 0 /\ 10 + l \in Nat /\ 10 + l <= Len(v) /\ 10 + l <= Len(w)
    BY ONLY <1>8, <1>13, <1>14
  <2>4. Slice(w, 11, 10 + l) = Slice(v, 11, 10 + l)
    BY ONLY <1>14, <2>1, GrownKeeps
  <2>5. Slice(x, 11, 10 + l) = Slice(w, 11, 10 + l)
    BY ONLY <1>15, <2>1, GrownKeeps
  <2> QED BY <1>13, <2>4, <2>5
<1>z. PICK z : z = Number(SubSeq(x, 7, 10))
  OBVIOUS
<1>20. z = l
  BY <1>7, <1>18, <1>z DEF Slice
<1>21. DecodeCallback(x) = [service |-> ClientServices[x[2]], account |-> Number(SubSeq(x, 3, 6)),
                            name |-> SubSeq(x, 11, 10 + z), currency |-> x[11 + z],
                            balance |-> DoubleIn(SubSeq(x, 12 + z, 19 + z))]
  BY <1>z DEF DecodeCallback
<1>22. ClientServices[x[2]] = u.service
  BY <1>1, <1>15
<1>23. Number(SubSeq(x, 3, 6)) = u.account
  BY <1>6, <1>17 DEF Slice
<1>24. SubSeq(x, 11, 10 + z) = u.name
  BY <1>19, <1>20, <1>n DEF Slice
<1>25. x[11 + z] = u.currency
  BY <1>15, <1>20
<1>26. DoubleIn(SubSeq(x, 12 + z, 19 + z)) = u.balance
  BY <1>10, <1>15, <1>20 DEF Slice
<1>27. DecodeCallback(x) = [service |-> u.service, account |-> u.account, name |-> u.name, currency |-> u.currency, balance |-> u.balance]
  BY ONLY <1>21, <1>22, <1>23, <1>24, <1>25, <1>26, Zenon
<1> QED BY ONLY <1>16, <1>27, <1>u, Zenon

-----------------------------------------------------------------------------
(* The invariants. *)

\* The store is the bank but for the passwords, and a request is the encoding of its command.
BankInv ==
  /\ IsDatabase(bank) /\ db = Fixed(bank) /\ calls \in Nat
  /\ stage = "Request" => cmd \in Commands /\ datagram = Serialize(calls, EncodeMessage(cmd))

\* The client has shown, or will make of the reply, what is due to its user.
ReplyInv ==
  /\ stage = "Reply" => ScreenOf(datagram) = Reported(cmd, due.out)
  /\ stage = "Shown" => screen = Reported(cmd, due.out)

\* The first n updates have been printed, the others are under way.
Told(n, updates) ==
  /\ notices = SubSeq(updates, 1, n)
  /\ callbacks = [i \in 1 .. Len(updates) - n |-> MarshalCallbackUpdate(updates[n + i])]

UpdatesInv ==
  /\ stage \in {"Menu", "Request"} => notices = <<>> /\ callbacks = <<>>
  /\ stage = "Reply" => notices = <<>>
  /\ stage \in {"Reply", "Shown"} =>
       /\ due.updates \in Seq(Updates) /\ \A i \in 1 .. Len(due.updates) : Fits(due.updates[i].balance)
       /\ \E n \in 0 .. Len(due.updates) : Told(n, due.updates)

\* Every balance that is a number is one a double has room for.
BalancesFit == \A a \in DOMAIN bank.accounts : Fits(bank.accounts[a].balance)

\* A call that reports a number reports the balance its account has afterwards.
LEMMA ValueIsBalance ==
  ASSUME NEW d, IsDatabase(d), NEW c, WellFormed(c), WellTyped(c), Outcome(d, c).err = None,
         c.service \in {"Deposit", "Withdraw", "GetBalance", "TransferFunds"}
  PROVE  LET out == Outcome(d, c)
         IN /\ out.value \in Money
            /\ c.account \in DOMAIN out.db.accounts /\ out.value = out.db.accounts[c.account].balance
            /\ c.service = "TransferFunds" => c.toAccount \in DOMAIN out.db.accounts
<1>o. PICK out : out = Outcome(d, c)
  OBVIOUS
<1>1. out = CallService(d, c) /\ out.err = None /\ out.value \in Money
  BY <1>o, OutcomeTyped DEF Outcome
<1>2. RequiredFields[c.service] \subseteq DOMAIN c
  BY DEF WellFormed
<1>3. CASE c.service \in {"Deposit", "Withdraw"}
  <2>1. "amount" \in DOMAIN c
    BY <1>2, <1>3 DEF RequiredFields
  <2>2. c.amount \in Money /\ Negative(c.amount) \in Money
    BY <2>1, MoneyClosed DEF WellTyped
  <2>3. PICK n \in Money : /\ c.account \in DOMAIN d.accounts
                           /\ out = Returns(AddToBalance(d, c.account, n), Plus(d.accounts[c.account].balance, n))
    <3>1. CASE c.service = "Deposit"
      <4>1. out = Deposit(d, c)
        BY <1>1, <3>1 DEF CallService
      <4>2. MovementError(d, c) = None
        BY <1>1, <4>1 DEF Deposit, Fails
      <4> QED BY <2>2, <4>1, <4>2, MovementFindsAccount DEF Deposit
    <3>2. CASE c.service = "Withdraw"
      <4>1. out = Withdraw(d, c)
        BY <1>1, <3>2 DEF CallService
      <4>2. WithdrawError(d, c) = None
        BY <1>1, <4>1 DEF Withdraw, Fails
      <4>3. MovementError(d, c) = None
        BY <4>2 DEF WithdrawError
      <4> QED BY <2>2, <4>1, <4>2, <4>3, MovementFindsAccount DEF Withdraw
    <3> QED BY <1>3, <3>1, <3>2
  <2>4. /\ c.account \in DOMAIN AddToBalance(d, c.account, n).accounts
        /\ AddToBalance(d, c.account, n).accounts[c.account].balance = Plus(d.accounts[c.account].balance, n)
    BY <2>3, AddTyped
  <2>5. out.db = AddToBalance(d, c.account, n) /\ out.value = Plus(d.accounts[c.account].balance, n)
    BY <2>3 DEF Returns
  <2> QED BY <1>1, <1>3, <1>o, <2>4, <2>5
<1>4. CASE c.service = "GetBalance"
  <2>1. out = CheckBalance(d, c)
    BY <1>1, <1>4 DEF CallService
  <2>2. AuthError(d, c) = None
    BY <1>1, <2>1 DEF CheckBalance, Fails
  <2>3. c.account \in DOMAIN d.accounts
    BY <2>2, AuthFindsAccount
  <2>4. out.db = d /\ out.value = d.accounts[c.account].balance
    BY <2>1, <2>2 DEF CheckBalance, Returns
  <2> QED BY <1>1, <1>4, <1>o, <2>3, <2>4
<1>5. CASE c.service = "TransferFunds"
  <2>1. out = Transfer(d, c)
    BY <1>1, <1>5 DEF CallService
  <2>2. TransferError(d, c) = None
    BY <1>1, <2>1 DEF Transfer, Fails
  <2>3. c.account \in DOMAIN d.accounts /\ c.toAccount \in DOMAIN d.accounts
    BY <2>2, TransferFindsAccounts
  <2>4. /\ DOMAIN out.db.accounts = DOMAIN d.accounts
        /\ out.db.accounts[c.account].balance = Plus(d.accounts[c.account].balance, Negative(c.amount))
    BY <1>5, <2>1, <2>2, TransferMovesMoney
  <2>5. out.value = Plus(d.accounts[c.account].balance, Negative(c.amount))
    BY <2>1, <2>2 DEF Transfer, Returns
  <2> QED BY <1>1, <1>o, <2>3, <2>4, <2>5
<1> QED BY <1>3, <1>4, <1>5

LEMMA NothingFits == Fits(0)
<1> DEFINE P == {n \in 0 .. 8 : Numbers[n] >= 1}
<1>1. 0 \in P
  BY NumbersAre
<1>2. ASSUME NEW k \in 1 .. 8, k - 1 \in P PROVE k \in P
  <2>1. \A x \in Nat : x >= 1 => Octets * x >= 1
    BY OctetAssumption
  <2>2. Numbers[k - 1] \in Nat /\ Numbers[k - 1] >= 1 /\ Numbers[k] = Octets * Numbers[k - 1]
    BY <1>2, NumbersAre
  <2> QED BY <2>1, <2>2
<1>3. 0 .. 8 \subseteq P
  <2> HIDE DEF P
  <2>1. 8 \in Nat
    OBVIOUS
  <2> QED BY <1>1, <1>2, <2>1, InductionUpTo
<1>4. Numbers[7] >= 1 /\ Numbers[7] \in Nat
  <2>1. 7 \in 0 .. 8
    OBVIOUS
  <2> QED BY <1>3, <2>1, NumbersAre
<1> HIDE DEF P
<1>5. 0 < Numbers[7] /\ -0 < Numbers[7]
  BY ONLY <1>4
<1> QED BY <1>5 DEF Fits

\* The updates of a command are one after another, of their types, and their balances are
\* the command's amount, nothing, or balances of the bank.
LEMMA UpdatesAre ==
  ASSUME NEW d, IsDatabase(d), NEW c \in Commands
  PROVE  LET out == Outcome(d, c)
             updates == UpdatesOf(c, out)
         IN /\ updates \in Seq(Updates) /\ DOMAIN updates = 1 .. Len(updates)
            /\ (\A a \in DOMAIN out.db.accounts : Fits(out.db.accounts[a].balance)) =>
                 \A i \in 1 .. Len(updates) : Fits(updates[i].balance)
<1>c. WellFormed(c) /\ WellTyped(c) /\ ("amount" \in DOMAIN c => Fits(c.amount))
  BY CommandAssumption
<1>o. PICK out : out = Outcome(d, c)
  OBVIOUS
<1>u. PICK updates : updates = UpdatesOf(c, out)
  OBVIOUS
<1>1. \A k \in DOMAIN updates : updates[k] \in Updates
  BY <1>c, <1>o, <1>u, UpdatesTyped
<1>2. c.service \in Services /\ RequiredFields[c.service] \subseteq DOMAIN c
  BY <1>c DEF WellFormed
<1> DEFINE Fit(x) == (\A a \in DOMAIN out.db.accounts : Fits(out.db.accounts[a].balance)) => Fits(x.balance)
           Goal == /\ updates \in Seq(Updates) /\ DOMAIN updates = 1 .. Len(updates)
                   /\ \A i \in 1 .. Len(updates) : Fit(updates[i])
<1>3. ASSUME updates = <<>> PROVE Goal
  <2>1. <<>> \in Seq(Updates) /\ Len(<<>>) = 0 /\ DOMAIN <<>> = 1 .. 0
    BY EmptySeq
  <2> HIDE DEF Fit
  <2> QED BY <1>3, <2>1
<1>4. ASSUME NEW x, updates = <<x>>, Fit(x) PROVE Goal
  <2>1. DOMAIN updates = {1} /\ updates[1] = x /\ Len(updates) = 1
    BY <1>4
  <2>2. x \in Updates
    BY <1>1, <2>1
  <2> HIDE DEF Fit
  <2> QED BY <1>4, <2>1, <2>2
<1>5. ASSUME NEW x, NEW y, updates = <<x, y>>, Fit(x), Fit(y) PROVE Goal
  <2>1. DOMAIN updates = 1 .. 2 /\ updates[1] = x /\ updates[2] = y /\ Len(updates) = 2
    BY <1>5
  <2>2. x \in Updates /\ y \in Updates
    BY <1>1, <2>1
  <2> HIDE DEF Fit
  <2> QED BY <1>5, <2>1, <2>2
<1>6. Goal
  <2> HIDE DEF Goal
  <2>1. CASE out.err # None
    BY <1>3, <1>u, <2>1 DEF UpdatesOf
  <2>2. CASE out.err = None /\ c.service = "OpenAccount"
    <3>1. "amount" \in DOMAIN c
      BY <1>2, <2>2 DEF RequiredFields
    <3>x. PICK x : x = AccountUpdate(c, out.value, c.name, c.currency, c.amount)
      OBVIOUS
    <3>2. updates = <<x>>
      BY <1>u, <2>2, <3>x DEF UpdatesOf
    <3>3. Fit(x)
      BY <1>c, <3>1, <3>x DEF AccountUpdate
    <3> QED BY <1>4, <3>2, <3>3
  <2>3. CASE out.err = None /\ c.service = "CloseAccount"
    <3>x. PICK x : x = AccountUpdate(c, c.account, c.name, NoCurrency, 0)
      OBVIOUS
    <3>2. updates = <<x>>
      BY <1>u, <2>3, <3>x DEF UpdatesOf
    <3>3. Fit(x)
      BY <3>x, NothingFits DEF AccountUpdate
    <3> QED BY <1>4, <3>2, <3>3
  <2>4. CASE out.err = None /\ c.service \in {"Deposit", "Withdraw"}
    <3>x. PICK x : x = AccountUpdate(c, c.account, c.name, c.currency, out.value)
      OBVIOUS
    <3>1. c.account \in DOMAIN out.db.accounts /\ out.value = out.db.accounts[c.account].balance
      BY <1>c, <1>o, <2>4, ValueIsBalance
    <3>2. updates = <<x>>
      BY <1>u, <2>4, <3>x DEF UpdatesOf
    <3>3. Fit(x)
      BY <3>1, <3>x DEF AccountUpdate
    <3> QED BY <1>4, <3>2, <3>3
  <2>5. CASE out.err = None /\ c.service = "TransferFunds"
    <3>x. PICK x : x = AccountUpdate(c, c.account, c.name, NoCurrency, out.value)
      OBVIOUS
    <3>y. PICK y : y = AccountUpdate(c, c.toAccount, c.toName, NoCurrency, out.db.accounts[c.toAccount].balance)
      OBVIOUS
    <3>1. /\ c.account \in DOMAIN out.db.accounts /\ out.value = out.db.accounts[c.account].balance
          /\ c.toAccount \in DOMAIN out.db.accounts
      BY <1>c, <1>o, <2>5, ValueIsBalance
    <3>2. updates = <<x, y>>
      BY <1>u, <2>5, <3>x, <3>y DEF UpdatesOf
    <3>3. Fit(x) /\ Fit(y)
      BY <3>1, <3>x, <3>y DEF AccountUpdate
    <3> QED BY <1>5, <3>2, <3>3
  <2>6. CASE out.err = None /\ c.service \in {"GetBalance", "Monitor"}
    <3>1. updates = <<>>
      BY <1>u, <2>6 DEF UpdatesOf
    <3> QED BY <1>3, <3>1
  <2> QED BY <1>2, <2>1, <2>2, <2>3, <2>4, <2>5, <2>6 DEF Services, RequiredFields
<1> QED BY <1>6, <1>o, <1>u

\* What the server does with the request under way is what the command means, and on the
\* store with passwords of fixed size.
LEMMA ServedAsMeant ==
  ASSUME BankInv, stage = "Request"
  PROVE  LET q == RequestIn(Read(datagram))
             out == Outcome(db, q)
         IN /\ IsDatabase(Meant.db)
            /\ out = [db |-> Fixed(Meant.db), err |-> Meant.err, value |-> Meant.value]
            /\ UpdatesOf(q, out) = UpdatesOf(cmd, Meant)
            /\ Meant.err = None => Meant = Outcome(bank, cmd) /\ q = FixedCommand(cmd)
            /\ ParseHeader(Read(datagram)).id \in Nat
<1>q. PICK q : q = RequestIn(Read(datagram))
  OBVIOUS
<1>1. IsDatabase(bank) /\ db = Fixed(bank) /\ cmd \in Commands /\ calls \in Nat
      /\ datagram = Serialize(calls, EncodeMessage(cmd))
  BY DEF BankInv
<1>2. WellFormed(cmd) /\ WellTyped(cmd)
  BY <1>1, CommandAssumption
<1>3. /\ Len(datagram) \in Nat
      /\ Len(datagram) <= BufSize => q = FixedCommand(cmd)
      /\ Len(datagram) > BufSize => ~WellFormed(q)
      /\ ParseHeader(Read(datagram)).id \in Nat
  BY <1>1, <1>q, RequestRead
<1>m. PICK m : m = Meant
  OBVIOUS
<1>4. CASE Len(datagram) <= BufSize
  <2>1. m = Outcome(bank, cmd) /\ q = FixedCommand(cmd)
    BY <1>3, <1>4, <1>m DEF Meant
  <2>2. IsDatabase(m.db)
    BY <1>1, <1>2, <2>1, OutcomeTyped
  <2>3. Outcome(db, q) = [db |-> Fixed(m.db), err |-> m.err, value |-> m.value]
    BY <1>1, <1>2, <2>1, OutcomeFixed
  <2>4. UpdatesOf(q, Outcome(db, q)) = UpdatesOf(cmd, m)
    BY <1>1, <1>2, <2>1, UpdatesFixed
  <2> QED BY <1>3, <1>m, <1>q, <2>1, <2>2, <2>3, <2>4
<1>5. CASE ~(Len(datagram) <= BufSize)
  <2>1. Len(datagram) > BufSize
    BY <1>3, <1>5, BufferAssumption
  <2>2. m = Fails(bank, "ErrMalformed") /\ Outcome(db, q) = Fails(Fixed(bank), "ErrMalformed")
    BY <1>1, <1>3, <1>5, <1>m, <2>1 DEF Meant, Outcome
  <2>3. m.db = bank /\ m.err = "ErrMalformed" /\ m.err # None /\ m.value = 0
    BY <2>2 DEF Fails, None
  <2>4. Outcome(db, q) = [db |-> Fixed(m.db), err |-> m.err, value |-> m.value]
    BY <2>2, <2>3 DEF Fails
  <2>5. UpdatesOf(q, Outcome(db, q)) = UpdatesOf(cmd, m)
    BY <2>3, <2>4 DEF UpdatesOf
  <2> QED BY <1>1, <1>3, <1>m, <1>q, <2>3, <2>4, <2>5
<1> QED BY <1>4, <1>5

LEMMA BankInvInit == Init => BankInv
<1> SUFFICES ASSUME Init PROVE BankInv
  OBVIOUS
<1>1. IsDatabase(EmptyDatabase)
  BY UintAssumption DEF IsDatabase, EmptyDatabase, Uint32
<1>2. Fixed(EmptyDatabase) = EmptyDatabase
  BY DEF Fixed, EmptyDatabase
<1> QED BY <1>1, <1>2 DEF Init, BankInv

LEMMA BankInvNext == BankInv /\ [Next]_vars => BankInv'
<1> SUFFICES ASSUME BankInv, [Next]_vars PROVE BankInv'
  OBVIOUS
<1>0. IsDatabase(bank) /\ db = Fixed(bank) /\ calls \in Nat
  BY DEF BankInv
<1>1. ASSUME NEW c \in Commands, Send(c) PROVE BankInv'
  <2>1. /\ bank' = bank /\ db' = db /\ calls' = calls + 1 /\ cmd' = c
        /\ datagram' = Serialize(calls + 1, EncodeMessage(c))
    BY <1>1 DEF Send
  <2>2. calls + 1 \in Nat
    BY <1>0
  <2>3. IsDatabase(bank') /\ db' = Fixed(bank')
    BY <1>0, <2>1
  <2> QED BY <2>1, <2>2, <2>3 DEF BankInv
<1>2. CASE Serve
  <2>1. /\ IsDatabase(Meant.db)
        /\ Outcome(db, RequestIn(Read(datagram))) = [db |-> Fixed(Meant.db), err |-> Meant.err, value |-> Meant.value]
    BY <1>2, ServedAsMeant DEF Serve
  <2>2. /\ bank' = Meant.db /\ db' = Outcome(db, RequestIn(Read(datagram))).db
        /\ calls' = calls /\ stage' = "Reply"
    BY <1>2 DEF Serve
  <2>3. IsDatabase(bank') /\ db' = Fixed(bank')
    BY <2>1, <2>2
  <2> QED BY <1>0, <2>2, <2>3 DEF BankInv
<1>3. CASE Show
  BY <1>0, <1>3 DEF Show, BankInv
<1>4. CASE Hear
  BY <1>0, <1>4 DEF Hear, BankInv
<1>5. CASE Enter
  BY <1>0, <1>5 DEF Enter, BankInv
<1>6. CASE UNCHANGED vars
  BY <1>6 DEF vars, BankInv
<1> QED BY <1>1, <1>2, <1>3, <1>4, <1>5, <1>6 DEF Next

\* Whatever the commands, the store is what they make of it: every field that the client
\* encodes is decoded as it was, and what is cut is not executed (encode_message,
\* DecodeTLV, handler.go).
THEOREM RequestsReachTheBank == Spec => []CommandsReachTheBank
<1>1. BankInv => CommandsReachTheBank
  BY DEF BankInv, CommandsReachTheBank
<1> QED BY <1>1, BankInvInit, BankInvNext, PTL DEF Spec

\* What the server can report of the request under way, the reply carries.
LEMMA ServedReportable ==
  ASSUME BankInv, Serve, BalancesFit'
  PROVE  LET q == RequestIn(Read(datagram))
             out == Outcome(db, q)
         IN Reportable(q, out) /\ Reported(q, out) = Reported(cmd, Meant)
<1>q. PICK q : q = RequestIn(Read(datagram))
  OBVIOUS
<1>o. PICK out : out = Outcome(db, q)
  OBVIOUS
<1>m. PICK m : m = Meant
  OBVIOUS
<1>1. stage = "Request" /\ bank' = m.db
  BY <1>m DEF Serve
<1>2. /\ out.err = m.err /\ out.value = m.value
      /\ m.err = None => m = Outcome(bank, cmd) /\ q = FixedCommand(cmd)
  BY <1>1, <1>m, <1>o, <1>q, ServedAsMeant
<1>3. CASE m.err # None
  <2>1. Reportable(q, out)
    BY <1>2, <1>3 DEF Reportable
  <2>2. Reported(q, out) = Reported(cmd, m)
    BY <1>2, <1>3 DEF Reported
  <2> QED BY <1>m, <1>o, <1>q, <2>1, <2>2
<1>4. CASE m.err = None
  <2>1. IsDatabase(bank) /\ cmd \in Commands
    BY <1>1 DEF BankInv
  <2>2. WellFormed(cmd) /\ WellTyped(cmd)
    BY <2>1, CommandAssumption
  <2>3. "service" \in DOMAIN cmd /\ cmd.service \in Services
    BY <2>2 DEF WellFormed
  <2>4. q.service = cmd.service
    BY <1>2, <1>4, <2>3, FixedFields
  <2>5. m = Outcome(bank, cmd)
    BY <1>2, <1>4
  <2>6. cmd.service = "OpenAccount" => m.value \in Uint32
    <3>1. ASSUME cmd.service = "OpenAccount" PROVE m = OpenAccount(bank, cmd)
      BY <2>2, <2>5, <3>1 DEF Outcome, CallService
    <3>2. bank.nextID \in Uint32
      BY <2>1, DatabaseFields
    <3> QED BY <3>1, <3>2 DEF OpenAccount, Returns
  <2>7. ASSUME cmd.service \in {"Deposit", "Withdraw", "GetBalance", "TransferFunds"}
        PROVE  m.value \in Money /\ Fits(m.value)
    <3>1. m.value \in Money /\ cmd.account \in DOMAIN m.db.accounts /\ m.value = m.db.accounts[cmd.account].balance
      BY <1>4, <2>1, <2>2, <2>5, <2>7, ValueIsBalance
    <3>2. \A a \in DOMAIN m.db.accounts : Fits(m.db.accounts[a].balance)
      BY <1>1 DEF BalancesFit
    <3> QED BY <3>1, <3>2
  <2>8. Reportable(q, out)
    BY <1>2, <2>3, <2>4, <2>6, <2>7 DEF Reportable
  <2>9. Reported(q, out) = Reported(cmd, m)
    BY <1>2, <2>4 DEF Reported
  <2> QED BY <1>m, <1>o, <1>q, <2>8, <2>9
<1> QED BY <1>3, <1>4

LEMMA ReplyInvNext == BankInv /\ BalancesFit' /\ ReplyInv /\ [Next]_vars => ReplyInv'
<1> SUFFICES ASSUME BankInv, BalancesFit', ReplyInv, [Next]_vars PROVE ReplyInv'
  OBVIOUS
<1>1. ASSUME NEW c \in Commands, Send(c) PROVE ReplyInv'
  BY <1>1 DEF Send, ReplyInv
<1>2. CASE Serve
  <2>q. PICK q : q = RequestIn(Read(datagram))
    OBVIOUS
  <2>o. PICK out : out = Outcome(db, q)
    OBVIOUS
  <2>i. PICK id : id = ParseHeader(Read(datagram)).id
    OBVIOUS
  <2>1. Reportable(q, out) /\ Reported(q, out) = Reported(cmd, Meant)
    BY <1>2, <2>o, <2>q, ServedReportable
  <2>2. id \in Nat
    BY <1>2, <2>i, ServedAsMeant DEF Serve
  <2>3. ScreenOf(ReplyOf(id, q, out)) = Reported(q, out)
    BY <2>1, <2>2, ReplyRead
  <2>4. datagram' = ReplyOf(id, q, out) /\ cmd' = cmd /\ due'.out = Meant /\ stage' = "Reply"
    BY <1>2, <2>i, <2>o, <2>q DEF Serve
  <2>5. (ScreenOf(datagram) = Reported(cmd, due.out))'
    BY <2>1, <2>3, <2>4
  <2> QED BY <2>4, <2>5 DEF ReplyInv
<1>3. CASE Show
  <2>1. screen' = ScreenOf(datagram) /\ stage = "Reply" /\ stage' = "Shown" /\ cmd' = cmd /\ due' = due
    BY <1>3 DEF Show, ScreenOf
  <2> QED BY <2>1 DEF ReplyInv
<1>4. CASE Hear
  BY <1>4 DEF Hear, ReplyInv
<1>5. CASE Enter
  BY <1>5 DEF Enter, ReplyInv
<1>6. CASE UNCHANGED vars
  BY <1>6 DEF vars, ReplyInv
<1> QED BY <1>1, <1>2, <1>3, <1>4, <1>5, <1>6 DEF Next

\* As long as the balances fit a double, the user is shown the outcome of every command,
\* error or value (BuildReply, deserialize, decode_command).
THEOREM RepliesReachTheUser == Spec /\ []BalancesFit => []OutcomesReachTheUser
<1>1. Init => ReplyInv
  BY DEF Init, ReplyInv
<1>2. ReplyInv => OutcomesReachTheUser
  BY DEF ReplyInv, OutcomesReachTheUser, Reported
<1> QED BY <1>1, <1>2, BankInvInit, BankInvNext, ReplyInvNext, PTL DEF Spec

\* What is sent is what will be read, and one more update heard is one more printed.
LEMMA HearOne ==
  ASSUME NEW updates \in Seq(Updates), \A i \in 1 .. Len(updates) : Fits(updates[i].balance),
         NEW n \in 0 .. Len(updates), Told(n, updates), callbacks # <<>>
  PROVE  /\ n + 1 \in 0 .. Len(updates)
         /\ Append(notices, DecodeCallback(Head(callbacks))) = SubSeq(updates, 1, n + 1)
         /\ Tail(callbacks) = [i \in 1 .. Len(updates) - (n + 1) |-> MarshalCallbackUpdate(updates[(n + 1) + i])]
<1>l. PICK l : l = Len(updates)
  OBVIOUS
<1>0. l \in Nat /\ n \in 0 .. l
  BY <1>l, LenProperties
<1>1. callbacks = [i \in 1 .. l - n |-> MarshalCallbackUpdate(updates[n + i])]
  BY <1>l DEF Told
<1>m. PICK m : m = l - n
  OBVIOUS
<1>S. PICK S : S = {callbacks[i] : i \in 1 .. m}
  OBVIOUS
<1>2. callbacks \in Seq(S) /\ Len(callbacks) = l - n
  <2>1. m \in Nat
    BY ONLY <1>0, <1>m
  <2>2. callbacks \in [1 .. m -> S]
    BY <1>1, <1>S, <1>m
  <2>3. callbacks \in Seq(S) /\ Len(callbacks) = m
    BY <2>1, <2>2
  <2> QED BY <1>m, <2>3
<1>3. n + 1 \in 0 .. l /\ n + 1 \in 1 .. l /\ n \in Nat /\ l - n \in Nat /\ l - n # 0
  <2>1. l - n # 0
    <3>1. ASSUME l - n = 0 PROVE FALSE
      BY <1>2, <3>1, EmptySeq
    <3> QED BY <3>1
  <2> QED BY ONLY <1>0, <2>1
<1>4. Head(callbacks) = MarshalCallbackUpdate(updates[n + 1])
  <2>1. 1 \in 1 .. l - n
    BY ONLY <1>3
  <2>2. Head(callbacks) = callbacks[1]
    BY <1>2, <1>3, HeadTailProperties
  <2> QED BY <1>1, <2>1, <2>2
<1>5. DecodeCallback(Head(callbacks)) = updates[n + 1]
  <2>1. updates[n + 1] \in Updates /\ Fits(updates[n + 1].balance)
    BY <1>3, <1>l, ElementOfSeq
  <2> QED BY <1>4, <2>1, CallbackRead
<1>6. Append(SubSeq(updates, 1, n), updates[n + 1]) = SubSeq(updates, 1, n + 1)
  <2>s. PICK s : s = SubSeq(updates, 1, n)
    OBVIOUS
  <2>1. s \in Seq(Updates) /\ Len(s) = n /\ \A i \in 1 .. n : s[i] = updates[i]
    BY <1>0, <1>l, <2>s
  <2>t. PICK t : t = SubSeq(updates, 1, n + 1)
    OBVIOUS
  <2>2. t \in Seq(Updates) /\ Len(t) = n + 1 /\ \A i \in 1 .. n + 1 : t[i] = updates[i]
    BY <1>0, <1>3, <1>l, <2>t
  <2>3. updates[n + 1] \in Updates
    BY <1>3, <1>l, ElementOfSeq
  <2>a. PICK a : a = Append(s, updates[n + 1])
    OBVIOUS
  <2>4. a \in Seq(Updates) /\ Len(a) = n + 1 /\ (\A i \in 1 .. n : a[i] = s[i]) /\ a[n + 1] = updates[n + 1]
    BY <2>1, <2>3, <2>a, AppendProperties
  <2>5. \A i \in 1 .. n + 1 : a[i] = t[i]
    <3>1. \A i \in 1 .. n + 1 : i \in 1 .. n \/ i = n + 1
      BY ONLY <1>3
    <3>2. n + 1 \in 1 .. n + 1
      BY ONLY <1>3
    <3> QED BY <2>1, <2>2, <2>4, <3>1, <3>2
  <2>6. a = t
    BY <2>2, <2>4, <2>5, SeqEqual
  <2> QED BY <2>6, <2>a, <2>s, <2>t
<1>7. Tail(callbacks) = [i \in 1 .. l - (n + 1) |-> MarshalCallbackUpdate(updates[(n + 1) + i])]
  <2>1. Tail(callbacks) = [i \in 1 .. Len(callbacks) - 1 |-> callbacks[i + 1]]
    <3>t. PICK t : t = Tail(callbacks)
      OBVIOUS
    <3>1. t \in Seq(S) /\ Len(t) = Len(callbacks) - 1 /\ \A i \in 1 .. Len(t) : t[i] = callbacks[i + 1]
      BY <1>2, <3>t, HeadTailProperties
    <3>2. t = [i \in 1 .. Len(t) |-> t[i]]
      BY <3>1, LenProperties
    <3> QED BY <3>1, <3>2, <3>t
  <2>2. Len(callbacks) - 1 = l - (n + 1)
    BY ONLY <1>2, <1>3, <1>0
  <2>3. \A i \in 1 .. l - (n + 1) : i + 1 \in 1 .. l - n /\ n + (i + 1) = (n + 1) + i
    BY ONLY <1>0, <1>3
  <2>4. \A i \in 1 .. l - (n + 1) : callbacks[i + 1] = MarshalCallbackUpdate(updates[(n + 1) + i])
    BY <1>1, <2>3
  <2> QED BY <2>1, <2>2, <2>4
<1>8. notices = SubSeq(updates, 1, n)
  BY DEF Told
<1> QED BY <1>3, <1>5, <1>6, <1>7, <1>8, <1>l

LEMMA UpdatesInvNext == BankInv /\ BalancesFit' /\ UpdatesInv /\ [Next]_vars => UpdatesInv'
<1> SUFFICES ASSUME BankInv, BalancesFit', UpdatesInv, [Next]_vars PROVE UpdatesInv'
  OBVIOUS
<1>1. ASSUME NEW c \in Commands, Send(c) PROVE UpdatesInv'
  BY <1>1 DEF Send, UpdatesInv
<1>2. CASE Serve
  <2>q. PICK q : q = RequestIn(Read(datagram))
    OBVIOUS
  <2>m. PICK m : m = Meant
    OBVIOUS
  <2>u. PICK u : u = UpdatesOf(cmd, m)
    OBVIOUS
  <2>1. /\ UpdatesOf(q, Outcome(db, q)) = u
        /\ m.err = None => m = Outcome(bank, cmd)
    BY <1>2, <2>m, <2>q, <2>u, ServedAsMeant DEF Serve
  <2>2. /\ stage' = "Reply" /\ notices' = notices /\ due'.updates = u /\ bank' = m.db
        /\ callbacks' = [i \in DOMAIN u |-> MarshalCallbackUpdate(u[i])]
    BY <1>2, <2>1, <2>m, <2>q, <2>u DEF Serve
  <2>3. notices = <<>>
    BY <1>2 DEF Serve, UpdatesInv
  <2>4. u \in Seq(Updates) /\ DOMAIN u = 1 .. Len(u) /\ \A i \in 1 .. Len(u) : Fits(u[i].balance)
    <3>1. CASE m.err # None
      <4>1. u = <<>>
        BY <2>u, <3>1 DEF UpdatesOf
      <4>2. <<>> \in Seq(Updates) /\ Len(<<>>) = 0 /\ DOMAIN <<>> = 1 .. 0
        BY EmptySeq
      <4>3. \A i : i \notin 1 .. 0
        OBVIOUS
      <4> QED BY <4>1, <4>2, <4>3
    <3>2. CASE m.err = None
      <4>1. IsDatabase(bank) /\ cmd \in Commands
        BY <1>2 DEF Serve, BankInv
      <4>2. \A a \in DOMAIN m.db.accounts : Fits(m.db.accounts[a].balance)
        BY <2>2 DEF BalancesFit
      <4>3. m = Outcome(bank, cmd)
        BY <2>1, <3>2
      <4> QED BY <2>u, <4>1, <4>2, <4>3, UpdatesAre
    <3> QED BY <3>1, <3>2
  <2>5. Told(0, u)'
    <3>1. notices' = SubSeq(u, 1, 0)
      <4>1. \A w : SubSeq(w, 1, 0) = <<>>
        BY SubSeqEmpty
      <4> QED BY <2>2, <2>3, <4>1
    <3>2. Len(u) \in Nat
      BY <2>4, LenProperties
    <3>3. Len(u) - 0 = Len(u) /\ \A i \in 1 .. Len(u) : 0 + i = i
      BY <3>2
    <3>4. callbacks' = [i \in 1 .. Len(u) - 0 |-> MarshalCallbackUpdate(u[0 + i])]
      BY <2>2, <2>4, <3>3
    <3> QED BY <3>1, <3>4 DEF Told
  <2>6. 0 \in 0 .. Len(u)
    BY <2>4, LenProperties
  <2>7. Told(0, due.updates)'
    BY <2>2, <2>5 DEF Told
  <2>8. (due.updates \in Seq(Updates) /\ \A i \in 1 .. Len(due.updates) : Fits(due.updates[i].balance))'
    BY <2>2, <2>4
  <2>9. (\E n \in 0 .. Len(due.updates) : Told(n, due.updates))'
    BY <2>2, <2>6, <2>7
  <2> QED BY <2>2, <2>3, <2>8, <2>9 DEF UpdatesInv
<1>3. CASE Show
  BY <1>3 DEF Show, UpdatesInv, Told
<1>4. CASE Hear
  <2>1. /\ stage = "Shown" /\ stage' = "Shown" /\ due' = due /\ callbacks # <<>>
        /\ notices' = Append(notices, DecodeCallback(Head(callbacks))) /\ callbacks' = Tail(callbacks)
    BY <1>4 DEF Hear
  <2>u. PICK u : u = due.updates
    OBVIOUS
  <2>2. u \in Seq(Updates) /\ \A i \in 1 .. Len(u) : Fits(u[i].balance)
    BY <2>1, <2>u DEF UpdatesInv
  <2>3. PICK n \in 0 .. Len(u) : Told(n, u)
    BY <2>1, <2>u DEF UpdatesInv
  <2>4. /\ n + 1 \in 0 .. Len(u)
        /\ Append(notices, DecodeCallback(Head(callbacks))) = SubSeq(u, 1, n + 1)
        /\ Tail(callbacks) = [i \in 1 .. Len(u) - (n + 1) |-> MarshalCallbackUpdate(u[(n + 1) + i])]
    BY <2>1, <2>2, <2>3, HearOne
  <2>5. Told(n + 1, u)'
    BY <2>1, <2>4 DEF Told
  <2>6. due'.updates = u
    BY <2>1, <2>u
  <2>7. (\E k \in 0 .. Len(due.updates) : Told(k, due.updates))'
    BY <2>4, <2>5, <2>6 DEF Told
  <2> QED BY <2>1, <2>2, <2>6, <2>7 DEF UpdatesInv
<1>5. CASE Enter
  BY <1>5 DEF Enter, UpdatesInv
<1>6. CASE UNCHANGED vars
  BY <1>6 DEF vars, UpdatesInv, Told
<1> QED BY <1>1, <1>2, <1>3, <1>4, <1>5, <1>6 DEF Next

\* As long as the balances fit a double, a monitoring client prints the updates of every
\* command, all of them, in their order and with their values (MarshalCallbackUpdate,
\* CallbackEncoder).
THEOREM CallbacksReachTheMonitor == Spec /\ []BalancesFit => []UpdatesReachTheMonitor
<1>1. Init => UpdatesInv
  BY DEF Init, UpdatesInv
<1>2. ASSUME UpdatesInv PROVE UpdatesReachTheMonitor
  <2>1. SUFFICES ASSUME stage = "Shown" PROVE /\ notices = SubSeq(due.updates, 1, Len(notices))
                                              /\ Len(notices) + Len(callbacks) = Len(due.updates)
    BY DEF UpdatesReachTheMonitor
  <2>u. PICK u : u = due.updates
    OBVIOUS
  <2>2. u \in Seq(Updates) /\ \E n \in 0 .. Len(u) : Told(n, u)
    BY <1>2, <2>1, <2>u DEF UpdatesInv
  <2>3. PICK n \in 0 .. Len(u) : Told(n, u)
    BY <2>2
  <2>4. Len(u) \in Nat
    BY <2>2, LenProperties
  <2>l. PICK l : l = Len(u)
    OBVIOUS
  <2>5. notices = SubSeq(u, 1, n) /\ callbacks = [i \in 1 .. l - n |-> MarshalCallbackUpdate(u[n + i])]
    BY <2>3, <2>l DEF Told
  <2>6. Len(notices) = n
    BY <2>2, <2>4, <2>5
  <2>7. Len(callbacks) = l - n
    BY <2>4, <2>5, <2>l
  <2>8. n + (l - n) = l
    BY <2>4, <2>l
  <2> QED BY <2>5, <2>6, <2>7, <2>8, <2>l, <2>u
<1> QED BY <1>1, <1>2, BankInvInit, BankInvNext, UpdatesInvNext, PTL DEF Spec
=============================================================================
