--------------------------- MODULE Recursion_proofs ---------------------------
(***************************************************************************)
(* Induction over numbers and over finite sets, and what a recursive       *)
(* function is.  The sets stand for what is to be proved of their          *)
(* elements, and the function arguments for the steps of a recursion: so   *)
(* each fact can be cited where operators as arguments could not.          *)
(***************************************************************************)
EXTENDS Integers, FiniteSets, FiniteSetTheorems, TLAPS

\* A set that has 0 and with each number the next one has all numbers.
LEMMA NumberInduction ==
  ASSUME NEW P, 0 \in P, \A n \in Nat : n \in P => n + 1 \in P
  PROVE  Nat \subseteq P
<1> DEFINE Missing == Nat \ P
<1>1. ASSUME Missing # {} PROVE FALSE
  <2>1. PICK m \in Missing : \A n \in Missing : <<n, m>> \notin OpToRel(<, Nat)
    <3> HIDE DEF Missing
    <3>1. Missing \subseteq Nat
      BY DEF Missing
    <3> QED BY <1>1, <3>1, NatLessThanWellFounded, WFMin
  <2>2. m \in Nat /\ m \notin P /\ m # 0
    OBVIOUS
  <2>3. m - 1 \in Nat /\ (m - 1) + 1 = m
    BY <2>2
  <2>4. <<m - 1, m>> \in OpToRel(<, Nat)
    BY <2>2, <2>3 DEF OpToRel
  <2>5. m - 1 \notin P
    BY <2>2, <2>3
  <2> QED BY <2>1, <2>3, <2>4, <2>5
<1> QED BY <1>1

\* A set of sets that has a part of S whenever it has all smaller ones within it, has all
\* parts of the finite set S.
LEMMA PartInduction ==
  ASSUME NEW S, IsFiniteSet(S), NEW P,
         \A T \in SUBSET S : (\A U \in SUBSET T : U # T => U \in P) => T \in P
  PROVE  SUBSET S \subseteq P
<1> DEFINE Missing == (SUBSET S) \ P
<1>1. ASSUME Missing # {} PROVE FALSE
  <2>1. Missing \subseteq FiniteSubsetsOf(S)
    BY FS_FiniteSubsetsOfFinite
  <2>2. PICK M \in Missing : \A T \in Missing : <<T, M>> \notin StrictSubsetOrdering(S)
    <3> HIDE DEF Missing
    <3> QED BY <1>1, <2>1, FS_StrictSubsetOrderingWellFounded, WFMin
  <2>3. ASSUME NEW U \in SUBSET M, U # M PROVE U \in P
    <3>1. U \in SUBSET S /\ <<U, M>> \in StrictSubsetOrdering(S)
      BY <2>3 DEF StrictSubsetOrdering
    <3> QED BY <2>2, <3>1
  <2>4. M \in SUBSET S /\ M \notin P
    OBVIOUS
  <2> HIDE DEF Missing
  <2> QED BY <2>3, <2>4
<1> QED BY <1>1

\* A set of sets that has the empty one, and with each part of S the part with one
\* element more, has the finite set S.
LEMMA SetInduction ==
  ASSUME NEW S, IsFiniteSet(S), NEW P, {} \in P,
         \A T \in SUBSET S : \A x \in S \ T : T \in P => T \cup {x} \in P
  PROVE  S \in P
<1>1. ASSUME NEW T \in SUBSET S, \A U \in SUBSET T : U # T => U \in P
      PROVE  T \in P
  <2>1. CASE T = {}
    BY <2>1
  <2>2. ASSUME NEW x \in T PROVE T \in P
    <3>1. T \ {x} \in P /\ T \ {x} \in SUBSET S /\ x \in S \ (T \ {x})
      BY <1>1
    <3>2. (T \ {x}) \cup {x} = T
      OBVIOUS
    <3> QED BY <3>1, <3>2
  <2> QED BY <2>1, <2>2
<1> QED BY <1>1, PartInduction

-----------------------------------------------------------------------------
(* Recursive functions. *)

\* f holds base and then the values that step makes of the one before, up to N.
Recursion(f, N, base, step) == \A n \in 0 .. N : f[n] = IF n = 0 THEN base ELSE step[f[n - 1]]

\* There is such a function.
LEMMA RecursionUpTo ==
  ASSUME NEW N \in Nat, NEW V, NEW base \in V, NEW step \in [V -> V]
  PROVE  \E f \in [0 .. N -> V] : Recursion(f, N, base, step)
<1> DEFINE Eq(f, n) == f[n] = IF n = 0 THEN base ELSE step[f[n - 1]]
           Exists == {m \in Nat : \E f \in [0 .. m -> V] : \A n \in 0 .. m : Eq(f, n)}
<1>1. 0 \in Exists
  <2> DEFINE f == [n \in 0 .. 0 |-> base]
  <2>1. f \in [0 .. 0 -> V] /\ \A n \in 0 .. 0 : n = 0 /\ f[n] = base
    OBVIOUS
  <2>2. \A n \in 0 .. 0 : Eq(f, n)
    BY <2>1
  <2> HIDE DEF f, Eq
  <2> QED BY <2>1, <2>2
<1>2. ASSUME NEW m \in Nat, m \in Exists PROVE m + 1 \in Exists
  <2>1. PICK f \in [0 .. m -> V] : \A n \in 0 .. m : Eq(f, n)
    BY <1>2
  <2> DEFINE g == [n \in 0 .. m + 1 |-> IF n = m + 1 THEN step[f[m]] ELSE f[n]]
  <2>2. g \in [0 .. m + 1 -> V]
    OBVIOUS
  <2>3. ASSUME NEW n \in 0 .. m + 1 PROVE Eq(g, n)
    <3>1. CASE n = m + 1
      BY <3>1
    <3>2. CASE n # m + 1
      BY <3>2, <2>1
    <3> QED BY <3>1, <3>2
  <2> HIDE DEF g
  <2> QED BY <2>2, <2>3
<1>3. Nat \subseteq Exists
  <2> HIDE DEF Exists
  <2> QED BY <1>1, <1>2, NumberInduction
<1> QED BY <1>3 DEF Recursion

\* f is a recursion over the parts of S: choose gives the element that is taken out next,
\* op makes of it and of the value for the rest the value for the part.
SetRecursion(f, S, base, choose, op) ==
  \A T \in SUBSET S : f[T] = IF T = {} THEN base ELSE op[<<choose[T], f[T \ {choose[T]}]>>]

\* There is such a function where S is finite.
LEMMA RecursionOverSet ==
  ASSUME NEW S, IsFiniteSet(S), NEW V, NEW base \in V,
         NEW choose, \A T \in SUBSET S : T # {} => choose[T] \in T,
         NEW op, \A x \in S : \A v \in V : op[<<x, v>>] \in V
  PROVE  \E f \in [SUBSET S -> V] : SetRecursion(f, S, base, choose, op)
<1> DEFINE Eq(f, T) == f[T] = IF T = {} THEN base ELSE op[<<choose[T], f[T \ {choose[T]}]>>]
           Parts(m) == {T \in SUBSET S : Cardinality(T) <= m}
           Exists == {m \in Nat : \E f \in [Parts(m) -> V] : \A T \in Parts(m) : Eq(f, T)}
<1>1. \A T \in SUBSET S : /\ IsFiniteSet(T)
                          /\ Cardinality(T) \in Nat
                          /\ Cardinality(T) <= Cardinality(S)
                          /\ Cardinality(T) = 0 <=> T = {}
  BY FS_Subset, FS_CardinalityType, FS_EmptySet
<1>2. \A T \in SUBSET S : T # {} => /\ T \ {choose[T]} \in SUBSET S
                                    /\ Cardinality(T \ {choose[T]}) = Cardinality(T) - 1
  BY <1>1, FS_RemoveElement
<1>3. 0 \in Exists
  <2>1. ASSUME NEW T \in Parts(0) PROVE T = {}
    <3>1. T \in SUBSET S /\ Cardinality(T) \in Nat /\ Cardinality(T) <= 0
      BY <1>1
    <3>2. Cardinality(T) = 0
      BY <3>1
    <3> QED BY <1>1, <3>1, <3>2
  <2> DEFINE f == [T \in Parts(0) |-> base]
  <2>2. f \in [Parts(0) -> V] /\ \A T \in Parts(0) : Eq(f, T)
    BY <2>1
  <2> HIDE DEF f, Parts
  <2> QED BY <2>2
<1>4. ASSUME NEW m \in Nat, m \in Exists PROVE m + 1 \in Exists
  <2>1. PICK f \in [Parts(m) -> V] : \A T \in Parts(m) : Eq(f, T)
    BY <1>4
  <2> DEFINE g == [T \in Parts(m + 1) |->
                     IF T \in Parts(m) THEN f[T] ELSE op[<<choose[T], f[T \ {choose[T]}]>>]]
  <2>2. ASSUME NEW T \in Parts(m + 1), T # {}
        PROVE  /\ T \ {choose[T]} \in Parts(m) /\ T \ {choose[T]} \in Parts(m + 1)
               /\ choose[T] \in S
               /\ f[T \ {choose[T]}] \in V
    <3> DEFINE R == T \ {choose[T]}
    <3>1. T \in SUBSET S /\ Cardinality(T) \in Nat /\ Cardinality(T) <= m + 1 /\ choose[T] \in T
      BY <1>1, <2>2
    <3>2. R \in SUBSET S /\ Cardinality(R) = Cardinality(T) - 1
      BY <1>2, <2>2, <3>1
    <3>3. Cardinality(R) <= m /\ Cardinality(R) <= m + 1
      <4> HIDE DEF R
      <4> QED BY <3>1, <3>2
    <3>4. R \in Parts(m) /\ R \in Parts(m + 1)
      BY <3>2, <3>3
    <3>5. f[R] \in V
      <4> HIDE DEF R, Parts
      <4> QED BY <3>4
    <3> QED BY <3>1, <3>4, <3>5
  <2>3. {} \in Parts(m)
    <3>1. Cardinality({}) <= m
      BY FS_EmptySet
    <3> QED BY <3>1
  <2> HIDE DEF Parts
  <2>4. g \in [Parts(m + 1) -> V]
    BY <2>2, <2>3
  <2>5. ASSUME NEW T \in Parts(m + 1) PROVE Eq(g, T)
    <3>1. CASE T = {}
      BY <3>1, <2>1, <2>3
    <3>2. CASE T # {}
      <4>1. g[T \ {choose[T]}] = f[T \ {choose[T]}]
        BY <2>2, <3>2
      <4>2. g[T] = op[<<choose[T], f[T \ {choose[T]}]>>]
        BY <2>1, <3>2
      <4> QED BY <4>1, <4>2, <3>2
    <3> QED BY <3>1, <3>2
  <2> HIDE DEF g
  <2> QED BY <2>4, <2>5
<1>5. Cardinality(S) \in Exists
  <2>1. Nat \subseteq Exists
    <3> HIDE DEF Exists
    <3> QED BY <1>3, <1>4, NumberInduction
  <2> QED BY <2>1, <1>1
<1>6. Parts(Cardinality(S)) = SUBSET S
  BY <1>1
<1>7. \E f \in [Parts(Cardinality(S)) -> V] : \A T \in Parts(Cardinality(S)) : Eq(f, T)
  BY <1>5
<1> HIDE DEF Parts
<1> QED BY <1>6, <1>7 DEF SetRecursion
=============================================================================
