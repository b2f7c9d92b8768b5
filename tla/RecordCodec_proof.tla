-------------------------- MODULE RecordCodec_proof --------------------------
(***************************************************************************)
(* For all files and arguments, of every length: what is stored can be     *)
(* read and found again.  The invariant says that every row is the buffer  *)
(* of the DTO last given for its id, under the key of that id.  The rest   *)
(* is about strings: a buffer takes apart into the strings it was written  *)
(* from, because no string of a DTO has a NUL once it is a C string, and a *)
(* line into its fields in the same way.                                   *)
(***************************************************************************)
EXTENDS RecordCodec, WellFoundedInduction, FiniteSetTheorems, SequenceTheorems, TLAPS

-----------------------------------------------------------------------------
(* Induction.  What holds for the least counterexample needs no operator   *)
(* as a parameter.                                                         *)

\* Induction over the naturals: a set has them all.
LEMMA NatInd ==
    ASSUME NEW S, 0 \in S, \A n \in Nat : n \in S => n + 1 \in S
    PROVE  Nat \subseteq S
<1> DEFINE R == OpToRel(<, Nat)
          T == Nat \ S
<1> SUFFICES ASSUME T # {} PROVE FALSE
  OBVIOUS
<1>1. IsWellFoundedOn(R, Nat)
  BY NatLessThanWellFounded
<1>2. PICK x \in T : \A y \in T : ~(<<y, x>> \in R)
  <2> HIDE DEF R
  <2> QED BY <1>1, WFMin
<1>3. x - 1 \in Nat /\ x - 1 \notin T
  <2>1. x \in Nat /\ x # 0
    OBVIOUS
  <2>2. x - 1 \in Nat /\ x - 1 < x
    BY <2>1
  <2>3. <<x - 1, x>> \in R
    BY <2>1, <2>2 DEF OpToRel
  <2>4. QED BY <2>2, <2>3, <1>2
<1>4. QED BY <1>3

\* Induction over the subsets of a finite set.
LEMMA SetInd ==
    ASSUME NEW S, IsFiniteSet(S), NEW F,
           \A T \in SUBSET S : (\A U \in SUBSET T : U # T => U \in F) => T \in F
    PROVE  S \in F
<1> DEFINE R == StrictSubsetOrdering(S)
          B == (SUBSET S) \ F
<1> SUFFICES ASSUME S \notin F PROVE FALSE
  OBVIOUS
<1>1. IsWellFoundedOn(R, FiniteSubsetsOf(S)) /\ FiniteSubsetsOf(S) = SUBSET S
  BY FS_StrictSubsetOrderingWellFounded, FS_FiniteSubsetsOfFinite
<1>2. PICK x \in B : \A y \in B : ~(<<y, x>> \in R)
  <2>1. B # {} /\ B \subseteq SUBSET S
    OBVIOUS
  <2> HIDE DEF R, B
  <2> QED BY <1>1, <2>1, WFMin
<1>3. \A U \in SUBSET x : U # x => U \in F
  BY <1>2 DEF StrictSubsetOrdering
<1>4. QED BY <1>2, <1>3

-----------------------------------------------------------------------------
(* Folds.                                                                  *)

\* h computes the fold over the subsets of T.
Steps(h, T, base, C, G) ==
    \A U \in SUBSET T : h[U] = IF U = {} THEN base ELSE G[<<C[U], h[U \ {C[U]}]>>]

\* Two functions that compute the same fold agree.
LEMMA StepsUnique ==
    ASSUME NEW T, IsFiniteSet(T), NEW base, NEW C, NEW G, NEW g, NEW h,
           \A U \in SUBSET T : U # {} => C[U] \in U,
           Steps(g, T, base, C, G), Steps(h, T, base, C, G)
    PROVE  g[T] = h[T]
<1> DEFINE F == {U \in SUBSET T : g[U] = h[U]}
<1>1. \A V \in SUBSET T : (\A U \in SUBSET V : U # V => U \in F) => V \in F
  <2> SUFFICES ASSUME NEW V \in SUBSET T, \A U \in SUBSET V : U # V => U \in F, V # {}
               PROVE  g[V] = h[V]
    BY DEF Steps
  <2>1. V \ {C[V]} \in F
    OBVIOUS
  <2>2. g[V \ {C[V]}] = h[V \ {C[V]}]
    BY <2>1
  <2>3. g[V] = G[<<C[V], g[V \ {C[V]}]>>] /\ h[V] = G[<<C[V], h[V \ {C[V]}]>>]
    BY DEF Steps
  <2>4. QED BY <2>2, <2>3
<1> HIDE DEF F
<1>2. T \in F
  BY <1>1, SetInd
<1>3. QED BY <1>2 DEF F

\* A fold over a finite set has a value.
LEMMA StepsExist ==
    ASSUME NEW S, IsFiniteSet(S), NEW B, NEW base \in B, NEW C, NEW G \in [S \X B -> B],
           \A U \in SUBSET S : U # {} => C[U] \in U
    PROVE  \E h \in [SUBSET S -> B] : Steps(h, S, base, C, G)
<1> DEFINE Fold(h, T) == h \in [SUBSET T -> B] /\ Steps(h, T, base, C, G)
          F == {T \in SUBSET S : \E h : Fold(h, T)}
<1>1. ASSUME NEW T \in SUBSET S, \A U \in SUBSET T : U # T => U \in F
      PROVE  T \in F
  <2> DEFINE pick(U) == CHOOSE h : Fold(h, U)
             top == IF T = {} THEN base ELSE G[<<C[T], pick(T \ {C[T]})[T \ {C[T]}]>>]
             h == [U \in SUBSET T |-> IF U = T THEN top ELSE pick(U)[U]]
  <2>1. \A U \in SUBSET T : U # T => Fold(pick(U), U)
    <3> HIDE DEF Fold
    <3> QED BY <1>1
  <2>2. \A U \in SUBSET T : U # T => pick(U)[U] \in B
    BY <2>1
  <2> HIDE DEF pick
  <2>3. top \in B
    <3>1. CASE T = {}
      BY <3>1
    <3>2. CASE T # {}
      <4>1. C[T] \in T /\ T \ {C[T]} # T
        BY <3>2
      <4>2. pick(T \ {C[T]})[T \ {C[T]}] \in B
        BY <4>1, <2>2
      <4>3. QED BY <3>2, <4>1, <4>2
    <3>3. QED BY <3>1, <3>2
  <2>4. h \in [SUBSET T -> B]
    <3> HIDE DEF top
    <3> QED BY <2>2, <2>3
  <2>5. ASSUME NEW U \in SUBSET T
        PROVE  h[U] = IF U = {} THEN base ELSE G[<<C[U], h[U \ {C[U]}]>>]
    <3>1. CASE U = T
      <4>1. CASE T = {}
        BY <3>1, <4>1
      <4>2. CASE T # {}
        <5>1. C[T] \in T /\ T \ {C[T]} # T
          BY <4>2
        <5>2. h[T \ {C[T]}] = pick(T \ {C[T]})[T \ {C[T]}]
          BY <5>1
        <5>3. QED BY <3>1, <4>2, <5>2
      <4>3. QED BY <4>1, <4>2
    <3>2. CASE U # T
      <4> DEFINE V == U \ {C[U]}
      <4>1. h[U] = pick(U)[U] /\ Fold(pick(U), U)
        BY <3>2, <2>1
      <4>2. CASE U = {}
        BY <4>1, <4>2 DEF Steps
      <4>3. CASE U # {}
        <5>1. C[U] \in U /\ V \in SUBSET T /\ V # T /\ V # U
          BY <4>3
        <5>2. h[V] = pick(V)[V] /\ Fold(pick(V), V)
          BY <5>1, <2>1
        <5>3. pick(V)[V] = pick(U)[V]
          <6>1. IsFiniteSet(V) /\ V \in SUBSET S
            BY <5>1, FS_Subset
          <6>2. Steps(pick(U), V, base, C, G)
            BY <4>1 DEF Steps
          <6>3. Steps(pick(V), V, base, C, G)
            BY <5>2
          <6> HIDE DEF V, Fold
          <6>4. \A W \in SUBSET V : W # {} => C[W] \in W
            BY <6>1
          <6>5. QED BY <6>1, <6>2, <6>3, <6>4, StepsUnique
        <5>4. pick(U)[U] = G[<<C[U], pick(U)[V]>>]
          BY <4>1, <4>3 DEF Steps
        <5>5. QED BY <4>1, <4>3, <5>2, <5>3, <5>4
      <4>4. QED BY <4>2, <4>3
    <3>3. QED BY <3>1, <3>2
  <2>6. Fold(h, T)
    BY <2>4, <2>5 DEF Steps
  <2> HIDE DEF h, Fold
  <2>7. QED BY <2>6
<1> HIDE DEF F
<1>2. S \in F
  BY <1>1, SetInd
<1>3. QED BY <1>2 DEF F

\* A finite set of naturals that is not empty has a maximum.
LEMMA MaxReached ==
    ASSUME NEW n \in Nat, NEW s \in SUBSET (1..n), s # {}
    PROVE  \E x \in s : \A y \in s : x >= y
<1> DEFINE F == {k \in Nat : s \cap (0..k) # {} =>
                      \E x \in s \cap (0..k) : \A y \in s \cap (0..k) : x >= y}
<1>1. 0 \in F
  OBVIOUS
<1>2. ASSUME NEW k \in Nat, k \in F PROVE k + 1 \in F
  <2>1. CASE k + 1 \in s
    <3>1. \A y \in s \cap (0..(k + 1)) : k + 1 >= y
      OBVIOUS
    <3>2. QED BY <2>1, <3>1
  <2>2. CASE k + 1 \notin s
    <3>1. s \cap (0..(k + 1)) = s \cap (0..k)
      BY <2>2
    <3>2. QED BY <1>2, <3>1
  <2>3. QED BY <2>1, <2>2
<1>3. n \in F
  <2> HIDE DEF F
  <2> QED BY <1>1, <1>2, NatInd
<1>4. s \cap (0..n) = s
  <2>1. \A m \in 1..n : m \in 0..n
    OBVIOUS
  <2>2. QED BY <2>1
<1>5. QED BY <1>3, <1>4

\* A fold over the places of a sequence takes the last one first.
LEMMA MaxIsLast ==
    ASSUME NEW n \in Nat
    PROVE  /\ \A s \in SUBSET (1..n) : s # {} => Max(s) \in s
           /\ \A k \in 1..n : Max(1..k) = k /\ (1..k) \ {k} = 1..(k - 1)
<1>1. ASSUME NEW s \in SUBSET (1..n), s # {} PROVE Max(s) \in s
  <2>1. \E x \in s : \A y \in s : x >= y
    BY <1>1, MaxReached
  <2>2. QED BY <2>1 DEF Max
<1>2. ASSUME NEW k \in 1..n PROVE Max(1..k) = k /\ (1..k) \ {k} = 1..(k - 1)
  <2>1. k \in 1..k /\ \A y \in 1..k : k >= y
    OBVIOUS
  <2>2. \A x \in 1..k : (\A y \in 1..k : x >= y) => x = k
    BY <2>1
  <2>3. QED BY <2>1, <2>2 DEF Max
<1>3. QED BY <1>1, <1>2

\* h computes the left fold over the sets of places 1..n, at least as long as
\* the results are in B; F does it place by place.
LeftSteps(h, n, B, base, G) ==
    /\ h[{}] = base
    /\ \A s \in SUBSET (1..n) : s # {} /\ h[s \ {Max(s)}] \in B
          => h[s] = G[<<h[s \ {Max(s)}], Max(s)>>]
Ends(F, n, last) == F[n] = last
LeftChain(F, n, base, G) ==
    F[0] = base /\ \A k \in 1..n : F[k] = G[<<F[k - 1], k>>]

\* There is such a function.
LEMMA LeftFoldExists ==
    ASSUME NEW n \in Nat, NEW B, NEW base \in B, NEW G \in [B \X (1..n) -> B]
    PROVE  \E h \in [SUBSET (1..n) -> B] : LeftSteps(h, n, B, base, G)
<1> DEFINE C == [s \in SUBSET (1..n) |-> Max(s)]
          H == [p \in (1..n) \X B |-> G[<<p[2], p[1]>>]]
<1>1. H \in [(1..n) \X B -> B]
  OBVIOUS
<1>2. \A s \in SUBSET (1..n) : s # {} => C[s] \in s
  BY MaxIsLast
<1>3. IsFiniteSet(1..n)
  BY FS_Interval
<1>4. PICK h \in [SUBSET (1..n) -> B] : Steps(h, 1..n, base, C, H)
  <2> HIDE DEF C, H
  <2> QED BY <1>1, <1>2, <1>3, StepsExist
<1>5. ASSUME NEW s \in SUBSET (1..n)
      PROVE  h[s] = IF s = {} THEN base ELSE G[<<h[s \ {Max(s)}], Max(s)>>]
  <2>1. CASE s = {}
    BY <1>4, <2>1 DEF Steps
  <2>2. CASE s # {}
    <3>1. C[s] = Max(s) /\ Max(s) \in 1..n
      BY <2>2, <1>2
    <3>2. h[s \ {Max(s)}] \in B
      OBVIOUS
    <3>3. h[s] = H[<<C[s], h[s \ {C[s]}]>>]
      BY <1>4, <2>2 DEF Steps
    <3>4. QED BY <2>2, <3>1, <3>2, <3>3
  <2>3. QED BY <2>1, <2>2
<1>6. QED BY <1>5 DEF LeftSteps

\* A left fold goes through the sequence place by place.
LEMMA LeftFoldSteps ==
    ASSUME NEW n \in Nat, NEW B, NEW base \in B, NEW G \in [B \X (1..n) -> B], NEW h,
           LeftSteps(h, n, B, base, G)
    PROVE  \E F \in [0..n -> B] : LeftChain(F, n, base, G) /\ Ends(F, n, h[1..n])
<1> DEFINE F == [k \in 0..n |-> h[1..k]]
          N == {k \in Nat : k <= n => h[1..k] \in B}
<1>1. 1..0 = {} /\ h[1..0] = base
  BY 1..0 = {} DEF LeftSteps
<1>2. ASSUME NEW k \in Nat, k \in N PROVE k + 1 \in N
  <2> SUFFICES ASSUME k + 1 <= n PROVE h[1..(k + 1)] \in B
    OBVIOUS
  <2>1. k + 1 \in 1..n /\ 1..(k + 1) \in SUBSET (1..n) /\ 1..(k + 1) # {} /\ k + 1 - 1 = k
    <3>1. k + 1 \in 1..n /\ k + 1 \in 1..(k + 1) /\ k + 1 - 1 = k
      OBVIOUS
    <3>2. \A m \in 1..(k + 1) : m \in 1..n
      OBVIOUS
    <3>3. QED BY <3>1, <3>2
  <2>2. Max(1..(k + 1)) = k + 1 /\ (1..(k + 1)) \ {k + 1} = 1..k
    BY <2>1, MaxIsLast
  <2>3. h[1..k] \in B
    BY <1>2
  <2>4. h[1..(k + 1)] = G[<<h[1..k], k + 1>>]
    BY <2>1, <2>2, <2>3 DEF LeftSteps
  <2>5. QED BY <2>1, <2>3, <2>4
<1>3. Nat \subseteq N
  <2>1. 0 \in N
    BY <1>1
  <2> HIDE DEF N
  <2>2. QED BY <1>2, <2>1, NatInd
<1>4. F \in [0..n -> B]
  BY <1>3
<1>5. ASSUME NEW k \in 1..n PROVE F[k] = G[<<F[k - 1], k>>]
  <2>1. k - 1 \in 0..n /\ k \in 0..n /\ 1..k \in SUBSET (1..n) /\ 1..k # {}
    OBVIOUS
  <2>2. Max(1..k) = k /\ (1..k) \ {k} = 1..(k - 1)
    BY MaxIsLast
  <2>3. h[1..(k - 1)] \in B
    BY <1>4, <2>1
  <2>4. h[1..k] = G[<<h[1..(k - 1)], k>>]
    BY <2>1, <2>2, <2>3 DEF LeftSteps
  <2>5. QED BY <2>1, <2>4
<1>6. F[0] = base /\ h[1..n] = F[n]
  BY <1>1
<1> HIDE DEF F
<1>7. QED BY <1>4, <1>5, <1>6 DEF LeftChain, Ends

\* A sequence of values is built up, one step at a time.
LEMMA Chain ==
    ASSUME NEW n \in Nat, NEW B, NEW base \in B, NEW G \in [B \X (1..n) -> B]
    PROVE  \E F \in [0..n -> B] : LeftChain(F, n, base, G)
<1>1. PICK h \in [SUBSET (1..n) -> B] : LeftSteps(h, n, B, base, G)
  BY LeftFoldExists
<1>2. QED BY <1>1, LeftFoldSteps

-----------------------------------------------------------------------------
(* Tokens.                                                                 *)

\* P lists the numbers of S, from P[0] = 0 to P[m].
Enumerates(P, m, S) ==
    /\ P \in [0..m -> Nat]
    /\ P[0] = 0
    /\ \A i, j \in 0..m : i < j => P[i] < P[j]
    /\ S = {P[i] : i \in 0..m}

\* A finite set of naturals can be listed in order.
LEMMA Enumeration ==
    ASSUME NEW S \in SUBSET Nat, NEW b \in Nat, 0 \in S, \A x \in S : x <= b
    PROVE  \E m \in Nat : \E P : Enumerates(P, m, S)
<1> DEFINE F == {k \in Nat : \E m \in Nat : \E P : Enumerates(P, m, S \cap (0..k))}
<1>1. 0 \in F
  <2> DEFINE P == [i \in 0..0 |-> 0]
  <2>1. S \cap (0..0) = {0}
    OBVIOUS
  <2>2. Enumerates(P, 0, {0})
    BY DEF Enumerates
  <2> HIDE DEF P
  <2>3. QED BY <2>1, <2>2
<1>2. ASSUME NEW k \in Nat, k \in F PROVE k + 1 \in F
  <2>0. PICK m \in Nat : \E P : Enumerates(P, m, S \cap (0..k))
    BY <1>2
  <2>1. PICK P : Enumerates(P, m, S \cap (0..k))
    BY <2>0
  <2>2. CASE k + 1 \notin S
    <3>1. S \cap (0..(k + 1)) = S \cap (0..k)
      BY <2>2
    <3>2. QED BY <2>1, <3>1
  <2>3. CASE k + 1 \in S
    <3> DEFINE Q == [i \in 0..(m + 1) |-> IF i = m + 1 THEN k + 1 ELSE P[i]]
    <3>1. S \cap (0..(k + 1)) = (S \cap (0..k)) \cup {k + 1}
      BY <2>3
    <3>2. Q \in [0..(m + 1) -> Nat] /\ Q[0] = 0
      BY <2>1 DEF Enumerates
    <3>3. \A i \in 0..m : Q[i] = P[i] /\ P[i] <= k
      <4>1. \A i \in 0..m : P[i] \in S \cap (0..k)
        BY <2>1 DEF Enumerates
      <4>2. QED BY <4>1
    <3>4. \A i, j \in 0..(m + 1) : i < j => Q[i] < Q[j]
      <4> SUFFICES ASSUME NEW i \in 0..(m + 1), NEW j \in 0..(m + 1), i < j PROVE Q[i] < Q[j]
        OBVIOUS
      <4>1. i \in 0..m
        OBVIOUS
      <4>2. CASE j = m + 1
        <5>1. Q[j] = k + 1 /\ Q[i] <= k /\ Q[i] \in Nat
          BY <4>1, <4>2, <3>2, <3>3
        <5> HIDE DEF Q
        <5>2. QED BY <5>1
      <4>3. CASE j # m + 1
        <5>1. j \in 0..m
          BY <4>3
        <5>2. Q[i] = P[i] /\ Q[j] = P[j] /\ P[i] < P[j]
          BY <2>1, <3>3, <4>1, <5>1 DEF Enumerates
        <5>3. QED BY <5>2
      <4>4. QED BY <4>2, <4>3
    <3>5. {Q[i] : i \in 0..(m + 1)} = {P[i] : i \in 0..m} \cup {k + 1}
      <4>1. 0..(m + 1) = (0..m) \cup {m + 1}
        OBVIOUS
      <4>2. Q[m + 1] = k + 1
        OBVIOUS
      <4> HIDE DEF Q
      <4>3. QED BY <3>3, <4>1, <4>2
    <3>6. Enumerates(Q, m + 1, S \cap (0..(k + 1)))
      BY <2>1, <3>1, <3>2, <3>4, <3>5 DEF Enumerates
    <3> HIDE DEF Q
    <3>7. QED BY <3>6
  <2>4. QED BY <2>2, <2>3
<1>3. b \in F
  <2> HIDE DEF F
  <2> QED BY <1>1, <1>2, NatInd
<1>4. S \cap (0..b) = S
  <2>1. \A x \in S : x \in 0..b
    OBVIOUS
  <2>2. QED BY <2>1
<1>5. QED BY <1>3, <1>4

\* How many numbers of S are less than x.
Rank(S, x) == Cardinality({q \in S : q < x})

\* The n-th number of the list is the one with n smaller ones.
LEMMA Ranks ==
    ASSUME NEW S, NEW m \in Nat, NEW P, Enumerates(P, m, S)
    PROVE  /\ Cardinality(S) = m + 1
           /\ \A j \in 0..m : Rank(S, P[j]) = j
<1> DEFINE Below(j) == {P[i] : i \in 0..(j - 1)}
<1>1. ASSUME NEW j \in Nat, j <= m + 1
      PROVE  Cardinality(Below(j)) = j
  <2> DEFINE T == Below(j)
             f == [i \in 0..(j - 1) |-> P[i]]
  <2>1. \A x, y \in 0..(j - 1) : P[x] = P[y] => x = y
    <3> SUFFICES ASSUME NEW x \in 0..(j - 1), NEW y \in 0..(j - 1), P[x] = P[y], x # y
                 PROVE  FALSE
      OBVIOUS
    <3>1. x \in 0..m /\ y \in 0..m /\ P[x] \in Nat /\ P[y] \in Nat
      <4>1. x \in 0..m /\ y \in 0..m
        BY <1>1
      <4>2. QED BY <4>1 DEF Enumerates
    <3>2. x < y \/ y < x
      OBVIOUS
    <3>3. P[x] < P[y] \/ P[y] < P[x]
      BY <3>1, <3>2 DEF Enumerates
    <3>4. QED BY <3>1, <3>3
  <2>2. f \in Bijection(0..(j - 1), T)
    BY <2>1, Zenon DEF Bijection, Injection, Surjection, IsInjective
  <2>3. ExistsBijection(0..(j - 1), T)
    <3> HIDE DEF f, T
    <3> QED BY <2>2 DEF ExistsBijection
  <2>4. IsFiniteSet(0..(j - 1)) /\ Cardinality(0..(j - 1)) = j
    BY FS_Interval
  <2> HIDE DEF T
  <2>5. IsFiniteSet(T) /\ Cardinality(T) = Cardinality(0..(j - 1))
    BY <2>3, <2>4, FS_Bijection
  <2>6. QED BY <2>4, <2>5 DEF T
<1>2. Cardinality(S) = m + 1
  <2>1. m + 1 \in Nat /\ m + 1 <= m + 1 /\ m + 1 - 1 = m
    OBVIOUS
  <2>2. Below(m + 1) = S
    <3>1. S = {P[i] : i \in 0..m}
      BY DEF Enumerates
    <3>2. \A x : x \in S <=> \E i \in 0..m : x = P[i]
      BY <3>1, Zenon
    <3>3. \A x : x \in Below(m + 1) <=> \E i \in 0..(m + 1 - 1) : x = P[i]
      OBVIOUS
    <3> HIDE DEF Below
    <3>4. QED BY <2>1, <3>2, <3>3, Zenon
  <2> HIDE DEF Below
  <2>3. Cardinality(Below(m + 1)) = m + 1
    BY <1>1, <2>1
  <2>4. QED BY <2>2, <2>3
<1>3. ASSUME NEW j \in 0..m PROVE Rank(S, P[j]) = j
  <2>1. {q \in S : q < P[j]} = {P[i] : i \in 0..(j - 1)}
    <3>1. ASSUME NEW i \in 0..(j - 1) PROVE P[i] \in S /\ P[i] < P[j]
      <4>1. i \in 0..m /\ i < j
        OBVIOUS
      <4>2. QED BY <4>1 DEF Enumerates
    <3>2. ASSUME NEW q \in S, q < P[j] PROVE q \in {P[i] : i \in 0..(j - 1)}
      <4>1. PICK i \in 0..m : q = P[i]
        BY DEF Enumerates
      <4>2. ~(j < i) /\ i # j
        <5>1. P[i] \in Nat /\ P[j] \in Nat /\ (j < i => P[j] < P[i])
          BY DEF Enumerates
        <5>2. QED BY <3>2, <4>1, <5>1
      <4>3. i \in 0..(j - 1)
        BY <4>2
      <4>4. QED BY <4>1, <4>3
    <3>3. QED BY <3>1, <3>2
  <2>2. j \in Nat /\ j <= m + 1 /\ {q \in S : q < P[j]} = Below(j)
    BY <2>1
  <2> HIDE DEF Below
  <2>3. QED BY <1>1, <2>2 DEF Rank
<1>4. QED BY <1>2, <1>3

\* Where Tokenize cuts a text.
Stops(s, d) == {0, Len(s) + 1} \cup {n \in DOMAIN s : s[n] = d}

\* Tokenize in terms of the list of its stops.
LEMMA TokenizeIs ==
    ASSUME NEW s, NEW d, NEW m \in Nat, NEW P, Enumerates(P, m, Stops(s, d))
    PROVE  Tokenize(s, d) = [n \in 1..m |-> SubSeq(s, P[n - 1] + 1, P[n] - 1)]
<1> DEFINE stops == Stops(s, d)
           Stop(n) == CHOOSE p \in stops : Rank(stops, p) = n
<1>1. Tokenize(s, d) = [n \in 1..(Cardinality(stops) - 1) |-> SubSeq(s, Stop(n - 1) + 1, Stop(n) - 1)]
  BY DEF Tokenize, Stops, Rank
<1>2. ASSUME NEW n \in 0..m PROVE Stop(n) = P[n]
  <2>1. P[n] \in stops /\ Rank(stops, P[n]) = n
    BY Ranks DEF Enumerates
  <2>2. \A p \in stops : Rank(stops, p) = n => p = P[n]
    <3> SUFFICES ASSUME NEW p \in stops, Rank(stops, p) = n
                 PROVE  p = P[n]
      OBVIOUS
    <3>1. PICK i \in 0..m : p = P[i]
      BY DEF Enumerates
    <3>2. i = n
      BY <3>1, Ranks
    <3>3. QED BY <3>1, <3>2
  <2> HIDE DEF stops
  <2>3. QED BY <2>1, <2>2
<1>3. Cardinality(stops) - 1 = m
  <2>1. Cardinality(stops) = m + 1
    BY Ranks
  <2> HIDE DEF stops
  <2>2. QED BY <2>1
<1> HIDE DEF stops, Stop
<1>4. \A n \in 1..m : n - 1 \in 0..m /\ n \in 0..m
  OBVIOUS
<1>5. QED BY <1>1, <1>2, <1>3, <1>4

\* P lists the ends of the m tokens of s, the last of them behind s.
Cuts(s, d, m, P) ==
    /\ Enumerates(P, m, Stops(s, d)) /\ m >= 1 /\ P[m] = Len(s) + 1
    /\ Tokenize(s, d) = [n \in 1..m |-> SubSeq(s, P[n - 1] + 1, P[n] - 1)]

\* The pieces of a text: how many, and where each begins and ends.
LEMMA Pieces ==
    ASSUME NEW s \in Text, NEW d
    PROVE  \E m \in Nat : \E P : Cuts(s, d, m, P)
<1>1. Len(s) \in Nat /\ DOMAIN s = 1..Len(s)
  BY LenProperties DEF Text
<1>2. Stops(s, d) \in SUBSET Nat /\ \A x \in Stops(s, d) : x <= Len(s) + 1
  BY <1>1 DEF Stops
<1>3. 0 \in Stops(s, d) /\ Len(s) + 1 \in Stops(s, d) /\ Len(s) + 1 \in Nat
  BY <1>1 DEF Stops
<1>0. PICK m \in Nat : \E P : Enumerates(P, m, Stops(s, d))
  BY <1>2, <1>3, Enumeration
<1>4. PICK P : Enumerates(P, m, Stops(s, d))
  BY <1>0
<1>5. PICK i \in 0..m : P[i] = Len(s) + 1
  BY <1>3, <1>4 DEF Enumerates
<1>6. i = m
  <2> SUFFICES ASSUME i # m PROVE FALSE
    OBVIOUS
  <2>1. P[i] < P[m] /\ P[m] \in Stops(s, d) /\ P[m] \in Nat
    BY <1>4 DEF Enumerates
  <2>2. P[m] <= Len(s) + 1
    BY <1>2, <2>1
  <2>3. QED BY <1>1, <1>5, <2>1, <2>2
<1>7. m >= 1
  <2>1. m # 0
    BY <1>1, <1>4, <1>5, <1>6 DEF Enumerates
  <2>2. QED BY <2>1
<1>8. Cuts(s, d, m, P)
  BY <1>4, <1>5, <1>6, <1>7, TokenizeIs DEF Cuts
<1>9. QED BY <1>8

-----------------------------------------------------------------------------
(* Strings and buffers.                                                    *)

\* Two texts with the same characters are the same.
LEMMA TextIs ==
    ASSUME NEW s
    PROVE  s \in Text <=> /\ Len(s) \in Nat /\ s = [n \in 1..Len(s) |-> s[n]]
                         /\ \A n \in 1..Len(s) : s[n] \in Char
<1>1. ASSUME s \in Text
      PROVE  /\ Len(s) \in Nat /\ s = [n \in 1..Len(s) |-> s[n]]
             /\ \A n \in 1..Len(s) : s[n] \in Char
  BY <1>1, LenProperties DEF Text
<1>2. ASSUME Len(s) \in Nat, s = [n \in 1..Len(s) |-> s[n]],
             \A n \in 1..Len(s) : s[n] \in Char
      PROVE  s \in Text
  <2>1. s \in [1..Len(s) -> Char]
    BY <1>2
  <2>2. QED BY <1>2, <2>1, SeqDef DEF Text
<1>3. QED BY <1>1, <1>2

\* A string without a NUL.
Plain(s) == s \in Text /\ \A n \in 1..Len(s) : s[n] # NUL

\* A C string ends before the first NUL, or is the whole text.
LEMMA C_strIs ==
    ASSUME NEW s \in Text
    PROVE  /\ Plain(C_str(s)) /\ Len(C_str(s)) \in 0..Len(s)
           /\ \A n \in 1..Len(C_str(s)) : C_str(s)[n] = s[n]
           /\ Len(C_str(s)) # Len(s) => s[Len(C_str(s)) + 1] = NUL
<1>0. PICK m \in Nat : \E P : Cuts(s, NUL, m, P)
  BY Pieces
<1>1. PICK P :
          /\ Enumerates(P, m, Stops(s, NUL)) /\ m >= 1 /\ P[m] = Len(s) + 1
          /\ Tokenize(s, NUL) = [n \in 1..m |-> SubSeq(s, P[n - 1] + 1, P[n] - 1)]
  BY <1>0 DEF Cuts
<1>2. Len(s) \in Nat /\ DOMAIN s = 1..Len(s) /\ \A n \in 1..Len(s) : s[n] \in Char
  BY TextIs
<1>3. P[0] = 0 /\ P[1] \in Nat /\ P[1] > 0 /\ P[1] <= Len(s) + 1
  <2>1. 0 \in 0..m /\ 1 \in 0..m /\ m \in 0..m
    BY <1>1
  <2>2. P[0] = 0 /\ P[1] \in Nat /\ P[0] < P[1]
    BY <1>1, <2>1 DEF Enumerates
  <2>3. 1 = m \/ P[1] < P[m]
    BY <1>1, <2>1 DEF Enumerates
  <2>4. QED BY <1>1, <1>2, <2>2, <2>3
<1>4. C_str(s) = SubSeq(s, 1, P[1] - 1)
  <2>1. 1 \in 1..m /\ 1 - 1 = 0 /\ 0 + 1 = 1
    BY <1>1
  <2>2. Tokenize(s, NUL)[1] = SubSeq(s, P[1 - 1] + 1, P[1] - 1)
    BY <1>1, <2>1
  <2>3. QED BY <1>3, <2>1, <2>2 DEF C_str
<1>5. \A i \in 1..(P[1] - 1) : i \in 1..Len(s) /\ s[i] \in Char
  BY <1>2, <1>3
<1>6. /\ C_str(s) \in Text /\ Len(C_str(s)) = P[1] - 1
      /\ \A i \in 1..(P[1] - 1) : C_str(s)[i] = s[i]
  <2>1. P[1] - 1 \in Int /\ 1 \in Int
    BY <1>3
  <2>2. /\ SubSeq(s, 1, P[1] - 1) \in Seq(Char)
        /\ Len(SubSeq(s, 1, P[1] - 1)) = IF 1 <= P[1] - 1 THEN P[1] - 1 - 1 + 1 ELSE 0
        /\ \A i \in 1..(P[1] - 1 - 1 + 1) : SubSeq(s, 1, P[1] - 1)[i] = s[1 + i - 1]
    BY <1>5, <2>1, SubSeqProperties
  <2>3. P[1] - 1 - 1 + 1 = P[1] - 1 /\ \A i \in 1..(P[1] - 1) : 1 + i - 1 = i
    BY <1>3
  <2>4. QED BY <1>3, <1>4, <2>2, <2>3 DEF Text
<1>7. \A i \in 1..(P[1] - 1) : s[i] # NUL
  <2> SUFFICES ASSUME NEW i \in 1..(P[1] - 1), s[i] = NUL PROVE FALSE
    OBVIOUS
  <2>1. i \in Stops(s, NUL)
    BY <1>2, <1>5 DEF Stops
  <2>2. PICK j \in 0..m : i = P[j]
    BY <1>1, <2>1 DEF Enumerates
  <2>3. j = 0 \/ j = 1 \/ P[1] < P[j]
    BY <1>1 DEF Enumerates
  <2>4. QED BY <1>3, <2>2, <2>3
<1>8. P[1] # Len(s) + 1 => s[P[1]] = NUL
  <2>1. P[1] \in Stops(s, NUL)
    BY <1>1 DEF Enumerates
  <2>2. QED BY <1>3, <2>1 DEF Stops
<1>9. QED BY <1>2, <1>3, <1>6, <1>7, <1>8 DEF Plain

\* A text without a NUL is its own C string.
LEMMA C_strOfPlain ==
    ASSUME NEW s, Plain(s)
    PROVE  C_str(s) = s
<1>1. s \in Text /\ Len(s) \in Nat
  BY TextIs DEF Plain
<1>2. Len(C_str(s)) = Len(s)
  BY <1>1, C_strIs DEF Plain
<1>3. C_str(s) \in Text /\ \A n \in 1..Len(s) : C_str(s)[n] = s[n]
  BY <1>1, <1>2, C_strIs DEF Plain
<1>4. QED BY <1>1, <1>2, <1>3, SeqEqual DEF Text

\* What serialize writes for a string.
Terminated(s) == C_str(s) \o <<NUL>>

\* A terminated string ends with its only NUL.
LEMMA TerminatedIs ==
    ASSUME NEW s \in Text
    PROVE  /\ Terminated(s) \in Text /\ Len(Terminated(s)) = Len(C_str(s)) + 1
           /\ \A n \in 1..Len(C_str(s)) : Terminated(s)[n] = C_str(s)[n]
           /\ Terminated(s)[Len(C_str(s)) + 1] = NUL
<1>1. C_str(s) \in Seq(Char) /\ <<NUL>> \in Seq(Char) /\ Len(<<NUL>>) = 1 /\ <<NUL>>[1] = NUL
  BY C_strIs DEF Plain, Text, Char, NUL
<1>2. Len(C_str(s)) \in Nat
  BY C_strIs, TextIs DEF Plain
<1>3. QED BY <1>1, <1>2, ConcatProperties DEF Terminated, Text


-----------------------------------------------------------------------------
(* Buffers.                                                                *)

\* flatten concatenates place by place.
LEMMA Flattened ==
    ASSUME NEW n \in Nat \ {0}, NEW q \in [1..n -> Text]
    PROVE  \E F \in [0..n -> Text] :
              /\ F[0] = <<>>
              /\ \A k \in 1..n : F[k] = F[k - 1] \o q[k]
              /\ FlattenSeq(q) = F[n]
<1> DEFINE G == [p \in Text \X (1..n) |-> p[1] \o q[p[2]]]
<1>1. <<>> \in Text /\ G \in [Text \X (1..n) -> Text]
  BY ConcatProperties, EmptySeq DEF Text
<1>2. PICK F \in [0..n -> Text] : LeftChain(F, n, <<>>, G)
  <2> HIDE DEF G
  <2> QED BY <1>1, Chain
<1>3. \A k \in 1..n : F[k] = F[k - 1] \o q[k]
  <2>1. \A k \in 1..n : k - 1 \in 0..n
    OBVIOUS
  <2>2. QED BY <1>2, <2>1 DEF LeftChain
<1>4. Len(q) = n
  <2>1. q \in Seq(Text)
    BY SeqDef
  <2>2. QED BY <2>1, LenProperties
<1> DEFINE Flat(f) == f = [i \in 1..n |-> IF i = 1 THEN q[i] ELSE f[i - 1] \o q[i]]
           e == [i \in 1..n |-> F[i]]
<1>5. Flat(e)
  <2>1. ASSUME NEW i \in 1..n
        PROVE  F[i] = IF i = 1 THEN q[i] ELSE e[i - 1] \o q[i]
    <3>1. CASE i = 1
      <4>1. F[1] = <<>> \o q[1]
        <5>1. 1 \in 1..n /\ 1 - 1 = 0
          OBVIOUS
        <5>2. F[1] = F[1 - 1] \o q[1]
          BY <1>3, <5>1
        <5>3. QED BY <1>2, <5>1, <5>2 DEF LeftChain
      <4>2. QED BY <3>1, <4>1, ConcatEmptySeq DEF Text
    <3>2. CASE i # 1
      <4>1. i - 1 \in 1..n
        BY <3>2
      <4>2. QED BY <1>3, <3>2, <4>1
    <3>3. QED BY <3>1, <3>2
  <2>2. QED BY <2>1
<1>6. ASSUME NEW f, Flat(f) PROVE f[n] = F[n]
  <2>0. \A k \in 1..n : /\ f[k] = IF k = 1 THEN q[k] ELSE f[k - 1] \o q[k]
                        /\ F[k] = IF k = 1 THEN q[k] ELSE F[k - 1] \o q[k]
    <3>1. \A k \in 1..n : f[k] = IF k = 1 THEN q[k] ELSE f[k - 1] \o q[k]
      BY <1>6
    <3>2. ASSUME NEW k \in 1..n PROVE F[k] = IF k = 1 THEN q[k] ELSE F[k - 1] \o q[k]
      <4>1. F[k] = e[k]
        OBVIOUS
      <4>2. e[k] = IF k = 1 THEN q[k] ELSE e[k - 1] \o q[k]
        BY <1>5
      <4>3. k # 1 => e[k - 1] = F[k - 1]
        <5>1. k # 1 => k - 1 \in 1..n
          OBVIOUS
        <5>2. QED BY <5>1
      <4> HIDE DEF e
      <4>4. QED BY <4>1, <4>2, <4>3
    <3>3. QED BY <3>1, <3>2
  <2> DEFINE N == {k \in Nat : k \in 1..n => f[k] = F[k]}
  <2>1. 0 \in N
    OBVIOUS
  <2>2. ASSUME NEW k \in Nat, k \in N PROVE k + 1 \in N
    <3> SUFFICES ASSUME k + 1 \in 1..n PROVE f[k + 1] = F[k + 1]
      OBVIOUS
    <3>3. k + 1 - 1 = k
      OBVIOUS
    <3>4. k = 0 \/ k \in 1..n
      OBVIOUS
    <3>5. QED BY <2>0, <2>2, <3>3, <3>4
  <2>3. n \in N
    <3> HIDE DEF N
    <3> QED BY <2>1, <2>2, NatInd
  <2>4. QED BY <2>3
<1>7. FlattenSeq(q) = (CHOOSE f : Flat(f))[n]
  BY <1>4 DEF FlattenSeq
<1>8. Flat(CHOOSE f : Flat(f))
  <2> HIDE DEF Flat
  <2> QED BY <1>5
<1>9. FlattenSeq(q) = F[n]
  <2> HIDE DEF Flat
  <2> QED BY <1>6, <1>7, <1>8
<1>10. QED BY <1>2, <1>3, <1>9 DEF LeftChain

\* The sum of the lengths of the fields, place by place.
LEMMA Summed ==
    ASSUME NEW n \in Nat \ {0}, NEW q \in [1..n -> Text]
    PROVE  \E Z \in [0..n -> Nat] :
              /\ Z[0] = 0
              /\ \A k \in 1..n : Z[k] = Z[k - 1] + BufferLen(q[k])
              /\ BufferSize(q) = Z[n]
<1> DEFINE G == [p \in Nat \X (1..n) |-> p[1] + BufferLen(q[p[2]])]
           Sum(h) == h = [s \in SUBSET (1..n) |->
                            IF s = {} THEN 0 ELSE h[s \ {Max(s)}] + BufferLen(q[Max(s)])]
<1>1. G \in [Nat \X (1..n) -> Nat]
  <2>1. ASSUME NEW k \in 1..n PROVE BufferLen(q[k]) \in Nat
    BY C_strIs, TextIs DEF BufferLen, Plain
  <2> HIDE DEF BufferLen
  <2>2. QED BY <2>1
<1>2. PICK h \in [SUBSET (1..n) -> Nat] : LeftSteps(h, n, Nat, 0, G)
  <2>1. 0 \in Nat
    OBVIOUS
  <2> HIDE DEF G
  <2> QED BY <1>1, <2>1, LeftFoldExists
<1>3. Sum(h)
  <2>1. ASSUME NEW s \in SUBSET (1..n)
        PROVE  h[s] = IF s = {} THEN 0 ELSE h[s \ {Max(s)}] + BufferLen(q[Max(s)])
    <3>1. CASE s # {}
      <4>1. Max(s) \in 1..n /\ h[s \ {Max(s)}] \in Nat
        BY <3>1, MaxIsLast
      <4>2. QED BY <1>2, <3>1, <4>1 DEF LeftSteps
    <3>2. QED BY <1>2, <3>1 DEF LeftSteps
  <2>2. QED BY <2>1
<1>4. BufferSize(q) = (CHOOSE f : Sum(f))[1..n]
  <2>1. DOMAIN q = 1..n
    OBVIOUS
  <2>2. QED BY <2>1, Zenon DEF BufferSize, FoldLeft, MapThenFoldSet
<1>5. PICK f : Sum(f) /\ BufferSize(q) = f[1..n]
  <2> HIDE DEF Sum
  <2> QED BY <1>3, <1>4
<1>6. LeftSteps(f, n, Nat, 0, G)
  <2>1. ASSUME NEW s \in SUBSET (1..n), s # {}, f[s \ {Max(s)}] \in Nat
        PROVE  f[s] = G[<<f[s \ {Max(s)}], Max(s)>>]
    <3>1. Max(s) \in 1..n
      BY <2>1, MaxIsLast
    <3>2. f[s] = f[s \ {Max(s)}] + BufferLen(q[Max(s)])
      BY <1>5, <2>1
    <3>3. QED BY <2>1, <3>1, <3>2
  <2>2. f[{}] = 0
    BY <1>5
  <2> HIDE DEF G, Sum
  <2>3. QED BY <2>1, <2>2 DEF LeftSteps
<1>7. PICK Z \in [0..n -> Nat] : LeftChain(Z, n, 0, G) /\ Ends(Z, n, f[1..n])
  <2> DEFINE base == 0
             B == Nat
  <2>1. base \in B /\ n \in Nat /\ G \in [B \X (1..n) -> B] /\ LeftSteps(f, n, B, base, G)
    BY <1>1, <1>6
  <2> HIDE DEF G, Sum, base, B
  <2>2. \E Z \in [0..n -> B] : LeftChain(Z, n, base, G) /\ Ends(Z, n, f[1..n])
    BY <2>1, LeftFoldSteps
  <2>3. QED BY <2>2 DEF base, B
<1>8. \A k \in 1..n : Z[k] = Z[k - 1] + BufferLen(q[k])
  <2>1. \A k \in 1..n : k - 1 \in 0..n
    OBVIOUS
  <2>2. QED BY <1>7, <2>1 DEF LeftChain
<1>9. QED BY <1>5, <1>7, <1>8 DEF LeftChain, Ends

\* Steps up make an increasing list.
LEMMA Increasing ==
    ASSUME NEW n \in Nat, NEW P \in [0..n -> Nat], \A k \in 1..n : P[k - 1] < P[k]
    PROVE  \A i, j \in 0..n : i < j => P[i] < P[j]
<1> DEFINE N == {j \in Nat : j <= n => \A i \in 0..n : i < j => P[i] < P[j]}
<1>1. 0 \in N
  OBVIOUS
<1>2. ASSUME NEW j \in Nat, j \in N PROVE j + 1 \in N
  <2> SUFFICES ASSUME j + 1 <= n, NEW i \in 0..n, i < j + 1 PROVE P[i] < P[j + 1]
    OBVIOUS
  <2>1. j \in 0..n /\ j + 1 \in 1..n /\ j + 1 \in 0..n /\ j + 1 - 1 = j
    OBVIOUS
  <2>2. P[j] < P[j + 1] /\ P[j] \in Nat /\ P[j + 1] \in Nat /\ P[i] \in Nat
    BY <2>1
  <2>3. i = j \/ P[i] < P[j]
    BY <1>2, <2>1
  <2>4. QED BY <2>2, <2>3
<1>3. Nat \subseteq N
  <2> HIDE DEF N
  <2> QED BY <1>1, <1>2, NatInd
<1>4. QED BY <1>3

\* The buffer of n strings is full, and string k ends at P[k].
Layout(q, n, P) ==
    /\ P \in [0..n -> Nat] /\ P[0] = 0
    /\ \A k \in 1..n : P[k] = P[k - 1] + Len(C_str(q[k])) + 1
    /\ Bdb_dbt(q) \in Text /\ Len(Bdb_dbt(q)) = P[n]
    /\ \A k \in 1..n : \A i \in 1..(Len(C_str(q[k])) + 1) :
          Bdb_dbt(q)[P[k - 1] + i] = Terminated(q[k])[i]

\* The buffer size is exactly what serialize writes.
LEMMA Filled ==
    ASSUME NEW n \in Nat \ {0}, NEW q \in [1..n -> Text]
    PROVE  \E P : Layout(q, n, P)
<1> DEFINE t == [k \in DOMAIN q |-> C_str(q[k]) \o <<NUL>>]
           len(k) == Len(C_str(q[k]))
<1>1. \A k \in 1..n : /\ t[k] = Terminated(q[k]) /\ t[k] \in Text
                      /\ len(k) \in Nat /\ Len(t[k]) = len(k) + 1
  <2>1. ASSUME NEW k \in 1..n
        PROVE  t[k] = Terminated(q[k]) /\ t[k] \in Text /\ len(k) \in Nat /\ Len(t[k]) = len(k) + 1
    <3>1. q[k] \in Text /\ t[k] = Terminated(q[k])
      BY DEF Terminated
    <3>2. QED BY <3>1, TerminatedIs, C_strIs, TextIs DEF Plain
  <2>2. QED BY <2>1
<1>2. t \in [1..n -> Text] /\ Serialize(q) = FlattenSeq(t)
  <2>1. Serialize(q) = FlattenSeq(t)
    BY DEF Serialize
  <2>2. DOMAIN q = 1..n
    OBVIOUS
  <2>3. QED BY <1>1, <2>1, <2>2
<1> HIDE DEF t
<1>3. PICK F \in [0..n -> Text] : /\ F[0] = <<>>
                                  /\ \A k \in 1..n : F[k] = F[k - 1] \o t[k]
                                  /\ FlattenSeq(t) = F[n]
  BY <1>2, Flattened
<1>4. PICK Z \in [0..n -> Nat] : /\ Z[0] = 0
                                 /\ \A k \in 1..n : Z[k] = Z[k - 1] + BufferLen(q[k])
                                 /\ BufferSize(q) = Z[n]
  BY Summed
<1>5. \A k \in 1..n : k - 1 \in 0..n /\ k \in 0..n
  OBVIOUS
<1>6. \A k \in 1..n : Z[k] = Z[k - 1] + len(k) + 1
  <2>1. ASSUME NEW k \in 1..n PROVE Z[k] = Z[k - 1] + len(k) + 1
    <3>1. Z[k] = Z[k - 1] + BufferLen(q[k]) /\ BufferLen(q[k]) = len(k) + 1
      BY <1>4 DEF BufferLen
    <3>2. Z[k - 1] \in Nat /\ len(k) \in Nat
      BY <1>1, <1>5
    <3> HIDE DEF len
    <3>3. QED BY <3>1, <3>2
  <2>2. QED BY <2>1
<1> DEFINE Placed(m) == \A k \in 1..m : \A i \in 1..(len(k) + 1) :
                            F[m][Z[k - 1] + i] = t[k][i]
           N == {m \in Nat : m <= n => Len(F[m]) = Z[m] /\ Placed(m)}
<1>7. 0 \in N
  BY <1>3, <1>4, EmptySeq
<1> HIDE DEF len
<1>8. ASSUME NEW m \in Nat, m \in N PROVE m + 1 \in N
  <2> SUFFICES ASSUME m + 1 <= n PROVE Len(F[m + 1]) = Z[m + 1] /\ Placed(m + 1)
    OBVIOUS
  <2>1. m + 1 \in 1..n /\ m \in 0..n /\ m + 1 - 1 = m /\ m + 1 \in 0..n /\ m <= n
    OBVIOUS
  <2>2. Len(F[m]) = Z[m] /\ Placed(m)
    BY <1>8, <2>1
  <2>3. F[m + 1] = F[m] \o t[m + 1] /\ F[m] \in Seq(Char) /\ t[m + 1] \in Seq(Char)
    <3>1. F[m + 1] = F[m] \o t[m + 1]
      <4> HIDE DEF N
      <4>1. \A k \in 1..n : F[k] = F[k - 1] \o t[k]
        BY <1>3
      <4> DEFINE j == m + 1
      <4>2. j \in 1..n /\ j - 1 = m
        BY <2>1
      <4> HIDE DEF j
      <4>3. F[j] = F[m] \o t[j]
        BY <4>1, <4>2
      <4>4. QED BY <4>3 DEF j
    <3>2. F[m] \in Seq(Char) /\ t[m + 1] \in Seq(Char)
      BY <1>1, <1>3, <2>1 DEF Text
    <3>3. QED BY <2>1, <3>1, <3>2
  <2>4. Len(t[m + 1]) = len(m + 1) + 1 /\ len(m + 1) \in Nat /\ Z[m] \in Nat
        /\ Z[m + 1] = Z[m] + len(m + 1) + 1
    BY <1>1, <1>6, <2>1
  <2>5. /\ Len(F[m + 1]) = Len(F[m]) + Len(t[m + 1])
        /\ \A i \in 1..(Len(F[m]) + Len(t[m + 1])) :
              F[m + 1][i] = IF i <= Len(F[m]) THEN F[m][i] ELSE t[m + 1][i - Len(F[m])]
    BY <2>3, ConcatProperties
  <2>6. Len(F[m + 1]) = Z[m + 1]
    BY <2>2, <2>4, <2>5
  <2>7. ASSUME NEW k \in 1..(m + 1), NEW i \in 1..(len(k) + 1)
        PROVE  F[m + 1][Z[k - 1] + i] = t[k][i]
    <3>1. CASE k = m + 1
      <4>1. i \in Nat /\ i >= 1 /\ i <= len(m + 1) + 1
        BY <2>4, <3>1
      <4>2. Z[m] + i \in 1..(Z[m] + (len(m + 1) + 1)) /\ ~(Z[m] + i <= Z[m]) /\ Z[m] + i - Z[m] = i
        <5> DEFINE z == Z[m]
                   l == len(m + 1)
        <5>1. z \in Nat /\ l \in Nat /\ i \in Nat /\ i >= 1 /\ i <= l + 1
          BY <2>4, <4>1
        <5> HIDE DEF z, l
        <5>2. z + i \in 1..(z + (l + 1)) /\ ~(z + i <= z) /\ z + i - z = i
          BY <5>1
        <5>3. QED BY <5>2 DEF z, l
      <4>3. F[m + 1][Z[m] + i] = t[m + 1][Z[m] + i - Z[m]]
        <5> DEFINE x == Z[m] + i
        <5>1. x \in 1..(Len(F[m]) + Len(t[m + 1])) /\ ~(x <= Len(F[m])) /\ Len(F[m]) = Z[m]
          BY <2>2, <2>4, <4>2
        <5> HIDE DEF x
        <5>2. F[m + 1][x] = t[m + 1][x - Z[m]]
          BY <2>5, <5>1
        <5>3. QED BY <5>2 DEF x
      <4>4. QED BY <2>1, <3>1, <4>2, <4>3
    <3>2. CASE k # m + 1
      <4>1. k \in 1..m /\ k \in 1..n /\ k - 1 \in 0..n /\ k \in 0..n
        BY <2>1, <3>2
      <4>2. F[m][Z[k - 1] + i] = t[k][i]
        BY <2>2, <4>1
      <4>3. len(k) \in Nat /\ Z[k - 1] \in Nat /\ Z[k] \in Nat /\ Z[k] = Z[k - 1] + len(k) + 1
        BY <1>1, <1>6, <4>1
      <4>4. Z[k] <= Z[m]
        <5>1. \A j \in 1..n : Z[j - 1] < Z[j]
          <6> SUFFICES ASSUME NEW j \in 1..n PROVE Z[j - 1] < Z[j]
            OBVIOUS
          <6>1. Z[j] = Z[j - 1] + len(j) + 1 /\ Z[j - 1] \in Nat /\ len(j) \in Nat
            BY <1>1, <1>5, <1>6
          <6>2. QED BY <6>1
        <5>2. \A a, b \in 0..n : a < b => Z[a] < Z[b]
          BY <5>1, Increasing
        <5>3. k = m \/ Z[k] < Z[m]
          BY <2>1, <4>1, <5>2
        <5>4. Z[k] \in Nat /\ Z[m] \in Nat
          BY <2>4, <4>3
        <5>5. QED BY <5>3, <5>4
      <4>5. i \in Nat /\ i >= 1 /\ i <= len(k) + 1
        BY <4>3
      <4>6. Z[k - 1] + i \in 1..(Z[m] + (len(m + 1) + 1)) /\ Z[k - 1] + i <= Z[m]
        <5> DEFINE x == Z[k - 1]
                   y == Z[k]
                   z == Z[m]
        <5>1. x \in Nat /\ y = x + len(k) + 1 /\ y <= z /\ z \in Nat
          BY <2>4, <4>3, <4>4
        <5> HIDE DEF x, y, z
        <5>2. x + i \in 1..(z + (len(m + 1) + 1)) /\ x + i <= z
          <6>1. len(k) \in Nat /\ len(m + 1) \in Nat
            BY <2>4, <4>3
          <6> DEFINE l == len(k)
                     r == len(m + 1)
          <6>2. i \in Nat /\ i >= 1 /\ i <= l + 1 /\ l \in Nat /\ r \in Nat /\ y = x + l + 1
            BY <4>5, <5>1, <6>1
          <6> HIDE DEF l, r
          <6>3. x + i \in 1..(z + (r + 1)) /\ x + i <= z
            BY <5>1, <6>2
          <6>4. QED BY <6>3 DEF r
        <5>3. QED BY <5>2 DEF x, z
      <4>7. QED BY <2>2, <2>4, <2>5, <4>2, <4>6
    <3>3. QED BY <3>1, <3>2
  <2>8. QED BY <2>6, <2>7
<1>9. Len(F[n]) = Z[n] /\ Placed(n)
  <2>1. n \in N
    <3> HIDE DEF N
    <3>1. \A m \in Nat : m \in N => m + 1 \in N
      BY <1>8
    <3>2. Nat \subseteq N
      BY <1>7, <3>1, NatInd
    <3>3. QED BY <3>2
  <2>2. n <= n
    OBVIOUS
  <2> HIDE DEF Placed
  <2>3. n <= n => Len(F[n]) = Z[n] /\ Placed(n)
    BY <2>1
  <2>4. QED BY <2>2, <2>3
<1>10. Bdb_dbt(q) = F[n]
  <2>1. F[n] \in Text /\ Serialize(q) = F[n] /\ BufferSize(q) = Len(F[n])
    BY <1>2, <1>3, <1>4, <1>9
  <2>2. F[n] = [i \in 1..Len(F[n]) |-> F[n][i]] /\ Len(F[n]) \in Nat
    BY <2>1, TextIs
  <2>3. \A i \in 1..Len(F[n]) : i <= Len(F[n])
    BY <2>2
  <2>4. QED BY <2>1, <2>2, <2>3 DEF Bdb_dbt
<1>11. Layout(q, n, Z)
  <2>1. \A k \in 1..n : Z[k] = Z[k - 1] + Len(C_str(q[k])) + 1
    BY <1>6 DEF len
  <2>2. \A k \in 1..n : \A i \in 1..(Len(C_str(q[k])) + 1) :
          F[n][Z[k - 1] + i] = Terminated(q[k])[i]
    BY <1>1, <1>9 DEF len
  <2>3. F[n] \in Text
    BY <1>3
  <2>4. QED BY <1>4, <1>9, <1>10, <2>1, <2>2, <2>3 DEF Layout
<1>12. QED BY <1>11

\* A buffer that was written comes apart into the strings it was written from.
LEMMA Unpacked ==
    ASSUME NEW n \in Nat \ {0}, NEW q \in [1..n -> Text]
    PROVE  /\ Bdb_dbt(q) \in Text /\ Bdb_dbt(q) # <<>> /\ Last(Bdb_dbt(q)) = NUL
           /\ Tokenize(Bdb_dbt(q), NUL) =
                 [k \in 1..(n + 1) |-> IF k <= n THEN C_str(q[k]) ELSE <<>>]
<1>1. PICK P : Layout(q, n, P)
  BY Filled
<1> DEFINE D == Bdb_dbt(q)
           len(k) == Len(C_str(q[k]))
           Q == [k \in 0..(n + 1) |-> IF k <= n THEN P[k] ELSE P[n] + 1]
<1>2. /\ P \in [0..n -> Nat] /\ P[0] = 0 /\ D \in Text /\ Len(D) = P[n]
      /\ \A k \in 1..n : P[k] = P[k - 1] + len(k) + 1
      /\ \A k \in 1..n : \A i \in 1..(len(k) + 1) : D[P[k - 1] + i] = Terminated(q[k])[i]
  BY <1>1 DEF Layout
<1> HIDE DEF D
<1>3. ASSUME NEW k \in 1..n
      PROVE  /\ len(k) \in Nat /\ P[k - 1] \in Nat /\ P[k] \in Nat /\ P[k - 1] < P[k]
             /\ D[P[k]] = NUL
             /\ \A i \in 1..len(k) : D[P[k - 1] + i] = C_str(q[k])[i] /\ D[P[k - 1] + i] # NUL
  <2>1. len(k) \in Nat /\ Plain(C_str(q[k])) /\ q[k] \in Text
    BY C_strIs, TextIs DEF Plain
  <2>2. k - 1 \in 0..n /\ k \in 0..n
    OBVIOUS
  <2>3. P[k - 1] \in Nat /\ P[k] \in Nat /\ P[k] = P[k - 1] + len(k) + 1
    BY <1>2, <2>2
  <2>4. /\ \A i \in 1..len(k) : Terminated(q[k])[i] = C_str(q[k])[i] /\ C_str(q[k])[i] # NUL
        /\ Terminated(q[k])[len(k) + 1] = NUL
    BY <2>1, TerminatedIs DEF Plain
  <2>5. \A i \in 1..(len(k) + 1) : D[P[k - 1] + i] = Terminated(q[k])[i]
    BY <1>2
  <2> HIDE DEF len
  <2>6. len(k) + 1 \in 1..(len(k) + 1) /\ \A i \in 1..len(k) : i \in 1..(len(k) + 1)
    BY <2>1
  <2>7. P[k] = P[k - 1] + (len(k) + 1) /\ P[k - 1] < P[k]
    BY <2>1, <2>3
  <2>8. QED BY <2>1, <2>3, <2>4, <2>5, <2>6, <2>7
<1> HIDE DEF len
<1>4. \A i, j \in 0..n : i < j => P[i] < P[j]
  BY <1>2, <1>3, Increasing
<1>5. P[n] \in Nat /\ P[n] > 0 /\ D # <<>> /\ D[P[n]] = NUL
  <2>1. n \in 1..n /\ n \in 0..n /\ 0 \in 0..n /\ 0 < n
    OBVIOUS
  <2>2. P[n] \in Nat /\ P[n] > 0 /\ D[P[n]] = NUL
    BY <1>2, <1>3, <1>4, <2>1
  <2>3. QED BY <1>2, <2>2, EmptySeq
<1>6. DOMAIN D = 1..P[n] /\ \A i \in 1..P[n] : D[i] \in Char
  BY <1>2, TextIs
<1>7. ASSUME NEW p \in 1..P[n]
      PROVE  \E k \in 1..n : p = P[k] \/ (p > P[k - 1] /\ p < P[k] /\ D[p] # NUL)
  <2> DEFINE N == {k \in Nat : k <= n /\ p <= P[k] => \E j \in 1..k : p > P[j - 1] /\ p <= P[j]}
  <2>1. 0 \in N
    BY <1>2
  <2>2. ASSUME NEW k \in Nat, k \in N PROVE k + 1 \in N
    <3> SUFFICES ASSUME k + 1 <= n, p <= P[k + 1]
                 PROVE  \E j \in 1..(k + 1) : p > P[j - 1] /\ p <= P[j]
      OBVIOUS
    <3>1. k \in 0..n /\ k + 1 - 1 = k /\ k + 1 \in 1..(k + 1) /\ P[k] \in Nat
      <4>1. k \in 0..n
        OBVIOUS
      <4>2. QED BY <1>2, <4>1
    <3>2. CASE p <= P[k]
      <4>1. PICK j \in 1..k : p > P[j - 1] /\ p <= P[j]
        BY <2>2, <3>2
      <4>2. j \in 1..(k + 1)
        OBVIOUS
      <4>3. QED BY <4>1, <4>2
    <3>3. CASE ~(p <= P[k])
      <4>1. p > P[k]
        BY <3>1, <3>3
      <4>2. QED BY <3>1, <4>1
    <3>4. QED BY <3>2, <3>3
  <2>3. n \in N
    <3> HIDE DEF N
    <3> QED BY <2>1, <2>2, NatInd
  <2>4. PICK k \in 1..n : p > P[k - 1] /\ p <= P[k]
    BY <2>3, <1>5
  <2>5. CASE p = P[k]
    BY <2>5
  <2>6. CASE p # P[k]
    <3>1. P[k - 1] \in Nat /\ len(k) \in Nat /\ P[k] = P[k - 1] + len(k) + 1
      BY <1>2, <1>3
    <3>2. p - P[k - 1] \in 1..len(k) /\ P[k - 1] + (p - P[k - 1]) = p /\ p < P[k]
      <4> DEFINE x == P[k - 1]
                 y == P[k]
                 w == len(k)
      <4>1. x \in Nat /\ w \in Nat /\ y = x + w + 1 /\ p \in Int /\ p > x /\ p <= y /\ p # y
        BY <2>4, <2>6, <3>1
      <4> HIDE DEF x, y, w
      <4>2. p - x \in 1..w /\ x + (p - x) = p /\ p < y
        BY <4>1
      <4>3. QED BY <4>2 DEF x, y, w
    <3>3. D[p] # NUL
      <4>1. \A i \in 1..len(k) : D[P[k - 1] + i] # NUL
        BY <1>3
      <4>2. D[P[k - 1] + (p - P[k - 1])] # NUL
        BY <3>2, <4>1
      <4>3. QED BY <3>2, <4>2
    <3>4. QED BY <2>4, <3>2, <3>3
  <2>7. QED BY <2>5, <2>6
<1>8. Stops(D, NUL) = {P[k] : k \in 0..n} \cup {P[n] + 1}
  <2>1. ASSUME NEW p \in 1..P[n], D[p] = NUL PROVE \E k \in 1..n : p = P[k]
    BY <1>7, <2>1
  <2>2. ASSUME NEW k \in 1..n PROVE P[k] \in 1..P[n] /\ D[P[k]] = NUL
    <3>1. k \in 0..n /\ n \in 0..n /\ (k = n \/ k < n) /\ 0 \in 0..n /\ 0 < k
      OBVIOUS
    <3>2. P[k] <= P[n] /\ P[k] > 0 /\ P[k] \in Nat
      <4>1. P[k] \in Nat /\ P[n] \in Nat /\ (P[k] = P[n] \/ P[k] < P[n]) /\ P[0] < P[k]
        BY <1>3, <1>4, <1>5, <3>1
      <4>2. QED BY <1>2, <4>1
    <3>3. P[k] \in 1..P[n]
      BY <1>5, <3>2
    <3>4. QED BY <1>3, <3>3
  <2>3. {i \in DOMAIN D : D[i] = NUL} = {P[k] : k \in 1..n}
    BY <1>6, <2>1, <2>2
  <2>4. {P[k] : k \in 0..n} = {0} \cup {P[k] : k \in 1..n}
    <3>1. 0..n = {0} \cup (1..n)
      OBVIOUS
    <3>2. QED BY <1>2, <3>1
  <2>5. QED BY <1>2, <2>3, <2>4 DEF Stops
<1>9. Enumerates(Q, n + 1, Stops(D, NUL))
  <2>1. Q \in [0..(n + 1) -> Nat]
    <3>1. \A k \in 0..(n + 1) : k <= n => k \in 0..n
      OBVIOUS
    <3>2. QED BY <1>2, <1>5, <3>1
  <2>2. Q[0] = 0 /\ \A k \in 0..n : Q[k] = P[k]
    BY <1>2
  <2>3. Q[n + 1] = P[n] + 1
    OBVIOUS
  <2> HIDE DEF Q
  <2>4. \A i, j \in 0..(n + 1) : i < j => Q[i] < Q[j]
    <3> SUFFICES ASSUME NEW i \in 0..(n + 1), NEW j \in 0..(n + 1), i < j PROVE Q[i] < Q[j]
      OBVIOUS
    <3>1. i \in 0..n /\ n \in 0..n
      OBVIOUS
    <3>2. CASE j = n + 1
      <4>1. Q[i] = P[i] /\ P[i] \in Nat /\ (i = n \/ P[i] < P[n])
        BY <1>2, <1>4, <2>2, <3>1
      <4>2. QED BY <1>5, <2>3, <3>2, <4>1
    <3>3. CASE j # n + 1
      <4>1. j \in 0..n
        BY <3>3
      <4>2. QED BY <1>4, <2>2, <3>1, <4>1
    <3>4. QED BY <3>2, <3>3
  <2>5. {Q[i] : i \in 0..(n + 1)} = {P[k] : k \in 0..n} \cup {P[n] + 1}
    <3>1. 0..(n + 1) = (0..n) \cup {n + 1}
      OBVIOUS
    <3>2. QED BY <2>2, <2>3, <3>1
  <2>6. QED BY <1>8, <2>1, <2>2, <2>4, <2>5 DEF Enumerates
<1>10. n + 1 \in Nat
  OBVIOUS
<1> DEFINE Piece(k) == SubSeq(D, Q[k - 1] + 1, Q[k] - 1)
<1>11. Tokenize(D, NUL) = [k \in 1..(n + 1) |-> Piece(k)]
  <2> HIDE DEF Q
  <2> QED BY <1>9, <1>10, TokenizeIs
<1>12. ASSUME NEW k \in 1..n PROVE Piece(k) = C_str(q[k])
  <2>1. k \in 0..n /\ k - 1 \in 0..n /\ k <= n /\ k - 1 <= n
    OBVIOUS
  <2>2. Q[k] = P[k] /\ Q[k - 1] = P[k - 1]
    BY <2>1
  <2>3. P[k - 1] \in Nat /\ len(k) \in Nat /\ P[k] = P[k - 1] + len(k) + 1 /\ P[k] \in Nat
    BY <1>2, <1>3
  <2> DEFINE lo == P[k - 1] + 1
             hi == P[k] - 1
  <2>4. lo \in Int /\ hi \in Int /\ hi - lo + 1 = len(k) /\ lo >= 1 /\ hi <= P[n]
        /\ (IF lo <= hi THEN hi - lo + 1 ELSE 0) = len(k)
    <3>1. n \in 0..n /\ (k = n \/ P[k] < P[n])
      BY <1>4, <2>1
    <3>2. P[k] <= P[n]
      BY <1>5, <2>3, <3>1
    <3> DEFINE x == P[k - 1]
               y == P[k]
               z == P[n]
               w == len(k)
    <3>3. x \in Nat /\ y = x + w + 1 /\ y <= z /\ z \in Nat /\ w \in Nat /\ y \in Nat
          /\ lo = x + 1 /\ hi = y - 1
      BY <1>5, <2>3, <3>2
    <3> HIDE DEF x, y, z, w, lo, hi
    <3>4. lo \in Int /\ hi \in Int /\ hi - lo + 1 = w /\ lo >= 1 /\ hi <= z
      BY <3>3
    <3>5. (IF lo <= hi THEN hi - lo + 1 ELSE 0) = w
      <4>1. lo <= hi \/ w = 0
        BY <3>3
      <4>2. ~(lo <= hi) \/ w > 0
        BY <3>3
      <4>3. QED BY <3>3, <3>4, <4>1, <4>2
    <3>6. QED BY <3>4, <3>5 DEF z, w
  <2>5. \A i \in lo..hi : D[i] \in Char
    <3>1. \A i \in lo..hi : i \in 1..P[n]
      <4> HIDE DEF lo, hi
      <4> QED BY <1>5, <2>4
    <3>2. QED BY <1>6, <3>1
  <2>6. \A i \in 1..len(k) : lo + i - 1 = P[k - 1] + i
    BY <2>3
  <2>7. Piece(k) = SubSeq(D, lo, hi)
    BY <2>2
  <2> HIDE DEF lo, hi, Piece
  <2>8. /\ SubSeq(D, lo, hi) \in Seq(Char)
        /\ Len(SubSeq(D, lo, hi)) = IF lo <= hi THEN hi - lo + 1 ELSE 0
        /\ \A i \in 1..(hi - lo + 1) : SubSeq(D, lo, hi)[i] = D[lo + i - 1]
    BY <2>4, <2>5, SubSeqProperties
  <2>9. \A i \in 1..len(k) : SubSeq(D, lo, hi)[i] = C_str(q[k])[i]
    <3> SUFFICES ASSUME NEW i \in 1..len(k) PROVE SubSeq(D, lo, hi)[i] = C_str(q[k])[i]
      OBVIOUS
    <3>1. i \in 1..(hi - lo + 1) /\ lo + i - 1 = P[k - 1] + i
      BY <2>4, <2>6
    <3>2. SubSeq(D, lo, hi)[i] = D[lo + i - 1]
      BY <2>8, <3>1
    <3>3. D[P[k - 1] + i] = C_str(q[k])[i]
      BY <1>3
    <3>4. QED BY <3>1, <3>2, <3>3
  <2>10. C_str(q[k]) \in Seq(Char) /\ Len(C_str(q[k])) = len(k)
    BY C_strIs DEF len, Plain, Text
  <2>11. QED BY <2>4, <2>7, <2>8, <2>9, <2>10, SeqEqual
<1>13. Piece(n + 1) = <<>>
  <2> DEFINE j == n + 1
  <2>1. Q[n] = P[n] /\ Q[j] = P[n] + 1 /\ j - 1 = n
    OBVIOUS
  <2>2. P[n] + 1 \in Int /\ (P[n] + 1) - 1 \in Int /\ (P[n] + 1) - 1 < P[n] + 1
    BY <1>5
  <2>3. SubSeq(D, P[n] + 1, (P[n] + 1) - 1) = <<>>
    BY <2>2, SubSeqEmpty
  <2>4. Piece(n + 1) = SubSeq(D, P[n] + 1, (P[n] + 1) - 1)
    <3> HIDE DEF Q, j
    <3>1. Piece(j) = SubSeq(D, Q[j - 1] + 1, Q[j] - 1)
      OBVIOUS
    <3>2. Piece(j) = SubSeq(D, P[n] + 1, (P[n] + 1) - 1)
      <4> HIDE DEF Piece
      <4> QED BY <2>1, <3>1
    <3> QED BY <3>2 DEF j
  <2> HIDE DEF Piece
  <2>5. QED BY <2>3, <2>4
<1>14. \A k \in 1..(n + 1) : Piece(k) = IF k <= n THEN C_str(q[k]) ELSE <<>>
  <2> HIDE DEF Piece
  <2>1. \A k \in 1..(n + 1) : IF k <= n THEN k \in 1..n ELSE k = n + 1
    OBVIOUS
  <2>2. QED BY <1>12, <1>13, <2>1
<1>15. Last(D) = NUL
  BY <1>2, <1>5 DEF Last
<1>16. QED
  <2> HIDE DEF Piece
  <2>1. Tokenize(D, NUL) = [k \in 1..(n + 1) |-> IF k <= n THEN C_str(q[k]) ELSE <<>>]
    BY <1>11, <1>14
  <2>2. QED BY <1>2, <1>5, <1>15, <2>1 DEF D

-----------------------------------------------------------------------------
(* Records.                                                                *)

\* The number of fields of the class.
N == Len(class.fields)

\* The four classes have different fields, and their keys are among them.
LEMMA ClassFacts ==
    ASSUME class \in Classes
    PROVE  /\ N \in Nat /\ N >= 3 /\ DOMAIN class.fields = 1..N
           /\ Id \in Fields /\ Place(Id) = 1
           /\ \A f \in Fields : Place(f) \in 1..N /\ class.fields[Place(f)] = f
           /\ \A k \in 1..N : class.fields[k] \in Fields /\ Place(class.fields[k]) = k
           /\ \A x \in DOMAIN class.keys : class.keys[x] \in Fields
<1>1. ASSUME NEW a, NEW b, NEW c, a # b, a # c, b # c, class.fields = <<a, b, c>>
      PROVE  /\ N = 3 /\ DOMAIN class.fields = 1..3
             /\ \A i, j \in 1..3 : class.fields[i] = class.fields[j] => i = j
             /\ Fields = {a, b, c}
  BY <1>1 DEF N, Fields, ToSet
<1>2. ASSUME NEW a, NEW b, NEW c, NEW d, a # b, a # c, b # c, a # d, b # d, c # d,
             class.fields = <<a, b, c, d>>
      PROVE  /\ N = 4 /\ DOMAIN class.fields = 1..4
             /\ \A i, j \in 1..4 : class.fields[i] = class.fields[j] => i = j
             /\ Fields = {a, b, c, d}
  BY <1>2 DEF N, Fields, ToSet
<1>3. /\ N \in {3, 4} /\ DOMAIN class.fields = 1..N
      /\ \A i, j \in 1..N : class.fields[i] = class.fields[j] => i = j
      /\ \A x \in DOMAIN class.keys : class.keys[x] \in Fields
  <2>1. CASE class = Account_DTO
    <3>1. class.fields = <<"account_id", "username", "email", "created">>
      BY <2>1 DEF Account_DTO
    <3>2. /\ N = 4 /\ DOMAIN class.fields = 1..4
          /\ \A i, j \in 1..4 : class.fields[i] = class.fields[j] => i = j
          /\ Fields = {"account_id", "username", "email", "created"}
      BY <1>2, <3>1
    <3>3. \A x \in DOMAIN class.keys : class.keys[x] \in {"email", "username"}
      BY <2>1 DEF Account_DTO
    <3>4. QED BY <3>2, <3>3
  <2>2. CASE class = Item_DTO
    <3>1. class.fields = <<"item_id", "name", "cost">>
      BY <2>2 DEF Item_DTO
    <3>2. /\ N = 3 /\ DOMAIN class.fields = 1..3
          /\ \A i, j \in 1..3 : class.fields[i] = class.fields[j] => i = j
          /\ Fields = {"item_id", "name", "cost"}
      BY <1>1, <3>1
    <3>3. \A x \in DOMAIN class.keys : class.keys[x] \in {"name", "cost"}
      BY <2>2 DEF Item_DTO
    <3>4. QED BY <3>2, <3>3
  <2>3. CASE class = Order_DTO
    <3>1. class.fields = <<"order_id", "account_id", "name">>
      BY <2>3 DEF Order_DTO
    <3>2. /\ N = 3 /\ DOMAIN class.fields = 1..3
          /\ \A i, j \in 1..3 : class.fields[i] = class.fields[j] => i = j
          /\ Fields = {"order_id", "account_id", "name"}
      BY <1>1, <3>1
    <3>3. \A x \in DOMAIN class.keys : class.keys[x] \in {"account_id", "name"}
      BY <2>3 DEF Order_DTO
    <3>4. QED BY <3>2, <3>3
  <2>4. CASE class = Order_item_DTO
    <3>1. class.fields = <<"order_item_id", "order_id", "item_id">>
      BY <2>4 DEF Order_item_DTO
    <3>2. /\ N = 3 /\ DOMAIN class.fields = 1..3
          /\ \A i, j \in 1..3 : class.fields[i] = class.fields[j] => i = j
          /\ Fields = {"order_item_id", "order_id", "item_id"}
      BY <1>1, <3>1
    <3>3. \A x \in DOMAIN class.keys : class.keys[x] \in {"order_id", "item_id"}
      BY <2>4 DEF Order_item_DTO
    <3>4. QED BY <3>2, <3>3
  <2>5. QED BY <2>1, <2>2, <2>3, <2>4 DEF Classes
<1>4. \A k \in 1..N : class.fields[k] \in Fields /\ Place(class.fields[k]) = k
  <2> SUFFICES ASSUME NEW k \in 1..N
               PROVE  class.fields[k] \in Fields /\ Place(class.fields[k]) = k
    OBVIOUS
  <2>1. class.fields[k] \in Fields
    BY <1>3 DEF Fields, ToSet
  <2>2. \A n \in 1..N : class.fields[n] = class.fields[k] => n = k
    BY <1>3
  <2>3. Place(class.fields[k]) = CHOOSE n \in 1..N : class.fields[n] = class.fields[k]
    BY <1>3 DEF Place
  <2>4. QED BY <2>1, <2>2, <2>3
<1>5. \A f \in Fields : \E k \in 1..N : class.fields[k] = f
  BY <1>3 DEF Fields, ToSet
<1>6. N \in Nat /\ N >= 3 /\ 1 \in 1..N
  BY <1>3
<1>7. Id \in Fields /\ Place(Id) = 1
  BY <1>4, <1>6 DEF Id
<1>8. \A f \in Fields : Place(f) \in 1..N /\ class.fields[Place(f)] = f
  BY <1>4, <1>5
<1>9. QED BY <1>3, <1>4, <1>6, <1>7, <1>8

\* The bytes of a key: the string up to its first NUL, and a NUL.
LEMMA KeyIs ==
    ASSUME NEW s \in Text
    PROVE  Key(s) = Terminated(s) /\ Key(s) \in Text /\ Last(Key(s)) = NUL
<1> DEFINE q == <<s>>
<1>1. q \in [1..1 -> Text] /\ q[1] = s /\ 1 \in Nat \ {0}
  OBVIOUS
<1>2. Key(s) = Bdb_dbt(q)
  BY DEF Key
<1> HIDE DEF q
<1>3. Key(s) \in Text /\ Last(Key(s)) = NUL
  BY <1>1, <1>2, Unpacked
<1>4. PICK P : Layout(q, 1, P)
  BY <1>1, Filled
<1>5. 1 \in 1..1 /\ 1 - 1 = 0 /\ P[0] = 0 /\ Len(C_str(s)) \in Nat
  BY <1>4, C_strIs, TextIs DEF Layout, Plain
<1>6. Len(Bdb_dbt(q)) = P[1] /\ P[1] = P[0] + Len(C_str(q[1])) + 1
  BY <1>4, <1>5 DEF Layout
<1>7. Len(Bdb_dbt(q)) = Len(C_str(s)) + 1
  BY <1>1, <1>5, <1>6
<1>8. \A i \in 1..(Len(C_str(s)) + 1) : Bdb_dbt(q)[0 + i] = Terminated(s)[i]
  BY <1>1, <1>4, <1>5 DEF Layout
<1>9. \A i \in 1..(Len(C_str(s)) + 1) : Bdb_dbt(q)[i] = Terminated(s)[i]
  BY <1>5, <1>8
<1>10. Bdb_dbt(q) \in Seq(Char) /\ Terminated(s) \in Seq(Char)
       /\ Len(Terminated(s)) = Len(C_str(s)) + 1
  BY <1>2, <1>3, TerminatedIs DEF Text
<1>11. Bdb_dbt(q) = Terminated(s)
  BY <1>7, <1>9, <1>10, SeqEqual
<1>12. QED BY <1>2, <1>3, <1>11

\* What is written for a record, and what is read from it.
LEMMA DataIs ==
    ASSUME class \in Classes, NEW dto \in DTO
    PROVE  /\ Data(dto) \in Text
           /\ Len(Tokenize(Data(dto), NUL)) = N + 1 /\ Last(Tokenize(Data(dto), NUL)) = <<>>
           /\ Deserialize(Data(dto)) = AsStored(dto)
           /\ \A x \in DOMAIN class.keys : Extract(x, Data(dto)) = Terminated(dto[class.keys[x]])
<1> DEFINE q == [n \in 1..N |-> dto[class.fields[n]]]
           T == [k \in 1..(N + 1) |-> IF k <= N THEN C_str(q[k]) ELSE <<>>]
<1>1. /\ N \in Nat \ {0} /\ DOMAIN class.fields = 1..N
      /\ \A k \in 1..N : class.fields[k] \in Fields
      /\ \A f \in Fields : Place(f) \in 1..N /\ class.fields[Place(f)] = f
      /\ \A x \in DOMAIN class.keys : class.keys[x] \in Fields
  BY ClassFacts
<1>2. q \in [1..N -> Text] /\ Data(dto) = Bdb_dbt(q)
  BY <1>1 DEF DTO, Data
<1>3. Data(dto) \in Text /\ Tokenize(Data(dto), NUL) = T
  <2> HIDE DEF q
  <2> QED BY <1>1, <1>2, Unpacked
<1>4. \A k \in 1..N : C_str(q[k]) \in Text
  BY <1>2, C_strIs DEF Plain
<1>5. Len(T) = N + 1 /\ Last(T) = <<>>
  <2> HIDE DEF q
  <2>1. N + 1 \in Nat /\ N + 1 \in 1..(N + 1) /\ ~(N + 1 <= N)
    BY <1>1
  <2>2. \A k \in 1..(N + 1) : k <= N => k \in 1..N
    BY <1>1
  <2>3. T \in [1..(N + 1) -> Text]
    BY <1>4, <2>1, <2>2, EmptySeq DEF Text
  <2>4. T \in Seq(Text) /\ DOMAIN T = 1..(N + 1)
    BY <2>1, <2>3, SeqDef
  <2>5. T[N + 1] = <<>>
    BY <2>1
  <2> HIDE DEF T
  <2>6. Len(T) \in Nat /\ 1..Len(T) = 1..(N + 1)
    BY <2>4, LenProperties
  <2>7. Len(T) = N + 1
    <3>1. \A a, b \in Nat : 1..a = 1..b => a = b
      <4> SUFFICES ASSUME NEW a \in Nat, NEW b \in Nat, 1..a = 1..b, a # b PROVE FALSE
        OBVIOUS
      <4>1. (a > b /\ a \in 1..a /\ ~(a \in 1..b)) \/ (b > a /\ b \in 1..b /\ ~(b \in 1..a))
        OBVIOUS
      <4>2. QED BY <4>1
    <3>2. QED BY <2>1, <2>6, <3>1
  <2>8. QED BY <2>5, <2>7 DEF Last
<1>6. ASSUME NEW f \in Fields
      PROVE  Tokenize(Data(dto), NUL)[Place(f)] = C_str(dto[f])
  <2>1. Place(f) \in 1..N /\ Place(f) \in 1..(N + 1) /\ Place(f) <= N
    BY <1>1
  <2>2. T[Place(f)] = C_str(q[Place(f)]) /\ q[Place(f)] = dto[f]
    BY <1>1, <2>1
  <2> HIDE DEF q, T
  <2>3. QED BY <1>3, <2>2
<1>7. Deserialize(Data(dto)) = AsStored(dto)
  BY <1>6 DEF Deserialize, AsStored
<1>8. ASSUME NEW x \in DOMAIN class.keys
      PROVE  Extract(x, Data(dto)) = Terminated(dto[class.keys[x]])
  <2>1. AsStored(dto)[class.keys[x]] = C_str(dto[class.keys[x]])
    BY <1>1 DEF AsStored
  <2>2. QED BY <1>7, <2>1 DEF Extract, Terminated
<1>9. QED
  <2> HIDE DEF T
  <2> QED BY <1>3, <1>5, <1>7, <1>8

-----------------------------------------------------------------------------
(* The inductive invariant: each row is the last DTO given for its id.      *)

\* The key of an id without a NUL.
Bare(id) == id \o <<NUL>>

\* The maps from texts to V, and the maps of which nothing else is known.
Maps(V) == UNION {[K -> V] : K \in SUBSET Text}
IsMap(r) == r = [k \in DOMAIN r |-> r[k]]

\* Rows and records have the same ids, and each row is written from its record.
Matches(r, g) ==
    /\ IsMap(r) /\ IsMap(g)
    /\ \A id \in DOMAIN g : Plain(id) /\ g[id] \in DTO /\ C_str(g[id][Id]) = id
    /\ DOMAIN r = {Bare(id) : id \in DOMAIN g}
    /\ \A id \in DOMAIN g : r[Bare(id)] = Data(g[id])

\* The inductive invariant.
IInv == class \in Classes /\ Matches(rows, given)

\* Maps with the same places and values are the same.
LEMMA MapsAre ==
    ASSUME NEW V, NEW r
    PROVE  r \in Maps(V) <=> IsMap(r) /\ DOMAIN r \subseteq Text /\ \A k \in DOMAIN r : r[k] \in V
<1>1. ASSUME r \in Maps(V)
      PROVE  IsMap(r) /\ DOMAIN r \subseteq Text /\ \A k \in DOMAIN r : r[k] \in V
  <2>1. PICK K \in SUBSET Text : r \in [K -> V]
    BY <1>1 DEF Maps
  <2>2. QED BY <2>1 DEF IsMap
<1>2. ASSUME IsMap(r), DOMAIN r \subseteq Text, \A k \in DOMAIN r : r[k] \in V
      PROVE  r \in Maps(V)
  <2>1. r \in [DOMAIN r -> V]
    BY <1>2 DEF IsMap
  <2>2. QED BY <1>2, <2>1 DEF Maps
<1>3. QED BY <1>1, <1>2

\* Different ids have different keys.
LEMMA BareIs ==
    ASSUME NEW id \in Text
    PROVE  /\ Bare(id) \in Text /\ Last(Bare(id)) = NUL
           /\ Plain(id) => Key(id) = Bare(id)
           /\ \A other \in Text : Bare(id) = Bare(other) => id = other
<1>1. id \in Seq(Char) /\ <<NUL>> \in Seq(Char) /\ Len(<<NUL>>) = 1 /\ <<NUL>>[1] = NUL
  BY DEF Text, Char, NUL
<1>2. Len(id) \in Nat
  BY <1>1, LenProperties
<1>3. /\ Bare(id) \in Text /\ Len(Bare(id)) = Len(id) + 1
      /\ \A i \in 1..(Len(id) + 1) : Bare(id)[i] = IF i <= Len(id) THEN id[i] ELSE <<NUL>>[i - Len(id)]
  BY <1>1, ConcatProperties DEF Bare, Text
<1>4. Bare(id)[Len(id) + 1] = NUL
  <2>1. Len(id) + 1 \in 1..(Len(id) + 1) /\ ~(Len(id) + 1 <= Len(id)) /\ (Len(id) + 1) - Len(id) = 1
    BY <1>2
  <2>2. QED BY <1>1, <1>3, <2>1
<1>5. Plain(id) => Key(id) = Bare(id)
  BY KeyIs, C_strOfPlain DEF Terminated, Bare
<1>6. ASSUME NEW other \in Text, Bare(id) = Bare(other) PROVE id = other
  <2>1. other \in Seq(Char) /\ Len(other) \in Nat
    BY LenProperties DEF Text
  <2>2. /\ Len(Bare(other)) = Len(other) + 1
        /\ \A i \in 1..(Len(other) + 1) :
              Bare(other)[i] = IF i <= Len(other) THEN other[i] ELSE <<NUL>>[i - Len(other)]
    BY <1>1, <2>1, ConcatProperties DEF Bare
  <2>3. Len(id) = Len(other)
    BY <1>2, <1>3, <1>6, <2>1, <2>2
  <2>4. ASSUME NEW i \in 1..Len(id) PROVE id[i] = other[i]
    <3>1. i \in 1..(Len(id) + 1) /\ i \in 1..(Len(other) + 1) /\ i <= Len(id) /\ i <= Len(other)
      BY <1>2, <2>3
    <3>2. QED BY <1>3, <1>6, <2>2, <3>1
  <2>5. QED BY <1>1, <2>1, <2>3, <2>4, SeqEqual
<1>7. QED BY <1>3, <1>4, <1>5, <1>6 DEF Last

\* A save and the note of it go together.
LEMMA PutMatches ==
    ASSUME class \in Classes, NEW r, NEW g, Matches(r, g), NEW dto \in DTO
    PROVE  Matches(Put(r, dto), Note(g, dto))
<1> DEFINE id == C_str(dto[Id])
           key == Key(dto[Id])
           R == Put(r, dto)
           G == Note(g, dto)
<1>1. dto[Id] \in Text
  BY ClassFacts DEF DTO
<1>2. Plain(id) /\ id \in Text /\ key = Bare(id)
  BY <1>1, C_strIs, KeyIs DEF Plain, Terminated, Bare
<1>3. /\ R = [k \in DOMAIN r \cup {key} |-> IF k = key THEN Data(dto) ELSE r[k]]
      /\ G = [k \in DOMAIN g \cup {id} |-> IF k = id THEN dto ELSE g[k]]
  BY DEF Put, Note
<1>4. IsMap(R) /\ IsMap(G)
  BY <1>3 DEF IsMap
<1>5. DOMAIN R = DOMAIN r \cup {key} /\ DOMAIN G = DOMAIN g \cup {id}
  BY <1>3
<1>6. /\ R[key] = Data(dto) /\ \A k \in DOMAIN r : k # key => R[k] = r[k]
      /\ G[id] = dto /\ \A k \in DOMAIN g : k # id => G[k] = g[k]
  BY <1>3
<1> HIDE DEF R, G, key
<1>7. ASSUME NEW i \in DOMAIN G
      PROVE  Plain(i) /\ G[i] \in DTO /\ C_str(G[i][Id]) = i
  <2>1. CASE i = id
    BY <1>2, <1>6, <2>1
  <2>2. CASE i # id
    <3>1. i \in DOMAIN g /\ G[i] = g[i]
      BY <1>5, <1>6, <2>2
    <3>2. QED BY <3>1 DEF Matches
  <2>3. QED BY <2>1, <2>2
<1>8. DOMAIN R = {Bare(i) : i \in DOMAIN G}
  <2>1. DOMAIN r = {Bare(i) : i \in DOMAIN g}
    BY DEF Matches
  <2> HIDE DEF id
  <2>2. QED BY <1>2, <1>5, <2>1
<1>9. ASSUME NEW i \in DOMAIN G PROVE R[Bare(i)] = Data(G[i])
  <2>1. CASE i = id
    BY <1>2, <1>6, <2>1
  <2>2. CASE i # id
    <3>1. i \in DOMAIN g /\ G[i] = g[i]
      BY <1>5, <1>6, <2>2
    <3>2. i \in Text /\ Bare(i) \in DOMAIN r /\ r[Bare(i)] = Data(g[i])
      BY <3>1 DEF Matches, Plain
    <3>3. Bare(i) # key
      BY <1>2, <2>2, <3>2, BareIs
    <3>4. QED BY <1>6, <3>1, <3>2, <3>3
  <2>3. QED BY <2>1, <2>2
<1>10. Matches(R, G)
  <2> HIDE DEF id
  <2> QED BY <1>4, <1>7, <1>8, <1>9 DEF Matches
<1>11. QED BY <1>10 DEF R, G

\* The types of the two maps, which a fold over saves needs.
LEMMA PutTyped ==
    ASSUME class \in Classes, NEW dto \in DTO
    PROVE  /\ \A r \in Maps(Text) : Put(r, dto) \in Maps(Text)
           /\ \A g \in Maps(DTO) : Note(g, dto) \in Maps(DTO)
<1>1. dto[Id] \in Text
  BY ClassFacts DEF DTO
<1>2. Key(dto[Id]) \in Text /\ C_str(dto[Id]) \in Text /\ Data(dto) \in Text
  BY <1>1, KeyIs, C_strIs, DataIs DEF Plain
<1>3. ASSUME NEW r \in Maps(Text) PROVE Put(r, dto) \in Maps(Text)
  <2> DEFINE R == Put(r, dto)
  <2>1. R = [k \in DOMAIN r \cup {Key(dto[Id])} |-> IF k = Key(dto[Id]) THEN Data(dto) ELSE r[k]]
    BY DEF Put
  <2>2. DOMAIN r \subseteq Text /\ \A k \in DOMAIN r : r[k] \in Text
    BY MapsAre
  <2>3. IsMap(R) /\ DOMAIN R \subseteq Text /\ \A k \in DOMAIN R : R[k] \in Text
    BY <1>2, <2>1, <2>2 DEF IsMap
  <2> HIDE DEF R
  <2>4. R \in Maps(Text)
    BY <2>3, MapsAre
  <2>5. QED BY <2>4 DEF R
<1>4. ASSUME NEW g \in Maps(DTO) PROVE Note(g, dto) \in Maps(DTO)
  <2> DEFINE G == Note(g, dto)
  <2>1. G = [k \in DOMAIN g \cup {C_str(dto[Id])} |-> IF k = C_str(dto[Id]) THEN dto ELSE g[k]]
    BY DEF Note
  <2>2. DOMAIN g \subseteq Text /\ \A k \in DOMAIN g : g[k] \in DTO
    BY MapsAre
  <2>3. IsMap(G) /\ DOMAIN G \subseteq Text /\ \A k \in DOMAIN G : G[k] \in DTO
    BY <1>2, <2>1, <2>2 DEF IsMap
  <2> HIDE DEF G
  <2>4. G \in Maps(DTO)
    BY <2>3, MapsAre
  <2>5. QED BY <2>4 DEF G
<1>5. QED BY <1>3, <1>4

\* Rows and records that match have their types.
LEMMA MatchesTyped ==
    ASSUME class \in Classes, NEW r, NEW g, Matches(r, g)
    PROVE  r \in Maps(Text) /\ g \in Maps(DTO)
<1>1. g \in Maps(DTO)
  BY MapsAre DEF Matches, Plain
<1>2. ASSUME NEW k \in DOMAIN r PROVE k \in Text /\ r[k] \in Text
  <2>1. PICK id \in DOMAIN g : k = Bare(id)
    BY DEF Matches
  <2>2. id \in Text /\ g[id] \in DTO /\ r[k] = Data(g[id])
    BY <2>1 DEF Matches, Plain
  <2>3. QED BY <2>1, <2>2, BareIs, DataIs
<1>3. QED BY <1>1, <1>2, MapsAre DEF Matches

\* A load saves the records one after another.
PutAll(r, q) == FoldLeft(Put, r, q)
NoteAll(g, q) == FoldLeft(Note, g, q)

\* The saves of a load, one by one.
LEMMA PutsChain ==
    ASSUME class \in Classes, NEW n \in Nat, NEW q \in [1..n -> DTO], NEW r \in Maps(Text)
    PROVE  \E F \in [0..n -> Maps(Text)] :
              /\ F[0] = r /\ \A k \in 1..n : F[k] = Put(F[k - 1], q[k])
              /\ Ends(F, n, PutAll(r, q))
<1> DEFINE B == Maps(Text)
           G == [p \in B \X (1..n) |-> Put(p[1], q[p[2]])]
           Fold(h) == h = [s \in SUBSET (1..n) |->
                             IF s = {} THEN r ELSE Put(h[s \ {Max(s)}], q[Max(s)])]
<1>1. G \in [B \X (1..n) -> B]
  BY PutTyped
<1> HIDE DEF B
<1>2. PICK h \in [SUBSET (1..n) -> B] : LeftSteps(h, n, B, r, G)
  <2>1. r \in B
    BY DEF B
  <2> HIDE DEF G
  <2>2. QED BY <1>1, <2>1, LeftFoldExists
<1>3. Fold(h)
  <2>1. ASSUME NEW s \in SUBSET (1..n)
        PROVE  h[s] = IF s = {} THEN r ELSE Put(h[s \ {Max(s)}], q[Max(s)])
    <3>1. CASE s # {}
      <4>1. Max(s) \in 1..n /\ h[s \ {Max(s)}] \in B
        BY <3>1, MaxIsLast
      <4>2. QED BY <1>2, <3>1, <4>1 DEF LeftSteps
    <3>2. QED BY <1>2, <3>1 DEF LeftSteps
  <2>2. QED BY <2>1
<1>4. PutAll(r, q) = (CHOOSE f : Fold(f))[1..n]
  <2>1. DOMAIN q = 1..n
    OBVIOUS
  <2>2. QED BY <2>1, Zenon DEF PutAll, FoldLeft, MapThenFoldSet
<1>5. PICK f : Fold(f) /\ PutAll(r, q) = f[1..n]
  <2> HIDE DEF Fold
  <2> QED BY <1>3, <1>4
<1>6. LeftSteps(f, n, B, r, G)
  <2>1. ASSUME NEW s \in SUBSET (1..n), s # {}, f[s \ {Max(s)}] \in B
        PROVE  f[s] = G[<<f[s \ {Max(s)}], Max(s)>>]
    <3>1. Max(s) \in 1..n
      BY <2>1, MaxIsLast
    <3>2. f[s] = Put(f[s \ {Max(s)}], q[Max(s)])
      BY <1>5, <2>1
    <3>3. QED BY <2>1, <3>1, <3>2
  <2>2. f[{}] = r
    BY <1>5
  <2> HIDE DEF G, Fold
  <2>3. QED BY <2>1, <2>2 DEF LeftSteps
<1>7. PICK F \in [0..n -> B] : LeftChain(F, n, r, G) /\ Ends(F, n, f[1..n])
  <2>1. r \in B
    BY DEF B
  <2> HIDE DEF G, Fold
  <2>2. QED BY <1>1, <1>6, <2>1, LeftFoldSteps
<1>8. \A k \in 1..n : F[k] = Put(F[k - 1], q[k])
  <2>1. \A k \in 1..n : k - 1 \in 0..n
    OBVIOUS
  <2>2. QED BY <1>7, <2>1 DEF LeftChain
<1>9. QED BY <1>5, <1>7, <1>8 DEF LeftChain, Ends, B

\* The notes of a load, one by one.
LEMMA NotesChain ==
    ASSUME class \in Classes, NEW n \in Nat, NEW q \in [1..n -> DTO], NEW r \in Maps(DTO)
    PROVE  \E F \in [0..n -> Maps(DTO)] :
              /\ F[0] = r /\ \A k \in 1..n : F[k] = Note(F[k - 1], q[k])
              /\ Ends(F, n, NoteAll(r, q))
<1> DEFINE B == Maps(DTO)
           G == [p \in B \X (1..n) |-> Note(p[1], q[p[2]])]
           Fold(h) == h = [s \in SUBSET (1..n) |->
                             IF s = {} THEN r ELSE Note(h[s \ {Max(s)}], q[Max(s)])]
<1>1. G \in [B \X (1..n) -> B]
  BY PutTyped
<1> HIDE DEF B
<1>2. PICK h \in [SUBSET (1..n) -> B] : LeftSteps(h, n, B, r, G)
  <2>1. r \in B
    BY DEF B
  <2> HIDE DEF G
  <2>2. QED BY <1>1, <2>1, LeftFoldExists
<1>3. Fold(h)
  <2>1. ASSUME NEW s \in SUBSET (1..n)
        PROVE  h[s] = IF s = {} THEN r ELSE Note(h[s \ {Max(s)}], q[Max(s)])
    <3>1. CASE s # {}
      <4>1. Max(s) \in 1..n /\ h[s \ {Max(s)}] \in B
        BY <3>1, MaxIsLast
      <4>2. QED BY <1>2, <3>1, <4>1 DEF LeftSteps
    <3>2. QED BY <1>2, <3>1 DEF LeftSteps
  <2>2. QED BY <2>1
<1>4. NoteAll(r, q) = (CHOOSE f : Fold(f))[1..n]
  <2>1. DOMAIN q = 1..n
    OBVIOUS
  <2>2. QED BY <2>1, Zenon DEF NoteAll, FoldLeft, MapThenFoldSet
<1>5. PICK f : Fold(f) /\ NoteAll(r, q) = f[1..n]
  <2> HIDE DEF Fold
  <2> QED BY <1>3, <1>4
<1>6. LeftSteps(f, n, B, r, G)
  <2>1. ASSUME NEW s \in SUBSET (1..n), s # {}, f[s \ {Max(s)}] \in B
        PROVE  f[s] = G[<<f[s \ {Max(s)}], Max(s)>>]
    <3>1. Max(s) \in 1..n
      BY <2>1, MaxIsLast
    <3>2. f[s] = Note(f[s \ {Max(s)}], q[Max(s)])
      BY <1>5, <2>1
    <3>3. QED BY <2>1, <3>1, <3>2
  <2>2. f[{}] = r
    BY <1>5
  <2> HIDE DEF G, Fold
  <2>3. QED BY <2>1, <2>2 DEF LeftSteps
<1>7. PICK F \in [0..n -> B] : LeftChain(F, n, r, G) /\ Ends(F, n, f[1..n])
  <2>1. r \in B
    BY DEF B
  <2> HIDE DEF G, Fold
  <2>2. QED BY <1>1, <1>6, <2>1, LeftFoldSteps
<1>8. \A k \in 1..n : F[k] = Note(F[k - 1], q[k])
  <2>1. \A k \in 1..n : k - 1 \in 0..n
    OBVIOUS
  <2>2. QED BY <1>7, <2>1 DEF LeftChain
<1>9. QED BY <1>5, <1>7, <1>8 DEF LeftChain, Ends, B

-----------------------------------------------------------------------------
(* Text files.                                                             *)

\* A text with given delimiters takes apart into what lies between them.
LEMMA Tokens ==
    ASSUME NEW s \in Text, NEW d
    PROVE  /\ Tokenize(s, d) \in Seq(Text) /\ Len(Tokenize(s, d)) \in Nat \ {0}
           /\ Plain(s) => \A n \in 1..Len(Tokenize(s, d)) : Plain(Tokenize(s, d)[n])
           /\ Len(Tokenize(s, d)) = Cardinality({p \in DOMAIN s : s[p] = d}) + 1
<1>0. PICK m \in Nat : \E P : Cuts(s, d, m, P)
  BY Pieces
<1>1. PICK P :
          /\ Enumerates(P, m, Stops(s, d)) /\ m >= 1 /\ P[m] = Len(s) + 1
          /\ Tokenize(s, d) = [n \in 1..m |-> SubSeq(s, P[n - 1] + 1, P[n] - 1)]
  BY <1>0 DEF Cuts
<1>2. Len(s) \in Nat /\ DOMAIN s = 1..Len(s) /\ \A n \in 1..Len(s) : s[n] \in Char
  BY TextIs
<1>3. ASSUME NEW n \in 1..m
      PROVE  /\ SubSeq(s, P[n - 1] + 1, P[n] - 1) \in Text
             /\ Plain(s) => Plain(SubSeq(s, P[n - 1] + 1, P[n] - 1))
  <2>1. n - 1 \in 0..m /\ n \in 0..m /\ m \in 0..m /\ (n = m \/ n < m)
    OBVIOUS
  <2>2. P[n - 1] \in Nat /\ P[n] \in Nat /\ P[m] \in Nat /\ (n = m \/ P[n] < P[m])
    BY <1>1, <2>1 DEF Enumerates
  <2> DEFINE lo == P[n - 1] + 1
             hi == P[n] - 1
             t == SubSeq(s, lo, hi)
  <2>3. lo \in Int /\ hi \in Int /\ lo >= 1 /\ hi <= Len(s)
    <3> DEFINE x == P[n - 1]
               y == P[n]
               z == P[m]
               l == Len(s)
    <3>1. x \in Nat /\ y \in Nat /\ z \in Nat /\ l \in Nat /\ (y = z \/ y < z) /\ z = l + 1
      BY <1>1, <1>2, <2>2
    <3> HIDE DEF x, y, z, l
    <3>2. x + 1 \in Int /\ y - 1 \in Int /\ x + 1 >= 1 /\ y - 1 <= l
      BY <3>1
    <3>3. QED BY <3>2 DEF x, y, l
  <2> HIDE DEF lo, hi
  <2>4. \A i \in lo..hi : i \in 1..Len(s)
    BY <1>2, <2>3
  <2>5. \A i \in lo..hi : s[i] \in Char
    BY <1>2, <2>4
  <2>6. /\ t \in Seq(Char) /\ Len(t) = (IF lo <= hi THEN (hi - lo) + 1 ELSE 0)
        /\ \A i \in 1..((hi - lo) + 1) : t[i] = s[(lo + i) - 1]
    BY <2>3, <2>5, SubSeqProperties
  <2> HIDE DEF t
  <2>7. ASSUME Plain(s) PROVE Plain(t)
    <3> SUFFICES ASSUME NEW i \in 1..Len(t) PROVE t[i] # NUL
      BY <2>6 DEF Plain, Text
    <3>1. lo <= hi /\ i \in 1..((hi - lo) + 1)
      BY <2>3, <2>6
    <3>2. (lo + i) - 1 \in lo..hi
      BY <2>3, <3>1
    <3>3. t[i] = s[(lo + i) - 1] /\ (lo + i) - 1 \in 1..Len(s)
      BY <2>4, <2>6, <3>1, <3>2
    <3>4. QED BY <2>7, <3>3 DEF Plain
  <2>8. t \in Text /\ (Plain(s) => Plain(t))
    BY <2>6, <2>7 DEF Text
  <2>9. QED BY <2>8 DEF t, lo, hi
<1> DEFINE T == Tokenize(s, d)
<1>4. T \in [1..m -> Text] /\ \A n \in 1..m : Plain(s) => Plain(T[n])
  BY <1>1, <1>3
<1> HIDE DEF T
<1>5. T \in Seq(Text) /\ Len(T) = m
  <2>1. T \in Seq(Text) /\ DOMAIN T = 1..m
    BY <1>4, SeqDef
  <2>2. Len(T) \in Nat /\ 1..Len(T) = 1..m
    BY <2>1, LenProperties
  <2>3. m \in 1..m /\ ~(m + 1 \in 1..m) /\ (Len(T) > m => m + 1 \in 1..Len(T))
    BY <1>1, <2>2
  <2>4. QED BY <2>1, <2>2, <2>3
<1>6. m = Cardinality({p \in DOMAIN s : s[p] = d}) + 1
  <2> DEFINE X == {p \in DOMAIN s : s[p] = d}
             l == Len(s) + 1
  <2>1. IsFiniteSet(DOMAIN s)
    BY <1>2, FS_Interval
  <2>2. IsFiniteSet(X)
    BY <2>1, FS_Subset
  <2>3. 0 \notin X /\ l \notin X \cup {0}
    BY <1>2
  <2>4. Stops(s, d) = (X \cup {0}) \cup {l}
    BY DEF Stops
  <2> HIDE DEF X, l
  <2>5. Cardinality(X \cup {0}) = Cardinality(X) + 1 /\ IsFiniteSet(X \cup {0})
    BY <2>2, <2>3, FS_AddElement
  <2>6. Cardinality((X \cup {0}) \cup {l}) = Cardinality(X \cup {0}) + 1
    BY <2>3, <2>5, FS_AddElement
  <2>7. Cardinality(Stops(s, d)) = m + 1
    BY <1>1, Ranks
  <2>8. Cardinality(X) \in Nat
    BY <2>2, FS_CardinalityType
  <2>9. m + 1 = (Cardinality(X) + 1) + 1
    BY <2>4, <2>5, <2>6, <2>7
  <2>10. m = Cardinality(X) + 1
    BY <2>8, <2>9
  <2>11. QED BY <2>10 DEF X
<1>7. m \in Nat \ {0}
  BY <1>1
<1>8. QED BY <1>4, <1>5, <1>6, <1>7 DEF T

\* A set of naturals that is not empty has a minimum.
LEMMA MinIs ==
    ASSUME NEW S \in SUBSET Nat, S # {}
    PROVE  Min(S) \in S /\ \A x \in S : Min(S) <= x
<1> DEFINE R == OpToRel(<, Nat)
<1>1. IsWellFoundedOn(R, Nat)
  BY NatLessThanWellFounded
<1>2. PICK x \in S : \A y \in S : ~(<<y, x>> \in R)
  <2> HIDE DEF R
  <2> QED BY <1>1, WFMin
<1>3. \A y \in S : x <= y
  <2> SUFFICES ASSUME NEW y \in S, ~(x <= y) PROVE FALSE
    OBVIOUS
  <2>1. x \in Nat /\ y \in Nat /\ y < x
    OBVIOUS
  <2>2. <<y, x>> \in R
    BY <2>1 DEF OpToRel
  <2>3. QED BY <1>2, <2>2
<1>4. QED BY <1>3 DEF Min

\* The lines of a text file are texts.
LEMMA LinesAre ==
    ASSUME NEW file \in Text
    PROVE  Lines(file) \in Seq(Text) /\ Len(Lines(file)) \in Nat
<1> DEFINE T == Tokenize(file, NEWLINE)
<1>1. T \in Seq(Text) /\ Len(T) \in Nat \ {0}
  BY Tokens
<1> HIDE DEF T
<1>2. \A i \in 1..(Len(T) - 1) : T[i] \in Text
  <2>1. \A i \in 1..(Len(T) - 1) : i \in 1..Len(T)
    BY <1>1
  <2>2. QED BY <1>1, <2>1, ElementOfSeq
<1>3. 1 \in Int /\ Len(T) - 1 \in Int
  BY <1>1
<1>4. SubSeq(T, 1, Len(T) - 1) \in Seq(Text)
  BY <1>2, <1>3, SubSeqProperties
<1>5. Lines(file) \in Seq(Text)
  BY <1>4 DEF Lines, Front, T
<1>6. QED BY <1>5, LenProperties

\* The first m records are accepted, up to a bad one or the end of the file.
Accepts(file, m) ==
    /\ m \in Nat /\ DOMAIN Accepted(file) = 1..m
    /\ \A k \in 1..m : /\ k + 1 \in 1..Len(Lines(file)) /\ Accepted(file)[k] = Lines(file)[k + 1]
                       /\ ~BadLine(Lines(file)[k + 1])
    /\ m + 2 <= Len(Lines(file)) => BadLine(Lines(file)[m + 2])

\* There is such a number m for every file.
LEMMA AcceptedAre ==
    ASSUME NEW file \in Text
    PROVE  \E m : Accepts(file, m)
<1> DEFINE L == Lines(file)
           R == Records(file)
           A == Accepted(file)
           I == {i \in 1..Len(R) : BadLine(R[i])}
<1>1. L \in Seq(Text) /\ Len(L) \in Nat
  BY LinesAre
<1>2. A = IF I = {} \/ Min(I) = 0 THEN R ELSE SubSeq(R, 1, Min(I) - 1)
  BY DEF Accepted, SelectInSeq
<1>3. /\ R \in Seq(Text) /\ Len(R) \in Nat /\ DOMAIN R = 1..Len(R)
      /\ \A k \in 1..Len(R) : k + 1 \in 1..Len(L) /\ R[k] = L[k + 1]
      /\ \A k \in Nat : k + 1 <= Len(L) => k <= Len(R)
  <2> HIDE DEF L, R
  <2>1. CASE L = <<>>
    <3>1. R = <<>> /\ Len(L) = 0 /\ R \in Seq(Text) /\ Len(R) = 0
      BY <2>1, EmptySeq DEF L, R, Records
    <3>2. DOMAIN R = 1..Len(R)
      BY <3>1, LenProperties
    <3>3. QED BY <3>1, <3>2
  <2>2. CASE L # <<>>
    <3>1. R = Tail(L)
      BY <2>2 DEF L, R, Records
    <3>2. /\ R \in Seq(Text) /\ Len(R) = Len(L) - 1
          /\ \A k \in 1..Len(R) : R[k] = L[k + 1]
      BY <1>1, <2>2, <3>1, HeadTailProperties
    <3>3. Len(R) \in Nat /\ DOMAIN R = 1..Len(R)
      BY <3>2, LenProperties
    <3>4. QED BY <1>1, <3>2, <3>3
  <2>3. QED BY <2>1, <2>2
<1> HIDE DEF L, R, A
<1>4. CASE I = {}
  <2>1. A = R /\ DOMAIN A = 1..Len(R) /\ \A k \in 1..Len(R) : A[k] = L[k + 1] /\ ~BadLine(L[k + 1])
    BY <1>2, <1>3, <1>4
  <2>2. ~(Len(R) + 2 <= Len(L))
    <3>1. (Len(R) + 1) + 1 <= Len(L) => Len(R) + 1 <= Len(R)
      BY <1>3
    <3>2. QED BY <1>1, <1>3, <3>1
  <2>3. Accepts(file, Len(R))
    BY <1>3, <2>1, <2>2 DEF Accepts, L, A
  <2>4. QED BY <2>3
<1>5. CASE I # {}
  <2> DEFINE b == Min(I)
             m == b - 1
  <2>1. b \in I /\ \A x \in I : b <= x
    <3>1. I \in SUBSET Nat
      BY <1>3
    <3> HIDE DEF I
    <3>2. QED BY <1>5, <3>1, MinIs
  <2> HIDE DEF b
  <2>2. b \in 1..Len(R) /\ BadLine(R[b]) /\ m \in Nat /\ b # 0
    BY <1>3, <2>1
  <2>3. A = SubSeq(R, 1, m)
    BY <1>2, <1>5, <2>2 DEF b
  <2>4. \A k \in 1..m : k \in 1..Len(R) /\ k \notin I
    BY <1>3, <2>1, <2>2
  <2>5. \A k \in 1..m : R[k] \in Text
    BY <1>3, <2>4, ElementOfSeq
  <2>6. A \in Seq(Text) /\ Len(A) = m /\ \A k \in 1..m : A[k] = R[k]
    <3>1. 1 \in Int /\ m \in Int
      BY <2>2
    <3> HIDE DEF m
    <3>2. /\ A \in Seq(Text) /\ Len(A) = (IF 1 <= m THEN (m - 1) + 1 ELSE 0)
          /\ \A k \in 1..((m - 1) + 1) : A[k] = R[(1 + k) - 1]
      BY <2>3, <2>5, <3>1, SubSeqProperties
    <3>3. \A k \in 1..m : (1 + k) - 1 = k /\ k \in 1..((m - 1) + 1)
      BY <3>1
    <3>4. QED BY <2>2, <3>2, <3>3
  <2>7. DOMAIN A = 1..m
    BY <2>6, LenProperties
  <2>8. \A k \in 1..m : /\ k + 1 \in 1..Len(L) /\ A[k] = L[k + 1]
                        /\ ~BadLine(L[k + 1])
    BY <1>3, <2>4, <2>6
  <2>9. m + 2 = b + 1 /\ BadLine(L[b + 1])
    BY <1>3, <2>2
  <2>10. Accepts(file, m)
    <3> HIDE DEF m
    <3> QED BY <2>2, <2>7, <2>8, <2>9 DEF Accepts, L, A
  <2>11. QED BY <2>10
<1>6. QED BY <1>4, <1>5

\* The records of a load are DTOs.
LEMMA LoadedAre ==
    ASSUME class \in Classes, NEW file \in Text, NEW m, Accepts(file, m)
    PROVE  /\ m \in Nat /\ Loaded(file) \in [1..m -> DTO]
           /\ \A k \in 1..m : /\ k + 1 \in 1..Len(Lines(file))
                              /\ Loaded(file)[k] = Parse(Lines(file)[k + 1])
<1> DEFINE L == Lines(file)
<1>1. L \in Seq(Text)
  BY LinesAre
<1>2. Loaded(file) = [k \in 1..m |-> Parse(L[k + 1])]
  BY DEF Loaded, Accepts
<1> HIDE DEF L
<1>3. ASSUME NEW k \in 1..m PROVE Parse(L[k + 1]) \in DTO
  <2>1. k + 1 \in 1..Len(L) /\ Len(Tokenize(L[k + 1], TAB)) = N
    BY DEF Accepts, BadLine, N, L
  <2>2. L[k + 1] \in Text
    BY <1>1, <2>1, ElementOfSeq
  <2>3. Tokenize(L[k + 1], TAB) \in Seq(Text)
    BY <2>2, Tokens
  <2>4. \A f \in Fields : Tokenize(L[k + 1], TAB)[Place(f)] \in Text
    BY <2>1, <2>3, ClassFacts, ElementOfSeq
  <2>5. QED BY <2>4 DEF Parse, DTO
<1>4. QED BY <1>2, <1>3 DEF Accepts, L

-----------------------------------------------------------------------------
(* The invariant is inductive.                                             *)

\* Rows and records still match after saving any number of DTOs.
LEMMA FoldsMatch ==
    ASSUME class \in Classes, Matches(rows, given), NEW n \in Nat, NEW q \in [1..n -> DTO]
    PROVE  Matches(PutAll(rows, q), NoteAll(given, q))
<1>1. rows \in Maps(Text) /\ given \in Maps(DTO)
  BY MatchesTyped
<1>2. PICK F \in [0..n -> Maps(Text)] : /\ F[0] = rows
                                        /\ \A k \in 1..n : F[k] = Put(F[k - 1], q[k])
                                        /\ Ends(F, n, PutAll(rows, q))
  BY <1>1, PutsChain
<1>3. PICK G \in [0..n -> Maps(DTO)] : /\ G[0] = given
                                       /\ \A k \in 1..n : G[k] = Note(G[k - 1], q[k])
                                       /\ Ends(G, n, NoteAll(given, q))
  BY <1>1, NotesChain
<1> DEFINE K == {k \in Nat : k <= n => Matches(F[k], G[k])}
<1>4. 0 \in K
  BY <1>2, <1>3
<1>5. ASSUME NEW k \in Nat, k \in K PROVE k + 1 \in K
  <2> SUFFICES ASSUME k + 1 <= n PROVE Matches(F[k + 1], G[k + 1])
    OBVIOUS
  <2> DEFINE j == k + 1
  <2>1. j \in 1..n /\ j - 1 = k /\ k <= n
    OBVIOUS
  <2>2. Matches(F[k], G[k])
    BY <1>5, <2>1
  <2> HIDE DEF K, j
  <2>3. F[j] = Put(F[k], q[j]) /\ G[j] = Note(G[k], q[j]) /\ q[j] \in DTO
    BY <1>2, <1>3, <2>1
  <2>4. Matches(F[j], G[j])
    BY <2>2, <2>3, PutMatches
  <2>5. QED BY <2>4 DEF j
<1>6. n \in K
  <2> HIDE DEF K
  <2> QED BY <1>4, <1>5, NatInd
<1>7. QED BY <1>2, <1>3, <1>6 DEF Ends

\* A load keeps the match of rows and records.
LEMMA LoadMatches ==
    ASSUME class \in Classes, Matches(rows, given), NEW file \in Text
    PROVE  Matches(RowsAfter(file), NoteAll(given, Loaded(file)))
<1>1. PICK m : Accepts(file, m)
  BY AcceptedAre
<1>2. m \in Nat /\ Loaded(file) \in [1..m -> DTO]
  BY <1>1, LoadedAre
<1>3. QED BY <1>2, FoldsMatch DEF RowsAfter, PutAll

\* The empty database matches.
LEMMA InitIInv == Init => IInv
<1> SUFFICES ASSUME Init PROVE IInv
  OBVIOUS
<1>1. DOMAIN rows = {} /\ DOMAIN given = {} /\ class \in Classes
  BY DEF Init
<1>2. IsMap(rows) /\ IsMap(given)
  BY DEF IsMap, Init
<1>3. QED BY <1>1, <1>2 DEF IInv, Matches

\* A load and an update keep the invariant.
LEMMA NextIInv == IInv /\ [Next]_vars => IInv'
<1> SUFFICES ASSUME IInv, [Next]_vars PROVE IInv'
  OBVIOUS
<1>1. class \in Classes /\ Matches(rows, given)
  BY DEF IInv
<1>2. ASSUME class' = class, Matches(rows, given)'
      PROVE  IInv'
  BY <1>1, <1>2 DEF IInv
<1>3. ASSUME NEW r, NEW g, class' = class, rows' = r, given' = g, Matches(r, g)
      PROVE  IInv'
  <2>1. Matches(rows, given)'
    BY <1>3 DEF Matches, IsMap, DTO, Fields, Id, Data
  <2>2. QED BY <1>2, <1>3, <2>1
<1>4. ASSUME NEW file \in Files, Load(file) PROVE IInv'
  <2>1. file \in Text
    BY RecordCodecAssumption
  <2>2. QED BY <1>1, <1>3, <1>4, <2>1, LoadMatches DEF Load, NoteAll
<1>5. ASSUME NEW dto \in [Fields -> Args], Update(dto) PROVE IInv'
  <2>1. dto \in DTO
    BY RecordCodecAssumption DEF DTO
  <2>2. QED BY <1>1, <1>3, <1>5, <2>1, PutMatches DEF Update
<1>6. ASSUME UNCHANGED vars PROVE IInv'
  BY <1>1, <1>3, <1>6 DEF vars
<1>7. QED BY <1>4, <1>5, <1>6 DEF Next

\* For all files and arguments, every row of the database is the buffer of the
\* DTO that was last given for its id, and every id given has a row.
THEOREM SpecIInv == Spec => []IInv
BY InitIInv, NextIInv, PTL DEF Spec

-----------------------------------------------------------------------------
(* What follows from it.                                                   *)

\* The row of an id that was given is the one written for it.
LEMMA RowIs ==
    ASSUME IInv, NEW id \in DOMAIN given
    PROVE  /\ id \in Text /\ given[id] \in DTO /\ Key(id) = Bare(id)
           /\ Bare(id) \in DOMAIN rows /\ rows[Bare(id)] = Data(given[id])
           /\ Deserialize(rows[Bare(id)]) = AsStored(given[id])
<1>1. /\ class \in Classes /\ Plain(id) /\ given[id] \in DTO
      /\ Bare(id) \in DOMAIN rows /\ rows[Bare(id)] = Data(given[id])
  BY DEF IInv, Matches
<1>2. id \in Text /\ Key(id) = Bare(id)
  BY <1>1, BareIs DEF Plain
<1>3. Deserialize(rows[Bare(id)]) = AsStored(given[id])
  BY <1>1, DataIs
<1>4. QED BY <1>1, <1>2, <1>3

\* Every row is of an id that was given.
LEMMA RowOfId ==
    ASSUME IInv, NEW k \in DOMAIN rows
    PROVE  \E id \in DOMAIN given : k = Bare(id)
BY DEF IInv, Matches

LEMMA IInvTypeOK == IInv => TypeOK
<1> SUFFICES ASSUME IInv PROVE TypeOK
  OBVIOUS
<1>1. \A k \in DOMAIN rows : k \in Text /\ Last(k) = NUL /\ rows[k] \in Text
  <2> SUFFICES ASSUME NEW k \in DOMAIN rows
               PROVE  k \in Text /\ Last(k) = NUL /\ rows[k] \in Text
    OBVIOUS
  <2>1. PICK id \in DOMAIN given : k = Bare(id)
    BY RowOfId
  <2>2. id \in Text /\ given[id] \in DTO /\ rows[k] = Data(given[id])
    BY <2>1, RowIs
  <2>3. class \in Classes
    BY DEF IInv
  <2>4. QED BY <2>1, <2>2, <2>3, BareIs, DataIs
<1>2. class \in Classes /\ \A id \in DOMAIN given : id \in Text /\ given[id] \in DTO
  BY RowIs DEF IInv
<1>3. QED BY <1>1, <1>2 DEF TypeOK

LEMMA IInvBuffersExact == IInv => BuffersExact
<1> SUFFICES ASSUME IInv, NEW k \in DOMAIN rows
             PROVE  /\ Len(Tokenize(rows[k], NUL)) = Len(class.fields) + 1
                    /\ Last(Tokenize(rows[k], NUL)) = <<>>
  BY DEF BuffersExact
<1>1. PICK id \in DOMAIN given : k = Bare(id)
  BY RowOfId
<1>2. given[id] \in DTO /\ rows[k] = Data(given[id]) /\ class \in Classes
  BY <1>1, RowIs DEF IInv
<1>3. QED BY <1>2, DataIs DEF N

LEMMA IInvRoundTrip == IInv => RoundTrip
<1> SUFFICES ASSUME IInv PROVE RoundTrip
  OBVIOUS
<1>1. ASSUME NEW id \in DOMAIN given PROVE Lookup(id) = Answer({AsStored(given[id])})
  BY RowIs DEF Lookup
<1>2. SelectAll = {AsStored(given[id]) : id \in DOMAIN given}
  <2>1. ASSUME NEW k \in DOMAIN rows
        PROVE  \E id \in DOMAIN given : Deserialize(rows[k]) = AsStored(given[id])
    BY RowOfId, RowIs
  <2>2. ASSUME NEW id \in DOMAIN given
        PROVE  \E k \in DOMAIN rows : Deserialize(rows[k]) = AsStored(given[id])
    BY RowIs
  <2>3. QED BY <2>1, <2>2 DEF SelectAll
<1>3. QED BY <1>1, <1>2 DEF RoundTrip

\* The values a select is made with are texts.
LEMMA ValuesAreText == IInv => Values \subseteq Text
<1> SUFFICES ASSUME IInv, NEW v \in Values PROVE v \in Text
  OBVIOUS
<1>1. CASE v \in Args
  BY <1>1, RecordCodecAssumption
<1>2. CASE v \notin Args
  <2>1. PICK id \in DOMAIN given, f \in Fields : v = given[id][f]
    <3> DEFINE X == {{given[id][f] : f \in Fields} : id \in DOMAIN given}
    <3>1. v \in UNION X
      BY <1>2, Zenon DEF Values
    <3>2. PICK S \in X : v \in S
      <4> HIDE DEF X
      <4> QED BY <3>1
    <3>3. QED BY <3>2
  <2>2. QED BY <2>1, RowIs DEF DTO
<1>3. QED BY <1>1, <1>2

LEMMA IInvSelectsExact == IInv => SelectsExact
<1> SUFFICES ASSUME IInv, NEW x \in DOMAIN class.keys, NEW v \in Values
             PROVE  LET f == class.keys[x]
                        wanted == {AsStored(given[id]) : id \in
                                     {i \in DOMAIN given : C_str(given[i][f]) = C_str(v)}}
                    IN  SelectAllFor(x, v) =
                          IF wanted = {} /\ x \notin IgnoresNotFound THEN Failed ELSE Answer(wanted)
  BY DEF SelectsExact
<1> DEFINE f == class.keys[x]
           ids == {i \in DOMAIN given : C_str(given[i][f]) = C_str(v)}
           wanted == {AsStored(given[id]) : id \in ids}
           keys == {k \in DOMAIN rows : Extract(x, rows[k]) = Key(v)}
<1>1. v \in Text /\ class \in Classes /\ f \in Fields
  BY ValuesAreText, ClassFacts DEF IInv
<1>2. ASSUME NEW id \in DOMAIN given
      PROVE  Bare(id) \in keys <=> id \in ids
  <2>1. /\ given[id] \in DTO /\ Bare(id) \in DOMAIN rows /\ rows[Bare(id)] = Data(given[id])
        /\ given[id][f] \in Text
    BY <1>1, RowIs DEF DTO
  <2>2. Extract(x, rows[Bare(id)]) = Bare(C_str(given[id][f]))
    BY <1>1, <2>1, DataIs DEF Terminated, Bare
  <2>3. Key(v) = Bare(C_str(v)) /\ C_str(v) \in Text /\ C_str(given[id][f]) \in Text
    BY <1>1, <2>1, KeyIs, C_strIs DEF Terminated, Bare, Plain
  <2>4. Bare(C_str(given[id][f])) = Bare(C_str(v)) <=> C_str(given[id][f]) = C_str(v)
    BY <2>3, BareIs
  <2>5. QED BY <2>1, <2>2, <2>3, <2>4
<1> HIDE DEF f, ids, keys
<1>3. ASSUME NEW k \in keys
      PROVE  \E id \in ids : k = Bare(id) /\ Deserialize(rows[k]) = AsStored(given[id])
  <2>1. PICK id \in DOMAIN given : k = Bare(id)
    BY RowOfId DEF keys
  <2>2. QED BY <1>2, <2>1, RowIs
<1>4. ASSUME NEW id \in ids
      PROVE  \E k \in keys : Deserialize(rows[k]) = AsStored(given[id])
  <2>1. id \in DOMAIN given
    BY DEF ids
  <2>2. QED BY <1>2, <2>1, RowIs
<1>5. (keys = {}) <=> (wanted = {})
  BY <1>3, <1>4
<1>6. {Deserialize(rows[k]) : k \in keys} = wanted
  BY <1>3, <1>4
<1>7. SelectAllFor(x, v) = IF keys = {} /\ x \notin IgnoresNotFound
                           THEN Failed ELSE Answer({Deserialize(rows[k]) : k \in keys})
  BY DEF SelectAllFor, keys
<1> HIDE DEF wanted
<1>8. SelectAllFor(x, v) = IF wanted = {} /\ x \notin IgnoresNotFound
                           THEN Failed ELSE Answer(wanted)
  BY <1>5, <1>6, <1>7
<1>9. QED BY <1>8 DEF wanted, ids, f

\* Keys and rows are always byte sequences, and each key ends with a NUL.
THEOREM SpecTypeOK == Spec => []TypeOK
BY SpecIInv, IInvTypeOK, PTL

\* A stored buffer is full: one terminated string per field of the class, so
\* nothing is written or read beyond it, whatever the fields contain.
THEOREM SpecBuffersExact == Spec => []BuffersExact
BY SpecIInv, IInvBuffersExact, PTL

\* A lookup and a select of all read each record as it was last given, every
\* field up to its first NUL, after any number of loads and updates.
THEOREM SpecRoundTrip == Spec => []RoundTrip
BY SpecIInv, IInvRoundTrip, PTL

\* A select through a secondary database gives exactly the records that have
\* the value in that field, whatever bytes the value and the records have.
THEOREM SpecSelectsExact == Spec => []SelectsExact
BY SpecIInv, IInvSelectsExact, PTL

-----------------------------------------------------------------------------
(* What a load stores.                                                     *)

\* Joined goes field by field.
LEMMA JoinedIs ==
    ASSUME class \in Classes, NEW dto \in DTO
    PROVE  \E F \in [0..(N - 1) -> Text] :
              /\ F[0] = dto[Id]
              /\ \A k \in 1..(N - 1) : F[k] = F[k - 1] \o <<TAB>> \o dto[class.fields[k + 1]]
              /\ Ends(F, N - 1, Joined(dto))
<1> DEFINE n == N - 1
           q == Tail(class.fields)
           G == [p \in Text \X (1..n) |-> p[1] \o <<TAB>> \o dto[q[p[2]]]]
           base == dto[Id]
           Fold(h) == h = [s \in SUBSET (1..n) |->
                             IF s = {} THEN base ELSE h[s \ {Max(s)}] \o <<TAB>> \o dto[q[Max(s)]]]
<1>1. /\ n \in Nat /\ base \in Text /\ DOMAIN q = 1..n
      /\ \A k \in 1..n : q[k] = class.fields[k + 1] /\ dto[q[k]] \in Text
  <2>1. /\ N \in Nat /\ N >= 3 /\ DOMAIN class.fields = 1..N /\ Id \in Fields
        /\ \A k \in 1..N : class.fields[k] \in Fields
    BY ClassFacts
  <2>2. class.fields \in Seq(Fields)
    <3>1. class.fields = <<class.fields[1], class.fields[2], class.fields[3]>>
          \/ class.fields = <<class.fields[1], class.fields[2], class.fields[3], class.fields[4]>>
      BY DEF Classes, Account_DTO, Item_DTO, Order_DTO, Order_item_DTO
    <3>2. class.fields = [k \in 1..N |-> class.fields[k]]
      BY <3>1 DEF N
    <3>3. class.fields \in [1..N -> Fields]
      BY <2>1, <3>2
    <3>4. QED BY <2>1, <3>3, SeqDef
  <2>3. class.fields # <<>> /\ Len(class.fields) = N
    BY <2>1 DEF N
  <2>4. /\ q \in Seq(Fields) /\ Len(q) = N - 1
        /\ \A k \in 1..Len(q) : q[k] = class.fields[k + 1]
    BY <2>2, <2>3, HeadTailProperties
  <2>5. DOMAIN q = 1..Len(q)
    BY <2>4, LenProperties
  <2>6. \A k \in 1..n : k + 1 \in 1..N
    BY <2>1
  <2> HIDE DEF q
  <2>7. \A k \in 1..n : q[k] = class.fields[k + 1] /\ q[k] \in Fields
    BY <2>1, <2>4, <2>6
  <2>8. QED BY <2>1, <2>4, <2>5, <2>7 DEF DTO
<1> HIDE DEF n, q, base
<1>2. G \in [Text \X (1..n) -> Text]
  <2>1. <<TAB>> \in Text
    BY DEF Text, Char, TAB
  <2>2. \A s, t \in Text : s \o <<TAB>> \o t \in Text
    BY <2>1, ConcatProperties DEF Text
  <2>3. QED BY <1>1, <2>2
<1>3. PICK h \in [SUBSET (1..n) -> Text] : LeftSteps(h, n, Text, base, G)
  <2> HIDE DEF G
  <2> QED BY <1>1, <1>2, LeftFoldExists
<1>4. Fold(h)
  <2>1. ASSUME NEW s \in SUBSET (1..n)
        PROVE  h[s] = IF s = {} THEN base ELSE h[s \ {Max(s)}] \o <<TAB>> \o dto[q[Max(s)]]
    <3>1. CASE s # {}
      <4>1. Max(s) \in 1..n /\ h[s \ {Max(s)}] \in Text
        BY <1>1, <3>1, MaxIsLast
      <4>2. QED BY <1>3, <3>1, <4>1 DEF LeftSteps
    <3>2. QED BY <1>3, <3>1 DEF LeftSteps
  <2>2. QED BY <2>1
<1>5. Joined(dto) = (CHOOSE f : Fold(f))[1..n]
  BY <1>1, Zenon DEF Joined, FoldLeft, MapThenFoldSet, q, base
<1>6. PICK f : Fold(f) /\ Joined(dto) = f[1..n]
  <2> HIDE DEF Fold
  <2> QED BY <1>4, <1>5
<1>7. LeftSteps(f, n, Text, base, G)
  <2>1. ASSUME NEW s \in SUBSET (1..n), s # {}, f[s \ {Max(s)}] \in Text
        PROVE  f[s] = G[<<f[s \ {Max(s)}], Max(s)>>]
    <3>1. Max(s) \in 1..n
      BY <1>1, <2>1, MaxIsLast
    <3>2. f[s] = f[s \ {Max(s)}] \o <<TAB>> \o dto[q[Max(s)]]
      BY <1>6, <2>1
    <3>3. QED BY <2>1, <3>1, <3>2
  <2>2. f[{}] = base
    BY <1>6
  <2> HIDE DEF G, Fold
  <2>3. QED BY <2>1, <2>2 DEF LeftSteps
<1>8. PICK F \in [0..n -> Text] : LeftChain(F, n, base, G) /\ Ends(F, n, f[1..n])
  <2> HIDE DEF G, Fold
  <2> QED BY <1>1, <1>2, <1>7, LeftFoldSteps
<1>9. \A k \in 1..n : F[k] = F[k - 1] \o <<TAB>> \o dto[class.fields[k + 1]]
  <2>1. \A k \in 1..n : k - 1 \in 0..n
    BY <1>1
  <2>2. QED BY <1>1, <1>8, <2>1 DEF LeftChain
<1>10. F[0] = base /\ Ends(F, n, Joined(dto))
  BY <1>6, <1>8 DEF LeftChain
<1> HIDE DEF Fold, G
<1>11. QED BY <1>9, <1>10 DEF n, base

\* A plain line is what its record is joined to.
LEMMA JoinedLine ==
    ASSUME class \in Classes, NEW line, Plain(line), ~BadLine(line)
    PROVE  Joined(AsStored(Parse(line))) = line
<1>0. PICK m \in Nat : \E P : Cuts(line, TAB, m, P)
  <2>1. line \in Text
    BY DEF Plain
  <2>2. QED BY <2>1, Pieces
<1>1. PICK P :
          /\ Enumerates(P, m, Stops(line, TAB)) /\ m >= 1 /\ P[m] = Len(line) + 1
          /\ Tokenize(line, TAB) = [i \in 1..m |-> SubSeq(line, P[i - 1] + 1, P[i] - 1)]
  BY <1>0 DEF Cuts
<1>2. /\ line \in Seq(Char) /\ Len(line) \in Nat /\ DOMAIN line = 1..Len(line)
  BY LenProperties DEF Plain, Text
<1> DEFINE T == Tokenize(line, TAB)
<1>3. T \in Seq(Text) /\ Len(T) = N /\ \A k \in 1..N : Plain(T[k])
  BY Tokens DEF Plain, BadLine, N
<1>4. N \in Nat /\ N >= 3 /\ Id \in Fields /\ Place(Id) = 1
      /\ \A k \in 1..N : class.fields[k] \in Fields /\ Place(class.fields[k]) = k
      /\ \A f \in Fields : Place(f) \in 1..N
  BY ClassFacts
<1>5. m = N
  <2>1. DOMAIN T = 1..m /\ DOMAIN T = 1..N
    BY <1>1, <1>3, LenProperties
  <2>2. m \in 1..m /\ N \in 1..N
    BY <1>1, <1>4
  <2>3. m \in 1..N /\ N \in 1..m
    BY <2>1, <2>2
  <2>4. QED BY <2>3
<1>6. ASSUME NEW k \in 1..N
      PROVE  /\ T[k] = SubSeq(line, P[k - 1] + 1, P[k] - 1)
             /\ P[k - 1] \in Nat /\ P[k] \in Nat /\ P[k - 1] < P[k] /\ P[k] <= Len(line) + 1
  <2>1. k \in 1..m /\ k - 1 \in 0..m /\ k \in 0..m /\ m \in 0..m /\ (k = m \/ k < m) /\ k - 1 < k
    BY <1>5
  <2>2. P[k - 1] \in Nat /\ P[k] \in Nat /\ P[k - 1] < P[k] /\ (k = m \/ P[k] < P[m]) /\ P[m] \in Nat
    BY <1>1, <2>1 DEF Enumerates
  <2>3. P[k] <= Len(line) + 1
    BY <1>1, <2>2
  <2>4. QED BY <1>1, <2>1, <2>2, <2>3
<1> DEFINE dto == AsStored(Parse(line))
<1> HIDE DEF T
<1>7. /\ dto \in DTO /\ dto[Id] = T[1]
      /\ \A k \in 1..N : dto[class.fields[k]] = T[k]
  <2>1. ASSUME NEW f \in Fields PROVE dto[f] = T[Place(f)] /\ T[Place(f)] \in Text
    <3>1. Parse(line)[f] = T[Place(f)]
      BY DEF Parse, T
    <3>2. Plain(T[Place(f)])
      BY <1>3, <1>4
    <3>3. dto[f] = C_str(Parse(line)[f])
      BY DEF AsStored
    <3>4. QED BY <3>1, <3>2, <3>3, C_strOfPlain DEF Plain
  <2>2. dto = [f \in Fields |-> dto[f]]
    BY DEF AsStored
  <2> HIDE DEF dto
  <2>3. QED BY <1>4, <2>1, <2>2 DEF DTO
<1> HIDE DEF dto
<1>8. PICK F \in [0..(N - 1) -> Text] :
          /\ F[0] = dto[Id]
          /\ \A k \in 1..(N - 1) : F[k] = F[k - 1] \o <<TAB>> \o dto[class.fields[k + 1]]
          /\ Ends(F, N - 1, Joined(dto))
  BY <1>7, JoinedIs
<1>9. P[0] = 0 /\ P[N] = Len(line) + 1
  BY <1>1, <1>5 DEF Enumerates
<1> DEFINE K == {k \in Nat : k <= N - 1 => F[k] = SubSeq(line, 1, P[k + 1] - 1)}
<1>10. 0 \in K
  <2>1. 1 \in 1..N /\ 1 - 1 = 0 /\ 0 + 1 = 1
    BY <1>4
  <2>2. T[1] = SubSeq(line, 0 + 1, P[1] - 1)
    BY <1>6, <1>9, <2>1
  <2>3. QED BY <1>7, <1>8, <2>1, <2>2
<1>11. ASSUME NEW k \in Nat, k \in K PROVE k + 1 \in K
  <2> SUFFICES ASSUME k + 1 <= N - 1 PROVE F[k + 1] = SubSeq(line, 1, P[(k + 1) + 1] - 1)
    OBVIOUS
  <2> DEFINE j == k + 1
             i == j + 1
  <2>1. j \in 1..(N - 1) /\ j - 1 = k /\ i \in 1..N /\ j \in 1..N /\ i - 1 = j /\ k <= N - 1
    BY <1>4
  <2>2. F[k] = SubSeq(line, 1, P[j] - 1)
    BY <1>11, <2>1
  <2> HIDE DEF K, j
  <2>3. F[j] = F[k] \o <<TAB>> \o dto[class.fields[i]]
    BY <1>8, <2>1
  <2> HIDE DEF i
  <2>4. dto[class.fields[i]] = SubSeq(line, P[j] + 1, P[i] - 1)
    BY <1>6, <1>7, <2>1
  <2>5. P[j] \in Nat /\ P[i] \in Nat /\ P[j] < P[i] /\ P[i] <= Len(line) + 1 /\ P[j] >= 1
    <3>1. P[j - 1] \in Nat /\ P[j - 1] < P[j] /\ P[j] \in Nat
      BY <1>6, <2>1
    <3>2. P[j] < P[i] /\ P[i] \in Nat /\ P[i] <= Len(line) + 1
      BY <1>6, <2>1
    <3>3. QED BY <3>1, <3>2
  <2>6. P[j] \in 1..Len(line) /\ line[P[j]] = TAB
    <3>1. P[j] \in 1..Len(line)
      BY <1>2, <2>5
    <3>2. j \in 0..m
      BY <1>5, <2>1
    <3>3. P[j] \in Stops(line, TAB)
      BY <1>1, <3>2 DEF Enumerates
    <3>4. P[j] # 0 /\ P[j] # Len(line) + 1
      BY <1>2, <3>1
    <3>5. QED BY <3>1, <3>3, <3>4 DEF Stops
  <2>7. SubSeq(line, P[j], P[j]) = <<TAB>>
    <3> DEFINE p == P[j]
               t == SubSeq(line, p, p)
    <3>1. p \in Int /\ line[p] = TAB /\ \A l \in p..p : line[l] \in Char
      BY <2>6 DEF Char, TAB
    <3> HIDE DEF p
    <3>2. /\ t \in Seq(Char) /\ Len(t) = (IF p <= p THEN (p - p) + 1 ELSE 0)
          /\ \A l \in 1..((p - p) + 1) : t[l] = line[(p + l) - 1]
      BY <3>1, SubSeqProperties
    <3> HIDE DEF t
    <3>3. Len(t) = 1 /\ 1 \in 1..((p - p) + 1) /\ (p + 1) - 1 = p
      BY <3>1, <3>2
    <3>4. t[1] = TAB
      BY <3>1, <3>2, <3>3
    <3>5. <<TAB>> \in Seq(Char) /\ Len(<<TAB>>) = 1 /\ <<TAB>>[1] = TAB
      BY DEF Char, TAB
    <3>6. t = <<TAB>>
      BY <3>2, <3>3, <3>4, <3>5, SeqEqual
    <3>7. QED BY <3>6 DEF t, p
  <2> DEFINE x == P[j]
             y == P[i]
             a == SubSeq(line, 1, x - 1)
             b == SubSeq(line, x, x)
             c == SubSeq(line, x + 1, y - 1)
  <2>8. x \in Nat /\ y \in Nat /\ x < y /\ y <= Len(line) + 1 /\ x >= 1
    BY <2>5
  <2> HIDE DEF x, y
  <2>9. a \o b = SubSeq(line, 1, x)
    <3>1. 1 \in 1..(Len(line) + 1) /\ x - 1 \in (1 - 1)..Len(line) /\ x \in (x - 1)..Len(line)
          /\ (x - 1) + 1 = x
      BY <1>2, <2>8
    <3>2. SubSeq(line, 1, x - 1) \o SubSeq(line, (x - 1) + 1, x) = SubSeq(line, 1, x)
      BY <1>2, <3>1, ConcatAdjacentSubSeq
    <3>3. QED BY <3>1, <3>2
  <2>10. SubSeq(line, 1, x) \o c = SubSeq(line, 1, y - 1)
    <3>1. 1 \in 1..(Len(line) + 1) /\ x \in (1 - 1)..Len(line) /\ y - 1 \in x..Len(line)
      BY <1>2, <2>8
    <3>2. QED BY <1>2, <3>1, ConcatAdjacentSubSeq
  <2>11. F[j] = a \o b \o c
    <3>1. F[k] = a /\ <<TAB>> = b /\ dto[class.fields[i]] = c
      BY <2>2, <2>4, <2>7 DEF x, y
    <3> HIDE DEF a, b, c
    <3>2. QED BY <2>3, <3>1
  <2>12. F[j] = SubSeq(line, 1, P[i] - 1)
    <3> HIDE DEF a, b, c
    <3> QED BY <2>9, <2>10, <2>11 DEF y
  <2>13. QED BY <2>12 DEF i, j
<1>12. N - 1 \in K
  <2>1. N - 1 \in Nat
    BY <1>4
  <2> HIDE DEF K
  <2>2. QED BY <1>10, <1>11, <2>1, NatInd
<1>13. F[N - 1] = SubSeq(line, 1, Len(line))
  <2>1. (N - 1) + 1 = N /\ (Len(line) + 1) - 1 = Len(line)
    BY <1>2, <1>4
  <2>2. F[N - 1] = SubSeq(line, 1, P[(N - 1) + 1] - 1)
    BY <1>4, <1>12
  <2>3. QED BY <1>9, <2>1, <2>2
<1>14. F[N - 1] = line
  BY <1>2, <1>13, SubSeqFull
<1>15. Joined(dto) = line
  BY <1>8, <1>14 DEF Ends
<1>16. QED BY <1>15 DEF dto

\* g and h say the same of an id.
Agree(g, h, id) ==
    (id \in DOMAIN g <=> id \in DOMAIN h) /\ (id \in DOMAIN g => g[id] = h[id])

\* Which of the records q have an id.
With(q, n, id) == {k \in 1..n : C_str(q[k][Id]) = id}

\* After a load an id has the last of its records, or what it had.
LEMMA LastCounts ==
    ASSUME class \in Classes, Matches(rows, given), NEW n \in Nat, NEW q \in [1..n -> DTO],
           NEW id
    PROVE  /\ With(q, n, id) = {} => Agree(NoteAll(given, q), given, id)
           /\ \A l \in With(q, n, id) : (\A k \in With(q, n, id) : k <= l)
                 => id \in DOMAIN NoteAll(given, q) /\ NoteAll(given, q)[id] = q[l]
<1>1. PICK G \in [0..n -> Maps(DTO)] : /\ G[0] = given
                                       /\ \A k \in 1..n : G[k] = Note(G[k - 1], q[k])
                                       /\ Ends(G, n, NoteAll(given, q))
  BY MatchesTyped, NotesChain
<1>2. ASSUME NEW k \in 1..n
      PROVE  /\ k \notin With(q, n, id) => Agree(G[k], G[k - 1], id)
             /\ k \in With(q, n, id) => id \in DOMAIN G[k] /\ G[k][id] = q[k]
  <2> DEFINE i == C_str(q[k][Id])
             g == G[k - 1]
  <2>1. G[k] = [x \in DOMAIN g \cup {i} |-> IF x = i THEN q[k] ELSE g[x]]
    BY <1>1 DEF Note
  <2>2. k \in With(q, n, id) <=> i = id
    BY DEF With
  <2> HIDE DEF i, g
  <2>3. i # id => (id \in DOMAIN G[k] <=> id \in DOMAIN g) /\ (id \in DOMAIN g => G[k][id] = g[id])
    BY <2>1
  <2>4. i = id => id \in DOMAIN G[k] /\ G[k][id] = q[k]
    BY <2>1
  <2>5. QED BY <2>2, <2>3, <2>4 DEF Agree, g
<1>3. ASSUME NEW l \in 0..n, \A k \in 1..n : k > l => k \notin With(q, n, id)
      PROVE  Agree(G[n], G[l], id)
  <2> DEFINE K == {k \in Nat : l <= k /\ k <= n => Agree(G[k], G[l], id)}
  <2>1. \A k \in Nat : l = k => Agree(G[k], G[l], id)
    BY DEF Agree
  <2>2. 0 \in K
    BY <2>1
  <2>3. ASSUME NEW k \in Nat, k \in K PROVE k + 1 \in K
    <3> SUFFICES ASSUME l <= k + 1, k + 1 <= n PROVE Agree(G[k + 1], G[l], id)
      OBVIOUS
    <3>1. CASE l = k + 1
      BY <3>1 DEF Agree
    <3>2. CASE l # k + 1
      <4> DEFINE j == k + 1
      <4>1. j \in 1..n /\ j - 1 = k /\ j > l /\ l <= k /\ k <= n
        BY <3>2
      <4>2. Agree(G[k], G[l], id)
        BY <2>3, <4>1
      <4> HIDE DEF K, j
      <4>3. Agree(G[j], G[k], id)
        BY <1>2, <1>3, <4>1
      <4>4. Agree(G[j], G[l], id)
        BY <4>2, <4>3 DEF Agree
      <4>5. QED BY <4>4 DEF j
    <3>3. QED BY <3>1, <3>2
  <2>4. n \in K
    <3> HIDE DEF K
    <3> QED BY <2>2, <2>3, NatInd
  <2>5. QED BY <2>4
<1>4. ASSUME With(q, n, id) = {} PROVE Agree(NoteAll(given, q), given, id)
  <2>1. 0 \in 0..n
    OBVIOUS
  <2>2. Agree(G[n], G[0], id)
    BY <1>3, <1>4, <2>1
  <2>3. QED BY <1>1, <2>2 DEF Ends
<1>5. ASSUME NEW l \in With(q, n, id), \A k \in With(q, n, id) : k <= l
      PROVE  id \in DOMAIN NoteAll(given, q) /\ NoteAll(given, q)[id] = q[l]
  <2>1. l \in 1..n /\ l \in 0..n
    BY DEF With
  <2>2. ASSUME NEW k \in 1..n, k > l PROVE k \notin With(q, n, id)
    <3>1. ~(k <= l)
      BY <2>1, <2>2
    <3>2. QED BY <1>5, <3>1
  <2>3. Agree(G[n], G[l], id)
    BY <1>3, <2>1, <2>2
  <2>4. id \in DOMAIN G[l] /\ G[l][id] = q[l]
    BY <1>2, <2>1
  <2>5. QED BY <1>1, <2>3, <2>4 DEF Agree, Ends
<1>6. QED BY <1>4, <1>5

\* What a plain select of an id gives, as a line.
LEMMA RowOfIs ==
    ASSUME class \in Classes, NEW r, NEW g, Matches(r, g), NEW id, Plain(id)
    PROVE  RowOf(r, id) = IF id \in DOMAIN g THEN Joined(AsStored(g[id])) ELSE <<>>
<1>1. id \in Text /\ Key(id) = Bare(id)
  BY BareIs DEF Plain
<1>2. Bare(id) \in DOMAIN r <=> id \in DOMAIN g
  <2>1. ASSUME Bare(id) \in DOMAIN r PROVE id \in DOMAIN g
    <3>1. PICK i \in DOMAIN g : Bare(id) = Bare(i)
      BY <2>1 DEF Matches
    <3>2. i \in Text
      BY DEF Matches, Plain
    <3>3. id = i
      BY <1>1, <3>1, <3>2, BareIs
    <3>4. QED BY <3>3
  <2>2. QED BY <2>1 DEF Matches
<1>3. ASSUME id \in DOMAIN g PROVE Deserialize(r[Bare(id)]) = AsStored(g[id])
  <2>1. r[Bare(id)] = Data(g[id]) /\ g[id] \in DTO
    BY <1>3 DEF Matches
  <2>2. QED BY <2>1, DataIs
<1>4. QED BY <1>1, <1>2, <1>3 DEF RowOf

\* The lines that a load accepts are those up to the first bad one.
Fits(file, n) ==
    /\ n \in 2..Len(Lines(file))
    /\ \A m \in 2..n : Cardinality({p \in DOMAIN Lines(file)[m] : Lines(file)[m][p] = TAB})
                         = Len(class.fields) - 1
LEMMA FitsIs ==
    ASSUME class \in Classes, NEW file \in Text, NEW m, Accepts(file, m), NEW n
    PROVE  Fits(file, n) <=> n \in 2..(m + 1)
<1> DEFINE L == Lines(file)
           Tabs(l) == Cardinality({p \in DOMAIN L[l] : L[l][p] = TAB})
<1>1. L \in Seq(Text) /\ Len(L) \in Nat /\ m \in Nat /\ N \in Nat
  BY LinesAre, ClassFacts DEF Accepts
<1>2. ASSUME NEW l \in 1..Len(L) PROVE BadLine(L[l]) <=> Tabs(l) # N - 1
  <2>1. L[l] \in Text
    BY <1>1, ElementOfSeq
  <2>2. Len(Tokenize(L[l], TAB)) = Tabs(l) + 1
    BY <2>1, Tokens
  <2>3. Tabs(l) \in Nat
    <3>1. DOMAIN L[l] = 1..Len(L[l]) /\ Len(L[l]) \in Nat
      BY <2>1, TextIs, LenProperties DEF Text
    <3>2. IsFiniteSet(DOMAIN L[l])
      BY <3>1, FS_Interval
    <3>3. IsFiniteSet({p \in DOMAIN L[l] : L[l][p] = TAB})
      BY <3>2, FS_Subset
    <3>4. QED BY <3>3, FS_CardinalityType
  <2>4. BadLine(L[l]) <=> Tabs(l) + 1 # N
    BY <2>2 DEF BadLine, N
  <2> HIDE DEF Tabs
  <2>5. QED BY <1>1, <2>3, <2>4
<1>3. Fits(file, n) <=> n \in 2..Len(L) /\ \A l \in 2..n : Tabs(l) = N - 1
  BY DEF Fits, N
<1>4. /\ \A k \in 1..m : k + 1 \in 1..Len(L) /\ ~BadLine(L[k + 1])
      /\ m + 2 <= Len(L) => BadLine(L[m + 2])
  BY DEF Accepts
<1> HIDE DEF L, Tabs
<1>5. ASSUME n \in 2..(m + 1) PROVE n \in 2..Len(L) /\ \A l \in 2..n : Tabs(l) = N - 1
  <2>1. ASSUME NEW l \in 2..(m + 1) PROVE l \in 2..Len(L) /\ Tabs(l) = N - 1
    <3>1. l - 1 \in 1..m /\ (l - 1) + 1 = l
      BY <1>1
    <3>2. l \in 1..Len(L) /\ ~BadLine(L[l])
      BY <1>4, <3>1
    <3>3. QED BY <1>2, <3>2
  <2>2. \A l \in 2..n : l \in 2..(m + 1)
    BY <1>1, <1>5
  <2>3. QED BY <1>5, <2>1, <2>2
<1>6. ASSUME n \in 2..Len(L), \A l \in 2..n : Tabs(l) = N - 1 PROVE n \in 2..(m + 1)
  <2> SUFFICES ASSUME n > m + 1 PROVE FALSE
    BY <1>1, <1>6
  <2>1. m + 2 \in 2..n /\ m + 2 <= Len(L) /\ m + 2 \in 1..Len(L)
    BY <1>1, <1>6
  <2>2. BadLine(L[m + 2]) /\ Tabs(m + 2) = N - 1
    BY <1>4, <1>6, <2>1
  <2>3. QED BY <1>2, <2>1, <2>2
<1>7. QED BY <1>3, <1>5, <1>6

\* The proof follows the lines of one file: L are its lines, m of its records
\* are accepted, and the last one of an id decides.
LEMMA IInvFileStored == IInv => FileStored
<1> SUFFICES ASSUME IInv, NEW file \in Files
             PROVE  LET lines == Lines(file)
                        Fit(n) == /\ n \in 2..Len(lines)
                                  /\ \A m \in 2..n :
                                        Cardinality({p \in DOMAIN lines[m] : lines[m][p] = TAB})
                                          = Len(class.fields) - 1
                        after == RowsAfter(file)
                        ids == {C_str(Tokenize(lines[n], TAB)[1]) : n \in DOMAIN lines} \cup DOMAIN given
                        Of(id) == {n \in DOMAIN lines : Fit(n) /\ StartsWith(lines[n], id)}
                    IN  \A id \in ids :
                          IF Of(id) = {} THEN RowOf(after, id) = RowOf(rows, id)
                          ELSE LET last == CHOOSE n \in Of(id) : \A m \in Of(id) : m <= n
                               IN  PlainText(lines[last]) => RowOf(after, id) = lines[last]
  BY DEF FileStored
<1> DEFINE L == Lines(file)
           Of(id) == {n \in DOMAIN L : Fits(file, n) /\ StartsWith(L[n], id)}
           ids == {C_str(Tokenize(L[n], TAB)[1]) : n \in DOMAIN L} \cup DOMAIN given
           top(id) == CHOOSE n \in Of(id) : \A m \in Of(id) : m <= n
           after == RowsAfter(file)
           q == Loaded(file)
           g == NoteAll(given, q)
<1>1. class \in Classes /\ Matches(rows, given) /\ file \in Text
  BY RecordCodecAssumption DEF IInv
<1>2. PICK m : Accepts(file, m)
  BY <1>1, AcceptedAre
<1>3. /\ m \in Nat /\ q \in [1..m -> DTO]
      /\ \A k \in 1..m : k + 1 \in 1..Len(L) /\ q[k] = Parse(L[k + 1]) /\ ~BadLine(L[k + 1])
  BY <1>1, <1>2, LoadedAre DEF Accepts
<1>4. Matches(after, g)
  BY <1>1, LoadMatches
<1>5. L \in Seq(Text) /\ DOMAIN L = 1..Len(L) /\ Len(L) \in Nat
  BY <1>1, LinesAre, LenProperties
<1> HIDE DEF L, q, g, after
<1>6. ASSUME NEW id \in ids PROVE Plain(id)
  <2>1. CASE id \in DOMAIN given
    BY <1>1, <2>1 DEF Matches
  <2>2. CASE id \notin DOMAIN given
    <3>1. PICK n \in DOMAIN L : id = C_str(Tokenize(L[n], TAB)[1])
      BY <2>2
    <3>2. L[n] \in Text
      BY <1>5, ElementOfSeq
    <3>3. Tokenize(L[n], TAB) \in Seq(Text) /\ 1 \in 1..Len(Tokenize(L[n], TAB))
      <4>1. /\ Tokenize(L[n], TAB) \in Seq(Text)
            /\ Len(Tokenize(L[n], TAB)) \in Nat \ {0}
        BY <3>2, Tokens
      <4>2. QED BY <4>1
    <3>4. Tokenize(L[n], TAB)[1] \in Text
      BY <3>3, ElementOfSeq
    <3>5. QED BY <3>1, <3>4, C_strIs
  <2>3. QED BY <2>1, <2>2
<1>7. ASSUME NEW id, NEW n
      PROVE  n \in Of(id) <=> n - 1 \in With(q, m, id) /\ n \in Nat
  <2>1. Fits(file, n) <=> n \in 2..(m + 1)
    BY <1>1, <1>2, FitsIs
  <2>2. ASSUME n \in 2..(m + 1)
        PROVE  n \in DOMAIN L /\ n - 1 \in 1..m
               /\ (StartsWith(L[n], id) <=> C_str(q[n - 1][Id]) = id)
    <3>1. n - 1 \in 1..m /\ (n - 1) + 1 = n
      BY <1>3, <2>2
    <3>2. n \in DOMAIN L /\ q[n - 1] = Parse(L[n])
      BY <1>3, <1>5, <3>1
    <3>3. Id \in Fields /\ Place(Id) = 1
      BY <1>1, ClassFacts
    <3>4. Parse(L[n])[Id] = Tokenize(L[n], TAB)[1]
      BY <3>3 DEF Parse
    <3>5. QED BY <3>1, <3>2, <3>4 DEF StartsWith
  <2>3. n - 1 \in 1..m /\ n \in Nat => n \in 2..(m + 1)
    BY <1>3
  <2>4. QED BY <2>1, <2>2, <2>3 DEF With
<1> HIDE DEF Of
<1>8. ASSUME NEW id \in ids
      PROVE  IF Of(id) = {} THEN RowOf(after, id) = RowOf(rows, id)
             ELSE PlainText(L[top(id)]) => RowOf(after, id) = L[top(id)]
  <2>1. Plain(id)
    BY <1>6
  <2>2. /\ RowOf(after, id) = IF id \in DOMAIN g THEN Joined(AsStored(g[id])) ELSE <<>>
        /\ RowOf(rows, id) = IF id \in DOMAIN given THEN Joined(AsStored(given[id])) ELSE <<>>
    BY <1>1, <1>4, <2>1, RowOfIs
  <2>3. /\ With(q, m, id) = {} => Agree(g, given, id)
        /\ \A l \in With(q, m, id) : (\A k \in With(q, m, id) : k <= l)
              => id \in DOMAIN g /\ g[id] = q[l]
    BY <1>1, <1>3, LastCounts DEF g
  <2>4. \A k \in With(q, m, id) : k \in 1..m /\ k + 1 \in Nat /\ (k + 1) - 1 = k /\ k + 1 \in Of(id)
    <3> SUFFICES ASSUME NEW k \in With(q, m, id)
                 PROVE  k \in 1..m /\ k + 1 \in Nat /\ (k + 1) - 1 = k /\ k + 1 \in Of(id)
      OBVIOUS
    <3>1. k \in 1..m
      BY DEF With
    <3>2. k + 1 \in Nat /\ (k + 1) - 1 = k
      BY <3>1
    <3>3. QED BY <1>7, <3>1, <3>2
  <2>5. CASE Of(id) = {}
    <3>1. With(q, m, id) = {}
      BY <2>4, <2>5
    <3>2. Agree(g, given, id)
      BY <2>3, <3>1
    <3>3. RowOf(after, id) = RowOf(rows, id)
      BY <2>2, <3>2 DEF Agree
    <3>4. QED BY <2>5, <3>3
  <2>6. CASE Of(id) # {}
    <3> DEFINE last == top(id)
    <3>1. last \in Of(id) /\ \A n \in Of(id) : n <= last
      <4>1. Of(id) \in SUBSET (1..(m + 1))
        <5> SUFFICES ASSUME NEW n \in Of(id) PROVE n \in 1..(m + 1)
          OBVIOUS
        <5>1. n - 1 \in 1..m /\ n \in Nat
          BY <1>7 DEF With
        <5>2. QED BY <1>3, <5>1
      <4>2. m + 1 \in Nat
        BY <1>3
      <4>3. \E n \in Of(id) : \A k \in Of(id) : k <= n
        <5>1. \A x, y \in Of(id) : x >= y <=> y <= x
          BY <4>1
        <5>2. \E x \in Of(id) : \A y \in Of(id) : x >= y
          BY <1>3, <2>6, <4>1, <4>2, MaxReached
        <5>3. QED BY <5>1, <5>2
      <4>4. QED BY <4>3
    <3> HIDE DEF last
    <3> DEFINE l == last - 1
    <3>2. l \in With(q, m, id) /\ last \in Nat /\ l \in 1..m /\ l + 1 = last
      <4>1. l \in With(q, m, id) /\ last \in Nat
        BY <1>7, <3>1
      <4>2. l \in 1..m
        BY <4>1 DEF With
      <4>3. QED BY <4>1, <4>2
    <3>3. \A k \in With(q, m, id) : k <= l
      <4> SUFFICES ASSUME NEW k \in With(q, m, id) PROVE k <= l
        OBVIOUS
      <4>1. k \in 1..m /\ k + 1 <= last
        BY <2>4, <3>1
      <4>2. QED BY <3>2, <4>1
    <3> HIDE DEF l
    <3>4. id \in DOMAIN g /\ g[id] = q[l]
      BY <2>3, <3>2, <3>3
    <3>5. q[l] = Parse(L[last]) /\ ~BadLine(L[last]) /\ L[last] \in Text
      BY <1>3, <1>5, <3>2, ElementOfSeq
    <3>6. ASSUME PlainText(L[last]) PROVE RowOf(after, id) = L[last]
      <4>1. Plain(L[last])
        <5>1. DOMAIN L[last] = 1..Len(L[last])
          BY <3>5, LenProperties DEF Text
        <5>2. QED BY <3>5, <3>6, <5>1 DEF PlainText, Plain, ToSet
      <4>2. Joined(AsStored(Parse(L[last]))) = L[last]
        BY <1>1, <3>5, <4>1, JoinedLine
      <4>3. QED BY <2>2, <3>4, <3>5, <4>2
    <3>7. QED BY <2>6, <3>6 DEF last
  <2>7. QED BY <2>5, <2>6
<1>9. QED
  <2> HIDE DEF ids, top
  <2> QED BY <1>8, Zenon DEF L, Of, ids, top, after, Fits

\* After a load of any file, an id has the last line for it ahead of the first
\* malformed one, field by field, and otherwise the row it had before.
THEOREM SpecFileStored == Spec => []FileStored
BY SpecIInv, IInvFileStored, PTL

==============================================================================
