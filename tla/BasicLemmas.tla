---------------------------- MODULE BasicLemmas ------------------------------
(***************************************************************************)
(* Lemmas about numbers, finite sets and sequences that the proofs about   *)
(* series of candles share: what Min and Max choose, induction over the    *)
(* naturals by a set of them (the library's takes an operator, which the   *)
(* provers cannot instantiate), and what is made by joining sequences.     *)
(***************************************************************************)
EXTENDS Integers, Sequences, FiniteSets, SequencesExt, WellFoundedInduction,
        FiniteSetTheorems, TLAPS

-----------------------------------------------------------------------------
(* Numbers *)

\* A non-empty set of naturals has a least element, and Min is it.
LEMMA LeastNatural ==
    ASSUME NEW S \in SUBSET Nat, S # {}
    PROVE  Min(S) \in S /\ \A x \in S : Min(S) <= x
<1>. DEFINE less == {ss \in Nat \X Nat : ss[1] < ss[2]}
<1>1. IsWellFoundedOn(less, Nat)
  BY NatLessThanWellFounded DEF OpToRel
<1>. HIDE DEF less
<1>2. PICK m \in S : \A y \in S : ~(<<y, m>> \in less)
  BY <1>1, WFMin
<1>3. ASSUME NEW y \in S
      PROVE  m <= y
  <2>1. <<y, m>> \in Nat \X Nat
    OBVIOUS
  <2>2. CASE y < m
    <3>1. <<y, m>>[1] < <<y, m>>[2]
      BY <2>2
    <3>2. <<y, m>> \in less
      BY <2>1, <3>1 DEF less
    <3>. QED
      BY <1>2, <3>2
  <2>3. CASE ~(y < m)
    BY <2>3
  <2>. QED
    BY <2>2, <2>3
<1>. QED
  BY <1>3 DEF Min

\* An element of a set of integers that none exceeds is what Max chooses.
LEMMA GreatestIs ==
    ASSUME NEW S, NEW m \in S, m \in Int, \A x \in S : x \in Int /\ x <= m
    PROVE  Max(S) = m
<1>1. \E x \in S : \A y \in S : x >= y
  OBVIOUS
<1>2. Max(S) \in S /\ \A y \in S : Max(S) >= y
  BY <1>1 DEF Max
<1>3. Max(S) >= m /\ Max(S) <= m /\ Max(S) \in Int
  BY <1>2
<1>. QED
  BY <1>3

\* Induction over a set of naturals.
LEMMA AllNaturals ==
    ASSUME NEW T, 0 \in T, \A n \in Nat : n \in T => n + 1 \in T
    PROVE  \A n \in Nat : n \in T
<1>1. SUFFICES ASSUME Nat \ T # {}
               PROVE  FALSE
    OBVIOUS
<1>2. /\ Min(Nat \ T) \in Nat \ T
      /\ \A n \in Nat \ T : Min(Nat \ T) <= n
    BY <1>1, LeastNatural
<1>3. PICK n \in Nat : n + 1 = Min(Nat \ T)
    BY <1>2, Min(Nat \ T) - 1 \in Nat
<1>4. n \in T
    BY <1>2, <1>3
<1> QED
    BY <1>2, <1>3, <1>4

\* A bounded set of integers has a greatest element, and Max is it.
LEMMA GreatestOfBounded ==
    ASSUME NEW S \in SUBSET Int, S # {}, NEW b \in Int, \A x \in S : x <= b
    PROVE  Max(S) \in S /\ \A x \in S : x <= Max(S)
<1> DEFINE below == {b - x : x \in S}
<1>1. below \in SUBSET Nat /\ below # {}
    <2>1. \A x \in S : b - x \in Nat
        OBVIOUS
    <2>2. \A y \in below : y \in Nat
        BY <2>1
    <2>3. below # {}
        OBVIOUS
    <2> QED
        BY <2>2, <2>3
<1>2. Min(below) \in below /\ \A y \in below : Min(below) <= y
    <2> HIDE DEF below
    <2> QED
        BY <1>1, LeastNatural
<1>3. PICK m \in S : Min(below) = b - m
    BY <1>2
<1>4. ASSUME NEW x \in S
      PROVE  x <= m
    <2>1. b - x \in below
        OBVIOUS
    <2>2. b - m <= b - x
        BY <1>2, <1>3, <2>1
    <2> QED
        BY <2>2
<1>5. Max(S) = m
    BY <1>4, GreatestIs
<1> QED
    BY <1>4, <1>5

\* So has a finite one.
LEMMA FiniteIsBounded ==
    ASSUME NEW S \in SUBSET Int, IsFiniteSet(S), S # {}
    PROVE  Max(S) \in S /\ \A x \in S : x <= Max(S)
<1> DEFINE T == {k \in Nat : \A U \in SUBSET Int :
                    IsFiniteSet(U) /\ Cardinality(U) = k =>
                       \E b \in Int : \A x \in U : x <= b}
<1>1. 0 \in T
    BY FS_EmptySet
<1>2. ASSUME NEW k \in Nat, k \in T
      PROVE  k + 1 \in T
    <2>1. ASSUME NEW U \in SUBSET Int, IsFiniteSet(U), Cardinality(U) = k + 1
          PROVE  \E b \in Int : \A x \in U : x <= b
        <3>1. PICK u : u \in U
            BY <2>1, FS_EmptySet
        <3>2. IsFiniteSet(U \ {u}) /\ Cardinality(U \ {u}) = k
            BY <2>1, <3>1, FS_RemoveElement, (k + 1) - 1 = k
        <3>3. PICK b \in Int : \A x \in U \ {u} : x <= b
            BY <1>2, <3>2, U \ {u} \in SUBSET Int
        <3>4. \A x \in U : x <= IF u <= b THEN b ELSE u
            BY <3>1, <3>3
        <3> QED
            BY <3>1, <3>4
    <2> QED
        BY <2>1
<1>3. \A k \in Nat : k \in T
    <2> HIDE DEF T
    <2> QED
        BY <1>1, <1>2, AllNaturals
<1>4. \E b \in Int : \A x \in S : x <= b
    BY <1>3, FS_CardinalityType
<1> QED
    BY <1>4, GreatestOfBounded

LEMMA LeastOfTwo ==
    ASSUME NEW a \in Int, NEW b \in Int
    PROVE  Min({a, b}) \in {a, b} /\ Min({a, b}) <= a /\ Min({a, b}) <= b
<1>1. \E x \in {a, b} : \A y \in {a, b} : x <= y
    OBVIOUS
<1> QED
    BY <1>1 DEF Min

LEMMA GreatestOfTwo ==
    ASSUME NEW a \in Int, NEW b \in Int
    PROVE  Max({a, b}) \in {a, b}
<1>1. \E x \in {a, b} : \A y \in {a, b} : x >= y
    OBVIOUS
<1> QED
    BY <1>1 DEF Max

LEMMA LeastFrom ==
    ASSUME NEW m \in Nat, NEW S, S # {}, \A x \in S : x \in Int /\ x >= m
    PROVE  Min(S) \in Int /\ Min(S) >= m /\ Min(S) \in S
<1>1. S \in SUBSET Nat
    OBVIOUS
<1> QED
    BY <1>1, LeastNatural

-----------------------------------------------------------------------------
(* Sequences *)

\* A sequence, of whatever it is made of.
IsSequence(s) == s \in Seq(ToSet(s))

LEMMA SequencesAre ==
    ASSUME NEW n \in Int, NEW s, DOMAIN s = 1 .. n, s = [i \in 1 .. n |-> s[i]]
    PROVE  IsSequence(s)
<1>1. \A i \in 1 .. n : s[i] \in ToSet(s)
    BY DEF ToSet
<1>2. CASE n \in Nat
    BY <1>1, <1>2 DEF IsSequence
<1>3. CASE n \notin Nat
    <2>1. 1 .. n = 1 .. 0
        BY <1>3
    <2> QED
        BY <1>1, <2>1 DEF IsSequence
<1> QED
    BY <1>2, <1>3

LEMMA SequenceOf ==
    ASSUME NEW S, NEW s \in Seq(S)
    PROVE  IsSequence(s)
BY SequencesAre

\* What is joined together one by one is what every step leads to.
LEMMA FlattenedBySteps ==
    ASSUME NEW n \in Nat, n # 0, NEW seqs, DOMAIN seqs = 1 .. n,
           seqs = [i \in 1 .. n |-> seqs[i]], NEW Q, seqs[1] \in Q[1],
           \A k \in 1 .. (n - 1) : \A s \in Q[k] : s \o seqs[k + 1] \in Q[k + 1]
    PROVE  FlattenSeq(seqs) \in Q[n]
<1> DEFINE Joins(f, k) == f = [i \in 1 .. k |-> IF i = 1 THEN seqs[i]
                                                 ELSE f[i - 1] \o seqs[i]]
           T == {k \in Nat : \E f : Joins(f, k)}
<1>1. Len(seqs) = n
    OBVIOUS
<1>2. 0 \in T
    <2>1. Joins([i \in 1 .. 0 |-> 0], 0)
        OBVIOUS
    <2> QED
        BY <2>1
<1>3. ASSUME NEW k \in Nat, k \in T
      PROVE  k + 1 \in T
    <2>1. PICK f : Joins(f, k)
        BY <1>3
    <2> DEFINE g == [i \in 1 .. (k + 1) |-> IF i = 1 THEN seqs[i] ELSE f[i - 1] \o seqs[i]]
    <2>2. \A i \in 1 .. k : g[i] = f[i]
        <3>1. \A i \in 1 .. k : f[i] = IF i = 1 THEN seqs[i] ELSE f[i - 1] \o seqs[i]
            BY <2>1
        <3>2. \A i \in 1 .. (k + 1) :
                 g[i] = IF i = 1 THEN seqs[i] ELSE f[i - 1] \o seqs[i]
            OBVIOUS
        <3>3. \A i \in 1 .. k : i \in 1 .. (k + 1)
            OBVIOUS
        <3> HIDE DEF g, Joins
        <3> QED
            BY <3>1, <3>2, <3>3
    <2>3. Joins(g, k + 1)
        <3>1. \A i \in 1 .. (k + 1) : i # 1 => g[i - 1] = f[i - 1]
            <4>1. \A i \in 1 .. (k + 1) : i # 1 => i - 1 \in 1 .. k
                OBVIOUS
            <4> HIDE DEF g
            <4> QED
                BY <2>2, <4>1
        <3> QED
            BY <3>1
    <2> HIDE DEF g, Joins
    <2> QED
        BY <2>3, k + 1 \in Nat
<1>4. \E f : Joins(f, n)
    <2>1. n \in T
        <3> HIDE DEF T
        <3> QED
            BY <1>2, <1>3, AllNaturals
    <2> QED
        BY <2>1
<1> DEFINE f == CHOOSE f : Joins(f, n)
<1>5. Joins(f, n)
    <2> HIDE DEF Joins
    <2> QED
        BY <1>4
<1>6. FlattenSeq(seqs) = f[n]
    BY <1>1 DEF FlattenSeq
<1> DEFINE U == {k \in Nat : k + 1 <= n => f[k + 1] \in Q[k + 1]}
<1> HIDE DEF f
<1>7. 0 \in U
    <2>1. f[1] = seqs[1]
        BY <1>5
    <2> QED
        BY <2>1
<1>8. ASSUME NEW k \in Nat, k \in U
      PROVE  k + 1 \in U
    <2>1. SUFFICES ASSUME (k + 1) + 1 <= n
                   PROVE  f[(k + 1) + 1] \in Q[(k + 1) + 1]
        OBVIOUS
    <2>2. f[k + 1] \in Q[k + 1]
        BY <1>8, <2>1
    <2>3. /\ (k + 1) + 1 \in 1 .. n /\ (k + 1) + 1 # 1 /\ ((k + 1) + 1) - 1 = k + 1
          /\ k + 1 \in 1 .. (n - 1)
        BY <2>1
    <2>4. f[(k + 1) + 1] = f[k + 1] \o seqs[(k + 1) + 1]
        BY <1>5, <2>3
    <2> QED
        BY <2>2, <2>3, <2>4
<1>9. n - 1 \in U
    <2> HIDE DEF U
    <2> QED
        BY <1>7, <1>8, AllNaturals
<1> QED
    BY <1>6, <1>9

\* What is joined together comes from what is joined.
LEMMA Flattened ==
    ASSUME NEW S, NEW n \in Nat, NEW seqs, DOMAIN seqs = 1 .. n,
           seqs = [i \in 1 .. n |-> seqs[i]], \A i \in 1 .. n : seqs[i] \in Seq(S)
    PROVE  FlattenSeq(seqs) \in Seq(S)
<1>1. seqs \in Seq(Seq(S)) /\ Len(seqs) = n
    OBVIOUS
<1>2. CASE n = 0
    <2>1. FlattenSeq(seqs) = seqs
        BY <1>1, <1>2 DEF FlattenSeq
    <2>2. seqs = <<>>
        BY <1>1, <1>2
    <2>3. <<>> \in Seq(S)
        OBVIOUS
    <2> QED
        BY <2>1, <2>2, <2>3, Zenon
<1>3. CASE n # 0
    <2> DEFINE Q == [k \in 1 .. n |-> Seq(S)]
    <2>1. \A k \in 1 .. n : Q[k] = Seq(S)
        OBVIOUS
    <2>2. 1 \in 1 .. n /\ n \in 1 .. n
        BY <1>3
    <2>3. seqs[1] \in Q[1]
        BY <2>2
    <2>4. ASSUME NEW k \in 1 .. (n - 1), NEW s \in Q[k]
          PROVE  s \o seqs[k + 1] \in Q[k + 1]
        <3>1. k \in 1 .. n /\ k + 1 \in 1 .. n
            OBVIOUS
        <3>2. s \in Seq(S) /\ seqs[k + 1] \in Seq(S)
            BY <2>1, <3>1
        <3> QED
            BY <3>1, <3>2
    <2> HIDE DEF Q
    <2>5. FlattenSeq(seqs) \in Q[n]
        BY <1>3, <2>3, <2>4, FlattenedBySteps
    <2> QED
        BY <2>1, <2>2, <2>5
<1> QED
    BY <1>2, <1>3

\* The elements of a function with a finite domain are finitely many.
LEMMA FiniteElements ==
    ASSUME NEW f, IsFiniteSet(DOMAIN f), f = [x \in DOMAIN f |-> f[x]]
    PROVE  IsFiniteSet({f[x] : x \in DOMAIN f})
<1> DEFINE D == DOMAIN f
           R == {f[x] : x \in DOMAIN f}
<1>1. f \in [D -> R]
    OBVIOUS
<1>2. \A y \in R : \E x \in D : f[x] = y
    OBVIOUS
<1>3. f \in Surjection(D, R)
    BY <1>1, <1>2 DEF Surjection
<1> QED
    BY <1>3, FS_Surjection

LEMMA FlattenedFrom ==
    ASSUME NEW n \in Nat, NEW seqs, DOMAIN seqs = 1 .. n,
           seqs = [i \in 1 .. n |-> seqs[i]], \A i \in 1 .. n : IsSequence(seqs[i])
    PROVE  /\ IsSequence(FlattenSeq(seqs))
           /\ \A e \in ToSet(FlattenSeq(seqs)) : \E i \in 1 .. n : e \in ToSet(seqs[i])
<1> DEFINE S == UNION {ToSet(seqs[i]) : i \in 1 .. n}
<1>1. ASSUME NEW i \in 1 .. n
      PROVE  seqs[i] \in Seq(S)
    <2>1. ToSet(seqs[i]) \subseteq S
        OBVIOUS
    <2>2. seqs[i] \in Seq(ToSet(seqs[i]))
        BY DEF IsSequence
    <2> HIDE DEF S
    <2> QED
        BY <2>1, <2>2
<1>2. FlattenSeq(seqs) \in Seq(S)
    <2> HIDE DEF S
    <2> QED
        BY <1>1, Flattened
<1>3. ToSet(FlattenSeq(seqs)) \subseteq S
    <2> HIDE DEF S
    <2> QED
        BY <1>2 DEF ToSet
<1> QED
    BY <1>2, <1>3, SequenceOf

=============================================================================
