----------------------------- MODULE DataLemmas -----------------------------
(***************************************************************************)
(* Facts about the natural numbers, sequences and folds that the other     *)
(* proof modules cite.  The induction principle is stated for a set        *)
(* instead of a predicate and rests on the well-founded ordering of the    *)
(* subsets of a finite set, so that it can be cited with nothing but sets. *)
(***************************************************************************)
EXTENDS Integers, SequencesExt, FiniteSetTheorems, WellFoundedInduction, TLAPS

(***************************************************************************)
(* Induction.                                                              *)
(***************************************************************************)

\* A nonempty set of naturals has a least element.
LEMMA LeastNatural ==
  ASSUME NEW T \in SUBSET Nat, T # {}
  PROVE  \E m \in T : \A k \in T : m <= k
<1>1. PICK t \in T : TRUE
  OBVIOUS
<1> DEFINE S == 0..t
           F == {0..k : k \in {j \in T : j <= t}}
<1>2. IsFiniteSet(S)
  BY <1>1, FS_Interval
<1>3. F \subseteq SUBSET S /\ F # {}
  <2>1. S \in F
     BY <1>1
  <2>2. F \subseteq SUBSET S
     BY <1>1
  <2> QED  BY <2>1, <2>2
<1>4. PICK B \in F : \A C \in F : ~(<<C, B>> \in StrictSubsetOrdering(S))
  <2> HIDE DEF F, S
  <2>1. IsWellFoundedOn(StrictSubsetOrdering(S), SUBSET S)
    BY <1>2, FS_StrictSubsetOrderingWellFounded, FS_FiniteSubsetsOfFinite
  <2> QED  BY <1>3, <2>1, WFMin
<1>5. PICK m \in T : m <= t /\ B = 0..m
  BY <1>4
<1>6. ASSUME NEW k \in T, k < m PROVE FALSE
  <2>1. 0..k \in F
    BY <1>5, <1>6
  <2>2. /\ 0..k \subseteq S /\ B \subseteq S /\ 0..k \subseteq B
        /\ m \in B /\ m \notin 0..k
    BY <1>5, <1>6
  <2>3. <<0..k, B>> \in StrictSubsetOrdering(S)
    BY <2>2 DEF StrictSubsetOrdering
  <2> QED  BY <2>1, <2>3, <1>4
<1> QED  BY <1>5, <1>6

\* A set of naturals that holds 0 and the successor of each of its elements
\* holds them all.
LEMMA Induct ==
  ASSUME NEW T \in SUBSET Nat, 0 \in T, \A n \in T : n + 1 \in T
  PROVE  T = Nat
<1> SUFFICES ASSUME Nat \ T # {} PROVE FALSE
  OBVIOUS
<1>1. PICK m \in Nat \ T : \A k \in Nat \ T : m <= k
  <2>1. Nat \ T \in SUBSET Nat
    OBVIOUS
  <2> QED  BY <2>1, LeastNatural
<1>2. m # 0
  BY <1>1
<1>3. m - 1 \in Nat /\ m - 1 \notin Nat \ T
  BY <1>1, <1>2
<1> QED  BY <1>1, <1>2, <1>3

(***************************************************************************)
(* Sequences.                                                              *)
(***************************************************************************)

\* There is a function that FlattenSeq's recursion defines.
LEMMA FlattenExists ==
  ASSUME NEW seqs, NEW N \in Nat \ {0}
  PROVE  \E f : f = [i \in 1..N |-> IF i = 1 THEN seqs[i] ELSE f[i-1] \o seqs[i]]
<1> DEFINE Def(f, n) == f = [i \in 1..n |-> IF i = 1 THEN seqs[i] ELSE f[i-1] \o seqs[i]]
           T == {n \in Nat : \E f : Def(f, n + 1)}
<1>1. 0 \in T
  <2>1. Def([i \in 1..1 |-> seqs[i]], 1)
    OBVIOUS
  <2> HIDE DEF Def
  <2>2. \E f : Def(f, 0 + 1)
    BY <2>1
  <2> QED  BY <2>2
<1>2. ASSUME NEW n \in T PROVE n + 1 \in T
  <2>1. n \in Nat
    OBVIOUS
  <2>2. PICK f : Def(f, n + 1)
    OBVIOUS
  <2> DEFINE g == [i \in 1..(n+2) |-> IF i = n + 2 THEN f[n+1] \o seqs[n+2] ELSE f[i]]
             h == [i \in 1..(n+2) |-> IF i = 1 THEN seqs[i] ELSE g[i-1] \o seqs[i]]
  <2>3. ASSUME NEW i \in 1..(n+2) PROVE g[i] = h[i]
    <3>1. CASE i = n + 2
      <4>1. g[i] = f[n+1] \o seqs[n+2]
        BY <2>1, <3>1
      <4>2. h[i] = g[n+1] \o seqs[n+2]
        <5>1. i # 1 /\ i - 1 = n + 1
          BY <2>1, <3>1
        <5> HIDE DEF g
        <5> QED  BY <3>1, <5>1
      <4>3. g[n+1] = f[n+1]
        BY <2>1
      <4> QED  BY <4>1, <4>2, <4>3
    <3>2. CASE i # n + 2
      <4>1. i \in 1..(n+1) /\ g[i] = f[i]
        BY <2>1, <3>2
      <4>2. f[i] = IF i = 1 THEN seqs[i] ELSE f[i-1] \o seqs[i]
        BY <2>2, <4>1
      <4>3. i # 1 => g[i-1] = f[i-1]
        BY <2>1, <4>1
      <4> QED  BY <4>1, <4>2, <4>3
    <3> QED  BY <3>1, <3>2
  <2>4. g = h
    BY <2>3
  <2>5. Def(g, n + 2)
    BY <2>4
  <2>6. (n + 1) + 1 = n + 2 /\ n + 1 \in Nat
    BY <2>1
  <2> HIDE DEF g, h, Def
  <2> QED  BY <2>5, <2>6
<1> HIDE DEF T
<1>3. T = Nat
  <2>1. T \in SUBSET Nat
    BY DEF T
  <2> QED  BY <1>1, <1>2, <2>1, Induct
<1>4. N - 1 \in T /\ (N - 1) + 1 = N
  BY <1>3
<1> HIDE DEF Def
<1>5. \E f : Def(f, N)
  BY <1>4 DEF T
<1> QED  BY <1>5 DEF Def

\* The elements of a concatenation.
LEMMA RangeOfConcat ==
  ASSUME NEW S, NEW s \in Seq(S), NEW t \in Seq(S)
  PROVE  s \o t \in Seq(S) /\ Range(s) \subseteq Range(s \o t) /\ Range(t) \subseteq Range(s \o t)
<1>1. ASSUME NEW i \in 1..Len(s) PROVE i \in 1..Len(s \o t) /\ (s \o t)[i] = s[i]
  OBVIOUS
<1>2. ASSUME NEW i \in 1..Len(t)
      PROVE  Len(s) + i \in 1..Len(s \o t) /\ (s \o t)[Len(s) + i] = t[i]
  OBVIOUS
<1>3. s \o t \in Seq(S)
  OBVIOUS
<1> DEFINE u == s \o t
<1>4. DOMAIN u = 1..Len(u) /\ DOMAIN s = 1..Len(s) /\ DOMAIN t = 1..Len(t)
  OBVIOUS
<1> HIDE DEF u
<1> QED  BY <1>1, <1>2, <1>3, <1>4 DEF Range, u

\* Sequences over S, flattened, are a sequence over S that holds all they hold.
LEMMA FlattenType ==
  ASSUME NEW S, NEW seqs \in Seq(Seq(S))
  PROVE  /\ FlattenSeq(seqs) \in Seq(S)
         /\ \A i \in 1..Len(seqs) : Range(seqs[i]) \subseteq Range(FlattenSeq(seqs))
<1>1. CASE Len(seqs) = 0
  <2>1. seqs = <<>>
    BY <1>1
  <2> QED  BY <1>1, <2>1 DEF FlattenSeq
<1>2. CASE Len(seqs) # 0
  <2> DEFINE N == Len(seqs)
             Def(f) == f = [i \in 1..N |-> IF i = 1 THEN seqs[i] ELSE f[i-1] \o seqs[i]]
             flat == CHOOSE f : Def(f)
  <2>1. N \in Nat \ {0}
    BY <1>2
  <2>2. Def(flat)
    <3>1. \E f : Def(f)
      BY <2>1, FlattenExists
    <3> HIDE DEF Def
    <3> QED  BY <3>1
  <2>3. FlattenSeq(seqs) = flat[N]
    BY <1>2 DEF FlattenSeq
  <2> DEFINE Good(n) == /\ flat[n] \in Seq(S)
                        /\ \A i \in 1..n : Range(seqs[i]) \subseteq Range(flat[n])
             T == {n \in Nat : n + 1 <= N => Good(n + 1)}
  <2> HIDE DEF flat
  <2>4. \A i \in 1..N : seqs[i] \in Seq(S)
    OBVIOUS
  <2>5. \A i \in 1..N : flat[i] = IF i = 1 THEN seqs[i] ELSE flat[i-1] \o seqs[i]
    BY <2>2
  <2> HIDE DEF Def, N
  <2>6. 0 \in T
    <3>1. 1 \in 1..N /\ flat[1] = seqs[1] /\ \A i \in 1..(0 + 1) : i = 1
      BY <2>1, <2>5
    <3> QED  BY <2>4, <3>1
  <2>7. ASSUME NEW n \in T PROVE n + 1 \in T
    <3>0. n \in Nat /\ (n + 1) + 1 = n + 2
      OBVIOUS
    <3> SUFFICES ASSUME n + 2 <= N PROVE Good(n + 2)
      BY <3>0
    <3>1. n + 2 \in 1..N /\ n + 2 # 1 /\ (n + 2) - 1 = n + 1 /\ n + 1 <= N
      BY <2>1
    <3>2. flat[n + 2] = flat[n + 1] \o seqs[n + 2]
      BY <2>5, <3>1
    <3>3. Good(n + 1)
      BY <3>1
    <3>4. /\ flat[n + 2] \in Seq(S) /\ Range(flat[n + 1]) \subseteq Range(flat[n + 2])
          /\ Range(seqs[n + 2]) \subseteq Range(flat[n + 2])
      BY <2>4, <3>1, <3>2, <3>3, RangeOfConcat
    <3>5. ASSUME NEW i \in 1..(n + 2) PROVE i \in 1..(n + 1) \/ i = n + 2
      BY <3>0
    <3> QED  BY <3>3, <3>4, <3>5
  <2>8. T = Nat
    <3>1. T \in SUBSET Nat
      OBVIOUS
    <3> HIDE DEF T
    <3> QED  BY <2>6, <2>7, <3>1, Induct
  <2>9. N - 1 \in T /\ (N - 1) + 1 = N
    <3> HIDE DEF T
    <3> QED  BY <2>1, <2>8
  <2>10. Good(N)
    BY <2>1, <2>9
  <2> QED  BY <2>3, <2>10 DEF N
<1> QED  BY <1>1, <1>2

\* A finite set listed as a sequence: its elements and no others.
LEMMA SetToSeqType ==
  ASSUME NEW S, IsFiniteSet(S)
  PROVE  SetToSeq(S) \in Seq(S)
<1> DEFINE n == Cardinality(S)
<1>1. n \in Nat /\ ExistsBijection(1..n, S)
  BY FS_CardinalityType
<1>2. \E f \in [1..n -> S] : IsInjective(f)
  BY <1>1 DEF ExistsBijection, Bijection, Injection, IsInjective
<1>3. SetToSeq(S) \in [1..n -> S]
  BY <1>2 DEF SetToSeq
<1> QED  BY <1>1, <1>3

\* The range of a sequence is finite.
LEMMA RangeFinite ==
  ASSUME NEW S, NEW s \in Seq(S)
  PROVE  IsFiniteSet(Range(s)) /\ Range(s) \subseteq S
<1>1. IsFiniteSet(1..Len(s))
  BY FS_Interval
<1>2. s \in Surjection(1..Len(s), Range(s))
  BY DEF Surjection, Range
<1> QED  BY <1>1, <1>2, FS_Surjection DEF Range

\* What follows the n-th element of a sequence, and its head and tail.
LEMMA RestOfSeq ==
  ASSUME NEW S, NEW s \in Seq(S), NEW n \in 0..Len(s)
  PROVE  LET rest == SubSeq(s, n + 1, Len(s)) IN
         /\ rest \in Seq(S) /\ Len(rest) = Len(s) - n
         /\ rest = <<>> <=> n = Len(s)
         /\ n < Len(s) => Head(rest) = s[n + 1] /\ Tail(rest) = SubSeq(s, n + 2, Len(s))
OBVIOUS

(***************************************************************************)
(* Cardinalities.                                                          *)
(***************************************************************************)

\* A subset is no larger, and one more element is one more at most.
LEMMA OneMore ==
  ASSUME NEW S, IsFiniteSet(S), NEW T
  PROVE  /\ Cardinality(S) \in Nat
         /\ T \subseteq S => Cardinality(T) \in Nat /\ Cardinality(T) <= Cardinality(S)
         /\ \A u : T \subseteq S \union {u} =>
                  Cardinality(T) \in Nat /\ Cardinality(T) <= Cardinality(S) + 1
<1>1. Cardinality(S) \in Nat
  BY FS_CardinalityType
<1>2. ASSUME T \subseteq S PROVE Cardinality(T) \in Nat /\ Cardinality(T) <= Cardinality(S)
  BY <1>2, FS_Subset, FS_CardinalityType
<1>3. ASSUME NEW u, T \subseteq S \union {u}
      PROVE  Cardinality(T) \in Nat /\ Cardinality(T) <= Cardinality(S) + 1
  <2>1. /\ IsFiniteSet(S \union {u})
        /\ Cardinality(S \union {u}) = IF u \in S THEN Cardinality(S) ELSE Cardinality(S) + 1
    BY FS_AddElement
  <2>2. Cardinality(T) \in Nat /\ Cardinality(T) <= Cardinality(S \union {u})
    BY <1>3, <2>1, FS_Subset, FS_CardinalityType
  <2> QED  BY <1>1, <2>1, <2>2
<1> QED  BY <1>1, <1>2, <1>3
=============================================================================
