--------------------------- MODULE DataInduction ----------------------------
(***************************************************************************)
(* Induction over numbers, and from it the existence of folds, for the     *)
(* proofs about what a loop computes.  What is proved by induction is      *)
(* given as a set of numbers.                                              *)
(***************************************************************************)
EXTENDS Integers, Sequences, SequencesExt, SequenceTheorems, WellFoundedInduction, TLAPS

(* The order of numbers, as a relation. *)
Less == {p \in Nat \X Nat : p[1] < p[2]}

(* Every set of numbers has a least one. *)
LEMMA LeastNumber ==
  ASSUME NEW T, T \subseteq Nat, T # {}
  PROVE  \E n \in T : \A m \in T : n <= m
<1>1. IsWellFoundedOn(Less, Nat)
  BY NatLessThanWellFounded DEF OpToRel, Less
<1>2. PICK n \in T : \A m \in T : ~(<<m, n>> \in Less)
  BY <1>1, WFMin
<1>3. ASSUME NEW m \in T PROVE n <= m
  <2>1. ~(<<m, n>> \in Less)
    BY <1>2
  <2>2. m \in Nat /\ n \in Nat
    OBVIOUS
  <2> QED BY <2>1, <2>2 DEF Less
<1> QED BY <1>3

(* f folds the step F over sets of positions up to n, the last position last. *)
IsFold(f, n, base, F) ==
  f = [s \in SUBSET (1..n) |->
         IF s = {} THEN base ELSE F[<<Max(s), f[s \ {Max(s)}]>>]]

(* Max of SequencesExt is the largest. *)
LEMMA MaxLast ==
  ASSUME NEW n \in Nat, NEW s, s \subseteq 1..n, n \in s
  PROVE  Max(s) = n
<1>1. \A y \in s : n >= y
  OBVIOUS
<1>2. ASSUME NEW x \in s, \A y \in s : x >= y PROVE x = n
  BY <1>2
<1> QED BY <1>1, <1>2 DEF Max

LEMMA Upto ==
  ASSUME NEW n \in Nat, NEW k \in 1..n
  PROVE  1..k \in SUBSET (1..n) /\ 1..k # {} /\ (1..k) \ {k} = 1..(k - 1) /\ Max(1..k) = k
<1>1. k \in Nat /\ 1 <= k /\ k <= n
  OBVIOUS
<1>2. 1..k \subseteq 1..n /\ k \in 1..k /\ (1..k) \ {k} = 1..(k - 1)
  BY <1>1
<1>3. Max(1..k) = k
  BY <1>1, <1>2, MaxLast
<1> QED BY <1>2, <1>3

(* Induction up to n: what holds of 0, and of a number when it holds of the
   one before, holds of all. *)
LEMMA Induction ==
  ASSUME NEW n \in Nat, NEW G, 0 \in G, \A k \in 1..n : k - 1 \in G => k \in G
  PROVE  \A k \in 0..n : k \in G
<1> DEFINE Bad == {k \in 0..n : k \notin G}
<1> SUFFICES ASSUME Bad # {} PROVE FALSE
  OBVIOUS
<1>1. PICK k \in Bad : \A m \in Bad : k <= m
  <2>1. Bad \subseteq Nat
    OBVIOUS
  <2> HIDE DEF Bad
  <2> QED BY <2>1, LeastNumber
<1>2. k \in 1..n /\ k - 1 \in 0..n /\ ~(k <= k - 1)
  OBVIOUS
<1>3. k - 1 \in G
  BY <1>1, <1>2
<1> QED BY <1>1, <1>2, <1>3

LEMMA MaxIn ==
  ASSUME NEW n \in Nat, NEW s, s \subseteq 1..n, s # {}
  PROVE  Max(s) \in s
<1> DEFINE Bounds == {k \in 0..n : \A y \in s : y <= k}
<1>1. n \in Bounds
  OBVIOUS
<1>2. PICK k \in Bounds : \A m \in Bounds : k <= m
  <2>1. Bounds \subseteq Nat /\ Bounds # {}
    BY <1>1
  <2> HIDE DEF Bounds
  <2> QED BY <2>1, LeastNumber
<1>3. k \in Nat /\ \A y \in s : y \in Nat /\ y >= 1 /\ k >= y
  OBVIOUS
<1>4. k \in s
  <2> SUFFICES ASSUME k \notin s PROVE FALSE
    OBVIOUS
  <2>0. k # 0
    <3>1. PICK y \in s : TRUE
      OBVIOUS
    <3>2. y \in Nat /\ y >= 1 /\ k >= y
      BY <1>3, <3>1
    <3> QED BY <3>2
  <2>1. k - 1 \in 0..n /\ \A y \in s : y <= k - 1
    <3>1. k - 1 \in 0..n
      BY <2>0
    <3>2. ASSUME NEW y \in s PROVE y <= k - 1
      BY <1>3, y # k
    <3> QED BY <3>1, <3>2
  <2>2. k - 1 \in Bounds
    BY <2>1
  <2> QED BY <1>2, <1>3, <2>2
<1>5. ASSUME NEW x \in s, \A y \in s : x >= y PROVE x \in s
  OBVIOUS
<1> HIDE DEF Bounds
<1> QED BY <1>3, <1>4 DEF Max

(* A fold that stays in V has its values. *)
LEMMA FoldExists ==
  ASSUME NEW V, NEW base \in V, NEW N \in Nat, NEW F \in [(1..N) \X V -> V]
  PROVE  \E f \in [SUBSET (1..N) -> V] : IsFold(f, N, base, F)
<1> DEFINE Good == {n \in 0..N : \E f \in [SUBSET (1..n) -> V] : IsFold(f, n, base, F)}
<1>1. 0 \in Good
  <2> DEFINE f == [s \in SUBSET (1..0) |-> base]
  <2>1. f \in [SUBSET (1..0) -> V]
    OBVIOUS
  <2>2. \A s \in SUBSET (1..0) : s = {}
    OBVIOUS
  <2>3. \A s \in SUBSET (1..0) : f[s] = IF s = {} THEN base ELSE F[<<Max(s), f[s \ {Max(s)}]>>]
    BY <2>2
  <2>4. f = [s \in SUBSET (1..0) |-> f[s]]
    OBVIOUS
  <2> HIDE DEF f
  <2>5. IsFold(f, 0, base, F)
    BY <2>3, <2>4 DEF IsFold
  <2>6. 0 \in 0..N
    OBVIOUS
  <2> QED BY <2>1, <2>5, <2>6
<1>2. ASSUME NEW n \in 1..N, n - 1 \in Good PROVE n \in Good
  <2>2. PICK g \in [SUBSET (1..(n - 1)) -> V] : IsFold(g, n - 1, base, F)
    BY <1>2
  <2> DEFINE f == [s \in SUBSET (1..n) |-> IF n \in s THEN F[<<n, g[s \ {n}]>>] ELSE g[s]]
  <2>3. \A s \in SUBSET (1..n) : s \ {n} \in SUBSET (1..(n - 1)) /\ (n \notin s => s \ {n} = s)
    OBVIOUS
  <2>4. f \in [SUBSET (1..n) -> V]
    BY <1>2, <2>2, <2>3
  <2>5. ASSUME NEW s \in SUBSET (1..n)
        PROVE  f[s] = IF s = {} THEN base ELSE F[<<Max(s), f[s \ {Max(s)}]>>]
    <3>1. CASE n \in s
      <4>1. Max(s) = n
        <5>1. n \in Nat /\ s \subseteq 1..n
          OBVIOUS
        <5> QED BY <3>1, <5>1, MaxLast
      <4>2. s \ {n} \in SUBSET (1..n) /\ n \notin s \ {n}
        OBVIOUS
      <4>3. f[s \ {n}] = g[s \ {n}]
        BY <4>2
      <4> QED BY <3>1, <4>1, <4>3
    <3>2. CASE n \notin s
      <4>1. s \in SUBSET (1..(n - 1))
        BY <2>3, <3>2
      <4>2. g[s] = IF s = {} THEN base ELSE F[<<Max(s), g[s \ {Max(s)}]>>]
        BY <2>2, <4>1 DEF IsFold
      <4>3. f[s] = g[s]
        BY <3>2
      <4>4. s \ {Max(s)} \in SUBSET (1..n) /\ n \notin s \ {Max(s)}
        BY <3>2
      <4>5. f[s \ {Max(s)}] = g[s \ {Max(s)}]
        BY <4>4
      <4> HIDE DEF f
      <4> QED BY <4>2, <4>3, <4>5
    <3> QED BY <3>1, <3>2
  <2>6. f = [s \in SUBSET (1..n) |-> f[s]]
    OBVIOUS
  <2> HIDE DEF f
  <2>7. IsFold(f, n, base, F)
    BY <2>5, <2>6 DEF IsFold
  <2>8. n \in 0..N
    OBVIOUS
  <2> QED BY <2>4, <2>7, <2>8
<1> HIDE DEF Good
<1>3. \A n \in 0..N : n \in Good
  BY <1>1, <1>2, Induction
<1>4. N \in 0..N
  OBVIOUS
<1> QED BY <1>3, <1>4 DEF Good

(* The values of a fold as it runs. *)
Runs(h, n, base, V) ==
  h[{}] = base /\ \A k \in 1..n : h[1..(k - 1)] \in V => h[1..k] \in V

Trace(g, h, n, base) ==
  /\ g[0] = base /\ g[n] = h[1..n]
  /\ \A k \in 1..n : g[k - 1] = h[1..(k - 1)] /\ g[k] = h[1..k]

LEMMA Running ==
  ASSUME NEW V, NEW base \in V, NEW n \in Nat, NEW h, Runs(h, n, base, V)
  PROVE  \E g \in [0..n -> V] : Trace(g, h, n, base)
<1> DEFINE g == [k \in 0..n |-> h[1..k]]
           Typed == {k \in 0..n : h[1..k] \in V}
<1>1. \A k \in 0..n : k \in Typed
  <2>1. 0 \in Typed
    <3>1. 1..0 = {} /\ 0 \in 0..n
      OBVIOUS
    <3> QED BY <3>1 DEF Runs
  <2>2. ASSUME NEW k \in 1..n, k - 1 \in Typed PROVE k \in Typed
    <3>1. k \in 0..n
      OBVIOUS
    <3> QED BY <2>2, <3>1 DEF Runs
  <2> HIDE DEF Typed
  <2> QED BY <2>1, <2>2, Induction
<1>2. g \in [0..n -> V]
  BY <1>1
<1>3. g[0] = base /\ g[n] = h[1..n]
  <2>1. 1..0 = {} /\ 0 \in 0..n /\ n \in 0..n
    OBVIOUS
  <2> QED BY <2>1 DEF Runs
<1>4. ASSUME NEW k \in 1..n PROVE g[k - 1] = h[1..(k - 1)] /\ g[k] = h[1..k]
  <2>1. k \in 0..n /\ k - 1 \in 0..n
    OBVIOUS
  <2> QED BY <2>1
<1> HIDE DEF g
<1> QED BY <1>2, <1>3, <1>4 DEF Trace

-----------------------------------------------------------------------------
(* Sequences. *)

(* Sequences joined in any grouping. *)
LEMMA Regroup ==
  ASSUME NEW S
  PROVE  \A s, t, v \in Seq(S) : (s \o t) \o v = s \o (t \o v) /\ s \o t \in Seq(S)
<1> SUFFICES ASSUME NEW s \in Seq(S), NEW t \in Seq(S), NEW v \in Seq(S)
             PROVE  (s \o t) \o v = s \o (t \o v) /\ s \o t \in Seq(S)
  OBVIOUS
<1>1. (s \o t) \o v = s \o (t \o v)
  BY ConcatAssociative
<1>2. s \o t \in Seq(S)
  BY ConcatProperties
<1> QED BY <1>1, <1>2
=============================================================================
