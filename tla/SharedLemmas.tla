----------------------------- MODULE SharedLemmas -----------------------------
(***************************************************************************)
(* What the proofs about several components use: least and largest         *)
(* elements of sets of numbers, as the operators Min and Max of the        *)
(* community modules give them, sequences, cardinalities, and the pruning  *)
(* of the window of a tracker.                                             *)
(***************************************************************************)
EXTENDS RndWindow, FiniteSetsExt, SequencesExt, FiniteSetTheorems, TLAPS, WellFoundedInduction

-----------------------------------------------------------------------------
(* Least and largest elements.                                             *)

(* Any non-empty set of natural numbers has a least element.               *)
LEMMA LeastIndex ==
    ASSUME NEW T, T \subseteq Nat, T # {}
    PROVE  \E x \in T : \A y \in T : x <= y
<1> DEFINE Less == {ss \in Nat \X Nat : ss[1] < ss[2]}
<1>1. IsWellFoundedOn(Less, Nat)
  BY NatLessThanWellFounded DEF OpToRel
<1> HIDE DEF Less
<1>2. \E x \in T : \A y \in T : ~(<<y, x>> \in Less)
  BY <1>1, WFMin
<1>3. PICK x \in T : \A y \in T : ~(<<y, x>> \in Less)
  BY <1>2
<1>4. ASSUME NEW y \in T
      PROVE  x <= y
  <2>1. x \in Nat /\ y \in Nat
    OBVIOUS
  <2>2. ~(<<y, x>>[1] < <<y, x>>[2])
    BY <1>3, <2>1 DEF Less
  <2> QED
    BY <2>1, <2>2
<1> QED
  BY <1>3, <1>4

(* Min gives it.                                                           *)
LEMMA LeastIs ==
    ASSUME NEW T, T \subseteq Nat, T # {}
    PROVE  Min(T) \in T
<1>1. \E x \in T : \A y \in T : x <= y
  BY LeastIndex
<1> QED
  BY <1>1 DEF Min

(* Any non-empty set of numbers with a bound has a largest element.        *)
LEMMA LargestBelow ==
    ASSUME NEW n \in Int, NEW T \in SUBSET Int, T # {}, \A y \in T : y <= n
    PROVE  Max(T) \in T /\ \A y \in T : y <= Max(T)
<1> DEFINE Up == {n - y : y \in T}
<1>1. Up \subseteq Nat /\ Up # {}
  <2>1. \A y \in T : n - y \in Nat
    OBVIOUS
  <2>2. PICK y \in T : TRUE
    OBVIOUS
  <2>3. n - y \in Up
    OBVIOUS
  <2> QED
    BY <2>1, <2>3
<1>2. PICK z \in Up : \A y \in Up : z <= y
  <2> HIDE DEF Up
  <2> QED
    BY <1>1, LeastIndex
<1>3. PICK x \in T : z = n - x
  OBVIOUS
<1>4. ASSUME NEW y \in T
      PROVE  x >= y
  <2>1. n - x <= n - y
    BY <1>2, <1>3
  <2> QED
    BY <2>1
<1>5. \E m \in T : \A y \in T : m >= y
  BY <1>4
<1>6. Max(T) \in T /\ \A y \in T : Max(T) >= y
  BY <1>5 DEF Max
<1>7. \A y \in T : y <= Max(T)
  <2>1. Max(T) \in Int
    BY <1>6
  <2> QED
    BY <1>6, <2>1
<1> QED
  BY <1>6, <1>7

(* The same for a set of indices.                                          *)
LEMMA LargestIndex ==
    ASSUME NEW n \in Nat, NEW T \in SUBSET (0..n), T # {}
    PROVE  Max(T) \in T /\ \A y \in T : y <= Max(T)
<1>1. n \in Int /\ T \in SUBSET Int /\ \A y \in T : y <= n
  OBVIOUS
<1> QED
  BY <1>1, LargestBelow

(* Finitely many numbers have a bound.                                     *)
LEMMA FiniteBound ==
    ASSUME NEW n \in Nat, NEW f, \A k \in 1..n : f[k] \in Int
    PROVE  \E bound \in Int : \A k \in 1..n : f[k] <= bound
<1> DEFINE Unbounded == {j \in 0..n : \A bound \in Int : \E k \in 1..j : ~(f[k] <= bound)}
<1>1. ASSUME Unbounded # {}
      PROVE  FALSE
  <2>1. PICK j \in Unbounded : \A y \in Unbounded : j <= y
    <3>1. Unbounded \subseteq Nat
      OBVIOUS
    <3> HIDE DEF Unbounded
    <3> QED
      BY <1>1, <3>1, LeastIndex
  <2>2. j \in 1..n
    <3>1. 0 \in Int /\ ~(\E k \in 1..0 : TRUE)
      OBVIOUS
    <3>2. j # 0
      BY <3>1
    <3> QED
      BY <3>2
  <2>3. j - 1 \notin Unbounded /\ j - 1 \in 0..n
    <3> HIDE DEF Unbounded
    <3> QED
      BY <2>1, <2>2
  <2>4. PICK bound \in Int : \A k \in 1..(j - 1) : f[k] <= bound
    BY <2>3
  <2>5. PICK larger \in Int : bound <= larger /\ f[j] <= larger
    <3>1. f[j] \in Int
      BY <2>2
    <3>2. CASE bound <= f[j]
      BY <3>1, <3>2
    <3>3. CASE f[j] <= bound
      BY <3>1, <3>3
    <3> QED
      BY <3>1, <3>2, <3>3
  <2>6. \A k \in 1..j : f[k] <= larger
    <3> SUFFICES ASSUME NEW k \in 1..j
                 PROVE  f[k] <= larger
      OBVIOUS
    <3>1. CASE k = j
      BY <2>5, <3>1
    <3>2. CASE k # j
      <4>1. k \in 1..(j - 1) /\ f[k] \in Int
        BY <2>2, <3>2
      <4>2. f[k] <= bound
        BY <2>4, <4>1
      <4> QED
        BY <2>5, <4>1, <4>2
    <3> QED
      BY <3>1, <3>2
  <2> QED
    BY <2>6
<1>2. n \notin Unbounded
  <2> HIDE DEF Unbounded
  <2> QED
    BY <1>1
<1>3. n \in 0..n
  OBVIOUS
<1> QED
  BY <1>2, <1>3

(* The largest of finitely many numbers and one more.                      *)
LEMMA LargestOf ==
    ASSUME NEW n \in Nat, NEW f, NEW T \in SUBSET (1..n), \A k \in T : f[k] \in Int,
           NEW c \in Int
    PROVE  LET all == {c} \cup {f[k] : k \in T}
           IN  Max(all) \in all /\ \A y \in all : y <= Max(all)
<1> DEFINE all == {c} \cup {f[k] : k \in T}
           typed == [k \in 1..n |-> IF k \in T THEN f[k] ELSE 0]
<1>1. PICK bound \in Int : \A k \in 1..n : typed[k] <= bound
  <2>1. \A k \in 1..n : typed[k] \in Int
    OBVIOUS
  <2> HIDE DEF typed
  <2> QED
    BY <2>1, FiniteBound
<1>2. PICK larger \in Int : bound <= larger /\ c <= larger
  <2>1. CASE bound <= c
    BY <2>1
  <2>2. CASE c <= bound
    BY <2>2
  <2> QED
    BY <2>1, <2>2
<1>3. \A k \in T : f[k] \in Int /\ f[k] <= bound
  <2>1. \A k \in T : k \in 1..n /\ typed[k] = f[k]
    OBVIOUS
  <2> HIDE DEF typed
  <2> QED
    BY <1>1, <2>1
<1>4. all \in SUBSET Int /\ all # {}
  BY <1>3
<1>5. \A y \in all : y <= larger
  BY <1>2, <1>3
<1> HIDE DEF all
<1>6. Max(all) \in all /\ \A y \in all : y <= Max(all)
  BY <1>2, <1>4, <1>5, LargestBelow
<1> QED
  BY <1>6 DEF all

(* It is the only such element.                                            *)
LEMMA LargestIs ==
    ASSUME NEW T \in SUBSET Int, NEW m \in T, \A y \in T : y <= m
    PROVE  Max(T) = m
<1>1. \E x \in T : \A y \in T : x >= y
  OBVIOUS
<1>2. Max(T) \in T /\ \A y \in T : Max(T) >= y
  BY <1>1 DEF Max
<1>3. Max(T) \in Int /\ m \in Int /\ Max(T) >= m /\ Max(T) <= m
  BY <1>2
<1> QED
  BY <1>3

-----------------------------------------------------------------------------
(* Sequences.                                                              *)

-----------------------------------------------------------------------------
(* What Append makes.                                                      *)
LEMMA AppendIs ==
    ASSUME NEW S, NEW seq \in Seq(S), NEW e \in S
    PROVE  /\ Append(seq, e) \in Seq(S) /\ Len(Append(seq, e)) = Len(seq) + 1 /\ Len(seq) \in Nat
           /\ \A i \in 1..Len(seq) : Append(seq, e)[i] = seq[i]
           /\ Append(seq, e)[Len(seq) + 1] = e
OBVIOUS

(* Functions on 1..n are sequences.                                        *)
LEMMA FunctionIsSeq ==
    ASSUME NEW n \in Nat, NEW S, NEW f \in [1..n -> S]
    PROVE  f \in Seq(S) /\ Len(f) = n /\ DOMAIN f = 1..n
OBVIOUS

-----------------------------------------------------------------------------
(* A recursion over the numbers has a solution.                            *)
Iterates(f, A, a, step) ==
    f \in [Nat -> A] /\ f[0] = a /\ \A k \in Nat : f[k + 1] = step[<<k + 1, f[k]>>]

(* A function defined by recursion on the natural numbers exists.          *)
LEMMA RecursionExists ==
    ASSUME NEW A, NEW a, NEW step, a \in A, step \in [Nat \X A -> A]
    PROVE  \E f : Iterates(f, A, a, step)
<1> DEFINE Solves(f, n) == f[0] = a /\ \A k \in Nat : k < n => f[k + 1] = step[<<k + 1, f[k]>>]
           Unsolved == {n \in Nat : ~\E f \in [Nat -> A] : Solves(f, n)}
<1>1. ASSUME Unsolved # {}
      PROVE  FALSE
  <2>1. PICK n \in Unsolved : \A y \in Unsolved : n <= y
    <3>1. Unsolved \subseteq Nat
      OBVIOUS
    <3> HIDE DEF Unsolved
    <3> QED
      BY <1>1, <3>1, LeastIndex
  <2>2. n \in Nat /\ ~\E f \in [Nat -> A] : Solves(f, n)
    OBVIOUS
  <2>3. n # 0
    <3>1. Solves([k \in Nat |-> a], 0)
      OBVIOUS
    <3> QED
      BY <2>2, <3>1
  <2>4. n - 1 \in Nat /\ n - 1 \notin Unsolved
    <3> HIDE DEF Unsolved
    <3> QED
      BY <2>1, <2>2, <2>3
  <2>5. PICK f \in [Nat -> A] : Solves(f, n - 1)
    BY <2>4
  <2> DEFINE g == [k \in Nat |-> IF k = n THEN step[<<n, f[n - 1]>>] ELSE f[k]]
  <2>6. g \in [Nat -> A]
    <3>1. step[<<n, f[n - 1]>>] \in A
      BY <2>2, <2>4
    <3> QED
      BY <3>1
  <2>7. g[0] = a
    BY <2>3, <2>5
  <2>8. ASSUME NEW k \in Nat, k < n
        PROVE  g[k + 1] = step[<<k + 1, g[k]>>]
    <3>1. g[k] = f[k] /\ k + 1 \in Nat
      BY <2>2, <2>8
    <3>2. CASE k = n - 1
      BY <2>2, <3>1, <3>2
    <3>3. CASE k # n - 1
      <4>1. k < n - 1 /\ k + 1 # n
        BY <2>2, <2>8, <3>3
      <4>2. f[k + 1] = step[<<k + 1, f[k]>>]
        BY <2>5, <4>1
      <4> QED
        BY <3>1, <4>1, <4>2
    <3> QED
      BY <3>2, <3>3
  <2>9. Solves(g, n)
    <3> HIDE DEF g
    <3> QED
      BY <2>7, <2>8
  <2> HIDE DEF g, Solves
  <2> QED
    BY <2>2, <2>6, <2>9
<1>2. \A n \in Nat : \E f \in [Nat -> A] : Solves(f, n)
  BY <1>1
<1>3. ASSUME NEW m \in Nat, NEW n \in Nat, m <= n,
             NEW f \in [Nat -> A], NEW g \in [Nat -> A], Solves(f, n), Solves(g, m)
      PROVE  f[m] = g[m]
  <2> DEFINE Differs == {k \in 0..m : f[k] # g[k]}
  <2>1. ASSUME Differs # {}
        PROVE  FALSE
    <3>1. PICK k \in Differs : \A y \in Differs : k <= y
      <4>1. Differs \subseteq Nat
        OBVIOUS
      <4> HIDE DEF Differs
      <4> QED
        BY <2>1, <4>1, LeastIndex
    <3>2. k \in 0..m /\ f[k] # g[k]
      OBVIOUS
    <3>3. k # 0
      BY <1>3, <3>2
    <3>4. k - 1 \in 0..m /\ k - 1 \notin Differs /\ k - 1 < m /\ k - 1 < n /\ k - 1 \in Nat
      <4> HIDE DEF Differs
      <4> QED
        BY <1>3, <3>1, <3>2, <3>3
    <3>5. f[k - 1] = g[k - 1]
      BY <3>4
    <3>6. f[(k - 1) + 1] = step[<<(k - 1) + 1, f[k - 1]>>]
      BY <1>3, <3>4
    <3>7. g[(k - 1) + 1] = step[<<(k - 1) + 1, g[k - 1]>>]
      BY <1>3, <3>4
    <3>8. (k - 1) + 1 = k
      BY <3>2
    <3> QED
      BY <3>2, <3>5, <3>6, <3>7, <3>8
  <2>2. m \in 0..m
    OBVIOUS
  <2> QED
    BY <2>1, <2>2
<1> DEFINE h == [n \in Nat |-> CHOOSE f \in [Nat -> A] : Solves(f, n)]
           s == [n \in Nat |-> h[n][n]]
<1> HIDE DEF Solves
<1>4. \A n \in Nat : h[n] \in [Nat -> A] /\ Solves(h[n], n)
  BY <1>2
<1>5. s \in [Nat -> A]
  <2> HIDE DEF h
  <2> QED
    BY <1>4
<1>6. s[0] = a
  <2>1. h[0][0] = a
    <3> HIDE DEF h
    <3> QED
      BY <1>4 DEF Solves
  <2> HIDE DEF h
  <2> QED
    BY <2>1
<1>7. ASSUME NEW k \in Nat
      PROVE  s[k + 1] = step[<<k + 1, s[k]>>]
  <2> HIDE DEF h
  <2>1. k + 1 \in Nat /\ k <= k + 1 /\ k < k + 1
    OBVIOUS
  <2>2. h[k + 1] \in [Nat -> A] /\ Solves(h[k + 1], k + 1)
    BY <1>4, <2>1
  <2>3. h[k] \in [Nat -> A] /\ Solves(h[k], k)
    BY <1>4
  <2>4. h[k + 1][k] = h[k][k]
    BY <1>3, <2>1, <2>2, <2>3
  <2>5. h[k + 1][k + 1] = step[<<k + 1, h[k + 1][k]>>]
    BY <2>1, <2>2 DEF Solves
  <2> QED
    BY <2>1, <2>4, <2>5
<1> HIDE DEF s
<1> QED
  BY <1>5, <1>6, <1>7 DEF Iterates

(* The same, as a recursive definition states it.                          *)
Recurses(f, A, a, step) ==
    /\ f \in [Nat -> A] /\ f = [k \in Nat |-> f[k]] /\ f[0] = a
    /\ \A k \in Nat : k # 0 =>
          f[k] = step[<<k, f[k - 1]>>] /\ f[k - 1] \in A /\ <<k, f[k - 1]>> \in Nat \X A

(* A recursion over the numbers, with a step that stays in a set, has a    *)
(* solution.                                                               *)
LEMMA RecursionSolved ==
    ASSUME NEW A, NEW a, NEW step, a \in A, step \in [Nat \X A -> A]
    PROVE  \E f : Recurses(f, A, a, step)
<1>1. PICK f : Iterates(f, A, a, step)
  BY RecursionExists
<1>2. f \in [Nat -> A] /\ f[0] = a /\ \A k \in Nat : f[k + 1] = step[<<k + 1, f[k]>>]
  BY <1>1 DEF Iterates
<1>3. ASSUME NEW k \in Nat, k # 0
      PROVE  /\ f[k] = step[<<k, f[k - 1]>>]
             /\ f[k - 1] \in A /\ <<k, f[k - 1]>> \in Nat \X A
  <2>1. k - 1 \in Nat /\ (k - 1) + 1 = k
    BY <1>3
  <2>2. f[k] = step[<<k, f[k - 1]>>]
    BY <1>2, <2>1
  <2> QED
    BY <1>2, <2>1, <2>2
<1>4. f = [k \in Nat |-> f[k]]
  BY <1>2
<1> QED
  BY <1>2, <1>3, <1>4 DEF Recurses

(* Flattening sequences gives a sequence of what is in them.               *)
LEMMA FlattenIs ==
    ASSUME NEW S, NEW seqs \in Seq(Seq(S))
    PROVE  /\ FlattenSeq(seqs) \in Seq(S)
           /\ \A x : x \in Range(FlattenSeq(seqs)) <=> \E i \in DOMAIN seqs : x \in Range(seqs[i])
<1> DEFINE n == Len(seqs)
           Flat(f) == f = [i \in 1..n |-> IF i = 1 THEN seqs[i] ELSE f[i - 1] \o seqs[i]]
           flatten == CHOOSE f : Flat(f)
<1>1. n \in Nat /\ DOMAIN seqs = 1..n /\ \A i \in 1..n : seqs[i] \in Seq(S)
  OBVIOUS
<1>2. CASE n = 0
  <2>1. FlattenSeq(seqs) = seqs /\ seqs = <<>>
    BY <1>2 DEF FlattenSeq
  <2> QED
    BY <1>1, <1>2, <2>1 DEF Range
<1>3. CASE n # 0
  <2>1. FlattenSeq(seqs) = flatten[n]
    BY <1>3 DEF FlattenSeq
  <2>2. \E f : Flat(f)
    <3> DEFINE step == [p \in Nat \X Seq(S) |-> IF p[1] \in 1..n THEN p[2] \o seqs[p[1]] ELSE p[2]]
    <3>1. step \in [Nat \X Seq(S) -> Seq(S)]
      <4>1. ASSUME NEW p \in Nat \X Seq(S)
            PROVE  (IF p[1] \in 1..n THEN p[2] \o seqs[p[1]] ELSE p[2]) \in Seq(S)
        <5>1. p[2] \in Seq(S)
          OBVIOUS
        <5>2. CASE p[1] \in 1..n
          BY <1>1, <5>1, <5>2
        <5>3. CASE p[1] \notin 1..n
          BY <5>1, <5>3
        <5> QED
          BY <5>2, <5>3
      <4> QED
        BY <4>1
    <3>2. <<>> \in Seq(S)
      OBVIOUS
    <3>3. PICK f : Iterates(f, Seq(S), <<>>, step)
      <4> HIDE DEF step
      <4> QED
        BY <3>1, <3>2, RecursionExists
    <3>4. ASSUME NEW i \in 1..n
          PROVE  f[i] = f[i - 1] \o seqs[i]
      <4>1. i - 1 \in Nat /\ (i - 1) + 1 = i /\ f[i - 1] \in Seq(S) /\ i \in Nat
        BY <1>1, <3>3 DEF Iterates
      <4>2. f[i] = step[<<i, f[i - 1]>>]
        <5> HIDE DEF step
        <5> QED
          BY <3>3, <4>1 DEF Iterates
      <4> QED
        BY <4>1, <4>2
    <3>5. 1 \in 1..n => f[1] = seqs[1]
      <4>1. ASSUME 1 \in 1..n
            PROVE  f[1] = seqs[1]
        <5>1. f[1] = f[1 - 1] \o seqs[1]
          BY <3>4, <4>1
        <5>2. 1 - 1 = 0 /\ seqs[1] \in Seq(S)
          BY <1>1, <4>1
        <5>3. <<>> \o seqs[1] = seqs[1]
          BY <5>2
        <5>4. f[1 - 1] = <<>>
          BY <3>3, <5>2 DEF Iterates
        <5> QED
          BY <5>1, <5>3, <5>4
      <4> QED
        BY <4>1
    <3> DEFINE g == [i \in 1..n |-> f[i]]
    <3>6. ASSUME NEW i \in 1..n
          PROVE  g[i] = IF i = 1 THEN seqs[i] ELSE g[i - 1] \o seqs[i]
      <4>1. CASE i = 1
        BY <3>5, <4>1
      <4>2. CASE i # 1
        <5>1. i - 1 \in 1..n
          BY <1>1, <4>2
        <5> QED
          BY <3>4, <4>2, <5>1
      <4> QED
        BY <4>1, <4>2
    <3>7. Flat(g)
      <4>1. g = [i \in 1..n |-> g[i]]
        OBVIOUS
      <4> HIDE DEF g
      <4> QED
        BY <3>6, <4>1
    <3> HIDE DEF Flat
    <3> QED
      BY <3>7
  <2>3. Flat(flatten)
    <3> HIDE DEF Flat
    <3> QED
      BY <2>2
  <2> HIDE DEF flatten
  <2> DEFINE Good(i) == /\ flatten[i] \in Seq(S)
                        /\ \A x : x \in Range(flatten[i]) <=> \E j \in 1..i : x \in Range(seqs[j])
             Bad == {i \in 1..n : ~Good(i)}
  <2>4. ASSUME Bad # {}
        PROVE  FALSE
    <3>1. PICK i \in Bad : \A y \in Bad : i <= y
      <4>1. Bad \subseteq Nat
        OBVIOUS
      <4> HIDE DEF Bad
      <4> QED
        BY <2>4, <4>1, LeastIndex
    <3>2. i \in 1..n /\ ~Good(i)
      OBVIOUS
    <3>3. CASE i = 1
      <4>1. flatten[1] = seqs[1]
        BY <2>3, <3>2, <3>3
      <4>2. \A j \in 1..1 : j = 1
        OBVIOUS
      <4>3. Good(1)
        BY <1>1, <3>2, <3>3, <4>1, <4>2
      <4> HIDE DEF Good
      <4> QED
        BY <3>2, <3>3, <4>3
    <3>4. CASE i # 1
      <4>1. i - 1 \in 1..n /\ i - 1 \notin Bad
        <5>1. i - 1 \in 1..n /\ i - 1 < i
          BY <1>1, <3>2, <3>4
        <5> HIDE DEF Bad
        <5> QED
          BY <1>1, <3>1, <3>2, <5>1
      <4>2. Good(i - 1)
        BY <4>1
      <4>3. flatten[i] = flatten[i - 1] \o seqs[i]
        BY <2>3, <3>2, <3>4
      <4>4. seqs[i] \in Seq(S)
        BY <1>1, <3>2
      <4>5. flatten[i] \in Seq(S)
        BY <4>2, <4>3, <4>4
      <4>6. \A s, t \in Seq(S) : Range(s \o t) = Range(s) \cup Range(t)
        <5> SUFFICES ASSUME NEW s \in Seq(S), NEW t \in Seq(S)
                     PROVE  Range(s \o t) = Range(s) \cup Range(t)
          OBVIOUS
        <5>1. /\ DOMAIN (s \o t) = 1..(Len(s) + Len(t)) /\ DOMAIN s = 1..Len(s) /\ DOMAIN t = 1..Len(t)
              /\ Len(s) \in Nat /\ Len(t) \in Nat
              /\ \A k \in 1..Len(s) : (s \o t)[k] = s[k]
              /\ \A k \in 1..Len(t) : (s \o t)[Len(s) + k] = t[k]
          OBVIOUS
        <5>2. ASSUME NEW k \in 1..(Len(s) + Len(t))
              PROVE  (s \o t)[k] \in Range(s) \cup Range(t)
          <6>1. CASE k \in 1..Len(s)
            BY <5>1, <6>1 DEF Range
          <6>2. CASE k \notin 1..Len(s)
            <7>1. k - Len(s) \in 1..Len(t) /\ Len(s) + (k - Len(s)) = k
              BY <5>1, <5>2, <6>2
            <7>2. (s \o t)[k] = t[k - Len(s)]
              BY <5>1, <7>1
            <7> QED
              BY <5>1, <7>1, <7>2 DEF Range
          <6> QED
            BY <6>1, <6>2
        <5>3. ASSUME NEW k \in 1..Len(s)
              PROVE  s[k] \in Range(s \o t)
          <6>1. k \in 1..(Len(s) + Len(t))
            BY <5>1, <5>3
          <6> QED
            BY <5>1, <6>1 DEF Range
        <5>4. ASSUME NEW k \in 1..Len(t)
              PROVE  t[k] \in Range(s \o t)
          <6>1. Len(s) + k \in 1..(Len(s) + Len(t))
            BY <5>1, <5>4
          <6> QED
            BY <5>1, <6>1 DEF Range
        <5>5. Range(s \o t) \subseteq Range(s) \cup Range(t)
          BY <5>1, <5>2 DEF Range
        <5>6. Range(s) \subseteq Range(s \o t)
          BY <5>1, <5>3 DEF Range
        <5>7. Range(t) \subseteq Range(s \o t)
          BY <5>1, <5>4 DEF Range
        <5> QED
          BY <5>5, <5>6, <5>7
      <4>7. ASSUME NEW x
            PROVE  x \in Range(flatten[i]) <=> \E j \in 1..i : x \in Range(seqs[j])
        <5>1. x \in Range(flatten[i]) <=> x \in Range(flatten[i - 1]) \/ x \in Range(seqs[i])
          BY <4>2, <4>3, <4>4, <4>6
        <5>2. 1..i = 1..(i - 1) \cup {i}
          BY <1>1, <3>2
        <5> QED
          BY <4>2, <5>1, <5>2
      <4> QED
        BY <3>2, <4>5, <4>7
    <3> QED
      BY <3>3, <3>4
  <2>5. n \in 1..n
    BY <1>1, <1>3
  <2>6. Good(n)
    BY <2>4, <2>5
  <2> QED
    BY <1>1, <2>1, <2>6
<1> QED
  BY <1>2, <1>3

-----------------------------------------------------------------------------
(* Cardinalities.                                                          *)

(* The values that a function takes on a finite set.                       *)
LEMMA FiniteImage ==
    ASSUME NEW S, IsFiniteSet(S), NEW f
    PROVE  IsFiniteSet({f[x] : x \in S})
<1> DEFINE T == {f[x] : x \in S}
           h == [x \in S |-> f[x]]
<1>1. h \in Surjection(S, T)
  BY DEF Surjection
<1> QED
  BY <1>1, FS_Surjection

(* A finite set with an element, or with two of them.                      *)
LEMMA AtLeast ==
    ASSUME NEW S, IsFiniteSet(S), NEW x \in S
    PROVE  /\ Cardinality(S) \in Nat /\ Cardinality(S) >= 1
           /\ \A y \in S : x # y => Cardinality(S) >= 2
<1>1. Cardinality(S) \in Nat /\ Cardinality(S) # 0
  BY FS_CardinalityType, FS_EmptySet
<1>2. ASSUME NEW y \in S, x # y
      PROVE  Cardinality(S) # 1
  <2>1. ~\E z : S = {z}
    BY <1>2
  <2> QED
    BY <2>1, FS_Singleton
<1> QED
  BY <1>1, <1>2

-----------------------------------------------------------------------------
(* The window of a tracker whose statuses are in S.                        *)
Window(S) == [offset : Nat, states : Seq(S)]

(* prune: what it drops or replaces by a default status is outdated, what  *)
(* it keeps is unchanged, and the front it leaves is not outdated.         *)
LEMMA PruneEffect ==
    ASSUME NEW S, NEW t \in Window(S), NEW c \in Nat,
           t.offset <= c, t.offset + Len(t.states) <= c + 1
    PROVE  /\ Prune(t, c) \in Window(S)
           /\ Prune(t, c).offset <= c
           /\ Prune(t, c).offset + Len(Prune(t, c).states) <= c + 1
           /\ \A k \in Nat : InWindow(t, k) /\ ~InWindow(Prune(t, c), k)
                => Stale(StatusAt(t, k), c)
           /\ \A k \in Nat : InWindow(Prune(t, c), k) =>
                /\ InWindow(t, k)
                /\ \/ StatusAt(Prune(t, c), k) = StatusAt(t, k)
                   \/ /\ Stale(StatusAt(t, k), c)
                      /\ StatusAt(Prune(t, c), k) = DefaultStatus
           /\ Prune(t, c).states = <<>> \/ ~Stale(Prune(t, c).states[1], c)
<1> DEFINE live == NotStale(t.states, c)
           p == Prune(t, c)
<1>1. /\ Len(t.states) \in Nat
      /\ t.offset \in Nat
      /\ \A i \in 1..Len(t.states) : t.states[i] \in S
      /\ live \subseteq 1..Len(t.states)
      /\ \A i \in 1..Len(t.states) : i \in live <=> ~Stale(t.states[i], c)
      /\ Stale(DefaultStatus, c)
  BY DEF Window, NotStale, Stale, DefaultStatus
<1>2. CASE live = {}
  <2>1. p = [offset |-> c, states |-> <<>>]
    BY <1>2 DEF Prune
  <2>2. \A k \in Nat : InWindow(t, k) => Stale(StatusAt(t, k), c)
    BY <1>1, <1>2 DEF StatusAt, InWindow, IndexOf
  <2>3. \A k \in Nat : InWindow(p, k) => InWindow(t, k) /\ StatusAt(p, k) = DefaultStatus
    BY <1>1, <2>1 DEF StatusAt, InWindow, IndexOf
  <2>4. p \in Window(S) /\ p.offset = c /\ p.states = <<>>
    BY <2>1 DEF Window
  <2> QED
    BY <2>2, <2>3, <2>4
<1>3. CASE live # {}
  <2> DEFINE first == FirstKept(t.states, c)
             n == first - 1
             s == [i \in 1..(Len(t.states) - n) |-> t.states[i + n]]
  <2>1. first \in live /\ \A j \in live : first <= j
    <3>1. live \subseteq Nat
      BY <1>1
    <3>2. \E i \in live : \A j \in live : i <= j
      BY <1>3, <3>1, LeastIndex
    <3> QED
      BY <3>2 DEF FirstKept
  <2>2. p = [offset |-> t.offset + n, states |-> s]
    BY <1>3 DEF Prune
  <2> HIDE DEF first
  <2>3. /\ n \in Nat
        /\ n < Len(t.states)
        /\ \A i \in 1..n : Stale(t.states[i], c)
        /\ ~Stale(t.states[n + 1], c)
    <3>1. /\ first \in 1..Len(t.states) /\ n \in Nat /\ n + 1 = first
          /\ \A i \in 1..n : i \in 1..Len(t.states) /\ ~(first <= i)
      BY <1>1, <2>1
    <3> HIDE DEF n, live
    <3> QED
      BY <1>1, <2>1, <3>1
  <2>4a. Len(t.states) - n \in Nat
    BY <1>1, <2>3
  <2> HIDE DEF n, live
  <2>4. /\ s \in [1..(Len(t.states) - n) -> S]
        /\ \A i \in 1..(Len(t.states) - n) : s[i] = t.states[i + n]
    BY <1>1, <2>3
  <2> HIDE DEF s
  <2>5. s \in Seq(S) /\ Len(s) = Len(t.states) - n
    BY <2>4a, <2>4
  <2>6. p \in Window(S) /\ p.offset = t.offset + n /\ p.states = s
    BY <1>1, <2>2, <2>3, <2>5 DEF Window
  <2> HIDE DEF p
  <2>7. ASSUME NEW k \in Nat, InWindow(t, k), ~InWindow(p, k)
        PROVE  Stale(StatusAt(t, k), c)
    BY <1>1, <2>3, <2>6, <2>7 DEF InWindow, StatusAt, IndexOf
  <2>8. ASSUME NEW k \in Nat, InWindow(p, k)
        PROVE  InWindow(t, k) /\ StatusAt(p, k) = StatusAt(t, k)
    <3>1. /\ InWindow(t, k)
          /\ IndexOf(p, k) \in Nat \ {0}
          /\ IndexOf(t, k) = IndexOf(p, k) + n
      BY <1>1, <2>3, <2>6, <2>8 DEF InWindow, IndexOf
    <3>2. CASE IndexOf(p, k) \in 1..Len(s)
      <4>1. /\ IndexOf(t, k) \in 1..Len(t.states)
            /\ s[IndexOf(p, k)] = t.states[IndexOf(t, k)]
        <5>1. IndexOf(p, k) \in 1..(Len(t.states) - n)
          BY <2>5, <3>2
        <5>2. s[IndexOf(p, k)] = t.states[IndexOf(p, k) + n]
          BY <2>4, <5>1
        <5>3. IndexOf(p, k) + n \in 1..Len(t.states)
          BY <1>1, <2>3, <2>4a, <3>1, <5>1
        <5> QED
          BY <3>1, <5>2, <5>3
      <4> QED
        BY <2>6, <3>1, <3>2, <4>1 DEF StatusAt
    <3>3. CASE IndexOf(p, k) \notin 1..Len(s)
      BY <1>1, <2>3, <2>5, <2>6, <3>1, <3>3 DEF StatusAt
    <3> QED
      BY <3>1, <3>2, <3>3
  <2>9. ~Stale(p.states[1], c)
    BY <1>1, <2>3, <2>4, <2>6
  <2>10. p.offset <= c /\ p.offset + Len(p.states) <= c + 1
    BY <1>1, <2>3, <2>5, <2>6
  <2> QED
    BY <2>6, <2>7, <2>8, <2>9, <2>10 DEF p
<1> QED
  BY <1>2, <1>3
=============================================================================
