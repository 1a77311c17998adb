--------------------------- MODULE OutputVcdProofs ---------------------------
(***************************************************************************)
(* Proofs that the output trace, read back, is what the simulator          *)
(* computed, for every hierarchy of modules, all states and every number   *)
(* of cycles.                                                              *)
(***************************************************************************)
EXTENDS OutputVcd, SharedLemmas, TLAPS

-----------------------------------------------------------------------------
(* The cycle counter.                                                      *)

(* Powers of two.                                                          *)
LEMMA TwoToIs ==
    /\ TwoTo[0] = 1
    /\ \A n \in Nat : TwoTo[n] \in Nat /\ TwoTo[n + 1] = 2 * TwoTo[n]
<1> DEFINE Solves(f) == f = [n \in Nat |-> IF n = 0 THEN 1 ELSE 2 * f[n - 1]]
           step == [p \in Nat \X Nat |-> 2 * p[2]]
<1>1. step \in [Nat \X Nat -> Nat]
  OBVIOUS
<1>2. PICK f : Recurses(f, Nat, 1, step)
  <2> HIDE DEF step
  <2> QED
    BY <1>1, RecursionSolved
<1>3. \A k \in Nat : f[k] = IF k = 0 THEN 1 ELSE 2 * f[k - 1]
  BY <1>2 DEF Recurses
<1>4. Solves(f)
  <2>1. f = [k \in Nat |-> f[k]]
    BY <1>2 DEF Recurses
  <2> HIDE DEF step
  <2> QED
    BY <1>3, <2>1
<1>5. TwoTo = CHOOSE g : Solves(g)
  BY DEF TwoTo
<1>6. Solves(TwoTo)
  <2> HIDE DEF Solves
  <2> QED
    BY <1>4, <1>5
<1>7. \A n \in Nat : TwoTo[n] = IF n = 0 THEN 1 ELSE 2 * TwoTo[n - 1]
  BY <1>6
<1> DEFINE Bad == {k \in Nat : TwoTo[k] \notin Nat}
<1>8. ASSUME Bad # {}
      PROVE  FALSE
  <2>1. PICK k \in Bad : \A y \in Bad : k <= y
    <3>1. Bad \subseteq Nat
      OBVIOUS
    <3> HIDE DEF Bad
    <3> QED
      BY <1>8, <3>1, LeastIndex
  <2>2. k \in Nat /\ TwoTo[k] \notin Nat
    OBVIOUS
  <2>3. k # 0
    BY <1>7, <2>2
  <2>4. k - 1 \in Nat /\ k - 1 \notin Bad
    <3> HIDE DEF Bad
    <3> QED
      BY <2>1, <2>2, <2>3
  <2> QED
    BY <1>7, <2>2, <2>3, <2>4
<1> QED
  <2>1. ASSUME NEW n \in Nat
        PROVE  TwoTo[n] \in Nat /\ TwoTo[n + 1] = 2 * TwoTo[n]
    <3>1. n + 1 \in Nat /\ n + 1 # 0 /\ (n + 1) - 1 = n
      OBVIOUS
    <3> QED
      BY <1>7, <1>8, <3>1
  <2> QED
    BY <1>7, <2>1

(* The shifts of a number.                                                 *)
Shifted(x) == CHOOSE f : f = [n \in Nat |-> IF n = 0 THEN x ELSE f[n - 1] \div 2]

(* The bits that int2bits takes are those of the number shifted.           *)
LEMMA ShiftedIs ==
    ASSUME NEW x \in Nat
    PROVE  /\ int2bits(x) = [i \in 1..CountBits |-> Shifted(x)[CountBits - i] % 2]
           /\ Shifted(x)[0] = x
           /\ \A n \in Nat : Shifted(x)[n] \in Nat /\ Shifted(x)[n + 1] = Shifted(x)[n] \div 2
<1> DEFINE Solves(f) == f = [n \in Nat |-> IF n = 0 THEN x ELSE f[n - 1] \div 2]
           shifted == CHOOSE f : Solves(f)
           step == [p \in Nat \X Nat |-> p[2] \div 2]
<1>1. step \in [Nat \X Nat -> Nat]
  OBVIOUS
<1>2. PICK f : Recurses(f, Nat, x, step)
  <2> HIDE DEF step
  <2> QED
    BY <1>1, RecursionSolved
<1>3. \A k \in Nat : f[k] = IF k = 0 THEN x ELSE f[k - 1] \div 2
  BY <1>2 DEF Recurses
<1>4. Solves(f)
  <2>1. f = [k \in Nat |-> f[k]]
    BY <1>2 DEF Recurses
  <2> HIDE DEF step
  <2> QED
    BY <1>3, <2>1
<1>5. Solves(shifted)
  <2> HIDE DEF Solves
  <2> QED
    BY <1>4
<1>6. int2bits(x) = [i \in 1..CountBits |-> shifted[CountBits - i] % 2]
  BY DEF int2bits
<1>7. shifted = Shifted(x)
  BY DEF Shifted
<1> HIDE DEF shifted
<1>8. \A n \in Nat : shifted[n] = IF n = 0 THEN x ELSE shifted[n - 1] \div 2
  BY <1>5
<1> DEFINE Bad == {k \in Nat : shifted[k] \notin Nat}
<1>9. ASSUME Bad # {}
      PROVE  FALSE
  <2>1. PICK k \in Bad : \A y \in Bad : k <= y
    <3>1. Bad \subseteq Nat
      OBVIOUS
    <3> HIDE DEF Bad
    <3> QED
      BY <1>9, <3>1, LeastIndex
  <2>2. k \in Nat /\ shifted[k] \notin Nat
    OBVIOUS
  <2>3. k # 0
    BY <1>8, <2>2
  <2>4. k - 1 \in Nat /\ k - 1 \notin Bad
    <3> HIDE DEF Bad
    <3> QED
      BY <2>1, <2>2, <2>3
  <2> QED
    BY <1>8, <2>2, <2>3, <2>4
<1>10. ASSUME NEW n \in Nat
       PROVE  shifted[n] \in Nat /\ shifted[n + 1] = shifted[n] \div 2
  <2>1. n + 1 \in Nat /\ n + 1 # 0 /\ (n + 1) - 1 = n
    OBVIOUS
  <2> QED
    BY <1>8, <1>9, <2>1
<1> QED
  BY <1>6, <1>7, <1>8, <1>10

(* A number of n bits is 0 after n shifts.                                 *)
LEMMA ShiftedAway ==
    ASSUME NEW x \in Nat, NEW n \in Nat, x < TwoTo[n]
    PROVE  Shifted(x)[n] = 0
<1> DEFINE Bad == {k \in 0..n : ~(Shifted(x)[k] < TwoTo[n - k])}
<1>1. ASSUME Bad # {}
      PROVE  FALSE
  <2>1. PICK k \in Bad : \A y \in Bad : k <= y
    <3>1. Bad \subseteq Nat
      OBVIOUS
    <3> HIDE DEF Bad
    <3> QED
      BY <1>1, <3>1, LeastIndex
  <2>2. k \in 0..n /\ ~(Shifted(x)[k] < TwoTo[n - k])
    OBVIOUS
  <2>3. k # 0
    <3>1. n - 0 = n /\ Shifted(x)[0] = x
      BY ShiftedIs
    <3> HIDE DEF Bad
    <3> QED
      BY <2>2, <3>1
  <2>4. k - 1 \in 0..n /\ k - 1 \notin Bad
    <3> HIDE DEF Bad
    <3> QED
      BY <2>1, <2>2, <2>3
  <2>5. Shifted(x)[k - 1] < TwoTo[n - (k - 1)]
    BY <2>4
  <2>6. /\ Shifted(x)[k - 1] \in Nat /\ Shifted(x)[k] \in Nat
        /\ Shifted(x)[k] = Shifted(x)[k - 1] \div 2
    <3>1. k - 1 \in Nat /\ (k - 1) + 1 = k /\ k \in Nat
      BY <2>2, <2>3
    <3> QED
      BY <3>1, ShiftedIs
  <2>7. TwoTo[n - k] \in Nat /\ TwoTo[n - (k - 1)] = 2 * TwoTo[n - k]
    <3>1. n - k \in Nat /\ n - (k - 1) = (n - k) + 1
      BY <2>2
    <3> QED
      BY <3>1, TwoToIs
  <2> HIDE DEF Bad
  <2> QED
    BY <2>2, <2>5, <2>6, <2>7
<1>2. Shifted(x)[n] < TwoTo[n - n]
  BY <1>1
<1>3. n - n = 0 /\ Shifted(x)[n] \in Nat
  BY ShiftedIs
<1> HIDE DEF Bad
<1> QED
  BY <1>2, <1>3, TwoToIs

(* The number of the bits that int2bits gives, if they are enough.         *)
LEMMA NumberIs ==
    ASSUME NEW x \in Nat, CountBits \in Nat, x < TwoTo[CountBits],
           NEW bits, bits = [b \in 1..CountBits |-> Shifted(x)[b - 1] % 2]
    PROVE  Number(bits) = x
<1> DEFINE C == CountBits
           Solves(f) == f = [n \in 0..C |-> IF n = 0 THEN 0 ELSE bits[C - n + 1] + 2 * f[n - 1]]
           upper == CHOOSE f : Solves(f)
           s == [n \in 0..C |-> Shifted(x)[C - n]]
<1>1. Len(bits) = C
  OBVIOUS
<1>2. ASSUME NEW n \in 0..C
      PROVE  Shifted(x)[C - n] = IF n = 0 THEN 0 ELSE bits[C - n + 1] + 2 * Shifted(x)[C - (n - 1)]
  <2>1. CASE n = 0
    BY <2>1, ShiftedAway
  <2>2. CASE n # 0
    <3>1. C - n \in Nat /\ C - (n - 1) = (C - n) + 1 /\ C - n + 1 \in 1..C /\ (C - n + 1) - 1 = C - n
      BY <2>2
    <3>2. bits[C - n + 1] = Shifted(x)[C - n] % 2
      BY <3>1
    <3>3. Shifted(x)[C - n] \in Nat /\ Shifted(x)[C - (n - 1)] = Shifted(x)[C - n] \div 2
      BY <3>1, ShiftedIs
    <3> QED
      BY <2>2, <3>2, <3>3
  <2> QED
    BY <2>1, <2>2
<1>3. Solves(s)
  <2>1. ASSUME NEW n \in 0..C
        PROVE  s[n] = IF n = 0 THEN 0 ELSE bits[C - n + 1] + 2 * s[n - 1]
    <3>1. n # 0 => n - 1 \in 0..C
      OBVIOUS
    <3> QED
      BY <1>2, <3>1
  <2>2. s = [n \in 0..C |-> s[n]]
    OBVIOUS
  <2> HIDE DEF s
  <2> QED
    BY <2>1, <2>2
<1>4. Solves(upper)
  <2> HIDE DEF Solves
  <2> QED
    BY <1>3
<1>5. Number(bits) = upper[C]
  BY <1>1 DEF Number
<1> HIDE DEF upper, s
<1>6. \A n \in 0..C : upper[n] = IF n = 0 THEN 0 ELSE bits[C - n + 1] + 2 * upper[n - 1]
  BY <1>4
<1> DEFINE Bad == {n \in 0..C : upper[n] # Shifted(x)[C - n]}
<1>7. ASSUME Bad # {}
      PROVE  FALSE
  <2>1. PICK k \in Bad : \A y \in Bad : k <= y
    <3>1. Bad \subseteq Nat
      OBVIOUS
    <3> HIDE DEF Bad
    <3> QED
      BY <1>7, <3>1, LeastIndex
  <2>2. k \in 0..C /\ upper[k] # Shifted(x)[C - k]
    OBVIOUS
  <2>3. k # 0
    BY <1>2, <1>6, <2>2
  <2>4. k - 1 \in 0..C /\ k - 1 \notin Bad
    <3> HIDE DEF Bad
    <3> QED
      BY <2>1, <2>2, <2>3
  <2>5. upper[k - 1] = Shifted(x)[C - (k - 1)]
    BY <2>4
  <2> HIDE DEF Bad
  <2> QED
    BY <1>2, <1>6, <2>2, <2>3, <2>5
<1>8. C \in 0..C /\ C - C = 0
  OBVIOUS
<1>9. upper[C] = Shifted(x)[0]
  BY <1>7, <1>8
<1> QED
  BY <1>5, <1>9, ShiftedIs

-----------------------------------------------------------------------------
(* Sequences of whatever elements.                                         *)
Listing(s) == Len(s) \in Nat /\ s = [i \in 1..Len(s) |-> s[i]]

(* They are those of the standard module.                                  *)
LEMMA ListingIs ==
    ASSUME NEW s
    PROVE  /\ Listing(s) => s \in Seq(Range(s))
           /\ \A S : s \in Seq(S) => Listing(s)
<1>1. ASSUME Listing(s)
      PROVE  s \in Seq(Range(s))
  <2>1. Len(s) \in Nat /\ s \in [1..Len(s) -> Range(s)]
    <3>1. Len(s) \in Nat /\ s = [i \in 1..Len(s) |-> s[i]]
      BY <1>1 DEF Listing
    <3>2. DOMAIN s = 1..Len(s)
      BY <3>1
    <3>3. \A i \in 1..Len(s) : s[i] \in Range(s)
      BY <3>2 DEF Range
    <3> QED
      BY <3>1, <3>3
  <2> QED
    BY <2>1, FunctionIsSeq
<1>2. ASSUME NEW S, s \in Seq(S)
      PROVE  Listing(s)
  <2>1. Len(s) \in Nat /\ DOMAIN s = 1..Len(s)
    BY <1>2
  <2>2. s = [i \in DOMAIN s |-> s[i]]
    BY <1>2
  <2> QED
    BY <2>1, <2>2 DEF Listing
<1> QED
  BY <1>1, <1>2

(* What a function on 1..n is.                                             *)
LEMMA ListingOf ==
    ASSUME NEW n \in Nat, NEW f, f = [i \in 1..n |-> f[i]]
    PROVE  Listing(f) /\ Len(f) = n /\ DOMAIN f = 1..n
<1>1. DOMAIN f = 1..n
  OBVIOUS
<1>2. f \in [1..n -> Range(f)]
  <2>1. \A i \in 1..n : f[i] \in Range(f)
    BY <1>1 DEF Range
  <2> QED
    BY <2>1
<1>3. f \in Seq(Range(f)) /\ Len(f) = n
  BY <1>2, FunctionIsSeq
<1> QED
  BY <1>1, <1>3, ListingIs

(* One more element.                                                       *)
LEMMA ListingAppend ==
    ASSUME NEW s, Listing(s), NEW e
    PROVE  /\ Listing(Append(s, e)) /\ Len(Append(s, e)) = Len(s) + 1 /\ Len(s) \in Nat
           /\ \A i \in 1..Len(s) : Append(s, e)[i] = s[i]
           /\ Append(s, e)[Len(s) + 1] = e
<1> DEFINE S == Range(s) \cup {e}
<1>1. s \in Seq(S) /\ e \in S
  <2>1. s \in Seq(Range(s)) /\ Range(s) \subseteq S /\ e \in S
    BY ListingIs
  <2> HIDE DEF S
  <2> QED
    BY <2>1
<1> HIDE DEF S
<1>2. /\ Append(s, e) \in Seq(S) /\ Len(Append(s, e)) = Len(s) + 1 /\ Len(s) \in Nat
      /\ \A i \in 1..Len(s) : Append(s, e)[i] = s[i]
      /\ Append(s, e)[Len(s) + 1] = e
  BY <1>1, AppendIs
<1>3. Listing(Append(s, e))
  BY <1>2, ListingIs
<1> QED
  BY <1>2, <1>3

(* One sequence after another.                                             *)
LEMMA ListingConcat ==
    ASSUME NEW s, Listing(s), NEW t, Listing(t)
    PROVE  /\ Listing(s \o t) /\ Len(s \o t) = Len(s) + Len(t) /\ Len(s) \in Nat /\ Len(t) \in Nat
           /\ \A i \in 1..Len(s) : (s \o t)[i] = s[i]
           /\ \A i \in 1..Len(t) : (s \o t)[Len(s) + i] = t[i]
<1> DEFINE S == Range(s) \cup Range(t)
<1>1. s \in Seq(S) /\ t \in Seq(S)
  <2>1. /\ s \in Seq(Range(s)) /\ Range(s) \subseteq S
        /\ t \in Seq(Range(t)) /\ Range(t) \subseteq S
    BY ListingIs
  <2> HIDE DEF S
  <2> QED
    BY <2>1
<1> HIDE DEF S
<1>2. /\ s \o t \in Seq(S) /\ Len(s \o t) = Len(s) + Len(t) /\ Len(s) \in Nat /\ Len(t) \in Nat
      /\ \A i \in 1..Len(s) : (s \o t)[i] = s[i]
      /\ \A i \in 1..Len(t) : (s \o t)[Len(s) + i] = t[i]
  BY <1>1
<1> QED
  BY <1>2, ListingIs

(* A vector that is written whole, last bit first, is read as it was.      *)
LEMMA ReversedBack ==
    ASSUME NEW bits, Listing(bits), NEW size, size = Len(bits)
    PROVE  Reader!pad_vec_and_reverse(Reverse(bits), size) = bits
<1> DEFINE n == Len(bits)
           back == Reverse(bits)
           padding == IF back[1] = 1 THEN 0 ELSE back[1]
           pad == [i \in 1..(size - Len(back)) |-> padding]
<1>1. n \in Nat /\ bits = [i \in 1..n |-> bits[i]]
  BY DEF Listing
<1>2. back = [i \in 1..n |-> bits[(n - i) + 1]]
  BY DEF Reverse
<1>3. Listing(back) /\ Len(back) = n
  <2>1. back = [i \in 1..n |-> back[i]]
    BY <1>2
  <2> HIDE DEF back
  <2> QED
    BY <1>1, <2>1, ListingOf
<1>4. Listing(Reverse(back)) /\ Len(Reverse(back)) = n /\ \A i \in 1..n : Reverse(back)[i] = bits[i]
  <2>1. Reverse(back) = [i \in 1..n |-> back[(n - i) + 1]]
    BY <1>3 DEF Reverse
  <2>2. \A i \in 1..n : (n - i) + 1 \in 1..n /\ (n - ((n - i) + 1)) + 1 = i
    BY <1>1
  <2>3. \A i \in 1..n : Reverse(back)[i] = bits[i]
    BY <1>2, <2>1, <2>2
  <2>4. Reverse(back) = [i \in 1..n |-> Reverse(back)[i]]
    BY <2>1
  <2> HIDE DEF back
  <2> QED
    BY <1>1, <2>3, <2>4, ListingOf
<1>5. Listing(pad) /\ Len(pad) = 0
  <2>1. size - Len(back) = 0
    BY <1>1, <1>3
  <2>2. pad = [i \in 1..0 |-> pad[i]]
    BY <2>1
  <2> HIDE DEF pad
  <2> QED
    BY <2>2, ListingOf
<1>6. Reader!pad_vec_and_reverse(Reverse(bits), size) = Reverse(back) \o pad
  BY DEF Reader!pad_vec_and_reverse, Reader!Reverse, Reverse
<1> HIDE DEF back, pad
<1>7. /\ Listing(Reverse(back) \o pad) /\ Len(Reverse(back) \o pad) = n
      /\ \A i \in 1..n : (Reverse(back) \o pad)[i] = bits[i]
  BY <1>1, <1>4, <1>5, ListingConcat
<1>8. Reverse(back) \o pad = [i \in 1..n |-> (Reverse(back) \o pad)[i]]
  BY <1>7 DEF Listing
<1> QED
  BY <1>1, <1>6, <1>7, <1>8

-----------------------------------------------------------------------------
(* The header.                                                             *)
Nets == [path : Seq(Nat), wires : Seq(Nat)]
Modules == DOMAIN Netnames

(* The nets of a module and of its instances are the nets below it.        *)
OwnNets(m) == [k \in DOMAIN Netnames[m] |-> [path |-> <<>>, wires |-> Netnames[m][k]]]
Below(m, nets) == [c \in DOMAIN Cells[m] |-> Inside(Cells[m][c].instance, nets[Cells[m][c].module])]

(* The nets of a module and of the instances below it are nets.            *)
LEMMA BelowAre ==
    ASSUME OutputAssumption, NEW m \in Modules, NEW nets \in [Modules -> Seq(Nets)]
    PROVE  OwnNets(m) \o FlattenSeq(Below(m, nets)) \in Seq(Nets)
<1>1. /\ Modules = DOMAIN Cells /\ Netnames[m] \in Seq(Seq(Nat))
      /\ Cells[m] \in Seq([instance : Nat, module : Modules])
  BY DEF OutputAssumption, Modules
<1>2. OwnNets(m) \in Seq(Nets)
  <2>1. /\ Len(Netnames[m]) \in Nat /\ DOMAIN Netnames[m] = 1..Len(Netnames[m])
        /\ \A k \in 1..Len(Netnames[m]) : Netnames[m][k] \in Seq(Nat)
    BY <1>1
  <2>2. <<>> \in Seq(Nat)
    OBVIOUS
  <2>3. \A k \in 1..Len(Netnames[m]) : [path |-> <<>>, wires |-> Netnames[m][k]] \in Nets
    BY <2>1, <2>2 DEF Nets
  <2>4. OwnNets(m) \in [1..Len(Netnames[m]) -> Nets]
    BY <2>1, <2>3 DEF OwnNets
  <2> QED
    BY <2>1, <2>4, FunctionIsSeq
<1>3. ASSUME NEW instance \in Nat, NEW below \in Seq(Nets)
      PROVE  Inside(instance, below) \in Seq(Nets)
  <2>1. Len(below) \in Nat /\ DOMAIN below = 1..Len(below) /\ \A k \in 1..Len(below) : below[k] \in Nets
    OBVIOUS
  <2>2. ASSUME NEW k \in 1..Len(below)
        PROVE  [below[k] EXCEPT !.path = <<instance>> \o @] \in Nets
    <3>1. below[k] \in Nets /\ below[k].path \in Seq(Nat)
      BY <2>1 DEF Nets
    <3>2. <<instance>> \o below[k].path \in Seq(Nat)
      BY <3>1
    <3> QED
      BY <3>1, <3>2 DEF Nets
  <2>3. Inside(instance, below) \in [1..Len(below) -> Nets]
    BY <2>1, <2>2 DEF Inside
  <2> QED
    BY <2>1, <2>3, FunctionIsSeq
<1>4. Below(m, nets) \in Seq(Seq(Nets))
  <2>1. /\ Len(Cells[m]) \in Nat /\ DOMAIN Cells[m] = 1..Len(Cells[m])
        /\ \A c \in 1..Len(Cells[m]) : Cells[m][c].instance \in Nat /\ Cells[m][c].module \in Modules
    <3> DEFINE Cell == [instance : Nat, module : Modules]
    <3>1. Cells[m] \in Seq(Cell)
      BY <1>1
    <3>2. \A cell \in Cell : cell.instance \in Nat /\ cell.module \in Modules
      OBVIOUS
    <3> HIDE DEF Cell
    <3>3. /\ Len(Cells[m]) \in Nat /\ DOMAIN Cells[m] = 1..Len(Cells[m])
          /\ \A c \in 1..Len(Cells[m]) : Cells[m][c] \in Cell
      BY <3>1
    <3> QED
      BY <3>2, <3>3
  <2>2. \A c \in 1..Len(Cells[m]) : nets[Cells[m][c].module] \in Seq(Nets)
    BY <2>1
  <2>3. \A c \in 1..Len(Cells[m]) :
           Inside(Cells[m][c].instance, nets[Cells[m][c].module]) \in Seq(Nets)
    BY <1>3, <2>1, <2>2
  <2>4. Below(m, nets) \in [1..Len(Cells[m]) -> Seq(Nets)]
    BY <2>1, <2>3 DEF Below
  <2> QED
    BY <2>1, <2>4, FunctionIsSeq
<1>5. FlattenSeq(Below(m, nets)) \in Seq(Nets)
  BY <1>4, FlattenIs
<1> QED
  BY <1>2, <1>5

(* To any depth, they are nets.                                            *)
LEMMA NetsAre ==
    ASSUME OutputAssumption
    PROVE  \A depth \in Nat : \A m \in Modules : NetsTo[depth][m] \in Seq(Nets)
<1> DEFINE A == [Modules -> Seq(Nets)]
           none == [m \in Modules |-> <<>>]
           all(nets) == [m \in Modules |-> OwnNets(m) \o FlattenSeq(Below(m, nets))]
           step == [p \in Nat \X A |-> all(p[2])]
           Level(f, d) == [m \in DOMAIN Netnames |->
                              IF d = 0 THEN <<>>
                              ELSE [k \in DOMAIN Netnames[m] |-> [path |-> <<>>, wires |-> Netnames[m][k]]]
                                      \o FlattenSeq([c \in DOMAIN Cells[m] |->
                                            Inside(Cells[m][c].instance, f[d - 1][Cells[m][c].module])])]
           Solves(f) == f = [d \in Nat |-> Level(f, d)]
<1>1. none \in A
  <2>1. <<>> \in Seq(Nets)
    OBVIOUS
  <2> QED
    BY <2>1
<1>2. step \in [Nat \X A -> A]
  <2>1. \A nets \in A : all(nets) \in A
    BY BelowAre
  <2>2. \A p \in Nat \X A : p[2] \in A
    OBVIOUS
  <2> HIDE DEF all, A
  <2> QED
    BY <2>1, <2>2
<1>3. PICK f : Recurses(f, A, none, step)
  <2> HIDE DEF A, none, step
  <2> QED
    BY <1>1, <1>2, RecursionSolved
<1>4. \A d \in Nat : f[d] = Level(f, d)
  <2> SUFFICES ASSUME NEW d \in Nat
               PROVE  f[d] = Level(f, d)
    OBVIOUS
  <2>1. CASE d = 0
    <3>1. Level(f, d) = [m \in Modules |-> <<>>]
      BY <2>1 DEF Modules
    <3>2. f[0] = none
      BY <1>3 DEF Recurses
    <3> QED
      BY <2>1, <3>1, <3>2
  <2>2. CASE d # 0
    <3>1. f[d] = step[<<d, f[d - 1]>>] /\ f[d - 1] \in A /\ <<d, f[d - 1]>> \in Nat \X A
      BY <1>3, <2>2 DEF Recurses
    <3>2. step[<<d, f[d - 1]>>] = all(f[d - 1])
      <4> HIDE DEF all, A
      <4> QED
        BY <3>1
    <3>3. Level(f, d) = all(f[d - 1])
      <4>1. ASSUME NEW m \in Modules
            PROVE  Level(f, d)[m] = OwnNets(m) \o FlattenSeq(Below(m, f[d - 1]))
        BY <2>2 DEF Modules, OwnNets, Below
      <4>2. Level(f, d) = [m \in Modules |-> Level(f, d)[m]]
        BY DEF Modules
      <4>3. all(f[d - 1]) = [m \in Modules |-> OwnNets(m) \o FlattenSeq(Below(m, f[d - 1]))]
        OBVIOUS
      <4> HIDE DEF Level, all
      <4> QED
        BY <4>1, <4>2, <4>3
    <3> HIDE DEF step, Level, all
    <3> QED
      BY <3>1, <3>2, <3>3
  <2> QED
    BY <2>1, <2>2
<1>5. Solves(f)
  <2>1. f = [d \in Nat |-> f[d]]
    BY <1>3 DEF Recurses
  <2> HIDE DEF Level, step
  <2> QED
    BY <1>4, <2>1
<1>6. NetsTo = CHOOSE g : Solves(g)
  BY DEF NetsTo
<1>7. Solves(NetsTo)
  <2> HIDE DEF Solves
  <2> QED
    BY <1>5, <1>6
<1>8. \A d \in Nat : NetsTo[d] = Level(NetsTo, d)
  <2> HIDE DEF Level
  <2> QED
    BY <1>7
<1> DEFINE Bad == {d \in Nat : NetsTo[d] \notin A}
<1>9. ASSUME Bad # {}
      PROVE  FALSE
  <2>1. PICK d \in Bad : \A y \in Bad : d <= y
    <3>1. Bad \subseteq Nat
      OBVIOUS
    <3> HIDE DEF Bad
    <3> QED
      BY <1>9, <3>1, LeastIndex
  <2>2. d \in Nat /\ NetsTo[d] \notin A
    OBVIOUS
  <2>3. d # 0
    <3>1. NetsTo[0] = Level(NetsTo, 0)
      BY <1>8
    <3>2. Level(NetsTo, 0) = none
      BY DEF Modules
    <3> HIDE DEF Level, none, A
    <3> QED
      BY <1>1, <2>2, <3>1, <3>2
  <2>4. d - 1 \in Nat /\ d - 1 \notin Bad
    <3> HIDE DEF Bad
    <3> QED
      BY <2>1, <2>2, <2>3
  <2>5. NetsTo[d - 1] \in A
    BY <2>4
  <2>6. \A m \in Modules : OwnNets(m) \o FlattenSeq(Below(m, NetsTo[d - 1])) \in Seq(Nets)
    BY <2>5, BelowAre
  <2>7. ASSUME NEW m \in Modules
        PROVE  Level(NetsTo, d)[m] = OwnNets(m) \o FlattenSeq(Below(m, NetsTo[d - 1]))
    BY <2>3 DEF Modules, OwnNets, Below
  <2>8. Level(NetsTo, d) = [m \in Modules |-> Level(NetsTo, d)[m]]
    BY DEF Modules
  <2>9. NetsTo[d] = Level(NetsTo, d)
    <3> HIDE DEF Level
    <3> QED
      BY <1>8, <2>2
  <2> HIDE DEF Level, Bad
  <2> QED
    BY <2>2, <2>6, <2>7, <2>8, <2>9
<1> QED
  <2>1. \A d \in Nat : NetsTo[d] \in A
    BY <1>9
  <2> QED
    BY <2>1

(* The variables of a header have their positions as codes.                *)
Vars == [code : Nat, target : {Targets[n] : n \in Nat}, path : Seq(Nat), wires : Seq(Nat)]
Headers == {h \in Seq(Vars) : \A v \in 1..Len(h) : h[v].code = v - 1}

(* A scope of the header that is entered or left is a header.              *)
LEMMA ScopeIs ==
    ASSUME OutputAssumption, NEW header \in Headers, NEW n \in Nat
    PROVE  scope(header, Targets[n]) \in Headers
<1> DEFINE nets == NetsTo[Cardinality(DOMAIN Netnames)][TopModule]
           more == [k \in DOMAIN nets |->
                       [code |-> Len(header) + k - 1, target |-> Targets[n],
                        path |-> nets[k].path, wires |-> nets[k].wires]]
<1>1. nets \in Seq(Nets)
  <2>1. /\ TopModule \in Modules /\ Cardinality(DOMAIN Netnames) \in Nat
    <3>1. DOMAIN Netnames = DOMAIN Cells /\ IsFiniteSet(DOMAIN Cells) /\ TopModule \in DOMAIN Cells
      BY DEF OutputAssumption
    <3> QED
      BY <3>1, FS_CardinalityType DEF Modules
  <2> QED
    BY <2>1, NetsAre
<1>2. scope(header, Targets[n]) = header \o more
  BY DEF scope, module2scope
<1> HIDE DEF nets
<1>3. Len(nets) \in Nat /\ DOMAIN nets = 1..Len(nets) /\ \A k \in 1..Len(nets) : nets[k] \in Nets
  BY <1>1
<1>4. /\ header \in Seq(Vars) /\ Len(header) \in Nat
      /\ \A v \in 1..Len(header) : header[v].code = v - 1
  BY DEF Headers
<1>5. ASSUME NEW k \in 1..Len(nets)
      PROVE  [code |-> Len(header) + k - 1, target |-> Targets[n],
              path |-> nets[k].path, wires |-> nets[k].wires] \in Vars
  <2>1. nets[k].path \in Seq(Nat) /\ nets[k].wires \in Seq(Nat)
    BY <1>3 DEF Nets
  <2>2. Len(header) + k - 1 \in Nat
    <3>1. Len(header) \in Nat /\ Len(nets) \in Nat
      BY <1>3, <1>4
    <3> QED
      BY <3>1
  <2>3. Targets[n] \in {Targets[i] : i \in Nat}
    OBVIOUS
  <2> QED
    BY <2>1, <2>2, <2>3 DEF Vars
<1>6. more \in [1..Len(nets) -> Vars] /\ \A k \in 1..Len(nets) : more[k].code = Len(header) + k - 1
  BY <1>3, <1>5
<1>7. more \in Seq(Vars) /\ Len(more) = Len(nets)
  <2> HIDE DEF more
  <2> QED
    BY <1>3, <1>6, FunctionIsSeq
<1> HIDE DEF more
<1>8. header \o more \in Seq(Vars) /\ Len(header \o more) = Len(header) + Len(more)
  <2>1. header \in Seq(Vars) /\ more \in Seq(Vars)
    BY <1>4, <1>7
  <2> QED
    BY <2>1
<1>9. ASSUME NEW v \in 1..Len(header \o more)
      PROVE  (header \o more)[v].code = v - 1
  <2>1. CASE v \in 1..Len(header)
    <3>1. (header \o more)[v] = header[v]
      BY <1>4, <1>7, <2>1
    <3> QED
      BY <1>4, <2>1, <3>1
  <2>2. CASE v \notin 1..Len(header)
    <3>1. v - Len(header) \in 1..Len(nets) /\ Len(header) + (v - Len(header)) = v
      BY <1>3, <1>4, <1>7, <1>8, <2>2
    <3>2. (header \o more)[v] = more[v - Len(header)]
      BY <1>4, <1>7, <1>8, <3>1
    <3>3. Len(header) + (v - Len(header)) - 1 = v - 1
      BY <1>3, <1>4, <3>1
    <3> QED
      BY <1>6, <3>1, <3>2, <3>3
  <2> QED
    BY <2>1, <2>2
<1> QED
  BY <1>2, <1>8, <1>9 DEF Headers

(* So do those of the file.                                                *)
LEMMA HeaderIs ==
    ASSUME OutputAssumption
    PROVE  representations \in Headers
<1> DEFINE step == [p \in Nat \X Headers |-> scope(p[2], Targets[p[1]])]
           Solves(f) == f = [n \in Nat |-> IF n = 0 THEN <<>> ELSE scope(f[n - 1], Targets[n])]
           header == CHOOSE f : Solves(f)
<1>1. <<>> \in Headers
  <2>1. <<>> \in Seq(Vars) /\ Len(<<>>) = 0
    OBVIOUS
  <2> QED
    BY <2>1 DEF Headers
<1>2. step \in [Nat \X Headers -> Headers]
  BY ScopeIs
<1>3. PICK f : Recurses(f, Headers, <<>>, step)
  <2> HIDE DEF step
  <2> QED
    BY <1>1, <1>2, RecursionSolved
<1>4. \A n \in Nat : f[n] = IF n = 0 THEN <<>> ELSE scope(f[n - 1], Targets[n])
  BY <1>3 DEF Recurses
<1>5. Solves(f)
  <2>1. f = [n \in Nat |-> f[n]]
    BY <1>3 DEF Recurses
  <2> HIDE DEF step
  <2> QED
    BY <1>4, <2>1
<1>6. Solves(header)
  <2> HIDE DEF Solves
  <2> QED
    BY <1>5
<1>7. representations = header[Len(Targets)]
  BY DEF representations
<1> HIDE DEF header
<1>8. \A n \in Nat : header[n] = IF n = 0 THEN <<>> ELSE scope(header[n - 1], Targets[n])
  BY <1>6
<1> DEFINE Bad == {n \in Nat : header[n] \notin Headers}
<1>9. ASSUME Bad # {}
      PROVE  FALSE
  <2>1. PICK n \in Bad : \A y \in Bad : n <= y
    <3>1. Bad \subseteq Nat
      OBVIOUS
    <3> HIDE DEF Bad
    <3> QED
      BY <1>9, <3>1, LeastIndex
  <2>2. n \in Nat /\ header[n] \notin Headers
    OBVIOUS
  <2>3. n # 0
    BY <1>1, <1>8, <2>2
  <2>4. n - 1 \in Nat /\ n - 1 \notin Bad
    <3> HIDE DEF Bad
    <3> QED
      BY <2>1, <2>2, <2>3
  <2>5. header[n - 1] \in Headers
    BY <2>4
  <2> HIDE DEF Bad
  <2> QED
    BY <1>8, <2>2, <2>3, <2>5, ScopeIs
<1>10. Len(Targets) \in Nat
  <2>1. nshares \in Nat
    BY DEF OutputAssumption
  <2> DEFINE shares == [s \in 1..nshares |-> Target("share", s - 1)]
             first == <<Target("value", 0), Target("random", 0), Target("deterministic", 0)>>
  <2>2. Listing(shares) /\ Len(shares) = nshares
    <3>1. shares = [s \in 1..nshares |-> shares[s]]
      OBVIOUS
    <3> HIDE DEF shares
    <3> QED
      BY <2>1, <3>1, ListingOf
  <2>3. Listing(first)
    BY DEF Listing
  <2>4. Targets = first \o shares
    BY DEF Targets
  <2> HIDE DEF first, shares
  <2>5. Len(first \o shares) = Len(first) + Len(shares) /\ Len(first) \in Nat
    BY <2>2, <2>3, ListingConcat
  <2> QED
    BY <2>1, <2>2, <2>4, <2>5
<1> QED
  BY <1>7, <1>9, <1>10

(* The id codes, the sizes of the variables, and where their values are.   *)
Vs == Len(representations)

(* The codes of the variables are consecutive, the clock's and the count   *)
(* of cycles' after those of the wires.                                    *)
LEMMA CodesAre ==
    ASSUME OutputAssumption
    PROVE  /\ Vs \in Nat /\ DOMAIN representations = 1..Vs
           /\ \A v \in 1..Vs : representations[v].code = v - 1 /\ representations[v].wires \in Seq(Nat)
           /\ clock = Vs /\ cycle_count = Vs + 1
<1>1. representations \in Headers
  BY HeaderIs
<1> DEFINE h == representations
<1>2. h \in Headers
  BY <1>1
<1> HIDE DEF h
<1>3. h \in Seq(Vars) /\ \A v \in 1..Len(h) : h[v].code = v - 1
  BY <1>2 DEF Headers
<1>4. Len(h) \in Nat /\ DOMAIN h = 1..Len(h) /\ \A v \in 1..Len(h) : h[v] \in Vars
  BY <1>3
<1>5. \A v \in 1..Len(h) : h[v].wires \in Seq(Nat)
  BY <1>4 DEF Vars
<1>6. clock = Len(h) /\ cycle_count = Len(h) + 1 /\ Vs = Len(h)
  BY DEF clock, cycle_count, Vs, h
<1> QED
  BY <1>3, <1>4, <1>5, <1>6 DEF h

(* The reader has of each code the size the writer declared.               *)
LEMMA SizesAre ==
    ASSUME OutputAssumption
    PROVE  /\ \A v \in 1..Vs : Sizes[v - 1] = Len(representations[v].wires)
           /\ Sizes[Vs] = 1 /\ Sizes[Vs + 1] = CountBits
<1>1. /\ Vs \in Nat /\ DOMAIN representations = 1..Vs /\ clock = Vs /\ cycle_count = Vs + 1
      /\ \A v \in 1..Vs : representations[v].code = v - 1
  BY CodesAre
<1>2. Sizes[Vs] = 1
  BY <1>1 DEF Sizes
<1>3. Sizes[Vs + 1] = CountBits
  BY <1>1 DEF Sizes
<1>4. ASSUME NEW v \in 1..Vs
      PROVE  Sizes[v - 1] = Len(representations[v].wires)
  <2> DEFINE found == CHOOSE w \in Range(representations) : w.code = v - 1
  <2>1. representations[v] \in Range(representations) /\ representations[v].code = v - 1
    BY <1>1 DEF Range
  <2>2. found \in Range(representations) /\ found.code = v - 1
    BY <2>1
  <2>3. Sizes[v - 1] = Len(found.wires)
    <3>1. v - 1 \in 0..cycle_count /\ v - 1 # clock /\ v - 1 # cycle_count
      BY <1>1
    <3> QED
      BY <3>1 DEF Sizes
  <2> HIDE DEF found
  <2>4. PICK w \in 1..Vs : found = representations[w]
    BY <1>1, <2>2 DEF Range
  <2>5. w = v
    <3>1. w - 1 = v - 1
      BY <1>1, <2>2, <2>4
    <3> QED
      BY <3>1
  <2> QED
    BY <2>3, <2>4, <2>5
<1> QED
  BY <1>2, <1>3, <1>4

(* The reader keeps the value of a code at the variable it was given to.   *)
LEMMA PlacesAre ==
    ASSUME OutputAssumption
    PROVE  DOMAIN Codes = 1..(Vs + 2) /\ \A v \in 1..(Vs + 2) : Reader!VarOf(v - 1) = v
<1>1. Vs \in Nat /\ cycle_count + 1 = Vs + 2
  <2>1. Vs \in Nat /\ cycle_count = Vs + 1
    BY CodesAre
  <2> QED
    BY <2>1
<1>2. DOMAIN Codes = 1..(Vs + 2) /\ \A v \in 1..(Vs + 2) : Codes[v] = v - 1
  BY <1>1 DEF Codes
<1>3. ASSUME NEW v \in 1..(Vs + 2)
      PROVE  Reader!VarOf(v - 1) = v
  <2> DEFINE under == {0} \cup {j \in DOMAIN Codes : Codes[j] = v - 1}
  <2>1. under = {0, v}
    <3>1. \A j \in 1..(Vs + 2) : Codes[j] = v - 1 <=> j = v
      BY <1>1, <1>2
    <3>2. {j \in DOMAIN Codes : Codes[j] = v - 1} = {v}
      BY <1>2, <3>1
    <3> QED
      BY <3>2
  <2>2. Max({0, v}) = v
    <3>1. {0, v} \in SUBSET Int /\ v \in {0, v} /\ \A y \in {0, v} : y <= v
      BY <1>1
    <3> QED
      BY <3>1, LargestIs
  <2>3. Reader!VarOf(v - 1) = Max(under)
    BY DEF Reader!VarOf, Reader!Max, Max
  <2> HIDE DEF under
  <2> QED
    BY <2>1, <2>2, <2>3
<1> QED
  BY <1>2, <1>3

-----------------------------------------------------------------------------
(* What is written in a cycle.                                             *)
BitsOf(v, state) ==
    [b \in DOMAIN representations[v].wires |->
        state2value(representations[v].target,
                    state[<<representations[v].path, representations[v].wires[b]>>])]
CountOf(x) == [b \in 1..CountBits |-> Shifted(x)[b - 1] % 2]

(* The bits written for a variable are as many as its wires.               *)
LEMMA BitsAre ==
    ASSUME OutputAssumption, NEW v \in 1..Vs, NEW state
    PROVE  Listing(BitsOf(v, state)) /\ Len(BitsOf(v, state)) = Sizes[v - 1]
<1> DEFINE wires == representations[v].wires
           bits == BitsOf(v, state)
<1>1. wires \in Seq(Nat)
  BY CodesAre
<1> HIDE DEF wires
<1>2. Len(wires) \in Nat /\ DOMAIN wires = 1..Len(wires)
  BY <1>1
<1>3. bits = [b \in 1..Len(wires) |-> bits[b]]
  <2>1. DOMAIN representations[v].wires = 1..Len(wires)
    BY <1>2 DEF wires
  <2> QED
    BY <2>1 DEF BitsOf
<1> HIDE DEF bits
<1>4. Listing(bits) /\ Len(bits) = Len(wires)
  BY <1>2, <1>3, ListingOf
<1>5. Sizes[v - 1] = Len(wires)
  BY SizesAre DEF wires
<1> QED
  BY <1>4, <1>5 DEF bits

(* The cycle counter is read as the bits of the cycle.                     *)
LEMMA CountBack ==
    ASSUME OutputAssumption, NEW x \in Nat
    PROVE  Reader!pad_vec_and_reverse(int2bits(x), CountBits) = CountOf(x)
<1>1. CountBits \in Nat
  BY DEF OutputAssumption
<1>2. CountOf(x) = [b \in 1..CountBits |-> CountOf(x)[b]]
  BY DEF CountOf
<1>3. Listing(CountOf(x)) /\ Len(CountOf(x)) = CountBits
  BY <1>1, <1>2, ListingOf
<1>4. int2bits(x) = Reverse(CountOf(x))
  <2>1. Reverse(CountOf(x)) = [i \in 1..CountBits |-> CountOf(x)[(CountBits - i) + 1]]
    BY <1>3 DEF Reverse
  <2>2. \A i \in 1..CountBits :
           CountOf(x)[(CountBits - i) + 1] = Shifted(x)[CountBits - i] % 2
    <3> SUFFICES ASSUME NEW i \in 1..CountBits
                 PROVE  CountOf(x)[(CountBits - i) + 1] = Shifted(x)[CountBits - i] % 2
      OBVIOUS
    <3>1. (CountBits - i) + 1 \in 1..CountBits /\ ((CountBits - i) + 1) - 1 = CountBits - i
      BY <1>1
    <3> QED
      BY <3>1 DEF CountOf
  <2>3. int2bits(x) = [i \in 1..CountBits |-> Shifted(x)[CountBits - i] % 2]
    BY ShiftedIs
  <2> QED
    BY <2>1, <2>2, <2>3
<1> QED
  BY <1>3, <1>4, ReversedBack

(* The commands of a cycle.                                                *)
LEMMA CommandsAre ==
    ASSUME OutputAssumption, NEW state, NEW time
    PROVE  /\ Listing(new_state(state, time)) /\ Len(new_state(state, time)) = Vs + 5
           /\ \A v \in 1..Vs : new_state(state, time)[v] = Vector(v - 1, Reverse(BitsOf(v, state)))
           /\ new_state(state, time)[Vs + 1] = Vector(Vs + 1, int2bits(time \div 10))
           /\ new_state(state, time)[Vs + 2] = Scalar(Vs, 1)
           /\ new_state(state, time)[Vs + 3] = Time(time + 5)
           /\ new_state(state, time)[Vs + 4] = Scalar(Vs, 0)
           /\ new_state(state, time)[Vs + 5] = Time(time + 10)
<1> DEFINE nets == write_state(state)
           rest == <<Vector(cycle_count, int2bits(time \div 10)), Scalar(clock, 1),
                     Time(time + 5), Scalar(clock, 0), Time(time + 10)>>
<1>1. /\ Vs \in Nat /\ DOMAIN representations = 1..Vs /\ clock = Vs /\ cycle_count = Vs + 1
      /\ \A v \in 1..Vs : representations[v].code = v - 1
  BY CodesAre
<1>2. /\ \A v \in 1..Vs : nets[v] = Vector(v - 1, Reverse(BitsOf(v, state)))
      /\ nets = [v \in 1..Vs |-> nets[v]]
  BY <1>1 DEF write_state, BitsOf
<1>3. /\ rest[1] = Vector(Vs + 1, int2bits(time \div 10)) /\ rest[2] = Scalar(Vs, 1)
      /\ rest[3] = Time(time + 5) /\ rest[4] = Scalar(Vs, 0) /\ rest[5] = Time(time + 10)
  BY <1>1
<1>4. new_state(state, time) = nets \o rest
  BY DEF new_state
<1>5. Listing(rest) /\ Len(rest) = 5
  <2>1. Len(rest) = 5 /\ rest = [i \in 1..5 |-> rest[i]]
    OBVIOUS
  <2> QED
    BY <2>1 DEF Listing
<1> HIDE DEF nets, rest
<1>6. Listing(nets) /\ Len(nets) = Vs
  BY <1>1, <1>2, ListingOf
<1>7. /\ Listing(nets \o rest) /\ Len(nets \o rest) = Vs + 5
      /\ \A v \in 1..Vs : (nets \o rest)[v] = nets[v]
      /\ \A i \in 1..5 : (nets \o rest)[Vs + i] = rest[i]
  <2>1. /\ Listing(nets \o rest) /\ Len(nets \o rest) = Len(nets) + Len(rest)
        /\ \A i \in 1..Len(nets) : (nets \o rest)[i] = nets[i]
        /\ \A i \in 1..Len(rest) : (nets \o rest)[Len(nets) + i] = rest[i]
    <3>1. Listing(nets) /\ Listing(rest)
      BY <1>5, <1>6
    <3> QED
      BY <3>1, ListingConcat
  <2> QED
    BY <1>5, <1>6, <2>1
<1> DEFINE block == nets \o rest
<1>8. /\ block[Vs + 1] = rest[1] /\ block[Vs + 2] = rest[2] /\ block[Vs + 3] = rest[3]
      /\ block[Vs + 4] = rest[4] /\ block[Vs + 5] = rest[5]
  <2>1. \A i \in 1..5 : block[Vs + i] = rest[i]
    BY <1>7
  <2> HIDE DEF block
  <2> QED
    BY <2>1
<1>9. new_state(state, time) = block
  BY <1>4
<1>10. /\ Listing(block) /\ Len(block) = Vs + 5
       /\ \A v \in 1..Vs : block[v] = Vector(v - 1, Reverse(BitsOf(v, state)))
  <2>1. \A v \in 1..Vs : block[v] = nets[v]
    BY <1>7
  <2>2. Listing(block) /\ Len(block) = Vs + 5
    BY <1>7
  <2> HIDE DEF block
  <2> QED
    BY <1>2, <2>1, <2>2
<1> HIDE DEF block
<1> QED
  BY <1>3, <1>8, <1>9, <1>10

-----------------------------------------------------------------------------
(* The invariant of the file: after the first timestamp, one block of      *)
(* commands for each cycle but the one to be written.                      *)
Block == Vs + 5
Start(i) == 1 + i * Block
Cycles == IF pc = "write" THEN Len(computed) - 1 ELSE Len(computed)
Wanted(i, k) == new_state(computed[i], 10 * (i - 1))[k]

LoopOK ==
    /\ pc \in {"next", "write", "check", "done"}
    /\ computed \in Seq(ModuleStates) /\ Len(computed) <= NCycles
    /\ pc = "write" => computed # <<>>

BlocksOK ==
    /\ Listing(file) /\ Len(file) = Start(Cycles)
    /\ file[1] = Time(0)
    /\ \A i \in 1..Cycles : \A k \in 1..Block : file[Start(i - 1) + k] = Wanted(i, k)

TimesOK ==
    /\ \A i, j \in 1..Len(file) :
          file[i].op = "time" /\ file[j].op = "time" /\ i < j => file[i].code < file[j].code
    /\ \A i \in 1..Len(file) : file[i].op = "time" => file[i].code \in Nat /\ file[i].code <= 10 * Cycles

(* The invariant of the reader: how far it is in the file (after b cycles, *)
(* in the commands of the next one), and which cycle each of the states    *)
(* that it keeps is.                                                       *)
StateOf(s, i) ==
    /\ \A v \in 1..Vs : s[v] = BitsOf(v, computed[i])
    /\ s[Vs + 2] = CountOf(i - 1)

Behind(b, k) ==
    /\ b >= 1 /\ k < Vs + 3 => StateOf(previous_state, b)
    /\ b >= 1 /\ k = 0 => StateOf(current_state, b)
    /\ \A v \in 1..Vs : v <= k => current_state[v] = BitsOf(v, computed[b + 1])
    /\ k >= Vs + 1 => current_state[Vs + 2] = CountOf(b)

At(b, k) ==
    /\ Len(log) = Start(b) + k
    /\ clk_state = IF k \in {Vs + 2, Vs + 3} THEN 1 ELSE IF b = 0 /\ k < Vs + 2 THEN X ELSE 0
    /\ Len(states) = IF k >= Vs + 2 THEN b ELSE IF b = 0 THEN 0 ELSE b - 1
    /\ Behind(b, k)

Positions == {p \in (0..Len(computed)) \X (0..(Vs + 4)) : p[1] = Len(computed) => p[2] = 0}

StatesOK ==
    /\ Listing(states) /\ Listing(log)
    /\ current_state = [v \in 1..(Vs + 2) |-> current_state[v]]
    /\ \A i \in 1..Len(states) : i <= Len(computed) => StateOf(states[i], i)

ReaderOK ==
    /\ status \in {"reading", "parsed"}
    /\ pc # "done" => status = "reading" /\ Len(log) = 0
    /\ Len(log) = 0 => clk_state = X /\ Len(states) = 0 /\ status = "reading"
    /\ status = "reading" /\ Len(log) # 0 => \E p \in Positions : At(p[1], p[2])
    /\ status = "parsed" => Len(log) = Len(file) /\ (computed # <<>> => Len(states) = Len(computed))

OutputInv == LoopOK /\ BlocksOK /\ TimesOK /\ StatesOK /\ ReaderOK

(* Where the commands of a cycle are in the file.                          *)
LEMMA StartIs ==
    ASSUME OutputAssumption
    PROVE  /\ Vs \in Nat /\ Block \in Nat /\ Block = Vs + 5 /\ Start(0) = 1
           /\ \A i \in Nat : Start(i) \in Nat /\ Start(i) >= 1 /\ Start(i + 1) = Start(i) + Block
           /\ \A i, j \in Nat : i < j => Start(i) + Block <= Start(j)
<1>1. Vs \in Nat /\ Block = Vs + 5
  BY CodesAre DEF Block
<1>2. Block \in Nat
  BY <1>1
<1> HIDE DEF Block
<1>3. \A i \in Nat : i * Block \in Nat
  BY <1>2
<1>4. ASSUME NEW i \in Nat
      PROVE  Start(i) \in Nat /\ Start(i) >= 1
  <2> DEFINE before == i * Block
  <2>1. before \in Nat /\ Start(i) = 1 + before
    BY <1>3 DEF Start
  <2> HIDE DEF before
  <2> QED
    BY <2>1
<1>5. ASSUME NEW i \in Nat, NEW j \in Nat
      PROVE  (i + j) * Block = i * Block + j * Block
  BY <1>2
<1>6. 0 * Block = 0 /\ 1 * Block = Block
  BY <1>2
<1>7. \A i \in Nat : Start(i + 1) = Start(i) + Block
  BY <1>2, <1>3, <1>5, <1>6 DEF Start
<1>8. ASSUME NEW i \in Nat, NEW j \in Nat, i < j
      PROVE  Start(i) + Block <= Start(j)
  <2> DEFINE d == j - (i + 1)
  <2>1. d \in Nat /\ j = (i + 1) + d /\ i + 1 \in Nat
    BY <1>8
  <2> HIDE DEF d
  <2>2. j * Block = (i + 1) * Block + d * Block
    BY <1>5, <2>1
  <2>3. Start(j) = Start(i + 1) + d * Block /\ d * Block \in Nat /\ Start(i + 1) \in Nat
    BY <1>3, <1>4, <2>1, <2>2 DEF Start
  <2> QED
    BY <1>7, <2>3
<1>9. Start(0) = 1
  BY <1>6 DEF Start
<1> QED
  BY <1>1, <1>2, <1>4, <1>7, <1>8, <1>9

(* The timestamps of a cycle.                                              *)
LEMMA TimesWritten ==
    ASSUME OutputAssumption, NEW state, NEW time \in Nat, NEW k \in 1..Block,
           new_state(state, time)[k].op = "time"
    PROVE  \/ k = Vs + 3 /\ new_state(state, time)[k].code = time + 5
           \/ k = Vs + 5 /\ new_state(state, time)[k].code = time + 10
<1> DEFINE block == new_state(state, time)
<1>1. Vs \in Nat /\ Block = Vs + 5
  BY StartIs
<1>2. /\ \A v \in 1..Vs : block[v] = Vector(v - 1, Reverse(BitsOf(v, state)))
      /\ block[Vs + 1] = Vector(Vs + 1, int2bits(time \div 10))
      /\ block[Vs + 2] = Scalar(Vs, 1) /\ block[Vs + 3] = Time(time + 5)
      /\ block[Vs + 4] = Scalar(Vs, 0) /\ block[Vs + 5] = Time(time + 10)
  BY CommandsAre
<1> HIDE DEF block
<1>3. block[k].op = "time"
  BY DEF block
<1>4. ASSUME k \in 1..Vs
      PROVE  FALSE
  <2>1. block[k] = Vector(k - 1, Reverse(BitsOf(k, state)))
    BY <1>2, <1>4
  <2>2. block[k].op = "vector"
    BY <2>1 DEF Vector
  <2> QED
    BY <1>3, <2>2
<1>5. k # Vs + 1 /\ k # Vs + 2 /\ k # Vs + 4
  BY <1>2, <1>3 DEF Vector, Scalar
<1>6. k = Vs + 3 \/ k = Vs + 5
  BY <1>1, <1>4, <1>5
<1>7. block[Vs + 3].code = time + 5 /\ block[Vs + 5].code = time + 10
  BY <1>2 DEF Time
<1> QED
  BY <1>6, <1>7 DEF block

-----------------------------------------------------------------------------
(* The main loop keeps its invariant.                                      *)
LEMMA LoopKept ==
    ASSUME OutputAssumption, LoopOK, [Next]_vars
    PROVE  LoopOK'
<1>1. computed \in Seq(ModuleStates) /\ Len(computed) \in Nat /\ Len(computed) <= NCycles /\ NCycles \in Nat
  BY DEF LoopOK, OutputAssumption
<1>2. CASE NextCycle
  <2>1. CASE Len(computed) = NCycles
    BY <1>2, <2>1 DEF NextCycle, LoopOK
  <2>2. CASE Len(computed) # NCycles
    <3>1. PICK s \in ModuleStates : computed' = Append(computed, s)
      BY <1>2, <2>2 DEF NextCycle
    <3>2. computed' \in Seq(ModuleStates) /\ Len(computed') = Len(computed) + 1
      BY <1>1, <3>1, AppendIs
    <3>3. computed' # <<>>
      BY <1>1, <3>2
    <3>4. Len(computed') <= NCycles
      BY <1>1, <2>2, <3>2
    <3>5. pc' = "write"
      BY <1>2, <2>2 DEF NextCycle
    <3> QED
      BY <3>2, <3>3, <3>4, <3>5 DEF LoopOK
  <2> QED
    BY <2>1, <2>2
<1>3. CASE WriteState
  BY <1>3 DEF WriteState, LoopOK
<1>4. CASE Check
  BY <1>4 DEF Check, LoopOK
<1>5. CASE Read \/ EndOfFile \/ UNCHANGED vars
  BY <1>5 DEF Read, EndOfFile, vars, LoopOK
<1> QED
  BY <1>2, <1>3, <1>4, <1>5 DEF Next

(* So does the file.                                                       *)
LEMMA FileKept ==
    ASSUME OutputAssumption, LoopOK, BlocksOK, TimesOK, [Next]_vars
    PROVE  BlocksOK' /\ TimesOK'
<1>1. computed \in Seq(ModuleStates) /\ Len(computed) \in Nat
  BY DEF LoopOK
<1>2. ASSUME file' = file, computed' = computed, Cycles' = Cycles
      PROVE  BlocksOK' /\ TimesOK'
  <2>1. BlocksOK'
    BY <1>2 DEF BlocksOK, Wanted, Start, Block
  <2>2. TimesOK'
    BY <1>2 DEF TimesOK
  <2> QED
    BY <2>1, <2>2
<1>3. CASE NextCycle
  <2>1. CASE Len(computed) = NCycles
    <3>1. file' = file /\ computed' = computed /\ pc = "next" /\ pc' = "done"
      BY <1>3, <2>1 DEF NextCycle
    <3>2. Cycles' = Cycles
      BY <3>1 DEF Cycles
    <3> QED
      BY <1>2, <3>1, <3>2
  <2>2. CASE Len(computed) # NCycles
    <3>1. PICK s \in ModuleStates : computed' = Append(computed, s)
      BY <1>3, <2>2 DEF NextCycle
    <3>2. file' = file /\ pc = "next" /\ pc' = "write"
      BY <1>3, <2>2 DEF NextCycle
    <3>3. Len(computed') = Len(computed) + 1 /\ \A i \in 1..Len(computed) : computed'[i] = computed[i]
      BY <1>1, <3>1, AppendIs
    <3>4. Cycles = Len(computed) /\ Cycles' = Len(computed)
      BY <1>1, <3>2, <3>3 DEF Cycles
    <3>5. \A i \in 1..Cycles : \A k \in 1..Block : Wanted(i, k)' = Wanted(i, k)
      BY <3>3, <3>4 DEF Wanted
    <3>6. BlocksOK'
      <4>1. /\ Listing(file) /\ Len(file) = Start(Cycles) /\ file[1] = Time(0)
            /\ \A i \in 1..Cycles : \A k \in 1..Block : file[Start(i - 1) + k] = Wanted(i, k)
        BY DEF BlocksOK
      <4>2. \A i \in 1..Cycles' : \A k \in 1..Block : file'[Start(i - 1) + k] = Wanted(i, k)'
        BY <3>2, <3>4, <3>5, <4>1
      <4>3. Listing(file)' /\ Len(file') = Start(Cycles)' /\ file'[1] = Time(0)
        BY <3>2, <3>4, <4>1 DEF Listing, Start, Block
      <4> QED
        BY <4>2, <4>3 DEF BlocksOK, Start, Block
    <3>7. TimesOK'
      BY <3>2, <3>4 DEF TimesOK
    <3> QED
      BY <3>6, <3>7
  <2> QED
    BY <2>1, <2>2
<1>4. CASE WriteState
  <2> DEFINE c == Len(computed)
             block == new_state(computed[c], 10 * (c - 1))
  <2>1. pc = "write" /\ pc' = "check" /\ computed' = computed /\ file' = file \o block
    BY <1>4 DEF WriteState, Last
  <2>2. c \in Nat /\ c >= 1
    BY <1>1, <2>1 DEF LoopOK
  <2>3. Cycles = c - 1 /\ Cycles' = c
    BY <2>1 DEF Cycles
  <2>4. /\ Vs \in Nat /\ Block \in Nat /\ Block = Vs + 5
        /\ Start(c - 1) \in Nat /\ Start(c - 1) >= 1 /\ Start(c) = Start(c - 1) + Block
    <3>1. c - 1 \in Nat /\ (c - 1) + 1 = c
      BY <2>2
    <3> QED
      BY <3>1, StartIs
  <2>5. Listing(block) /\ Len(block) = Block
    BY <2>4, CommandsAre
  <2> HIDE DEF block
  <2>6. /\ Listing(file) /\ Len(file) = Start(c - 1) /\ file[1] = Time(0)
        /\ \A i \in 1..(c - 1) : \A k \in 1..Block : file[Start(i - 1) + k] = Wanted(i, k)
    BY <2>3 DEF BlocksOK
  <2>7. /\ Listing(file') /\ Len(file') = Start(c)
        /\ \A p \in 1..Start(c - 1) : file'[p] = file[p]
        /\ \A k \in 1..Block : file'[Start(c - 1) + k] = block[k]
    <3>1. /\ Listing(file \o block) /\ Len(file \o block) = Len(file) + Len(block)
          /\ \A p \in 1..Len(file) : (file \o block)[p] = file[p]
          /\ \A k \in 1..Len(block) : (file \o block)[Len(file) + k] = block[k]
      <4>1. Listing(file) /\ Listing(block)
        BY <2>5, <2>6
      <4> HIDE DEF c
      <4> QED
        BY <4>1, ListingConcat
    <3> QED
      BY <2>1, <2>4, <2>5, <2>6, <3>1
  <2>8. BlocksOK'
    <3>1. ASSUME NEW i \in 1..c, NEW k \in 1..Block
          PROVE  file'[Start(i - 1) + k] = Wanted(i, k)
      <4>1. CASE i = c
        BY <2>7, <4>1 DEF Wanted, block
      <4>2. CASE i # c
        <5>1. i \in 1..(c - 1) /\ i - 1 \in Nat /\ c - 1 \in Nat /\ i - 1 < c - 1
          BY <2>2, <4>2
        <5>2. Start(i - 1) \in Nat /\ Start(i - 1) + Block <= Start(c - 1)
          BY <5>1, StartIs
        <5>3. Start(i - 1) + k \in 1..Start(c - 1)
          BY <2>4, <5>2
        <5> QED
          BY <2>6, <2>7, <5>1, <5>3
      <4> QED
        BY <4>1, <4>2
    <3>2. file'[1] = Time(0)
      BY <2>4, <2>6, <2>7
    <3>3. \A i \in 1..c : \A k \in 1..Block : Wanted(i, k)' = Wanted(i, k)
      BY <2>1 DEF Wanted
    <3>4. Start(Cycles)' = Start(c) /\ Listing(file)'
      BY <2>3, <2>7 DEF Start, Block, Listing
    <3> QED
      BY <2>3, <2>7, <3>1, <3>2, <3>3, <3>4 DEF BlocksOK, Start, Block
  <2>9. TimesOK'
    <3> DEFINE s == Start(c - 1)
               t == 10 * (c - 1)
    <3>0. s \in Nat /\ t \in Nat
      BY <2>2, <2>4
    <3>1. ASSUME NEW p \in (s + 1)..(s + Block), file'[p].op = "time"
          PROVE  \/ p = s + (Vs + 3) /\ file'[p].code = t + 5
                 \/ p = s + (Vs + 5) /\ file'[p].code = t + 10
      <4>1. PICK k \in 1..Block : p = s + k
        <5>1. p - s \in 1..Block /\ p = s + (p - s)
          BY <2>4, <3>0
        <5> QED
          BY <5>1
      <4>2. file'[p] = block[k]
        BY <2>7, <4>1
      <4>3. \/ k = Vs + 3 /\ block[k].code = t + 5
            \/ k = Vs + 5 /\ block[k].code = t + 10
        <5>1. new_state(computed[c], t)[k].op = "time"
          BY <3>1, <4>2 DEF block
        <5>2. \/ k = Vs + 3 /\ new_state(computed[c], t)[k].code = t + 5
              \/ k = Vs + 5 /\ new_state(computed[c], t)[k].code = t + 10
          <6> HIDE DEF c, t
          <6> QED
            BY <3>0, <5>1, TimesWritten
        <5> QED
          BY <5>2 DEF block
      <4> QED
        BY <4>1, <4>2, <4>3
    <3>2. \A p \in 1..s : file'[p].op = "time" => file'[p].code \in Nat /\ file'[p].code <= t
      BY <2>3, <2>6, <2>7 DEF TimesOK
    <3>3. \A p, q \in 1..s :
             file'[p].op = "time" /\ file'[q].op = "time" /\ p < q => file'[p].code < file'[q].code
      BY <2>6, <2>7 DEF TimesOK
    <3>4. Len(file') = s + Block
      BY <2>4, <2>7
    <3> HIDE DEF s, t
    <3>5. ASSUME NEW p \in 1..Len(file'), file'[p].op = "time"
          PROVE  /\ file'[p].code \in Nat /\ file'[p].code <= t + 10
                 /\ p \in 1..s \/ p \in (s + 1)..(s + Block)
      <4>1. p \in 1..s \/ p \in (s + 1)..(s + Block)
        BY <2>4, <3>0, <3>4
      <4>2. ASSUME p \in 1..s
            PROVE  file'[p].code \in Nat /\ file'[p].code <= t + 10
        <5>1. file'[p].code \in Nat /\ file'[p].code <= t
          BY <3>2, <3>5, <4>2
        <5> QED
          BY <3>0, <5>1
      <4>3. ASSUME p \in (s + 1)..(s + Block)
            PROVE  file'[p].code \in Nat /\ file'[p].code <= t + 10
        <5>1. file'[p].code = t + 5 \/ file'[p].code = t + 10
          BY <3>1, <3>5, <4>3
        <5> QED
          BY <3>0, <5>1
      <4> QED
        BY <4>1, <4>2, <4>3
    <3>6. ASSUME NEW p \in 1..Len(file'), NEW q \in 1..Len(file'),
                 file'[p].op = "time", file'[q].op = "time", p < q
          PROVE  file'[p].code < file'[q].code
      <4>1. CASE q \in 1..s
        <5>1. p \in 1..s
          BY <2>4, <3>0, <3>4, <3>6, <4>1
        <5> QED
          BY <3>3, <3>6, <4>1, <5>1
      <4>2. CASE q \in (s + 1)..(s + Block)
        <5>1. \/ q = s + (Vs + 3) /\ file'[q].code = t + 5
              \/ q = s + (Vs + 5) /\ file'[q].code = t + 10
          BY <3>1, <3>6, <4>2
        <5>2. CASE p \in 1..s
          <6>1. file'[p].code \in Nat /\ file'[p].code <= t
            BY <3>2, <3>6, <5>2
          <6> QED
            BY <3>0, <5>1, <6>1
        <5>3. CASE p \in (s + 1)..(s + Block)
          <6>1. \/ p = s + (Vs + 3) /\ file'[p].code = t + 5
                \/ p = s + (Vs + 5) /\ file'[p].code = t + 10
            BY <3>1, <3>6, <5>3
          <6> QED
            BY <2>4, <3>0, <3>6, <5>1, <6>1
        <5> QED
          BY <3>5, <3>6, <5>2, <5>3
      <4> QED
        BY <3>5, <3>6, <4>1, <4>2
    <3>7. 10 * Cycles' = t + 10
      BY <2>2, <2>3 DEF t
    <3> QED
      BY <3>5, <3>6, <3>7 DEF TimesOK
  <2> QED
    BY <2>8, <2>9
<1>5. CASE Check
  <2>1. file' = file /\ computed' = computed /\ pc = "check" /\ pc' # "write"
    BY <1>5 DEF Check
  <2>2. Cycles' = Cycles
    BY <2>1 DEF Cycles
  <2> QED
    BY <1>2, <2>1, <2>2
<1>6. CASE Read \/ EndOfFile \/ UNCHANGED vars
  <2>1. file' = file /\ computed' = computed /\ pc' = pc
    BY <1>6 DEF Read, EndOfFile, vars
  <2>2. Cycles' = Cycles
    BY <2>1 DEF Cycles
  <2> QED
    BY <1>2, <2>1, <2>2
<1> QED
  BY <1>3, <1>4, <1>5, <1>6 DEF Next

-----------------------------------------------------------------------------
(* What the reader does with the command of each kind.                     *)
LogGrows == /\ status = "reading" /\ status' = status
            /\ Listing(log') /\ Len(log') = Len(log) + 1 /\ Len(log) \in Nat

(* Reading a command adds it to what was read.                             *)
LEMMA LogRead ==
    ASSUME StatesOK, NEW command, Reader!Reading(command), status' = status
    PROVE  LogGrows
<1>1. Listing(log)
  BY DEF StatesOK
<1>2. status = "reading" /\ log' = Append(log, command)
  BY DEF Reader!Reading
<1>3. /\ Listing(Append(log, command)) /\ Len(Append(log, command)) = Len(log) + 1 /\ Len(log) \in Nat
  BY <1>1, ListingAppend
<1> QED
  BY <1>2, <1>3 DEF LogGrows

(* Storing the value of a variable changes that of no other.               *)
LEMMA StoreRead ==
    ASSUME OutputAssumption, StatesOK, NEW v \in 1..(Vs + 2), NEW value, Reader!Store(v - 1, value)
    PROVE  /\ current_state' = [w \in 1..(Vs + 2) |-> current_state'[w]]
           /\ current_state'[v] = value
           /\ \A w \in 1..(Vs + 2) : w # v => current_state'[w] = current_state[w]
<1>1. Vs \in Nat /\ Reader!VarOf(v - 1) = v
  BY StartIs, PlacesAre
<1>2. v # 0
  BY <1>1
<1>3. current_state' = [current_state EXCEPT ![v] = value]
  BY <1>1, <1>2 DEF Reader!Store
<1>4. current_state = [w \in 1..(Vs + 2) |-> current_state[w]]
  BY DEF StatesOK
<1> QED
  BY <1>3, <1>4

(* A change of a vector, read, sets its value and samples nothing.         *)
LEMMA VectorRead ==
    ASSUME OutputAssumption, StatesOK, NEW v \in 1..(Vs + 2), NEW bits, Reader!ChangeVector(v - 1, bits),
           NEW value, Reader!pad_vec_and_reverse(bits, Sizes[v - 1]) = value
    PROVE  /\ LogGrows
           /\ UNCHANGED <<previous_state, clk_state, states>>
           /\ current_state' = [w \in 1..(Vs + 2) |-> current_state'[w]]
           /\ current_state'[v] = value
           /\ \A w \in 1..(Vs + 2) : w # v => current_state'[w] = current_state[w]
<1>1. Reader!Reading([op |-> "change", code |-> v - 1, bits |-> Reader!Expand(bits, Sizes[v - 1])])
  BY DEF Reader!ChangeVector
<1>2. status' = status /\ UNCHANGED <<previous_state, clk_state, states>>
  BY DEF Reader!ChangeVector
<1>3. Reader!Store(v - 1, value)
  BY DEF Reader!ChangeVector
<1>4. LogGrows
  BY <1>1, <1>2, LogRead
<1> QED
  BY <1>2, <1>3, <1>4, StoreRead

(* A change of the clock samples the state before a rising edge.           *)
LEMMA ClockRead ==
    ASSUME OutputAssumption, StatesOK, NEW value \in {0, 1}, Reader!ChangeScalar(Vs, value)
    PROVE  /\ LogGrows
           /\ UNCHANGED previous_state
           /\ clk_state' = value
           /\ states' = IF value = 1 /\ clk_state = 0 THEN Append(states, previous_state) ELSE states
           /\ current_state' = [w \in 1..(Vs + 2) |-> current_state'[w]]
           /\ \A w \in 1..(Vs + 2) : w # Vs + 1 => current_state'[w] = current_state[w]
<1>1. Vs \in Nat /\ clock = Vs
  BY CodesAre
<1>2. value # -1
  OBVIOUS
<1>3. value # Reader!X
  BY <1>2 DEF Reader!X
<1>4. /\ Reader!Reading([op |-> "change", code |-> Vs, bits |-> <<value>>])
      /\ Reader!Tick(value) /\ Reader!Store(Vs, <<value>>) /\ UNCHANGED <<status, previous_state>>
  BY <1>1, <1>3 DEF Reader!ChangeScalar
<1>5. LogGrows
  BY <1>4, LogRead
<1>6. /\ clk_state' = value
      /\ states' = IF value = 1 /\ clk_state = 0 THEN Append(states, previous_state) ELSE states
  BY <1>3, <1>4 DEF Reader!Tick
<1>7. Vs + 1 \in 1..(Vs + 2) /\ (Vs + 1) - 1 = Vs
  BY <1>1
<1>8. Reader!Store((Vs + 1) - 1, <<value>>)
  BY <1>4, <1>7
<1>9. /\ current_state' = [w \in 1..(Vs + 2) |-> current_state'[w]]
      /\ \A w \in 1..(Vs + 2) : w # Vs + 1 => current_state'[w] = current_state[w]
  BY <1>7, <1>8, StoreRead
<1> QED
  BY <1>4, <1>5, <1>6, <1>9

(* A timestamp makes the current state the previous one.                   *)
LEMMA TimeRead ==
    ASSUME StatesOK, Reader!Timestamp
    PROVE  /\ LogGrows
           /\ previous_state' = current_state
           /\ UNCHANGED <<current_state, clk_state, states>>
<1>1. status' = status /\ previous_state' = current_state /\ UNCHANGED <<current_state, clk_state, states>>
  BY DEF Reader!Timestamp
<1>2. Reader!Reading([op |-> "time", code |-> clock, bits |-> <<>>])
  BY DEF Reader!Timestamp
<1> QED
  BY <1>1, <1>2, LogRead

(* The command that is read next.                                          *)
LEMMA CommandRead ==
    ASSUME OutputAssumption, LoopOK, BlocksOK, pc = "done",
           NEW p \in Positions, Len(log) = Start(p[1]) + p[2]
    PROVE  /\ Len(log) = Len(file) => p = <<Len(computed), 0>>
           /\ Len(log) < Len(file) =>
                /\ p[1] \in Nat /\ p[1] < Len(computed) /\ p[2] \in 0..(Vs + 4)
                /\ file[Len(log) + 1] = Wanted(p[1] + 1, p[2] + 1)
<1> DEFINE n == Len(computed)
           b == p[1]
           k == p[2]
<1>1. n \in Nat
  BY DEF LoopOK
<1>2. b \in 0..n /\ k \in 0..(Vs + 4) /\ (b = n => k = 0) /\ p = <<b, k>>
  BY DEF Positions
<1>3. Len(file) = Start(n) /\ \A i \in 1..n : \A j \in 1..Block : file[Start(i - 1) + j] = Wanted(i, j)
  BY DEF BlocksOK, Cycles
<1>4. /\ Vs \in Nat /\ Block = Vs + 5
      /\ Start(b) \in Nat /\ Start(n) \in Nat /\ (b < n => Start(b) + Block <= Start(n))
  <2>1. b \in Nat /\ n \in Nat
    BY <1>1, <1>2
  <2> HIDE DEF b, n
  <2> QED
    BY <2>1, StartIs
<1>5. Len(log) = Start(b) + k
  OBVIOUS
<1> HIDE DEF n, b, k
<1>6. ASSUME Len(log) = Len(file)
      PROVE  p = <<n, 0>>
  <2>1. ~(b < n)
    BY <1>2, <1>3, <1>4, <1>5, <1>6
  <2> QED
    BY <1>1, <1>2, <2>1
<1>7. ASSUME Len(log) < Len(file)
      PROVE  b \in Nat /\ b < n /\ file[Len(log) + 1] = Wanted(b + 1, k + 1)
  <2>1. b # n
    BY <1>2, <1>3, <1>4, <1>5, <1>7
  <2>2. b \in Nat /\ b < n /\ b + 1 \in 1..n /\ (b + 1) - 1 = b /\ k + 1 \in 1..Block
    BY <1>1, <1>2, <1>4, <2>1
  <2>3. file[Start(b) + (k + 1)] = Wanted(b + 1, k + 1)
    BY <1>3, <2>2
  <2>4. Len(log) + 1 = Start(b) + (k + 1)
    BY <1>2, <1>4, <1>5
  <2> QED
    BY <2>2, <2>3, <2>4
<1> QED
  BY <1>2, <1>6, <1>7 DEF n, b, k

(* What it is.                                                             *)
LEMMA CommandIs ==
    ASSUME OutputAssumption, NEW b \in Nat
    PROVE  /\ \A v \in 1..Vs : Wanted(b + 1, v) = Vector(v - 1, Reverse(BitsOf(v, computed[b + 1])))
           /\ Wanted(b + 1, Vs + 1) = Vector(Vs + 1, int2bits(b))
           /\ Wanted(b + 1, Vs + 2) = Scalar(Vs, 1)
           /\ Wanted(b + 1, Vs + 3).op = "time"
           /\ Wanted(b + 1, Vs + 4) = Scalar(Vs, 0)
           /\ Wanted(b + 1, Vs + 5).op = "time"
<1> DEFINE t == 10 * ((b + 1) - 1)
           state == computed[b + 1]
<1>1. t \div 10 = b
  OBVIOUS
<1>2. \A k : Wanted(b + 1, k) = new_state(state, t)[k]
  BY DEF Wanted
<1> HIDE DEF t, state
<1>3. /\ \A v \in 1..Vs : new_state(state, t)[v] = Vector(v - 1, Reverse(BitsOf(v, state)))
      /\ new_state(state, t)[Vs + 1] = Vector(Vs + 1, int2bits(t \div 10))
      /\ new_state(state, t)[Vs + 2] = Scalar(Vs, 1)
      /\ new_state(state, t)[Vs + 3] = Time(t + 5)
      /\ new_state(state, t)[Vs + 4] = Scalar(Vs, 0)
      /\ new_state(state, t)[Vs + 5] = Time(t + 10)
  BY CommandsAre
<1>4. Time(t + 5).op = "time" /\ Time(t + 10).op = "time"
  BY DEF Time
<1> QED
  BY <1>1, <1>2, <1>3, <1>4 DEF state

-----------------------------------------------------------------------------
(* What it does to the invariant of the reader, in the file of all cycles. *)
ReadingOf(b, k) ==
    /\ pc = "done" /\ b \in Nat /\ b < Len(computed) /\ k \in 0..(Vs + 4)
    /\ At(b, k)

(* The states kept still are those of their cycles.                        *)
LEMMA StatesKept ==
    ASSUME StatesOK, computed' = computed, UNCHANGED states, Listing(log'),
           current_state' = [w \in 1..(Vs + 2) |-> current_state'[w]]
    PROVE  StatesOK'
BY DEF StatesOK, StateOf, Listing

(* A net or the cycle counter.                                             *)
LEMMA VectorStep ==
    ASSUME OutputAssumption, StatesOK, NEW b, NEW k, ReadingOf(b, k), k <= Vs,
           UNCHANGED <<pc, computed, file>>,
           NEW v, v = (IF k = Vs THEN Vs + 2 ELSE k + 1),
           LogGrows, UNCHANGED <<previous_state, clk_state, states>>,
           current_state' = [w \in 1..(Vs + 2) |-> current_state'[w]],
           current_state'[v] = (IF k = Vs THEN CountOf(b) ELSE BitsOf(v, computed[b + 1])),
           \A w \in 1..(Vs + 2) : w # v => current_state'[w] = current_state[w]
    PROVE  StatesOK' /\ At(b, k + 1)'
<1>1. Vs \in Nat /\ b \in Nat /\ k \in 0..Vs /\ Start(b) \in Nat
  <2>1. Vs \in Nat /\ b \in Nat /\ k \in 0..(Vs + 4)
    BY StartIs DEF ReadingOf
  <2>2. Start(b) \in Nat
    BY <2>1, StartIs
  <2> QED
    BY <2>1, <2>2
<1>2. Len(log) = Start(b) + k /\ Len(log') = Len(log) + 1 /\ Len(states') = Len(states)
  BY DEF ReadingOf, At, LogGrows
<1>3. StatesOK'
  BY StatesKept DEF LogGrows
<1>4. Len(log') = Start(b) + (k + 1)
  BY <1>1, <1>2
<1>5. clk_state' = IF k + 1 \in {Vs + 2, Vs + 3} THEN 1 ELSE IF b = 0 /\ k + 1 < Vs + 2 THEN X ELSE 0
  <2>1. clk_state = IF k \in {Vs + 2, Vs + 3} THEN 1 ELSE IF b = 0 /\ k < Vs + 2 THEN X ELSE 0
    BY DEF ReadingOf, At
  <2>2. k \notin {Vs + 2, Vs + 3} /\ k + 1 \notin {Vs + 2, Vs + 3} /\ k < Vs + 2 /\ k + 1 < Vs + 2
    BY <1>1
  <2> QED
    BY <2>1, <2>2
<1>6. Len(states') = IF k + 1 >= Vs + 2 THEN b ELSE IF b = 0 THEN 0 ELSE b - 1
  <2>1. Len(states) = IF k >= Vs + 2 THEN b ELSE IF b = 0 THEN 0 ELSE b - 1
    BY DEF ReadingOf, At
  <2>2. ~(k >= Vs + 2) /\ ~(k + 1 >= Vs + 2)
    BY <1>1
  <2> QED
    BY <1>2, <2>1, <2>2
<1>7. Behind(b, k + 1)'
  <2>1. b >= 1 => StateOf(previous_state, b)'
    <3>1. b >= 1 /\ k < Vs + 3 => StateOf(previous_state, b)
      BY DEF ReadingOf, At, Behind
    <3>2. k < Vs + 3
      BY <1>1
    <3> QED
      BY <3>1, <3>2 DEF StateOf
  <2>2. k + 1 # 0
    BY <1>1
  <2>3. ASSUME NEW w \in 1..Vs, w <= k + 1
        PROVE  current_state'[w] = BitsOf(w, computed[b + 1])
    <3>1. CASE w = v
      BY <1>1, <2>3, <3>1
    <3>2. CASE w # v
      <4>1. w <= k /\ w \in 1..(Vs + 2)
        BY <1>1, <2>3, <3>2
      <4> QED
        BY <3>2, <4>1 DEF ReadingOf, At, Behind
    <3> QED
      BY <3>1, <3>2
  <2>4. k + 1 >= Vs + 1 => current_state'[Vs + 2] = CountOf(b)
    BY <1>1
  <2> QED
    BY <2>1, <2>2, <2>3, <2>4 DEF Behind
<1> QED
  BY <1>3, <1>4, <1>5, <1>6, <1>7 DEF At, Start, Block

(* What the steps on the clock and on the time have in common: the nets    *)
(* and the cycle counter are as they were.                                 *)
LEMMA SameValues ==
    ASSUME OutputAssumption, NEW b, NEW k, ReadingOf(b, k), k >= Vs + 1, UNCHANGED computed,
           \A w \in 1..(Vs + 2) : w # Vs + 1 => current_state'[w] = current_state[w]
    PROVE  /\ \A v \in 1..Vs : current_state'[v] = BitsOf(v, computed[b + 1])
           /\ current_state'[Vs + 2] = CountOf(b)
<1>1. Vs \in Nat /\ k \in 0..(Vs + 4)
  BY StartIs DEF ReadingOf
<1>2. /\ \A v \in 1..Vs : v <= k => current_state[v] = BitsOf(v, computed[b + 1])
      /\ k >= Vs + 1 => current_state[Vs + 2] = CountOf(b)
  BY DEF ReadingOf, At, Behind
<1>3. ASSUME NEW v \in 1..Vs
      PROVE  current_state'[v] = BitsOf(v, computed[b + 1])
  <2>1. v <= k /\ v \in 1..(Vs + 2) /\ v # Vs + 1
    BY <1>1
  <2> QED
    BY <1>2, <2>1
<1>4. Vs + 2 \in 1..(Vs + 2) /\ Vs + 2 # Vs + 1
  BY <1>1
<1> QED
  BY <1>2, <1>3, <1>4

(* The rising edge: the state that is kept is that of the cycle before.    *)
LEMMA EdgeStep ==
    ASSUME OutputAssumption, StatesOK, NEW b, ReadingOf(b, Vs + 1),
           UNCHANGED <<pc, computed, file>>,
           LogGrows, UNCHANGED previous_state, clk_state' = 1,
           states' = IF clk_state = 0 THEN Append(states, previous_state) ELSE states,
           current_state' = [w \in 1..(Vs + 2) |-> current_state'[w]],
           \A w \in 1..(Vs + 2) : w # Vs + 1 => current_state'[w] = current_state[w]
    PROVE  StatesOK' /\ At(b, Vs + 2)'
<1>1. Vs \in Nat /\ b \in Nat /\ Start(b) \in Nat
  <2>1. Vs \in Nat /\ b \in Nat
    BY StartIs DEF ReadingOf
  <2> QED
    BY <2>1, StartIs
<1>2. /\ Len(log) = Start(b) + (Vs + 1)
      /\ clk_state = IF Vs + 1 \in {Vs + 2, Vs + 3} THEN 1 ELSE IF b = 0 /\ Vs + 1 < Vs + 2 THEN X ELSE 0
      /\ Len(states) = IF Vs + 1 >= Vs + 2 THEN b ELSE IF b = 0 THEN 0 ELSE b - 1
      /\ b >= 1 /\ Vs + 1 < Vs + 3 => StateOf(previous_state, b)
  BY DEF ReadingOf, At, Behind
<1>3. /\ clk_state = IF b = 0 THEN X ELSE 0
      /\ Len(states) = IF b = 0 THEN 0 ELSE b - 1
      /\ b >= 1 => StateOf(previous_state, b)
  <2>1. Vs + 1 \notin {Vs + 2, Vs + 3} /\ Vs + 1 < Vs + 2 /\ ~(Vs + 1 >= Vs + 2) /\ Vs + 1 < Vs + 3
    BY <1>1
  <2> QED
    BY <1>2, <2>1
<1>4. /\ Listing(states') /\ Len(states') = b
      /\ \A i \in 1..Len(states') : i <= Len(computed) => StateOf(states'[i], i)
  <2>1. Listing(states) /\ \A i \in 1..Len(states) : i <= Len(computed) => StateOf(states[i], i)
    BY DEF StatesOK
  <2>2. CASE b = 0
    <3>1. clk_state # 0
      BY <1>3, <2>2 DEF X
    <3>2. states' = states
      BY <3>1
    <3> QED
      BY <1>3, <2>1, <2>2, <3>2
  <2>3. CASE b # 0
    <3>1. states' = Append(states, previous_state) /\ Len(states) = b - 1 /\ StateOf(previous_state, b)
      BY <1>1, <1>3, <2>3
    <3>2. /\ Listing(states') /\ Len(states') = b
          /\ \A i \in 1..(b - 1) : states'[i] = states[i]
          /\ states'[b] = previous_state
      <4>1. /\ Listing(Append(states, previous_state))
            /\ Len(Append(states, previous_state)) = Len(states) + 1
            /\ \A i \in 1..Len(states) : Append(states, previous_state)[i] = states[i]
            /\ Append(states, previous_state)[Len(states) + 1] = previous_state
        BY <2>1, ListingAppend
      <4>2. Len(states) + 1 = b
        BY <1>1, <3>1
      <4> QED
        BY <3>1, <4>1, <4>2
    <3>3. ASSUME NEW i \in 1..b, i <= Len(computed)
          PROVE  StateOf(states'[i], i)
      <4>1. CASE i = b
        BY <3>1, <3>2, <4>1
      <4>2. CASE i # b
        <5>1. i \in 1..(b - 1)
          BY <1>1, <4>2
        <5> QED
          BY <2>1, <3>1, <3>2, <3>3, <5>1
      <4> QED
        BY <4>1, <4>2
    <3> QED
      BY <3>2, <3>3
  <2> QED
    BY <2>2, <2>3
<1>5. StatesOK'
  BY <1>4 DEF StatesOK, StateOf, Listing, LogGrows
<1>6. Behind(b, Vs + 2)'
  <2>1. /\ \A v \in 1..Vs : current_state'[v] = BitsOf(v, computed[b + 1])
        /\ current_state'[Vs + 2] = CountOf(b)
    <3>1. Vs + 1 >= Vs + 1
      BY <1>1
    <3> QED
      BY <3>1, SameValues
  <2>2. b >= 1 => StateOf(previous_state, b)'
    BY <1>3 DEF StateOf
  <2>3. Vs + 2 # 0
    BY <1>1
  <2> QED
    BY <2>1, <2>2, <2>3 DEF Behind
<1>7. Len(log') = Start(b) + (Vs + 2)
  BY <1>1, <1>2 DEF LogGrows
<1>8. Vs + 2 \in {Vs + 2, Vs + 3} /\ Vs + 2 >= Vs + 2
  BY <1>1
<1> QED
  BY <1>4, <1>5, <1>6, <1>7, <1>8 DEF At, Start, Block

(* The other commands that are followed by one of the same cycle: the      *)
(* timestamp in the middle and the falling edge.                           *)
LEMMA MiddleStep ==
    ASSUME OutputAssumption, StatesOK, NEW b, NEW k, ReadingOf(b, k), k \in {Vs + 2, Vs + 3},
           UNCHANGED <<pc, computed, file>>,
           LogGrows, UNCHANGED states, clk_state' = (IF k = Vs + 2 THEN 1 ELSE 0),
           current_state' = [w \in 1..(Vs + 2) |-> current_state'[w]],
           \A w \in 1..(Vs + 2) : w # Vs + 1 => current_state'[w] = current_state[w]
    PROVE  StatesOK' /\ At(b, k + 1)'
<1>1. Vs \in Nat /\ b \in Nat /\ k \in Nat /\ Start(b) \in Nat
  <2>1. Vs \in Nat /\ b \in Nat
    BY StartIs DEF ReadingOf
  <2>2. Start(b) \in Nat
    BY <2>1, StartIs
  <2>3. k \in Nat
    BY <2>1
  <2> QED
    BY <2>1, <2>2, <2>3
<1>2. Len(log') = Start(b) + (k + 1)
  <2>1. Len(log) = Start(b) + k
    BY DEF ReadingOf, At
  <2> QED
    BY <1>1, <2>1 DEF LogGrows
<1>3. StatesOK'
  BY StatesKept DEF LogGrows
<1>4. Len(states') = b
  <2>1. Len(states) = IF k >= Vs + 2 THEN b ELSE IF b = 0 THEN 0 ELSE b - 1
    BY DEF ReadingOf, At
  <2>2. k >= Vs + 2
    BY <1>1
  <2> QED
    BY <2>1, <2>2
<1>5. Behind(b, k + 1)'
  <2>1. /\ \A v \in 1..Vs : current_state'[v] = BitsOf(v, computed[b + 1])
        /\ current_state'[Vs + 2] = CountOf(b)
    <3>1. k >= Vs + 1
      BY <1>1
    <3> QED
      BY <3>1, SameValues
  <2>2. k + 1 # 0 /\ ~(k + 1 < Vs + 3)
    BY <1>1
  <2> QED
    BY <2>1, <2>2 DEF Behind
<1>6. k + 1 >= Vs + 2 /\ ~(k + 1 < Vs + 2) /\ (k + 1 \in {Vs + 2, Vs + 3} <=> k = Vs + 2)
  BY <1>1
<1>7. clk_state' = IF k + 1 \in {Vs + 2, Vs + 3} THEN 1 ELSE IF b = 0 /\ k + 1 < Vs + 2 THEN X ELSE 0
  BY <1>6
<1> QED
  BY <1>2, <1>3, <1>4, <1>5, <1>6, <1>7 DEF At, Start, Block

(* The timestamp that ends a cycle.                                        *)
LEMMA EndStep ==
    ASSUME OutputAssumption, StatesOK, NEW b, ReadingOf(b, Vs + 4),
           UNCHANGED <<pc, computed, file>>,
           LogGrows, previous_state' = current_state, UNCHANGED <<current_state, clk_state, states>>
    PROVE  StatesOK' /\ At(b + 1, 0)'
<1>1. Vs \in Nat /\ b \in Nat /\ Start(b) \in Nat /\ Start(b + 1) = Start(b) + (Vs + 5)
  <2>1. Vs \in Nat /\ b \in Nat
    BY StartIs DEF ReadingOf
  <2> QED
    BY <2>1, StartIs
<1>2. /\ Len(log) = Start(b) + (Vs + 4)
      /\ clk_state = IF Vs + 4 \in {Vs + 2, Vs + 3} THEN 1 ELSE IF b = 0 /\ Vs + 4 < Vs + 2 THEN X ELSE 0
      /\ Len(states) = IF Vs + 4 >= Vs + 2 THEN b ELSE IF b = 0 THEN 0 ELSE b - 1
  BY DEF ReadingOf, At
<1>3. Vs + 4 \notin {Vs + 2, Vs + 3} /\ ~(Vs + 4 < Vs + 2) /\ Vs + 4 >= Vs + 2
  BY <1>1
<1>4. clk_state' = 0 /\ Len(states') = b
  BY <1>2, <1>3
<1>5. Len(log') = Start(b + 1) + 0
  BY <1>1, <1>2 DEF LogGrows
<1>6. StatesOK'
  <2>1. current_state' = [w \in 1..(Vs + 2) |-> current_state'[w]]
    BY DEF StatesOK
  <2> QED
    BY <2>1, StatesKept DEF LogGrows
<1>7. Behind(b + 1, 0)'
  <2>1. /\ \A v \in 1..Vs : current_state'[v] = BitsOf(v, computed[b + 1])
        /\ current_state'[Vs + 2] = CountOf(b)
    <3>1. Vs + 4 >= Vs + 1
      BY <1>1
    <3> QED
      BY <3>1, SameValues
  <2>2. (b + 1) - 1 = b /\ ~(0 >= Vs + 1) /\ \A v \in 1..Vs : ~(v <= 0)
    BY <1>1
  <2>3. StateOf(current_state, b + 1)' /\ StateOf(previous_state, b + 1)'
    BY <2>1, <2>2 DEF StateOf
  <2> QED
    BY <2>2, <2>3 DEF Behind
<1>8. 0 \notin {Vs + 2, Vs + 3} /\ b + 1 # 0 /\ ~(0 >= Vs + 2) /\ (b + 1) - 1 = b
  BY <1>1
<1> QED
  BY <1>4, <1>5, <1>6, <1>7, <1>8 DEF At, Start, Block

(* One more command.                                                       *)
LEMMA ReadKept ==
    ASSUME OutputAssumption, LoopOK, BlocksOK, StatesOK, ReaderOK, Read
    PROVE  StatesOK' /\ ReaderOK'
<1>1. pc = "done" /\ Len(log) < Len(file) /\ UNCHANGED <<pc, computed, file>>
  BY DEF Read
<1> DEFINE command == file[Len(log) + 1]
<1>2. /\ command.op = "scalar" => Reader!ChangeScalar(command.code, command.bits[1])
      /\ command.op = "vector" => Reader!ChangeVector(command.code, command.bits)
      /\ command.op = "time" => Reader!Timestamp
  BY DEF Read
<1> HIDE DEF command
<1>3. Vs \in Nat /\ Start(0) = 1 /\ Len(computed) \in Nat
  <2>1. Len(computed) \in Nat
    BY DEF LoopOK
  <2> QED
    BY <2>1, StartIs
<1>4. /\ status = "reading" => Len(log) = 0 \/ \E p \in Positions : At(p[1], p[2])
      /\ Len(log) = 0 => clk_state = X /\ Len(states) = 0
  BY DEF ReaderOK
<1>5. ASSUME LogGrows, NEW p \in Positions, At(p[1], p[2])'
      PROVE  ReaderOK'
  <2>1. p \in Positions'
    BY <1>1, <1>5 DEF Positions, Vs
  <2>2. status' = "reading" /\ pc' = "done" /\ Len(log') # 0
    BY <1>1, <1>5 DEF LogGrows
  <2> QED
    BY <1>5, <2>1, <2>2 DEF ReaderOK
<1>6. CASE Len(log) = 0
  <2>1. command = Time(0)
    BY <1>6 DEF command, BlocksOK
  <2>2. Reader!Timestamp
    BY <1>2, <2>1 DEF Time
  <2>3. LogGrows /\ UNCHANGED <<current_state, clk_state, states>>
    BY <2>2, TimeRead
  <2>4. StatesOK'
    <3>1. current_state' = [w \in 1..(Vs + 2) |-> current_state'[w]]
      BY <2>3 DEF StatesOK
    <3> QED
      BY <1>1, <2>3, <3>1, StatesKept DEF LogGrows
  <2>5. <<0, 0>> \in Positions
    BY <1>3 DEF Positions
  <2>6. At(0, 0)'
    <3>1. Len(log') = Start(0) + 0
      BY <1>3, <1>6, <2>3 DEF LogGrows
    <3>2. clk_state' = X /\ Len(states') = 0
      BY <1>4, <1>6, <2>3
    <3>3. 0 \notin {Vs + 2, Vs + 3} /\ 0 < Vs + 2 /\ ~(0 >= Vs + 2) /\ ~(0 >= 1) /\ ~(0 >= Vs + 1)
      BY <1>3
    <3>4. Behind(0, 0)'
      <4>1. \A v \in 1..Vs : ~(v <= 0)
        BY <1>3
      <4> QED
        BY <3>3, <4>1 DEF Behind
    <3> QED
      BY <3>1, <3>2, <3>3, <3>4 DEF At, Start, Block
  <2> QED
    BY <1>5, <2>3, <2>4, <2>5, <2>6
<1>7. CASE Len(log) # 0
  <2>1. status = "reading"
    <3>1. Len(log) # Len(file)
      <4>1. Len(log) \in Nat
        BY DEF StatesOK, Listing
      <4> QED
        BY <1>1, <4>1
    <3> QED
      BY <3>1 DEF ReaderOK
  <2>2. PICK p \in Positions : At(p[1], p[2])
    BY <1>4, <1>7, <2>1
  <2> DEFINE b == p[1]
             k == p[2]
  <2>3. ReadingOf(b, k) /\ command = Wanted(b + 1, k + 1)
    <3>1. Len(log) = Start(b) + k
      BY <2>2 DEF At
    <3> QED
      BY <1>1, <2>2, <3>1, CommandRead DEF ReadingOf, command
  <2> HIDE DEF b, k
  <2>4. b \in Nat /\ b < Len(computed) /\ k \in 0..(Vs + 4)
    BY <2>3 DEF ReadingOf
  <2>5. /\ \A v \in 1..Vs : Wanted(b + 1, v) = Vector(v - 1, Reverse(BitsOf(v, computed[b + 1])))
        /\ Wanted(b + 1, Vs + 1) = Vector(Vs + 1, int2bits(b))
        /\ Wanted(b + 1, Vs + 2) = Scalar(Vs, 1) /\ Wanted(b + 1, Vs + 3).op = "time"
        /\ Wanted(b + 1, Vs + 4) = Scalar(Vs, 0) /\ Wanted(b + 1, Vs + 5).op = "time"
    BY <2>4, CommandIs
  <2>6. ASSUME LogGrows, StatesOK', At(b, k + 1)', k # Vs + 4
        PROVE  StatesOK' /\ ReaderOK'
    <3>1. <<b, k + 1>> \in Positions
      BY <1>3, <2>4, <2>6 DEF Positions
    <3> QED
      BY <1>5, <2>6, <3>1
  <2>7. CASE k < Vs
    <3> DEFINE v == k + 1
               bits == BitsOf(v, computed[b + 1])
    <3>1. v \in 1..Vs /\ v \in 1..(Vs + 2) /\ v - 1 = k
      BY <1>3, <2>4, <2>7
    <3>2. command = Vector(v - 1, Reverse(bits))
      BY <2>3, <2>5, <3>1
    <3>3. Reader!ChangeVector(v - 1, Reverse(bits))
      BY <1>2, <3>2 DEF Vector
    <3>4. Reader!pad_vec_and_reverse(Reverse(bits), Sizes[v - 1]) = bits
      BY <3>1, BitsAre, ReversedBack
    <3>5. /\ LogGrows /\ UNCHANGED <<previous_state, clk_state, states>>
          /\ current_state' = [w \in 1..(Vs + 2) |-> current_state'[w]]
          /\ current_state'[v] = bits
          /\ \A w \in 1..(Vs + 2) : w # v => current_state'[w] = current_state[w]
      <4> HIDE DEF bits, v
      <4> QED
        BY <3>1, <3>3, <3>4, VectorRead
    <3>6. k # Vs /\ k <= Vs /\ k # Vs + 4
      BY <1>3, <2>4, <2>7
    <3>7. StatesOK' /\ At(b, k + 1)'
      BY <1>1, <2>3, <3>5, <3>6, VectorStep
    <3> QED
      BY <2>6, <3>5, <3>6, <3>7
  <2>8. CASE k = Vs
    <3> DEFINE v == Vs + 2
    <3>1. v \in 1..(Vs + 2) /\ v - 1 = Vs + 1
      BY <1>3
    <3>2. command = Vector(v - 1, int2bits(b))
      BY <2>3, <2>5, <2>8, <3>1
    <3>3. Reader!ChangeVector(v - 1, int2bits(b))
      BY <1>2, <3>2 DEF Vector
    <3>4. Reader!pad_vec_and_reverse(int2bits(b), Sizes[v - 1]) = CountOf(b)
      BY <2>4, <3>1, SizesAre, CountBack
    <3>5. /\ LogGrows /\ UNCHANGED <<previous_state, clk_state, states>>
          /\ current_state' = [w \in 1..(Vs + 2) |-> current_state'[w]]
          /\ current_state'[v] = CountOf(b)
          /\ \A w \in 1..(Vs + 2) : w # v => current_state'[w] = current_state[w]
      <4> HIDE DEF v
      <4> QED
        BY <3>1, <3>3, <3>4, VectorRead
    <3>6. k <= Vs /\ k # Vs + 4
      BY <1>3, <2>4, <2>8
    <3>7. StatesOK' /\ At(b, k + 1)'
      BY <1>1, <2>3, <2>8, <3>5, <3>6, VectorStep
    <3> QED
      BY <2>6, <3>5, <3>6, <3>7
  <2>9. CASE k = Vs + 1
    <3>1. k + 1 = Vs + 2 /\ k # Vs + 4
      BY <1>3, <2>9
    <3>2. command = Scalar(Vs, 1)
      BY <2>3, <2>5, <3>1
    <3>3. Reader!ChangeScalar(Vs, 1)
      BY <1>2, <3>2 DEF Scalar
    <3>4. /\ LogGrows /\ UNCHANGED previous_state /\ clk_state' = 1
          /\ states' = IF clk_state = 0 THEN Append(states, previous_state) ELSE states
          /\ current_state' = [w \in 1..(Vs + 2) |-> current_state'[w]]
          /\ \A w \in 1..(Vs + 2) : w # Vs + 1 => current_state'[w] = current_state[w]
      BY <3>3, ClockRead
    <3>5. StatesOK' /\ At(b, Vs + 2)'
      BY <1>1, <2>3, <2>9, <3>4, EdgeStep
    <3>6. At(b, k + 1)'
      BY <3>1, <3>5
    <3> QED
      BY <2>6, <3>1, <3>4, <3>5, <3>6
  <2>10. CASE k = Vs + 2
    <3>1. k + 1 = Vs + 3 /\ k # Vs + 4
      BY <1>3, <2>10
    <3>2. Reader!Timestamp
      BY <1>2, <2>3, <2>5, <3>1
    <3>3. LogGrows /\ UNCHANGED <<current_state, clk_state, states>>
      BY <3>2, TimeRead
    <3>4. /\ current_state' = [w \in 1..(Vs + 2) |-> current_state'[w]]
          /\ clk_state' = 1
      <4>1. clk_state = IF k \in {Vs + 2, Vs + 3} THEN 1 ELSE IF b = 0 /\ k < Vs + 2 THEN X ELSE 0
        BY <2>3 DEF ReadingOf, At
      <4>2. current_state = [w \in 1..(Vs + 2) |-> current_state[w]]
        BY DEF StatesOK
      <4> QED
        BY <2>10, <3>3, <4>1, <4>2
    <3>5. StatesOK' /\ At(b, k + 1)'
      BY <1>1, <2>3, <2>10, <3>3, <3>4, MiddleStep
    <3> QED
      BY <2>6, <3>1, <3>3, <3>5
  <2>11. CASE k = Vs + 3
    <3>1. k + 1 = Vs + 4 /\ k # Vs + 4 /\ k # Vs + 2
      BY <1>3, <2>11
    <3>2. command = Scalar(Vs, 0)
      BY <2>3, <2>5, <3>1
    <3>3. Reader!ChangeScalar(Vs, 0)
      BY <1>2, <3>2 DEF Scalar
    <3>4. /\ LogGrows /\ UNCHANGED states /\ clk_state' = 0
          /\ current_state' = [w \in 1..(Vs + 2) |-> current_state'[w]]
          /\ \A w \in 1..(Vs + 2) : w # Vs + 1 => current_state'[w] = current_state[w]
      <4>1. states' = IF 0 = 1 /\ clk_state = 0 THEN Append(states, previous_state) ELSE states
        BY <3>3, ClockRead
      <4>2. states' = states
        BY <4>1
      <4>3. /\ LogGrows /\ clk_state' = 0
            /\ current_state' = [w \in 1..(Vs + 2) |-> current_state'[w]]
            /\ \A w \in 1..(Vs + 2) : w # Vs + 1 => current_state'[w] = current_state[w]
        BY <3>3, ClockRead
      <4> QED
        BY <4>2, <4>3
    <3>5. StatesOK' /\ At(b, k + 1)'
      BY <1>1, <2>3, <2>11, <3>1, <3>4, MiddleStep
    <3> QED
      BY <2>6, <3>1, <3>4, <3>5
  <2>12. CASE k = Vs + 4
    <3>1. k + 1 = Vs + 5
      BY <1>3, <2>12
    <3>2. Reader!Timestamp
      BY <1>2, <2>3, <2>5, <3>1
    <3>3. LogGrows /\ previous_state' = current_state /\ UNCHANGED <<current_state, clk_state, states>>
      BY <3>2, TimeRead
    <3>4. StatesOK' /\ At(b + 1, 0)'
      BY <1>1, <2>3, <2>12, <3>3, EndStep
    <3>5. <<b + 1, 0>> \in Positions
      BY <1>3, <2>4 DEF Positions
    <3> QED
      BY <1>5, <3>3, <3>4, <3>5
  <2>13. k < Vs \/ k = Vs \/ k = Vs + 1 \/ k = Vs + 2 \/ k = Vs + 3 \/ k = Vs + 4
    BY <1>3, <2>4
  <2> QED
    BY <2>7, <2>8, <2>9, <2>10, <2>11, <2>12, <2>13
<1> QED
  BY <1>6, <1>7

(* The end of the file.                                                    *)
LEMMA EndKept ==
    ASSUME OutputAssumption, LoopOK, BlocksOK, StatesOK, ReaderOK, EndOfFile
    PROVE  StatesOK' /\ ReaderOK'
<1>1. /\ pc = "done" /\ Len(log) = Len(file) /\ UNCHANGED <<pc, computed, file>>
      /\ status = "reading" /\ status' = "parsed" /\ states' = Append(states, current_state)
      /\ UNCHANGED <<current_state, previous_state, clk_state, log>>
  BY DEF EndOfFile, Reader!EndOfFile
<1> DEFINE n == Len(computed)
<1>2. Vs \in Nat /\ n \in Nat /\ Start(n) \in Nat /\ Start(n) >= 1 /\ Len(file) = Start(n)
  <2>1. n \in Nat
    BY DEF LoopOK
  <2>2. Len(file) = Start(n)
    BY <1>1 DEF BlocksOK, Cycles
  <2>3. Vs \in Nat /\ Start(n) \in Nat /\ Start(n) >= 1
    BY <2>1, StartIs
  <2> QED
    BY <2>1, <2>2, <2>3
<1>3. PICK p \in Positions : At(p[1], p[2])
  BY <1>1, <1>2 DEF ReaderOK
<1>4. p = <<n, 0>>
  <2>1. Len(log) = Start(p[1]) + p[2]
    BY <1>3 DEF At
  <2> QED
    BY <1>1, <2>1, CommandRead
<1>5. At(n, 0)
  BY <1>3, <1>4
<1>6. /\ Len(states) = IF n = 0 THEN 0 ELSE n - 1
      /\ n >= 1 => StateOf(current_state, n)
  <2>1. /\ Len(states) = IF 0 >= Vs + 2 THEN n ELSE IF n = 0 THEN 0 ELSE n - 1
        /\ n >= 1 /\ 0 = 0 => StateOf(current_state, n)
    BY <1>5 DEF At, Behind
  <2>2. ~(0 >= Vs + 2)
    BY <1>2
  <2> QED
    BY <2>1, <2>2
<1>7. /\ Listing(states') /\ Len(states') = Len(states) + 1 /\ Len(states) \in Nat
      /\ \A i \in 1..Len(states) : states'[i] = states[i]
      /\ states'[Len(states) + 1] = current_state
  <2>1. Listing(states)
    BY DEF StatesOK
  <2> QED
    BY <1>1, <2>1, ListingAppend
<1>8. ASSUME NEW i \in 1..Len(states'), i <= n
      PROVE  StateOf(states'[i], i)
  <2>1. CASE i \in 1..Len(states)
    BY <1>7, <1>8, <2>1 DEF StatesOK
  <2>2. CASE i \notin 1..Len(states)
    <3>1. i = Len(states) + 1
      <4>1. i \in 1..(Len(states) + 1) /\ Len(states) \in Nat
        BY <1>7
      <4> QED
        BY <2>2, <4>1
    <3>2. i = n /\ n >= 1
      BY <1>2, <1>6, <1>8, <3>1
    <3> QED
      BY <1>6, <1>7, <3>1, <3>2
  <2> QED
    BY <2>1, <2>2
<1>9. StatesOK'
  <2>1. /\ Listing(log') /\ current_state' = [v \in 1..(Vs + 2) |-> current_state'[v]]
    BY <1>1 DEF StatesOK
  <2> QED
    BY <1>1, <1>7, <1>8, <2>1 DEF StatesOK, StateOf, Listing
<1>10. computed # <<>> => Len(states') = Len(computed)
  <2>1. computed # <<>> => n # 0
    BY DEF LoopOK
  <2> QED
    BY <1>2, <1>6, <1>7, <2>1
<1>11. Len(log') # 0
  BY <1>1, <1>2
<1> QED
  BY <1>1, <1>9, <1>10, <1>11 DEF ReaderOK

-----------------------------------------------------------------------------
(* The invariant holds.                                                    *)
LEMMA OutputStarts ==
    ASSUME OutputAssumption, Init
    PROVE  OutputInv
<1>1. /\ pc = "next" /\ computed = <<>> /\ file = <<Time(0)>>
      /\ current_state = [j \in DOMAIN Codes |-> Reader!Uninit]
      /\ clk_state = Reader!X /\ states = <<>> /\ status = "reading" /\ log = <<>>
  BY DEF Init, Reader!Init
<1>2. Vs \in Nat /\ Start(0) = 1 /\ DOMAIN Codes = 1..(Vs + 2) /\ NCycles \in Nat
  BY StartIs, PlacesAre DEF OutputAssumption
<1>3. Len(computed) = 0 /\ Len(states) = 0 /\ Len(log) = 0 /\ Cycles = 0
  BY <1>1 DEF Cycles
<1>4. LoopOK
  BY <1>1, <1>2, <1>3 DEF LoopOK
<1>5. Len(file) = 1 /\ file[1] = Time(0) /\ Listing(file)
  <2>1. Len(file) = 1 /\ file[1] = Time(0) /\ file = [i \in 1..1 |-> file[i]]
    BY <1>1
  <2> QED
    BY <2>1 DEF Listing
<1>6. BlocksOK
  BY <1>2, <1>3, <1>5 DEF BlocksOK
<1>7. TimesOK
  <2>1. \A i \in 1..Len(file) : i = 1
    BY <1>5
  <2>2. file[1].code = 0
    BY <1>5 DEF Time
  <2> QED
    BY <1>3, <2>1, <2>2 DEF TimesOK
<1>8. StatesOK
  <2>1. Listing(states) /\ Listing(log)
    BY <1>1 DEF Listing
  <2>2. current_state = [v \in 1..(Vs + 2) |-> current_state[v]]
    BY <1>1, <1>2
  <2> QED
    BY <1>3, <2>1, <2>2 DEF StatesOK
<1>9. ReaderOK
  BY <1>1, <1>3 DEF ReaderOK, X, Reader!X
<1> QED
  BY <1>4, <1>6, <1>7, <1>8, <1>9 DEF OutputInv

(* Every step keeps the invariant.                                         *)
LEMMA OutputKept ==
    ASSUME OutputAssumption, OutputInv, [Next]_vars
    PROVE  OutputInv'
<1>1. LoopOK /\ BlocksOK /\ TimesOK /\ StatesOK /\ ReaderOK
  BY DEF OutputInv
<1>2. LoopOK' /\ BlocksOK' /\ TimesOK'
  BY <1>1, LoopKept, FileKept
<1>3. StatesOK' /\ ReaderOK'
  <2>1. CASE pc # "done" /\ UNCHANGED readerVars
    <3>1. /\ status' = "reading" /\ Len(log') = 0 /\ Len(states') = 0 /\ clk_state' = X
          /\ UNCHANGED <<current_state, states, log>>
      BY <1>1, <2>1 DEF ReaderOK, readerVars
    <3>2. StatesOK'
      BY <1>1, <3>1 DEF StatesOK, Listing
    <3>3. ReaderOK'
      BY <3>1 DEF ReaderOK
    <3> QED
      BY <3>2, <3>3
  <2>2. CASE NextCycle
    BY <2>1, <2>2 DEF NextCycle
  <2>3. CASE WriteState
    BY <2>1, <2>3 DEF WriteState
  <2>4. CASE Check
    BY <2>1, <2>4 DEF Check
  <2>5. CASE Read
    BY <1>1, <2>5, ReadKept
  <2>6. CASE EndOfFile
    BY <1>1, <2>6, EndKept
  <2>7. CASE UNCHANGED vars
    <3>1. UNCHANGED <<pc, computed, file, current_state, previous_state, clk_state, states, status, log>>
      BY <2>7 DEF vars
    <3>2. StatesOK'
      BY <1>1, <3>1 DEF StatesOK, StateOf, Listing
    <3>3. ReaderOK'
      BY <1>1, <3>1 DEF ReaderOK, Positions, At, Behind, StateOf, Start, Block
    <3> QED
      BY <3>2, <3>3
  <2> QED
    BY <2>2, <2>3, <2>4, <2>5, <2>6, <2>7 DEF Next
<1> QED
  BY <1>2, <1>3 DEF OutputInv

(* The number of the bits of a cycle counter is the cycle.                 *)
LEMMA CountNumber ==
    ASSUME OutputAssumption, NEW x \in Nat, x < NCycles
    PROVE  Number(CountOf(x)) = x
<1>1. CountBits \in Nat /\ x < TwoTo[CountBits]
  <2>1. CountBits \in Nat /\ NCycles \in Nat /\ NCycles <= TwoTo[CountBits]
    BY DEF OutputAssumption
  <2>2. TwoTo[CountBits] \in Nat
    BY <2>1, TwoToIs
  <2> QED
    BY <2>1, <2>2
<1> QED
  BY <1>1, NumberIs DEF CountOf

(* The types, id codes that name one variable each, and timestamps that    *)
(* grow (VcdWriter::new and new_state).                                    *)
LEMMA TypesFollow ==
    ASSUME OutputAssumption, OutputInv
    PROVE  TypeOK
<1>1. LoopOK /\ BlocksOK /\ TimesOK /\ ReaderOK
  BY DEF OutputInv
<1>2. IsInjective([v \in DOMAIN representations |-> representations[v].code])
  <2>1. /\ Vs \in Nat /\ DOMAIN representations = 1..Vs
        /\ \A v \in 1..Vs : representations[v].code = v - 1
    BY CodesAre
  <2>2. \A v, w \in 1..Vs : v - 1 = w - 1 => v = w
    BY <2>1
  <2> QED
    BY <2>1, <2>2 DEF IsInjective
<1>3. DOMAIN file = 1..Len(file)
  <2>1. file = [i \in 1..Len(file) |-> file[i]]
    BY <1>1 DEF BlocksOK, Listing
  <2> QED
    BY <2>1
<1>4. \A i, j \in DOMAIN file :
         file[i].op = "time" /\ file[j].op = "time" /\ i < j => file[i].code < file[j].code
  BY <1>1, <1>3 DEF TimesOK
<1> QED
  BY <1>1, <1>2, <1>4 DEF TypeOK, LoopOK, ReaderOK

(* What is read back is what was computed.                                 *)
LEMMA RoundTripFollows ==
    ASSUME OutputAssumption, OutputInv
    PROVE  RoundTrip
<1> SUFFICES ASSUME status = "parsed", computed # <<>>
             PROVE  /\ Len(states) = Len(computed)
                    /\ \A i \in DOMAIN states :
                          /\ \A v \in Range(representations) : \A b \in DOMAIN v.wires :
                                ReadBack(v.code, i)[b]
                                   = state2value(v.target, computed[i][<<v.path, v.wires[b]>>])
                          /\ Number(ReadBack(cycle_count, i)) = i - 1
  BY DEF RoundTrip
<1>1. LoopOK /\ StatesOK /\ ReaderOK
  BY DEF OutputInv
<1>2. Len(states) = Len(computed) /\ Len(computed) \in Nat /\ Len(computed) <= NCycles /\ NCycles \in Nat
  BY <1>1 DEF ReaderOK, LoopOK, OutputAssumption
<1>3. DOMAIN states = 1..Len(states)
  <2>1. states = [i \in 1..Len(states) |-> states[i]]
    BY <1>1 DEF StatesOK, Listing
  <2> QED
    BY <2>1
<1>4. ASSUME NEW i \in DOMAIN states
      PROVE  StateOf(states[i], i) /\ i \in Nat /\ i >= 1 /\ i - 1 \in Nat /\ i - 1 < NCycles
  <2>1. i \in 1..Len(states) /\ i <= Len(computed)
    BY <1>2, <1>3
  <2> QED
    BY <1>1, <1>2, <2>1 DEF StatesOK
<1>5. /\ Vs \in Nat /\ DOMAIN representations = 1..Vs /\ cycle_count = Vs + 1
      /\ \A v \in 1..Vs : representations[v].code = v - 1
  BY CodesAre
<1>6. ASSUME NEW i \in DOMAIN states, NEW v \in Range(representations), NEW b \in DOMAIN v.wires
      PROVE  ReadBack(v.code, i)[b] = state2value(v.target, computed[i][<<v.path, v.wires[b]>>])
  <2>1. PICK n \in 1..Vs : v = representations[n]
    BY <1>5 DEF Range
  <2>2. ReadBack(v.code, i) = states[i][n]
    <3>1. v.code + 1 = n
      BY <1>5, <2>1
    <3> QED
      BY <3>1 DEF ReadBack
  <2>3. states[i][n] = BitsOf(n, computed[i])
    BY <1>4 DEF StateOf
  <2>4. BitsOf(n, computed[i])[b] = state2value(v.target, computed[i][<<v.path, v.wires[b]>>])
    BY <2>1 DEF BitsOf
  <2> QED
    BY <2>2, <2>3, <2>4
<1>7. ASSUME NEW i \in DOMAIN states
      PROVE  Number(ReadBack(cycle_count, i)) = i - 1
  <2>1. ReadBack(cycle_count, i) = CountOf(i - 1)
    <3>1. cycle_count + 1 = Vs + 2
      BY <1>5
    <3> QED
      BY <1>4, <3>1 DEF ReadBack, StateOf
  <2> QED
    BY <1>4, <2>1, CountNumber
<1> QED
  BY <1>2, <1>6, <1>7

(* The invariant, from the first state on.                                 *)
LEMMA OutputHolds == Spec => []OutputInv
<1>1. Init => OutputInv
  BY OutputAssumption, OutputStarts
<1>2. OutputInv /\ [Next]_vars => OutputInv'
  BY OutputAssumption, OutputKept
<1> QED
  BY <1>1, <1>2, PTL DEF Spec

(* The id code of a variable is of no other one, whatever the hierarchy of *)
(* modules and the number of shares, and the timestamps of the output      *)
(* trace grow (VcdWriter::new, new_state).                                 *)
THEOREM OutputTypes == Spec => []TypeOK
<1>1. OutputInv => TypeOK
  BY OutputAssumption, TypesFollow
<1> QED
  BY <1>1, OutputHolds, PTL

(* The output trace, read by the code that samples input traces, gives     *)
(* back for each cycle what the simulator computed for every net of the    *)
(* hierarchy, and the cycle counter that error messages name: no code is   *)
(* mistaken for another, no bit reversed, no cycle lost or shifted, the    *)
(* rejected cycle included.                                                *)
THEOREM WhatIsReadWasComputed == Spec => []RoundTrip
<1>1. OutputInv => RoundTrip
  BY OutputAssumption, RoundTripFollows
<1> QED
  BY <1>1, OutputHolds, PTL
=============================================================================
