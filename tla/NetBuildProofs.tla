--------------------------- MODULE NetBuildProofs ---------------------------
(***************************************************************************)
(* What the construction of a netlist gives, for every design. The bits of *)
(* the ports of gadgets are given to shares one to one, the random ports   *)
(* are numbered without gap, a module has one clock wire and is built      *)
(* after those of its cells, and what a module refers to exists: every     *)
(* module is what BuildModule makes of it from what is built in the end,   *)
(* as building one more leaves the others alone. Then what the             *)
(* construction says of a module, from the summaries of the modules of its *)
(* cells, is true of its flat circuit. The hierarchy of the instances of a *)
(* module is a finite tree, and its registers have one clock when the      *)
(* clocks come from ports. A path of the flat circuit is a path of the     *)
(* module's own graph, where a cell leads from an input to an output when  *)
(* its summary says so: up the hierarchy by descending into the module of  *)
(* the cell, and back. A summary is the set of inputs that reach an        *)
(* output, hence it is exact when those of the cells are, and every        *)
(* summary is, along the order in which modules are built. A loop of the   *)
(* flat circuit is a loop in the graph of one of its modules, hence loops  *)
(* are found exactly.                                                      *)
(***************************************************************************)
EXTENDS NetBuild, SharedLemmas, FiniteSetTheorems, TLAPS

-----------------------------------------------------------------------------
(* Sorted numbers.                                                         *)

(* Numbers of 0..(n - 1) in increasing order are all of them.              *)
LEMMA AllInOrder ==
    ASSUME NEW n \in Nat, NEW f, \A k \in 1..n : f[k] \in 0..(n - 1),
           \A i, j \in 1..n : i < j => f[i] < f[j]
    PROVE  \A k \in 1..n : f[k] = k - 1
<1> DEFINE Low == {k \in 1..n : f[k] < k - 1}
           High == {j \in 1..n : f[n + 1 - j] > n - j}
<1>1. ASSUME Low # {}
      PROVE  FALSE
  <2>1. PICK k \in Low : \A y \in Low : k <= y
    <3>1. Low \subseteq Nat
      OBVIOUS
    <3> HIDE DEF Low
    <3> QED
      BY <1>1, <3>1, LeastIndex
  <2>2. k \in 1..n /\ f[k] < k - 1 /\ f[k] \in 0..(n - 1)
    OBVIOUS
  <2>3. k - 1 \in 1..n /\ k - 1 < k /\ k - 1 \notin Low
    <3>1. k - 1 \in 1..n /\ k - 1 < k
      BY <2>2
    <3> HIDE DEF Low
    <3> QED
      BY <2>1, <2>2, <3>1
  <2>4. f[k - 1] < f[k] /\ f[k - 1] \in 0..(n - 1)
    BY <2>2, <2>3
  <2>5. ~(f[k - 1] < (k - 1) - 1)
    BY <2>3
  <2> QED
    BY <2>2, <2>4, <2>5
<1>2. ASSUME High # {}
      PROVE  FALSE
  <2>1. PICK j \in High : \A y \in High : j <= y
    <3>1. High \subseteq Nat
      OBVIOUS
    <3> HIDE DEF High
    <3> QED
      BY <1>2, <3>1, LeastIndex
  <2>2. j \in 1..n /\ f[n + 1 - j] > n - j /\ n + 1 - j \in 1..n
    OBVIOUS
  <2>3. f[n + 1 - j] \in 0..(n - 1)
    BY <2>2
  <2>4. j - 1 \in 1..n /\ j - 1 < j
    BY <2>2, <2>3
  <2>5. j - 1 \notin High
    <3> HIDE DEF High
    <3> QED
      BY <2>1, <2>2, <2>4
  <2>6. n + 1 - (j - 1) \in 1..n /\ n + 1 - j < n + 1 - (j - 1)
    BY <2>2, <2>4
  <2>7. f[n + 1 - j] < f[n + 1 - (j - 1)] /\ f[n + 1 - (j - 1)] \in 0..(n - 1)
    BY <2>2, <2>6
  <2>8. ~(f[n + 1 - (j - 1)] > n - (j - 1))
    BY <2>4, <2>5
  <2> QED
    BY <2>2, <2>3, <2>7, <2>8
<1>3. ASSUME NEW k \in 1..n
      PROVE  f[k] = k - 1
  <2>1. f[k] \in 0..(n - 1) /\ ~(f[k] < k - 1)
    BY <1>1
  <2>2. ~(f[k] > k - 1)
    <3>1. n + 1 - k \in 1..n /\ n + 1 - (n + 1 - k) = k /\ n - (n + 1 - k) = k - 1
      OBVIOUS
    <3>2. n + 1 - k \notin High
      BY <1>2
    <3> QED
      BY <3>1, <3>2
  <2> QED
    BY <2>1, <2>2
<1> QED
  BY <1>3

(* Increasing lists the numbers of a finite set, each after those before.  *)
LEMMA IncreasingIs ==
    ASSUME NEW S \in SUBSET Int, IsFiniteSet(S)
    PROVE  /\ Cardinality(S) \in Nat
           /\ Increasing(S) \in [1..Cardinality(S) -> S]
           /\ \A k \in 1..Cardinality(S) : Cardinality({y \in S : y < Increasing(S)[k]}) = k - 1
           /\ \A i, j \in 1..Cardinality(S) : i < j => Increasing(S)[i] < Increasing(S)[j]
           /\ \A x \in S : \E k \in 1..Cardinality(S) : Increasing(S)[k] = x
<1> DEFINE n == Cardinality(S)
           Before(x) == {y \in S : y < x}
           rank == [x \in S |-> Cardinality(Before(x))]
<1>1. n \in Nat /\ IsFiniteSet(0..(n - 1)) /\ Cardinality(0..(n - 1)) = n
  <2>1. n \in Nat
    BY FS_CardinalityType
  <2>2. n - 1 \in Int /\ 0 \in Int /\ (IF 0 > n - 1 THEN 0 ELSE (n - 1) - 0 + 1) = n
    BY <2>1
  <2> HIDE DEF n
  <2> QED
    BY <2>1, <2>2, FS_Interval
<1>2. ASSUME NEW x \in S
      PROVE  rank[x] \in 0..(n - 1) /\ IsFiniteSet(Before(x))
  <2>1. IsFiniteSet(Before(x)) /\ Cardinality(Before(x)) <= n /\ (n = Cardinality(Before(x)) => S = Before(x))
    BY FS_Subset
  <2>2. x \notin Before(x)
    OBVIOUS
  <2>3. Cardinality(Before(x)) \in Nat
    BY <2>1, FS_CardinalityType
  <2> QED
    BY <1>1, <2>1, <2>2, <2>3
<1>3. ASSUME NEW x \in S, NEW y \in S, x < y
      PROVE  rank[x] < rank[y]
  <2>1. Before(x) \in SUBSET Before(y) /\ Before(x) # Before(y)
    <3>1. x \in Int /\ y \in Int /\ x \in Before(y) /\ x \notin Before(x)
      BY <1>3
    <3>2. ASSUME NEW z \in Before(x)
          PROVE  z \in Before(y)
      <4>1. z \in S /\ z \in Int /\ z < x
        OBVIOUS
      <4> QED
        BY <1>3, <3>1, <4>1
    <3> HIDE DEF Before
    <3> QED
      BY <3>1, <3>2
  <2>2. IsFiniteSet(Before(y)) /\ IsFiniteSet(Before(x)) /\ rank[x] \in Nat /\ rank[y] \in Nat
    BY <1>2
  <2>3. Cardinality(Before(x)) <= Cardinality(Before(y)) /\ Cardinality(Before(y)) # Cardinality(Before(x))
    BY <2>1, <2>2, FS_Subset
  <2> QED
    BY <2>2, <2>3
<1>4. rank \in Injection(S, 0..(n - 1))
  <2>1. rank \in [S -> 0..(n - 1)]
    <3>1. \A x \in S : Cardinality(Before(x)) \in 0..(n - 1)
      BY <1>2
    <3> HIDE DEF Before, n
    <3> QED
      BY <3>1
  <2>2. \A x, y \in S : rank[x] = rank[y] => x = y
    <3> SUFFICES ASSUME NEW x \in S, NEW y \in S, x # y
                 PROVE  rank[x] # rank[y]
      OBVIOUS
    <3>1. rank[x] \in Int /\ rank[y] \in Int /\ (x < y \/ y < x)
      BY <1>2
    <3>2. (x < y => rank[x] < rank[y]) /\ (y < x => rank[y] < rank[x])
      BY <1>3
    <3> HIDE DEF rank
    <3> QED
      BY <3>1, <3>2
  <2> HIDE DEF rank, n
  <2> QED
    BY <2>1, <2>2 DEF Injection, IsInjective
<1>5. rank \in Surjection(S, 0..(n - 1))
  <2> HIDE DEF rank
  <2> QED
    BY <1>1, <1>4, FS_Injection
<1>6. ASSUME NEW k \in 1..n
      PROVE  \E x \in S : Cardinality(Before(x)) = k - 1
  <2>1. k - 1 \in 0..(n - 1)
    BY <1>1
  <2>2. \E x \in S : rank[x] = k - 1
    BY <1>5, <2>1 DEF Surjection
  <2> QED
    BY <2>2
<1>7. ASSUME NEW k \in 1..n
      PROVE  Increasing(S)[k] \in S /\ Cardinality(Before(Increasing(S)[k])) = k - 1
  <2>1. Increasing(S)[k] = CHOOSE x \in S : Cardinality(Before(x)) = k - 1
    BY DEF Increasing
  <2> HIDE DEF Before
  <2> QED
    BY <1>6, <2>1
<1>8. Increasing(S) \in [1..n -> S]
  <2>1. Increasing(S) = [k \in 1..n |-> CHOOSE x \in S : Cardinality(Before(x)) = k - 1]
    BY DEF Increasing
  <2>2. \A k \in 1..n : (CHOOSE x \in S : Cardinality(Before(x)) = k - 1) \in S
    <3> HIDE DEF Before
    <3> QED
      BY <1>6
  <2> HIDE DEF n, Before
  <2> QED
    BY <2>1, <2>2
<1>9. ASSUME NEW i \in 1..n, NEW j \in 1..n, i < j
      PROVE  Increasing(S)[i] < Increasing(S)[j]
  <2> DEFINE x == Increasing(S)[i]  y == Increasing(S)[j]
  <2>1. x \in S /\ y \in S /\ rank[x] = i - 1 /\ rank[y] = j - 1
    BY <1>7
  <2>2. y < x => rank[y] < rank[x]
    BY <1>3, <2>1
  <2> HIDE DEF x, y, rank
  <2>3. x < y
    BY <1>1, <1>9, <2>1, <2>2
  <2> QED
    BY <2>3 DEF x, y
<1>10. ASSUME NEW x \in S
       PROVE  \E k \in 1..n : Increasing(S)[k] = x
  <2> DEFINE k == rank[x] + 1
  <2>1. k \in 1..n /\ rank[x] = k - 1
    BY <1>1, <1>2
  <2>2. Increasing(S)[k] \in S /\ rank[Increasing(S)[k]] = rank[x]
    <3>1. Increasing(S)[k] \in S /\ Cardinality(Before(Increasing(S)[k])) = k - 1
      BY <1>7, <2>1
    <3> QED
      BY <2>1, <3>1
  <2>3. Increasing(S)[k] = x
    <3> HIDE DEF rank, k
    <3> QED
      BY <1>4, <2>2 DEF Injection, IsInjective
  <2> QED
    BY <2>1, <2>3
<1> HIDE DEF n
<1>11. \A k \in 1..n : Cardinality({y \in S : y < Increasing(S)[k]}) = k - 1
  BY <1>7
<1> QED
  BY <1>1, <1>8, <1>9, <1>10, <1>11 DEF n

(* Picking the bits at some positions gives a sequence of them.            *)
LEMMA PickIs ==
    ASSUME NEW seq, NEW S \in SUBSET Int, S \subseteq DOMAIN seq, IsFiniteSet(S)
    PROVE  /\ DOMAIN Pick(seq, Increasing(S)) = 1..Cardinality(S)
           /\ Cardinality(S) \in Nat
           /\ \A k \in 1..Cardinality(S) : /\ Increasing(S)[k] \in DOMAIN seq
                                           /\ Pick(seq, Increasing(S))[k] = seq[Increasing(S)[k]]
BY IncreasingIs DEF Pick

-----------------------------------------------------------------------------
(* Shares.                                                                 *)

(* Quotient and remainder determine a number, and any two are those of one.*)
LEMMA Division ==
    ASSUME NEW n \in Nat \ {0}, NEW m \in Nat
    PROVE  /\ \A o \in 0..(m * n - 1) : /\ o % n \in 0..(n - 1) /\ o \div n \in 0..(m - 1)
                                        /\ o = n * (o \div n) + (o % n)
           /\ \A q \in 0..(m - 1), r \in 0..(n - 1) :
                 /\ n * q + r \in 0..(m * n - 1)
                 /\ (n * q + r) % n = r /\ (n * q + r) \div n = q
<1>1. ASSUME NEW o \in 0..(m * n - 1)
      PROVE  o % n \in 0..(n - 1) /\ o \div n \in 0..(m - 1) /\ o = n * (o \div n) + (o % n)
  <2>1. o \in Nat /\ o < m * n
    OBVIOUS
  <2>2. o % n \in 0..(n - 1) /\ o = n * (o \div n) + (o % n) /\ o \div n \in Int
    BY <2>1
  <2>3. o \div n >= 0
    BY <2>1, <2>2
  <2>4. o \div n < m
    BY <2>1, <2>2
  <2> QED
    BY <2>2, <2>3, <2>4
<1>2. ASSUME NEW q \in 0..(m - 1), NEW r \in 0..(n - 1)
      PROVE  /\ n * q + r \in 0..(m * n - 1)
             /\ (n * q + r) % n = r /\ (n * q + r) \div n = q
  <2>1. q \in Nat /\ r \in Nat /\ r < n /\ q + 1 <= m
    OBVIOUS
  <2>2. n * q \in Nat /\ n * (q + 1) <= n * m /\ n * (q + 1) = n * q + n
    BY <2>1
  <2>3. n * q + r \in 0..(m * n - 1)
    BY <2>1, <2>2
  <2>4. (n * q + r) % n = r /\ (n * q + r) \div n = q
    BY <2>1
  <2> QED
    BY <2>3, <2>4
<1> QED
  BY <1>1, <1>2

(* The numbers with a given quotient and remainder: one.                   *)
Offsets(n, m, q, r) == {o \in 0..(m * n - 1) : o % n = r /\ o \div n = q}

(* Exactly one number has a given quotient and remainder.                  *)
LEMMA OneOffset ==
    ASSUME NEW n \in Nat \ {0}, NEW m \in Nat, NEW q \in 0..(m - 1), NEW r \in 0..(n - 1)
    PROVE  Cardinality(Offsets(n, m, q, r)) = 1
<1>1. Offsets(n, m, q, r) = {n * q + r}
  <2>1. \A o \in 0..(m * n - 1) : o % n = r /\ o \div n = q => o = n * q + r
    BY Division
  <2>2. n * q + r \in 0..(m * n - 1) /\ (n * q + r) % n = r /\ (n * q + r) \div n = q
    BY Division
  <2> QED
    BY <2>1, <2>2 DEF Offsets
<1> QED
  BY <1>1, FS_Singleton

(* Each sharing of a port has one bit of each share, in both layouts.      *)
THEOREM SharesOneToOne ==
    ASSUME NEW p, p.type \in Dense \cup {"sharings_strided"}, NEW n \in Nat \ {0},
           Width(p) \in Nat, Width(p) % n = 0,
           NEW s \in 0..(n - 1), NEW j \in 0..(Width(p) \div n - 1)
    PROVE  Cardinality({o \in 0..(Width(p) - 1) :
                           share_id(p, o, n) = s /\ sharing_of(p, o, n) = j}) = 1
<1> DEFINE m == Width(p) \div n
<1>1. m \in Nat \ {0} /\ Width(p) = m * n /\ m * n = n * m
  <2>1. m \in Int /\ Width(p) = n * m + (Width(p) % n)
    OBVIOUS
  <2>2. Width(p) = n * m
    BY <2>1
  <2>3. m >= 1
    BY <2>1
  <2> HIDE DEF m
  <2> QED
    BY <2>1, <2>2, <2>3
<1>2. j \in 0..(m - 1)
  OBVIOUS
<1> HIDE DEF m
<1>3. CASE p.type \in Dense
  <2>1. \A o : share_id(p, o, n) = o % n /\ sharing_of(p, o, n) = o \div n
    BY <1>3 DEF share_id, sharing_of
  <2>2. Cardinality(Offsets(n, m, j, s)) = 1
    BY <1>1, <1>2, OneOffset
  <2>3. {o \in 0..(Width(p) - 1) : share_id(p, o, n) = s /\ sharing_of(p, o, n) = j}
            = Offsets(n, m, j, s)
    BY <1>1, <2>1 DEF Offsets
  <2> QED
    BY <2>2, <2>3
<1>4. CASE p.type = "sharings_strided"
  <2>1. \A o : share_id(p, o, n) = o \div m /\ sharing_of(p, o, n) = o % m
    BY <1>4 DEF share_id, sharing_of, Dense, m
  <2>2. Cardinality(Offsets(m, n, s, j)) = 1
    BY <1>1, <1>2, OneOffset
  <2>3. {o \in 0..(Width(p) - 1) : share_id(p, o, n) = s /\ sharing_of(p, o, n) = j}
            = Offsets(m, n, s, j)
    BY <1>1, <2>1 DEF Offsets
  <2> QED
    BY <2>2, <2>3
<1> QED
  BY <1>3, <1>4

-----------------------------------------------------------------------------
(* A sequence of checks gives no error when none of them fails.            *)
LEMMA NoFirstError ==
    ASSUME NEW checks, FirstError(checks) = None,
           NEW n \in Nat, DOMAIN checks = 1..n,
           \A i \in 1..n : checks[i].bad => checks[i].error # None
    PROVE  \A i \in 1..n : ~checks[i].bad
<1> DEFINE failed == {i \in DOMAIN checks : checks[i].bad}
<1>1. CASE failed = {}
  BY <1>1
<1>2. CASE failed # {}
  <2>1. failed \subseteq Nat
    OBVIOUS
  <2>2. Min(failed) \in failed
    <3> HIDE DEF failed
    <3> QED
      BY <1>2, <2>1, LeastIs
  <2>3. FirstError(checks) = checks[Min(failed)].error
    BY <1>2 DEF FirstError
  <2> QED
    BY <2>2, <2>3
<1> QED
  BY <1>1, <1>2

(* It gives none but theirs.                                               *)
LEMMA NoOtherError ==
    ASSUME NEW checks, NEW n \in Nat, DOMAIN checks = 1..n,
           NEW error, error # None, \A i \in 1..n : checks[i].error # error
    PROVE  FirstError(checks) # error
<1> DEFINE failed == {i \in DOMAIN checks : checks[i].bad}
<1>1. CASE failed = {}
  BY <1>1 DEF FirstError
<1>2. CASE failed # {}
  <2>1. failed \subseteq Nat
    OBVIOUS
  <2>2. Min(failed) \in failed
    <3> HIDE DEF failed
    <3> QED
      BY <1>2, <2>1, LeastIs
  <2>3. FirstError(checks) = checks[Min(failed)].error
    BY <1>2 DEF FirstError
  <2> QED
    BY <2>2, <2>3
<1> QED
  BY <1>1, <1>2

(* A gadget that GadgetAttrs::new accepts has a number of shares.          *)
LEMMA AcceptedShares ==
    ASSUME NEW a, GadgetAttrsError(a) = None, IsGadget(a)
    PROVE  a.shares # Missing
<1> DEFINE checks == <<
        Check(Given(a) \notin {{}, {"arch", "prop", "strat", "shares"}}, "all_or_none"),
        Check(IsGadget(a) /\ a.arch \notin {"loopy", "pipeline"}, "arch"),
        Check(IsGadget(a) /\ a.prop \notin {"PINI", "OPINI", "affine"}, "prop"),
        Check(IsGadget(a) /\ a.strat \notin {"assumed", "composite_top"}, "strat")>>
<1>1. DOMAIN checks = 1..4 /\ FirstError(checks) = None
  BY DEF GadgetAttrsError
<1>2. \A i \in 1..4 : checks[i].error # None
  BY DEF Check, None
<1>3. ~checks[1].bad
  <2> HIDE DEF checks
  <2>1. 4 \in Nat /\ 1 \in 1..4
    OBVIOUS
  <2>2. \A i \in 1..4 : checks[i].bad => checks[i].error # None
    BY <1>2
  <2>3. \A i \in 1..4 : ~checks[i].bad
    BY <1>1, <2>1, <2>2, NoFirstError
  <2> QED
    BY <2>1, <2>3
<1>4. Given(a) = {"arch", "prop", "strat", "shares"}
  BY <1>3 DEF Check, IsGadget
<1> QED
  BY <1>4 DEF Given

(* The width of a port that PortKind::new accepts is a number of sharings. *)
LEMMA AcceptedWidth ==
    ASSUME NEW p, NEW n, PortKindError(p, n) = None, p.type \in Dense \cup {"sharings_strided"}
    PROVE  Width(p) % n = 0
<1> DEFINE checks == <<
        Check(p.type \in Dense \cup {"sharings_strided"} /\ Width(p) % n # 0, "width"),
        Check(p.type = "share" /\ p.share = Missing, "no_share"),
        Check(p.type = "clock" /\ Width(p) # 1, "clock_width"),
        Check(p.type \notin PortTypes, "type")>>
<1>1. DOMAIN checks = 1..4 /\ FirstError(checks) = None
  BY DEF PortKindError
<1>2. \A i \in 1..4 : checks[i].error # None
  BY DEF Check, None
<1>3. ~checks[1].bad
  <2> HIDE DEF checks
  <2>1. 4 \in Nat /\ 1 \in 1..4
    OBVIOUS
  <2>2. \A i \in 1..4 : checks[i].bad => checks[i].error # None
    BY <1>2
  <2>3. \A i \in 1..4 : ~checks[i].bad
    BY <1>1, <2>1, <2>2, NoFirstError
  <2> QED
    BY <2>1, <2>3
<1> QED
  BY <1>3 DEF Check

(* What the construction of a gadget has checked.                          *)
LEMMA AcceptedGadget ==
    ASSUME NEW ym, ym.ports \in Seq(Range(ym.ports)),
           GadgetBuilderError(ym) = None, IsGadget(ym.attrs)
    PROVE  /\ ym.attrs.shares # Missing
           /\ \A p \in Range(ym.ports) : p.type \in Dense \cup {"sharings_strided"}
                    => Width(p) % ym.attrs.shares = 0
<1> DEFINE kind == [i \in DOMAIN ym.ports |-> PortKindError(ym.ports[i], ym.attrs.shares)]
           checks == [i \in DOMAIN kind |-> Check(kind[i] # None, kind[i])]
<1>1. GadgetAttrsError(ym.attrs) = None /\ FirstError(checks) = None
  BY DEF GadgetBuilderError
<1>2. PICK n \in Nat : DOMAIN ym.ports = 1..n
  OBVIOUS
<1>3. DOMAIN checks = 1..n /\ \A i \in 1..n : checks[i].bad => checks[i].error # None
  BY <1>2 DEF Check
<1>4. \A i \in 1..n : ~checks[i].bad
  <2> HIDE DEF checks
  <2> QED
    BY <1>1, <1>3, NoFirstError
<1>5. \A i \in 1..n : PortKindError(ym.ports[i], ym.attrs.shares) = None
  BY <1>2, <1>4 DEF Check
<1>6. \A p \in Range(ym.ports) : \E i \in 1..n : p = ym.ports[i]
  BY <1>2 DEF Range
<1> QED
  BY <1>1, <1>5, <1>6, AcceptedShares, AcceptedWidth

-----------------------------------------------------------------------------
(* Roles.                                                                  *)

(* The positions, in a sequence of bits, of those of random ports.         *)
RandomBits(ym, bits) == {i \in DOMAIN bits : PortOf(ym, bits[i]).type = "random"}

(* Of those that are inputs.                                               *)
InputBits(ym, bits) == {c \in DOMAIN bits : ym.ports[bits[c][1]].dir = "input"}

(* The role of a bit is a random exactly when its port is one.             *)
LEMMA RandomRole ==
    ASSUME NEW ym, NEW bits, NEW i \in DOMAIN bits
    PROVE  /\ Roles(ym, bits)[i][1] = "random" <=> i \in RandomBits(ym, bits)
           /\ i \in RandomBits(ym, bits)
                => Roles(ym, bits)[i] = <<"random", RandomId(ym, bits, i)>>
<1> DEFINE p == PortOf(ym, bits[i])
<1>1. Roles(ym, bits)[i] = Role(ym, bits, i)
  BY DEF Roles
<1>2. "random" \notin ShareTypes
  BY DEF ShareTypes, Dense
<1>3. CASE p.type \in ShareTypes
  <2>1. Role(ym, bits, i) = <<"share", share_id(p, bits[i][2], ym.attrs.shares)>>
    BY <1>2, <1>3 DEF Role
  <2>2. i \notin RandomBits(ym, bits)
    BY <1>2, <1>3 DEF RandomBits
  <2> QED
    BY <1>1, <2>1, <2>2
<1>4. CASE p.type = "random"
  <2>1. Role(ym, bits, i) = <<"random", RandomId(ym, bits, i)>>
    BY <1>2, <1>4 DEF Role
  <2> QED
    BY <1>1, <1>4, <2>1 DEF RandomBits
<1>5. CASE p.type \notin ShareTypes /\ p.type # "random"
  <2>1. Role(ym, bits, i) = <<"control", 0>>
    BY <1>5 DEF Role
  <2>2. i \notin RandomBits(ym, bits)
    BY <1>5 DEF RandomBits
  <2> QED
    BY <1>1, <2>1, <2>2
<1> QED
  BY <1>3, <1>4, <1>5

(* The randoms of a sequence of bits are numbered in their order.          *)
LEMMA RandomsInOrder ==
    ASSUME NEW ym, NEW bits, NEW n \in Nat, DOMAIN bits = 1..n
    PROVE  LET R == RandomBits(ym, bits)
               c == Cardinality(R)
           IN  /\ c \in Nat /\ Increasing(R) \in [1..c -> R]
               /\ \A i \in R : \E k \in 1..c : Increasing(R)[k] = i
               /\ \A k \in 1..c : Roles(ym, bits)[Increasing(R)[k]] = <<"random", k - 1>>
<1> DEFINE R == RandomBits(ym, bits)
           c == Cardinality(R)
<1>1. R \in SUBSET Int /\ R \subseteq 1..n /\ R \subseteq DOMAIN bits
  BY DEF RandomBits
<1>2. IsFiniteSet(R)
  <2>1. IsFiniteSet(1..n)
    BY FS_Interval
  <2> QED
    BY <1>1, <2>1, FS_Subset
<1>3. /\ c \in Nat /\ Increasing(R) \in [1..c -> R]
      /\ \A k \in 1..c : Cardinality({y \in R : y < Increasing(R)[k]}) = k - 1
      /\ \A i \in R : \E k \in 1..c : Increasing(R)[k] = i
  <2> HIDE DEF R
  <2> QED
    BY <1>1, <1>2, IncreasingIs
<1>4. ASSUME NEW k \in 1..c
      PROVE  Roles(ym, bits)[Increasing(R)[k]] = <<"random", k - 1>>
  <2> DEFINE i == Increasing(R)[k]
  <2>1. i \in R /\ i \in DOMAIN bits /\ i \in 1..n
    BY <1>1, <1>3
  <2>2. Roles(ym, bits)[i] = <<"random", RandomId(ym, bits, i)>>
    <3> HIDE DEF i
    <3> QED
      BY <2>1, RandomRole
  <2>3. {j \in 1..(i - 1) : PortOf(ym, bits[j]).type = "random"} = {y \in R : y < i}
    <3> HIDE DEF i
    <3> QED
      BY <2>1 DEF RandomBits
  <2>4. RandomId(ym, bits, i) = k - 1
    <3>1. RandomId(ym, bits, i) = Cardinality({y \in R : y < i})
      <4> HIDE DEF i, R
      <4> QED
        BY <2>3 DEF RandomId
    <3> HIDE DEF R
    <3> QED
      BY <1>3, <3>1
  <2> QED
    BY <2>2, <2>4
<1> HIDE DEF R
<1> QED
  BY <1>3, <1>4 DEF R

(* Entry k of a list is the input whose role is random k.                  *)
Numbered(rnd, role) ==
    /\ \A k \in DOMAIN rnd : role[rnd[k]] = <<"random", k - 1>>
    /\ {i \in DOMAIN role : role[i][1] = "random"} = Range(rnd)

(* The randoms of a sequence of bits are numbered, as those that           *)
(* PipelineGadget::new lists.                                              *)
LEMMA ListedAreNumbered ==
    ASSUME NEW ym, NEW bits, NEW n \in Nat, DOMAIN bits = 1..n
    PROVE  Numbered(RandomInputs(Roles(ym, bits)), Roles(ym, bits))
<1> DEFINE R == RandomBits(ym, bits)
           c == Cardinality(R)
           roles == Roles(ym, bits)
<1>1. DOMAIN roles = 1..n
  BY DEF Roles
<1>2. {i \in DOMAIN roles : roles[i][1] = "random"} = R
  <2>1. \A i \in 1..n : roles[i][1] = "random" <=> i \in R
    BY RandomRole
  <2>2. R \subseteq 1..n
    BY DEF RandomBits
  <2> HIDE DEF roles, R
  <2> QED
    BY <1>1, <2>1, <2>2
<1>3. RandomInputs(roles) = Increasing(R)
  BY <1>2 DEF RandomInputs, Positions
<1>4. /\ c \in Nat /\ Increasing(R) \in [1..c -> R]
      /\ \A i \in R : \E k \in 1..c : Increasing(R)[k] = i
      /\ \A k \in 1..c : roles[Increasing(R)[k]] = <<"random", k - 1>>
  BY RandomsInOrder
<1> HIDE DEF R, roles, c
<1>5. Range(Increasing(R)) = R
  <2>1. Range(Increasing(R)) \subseteq R
    BY <1>4 DEF Range
  <2>2. R \subseteq Range(Increasing(R))
    BY <1>4 DEF Range
  <2> QED
    BY <2>1, <2>2
<1>6. \A k \in DOMAIN RandomInputs(roles) : roles[RandomInputs(roles)[k]] = <<"random", k - 1>>
  BY <1>3, <1>4
<1> QED
  BY <1>2, <1>3, <1>5, <1>6 DEF Numbered, roles

(* TopGadget::new lists all of them, when no random is an output.          *)
LEMMA TopAreNumbered ==
    ASSUME NEW ym, NEW bits, NEW n \in Nat, DOMAIN bits = 1..n,
           RandomBits(ym, bits) \subseteq InputBits(ym, bits)
    PROVE  LET roles == Roles(ym, bits)
               ins == Increasing(InputBits(ym, bits))
           IN  Numbered(TopRndPorts(roles, ins), [i \in DOMAIN ins |-> roles[ins[i]]])
<1> DEFINE R == RandomBits(ym, bits)
           c == Cardinality(R)
           roles == Roles(ym, bits)
           I == InputBits(ym, bits)
           ins == Increasing(I)
           q == Cardinality(I)
           random == {i \in DOMAIN ins : roles[ins[i]][1] = "random"}
           ids == {roles[ins[i]][2] : i \in random}
           sorted == Increasing(ids)
           rnd == [k \in DOMAIN sorted |-> CHOOSE i \in random : roles[ins[i]][2] = sorted[k]]
           role == [i \in DOMAIN ins |-> roles[ins[i]]]
<1>1. TopRndPorts(roles, ins) = rnd
  BY DEF TopRndPorts
<1>2. /\ c \in Nat /\ Increasing(R) \in [1..c -> R]
      /\ \A i \in R : \E k \in 1..c : Increasing(R)[k] = i
      /\ \A k \in 1..c : roles[Increasing(R)[k]] = <<"random", k - 1>>
  BY RandomsInOrder
<1>3. /\ q \in Nat /\ ins \in [1..q -> I]
      /\ \A i, j \in 1..q : i < j => ins[i] < ins[j]
      /\ \A x \in I : \E k \in 1..q : ins[k] = x
  <2>1. I \in SUBSET Int /\ I \subseteq 1..n
    BY DEF InputBits
  <2>2. IsFiniteSet(I)
    <3>1. IsFiniteSet(1..n)
      BY FS_Interval
    <3> QED
      BY <2>1, <3>1, FS_Subset
  <2> HIDE DEF I
  <2> QED
    BY <2>1, <2>2, IncreasingIs
<1>4. I \subseteq 1..n /\ R \subseteq I
  BY DEF InputBits
<1>5. \A x \in 1..n : roles[x][1] = "random" <=> x \in R
  BY RandomRole
<1> HIDE DEF R, I, roles, c
<1>6. \A x \in R : \E k \in 1..c : x = Increasing(R)[k] /\ roles[x] = <<"random", k - 1>>
  BY <1>2
<1>7. \A x, y \in R : roles[x][2] = roles[y][2] => x = y
  <2> SUFFICES ASSUME NEW x \in R, NEW y \in R, roles[x][2] = roles[y][2]
               PROVE  x = y
    OBVIOUS
  <2>1. PICK k \in 1..c : x = Increasing(R)[k] /\ roles[x] = <<"random", k - 1>>
    BY <1>6
  <2>2. PICK l \in 1..c : y = Increasing(R)[l] /\ roles[y] = <<"random", l - 1>>
    BY <1>6
  <2>3. k - 1 = l - 1
    BY <2>1, <2>2
  <2>4. k = l
    BY <1>2, <2>3
  <2> QED
    BY <2>1, <2>2, <2>4
<1>8. \A i \in 1..q : i \in random <=> ins[i] \in R
  <2>1. \A i \in 1..q : ins[i] \in 1..n
    BY <1>3, <1>4
  <2>2. DOMAIN ins = 1..q
    BY <1>3
  <2> HIDE DEF ins, q
  <2> QED
    BY <1>5, <2>1, <2>2
<1>9. random \subseteq 1..q /\ DOMAIN ins = 1..q
  BY <1>3
<1>10. \A x \in R : \E i \in random : ins[i] = x
  <2> SUFFICES ASSUME NEW x \in R
               PROVE  \E i \in random : ins[i] = x
    OBVIOUS
  <2>1. PICK i \in 1..q : ins[i] = x
    BY <1>3, <1>4
  <2> QED
    BY <1>8, <2>1
<1> HIDE DEF ins, q
<1>11. ids = 0..(c - 1)
  <2>1. ASSUME NEW i \in random
        PROVE  roles[ins[i]][2] \in 0..(c - 1)
    <3>1. ins[i] \in R
      BY <1>8, <1>9
    <3>2. PICK k \in 1..c : roles[ins[i]] = <<"random", k - 1>>
      BY <1>6, <3>1
    <3> QED
      BY <1>2, <3>2
  <2>2. ASSUME NEW v \in 0..(c - 1)
        PROVE  \E i \in random : roles[ins[i]][2] = v
    <3>1. v + 1 \in 1..c /\ (v + 1) - 1 = v
      BY <1>2
    <3>2. roles[Increasing(R)[v + 1]] = <<"random", (v + 1) - 1>> /\ Increasing(R)[v + 1] \in R
      BY <1>2, <3>1
    <3>3. PICK i \in random : ins[i] = Increasing(R)[v + 1]
      BY <1>10, <3>2
    <3> QED
      BY <3>1, <3>2, <3>3
  <2>3. ids \subseteq 0..(c - 1)
    BY <2>1
  <2>4. 0..(c - 1) \subseteq ids
    <3> HIDE DEF random
    <3> QED
      BY <2>2
  <2> QED
    BY <2>3, <2>4
<1>12. DOMAIN sorted = 1..c /\ \A k \in 1..c : sorted[k] = k - 1
  <2> DEFINE T == 0..(c - 1)
  <2>1. IsFiniteSet(T) /\ Cardinality(T) = c
    <3>1. c - 1 \in Int /\ 0 \in Int /\ (IF 0 > c - 1 THEN 0 ELSE (c - 1) - 0 + 1) = c
      BY <1>2
    <3> QED
      BY <3>1, FS_Interval
  <2>2. T \in SUBSET Int
    BY <1>2
  <2>3. /\ Increasing(T) \in [1..c -> T]
        /\ \A i, j \in 1..c : i < j => Increasing(T)[i] < Increasing(T)[j]
    <3> HIDE DEF T
    <3> QED
      BY <2>1, <2>2, IncreasingIs
  <2>4. \A k \in 1..c : Increasing(T)[k] \in 0..(c - 1)
    BY <2>3
  <2>5. \A k \in 1..c : Increasing(T)[k] = k - 1
    <3> HIDE DEF T
    <3> QED
      BY <1>2, <2>3, <2>4, AllInOrder
  <2>6. sorted = Increasing(T)
    BY <1>11
  <2> HIDE DEF sorted, T
  <2> QED
    BY <2>3, <2>5, <2>6
<1> HIDE DEF sorted, ids
<1>13. ASSUME NEW k \in 1..c
       PROVE  rnd[k] \in random /\ roles[ins[rnd[k]]] = <<"random", k - 1>>
  <2>1. Increasing(R)[k] \in R /\ roles[Increasing(R)[k]] = <<"random", k - 1>>
    BY <1>2
  <2>2. PICK i \in random : ins[i] = Increasing(R)[k]
    BY <1>10, <2>1
  <2>3. roles[ins[i]][2] = sorted[k]
    BY <1>12, <2>1, <2>2
  <2>4. rnd[k] = CHOOSE j \in random : roles[ins[j]][2] = sorted[k]
    BY <1>12
  <2> HIDE DEF rnd, random
  <2>5. rnd[k] \in random /\ roles[ins[rnd[k]]][2] = sorted[k]
    BY <2>3, <2>4
  <2>6. ins[rnd[k]] \in R /\ ins[i] \in R
    BY <1>8, <1>9, <2>5, <2>2, <2>1
  <2>7. ins[rnd[k]] = ins[i]
    BY <1>7, <2>3, <2>5, <2>6
  <2> QED
    BY <2>1, <2>2, <2>5, <2>7
<1>14. Range(rnd) = random
  <2>1. DOMAIN rnd = 1..c
    BY <1>12
  <2>2. Range(rnd) \subseteq random
    <3> HIDE DEF rnd, random
    <3> QED
      BY <1>13, <2>1 DEF Range
  <2>3. ASSUME NEW i \in random
        PROVE  i \in Range(rnd)
    <3>1. i \in 1..q /\ ins[i] \in R
      BY <1>8, <1>9
    <3>2. PICK k \in 1..c : roles[ins[i]] = <<"random", k - 1>>
      BY <1>6, <3>1
    <3>3. rnd[k] \in 1..q /\ ins[rnd[k]] \in R /\ roles[ins[rnd[k]]] = <<"random", k - 1>>
      <4> HIDE DEF rnd, random
      <4> QED
        BY <1>8, <1>9, <1>13
    <3>4. ins[rnd[k]] = ins[i]
      <4> HIDE DEF rnd
      <4> QED
        BY <1>7, <3>1, <3>2, <3>3
    <3>5. rnd[k] = i
      <4> HIDE DEF rnd
      <4>1. rnd[k] \in Int /\ i \in Int /\ (rnd[k] < i \/ i < rnd[k] \/ rnd[k] = i)
        BY <3>1, <3>3
      <4>2. \A x \in 1..q : ins[x] \in Int
        <5>1. \A x \in I : x \in Int
          BY <1>4
        <5>2. \A x \in 1..q : ins[x] \in I
          BY <1>3
        <5> QED
          BY <5>1, <5>2
      <4>3. \A x, y \in 1..q : x < y => ins[x] < ins[y]
        BY <1>3 DEF ins, q
      <4> QED
        BY <3>1, <3>3, <3>4, <4>1, <4>2, <4>3
    <3> HIDE DEF rnd
    <3> QED
      BY <2>1, <3>2, <3>5 DEF Range
  <2>4. random \subseteq Range(rnd)
    <3> HIDE DEF rnd, random
    <3> QED
      BY <2>3
  <2> QED
    BY <2>2, <2>4
<1>15. \A k \in DOMAIN rnd : role[rnd[k]] = <<"random", k - 1>>
  <2>1. DOMAIN rnd = 1..c
    BY <1>12
  <2>2. \A i \in random : role[i] = roles[ins[i]]
    OBVIOUS
  <2> HIDE DEF rnd, random, role
  <2> QED
    BY <1>13, <2>1, <2>2
<1>16. {i \in DOMAIN role : role[i][1] = "random"} = random
  OBVIOUS
<1> HIDE DEF rnd, role, random
<1>17. Numbered(rnd, role)
  BY <1>14, <1>15, <1>16 DEF Numbered
<1> QED
  BY <1>1, <1>17 DEF role, roles, ins, I

(* The first element of a sequence and of what continues it.               *)
LEMMA FirstOfTwo ==
    ASSUME NEW S, NEW s \in Seq(S), NEW t \in Seq(S), Len(s) >= 1
    PROVE  s \o t \in Seq(S) /\ Len(s \o t) >= 1 /\ (s \o t)[1] = s[1]
OBVIOUS

(* No random is an output of an accepted top-level gadget.                 *)
LEMMA RandomsAreInputs ==
    ASSUME NEW ym, NEW module, NEW n \in Nat, DOMAIN module.ports = 1..n,
           TopError(ym, module) = None
    PROVE  RandomBits(ym, module.ports) \subseteq InputBits(ym, module.ports)
<1> DEFINE ps == [c \in DOMAIN module.ports |-> PortOf(ym, module.ports[c])]
           rel == ym.attrs.active # None
           first == <<Check(RolesError(ym, module.ports) # None, RolesError(ym, module.ports)),
                      Check(~check_clock(ym, module), "clock_not_annotated")>>
           conditions == [c \in DOMAIN ps |->
                            Check(ConditionError(ps[c], rel) # None, ConditionError(ps[c], rel))]
           last == <<Check(ym.attrs.strat # "composite_top", "strat_top"),
                     Check(ym.attrs.arch # "loopy", "pipeline_top"),
                     Check(ym.attrs.prop # "PINI", "prop_top")>>
           checks == first \o conditions \o last
           Failing(i) == i.bad => i.error # None
           All == {i \in Range(first) \cup Range(conditions) \cup Range(last) : TRUE}
<1>1. FirstError(checks) = None
  BY DEF TopError, None
<1>2. first \in Seq(All) /\ Len(first) = 2 /\ last \in Seq(All) /\ conditions \in Seq(All)
  <2>1. first \in Seq(Range(first)) /\ Len(first) = 2
    BY DEF Range
  <2>2. last \in Seq(Range(last))
    BY DEF Range
  <2>3. conditions \in Seq(Range(conditions))
    <3>1. DOMAIN conditions = 1..n
      OBVIOUS
    <3>2. conditions = [c \in 1..n |-> conditions[c]]
      OBVIOUS
    <3> HIDE DEF conditions
    <3>3. conditions \in [1..n -> Range(conditions)]
      BY <3>1, <3>2 DEF Range
    <3> QED
      BY <3>3, FunctionIsSeq
  <2> HIDE DEF first, conditions, last
  <2> QED
    BY <2>1, <2>2, <2>3
<1>3. \A i \in All : Failing(i)
  <2>1. \A i \in Range(first) : Failing(i)
    <3>1. Failing(first[1]) /\ Failing(first[2]) /\ DOMAIN first = 1..2
      <4> DEFINE error == RolesError(ym, module.ports)
      <4>1. DOMAIN first = 1..2 /\ first[1] = Check(error # None, error)
        OBVIOUS
      <4>2. Failing(first[2])
        BY DEF Check, None
      <4>3. Failing(Check(error # None, error))
        <5> HIDE DEF error
        <5> QED
          BY DEF Check
      <4> HIDE DEF first, Failing
      <4> QED
        BY <4>1, <4>2, <4>3
    <3>2. \A k \in 1..2 : k = 1 \/ k = 2
      OBVIOUS
    <3> HIDE DEF first, Failing
    <3> QED
      BY <3>1, <3>2 DEF Range
  <2>2. \A i \in Range(conditions) : Failing(i)
    <3>1. \A c \in DOMAIN conditions : Failing(conditions[c])
      BY DEF Check
    <3> HIDE DEF conditions, Failing
    <3> QED
      BY <3>1 DEF Range
  <2>3. \A i \in Range(last) : Failing(i)
    BY DEF Range, Check, None
  <2> HIDE DEF first, conditions, last, Failing
  <2> QED
    BY <2>1, <2>2, <2>3
<1>4. ~first[1].bad
  <2>1. checks \in Seq(All) /\ checks[1] = first[1] /\ Len(checks) \in Nat
        /\ DOMAIN checks = 1..Len(checks) /\ 1 \in 1..Len(checks)
    <3> HIDE DEF first, conditions, last, All
    <3> DEFINE two == first \o conditions
    <3>1. two \in Seq(All) /\ Len(two) >= 1 /\ two[1] = first[1]
      <4>1. Len(first) >= 1 /\ first \in Seq(All) /\ conditions \in Seq(All)
        BY <1>2
      <4> QED
        BY <4>1, FirstOfTwo, SMT
    <3> HIDE DEF two
    <3>2. two \o last \in Seq(All) /\ Len(two \o last) >= 1 /\ (two \o last)[1] = two[1]
      BY <1>2, <3>1, FirstOfTwo
    <3>3. checks = two \o last
      BY DEF two
    <3> HIDE DEF checks
    <3> QED
      BY <3>1, <3>2, <3>3
  <2>2. \A i \in 1..Len(checks) : checks[i] \in All
    <3> HIDE DEF checks, All
    <3> QED
      BY <2>1
  <2>3. \A i \in 1..Len(checks) : checks[i].bad => checks[i].error # None
    <3> HIDE DEF checks, All
    <3> QED
      BY <1>3, <2>2
  <2> HIDE DEF checks
  <2>4. \A i \in 1..Len(checks) : ~checks[i].bad
    BY <1>1, <2>1, <2>3, NoFirstError
  <2> HIDE DEF first
  <2> QED
    BY <2>1, <2>4
<1>5. RolesError(ym, module.ports) = None
  BY <1>4 DEF Check
<1> DEFINE bits == module.ports
           errors == [i \in DOMAIN bits |-> RoleError(PortOf(ym, bits[i]))]
           roles == [i \in DOMAIN bits |-> Check(errors[i] # None, errors[i])]
<1>6. \A i \in 1..n : ~roles[i].bad
  <2>1. DOMAIN roles = 1..n /\ \A i \in 1..n : roles[i].bad => roles[i].error # None
    BY DEF Check
  <2>2. FirstError(roles) = None
    BY <1>5 DEF RolesError
  <2> HIDE DEF roles
  <2> QED
    BY <2>1, <2>2, NoFirstError
<1>7. \A i \in 1..n : RoleError(PortOf(ym, bits[i])) = None
  BY <1>6 DEF Check
<1>8. ASSUME NEW i \in 1..n, PortOf(ym, bits[i]).type = "random"
      PROVE  PortOf(ym, bits[i]).dir = "input"
  <2> DEFINE p == PortOf(ym, bits[i])
             tests == <<Check(p.type = "clock", "undetected_clock"),
                        Check(p.type = "random" /\ p.dir # "input", "random_output")>>
  <2>1. FirstError(tests) = None
    BY <1>7 DEF RoleError
  <2>2. DOMAIN tests = 1..2 /\ \A k \in 1..2 : tests[k].bad => tests[k].error # None
    BY DEF Check, None
  <2>3. 2 \in Nat /\ 2 \in 1..2
    OBVIOUS
  <2>4. ~tests[2].bad
    <3> HIDE DEF tests
    <3>1. \A k \in 1..2 : ~tests[k].bad
      BY <2>1, <2>2, <2>3, NoFirstError
    <3> QED
      BY <2>3, <3>1
  <2> QED
    BY <1>8, <2>4 DEF Check
<1> QED
  BY <1>8 DEF RandomBits, InputBits, PortOf

-----------------------------------------------------------------------------
(* Modules.                                                                *)

(* A module of Yosys whose ports are a sequence of sequences of wires.     *)
WellFormed(ym) ==
    /\ ym.attrs.shares \in {Missing} \cup (Nat \ {0})
    /\ ym.n \in Nat \ {0, 1}
    /\ ym.ports \in Seq(Range(ym.ports))
    /\ \A p \in Range(ym.ports) : p.bits \in Seq(WireBits(ym))

(* The bits of the ports are a sequence of pairs of a port and an offset.  *)
LEMMA AllBitsIs ==
    ASSUME NEW ym, WellFormed(ym)
    PROVE  /\ AllBits(ym) \in Seq(Nat \X Int)
           /\ \A b : b \in Range(AllBits(ym)) <=>
                 \E p \in DOMAIN ym.ports : \E o \in DOMAIN ym.ports[p].bits : b = <<p, o - 1>>
<1> DEFINE bits(p) == [o \in DOMAIN ym.ports[p].bits |-> <<p, o - 1>>]
           seqs == [p \in DOMAIN ym.ports |-> bits(p)]
<1>1. DOMAIN ym.ports = 1..Len(ym.ports) /\ Len(ym.ports) \in Nat
  BY DEF WellFormed
<1>2. ASSUME NEW p \in DOMAIN ym.ports
      PROVE  /\ bits(p) \in Seq(Nat \X Int)
             /\ \A b : b \in Range(bits(p)) <=> \E o \in DOMAIN ym.ports[p].bits : b = <<p, o - 1>>
  <2>1. ym.ports[p].bits \in Seq(WireBits(ym))
    BY DEF WellFormed, Range
  <2>2. PICK n \in Nat : DOMAIN ym.ports[p].bits = 1..n
    BY <2>1
  <2>3. \A o \in 1..n : <<p, o - 1>> \in Nat \X Int
    BY <1>1
  <2>4. bits(p) \in [1..n -> Nat \X Int]
    BY <2>2, <2>3
  <2>5. bits(p) \in Seq(Nat \X Int)
    <3> HIDE DEF bits
    <3> QED
      BY <2>4, FunctionIsSeq
  <2> QED
    BY <2>5 DEF Range
<1>3. seqs \in Seq(Seq(Nat \X Int))
  <2>1. \A p \in 1..Len(ym.ports) : bits(p) \in Seq(Nat \X Int)
    BY <1>1, <1>2
  <2>2. seqs \in [1..Len(ym.ports) -> Seq(Nat \X Int)]
    <3> HIDE DEF bits
    <3> QED
      BY <1>1, <2>1
  <2> HIDE DEF seqs
  <2> QED
    BY <1>1, <2>2, FunctionIsSeq
<1>4. AllBits(ym) = FlattenSeq(seqs)
  BY DEF AllBits
<1>5. DOMAIN seqs = DOMAIN ym.ports /\ \A p \in DOMAIN ym.ports : seqs[p] = bits(p)
  OBVIOUS
<1> HIDE DEF seqs, bits
<1>6. /\ FlattenSeq(seqs) \in Seq(Nat \X Int)
      /\ \A x : x \in Range(FlattenSeq(seqs)) <=> \E i \in DOMAIN seqs : x \in Range(seqs[i])
  BY <1>3, FlattenIs
<1>7. ASSUME NEW b
      PROVE  b \in Range(AllBits(ym)) <=>
                \E p \in DOMAIN ym.ports : \E o \in DOMAIN ym.ports[p].bits : b = <<p, o - 1>>
  <2>1. b \in Range(AllBits(ym)) <=> \E p \in DOMAIN ym.ports : b \in Range(bits(p))
    BY <1>4, <1>5, <1>6
  <2> QED
    BY <1>2, <2>1
<1> QED
  BY <1>4, <1>6, <1>7

(* What Module::from_yosys has made of a module when it accepts it.        *)
BitsOf(mods, ym) == ports(ym, module_clock_wire(mods, ym))
ShapeOf(mods, ym) ==
    [ports |-> BitsOf(mods, ym), inputs |-> filter_ports(ym, BitsOf(mods, ym), "input"),
     outputs |-> filter_ports(ym, BitsOf(mods, ym), "output"),
     clock |-> clock_name(ym, module_clock_wire(mods, ym))]

(* A module that is built has these ports, and is the gadget they define.  *)
LEMMA BuiltShape ==
    ASSUME NEW mods, NEW ym, BuildModule(mods, ym).error = None
    PROVE  LET mod == BuildModule(mods, ym).value
               shape == ShapeOf(mods, ym)
           IN  /\ mod.ports = shape.ports /\ mod.inputs = shape.inputs
               /\ mod.outputs = shape.outputs /\ mod.clock = shape.clock
               /\ mod.gadget = IF IsPipeline(ym) THEN <<PipelineGadget(ym, shape)>> ELSE <<>>
               /\ PipelineError(ym, shape) = None
               /\ DriverError(mods, Instances(mods, ym), WiresOf(ym)) = None
               /\ ~HasLoop(Range(comb_wire_dag(mods, Instances(mods, ym))))
<1> DEFINE clock == module_clock_wire(mods, ym)
        bits == ports(ym, clock)
        insts == Instances(mods, ym)
        ins == filter_ports(ym, bits, "input")
        outs == filter_ports(ym, bits, "output")
        source == [w \in WiresOf(ym) |-> CHOOSE d \in drivers(mods, insts, w) : TRUE]
        dag == comb_wire_dag(mods, insts)
        cn == clock_name(ym, clock)
        shape == [ports |-> bits, inputs |-> ins, outputs |-> outs, clock |-> cn]
        wires == [c \in DOMAIN bits |-> BitWire(ym, bits[c])]
        sinks == [w \in WiresOf(ym) |-> wires_sinks(mods, insts, w)]
        deps == comb_input_deps(mods, insts, WiresOf(ym), source)
        mod == [ports |-> bits, clock |-> shape.clock, inputs |-> ins, outputs |-> outs,
                instances |-> insts, gadget |-> <<>>, connection_wires |-> wires,
                source |-> source, sinks |-> sinks, dag |-> dag, comb_input_deps |-> deps]
        error == FirstError(<<
            Check(\E i \in Range(module_instances(mods, ym)) : Unsupported \in Range(i.con),
                  "unsupported_wire"),
            Check(Unsupported \in ClockWires(mods, ym), "panic_clock"),
            Check(Cardinality(ClockWires(mods, ym)) > 1, "several_clocks"),
            Check(\E b \in Range(bits) : ym.ports[b[1]].dir = "inout", "inout"),
            Check(\E b \in Range(bits) : BitWire(ym, b) = Unsupported, "unsupported_wire")>>)
        driver == DriverError(mods, insts, WiresOf(ym))
        gadget == PipelineError(ym, shape)
        g == PipelineGadget(ym, shape)
<1>1. BuildModule(mods, ym) =
         IF error # None THEN Fail(error)
         ELSE IF driver # None THEN Fail(driver)
         ELSE IF gadget # None THEN Fail(gadget)
         ELSE IF HasLoop(Range(dag)) THEN Fail("loop")
         ELSE IF ~IsPipeline(ym) THEN Done(mod)
         ELSE Done([update_pipeline_gadget_deps(mod, g) EXCEPT !.gadget = <<g>>])
  BY DEF BuildModule
<1>2. shape = ShapeOf(mods, ym)
  BY DEF ShapeOf, BitsOf
<1>3. /\ mod.ports = bits /\ mod.inputs = ins /\ mod.outputs = outs /\ mod.clock = shape.clock
      /\ mod.gadget = <<>>
      /\ shape.ports = bits /\ shape.inputs = ins /\ shape.outputs = outs
  OBVIOUS
<1>4. LET new == [update_pipeline_gadget_deps(mod, g) EXCEPT !.gadget = <<g>>]
      IN  /\ new.ports = bits /\ new.inputs = ins /\ new.outputs = outs /\ new.clock = shape.clock
          /\ new.gadget = <<g>>
  <2> HIDE DEF clock, bits, insts, ins, outs, source, dag, wires, sinks, deps, g, cn
  <2>1. update_pipeline_gadget_deps(mod, g).ports = bits
    BY DEF update_pipeline_gadget_deps
  <2>2. update_pipeline_gadget_deps(mod, g).inputs = ins
    BY DEF update_pipeline_gadget_deps
  <2>3. update_pipeline_gadget_deps(mod, g).outputs = outs
    BY DEF update_pipeline_gadget_deps
  <2>4. update_pipeline_gadget_deps(mod, g).clock = shape.clock
    BY DEF update_pipeline_gadget_deps
  <2>5. "gadget" \in DOMAIN update_pipeline_gadget_deps(mod, g)
    BY DEF update_pipeline_gadget_deps
  <2> DEFINE upd == update_pipeline_gadget_deps(mod, g)
  <2>6. /\ upd.ports = bits /\ upd.inputs = ins /\ upd.outputs = outs /\ upd.clock = shape.clock
        /\ "gadget" \in DOMAIN upd
    BY <2>1, <2>2, <2>3, <2>4, <2>5
  <2> HIDE DEF upd, shape
  <2>7. LET new == [upd EXCEPT !.gadget = <<g>>]
        IN  /\ new.ports = bits /\ new.inputs = ins /\ new.outputs = outs /\ new.clock = shape.clock
            /\ new.gadget = <<g>>
    BY <2>6
  <2> QED
    BY <2>7 DEF upd
<1> HIDE DEF error, driver, gadget, mod, shape, clock, bits, insts, ins, outs, source, dag, g
<1>5. error = None /\ driver = None /\ gadget = None /\ ~HasLoop(Range(dag))
  BY <1>1 DEF Fail, None
<1>6. BuildModule(mods, ym).value = IF ~IsPipeline(ym) THEN mod
         ELSE [update_pipeline_gadget_deps(mod, g) EXCEPT !.gadget = <<g>>]
  BY <1>1, <1>5 DEF Done
<1>7. CASE IsPipeline(ym)
  BY <1>2, <1>3, <1>4, <1>5, <1>6, <1>7 DEF driver, gadget, dag, insts, g
<1>8. CASE ~IsPipeline(ym)
  BY <1>2, <1>3, <1>5, <1>6, <1>8 DEF driver, gadget, dag, insts
<1> QED
  BY <1>7, <1>8

(* The ports of a module are a sequence of bits, its inputs those of them  *)
(* that are, in order.                                                     *)
LEMMA ShapeIs ==
    ASSUME NEW mods, NEW ym, WellFormed(ym)
    PROVE  LET bits == BitsOf(mods, ym)
           IN  \E n \in Nat : /\ DOMAIN bits = 1..n
                              /\ \A c \in 1..n : bits[c] \in Range(AllBits(ym))
                              /\ ShapeOf(mods, ym).inputs = Increasing(InputBits(ym, bits))
<1> DEFINE clock == module_clock_wire(mods, ym)
           all == AllBits(ym)
           S == {i \in DOMAIN all : ~is_clock(ym, clock, all[i])}
<1>1. BitsOf(mods, ym) = Pick(all, Increasing(S))
  BY DEF BitsOf, ports, Positions
<1>2. PICK N \in Nat : DOMAIN all = 1..N
  BY AllBitsIs
<1>3. S \in SUBSET Int /\ S \subseteq DOMAIN all /\ IsFiniteSet(S)
  <2>1. IsFiniteSet(1..N)
    BY FS_Interval
  <2>2. S \in SUBSET Int /\ S \subseteq 1..N
    BY <1>2
  <2> HIDE DEF S
  <2> QED
    BY <1>2, <2>1, <2>2, FS_Subset
<1> HIDE DEF S, all
<1>4. /\ DOMAIN BitsOf(mods, ym) = 1..Cardinality(S) /\ Cardinality(S) \in Nat
      /\ \A c \in 1..Cardinality(S) : BitsOf(mods, ym)[c] \in Range(all)
  BY <1>1, <1>3, PickIs DEF Range
<1>5. ShapeOf(mods, ym).inputs = Increasing(InputBits(ym, BitsOf(mods, ym)))
  BY DEF ShapeOf, filter_ports, Positions, InputBits
<1> QED
  BY <1>4, <1>5 DEF all

(* The cells among the instances are those of the netlist.                 *)
Sound(i, ym) == i.kind = "cell" => \E c \in Range(ym.cells) : i.type = c.type

(* The instances of a module.                                              *)
FourKinds(mods, ym) ==
    LET clock == module_clock_wire(mods, ym)
    IN  Range(tie_instances) \cup Range(clock_instances(clock))
            \cup Range(input_instances(ym, ports(ym, clock))) \cup Range(module_instances(mods, ym))

(* Instances are of these four kinds, and their ports are on wires.        *)
LEMMA InstancesAre ==
    ASSUME NEW mods, NEW ym, WellFormed(ym), ym.cells \in Seq(Range(ym.cells))
    PROVE  /\ Instances(mods, ym) \in Seq(FourKinds(mods, ym))
           /\ \A k \in DOMAIN Instances(mods, ym) : Sound(Instances(mods, ym)[k], ym)
<1> DEFINE clock == module_clock_wire(mods, ym)
           C == clock_instances(clock)
           I == input_instances(ym, ports(ym, clock))
           M == module_instances(mods, ym)
           Out == {i \in Range(tie_instances) \cup Range(C) \cup Range(I) \cup Range(M) : TRUE}
<1>1. tie_instances \in Seq(Out)
  <2>1. tie_instances \in Seq(Range(tie_instances))
    BY DEF tie_instances, Range
  <2> QED
    BY <2>1
<1>2. C \in Seq(Out)
  <2>1. C \in Seq(Range(C))
    <3>1. CASE clock = Unsupported
      BY <3>1 DEF clock_instances, Range
    <3>2. CASE clock # Unsupported
      <4>1. C = <<Instance("clock", None, 0, <<clock>>)>>
        BY <3>2 DEF clock_instances
      <4> HIDE DEF C
      <4> QED
        BY <4>1 DEF Range
    <3> QED
      BY <3>1, <3>2
  <2> QED
    BY <2>1
<1>3. I \in Seq(Out)
  <2>1. PICK n \in Nat : DOMAIN I = 1..n
    <3>1. PICK n \in Nat : DOMAIN BitsOf(mods, ym) = 1..n
      BY ShapeIs
    <3>2. filter_ports(ym, BitsOf(mods, ym), "input") = Increasing(InputBits(ym, BitsOf(mods, ym)))
      BY DEF filter_ports, Positions, InputBits
    <3>3. InputBits(ym, BitsOf(mods, ym)) \in SUBSET Int /\ IsFiniteSet(InputBits(ym, BitsOf(mods, ym)))
      <4>1. IsFiniteSet(1..n)
        BY FS_Interval
      <4>2. InputBits(ym, BitsOf(mods, ym)) \subseteq 1..n
        BY <3>1 DEF InputBits
      <4> QED
        BY <4>1, <4>2, FS_Subset
    <3>4. /\ Cardinality(InputBits(ym, BitsOf(mods, ym))) \in Nat
          /\ DOMAIN filter_ports(ym, BitsOf(mods, ym), "input") = 1..Cardinality(InputBits(ym, BitsOf(mods, ym)))
      BY <3>2, <3>3, IncreasingIs
    <3>5. DOMAIN I = DOMAIN filter_ports(ym, BitsOf(mods, ym), "input")
      BY DEF input_instances, BitsOf
    <3> QED
      BY <3>4, <3>5
  <2>2. \A k \in 1..n : I[k] \in Range(I)
    BY <2>1 DEF Range
  <2>3. I = [k \in 1..n |-> I[k]]
    BY <2>1 DEF input_instances
  <2> HIDE DEF I
  <2>4. I \in [1..n -> Out]
    BY <2>2, <2>3
  <2> HIDE DEF Out
  <2> QED
    BY <2>4, FunctionIsSeq
<1>4. M \in Seq(Out) /\ DOMAIN M = DOMAIN ym.cells
  <2>1. DOMAIN M = DOMAIN ym.cells /\ DOMAIN ym.cells = 1..Len(ym.cells) /\ Len(ym.cells) \in Nat
    BY DEF module_instances
  <2>2. \A k \in 1..Len(ym.cells) : M[k] \in Range(M)
    BY <2>1 DEF Range
  <2>3. M = [k \in 1..Len(ym.cells) |-> M[k]]
    BY <2>1 DEF module_instances
  <2> HIDE DEF M
  <2>4. M \in [1..Len(ym.cells) -> Out]
    BY <2>2, <2>3
  <2> HIDE DEF Out
  <2> QED
    BY <2>1, <2>4, FunctionIsSeq
<1>5. \A i \in Out : Sound(i, ym)
  <2>1. \A i \in Range(tie_instances) : Sound(i, ym)
    BY DEF tie_instances, Range, Instance, Sound
  <2>2. \A i \in Range(C) : Sound(i, ym)
    BY DEF clock_instances, Range, Instance, Sound
  <2>3. \A i \in Range(I) : Sound(i, ym)
    BY DEF input_instances, Range, Instance, Sound
  <2>4. \A i \in Range(M) : Sound(i, ym)
    <3> SUFFICES ASSUME NEW k \in DOMAIN ym.cells
                 PROVE  Sound(M[k], ym)
      BY <1>4 DEF Range
    <3>1. M[k].type = ym.cells[k].type /\ ym.cells[k] \in Range(ym.cells)
      BY DEF module_instances, Instance, Range
    <3> HIDE DEF M
    <3> QED
      BY <3>1 DEF Sound
  <2> QED
    BY <2>1, <2>2, <2>3, <2>4
<1>6. Instances(mods, ym) = tie_instances \o C \o I \o M
  BY DEF Instances
<1> HIDE DEF C, I, M, Out
<1>7. Instances(mods, ym) \in Seq(Out)
  BY <1>1, <1>2, <1>3, <1>4, <1>6
<1>8. \A k \in DOMAIN Instances(mods, ym) : Instances(mods, ym)[k] \in Out
  BY <1>7
<1>9. Out = FourKinds(mods, ym)
  BY DEF Out, C, I, M, FourKinds
<1> QED
  BY <1>5, <1>7, <1>8, <1>9

(* What the construction of a module is made of, the list of modules that  *)
(* it takes its interfaces from apart.                                     *)
SinksFrom(ins, insts, w) ==
    FlattenSeq([i \in DOMAIN insts |->
        LET on == Positions(ins[i], LAMBDA c : insts[i].con[c] = w)
        IN  [k \in DOMAIN on |-> <<i, on[k]>>]])
DriversFrom(outs, insts, w) ==
    {d \in UNION {{<<i, o>> : o \in DOMAIN outs[i]} : i \in DOMAIN insts} :
        insts[d[1]].con[outs[d[1]][d[2]]] = w}
DriverErrorFrom(from) ==
    FirstError(<<Check(\E w \in DOMAIN from : Cardinality(from[w]) > 1, "two_drivers"),
                 Check(\E w \in DOMAIN from : from[w] = {}, "no_driver")>>)
DagFrom(edges, insts) == FlattenSeq(FlattenSeq([i \in DOMAIN insts |-> edges[i]]))
EdgesOf(mods, i) ==
    LET outs == output_ports(mods, i)
    IN  [o \in DOMAIN outs |->
            LET deps == comb_deps(mods, i, outs[o])
            IN  [d \in DOMAIN deps |-> <<i.con[deps[d]], i.con[outs[o]]>>]]
WireFrom(mods, i, o) == {i.con[c] : c \in Range(comb_deps(mods, i, output_ports(mods, i)[o]))}
DepsFrom(insts, wires, source, from) ==
    LET deps == comb_depsets(insts, source, from)
    IN  [w \in wires |-> Increasing(deps[w])]

ModuleFrom(ym, clock, clocks, cells, insts, driver, source, sinks, dag, deps) ==
    LET bits == ports(ym, clock)
        ins == filter_ports(ym, bits, "input")
        outs == filter_ports(ym, bits, "output")
        shape == [ports |-> bits, inputs |-> ins, outputs |-> outs, clock |-> clock_name(ym, clock)]
        mod == [ports |-> bits, clock |-> shape.clock, inputs |-> ins, outputs |-> outs,
                instances |-> insts, gadget |-> <<>>,
                connection_wires |-> [c \in DOMAIN bits |-> BitWire(ym, bits[c])],
                source |-> source, sinks |-> sinks, dag |-> dag, comb_input_deps |-> deps]
        error == FirstError(<<
            Check(\E i \in Range(cells) : Unsupported \in Range(i.con), "unsupported_wire"),
            Check(Unsupported \in clocks, "panic_clock"),
            Check(Cardinality(clocks) > 1, "several_clocks"),
            Check(\E b \in Range(bits) : ym.ports[b[1]].dir = "inout", "inout"),
            Check(\E b \in Range(bits) : BitWire(ym, b) = Unsupported, "unsupported_wire")>>)
        gadget == PipelineError(ym, shape)
    IN  IF error # None THEN Fail(error)
        ELSE IF driver # None THEN Fail(driver)
        ELSE IF gadget # None THEN Fail(gadget)
        ELSE IF HasLoop(Range(dag)) THEN Fail("loop")
        ELSE IF ~IsPipeline(ym) THEN Done(mod)
        ELSE LET g == PipelineGadget(ym, shape)
             IN  Done([update_pipeline_gadget_deps(mod, g) EXCEPT !.gadget = <<g>>])

SourceOf(mods, insts, ym) == [w \in WiresOf(ym) |-> CHOOSE d \in drivers(mods, insts, w) : TRUE]
SinksOf(mods, insts, ym) == [w \in WiresOf(ym) |-> wires_sinks(mods, insts, w)]

(* BuildModule, in terms of what it computes on the way.                   *)
LEMMA ModuleIsFrom ==
    ASSUME NEW mods, NEW ym
    PROVE  LET insts == Instances(mods, ym)
               source == SourceOf(mods, insts, ym)
           IN  BuildModule(mods, ym)
                 = ModuleFrom(ym, module_clock_wire(mods, ym), ClockWires(mods, ym),
                              module_instances(mods, ym), insts,
                              DriverError(mods, insts, WiresOf(ym)),
                              source, SinksOf(mods, insts, ym), comb_wire_dag(mods, insts),
                              comb_input_deps(mods, insts, WiresOf(ym), source))
BY DEF BuildModule, ModuleFrom, SourceOf, SinksOf

(* A module is built from the interfaces of what it instantiates, and no   *)
(* other module.                                                           *)
LEMMA BuildIsLocal ==
    ASSUME NEW mods1, NEW mods2, NEW ym, WellFormed(ym), ym.cells \in Seq(Range(ym.cells)),
           \A c \in Range(ym.cells) : is_gate(c.type) \/ mods1[c.type] = mods2[c.type]
    PROVE  BuildModule(mods1, ym) = BuildModule(mods2, ym)
<1> DEFINE insts == Instances(mods1, ym)
<1>1. \A c \in Range(ym.cells) : Interface(mods1, c.type) = Interface(mods2, c.type)
  BY DEF Interface
<1>2. ClockWires(mods1, ym) = ClockWires(mods2, ym)
  <2>1. \A c \in Range(ym.cells) : clock_connection(mods1, c) = clock_connection(mods2, c)
    BY <1>1 DEF clock_connection
  <2> QED
    BY <2>1 DEF ClockWires
<1>3. module_clock_wire(mods1, ym) = module_clock_wire(mods2, ym)
  BY <1>2 DEF module_clock_wire
<1>4. module_instances(mods1, ym) = module_instances(mods2, ym)
  <2>1. \A c \in DOMAIN ym.cells :
           Interface(mods1, ym.cells[c].type) = Interface(mods2, ym.cells[c].type)
    BY <1>1 DEF Range
  <2> QED
    BY <2>1 DEF module_instances
<1>5. Instances(mods2, ym) = insts
  BY <1>3, <1>4 DEF Instances
<1>6. ASSUME NEW i, Sound(i, ym)
      PROVE  /\ output_ports(mods1, i) = output_ports(mods2, i)
             /\ input_ports(mods1, i) = input_ports(mods2, i)
             /\ \A con : comb_deps(mods1, i, con) = comb_deps(mods2, i, con)
  <2>1. CASE i.kind = "cell"
    <3>1. PICK c \in Range(ym.cells) : i.type = c.type
      BY <1>6, <2>1 DEF Sound
    <3>2. Interface(mods1, i.type) = Interface(mods2, i.type)
      BY <1>1, <3>1
    <3>3. is_gate(i.type) \/ mods1[i.type] = mods2[i.type]
      BY <3>1
    <3>4. \A con : comb_deps(mods1, i, con) = comb_deps(mods2, i, con)
      <4>1. CASE is_gate(i.type)
        BY <4>1 DEF comb_deps
      <4>2. CASE ~is_gate(i.type)
        BY <3>3, <4>2 DEF comb_deps
      <4> QED
        BY <4>1, <4>2
    <3> QED
      BY <2>1, <3>2, <3>4 DEF output_ports, input_ports
  <2>2. CASE i.kind # "cell"
    BY <2>2 DEF output_ports, input_ports, comb_deps
  <2> QED
    BY <2>1, <2>2
<1>7. ASSUME NEW k \in DOMAIN insts
      PROVE  /\ output_ports(mods1, insts[k]) = output_ports(mods2, insts[k])
             /\ input_ports(mods1, insts[k]) = input_ports(mods2, insts[k])
             /\ \A con : comb_deps(mods1, insts[k], con) = comb_deps(mods2, insts[k], con)
  BY <1>6, InstancesAre
<1> HIDE DEF insts
<1>8. \A w : drivers(mods1, insts, w) = drivers(mods2, insts, w)
  <2> SUFFICES ASSUME NEW w
               PROVE  drivers(mods1, insts, w) = drivers(mods2, insts, w)
    OBVIOUS
  <2> DEFINE outs(m) == [i \in DOMAIN insts |-> output_ports(m, insts[i])]
  <2>1. outs(mods1) = outs(mods2)
    BY <1>7
  <2>2. ASSUME NEW m
        PROVE  drivers(m, insts, w) = DriversFrom(outs(m), insts, w)
    <3>1. \A i \in DOMAIN insts : outs(m)[i] = output_ports(m, insts[i])
      OBVIOUS
    <3> HIDE DEF outs
    <3>2. ASSUME NEW d
          PROVE  d \in drivers(m, insts, w) <=> d \in DriversFrom(outs(m), insts, w)
      BY <3>1 DEF drivers, DriversFrom
    <3>3. drivers(m, insts, w) \subseteq DriversFrom(outs(m), insts, w)
      BY <3>2
    <3>4. DriversFrom(outs(m), insts, w) \subseteq drivers(m, insts, w)
      BY <3>2
    <3> QED
      BY <3>3, <3>4
  <2> HIDE DEF outs
  <2> QED
    BY <2>1, <2>2
<1>9. DriverError(mods1, insts, WiresOf(ym)) = DriverError(mods2, insts, WiresOf(ym))
  <2> DEFINE from(m) == [w \in WiresOf(ym) |-> drivers(m, insts, w)]
  <2>1. from(mods1) = from(mods2)
    BY <1>8
  <2>2. ASSUME NEW m
        PROVE  DriverError(m, insts, WiresOf(ym)) = DriverErrorFrom(from(m))
    <3>1. DOMAIN from(m) = WiresOf(ym) /\ \A w \in WiresOf(ym) : from(m)[w] = drivers(m, insts, w)
      OBVIOUS
    <3> HIDE DEF from
    <3>2. /\ (\E w \in WiresOf(ym) : Cardinality(drivers(m, insts, w)) > 1)
                = (\E w \in DOMAIN from(m) : Cardinality(from(m)[w]) > 1)
          /\ (\E w \in WiresOf(ym) : drivers(m, insts, w) = {})
                = (\E w \in DOMAIN from(m) : from(m)[w] = {})
      BY <3>1
    <3> QED
      BY <3>2 DEF DriverError, DriverErrorFrom
  <2> HIDE DEF from
  <2> QED
    BY <2>1, <2>2
<1>10. SourceOf(mods1, insts, ym) = SourceOf(mods2, insts, ym)
  BY <1>8 DEF SourceOf
<1>11. SinksOf(mods1, insts, ym) = SinksOf(mods2, insts, ym)
  <2> DEFINE ins(m) == [i \in DOMAIN insts |-> input_ports(m, insts[i])]
  <2>1. ins(mods1) = ins(mods2)
    BY <1>7
  <2>2. ASSUME NEW m, NEW w
        PROVE  wires_sinks(m, insts, w) = SinksFrom(ins(m), insts, w)
    BY DEF wires_sinks, SinksFrom
  <2> HIDE DEF ins
  <2>3. \A w : wires_sinks(mods1, insts, w) = wires_sinks(mods2, insts, w)
    BY <2>1, <2>2
  <2> QED
    BY <2>3 DEF SinksOf
<1>12. comb_wire_dag(mods1, insts) = comb_wire_dag(mods2, insts)
  <2> DEFINE edges(m) == [i \in DOMAIN insts |-> EdgesOf(m, insts[i])]
  <2>1. \A k \in DOMAIN insts : EdgesOf(mods1, insts[k]) = EdgesOf(mods2, insts[k])
    BY <1>7 DEF EdgesOf
  <2>2. edges(mods1) = edges(mods2)
    BY <2>1
  <2>3. ASSUME NEW m
        PROVE  comb_wire_dag(m, insts) = DagFrom(edges(m), insts)
    BY DEF comb_wire_dag, DagFrom, EdgesOf
  <2> HIDE DEF edges
  <2> QED
    BY <2>2, <2>3
<1> DEFINE source == SourceOf(mods1, insts, ym)
           deps(m) == comb_input_deps(m, insts, WiresOf(ym), source)
<1>13. DriverError(mods1, insts, WiresOf(ym)) = None => deps(mods1) = deps(mods2)
  <2> SUFFICES ASSUME DriverError(mods1, insts, WiresOf(ym)) = None
               PROVE  deps(mods1) = deps(mods2)
    OBVIOUS
  <2>1. \A w \in WiresOf(ym) : source[w][1] \in DOMAIN insts
    <3>1. \A w \in WiresOf(ym) : drivers(mods1, insts, w) # {}
      <4> DEFINE checks == <<
             Check(\E w \in WiresOf(ym) : Cardinality(drivers(mods1, insts, w)) > 1, "two_drivers"),
             Check(\E w \in WiresOf(ym) : drivers(mods1, insts, w) = {}, "no_driver")>>
      <4>1. FirstError(checks) = None
        BY DEF DriverError
      <4>2. DOMAIN checks = 1..2 /\ \A i \in 1..2 : checks[i].bad => checks[i].error # None
        BY DEF Check, None
      <4>3. \A i \in 1..2 : ~checks[i].bad
        <5> HIDE DEF checks
        <5>1. 2 \in Nat
          OBVIOUS
        <5> QED
          BY <4>1, <4>2, <5>1, NoFirstError
      <4>4. ~checks[2].bad
        <5> HIDE DEF checks
        <5>1. 2 \in 1..2
          OBVIOUS
        <5> QED
          BY <4>3, <5>1
      <4> QED
        BY <4>4 DEF Check
    <3>2. ASSUME NEW w \in WiresOf(ym)
          PROVE  source[w] \in drivers(mods1, insts, w)
      BY <3>1 DEF SourceOf
    <3>3. ASSUME NEW w \in WiresOf(ym), NEW d \in drivers(mods1, insts, w)
          PROVE  d[1] \in DOMAIN insts
      BY DEF drivers
    <3> HIDE DEF source
    <3> QED
      BY <3>2, <3>3
  <2> DEFINE from(m) == [w \in WiresOf(ym) |-> WireFrom(m, insts[source[w][1]], source[w][2])]
  <2>2. ASSUME NEW k \in DOMAIN insts, NEW o
        PROVE  WireFrom(mods1, insts[k], o) = WireFrom(mods2, insts[k], o)
    BY <1>7 DEF WireFrom
  <2> HIDE DEF source
  <2>3. from(mods1) = from(mods2)
    BY <2>1, <2>2
  <2>4. ASSUME NEW m
        PROVE  comb_input_deps(m, insts, WiresOf(ym), source)
                 = DepsFrom(insts, WiresOf(ym), source, from(m))
    BY DEF comb_input_deps, DepsFrom, WireFrom
  <2> HIDE DEF from
  <2> QED
    BY <2>3, <2>4
<1> HIDE DEF source, deps
<1>14. \A m \in {mods1, mods2} : BuildModule(m, ym)
          = ModuleFrom(ym, module_clock_wire(mods1, ym), ClockWires(mods1, ym),
                       module_instances(mods1, ym), insts,
                       DriverError(mods1, insts, WiresOf(ym)), source,
                       SinksOf(mods1, insts, ym), comb_wire_dag(mods1, insts), deps(m))
  BY <1>2, <1>3, <1>4, <1>5, <1>9, <1>10, <1>11, <1>12, ModuleIsFrom DEF insts, source, deps
<1>15. CASE DriverError(mods1, insts, WiresOf(ym)) = None
  BY <1>13, <1>14, <1>15
<1>16. CASE DriverError(mods1, insts, WiresOf(ym)) # None
  <2>1. \A deps1, deps2 :
          ModuleFrom(ym, module_clock_wire(mods1, ym), ClockWires(mods1, ym),
                     module_instances(mods1, ym), insts,
                     DriverError(mods1, insts, WiresOf(ym)), source,
                     SinksOf(mods1, insts, ym), comb_wire_dag(mods1, insts), deps1)
          = ModuleFrom(ym, module_clock_wire(mods1, ym), ClockWires(mods1, ym),
                     module_instances(mods1, ym), insts,
                     DriverError(mods1, insts, WiresOf(ym)), source,
                     SinksOf(mods1, insts, ym), comb_wire_dag(mods1, insts), deps2)
    BY <1>16 DEF ModuleFrom
  <2> QED
    BY <1>14, <2>1
<1> QED
  BY <1>15, <1>16

(* What Module::from_yosys has checked of a module that is built.          *)
(* A module that is refused for a loop has passed the first checks.        *)
LEMMA BuiltChecks ==
    ASSUME NEW mods, NEW ym, BuildModule(mods, ym).error \in {None, "loop"}
    PROVE  /\ \A i \in Range(module_instances(mods, ym)) : Unsupported \notin Range(i.con)
           /\ Unsupported \notin ClockWires(mods, ym)
           /\ ~(Cardinality(ClockWires(mods, ym)) > 1)
           /\ \A b \in Range(BitsOf(mods, ym)) :
                 ym.ports[b[1]].dir # "inout" /\ BitWire(ym, b) # Unsupported
<1> DEFINE bits == ports(ym, module_clock_wire(mods, ym))
           checks == <<
            Check(\E i \in Range(module_instances(mods, ym)) : Unsupported \in Range(i.con),
                  "unsupported_wire"),
            Check(Unsupported \in ClockWires(mods, ym), "panic_clock"),
            Check(Cardinality(ClockWires(mods, ym)) > 1, "several_clocks"),
            Check(\E b \in Range(bits) : ym.ports[b[1]].dir = "inout", "inout"),
            Check(\E b \in Range(bits) : BitWire(ym, b) = Unsupported, "unsupported_wire")>>
<1>2. DOMAIN checks = 1..5 /\ \A i \in 1..5 : checks[i].bad => checks[i].error # None
  BY DEF Check, None
<1>1. FirstError(checks) = None
  <2>1. \A i \in 1..5 : checks[i].error # "loop"
    BY DEF Check
  <2>2. FirstError(checks) # None => BuildModule(mods, ym).error = FirstError(checks)
    BY DEF BuildModule, Fail
  <2> HIDE DEF checks
  <2>3. FirstError(checks) # "loop"
    <3>1. 5 \in Nat /\ "loop" # None
      BY DEF None
    <3> QED
      BY <1>2, <2>1, <3>1, NoOtherError
  <2> QED
    BY <2>2, <2>3
<1>3. /\ checks[1].bad = (\E i \in Range(module_instances(mods, ym)) : Unsupported \in Range(i.con))
      /\ checks[2].bad = (Unsupported \in ClockWires(mods, ym))
      /\ checks[3].bad = (Cardinality(ClockWires(mods, ym)) > 1)
      /\ checks[4].bad = (\E b \in Range(bits) : ym.ports[b[1]].dir = "inout")
      /\ checks[5].bad = (\E b \in Range(bits) : BitWire(ym, b) = Unsupported)
  BY DEF Check
<1>4. bits = BitsOf(mods, ym)
  BY DEF BitsOf
<1>5. ~checks[1].bad /\ ~checks[2].bad /\ ~checks[3].bad /\ ~checks[4].bad /\ ~checks[5].bad
  <2> HIDE DEF checks
  <2>1. 5 \in Nat /\ 1 \in 1..5 /\ 2 \in 1..5 /\ 3 \in 1..5 /\ 4 \in 1..5 /\ 5 \in 1..5
    OBVIOUS
  <2>2. \A i \in 1..5 : ~checks[i].bad
    BY <1>1, <1>2, <2>1, NoFirstError
  <2> QED
    BY <2>1, <2>2
<1> HIDE DEF checks, bits
<1> QED
  BY <1>3, <1>4, <1>5

(* A module has at most one clock wire.                                    *)
LEMMA OneClockWire ==
    ASSUME NEW mods, NEW ym, ym.cells \in Seq(Range(ym.cells)),
           BuildModule(mods, ym).error \in {None, "loop"}
    PROVE  \A w1, w2 \in ClockWires(mods, ym) : w1 = w2
<1> DEFINE pins(k) == clock_connection(mods, ym.cells[k])
           all == {clock_connection(mods, c) : c \in Range(ym.cells)}
<1>1. PICK n \in Nat : DOMAIN ym.cells = 1..n
  OBVIOUS
<1>2. IsFiniteSet(all)
  <2> DEFINE f == [k \in 1..n |-> pins(k)]
  <2>1. IsFiniteSet(1..n)
    BY FS_Interval
  <2>2. IsFiniteSet({f[k] : k \in 1..n})
    <3> HIDE DEF f
    <3> QED
      BY <2>1, FiniteImage
  <2>3. all \subseteq {f[k] : k \in 1..n}
    BY <1>1 DEF Range
  <2> HIDE DEF f, all
  <2> QED
    BY <2>2, <2>3, FS_Subset
<1>3. \A T \in all : IsFiniteSet(T)
  <2> SUFFICES ASSUME NEW c \in Range(ym.cells)
               PROVE  IsFiniteSet(clock_connection(mods, c))
    OBVIOUS
  <2>1. \A x : IsFiniteSet({x})
    BY FS_Singleton
  <2>2. IsFiniteSet({})
    BY FS_EmptySet
  <2> QED
    BY <2>1, <2>2 DEF clock_connection, ClockPin
<1>4. IsFiniteSet(ClockWires(mods, ym))
  <2>1. ClockWires(mods, ym) = UNION all
    BY DEF ClockWires
  <2> HIDE DEF all
  <2> QED
    BY <1>2, <1>3, <2>1, FS_UNION
<1>5. ~(Cardinality(ClockWires(mods, ym)) > 1)
  BY BuiltChecks
<1> SUFFICES ASSUME NEW w1 \in ClockWires(mods, ym), NEW w2 \in ClockWires(mods, ym), w1 # w2
             PROVE  FALSE
  OBVIOUS
<1>6. Cardinality(ClockWires(mods, ym)) >= 2 /\ Cardinality(ClockWires(mods, ym)) \in Nat
  BY <1>4, AtLeast
<1> QED
  BY <1>5, <1>6

-----------------------------------------------------------------------------
(* Every module that is built is what BuildModule makes of it from those   *)
(* that are built, and the top-level gadget that of a module that is.      *)
Exact ==
    /\ design \in Designs
    /\ \A m \in DOMAIN built :
          /\ m \in Names /\ Submodules(m) \subseteq DOMAIN built
          /\ BuildModule(built, YM(m)).error = None
          /\ built[m] = BuildModule(built, YM(m)).value
    /\ phase = "ready" =>
          /\ design.top \in DOMAIN built
          /\ TopError(YM(design.top), built[design.top]) = None
          /\ top_gadget = <<TopGadget(YM(design.top), built[design.top])>>

(* What the assumption on the designs says of a module.                    *)
LEMMA ModulesAreWellFormed ==
    ASSUME design \in Designs, NEW m \in Names
    PROVE  WellFormed(YM(m)) /\ YM(m).cells \in Seq(Range(YM(m).cells))
BY DesignsAssumption DEF Names, YM, WellFormed

(* Building one more module leaves the others what they are.               *)
LEMMA ExactStep ==
    ASSUME Exact, [BuildNext]_buildVars
    PROVE  Exact'
<1>1. ASSUME UNCHANGED <<design, built>>, phase' # "ready" \/ UNCHANGED <<phase, top_gadget>>
      PROVE  Exact'
  <2>1. \A m : YM(m)' = YM(m) /\ Submodules(m)' = Submodules(m)
    BY <1>1 DEF YM, Submodules, Cells
  <2>2. Names' = Names
    BY <1>1 DEF Names
  <2> QED
    BY <1>1, <2>1, <2>2 DEF Exact
<1>2. CASE SortModules
  BY <1>1, <1>2 DEF SortModules, FailWith
<1>3. ASSUME NEW m \in Names, AddModule(m)
      PROVE  Exact'
  <2>1. CASE BuildModule(built, YM(m)).error # None
    BY <1>1, <1>3, <2>1 DEF AddModule, FailWith
  <2>2. CASE BuildModule(built, YM(m)).error = None
    <3> DEFINE res == BuildModule(built, YM(m))
    <3>1. /\ design' = design /\ phase' # "ready" /\ Submodules(m) \subseteq DOMAIN built
          /\ m \notin DOMAIN built
          /\ built' = [k \in DOMAIN built \cup {m} |-> IF k = m THEN res.value ELSE built[k]]
      BY <1>3, <2>2 DEF AddModule
    <3>2. DOMAIN built' = DOMAIN built \cup {m} /\ built'[m] = res.value
      BY <3>1
    <3>3. \A k \in DOMAIN built : built'[k] = built[k]
      BY <3>1
    <3>4. \A k : YM(k)' = YM(k) /\ Submodules(k)' = Submodules(k)
      BY <3>1 DEF YM, Submodules, Cells
    <3>5. Names' = Names
      BY <3>1 DEF Names
    <3>6. ASSUME NEW k \in Names, Submodules(k) \subseteq DOMAIN built
          PROVE  BuildModule(built', YM(k)) = BuildModule(built, YM(k))
      <4>1. \A c \in Range(YM(k).cells) : is_gate(c.type) \/ built'[c.type] = built[c.type]
        BY <3>3, <3>6 DEF Submodules, Cells
      <4>2. WellFormed(YM(k)) /\ YM(k).cells \in Seq(Range(YM(k).cells))
        BY ModulesAreWellFormed DEF Exact
      <4> QED
        BY <4>1, <4>2, BuildIsLocal
    <3>7. ASSUME NEW k \in DOMAIN built'
          PROVE  /\ k \in Names /\ Submodules(k) \subseteq DOMAIN built'
                 /\ BuildModule(built', YM(k)).error = None
                 /\ built'[k] = BuildModule(built', YM(k)).value
      <4>1. CASE k = m
        BY <1>3, <2>2, <3>1, <3>2, <3>6, <4>1
      <4>2. CASE k # m
        <5>1. k \in DOMAIN built
          BY <3>2, <4>2
        <5>2. /\ k \in Names /\ Submodules(k) \subseteq DOMAIN built
              /\ BuildModule(built, YM(k)).error = None
              /\ built[k] = BuildModule(built, YM(k)).value
          BY <5>1 DEF Exact
        <5> QED
          BY <3>2, <3>3, <3>6, <5>1, <5>2
      <4> QED
        BY <4>1, <4>2
    <3>8. design' \in Designs
      BY <3>1 DEF Exact
    <3> QED
      BY <3>1, <3>4, <3>5, <3>7, <3>8 DEF Exact
  <2> QED
    BY <2>1, <2>2
<1>4. CASE SelectTop
  <2>1. CASE phase' # "ready"
    BY <1>1, <1>4, <2>1 DEF SelectTop, FailWith
  <2>2. CASE phase' = "ready"
    <3>1. /\ design' = design /\ built' = built
          /\ design.top \in DOMAIN built
          /\ TopError(YM(design.top), built[design.top]) = None
          /\ top_gadget' = <<TopGadget(YM(design.top), built[design.top])>>
      BY <1>4, <2>2 DEF SelectTop, FailWith
    <3>2. \A m : YM(m)' = YM(m) /\ Submodules(m)' = Submodules(m)
      BY <3>1 DEF YM, Submodules, Cells
    <3>3. Names' = Names
      BY <3>1 DEF Names
    <3> QED
      BY <3>1, <3>2, <3>3 DEF Exact
  <2> QED
    BY <2>1, <2>2
<1>5. CASE UNCHANGED buildVars
  BY <1>1, <1>5 DEF buildVars
<1> QED
  BY <1>2, <1>3, <1>4, <1>5 DEF BuildNext

(* The modules that are built are those of the netlist.                    *)
LEMMA ExactInvariant == BuildSpec => []Exact
<1>1. BuildInit => Exact
  BY DEF BuildInit, Exact
<1>2. ASSUME Exact, [BuildNext]_buildVars
      PROVE  Exact'
  BY <1>2, ExactStep
<1> QED
  BY <1>1, <1>2, PTL DEF BuildSpec

(* In every module that is built, each sharing of a gadget has one bit of  *)
(* each of its shares: PortKind::new lets no other width through.          *)
THEOREM SharingsAreComplete == BuildSpec => []SharingsComplete
<1>1. Exact => SharingsComplete
  <2> SUFFICES ASSUME Exact, NEW m \in DOMAIN built, IsGadget(YM(m).attrs),
                      NEW p \in Range(YM(m).ports),
                      p.type \in Dense \cup {"sharings_strided"},
                      NEW j \in 0..(Width(p) \div YM(m).attrs.shares - 1),
                      NEW s \in 0..(YM(m).attrs.shares - 1)
               PROVE  Cardinality({o \in 0..(Width(p) - 1) :
                          /\ share_id(p, o, YM(m).attrs.shares) = s
                          /\ sharing_of(p, o, YM(m).attrs.shares) = j}) = 1
    BY DEF SharingsComplete
  <2>1. design \in Designs /\ m \in Names /\ m \in DOMAIN design.modules
    BY DEF Exact, Names
  <2> DEFINE shape == ShapeOf(built, YM(m))
  <2>5. PipelineError(YM(m), shape) = None
    BY BuiltShape DEF Exact
  <2>6. GadgetBuilderError(YM(m)) = None
    <3> HIDE DEF shape
    <3> QED
      BY <2>5 DEF PipelineError
  <2>2. /\ YM(m).attrs.shares \in {Missing} \cup (Nat \ {0})
        /\ YM(m).ports \in Seq(Range(YM(m).ports))
        /\ p.bits \in Seq(WireBits(YM(m)))
    BY <2>1, DesignsAssumption DEF YM
  <2>3. Width(p) \in Nat
    BY <2>2 DEF Width
  <2>4. YM(m).attrs.shares \in Nat \ {0} /\ Width(p) % YM(m).attrs.shares = 0
    BY <2>2, <2>6, AcceptedGadget
  <2> QED
    BY <2>3, <2>4, SharesOneToOne
<1> QED
  BY <1>1, ExactInvariant, PTL

(* Randomness ports are numbered without gap in the gadgets of every       *)
(* accepted design, whatever its ports: the numbers that con2port gives    *)
(* are the entries of rnd_ports, in a pipeline gadget and in the top one.  *)
THEOREM RandomsAreNumbered == BuildSpec => []RandomsNumbered
<1>1. ASSUME Exact
      PROVE  RandomsNumbered
  <2>1. ASSUME NEW m \in DOMAIN built, built[m].gadget # <<>>
        PROVE  Numbered(built[m].gadget[1].rnd_ports, built[m].gadget[1].input_roles)
    <3> DEFINE ym == YM(m)
               shape == ShapeOf(built, ym)
               bits == BitsAt(shape, shape.inputs)
    <3>1. built[m].gadget = <<PipelineGadget(ym, shape)>>
      <4>1. BuildModule(built, ym).error = None /\ built[m] = BuildModule(built, ym).value
        BY <1>1 DEF Exact
      <4> HIDE DEF ym
      <4>2. built[m].gadget = IF IsPipeline(ym) THEN <<PipelineGadget(ym, shape)>> ELSE <<>>
        BY <4>1, BuiltShape
      <4> HIDE DEF shape
      <4> QED
        BY <2>1, <4>2
    <3>2. built[m].gadget[1].input_roles = Roles(ym, bits)
      BY <3>1 DEF PipelineGadget
    <3>3. built[m].gadget[1].rnd_ports = RandomInputs(Roles(ym, bits))
      BY <3>1 DEF PipelineGadget
    <3>4. WellFormed(ym)
      BY <1>1, ModulesAreWellFormed DEF Exact
    <3>5. PICK n \in Nat : /\ DOMAIN BitsOf(built, ym) = 1..n
                           /\ shape.inputs = Increasing(InputBits(ym, BitsOf(built, ym)))
      BY <3>4, ShapeIs
    <3>6. shape.ports = BitsOf(built, ym)
      BY DEF ShapeOf
    <3> HIDE DEF shape
    <3>7. \E q \in Nat : DOMAIN bits = 1..q
      <4> DEFINE I == InputBits(ym, BitsOf(built, ym))
      <4>1. I \subseteq 1..n /\ I \in SUBSET Int
        BY <3>5 DEF InputBits
      <4>2. IsFiniteSet(I)
        <5>1. IsFiniteSet(1..n)
          BY FS_Interval
        <5> QED
          BY <4>1, <5>1, FS_Subset
      <4> HIDE DEF I
      <4>3. Cardinality(I) \in Nat /\ DOMAIN Increasing(I) = 1..Cardinality(I)
        BY <4>1, <4>2, IncreasingIs
      <4>4. DOMAIN bits = DOMAIN shape.inputs
        BY DEF BitsAt, Pick
      <4> HIDE DEF bits
      <4> QED
        BY <3>5, <4>3, <4>4 DEF I
    <3> HIDE DEF bits, ym
    <3> QED
      BY <3>2, <3>3, <3>7, ListedAreNumbered
  <2>2. ASSUME phase = "ready"
        PROVE  LET ins == built[design.top].inputs
               IN  Numbered(top_gadget[1].rnd_ports,
                            [i \in DOMAIN ins |-> top_gadget[1].port_roles[ins[i]]])
    <3> DEFINE t == design.top
               ym == YM(t)
               mod == built[t]
               bits == BitsOf(built, ym)
    <3>1. /\ t \in DOMAIN built /\ TopError(ym, mod) = None /\ top_gadget = <<TopGadget(ym, mod)>>
          /\ t \in Names /\ BuildModule(built, ym).error = None
          /\ mod = BuildModule(built, ym).value
      BY <1>1, <2>2 DEF Exact
    <3>2. WellFormed(ym)
      BY <1>1, <3>1, ModulesAreWellFormed DEF Exact
    <3>3. mod.ports = bits /\ mod.inputs = ShapeOf(built, ym).inputs
      BY <3>1, BuiltShape DEF ShapeOf
    <3>4. PICK n \in Nat : /\ DOMAIN bits = 1..n
                           /\ mod.inputs = Increasing(InputBits(ym, bits))
      BY <3>2, <3>3, ShapeIs
    <3>5. /\ top_gadget[1].port_roles = Roles(ym, bits)
          /\ top_gadget[1].rnd_ports = TopRndPorts(Roles(ym, bits), mod.inputs)
      BY <3>1, <3>3 DEF TopGadget
    <3> HIDE DEF ym, mod, bits
    <3>6. RandomBits(ym, bits) \subseteq InputBits(ym, bits)
      BY <3>1, <3>3, <3>4, RandomsAreInputs
    <3>7. LET roles == Roles(ym, bits)
              ins == Increasing(InputBits(ym, bits))
          IN  Numbered(TopRndPorts(roles, ins), [i \in DOMAIN ins |-> roles[ins[i]]])
      BY <3>4, <3>6, TopAreNumbered
    <3> QED
      BY <3>4, <3>5, <3>7 DEF mod
  <2> QED
    BY <2>1, <2>2 DEF RandomsNumbered, Numbered
<1> QED
  BY <1>1, ExactInvariant, PTL

-----------------------------------------------------------------------------
(* Graphs.                                                                 *)

Inside(edges, X) == {e[2] : e \in {e \in edges : e[1] \in X /\ e[2] \in X}}

(* What is left of a graph when it is peeled: no loop when nothing is.     *)
Inner(edges) ==
    CHOOSE f : f = [k \in Nat |-> IF k = 0 THEN {e[2] : e \in edges} ELSE Inside(edges, f[k - 1])]

(* The steps of HasLoop: each keeps what comes after the last one.         *)
LEMMA InnerIs ==
    ASSUME NEW edges
    PROVE  /\ HasLoop(edges) <=> Inner(edges)[Cardinality(edges)] # {}
           /\ Inner(edges)[0] = {e[2] : e \in edges}
           /\ \A k \in Nat : k # 0 => Inner(edges)[k] = Inside(edges, Inner(edges)[k - 1])
<1> DEFINE ends == {e[2] : e \in edges}
           Shrinks(f) == f = [k \in Nat |-> IF k = 0 THEN ends ELSE Inside(edges, f[k - 1])]
           inner == CHOOSE f : Shrinks(f)
           A == SUBSET ends
           step == [p \in Nat \X A |-> Inside(edges, p[2])]
<1>1. HasLoop(edges) <=> inner[Cardinality(edges)] # {}
  BY DEF HasLoop, Inside
<1>2. inner = Inner(edges)
  BY DEF Inner
<1>3. step \in [Nat \X A -> A]
  <2>1. \A X \in A : Inside(edges, X) \in A
    BY DEF Inside
  <2>2. \A p \in Nat \X A : Inside(edges, p[2]) \in A
    <3> HIDE DEF A
    <3> QED
      BY <2>1
  <2> HIDE DEF A
  <2> QED
    BY <2>2
<1>4. ends \in A
  OBVIOUS
<1>5. PICK g : Iterates(g, A, ends, step)
  <2> HIDE DEF A, step, ends
  <2> QED
    BY <1>3, <1>4, RecursionExists
<1>6. g \in [Nat -> A] /\ g[0] = ends
  BY <1>5 DEF Iterates
<1>7. ASSUME NEW k \in Nat
      PROVE  g[k] = IF k = 0 THEN ends ELSE Inside(edges, g[k - 1])
  <2>1. CASE k = 0
    BY <1>6, <2>1
  <2>2. CASE k # 0
    <3>1. k - 1 \in Nat /\ (k - 1) + 1 = k
      BY <2>2
    <3>2. g[k] = step[<<k, g[k - 1]>>]
      <4> HIDE DEF step, A, ends
      <4> QED
        BY <1>5, <3>1 DEF Iterates
    <3>3. <<k, g[k - 1]>> \in Nat \X A
      <4> HIDE DEF A
      <4> QED
        BY <1>6, <3>1
    <3>4. step[<<k, g[k - 1]>>] = Inside(edges, g[k - 1])
      <4> HIDE DEF A
      <4> QED
        BY <3>3
    <3> QED
      BY <2>2, <3>2, <3>4
  <2> QED
    BY <2>1, <2>2
<1>8. Shrinks(g)
  <2>1. g = [k \in Nat |-> g[k]]
    <3> HIDE DEF A
    <3> QED
      BY <1>6
  <2> HIDE DEF A, step, ends
  <2> QED
    BY <1>7, <2>1
<1>9. Shrinks(inner)
  <2> HIDE DEF Shrinks
  <2> QED
    BY <1>8
<1>10. /\ inner[0] = ends
       /\ \A k \in Nat : k # 0 => inner[k] = Inside(edges, inner[k - 1])
  <2> HIDE DEF inner, ends
  <2> QED
    BY <1>9
<1> QED
  BY <1>1, <1>2, <1>10

(* A graph without a loop has its edges going up.                          *)
LEMMA LoopFreeRanks ==
    ASSUME NEW W, NEW edges \in SUBSET (W \X W), IsFiniteSet(edges), ~HasLoop(edges)
    PROVE  \E r \in [W -> Nat] : \A e \in edges : r[e[1]] < r[e[2]]
<1> DEFINE inner == Inner(edges)
           last == Cardinality(edges)
           ends == {e[2] : e \in edges}
<1>1. inner[last] = {}
  BY InnerIs
<1>2. last \in Nat
  BY FS_CardinalityType
<1>10. /\ inner[0] = ends
       /\ \A k \in Nat : k # 0 => inner[k] = Inside(edges, inner[k - 1])
  BY InnerIs
<1> HIDE DEF inner, last
<1> DEFINE out(w) == {k \in Nat : w \notin inner[k]}
           r == [w \in W |-> Min(out(w))]
<1>11. ASSUME NEW w \in W
       PROVE  /\ r[w] \in Nat /\ w \notin inner[r[w]]
              /\ \A k \in Nat : k < r[w] => w \in inner[k]
  <2>1. out(w) \subseteq Nat /\ out(w) # {}
    BY <1>1, <1>2
  <2>2. \E x \in out(w) : \A y \in out(w) : x <= y
    <3> HIDE DEF out
    <3> QED
      BY <2>1, LeastIndex
  <2>3. Min(out(w)) \in out(w) /\ \A y \in out(w) : Min(out(w)) <= y
    <3> HIDE DEF out
    <3> QED
      BY <2>2 DEF Min
  <2>4. r[w] = Min(out(w))
    OBVIOUS
  <2> HIDE DEF r
  <2>5. r[w] \in Nat /\ w \notin inner[r[w]]
    BY <2>3, <2>4
  <2>6. ASSUME NEW k \in Nat, k < r[w], w \notin inner[k]
        PROVE  FALSE
    <3>1. k \in out(w)
      BY <2>6
    <3>2. r[w] <= k
      <4> HIDE DEF out
      <4> QED
        BY <2>3, <2>4, <3>1
    <3> QED
      BY <2>5, <2>6, <3>2
  <2> QED
    BY <2>5, <2>6
<1>12. r \in [W -> Nat]
  <2>1. \A w \in W : Min(out(w)) \in Nat
    BY <1>11
  <2> HIDE DEF out
  <2> QED
    BY <2>1
<1> HIDE DEF r, out
<1>13. ASSUME NEW e \in edges
       PROVE  r[e[1]] < r[e[2]]
  <2>1. e[1] \in W /\ e[2] \in W
    OBVIOUS
  <2>2. e[2] \in inner[0]
    BY <1>10
  <2>3. r[e[2]] # 0 /\ r[e[2]] \in Nat /\ r[e[2]] - 1 \in Nat
    BY <1>11, <2>1, <2>2
  <2>4. e[2] \notin Inside(edges, inner[r[e[2]] - 1])
    BY <1>10, <1>11, <2>1, <2>3
  <2>5. e[2] \in inner[r[e[2]] - 1]
    BY <1>11, <2>1, <2>3
  <2>6. e[1] \notin inner[r[e[2]] - 1]
    BY <2>4, <2>5 DEF Inside
  <2>7. r[e[1]] \in Nat /\ ~(r[e[2]] - 1 < r[e[1]])
    BY <1>11, <2>1, <2>3, <2>6
  <2> QED
    BY <2>3, <2>7
<1> QED
  BY <1>12, <1>13

(* The sets of inputs that comb_depsets computes along such an order.      *)
DepsNow(insts, source, from, f, w) ==
    IF insts[source[w][1]].kind = "input" THEN {insts[source[w][1]].input}
    ELSE UNION {f[v] : v \in from[w]}

(* Without a loop, what a wire depends on is what its instance makes of    *)
(* the wires before it.                                                    *)
LEMMA DepsetsAre ==
    ASSUME NEW W, NEW from \in [W -> SUBSET W], NEW r \in [W -> Nat], NEW insts, NEW source,
           \A w \in W : \A v \in from[w] : r[v] < r[w]
    PROVE  \A w \in W : comb_depsets(insts, source, from)[w]
                           = DepsNow(insts, source, from, comb_depsets(insts, source, from), w)
<1> DEFINE deps == comb_depsets(insts, source, from)
           now(f, w) == DepsNow(insts, source, from, f, w)
           Z == {insts[source[w][1]].input : w \in W}
           A == [W -> SUBSET Z]
           zero == [w \in W |-> {}]
           step == [p \in Nat \X A |-> [w \in W |-> now(p[2], w)]]
<1>1. ASSUME NEW f \in A, NEW w \in W
      PROVE  now(f, w) \subseteq Z
  <2>1. CASE insts[source[w][1]].kind = "input"
    BY <2>1 DEF DepsNow
  <2>2. CASE insts[source[w][1]].kind # "input"
    <3>1. \A v \in from[w] : f[v] \subseteq Z
      <4> HIDE DEF Z
      <4> QED
        OBVIOUS
    <3> HIDE DEF Z, A
    <3> QED
      BY <2>2, <3>1 DEF DepsNow
  <2> QED
    BY <2>1, <2>2
<1>2. step \in [Nat \X A -> A]
  <2>1. \A f \in A : [w \in W |-> now(f, w)] \in A
    <3> HIDE DEF Z, now
    <3> QED
      BY <1>1
  <2>2. \A p \in Nat \X A : [w \in W |-> now(p[2], w)] \in A
    <3> HIDE DEF A, now
    <3> QED
      BY <2>1
  <2> HIDE DEF A, now
  <2> QED
    BY <2>2
<1>3. zero \in A
  OBVIOUS
<1>4. PICK f : Iterates(f, A, zero, step)
  <2> HIDE DEF A, step, zero
  <2> QED
    BY <1>2, <1>3, RecursionExists
<1>5. ASSUME NEW k \in Nat
      PROVE  f[k] \in A /\ f[k + 1] = [w \in W |-> now(f[k], w)]
  <2>1. f[k] \in A /\ k + 1 \in Nat /\ f[k + 1] = step[<<k + 1, f[k]>>]
    <3> HIDE DEF A, step
    <3> QED
      BY <1>4 DEF Iterates
  <2> HIDE DEF A, now
  <2> QED
    BY <2>1
<1> HIDE DEF A, step, zero, Z
<1> DEFINE Late(w) == \A k \in Nat : k > r[w] => f[k][w] = f[r[w] + 1][w]
           bad == {r[w] : w \in {w \in W : ~Late(w)}}
<1>6. ASSUME NEW w \in W, NEW h1, NEW h2, \A v \in from[w] : h1[v] = h2[v]
      PROVE  now(h1, w) = now(h2, w)
  <2>1. {h1[v] : v \in from[w]} = {h2[v] : v \in from[w]}
    BY <1>6
  <2> QED
    BY <2>1 DEF DepsNow
<1> HIDE DEF now
<1>7. ASSUME bad # {}
      PROVE  FALSE
  <2>1. bad \subseteq Nat
    OBVIOUS
  <2>2. PICK n \in bad : \A y \in bad : n <= y
    <3> HIDE DEF bad
    <3> QED
      BY <1>7, <2>1, LeastIndex
  <2>3. PICK w \in W : ~Late(w) /\ r[w] = n
    <3> HIDE DEF Late
    <3> QED
      BY <2>2
  <2>4. \A v \in from[w] : v \in W /\ r[v] < r[w] /\ Late(v)
    <3>1. \A v \in from[w] : v \in W /\ r[v] < r[w]
      OBVIOUS
    <3>2. \A v \in W : r[v] < n => Late(v)
      <4> SUFFICES ASSUME NEW v \in W, r[v] < n, ~Late(v)
                   PROVE  FALSE
        OBVIOUS
      <4>1. r[v] \in bad
        <5> HIDE DEF Late
        <5> QED
          OBVIOUS
      <4>2. n <= r[v] /\ n \in Nat /\ r[v] \in Nat
        <5> HIDE DEF bad
        <5> QED
          BY <2>1, <2>2, <4>1
      <4> QED
        BY <4>2
    <3> HIDE DEF Late
    <3> QED
      BY <2>3, <3>1, <3>2
  <2>5. ASSUME NEW k \in Nat, k > r[w]
        PROVE  f[k][w] = f[r[w] + 1][w]
    <3>1. k - 1 \in Nat /\ (k - 1) + 1 = k /\ r[w] \in Nat /\ k - 1 >= r[w]
      BY <2>5
    <3>2. f[k][w] = now(f[k - 1], w) /\ f[r[w] + 1][w] = now(f[r[w]], w)
      <4>1. f[k] = [u \in W |-> now(f[k - 1], u)]
        BY <1>5, <3>1
      <4>2. f[r[w] + 1] = [u \in W |-> now(f[r[w]], u)]
        BY <1>5, <3>1
      <4> QED
        BY <4>1, <4>2
    <3>3. \A v \in from[w] : f[k - 1][v] = f[r[w]][v]
      <4> SUFFICES ASSUME NEW v \in from[w]
                   PROVE  f[k - 1][v] = f[r[w]][v]
        OBVIOUS
      <4>1. r[v] \in Nat /\ r[w] > r[v] /\ k - 1 > r[v]
        BY <2>4, <3>1
      <4> QED
        BY <2>4, <3>1, <4>1
    <3> QED
      BY <1>6, <3>2, <3>3
  <2> QED
    BY <2>3, <2>5
<1>8. \A w \in W : Late(w)
  <2> HIDE DEF Late
  <2> QED
    BY <1>7
<1> HIDE DEF bad
<1> DEFINE g == [w \in W |-> f[r[w] + 1][w]]
           Solves(h) == h = [w \in W |-> now(h, w)]
<1>9. Solves(g)
  <2>1. ASSUME NEW w \in W
        PROVE  f[r[w] + 1][w] = now(g, w)
    <3>1. r[w] \in Nat
      OBVIOUS
    <3>2. f[r[w] + 1][w] = now(f[r[w]], w)
      <4>1. f[r[w] + 1] = [u \in W |-> now(f[r[w]], u)]
        BY <1>5, <3>1
      <4> QED
        BY <4>1
    <3>3. \A v \in from[w] : f[r[w]][v] = g[v]
      <4> SUFFICES ASSUME NEW v \in from[w]
                   PROVE  f[r[w]][v] = g[v]
        OBVIOUS
      <4>1. v \in W /\ r[w] > r[v]
        OBVIOUS
      <4>2. Late(v)
        <5> HIDE DEF Late
        <5> QED
          BY <1>8, <4>1
      <4> QED
        BY <3>1, <4>1, <4>2
    <3> HIDE DEF g
    <3> QED
      BY <1>6, <3>2, <3>3
  <2>2. g = [w \in W |-> g[w]] /\ \A w \in W : g[w] = f[r[w] + 1][w]
    OBVIOUS
  <2> HIDE DEF g
  <2> QED
    BY <2>1, <2>2
<1>10. deps = CHOOSE h : Solves(h)
  <2>1. DOMAIN from = W
    OBVIOUS
  <2> QED
    BY <2>1 DEF comb_depsets, now, DepsNow
<1>11. Solves(deps)
  <2> HIDE DEF Solves
  <2> QED
    BY <1>9, <1>10
<1> QED
  BY <1>11 DEF now

-----------------------------------------------------------------------------
(* Types.                                                                  *)

(* The ports of a gate.                                                    *)
LEMMA GatesAre ==
    ASSUME NEW type, is_gate(type)
    PROVE  LET g == GateOf(type)
           IN  \E n \in Nat : /\ g.ports \in [1..n -> Range(g.ports)]
                              /\ g.inputs \in Seq(1..n) /\ g.outputs \in Seq(1..n)
                              /\ g.deps \in Seq(1..n)
                              /\ g.clock \in {NoBit} \cup Range(g.ports)
<1>1. ASSUME NEW k \in {1, 2, 3}
      PROVE  LET g == Comb(k)
             IN  \E n \in Nat : /\ g.ports \in [1..n -> Range(g.ports)]
                                /\ g.inputs \in Seq(1..n) /\ g.outputs \in Seq(1..n)
                                /\ g.deps \in Seq(1..n)
                                /\ g.clock \in {NoBit} \cup Range(g.ports)
  <2> DEFINE g == Comb(k)
             ins == [i \in 1..k |-> i]
             pins == [i \in 1..(k + 1) |-> <<i, 0>>]
  <2>1. k \in Nat /\ k + 1 \in Nat /\ k + 1 \in 1..(k + 1)
    OBVIOUS
  <2>2. ins \in [1..k -> 1..(k + 1)]
    OBVIOUS
  <2>3. ins \in Seq(1..(k + 1))
    <3> HIDE DEF ins
    <3> QED
      BY <2>1, <2>2, FunctionIsSeq
  <2>4. <<k + 1>> \in Seq(1..(k + 1))
    BY <2>1
  <2>5. pins \in [1..(k + 1) -> Range(pins)]
    BY DEF Range
  <2>6. /\ g.ports = pins /\ g.inputs = ins /\ g.outputs = <<k + 1>> /\ g.clock = NoBit
        /\ g.deps = ins
    BY DEF Comb
  <2> HIDE DEF g, ins, pins
  <2> QED
    BY <2>1, <2>3, <2>4, <2>5, <2>6 DEF g
<1>2. LET g == Dff
      IN  \E n \in Nat : /\ g.ports \in [1..n -> Range(g.ports)]
                         /\ g.inputs \in Seq(1..n) /\ g.outputs \in Seq(1..n)
                         /\ g.deps \in Seq(1..n)
                         /\ g.clock \in {NoBit} \cup Range(g.ports)
  <2> DEFINE g == Dff
             pins == <<<<1, 0>>, <<2, 0>>, <<3, 0>>>>
  <2>1. DOMAIN pins = 1..3 /\ pins[1] = <<1, 0>>
    OBVIOUS
  <2>2. pins \in [1..3 -> Range(pins)]
    <3>1. pins = [i \in 1..3 |-> pins[i]]
      OBVIOUS
    <3> HIDE DEF pins
    <3> QED
      BY <2>1, <3>1 DEF Range
  <2>3. <<1, 0>> \in Range(pins)
    <3>1. 1 \in 1..3
      OBVIOUS
    <3> HIDE DEF pins
    <3> QED
      BY <2>1, <3>1 DEF Range
  <2>4. <<1, 2>> \in Seq(1..3)
    OBVIOUS
  <2>5. <<3>> \in Seq(1..3)
    OBVIOUS
  <2>6. <<>> \in Seq(1..3) /\ 3 \in Nat
    OBVIOUS
  <2>7. /\ g.ports = pins /\ g.inputs = <<1, 2>> /\ g.outputs = <<3>> /\ g.clock = <<1, 0>>
        /\ g.deps = <<>>
    BY DEF Dff
  <2> HIDE DEF g, pins
  <2> QED
    BY <2>2, <2>3, <2>4, <2>5, <2>6, <2>7 DEF g
<1>3. GateOf(type) \in {Comb(1), Comb(2), Comb(3), Dff}
  BY DEF is_gate, GateTypes, GateOf
<1>4. CASE GateOf(type) = Dff
  BY <1>2, <1>4
<1>5. CASE \E k \in {1, 2, 3} : GateOf(type) = Comb(k)
  BY <1>1, <1>5
<1> QED
  BY <1>3, <1>4, <1>5

(* What is used of a module where it is instantiated.                      *)
InterfaceTyped(mod, ym) ==
    /\ \E n \in Nat : /\ mod.ports \in [1..n -> Range(AllBits(ym))]
                      /\ mod.inputs \in Seq(1..n) /\ mod.outputs \in Seq(1..n)
                      /\ mod.connection_wires \in [1..n -> WiresOf(ym)]
    /\ mod.clock \in {NoBit} \cup Range(AllBits(ym))
    /\ mod.comb_input_deps \in [WiresOf(ym) -> Seq(DOMAIN mod.inputs)]

(* A cell is connected to all ports of its type, a gate or a module.       *)
Connected(mods, ym, c) ==
    /\ \A b \in Range(Interface(mods, c.type).ports) : CellWire(c, b) \in WireBits(ym)
    /\ Interface(mods, c.type).clock # NoBit => CellWire(c, Interface(mods, c.type).clock) \in WireBits(ym)
    /\ ~is_gate(c.type) => \E sub : InterfaceTyped(mods[c.type], sub)

(* Everything that is looked up from an instance is a connection of it, a  *)
(* wire of its module, or an input of it.                                  *)
InstanceTyped(mods, ym, i) ==
    /\ \E n \in Nat : /\ i.con \in [1..n -> WiresOf(ym)]
                      /\ output_ports(mods, i) \in Seq(1..n) /\ input_ports(mods, i) \in Seq(1..n)
                      /\ \A o \in Range(output_ports(mods, i)) : comb_deps(mods, i, o) \in Seq(1..n)
    /\ i.kind = "input" => i.input \in DOMAIN filter_ports(ym, BitsOf(mods, ym), "input")

(* A sequence picked at positions of it.                                   *)
LEMMA PickTyped ==
    ASSUME NEW S, NEW seq \in Seq(S), NEW at \in Seq(DOMAIN seq)
    PROVE  Pick(seq, at) \in Seq(S) /\ DOMAIN Pick(seq, at) = DOMAIN at
<1>1. PICK n \in Nat : DOMAIN at = 1..n /\ \A k \in 1..n : at[k] \in DOMAIN seq
  OBVIOUS
<1>2. Pick(seq, at) = [k \in 1..n |-> seq[at[k]]]
  BY <1>1 DEF Pick
<1>3. \A k \in 1..n : seq[at[k]] \in S
  BY <1>1
<1>4. [k \in 1..n |-> seq[at[k]]] \in [1..n -> S]
  BY <1>3
<1>5. Pick(seq, at) \in [1..n -> S]
  BY <1>2, <1>4
<1> QED
  BY <1>1, <1>5, FunctionIsSeq

(* The cells.                                                              *)
LEMMA CellTyped ==
    ASSUME NEW mods, NEW ym, NEW c, Connected(mods, ym, c),
           LET i == Instance("cell", c.type, 0,
                             cell_connection_wires(c, Interface(mods, c.type).ports))
           IN  Unsupported \notin Range(i.con)
    PROVE  InstanceTyped(mods, ym, Instance("cell", c.type, 0,
                             cell_connection_wires(c, Interface(mods, c.type).ports)))
<1> DEFINE face == Interface(mods, c.type)
           con == cell_connection_wires(c, face.ports)
           i == Instance("cell", c.type, 0, con)
<1>1. i.kind = "cell" /\ i.type = c.type /\ i.con = con
  BY DEF Instance
<1>2. output_ports(mods, i) = face.outputs /\ input_ports(mods, i) = face.inputs
  BY <1>1 DEF output_ports, input_ports
<1>3. ASSUME NEW n \in Nat, NEW S, face.ports \in [1..n -> S]
      PROVE  con \in [1..n -> WiresOf(ym)]
  <2>1. con = [k \in 1..n |-> CellWire(c, face.ports[k])]
    BY <1>3 DEF cell_connection_wires
  <2>2. \A k \in 1..n : face.ports[k] \in Range(face.ports)
    BY <1>3 DEF Range
  <2>3. \A k \in 1..n : CellWire(c, face.ports[k]) \in WireBits(ym)
    BY <2>2 DEF Connected
  <2>4. \A k \in 1..n : CellWire(c, face.ports[k]) # Unsupported
    <3> HIDE DEF con
    <3>1. DOMAIN con = 1..n /\ \A k \in 1..n : con[k] = CellWire(c, face.ports[k])
      BY <2>1
    <3>2. Unsupported \notin Range(con)
      BY <1>1 DEF con, i
    <3> QED
      BY <3>1, <3>2 DEF Range
  <2> QED
    BY <2>1, <2>3, <2>4 DEF WireBits
<1>4. ASSUME is_gate(c.type)
      PROVE  InstanceTyped(mods, ym, i)
  <2>1. face = GateOf(c.type)
    BY <1>4 DEF Interface
  <2> HIDE DEF face
  <2>2. PICK n \in Nat : /\ face.ports \in [1..n -> Range(face.ports)]
                         /\ face.inputs \in Seq(1..n) /\ face.outputs \in Seq(1..n)
                         /\ face.deps \in Seq(1..n)
    BY <1>4, <2>1, GatesAre
  <2>3. con \in [1..n -> WiresOf(ym)]
    <3> HIDE DEF con
    <3> QED
      BY <1>3, <2>2
  <2>4. \A o : comb_deps(mods, i, o) = face.deps
    BY <1>1, <1>4, <2>1 DEF comb_deps
  <2> HIDE DEF con, i
  <2> QED
    BY <1>1, <1>2, <2>2, <2>3, <2>4 DEF InstanceTyped
<1>5. ASSUME ~is_gate(c.type)
      PROVE  InstanceTyped(mods, ym, i)
  <2>1. face = mods[c.type]
    BY <1>5 DEF Interface
  <2>2. PICK sub : InterfaceTyped(mods[c.type], sub)
    BY <1>5 DEF Connected
  <2> DEFINE mod == mods[c.type]
  <2> HIDE DEF face
  <2>3. PICK n \in Nat : /\ mod.ports \in [1..n -> Range(AllBits(sub))]
                         /\ mod.inputs \in Seq(1..n) /\ mod.outputs \in Seq(1..n)
                         /\ mod.connection_wires \in [1..n -> WiresOf(sub)]
    BY <2>2 DEF InterfaceTyped
  <2>4. mod.comb_input_deps \in [WiresOf(sub) -> Seq(DOMAIN mod.inputs)]
    BY <2>2 DEF InterfaceTyped
  <2>5. con \in [1..n -> WiresOf(ym)]
    <3> HIDE DEF con, mod
    <3> QED
      BY <1>3, <2>1, <2>3 DEF mod
  <2>6. ASSUME NEW o \in Range(mod.outputs)
        PROVE  comb_deps(mods, i, o) \in Seq(1..n)
    <3>1. comb_deps(mods, i, o) = Pick(mod.inputs, mod.comb_input_deps[mod.connection_wires[o]])
      BY <1>1, <1>5 DEF comb_deps
    <3>2. o \in 1..n
      BY <2>3 DEF Range
    <3>3. mod.comb_input_deps[mod.connection_wires[o]] \in Seq(DOMAIN mod.inputs)
      BY <2>3, <2>4, <3>2
    <3> HIDE DEF mod
    <3> QED
      BY <2>3, <3>1, <3>3, PickTyped
  <2> HIDE DEF con, i, mod
  <2> QED
    BY <1>1, <1>2, <2>1, <2>3, <2>5, <2>6 DEF InstanceTyped, mod
<1> QED
  BY <1>4, <1>5

(* What a module is built from is well typed.  One that is not built may   *)
(* have failed at its loops only.                                          *)
Checked(mods, ym) ==
    /\ WellFormed(ym) /\ ym.cells \in Seq(Range(ym.cells))
    /\ \A c \in Range(ym.cells) : Connected(mods, ym, c)
    /\ BuildModule(mods, ym).error \in {None, "loop"}
Buildable(mods, ym) == Checked(mods, ym) /\ BuildModule(mods, ym).error = None

(* The clock of a module is one of its wires.                              *)
LEMMA ClockIsWire ==
    ASSUME NEW mods, NEW ym, Checked(mods, ym)
    PROVE  module_clock_wire(mods, ym) \in WireBits(ym)
<1>1. ClockWires(mods, ym) \subseteq WireBits(ym)
  <2> SUFFICES ASSUME NEW c \in Range(ym.cells)
               PROVE  clock_connection(mods, c) \subseteq WireBits(ym)
    BY DEF ClockWires
  <2>1. Connected(mods, ym, c)
    BY DEF Checked
  <2> QED
    BY <2>1 DEF Connected, clock_connection, ClockPin
<1>2. Unsupported \in WireBits(ym)
  BY DEF WireBits
<1>3. CASE ClockWires(mods, ym) = {}
  BY <1>2, <1>3 DEF module_clock_wire
<1>4. CASE ClockWires(mods, ym) # {}
  BY <1>1, <1>4 DEF module_clock_wire
<1> QED
  BY <1>3, <1>4

(* The ports of a module.                                                  *)
LEMMA BitsTyped ==
    ASSUME NEW mods, NEW ym, Checked(mods, ym)
    PROVE  \E n \in Nat : /\ BitsOf(mods, ym) \in [1..n -> Range(AllBits(ym))]
                          /\ \A c \in 1..n : BitWire(ym, BitsOf(mods, ym)[c]) \in WiresOf(ym)
                          /\ \A dir : filter_ports(ym, BitsOf(mods, ym), dir) \in Seq(1..n)
<1> DEFINE bits == BitsOf(mods, ym)
<1>1. WellFormed(ym) /\ BuildModule(mods, ym).error \in {None, "loop"}
  BY DEF Checked
<1>2. PICK n \in Nat : DOMAIN bits = 1..n /\ \A c \in 1..n : bits[c] \in Range(AllBits(ym))
  BY <1>1, ShapeIs
<1>3. bits = [c \in 1..n |-> bits[c]]
  <2>1. bits = Pick(AllBits(ym), Positions(AllBits(ym), LAMBDA b : ~is_clock(ym, module_clock_wire(mods, ym), b)))
    BY DEF BitsOf, ports
  <2>2. \A s, at : Pick(s, at) = [k \in DOMAIN Pick(s, at) |-> Pick(s, at)[k]]
    BY DEF Pick
  <2> HIDE DEF bits
  <2> QED
    BY <1>2, <2>1, <2>2
<1> HIDE DEF bits
<1>4. bits \in [1..n -> Range(AllBits(ym))]
  BY <1>2, <1>3
<1>5. ASSUME NEW c \in 1..n
      PROVE  BitWire(ym, bits[c]) \in WiresOf(ym)
  <2>1. bits[c] \in Range(AllBits(ym)) /\ bits[c] \in Range(bits)
    BY <1>2 DEF Range
  <2>2. BitWire(ym, bits[c]) # Unsupported
    BY <1>1, <2>1, BuiltChecks DEF bits
  <2>3. PICK p \in DOMAIN ym.ports : \E o \in DOMAIN ym.ports[p].bits : bits[c] = <<p, o - 1>>
    <3>1. \A b : b \in Range(AllBits(ym)) <=>
             \E p \in DOMAIN ym.ports : \E o \in DOMAIN ym.ports[p].bits : b = <<p, o - 1>>
      BY <1>1, AllBitsIs
    <3> QED
      BY <2>1, <3>1
  <2>4. PICK o \in DOMAIN ym.ports[p].bits : bits[c] = <<p, o - 1>>
    BY <2>3
  <2>5. ym.ports[p].bits \in Seq(WireBits(ym))
    BY <1>1 DEF WellFormed, Range
  <2>6. o \in Nat /\ (o - 1) + 1 = o
    BY <2>5
  <2>7. BitWire(ym, bits[c]) = ym.ports[p].bits[o]
    BY <2>4, <2>6 DEF BitWire
  <2>8. BitWire(ym, bits[c]) \in WireBits(ym)
    BY <2>5, <2>7
  <2> QED
    BY <2>2, <2>8 DEF WireBits
<1>6. ASSUME NEW dir
      PROVE  filter_ports(ym, bits, dir) \in Seq(1..n)
  <2> DEFINE S == {k \in DOMAIN bits : ym.ports[bits[k][1]].dir = dir}
  <2>1. filter_ports(ym, bits, dir) = Increasing(S)
    BY DEF filter_ports, Positions
  <2>2. S \subseteq 1..n /\ S \in SUBSET Int
    BY <1>2
  <2>3. IsFiniteSet(1..n)
    BY FS_Interval
  <2> HIDE DEF S
  <2>4. IsFiniteSet(S)
    BY <2>2, <2>3, FS_Subset
  <2>5. Cardinality(S) \in Nat /\ Increasing(S) \in [1..Cardinality(S) -> S]
    BY <2>2, <2>4, IncreasingIs
  <2>6. Increasing(S) \in [1..Cardinality(S) -> 1..n]
    BY <2>2, <2>5
  <2> QED
    BY <2>1, <2>5, <2>6, FunctionIsSeq
<1> QED
  BY <1>4, <1>5, <1>6 DEF bits

(* The instances.                                                          *)
LEMMA InstancesTyped ==
    ASSUME NEW mods, NEW ym, Checked(mods, ym)
    PROVE  /\ Instances(mods, ym) \in Seq(FourKinds(mods, ym))
           /\ \A k \in DOMAIN Instances(mods, ym) : InstanceTyped(mods, ym, Instances(mods, ym)[k])
<1> DEFINE clock == module_clock_wire(mods, ym)
           bits == ports(ym, clock)
           ins == filter_ports(ym, bits, "input")
<1>1. WellFormed(ym) /\ ym.cells \in Seq(Range(ym.cells)) /\ BuildModule(mods, ym).error \in {None, "loop"}
  BY DEF Checked
<1>2. Instances(mods, ym) \in Seq(FourKinds(mods, ym))
  BY <1>1, InstancesAre
<1>3. ASSUME NEW i, i.kind # "cell", NEW w \in WiresOf(ym), i.con = <<w>>,
             i.kind = "input" => i.input \in DOMAIN ins
      PROVE  InstanceTyped(mods, ym, i)
  <2>1. i.con \in [1..1 -> WiresOf(ym)] /\ 1 \in Nat
    <3>1. DOMAIN i.con = 1..1 /\ i.con[1] = w /\ i.con = [k \in 1..1 |-> i.con[k]]
      BY <1>3
    <3> QED
      BY <3>1
  <2>2. output_ports(mods, i) = <<1>> /\ input_ports(mods, i) = <<>>
    BY <1>3 DEF output_ports, input_ports
  <2>3. output_ports(mods, i) \in Seq(1..1) /\ input_ports(mods, i) \in Seq(1..1)
    BY <2>2
  <2>4. \A o : comb_deps(mods, i, o) = <<>>
    BY <1>3 DEF comb_deps
  <2>5. <<>> \in Seq(1..1)
    OBVIOUS
  <2>6. i.kind = "input" => i.input \in DOMAIN filter_ports(ym, BitsOf(mods, ym), "input")
    BY <1>3 DEF BitsOf
  <2> QED
    BY <2>1, <2>3, <2>4, <2>5, <2>6 DEF InstanceTyped
<1>4. ASSUME NEW i \in Range(tie_instances)
      PROVE  InstanceTyped(mods, ym, i)
  <2>1. 0 \in WiresOf(ym) /\ 1 \in WiresOf(ym)
    <3>1. ym.n \in Nat \ {0, 1}
      BY <1>1 DEF WellFormed
    <3> QED
      BY <3>1 DEF WiresOf
  <2>2. i = Instance("tie", "0", 0, <<0>>) \/ i = Instance("tie", "1", 0, <<1>>)
    BY DEF tie_instances, Range
  <2>3. i.kind = "tie" /\ (i.con = <<0>> \/ i.con = <<1>>)
    BY <2>2 DEF Instance
  <2> QED
    BY <1>3, <2>1, <2>3
<1>5. ASSUME NEW i \in Range(clock_instances(clock))
      PROVE  InstanceTyped(mods, ym, i)
  <2>1. clock # Unsupported
    BY DEF clock_instances, Range
  <2>2. i = Instance("clock", None, 0, <<clock>>)
    BY <2>1 DEF clock_instances, Range
  <2>3. i.kind = "clock" /\ i.con = <<clock>>
    BY <2>2 DEF Instance
  <2>4. clock \in WiresOf(ym)
    BY <2>1, ClockIsWire DEF WireBits
  <2> QED
    BY <1>3, <2>3, <2>4
<1>6. ASSUME NEW i \in Range(input_instances(ym, bits))
      PROVE  InstanceTyped(mods, ym, i)
  <2>1. PICK k \in DOMAIN ins : i = Instance("input", None, k, <<BitWire(ym, bits[ins[k]])>>)
    BY DEF input_instances, Range
  <2>2. i.kind = "input" /\ i.input = k /\ i.con = <<BitWire(ym, bits[ins[k]])>>
    BY <2>1 DEF Instance
  <2>3. bits = BitsOf(mods, ym)
    BY DEF BitsOf
  <2>4. PICK n \in Nat : /\ \A c \in 1..n : BitWire(ym, bits[c]) \in WiresOf(ym)
                         /\ \A dir : filter_ports(ym, bits, dir) \in Seq(1..n)
    <3> HIDE DEF bits
    <3> QED
      BY <2>3, BitsTyped
  <2>5. ins \in Seq(1..n)
    BY <2>4
  <2> HIDE DEF ins, bits
  <2>6. BitWire(ym, bits[ins[k]]) \in WiresOf(ym)
    BY <2>4, <2>5
  <2>7. k \in DOMAIN ins
    OBVIOUS
  <2> QED
    BY <1>3, <2>2, <2>6, <2>7
<1>7. ASSUME NEW i \in Range(module_instances(mods, ym))
      PROVE  InstanceTyped(mods, ym, i)
  <2>1. PICK k \in DOMAIN ym.cells :
           i = Instance("cell", ym.cells[k].type, 0,
                        cell_connection_wires(ym.cells[k], Interface(mods, ym.cells[k].type).ports))
    BY DEF module_instances, Range
  <2>2. Connected(mods, ym, ym.cells[k])
    BY DEF Checked, Range
  <2>3. Unsupported \notin Range(i.con)
    BY <1>1, BuiltChecks
  <2> QED
    BY <2>1, <2>2, <2>3, CellTyped
<1>8. \A i \in FourKinds(mods, ym) : InstanceTyped(mods, ym, i)
  BY <1>4, <1>5, <1>6, <1>7 DEF FourKinds
<1> QED
  BY <1>2, <1>8

(* The edges of the graph of a module.                                     *)
IsEdge(mods, i, e) ==
    \E o \in DOMAIN output_ports(mods, i) :
        LET deps == comb_deps(mods, i, output_ports(mods, i)[o])
        IN  \E d \in DOMAIN deps : e = <<i.con[deps[d]], i.con[output_ports(mods, i)[o]]>>

(* The edges of an instance are between wires of the module.               *)
LEMMA EdgesTyped ==
    ASSUME NEW mods, NEW ym, NEW i, InstanceTyped(mods, ym, i)
    PROVE  /\ EdgesOf(mods, i) \in Seq(Seq(WiresOf(ym) \X WiresOf(ym)))
           /\ \A e : (\E o \in DOMAIN EdgesOf(mods, i) : e \in Range(EdgesOf(mods, i)[o]))
                        <=> IsEdge(mods, i, e)
<1> DEFINE W == WiresOf(ym)
           outs == output_ports(mods, i)
           deps(o) == comb_deps(mods, i, outs[o])
           edges(o) == [d \in DOMAIN deps(o) |-> <<i.con[deps(o)[d]], i.con[outs[o]]>>]
<1>1. PICK n \in Nat : /\ i.con \in [1..n -> W] /\ outs \in Seq(1..n)
                       /\ \A o \in Range(outs) : comb_deps(mods, i, o) \in Seq(1..n)
  BY DEF InstanceTyped
<1>2. PICK q \in Nat : DOMAIN outs = 1..q /\ \A o \in 1..q : outs[o] \in 1..n /\ outs[o] \in Range(outs)
  <2>1. PICK q \in Nat : DOMAIN outs = 1..q /\ \A o \in 1..q : outs[o] \in 1..n
    BY <1>1
  <2> QED
    BY <2>1 DEF Range
<1>3. ASSUME NEW o \in 1..q
      PROVE  edges(o) \in Seq(W \X W) /\ DOMAIN edges(o) = DOMAIN deps(o)
  <2>1. deps(o) \in Seq(1..n)
    BY <1>1, <1>2
  <2> HIDE DEF outs, deps
  <2>2. PICK k \in Nat : DOMAIN deps(o) = 1..k /\ \A d \in 1..k : deps(o)[d] \in 1..n
    BY <2>1
  <2>3. \A d \in 1..k : <<i.con[deps(o)[d]], i.con[outs[o]]>> \in W \X W
    BY <1>1, <1>2, <2>2
  <2>4. edges(o) \in [1..k -> W \X W]
    BY <2>2, <2>3
  <2>5. DOMAIN edges(o) = 1..k
    BY <2>2
  <2> HIDE DEF edges
  <2> QED
    BY <2>2, <2>4, <2>5, FunctionIsSeq
<1>4. EdgesOf(mods, i) = [o \in 1..q |-> edges(o)]
  BY <1>2 DEF EdgesOf
<1>5. EdgesOf(mods, i) \in [1..q -> Seq(W \X W)]
  <2> HIDE DEF edges, W
  <2> QED
    BY <1>3, <1>4
<1>6. EdgesOf(mods, i) \in Seq(Seq(W \X W)) /\ DOMAIN EdgesOf(mods, i) = 1..q
  <2> HIDE DEF W
  <2> QED
    BY <1>5, FunctionIsSeq
<1>7. ASSUME NEW e
      PROVE  (\E o \in 1..q : e \in Range(EdgesOf(mods, i)[o])) <=> IsEdge(mods, i, e)
  <2>1. \A o \in 1..q : EdgesOf(mods, i)[o] = edges(o)
    <3> HIDE DEF edges
    <3> QED
      BY <1>4
  <2>2. \A o \in 1..q : e \in Range(edges(o))
                           <=> \E d \in DOMAIN deps(o) : e = <<i.con[deps(o)[d]], i.con[outs[o]]>>
    <3> SUFFICES ASSUME NEW o \in 1..q
                 PROVE  e \in Range(edges(o))
                           <=> \E d \in DOMAIN deps(o) : e = <<i.con[deps(o)[d]], i.con[outs[o]]>>
      OBVIOUS
    <3> HIDE DEF deps, outs
    <3> QED
      BY DEF Range
  <2>3. IsEdge(mods, i, e) <=> \E o \in 1..q : \E d \in DOMAIN deps(o) :
                                 e = <<i.con[deps(o)[d]], i.con[outs[o]]>>
    BY <1>2 DEF IsEdge
  <2> HIDE DEF edges, deps, outs
  <2> QED
    BY <2>1, <2>2, <2>3
<1> QED
  BY <1>6, <1>7 DEF W

(* The graph of a module has the edges of its instances.                   *)
LEMMA DagIs ==
    ASSUME NEW mods, NEW ym, NEW insts, NEW S, insts \in Seq(S),
           \A k \in DOMAIN insts : InstanceTyped(mods, ym, insts[k])
    PROVE  /\ comb_wire_dag(mods, insts) \in Seq(WiresOf(ym) \X WiresOf(ym))
           /\ \A e : e \in Range(comb_wire_dag(mods, insts))
                        <=> \E k \in DOMAIN insts : IsEdge(mods, insts[k], e)
<1> DEFINE W == WiresOf(ym)
           T == Seq(W \X W)
           rows == [k \in DOMAIN insts |-> EdgesOf(mods, insts[k])]
           flat == FlattenSeq(rows)
<1>1. PICK n \in Nat : DOMAIN insts = 1..n
  OBVIOUS
<1>2. rows \in [1..n -> Seq(T)]
  <2>1. \A k \in 1..n : EdgesOf(mods, insts[k]) \in Seq(T)
    BY <1>1, EdgesTyped
  <2> HIDE DEF T
  <2> QED
    BY <1>1, <2>1
<1>3. rows \in Seq(Seq(T)) /\ DOMAIN rows = 1..n
  <2> HIDE DEF T, rows
  <2> QED
    BY <1>2, FunctionIsSeq
<1>4. /\ flat \in Seq(T)
      /\ \A x : x \in Range(flat) <=> \E k \in DOMAIN rows : x \in Range(rows[k])
  <2> HIDE DEF T, rows
  <2> QED
    BY <1>3, FlattenIs
<1>5. /\ FlattenSeq(flat) \in Seq(W \X W)
      /\ \A e : e \in Range(FlattenSeq(flat)) <=> \E j \in DOMAIN flat : e \in Range(flat[j])
  <2> HIDE DEF flat, W
  <2> QED
    BY <1>4, FlattenIs
<1>6. comb_wire_dag(mods, insts) = FlattenSeq(flat)
  BY DEF comb_wire_dag, EdgesOf
<1>7. \A k \in 1..n : rows[k] = EdgesOf(mods, insts[k])
  BY <1>1
<1>8. ASSUME NEW e
      PROVE  e \in Range(FlattenSeq(flat)) <=> \E k \in 1..n : IsEdge(mods, insts[k], e)
  <2>1. e \in Range(FlattenSeq(flat)) <=> \E x \in Range(flat) : e \in Range(x)
    <3>1. (\E j \in DOMAIN flat : e \in Range(flat[j])) <=> \E x \in Range(flat) : e \in Range(x)
      <4> HIDE DEF flat
      <4> QED
        BY DEF Range
    <3> HIDE DEF flat
    <3> QED
      BY <1>5, <3>1
  <2>2. (\E x \in Range(flat) : e \in Range(x))
           <=> \E k \in 1..n : \E x \in Range(EdgesOf(mods, insts[k])) : e \in Range(x)
    <3> HIDE DEF flat, rows
    <3> QED
      BY <1>3, <1>4, <1>7
  <2>3. ASSUME NEW k \in 1..n
        PROVE  (\E x \in Range(EdgesOf(mods, insts[k])) : e \in Range(x)) <=> IsEdge(mods, insts[k], e)
    <3>1. (\E o \in DOMAIN EdgesOf(mods, insts[k]) : e \in Range(EdgesOf(mods, insts[k])[o]))
             <=> IsEdge(mods, insts[k], e)
      BY <1>1, EdgesTyped
    <3>2. (\E x \in Range(EdgesOf(mods, insts[k])) : e \in Range(x))
             <=> \E o \in DOMAIN EdgesOf(mods, insts[k]) : e \in Range(EdgesOf(mods, insts[k])[o])
      BY DEF Range
    <3> QED
      BY <3>1, <3>2
  <2> HIDE DEF flat
  <2> QED
    BY <2>1, <2>2, <2>3
<1> QED
  BY <1>1, <1>5, <1>6, <1>8

(* The sinks of the wires.                                                 *)
LEMMA SinksTyped ==
    ASSUME NEW mods, NEW ym, NEW insts, NEW S, insts \in Seq(S),
           \A k \in DOMAIN insts : InstanceTyped(mods, ym, insts[k]), NEW w
    PROVE  \A s \in Range(wires_sinks(mods, insts, w)) :
              s[1] \in DOMAIN insts /\ s[2] \in DOMAIN input_ports(mods, insts[s[1]])
<1> DEFINE Sinks == {s \in (DOMAIN insts) \X Int : s[2] \in DOMAIN input_ports(mods, insts[s[1]])}
           ins(k) == input_ports(mods, insts[k])
           at(k) == {j \in DOMAIN ins(k) : insts[k].con[ins(k)[j]] = w}
           on(k) == Increasing(at(k))
           of(k) == [j \in DOMAIN on(k) |-> <<k, on(k)[j]>>]
           rows == [k \in DOMAIN insts |-> of(k)]
<1>1. PICK n \in Nat : DOMAIN insts = 1..n
  OBVIOUS
<1>2. ASSUME NEW k \in 1..n
      PROVE  of(k) \in Seq(Sinks)
  <2>1. InstanceTyped(mods, ym, insts[k])
    BY <1>1
  <2>2. PICK p \in Nat : ins(k) \in Seq(1..p)
    BY <2>1 DEF InstanceTyped
  <2>3. PICK q \in Nat : DOMAIN ins(k) = 1..q
    BY <2>2
  <2>4. at(k) \subseteq 1..q /\ at(k) \in SUBSET Int
    BY <2>3
  <2>5. IsFiniteSet(1..q)
    BY FS_Interval
  <2>6. IsFiniteSet(at(k))
    <3> HIDE DEF at
    <3> QED
      BY <2>4, <2>5, FS_Subset
  <2>7. Cardinality(at(k)) \in Nat /\ on(k) \in [1..Cardinality(at(k)) -> at(k)]
    <3> HIDE DEF at
    <3> QED
      BY <2>4, <2>6, IncreasingIs
  <2> DEFINE c == Cardinality(at(k))
  <2> HIDE DEF at, on, c
  <2>8. \A j \in 1..c : <<k, on(k)[j]>> \in Sinks
    <3>1. \A j \in 1..c : on(k)[j] \in 1..q
      BY <2>4, <2>7 DEF c
    <3> QED
      BY <1>1, <2>3, <3>1
  <2>9. of(k) \in [1..c -> Sinks] /\ c \in Nat
    <3>1. DOMAIN on(k) = 1..c
      BY <2>7 DEF c
    <3> HIDE DEF Sinks
    <3> QED
      BY <2>7, <2>8, <3>1 DEF c
  <2> HIDE DEF Sinks, of
  <2> QED
    BY <2>9, FunctionIsSeq
<1>3. rows \in [1..n -> Seq(Sinks)]
  <2> HIDE DEF of, Sinks
  <2> QED
    BY <1>1, <1>2
<1>4. rows \in Seq(Seq(Sinks))
  <2> HIDE DEF rows, Sinks
  <2> QED
    BY <1>3, FunctionIsSeq
<1>5. wires_sinks(mods, insts, w) = FlattenSeq(rows)
  BY DEF wires_sinks, Positions
<1>6. FlattenSeq(rows) \in Seq(Sinks)
  <2> HIDE DEF rows, Sinks
  <2> QED
    BY <1>4, FlattenIs
<1>7. \A s \in Range(FlattenSeq(rows)) : s \in Sinks
  <2> HIDE DEF rows, Sinks
  <2> QED
    BY <1>6 DEF Range
<1> HIDE DEF rows, of
<1> QED
  BY <1>5, <1>7

(* The driver of a wire of a module that is built is an output of an       *)
(* instance, the only one on the wire.                                     *)
LEMMA DriversFound ==
    ASSUME NEW mods, NEW insts, NEW wires, DriverError(mods, insts, wires) = None
    PROVE  \A w \in wires : /\ drivers(mods, insts, w) # {}
                            /\ ~(Cardinality(drivers(mods, insts, w)) > 1)
<1> DEFINE checks == <<
       Check(\E w \in wires : Cardinality(drivers(mods, insts, w)) > 1, "two_drivers"),
       Check(\E w \in wires : drivers(mods, insts, w) = {}, "no_driver")>>
<1>1. FirstError(checks) = None
  BY DEF DriverError
<1>2. DOMAIN checks = 1..2 /\ \A i \in 1..2 : checks[i].bad => checks[i].error # None
  BY DEF Check, None
<1>3. /\ checks[1].bad = (\E w \in wires : Cardinality(drivers(mods, insts, w)) > 1)
      /\ checks[2].bad = (\E w \in wires : drivers(mods, insts, w) = {})
  BY DEF Check
<1> HIDE DEF checks
<1>4. 2 \in Nat /\ 1 \in 1..2 /\ 2 \in 1..2
  OBVIOUS
<1>5. \A i \in 1..2 : ~checks[i].bad
  BY <1>1, <1>2, <1>4, NoFirstError
<1>6. ~checks[1].bad /\ ~checks[2].bad
  BY <1>4, <1>5
<1> QED
  BY <1>3, <1>6

(* The drivers of a wire, one by one.                                      *)
LEMMA DriversAre ==
    ASSUME NEW mods, NEW insts, NEW w, NEW d
    PROVE  d \in drivers(mods, insts, w) <=>
              \E i \in DOMAIN insts : \E o \in DOMAIN output_ports(mods, insts[i]) :
                 d = <<i, o>> /\ insts[i].con[output_ports(mods, insts[i])[o]] = w
BY DEF drivers

(* The source of a wire.                                                   *)
LEMMA SourceIs ==
    ASSUME NEW mods, NEW ym, NEW insts, DriverError(mods, insts, WiresOf(ym)) = None,
           NEW w \in WiresOf(ym)
    PROVE  LET s == SourceOf(mods, insts, ym)[w]
           IN  /\ s[1] \in DOMAIN insts /\ s[2] \in DOMAIN output_ports(mods, insts[s[1]])
               /\ insts[s[1]].con[output_ports(mods, insts[s[1]])[s[2]]] = w
<1> DEFINE s == SourceOf(mods, insts, ym)[w]
<1>1. drivers(mods, insts, w) # {}
  BY DriversFound
<1>2. s \in drivers(mods, insts, w)
  BY <1>1 DEF SourceOf
<1> HIDE DEF s
<1>3. PICK i \in DOMAIN insts : \E o \in DOMAIN output_ports(mods, insts[i]) :
         s = <<i, o>> /\ insts[i].con[output_ports(mods, insts[i])[o]] = w
  BY <1>2, DriversAre
<1>4. PICK o \in DOMAIN output_ports(mods, insts[i]) :
         s = <<i, o>> /\ insts[i].con[output_ports(mods, insts[i])[o]] = w
  BY <1>3
<1>5. s[1] = i /\ s[2] = o
  BY <1>4
<1>6. /\ s[1] \in DOMAIN insts /\ s[2] \in DOMAIN output_ports(mods, insts[s[1]])
      /\ insts[s[1]].con[output_ports(mods, insts[s[1]])[s[2]]] = w
  BY <1>4, <1>5
<1> QED
  BY <1>6 DEF s

(* The wires that each wire depends on at once.                            *)
FromOf(mods, ym) ==
    LET insts == Instances(mods, ym)
        source == SourceOf(mods, insts, ym)
    IN  [w \in WiresOf(ym) |-> WireFrom(mods, insts[source[w][1]], source[w][2])]
DepsetsOf(mods, ym) ==
    LET insts == Instances(mods, ym)
    IN  comb_depsets(insts, SourceOf(mods, insts, ym), FromOf(mods, ym))

(* A module without loop has its wires ordered: those before a wire are    *)
(* lower.                                                                  *)
LEMMA FromIs ==
    ASSUME NEW mods, NEW ym, Buildable(mods, ym)
    PROVE  LET from == FromOf(mods, ym)
               dag == comb_wire_dag(mods, Instances(mods, ym))
           IN  /\ from \in [WiresOf(ym) -> SUBSET WiresOf(ym)]
               /\ \A w \in WiresOf(ym) : \A v \in from[w] : <<v, w>> \in Range(dag)
               /\ \E r \in [WiresOf(ym) -> Nat] :
                     \A w \in WiresOf(ym) : \A v \in from[w] : r[v] < r[w]
<1> DEFINE W == WiresOf(ym)
           insts == Instances(mods, ym)
           source == SourceOf(mods, insts, ym)
           from == FromOf(mods, ym)
           dag == comb_wire_dag(mods, insts)
<1>1. /\ DriverError(mods, insts, W) = None /\ ~HasLoop(Range(dag))
  BY BuiltShape DEF Buildable
<1>2. /\ insts \in Seq(FourKinds(mods, ym))
      /\ \A k \in DOMAIN insts : InstanceTyped(mods, ym, insts[k])
  BY InstancesTyped DEF Buildable
<1>3. /\ dag \in Seq(W \X W)
      /\ \A e : e \in Range(dag) <=> \E k \in DOMAIN insts : IsEdge(mods, insts[k], e)
  <2> HIDE DEF insts
  <2> QED
    BY <1>2, DagIs
<1>4. ASSUME NEW w \in W, NEW v \in WireFrom(mods, insts[source[w][1]], source[w][2])
      PROVE  <<v, w>> \in Range(dag) /\ v \in W
  <2> DEFINE k == source[w][1]
             o == source[w][2]
             i == insts[k]
             outs == output_ports(mods, i)
             deps == comb_deps(mods, i, outs[o])
  <2>1. k \in DOMAIN insts /\ o \in DOMAIN outs /\ i.con[outs[o]] = w
    <3> HIDE DEF insts
    <3> QED
      BY <1>1, SourceIs
  <2>2. PICK d \in DOMAIN deps : v = i.con[deps[d]]
    BY DEF WireFrom, Range
  <2>3. IsEdge(mods, i, <<v, w>>)
    <3> HIDE DEF i, o
    <3> QED
      BY <2>1, <2>2 DEF IsEdge
  <2>4. <<v, w>> \in Range(dag)
    <3> HIDE DEF dag, insts, source
    <3> QED
      BY <1>3, <2>1, <2>3
  <2>5. \A e \in Range(dag) : e \in W \X W
    <3> HIDE DEF dag
    <3> QED
      BY <1>3 DEF Range
  <2> HIDE DEF dag
  <2> QED
    BY <2>4, <2>5
<1>5. DOMAIN from = W /\ \A w \in W : from[w] = WireFrom(mods, insts[source[w][1]], source[w][2])
  BY DEF FromOf
<1>6. from \in [W -> SUBSET W] /\ \A w \in W : \A v \in from[w] : <<v, w>> \in Range(dag)
  <2>1. from = [w \in W |-> from[w]]
    BY DEF FromOf
  <2>2. \A w \in W : \A v \in from[w] : <<v, w>> \in Range(dag) /\ v \in W
    <3> HIDE DEF from, source, insts, dag, W
    <3> QED
      BY <1>4, <1>5
  <2> HIDE DEF from, source, insts, dag, W
  <2>3. \A w \in W : from[w] \in SUBSET W
    BY <2>2
  <2>4. [w \in W |-> from[w]] \in [W -> SUBSET W]
    BY <2>3
  <2> QED
    BY <2>1, <2>2, <2>4
<1>7. PICK r \in [W -> Nat] : \A e \in Range(dag) : r[e[1]] < r[e[2]]
  <2>1. PICK n \in Nat : DOMAIN dag = 1..n
    <3> HIDE DEF dag
    <3> QED
      BY <1>3
  <2>2. IsFiniteSet(1..n)
    BY FS_Interval
  <2> HIDE DEF dag, W
  <2>3. IsFiniteSet({dag[k] : k \in 1..n})
    BY <2>2, FiniteImage
  <2>4. Range(dag) = {dag[k] : k \in 1..n}
    BY <2>1 DEF Range
  <2>5. Range(dag) \in SUBSET (W \X W)
    BY <1>3 DEF Range
  <2>6. IsFiniteSet(Range(dag)) /\ ~HasLoop(Range(dag))
    BY <1>1, <2>3, <2>4
  <2> DEFINE edges == Range(dag)
  <2>7. edges \in SUBSET (W \X W) /\ IsFiniteSet(edges) /\ ~HasLoop(edges)
    BY <2>5, <2>6
  <2>8. \E r \in [W -> Nat] : \A e \in edges : r[e[1]] < r[e[2]]
    <3> HIDE DEF edges
    <3> QED
      BY <2>7, LoopFreeRanks
  <2> QED
    BY <2>8
<1>8. ASSUME NEW w \in W, NEW v \in from[w]
      PROVE  r[v] < r[w]
  <2>1. <<v, w>> \in Range(dag)
    BY <1>6
  <2>2. r[<<v, w>>[1]] < r[<<v, w>>[2]]
    <3> HIDE DEF dag
    <3> QED
      BY <1>7, <2>1
  <2> QED
    BY <2>2
<1> HIDE DEF from, dag
<1>9. /\ from \in [W -> SUBSET W]
      /\ \A w \in W : \A v \in from[w] : <<v, w>> \in Range(dag)
      /\ \E q \in [W -> Nat] : \A w \in W : \A v \in from[w] : q[v] < q[w]
  <2> HIDE DEF W
  <2> QED
    BY <1>6, <1>7, <1>8
<1> QED
  BY <1>9 DEF from, dag

(* comb_depsets of a module: inputs, and the equation it was meant to      *)
(* solve.                                                                  *)
LEMMA DepsetsTyped ==
    ASSUME NEW mods, NEW ym, Buildable(mods, ym)
    PROVE  LET deps == DepsetsOf(mods, ym)
               insts == Instances(mods, ym)
           IN  /\ \A w \in WiresOf(ym) :
                     deps[w] = DepsNow(insts, SourceOf(mods, insts, ym), FromOf(mods, ym), deps, w)
               /\ \A w \in WiresOf(ym) :
                     deps[w] \subseteq DOMAIN filter_ports(ym, BitsOf(mods, ym), "input")
<1> DEFINE W == WiresOf(ym)
           insts == Instances(mods, ym)
           source == SourceOf(mods, insts, ym)
           from == FromOf(mods, ym)
           deps == DepsetsOf(mods, ym)
           I == DOMAIN filter_ports(ym, BitsOf(mods, ym), "input")
<1>1. from \in [W -> SUBSET W] /\ \E r \in [W -> Nat] :
                     \A w \in W : \A v \in from[w] : r[v] < r[w]
  BY FromIs
<1>2. PICK r \in [W -> Nat] : \A w \in W : \A v \in from[w] : r[v] < r[w]
  BY <1>1
<1>3. \A w \in W : deps[w] = DepsNow(insts, source, from, deps, w)
  <2> HIDE DEF W, from, insts, source
  <2>1. deps = comb_depsets(insts, source, from)
    BY DEF DepsetsOf, from, insts, source
  <2> HIDE DEF deps
  <2> QED
    BY <1>1, <1>2, <2>1, DepsetsAre
<1>4. \A w \in W : source[w][1] \in DOMAIN insts
  <2>1. DriverError(mods, insts, W) = None
    BY BuiltShape DEF Buildable
  <2> HIDE DEF insts
  <2> QED
    BY <2>1, SourceIs
<1>5. \A k \in DOMAIN insts : insts[k].kind = "input" => insts[k].input \in I
  BY InstancesTyped DEF Buildable, InstanceTyped
<1> HIDE DEF W, insts, source, from, deps, I
<1> DEFINE bad == {r[w] : w \in {w \in W : ~(deps[w] \subseteq I)}}
<1>6. ASSUME bad # {}
      PROVE  FALSE
  <2>1. bad \subseteq Nat
    OBVIOUS
  <2>2. PICK n \in bad : \A y \in bad : n <= y
    <3> HIDE DEF bad
    <3> QED
      BY <1>6, <2>1, LeastIndex
  <2>3. PICK w \in W : ~(deps[w] \subseteq I) /\ r[w] = n
    BY <2>2
  <2>4. \A v \in from[w] : deps[v] \subseteq I
    <3> SUFFICES ASSUME NEW v \in from[w], ~(deps[v] \subseteq I)
                 PROVE  FALSE
      OBVIOUS
    <3>1. v \in W /\ r[v] < r[w]
      BY <1>1, <1>2
    <3>2. r[v] \in bad
      BY <3>1
    <3>3. n <= r[v] /\ n \in Nat /\ r[v] \in Nat
      <4> HIDE DEF bad
      <4> QED
        BY <2>1, <2>2, <3>2
    <3> QED
      BY <2>3, <3>1, <3>3
  <2>5. deps[w] = DepsNow(insts, source, from, deps, w)
    BY <1>3
  <2>6. CASE insts[source[w][1]].kind = "input"
    BY <1>4, <1>5, <2>3, <2>5, <2>6 DEF DepsNow
  <2>7. CASE insts[source[w][1]].kind # "input"
    BY <2>3, <2>4, <2>5, <2>7 DEF DepsNow
  <2> QED
    BY <2>6, <2>7
<1>7. \A w \in W : deps[w] \subseteq I
  BY <1>6
<1> HIDE DEF bad
<1> QED
  BY <1>3, <1>7 DEF W, insts, source, from, deps, I

(* A module before the stages of a gadget are added.                       *)
RawModule(mods, ym) ==
    LET insts == Instances(mods, ym)
        source == SourceOf(mods, insts, ym)
        bits == BitsOf(mods, ym)
    IN  [ports |-> bits, clock |-> ShapeOf(mods, ym).clock,
         inputs |-> filter_ports(ym, bits, "input"), outputs |-> filter_ports(ym, bits, "output"),
         instances |-> insts, gadget |-> <<>>,
         connection_wires |-> [c \in DOMAIN bits |-> BitWire(ym, bits[c])],
         source |-> source, sinks |-> SinksOf(mods, insts, ym),
         dag |-> comb_wire_dag(mods, insts),
         comb_input_deps |-> [w \in WiresOf(ym) |-> Increasing(DepsetsOf(mods, ym)[w])]]

GadgetModule(mods, ym) ==
    LET g == PipelineGadget(ym, ShapeOf(mods, ym))
    IN  [update_pipeline_gadget_deps(RawModule(mods, ym), g) EXCEPT !.gadget = <<g>>]

(* The summary of a module before its stages are added.                    *)
LEMMA RawDeps ==
    ASSUME NEW mods, NEW ym
    PROVE  LET insts == Instances(mods, ym)
               source == SourceOf(mods, insts, ym)
           IN  comb_input_deps(mods, insts, WiresOf(ym), source)
                  = [w \in WiresOf(ym) |-> Increasing(DepsetsOf(mods, ym)[w])]
BY DEF comb_input_deps, DepsetsOf, FromOf, WireFrom

(* What is built: the module, with its stages when it is a pipeline        *)
(* gadget.                                                                 *)
LEMMA ValueIs ==
    ASSUME NEW mods, NEW ym, BuildModule(mods, ym).error = None
    PROVE  BuildModule(mods, ym).value =
              IF ~IsPipeline(ym) THEN RawModule(mods, ym) ELSE GadgetModule(mods, ym)
<1> DEFINE clock == module_clock_wire(mods, ym)
        bits == ports(ym, clock)
        insts == Instances(mods, ym)
        ins == filter_ports(ym, bits, "input")
        outs == filter_ports(ym, bits, "output")
        source == [w \in WiresOf(ym) |-> CHOOSE d \in drivers(mods, insts, w) : TRUE]
        dag == comb_wire_dag(mods, insts)
        cn == clock_name(ym, clock)
        shape == [ports |-> bits, inputs |-> ins, outputs |-> outs, clock |-> cn]
        wires == [c \in DOMAIN bits |-> BitWire(ym, bits[c])]
        sinks == [w \in WiresOf(ym) |-> wires_sinks(mods, insts, w)]
        deps == comb_input_deps(mods, insts, WiresOf(ym), source)
        mod == [ports |-> bits, clock |-> shape.clock, inputs |-> ins, outputs |-> outs,
                instances |-> insts, gadget |-> <<>>, connection_wires |-> wires,
                source |-> source, sinks |-> sinks, dag |-> dag, comb_input_deps |-> deps]
        error == FirstError(<<
            Check(\E i \in Range(module_instances(mods, ym)) : Unsupported \in Range(i.con),
                  "unsupported_wire"),
            Check(Unsupported \in ClockWires(mods, ym), "panic_clock"),
            Check(Cardinality(ClockWires(mods, ym)) > 1, "several_clocks"),
            Check(\E b \in Range(bits) : ym.ports[b[1]].dir = "inout", "inout"),
            Check(\E b \in Range(bits) : BitWire(ym, b) = Unsupported, "unsupported_wire")>>)
        driver == DriverError(mods, insts, WiresOf(ym))
        gadget == PipelineError(ym, shape)
        g == PipelineGadget(ym, shape)
<1>1. BuildModule(mods, ym) =
         IF error # None THEN Fail(error)
         ELSE IF driver # None THEN Fail(driver)
         ELSE IF gadget # None THEN Fail(gadget)
         ELSE IF HasLoop(Range(dag)) THEN Fail("loop")
         ELSE IF ~IsPipeline(ym) THEN Done(mod)
         ELSE Done([update_pipeline_gadget_deps(mod, g) EXCEPT !.gadget = <<g>>])
  BY DEF BuildModule
<1>2. shape = ShapeOf(mods, ym) /\ bits = BitsOf(mods, ym)
  BY DEF ShapeOf, BitsOf
<1>3. source = SourceOf(mods, insts, ym) /\ sinks = SinksOf(mods, insts, ym)
  BY DEF SourceOf, SinksOf
<1>4. deps = [w \in WiresOf(ym) |-> Increasing(DepsetsOf(mods, ym)[w])]
  <2> HIDE DEF source, sinks
  <2> QED
    BY <1>3, RawDeps
<1>5. shape.clock = ShapeOf(mods, ym).clock
  BY <1>2
<1> HIDE DEF error, driver, gadget, source, sinks, deps, dag, shape
<1>6. mod = RawModule(mods, ym)
  BY <1>2, <1>3, <1>4, <1>5 DEF RawModule, dag
<1> HIDE DEF mod, clock, bits, insts, ins, outs, g
<1>7. error = None /\ driver = None /\ gadget = None /\ ~HasLoop(Range(dag))
  BY <1>1 DEF Fail, None
<1>8. BuildModule(mods, ym).value = IF ~IsPipeline(ym) THEN mod
         ELSE [update_pipeline_gadget_deps(mod, g) EXCEPT !.gadget = <<g>>]
  BY <1>1, <1>7 DEF Done
<1> QED
  BY <1>2, <1>6, <1>8 DEF g, GadgetModule

(* The types of a module, those of ModuleOK and those that its instances   *)
(* rely on.                                                                *)
ModuleTyped(mods, mod, ym) ==
    LET wires == WiresOf(ym)
    IN  /\ Range(mod.connection_wires) \subseteq wires
        /\ DOMAIN mod.source = wires /\ DOMAIN mod.sinks = wires
        /\ \A w \in wires :
              /\ mod.source[w][1] \in DOMAIN mod.instances
              /\ Range(mod.comb_input_deps[w]) \subseteq DOMAIN mod.inputs
        /\ \A w \in wires : \A s \in Range(mod.sinks[w]) :
              /\ s[1] \in DOMAIN mod.instances
              /\ s[2] \in DOMAIN input_ports(mods, mod.instances[s[1]])
        /\ mod.dag \in Seq(wires \X wires)
        /\ InterfaceTyped(mod, ym)

(* The module before its stages are added refers to what exists.           *)
LEMMA RawTyped ==
    ASSUME NEW mods, NEW ym, Buildable(mods, ym)
    PROVE  ModuleTyped(mods, RawModule(mods, ym), ym)
<1> DEFINE W == WiresOf(ym)
           insts == Instances(mods, ym)
           source == SourceOf(mods, insts, ym)
           bits == BitsOf(mods, ym)
           ins == filter_ports(ym, bits, "input")
           outs == filter_ports(ym, bits, "output")
           mod == RawModule(mods, ym)
           deps == [w \in W |-> Increasing(DepsetsOf(mods, ym)[w])]
           wires == [c \in DOMAIN bits |-> BitWire(ym, bits[c])]
<1>1. /\ mod.ports = bits /\ mod.clock = ShapeOf(mods, ym).clock /\ mod.inputs = ins
      /\ mod.outputs = outs /\ mod.instances = insts /\ mod.connection_wires = wires
      /\ mod.source = source /\ mod.sinks = SinksOf(mods, insts, ym)
      /\ mod.dag = comb_wire_dag(mods, insts) /\ mod.comb_input_deps = deps
  BY DEF RawModule
<1>2. /\ DriverError(mods, insts, W) = None /\ WellFormed(ym)
  BY BuiltShape DEF Buildable, Checked
<1>3. /\ insts \in Seq(FourKinds(mods, ym))
      /\ \A k \in DOMAIN insts : InstanceTyped(mods, ym, insts[k])
  BY InstancesTyped DEF Buildable
<1>4. PICK n \in Nat : /\ bits \in [1..n -> Range(AllBits(ym))]
                       /\ \A c \in 1..n : BitWire(ym, bits[c]) \in W
                       /\ \A dir : filter_ports(ym, bits, dir) \in Seq(1..n)
  BY BitsTyped DEF Buildable
<1>5. \A w \in W : DepsetsOf(mods, ym)[w] \subseteq DOMAIN ins
  BY DepsetsTyped
<1> HIDE DEF insts, source, bits, ins, outs, mod
<1>6. wires \in [1..n -> W]
  BY <1>4
<1>7. ins \in Seq(1..n) /\ outs \in Seq(1..n)
  BY <1>4 DEF ins, outs
<1>8. ASSUME NEW w \in W
      PROVE  deps[w] \in Seq(DOMAIN ins)
  <2> DEFINE D == DepsetsOf(mods, ym)[w]
  <2>1. PICK q \in Nat : DOMAIN ins = 1..q
    BY <1>7
  <2>2. D \subseteq 1..q
    BY <1>5, <2>1
  <2>3. deps[w] = Increasing(D)
    OBVIOUS
  <2> HIDE DEF D, deps
  <2>4. IsFiniteSet(1..q)
    BY FS_Interval
  <2>5. D \in SUBSET Int /\ IsFiniteSet(D)
    <3>1. D \in SUBSET Int
      BY <2>2
    <3> QED
      BY <2>2, <2>4, <3>1, FS_Subset
  <2>6. Cardinality(D) \in Nat /\ Increasing(D) \in [1..Cardinality(D) -> D]
    BY <2>5, IncreasingIs
  <2>7. Increasing(D) \in [1..Cardinality(D) -> 1..q]
    BY <2>2, <2>6
  <2> QED
    BY <2>1, <2>3, <2>6, <2>7, FunctionIsSeq
<1>9. deps \in [W -> Seq(DOMAIN ins)] /\ DOMAIN deps = W
  <2>1. deps = [w \in W |-> deps[w]] /\ DOMAIN deps = W
    OBVIOUS
  <2> HIDE DEF deps, W
  <2> QED
    BY <1>8, <2>1
<1>10. \A w \in W : Range(deps[w]) \subseteq DOMAIN ins
  <2> HIDE DEF deps, W
  <2> QED
    BY <1>8 DEF Range
<1>11. DOMAIN source = W /\ DOMAIN SinksOf(mods, insts, ym) = W
  BY DEF source, SourceOf, SinksOf
<1>12. \A w \in W : source[w][1] \in DOMAIN insts
  BY <1>2, SourceIs DEF source
<1>13. \A w \in W : \A s \in Range(SinksOf(mods, insts, ym)[w]) :
              s[1] \in DOMAIN insts /\ s[2] \in DOMAIN input_ports(mods, insts[s[1]])
  <2>1. \A w \in W : SinksOf(mods, insts, ym)[w] = wires_sinks(mods, insts, w)
    BY DEF SinksOf
  <2> QED
    BY <1>3, <2>1, SinksTyped
<1>14. comb_wire_dag(mods, insts) \in Seq(W \X W)
  BY <1>3, DagIs
<1>15. ShapeOf(mods, ym).clock \in {NoBit} \cup Range(AllBits(ym))
  <2> DEFINE all == AllBits(ym)
             clock == module_clock_wire(mods, ym)
             found == {k \in DOMAIN all : is_clock(ym, clock, all[k])}
  <2>1. clock_name(ym, clock) = IF found = {} THEN NoBit ELSE all[Max(found)]
    BY DEF clock_name
  <2>2. ShapeOf(mods, ym).clock = clock_name(ym, clock)
    BY DEF ShapeOf
  <2>3. PICK q \in Nat : DOMAIN all = 1..q
    BY <1>2, AllBitsIs
  <2>4. found \subseteq 0..q /\ found \subseteq 1..q
    BY <2>3
  <2>5. found # {} => Max(found) \in 1..q
    <3> HIDE DEF found
    <3> QED
      BY <2>4, LargestIndex
  <2> HIDE DEF found, all
  <2> QED
    BY <2>1, <2>2, <2>3, <2>5 DEF Range, all
<1>16. Range(wires) \subseteq W
  <2> HIDE DEF wires, W
  <2> QED
    BY <1>6 DEF Range
<1> HIDE DEF W, deps, wires
<1>17. InterfaceTyped(mod, ym)
  BY <1>1, <1>4, <1>6, <1>7, <1>9, <1>15 DEF InterfaceTyped, W
<1>18. ModuleTyped(mods, mod, ym)
  BY <1>1, <1>10, <1>11, <1>12, <1>13, <1>14, <1>16, <1>17 DEF ModuleTyped, W
<1> QED
  BY <1>18 DEF mod

(* What the stages of a gadget add.                                        *)
StageJoins(mod, gadget, x) ==
    \E o \in DOMAIN mod.outputs : \E i \in DOMAIN mod.inputs :
        /\ gadget.latency[mod.inputs[i]] = gadget.latency[mod.outputs[o]]
        /\ x = <<i, mod.connection_wires[mod.outputs[o]]>>

(* The stages of a gadget relate its inputs and its output wires.          *)
LEMMA StageDepsTyped ==
    ASSUME NEW mod, NEW gadget, NEW W, NEW n \in Nat, mod.inputs \in Seq(1..n),
           mod.outputs \in Seq(1..n), mod.connection_wires \in [1..n -> W]
    PROVE  /\ StageDeps(mod, gadget) \in Seq((DOMAIN mod.inputs) \X W)
           /\ \A x : x \in Range(StageDeps(mod, gadget)) <=> StageJoins(mod, gadget, x)
<1> DEFINE T == (DOMAIN mod.inputs) \X W
           same(o) == {k \in DOMAIN mod.inputs :
                          gadget.latency[mod.inputs[k]] = gadget.latency[mod.outputs[o]]}
           stage(o) == Increasing(same(o))
           row(o) == [k \in DOMAIN stage(o) |-> <<stage(o)[k], mod.connection_wires[mod.outputs[o]]>>]
           rows == [o \in DOMAIN mod.outputs |-> row(o)]
<1>1. PICK q \in Nat : DOMAIN mod.outputs = 1..q /\ \A o \in 1..q : mod.outputs[o] \in 1..n
  <2> DEFINE outs == mod.outputs
  <2>1. outs \in Seq(1..n)
    OBVIOUS
  <2> HIDE DEF outs
  <2>2. Len(outs) \in Nat /\ DOMAIN outs = 1..Len(outs)
    BY <2>1
  <2>3. \A o \in 1..Len(outs) : outs[o] \in 1..n
    BY <2>1
  <2> QED
    BY <2>2, <2>3 DEF outs
<1>2. PICK p \in Nat : DOMAIN mod.inputs = 1..p
  OBVIOUS
<1>3. ASSUME NEW o \in 1..q
      PROVE  /\ row(o) \in Seq(T)
             /\ \A x : x \in Range(row(o)) <=>
                   \E i \in same(o) : x = <<i, mod.connection_wires[mod.outputs[o]]>>
  <2>1. same(o) \subseteq 1..p /\ same(o) \in SUBSET Int
    BY <1>2
  <2>2. IsFiniteSet(1..p)
    BY FS_Interval
  <2>3. mod.connection_wires[mod.outputs[o]] \in W
    BY <1>1
  <2> DEFINE S == same(o)
             on == Increasing(S)
             w == mod.connection_wires[mod.outputs[o]]
             c == Cardinality(S)
  <2>4. row(o) = [k \in DOMAIN on |-> <<on[k], w>>]
    OBVIOUS
  <2>5. S \subseteq 1..p /\ S \in SUBSET Int /\ w \in W
    BY <2>1, <2>3
  <2> HIDE DEF S, row, T, w
  <2>6. IsFiniteSet(S)
    BY <2>2, <2>5, FS_Subset
  <2>7. c \in Nat /\ on \in [1..c -> S] /\ \A i \in S : \E k \in 1..c : on[k] = i
    BY <2>5, <2>6, IncreasingIs
  <2> HIDE DEF on, c
  <2>8. \A k \in 1..c : <<on[k], w>> \in T
    <3>1. \A k \in 1..c : on[k] \in DOMAIN mod.inputs
      BY <1>2, <2>5, <2>7
    <3> QED
      BY <2>5, <3>1 DEF T
  <2>9. row(o) \in [1..c -> T]
    BY <2>4, <2>7, <2>8
  <2>10. row(o) \in Seq(T)
    BY <2>7, <2>9, FunctionIsSeq
  <2>11. \A x : x \in Range(row(o)) <=> \E i \in S : x = <<i, w>>
    <3>1. DOMAIN row(o) = 1..c /\ \A k \in 1..c : row(o)[k] = <<on[k], w>>
      BY <2>4, <2>7
    <3>2. \A k \in 1..c : on[k] \in S
      BY <2>7
    <3>3. \A x : x \in Range(row(o)) <=> \E k \in 1..c : x = <<on[k], w>>
      BY <3>1 DEF Range
    <3> QED
      BY <2>7, <3>2, <3>3
  <2> QED
    BY <2>10, <2>11 DEF S, w
<1>4. rows \in [1..q -> Seq(T)]
  <2> HIDE DEF row, T
  <2> QED
    BY <1>1, <1>3
<1>5. rows \in Seq(Seq(T))
  <2> HIDE DEF rows, T
  <2> QED
    BY <1>4, FunctionIsSeq
<1>6. /\ FlattenSeq(rows) \in Seq(T)
      /\ \A x : x \in Range(FlattenSeq(rows)) <=> \E o \in DOMAIN rows : x \in Range(rows[o])
  <2> HIDE DEF rows, T
  <2> QED
    BY <1>5, FlattenIs
<1>7. StageDeps(mod, gadget) = FlattenSeq(rows)
  BY DEF StageDeps, Positions
<1>8. DOMAIN rows = 1..q /\ DOMAIN mod.outputs = 1..q /\ \A o \in 1..q : rows[o] = row(o)
  BY <1>1
<1>9. \A o : \A i : i \in same(o) <=> /\ i \in DOMAIN mod.inputs
                                     /\ gadget.latency[mod.inputs[i]] = gadget.latency[mod.outputs[o]]
  OBVIOUS
<1> HIDE DEF rows, row, same
<1>10. ASSUME NEW x
       PROVE  x \in Range(FlattenSeq(rows)) <=>
                 \E o \in DOMAIN mod.outputs : \E i \in DOMAIN mod.inputs :
                    /\ gadget.latency[mod.inputs[i]] = gadget.latency[mod.outputs[o]]
                    /\ x = <<i, mod.connection_wires[mod.outputs[o]]>>
  <2>1. x \in Range(FlattenSeq(rows)) <=> \E o \in 1..q : x \in Range(row(o))
    BY <1>6, <1>8
  <2>2. \A o \in 1..q : x \in Range(row(o)) <=>
                          \E i \in same(o) : x = <<i, mod.connection_wires[mod.outputs[o]]>>
    BY <1>3
  <2>3. \A o \in 1..q : (\E i \in same(o) : x = <<i, mod.connection_wires[mod.outputs[o]]>>) <=>
           \E i \in DOMAIN mod.inputs :
                    /\ gadget.latency[mod.inputs[i]] = gadget.latency[mod.outputs[o]]
                    /\ x = <<i, mod.connection_wires[mod.outputs[o]]>>
    BY <1>9
  <2> QED
    BY <1>8, <2>1, <2>2, <2>3
<1>11. \A x : x \in Range(FlattenSeq(rows)) <=> StageJoins(mod, gadget, x)
  BY <1>10 DEF StageJoins
<1> QED
  BY <1>6, <1>7, <1>11

(* The edges and the dependencies with those of the stages.                *)
StageEdges(mod, gadget) ==
    LET new == StageDeps(mod, gadget)
    IN  [k \in DOMAIN new |-> <<mod.connection_wires[mod.inputs[new[k][1]]], new[k][2]>>]
StageInputs(mod, gadget, w) ==
    LET new == StageDeps(mod, gadget)
        added == Pick(new, Positions(new, LAMBDA e : e[2] = w))
    IN  [k \in DOMAIN added |-> added[k][1]]

(* The edges and the inputs that they add are well-formed.                 *)
LEMMA StagesTyped ==
    ASSUME NEW mod, NEW gadget, NEW W, NEW n \in Nat, mod.inputs \in Seq(1..n),
           mod.outputs \in Seq(1..n), mod.connection_wires \in [1..n -> W]
    PROVE  /\ StageEdges(mod, gadget) \in Seq(W \X W)
           /\ \A w : StageInputs(mod, gadget, w) \in Seq(DOMAIN mod.inputs)
<1> DEFINE I == DOMAIN mod.inputs
           new == StageDeps(mod, gadget)
<1>1. new \in Seq(I \X W)
  BY StageDepsTyped
<1> HIDE DEF new
<1>2. PICK q \in Nat : DOMAIN new = 1..q /\ \A k \in 1..q : new[k] \in I \X W
  <2> HIDE DEF I
  <2> QED
    BY <1>1
<1>3. StageEdges(mod, gadget) \in Seq(W \X W)
  <2>1. \A i \in I : mod.inputs[i] \in 1..n /\ mod.connection_wires[mod.inputs[i]] \in W
    OBVIOUS
  <2>2. \A k \in 1..q : new[k][1] \in I /\ new[k][2] \in W
    <3> HIDE DEF I
    <3> QED
      BY <1>2
  <2>3. \A k \in 1..q : <<mod.connection_wires[mod.inputs[new[k][1]]], new[k][2]>> \in W \X W
    <3> HIDE DEF I
    <3> QED
      BY <2>1, <2>2
  <2>4. StageEdges(mod, gadget)
           = [k \in 1..q |-> <<mod.connection_wires[mod.inputs[new[k][1]]], new[k][2]>>]
    BY <1>2 DEF StageEdges, new
  <2>5. StageEdges(mod, gadget) \in [1..q -> W \X W]
    <3> HIDE DEF I
    <3> QED
      BY <2>3, <2>4
  <2> QED
    BY <2>5, FunctionIsSeq
<1>4. ASSUME NEW w
      PROVE  StageInputs(mod, gadget, w) \in Seq(I)
  <2> DEFINE S == {k \in DOMAIN new : new[k][2] = w}
             c == Cardinality(S)
             added == Pick(new, Increasing(S))
  <2>1. S \subseteq 1..q /\ S \in SUBSET Int /\ S \subseteq DOMAIN new
    BY <1>2
  <2>2. IsFiniteSet(1..q)
    <3>1. 1 \in Int /\ q \in Int
      OBVIOUS
    <3> HIDE DEF S, c, added, new, I
    <3> QED
      BY <3>1, FS_Interval
  <2>3. StageInputs(mod, gadget, w) = [k \in DOMAIN added |-> added[k][1]]
    BY DEF StageInputs, Positions, new
  <2> HIDE DEF S
  <2>4. IsFiniteSet(S)
    BY <2>1, <2>2, FS_Subset
  <2>5. /\ DOMAIN added = 1..c /\ c \in Nat
        /\ \A k \in 1..c : Increasing(S)[k] \in DOMAIN new /\ added[k] = new[Increasing(S)[k]]
    BY <2>1, <2>4, PickIs
  <2> HIDE DEF added, c, I
  <2>6. \A k \in 1..c : added[k][1] \in I
    BY <1>2, <2>5
  <2>7. StageInputs(mod, gadget, w) \in [1..c -> I]
    BY <2>3, <2>5, <2>6
  <2> QED
    BY <2>5, <2>7, FunctionIsSeq
<1> QED
  BY <1>3, <1>4

(* The module of a gadget.                                                 *)
LEMMA UpdateIs ==
    ASSUME NEW mods, NEW ym
    PROVE  LET raw == RawModule(mods, ym)
               g == PipelineGadget(ym, ShapeOf(mods, ym))
               mod == GadgetModule(mods, ym)
           IN  /\ mod.ports = raw.ports /\ mod.clock = raw.clock /\ mod.inputs = raw.inputs
               /\ mod.outputs = raw.outputs /\ mod.instances = raw.instances
               /\ mod.connection_wires = raw.connection_wires
               /\ mod.source = raw.source /\ mod.sinks = raw.sinks
               /\ mod.dag = raw.dag \o StageEdges(raw, g)
               /\ mod.comb_input_deps = [w \in DOMAIN raw.comb_input_deps |->
                                            raw.comb_input_deps[w] \o StageInputs(raw, g, w)]
               /\ mod.gadget = <<g>>
<1> DEFINE raw == RawModule(mods, ym)
           g == PipelineGadget(ym, ShapeOf(mods, ym))
           dag == raw.dag \o StageEdges(raw, g)
           deps == [w \in DOMAIN raw.comb_input_deps |->
                        raw.comb_input_deps[w] \o StageInputs(raw, g, w)]
           mod == [[raw EXCEPT !.dag = dag, !.comb_input_deps = deps] EXCEPT !.gadget = <<g>>]
<1>1. update_pipeline_gadget_deps(raw, g) = [raw EXCEPT !.dag = dag, !.comb_input_deps = deps]
  BY DEF update_pipeline_gadget_deps, StageEdges, StageInputs
<1>2. DOMAIN raw = {"ports", "clock", "inputs", "outputs", "instances", "gadget",
                    "connection_wires", "source", "sinks", "dag", "comb_input_deps"}
  BY DEF RawModule
<1>4. GadgetModule(mods, ym) = mod
  BY <1>1 DEF GadgetModule
<1> HIDE DEF raw, dag, deps, g
<1>3. /\ mod.ports = raw.ports /\ mod.clock = raw.clock /\ mod.inputs = raw.inputs
      /\ mod.outputs = raw.outputs /\ mod.instances = raw.instances
      /\ mod.connection_wires = raw.connection_wires
      /\ mod.source = raw.source /\ mod.sinks = raw.sinks
      /\ mod.dag = dag /\ mod.comb_input_deps = deps /\ mod.gadget = <<g>>
  BY <1>2
<1> QED
  BY <1>3, <1>4 DEF raw, dag, deps, g

(* A module that is built is well typed.                                   *)
LEMMA BuildTyped ==
    ASSUME NEW mods, NEW ym, Buildable(mods, ym)
    PROVE  ModuleTyped(mods, BuildModule(mods, ym).value, ym)
<1> DEFINE raw == RawModule(mods, ym)
           g == PipelineGadget(ym, ShapeOf(mods, ym))
           mod == GadgetModule(mods, ym)
           W == WiresOf(ym)
<1>1. BuildModule(mods, ym).value = IF ~IsPipeline(ym) THEN raw ELSE mod
  BY ValueIs DEF Buildable
<1>2. ModuleTyped(mods, raw, ym)
  BY RawTyped
<1>3. /\ mod.ports = raw.ports /\ mod.clock = raw.clock /\ mod.inputs = raw.inputs
      /\ mod.outputs = raw.outputs /\ mod.instances = raw.instances
      /\ mod.connection_wires = raw.connection_wires
      /\ mod.source = raw.source /\ mod.sinks = raw.sinks
      /\ mod.dag = raw.dag \o StageEdges(raw, g)
      /\ mod.comb_input_deps = [w \in DOMAIN raw.comb_input_deps |->
                                    raw.comb_input_deps[w] \o StageInputs(raw, g, w)]
  BY UpdateIs
<1> HIDE DEF raw, mod, g, W
<1>4. PICK n \in Nat : /\ raw.ports \in [1..n -> Range(AllBits(ym))]
                       /\ raw.inputs \in Seq(1..n) /\ raw.outputs \in Seq(1..n)
                       /\ raw.connection_wires \in [1..n -> W]
  BY <1>2 DEF ModuleTyped, InterfaceTyped, W
<1>5. /\ StageEdges(raw, g) \in Seq(W \X W)
      /\ \A w : StageInputs(raw, g, w) \in Seq(DOMAIN raw.inputs)
  BY <1>4, StagesTyped
<1>6. raw.dag \in Seq(W \X W) /\ raw.comb_input_deps \in [W -> Seq(DOMAIN raw.inputs)]
  BY <1>2 DEF ModuleTyped, InterfaceTyped, W
<1>7. mod.dag \in Seq(W \X W)
  <2> DEFINE T == W \X W
  <2>1. raw.dag \in Seq(T) /\ StageEdges(raw, g) \in Seq(T)
    BY <1>5, <1>6
  <2> HIDE DEF T
  <2>2. mod.dag \in Seq(T)
    BY <1>3, <2>1
  <2> QED
    BY <2>2 DEF T
<1>8. mod.comb_input_deps \in [W -> Seq(DOMAIN mod.inputs)]
  <2> DEFINE I == DOMAIN raw.inputs
  <2>1. \A w \in W : raw.comb_input_deps[w] \in Seq(I) /\ StageInputs(raw, g, w) \in Seq(I)
    BY <1>5, <1>6
  <2>2. \A w \in W : raw.comb_input_deps[w] \o StageInputs(raw, g, w) \in Seq(I)
    <3> HIDE DEF I
    <3> QED
      BY <2>1
  <2>3. DOMAIN raw.comb_input_deps = W
    BY <1>6
  <2> HIDE DEF I
  <2>4. mod.comb_input_deps \in [W -> Seq(I)]
    BY <1>3, <2>2, <2>3
  <2> QED
    BY <1>3, <2>4 DEF I
<1>9. \A w \in W : Range(mod.comb_input_deps[w]) \subseteq DOMAIN mod.inputs
  BY <1>8 DEF Range
<1>10. InterfaceTyped(mod, ym)
  <2>1. mod.clock \in {NoBit} \cup Range(AllBits(ym))
    BY <1>2, <1>3 DEF ModuleTyped, InterfaceTyped
  <2> QED
    BY <1>3, <1>4, <1>8, <2>1 DEF InterfaceTyped, W
<1>11. ModuleTyped(mods, mod, ym)
  BY <1>2, <1>3, <1>7, <1>9, <1>10 DEF ModuleTyped, W
<1> QED
  BY <1>1, <1>2, <1>11

(* The modules that are built have well typed interfaces.                  *)
Typed ==
    /\ phase \in Phases
    /\ \A m \in DOMAIN built : InterfaceTyped(built[m], YM(m))

(* The cells of a module whose submodules are built are connected.         *)
LEMMA CellsConnected ==
    ASSUME Exact, \A s \in DOMAIN built : InterfaceTyped(built[s], YM(s)),
           NEW m \in Names, Submodules(m) \subseteq DOMAIN built
    PROVE  \A c \in Range(YM(m).cells) : Connected(built, YM(m), c)
<1> SUFFICES ASSUME NEW c \in Range(YM(m).cells)
             PROVE  Connected(built, YM(m), c)
  OBVIOUS
<1> DEFINE face == Interface(built, c.type)
<1>1. \A b \in PortBits(design.modules, c.type) : CellWire(c, b) \in WireBits(YM(m))
  <2>1. design \in Designs /\ m \in DOMAIN design.modules
    BY DEF Exact, Names
  <2> QED
    BY <2>1, DesignsAssumption DEF YM
<1>2. CASE is_gate(c.type)
  <2>1. face = GateOf(c.type)
    BY <1>2 DEF Interface
  <2>2. PortBits(design.modules, c.type) = Range(face.ports)
    BY <1>2, <2>1 DEF PortBits
  <2>3. face.clock \in {NoBit} \cup Range(face.ports)
    BY <1>2, <2>1, GatesAre
  <2> QED
    BY <1>1, <1>2, <2>2, <2>3 DEF Connected
<1>3. CASE ~is_gate(c.type)
  <2>1. c.type \in DOMAIN built
    BY <1>3 DEF Submodules, Cells
  <2>2. face = built[c.type] /\ c.type \in DOMAIN design.modules
    BY <1>3, <2>1 DEF Interface, Exact, Names
  <2>3. PortBits(design.modules, c.type) = Range(AllBits(YM(c.type)))
    BY <1>3, <2>2 DEF PortBits, YM
  <2>4. InterfaceTyped(built[c.type], YM(c.type))
    BY <2>1
  <2>5. PICK n \in Nat : built[c.type].ports \in [1..n -> Range(AllBits(YM(c.type)))]
    BY <2>4 DEF InterfaceTyped
  <2>6. built[c.type].clock \in {NoBit} \cup Range(AllBits(YM(c.type)))
    BY <2>4 DEF InterfaceTyped
  <2>7. \A b \in Range(built[c.type].ports) : b \in Range(AllBits(YM(c.type)))
    <3> DEFINE bits == built[c.type].ports
               all == Range(AllBits(YM(c.type)))
    <3>1. bits \in [1..n -> all]
      BY <2>5
    <3> HIDE DEF bits, all
    <3>2. \A b \in Range(bits) : b \in all
      BY <3>1 DEF Range
    <3> QED
      BY <3>2 DEF bits, all
  <2> QED
    BY <1>1, <1>3, <2>2, <2>3, <2>4, <2>6, <2>7 DEF Connected
<1> QED
  BY <1>2, <1>3

(* What a module that is added refers to exists.                           *)
LEMMA TypedStep ==
    ASSUME Typed, Exact, [BuildNext]_buildVars
    PROVE  Typed'
<1>1. ASSUME UNCHANGED <<design, built>>, phase' \in Phases
      PROVE  Typed'
  <2>1. \A m : YM(m)' = YM(m)
    BY <1>1 DEF YM
  <2> QED
    BY <1>1, <2>1 DEF Typed
<1>2. CASE SortModules
  BY <1>1, <1>2 DEF SortModules, FailWith, Phases
<1>3. ASSUME NEW m \in Names, AddModule(m)
      PROVE  Typed'
  <2>1. CASE BuildModule(built, YM(m)).error # None
    BY <1>1, <1>3, <2>1 DEF AddModule, FailWith, Phases
  <2>2. CASE BuildModule(built, YM(m)).error = None
    <3> DEFINE res == BuildModule(built, YM(m))
    <3>1. /\ design' = design /\ phase' \in Phases /\ Submodules(m) \subseteq DOMAIN built
          /\ built' = [k \in DOMAIN built \cup {m} |-> IF k = m THEN res.value ELSE built[k]]
      BY <1>3, <2>2 DEF AddModule, Phases
    <3>2. \A k : YM(k)' = YM(k)
      BY <3>1 DEF YM
    <3>3. Buildable(built, YM(m))
      <4>1. WellFormed(YM(m)) /\ YM(m).cells \in Seq(Range(YM(m).cells))
        BY ModulesAreWellFormed DEF Exact
      <4>2. \A c \in Range(YM(m).cells) : Connected(built, YM(m), c)
        BY <3>1, CellsConnected DEF Typed
      <4> QED
        BY <2>2, <4>1, <4>2 DEF Buildable, Checked
    <3>4. InterfaceTyped(res.value, YM(m))
      BY <3>3, BuildTyped DEF ModuleTyped
    <3>5. DOMAIN built' = DOMAIN built \cup {m}
      BY <3>1
    <3>6. ASSUME NEW k \in DOMAIN built'
          PROVE  InterfaceTyped(built'[k], YM(k))
      <4> HIDE DEF res
      <4>1. CASE k = m
        BY <3>1, <3>4, <3>5, <4>1
      <4>2. CASE k # m
        <5>1. k \in DOMAIN built /\ built'[k] = built[k]
          BY <3>1, <3>5, <4>2
        <5> QED
          BY <5>1 DEF Typed
      <4> QED
        BY <4>1, <4>2
    <3> QED
      BY <3>1, <3>2, <3>6 DEF Typed
  <2> QED
    BY <2>1, <2>2
<1>4. CASE SelectTop
  BY <1>1, <1>4 DEF SelectTop, FailWith, Phases
<1>5. CASE UNCHANGED buildVars
  BY <1>1, <1>5 DEF buildVars, Typed
<1> QED
  BY <1>2, <1>3, <1>4, <1>5 DEF BuildNext

(* What every built module refers to exists.                               *)
LEMMA TypedInvariant == BuildSpec => []Typed
<1>1. BuildInit => Typed
  BY DEF BuildInit, Typed, Phases
<1>2. ASSUME Typed, Exact, [BuildNext]_buildVars
      PROVE  Typed'
  BY <1>2, TypedStep
<1> QED
  BY <1>1, <1>2, ExactInvariant, PTL DEF BuildSpec

(* A module that is built is well typed, in what is built in the end.      *)
LEMMA BuiltAreTyped ==
    ASSUME Exact, Typed, NEW m \in DOMAIN built
    PROVE  Buildable(built, YM(m)) /\ ModuleTyped(built, built[m], YM(m))
<1>1. /\ m \in Names /\ design \in Designs /\ Submodules(m) \subseteq DOMAIN built
      /\ BuildModule(built, YM(m)).error = None /\ built[m] = BuildModule(built, YM(m)).value
  BY DEF Exact
<1>2. WellFormed(YM(m)) /\ YM(m).cells \in Seq(Range(YM(m).cells))
  BY <1>1, ModulesAreWellFormed
<1>3. \A c \in Range(YM(m).cells) : Connected(built, YM(m), c)
  BY <1>1, CellsConnected DEF Typed
<1>4. Buildable(built, YM(m))
  BY <1>1, <1>2, <1>3 DEF Buildable, Checked
<1> QED
  BY <1>1, <1>4, BuildTyped

(* In every state of the construction of every design, what a module holds *)
(* of others is in range: connections are wires, sources are instances,    *)
(* sinks are inputs of instances, dependencies are inputs.  comb_depsets   *)
(* takes each wire after those it depends on, which there is no order for  *)
(* if the graph has a loop.                                                *)
THEOREM NetlistTypes == BuildSpec => []TypeOK
<1>1. ASSUME Exact, Typed
      PROVE  TypeOK
  <2>1. ASSUME NEW m \in DOMAIN built
        PROVE  ModuleOK(m)
    <3> DEFINE mod == built[m]
               W == WiresOf(YM(m))
    <3>1. ModuleTyped(built, mod, YM(m))
      BY <1>1, <2>1, BuiltAreTyped
    <3>2. \A e \in Range(mod.dag) : e[1] \in W /\ e[2] \in W
      <4>1. mod.dag \in Seq(W \X W)
        BY <3>1 DEF ModuleTyped
      <4> HIDE DEF W, mod
      <4>2. \A e \in Range(mod.dag) : e \in W \X W
        BY <4>1 DEF Range
      <4> QED
        BY <4>2
    <3>3. Len(mod.gadget) = (IF IsPipeline(YM(m)) THEN 1 ELSE 0)
      <4>1. BuildModule(built, YM(m)).error = None /\ built[m] = BuildModule(built, YM(m)).value
        BY <1>1, <2>1 DEF Exact
      <4>2. mod.gadget = IF IsPipeline(YM(m)) THEN <<PipelineGadget(YM(m), ShapeOf(built, YM(m)))>>
                         ELSE <<>>
        BY <4>1, BuiltShape
      <4> HIDE DEF mod
      <4>3. Len(<<>>) = 0 /\ \A x : Len(<<x>>) = 1
        OBVIOUS
      <4> QED
        BY <4>2, <4>3
    <3> QED
      BY <3>1, <3>2, <3>3 DEF ModuleOK, ModuleTyped
  <2>2. design \in Designs /\ phase \in Phases /\ DOMAIN built \subseteq Names
    BY <1>1 DEF Exact, Typed
  <2> QED
    BY <2>1, <2>2 DEF TypeOK
<1> QED
  BY <1>1, ExactInvariant, TypedInvariant, PTL

-----------------------------------------------------------------------------
(* Graphs.                                                                 *)
Before(edges, X) == {e[1] : e \in {e \in edges : e[2] \in X}}

(* Part of a finite set is smaller than it.                                *)
LEMMA StrictSubset ==
    ASSUME NEW S, IsFiniteSet(S), NEW T \in SUBSET S, T # S
    PROVE  /\ IsFiniteSet(T) /\ Cardinality(T) < Cardinality(S)
           /\ Cardinality(T) \in Nat /\ Cardinality(S) \in Nat
<1>1. /\ IsFiniteSet(T) /\ Cardinality(T) <= Cardinality(S)
      /\ (Cardinality(S) = Cardinality(T) => S = T)
  BY FS_Subset
<1>2. Cardinality(T) \in Nat /\ Cardinality(S) \in Nat
  BY <1>1, FS_CardinalityType
<1> QED
  BY <1>1, <1>2

(* Of a sequence of sets that only get smaller, two in a row are equal.    *)
LEMMA SetsSettle ==
    ASSUME NEW s, NEW n \in Nat, IsFiniteSet(s[0]), Cardinality(s[0]) <= n,
           \A k \in Nat : s[k + 1] \subseteq s[k]
    PROVE  \E j \in 0..n : s[j + 1] = s[j]
<1> SUFFICES ASSUME \A j \in 0..n : s[j + 1] # s[j]
             PROVE  FALSE
  OBVIOUS
<1> DEFINE Good(k) == IsFiniteSet(s[k]) /\ Cardinality(s[k]) + k <= n
           Bad == {k \in 0..(n + 1) : ~Good(k)}
<1>1. Good(0)
  <2>1. Cardinality(s[0]) \in Nat
    BY FS_CardinalityType
  <2> QED
    BY <2>1
<1>2. ASSUME NEW k \in 0..n, Good(k)
      PROVE  Good(k + 1)
  <2>1. s[k + 1] \subseteq s[k] /\ s[k + 1] # s[k]
    OBVIOUS
  <2>2. /\ IsFiniteSet(s[k + 1]) /\ Cardinality(s[k + 1]) < Cardinality(s[k])
        /\ Cardinality(s[k]) \in Nat /\ Cardinality(s[k + 1]) \in Nat
    BY <1>2, <2>1, StrictSubset
  <2> QED
    BY <1>2, <2>2
<1>3. Bad = {}
  <2> SUFFICES ASSUME Bad # {}
               PROVE  FALSE
    OBVIOUS
  <2>1. Bad \subseteq Nat
    OBVIOUS
  <2> HIDE DEF Good
  <2>2. PICK k \in Bad : \A y \in Bad : k <= y
    <3> HIDE DEF Bad
    <3> QED
      BY <2>1, LeastIndex
  <2>3. k \in 0..(n + 1) /\ ~Good(k)
    OBVIOUS
  <2>4. k # 0
    BY <1>1, <2>3
  <2>5. k - 1 \in 0..n /\ (k - 1) + 1 = k
    BY <2>3, <2>4
  <2>6. Good(k - 1)
    BY <2>2, <2>5
  <2>7. Good((k - 1) + 1)
    BY <1>2, <2>5, <2>6
  <2> QED
    BY <2>3, <2>5, <2>7
<1>4. Good(n + 1)
  <2>1. n + 1 \in 0..(n + 1)
    OBVIOUS
  <2> HIDE DEF Good
  <2> QED
    BY <1>3, <2>1
<1>5. Cardinality(s[n + 1]) \in Nat
  BY <1>4, FS_CardinalityType
<1> QED
  BY <1>4, <1>5

(* A sequence in which two equal elements are followed by a third is       *)
(* constant from the first two.                                            *)
LEMMA FixedForever ==
    ASSUME NEW s, NEW j \in Nat, s[j + 1] = s[j],
           \A k \in Nat : s[k + 1] = s[k] => s[k + 2] = s[k + 1]
    PROVE  \A k \in Nat : k >= j => s[k] = s[j] /\ s[k + 1] = s[j]
<1> DEFINE Bad == {k \in Nat : k >= j /\ ~(s[k] = s[j] /\ s[k + 1] = s[j])}
<1> SUFFICES ASSUME Bad # {}
             PROVE  FALSE
  OBVIOUS
<1>1. Bad \subseteq Nat
  OBVIOUS
<1>2. PICK k \in Bad : \A y \in Bad : k <= y
  <2> HIDE DEF Bad
  <2> QED
    BY <1>1, LeastIndex
<1>3. k \in Nat /\ k >= j /\ ~(s[k] = s[j] /\ s[k + 1] = s[j])
  OBVIOUS
<1>4. k # j
  BY <1>3
<1>5. k - 1 \in Nat /\ k - 1 >= j /\ (k - 1) + 1 = k /\ (k - 1) + 2 = k + 1 /\ ~(k <= k - 1)
  BY <1>3, <1>4
<1>6. s[k - 1] = s[j] /\ s[(k - 1) + 1] = s[j]
  <2>1. k - 1 \notin Bad
    <3> HIDE DEF Bad
    <3> QED
      BY <1>2, <1>5
  <2> QED
    BY <1>5, <2>1
<1>7. s[(k - 1) + 2] = s[(k - 1) + 1]
  BY <1>5, <1>6
<1> QED
  BY <1>3, <1>5, <1>6, <1>7

(* A finite set of numbers has a largest one.                              *)
LEMMA FiniteLargest ==
    ASSUME NEW T \in SUBSET Int, IsFiniteSet(T), T # {}
    PROVE  \E y \in T : \A z \in T : z <= y
<1>1. PICK f : f \in Bijection(1..Cardinality(T), T)
  BY FS_CardinalityType DEF ExistsBijection
<1>2. /\ Cardinality(T) \in Nat /\ \A k \in 1..Cardinality(T) : f[k] \in T
      /\ \A z \in T : \E k \in 1..Cardinality(T) : f[k] = z
  BY <1>1, FS_CardinalityType DEF Bijection, Surjection
<1>3. PICK bound \in Int : \A k \in 1..Cardinality(T) : f[k] <= bound
  BY <1>2, FiniteBound
<1>4. \A z \in T : z <= bound
  BY <1>2, <1>3
<1>5. Max(T) \in T /\ \A z \in T : z <= Max(T)
  BY <1>4, LargestBelow
<1> QED
  BY <1>5

(* The steps of Upstream.                                                  *)
Grow(edges, S) ==
    CHOOSE f : f = [k \in Nat |-> IF k = 0 THEN S ELSE f[k - 1] \cup Before(edges, f[k - 1])]

(* The steps of Upstream: each adds what comes right before the last one.  *)
LEMMA GrowIs ==
    ASSUME NEW edges, NEW S
    PROVE  /\ Upstream(edges, S) = Grow(edges, S)[Cardinality(edges)]
           /\ Grow(edges, S)[0] = S
           /\ \A k \in Nat : k # 0 => Grow(edges, S)[k]
                = Grow(edges, S)[k - 1] \cup Before(edges, Grow(edges, S)[k - 1])
<1> DEFINE Grows(f) == f = [k \in Nat |-> IF k = 0 THEN S ELSE f[k - 1] \cup Before(edges, f[k - 1])]
           grow == CHOOSE f : Grows(f)
           A == SUBSET (S \cup {e[1] : e \in edges})
           step == [p \in Nat \X A |-> p[2] \cup Before(edges, p[2])]
<1>1. Upstream(edges, S) = grow[Cardinality(edges)]
  BY DEF Upstream, Before
<1>2. grow = Grow(edges, S)
  BY DEF Grow
<1>3. step \in [Nat \X A -> A]
  <2>1. \A X \in A : X \cup Before(edges, X) \in A
    BY DEF Before
  <2>2. \A p \in Nat \X A : p[2] \cup Before(edges, p[2]) \in A
    <3> HIDE DEF A
    <3> QED
      BY <2>1
  <2> HIDE DEF A
  <2> QED
    BY <2>2
<1>4. S \in A
  OBVIOUS
<1>5. PICK g : Iterates(g, A, S, step)
  <2> HIDE DEF A, step
  <2> QED
    BY <1>3, <1>4, RecursionExists
<1>6. g \in [Nat -> A] /\ g[0] = S
  BY <1>5 DEF Iterates
<1>7. ASSUME NEW k \in Nat
      PROVE  g[k] = IF k = 0 THEN S ELSE g[k - 1] \cup Before(edges, g[k - 1])
  <2>1. CASE k = 0
    BY <1>6, <2>1
  <2>2. CASE k # 0
    <3>1. k - 1 \in Nat /\ (k - 1) + 1 = k
      BY <2>2
    <3>2. g[k] = step[<<k, g[k - 1]>>]
      <4> HIDE DEF step, A
      <4> QED
        BY <1>5, <3>1 DEF Iterates
    <3>3. <<k, g[k - 1]>> \in Nat \X A
      <4> HIDE DEF A
      <4> QED
        BY <1>6, <3>1
    <3>4. step[<<k, g[k - 1]>>] = g[k - 1] \cup Before(edges, g[k - 1])
      <4> HIDE DEF A
      <4> QED
        BY <3>3
    <3> QED
      BY <2>2, <3>2, <3>4
  <2> QED
    BY <2>1, <2>2
<1>8. Grows(g)
  <2>1. g = [k \in Nat |-> g[k]]
    <3> HIDE DEF A
    <3> QED
      BY <1>6
  <2> HIDE DEF A, step
  <2> QED
    BY <1>7, <2>1
<1>9. Grows(grow)
  <2> HIDE DEF Grows
  <2> QED
    BY <1>8
<1>10. /\ grow[0] = S
       /\ \A k \in Nat : k # 0 => grow[k] = grow[k - 1] \cup Before(edges, grow[k - 1])
  <2> HIDE DEF grow
  <2> QED
    BY <1>9
<1> QED
  BY <1>1, <1>2, <1>10

(* What is upstream of some nodes is in every set that has these nodes and *)
(* what is before its own.                                                 *)
LEMMA UpstreamIn ==
    ASSUME NEW edges, IsFiniteSet(edges), NEW S, NEW T, S \subseteq T,
           \A e \in edges : e[2] \in T => e[1] \in T
    PROVE  Upstream(edges, S) \subseteq T
<1> DEFINE grow == Grow(edges, S)
<1>1. /\ Upstream(edges, S) = grow[Cardinality(edges)] /\ Cardinality(edges) \in Nat
      /\ grow[0] = S
      /\ \A k \in Nat : k # 0 => grow[k] = grow[k - 1] \cup Before(edges, grow[k - 1])
  BY GrowIs, FS_CardinalityType
<1> HIDE DEF grow
<1> DEFINE Bad == {k \in Nat : ~(grow[k] \subseteq T)}
<1>10. ASSUME Bad # {}
       PROVE  FALSE
  <2>1. PICK k \in Bad : \A y \in Bad : k <= y
    <3>1. Bad \subseteq Nat
      OBVIOUS
    <3> HIDE DEF Bad
    <3> QED
      BY <1>10, <3>1, LeastIndex
  <2>2. k \in Nat /\ ~(grow[k] \subseteq T)
    OBVIOUS
  <2>3. k # 0
    BY <1>1, <2>2
  <2>4. k - 1 \in Nat /\ k - 1 \notin Bad
    <3> HIDE DEF Bad
    <3> QED
      BY <2>1, <2>2, <2>3
  <2>5. grow[k - 1] \subseteq T
    BY <2>4
  <2>6. grow[k] = grow[k - 1] \cup Before(edges, grow[k - 1])
    BY <1>1, <2>2, <2>3
  <2>7. Before(edges, grow[k - 1]) \subseteq T
    BY <2>5 DEF Before
  <2> QED
    BY <2>2, <2>5, <2>6, <2>7
<1> QED
  BY <1>1, <1>10

(* It has what is before its own.                                          *)
LEMMA UpstreamClosed ==
    ASSUME NEW edges, IsFiniteSet(edges), NEW S
    PROVE  /\ S \subseteq Upstream(edges, S)
           /\ \A e \in edges : e[2] \in Upstream(edges, S) => e[1] \in Upstream(edges, S)
<1> DEFINE grow == Grow(edges, S)
           n == Cardinality(edges)
           left(k) == {e \in edges : e[2] \notin grow[k]}
           s == [k \in Nat |-> left(k)]
<1>1. Upstream(edges, S) = grow[n] /\ n \in Nat /\ grow[0] = S
  BY GrowIs, FS_CardinalityType
<1>2. \A k \in Nat : grow[k + 1] = grow[k] \cup Before(edges, grow[k])
  <2> TAKE k \in Nat
  <2>1. k + 1 \in Nat /\ k + 1 # 0 /\ (k + 1) - 1 = k
    OBVIOUS
  <2> HIDE DEF grow
  <2> QED
    BY <2>1, GrowIs DEF grow
<1> HIDE DEF grow, n
<1>3. \A k \in Nat : s[k] = left(k)
  OBVIOUS
<1> HIDE DEF s
<1>4. ASSUME NEW k \in Nat, s[k + 1] = s[k]
      PROVE  grow[k + 2] = grow[k + 1]
  <2>1. k + 1 \in Nat /\ (k + 1) + 1 = k + 2
    OBVIOUS
  <2>2. left(k + 1) = left(k)
    BY <1>3, <1>4, <2>1
  <2>3. Before(edges, grow[k + 1]) = Before(edges, grow[k])
    <3>1. \A e \in edges : e[2] \in grow[k + 1] <=> e[2] \in grow[k]
      BY <2>2
    <3> QED
      BY <3>1 DEF Before
  <2> QED
    BY <1>2, <2>1, <2>3
<1>5. \E j \in Nat : j <= n /\ grow[j + 1] = grow[j]
  <2>1. CASE left(0) = edges
    <3>1. Before(edges, grow[0]) = {}
      BY <2>1 DEF Before
    <3>2. grow[0 + 1] = grow[0]
      BY <1>2, <3>1
    <3> QED
      BY <1>1, <3>2
  <2>2. CASE left(0) # edges
    <3>1. left(0) \subseteq edges
      OBVIOUS
    <3>2. IsFiniteSet(left(0)) /\ Cardinality(left(0)) < n
      <4> HIDE DEF left
      <4> QED
        BY <2>2, <3>1, StrictSubset DEF n
    <3>3. Cardinality(left(0)) \in Nat
      <4> HIDE DEF left
      <4> QED
        BY <3>2, FS_CardinalityType
    <3>4. n - 1 \in Nat /\ Cardinality(left(0)) <= n - 1
      <4> HIDE DEF left
      <4> QED
        BY <1>1, <3>2, <3>3
    <3>5. \A k \in Nat : s[k + 1] \subseteq s[k]
      BY <1>2, <1>3
    <3>6. s[0] = left(0)
      BY <1>3
    <3>7. PICK j \in 0..(n - 1) : s[j + 1] = s[j]
      <4> HIDE DEF left
      <4> QED
        BY <3>2, <3>4, <3>5, <3>6, SetsSettle
    <3>8. j \in Nat /\ j + 1 \in Nat /\ j + 1 <= n /\ (j + 1) + 1 = j + 2
      BY <1>1, <3>4
    <3>9. grow[(j + 1) + 1] = grow[j + 1]
      BY <1>4, <3>7, <3>8
    <3> QED
      BY <3>8, <3>9
  <2> QED
    BY <2>1, <2>2
<1>6. PICK j \in Nat : j <= n /\ grow[j + 1] = grow[j]
  BY <1>5
<1>7. ASSUME NEW k \in Nat, grow[k + 1] = grow[k]
      PROVE  grow[k + 2] = grow[k + 1]
  <2>1. k + 1 \in Nat /\ (k + 1) + 1 = k + 2
    OBVIOUS
  <2>2. grow[(k + 1) + 1] = grow[k + 1] \cup Before(edges, grow[k + 1])
    BY <1>2, <2>1
  <2> QED
    BY <1>2, <1>7, <2>1, <2>2
<1>8. grow[n] = grow[j] /\ grow[n + 1] = grow[j]
  BY <1>1, <1>6, <1>7, FixedForever
<1>9. Before(edges, grow[n]) \subseteq grow[n]
  BY <1>1, <1>2, <1>8
<1>10. S \subseteq grow[n]
  <2> DEFINE Bad == {k \in Nat : ~(S \subseteq grow[k])}
  <2> SUFFICES ASSUME Bad # {}
               PROVE  FALSE
    BY <1>1
  <2>1. Bad \subseteq Nat
    OBVIOUS
  <2>2. PICK k \in Bad : \A y \in Bad : k <= y
    <3> HIDE DEF Bad
    <3> QED
      BY <2>1, LeastIndex
  <2>3. k \in Nat /\ ~(S \subseteq grow[k])
    OBVIOUS
  <2>4. k # 0
    BY <1>1, <2>3
  <2>5. k - 1 \in Nat /\ (k - 1) + 1 = k /\ ~(k <= k - 1)
    BY <2>3, <2>4
  <2>6. S \subseteq grow[k - 1]
    BY <2>2, <2>5
  <2>7. grow[(k - 1) + 1] = grow[k - 1] \cup Before(edges, grow[k - 1])
    BY <1>2, <2>5
  <2> QED
    BY <2>3, <2>5, <2>6, <2>7
<1> QED
  BY <1>1, <1>9, <1>10 DEF Before

(* A graph has a loop when some of its nodes all come after one of them.   *)
Loop(edges, X) == X # {} /\ \A n \in X : \E e \in edges : e[1] \in X /\ e[2] = n

(* What HasLoop computes is that there is such a set of nodes.             *)
LEMMA LoopIs ==
    ASSUME NEW edges, IsFiniteSet(edges)
    PROVE  HasLoop(edges) <=> \E X : Loop(edges, X)
<1> DEFINE inner == Inner(edges)
           n == Cardinality(edges)
<1>1. (HasLoop(edges) <=> inner[n] # {}) /\ inner[0] = {e[2] : e \in edges} /\ n \in Nat
  BY InnerIs, FS_CardinalityType
<1>2. \A k \in Nat : inner[k + 1] = Inside(edges, inner[k])
  <2> TAKE k \in Nat
  <2>1. k + 1 \in Nat /\ k + 1 # 0 /\ (k + 1) - 1 = k
    OBVIOUS
  <2> HIDE DEF inner
  <2> QED
    BY <2>1, InnerIs DEF inner
<1>3. IsFiniteSet(inner[0]) /\ Cardinality(inner[0]) <= n
  <2> DEFINE end == [e \in edges |-> e[2]]
             ends == {end[e] : e \in edges}
  <2>1. end \in Surjection(edges, ends)
    BY DEF Surjection
  <2>2. IsFiniteSet(ends) /\ Cardinality(ends) <= n
    <3> HIDE DEF end, ends
    <3> QED
      BY <2>1, FS_Surjection
  <2>3. inner[0] = ends
    BY <1>1
  <2> QED
    BY <2>2, <2>3
<1> HIDE DEF inner, n
<1>4. ASSUME HasLoop(edges)
      PROVE  \E X : Loop(edges, X)
  <2>1. PICK j \in 0..n : inner[j + 1] = inner[j]
    <3>1. \A k \in Nat : inner[k + 1] \subseteq inner[k]
      BY <1>2 DEF Inside
    <3> QED
      BY <1>1, <1>3, <3>1, SetsSettle
  <2>2. ASSUME NEW k \in Nat, inner[k + 1] = inner[k]
        PROVE  inner[k + 2] = inner[k + 1]
    <3>1. k + 1 \in Nat /\ (k + 1) + 1 = k + 2
      OBVIOUS
    <3>2. inner[(k + 1) + 1] = Inside(edges, inner[k + 1])
      BY <1>2, <3>1
    <3> QED
      BY <1>2, <2>2, <3>1, <3>2
  <2>3. j \in Nat /\ j <= n
    BY <1>1
  <2>4. inner[n] = inner[j]
    BY <1>1, <2>1, <2>2, <2>3, FixedForever
  <2>5. Inside(edges, inner[n]) = inner[n] /\ inner[n] # {}
    BY <1>1, <1>2, <1>4, <2>1, <2>3, <2>4
  <2>6. Loop(edges, inner[n])
    BY <2>5 DEF Loop, Inside
  <2> QED
    BY <2>6
<1>5. ASSUME NEW X, Loop(edges, X)
      PROVE  HasLoop(edges)
  <2> DEFINE Bad == {k \in Nat : ~(X \subseteq inner[k])}
  <2>1. ASSUME Bad # {}
        PROVE  FALSE
    <3>1. Bad \subseteq Nat
      OBVIOUS
    <3>2. PICK k \in Bad : \A y \in Bad : k <= y
      <4> HIDE DEF Bad
      <4> QED
        BY <2>1, <3>1, LeastIndex
    <3>3. k \in Nat /\ ~(X \subseteq inner[k])
      OBVIOUS
    <3>4. k # 0
      <4>1. X \subseteq inner[0]
        BY <1>1, <1>5 DEF Loop
      <4> QED
        BY <3>3, <4>1
    <3>5. k - 1 \in Nat /\ (k - 1) + 1 = k /\ ~(k <= k - 1)
      BY <3>3, <3>4
    <3>6. X \subseteq inner[k - 1]
      BY <3>2, <3>5
    <3>7. inner[(k - 1) + 1] = Inside(edges, inner[k - 1])
      BY <1>2, <3>5
    <3>8. X \subseteq Inside(edges, inner[k - 1])
      BY <1>5, <3>6 DEF Loop, Inside
    <3> QED
      BY <3>3, <3>5, <3>7, <3>8
  <2>2. X \subseteq inner[n]
    BY <1>1, <2>1
  <2> QED
    BY <1>1, <1>5, <2>2 DEF Loop
<1> QED
  BY <1>4, <1>5

-----------------------------------------------------------------------------
(* The order of the modules.                                               *)
LEMMA NamesAre ==
    ASSUME Exact
    PROVE  IsFiniteSet(Names) /\ Cardinality(Names) \in Nat
<1>1. IsFiniteSet(DOMAIN design.modules) /\ Names \subseteq DOMAIN design.modules
  BY DesignsAssumption DEF Exact, Names
<1> QED
  BY <1>1, FS_Subset, FS_CardinalityType

(* A module has finitely many submodules.                                  *)
LEMMA SubmodulesAre ==
    ASSUME Exact, NEW m \in Names
    PROVE  IsFiniteSet(Submodules(m))
<1>1. Cells(m) \in Seq(Range(Cells(m)))
  BY ModulesAreWellFormed DEF Exact, Cells
<1>2. PICK n \in Nat : DOMAIN Cells(m) = 1..n
  BY <1>1
<1> DEFINE f == [c \in 1..n |-> Cells(m)[c].type]
<1>3. IsFiniteSet({f[c] : c \in 1..n})
  <2>1. IsFiniteSet(1..n)
    BY FS_Interval
  <2> HIDE DEF f
  <2> QED
    BY <2>1, FiniteImage
<1>4. Submodules(m) \subseteq {f[c] : c \in 1..n}
  <2> SUFFICES ASSUME NEW c \in Range(Cells(m))
               PROVE  c.type \in {f[k] : k \in 1..n}
    BY DEF Submodules
  <2>1. PICK k \in 1..n : Cells(m)[k] = c
    BY <1>2 DEF Range
  <2>2. f[k] = c.type
    BY <2>1
  <2> HIDE DEF f
  <2> QED
    BY <2>2
<1> HIDE DEF f
<1> QED
  BY <1>3, <1>4, FS_Subset

(* The graph of the modules.                                               *)
LEMMA InstantiatesIs ==
    ASSUME Exact
    PROVE  /\ IsFiniteSet(Instantiates)
           /\ \A e : e \in Instantiates <=>
                 \E m \in Names : \E s \in Submodules(m) : e = <<s, m>>
<1> DEFINE of(m) == {<<s, m>> : s \in Submodules(m)}
           all == {of(m) : m \in Names}
<1>1. Instantiates = UNION all
  BY DEF Instantiates
<1>2. \A m \in Names : IsFiniteSet(of(m))
  <2> TAKE m \in Names
  <2> DEFINE f == [s \in Submodules(m) |-> <<s, m>>]
  <2>1. of(m) = {f[s] : s \in Submodules(m)}
    OBVIOUS
  <2> HIDE DEF f, of
  <2> QED
    BY <2>1, SubmodulesAre, FiniteImage
<1>3. IsFiniteSet(all)
  <2> DEFINE f == [m \in Names |-> of(m)]
  <2>1. all = {f[m] : m \in Names}
    OBVIOUS
  <2> HIDE DEF f, all
  <2> QED
    BY <2>1, NamesAre, FiniteImage
<1>4. IsFiniteSet(UNION all)
  <2>1. \A T \in all : IsFiniteSet(T)
    <3> HIDE DEF of
    <3> QED
      BY <1>2
  <2> HIDE DEF all
  <2> QED
    BY <1>3, <2>1, FS_UNION
<1> QED
  BY <1>1, <1>4

(* Of the modules with some property, one instantiates no other of them,   *)
(* and one is instantiated by no other.                                    *)
LEMMA LeastModule ==
    ASSUME Exact, ~HasLoop(Instantiates), NEW S \in SUBSET Names, S # {}
    PROVE  \E m \in S : \A s \in Submodules(m) : s \notin S
<1> SUFFICES ASSUME \A m \in S : \E s \in Submodules(m) : s \in S
             PROVE  FALSE
  OBVIOUS
<1>1. Loop(Instantiates, S)
  <2> SUFFICES ASSUME NEW m \in S
               PROVE  \E e \in Instantiates : e[1] \in S /\ e[2] = m
    BY DEF Loop
  <2>1. PICK s \in Submodules(m) : s \in S
    OBVIOUS
  <2>2. <<s, m>> \in Instantiates
    BY InstantiatesIs
  <2> QED
    BY <2>1, <2>2
<1> QED
  BY <1>1, InstantiatesIs, LoopIs

(* Of some modules, one is in none of the others.                          *)
LEMMA TopmostModule ==
    ASSUME Exact, ~HasLoop(Instantiates), NEW S \in SUBSET Names, S # {}
    PROVE  \E m \in S : \A p \in S : m \notin Submodules(p)
<1> DEFINE W == {e[1] : e \in Instantiates} \cup {e[2] : e \in Instantiates} \cup Names
<1>1. Instantiates \in SUBSET (W \X W)
  <2>1. \A e \in Instantiates : e[1] \in W /\ e[2] \in W
    OBVIOUS
  <2>2. \A e \in Instantiates : \E s, m : e = <<s, m>>
    BY InstantiatesIs
  <2> HIDE DEF W
  <2> QED
    BY <2>1, <2>2
<1>2. Names \subseteq W
  OBVIOUS
<1> HIDE DEF W
<1>3. PICK r \in [W -> Nat] : \A e \in Instantiates : r[e[1]] < r[e[2]]
  BY <1>1, InstantiatesIs, LoopFreeRanks
<1> DEFINE T == {r[m] : m \in S}
<1>4. IsFiniteSet(T) /\ T \subseteq Int /\ T # {}
  <2>1. IsFiniteSet(S)
    BY NamesAre, FS_Subset
  <2>2. IsFiniteSet(T)
    BY <2>1, FiniteImage
  <2> QED
    BY <1>2, <1>3, <2>2
<1>5. PICK y \in T : \A z \in T : z <= y
  <2> HIDE DEF T
  <2> QED
    BY <1>4, FiniteLargest
<1>6. PICK m \in S : r[m] = y
  OBVIOUS
<1>7. ASSUME NEW p \in S, m \in Submodules(p)
      PROVE  FALSE
  <2>1. <<m, p>> \in Instantiates
    BY <1>7, InstantiatesIs
  <2>2. r[m] < r[p]
    BY <1>3, <2>1
  <2>3. r[p] <= r[m] /\ r[p] \in Nat /\ r[m] \in Nat
    BY <1>2, <1>3, <1>5, <1>6
  <2> QED
    BY <2>2, <2>3
<1> QED
  BY <1>7

-----------------------------------------------------------------------------
(* The hierarchy.                                                          *)
Ready == {m \in Names : Submodules(m) \subseteq DOMAIN built}
Places == Seq(Nat) \X Ready
Child(u, c) == <<Append(u[1], c), Cells(u[2])[c].type>>
IsChild(x, u) ==
    \E c \in DOMAIN Cells(u[2]) : ~is_gate(Cells(u[2])[c].type) /\ x = Child(u, c)
Children(X) ==
    UNION {{<<Append(x[1], c), Cells(x[2])[c].type>> :
              c \in {c \in DOMAIN Cells(x[2]) : ~is_gate(Cells(x[2])[c].type)}} : x \in X}

(* The children of some places, one by one.                                *)
LEMMA ChildrenAre ==
    ASSUME NEW X, NEW x
    PROVE  x \in Children(X) <=> \E u \in X : IsChild(x, u)
BY DEF Children, IsChild, Child

(* A path and its end.                                                     *)
LEMMA AppendEnds ==
    ASSUME NEW S, NEW s \in Seq(S), NEW e \in S
    PROVE  /\ Append(s, e) \in Seq(S) /\ Append(s, e) # <<>>
           /\ Front(Append(s, e)) = s /\ Last(Append(s, e)) = e
<1>1. /\ Append(s, e) \in Seq(S) /\ Len(Append(s, e)) = Len(s) + 1 /\ Len(s) \in Nat
      /\ \A i \in 1..Len(s) : Append(s, e)[i] = s[i]
      /\ Append(s, e)[Len(s) + 1] = e
  BY AppendIs
<1>2. Front(Append(s, e)) = [i \in 1..Len(s) |-> Append(s, e)[i]]
  <2>1. (Len(s) + 1) - 1 = Len(s)
    BY <1>1
  <2>2. Front(Append(s, e)) = SubSeq(Append(s, e), 1, Len(s))
    BY <1>1, <2>1 DEF Front
  <2>3. SubSeq(Append(s, e), 1, Len(s)) = [i \in 1..Len(s) |-> Append(s, e)[i]]
    BY <1>1
  <2> QED
    BY <2>2, <2>3
<1>3. s = [i \in 1..Len(s) |-> s[i]]
  OBVIOUS
<1>4. Front(Append(s, e)) = s
  BY <1>1, <1>2, <1>3
<1>5. Append(s, e) # <<>>
  BY <1>1
<1> QED
  BY <1>1, <1>4, <1>5 DEF Last

(* The submodules of modules that are built are.                           *)
LEMMA ChildIsPlace ==
    ASSUME Exact, NEW u \in Places, NEW c \in DOMAIN Cells(u[2]), ~is_gate(Cells(u[2])[c].type)
    PROVE  /\ c \in Nat /\ Cells(u[2])[c].type \in DOMAIN built
           /\ Child(u, c) \in Places /\ Child(u, c)[1] # <<>>
           /\ Front(Child(u, c)[1]) = u[1] /\ Last(Child(u, c)[1]) = c
<1>1. u[1] \in Seq(Nat) /\ u[2] \in Ready
  BY DEF Places
<1>2. u[2] \in Names /\ Submodules(u[2]) \subseteq DOMAIN built /\ design \in Designs
  BY <1>1 DEF Exact, Ready
<1>3. Cells(u[2]) \in Seq(Range(Cells(u[2])))
  BY <1>2, ModulesAreWellFormed DEF Cells
<1>4. c \in Nat
  BY <1>3
<1>5. Cells(u[2])[c].type \in Submodules(u[2])
  BY DEF Submodules, Range
<1>6. Append(u[1], c) \in Seq(Nat) /\ Cells(u[2])[c].type \in Ready
  <2>1. DOMAIN built \subseteq Ready
    BY DEF Exact, Ready
  <2> QED
    BY <1>1, <1>2, <1>4, <1>5, <2>1, AppendIs
<1> QED
  BY <1>1, <1>2, <1>4, <1>5, <1>6, AppendEnds DEF Places, Child

(* A level of the hierarchy of a module.                                   *)
TreeOf(m, H) ==
    /\ IsFiniteSet(H) /\ H \subseteq Places /\ <<<<>>, m>> \in H
    /\ \A x \in H : x = <<<<>>, m>> \/ \E u \in H : IsChild(x, u)
    /\ \A x, y \in H : x[1] = y[1] => x = y

(* Finitely many places have finitely many children.                       *)
LEMMA FiniteChildren ==
    ASSUME Exact, NEW X \in SUBSET Places, IsFiniteSet(X)
    PROVE  Children(X) \subseteq Places /\ IsFiniteSet(Children(X))
<1> DEFINE subs(x) == {c \in DOMAIN Cells(x[2]) : ~is_gate(Cells(x[2])[c].type)}
           of(x) == {<<Append(x[1], c), Cells(x[2])[c].type>> : c \in subs(x)}
           all == {of(x) : x \in X}
<1>1. Children(X) = UNION all
  BY DEF Children
<1>2. ASSUME NEW x \in X
      PROVE  IsFiniteSet(of(x))
  <2>1. x[2] \in Names /\ design \in Designs
    BY DEF Places, Ready, Exact
  <2>2. Cells(x[2]) \in Seq(Range(Cells(x[2])))
    BY <2>1, ModulesAreWellFormed DEF Cells
  <2>3. PICK n \in Nat : DOMAIN Cells(x[2]) = 1..n
    BY <2>2
  <2>4. IsFiniteSet(subs(x))
    <3>1. IsFiniteSet(1..n)
      BY FS_Interval
    <3>2. subs(x) \subseteq 1..n
      BY <2>3
    <3> HIDE DEF subs
    <3> QED
      BY <3>1, <3>2, FS_Subset
  <2> DEFINE f == [c \in subs(x) |-> <<Append(x[1], c), Cells(x[2])[c].type>>]
  <2>5. of(x) = {f[c] : c \in subs(x)}
    OBVIOUS
  <2> HIDE DEF f, of, subs
  <2> QED
    BY <2>4, <2>5, FiniteImage
<1>3. IsFiniteSet(all)
  <2> DEFINE f == [x \in X |-> of(x)]
  <2>1. all = {f[x] : x \in X}
    OBVIOUS
  <2> HIDE DEF f, all
  <2> QED
    BY <2>1, FiniteImage
<1>4. \A T \in all : IsFiniteSet(T)
  <2> HIDE DEF of
  <2> QED
    BY <1>2
<1>5. IsFiniteSet(Children(X))
  <2> HIDE DEF all
  <2> QED
    BY <1>1, <1>3, <1>4, FS_UNION
<1>6. ASSUME NEW x \in Children(X)
      PROVE  x \in Places
  <2>1. PICK u \in X : IsChild(x, u)
    BY ChildrenAre
  <2> QED
    BY <2>1, ChildIsPlace DEF IsChild
<1> QED
  BY <1>5, <1>6

(* A tree with the children of its places is a tree.                       *)
LEMMA NextLevel ==
    ASSUME Exact, NEW m \in Ready, NEW H, TreeOf(m, H)
    PROVE  TreeOf(m, H \cup Children(H))
<1> DEFINE N == H \cup Children(H)
<1>1. IsFiniteSet(N) /\ N \subseteq Places /\ <<<<>>, m>> \in N
  <2>1. IsFiniteSet(H) /\ H \in SUBSET Places /\ <<<<>>, m>> \in H
    BY DEF TreeOf
  <2>2. Children(H) \subseteq Places /\ IsFiniteSet(Children(H))
    BY <2>1, FiniteChildren
  <2> QED
    BY <2>1, <2>2, FS_Union
<1>2. \A x \in N : x = <<<<>>, m>> \/ \E u \in H : IsChild(x, u)
  BY ChildrenAre DEF TreeOf
<1>3. \A x \in N : x = <<<<>>, m>> \/ \E u \in N : IsChild(x, u)
  BY <1>2
<1>4. ASSUME NEW x \in N, NEW y \in N, x[1] = y[1]
      PROVE  x = y
  <2>1. ASSUME NEW z \in N, z # <<<<>>, m>>
        PROVE  \E u \in H : \E c \in DOMAIN Cells(u[2]) :
                  /\ z = Child(u, c) /\ z[1] # <<>> /\ Front(z[1]) = u[1] /\ Last(z[1]) = c
    <3>1. PICK u \in H : IsChild(z, u)
      BY <1>2, <2>1
    <3>2. PICK c \in DOMAIN Cells(u[2]) : ~is_gate(Cells(u[2])[c].type) /\ z = Child(u, c)
      BY <3>1 DEF IsChild
    <3>3. u \in Places
      BY DEF TreeOf
    <3> QED
      BY <3>2, <3>3, ChildIsPlace
  <2>2. CASE x = <<<<>>, m>>
    <3>1. y[1] = <<>>
      BY <1>4, <2>2
    <3> QED
      BY <2>1, <2>2, <3>1
  <2>3. CASE y = <<<<>>, m>>
    <3>1. x[1] = <<>>
      BY <1>4, <2>3
    <3> QED
      BY <2>1, <2>3, <3>1
  <2>4. CASE x # <<<<>>, m>> /\ y # <<<<>>, m>>
    <3>1. PICK u \in H : \E c \in DOMAIN Cells(u[2]) :
             x = Child(u, c) /\ x[1] # <<>> /\ Front(x[1]) = u[1] /\ Last(x[1]) = c
      BY <2>1, <2>4
    <3>2. PICK v \in H : \E c \in DOMAIN Cells(v[2]) :
             y = Child(v, c) /\ y[1] # <<>> /\ Front(y[1]) = v[1] /\ Last(y[1]) = c
      BY <2>1, <2>4
    <3>3. u[1] = v[1]
      BY <1>4, <3>1, <3>2
    <3>4. u = v
      BY <3>3 DEF TreeOf
    <3> QED
      BY <1>4, <3>1, <3>2, <3>4
  <2> QED
    BY <2>2, <2>3, <2>4
<1> HIDE DEF N
<1>5. TreeOf(m, N)
  BY <1>1, <1>3, <1>4 DEF TreeOf
<1> QED
  BY <1>5 DEF N

(* The module alone is a tree.                                             *)
LEMMA RootIsTree ==
    ASSUME NEW m \in Ready
    PROVE  TreeOf(m, {<<<<>>, m>>})
<1>1. <<>> \in Seq(Nat)
  OBVIOUS
<1>2. <<<<>>, m>> \in Places
  BY <1>1 DEF Places
<1>3. IsFiniteSet({<<<<>>, m>>})
  BY FS_Singleton
<1> QED
  BY <1>2, <1>3 DEF TreeOf

(* The levels of the hierarchy below a module.                             *)
Level(m) ==
    CHOOSE f : f = [k \in Nat |-> IF k = 0 THEN {<<<<>>, m>>} ELSE f[k - 1] \cup Children(f[k - 1])]

(* The hierarchy is built level by level.                                  *)
LEMMA LevelIs ==
    ASSUME Exact, NEW m \in Ready
    PROVE  /\ Hierarchy(m) = Level(m)[Cardinality(Names)]
           /\ Level(m)[0] = {<<<<>>, m>>}
           /\ \A k \in Nat : k # 0 => Level(m)[k] = Level(m)[k - 1] \cup Children(Level(m)[k - 1])
<1> DEFINE root == {<<<<>>, m>>}
           Levels(f) == f = [k \in Nat |-> IF k = 0 THEN root ELSE f[k - 1] \cup Children(f[k - 1])]
           level == CHOOSE f : Levels(f)
<1>1. Hierarchy(m) = level[Cardinality(Names)]
  BY DEF Hierarchy, Children
<1>2. level = Level(m)
  BY DEF Level
<1>3. TreeOf(m, root)
  BY RootIsTree
<1> DEFINE A == {H \in SUBSET Places : TreeOf(m, H)}
           step == [p \in Nat \X A |-> p[2] \cup Children(p[2])]
<1>4. root \in A
  BY <1>3 DEF TreeOf
<1>5. step \in [Nat \X A -> A]
  <2>1. ASSUME NEW H \in A
        PROVE  H \cup Children(H) \in A
    <3>1. TreeOf(m, H \cup Children(H))
      BY NextLevel
    <3> QED
      BY <3>1 DEF TreeOf
  <2>2. \A p \in Nat \X A : p[2] \cup Children(p[2]) \in A
    <3> HIDE DEF A
    <3> QED
      BY <2>1
  <2> HIDE DEF A
  <2> QED
    BY <2>2
<1>6. PICK g : Iterates(g, A, root, step)
  <2> HIDE DEF A, step, root
  <2> QED
    BY <1>4, <1>5, RecursionExists
<1>7. g \in [Nat -> A] /\ g[0] = root
  BY <1>6 DEF Iterates
<1> HIDE DEF root
<1>8. ASSUME NEW k \in Nat
      PROVE  g[k] = IF k = 0 THEN root ELSE g[k - 1] \cup Children(g[k - 1])
  <2>1. CASE k = 0
    BY <1>7, <2>1
  <2>2. CASE k # 0
    <3>1. k - 1 \in Nat /\ (k - 1) + 1 = k
      BY <2>2
    <3>2. g[k] = step[<<k, g[k - 1]>>]
      <4> HIDE DEF step, A
      <4> QED
        BY <1>6, <3>1 DEF Iterates
    <3>3. <<k, g[k - 1]>> \in Nat \X A
      <4> HIDE DEF A
      <4> QED
        BY <1>7, <3>1
    <3>4. step[<<k, g[k - 1]>>] = g[k - 1] \cup Children(g[k - 1])
      <4> HIDE DEF A
      <4> QED
        BY <3>3
    <3> QED
      BY <2>2, <3>2, <3>4
  <2> QED
    BY <2>1, <2>2
<1>9. Levels(g)
  <2>1. g = [k \in Nat |-> g[k]]
    <3> HIDE DEF A
    <3> QED
      BY <1>7
  <2> HIDE DEF A, step
  <2> QED
    BY <1>8, <2>1
<1>10. Levels(level)
  <2> HIDE DEF Levels
  <2> QED
    BY <1>9
<1>11. /\ level[0] = root
       /\ \A k \in Nat : k # 0 => level[k] = level[k - 1] \cup Children(level[k - 1])
  <2> HIDE DEF level, root
  <2> QED
    BY <1>10
<1> QED
  BY <1>1, <1>2, <1>11 DEF root

(* Every level of the hierarchy is a tree.                                 *)
LEMMA LevelsAreTrees ==
    ASSUME Exact, NEW m \in Ready
    PROVE  \A k \in Nat : TreeOf(m, Level(m)[k])
<1> DEFINE level == Level(m)
<1>1. /\ Hierarchy(m) = level[Cardinality(Names)] /\ level[0] = {<<<<>>, m>>}
      /\ \A k \in Nat : k # 0 => level[k] = level[k - 1] \cup Children(level[k - 1])
  BY LevelIs
<1>3. TreeOf(m, level[0])
  BY <1>1, RootIsTree
<1> HIDE DEF level
<1> DEFINE Good(k) == TreeOf(m, level[k])
           Bad == {k \in Nat : ~Good(k)}
<1>11. ASSUME Bad # {}
       PROVE  FALSE
  <2>1. PICK k \in Bad : \A y \in Bad : k <= y
    <3>1. Bad \subseteq Nat
      OBVIOUS
    <3> HIDE DEF Bad
    <3> QED
      BY <1>11, <3>1, LeastIndex
  <2>2. k \in Nat /\ ~Good(k)
    OBVIOUS
  <2>3. k # 0
    BY <1>3, <2>2
  <2>4. k - 1 \in Nat /\ k - 1 \notin Bad
    <3> HIDE DEF Bad
    <3> QED
      BY <2>1, <2>2, <2>3
  <2>5. TreeOf(m, level[k - 1])
    BY <2>4
  <2>6. level[k] = level[k - 1] \cup Children(level[k - 1])
    BY <1>1, <2>2, <2>3
  <2>7. TreeOf(m, level[k - 1] \cup Children(level[k - 1]))
    BY <2>5, NextLevel
  <2> QED
    BY <2>2, <2>6, <2>7
<1> QED
  BY <1>11 DEF level

(* The hierarchy below a module whose submodules are built is a finite     *)
(* tree.                                                                   *)
LEMMA HierarchyIs ==
    ASSUME Exact, NEW m \in Ready
    PROVE  TreeOf(m, Hierarchy(m))
BY LevelIs, LevelsAreTrees, NamesAre

(* The hierarchy of a module has no more levels than there are modules.    *)
LEMMA LevelsSettle ==
    ASSUME Exact, ~HasLoop(Instantiates), NEW m \in Ready
    PROVE  Children(Hierarchy(m)) \subseteq Hierarchy(m)
<1> DEFINE level == Level(m)
           n == Cardinality(Names)
           A == SUBSET Names
           step == [p \in Nat \X A |-> {s \in Names : \E u \in p[2] : s \in Submodules(u)}]
<1>1. /\ Hierarchy(m) = level[n] /\ level[0] = {<<<<>>, m>>} /\ n \in Nat
      /\ \A k \in Nat : k # 0 => level[k] = level[k - 1] \cup Children(level[k - 1])
  BY LevelIs, NamesAre
<1>2. PICK deep : Iterates(deep, A, Names, step)
  <2>1. step \in [Nat \X A -> A] /\ Names \in A
    OBVIOUS
  <2> HIDE DEF step, A
  <2> QED
    BY <2>1, RecursionExists
<1>3. /\ deep[0] = Names /\ \A k \in Nat : deep[k] \in SUBSET Names
      /\ \A k \in Nat : deep[k + 1] = {s \in Names : \E u \in deep[k] : s \in Submodules(u)}
  <2>1. deep \in [Nat -> A] /\ deep[0] = Names /\ \A k \in Nat : deep[k + 1] = step[<<k + 1, deep[k]>>]
    BY <1>2 DEF Iterates
  <2>2. \A k \in Nat : <<k + 1, deep[k]>> \in Nat \X A
    <3> HIDE DEF A
    <3> QED
      BY <2>1
  <2>3. \A k \in Nat : step[<<k + 1, deep[k]>>] = {s \in Names : \E u \in deep[k] : s \in Submodules(u)}
    <3> HIDE DEF A
    <3> QED
      BY <2>2
  <2> HIDE DEF step
  <2> QED
    BY <2>1, <2>3
<1> HIDE DEF step, A, level
<1>4. \A k \in Nat : deep[k + 1] \subseteq deep[k]
  <2> DEFINE Bad == {k \in Nat : ~(deep[k + 1] \subseteq deep[k])}
  <2> SUFFICES ASSUME Bad # {}
               PROVE  FALSE
    OBVIOUS
  <2>1. Bad \subseteq Nat
    OBVIOUS
  <2>2. PICK k \in Bad : \A y \in Bad : k <= y
    <3> HIDE DEF Bad
    <3> QED
      BY <2>1, LeastIndex
  <2>3. k \in Nat /\ ~(deep[k + 1] \subseteq deep[k])
    OBVIOUS
  <2>4. k # 0
    BY <1>3, <2>3
  <2>5. k - 1 \in Nat /\ (k - 1) + 1 = k /\ ~(k <= k - 1)
    BY <2>3, <2>4
  <2>6. deep[(k - 1) + 1] \subseteq deep[k - 1]
    BY <2>2, <2>5
  <2>7. deep[k + 1] \subseteq deep[(k - 1) + 1]
    BY <1>3, <2>3, <2>5, <2>6
  <2> QED
    BY <2>3, <2>5, <2>7
<1>5. deep[n] = {}
  <2>1. PICK j \in 0..n : deep[j + 1] = deep[j]
    BY <1>1, <1>3, <1>4, NamesAre, SetsSettle
  <2>2. deep[j] = {}
    <3>1. \A s \in deep[j] : \E u \in deep[j] : s \in Submodules(u)
      BY <1>1, <1>3, <2>1
    <3> QED
      BY <1>1, <1>3, <3>1, TopmostModule
  <2>3. \A k \in Nat : deep[k + 1] = deep[k] => deep[k + 2] = deep[k + 1]
    <3> SUFFICES ASSUME NEW k \in Nat, deep[k + 1] = deep[k]
                 PROVE  deep[k + 2] = deep[k + 1]
      OBVIOUS
    <3>1. k + 1 \in Nat /\ (k + 1) + 1 = k + 2
      OBVIOUS
    <3>2. deep[(k + 1) + 1] = {s \in Names : \E u \in deep[k + 1] : s \in Submodules(u)}
      BY <1>3, <3>1
    <3> QED
      BY <1>3, <3>1, <3>2
  <2>4. j \in Nat /\ n >= j
    BY <1>1
  <2> QED
    BY <1>1, <2>1, <2>2, <2>3, <2>4, FixedForever
<1> DEFINE New(k) == \A x \in level[k] : (k # 0 /\ x \in level[k - 1]) \/ x[2] \in deep[k]
           Bad == {k \in Nat : ~New(k)}
<1>6. Bad = {}
  <2> SUFFICES ASSUME Bad # {}
               PROVE  FALSE
    OBVIOUS
  <2>1. Bad \subseteq Nat
    OBVIOUS
  <2>2. PICK k \in Bad : \A y \in Bad : k <= y
    <3> HIDE DEF Bad
    <3> QED
      BY <2>1, LeastIndex
  <2>3. k \in Nat /\ ~New(k)
    OBVIOUS
  <2>4. k # 0
    <3>1. New(0)
      BY <1>1, <1>3 DEF Ready
    <3> HIDE DEF New
    <3> QED
      BY <2>3, <3>1
  <2>5. k - 1 \in Nat /\ (k - 1) + 1 = k /\ ~(k <= k - 1)
    BY <2>3, <2>4
  <2>6. New(k - 1)
    <3>1. k - 1 \notin Bad
      <4> HIDE DEF Bad
      <4> QED
        BY <2>2, <2>5
    <3> HIDE DEF New
    <3> QED
      BY <2>5, <3>1
  <2>7. PICK x \in level[k] : x \notin level[k - 1] /\ x[2] \notin deep[k]
    BY <2>3, <2>4
  <2>8. PICK u \in level[k - 1] : IsChild(x, u)
    BY <1>1, <2>3, <2>4, <2>7, ChildrenAre
  <2>9. k - 1 # 0 => u \notin level[(k - 1) - 1]
    <3> SUFFICES ASSUME k - 1 # 0, u \in level[(k - 1) - 1]
                 PROVE  x \in level[k - 1]
      BY <2>7
    <3>1. x \in Children(level[(k - 1) - 1])
      BY <2>8, ChildrenAre
    <3> QED
      BY <1>1, <2>5, <3>1
  <2>10. u[2] \in deep[k - 1]
    BY <2>6, <2>9
  <2>11. x[2] \in Submodules(u[2])
    BY <2>8 DEF IsChild, Child, Submodules, Range
  <2>12. x[2] \in Names
    <3>1. u[2] \in Names
      BY <1>3, <2>5, <2>10
    <3>2. u[2] \in Ready
      <4>1. TreeOf(m, level[k - 1])
        BY <2>5, LevelsAreTrees DEF level
      <4> QED
        BY <4>1 DEF TreeOf, Places
    <3> QED
      BY <2>11, <3>2 DEF Ready, Exact
  <2>13. x[2] \in deep[(k - 1) + 1]
    BY <1>3, <2>5, <2>10, <2>11, <2>12
  <2> QED
    BY <2>5, <2>7, <2>13
<1>7. New(n)
  <2> HIDE DEF New
  <2> QED
    BY <1>1, <1>6
<1>8. n # 0 /\ level[n] \subseteq level[n - 1]
  <2>1. n # 0
    <3>1. level[0] # {} /\ deep[0] # {}
      BY <1>1, <1>3 DEF Ready
    <3> QED
      BY <1>5, <3>1
  <2> QED
    BY <1>5, <1>7, <2>1
<1>9. Children(level[n]) \subseteq Children(level[n - 1])
  <2> SUFFICES ASSUME NEW x \in Children(level[n])
               PROVE  x \in Children(level[n - 1])
    OBVIOUS
  <2>1. PICK u \in level[n] : IsChild(x, u)
    BY ChildrenAre
  <2> QED
    BY <1>8, <2>1, ChildrenAre
<1> QED
  BY <1>1, <1>8, <1>9

(* It is the least set with the module and, with an instance, those in it. *)
LEMMA HierarchyLeast ==
    ASSUME Exact, NEW m \in Ready, NEW T, <<<<>>, m>> \in T,
           \A u \in T : \A x : IsChild(x, u) => x \in T
    PROVE  Hierarchy(m) \subseteq T
<1> DEFINE level == Level(m)
           n == Cardinality(Names)
           Bad == {k \in Nat : ~(level[k] \subseteq T)}
<1>1. /\ Hierarchy(m) = level[n] /\ level[0] = {<<<<>>, m>>} /\ n \in Nat
      /\ \A k \in Nat : k # 0 => level[k] = level[k - 1] \cup Children(level[k - 1])
  BY LevelIs, NamesAre
<1> HIDE DEF level, n
<1> SUFFICES ASSUME Bad # {}
             PROVE  FALSE
  BY <1>1
<1>2. Bad \subseteq Nat
  OBVIOUS
<1>3. PICK k \in Bad : \A y \in Bad : k <= y
  <2> HIDE DEF Bad
  <2> QED
    BY <1>2, LeastIndex
<1>4. k \in Nat /\ ~(level[k] \subseteq T)
  OBVIOUS
<1>5. k # 0
  BY <1>1, <1>4
<1>6. k - 1 \in Nat /\ ~(k <= k - 1)
  BY <1>4, <1>5
<1>7. level[k - 1] \subseteq T
  BY <1>3, <1>6
<1>8. Children(level[k - 1]) \subseteq T
  <2> SUFFICES ASSUME NEW x \in Children(level[k - 1])
               PROVE  x \in T
    OBVIOUS
  <2>1. PICK u \in level[k - 1] : IsChild(x, u)
    BY ChildrenAre
  <2> QED
    BY <1>7, <2>1
<1> QED
  BY <1>1, <1>4, <1>5, <1>7, <1>8

(* The instances below it are of modules that are built.                   *)
LEMMA SubIsBuilt ==
    ASSUME Exact, NEW m \in Ready, NEW x \in Hierarchy(m), x[1] # <<>>
    PROVE  x \in Subs(m) /\ x[2] \in DOMAIN built
<1>1. TreeOf(m, Hierarchy(m))
  BY HierarchyIs
<1>2. PICK u \in Hierarchy(m) : IsChild(x, u)
  BY <1>1 DEF TreeOf
<1>3. PICK c \in DOMAIN Cells(u[2]) : ~is_gate(Cells(u[2])[c].type) /\ x = Child(u, c)
  BY <1>2 DEF IsChild
<1>4. u \in Places
  BY <1>1 DEF TreeOf
<1>5. Cells(u[2])[c].type \in DOMAIN built
  BY <1>3, <1>4, ChildIsPlace
<1> QED
  BY <1>3, <1>5 DEF Child, Subs

-----------------------------------------------------------------------------
(* What is below an instance of a module: a place or a net of the module   *)
(* of cell c is one of the module that c is a cell of.                     *)
Under(c, n) == <<Cons(c, n[1]), n[2]>>

(* What a path under a cell is.                                            *)
LEMMA ConsIs ==
    ASSUME NEW c \in Nat, NEW p \in Seq(Nat)
    PROVE  /\ Cons(c, p) \in Seq(Nat) /\ Cons(c, p) # <<>>
           /\ Len(Cons(c, p)) = Len(p) + 1 /\ Cons(c, p)[1] = c
           /\ \A i \in 1..Len(p) : Cons(c, p)[i + 1] = p[i]
<1>1. <<c>> \in Seq(Nat) /\ Len(<<c>>) = 1
  OBVIOUS
<1>2. Cons(c, p) \in Seq(Nat) /\ Len(Cons(c, p)) = 1 + Len(p) /\ Len(p) \in Nat
  BY <1>1 DEF Cons
<1>3. Cons(c, p)[1] = c
  BY <1>2 DEF Cons
<1>4. \A i \in 1..Len(p) : Cons(c, p)[i + 1] = p[i]
  BY <1>2 DEF Cons
<1>5. Cons(c, p) # <<>>
  BY <1>2
<1> QED
  BY <1>2, <1>3, <1>4, <1>5

(* Paths under cells are the same when the cells and the paths are.        *)
LEMMA ConsSame ==
    ASSUME NEW c \in Nat, NEW p \in Seq(Nat), NEW d \in Nat, NEW q \in Seq(Nat),
           Cons(c, p) = Cons(d, q)
    PROVE  c = d /\ p = q
<1> DEFINE r == Cons(c, p)
           s == Cons(d, q)
<1>6. r[1] = c /\ Len(r) = Len(p) + 1 /\ \A i \in 1..Len(p) : r[i + 1] = p[i]
  BY ConsIs
<1>7. s[1] = d /\ Len(s) = Len(q) + 1 /\ \A i \in 1..Len(q) : s[i + 1] = q[i]
  BY ConsIs
<1>8. r = s
  OBVIOUS
<1> HIDE DEF r, s
<1>1. c = d
  BY <1>6, <1>7, <1>8
<1>2. Len(p) = Len(q) /\ Len(p) \in Nat
  <2>1. Len(p) \in Nat /\ Len(q) \in Nat
    OBVIOUS
  <2>2. Len(p) + 1 = Len(q) + 1
    BY <1>6, <1>7, <1>8
  <2> QED
    BY <2>1, <2>2
<1>3. \A i \in 1..Len(p) : p[i] = q[i]
  BY <1>2, <1>6, <1>7, <1>8
<1>4. p = [i \in 1..Len(p) |-> p[i]] /\ q = [i \in 1..Len(q) |-> q[i]]
  OBVIOUS
<1>5. p = q
  BY <1>2, <1>3, <1>4
<1> QED
  BY <1>1, <1>5

(* A child of what is under a cell is under that cell.                     *)
LEMMA ConsAppend ==
    ASSUME NEW c \in Nat, NEW p \in Seq(Nat), NEW d \in Nat
    PROVE  Append(Cons(c, p), d) = Cons(c, Append(p, d)) /\ Append(<<>>, d) = Cons(d, <<>>)
<1>1. /\ Append(p, d) \in Seq(Nat) /\ Len(Append(p, d)) = Len(p) + 1 /\ Len(p) \in Nat
      /\ \A i \in 1..Len(p) : Append(p, d)[i] = p[i]
      /\ Append(p, d)[Len(p) + 1] = d
  BY AppendIs
<1>2. Cons(c, p) \in Seq(Nat) /\ Len(Cons(c, p)) = Len(p) + 1
  BY ConsIs
<1> DEFINE l == Append(Cons(c, p), d)
           r == Cons(c, Append(p, d))
<1>3. /\ l \in Seq(Nat) /\ Len(l) = Len(Cons(c, p)) + 1
      /\ \A i \in 1..Len(Cons(c, p)) : l[i] = Cons(c, p)[i]
      /\ l[Len(Cons(c, p)) + 1] = d
  BY <1>2, AppendIs
<1>4. /\ r \in Seq(Nat) /\ Len(r) = Len(Append(p, d)) + 1 /\ r[1] = c
      /\ \A i \in 1..Len(Append(p, d)) : r[i + 1] = Append(p, d)[i]
  BY <1>1, ConsIs
<1>5. Cons(c, p)[1] = c /\ \A i \in 1..Len(p) : Cons(c, p)[i + 1] = p[i]
  BY ConsIs
<1> HIDE DEF l, r
<1>6. ASSUME NEW i \in 1..Len(l)
      PROVE  l[i] = r[i]
  <2>1. i = 1 \/ i = Len(p) + 2 \/ (i - 1 \in 1..Len(p) /\ (i - 1) + 1 = i)
    BY <1>1, <1>2, <1>3
  <2>2. CASE i = 1
    <3>1. l[1] = Cons(c, p)[1]
      BY <1>1, <1>2, <1>3
    <3> QED
      BY <1>4, <1>5, <2>2, <3>1
  <2>3. CASE i = Len(p) + 2
    <3>1. Len(p) + 1 \in 1..Len(Append(p, d)) /\ (Len(p) + 1) + 1 = Len(p) + 2
      BY <1>1
    <3>2. r[(Len(p) + 1) + 1] = d
      BY <1>1, <1>4, <3>1
    <3>3. l[(Len(p) + 1) + 1] = d
      BY <1>2, <1>3
    <3> QED
      BY <2>3, <3>1, <3>2, <3>3
  <2>4. CASE i - 1 \in 1..Len(p) /\ (i - 1) + 1 = i
    <3>1. l[i] = Cons(c, p)[i]
      BY <1>1, <1>2, <1>3, <2>4
    <3>2. Cons(c, p)[(i - 1) + 1] = p[i - 1]
      BY <1>5, <2>4
    <3>3. r[(i - 1) + 1] = p[i - 1]
      <4>1. i - 1 \in 1..Len(Append(p, d)) /\ Append(p, d)[i - 1] = p[i - 1]
        BY <1>1, <2>4
      <4> QED
        BY <1>4, <4>1
    <3> QED
      BY <2>4, <3>1, <3>2, <3>3
  <2> QED
    BY <2>1, <2>2, <2>3, <2>4
<1>7. l = [i \in 1..Len(l) |-> l[i]] /\ r = [i \in 1..Len(r) |-> r[i]] /\ Len(l) = Len(r)
  BY <1>1, <1>2, <1>3, <1>4
<1>8. l = r
  BY <1>6, <1>7
<1>9. Append(<<>>, d) = Cons(d, <<>>)
  BY DEF Cons
<1> QED
  BY <1>8, <1>9 DEF l, r

(* Going under a cell keeps children, and adds none.                       *)
LEMMA UnderChild ==
    ASSUME Exact, NEW c \in Nat, NEW u \in Places, NEW x
    PROVE  /\ IsChild(x, u) => IsChild(Under(c, x), Under(c, u))
           /\ IsChild(x, Under(c, u)) => \E y : IsChild(y, u) /\ x = Under(c, y)
<1>1. u[1] \in Seq(Nat) /\ Under(c, u)[2] = u[2] /\ Under(c, u)[1] = Cons(c, u[1])
  BY DEF Places, Under
<1>2. ASSUME NEW d \in DOMAIN Cells(u[2]), ~is_gate(Cells(u[2])[d].type)
      PROVE  Child(Under(c, u), d) = Under(c, Child(u, d))
  <2>1. d \in Nat
    BY <1>2, ChildIsPlace
  <2>2. Append(Cons(c, u[1]), d) = Cons(c, Append(u[1], d))
    BY <1>1, <2>1, ConsAppend
  <2>3. Child(u, d)[1] = Append(u[1], d) /\ Child(u, d)[2] = Cells(u[2])[d].type
    BY DEF Child
  <2> QED
    BY <1>1, <2>2, <2>3 DEF Child, Under
<1>3. ASSUME IsChild(x, u)
      PROVE  IsChild(Under(c, x), Under(c, u))
  <2>1. PICK d \in DOMAIN Cells(u[2]) : ~is_gate(Cells(u[2])[d].type) /\ x = Child(u, d)
    BY <1>3 DEF IsChild
  <2>2. Child(Under(c, u), d) = Under(c, x)
    BY <1>2, <2>1
  <2> QED
    BY <1>1, <2>1, <2>2 DEF IsChild
<1>4. ASSUME IsChild(x, Under(c, u))
      PROVE  \E y : IsChild(y, u) /\ x = Under(c, y)
  <2>1. PICK d \in DOMAIN Cells(u[2]) : ~is_gate(Cells(u[2])[d].type) /\ x = Child(Under(c, u), d)
    BY <1>1, <1>4 DEF IsChild
  <2>2. x = Under(c, Child(u, d)) /\ IsChild(Child(u, d), u)
    BY <1>2, <2>1 DEF IsChild
  <2> QED
    BY <2>2
<1> QED
  BY <1>3, <1>4

(* The cells of a module that are instances of modules.                    *)
SubCells(m) == {c \in DOMAIN Cells(m) : ~is_gate(Cells(m)[c].type)}
TypeOf(m, c) == Cells(m)[c].type

(* The module of a cell is built, ready, and a child of the module.        *)
LEMMA SubCellsAre ==
    ASSUME Exact, NEW m \in Ready, NEW c \in SubCells(m)
    PROVE  /\ c \in Nat /\ TypeOf(m, c) \in DOMAIN built /\ TypeOf(m, c) \in Ready
           /\ TypeOf(m, c) \in Submodules(m)
           /\ IsChild(Under(c, <<<<>>, TypeOf(m, c)>>), <<<<>>, m>>)
<1>1. <<<<>>, m>> \in Places
  BY RootIsTree DEF TreeOf
<1>2. /\ c \in Nat /\ TypeOf(m, c) \in DOMAIN built
      /\ Child(<<<<>>, m>>, c) \in Places
  BY <1>1, ChildIsPlace DEF SubCells, TypeOf
<1>3. TypeOf(m, c) \in Ready
  BY <1>2 DEF Ready, Exact
<1>4. Child(<<<<>>, m>>, c) = Under(c, <<<<>>, TypeOf(m, c)>>)
  <2>1. <<>> \in Seq(Nat)
    OBVIOUS
  <2>2. Append(<<>>, c) = Cons(c, <<>>)
    BY <1>2, <2>1, ConsAppend
  <2> QED
    BY <2>2 DEF Child, Under, TypeOf
<1>5. IsChild(Under(c, <<<<>>, TypeOf(m, c)>>), <<<<>>, m>>)
  BY <1>4 DEF IsChild, SubCells
<1>6. TypeOf(m, c) \in Submodules(m)
  BY DEF TypeOf, SubCells, Submodules, Range
<1> QED
  BY <1>2, <1>3, <1>5, <1>6

(* The hierarchy below a module is the module and those below its cells.   *)
LEMMA HierarchyBelow ==
    ASSUME Exact, ~HasLoop(Instantiates), NEW m \in Ready, NEW x
    PROVE  x \in Hierarchy(m) <=>
              \/ x = <<<<>>, m>>
              \/ \E c \in SubCells(m) : \E y \in Hierarchy(TypeOf(m, c)) : x = Under(c, y)
<1> DEFINE Below(z) == \/ z = <<<<>>, m>>
                       \/ \E c \in SubCells(m) : \E y \in Hierarchy(TypeOf(m, c)) : z = Under(c, y)
           T == {z \in Hierarchy(m) : Below(z)}
<1>1. TreeOf(m, Hierarchy(m))
  BY HierarchyIs
<1>2. ASSUME NEW u, NEW z, IsChild(z, u), Below(u)
      PROVE  Below(z)
  <2>1. CASE u = <<<<>>, m>>
    <3>1. PICK c \in SubCells(m) : z = Child(u, c)
      BY <1>2, <2>1 DEF IsChild, SubCells
    <3>2. c \in Nat /\ TypeOf(m, c) \in Ready
      BY SubCellsAre
    <3>3. z = Under(c, <<<<>>, TypeOf(m, c)>>)
      <4>1. <<>> \in Seq(Nat)
        OBVIOUS
      <4>2. Append(<<>>, c) = Cons(c, <<>>)
        BY <3>2, <4>1, ConsAppend
      <4> QED
        BY <2>1, <3>1, <4>2 DEF Child, Under, TypeOf
    <3>4. <<<<>>, TypeOf(m, c)>> \in Hierarchy(TypeOf(m, c))
      BY <3>2, HierarchyIs DEF TreeOf
    <3> QED
      BY <3>3, <3>4
  <2>2. ASSUME NEW c \in SubCells(m), NEW y \in Hierarchy(TypeOf(m, c)), u = Under(c, y)
        PROVE  Below(z)
    <3>1. c \in Nat /\ TypeOf(m, c) \in Ready
      BY SubCellsAre
    <3>2. y \in Places
      BY <3>1, HierarchyIs DEF TreeOf
    <3>3. PICK v : IsChild(v, y) /\ z = Under(c, v)
      <4>1. IsChild(z, Under(c, y))
        BY <1>2, <2>2
      <4> QED
        BY <3>1, <3>2, <4>1, UnderChild
    <3>4. v \in Hierarchy(TypeOf(m, c))
      <4>1. v \in Children(Hierarchy(TypeOf(m, c)))
        BY <3>3, ChildrenAre
      <4> QED
        BY <3>1, <4>1, LevelsSettle
    <3> QED
      BY <3>3, <3>4
  <2> QED
    BY <1>2, <2>1, <2>2
<1>3. Hierarchy(m) \subseteq {z \in Hierarchy(m) : Below(z)}
  <2>1. <<<<>>, m>> \in T
    BY <1>1 DEF TreeOf
  <2>2. \A u \in T : \A z : IsChild(z, u) => z \in T
    <3> SUFFICES ASSUME NEW u \in T, NEW z, IsChild(z, u)
                 PROVE  z \in T
      OBVIOUS
    <3>1. z \in Children(Hierarchy(m))
      BY ChildrenAre
    <3>2. z \in Hierarchy(m)
      BY <3>1, LevelsSettle
    <3>3. Below(z)
      <4>1. Below(u)
        OBVIOUS
      <4> HIDE DEF Below
      <4> QED
        BY <1>2, <4>1
    <3> QED
      BY <3>2, <3>3
  <2> HIDE DEF T
  <2>3. Hierarchy(m) \subseteq T
    BY <2>1, <2>2, HierarchyLeast
  <2> QED
    BY <2>3 DEF T
<1>4. ASSUME NEW c \in SubCells(m), NEW y \in Hierarchy(TypeOf(m, c))
      PROVE  Under(c, y) \in Hierarchy(m)
  <2> DEFINE s == TypeOf(m, c)
             U == {z \in Places : Under(c, z) \in Hierarchy(m)}
  <2>1. c \in Nat /\ s \in Ready
    BY SubCellsAre
  <2>2. <<<<>>, s>> \in U
    <3>1. Under(c, <<<<>>, s>>) \in Children(Hierarchy(m))
      <4>1. <<<<>>, m>> \in Hierarchy(m) /\ IsChild(Under(c, <<<<>>, s>>), <<<<>>, m>>)
        BY <1>1, SubCellsAre DEF TreeOf
      <4> QED
        BY <4>1, ChildrenAre
    <3>2. <<<<>>, s>> \in Places
      BY <2>1, RootIsTree DEF TreeOf
    <3> QED
      BY <3>1, <3>2, LevelsSettle
  <2>3. \A u \in U : \A z : IsChild(z, u) => z \in U
    <3> SUFFICES ASSUME NEW u \in U, NEW z, IsChild(z, u)
                 PROVE  z \in U
      OBVIOUS
    <3>1. u \in Places /\ Under(c, u) \in Hierarchy(m)
      OBVIOUS
    <3>2. IsChild(Under(c, z), Under(c, u))
      BY <2>1, <3>1, UnderChild
    <3>3. Under(c, z) \in Children(Hierarchy(m))
      BY <3>1, <3>2, ChildrenAre
    <3>4. z \in Places
      BY <3>1, ChildIsPlace DEF IsChild
    <3> QED
      BY <3>3, <3>4, LevelsSettle
  <2> HIDE DEF U, s
  <2>4. Hierarchy(s) \subseteq U
    BY <2>1, <2>2, <2>3, HierarchyLeast
  <2> QED
    BY <2>4 DEF U, s
<1>5. <<<<>>, m>> \in Hierarchy(m)
  BY <1>1 DEF TreeOf
<1> QED
  BY <1>3, <1>4, <1>5

-----------------------------------------------------------------------------
(* The clocks.                                                             *)

(* The nets that a port bit of an instance joins.                          *)
LEMMA PortNetsAre ==
    ASSUME Exact, NEW m \in Ready, NEW dir
    PROVE  /\ IsFiniteSet(PortNets(m, dir))
           /\ \A e : e \in PortNets(m, dir) <=>
                 \E x \in Subs(m) : \E b \in Range(AllBits(YM(x[2]))) :
                     /\ YM(x[2]).ports[b[1]].dir = dir
                     /\ e = <<<<Front(x[1]), CellWire(CellOf(m, x), b)>>,
                              <<x[1], BitWire(YM(x[2]), b)>>>>
<1> DEFINE bits(x) == {b \in Range(AllBits(YM(x[2]))) : YM(x[2]).ports[b[1]].dir = dir}
           net(x, b) == <<<<Front(x[1]), CellWire(CellOf(m, x), b)>>, <<x[1], BitWire(YM(x[2]), b)>>>>
           of(x) == {net(x, b) : b \in bits(x)}
           all == {of(x) : x \in Subs(m)}
<1>1. PortNets(m, dir) = UNION all
  BY DEF PortNets
<1>2. TreeOf(m, Hierarchy(m))
  BY HierarchyIs
<1>3. IsFiniteSet(Subs(m)) /\ \A x \in Subs(m) : x \in Places
  <2>1. Subs(m) \subseteq Hierarchy(m)
    BY DEF Subs
  <2> QED
    BY <1>2, <2>1, FS_Subset DEF TreeOf
<1>4. ASSUME NEW x \in Subs(m)
      PROVE  IsFiniteSet(of(x))
  <2>1. x[2] \in Names /\ design \in Designs
    BY <1>3 DEF Places, Ready, Exact
  <2>2. AllBits(YM(x[2])) \in Seq(Nat \X Int)
    BY <2>1, ModulesAreWellFormed, AllBitsIs
  <2> DEFINE bs == AllBits(YM(x[2]))
  <2>3. PICK n \in Nat : DOMAIN bs = 1..n
    BY <2>2
  <2>4. IsFiniteSet(Range(bs))
    <3>1. IsFiniteSet(1..n)
      BY FS_Interval
    <3> HIDE DEF bs
    <3>2. IsFiniteSet({bs[k] : k \in 1..n})
      BY <3>1, FiniteImage
    <3> QED
      BY <2>3, <3>2 DEF Range
  <2>5. IsFiniteSet(bits(x))
    <3>1. bits(x) \subseteq Range(bs)
      OBVIOUS
    <3> HIDE DEF bits, bs
    <3> QED
      BY <2>4, <3>1, FS_Subset
  <2> DEFINE f == [b \in bits(x) |-> net(x, b)]
  <2>6. of(x) = {f[b] : b \in bits(x)}
    OBVIOUS
  <2> HIDE DEF f, of, bits
  <2> QED
    BY <2>5, <2>6, FiniteImage
<1>5. IsFiniteSet(all)
  <2> DEFINE f == [x \in Subs(m) |-> of(x)]
  <2>1. all = {f[x] : x \in Subs(m)}
    OBVIOUS
  <2> HIDE DEF f, all
  <2> QED
    BY <1>3, <2>1, FiniteImage
<1>6. \A T \in all : IsFiniteSet(T)
  <2> HIDE DEF of
  <2> QED
    BY <1>4
<1>7. IsFiniteSet(UNION all)
  <2> HIDE DEF all
  <2> QED
    BY <1>5, <1>6, FS_UNION
<1>8. ASSUME NEW e
      PROVE  e \in UNION all <=> \E x \in Subs(m) : \E b \in Range(AllBits(YM(x[2]))) :
                                    YM(x[2]).ports[b[1]].dir = dir /\ e = net(x, b)
  <2> HIDE DEF net
  <2> QED
    OBVIOUS
<1> QED
  BY <1>1, <1>7, <1>8

(* An instance is a cell of the instance above it.                         *)
LEMMA CellOfIs ==
    ASSUME Exact, NEW m \in Ready, NEW x \in Subs(m)
    PROVE  \E u \in Hierarchy(m) : \E c \in DOMAIN Cells(u[2]) :
              /\ ~is_gate(Cells(u[2])[c].type) /\ x[2] = Cells(u[2])[c].type
              /\ Front(x[1]) = u[1] /\ CellOf(m, x) = Cells(u[2])[c]
<1>1. TreeOf(m, Hierarchy(m)) /\ x \in Hierarchy(m) /\ x # <<<<>>, m>>
  BY HierarchyIs DEF Subs
<1>2. PICK u \in Hierarchy(m) : IsChild(x, u)
  BY <1>1 DEF TreeOf
<1>3. PICK c \in DOMAIN Cells(u[2]) : ~is_gate(Cells(u[2])[c].type) /\ x = Child(u, c)
  BY <1>2 DEF IsChild
<1>4. u \in Places
  BY <1>1 DEF TreeOf
<1>5. Front(x[1]) = u[1] /\ Last(x[1]) = c
  BY <1>3, <1>4, ChildIsPlace
<1>6. (CHOOSE v \in Hierarchy(m) : v[1] = Front(x[1])) = u
  BY <1>1, <1>5 DEF TreeOf
<1>7. CellOf(m, x) = Cells(u[2])[c]
  BY <1>5, <1>6 DEF CellOf
<1> QED
  BY <1>3, <1>5, <1>7 DEF Child

(* The bit of its ports that Module.clock names is the only one that the   *)
(* clock comes in through.                                                 *)
LEMMA ClockNamed ==
    ASSUME Exact, NEW m \in DOMAIN built, NEW b \in Range(AllBits(YM(m))), ClockBits(m) = {b}
    PROVE  built[m].clock = b /\ b # NoBit
<1> DEFINE ym == YM(m)
           clock == module_clock_wire(built, ym)
           all == AllBits(ym)
           found == {k \in DOMAIN all : is_clock(ym, clock, all[k])}
<1>1. m \in Names /\ design \in Designs /\ BuildModule(built, ym).error = None
      /\ built[m] = BuildModule(built, ym).value
  BY DEF Exact
<1>2. WellFormed(ym) /\ ym.cells \in Seq(Range(ym.cells))
  BY <1>1, ModulesAreWellFormed
<1>3. built[m].clock = clock_name(ym, clock)
  BY <1>1, BuiltShape DEF ShapeOf
<1>4. BitWire(ym, b) \in ClockWires(built, ym)
  BY DEF ClockBits
<1>5. \A w \in ClockWires(built, ym) : w = clock /\ w # Unsupported
  <2>1. clock \in ClockWires(built, ym)
    BY <1>4 DEF module_clock_wire
  <2> HIDE DEF clock, ym
  <2>2. \A w1, w2 \in ClockWires(built, ym) : w1 = w2
    BY <1>1, <1>2, OneClockWire
  <2>3. Unsupported \notin ClockWires(built, ym)
    BY <1>1, BuiltChecks
  <2> QED
    BY <2>1, <2>2, <2>3
<1>6. all \in Seq(Nat \X Int) /\ b[1] \in DOMAIN ym.ports
  <2>1. PICK p \in DOMAIN ym.ports : \E o \in DOMAIN ym.ports[p].bits : b = <<p, o - 1>>
    BY <1>2, AllBitsIs
  <2> QED
    BY <1>2, <2>1, AllBitsIs
<1>7. PICK n \in Nat : DOMAIN all = 1..n
  BY <1>6
<1>8. PICK k \in 1..n : all[k] = b
  BY <1>7 DEF Range
<1>9. k \in found
  BY <1>4, <1>5, <1>7, <1>8 DEF is_clock
<1>10. found \subseteq 1..n /\ found \subseteq 0..n
  BY <1>7
<1>11. Max(found) \in found
  <2> HIDE DEF found
  <2> QED
    BY <1>9, <1>10, LargestIndex
<1>12. all[Max(found)] = b
  <2>1. Max(found) \in DOMAIN all /\ is_clock(ym, clock, all[Max(found)])
    BY <1>11
  <2>2. all[Max(found)] \in Range(all) /\ BitWire(ym, all[Max(found)]) = clock
    BY <2>1 DEF is_clock, Range
  <2>3. all[Max(found)] \in ClockBits(m)
    <3>1. clock \in ClockWires(built, ym)
      BY <1>4, <1>5
    <3> QED
      BY <2>2, <3>1 DEF ClockBits
  <2> QED
    BY <2>3
<1>13. clock_name(ym, clock) = all[Max(found)]
  BY <1>9 DEF clock_name
<1>14. b # NoBit
  <2>1. DOMAIN ym.ports \subseteq Nat \ {0}
    BY <1>2 DEF WellFormed
  <2> QED
    BY <1>6, <2>1 DEF NoBit
<1> QED
  BY <1>3, <1>12, <1>13, <1>14

(* The nets that clock a design are the clock wires of its instances.      *)
Clocked(m, n) == \E x \in Hierarchy(m) : n[1] = x[1] /\ n[2] \in ClockWires(built, YM(x[2]))

(* The clock pins of cells are on clock wires.                             *)
LEMMA PinsAreClocked ==
    ASSUME Exact, NEW m \in Ready, NEW n \in ClockPins(m)
    PROVE  Clocked(m, n)
<1>1. PICK x \in Hierarchy(m) : \E c \in DOMAIN Cells(x[2]) :
         Cells(x[2])[c].type = "DFF" /\ n = <<x[1], Cells(x[2])[c].con[1][1]>>
  BY DEF ClockPins, GateCells
<1>2. PICK c \in DOMAIN Cells(x[2]) :
         Cells(x[2])[c].type = "DFF" /\ n = <<x[1], Cells(x[2])[c].con[1][1]>>
  BY <1>1
<1> DEFINE cell == Cells(x[2])[c]
<1>3. clock_connection(built, cell) = {cell.con[1][1]}
  <2>1. Interface(built, "DFF") = Dff
    BY DEF Interface, is_gate, GateTypes, GateOf
  <2>2. Dff.clock = <<1, 0>> /\ <<1, 0>> # NoBit
    BY DEF Dff, NoBit
  <2>3. CellWire(cell, <<1, 0>>) = cell.con[1][1]
    <3>1. 0 + 1 = 1
      OBVIOUS
    <3> QED
      BY <3>1 DEF CellWire
  <2> HIDE DEF cell
  <2>4. clock_connection(built, cell) = {CellWire(cell, <<1, 0>>)}
    BY <1>2, <2>1, <2>2 DEF clock_connection, ClockPin, cell
  <2> QED
    BY <2>3, <2>4
<1>4. cell.con[1][1] \in ClockWires(built, YM(x[2]))
  <2>1. cell \in Range(YM(x[2]).cells)
    BY DEF Cells, Range
  <2> QED
    BY <1>3, <2>1 DEF ClockWires
<1> QED
  BY <1>2, <1>4 DEF Clocked

(* A clock wire of an instance, when it is a port, is a clock wire above.  *)
LEMMA ClockedAbove ==
    ASSUME Exact, OneClockBit, NEW m \in Ready,
           NEW e \in PortNets(m, "input"), Clocked(m, e[2])
    PROVE  Clocked(m, e[1])
<1>1. PICK x \in Subs(m) : \E b \in Range(AllBits(YM(x[2]))) :
         /\ YM(x[2]).ports[b[1]].dir = "input"
         /\ e = <<<<Front(x[1]), CellWire(CellOf(m, x), b)>>, <<x[1], BitWire(YM(x[2]), b)>>>>
  BY PortNetsAre
<1>2. PICK b \in Range(AllBits(YM(x[2]))) :
         e = <<<<Front(x[1]), CellWire(CellOf(m, x), b)>>, <<x[1], BitWire(YM(x[2]), b)>>>>
  BY <1>1
<1>3. TreeOf(m, Hierarchy(m)) /\ x \in Hierarchy(m)
  BY HierarchyIs DEF Subs
<1>4. x[2] \in DOMAIN built /\ BitWire(YM(x[2]), b) \in ClockWires(built, YM(x[2]))
  <2>1. PICK y \in Hierarchy(m) : e[2][1] = y[1] /\ e[2][2] \in ClockWires(built, YM(y[2]))
    BY DEF Clocked
  <2>2. y = x
    BY <1>2, <1>3, <2>1 DEF TreeOf
  <2>3. x[2] \in DOMAIN built
    BY <1>3, SubIsBuilt DEF Subs
  <2> QED
    BY <1>2, <2>1, <2>2, <2>3
<1>5. ClockBits(x[2]) = {b}
  <2>1. b \in ClockBits(x[2])
    BY <1>4 DEF ClockBits
  <2> QED
    BY <1>4, <2>1 DEF OneClockBit
<1>6. built[x[2]].clock = b /\ b # NoBit
  BY <1>4, <1>5, ClockNamed
<1>7. PICK u \in Hierarchy(m) : \E c \in DOMAIN Cells(u[2]) :
         /\ ~is_gate(Cells(u[2])[c].type) /\ x[2] = Cells(u[2])[c].type
         /\ Front(x[1]) = u[1] /\ CellOf(m, x) = Cells(u[2])[c]
  BY CellOfIs
<1>8. PICK c \in DOMAIN Cells(u[2]) :
         /\ ~is_gate(Cells(u[2])[c].type) /\ x[2] = Cells(u[2])[c].type
         /\ Front(x[1]) = u[1] /\ CellOf(m, x) = Cells(u[2])[c]
  BY <1>7
<1> DEFINE cell == Cells(u[2])[c]
<1>9. clock_connection(built, cell) = {CellWire(cell, b)}
  <2>1. Interface(built, cell.type) = built[x[2]]
    BY <1>8 DEF Interface
  <2> HIDE DEF cell
  <2> QED
    BY <1>6, <2>1 DEF clock_connection, ClockPin
<1>10. CellWire(cell, b) \in ClockWires(built, YM(u[2]))
  <2>1. cell \in Range(YM(u[2]).cells)
    BY DEF Cells, Range
  <2> QED
    BY <1>9, <2>1 DEF ClockWires
<1>11. e[1] = <<u[1], CellWire(cell, b)>>
  BY <1>2, <1>8
<1> HIDE DEF cell
<1> QED
  BY <1>10, <1>11 DEF Clocked

(* The registers of every accepted design whose clocks come in through     *)
(* ports are clocked by one net: of the hierarchy, module_clock_wire looks *)
(* at one module at a time.                                                *)
THEOREM RegistersHaveOneClock == BuildSpec => []OneClock
<1>1. ASSUME Exact
      PROVE  OneClock
  <2> SUFFICES ASSUME phase = "ready", ClocksArePorts
               PROVE  Cardinality(ClockRoots(design.top)) <= 1
    BY DEF OneClock
  <2> DEFINE m == design.top
             edges == PortNets(m, "input")
             all == ClockPins(m) \cup {e[1] : e \in edges} \cup {e[2] : e \in edges}
             T == {n \in all : Clocked(m, n)}
  <2>1. m \in DOMAIN built /\ m \in Ready
    BY <1>1 DEF Exact, Ready
  <2> HIDE DEF m
  <2>2. IsFiniteSet(edges)
    BY <1>1, <2>1, PortNetsAre
  <2>3. ClockPins(m) \subseteq T
    BY <1>1, <2>1, PinsAreClocked
  <2>4. \A e \in edges : e[2] \in T => e[1] \in T
    BY <1>1, <2>1, ClockedAbove DEF ClocksArePorts
  <2>5. ClockNets(m) \subseteq T
    <3> HIDE DEF T, edges
    <3>1. Upstream(edges, ClockPins(m)) \subseteq T
      BY <2>2, <2>3, <2>4, UpstreamIn
    <3> QED
      BY <3>1 DEF ClockNets, edges
  <2>6. TreeOf(m, Hierarchy(m))
    BY <1>1, <2>1, HierarchyIs
  <2>7. ASSUME NEW n \in ClockRoots(m)
        PROVE  /\ n[1] = <<>> /\ n[2] \in ClockWires(built, YM(m))
               /\ \E p, w : n = <<p, w>>
    <3>1. n \in T /\ \A e \in edges : e[2] # n
      BY <2>5 DEF ClockRoots
    <3>2. PICK x \in Hierarchy(m) : n[1] = x[1] /\ n[2] \in ClockWires(built, YM(x[2]))
      BY <3>1 DEF Clocked
    <3>3. x[2] \in DOMAIN built
      <4>1. CASE x[1] = <<>>
        <5>1. x = <<<<>>, m>>
          BY <2>6, <4>1 DEF TreeOf
        <5> QED
          BY <2>1, <5>1
      <4>2. CASE x[1] # <<>>
        BY <1>1, <2>1, <4>2, SubIsBuilt
      <4> QED
        BY <4>1, <4>2
    <3>4. \E p, w : n = <<p, w>>
      <4>1. n \in all
        BY <3>1
      <4>2. \A e \in edges : \E p, w : e[1] = <<p, w>>
        BY <1>1, <2>1, PortNetsAre
      <4>3. \A e \in edges : \E p, w : e[2] = <<p, w>>
        BY <1>1, <2>1, PortNetsAre
      <4>4. \A k \in ClockPins(m) : \E p, w : k = <<p, w>>
        BY DEF ClockPins
      <4> HIDE DEF edges
      <4> QED
        BY <4>1, <4>2, <4>3, <4>4
    <3>5. x[1] = <<>>
      <4> SUFFICES ASSUME x[1] # <<>>
                   PROVE  FALSE
        OBVIOUS
      <4>1. x \in Subs(m)
        BY DEF Subs
      <4>2. PICK b \in ClockBits(x[2]) : YM(x[2]).ports[b[1]].dir = "input"
        BY <3>2, <3>3 DEF ClocksArePorts, OneClockBit
      <4>3. b \in Range(AllBits(YM(x[2]))) /\ BitWire(YM(x[2]), b) \in ClockWires(built, YM(x[2]))
        BY <4>2 DEF ClockBits
      <4>4. BitWire(YM(x[2]), b) = n[2]
        <5>1. /\ BuildModule(built, YM(x[2])).error = None
              /\ YM(x[2]).cells \in Seq(Range(YM(x[2]).cells))
          BY <1>1, <3>3, ModulesAreWellFormed DEF Exact
        <5> QED
          BY <3>2, <4>3, <5>1, OneClockWire
      <4>5. <<x[1], BitWire(YM(x[2]), b)>> = n
        BY <3>2, <3>4, <4>4
      <4> DEFINE e == <<<<Front(x[1]), CellWire(CellOf(m, x), b)>>, <<x[1], BitWire(YM(x[2]), b)>>>>
      <4>6. e \in edges
        BY <1>1, <2>1, <4>1, <4>2, <4>3, PortNetsAre
      <4>7. e[2] = n
        BY <4>5
      <4> HIDE DEF e
      <4> QED
        BY <3>1, <4>6, <4>7
    <3>6. x = <<<<>>, m>>
      BY <2>6, <3>5 DEF TreeOf
    <3> QED
      BY <3>2, <3>4, <3>5, <3>6
  <2>8. \A n1, n2 \in ClockRoots(m) : n1 = n2
    <3>1. /\ BuildModule(built, YM(m)).error = None
          /\ YM(m).cells \in Seq(Range(YM(m).cells))
      BY <1>1, <2>1, ModulesAreWellFormed DEF Exact
    <3>2. \A w1, w2 \in ClockWires(built, YM(m)) : w1 = w2
      BY <3>1, OneClockWire
    <3> QED
      BY <2>7, <3>2
  <2>9. Cardinality(ClockRoots(m)) <= 1
    <3>1. CASE ClockRoots(m) = {}
      BY <3>1, FS_EmptySet
    <3>2. CASE ClockRoots(m) # {}
      <4>1. PICK n : ClockRoots(m) = {n}
        BY <2>8, <3>2
      <4>2. Cardinality({n}) = 1
        BY FS_Singleton
      <4> QED
        BY <4>1, <4>2
    <3> QED
      BY <3>1, <3>2
  <2> QED
    BY <2>9 DEF m
<1> QED
  BY <1>1, ExactInvariant, PTL

-----------------------------------------------------------------------------
(* The flat circuit of a module, from those of the modules of its cells.   *)
Top(w) == <<<<>>, w>>

(* The instance that cell c makes, and one below it.                       *)
LEMMA AtCell ==
    ASSUME Exact, ~HasLoop(Instantiates), NEW m \in Ready, NEW c \in SubCells(m)
    PROVE  LET x == Under(c, Top(TypeOf(m, c)))
           IN  /\ x \in Subs(m) /\ x[2] = TypeOf(m, c) /\ x[1] = Cons(c, <<>>)
               /\ Front(x[1]) = <<>> /\ CellOf(m, x) = Cells(m)[c]
<1> DEFINE x == Under(c, Top(TypeOf(m, c)))
<1>1. TreeOf(m, Hierarchy(m)) /\ <<<<>>, m>> \in Hierarchy(m)
  BY HierarchyIs DEF TreeOf
<1>2. c \in Nat /\ TypeOf(m, c) \in Ready
  BY SubCellsAre
<1>3. x \in Hierarchy(m)
  <2>1. Top(TypeOf(m, c)) \in Hierarchy(TypeOf(m, c))
    BY <1>2, HierarchyIs DEF TreeOf, Top
  <2> QED
    BY <2>1, HierarchyBelow
<1>4. x[1] = Cons(c, <<>>) /\ x[2] = TypeOf(m, c)
  BY DEF Under, Top
<1>5. Cons(c, <<>>) = Append(<<>>, c) /\ <<>> \in Seq(Nat)
  <2>1. <<>> \in Seq(Nat)
    OBVIOUS
  <2> QED
    BY <1>2, <2>1, ConsAppend
<1>6. Front(x[1]) = <<>> /\ Last(x[1]) = c /\ x[1] # <<>>
  BY <1>2, <1>4, <1>5, AppendEnds
<1>7. (CHOOSE v \in Hierarchy(m) : v[1] = Front(x[1])) = <<<<>>, m>>
  <2> HIDE DEF x
  <2> QED
    BY <1>1, <1>6 DEF TreeOf
<1> HIDE DEF x
<1>8. CellOf(m, x) = Cells(m)[c]
  <2> DEFINE up == CHOOSE v \in Hierarchy(m) : v[1] = Front(x[1])
  <2>1. CellOf(m, x) = Cells(up[2])[Last(x[1])]
    BY DEF CellOf
  <2>2. up[2] = m
    <3>1. up = <<<<>>, m>>
      BY <1>7
    <3> HIDE DEF up
    <3> QED
      BY <3>1
  <2> QED
    BY <1>6, <2>1, <2>2
<1> QED
  BY <1>3, <1>4, <1>6, <1>8 DEF Subs, x

(* An instance in the module of a cell is one in the module that has the   *)
(* cell.                                                                   *)
LEMMA BelowCell ==
    ASSUME Exact, ~HasLoop(Instantiates), NEW m \in Ready, NEW c \in SubCells(m),
           NEW y \in Subs(TypeOf(m, c))
    PROVE  LET x == Under(c, y)
           IN  /\ x \in Subs(m) /\ x[2] = y[2] /\ x[1] = Cons(c, y[1])
               /\ Front(x[1]) = Cons(c, Front(y[1])) /\ CellOf(m, x) = CellOf(TypeOf(m, c), y)
               /\ y[1] \in Seq(Nat) /\ Front(y[1]) \in Seq(Nat) /\ y[2] \in DOMAIN built
<1> DEFINE x == Under(c, y)
           t == TypeOf(m, c)
<1>1. TreeOf(m, Hierarchy(m))
  BY HierarchyIs
<1>2. c \in Nat /\ t \in Ready
  BY SubCellsAre
<1>3. TreeOf(t, Hierarchy(t)) /\ y \in Hierarchy(t) /\ y[1] # <<>> /\ y # <<<<>>, t>>
  BY <1>2, HierarchyIs DEF Subs
<1>4. x \in Hierarchy(m) /\ x[1] = Cons(c, y[1]) /\ x[2] = y[2]
  BY <1>3, HierarchyBelow DEF Under
<1>5. PICK u \in Hierarchy(t) : IsChild(y, u)
  BY <1>3 DEF TreeOf
<1>6. PICK d \in DOMAIN Cells(u[2]) : ~is_gate(Cells(u[2])[d].type) /\ y = Child(u, d)
  BY <1>5 DEF IsChild
<1>7. u \in Places /\ u[1] \in Seq(Nat)
  BY <1>3 DEF TreeOf, Places
<1>8. d \in Nat /\ Front(y[1]) = u[1] /\ Last(y[1]) = d /\ y[1] = Append(u[1], d)
  <2>1. y[1] = Append(u[1], d)
    BY <1>6 DEF Child
  <2> QED
    BY <1>6, <1>7, <2>1, ChildIsPlace
<1>9. x[1] = Append(Cons(c, u[1]), d) /\ Cons(c, u[1]) \in Seq(Nat)
  <2>1. Cons(c, u[1]) \in Seq(Nat)
    BY <1>2, <1>7, ConsIs
  <2>2. Append(Cons(c, u[1]), d) = Cons(c, Append(u[1], d))
    BY <1>2, <1>7, <1>8, ConsAppend
  <2> QED
    BY <1>4, <1>8, <2>1, <2>2
<1>10. Front(x[1]) = Cons(c, u[1]) /\ Last(x[1]) = d /\ x[1] # <<>>
  <2> DEFINE s == Cons(c, u[1])
  <2>1. s \in Seq(Nat) /\ d \in Nat /\ x[1] = Append(s, d)
    BY <1>8, <1>9
  <2> HIDE DEF s, x
  <2>2. Front(Append(s, d)) = s /\ Last(Append(s, d)) = d /\ Append(s, d) # <<>>
    BY <2>1, AppendEnds
  <2> QED
    BY <2>1, <2>2 DEF s
<1>11. Under(c, u) \in Hierarchy(m) /\ Under(c, u)[1] = Cons(c, u[1]) /\ Under(c, u)[2] = u[2]
  BY <1>5, HierarchyBelow DEF Under
<1> HIDE DEF x
<1>12. (CHOOSE v \in Hierarchy(m) : v[1] = Front(x[1])) = Under(c, u)
  BY <1>1, <1>10, <1>11 DEF TreeOf
<1>13. (CHOOSE v \in Hierarchy(t) : v[1] = Front(y[1])) = u
  BY <1>3, <1>5, <1>8 DEF TreeOf
<1>14. CellOf(m, x) = Cells(u[2])[d] /\ CellOf(t, y) = Cells(u[2])[d]
  BY <1>8, <1>10, <1>11, <1>12, <1>13 DEF CellOf
<1>15. y[1] \in Seq(Nat) /\ y[2] \in DOMAIN built
  <2>1. y \in Places
    BY <1>3 DEF TreeOf
  <2>2. y[2] \in DOMAIN built
    BY <1>2, <1>3, SubIsBuilt
  <2> QED
    BY <2>1, <2>2 DEF Places
<1> QED
  BY <1>4, <1>7, <1>8, <1>10, <1>14, <1>15 DEF Subs, x

(* These are all the instances.                                            *)
LEMMA SubsBelow ==
    ASSUME Exact, ~HasLoop(Instantiates), NEW m \in Ready, NEW x
    PROVE  x \in Subs(m) <=>
              \E c \in SubCells(m) : \/ x = Under(c, Top(TypeOf(m, c)))
                                     \/ \E y \in Subs(TypeOf(m, c)) : x = Under(c, y)
<1>1. ASSUME x \in Subs(m)
      PROVE  \E c \in SubCells(m) : \/ x = Under(c, Top(TypeOf(m, c)))
                                    \/ \E y \in Subs(TypeOf(m, c)) : x = Under(c, y)
  <2>1. x \in Hierarchy(m) /\ x # <<<<>>, m>>
    BY <1>1 DEF Subs
  <2>2. PICK c \in SubCells(m) : \E y \in Hierarchy(TypeOf(m, c)) : x = Under(c, y)
    BY <2>1, HierarchyBelow
  <2>3. PICK y \in Hierarchy(TypeOf(m, c)) : x = Under(c, y)
    BY <2>2
  <2>4. TreeOf(TypeOf(m, c), Hierarchy(TypeOf(m, c)))
    BY SubCellsAre, HierarchyIs
  <2>5. CASE y[1] = <<>>
    <3>1. y = Top(TypeOf(m, c))
      BY <2>4, <2>5 DEF TreeOf, Top
    <3> QED
      BY <2>3, <3>1
  <2>6. CASE y[1] # <<>>
    BY <2>3, <2>6 DEF Subs
  <2> QED
    BY <2>5, <2>6
<1>2. ASSUME NEW c \in SubCells(m)
      PROVE  Under(c, Top(TypeOf(m, c))) \in Subs(m)
  BY AtCell
<1>3. ASSUME NEW c \in SubCells(m), NEW y \in Subs(TypeOf(m, c))
      PROVE  Under(c, y) \in Subs(m)
  BY BelowCell
<1> QED
  BY <1>1, <1>2, <1>3
(* Unions of finitely many finite sets.                                    *)
LEMMA FiniteUnions ==
    ASSUME NEW S, IsFiniteSet(S), NEW f, \A x \in S : IsFiniteSet(f[x])
    PROVE  IsFiniteSet(UNION {f[x] : x \in S})
<1> DEFINE all == {f[x] : x \in S}
<1>1. IsFiniteSet(all)
  BY FiniteImage
<1>2. \A T \in all : IsFiniteSet(T)
  OBVIOUS
<1> HIDE DEF all
<1>3. IsFiniteSet(UNION all)
  BY <1>1, <1>2, FS_UNION
<1> QED
  BY <1>3 DEF all

(* There are finitely many instances in a module, and all are of ready     *)
(* modules.                                                                *)
LEMMA SubsAre ==
    ASSUME Exact, NEW m \in Ready
    PROVE  /\ IsFiniteSet(Hierarchy(m)) /\ IsFiniteSet(Subs(m)) /\ Subs(m) \subseteq Hierarchy(m)
           /\ \A x \in Hierarchy(m) :
                 x[2] \in Names /\ x[2] \in Ready /\ IsFiniteSet(Range(AllBits(YM(x[2]))))
<1>1. TreeOf(m, Hierarchy(m))
  BY HierarchyIs
<1>2. Subs(m) \subseteq Hierarchy(m)
  BY DEF Subs
<1>3. IsFiniteSet(Hierarchy(m)) /\ IsFiniteSet(Subs(m))
  BY <1>1, <1>2, FS_Subset DEF TreeOf
<1>4. ASSUME NEW x \in Hierarchy(m)
      PROVE  x[2] \in Names /\ x[2] \in Ready /\ IsFiniteSet(Range(AllBits(YM(x[2]))))
  <2>1. x[2] \in Names /\ x[2] \in Ready /\ design \in Designs
    BY <1>1 DEF TreeOf, Places, Ready, Exact
  <2> DEFINE bs == AllBits(YM(x[2]))
  <2>2. bs \in Seq(Nat \X Int)
    BY <2>1, ModulesAreWellFormed, AllBitsIs
  <2> HIDE DEF bs
  <2>3. PICK n \in Nat : DOMAIN bs = 1..n
    BY <2>2
  <2>4. IsFiniteSet({bs[k] : k \in 1..n})
    <3>1. IsFiniteSet(1..n)
      BY FS_Interval
    <3> QED
      BY <3>1, FiniteImage
  <2>5. IsFiniteSet(Range(bs))
    BY <2>3, <2>4 DEF Range
  <2> QED
    BY <2>1, <2>5 DEF bs
<1> QED
  BY <1>2, <1>3, <1>4

(* The edges that the stages of a gadget add.                              *)
StagePair(x, cell, e) ==
    <<<<Front(x[1]), CellWire(cell, e[1])>>, <<Front(x[1]), CellWire(cell, e[2])>>>>
StagePairs(ym) ==
    {e \in Range(AllBits(ym)) \X Range(AllBits(ym)) : IsPipeline(ym) /\ StageDep(ym, e[1], e[2])}

(* The edges of stages, one by one.                                        *)
LEMMA StageNetsAre ==
    ASSUME Exact, NEW m \in Ready
    PROVE  /\ IsFiniteSet(StageNets(m))
           /\ \A e : e \in StageNets(m) <=>
                 \E x \in Subs(m) : \E d \in StagePairs(YM(x[2])) :
                     e = StagePair(x, CellOf(m, x), d)
<1> DEFINE of(x) == {StagePair(x, CellOf(m, x), d) : d \in StagePairs(YM(x[2]))}
           f == [x \in Subs(m) |-> of(x)]
<1>1. \A e : e \in StageNets(m) <=> \E x \in Subs(m) : e \in of(x)
  <2> DEFINE pairs(x) == {e \in Range(AllBits(YM(x[2]))) \X Range(AllBits(YM(x[2]))) :
                            StageDep(YM(x[2]), e[1], e[2])}
             nets(x) == {StagePair(x, CellOf(m, x), d) : d \in pairs(x)}
             P == {x \in Subs(m) : IsPipeline(YM(x[2]))}
  <2>1. StageNets(m) = UNION {nets(x) : x \in P}
    BY DEF StageNets, StagePair
  <2>2. \A x \in Subs(m) : IsPipeline(YM(x[2])) => StagePairs(YM(x[2])) = pairs(x)
    BY DEF StagePairs
  <2>3. \A x \in Subs(m) : ~IsPipeline(YM(x[2])) => StagePairs(YM(x[2])) = {}
    BY DEF StagePairs
  <2>4. \A x \in Subs(m) : IsPipeline(YM(x[2])) => of(x) = nets(x)
    <3> HIDE DEF pairs
    <3> QED
      BY <2>2
  <2>5. \A x \in Subs(m) : ~IsPipeline(YM(x[2])) => of(x) = {}
    BY <2>3
  <2> HIDE DEF of, nets
  <2> QED
    BY <2>1, <2>4, <2>5
<1>2. ASSUME NEW x \in Subs(m)
      PROVE  IsFiniteSet(of(x))
  <2> DEFINE bs == Range(AllBits(YM(x[2])))
             g == [d \in StagePairs(YM(x[2])) |-> StagePair(x, CellOf(m, x), d)]
  <2>1. IsFiniteSet(bs)
    BY SubsAre
  <2>2. IsFiniteSet(bs \X bs)
    <3> HIDE DEF bs
    <3> QED
      BY <2>1, FS_Product
  <2>3. StagePairs(YM(x[2])) \subseteq bs \X bs
    BY DEF StagePairs
  <2>4. IsFiniteSet(StagePairs(YM(x[2])))
    <3> HIDE DEF bs
    <3> QED
      BY <2>2, <2>3, FS_Subset
  <2>5. of(x) = {g[d] : d \in StagePairs(YM(x[2]))}
    OBVIOUS
  <2> HIDE DEF of, g, bs
  <2> QED
    BY <2>4, <2>5, FiniteImage
<1>3. IsFiniteSet(UNION {f[x] : x \in Subs(m)})
  <2>1. \A x \in Subs(m) : IsFiniteSet(f[x])
    <3> HIDE DEF of
    <3> QED
      BY <1>2
  <2> HIDE DEF f
  <2> QED
    BY <2>1, SubsAre, FiniteUnions
<1>4. StageNets(m) = UNION {f[x] : x \in Subs(m)}
  <2> HIDE DEF of
  <2> QED
    BY <1>1
<1> QED
  BY <1>1, <1>3, <1>4

(* The edges of the gates.                                                 *)
AllGateNets(m) == UNION {UNION {GateNets(m, x, c) : c \in GateCells(x)} : x \in Hierarchy(m)}

(* The edges of gates, one by one.                                         *)
LEMMA AllGateNetsAre ==
    ASSUME Exact, NEW m \in Ready
    PROVE  /\ IsFiniteSet(AllGateNets(m))
           /\ \A e : e \in AllGateNets(m) <=>
                 \E x \in Hierarchy(m) : \E c \in GateCells(x) : e \in GateNets(m, x, c)
<1> DEFINE of(x) == UNION {GateNets(m, x, c) : c \in GateCells(x)}
           f == [x \in Hierarchy(m) |-> of(x)]
<1>1. ASSUME NEW x \in Hierarchy(m)
      PROVE  IsFiniteSet(of(x))
  <2> DEFINE g == [c \in GateCells(x) |-> GateNets(m, x, c)]
  <2>1. IsFiniteSet(GateCells(x))
    <3>1. Cells(x[2]) \in Seq(Range(Cells(x[2])))
      BY SubsAre, ModulesAreWellFormed DEF Exact, Cells
    <3>2. PICK n \in Nat : DOMAIN Cells(x[2]) = 1..n
      BY <3>1
    <3>3. IsFiniteSet(1..n) /\ GateCells(x) \subseteq 1..n
      BY <3>2, FS_Interval DEF GateCells
    <3> QED
      BY <3>3, FS_Subset
  <2>2. ASSUME NEW c \in GateCells(x)
        PROVE  IsFiniteSet(GateNets(m, x, c))
    <3> DEFINE cell == Cells(x[2])[c]
               gate == GateOf(cell.type)
               h == [d \in Range(gate.deps) |->
                        <<<<x[1], cell.con[d][1]>>, <<x[1], cell.con[gate.outputs[1]][1]>>>>]
    <3>1. GateNets(m, x, c) = {h[d] : d \in Range(gate.deps)}
      BY DEF GateNets
    <3>2. PICK n \in Nat : gate.deps \in Seq(1..n)
      <4>1. is_gate(cell.type)
        BY DEF GateCells
      <4> QED
        BY <4>1, GatesAre
    <3>3. IsFiniteSet(Range(gate.deps))
      <4>1. IsFiniteSet(1..n)
        BY FS_Interval
      <4>2. Range(gate.deps) \subseteq 1..n
        <5> HIDE DEF gate
        <5> QED
          BY <3>2 DEF Range
      <4> HIDE DEF gate
      <4> QED
        BY <4>1, <4>2, FS_Subset
    <3> HIDE DEF h, gate
    <3> QED
      BY <3>1, <3>3, FiniteImage
  <2>3. \A c \in GateCells(x) : IsFiniteSet(g[c])
    BY <2>2
  <2>4. of(x) = UNION {g[c] : c \in GateCells(x)}
    OBVIOUS
  <2> HIDE DEF g, of
  <2> QED
    BY <2>1, <2>3, <2>4, FiniteUnions
<1>2. \A x \in Hierarchy(m) : IsFiniteSet(f[x])
  <2> HIDE DEF of
  <2> QED
    BY <1>1
<1>3. AllGateNets(m) = UNION {f[x] : x \in Hierarchy(m)}
  BY DEF AllGateNets
<1>4. IsFiniteSet(UNION {f[x] : x \in Hierarchy(m)})
  <2> HIDE DEF f
  <2> QED
    BY <1>2, SubsAre, FiniteUnions
<1>5. ASSUME NEW e
      PROVE  e \in AllGateNets(m) <=>
                \E x \in Hierarchy(m) : \E c \in GateCells(x) : e \in GateNets(m, x, c)
  <2> HIDE DEF f
  <2> QED
    BY DEF AllGateNets
<1>6. IsFiniteSet(AllGateNets(m))
  <2> HIDE DEF f
  <2> QED
    BY <1>3, <1>4
<1> QED
  BY <1>5, <1>6

(* All edges, those into the clock included.                               *)
AllEdges(m) ==
    PortNets(m, "input") \cup {<<e[2], e[1]>> : e \in PortNets(m, "output")}
        \cup StageNets(m) \cup AllGateNets(m)

(* The flat circuit is finite, and leaves out the edges into the clock.    *)
LEMMA FlatEdgesFinite ==
    ASSUME Exact, NEW m \in Ready
    PROVE  /\ IsFiniteSet(FlatEdges(m))
           /\ FlatEdges(m) = {e \in AllEdges(m) : e[2] \notin ClockNets(m)}
<1> DEFINE back == [e \in PortNets(m, "output") |-> <<e[2], e[1]>>]
           A == PortNets(m, "input")
           B == {<<e[2], e[1]>> : e \in PortNets(m, "output")}
           C == StageNets(m)
           D == AllGateNets(m)
<1>1. FlatEdges(m) = {e \in AllEdges(m) : e[2] \notin ClockNets(m)}
  BY DEF FlatEdges, AllEdges, AllGateNets
<1>2. IsFiniteSet(A)
  BY PortNetsAre
<1>3. IsFiniteSet(B)
  <2>1. B = {back[e] : e \in PortNets(m, "output")}
    OBVIOUS
  <2>2. IsFiniteSet(PortNets(m, "output"))
    BY PortNetsAre
  <2> HIDE DEF back, B
  <2> QED
    BY <2>1, <2>2, FiniteImage
<1>4. IsFiniteSet(C) /\ IsFiniteSet(D)
  BY StageNetsAre, AllGateNetsAre
<1>5. AllEdges(m) = A \cup B \cup C \cup D
  BY DEF AllEdges
<1> HIDE DEF A, B, C, D
<1>6. IsFiniteSet(A \cup B)
  BY <1>2, <1>3, FS_Union
<1>7. IsFiniteSet((A \cup B) \cup C)
  BY <1>4, <1>6, FS_Union
<1>8. IsFiniteSet(((A \cup B) \cup C) \cup D)
  BY <1>4, <1>7, FS_Union
<1>9. FlatEdges(m) \subseteq ((A \cup B) \cup C) \cup D
  BY <1>1, <1>5
<1> QED
  BY <1>1, <1>8, <1>9, FS_Subset
(* The edges of a module: those between its own nets and to and from its   *)
(* cells, and those of the modules of its cells.                           *)
PairUnder(c, e) == <<Under(c, e[1]), Under(c, e[2])>>
DirBits(s, dir) == {b \in Range(AllBits(YM(s))) : YM(s).ports[b[1]].dir = dir}
Outer(m, c, b) == Top(CellWire(Cells(m)[c], b))
InnerNet(m, c, b) == Under(c, Top(BitWire(YM(TypeOf(m, c)), b)))
PortNet(m, x, b) ==
    <<<<Front(x[1]), CellWire(CellOf(m, x), b)>>, <<x[1], BitWire(YM(x[2]), b)>>>>

(* The edges through ports are those of the cells' ports, and those below. *)
LEMMA PortNetsBelow ==
    ASSUME Exact, ~HasLoop(Instantiates), NEW m \in Ready, NEW dir, NEW e
    PROVE  e \in PortNets(m, dir) <=>
              \E c \in SubCells(m) :
                 \/ \E b \in DirBits(TypeOf(m, c), dir) : e = <<Outer(m, c, b), InnerNet(m, c, b)>>
                 \/ \E f \in PortNets(TypeOf(m, c), dir) : e = PairUnder(c, f)
<1>1. ASSUME NEW s \in Ready
      PROVE  \A f : f \in PortNets(s, dir) <=>
                \E x \in Subs(s) : \E b \in DirBits(x[2], dir) : f = PortNet(s, x, b)
  BY PortNetsAre DEF DirBits, PortNet
<1>2. ASSUME NEW c \in SubCells(m), NEW b
      PROVE  PortNet(m, Under(c, Top(TypeOf(m, c))), b) = <<Outer(m, c, b), InnerNet(m, c, b)>>
  <2> DEFINE x == Under(c, Top(TypeOf(m, c)))
  <2>1. /\ x[2] = TypeOf(m, c) /\ x[1] = Cons(c, <<>>)
        /\ Front(x[1]) = <<>> /\ CellOf(m, x) = Cells(m)[c]
    BY AtCell
  <2> HIDE DEF x
  <2>2. PortNet(m, x, b) = <<<<<<>>, CellWire(Cells(m)[c], b)>>,
                             <<Cons(c, <<>>), BitWire(YM(TypeOf(m, c)), b)>>>>
    BY <2>1 DEF PortNet
  <2> QED
    BY <2>2 DEF Outer, InnerNet, Under, Top, x
<1>3. ASSUME NEW c \in SubCells(m), NEW y \in Subs(TypeOf(m, c)), NEW b
      PROVE  PortNet(m, Under(c, y), b) = PairUnder(c, PortNet(TypeOf(m, c), y, b))
  <2> DEFINE x == Under(c, y)
             t == TypeOf(m, c)
  <2>1. /\ x[2] = y[2] /\ x[1] = Cons(c, y[1])
        /\ Front(x[1]) = Cons(c, Front(y[1])) /\ CellOf(m, x) = CellOf(t, y)
    BY BelowCell
  <2> HIDE DEF x, t
  <2>2. PortNet(m, x, b) = <<<<Cons(c, Front(y[1])), CellWire(CellOf(t, y), b)>>,
                             <<Cons(c, y[1]), BitWire(YM(y[2]), b)>>>>
    BY <2>1 DEF PortNet
  <2> QED
    BY <2>2 DEF PairUnder, PortNet, Under, x, t
<1>4. ASSUME e \in PortNets(m, dir)
      PROVE  \E c \in SubCells(m) :
                 \/ \E b \in DirBits(TypeOf(m, c), dir) : e = <<Outer(m, c, b), InnerNet(m, c, b)>>
                 \/ \E f \in PortNets(TypeOf(m, c), dir) : e = PairUnder(c, f)
  <2>1. PICK x \in Subs(m) : \E b \in DirBits(x[2], dir) : e = PortNet(m, x, b)
    BY <1>1, <1>4
  <2>2. PICK b \in DirBits(x[2], dir) : e = PortNet(m, x, b)
    BY <2>1
  <2>3. PICK c \in SubCells(m) : \/ x = Under(c, Top(TypeOf(m, c)))
                                 \/ \E y \in Subs(TypeOf(m, c)) : x = Under(c, y)
    BY SubsBelow
  <2>4. CASE x = Under(c, Top(TypeOf(m, c)))
    <3>1. x[2] = TypeOf(m, c)
      BY <2>4, AtCell
    <3>2. e = <<Outer(m, c, b), InnerNet(m, c, b)>>
      BY <1>2, <2>2, <2>4
    <3> QED
      BY <3>1, <3>2
  <2>5. ASSUME NEW y \in Subs(TypeOf(m, c)), x = Under(c, y)
        PROVE  \E f \in PortNets(TypeOf(m, c), dir) : e = PairUnder(c, f)
    <3>1. x[2] = y[2]
      BY <2>5, BelowCell
    <3>2. e = PairUnder(c, PortNet(TypeOf(m, c), y, b))
      BY <1>3, <2>2, <2>5
    <3>3. TypeOf(m, c) \in Ready
      BY SubCellsAre
    <3>4. PortNet(TypeOf(m, c), y, b) \in PortNets(TypeOf(m, c), dir)
      BY <1>1, <3>1, <3>3
    <3> QED
      BY <3>2, <3>4
  <2> QED
    BY <2>3, <2>4, <2>5
<1>5. ASSUME NEW c \in SubCells(m), NEW b \in DirBits(TypeOf(m, c), dir),
             e = <<Outer(m, c, b), InnerNet(m, c, b)>>
      PROVE  e \in PortNets(m, dir)
  <2>1. Under(c, Top(TypeOf(m, c))) \in Subs(m) /\ Under(c, Top(TypeOf(m, c)))[2] = TypeOf(m, c)
    BY AtCell
  <2>2. e = PortNet(m, Under(c, Top(TypeOf(m, c))), b)
    BY <1>2, <1>5
  <2> QED
    BY <1>1, <2>1, <2>2
<1>6. ASSUME NEW c \in SubCells(m), NEW f \in PortNets(TypeOf(m, c), dir), e = PairUnder(c, f)
      PROVE  e \in PortNets(m, dir)
  <2>1. TypeOf(m, c) \in Ready
    BY SubCellsAre
  <2>2. PICK y \in Subs(TypeOf(m, c)) : \E b \in DirBits(y[2], dir) : f = PortNet(TypeOf(m, c), y, b)
    BY <1>1, <2>1
  <2>3. PICK b \in DirBits(y[2], dir) : f = PortNet(TypeOf(m, c), y, b)
    BY <2>2
  <2>4. Under(c, y) \in Subs(m) /\ Under(c, y)[2] = y[2]
    BY BelowCell
  <2>5. e = PortNet(m, Under(c, y), b)
    BY <1>3, <1>6, <2>3
  <2> QED
    BY <1>1, <2>4, <2>5
<1> QED
  BY <1>4, <1>5, <1>6

(* The edges of stages are those of the cells' stages, and those below.    *)
LEMMA StageNetsBelow ==
    ASSUME Exact, ~HasLoop(Instantiates), NEW m \in Ready, NEW e
    PROVE  e \in StageNets(m) <=>
              \E c \in SubCells(m) :
                 \/ \E d \in StagePairs(YM(TypeOf(m, c))) : e = <<Outer(m, c, d[1]), Outer(m, c, d[2])>>
                 \/ \E f \in StageNets(TypeOf(m, c)) : e = PairUnder(c, f)
<1>1. ASSUME NEW c \in SubCells(m), NEW d
      PROVE  LET x == Under(c, Top(TypeOf(m, c)))
             IN  StagePair(x, CellOf(m, x), d) = <<Outer(m, c, d[1]), Outer(m, c, d[2])>>
  <2> DEFINE x == Under(c, Top(TypeOf(m, c)))
  <2>1. Front(x[1]) = <<>> /\ CellOf(m, x) = Cells(m)[c]
    BY AtCell
  <2> HIDE DEF x
  <2> QED
    BY <2>1 DEF StagePair, Outer, Top, x
<1>2. ASSUME NEW c \in SubCells(m), NEW y \in Subs(TypeOf(m, c)), NEW d
      PROVE  StagePair(Under(c, y), CellOf(m, Under(c, y)), d)
                = PairUnder(c, StagePair(y, CellOf(TypeOf(m, c), y), d))
  <2> DEFINE x == Under(c, y)
             t == TypeOf(m, c)
  <2>1. Front(x[1]) = Cons(c, Front(y[1])) /\ CellOf(m, x) = CellOf(t, y)
    BY BelowCell
  <2> HIDE DEF x, t
  <2>2. StagePair(x, CellOf(m, x), d)
           = <<<<Cons(c, Front(y[1])), CellWire(CellOf(t, y), d[1])>>,
               <<Cons(c, Front(y[1])), CellWire(CellOf(t, y), d[2])>>>>
    BY <2>1 DEF StagePair
  <2> QED
    BY <2>2 DEF PairUnder, StagePair, Under, x, t
<1>3. ASSUME e \in StageNets(m)
      PROVE  \E c \in SubCells(m) :
                 \/ \E d \in StagePairs(YM(TypeOf(m, c))) : e = <<Outer(m, c, d[1]), Outer(m, c, d[2])>>
                 \/ \E f \in StageNets(TypeOf(m, c)) : e = PairUnder(c, f)
  <2>1. PICK x \in Subs(m) : \E d \in StagePairs(YM(x[2])) : e = StagePair(x, CellOf(m, x), d)
    BY <1>3, StageNetsAre
  <2>2. PICK d \in StagePairs(YM(x[2])) : e = StagePair(x, CellOf(m, x), d)
    BY <2>1
  <2>3. PICK c \in SubCells(m) : \/ x = Under(c, Top(TypeOf(m, c)))
                                 \/ \E y \in Subs(TypeOf(m, c)) : x = Under(c, y)
    BY SubsBelow
  <2>4. CASE x = Under(c, Top(TypeOf(m, c)))
    <3>1. x[2] = TypeOf(m, c)
      BY <2>4, AtCell
    <3>2. e = <<Outer(m, c, d[1]), Outer(m, c, d[2])>>
      BY <1>1, <2>2, <2>4
    <3> QED
      BY <3>1, <3>2
  <2>5. ASSUME NEW y \in Subs(TypeOf(m, c)), x = Under(c, y)
        PROVE  \E f \in StageNets(TypeOf(m, c)) : e = PairUnder(c, f)
    <3>1. x[2] = y[2]
      BY <2>5, BelowCell
    <3>2. e = PairUnder(c, StagePair(y, CellOf(TypeOf(m, c), y), d))
      BY <1>2, <2>2, <2>5
    <3>3. TypeOf(m, c) \in Ready
      BY SubCellsAre
    <3>4. StagePair(y, CellOf(TypeOf(m, c), y), d) \in StageNets(TypeOf(m, c))
      BY <3>1, <3>3, StageNetsAre
    <3> QED
      BY <3>2, <3>4
  <2> QED
    BY <2>3, <2>4, <2>5
<1>4. ASSUME NEW c \in SubCells(m), NEW d \in StagePairs(YM(TypeOf(m, c))),
             e = <<Outer(m, c, d[1]), Outer(m, c, d[2])>>
      PROVE  e \in StageNets(m)
  <2> DEFINE x == Under(c, Top(TypeOf(m, c)))
  <2>1. x \in Subs(m) /\ x[2] = TypeOf(m, c)
    BY AtCell
  <2>2. e = StagePair(x, CellOf(m, x), d)
    BY <1>1, <1>4
  <2> HIDE DEF x
  <2> QED
    BY <2>1, <2>2, StageNetsAre
<1>5. ASSUME NEW c \in SubCells(m), NEW f \in StageNets(TypeOf(m, c)), e = PairUnder(c, f)
      PROVE  e \in StageNets(m)
  <2>1. TypeOf(m, c) \in Ready
    BY SubCellsAre
  <2>2. PICK y \in Subs(TypeOf(m, c)) : \E d \in StagePairs(YM(y[2])) :
           f = StagePair(y, CellOf(TypeOf(m, c), y), d)
    BY <2>1, StageNetsAre
  <2>3. PICK d \in StagePairs(YM(y[2])) : f = StagePair(y, CellOf(TypeOf(m, c), y), d)
    BY <2>2
  <2>4. Under(c, y) \in Subs(m) /\ Under(c, y)[2] = y[2]
    BY BelowCell
  <2>5. e = StagePair(Under(c, y), CellOf(m, Under(c, y)), d)
    BY <1>2, <1>5, <2>3
  <2> QED
    BY <2>4, <2>5, StageNetsAre
<1> QED
  BY <1>3, <1>4, <1>5

(* The edges of gates are those of the module's gates, and those below.    *)
LEMMA GateNetsBelow ==
    ASSUME Exact, ~HasLoop(Instantiates), NEW m \in Ready, NEW e
    PROVE  e \in AllGateNets(m) <=>
              \/ \E k \in GateCells(Top(m)) : e \in GateNets(m, Top(m), k)
              \/ \E c \in SubCells(m) : \E f \in AllGateNets(TypeOf(m, c)) : e = PairUnder(c, f)
<1>1. ASSUME NEW c \in SubCells(m), NEW y \in Hierarchy(TypeOf(m, c)), NEW k
      PROVE  /\ GateCells(Under(c, y)) = GateCells(y)
             /\ \A g : g \in GateNets(m, Under(c, y), k) <=>
                   \E f \in GateNets(TypeOf(m, c), y, k) : g = PairUnder(c, f)
  <2> DEFINE x == Under(c, y)
             cell == Cells(y[2])[k]
             gate == GateOf(cell.type)
             net(u, w) == <<<<u, cell.con[w][1]>>, <<u, cell.con[gate.outputs[1]][1]>>>>
             D == Range(gate.deps)
  <2>1. x[2] = y[2] /\ x[1] = Cons(c, y[1])
    BY DEF Under
  <2>2. GateCells(x) = GateCells(y)
    BY <2>1 DEF GateCells
  <2>3. GateNets(TypeOf(m, c), y, k) = {net(y[1], w) : w \in D}
    BY DEF GateNets
  <2>4. GateNets(m, x, k) = {net(Cons(c, y[1]), w) : w \in D}
    <3> HIDE DEF x
    <3> QED
      BY <2>1 DEF GateNets
  <2>5. \A w : net(Cons(c, y[1]), w) = PairUnder(c, net(y[1], w))
    BY DEF PairUnder, Under
  <2> HIDE DEF net, D, x
  <2>6. \A g : g \in GateNets(m, x, k) <=> \E f \in GateNets(TypeOf(m, c), y, k) : g = PairUnder(c, f)
    BY <2>3, <2>4, <2>5
  <2> QED
    BY <2>2, <2>6 DEF x
<1>2. ASSUME e \in AllGateNets(m)
      PROVE  \/ \E k \in GateCells(Top(m)) : e \in GateNets(m, Top(m), k)
             \/ \E c \in SubCells(m) : \E f \in AllGateNets(TypeOf(m, c)) : e = PairUnder(c, f)
  <2>1. PICK x \in Hierarchy(m) : \E k \in GateCells(x) : e \in GateNets(m, x, k)
    BY <1>2, AllGateNetsAre
  <2>2. CASE x = <<<<>>, m>>
    BY <2>1, <2>2 DEF Top
  <2>3. ASSUME NEW c \in SubCells(m), NEW y \in Hierarchy(TypeOf(m, c)), x = Under(c, y)
        PROVE  \E f \in AllGateNets(TypeOf(m, c)) : e = PairUnder(c, f)
    <3>1. TypeOf(m, c) \in Ready
      BY SubCellsAre
    <3>2. PICK k \in GateCells(y) : e \in GateNets(m, Under(c, y), k)
      BY <1>1, <2>1, <2>3
    <3>3. PICK f \in GateNets(TypeOf(m, c), y, k) : e = PairUnder(c, f)
      BY <1>1, <3>2
    <3> QED
      BY <3>1, <3>3, AllGateNetsAre
  <2> QED
    BY <2>2, <2>3, HierarchyBelow
<1>3. ASSUME NEW k \in GateCells(Top(m)), e \in GateNets(m, Top(m), k)
      PROVE  e \in AllGateNets(m)
  <2>1. Top(m) \in Hierarchy(m)
    BY HierarchyIs DEF TreeOf, Top
  <2> QED
    BY <1>3, <2>1, AllGateNetsAre
<1>4. ASSUME NEW c \in SubCells(m), NEW f \in AllGateNets(TypeOf(m, c)), e = PairUnder(c, f)
      PROVE  e \in AllGateNets(m)
  <2>1. TypeOf(m, c) \in Ready
    BY SubCellsAre
  <2>2. PICK y \in Hierarchy(TypeOf(m, c)) : \E k \in GateCells(y) : f \in GateNets(TypeOf(m, c), y, k)
    BY <2>1, AllGateNetsAre
  <2>3. PICK k \in GateCells(y) : f \in GateNets(TypeOf(m, c), y, k)
    BY <2>2
  <2>4. Under(c, y) \in Hierarchy(m) /\ k \in GateCells(Under(c, y))
    BY <1>1, HierarchyBelow
  <2>5. e \in GateNets(m, Under(c, y), k)
    BY <1>1, <1>4, <2>3
  <2> QED
    BY <2>4, <2>5, AllGateNetsAre
<1> QED
  BY <1>2, <1>3, <1>4

(* All of them.                                                            *)
CellEdge(m, c, e) ==
    \/ \E b \in DirBits(TypeOf(m, c), "input") : e = <<Outer(m, c, b), InnerNet(m, c, b)>>
    \/ \E b \in DirBits(TypeOf(m, c), "output") : e = <<InnerNet(m, c, b), Outer(m, c, b)>>
    \/ \E d \in StagePairs(YM(TypeOf(m, c))) : e = <<Outer(m, c, d[1]), Outer(m, c, d[2])>>
LocalEdge(m, e) ==
    \/ \E k \in GateCells(Top(m)) : e \in GateNets(m, Top(m), k)
    \/ \E c \in SubCells(m) : CellEdge(m, c, e)

(* All the edges of a module are its own, and those of its cells.          *)
LEMMA AllEdgesBelow ==
    ASSUME Exact, ~HasLoop(Instantiates), NEW m \in Ready, NEW e
    PROVE  e \in AllEdges(m) <=>
              \/ LocalEdge(m, e)
              \/ \E c \in SubCells(m) : \E f \in AllEdges(TypeOf(m, c)) : e = PairUnder(c, f)
<1> DEFINE Back(s, g) == \E f \in PortNets(s, "output") : g = <<f[2], f[1]>>
<1>1. \A s, g : g \in AllEdges(s) <=> \/ g \in PortNets(s, "input") \/ Back(s, g)
                                      \/ g \in StageNets(s) \/ g \in AllGateNets(s)
  BY DEF AllEdges
<1>2. Back(m, e) <=>
         \E c \in SubCells(m) :
            \/ \E b \in DirBits(TypeOf(m, c), "output") : e = <<InnerNet(m, c, b), Outer(m, c, b)>>
            \/ \E f : Back(TypeOf(m, c), f) /\ e = PairUnder(c, f)
  <2>1. ASSUME Back(m, e)
        PROVE  \E c \in SubCells(m) :
                  \/ \E b \in DirBits(TypeOf(m, c), "output") : e = <<InnerNet(m, c, b), Outer(m, c, b)>>
                  \/ \E f : Back(TypeOf(m, c), f) /\ e = PairUnder(c, f)
    <3>1. PICK g \in PortNets(m, "output") : e = <<g[2], g[1]>>
      BY <2>1
    <3>2. PICK c \in SubCells(m) :
             \/ \E b \in DirBits(TypeOf(m, c), "output") : g = <<Outer(m, c, b), InnerNet(m, c, b)>>
             \/ \E f \in PortNets(TypeOf(m, c), "output") : g = PairUnder(c, f)
      BY PortNetsBelow
    <3>3. ASSUME NEW b \in DirBits(TypeOf(m, c), "output"), g = <<Outer(m, c, b), InnerNet(m, c, b)>>
          PROVE  e = <<InnerNet(m, c, b), Outer(m, c, b)>>
      BY <3>1, <3>3
    <3>4. ASSUME NEW f \in PortNets(TypeOf(m, c), "output"), g = PairUnder(c, f)
          PROVE  Back(TypeOf(m, c), <<f[2], f[1]>>) /\ e = PairUnder(c, <<f[2], f[1]>>)
      BY <3>1, <3>4 DEF PairUnder
    <3> HIDE DEF Back
    <3> QED
      BY <3>2, <3>3, <3>4
  <2>2. ASSUME NEW c \in SubCells(m), NEW b \in DirBits(TypeOf(m, c), "output"),
               e = <<InnerNet(m, c, b), Outer(m, c, b)>>
        PROVE  Back(m, e)
    <3>1. <<Outer(m, c, b), InnerNet(m, c, b)>> \in PortNets(m, "output")
      BY PortNetsBelow
    <3> QED
      BY <2>2, <3>1
  <2>3. ASSUME NEW c \in SubCells(m), NEW f, Back(TypeOf(m, c), f), e = PairUnder(c, f)
        PROVE  Back(m, e)
    <3>1. PICK g \in PortNets(TypeOf(m, c), "output") : f = <<g[2], g[1]>>
      BY <2>3
    <3>2. PairUnder(c, g) \in PortNets(m, "output")
      BY PortNetsBelow
    <3>3. e = <<PairUnder(c, g)[2], PairUnder(c, g)[1]>>
      BY <2>3, <3>1 DEF PairUnder
    <3> QED
      BY <3>2, <3>3
  <2> HIDE DEF Back
  <2> QED
    BY <2>1, <2>2, <2>3
<1> HIDE DEF Back
<1>3. e \in PortNets(m, "input") <=>
         \E c \in SubCells(m) :
            \/ \E b \in DirBits(TypeOf(m, c), "input") : e = <<Outer(m, c, b), InnerNet(m, c, b)>>
            \/ \E f \in PortNets(TypeOf(m, c), "input") : e = PairUnder(c, f)
  BY PortNetsBelow
<1>4. e \in StageNets(m) <=>
         \E c \in SubCells(m) :
            \/ \E d \in StagePairs(YM(TypeOf(m, c))) : e = <<Outer(m, c, d[1]), Outer(m, c, d[2])>>
            \/ \E f \in StageNets(TypeOf(m, c)) : e = PairUnder(c, f)
  BY StageNetsBelow
<1>5. e \in AllGateNets(m) <=>
         \/ \E k \in GateCells(Top(m)) : e \in GateNets(m, Top(m), k)
         \/ \E c \in SubCells(m) : \E f \in AllGateNets(TypeOf(m, c)) : e = PairUnder(c, f)
  BY GateNetsBelow
<1> QED
  BY <1>1, <1>2, <1>3, <1>4, <1>5 DEF LocalEdge, CellEdge
(* Nets.                                                                   *)
IsNet(n) == n[1] \in Seq(Nat) /\ n = <<n[1], n[2]>>

(* A net under a cell is a net, is not at the top, and is in one way under *)
(* one cell.                                                               *)
LEMMA UnderIs ==
    ASSUME NEW c \in Nat, NEW n, IsNet(n)
    PROVE  /\ IsNet(Under(c, n)) /\ \A w : Under(c, n) # Top(w)
           /\ \A d \in Nat : \A k : IsNet(k) /\ Under(c, n) = Under(d, k) => c = d /\ n = k
<1>1. Under(c, n)[1] = Cons(c, n[1]) /\ Cons(c, n[1]) \in Seq(Nat) /\ Cons(c, n[1]) # <<>>
  BY ConsIs DEF IsNet, Under
<1>2. IsNet(Under(c, n))
  BY <1>1 DEF IsNet, Under
<1>3. ASSUME NEW d \in Nat, NEW k, IsNet(k), Under(c, n) = Under(d, k)
      PROVE  c = d /\ n = k
  <2>1. Cons(c, n[1]) = Cons(d, k[1]) /\ n[2] = k[2]
    BY <1>3 DEF Under
  <2>2. c = d /\ n[1] = k[1]
    BY <1>3, <2>1, ConsSame DEF IsNet
  <2> QED
    BY <1>3, <2>1, <2>2 DEF IsNet
<1>4. \A w : Under(c, n) # Top(w)
  BY <1>1 DEF Top, Under
<1> QED
  BY <1>2, <1>3, <1>4

(* Nets under cells are the same when the cells and the nets are.          *)
LEMMA UnderSame ==
    ASSUME NEW c \in Nat, NEW n, IsNet(n), NEW d \in Nat, NEW k, IsNet(k), Under(c, n) = Under(d, k)
    PROVE  c = d /\ n = k
BY UnderIs

(* A wire of the top is a net, another one for every wire.                 *)
LEMMA TopIs ==
    ASSUME NEW w
    PROVE  IsNet(Top(w)) /\ \A v : Top(w) = Top(v) => w = v
<1>1. <<>> \in Seq(Nat)
  OBVIOUS
<1> QED
  BY <1>1 DEF Top, IsNet

IsNetPair(e) == IsNet(e[1]) /\ IsNet(e[2]) /\ e = <<e[1], e[2]>>

(* Edges are pairs of nets, and clock pins are nets.                       *)
LEMMA EdgesAreNets ==
    ASSUME Exact, NEW m \in Ready
    PROVE  (\A e \in AllEdges(m) : IsNetPair(e)) /\ \A n \in ClockPins(m) : IsNet(n)
<1>1. \A x \in Hierarchy(m) : x[1] \in Seq(Nat)
  <2>1. TreeOf(m, Hierarchy(m))
    BY HierarchyIs
  <2> QED
    BY <2>1 DEF TreeOf, Places
<1>2. \A x \in Subs(m) : x[1] \in Seq(Nat) /\ Front(x[1]) \in Seq(Nat)
  <2> SUFFICES ASSUME NEW x \in Subs(m)
               PROVE  x[1] \in Seq(Nat) /\ Front(x[1]) \in Seq(Nat)
    OBVIOUS
  <2>1. PICK u \in Hierarchy(m) : Front(x[1]) = u[1]
    BY CellOfIs
  <2> QED
    BY <1>1, <2>1, SubsAre
<1>3. \A p \in Seq(Nat) : \A w : IsNet(<<p, w>>)
  BY DEF IsNet
<1>4. \A dir : \A e \in PortNets(m, dir) : IsNetPair(e)
  <2> SUFFICES ASSUME NEW dir, NEW e \in PortNets(m, dir)
               PROVE  IsNetPair(e)
    OBVIOUS
  <2>1. PICK x \in Subs(m) : \E b \in Range(AllBits(YM(x[2]))) :
           e = <<<<Front(x[1]), CellWire(CellOf(m, x), b)>>, <<x[1], BitWire(YM(x[2]), b)>>>>
    BY PortNetsAre
  <2> QED
    BY <1>2, <1>3, <2>1 DEF IsNetPair
<1>5. \A e \in StageNets(m) : IsNetPair(e)
  <2> SUFFICES ASSUME NEW e \in StageNets(m)
               PROVE  IsNetPair(e)
    OBVIOUS
  <2>1. PICK x \in Subs(m) : \E d \in StagePairs(YM(x[2])) : e = StagePair(x, CellOf(m, x), d)
    BY StageNetsAre
  <2> QED
    BY <1>2, <1>3, <2>1 DEF IsNetPair, StagePair
<1>6. \A e \in AllGateNets(m) : IsNetPair(e)
  <2> SUFFICES ASSUME NEW e \in AllGateNets(m)
               PROVE  IsNetPair(e)
    OBVIOUS
  <2>1. PICK x \in Hierarchy(m) : \E c \in GateCells(x) : e \in GateNets(m, x, c)
    BY AllGateNetsAre
  <2> QED
    BY <1>1, <1>3, <2>1 DEF IsNetPair, GateNets
<1>7. \A e \in {<<e[2], e[1]>> : e \in PortNets(m, "output")} : IsNetPair(e)
  BY <1>4 DEF IsNetPair
<1>8. \A n \in ClockPins(m) : IsNet(n)
  BY <1>1, <1>3 DEF ClockPins
<1> QED
  BY <1>4, <1>5, <1>6, <1>7, <1>8 DEF AllEdges

(* The nets that clock what is in a cell clock the module it is of.        *)
LEMMA ClockPinsBelow ==
    ASSUME Exact, ~HasLoop(Instantiates), NEW m \in Ready, NEW n
    PROVE  n \in ClockPins(m) <=>
              \/ \E k \in GateCells(Top(m)) :
                    Cells(m)[k].type = "DFF" /\ n = Top(Cells(m)[k].con[1][1])
              \/ \E c \in SubCells(m) : \E p \in ClockPins(TypeOf(m, c)) : n = Under(c, p)
<1> DEFINE Pin(x, k) == <<x[1], Cells(x[2])[k].con[1][1]>>
           Dffs(x) == {k \in GateCells(x) : Cells(x[2])[k].type = "DFF"}
<1>1. \A s : \A p : p \in ClockPins(s) <=> \E x \in Hierarchy(s) : \E k \in Dffs(x) : p = Pin(x, k)
  BY DEF ClockPins
<1>2. ASSUME NEW c, NEW y
      PROVE  /\ Dffs(Under(c, y)) = Dffs(y)
             /\ \A k : Pin(Under(c, y), k) = Under(c, Pin(y, k))
  BY DEF Under, GateCells
<1>3. \A k : Pin(Top(m), k) = Top(Cells(m)[k].con[1][1])
  BY DEF Top
<1>4. Dffs(Top(m)) = {k \in GateCells(Top(m)) : Cells(m)[k].type = "DFF"}
  BY DEF Top
<1>5. Top(m) = <<<<>>, m>>
  BY DEF Top
<1> HIDE DEF Pin, Dffs
<1> QED
  BY <1>1, <1>2, <1>3, <1>4, <1>5, HierarchyBelow

(* A net under a cell is on the clock when it is on that of the cell's     *)
(* module.                                                                 *)
LEMMA ClockBelow ==
    ASSUME Exact, ~HasLoop(Instantiates), NEW m \in Ready, NEW c \in SubCells(m), NEW n, IsNet(n)
    PROVE  Under(c, n) \in ClockNets(m) <=> n \in ClockNets(TypeOf(m, c))
<1> DEFINE t == TypeOf(m, c)
           edges == PortNets(m, "input")
<1>1. t \in Ready /\ c \in Nat
  BY SubCellsAre
<1> HIDE DEF t
<1>2. IsFiniteSet(edges) /\ IsFiniteSet(PortNets(t, "input"))
  BY <1>1, PortNetsAre
<1>3. /\ ClockPins(m) \subseteq ClockNets(m)
      /\ \A e \in edges : e[2] \in ClockNets(m) => e[1] \in ClockNets(m)
  <2> HIDE DEF edges
  <2>1. ClockNets(m) = Upstream(edges, ClockPins(m))
    BY DEF ClockNets, edges
  <2> QED
    BY <1>2, <2>1, UpstreamClosed
<1>4. ASSUME n \in ClockNets(t)
      PROVE  Under(c, n) \in ClockNets(m)
  <2> DEFINE T == {k \in ClockPins(t) \cup {e[1] : e \in PortNets(t, "input")} :
                      Under(c, k) \in ClockNets(m)}
  <2>1. ClockPins(t) \subseteq T
    BY <1>3, ClockPinsBelow DEF t
  <2>2. \A e \in PortNets(t, "input") : e[2] \in T => e[1] \in T
    <3> SUFFICES ASSUME NEW e \in PortNets(t, "input"), e[2] \in T
                 PROVE  e[1] \in T
      OBVIOUS
    <3>1. PairUnder(c, e) \in edges
      BY PortNetsBelow DEF t
    <3>2. Under(c, e[2]) \in ClockNets(m)
      OBVIOUS
    <3>3. PairUnder(c, e)[2] = Under(c, e[2]) /\ PairUnder(c, e)[1] = Under(c, e[1])
      BY DEF PairUnder
    <3>4. Under(c, e[1]) \in ClockNets(m)
      <4> HIDE DEF edges
      <4> QED
        BY <1>3, <3>1, <3>2, <3>3
    <3> QED
      BY <3>4
  <2> HIDE DEF T
  <2>3. Upstream(PortNets(t, "input"), ClockPins(t)) \subseteq T
    BY <1>2, <2>1, <2>2, UpstreamIn
  <2>4. n \in T
    BY <1>4, <2>3 DEF ClockNets
  <2> QED
    BY <2>4 DEF T
<1>5. ASSUME Under(c, n) \in ClockNets(m)
      PROVE  n \in ClockNets(t)
  <2> DEFINE Good(k) == \A d \in SubCells(m) : \A i : IsNet(i) /\ k = Under(d, i)
                            => i \in ClockNets(TypeOf(m, d))
             T == {k \in ClockPins(m) \cup {e[1] : e \in edges} : Good(k)}
  <2>1. ASSUME NEW k \in ClockPins(m)
        PROVE  Good(k)
    <3> SUFFICES ASSUME NEW d \in SubCells(m), NEW i, IsNet(i), k = Under(d, i)
                 PROVE  i \in ClockNets(TypeOf(m, d))
      OBVIOUS
    <3>1. d \in Nat
      BY SubCellsAre
    <3>2. \A w : k # Top(w)
      BY <3>1, UnderIs
    <3>3. PICK a \in SubCells(m) : \E p \in ClockPins(TypeOf(m, a)) : k = Under(a, p)
      BY <3>2, ClockPinsBelow
    <3>4. PICK p \in ClockPins(TypeOf(m, a)) : k = Under(a, p)
      BY <3>3
    <3>5. a \in Nat /\ TypeOf(m, a) \in Ready
      BY SubCellsAre
    <3>6. IsNet(p)
      BY <3>5, EdgesAreNets
    <3>7. d = a /\ i = p
      <4>1. Under(d, i) = Under(a, p)
        BY <3>4
      <4> QED
        BY <3>1, <3>5, <3>6, <4>1, UnderSame
    <3>8. ClockPins(TypeOf(m, a)) \subseteq ClockNets(TypeOf(m, a))
      <4>1. IsFiniteSet(PortNets(TypeOf(m, a), "input"))
        BY <3>5, PortNetsAre
      <4> QED
        BY <4>1, UpstreamClosed DEF ClockNets
    <3> QED
      BY <3>7, <3>8
  <2>2. ASSUME NEW e \in edges, Good(e[2])
        PROVE  Good(e[1])
    <3> SUFFICES ASSUME NEW d \in SubCells(m), NEW i, IsNet(i), e[1] = Under(d, i)
                 PROVE  i \in ClockNets(TypeOf(m, d))
      OBVIOUS
    <3>1. d \in Nat
      BY SubCellsAre
    <3>2. \A w : e[1] # Top(w)
      BY <3>1, UnderIs
    <3>3. PICK a \in SubCells(m) : \E f \in PortNets(TypeOf(m, a), "input") : e = PairUnder(a, f)
      <4>1. PICK a \in SubCells(m) :
               \/ \E b \in DirBits(TypeOf(m, a), "input") : e = <<Outer(m, a, b), InnerNet(m, a, b)>>
               \/ \E f \in PortNets(TypeOf(m, a), "input") : e = PairUnder(a, f)
        BY PortNetsBelow
      <4>2. ~\E b \in DirBits(TypeOf(m, a), "input") : e = <<Outer(m, a, b), InnerNet(m, a, b)>>
        BY <3>2 DEF Outer
      <4> QED
        BY <4>1, <4>2
    <3>4. PICK f \in PortNets(TypeOf(m, a), "input") : e = PairUnder(a, f)
      BY <3>3
    <3>5. a \in Nat /\ TypeOf(m, a) \in Ready
      BY SubCellsAre
    <3>6. IsNet(f[1]) /\ IsNet(f[2])
      <4>1. f \in AllEdges(TypeOf(m, a))
        BY DEF AllEdges
      <4> QED
        BY <3>5, <4>1, EdgesAreNets DEF IsNetPair
    <3>7. e[1] = Under(a, f[1]) /\ e[2] = Under(a, f[2])
      BY <3>4 DEF PairUnder
    <3>8. d = a /\ i = f[1]
      <4>1. Under(d, i) = Under(a, f[1])
        BY <3>7
      <4> QED
        BY <3>1, <3>5, <3>6, <4>1, UnderSame
    <3>9. f[2] \in ClockNets(TypeOf(m, a))
      BY <2>2, <3>6, <3>7
    <3>10. f[1] \in ClockNets(TypeOf(m, a))
      <4>1. IsFiniteSet(PortNets(TypeOf(m, a), "input"))
        BY <3>5, PortNetsAre
      <4> QED
        BY <3>9, <4>1, UpstreamClosed DEF ClockNets
    <3> QED
      BY <3>8, <3>10
  <2> HIDE DEF Good
  <2>3. ClockPins(m) \subseteq T /\ \A e \in edges : e[2] \in T => e[1] \in T
    BY <2>1, <2>2
  <2>4. ClockNets(m) \subseteq T
    <3> HIDE DEF T, edges
    <3>1. Upstream(edges, ClockPins(m)) \subseteq T
      BY <1>2, <2>3, UpstreamIn
    <3> QED
      BY <3>1 DEF ClockNets, edges
  <2>5. Good(Under(c, n))
    BY <1>5, <2>4
  <2> QED
    BY <2>5 DEF Good, t
<1> QED
  BY <1>4, <1>5 DEF t
(* Of the nets of a module, its clock wires are those that clock it.       *)
LEMMA ClockOf ==
    ASSUME Exact, NEW m \in DOMAIN built, built[m].clock # NoBit
    PROVE  built[m].clock \in ClockBits(m)
<1> DEFINE ym == YM(m)
           clock == module_clock_wire(built, ym)
           all == AllBits(ym)
           found == {k \in DOMAIN all : is_clock(ym, clock, all[k])}
<1>1. m \in Names /\ design \in Designs /\ BuildModule(built, ym).error = None
      /\ built[m] = BuildModule(built, ym).value
  BY DEF Exact
<1>2. WellFormed(ym)
  BY <1>1, ModulesAreWellFormed
<1>3. built[m].clock = clock_name(ym, clock)
  BY <1>1, BuiltShape DEF ShapeOf
<1>4. found # {} /\ built[m].clock = all[Max(found)]
  BY <1>3 DEF clock_name
<1>5. PICK n \in Nat : DOMAIN all = 1..n
  <2>1. all \in Seq(Nat \X Int)
    BY <1>2, AllBitsIs
  <2> QED
    BY <2>1
<1>6. Max(found) \in found
  <2>1. found \subseteq 0..n
    BY <1>5
  <2> HIDE DEF found
  <2> QED
    BY <1>4, <2>1, LargestIndex
<1>7. Max(found) \in DOMAIN all /\ is_clock(ym, clock, all[Max(found)])
  BY <1>6
<1>8. clock # Unsupported /\ BitWire(ym, built[m].clock) = clock /\ built[m].clock \in Range(all)
  <2> HIDE DEF found, clock
  <2> QED
    BY <1>4, <1>7 DEF is_clock, Range
<1>9. clock \in ClockWires(built, ym)
  BY <1>8 DEF module_clock_wire
<1> QED
  BY <1>8, <1>9 DEF ClockBits

(* Every net of the clock is the clock wire of its instance.               *)
LEMMA NetsAreClocked ==
    ASSUME Exact, OneClockBit, NEW m \in Ready, NEW n \in ClockNets(m)
    PROVE  Clocked(m, n)
<1> DEFINE edges == PortNets(m, "input")
           all == ClockPins(m) \cup {e[1] : e \in edges}
           T == {k \in all : Clocked(m, k)}
<1>1. IsFiniteSet(edges)
  BY PortNetsAre
<1>2. ClockPins(m) \subseteq T
  BY PinsAreClocked
<1>3. \A e \in edges : e[2] \in T => e[1] \in T
  BY ClockedAbove
<1> HIDE DEF T, edges
<1>4. Upstream(edges, ClockPins(m)) \subseteq T
  BY <1>1, <1>2, <1>3, UpstreamIn
<1>5. n \in T
  BY <1>4 DEF ClockNets, edges
<1> QED
  BY <1>5 DEF T

(* A gate with a clock is a register.                                      *)
LEMMA ClockOfGate ==
    ASSUME NEW type, is_gate(type), GateOf(type).clock # NoBit
    PROVE  type = "DFF" /\ GateOf(type).clock = <<1, 0>>
<1>1. type # "DFF" => GateOf(type) = Comb(1) \/ GateOf(type) = Comb(2) \/ GateOf(type) = Comb(3)
  BY DEF is_gate, GateTypes, GateOf
<1>2. \A k : Comb(k).clock = NoBit
  BY DEF Comb
<1>3. type = "DFF"
  BY <1>1, <1>2
<1>4. GateOf("DFF") = Dff
  BY DEF GateOf
<1> QED
  BY <1>3, <1>4 DEF Dff

(* At the top, the nets of the clock are the clock wires of the module.    *)
LEMMA ClockAtTop ==
    ASSUME Exact, OneClockBit, ~HasLoop(Instantiates), NEW m \in Ready, NEW w
    PROVE  Top(w) \in ClockNets(m) <=> w \in ClockWires(built, YM(m))
<1>1. ASSUME Top(w) \in ClockNets(m)
      PROVE  w \in ClockWires(built, YM(m))
  <2>1. PICK x \in Hierarchy(m) :
           Top(w)[1] = x[1] /\ Top(w)[2] \in ClockWires(built, YM(x[2]))
    BY <1>1, NetsAreClocked DEF Clocked
  <2>2. TreeOf(m, Hierarchy(m))
    BY HierarchyIs
  <2>3. x = <<<<>>, m>>
    BY <2>1, <2>2 DEF TreeOf, Top
  <2> QED
    BY <2>1, <2>3 DEF Top
<1> DEFINE S == {s \in Ready : \E v \in ClockWires(built, YM(s)) : Top(v) \notin ClockNets(s)}
<1>2. ASSUME NEW s \in S, \A k \in Submodules(s) : k \notin S
      PROVE  FALSE
  <2>1. PICK v \in ClockWires(built, YM(s)) : Top(v) \notin ClockNets(s)
    OBVIOUS
  <2>2. s \in Ready
    OBVIOUS
  <2>3. PICK k \in DOMAIN Cells(s) : v \in clock_connection(built, Cells(s)[k])
    BY <2>1 DEF ClockWires, Range, Cells
  <2> DEFINE cell == Cells(s)[k]
             bit == Interface(built, cell.type).clock
  <2>4. bit # NoBit /\ v = CellWire(cell, bit)
    BY <2>3 DEF clock_connection, ClockPin
  <2>5. IsFiniteSet(PortNets(s, "input"))
    BY <2>2, PortNetsAre
  <2>6. /\ ClockPins(s) \subseteq ClockNets(s)
        /\ \A e \in PortNets(s, "input") : e[2] \in ClockNets(s) => e[1] \in ClockNets(s)
    BY <2>5, UpstreamClosed DEF ClockNets
  <2>7. CASE is_gate(cell.type)
    <3>1. bit = GateOf(cell.type).clock
      BY <2>7 DEF Interface
    <3>2. cell.type = "DFF" /\ bit = <<1, 0>>
      BY <2>4, <2>7, <3>1, ClockOfGate
    <3>3. v = cell.con[1][1]
      <4>1. 0 + 1 = 1
        OBVIOUS
      <4> HIDE DEF cell, bit
      <4> QED
        BY <2>4, <3>2, <4>1 DEF CellWire
    <3>4. k \in GateCells(Top(s))
      BY <2>7 DEF GateCells, Top
    <3>5. Top(v) \in ClockPins(s)
      BY <2>2, <3>2, <3>3, <3>4, ClockPinsBelow
    <3> QED
      BY <2>1, <2>6, <3>5
  <2>8. CASE ~is_gate(cell.type)
    <3> DEFINE t == TypeOf(s, k)
    <3>1. k \in SubCells(s) /\ t = cell.type
      BY <2>8 DEF SubCells, TypeOf
    <3>2. t \in DOMAIN built /\ t \in Ready /\ t \in Submodules(s)
      BY <2>2, <3>1, SubCellsAre
    <3>3. bit = built[t].clock
      BY <2>8 DEF Interface, TypeOf
    <3> HIDE DEF t
    <3>4. bit \in ClockBits(t)
      BY <2>4, <3>2, <3>3, ClockOf
    <3>5. /\ bit \in Range(AllBits(YM(t))) /\ BitWire(YM(t), bit) \in ClockWires(built, YM(t))
          /\ YM(t).ports[bit[1]].dir = "input"
      BY <3>2, <3>4 DEF ClockBits, OneClockBit
    <3>6. Top(BitWire(YM(t), bit)) \in ClockNets(t)
      <4>1. t \notin S
        BY <1>2, <3>2
      <4> QED
        BY <3>2, <3>5, <4>1
    <3>7. InnerNet(s, k, bit) \in ClockNets(s)
      BY <2>2, <3>1, <3>6, ClockBelow, TopIs DEF InnerNet, t
    <3>8. <<Outer(s, k, bit), InnerNet(s, k, bit)>> \in PortNets(s, "input")
      <4>1. bit \in DirBits(t, "input")
        BY <3>5 DEF DirBits
      <4> HIDE DEF bit, cell
      <4> QED
        BY <2>2, <3>1, <4>1, PortNetsBelow DEF t
    <3>9. Outer(s, k, bit) \in ClockNets(s)
      <4> DEFINE e == <<Outer(s, k, bit), InnerNet(s, k, bit)>>
      <4>1. e[2] \in ClockNets(s) /\ e \in PortNets(s, "input")
        BY <3>7, <3>8
      <4>2. e[1] \in ClockNets(s)
        <5> HIDE DEF e
        <5> QED
          BY <2>6, <4>1
      <4> QED
        BY <4>2
    <3> QED
      BY <2>1, <2>4, <3>9 DEF Outer
  <2> QED
    BY <2>7, <2>8
<1>3. S = {}
  <2> SUFFICES ASSUME S # {}
               PROVE  FALSE
    OBVIOUS
  <2>1. S \in SUBSET Names
    BY DEF Ready
  <2> HIDE DEF S
  <2>2. PICK s \in S : \A k \in Submodules(s) : k \notin S
    BY <2>1, LeastModule
  <2> QED
    BY <1>2, <2>2
<1> QED
  BY <1>1, <1>3

(* The edges of the flat circuit.                                          *)
LEMMA FlatEdgesBelow ==
    ASSUME Exact, OneClockBit, ~HasLoop(Instantiates), NEW m \in Ready, NEW e
    PROVE  e \in FlatEdges(m) <=>
              \/ LocalEdge(m, e) /\ e[2] \notin ClockNets(m)
              \/ \E c \in SubCells(m) : \E f \in FlatEdges(TypeOf(m, c)) : e = PairUnder(c, f)
<1>1. \A s \in Ready : FlatEdges(s) = {f \in AllEdges(s) : f[2] \notin ClockNets(s)}
  BY FlatEdgesFinite
<1>2. ASSUME NEW c \in SubCells(m), NEW f \in AllEdges(TypeOf(m, c)), e = PairUnder(c, f)
      PROVE  e[2] \notin ClockNets(m) <=> f[2] \notin ClockNets(TypeOf(m, c))
  <2>1. IsNet(f[2])
    BY SubCellsAre, EdgesAreNets DEF IsNetPair
  <2>2. e[2] = Under(c, f[2])
    BY <1>2 DEF PairUnder
  <2> QED
    BY <2>1, <2>2, ClockBelow
<1>3. \A c \in SubCells(m) : TypeOf(m, c) \in Ready
  BY SubCellsAre
<1> QED
  BY <1>1, <1>2, <1>3, AllEdgesBelow

-----------------------------------------------------------------------------
(* What a node depends on, in a graph.                                     *)
Cone(edges, n) == Upstream(edges, {n})

(* A cone has its node, and what comes before what it has.                 *)
LEMMA ConeIs ==
    ASSUME NEW edges, IsFiniteSet(edges), NEW n
    PROVE  /\ n \in Cone(edges, n)
           /\ \A e \in edges : e[2] \in Cone(edges, n) => e[1] \in Cone(edges, n)
<1>1. {n} \subseteq Cone(edges, n)
  BY UpstreamClosed DEF Cone
<1> QED
  BY <1>1, UpstreamClosed DEF Cone

(* It is the least such set.                                               *)
LEMMA ConeLeast ==
    ASSUME NEW edges, IsFiniteSet(edges), NEW n, NEW T, n \in T,
           \A e \in edges : e[2] \in T => e[1] \in T
    PROVE  Cone(edges, n) \subseteq T
<1>1. {n} \subseteq T
  OBVIOUS
<1> QED
  BY <1>1, UpstreamIn DEF Cone

(* The cone of a node of a cone is part of it.                             *)
LEMMA ConeTransitive ==
    ASSUME NEW edges, IsFiniteSet(edges), NEW n, NEW k \in Cone(edges, n)
    PROVE  Cone(edges, k) \subseteq Cone(edges, n)
BY ConeIs, ConeLeast

(* The cone of a net of a cell is that of the net in the cell's module.    *)
LEMMA ConeUnder ==
    ASSUME Exact, OneClockBit, ~HasLoop(Instantiates), NEW m \in Ready, NEW c \in SubCells(m),
           NEW n, NEW k \in Cone(FlatEdges(TypeOf(m, c)), n)
    PROVE  Under(c, k) \in Cone(FlatEdges(m), Under(c, n))
<1> DEFINE F == FlatEdges(m)
           f == FlatEdges(TypeOf(m, c))
           T == {j \in {n} \cup {e[1] : e \in f} : Under(c, j) \in Cone(F, Under(c, n))}
<1>1. IsFiniteSet(F) /\ IsFiniteSet(f)
  BY SubCellsAre, FlatEdgesFinite
<1>2. \A e \in f : PairUnder(c, e) \in F
  BY FlatEdgesBelow
<1>3. \A e : PairUnder(c, e)[1] = Under(c, e[1]) /\ PairUnder(c, e)[2] = Under(c, e[2])
  BY DEF PairUnder
<1> HIDE DEF F, f
<1>4. n \in T
  BY <1>1, ConeIs
<1>5. ASSUME NEW e \in f, e[2] \in T
      PROVE  e[1] \in T
  <2>1. PairUnder(c, e) \in F /\ PairUnder(c, e)[2] \in Cone(F, Under(c, n))
    BY <1>2, <1>3, <1>5
  <2>2. PairUnder(c, e)[1] \in Cone(F, Under(c, n))
    BY <1>1, <2>1, ConeIs
  <2> QED
    BY <1>3, <2>2
<1> HIDE DEF T
<1>6. Cone(f, n) \subseteq T
  BY <1>1, <1>4, <1>5, ConeLeast
<1>7. k \in T
  BY <1>6 DEF f
<1> QED
  BY <1>7 DEF T, F

-----------------------------------------------------------------------------
(* The bits of the ports of a built module.                                *)
InBit(t, i) == built[t].ports[built[t].inputs[i]]
InWire(t, i) == BitWire(YM(t), InBit(t, i))
Ins(t) == DOMAIN built[t].inputs
OutBit(t, o) == built[t].ports[o]
OutWire(t, o) == BitWire(YM(t), OutBit(t, o))
Outs(t) == Range(built[t].outputs)

(* Sorting some numbers leaves them.                                       *)
LEMMA IncreasingRange ==
    ASSUME NEW S \in SUBSET Int, IsFiniteSet(S)
    PROVE  Range(Increasing(S)) = S
<1>1. /\ Increasing(S) \in [1..Cardinality(S) -> S]
      /\ \A x \in S : \E k \in 1..Cardinality(S) : Increasing(S)[k] = x
  BY IncreasingIs
<1> QED
  BY <1>1 DEF Range

(* Picking elements of a sequence by their numbers gives these elements.   *)
LEMMA PickRange ==
    ASSUME NEW seq, NEW S \in SUBSET Int, S \subseteq DOMAIN seq, IsFiniteSet(S)
    PROVE  \A x : x \in Range(Pick(seq, Increasing(S))) <=> \E k \in S : x = seq[k]
<1> DEFINE P == Pick(seq, Increasing(S))
           inc == Increasing(S)
<1>1. /\ DOMAIN P = 1..Cardinality(S)
      /\ \A k \in 1..Cardinality(S) : P[k] = seq[inc[k]]
  BY PickIs
<1>2. inc \in [1..Cardinality(S) -> S] /\ \A x \in S : \E k \in 1..Cardinality(S) : inc[k] = x
  BY IncreasingIs
<1> HIDE DEF P, inc
<1>3. ASSUME NEW k \in DOMAIN P
      PROVE  \E j \in S : P[k] = seq[j]
  BY <1>1, <1>2
<1>4. ASSUME NEW j \in S
      PROVE  \E k \in DOMAIN P : P[k] = seq[j]
  BY <1>1, <1>2
<1>5. \A x : x \in Range(P) <=> \E k \in DOMAIN P : x = P[k]
  BY DEF Range
<1>6. \A x : x \in Range(P) <=> \E k \in S : x = seq[k]
  BY <1>3, <1>4, <1>5
<1> QED
  BY <1>6 DEF P

(* The clock of a module, and the bits of its ports that are not on it.    *)
LEMMA ClockIs ==
    ASSUME NEW mods, NEW ym, ym.cells \in Seq(Range(ym.cells)),
           BuildModule(mods, ym).error \in {None, "loop"}
    PROVE  \A b : is_clock(ym, module_clock_wire(mods, ym), b) <=> BitWire(ym, b) \in ClockWires(mods, ym)
<1>1. Unsupported \notin ClockWires(mods, ym)
  BY BuiltChecks
<1>2. CASE ClockWires(mods, ym) = {}
  BY <1>2 DEF module_clock_wire, is_clock
<1>3. CASE ClockWires(mods, ym) # {}
  <2>1. module_clock_wire(mods, ym) \in ClockWires(mods, ym)
    BY <1>3 DEF module_clock_wire
  <2>2. \A w \in ClockWires(mods, ym) : w = module_clock_wire(mods, ym)
    BY <2>1, OneClockWire
  <2> QED
    BY <1>1, <2>1, <2>2 DEF is_clock
<1> QED
  BY <1>2, <1>3

(* A built module has the bits of its netlist that are not the clock, and  *)
(* its inputs (outputs) are those of input (output) ports.                 *)
LEMMA BitsAre ==
    ASSUME NEW mods, NEW ym, WellFormed(ym)
    PROVE  /\ \A b : b \in Range(BitsOf(mods, ym)) <=>
                 b \in Range(AllBits(ym)) /\ ~is_clock(ym, module_clock_wire(mods, ym), b)
           /\ \A dir : Range(filter_ports(ym, BitsOf(mods, ym), dir))
                          = {c \in DOMAIN BitsOf(mods, ym) : ym.ports[BitsOf(mods, ym)[c][1]].dir = dir}
<1> DEFINE clock == module_clock_wire(mods, ym)
           all == AllBits(ym)
           S == {i \in DOMAIN all : ~is_clock(ym, clock, all[i])}
           bits == BitsOf(mods, ym)
<1>1. bits = Pick(all, Increasing(S))
  BY DEF BitsOf, ports, Positions
<1>2. PICK N \in Nat : DOMAIN all = 1..N
  BY AllBitsIs
<1>3. S \in SUBSET Int /\ S \subseteq DOMAIN all /\ IsFiniteSet(S)
  <2>1. IsFiniteSet(1..N)
    BY FS_Interval
  <2>2. S \in SUBSET Int /\ S \subseteq 1..N
    BY <1>2
  <2> HIDE DEF S
  <2> QED
    BY <1>2, <2>1, <2>2, FS_Subset
<1>4. \A b : b \in Range(bits) <=> \E k \in S : b = all[k]
  <2> HIDE DEF S, all, bits
  <2> QED
    BY <1>1, <1>3, PickRange
<1>5. ASSUME NEW dir
      PROVE  Range(filter_ports(ym, bits, dir)) = {c \in DOMAIN bits : ym.ports[bits[c][1]].dir = dir}
  <2> DEFINE D == {c \in DOMAIN bits : ym.ports[bits[c][1]].dir = dir}
  <2>1. filter_ports(ym, bits, dir) = Increasing(D)
    BY DEF filter_ports, Positions
  <2>2. PICK n \in Nat : DOMAIN bits = 1..n
    BY ShapeIs
  <2>3. IsFiniteSet(1..n) /\ D \subseteq 1..n /\ 1..n \subseteq Int
    BY <2>2, FS_Interval
  <2> HIDE DEF D
  <2>4. IsFiniteSet(D) /\ D \in SUBSET Int
    BY <2>3, FS_Subset
  <2>5. Range(filter_ports(ym, bits, dir)) = D
    BY <2>1, <2>4, IncreasingRange
  <2> QED
    BY <2>5 DEF D
<1>6. \A b : (\E k \in S : b = all[k]) <=> b \in Range(all) /\ ~is_clock(ym, clock, b)
  BY DEF Range
<1> QED
  BY <1>4, <1>5, <1>6

PortsAre(t) ==
    /\ \A i \in Ins(t) : /\ InBit(t, i) \in DirBits(t, "input") /\ InBit(t, i) \notin ClockBits(t)
                         /\ built[t].inputs[i] \in DOMAIN built[t].ports
                         /\ built[t].connection_wires[built[t].inputs[i]] = InWire(t, i)
    /\ \A b \in DirBits(t, "input") : b \notin ClockBits(t) => \E i \in Ins(t) : b = InBit(t, i)
    /\ \A o \in Outs(t) : /\ OutBit(t, o) \in DirBits(t, "output")
                          /\ o \in DOMAIN built[t].ports
                          /\ built[t].connection_wires[o] = OutWire(t, o)
    /\ \A b \in DirBits(t, "output") : \E o \in Outs(t) : b = OutBit(t, o)

(* Hence the ports of every built module are these.                        *)
LEMMA BuiltPorts ==
    ASSUME Exact, OneClockBit, NEW t \in DOMAIN built
    PROVE  PortsAre(t)
<1> DEFINE ym == YM(t)
           mod == built[t]
           bits == BitsOf(built, ym)
<1>1. /\ t \in Names /\ design \in Designs /\ BuildModule(built, ym).error = None
      /\ mod = BuildModule(built, ym).value
  BY DEF Exact
<1>2. WellFormed(ym) /\ ym.cells \in Seq(Range(ym.cells))
  BY <1>1, ModulesAreWellFormed
<1>3. /\ mod.ports = bits /\ mod.inputs = filter_ports(ym, bits, "input")
      /\ mod.outputs = filter_ports(ym, bits, "output")
  BY <1>1, BuiltShape DEF ShapeOf
<1>4. mod.connection_wires = [c \in DOMAIN bits |-> BitWire(ym, bits[c])]
  <2>1. mod.connection_wires = RawModule(built, ym).connection_wires
    <3>1. mod = IF ~IsPipeline(ym) THEN RawModule(built, ym) ELSE GadgetModule(built, ym)
      BY <1>1, ValueIs
    <3>2. GadgetModule(built, ym).connection_wires = RawModule(built, ym).connection_wires
      <4> DEFINE raw == RawModule(built, ym)
                 g == PipelineGadget(ym, ShapeOf(built, ym))
                 new == GadgetModule(built, ym)
      <4>1. /\ new.ports = raw.ports /\ new.clock = raw.clock /\ new.inputs = raw.inputs
            /\ new.outputs = raw.outputs /\ new.instances = raw.instances
            /\ new.connection_wires = raw.connection_wires
            /\ new.source = raw.source /\ new.sinks = raw.sinks
            /\ new.dag = raw.dag \o StageEdges(raw, g)
            /\ new.comb_input_deps = [w \in DOMAIN raw.comb_input_deps |->
                                          raw.comb_input_deps[w] \o StageInputs(raw, g, w)]
            /\ new.gadget = <<g>>
        BY UpdateIs
      <4> QED
        BY <4>1
    <3> QED
      BY <3>1, <3>2
  <2> QED
    BY <2>1 DEF RawModule
<1>5. \A b : b \in Range(bits) <=> b \in Range(AllBits(ym)) /\ b \notin ClockBits(t)
  <2>1. \A b : b \in Range(bits) <=>
           b \in Range(AllBits(ym)) /\ ~is_clock(ym, module_clock_wire(built, ym), b)
    BY <1>2, BitsAre
  <2>2. \A b : is_clock(ym, module_clock_wire(built, ym), b) <=> BitWire(ym, b) \in ClockWires(built, ym)
    BY <1>1, <1>2, ClockIs
  <2> QED
    BY <2>1, <2>2 DEF ClockBits
<1>6. \A dir : Range(filter_ports(ym, bits, dir)) = {c \in DOMAIN bits : ym.ports[bits[c][1]].dir = dir}
  BY <1>2, BitsAre
<1>7. \A b \in ClockBits(t) : ym.ports[b[1]].dir = "input"
  BY DEF OneClockBit
<1> HIDE DEF bits, ym, mod
<1>8. \A s : \A x : x \in Range(s) <=> \E k \in DOMAIN s : x = s[k]
  BY DEF Range
<1>9. ASSUME NEW dir
      PROVE  /\ \A c \in Range(filter_ports(ym, bits, dir)) :
                   c \in DOMAIN bits /\ bits[c] \in DirBits(t, dir) /\ bits[c] \notin ClockBits(t)
             /\ \A b \in DirBits(t, dir) : b \notin ClockBits(t) =>
                   \E c \in Range(filter_ports(ym, bits, dir)) : b = bits[c]
  BY <1>5, <1>6, <1>8 DEF DirBits, ym
<1>10. "output" # "input"
  OBVIOUS
<1>11. \A b \in DirBits(t, "output") : b \notin ClockBits(t)
  BY <1>7, <1>10 DEF DirBits, ym
<1>12. ASSUME NEW i \in Ins(t)
       PROVE  /\ InBit(t, i) \in DirBits(t, "input") /\ InBit(t, i) \notin ClockBits(t)
              /\ mod.inputs[i] \in DOMAIN mod.ports
              /\ mod.connection_wires[mod.inputs[i]] = InWire(t, i)
  <2>1. mod.inputs[i] \in Range(filter_ports(ym, bits, "input"))
    BY <1>3, <1>8 DEF Ins, mod
  <2>2. InBit(t, i) = bits[mod.inputs[i]]
    BY <1>3 DEF InBit, mod
  <2>3. mod.inputs[i] \in DOMAIN bits
    BY <1>9, <2>1
  <2> QED
    BY <1>3, <1>4, <1>9, <2>1, <2>2, <2>3 DEF InWire, ym
<1>13. ASSUME NEW b \in DirBits(t, "input"), b \notin ClockBits(t)
       PROVE  \E i \in Ins(t) : b = InBit(t, i)
  <2>1. PICK c \in Range(filter_ports(ym, bits, "input")) : b = bits[c]
    BY <1>9, <1>13
  <2>2. PICK i \in DOMAIN mod.inputs : c = mod.inputs[i]
    BY <1>3, <1>8, <2>1
  <2> QED
    BY <1>3, <2>1, <2>2 DEF Ins, InBit, mod
<1>14. ASSUME NEW o \in Outs(t)
       PROVE  /\ OutBit(t, o) \in DirBits(t, "output") /\ o \in DOMAIN mod.ports
              /\ mod.connection_wires[o] = OutWire(t, o)
  <2>1. o \in Range(filter_ports(ym, bits, "output"))
    BY <1>3 DEF Outs, mod
  <2>2. OutBit(t, o) = bits[o]
    BY <1>3 DEF OutBit, mod
  <2>3. o \in DOMAIN bits
    BY <1>9, <2>1
  <2> QED
    BY <1>3, <1>4, <1>9, <2>1, <2>2, <2>3 DEF OutWire, ym
<1>15. ASSUME NEW b \in DirBits(t, "output")
       PROVE  \E o \in Outs(t) : b = OutBit(t, o)
  <2>1. PICK c \in Range(filter_ports(ym, bits, "output")) : b = bits[c]
    BY <1>9, <1>11, <1>15
  <2> QED
    BY <1>3, <2>1 DEF Outs, OutBit, mod
<1> QED
  BY <1>12, <1>13, <1>14, <1>15 DEF PortsAre, mod

-----------------------------------------------------------------------------
(* The error "loop" is only that of a graph with one.                      *)
LEMMA RolesDoNotLoop ==
    ASSUME NEW ym, NEW bits, NEW n \in Nat, DOMAIN bits = 1..n
    PROVE  RolesError(ym, bits) # "loop"
<1> DEFINE errors == [i \in DOMAIN bits |-> RoleError(PortOf(ym, bits[i]))]
           checks == [i \in DOMAIN bits |-> Check(errors[i] # None, errors[i])]
<1>1. ASSUME NEW p
      PROVE  RoleError(p) # "loop"
  <2> DEFINE two == <<Check(p.type = "clock", "undetected_clock"),
                      Check(p.type = "random" /\ p.dir # "input", "random_output")>>
  <2>1. DOMAIN two = 1..2 /\ \A i \in 1..2 : two[i].error # "loop"
    BY DEF Check
  <2>2. RoleError(p) = FirstError(two)
    BY DEF RoleError
  <2>3. 2 \in Nat /\ "loop" # None
    BY DEF None
  <2>4. FirstError(two) # "loop"
    <3> HIDE DEF two
    <3> QED
      BY <2>1, <2>3, NoOtherError
  <2> HIDE DEF two
  <2> QED
    BY <2>2, <2>4
<1>2. DOMAIN checks = 1..n /\ \A i \in 1..n : checks[i].error # "loop"
  <2>1. \A i \in 1..n : errors[i] # "loop"
    BY <1>1
  <2> HIDE DEF errors
  <2> QED
    BY <2>1 DEF Check
<1>3. RolesError(ym, bits) = FirstError(checks)
  BY DEF RolesError
<1>4. "loop" # None
  BY DEF None
<1> HIDE DEF checks
<1> QED
  BY <1>2, <1>3, <1>4, NoOtherError

(* Errors in the annotations of a gadget are not about loops.              *)
LEMMA AttributesDoNotLoop ==
    ASSUME NEW ym, ym.ports \in Seq(Range(ym.ports))
    PROVE  GadgetBuilderError(ym) # "loop"
<1>1. "loop" # None
  BY DEF None
<1>2. GadgetAttrsError(ym.attrs) # "loop"
  <2> DEFINE a == ym.attrs
             four == <<
        Check(Given(a) \notin {{}, {"arch", "prop", "strat", "shares"}}, "all_or_none"),
        Check(IsGadget(a) /\ a.arch \notin {"loopy", "pipeline"}, "arch"),
        Check(IsGadget(a) /\ a.prop \notin {"PINI", "OPINI", "affine"}, "prop"),
        Check(IsGadget(a) /\ a.strat \notin {"assumed", "composite_top"}, "strat")>>
  <2>1. DOMAIN four = 1..4 /\ \A i \in 1..4 : four[i].error # "loop"
    BY DEF Check
  <2>2. GadgetAttrsError(a) = FirstError(four)
    BY DEF GadgetAttrsError
  <2>3. 4 \in Nat
    OBVIOUS
  <2>4. FirstError(four) # "loop"
    <3> HIDE DEF four
    <3> QED
      BY <1>1, <2>1, <2>3, NoOtherError
  <2> HIDE DEF four
  <2> QED
    BY <2>2, <2>4
<1>3. ASSUME NEW p, NEW n
      PROVE  PortKindError(p, n) # "loop"
  <2> DEFINE four == <<
        Check(p.type \in Dense \cup {"sharings_strided"} /\ Width(p) % n # 0, "width"),
        Check(p.type = "share" /\ p.share = Missing, "no_share"),
        Check(p.type = "clock" /\ Width(p) # 1, "clock_width"),
        Check(p.type \notin PortTypes, "type")>>
  <2>1. DOMAIN four = 1..4 /\ \A i \in 1..4 : four[i].error # "loop"
    BY DEF Check
  <2>2. PortKindError(p, n) = FirstError(four)
    BY DEF PortKindError
  <2>3. 4 \in Nat
    OBVIOUS
  <2>4. FirstError(four) # "loop"
    <3> HIDE DEF four
    <3> QED
      BY <1>1, <2>1, <2>3, NoOtherError
  <2> HIDE DEF four
  <2> QED
    BY <2>2, <2>4
<1> DEFINE kind == [i \in DOMAIN ym.ports |-> PortKindError(ym.ports[i], ym.attrs.shares)]
           checks == [i \in DOMAIN kind |-> Check(kind[i] # None, kind[i])]
<1>4. PICK n \in Nat : DOMAIN ym.ports = 1..n
  OBVIOUS
<1>5. DOMAIN checks = 1..n /\ \A i \in 1..n : checks[i].error # "loop"
  <2>1. DOMAIN kind = 1..n /\ \A i \in 1..n : kind[i] # "loop"
    BY <1>3, <1>4
  <2> HIDE DEF kind
  <2> QED
    BY <2>1 DEF Check
<1>6. FirstError(checks) # "loop"
  <2> HIDE DEF checks
  <2> QED
    BY <1>1, <1>5, NoOtherError
<1>7. \/ GadgetBuilderError(ym) = GadgetAttrsError(ym.attrs) \/ GadgetBuilderError(ym) = None
      \/ GadgetBuilderError(ym) = FirstError(checks)
  BY DEF GadgetBuilderError
<1> QED
  BY <1>1, <1>2, <1>6, <1>7

(* Nor are those of its latencies and stages.                              *)
LEMMA GadgetsDoNotLoop ==
    ASSUME NEW mods, NEW ym, WellFormed(ym)
    PROVE  PipelineError(ym, ShapeOf(mods, ym)) # "loop"
<1> DEFINE module == ShapeOf(mods, ym)
           ins == BitsAt(module, module.inputs)
           outs == BitsAt(module, module.outputs)
           checks == <<
            Check(RolesError(ym, ins) # None, RolesError(ym, ins)),
            Check(RolesError(ym, outs) # None, RolesError(ym, outs)),
            Check(\E i \in DOMAIN outs : PortOf(ym, outs[i]).type = "control", "control_output"),
            Check(~check_clock(ym, module), "clock_not_annotated"),
            Check(\E b \in Range(module.ports) : PortOf(ym, b).latency = Missing, "no_latency")>>
<1>1. PICK n \in Nat : DOMAIN BitsOf(mods, ym) = 1..n
  BY ShapeIs
<1>2. ASSUME NEW dir
      PROVE  \E k \in Nat : DOMAIN filter_ports(ym, BitsOf(mods, ym), dir) = 1..k
  <2> DEFINE D == {c \in DOMAIN BitsOf(mods, ym) : ym.ports[BitsOf(mods, ym)[c][1]].dir = dir}
  <2>1. filter_ports(ym, BitsOf(mods, ym), dir) = Increasing(D)
    BY DEF filter_ports, Positions
  <2>2. IsFiniteSet(1..n) /\ D \subseteq 1..n
    BY <1>1, FS_Interval
  <2>3. IsFiniteSet(D)
    <3> HIDE DEF D
    <3> QED
      BY <2>2, FS_Subset
  <2>4. Cardinality(D) \in Nat
    <3> HIDE DEF D
    <3> QED
      BY <2>3, FS_CardinalityType
  <2> HIDE DEF D
  <2>5. DOMAIN Increasing(D) = 1..Cardinality(D)
    BY DEF Increasing
  <2> QED
    BY <2>1, <2>4, <2>5
<1>3. /\ DOMAIN ins = DOMAIN filter_ports(ym, BitsOf(mods, ym), "input")
      /\ DOMAIN outs = DOMAIN filter_ports(ym, BitsOf(mods, ym), "output")
  BY DEF BitsAt, Pick, ShapeOf
<1>4. RolesError(ym, ins) # "loop" /\ RolesError(ym, outs) # "loop"
  <2>1. PICK k \in Nat : DOMAIN ins = 1..k
    BY <1>2, <1>3
  <2>2. PICK l \in Nat : DOMAIN outs = 1..l
    BY <1>2, <1>3
  <2> HIDE DEF ins, outs
  <2> QED
    BY <2>1, <2>2, RolesDoNotLoop
<1>5. DOMAIN checks = 1..5 /\ \A i \in 1..5 : checks[i].error # "loop"
  <2> HIDE DEF module, ins, outs
  <2> QED
    BY <1>4 DEF Check
<1>6. "loop" # None /\ 5 \in Nat
  BY DEF None
<1>7. FirstError(checks) # "loop"
  <2> HIDE DEF checks
  <2> QED
    BY <1>5, <1>6, NoOtherError
<1>8. GadgetBuilderError(ym) # "loop"
  BY AttributesDoNotLoop DEF WellFormed
<1>9. \/ PipelineError(ym, module) = GadgetBuilderError(ym) \/ PipelineError(ym, module) = None
      \/ PipelineError(ym, module) = FirstError(checks)
  <2> HIDE DEF module
  <2> QED
    BY DEF PipelineError
<1> QED
  BY <1>6, <1>7, <1>8, <1>9

(* When a module fails only for a loop, or not at all, its wires have one  *)
(* driver each, and it fails when its own graph has a loop.                *)
LEMMA LoopIsLast ==
    ASSUME NEW mods, NEW ym, WellFormed(ym), BuildModule(mods, ym).error \in {None, "loop"}
    PROVE  /\ DriverError(mods, Instances(mods, ym), WiresOf(ym)) = None
           /\ BuildModule(mods, ym).error = "loop"
                 <=> HasLoop(Range(comb_wire_dag(mods, Instances(mods, ym))))
<1> DEFINE bits == BitsOf(mods, ym)
           insts == Instances(mods, ym)
           driver == DriverError(mods, insts, WiresOf(ym))
           gadget == PipelineError(ym, ShapeOf(mods, ym))
           loop == HasLoop(Range(comb_wire_dag(mods, insts)))
           checks == <<
            Check(\E i \in Range(module_instances(mods, ym)) : Unsupported \in Range(i.con),
                  "unsupported_wire"),
            Check(Unsupported \in ClockWires(mods, ym), "panic_clock"),
            Check(Cardinality(ClockWires(mods, ym)) > 1, "several_clocks"),
            Check(\E b \in Range(bits) : ym.ports[b[1]].dir = "inout", "inout"),
            Check(\E b \in Range(bits) : BitWire(ym, b) = Unsupported, "unsupported_wire")>>
           res == BuildModule(mods, ym).error
<1>1. /\ FirstError(checks) # None => res = FirstError(checks)
      /\ FirstError(checks) = None /\ driver # None => res = driver
      /\ FirstError(checks) = None /\ driver = None /\ gadget # None => res = gadget
      /\ FirstError(checks) = None /\ driver = None /\ gadget = None =>
            res = IF loop THEN "loop" ELSE None
  BY DEF BuildModule, Fail, Done, ShapeOf, BitsOf
<1>2. "loop" # None /\ 5 \in Nat /\ 2 \in Nat
  BY DEF None
<1>3. FirstError(checks) # "loop"
  <2>1. DOMAIN checks = 1..5 /\ \A i \in 1..5 : checks[i].error # "loop"
    BY DEF Check
  <2> HIDE DEF checks
  <2> QED
    BY <1>2, <2>1, NoOtherError
<1>4. driver # "loop"
  <2> DEFINE two == <<
        Check(\E w \in WiresOf(ym) : Cardinality(drivers(mods, insts, w)) > 1, "two_drivers"),
        Check(\E w \in WiresOf(ym) : drivers(mods, insts, w) = {}, "no_driver")>>
  <2>1. DOMAIN two = 1..2 /\ \A i \in 1..2 : two[i].error # "loop"
    BY DEF Check
  <2>2. driver = FirstError(two)
    BY DEF DriverError
  <2> HIDE DEF two
  <2> QED
    BY <1>2, <2>1, <2>2, NoOtherError
<1>5. gadget # "loop"
  BY GadgetsDoNotLoop
<1>6. res \in {None, "loop"}
  OBVIOUS
<1> HIDE DEF checks, driver, gadget, loop, res
<1>7. driver = None /\ (res = "loop" <=> loop)
  BY <1>1, <1>2, <1>3, <1>4, <1>5, <1>6
<1> QED
  BY <1>7 DEF driver, loop, res

-----------------------------------------------------------------------------
(* The instances of a module and the drivers of its wires.                 *)
LEMMA RangeConcat ==
    ASSUME NEW S, NEW s \in Seq(S), NEW t \in Seq(S)
    PROVE  s \o t \in Seq(S) /\ Range(s \o t) = Range(s) \cup Range(t)
<1> DEFINE st == s \o t
<1>1. /\ st \in Seq(S) /\ DOMAIN st = 1..(Len(s) + Len(t))
      /\ DOMAIN s = 1..Len(s) /\ DOMAIN t = 1..Len(t) /\ Len(s) \in Nat /\ Len(t) \in Nat
      /\ \A k \in 1..Len(s) : st[k] = s[k]
      /\ \A k \in 1..Len(t) : st[Len(s) + k] = t[k]
  OBVIOUS
<1> HIDE DEF st
<1>2. ASSUME NEW k \in DOMAIN st
      PROVE  st[k] \in Range(s) \cup Range(t)
  <2>1. CASE k \in 1..Len(s)
    BY <1>1, <2>1 DEF Range
  <2>2. CASE k \notin 1..Len(s)
    <3>1. k - Len(s) \in 1..Len(t) /\ Len(s) + (k - Len(s)) = k
      BY <1>1, <2>2
    <3>2. st[k] = t[k - Len(s)]
      BY <1>1, <3>1
    <3> QED
      BY <1>1, <3>1, <3>2 DEF Range
  <2> QED
    BY <2>1, <2>2
<1>3. ASSUME NEW k \in 1..Len(s)
      PROVE  k \in DOMAIN st /\ s[k] = st[k]
  BY <1>1
<1>4. ASSUME NEW k \in 1..Len(t)
      PROVE  Len(s) + k \in DOMAIN st /\ t[k] = st[Len(s) + k]
  BY <1>1
<1>5. Range(st) \subseteq Range(s) \cup Range(t)
  BY <1>2 DEF Range
<1>6. Range(s) \subseteq Range(st)
  BY <1>1, <1>3 DEF Range
<1>7. Range(t) \subseteq Range(st)
  BY <1>1, <1>4 DEF Range
<1>8. Range(st) = Range(s) \cup Range(t)
  BY <1>5, <1>6, <1>7
<1> QED
  BY <1>1, <1>8 DEF st

(* A function on 1..n is a sequence of its values.                         *)
LEMMA RangeIsSeq ==
    ASSUME NEW n \in Nat, NEW f, DOMAIN f = 1..n, f = [k \in 1..n |-> f[k]]
    PROVE  f \in Seq(Range(f))
<1>1. \A k \in 1..n : f[k] \in Range(f)
  BY DEF Range
<1>2. f \in [1..n -> Range(f)]
  BY <1>1
<1> QED
  BY <1>2, FunctionIsSeq

(* The instances of a module are its input ports, its cells, its constants *)
(* and its undriven wires.                                                 *)
LEMMA InstancesRange ==
    ASSUME NEW mods, NEW ym, Checked(mods, ym)
    PROVE  Range(Instances(mods, ym)) = FourKinds(mods, ym)
<1> DEFINE clock == module_clock_wire(mods, ym)
           A == tie_instances
           C == clock_instances(clock)
           I == input_instances(ym, ports(ym, clock))
           M == module_instances(mods, ym)
           all == Range(A) \cup Range(C) \cup Range(I) \cup Range(M)
<1>1. A \in Seq(Range(A))
  BY DEF tie_instances, Range
<1>2. C \in Seq(Range(C))
  <2>1. CASE clock = Unsupported
    BY <2>1 DEF clock_instances, Range
  <2>2. CASE clock # Unsupported
    <3>1. C = <<Instance("clock", None, 0, <<clock>>)>>
      BY <2>2 DEF clock_instances
    <3> HIDE DEF C
    <3> QED
      BY <3>1 DEF Range
  <2> QED
    BY <2>1, <2>2
<1>3. I \in Seq(Range(I))
  <2>1. PICK n \in Nat : \A dir : filter_ports(ym, BitsOf(mods, ym), dir) \in Seq(1..n)
    BY BitsTyped
  <2> DEFINE ins == filter_ports(ym, BitsOf(mods, ym), "input")
  <2>2. PICK k \in Nat : DOMAIN ins = 1..k
    <3>1. ins \in Seq(1..n)
      BY <2>1
    <3> QED
      BY <3>1
  <2>3. DOMAIN I = 1..k /\ I = [j \in DOMAIN I |-> I[j]]
    BY <2>2 DEF input_instances, BitsOf
  <2> HIDE DEF I
  <2> QED
    BY <2>3, RangeIsSeq
<1>4. M \in Seq(Range(M))
  <2>1. PICK n \in Nat : DOMAIN ym.cells = 1..n
    BY DEF Checked
  <2>2. DOMAIN M = 1..n /\ M = [j \in DOMAIN M |-> M[j]]
    BY <2>1 DEF module_instances
  <2> HIDE DEF M
  <2> QED
    BY <2>2, RangeIsSeq
<1>5. Instances(mods, ym) = ((A \o C) \o I) \o M
  BY DEF Instances
<1>6. FourKinds(mods, ym) = all
  BY DEF FourKinds
<1> HIDE DEF A, C, I, M
<1>7. A \in Seq(all) /\ C \in Seq(all) /\ I \in Seq(all) /\ M \in Seq(all)
  <2>1. A \in Seq(all)
    BY <1>1
  <2>2. C \in Seq(all)
    BY <1>2
  <2>3. I \in Seq(all)
    BY <1>3
  <2>4. M \in Seq(all)
    BY <1>4
  <2> QED
    BY <2>1, <2>2, <2>3, <2>4
<1> DEFINE T == all
<1>8. T = Range(A) \cup Range(C) \cup Range(I) \cup Range(M)
  OBVIOUS
<1>9. A \in Seq(T) /\ C \in Seq(T) /\ I \in Seq(T) /\ M \in Seq(T)
  BY <1>7
<1> HIDE DEF T, all
<1>10. A \o C \in Seq(T) /\ Range(A \o C) = Range(A) \cup Range(C)
  BY <1>9, RangeConcat
<1> DEFINE AC == A \o C
<1> HIDE DEF AC
<1>11. AC \o I \in Seq(T) /\ Range(AC \o I) = Range(AC) \cup Range(I)
  <2>1. AC \in Seq(T)
    BY <1>10 DEF AC
  <2> QED
    BY <1>9, <2>1, RangeConcat
<1> DEFINE ACI == AC \o I
<1> HIDE DEF ACI
<1>12. Range(ACI \o M) = Range(ACI) \cup Range(M)
  <2>1. ACI \in Seq(T)
    BY <1>11 DEF ACI
  <2> QED
    BY <1>9, <2>1, RangeConcat
<1>13. Instances(mods, ym) = ACI \o M /\ Range(ACI) = Range(AC) \cup Range(I)
  BY <1>5, <1>11 DEF ACI, AC
<1>14. Range(AC) = Range(A) \cup Range(C)
  BY <1>10 DEF AC
<1> QED
  BY <1>6, <1>8, <1>12, <1>13, <1>14 DEF T

(* No wire has two drivers.                                                *)
LEMMA OneDriver ==
    ASSUME NEW mods, NEW ym, Checked(mods, ym), NEW w \in WiresOf(ym)
    PROVE  \A d, e \in drivers(mods, Instances(mods, ym), w) : d = e
<1> DEFINE insts == Instances(mods, ym)
           of(i) == {<<i, o>> : o \in DOMAIN output_ports(mods, insts[i])}
           f == [i \in DOMAIN insts |-> of(i)]
           D == drivers(mods, insts, w)
<1>1. /\ insts \in Seq(FourKinds(mods, ym))
      /\ \A k \in DOMAIN insts : InstanceTyped(mods, ym, insts[k])
  BY InstancesTyped
<1>2. ~(Cardinality(D) > 1)
  <2>1. DriverError(mods, insts, WiresOf(ym)) = None
    BY LoopIsLast DEF Checked
  <2> HIDE DEF insts
  <2> QED
    BY <2>1, DriversFound
<1>3. IsFiniteSet(DOMAIN insts)
  <2> HIDE DEF insts
  <2>1. PICK n \in Nat : DOMAIN insts = 1..n
    BY <1>1
  <2> QED
    BY <2>1, FS_Interval
<1>4. \A i \in DOMAIN insts : IsFiniteSet(f[i])
  <2> SUFFICES ASSUME NEW i \in DOMAIN insts
               PROVE  IsFiniteSet(of(i))
    OBVIOUS
  <2> DEFINE outs == output_ports(mods, insts[i])
             g == [o \in DOMAIN outs |-> <<i, o>>]
  <2>1. PICK n \in Nat : outs \in Seq(1..n)
    <3>1. InstanceTyped(mods, ym, insts[i])
      BY <1>1
    <3> QED
      BY <3>1 DEF InstanceTyped
  <2>2. IsFiniteSet(DOMAIN outs)
    <3> HIDE DEF outs
    <3>1. PICK k \in Nat : DOMAIN outs = 1..k
      BY <2>1
    <3> QED
      BY <3>1, FS_Interval
  <2>3. of(i) = {g[o] : o \in DOMAIN outs}
    OBVIOUS
  <2> HIDE DEF g, outs, of
  <2> QED
    BY <2>2, <2>3, FiniteImage
<1>5. D \subseteq UNION {f[i] : i \in DOMAIN insts}
  BY DEF drivers
<1>6. IsFiniteSet(UNION {f[i] : i \in DOMAIN insts})
  <2> HIDE DEF f, insts
  <2> QED
    BY <1>3, <1>4, FiniteUnions
<1>7. IsFiniteSet(D)
  <2> HIDE DEF f, insts, D
  <2> QED
    BY <1>5, <1>6, FS_Subset
<1> SUFFICES ASSUME NEW d \in D, NEW e \in D, d # e
             PROVE  FALSE
  OBVIOUS
<1> HIDE DEF D
<1>8. Cardinality(D) \in Nat /\ Cardinality(D) >= 2
  BY <1>7, AtLeast
<1> QED
  BY <1>2, <1>8

(* A clock drives its wire.                                                *)
LEMMA ClockNotDriven ==
    ASSUME NEW mods, NEW ym, Checked(mods, ym), NEW k \in DOMAIN Instances(mods, ym),
           Instances(mods, ym)[k].kind = "cell",
           NEW o \in DOMAIN output_ports(mods, Instances(mods, ym)[k])
    PROVE  Instances(mods, ym)[k].con[output_ports(mods, Instances(mods, ym)[k])[o]]
              \notin ClockWires(mods, ym)
<1> DEFINE insts == Instances(mods, ym)
           w == insts[k].con[output_ports(mods, insts[k])[o]]
           clock == module_clock_wire(mods, ym)
           j == Instance("clock", None, 0, <<clock>>)
<1> SUFFICES ASSUME w \in ClockWires(mods, ym)
             PROVE  FALSE
  OBVIOUS
<1>1. clock = w /\ clock # Unsupported
  <2>1. clock \in ClockWires(mods, ym)
    BY DEF module_clock_wire
  <2>2. Unsupported \notin ClockWires(mods, ym)
    BY BuiltChecks DEF Checked
  <2>3. \A w1, w2 \in ClockWires(mods, ym) : w1 = w2
    BY OneClockWire DEF Checked
  <2> QED
    BY <2>1, <2>2, <2>3
<1>2. w \in WiresOf(ym)
  <2>1. InstanceTyped(mods, ym, insts[k])
    BY InstancesTyped
  <2>2. PICK n \in Nat : insts[k].con \in [1..n -> WiresOf(ym)] /\ output_ports(mods, insts[k]) \in Seq(1..n)
    BY <2>1 DEF InstanceTyped
  <2> HIDE DEF insts
  <2>3. output_ports(mods, insts[k])[o] \in 1..n
    BY <2>2 DEF insts
  <2> QED
    BY <2>2, <2>3
<1>3. PICK l \in DOMAIN insts : insts[l] = j
  <2>1. j \in Range(clock_instances(clock))
    <3>1. clock_instances(clock) = <<j>>
      BY <1>1 DEF clock_instances
    <3> HIDE DEF j
    <3> QED
      BY <3>1 DEF Range
  <2>2. j \in FourKinds(mods, ym)
    BY <2>1 DEF FourKinds
  <2>3. j \in Range(insts)
    BY <2>2, InstancesRange
  <2> HIDE DEF insts, j
  <2> QED
    BY <2>3 DEF Range
<1>4. insts[l].kind = "clock" /\ insts[l].con = <<clock>> /\ output_ports(mods, insts[l]) = <<1>>
  <2>1. insts[l].kind = "clock" /\ insts[l].con = <<clock>>
    BY <1>3 DEF Instance
  <2> HIDE DEF insts
  <2> QED
    BY <2>1 DEF output_ports
<1>5. <<l, 1>> \in drivers(mods, insts, w)
  <2>1. 1 \in DOMAIN output_ports(mods, insts[l]) /\ insts[l].con[output_ports(mods, insts[l])[1]] = w
    BY <1>1, <1>4
  <2> HIDE DEF insts, w
  <2> QED
    BY <2>1, DriversAre
<1>6. <<k, o>> \in drivers(mods, insts, w)
  <2>1. w = insts[k].con[output_ports(mods, insts[k])[o]]
    OBVIOUS
  <2> HIDE DEF w, insts
  <2>2. k \in DOMAIN insts /\ o \in DOMAIN output_ports(mods, insts[k])
    BY DEF insts
  <2> QED
    BY <2>1, <2>2, DriversAre
<1>7. <<l, 1>> = <<k, o>>
  <2> HIDE DEF w
  <2> QED
    BY <1>2, <1>5, <1>6, OneDriver
<1>8. l = k
  BY <1>7
<1> QED
  BY <1>4, <1>8

-----------------------------------------------------------------------------
(* The graph of a module: the paths through its gates and its cells.       *)
CellInst(mods, cell) ==
    Instance("cell", cell.type, 0, cell_connection_wires(cell, Interface(mods, cell.type).ports))

(* The instance that a cell makes.                                         *)
LEMMA CellInstIs ==
    ASSUME NEW mods, NEW cell
    PROVE  /\ CellInst(mods, cell).kind = "cell" /\ CellInst(mods, cell).type = cell.type
           /\ CellInst(mods, cell).con = [k \in DOMAIN Interface(mods, cell.type).ports |->
                                             CellWire(cell, Interface(mods, cell.type).ports[k])]
           /\ output_ports(mods, CellInst(mods, cell)) = Interface(mods, cell.type).outputs
           /\ \A o : comb_deps(mods, CellInst(mods, cell), o) =
                 IF is_gate(cell.type) THEN GateOf(cell.type).deps
                 ELSE Pick(mods[cell.type].inputs,
                           mods[cell.type].comb_input_deps[mods[cell.type].connection_wires[o]])
<1> DEFINE i == CellInst(mods, cell)
<1>1. /\ i.kind = "cell" /\ i.type = cell.type
      /\ i.con = cell_connection_wires(cell, Interface(mods, cell.type).ports)
  BY DEF CellInst, Instance
<1> HIDE DEF i
<1>2. i.con = [k \in DOMAIN Interface(mods, cell.type).ports |->
                  CellWire(cell, Interface(mods, cell.type).ports[k])]
  BY <1>1 DEF cell_connection_wires
<1>3. output_ports(mods, i) = Interface(mods, cell.type).outputs
  BY <1>1 DEF output_ports
<1>4. \A o : comb_deps(mods, i, o) =
                 IF is_gate(cell.type) THEN GateOf(cell.type).deps
                 ELSE Pick(mods[cell.type].inputs,
                           mods[cell.type].comb_input_deps[mods[cell.type].connection_wires[o]])
  BY <1>1 DEF comb_deps
<1> QED
  BY <1>1, <1>2, <1>3, <1>4 DEF i

(* The edges of the module's graph are those of its cells.                 *)
LEMMA DagOfCells ==
    ASSUME NEW mods, NEW ym, Checked(mods, ym), NEW e
    PROVE  e \in Range(comb_wire_dag(mods, Instances(mods, ym))) <=>
              \E c \in DOMAIN ym.cells : IsEdge(mods, CellInst(mods, ym.cells[c]), e)
<1> DEFINE insts == Instances(mods, ym)
           clock == module_clock_wire(mods, ym)
<1>1. /\ insts \in Seq(FourKinds(mods, ym))
      /\ \A k \in DOMAIN insts : InstanceTyped(mods, ym, insts[k])
  BY InstancesTyped
<1>2. e \in Range(comb_wire_dag(mods, insts)) <=> \E k \in DOMAIN insts : IsEdge(mods, insts[k], e)
  <2> HIDE DEF insts
  <2> QED
    BY <1>1, DagIs
<1>3. Range(insts) = FourKinds(mods, ym)
  BY InstancesRange
<1>4. ASSUME NEW i, i.kind # "cell"
      PROVE  ~IsEdge(mods, i, e)
  <2>1. \A o : comb_deps(mods, i, o) = <<>>
    BY <1>4 DEF comb_deps
  <2> QED
    BY <2>1 DEF IsEdge
<1>5. \A i \in Range(tie_instances) : i.kind = "tie"
  BY DEF tie_instances, Range, Instance
<1>6. \A i \in Range(clock_instances(clock)) : i.kind = "clock"
  <2>1. CASE clock = Unsupported
    BY <2>1 DEF clock_instances, Range
  <2>2. CASE clock # Unsupported
    <3>1. clock_instances(clock) = <<Instance("clock", None, 0, <<clock>>)>>
      BY <2>2 DEF clock_instances
    <3> HIDE DEF clock
    <3> QED
      BY <3>1 DEF Range, Instance
  <2> QED
    BY <2>1, <2>2
<1>7. \A i \in Range(input_instances(ym, ports(ym, clock))) : i.kind = "input"
  <2> SUFFICES ASSUME NEW i \in Range(input_instances(ym, ports(ym, clock)))
               PROVE  i.kind = "input"
    OBVIOUS
  <2>1. PICK k, v : i = Instance("input", None, k, v)
    BY DEF input_instances, Range
  <2> QED
    BY <2>1 DEF Instance
<1>8. \A i : i \in Range(module_instances(mods, ym)) <=>
         \E c \in DOMAIN ym.cells : i = CellInst(mods, ym.cells[c])
  BY DEF module_instances, Range, CellInst
<1>9. \A i : i \in Range(insts) <=> \E k \in DOMAIN insts : i = insts[k]
  BY DEF Range
<1> HIDE DEF insts
<1>10. "tie" # "cell" /\ "clock" # "cell" /\ "input" # "cell"
  OBVIOUS
<1>11. ASSUME NEW k \in DOMAIN insts, IsEdge(mods, insts[k], e)
       PROVE  \E c \in DOMAIN ym.cells : IsEdge(mods, CellInst(mods, ym.cells[c]), e)
  <2>1. insts[k] \in FourKinds(mods, ym)
    BY <1>3, <1>9
  <2>2. insts[k].kind = "cell"
    BY <1>4, <1>11
  <2>3. insts[k] \in Range(module_instances(mods, ym))
    BY <1>5, <1>6, <1>7, <1>10, <2>1, <2>2 DEF FourKinds
  <2> QED
    BY <1>8, <1>11, <2>3
<1>12. ASSUME NEW c \in DOMAIN ym.cells, IsEdge(mods, CellInst(mods, ym.cells[c]), e)
       PROVE  \E k \in DOMAIN insts : IsEdge(mods, insts[k], e)
  <2>1. CellInst(mods, ym.cells[c]) \in FourKinds(mods, ym)
    BY <1>8 DEF FourKinds
  <2> QED
    BY <1>3, <1>9, <1>12, <2>1
<1> QED
  BY <1>2, <1>11, <1>12 DEF insts

(* Those of a gate go from the inputs it depends on to its output.         *)
LEMMA GateEdges ==
    ASSUME NEW mods, NEW cell, is_gate(cell.type), NEW e
    PROVE  IsEdge(mods, CellInst(mods, cell), e) <=>
              \E d \in Range(GateOf(cell.type).deps) :
                 e = <<cell.con[d][1], cell.con[GateOf(cell.type).outputs[1]][1]>>
<1> DEFINE g == GateOf(cell.type)
           i == CellInst(mods, cell)
<1>1. /\ i.con = [k \in DOMAIN g.ports |-> CellWire(cell, g.ports[k])]
      /\ output_ports(mods, i) = g.outputs /\ \A o : comb_deps(mods, i, o) = g.deps
  <2>1. Interface(mods, cell.type) = g
    BY DEF Interface
  <2> HIDE DEF g
  <2> QED
    BY <2>1, CellInstIs DEF g
<1>2. \/ \E n \in Nat : g = Comb(n)
      \/ g = Dff
  <2>1. 1 \in Nat /\ 2 \in Nat /\ 3 \in Nat
    OBVIOUS
  <2>2. g = Comb(1) \/ g = Comb(2) \/ g = Comb(3) \/ g = Dff
    BY DEF GateOf, is_gate, GateTypes
  <2> QED
    BY <2>1, <2>2
<1> HIDE DEF i, g
<1>3. ASSUME g.deps = <<>>
      PROVE  ~IsEdge(mods, i, e) /\ Range(g.deps) = {}
  BY <1>1, <1>3 DEF IsEdge, Range
<1>4. CASE g = Dff
  <2>1. g.deps = <<>>
    BY <1>4 DEF Dff
  <2> QED
    BY <1>3, <2>1 DEF i, g
<1>5. ASSUME NEW n \in Nat, g = Comb(n)
      PROVE  IsEdge(mods, i, e) <=>
                \E d \in Range(g.deps) : e = <<cell.con[d][1], cell.con[g.outputs[1]][1]>>
  <2>1. /\ g.ports = [k \in 1..(n + 1) |-> <<k, 0>>] /\ g.outputs = <<n + 1>>
        /\ g.deps = [k \in 1..n |-> k]
    BY <1>5 DEF Comb
  <2>2. ASSUME NEW k \in 1..(n + 1)
        PROVE  i.con[k] = cell.con[k][1]
    <3>1. i.con[k] = CellWire(cell, <<k, 0>>)
      BY <1>1, <2>1
    <3>2. 0 + 1 = 1
      OBVIOUS
    <3> QED
      BY <3>1, <3>2 DEF CellWire
  <2>3. DOMAIN g.outputs = {1} /\ g.outputs[1] = n + 1 /\ n + 1 \in 1..(n + 1)
    BY <2>1
  <2>4. Range(g.deps) = 1..n /\ DOMAIN g.deps = 1..n /\ \A d \in 1..n : g.deps[d] = d /\ d \in 1..(n + 1)
    BY <2>1 DEF Range
  <2>5. IsEdge(mods, i, e) <=> \E d \in DOMAIN g.deps : e = <<i.con[g.deps[d]], i.con[g.outputs[1]]>>
    BY <1>1, <2>3 DEF IsEdge
  <2>6. i.con[g.outputs[1]] = cell.con[g.outputs[1]][1]
    BY <2>2, <2>3
  <2>7. \A d \in 1..n : i.con[g.deps[d]] = cell.con[d][1]
    BY <2>2, <2>4
  <2> QED
    BY <2>4, <2>5, <2>6, <2>7
<1> QED
  BY <1>2, <1>4, <1>5 DEF i, g

(* Those of an instance of a module go by the summary of that module.      *)
LEMMA CellEdges ==
    ASSUME NEW mods, NEW cell, ~is_gate(cell.type),
           NEW sub, InterfaceTyped(mods[cell.type], sub), NEW e
    PROVE  IsEdge(mods, CellInst(mods, cell), e) <=>
              LET mod == mods[cell.type]
              IN  \E o \in Range(mod.outputs) :
                     \E i \in Range(mod.comb_input_deps[mod.connection_wires[o]]) :
                        e = <<CellWire(cell, mod.ports[mod.inputs[i]]), CellWire(cell, mod.ports[o])>>
<1> DEFINE mod == mods[cell.type]
           inst == CellInst(mods, cell)
           deps(o) == mod.comb_input_deps[mod.connection_wires[o]]
<1>1. /\ inst.con = [k \in DOMAIN mod.ports |-> CellWire(cell, mod.ports[k])]
      /\ output_ports(mods, inst) = mod.outputs
      /\ \A o : comb_deps(mods, inst, o) = Pick(mod.inputs, deps(o))
  <2>1. Interface(mods, cell.type) = mod
    BY DEF Interface
  <2> HIDE DEF mod
  <2> QED
    BY <2>1, CellInstIs DEF mod
<1>2. PICK n \in Nat : /\ mod.ports \in [1..n -> Range(AllBits(sub))]
                       /\ mod.inputs \in Seq(1..n) /\ mod.outputs \in Seq(1..n)
                       /\ mod.connection_wires \in [1..n -> WiresOf(sub)]
  BY DEF InterfaceTyped
<1>3. mod.comb_input_deps \in [WiresOf(sub) -> Seq(DOMAIN mod.inputs)]
  BY DEF InterfaceTyped
<1> HIDE DEF mod, inst
<1>4. ASSUME NEW o \in Range(mod.outputs)
      PROVE  o \in 1..n /\ deps(o) \in Seq(DOMAIN mod.inputs)
  <2>1. o \in 1..n
    BY <1>2 DEF Range
  <2>2. mod.connection_wires[o] \in WiresOf(sub)
    BY <1>2, <2>1
  <2> QED
    BY <1>3, <2>1, <2>2
<1>5. ASSUME NEW o \in Range(mod.outputs), NEW d \in DOMAIN deps(o)
      PROVE  /\ Pick(mod.inputs, deps(o))[d] = mod.inputs[deps(o)[d]]
             /\ inst.con[Pick(mod.inputs, deps(o))[d]] = CellWire(cell, mod.ports[mod.inputs[deps(o)[d]]])
             /\ inst.con[o] = CellWire(cell, mod.ports[o])
             /\ deps(o)[d] \in Range(deps(o))
  <2>1. Pick(mod.inputs, deps(o))[d] = mod.inputs[deps(o)[d]] /\ deps(o)[d] \in Range(deps(o))
    BY DEF Pick, Range
  <2>2. deps(o)[d] \in DOMAIN mod.inputs
    BY <1>4
  <2>3. mod.inputs[deps(o)[d]] \in 1..n /\ o \in 1..n /\ DOMAIN mod.ports = 1..n
    <3> DEFINE j == deps(o)[d]
    <3>1. j \in DOMAIN mod.inputs
      BY <2>2
    <3> HIDE DEF j
    <3>2. mod.inputs[j] \in 1..n
      BY <1>2, <3>1
    <3>3. o \in 1..n /\ DOMAIN mod.ports = 1..n
      BY <1>2, <1>4
    <3> QED
      BY <3>2, <3>3 DEF j
  <2> HIDE DEF deps
  <2> QED
    BY <1>1, <2>1, <2>3
<1>6. \A o : DOMAIN Pick(mod.inputs, deps(o)) = DOMAIN deps(o)
  BY DEF Pick
<1>7. ASSUME IsEdge(mods, inst, e)
      PROVE  \E o \in Range(mod.outputs) : \E i \in Range(deps(o)) :
                e = <<CellWire(cell, mod.ports[mod.inputs[i]]), CellWire(cell, mod.ports[o])>>
  <2>1. PICK k \in DOMAIN mod.outputs : \E d \in DOMAIN Pick(mod.inputs, deps(mod.outputs[k])) :
           e = <<inst.con[Pick(mod.inputs, deps(mod.outputs[k]))[d]], inst.con[mod.outputs[k]]>>
    BY <1>1, <1>7 DEF IsEdge
  <2>2. PICK d \in DOMAIN Pick(mod.inputs, deps(mod.outputs[k])) :
           e = <<inst.con[Pick(mod.inputs, deps(mod.outputs[k]))[d]], inst.con[mod.outputs[k]]>>
    BY <2>1
  <2> DEFINE o == mod.outputs[k]
  <2>3. o \in Range(mod.outputs) /\ d \in DOMAIN deps(o)
    BY <1>6, <2>2 DEF Range
  <2>4. e = <<inst.con[Pick(mod.inputs, deps(o))[d]], inst.con[o]>>
    BY <2>2
  <2> HIDE DEF o, deps
  <2> QED
    BY <1>5, <2>3, <2>4
<1>8. ASSUME NEW o \in Range(mod.outputs), NEW i \in Range(deps(o)),
             e = <<CellWire(cell, mod.ports[mod.inputs[i]]), CellWire(cell, mod.ports[o])>>
      PROVE  IsEdge(mods, inst, e)
  <2>1. PICK k \in DOMAIN mod.outputs : o = mod.outputs[k]
    BY DEF Range
  <2>2. PICK d \in DOMAIN deps(o) : i = deps(o)[d]
    BY DEF Range
  <2>3. e = <<inst.con[Pick(mod.inputs, deps(o))[d]], inst.con[o]>>
    BY <1>5, <1>8, <2>2
  <2>4. d \in DOMAIN Pick(mod.inputs, deps(o))
    BY <1>6
  <2> HIDE DEF deps
  <2> QED
    BY <1>1, <2>1, <2>3, <2>4 DEF IsEdge
<1> QED
  BY <1>7, <1>8 DEF mod, inst

Dag(m) == Range(comb_wire_dag(built, Instances(built, YM(m))))
GatePath(m, v, w) == \E k \in GateCells(Top(m)) : <<Top(v), Top(w)>> \in GateNets(m, Top(m), k)
CellPath(m, c, v, w) ==
    \E o \in Outs(TypeOf(m, c)) : \E i \in Ins(TypeOf(m, c)) :
        /\ i \in Range(built[TypeOf(m, c)].comb_input_deps[OutWire(TypeOf(m, c), o)])
        /\ v = CellWire(Cells(m)[c], InBit(TypeOf(m, c), i))
        /\ w = CellWire(Cells(m)[c], OutBit(TypeOf(m, c), o))

(* The module's graph is finite and is on its wires.                       *)
LEMMA DagTyped ==
    ASSUME NEW m, Checked(built, YM(m))
    PROVE  /\ IsFiniteSet(Dag(m))
           /\ \A e \in Dag(m) : /\ e[1] \in WiresOf(YM(m)) /\ e[2] \in WiresOf(YM(m))
                                /\ e = <<e[1], e[2]>>
<1> DEFINE insts == Instances(built, YM(m))
           dag == comb_wire_dag(built, insts)
           W == WiresOf(YM(m))
<1>1. /\ insts \in Seq(FourKinds(built, YM(m)))
      /\ \A k \in DOMAIN insts : InstanceTyped(built, YM(m), insts[k])
  BY InstancesTyped
<1>2. dag \in Seq(W \X W)
  <2> HIDE DEF insts
  <2> QED
    BY <1>1, DagIs
<1>3. Dag(m) = Range(dag)
  BY DEF Dag
<1> HIDE DEF dag
<1>4. PICK n \in Nat : DOMAIN dag = 1..n /\ \A k \in 1..n : dag[k] \in W \X W
  BY <1>2
<1>5. IsFiniteSet({dag[k] : k \in 1..n})
  <2>1. IsFiniteSet(1..n)
    BY FS_Interval
  <2> QED
    BY <2>1, FiniteImage
<1>6. Range(dag) = {dag[k] : k \in 1..n}
  BY <1>4 DEF Range
<1>7. \A e \in Range(dag) : e \in W \X W
  BY <1>4, <1>6
<1> HIDE DEF W
<1>8. \A e \in W \X W : e[1] \in W /\ e[2] \in W /\ e = <<e[1], e[2]>>
  OBVIOUS
<1> QED
  BY <1>3, <1>5, <1>6, <1>7, <1>8 DEF W

(* An edge of the module's graph is a path through a gate or through a     *)
(* cell.                                                                   *)
LEMMA DagAre ==
    ASSUME Exact, Typed, OneClockBit, NEW m \in Ready, Checked(built, YM(m)), NEW v, NEW w
    PROVE  <<v, w>> \in Dag(m) <=>
              GatePath(m, v, w) \/ \E c \in SubCells(m) : CellPath(m, c, v, w)
<1> DEFINE e == <<v, w>>
           edge(c) == IsEdge(built, CellInst(built, Cells(m)[c]), e)
<1>1. e \in Dag(m) <=> \E c \in DOMAIN Cells(m) : edge(c)
  BY DagOfCells DEF Dag, Cells
<1>2. ASSUME NEW c \in GateCells(Top(m))
      PROVE  edge(c) <=> <<Top(v), Top(w)>> \in GateNets(m, Top(m), c)
  <2> DEFINE cell == Cells(m)[c]
             g == GateOf(cell.type)
  <2>1. is_gate(cell.type)
    BY DEF GateCells, Top
  <2>2. edge(c) <=> \E d \in Range(g.deps) : e = <<cell.con[d][1], cell.con[g.outputs[1]][1]>>
    <3> HIDE DEF cell, g, e
    <3>1. IsEdge(built, CellInst(built, cell), e) <=>
             \E d \in Range(GateOf(cell.type).deps) :
                 e = <<cell.con[d][1], cell.con[GateOf(cell.type).outputs[1]][1]>>
      BY <2>1, GateEdges
    <3> QED
      BY <3>1 DEF cell, g
  <2>3. \A x : x \in GateNets(m, Top(m), c) <=> \E d \in Range(g.deps) :
           x = <<<<<<>>, cell.con[d][1]>>, <<<<>>, cell.con[g.outputs[1]][1]>>>>
    BY DEF GateNets, Top
  <2> HIDE DEF g, cell, edge
  <2>4. \A x, y : <<Top(v), Top(w)>> = <<<<<<>>, x>>, <<<<>>, y>>>> <=> e = <<x, y>>
    BY DEF Top
  <2> QED
    BY <2>2, <2>3, <2>4
<1>3. ASSUME NEW c \in SubCells(m)
      PROVE  edge(c) <=> CellPath(m, c, v, w)
  <2> DEFINE cell == Cells(m)[c]
             t == TypeOf(m, c)
             mod == built[cell.type]
  <2>1. ~is_gate(cell.type) /\ t = cell.type /\ t \in DOMAIN built
    BY SubCellsAre DEF SubCells, TypeOf
  <2>2. InterfaceTyped(built[cell.type], YM(t))
    BY <2>1 DEF Typed
  <2>3. edge(c) <=> \E o \in Range(mod.outputs) :
                       \E i \in Range(mod.comb_input_deps[mod.connection_wires[o]]) :
                          e = <<CellWire(cell, mod.ports[mod.inputs[i]]), CellWire(cell, mod.ports[o])>>
    <3> HIDE DEF cell, e
    <3>1. IsEdge(built, CellInst(built, cell), e) <=>
             LET sub == built[cell.type]
             IN  \E o \in Range(sub.outputs) :
                     \E i \in Range(sub.comb_input_deps[sub.connection_wires[o]]) :
                        e = <<CellWire(cell, sub.ports[sub.inputs[i]]), CellWire(cell, sub.ports[o])>>
      BY <2>1, <2>2, CellEdges
    <3> QED
      BY <3>1 DEF cell
  <2>4. PortsAre(t)
    BY <2>1, BuiltPorts
  <2>5. \A o \in Range(mod.outputs) : mod.connection_wires[o] = OutWire(t, o)
    BY <2>1, <2>4 DEF PortsAre, Outs
  <2>6. \A o \in Range(mod.outputs) :
           Range(mod.comb_input_deps[OutWire(t, o)]) \subseteq DOMAIN mod.inputs
    <3> SUFFICES ASSUME NEW o \in Range(mod.outputs)
                 PROVE  Range(mod.comb_input_deps[OutWire(t, o)]) \subseteq DOMAIN mod.inputs
      OBVIOUS
    <3>1. PICK n \in Nat : mod.outputs \in Seq(1..n) /\ mod.connection_wires \in [1..n -> WiresOf(YM(t))]
      BY <2>2 DEF InterfaceTyped
    <3>2. mod.comb_input_deps \in [WiresOf(YM(t)) -> Seq(DOMAIN mod.inputs)]
      BY <2>2 DEF InterfaceTyped
    <3> HIDE DEF mod
    <3>3. o \in 1..n
      BY <3>1 DEF Range
    <3>4. OutWire(t, o) \in WiresOf(YM(t))
      BY <2>5, <3>1, <3>3
    <3>5. mod.comb_input_deps[OutWire(t, o)] \in Seq(DOMAIN mod.inputs)
      BY <3>2, <3>4
    <3> QED
      BY <3>5 DEF Range
  <2>7. Outs(t) = Range(mod.outputs) /\ Ins(t) = DOMAIN mod.inputs
        /\ (\A i : InBit(t, i) = mod.ports[mod.inputs[i]]) /\ \A o : OutBit(t, o) = mod.ports[o]
    BY <2>1 DEF Outs, Ins, InBit, OutBit
  <2>8. built[t] = mod
    BY <2>1
  <2>9. CellPath(m, c, v, w) <=> \E o \in Outs(t) : \E i \in Ins(t) :
           /\ i \in Range(mod.comb_input_deps[OutWire(t, o)])
           /\ v = CellWire(cell, InBit(t, i)) /\ w = CellWire(cell, OutBit(t, o))
    <3> HIDE DEF mod, t, cell
    <3> QED
      BY <2>8 DEF CellPath, t, cell
  <2> HIDE DEF mod, t, cell, edge
  <2> QED
    BY <2>3, <2>5, <2>6, <2>7, <2>9
<1>4. \A c : c \in DOMAIN Cells(m) <=> c \in GateCells(Top(m)) \/ c \in SubCells(m)
  BY DEF GateCells, SubCells, Top
<1> HIDE DEF edge
<1> QED
  BY <1>1, <1>2, <1>3, <1>4 DEF GatePath

(* The gates and the cells drive none of the wires of the clock.           *)
LEMMA ClockUndriven ==
    ASSUME Exact, Typed, NEW m \in Ready, Checked(built, YM(m))
    PROVE  /\ \A k \in GateCells(Top(m)) : \A e \in GateNets(m, Top(m), k) :
                 \E v, w : e = <<Top(v), Top(w)>> /\ w \notin ClockWires(built, YM(m))
           /\ \A c \in SubCells(m) : \A o \in Outs(TypeOf(m, c)) :
                 CellWire(Cells(m)[c], OutBit(TypeOf(m, c), o)) \notin ClockWires(built, YM(m))
<1> DEFINE insts == Instances(built, YM(m))
<1>1. ASSUME NEW c \in DOMAIN Cells(m), NEW o \in DOMAIN Interface(built, Cells(m)[c].type).outputs
      PROVE  CellInst(built, Cells(m)[c]).con[Interface(built, Cells(m)[c].type).outputs[o]]
                \notin ClockWires(built, YM(m))
  <2> DEFINE i == CellInst(built, Cells(m)[c])
  <2>1. i \in Range(module_instances(built, YM(m)))
    BY DEF module_instances, Range, CellInst, Cells
  <2>2. i \in Range(insts)
    BY <2>1, InstancesRange DEF FourKinds
  <2>3. PICK k \in DOMAIN insts : insts[k] = i
    <3> HIDE DEF insts, i
    <3> QED
      BY <2>2 DEF Range
  <2>4. i.kind = "cell" /\ output_ports(built, i) = Interface(built, Cells(m)[c].type).outputs
    <3> DEFINE cell == Cells(m)[c]
    <3> HIDE DEF cell
    <3>1. /\ CellInst(built, cell).kind = "cell"
          /\ output_ports(built, CellInst(built, cell)) = Interface(built, cell.type).outputs
      BY CellInstIs
    <3> QED
      BY <3>1 DEF cell
  <2> HIDE DEF i
  <2>5. /\ k \in DOMAIN Instances(built, YM(m)) /\ Instances(built, YM(m))[k].kind = "cell"
        /\ o \in DOMAIN output_ports(built, Instances(built, YM(m))[k])
    BY <2>3, <2>4
  <2>6. Instances(built, YM(m))[k].con[output_ports(built, Instances(built, YM(m))[k])[o]]
           \notin ClockWires(built, YM(m))
    <3> HIDE DEF insts
    <3> QED
      BY <2>5, ClockNotDriven
  <2> QED
    BY <2>3, <2>4, <2>6 DEF i
<1>2. ASSUME NEW k \in GateCells(Top(m)), NEW e \in GateNets(m, Top(m), k)
      PROVE  \E v, w : e = <<Top(v), Top(w)>> /\ w \notin ClockWires(built, YM(m))
  <2> DEFINE cell == Cells(m)[k]
             g == GateOf(cell.type)
  <2>1. is_gate(cell.type) /\ k \in DOMAIN Cells(m) /\ Interface(built, cell.type) = g
    BY DEF GateCells, Top, Interface
  <2>2. PICK d \in Range(g.deps) :
           e = <<Top(cell.con[d][1]), Top(cell.con[g.outputs[1]][1])>>
    BY DEF GateNets, Top
  <2>3. 1 \in DOMAIN g.outputs /\ \E n \in Nat : g = Comb(n)
    <3>1. g.deps # <<>>
      BY <2>2 DEF Range
    <3>2. 1 \in Nat /\ 2 \in Nat /\ 3 \in Nat
      OBVIOUS
    <3>3. g = Comb(1) \/ g = Comb(2) \/ g = Comb(3) \/ g = Dff
      BY <2>1 DEF GateOf, is_gate, GateTypes
    <3>4. PICK n \in Nat : g = Comb(n)
      BY <3>1, <3>2, <3>3 DEF Dff
    <3> HIDE DEF g
    <3>5. g.outputs = <<n + 1>>
      BY <3>4 DEF Comb
    <3> QED
      BY <3>4, <3>5
  <2>4. CellInst(built, cell).con[g.outputs[1]] = cell.con[g.outputs[1]][1]
    <3>1. PICK n \in Nat : g = Comb(n)
      BY <2>3
    <3>2. CellInst(built, cell).con = [j \in DOMAIN g.ports |-> CellWire(cell, g.ports[j])]
      <4> HIDE DEF g, cell
      <4> QED
        BY <2>1, CellInstIs
    <3> HIDE DEF g, cell
    <3>3. /\ g.ports = [j \in 1..(n + 1) |-> <<j, 0>>] /\ g.outputs[1] = n + 1
          /\ n + 1 \in 1..(n + 1)
      BY <3>1 DEF Comb
    <3>4. CellInst(built, cell).con[n + 1] = CellWire(cell, <<n + 1, 0>>)
      BY <3>2, <3>3
    <3>5. 0 + 1 = 1
      OBVIOUS
    <3> QED
      BY <3>3, <3>4, <3>5 DEF CellWire
  <2>5. CellInst(built, cell).con[g.outputs[1]] \notin ClockWires(built, YM(m))
    <3>1. 1 \in DOMAIN Interface(built, Cells(m)[k].type).outputs
      BY <2>1, <2>3
    <3>2. CellInst(built, Cells(m)[k]).con[Interface(built, Cells(m)[k].type).outputs[1]]
                \notin ClockWires(built, YM(m))
      BY <1>1, <2>1, <3>1
    <3> QED
      BY <2>1, <3>2
  <2> QED
    BY <2>2, <2>4, <2>5
<1>3. ASSUME NEW c \in SubCells(m), NEW o \in Outs(TypeOf(m, c))
      PROVE  CellWire(Cells(m)[c], OutBit(TypeOf(m, c), o)) \notin ClockWires(built, YM(m))
  <2> DEFINE t == TypeOf(m, c)
             cell == Cells(m)[c]
  <2>1. c \in DOMAIN Cells(m) /\ Interface(built, cell.type) = built[t] /\ t \in DOMAIN built
    BY SubCellsAre DEF SubCells, TypeOf, Interface
  <2>2. PICK k \in DOMAIN built[t].outputs : o = built[t].outputs[k]
    BY DEF Outs, Range
  <2>3. CellInst(built, cell).con[o] \notin ClockWires(built, YM(m))
    BY <1>1, <2>1, <2>2
  <2>4. CellInst(built, cell).con = [j \in DOMAIN built[t].ports |-> CellWire(cell, built[t].ports[j])]
    <3> HIDE DEF t, cell
    <3> QED
      BY <2>1, CellInstIs
  <2>5. o \in DOMAIN built[t].ports
    <3>1. InterfaceTyped(built[t], YM(t))
      BY <2>1 DEF Typed
    <3>2. PICK n \in Nat : built[t].ports \in [1..n -> Range(AllBits(YM(t)))] /\ built[t].outputs \in Seq(1..n)
      BY <3>1 DEF InterfaceTyped
    <3> QED
      BY <2>2, <3>2
  <2> QED
    BY <2>3, <2>4, <2>5 DEF OutBit
<1> QED
  BY <1>2, <1>3

-----------------------------------------------------------------------------
(* What the stages of a gadget add.                                        *)
StageIn(t, w) ==
    {i \in Ins(t) : \E o \in Outs(t) :
        /\ OutWire(t, o) = w
        /\ PortOf(YM(t), OutBit(t, o)).latency = PortOf(YM(t), InBit(t, i)).latency}

StageJoinsTo(mod, gadget, w, i) ==
    \E o \in DOMAIN mod.outputs :
        /\ i \in DOMAIN mod.inputs /\ mod.connection_wires[mod.outputs[o]] = w
        /\ gadget.latency[mod.inputs[i]] = gadget.latency[mod.outputs[o]]

(* The inputs that the stages of a gadget add to a wire.                   *)
LEMMA StageInputsAre ==
    ASSUME NEW mod, NEW gadget, NEW W, NEW n \in Nat, mod.inputs \in Seq(1..n),
           mod.outputs \in Seq(1..n), mod.connection_wires \in [1..n -> W], NEW w
    PROVE  \A i : i \in Range(StageInputs(mod, gadget, w)) <=> StageJoinsTo(mod, gadget, w, i)
<1>0. /\ StageDeps(mod, gadget) \in Seq((DOMAIN mod.inputs) \X W)
      /\ \A x : x \in Range(StageDeps(mod, gadget)) <=> StageJoins(mod, gadget, x)
  BY StageDepsTyped
<1> DEFINE I == DOMAIN mod.inputs
           new == StageDeps(mod, gadget)
           S == {k \in DOMAIN new : new[k][2] = w}
           added == Pick(new, Increasing(S))
<1>1. new \in Seq(I \X W)
  BY <1>0
<1>2. \A x : x \in Range(new) <=>
                 \E o \in DOMAIN mod.outputs : \E i \in DOMAIN mod.inputs :
                    /\ gadget.latency[mod.inputs[i]] = gadget.latency[mod.outputs[o]]
                    /\ x = <<i, mod.connection_wires[mod.outputs[o]]>>
  BY <1>0 DEF StageJoins
<1>3. StageInputs(mod, gadget, w) = [k \in DOMAIN added |-> added[k][1]]
  BY DEF StageInputs, Positions
<1> HIDE DEF new, I
<1>4. PICK q \in Nat : DOMAIN new = 1..q /\ \A k \in 1..q : new[k] = <<new[k][1], new[k][2]>>
  <2>1. PICK q \in Nat : DOMAIN new = 1..q /\ \A k \in 1..q : new[k] \in I \X W
    BY <1>1
  <2> HIDE DEF S, added
  <2>2. ASSUME NEW k \in 1..q
        PROVE  new[k] = <<new[k][1], new[k][2]>>
    <3>1. new[k] \in I \X W
      BY <2>1
    <3>2. PICK y : y = new[k]
      OBVIOUS
    <3>3. y = <<y[1], y[2]>>
      BY <3>1, <3>2
    <3> QED
      BY <3>2, <3>3
  <2> QED
    BY <2>1, <2>2
<1>5. S \in SUBSET Int /\ S \subseteq DOMAIN new /\ IsFiniteSet(S)
  <2>1. IsFiniteSet(1..q)
    <3>1. 1 \in Int /\ q \in Int
      OBVIOUS
    <3> HIDE DEF S, added
    <3> QED
      BY <3>1, FS_Interval
  <2>2. S \subseteq 1..q /\ S \in SUBSET Int /\ S \subseteq DOMAIN new
    BY <1>4
  <2> HIDE DEF S
  <2> QED
    BY <2>1, <2>2, FS_Subset
<1>6. \A x : x \in Range(added) <=> \E k \in S : x = new[k]
  <2> HIDE DEF S
  <2> QED
    BY <1>5, PickRange
<1> HIDE DEF added
<1>7. \A i : i \in Range(StageInputs(mod, gadget, w)) <=> \E x \in Range(added) : i = x[1]
  BY <1>3 DEF Range
<1>8. \A i : i \in Range(StageInputs(mod, gadget, w)) <=> <<i, w>> \in Range(new)
  <2> SUFFICES ASSUME NEW i
               PROVE  i \in Range(StageInputs(mod, gadget, w)) <=> <<i, w>> \in Range(new)
    OBVIOUS
  <2>1. i \in Range(StageInputs(mod, gadget, w)) <=> \E k \in S : i = new[k][1]
    BY <1>6, <1>7
  <2>2. <<i, w>> \in Range(new) <=> \E k \in DOMAIN new : <<i, w>> = new[k]
    BY DEF Range
  <2>3. \A k \in DOMAIN new : <<i, w>> = new[k] <=> i = new[k][1] /\ new[k][2] = w
    BY <1>4
  <2> QED
    BY <2>1, <2>2, <2>3
<1>9. ASSUME NEW i
      PROVE  <<i, w>> \in Range(new) <=> StageJoinsTo(mod, gadget, w, i)
  <2>1. \A j : \A v : <<i, w>> = <<j, v>> <=> i = j /\ w = v
    OBVIOUS
  <2> QED
    BY <1>2, <2>1 DEF StageJoinsTo
<1> QED
  BY <1>8, <1>9

(* The summary of a built module: what its wires depend on, and for the    *)
(* outputs of a gadget the inputs of the same stage.                       *)
LEMMA SummaryIs ==
    ASSUME Exact, Typed, OneClockBit, NEW t \in DOMAIN built, NEW w \in WiresOf(YM(t))
    PROVE  \A i : i \in Range(built[t].comb_input_deps[w]) <=>
              \/ i \in DepsetsOf(built, YM(t))[w]
              \/ IsPipeline(YM(t)) /\ i \in StageIn(t, w)
<1> DEFINE ym == YM(t)
           mod == built[t]
           raw == RawModule(built, ym)
           g == PipelineGadget(ym, ShapeOf(built, ym))
           D == DepsetsOf(built, ym)[w]
<1>1. Buildable(built, ym)
  BY BuiltAreTyped
<1>2. mod = IF ~IsPipeline(ym) THEN raw ELSE GadgetModule(built, ym)
  <2>1. BuildModule(built, ym).error = None /\ mod = BuildModule(built, ym).value
    BY DEF Exact
  <2> HIDE DEF mod, raw, ym
  <2> QED
    BY <2>1, ValueIs DEF raw
<1>3. ModuleTyped(built, raw, ym)
  BY <1>1, RawTyped
<1>4. raw.comb_input_deps[w] = Increasing(D)
  BY DEF RawModule
<1>5. PICK n \in Nat : /\ raw.ports \in [1..n -> Range(AllBits(ym))]
                       /\ raw.inputs \in Seq(1..n) /\ raw.outputs \in Seq(1..n)
                       /\ raw.connection_wires \in [1..n -> WiresOf(ym)]
  <2> HIDE DEF raw, ym
  <2> QED
    BY <1>3 DEF ModuleTyped, InterfaceTyped
<1>6. D \subseteq DOMAIN raw.inputs
  <2>1. D \subseteq DOMAIN filter_ports(ym, BitsOf(built, ym), "input")
    BY <1>1, DepsetsTyped
  <2>2. raw.inputs = filter_ports(ym, BitsOf(built, ym), "input")
    BY DEF RawModule
  <2> HIDE DEF D, raw
  <2> QED
    BY <2>1, <2>2
<1>7. Range(Increasing(D)) = D
  <2> HIDE DEF D, raw
  <2>1. PICK k \in Nat : DOMAIN raw.inputs = 1..k
    BY <1>5
  <2>2. IsFiniteSet(1..k) /\ 1..k \subseteq Int
    BY FS_Interval
  <2>3. IsFiniteSet(D) /\ D \in SUBSET Int
    BY <1>6, <2>1, <2>2, FS_Subset
  <2> QED
    BY <2>3, IncreasingRange
<1>8. CASE ~IsPipeline(ym)
  <2>1. mod.comb_input_deps[w] = Increasing(D)
    BY <1>2, <1>4, <1>8
  <2> HIDE DEF D, mod, raw
  <2> QED
    BY <1>7, <1>8, <2>1 DEF D, mod
<1>9. CASE IsPipeline(ym)
  <2> DEFINE new == GadgetModule(built, ym)
  <2>1. /\ new.ports = raw.ports /\ new.clock = raw.clock /\ new.inputs = raw.inputs
        /\ new.outputs = raw.outputs /\ new.instances = raw.instances
        /\ new.connection_wires = raw.connection_wires
        /\ new.source = raw.source /\ new.sinks = raw.sinks
        /\ new.dag = raw.dag \o StageEdges(raw, g)
        /\ new.comb_input_deps = [v \in DOMAIN raw.comb_input_deps |->
                                      raw.comb_input_deps[v] \o StageInputs(raw, g, v)]
        /\ new.gadget = <<g>>
    BY UpdateIs
  <2>2. mod = new
    BY <1>2, <1>9
  <2> HIDE DEF new, raw, mod
  <2>3. DOMAIN raw.comb_input_deps = WiresOf(ym)
    BY <1>3 DEF ModuleTyped, InterfaceTyped
  <2>4. mod.comb_input_deps[w] = Increasing(D) \o StageInputs(raw, g, w)
    BY <1>4, <2>1, <2>2, <2>3
  <2> DEFINE I == DOMAIN raw.inputs
  <2>5. Increasing(D) \in Seq(I) /\ StageInputs(raw, g, w) \in Seq(I)
    <3>1. StageInputs(raw, g, w) \in Seq(I)
      BY <1>5, StagesTyped
    <3>2. raw.comb_input_deps \in [WiresOf(ym) -> Seq(I)]
      BY <1>3 DEF ModuleTyped, InterfaceTyped
    <3>3. raw.comb_input_deps[w] \in Seq(I)
      <4> HIDE DEF I
      <4> QED
        BY <3>2
    <3> HIDE DEF D
    <3> QED
      BY <1>4, <3>1, <3>3
  <2>6. Range(mod.comb_input_deps[w]) = D \cup Range(StageInputs(raw, g, w))
    <3> HIDE DEF I, D, g
    <3> QED
      BY <1>7, <2>4, <2>5, RangeConcat
  <2>7. \A i : i \in Range(StageInputs(raw, g, w)) <=> StageJoinsTo(raw, g, w, i)
    <3> DEFINE W == WiresOf(ym)
    <3>1. raw.inputs \in Seq(1..n) /\ raw.outputs \in Seq(1..n)
          /\ raw.connection_wires \in [1..n -> W]
      BY <1>5
    <3> HIDE DEF g, W, ym, I, D
    <3> QED
      BY <3>1, StageInputsAre
  <2>8. \A c \in 1..n : g.latency[c] = PortOf(ym, raw.ports[c]).latency
    <3>1. raw.ports = BitsOf(built, ym)
      BY DEF RawModule, raw
    <3>2. g.latency = [c \in DOMAIN raw.ports |-> PortOf(ym, raw.ports[c]).latency]
      BY <3>1 DEF PipelineGadget, ShapeOf
    <3> HIDE DEF g
    <3> QED
      BY <1>5, <3>2
  <2>9. PortsAre(t)
    BY BuiltPorts
  <2>10. \A i : StageJoinsTo(raw, g, w, i) <=> i \in StageIn(t, w)
    <3> SUFFICES ASSUME NEW i
                 PROVE  StageJoinsTo(raw, g, w, i) <=> i \in StageIn(t, w)
      OBVIOUS
    <3>1. /\ Ins(t) = DOMAIN raw.inputs /\ \A k : InBit(t, k) = raw.ports[raw.inputs[k]]
          /\ \A c : OutBit(t, c) = raw.ports[c]
          /\ \A c \in Outs(t) : OutWire(t, c) = raw.connection_wires[c]
      BY <2>1, <2>2, <2>9 DEF Ins, InBit, OutBit, Outs, PortsAre, mod
    <3>2. \A c : c \in Outs(t) <=> \E o \in DOMAIN raw.outputs : c = raw.outputs[o]
      BY <2>1, <2>2 DEF Outs, Range, mod
    <3>3. \A o \in DOMAIN raw.outputs : raw.outputs[o] \in 1..n
      BY <1>5
    <3>4. \A k \in DOMAIN raw.inputs : raw.inputs[k] \in 1..n
      BY <1>5
    <3>5. i \in StageIn(t, w) <=> i \in Ins(t) /\ \E c \in Outs(t) :
             OutWire(t, c) = w
             /\ PortOf(ym, OutBit(t, c)).latency = PortOf(ym, InBit(t, i)).latency
      BY DEF StageIn
    <3>6. ASSUME NEW o \in DOMAIN raw.outputs, i \in DOMAIN raw.inputs
          PROVE  /\ raw.outputs[o] \in Outs(t)
                 /\ g.latency[raw.inputs[i]] = PortOf(ym, InBit(t, i)).latency
                 /\ g.latency[raw.outputs[o]] = PortOf(ym, OutBit(t, raw.outputs[o])).latency
      BY <2>8, <3>1, <3>2, <3>3, <3>4, <3>6
    <3> HIDE DEF g, ym
    <3> QED
      BY <3>1, <3>2, <3>5, <3>6 DEF StageJoinsTo
  <2> HIDE DEF D
  <2> QED
    BY <1>9, <2>6, <2>7, <2>10 DEF D, mod
<1> QED
  BY <1>8, <1>9

(* The bits that a stage joins.                                            *)
LEMMA GadgetChecked ==
    ASSUME Exact, NEW t \in DOMAIN built, IsPipeline(YM(t))
    PROVE  /\ check_clock(YM(t), ShapeOf(built, YM(t)))
           /\ \A i \in Ins(t) : PortOf(YM(t), InBit(t, i)).type # "clock"
<1> DEFINE ym == YM(t)
           module == ShapeOf(built, ym)
           ins == BitsAt(module, module.inputs)
           outs == BitsAt(module, module.outputs)
           checks == <<
            Check(RolesError(ym, ins) # None, RolesError(ym, ins)),
            Check(RolesError(ym, outs) # None, RolesError(ym, outs)),
            Check(\E i \in DOMAIN outs : PortOf(ym, outs[i]).type = "control", "control_output"),
            Check(~check_clock(ym, module), "clock_not_annotated"),
            Check(\E b \in Range(module.ports) : PortOf(ym, b).latency = Missing, "no_latency")>>
<1>1. /\ BuildModule(built, ym).error = None /\ built[t] = BuildModule(built, ym).value
      /\ t \in Names /\ design \in Designs
  BY DEF Exact
<1>2. /\ PipelineError(ym, module) = None /\ built[t].ports = module.ports
      /\ built[t].inputs = module.inputs
  BY <1>1, BuiltShape
<1>3. FirstError(checks) = None
  <2> HIDE DEF module
  <2> QED
    BY <1>2 DEF PipelineError, IsPipeline
<1>4. /\ DOMAIN checks = 1..5 /\ checks[1].bad = (RolesError(ym, ins) # None)
      /\ checks[4].bad = ~check_clock(ym, module)
      /\ \A k \in 1..5 : checks[k].bad => checks[k].error # None
  <2> HIDE DEF module, ins, outs
  <2>1. DOMAIN checks = 1..5
    OBVIOUS
  <2>2. checks[1].bad = (RolesError(ym, ins) # None)
    BY DEF Check
  <2>3. checks[4].bad = ~check_clock(ym, module)
    BY DEF Check
  <2>4. \A k \in 1..5 : checks[k].bad => checks[k].error # None
    <3>1. checks[1].bad => checks[1].error # None
      BY DEF Check
    <3>2. checks[2].bad => checks[2].error # None
      BY DEF Check
    <3>3. checks[3].error # None /\ checks[4].error # None /\ checks[5].error # None
      BY DEF Check, None
    <3>4. \A k \in 1..5 : k = 1 \/ k = 2 \/ k = 3 \/ k = 4 \/ k = 5
      OBVIOUS
    <3> HIDE DEF checks
    <3> QED
      BY <3>1, <3>2, <3>3, <3>4
  <2> QED
    BY <2>1, <2>2, <2>3, <2>4
<1>5. 5 \in Nat /\ 1 \in 1..5 /\ 4 \in 1..5
  OBVIOUS
<1> HIDE DEF checks
<1>6. ~checks[1].bad /\ ~checks[4].bad
  <2>1. \A k \in 1..5 : ~checks[k].bad
    BY <1>3, <1>4, <1>5, NoFirstError
  <2> QED
    BY <1>5, <2>1
<1>7. RolesError(ym, ins) = None /\ check_clock(ym, module)
  BY <1>4, <1>6
<1>8. PICK n \in Nat : DOMAIN ins = 1..n
  <2>1. WellFormed(ym)
    BY <1>1, ModulesAreWellFormed
  <2>2. PICK k \in Nat : DOMAIN BitsOf(built, ym) = 1..k
    BY <2>1, ShapeIs
  <2>3. module.inputs = Increasing(InputBits(ym, BitsOf(built, ym)))
    BY DEF ShapeOf, filter_ports, Positions, InputBits
  <2>4. IsFiniteSet(InputBits(ym, BitsOf(built, ym)))
    <3>1. IsFiniteSet(1..k) /\ InputBits(ym, BitsOf(built, ym)) \subseteq 1..k
      BY <2>2, FS_Interval DEF InputBits
    <3> QED
      BY <3>1, FS_Subset
  <2>5. Cardinality(InputBits(ym, BitsOf(built, ym))) \in Nat
    BY <2>4, FS_CardinalityType
  <2>6. DOMAIN module.inputs = 1..Cardinality(InputBits(ym, BitsOf(built, ym)))
    BY <2>3 DEF Increasing
  <2>7. DOMAIN ins = DOMAIN module.inputs
    BY DEF BitsAt, Pick
  <2> QED
    BY <2>5, <2>6, <2>7
<1>9. ASSUME NEW i \in Ins(t)
      PROVE  PortOf(ym, InBit(t, i)).type # "clock"
  <2>1. i \in DOMAIN ins /\ ins[i] = InBit(t, i)
    <3> HIDE DEF module
    <3> QED
      BY <1>2 DEF BitsAt, Pick, Ins, InBit
  <2> DEFINE errors == [k \in DOMAIN ins |-> RoleError(PortOf(ym, ins[k]))]
             all == [k \in DOMAIN ins |-> Check(errors[k] # None, errors[k])]
  <2>2. RolesError(ym, ins) = FirstError(all)
    BY DEF RolesError
  <2>3. DOMAIN all = 1..n /\ \A k \in 1..n : all[k].bad = (errors[k] # None) /\ all[k].error = errors[k]
    <3> HIDE DEF errors, ins
    <3> QED
      BY <1>8 DEF Check
  <2>4. \A k \in 1..n : ~all[k].bad
    <3> HIDE DEF all, errors
    <3> QED
      BY <1>7, <2>2, <2>3, NoFirstError
  <2>5. RoleError(PortOf(ym, InBit(t, i))) = None
    <3>1. errors[i] = None
      <4> HIDE DEF all, errors, ins
      <4> QED
        BY <1>8, <2>1, <2>3, <2>4
    <3> HIDE DEF ins
    <3> QED
      BY <2>1, <3>1
  <2> DEFINE p == PortOf(ym, InBit(t, i))
             two == <<Check(p.type = "clock", "undetected_clock"),
                      Check(p.type = "random" /\ p.dir # "input", "random_output")>>
  <2>6. FirstError(two) = None
    BY <2>5 DEF RoleError
  <2>7. /\ DOMAIN two = 1..2 /\ two[1].bad = (p.type = "clock")
        /\ \A k \in 1..2 : two[k].bad => two[k].error # None
    BY DEF Check, None
  <2>8. 2 \in Nat /\ 1 \in 1..2
    OBVIOUS
  <2>9. ~two[1].bad
    <3> HIDE DEF two
    <3>1. \A k \in 1..2 : ~two[k].bad
      BY <2>6, <2>7, <2>8, NoFirstError
    <3> QED
      BY <2>8, <3>1
  <2> QED
    BY <2>7, <2>9
<1> QED
  BY <1>7, <1>9

(* The stages of the flat circuit are those of the summary.                *)
LEMMA StagePairsAre ==
    ASSUME Exact, OneClockBit, NEW t \in DOMAIN built, IsPipeline(YM(t))
    PROVE  /\ \A d \in StagePairs(YM(t)) : \E i \in Ins(t), o \in Outs(t) :
                 /\ d = <<InBit(t, i), OutBit(t, o)>> /\ i \in StageIn(t, OutWire(t, o))
           /\ \A i \in Ins(t), o \in Outs(t) : i \in StageIn(t, OutWire(t, o)) =>
                 <<InBit(t, i), OutBit(t, o)>> \in StagePairs(YM(t))
<1> DEFINE ym == YM(t)
<1>1. PortsAre(t)
  BY BuiltPorts
<1>2. /\ check_clock(ym, ShapeOf(built, ym))
      /\ \A i \in Ins(t) : PortOf(ym, InBit(t, i)).type # "clock"
  BY GadgetChecked
<1>3. \A dir : \A b : b \in DirBits(t, dir) <=> b \in Range(AllBits(ym)) /\ PortOf(ym, b).dir = dir
  BY DEF DirBits, PortOf
<1>4. ASSUME NEW b \in ClockBits(t)
      PROVE  PortOf(ym, b).type = "clock"
  <2>1. ClockBits(t) = {b} /\ b \in Range(AllBits(ym))
    BY DEF OneClockBit, ClockBits
  <2>2. built[t].clock = b /\ b # NoBit
    BY <2>1, ClockNamed
  <2>3. built[t].clock = ShapeOf(built, ym).clock
    <3>1. BuildModule(built, ym).error = None /\ built[t] = BuildModule(built, ym).value
      BY DEF Exact
    <3> QED
      BY <3>1, BuiltShape
  <2> QED
    BY <1>2, <2>2, <2>3 DEF check_clock
<1>5. \A a, b : <<a, b>> \in StagePairs(ym) <=>
         /\ a \in Range(AllBits(ym)) /\ b \in Range(AllBits(ym)) /\ StageDep(ym, a, b)
  BY DEF StagePairs
<1>6. \A d \in StagePairs(ym) : d = <<d[1], d[2]>>
  BY DEF StagePairs
<1>7. ASSUME NEW d \in StagePairs(ym)
      PROVE  \E i \in Ins(t), o \in Outs(t) :
                 /\ d = <<InBit(t, i), OutBit(t, o)>> /\ i \in StageIn(t, OutWire(t, o))
  <2>1. /\ d[1] \in Range(AllBits(ym)) /\ d[2] \in Range(AllBits(ym))
        /\ StageDep(ym, d[1], d[2]) /\ d = <<d[1], d[2]>>
    BY <1>5, <1>6
  <2>2. /\ d[1] \in DirBits(t, "input") /\ PortOf(ym, d[1]).type # "clock"
        /\ d[2] \in DirBits(t, "output")
    BY <1>3, <2>1 DEF StageDep
  <2>3. PICK q \in DirBits(t, "output") :
           BitWire(ym, q) = BitWire(ym, d[2]) /\ PortOf(ym, q).latency = PortOf(ym, d[1]).latency
    BY <1>3, <2>1 DEF StageDep
  <2>4. d[1] \notin ClockBits(t)
    BY <1>4, <2>2
  <2>5. PICK i \in Ins(t) : d[1] = InBit(t, i)
    BY <1>1, <2>2, <2>4 DEF PortsAre
  <2>6. PICK o \in Outs(t) : d[2] = OutBit(t, o)
    BY <1>1, <2>2 DEF PortsAre
  <2>7. PICK p \in Outs(t) : q = OutBit(t, p)
    BY <1>1 DEF PortsAre
  <2>8. i \in StageIn(t, OutWire(t, o))
    BY <2>3, <2>5, <2>6, <2>7 DEF StageIn, OutWire
  <2> QED
    BY <2>1, <2>5, <2>6, <2>8
<1>8. ASSUME NEW i \in Ins(t), NEW o \in Outs(t), i \in StageIn(t, OutWire(t, o))
      PROVE  <<InBit(t, i), OutBit(t, o)>> \in StagePairs(ym)
  <2>1. PICK p \in Outs(t) : /\ OutWire(t, p) = OutWire(t, o)
                             /\ PortOf(ym, OutBit(t, p)).latency = PortOf(ym, InBit(t, i)).latency
    BY <1>8 DEF StageIn
  <2>2. InBit(t, i) \in DirBits(t, "input") /\ OutBit(t, o) \in DirBits(t, "output")
        /\ OutBit(t, p) \in DirBits(t, "output")
    BY <1>1 DEF PortsAre
  <2>3. StageDep(ym, InBit(t, i), OutBit(t, o))
    BY <1>2, <1>3, <2>1, <2>2 DEF StageDep, OutWire
  <2> QED
    BY <1>3, <1>5, <2>2, <2>3
<1> QED
  BY <1>7, <1>8

-----------------------------------------------------------------------------
(* The inputs that reach a wire in the flat circuit of a module.           *)
FlatIn(t, w) == {i \in Ins(t) : Top(InWire(t, i)) \in Cone(FlatEdges(t), Top(w))}

(* What a wire should depend on: the inputs that reach it, and those of    *)
(* its stage.                                                              *)
LEMMA FlatDepsAre ==
    ASSUME Exact, OneClockBit, NEW t \in DOMAIN built, NEW w
    PROVE  \A i : i \in FlatDeps(t, w) <=>
              \/ i \in FlatIn(t, w)
              \/ IsPipeline(YM(t)) /\ i \in StageIn(t, w)
<1> DEFINE mod == built[t]
           near == {i \in DOMAIN mod.inputs :
                       <<<<>>, mod.connection_wires[mod.inputs[i]]>> \in Upstream(FlatEdges(t), {<<<<>>, w>>})}
           stage == {i \in DOMAIN mod.inputs : \E o \in Range(mod.outputs) :
                        /\ mod.connection_wires[o] = w
                        /\ PortOf(YM(t), mod.ports[o]).latency
                              = PortOf(YM(t), mod.ports[mod.inputs[i]]).latency}
<1>1. FlatDeps(t, w) = near \cup IF ~IsPipeline(YM(t)) THEN {} ELSE stage
  BY DEF FlatDeps
<1>2. PortsAre(t)
  BY BuiltPorts
<1>3. near = FlatIn(t, w)
  BY <1>2 DEF PortsAre, FlatIn, Ins, Cone, Top
<1>4. stage = StageIn(t, w)
  BY <1>2 DEF PortsAre, StageIn, Ins, Outs, OutBit, InBit
<1> HIDE DEF near, stage
<1> QED
  BY <1>1, <1>3, <1>4

(* What is to be shown of a module, once shown of those it instantiates.   *)
Summarised(t) ==
    \A w \in WiresOf(YM(t)) : Range(built[t].comb_input_deps[w]) = FlatDeps(t, w)

(* Modules whose cells are all built and summarised.                       *)
Composable(m) ==
    /\ Exact /\ Typed /\ OneClockBit /\ ~HasLoop(Instantiates)
    /\ m \in Ready /\ Checked(built, YM(m))
    /\ \A s \in Submodules(m) : Summarised(s)

(* A path through a cell, in terms of the flat circuit of its module.      *)
LEMMA CellPathIs ==
    ASSUME NEW m, Composable(m), NEW c \in SubCells(m), NEW v, NEW w
    PROVE  CellPath(m, c, v, w) <=>
              \E o \in Outs(TypeOf(m, c)) : \E i \in Ins(TypeOf(m, c)) :
                 /\ \/ i \in FlatIn(TypeOf(m, c), OutWire(TypeOf(m, c), o))
                    \/ IsPipeline(YM(TypeOf(m, c))) /\ i \in StageIn(TypeOf(m, c), OutWire(TypeOf(m, c), o))
                 /\ v = CellWire(Cells(m)[c], InBit(TypeOf(m, c), i))
                 /\ w = CellWire(Cells(m)[c], OutBit(TypeOf(m, c), o))
<1> DEFINE t == TypeOf(m, c)
<1>1. t \in DOMAIN built /\ t \in Submodules(m)
  BY SubCellsAre DEF Composable
<1>2. PortsAre(t)
  BY <1>1, BuiltPorts DEF Composable
<1>3. ASSUME NEW o \in Outs(t)
      PROVE  OutWire(t, o) \in WiresOf(YM(t))
  <2>1. InterfaceTyped(built[t], YM(t))
    BY <1>1 DEF Composable, Typed
  <2>2. PICK n \in Nat : /\ built[t].ports \in [1..n -> Range(AllBits(YM(t)))]
                         /\ built[t].connection_wires \in [1..n -> WiresOf(YM(t))]
    BY <2>1 DEF InterfaceTyped
  <2>3. o \in DOMAIN built[t].ports /\ built[t].connection_wires[o] = OutWire(t, o)
    BY <1>2 DEF PortsAre
  <2> QED
    BY <2>2, <2>3
<1>4. ASSUME NEW o \in Outs(t), NEW i
      PROVE  i \in Range(built[t].comb_input_deps[OutWire(t, o)]) <=>
                \/ i \in FlatIn(t, OutWire(t, o))
                \/ IsPipeline(YM(t)) /\ i \in StageIn(t, OutWire(t, o))
  <2>1. Range(built[t].comb_input_deps[OutWire(t, o)]) = FlatDeps(t, OutWire(t, o))
    BY <1>1, <1>3 DEF Composable, Summarised
  <2>2. i \in FlatDeps(t, OutWire(t, o)) <=>
                \/ i \in FlatIn(t, OutWire(t, o))
                \/ IsPipeline(YM(t)) /\ i \in StageIn(t, OutWire(t, o))
    BY <1>1, FlatDepsAre DEF Composable
  <2> QED
    BY <2>1, <2>2
<1> QED
  BY <1>4 DEF CellPath

-----------------------------------------------------------------------------
(* The edges of the flat circuit of a module, from those of its cells.     *)
InEdge(m, c, i) ==
    <<Outer(m, c, InBit(TypeOf(m, c), i)), InnerNet(m, c, InBit(TypeOf(m, c), i))>>
OutEdge(m, c, o) ==
    <<InnerNet(m, c, OutBit(TypeOf(m, c), o)), Outer(m, c, OutBit(TypeOf(m, c), o))>>
StageEdge(m, c, i, o) ==
    <<Outer(m, c, InBit(TypeOf(m, c), i)), Outer(m, c, OutBit(TypeOf(m, c), o))>>
IsStage(m, c, i, o) ==
    /\ i \in Ins(TypeOf(m, c)) /\ o \in Outs(TypeOf(m, c))
    /\ IsPipeline(YM(TypeOf(m, c))) /\ i \in StageIn(TypeOf(m, c), OutWire(TypeOf(m, c), o))

(* The outputs of a cell are not on the clock.                             *)
LEMMA OuterUnclocked ==
    ASSUME NEW m, Composable(m), NEW c \in SubCells(m), NEW o \in Outs(TypeOf(m, c))
    PROVE  Outer(m, c, OutBit(TypeOf(m, c), o)) \notin ClockNets(m)
<1>1. CellWire(Cells(m)[c], OutBit(TypeOf(m, c), o)) \notin ClockWires(built, YM(m))
  BY ClockUndriven DEF Composable
<1> QED
  BY <1>1, ClockAtTop DEF Composable, Outer

(* A port of a cell's module is on the clock when its bit is a clock bit.  *)
LEMMA InnerClocked ==
    ASSUME NEW m, Composable(m), NEW c \in SubCells(m), NEW b \in Range(AllBits(YM(TypeOf(m, c))))
    PROVE  InnerNet(m, c, b) \in ClockNets(m) <=> b \in ClockBits(TypeOf(m, c))
<1> DEFINE t == TypeOf(m, c)
           w == BitWire(YM(t), b)
<1>1. t \in Ready
  BY SubCellsAre DEF Composable
<1>2. IsNet(Top(w))
  BY TopIs
<1>3. Under(c, Top(w)) \in ClockNets(m) <=> Top(w) \in ClockNets(t)
  <2> HIDE DEF w
  <2> QED
    BY <1>2, ClockBelow DEF Composable
<1>4. Top(w) \in ClockNets(t) <=> w \in ClockWires(built, YM(t))
  BY <1>1, ClockAtTop DEF Composable
<1> QED
  BY <1>3, <1>4 DEF ClockBits, InnerNet

(* The inputs and outputs of a cell, and its stages, are edges of the flat *)
(* circuit.                                                                *)
LEMMA CellWays ==
    ASSUME NEW m, Composable(m), NEW c \in SubCells(m)
    PROVE  /\ \A i \in Ins(TypeOf(m, c)) : InEdge(m, c, i) \in FlatEdges(m)
           /\ \A o \in Outs(TypeOf(m, c)) : OutEdge(m, c, o) \in FlatEdges(m)
           /\ \A i, o : IsStage(m, c, i, o) => StageEdge(m, c, i, o) \in FlatEdges(m)
<1> DEFINE t == TypeOf(m, c)
<1>1. t \in DOMAIN built
  BY SubCellsAre DEF Composable
<1>2. PortsAre(t)
  BY <1>1, BuiltPorts DEF Composable
<1>3. ASSUME NEW e, CellEdge(m, c, e), e[2] \notin ClockNets(m)
      PROVE  e \in FlatEdges(m)
  BY <1>3, FlatEdgesBelow DEF Composable, LocalEdge
<1>4. ASSUME NEW i \in Ins(t)
      PROVE  InEdge(m, c, i) \in FlatEdges(m)
  <2>1. InBit(t, i) \in DirBits(t, "input") /\ InBit(t, i) \notin ClockBits(t)
    BY <1>2 DEF PortsAre
  <2>2. InnerNet(m, c, InBit(t, i)) \notin ClockNets(m)
    BY <2>1, InnerClocked DEF DirBits
  <2> QED
    BY <1>3, <2>1, <2>2 DEF CellEdge, InEdge
<1>5. ASSUME NEW o \in Outs(t)
      PROVE  OutEdge(m, c, o) \in FlatEdges(m)
  <2>1. OutBit(t, o) \in DirBits(t, "output")
    BY <1>2 DEF PortsAre
  <2> QED
    BY <1>3, <2>1, OuterUnclocked DEF CellEdge, OutEdge
<1>6. ASSUME NEW i, NEW o, IsStage(m, c, i, o)
      PROVE  StageEdge(m, c, i, o) \in FlatEdges(m)
  <2>1. i \in Ins(t) /\ o \in Outs(t) /\ IsPipeline(YM(t)) /\ i \in StageIn(t, OutWire(t, o))
    BY <1>6 DEF IsStage
  <2>2. <<InBit(t, i), OutBit(t, o)>> \in StagePairs(YM(t))
    BY <1>1, <2>1, StagePairsAre DEF Composable
  <2>3. CellEdge(m, c, StageEdge(m, c, i, o))
    <3> DEFINE d == <<InBit(t, i), OutBit(t, o)>>
    <3>1. StageEdge(m, c, i, o) = <<Outer(m, c, d[1]), Outer(m, c, d[2])>>
      BY DEF StageEdge
    <3> QED
      BY <2>2, <3>1 DEF CellEdge
  <2>4. Outer(m, c, OutBit(t, o)) \notin ClockNets(m)
    BY <2>1, OuterUnclocked
  <2> QED
    BY <1>3, <2>3, <2>4 DEF StageEdge
<1> QED
  BY <1>4, <1>5, <1>6

(* Paths through gates are edges of the flat circuit.                      *)
LEMMA GateWays ==
    ASSUME NEW m, Composable(m), NEW v, NEW w, GatePath(m, v, w)
    PROVE  <<Top(v), Top(w)>> \in FlatEdges(m)
<1>1. PICK k \in GateCells(Top(m)) : <<Top(v), Top(w)>> \in GateNets(m, Top(m), k)
  BY DEF GatePath
<1>2. PICK v1, w1 : <<Top(v), Top(w)>> = <<Top(v1), Top(w1)>> /\ w1 \notin ClockWires(built, YM(m))
  BY <1>1, ClockUndriven DEF Composable
<1>3. w = w1
  BY <1>2, TopIs
<1>4. Top(w) \notin ClockNets(m)
  BY <1>2, <1>3, ClockAtTop DEF Composable
<1>5. LocalEdge(m, <<Top(v), Top(w)>>)
  BY <1>1 DEF LocalEdge
<1> QED
  BY <1>4, <1>5, FlatEdgesBelow DEF Composable

(* The five kinds of edges of a flat circuit.                              *)
LEMMA FlatEdgesAre ==
    ASSUME NEW m, Composable(m), NEW e \in FlatEdges(m)
    PROVE  \/ \E v, w : e = <<Top(v), Top(w)>> /\ GatePath(m, v, w)
           \/ \E c \in SubCells(m) :
                 \/ \E i \in Ins(TypeOf(m, c)) : e = InEdge(m, c, i)
                 \/ \E o \in Outs(TypeOf(m, c)) : e = OutEdge(m, c, o)
                 \/ \E i, o : IsStage(m, c, i, o) /\ e = StageEdge(m, c, i, o)
                 \/ \E f \in FlatEdges(TypeOf(m, c)) : e = PairUnder(c, f)
<1>1. \/ LocalEdge(m, e) /\ e[2] \notin ClockNets(m)
      \/ \E c \in SubCells(m) : \E f \in FlatEdges(TypeOf(m, c)) : e = PairUnder(c, f)
  BY FlatEdgesBelow DEF Composable
<1>2. CASE \E c \in SubCells(m) : \E f \in FlatEdges(TypeOf(m, c)) : e = PairUnder(c, f)
  BY <1>2
<1>3. ASSUME NEW k \in GateCells(Top(m)), e \in GateNets(m, Top(m), k)
      PROVE  \E v, w : e = <<Top(v), Top(w)>> /\ GatePath(m, v, w)
  <2>1. PICK v, w : e = <<Top(v), Top(w)>>
    BY <1>3, ClockUndriven DEF Composable
  <2> QED
    BY <1>3, <2>1 DEF GatePath
<1>4. ASSUME NEW c \in SubCells(m), CellEdge(m, c, e), e[2] \notin ClockNets(m)
      PROVE  \/ \E i \in Ins(TypeOf(m, c)) : e = InEdge(m, c, i)
             \/ \E o \in Outs(TypeOf(m, c)) : e = OutEdge(m, c, o)
             \/ \E i, o : IsStage(m, c, i, o) /\ e = StageEdge(m, c, i, o)
  <2> DEFINE t == TypeOf(m, c)
  <2>1. t \in DOMAIN built
    BY SubCellsAre DEF Composable
  <2>2. PortsAre(t)
    BY <2>1, BuiltPorts DEF Composable
  <2>3. ASSUME NEW b \in DirBits(t, "input"), e = <<Outer(m, c, b), InnerNet(m, c, b)>>
        PROVE  \E i \in Ins(t) : e = InEdge(m, c, i)
    <3>1. InnerNet(m, c, b) \notin ClockNets(m)
      BY <1>4, <2>3
    <3>2. b \notin ClockBits(t)
      BY <3>1, InnerClocked DEF DirBits
    <3>3. PICK i \in Ins(t) : b = InBit(t, i)
      BY <2>2, <3>2 DEF PortsAre
    <3> QED
      BY <2>3, <3>3 DEF InEdge
  <2>4. ASSUME NEW b \in DirBits(t, "output"), e = <<InnerNet(m, c, b), Outer(m, c, b)>>
        PROVE  \E o \in Outs(t) : e = OutEdge(m, c, o)
    <3>1. PICK o \in Outs(t) : b = OutBit(t, o)
      BY <2>2 DEF PortsAre
    <3> QED
      BY <2>4, <3>1 DEF OutEdge
  <2>5. ASSUME NEW d \in StagePairs(YM(t)), e = <<Outer(m, c, d[1]), Outer(m, c, d[2])>>
        PROVE  \E i, o : IsStage(m, c, i, o) /\ e = StageEdge(m, c, i, o)
    <3>1. IsPipeline(YM(t))
      BY DEF StagePairs
    <3>2. PICK i \in Ins(t), o \in Outs(t) :
             d = <<InBit(t, i), OutBit(t, o)>> /\ i \in StageIn(t, OutWire(t, o))
      BY <2>1, <3>1, StagePairsAre DEF Composable
    <3>3. d[1] = InBit(t, i) /\ d[2] = OutBit(t, o)
      BY <3>2
    <3>4. e = StageEdge(m, c, i, o)
      BY <2>5, <3>3 DEF StageEdge
    <3> QED
      BY <3>1, <3>2, <3>4 DEF IsStage
  <2> QED
    BY <1>4, <2>3, <2>4, <2>5 DEF CellEdge
<1> QED
  BY <1>1, <1>2, <1>3, <1>4 DEF LocalEdge

-----------------------------------------------------------------------------
(* A dependency of the order of evaluation is a path of the flat circuit.  *)
LEMMA PathIsFlat ==
    ASSUME NEW m, Composable(m), NEW v, NEW u, <<v, u>> \in Dag(m)
    PROVE  \E e \in FlatEdges(m) : e[2] = Top(u) /\ Top(v) \in Cone(FlatEdges(m), e[1])
<1>1. m \in Ready /\ IsFiniteSet(FlatEdges(m))
  BY FlatEdgesFinite DEF Composable
<1>2. \/ GatePath(m, v, u)
      \/ \E c \in SubCells(m) : CellPath(m, c, v, u)
  BY DagAre DEF Composable
<1>3. ASSUME NEW e \in FlatEdges(m), e = <<Top(v), Top(u)>>
      PROVE  e[2] = Top(u) /\ Top(v) \in Cone(FlatEdges(m), e[1])
  BY <1>1, <1>3, ConeIs
<1>4. CASE GatePath(m, v, u)
  BY <1>3, <1>4, GateWays
<1>5. ASSUME NEW c \in SubCells(m), CellPath(m, c, v, u)
      PROVE  \E e \in FlatEdges(m) : e[2] = Top(u) /\ Top(v) \in Cone(FlatEdges(m), e[1])
  <2> DEFINE t == TypeOf(m, c)
             F == FlatEdges(m)
  <2>1. PICK o \in Outs(t) : \E i \in Ins(t) :
           /\ \/ i \in FlatIn(t, OutWire(t, o))
              \/ IsPipeline(YM(t)) /\ i \in StageIn(t, OutWire(t, o))
           /\ v = CellWire(Cells(m)[c], InBit(t, i))
           /\ u = CellWire(Cells(m)[c], OutBit(t, o))
    BY <1>5, CellPathIs
  <2>2. PICK i \in Ins(t) :
           /\ \/ i \in FlatIn(t, OutWire(t, o))
              \/ IsPipeline(YM(t)) /\ i \in StageIn(t, OutWire(t, o))
           /\ v = CellWire(Cells(m)[c], InBit(t, i))
           /\ u = CellWire(Cells(m)[c], OutBit(t, o))
    BY <2>1
  <2>3. CASE IsPipeline(YM(t)) /\ i \in StageIn(t, OutWire(t, o))
    <3>1. StageEdge(m, c, i, o) \in F
      BY <2>3, CellWays DEF IsStage
    <3>2. StageEdge(m, c, i, o) = <<Top(v), Top(u)>>
      BY <2>2 DEF StageEdge, Outer
    <3> QED
      BY <1>3, <3>1, <3>2
  <2>4. CASE i \in FlatIn(t, OutWire(t, o))
    <3>1. InEdge(m, c, i) \in F /\ OutEdge(m, c, o) \in F
      BY CellWays
    <3> DEFINE a == Top(InWire(t, i))
               b == Top(OutWire(t, o))
    <3>2. InEdge(m, c, i) = <<Top(v), Under(c, a)>>
      BY <2>2 DEF InEdge, Outer, InnerNet, InWire
    <3>3. OutEdge(m, c, o) = <<Under(c, b), Top(u)>>
      BY <2>2 DEF OutEdge, Outer, InnerNet, OutWire
    <3>4. a \in Cone(FlatEdges(t), b)
      BY <2>4 DEF FlatIn
    <3>5. Under(c, a) \in Cone(F, Under(c, b))
      <4> HIDE DEF a, b
      <4> QED
        BY <3>4, ConeUnder DEF Composable
    <3> HIDE DEF a, b, F
    <3>6. Top(v) \in Cone(F, Under(c, b))
      <4> DEFINE e == InEdge(m, c, i)
      <4>1. e \in F /\ e[1] = Top(v) /\ e[2] \in Cone(F, Under(c, b))
        BY <3>1, <3>2, <3>5
      <4> HIDE DEF e
      <4> QED
        BY <1>1, <4>1, ConeIs DEF F
    <3>7. OutEdge(m, c, o)[2] = Top(u) /\ OutEdge(m, c, o)[1] = Under(c, b)
      BY <3>3
    <3> QED
      BY <3>1, <3>6, <3>7 DEF F
  <2> QED
    BY <2>2, <2>3, <2>4
<1> QED
  BY <1>2, <1>4, <1>5

(* A path of the module's graph is one of the flat circuit.                *)
LEMMA DagConeIsFlat ==
    ASSUME NEW m, Composable(m), NEW w, NEW u \in Cone(Dag(m), w)
    PROVE  Top(u) \in Cone(FlatEdges(m), Top(w))
<1> DEFINE F == FlatEdges(m)
           D == Dag(m)
           C == Cone(F, Top(w))
           T == {v \in {w} \cup {e[1] : e \in D} : Top(v) \in C}
<1>1. IsFiniteSet(F)
  BY FlatEdgesFinite DEF Composable
<1>2. IsFiniteSet(D) /\ \A e \in D : e = <<e[1], e[2]>>
  BY DagTyped DEF Composable
<1>3. w \in T
  BY <1>1, ConeIs
<1>4. ASSUME NEW e \in D, e[2] \in T
      PROVE  e[1] \in T
  <2>1. <<e[1], e[2]>> \in D
    BY <1>2
  <2>2. PICK g \in F : g[2] = Top(e[2]) /\ Top(e[1]) \in Cone(F, g[1])
    BY <2>1, PathIsFlat
  <2>3. Top(e[2]) \in C
    BY <1>4
  <2> HIDE DEF C, F
  <2>4. g[1] \in C
    BY <1>1, <2>2, <2>3, ConeIs DEF C
  <2>5. Top(e[1]) \in C
    BY <1>1, <2>2, <2>4, ConeTransitive DEF C
  <2> QED
    BY <2>5
<1> HIDE DEF T, D
<1>5. Cone(D, w) \subseteq T
  BY <1>2, <1>3, <1>4, ConeLeast
<1> QED
  BY <1>5 DEF T, D

(* A net of the flat circuit, from which only wires of U are reached: the  *)
(* wire of the module that it is, or the wires on the inputs that the net  *)
(* of the cell depends on.                                                 *)
Leads(m, U, n) ==
    /\ \A v : n = Top(v) => v \in U
    /\ \A c \in SubCells(m) : \A k : IsNet(k) /\ n = Under(c, k) =>
          \A i \in Ins(TypeOf(m, c)) :
              Top(InWire(TypeOf(m, c), i)) \in Cone(FlatEdges(TypeOf(m, c)), k)
                  => CellWire(Cells(m)[c], InBit(TypeOf(m, c), i)) \in U

(* A wire of the module leads when it is in U.                             *)
LEMMA TopLeads ==
    ASSUME NEW m, NEW U, NEW v, Exact, m \in Ready
    PROVE  Leads(m, U, Top(v)) <=> v \in U
<1>1. \A c \in SubCells(m) : \A k : IsNet(k) => Under(c, k) # Top(v)
  <2>1. \A c \in SubCells(m) : c \in Nat
    BY SubCellsAre
  <2> QED
    BY <2>1, UnderIs
<1> QED
  BY <1>1, TopIs DEF Leads

(* A net inside of a cell leads when the wires on its inputs are in U.     *)
LEMMA UnderLeads ==
    ASSUME NEW m, NEW U, Exact, m \in Ready, NEW c \in SubCells(m), NEW k, IsNet(k)
    PROVE  Leads(m, U, Under(c, k)) <=>
              \A i \in Ins(TypeOf(m, c)) :
                  Top(InWire(TypeOf(m, c), i)) \in Cone(FlatEdges(TypeOf(m, c)), k)
                      => CellWire(Cells(m)[c], InBit(TypeOf(m, c), i)) \in U
<1>1. \A d \in SubCells(m) : d \in Nat
  BY SubCellsAre
<1>2. \A v : Under(c, k) # Top(v)
  BY <1>1, UnderIs
<1>3. \A d \in SubCells(m) : \A j : IsNet(j) /\ Under(c, k) = Under(d, j) => d = c /\ j = k
  BY <1>1, UnderSame
<1> QED
  BY <1>2, <1>3 DEF Leads

(* The wires of a module that an edge from one to another joins are joined *)
(* in the order of evaluation.                                             *)
LEMMA TopEdges ==
    ASSUME NEW m, Composable(m)
    PROVE  /\ \A v, w : GatePath(m, v, w) => <<v, w>> \in Dag(m)
           /\ \A c \in SubCells(m) : \A i, o : IsStage(m, c, i, o) =>
                 <<CellWire(Cells(m)[c], InBit(TypeOf(m, c), i)),
                   CellWire(Cells(m)[c], OutBit(TypeOf(m, c), o))>> \in Dag(m)
           /\ \A c \in SubCells(m) : \A o \in Outs(TypeOf(m, c)) :
                 \A i \in FlatIn(TypeOf(m, c), OutWire(TypeOf(m, c), o)) :
                     <<CellWire(Cells(m)[c], InBit(TypeOf(m, c), i)),
                       CellWire(Cells(m)[c], OutBit(TypeOf(m, c), o))>> \in Dag(m)
<1>1. \A v, w : GatePath(m, v, w) => <<v, w>> \in Dag(m)
  BY DagAre DEF Composable
<1>2. ASSUME NEW c \in SubCells(m), NEW v, NEW w, CellPath(m, c, v, w)
      PROVE  <<v, w>> \in Dag(m)
  BY <1>2, DagAre DEF Composable
<1>3. ASSUME NEW c \in SubCells(m), NEW o \in Outs(TypeOf(m, c)), NEW i \in Ins(TypeOf(m, c)),
             \/ i \in FlatIn(TypeOf(m, c), OutWire(TypeOf(m, c), o))
             \/ IsPipeline(YM(TypeOf(m, c))) /\ i \in StageIn(TypeOf(m, c), OutWire(TypeOf(m, c), o))
      PROVE  <<CellWire(Cells(m)[c], InBit(TypeOf(m, c), i)),
               CellWire(Cells(m)[c], OutBit(TypeOf(m, c), o))>> \in Dag(m)
  <2> DEFINE v == CellWire(Cells(m)[c], InBit(TypeOf(m, c), i))
             w == CellWire(Cells(m)[c], OutBit(TypeOf(m, c), o))
  <2>1. v = CellWire(Cells(m)[c], InBit(TypeOf(m, c), i))
        /\ w = CellWire(Cells(m)[c], OutBit(TypeOf(m, c), o))
    OBVIOUS
  <2> HIDE DEF v, w
  <2>2. CellPath(m, c, v, w)
    BY <1>3, <2>1, CellPathIs
  <2> QED
    BY <1>2, <2>1, <2>2
<1>4. \A t, w : FlatIn(t, w) \subseteq Ins(t)
  BY DEF FlatIn
<1> QED
  BY <1>1, <1>3, <1>4 DEF IsStage

(* What comes before a net that leads does so too.                         *)
LEMMA LeadsBack ==
    ASSUME NEW m, Composable(m), NEW U, \A v, w : <<v, w>> \in Dag(m) /\ w \in U => v \in U,
           NEW e \in FlatEdges(m), Leads(m, U, e[2])
    PROVE  Leads(m, U, e[1])
<1>1. ASSUME NEW v, NEW w, e = <<Top(v), Top(w)>>, <<v, w>> \in Dag(m)
      PROVE  Leads(m, U, e[1])
  <2>1. w \in U
    BY <1>1, TopLeads DEF Composable
  <2>2. v \in U
    BY <1>1, <2>1
  <2> QED
    BY <1>1, <2>2, TopLeads DEF Composable
<1>2. ASSUME NEW v, NEW w, e = <<Top(v), Top(w)>>, GatePath(m, v, w)
      PROVE  Leads(m, U, e[1])
  BY <1>1, <1>2, TopEdges
<1>3. ASSUME NEW c \in SubCells(m)
      PROVE  TypeOf(m, c) \in Ready /\ IsFiniteSet(FlatEdges(TypeOf(m, c)))
  BY <1>3, SubCellsAre, FlatEdgesFinite DEF Composable
<1>4. ASSUME NEW c \in SubCells(m), NEW i \in Ins(TypeOf(m, c)), e = InEdge(m, c, i)
      PROVE  Leads(m, U, e[1])
  <2> DEFINE k == Top(InWire(TypeOf(m, c), i))
             v == CellWire(Cells(m)[c], InBit(TypeOf(m, c), i))
  <2>1. e[1] = Top(v) /\ e[2] = Under(c, k)
    BY <1>4 DEF InEdge, Outer, InnerNet, InWire
  <2>2. IsNet(k)
    BY TopIs
  <2>3. k \in Cone(FlatEdges(TypeOf(m, c)), k)
    BY <1>3, ConeIs
  <2>4. \A j \in Ins(TypeOf(m, c)) :
           Top(InWire(TypeOf(m, c), j)) \in Cone(FlatEdges(TypeOf(m, c)), k)
               => CellWire(Cells(m)[c], InBit(TypeOf(m, c), j)) \in U
    <3> HIDE DEF k
    <3> QED
      BY <2>1, <2>2, UnderLeads DEF Composable
  <2>5. v \in U
    BY <2>3, <2>4
  <2> HIDE DEF v, k
  <2> QED
    BY <2>1, <2>5, TopLeads DEF Composable
<1>5. ASSUME NEW c \in SubCells(m), NEW o \in Outs(TypeOf(m, c)), e = OutEdge(m, c, o)
      PROVE  Leads(m, U, e[1])
  <2> DEFINE k == Top(OutWire(TypeOf(m, c), o))
             w == CellWire(Cells(m)[c], OutBit(TypeOf(m, c), o))
  <2>1. e[2] = Top(w) /\ e[1] = Under(c, k)
    BY <1>5 DEF OutEdge, Outer, InnerNet, OutWire
  <2>2. IsNet(k)
    BY TopIs
  <2>3. w \in U
    <3> HIDE DEF w
    <3> QED
      BY <2>1, TopLeads DEF Composable
  <2>4. ASSUME NEW i \in Ins(TypeOf(m, c)),
               Top(InWire(TypeOf(m, c), i)) \in Cone(FlatEdges(TypeOf(m, c)), k)
        PROVE  CellWire(Cells(m)[c], InBit(TypeOf(m, c), i)) \in U
    <3>1. i \in FlatIn(TypeOf(m, c), OutWire(TypeOf(m, c), o))
      BY <2>4 DEF FlatIn
    <3>2. <<CellWire(Cells(m)[c], InBit(TypeOf(m, c), i)), w>> \in Dag(m)
      BY <3>1, TopEdges
    <3> HIDE DEF w
    <3> QED
      BY <2>3, <3>2
  <2> HIDE DEF w, k
  <2> QED
    BY <2>1, <2>2, <2>4, UnderLeads DEF Composable
<1>6. ASSUME NEW c \in SubCells(m), NEW i, NEW o, IsStage(m, c, i, o), e = StageEdge(m, c, i, o)
      PROVE  Leads(m, U, e[1])
  <2> DEFINE v == CellWire(Cells(m)[c], InBit(TypeOf(m, c), i))
             w == CellWire(Cells(m)[c], OutBit(TypeOf(m, c), o))
  <2>1. e = <<Top(v), Top(w)>>
    BY <1>6 DEF StageEdge, Outer
  <2>2. <<v, w>> \in Dag(m)
    BY <1>6, TopEdges
  <2> HIDE DEF v, w
  <2> QED
    BY <1>1, <2>1, <2>2
<1>7. ASSUME NEW c \in SubCells(m), NEW f \in FlatEdges(TypeOf(m, c)), e = PairUnder(c, f)
      PROVE  Leads(m, U, e[1])
  <2> DEFINE G == FlatEdges(TypeOf(m, c))
  <2>1. IsNet(f[1]) /\ IsNet(f[2])
    <3>1. f \in AllEdges(TypeOf(m, c))
      BY <1>3, FlatEdgesFinite DEF Composable
    <3> QED
      BY <1>3, <3>1, EdgesAreNets DEF Composable, IsNetPair
  <2>2. e[1] = Under(c, f[1]) /\ e[2] = Under(c, f[2])
    BY <1>7 DEF PairUnder
  <2>3. f[1] \in Cone(G, f[2])
    BY <1>3, ConeIs
  <2>4. Cone(G, f[1]) \subseteq Cone(G, f[2])
    <3> HIDE DEF G
    <3> QED
      BY <1>3, <2>3, ConeTransitive DEF G
  <2>5. \A i \in Ins(TypeOf(m, c)) : Top(InWire(TypeOf(m, c), i)) \in Cone(G, f[2])
               => CellWire(Cells(m)[c], InBit(TypeOf(m, c), i)) \in U
    BY <2>1, <2>2, UnderLeads DEF Composable
  <2>6. \A i \in Ins(TypeOf(m, c)) : Top(InWire(TypeOf(m, c), i)) \in Cone(G, f[1])
               => CellWire(Cells(m)[c], InBit(TypeOf(m, c), i)) \in U
    BY <2>4, <2>5
  <2> QED
    BY <2>1, <2>2, <2>6, UnderLeads DEF Composable
<1> QED
  BY <1>2, <1>4, <1>5, <1>6, <1>7, FlatEdgesAre

(* A path of the flat circuit between wires of a module is one of its      *)
(* graph.                                                                  *)
LEMMA FlatConeIsDag ==
    ASSUME NEW m, Composable(m), NEW w, NEW u, Top(u) \in Cone(FlatEdges(m), Top(w))
    PROVE  u \in Cone(Dag(m), w)
<1> DEFINE F == FlatEdges(m)
           U == Cone(Dag(m), w)
           T == {n \in {Top(w)} \cup {e[1] : e \in F} : Leads(m, U, n)}
<1>1. IsFiniteSet(F)
  BY FlatEdgesFinite DEF Composable
<1>2. IsFiniteSet(Dag(m))
  BY DagTyped DEF Composable
<1>3. w \in U /\ \A v, x : <<v, x>> \in Dag(m) /\ x \in U => v \in U
  <2>1. w \in U /\ \A e \in Dag(m) : e[2] \in U => e[1] \in U
    BY <1>2, ConeIs
  <2> QED
    BY <2>1
<1> HIDE DEF U
<1>4. Top(w) \in T
  BY <1>3, TopLeads DEF Composable
<1>5. ASSUME NEW e \in F, e[2] \in T
      PROVE  e[1] \in T
  BY <1>3, <1>5, LeadsBack
<1> HIDE DEF T, F
<1>6. Cone(F, Top(w)) \subseteq T
  BY <1>1, <1>4, <1>5, ConeLeast
<1>7. Leads(m, U, Top(u))
  BY <1>6 DEF T, F
<1> QED
  BY <1>7, TopLeads DEF Composable, U

-----------------------------------------------------------------------------
(* The inputs that a wire is computed to depend on are those of its cone.  *)
RawIn(mods, ym) == filter_ports(ym, BitsOf(mods, ym), "input")
RawWire(mods, ym, i) == BitWire(ym, BitsOf(mods, ym)[RawIn(mods, ym)[i]])
InputInst(mods, ym, i) == Instance("input", None, i, <<RawWire(mods, ym, i)>>)

(* The instance that an input port makes.                                  *)
LEMMA InputInstIs ==
    ASSUME NEW mods, NEW ym, NEW i
    PROVE  /\ InputInst(mods, ym, i).kind = "input" /\ InputInst(mods, ym, i).input = i
           /\ InputInst(mods, ym, i).con = <<RawWire(mods, ym, i)>>
           /\ output_ports(mods, InputInst(mods, ym, i)) = <<1>>
           /\ \A o : comb_deps(mods, InputInst(mods, ym, i), o) = <<>>
<1> DEFINE a == InputInst(mods, ym, i)
<1>1. a.kind = "input" /\ a.input = i /\ a.con = <<RawWire(mods, ym, i)>>
  BY DEF InputInst, Instance
<1>2. a.kind # "cell"
  BY <1>1
<1> HIDE DEF a
<1>3. output_ports(mods, a) = <<1>> /\ \A o : comb_deps(mods, a, o) = <<>>
  BY <1>2 DEF output_ports, comb_deps
<1> QED
  BY <1>1, <1>3 DEF a

(* There is one such instance for each input that is not the clock.        *)
LEMMA InputInstances ==
    ASSUME NEW mods, NEW ym, Checked(mods, ym)
    PROVE  /\ \A i \in DOMAIN RawIn(mods, ym) : \E k \in DOMAIN Instances(mods, ym) :
                 Instances(mods, ym)[k] = InputInst(mods, ym, i)
           /\ \A k \in DOMAIN Instances(mods, ym) : Instances(mods, ym)[k].kind = "input" =>
                 \E i \in DOMAIN RawIn(mods, ym) : Instances(mods, ym)[k] = InputInst(mods, ym, i)
<1> DEFINE insts == Instances(mods, ym)
           clock == module_clock_wire(mods, ym)
           I == input_instances(ym, ports(ym, clock))
<1>1. I = [i \in DOMAIN RawIn(mods, ym) |-> InputInst(mods, ym, i)]
  BY DEF input_instances, RawIn, BitsOf, InputInst, RawWire
<1>2. \A j : j \in Range(I) <=> \E i \in DOMAIN RawIn(mods, ym) : j = InputInst(mods, ym, i)
  BY <1>1 DEF Range
<1>3. \A j \in Range(tie_instances) : j.kind # "input"
  <2>1. tie_instances[1].kind = "tie" /\ tie_instances[2].kind = "tie" /\ DOMAIN tie_instances = 1..2
    BY DEF tie_instances, Instance
  <2> QED
    BY <2>1 DEF Range
<1>4. \A j \in Range(clock_instances(clock)) : j.kind # "input"
  <2>1. CASE clock = Unsupported
    BY <2>1 DEF clock_instances, Range
  <2>2. CASE clock # Unsupported
    <3> DEFINE j == Instance("clock", None, 0, <<clock>>)
    <3>1. clock_instances(clock) = <<j>> /\ j.kind = "clock"
      BY <2>2 DEF clock_instances, Instance
    <3> HIDE DEF j
    <3> QED
      BY <3>1 DEF Range
  <2> QED
    BY <2>1, <2>2
<1>5. \A j \in Range(module_instances(mods, ym)) : j.kind # "input"
  <2>1. module_instances(mods, ym) = [c \in DOMAIN ym.cells |-> CellInst(mods, ym.cells[c])]
    BY DEF module_instances, CellInst
  <2>2. \A c \in DOMAIN ym.cells : CellInst(mods, ym.cells[c]).kind = "cell"
    BY DEF CellInst, Instance
  <2> QED
    BY <2>1, <2>2 DEF Range
<1>6. Range(insts) = Range(tie_instances) \cup Range(clock_instances(clock))
                        \cup Range(I) \cup Range(module_instances(mods, ym))
  BY InstancesRange DEF FourKinds
<1> HIDE DEF I, insts, clock
<1>7. ASSUME NEW i \in DOMAIN RawIn(mods, ym)
      PROVE  \E k \in DOMAIN insts : insts[k] = InputInst(mods, ym, i)
  <2>1. InputInst(mods, ym, i) \in Range(insts)
    BY <1>2, <1>6
  <2> QED
    BY <2>1 DEF Range
<1>8. ASSUME NEW k \in DOMAIN insts, insts[k].kind = "input"
      PROVE  \E i \in DOMAIN RawIn(mods, ym) : insts[k] = InputInst(mods, ym, i)
  <2>1. insts[k] \in Range(insts)
    BY DEF Range
  <2>2. insts[k] \in Range(I)
    BY <1>3, <1>4, <1>5, <1>6, <1>8, <2>1
  <2> QED
    BY <1>2, <2>2
<1> QED
  BY <1>7, <1>8 DEF insts

(* A wire on an input is driven by the input, and by nothing else.         *)
LEMMA InputSource ==
    ASSUME NEW mods, NEW ym, Checked(mods, ym), NEW w \in WiresOf(ym)
    PROVE  LET insts == Instances(mods, ym)
               j == insts[SourceOf(mods, insts, ym)[w][1]]
           IN  /\ \A i \in DOMAIN RawIn(mods, ym) :
                     RawWire(mods, ym, i) = w => j = InputInst(mods, ym, i)
               /\ j.kind = "input" => \E i \in DOMAIN RawIn(mods, ym) :
                     RawWire(mods, ym, i) = w /\ j = InputInst(mods, ym, i)
<1> DEFINE insts == Instances(mods, ym)
           s == SourceOf(mods, insts, ym)[w]
<1>1. /\ s[1] \in DOMAIN insts /\ s[2] \in DOMAIN output_ports(mods, insts[s[1]])
      /\ insts[s[1]].con[output_ports(mods, insts[s[1]])[s[2]]] = w
  <2>1. DriverError(mods, insts, WiresOf(ym)) = None
    BY LoopIsLast DEF Checked
  <2> HIDE DEF insts
  <2> QED
    BY <2>1, SourceIs
<1> HIDE DEF s
<1>2. <<s[1], s[2]>> \in drivers(mods, insts, w)
  <2> HIDE DEF insts
  <2> QED
    BY <1>1, DriversAre
<1>3. ASSUME NEW i \in DOMAIN RawIn(mods, ym), RawWire(mods, ym, i) = w
      PROVE  insts[s[1]] = InputInst(mods, ym, i)
  <2>1. PICK k \in DOMAIN insts : insts[k] = InputInst(mods, ym, i)
    BY InputInstances
  <2>2. insts[k].con = <<w>> /\ output_ports(mods, insts[k]) = <<1>>
    BY <1>3, <2>1, InputInstIs
  <2>3. <<k, 1>> \in drivers(mods, insts, w)
    <3>1. 1 \in DOMAIN output_ports(mods, insts[k]) /\ insts[k].con[output_ports(mods, insts[k])[1]] = w
      BY <2>2
    <3> HIDE DEF insts
    <3> QED
      BY <3>1, DriversAre
  <2>4. <<k, 1>> = <<s[1], s[2]>>
    BY <1>2, <2>3, OneDriver
  <2>5. k = s[1]
    BY <2>4
  <2> QED
    BY <2>1, <2>5
<1>4. ASSUME insts[s[1]].kind = "input"
      PROVE  \E i \in DOMAIN RawIn(mods, ym) :
                RawWire(mods, ym, i) = w /\ insts[s[1]] = InputInst(mods, ym, i)
  <2>1. PICK i \in DOMAIN RawIn(mods, ym) : insts[s[1]] = InputInst(mods, ym, i)
    BY <1>1, <1>4, InputInstances
  <2>2. insts[s[1]].con = <<RawWire(mods, ym, i)>> /\ output_ports(mods, insts[s[1]]) = <<1>>
    BY <2>1, InputInstIs
  <2>3. RawWire(mods, ym, i) = w
    <3> HIDE DEF insts
    <3> QED
      BY <1>1, <2>2
  <2> QED
    BY <2>1, <2>3
<1> QED
  BY <1>3, <1>4 DEF s

(* What the source of a wire depends on are its edges.                     *)
LEMMA FromIsDag ==
    ASSUME NEW mods, NEW ym, Buildable(mods, ym), NEW w \in WiresOf(ym), NEW v
    PROVE  v \in FromOf(mods, ym)[w] <=> <<v, w>> \in Range(comb_wire_dag(mods, Instances(mods, ym)))
<1> DEFINE insts == Instances(mods, ym)
           dag == comb_wire_dag(mods, insts)
           s == SourceOf(mods, insts, ym)[w]
<1>0. Checked(mods, ym)
  BY DEF Buildable
<1>1. v \in FromOf(mods, ym)[w] => <<v, w>> \in Range(dag)
  BY FromIs
<1>2. ASSUME <<v, w>> \in Range(dag)
      PROVE  v \in FromOf(mods, ym)[w]
  <2>1. /\ insts \in Seq(FourKinds(mods, ym))
        /\ \A k \in DOMAIN insts : InstanceTyped(mods, ym, insts[k])
    BY <1>0, InstancesTyped
  <2>2. \A e : e \in Range(dag) <=> \E k \in DOMAIN insts : IsEdge(mods, insts[k], e)
    <3> HIDE DEF insts
    <3> QED
      BY <2>1, DagIs
  <2>3. PICK k \in DOMAIN insts : IsEdge(mods, insts[k], <<v, w>>)
    BY <1>2, <2>2
  <2> DEFINE i == insts[k]
             deps(o) == comb_deps(mods, i, output_ports(mods, i)[o])
  <2>4. PICK o \in DOMAIN output_ports(mods, i) : \E d \in DOMAIN deps(o) :
           <<v, w>> = <<i.con[deps(o)[d]], i.con[output_ports(mods, i)[o]]>>
    BY <2>3 DEF IsEdge
  <2>5. PICK d \in DOMAIN deps(o) : v = i.con[deps(o)[d]] /\ w = i.con[output_ports(mods, i)[o]]
    BY <2>4
  <2>6. <<k, o>> \in drivers(mods, insts, w)
    <3> HIDE DEF insts
    <3> QED
      BY <2>5, DriversAre
  <2>7. s \in drivers(mods, insts, w)
    <3>1. drivers(mods, insts, w) # {}
      BY <2>6
    <3>2. s = CHOOSE x \in drivers(mods, insts, w) : TRUE
      BY DEF SourceOf
    <3> HIDE DEF s, insts
    <3> QED
      BY <3>1, <3>2
  <2>8. s = <<k, o>>
    <3> HIDE DEF s
    <3> QED
      BY <1>0, <2>6, <2>7, OneDriver
  <2>9. FromOf(mods, ym)[w] = WireFrom(mods, insts[s[1]], s[2])
    BY DEF FromOf
  <2>10. FromOf(mods, ym)[w] = WireFrom(mods, i, o)
    <3> HIDE DEF s, insts
    <3> QED
      BY <2>8, <2>9
  <2>11. v \in WireFrom(mods, i, o)
    <3> HIDE DEF i
    <3> QED
      BY <2>5 DEF WireFrom, Range
  <2> QED
    BY <2>10, <2>11
<1> QED
  BY <1>1, <1>2

(* A wire depends on its input port, and on what the wires before it       *)
(* depend on.                                                              *)
LEMMA DepsetStep ==
    ASSUME NEW mods, NEW ym, Buildable(mods, ym), NEW w \in WiresOf(ym), NEW i
    PROVE  i \in DepsetsOf(mods, ym)[w] <=>
              \/ i \in DOMAIN RawIn(mods, ym) /\ RawWire(mods, ym, i) = w
              \/ \E v : /\ <<v, w>> \in Range(comb_wire_dag(mods, Instances(mods, ym)))
                        /\ i \in DepsetsOf(mods, ym)[v]
<1> DEFINE insts == Instances(mods, ym)
           dag == comb_wire_dag(mods, insts)
           source == SourceOf(mods, insts, ym)
           j == insts[source[w][1]]
           deps == DepsetsOf(mods, ym)
           from == FromOf(mods, ym)
<1>0. Checked(mods, ym)
  BY DEF Buildable
<1>1. deps[w] = DepsNow(insts, source, from, deps, w)
  BY DepsetsTyped
<1>2. \A v : v \in from[w] <=> <<v, w>> \in Range(dag)
  BY FromIsDag
<1>3. /\ \A k \in DOMAIN RawIn(mods, ym) : RawWire(mods, ym, k) = w => j = InputInst(mods, ym, k)
      /\ j.kind = "input" => \E k \in DOMAIN RawIn(mods, ym) :
            RawWire(mods, ym, k) = w /\ j = InputInst(mods, ym, k)
  BY <1>0, InputSource
<1>4. deps[w] = IF j.kind = "input" THEN {j.input} ELSE UNION {deps[v] : v \in from[w]}
  BY <1>1 DEF DepsNow
<1>5. from[w] = WireFrom(mods, j, source[w][2])
  BY DEF FromOf
<1> HIDE DEF j, deps, from, dag, insts, source
<1>6. CASE j.kind = "input"
  <2>1. PICK k \in DOMAIN RawIn(mods, ym) : RawWire(mods, ym, k) = w /\ j = InputInst(mods, ym, k)
    BY <1>3, <1>6
  <2>2. j.input = k /\ \A o : comb_deps(mods, j, o) = <<>>
    BY <2>1, InputInstIs
  <2>3. from[w] = {}
    BY <1>5, <2>2 DEF WireFrom, Range
  <2>4. deps[w] = {k}
    BY <1>4, <1>6, <2>2
  <2>5. \A l \in DOMAIN RawIn(mods, ym) : RawWire(mods, ym, l) = w => l = k
    <3> SUFFICES ASSUME NEW l \in DOMAIN RawIn(mods, ym), RawWire(mods, ym, l) = w
                 PROVE  l = k
      OBVIOUS
    <3>1. j = InputInst(mods, ym, l)
      BY <1>3
    <3>2. j.input = l
      BY <3>1, InputInstIs
    <3> QED
      BY <2>2, <3>2
  <2>6. i \in deps[w] <=>
              \/ i \in DOMAIN RawIn(mods, ym) /\ RawWire(mods, ym, i) = w
              \/ \E v : <<v, w>> \in Range(dag) /\ i \in deps[v]
    BY <1>2, <2>1, <2>3, <2>4, <2>5
  <2> QED
    BY <2>6 DEF deps, dag, insts
<1>7. CASE j.kind # "input"
  <2>1. \A k \in DOMAIN RawIn(mods, ym) : RawWire(mods, ym, k) # w
    <3> SUFFICES ASSUME NEW k \in DOMAIN RawIn(mods, ym), RawWire(mods, ym, k) = w
                 PROVE  FALSE
      OBVIOUS
    <3>1. j = InputInst(mods, ym, k)
      BY <1>3
    <3> QED
      BY <1>7, <3>1, InputInstIs
  <2>2. i \in deps[w] <=> \E v \in from[w] : i \in deps[v]
    BY <1>4, <1>7
  <2>3. i \in deps[w] <=>
              \/ i \in DOMAIN RawIn(mods, ym) /\ RawWire(mods, ym, i) = w
              \/ \E v : <<v, w>> \in Range(dag) /\ i \in deps[v]
    BY <1>2, <2>1, <2>2
  <2> QED
    BY <2>3 DEF deps, dag, insts
<1> QED
  BY <1>6, <1>7

(* Hence it depends on the inputs in its cone of the module's graph.       *)
LEMMA DepsetIs ==
    ASSUME NEW mods, NEW ym, Buildable(mods, ym), NEW w \in WiresOf(ym), NEW i
    PROVE  i \in DepsetsOf(mods, ym)[w] <=>
              /\ i \in DOMAIN RawIn(mods, ym)
              /\ RawWire(mods, ym, i) \in Cone(Range(comb_wire_dag(mods, Instances(mods, ym))), w)
<1> DEFINE insts == Instances(mods, ym)
           dag == comb_wire_dag(mods, insts)
           D == Range(dag)
           W == WiresOf(ym)
           deps == DepsetsOf(mods, ym)
           from == FromOf(mods, ym)
           x == RawWire(mods, ym, i)
<1>0. Checked(mods, ym)
  BY DEF Buildable
<1>1. dag \in Seq(W \X W)
  <2>1. /\ insts \in Seq(FourKinds(mods, ym))
        /\ \A k \in DOMAIN insts : InstanceTyped(mods, ym, insts[k])
    BY <1>0, InstancesTyped
  <2> HIDE DEF insts
  <2> QED
    BY <2>1, DagIs
<1>2. \A e \in D : e[1] \in W /\ e[2] \in W /\ e = <<e[1], e[2]>>
  <2> HIDE DEF dag, W
  <2>1. \A k \in DOMAIN dag : dag[k] \in W \X W
    BY <1>1
  <2> QED
    BY <2>1 DEF Range
<1>3. IsFiniteSet(D)
  <2> HIDE DEF dag, W
  <2>1. PICK n \in Nat : DOMAIN dag = 1..n
    BY <1>1
  <2>2. IsFiniteSet(1..n)
    BY FS_Interval
  <2>3. D = {dag[k] : k \in 1..n}
    BY <2>1 DEF Range
  <2> QED
    BY <2>2, <2>3, FiniteImage
<1>4. ASSUME NEW v \in W
      PROVE  i \in deps[v] <=> \/ i \in DOMAIN RawIn(mods, ym) /\ x = v
                               \/ \E u : <<u, v>> \in D /\ i \in deps[u]
  BY DepsetStep
<1>5. \A v \in W : \A u : u \in from[v] <=> <<u, v>> \in D
  BY FromIsDag
<1>6. PICK r \in [W -> Nat] : \A v \in W : \A u \in from[v] : r[u] < r[v]
  BY FromIs
<1> HIDE DEF insts, dag, D, deps, from, x, W
<1>7. ASSUME i \in DOMAIN RawIn(mods, ym), x \in Cone(D, w)
      PROVE  i \in deps[w]
  <2> DEFINE T == {v \in {w} \cup {e[1] : e \in D} : i \in deps[v] => i \in deps[w]}
  <2>1. w \in T
    OBVIOUS
  <2>2. ASSUME NEW e \in D, e[2] \in T
        PROVE  e[1] \in T
    <3>1. e[1] \in W /\ e[2] \in W /\ <<e[1], e[2]>> \in D
      BY <1>2
    <3>2. i \in deps[e[1]] => i \in deps[e[2]]
      BY <1>4, <3>1
    <3> QED
      BY <2>2, <3>2
  <2> HIDE DEF T
  <2>3. Cone(D, w) \subseteq T
    BY <1>3, <2>1, <2>2, ConeLeast
  <2>4. (i \in deps[x] => i \in deps[w]) /\ x \in {w} \cup {e[1] : e \in D}
    BY <1>7, <2>3 DEF T
  <2>5. x \in W
    BY <1>2, <2>4 DEF W
  <2> QED
    BY <1>4, <1>7, <2>4, <2>5
<1>8. ASSUME i \in deps[w]
      PROVE  i \in DOMAIN RawIn(mods, ym) /\ x \in Cone(D, w)
  <2> DEFINE good(v) == i \in DOMAIN RawIn(mods, ym) /\ x \in Cone(D, v)
             B == {v \in W : i \in deps[v] /\ ~good(v)}
  <2> SUFFICES ASSUME B # {}
               PROVE  FALSE
    BY <1>8 DEF W
  <2>1. PICK v \in B : \A u \in B : r[v] <= r[u]
    <3> DEFINE R == {r[u] : u \in B}
    <3>1. R \subseteq Nat /\ R # {}
      BY <1>6
    <3> HIDE DEF R
    <3>2. PICK y \in R : \A z \in R : y <= z
      BY <3>1, LeastIndex
    <3> HIDE DEF B
    <3> QED
      BY <3>2 DEF R
  <2>2. v \in W /\ i \in deps[v] /\ ~good(v)
    OBVIOUS
  <2>3. CASE i \in DOMAIN RawIn(mods, ym) /\ x = v
    <3>1. v \in Cone(D, v)
      BY <1>3, ConeIs
    <3> QED
      BY <2>2, <2>3, <3>1
  <2>4. CASE \E u : <<u, v>> \in D /\ i \in deps[u]
    <3>1. PICK u : <<u, v>> \in D /\ i \in deps[u]
      BY <2>4
    <3>2. u \in W /\ u \in from[v]
      <4> DEFINE e == <<u, v>>
      <4>1. e \in D /\ e[1] = u
        BY <3>1
      <4>2. u \in W
        BY <1>2, <4>1
      <4> QED
        BY <1>5, <2>2, <3>1, <4>2
    <3>3. r[u] < r[v] /\ r[u] \in Nat /\ r[v] \in Nat
      BY <1>6, <2>2, <3>2
    <3>4. u \notin B
      <4>1. ~(r[v] <= r[u])
        BY <3>3
      <4> HIDE DEF B
      <4> QED
        BY <2>1, <4>1
    <3>5. good(u)
      BY <3>1, <3>2, <3>4
    <3>6. u \in Cone(D, v)
      <4> DEFINE e == <<u, v>>
      <4>1. e \in D /\ e[1] = u /\ e[2] = v
        BY <3>1
      <4>2. v \in Cone(D, v)
        BY <1>3, ConeIs
      <4> HIDE DEF e
      <4> QED
        BY <1>3, <4>1, <4>2, ConeIs
    <3>7. Cone(D, u) \subseteq Cone(D, v)
      BY <1>3, <3>6, ConeTransitive
    <3> QED
      BY <2>2, <3>5, <3>7
  <2> QED
    BY <1>4, <2>2, <2>3, <2>4
<1>9. i \in deps[w] <=> i \in DOMAIN RawIn(mods, ym) /\ x \in Cone(D, w)
  BY <1>7, <1>8
<1> QED
  BY <1>9 DEF deps, x, D, dag, insts

-----------------------------------------------------------------------------
(* The summaries of the modules are those of their flat circuits.          *)
LEMMA SummaryExact ==
    ASSUME NEW m \in DOMAIN built, Composable(m)
    PROVE  Summarised(m)
<1> DEFINE ym == YM(m)
           D == Range(comb_wire_dag(built, Instances(built, ym)))
<1>1. Buildable(built, ym)
  BY BuiltAreTyped DEF Composable
<1>2. Ins(m) = DOMAIN RawIn(built, ym) /\ \A i : InWire(m, i) = RawWire(built, ym, i)
  <2>1. BuildModule(built, ym).error = None /\ built[m] = BuildModule(built, ym).value
    BY DEF Composable, Exact
  <2>2. built[m].ports = BitsOf(built, ym) /\ built[m].inputs = RawIn(built, ym)
    BY <2>1, BuiltShape DEF ShapeOf, RawIn
  <2> QED
    BY <2>2 DEF Ins, InWire, InBit, RawWire
<1>3. ASSUME NEW w \in WiresOf(ym), NEW i
      PROVE  i \in Range(built[m].comb_input_deps[w]) <=> i \in FlatDeps(m, w)
  <2>1. i \in DepsetsOf(built, ym)[w] <=> i \in Ins(m) /\ InWire(m, i) \in Cone(Dag(m), w)
    <3>1. i \in DepsetsOf(built, ym)[w] <=>
              i \in DOMAIN RawIn(built, ym) /\ RawWire(built, ym, i) \in Cone(D, w)
      BY <1>1, DepsetIs
    <3>2. D = Dag(m)
      BY DEF Dag
    <3> QED
      BY <1>2, <3>1, <3>2
  <2>2. InWire(m, i) \in Cone(Dag(m), w) <=> Top(InWire(m, i)) \in Cone(FlatEdges(m), Top(w))
    BY DagConeIsFlat, FlatConeIsDag
  <2>3. i \in DepsetsOf(built, ym)[w] <=> i \in FlatIn(m, w)
    BY <2>1, <2>2 DEF FlatIn
  <2>4. i \in Range(built[m].comb_input_deps[w]) <=>
              i \in DepsetsOf(built, ym)[w] \/ (IsPipeline(ym) /\ i \in StageIn(m, w))
    BY SummaryIs DEF Composable
  <2>5. i \in FlatDeps(m, w) <=> i \in FlatIn(m, w) \/ (IsPipeline(ym) /\ i \in StageIn(m, w))
    BY FlatDepsAre DEF Composable
  <2> QED
    BY <2>3, <2>4, <2>5
<1> QED
  BY <1>3 DEF Summarised

(* A module whose cells are summarised can be summarised.                  *)
LEMMA ReadyIsComposable ==
    ASSUME Exact, Typed, OneClockBit, ~HasLoop(Instantiates), NEW m \in Ready,
           BuildModule(built, YM(m)).error \in {None, "loop"},
           \A s \in Submodules(m) : Summarised(s)
    PROVE  Composable(m)
<1>1. m \in Names /\ Submodules(m) \subseteq DOMAIN built
  BY DEF Ready
<1>2. WellFormed(YM(m)) /\ YM(m).cells \in Seq(Range(YM(m).cells))
  BY <1>1, ModulesAreWellFormed DEF Exact
<1>3. \A c \in Range(YM(m).cells) : Connected(built, YM(m), c)
  BY <1>1, CellsConnected DEF Typed
<1> QED
  BY <1>2, <1>3 DEF Composable, Checked

(* Built modules are ready and have no error.                              *)
LEMMA BuiltAreReady ==
    ASSUME Exact, NEW m \in DOMAIN built
    PROVE  m \in Ready /\ BuildModule(built, YM(m)).error = None
BY DEF Exact, Ready

(* By the order of modules, all built modules are summarised exactly.      *)
LEMMA AllSummarised ==
    ASSUME Exact, Typed, OneClockBit, ~HasLoop(Instantiates)
    PROVE  \A m \in DOMAIN built : Summarised(m)
<1> DEFINE B == {m \in DOMAIN built : ~Summarised(m)}
<1> SUFFICES ASSUME B # {}
             PROVE  FALSE
  OBVIOUS
<1>1. B \in SUBSET Names
  BY DEF Exact
<1>2. PICK m \in B : \A s \in Submodules(m) : s \notin B
  <2> HIDE DEF B
  <2> QED
    BY <1>1, LeastModule
<1>3. m \in Ready /\ BuildModule(built, YM(m)).error = None
  BY BuiltAreReady
<1>4. \A s \in Submodules(m) : Summarised(s)
  BY <1>2, <1>3 DEF Ready
<1>5. Composable(m)
  BY <1>3, <1>4, ReadyIsComposable
<1> QED
  BY <1>5, SummaryExact

-----------------------------------------------------------------------------
(* Loops.                                                                  *)
LEMMA ConeStart ==
    ASSUME NEW edges, IsFiniteSet(edges), NEW n, NEW k \in Cone(edges, n)
    PROVE  k = n \/ \E e \in edges : e[2] = n /\ k \in Cone(edges, e[1])
<1> DEFINE good(j) == j = n \/ \E e \in edges : e[2] = n /\ j \in Cone(edges, e[1])
           T == {j \in {n} \cup {e[1] : e \in edges} : good(j)}
<1>1. n \in T
  OBVIOUS
<1>2. ASSUME NEW e \in edges, e[2] \in T
      PROVE  e[1] \in T
  <2>1. CASE e[2] = n
    <3>1. e[1] \in Cone(edges, e[1])
      BY ConeIs
    <3> QED
      BY <2>1, <3>1
  <2>2. CASE \E g \in edges : g[2] = n /\ e[2] \in Cone(edges, g[1])
    <3>1. PICK g \in edges : g[2] = n /\ e[2] \in Cone(edges, g[1])
      BY <2>2
    <3>2. e[1] \in Cone(edges, g[1])
      BY <3>1, ConeIs
    <3> QED
      BY <3>1, <3>2
  <2> QED
    BY <1>2, <2>1, <2>2
<1> HIDE DEF T
<1>3. Cone(edges, n) \subseteq T
  BY <1>1, <1>2, ConeLeast
<1> QED
  BY <1>3 DEF T

(* A loop of the module's graph is one of the flat circuit.                *)
LEMMA DagLoopIsFlat ==
    ASSUME NEW m, Composable(m), HasLoop(Dag(m))
    PROVE  HasLoop(FlatEdges(m))
<1> DEFINE F == FlatEdges(m)
           D == Dag(m)
<1>1. IsFiniteSet(F)
  BY FlatEdgesFinite DEF Composable
<1>2. IsFiniteSet(D) /\ \A e \in D : e = <<e[1], e[2]>>
  BY DagTyped DEF Composable
<1>3. PICK X : Loop(D, X)
  BY <1>2, LoopIs
<1>4. ASSUME NEW v \in X
      PROVE  \E e \in F : e[2] = Top(v) /\ \E u \in X : Top(u) \in Cone(F, e[1])
  <2>1. PICK d \in D : d[1] \in X /\ d[2] = v
    BY <1>3 DEF Loop
  <2>2. <<d[1], v>> \in D
    BY <1>2, <2>1
  <2> QED
    BY <2>1, <2>2, PathIsFlat
<1> DEFINE Y == {n \in {e[2] : e \in F} \cup {e[1] : e \in F} : \E v \in X : Top(v) \in Cone(F, n)}
<1> HIDE DEF F, D
<1>5. ASSUME NEW n \in Y
      PROVE  \E e \in F : e[1] \in Y /\ e[2] = n
  <2>1. PICK v \in X : Top(v) \in Cone(F, n)
    OBVIOUS
  <2>2. CASE Top(v) = n
    BY <1>4, <2>2
  <2>3. CASE \E e \in F : e[2] = n /\ Top(v) \in Cone(F, e[1])
    BY <2>3
  <2> QED
    BY <1>1, <2>1, <2>2, <2>3, ConeStart
<1>6. Y # {}
  <2>1. PICK v \in X : TRUE
    BY <1>3 DEF Loop
  <2>2. PICK e \in F : e[2] = Top(v)
    BY <1>4
  <2>3. Top(v) \in Cone(F, Top(v))
    BY <1>1, ConeIs
  <2> QED
    BY <2>2, <2>3
<1>7. Loop(F, Y)
  BY <1>5, <1>6 DEF Loop
<1>8. HasLoop(F)
  <2> HIDE DEF Y
  <2> QED
    BY <1>1, <1>7, LoopIs
<1> QED
  BY <1>8 DEF F

(* A net of a cell that is on a loop depends on one of the cell's inputs   *)
(* that is on the loop too, the cell's own circuit having none.            *)
LEMMA LoopLeaves ==
    ASSUME NEW m, Composable(m), NEW X, Loop(FlatEdges(m), X),
           NEW c \in SubCells(m), ~HasLoop(FlatEdges(TypeOf(m, c))),
           NEW k, IsNet(k), Under(c, k) \in X
    PROVE  \E i \in Ins(TypeOf(m, c)) :
              /\ Top(InWire(TypeOf(m, c), i)) \in Cone(FlatEdges(TypeOf(m, c)), k)
              /\ Top(CellWire(Cells(m)[c], InBit(TypeOf(m, c), i))) \in X
<1> DEFINE t == TypeOf(m, c)
           f == FlatEdges(t)
           Y == {j \in {k} \cup {e[1] : e \in f} : IsNet(j) /\ Under(c, j) \in X /\ j \in Cone(f, k)}
<1>1. t \in Ready /\ IsFiniteSet(f)
  BY SubCellsAre, FlatEdgesFinite DEF Composable
<1>2. \A d \in SubCells(m) : d \in Nat
  BY SubCellsAre DEF Composable
<1>3. k \in Y
  BY <1>1, ConeIs
<1>4. PICK j \in Y : \A e \in f : e[1] \in Y => e[2] # j
  <2> SUFFICES ASSUME \A j \in Y : \E e \in f : e[1] \in Y /\ e[2] = j
               PROVE  FALSE
    OBVIOUS
  <2>1. Loop(f, Y)
    BY <1>3 DEF Loop
  <2> HIDE DEF Y, f
  <2>2. HasLoop(f)
    BY <1>1, <2>1, LoopIs
  <2> QED
    BY <2>2 DEF f
<1>5. IsNet(j) /\ Under(c, j) \in X /\ j \in Cone(f, k)
  OBVIOUS
<1>6. PICK e \in FlatEdges(m) : e[1] \in X /\ e[2] = Under(c, j)
  BY <1>5 DEF Loop
<1>7. \A v : Under(c, j) # Top(v)
  BY <1>2, <1>5, UnderIs
<1>8. ASSUME NEW d \in SubCells(m), NEW i \in Ins(TypeOf(m, d)), e = InEdge(m, d, i)
      PROVE  \E l \in Ins(t) : /\ Top(InWire(t, l)) \in Cone(f, k)
                               /\ Top(CellWire(Cells(m)[c], InBit(t, l))) \in X
  <2> DEFINE a == Top(InWire(TypeOf(m, d), i))
             o == Top(CellWire(Cells(m)[d], InBit(TypeOf(m, d), i)))
  <2>1. e = <<o, Under(d, a)>>
    BY <1>8 DEF InEdge, Outer, InnerNet, InWire
  <2>2. IsNet(a)
    BY TopIs
  <2> HIDE DEF a, o
  <2>3. Under(c, j) = Under(d, a) /\ e[1] = o
    BY <1>6, <2>1
  <2>4. d = c /\ a = j
    BY <1>2, <1>5, <2>2, <2>3, UnderSame
  <2> QED
    BY <1>5, <1>6, <2>3, <2>4 DEF a, o
<1>9. ASSUME NEW d \in SubCells(m), NEW g \in FlatEdges(TypeOf(m, d)), e = PairUnder(d, g)
      PROVE  FALSE
  <2>1. IsNet(g[1]) /\ IsNet(g[2])
    <3>1. TypeOf(m, d) \in Ready
      BY SubCellsAre DEF Composable
    <3>2. g \in AllEdges(TypeOf(m, d))
      BY <3>1, FlatEdgesFinite DEF Composable
    <3> QED
      BY <3>1, <3>2, EdgesAreNets DEF Composable, IsNetPair
  <2>2. e[1] = Under(d, g[1]) /\ Under(c, j) = Under(d, g[2])
    BY <1>6, <1>9 DEF PairUnder
  <2>3. d = c /\ g[2] = j
    BY <1>2, <1>5, <2>1, <2>2, UnderSame
  <2>4. g \in f /\ Under(c, g[1]) \in X
    BY <1>6, <2>2, <2>3
  <2>5. g[1] \in Cone(f, k)
    <3> HIDE DEF f
    <3> QED
      BY <1>1, <1>5, <2>3, <2>4, ConeIs
  <2>6. g[1] \in Y
    BY <2>1, <2>4, <2>5
  <2> HIDE DEF Y, f
  <2> QED
    BY <1>4, <2>3, <2>4, <2>6
<1>10. ASSUME NEW v, e[2] = Top(v)
       PROVE  FALSE
  BY <1>6, <1>7, <1>10
<1>11. \/ \E v : e[2] = Top(v)
       \/ \E d \in SubCells(m) : \E i \in Ins(TypeOf(m, d)) : e = InEdge(m, d, i)
       \/ \E d \in SubCells(m) : \E g \in FlatEdges(TypeOf(m, d)) : e = PairUnder(d, g)
  <2>1. \A v, w : e = <<Top(v), Top(w)>> => e[2] = Top(w)
    OBVIOUS
  <2>2. \A d, o : e = OutEdge(m, d, o) => e[2] = Top(CellWire(Cells(m)[d], OutBit(TypeOf(m, d), o)))
    BY DEF OutEdge, Outer
  <2>3. \A d, i, o : e = StageEdge(m, d, i, o)
                        => e[2] = Top(CellWire(Cells(m)[d], OutBit(TypeOf(m, d), o)))
    BY DEF StageEdge, Outer
  <2> QED
    BY <2>1, <2>2, <2>3, FlatEdgesAre
<1> QED
  BY <1>8, <1>9, <1>10, <1>11

(* A loop of the flat circuit that is in none of the cells is one of the   *)
(* module's graph.                                                         *)
LEMMA FlatLoopIsDag ==
    ASSUME NEW m, Composable(m), HasLoop(FlatEdges(m)),
           \A s \in Submodules(m) : ~HasLoop(FlatEdges(s))
    PROVE  HasLoop(Dag(m))
<1> DEFINE F == FlatEdges(m)
           D == Dag(m)
<1>1. IsFiniteSet(F)
  BY FlatEdgesFinite DEF Composable
<1>2. IsFiniteSet(D)
  BY DagTyped DEF Composable
<1>3. PICK X : Loop(F, X)
  BY <1>1, LoopIs
<1> DEFINE Y == {u \in {n[2] : n \in X} : Top(u) \in X}
<1>4. \A u : Top(u) \in X => u \in Y
  BY DEF Top
<1>5. \A c \in SubCells(m) : /\ TypeOf(m, c) \in Ready
                             /\ ~HasLoop(FlatEdges(TypeOf(m, c)))
  BY SubCellsAre DEF Composable
<1>6. ASSUME NEW c \in SubCells(m), NEW k, IsNet(k), Under(c, k) \in X
      PROVE  \E i \in Ins(TypeOf(m, c)) :
                /\ Top(InWire(TypeOf(m, c), i)) \in Cone(FlatEdges(TypeOf(m, c)), k)
                /\ CellWire(Cells(m)[c], InBit(TypeOf(m, c), i)) \in Y
  <2>1. PICK i \in Ins(TypeOf(m, c)) :
              /\ Top(InWire(TypeOf(m, c), i)) \in Cone(FlatEdges(TypeOf(m, c)), k)
              /\ Top(CellWire(Cells(m)[c], InBit(TypeOf(m, c), i))) \in X
    BY <1>3, <1>5, <1>6, LoopLeaves
  <2> QED
    BY <1>4, <2>1
<1>7. ASSUME NEW u \in Y
      PROVE  \E d \in D : d[1] \in Y /\ d[2] = u
  <2>1. PICK e \in F : e[1] \in X /\ e[2] = Top(u)
    BY <1>3 DEF Loop
  <2>2. ASSUME NEW v, NEW w, e = <<Top(v), Top(w)>>, <<v, w>> \in D
        PROVE  \E d \in D : d[1] \in Y /\ d[2] = u
    <3>1. w = u
      BY <2>1, <2>2, TopIs
    <3>2. v \in Y
      BY <1>4, <2>1, <2>2
    <3> DEFINE d == <<v, w>>
    <3>3. d \in D /\ d[1] \in Y /\ d[2] = u
      BY <2>2, <3>1, <3>2
    <3> QED
      BY <3>3
  <2>3. CASE \E v, w : e = <<Top(v), Top(w)>> /\ GatePath(m, v, w)
    BY <2>2, <2>3, TopEdges
  <2>4. ASSUME NEW c \in SubCells(m), NEW i, NEW o, IsStage(m, c, i, o), e = StageEdge(m, c, i, o)
        PROVE  \E d \in D : d[1] \in Y /\ d[2] = u
    <3> DEFINE v == CellWire(Cells(m)[c], InBit(TypeOf(m, c), i))
               w == CellWire(Cells(m)[c], OutBit(TypeOf(m, c), o))
    <3>1. e = <<Top(v), Top(w)>>
      BY <2>4 DEF StageEdge, Outer
    <3>2. <<v, w>> \in D
      BY <2>4, TopEdges
    <3> HIDE DEF v, w
    <3> QED
      BY <2>2, <3>1, <3>2
  <2>5. ASSUME NEW c \in SubCells(m), NEW o \in Outs(TypeOf(m, c)), e = OutEdge(m, c, o)
        PROVE  \E d \in D : d[1] \in Y /\ d[2] = u
    <3> DEFINE k == Top(OutWire(TypeOf(m, c), o))
               w == CellWire(Cells(m)[c], OutBit(TypeOf(m, c), o))
    <3>1. e[2] = Top(w) /\ e[1] = Under(c, k)
      BY <2>5 DEF OutEdge, Outer, InnerNet, OutWire
    <3>2. IsNet(k)
      BY TopIs
    <3>3. Under(c, k) \in X
      BY <2>1, <3>1
    <3>4. PICK i \in Ins(TypeOf(m, c)) :
              /\ Top(InWire(TypeOf(m, c), i)) \in Cone(FlatEdges(TypeOf(m, c)), k)
              /\ CellWire(Cells(m)[c], InBit(TypeOf(m, c), i)) \in Y
      <4> HIDE DEF k, Y
      <4> QED
        BY <1>6, <3>2, <3>3
    <3>5. i \in FlatIn(TypeOf(m, c), OutWire(TypeOf(m, c), o))
      BY <3>4 DEF FlatIn
    <3> DEFINE d == <<CellWire(Cells(m)[c], InBit(TypeOf(m, c), i)), w>>
    <3>6. d \in D
      BY <3>5, TopEdges
    <3>7. w = u
      <4> HIDE DEF w
      <4> QED
        BY <2>1, <3>1, TopIs
    <3>8. d[1] \in Y /\ d[2] = u
      BY <3>4, <3>7
    <3> QED
      BY <3>6, <3>8
  <2>6. ASSUME NEW c \in SubCells(m), NEW n, IsNet(n), e[2] = Under(c, n)
        PROVE  FALSE
    <3>1. c \in Nat
      BY SubCellsAre DEF Composable
    <3> QED
      BY <2>1, <2>6, <3>1, UnderIs
  <2>7. ASSUME NEW c \in SubCells(m), NEW i, e = InEdge(m, c, i)
        PROVE  FALSE
    <3> DEFINE n == Top(InWire(TypeOf(m, c), i))
    <3>1. IsNet(n)
      BY TopIs
    <3>2. e[2] = Under(c, n)
      BY <2>7 DEF InEdge, InnerNet, InWire
    <3> HIDE DEF n
    <3> QED
      BY <2>6, <3>1, <3>2
  <2>8. ASSUME NEW c \in SubCells(m), NEW g \in FlatEdges(TypeOf(m, c)), e = PairUnder(c, g)
        PROVE  FALSE
    <3>1. g \in AllEdges(TypeOf(m, c))
      BY <1>5, FlatEdgesFinite DEF Composable
    <3>2. IsNet(g[2])
      BY <1>5, <3>1, EdgesAreNets DEF Composable, IsNetPair
    <3>3. e[2] = Under(c, g[2])
      BY <2>8 DEF PairUnder
    <3> QED
      BY <2>6, <3>2, <3>3
  <2> QED
    BY <2>3, <2>4, <2>5, <2>7, <2>8, FlatEdgesAre
<1>8. Y # {}
  <2> SUFFICES ASSUME Y = {}
               PROVE  FALSE
    OBVIOUS
  <2>1. PICK n \in X : TRUE
    BY <1>3 DEF Loop
  <2>2. PICK e \in F : e[1] \in X /\ e[2] = n
    BY <1>3 DEF Loop
  <2>3. \A v : e[1] # Top(v)
    BY <1>4, <2>2
  <2>4. ASSUME NEW c \in SubCells(m), NEW k, IsNet(k), e[1] = Under(c, k)
        PROVE  FALSE
    <3>1. Under(c, k) \in X
      BY <2>2, <2>4
    <3> HIDE DEF Y
    <3> QED
      BY <1>6, <2>4, <3>1
  <2>5. ASSUME NEW c \in SubCells(m), NEW o, e = OutEdge(m, c, o)
        PROVE  FALSE
    <3> DEFINE k == Top(OutWire(TypeOf(m, c), o))
    <3>1. IsNet(k)
      BY TopIs
    <3>2. e[1] = Under(c, k)
      BY <2>5 DEF OutEdge, InnerNet, OutWire
    <3> HIDE DEF k
    <3> QED
      BY <2>4, <3>1, <3>2
  <2>6. ASSUME NEW c \in SubCells(m), NEW g \in FlatEdges(TypeOf(m, c)), e = PairUnder(c, g)
        PROVE  FALSE
    <3>1. g \in AllEdges(TypeOf(m, c))
      BY <1>5, FlatEdgesFinite DEF Composable
    <3>2. IsNet(g[1])
      BY <1>5, <3>1, EdgesAreNets DEF Composable, IsNetPair
    <3>3. e[1] = Under(c, g[1])
      BY <2>6 DEF PairUnder
    <3> QED
      BY <2>4, <3>2, <3>3
  <2>7. \/ \E v : e[1] = Top(v)
        \/ \E c \in SubCells(m) : \E o : e = OutEdge(m, c, o)
        \/ \E c \in SubCells(m) : \E g \in FlatEdges(TypeOf(m, c)) : e = PairUnder(c, g)
    <3>1. \A v, w : e = <<Top(v), Top(w)>> => e[1] = Top(v)
      OBVIOUS
    <3>2. \A c, i : e = InEdge(m, c, i) => e[1] = Top(CellWire(Cells(m)[c], InBit(TypeOf(m, c), i)))
      BY DEF InEdge, Outer
    <3>3. \A c, i, o : e = StageEdge(m, c, i, o)
                          => e[1] = Top(CellWire(Cells(m)[c], InBit(TypeOf(m, c), i)))
      BY DEF StageEdge, Outer
    <3> QED
      BY <3>1, <3>2, <3>3, FlatEdgesAre
  <2> QED
    BY <2>3, <2>5, <2>6, <2>7
<1>9. Loop(D, Y)
  BY <1>7, <1>8 DEF Loop
<1> HIDE DEF D, Y
<1>10. HasLoop(D)
  BY <1>2, <1>9, LoopIs
<1> QED
  BY <1>10 DEF D

(* The top-level gadget is not refused for a loop.                         *)
LEMMA TopDoesNotLoop ==
    ASSUME NEW ym, NEW module, NEW n \in Nat, DOMAIN module.ports = 1..n
    PROVE  TopError(ym, module) # "loop"
<1> DEFINE ps == [c \in DOMAIN module.ports |-> PortOf(ym, module.ports[c])]
           rel == ym.attrs.active # None
           first == <<Check(RolesError(ym, module.ports) # None, RolesError(ym, module.ports)),
                      Check(~check_clock(ym, module), "clock_not_annotated")>>
           conditions == [c \in DOMAIN ps |->
                            Check(ConditionError(ps[c], rel) # None, ConditionError(ps[c], rel))]
           last == <<Check(ym.attrs.strat # "composite_top", "strat_top"),
                     Check(ym.attrs.arch # "loopy", "pipeline_top"),
                     Check(ym.attrs.prop # "PINI", "prop_top")>>
           All == Range(first) \cup Range(conditions) \cup Range(last)
<1>1. TopError(ym, module) = "no_annotation" \/ TopError(ym, module) = FirstError((first \o conditions) \o last)
  BY DEF TopError
<1>2. "loop" # None
  BY DEF None
<1>3. first \in Seq(Range(first)) /\ last \in Seq(Range(last)) /\ conditions \in Seq(Range(conditions))
  <2>1. first \in Seq(Range(first))
    BY DEF Range
  <2>2. last \in Seq(Range(last))
    BY DEF Range
  <2>3. DOMAIN conditions = 1..n /\ conditions = [c \in 1..n |-> conditions[c]]
    OBVIOUS
  <2>4. conditions \in Seq(Range(conditions))
    <3> HIDE DEF conditions
    <3> QED
      BY <2>3, RangeIsSeq
  <2> QED
    BY <2>1, <2>2, <2>4
<1>4. \A p : ConditionError(p, rel) # "loop"
  <2> SUFFICES ASSUME NEW p
               PROVE  ConditionError(p, rel) # "loop"
    OBVIOUS
  <2> DEFINE three == <<
        Check(p.lat # Missing /\ p.active # None, "conflict"),
        Check(p.lat # Missing /\ ~rel, "no_exec"),
        Check(p.lat = Missing /\ p.active = None /\ p.type \in ShareTypes \cup {"random"},
              "no_condition")>>
  <2>1. DOMAIN three = 1..3 /\ \A i \in 1..3 : three[i].error # "loop"
    BY DEF Check
  <2>2. ConditionError(p, rel) = FirstError(three)
    BY DEF ConditionError
  <2>3. 3 \in Nat
    OBVIOUS
  <2>4. FirstError(three) # "loop"
    <3> HIDE DEF three
    <3> QED
      BY <1>2, <2>1, <2>3, NoOtherError
  <2> HIDE DEF three
  <2> QED
    BY <2>2, <2>4
<1>5. \A i \in All : i.error # "loop"
  <2>1. \A i \in Range(first) : i.error # "loop"
    <3> DEFINE error == RolesError(ym, module.ports)
    <3>1. error # "loop"
      BY RolesDoNotLoop
    <3>2. DOMAIN first = 1..2 /\ first[1].error = error /\ first[2].error = "clock_not_annotated"
      <4> HIDE DEF error
      <4> QED
        BY DEF Check, error
    <3>3. \A k \in 1..2 : k = 1 \/ k = 2
      OBVIOUS
    <3> HIDE DEF first, error
    <3> QED
      BY <3>1, <3>2, <3>3 DEF Range
  <2>2. \A i \in Range(conditions) : i.error # "loop"
    <3>1. \A c \in DOMAIN conditions : conditions[c].error # "loop"
      <4> HIDE DEF rel
      <4> QED
        BY <1>4 DEF Check
    <3> HIDE DEF conditions
    <3> QED
      BY <3>1 DEF Range
  <2>3. \A i \in Range(last) : i.error # "loop"
    BY DEF Range, Check
  <2> HIDE DEF first, conditions, last
  <2> QED
    BY <2>1, <2>2, <2>3
<1> HIDE DEF first, conditions, last
<1> DEFINE two == first \o conditions
           checks == two \o last
<1>6. first \in Seq(All) /\ last \in Seq(All) /\ conditions \in Seq(All)
  BY <1>3
<1> HIDE DEF All
<1>7. two \in Seq(All)
  BY <1>6, RangeConcat
<1> HIDE DEF two
<1>8. checks \in Seq(All)
  BY <1>6, <1>7, RangeConcat
<1>9. TopError(ym, module) = "no_annotation" \/ TopError(ym, module) = FirstError(checks)
  BY <1>1 DEF two
<1> HIDE DEF checks
<1>10. PICK k \in Nat : DOMAIN checks = 1..k
  BY <1>8
<1>11. \A i \in 1..k : checks[i].error # "loop"
  <2>1. \A i \in 1..k : checks[i] \in All
    BY <1>8, <1>10
  <2> QED
    BY <1>5, <2>1
<1>12. FirstError(checks) # "loop"
  BY <1>2, <1>10, <1>11, NoOtherError
<1> QED
  BY <1>9, <1>12

(* No module instantiates itself once the modules are sorted, and a loop   *)
(* is found in the module that is being added.                             *)
Sorted ==
    /\ phase \in {"build", "top", "ready"} \/ DOMAIN built # {} => ~HasLoop(Instantiates)
    /\ phase # "failed" => failure = NoFailure
    /\ failure.error = "loop" =>
          /\ ~HasLoop(Instantiates) /\ failure.module \in Ready
          /\ BuildModule(built, YM(failure.module)).error = "loop"

(* Sorting the modules and adding one keep them sorted.                    *)
LEMMA SortedStep ==
    ASSUME Exact, Sorted, [BuildNext]_buildVars
    PROVE  Sorted'
<1>0. ASSUME UNCHANGED design
      PROVE  /\ Instantiates' = Instantiates /\ Names' = Names
             /\ \A m : Submodules(m)' = Submodules(m)
  <2>1. \A m : Submodules(m)' = Submodules(m)
    BY <1>0 DEF YM, Submodules, Cells
  <2>2. Names' = Names
    BY <1>0 DEF Names
  <2> QED
    BY <2>1, <2>2 DEF Instantiates
<1>1. ASSUME UNCHANGED <<design, built>>
      PROVE  Instantiates' = Instantiates /\ Ready' = Ready
  BY <1>0, <1>1 DEF Ready
<1>2. CASE SortModules
  <2>1. phase = "sort" /\ UNCHANGED <<design, built>>
    BY <1>2 DEF SortModules, FailWith
  <2>2. Instantiates' = Instantiates
    BY <1>1, <2>1
  <2>3. \/ phase' = "failed" /\ failure'.error # "loop"
        \/ failure' = failure /\ phase' = "build" /\ ~HasLoop(Instantiates)
    BY <1>2 DEF SortModules, FailWith
  <2>4. failure = NoFailure /\ (DOMAIN built # {} => ~HasLoop(Instantiates))
    BY <2>1 DEF Sorted
  <2> QED
    BY <2>1, <2>2, <2>3, <2>4 DEF Sorted, NoFailure, None
<1>3. ASSUME NEW m \in Names, AddModule(m)
      PROVE  Sorted'
  <2> DEFINE res == BuildModule(built, YM(m))
  <2>1. phase = "build" /\ Submodules(m) \subseteq DOMAIN built /\ design' = design
    BY <1>3 DEF AddModule
  <2>2. ~HasLoop(Instantiates) /\ failure = NoFailure /\ m \in Ready
    BY <2>1 DEF Sorted, Ready
  <2>3. CASE res.error # None
    <3>1. /\ phase' = "failed" /\ UNCHANGED <<design, built>>
          /\ failure' = [error |-> res.error, module |-> m]
      BY <1>3, <2>3 DEF AddModule, FailWith
    <3>2. Instantiates' = Instantiates /\ Ready' = Ready
      BY <1>1, <3>1
    <3>3. failure'.module = m /\ failure'.error = res.error /\ phase' \notin {"build", "top", "ready"}
      BY <3>1
    <3>4. BuildModule(built', design'.modules[m]) = res
      BY <3>1 DEF YM
    <3> HIDE DEF res
    <3> QED
      BY <2>2, <3>1, <3>2, <3>3, <3>4 DEF Sorted, YM
  <2>4. CASE res.error = None
    <3>1. failure' = failure /\ phase' # "failed"
      BY <1>3, <2>4 DEF AddModule
    <3>2. Instantiates' = Instantiates
      BY <1>0, <2>1
    <3> QED
      BY <2>2, <3>1, <3>2 DEF Sorted, NoFailure, None
  <2> QED
    BY <2>3, <2>4
<1>4. CASE SelectTop
  <2>1. phase = "top" /\ UNCHANGED <<design, built>> /\ phase' \in {"ready", "failed"}
    BY <1>4 DEF SelectTop, FailWith
  <2>2. Instantiates' = Instantiates
    BY <1>1, <2>1
  <2>3. ~HasLoop(Instantiates) /\ failure = NoFailure
    BY <2>1 DEF Sorted
  <2>4. CASE phase' = "ready"
    <3>1. failure' = failure
      BY <1>4, <2>4 DEF SelectTop, FailWith
    <3> QED
      BY <2>2, <2>3, <2>4, <3>1 DEF Sorted, NoFailure, None
  <2>5. CASE phase' = "failed"
    <3>1. failure'.error # "loop"
      <4>1. CASE design.top \notin DOMAIN built
        BY <1>4, <4>1 DEF SelectTop, FailWith
      <4>2. CASE design.top \in DOMAIN built
        <5> DEFINE t == design.top
        <5>1. TopError(YM(t), built[t]) # "loop"
          <6>1. /\ BuildModule(built, YM(t)).error = None /\ t \in Names
                /\ built[t] = BuildModule(built, YM(t)).value
            BY <4>2 DEF Exact
          <6>2. built[t].ports = BitsOf(built, YM(t))
            BY <6>1, BuiltShape DEF ShapeOf
          <6>3. WellFormed(YM(t))
            BY <6>1, ModulesAreWellFormed DEF Exact
          <6>4. PICK n \in Nat : DOMAIN BitsOf(built, YM(t)) = 1..n
            BY <6>3, ShapeIs
          <6>5. DOMAIN built[t].ports = 1..n
            BY <6>2, <6>4
          <6> HIDE DEF t
          <6> QED
            BY <6>5, TopDoesNotLoop
        <5>2. failure'.error = TopError(YM(t), built[t])
          BY <1>4, <2>5, <4>2 DEF SelectTop, FailWith
        <5> QED
          BY <5>1, <5>2
      <4> QED
        BY <4>1, <4>2
    <3> QED
      BY <2>2, <2>3, <2>5, <3>1 DEF Sorted
  <2> QED
    BY <2>1, <2>4, <2>5
<1>5. CASE UNCHANGED buildVars
  <2>1. UNCHANGED <<design, built, phase, failure>>
    BY <1>5 DEF buildVars
  <2>2. Instantiates' = Instantiates /\ Ready' = Ready
    BY <1>1, <2>1
  <2> QED
    BY <2>1, <2>2 DEF Sorted, YM
<1> QED
  BY <1>2, <1>3, <1>4, <1>5 DEF BuildNext

(* This is an invariant of the construction.                               *)
LEMMA SortedInvariant == BuildSpec => []Sorted
<1>1. BuildInit => Sorted
  BY DEF BuildInit, Sorted, NoFailure, None
<1>2. ASSUME Exact, Sorted, [BuildNext]_buildVars
      PROVE  Sorted'
  BY <1>2, SortedStep
<1> QED
  BY <1>1, <1>2, ExactInvariant, PTL DEF BuildSpec

(* The inputs that comb_input_deps gives for each wire of each module are  *)
(* those it is reached from in the flat circuit of the module, in every    *)
(* design whose modules each take their clock from one port bit.           *)
THEOREM DepsAreExact == BuildSpec => []DepsAreReachability
<1>1. ASSUME Exact, Typed, Sorted
      PROVE  DepsAreReachability
  <2>1. ASSUME OneClockBit, NEW m \in DOMAIN built
        PROVE  Summarised(m)
    BY <1>1, <2>1, AllSummarised DEF Sorted
  <2> QED
    BY <2>1 DEF DepsAreReachability, Summarised
<1> QED
  BY <1>1, ExactInvariant, TypedInvariant, SortedInvariant, PTL

(* Hence no built module has a loop in its flat circuit.                   *)
LEMMA BuiltHaveNoLoop ==
    ASSUME Exact, Typed, OneClockBit, ~HasLoop(Instantiates)
    PROVE  \A m \in DOMAIN built : ~HasLoop(FlatEdges(m))
<1> DEFINE B == {m \in DOMAIN built : HasLoop(FlatEdges(m))}
<1> SUFFICES ASSUME B # {}
             PROVE  FALSE
  OBVIOUS
<1>1. B \in SUBSET Names
  BY DEF Exact
<1>2. PICK m \in B : \A s \in Submodules(m) : s \notin B
  <2> HIDE DEF B
  <2> QED
    BY <1>1, LeastModule
<1>3. m \in Ready /\ BuildModule(built, YM(m)).error = None
  BY BuiltAreReady
<1>4. \A s \in Submodules(m) : Summarised(s) /\ ~HasLoop(FlatEdges(s))
  BY <1>2, <1>3, AllSummarised DEF Ready
<1>5. Composable(m)
  BY <1>3, <1>4, ReadyIsComposable
<1>6. HasLoop(Dag(m))
  BY <1>4, <1>5, FlatLoopIsDag
<1> QED
  BY <1>3, <1>6, BuiltShape DEF Dag

(* sort_wires refuses a module for a loop exactly when its flat circuit    *)
(* has one, in every design whose modules each take their clock from one   *)
(* port bit.                                                               *)
THEOREM LoopsAreExact == BuildSpec => []LoopsExact
<1>1. ASSUME Exact, Typed, Sorted
      PROVE  LoopsExact
  <2>1. ASSUME OneClockBit, failure.error = "loop"
        PROVE  HasLoop(FlatEdges(failure.module))
    <3> DEFINE m == failure.module
    <3>1. ~HasLoop(Instantiates) /\ m \in Ready /\ BuildModule(built, YM(m)).error = "loop"
      BY <1>1, <2>1 DEF Sorted
    <3>2. \A s \in Submodules(m) : Summarised(s)
      BY <1>1, <2>1, <3>1, AllSummarised DEF Ready
    <3>3. Composable(m)
      <4> HIDE DEF m
      <4> QED
        BY <1>1, <2>1, <3>1, <3>2, ReadyIsComposable
    <3>4. WellFormed(YM(m))
      BY <3>3 DEF Composable, Checked
    <3>5. HasLoop(Dag(m))
      <4> HIDE DEF m
      <4> QED
        BY <3>1, <3>4, LoopIsLast DEF Dag
    <3> QED
      BY <3>3, <3>5, DagLoopIsFlat
  <2>2. ASSUME OneClockBit, NEW m \in DOMAIN built
        PROVE  ~HasLoop(FlatEdges(m))
    BY <1>1, <2>2, BuiltHaveNoLoop DEF Sorted
  <2> QED
    BY <2>1, <2>2 DEF LoopsExact
<1> QED
  BY <1>1, ExactInvariant, TypedInvariant, SortedInvariant, PTL

=============================================================================
