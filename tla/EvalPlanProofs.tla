--------------------------- MODULE EvalPlanProofs ---------------------------
(***************************************************************************)
(* What ModuleEvaluator::new makes of a netlist that was built, for every  *)
(* design: the search of the reversed wire graph finds every wire once and *)
(* after those it is computed from, inputs of the module aside; each part  *)
(* of an order is the wires that one output needs and that none before it  *)
(* did, and an order asks each instance for each of its outputs once; the  *)
(* evaluators of a design are a tree of paths, whose ranges of identifiers *)
(* nest; a wire gives its value to places of its own. Last, how calls go   *)
(* over the orders of all modules at once: along the stack, each module    *)
(* has dealt with a part of its order, and a call is in the middle of the  *)
(* output that its caller asks for, whether wires are evaluated or         *)
(* checked.                                                                *)
(***************************************************************************)
EXTENDS EvalOrder, NetBuildProofs

-----------------------------------------------------------------------------
(* The depth-first search.  Wires I are inputs: what comes before an input *)
(* is an input, and among the others the ranks r increase along edges.     *)
Ordered(I, r, v, w) == v \in I \/ (w \notin I /\ r[v] < r[w])
SearchGraph(W, dag, I, r) ==
    /\ IsFiniteSet(W) /\ dag \in Seq(W \X W) /\ I \subseteq W /\ r \in [W -> Nat]
    /\ \A e \in Range(dag) : Ordered(I, r, e[1], e[2])

(* The states of a search, and what is on the stack above a wire.          *)
SearchStates(W) == [stack : Seq(W), seen : SUBSET W, found : Seq(W), ends : Seq(Nat)]
Above(seq, w) == {seq[i] : i \in {i \in DOMAIN seq : \A j \in 1..i : seq[j] # w}}

(* A wire that is visited and not found is on the stack, under what must   *)
(* come before it; a wire that is found comes after what is before it.     *)
Open(st) == st.seen \ Range(st.found)
Distinct(seq) == \A i, j \in DOMAIN seq : seq[i] = seq[j] => i = j
After(dag, I, seq) ==
    \A j \in DOMAIN seq : seq[j] \notin I =>
        \A e \in Range(dag) : e[2] = seq[j] => \E i \in 1..(j - 1) : seq[i] = e[1]
SearchInv(W, dag, I, r, st) ==
    /\ st \in SearchStates(W)
    /\ Range(st.found) \subseteq st.seen /\ Distinct(st.found) /\ After(dag, I, st.found)
    /\ \A w \in Open(st) :
          /\ w \in Range(st.stack)
          /\ \A x \in Above(st.stack, w) : Ordered(I, r, x, w)
          /\ w \notin I => \A e \in Range(dag) :
                e[2] = w => e[1] \in Range(st.found) \cup Above(st.stack, w)

(* What Ahead puts on the stack.                                           *)
LEMMA AheadIs ==
    ASSUME NEW W, NEW dag \in Seq(W \X W), NEW seen, NEW w
    PROVE  /\ Ahead(dag, seen, w) \in Seq(W)
           /\ \A v : v \in Range(Ahead(dag, seen, w)) <=>
                 \E e \in Range(dag) : e[2] = w /\ e[1] = v /\ v \notin seen
           /\ Len(Ahead(dag, seen, w))
                 = Cardinality({k \in DOMAIN dag : dag[k][2] = w /\ dag[k][1] \notin seen})
<1> DEFINE S == {k \in DOMAIN dag : dag[k][2] = w /\ dag[k][1] \notin seen}
           new == Increasing(S)
           n == Cardinality(S)
<1>1. Positions(dag, LAMBDA e : e[2] = w /\ e[1] \notin seen) = new
  BY DEF Positions
<1>2. DOMAIN dag = 1..Len(dag) /\ Len(dag) \in Nat /\ \A k \in DOMAIN dag : dag[k] \in W \X W
  OBVIOUS
<1>3. IsFiniteSet(S) /\ S \in SUBSET Int
  <2>1. IsFiniteSet(DOMAIN dag)
    <3>1. 1 \in Int /\ Len(dag) \in Int
      BY <1>2
    <3> QED
      BY <1>2, <3>1, FS_Interval
  <2>2. S \subseteq DOMAIN dag
    OBVIOUS
  <2> QED
    BY <1>2, <2>1, <2>2, FS_Subset
<1> HIDE DEF S
<1>4. /\ n \in Nat /\ new \in [1..n -> S] /\ \A x \in S : \E k \in 1..n : new[k] = x
  BY <1>3, IncreasingIs
<1>5. Ahead(dag, seen, w) = [k \in DOMAIN new |-> dag[new[k]][1]]
  BY <1>1 DEF Ahead
<1>6. DOMAIN new = 1..n
  BY <1>4
<1> HIDE DEF n, new
<1>7. \A k \in 1..n : new[k] \in S /\ dag[new[k]] \in W \X W
  BY <1>2, <1>4 DEF S
<1>8. Ahead(dag, seen, w) = [k \in 1..n |-> dag[new[k]][1]]
  BY <1>5, <1>6
<1>9. \A k \in 1..n : dag[new[k]][1] \in W
  BY <1>7
<1>10. Ahead(dag, seen, w) \in [1..n -> W]
  BY <1>8, <1>9
<1>11. Ahead(dag, seen, w) \in Seq(W) /\ Len(Ahead(dag, seen, w)) = n /\ DOMAIN Ahead(dag, seen, w) = 1..n
  BY <1>4, <1>10, FunctionIsSeq
<1>12. ASSUME NEW v
       PROVE  v \in Range(Ahead(dag, seen, w)) <=>
                 \E e \in Range(dag) : e[2] = w /\ e[1] = v /\ v \notin seen
  <2>1. ASSUME v \in Range(Ahead(dag, seen, w))
        PROVE  \E e \in Range(dag) : e[2] = w /\ e[1] = v /\ v \notin seen
    <3>1. PICK k \in 1..n : v = dag[new[k]][1]
      BY <1>8, <1>11, <2>1 DEF Range
    <3> QED
      BY <1>7, <3>1 DEF S, Range
  <2>2. ASSUME NEW e \in Range(dag), e[2] = w, e[1] = v, v \notin seen
        PROVE  v \in Range(Ahead(dag, seen, w))
    <3>1. PICK j \in DOMAIN dag : e = dag[j]
      BY DEF Range
    <3>2. j \in S
      BY <2>2, <3>1 DEF S
    <3>3. PICK k \in 1..n : new[k] = j
      BY <1>4, <3>2
    <3> QED
      BY <1>8, <1>11, <2>2, <3>1, <3>3 DEF Range
  <2> QED
    BY <2>1, <2>2
<1> QED
  BY <1>11, <1>12 DEF n, S

(* What is above a wire when the top is taken off, and when more is put on. *)
LEMMA AboveIs ==
    ASSUME NEW W, NEW seq \in Seq(W), NEW w
    PROVE  /\ w \notin Above(seq, w) /\ Above(seq, w) \subseteq Range(seq)
           /\ seq # <<>> /\ Head(seq) = w => Above(seq, w) = {}
           /\ seq # <<>> /\ Head(seq) # w =>
                 /\ Head(seq) \in Above(seq, w)
                 /\ Above(seq, w) \subseteq {Head(seq)} \cup Above(Tail(seq), w)
                 /\ Above(Tail(seq), w) \subseteq Above(seq, w)
           /\ \A new \in Seq(W) : w \notin Range(new) =>
                 Above(new \o seq, w) = Range(new) \cup Above(seq, w)
<1>1. DOMAIN seq = 1..Len(seq) /\ Len(seq) \in Nat
  OBVIOUS
<1>2. w \notin Above(seq, w) /\ Above(seq, w) \subseteq Range(seq)
  <2>1. \A i \in DOMAIN seq : i \in 1..i
    BY <1>1
  <2> QED
    BY <2>1 DEF Above, Range
<1>3. ASSUME seq # <<>>, Head(seq) = w
      PROVE  Above(seq, w) = {}
  <2>1. seq[1] = w /\ \A i \in DOMAIN seq : 1 \in 1..i
    BY <1>1, <1>3
  <2> QED
    BY <2>1 DEF Above
<1>4. ASSUME seq # <<>>, Head(seq) # w
      PROVE  /\ Head(seq) \in Above(seq, w)
             /\ Above(seq, w) \subseteq {Head(seq)} \cup Above(Tail(seq), w)
             /\ Above(Tail(seq), w) \subseteq Above(seq, w)
  <2>1. /\ seq[1] = Head(seq) /\ 1 \in DOMAIN seq /\ Len(Tail(seq)) = Len(seq) - 1
        /\ Tail(seq) \in Seq(W) /\ DOMAIN Tail(seq) = 1..(Len(seq) - 1)
        /\ \A i \in 1..(Len(seq) - 1) : Tail(seq)[i] = seq[i + 1]
    BY <1>1, <1>4
  <2>2. Head(seq) \in Above(seq, w)
    <3>1. \A j \in 1..1 : seq[j] # w
      BY <1>4, <2>1
    <3> QED
      BY <2>1, <3>1 DEF Above
  <2>3. ASSUME NEW i \in DOMAIN seq, \A j \in 1..i : seq[j] # w, i # 1
        PROVE  seq[i] \in Above(Tail(seq), w)
    <3>1. i - 1 \in DOMAIN Tail(seq) /\ Tail(seq)[i - 1] = seq[i]
      BY <1>1, <2>1, <2>3
    <3>2. ASSUME NEW j \in 1..(i - 1)
          PROVE  Tail(seq)[j] # w
      BY <1>1, <2>1, <2>3
    <3> QED
      BY <3>1, <3>2 DEF Above
  <2>4. ASSUME NEW i \in DOMAIN Tail(seq), \A j \in 1..i : Tail(seq)[j] # w
        PROVE  Tail(seq)[i] \in Above(seq, w)
    <3>1. i + 1 \in DOMAIN seq /\ Tail(seq)[i] = seq[i + 1]
      BY <1>1, <2>1
    <3>2. ASSUME NEW j \in 1..(i + 1)
          PROVE  seq[j] # w
      <4>1. CASE j = 1
        BY <1>4, <2>1, <4>1
      <4>2. CASE j # 1
        <5>1. j - 1 \in 1..i /\ j - 1 \in 1..(Len(seq) - 1) /\ (j - 1) + 1 = j
          BY <1>1, <2>1, <4>2
        <5> QED
          BY <2>1, <2>4, <5>1
      <4> QED
        BY <4>1, <4>2
    <3> QED
      BY <3>1, <3>2 DEF Above
  <2>5. Above(seq, w) \subseteq {Head(seq)} \cup Above(Tail(seq), w)
    BY <2>1, <2>3 DEF Above
  <2>6. Above(Tail(seq), w) \subseteq Above(seq, w)
    BY <2>4 DEF Above
  <2> QED
    BY <2>2, <2>5, <2>6
<1>5. ASSUME NEW new \in Seq(W), w \notin Range(new)
      PROVE  Above(new \o seq, w) = Range(new) \cup Above(seq, w)
  <2> DEFINE all == new \o seq
             n == Len(new)
  <2>1. /\ n \in Nat /\ DOMAIN new = 1..n /\ DOMAIN all = 1..(n + Len(seq))
        /\ \A i \in 1..n : all[i] = new[i]
        /\ \A i \in 1..Len(seq) : all[n + i] = seq[i]
    OBVIOUS
  <2> HIDE DEF all, n
  <2>2. ASSUME NEW i \in 1..n
        PROVE  all[i] \in Above(all, w) /\ new[i] # w
    <3>1. \A j \in 1..i : all[j] = new[j] /\ new[j] # w
      BY <1>5, <2>1 DEF Range
    <3>2. i \in DOMAIN all
      BY <1>1, <2>1
    <3>3. i \in 1..i
      BY <2>1
    <3> QED
      BY <3>1, <3>2, <3>3 DEF Above
  <2>3. ASSUME NEW i \in DOMAIN seq, \A j \in 1..i : seq[j] # w
        PROVE  seq[i] \in Above(all, w)
    <3>1. n + i \in DOMAIN all /\ all[n + i] = seq[i]
      BY <1>1, <2>1
    <3>2. ASSUME NEW j \in 1..(n + i)
          PROVE  all[j] # w
      <4>1. CASE j \in 1..n
        BY <2>1, <2>2, <4>1
      <4>2. CASE j \notin 1..n
        <5>1. j - n \in 1..i /\ j - n \in 1..Len(seq) /\ n + (j - n) = j
          BY <1>1, <2>1, <4>2
        <5> QED
          BY <2>1, <2>3, <5>1
      <4> QED
        BY <4>1, <4>2
    <3> QED
      BY <3>1, <3>2 DEF Above
  <2>4. ASSUME NEW i \in DOMAIN all, \A j \in 1..i : all[j] # w
        PROVE  all[i] \in Range(new) \cup Above(seq, w)
    <3>1. CASE i \in 1..n
      BY <2>1, <3>1 DEF Range
    <3>2. CASE i \notin 1..n
      <4>1. i - n \in DOMAIN seq /\ n + (i - n) = i
        BY <1>1, <2>1, <3>2
      <4>2. ASSUME NEW j \in 1..(i - n)
            PROVE  seq[j] # w
        <5>1. n + j \in 1..i /\ j \in 1..Len(seq)
          BY <1>1, <2>1, <4>1
        <5> QED
          BY <2>1, <2>4, <5>1
      <4> QED
        BY <1>1, <2>1, <4>1, <4>2 DEF Above
    <3> QED
      BY <3>1, <3>2
  <2>5. Range(new) \subseteq Above(all, w)
    BY <2>1, <2>2 DEF Range
  <2> QED
    BY <2>3, <2>4, <2>5 DEF Above, all
<1> QED
  BY <1>2, <1>3, <1>4, <1>5

(* Nothing lies above the wire on top of the stack.                        *)
LEMMA AboveTop ==
    ASSUME NEW W, NEW seq \in Seq(W), seq # <<>>, NEW w, w = Head(seq)
    PROVE  Above(seq, w) = {}
<1>1. Head(seq) = w
  OBVIOUS
<1> QED
  BY <1>1, AboveIs

(* Appending an element adds it, and nothing else, to a sequence.          *)
LEMMA RangeAppend ==
    ASSUME NEW S, NEW seq \in Seq(S), NEW e \in S
    PROVE  /\ Append(seq, e) \in Seq(S) /\ Range(Append(seq, e)) = Range(seq) \cup {e}
           /\ DOMAIN Append(seq, e) = 1..(Len(seq) + 1) /\ DOMAIN seq = 1..Len(seq) /\ Len(seq) \in Nat
<1> DEFINE new == Append(seq, e)
<1>1. /\ new \in Seq(S) /\ DOMAIN new = 1..(Len(seq) + 1) /\ Len(seq) \in Nat /\ DOMAIN seq = 1..Len(seq)
      /\ \A i \in 1..Len(seq) : new[i] = seq[i]
      /\ new[Len(seq) + 1] = e
  BY AppendIs
<1> HIDE DEF new
<1>2. Range(new) \subseteq Range(seq) \cup {e}
  <2> SUFFICES ASSUME NEW i \in DOMAIN new
               PROVE  new[i] \in Range(seq) \cup {e}
    BY DEF Range
  <2>1. CASE i = Len(seq) + 1
    BY <1>1, <2>1
  <2>2. CASE i # Len(seq) + 1
    <3>1. i \in 1..Len(seq)
      BY <1>1, <2>2
    <3> QED
      BY <1>1, <3>1 DEF Range
  <2> QED
    BY <2>1, <2>2
<1>3. Range(seq) \cup {e} \subseteq Range(new)
  <2>1. \A i \in 1..Len(seq) : i \in DOMAIN new
    BY <1>1
  <2>2. Len(seq) + 1 \in DOMAIN new
    BY <1>1
  <2> QED
    BY <1>1, <2>1, <2>2 DEF Range
<1> QED
  BY <1>1, <1>2, <1>3 DEF new

(* A step of the search: from an open stack, visit the wire on its top.    *)
Visits(W, dag, I, r, st, new) ==
    LET w == Head(st.stack)
    IN  /\ SearchInv(W, dag, I, r, new)
        /\ new.found = st.found /\ new.ends = st.ends
        /\ new.seen = st.seen \cup {w} /\ w \in W
        /\ new.stack = Ahead(dag, new.seen, w) \o st.stack
(* A step that visits the wire on top of the stack pushes what must come   *)
(* before it: the search's invariant holds, and nothing else was found.    *)
LEMMA VisitStep ==
    ASSUME NEW W, NEW dag, NEW I, NEW r, SearchGraph(W, dag, I, r),
           NEW st, SearchInv(W, dag, I, r, st), st.stack # <<>>, Head(st.stack) \notin st.seen
    PROVE  Visits(W, dag, I, r, st, SearchStep(dag, st))
<1> DEFINE w == Head(st.stack)
           seen == st.seen \cup {w}
           more == Ahead(dag, seen, w)
           stack1 == more \o st.stack
           new == SearchStep(dag, st)
<1>1. /\ st \in SearchStates(W) /\ st.stack \in Seq(W) /\ st.seen \subseteq W /\ st.found \in Seq(W)
      /\ st.ends \in Seq(Nat)
  BY DEF SearchInv, SearchStates
<1>2. w \in W /\ w \in Range(st.stack) /\ w \notin st.seen
  <2>1. w = st.stack[1] /\ 1 \in DOMAIN st.stack
    BY <1>1
  <2> QED
    BY <1>1, <2>1 DEF Range
<1>3. /\ more \in Seq(W)
      /\ \A v : v \in Range(more) <=> \E e \in Range(dag) : e[2] = w /\ e[1] = v /\ v \notin seen
  <2>1. dag \in Seq(W \X W)
    BY DEF SearchGraph
  <2> HIDE DEF w, seen
  <2> QED
    BY <2>1, AheadIs
<1>4. stack1 \in Seq(W) /\ Range(stack1) = Range(more) \cup Range(st.stack)
  <2> HIDE DEF more
  <2> QED
    BY <1>1, <1>3, RangeConcat
<1>5. /\ new \in SearchStates(W) /\ new.stack = stack1 /\ new.seen = seen /\ new.found = st.found
      /\ new.ends = st.ends
  <2>1. new = [st EXCEPT !.stack = more \o @, !.seen = seen]
    BY <1>2 DEF SearchStep
  <2>2. seen \subseteq W
    BY <1>1, <1>2
  <2> HIDE DEF new, more, w, seen
  <2> QED
    BY <1>1, <1>4, <2>1, <2>2 DEF SearchStates
<1> HIDE DEF new, more
<1>6. /\ Range(st.found) \subseteq seen /\ Distinct(st.found) /\ After(dag, I, st.found)
  BY DEF SearchInv
<1>7. \A v \in seen : v \notin Range(more)
  BY <1>3
<1>8. \A v \in seen : Above(stack1, v) = Range(more) \cup Above(st.stack, v)
  BY <1>1, <1>3, <1>7, AboveIs
<1>9. Above(st.stack, w) = {}
  BY <1>1, AboveTop
<1>10. \A e \in Range(dag) : Ordered(I, r, e[1], e[2]) /\ e[1] \in W /\ e[2] \in W
  BY DEF SearchGraph, Range
<1>11. \A v \in Open(st) : /\ v \in Range(st.stack)
                           /\ \A x \in Above(st.stack, v) : Ordered(I, r, x, v)
                           /\ v \notin I => \A e \in Range(dag) :
                                 e[2] = v => e[1] \in Range(st.found) \cup Above(st.stack, v)
  BY DEF SearchInv
<1>12. \A v \in Open(st) : v # w /\ w \in Above(st.stack, v) /\ v \in seen
  <2>1. \A v \in Open(st) : v # w /\ v \in st.seen
    BY <1>2 DEF Open
  <2> QED
    BY <1>1, <2>1, AboveIs
<1>13. I \subseteq W /\ r \in [W -> Nat]
  BY DEF SearchGraph
<1>14. ASSUME NEW v \in Open(st)
       PROVE  /\ v \in Range(stack1)
              /\ \A x \in Above(stack1, v) : Ordered(I, r, x, v)
              /\ v \notin I => \A e \in Range(dag) :
                    e[2] = v => e[1] \in Range(st.found) \cup Above(stack1, v)
  <2>1. v \in Range(stack1) /\ v \in W
    BY <1>1, <1>4, <1>11 DEF Open
  <2>2. Above(stack1, v) = Range(more) \cup Above(st.stack, v) /\ Ordered(I, r, w, v)
    BY <1>8, <1>11, <1>12
  <2>3. ASSUME NEW x \in Range(more)
        PROVE  Ordered(I, r, x, v)
    <3>1. Ordered(I, r, x, w) /\ x \in W
      BY <1>3, <1>10
    <3>2. r[x] \in Nat /\ r[w] \in Nat /\ r[v] \in Nat
      BY <1>2, <1>13, <2>1, <3>1
    <3> QED
      BY <2>2, <3>1, <3>2 DEF Ordered
  <2> QED
    BY <1>11, <2>1, <2>2, <2>3
<1>15. /\ w \in Range(stack1)
       /\ \A x \in Above(stack1, w) : Ordered(I, r, x, w)
       /\ w \notin I => \A e \in Range(dag) :
             e[2] = w => e[1] \in Range(st.found) \cup Above(stack1, w)
  <2>1. w \in Range(stack1) /\ Above(stack1, w) = Range(more)
    BY <1>2, <1>4, <1>8, <1>9
  <2>2. \A x \in Range(more) : Ordered(I, r, x, w)
    BY <1>3, <1>10
  <2>3. ASSUME w \notin I, NEW e \in Range(dag), e[2] = w
        PROVE  e[1] \in Range(st.found) \cup Range(more)
    <3>1. CASE e[1] \notin seen
      BY <1>3, <2>3, <3>1
    <3>2. CASE e[1] \in Open(st)
      <4>1. Ordered(I, r, w, e[1]) /\ Ordered(I, r, e[1], w)
        BY <1>10, <1>11, <1>12, <2>3, <3>2
      <4>2. r[w] \in Nat /\ r[e[1]] \in Nat
        BY <1>2, <1>10, <1>13
      <4> QED
        BY <2>3, <4>1, <4>2 DEF Ordered
    <3>3. CASE e[1] = w
      <4>1. Ordered(I, r, w, w) /\ r[w] \in Nat
        BY <1>2, <1>10, <1>13, <2>3, <3>3
      <4> QED
        BY <2>3, <4>1 DEF Ordered
    <3> QED
      BY <3>1, <3>2, <3>3 DEF Open
  <2> QED
    BY <2>1, <2>2, <2>3
<1>16. SearchInv(W, dag, I, r, new)
  <2>1. \A v \in Open(new) : v \in Open(st) \/ v = w
    BY <1>5 DEF Open
  <2> HIDE DEF w, seen, stack1
  <2> QED
    BY <1>5, <1>6, <1>14, <1>15, <2>1 DEF SearchInv
<1>17. new.stack = Ahead(dag, new.seen, w) \o st.stack
  BY <1>5 DEF more
<1>18. new.seen = st.seen \cup {w} /\ w \in W
  BY <1>2, <1>5
<1> QED
  BY <1>5, <1>16, <1>17, <1>18 DEF w, new, Visits

(* ... or take it off.                                                     *)
LEMMA LeaveStep ==
    ASSUME NEW W, NEW dag, NEW I, NEW r, SearchGraph(W, dag, I, r),
           NEW st, SearchInv(W, dag, I, r, st), st.stack # <<>>, Head(st.stack) \in st.seen
    PROVE  LET new == SearchStep(dag, st)
               w == Head(st.stack)
           IN  /\ SearchInv(W, dag, I, r, new)
               /\ new.seen = st.seen /\ new.ends = st.ends /\ new.stack = Tail(st.stack)
               /\ w \in W /\ w \in Range(new.found)
               /\ new.found \in {st.found, Append(st.found, w)}
<1> DEFINE w == Head(st.stack)
           found == IF w \in Range(st.found) THEN st.found ELSE Append(st.found, w)
           new == SearchStep(dag, st)
<1>1. /\ st \in SearchStates(W) /\ st.stack \in Seq(W) /\ st.seen \subseteq W /\ st.found \in Seq(W)
      /\ st.ends \in Seq(Nat)
  BY DEF SearchInv, SearchStates
<1>2. w \in W /\ w \in st.seen /\ Tail(st.stack) \in Seq(W)
  BY <1>1
<1>3. /\ found \in Seq(W) /\ Range(found) = Range(st.found) \cup {w}
      /\ DOMAIN st.found = 1..Len(st.found) /\ Len(st.found) \in Nat
  <2>1. CASE w \in Range(st.found)
    BY <1>1, <2>1
  <2>2. CASE w \notin Range(st.found)
    <3> HIDE DEF w
    <3> QED
      BY <1>1, <1>2, <2>2, RangeAppend
  <2> QED
    BY <2>1, <2>2
<1>4. /\ new \in SearchStates(W) /\ new.stack = Tail(st.stack) /\ new.seen = st.seen
      /\ new.found = found /\ new.ends = st.ends
  <2>1. new = [st EXCEPT !.stack = Tail(@), !.found = IF w \in Range(@) THEN @ ELSE Append(@, w)]
    BY <1>2 DEF SearchStep
  <2> HIDE DEF new, w
  <2> QED
    BY <1>1, <1>2, <1>3, <2>1 DEF SearchStates
<1>5. /\ Range(st.found) \subseteq st.seen /\ Distinct(st.found) /\ After(dag, I, st.found)
      /\ \A v \in Open(st) : /\ v \in Range(st.stack)
                             /\ \A x \in Above(st.stack, v) : Ordered(I, r, x, v)
                             /\ v \notin I => \A e \in Range(dag) :
                                   e[2] = v => e[1] \in Range(st.found) \cup Above(st.stack, v)
  BY DEF SearchInv
<1>6. Distinct(found)
  <2>1. CASE w \in Range(st.found)
    BY <1>5, <2>1
  <2>2. CASE w \notin Range(st.found)
    <3>1. \A i \in DOMAIN st.found : st.found[i] # w
      BY <2>2 DEF Range
    <3>2. found = Append(st.found, w)
      BY <2>2
    <3> HIDE DEF found, w
    <3>3. /\ DOMAIN found = 1..(Len(st.found) + 1)
          /\ found[Len(st.found) + 1] = w /\ \A i \in 1..Len(st.found) : found[i] = st.found[i]
      BY <1>1, <1>2, <3>2, AppendIs
    <3> QED
      BY <1>3, <1>5, <3>1, <3>3 DEF Distinct
  <2> QED
    BY <2>1, <2>2
<1>7. Above(st.stack, w) = {}
  BY <1>1, AboveTop
<1>8. After(dag, I, found)
  <2>1. CASE w \in Range(st.found)
    BY <1>5, <2>1
  <2>2. CASE w \notin Range(st.found)
    <3>1. w \in Open(st)
      BY <1>2, <2>2 DEF Open
    <3>2. w \notin I => \A e \in Range(dag) : e[2] = w => e[1] \in Range(st.found)
      BY <1>5, <1>7, <3>1
    <3>3. /\ found = Append(st.found, w) /\ DOMAIN found = 1..(Len(st.found) + 1)
          /\ found[Len(st.found) + 1] = w /\ \A i \in 1..Len(st.found) : found[i] = st.found[i]
      BY <1>1, <1>2, <2>2, AppendIs
    <3> SUFFICES ASSUME NEW j \in DOMAIN found, found[j] \notin I,
                        NEW e \in Range(dag), e[2] = found[j]
                 PROVE  \E i \in 1..(j - 1) : found[i] = e[1]
      BY DEF After
    <3> HIDE DEF found, w
    <3>4. CASE j = Len(st.found) + 1
      <4>1. PICK i \in DOMAIN st.found : st.found[i] = e[1]
        BY <3>2, <3>3, <3>4 DEF Range
      <4> QED
        BY <1>3, <3>3, <3>4, <4>1
    <3>5. CASE j # Len(st.found) + 1
      <4>1. j \in 1..Len(st.found) /\ found[j] = st.found[j]
        BY <1>3, <3>3, <3>5
      <4>2. PICK i \in 1..(j - 1) : st.found[i] = e[1]
        BY <1>3, <1>5, <4>1 DEF After
      <4> QED
        BY <1>3, <3>3, <4>1, <4>2
    <3> QED
      BY <3>4, <3>5
  <2> QED
    BY <2>1, <2>2
<1>9. ASSUME NEW v \in Open(st), v # w
      PROVE  /\ v \in Range(Tail(st.stack))
             /\ \A x \in Above(Tail(st.stack), v) : Ordered(I, r, x, v)
             /\ v \notin I => \A e \in Range(dag) :
                   e[2] = v => e[1] \in Range(found) \cup Above(Tail(st.stack), v)
  <2>1. /\ Above(st.stack, v) \subseteq {w} \cup Above(Tail(st.stack), v)
        /\ Above(Tail(st.stack), v) \subseteq Above(st.stack, v)
    BY <1>1, <1>9, AboveIs
  <2>2. v \in Range(Tail(st.stack))
    <3>1. PICK i \in DOMAIN st.stack : st.stack[i] = v
      BY <1>5 DEF Range
    <3>2. i # 1
      BY <1>1, <1>9, <3>1
    <3>3. i - 1 \in DOMAIN Tail(st.stack) /\ Tail(st.stack)[i - 1] = v
      BY <1>1, <3>1, <3>2
    <3> QED
      BY <3>3 DEF Range
  <2> HIDE DEF w, found
  <2> QED
    BY <1>3, <1>5, <2>1, <2>2
<1>10. \A v \in Open(new) : v \in Open(st) /\ v # w
  BY <1>3, <1>4 DEF Open
<1>11. SearchInv(W, dag, I, r, new)
  <2>1. Range(found) \subseteq st.seen
    BY <1>2, <1>3, <1>5
  <2> HIDE DEF w, found, new
  <2> QED
    BY <1>4, <1>6, <1>8, <1>9, <1>10, <2>1 DEF SearchInv
<1> QED
  BY <1>2, <1>3, <1>4, <1>11

(* What a search from a start has done: it keeps what was found, and only  *)
(* reaches what is in a set C closed under edges backwards.                *)
Extends(f, g, C) ==
    /\ Len(f) <= Len(g) /\ \A i \in 1..Len(f) : g[i] = f[i]
    /\ \A i \in (Len(f) + 1)..Len(g) : g[i] \in C
Searching(f, C, start, st) ==
    /\ Extends(f, st.found, C) /\ Range(st.stack) \subseteq C
    /\ start \in Range(st.found) \cup Range(st.stack)
Backwards(dag, C) == \A e \in Range(dag) : e[2] \in C => e[1] \in C

(* The steps left are bounded by what is on the stack, the wires that are  *)
(* not visited and the edges into them.                                    *)
EdgesLeft(dag, seen) == {k \in DOMAIN dag : dag[k][2] \notin seen}
StepsLeft(W, dag, st) ==
    Len(st.stack) + Cardinality(W \ st.seen) + Cardinality(EdgesLeft(dag, st.seen))

(* The wires and the edges that are not visited are finitely many.         *)
LEMMA StepsLeftIs ==
    ASSUME NEW W, NEW dag, NEW I, NEW r, SearchGraph(W, dag, I, r), NEW seen
    PROVE  /\ IsFiniteSet(DOMAIN dag) /\ Cardinality(DOMAIN dag) = Len(dag)
           /\ IsFiniteSet(W \ seen) /\ Cardinality(W \ seen) \in Nat
           /\ IsFiniteSet(EdgesLeft(dag, seen)) /\ Cardinality(EdgesLeft(dag, seen)) \in Nat
           /\ Cardinality(W \ seen) <= Cardinality(W) /\ Cardinality(W) \in Nat
           /\ Cardinality(EdgesLeft(dag, seen)) <= Len(dag) /\ Len(dag) \in Nat
<1>1. IsFiniteSet(W) /\ dag \in Seq(W \X W)
  BY DEF SearchGraph
<1>2. DOMAIN dag = 1..Len(dag) /\ Len(dag) \in Nat
  BY <1>1
<1>3. IsFiniteSet(DOMAIN dag) /\ Cardinality(DOMAIN dag) = Len(dag)
  <2>1. 1 \in Int /\ Len(dag) \in Int /\ (1 > Len(dag) => Len(dag) = 0) /\ Len(dag) - 1 + 1 = Len(dag)
    BY <1>2
  <2>2. IsFiniteSet(1..Len(dag)) /\ Cardinality(1..Len(dag)) = IF 1 > Len(dag) THEN 0 ELSE Len(dag) - 1 + 1
    BY <2>1, FS_Interval
  <2> QED
    BY <1>2, <2>1, <2>2
<1>4. IsFiniteSet(W \ seen) /\ Cardinality(W \ seen) <= Cardinality(W)
  BY <1>1, FS_Subset, W \ seen \subseteq W
<1>5. EdgesLeft(dag, seen) \subseteq DOMAIN dag
  BY DEF EdgesLeft
<1>6. IsFiniteSet(EdgesLeft(dag, seen)) /\ Cardinality(EdgesLeft(dag, seen)) <= Cardinality(DOMAIN dag)
  BY <1>3, <1>5, FS_Subset
<1> QED
  BY <1>1, <1>2, <1>3, <1>4, <1>6, FS_CardinalityType

(* The bound of the steps left is a number, and zero only for an empty     *)
(* stack.                                                                  *)
LEMMA StepsAreCounted ==
    ASSUME NEW W, NEW dag, NEW I, NEW r, SearchGraph(W, dag, I, r), NEW st, st.stack \in Seq(W)
    PROVE  /\ StepsLeft(W, dag, st) \in Nat
           /\ st.stack # <<>> => StepsLeft(W, dag, st) # 0
           /\ Cardinality(W) + Len(dag) + 1 \in Nat
<1>1. /\ Cardinality(W \ st.seen) \in Nat /\ Cardinality(EdgesLeft(dag, st.seen)) \in Nat
      /\ Cardinality(W) \in Nat /\ Len(dag) \in Nat
  BY StepsLeftIs
<1>2. Len(st.stack) \in Nat /\ (st.stack # <<>> => Len(st.stack) # 0)
  OBVIOUS
<1> QED
  BY <1>1, <1>2 DEF StepsLeft

(* Visiting a wire keeps what the search is doing and leaves fewer steps.  *)
LEMMA VisitProgress ==
    ASSUME NEW W, NEW dag, NEW I, NEW r, SearchGraph(W, dag, I, r),
           NEW st, SearchInv(W, dag, I, r, st), st.stack # <<>>, Head(st.stack) \notin st.seen,
           NEW f, NEW C, NEW start, Searching(f, C, start, st), Backwards(dag, C)
    PROVE  LET new == SearchStep(dag, st)
           IN  /\ SearchInv(W, dag, I, r, new) /\ new.ends = st.ends
               /\ Searching(f, C, start, new)
               /\ StepsLeft(W, dag, new) < StepsLeft(W, dag, st)
<1> DEFINE new == SearchStep(dag, st)
           w == Head(st.stack)
<1>1. /\ SearchInv(W, dag, I, r, new)
      /\ new.found = st.found /\ new.ends = st.ends
      /\ new.seen = st.seen \cup {w} /\ w \in W
      /\ new.stack = Ahead(dag, new.seen, w) \o st.stack
  <2>1. Visits(W, dag, I, r, st, new)
    BY VisitStep
  <2> HIDE DEF new
  <2> QED
    BY <2>1 DEF Visits
<1> DEFINE more == Ahead(dag, new.seen, w)
           into == {k \in DOMAIN dag : dag[k][2] = w /\ dag[k][1] \notin new.seen}
<1>2. st.stack \in Seq(W) /\ dag \in Seq(W \X W)
  BY DEF SearchGraph, SearchInv, SearchStates
<1> HIDE DEF new
<1>3. /\ more \in Seq(W)
      /\ \A v : v \in Range(more) => \E e \in Range(dag) : e[2] = w /\ e[1] = v
      /\ Len(more) = Cardinality(into)
  <2> DEFINE seen == new.seen
  <2> HIDE DEF w, seen
  <2>1. more = Ahead(dag, seen, w)
    BY DEF seen
  <2>2. into = {k \in DOMAIN dag : dag[k][2] = w /\ dag[k][1] \notin seen}
    BY DEF seen
  <2> HIDE DEF more, into
  <2>3. /\ more \in Seq(W)
        /\ Len(more) = Cardinality({k \in DOMAIN dag : dag[k][2] = w /\ dag[k][1] \notin seen})
    BY <1>2, <2>1, AheadIs
  <2>4. ASSUME NEW v \in Range(Ahead(dag, seen, w))
        PROVE  \E e \in Range(dag) : e[2] = w /\ e[1] = v
    <3>1. \E e \in Range(dag) : e[2] = w /\ e[1] = v /\ v \notin seen
      BY <1>2, AheadIs
    <3> QED
      BY <3>1
  <2> QED
    BY <2>1, <2>2, <2>3, <2>4
<1> HIDE DEF more
<1>4. /\ Range(new.stack) = Range(more) \cup Range(st.stack)
      /\ Len(new.stack) = Len(more) + Len(st.stack) /\ Len(more) \in Nat /\ Len(st.stack) \in Nat
  <2> DEFINE all == more \o st.stack
  <2> HIDE DEF w, into
  <2>1. all \in Seq(W) /\ Range(all) = Range(more) \cup Range(st.stack)
    BY <1>2, <1>3, RangeConcat
  <2>2. Len(all) = Len(more) + Len(st.stack) /\ Len(more) \in Nat /\ Len(st.stack) \in Nat
    <3> HIDE DEF into
    <3>1. more \in Seq(W) /\ st.stack \in Seq(W)
      BY <1>2, <1>3
    <3> HIDE DEF more
    <3> QED
      BY ONLY <3>1 DEF all
  <2>3. new.stack = all
    BY <1>1 DEF more
  <2> HIDE DEF all
  <2> QED
    BY <2>1, <2>2, <2>3
<1>5. w \in C
  <2>1. w = st.stack[1] /\ 1 \in DOMAIN st.stack
    BY <1>2
  <2> QED
    BY <2>1 DEF Searching, Range
<1>6. Range(more) \subseteq C
  <2> HIDE DEF w
  <2> QED
    BY <1>3, <1>5 DEF Backwards
<1>7. Searching(f, C, start, new)
  <2>1. Range(st.stack) \subseteq C
    BY DEF Searching
  <2>2. Range(new.stack) \subseteq C
    BY <1>4, <1>6, <2>1
  <2> HIDE DEF w
  <2> QED
    BY <1>1, <1>4, <2>2 DEF Searching
<1>8. Cardinality(W \ new.seen) < Cardinality(W \ st.seen)
  <2>1. IsFiniteSet(W \ st.seen) /\ w \in W \ st.seen /\ W \ new.seen = (W \ st.seen) \ {w}
    BY <1>1, StepsLeftIs
  <2> HIDE DEF w
  <2>2. Cardinality(W \ new.seen) = Cardinality(W \ st.seen) - 1
    BY <2>1, FS_RemoveElement
  <2> QED
    BY <2>1, <2>2, FS_CardinalityType
<1>9. /\ Cardinality(EdgesLeft(dag, new.seen)) + Cardinality(into) <= Cardinality(EdgesLeft(dag, st.seen))
      /\ Cardinality(into) \in Nat
  <2> DEFINE A == EdgesLeft(dag, st.seen)
             B == EdgesLeft(dag, new.seen)
  <2>1. IsFiniteSet(A) /\ IsFiniteSet(B)
    BY StepsLeftIs
  <2>2. into \subseteq A /\ B \subseteq A /\ into \cap B = {}
    BY <1>1 DEF EdgesLeft
  <2> HIDE DEF A, B, into
  <2>3. IsFiniteSet(into)
    BY <2>1, <2>2, FS_Subset
  <2>4. /\ IsFiniteSet(B \cup into)
        /\ Cardinality(B \cup into) = Cardinality(B) + Cardinality(into) - Cardinality(B \cap into)
    BY <2>1, <2>3, FS_Union
  <2>5. Cardinality(B \cap into) = 0
    BY <2>2, FS_EmptySet
  <2>6. Cardinality(B \cup into) <= Cardinality(A)
    BY <2>1, <2>2, FS_Subset
  <2>7. Cardinality(into) \in Nat /\ Cardinality(B) \in Nat
    BY <2>1, <2>3, FS_CardinalityType
  <2> QED
    BY <2>4, <2>5, <2>6, <2>7 DEF A, B
<1>10. StepsLeft(W, dag, new) < StepsLeft(W, dag, st)
  <2>1. /\ Cardinality(W \ new.seen) \in Nat /\ Cardinality(W \ st.seen) \in Nat
        /\ Cardinality(EdgesLeft(dag, new.seen)) \in Nat /\ Cardinality(EdgesLeft(dag, st.seen)) \in Nat
    BY StepsLeftIs
  <2> HIDE DEF w, into
  <2> QED
    BY <1>3, <1>4, <1>8, <1>9, <2>1 DEF StepsLeft
<1> QED
  BY <1>1, <1>7, <1>10 DEF new

(* Popping a wire that was visited, found first if it was not, keeps what  *)
(* the search is doing and leaves fewer steps.                             *)
LEMMA LeaveProgress ==
    ASSUME NEW W, NEW dag, NEW I, NEW r, SearchGraph(W, dag, I, r),
           NEW st, SearchInv(W, dag, I, r, st), st.stack # <<>>, Head(st.stack) \in st.seen,
           NEW f, f \in Seq(W), NEW C, NEW start, Searching(f, C, start, st), Backwards(dag, C)
    PROVE  LET new == SearchStep(dag, st)
           IN  /\ SearchInv(W, dag, I, r, new) /\ new.ends = st.ends
               /\ Searching(f, C, start, new)
               /\ StepsLeft(W, dag, new) < StepsLeft(W, dag, st)
<1> DEFINE new == SearchStep(dag, st)
           w == Head(st.stack)
<1>1. /\ SearchInv(W, dag, I, r, new)
      /\ new.seen = st.seen /\ new.ends = st.ends /\ new.stack = Tail(st.stack)
      /\ w \in W /\ w \in Range(new.found)
      /\ new.found \in {st.found, Append(st.found, w)}
  BY LeaveStep
<1>2. st.stack \in Seq(W) /\ st.found \in Seq(W)
  BY DEF SearchInv, SearchStates
<1> HIDE DEF new
<1>3. /\ Len(new.stack) = Len(st.stack) - 1 /\ Len(st.stack) \in Nat
      /\ Range(st.stack) = {w} \cup Range(new.stack)
  <2>1. /\ Len(Tail(st.stack)) = Len(st.stack) - 1 /\ Len(st.stack) \in Nat
        /\ DOMAIN st.stack = 1..Len(st.stack) /\ DOMAIN Tail(st.stack) = 1..(Len(st.stack) - 1)
        /\ \A i \in 1..(Len(st.stack) - 1) : Tail(st.stack)[i] = st.stack[i + 1]
        /\ 1 \in DOMAIN st.stack /\ st.stack[1] = w
    BY <1>2
  <2>2. ASSUME NEW i \in DOMAIN st.stack
        PROVE  st.stack[i] \in {w} \cup Range(new.stack)
    <3>1. CASE i = 1
      BY <2>1, <3>1
    <3>2. CASE i # 1
      <4>1. i - 1 \in 1..(Len(st.stack) - 1) /\ (i - 1) + 1 = i
        BY <2>1, <3>2
      <4> HIDE DEF w
      <4> QED
        BY <1>1, <2>1, <4>1 DEF Range
    <3> QED
      BY <3>1, <3>2
  <2>3. \A i \in 1..(Len(st.stack) - 1) : i + 1 \in DOMAIN st.stack
    BY <2>1
  <2> HIDE DEF w
  <2> QED
    BY <1>1, <2>1, <2>2, <2>3 DEF Range
<1>4. w \in C
  BY <1>3 DEF Searching
<1> HIDE DEF w
<1>5. Extends(f, new.found, C)
  <2>1. CASE new.found = st.found
    BY <2>1 DEF Searching
  <2>2. CASE new.found = Append(st.found, w)
    <3>1. /\ Len(new.found) = Len(st.found) + 1 /\ Len(st.found) \in Nat
          /\ \A i \in 1..Len(st.found) : new.found[i] = st.found[i]
          /\ new.found[Len(st.found) + 1] = w
      BY <1>1, <1>2, <2>2, AppendIs
    <3>2. Len(f) \in Nat /\ Extends(f, st.found, C)
      BY DEF Searching
    <3>3. ASSUME NEW i \in (Len(f) + 1)..Len(new.found)
          PROVE  new.found[i] \in C
      <4>1. CASE i = Len(st.found) + 1
        BY <1>4, <3>1, <4>1
      <4>2. CASE i # Len(st.found) + 1
        <5>1. i \in (Len(f) + 1)..Len(st.found) /\ i \in 1..Len(st.found)
          BY <3>1, <3>2, <4>2
        <5> QED
          BY <3>1, <3>2, <5>1 DEF Extends
      <4> QED
        BY <4>1, <4>2
    <3>4. \A i \in 1..Len(f) : i \in 1..Len(st.found)
      BY <3>1, <3>2 DEF Extends
    <3>5. Len(f) <= Len(new.found)
      BY <3>1, <3>2 DEF Extends
    <3> QED
      BY <3>1, <3>2, <3>3, <3>4, <3>5 DEF Extends
  <2> QED
    BY <1>1, <2>1, <2>2
<1>6. Range(st.found) \subseteq Range(new.found)
  <2>1. CASE new.found = Append(st.found, w)
    BY <1>1, <1>2, <2>1, RangeAppend
  <2> QED
    BY <1>1, <2>1
<1>7. Searching(f, C, start, new)
  BY <1>1, <1>3, <1>5, <1>6 DEF Searching
<1>8. StepsLeft(W, dag, new) < StepsLeft(W, dag, st)
  <2>1. /\ Cardinality(W \ st.seen) \in Nat /\ Cardinality(EdgesLeft(dag, st.seen)) \in Nat
    BY StepsLeftIs
  <2> QED
    BY <1>1, <1>3, <2>1 DEF StepsLeft
<1> QED
  BY <1>1, <1>7, <1>8 DEF new

(* A step of the search gives a state of the search.                       *)
LEMMA SearchStepTyped ==
    ASSUME NEW W, NEW dag \in Seq(W \X W), NEW st \in SearchStates(W)
    PROVE  SearchStep(dag, st) \in SearchStates(W)
<1> DEFINE w == Head(st.stack)
           new == SearchStep(dag, st)
<1>1. st.stack \in Seq(W) /\ st.seen \subseteq W /\ st.found \in Seq(W) /\ st.ends \in Seq(Nat)
  BY DEF SearchStates
<1>2. CASE st.stack = <<>>
  BY <1>2 DEF SearchStep
<1>3. ASSUME st.stack # <<>>, w \notin st.seen
      PROVE  new \in SearchStates(W)
  <2> DEFINE seen == st.seen \cup {w}
             all == Ahead(dag, seen, w) \o st.stack
  <2>1. w \in W
    BY <1>1, <1>3
  <2>2. new = [st EXCEPT !.stack = all, !.seen = seen]
    BY <1>3 DEF SearchStep
  <2> HIDE DEF w
  <2>3. seen \subseteq W
    BY <1>1, <2>1
  <2> HIDE DEF seen
  <2>4. Ahead(dag, seen, w) \in Seq(W)
    BY AheadIs
  <2>5. all \in Seq(W)
    BY <1>1, <2>4, RangeConcat
  <2> HIDE DEF all, new
  <2> QED
    BY <1>1, <2>2, <2>3, <2>5 DEF SearchStates
<1>4. ASSUME st.stack # <<>>, w \in st.seen
      PROVE  new \in SearchStates(W)
  <2> DEFINE found == IF w \in Range(st.found) THEN st.found ELSE Append(st.found, w)
  <2>1. new = [st EXCEPT !.stack = Tail(@), !.found = found]
    BY <1>4 DEF SearchStep
  <2>2. Tail(st.stack) \in Seq(W)
    BY <1>1, <1>4
  <2>3. found \in Seq(W)
    <3>1. w \in W
      BY <1>1, <1>4
    <3> HIDE DEF w
    <3> QED
      BY <1>1, <3>1, AppendIs
  <2> HIDE DEF found, new
  <2> QED
    BY <1>1, <2>1, <2>2, <2>3 DEF SearchStates
<1> QED
  BY <1>2, <1>3, <1>4

(* The steps of a search.                                                  *)
Running1(dag, first) ==
    CHOOSE run : run = [k \in Nat |-> IF k = 0 THEN first ELSE SearchStep(dag, run[k - 1])]
(* A search is as many steps as may be needed, from a stack that holds the *)
(* wire it starts at.                                                      *)
LEMMA RunIs ==
    ASSUME NEW W, NEW dag \in Seq(W \X W), NEW st \in SearchStates(W), NEW start \in W,
           start \notin st.seen
    PROVE  LET first == [st EXCEPT !.stack = <<start>>]
               run == Running1(dag, first)
           IN  /\ Search(dag, W, st, start) = run[Cardinality(W) + Len(dag) + 1]
               /\ first \in SearchStates(W)
               /\ run[0] = first
               /\ \A k \in Nat : k # 0 => run[k] = SearchStep(dag, run[k - 1])
<1> DEFINE first == [st EXCEPT !.stack = <<start>>]
           run == Running1(dag, first)
           Solves(f) == f = [k \in Nat |-> IF k = 0 THEN first ELSE SearchStep(dag, f[k - 1])]
           A == SearchStates(W)
           step == [x \in Nat \X A |-> SearchStep(dag, x[2])]
<1>1. first \in A
  <2>1. <<start>> \in Seq(W)
    OBVIOUS
  <2> QED
    BY <2>1 DEF SearchStates
<1> HIDE DEF first
<1>2. step \in [Nat \X A -> A]
  BY SearchStepTyped
<1> HIDE DEF step
<1>3. PICK f : Recurses(f, A, first, step)
  <2> HIDE DEF A
  <2> QED
    BY <1>1, <1>2, RecursionSolved
<1>4. /\ f = [k \in Nat |-> f[k]] /\ f[0] = first
      /\ \A k \in Nat : k # 0 => f[k] = step[<<k, f[k - 1]>>] /\ f[k - 1] \in A
  BY <1>3 DEF Recurses
<1>5. \A k \in Nat : k # 0 => f[k] = SearchStep(dag, f[k - 1])
  <2> SUFFICES ASSUME NEW k \in Nat, k # 0
               PROVE  f[k] = SearchStep(dag, f[k - 1])
    OBVIOUS
  <2>1. f[k] = step[<<k, f[k - 1]>>] /\ <<k, f[k - 1]>> \in Nat \X A
    BY <1>4
  <2> QED
    BY <2>1 DEF step
<1>6. \A k \in Nat : f[k] = IF k = 0 THEN first ELSE SearchStep(dag, f[k - 1])
  BY <1>4, <1>5
<1>7. Solves(f)
  BY <1>4, <1>6
<1>8. Solves(run)
  <2>1. Solves(CHOOSE g : Solves(g))
    BY <1>7
  <2> QED
    BY <2>1 DEF Running1
<1>9. Search(dag, W, st, start) = run[Cardinality(W) + Len(dag) + 1]
  BY DEF Search, Running1, first
<1>10. run[0] = first
  BY <1>8
<1>11. \A k \in Nat : k # 0 => run[k] = SearchStep(dag, run[k - 1])
  BY <1>8
<1> QED
  BY <1>1, <1>9, <1>10, <1>11 DEF first

(* Between two searches, nothing is on the stack.                          *)
Settled(W, dag, I, r, st) == SearchInv(W, dag, I, r, st) /\ st.stack = <<>>

(* Between two searches, the wires visited are those found, in order.      *)
LEMMA SettledIs ==
    ASSUME NEW W, NEW dag, NEW I, NEW r, NEW st, Settled(W, dag, I, r, st)
    PROVE  /\ st \in SearchStates(W) /\ st.seen = Range(st.found) /\ st.seen \subseteq W
           /\ Distinct(st.found) /\ After(dag, I, st.found)
<1>1. Range(st.stack) = {}
  BY DEF Settled, Range
<1>2. Open(st) = {}
  BY <1>1 DEF Settled, SearchInv
<1> QED
  BY <1>2 DEF Settled, SearchInv, SearchStates, Open

(* A search starts with the invariant and with steps enough.               *)
LEMMA SearchStarts ==
    ASSUME NEW W, NEW dag, NEW I, NEW r, SearchGraph(W, dag, I, r),
           NEW st, Settled(W, dag, I, r, st), NEW start \in W, NEW C, start \in C
    PROVE  LET first == [st EXCEPT !.stack = <<start>>]
           IN  /\ SearchInv(W, dag, I, r, first) /\ first.ends = st.ends
               /\ Searching(st.found, C, start, first)
               /\ StepsLeft(W, dag, first) <= Cardinality(W) + Len(dag) + 1
<1> DEFINE first == [st EXCEPT !.stack = <<start>>]
<1>1. /\ st \in SearchStates(W) /\ st.seen = Range(st.found)
      /\ Distinct(st.found) /\ After(dag, I, st.found)
  BY SettledIs
<1>2. <<start>> \in Seq(W) /\ Range(<<start>>) = {start} /\ Len(<<start>>) = 1
  BY DEF Range
<1>3. /\ first \in SearchStates(W) /\ first.stack = <<start>> /\ first.seen = st.seen
      /\ first.found = st.found /\ first.ends = st.ends
  BY <1>1, <1>2 DEF SearchStates
<1> HIDE DEF first
<1>4. Open(first) = {}
  BY <1>1, <1>3 DEF Open
<1>5. SearchInv(W, dag, I, r, first)
  BY <1>1, <1>3, <1>4 DEF SearchInv
<1>6. Searching(st.found, C, start, first)
  <2>1. Len(st.found) \in Nat
    BY <1>1 DEF SearchStates
  <2>2. Extends(st.found, first.found, C)
    BY <1>3, <2>1 DEF Extends
  <2> QED
    BY <1>2, <1>3, <2>2 DEF Searching
<1>7. StepsLeft(W, dag, first) <= Cardinality(W) + Len(dag) + 1
  <2>1. /\ Cardinality(W \ first.seen) \in Nat /\ Cardinality(EdgesLeft(dag, first.seen)) \in Nat
        /\ Cardinality(W \ first.seen) <= Cardinality(W) /\ Cardinality(W) \in Nat
        /\ Cardinality(EdgesLeft(dag, first.seen)) <= Len(dag) /\ Len(dag) \in Nat
    BY StepsLeftIs
  <2>2. Len(first.stack) = 1
    BY <1>2, <1>3
  <2> QED
    BY <2>1, <2>2 DEF StepsLeft
<1> QED
  BY <1>3, <1>5, <1>6, <1>7 DEF first

(* The search from a start finds it, after all that comes before it.       *)
LEMMA SearchIs ==
    ASSUME NEW W, NEW dag, NEW I, NEW r, SearchGraph(W, dag, I, r),
           NEW st, Settled(W, dag, I, r, st), NEW start \in W,
           NEW C, start \in C, Backwards(dag, C)
    PROVE  LET new == Search(dag, W, st, start)
           IN  /\ Settled(W, dag, I, r, new) /\ new.ends = st.ends
               /\ Extends(st.found, new.found, C) /\ start \in Range(new.found)
<1> DEFINE first == [st EXCEPT !.stack = <<start>>]
           run == Running1(dag, first)
           n == Cardinality(W) + Len(dag) + 1
           Good(s, k) == /\ SearchInv(W, dag, I, r, s) /\ s.ends = st.ends
                         /\ Searching(st.found, C, start, s)
                         /\ s.stack # <<>> => StepsLeft(W, dag, s) + k <= n
           Bad == {k \in Nat : ~Good(run[k], k)}
<1>1. /\ dag \in Seq(W \X W) /\ st \in SearchStates(W) /\ st.found \in Seq(W)
  BY DEF SearchGraph, Settled, SearchInv, SearchStates
<1>a. CASE start \in st.seen
  <2>1. Search(dag, W, st, start) = st
    BY <1>a DEF Search
  <2>2. start \in Range(st.found)
    BY <1>a, SettledIs
  <2>3. Extends(st.found, st.found, C)
    <3>1. Len(st.found) \in Nat
      BY <1>1
    <3> QED
      BY <3>1 DEF Extends
  <2> QED
    BY <2>1, <2>2, <2>3
<1>b. SUFFICES ASSUME start \notin st.seen
               PROVE  LET new == Search(dag, W, st, start)
                      IN  /\ Settled(W, dag, I, r, new) /\ new.ends = st.ends
                          /\ Extends(st.found, new.found, C) /\ start \in Range(new.found)
  BY <1>a
<1>2. /\ Search(dag, W, st, start) = run[n] /\ run[0] = first
      /\ \A k \in Nat : k # 0 => run[k] = SearchStep(dag, run[k - 1])
  BY <1>1, <1>b, RunIs
<1>3. n \in Nat
  <2>1. st.stack \in Seq(W)
    BY <1>1 DEF SearchStates
  <2> QED
    BY <2>1, StepsAreCounted
<1>4. Good(run[0], 0)
  <2>1. /\ SearchInv(W, dag, I, r, first) /\ first.ends = st.ends
        /\ Searching(st.found, C, start, first) /\ StepsLeft(W, dag, first) <= n
    BY SearchStarts
  <2>2. StepsLeft(W, dag, first) + 0 = StepsLeft(W, dag, first)
    <3>1. StepsLeft(W, dag, first) \in Int
      <4>1. first.stack \in Seq(W)
        <5>1. first.stack = <<start>> /\ <<start>> \in Seq(W)
          BY <1>1 DEF SearchStates
        <5> QED
          BY <5>1
      <4> HIDE DEF first
      <4> QED
        BY <4>1, StepsAreCounted
    <3> QED
      BY <3>1
  <2> QED
    BY <1>2, <2>1, <2>2
<1> HIDE DEF run, first, n
<1>5. ASSUME NEW k \in Nat, NEW s, Good(s, k)
      PROVE  Good(SearchStep(dag, s), k + 1)
  <2> DEFINE new == SearchStep(dag, s)
  <2>1. CASE s.stack = <<>>
    <3>1. new = s
      BY <2>1 DEF SearchStep
    <3> QED
      BY <1>5, <2>1, <3>1
  <2>2. CASE s.stack # <<>>
    <3>1. /\ SearchInv(W, dag, I, r, new) /\ new.ends = s.ends
          /\ Searching(st.found, C, start, new)
          /\ StepsLeft(W, dag, new) < StepsLeft(W, dag, s)
      <4>1. CASE Head(s.stack) \notin s.seen
        BY <1>5, <2>2, <4>1, VisitProgress
      <4>2. CASE Head(s.stack) \in s.seen
        BY <1>1, <1>5, <2>2, <4>2, LeaveProgress
      <4> QED
        BY <4>1, <4>2
    <3>2. StepsLeft(W, dag, new) \in Int /\ StepsLeft(W, dag, s) \in Int
      <4>1. new.stack \in Seq(W) /\ s.stack \in Seq(W)
        BY <1>5, <3>1 DEF SearchInv, SearchStates
      <4> HIDE DEF new
      <4> QED
        BY <4>1, StepsAreCounted
    <3>3. StepsLeft(W, dag, new) + (k + 1) <= n
      <4> HIDE DEF new
      <4>1. StepsLeft(W, dag, s) + k <= n
        BY <1>5, <2>2
      <4> QED
        BY <1>3, <3>1, <3>2, <4>1
    <3> QED
      BY <1>5, <3>1, <3>3
  <2> QED
    BY <2>1, <2>2
<1> HIDE DEF Good
<1>6. Bad = {}
  <2> SUFFICES ASSUME Bad # {}
               PROVE  FALSE
    OBVIOUS
  <2>1. PICK k \in Bad : \A j \in Bad : k <= j
    <3>1. Bad \subseteq Nat
      OBVIOUS
    <3> HIDE DEF Bad
    <3> QED
      BY <3>1, LeastIndex
  <2>2. k \in Nat /\ k # 0 /\ ~Good(run[k], k)
    BY <1>4, <2>1
  <2>3. k - 1 \in Nat /\ k - 1 \notin Bad /\ (k - 1) + 1 = k
    BY <2>1, <2>2
  <2>4. Good(run[k - 1], k - 1)
    BY <2>3
  <2> HIDE DEF Bad
  <2> QED
    BY <1>2, <1>5, <2>2, <2>3, <2>4
<1>7. Good(run[n], n)
  BY <1>3, <1>6
<1>8. run[n].stack = <<>>
  <2> SUFFICES ASSUME run[n].stack # <<>>
               PROVE  FALSE
    OBVIOUS
  <2>1. StepsLeft(W, dag, run[n]) + n <= n
    BY <1>7 DEF Good
  <2>2. run[n].stack \in Seq(W)
    BY <1>7 DEF Good, SearchInv, SearchStates
  <2>4. StepsLeft(W, dag, run[n]) \in Nat /\ StepsLeft(W, dag, run[n]) # 0
    BY <2>2, StepsAreCounted
  <2> QED
    BY <1>3, <2>1, <2>4
<1>9. Range(run[n].stack) = {}
  BY <1>8 DEF Range
<1> QED
  BY <1>2, <1>7, <1>8, <1>9 DEF Good, Settled, Searching

(* A recursion over the numbers up to n.                                   *)
RecursesUpTo(f, A, a, n, step) ==
    /\ f = [k \in 0..n |-> f[k]] /\ f \in [0..n -> A] /\ f[0] = a
    /\ \A k \in 1..n : f[k] = step[<<k, f[k - 1]>>]
(* A recursion over the numbers up to n has a solution.                    *)
LEMMA RecursionUpTo ==
    ASSUME NEW A, NEW a \in A, NEW n \in Nat, NEW step \in [(1..n) \X A -> A]
    PROVE  \E f : RecursesUpTo(f, A, a, n, step)
<1> DEFINE all == [x \in Nat \X A |-> IF x[1] \in 1..n THEN step[x] ELSE x[2]]
<1>1. all \in [Nat \X A -> A]
  <2> SUFFICES ASSUME NEW x \in Nat \X A
               PROVE  (IF x[1] \in 1..n THEN step[x] ELSE x[2]) \in A
    OBVIOUS
  <2>1. x[1] \in 1..n => x \in (1..n) \X A
    OBVIOUS
  <2> QED
    BY <2>1
<1>2. PICK g : Recurses(g, A, a, all)
  <2> HIDE DEF all
  <2> QED
    BY <1>1, RecursionSolved
<1> DEFINE f == [k \in 0..n |-> g[k]]
<1>3. /\ g \in [Nat -> A] /\ g[0] = a
      /\ \A k \in Nat : k # 0 => g[k] = all[<<k, g[k - 1]>>] /\ <<k, g[k - 1]>> \in Nat \X A
  BY <1>2 DEF Recurses
<1>4. f \in [0..n -> A] /\ f[0] = a /\ f = [k \in 0..n |-> f[k]]
  BY <1>3
<1>5. ASSUME NEW k \in 1..n
      PROVE  f[k] = step[<<k, f[k - 1]>>]
  <2>1. k \in Nat /\ k # 0 /\ k \in 0..n /\ k - 1 \in 0..n
    OBVIOUS
  <2>2. g[k] = all[<<k, g[k - 1]>>] /\ <<k, g[k - 1]>> \in Nat \X A
    BY <1>3, <2>1
  <2>3. all[<<k, g[k - 1]>>] = step[<<k, g[k - 1]>>]
    BY <2>2
  <2> QED
    BY <2>1, <2>2, <2>3
<1> HIDE DEF f
<1> QED
  BY <1>4, <1>5 DEF RecursesUpTo

(* What the searches from the first k of the starts have found.            *)
FoundFrom(dag, st, start, from, to) ==
    /\ from <= to /\ to <= Len(st.found)
    /\ \E j \in 1..to : st.found[j] = start
    /\ \A C : start \in C /\ Backwards(dag, C) => \A j \in (from + 1)..to : st.found[j] \in C
SearchesInv(W, dag, I, r, starts, st, k) ==
    /\ Settled(W, dag, I, r, st)
    /\ st.ends \in [1..(k + 1) -> Nat] /\ st.ends[1] = 0 /\ st.ends[k + 1] = Len(st.found)
    /\ \A i \in 1..k : FoundFrom(dag, st, starts[i], st.ends[i], st.ends[i + 1])

NextSearch(dag, W, st, start) ==
    LET s == Search(dag, W, st, start) IN [s EXCEPT !.ends = Append(@, Len(s.found))]
NoSearch == [stack |-> <<>>, seen |-> {}, found |-> <<>>, ends |-> <<0>>]

(* A search from a wire ends with an empty stack: it has found that wire   *)
(* and only wires it depends on, after those found before.                 *)
LEMMA NextSettled ==
    ASSUME NEW W, NEW dag, NEW I, NEW r, SearchGraph(W, dag, I, r),
           NEW st, Settled(W, dag, I, r, st), NEW start \in W
    PROVE  LET new == NextSearch(dag, W, st, start)
           IN  /\ Settled(W, dag, I, r, new) /\ new.ends = Append(st.ends, Len(new.found))
               /\ Len(st.found) \in Nat /\ Len(new.found) \in Nat /\ st.ends \in Seq(Nat)
               /\ start \in Range(new.found) /\ new.found \in Seq(W)
               /\ \A C : start \in C /\ Backwards(dag, C) => Extends(st.found, new.found, C)
               /\ Extends(st.found, new.found, W)
<1> DEFINE s == Search(dag, W, st, start)
           new == NextSearch(dag, W, st, start)
<1>1. Backwards(dag, W)
  BY DEF Backwards, SearchGraph, Range
<1>2. /\ Settled(W, dag, I, r, s) /\ s.ends = st.ends
      /\ Extends(st.found, s.found, W) /\ start \in Range(s.found)
  BY <1>1, SearchIs
<1>3. ASSUME NEW C, start \in C, Backwards(dag, C)
      PROVE  Extends(st.found, s.found, C)
  BY <1>3, SearchIs
<1>4. new = [s EXCEPT !.ends = Append(@, Len(s.found))]
  BY DEF NextSearch
<1> HIDE DEF s, new
<1>5. /\ s \in SearchStates(W) /\ s.found \in Seq(W) /\ s.ends \in Seq(Nat)
      /\ st.found \in Seq(W)
  BY <1>2 DEF Settled, SearchInv, SearchStates
<1>6. Len(s.found) \in Nat /\ Len(st.found) \in Nat /\ Append(s.ends, Len(s.found)) \in Seq(Nat)
  BY <1>5
<1>7. /\ new \in SearchStates(W) /\ new.stack = s.stack /\ new.seen = s.seen
      /\ new.found = s.found /\ new.ends = Append(s.ends, Len(s.found))
  BY <1>4, <1>5, <1>6 DEF SearchStates
<1>8. Settled(W, dag, I, r, new)
  <2>1. Open(new) = Open(s)
    BY <1>7 DEF Open
  <2> QED
    BY <1>2, <1>7, <2>1 DEF Settled, SearchInv
<1> QED
  BY <1>2, <1>3, <1>5, <1>6, <1>7, <1>8 DEF new

(* Before the first search nothing is found.                               *)
LEMMA NoneSettled ==
    ASSUME NEW W, NEW dag, NEW I, NEW r, NEW starts
    PROVE  SearchesInv(W, dag, I, r, starts, NoSearch, 0)
<1> DEFINE none == <<>>
           ends == <<0>>
<1>1. /\ none \in Seq(W) /\ Range(none) = {} /\ DOMAIN none = {} /\ Len(none) = 0
      /\ ends \in Seq(Nat) /\ ends \in [1..1 -> Nat] /\ ends[1] = 0 /\ 0 + 1 = 1 /\ 1..0 = {}
  BY DEF Range
<1>2. /\ NoSearch.stack = none /\ NoSearch.seen = {} /\ NoSearch.found = none
      /\ NoSearch.ends = ends /\ NoSearch = [stack |-> none, seen |-> {}, found |-> none, ends |-> ends]
  BY DEF NoSearch
<1> HIDE DEF none, ends
<1>3. NoSearch \in SearchStates(W)
  BY <1>1, <1>2 DEF SearchStates
<1>4. Open(NoSearch) = {}
  BY <1>2 DEF Open
<1>5. Distinct(none) /\ After(dag, I, none)
  BY <1>1 DEF Distinct, After
<1>6. SearchInv(W, dag, I, r, NoSearch)
  BY <1>1, <1>2, <1>3, <1>4, <1>5 DEF SearchInv
<1>7. Settled(W, dag, I, r, NoSearch)
  BY <1>2, <1>6 DEF Settled, none
<1> QED
  BY <1>1, <1>2, <1>7 DEF SearchesInv

(* One search more keeps what the searches before it found.                *)
LEMMA NextSearches ==
    ASSUME NEW W, NEW dag, NEW I, NEW r, SearchGraph(W, dag, I, r), NEW starts,
           NEW k \in Nat, NEW st, SearchesInv(W, dag, I, r, starts, st, k), starts[k + 1] \in W
    PROVE  SearchesInv(W, dag, I, r, starts, NextSearch(dag, W, st, starts[k + 1]), k + 1)
<1> DEFINE start == starts[k + 1]
           new == NextSearch(dag, W, st, start)
<1>1. /\ Settled(W, dag, I, r, st) /\ st.ends \in [1..(k + 1) -> Nat]
      /\ st.ends[1] = 0 /\ st.ends[k + 1] = Len(st.found)
      /\ \A i \in 1..k : FoundFrom(dag, st, starts[i], st.ends[i], st.ends[i + 1])
  BY DEF SearchesInv
<1>2. /\ Settled(W, dag, I, r, new) /\ new.ends = Append(st.ends, Len(new.found))
      /\ Len(st.found) \in Nat /\ Len(new.found) \in Nat /\ st.ends \in Seq(Nat)
      /\ start \in Range(new.found) /\ new.found \in Seq(W)
      /\ Extends(st.found, new.found, W)
  <2>1. start \in W /\ Settled(W, dag, I, r, st)
    BY <1>1
  <2> QED
    BY <2>1, NextSettled
<1>3. \A C : start \in C /\ Backwards(dag, C) => Extends(st.found, new.found, C)
  BY <1>1, NextSettled
<1> HIDE DEF new
<1>4. /\ new.ends \in [1..(k + 2) -> Nat] /\ new.ends[k + 2] = Len(new.found)
      /\ \A i \in 1..(k + 1) : new.ends[i] = st.ends[i]
  <2>1. Len(st.ends) = k + 1
    BY <1>1, <1>2
  <2>2. /\ Append(st.ends, Len(new.found)) \in Seq(Nat)
        /\ Len(Append(st.ends, Len(new.found))) = k + 2
        /\ \A i \in 1..(k + 1) : Append(st.ends, Len(new.found))[i] = st.ends[i]
        /\ Append(st.ends, Len(new.found))[k + 2] = Len(new.found)
    BY <1>2, <2>1, AppendIs
  <2>3. new.ends \in Seq(Nat) /\ Len(new.ends) = k + 2
    BY <1>2, <2>2
  <2>4. new.ends \in [1..(k + 2) -> Nat]
    BY <2>3
  <2> QED
    BY <1>2, <2>2, <2>4
<1>5. ASSUME NEW i \in 1..k
      PROVE  FoundFrom(dag, new, starts[i], new.ends[i], new.ends[i + 1])
  <2>1. FoundFrom(dag, st, starts[i], st.ends[i], st.ends[i + 1])
    BY <1>1
  <2>2. /\ new.ends[i] = st.ends[i] /\ new.ends[i + 1] = st.ends[i + 1]
        /\ st.ends[i] \in Nat /\ st.ends[i + 1] \in Nat
    <3>1. i \in 1..(k + 1) /\ i + 1 \in 1..(k + 1)
      OBVIOUS
    <3> QED
      BY <1>1, <1>4, <3>1
  <2>3. /\ st.ends[i + 1] <= Len(st.found) /\ Len(st.found) <= Len(new.found)
        /\ \A j \in 1..Len(st.found) : new.found[j] = st.found[j]
    BY <1>2, <2>1 DEF FoundFrom, Extends
  <2>4. \A j \in 1..st.ends[i + 1] : new.found[j] = st.found[j]
    <3>1. \A j \in 1..st.ends[i + 1] : j \in 1..Len(st.found)
      BY <1>2, <2>2, <2>3
    <3> QED
      BY <2>3, <3>1
  <2>5. \A j \in (st.ends[i] + 1)..st.ends[i + 1] : j \in 1..st.ends[i + 1]
    BY <2>2
  <2>6. st.ends[i + 1] <= Len(new.found)
    <3> DEFINE e == st.ends[i + 1]
               l == Len(st.found)
               m == Len(new.found)
    <3>1. e \in Nat /\ l \in Nat /\ m \in Nat /\ e <= l /\ l <= m
      BY <1>2, <2>2, <2>3
    <3> HIDE DEF e, l, m
    <3>2. e <= m
      BY <3>1
    <3> QED
      BY <3>2 DEF e, m
  <2>7. PICK j \in 1..st.ends[i + 1] : st.found[j] = starts[i]
    BY <2>1 DEF FoundFrom
  <2>8. new.found[j] = starts[i]
    BY <2>4, <2>7
  <2>9. /\ st.ends[i] <= st.ends[i + 1]
        /\ \A C : starts[i] \in C /\ Backwards(dag, C)
                   => \A l \in (st.ends[i] + 1)..st.ends[i + 1] : st.found[l] \in C
    BY <2>1 DEF FoundFrom
  <2>10. \A C : starts[i] \in C /\ Backwards(dag, C)
                  => \A l \in (st.ends[i] + 1)..st.ends[i + 1] : new.found[l] \in C
    BY <2>4, <2>5, <2>9
  <2> QED
    BY <2>2, <2>6, <2>7, <2>8, <2>9, <2>10 DEF FoundFrom
<1>6. FoundFrom(dag, new, start, new.ends[k + 1], new.ends[k + 2])
  <2>1. new.ends[k + 1] = Len(st.found) /\ new.ends[k + 2] = Len(new.found)
    <3>1. k + 1 \in 1..(k + 1)
      OBVIOUS
    <3> QED
      BY <1>1, <1>4, <3>1
  <2>2. Len(st.found) <= Len(new.found)
    BY <1>2 DEF Extends
  <2>3. \E j \in 1..Len(new.found) : new.found[j] = start
    <3>1. DOMAIN new.found = 1..Len(new.found)
      BY <1>2
    <3> HIDE DEF start
    <3> QED
      BY <1>2, <3>1 DEF Range
  <2>4. \A C : start \in C /\ Backwards(dag, C) =>
            \A j \in (Len(st.found) + 1)..Len(new.found) : new.found[j] \in C
    BY <1>3 DEF Extends
  <2>5. Len(new.found) <= Len(new.found)
    BY <1>2
  <2> HIDE DEF start
  <2> QED
    BY <2>1, <2>2, <2>3, <2>4, <2>5 DEF FoundFrom
<1>7. \A i \in 1..(k + 1) : FoundFrom(dag, new, starts[i], new.ends[i], new.ends[i + 1])
  <2> SUFFICES ASSUME NEW i \in 1..(k + 1)
               PROVE  FoundFrom(dag, new, starts[i], new.ends[i], new.ends[i + 1])
    OBVIOUS
  <2>1. CASE i \in 1..k
    BY <1>5, <2>1
  <2>2. CASE i = k + 1
    BY <1>6, <2>2
  <2> QED
    BY <2>1, <2>2
<1>8. new.ends[1] = 0 /\ (k + 1) + 1 = k + 2
  BY <1>1, <1>4
<1>9. SearchesInv(W, dag, I, r, starts, new, k + 1)
  BY <1>2, <1>4, <1>7, <1>8 DEF SearchesInv
<1> QED
  BY <1>9 DEF new

(* After the searches from the queried outputs, each output is found,      *)
(* after everything it depends on, and the ends say where each search      *)
(* ended (sort_wires).                                                     *)
LEMMA SearchesAre ==
    ASSUME NEW W, NEW dag, NEW I, NEW r, SearchGraph(W, dag, I, r), NEW starts \in Seq(W)
    PROVE  SearchesInv(W, dag, I, r, starts, Searches(dag, W, starts), Len(starts))
<1> DEFINE n == Len(starts)
           A == {st \in SearchStates(W) : Settled(W, dag, I, r, st)}
           step == [x \in (1..n) \X A |-> NextSearch(dag, W, x[2], starts[x[1]])]
           Solves(f) == f = [k \in 0..n |-> IF k = 0 THEN NoSearch
                                            ELSE NextSearch(dag, W, f[k - 1], starts[k])]
           st == CHOOSE f : Solves(f)
           Bad == {k \in 0..n : ~SearchesInv(W, dag, I, r, starts, st[k], k)}
<1>1. n \in Nat /\ \A k \in 1..n : starts[k] \in W
  OBVIOUS
<1>2. NoSearch \in A /\ SearchesInv(W, dag, I, r, starts, NoSearch, 0)
  BY NoneSettled, SettledIs DEF SearchesInv
<1>3. step \in [(1..n) \X A -> A]
  <2> SUFFICES ASSUME NEW x \in (1..n) \X A
               PROVE  NextSearch(dag, W, x[2], starts[x[1]]) \in A
    OBVIOUS
  <2>1. Settled(W, dag, I, r, x[2]) /\ starts[x[1]] \in W
    BY <1>1
  <2>2. Settled(W, dag, I, r, NextSearch(dag, W, x[2], starts[x[1]]))
    BY <2>1, NextSettled
  <2> QED
    BY <2>2, SettledIs
<1> HIDE DEF n, A, step
<1>4a. PICK f : RecursesUpTo(f, A, NoSearch, n, step)
  <2>1. n \in Nat /\ NoSearch \in A
    BY <1>1, <1>2
  <2> QED
    BY <1>3, <2>1, RecursionUpTo
<1>4. /\ f = [k \in 0..n |-> f[k]] /\ f \in [0..n -> A] /\ f[0] = NoSearch
      /\ \A k \in 1..n : f[k] = step[<<k, f[k - 1]>>]
  BY <1>4a DEF RecursesUpTo
<1>5. ASSUME NEW k \in 1..n
      PROVE  f[k] = NextSearch(dag, W, f[k - 1], starts[k])
  <2>1. k - 1 \in 0..n
    BY <1>1
  <2>2. <<k, f[k - 1]>> \in (1..n) \X A
    BY <1>4, <2>1
  <2> QED
    BY <1>4, <2>2 DEF step
<1>6. Solves(f)
  <2>1. \A k \in 0..n : f[k] = IF k = 0 THEN NoSearch ELSE NextSearch(dag, W, f[k - 1], starts[k])
    BY <1>1, <1>4, <1>5
  <2> QED
    BY <1>4, <2>1
<1>7. Solves(st)
  BY <1>6
<1>8. Searches(dag, W, starts) = st[n]
  BY DEF Searches, NextSearch, NoSearch, n
<1> HIDE DEF st
<1>9. st[0] = NoSearch /\ \A k \in 1..n : st[k] = NextSearch(dag, W, st[k - 1], starts[k])
  <2>1. 0 \in 0..n /\ \A k \in 1..n : k \in 0..n /\ k # 0
    BY <1>1
  <2> QED
    BY <1>7, <2>1
<1>10. Bad = {}
  <2> SUFFICES ASSUME Bad # {}
               PROVE  FALSE
    OBVIOUS
  <2>1. PICK k \in Bad : \A j \in Bad : k <= j
    <3>1. Bad \subseteq Nat
      OBVIOUS
    <3> HIDE DEF Bad
    <3> QED
      BY <3>1, LeastIndex
  <2>2. k \in 1..n /\ ~SearchesInv(W, dag, I, r, starts, st[k], k)
    BY <1>1, <1>2, <1>9, <2>1
  <2>3. k - 1 \in 0..n /\ k - 1 \notin Bad /\ (k - 1) + 1 = k /\ k - 1 \in Nat
    BY <1>1, <2>1, <2>2
  <2>4. SearchesInv(W, dag, I, r, starts, st[k - 1], k - 1)
    BY <2>3
  <2>5. SearchesInv(W, dag, I, r, starts, NextSearch(dag, W, st[k - 1], starts[(k - 1) + 1]), (k - 1) + 1)
    BY <1>1, <2>2, <2>3, <2>4, NextSearches
  <2> QED
    BY <1>9, <2>2, <2>3, <2>5
<1>11. n \in 0..n
  BY <1>1
<1> QED
  BY <1>8, <1>10, <1>11 DEF n

(* A list of what is left to evaluate: in order, the wires that are not    *)
(* inputs among those found after the first from, up to to.                *)
IsTodo(todo, found, I, from, to) ==
    \E at : /\ DOMAIN at = 1..Len(todo)
            /\ \A k \in 1..Len(todo) : at[k] \in (from + 1)..to /\ found[at[k]] \notin I
                                       /\ todo[k] = found[at[k]]
            /\ \A k, l \in 1..Len(todo) : k < l => at[k] < at[l]
            /\ \A j \in (from + 1)..to : found[j] \notin I => \E k \in 1..Len(todo) : at[k] = j

(* What a query evaluates is the wires its search found, in their order,   *)
(* but the inputs.                                                         *)
LEMMA EvaluatedIs ==
    ASSUME NEW mod, NEW W, NEW found \in Seq(W), NEW I,
           I = {w \in W : DriverOf(mod, w).kind = "input"},
           NEW from \in Nat, NEW to \in Nat, from <= to, to <= Len(found)
    PROVE  LET todo == Evaluated(mod, SubSeq(found, from + 1, to))
           IN  todo \in Seq(W) /\ IsTodo(todo, found, I, from, to)
<1> DEFINE ws == SubSeq(found, from + 1, to)
           S == {k \in DOMAIN ws : DriverOf(mod, ws[k]).kind # "input"}
           at == Increasing(S)
           n == Cardinality(S)
           todo == Evaluated(mod, ws)
           pos == [k \in 1..n |-> from + at[k]]
<1>1. /\ ws \in Seq(W) /\ DOMAIN ws = 1..(to - from) /\ Len(found) \in Nat
      /\ \A k \in 1..(to - from) : ws[k] = found[from + k]
      /\ \A j \in 1..Len(found) : found[j] \in W
  <2>1. from + 1 \in 1..(Len(found) + 1) /\ Len(found) \in Nat
    OBVIOUS
  <2>2. /\ Len(ws) = to - from /\ DOMAIN ws = 1..(to - from)
        /\ \A k \in 1..(to - from) : ws[k] = found[from + k]
    BY <2>1
  <2>3. \A k \in 1..(to - from) : from + k \in 1..Len(found)
    BY <2>1
  <2>4. ws \in Seq(W)
    BY <2>1
  <2> QED
    BY <2>1, <2>2, <2>4
<1>2. todo = Pick(ws, at)
  BY DEF Evaluated, Positions
<1>3. IsFiniteSet(S) /\ S \subseteq DOMAIN ws /\ S \in SUBSET Int
  <2>1. S \subseteq 1..(to - from)
    BY <1>1
  <2>2. IsFiniteSet(1..(to - from))
    BY FS_Interval
  <2> QED
    BY <1>1, <2>1, <2>2, FS_Subset
<1>4. \A k \in S : ws[k] \notin I
  <2> HIDE DEF ws
  <2> QED
    OBVIOUS
<1>5. \A k \in DOMAIN ws : ws[k] \notin I => k \in S
  <2> HIDE DEF ws
  <2> QED
    BY <1>1
<1> HIDE DEF ws, S, todo
<1>6. /\ n \in Nat /\ at \in [1..n -> S]
      /\ \A i, j \in 1..n : i < j => at[i] < at[j]
      /\ \A x \in S : \E k \in 1..n : at[k] = x
  BY <1>3, IncreasingIs
<1>7. /\ DOMAIN todo = 1..n /\ \A k \in 1..n : todo[k] = ws[at[k]]
  BY <1>2, <1>3, PickIs
<1> HIDE DEF at, n
<1>8. \A k \in 1..n : at[k] \in 1..(to - from) /\ ws[at[k]] = found[from + at[k]] /\ ws[at[k]] \notin I
  BY <1>1, <1>3, <1>4, <1>6
<1>9. todo \in Seq(W) /\ Len(todo) = n
  <2>1. \A k \in 1..n : todo[k] \in W
    BY <1>1, <1>7, <1>8
  <2>2. todo = [k \in 1..n |-> todo[k]]
    <3>1. Pick(ws, at) = [k \in DOMAIN at |-> ws[at[k]]]
      BY DEF Pick
    <3> QED
      BY <1>2, <1>6, <1>7, <3>1
  <2>3. todo \in [1..n -> W]
    BY <2>1, <2>2
  <2> QED
    BY <1>6, <2>3, FunctionIsSeq
<1>10. \A k \in 1..n : pos[k] = from + at[k] /\ pos[k] \in (from + 1)..to
  BY <1>8
<1>11. DOMAIN pos = 1..n
  OBVIOUS
<1> HIDE DEF pos
<1>12. \A k \in 1..n : found[pos[k]] \notin I /\ todo[k] = found[pos[k]]
  BY <1>7, <1>8, <1>10
<1>13. \A k, l \in 1..n : k < l => pos[k] < pos[l]
  BY <1>6, <1>8, <1>10
<1>14. ASSUME NEW j \in (from + 1)..to, found[j] \notin I
       PROVE  \E k \in 1..n : pos[k] = j
  <2>1. j - from \in 1..(to - from) /\ from + (j - from) = j
    OBVIOUS
  <2>2. j - from \in S
    BY <1>1, <1>5, <1>14, <2>1
  <2> QED
    BY <1>6, <1>10, <2>1, <2>2
<1>15. IsTodo(todo, found, I, from, to)
  <2>1. /\ DOMAIN pos = 1..Len(todo)
        /\ \A k \in 1..Len(todo) : pos[k] \in (from + 1)..to /\ found[pos[k]] \notin I
                                   /\ todo[k] = found[pos[k]]
        /\ \A k, l \in 1..Len(todo) : k < l => pos[k] < pos[l]
        /\ \A j \in (from + 1)..to : found[j] \notin I => \E k \in 1..Len(todo) : pos[k] = j
    BY <1>9, <1>10, <1>11, <1>12, <1>13, <1>14
  <2> QED
    BY <2>1 DEF IsTodo
<1> QED
  BY <1>9, <1>15 DEF todo, ws

(* The search that an order comes from, and the wires of instance i among  *)
(* the first k that it found.                                              *)
Wires(mod) == DOMAIN mod.source
InputWires(mod) == {w \in Wires(mod) : DriverOf(mod, w).kind = "input"}
OutWires(mod, order) == [k \in DOMAIN order |-> mod.connection_wires[order[k].con]]
SearchOf(mod, order) == Searches(mod.dag, Wires(mod), OutWires(mod, order) \o Leftover(mod))
Asked(mod, found, i, k) == {j \in 1..k : mod.source[found[j]][1] = i}

QueriesFit(mod, found, qs, i) ==
    /\ DOMAIN qs = 1..Len(qs) /\ Len(qs) = Cardinality(Asked(mod, found, i, Len(found)))
    /\ \A j \in 1..Len(found) : mod.source[found[j]][1] = i =>
          /\ Cardinality(Asked(mod, found, i, j - 1)) + 1 \in 1..Len(qs)
          /\ qs[Cardinality(Asked(mod, found, i, j - 1)) + 1] = mod.source[found[j]][2]

(* What the search makes sure of, for a module whose graph is in order.    *)
Flow(mod, e, s) ==
    /\ s.found \in Seq(Wires(mod)) /\ Distinct(s.found) /\ Range(s.found) = Wires(mod)
    /\ After(mod.dag, InputWires(mod), s.found)
    /\ DOMAIN e.order = 1..Len(e.order) /\ Len(e.order) \in Nat
    /\ s.ends[1] = 0 /\ \A k \in 1..(Len(e.order) + 1) : s.ends[k] \in 0..Len(s.found)
    /\ \A k \in DOMAIN e.order :
          /\ e.order[k].con \in Range(mod.outputs) /\ e.order[k].wires \in Seq(Wires(mod))
          /\ FoundFrom(mod.dag, s, mod.connection_wires[e.order[k].con], s.ends[k], s.ends[k + 1])
          /\ IsTodo(e.order[k].wires, s.found, InputWires(mod), s.ends[k], s.ends[k + 1])
    /\ e.finish \in Seq(Wires(mod))
    /\ IsTodo(e.finish, s.found, InputWires(mod), s.ends[Len(e.order) + 1], Len(s.found))
    /\ \A i \in DOMAIN mod.instances : QueriesFit(mod, s.found, e.queries[i], i)

InOrder(mod) ==
    /\ \E n \in Nat \ {0} : Wires(mod) = 0..(n - 1)
    /\ \E r : SearchGraph(Wires(mod), mod.dag, InputWires(mod), r)
    /\ \A c \in Range(mod.outputs) : mod.connection_wires[c] \in Wires(mod)

QueriesOn(mod, W, qs, i) ==
    \A k \in DOMAIN qs : \E w \in W : mod.source[w][1] = i /\ qs[k] = mod.source[w][2]
(* The queries of an instance are the outputs that drive the wires found,  *)
(* in the order in which they were found.                                  *)
LEMMA QueriesAre ==
    ASSUME NEW mod, NEW W, NEW found \in Seq(W), NEW i
    PROVE  /\ QueriesFit(mod, found, QueriesOf(mod, found, i), i)
           /\ QueriesOn(mod, W, QueriesOf(mod, found, i), i)
<1> DEFINE S == {k \in DOMAIN found : mod.source[found[k]][1] = i}
           of == Increasing(S)
           n == Cardinality(S)
           qs == QueriesOf(mod, found, i)
<1>1. DOMAIN found = 1..Len(found) /\ Len(found) \in Nat /\ \A j \in 1..Len(found) : found[j] \in W
  OBVIOUS
<1>2. IsFiniteSet(S) /\ S \subseteq 1..Len(found) /\ S \in SUBSET Int
  <2>1. S \subseteq 1..Len(found)
    BY <1>1
  <2>2. IsFiniteSet(1..Len(found))
    BY <1>1, FS_Interval
  <2> QED
    BY <1>1, <2>1, <2>2, FS_Subset
<1>3. qs = [k \in DOMAIN of |-> mod.source[found[of[k]]][2]]
  BY DEF QueriesOf, Positions
<1>4. \A k : k \in S <=> k \in 1..Len(found) /\ mod.source[found[k]][1] = i
  BY <1>1
<1>5. S = Asked(mod, found, i, Len(found))
  BY <1>1 DEF Asked
<1> HIDE DEF S, qs
<1>6. /\ n \in Nat /\ of \in [1..n -> S]
      /\ \A k \in 1..n : Cardinality({y \in S : y < of[k]}) = k - 1
      /\ \A x \in S : \E k \in 1..n : of[k] = x
  BY <1>2, IncreasingIs
<1> HIDE DEF of, n
<1>7. DOMAIN of = 1..n
  BY <1>6
<1>8. DOMAIN qs = 1..n /\ \A k \in 1..n : qs[k] = mod.source[found[of[k]]][2]
  BY <1>3, <1>7
<1>9. Len(qs) = n
  <2>1. qs \in [1..n -> Range(qs)]
    BY <1>3, <1>7, <1>8 DEF Range
  <2> QED
    BY <1>6, <2>1, FunctionIsSeq, Zenon
<1>10. ASSUME NEW j \in 1..Len(found), mod.source[found[j]][1] = i
       PROVE  /\ Cardinality(Asked(mod, found, i, j - 1)) + 1 \in 1..n
              /\ qs[Cardinality(Asked(mod, found, i, j - 1)) + 1] = mod.source[found[j]][2]
  <2>1. PICK k \in 1..n : of[k] = j
    BY <1>4, <1>6, <1>10
  <2>2. {y \in S : y < j} = Asked(mod, found, i, j - 1)
    <3>1. \A y : y \in 1..Len(found) /\ y < j <=> y \in 1..(j - 1)
      BY <1>1
    <3> QED
      BY <1>4, <3>1 DEF Asked
  <2>3. Cardinality(Asked(mod, found, i, j - 1)) = k - 1 /\ (k - 1) + 1 = k
    BY <1>6, <2>1, <2>2
  <2> QED
    BY <1>8, <2>1, <2>3
<1>11. ASSUME NEW k \in 1..n
       PROVE  \E w \in W : mod.source[w][1] = i /\ qs[k] = mod.source[w][2]
  <2>1. of[k] \in S /\ found[of[k]] \in W /\ mod.source[found[of[k]]][1] = i
    BY <1>1, <1>4, <1>6
  <2> QED
    BY <1>8, <2>1
<1>12. QueriesFit(mod, found, qs, i)
  BY <1>5, <1>8, <1>9, <1>10, Zenon DEF QueriesFit, n
<1> QED
  BY <1>8, <1>11, <1>12 DEF qs, QueriesOn

(* The order of a module whose outputs are queried in a given order.       *)
LEMMA OrdersAre ==
    ASSUME NEW mod, InOrder(mod), NEW queries \in Seq(DOMAIN mod.outputs)
    PROVE  LET o == Orders(mod, queries)
           IN  /\ Flow(mod, o, SearchOf(mod, o.order))
               /\ Len(o.order) = Len(queries)
               /\ \A k \in 1..Len(queries) : o.order[k].con = mod.outputs[queries[k]]
               /\ o.queries = [i \in DOMAIN mod.instances |->
                                  QueriesOf(mod, SearchOf(mod, o.order).found, i)]
<1> DEFINE o == Orders(mod, queries)
           W == Wires(mod)
           I == InputWires(mod)
           outs == [k \in DOMAIN queries |-> mod.connection_wires[mod.outputs[queries[k]]]]
           starts == outs \o Leftover(mod)
           s == Searches(mod.dag, W, starts)
           q == Len(queries)
           part(from, to) == Evaluated(mod, SubSeq(s.found, from + 1, to))
<1>1. PICK n \in Nat \ {0} : W = 0..(n - 1)
  BY DEF InOrder
<1>2. PICK r : SearchGraph(W, mod.dag, I, r)
  BY DEF InOrder
<1>3. q \in Nat /\ DOMAIN queries = 1..q /\ \A k \in 1..q : queries[k] \in DOMAIN mod.outputs
  OBVIOUS
<1>4. /\ o.order = [k \in DOMAIN queries |->
                        [con |-> mod.outputs[queries[k]], wires |-> part(s.ends[k], s.ends[k + 1])]]
      /\ o.finish = part(s.ends[Len(outs) + 1], Len(s.found))
      /\ o.queries = [i \in DOMAIN mod.instances |-> QueriesOf(mod, s.found, i)]
  BY DEF Orders, Wires
<1>5. outs \in Seq(W) /\ Len(outs) = q /\ DOMAIN outs = 1..q
  <2>1. \A k \in 1..q : mod.connection_wires[mod.outputs[queries[k]]] \in W
    BY <1>3 DEF InOrder, Range
  <2>2. outs \in [1..q -> W]
    BY <1>3, <2>1
  <2> HIDE DEF outs, q
  <2> QED
    BY <1>3, <2>2, FunctionIsSeq
<1>6. Leftover(mod) \in Seq(W) /\ Len(Leftover(mod)) = n /\ \A k \in 1..n : Leftover(mod)[k] = k - 1
  <2>1. Cardinality(W) = n
    <3>1. Cardinality(0..(n - 1)) = IF 0 > n - 1 THEN 0 ELSE n - 1 - 0 + 1
      BY FS_Interval
    <3> QED
      BY <1>1, <3>1
  <2>2. Leftover(mod) = [k \in 1..n |-> k - 1]
    BY <2>1 DEF Leftover, Wires
  <2>3. Leftover(mod) \in [1..n -> W]
    BY <1>1, <2>2
  <2> QED
    BY <2>2, <2>3, FunctionIsSeq
<1> HIDE DEF W, I, o
<1>7. starts \in Seq(W) /\ Len(starts) = q + n
      /\ (\A k \in 1..q : starts[k] = outs[k]) /\ \A k \in 1..n : starts[q + k] = k - 1
  <2> DEFINE left == Leftover(mod)
  <2> HIDE DEF outs, left, q
  <2>1. /\ outs \o left \in Seq(W) /\ Len(outs \o left) = q + n
        /\ (\A k \in 1..q : (outs \o left)[k] = outs[k])
        /\ \A k \in 1..n : (outs \o left)[q + k] = left[k]
    <3>1. outs \in Seq(W) /\ left \in Seq(W) /\ Len(outs) = q /\ Len(left) = n
      BY <1>5, <1>6 DEF left
    <3>2. outs \o left \in Seq(W) /\ Len(outs \o left) = q + n
      BY <3>1
    <3>3. \A k \in 1..q : (outs \o left)[k] = outs[k]
      BY <3>1
    <3>4. \A k \in 1..n : (outs \o left)[q + k] = left[k]
      BY <3>1
    <3> QED
      BY <3>2, <3>3, <3>4
  <2>2. starts = outs \o left /\ \A k \in 1..n : left[k] = k - 1
    BY <1>6 DEF left
  <2> HIDE DEF starts
  <2> QED
    BY <2>1, <2>2
<1> HIDE DEF starts, q, outs
<1>8. SearchesInv(W, mod.dag, I, r, starts, s, q + n)
  BY <1>2, <1>7, SearchesAre
<1> HIDE DEF s
<1>9. /\ s \in SearchStates(W) /\ Distinct(s.found) /\ After(mod.dag, I, s.found) /\ s.found \in Seq(W)
      /\ s.ends \in [1..(q + n + 1) -> Nat] /\ s.ends[1] = 0
      /\ \A k \in 1..(q + n) : FoundFrom(mod.dag, s, starts[k], s.ends[k], s.ends[k + 1])
  BY <1>8, SettledIs DEF SearchesInv, SearchStates
<1>10. Len(s.found) \in Nat /\ DOMAIN s.found = 1..Len(s.found)
  BY <1>9
<1>11. Range(s.found) = W
  <2>1. ASSUME NEW w \in W
        PROVE  w \in Range(s.found)
    <3>1. w + 1 \in 1..n /\ starts[q + (w + 1)] = w /\ q + (w + 1) \in 1..(q + n)
      <4>1. w + 1 \in 1..n /\ (w + 1) - 1 = w
        BY <1>1
      <4>2. q + (w + 1) \in 1..(q + n)
        BY <1>3, <4>1
      <4>3. starts[q + (w + 1)] = (w + 1) - 1
        BY <1>7, <4>1
      <4> QED
        BY <4>1, <4>2, <4>3
    <3>2. FoundFrom(mod.dag, s, w, s.ends[q + (w + 1)], s.ends[q + (w + 1) + 1])
      BY <1>9, <3>1
    <3>3. PICK j \in 1..s.ends[q + (w + 1) + 1] : s.found[j] = w
      BY <3>2 DEF FoundFrom
    <3>4. s.ends[q + (w + 1) + 1] <= Len(s.found)
      BY <3>2 DEF FoundFrom
    <3>5. q + (w + 1) + 1 \in 1..(q + n + 1)
      BY <1>3, <3>1
    <3>6. j \in 1..Len(s.found)
      <4>1. s.ends[q + (w + 1) + 1] \in Nat
        BY <1>9, <3>5
      <4> QED
        BY <1>10, <3>4, <4>1
    <3> QED
      BY <1>10, <3>3, <3>6 DEF Range
  <2>2. Range(s.found) \subseteq W
    BY <1>9, <1>10 DEF Range
  <2> QED
    BY <2>1, <2>2
<1>12. /\ DOMAIN o.order = 1..q /\ Len(o.order) = q
       /\ \A k \in 1..q : /\ o.order[k].con = mod.outputs[queries[k]]
                          /\ o.order[k].wires = part(s.ends[k], s.ends[k + 1])
  <2>1. /\ DOMAIN o.order = 1..q
        /\ \A k \in 1..q : /\ o.order[k].con = mod.outputs[queries[k]]
                           /\ o.order[k].wires = part(s.ends[k], s.ends[k + 1])
    <3> HIDE DEF part
    <3> QED
      BY <1>3, <1>4
  <2>2. o.order \in [1..q -> Range(o.order)]
    <3> HIDE DEF part
    <3> QED
      BY <1>3, <1>4, <2>1 DEF Range
  <2>3. Len(o.order) = q
    BY <1>3, <2>2, FunctionIsSeq
  <2> QED
    BY <2>1, <2>3
<1>13. ASSUME NEW k \in 1..(q + 1)
       PROVE  s.ends[k] \in 0..Len(s.found)
  <2>1. k \in 1..(q + n) /\ k \in 1..(q + n + 1) /\ k + 1 \in 1..(q + n + 1)
    BY <1>3
  <2>2. /\ s.ends[k] <= s.ends[k + 1] /\ s.ends[k + 1] <= Len(s.found)
    BY <1>9, <2>1 DEF FoundFrom
  <2> QED
    <3>1. s.ends[k] \in Nat /\ s.ends[k + 1] \in Nat
      BY <1>9, <2>1
    <3> QED
      BY <1>10, <2>2, <3>1
<1>14. ASSUME NEW from \in 0..Len(s.found), NEW to \in 0..Len(s.found), from <= to
       PROVE  part(from, to) \in Seq(W) /\ IsTodo(part(from, to), s.found, I, from, to)
  <2>1. from \in Nat /\ to \in Nat /\ to <= Len(s.found)
    BY <1>10
  <2>2. I = {w \in W : DriverOf(mod, w).kind = "input"}
    BY DEF I, InputWires, W
  <2> QED
    BY <1>9, <1>14, <2>1, <2>2, EvaluatedIs
<1> HIDE DEF part
<1>15. ASSUME NEW k \in 1..q
       PROVE  /\ o.order[k].con \in Range(mod.outputs) /\ o.order[k].wires \in Seq(W)
              /\ FoundFrom(mod.dag, s, mod.connection_wires[o.order[k].con], s.ends[k], s.ends[k + 1])
              /\ IsTodo(o.order[k].wires, s.found, I, s.ends[k], s.ends[k + 1])
  <2>1. k \in 1..(q + n) /\ k \in 1..(q + 1) /\ k + 1 \in 1..(q + 1)
    BY <1>3
  <2>2. starts[k] = mod.connection_wires[o.order[k].con]
    BY <1>3, <1>7, <1>12 DEF outs
  <2>3. FoundFrom(mod.dag, s, starts[k], s.ends[k], s.ends[k + 1])
    BY <1>9, <2>1
  <2>4. s.ends[k] \in 0..Len(s.found) /\ s.ends[k + 1] \in 0..Len(s.found) /\ s.ends[k] <= s.ends[k + 1]
    BY <1>13, <2>1, <2>3 DEF FoundFrom
  <2>5. o.order[k].con \in Range(mod.outputs)
    BY <1>3, <1>12 DEF Range
  <2> QED
    BY <1>12, <1>14, <2>2, <2>3, <2>4, <2>5
<1>16. /\ o.finish \in Seq(W)
       /\ IsTodo(o.finish, s.found, I, s.ends[q + 1], Len(s.found))
  <2>1. q + 1 \in 1..(q + 1) /\ Len(s.found) \in 0..Len(s.found)
    BY <1>3, <1>10
  <2>2. s.ends[q + 1] \in 0..Len(s.found) /\ s.ends[q + 1] <= Len(s.found)
    BY <1>10, <1>13, <2>1
  <2>3. o.finish = part(s.ends[q + 1], Len(s.found))
    BY <1>4, <1>5
  <2> QED
    BY <1>14, <2>1, <2>2, <2>3
<1>17. OutWires(mod, o.order) = outs
  BY <1>3, <1>12 DEF OutWires, outs
<1>18. SearchOf(mod, o.order) = s
  BY <1>17 DEF SearchOf, s, starts, W
<1>19. \A i \in DOMAIN mod.instances : QueriesFit(mod, s.found, o.queries[i], i)
  <2> SUFFICES ASSUME NEW i \in DOMAIN mod.instances
               PROVE  QueriesFit(mod, s.found, o.queries[i], i)
    OBVIOUS
  <2>1. o.queries[i] = QueriesOf(mod, s.found, i)
    BY <1>4
  <2>2. QueriesFit(mod, s.found, QueriesOf(mod, s.found, i), i)
    <3> DEFINE found == s.found
    <3>1. found \in Seq(W)
      BY <1>9
    <3> HIDE DEF found
    <3>2. QueriesFit(mod, found, QueriesOf(mod, found, i), i)
      BY <3>1, QueriesAre
    <3> QED
      BY <3>2 DEF found
  <2> QED
    BY <2>1, <2>2
<1>20. Flow(mod, o, s)
  BY <1>3, <1>9, <1>11, <1>12, <1>13, <1>15, <1>16, <1>19 DEF Flow, W, I
<1> QED
  BY <1>4, <1>12, <1>18, <1>20 DEF o, q

(* The dependencies of a built module: those that its instances make, and  *)
(* those that the stages of a gadget add, from its inputs.                 *)
BaseDag(mods, ym) == Range(comb_wire_dag(mods, Instances(mods, ym)))
InputsOn(mod, w) == {i \in DOMAIN mod.inputs : mod.connection_wires[mod.inputs[i]] = w}
Built(mods, ym, mod) ==
    /\ mod.instances = Instances(mods, ym) /\ mod.source = SourceOf(mods, Instances(mods, ym), ym)
    /\ mod.sinks = SinksOf(mods, Instances(mods, ym), ym)
    /\ mod.inputs = RawIn(mods, ym)
    /\ \A i \in DOMAIN mod.inputs : mod.connection_wires[mod.inputs[i]] = RawWire(mods, ym, i)
    /\ BaseDag(mods, ym) \subseteq Range(mod.dag)
    /\ \A e \in Range(mod.dag) : e \in BaseDag(mods, ym)
          \/ \E i \in DOMAIN mod.inputs : e[1] = mod.connection_wires[mod.inputs[i]]
    /\ \A w \in WiresOf(ym) : DepsetsOf(mods, ym)[w] \subseteq Range(mod.comb_input_deps[w])
    /\ mod.gadget # <<>> => \A i \in DOMAIN mod.inputs, o \in DOMAIN mod.outputs :
          mod.gadget[1].latency[mod.inputs[i]] = mod.gadget[1].latency[mod.outputs[o]]
             => i \in Range(mod.comb_input_deps[mod.connection_wires[mod.outputs[o]]])

(* The ports of a module under construction are connections to its wires,  *)
(* its graph joins wires, and the dependencies of a wire are input ports.  *)
LEMMA RawWires ==
    ASSUME NEW mods, NEW ym, Buildable(mods, ym)
    PROVE  LET raw == RawModule(mods, ym)
           IN  /\ raw.inputs = RawIn(mods, ym)
               /\ \A i \in DOMAIN raw.inputs :
                     raw.connection_wires[raw.inputs[i]] = RawWire(mods, ym, i)
               /\ \E n \in Nat : /\ raw.inputs \in Seq(1..n) /\ raw.outputs \in Seq(1..n)
                                 /\ raw.connection_wires \in [1..n -> WiresOf(ym)]
               /\ raw.dag \in Seq(WiresOf(ym) \X WiresOf(ym))
               /\ \A w \in WiresOf(ym) : /\ Range(raw.comb_input_deps[w]) = DepsetsOf(mods, ym)[w]
                                         /\ raw.comb_input_deps[w] \in Seq(DOMAIN raw.inputs)
               /\ DOMAIN raw.comb_input_deps = WiresOf(ym)
<1> DEFINE raw == RawModule(mods, ym)
           bits == BitsOf(mods, ym)
<1>1. Checked(mods, ym)
  BY DEF Buildable
<1>2. PICK n \in Nat : /\ bits \in [1..n -> Range(AllBits(ym))]
                       /\ \A c \in 1..n : BitWire(ym, bits[c]) \in WiresOf(ym)
                       /\ \A dir : filter_ports(ym, bits, dir) \in Seq(1..n)
  BY <1>1, BitsTyped
<1>3. /\ raw.inputs = filter_ports(ym, bits, "input") /\ raw.outputs = filter_ports(ym, bits, "output")
      /\ raw.connection_wires = [c \in DOMAIN bits |-> BitWire(ym, bits[c])]
      /\ raw.dag = comb_wire_dag(mods, Instances(mods, ym))
      /\ raw.comb_input_deps = [w \in WiresOf(ym) |-> Increasing(DepsetsOf(mods, ym)[w])]
      /\ raw.inputs = RawIn(mods, ym)
  BY DEF RawModule, RawIn
<1>4. ModuleTyped(mods, raw, ym)
  BY RawTyped
<1> HIDE DEF raw, bits
<1>5. DOMAIN bits = 1..n /\ raw.inputs \in Seq(1..n) /\ raw.outputs \in Seq(1..n)
  BY <1>2, <1>3
<1>6. raw.connection_wires \in [1..n -> WiresOf(ym)]
  BY <1>2, <1>3, <1>5
<1>7. ASSUME NEW i \in DOMAIN raw.inputs
      PROVE  raw.connection_wires[raw.inputs[i]] = RawWire(mods, ym, i)
  <2>1. raw.inputs[i] \in 1..n
    BY <1>5
  <2>2. raw.connection_wires[raw.inputs[i]] = BitWire(ym, bits[raw.inputs[i]])
    BY <1>3, <1>5, <2>1
  <2> QED
    BY <1>3, <2>2 DEF RawWire, bits
<1>8. raw.dag \in Seq(WiresOf(ym) \X WiresOf(ym))
  BY <1>4 DEF ModuleTyped
<1>9. ASSUME NEW w \in WiresOf(ym)
      PROVE  /\ Range(raw.comb_input_deps[w]) = DepsetsOf(mods, ym)[w]
             /\ raw.comb_input_deps[w] \in Seq(DOMAIN raw.inputs)
  <2> DEFINE S == DepsetsOf(mods, ym)[w]
             inc == Increasing(S)
             c == Cardinality(S)
  <2>1. raw.comb_input_deps[w] = inc
    BY <1>3
  <2>2. S \subseteq DOMAIN raw.inputs
    BY <1>3, DepsetsTyped DEF bits
  <2>3. DOMAIN raw.inputs = 1..Len(raw.inputs) /\ Len(raw.inputs) \in Nat
    BY <1>5
  <2> HIDE DEF S
  <2>4. IsFiniteSet(S) /\ S \in SUBSET Int
    <3>1. IsFiniteSet(1..Len(raw.inputs))
      BY <2>3, FS_Interval
    <3> QED
      BY <2>2, <2>3, <3>1, FS_Subset
  <2>5. c \in Nat /\ inc \in [1..c -> S] /\ \A x \in S : \E k \in 1..c : inc[k] = x
    BY <2>4, IncreasingIs
  <2> HIDE DEF inc, c
  <2>6. inc \in Seq(S) /\ DOMAIN inc = 1..c
    BY <2>5, FunctionIsSeq
  <2>7. Range(inc) = S
    BY <2>5, <2>6 DEF Range
  <2>8. inc \in Seq(DOMAIN raw.inputs)
    BY <2>2, <2>6
  <2> QED
    BY <2>1, <2>7, <2>8 DEF S
<1>10. DOMAIN raw.comb_input_deps = WiresOf(ym)
  BY <1>3
<1> QED
  BY <1>3, <1>5, <1>6, <1>7, <1>8, <1>9, <1>10 DEF raw

(* A module that was built has the ports, the graph, the drivers and the   *)
(* sinks of the module under construction.                                 *)
LEMMA BuiltIs ==
    ASSUME NEW mods, NEW ym, Buildable(mods, ym)
    PROVE  Built(mods, ym, BuildModule(mods, ym).value)
<1> DEFINE raw == RawModule(mods, ym)
           g == PipelineGadget(ym, ShapeOf(mods, ym))
           W == WiresOf(ym)
<1>1. /\ raw.inputs = RawIn(mods, ym)
      /\ \A i \in DOMAIN raw.inputs : raw.connection_wires[raw.inputs[i]] = RawWire(mods, ym, i)
      /\ raw.dag \in Seq(W \X W) /\ DOMAIN raw.comb_input_deps = W
  BY RawWires
<1>2. \A w \in W : /\ Range(raw.comb_input_deps[w]) = DepsetsOf(mods, ym)[w]
                   /\ raw.comb_input_deps[w] \in Seq(DOMAIN raw.inputs)
  BY RawWires
<1>3. PICK n \in Nat : /\ raw.inputs \in Seq(1..n) /\ raw.outputs \in Seq(1..n)
                       /\ raw.connection_wires \in [1..n -> W]
  BY RawWires
<1>4. /\ raw.instances = Instances(mods, ym) /\ raw.source = SourceOf(mods, Instances(mods, ym), ym)
      /\ raw.sinks = SinksOf(mods, Instances(mods, ym), ym) /\ raw.gadget = <<>>
      /\ Range(raw.dag) = BaseDag(mods, ym)
  BY DEF RawModule, BaseDag
<1>5. BuildModule(mods, ym).error = None
  BY DEF Buildable
<1>6. CASE ~IsPipeline(ym)
  <2>1. BuildModule(mods, ym).value = raw
    BY <1>5, <1>6, ValueIs
  <2> HIDE DEF raw
  <2> QED
    BY <1>1, <1>2, <1>4, <2>1 DEF Built
<1>7. CASE IsPipeline(ym)
  <2> DEFINE mod == GadgetModule(mods, ym)
  <2>1. BuildModule(mods, ym).value = mod
    BY <1>5, <1>7, ValueIs
  <2>2. /\ mod.inputs = raw.inputs
        /\ mod.outputs = raw.outputs /\ mod.instances = raw.instances
        /\ mod.connection_wires = raw.connection_wires
        /\ mod.source = raw.source /\ mod.sinks = raw.sinks
        /\ mod.dag = raw.dag \o StageEdges(raw, g)
        /\ mod.comb_input_deps = [w \in DOMAIN raw.comb_input_deps |->
                                     raw.comb_input_deps[w] \o StageInputs(raw, g, w)]
        /\ mod.gadget = <<g>>
    BY UpdateIs
  <2> HIDE DEF mod, raw, g
  <2>3. /\ StageEdges(raw, g) \in Seq(W \X W)
        /\ \A w : StageInputs(raw, g, w) \in Seq(DOMAIN raw.inputs)
    BY <1>3, StagesTyped
  <2>4. Range(mod.dag) = BaseDag(mods, ym) \cup Range(StageEdges(raw, g))
    <3>1. Range(raw.dag \o StageEdges(raw, g)) = Range(raw.dag) \cup Range(StageEdges(raw, g))
      BY <1>1, <2>3, RangeConcat
    <3> QED
      BY <1>4, <2>2, <3>1
  <2>5. ASSUME NEW e \in Range(StageEdges(raw, g))
        PROVE  \E i \in DOMAIN raw.inputs : e[1] = raw.connection_wires[raw.inputs[i]]
    <3> DEFINE new == StageDeps(raw, g)
    <3>1. new \in Seq((DOMAIN raw.inputs) \X W)
      BY <1>3, StageDepsTyped
    <3> HIDE DEF new
    <3>2. StageEdges(raw, g) = [k \in DOMAIN new |->
                                  <<raw.connection_wires[raw.inputs[new[k][1]]], new[k][2]>>]
      BY DEF StageEdges, new
    <3>3. PICK k \in DOMAIN new : e = <<raw.connection_wires[raw.inputs[new[k][1]]], new[k][2]>>
      BY <3>2 DEF Range
    <3>4. new[k][1] \in DOMAIN raw.inputs
      BY <3>1
    <3> QED
      BY <3>3, <3>4
  <2>6. ASSUME NEW w \in W
        PROVE  Range(mod.comb_input_deps[w])
                  = DepsetsOf(mods, ym)[w] \cup Range(StageInputs(raw, g, w))
    <3>1. mod.comb_input_deps[w] = raw.comb_input_deps[w] \o StageInputs(raw, g, w)
      BY <1>1, <2>2
    <3>2. Range(raw.comb_input_deps[w] \o StageInputs(raw, g, w))
             = Range(raw.comb_input_deps[w]) \cup Range(StageInputs(raw, g, w))
      BY <1>2, <2>3, RangeConcat
    <3> QED
      BY <1>2, <3>1, <3>2
  <2>7. ASSUME NEW i \in DOMAIN mod.inputs, NEW o \in DOMAIN mod.outputs,
               g.latency[mod.inputs[i]] = g.latency[mod.outputs[o]]
        PROVE  i \in Range(mod.comb_input_deps[mod.connection_wires[mod.outputs[o]]])
    <3> DEFINE w == raw.connection_wires[raw.outputs[o]]
    <3>1. w \in W
      BY <1>3, <2>2
    <3>2. StageJoinsTo(raw, g, w, i)
      BY <2>2, <2>7 DEF StageJoinsTo
    <3> HIDE DEF w
    <3>3. i \in Range(StageInputs(raw, g, w))
      BY <1>3, <3>2, StageInputsAre
    <3>4. i \in Range(mod.comb_input_deps[w])
      BY <2>6, <3>1, <3>3
    <3> QED
      BY <2>2, <3>4 DEF w
  <2>8. mod.gadget[1] = g
    BY <2>2
  <2>9. Built(mods, ym, mod)
    <3>1. /\ mod.instances = Instances(mods, ym) /\ mod.source = SourceOf(mods, Instances(mods, ym), ym)
          /\ mod.sinks = SinksOf(mods, Instances(mods, ym), ym) /\ mod.inputs = RawIn(mods, ym)
      BY <1>1, <1>4, <2>2
    <3>2. \A i \in DOMAIN mod.inputs : mod.connection_wires[mod.inputs[i]] = RawWire(mods, ym, i)
      BY <1>1, <2>2
    <3>3. /\ BaseDag(mods, ym) \subseteq Range(mod.dag)
          /\ \A e \in Range(mod.dag) : e \in BaseDag(mods, ym)
                \/ \E i \in DOMAIN mod.inputs : e[1] = mod.connection_wires[mod.inputs[i]]
      BY <2>2, <2>4, <2>5
    <3>4. \A w \in W : DepsetsOf(mods, ym)[w] \subseteq Range(mod.comb_input_deps[w])
      BY <2>6
    <3>5. \A i \in DOMAIN mod.inputs, o \in DOMAIN mod.outputs :
             mod.gadget[1].latency[mod.inputs[i]] = mod.gadget[1].latency[mod.outputs[o]]
                => i \in Range(mod.comb_input_deps[mod.connection_wires[mod.outputs[o]]])
      BY <2>7, <2>8
    <3> QED
      BY <3>1, <3>2, <3>3, <3>4, <3>5 DEF Built
  <2> QED
    BY <2>1, <2>9
<1> QED
  BY <1>6, <1>7

-----------------------------------------------------------------------------
(* What a built module makes sure of: the source of a wire and the edges   *)
(* into it, one wire for each input, what an output needs, the sinks.      *)
Dependencies(mods, i, o) == comb_deps(mods, i, output_ports(mods, i)[o])
SourcesFit(mods, mod) ==
    \A w \in Wires(mod) :
        LET k == mod.source[w][1]
            i == mod.instances[k]
        IN  /\ k \in DOMAIN mod.instances /\ mod.source[w][2] \in DOMAIN output_ports(mods, i)
            /\ \A c \in Range(Dependencies(mods, i, mod.source[w][2])) :
                  <<i.con[c], w>> \in Range(mod.dag)
WireIn(mod, i) == mod.connection_wires[mod.inputs[i]]
InputsFit(mod) ==
    /\ \A i \in DOMAIN mod.inputs : WireIn(mod, i) \in InputWires(mod)
    /\ \A w \in InputWires(mod) : \E i \in DOMAIN mod.inputs : WireIn(mod, i) = w
    /\ \A i, j \in DOMAIN mod.inputs : WireIn(mod, i) = WireIn(mod, j) => i = j
Depends(mods, mod, w) ==
    {mod.instances[mod.source[w][1]].con[c] :
        c \in Range(Dependencies(mods, mod.instances[mod.source[w][1]], mod.source[w][2]))}
IsNeeded(mod, w, v) ==
    \E i \in Range(mod.comb_input_deps[w]) : i \in DOMAIN mod.inputs /\ WireIn(mod, i) = v
Needs(mods, mod, w, C) ==
    /\ w \in C /\ Backwards(mod.dag, C)
    /\ \A x \in (C \cap Wires(mod)) \ InputWires(mod) : \A v \in Depends(mods, mod, x) :
          v \in InputWires(mod) => IsNeeded(mod, w, v)
NeedsFit(mods, mod) ==
    \A w \in Wires(mod) : /\ w \in InputWires(mod) => IsNeeded(mod, w, w)
                          /\ \E C : Needs(mods, mod, w, C)
SinksFit(mods, mod) ==
    /\ \A w \in Wires(mod) : \A s \in Range(mod.sinks[w]) :
          /\ s = <<s[1], s[2]>> /\ s[1] \in DOMAIN mod.instances
          /\ s[2] \in DOMAIN input_ports(mods, mod.instances[s[1]])
    /\ \A k \in DOMAIN mod.instances : \A d \in DOMAIN input_ports(mods, mod.instances[k]) :
          LET v == mod.instances[k].con[input_ports(mods, mod.instances[k])[d]]
          IN  /\ v \in Wires(mod)
              /\ \A w \in Wires(mod) : <<k, d>> \in Range(mod.sinks[w]) <=> w = v

(* Wires that drive wires: the sources of a built module.                  *)
LEMMA SourcesAre ==
    ASSUME NEW mods, NEW ym, Buildable(mods, ym), NEW mod, Built(mods, ym, mod)
    PROVE  /\ SourcesFit(mods, mod) /\ Wires(mod) = WiresOf(ym)
           /\ \A w \in InputWires(mod) : \A v : <<v, w>> \notin BaseDag(mods, ym)
<1> DEFINE insts == Instances(mods, ym)
           source == SourceOf(mods, insts, ym)
           dag == comb_wire_dag(mods, insts)
           W == WiresOf(ym)
<1>1. mod.instances = insts /\ mod.source = source /\ Range(dag) \subseteq Range(mod.dag)
  BY DEF Built, BaseDag
<1>2. DriverError(mods, insts, W) = None
  BY BuiltShape DEF Buildable
<1>3. Wires(mod) = W
  BY <1>1 DEF Wires, SourceOf
<1>4. ASSUME NEW w \in W
      PROVE  /\ source[w][1] \in DOMAIN insts
             /\ source[w][2] \in DOMAIN output_ports(mods, insts[source[w][1]])
  <2> HIDE DEF insts
  <2> QED
    BY <1>2, <1>4, SourceIs
<1>5. \A w \in W : FromOf(mods, ym)[w] = WireFrom(mods, insts[source[w][1]], source[w][2])
  BY DEF FromOf
<1>6. ASSUME NEW w \in W, NEW c \in Range(Dependencies(mods, insts[source[w][1]], source[w][2]))
      PROVE  <<insts[source[w][1]].con[c], w>> \in Range(mod.dag)
  <2>1. insts[source[w][1]].con[c] \in WireFrom(mods, insts[source[w][1]], source[w][2])
    BY <1>6 DEF WireFrom, Dependencies
  <2>2. insts[source[w][1]].con[c] \in FromOf(mods, ym)[w]
    BY <1>5, <2>1
  <2>3. <<insts[source[w][1]].con[c], w>> \in Range(dag)
    BY <2>2, FromIsDag
  <2> QED
    BY <1>1, <2>3, Zenon
<1>7. SourcesFit(mods, mod)
  <2> HIDE DEF insts, source, W
  <2> QED
    BY <1>1, <1>3, <1>4, <1>6 DEF SourcesFit
<1>8. ASSUME NEW w \in InputWires(mod), NEW v, <<v, w>> \in BaseDag(mods, ym)
      PROVE  FALSE
  <2>1. w \in W /\ insts[source[w][1]].kind = "input"
    BY <1>1, <1>3 DEF InputWires, DriverOf
  <2>2. PICK i \in DOMAIN RawIn(mods, ym) : insts[source[w][1]] = InputInst(mods, ym, i)
    <3>1. Checked(mods, ym)
      BY DEF Buildable
    <3> QED
      BY <2>1, <3>1, InputSource
  <2>3. v \in FromOf(mods, ym)[w]
    BY <1>8, <2>1, FromIsDag DEF BaseDag
  <2>4. v \in WireFrom(mods, insts[source[w][1]], source[w][2])
    BY <1>5, <2>1, <2>3
  <2>5. comb_deps(mods, insts[source[w][1]],
                  output_ports(mods, insts[source[w][1]])[source[w][2]]) = <<>>
    <3> HIDE DEF insts, source
    <3> QED
      BY <2>2, InputInstIs
  <2>6. Range(<<>>) = {}
    BY DEF Range
  <2> HIDE DEF insts, source
  <2> QED
    BY <2>4, <2>5, <2>6 DEF WireFrom
<1> QED
  BY <1>3, <1>7, <1>8

(* An input wire is driven by the input port that is connected to it.      *)
LEMMA InputsAre ==
    ASSUME NEW mods, NEW ym, Buildable(mods, ym), NEW mod, Built(mods, ym, mod)
    PROVE  InputsFit(mod)
<1> DEFINE insts == Instances(mods, ym)
           source == SourceOf(mods, insts, ym)
           j(w) == insts[source[w][1]]
<1>1. /\ mod.instances = insts /\ mod.source = source /\ mod.inputs = RawIn(mods, ym)
      /\ \A i \in DOMAIN mod.inputs : WireIn(mod, i) = RawWire(mods, ym, i)
  BY DEF Built, WireIn
<1>2. Checked(mods, ym) /\ Wires(mod) = WiresOf(ym)
  BY SourcesAre DEF Buildable
<1>3. \A w \in WiresOf(ym) :
         /\ \A i \in DOMAIN RawIn(mods, ym) : RawWire(mods, ym, i) = w => j(w) = InputInst(mods, ym, i)
         /\ j(w).kind = "input" => \E i \in DOMAIN RawIn(mods, ym) :
               RawWire(mods, ym, i) = w /\ j(w) = InputInst(mods, ym, i)
  BY <1>2, InputSource
<1>4. \A i \in DOMAIN mod.inputs : WireIn(mod, i) \in WiresOf(ym)
  <2>1. ModuleTyped(mods, BuildModule(mods, ym).value, ym)
    BY BuildTyped
  <2>2. PICK n \in Nat : /\ BitsOf(mods, ym) \in [1..n -> Range(AllBits(ym))]
                         /\ \A c \in 1..n : BitWire(ym, BitsOf(mods, ym)[c]) \in WiresOf(ym)
                         /\ \A dir : filter_ports(ym, BitsOf(mods, ym), dir) \in Seq(1..n)
    BY <1>2, BitsTyped
  <2>3. RawIn(mods, ym) \in Seq(1..n)
    BY <2>2 DEF RawIn
  <2>4. \A i \in DOMAIN RawIn(mods, ym) : RawIn(mods, ym)[i] \in 1..n
    BY <2>3
  <2> QED
    BY <1>1, <2>2, <2>4 DEF RawWire
<1>5. \A w : w \in InputWires(mod) <=> w \in WiresOf(ym) /\ j(w).kind = "input"
  BY <1>1, <1>2 DEF InputWires, DriverOf
<1> HIDE DEF j
<1>6. \A i \in DOMAIN mod.inputs : j(WireIn(mod, i)) = InputInst(mods, ym, i)
  BY <1>1, <1>3, <1>4
<1>7. \A i \in DOMAIN mod.inputs : WireIn(mod, i) \in InputWires(mod)
  BY <1>4, <1>5, <1>6, InputInstIs
<1>8. \A w \in InputWires(mod) : \E i \in DOMAIN mod.inputs : WireIn(mod, i) = w
  BY <1>1, <1>3, <1>5
<1>9. \A i, k \in DOMAIN mod.inputs : WireIn(mod, i) = WireIn(mod, k) => i = k
  BY <1>6, InputInstIs
<1> QED
  BY <1>7, <1>8, <1>9 DEF InputsFit

(* The graph of a built module is in order.                                *)
LEMMA BuiltInOrder ==
    ASSUME NEW mods, NEW ym, Buildable(mods, ym), NEW mod, Built(mods, ym, mod),
           ModuleTyped(mods, mod, ym)
    PROVE  InOrder(mod)
<1> DEFINE W == WiresOf(ym)
           I == InputWires(mod)
<1>1. SourcesFit(mods, mod) /\ Wires(mod) = W /\ \A w \in I : \A v : <<v, w>> \notin BaseDag(mods, ym)
  BY SourcesAre
<1>2. PICK n \in Nat \ {0} : W = 0..(n - 1)
  <2>1. ym.n \in Nat \ {0}
    BY DEF Buildable, Checked, WellFormed
  <2> QED
    BY <2>1 DEF WiresOf
<1>3. PICK r \in [W -> Nat] : \A w \in W : \A v \in FromOf(mods, ym)[w] : r[v] < r[w]
  BY FromIs
<1>4. mod.dag \in Seq(W \X W)
  BY DEF ModuleTyped
<1>5. \A e \in Range(mod.dag) : e[1] \in W /\ e[2] \in W /\ e = <<e[1], e[2]>>
  <2> HIDE DEF W
  <2>1. \A k \in DOMAIN mod.dag : mod.dag[k] \in W \X W
    BY <1>4
  <2> QED
    BY <2>1 DEF Range
<1>6. IsFiniteSet(W)
  BY <1>2, FS_Interval
<1>7. InputsFit(mod)
  BY InputsAre
<1> HIDE DEF W, I
<1>8. ASSUME NEW e \in Range(mod.dag)
      PROVE  Ordered(I, r, e[1], e[2])
  <2>1. CASE e \in BaseDag(mods, ym)
    <3>1. <<e[1], e[2]>> \in BaseDag(mods, ym)
      BY <1>5, <2>1
    <3>2. e[2] \notin I
      BY <1>1, <3>1
    <3>3. e[1] \in FromOf(mods, ym)[e[2]]
      BY <1>5, <3>1, FromIsDag DEF BaseDag, W
    <3> QED
      BY <1>3, <1>5, <3>2, <3>3 DEF Ordered
  <2>2. CASE \E i \in DOMAIN mod.inputs : e[1] = mod.connection_wires[mod.inputs[i]]
    BY <1>7, <2>2 DEF InputsFit, Ordered, I, WireIn
  <2> QED
    BY <2>1, <2>2 DEF Built
<1>9. I \subseteq W
  BY <1>1 DEF I, InputWires
<1>10. SearchGraph(W, mod.dag, I, r)
  BY <1>3, <1>4, <1>6, <1>8, <1>9 DEF SearchGraph
<1>11. \A c \in Range(mod.outputs) : mod.connection_wires[c] \in W
  <2>1. PICK p \in Nat : mod.outputs \in Seq(1..p) /\ mod.connection_wires \in [1..p -> W]
    BY DEF ModuleTyped, InterfaceTyped, W
  <2>2. \A k \in DOMAIN mod.outputs : mod.outputs[k] \in 1..p
    BY <2>1
  <2> QED
    BY <2>1, <2>2 DEF Range
<1> QED
  BY <1>1, <1>2, <1>10, <1>11 DEF InOrder, I

(* The wires that an output needs, but for inputs, depend on what the      *)
(* output depends on.                                                      *)
LEMMA NeedsAre ==
    ASSUME NEW mods, NEW ym, Buildable(mods, ym), NEW mod, Built(mods, ym, mod),
           ModuleTyped(mods, mod, ym)
    PROVE  NeedsFit(mods, mod)
<1> DEFINE W == WiresOf(ym)
           I == InputWires(mod)
           deps == DepsetsOf(mods, ym)
<1>1. /\ SourcesFit(mods, mod) /\ Wires(mod) = W /\ InputsFit(mod)
      /\ \A w \in I : \A v : <<v, w>> \notin BaseDag(mods, ym)
  BY SourcesAre, InputsAre
<1>2. /\ mod.inputs = RawIn(mods, ym) /\ \A i \in DOMAIN mod.inputs : WireIn(mod, i) = RawWire(mods, ym, i)
      /\ \A w \in W : deps[w] \subseteq Range(mod.comb_input_deps[w])
  BY DEF Built, WireIn
<1>3. \A w \in W : \A i : i \in deps[w] <=>
         \/ i \in DOMAIN mod.inputs /\ WireIn(mod, i) = w
         \/ \E v : <<v, w>> \in BaseDag(mods, ym) /\ i \in deps[v]
  BY <1>2, DepsetStep DEF BaseDag
<1>4. \A w \in W : \A v : v \in Depends(mods, mod, w) => <<v, w>> \in BaseDag(mods, ym)
  <2>1. \A w \in W : FromOf(mods, ym)[w] = Depends(mods, mod, w)
    BY DEF Built, FromOf, WireFrom, Depends, Dependencies
  <2> QED
    BY <2>1, FromIsDag DEF BaseDag
<1>5. mod.dag \in Seq(W \X W)
  BY DEF ModuleTyped
<1> HIDE DEF W, I, deps
<1>6. \A e \in Range(mod.dag) : e[1] \in W /\ e[2] \in W /\ e = <<e[1], e[2]>>
  <2>1. \A k \in DOMAIN mod.dag : mod.dag[k] \in W \X W
    BY <1>5
  <2> QED
    BY <2>1 DEF Range
<1>7. ASSUME NEW w \in W, w \in I
      PROVE  IsNeeded(mod, w, w)
  <2>1. PICK i \in DOMAIN mod.inputs : WireIn(mod, i) = w
    BY <1>1, <1>7 DEF InputsFit, I
  <2>2. i \in deps[w]
    BY <1>3, <2>1
  <2> QED
    BY <1>2, <2>1, <2>2 DEF IsNeeded
<1>8. ASSUME NEW w \in W
      PROVE  \E C : Needs(mods, mod, w, C)
  <2> DEFINE cid == Range(mod.comb_input_deps[w])
             C == {x \in W : x \in I \/ deps[x] \subseteq cid}
  <2>1. w \in C
    BY <1>2
  <2>2. ASSUME NEW e \in Range(mod.dag), e[2] \in C
        PROVE  e[1] \in C
    <3>1. CASE e[1] \in I
      BY <1>6, <3>1
    <3>2. CASE e[1] \notin I
      <4>1. <<e[1], e[2]>> \in BaseDag(mods, ym)
        <5>1. \A i \in DOMAIN mod.inputs : mod.connection_wires[mod.inputs[i]] # e[1]
          BY <1>1, <3>2 DEF InputsFit, WireIn, I
        <5>2. e \in BaseDag(mods, ym)
          BY <5>1 DEF Built
        <5> QED
          BY <1>6, <5>2
      <4>2. e[2] \notin I
        BY <1>1, <4>1
      <4>3. deps[e[2]] \subseteq cid
        BY <2>2, <4>2
      <4>4. deps[e[1]] \subseteq deps[e[2]]
        BY <1>3, <1>6, <4>1
      <4> QED
        BY <1>6, <4>3, <4>4
    <3> QED
      BY <3>1, <3>2
  <2>3. ASSUME NEW x \in W, x \in C, x \notin I, NEW v \in Depends(mods, mod, x), v \in I
        PROVE  IsNeeded(mod, w, v)
    <3>1. PICK i \in DOMAIN mod.inputs : WireIn(mod, i) = v
      BY <1>1, <2>3 DEF InputsFit, I
    <3>2. v \in W /\ i \in deps[v]
      <4>1. v \in W
        BY <1>1, <2>3 DEF I, InputWires
      <4> QED
        BY <1>3, <3>1, <4>1
    <3>3. i \in deps[x]
      BY <1>3, <1>4, <2>3, <3>2
    <3>4. i \in cid
      BY <2>3, <3>3
    <3> QED
      BY <3>1, <3>4 DEF IsNeeded
  <2> HIDE DEF C, cid
  <2>4. Needs(mods, mod, w, C)
    <3>1. C \cap Wires(mod) \subseteq W
      BY <1>1
    <3> QED
      BY <1>1, <2>1, <2>2, <2>3, <3>1 DEF Needs, Backwards, I
  <2> QED
    BY <2>4
<1> QED
  BY <1>1, <1>7, <1>8 DEF NeedsFit, I

(* The sinks of a wire are the connections to it.                          *)
IsSink(mods, insts, w, s) ==
    \E k \in DOMAIN insts : \E d \in DOMAIN input_ports(mods, insts[k]) :
       s = <<k, d>> /\ insts[k].con[input_ports(mods, insts[k])[d]] = w
(* The sinks of a wire are the inputs of instances connected to it.        *)
LEMMA SinksAre ==
    ASSUME NEW mods, NEW ym, NEW insts, NEW S, insts \in Seq(S),
           \A k \in DOMAIN insts : InstanceTyped(mods, ym, insts[k]), NEW w
    PROVE  \A s : s \in Range(wires_sinks(mods, insts, w)) <=> IsSink(mods, insts, w, s)
<1> DEFINE Pairs == (DOMAIN insts) \X Int
           ins(k) == input_ports(mods, insts[k])
           at(k) == {j \in DOMAIN ins(k) : insts[k].con[ins(k)[j]] = w}
           on(k) == Increasing(at(k))
           of(k) == [j \in DOMAIN on(k) |-> <<k, on(k)[j]>>]
           rows == [k \in DOMAIN insts |-> of(k)]
<1>1. PICK n \in Nat : DOMAIN insts = 1..n
  OBVIOUS
<1>2. ASSUME NEW k \in 1..n
      PROVE  of(k) \in Seq(Pairs) /\ \A s : s \in Range(of(k)) <=> \E j \in at(k) : s = <<k, j>>
  <2>1. InstanceTyped(mods, ym, insts[k])
    BY <1>1
  <2>2. PICK p \in Nat : ins(k) \in Seq(1..p)
    BY <2>1 DEF InstanceTyped
  <2>3. PICK q \in Nat : DOMAIN ins(k) = 1..q
    BY <2>2
  <2>4. at(k) \subseteq 1..q /\ at(k) \in SUBSET Int
    BY <2>3
  <2>5. IsFiniteSet(1..q)
    BY FS_Interval
  <2>6. IsFiniteSet(at(k))
    <3> HIDE DEF at
    <3> QED
      BY <2>4, <2>5, FS_Subset
  <2> DEFINE c == Cardinality(at(k))
  <2>7. c \in Nat /\ on(k) \in [1..c -> at(k)] /\ \A x \in at(k) : \E j \in 1..c : on(k)[j] = x
    <3> HIDE DEF at
    <3> QED
      BY <2>4, <2>6, IncreasingIs
  <2> HIDE DEF at, on, c
  <2>8. \A j \in 1..c : on(k)[j] \in at(k) /\ <<k, on(k)[j]>> \in Pairs
    BY <1>1, <2>4, <2>7
  <2>9. DOMAIN on(k) = 1..c
    BY <2>7
  <2>10. of(k) \in [1..c -> Pairs]
    <3> HIDE DEF Pairs
    <3> QED
      BY <2>8, <2>9
  <2>11. \A s : s \in Range(of(k)) <=> \E j \in 1..c : s = <<k, on(k)[j]>>
    BY <2>9 DEF Range
  <2> HIDE DEF Pairs, of
  <2>12. of(k) \in Seq(Pairs)
    BY <2>7, <2>10, FunctionIsSeq
  <2> QED
    BY <2>7, <2>8, <2>11, <2>12
<1>3. rows \in [1..n -> Seq(Pairs)] /\ DOMAIN rows = 1..n /\ \A k \in 1..n : rows[k] = of(k)
  <2> HIDE DEF of, Pairs
  <2> QED
    BY <1>1, <1>2
<1>4. rows \in Seq(Seq(Pairs))
  <2> HIDE DEF rows, Pairs
  <2> QED
    BY <1>3, FunctionIsSeq
<1>5. wires_sinks(mods, insts, w) = FlattenSeq(rows)
  BY DEF wires_sinks, Positions
<1>6. \A s : s \in Range(FlattenSeq(rows)) <=> \E k \in 1..n : s \in Range(rows[k])
  <2> HIDE DEF rows, Pairs
  <2> QED
    BY <1>3, <1>4, FlattenIs
<1> HIDE DEF rows, of
<1>7. \A s : s \in Range(FlattenSeq(rows)) <=> \E k \in 1..n : \E j \in at(k) : s = <<k, j>>
  BY <1>2, <1>3, <1>6
<1> QED
  BY <1>1, <1>5, <1>7 DEF IsSink

(* A module that was built lists, for a wire, the inputs of its instances  *)
(* connected to it.                                                        *)
LEMMA BuiltSinks ==
    ASSUME NEW mods, NEW ym, Buildable(mods, ym), NEW mod, Built(mods, ym, mod)
    PROVE  SinksFit(mods, mod)
<1> DEFINE insts == Instances(mods, ym)
           W == WiresOf(ym)
<1>1. /\ insts \in Seq(FourKinds(mods, ym))
      /\ \A k \in DOMAIN insts : InstanceTyped(mods, ym, insts[k])
  BY InstancesTyped DEF Buildable
<1>2. mod.instances = insts /\ mod.sinks = SinksOf(mods, insts, ym) /\ Wires(mod) = W
  BY SourcesAre DEF Built
<1>3. \A w \in W : mod.sinks[w] = wires_sinks(mods, insts, w)
  BY <1>2 DEF SinksOf
<1> HIDE DEF insts, W
<1>4. \A w \in W : \A s : s \in Range(mod.sinks[w]) <=>
         \E k \in DOMAIN insts : \E d \in DOMAIN input_ports(mods, insts[k]) :
            s = <<k, d>> /\ insts[k].con[input_ports(mods, insts[k])[d]] = w
  <2>1. ASSUME NEW w
        PROVE  \A s : s \in Range(wires_sinks(mods, insts, w)) <=> IsSink(mods, insts, w, s)
    BY <1>1, SinksAre
  <2> QED
    BY <1>3, <2>1 DEF IsSink
<1>5. ASSUME NEW k \in DOMAIN insts, NEW d \in DOMAIN input_ports(mods, insts[k])
      PROVE  insts[k].con[input_ports(mods, insts[k])[d]] \in W
  <2>1. PICK n \in Nat : insts[k].con \in [1..n -> W] /\ input_ports(mods, insts[k]) \in Seq(1..n)
    BY <1>1 DEF InstanceTyped, W
  <2>2. input_ports(mods, insts[k])[d] \in 1..n
    BY <2>1
  <2> QED
    BY <2>1, <2>2
<1>6. ASSUME NEW w \in W, NEW s \in Range(mod.sinks[w])
      PROVE  s = <<s[1], s[2]>> /\ s[1] \in DOMAIN insts /\ s[2] \in DOMAIN input_ports(mods, insts[s[1]])
  <2>1. PICK k \in DOMAIN insts : \E d \in DOMAIN input_ports(mods, insts[k]) : s = <<k, d>>
    BY <1>4
  <2> QED
    BY <2>1
<1>7. ASSUME NEW k \in DOMAIN insts, NEW d \in DOMAIN input_ports(mods, insts[k]), NEW w \in W
      PROVE  <<k, d>> \in Range(mod.sinks[w]) <=> w = insts[k].con[input_ports(mods, insts[k])[d]]
  <2>1. ASSUME NEW i, NEW j, <<k, d>> = <<i, j>>
        PROVE  i = k /\ j = d
    BY <2>1
  <2> QED
    BY <1>4, <2>1
<1> QED
  BY <1>2, <1>5, <1>6, <1>7 DEF SinksFit

(* What evaluation uses of the modules of a design.                        *)
InstancesFit(m) ==
    LET insts == built[m].instances
    IN  /\ DOMAIN insts = 1..Len(insts) /\ Len(insts) \in Nat
        /\ \A k \in DOMAIN insts : /\ IsModule(insts[k]) => insts[k].type \in Submodules(m)
                                   /\ insts[k].type = "DFF" => insts[k].kind = "cell"
StagesFit(mod) ==
    mod.gadget # <<>> => \A i \in DOMAIN mod.inputs, o \in DOMAIN mod.outputs :
        mod.gadget[1].latency[mod.inputs[i]] = mod.gadget[1].latency[mod.outputs[o]]
            => i \in Range(mod.comb_input_deps[mod.connection_wires[mod.outputs[o]]])
Facts(m) ==
    LET mod == built[m]
    IN  /\ InOrder(mod) /\ SourcesFit(built, mod) /\ InputsFit(mod) /\ NeedsFit(built, mod)
        /\ SinksFit(built, mod) /\ InstancesFit(m) /\ StagesFit(mod)
        /\ \A w \in Wires(mod) : Range(mod.comb_input_deps[w]) \subseteq DOMAIN mod.inputs
        /\ \E n \in Nat : DOMAIN mod.inputs = 1..n

(* What the construction proved of the modules is what the evaluators need *)
(* of each, and the modules its instances name were built before it.       *)
LEMMA FactsOf ==
    ASSUME Exact, Typed, NEW m \in DOMAIN built
    PROVE  Facts(m) /\ Submodules(m) \subseteq DOMAIN built /\ m \in Names
<1> DEFINE mod == built[m]
           ym == YM(m)
<1>1. Buildable(built, ym) /\ ModuleTyped(built, mod, ym)
  BY BuiltAreTyped
<1>2. m \in Names /\ Submodules(m) \subseteq DOMAIN built /\ mod = BuildModule(built, ym).value
  BY DEF Exact
<1>3. Built(built, ym, mod)
  BY <1>1, <1>2, BuiltIs
<1> HIDE DEF mod
<1>4. InOrder(mod) /\ SourcesFit(built, mod) /\ InputsFit(mod) /\ NeedsFit(built, mod)
  BY <1>1, <1>3, BuiltInOrder, SourcesAre, InputsAre, NeedsAre
<1>5. SinksFit(built, mod) /\ Wires(mod) = WiresOf(ym)
  BY <1>1, <1>3, BuiltSinks, SourcesAre, Zenon
<1>6. StagesFit(mod)
  BY <1>3 DEF Built, StagesFit
<1>7. \A w \in Wires(mod) : Range(mod.comb_input_deps[w]) \subseteq DOMAIN mod.inputs
  BY <1>1, <1>5 DEF ModuleTyped
<1>8. \E n \in Nat : DOMAIN mod.inputs = 1..n
  <2>1. PICK n \in Nat : mod.inputs \in Seq(1..n)
    BY <1>1 DEF ModuleTyped, InterfaceTyped
  <2> QED
    BY <2>1
<1>9. InstancesFit(m)
  <2> DEFINE insts == Instances(built, ym)
  <2>1. built[m].instances = insts
    BY <1>3 DEF Built, mod
  <2>2. WellFormed(ym) /\ ym.cells \in Seq(Range(ym.cells))
    BY <1>1 DEF Buildable, Checked
  <2>3. insts \in Seq(FourKinds(built, ym)) /\ \A k \in DOMAIN insts : Sound(insts[k], ym)
    BY <2>2, InstancesAre
  <2> HIDE DEF insts
  <2>4. DOMAIN insts = 1..Len(insts) /\ Len(insts) \in Nat
    BY <2>3
  <2>5. ASSUME NEW k \in DOMAIN insts, IsModule(insts[k])
        PROVE  insts[k].type \in Submodules(m)
    <3>1. insts[k].kind = "cell" /\ ~is_gate(insts[k].type)
      BY <2>5 DEF IsModule
    <3>2. PICK c \in Range(ym.cells) : insts[k].type = c.type
      BY <2>3, <3>1 DEF Sound
    <3> QED
      BY <3>1, <3>2 DEF Submodules, Cells
  <2>6. ASSUME NEW k \in DOMAIN insts, insts[k].type = "DFF"
        PROVE  insts[k].kind = "cell"
    <3>1. insts[k] \in FourKinds(built, ym)
      BY <2>3
    <3>2. \A i \in Range(tie_instances) : i.type # "DFF"
      BY DEF tie_instances, Range, Instance
    <3>3. \A i \in Range(clock_instances(module_clock_wire(built, ym))) : i.type # "DFF"
      BY DEF clock_instances, Range, Instance, None
    <3>4. \A i \in Range(input_instances(ym, ports(ym, module_clock_wire(built, ym)))) : i.type # "DFF"
      BY DEF input_instances, Range, Instance, None
    <3>5. \A i \in Range(module_instances(built, ym)) : i.kind = "cell"
      <4>1. \A c \in DOMAIN ym.cells : module_instances(built, ym)[c].kind = "cell"
        BY DEF module_instances, Instance
      <4>2. DOMAIN module_instances(built, ym) = DOMAIN ym.cells
        BY DEF module_instances
      <4> QED
        BY <4>1, <4>2 DEF Range
    <3> QED
      BY <2>6, <3>1, <3>2, <3>3, <3>4, <3>5 DEF FourKinds
  <2> QED
    BY <2>1, <2>4, <2>5, <2>6, Zenon DEF InstancesFit
<1> QED
  BY <1>2, <1>4, <1>5, <1>6, <1>7, <1>8, <1>9 DEF Facts, mod

(* A wire that an instance drives comes after the wires that are connected *)
(* to the inputs that its output depends on.                               *)
Feeds(mod, w, k, d) ==
    \E v \in Wires(mod) : /\ v \in Depends(built, mod, w) /\ <<v, w>> \in Range(mod.dag)
                          /\ <<k, d>> \in Range(mod.sinks[v])

(* The inputs a gate depends on are its inputs, by number.                 *)
LEMMA GateInputs ==
    ASSUME NEW type, is_gate(type)
    PROVE  LET g == GateOf(type)
           IN  /\ DOMAIN g.deps = 1..Len(g.deps)
               /\ \A d \in DOMAIN g.deps : d \in DOMAIN g.inputs /\ g.inputs[d] = g.deps[d]
               /\ type = "DFF" => 2 \in DOMAIN g.inputs
<1>1. ASSUME NEW n \in {1, 2, 3}
      PROVE  LET g == Comb(n)
             IN  /\ DOMAIN g.deps = 1..Len(g.deps)
                 /\ \A d \in DOMAIN g.deps : d \in DOMAIN g.inputs /\ g.inputs[d] = g.deps[d]
  <2>1. n \in Nat
    OBVIOUS
  <2>2. [i \in 1..n |-> i] \in Seq(Nat)
    <3>1. [i \in 1..n |-> i] \in [1..n -> Nat]
      OBVIOUS
    <3> QED
      BY <2>1, <3>1, FunctionIsSeq
  <2> QED
    BY <2>2 DEF Comb
<1>2. LET g == Dff
      IN  /\ DOMAIN g.deps = 1..Len(g.deps)
          /\ \A d \in DOMAIN g.deps : d \in DOMAIN g.inputs /\ g.inputs[d] = g.deps[d]
          /\ 2 \in DOMAIN g.inputs
  BY DEF Dff
<1>3. type \in {"BUF", "NOT", "AND", "OR", "XOR", "MUX", "DFF"}
  BY DEF is_gate, GateTypes
<1>4. type # "DFF" => GateOf(type) \in {Comb(1), Comb(2), Comb(3)}
  BY <1>3 DEF GateOf
<1>5. type = "DFF" => GateOf(type) = Dff
  BY DEF GateOf
<1> QED
  BY <1>1, <1>2, <1>4, <1>5

Joins(mod, k, d, v) ==
    v \in Wires(mod) /\ \A u \in Wires(mod) : <<k, d>> \in Range(mod.sinks[u]) <=> u = v
(* An input of an instance is a sink of exactly one wire.                  *)
LEMMA SinkOf ==
    ASSUME NEW mods, NEW mod, SinksFit(mods, mod), NEW k \in DOMAIN mod.instances,
           NEW d \in DOMAIN input_ports(mods, mod.instances[k])
    PROVE  Joins(mod, k, d, mod.instances[k].con[input_ports(mods, mod.instances[k])[d]])
BY Zenon DEF SinksFit, Joins

(* A wire driven by a gate depends on the wires of the gate's inputs.      *)
LEMMA GateFeeds ==
    ASSUME NEW m, Facts(m), NEW w \in Wires(built[m]),
           LET i == built[m].instances[built[m].source[w][1]]
           IN  i.kind = "cell" /\ is_gate(i.type)
    PROVE  LET k == built[m].source[w][1]
               deps == GateOf(built[m].instances[k].type).deps
           IN  \A d \in 1..Len(deps) : Feeds(built[m], w, k, d)
<1> DEFINE mod == built[m]
           k == mod.source[w][1]
           o == mod.source[w][2]
           i == mod.instances[k]
           g == GateOf(i.type)
<1>1. /\ DOMAIN g.deps = 1..Len(g.deps)
      /\ \A d \in DOMAIN g.deps : d \in DOMAIN g.inputs /\ g.inputs[d] = g.deps[d]
  BY GateInputs, Zenon
<1>2. k \in DOMAIN mod.instances /\ SinksFit(built, mod)
      /\ \A c \in Range(Dependencies(built, i, o)) : <<i.con[c], w>> \in Range(mod.dag)
  BY Zenon DEF Facts, SourcesFit
<1>3. Dependencies(built, i, o) = g.deps /\ input_ports(built, i) = g.inputs
  BY Zenon DEF Dependencies, comb_deps, input_ports, Interface
<1>4. Depends(built, mod, w) = {i.con[c] : c \in Range(Dependencies(built, i, o))}
  BY Zenon DEF Depends
<1> HIDE DEF mod, i, g, k, o
<1>5. ASSUME NEW d \in DOMAIN g.deps
      PROVE  Feeds(mod, w, k, d)
  <2> DEFINE v == i.con[g.inputs[d]]
  <2>1. d \in DOMAIN input_ports(built, i)
    BY <1>1, <1>3, Zenon
  <2>2. g.inputs[d] \in Range(Dependencies(built, i, o))
    BY <1>1, <1>3, Zenon DEF Range
  <2>3. v \in Wires(mod) /\ \A u \in Wires(mod) : <<k, d>> \in Range(mod.sinks[u]) <=> u = v
    <3>1. d \in DOMAIN input_ports(built, mod.instances[k])
      BY <2>1, Zenon DEF i
    <3>2. Joins(mod, k, d, mod.instances[k].con[input_ports(built, mod.instances[k])[d]])
      BY <1>2, <3>1, SinkOf, Zenon
    <3>3. mod.instances[k].con[input_ports(built, mod.instances[k])[d]] = v
      BY <1>3, Zenon DEF i
    <3> QED
      BY <3>2, <3>3, Zenon DEF Joins
  <2> HIDE DEF v
  <2>4. v \in Depends(built, mod, w) /\ <<v, w>> \in Range(mod.dag)
    BY <1>2, <1>4, <2>2, Zenon DEF v
  <2> QED
    BY <2>3, <2>4, Zenon DEF Feeds
<1> QED
  BY <1>1, <1>5, Zenon DEF mod, i, g, k

OutWireOf(t, o) == built[t].connection_wires[built[t].outputs[o]]
(* A wire driven by an output of a module depends on the wires of the      *)
(* inputs that output depends on.                                          *)
LEMMA ModuleFeeds ==
    ASSUME NEW m, Facts(m), NEW w \in Wires(built[m]),
           IsModule(built[m].instances[built[m].source[w][1]]),
           LET t == built[m].instances[built[m].source[w][1]].type IN Facts(t)
    PROVE  LET k == built[m].source[w][1]
               o == built[m].source[w][2]
               t == built[m].instances[k].type
           IN  /\ o \in DOMAIN built[t].outputs /\ OutWireOf(t, o) \in Wires(built[t])
               /\ \A i \in Range(built[t].comb_input_deps[OutWireOf(t, o)]) : Feeds(built[m], w, k, i)
<1> DEFINE mod == built[m]
           k == mod.source[w][1]
           o == mod.source[w][2]
           i == mod.instances[k]
           t == i.type
           sub == built[t]
           cid == sub.comb_input_deps[OutWireOf(t, o)]
<1>1. /\ k \in DOMAIN mod.instances /\ SinksFit(built, mod) /\ o \in DOMAIN output_ports(built, i)
      /\ \A c \in Range(Dependencies(built, i, o)) : <<i.con[c], w>> \in Range(mod.dag)
  BY Zenon DEF Facts, SourcesFit
<1>2. i.kind = "cell" /\ ~is_gate(t)
  BY Zenon DEF IsModule
<1>3. /\ output_ports(built, i) = sub.outputs /\ input_ports(built, i) = sub.inputs
      /\ Dependencies(built, i, o) = Pick(sub.inputs, cid)
  BY <1>2, Zenon DEF Dependencies, comb_deps, input_ports, output_ports, Interface, OutWireOf
<1>4. Depends(built, mod, w) = {i.con[c] : c \in Range(Dependencies(built, i, o))}
  BY Zenon DEF Depends
<1>5. Facts(t)
  BY Zenon
<1> HIDE DEF mod, i, k, o, t, sub
<1>6. o \in DOMAIN sub.outputs /\ OutWireOf(t, o) \in Wires(sub)
  BY <1>1, <1>3, <1>5, Zenon DEF Facts, InOrder, Range, sub, OutWireOf
<1>7. Range(cid) \subseteq DOMAIN sub.inputs
  BY <1>5, <1>6, Zenon DEF Facts, sub
<1> HIDE DEF cid
<1>8. ASSUME NEW d \in Range(cid)
      PROVE  Feeds(mod, w, k, d)
  <2> DEFINE v == i.con[sub.inputs[d]]
  <2>1. d \in DOMAIN input_ports(built, i)
    BY <1>3, <1>7, Zenon
  <2>2. sub.inputs[d] \in Range(Dependencies(built, i, o))
    BY <1>3, Zenon DEF Range, Pick
  <2>3. v \in Wires(mod) /\ \A u \in Wires(mod) : <<k, d>> \in Range(mod.sinks[u]) <=> u = v
    <3>1. d \in DOMAIN input_ports(built, mod.instances[k])
      BY <2>1, Zenon DEF i
    <3>2. Joins(mod, k, d, mod.instances[k].con[input_ports(built, mod.instances[k])[d]])
      BY <1>1, <3>1, SinkOf, Zenon
    <3>3. mod.instances[k].con[input_ports(built, mod.instances[k])[d]] = v
      BY <1>3, Zenon DEF i
    <3> QED
      BY <3>2, <3>3, Zenon DEF Joins
  <2> HIDE DEF v
  <2>4. v \in Depends(built, mod, w) /\ <<v, w>> \in Range(mod.dag)
    BY <1>1, <1>4, <2>2, Zenon DEF v
  <2> QED
    BY <2>3, <2>4, Zenon DEF Feeds
<1> QED
  BY <1>6, <1>8, Zenon DEF mod, i, k, o, t, sub, cid

-----------------------------------------------------------------------------
(* Identifiers.  How many of them an instance takes.                       *)
Weight(i, size) == IF IsModule(i) THEN size[i.type] ELSE IF i.kind = "cell" THEN 1 ELSE 0
Sums(t, n, insts, size) ==
    /\ t[0] = 0 /\ \A k \in 0..n : t[k] \in Nat
    /\ \A k \in 1..n : t[k] = t[k - 1] + Weight(insts[k], size)

(* The identifiers taken by the instances before each are sums of weights. *)
LEMMA TakenIs ==
    ASSUME NEW insts, NEW size, NEW n \in Nat, n = Len(insts),
           \A k \in 1..n : Weight(insts[k], size) \in Nat
    PROVE  Sums(Taken(insts, size), n, insts, size)
<1> DEFINE step == [x \in (1..n) \X Nat |-> x[2] + Weight(insts[x[1]], size)]
           Solves(f) == f = [k \in 0..n |-> IF k = 0 THEN 0
                                ELSE f[k - 1] + Weight(insts[k], size)]
           t == CHOOSE f : Solves(f)
<1>1. step \in [(1..n) \X Nat -> Nat]
  OBVIOUS
<1>2. PICK f : RecursesUpTo(f, Nat, 0, n, step)
  <2> HIDE DEF step
  <2> QED
    BY <1>1, RecursionUpTo
<1>3. /\ f = [k \in 0..n |-> f[k]] /\ f \in [0..n -> Nat] /\ f[0] = 0
      /\ \A k \in 1..n : f[k] = step[<<k, f[k - 1]>>]
  BY <1>2 DEF RecursesUpTo
<1>4. ASSUME NEW k \in 1..n
      PROVE  f[k] = f[k - 1] + Weight(insts[k], size)
  <2>1. k - 1 \in 0..n /\ f[k - 1] \in Nat
    BY <1>3
  <2>2. <<k, f[k - 1]>> \in (1..n) \X Nat
    BY <2>1
  <2>3. step[<<k, f[k - 1]>>] = f[k - 1] + Weight(insts[k], size)
    BY <2>2
  <2> QED
    BY <1>3, <2>3
<1>5. Solves(f)
  <2>1. ASSUME NEW k \in 0..n
        PROVE  f[k] = IF k = 0 THEN 0 ELSE f[k - 1] + Weight(insts[k], size)
    <3>1. CASE k = 0
      BY <1>3, <3>1
    <3>2. CASE k \in 1..n
      BY <1>4, <3>2
    <3> QED
      BY <3>1, <3>2
  <2> HIDE DEF step
  <2> QED
    BY <1>3, <2>1
<1>6. Solves(t)
  BY <1>5
<1>7. Taken(insts, size) = t
  BY DEF Taken, Weight
<1> HIDE DEF t
<1>8. t[0] = 0 /\ \A k \in 1..n : t[k] = t[k - 1] + Weight(insts[k], size)
  BY <1>6
<1>9. \A k \in 0..n : t[k] \in Nat
  <2> SUFFICES ASSUME NEW b \in 0..n, t[b] \notin Nat
               PROVE  FALSE
    OBVIOUS
  <2> DEFINE Bad == {k \in 0..n : t[k] \notin Nat}
  <2>1. PICK k \in Bad : \A j \in Bad : k <= j
    <3>1. Bad \subseteq Nat /\ Bad # {}
      OBVIOUS
    <3> HIDE DEF Bad
    <3> QED
      BY <3>1, LeastIndex
  <2>2. k \in 1..n /\ k - 1 \in 0..n /\ k - 1 \notin Bad
    BY <1>8, <2>1
  <2>3. t[k - 1] \in Nat
    BY <2>2
  <2> QED
    BY <1>8, <2>1, <2>2, <2>3
<1> QED
  BY <1>7, <1>8, <1>9 DEF Sums

SameWeights(insts, n, s1, s2) == \A k \in 1..n : Weight(insts[k], s1) = Weight(insts[k], s2)

(* Equal weights have equal sums.                                          *)
LEMMA SameSums ==
    ASSUME NEW insts, NEW s1, NEW s2, NEW n \in Nat, NEW t1, NEW t2,
           Sums(t1, n, insts, s1), Sums(t2, n, insts, s2),
           SameWeights(insts, n, s1, s2)
    PROVE  \A k \in 0..n : t1[k] = t2[k]
<1> SUFFICES ASSUME NEW b \in 0..n, t1[b] # t2[b]
             PROVE  FALSE
  OBVIOUS
<1> DEFINE Bad == {k \in 0..n : t1[k] # t2[k]}
<1>1. PICK k \in Bad : \A j \in Bad : k <= j
  <2>1. Bad \subseteq Nat /\ Bad # {}
    OBVIOUS
  <2> HIDE DEF Bad
  <2> QED
    BY <2>1, LeastIndex
<1>2. k \in 1..n /\ k - 1 \in 0..n /\ k - 1 \notin Bad
  BY <1>1 DEF Sums
<1>3. t1[k - 1] = t2[k - 1]
  BY <1>2
<1> QED
  BY <1>1, <1>2, <1>3 DEF Sums, SameWeights

(* Sums of weights grow with the instances.                                *)
LEMMA SumsGrow ==
    ASSUME NEW insts, NEW size, NEW n \in Nat, NEW t, Sums(t, n, insts, size),
           \A k \in 1..n : Weight(insts[k], size) \in Nat
    PROVE  \A j, k \in 0..n : j <= k => t[j] <= t[k]
<1> SUFFICES ASSUME NEW j \in 0..n, NEW b \in 0..n, j <= b, ~(t[j] <= t[b])
             PROVE  FALSE
  OBVIOUS
<1> DEFINE Bad == {k \in 0..n : j <= k /\ ~(t[j] <= t[k])}
<1>1. PICK k \in Bad : \A x \in Bad : k <= x
  <2>1. Bad \subseteq Nat /\ Bad # {}
    OBVIOUS
  <2> HIDE DEF Bad
  <2> QED
    BY <2>1, LeastIndex
<1>2. t[j] \in Nat
  BY DEF Sums
<1>3. k \in 1..n /\ k - 1 \in 0..n /\ k - 1 \notin Bad /\ j <= k - 1
  BY <1>1, <1>2
<1>4. t[j] <= t[k - 1]
  BY <1>3
<1>5. t[k] = t[k - 1] + Weight(insts[k], size) /\ t[k - 1] \in Nat /\ Weight(insts[k], size) \in Nat
  BY <1>3 DEF Sums
<1> QED
  BY <1>1, <1>2, <1>4, <1>5

-----------------------------------------------------------------------------
(* The modules a module instantiates have lower ranks.                     *)
Acyclic == Exact /\ Typed /\ ~HasLoop(Instantiates)
Ranked(h) ==
    /\ h \in [DOMAIN built -> 0..(Cardinality(Names) - 1)]
    /\ \A m \in DOMAIN built : \A s \in Submodules(m) : s \in DOMAIN built /\ h[s] < h[m]

(* Modules have ranks: an instance's module has a smaller one.             *)
LEMMA ModuleRanks ==
    ASSUME Acyclic
    PROVE  \E h : Ranked(h)
<1> DEFINE B == DOMAIN built
           edges == {e \in Instantiates : e[1] \in B /\ e[2] \in B}
<1>1. IsFiniteSet(Names) /\ Cardinality(Names) \in Nat /\ B \subseteq Names
  BY NamesAre DEF Acyclic, Exact
<1>2. IsFiniteSet(B) /\ Cardinality(B) \in Nat /\ Cardinality(B) <= Cardinality(Names)
  BY <1>1, FS_Subset, FS_CardinalityType
<1>3. /\ IsFiniteSet(Instantiates)
      /\ \A e : e \in Instantiates <=> \E m \in Names : \E s \in Submodules(m) : e = <<s, m>>
  BY InstantiatesIs DEF Acyclic
<1>4. IsFiniteSet(edges) /\ edges \in SUBSET (B \X B)
  <2>1. edges \subseteq Instantiates
    OBVIOUS
  <2>2. IsFiniteSet(edges)
    BY <1>3, <2>1, FS_Subset
  <2>3. \A e \in edges : e \in B \X B
    BY <1>3
  <2> QED
    BY <2>2, <2>3
<1>5. ~HasLoop(edges)
  <2> SUFFICES ASSUME HasLoop(edges)
               PROVE  FALSE
    OBVIOUS
  <2>1. PICK X : Loop(edges, X)
    BY <1>4, LoopIs
  <2>2. Loop(Instantiates, X)
    BY <2>1 DEF Loop
  <2> QED
    BY <1>3, <2>2, LoopIs DEF Acyclic
<1> HIDE DEF edges, B
<1>6. PICK r \in [B -> Nat] : \A e \in edges : r[e[1]] < r[e[2]]
  BY <1>4, <1>5, LoopFreeRanks
<1>7. ASSUME NEW m \in B, NEW s \in Submodules(m)
      PROVE  s \in B /\ r[s] < r[m]
  <2>1. m \in Names /\ s \in B
    BY <1>1, <1>7 DEF Acyclic, Exact, B
  <2>2. <<s, m>> \in edges
    BY <1>3, <1>7, <2>1 DEF edges
  <2>3. r[<<s, m>>[1]] < r[<<s, m>>[2]]
    BY <1>6, <2>2
  <2> QED
    BY <2>1, <2>3
<1> DEFINE below(m) == {x \in B : r[x] < r[m]}
           h == [m \in B |-> Cardinality(below(m))]
<1>8. ASSUME NEW m \in B
      PROVE  Cardinality(below(m)) \in 0..(Cardinality(Names) - 1)
  <2>1. below(m) \in SUBSET B /\ below(m) # B
    <3>1. m \notin below(m)
      BY <1>6, <1>8
    <3> QED
      BY <1>8, <3>1
  <2> HIDE DEF below
  <2>2. Cardinality(below(m)) \in Nat /\ Cardinality(below(m)) < Cardinality(B)
    BY <1>2, <2>1, StrictSubset
  <2> QED
    BY <1>1, <1>2, <2>2
<1>9. ASSUME NEW m \in B, NEW s \in Submodules(m)
      PROVE  s \in B /\ Cardinality(below(s)) < Cardinality(below(m))
  <2>1. s \in B /\ r[s] < r[m]
    BY <1>7, <1>9
  <2>2. \A x \in B : r[x] \in Nat
    BY <1>6
  <2>3. below(s) \subseteq below(m)
    BY <1>9, <2>1, <2>2
  <2>4. s \in below(m) /\ s \notin below(s)
    BY <2>1, <2>2
  <2>5. IsFiniteSet(below(m))
    <3>1. below(m) \subseteq B
      OBVIOUS
    <3> HIDE DEF below
    <3> QED
      BY <1>2, <3>1, FS_Subset
  <2> HIDE DEF below
  <2>6. below(s) \in SUBSET below(m) /\ below(s) # below(m)
    BY <2>3, <2>4
  <2> QED
    BY <2>1, <2>5, <2>6, StrictSubset
<1>10. Ranked(h)
  <2> HIDE DEF below
  <2>1. h \in [B -> 0..(Cardinality(Names) - 1)] /\ \A m \in B : h[m] = Cardinality(below(m))
    BY <1>8
  <2> HIDE DEF h
  <2> QED
    BY <1>9, <2>1 DEF Ranked, B
<1> QED
  BY <1>10

(* Among modules there is one of least rank.                               *)
LEMMA LeastRank ==
    ASSUME NEW B, NEW h, \A m \in B : h[m] \in Nat, NEW Bad \in SUBSET B, Bad # {}
    PROVE  \E m \in Bad : \A x \in B : h[x] < h[m] => x \notin Bad
<1> DEFINE T == {h[m] : m \in Bad}
<1>1. PICK t \in T : \A y \in T : t <= y
  <2>1. T \subseteq Nat /\ T # {}
    OBVIOUS
  <2> HIDE DEF T
  <2> QED
    BY <2>1, LeastIndex
<1>2. PICK m \in Bad : t = h[m]
  OBVIOUS
<1>3. \A x \in Bad : h[m] <= h[x]
  BY <1>1, <1>2
<1> QED
  BY <1>2, <1>3

(* The instances of a module have weights.                                 *)
SizeFrom(m, size) == 1 + Taken(built[m].instances, size)[Len(built[m].instances)]

(* An instance's weight is a number once the sizes of its module's         *)
(* submodules are, and so is the size of the module.                       *)
LEMMA WeightsAre ==
    ASSUME Acyclic, NEW m \in DOMAIN built, NEW size,
           \A s \in Submodules(m) : size[s] \in Nat
    PROVE  /\ Len(built[m].instances) \in Nat
           /\ \A k \in 1..Len(built[m].instances) : Weight(built[m].instances[k], size) \in Nat
           /\ Sums(Taken(built[m].instances, size), Len(built[m].instances),
                   built[m].instances, size)
           /\ SizeFrom(m, size) \in Nat \ {0}
<1> DEFINE insts == built[m].instances
           n == Len(insts)
<1>1. InstancesFit(m)
  BY FactsOf DEF Acyclic, Facts
<1>2. DOMAIN insts = 1..n /\ n \in Nat
  BY <1>1 DEF InstancesFit
<1>3. ASSUME NEW k \in 1..n
      PROVE  Weight(insts[k], size) \in Nat
  <2>1. IsModule(insts[k]) => insts[k].type \in Submodules(m)
    BY <1>1, <1>2 DEF InstancesFit
  <2> QED
    BY <2>1 DEF Weight
<1> HIDE DEF n
<1>4. Sums(Taken(insts, size), n, insts, size)
  BY <1>2, <1>3, TakenIs DEF n
<1>5. Taken(insts, size)[n] \in Nat
  BY <1>2, <1>4 DEF Sums
<1> QED
  BY <1>2, <1>3, <1>4, <1>5 DEF SizeFrom, n

(* The size of a module depends only on those of its submodules.           *)
LEMMA SameSize ==
    ASSUME Acyclic, NEW m \in DOMAIN built, NEW s1, NEW s2,
           \A s \in Submodules(m) : s1[s] \in Nat /\ s1[s] = s2[s]
    PROVE  SizeFrom(m, s1) = SizeFrom(m, s2)
<1> DEFINE insts == built[m].instances
           n == Len(insts)
<1>1. InstancesFit(m)
  BY FactsOf DEF Acyclic, Facts
<1>2. DOMAIN insts = 1..n /\ n \in Nat
  BY <1>1 DEF InstancesFit
<1>3. ASSUME NEW k \in 1..n
      PROVE  Weight(insts[k], s1) = Weight(insts[k], s2)
  <2>1. IsModule(insts[k]) => insts[k].type \in Submodules(m)
    BY <1>1, <1>2 DEF InstancesFit
  <2> QED
    BY <2>1 DEF Weight
<1>4. Sums(Taken(insts, s1), n, insts, s1) /\ Sums(Taken(insts, s2), n, insts, s2)
  BY WeightsAre
<1>5. \A k \in 0..n : Taken(insts, s1)[k] = Taken(insts, s2)[k]
  <2>1. n \in Nat /\ \A k \in 1..n : Weight(insts[k], s1) = Weight(insts[k], s2)
    BY <1>2, <1>3
  <2>2. PICK a : a = insts
    OBVIOUS
  <2>3. PICK u, v : u = Taken(insts, s1) /\ v = Taken(insts, s2)
    OBVIOUS
  <2>4. PICK l \in Nat : l = n
    BY <2>1
  <2>5. Sums(u, l, a, s1) /\ Sums(v, l, a, s2)
    BY <1>4, <2>2, <2>3, <2>4
  <2>6. SameWeights(a, l, s1, s2)
    BY <2>1, <2>2, <2>4 DEF SameWeights
  <2>7. \A k \in 0..l : u[k] = v[k]
    BY <2>5, <2>6, SameSums
  <2> QED
    BY <2>3, <2>4, <2>7
<1> QED
  BY <1>2, <1>5 DEF SizeFrom

(* The sizes of the modules of an acyclic design: by ranks.                *)
SizesFit(size) == size = [m \in DOMAIN built |-> SizeFrom(m, size)]

(* The recursion over modules that gives their sizes has a solution.       *)
LEMMA SizesExist ==
    ASSUME Acyclic
    PROVE  \E size : SizesFit(size)
<1> DEFINE B == DOMAIN built
           A == [B -> Nat]
           zero == [m \in B |-> 0]
           next(f) == [m \in B |-> SizeFrom(m, f)]
           step == [x \in Nat \X A |-> next(x[2])]
<1>1. PICK h : Ranked(h)
  BY ModuleRanks
<1>2. \A m \in B : \A s \in Submodules(m) : s \in B /\ h[s] < h[m]
  BY <1>1 DEF Ranked
<1>3. Cardinality(Names) \in Nat /\ \A m \in B : h[m] \in Nat /\ h[m] < Cardinality(Names)
  <2>1. Cardinality(Names) \in Nat
    BY NamesAre DEF Acyclic, Exact
  <2> QED
    BY <1>1, <2>1 DEF Ranked
<1>4. ASSUME NEW f \in A
      PROVE  next(f) \in A
  <2>1. ASSUME NEW m \in B
        PROVE  SizeFrom(m, f) \in Nat
    <3>1. \A s \in Submodules(m) : f[s] \in Nat
      BY <1>2
    <3> QED
      BY <3>1, WeightsAre
  <2> QED
    BY <2>1
<1>5. step \in [Nat \X A -> A]
  <2> HIDE DEF next, A
  <2> QED
    BY <1>4
<1>6. zero \in A
  OBVIOUS
<1>7. PICK g : Iterates(g, A, zero, step)
  <2> HIDE DEF step, A, zero
  <2> QED
    BY <1>5, <1>6, RecursionExists
<1>8. g \in [Nat -> A] /\ \A n \in Nat : g[n + 1] = next(g[n])
  <2>1. g \in [Nat -> A] /\ \A n \in Nat : g[n + 1] = step[<<n + 1, g[n]>>]
    BY <1>7 DEF Iterates
  <2>2. \A n \in Nat : <<n + 1, g[n]>> \in Nat \X A
    <3> HIDE DEF A
    <3> QED
      BY <2>1
  <2>3. \A n \in Nat : step[<<n + 1, g[n]>>] = next(g[n])
    <3> HIDE DEF next, A
    <3> QED
      BY <2>2
  <2> QED
    BY <2>1, <2>3
<1>9. ASSUME NEW n \in Nat, NEW m \in B
      PROVE  g[n] \in A /\ g[n + 1] \in A /\ g[n][m] \in Nat /\ g[n + 1][m] = SizeFrom(m, g[n])
  <2>1. n + 1 \in Nat /\ g[n] \in A /\ g[n + 1] \in A
    BY <1>8
  <2> QED
    BY <1>8, <2>1
<1> DEFINE Bad == {n \in Nat : \E m \in B : h[m] < n /\ g[n][m] # g[n + 1][m]}
<1>10. Bad = {}
  <2> SUFFICES ASSUME Bad # {}
               PROVE  FALSE
    OBVIOUS
  <2>1. PICK n \in Bad : \A y \in Bad : n <= y
    <3>1. Bad \subseteq Nat
      OBVIOUS
    <3> HIDE DEF Bad
    <3> QED
      BY <3>1, LeastIndex
  <2>2. PICK m \in B : h[m] < n /\ g[n][m] # g[n + 1][m]
    OBVIOUS
  <2>3. n \in Nat /\ n - 1 \in Nat /\ n - 1 + 1 = n /\ n - 1 \notin Bad
    BY <1>3, <2>1, <2>2
  <2>4. ASSUME NEW s \in Submodules(m)
        PROVE  g[n - 1][s] \in Nat /\ g[n - 1][s] = g[n][s]
    <3>1. s \in B /\ h[s] < h[m] /\ h[s] \in Nat /\ h[m] \in Nat
      BY <1>2, <1>3
    <3>2. h[s] < n - 1
      BY <2>2, <2>3, <3>1
    <3> QED
      BY <1>9, <2>3, <3>1, <3>2
  <2>5. SizeFrom(m, g[n - 1]) = SizeFrom(m, g[n])
    BY <2>4, SameSize
  <2>6. g[n][m] = SizeFrom(m, g[n - 1]) /\ g[n + 1][m] = SizeFrom(m, g[n])
    BY <1>9, <2>3
  <2> QED
    BY <2>2, <2>5, <2>6
<1> DEFINE N == Cardinality(Names)
<1>11. g[N] = g[N + 1]
  <2>1. \A m \in B : g[N][m] = g[N + 1][m]
    BY <1>3, <1>10
  <2>2. N + 1 \in Nat /\ g[N] \in [B -> Nat] /\ g[N + 1] \in [B -> Nat]
    BY <1>3, <1>8
  <2> HIDE DEF N
  <2> QED
    BY <2>1, <2>2
<1>12. g[N + 1] = next(g[N])
  BY <1>3, <1>8
<1>13. SizesFit(g[N])
  BY <1>11, <1>12 DEF SizesFit
<1> QED
  BY <1>13

(* Size is that solution, and positive.                                    *)
LEMMA SizeIs ==
    ASSUME Acyclic
    PROVE  /\ \A m \in DOMAIN built : Size[m] = SizeFrom(m, Size)
           /\ \A m \in DOMAIN built : Size[m] \in Nat \ {0}
<1> DEFINE B == DOMAIN built
<1>1. SizesFit(Size)
  <2>1. PICK f : SizesFit(f)
    BY SizesExist
  <2>2. Size = CHOOSE size : SizesFit(size)
    BY DEF Size, SizesFit, SizeFrom
  <2> QED
    BY <2>1, <2>2
<1>2. \A m \in B : Size[m] = SizeFrom(m, Size)
  BY <1>1 DEF SizesFit
<1>3. PICK h : Ranked(h)
  BY ModuleRanks
<1>4. Cardinality(Names) \in Nat
  BY NamesAre DEF Acyclic, Exact
<1>5. \A m \in B : h[m] \in Nat
  BY <1>3, <1>4 DEF Ranked
<1>6. \A m \in B : \A s \in Submodules(m) : s \in B /\ h[s] < h[m]
  BY <1>3 DEF Ranked
<1> DEFINE Bad == {m \in B : Size[m] \notin Nat}
<1>7. Bad = {}
  <2> SUFFICES ASSUME Bad # {}
               PROVE  FALSE
    OBVIOUS
  <2>1. Bad \in SUBSET B
    OBVIOUS
  <2>2. PICK m \in Bad : \A x \in B : h[x] < h[m] => x \notin Bad
    <3> HIDE DEF Bad, B
    <3> QED
      BY <1>5, <2>1, LeastRank
  <2>3. \A s \in Submodules(m) : Size[s] \in Nat
    BY <1>6, <2>2
  <2>4. SizeFrom(m, Size) \in Nat \ {0}
    BY <2>3, WeightsAre
  <2> QED
    BY <1>2, <2>4
<1>8. ASSUME NEW m \in B
      PROVE  Size[m] \in Nat \ {0}
  <2>1. \A s \in Submodules(m) : Size[s] \in Nat
    BY <1>6, <1>7
  <2> QED
    BY <1>2, <2>1, WeightsAre
<1> QED
  BY <1>2, <1>8

-----------------------------------------------------------------------------
(* What an evaluator is: the order of its wires, the queries that it makes *)
(* to its instances, and the identifiers of these.                         *)
ModulesIn(m) == {i \in DOMAIN built[m].instances : IsModule(built[m].instances[i])}
TypeAt(m, i) == built[m].instances[i].type
IdsFit(e) ==
    LET insts == built[e.module].instances
    IN  /\ DOMAIN e.ids = DOMAIN insts
        /\ \E t : /\ Sums(t, Len(insts), insts, Size)
                  /\ \A i \in DOMAIN insts : /\ e.ids[i].from = e.ginst + 1 + t[i - 1]
                                             /\ e.ids[i].to = e.ginst + 1 + t[i]
                                             /\ e.ids[i].from \in Nat
EvaluatorFit(e) ==
    /\ e.module \in DOMAIN built /\ e.ginst \in Nat /\ IdsFit(e)
    /\ Flow(built[e.module], e, SearchOf(built[e.module], e.order))
    /\ \A i \in ModulesIn(e.module) : e.queries[i] \in Seq(DOMAIN built[TypeAt(e.module, i)].outputs)

(* Its outputs, in the order that they are queried.                        *)
Answers(e, m, queries) ==
    /\ e.module = m /\ Len(e.order) = Len(queries)
    /\ \A k \in 1..Len(queries) : e.order[k].con = built[m].outputs[queries[k]]

TypesBuilt(m) ==
    \A i \in ModulesIn(m) : TypeAt(m, i) \in DOMAIN built /\ TypeAt(m, i) \in Submodules(m)
(* The instances of a module are a list, whose modules were built.         *)
LEMMA PartsAre ==
    ASSUME Acyclic, NEW m \in DOMAIN built
    PROVE  /\ Facts(m) /\ DOMAIN built[m].instances = 1..Len(built[m].instances)
           /\ Len(built[m].instances) \in Nat /\ TypesBuilt(m)
<1>1. Facts(m) /\ Submodules(m) \subseteq DOMAIN built
  BY FactsOf DEF Acyclic
<1>2. InstancesFit(m)
  BY <1>1 DEF Facts
<1>3. \A i \in ModulesIn(m) : TypeAt(m, i) \in Submodules(m)
  BY <1>2 DEF InstancesFit, ModulesIn, TypeAt
<1>4. TypesBuilt(m)
  BY <1>1, <1>3 DEF TypesBuilt
<1> QED
  BY <1>1, <1>2, <1>4 DEF InstancesFit

(* An evaluator gives its instances consecutive ranges of identifiers,     *)
(* after its own.                                                          *)
LEMMA EvaluatorIds ==
    ASSUME Acyclic, NEW m \in DOMAIN built, NEW queries, NEW first \in Nat
    PROVE  LET e == Evaluator(m, queries, first)
           IN  e.module = m /\ e.ginst = first /\ IdsFit(e)
<1> DEFINE e == Evaluator(m, queries, first)
           insts == built[m].instances
           n == Len(insts)
           t == Taken(insts, Size)
<1>1. /\ e.module = m /\ e.ginst = first
      /\ e.ids = [i \in DOMAIN insts |-> [from |-> first + 1 + t[i - 1], to |-> first + 1 + t[i]]]
  BY DEF Evaluator
<1>2. \A s \in Submodules(m) : Size[s] \in Nat
  BY SizeIs, FactsOf DEF Acyclic
<1>3. Sums(t, n, insts, Size)
  BY <1>2, WeightsAre
<1>4. DOMAIN insts = 1..n /\ n \in Nat
  BY PartsAre
<1> HIDE DEF e, t, n
<1>5. ASSUME NEW i \in DOMAIN insts
      PROVE  /\ e.ids[i].from = first + 1 + t[i - 1] /\ e.ids[i].to = first + 1 + t[i]
             /\ e.ids[i].from \in Nat
  <2>1. i - 1 \in 0..n
    BY <1>4
  <2>2. t[i - 1] \in Nat
    BY <1>3, <2>1 DEF Sums
  <2> QED
    BY <1>1, <2>2
<1>6. DOMAIN e.ids = DOMAIN insts
  BY <1>1
<1>7. IdsFit(e)
  BY <1>1, <1>3, <1>5, <1>6 DEF IdsFit, n
<1> QED
  BY <1>1, <1>7 DEF e

(* The evaluator of a module, for any queries, is typed, evaluates each    *)
(* query in order and numbers its instances.                               *)
LEMMA EvaluatorIs ==
    ASSUME Acyclic, NEW m \in DOMAIN built, NEW queries \in Seq(DOMAIN built[m].outputs),
           NEW first \in Nat
    PROVE  LET e == Evaluator(m, queries, first)
           IN  EvaluatorFit(e) /\ Answers(e, m, queries) /\ e.ginst = first
<1> DEFINE e == Evaluator(m, queries, first)
           mod == built[m]
           o == Orders(mod, queries)
<1>1. e.module = m /\ e.ginst = first /\ IdsFit(e)
  BY EvaluatorIds
<1>2. e.order = o.order /\ e.finish = o.finish /\ e.queries = o.queries
  BY DEF Evaluator
<1>3. Facts(m)
  BY PartsAre
<1>4. InOrder(mod) /\ SourcesFit(built, mod)
  BY <1>3 DEF Facts
<1> HIDE DEF mod, e
<1>5. /\ Flow(mod, o, SearchOf(mod, o.order))
      /\ Len(o.order) = Len(queries)
      /\ \A k \in 1..Len(queries) : o.order[k].con = mod.outputs[queries[k]]
      /\ o.queries = [i \in DOMAIN mod.instances |->
                         QueriesOf(mod, SearchOf(mod, o.order).found, i)]
  <2>1. queries \in Seq(DOMAIN mod.outputs)
    BY Zenon DEF mod
  <2> HIDE DEF o
  <2> QED
    BY <1>4, <2>1, OrdersAre DEF o
<1> HIDE DEF o
<1>6. Flow(mod, e, SearchOf(mod, e.order))
  BY <1>2, <1>5 DEF Flow
<1> DEFINE found == SearchOf(mod, o.order).found
<1>7. found \in Seq(Wires(mod))
  BY <1>5 DEF Flow
<1> HIDE DEF found
<1>8. ASSUME NEW i \in ModulesIn(m)
      PROVE  e.queries[i] \in Seq(DOMAIN built[TypeAt(m, i)].outputs)
  <2> DEFINE qs == QueriesOf(mod, found, i)
  <2>1. i \in DOMAIN mod.instances /\ IsModule(mod.instances[i]) /\ TypeAt(m, i) = mod.instances[i].type
    BY <1>8 DEF ModulesIn, TypeAt, mod
  <2>2. e.queries[i] = qs
    BY <1>2, <1>5, <2>1 DEF found
  <2>3. output_ports(built, mod.instances[i]) = built[TypeAt(m, i)].outputs
    BY <2>1 DEF output_ports, Interface, IsModule
  <2>4. QueriesFit(mod, found, qs, i) /\ QueriesOn(mod, Wires(mod), qs, i)
    BY <1>7, QueriesAre
  <2> HIDE DEF qs
  <2>5. DOMAIN qs = 1..Len(qs) /\ Len(qs) \in Nat
    <3>1. DOMAIN qs = 1..Len(qs) /\ Len(qs) = Cardinality(Asked(mod, found, i, Len(found)))
      BY <2>4 DEF QueriesFit
    <3>2. IsFiniteSet(Asked(mod, found, i, Len(found)))
      <4>1. Len(found) \in Nat
        BY <1>7
      <4>2. IsFiniteSet(1..Len(found))
        BY <4>1, FS_Interval
      <4>3. Asked(mod, found, i, Len(found)) \subseteq 1..Len(found)
        BY DEF Asked
      <4> QED
        BY <4>2, <4>3, FS_Subset
    <3> QED
      BY <3>1, <3>2, FS_CardinalityType
  <2>6. ASSUME NEW k \in 1..Len(qs)
        PROVE  qs[k] \in DOMAIN built[TypeAt(m, i)].outputs
    <3>1. PICK w \in Wires(mod) : mod.source[w][1] = i /\ qs[k] = mod.source[w][2]
      BY <2>4, <2>5 DEF QueriesOn
    <3>2. mod.source[w][2] \in DOMAIN output_ports(built, mod.instances[i])
      BY <1>4, <3>1, Zenon DEF SourcesFit
    <3> QED
      BY <2>3, <3>1, <3>2
  <2>7. qs = [k \in 1..Len(qs) |-> qs[k]]
    BY <2>2, <2>5, Zenon DEF QueriesOf, qs
  <2> QED
    BY <2>2, <2>5, <2>6, <2>7
<1>9. EvaluatorFit(e)
  BY <1>1, <1>6, <1>8 DEF EvaluatorFit, mod
<1>10. Answers(e, m, queries)
  BY <1>1, <1>2, <1>5 DEF Answers, mod
<1> QED
  BY <1>1, <1>9, <1>10 DEF e

(* The evaluator of an instance of a module that has one.                  *)
LEMMA SubEvaluatorIs ==
    ASSUME Acyclic, NEW e, EvaluatorFit(e), NEW i \in ModulesIn(e.module)
    PROVE  LET s == SubEvaluator(e, i)
           IN  /\ EvaluatorFit(s) /\ Answers(s, TypeAt(e.module, i), e.queries[i])
               /\ s.ginst = e.ids[i].from
<1>1. e.module \in DOMAIN built /\ IdsFit(e) /\ i \in DOMAIN built[e.module].instances
  BY DEF EvaluatorFit, ModulesIn
<1>2. TypeAt(e.module, i) \in DOMAIN built
  <2>1. TypesBuilt(e.module)
    BY <1>1, PartsAre
  <2> QED
    BY <2>1 DEF TypesBuilt
<1>3. e.queries[i] \in Seq(DOMAIN built[TypeAt(e.module, i)].outputs)
  BY DEF EvaluatorFit
<1>4. e.ids[i].from \in Nat
  BY <1>1 DEF IdsFit
<1>5. SubEvaluator(e, i) = Evaluator(TypeAt(e.module, i), e.queries[i], e.ids[i].from)
  BY DEF SubEvaluator, TypeAt
<1> QED
  BY <1>2, <1>3, <1>4, <1>5, EvaluatorIs

-----------------------------------------------------------------------------
(* The evaluators of a design: a tree of paths.                            *)
LEMMA PathEnds ==
    ASSUME NEW S, NEW p \in Seq(S), NEW i \in S
    PROVE  /\ Front(Append(p, i)) = p /\ Last(Append(p, i)) = i /\ Append(p, i) # <<>>
           /\ Append(p, i) \in Seq(S) /\ Len(Append(p, i)) = Len(p) + 1 /\ Len(p) \in Nat
<1> DEFINE q == Append(p, i)
<1>1. /\ q \in Seq(S) /\ Len(q) = Len(p) + 1 /\ Len(p) \in Nat /\ q[Len(p) + 1] = i
      /\ \A k \in 1..Len(p) : q[k] = p[k]
  OBVIOUS
<1> HIDE DEF q
<1>2. Front(q) = SubSeq(q, 1, Len(p)) /\ Last(q) = i /\ q # <<>>
  BY <1>1 DEF Front, Last
<1>3. SubSeq(q, 1, Len(p)) = p
  BY <1>1
<1> QED
  BY <1>1, <1>2, <1>3 DEF q

AllQueries == UNION {Seq(DOMAIN built[m].outputs) : m \in DOMAIN built}
Evaluators ==
    {e \in {Evaluator(m, q, f) : m \in DOMAIN built, q \in AllQueries, f \in Nat} : EvaluatorFit(e)}
Plans == UNION {[D -> Evaluators] : D \in SUBSET Seq(Nat)}

Descends(evals, p) ==
    \E q \in DOMAIN evals : \E i \in ModulesIn(evals[q].module) :
        p = Append(q, i) /\ evals[p] = SubEvaluator(evals[q], i)
HasParts(evals, p) == \A i \in ModulesIn(evals[p].module) : Append(p, i) \in DOMAIN evals

LevelFit(evals, top, h, d) ==
    /\ evals \in Plans
    /\ Root \in DOMAIN evals /\ evals[Root] = Evaluator(top, <<>>, 0)
    /\ \A p \in DOMAIN evals : /\ Len(p) + h[evals[p].module] <= h[top]
                               /\ p = Root \/ Descends(evals, p)
                               /\ Len(p) < d => HasParts(evals, p)

(* The paths of a plan are sequences of instance numbers, and what is at   *)
(* each is an evaluator.                                                   *)
LEMMA PlansAre ==
    ASSUME Acyclic, NEW evals \in Plans
    PROVE  /\ DOMAIN evals \subseteq Seq(Nat) /\ evals = [p \in DOMAIN evals |-> evals[p]]
           /\ \A p \in DOMAIN evals :
                 /\ evals[p] \in Evaluators /\ EvaluatorFit(evals[p])
                 /\ evals[p].module \in DOMAIN built
                 /\ \A i \in ModulesIn(evals[p].module) : i \in Nat
<1>1. PICK D \in SUBSET Seq(Nat) : evals \in [D -> Evaluators]
  BY DEF Plans
<1>2. ASSUME NEW p \in D
      PROVE  /\ EvaluatorFit(evals[p]) /\ evals[p].module \in DOMAIN built
             /\ \A i \in ModulesIn(evals[p].module) : i \in Nat
  <2>1. EvaluatorFit(evals[p])
    BY <1>1 DEF Evaluators
  <2>2. evals[p].module \in DOMAIN built
    BY <2>1 DEF EvaluatorFit
  <2> DEFINE insts == built[evals[p].module].instances
  <2>3. DOMAIN insts = 1..Len(insts) /\ Len(insts) \in Nat
    BY <2>2, PartsAre
  <2> HIDE DEF insts
  <2>4. \A i \in DOMAIN insts : i \in Nat
    BY <2>3
  <2>5. \A i \in ModulesIn(evals[p].module) : i \in Nat
    BY <2>4, Zenon DEF ModulesIn, insts
  <2> QED
    BY <2>1, <2>2, <2>5
<1> QED
  BY <1>1, <1>2

(* The evaluator of an instance is that of the instance's module.          *)
LEMMA SubIsEvaluator ==
    ASSUME Acyclic, NEW e \in Evaluators, NEW i \in ModulesIn(e.module)
    PROVE  SubEvaluator(e, i) \in Evaluators /\ SubEvaluator(e, i).module = TypeAt(e.module, i)
<1> DEFINE s == SubEvaluator(e, i)
           t == TypeAt(e.module, i)
<1>1. EvaluatorFit(e)
  BY DEF Evaluators
<1>2. EvaluatorFit(s) /\ Answers(s, t, e.queries[i])
  BY <1>1, SubEvaluatorIs
<1>3. s = Evaluator(t, e.queries[i], e.ids[i].from)
  BY DEF SubEvaluator, TypeAt
<1>4. e.module \in DOMAIN built /\ IdsFit(e) /\ i \in DOMAIN built[e.module].instances
  BY <1>1 DEF EvaluatorFit, ModulesIn
<1>5. t \in DOMAIN built
  <2>1. TypesBuilt(e.module)
    BY <1>4, PartsAre
  <2> QED
    BY <2>1 DEF TypesBuilt
<1>6. e.queries[i] \in AllQueries
  <2>1. e.queries[i] \in Seq(DOMAIN built[t].outputs)
    BY <1>1 DEF EvaluatorFit
  <2> QED
    BY <1>5, <2>1 DEF AllQueries
<1>7. e.ids[i].from \in Nat
  BY <1>4 DEF IdsFit
<1> HIDE DEF s, t
<1> QED
  BY <1>2, <1>3, <1>5, <1>6, <1>7 DEF Evaluators, Answers, s, t

IsSubPath(evals, x) ==
    \E q \in DOMAIN evals : \E i \in ModulesIn(evals[q].module) : x = Append(q, i)
(* The paths one level below those of a plan.                              *)
LEMMA SubPathsAre ==
    ASSUME NEW evals
    PROVE  \A x : x \in SubPaths(evals) <=> IsSubPath(evals, x)
BY DEF SubPaths, IsSubPath, ModulesIn

(* A level more adds the evaluators of the instances of the last level,    *)
(* and changes none.                                                       *)
LEMMA WithSubsIs ==
    ASSUME Acyclic, NEW evals \in Plans
    PROVE  LET new == WithSubs(evals)
           IN  /\ new \in Plans /\ DOMAIN new = DOMAIN evals \cup SubPaths(evals)
               /\ \A p \in DOMAIN evals : new[p] = evals[p]
               /\ \A q \in DOMAIN evals : \A i \in ModulesIn(evals[q].module) :
                     Append(q, i) \notin DOMAIN evals
                        => new[Append(q, i)] = SubEvaluator(evals[q], i)
<1> DEFINE new == WithSubs(evals)
           D == DOMAIN evals \cup SubPaths(evals)
<1>1. new = [p \in D |-> IF p \in DOMAIN evals THEN evals[p]
                         ELSE SubEvaluator(evals[Front(p)], Last(p))]
  BY DEF WithSubs
<1>2. /\ DOMAIN evals \subseteq Seq(Nat)
      /\ \A p \in DOMAIN evals : /\ evals[p] \in Evaluators
                                 /\ \A i \in ModulesIn(evals[p].module) : i \in Nat
  BY PlansAre
<1>3. ASSUME NEW q \in DOMAIN evals, NEW i \in ModulesIn(evals[q].module)
      PROVE  /\ Append(q, i) \in D /\ Append(q, i) \in Seq(Nat)
             /\ Front(Append(q, i)) = q /\ Last(Append(q, i)) = i
  <2>1. q \in Seq(Nat) /\ i \in Nat
    BY <1>2
  <2>2. Append(q, i) \in SubPaths(evals)
    BY SubPathsAre DEF IsSubPath
  <2> QED
    BY <2>1, <2>2, PathEnds
<1> HIDE DEF new
<1>4. D \subseteq Seq(Nat)
  <2> SUFFICES ASSUME NEW x \in SubPaths(evals)
               PROVE  x \in Seq(Nat)
    BY <1>2
  <2>1. PICK q \in DOMAIN evals : \E i \in ModulesIn(evals[q].module) : x = Append(q, i)
    BY SubPathsAre DEF IsSubPath
  <2> QED
    BY <1>3, <2>1
<1>5. ASSUME NEW q \in DOMAIN evals, NEW i \in ModulesIn(evals[q].module),
             Append(q, i) \notin DOMAIN evals
      PROVE  new[Append(q, i)] = SubEvaluator(evals[q], i)
  BY <1>1, <1>3, <1>5
<1>6. \A p \in DOMAIN evals : new[p] = evals[p]
  BY <1>1
<1>7. DOMAIN new = D
  BY <1>1
<1>8. ASSUME NEW p \in D
      PROVE  new[p] \in Evaluators
  <2>1. CASE p \in DOMAIN evals
    BY <1>2, <1>6, <2>1
  <2>2. CASE p \notin DOMAIN evals
    <3>1. p \in SubPaths(evals)
      BY <2>2
    <3>2. PICK q \in DOMAIN evals : \E i \in ModulesIn(evals[q].module) : p = Append(q, i)
      BY <3>1, SubPathsAre DEF IsSubPath
    <3>3. PICK i \in ModulesIn(evals[q].module) : p = Append(q, i)
      BY <3>2
    <3>4. new[p] = SubEvaluator(evals[q], i)
      BY <1>5, <2>2, <3>3
    <3> QED
      BY <1>2, <3>4, SubIsEvaluator
  <2> QED
    BY <2>1, <2>2
<1>9. new \in Plans
  <2>1. new \in [D -> Evaluators]
    BY <1>1, <1>8
  <2> HIDE DEF D
  <2> QED
    BY <1>4, <2>1 DEF Plans
<1> QED
  BY <1>5, <1>6, <1>7, <1>9 DEF new

(* One level more keeps the plan right: every instance above the new level *)
(* has the evaluators of its parts.                                        *)
LEMMA LevelStep ==
    ASSUME Acyclic, NEW h, Ranked(h), NEW top \in DOMAIN built, NEW d \in Nat,
           NEW evals, LevelFit(evals, top, h, d)
    PROVE  LevelFit(WithSubs(evals), top, h, d + 1)
<1> DEFINE new == WithSubs(evals)
<1>1. /\ evals \in Plans /\ Root \in DOMAIN evals /\ evals[Root] = Evaluator(top, <<>>, 0)
      /\ \A p \in DOMAIN evals : /\ Len(p) + h[evals[p].module] <= h[top]
                                 /\ p = Root \/ Descends(evals, p)
                                 /\ Len(p) < d => HasParts(evals, p)
  BY DEF LevelFit
<1>2. /\ new \in Plans /\ DOMAIN new = DOMAIN evals \cup SubPaths(evals)
      /\ \A p \in DOMAIN evals : new[p] = evals[p]
      /\ \A q \in DOMAIN evals : \A i \in ModulesIn(evals[q].module) :
            Append(q, i) \notin DOMAIN evals => new[Append(q, i)] = SubEvaluator(evals[q], i)
  BY <1>1, WithSubsIs
<1>3. /\ DOMAIN evals \subseteq Seq(Nat)
      /\ \A p \in DOMAIN evals : /\ evals[p] \in Evaluators /\ evals[p].module \in DOMAIN built
                                 /\ \A i \in ModulesIn(evals[p].module) : i \in Nat
  BY <1>1, PlansAre
<1> HIDE DEF new
<1>4. ASSUME NEW p \in DOMAIN evals
      PROVE  /\ Len(p) + h[new[p].module] <= h[top] /\ HasParts(new, p)
             /\ p = Root \/ Descends(new, p)
  <2>1. new[p] = evals[p]
    BY <1>2
  <2>2. HasParts(new, p)
    <3>1. \A i \in ModulesIn(evals[p].module) : Append(p, i) \in SubPaths(evals)
      BY SubPathsAre DEF IsSubPath
    <3> QED
      BY <1>2, <2>1, <3>1 DEF HasParts
  <2>3. p # Root => Descends(new, p)
    BY <1>1, <1>2 DEF Descends
  <2> QED
    BY <1>1, <2>1, <2>2, <2>3
<1>5. ASSUME NEW p \in DOMAIN new, p \notin DOMAIN evals
      PROVE  /\ Len(p) + h[new[p].module] <= h[top] /\ Descends(new, p)
             /\ ~(Len(p) < d + 1)
  <2>1. p \in SubPaths(evals)
    BY <1>2, <1>5
  <2>2. PICK q \in DOMAIN evals : \E i \in ModulesIn(evals[q].module) : p = Append(q, i)
    BY <2>1, SubPathsAre DEF IsSubPath
  <2>3. PICK i \in ModulesIn(evals[q].module) : p = Append(q, i)
    BY <2>2
  <2>4. new[p] = SubEvaluator(evals[q], i) /\ new[q] = evals[q] /\ q \in DOMAIN new
    BY <1>2, <1>5, <2>3
  <2>5. Len(p) = Len(q) + 1 /\ Len(q) \in Nat
    BY <1>3, <2>3, PathEnds
  <2>6. Descends(new, p)
    BY <2>3, <2>4 DEF Descends
  <2>7. h[new[p].module] \in Nat /\ h[evals[q].module] \in Nat /\ h[top] \in Nat
        /\ h[new[p].module] < h[evals[q].module]
    <3>1. new[p].module = TypeAt(evals[q].module, i)
      BY <1>3, <2>4, SubIsEvaluator
    <3>2. TypesBuilt(evals[q].module)
      BY <1>3, PartsAre
    <3>3. new[p].module \in Submodules(evals[q].module)
      BY <3>1, <3>2 DEF TypesBuilt
    <3>4. Cardinality(Names) \in Nat
      BY NamesAre DEF Acyclic, Exact
    <3> QED
      BY <1>3, <3>3, <3>4 DEF Ranked
  <2>8. Len(q) + h[evals[q].module] <= h[top]
    BY <1>1
  <2>9. ~(Len(q) < d)
    BY <1>1, <1>5, <2>3 DEF HasParts
  <2> QED
    BY <2>5, <2>6, <2>7, <2>8, <2>9
<1>6. Root \in DOMAIN new /\ new[Root] = Evaluator(top, <<>>, 0)
  BY <1>1, <1>2
<1>7. LevelFit(new, top, h, d + 1)
  BY <1>2, <1>4, <1>5, <1>6 DEF LevelFit
<1> QED
  BY <1>7 DEF new

(* The evaluators of a design: every path but the first one extends        *)
(* another, and every module instance has a path.                          *)
PlanFit(evals, top) ==
    /\ evals \in Plans
    /\ Root \in DOMAIN evals /\ evals[Root] = Evaluator(top, <<>>, 0)
    /\ \A p \in DOMAIN evals : /\ Len(p) < Cardinality(Names) /\ HasParts(evals, p)
                               /\ p = Root \/ Descends(evals, p)

(* After as many levels as there are modules, the plan holds the evaluator *)
(* of every instance of the design (InstanceEvaluator::new).               *)
LEMMA PlanIs ==
    ASSUME Acyclic, NEW top \in DOMAIN built
    PROVE  PlanFit(NewEvaluators(top), top)
<1> DEFINE first == [p \in {Root} |-> Evaluator(top, <<>>, 0)]
           step == [x \in Nat \X Plans |-> WithSubs(x[2])]
           Solves(f) == f = [d \in Nat |-> IF d = 0 THEN first ELSE WithSubs(f[d - 1])]
           level == CHOOSE f : Solves(f)
           N == Cardinality(Names)
<1>1. PICK h : Ranked(h)
  BY ModuleRanks
<1>2. N \in Nat /\ h[top] \in Nat /\ h[top] < N /\ \A m \in DOMAIN built : h[m] \in Nat
  <2>1. N \in Nat
    BY NamesAre DEF Acyclic, Exact
  <2> QED
    BY <1>1, <2>1 DEF Ranked
<1>3. /\ EvaluatorFit(Evaluator(top, <<>>, 0)) /\ Evaluator(top, <<>>, 0) \in Evaluators
      /\ Evaluator(top, <<>>, 0).module = top
  <2>1. <<>> \in Seq(DOMAIN built[top].outputs)
    OBVIOUS
  <2>2. /\ EvaluatorFit(Evaluator(top, <<>>, 0)) /\ Answers(Evaluator(top, <<>>, 0), top, <<>>)
    BY <2>1, EvaluatorIs
  <2>3. <<>> \in AllQueries
    BY <2>1 DEF AllQueries
  <2> QED
    BY <2>2, <2>3 DEF Evaluators, Answers
<1>4. first \in Plans
  <2>1. {Root} \in SUBSET Seq(Nat)
    BY DEF Root
  <2>2. first \in [{Root} -> Evaluators]
    BY <1>3
  <2> HIDE DEF first
  <2> QED
    BY <2>1, <2>2 DEF Plans
<1>5. LevelFit(first, top, h, 0)
  <2>1. DOMAIN first = {Root} /\ first[Root] = Evaluator(top, <<>>, 0) /\ Len(Root) = 0
    BY DEF Root
  <2> HIDE DEF first
  <2>2. Len(Root) + h[first[Root].module] <= h[top] /\ ~(Len(Root) < 0)
    BY <1>2, <1>3, <2>1
  <2> QED
    BY <1>4, <2>1, <2>2 DEF LevelFit
<1> HIDE DEF first
<1>6. step \in [Nat \X Plans -> Plans]
  <2>1. \A x \in Nat \X Plans : WithSubs(x[2]) \in Plans
    BY WithSubsIs
  <2> QED
    BY <2>1
<1>7. PICK f : Recurses(f, Plans, first, step)
  <2> HIDE DEF step
  <2> QED
    BY <1>4, <1>6, RecursionSolved
<1>8. Solves(f)
  <2>1. /\ f = [k \in Nat |-> f[k]] /\ f[0] = first
        /\ \A k \in Nat : k # 0 =>
              f[k] = step[<<k, f[k - 1]>>] /\ <<k, f[k - 1]>> \in Nat \X Plans
    BY <1>7 DEF Recurses
  <2>2. \A k \in Nat : f[k] = IF k = 0 THEN first ELSE WithSubs(f[k - 1])
    BY <2>1
  <2> HIDE DEF step
  <2> QED
    BY <2>1, <2>2
<1>9. Solves(level)
  <2> HIDE DEF Solves
  <2> QED
    BY <1>8
<1>10. NewEvaluators(top) = level[N]
  BY DEF NewEvaluators, first
<1> HIDE DEF level
<1>11. level[0] = first /\ \A d \in Nat : d # 0 => level[d] = WithSubs(level[d - 1])
  BY <1>9
<1> DEFINE Bad == {d \in Nat : ~LevelFit(level[d], top, h, d)}
<1>12. Bad = {}
  <2> SUFFICES ASSUME Bad # {}
               PROVE  FALSE
    OBVIOUS
  <2>1. PICK d \in Bad : \A y \in Bad : d <= y
    <3>1. Bad \subseteq Nat
      OBVIOUS
    <3> HIDE DEF Bad
    <3> QED
      BY <3>1, LeastIndex
  <2>2. d # 0 /\ d - 1 \in Nat /\ (d - 1) + 1 = d /\ d - 1 \notin Bad
    BY <1>5, <1>11, <2>1
  <2>3. LevelFit(level[d - 1], top, h, d - 1)
    BY <2>2
  <2>4. LevelFit(WithSubs(level[d - 1]), top, h, (d - 1) + 1)
    BY <1>1, <2>2, <2>3, LevelStep
  <2> QED
    BY <1>11, <2>1, <2>2, <2>4
<1>13. LevelFit(level[N], top, h, N)
  BY <1>2, <1>12
<1> DEFINE evals == level[N]
<1>14. ASSUME NEW p \in DOMAIN evals
       PROVE  Len(p) < N
  <2>1. Len(p) + h[evals[p].module] <= h[top]
    BY <1>13 DEF LevelFit
  <2>2. p \in Seq(Nat) /\ evals[p].module \in DOMAIN built
    <3>1. evals \in Plans
      BY <1>13 DEF LevelFit
    <3> HIDE DEF evals
    <3> QED
      BY <3>1, PlansAre
  <2>3. Len(p) \in Nat /\ h[evals[p].module] \in Nat
    BY <1>2, <2>2
  <2> HIDE DEF evals, N
  <2> QED
    BY <1>2, <2>1, <2>3
<1>15. PlanFit(evals, top)
  BY <1>13, <1>14 DEF LevelFit, PlanFit
<1> QED
  BY <1>10, <1>15

-----------------------------------------------------------------------------
(* The evaluators in use.                                                  *)
PathOrders(p) == SearchOf(ModAt(p), plan[p].order)
Parts(p) == {i \in DOMAIN ModAt(p).instances : IsModule(Inst(p, i))}
IsPart(p, i) ==
    LET q == Append(p, i)
    IN  /\ q \in DOMAIN plan /\ q # Root /\ q \in Seq(Nat) /\ Len(q) = Len(p) + 1
        /\ Answers(plan[q], Inst(p, i).type, plan[p].queries[i])
        /\ plan[q].ginst = plan[p].ids[i].from
IdsNest(p) ==
    LET ids == plan[p].ids
    IN  /\ DOMAIN ids = DOMAIN ModAt(p).instances
        /\ \A i \in DOMAIN ids : /\ ids[i].from \in Nat /\ ids[i].to \in Nat
                                 /\ plan[p].ginst < ids[i].from /\ ids[i].from <= ids[i].to
                                 /\ Inst(p, i).kind = "cell" => ids[i].from < ids[i].to
        /\ \A i, j \in DOMAIN ids : i < j => ids[i].to <= ids[j].from
        /\ \A i \in Parts(p) : \A j \in DOMAIN plan[Append(p, i)].ids :
              plan[Append(p, i)].ids[j].to <= ids[i].to
PathFit(p) ==
    /\ p \in Seq(Nat) /\ Len(p) \in Nat /\ Len(p) < Cardinality(Names)
    /\ plan[p].module \in DOMAIN built /\ Facts(plan[p].module) /\ IdsNest(p)
    /\ Flow(ModAt(p), plan[p], PathOrders(p)) /\ plan[p].ginst \in Nat
    /\ DOMAIN ModAt(p).instances = 1..Len(ModAt(p).instances)
    /\ Len(ModAt(p).instances) \in Nat
    /\ \A i \in Parts(p) : IsPart(p, i)
    /\ p = Root \/ \E q \in DOMAIN plan : \E i \in Parts(q) : p = Append(q, i)
Planned ==
    /\ design.top \in DOMAIN built
    /\ Cardinality(Names) \in Nat
    /\ Root \in DOMAIN plan /\ plan[Root].module = design.top
    /\ plan[Root].ginst = 0 /\ Len(plan[Root].order) = 0
    /\ \A p \in DOMAIN plan : PathFit(p)

(* The identifiers of an instance and of what is in it are a range of those *)
(* of its module, apart from the others.                                   *)
LEMMA IdsAre ==
    ASSUME Acyclic, NEW e, EvaluatorFit(e)
    PROVE  LET insts == built[e.module].instances
           IN  /\ DOMAIN e.ids = DOMAIN insts
               /\ \A i \in DOMAIN insts :
                     /\ e.ids[i].from \in Nat /\ e.ids[i].to \in Nat
                     /\ e.ids[i].to = e.ids[i].from + Weight(insts[i], Size)
                     /\ Weight(insts[i], Size) \in Nat
                     /\ e.ginst < e.ids[i].from /\ e.ids[i].to <= e.ginst + Size[e.module]
               /\ \A i, j \in DOMAIN insts : i < j => e.ids[i].to <= e.ids[j].from
<1> DEFINE m == e.module
           insts == built[m].instances
           n == Len(insts)
           size == Size
           c == Taken(insts, size)
<1>1. m \in DOMAIN built /\ e.ginst \in Nat /\ DOMAIN e.ids = DOMAIN insts
  BY DEF EvaluatorFit, IdsFit
<1>2. PICK t : /\ Sums(t, n, insts, size)
               /\ \A i \in DOMAIN insts : /\ e.ids[i].from = e.ginst + 1 + t[i - 1]
                                          /\ e.ids[i].to = e.ginst + 1 + t[i]
  BY DEF EvaluatorFit, IdsFit
<1>3. DOMAIN insts = 1..n /\ n \in Nat
  BY <1>1, PartsAre
<1>4. /\ \A k \in 1..n : Weight(insts[k], size) \in Nat
      /\ Sums(c, n, insts, size) /\ size[m] = 1 + c[n]
  <2>1. \A s \in Submodules(m) : Size[s] \in Nat
    BY <1>1, SizeIs, FactsOf DEF Acyclic
  <2>2. Size[m] = SizeFrom(m, Size)
    BY <1>1, SizeIs
  <2> QED
    BY <1>1, <2>1, <2>2, WeightsAre DEF SizeFrom
<1> HIDE DEF m, insts, n, c, size
<1>5. \A k \in 0..n : t[k] = c[k]
  <2>1. SameWeights(insts, n, size, size)
    BY DEF SameWeights
  <2> QED
    BY <1>2, <1>3, <1>4, <2>1, SameSums
<1>6. \A j, k \in 0..n : j <= k => t[j] <= t[k]
  BY <1>2, <1>3, <1>4, SumsGrow
<1>7. /\ t[0] = 0 /\ \A k \in 0..n : t[k] \in Nat
      /\ \A k \in 1..n : t[k] = t[k - 1] + Weight(insts[k], size)
  BY <1>2 DEF Sums
<1>8. ASSUME NEW i \in DOMAIN insts
      PROVE  /\ e.ids[i].from \in Nat /\ e.ids[i].to \in Nat
             /\ e.ids[i].to = e.ids[i].from + Weight(insts[i], size)
             /\ Weight(insts[i], size) \in Nat
             /\ e.ginst < e.ids[i].from /\ e.ids[i].to <= e.ginst + size[m]
  <2>1. i \in 1..n /\ i \in 0..n /\ i - 1 \in 0..n /\ n \in 0..n /\ i <= n
    BY <1>3
  <2>2. t[i] <= t[n] /\ t[i] \in Nat /\ t[i - 1] \in Nat /\ t[n] = c[n] /\ t[n] \in Nat
    BY <1>5, <1>6, <1>7, <2>1
  <2>3. t[i] = t[i - 1] + Weight(insts[i], size) /\ Weight(insts[i], size) \in Nat
    BY <1>4, <1>7, <2>1
  <2> QED
    BY <1>1, <1>2, <1>4, <2>2, <2>3
<1>9. ASSUME NEW i \in DOMAIN insts, NEW j \in DOMAIN insts, i < j
      PROVE  e.ids[i].to <= e.ids[j].from
  <2>1. i \in 0..n /\ j - 1 \in 0..n /\ i <= j - 1
    BY <1>3, <1>9
  <2>2. t[i] <= t[j - 1] /\ t[i] \in Nat /\ t[j - 1] \in Nat
    BY <1>6, <1>7, <2>1
  <2> QED
    BY <1>1, <1>2, <2>2
<1> QED
  BY <1>1, <1>8, <1>9 DEF m, insts, size

(* An instance's path determines its parent's path and its number.         *)
LEMMA SamePath ==
    ASSUME NEW S, NEW p \in Seq(S), NEW q \in Seq(S), NEW i \in S, NEW j \in S,
           Append(p, i) = Append(q, j)
    PROVE  p = q /\ i = j
BY PathEnds

(* The same for paths of numbers.                                          *)
LEMMA SameNumbers ==
    ASSUME NEW p \in Seq(Nat), NEW q \in Seq(Nat), NEW i \in Nat, NEW j \in Nat,
           Append(p, i) = Append(q, j)
    PROVE  p = q /\ i = j
<1>1. PICK S : S = Nat
  OBVIOUS
<1>2. p \in Seq(S) /\ q \in Seq(S) /\ i \in S /\ j \in S
  BY <1>1
<1> QED
  BY <1>2, SamePath

(* The plan made from the top module is the one the evaluation needs.      *)
LEMMA PlanIsPlanned ==
    ASSUME Acyclic, design.top \in DOMAIN built, PlanFit(plan, design.top)
    PROVE  Planned
<1>1. /\ plan \in Plans /\ Root \in DOMAIN plan /\ plan[Root] = Evaluator(design.top, <<>>, 0)
      /\ \A p \in DOMAIN plan : /\ Len(p) < Cardinality(Names) /\ HasParts(plan, p)
                                /\ p = Root \/ Descends(plan, p)
  BY DEF PlanFit
<1>2. /\ DOMAIN plan \subseteq Seq(Nat)
      /\ \A p \in DOMAIN plan : /\ EvaluatorFit(plan[p]) /\ plan[p].module \in DOMAIN built
                                /\ \A i \in ModulesIn(plan[p].module) : i \in Nat
  BY <1>1, PlansAre
<1>3. Cardinality(Names) \in Nat
  BY NamesAre DEF Acyclic, Exact
<1>4. plan[Root].module = design.top /\ plan[Root].ginst = 0 /\ Len(plan[Root].order) = 0
  <2> DEFINE none == <<>>
             e == Evaluator(design.top, none, 0)
  <2>1. none \in Seq(DOMAIN built[design.top].outputs) /\ Len(none) = 0
    OBVIOUS
  <2> HIDE DEF none
  <2>2. Answers(e, design.top, none) /\ e.ginst = 0
    <3>1. 0 \in Nat /\ design.top \in DOMAIN built
      OBVIOUS
    <3>2. \A m \in DOMAIN built : \A queries \in Seq(DOMAIN built[m].outputs) : \A n \in Nat :
             Answers(Evaluator(m, queries, n), m, queries) /\ Evaluator(m, queries, n).ginst = n
      BY EvaluatorIs
    <3> QED
      BY <2>1, <3>1, <3>2
  <2>3. plan[Root] = e
    BY <1>1 DEF none
  <2> HIDE DEF e
  <2> QED
    BY <2>1, <2>2, <2>3 DEF Answers
<1>5. ASSUME NEW p \in DOMAIN plan
      PROVE  Parts(p) = ModulesIn(plan[p].module)
  BY DEF Parts, ModulesIn, Inst, ModAt
<1>6. ASSUME NEW p \in DOMAIN plan, NEW i \in Parts(p)
      PROVE  IsPart(p, i)
  <2> DEFINE q == Append(p, i)
  <2>1. i \in ModulesIn(plan[p].module) /\ i \in Nat /\ p \in Seq(Nat)
    BY <1>2, <1>5, <1>6
  <2>2. q \in DOMAIN plan /\ q # Root /\ q \in Seq(Nat) /\ Len(q) = Len(p) + 1
    BY <1>1, <2>1, PathEnds DEF HasParts, Root
  <2>3. PICK r \in DOMAIN plan : \E j \in ModulesIn(plan[r].module) :
           q = Append(r, j) /\ plan[q] = SubEvaluator(plan[r], j)
    BY <1>1, <2>2 DEF Descends
  <2>4. PICK j \in ModulesIn(plan[r].module) :
           q = Append(r, j) /\ plan[q] = SubEvaluator(plan[r], j)
    BY <2>3
  <2>5. r = p /\ j = i
    <3>1. r \in Seq(Nat) /\ j \in Nat
      BY <1>2
    <3> QED
      BY <2>1, <2>4, <3>1, SamePath
  <2> HIDE DEF q
  <2>6. plan[q] = SubEvaluator(plan[p], i)
    BY <2>4, <2>5
  <2>7. /\ Answers(plan[q], TypeAt(plan[p].module, i), plan[p].queries[i])
        /\ plan[q].ginst = plan[p].ids[i].from
    BY <1>2, <2>1, <2>6, SubEvaluatorIs
  <2> QED
    BY <2>2, <2>7 DEF IsPart, TypeAt, Inst, ModAt, q
<1>7. ASSUME NEW p \in DOMAIN plan
      PROVE  IdsNest(p)
  <2> DEFINE e == plan[p]
             insts == ModAt(p).instances
  <2>1. EvaluatorFit(e) /\ insts = built[e.module].instances /\ e.module \in DOMAIN built
    BY <1>2 DEF ModAt
  <2>2. /\ DOMAIN e.ids = DOMAIN insts
        /\ \A i \in DOMAIN insts :
              /\ e.ids[i].from \in Nat /\ e.ids[i].to \in Nat
              /\ e.ids[i].to = e.ids[i].from + Weight(insts[i], Size)
              /\ Weight(insts[i], Size) \in Nat
              /\ e.ginst < e.ids[i].from
        /\ \A i, j \in DOMAIN insts : i < j => e.ids[i].to <= e.ids[j].from
    <3> HIDE DEF e
    <3> QED
      BY <2>1, IdsAre
  <2>3. TypesBuilt(e.module)
    BY <2>1, PartsAre
  <2>4. ASSUME NEW i \in Parts(p)
        PROVE  /\ i \in DOMAIN insts /\ Weight(insts[i], Size) = Size[insts[i].type]
               /\ Size[insts[i].type] \in Nat \ {0}
    <3>1. i \in ModulesIn(e.module) /\ insts[i].type = TypeAt(e.module, i)
      BY <1>5, <2>1, <2>4 DEF TypeAt
    <3>2. insts[i].type \in DOMAIN built
      BY <2>3, <3>1 DEF TypesBuilt
    <3>3. i \in DOMAIN insts /\ IsModule(insts[i])
      BY <2>4 DEF Parts, Inst
    <3> QED
      BY <3>2, <3>3, SizeIs DEF Weight
  <2>5. ASSUME NEW i \in DOMAIN insts, insts[i].kind = "cell"
        PROVE  Weight(insts[i], Size) \in Nat \ {0}
    <3>1. IsModule(insts[i]) => i \in Parts(p)
      BY DEF Parts, Inst
    <3>2. ~IsModule(insts[i]) => Weight(insts[i], Size) = 1
      BY <2>5 DEF Weight
    <3> QED
      BY <2>4, <3>1, <3>2
  <2>6. ASSUME NEW i \in Parts(p), NEW j \in DOMAIN plan[Append(p, i)].ids
        PROVE  plan[Append(p, i)].ids[j].to <= e.ids[i].to
    <3> DEFINE s == plan[Append(p, i)]
    <3>1. Append(p, i) \in DOMAIN plan /\ s.module = insts[i].type /\ s.ginst = e.ids[i].from
      BY <1>6 DEF IsPart, Answers, Inst
    <3>2. EvaluatorFit(s)
      BY <1>2, <3>1
    <3> HIDE DEF s
    <3>3. j \in DOMAIN built[s.module].instances
      BY <2>6, <3>2 DEF EvaluatorFit, IdsFit, s
    <3>4. s.ids[j].to <= s.ginst + Size[s.module]
      BY <3>2, <3>3, IdsAre
    <3>5. e.ids[i].to = e.ids[i].from + Size[insts[i].type]
      BY <2>2, <2>4
    <3> QED
      BY <3>1, <3>4, <3>5, Zenon DEF s
  <2> HIDE DEF e, insts
  <2>7. \A i \in DOMAIN insts : e.ids[i].from <= e.ids[i].to
                              /\ (insts[i].kind = "cell" => e.ids[i].from < e.ids[i].to)
    BY <2>2, <2>5
  <2> QED
    BY <2>2, <2>6, <2>7 DEF IdsNest, Inst, e, insts
<1>8. ASSUME NEW p \in DOMAIN plan
      PROVE  PathFit(p)
  <2>1. p \in Seq(Nat) /\ Len(p) \in Nat /\ Len(p) < Cardinality(Names)
    BY <1>1, <1>2
  <2>2. /\ plan[p].module \in DOMAIN built /\ EvaluatorFit(plan[p])
    BY <1>2
  <2>3. /\ Facts(plan[p].module) /\ DOMAIN ModAt(p).instances = 1..Len(ModAt(p).instances)
        /\ Len(ModAt(p).instances) \in Nat
    BY <2>2, PartsAre DEF ModAt
  <2>4. p = Root \/ \E q \in DOMAIN plan : \E i \in Parts(q) : p = Append(q, i)
    <3> SUFFICES ASSUME p # Root
                 PROVE  \E q \in DOMAIN plan : \E i \in Parts(q) : p = Append(q, i)
      OBVIOUS
    <3>1. PICK q \in DOMAIN plan : \E i \in ModulesIn(plan[q].module) : p = Append(q, i)
      BY <1>1 DEF Descends
    <3> QED
      BY <1>5, <3>1
  <2> QED
    BY <1>6, <1>7, <2>1, <2>2, <2>3, <2>4 DEF PathFit, EvaluatorFit, PathOrders, ModAt
<1> QED
  BY <1>1, <1>3, <1>4, <1>8 DEF Planned

-----------------------------------------------------------------------------
(* Where a wire gives its value to.                                        *)
WiresAt(p) == Wires(ModAt(p))
InputsAt(p) == InputWires(ModAt(p))
SinkPlace(p, k, d) ==
    <<Append(p, k), IF IsModule(Inst(p, k)) THEN InputWire(Append(p, k), d) ELSE d>>
IsSinkOf(p, w, k, d) == <<k, d>> \in Range(ModAt(p).sinks[w])
Gives(p, w, y) ==
    \E k \in DOMAIN ModAt(p).instances : \E d \in DOMAIN input_ports(built, Inst(p, k)) :
        IsSinkOf(p, w, k, d) /\ y = SinkPlace(p, k, d)
IsSunk(y) ==
    /\ y = <<y[1], y[2]>> /\ y[1] \in Seq(Nat) /\ y[1] # Root
    /\ y[1] \in DOMAIN plan => y[2] \in InputsAt(y[1])

(* The places a wire feeds are those of the inputs of the instances it is  *)
(* connected to.                                                           *)
LEMMA SinksGive ==
    ASSUME Planned, NEW p \in DOMAIN plan, NEW w \in WiresAt(p)
    PROVE  \A y : y \in Sinks(<<p, w>>) <=> Gives(p, w, y)
<1> DEFINE x == <<p, w>>
<1>1. x[1] = p /\ x[2] = w
  OBVIOUS
<1>2. SinksFit(built, ModAt(p))
  BY DEF Planned, PathFit, Facts, ModAt
<1>3. \A s \in Range(ModAt(p).sinks[w]) :
         /\ s = <<s[1], s[2]>> /\ s[1] \in DOMAIN ModAt(p).instances
         /\ s[2] \in DOMAIN input_ports(built, Inst(p, s[1]))
  BY <1>2 DEF SinksFit, WiresAt, Inst
<1>4. Sinks(x) = {LET sub == Append(p, s[1])
                  IN  <<sub, IF IsModule(Inst(p, s[1])) THEN InputWire(sub, s[2]) ELSE s[2]>> :
                  s \in Range(ModAt(p).sinks[w])}
  BY <1>1 DEF Sinks
<1> HIDE DEF x
<1>5. ASSUME NEW y \in Sinks(x)
      PROVE  Gives(p, w, y)
  <2>1. PICK s \in Range(ModAt(p).sinks[w]) : y = SinkPlace(p, s[1], s[2])
    BY <1>4, <1>5 DEF SinkPlace
  <2> QED
    BY <1>3, <2>1 DEF Gives, IsSinkOf
<1>6. ASSUME NEW y, Gives(p, w, y)
      PROVE  y \in Sinks(x)
  <2>1. PICK k \in DOMAIN ModAt(p).instances : \E d \in DOMAIN input_ports(built, Inst(p, k)) :
           IsSinkOf(p, w, k, d) /\ y = SinkPlace(p, k, d)
    BY <1>6 DEF Gives
  <2>2. PICK d \in DOMAIN input_ports(built, Inst(p, k)) :
           IsSinkOf(p, w, k, d) /\ y = SinkPlace(p, k, d)
    BY <2>1
  <2> DEFINE s == <<k, d>>
  <2>3. s \in Range(ModAt(p).sinks[w]) /\ s[1] = k /\ s[2] = d
    BY <2>2 DEF IsSinkOf
  <2> HIDE DEF s
  <2>4. y = <<Append(p, s[1]), IF IsModule(Inst(p, s[1])) THEN InputWire(Append(p, s[1]), s[2])
                               ELSE s[2]>>
    BY <2>2, <2>3 DEF SinkPlace
  <2> QED
    BY <1>4, <2>3, <2>4
<1> QED
  BY <1>5, <1>6 DEF x

(* The place of an input of an instance.                                   *)
LEMMA PartIs ==
    ASSUME Planned, NEW p \in DOMAIN plan, NEW k \in DOMAIN ModAt(p).instances
    PROVE  /\ k \in Nat /\ p \in Seq(Nat) /\ Append(p, k) \in Seq(Nat) /\ Append(p, k) # Root
           /\ Append(p, k) \in DOMAIN plan <=> IsModule(Inst(p, k))
           /\ IsModule(Inst(p, k)) => IsPart(p, k) /\ k \in Parts(p)
<1>1. PathFit(p)
  BY DEF Planned
<1>2. k \in Nat /\ p \in Seq(Nat)
  BY <1>1 DEF PathFit
<1>3. Append(p, k) \in Seq(Nat) /\ Append(p, k) # Root
  BY <1>2, PathEnds DEF Root
<1>4. IsModule(Inst(p, k)) => IsPart(p, k) /\ k \in Parts(p)
  BY <1>1 DEF PathFit, Parts
<1>5. ASSUME Append(p, k) \in DOMAIN plan
      PROVE  IsModule(Inst(p, k))
  <2>1. PathFit(Append(p, k))
    BY <1>5 DEF Planned
  <2>2. PICK q \in DOMAIN plan : \E i \in Parts(q) : Append(p, k) = Append(q, i)
    BY <1>3, <2>1 DEF PathFit
  <2>3. PICK i \in Parts(q) : Append(p, k) = Append(q, i)
    BY <2>2
  <2>4. PathFit(q)
    BY DEF Planned
  <2>5. q \in Seq(Nat) /\ i \in Nat
    BY <2>4 DEF PathFit, Parts
  <2>6. p = q /\ k = i
    BY <1>2, <2>3, <2>5, SamePath
  <2> QED
    BY <2>6 DEF Parts
<1> QED
  BY <1>2, <1>3, <1>4, <1>5 DEF IsPart

(* An instance of a module is in the plan, with the ports of its module.   *)
LEMMA PartInputs ==
    ASSUME Planned, NEW p \in DOMAIN plan, NEW k \in Parts(p)
    PROVE  LET q == Append(p, k)
           IN  /\ q \in DOMAIN plan /\ ModAt(q) = built[Inst(p, k).type]
               /\ input_ports(built, Inst(p, k)) = ModAt(q).inputs
               /\ output_ports(built, Inst(p, k)) = ModAt(q).outputs
               /\ InputsFit(ModAt(q))
               /\ \A d : InputWire(q, d) = WireIn(ModAt(q), d)
<1> DEFINE q == Append(p, k)
<1>1. PathFit(p)
  BY DEF Planned
<1>2. IsModule(Inst(p, k)) /\ q \in DOMAIN plan /\ plan[q].module = Inst(p, k).type
  BY <1>1 DEF PathFit, Parts, IsPart, Answers
<1>3. PathFit(q)
  BY <1>2 DEF Planned
<1> HIDE DEF q
<1>4. ModAt(q) = built[Inst(p, k).type]
  BY <1>2 DEF ModAt
<1>5. InputsFit(ModAt(q))
  BY <1>3 DEF PathFit, Facts, ModAt
<1>6. /\ input_ports(built, Inst(p, k)) = ModAt(q).inputs
      /\ output_ports(built, Inst(p, k)) = ModAt(q).outputs
  BY <1>2, <1>4 DEF input_ports, output_ports, Interface, IsModule
<1>7. \A d : InputWire(q, d) = WireIn(ModAt(q), d)
  BY DEF InputWire, WireIn
<1> QED
  BY <1>2, <1>4, <1>5, <1>6, <1>7 DEF q

(* The place of an input of an instance.                                   *)
LEMMA SinkPlaceIs ==
    ASSUME Planned, NEW p \in DOMAIN plan, NEW k \in DOMAIN ModAt(p).instances,
           NEW d \in DOMAIN input_ports(built, Inst(p, k))
    PROVE  LET y == SinkPlace(p, k, d)
           IN  /\ IsSunk(y) /\ y[1] = Append(p, k)
               /\ y[2] = IF IsModule(Inst(p, k)) THEN InputWire(Append(p, k), d) ELSE d
<1> DEFINE y == SinkPlace(p, k, d)
<1>1. /\ y = <<y[1], y[2]>> /\ y[1] = Append(p, k)
      /\ y[2] = IF IsModule(Inst(p, k)) THEN InputWire(Append(p, k), d) ELSE d
  BY DEF SinkPlace
<1> HIDE DEF y
<1>2. ASSUME y[1] \in DOMAIN plan
      PROVE  y[2] \in InputsAt(y[1])
  <2>1. IsModule(Inst(p, k)) /\ k \in Parts(p)
    BY <1>1, <1>2, PartIs
  <2>2. InputsFit(ModAt(y[1])) /\ d \in DOMAIN ModAt(y[1]).inputs
        /\ InputWire(y[1], d) = WireIn(ModAt(y[1]), d)
    BY <1>1, <2>1, PartInputs
  <2> QED
    BY <1>1, <2>1, <2>2 DEF InputsFit, InputsAt
<1>3. IsSunk(y)
  BY <1>1, <1>2, PartIs DEF IsSunk
<1> QED
  BY <1>1, <1>3 DEF y

(* A place has at most one wire that gives it its value.                   *)
LEMMA OneSource ==
    ASSUME Planned, NEW p \in DOMAIN plan, NEW w \in WiresAt(p),
           NEW q \in DOMAIN plan, NEW v \in WiresAt(q), NEW y, Gives(p, w, y), Gives(q, v, y)
    PROVE  p = q /\ w = v
<1>1. PICK k \in DOMAIN ModAt(p).instances : \E d \in DOMAIN input_ports(built, Inst(p, k)) :
         IsSinkOf(p, w, k, d) /\ y = SinkPlace(p, k, d)
  BY DEF Gives
<1>2. PICK d \in DOMAIN input_ports(built, Inst(p, k)) :
         IsSinkOf(p, w, k, d) /\ y = SinkPlace(p, k, d)
  BY <1>1
<1>3. PICK l \in DOMAIN ModAt(q).instances : \E e \in DOMAIN input_ports(built, Inst(q, l)) :
         IsSinkOf(q, v, l, e) /\ y = SinkPlace(q, l, e)
  BY DEF Gives
<1>4. PICK e \in DOMAIN input_ports(built, Inst(q, l)) :
         IsSinkOf(q, v, l, e) /\ y = SinkPlace(q, l, e)
  BY <1>3
<1>5. p = q /\ k = l
  <2>1. Append(p, k) = Append(q, l)
    BY <1>2, <1>4 DEF SinkPlace
  <2>2. p \in Seq(Nat) /\ k \in Nat /\ q \in Seq(Nat) /\ l \in Nat
    BY PartIs
  <2> QED
    <3>1. Front(Append(p, k)) = p /\ Last(Append(p, k)) = k
      BY <2>2, PathEnds
    <3>2. Front(Append(q, l)) = q /\ Last(Append(q, l)) = l
      BY <2>2, PathEnds
    <3> QED
      BY <2>1, <3>1, <3>2, Zenon
<1>6. d = e
  <2>1. CASE IsModule(Inst(p, k))
    <3>1. k \in Parts(p)
      BY <2>1 DEF Parts
    <3> DEFINE mod == ModAt(Append(p, k))
    <3>2. InputsFit(mod) /\ d \in DOMAIN mod.inputs /\ e \in DOMAIN mod.inputs
      BY <1>5, <3>1, PartInputs
    <3>3. InputWire(Append(p, k), d) = WireIn(mod, d) /\ InputWire(Append(p, k), e) = WireIn(mod, e)
      BY <3>1, PartInputs
    <3>4. y[2] = InputWire(Append(p, k), d) /\ y[2] = InputWire(Append(p, k), e)
      BY <1>2, <1>4, <1>5, <2>1 DEF SinkPlace
    <3> HIDE DEF mod
    <3> QED
      BY <3>2, <3>3, <3>4 DEF InputsFit
  <2>2. CASE ~IsModule(Inst(p, k))
    BY <1>2, <1>4, <1>5, <2>2 DEF SinkPlace
  <2> QED
    BY <2>1, <2>2
<1>7. SinksFit(built, ModAt(p)) /\ d \in DOMAIN input_ports(built, ModAt(p).instances[k])
  BY DEF Planned, PathFit, Facts, ModAt, Inst
<1>8. Joins(ModAt(p), k, d, ModAt(p).instances[k].con[input_ports(built, ModAt(p).instances[k])[d]])
  BY <1>7, SinkOf
<1> QED
  BY <1>2, <1>4, <1>5, <1>6, <1>8 DEF Joins, IsSinkOf, WiresAt

(* The places that a place gives its value to, at any depth.               *)
Sunk == UNION {UNION {Sinks(<<p, w>>) : w \in WiresAt(p)} : p \in DOMAIN plan}

(* What a place feeds is fed by a wire.                                    *)
LEMMA SunkAre ==
    ASSUME Planned, NEW y \in Sunk
    PROVE  IsSunk(y) /\ Sinks(y) \subseteq Sunk
<1>1. PICK p \in DOMAIN plan : \E w \in WiresAt(p) : y \in Sinks(<<p, w>>)
  BY DEF Sunk
<1>2. PICK w \in WiresAt(p) : y \in Sinks(<<p, w>>)
  BY <1>1
<1>3. PICK k \in DOMAIN ModAt(p).instances : \E d \in DOMAIN input_ports(built, Inst(p, k)) :
         y = SinkPlace(p, k, d)
  BY <1>2, SinksGive DEF Gives
<1>4. IsSunk(y)
  BY <1>3, SinkPlaceIs
<1>5. CASE y[1] \in DOMAIN plan
  <2>1. y[2] \in WiresAt(y[1]) /\ y = <<y[1], y[2]>>
    BY <1>4, <1>5 DEF IsSunk, InputsAt, InputWires, WiresAt
  <2>2. Sinks(<<y[1], y[2]>>) \subseteq Sunk
    BY <1>5, <2>1 DEF Sunk
  <2> QED
    BY <1>4, <2>1, <2>2
<1>6. CASE y[1] \notin DOMAIN plan
  <2>1. Sinks(y) = {}
    BY <1>6 DEF Sinks
  <2> QED
    BY <1>4, <2>1
<1> QED
  BY <1>5, <1>6

(* A wire feeds places one level below it.                                 *)
LEMMA SinksDeeper ==
    ASSUME Planned, NEW p \in DOMAIN plan, NEW w \in WiresAt(p), NEW y \in Sinks(<<p, w>>)
    PROVE  Len(y[1]) = Len(p) + 1 /\ Len(p) \in Nat /\ y \in Sunk
<1>1. PICK k \in DOMAIN ModAt(p).instances : \E d \in DOMAIN input_ports(built, Inst(p, k)) :
         y = SinkPlace(p, k, d)
  BY SinksGive DEF Gives
<1>2. y[1] = Append(p, k)
  BY <1>1 DEF SinkPlace
<1>3. k \in Nat /\ p \in Seq(Nat)
  BY PartIs
<1>4. y \in Sunk
  BY DEF Sunk
<1> QED
  BY <1>2, <1>3, <1>4, PathEnds

Closed(x, F) ==
    /\ Sinks(x) \subseteq F
    /\ \A y \in F : IsSunk(y) /\ Sinks(y) \subseteq F
    /\ \A C : Sinks(x) \subseteq C /\ (\A y \in F \cap C : Sinks(y) \subseteq C) => F \subseteq C

(* Everything a wire reaches downwards: its sinks, theirs, and no more.    *)
LEMMA FanoutIs ==
    ASSUME Planned, NEW p \in DOMAIN plan, NEW w \in WiresAt(p)
    PROVE  Closed(<<p, w>>, Fanout(p, w))
<1> DEFINE x == <<p, w>>
           A == SUBSET Sunk
           more(F) == F \cup UNION {Sinks(y) : y \in F}
           step == [z \in Nat \X A |-> more(z[2])]
           Solves(f) == f = [d \in Nat |-> IF d = 0 THEN Sinks(x) ELSE more(f[d - 1])]
           reach == CHOOSE f : Solves(f)
           N == Cardinality(Names)
<1>1. Sinks(x) \in A
  BY DEF Sunk
<1>2. \A F \in A : more(F) \in A
  BY SunkAre
<1>3. step \in [Nat \X A -> A]
  <2> HIDE DEF more, A
  <2> QED
    BY <1>2
<1>4. PICK f : Recurses(f, A, Sinks(x), step)
  <2> HIDE DEF step, A, x
  <2> QED
    BY <1>1, <1>3, RecursionSolved
<1>5. Solves(f)
  <2>1. /\ f = [k \in Nat |-> f[k]] /\ f[0] = Sinks(x)
        /\ \A k \in Nat : k # 0 =>
              f[k] = step[<<k, f[k - 1]>>] /\ <<k, f[k - 1]>> \in Nat \X A
    BY <1>4 DEF Recurses
  <2> HIDE DEF more, A, x
  <2>2. \A k \in Nat : f[k] = IF k = 0 THEN Sinks(x) ELSE more(f[k - 1])
    BY <2>1
  <2> HIDE DEF step
  <2> QED
    BY <2>1, <2>2
<1>6. Solves(reach)
  <2> HIDE DEF Solves
  <2> QED
    BY <1>5
<1>7. Fanout(p, w) = reach[N]
  BY DEF Fanout
<1> HIDE DEF reach
<1>8. reach[0] = Sinks(x) /\ \A d \in Nat : d # 0 => reach[d] = more(reach[d - 1])
  <2> HIDE DEF more, x
  <2> QED
    BY <1>6
<1> DEFINE Ok(d) ==
              /\ reach[d] \in A /\ Sinks(x) \subseteq reach[d]
              /\ \A y \in reach[d] : Sinks(y) \subseteq reach[d] \/ Len(y[1]) > Len(p) + d
              /\ \A C : Sinks(x) \subseteq C /\ (\A y \in reach[d] \cap C : Sinks(y) \subseteq C)
                           => reach[d] \subseteq C
<1>9. Ok(0)
  <2>1. \A y \in Sinks(x) : Len(y[1]) > Len(p) + 0
    BY SinksDeeper
  <2> QED
    BY <1>1, <1>8, <2>1
<1>10. ASSUME NEW d \in Nat, d # 0, Ok(d - 1)
       PROVE  Ok(d)
  <2> DEFINE F == reach[d - 1]
             G == reach[d]
  <2>1. G = F \cup UNION {Sinks(y) : y \in F}
    BY <1>8, <1>10
  <2>2. /\ F \in A /\ Sinks(x) \subseteq F
        /\ \A y \in F : Sinks(y) \subseteq F \/ Len(y[1]) > Len(p) + (d - 1)
        /\ \A C : Sinks(x) \subseteq C /\ (\A y \in F \cap C : Sinks(y) \subseteq C) => F \subseteq C
    BY <1>10
  <2> HIDE DEF F, G, A
  <2>3. G \in A
    BY <1>2, <2>1, <2>2
  <2>4. ASSUME NEW y \in G
        PROVE  Sinks(y) \subseteq G \/ Len(y[1]) > Len(p) + d
    <3>1. CASE y \in F
      BY <2>1, <3>1
    <3>2. CASE y \notin F
      <4>1. PICK z \in F : y \in Sinks(z)
        BY <2>1, <2>4, <3>2
      <4>2. Len(z[1]) > Len(p) + (d - 1)
        BY <2>2, <3>2, <4>1
      <4>3. z[1] \in DOMAIN plan
        BY <4>1 DEF Sinks
      <4>4. z \in Sunk /\ z = <<z[1], z[2]>> /\ z[2] \in WiresAt(z[1])
        BY <2>2, <4>3, SunkAre DEF IsSunk, InputsAt, InputWires, WiresAt, A
      <4>5. Len(y[1]) = Len(z[1]) + 1 /\ Len(z[1]) \in Nat
        BY <4>1, <4>3, <4>4, SinksDeeper
      <4>6. Len(p) \in Nat
        BY DEF Planned, PathFit
      <4> QED
        BY <1>10, <4>2, <4>5, <4>6
    <3> QED
      BY <3>1, <3>2
  <2>5. ASSUME NEW C, Sinks(x) \subseteq C, \A y \in G \cap C : Sinks(y) \subseteq C
        PROVE  G \subseteq C
    <3>1. F \subseteq C
      BY <2>1, <2>2, <2>5
    <3> QED
      BY <2>1, <2>5, <3>1
  <2>6. Sinks(x) \subseteq G
    BY <2>1, <2>2
  <2> QED
    BY <2>3, <2>4, <2>5, <2>6 DEF G
<1> HIDE DEF Ok
<1> DEFINE Bad == {d \in Nat : ~Ok(d)}
<1>11. Bad = {}
  <2> SUFFICES ASSUME Bad # {}
               PROVE  FALSE
    OBVIOUS
  <2>1. PICK d \in Bad : \A y \in Bad : d <= y
    <3>1. Bad \subseteq Nat
      OBVIOUS
    <3> HIDE DEF Bad
    <3> QED
      BY <3>1, LeastIndex
  <2>2. d # 0 /\ d - 1 \in Nat /\ d - 1 \notin Bad
    BY <1>9, <2>1
  <2> QED
    BY <1>10, <2>1, <2>2
<1>12. N \in Nat
  BY DEF Planned
<1>13. Ok(N)
  BY <1>11, <1>12
<1> DEFINE F == reach[N]
<1>14. ASSUME NEW y \in F
       PROVE  IsSunk(y) /\ Sinks(y) \subseteq F
  <2>1. y \in Sunk /\ (Sinks(y) \subseteq F \/ Len(y[1]) > Len(p) + N)
    BY <1>13, <1>14 DEF Ok
  <2>2. ~(Sinks(y) \subseteq F) => y[1] \in DOMAIN plan
    BY DEF Sinks
  <2>3. y[1] \in DOMAIN plan => Len(y[1]) < N /\ Len(y[1]) \in Nat
    BY DEF Planned, PathFit
  <2>4. Len(p) \in Nat
    BY DEF Planned, PathFit
  <2> HIDE DEF F, N
  <2> QED
    BY <1>12, <2>1, <2>2, <2>3, <2>4, SunkAre
<1>15. Closed(x, F)
  BY <1>13, <1>14 DEF Ok, Closed
<1> QED
  BY <1>7, <1>15

(* Whatever a place in the fanout is, something gives it its value.        *)
LEMMA FanoutHasSource ==
    ASSUME Planned, NEW p \in DOMAIN plan, NEW w \in WiresAt(p), NEW y \in Fanout(p, w)
    PROVE  \E x \in Fanout(p, w) \cup {<<p, w>>} : y \in Sinks(x)
<1> DEFINE F == Fanout(p, w)
           C == {z \in F : \E x \in F \cup {<<p, w>>} : z \in Sinks(x)}
<1>1. Closed(<<p, w>>, F)
  BY FanoutIs
<1> HIDE DEF F
<1>2. Sinks(<<p, w>>) \subseteq C
  BY <1>1 DEF Closed
<1>3. \A z \in F \cap C : Sinks(z) \subseteq C
  BY <1>1 DEF Closed
<1>4. F \subseteq C
  <2> HIDE DEF C
  <2> QED
    BY <1>1, <1>2, <1>3 DEF Closed
<1> QED
  BY <1>4 DEF F

-----------------------------------------------------------------------------
(* The evaluation and the checks go over the modules in the same way, from *)
(* the top-level module: pos[p] is how many of the wires that the search   *)
(* found were dealt with, q[p] the number of queries that were answered    *)
(* (and one more when a module is finished), stk the calls, ph the phase.  *)
Found(p) == PathOrders(p).found
Ends(p) == PathOrders(p).ends
Frames == [path : DOMAIN plan, mode : {"inputs", "query", "finish", "instances"}, todo : Seq(Nat)]
EntersAt(ph, p) == ph = "eval" \/ ~IsGadgetAt(p)
Ended(q, p) == q[p] = Len(plan[p].order) + 1

Positioned(pos, q) ==
    /\ pos \in [DOMAIN plan -> Nat] /\ q \in [DOMAIN plan -> Nat]
    /\ \A p \in DOMAIN plan : /\ pos[p] <= Len(Found(p)) /\ q[p] <= Len(plan[p].order) + 1
                              /\ Ended(q, p) => pos[p] = Len(Found(p))

(* The queries of a module are those that its wires dealt with have made.  *)
CountOf(pos, q, p, i) ==
    LET s == Append(p, i)
    IN  IF Ended(q, s) THEN Ended(q, p)
        ELSE q[s] = Cardinality(Asked(ModAt(p), Found(p), i, pos[p]))
Counted(pos, q, ph) ==
    \A p \in DOMAIN plan : \A i \in Parts(p) :
        EntersAt(ph, Append(p, i)) => CountOf(pos, q, p, i)

(* What is left to do in a call.                                           *)
TodoFits(p, todo, from, to) ==
    todo \in Seq(WiresAt(p)) /\ from <= to /\ IsTodo(todo, Found(p), InputsAt(p), from, to)
PartsLeft(q, ph, p, todo) ==
    /\ todo \in Seq(DOMAIN ModAt(p).instances) /\ Distinct(todo)
    /\ \A i \in Range(todo) \cap Parts(p) : EntersAt(ph, Append(p, i)) => ~Ended(q, Append(p, i))
FrameFits(f, pos, q, ph) ==
    LET p == f.path
        n == Len(plan[p].order)
    IN  /\ f.mode = "inputs" => /\ p = Root /\ q[p] = 0 /\ pos[p] = 0 /\ ph = "eval"
                                /\ f.todo \in Seq(DOMAIN ModAt(p).inputs) /\ Distinct(f.todo)
        /\ f.mode = "query" => /\ q[p] < n /\ Ends(p)[q[p] + 1] <= pos[p]
                               /\ TodoFits(p, f.todo, pos[p], Ends(p)[q[p] + 2])
        /\ f.mode = "finish" => q[p] = n /\ TodoFits(p, f.todo, pos[p], Len(Found(p)))
        /\ f.mode = "instances" => Ended(q, p) /\ PartsLeft(q, ph, p, f.todo)

(* A call and the call that it makes.                                      *)
Queries(f, i) ==
    /\ f.mode \in {"query", "finish"} /\ f.todo # <<>>
    /\ ModAt(f.path).source[Head(f.todo)][1] = i
Calls(f, g, ph) ==
    \E i \in Parts(f.path) :
        /\ g.path = Append(f.path, i) /\ EntersAt(ph, g.path)
        /\ \/ g.mode = "query" /\ Queries(f, i)
           \/ g.mode \in {"finish", "instances"} /\ f.mode = "instances" /\ i \notin Range(f.todo)

StackFits(stk, pos, q, ph) ==
    /\ stk \in Seq(Frames)
    /\ stk # <<>> => stk[1].path = Root /\ stk[1].mode # "query"
    /\ \A k \in 1..Len(stk) : /\ FrameFits(stk[k], pos, q, ph) /\ Len(stk[k].path) = k - 1
                              /\ stk[k].mode = "inputs" => Len(stk) = 1
    /\ \A k \in 1..(Len(stk) - 1) : Calls(stk[k], stk[k + 1], ph)

(* A module on which nothing is called is between two of its queries.      *)
OnStack(stk, p) == \E k \in 1..Len(stk) : stk[k].path = p
IdleFits(stk, pos, q) ==
    \A p \in DOMAIN plan : ~OnStack(stk, p) /\ ~Ended(q, p) => pos[p] = Ends(p)[q[p] + 1]

(* The parts of a module that is finished are, or will be.                 *)
Awaits(f, p, i) ==
    \/ f.mode = "instances" /\ f.path = p /\ i \in Range(f.todo)
    \/ f.mode = "finish" /\ f.path = Append(p, i)
Awaited(stk, p, i) == \E k \in 1..Len(stk) : Awaits(stk[k], p, i)
Starts(stk) == \E k \in 1..Len(stk) : stk[k].path = Root /\ stk[k].mode \in {"inputs", "finish"}
EndsFit(stk, q, ph) ==
    /\ \A p \in DOMAIN plan : \A i \in Parts(p) :
          Ended(q, p) /\ EntersAt(ph, Append(p, i)) => Ended(q, Append(p, i)) \/ Awaited(stk, p, i)
    /\ Ended(q, Root) \/ Starts(stk)

Traversed(stk, pos, q, ph) ==
    /\ Positioned(pos, q) /\ Counted(pos, q, ph) /\ StackFits(stk, pos, q, ph)
    /\ IdleFits(stk, pos, q) /\ EndsFit(stk, q, ph)

-----------------------------------------------------------------------------
(* The next wire to deal with.                                             *)
HeadAt(todo, found, I, from, to, at) ==
    /\ at \in (from + 1)..to /\ found[at] = Head(todo) /\ found[at] \notin I
    /\ \A j \in (from + 1)..(at - 1) : found[j] \in I
    /\ IsTodo(Tail(todo), found, I, at, to)

(* The first wire to evaluate is the first one found that is no input.     *)
LEMMA TodoHead ==
    ASSUME NEW S, NEW todo \in Seq(S), todo # <<>>, NEW found, NEW I, NEW from \in Nat, NEW to \in Nat,
           IsTodo(todo, found, I, from, to)
    PROVE  \E at \in (from + 1)..to : HeadAt(todo, found, I, from, to, at)
<1> DEFINE n == Len(todo)
           tail == Tail(todo)
<1>1. PICK f : /\ DOMAIN f = 1..n
               /\ \A k \in 1..n : f[k] \in (from + 1)..to /\ found[f[k]] \notin I
                                  /\ todo[k] = found[f[k]]
               /\ \A k, l \in 1..n : k < l => f[k] < f[l]
               /\ \A j \in (from + 1)..to : found[j] \notin I => \E k \in 1..n : f[k] = j
  BY DEF IsTodo
<1>2. /\ n \in Nat /\ n >= 1 /\ Len(tail) = n - 1 /\ Head(todo) = todo[1]
      /\ \A k \in 1..(n - 1) : tail[k] = todo[k + 1]
  OBVIOUS
<1> HIDE DEF n, tail
<1> DEFINE at == f[1]
           g == [k \in 1..(n - 1) |-> f[k + 1]]
<1>3. at \in (from + 1)..to /\ found[at] = Head(todo) /\ found[at] \notin I
  BY <1>1, <1>2
<1>4. ASSUME NEW j \in (from + 1)..(at - 1), found[j] \notin I
      PROVE  FALSE
  <2>1. j \in (from + 1)..to
    BY <1>3
  <2>2. PICK k \in 1..n : f[k] = j
    BY <1>1, <1>4, <2>1
  <2>3. k = 1 \/ 1 < k
    BY <1>2
  <2> QED
    BY <1>1, <1>2, <1>3, <2>2, <2>3
<1>5. IsTodo(tail, found, I, at, to)
  <2>1. ASSUME NEW k \in 1..(n - 1)
        PROVE  /\ g[k] \in (at + 1)..to /\ found[g[k]] \notin I /\ tail[k] = found[g[k]]
    <3>1. k + 1 \in 1..n /\ 1 \in 1..n /\ 1 < k + 1
      BY <1>2
    <3>2. f[k + 1] \in (from + 1)..to /\ f[1] < f[k + 1]
      BY <1>1, <3>1
    <3>3. g[k] = f[k + 1] /\ tail[k] = todo[k + 1]
      BY <1>2
    <3>4. found[f[k + 1]] \notin I /\ todo[k + 1] = found[f[k + 1]]
      BY <1>1, <3>1
    <3> HIDE DEF g
    <3> QED
      BY <1>3, <3>2, <3>3, <3>4
  <2>2. ASSUME NEW k \in 1..(n - 1), NEW l \in 1..(n - 1), k < l
        PROVE  g[k] < g[l]
    BY <1>1, <1>2, <2>2
  <2>3. ASSUME NEW j \in (at + 1)..to, found[j] \notin I
        PROVE  \E k \in 1..(n - 1) : g[k] = j
    <3>1. j \in (from + 1)..to /\ j # at
      BY <1>3
    <3>2. PICK k \in 1..n : f[k] = j
      BY <1>1, <2>3, <3>1
    <3>3. k - 1 \in 1..(n - 1) /\ (k - 1) + 1 = k
      BY <1>2, <3>1, <3>2
    <3>4. g[k - 1] = j
      BY <3>2, <3>3
    <3> QED
      BY <3>3, <3>4
  <2>4. DOMAIN g = 1..(n - 1)
    OBVIOUS
  <2> HIDE DEF g
  <2>5. \A k, l \in 1..(n - 1) : k < l => g[k] < g[l]
    BY <2>2
  <2>6. /\ DOMAIN g = 1..Len(tail)
        /\ \A k \in 1..Len(tail) : g[k] \in (at + 1)..to /\ found[g[k]] \notin I
                                  /\ tail[k] = found[g[k]]
        /\ \A k, l \in 1..Len(tail) : k < l => g[k] < g[l]
        /\ \A j \in (at + 1)..to : found[j] \notin I => \E k \in 1..Len(tail) : g[k] = j
    <3>1. Len(tail) = n - 1
      BY <1>2
    <3> QED
      BY <2>1, <2>3, <2>4, <2>5, <3>1
  <2> QED
    BY <2>6 DEF IsTodo
<1> QED
  BY <1>3, <1>4, <1>5 DEF HeadAt, tail

(* With nothing left to evaluate, only inputs were found.                  *)
LEMMA TodoEmpty ==
    ASSUME NEW todo, todo = <<>>, NEW found, NEW I, NEW from, NEW to,
           IsTodo(todo, found, I, from, to)
    PROVE  \A j \in (from + 1)..to : found[j] \in I
<1>1. Len(todo) = 0 /\ 1..0 = {}
  OBVIOUS
<1> QED
  BY <1>1 DEF IsTodo

-----------------------------------------------------------------------------
(* What Replace, Push and PopTo make of the stack.                         *)
IsReplaced(stk, new, f) ==
    Len(new) = Len(stk) /\ new[Len(stk)] = f /\ \A k \in 1..(Len(stk) - 1) : new[k] = stk[k]
IsPushed(stk, new, f, g) ==
    /\ Len(new) = Len(stk) + 1 /\ new[Len(stk)] = f /\ new[Len(stk) + 1] = g
    /\ \A k \in 1..(Len(stk) - 1) : new[k] = stk[k]
IsPopped(stk, new, f) ==
    /\ Len(new) = Len(stk) - 1 /\ new[Len(stk) - 1] = f
    /\ \A k \in 1..(Len(stk) - 2) : new[k] = stk[k]

(* The first elements of a sequence.                                       *)
LEMMA FirstOf ==
    ASSUME NEW S, NEW seq \in Seq(S), NEW m \in 0..Len(seq)
    PROVE  /\ SubSeq(seq, 1, m) \in Seq(S) /\ Len(SubSeq(seq, 1, m)) = m
           /\ \A k \in 1..m : SubSeq(seq, 1, m)[k] = seq[k]
<1>1. Len(seq) \in Nat /\ m \in Nat /\ m <= Len(seq) /\ \A k \in 1..m : seq[k] \in S
  OBVIOUS
<1>2. SubSeq(seq, 1, m) = [k \in 1..m |-> seq[k]]
  BY <1>1
<1> QED
  BY <1>1, <1>2

(* The elements of a concatenation.                                        *)
LEMMA ConcatIs ==
    ASSUME NEW S, NEW s \in Seq(S), NEW t \in Seq(S)
    PROVE  /\ s \o t \in Seq(S) /\ Len(s \o t) = Len(s) + Len(t)
           /\ \A k \in 1..Len(s) : (s \o t)[k] = s[k]
           /\ \A k \in 1..Len(t) : (s \o t)[Len(s) + k] = t[k]
OBVIOUS

(* A sequence with two elements appended.                                  *)
LEMMA TwoMore ==
    ASSUME NEW S, NEW s \in Seq(S), NEW t \in Seq(S), Len(t) = 2
    PROVE  /\ s \o t \in Seq(S) /\ Len(s \o t) = Len(s) + 2
           /\ \A k \in 1..Len(s) : (s \o t)[k] = s[k]
           /\ (s \o t)[Len(s) + 1] = t[1] /\ (s \o t)[Len(s) + 2] = t[2]
<1>1. /\ s \o t \in Seq(S) /\ Len(s \o t) = Len(s) + Len(t)
      /\ \A k \in 1..Len(s) : (s \o t)[k] = s[k]
      /\ \A k \in 1..Len(t) : (s \o t)[Len(s) + k] = t[k]
  BY ConcatIs
<1>2. 1 \in 1..Len(t) /\ 2 \in 1..Len(t)
  OBVIOUS
<1> QED
  BY <1>1, <1>2

(* A stack whose top is replaced, or replaced and pushed upon.             *)
LEMMA StackMoves ==
    ASSUME NEW S, NEW stk \in Seq(S), stk # <<>>, NEW f \in S, NEW g \in S
    PROVE  /\ Len(stk) \in Nat \ {0} /\ Last(stk) = stk[Len(stk)]
           /\ LET new == Append(Front(stk), f) IN new \in Seq(S) /\ IsReplaced(stk, new, f)
           /\ LET new == Front(stk) \o <<f, g>> IN new \in Seq(S) /\ IsPushed(stk, new, f, g)
<1> DEFINE n == Len(stk)
           front == Front(stk)
<1>1. n \in Nat \ {0} /\ Last(stk) = stk[n]
  BY DEF Last
<1>2. front \in Seq(S) /\ Len(front) = n - 1 /\ \A k \in 1..(n - 1) : front[k] = stk[k]
  <2>1. n - 1 \in 0..Len(stk) /\ front = SubSeq(stk, 1, n - 1)
    BY <1>1 DEF Front
  <2> HIDE DEF front
  <2> QED
    BY <2>1, FirstOf
<1> HIDE DEF front
<1>3. LET new == Append(front, f) IN new \in Seq(S) /\ IsReplaced(stk, new, f)
  BY <1>1, <1>2 DEF IsReplaced
<1>4. LET new == front \o <<f, g>> IN new \in Seq(S) /\ IsPushed(stk, new, f, g)
  <2> DEFINE two == <<f, g>>
             new == front \o two
  <2>1. two \in Seq(S) /\ Len(two) = 2 /\ two[1] = f /\ two[2] = g
    OBVIOUS
  <2> HIDE DEF two
  <2>2. /\ new \in Seq(S) /\ Len(new) = n + 1
        /\ \A k \in 1..(n - 1) : new[k] = front[k]
        /\ new[n] = two[1] /\ new[n + 1] = two[2]
    <3> DEFINE l == Len(front)
    <3>1. l \in Nat /\ l = n - 1 /\ l + 1 = n /\ l + 2 = n + 1
      BY <1>1, <1>2
    <3>2. /\ new \in Seq(S) /\ Len(new) = l + 2 /\ \A k \in 1..l : new[k] = front[k]
          /\ new[l + 1] = two[1] /\ new[l + 2] = two[2]
      BY <1>2, <2>1, TwoMore
    <3> QED
      BY <3>1, <3>2
  <2> HIDE DEF new
  <2>3. new \in Seq(S) /\ IsPushed(stk, new, f, g)
    BY <1>1, <1>2, <2>1, <2>2 DEF IsPushed
  <2> QED
    BY <2>3 DEF new, two
<1> QED
  BY <1>1, <1>3, <1>4 DEF front

(* A stack whose two upper frames become one, or whose top is popped.      *)
LEMMA StackPops ==
    ASSUME NEW S, NEW stk \in Seq(S), Len(stk) > 1, NEW f \in S
    PROVE  /\ LET new == Append(SubSeq(stk, 1, Len(stk) - 2), f)
              IN  new \in Seq(S) /\ IsPopped(stk, new, f)
           /\ Front(stk) \in Seq(S) /\ IsPopped(stk, Front(stk), stk[Len(stk) - 1])
<1> DEFINE n == Len(stk)
           rest == SubSeq(stk, 1, n - 2)
<1>1. n \in Nat /\ n >= 2
  OBVIOUS
<1>2. rest \in Seq(S) /\ Len(rest) = n - 2 /\ \A k \in 1..(n - 2) : rest[k] = stk[k]
  <2>1. n - 2 \in 0..Len(stk) /\ rest = SubSeq(stk, 1, n - 2)
    BY <1>1
  <2> HIDE DEF rest
  <2> QED
    BY <2>1, FirstOf
<1> HIDE DEF rest
<1>3. LET new == Append(rest, f) IN new \in Seq(S) /\ IsPopped(stk, new, f)
  BY <1>1, <1>2 DEF IsPopped
<1>4. /\ Front(stk) \in Seq(S) /\ Len(Front(stk)) = n - 1
      /\ \A k \in 1..(n - 1) : Front(stk)[k] = stk[k]
  <2>1. n - 1 \in 0..Len(stk) /\ Front(stk) = SubSeq(stk, 1, n - 1)
    BY <1>1 DEF Front
  <2> QED
    BY <2>1, FirstOf
<1>5. IsPopped(stk, Front(stk), stk[n - 1])
  BY <1>1, <1>4 DEF IsPopped
<1> QED
  BY <1>3, <1>4, <1>5 DEF rest

-----------------------------------------------------------------------------
(* What the order of a module gives.                                       *)
LEMMA FlowAt ==
    ASSUME Planned, NEW p \in DOMAIN plan
    PROVE  /\ Flow(ModAt(p), plan[p], PathOrders(p)) /\ Facts(plan[p].module)
           /\ Found(p) \in Seq(WiresAt(p)) /\ Len(Found(p)) \in Nat /\ Len(plan[p].order) \in Nat
           /\ \A j \in 1..Len(Found(p)) : Found(p)[j] \in WiresAt(p)
           /\ \A k \in 1..(Len(plan[p].order) + 1) : Ends(p)[k] \in 0..Len(Found(p))
           /\ p \in Seq(Nat) /\ Len(p) \in Nat
<1>1. PathFit(p)
  BY DEF Planned
<1>2. Flow(ModAt(p), plan[p], PathOrders(p)) /\ Facts(plan[p].module) /\ p \in Seq(Nat) /\ Len(p) \in Nat
  BY <1>1 DEF PathFit
<1>3. /\ Found(p) \in Seq(WiresAt(p)) /\ Len(plan[p].order) \in Nat
      /\ \A k \in 1..(Len(plan[p].order) + 1) : Ends(p)[k] \in 0..Len(Found(p))
  BY <1>2 DEF Flow, Found, Ends, WiresAt
<1>4. Len(Found(p)) \in Nat /\ \A j \in 1..Len(Found(p)) : Found(p)[j] \in WiresAt(p)
  BY <1>3
<1> QED
  BY <1>2, <1>3, <1>4

(* How many queries an instance has had when the first wires were dealt    *)
(* with: wires that are inputs make none.                                  *)
AskedAt(p, i, k) == Cardinality(Asked(ModAt(p), Found(p), i, k))
OnlyInputs(p, from, to) == \A j \in (from + 1)..to : Found(p)[j] \in InputsAt(p)

(* The wires driven by an instance, among the first found, are finitely    *)
(* many.                                                                   *)
LEMMA AskedIs ==
    ASSUME NEW p, NEW i, NEW k \in Nat
    PROVE  /\ IsFiniteSet(Asked(ModAt(p), Found(p), i, k)) /\ AskedAt(p, i, k) \in Nat
<1>1. IsFiniteSet(1..k)
  BY FS_Interval
<1>2. Asked(ModAt(p), Found(p), i, k) \subseteq 1..k
  BY DEF Asked
<1>3. IsFiniteSet(Asked(ModAt(p), Found(p), i, k))
  BY <1>1, <1>2, FS_Subset
<1> QED
  BY <1>3, FS_CardinalityType DEF AskedAt

(* No instance drives an input of its module.                              *)
LEMMA InputsAskNothing ==
    ASSUME NEW p, NEW i \in Parts(p), NEW j, Found(p)[j] \in InputsAt(p)
    PROVE  ModAt(p).source[Found(p)[j]][1] # i
BY DEF Parts, Inst, IsModule, InputsAt, InputWires, DriverOf

(* Passing inputs asks no instance for an output.                          *)
LEMMA AskedSkips ==
    ASSUME NEW p, NEW i \in Parts(p), NEW from \in Nat, NEW to \in Nat, from <= to,
           OnlyInputs(p, from, to)
    PROVE  AskedAt(p, i, to) = AskedAt(p, i, from)
<1>1. ASSUME NEW j \in 1..to, ModAt(p).source[Found(p)[j]][1] = i
      PROVE  j \in 1..from
  <2>1. CASE j > from
    <3>1. j \in (from + 1)..to
      BY <1>1, <2>1
    <3>2. Found(p)[j] \in InputsAt(p)
      BY <3>1 DEF OnlyInputs
    <3> QED
      BY <1>1, <3>2, InputsAskNothing
  <2> QED
    BY <2>1
<1>2. Asked(ModAt(p), Found(p), i, to) = Asked(ModAt(p), Found(p), i, from)
  BY <1>1 DEF Asked
<1> QED
  BY <1>2 DEF AskedAt

(* Passing a wire asks the instance that drives it for one output more.    *)
LEMMA AskedNext ==
    ASSUME NEW p, NEW i, NEW at \in Nat \ {0}
    PROVE  AskedAt(p, i, at) = AskedAt(p, i, at - 1)
                + (IF ModAt(p).source[Found(p)[at]][1] = i THEN 1 ELSE 0)
<1> DEFINE A(k) == Asked(ModAt(p), Found(p), i, k)
<1>1. at - 1 \in Nat /\ 1..at = 1..(at - 1) \cup {at} /\ at \notin 1..(at - 1)
  OBVIOUS
<1>2. IsFiniteSet(A(at - 1)) /\ Cardinality(A(at - 1)) \in Nat
  BY <1>1, AskedIs DEF AskedAt
<1>3. CASE ModAt(p).source[Found(p)[at]][1] = i
  <2>1. A(at) = A(at - 1) \cup {at} /\ at \notin A(at - 1)
    BY <1>1, <1>3 DEF Asked
  <2>2. Cardinality(A(at)) = Cardinality(A(at - 1)) + 1
    BY <1>2, <2>1, FS_AddElement
  <2> QED
    BY <1>3, <2>2 DEF AskedAt
<1>4. CASE ModAt(p).source[Found(p)[at]][1] # i
  <2>1. A(at) = A(at - 1)
    BY <1>1, <1>4 DEF Asked
  <2> QED
    BY <1>2, <1>4, <2>1 DEF AskedAt
<1> QED
  BY <1>3, <1>4

(* The next wire of a module is dealt with: from some that are inputs on.  *)
NextAt(p, from, at) ==
    /\ at \in (from + 1)..Len(Found(p)) /\ at - 1 \in Nat /\ at \in Nat \ {0}
    /\ OnlyInputs(p, from, at - 1)
    /\ Found(p)[at] \in WiresAt(p) /\ Found(p)[at] \notin InputsAt(p)

(* So does passing inputs and then a wire.                                 *)
LEMMA AskedBy ==
    ASSUME NEW p, NEW i \in Parts(p), NEW from \in Nat, NEW at, NextAt(p, from, at)
    PROVE  /\ AskedAt(p, i, at - 1) = AskedAt(p, i, from) /\ AskedAt(p, i, from) \in Nat
           /\ AskedAt(p, i, at) = AskedAt(p, i, from)
                + (IF ModAt(p).source[Found(p)[at]][1] = i THEN 1 ELSE 0)
<1>1. at - 1 \in Nat /\ at \in Nat \ {0} /\ from <= at - 1 /\ OnlyInputs(p, from, at - 1)
  BY DEF NextAt
<1>2. AskedAt(p, i, at - 1) = AskedAt(p, i, from)
  BY <1>1, AskedSkips
<1>3. AskedAt(p, i, at) = AskedAt(p, i, at - 1)
                + (IF ModAt(p).source[Found(p)[at]][1] = i THEN 1 ELSE 0)
  BY <1>1, AskedNext
<1> QED
  BY <1>2, <1>3, AskedIs

-----------------------------------------------------------------------------
(* The top of the stack.                                                   *)
LEMMA TailIs ==
    ASSUME NEW S, NEW s \in Seq(S), s # <<>>
    PROVE  /\ Tail(s) \in Seq(S) /\ Len(Tail(s)) = Len(s) - 1 /\ Len(s) \in Nat \ {0}
           /\ Head(s) = s[1] /\ Head(s) \in S
           /\ \A k \in 1..(Len(s) - 1) : Tail(s)[k] = s[k + 1]
OBVIOUS

(* The frames of the stack are typed.                                      *)
LEMMA FrameIs ==
    ASSUME NEW stk \in Seq(Frames), NEW k \in 1..Len(stk)
    PROVE  /\ stk[k] \in Frames /\ stk[k].path \in DOMAIN plan /\ stk[k].todo \in Seq(Nat)
           /\ stk[k].mode \in {"inputs", "query", "finish", "instances"}
           /\ Len(stk) \in Nat /\ k \in Nat
<1>1. stk[k] \in Frames /\ Len(stk) \in Nat
  OBVIOUS
<1> QED
  BY <1>1 DEF Frames

(* The wire that a call deals with next.                                   *)
Working(f) == f.mode \in {"query", "finish"} /\ f.todo # <<>>
Target(f, q) ==
    IF f.mode = "query" THEN Ends(f.path)[q[f.path] + 2] ELSE Len(Found(f.path))
IsNext(f, pos, q, at) ==
    /\ NextAt(f.path, pos[f.path], at) /\ Found(f.path)[at] = Head(f.todo)
    /\ at <= Target(f, q) /\ Target(f, q) \in Nat /\ Target(f, q) <= Len(Found(f.path))
    /\ TodoFits(f.path, Tail(f.todo), at, Target(f, q))

(* A frame with wires to evaluate has a next one, which is at a place      *)
(* after the last evaluated.                                               *)
LEMMA NextOf ==
    ASSUME Planned, NEW pos, NEW q, NEW ph, Positioned(pos, q),
           NEW f, f.path \in DOMAIN plan, FrameFits(f, pos, q, ph), Working(f)
    PROVE  \E at : IsNext(f, pos, q, at)
<1> DEFINE p == f.path
           from == pos[p]
           to == Target(f, q)
           n == Len(plan[p].order)
<1>1. /\ Found(p) \in Seq(WiresAt(p)) /\ Len(Found(p)) \in Nat /\ n \in Nat
      /\ \A j \in 1..Len(Found(p)) : Found(p)[j] \in WiresAt(p)
      /\ \A k \in 1..(n + 1) : Ends(p)[k] \in 0..Len(Found(p))
  BY FlowAt
<1>2. from \in Nat /\ q[p] \in Nat
  BY DEF Positioned
<1>3. TodoFits(p, f.todo, from, to)
  BY DEF FrameFits, Working, Target
<1>4. to \in Nat /\ to <= Len(Found(p))
  <2>1. CASE f.mode = "query"
    <3>1. q[p] < n
      BY <2>1 DEF FrameFits
    <3>2. q[p] + 2 \in 1..(n + 1)
      BY <1>1, <1>2, <3>1
    <3> QED
      BY <1>1, <2>1, <3>2 DEF Target
  <2>2. CASE f.mode # "query"
    BY <1>1, <2>2 DEF Target
  <2> QED
    BY <2>1, <2>2
<1>5. f.todo \in Seq(WiresAt(p)) /\ f.todo # <<>>
  BY <1>3 DEF TodoFits, Working
<1>6. PICK at \in (from + 1)..to : HeadAt(f.todo, Found(p), InputsAt(p), from, to, at)
  <2>1. IsTodo(f.todo, Found(p), InputsAt(p), from, to)
    BY <1>3 DEF TodoFits
  <2> HIDE DEF from, to, p
  <2> QED
    BY <1>2, <1>4, <1>5, <2>1, TodoHead
<1>7. /\ at \in (from + 1)..Len(Found(p)) /\ at - 1 \in Nat /\ at \in Nat \ {0} /\ at <= to
      /\ at \in 1..Len(Found(p))
  <2> HIDE DEF from, to, p
  <2> QED
    BY <1>1, <1>2, <1>4, <1>6
<1>8. Tail(f.todo) \in Seq(WiresAt(p))
  BY <1>5, TailIs
<1>9. NextAt(p, from, at)
  BY <1>1, <1>6, <1>7 DEF HeadAt, NextAt, OnlyInputs
<1>10. TodoFits(p, Tail(f.todo), at, to)
  BY <1>6, <1>7, <1>8 DEF HeadAt, TodoFits
<1> QED
  BY <1>4, <1>6, <1>7, <1>9, <1>10 DEF IsNext, HeadAt

(* A call goes on fitting when others are made.                            *)
LEMMA FrameStays ==
    ASSUME NEW f, NEW pos, NEW q, NEW pos1, NEW q1, NEW ph, FrameFits(f, pos, q, ph),
           pos1[f.path] = pos[f.path], q1[f.path] = q[f.path],
           f.mode = "instances" => \A i \in Range(f.todo) \cap Parts(f.path) :
               Ended(q1, Append(f.path, i)) => Ended(q, Append(f.path, i))
    PROVE  FrameFits(f, pos1, q1, ph)
BY DEF FrameFits, PartsLeft, Ended

-----------------------------------------------------------------------------
(* The calls below one are not disturbed by what is done above them.       *)
ChangedAbove(stk, k, pos, q, pos1, q1) ==
    \A x \in DOMAIN plan : \/ pos1[x] = pos[x] /\ q1[x] = q[x]
                           \/ \E l \in (k + 1)..Len(stk) : stk[l].path = x
                           \/ Len(x) >= Len(stk) /\ ~Ended(q1, x)

(* The frames of a stack are one per level, each called by the one below.  *)
LEMMA StackIs ==
    ASSUME Planned, NEW stk, NEW pos, NEW q, NEW ph, StackFits(stk, pos, q, ph),
           NEW k \in 1..Len(stk)
    PROVE  /\ stk[k] \in Frames /\ stk[k].path \in DOMAIN plan /\ stk[k].path \in Seq(Nat)
           /\ stk[k].mode \in {"inputs", "query", "finish", "instances"}
           /\ FrameFits(stk[k], pos, q, ph) /\ Len(stk[k].path) = k - 1
           /\ k \in Nat /\ Len(stk) \in Nat /\ stk \in Seq(Frames)
           /\ k < Len(stk) => Calls(stk[k], stk[k + 1], ph) /\ k + 1 \in 1..Len(stk)
<1>1. stk \in Seq(Frames)
  BY DEF StackFits
<1>2. stk[k] \in Frames /\ Len(stk) \in Nat /\ k \in Nat
  BY <1>1
<1>3. stk[k].path \in DOMAIN plan /\ stk[k].mode \in {"inputs", "query", "finish", "instances"}
  BY <1>2 DEF Frames
<1>4. stk[k].path \in Seq(Nat)
  BY <1>3, FlowAt
<1>5. k < Len(stk) => k \in 1..(Len(stk) - 1) /\ k + 1 \in 1..Len(stk)
  BY <1>2
<1> QED
  BY <1>1, <1>2, <1>3, <1>4, <1>5 DEF StackFits

(* A path is on the stack once.                                            *)
LEMMA OnePath ==
    ASSUME Planned, NEW stk, NEW pos, NEW q, NEW ph, StackFits(stk, pos, q, ph),
           NEW k \in 1..Len(stk), NEW l \in 1..Len(stk), stk[k].path = stk[l].path
    PROVE  k = l
<1>1. Len(stk[k].path) = k - 1 /\ Len(stk[l].path) = l - 1 /\ k \in Nat /\ l \in Nat
  BY StackIs
<1> QED
  BY <1>1

(* A frame still fits when only paths above it change.                     *)
LEMMA BelowStays ==
    ASSUME Planned, NEW stk, NEW pos, NEW q, NEW ph, StackFits(stk, pos, q, ph),
           NEW k \in 1..Len(stk), NEW pos1, NEW q1,
           ChangedAbove(stk, k, pos, q, pos1, q1)
    PROVE  FrameFits(stk[k], pos1, q1, ph)
<1> DEFINE f == stk[k]
           p == f.path
<1>1. /\ p \in DOMAIN plan /\ p \in Seq(Nat) /\ FrameFits(f, pos, q, ph) /\ Len(p) = k - 1
      /\ k \in Nat /\ Len(stk) \in Nat
  BY StackIs
<1>2. pos1[p] = pos[p] /\ q1[p] = q[p]
  <2>1. ASSUME NEW l \in (k + 1)..Len(stk), stk[l].path = p
        PROVE  FALSE
    <3>1. l \in 1..Len(stk) /\ l # k
      BY <1>1
    <3> QED
      BY <2>1, <3>1, OnePath
  <2> QED
    BY <1>1, <2>1 DEF ChangedAbove
<1>3. ASSUME f.mode = "instances", NEW i \in Range(f.todo) \cap Parts(p),
             Ended(q1, Append(p, i))
      PROVE  Ended(q, Append(p, i))
  <2> DEFINE x == Append(p, i)
  <2>1. x \in DOMAIN plan /\ Len(x) = k
    <3>1. IsPart(p, i)
      BY <1>1 DEF Planned, PathFit
    <3> QED
      BY <1>1, <3>1 DEF IsPart
  <2>2. ASSUME NEW l \in (k + 1)..Len(stk), stk[l].path = x
        PROVE  FALSE
    <3>1. l \in 1..Len(stk) /\ l \in Nat
      BY <1>1
    <3>2. l = k + 1
      <4>1. Len(stk[l].path) = l - 1
        BY <3>1, StackIs
      <4> QED
        BY <1>1, <2>1, <2>2, <3>1, <4>1
    <3>3. Calls(f, stk[k + 1], ph)
      BY <1>1, <3>1, <3>2, StackIs
    <3>4. PICK j \in Parts(p) : /\ x = Append(p, j)
                                /\ \/ stk[k + 1].mode = "query" /\ Queries(f, j)
                                   \/ j \notin Range(f.todo)
      BY <2>2, <3>2, <3>3 DEF Calls
    <3>5. j = i
      <4>1. i \in Nat /\ j \in Nat
        BY <1>1, PartIs DEF Parts
      <4> QED
        BY <1>1, <3>4, <4>1, SamePath
    <3> QED
      BY <1>3, <3>4, <3>5 DEF Queries
  <2>3. q1[x] = q[x]
    BY <1>3, <2>1, <2>2 DEF ChangedAbove
  <2> QED
    BY <1>3, <2>3 DEF Ended
<1> QED
  BY <1>1, <1>2, <1>3, FrameStays

(* The stack when its top is replaced.                                     *)
LEMMA StackReplaced ==
    ASSUME Planned, NEW stk, NEW pos, NEW q, NEW ph, StackFits(stk, pos, q, ph), stk # <<>>,
           NEW pos1, NEW q1,
           ChangedAbove(stk, Len(stk) - 1, pos, q, pos1, q1),
           NEW new \in Seq(Frames), NEW f1, IsReplaced(stk, new, f1),
           f1.path = stk[Len(stk)].path, FrameFits(f1, pos1, q1, ph),
           f1.mode = stk[Len(stk)].mode \/ (stk[Len(stk)].mode = "finish" /\ f1.mode = "instances")
              \/ (stk[Len(stk)].mode = "inputs" /\ f1.mode = "finish")
    PROVE  StackFits(new, pos1, q1, ph)
<1> DEFINE n == Len(stk)
           f == stk[n]
<1>1. n \in Nat \ {0} /\ stk \in Seq(Frames)
  BY DEF StackFits
<1>2. /\ f.path \in DOMAIN plan /\ FrameFits(f, pos, q, ph) /\ Len(f.path) = n - 1
  BY <1>1, StackIs
<1>3. Len(new) = n /\ new[n] = f1 /\ \A k \in 1..(n - 1) : new[k] = stk[k]
  BY DEF IsReplaced
<1>4. ASSUME NEW k \in 1..(n - 1)
      PROVE  FrameFits(stk[k], pos1, q1, ph)
  <2>1. k \in 1..Len(stk) /\ k \in Nat
    BY <1>1
  <2>2. ChangedAbove(stk, k, pos, q, pos1, q1)
    <3>1. ((n - 1) + 1)..n \subseteq (k + 1)..n
      BY <1>1, <2>1
    <3> QED
      BY <3>1 DEF ChangedAbove
  <2> QED
    BY <2>1, <2>2, BelowStays
<1>5. new[1].path = Root /\ new[1].mode # "query"
  <2>1. stk[1].path = Root /\ stk[1].mode # "query"
    BY DEF StackFits
  <2>2. CASE n = 1
    BY <1>3, <2>1, <2>2
  <2>3. CASE n # 1
    <3>1. 1 \in 1..(n - 1)
      <4> HIDE DEF n
      <4> QED
        BY <1>1, <2>3
    <3> QED
      BY <1>3, <2>1, <3>1
  <2> QED
    BY <2>2, <2>3
<1>6. ASSUME NEW k \in 1..n
      PROVE  /\ FrameFits(new[k], pos1, q1, ph) /\ Len(new[k].path) = k - 1
             /\ new[k].mode = "inputs" => n = 1
  <2>1. CASE k = n
    <3>1. f1.mode = "inputs" => f.mode = "inputs"
      OBVIOUS
    <3>2. f.mode = "inputs" => n = 1
      BY <1>1 DEF StackFits
    <3> QED
      BY <1>2, <1>3, <2>1, <3>1, <3>2
  <2>2. CASE k # n
    <3>1. k \in 1..(n - 1)
      BY <1>1, <2>2
    <3>2. Len(stk[k].path) = k - 1 /\ (stk[k].mode = "inputs" => n = 1)
      BY DEF StackFits
    <3> QED
      BY <1>3, <1>4, <3>1, <3>2
  <2> QED
    BY <2>1, <2>2
<1>7. ASSUME NEW k \in 1..(n - 1)
      PROVE  Calls(new[k], new[k + 1], ph)
  <2>1. Calls(stk[k], stk[k + 1], ph)
    BY DEF StackFits
  <2>2. CASE k + 1 = n
    <3>1. new[k] = stk[k] /\ new[k + 1] = f1 /\ Calls(stk[k], f, ph)
      BY <1>3, <2>1, <2>2
    <3>2. PICK i \in Parts(stk[k].path) :
            /\ f.path = Append(stk[k].path, i) /\ EntersAt(ph, f.path)
            /\ \/ f.mode = "query" /\ Queries(stk[k], i)
               \/ f.mode \in {"finish", "instances"} /\ stk[k].mode = "instances"
                    /\ i \notin Range(stk[k].todo)
      BY <3>1 DEF Calls
    <3>3. /\ f1.path = Append(stk[k].path, i) /\ EntersAt(ph, f1.path)
          /\ \/ f1.mode = "query" /\ Queries(stk[k], i)
             \/ f1.mode \in {"finish", "instances"} /\ stk[k].mode = "instances"
                    /\ i \notin Range(stk[k].todo)
      <4>1. f1.mode = f.mode \/ (f.mode = "finish" /\ f1.mode = "instances")
        BY <3>2
      <4> QED
        BY <3>2, <4>1
    <3> QED
      BY <3>1, <3>3 DEF Calls
  <2>3. CASE k + 1 # n
    <3>1. k + 1 \in 1..(n - 1)
      BY <1>1, <2>3
    <3> QED
      BY <1>3, <2>1, <3>1
  <2> QED
    BY <2>2, <2>3
<1> QED
  BY <1>1, <1>3, <1>5, <1>6, <1>7 DEF StackFits

-----------------------------------------------------------------------------
(* A wire is dealt with that asks nothing of a module that is entered.     *)
IsRest(f1, f) == f1.path = f.path /\ f1.mode = f.mode /\ f1.todo = Tail(f.todo)
Driving(f) == ModAt(f.path).source[Head(f.todo)][1]
AsksModule(f, ph) == /\ IsModule(Inst(f.path, Driving(f)))
                     /\ EntersAt(ph, Append(f.path, Driving(f)))

(* An instance being evaluated has not ended.                              *)
LEMMA NotEnded ==
    ASSUME Planned, NEW pos, NEW q, NEW ph, Positioned(pos, q),
           NEW f, f.path \in DOMAIN plan, FrameFits(f, pos, q, ph), f.mode \in {"query", "finish"}
    PROVE  ~Ended(q, f.path)
<1>1. Len(plan[f.path].order) \in Nat /\ q[f.path] \in Nat
  BY FlowAt DEF Positioned
<1>2. q[f.path] <= Len(plan[f.path].order)
  BY <1>1 DEF FrameFits
<1> QED
  BY <1>1, <1>2 DEF Ended

(* Moving on in the wires of one instance keeps the positions right.       *)
LEMMA PositionMoves ==
    ASSUME NEW pos, NEW q, Positioned(pos, q), NEW p \in DOMAIN plan, ~Ended(q, p),
           NEW at \in Nat, at <= Len(Found(p))
    PROVE  Positioned([pos EXCEPT ![p] = at], q)
<1> DEFINE pos1 == [pos EXCEPT ![p] = at]
<1>1. pos \in [DOMAIN plan -> Nat]
  BY DEF Positioned
<1>2. pos1 \in [DOMAIN plan -> Nat] /\ \A x \in DOMAIN plan : pos1[x] = IF x = p THEN at ELSE pos[x]
  BY <1>1
<1> HIDE DEF pos1
<1>3. ASSUME NEW x \in DOMAIN plan
      PROVE  pos1[x] <= Len(Found(x)) /\ (Ended(q, x) => pos1[x] = Len(Found(x)))
  <2>1. CASE x = p
    BY <1>2, <2>1
  <2>2. CASE x # p
    BY <1>2, <2>2 DEF Positioned
  <2> QED
    BY <2>1, <2>2
<1> QED
  BY <1>2, <1>3 DEF Positioned, pos1

(* A module that is not entered, and any part but the one that is asked,   *)
(* has had the same queries.                                               *)
LEMMA CountStays ==
    ASSUME Planned, NEW pos, NEW q, Positioned(pos, q), NEW p \in DOMAIN plan, NEW i \in Parts(p),
           ~Ended(q, p), CountOf(pos, q, p, i), NEW at, NextAt(p, pos[p], at),
           ModAt(p).source[Found(p)[at]][1] # i
    PROVE  CountOf([pos EXCEPT ![p] = at], q, p, i)
<1>1. pos \in [DOMAIN plan -> Nat]
  BY DEF Positioned
<1>2. [pos EXCEPT ![p] = at][p] = at /\ pos[p] \in Nat
  BY <1>1
<1>3. AskedAt(p, i, at) = AskedAt(p, i, pos[p])
  BY <1>2, AskedBy
<1> QED
  BY <1>2, <1>3 DEF CountOf, AskedAt

(* The next wire of a query is after the end of the queries before it.     *)
LEMMA QueryStarts ==
    ASSUME Planned, NEW pos, NEW q, NEW ph, Positioned(pos, q),
           NEW f, f.path \in DOMAIN plan, FrameFits(f, pos, q, ph), f.mode = "query",
           NEW at, NextAt(f.path, pos[f.path], at)
    PROVE  Ends(f.path)[q[f.path] + 1] <= at
<1> DEFINE p == f.path
           e == Ends(p)[q[p] + 1]
<1>1. q[p] \in Nat /\ pos[p] \in Nat /\ Len(plan[p].order) \in Nat /\ Len(Found(p)) \in Nat
  BY FlowAt DEF Positioned
<1>2. q[p] < Len(plan[p].order) /\ e <= pos[p]
  BY DEF FrameFits
<1>3. q[p] + 1 \in 1..(Len(plan[p].order) + 1)
  BY <1>1, <1>2
<1>4. e \in 0..Len(Found(p))
  BY <1>3, FlowAt
<1>5. at \in (pos[p] + 1)..Len(Found(p))
  BY DEF NextAt
<1> HIDE DEF e, p
<1>6. e <= at
  BY <1>1, <1>2, <1>4, <1>5
<1> QED
  BY <1>6 DEF e, p

SameEnds(stk, new) ==
    /\ Len(new) = Len(stk)
    /\ \A k \in 1..Len(stk) : /\ new[k].path = stk[k].path /\ new[k].mode = stk[k].mode
                              /\ new[k].mode = "instances" => new[k].todo = stk[k].todo
(* Replacing frames by frames of the same instances ends none.             *)
LEMMA EndsStay ==
    ASSUME NEW stk, NEW new, NEW q, NEW ph, EndsFit(stk, q, ph), SameEnds(stk, new)
    PROVE  EndsFit(new, q, ph) /\ \A p : OnStack(new, p) <=> OnStack(stk, p)
<1>1. \A p, i : Awaited(stk, p, i) <=> Awaited(new, p, i)
  BY Zenon DEF Awaited, Awaits, SameEnds
<1>2. Starts(stk) <=> Starts(new)
  BY DEF Starts, SameEnds
<1>3. \A p : OnStack(new, p) <=> OnStack(stk, p)
  BY DEF OnStack, SameEnds
<1> QED
  BY <1>1, <1>2, <1>3 DEF EndsFit

(* Evaluating a wire that asks no module moves on by one wire.             *)
LEMMA Advances ==
    ASSUME Planned, NEW stk, NEW pos, NEW q, NEW ph, Traversed(stk, pos, q, ph), stk # <<>>,
           NEW f, f = stk[Len(stk)], Working(f), NEW at, IsNext(f, pos, q, at), ~AsksModule(f, ph),
           NEW new \in Seq(Frames), NEW f1, IsReplaced(stk, new, f1), IsRest(f1, f)
    PROVE  Traversed(new, [pos EXCEPT ![f.path] = at], q, ph)
<1> DEFINE n == Len(stk)
           p == f.path
           pos1 == [pos EXCEPT ![p] = at]
<1>1. /\ Positioned(pos, q) /\ Counted(pos, q, ph) /\ StackFits(stk, pos, q, ph)
      /\ IdleFits(stk, pos, q) /\ EndsFit(stk, q, ph)
  BY DEF Traversed
<1>2. n \in 1..Len(stk) /\ n \in Nat \ {0}
  BY <1>1 DEF StackFits
<1>3. p \in DOMAIN plan /\ FrameFits(f, pos, q, ph)
  BY <1>1, <1>2, StackIs
<1>4. ~Ended(q, p)
  BY <1>1, <1>3, NotEnded DEF Working
<1>5. pos \in [DOMAIN plan -> Nat] /\ pos[p] \in Nat
  BY <1>1, <1>3 DEF Positioned
<1>6. \A x \in DOMAIN plan : pos1[x] = IF x = p THEN at ELSE pos[x]
  BY <1>5
<1>7. at \in Nat /\ at <= Len(Found(p)) /\ NextAt(p, pos[p], at)
  <2>1. NextAt(p, pos[p], at)
    BY DEF IsNext
  <2>2. Len(Found(p)) \in Nat
    BY <1>3, FlowAt
  <2> QED
    BY <1>5, <2>1, <2>2 DEF NextAt
<1>8. Positioned(pos1, q)
  BY <1>1, <1>3, <1>4, <1>7, PositionMoves
<1>9. Counted(pos1, q, ph)
  <2>1. ASSUME NEW x \in DOMAIN plan, NEW i \in Parts(x), EntersAt(ph, Append(x, i))
        PROVE  CountOf(pos1, q, x, i)
    <3>1. CountOf(pos, q, x, i)
      BY <1>1, <2>1 DEF Counted
    <3>2. CASE x # p
      <4>1. pos1[x] = pos[x]
        BY <1>6, <3>2, Zenon
      <4> HIDE DEF pos1
      <4> QED
        BY <3>1, <4>1 DEF CountOf
    <3>3. CASE x = p
      <4>1. Found(p)[at] = Head(f.todo)
        BY Zenon DEF IsNext
      <4>2. ModAt(p).source[Found(p)[at]][1] # i
        BY <2>1, <3>3, <4>1, Zenon DEF AsksModule, Driving, Parts
      <4> QED
        BY <1>1, <1>3, <1>4, <1>7, <3>1, <3>3, <4>2, CountStays
    <3> QED
      BY <3>2, <3>3
  <2> QED
    BY <2>1 DEF Counted
<1> HIDE DEF pos1
<1>10. FrameFits(f1, pos1, q, ph)
  <2>1. TodoFits(p, Tail(f.todo), at, Target(f, q))
    BY DEF IsNext
  <2>2. pos1[p] = at
    BY <1>3, <1>6
  <2>3. f1.path = p /\ f1.mode = f.mode /\ f1.todo = Tail(f.todo) /\ f.mode \in {"query", "finish"}
    BY DEF IsRest, Working
  <2>4. f.mode = "query" => Ends(p)[q[p] + 1] <= at
    BY <1>1, <1>3, <1>7, QueryStarts
  <2> QED
    BY <1>3, <2>1, <2>2, <2>3, <2>4 DEF FrameFits, Target
<1>11. ChangedAbove(stk, n - 1, pos, q, pos1, q)
  <2>1. n \in ((n - 1) + 1)..Len(stk) /\ stk[n].path = p
    BY <1>2
  <2> QED
    BY <1>6, <2>1 DEF ChangedAbove
<1>12. StackFits(new, pos1, q, ph)
  <2>1. f1.path = stk[n].path /\ f1.mode = stk[n].mode
    BY DEF IsRest
  <2> QED
    BY <1>1, <1>10, <1>11, <2>1, StackReplaced
<1>13. SameEnds(stk, new)
  <2>1. Len(new) = n /\ new[n] = f1 /\ \A k \in 1..(n - 1) : new[k] = stk[k]
    BY DEF IsReplaced
  <2>2. \A k \in 1..n : k = n \/ k \in 1..(n - 1)
    BY <1>2
  <2>3. f1.path = f.path /\ f1.mode = f.mode /\ f.mode # "instances"
    BY DEF IsRest, Working
  <2> QED
    BY <2>1, <2>2, <2>3 DEF SameEnds
<1>14. EndsFit(new, q, ph) /\ \A x : OnStack(new, x) <=> OnStack(stk, x)
  BY <1>1, <1>13, EndsStay
<1>15. IdleFits(new, pos1, q)
  <2>1. OnStack(stk, p)
    BY <1>2 DEF OnStack
  <2> QED
    BY <1>1, <1>6, <1>14, <2>1 DEF IdleFits
<1> QED
  BY <1>8, <1>9, <1>12, <1>14, <1>15 DEF Traversed, pos1

-----------------------------------------------------------------------------
(* A call is made.                                                         *)
OnTop(mid, new, g) ==
    Len(new) = Len(mid) + 1 /\ new[Len(mid) + 1] = g /\ \A k \in 1..Len(mid) : new[k] = mid[k]

(* Calling an instance keeps the stack one frame per level.                *)
LEMMA StackPushed ==
    ASSUME Planned, NEW mid, NEW pos, NEW q, NEW ph, StackFits(mid, pos, q, ph), mid # <<>>,
           NEW new \in Seq(Frames), NEW g, OnTop(mid, new, g), FrameFits(g, pos, q, ph),
           Calls(mid[Len(mid)], g, ph), mid[Len(mid)].mode # "inputs", g.mode # "inputs"
    PROVE  StackFits(new, pos, q, ph)
<1> DEFINE n == Len(mid)
<1>1. n \in Nat \ {0} /\ mid \in Seq(Frames) /\ n \in 1..n /\ 1 \in 1..n
  BY DEF StackFits
<1>2. mid[n].path \in DOMAIN plan /\ Len(mid[n].path) = n - 1
  BY <1>1, StackIs
<1>3. PICK i \in Parts(mid[n].path) : g.path = Append(mid[n].path, i)
  BY DEF Calls
<1>4. Len(g.path) = n
  <2>1. IsPart(mid[n].path, i)
    BY <1>2, <1>3 DEF Planned, PathFit
  <2>2. Len(Append(mid[n].path, i)) = Len(mid[n].path) + 1
    BY <2>1 DEF IsPart
  <2> HIDE DEF n
  <2> QED
    BY <1>1, <1>2, <1>3, <2>2
<1>5. Len(new) = n + 1 /\ new[n + 1] = g /\ \A k \in 1..n : new[k] = mid[k]
  BY DEF OnTop
<1>6. \A k \in 1..n : mid[k].mode # "inputs"
  <2>1. ASSUME NEW k \in 1..n, mid[k].mode = "inputs"
        PROVE  FALSE
    <3>1. n = 1
      BY <2>1 DEF StackFits
    <3>2. k = n
      BY <2>1, <3>1
    <3> QED
      BY <2>1, <3>2
  <2> QED
    BY <2>1
<1>7. ASSUME NEW k \in 1..(n + 1)
      PROVE  /\ FrameFits(new[k], pos, q, ph) /\ Len(new[k].path) = k - 1
             /\ new[k].mode # "inputs"
  <2>1. CASE k = n + 1
    BY <1>1, <1>4, <1>5, <2>1
  <2>2. CASE k # n + 1
    <3>1. k \in 1..n
      BY <1>1, <2>2
    <3>2. FrameFits(mid[k], pos, q, ph) /\ Len(mid[k].path) = k - 1
      BY <3>1 DEF StackFits
    <3> QED
      BY <1>5, <1>6, <3>1, <3>2
  <2> QED
    BY <2>1, <2>2
<1>8. ASSUME NEW k \in 1..((n + 1) - 1)
      PROVE  Calls(new[k], new[k + 1], ph)
  <2>1. CASE k = n
    BY <1>1, <1>5, <2>1
  <2>2. CASE k # n
    <3>1. k \in 1..(n - 1) /\ k \in 1..n /\ k + 1 \in 1..n
      BY <1>1, <2>2
    <3>2. Calls(mid[k], mid[k + 1], ph)
      BY <3>1 DEF StackFits
    <3> QED
      BY <1>5, <3>1, <3>2
  <2> QED
    BY <2>1, <2>2
<1>9. new[1].path = Root /\ new[1].mode # "query"
  BY <1>1, <1>5 DEF StackFits
<1> QED
  BY <1>5, <1>7, <1>8, <1>9 DEF StackFits

(* A module that is not called yet is not on the stack.                    *)
LEMMA NotOnStack ==
    ASSUME Planned, NEW stk, NEW pos, NEW q, NEW ph, StackFits(stk, pos, q, ph),
           NEW x, Len(x) >= Len(stk)
    PROVE  ~OnStack(stk, x)
<1> SUFFICES ASSUME NEW k \in 1..Len(stk), stk[k].path = x
             PROVE  FALSE
  BY DEF OnStack
<1>1. Len(stk[k].path) = k - 1 /\ k \in Nat /\ Len(stk) \in Nat
  BY StackIs, Zenon
<1> QED
  BY <1>1

(* The next query of an instance is the one that comes.                    *)
QueryComes(p, i, q, o) ==
    LET s == Append(p, i)
    IN  /\ s \in DOMAIN plan /\ Len(s) = Len(p) + 1 /\ ~Ended(q, s) /\ q[s] \in Nat
        /\ q[s] < Len(plan[s].order) /\ q[s] + 1 \in DOMAIN plan[s].order
        /\ plan[s].order[q[s] + 1].con = ModAt(s).outputs[o]

(* A wire that a module drives asks it for the output that is its next     *)
(* query: the order in which an instance is asked is the one its evaluator *)
(* was made for (the assertion of eval_output).                            *)
LEMMA QueryIs ==
    ASSUME Planned, NEW pos, NEW q, NEW ph, Positioned(pos, q), Counted(pos, q, ph),
           NEW f, f.path \in DOMAIN plan, FrameFits(f, pos, q, ph), Working(f),
           NEW at, IsNext(f, pos, q, at), AsksModule(f, ph)
    PROVE  /\ Driving(f) \in Parts(f.path)
           /\ QueryComes(f.path, Driving(f), q, ModAt(f.path).source[Head(f.todo)][2])
<1> DEFINE p == f.path
           w == Head(f.todo)
           i == Driving(f)
           s == Append(p, i)
           qs == plan[p].queries[i]
<1>1. NextAt(p, pos[p], at) /\ Found(p)[at] = w
  BY DEF IsNext
<1>2. at \in 1..Len(Found(p)) /\ w \in WiresAt(p) /\ pos[p] \in Nat
  <2>1. pos[p] \in Nat /\ Len(Found(p)) \in Nat
    BY FlowAt, Zenon DEF Positioned
  <2> QED
    BY <1>1, <2>1 DEF NextAt
<1>3. i \in Parts(p) /\ ModAt(p).source[w][1] = i
  <2>1. Facts(plan[p].module)
    BY FlowAt, Zenon
  <2>2. i \in DOMAIN ModAt(p).instances
    BY <1>2, <2>1, Zenon DEF Facts, SourcesFit, Driving, WiresAt, ModAt
  <2> QED
    BY <2>2 DEF AsksModule, Parts, Driving
<1>4. IsPart(p, i)
  BY <1>3 DEF Planned, PathFit
<1>5. s \in DOMAIN plan /\ Len(s) = Len(p) + 1 /\ Answers(plan[s], Inst(p, i).type, qs)
  BY <1>4 DEF IsPart
<1>6. ~Ended(q, p)
  BY NotEnded DEF Working
<1>7. ~Ended(q, s) /\ q[s] = AskedAt(p, i, pos[p])
  <2>1. CountOf(pos, q, p, i)
    BY <1>3 DEF Counted, AsksModule
  <2> QED
    BY <1>6, <2>1 DEF CountOf, AskedAt
<1>8. AskedAt(p, i, at - 1) = AskedAt(p, i, pos[p]) /\ AskedAt(p, i, pos[p]) \in Nat
  BY <1>1, <1>2, <1>3, AskedBy
<1>9. QueriesFit(ModAt(p), Found(p), qs, i)
  <2>1. Flow(ModAt(p), plan[p], PathOrders(p))
    BY FlowAt
  <2> QED
    BY <1>3, <2>1 DEF Flow, Found, Parts
<1>10. q[s] + 1 \in 1..Len(qs) /\ qs[q[s] + 1] = ModAt(p).source[w][2]
  <2>1. /\ AskedAt(p, i, at - 1) + 1 \in 1..Len(qs)
        /\ qs[AskedAt(p, i, at - 1) + 1] = ModAt(p).source[w][2]
    BY <1>1, <1>2, <1>3, <1>9, Zenon DEF QueriesFit, AskedAt
  <2> QED
    BY <1>7, <1>8, <2>1, Zenon
<1>11. /\ Len(plan[s].order) = Len(qs) /\ ModAt(s) = built[Inst(p, i).type]
       /\ plan[s].order[q[s] + 1].con = ModAt(s).outputs[qs[q[s] + 1]]
  BY <1>5, <1>10, Zenon DEF Answers, ModAt
<1>12. DOMAIN plan[s].order = 1..Len(plan[s].order) /\ Len(plan[s].order) \in Nat
  <2>1. Flow(ModAt(s), plan[s], PathOrders(s))
    BY <1>5, FlowAt, Zenon
  <2> QED
    BY <2>1 DEF Flow
<1>13. q[s] \in Nat /\ q[s] < Len(plan[s].order) /\ q[s] + 1 \in DOMAIN plan[s].order
  <2>1. q[s] \in Nat
    BY <1>7, <1>8
  <2> HIDE DEF s, qs
  <2> QED
    BY <1>10, <1>11, <1>12, <2>1
<1> QED
  BY <1>3, <1>5, <1>7, <1>10, <1>11, <1>13 DEF QueryComes

IsQuery(g, p, i, q) ==
    LET s == Append(p, i) IN g.path = s /\ g.mode = "query" /\ g.todo = plan[s].order[q[s] + 1].wires

(* Asking an instance for its next query keeps the evaluation in order.    *)
LEMMA CallsQuery ==
    ASSUME Planned, NEW stk, NEW pos, NEW q, NEW ph, Traversed(stk, pos, q, ph), stk # <<>>,
           NEW f, f = stk[Len(stk)], Working(f), AsksModule(f, ph),
           NEW new \in Seq(Frames), NEW g, IsPushed(stk, new, f, g), IsQuery(g, f.path, Driving(f), q)
    PROVE  Traversed(new, pos, q, ph)
<1> DEFINE n == Len(stk)
           p == f.path
           i == Driving(f)
           s == Append(p, i)
<1>1. /\ Positioned(pos, q) /\ Counted(pos, q, ph) /\ StackFits(stk, pos, q, ph)
      /\ IdleFits(stk, pos, q) /\ EndsFit(stk, q, ph)
  BY DEF Traversed
<1>2. n \in 1..Len(stk) /\ n \in Nat \ {0}
  BY <1>1 DEF StackFits
<1>3. p \in DOMAIN plan /\ FrameFits(f, pos, q, ph) /\ Len(p) = n - 1
  BY <1>1, <1>2, StackIs
<1>4. PICK at : IsNext(f, pos, q, at)
  BY <1>1, <1>3, NextOf
<1>5. i \in Parts(p) /\ QueryComes(p, i, q, ModAt(p).source[Head(f.todo)][2])
  BY <1>1, <1>3, <1>4, QueryIs
<1>6. /\ s \in DOMAIN plan /\ Len(s) = n /\ ~Ended(q, s) /\ q[s] \in Nat
      /\ q[s] < Len(plan[s].order) /\ q[s] + 1 \in DOMAIN plan[s].order
  <2>1. /\ s \in DOMAIN plan /\ Len(s) = Len(p) + 1 /\ ~Ended(q, s) /\ q[s] \in Nat
        /\ q[s] < Len(plan[s].order) /\ q[s] + 1 \in DOMAIN plan[s].order
    BY <1>5 DEF QueryComes
  <2>2. Len(s) = n
    BY <1>2, <1>3, <2>1
  <2> QED
    BY <2>1, <2>2, Zenon
<1>7. ~OnStack(stk, s)
  <2>1. Len(s) >= Len(stk)
    BY <1>2, <1>6
  <2> QED
    BY <1>1, <2>1, NotOnStack
<1>8. pos[s] = Ends(s)[q[s] + 1]
  BY <1>1, <1>6, <1>7, Zenon DEF IdleFits
<1>9. FrameFits(g, pos, q, ph)
  <2>1. Flow(ModAt(s), plan[s], PathOrders(s))
    BY <1>6, FlowAt
  <2>2. (q[s] + 1) + 1 = q[s] + 2
    BY <1>6
  <2>3. LET k == q[s] + 1
        IN  /\ plan[s].order[k].wires \in Seq(Wires(ModAt(s)))
            /\ IsTodo(plan[s].order[k].wires, Found(s), InputWires(ModAt(s)), Ends(s)[k], Ends(s)[k + 1])
            /\ Ends(s)[k] <= Ends(s)[k + 1]
    BY <1>6, <2>1, Zenon DEF Flow, Found, Ends, FoundFrom
  <2>4. TodoFits(s, plan[s].order[q[s] + 1].wires, pos[s], Ends(s)[q[s] + 2])
    BY <1>8, <2>2, <2>3, Zenon DEF TodoFits, WiresAt, InputsAt
  <2>5. g.path = s /\ g.mode = "query" /\ g.todo = plan[s].order[q[s] + 1].wires
    BY DEF IsQuery
  <2>6. Ends(s)[q[s] + 1] <= pos[s]
    <3>1. pos[s] \in Nat
      BY <1>1, <1>6, Zenon DEF Positioned
    <3> QED
      BY <1>8, <3>1
  <2> QED
    BY <1>6, <2>4, <2>5, <2>6, Zenon DEF FrameFits
<1>10. Calls(f, g, ph)
  <2>1. Queries(f, i) /\ EntersAt(ph, s) /\ g.path = s /\ g.mode = "query"
    BY Zenon DEF Queries, Working, Driving, AsksModule, IsQuery
  <2> QED
    BY <1>5, <2>1, Zenon DEF Calls
<1>11. OnTop(stk, new, g)
  <2>1. \A k \in 1..n : k = n \/ k \in 1..(n - 1)
    BY <1>2
  <2> QED
    BY <2>1 DEF OnTop, IsPushed
<1>12. StackFits(new, pos, q, ph)
  <2>1. stk[n].mode # "inputs" /\ g.mode # "inputs"
    BY DEF Working, IsQuery
  <2> QED
    BY <1>1, <1>9, <1>10, <1>11, <2>1, StackPushed
<1>13. \A x : OnStack(new, x) <=> OnStack(stk, x) \/ x = s
  <2>1. \A k : k \in 1..(n + 1) <=> k \in 1..n \/ k = n + 1
    BY <1>2
  <2>2. Len(new) = n + 1 /\ new[n + 1].path = s /\ \A k \in 1..n : new[k] = stk[k]
    BY <1>11 DEF OnTop, IsQuery
  <2> QED
    BY <2>1, <2>2 DEF OnStack
<1>14. IdleFits(new, pos, q)
  BY <1>1, <1>13 DEF IdleFits
<1>15. EndsFit(new, q, ph)
  <2>1. Len(new) = n + 1 /\ \A k \in 1..n : new[k] = stk[k] /\ k \in 1..(n + 1)
    BY <1>2, <1>11 DEF OnTop
  <2>2. \A x, j : Awaited(stk, x, j) => Awaited(new, x, j)
    BY <2>1 DEF Awaited
  <2>3. Starts(stk) => Starts(new)
    BY <2>1 DEF Starts
  <2> QED
    BY <1>1, <2>2, <2>3 DEF EndsFit
<1> QED
  BY <1>1, <1>12, <1>14, <1>15 DEF Traversed

-----------------------------------------------------------------------------
(* A call returns.                                                         *)
LEMMA StackPopped ==
    ASSUME Planned, NEW stk, NEW pos, NEW q, NEW ph, StackFits(stk, pos, q, ph), Len(stk) > 1,
           NEW low \in Seq(Frames), Len(low) = Len(stk) - 1,
           \A k \in 1..(Len(stk) - 1) : low[k] = stk[k]
    PROVE  StackFits(low, pos, q, ph) /\ low # <<>>
<1> DEFINE n == Len(stk)
<1>1. n \in Nat /\ n >= 2 /\ stk \in Seq(Frames) /\ 1 \in 1..(n - 1)
  BY DEF StackFits
<1>2. low # <<>>
  BY <1>1
<1>3. ASSUME NEW k \in 1..(n - 1)
      PROVE  /\ FrameFits(low[k], pos, q, ph) /\ Len(low[k].path) = k - 1
             /\ low[k].mode # "inputs"
  <2>1. k \in 1..n
    BY <1>1
  <2>2. /\ FrameFits(stk[k], pos, q, ph) /\ Len(stk[k].path) = k - 1
        /\ stk[k].mode = "inputs" => n = 1
    BY <2>1 DEF StackFits
  <2> QED
    BY <1>1, <2>2
<1>4. ASSUME NEW k \in 1..((n - 1) - 1)
      PROVE  Calls(low[k], low[k + 1], ph)
  <2>1. k \in 1..(n - 1) /\ k + 1 \in 1..(n - 1)
    BY <1>1
  <2>2. Calls(stk[k], stk[k + 1], ph)
    BY <2>1 DEF StackFits
  <2> QED
    BY <2>1, <2>2
<1>5. low[1].path = Root /\ low[1].mode # "query"
  <2>1. stk[1].path = Root /\ stk[1].mode # "query"
    BY <1>1 DEF StackFits
  <2> QED
    BY <1>1, <2>1
<1> QED
  BY <1>2, <1>3, <1>4, <1>5 DEF StackFits

(* A caller waits for the output of its next wire.                         *)
LEMMA CallerIs ==
    ASSUME Planned, NEW stk, NEW pos, NEW q, NEW ph, StackFits(stk, pos, q, ph), stk # <<>>,
           stk[Len(stk)].mode = "query"
    PROVE  LET f == stk[Len(stk)]
               g == stk[Len(stk) - 1]
           IN  /\ Len(stk) > 1 /\ Len(stk) - 1 \in 1..Len(stk)
               /\ g.path \in DOMAIN plan /\ FrameFits(g, pos, q, ph) /\ Working(g) /\ AsksModule(g, ph)
               /\ Driving(g) \in Parts(g.path) /\ f.path = Append(g.path, Driving(g))
<1> DEFINE n == Len(stk)
           f == stk[n]
           g == stk[n - 1]
<1>1. n \in Nat \ {0} /\ stk[1].mode # "query" /\ n \in 1..n
  BY DEF StackFits
<1>2. n > 1 /\ n - 1 \in 1..n /\ n - 1 \in 1..(n - 1) /\ (n - 1) + 1 = n
  <2> HIDE DEF n
  <2>1. n # 1
    BY <1>1 DEF n
  <2> QED
    BY <1>1, <2>1
<1>3. Calls(g, f, ph)
  <2>1. Calls(stk[n - 1], stk[(n - 1) + 1], ph)
    BY <1>2 DEF StackFits
  <2> QED
    BY <1>2, <2>1
<1>4. g.path \in DOMAIN plan /\ FrameFits(g, pos, q, ph)
  BY <1>2, StackIs
<1>5. PICK i \in Parts(g.path) :
        f.path = Append(g.path, i) /\ EntersAt(ph, f.path) /\ Queries(g, i)
  BY <1>3 DEF Calls
<1>6. Working(g) /\ Driving(g) = i /\ IsModule(Inst(g.path, i))
  BY <1>5 DEF Queries, Working, Driving, Parts
<1> QED
  BY <1>2, <1>4, <1>5, <1>6 DEF AsksModule

Returned1(pos, q, f, p, at) ==
    [pos EXCEPT ![p] = at, ![f.path] = Ends(f.path)[q[f.path] + 2]]

(* Answering a query moves the caller on by one wire, and the instance by  *)
(* one query.                                                              *)
LEMMA Returns ==
    ASSUME Planned, NEW stk, NEW pos, NEW q, NEW ph, Traversed(stk, pos, q, ph), stk # <<>>,
           NEW f, f = stk[Len(stk)], f.mode = "query", f.todo = <<>>,
           NEW g, g = stk[Len(stk) - 1], NEW at, IsNext(g, pos, q, at),
           NEW new \in Seq(Frames), NEW g1, IsPopped(stk, new, g1), IsRest(g1, g)
    PROVE  Traversed(new, Returned1(pos, q, f, g.path, at), [q EXCEPT ![f.path] = @ + 1], ph)
<1> DEFINE n == Len(stk)
           p == g.path
           s == f.path
           i == Driving(g)
           pos1 == Returned1(pos, q, f, p, at)
           q1 == [q EXCEPT ![s] = @ + 1]
<1>1. /\ Positioned(pos, q) /\ Counted(pos, q, ph) /\ StackFits(stk, pos, q, ph)
      /\ IdleFits(stk, pos, q) /\ EndsFit(stk, q, ph)
  BY DEF Traversed
<1>2. /\ n > 1 /\ n - 1 \in 1..n /\ p \in DOMAIN plan /\ FrameFits(g, pos, q, ph) /\ Working(g)
      /\ AsksModule(g, ph) /\ i \in Parts(p) /\ s = Append(p, i)
  BY <1>1, CallerIs
<1>3. n \in Nat /\ n \in 1..n
  BY <1>2
<1>4. /\ s \in DOMAIN plan /\ FrameFits(f, pos, q, ph) /\ Len(s) = n - 1 /\ Len(p) = n - 2
      /\ stk \in Seq(Frames)
  <2>1. s \in DOMAIN plan /\ FrameFits(f, pos, q, ph) /\ Len(s) = n - 1 /\ stk \in Seq(Frames)
    BY <1>1, <1>3, StackIs
  <2>2. Len(p) = (n - 1) - 1
    BY <1>1, <1>2, StackIs
  <2> QED
    BY <1>3, <2>1, <2>2
<1>5. /\ pos \in [DOMAIN plan -> Nat] /\ q \in [DOMAIN plan -> Nat]
      /\ pos[p] \in Nat /\ pos[s] \in Nat /\ q[s] \in Nat /\ q[p] \in Nat
  BY <1>1, <1>2, <1>4 DEF Positioned
<1>6. /\ Len(plan[s].order) \in Nat /\ Len(Found(s)) \in Nat /\ Len(Found(p)) \in Nat
      /\ \A k \in 1..(Len(plan[s].order) + 1) : Ends(s)[k] \in 0..Len(Found(s))
  BY <1>2, <1>4, FlowAt
<1>7. q[s] < Len(plan[s].order) /\ TodoFits(s, <<>>, pos[s], Ends(s)[q[s] + 2])
  BY <1>4 DEF FrameFits
<1>8. Ends(s)[q[s] + 2] \in Nat /\ Ends(s)[q[s] + 2] <= Len(Found(s))
  <2>1. q[s] + 2 \in 1..(Len(plan[s].order) + 1)
    <3> DEFINE l == Len(plan[s].order)
               k == q[s]
    <3>1. k \in Nat /\ l \in Nat /\ k < l
      BY <1>5, <1>6, <1>7
    <3> HIDE DEF k, l
    <3>2. k + 2 \in 1..(l + 1)
      BY <3>1
    <3> QED
      BY <3>2 DEF k, l
  <2> QED
    BY <1>6, <2>1
<1>9. s # p
  BY <1>3, <1>4
<1>10. \A x \in DOMAIN plan :
          /\ pos1[x] = IF x = s THEN Ends(s)[q[s] + 2] ELSE IF x = p THEN at ELSE pos[x]
          /\ q1[x] = IF x = s THEN q[s] + 1 ELSE q[x]
  BY <1>4, <1>5, <1>9 DEF Returned1
<1>11. /\ NextAt(p, pos[p], at) /\ at \in Nat /\ at <= Len(Found(p))
       /\ Found(p)[at] = Head(g.todo)
  <2>1. NextAt(p, pos[p], at) /\ Found(p)[at] = Head(g.todo)
    BY DEF IsNext
  <2> QED
    BY <1>5, <1>6, <2>1 DEF NextAt
<1>12. pos1 \in [DOMAIN plan -> Nat] /\ q1 \in [DOMAIN plan -> Nat]
  <2> DEFINE b == Ends(s)[q[s] + 2]
             c == q[s] + 1
  <2>1. b \in Nat /\ at \in Nat /\ c \in Nat
    <3>1. q[s] \in Nat
      BY <1>5
    <3> QED
      BY <1>8, <1>11, <3>1
  <2>2. pos1 = [pos EXCEPT ![p] = at, ![s] = b] /\ q1 = [q EXCEPT ![s] = c]
    BY DEF Returned1
  <2> HIDE DEF b, c, pos1, q1, s, p
  <2> QED
    BY <1>5, <2>1, <2>2
<1> HIDE DEF pos1, q1, s, p, i, n
<1>13. ~Ended(q, s) /\ ~Ended(q1, s) /\ ~Ended(q, p)
  <2>1. ~Ended(q, p)
    BY <1>1, <1>2, NotEnded DEF Working, p
  <2>2. q1[s] = q[s] + 1
    BY <1>4, <1>10
  <2>3. q[s] # Len(plan[s].order) + 1 /\ q[s] + 1 # Len(plan[s].order) + 1
    <3> DEFINE l == Len(plan[s].order)
               k == q[s]
    <3>1. k \in Nat /\ l \in Nat /\ k < l
      BY <1>5, <1>6, <1>7
    <3> HIDE DEF k, l
    <3>2. k # l + 1 /\ k + 1 # l + 1
      BY <3>1
    <3> QED
      BY <3>2 DEF k, l
  <2> QED
    BY <2>1, <2>2, <2>3 DEF Ended
<1>14. \A x \in DOMAIN plan : Ended(q1, x) <=> Ended(q, x)
  BY <1>10, <1>13 DEF Ended
<1>15. Positioned(pos1, q1)
  <2>1. ASSUME NEW x \in DOMAIN plan
        PROVE  /\ pos1[x] <= Len(Found(x)) /\ q1[x] <= Len(plan[x].order) + 1
               /\ Ended(q1, x) => pos1[x] = Len(Found(x))
    <3>1. /\ pos[x] <= Len(Found(x)) /\ q[x] <= Len(plan[x].order) + 1
          /\ Ended(q, x) => pos[x] = Len(Found(x))
      BY <1>1 DEF Positioned
    <3>2. CASE x = s
      <4>1. pos1[x] = Ends(s)[q[s] + 2] /\ q1[x] = q[s] + 1
        BY <1>10, <3>2
      <4>2. q[s] + 1 <= Len(plan[s].order) + 1
        BY <1>5, <1>6, <1>7
      <4> QED
        BY <1>8, <1>13, <3>2, <4>1, <4>2
    <3>3. CASE x # s /\ x = p
      BY <1>10, <1>11, <1>13, <1>14, <3>1, <3>3
    <3>4. CASE x # s /\ x # p
      BY <1>10, <1>14, <3>1, <3>4
    <3> QED
      BY <3>2, <3>3, <3>4
  <2> QED
    BY <1>12, <2>1 DEF Positioned
<1>16. Counted(pos1, q1, ph)
  <2>1. ASSUME NEW x \in DOMAIN plan, NEW j \in Parts(x), EntersAt(ph, Append(x, j))
        PROVE  CountOf(pos1, q1, x, j)
    <3> DEFINE y == Append(x, j)
    <3>1. CountOf(pos, q, x, j)
      BY <1>1, <2>1 DEF Counted
    <3>2. y \in DOMAIN plan
      <4>1. IsPart(x, j)
        BY DEF Planned, PathFit
      <4> QED
        BY <4>1 DEF IsPart
    <3>3. CASE y = s
      <4>1. x = p /\ j = i
        <5>1. x \in Seq(Nat) /\ p \in Seq(Nat) /\ i \in Nat /\ j \in Nat
          BY <1>2, FlowAt, PartIs DEF Parts
        <5>2. Append(x, j) = Append(p, i)
          BY <1>2, <3>3
        <5> QED
          BY <5>1, <5>2, SameNumbers
      <4>2. q[s] = AskedAt(p, i, pos[p])
        BY <1>13, <3>1, <3>3, <4>1 DEF CountOf, AskedAt
      <4>3. ModAt(p).source[Found(p)[at]][1] = i
        BY <1>11 DEF Driving, i, p
      <4>4. AskedAt(p, i, at) = AskedAt(p, i, pos[p]) + 1
        BY <1>2, <1>5, <1>11, <4>3, AskedBy, Zenon
      <4>5. q1[y] = AskedAt(x, j, pos1[x])
        BY <1>2, <1>9, <1>10, <3>2, <3>3, <4>1, <4>2, <4>4
      <4> QED
        BY <1>13, <3>3, <4>5 DEF CountOf, AskedAt
    <3>4. CASE y # s
      <4>1. q1[y] = q[y] /\ (Ended(q1, y) <=> Ended(q, y)) /\ (Ended(q1, x) <=> Ended(q, x))
        BY <1>10, <1>14, <3>2, <3>4
      <4>2. pos[x] \in Nat
        BY <1>5
      <4>3. AskedAt(x, j, pos1[x]) = AskedAt(x, j, pos[x])
        <5>1. CASE x = s
          <6>1. OnlyInputs(s, pos[s], Ends(s)[q[s] + 2])
            BY <1>7, TodoEmpty DEF TodoFits, OnlyInputs
          <6>2. pos[s] <= Ends(s)[q[s] + 2]
            BY <1>7 DEF TodoFits
          <6>3. AskedAt(s, j, Ends(s)[q[s] + 2]) = AskedAt(s, j, pos[s])
            BY <1>5, <1>8, <5>1, <6>1, <6>2, AskedSkips
          <6> QED
            BY <1>10, <5>1, <6>3
        <5>2. CASE x # s /\ x = p
          <6>1. j # i
            BY <1>2, <3>4, <5>2, Zenon
          <6>2. ModAt(p).source[Found(p)[at]][1] # j
            BY <1>11, <6>1 DEF Driving, i, p
          <6>3. j \in Parts(p) /\ pos[p] \in Nat /\ NextAt(p, pos[p], at)
            BY <1>5, <1>11, <5>2
          <6>4. AskedAt(p, j, at) = AskedAt(p, j, pos[p])
            BY <6>2, <6>3, AskedBy
          <6> QED
            BY <1>10, <5>2, <6>4
        <5>3. CASE x # s /\ x # p
          BY <1>10, <5>3
        <5> QED
          BY <5>1, <5>2, <5>3
      <4> QED
        BY <3>1, <4>1, <4>3 DEF CountOf, AskedAt
    <3> QED
      BY <3>3, <3>4
  <2> QED
    BY <2>1 DEF Counted
<1> DEFINE low == SubSeq(stk, 1, n - 1)
<1>17. /\ low \in Seq(Frames) /\ Len(low) = n - 1 /\ \A k \in 1..(n - 1) : low[k] = stk[k]
  <2>1. n - 1 \in 0..Len(stk)
    BY <1>2 DEF n
  <2> QED
    BY <1>4, <2>1, FirstOf
<1> HIDE DEF low
<1>18. StackFits(low, pos, q, ph) /\ low # <<>>
  BY <1>1, <1>2, <1>17, StackPopped DEF n
<1>19. low[n - 1] = g /\ n - 1 \in 1..(n - 1)
  BY <1>2, <1>3, <1>17 DEF n
<1>20. StackFits(new, pos1, q1, ph)
  <2>1. IsReplaced(low, new, g1)
    <3>1. Len(new) = n - 1 /\ new[n - 1] = g1 /\ \A k \in 1..(n - 2) : new[k] = stk[k]
      BY DEF IsPopped, n
    <3>2. \A k \in 1..((n - 1) - 1) : k \in 1..(n - 2) /\ k \in 1..(n - 1)
      BY <1>3
    <3> QED
      BY <1>17, <3>1, <3>2 DEF IsReplaced
  <2>2. FrameFits(g1, pos1, q1, ph)
    <3>1. TodoFits(p, Tail(g.todo), at, Target(g, q))
      BY DEF IsNext, p
    <3>2. pos1[p] = at /\ q1[p] = q[p]
      BY <1>2, <1>9, <1>10
    <3>3. g1.path = p /\ g1.mode = g.mode /\ g1.todo = Tail(g.todo) /\ g.mode \in {"query", "finish"}
      BY <1>2 DEF IsRest, Working, p
    <3>4. g.mode = "query" => Ends(p)[q[p] + 1] <= at
      BY <1>1, <1>2, <1>11, QueryStarts DEF p
    <3> QED
      BY <1>2, <3>1, <3>2, <3>3, <3>4 DEF FrameFits, Target, p
  <2>3. ChangedAbove(low, Len(low) - 1, pos, q, pos1, q1)
    <3>1. n - 1 \in ((Len(low) - 1) + 1)..Len(low) /\ low[n - 1].path = p
      BY <1>3, <1>17, <1>19 DEF p
    <3>2. Len(s) >= Len(low)
      BY <1>3, <1>4, <1>17
    <3> QED
      BY <1>10, <1>13, <3>1, <3>2 DEF ChangedAbove
  <2>4. g1.path = low[Len(low)].path /\ g1.mode = low[Len(low)].mode
    BY <1>17, <1>19 DEF IsRest
  <2> QED
    BY <1>18, <2>1, <2>2, <2>3, <2>4, StackReplaced
<1>21. Len(new) = n - 1 /\ new[n - 1] = g1 /\ \A k \in 1..(n - 2) : new[k] = stk[k]
  BY DEF IsPopped, n
<1>22. /\ \A k : k \in 1..(n - 1) <=> k \in 1..(n - 2) \/ k = n - 1
       /\ \A k : k \in 1..n <=> k \in 1..(n - 2) \/ k = n - 1 \/ k = n
  BY <1>2, <1>3
<1>23. g1.path = p /\ stk[n - 1] = g /\ g.path = p /\ stk[n] = f /\ f.path = s /\ g1.mode = g.mode
  BY DEF IsRest, p, s, n
<1>24. IdleFits(new, pos1, q1)
  <2>1. ASSUME NEW x \in DOMAIN plan, ~OnStack(new, x), ~Ended(q1, x)
        PROVE  pos1[x] = Ends(x)[q1[x] + 1]
    <3>1. CASE x = s
      <4>1. (q[s] + 1) + 1 = q[s] + 2
        BY <1>5
      <4> QED
        BY <1>4, <1>10, <3>1, <4>1
    <3>2. CASE x # s
      <4>1. x # p /\ ~OnStack(stk, x)
        BY <1>21, <1>22, <1>23, <2>1, <3>2 DEF OnStack, n
      <4> QED
        BY <1>1, <1>10, <1>14, <2>1, <3>2, <4>1 DEF IdleFits
    <3> QED
      BY <3>1, <3>2
  <2> QED
    BY <2>1 DEF IdleFits
<1>25. EndsFit(new, q1, ph)
  <2>1. \A x, j : Awaited(stk, x, j) => Awaited(new, x, j)
    <3> SUFFICES ASSUME NEW x, NEW j, NEW k \in 1..n, Awaits(stk[k], x, j)
                 PROVE  Awaited(new, x, j)
      BY DEF Awaited, n
    <3>1. k # n
      BY <1>23 DEF Awaits
    <3>2. k \in 1..(n - 1)
      BY <1>22, <3>1
    <3>3. Awaits(new[k], x, j)
      <4>1. CASE k \in 1..(n - 2)
        BY <1>21, <4>1
      <4>2. CASE k = n - 1
        BY <1>2, <1>21, <1>23, <4>2 DEF Awaits, Working
      <4> QED
        BY <1>22, <3>2, <4>1, <4>2
    <3> QED
      BY <1>21, <3>2, <3>3 DEF Awaited
  <2>2. Starts(stk) => Starts(new)
    <3> SUFFICES ASSUME NEW k \in 1..n, stk[k].path = Root, stk[k].mode \in {"inputs", "finish"}
                 PROVE  Starts(new)
      BY DEF Starts, n
    <3>1. k # n
      BY <1>23
    <3>2. k \in 1..(n - 1)
      BY <1>22, <3>1
    <3>3. new[k].path = Root /\ new[k].mode \in {"inputs", "finish"}
      BY <1>21, <1>22, <1>23, <3>2
    <3> QED
      BY <1>21, <3>2, <3>3 DEF Starts
  <2>3. \A x \in DOMAIN plan : \A j \in Parts(x) : Append(x, j) \in DOMAIN plan
    BY DEF Planned, PathFit, IsPart
  <2>4. Ended(q1, Root) <=> Ended(q, Root)
    BY <1>14 DEF Planned
  <2> QED
    BY <1>1, <1>14, <2>1, <2>2, <2>3, <2>4 DEF EndsFit
<1> QED
  BY <1>15, <1>16, <1>20, <1>24, <1>25 DEF Traversed, pos1, q1, s, p

-----------------------------------------------------------------------------
(* The wires of a module are done: its instances come next.                *)
IsAll(todo, D) == todo = [i \in D |-> i]
(* A list of all of 1..n has each once.                                    *)
LEMMA AllIs ==
    ASSUME NEW n \in Nat, NEW D, D = 1..n, NEW todo, IsAll(todo, D)
    PROVE  todo \in Seq(D) /\ Distinct(todo) /\ Range(todo) = D
<1>1. todo \in [1..n -> D] /\ DOMAIN todo = D /\ \A i \in D : todo[i] = i
  BY DEF IsAll
<1>2. todo \in Seq(D)
  BY <1>1
<1> QED
  BY <1>1, <1>2 DEF Distinct, Range

(* When the last wires are evaluated, the instance's own are all evaluated *)
(* and its instances are next.                                             *)
LEMMA WiresEnd ==
    ASSUME Planned, NEW stk, NEW pos, NEW q, NEW ph, Traversed(stk, pos, q, ph), stk # <<>>,
           NEW f, f = stk[Len(stk)], f.mode = "finish", f.todo = <<>>,
           NEW new \in Seq(Frames), NEW f1, IsReplaced(stk, new, f1),
           f1.path = f.path, f1.mode = "instances", IsAll(f1.todo, DOMAIN ModAt(f.path).instances)
    PROVE  Traversed(new, [pos EXCEPT ![f.path] = Len(Found(f.path))], [q EXCEPT ![f.path] = @ + 1], ph)
<1> DEFINE n == Len(stk)
           p == f.path
           to == Len(Found(p))
           l == Len(plan[p].order)
           pos1 == [pos EXCEPT ![p] = to]
           q1 == [q EXCEPT ![p] = @ + 1]
<1>1. /\ Positioned(pos, q) /\ Counted(pos, q, ph) /\ StackFits(stk, pos, q, ph)
      /\ IdleFits(stk, pos, q) /\ EndsFit(stk, q, ph)
  BY DEF Traversed
<1>2. n \in Nat \ {0} /\ n \in 1..n
  BY <1>1 DEF StackFits
<1>3. p \in DOMAIN plan /\ FrameFits(f, pos, q, ph) /\ Len(p) = n - 1 /\ stk \in Seq(Frames)
  BY <1>1, <1>2, StackIs
<1>4. /\ pos \in [DOMAIN plan -> Nat] /\ q \in [DOMAIN plan -> Nat] /\ pos[p] \in Nat /\ q[p] \in Nat
      /\ l \in Nat /\ to \in Nat
  BY <1>1, <1>3, FlowAt DEF Positioned
<1>5. q[p] = l /\ TodoFits(p, <<>>, pos[p], to)
  BY <1>3 DEF FrameFits
<1>6. OnlyInputs(p, pos[p], to) /\ pos[p] <= to
  BY <1>5, TodoEmpty DEF TodoFits, OnlyInputs
<1>7. /\ pos1 \in [DOMAIN plan -> Nat] /\ q1 \in [DOMAIN plan -> Nat]
      /\ \A x \in DOMAIN plan : /\ pos1[x] = IF x = p THEN to ELSE pos[x]
                                /\ q1[x] = IF x = p THEN l + 1 ELSE q[x]
  <2> DEFINE c == q[p] + 1
  <2>1. q1 = [q EXCEPT ![p] = c] /\ c \in Nat /\ c = l + 1
    BY <1>4, <1>5
  <2> HIDE DEF c, to, l, q1, p
  <2> QED
    BY <1>4, <2>1
<1> HIDE DEF pos1, q1, to, p, l, n
<1>8. Ended(q1, p) /\ ~Ended(q, p)
  BY <1>3, <1>4, <1>5, <1>7 DEF Ended, l
<1>9. \A x \in DOMAIN plan : x # p => (Ended(q1, x) <=> Ended(q, x))
  BY <1>7 DEF Ended
<1>10. Positioned(pos1, q1)
  <2>1. ASSUME NEW x \in DOMAIN plan
        PROVE  /\ pos1[x] <= Len(Found(x)) /\ q1[x] <= Len(plan[x].order) + 1
               /\ Ended(q1, x) => pos1[x] = Len(Found(x))
    <3>1. /\ pos[x] <= Len(Found(x)) /\ q[x] <= Len(plan[x].order) + 1
          /\ Ended(q, x) => pos[x] = Len(Found(x))
      BY <1>1 DEF Positioned
    <3>2. CASE x = p
      BY <1>4, <1>7, <3>2 DEF to, l
    <3>3. CASE x # p
      BY <1>7, <1>9, <3>1, <3>3
    <3> QED
      BY <3>2, <3>3
  <2> QED
    BY <1>7, <2>1 DEF Positioned
<1>11. ASSUME NEW j \in Parts(p), EntersAt(ph, Append(p, j))
       PROVE  /\ Append(p, j) \in DOMAIN plan /\ Append(p, j) # p
              /\ ~Ended(q, Append(p, j)) /\ ~Ended(q1, Append(p, j))
              /\ q1[Append(p, j)] = AskedAt(p, j, to)
  <2> DEFINE s == Append(p, j)
  <2>1. s \in DOMAIN plan /\ Len(s) = Len(p) + 1
    <3>1. IsPart(p, j)
      BY <1>3 DEF Planned, PathFit
    <3> QED
      BY <3>1 DEF IsPart
  <2>2. s # p
    BY <1>2, <1>3, <2>1
  <2>3. CountOf(pos, q, p, j)
    BY <1>1, <1>3, <1>11 DEF Counted
  <2>4. ~Ended(q, s) /\ q[s] = AskedAt(p, j, pos[p])
    BY <1>8, <2>3 DEF CountOf, AskedAt
  <2>5. AskedAt(p, j, to) = AskedAt(p, j, pos[p])
    BY <1>4, <1>6, AskedSkips
  <2>6. q1[s] = q[s] /\ ~Ended(q1, s)
    BY <1>7, <1>9, <2>1, <2>2, <2>4
  <2> QED
    BY <2>1, <2>2, <2>4, <2>5, <2>6
<1>12. Counted(pos1, q1, ph)
  <2>1. ASSUME NEW x \in DOMAIN plan, NEW j \in Parts(x), EntersAt(ph, Append(x, j))
        PROVE  CountOf(pos1, q1, x, j)
    <3> DEFINE y == Append(x, j)
    <3>1. CountOf(pos, q, x, j)
      BY <1>1, <2>1 DEF Counted
    <3>2. y \in DOMAIN plan /\ Len(y) = Len(x) + 1 /\ x \in Seq(Nat) /\ Len(x) \in Nat
      <4>1. IsPart(x, j)
        BY DEF Planned, PathFit
      <4> QED
        BY <4>1, FlowAt DEF IsPart
    <3>3. CASE x = p
      <4>1. ~Ended(q1, y) /\ q1[y] = AskedAt(p, j, to)
        BY <1>11, <2>1, <3>3
      <4>2. pos1[x] = to
        BY <1>7, <3>3
      <4> QED
        BY <3>3, <4>1, <4>2 DEF CountOf, AskedAt
    <3>4. CASE y = p
      <4>1. Len(p) # 0
        BY <3>2, <3>4
      <4>2. n > 1 /\ n - 1 \in 1..n /\ n - 1 < n /\ (n - 1) + 1 = n
        BY <1>2, <1>3, <4>1
      <4>3. Calls(stk[n - 1], f, ph) /\ stk[n - 1].path \in DOMAIN plan /\ FrameFits(stk[n - 1], pos, q, ph)
        <5>1. Calls(stk[n - 1], stk[(n - 1) + 1], ph)
          BY <1>1, <4>2, StackIs DEF n
        <5> QED
          BY <1>1, <4>2, <5>1, StackIs DEF n
      <4>4. PICK i \in Parts(stk[n - 1].path) : p = Append(stk[n - 1].path, i)
                                               /\ stk[n - 1].mode = "instances"
        BY <4>3 DEF Calls, p
      <4>5. stk[n - 1].path = x
        <5>1. i \in Nat /\ j \in Nat /\ stk[n - 1].path \in Seq(Nat)
          BY <4>3, FlowAt, PartIs DEF Parts
        <5>2. Append(x, j) = Append(stk[n - 1].path, i)
          BY <3>4, <4>4
        <5>3. x \in Seq(Nat)
          BY <3>2
        <5> DEFINE z == stk[n - 1].path
        <5>4. z \in Seq(Nat) /\ Append(x, j) = Append(z, i)
          BY <5>1, <5>2
        <5> HIDE DEF z
        <5>5. z = x
          BY <5>1, <5>3, <5>4, SameNumbers
        <5> QED
          BY <5>5 DEF z
      <4>6. Ended(q, x)
        BY <4>3, <4>4, <4>5 DEF FrameFits
      <4>7. Ended(q1, x)
        BY <1>8, <1>9, <4>6
      <4> QED
        BY <1>8, <3>4, <4>7 DEF CountOf
    <3>5. CASE x # p /\ y # p
      <4>1. /\ q1[y] = q[y] /\ (Ended(q1, y) <=> Ended(q, y)) /\ (Ended(q1, x) <=> Ended(q, x))
            /\ pos1[x] = pos[x]
        BY <1>7, <1>9, <3>2, <3>5
      <4> QED
        BY <3>1, <4>1 DEF CountOf
    <3> QED
      BY <3>3, <3>4, <3>5
  <2> QED
    BY <2>1 DEF Counted
<1>13. f1.todo \in Seq(DOMAIN ModAt(p).instances) /\ Distinct(f1.todo)
       /\ Range(f1.todo) = DOMAIN ModAt(p).instances
  <2>1. DOMAIN ModAt(p).instances = 1..Len(ModAt(p).instances) /\ Len(ModAt(p).instances) \in Nat
    BY <1>3 DEF Planned, PathFit
  <2>2. IsAll(f1.todo, DOMAIN ModAt(p).instances)
    BY DEF p
  <2> QED
    BY <2>1, <2>2, AllIs
<1>14. FrameFits(f1, pos1, q1, ph)
  <2>1. PartsLeft(q1, ph, p, f1.todo)
    BY <1>11, <1>13 DEF PartsLeft
  <2> QED
    BY <1>8, <2>1 DEF FrameFits, p
<1>15. StackFits(new, pos1, q1, ph)
  <2>1. ChangedAbove(stk, n - 1, pos, q, pos1, q1)
    <3>1. n \in ((n - 1) + 1)..Len(stk) /\ stk[n].path = p
      BY <1>2 DEF n, p
    <3> QED
      BY <1>7, <3>1 DEF ChangedAbove
  <2> QED
    BY <1>1, <1>14, <2>1, StackReplaced DEF n
<1>16. Len(new) = n /\ new[n] = f1 /\ \A k \in 1..(n - 1) : new[k] = stk[k]
  BY DEF IsReplaced, n
<1>17. \A k \in 1..n : k = n \/ k \in 1..(n - 1)
  BY <1>2
<1>18. stk[n] = f /\ f.path = p /\ f1.path = p
  BY DEF n, p
<1>19. IdleFits(new, pos1, q1)
  <2>1. \A x : OnStack(new, x) <=> OnStack(stk, x)
    BY <1>16, <1>17, <1>18 DEF OnStack, n
  <2>2. OnStack(stk, p)
    BY <1>2, <1>18 DEF OnStack, n
  <2> QED
    BY <1>1, <1>7, <1>9, <2>1, <2>2 DEF IdleFits
<1>20. EndsFit(new, q1, ph)
  <2>1. ASSUME NEW x \in DOMAIN plan, NEW i \in Parts(x), Ended(q1, x), EntersAt(ph, Append(x, i))
        PROVE  Ended(q1, Append(x, i)) \/ Awaited(new, x, i)
    <3>1. Append(x, i) \in DOMAIN plan
      BY DEF Planned, PathFit, IsPart
    <3>2. CASE x = p
      <4>1. i \in Range(f1.todo)
        BY <1>13, <3>2 DEF Parts
      <4>2. Awaits(new[n], x, i)
        BY <1>16, <1>18, <3>2, <4>1 DEF Awaits
      <4> QED
        BY <1>2, <1>16, <4>2 DEF Awaited
    <3>3. CASE x # p
      <4>1. Ended(q, Append(x, i)) \/ Awaited(stk, x, i)
        BY <1>1, <1>9, <2>1, <3>3 DEF EndsFit
      <4>2. CASE Ended(q, Append(x, i))
        BY <1>8, <1>9, <3>1, <4>2
      <4>3. CASE Awaited(stk, x, i)
        <5>1. PICK k \in 1..n : Awaits(stk[k], x, i)
          BY <4>3 DEF Awaited, n
        <5>2. CASE k = n
          BY <1>8, <1>18, <5>1, <5>2 DEF Awaits
        <5>3. CASE k \in 1..(n - 1)
          BY <1>16, <5>1, <5>3 DEF Awaited
        <5> QED
          BY <1>17, <5>2, <5>3
      <4> QED
        BY <4>1, <4>2, <4>3
    <3> QED
      BY <3>2, <3>3
  <2>2. Ended(q1, Root) \/ Starts(new)
    <3>1. CASE p = Root
      BY <1>8, <3>1
    <3>2. CASE p # Root
      <4>1. Root \in DOMAIN plan
        BY DEF Planned
      <4>2. Ended(q, Root) \/ Starts(stk)
        BY <1>1 DEF EndsFit
      <4>3. Starts(stk) => Starts(new)
        BY <1>16, <1>17, <1>18, <3>2 DEF Starts, n
      <4> QED
        BY <1>9, <3>2, <4>1, <4>2, <4>3
    <3> QED
      BY <3>1, <3>2
  <2> QED
    BY <2>1, <2>2 DEF EndsFit
<1> QED
  BY <1>10, <1>12, <1>15, <1>19, <1>20 DEF Traversed, pos1, q1, to, p

-----------------------------------------------------------------------------
(* The next instance of a module is taken from those to finish.            *)
LEMMA DistinctTail ==
    ASSUME NEW S, NEW s \in Seq(S), s # <<>>, Distinct(s)
    PROVE  /\ Tail(s) \in Seq(S) /\ Distinct(Tail(s)) /\ Head(s) \in S
           /\ Range(Tail(s)) = Range(s) \ {Head(s)} /\ Head(s) \in Range(s)
<1> DEFINE n == Len(s)
           t == Tail(s)
<1>1. /\ t \in Seq(S) /\ Len(t) = n - 1 /\ n \in Nat \ {0} /\ Head(s) = s[1] /\ Head(s) \in S
      /\ \A k \in 1..(n - 1) : t[k] = s[k + 1]
  BY TailIs
<1>2. DOMAIN s = 1..n /\ DOMAIN t = 1..(n - 1)
  BY <1>1
<1> HIDE DEF t, n
<1>3. Distinct(t)
  <2> SUFFICES ASSUME NEW i \in 1..(n - 1), NEW j \in 1..(n - 1), t[i] = t[j]
               PROVE  i = j
    BY <1>2 DEF Distinct
  <2>1. i + 1 \in 1..n /\ j + 1 \in 1..n /\ s[i + 1] = s[j + 1]
    BY <1>1
  <2>2. i + 1 = j + 1
    BY <1>2, <2>1 DEF Distinct
  <2> QED
    BY <1>1, <2>2
<1>4. ASSUME NEW x
      PROVE  x \in Range(t) <=> x \in Range(s) \ {Head(s)}
  <2>1. ASSUME NEW k \in 1..(n - 1), x = t[k]
        PROVE  x \in Range(s) /\ x # Head(s)
    <3>1. k + 1 \in 1..n /\ 1 \in 1..n /\ k + 1 # 1 /\ x = s[k + 1]
      BY <1>1, <2>1
    <3> QED
      BY <1>1, <1>2, <3>1 DEF Range, Distinct
  <2>2. ASSUME NEW k \in 1..n, x = s[k], x # Head(s)
        PROVE  x \in Range(t)
    <3>1. k # 1
      BY <1>1, <2>2
    <3>2. k - 1 \in 1..(n - 1) /\ (k - 1) + 1 = k
      BY <1>1, <3>1
    <3>3. t[k - 1] = s[k]
      BY <1>1, <3>2
    <3> QED
      BY <1>2, <2>2, <3>2, <3>3 DEF Range
  <2> QED
    BY <1>2, <2>1, <2>2 DEF Range
<1>5. Head(s) \in Range(s)
  <2>1. 1 \in 1..n
    BY <1>1
  <2> QED
    BY <1>1, <1>2, <2>1 DEF Range
<1> QED
  BY <1>1, <1>3, <1>4, <1>5 DEF t

Finishes(p, i, ph) == i \in Parts(p) /\ EntersAt(ph, Append(p, i))

(* The stack after that, where the instance may be awaited no more.        *)
LEMMA PartTaken ==
    ASSUME Planned, NEW stk, NEW pos, NEW q, NEW ph, Traversed(stk, pos, q, ph), stk # <<>>,
           NEW f, f = stk[Len(stk)], f.mode = "instances", f.todo # <<>>,
           NEW new \in Seq(Frames), NEW f1, IsReplaced(stk, new, f1), IsRest(f1, f)
    PROVE  /\ StackFits(new, pos, q, ph) /\ IdleFits(new, pos, q)
           /\ Head(f.todo) \in DOMAIN ModAt(f.path).instances /\ Head(f.todo) \notin Range(f1.todo)
           /\ Starts(stk) => Starts(new)
           /\ \A x, i : Awaited(stk, x, i) => Awaited(new, x, i) \/ (x = f.path /\ i = Head(f.todo))
<1> DEFINE n == Len(stk)
           p == f.path
           h == Head(f.todo)
<1>1. Positioned(pos, q) /\ StackFits(stk, pos, q, ph) /\ IdleFits(stk, pos, q)
  BY DEF Traversed
<1>2. n \in Nat \ {0} /\ n \in 1..n
  BY <1>1 DEF StackFits
<1>3. p \in DOMAIN plan /\ FrameFits(f, pos, q, ph)
  BY <1>1, <1>2, StackIs
<1>4. Ended(q, p) /\ PartsLeft(q, ph, p, f.todo)
  BY <1>3 DEF FrameFits
<1>5. /\ Tail(f.todo) \in Seq(DOMAIN ModAt(p).instances) /\ Distinct(Tail(f.todo))
      /\ h \in DOMAIN ModAt(p).instances /\ Range(Tail(f.todo)) = Range(f.todo) \ {h}
  BY <1>4, DistinctTail DEF PartsLeft
<1>6. f1.path = p /\ f1.mode = "instances" /\ f1.todo = Tail(f.todo)
  BY DEF IsRest
<1>7. FrameFits(f1, pos, q, ph)
  <2>1. PartsLeft(q, ph, p, Tail(f.todo))
    BY <1>4, <1>5 DEF PartsLeft
  <2> QED
    BY <1>4, <1>6, <2>1 DEF FrameFits
<1> HIDE DEF n, p, h
<1>8. StackFits(new, pos, q, ph)
  <2>1. ChangedAbove(stk, Len(stk) - 1, pos, q, pos, q)
    BY DEF ChangedAbove
  <2> QED
    BY <1>1, <1>6, <1>7, <2>1, StackReplaced DEF p
<1>9. Len(new) = n /\ new[n] = f1 /\ \A k \in 1..(n - 1) : new[k] = stk[k]
  BY DEF IsReplaced, n
<1>10. \A k \in 1..n : k = n \/ k \in 1..(n - 1)
  BY <1>2
<1>11. stk[n] = f /\ f.path = p
  BY DEF n, p
<1>12. IdleFits(new, pos, q)
  <2>1. \A x : OnStack(new, x) <=> OnStack(stk, x)
    BY <1>6, <1>9, <1>10, <1>11 DEF OnStack, n
  <2> QED
    BY <1>1, <2>1 DEF IdleFits
<1>13. Starts(stk) => Starts(new)
  BY <1>9, <1>10, <1>11 DEF Starts, n
<1>14. ASSUME NEW x, NEW i, Awaited(stk, x, i), ~(x = p /\ i = h)
       PROVE  Awaited(new, x, i)
  <2>1. PICK k \in 1..n : Awaits(stk[k], x, i)
    BY <1>14 DEF Awaited, n
  <2>2. Awaits(new[k], x, i)
    <3>1. CASE k = n
      <4>1. x = p /\ i \in Range(f.todo)
        BY <1>11, <2>1, <3>1 DEF Awaits
      <4>2. i \in Range(f1.todo)
        BY <1>5, <1>6, <1>14, <4>1
      <4> QED
        BY <1>6, <1>9, <3>1, <4>1, <4>2 DEF Awaits
    <3>2. CASE k \in 1..(n - 1)
      BY <1>9, <2>1, <3>2
    <3> QED
      BY <1>10, <3>1, <3>2
  <2> QED
    BY <1>9, <2>2 DEF Awaited
<1>15. h \notin Range(f1.todo)
  BY <1>5, <1>6
<1> QED
  BY <1>5, <1>8, <1>12, <1>13, <1>14, <1>15 DEF p, h

(* An instance that is not entered.                                        *)
LEMMA Skips ==
    ASSUME Planned, NEW stk, NEW pos, NEW q, NEW ph, Traversed(stk, pos, q, ph), stk # <<>>,
           NEW f, f = stk[Len(stk)], f.mode = "instances", f.todo # <<>>,
           ~Finishes(f.path, Head(f.todo), ph),
           NEW new \in Seq(Frames), NEW f1, IsReplaced(stk, new, f1), IsRest(f1, f)
    PROVE  Traversed(new, pos, q, ph)
<1>1. /\ StackFits(new, pos, q, ph) /\ IdleFits(new, pos, q)
      /\ Starts(stk) => Starts(new)
      /\ \A x, i : Awaited(stk, x, i) => Awaited(new, x, i) \/ (x = f.path /\ i = Head(f.todo))
  BY PartTaken
<1>2. EndsFit(new, q, ph)
  <2>1. EndsFit(stk, q, ph)
    BY DEF Traversed
  <2>2. ASSUME NEW x \in DOMAIN plan, NEW i \in Parts(x), Ended(q, x), EntersAt(ph, Append(x, i))
        PROVE  Ended(q, Append(x, i)) \/ Awaited(new, x, i)
    <3>1. Ended(q, Append(x, i)) \/ Awaited(stk, x, i)
      BY <2>1, <2>2 DEF EndsFit
    <3>2. ~(x = f.path /\ i = Head(f.todo))
      BY <2>2 DEF Finishes
    <3> QED
      BY <1>1, <3>1, <3>2
  <2> QED
    BY <1>1, <2>1, <2>2 DEF EndsFit
<1> QED
  BY <1>1, <1>2 DEF Traversed

(* A module that is entered: all its queries have come.                    *)
AllCame(q, s) == q[s] = Len(plan[s].order)
IsFinish(g, s) == g.path = s /\ g.mode = "finish" /\ g.todo = plan[s].finish

(* When an instance is to be finished, every query it was made for has     *)
(* come, and it has not been finished.                                     *)
LEMMA AllQueriesCame ==
    ASSUME Planned, NEW pos, NEW q, NEW ph, Positioned(pos, q), Counted(pos, q, ph),
           NEW f, f.path \in DOMAIN plan, FrameFits(f, pos, q, ph), f.mode = "instances",
           f.todo # <<>>, Finishes(f.path, Head(f.todo), ph)
    PROVE  LET s == Append(f.path, Head(f.todo))
           IN  s \in DOMAIN plan /\ Len(s) = Len(f.path) + 1 /\ ~Ended(q, s) /\ AllCame(q, s)
<1> DEFINE p == f.path
           i == Head(f.todo)
           s == Append(p, i)
           qs == plan[p].queries[i]
<1>1. i \in Parts(p) /\ EntersAt(ph, s)
  BY DEF Finishes
<1>2. Ended(q, p) /\ PartsLeft(q, ph, p, f.todo)
  BY DEF FrameFits
<1>3. i \in Range(f.todo)
  BY <1>2, DistinctTail DEF PartsLeft
<1>4. ~Ended(q, s)
  BY <1>1, <1>2, <1>3 DEF PartsLeft
<1>5. q[s] = AskedAt(p, i, pos[p])
  <2>1. CountOf(pos, q, p, i)
    BY <1>1 DEF Counted
  <2> QED
    BY <1>4, <2>1 DEF CountOf, AskedAt
<1>6. pos[p] = Len(Found(p))
  BY <1>2, Zenon DEF Positioned
<1>7. QueriesFit(ModAt(p), Found(p), qs, i)
  <2>1. Flow(ModAt(p), plan[p], PathOrders(p))
    BY FlowAt
  <2> QED
    BY <1>1, <2>1 DEF Flow, Found, Parts
<1>8. /\ s \in DOMAIN plan /\ Len(s) = Len(p) + 1
      /\ Answers(plan[s], Inst(p, i).type, qs)
  <2>1. IsPart(p, i)
    BY <1>1 DEF Planned, PathFit
  <2> QED
    BY <2>1 DEF IsPart
<1>9. Len(plan[s].order) = AskedAt(p, i, Len(Found(p)))
  BY <1>7, <1>8, Zenon DEF Answers, QueriesFit, AskedAt
<1> QED
  BY <1>4, <1>5, <1>6, <1>8, <1>9 DEF AllCame

(* A frame that finishes an instance fits after its last query.            *)
LEMMA FinishFits ==
    ASSUME Planned, NEW pos, NEW q, NEW ph, NEW s \in DOMAIN plan, AllCame(q, s),
           pos[s] = Ends(s)[q[s] + 1], NEW g, IsFinish(g, s)
    PROVE  FrameFits(g, pos, q, ph)
<1> DEFINE l == Len(plan[s].order)
<1>1. Flow(ModAt(s), plan[s], PathOrders(s)) /\ l \in Nat
  BY FlowAt
<1>2. l + 1 \in 1..(l + 1)
  BY <1>1
<1>3. /\ plan[s].finish \in Seq(Wires(ModAt(s))) /\ Ends(s)[l + 1] \in 0..Len(Found(s))
      /\ IsTodo(plan[s].finish, Found(s), InputWires(ModAt(s)), Ends(s)[l + 1], Len(Found(s)))
  BY <1>1, <1>2 DEF Flow, Found, Ends
<1>4. Len(Found(s)) \in Nat
  BY FlowAt
<1>5. Ends(s)[l + 1] <= Len(Found(s)) /\ q[s] = l /\ pos[s] = Ends(s)[l + 1]
  BY <1>3, <1>4 DEF AllCame
<1>6. TodoFits(s, plan[s].finish, pos[s], Len(Found(s)))
  BY <1>3, <1>5 DEF TodoFits, WiresAt, InputsAt
<1> QED
  BY <1>5, <1>6 DEF FrameFits, IsFinish

(* Finishing an instance of a module keeps the evaluation in order.        *)
LEMMA FinishesModule ==
    ASSUME Planned, NEW stk, NEW pos, NEW q, NEW ph, Traversed(stk, pos, q, ph), stk # <<>>,
           NEW f, f = stk[Len(stk)], f.mode = "instances", f.todo # <<>>,
           Finishes(f.path, Head(f.todo), ph),
           NEW new \in Seq(Frames), NEW f1 \in Frames, NEW g, IsPushed(stk, new, f1, g), IsRest(f1, f),
           IsFinish(g, Append(f.path, Head(f.todo)))
    PROVE  Traversed(new, pos, q, ph)
<1> DEFINE n == Len(stk)
           p == f.path
           i == Head(f.todo)
           s == Append(p, i)
           mid == Append(Front(stk), f1)
<1>1. /\ Positioned(pos, q) /\ Counted(pos, q, ph) /\ StackFits(stk, pos, q, ph)
      /\ IdleFits(stk, pos, q) /\ EndsFit(stk, q, ph)
  BY DEF Traversed
<1>2. n \in Nat \ {0} /\ n \in 1..n /\ stk \in Seq(Frames)
  BY <1>1 DEF StackFits
<1>3. p \in DOMAIN plan /\ FrameFits(f, pos, q, ph) /\ Len(p) = n - 1
  BY <1>1, <1>2, StackIs
<1>4. mid \in Seq(Frames) /\ IsReplaced(stk, mid, f1)
  BY <1>2, StackMoves
<1> HIDE DEF mid
<1>5. /\ StackFits(mid, pos, q, ph) /\ IdleFits(mid, pos, q)
      /\ i \notin Range(f1.todo)
      /\ Starts(stk) => Starts(mid)
      /\ \A x, j : Awaited(stk, x, j) => Awaited(mid, x, j) \/ (x = p /\ j = i)
  BY <1>4, PartTaken
<1>6. s \in DOMAIN plan /\ Len(s) = Len(p) + 1 /\ ~Ended(q, s) /\ AllCame(q, s)
  BY <1>1, <1>3, AllQueriesCame
<1>7. Len(mid) = n /\ mid[n] = f1 /\ \A k \in 1..(n - 1) : mid[k] = stk[k]
  BY <1>4 DEF IsReplaced
<1>8. mid # <<>>
  BY <1>2, <1>7
<1>9. ~OnStack(mid, s)
  <2>1. Len(s) >= Len(mid)
    BY <1>2, <1>3, <1>6, <1>7
  <2> QED
    BY <1>5, <2>1, NotOnStack
<1>10. FrameFits(g, pos, q, ph)
  <2>1. pos[s] = Ends(s)[q[s] + 1]
    BY <1>5, <1>6, <1>9 DEF IdleFits
  <2> QED
    BY <1>6, <2>1, FinishFits
<1>11. OnTop(mid, new, g)
  <2>1. Len(new) = n + 1 /\ new[n] = f1 /\ new[n + 1] = g /\ \A k \in 1..(n - 1) : new[k] = stk[k]
    BY DEF IsPushed
  <2>2. \A k \in 1..n : k = n \/ k \in 1..(n - 1)
    BY <1>2
  <2> QED
    BY <1>7, <2>1, <2>2 DEF OnTop
<1>12. Calls(mid[Len(mid)], g, ph)
  BY <1>5, <1>7 DEF Calls, Finishes, IsRest, IsFinish
<1>13. StackFits(new, pos, q, ph)
  <2>1. mid[Len(mid)].mode # "inputs" /\ g.mode # "inputs"
    BY <1>7 DEF IsRest, IsFinish
  <2> QED
    BY <1>5, <1>8, <1>10, <1>11, <1>12, <2>1, StackPushed
<1>14. Len(new) = n + 1 /\ new[n + 1] = g /\ \A k \in 1..n : new[k] = mid[k]
  BY <1>7, <1>11 DEF OnTop
<1>15. \A k : k \in 1..(n + 1) <=> k \in 1..n \/ k = n + 1
  BY <1>2
<1>16. IdleFits(new, pos, q)
  <2>1. \A x : OnStack(mid, x) => OnStack(new, x)
    BY <1>7, <1>14, <1>15 DEF OnStack
  <2> QED
    BY <1>5, <2>1 DEF IdleFits
<1>17. EndsFit(new, q, ph)
  <2>1. \A x, j : Awaited(mid, x, j) => Awaited(new, x, j)
    BY <1>7, <1>14, <1>15 DEF Awaited
  <2>2. Awaited(new, p, i)
    <3>1. Awaits(g, p, i)
      BY DEF Awaits, IsFinish
    <3> QED
      BY <1>14, <1>15, <3>1 DEF Awaited
  <2>3. Starts(mid) => Starts(new)
    BY <1>7, <1>14, <1>15 DEF Starts
  <2> QED
    BY <1>1, <1>5, <2>1, <2>2, <2>3 DEF EndsFit
<1> QED
  BY <1>1, <1>13, <1>16, <1>17 DEF Traversed

-----------------------------------------------------------------------------
(* The end of a module.                                                    *)
LEMMA NoMoreAwaited ==
    ASSUME NEW stk, NEW n, n = Len(stk), stk[n].mode = "instances", stk[n].todo = <<>>,
           NEW x, NEW i, Awaited(stk, x, i)
    PROVE  \E k \in 1..n : k # n /\ Awaits(stk[k], x, i)
<1>1. PICK k \in 1..n : Awaits(stk[k], x, i)
  BY DEF Awaited
<1>2. Range(<<>>) = {}
  BY DEF Range
<1>3. k # n
  BY <1>1, <1>2 DEF Awaits
<1> QED
  BY <1>1, <1>3

(* Returning from an instance that is finished keeps it in order.          *)
LEMMA ModuleEnds ==
    ASSUME Planned, NEW stk, NEW pos, NEW q, NEW ph, Traversed(stk, pos, q, ph), Len(stk) > 1,
           NEW f, f = stk[Len(stk)], f.mode = "instances", f.todo = <<>>,
           NEW new \in Seq(Frames), IsPopped(stk, new, stk[Len(stk) - 1])
    PROVE  Traversed(new, pos, q, ph)
<1> DEFINE n == Len(stk)
           p == f.path
<1>1. /\ Positioned(pos, q) /\ Counted(pos, q, ph) /\ StackFits(stk, pos, q, ph)
      /\ IdleFits(stk, pos, q) /\ EndsFit(stk, q, ph)
  BY DEF Traversed
<1>2. n \in Nat \ {0} /\ n \in 1..n /\ n > 1 /\ stk \in Seq(Frames)
  BY <1>1 DEF StackFits
<1>3. p \in DOMAIN plan /\ FrameFits(f, pos, q, ph)
  BY <1>1, <1>2, StackIs
<1>4. Ended(q, p)
  BY <1>3 DEF FrameFits
<1>5. Len(new) = n - 1 /\ new[n - 1] = stk[n - 1] /\ \A k \in 1..(n - 2) : new[k] = stk[k]
  BY DEF IsPopped
<1> HIDE DEF n, p
<1>6. \A k : k \in 1..(n - 1) => k = n - 1 \/ k \in 1..(n - 2)
  BY <1>2
<1>7. \A k \in 1..(n - 1) : new[k] = stk[k]
  BY <1>5, <1>6
<1>8. StackFits(new, pos, q, ph) /\ new # <<>>
  BY <1>1, <1>2, <1>5, <1>7, StackPopped DEF n
<1>9. \A k : k \in 1..n => k \in 1..(n - 1) \/ k = n
  BY <1>2
<1>10. stk[n] = f /\ f.path = p
  BY DEF n, p
<1>11. IdleFits(new, pos, q)
  <2>1. \A x : OnStack(stk, x) => OnStack(new, x) \/ x = p
    BY <1>5, <1>7, <1>9, <1>10 DEF OnStack, n
  <2> QED
    BY <1>1, <1>4, <2>1 DEF IdleFits
<1>12. EndsFit(new, q, ph)
  <2>1. \A x, i : Awaited(stk, x, i) => Awaited(new, x, i)
    <3> SUFFICES ASSUME NEW x, NEW i, Awaited(stk, x, i)
                 PROVE  Awaited(new, x, i)
      OBVIOUS
    <3>1. PICK k \in 1..n : k # n /\ Awaits(stk[k], x, i)
      BY <1>10, NoMoreAwaited DEF n
    <3> QED
      BY <1>5, <1>7, <1>9, <3>1 DEF Awaited
  <2>2. Starts(stk) => Starts(new)
    BY <1>5, <1>7, <1>9, <1>10 DEF Starts, n
  <2> QED
    BY <1>1, <2>1, <2>2 DEF EndsFit
<1> QED
  BY <1>1, <1>8, <1>11, <1>12 DEF Traversed

(* The end of the top-level module: all that were entered have ended.      *)
LEMMA TopEnds ==
    ASSUME Planned, NEW stk, NEW pos, NEW q, NEW ph, Traversed(stk, pos, q, ph), Len(stk) = 1,
           NEW f, f = stk[Len(stk)], f.mode = "instances", f.todo = <<>>
    PROVE  Traversed(<<>>, pos, q, ph)
<1>1. /\ Positioned(pos, q) /\ Counted(pos, q, ph) /\ StackFits(stk, pos, q, ph)
      /\ IdleFits(stk, pos, q) /\ EndsFit(stk, q, ph)
  BY DEF Traversed
<1>2. 1 \in 1..Len(stk) /\ f = stk[1] /\ stk # <<>>
  <2>1. stk \in Seq(Frames)
    BY <1>1 DEF StackFits
  <2>2. 1 \in 1..1
    OBVIOUS
  <2>3. 1 \in 1..Len(stk)
    BY <2>2
  <2>4. stk # <<>>
    <3>1. Len(<<>>) = 0
      OBVIOUS
    <3> QED
      BY <3>1
  <2>5. f = stk[1]
    OBVIOUS
  <2> QED
    BY <2>3, <2>4, <2>5
<1>3. f.path = Root /\ FrameFits(f, pos, q, ph)
  BY <1>1, <1>2, StackIs DEF StackFits
<1>4. Ended(q, Root)
  BY <1>3 DEF FrameFits
<1>5. Len(<<>>) = 0 /\ 1..0 = {} /\ 1..(0 - 1) = {}
  OBVIOUS
<1>6. StackFits(<<>>, pos, q, ph)
  BY <1>5 DEF StackFits
<1>7. \A k \in 1..1 : k = 1
  OBVIOUS
<1>8. \A x : OnStack(stk, x) => x = Root
  BY <1>2, <1>3, <1>7 DEF OnStack
<1>9. IdleFits(<<>>, pos, q)
  BY <1>1, <1>4, <1>8 DEF IdleFits
<1>10. EndsFit(<<>>, q, ph)
  <2>1. \A x, i : ~Awaited(stk, x, i)
    BY <1>2, <1>7, NoMoreAwaited
  <2> QED
    BY <1>1, <1>4, <2>1 DEF EndsFit
<1> QED
  BY <1>1, <1>6, <1>9, <1>10 DEF Traversed

(* The phases of the checks are the same to what is entered.               *)
LEMMA OverIs ==
    ASSUME NEW pos, NEW q, Traversed(<<>>, pos, q, "check")
    PROVE  Traversed(<<>>, pos, q, "over")
<1>1. \A p : EntersAt("check", p) <=> EntersAt("over", p)
  BY DEF EntersAt
<1>2. Counted(pos, q, "over") /\ EndsFit(<<>>, q, "over")
  BY <1>1 DEF Traversed, Counted, EndsFit
<1>3. Len(<<>>) = 0 /\ 1..0 = {} /\ 1..(0 - 1) = {}
  OBVIOUS
<1>4. StackFits(<<>>, pos, q, "over")
  BY <1>3 DEF Traversed, StackFits
<1> QED
  BY <1>2, <1>4 DEF Traversed

-----------------------------------------------------------------------------
(* The beginning, of a cycle and of its checks.                            *)
Zeros == [p \in DOMAIN plan |-> 0]
IsBegin(f, ph) ==
    /\ f.path = Root
    /\ \/ IsFinish(f, Root)
       \/ f.mode = "inputs" /\ ph = "eval" /\ IsAll(f.todo, DOMAIN ModAt(Root).inputs)

(* The design's top is in the plan and answers no query.                   *)
LEMMA RootIs ==
    ASSUME Planned
    PROVE  /\ Root \in DOMAIN plan /\ Len(plan[Root].order) = 0
           /\ Ends(Root)[1] = 0 /\ Len(Root) = 0
<1>1. Root \in DOMAIN plan /\ Len(plan[Root].order) = 0
  BY DEF Planned
<1>2. Flow(ModAt(Root), plan[Root], PathOrders(Root))
  BY <1>1, FlowAt
<1> QED
  BY <1>1, <1>2 DEF Flow, Ends, Root

(* At the start no instance has been asked for anything.                   *)
LEMMA NothingAsked ==
    ASSUME NEW p, NEW i
    PROVE  Cardinality(Asked(ModAt(p), Found(p), i, 0)) = 0
<1>1. Asked(ModAt(p), Found(p), i, 0) = {}
  BY DEF Asked
<1> QED
  BY <1>1, FS_EmptySet

(* The only call of a stack with one.                                      *)
LEMMA OneIndex == (\A k : k \in 1..1 <=> k = 1) /\ 1..(1 - 1) = {}
OBVIOUS

(* The inputs and the instances of an evaluator's module are lists.        *)
LEMMA ListsAre ==
    ASSUME Planned, NEW p \in DOMAIN plan
    PROVE  /\ WiresAt(p) \subseteq Nat
           /\ \E n \in Nat : DOMAIN ModAt(p).inputs = 1..n
           /\ \E n \in Nat : DOMAIN ModAt(p).instances = 1..n
<1>1. Facts(plan[p].module) /\ DOMAIN ModAt(p).instances = 1..Len(ModAt(p).instances)
      /\ Len(ModAt(p).instances) \in Nat
  BY DEF Planned, PathFit
<1>2. /\ \E n \in Nat \ {0} : WiresAt(p) = 0..(n - 1)
      /\ \E n \in Nat : DOMAIN ModAt(p).inputs = 1..n
  BY <1>1 DEF Facts, InOrder, WiresAt, ModAt
<1> QED
  BY <1>1, <1>2

(* An evaluation and a check both begin at the top, in order.              *)
LEMMA Begins ==
    ASSUME Planned, NEW ph \in {"eval", "check"}, NEW stk \in Seq(Frames), Len(stk) = 1,
           IsBegin(stk[1], ph)
    PROVE  Traversed(stk, Zeros, Zeros, ph)
<1> DEFINE f == stk[1]
<1>1. Root \in DOMAIN plan /\ Len(plan[Root].order) = 0 /\ Ends(Root)[1] = 0 /\ Len(Root) = 0
  BY RootIs
<1>2. \A p \in DOMAIN plan : Zeros[p] = 0 /\ Len(plan[p].order) \in Nat /\ Len(Found(p)) \in Nat
  BY FlowAt DEF Zeros
<1>3. \A p \in DOMAIN plan : ~Ended(Zeros, p)
  BY <1>2 DEF Ended
<1>4. Positioned(Zeros, Zeros)
  <2>1. Zeros \in [DOMAIN plan -> Nat]
    BY DEF Zeros
  <2> QED
    BY <1>2, <1>3, <2>1 DEF Positioned
<1>5. Counted(Zeros, Zeros, ph)
  <2> SUFFICES ASSUME NEW p \in DOMAIN plan, NEW i \in Parts(p)
               PROVE  CountOf(Zeros, Zeros, p, i)
    BY DEF Counted
  <2>1. Append(p, i) \in DOMAIN plan
    BY DEF Planned, PathFit, IsPart
  <2> QED
    BY <1>2, <1>3, <2>1, NothingAsked DEF CountOf
<1>6. f.path = Root /\ (f.mode = "finish" \/ f.mode = "inputs")
  BY DEF IsBegin, IsFinish
<1>7. FrameFits(f, Zeros, Zeros, ph)
  <2>1. CASE IsFinish(f, Root)
    <3>1. AllCame(Zeros, Root) /\ Zeros[Root] = Ends(Root)[Zeros[Root] + 1]
      BY <1>1, <1>2 DEF AllCame
    <3> QED
      BY <1>1, <2>1, <3>1, FinishFits
  <2>2. CASE f.mode = "inputs" /\ ph = "eval" /\ IsAll(f.todo, DOMAIN ModAt(Root).inputs)
    <3>1. f.todo \in Seq(DOMAIN ModAt(Root).inputs) /\ Distinct(f.todo)
      BY <1>1, <2>2, ListsAre, AllIs
    <3> QED
      BY <1>1, <1>2, <1>6, <2>2, <3>1 DEF FrameFits
  <2> QED
    BY <2>1, <2>2 DEF IsBegin
<1>8. (\A k : k \in 1..1 <=> k = 1) /\ 1..(1 - 1) = {} /\ stk # <<>>
  <2>1. stk # <<>>
    OBVIOUS
  <2> QED
    BY <2>1, OneIndex
<1>9. StackFits(stk, Zeros, Zeros, ph)
  BY <1>1, <1>6, <1>7, <1>8 DEF StackFits
<1>10. IdleFits(stk, Zeros, Zeros)
  <2> SUFFICES ASSUME NEW p \in DOMAIN plan
               PROVE  Ends(p)[Zeros[p] + 1] = 0
    BY <1>2 DEF IdleFits
  <2>1. Ends(p)[1] = 0
    BY FlowAt DEF Flow, Ends
  <2> QED
    BY <1>2, <2>1
<1>11. EndsFit(stk, Zeros, ph)
  <2>1. Starts(stk)
    BY <1>6, <1>8 DEF Starts
  <2> QED
    BY <1>3, <2>1 DEF EndsFit
<1> QED
  BY <1>4, <1>5, <1>9, <1>10, <1>11 DEF Traversed

-----------------------------------------------------------------------------
(* The inputs of the top-level module.                                     *)
LEMMA InputsFrame ==
    ASSUME Planned, NEW stk, NEW pos, NEW q, NEW ph, StackFits(stk, pos, q, ph), stk # <<>>,
           NEW f, f = stk[Len(stk)], f.mode = "inputs"
    PROVE  /\ Len(stk) = 1 /\ f.path = Root /\ Root \in DOMAIN plan /\ ph = "eval"
           /\ q[Root] = 0 /\ pos[Root] = 0 /\ AllCame(q, Root)
           /\ f.todo \in Seq(DOMAIN ModAt(Root).inputs) /\ Distinct(f.todo)
<1>1. Len(stk) \in 1..Len(stk) /\ Len(stk) \in Nat \ {0}
  BY DEF StackFits
<1>2. FrameFits(f, pos, q, ph)
  BY <1>1, StackIs
<1>3. Len(stk) = 1
  BY <1>1 DEF StackFits
<1> QED
  BY <1>2, <1>3, RootIs DEF FrameFits, AllCame

(* Setting an input of the top keeps the evaluation in order.              *)
LEMMA TakesInput ==
    ASSUME Planned, NEW stk, NEW pos, NEW q, NEW ph, Traversed(stk, pos, q, ph), stk # <<>>,
           NEW f, f = stk[Len(stk)], f.mode = "inputs", f.todo # <<>>,
           NEW new \in Seq(Frames), NEW f1, IsReplaced(stk, new, f1), IsRest(f1, f)
    PROVE  Traversed(new, pos, q, ph)
<1>1. StackFits(stk, pos, q, ph) /\ IdleFits(stk, pos, q) /\ EndsFit(stk, q, ph)
  BY DEF Traversed
<1>2. /\ Len(stk) = 1 /\ f.path = Root /\ Root \in DOMAIN plan /\ ph = "eval"
      /\ q[Root] = 0 /\ pos[Root] = 0
      /\ f.todo \in Seq(DOMAIN ModAt(Root).inputs) /\ Distinct(f.todo)
  BY <1>1, InputsFrame
<1>3. Tail(f.todo) \in Seq(DOMAIN ModAt(Root).inputs) /\ Distinct(Tail(f.todo))
  BY <1>2, DistinctTail
<1>4. FrameFits(f1, pos, q, ph)
  BY <1>2, <1>3 DEF FrameFits, IsRest
<1>5. StackFits(new, pos, q, ph)
  <2>1. ChangedAbove(stk, Len(stk) - 1, pos, q, pos, q)
    BY DEF ChangedAbove
  <2> QED
    BY <1>1, <1>4, <2>1, StackReplaced DEF IsRest
<1>6. SameEnds(stk, new)
  <2>1. \A k \in 1..1 : k = 1
    OBVIOUS
  <2> QED
    BY <1>2, <2>1 DEF SameEnds, IsReplaced, IsRest
<1>7. EndsFit(new, q, ph) /\ IdleFits(new, pos, q)
  BY <1>1, <1>6, EndsStay DEF IdleFits
<1> QED
  BY <1>5, <1>7 DEF Traversed

(* After the inputs of the top its wires are next.                         *)
LEMMA InputsEnd ==
    ASSUME Planned, NEW stk, NEW pos, NEW q, NEW ph, Traversed(stk, pos, q, ph), stk # <<>>,
           NEW f, f = stk[Len(stk)], f.mode = "inputs",
           NEW new \in Seq(Frames), NEW f1, IsReplaced(stk, new, f1), IsFinish(f1, Root)
    PROVE  Traversed(new, pos, q, ph)
<1>1. /\ StackFits(stk, pos, q, ph) /\ IdleFits(stk, pos, q) /\ EndsFit(stk, q, ph)
      /\ stk \in Seq(Frames)
  BY DEF Traversed, StackFits
<1>2. /\ Len(stk) = 1 /\ f.path = Root /\ Root \in DOMAIN plan
      /\ q[Root] = 0 /\ pos[Root] = 0 /\ AllCame(q, Root)
  BY <1>1, InputsFrame
<1>3. FrameFits(f1, pos, q, ph)
  <2>1. pos[Root] = Ends(Root)[q[Root] + 1]
    BY <1>2, RootIs
  <2> QED
    BY <1>2, <2>1, FinishFits
<1>4. f1.path = Root /\ f1.mode = "finish"
  BY DEF IsFinish
<1>5. StackFits(new, pos, q, ph)
  <2>1. ChangedAbove(stk, Len(stk) - 1, pos, q, pos, q)
    BY DEF ChangedAbove
  <2>2. stk[Len(stk)].path = Root /\ stk[Len(stk)].mode = "inputs"
    BY <1>2
  <2> QED
    BY <1>1, <1>3, <1>4, <2>1, <2>2, StackReplaced
<1>6. Len(new) = 1 /\ new[1] = f1 /\ stk[1] = f /\ \A k : k \in 1..1 <=> k = 1
  BY <1>2 DEF IsReplaced
<1>7. IdleFits(new, pos, q)
  <2>1. \A x : OnStack(new, x) <=> OnStack(stk, x)
    BY <1>2, <1>4, <1>6 DEF OnStack
  <2> QED
    BY <1>1, <2>1 DEF IdleFits
<1>8. EndsFit(new, q, ph)
  <2>1. \A x, i : ~Awaited(stk, x, i)
    BY <1>2, <1>6 DEF Awaited, Awaits
  <2>2. Starts(new)
    BY <1>4, <1>6 DEF Starts
  <2> QED
    BY <1>1, <2>1, <2>2 DEF EndsFit
<1> QED
  BY <1>5, <1>7, <1>8 DEF Traversed

=============================================================================
