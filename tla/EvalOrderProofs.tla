-------------------------- MODULE EvalOrderProofs ---------------------------
(***************************************************************************)
(* Proofs that the evaluation of a netlist, and the checks after it, never *)
(* stop on an assertion and leave out no wire, for every design that was   *)
(* built. The invariant says that the places that have values are those    *)
(* that the positions of the calls in the orders (Traversed) say, so a     *)
(* wire has the values that it is computed from when its turn comes, and   *)
(* has none itself. The checks go over the same orders, and what was       *)
(* checked is what the positions say, once each.                           *)
(***************************************************************************)
EXTENDS EvalPlanProofs

-----------------------------------------------------------------------------
(* Which places have values, D, when a cycle is evaluated.                 *)
SpreadOver(D) ==
    \A p \in DOMAIN plan : \A w \in WiresAt(p) : \A y \in Sinks(<<p, w>>) : y \in D <=> <<p, w>> \in D
Computed(pos, D) ==
    \A p \in DOMAIN plan : \A j \in 1..Len(Found(p)) :
        Found(p)[j] \notin InputsAt(p) => (<<p, Found(p)[j]>> \in D <=> j <= pos[p])
InputIn(p, i, D) == <<p, InputWire(p, i)>> \in D
InputsIn(p, D) == \A i \in DOMAIN ModAt(p).inputs : InputIn(p, i, D)

(* What the output that is queried, after k others, depends on.            *)
QueriedWire(p, k) == OutWires(ModAt(p), plan[p].order)[k + 1]
QueryInputsIn(p, k, D) ==
    \A i \in Range(ModAt(p).comb_input_deps[QueriedWire(p, k)]) : InputIn(p, i, D)
FrameInputs(f, q, D) ==
    LET p == f.path
    IN  /\ f.mode = "inputs" => \A i \in DOMAIN ModAt(p).inputs : InputIn(p, i, D) <=> i \notin Range(f.todo)
        /\ f.mode = "query" => QueryInputsIn(p, q[p], D)
        /\ f.mode \in {"finish", "instances"} => InputsIn(p, D)
Valued(stk, pos, q, D) ==
    /\ SpreadOver(D) /\ Computed(pos, D)
    /\ \A k \in 1..Len(stk) : FrameInputs(stk[k], q, D)
    /\ \A p \in DOMAIN plan : Ended(q, p) => InputsIn(p, D)

AllValued(D) == SpreadOver(D) /\ \A p \in DOMAIN plan : \A w \in WiresAt(p) : <<p, w>> \in D

(* How often each wire was checked, C, and each gadget input with its wire. *)
CountIn(C, c) == IF c \in DOMAIN C THEN C[c] ELSE 0
Once(pos, p, j) == IF Found(p)[j] \notin InputsAt(p) /\ j <= pos[p] THEN 1 ELSE 0
ChecksFit(pos, C) ==
    /\ \A c \in DOMAIN C : C[c] \in Nat \ {0}
    /\ \A p \in DOMAIN plan : \A j \in 1..Len(Found(p)) :
          /\ p = Root \/ ~IsGadgetAt(p) => CountIn(C, <<p, Found(p)[j]>>) = Once(pos, p, j)
          /\ \A g \in GadgetSinks(p, Found(p)[j]) : CountIn(C, g) = Once(pos, p, j)

Marked(stk, pos, q, ph, D, C) ==
    IF ph = "eval" THEN Valued(stk, pos, q, D) /\ C = <<>>
    ELSE AllValued(D) /\ ChecksFit(pos, C) /\ (ph = "over" => stk = <<>>)

(* The inductive invariant.                                                *)
Evaluating == phase \in {"eval", "check", "over"}
Going(pos) ==
    /\ Traversed(stack, pos, query_id, phase)
    /\ panic = None => Marked(stack, pos, query_id, phase, DOMAIN place, checks)
NotYet ==
    /\ plan = <<>> /\ stack = <<>> /\ place = <<>> /\ query_id = <<>> /\ checks = <<>>
    /\ panic = None
Excused(why) == \/ why = "nested" /\ NestedGadget
                \/ why = "gadget_input" /\ LateInput
EvalInv ==
    /\ phase \in Phases
    /\ panic # None => phase = "eval" /\ Excused(panic)
    /\ phase = "eval" => checks = <<>>
    /\ IF Evaluating THEN Planned /\ \E pos : Going(pos) ELSE NotYet

-----------------------------------------------------------------------------
(* A wire that has no value is given one, and with it its fanout.          *)
PutIn(D, p, w) == (Fanout(p, w) \cup {<<p, w>>}) \cup D
Settable(D, p, w) ==
    /\ p \in DOMAIN plan /\ w \in WiresAt(p) /\ <<p, w>> \notin D
    /\ p = Root \/ w \notin InputsAt(p)
NewPlace(x, v, p, w) == (x = p /\ v = w) \/ (x # Root /\ v \in InputsAt(x))

(* The inputs of an instance are wires of it.                              *)
LEMMA InputsAreWires ==
    ASSUME NEW p
    PROVE  InputsAt(p) \subseteq WiresAt(p)
BY DEF InputsAt, InputWires, WiresAt, Wires

(* A wire that can be set has no value, nor has anything it reaches.       *)
LEMMA NoneHasValue ==
    ASSUME Planned, NEW D, SpreadOver(D), NEW p, NEW w, Settable(D, p, w)
    PROVE  \A y \in Fanout(p, w) : y \notin D
<1> DEFINE F == Fanout(p, w)
           C == {y \in F : y \notin D}
<1>1. p \in DOMAIN plan /\ w \in WiresAt(p) /\ <<p, w>> \notin D
  BY DEF Settable
<1>2. Closed(<<p, w>>, F)
  BY <1>1, FanoutIs
<1>3. Sinks(<<p, w>>) \subseteq C
  BY <1>1, <1>2 DEF SpreadOver, Closed
<1>4. ASSUME NEW y \in F \cap C
      PROVE  Sinks(y) \subseteq C
  <2>1. IsSunk(y) /\ Sinks(y) \subseteq F /\ y \notin D
    BY <1>2, <1>4 DEF Closed
  <2>2. CASE y[1] \notin DOMAIN plan
    <3>1. Sinks(y) = {}
      BY <2>2 DEF Sinks
    <3> QED
      BY <3>1
  <2>3. CASE y[1] \in DOMAIN plan
    <3>1. y = <<y[1], y[2]>> /\ y[2] \in WiresAt(y[1])
      BY <2>1, <2>3, InputsAreWires DEF IsSunk
    <3>2. \A z \in Sinks(<<y[1], y[2]>>) : z \notin D
      BY <2>1, <2>3, <3>1 DEF SpreadOver
    <3> QED
      BY <2>1, <3>1, <3>2
  <2> QED
    BY <2>2, <2>3
<1> HIDE DEF F
<1>5. F \subseteq C
  BY <1>2, <1>3, <1>4 DEF Closed
<1> QED
  BY <1>5 DEF F

(* The places that are new are the wire and inputs of modules inside.      *)
LEMMA PutPlaces ==
    ASSUME Planned, NEW D, NEW p, NEW w, Settable(D, p, w)
    PROVE  /\ D \subseteq PutIn(D, p, w) /\ <<p, w>> \in PutIn(D, p, w)
           /\ \A x \in DOMAIN plan : \A v : <<x, v>> \in PutIn(D, p, w) =>
                 <<x, v>> \in D \/ NewPlace(x, v, p, w)
<1>1. p \in DOMAIN plan /\ w \in WiresAt(p)
  BY DEF Settable
<1>2. Closed(<<p, w>>, Fanout(p, w))
  BY <1>1, FanoutIs
<1>3. ASSUME NEW x \in DOMAIN plan, NEW v, <<x, v>> \in Fanout(p, w)
      PROVE  x # Root /\ v \in InputsAt(x)
  BY <1>2, <1>3 DEF Closed, IsSunk
<1>4. ASSUME NEW x \in DOMAIN plan, NEW v, <<x, v>> \in PutIn(D, p, w)
      PROVE  <<x, v>> \in D \/ NewPlace(x, v, p, w)
  BY <1>3, <1>4 DEF PutIn, NewPlace
<1> QED
  BY <1>4 DEF PutIn

(* A value that a place has comes from the wire that gives it.             *)
LEMMA SinkHasSource ==
    ASSUME Planned, NEW D, NEW p, NEW w, Settable(D, p, w), SpreadOver(D),
           NEW x \in DOMAIN plan, NEW v \in WiresAt(x), NEW y \in Sinks(<<x, v>>),
           y \in PutIn(D, p, w)
    PROVE  <<x, v>> \in PutIn(D, p, w)
<1> DEFINE F == Fanout(p, w)
<1>1. p \in DOMAIN plan /\ w \in WiresAt(p) /\ (p = Root \/ w \notin InputsAt(p))
  BY DEF Settable
<1>2. Closed(<<p, w>>, F)
  BY <1>1, FanoutIs
<1>3. Gives(x, v, y)
  BY SinksGive
<1>4. IsSunk(y)
  BY <1>3, SinkPlaceIs DEF Gives
<1>5. CASE y \in D
  BY <1>5 DEF SpreadOver, PutIn
<1>6. y # <<p, w>>
  BY <1>1, <1>4 DEF IsSunk
<1>7. CASE y \in F
  <2>1. PICK z \in F \cup {<<p, w>>} : y \in Sinks(z)
    BY <1>1, <1>7, FanoutHasSource
  <2>2. z[1] \in DOMAIN plan
    BY <2>1 DEF Sinks
  <2>3. z = <<z[1], z[2]>> /\ z[2] \in WiresAt(z[1])
    <3>1. CASE z = <<p, w>>
      BY <1>1, <3>1
    <3>2. CASE z \in F
      BY <1>2, <2>2, <3>2, InputsAreWires DEF Closed, IsSunk
    <3> QED
      BY <2>1, <3>1, <3>2
  <2>4. Gives(z[1], z[2], y)
    BY <2>1, <2>2, <2>3, SinksGive
  <2>5. x = z[1] /\ v = z[2]
    BY <1>3, <2>2, <2>3, <2>4, OneSource
  <2> QED
    BY <2>1, <2>3, <2>5 DEF PutIn
<1> QED
  BY <1>5, <1>6, <1>7 DEF PutIn

(* Setting a wire sets what it reaches downwards, and nothing else.        *)
LEMMA PutSpreads ==
    ASSUME Planned, NEW D, NEW p, NEW w, Settable(D, p, w), SpreadOver(D)
    PROVE  SpreadOver(PutIn(D, p, w))
<1> DEFINE F == Fanout(p, w)
<1>1. p \in DOMAIN plan /\ w \in WiresAt(p)
  BY DEF Settable
<1>2. Closed(<<p, w>>, F)
  BY <1>1, FanoutIs
<1>3. ASSUME NEW x \in DOMAIN plan, NEW v \in WiresAt(x), NEW y \in Sinks(<<x, v>>),
             <<x, v>> \in PutIn(D, p, w)
      PROVE  y \in PutIn(D, p, w)
  <2>1. CASE <<x, v>> \in D
    BY <2>1 DEF SpreadOver, PutIn
  <2>2. CASE <<x, v>> = <<p, w>>
    <3>1. Sinks(<<x, v>>) \subseteq F
      BY <1>2, <2>2 DEF Closed
    <3> QED
      BY <3>1 DEF PutIn
  <2>3. CASE <<x, v>> \in F
    <3>1. Sinks(<<x, v>>) \subseteq F
      BY <1>2, <2>3 DEF Closed
    <3> QED
      BY <3>1 DEF PutIn
  <2> QED
    BY <1>3, <2>1, <2>2, <2>3 DEF PutIn
<1> QED
  BY <1>3, SinkHasSource DEF SpreadOver

-----------------------------------------------------------------------------
(* The wires that are dealt with.                                          *)
LEMMA PutComputes ==
    ASSUME Planned, NEW pos, NEW q, Positioned(pos, q), NEW D, Computed(pos, D),
           NEW p \in DOMAIN plan, NEW at, NextAt(p, pos[p], at), Settable(D, p, Found(p)[at])
    PROVE  Computed([pos EXCEPT ![p] = at], PutIn(D, p, Found(p)[at]))
<1> DEFINE w == Found(p)[at]
           D1 == PutIn(D, p, w)
           pos1 == [pos EXCEPT ![p] = at]
<1>1. pos \in [DOMAIN plan -> Nat]
  BY DEF Positioned
<1>2. \A x \in DOMAIN plan : pos1[x] = IF x = p THEN at ELSE pos[x]
  BY <1>1
<1>3. /\ at \in (pos[p] + 1)..Len(Found(p)) /\ at \in Nat \ {0} /\ pos[p] \in Nat
      /\ OnlyInputs(p, pos[p], at - 1) /\ Len(Found(p)) \in Nat
  BY <1>1, FlowAt DEF NextAt
<1>4. /\ D \subseteq D1 /\ <<p, w>> \in D1
      /\ \A x \in DOMAIN plan : \A v : <<x, v>> \in D1 => <<x, v>> \in D \/ NewPlace(x, v, p, w)
  BY PutPlaces
<1> HIDE DEF pos1, D1
<1>5. ASSUME NEW x \in DOMAIN plan, NEW j \in 1..Len(Found(x)), Found(x)[j] \notin InputsAt(x)
      PROVE  <<x, Found(x)[j]>> \in D1 <=> j <= pos1[x]
  <2>1. <<x, Found(x)[j]>> \in D <=> j <= pos[x]
    BY <1>5 DEF Computed
  <2>2. <<x, Found(x)[j]>> \in D1 => <<x, Found(x)[j]>> \in D \/ (x = p /\ Found(x)[j] = w)
    BY <1>4, <1>5 DEF NewPlace
  <2>3. CASE x # p
    BY <1>2, <1>4, <2>1, <2>2, <2>3
  <2>4. CASE x = p
    <3>1. Found(p)[j] = w => j = at
      BY <1>3, <2>4, FlowAt DEF Flow, Distinct, Found
    <3>2. j <= at => j <= pos[p] \/ j = at
      <4>1. j \in Nat /\ j >= 1
        BY <1>3, <2>4
      <4>2. ASSUME j > pos[p], j # at, j <= at
            PROVE  FALSE
        <5>1. j \in (pos[p] + 1)..(at - 1)
          BY <1>3, <4>1, <4>2
        <5> QED
          BY <1>3, <1>5, <2>4, <5>1 DEF OnlyInputs
      <4> QED
        BY <1>3, <4>1, <4>2
    <3>3. j <= pos[p] => j <= at
      BY <1>3, <2>4
    <3>4. j = at => <<p, Found(p)[j]>> \in D1
      BY <1>4
    <3>5. j = at => j <= at
      BY <1>3
    <3> QED
      BY <1>2, <1>4, <2>1, <2>2, <2>4, <3>1, <3>2, <3>3, <3>4, <3>5
  <2> QED
    BY <2>3, <2>4
<1> QED
  BY <1>5 DEF Computed, D1, pos1

(* Inputs are passed over: they are given by the parent.                   *)
LEMMA PassedOver ==
    ASSUME Planned, NEW pos, NEW q, Positioned(pos, q), NEW D, Computed(pos, D),
           NEW p \in DOMAIN plan, NEW to \in Nat, pos[p] <= to, OnlyInputs(p, pos[p], to)
    PROVE  Computed([pos EXCEPT ![p] = to], D)
<1> DEFINE pos1 == [pos EXCEPT ![p] = to]
<1>1. pos \in [DOMAIN plan -> Nat]
  BY DEF Positioned
<1>2. /\ \A x \in DOMAIN plan : pos1[x] = IF x = p THEN to ELSE pos[x]
      /\ pos[p] \in Nat /\ Len(Found(p)) \in Nat
  BY <1>1, FlowAt
<1> HIDE DEF pos1
<1>3. ASSUME NEW x \in DOMAIN plan, NEW j \in 1..Len(Found(x)), Found(x)[j] \notin InputsAt(x)
      PROVE  <<x, Found(x)[j]>> \in D <=> j <= pos1[x]
  <2>1. <<x, Found(x)[j]>> \in D <=> j <= pos[x]
    BY <1>3 DEF Computed
  <2>2. CASE x # p
    BY <1>2, <2>1, <2>2
  <2>3. CASE x = p
    <3>1. j \in Nat /\ (j > pos[p] /\ j <= to => j \in (pos[p] + 1)..to)
      BY <1>2, <2>3
    <3>2. ~(j > pos[p] /\ j <= to)
      BY <1>3, <2>3, <3>1 DEF OnlyInputs
    <3>3. j <= to <=> j <= pos[p]
      BY <1>2, <3>1, <3>2
    <3> QED
      BY <1>2, <2>1, <2>3, <3>3
  <2> QED
    BY <2>2, <2>3
<1> QED
  BY <1>3 DEF Computed, pos1

(* An input of the top-level module.                                       *)
LEMMA PutInput ==
    ASSUME Planned, NEW pos, NEW D, Computed(pos, D), NEW w \in InputsAt(Root), Settable(D, Root, w)
    PROVE  Computed(pos, PutIn(D, Root, w))
<1> DEFINE D1 == PutIn(D, Root, w)
<1>1. /\ D \subseteq D1
      /\ \A x \in DOMAIN plan : \A v : <<x, v>> \in D1 => <<x, v>> \in D \/ NewPlace(x, v, Root, w)
  BY PutPlaces
<1> HIDE DEF D1
<1>2. ASSUME NEW x \in DOMAIN plan, NEW j \in 1..Len(Found(x)), Found(x)[j] \notin InputsAt(x)
      PROVE  <<x, Found(x)[j]>> \in D1 <=> <<x, Found(x)[j]>> \in D
  BY <1>1, <1>2 DEF NewPlace
<1> QED
  BY <1>2 DEF Computed, D1

-----------------------------------------------------------------------------
(* What a wire is computed from has a value when its turn comes.           *)
FlowingAt(f, pos, q, D, at) ==
    /\ f.path \in DOMAIN plan /\ FrameInputs(f, q, D) /\ Computed(pos, D) /\ SpreadOver(D)
    /\ Working(f) /\ IsNext(f, pos, q, at)
    /\ f.mode = "query" => q[f.path] \in Nat /\ q[f.path] < Len(plan[f.path].order)
                           /\ Ends(f.path)[q[f.path] + 1] <= pos[f.path]

(* What was proved of a module holds of each instance of it.               *)
LEMMA FactsAt ==
    ASSUME Planned, NEW p \in DOMAIN plan
    PROVE  /\ ModAt(p) = built[plan[p].module]
           /\ InOrder(ModAt(p)) /\ SourcesFit(built, ModAt(p)) /\ InputsFit(ModAt(p))
           /\ NeedsFit(built, ModAt(p)) /\ SinksFit(built, ModAt(p)) /\ StagesFit(ModAt(p))
           /\ InstancesFit(plan[p].module)
           /\ \A w \in WiresAt(p) : Range(ModAt(p).comb_input_deps[w]) \subseteq DOMAIN ModAt(p).inputs
BY FlowAt DEF Facts, ModAt, WiresAt

(* An instance whose inputs are set has a value for each input wire.       *)
LEMMA InputHasPlace ==
    ASSUME Planned, NEW p \in DOMAIN plan, NEW v \in InputsAt(p), NEW D, InputsIn(p, D)
    PROVE  <<p, v>> \in D
<1>1. PICK i \in DOMAIN ModAt(p).inputs : WireIn(ModAt(p), i) = v
  BY FactsAt, Zenon DEF InputsFit, InputsAt
<1> QED
  BY <1>1 DEF InputsIn, InputIn, InputWire, WireIn

(* The output that is queried next: it and what the search found for it.   *)
LEMMA QueriedIs ==
    ASSUME Planned, NEW p \in DOMAIN plan, NEW k \in Nat, k < Len(plan[p].order)
    PROVE  /\ QueriedWire(p, k) \in WiresAt(p)
           /\ plan[p].order[k + 1].con \in Range(ModAt(p).outputs)
           /\ QueriedWire(p, k) = ModAt(p).connection_wires[plan[p].order[k + 1].con]
           /\ FoundFrom(ModAt(p).dag, PathOrders(p), QueriedWire(p, k), Ends(p)[k + 1], Ends(p)[k + 2])
<1>1. Flow(ModAt(p), plan[p], PathOrders(p)) /\ Len(plan[p].order) \in Nat
  BY FlowAt
<1>2. k + 1 \in DOMAIN plan[p].order /\ k + 1 \in 1..Len(plan[p].order) /\ (k + 1) + 1 = k + 2
  BY <1>1 DEF Flow
<1>3. QueriedWire(p, k) = ModAt(p).connection_wires[plan[p].order[k + 1].con]
  BY <1>2 DEF QueriedWire, OutWires
<1>4. /\ plan[p].order[k + 1].con \in Range(ModAt(p).outputs)
      /\ FoundFrom(ModAt(p).dag, PathOrders(p), ModAt(p).connection_wires[plan[p].order[k + 1].con],
                   PathOrders(p).ends[k + 1], PathOrders(p).ends[(k + 1) + 1])
  BY <1>1, <1>2 DEF Flow
<1>5. QueriedWire(p, k) \in WiresAt(p)
  BY <1>3, <1>4, FactsAt DEF InOrder, WiresAt
<1> QED
  BY <1>2, <1>3, <1>4, <1>5 DEF Ends

(* The inputs a queried output depends on are set when it is queried.      *)
LEMMA NeededInput ==
    ASSUME Planned, NEW p \in DOMAIN plan, NEW k, NEW w, w = QueriedWire(p, k), NEW v,
           IsNeeded(ModAt(p), w, v), NEW D, QueryInputsIn(p, k, D)
    PROVE  <<p, v>> \in D
<1>1. PICK i \in Range(ModAt(p).comb_input_deps[w]) : WireIn(ModAt(p), i) = v
  BY DEF IsNeeded
<1>2. InputIn(p, i, D)
  BY <1>1 DEF QueryInputsIn
<1> QED
  BY <1>1, <1>2 DEF InputIn, InputWire, WireIn

(* The wires that a wire depends on have values when it is evaluated.      *)
LEMMA DependencyIn ==
    ASSUME Planned, NEW pos, NEW q, Positioned(pos, q), NEW D, NEW f, NEW at,
           FlowingAt(f, pos, q, D, at), NEW v \in WiresAt(f.path),
           v \in Depends(built, ModAt(f.path), Head(f.todo)),
           <<v, Head(f.todo)>> \in Range(ModAt(f.path).dag)
    PROVE  <<f.path, v>> \in D
<1> DEFINE p == f.path
           w == Found(p)[at]
<1>1. /\ p \in DOMAIN plan /\ FrameInputs(f, q, D) /\ Computed(pos, D)
      /\ Working(f) /\ NextAt(p, pos[p], at) /\ Head(f.todo) = w /\ at <= Target(f, q)
      /\ Target(f, q) \in Nat
  BY DEF FlowingAt, IsNext
<1>2. /\ at \in (pos[p] + 1)..Len(Found(p)) /\ OnlyInputs(p, pos[p], at - 1)
      /\ w \in WiresAt(p) /\ w \notin InputsAt(p) /\ pos[p] \in Nat /\ Len(Found(p)) \in Nat
      /\ at \in 1..Len(Found(p))
  BY <1>1, FlowAt DEF NextAt, Positioned
<1>3. CASE v \notin InputsAt(p)
  <2>1. /\ After(ModAt(p).dag, InputsAt(p), Found(p)) /\ DOMAIN Found(p) = 1..Len(Found(p))
    BY <1>1, FlowAt DEF Flow, Found, InputsAt
  <2>2. PICK i \in 1..(at - 1) : Found(p)[i] = v
    BY <1>1, <1>2, <2>1 DEF After
  <2>3. i \in 1..Len(Found(p)) /\ i \in Nat
    BY <1>2
  <2>4. ~(i > pos[p])
    <3>1. i > pos[p] => i \in (pos[p] + 1)..(at - 1)
      BY <1>2, <2>3
    <3> QED
      BY <1>2, <1>3, <2>2, <3>1 DEF OnlyInputs
  <2>5. i <= pos[p]
    BY <1>2, <2>3, <2>4
  <2> QED
    BY <1>1, <1>3, <2>2, <2>3, <2>5, Zenon DEF Computed
<1>4. CASE v \in InputsAt(p) /\ f.mode = "finish"
  <2>1. InputsIn(p, D)
    BY <1>1, <1>4 DEF FrameInputs
  <2> QED
    BY <1>1, <1>4, <2>1, InputHasPlace
<1>5. CASE v \in InputsAt(p) /\ f.mode = "query"
  <2> DEFINE k == q[p]
             x == QueriedWire(p, k)
  <2>1. k \in Nat /\ k < Len(plan[p].order) /\ Ends(p)[k + 1] <= pos[p]
    BY <1>5 DEF FlowingAt
  <2>2. Target(f, q) = Ends(p)[k + 2] /\ QueryInputsIn(p, k, D)
    BY <1>1, <1>5 DEF Target, FrameInputs
  <2>3. /\ x \in WiresAt(p)
        /\ FoundFrom(ModAt(p).dag, PathOrders(p), x, Ends(p)[k + 1], Ends(p)[k + 2])
    BY <1>1, <2>1, QueriedIs
  <2>4. k + 1 \in 1..(Len(plan[p].order) + 1) /\ Len(plan[p].order) \in Nat
    BY <1>1, <2>1, FlowAt
  <2>5. Ends(p)[k + 1] \in Nat
    BY <1>1, <2>4, FlowAt
  <2>6. at \in (Ends(p)[k + 1] + 1)..Ends(p)[k + 2]
    BY <1>1, <1>2, <2>1, <2>2, <2>5
  <2> HIDE DEF x, k
  <2>7. PICK C : Needs(built, ModAt(p), x, C)
    BY <1>1, <2>3, FactsAt DEF NeedsFit, WiresAt
  <2>8. w \in C
    BY <2>3, <2>6, <2>7 DEF FoundFrom, Needs, Found
  <2>9. w \in (C \cap Wires(ModAt(p))) \ InputWires(ModAt(p))
    BY <1>2, <2>8 DEF WiresAt, InputsAt
  <2>10. IsNeeded(ModAt(p), x, v)
    BY <1>1, <1>5, <2>7, <2>9 DEF Needs, InputsAt
  <2> QED
    BY <1>1, <2>2, <2>10, NeededInput DEF x
<1> QED
  BY <1>1, <1>3, <1>4, <1>5 DEF Working

(* ... and so have the inputs of the instance that drives it.              *)
LEMMA SinkIs ==
    ASSUME NEW p \in DOMAIN plan, NEW v, NEW k, NEW d, IsSinkOf(p, v, k, d)
    PROVE  SinkPlace(p, k, d) \in Sinks(<<p, v>>)
<1>1. Sinks(<<p, v>>) = {<<Append(p, s[1]), IF IsModule(Inst(p, s[1])) THEN InputWire(Append(p, s[1]), s[2])
                                            ELSE s[2]>> : s \in Range(ModAt(p).sinks[v])}
  BY DEF Sinks
<1>2. <<k, d>> \in Range(ModAt(p).sinks[v]) /\ <<k, d>>[1] = k /\ <<k, d>>[2] = d
  BY DEF IsSinkOf
<1> QED
  BY <1>1, <1>2 DEF SinkPlace

(* So have the inputs of the instance that drives it.                      *)
LEMMA FedPlace ==
    ASSUME Planned, NEW pos, NEW q, Positioned(pos, q), NEW D, NEW f, NEW at,
           FlowingAt(f, pos, q, D, at), NEW k, NEW d, Feeds(ModAt(f.path), Head(f.todo), k, d)
    PROVE  SinkPlace(f.path, k, d) \in D
<1> DEFINE p == f.path
<1>1. PICK v \in WiresAt(p) : /\ v \in Depends(built, ModAt(p), Head(f.todo))
                              /\ <<v, Head(f.todo)>> \in Range(ModAt(p).dag)
                              /\ <<k, d>> \in Range(ModAt(p).sinks[v])
  BY DEF Feeds, WiresAt
<1>2. <<p, v>> \in D
  BY <1>1, DependencyIn
<1>3. p \in DOMAIN plan /\ SpreadOver(D)
  BY DEF FlowingAt
<1>4. SinkPlace(p, k, d) \in Sinks(<<p, v>>)
  BY <1>1, <1>3, SinkIs, Zenon DEF IsSinkOf
<1> QED
  BY <1>1, <1>2, <1>3, <1>4 DEF SpreadOver

-----------------------------------------------------------------------------
(* What is asked of the values has them.                                   *)
LEMMA FlowingIs ==
    ASSUME Planned, NEW stk, NEW pos, NEW q, NEW ph, Traversed(stk, pos, q, ph), NEW D,
           Valued(stk, pos, q, D), NEW k \in 1..Len(stk), NEW f, f = stk[k], Working(f),
           NEW at, IsNext(f, pos, q, at)
    PROVE  FlowingAt(f, pos, q, D, at)
<1>1. f.path \in DOMAIN plan /\ FrameFits(f, pos, q, ph)
  BY StackIs DEF Traversed
<1>2. FrameInputs(f, q, D) /\ Computed(pos, D) /\ SpreadOver(D)
  BY DEF Valued
<1>3. q[f.path] \in Nat
  BY <1>1 DEF Traversed, Positioned
<1> QED
  BY <1>1, <1>2, <1>3 DEF FlowingAt, FrameFits

(* The inputs of a gate.                                                   *)
GateInputsIn(p, k, D) ==
    \A d \in 1..Len(GateOf(Inst(p, k).type).deps) : <<Append(p, k), d>> \in D
(* A gate is evaluated once its inputs have values.                        *)
LEMMA GateReady ==
    ASSUME Planned, NEW pos, NEW q, Positioned(pos, q), NEW D, NEW f, NEW at,
           FlowingAt(f, pos, q, D, at), Inst(f.path, Driving(f)).kind = "cell",
           ~IsModule(Inst(f.path, Driving(f)))
    PROVE  GateInputsIn(f.path, Driving(f), D)
<1> DEFINE p == f.path
           k == Driving(f)
           w == Head(f.todo)
<1>1. p \in DOMAIN plan /\ w \in WiresAt(p)
  BY DEF FlowingAt, IsNext, NextAt
<1>2. Facts(plan[p].module) /\ ModAt(p) = built[plan[p].module]
  BY <1>1, FlowAt DEF ModAt
<1>3. is_gate(Inst(p, k).type) /\ Inst(p, k).kind = "cell"
  BY Zenon DEF IsModule
<1>4. /\ k = built[plan[p].module].source[w][1] /\ Inst(p, k) = built[plan[p].module].instances[k]
  BY <1>2, Zenon DEF Driving, Inst
<1>5. \A d \in 1..Len(GateOf(Inst(p, k).type).deps) : Feeds(ModAt(p), w, k, d)
  <2> DEFINE m == plan[p].module
  <2>1. w \in Wires(built[m])
    BY <1>1, <1>2, Zenon DEF WiresAt
  <2> HIDE DEF m, w, k
  <2>2. \A d \in 1..Len(GateOf(built[m].instances[k].type).deps) : Feeds(built[m], w, k, d)
    BY <1>2, <1>3, <1>4, <2>1, GateFeeds, Zenon DEF m
  <2> QED
    BY <1>2, <1>4, <2>2, Zenon DEF m
<1>6. ASSUME NEW d \in 1..Len(GateOf(Inst(p, k).type).deps)
      PROVE  <<Append(p, k), d>> \in D
  <2>1. SinkPlace(p, k, d) \in D
    BY <1>5, <1>6, FedPlace, Zenon
  <2> QED
    BY <2>1 DEF SinkPlace
<1> QED
  BY <1>6 DEF GateInputsIn

(* The inputs that an output that is queried depends on.                   *)
LEMMA QueryReady ==
    ASSUME Planned, NEW pos, NEW q, NEW ph, Positioned(pos, q), Counted(pos, q, ph), NEW D, NEW f,
           FrameFits(f, pos, q, ph), NEW at, FlowingAt(f, pos, q, D, at), AsksModule(f, ph)
    PROVE  LET s == Append(f.path, Driving(f))
               o == ModAt(f.path).source[Head(f.todo)][2]
           IN  /\ o \in DOMAIN ModAt(s).outputs
               /\ QueriedWire(s, q[s]) = ModAt(s).connection_wires[ModAt(s).outputs[o]]
               /\ QueryInputsIn(s, q[s], D)
<1> DEFINE p == f.path
           k == Driving(f)
           w == Head(f.todo)
           s == Append(p, k)
           o == ModAt(p).source[w][2]
           m == plan[p].module
           t == Inst(p, k).type
<1>1. p \in DOMAIN plan /\ w \in WiresAt(p) /\ Working(f) /\ IsNext(f, pos, q, at)
  BY DEF FlowingAt, IsNext, NextAt
<1>2. Facts(m) /\ ModAt(p) = built[m]
  BY <1>1, FlowAt DEF ModAt
<1>3. k \in Parts(p) /\ QueryComes(p, k, q, o)
  BY <1>1, QueryIs
<1>4. s \in DOMAIN plan /\ ModAt(s) = built[t]
  BY <1>1, <1>3, PartInputs
<1>5. q[s] + 1 \in DOMAIN plan[s].order /\ plan[s].order[q[s] + 1].con = ModAt(s).outputs[o]
  BY <1>3, Zenon DEF QueryComes
<1>6. QueriedWire(s, q[s]) = ModAt(s).connection_wires[ModAt(s).outputs[o]]
  BY <1>5 DEF QueriedWire, OutWires
<1>7. IsModule(Inst(p, k))
  BY DEF AsksModule
<1>8. Facts(t)
  <2>1. plan[s].module = t
    BY <1>1, <1>3, <1>7, Zenon DEF Parts, IsPart, Answers, PathFit, Planned
  <2> QED
    BY <1>4, <2>1, FlowAt, Zenon
<1>9. /\ o \in DOMAIN built[t].outputs
      /\ \A i \in Range(built[t].comb_input_deps[OutWireOf(t, o)]) : Feeds(built[m], w, k, i)
  <2>1. w \in Wires(built[m])
    BY <1>1, <1>2 DEF WiresAt
  <2>2. /\ k = built[m].source[w][1] /\ o = built[m].source[w][2]
        /\ Inst(p, k) = built[m].instances[k] /\ t = built[m].instances[k].type
    BY <1>2 DEF Driving, Inst
  <2> HIDE DEF w, k, o, m, t
  <2> QED
    BY <1>2, <1>7, <1>8, <2>1, <2>2, ModuleFeeds, Zenon
<1>10. ASSUME NEW i \in Range(ModAt(s).comb_input_deps[QueriedWire(s, q[s])])
       PROVE  InputIn(s, i, D)
  <2>1. Feeds(ModAt(p), w, k, i)
    BY <1>2, <1>4, <1>6, <1>9, <1>10, Zenon DEF OutWireOf
  <2>2. SinkPlace(p, k, i) \in D
    BY <2>1, FedPlace
  <2> QED
    BY <1>7, <2>2, Zenon DEF SinkPlace, InputIn
<1> QED
  BY <1>4, <1>6, <1>9, <1>10, Zenon DEF QueryInputsIn

(* A gadget whose output is asked for has its inputs of the same stage.    *)
StageInputsIn(s, con, D) ==
    \A i \in DOMAIN ModAt(s).inputs :
        GadgetAt(s).latency[ModAt(s).inputs[i]] = GadgetAt(s).latency[con] => InputIn(s, i, D)
(* An output of a gadget is evaluated once its inputs of the stages before *)
(* have values.                                                            *)
LEMMA StageReady ==
    ASSUME Planned, NEW s \in DOMAIN plan, IsGadgetAt(s), NEW k, NEW D, QueryInputsIn(s, k, D),
           NEW con \in Range(ModAt(s).outputs), QueriedWire(s, k) = ModAt(s).connection_wires[con]
    PROVE  StageInputsIn(s, con, D)
<1>1. ModAt(s).gadget # <<>> /\ StagesFit(ModAt(s))
  BY FactsAt DEF IsGadgetAt, IsGadgetName, ModAt
<1>2. PICK o \in DOMAIN ModAt(s).outputs : con = ModAt(s).outputs[o]
  BY DEF Range
<1>3. ASSUME NEW i \in DOMAIN ModAt(s).inputs,
             GadgetAt(s).latency[ModAt(s).inputs[i]] = GadgetAt(s).latency[con]
      PROVE  InputIn(s, i, D)
  <2>1. i \in Range(ModAt(s).comb_input_deps[ModAt(s).connection_wires[con]])
    BY <1>1, <1>2, <1>3, Zenon DEF StagesFit, GadgetAt
  <2> QED
    BY <2>1, Zenon DEF QueryInputsIn
<1> QED
  BY <1>3 DEF StageInputsIn

(* The end of a query: its output.                                         *)
LEMMA ResultIn ==
    ASSUME Planned, NEW pos, NEW q, NEW ph, Positioned(pos, q), NEW D, Computed(pos, D), NEW f,
           f.path \in DOMAIN plan, FrameFits(f, pos, q, ph), FrameInputs(f, q, D),
           f.mode = "query", f.todo = <<>>
    PROVE  LET s == f.path
           IN  /\ plan[s].order[q[s] + 1].con \in Range(ModAt(s).outputs)
               /\ QueriedWire(s, q[s]) = ModAt(s).connection_wires[plan[s].order[q[s] + 1].con]
               /\ <<s, QueriedWire(s, q[s])>> \in D /\ QueryInputsIn(s, q[s], D)
<1> DEFINE s == f.path
           k == q[s]
           x == QueriedWire(s, k)
<1>1. k \in Nat /\ k < Len(plan[s].order) /\ pos[s] \in Nat
  BY DEF FrameFits, Positioned
<1>2. pos[s] <= Ends(s)[k + 2] /\ IsTodo(f.todo, Found(s), InputsAt(s), pos[s], Ends(s)[k + 2])
  BY DEF FrameFits, TodoFits
<1>3. QueryInputsIn(s, k, D)
  BY DEF FrameInputs
<1>4. /\ x \in WiresAt(s) /\ plan[s].order[k + 1].con \in Range(ModAt(s).outputs)
      /\ x = ModAt(s).connection_wires[plan[s].order[k + 1].con]
      /\ FoundFrom(ModAt(s).dag, PathOrders(s), x, Ends(s)[k + 1], Ends(s)[k + 2])
  BY <1>1, QueriedIs
<1> HIDE DEF x
<1>5. <<s, x>> \in D
  <2>1. CASE x \in InputsAt(s)
    <3>1. IsNeeded(ModAt(s), x, x)
      BY <1>4, <2>1, FactsAt, Zenon DEF NeedsFit, InputsAt, WiresAt
    <3> QED
      BY <1>3, <3>1, NeededInput, Zenon DEF x
  <2>2. CASE x \notin InputsAt(s)
    <3>1. PICK j \in 1..Ends(s)[k + 2] : Found(s)[j] = x
      BY <1>4, Zenon DEF FoundFrom, Found
    <3>2. \A i \in (pos[s] + 1)..Ends(s)[k + 2] : Found(s)[i] \in InputsAt(s)
      BY <1>2, TodoEmpty
    <3>3. k + 2 \in 1..(Len(plan[s].order) + 1) + 1 /\ k + 2 \in 1..(Len(plan[s].order) + 1)
      BY <1>1, FlowAt
    <3>4. Ends(s)[k + 2] \in 0..Len(Found(s)) /\ Len(Found(s)) \in Nat
      BY <3>3, FlowAt
    <3>5. j \in 1..Len(Found(s)) /\ j \in Nat
      BY <3>4
    <3>6. j <= pos[s]
      <4>1. j > pos[s] => j \in (pos[s] + 1)..Ends(s)[k + 2]
        BY <1>1, <3>4, <3>5
      <4>2. ~(j > pos[s])
        BY <2>2, <3>1, <3>2, <4>1
      <4> QED
        BY <1>1, <3>5, <4>2
    <3> QED
      BY <2>2, <3>1, <3>5, <3>6, Zenon DEF Computed
  <2> QED
    BY <2>1, <2>2
<1> QED
  BY <1>3, <1>4, <1>5, Zenon DEF x

-----------------------------------------------------------------------------
(* When all the wires of a module are dealt with.                          *)
WiresIn(p, D) == \A w \in WiresAt(p) : <<p, w>> \in D
(* An instance whose position is its last wire has a value for every wire. *)
LEMMA WiresDone ==
    ASSUME Planned, NEW p \in DOMAIN plan, NEW pos, pos[p] = Len(Found(p)), NEW D,
           Computed(pos, D), InputsIn(p, D)
    PROVE  WiresIn(p, D)
<1>1. Range(Found(p)) = WiresAt(p) /\ DOMAIN Found(p) = 1..Len(Found(p)) /\ Len(Found(p)) \in Nat
  BY FlowAt DEF Flow, Found, WiresAt
<1>2. ASSUME NEW w \in WiresAt(p)
      PROVE  <<p, w>> \in D
  <2>1. CASE w \in InputsAt(p)
    BY <2>1, InputHasPlace
  <2>2. CASE w \notin InputsAt(p)
    <3>1. PICK j \in 1..Len(Found(p)) : Found(p)[j] = w
      BY <1>1 DEF Range
    <3>2. j <= pos[p]
      BY <1>1, <3>1
    <3> QED
      BY <2>2, <3>1, <3>2 DEF Computed
  <2> QED
    BY <2>1, <2>2
<1> QED
  BY <1>2 DEF WiresIn

(* ... the inputs of its instances have values.                            *)
LEMMA ConnectedIn ==
    ASSUME Planned, NEW p \in DOMAIN plan, NEW D, SpreadOver(D), WiresIn(p, D),
           NEW k \in DOMAIN ModAt(p).instances, NEW d \in DOMAIN input_ports(built, Inst(p, k))
    PROVE  SinkPlace(p, k, d) \in D
<1>1. SinksFit(built, ModAt(p)) /\ Inst(p, k) = ModAt(p).instances[k]
  BY FactsAt DEF Inst
<1> DEFINE u == Inst(p, k).con[input_ports(built, Inst(p, k))[d]]
<1>2. Joins(ModAt(p), k, d, u)
  BY <1>1, SinkOf
<1> HIDE DEF u
<1>3. PICK v \in WiresAt(p) : <<k, d>> \in Range(ModAt(p).sinks[v])
  BY <1>2 DEF Joins, WiresAt
<1>4. SinkPlace(p, k, d) \in Sinks(<<p, v>>)
  BY <1>3, SinkIs DEF IsSinkOf
<1> QED
  BY <1>3, <1>4 DEF SpreadOver, WiresIn

(* The instances of an instance with a value for every wire have values    *)
(* for their inputs.                                                       *)
LEMMA PartHasInputs ==
    ASSUME Planned, NEW p \in DOMAIN plan, NEW D, SpreadOver(D), WiresIn(p, D), NEW i \in Parts(p)
    PROVE  InputsIn(Append(p, i), D)
<1>1. i \in DOMAIN ModAt(p).instances /\ IsModule(Inst(p, i))
  BY DEF Parts
<1>2. input_ports(built, Inst(p, i)) = ModAt(Append(p, i)).inputs
  BY PartInputs
<1>3. ASSUME NEW d \in DOMAIN ModAt(Append(p, i)).inputs
      PROVE  InputIn(Append(p, i), d, D)
  <2>1. SinkPlace(p, i, d) \in D
    BY <1>1, <1>2, <1>3, ConnectedIn
  <2> QED
    BY <1>1, <2>1 DEF SinkPlace, InputIn
<1> QED
  BY <1>3 DEF InputsIn

(* So have its registers.                                                  *)
LEMMA RegisterHasInput ==
    ASSUME Planned, NEW p \in DOMAIN plan, NEW D, SpreadOver(D), WiresIn(p, D),
           NEW k \in DOMAIN ModAt(p).instances, Inst(p, k).type = "DFF"
    PROVE  <<Append(p, k), 2>> \in D
<1>1. Inst(p, k).kind = "cell"
  BY FactsAt DEF InstancesFit, Inst, ModAt
<1>2. is_gate(Inst(p, k).type)
  BY DEF is_gate, GateTypes
<1>3. 2 \in DOMAIN input_ports(built, Inst(p, k)) /\ ~IsModule(Inst(p, k))
  BY <1>1, <1>2, GateInputs DEF input_ports, Interface, IsModule
<1>4. SinkPlace(p, k, 2) \in D
  BY <1>3, ConnectedIn
<1> QED
  BY <1>3, <1>4 DEF SinkPlace

-----------------------------------------------------------------------------
(* The values that the calls count on are kept.                            *)
FramesIn(stk, q, D) == \A k \in 1..Len(stk) : FrameInputs(stk[k], q, D)
NoneInputs(stk) == \A k \in 1..Len(stk) : stk[k].mode # "inputs"
EndedIn(q, D) == \A p \in DOMAIN plan : Ended(q, p) => InputsIn(p, D)
SameCounts(stk, n, q, q1) == \A k \in 1..n : q1[stk[k].path] = q[stk[k].path]

(* Valued, with the frames and the ended instances named.                  *)
LEMMA ValuedIs ==
    ASSUME NEW stk, NEW pos, NEW q, NEW D
    PROVE  Valued(stk, pos, q, D) <=> /\ SpreadOver(D) /\ Computed(pos, D)
                                      /\ FramesIn(stk, q, D) /\ EndedIn(q, D)
BY DEF Valued, FramesIn, EndedIn

(* Inputs that are set stay set.                                           *)
LEMMA InputsGrow ==
    ASSUME NEW D, NEW D1, D \subseteq D1, NEW p
    PROVE  /\ InputsIn(p, D) => InputsIn(p, D1)
           /\ \A k : QueryInputsIn(p, k, D) => QueryInputsIn(p, k, D1)
BY DEF InputsIn, InputIn, QueryInputsIn

(* A frame whose inputs are set stays so.                                  *)
LEMMA FrameGrows ==
    ASSUME NEW D, NEW D1, D \subseteq D1, NEW q, NEW q1, NEW f, NEW f1, FrameInputs(f, q, D),
           f.mode # "inputs", f1.path = f.path, f1.mode = f.mode, q1[f.path] = q[f.path]
    PROVE  FrameInputs(f1, q1, D1)
BY InputsGrow DEF FrameInputs

(* So do the instances that have ended.                                    *)
LEMMA EndedGrows ==
    ASSUME NEW D, NEW D1, D \subseteq D1, NEW q, EndedIn(q, D)
    PROVE  EndedIn(q, D1)
BY InputsGrow DEF EndedIn

(* Only the bottom frame sets the inputs of the top, and alone.            *)
LEMMA NoInputsAbove ==
    ASSUME Planned, NEW stk, NEW pos, NEW q, NEW ph, StackFits(stk, pos, q, ph), stk # <<>>,
           stk[Len(stk)].mode # "inputs"
    PROVE  NoneInputs(stk)
<1>1. stk \in Seq(Frames) /\ \A k \in 1..Len(stk) : stk[k].mode = "inputs" => Len(stk) = 1
  BY DEF StackFits
<1> QED
  BY <1>1 DEF NoneInputs

(* Replacing the top frame keeps the inputs of the frames set.             *)
LEMMA FramesReplaced ==
    ASSUME NEW stk, NEW n \in Nat, n = Len(stk), NEW q, NEW q1, NEW D, NEW D1, D \subseteq D1,
           FramesIn(stk, q, D), NoneInputs(stk), SameCounts(stk, n - 1, q, q1),
           NEW new, NEW f1, IsReplaced(stk, new, f1), FrameInputs(f1, q1, D1)
    PROVE  FramesIn(new, q1, D1)
<1>1. ASSUME NEW k \in 1..Len(new)
      PROVE  FrameInputs(new[k], q1, D1)
  <2>1. Len(new) = n /\ new[n] = f1 /\ \A l \in 1..(n - 1) : new[l] = stk[l]
    BY DEF IsReplaced
  <2>2. CASE k = n
    BY <2>1, <2>2
  <2>3. CASE k # n
    <3>1. k \in 1..(n - 1) /\ k \in 1..Len(stk)
      BY <1>1, <2>1, <2>3
    <3>2. FrameInputs(stk[k], q, D) /\ stk[k].mode # "inputs" /\ q1[stk[k].path] = q[stk[k].path]
      BY <3>1 DEF FramesIn, NoneInputs, SameCounts
    <3> QED
      BY <2>1, <3>1, <3>2, FrameGrows
  <2> QED
    BY <2>2, <2>3
<1> QED
  BY <1>1 DEF FramesIn

(* So does calling an instance whose inputs are set.                       *)
LEMMA FramesPushed ==
    ASSUME NEW stk, NEW n \in Nat \ {0}, n = Len(stk), NEW q, NEW D, FramesIn(stk, q, D),
           NEW new, NEW f1, NEW g, IsPushed(stk, new, f1, g),
           f1.path = stk[n].path, f1.mode = stk[n].mode, stk[n].mode # "inputs", FrameInputs(g, q, D)
    PROVE  FramesIn(new, q, D)
<1>1. Len(new) = n + 1 /\ new[n] = f1 /\ new[n + 1] = g /\ \A l \in 1..(n - 1) : new[l] = stk[l]
  BY DEF IsPushed
<1>2. FrameInputs(f1, q, D)
  <2>1. FrameInputs(stk[n], q, D)
    BY DEF FramesIn
  <2> QED
    BY <2>1, FrameGrows
<1>3. ASSUME NEW k \in 1..Len(new)
      PROVE  FrameInputs(new[k], q, D)
  <2>1. k \in 1..(n - 1) \/ k = n \/ k = n + 1
    BY <1>1
  <2>2. \A l \in 1..(n - 1) : l \in 1..Len(stk)
    OBVIOUS
  <2> QED
    BY <1>1, <1>2, <2>1, <2>2 DEF FramesIn
<1> QED
  BY <1>3 DEF FramesIn

(* So does returning from one.                                             *)
LEMMA FramesPopped ==
    ASSUME NEW stk, NEW n \in Nat, n = Len(stk), n > 1, NEW q, NEW q1, NEW D, NEW D1, D \subseteq D1,
           FramesIn(stk, q, D), NoneInputs(stk), SameCounts(stk, n - 1, q, q1),
           NEW new, NEW g1, IsPopped(stk, new, g1), g1.path = stk[n - 1].path,
           g1.mode = stk[n - 1].mode
    PROVE  FramesIn(new, q1, D1)
<1>1. Len(new) = n - 1 /\ new[n - 1] = g1 /\ \A l \in 1..(n - 2) : new[l] = stk[l]
  BY DEF IsPopped
<1>2. ASSUME NEW k \in 1..Len(new)
      PROVE  FrameInputs(new[k], q1, D1)
  <2>1. k \in 1..(n - 1) /\ k \in 1..Len(stk)
    BY <1>1
  <2>2. FrameInputs(stk[k], q, D) /\ stk[k].mode # "inputs" /\ q1[stk[k].path] = q[stk[k].path]
    BY <2>1 DEF FramesIn, NoneInputs, SameCounts
  <2>3. new[k].path = stk[k].path /\ new[k].mode = stk[k].mode
    <3>1. CASE k = n - 1
      BY <1>1, <3>1
    <3>2. CASE k # n - 1
      BY <1>1, <2>1, <3>2
    <3> QED
      BY <3>1, <3>2
  <2> QED
    BY <2>2, <2>3, FrameGrows
<1> QED
  BY <1>2 DEF FramesIn

(* The counts that change are those of the call that ends.                 *)
LEMMA CountsBelow ==
    ASSUME Planned, NEW stk, NEW pos, NEW q, NEW ph, StackFits(stk, pos, q, ph), stk # <<>>,
           NEW f, f = stk[Len(stk)], NEW q1, \A x \in DOMAIN plan : x # f.path => q1[x] = q[x]
    PROVE  SameCounts(stk, Len(stk) - 1, q, q1)
<1> DEFINE n == Len(stk)
<1>1. n \in Nat /\ n \in 1..Len(stk)
  BY DEF StackFits
<1>2. ASSUME NEW k \in 1..(n - 1)
      PROVE  q1[stk[k].path] = q[stk[k].path]
  <2>1. k \in 1..Len(stk) /\ k # n
    BY <1>1
  <2>2. stk[k].path \in DOMAIN plan
    BY <2>1, StackIs
  <2>3. stk[k].path # f.path
    BY <1>1, <2>1, OnePath
  <2> QED
    BY <2>2, <2>3
<1> QED
  BY <1>2 DEF SameCounts

-----------------------------------------------------------------------------
(* The values when a wire is given one.                                    *)
LEMMA NextSettable ==
    ASSUME Planned, NEW pos, NEW q, Positioned(pos, q), NEW D, Computed(pos, D),
           NEW f, f.path \in DOMAIN plan, NEW at, IsNext(f, pos, q, at)
    PROVE  /\ Settable(D, f.path, Head(f.todo)) /\ Head(f.todo) = Found(f.path)[at]
           /\ NextAt(f.path, pos[f.path], at)
<1> DEFINE p == f.path
           w == Found(p)[at]
<1>1. NextAt(p, pos[p], at) /\ w = Head(f.todo) /\ pos[p] \in Nat /\ Len(Found(p)) \in Nat
  BY FlowAt DEF IsNext, Positioned
<1>2. at \in 1..Len(Found(p)) /\ ~(at <= pos[p]) /\ w \in WiresAt(p) /\ w \notin InputsAt(p)
  BY <1>1 DEF NextAt
<1>3. <<p, w>> \notin D
  BY <1>2 DEF Computed
<1> QED
  BY <1>1, <1>2, <1>3 DEF Settable

(* Evaluating a wire sets one that had no value, after all it needs.       *)
LEMMA AdvancesValued ==
    ASSUME Planned, NEW stk, NEW pos, NEW q, NEW ph, Traversed(stk, pos, q, ph), stk # <<>>,
           NEW D, Valued(stk, pos, q, D),
           NEW f, f = stk[Len(stk)], Working(f), NEW at, IsNext(f, pos, q, at),
           NEW new, NEW f1, IsReplaced(stk, new, f1), IsRest(f1, f)
    PROVE  /\ Settable(D, f.path, Head(f.todo))
           /\ Valued(new, [pos EXCEPT ![f.path] = at], q, PutIn(D, f.path, Head(f.todo)))
<1> DEFINE n == Len(stk)
           p == f.path
           D1 == PutIn(D, p, Head(f.todo))
<1>1. /\ StackFits(stk, pos, q, ph) /\ Positioned(pos, q)
      /\ SpreadOver(D) /\ Computed(pos, D) /\ FramesIn(stk, q, D) /\ EndedIn(q, D)
  BY ValuedIs DEF Traversed
<1>2. n \in Nat /\ n \in 1..n
  BY <1>1 DEF StackFits
<1>3. p \in DOMAIN plan
  BY <1>1, <1>2, StackIs
<1>4. f.mode # "inputs"
  BY DEF Working
<1>5. NoneInputs(stk)
  BY <1>1, <1>4, NoInputsAbove
<1>6. Settable(D, p, Head(f.todo)) /\ Head(f.todo) = Found(p)[at] /\ NextAt(p, pos[p], at)
  BY <1>1, <1>3, NextSettable
<1>7. D \subseteq D1 /\ SpreadOver(D1) /\ Computed([pos EXCEPT ![p] = at], D1)
  BY <1>1, <1>3, <1>6, PutPlaces, PutSpreads, PutComputes
<1>8. FrameInputs(f1, q, D1)
  <2>1. FrameInputs(f, q, D)
    BY <1>1, <1>2 DEF FramesIn
  <2> QED
    BY <1>4, <1>7, <2>1, FrameGrows DEF IsRest
<1>9. FramesIn(new, q, D1)
  <2>1. SameCounts(stk, n - 1, q, q)
    BY DEF SameCounts
  <2> HIDE DEF D1
  <2> QED
    BY <1>1, <1>2, <1>5, <1>7, <1>8, <2>1, FramesReplaced
<1>10. EndedIn(q, D1)
  BY <1>1, <1>7, EndedGrows
<1> QED
  BY <1>6, <1>7, <1>9, <1>10, ValuedIs

(* A query of an instance comes when the inputs it depends on are set.     *)
LEMMA CallsValued ==
    ASSUME Planned, NEW stk, NEW pos, NEW q, NEW ph, Traversed(stk, pos, q, ph), stk # <<>>,
           NEW D, Valued(stk, pos, q, D),
           NEW f, f = stk[Len(stk)], Working(f), AsksModule(f, ph),
           NEW new, NEW g, IsPushed(stk, new, f, g), IsQuery(g, f.path, Driving(f), q)
    PROVE  Valued(new, pos, q, D)
<1> DEFINE n == Len(stk)
           p == f.path
           s == Append(p, Driving(f))
<1>1. /\ StackFits(stk, pos, q, ph) /\ Positioned(pos, q) /\ Counted(pos, q, ph)
      /\ SpreadOver(D) /\ Computed(pos, D) /\ FramesIn(stk, q, D) /\ EndedIn(q, D)
  BY ValuedIs DEF Traversed
<1>2. n \in Nat \ {0} /\ n \in 1..n
  BY <1>1 DEF StackFits
<1>3. p \in DOMAIN plan /\ FrameFits(f, pos, q, ph)
  BY <1>1, <1>2, StackIs
<1>4. PICK at : IsNext(f, pos, q, at)
  BY <1>1, <1>3, NextOf
<1>5. FlowingAt(f, pos, q, D, at)
  BY <1>2, <1>4, FlowingIs, Zenon
<1>6. QueryInputsIn(s, q[s], D)
  BY <1>1, <1>3, <1>5, QueryReady, Zenon
<1>7. FrameInputs(g, q, D)
  BY <1>6 DEF FrameInputs, IsQuery
<1>8. FramesIn(new, q, D)
  <2>1. f.mode # "inputs"
    BY Zenon DEF Working
  <2> QED
    BY <1>1, <1>2, <1>7, <2>1, FramesPushed
<1> QED
  BY <1>1, <1>8, ValuedIs

(* Answering a query sets the wire that asked, which had no value.         *)
LEMMA ReturnsValued ==
    ASSUME Planned, NEW stk, NEW pos, NEW q, NEW ph, Traversed(stk, pos, q, ph), stk # <<>>,
           NEW D, Valued(stk, pos, q, D),
           NEW f, f = stk[Len(stk)], f.mode = "query", f.todo = <<>>,
           NEW g, g = stk[Len(stk) - 1], NEW at, IsNext(g, pos, q, at),
           NEW new, NEW g1, IsPopped(stk, new, g1), IsRest(g1, g)
    PROVE  /\ Settable(D, g.path, Head(g.todo))
           /\ Valued(new, Returned1(pos, q, f, g.path, at), [q EXCEPT ![f.path] = @ + 1],
                     PutIn(D, g.path, Head(g.todo)))
<1> DEFINE n == Len(stk)
           p == g.path
           s == f.path
           D1 == PutIn(D, p, Head(g.todo))
           to == Ends(s)[q[s] + 2]
           pos0 == [pos EXCEPT ![s] = to]
           q1 == [q EXCEPT ![s] = @ + 1]
<1>1. /\ StackFits(stk, pos, q, ph) /\ Positioned(pos, q)
      /\ SpreadOver(D) /\ Computed(pos, D) /\ FramesIn(stk, q, D) /\ EndedIn(q, D)
  BY ValuedIs DEF Traversed
<1>2. n \in Nat /\ n \in 1..n
  BY <1>1 DEF StackFits
<1>3. s \in DOMAIN plan /\ FrameFits(f, pos, q, ph)
  BY <1>1, <1>2, StackIs
<1>4. n > 1 /\ n - 1 \in 1..n /\ p \in DOMAIN plan
  BY <1>1, CallerIs
<1>5. p # s
  BY <1>1, <1>2, <1>4, OnePath
<1>6. NoneInputs(stk)
  BY <1>1, NoInputsAbove
<1>7. /\ pos \in [DOMAIN plan -> Nat] /\ q \in [DOMAIN plan -> Nat]
      /\ q[s] < Len(plan[s].order) /\ pos[s] <= to /\ pos[s] \in Nat /\ q[s] \in Nat
      /\ IsTodo(f.todo, Found(s), InputsAt(s), pos[s], to)
  BY <1>1, <1>3 DEF Positioned, FrameFits, TodoFits
<1>8. to \in Nat /\ to <= Len(Found(s)) /\ Len(plan[s].order) \in Nat
  <2>1. Len(plan[s].order) \in Nat /\ Len(Found(s)) \in Nat
    BY <1>3, FlowAt
  <2>2. q[s] + 2 \in 1..(Len(plan[s].order) + 1)
    <3> DEFINE k == q[s]
               m == Len(plan[s].order)
    <3>1. k \in Nat /\ m \in Nat /\ k < m
      BY <1>7, <2>1
    <3> HIDE DEF k, m
    <3>2. k + 2 \in 1..(m + 1)
      BY <3>1
    <3> QED
      BY <3>2 DEF k, m
  <2>3. to \in 0..Len(Found(s))
    BY <1>3, <2>2, FlowAt
  <2> QED
    BY <2>1, <2>3
<1> HIDE DEF to
<1>9. OnlyInputs(s, pos[s], to)
  BY <1>7, TodoEmpty DEF OnlyInputs
<1>10. Computed(pos0, D)
  BY <1>1, <1>3, <1>7, <1>8, <1>9, PassedOver
<1>11. ~Ended(q, s)
  BY <1>7, <1>8 DEF Ended
<1>12. Positioned(pos0, q)
  BY <1>1, <1>3, <1>8, <1>11, PositionMoves
<1>13. Settable(D, p, Head(g.todo)) /\ Head(g.todo) = Found(p)[at] /\ NextAt(p, pos[p], at)
  BY <1>1, <1>4, NextSettable
<1>14. NextAt(p, pos0[p], at)
  BY <1>5, <1>7, <1>13
<1>15. D \subseteq D1 /\ SpreadOver(D1)
  BY <1>1, <1>13, PutPlaces, PutSpreads
<1>16. Computed([pos0 EXCEPT ![p] = at], D1)
  <2> HIDE DEF pos0
  <2> QED
    BY <1>4, <1>10, <1>12, <1>13, <1>14, PutComputes
<1>17. Returned1(pos, q, f, p, at) = [pos0 EXCEPT ![p] = at]
  <2>1. Returned1(pos, q, f, p, at) = [pos EXCEPT ![p] = at, ![s] = to]
    BY DEF Returned1, to
  <2>2. [pos EXCEPT ![p] = at, ![s] = to] = [pos0 EXCEPT ![p] = at]
    BY <1>4, <1>5, <1>7
  <2> QED
    BY <2>1, <2>2
<1>18. /\ \A x \in DOMAIN plan : x # s => q1[x] = q[x]
       /\ q1[s] = q[s] + 1
  BY <1>3, <1>7
<1>19. EndedIn(q1, D1)
  <2>1. ASSUME NEW x \in DOMAIN plan, Ended(q1, x)
        PROVE  Ended(q, x)
    <3>1. CASE x = s
      <4>1. q[s] + 1 # Len(plan[s].order) + 1
        BY <1>7, <1>8
      <4> QED
        BY <1>18, <2>1, <3>1, <4>1 DEF Ended
    <3>2. CASE x # s
      BY <1>18, <2>1, <3>2 DEF Ended
    <3> QED
      BY <3>1, <3>2
  <2> QED
    BY <1>1, <1>15, <2>1, EndedGrows DEF EndedIn
<1>20. FramesIn(new, q1, D1)
  <2> HIDE DEF q1, D1
  <2>1. SameCounts(stk, n - 1, q, q1)
    BY <1>1, <1>18, CountsBelow
  <2> QED
    BY <1>1, <1>2, <1>4, <1>6, <1>15, <2>1, FramesPopped DEF IsRest
<1> QED
  BY <1>13, <1>15, <1>16, <1>17, <1>19, <1>20, ValuedIs

-----------------------------------------------------------------------------
(* The values when the wires of a module, and when its instances, end.     *)
LEMMA WiresEndValued ==
    ASSUME Planned, NEW stk, NEW pos, NEW q, NEW ph, Traversed(stk, pos, q, ph), stk # <<>>,
           NEW D, Valued(stk, pos, q, D),
           NEW f, f = stk[Len(stk)], f.mode = "finish", f.todo = <<>>,
           NEW new, NEW f1, IsReplaced(stk, new, f1), f1.path = f.path, f1.mode = "instances"
    PROVE  Valued(new, [pos EXCEPT ![f.path] = Len(Found(f.path))], [q EXCEPT ![f.path] = @ + 1], D)
<1> DEFINE n == Len(stk)
           p == f.path
           to == Len(Found(p))
           q1 == [q EXCEPT ![p] = @ + 1]
<1>1. /\ StackFits(stk, pos, q, ph) /\ Positioned(pos, q)
      /\ SpreadOver(D) /\ Computed(pos, D) /\ FramesIn(stk, q, D) /\ EndedIn(q, D)
  BY ValuedIs DEF Traversed
<1>2. n \in Nat /\ n \in 1..n
  BY <1>1 DEF StackFits
<1>3. p \in DOMAIN plan /\ FrameFits(f, pos, q, ph)
  BY <1>1, <1>2, StackIs
<1>4. NoneInputs(stk)
  BY <1>1, NoInputsAbove
<1>5. /\ q \in [DOMAIN plan -> Nat] /\ pos[p] <= to /\ to \in Nat
      /\ IsTodo(f.todo, Found(p), InputsAt(p), pos[p], to)
  BY <1>1, <1>3, FlowAt DEF Positioned, FrameFits, TodoFits
<1>6. OnlyInputs(p, pos[p], to)
  BY <1>5, TodoEmpty DEF OnlyInputs
<1>7. Computed([pos EXCEPT ![p] = to], D)
  BY <1>1, <1>3, <1>5, <1>6, PassedOver
<1>8. \A x \in DOMAIN plan : x # p => q1[x] = q[x]
  BY <1>5
<1> HIDE DEF q1
<1>9. InputsIn(p, D)
  <2>1. FrameInputs(f, q, D)
    BY <1>1, <1>2 DEF FramesIn
  <2> QED
    BY <2>1 DEF FrameInputs
<1>10. EndedIn(q1, D)
  <2>1. ASSUME NEW x \in DOMAIN plan, Ended(q1, x)
        PROVE  InputsIn(x, D)
    <3>1. CASE x = p
      BY <1>9, <3>1
    <3>2. CASE x # p
      BY <1>1, <1>8, <2>1, <3>2 DEF Ended, EndedIn
    <3> QED
      BY <3>1, <3>2
  <2> QED
    BY <2>1 DEF EndedIn
<1>11. FramesIn(new, q1, D)
  <2>1. SameCounts(stk, n - 1, q, q1)
    BY <1>1, <1>8, CountsBelow
  <2>2. FrameInputs(f1, q1, D)
    BY <1>9 DEF FrameInputs
  <2> QED
    BY <1>1, <1>2, <1>4, <2>1, <2>2, FramesReplaced
<1> QED
  BY <1>1, <1>7, <1>10, <1>11, ValuedIs DEF q1

(* While the instances of a module are finished, all its wires have values. *)
LEMMA InstancesReady ==
    ASSUME Planned, NEW stk, NEW pos, NEW q, NEW ph, Traversed(stk, pos, q, ph), stk # <<>>,
           NEW D, Valued(stk, pos, q, D), NEW f, f = stk[Len(stk)], f.mode = "instances"
    PROVE  /\ f.path \in DOMAIN plan /\ SpreadOver(D) /\ WiresIn(f.path, D) /\ InputsIn(f.path, D)
           /\ NoneInputs(stk) /\ Len(stk) \in Nat \ {0}
<1> DEFINE n == Len(stk)
           p == f.path
<1>1. /\ StackFits(stk, pos, q, ph) /\ Positioned(pos, q)
      /\ SpreadOver(D) /\ Computed(pos, D) /\ FramesIn(stk, q, D) /\ EndedIn(q, D)
  BY ValuedIs DEF Traversed
<1>2. n \in Nat \ {0} /\ n \in 1..n
  BY <1>1 DEF StackFits
<1>3. p \in DOMAIN plan /\ FrameFits(f, pos, q, ph)
  BY <1>1, <1>2, StackIs
<1>4. Ended(q, p)
  BY <1>3 DEF FrameFits
<1>5. pos[p] = Len(Found(p)) /\ InputsIn(p, D)
  BY <1>1, <1>3, <1>4 DEF Positioned, EndedIn
<1>6. WiresIn(p, D)
  BY <1>1, <1>3, <1>5, WiresDone
<1>7. NoneInputs(stk)
  BY <1>1, NoInputsAbove
<1> QED
  BY <1>1, <1>2, <1>3, <1>5, <1>6, <1>7

(* An instance with nothing to finish is passed over.                      *)
LEMMA SkipsValued ==
    ASSUME Planned, NEW stk, NEW pos, NEW q, NEW ph, Traversed(stk, pos, q, ph), stk # <<>>,
           NEW D, Valued(stk, pos, q, D),
           NEW f, f = stk[Len(stk)], f.mode = "instances",
           NEW new, NEW f1, IsReplaced(stk, new, f1), IsRest(f1, f)
    PROVE  Valued(new, pos, q, D)
<1> DEFINE n == Len(stk)
<1>1. SpreadOver(D) /\ Computed(pos, D) /\ FramesIn(stk, q, D) /\ EndedIn(q, D)
  BY ValuedIs
<1>2. NoneInputs(stk) /\ n \in Nat \ {0}
  BY InstancesReady
<1>3. FrameInputs(f1, q, D)
  <2>1. FrameInputs(f, q, D)
    BY <1>1, <1>2 DEF FramesIn
  <2> QED
    BY <2>1, FrameGrows DEF IsRest
<1>4. FramesIn(new, q, D)
  <2>1. SameCounts(stk, n - 1, q, q)
    BY DEF SameCounts
  <2> QED
    BY <1>1, <1>2, <1>3, <2>1, FramesReplaced
<1> QED
  BY <1>1, <1>4, ValuedIs

(* An instance is finished when all its inputs are set.                    *)
LEMMA FinishesValued ==
    ASSUME Planned, NEW stk, NEW pos, NEW q, NEW ph, Traversed(stk, pos, q, ph), stk # <<>>,
           NEW D, Valued(stk, pos, q, D),
           NEW f, f = stk[Len(stk)], f.mode = "instances", f.todo # <<>>,
           Finishes(f.path, Head(f.todo), ph),
           NEW new, NEW f1, NEW g, IsPushed(stk, new, f1, g), IsRest(f1, f),
           IsFinish(g, Append(f.path, Head(f.todo)))
    PROVE  Valued(new, pos, q, D)
<1>1. SpreadOver(D) /\ Computed(pos, D) /\ FramesIn(stk, q, D) /\ EndedIn(q, D)
  BY ValuedIs
<1>2. /\ f.path \in DOMAIN plan /\ WiresIn(f.path, D)
      /\ NoneInputs(stk) /\ Len(stk) \in Nat \ {0}
  BY InstancesReady
<1>3. InputsIn(Append(f.path, Head(f.todo)), D)
  BY <1>1, <1>2, PartHasInputs DEF Finishes
<1>4. FrameInputs(g, q, D)
  BY <1>3 DEF FrameInputs, IsFinish
<1>5. FramesIn(new, q, D)
  BY <1>1, <1>2, <1>4, FramesPushed DEF IsRest
<1> QED
  BY <1>1, <1>5, ValuedIs

(* Returning from a finished instance leaves values as they are.           *)
LEMMA ModuleEndsValued ==
    ASSUME Planned, NEW stk, NEW pos, NEW q, NEW ph, Traversed(stk, pos, q, ph), Len(stk) > 1,
           NEW D, Valued(stk, pos, q, D),
           NEW f, f = stk[Len(stk)], f.mode = "instances",
           NEW new, IsPopped(stk, new, stk[Len(stk) - 1])
    PROVE  Valued(new, pos, q, D)
<1> DEFINE n == Len(stk)
<1>1. SpreadOver(D) /\ Computed(pos, D) /\ FramesIn(stk, q, D) /\ EndedIn(q, D)
  BY ValuedIs
<1>2. stk # <<>>
  <2>1. Len(<<>>) = 0
    OBVIOUS
  <2> QED
    BY <2>1
<1>3. NoneInputs(stk) /\ n \in Nat \ {0}
  BY <1>2, InstancesReady
<1>4. FramesIn(new, q, D)
  <2>1. SameCounts(stk, n - 1, q, q)
    BY DEF SameCounts
  <2> QED
    BY <1>1, <1>3, <2>1, FramesPopped
<1> QED
  BY <1>1, <1>4, ValuedIs

(* When nothing is left to do, all the modules that are entered have ended. *)
AllEnded(q, ph) ==
    \A p \in DOMAIN plan : p = Root \/ ph = "eval" \/ (~IsGadgetAt(p) /\ ~InGadget(p)) => Ended(q, p)
(* When the stack is empty every instance has ended.                       *)
LEMMA NothingLeft ==
    ASSUME Planned, NEW pos, NEW q, NEW ph, Traversed(<<>>, pos, q, ph)
    PROVE  AllEnded(q, ph)
<1> DEFINE Bad == {p \in DOMAIN plan : /\ p = Root \/ ph = "eval" \/ (~IsGadgetAt(p) /\ ~InGadget(p))
                                       /\ ~Ended(q, p)}
           B == DOMAIN plan
           h == [p \in B |-> Len(p)]
<1>1. Len(<<>>) = 0
  OBVIOUS
<1>2. /\ \A p \in DOMAIN plan : \A i \in Parts(p) :
            Ended(q, p) /\ EntersAt(ph, Append(p, i)) => Ended(q, Append(p, i))
      /\ Ended(q, Root)
  BY <1>1 DEF Traversed, EndsFit, Awaited, Starts
<1>3. \A p \in B : h[p] \in Nat /\ h[p] = Len(p)
  BY FlowAt
<1>4. SUFFICES ASSUME Bad # {}
               PROVE  FALSE
  BY DEF AllEnded
<1>5. PICK p \in Bad : \A x \in B : h[x] < h[p] => x \notin Bad
  <2> HIDE DEF h
  <2>1. Bad \in SUBSET B
    OBVIOUS
  <2> HIDE DEF Bad, B
  <2> QED
    BY <1>3, <1>4, <2>1, LeastRank
<1>6. p # Root
  BY <1>2
<1>7. PICK x \in DOMAIN plan : \E i \in Parts(x) : p = Append(x, i)
  BY <1>6 DEF Planned, PathFit
<1>8. PICK i \in Parts(x) : p = Append(x, i)
  BY <1>7
<1>9. /\ x \in Seq(Nat) /\ p \in Seq(Nat) /\ i \in Nat /\ Len(p) = Len(x) + 1 /\ Len(x) \in Nat
  BY <1>8, FlowAt, PartIs DEF IsPart, Parts
<1>10. h[x] < h[p]
  BY <1>3, <1>9
<1>11. CASE ph = "eval"
  <2>1. Ended(q, x)
    BY <1>5, <1>10, <1>11
  <2> QED
    BY <1>2, <1>8, <1>11, <2>1 DEF EntersAt
<1>12. CASE ~IsGadgetAt(p) /\ ~InGadget(p)
  <2>1. IsStrictPrefix(x, p)
    <3>1. \A k \in 1..Len(x) : p[k] = x[k]
      BY <1>8, <1>9
    <3> QED
      BY <1>9, <3>1 DEF IsStrictPrefix, IsPrefix
  <2>2. ~IsGadgetAt(x)
    BY <1>12, <2>1 DEF InGadget
  <2>3. ~InGadget(x)
    <3>1. SUFFICES ASSUME NEW y \in DOMAIN plan, IsStrictPrefix(y, x), IsGadgetAt(y)
                   PROVE  FALSE
      BY DEF InGadget
    <3>2. IsStrictPrefix(y, p)
      BY <1>8, <1>9, <3>1, FlowAt DEF IsStrictPrefix, IsPrefix
    <3> QED
      BY <1>12, <3>1, <3>2 DEF InGadget
  <2>4. Ended(q, x)
    BY <1>5, <1>10, <2>2, <2>3
  <2> QED
    BY <1>2, <1>8, <1>12, <2>4 DEF EntersAt
<1> QED
  BY <1>5, <1>6, <1>11, <1>12

(* The evaluation ends: every wire has its value.                          *)
LEMMA TopEndsValued ==
    ASSUME Planned, NEW stk, NEW pos, NEW q, Traversed(stk, pos, q, "eval"), Len(stk) = 1,
           NEW D, Valued(stk, pos, q, D),
           NEW f, f = stk[Len(stk)], f.mode = "instances", f.todo = <<>>
    PROVE  AllValued(D)
<1>1. SpreadOver(D) /\ Computed(pos, D) /\ EndedIn(q, D)
  BY ValuedIs
<1>2. Traversed(<<>>, pos, q, "eval")
  BY TopEnds
<1>3. AllEnded(q, "eval") /\ Positioned(pos, q)
  BY <1>2, NothingLeft DEF Traversed
<1>4. ASSUME NEW p \in DOMAIN plan
      PROVE  WiresIn(p, D)
  <2>1. Ended(q, p)
    BY <1>3 DEF AllEnded
  <2>2. pos[p] = Len(Found(p)) /\ InputsIn(p, D)
    BY <1>1, <1>3, <2>1 DEF Positioned, EndedIn
  <2> QED
    BY <1>1, <2>2, WiresDone
<1> QED
  BY <1>1, <1>4 DEF AllValued, WiresIn

(* The beginning of a cycle: nothing has a value.                          *)
LEMMA BeginsValued ==
    ASSUME Planned, NEW stk, Len(stk) = 1,
           stk[1].path = Root, stk[1].mode = "inputs", IsAll(stk[1].todo, DOMAIN ModAt(Root).inputs)
    PROVE  Valued(stk, Zeros, Zeros, {})
<1>1. \A p \in DOMAIN plan : Zeros[p] = 0
  BY DEF Zeros
<1>2. SpreadOver({})
  BY DEF SpreadOver
<1>3. Computed(Zeros, {})
  BY <1>1 DEF Computed
<1>4. EndedIn(Zeros, {})
  <2>1. ASSUME NEW p \in DOMAIN plan
        PROVE  ~Ended(Zeros, p)
    <3>1. Len(plan[p].order) \in Nat
      BY FlowAt
    <3> QED
      BY <1>1, <3>1 DEF Ended
  <2> QED
    BY <2>1 DEF EndedIn
<1>5. FrameInputs(stk[1], Zeros, {})
  <2>1. Range(stk[1].todo) = DOMAIN ModAt(Root).inputs
    BY DEF IsAll, Range
  <2> QED
    BY <2>1 DEF FrameInputs, InputIn
<1>6. FramesIn(stk, Zeros, {})
  <2>1. \A k \in 1..1 : k = 1
    OBVIOUS
  <2> QED
    BY <1>5, <2>1 DEF FramesIn
<1> QED
  BY <1>2, <1>3, <1>4, <1>6, ValuedIs

(* An input of the top-level module is set.                                *)
LEMMA TakesInputValued ==
    ASSUME Planned, NEW stk, NEW pos, NEW q, NEW ph, Traversed(stk, pos, q, ph), stk # <<>>,
           NEW D, Valued(stk, pos, q, D),
           NEW f, f = stk[Len(stk)], f.mode = "inputs", f.todo # <<>>,
           NEW new, NEW f1, IsReplaced(stk, new, f1), IsRest(f1, f)
    PROVE  /\ Settable(D, Root, InputWire(Root, Head(f.todo)))
           /\ Valued(new, pos, q, PutIn(D, Root, InputWire(Root, Head(f.todo))))
<1> DEFINE i == Head(f.todo)
           w == InputWire(Root, i)
           D1 == PutIn(D, Root, w)
           ins == DOMAIN ModAt(Root).inputs
<1>1. /\ StackFits(stk, pos, q, ph) /\ Positioned(pos, q)
      /\ SpreadOver(D) /\ Computed(pos, D) /\ FramesIn(stk, q, D) /\ EndedIn(q, D)
  BY ValuedIs DEF Traversed
<1>2. Len(stk) = 1 /\ f.path = Root /\ Root \in DOMAIN plan /\ f.todo \in Seq(ins) /\ Distinct(f.todo)
  BY <1>1, InputsFrame
<1>3. i \in ins /\ i \in Range(f.todo) /\ Range(f1.todo) = Range(f.todo) \ {i}
  BY <1>2, DistinctTail DEF IsRest
<1>4. FrameInputs(f, q, D)
  BY <1>1, <1>2 DEF FramesIn
<1>5. /\ \A j \in ins : InputWire(Root, j) \in InputsAt(Root)
      /\ \A j, k \in ins : InputWire(Root, j) = InputWire(Root, k) => j = k
  BY <1>2, FactsAt DEF InputsFit, InputWire, WireIn, InputsAt
<1> HIDE DEF ins, i
<1>6. <<Root, w>> \notin D /\ w \in InputsAt(Root)
  BY <1>2, <1>3, <1>4, <1>5 DEF FrameInputs, InputIn, ins
<1>7. Settable(D, Root, w)
  BY <1>2, <1>6, InputsAreWires DEF Settable
<1>8. D \subseteq D1 /\ SpreadOver(D1) /\ Computed(pos, D1) /\ <<Root, w>> \in D1
  BY <1>1, <1>6, <1>7, PutPlaces, PutSpreads, PutInput
<1>9. \A v : <<Root, v>> \in D1 => <<Root, v>> \in D \/ v = w
  <2> HIDE DEF w
  <2>1. \A x \in DOMAIN plan : \A v : <<x, v>> \in D1 => <<x, v>> \in D \/ NewPlace(x, v, Root, w)
    BY <1>7, PutPlaces
  <2> HIDE DEF D1
  <2>2. \A v : NewPlace(Root, v, Root, w) => v = w
    BY DEF NewPlace
  <2> QED
    BY <1>2, <2>1, <2>2
<1> HIDE DEF D1
<1>10. ASSUME NEW j \in ins
       PROVE  InputIn(Root, j, D1) <=> j \notin Range(f1.todo)
  <2>1. InputIn(Root, j, D) <=> j \notin Range(f.todo)
    BY <1>2, <1>4, <1>10 DEF FrameInputs, ins
  <2>2. CASE j = i
    BY <1>3, <1>8, <2>2 DEF InputIn
  <2>3. CASE j # i
    <3>1. InputWire(Root, j) # w
      BY <1>3, <1>5, <1>10, <2>3
    <3>2. InputIn(Root, j, D1) <=> InputIn(Root, j, D)
      BY <1>8, <1>9, <3>1 DEF InputIn
    <3> QED
      BY <1>3, <2>1, <2>3, <3>2
  <2> QED
    BY <2>2, <2>3
<1>11. FrameInputs(f1, q, D1)
  <2>1. f1.path = Root /\ f1.mode = "inputs"
    BY <1>2 DEF IsRest
  <2> QED
    BY <1>10, <2>1 DEF FrameInputs, ins
<1>12. FramesIn(new, q, D1)
  <2>1. Len(new) = 1 /\ new[1] = f1
    BY <1>2 DEF IsReplaced
  <2>2. \A k \in 1..1 : k = 1
    OBVIOUS
  <2> QED
    BY <1>11, <2>1, <2>2 DEF FramesIn
<1>13. EndedIn(q, D1)
  BY <1>1, <1>8, EndedGrows
<1> QED
  BY <1>7, <1>8, <1>12, <1>13, ValuedIs DEF D1, i

(* After the inputs of the top, its wires are evaluated with them set.     *)
LEMMA InputsEndValued ==
    ASSUME Planned, NEW stk, NEW pos, NEW q, NEW ph, Traversed(stk, pos, q, ph), stk # <<>>,
           NEW D, Valued(stk, pos, q, D),
           NEW f, f = stk[Len(stk)], f.mode = "inputs", f.todo = <<>>,
           NEW new, NEW f1, IsReplaced(stk, new, f1), IsFinish(f1, Root)
    PROVE  Valued(new, pos, q, D)
<1>1. /\ StackFits(stk, pos, q, ph)
      /\ SpreadOver(D) /\ Computed(pos, D) /\ FramesIn(stk, q, D) /\ EndedIn(q, D)
  BY ValuedIs DEF Traversed
<1>2. Len(stk) = 1 /\ f.path = Root
  BY <1>1, InputsFrame
<1>3. FrameInputs(f, q, D)
  BY <1>1, <1>2 DEF FramesIn
<1>4. Range(f.todo) = {}
  BY DEF Range
<1>5. InputsIn(Root, D)
  BY <1>2, <1>3, <1>4 DEF FrameInputs, InputsIn
<1>6. FrameInputs(f1, q, D)
  BY <1>5 DEF FrameInputs, IsFinish
<1>7. FramesIn(new, q, D)
  <2>1. Len(new) = 1 /\ new[1] = f1
    BY <1>2 DEF IsReplaced
  <2>2. \A k \in 1..1 : k = 1
    OBVIOUS
  <2> QED
    BY <1>6, <2>1, <2>2 DEF FramesIn
<1> QED
  BY <1>1, <1>7, ValuedIs

-----------------------------------------------------------------------------
(* The checks: a wire, and the inputs of gadgets that are connected to it. *)
Seen(p, w) == {<<p, w>>} \cup GadgetSinks(p, w)
CheckedWith(C, p, w) ==
    [c \in Seen(p, w) \cup DOMAIN C |-> IF c \in Seen(p, w) THEN CountIn(C, c) + 1 ELSE C[c]]
IsGadgetSink(p, w, k, d, g) ==
    /\ IsSinkOf(p, w, k, d) /\ g = <<Append(p, k), d>> /\ IsModule(Inst(p, k))
    /\ IsGadgetAt(Append(p, k))

(* A gadget that a wire feeds is an instance in the plan, below the wire,  *)
(* at the place of one of its inputs.                                      *)
LEMMA GadgetSinkIs ==
    ASSUME Planned, NEW p \in DOMAIN plan, NEW w \in WiresAt(p), NEW g \in GadgetSinks(p, w)
    PROVE  /\ \E k \in Parts(p) : \E d \in DOMAIN input_ports(built, Inst(p, k)) :
                 IsGadgetSink(p, w, k, d, g)
           /\ g[1] \in DOMAIN plan /\ g[1] # Root /\ g[1] # p /\ IsGadgetAt(g[1])
           /\ <<g[1], InputWire(g[1], g[2])>> \in Sinks(<<p, w>>)
<1>1. PICK s \in Range(ModAt(p).sinks[w]) :
         /\ IsModule(Inst(p, s[1])) /\ IsGadgetAt(Append(p, s[1])) /\ g = <<Append(p, s[1]), s[2]>>
  BY DEF GadgetSinks
<1>2. /\ s = <<s[1], s[2]>> /\ s[1] \in DOMAIN ModAt(p).instances
      /\ s[2] \in DOMAIN input_ports(built, Inst(p, s[1]))
  BY <1>1, FactsAt DEF SinksFit, WiresAt, Inst
<1>3. IsSinkOf(p, w, s[1], s[2]) /\ s[1] \in Parts(p)
  BY <1>1, <1>2 DEF IsSinkOf, Parts
<1>4. IsGadgetSink(p, w, s[1], s[2], g)
  BY <1>1, <1>3 DEF IsGadgetSink
<1>5. g[1] = Append(p, s[1]) /\ g[2] = s[2]
  BY <1>1
<1>6. g[1] \in DOMAIN plan /\ g[1] # Root /\ Len(g[1]) = Len(p) + 1 /\ Len(p) \in Nat
  BY <1>1, <1>2, <1>5, PartIs, FlowAt DEF IsPart
<1>7. g[1] # p
  BY <1>6
<1>8. <<g[1], InputWire(g[1], g[2])>> \in Sinks(<<p, w>>)
  BY <1>1, <1>3, <1>5, SinkIs DEF SinkPlace
<1> QED
  BY <1>1, <1>2, <1>3, <1>4, <1>5, <1>6, <1>7, <1>8

(* An input of a gadget is connected to one wire.                          *)
LEMMA OneGadgetSink ==
    ASSUME Planned, NEW p \in DOMAIN plan, NEW w \in WiresAt(p), NEW q \in DOMAIN plan,
           NEW v \in WiresAt(q), NEW g \in GadgetSinks(p, w), g \in GadgetSinks(q, v)
    PROVE  p = q /\ w = v
<1>1. PICK k \in Parts(p) : \E d \in DOMAIN input_ports(built, Inst(p, k)) :
                                IsGadgetSink(p, w, k, d, g)
  BY GadgetSinkIs
<1>2. PICK d \in DOMAIN input_ports(built, Inst(p, k)) : IsGadgetSink(p, w, k, d, g)
  BY <1>1
<1>3. PICK l \in Parts(q) : \E e \in DOMAIN input_ports(built, Inst(q, l)) :
                                IsGadgetSink(q, v, l, e, g)
  BY GadgetSinkIs
<1>4. PICK e \in DOMAIN input_ports(built, Inst(q, l)) : IsGadgetSink(q, v, l, e, g)
  BY <1>3
<1>5. SinkPlace(p, k, d) = <<g[1], InputWire(g[1], g[2])>>
  BY <1>2 DEF IsGadgetSink, SinkPlace
<1>6. SinkPlace(q, l, e) = <<g[1], InputWire(g[1], g[2])>>
  BY <1>4 DEF IsGadgetSink, SinkPlace
<1>7. Gives(p, w, SinkPlace(p, k, d))
  BY <1>2 DEF IsGadgetSink, Gives, Parts
<1>8. Gives(q, v, SinkPlace(p, k, d))
  BY <1>4, <1>5, <1>6 DEF IsGadgetSink, Gives, Parts
<1> QED
  BY <1>7, <1>8, OneSource

(* Every wire that is checked, and every input of a gadget, has a value.   *)
LEMMA SeenValued ==
    ASSUME Planned, NEW D, AllValued(D), NEW p \in DOMAIN plan, NEW w \in WiresAt(p),
           NEW c \in Seen(p, w)
    PROVE  <<c[1], IF c[1] = p THEN w ELSE InputWire(c[1], c[2])>> \in D
<1>1. CASE c = <<p, w>>
  BY <1>1 DEF AllValued
<1>2. CASE c \in GadgetSinks(p, w)
  <2>1. c[1] # p /\ <<c[1], InputWire(c[1], c[2])>> \in Sinks(<<p, w>>)
    BY <1>2, GadgetSinkIs
  <2>2. <<p, w>> \in D /\ SpreadOver(D)
    BY DEF AllValued
  <2> QED
    BY <2>1, <2>2 DEF SpreadOver
<1> QED
  BY <1>1, <1>2 DEF Seen

(* A check counts once more each place it passes.                          *)
LEMMA CountsAre ==
    ASSUME NEW C, \A c \in DOMAIN C : C[c] \in Nat \ {0}, NEW p, NEW w
    PROVE  LET C1 == CheckedWith(C, p, w)
           IN  /\ \A c \in DOMAIN C1 : C1[c] \in Nat \ {0}
               /\ \A c : CountIn(C1, c) = IF c \in Seen(p, w) THEN CountIn(C, c) + 1 ELSE CountIn(C, c)
<1> DEFINE S == Seen(p, w)
           C1 == CheckedWith(C, p, w)
<1>1. \A c : CountIn(C, c) \in Nat
  BY DEF CountIn
<1>2. C1 = [c \in S \cup DOMAIN C |-> IF c \in S THEN CountIn(C, c) + 1 ELSE C[c]]
  BY DEF CheckedWith
<1> HIDE DEF C1, S
<1>3. \A c \in DOMAIN C1 : C1[c] \in Nat \ {0}
  BY <1>1, <1>2
<1>4. ASSUME NEW c
      PROVE  CountIn(C1, c) = IF c \in S THEN CountIn(C, c) + 1 ELSE CountIn(C, c)
  BY <1>2 DEF CountIn
<1> QED
  BY <1>3, <1>4 DEF C1, S

(* How often wires are to be checked as they are dealt with.               *)
LEMMA OnceMoves ==
    ASSUME Planned, NEW pos, NEW q, Positioned(pos, q), NEW p \in DOMAIN plan,
           NEW at, NextAt(p, pos[p], at), NEW x \in DOMAIN plan, NEW j \in 1..Len(Found(x))
    PROVE  LET pos1 == [pos EXCEPT ![p] = at]
           IN  IF x = p /\ j = at THEN Once(pos, x, j) = 0 /\ Once(pos1, x, j) = 1
               ELSE Once(pos1, x, j) = Once(pos, x, j)
<1> DEFINE pos1 == [pos EXCEPT ![p] = at]
<1>1. pos \in [DOMAIN plan -> Nat]
  BY DEF Positioned
<1>2. pos1[x] = IF x = p THEN at ELSE pos[x]
  BY <1>1
<1>3. /\ at \in (pos[p] + 1)..Len(Found(p)) /\ at \in Nat \ {0} /\ pos[p] \in Nat
      /\ OnlyInputs(p, pos[p], at - 1) /\ Len(Found(p)) \in Nat /\ Found(p)[at] \notin InputsAt(p)
  BY <1>1, FlowAt DEF NextAt
<1> HIDE DEF pos1
<1>4. CASE x # p
  BY <1>2, <1>4 DEF Once, pos1
<1>5. CASE x = p /\ j = at
  <2>1. at <= at /\ ~(at <= pos[p])
    BY <1>3
  <2> QED
    BY <1>2, <1>3, <1>5, <2>1 DEF Once, pos1
<1>6. CASE x = p /\ j # at
  <2>1. j \in Nat
    BY <1>3, <1>6
  <2>2. CASE j <= pos[p]
    <3>1. j <= at
      BY <1>3, <2>1, <2>2
    <3> QED
      BY <1>2, <1>6, <2>2, <3>1 DEF Once, pos1
  <2>3. CASE j > at
    <3>1. ~(j <= at) /\ ~(j <= pos[p])
      BY <1>3, <2>1, <2>3
    <3> QED
      BY <1>2, <1>6, <3>1 DEF Once, pos1
  <2>4. CASE j > pos[p] /\ j < at
    <3>1. j \in (pos[p] + 1)..(at - 1)
      BY <1>3, <2>1, <2>4
    <3>2. Found(p)[j] \in InputsAt(p)
      BY <1>3, <3>1 DEF OnlyInputs
    <3> QED
      BY <1>6, <3>2 DEF Once, pos1
  <2>5. j <= pos[p] \/ j > at \/ (j > pos[p] /\ j < at)
    BY <1>3, <1>6, <2>1
  <2> QED
    BY <2>2, <2>3, <2>4, <2>5
<1> QED
  BY <1>4, <1>5, <1>6 DEF pos1

(* Passing inputs checks nothing.                                          *)
LEMMA OncePassed ==
    ASSUME Planned, NEW pos, NEW q, Positioned(pos, q), NEW p \in DOMAIN plan, NEW to \in Nat,
           pos[p] <= to, OnlyInputs(p, pos[p], to), NEW x \in DOMAIN plan, NEW j \in 1..Len(Found(x))
    PROVE  Once([pos EXCEPT ![p] = to], x, j) = Once(pos, x, j)
<1> DEFINE pos1 == [pos EXCEPT ![p] = to]
<1>1. pos \in [DOMAIN plan -> Nat]
  BY DEF Positioned
<1>2. pos1[x] = (IF x = p THEN to ELSE pos[x]) /\ pos[p] \in Nat /\ Len(Found(x)) \in Nat
  BY <1>1, FlowAt
<1> HIDE DEF pos1
<1>3. CASE x # p
  BY <1>2, <1>3 DEF Once, pos1
<1>4. CASE x = p
  <2>1. j \in Nat
    BY <1>2
  <2>2. CASE j > pos[p] /\ j <= to
    <3>1. j \in (pos[p] + 1)..to
      BY <1>2, <2>1, <2>2
    <3>2. Found(p)[j] \in InputsAt(p)
      BY <3>1 DEF OnlyInputs
    <3> QED
      BY <1>4, <3>2 DEF Once, pos1
  <2>3. CASE ~(j > pos[p] /\ j <= to)
    <3>1. j <= to <=> j <= pos[p]
      BY <1>2, <2>1, <2>3
    <3> QED
      BY <1>2, <1>4, <3>1 DEF Once, pos1
  <2> QED
    BY <2>2, <2>3
<1> QED
  BY <1>3, <1>4 DEF pos1

(* A wire that is checked, with the gadgets that are connected to it, is   *)
(* one that was not checked before.                                        *)
LEMMA ChecksAdvance ==
    ASSUME Planned, NEW pos, NEW q, Positioned(pos, q), NEW C, ChecksFit(pos, C),
           NEW p \in DOMAIN plan, p = Root \/ ~IsGadgetAt(p), NEW at, NextAt(p, pos[p], at)
    PROVE  ChecksFit([pos EXCEPT ![p] = at], CheckedWith(C, p, Found(p)[at]))
<1> DEFINE w == Found(p)[at]
           C1 == CheckedWith(C, p, w)
           pos1 == [pos EXCEPT ![p] = at]
<1>1. \A c \in DOMAIN C : C[c] \in Nat \ {0}
  BY DEF ChecksFit
<1>2. /\ \A c \in DOMAIN C1 : C1[c] \in Nat \ {0}
      /\ \A c : CountIn(C1, c) = IF c \in Seen(p, w) THEN CountIn(C, c) + 1 ELSE CountIn(C, c)
  BY <1>1, CountsAre
<1>3. w \in WiresAt(p)
  BY DEF NextAt
<1>4. \A g \in GadgetSinks(p, w) : g[1] # Root /\ IsGadgetAt(g[1])
  BY <1>3, GadgetSinkIs
<1>5. \A x \in DOMAIN plan : \A j \in 1..Len(Found(x)) :
         IF x = p /\ j = at THEN Once(pos, x, j) = 0 /\ Once(pos1, x, j) = 1
         ELSE Once(pos1, x, j) = Once(pos, x, j)
  BY OnceMoves
<1> HIDE DEF C1, pos1
<1>6. ASSUME NEW x \in DOMAIN plan, NEW j \in 1..Len(Found(x))
      PROVE  /\ x = Root \/ ~IsGadgetAt(x) => CountIn(C1, <<x, Found(x)[j]>>) = Once(pos1, x, j)
             /\ \A g \in GadgetSinks(x, Found(x)[j]) : CountIn(C1, g) = Once(pos1, x, j)
  <2> DEFINE v == Found(x)[j]
  <2>1. v \in WiresAt(x)
    BY <1>6, FlowAt
  <2>2. /\ x = Root \/ ~IsGadgetAt(x) => CountIn(C, <<x, v>>) = Once(pos, x, j)
        /\ \A g \in GadgetSinks(x, v) : CountIn(C, g) = Once(pos, x, j)
    BY <1>6 DEF ChecksFit
  <2>3. \A g \in GadgetSinks(x, v) : g[1] # Root /\ IsGadgetAt(g[1])
    BY <2>1, GadgetSinkIs
  <2>4. x = p /\ v = w => j = at
    <3>1. at \in 1..Len(Found(p))
      BY FlowAt DEF NextAt, Positioned
    <3> QED
      BY <1>6, <3>1, FlowAt DEF Flow, Distinct, Found
  <2> HIDE DEF v
  <2>5. CASE x = p /\ j = at
    <3>1. v = w /\ Once(pos, x, j) = 0 /\ Once(pos1, x, j) = 1
      BY <1>5, <1>6, <2>5 DEF v
    <3>2. <<x, v>> \in Seen(p, w) /\ \A g \in GadgetSinks(x, v) : g \in Seen(p, w)
      BY <2>5, <3>1 DEF Seen
    <3> QED
      BY <1>2, <2>2, <3>1, <3>2 DEF v
  <2>6. CASE ~(x = p /\ j = at)
    <3>1. Once(pos1, x, j) = Once(pos, x, j)
      BY <1>5, <1>6, <2>6
    <3>2. x = Root \/ ~IsGadgetAt(x) => <<x, v>> \notin Seen(p, w)
      <4>1. <<x, v>> # <<p, w>>
        BY <2>4, <2>6
      <4>2. <<x, v>>[1] = x
        OBVIOUS
      <4> QED
        BY <1>4, <4>1, <4>2 DEF Seen
    <3>3. ASSUME NEW g \in GadgetSinks(x, v)
          PROVE  g \notin Seen(p, w)
      <4>1. g # <<p, w>>
        <5>1. <<p, w>>[1] = p
          OBVIOUS
        <5> QED
          BY <2>3, <5>1
      <4>2. g \notin GadgetSinks(p, w)
        BY <1>3, <2>1, <2>4, <2>6, OneGadgetSink DEF v
      <4> QED
        BY <4>1, <4>2 DEF Seen
    <3> QED
      BY <1>2, <2>2, <3>1, <3>2, <3>3 DEF v
  <2> QED
    BY <2>5, <2>6
<1>7. \A x \in DOMAIN plan : \A j \in 1..Len(Found(x)) :
         /\ x = Root \/ ~IsGadgetAt(x) => CountIn(C1, <<x, Found(x)[j]>>) = Once(pos1, x, j)
         /\ \A g \in GadgetSinks(x, Found(x)[j]) : CountIn(C1, g) = Once(pos1, x, j)
  BY <1>6
<1> QED
  BY <1>2, <1>7 DEF ChecksFit, C1, pos1

(* Passing inputs keeps the counts of the checks right.                    *)
LEMMA ChecksPassed ==
    ASSUME Planned, NEW pos, NEW q, Positioned(pos, q), NEW C, ChecksFit(pos, C),
           NEW p \in DOMAIN plan, NEW to \in Nat, pos[p] <= to, OnlyInputs(p, pos[p], to)
    PROVE  ChecksFit([pos EXCEPT ![p] = to], C)
<1> DEFINE pos1 == [pos EXCEPT ![p] = to]
<1>1. \A x \in DOMAIN plan : \A j \in 1..Len(Found(x)) : Once(pos1, x, j) = Once(pos, x, j)
  BY OncePassed
<1> HIDE DEF pos1
<1> QED
  BY <1>1, Zenon DEF ChecksFit, pos1

(* Before the checks all counts are zero.                                  *)
LEMMA ChecksBegin ==
    ASSUME Planned
    PROVE  ChecksFit(Zeros, <<>>)
<1>1. \A c : CountIn(<<>>, c) = 0
  <2>1. DOMAIN <<>> = {}
    OBVIOUS
  <2> QED
    BY <2>1 DEF CountIn
<1>2. ASSUME NEW x \in DOMAIN plan, NEW j \in 1..Len(Found(x))
      PROVE  Once(Zeros, x, j) = 0
  <2>1. Zeros[x] = 0 /\ Len(Found(x)) \in Nat
    BY FlowAt DEF Zeros
  <2>2. ~(j <= 0)
    BY <2>1
  <2> QED
    BY <2>1, <2>2 DEF Once
<1>3. DOMAIN <<>> = {}
  OBVIOUS
<1> QED
  BY <1>1, <1>2, <1>3 DEF ChecksFit

(* After the checks.                                                       *)
LEMMA CheckedWhenEnded ==
    ASSUME Planned, NEW pos, NEW q, Positioned(pos, q), NEW C, ChecksFit(pos, C),
           NEW p \in DOMAIN plan, ~IsGadgetAt(p), Ended(q, p), NEW w \in WiresAt(p)
    PROVE  LET once == IF w \in InputsAt(p) THEN 0 ELSE 1
           IN  CountIn(C, <<p, w>>) = once /\ \A g \in GadgetSinks(p, w) : CountIn(C, g) = once
<1>1. pos[p] = Len(Found(p))
  BY DEF Positioned
<1>2. Range(Found(p)) = WiresAt(p) /\ DOMAIN Found(p) = 1..Len(Found(p)) /\ Len(Found(p)) \in Nat
  BY FlowAt DEF Flow, Found, WiresAt
<1>3. PICK j \in 1..Len(Found(p)) : Found(p)[j] = w
  BY <1>2 DEF Range
<1>4. Once(pos, p, j) = IF w \in InputsAt(p) THEN 0 ELSE 1
  BY <1>1, <1>2, <1>3 DEF Once
<1>5. CountIn(C, <<p, Found(p)[j]>>) = Once(pos, p, j)
  BY <1>3 DEF ChecksFit
<1>6. \A g \in GadgetSinks(p, Found(p)[j]) : CountIn(C, g) = Once(pos, p, j)
  BY <1>3 DEF ChecksFit
<1> QED
  BY <1>3, <1>4, <1>5, <1>6

-----------------------------------------------------------------------------
(* Evaluation does not change the evaluators: what is so of them stays so. *)
Frozen == plan' = plan /\ built' = built /\ design' = design

(* While the plan stays, so do the evaluators on their paths,              *)
LEMMA PathsStay ==
    ASSUME Frozen, NEW p
    PROVE  /\ ModAt(p)' = ModAt(p) /\ Found(p)' = Found(p) /\ Ends(p)' = Ends(p)
           /\ IsGadgetAt(p)' = IsGadgetAt(p) /\ InGadget(p)' = InGadget(p)
           /\ Parts(p)' = Parts(p) /\ WiresAt(p)' = WiresAt(p) /\ InputsAt(p)' = InputsAt(p)
BY DEF Frozen, ModAt, Found, Ends, PathOrders, IsGadgetAt, IsGadgetName, InGadget, Parts, Inst,
       WiresAt, InputsAt

(* the places their wires feed,                                            *)
LEMMA WiresStay ==
    ASSUME Frozen, NEW p
    PROVE  /\ Sinks(p)' = Sinks(p)
           /\ \A i : InputWire(p, i)' = InputWire(p, i) /\ Inst(p, i)' = Inst(p, i)
           /\ \A k : QueriedWire(p, k)' = QueriedWire(p, k)
           /\ \A w : GadgetSinks(p, w)' = GadgetSinks(p, w)
<1>1. /\ Sinks(p)' = Sinks(p)
      /\ \A i : InputWire(p, i)' = InputWire(p, i) /\ Inst(p, i)' = Inst(p, i)
  BY DEF Frozen, Sinks, ModAt, Inst, InputWire
<1>2. \A k : QueriedWire(p, k)' = QueriedWire(p, k)
  BY DEF Frozen, QueriedWire, OutWires, ModAt
<1>3. \A w : GadgetSinks(p, w)' = GadgetSinks(p, w)
  BY DEF Frozen, GadgetSinks, ModAt, Inst, IsGadgetAt, IsGadgetName
<1> QED
  BY <1>1, <1>2, <1>3

(* what was proved of their modules,                                       *)
LEMMA FactsStay ==
    ASSUME Frozen, NEW m
    PROVE  Facts(m)' <=> Facts(m)
<1>1. \A k : Submodules(k)' = Submodules(k)
  BY DEF Frozen, Submodules, Cells, YM
<1>2. InstancesFit(m)' <=> InstancesFit(m)
  BY <1>1 DEF Frozen, InstancesFit
<1> QED
  BY <1>2 DEF Frozen, Facts

(* and that the plan is right.                                             *)
LEMMA PlannedStays ==
    ASSUME Planned, Frozen
    PROVE  Planned'
<1>1. Names' = Names
  BY DEF Frozen, Names
<1>2. ASSUME NEW p \in DOMAIN plan
      PROVE  PathFit(p)'
  <2>1. PathFit(p)
    BY <1>2 DEF Planned
  <2>2. /\ ModAt(p)' = ModAt(p) /\ Parts(p)' = Parts(p) /\ PathOrders(p)' = PathOrders(p)
        /\ \A q : Parts(q)' = Parts(q)
        /\ \A i : Inst(p, i)' = Inst(p, i)
    BY PathsStay, WiresStay DEF Frozen, PathOrders, ModAt
  <2>3. Facts(plan[p].module)'
    <3>1. Facts(plan[p].module)
      BY <2>1 DEF PathFit
    <3> DEFINE m == plan[p].module
    <3>2. PICK k : k = m
      OBVIOUS
    <3>3. Facts(k)'
      BY <3>1, <3>2, FactsStay
    <3>4. k = plan'[p].module
      BY <3>2 DEF Frozen
    <3> QED
      BY <3>3, <3>4
  <2>4. IdsNest(p)'
    BY <2>1, <2>2 DEF Frozen, IdsNest, PathFit
  <2>5. \A i \in Parts(p)' : IsPart(p, i)'
    <3>1. ASSUME NEW e, NEW m, NEW queries
          PROVE  Answers(e, m, queries)' <=> Answers(e, m, queries)
      BY DEF Frozen, Answers
    <3>2. ASSUME NEW i \in Parts(p), IsPart(p, i)
          PROVE  IsPart(p, i)'
      <4> DEFINE q == Append(p, i)
      <4>1. PICK e : e = plan[q]
        OBVIOUS
      <4>2. PICK m : m = Inst(p, i).type
        OBVIOUS
      <4>3. PICK a : a = plan[p].queries[i]
        OBVIOUS
      <4>4. Answers(e, m, a)'
        BY <3>1, <3>2, <4>1, <4>2, <4>3 DEF IsPart
      <4>5. e = plan'[q] /\ a = plan'[p].queries[i] /\ m = Inst(p, i)'.type
        BY <2>2, <4>1, <4>2, <4>3 DEF Frozen
      <4>6. Answers(plan[q], Inst(p, i).type, plan[p].queries[i])'
        BY <4>4, <4>5
      <4>7. q \in DOMAIN plan' /\ plan'[q].ginst = plan'[p].ids[i].from
        BY <3>2 DEF Frozen, IsPart
      <4>8. q # Root /\ q \in Seq(Nat) /\ Len(q) = Len(p) + 1
        BY <3>2 DEF IsPart
      <4> QED
        BY <4>6, <4>7, <4>8 DEF IsPart
    <3> QED
      BY <2>1, <2>2, <3>2 DEF PathFit
  <2>6. Flow(ModAt(p)', plan'[p], PathOrders(p)')
    BY <2>1, <2>2 DEF Frozen, PathFit
  <2>7. p = Root \/ \E q \in DOMAIN plan' : \E i \in Parts(q)' : p = Append(q, i)
    BY <2>1, <2>2 DEF Frozen, PathFit
  <2>8. /\ p \in Seq(Nat) /\ Len(p) \in Nat /\ Len(p) < Cardinality(Names')
        /\ plan'[p].module \in DOMAIN built' /\ plan'[p].ginst \in Nat
        /\ DOMAIN ModAt(p)'.instances = 1..Len(ModAt(p)'.instances)
        /\ Len(ModAt(p)'.instances) \in Nat
    BY <1>1, <2>1, <2>2 DEF Frozen, PathFit
  <2> QED
    BY <2>3, <2>4, <2>5, <2>6, <2>7, <2>8 DEF PathFit
<1>3. \A p \in DOMAIN plan' : PathFit(p)'
  BY <1>2 DEF Frozen
<1> QED
  BY <1>1, <1>3 DEF Frozen, Planned

(* While the plan stays, a frame that fits still does,                     *)
LEMMA FrameFitsStays ==
    ASSUME Frozen, NEW f, NEW pos, NEW q, NEW ph
    PROVE  FrameFits(f, pos, q, ph)' <=> FrameFits(f, pos, q, ph)
<1> DEFINE p == f.path
<1>1. /\ ModAt(p)' = ModAt(p) /\ Found(p)' = Found(p) /\ Ends(p)' = Ends(p)
      /\ Parts(p)' = Parts(p) /\ WiresAt(p)' = WiresAt(p) /\ InputsAt(p)' = InputsAt(p)
      /\ \A x : IsGadgetAt(x)' = IsGadgetAt(x)
  BY PathsStay
<1>2. \A todo, from, to : TodoFits(p, todo, from, to)' <=> TodoFits(p, todo, from, to)
  BY <1>1 DEF TodoFits
<1>3. \A s : (Ended(q, s)' <=> Ended(q, s)) /\ (EntersAt(ph, s)' <=> EntersAt(ph, s))
  BY <1>1 DEF Frozen, Ended, EntersAt
<1>4. \A todo : PartsLeft(q, ph, p, todo)' <=> PartsLeft(q, ph, p, todo)
  BY <1>1, <1>3 DEF PartsLeft
<1>5. plan'[p] = plan[p]
  BY DEF Frozen
<1> QED
  BY <1>1, <1>2, <1>3, <1>4, <1>5 DEF FrameFits

(* an evaluation in order still is,                                        *)
LEMMA TraversedStays ==
    ASSUME Frozen, NEW s, NEW pos, NEW q, NEW ph, Traversed(s, pos, q, ph)
    PROVE  Traversed(s, pos, q, ph)'
<1>1. \A p : /\ ModAt(p)' = ModAt(p) /\ Found(p)' = Found(p) /\ Ends(p)' = Ends(p)
             /\ Parts(p)' = Parts(p) /\ IsGadgetAt(p)' = IsGadgetAt(p)
  BY PathsStay
<1>2. \A p : (Ended(q, p)' <=> Ended(q, p)) /\ (EntersAt(ph, p)' <=> EntersAt(ph, p))
  BY <1>1 DEF Frozen, Ended, EntersAt
<1>3. Positioned(pos, q)'
  BY <1>1, <1>2 DEF Frozen, Traversed, Positioned
<1>4. Counted(pos, q, ph)'
  BY <1>1, <1>2 DEF Frozen, Traversed, Counted, CountOf
<1>5. StackFits(s, pos, q, ph)'
  <2>1. Frames' = Frames
    BY DEF Frozen, Frames
  <2>2. \A f, g : Calls(f, g, ph)' <=> Calls(f, g, ph)
    BY <1>1, <1>2 DEF Calls, Queries
  <2>3. \A f : FrameFits(f, pos, q, ph)' <=> FrameFits(f, pos, q, ph)
    BY FrameFitsStays
  <2> QED
    BY <2>1, <2>2, <2>3 DEF Traversed, StackFits
<1>6. IdleFits(s, pos, q)'
  BY <1>1, <1>2 DEF Frozen, Traversed, IdleFits, OnStack
<1>7. EndsFit(s, q, ph)'
  BY <1>1, <1>2 DEF Frozen, Traversed, EndsFit, Awaited, Awaits, Starts
<1> QED
  BY <1>3, <1>4, <1>5, <1>6, <1>7 DEF Traversed

(* and the values and the counts are still right.                          *)
LEMMA MarkedStays ==
    ASSUME Frozen, NEW s, NEW pos, NEW q, NEW ph, NEW D, NEW C, Marked(s, pos, q, ph, D, C)
    PROVE  Marked(s, pos, q, ph, D, C)'
<1>1. \A p : /\ ModAt(p)' = ModAt(p) /\ Found(p)' = Found(p) /\ WiresAt(p)' = WiresAt(p)
             /\ InputsAt(p)' = InputsAt(p) /\ IsGadgetAt(p)' = IsGadgetAt(p)
  BY PathsStay
<1>2. \A p : /\ Sinks(p)' = Sinks(p) /\ \A i : InputWire(p, i)' = InputWire(p, i)
             /\ \A k : QueriedWire(p, k)' = QueriedWire(p, k)
             /\ \A w : GadgetSinks(p, w)' = GadgetSinks(p, w)
  BY WiresStay
<1>3. SpreadOver(D)' <=> SpreadOver(D)
  BY <1>1, <1>2 DEF Frozen, SpreadOver
<1>4. Computed(pos, D)' <=> Computed(pos, D)
  BY <1>1 DEF Frozen, Computed
<1>5. \A p : /\ InputsIn(p, D)' <=> InputsIn(p, D)
             /\ \A i : InputIn(p, i, D)' <=> InputIn(p, i, D)
             /\ \A k : QueryInputsIn(p, k, D)' <=> QueryInputsIn(p, k, D)
  BY <1>1, <1>2 DEF InputsIn, InputIn, QueryInputsIn
<1>6. \A f : FrameInputs(f, q, D)' <=> FrameInputs(f, q, D)
  BY <1>1, <1>5 DEF FrameInputs
<1>7. \A p : Ended(q, p)' <=> Ended(q, p)
  BY DEF Frozen, Ended
<1>8. Valued(s, pos, q, D)' <=> Valued(s, pos, q, D)
  BY <1>3, <1>4, <1>5, <1>6, <1>7 DEF Frozen, Valued
<1>9. AllValued(D)' <=> AllValued(D)
  BY <1>1, <1>3 DEF Frozen, AllValued
<1>10. ChecksFit(pos, C)' <=> ChecksFit(pos, C)
  <2>1. \A p, j : Once(pos, p, j)' = Once(pos, p, j)
    BY <1>1 DEF Once
  <2> QED
    BY <1>1, <1>2, <2>1 DEF Frozen, ChecksFit
<1> QED
  BY <1>8, <1>9, <1>10 DEF Marked

(* A step that keeps the plan goes on if what it leaves is in order.       *)
LEMMA GoesOn ==
    ASSUME Frozen, NEW s, s = stack', NEW pos, NEW q, q = query_id', NEW ph, ph = phase',
           NEW D, D = DOMAIN place', NEW C, C = checks',
           Traversed(s, pos, q, ph), panic' = None => Marked(s, pos, q, ph, D, C)
    PROVE  Going(pos)'
<1>1. Traversed(s, pos, q, ph)'
  BY TraversedStays
<1>2. panic' = None => Marked(s, pos, q, ph, D, C)'
  BY MarkedStays
<1>3. Traversed(stack, pos, query_id, phase)'
  BY <1>1
<1>4. panic' = None => Marked(stack, pos, query_id, phase, DOMAIN place, checks)'
  BY <1>2
<1> QED
  BY <1>3, <1>4 DEF Going

-----------------------------------------------------------------------------
(* A step of the evaluation, or of the checks.                             *)
Kept ==
    /\ Frozen /\ phase' \in {"eval", "check", "over"}
    /\ phase' = "eval" => checks' = <<>>
    /\ panic' # None => phase' = "eval" /\ Excused(panic')
    /\ \E pos : Going(pos)'

(* What is so before it: f is the innermost call, D has the values.        *)
Now(pos, stk, f, q, D) ==
    /\ Planned /\ Traversed(stk, pos, q, phase) /\ panic = None
    /\ stk = stack /\ f = Last(stack) /\ q = query_id /\ D = DOMAIN place
    /\ stk # <<>> /\ stk \in Seq(Frames) /\ f = stk[Len(stk)] /\ f \in Frames
    /\ Len(stk) \in Nat \ {0} /\ Len(stk) \in 1..Len(stk) /\ f.path \in DOMAIN plan
    /\ Positioned(pos, q) /\ Counted(pos, q, phase) /\ StackFits(stk, pos, q, phase)
    /\ FrameFits(f, pos, q, phase)
    /\ \/ phase = "eval" /\ Valued(stk, pos, q, D) /\ checks = <<>>
       \/ phase = "check" /\ AllValued(D) /\ ChecksFit(pos, checks)

(* While the evaluation runs, its top frame is at some position.           *)
LEMMA NowIs ==
    ASSUME EvalInv, Evaluating, Running
    PROVE  \E pos, stk, f, q, D : Now(pos, stk, f, q, D)
<1>1. PICK pos : Going(pos)
  BY DEF EvalInv
<1>2. PICK stk : stk = stack
  OBVIOUS
<1>3. PICK f : f = Last(stack)
  OBVIOUS
<1>4. PICK q : q = query_id
  OBVIOUS
<1>5. PICK D : D = DOMAIN place
  OBVIOUS
<1>6. /\ Planned /\ Traversed(stk, pos, q, phase) /\ panic = None /\ stk # <<>>
      /\ Marked(stk, pos, q, phase, D, checks)
  BY <1>1, <1>2, <1>4, <1>5 DEF EvalInv, Going, Running
<1>7. /\ Positioned(pos, q) /\ Counted(pos, q, phase) /\ StackFits(stk, pos, q, phase)
      /\ stk \in Seq(Frames)
  BY <1>6 DEF Traversed, StackFits
<1>8. Len(stk) \in Nat \ {0} /\ f = stk[Len(stk)]
  BY <1>2, <1>3, <1>6, <1>7 DEF Last
<1>9. Len(stk) \in 1..Len(stk)
  BY <1>8
<1>10. f \in Frames /\ f.path \in DOMAIN plan /\ FrameFits(f, pos, q, phase)
  BY <1>6, <1>7, <1>8, <1>9, StackIs
<1>11. phase # "over" /\ phase \in {"eval", "check", "over"}
  BY <1>6 DEF Marked, Evaluating
<1>12. \/ phase = "eval" /\ Valued(stk, pos, q, D) /\ checks = <<>>
       \/ phase = "check" /\ AllValued(D) /\ ChecksFit(pos, checks)
  BY <1>6, <1>11 DEF Marked
<1>13. Now(pos, stk, f, q, D)
  BY <1>2, <1>3, <1>4, <1>5, <1>6, <1>7, <1>8, <1>9, <1>10, <1>12 DEF Now
<1> QED
  BY <1>13

(* The step keeps the invariant when the traversal goes on.                *)
LEMMA KeptIs ==
    ASSUME Frozen, NEW s, s = stack', NEW pos, NEW q, q = query_id', NEW ph, ph = phase',
           NEW D, D = DOMAIN place', NEW C, C = checks', ph \in {"eval", "check", "over"},
           ph = "eval" => C = <<>>,
           Traversed(s, pos, q, ph), panic' = None => Marked(s, pos, q, ph, D, C),
           panic' # None => ph = "eval" /\ Excused(panic')
    PROVE  Kept
<1>1. Going(pos)'
  BY GoesOn
<1> QED
  BY <1>1 DEF Kept

(* A frame with its first element to do removed.                           *)
LEMMA RestIs ==
    ASSUME NEW f \in Frames, f.todo # <<>>, NEW r, r = [f EXCEPT !.todo = Tail(@)]
    PROVE  r \in Frames /\ IsRest(r, f)
<1>1. Tail(f.todo) \in Seq(Nat)
  BY DEF Frames
<1> QED
  BY <1>1 DEF Frames, IsRest

(* A sequence of numbers of a set of them.                                 *)
LEMMA NatSeq ==
    ASSUME NEW S, S \subseteq Nat, NEW s \in Seq(S)
    PROVE  s \in Seq(Nat)
<1>1. /\ Len(s) \in Nat /\ DOMAIN s = 1..Len(s) /\ \A i \in 1..Len(s) : s[i] \in Nat
      /\ s = [i \in DOMAIN s |-> s[i]]
  OBVIOUS
<1>2. s \in [1..Len(s) -> Nat]
  BY <1>1
<1> QED
  BY <1>1, <1>2, FunctionIsSeq

(* The frame that finishes an instance.                                    *)
LEMMA FinishIs ==
    ASSUME Planned, NEW s \in DOMAIN plan, NEW g, g = Finish(s)
    PROVE  g \in Frames /\ IsFinish(g, s)
<1>1. plan[s].finish \in Seq(WiresAt(s)) /\ WiresAt(s) \subseteq Nat
  BY FlowAt, ListsAre DEF Flow, WiresAt
<1>2. plan[s].finish \in Seq(Nat)
  BY <1>1, NatSeq
<1> QED
  BY <1>2 DEF Finish, Frame, Frames, IsFinish

(* A wire that has no value is set.                                        *)
LEMMA SetIs ==
    ASSUME Planned, panic = None, NEW D, D = DOMAIN place, SpreadOver(D), NEW p, NEW w,
           Settable(D, p, w), NEW v, Set(p, w, v)
    PROVE  panic' = None /\ DOMAIN place' = PutIn(D, p, w)
<1>1. \A y \in Fanout(p, w) : y \notin DOMAIN place
  BY NoneHasValue
<1> DEFINE new == Fanout(p, w) \cup {<<p, w>>}
<1>2. /\ place' = [y \in new \cup DOMAIN place |-> IF y \in new THEN v ELSE place[y]]
      /\ panic' = panic
  BY <1>1 DEF Set
<1>3. DOMAIN place' = new \cup DOMAIN place
  BY <1>2
<1> QED
  BY <1>2, <1>3 DEF PutIn

-----------------------------------------------------------------------------
(* The inputs of the top-level module.                                     *)
LEMMA SetInputKeeps ==
    ASSUME EvalInv, Evaluating, SetInput
    PROVE  Kept
<1>1. /\ Running /\ Call.mode = "inputs" /\ Call.todo # <<>>
      /\ Set(Root, InputWire(Root, Head1), Term("input", <<Head1>>, <<>>))
      /\ stack' = Append(Front(stack), [Call EXCEPT !.todo = Tail(@)])
      /\ UNCHANGED <<plan, query_id, checks, design, phase, built>>
  BY DEF SetInput, Mode, Replace, Rest, buildVars
<1>2. PICK pos, stk, f, q, D : Now(pos, stk, f, q, D)
  BY <1>1, NowIs
<1>3. /\ Planned /\ Traversed(stk, pos, q, phase) /\ panic = None /\ stk = stack /\ f = Call
      /\ q = query_id /\ D = DOMAIN place /\ stk # <<>> /\ stk \in Seq(Frames)
      /\ f = stk[Len(stk)] /\ f \in Frames /\ StackFits(stk, pos, q, phase)
  BY <1>2 DEF Now, Call
<1>4. phase = "eval"
  BY <1>1, <1>3, InputsFrame
<1>5. Valued(stk, pos, q, D) /\ checks = <<>>
  BY <1>2, <1>4 DEF Now
<1>6. PICK r : r = [f EXCEPT !.todo = Tail(@)]
  OBVIOUS
<1>7. r \in Frames /\ IsRest(r, f)
  BY <1>1, <1>3, <1>6, RestIs
<1>8. PICK new : new = stack'
  OBVIOUS
<1>9. new = Append(Front(stk), r)
  BY <1>1, <1>3, <1>6, <1>8
<1>10. new \in Seq(Frames) /\ IsReplaced(stk, new, r)
  BY <1>3, <1>7, <1>9, StackMoves
<1>11. Traversed(new, pos, q, phase)
  BY <1>1, <1>3, <1>7, <1>10, TakesInput
<1> DEFINE w == InputWire(Root, Head(f.todo))
<1>12. Settable(D, Root, w) /\ Valued(new, pos, q, PutIn(D, Root, w))
  BY <1>1, <1>3, <1>5, <1>7, <1>10, TakesInputValued
<1>13. panic' = None /\ DOMAIN place' = PutIn(D, Root, w)
  <2>1. Set(Root, w, Term("input", <<Head1>>, <<>>))
    BY <1>1, <1>3 DEF Head1
  <2>2. SpreadOver(D)
    BY <1>5 DEF Valued
  <2> QED
    BY <1>3, <1>12, <2>1, <2>2, SetIs
<1>14. Frozen /\ phase' = "eval" /\ query_id' = q /\ checks' = <<>>
  BY <1>1, <1>3, <1>4, <1>5 DEF Frozen
<1>15. Marked(new, pos, q, "eval", PutIn(D, Root, w), <<>>)
  BY <1>12 DEF Marked
<1> QED
  BY <1>4, <1>8, <1>11, <1>13, <1>14, <1>15, KeptIs

(* The end of the inputs keeps the evaluation right.                       *)
LEMMA EndInputsKeeps ==
    ASSUME EvalInv, Evaluating, EndInputs
    PROVE  Kept
<1>1. /\ Running /\ Call.mode = "inputs" /\ Call.todo = <<>>
      /\ query_id[Root] = Len(plan[Root].order) => UNCHANGED <<place, panic>>
      /\ stack' = Append(Front(stack), Finish(Root))
      /\ UNCHANGED <<plan, query_id, checks, design, phase, built>>
  BY DEF EndInputs, Mode, Replace, buildVars
<1>2. PICK pos, stk, f, q, D : Now(pos, stk, f, q, D)
  BY <1>1, NowIs
<1>3. /\ Planned /\ Traversed(stk, pos, q, phase) /\ panic = None /\ stk = stack /\ f = Call
      /\ q = query_id /\ D = DOMAIN place /\ stk # <<>> /\ stk \in Seq(Frames)
      /\ f = stk[Len(stk)] /\ f \in Frames /\ StackFits(stk, pos, q, phase)
  BY <1>2 DEF Now, Call
<1>4. phase = "eval" /\ AllCame(q, Root) /\ Root \in DOMAIN plan
  BY <1>1, <1>3, InputsFrame
<1>5. Valued(stk, pos, q, D) /\ checks = <<>>
  BY <1>2, <1>4 DEF Now
<1>6. PICK r : r = Finish(Root)
  OBVIOUS
<1>7. r \in Frames /\ IsFinish(r, Root)
  BY <1>3, <1>4, <1>6, FinishIs
<1>8. PICK new : new = stack'
  OBVIOUS
<1>9. new = Append(Front(stk), r)
  BY <1>1, <1>3, <1>6, <1>8
<1>10. new \in Seq(Frames) /\ IsReplaced(stk, new, r)
  BY <1>3, <1>7, <1>9, StackMoves
<1>11. Traversed(new, pos, q, phase)
  BY <1>1, <1>3, <1>7, <1>10, InputsEnd
<1>12. Valued(new, pos, q, D)
  BY <1>1, <1>3, <1>5, <1>7, <1>10, InputsEndValued
<1>13. panic' = None /\ DOMAIN place' = D
  BY <1>1, <1>3, <1>4 DEF AllCame
<1>14. Frozen /\ phase' = "eval" /\ query_id' = q /\ checks' = <<>>
  BY <1>1, <1>3, <1>4, <1>5 DEF Frozen
<1>15. Marked(new, pos, q, "eval", D, <<>>)
  BY <1>12 DEF Marked
<1> QED
  BY <1>4, <1>8, <1>11, <1>13, <1>14, <1>15, KeptIs

-----------------------------------------------------------------------------
(* A wire that a gate or a constant drives is evaluated.                   *)
LEMMA NextIs ==
    ASSUME NEW pos, NEW stk, NEW f, NEW q, NEW D, Now(pos, stk, f, q, D), Working(f)
    PROVE  \E at : IsNext(f, pos, q, at)
BY NextOf DEF Now

(* Evaluating a wire sets it once, or panics for an excused reason.        *)
LEMMA EvalWireKeeps ==
    ASSUME EvalInv, Evaluating, EvalWire
    PROVE  Kept
<1>1. /\ Running /\ Call.mode \in {"query", "finish"} /\ Call.todo # <<>>
      /\ phase = "eval" /\ ~IsModule(Source)
      /\ stack' = Append(Front(stack), [Call EXCEPT !.todo = Tail(@)])
      /\ UNCHANGED <<plan, query_id, checks, design, phase, built>>
  BY DEF EvalWire, InWires, Replace, Rest, buildVars
<1>2. PICK pos, stk, f, q, D : Now(pos, stk, f, q, D)
  BY <1>1, NowIs
<1>3. /\ Planned /\ Traversed(stk, pos, q, phase) /\ panic = None /\ stk = stack /\ f = Call
      /\ q = query_id /\ D = DOMAIN place /\ stk # <<>> /\ stk \in Seq(Frames)
      /\ f = stk[Len(stk)] /\ f \in Frames /\ Positioned(pos, q) /\ Len(stk) \in 1..Len(stk)
      /\ f.path \in DOMAIN plan
  BY <1>2 DEF Now, Call
<1>4. Valued(stk, pos, q, D) /\ checks = <<>>
  BY <1>1, <1>2 DEF Now
<1>5. Working(f)
  BY <1>1, <1>3 DEF Working
<1>6. PICK at : IsNext(f, pos, q, at)
  BY <1>2, <1>5, NextIs
<1>7. /\ SourceInst = Driving(f) /\ Source = Inst(f.path, Driving(f))
      /\ SubPath = Append(f.path, Driving(f))
  BY <1>3 DEF SourceInst, Source, SubPath, Driving, Head1
<1>8. ~AsksModule(f, phase)
  BY <1>1, <1>7 DEF AsksModule
<1>9. PICK r : r = [f EXCEPT !.todo = Tail(@)]
  OBVIOUS
<1>10. r \in Frames /\ IsRest(r, f)
  BY <1>1, <1>3, <1>9, RestIs
<1>11. PICK new : new = stack'
  OBVIOUS
<1>12. new = Append(Front(stk), r)
  BY <1>1, <1>3, <1>9, <1>11
<1>13. new \in Seq(Frames) /\ IsReplaced(stk, new, r)
  BY <1>3, <1>10, <1>12, StackMoves
<1> DEFINE pos1 == [pos EXCEPT ![f.path] = at]
           w == Head(f.todo)
<1>14. Traversed(new, pos1, q, phase)
  BY <1>3, <1>5, <1>6, <1>8, <1>10, <1>13, Advances
<1>15. Settable(D, f.path, w) /\ Valued(new, pos1, q, PutIn(D, f.path, w))
  BY <1>3, <1>4, <1>5, <1>6, <1>10, <1>13, AdvancesValued
<1>16. \E v : Set(f.path, w, v)
  <2> DEFINE n == IF Source.kind = "cell" THEN Len(GateOf(Source.type).deps) ELSE 0
             args == [k \in 1..n |-> <<SubPath, k>>]
             op == IF Source.kind = "clock" THEN "clock" ELSE Source.type
             id == IF op = "DFF" THEN SubPath ELSE <<>>
             v == Term(op, id, [k \in 1..n |-> place[args[k]]])
  <2>1. IF \E k \in 1..n : args[k] \notin DOMAIN place THEN Panic("unset")
        ELSE Set(Call.path, Head1, v)
    BY DEF EvalWire
  <2>2. ASSUME NEW k \in 1..n
        PROVE  <<SubPath, k>> \in D
    <3>1. CASE Source.kind = "cell"
      <4>1. FlowingAt(f, pos, q, D, at)
        BY <1>3, <1>4, <1>5, <1>6, FlowingIs
      <4>2. GateInputsIn(f.path, Driving(f), D)
        BY <1>1, <1>3, <1>7, <3>1, <4>1, GateReady
      <4>3. k \in 1..Len(GateOf(Source.type).deps)
        BY <3>1
      <4> QED
        BY <1>7, <4>2, <4>3 DEF GateInputsIn
    <3>2. CASE Source.kind # "cell"
      BY <3>2
    <3> QED
      BY <3>1, <3>2
  <2>3. \A k \in 1..n : args[k] \in DOMAIN place
    BY <1>3, <2>2
  <2> HIDE DEF n, args, v
  <2>4. Set(Call.path, Head1, v)
    BY <2>1, <2>3
  <2> QED
    BY <1>3, <2>4 DEF Head1
<1>17. panic' = None /\ DOMAIN place' = PutIn(D, f.path, w)
  <2>1. SpreadOver(D)
    BY <1>4 DEF Valued
  <2> QED
    BY <1>3, <1>15, <1>16, <2>1, SetIs
<1>18. Frozen /\ phase' = "eval" /\ query_id' = q /\ checks' = <<>>
  BY <1>1, <1>3, <1>4 DEF Frozen
<1>19. Marked(new, pos1, q, "eval", PutIn(D, f.path, w), <<>>)
  BY <1>15 DEF Marked
<1> QED
  BY <1>1, <1>11, <1>14, <1>17, <1>18, <1>19, KeptIs

-----------------------------------------------------------------------------
(* An output of a module is asked for.                                     *)
LEMMA QueryFrame ==
    ASSUME Planned, NEW p, NEW i, NEW q, NEW o, QueryComes(p, i, q, o),
           NEW g, g = Frame(Append(p, i), "query", plan[Append(p, i)].order[q[Append(p, i)] + 1].wires)
    PROVE  g \in Frames /\ IsQuery(g, p, i, q)
<1> DEFINE s == Append(p, i)
<1>1. s \in DOMAIN plan /\ q[s] + 1 \in DOMAIN plan[s].order
  BY DEF QueryComes
<1>2. plan[s].order[q[s] + 1].wires \in Seq(WiresAt(s)) /\ WiresAt(s) \subseteq Nat
  BY <1>1, FlowAt, ListsAre DEF Flow, WiresAt
<1>3. plan[s].order[q[s] + 1].wires \in Seq(Nat)
  BY <1>2, NatSeq, Zenon
<1> QED
  BY <1>1, <1>3 DEF Frame, Frames, IsQuery

(* A gadget that has not got all the inputs that an output of its first    *)
(* stage wants has an input of a later stage.                              *)
LEMMA TooEarly ==
    ASSUME Planned, NEW pos, NEW stk, NEW f, NEW q, NEW D, Now(pos, stk, f, q, D), phase = "eval",
           Working(f), AsksModule(f, phase), NEW s, s = Append(f.path, Driving(f)), IsGadgetAt(s),
           ~FirstStageReady(s, ModAt(f.path).source[Head(f.todo)][2])
    PROVE  LateInput
<1> DEFINE o == ModAt(f.path).source[Head(f.todo)][2]
           lat == GadgetAt(s).latency
<1>1. /\ Traversed(stk, pos, q, phase) /\ Valued(stk, pos, q, D) /\ Len(stk) \in 1..Len(stk)
      /\ f = stk[Len(stk)] /\ Positioned(pos, q) /\ Counted(pos, q, phase)
      /\ FrameFits(f, pos, q, phase) /\ D = DOMAIN place /\ f.path \in DOMAIN plan
  BY DEF Now
<1>2. PICK at : IsNext(f, pos, q, at)
  BY NextIs, Zenon
<1>3. FlowingAt(f, pos, q, D, at)
  BY <1>1, <1>2, FlowingIs, Zenon
<1>4. s \in DOMAIN plan
  BY <1>1, <1>2, QueryIs, Zenon DEF QueryComes
<1>5. /\ o \in DOMAIN ModAt(s).outputs
      /\ QueriedWire(s, q[s]) = ModAt(s).connection_wires[ModAt(s).outputs[o]]
      /\ QueryInputsIn(s, q[s], D)
  BY <1>1, <1>3, QueryReady
<1>6. ModAt(s).outputs[o] \in Range(ModAt(s).outputs)
  BY <1>5, Zenon DEF Range
<1>7. StageInputsIn(s, ModAt(s).outputs[o], D)
  BY <1>4, <1>5, <1>6, StageReady, Zenon
<1>8. lat[ModAt(s).outputs[o]] = 0
  BY Zenon DEF FirstStageReady
<1>9. PICK i \in DOMAIN ModAt(s).inputs : ~HasValue(s, InputWire(s, i))
  BY Zenon DEF FirstStageReady, AllInputs
<1>10. lat[ModAt(s).inputs[i]] # 0
  BY <1>1, <1>7, <1>8, <1>9, Zenon DEF StageInputsIn, InputIn, HasValue
<1>11. ModAt(s).inputs[i] \in Range(ModAt(s).inputs)
  BY <1>9 DEF Range
<1> QED
  BY <1>4, <1>6, <1>8, <1>10, <1>11, Zenon DEF LateInput

(* Asking an instance for an output never meets another query.             *)
LEMMA CallOutputKeeps ==
    ASSUME EvalInv, Evaluating, CallOutput
    PROVE  Kept
<1>1. /\ Running /\ Call.mode \in {"query", "finish"} /\ Call.todo # <<>>
      /\ IsModule(Source) /\ Enters(SubPath)
      /\ UNCHANGED <<plan, query_id, checks, design, phase, built>>
  BY DEF CallOutput, InWires, buildVars
<1>2. PICK pos, stk, f, q, D : Now(pos, stk, f, q, D)
  BY <1>1, NowIs
<1>3. /\ Planned /\ Traversed(stk, pos, q, phase) /\ panic = None /\ stk = stack /\ f = Call
      /\ q = query_id /\ D = DOMAIN place /\ stk # <<>> /\ stk \in Seq(Frames)
      /\ f = stk[Len(stk)] /\ f \in Frames /\ Positioned(pos, q) /\ Counted(pos, q, phase)
      /\ FrameFits(f, pos, q, phase) /\ f.path \in DOMAIN plan
  BY <1>2 DEF Now, Call
<1>4. Working(f)
  BY <1>1, <1>3 DEF Working
<1>5. PICK at : IsNext(f, pos, q, at)
  BY <1>2, <1>4, NextIs
<1> DEFINE s == Append(f.path, Driving(f))
           o == ModAt(f.path).source[Head(f.todo)][2]
<1>6. Source = Inst(f.path, Driving(f)) /\ SubPath = s /\ SourceOut = o
  BY <1>3 DEF SourceInst, SourceOut, Source, SubPath, Driving, Head1
<1>7. AsksModule(f, phase)
  BY <1>1, <1>6 DEF AsksModule, Enters, EntersAt
<1>8. QueryComes(f.path, Driving(f), q, o)
  BY <1>3, <1>4, <1>5, <1>7, QueryIs
<1>9. PICK n : n = q[s] + 1
  OBVIOUS
<1>10. ~(n > Len(plan[s].order)) /\ plan[s].order[n].con = ModAt(s).outputs[o]
  <2>1. /\ q[s] \in Nat /\ q[s] < Len(plan[s].order) /\ s \in DOMAIN plan
        /\ plan[s].order[n].con = ModAt(s).outputs[o]
    BY <1>8, <1>9, Zenon DEF QueryComes
  <2>2. Len(plan[s].order) \in Nat
    BY <1>3, <2>1, FlowAt
  <2> QED
    BY <1>9, <2>1, <2>2
<1>11. Frozen /\ phase' = phase /\ query_id' = q /\ checks' = checks
  BY <1>1, <1>3 DEF Frozen
<1>12. /\ phase \in {"eval", "check"}
       /\ phase = "eval" => checks = <<>>
       /\ phase = "eval" => Valued(stk, pos, q, D)
       /\ phase = "check" => AllValued(D) /\ ChecksFit(pos, checks)
  BY <1>2 DEF Now
<1>13. CASE IsGadgetAt(s) /\ ~FirstStageReady(s, o)
  <2>1. phase = "eval"
    BY <1>1, <1>6, <1>13, Zenon DEF Enters
  <2>2. LateInput
    BY <1>2, <1>3, <1>4, <1>7, <1>13, <2>1, TooEarly
  <2>3. stack' = stk /\ place' = place /\ panic' = "gadget_input"
    BY <1>3, <1>6, <1>13 DEF CallOutput, Panic
  <2>4. panic' # None
    BY <2>3 DEF None
  <2>5. Excused(panic')
    BY <2>2, <2>3 DEF Excused
  <2> QED
    BY <1>3, <1>11, <1>12, <2>1, <2>3, <2>4, <2>5, KeptIs
<1>14. CASE ~(IsGadgetAt(s) /\ ~FirstStageReady(s, o))
  <2>1. PICK g : g = Frame(s, "query", plan[s].order[n].wires)
    BY Zenon
  <2>2. g \in Frames /\ IsQuery(g, f.path, Driving(f), q)
    BY <1>3, <1>8, <1>9, <2>1, QueryFrame, Zenon
  <2>3. stack' = Front(stack) \o <<f, g>> /\ UNCHANGED <<place, panic>>
    <3>1. /\ query_id[SubPath] + 1 = n
          /\ ~(IsGadgetAt(SubPath) /\ ~FirstStageReady(SubPath, SourceOut))
          /\ ~(n > Len(plan[SubPath].order) \/ plan[SubPath].order[n].con # ModAt(SubPath).outputs[SourceOut])
      BY <1>3, <1>6, <1>9, <1>10, <1>14, Zenon
    <3>2. Push(Call, Frame(SubPath, "query", plan[SubPath].order[n].wires)) /\ UNCHANGED <<place, panic>>
      BY <3>1 DEF CallOutput
    <3> QED
      BY <1>3, <1>6, <2>1, <3>2, Zenon DEF Push
  <2>4. PICK new : new = stack'
    OBVIOUS
  <2>5. new \in Seq(Frames) /\ IsPushed(stk, new, f, g)
    BY <1>3, <2>2, <2>3, <2>4, StackMoves
  <2>6. Traversed(new, pos, q, phase)
    BY <1>3, <1>4, <1>7, <2>2, <2>5, CallsQuery
  <2>7. phase = "eval" => Valued(new, pos, q, D)
    BY <1>3, <1>4, <1>7, <1>12, <2>2, <2>5, CallsValued
  <2>8. Marked(new, pos, q, phase, D, checks)
    BY <1>12, <2>7 DEF Marked
  <2>9. panic' = None /\ DOMAIN place' = D
    BY <1>3, <2>3
  <2> QED
    BY <1>11, <1>12, <2>4, <2>6, <2>8, <2>9, KeptIs
<1> QED
  BY <1>13, <1>14

-----------------------------------------------------------------------------
(* The call of an output ends.                                             *)
LEMMA CallerTop ==
    ASSUME NEW pos, NEW stk, NEW f, NEW q, NEW D, Now(pos, stk, f, q, D), f.mode = "query",
           NEW g, g = stk[Len(stk) - 1]
    PROVE  /\ Len(stk) > 1 /\ g \in Frames /\ g.path \in DOMAIN plan /\ Working(g)
           /\ AsksModule(g, phase) /\ f.path = Append(g.path, Driving(g))
           /\ \E at : IsNext(g, pos, q, at)
<1>1. /\ Planned /\ StackFits(stk, pos, q, phase) /\ stk # <<>> /\ f = stk[Len(stk)]
      /\ Positioned(pos, q)
  BY DEF Now
<1>2. /\ Len(stk) > 1 /\ Len(stk) - 1 \in 1..Len(stk)
      /\ g.path \in DOMAIN plan /\ FrameFits(g, pos, q, phase) /\ Working(g) /\ AsksModule(g, phase)
      /\ f.path = Append(g.path, Driving(g))
  BY <1>1, CallerIs
<1>3. g \in Frames
  BY <1>1, <1>2, StackIs
<1>4. \E at : IsNext(g, pos, q, at)
  BY <1>1, <1>2, NextOf
<1> QED
  BY <1>2, <1>3, <1>4

(* Answering a query sets the wire that asked for it.                      *)
LEMMA ReturnOutputKeeps ==
    ASSUME EvalInv, Evaluating, ReturnOutput
    PROVE  Kept
<1>1. /\ Running /\ Call.mode = "query" /\ Call.todo = <<>> /\ phase = "eval"
      /\ query_id' = [query_id EXCEPT ![Call.path] = @ + 1]
      /\ stack' = Append(SubSeq(stack, 1, Len(stack) - 2), [Caller EXCEPT !.todo = Tail(@)])
      /\ UNCHANGED <<plan, checks, design, phase, built>>
  BY DEF ReturnOutput, Mode, PopTo, Returned, buildVars
<1>2. PICK pos, stk, f, q, D : Now(pos, stk, f, q, D)
  BY <1>1, NowIs
<1>3. /\ Planned /\ Traversed(stk, pos, q, phase) /\ panic = None /\ stk = stack /\ f = Call
      /\ q = query_id /\ D = DOMAIN place /\ stk # <<>> /\ stk \in Seq(Frames)
      /\ f = stk[Len(stk)] /\ f \in Frames /\ Positioned(pos, q) /\ Len(stk) \in 1..Len(stk)
      /\ FrameFits(f, pos, q, phase) /\ f.path \in DOMAIN plan
  BY <1>2 DEF Now, Call
<1>4. Valued(stk, pos, q, D) /\ checks = <<>>
  BY <1>1, <1>2 DEF Now
<1>5. PICK g : g = stk[Len(stk) - 1]
  OBVIOUS
<1>6. /\ Len(stk) > 1 /\ g \in Frames /\ g.path \in DOMAIN plan /\ Working(g)
      /\ f.path = Append(g.path, Driving(g))
      /\ \E at : IsNext(g, pos, q, at)
  BY <1>1, <1>2, <1>3, <1>5, CallerTop
<1>7. PICK at : IsNext(g, pos, q, at)
  BY <1>6
<1>8. PICK r : r = [g EXCEPT !.todo = Tail(@)]
  OBVIOUS
<1>9. r \in Frames /\ IsRest(r, g)
  BY <1>6, <1>8, RestIs DEF Working
<1>10. PICK new : new = stack'
  OBVIOUS
<1>11. new = Append(SubSeq(stk, 1, Len(stk) - 2), r)
  BY <1>1, <1>3, <1>5, <1>8, <1>10 DEF Caller
<1>12. new \in Seq(Frames) /\ IsPopped(stk, new, r)
  BY <1>3, <1>6, <1>9, <1>11, StackPops
<1> DEFINE pos1 == Returned1(pos, q, f, g.path, at)
           q1 == [q EXCEPT ![f.path] = @ + 1]
           s == f.path
           w == Head(g.todo)
<1>13. Traversed(new, pos1, q1, phase)
  BY <1>1, <1>3, <1>5, <1>7, <1>9, <1>12, Returns
<1>14. Settable(D, g.path, w) /\ Valued(new, pos1, q1, PutIn(D, g.path, w))
  BY <1>1, <1>3, <1>4, <1>5, <1>7, <1>9, <1>12, ReturnsValued
<1>15. Frozen /\ phase' = "eval" /\ query_id' = q1 /\ checks' = <<>>
  BY <1>1, <1>3, <1>4, Zenon DEF Frozen
<1> DEFINE con == plan[s].order[q[s] + 1].con
<1>16. /\ con \in Range(ModAt(s).outputs)
       /\ QueriedWire(s, q[s]) = ModAt(s).connection_wires[con]
       /\ <<s, QueriedWire(s, q[s])>> \in D /\ QueryInputsIn(s, q[s], D)
  <2>1. Computed(pos, D) /\ FrameInputs(f, q, D)
    BY <1>3, <1>4 DEF Valued
  <2>2. f.mode = "query" /\ f.todo = <<>>
    BY <1>1, <1>3
  <2> HIDE DEF pos1, q1
  <2>3. /\ Planned /\ Positioned(pos, q) /\ f.path \in DOMAIN plan /\ FrameFits(f, pos, q, phase)
    BY <1>3
  <2>4. PICK k : k = plan[f.path].order[q[f.path] + 1].con
    BY Zenon
  <2>5. /\ k \in Range(ModAt(f.path).outputs)
        /\ QueriedWire(f.path, q[f.path]) = ModAt(f.path).connection_wires[k]
        /\ <<f.path, QueriedWire(f.path, q[f.path])>> \in D /\ QueryInputsIn(f.path, q[f.path], D)
    BY <2>1, <2>2, <2>3, <2>4, ResultIn
  <2> QED
    BY <2>4, <2>5
<1>17. Output(Call.path) = con
  BY <1>3 DEF Output
<1> HIDE DEF pos1, q1, con
<1>18. HasValue(s, ModAt(s).connection_wires[con])
  BY <1>3, <1>16, Zenon DEF HasValue
<1>19. IsGadgetAt(s) => GadgetStatusReady(s)
  <2>1. SUFFICES ASSUME IsGadgetAt(s)
                 PROVE  GadgetStatusReady(s)
    OBVIOUS
  <2>2. StageInputsIn(s, con, D)
    BY <1>3, <1>16, <2>1, StageReady
  <2>3. Output(s) = con
    BY <1>3, <1>17
  <2> QED
    BY <1>3, <2>2, <2>3 DEF GadgetStatusReady, AllInputs, AtLatency, StageInputsIn, InputIn, HasValue
<1>20. CASE IsGadgetAt(s) /\ InGadget(s)
  <2>1. Panic("nested")
    BY <1>3, <1>17, <1>18, <1>20 DEF ReturnOutput
  <2>2. panic' # None /\ panic' = "nested"
    BY <2>1 DEF Panic, None
  <2>3. NestedGadget
    BY <1>3, <1>20 DEF NestedGadget
  <2>4. Excused(panic')
    BY <2>2, <2>3 DEF Excused
  <2> QED
    BY <1>1, <1>10, <1>13, <1>15, <2>2, <2>4, KeptIs
<1>21. CASE ~(IsGadgetAt(s) /\ InGadget(s))
  <2>1. Set(Caller.path, Head(Caller.todo), place[<<s, ModAt(s).connection_wires[con]>>])
    BY <1>3, <1>17, <1>18, <1>19, <1>21 DEF ReturnOutput
  <2>2. PICK v : v = place[<<s, ModAt(s).connection_wires[con]>>]
    OBVIOUS
  <2>3. Set(g.path, w, v)
    BY <1>3, <1>5, <2>1, <2>2 DEF Caller
  <2>4. SpreadOver(D)
    BY <1>4 DEF Valued
  <2>5. panic' = None /\ DOMAIN place' = PutIn(D, g.path, w)
    BY <1>3, <1>14, <2>3, <2>4, SetIs
  <2>6. Marked(new, pos1, q1, "eval", PutIn(D, g.path, w), <<>>)
    BY <1>14 DEF Marked
  <2> QED
    BY <1>1, <1>10, <1>13, <1>15, <2>5, <2>6, KeptIs
<1> QED
  BY <1>20, <1>21

-----------------------------------------------------------------------------
(* The wires of a module end.                                              *)
LEMMA InstancesFrame ==
    ASSUME Planned, NEW p \in DOMAIN plan,
           NEW g, g = Frame(p, "instances", [i \in DOMAIN ModAt(p).instances |-> i])
    PROVE  /\ g \in Frames /\ g.path = p /\ g.mode = "instances"
           /\ IsAll(g.todo, DOMAIN ModAt(p).instances)
<1>1. PICK n \in Nat : DOMAIN ModAt(p).instances = 1..n
  BY ListsAre
<1>2. IsAll(g.todo, DOMAIN ModAt(p).instances)
  BY DEF IsAll, Frame
<1>3. g.todo \in Seq(1..n)
  BY <1>1, <1>2, AllIs
<1>4. g.todo \in Seq(Nat)
  <2>1. 1..n \subseteq Nat
    OBVIOUS
  <2> QED
    BY <1>3, <2>1, NatSeq
<1> QED
  BY <1>2, <1>4 DEF Frame, Frames

(* The end of an instance's wires keeps the evaluation right.              *)
LEMMA EndWiresKeeps ==
    ASSUME EvalInv, Evaluating, EndWires
    PROVE  Kept
<1>1. /\ Running /\ Call.mode = "finish" /\ Call.todo = <<>>
      /\ query_id' = [query_id EXCEPT ![Call.path] = @ + 1]
      /\ stack' = Append(Front(stack),
                      Frame(Call.path, "instances", [i \in DOMAIN ModAt(Call.path).instances |-> i]))
      /\ UNCHANGED <<plan, place, panic, checks, design, phase, built>>
  BY DEF EndWires, Mode, Replace, buildVars
<1>2. PICK pos, stk, f, q, D : Now(pos, stk, f, q, D)
  BY <1>1, NowIs
<1>3. /\ Planned /\ Traversed(stk, pos, q, phase) /\ panic = None /\ stk = stack /\ f = Call
      /\ q = query_id /\ D = DOMAIN place /\ stk # <<>> /\ stk \in Seq(Frames)
      /\ f = stk[Len(stk)] /\ f \in Frames /\ Positioned(pos, q)
      /\ FrameFits(f, pos, q, phase) /\ f.path \in DOMAIN plan
  BY <1>2 DEF Now, Call
<1>4. /\ phase \in {"eval", "check"}
      /\ phase = "eval" => Valued(stk, pos, q, D) /\ checks = <<>>
      /\ phase = "check" => AllValued(D) /\ ChecksFit(pos, checks)
  BY <1>2 DEF Now
<1> DEFINE p == f.path
           to == Len(Found(p))
           pos1 == [pos EXCEPT ![p] = to]
           q1 == [q EXCEPT ![p] = @ + 1]
<1>5. PICK g : g = Frame(p, "instances", [i \in DOMAIN ModAt(p).instances |-> i])
  OBVIOUS
<1>6. /\ g \in Frames /\ g.path = p /\ g.mode = "instances"
      /\ IsAll(g.todo, DOMAIN ModAt(p).instances)
  BY <1>3, <1>5, InstancesFrame
<1>7. PICK new : new = stack'
  OBVIOUS
<1>8. new \in Seq(Frames) /\ IsReplaced(stk, new, g)
  <2>1. new = Append(Front(stk), g)
    BY <1>1, <1>3, <1>5, <1>7
  <2> QED
    BY <1>3, <1>6, <2>1, StackMoves
<1>9. Traversed(new, pos1, q1, phase)
  BY <1>1, <1>3, <1>6, <1>8, WiresEnd
<1>10. phase = "eval" => Valued(new, pos1, q1, D)
  BY <1>1, <1>3, <1>4, <1>6, <1>8, WiresEndValued
<1>11. phase = "check" => ChecksFit(pos1, checks)
  <2>1. SUFFICES ASSUME phase = "check"
                 PROVE  ChecksFit(pos1, checks)
    BY Zenon
  <2>2. /\ IsTodo(f.todo, Found(p), InputsAt(p), pos[p], to) /\ pos[p] <= to
    BY <1>1, <1>3 DEF FrameFits, TodoFits
  <2>3. to \in Nat
    BY <1>3, FlowAt
  <2>4. OnlyInputs(p, pos[p], to)
    BY <1>1, <1>3, <2>2, TodoEmpty DEF OnlyInputs
  <2>5. PICK C : C = checks
    OBVIOUS
  <2> HIDE DEF to
  <2>6. ChecksFit([pos EXCEPT ![p] = to], C)
    BY <1>3, <1>4, <2>1, <2>2, <2>3, <2>4, <2>5, ChecksPassed
  <2> QED
    BY <2>5, <2>6
<1>12. Frozen /\ phase' = phase /\ query_id' = q1 /\ checks' = checks /\ panic' = None /\ DOMAIN place' = D
  BY <1>1, <1>3 DEF Frozen
<1> HIDE DEF pos1, q1
<1>13. Marked(new, pos1, q1, phase, D, checks)
  BY <1>4, <1>10, <1>11 DEF Marked
<1> QED
  BY <1>4, <1>7, <1>9, <1>12, <1>13, KeptIs

-----------------------------------------------------------------------------
(* The instances of a module are finished.                                 *)
LEMMA PartReady ==
    ASSUME NEW pos, NEW stk, NEW f, NEW q, NEW D, Now(pos, stk, f, q, D), f.mode = "instances"
    PROVE  /\ SpreadOver(D) /\ WiresIn(f.path, D)
           /\ phase = "eval" => InputsIn(f.path, D)
           /\ f.todo # <<>> => Head(f.todo) \in DOMAIN ModAt(f.path).instances
<1>1. /\ Planned /\ Traversed(stk, pos, q, phase) /\ stk # <<>> /\ f = stk[Len(stk)]
      /\ f.path \in DOMAIN plan /\ FrameFits(f, pos, q, phase)
  BY DEF Now
<1>2. f.todo # <<>> => Head(f.todo) \in DOMAIN ModAt(f.path).instances
  BY <1>1, TailIs DEF FrameFits, PartsLeft
<1>3. CASE phase = "eval"
  <2>1. Valued(stk, pos, q, D)
    BY <1>3 DEF Now
  <2>2. SpreadOver(D) /\ WiresIn(f.path, D) /\ InputsIn(f.path, D)
    BY <1>1, <2>1, InstancesReady
  <2> QED
    BY <1>2, <2>2
<1>4. CASE phase # "eval"
  <2>1. AllValued(D)
    BY <1>4 DEF Now
  <2>2. SpreadOver(D) /\ WiresIn(f.path, D)
    BY <1>1, <2>1 DEF AllValued, WiresIn
  <2> QED
    BY <1>2, <1>4, <2>2
<1> QED
  BY <1>3, <1>4

(* So does an instance that needs no finishing.                            *)
LEMMA SkipInstanceKeeps ==
    ASSUME EvalInv, Evaluating, SkipInstance
    PROVE  Kept
<1>1. /\ Running /\ Call.mode = "instances" /\ Call.todo # <<>>
      /\ ~(IsModule(Inst(Call.path, Head1)) /\ Enters(Append(Call.path, Head1)))
      /\ IF Inst(Call.path, Head1).type = "DFF" /\ ~HasValue(Append(Call.path, Head1), 2)
         THEN Panic("unset") ELSE UNCHANGED <<place, panic>>
      /\ stack' = Append(Front(stack), [Call EXCEPT !.todo = Tail(@)])
      /\ UNCHANGED <<plan, query_id, checks, design, phase, built>>
  BY DEF SkipInstance, Mode, Replace, Rest, NextInstance, buildVars
<1>2. PICK pos, stk, f, q, D : Now(pos, stk, f, q, D)
  BY <1>1, NowIs
<1>3. /\ Planned /\ Traversed(stk, pos, q, phase) /\ panic = None /\ stk = stack /\ f = Call
      /\ q = query_id /\ D = DOMAIN place /\ stk # <<>> /\ stk \in Seq(Frames)
      /\ f = stk[Len(stk)] /\ f \in Frames /\ f.path \in DOMAIN plan
  BY <1>2 DEF Now, Call
<1>4. /\ phase \in {"eval", "check"}
      /\ phase = "eval" => Valued(stk, pos, q, D) /\ checks = <<>>
      /\ phase = "check" => AllValued(D) /\ ChecksFit(pos, checks)
  BY <1>2 DEF Now
<1>5. PICK r : r = [f EXCEPT !.todo = Tail(@)]
  OBVIOUS
<1>6. r \in Frames /\ IsRest(r, f)
  BY <1>1, <1>3, <1>5, RestIs
<1>7. PICK new : new = stack'
  OBVIOUS
<1>8. new \in Seq(Frames) /\ IsReplaced(stk, new, r)
  <2>1. new = Append(Front(stk), r)
    BY <1>1, <1>3, <1>5, <1>7
  <2> QED
    BY <1>3, <1>6, <2>1, StackMoves
<1>9. ~Finishes(f.path, Head(f.todo), phase)
  BY <1>1, <1>3 DEF Finishes, Parts, Head1, Enters, EntersAt
<1>10. Traversed(new, pos, q, phase)
  BY <1>1, <1>3, <1>6, <1>8, <1>9, Skips
<1>11. phase = "eval" => Valued(new, pos, q, D)
  BY <1>1, <1>3, <1>4, <1>6, <1>8, SkipsValued
<1>12. UNCHANGED <<place, panic>>
  <2>1. /\ SpreadOver(D) /\ WiresIn(f.path, D)
        /\ Head(f.todo) \in DOMAIN ModAt(f.path).instances
    BY <1>1, <1>2, <1>3, PartReady
  <2>2. Inst(f.path, Head(f.todo)).type = "DFF" => <<Append(f.path, Head(f.todo)), 2>> \in D
    BY <1>3, <2>1, RegisterHasInput
  <2> QED
    BY <1>1, <1>3, <2>2 DEF HasValue, Head1
<1>13. Frozen /\ phase' = phase /\ query_id' = q /\ checks' = checks /\ panic' = None /\ DOMAIN place' = D
  BY <1>1, <1>3, <1>12 DEF Frozen
<1>14. Marked(new, pos, q, phase, D, checks)
  BY <1>4, <1>11 DEF Marked
<1> QED
  BY <1>4, <1>7, <1>10, <1>13, <1>14, KeptIs

(* Finishing an instance finds its queries answered, and no panic.         *)
LEMMA FinishModuleKeeps ==
    ASSUME EvalInv, Evaluating, FinishModule
    PROVE  Kept
<1>1. /\ Running /\ Call.mode = "instances" /\ Call.todo # <<>>
      /\ IsModule(Inst(Call.path, Head1)) /\ Enters(Append(Call.path, Head1))
      /\ LET sub == Append(Call.path, Head1)
         IN  /\ query_id[sub] = Len(plan[sub].order) => UNCHANGED <<place, panic>>
             /\ stack' = Front(stack) \o <<[Call EXCEPT !.todo = Tail(@)], Finish(sub)>>
      /\ UNCHANGED <<plan, query_id, checks, design, phase, built>>
  BY DEF FinishModule, Mode, Push, Rest, NextInstance, buildVars
<1>2. PICK pos, stk, f, q, D : Now(pos, stk, f, q, D)
  BY <1>1, NowIs
<1>3. /\ Planned /\ Traversed(stk, pos, q, phase) /\ panic = None /\ stk = stack /\ f = Call
      /\ q = query_id /\ D = DOMAIN place /\ stk # <<>> /\ stk \in Seq(Frames)
      /\ f = stk[Len(stk)] /\ f \in Frames /\ f.path \in DOMAIN plan
      /\ Positioned(pos, q) /\ Counted(pos, q, phase) /\ FrameFits(f, pos, q, phase)
  BY <1>2 DEF Now, Call
<1>4. /\ phase \in {"eval", "check"}
      /\ phase = "eval" => Valued(stk, pos, q, D) /\ checks = <<>>
      /\ phase = "check" => AllValued(D) /\ ChecksFit(pos, checks)
  BY <1>2 DEF Now
<1>5. PICK s : s = Append(f.path, Head(f.todo))
  OBVIOUS
<1>6. Head(f.todo) \in DOMAIN ModAt(f.path).instances
  BY <1>1, <1>2, <1>3, PartReady
<1>7. Finishes(f.path, Head(f.todo), phase)
  BY <1>1, <1>3, <1>6 DEF Finishes, Parts, Head1, Enters, EntersAt
<1>8. s \in DOMAIN plan /\ q[s] = Len(plan[s].order)
  <2>1. /\ Planned /\ Positioned(pos, q) /\ Counted(pos, q, phase) /\ f.path \in DOMAIN plan
        /\ FrameFits(f, pos, q, phase) /\ f.mode = "instances" /\ f.todo # <<>>
    BY <1>1, <1>3
  <2>2. s \in DOMAIN plan /\ AllCame(q, s)
    BY <1>5, <1>7, <2>1, AllQueriesCame
  <2> QED
    BY <2>2, Zenon DEF AllCame
<1>9. PICK r : r = [f EXCEPT !.todo = Tail(@)]
  OBVIOUS
<1>10. r \in Frames /\ IsRest(r, f)
  BY <1>1, <1>3, <1>9, RestIs
<1>11. PICK g : g = Finish(s)
  OBVIOUS
<1>12. g \in Frames /\ IsFinish(g, s)
  BY <1>3, <1>8, <1>11, FinishIs
<1>13. PICK new : new = stack'
  OBVIOUS
<1>14. new \in Seq(Frames) /\ IsPushed(stk, new, r, g)
  <2>1. new = Front(stk) \o <<r, g>>
    BY <1>1, <1>3, <1>5, <1>9, <1>11, <1>13 DEF Head1
  <2> QED
    BY <1>3, <1>10, <1>12, <2>1, StackMoves, Zenon
<1>15. f.mode = "instances" /\ f.todo # <<>> /\ IsFinish(g, Append(f.path, Head(f.todo)))
  BY <1>1, <1>3, <1>5, <1>12
<1>16. Traversed(new, pos, q, phase)
  BY <1>3, <1>7, <1>10, <1>14, <1>15, FinishesModule
<1>17. phase = "eval" => Valued(new, pos, q, D)
  BY <1>3, <1>4, <1>7, <1>10, <1>14, <1>15, FinishesValued
<1>18. UNCHANGED <<place, panic>>
  BY <1>1, <1>3, <1>5, <1>8, Zenon DEF Head1
<1>19. Frozen /\ phase' = phase /\ query_id' = q /\ checks' = checks /\ panic' = None /\ DOMAIN place' = D
  BY <1>1, <1>3, <1>18 DEF Frozen
<1>20. Marked(new, pos, q, phase, D, checks)
  BY <1>4, <1>17 DEF Marked
<1> QED
  BY <1>4, <1>13, <1>16, <1>19, <1>20, KeptIs

-----------------------------------------------------------------------------
(* A module ends, or the evaluation or the checks of the top-level module. *)
LEMMA EndFinishKeeps ==
    ASSUME EvalInv, Evaluating, EndFinish
    PROVE  Kept
<1>1. /\ Running /\ Call.mode = "instances" /\ Call.todo = <<>>
      /\ ~(phase = "eval" /\ IsGadgetAt(Call.path) /\ ~FinishReady(Call.path)) => UNCHANGED <<place, panic>>
      /\ Len(stack) > 1 => stack' = Front(stack) /\ UNCHANGED <<phase, query_id>>
      /\ ~(Len(stack) > 1) /\ phase = "eval" =>
            /\ phase' = "check" /\ query_id' = [p \in DOMAIN query_id |-> 0]
            /\ stack' = <<Finish(Root)>>
      /\ ~(Len(stack) > 1) /\ phase # "eval" =>
            phase' = "over" /\ stack' = <<>> /\ UNCHANGED query_id
      /\ UNCHANGED <<plan, checks, design, built>>
  BY DEF EndFinish, Mode
<1>2. PICK pos, stk, f, q, D : Now(pos, stk, f, q, D)
  BY <1>1, NowIs
<1>3. /\ Planned /\ Traversed(stk, pos, q, phase) /\ panic = None /\ stk = stack /\ f = Call
      /\ q = query_id /\ D = DOMAIN place /\ stk # <<>> /\ stk \in Seq(Frames)
      /\ f = stk[Len(stk)] /\ f \in Frames /\ f.path \in DOMAIN plan
      /\ Len(stk) \in Nat \ {0} /\ Positioned(pos, q)
  BY <1>2 DEF Now, Call
<1>4. /\ phase \in {"eval", "check"}
      /\ phase = "eval" => Valued(stk, pos, q, D) /\ checks = <<>>
      /\ phase = "check" => AllValued(D) /\ ChecksFit(pos, checks)
  BY <1>2 DEF Now
<1>5. f.mode = "instances" /\ f.todo = <<>>
  BY <1>1, <1>3
<1>6. UNCHANGED <<place, panic>>
  <2>1. phase = "eval" => InputsIn(f.path, D)
    BY <1>2, <1>5, PartReady, Zenon
  <2>2. phase = "eval" => FinishReady(f.path)
    BY <1>3, <2>1 DEF FinishReady, AllInputs, AtLatency, InputsIn, InputIn, HasValue
  <2> QED
    BY <1>1, <1>3, <2>2
<1>7. Frozen /\ checks' = checks /\ panic' = None /\ DOMAIN place' = D
  BY <1>1, <1>3, <1>6 DEF Frozen
<1>8. PICK new : new = stack'
  OBVIOUS
<1>9. CASE Len(stk) > 1
  <2>1. new = Front(stk) /\ phase' = phase /\ query_id' = q
    BY <1>1, <1>3, <1>8, <1>9
  <2>2. new \in Seq(Frames) /\ IsPopped(stk, new, stk[Len(stk) - 1])
    BY <1>3, <1>9, <2>1, StackPops
  <2>3. Traversed(new, pos, q, phase)
    BY <1>3, <1>5, <1>9, <2>2, ModuleEnds
  <2>4. phase = "eval" => Valued(new, pos, q, D)
    BY <1>3, <1>4, <1>5, <1>9, <2>2, ModuleEndsValued
  <2>5. Marked(new, pos, q, phase, D, checks)
    BY <1>4, <2>4 DEF Marked
  <2> QED
    BY <1>4, <1>7, <1>8, <2>1, <2>3, <2>5, KeptIs
<1>10. CASE Len(stk) = 1 /\ phase = "eval"
  <2>1. phase' = "check" /\ query_id' = [p \in DOMAIN query_id |-> 0] /\ new = <<Finish(Root)>>
    BY <1>1, <1>3, <1>8, <1>10
  <2>2. PICK z : z = Zeros
    OBVIOUS
  <2>3. query_id' = z
    BY <1>3, <2>1, <2>2 DEF Zeros, Positioned
  <2>4. new \in Seq(Frames) /\ Len(new) = 1 /\ IsBegin(new[1], "check")
    <3>1. Finish(Root) \in Frames /\ IsFinish(Finish(Root), Root)
      BY <1>3, RootIs, FinishIs
    <3> QED
      BY <2>1, <3>1 DEF IsBegin, IsFinish
  <2>5. Traversed(new, z, z, "check")
    BY <1>3, <2>2, <2>4, Begins
  <2>6. AllValued(D)
    BY <1>3, <1>4, <1>5, <1>10, TopEndsValued
  <2>7. checks = <<>> /\ ChecksFit(z, <<>>)
    BY <1>3, <1>4, <1>10, <2>2, ChecksBegin
  <2>8. Marked(new, z, z, "check", D, <<>>)
    BY <2>6, <2>7 DEF Marked
  <2> QED
    BY <1>7, <1>8, <2>1, <2>3, <2>5, <2>7, <2>8, KeptIs
<1>11. CASE Len(stk) = 1 /\ phase = "check"
  <2>1. phase' = "over" /\ new = <<>> /\ query_id' = q
    BY <1>1, <1>3, <1>8, <1>11
  <2>2. Traversed(<<>>, pos, q, "check")
    BY <1>3, <1>5, <1>11, TopEnds
  <2>3. Traversed(<<>>, pos, q, "over")
    BY <2>2, OverIs
  <2>4. Marked(<<>>, pos, q, "over", D, checks)
    BY <1>4, <1>11 DEF Marked
  <2> QED
    BY <1>7, <1>8, <2>1, <2>3, <2>4, KeptIs
<1>12. Len(stk) > 1 \/ Len(stk) = 1
  <2>1. PICK n : n = Len(stk)
    OBVIOUS
  <2>2. n \in Nat \ {0}
    BY <1>3, <2>1
  <2>3. n > 1 \/ n = 1
    BY <2>2
  <2> QED
    BY <2>1, <2>3
<1> QED
  BY <1>4, <1>9, <1>10, <1>11, <1>12

-----------------------------------------------------------------------------
(* The checks of a wire and of what is connected to it.                    *)
LEMMA CheckIs ==
    ASSUME Planned, NEW D, D = DOMAIN place, AllValued(D), NEW p \in DOMAIN plan,
           NEW w \in WiresAt(p), CheckAt(p, w)
    PROVE  checks' = CheckedWith(checks, p, w) /\ UNCHANGED <<place, panic>>
<1>1. {<<p, w>>} \cup GadgetSinks(p, w) = Seen(p, w)
  BY DEF Seen
<1>2. \A c \in Seen(p, w) : HasValue(c[1], IF c[1] = p THEN w ELSE InputWire(c[1], c[2]))
  BY SeenValued DEF HasValue
<1>3. /\ checks' = [c \in Seen(p, w) \cup DOMAIN checks |->
                         IF c \in Seen(p, w) THEN Times(c) + 1 ELSE checks[c]]
      /\ UNCHANGED <<place, panic>>
  BY <1>1, <1>2 DEF CheckAt
<1>4. \A c : Times(c) = CountIn(checks, c)
  BY DEF Times, CountIn
<1> QED
  BY <1>3, <1>4 DEF CheckedWith

(* The checks are in the top-level module and in those that are entered.   *)
LEMMA CheckedPath ==
    ASSUME Planned, NEW stk, NEW pos, NEW q, StackFits(stk, pos, q, "check"), NEW k \in 1..Len(stk)
    PROVE  stk[k].path = Root \/ ~IsGadgetAt(stk[k].path)
<1>1. stk # <<>> /\ Len(stk) \in Nat /\ k \in Nat
  BY DEF StackFits
<1>2. CASE k = 1
  BY <1>1, <1>2 DEF StackFits
<1>3. CASE k # 1
  <2>1. k - 1 \in 1..(Len(stk) - 1) /\ (k - 1) + 1 = k
    BY <1>1, <1>3
  <2>2. Calls(stk[k - 1], stk[k], "check")
    BY <2>1 DEF StackFits
  <2> QED
    BY <2>2 DEF Calls, EntersAt
<1> QED
  BY <1>2, <1>3

(* Checking a wire counts each gadget input it reaches once more.          *)
LEMMA CheckWireKeeps ==
    ASSUME EvalInv, Evaluating, CheckWire
    PROVE  Kept
<1>1. /\ Running /\ Call.mode \in {"query", "finish"} /\ Call.todo # <<>>
      /\ phase = "check"
      /\ IsModule(Source) => ~Enters(SubPath)
      /\ CheckAt(Call.path, Head1)
      /\ stack' = Append(Front(stack), [Call EXCEPT !.todo = Tail(@)])
      /\ UNCHANGED <<plan, query_id, design, phase, built>>
  BY DEF CheckWire, InWires, Replace, Rest, buildVars
<1>2. PICK pos, stk, f, q, D : Now(pos, stk, f, q, D)
  BY <1>1, NowIs
<1>3. /\ Planned /\ Traversed(stk, pos, q, phase) /\ panic = None /\ stk = stack /\ f = Call
      /\ q = query_id /\ D = DOMAIN place /\ stk # <<>> /\ stk \in Seq(Frames)
      /\ f = stk[Len(stk)] /\ f \in Frames /\ Positioned(pos, q) /\ Len(stk) \in 1..Len(stk)
      /\ f.path \in DOMAIN plan /\ StackFits(stk, pos, q, phase)
  BY <1>2 DEF Now, Call
<1>4. AllValued(D) /\ ChecksFit(pos, checks)
  BY <1>1, <1>2 DEF Now
<1>5. Working(f)
  BY <1>1, <1>3 DEF Working
<1>6. PICK at : IsNext(f, pos, q, at)
  BY <1>2, <1>5, NextIs
<1>7. Source = Inst(f.path, Driving(f)) /\ SubPath = Append(f.path, Driving(f))
  BY <1>3 DEF SourceInst, Source, SubPath, Driving, Head1
<1>8. ~AsksModule(f, phase)
  BY <1>1, <1>7 DEF AsksModule, Enters, EntersAt
<1>9. PICK r : r = [f EXCEPT !.todo = Tail(@)]
  OBVIOUS
<1>10. r \in Frames /\ IsRest(r, f)
  BY <1>1, <1>3, <1>9, RestIs
<1>11. PICK new : new = stack'
  OBVIOUS
<1>12. new = Append(Front(stk), r)
  BY <1>1, <1>3, <1>9, <1>11
<1>13. new \in Seq(Frames) /\ IsReplaced(stk, new, r)
  BY <1>3, <1>10, <1>12, StackMoves
<1> DEFINE pos1 == [pos EXCEPT ![f.path] = at]
           w == Head(f.todo)
           p == f.path
<1>14. Traversed(new, pos1, q, phase)
  BY <1>3, <1>5, <1>6, <1>8, <1>10, <1>13, Advances
<1>15. NextAt(p, pos[p], at) /\ Found(p)[at] = w /\ w \in WiresAt(p)
  BY <1>6 DEF IsNext, NextAt
<1>16. p = Root \/ ~IsGadgetAt(p)
  BY <1>1, <1>3, CheckedPath
<1>17. PICK C : C = checks
  OBVIOUS
<1>18. ChecksFit(pos1, CheckedWith(C, p, w))
  BY <1>3, <1>4, <1>15, <1>16, <1>17, ChecksAdvance
<1>19. checks' = CheckedWith(C, p, w) /\ UNCHANGED <<place, panic>>
  BY <1>1, <1>3, <1>4, <1>15, <1>17, CheckIs DEF Head1
<1>20. Frozen /\ phase' = "check" /\ query_id' = q /\ panic' = None /\ DOMAIN place' = D
  BY <1>1, <1>3, <1>19 DEF Frozen
<1> HIDE DEF pos1
<1>21. Marked(new, pos1, q, "check", D, CheckedWith(C, p, w))
  BY <1>4, <1>18, Zenon DEF Marked
<1> QED
  BY <1>1, <1>11, <1>14, <1>19, <1>20, <1>21, KeptIs

-----------------------------------------------------------------------------
(* The checks of an output of a module end: its caller's wire is checked.  *)
LEMMA ChecksReturn ==
    ASSUME Planned, NEW stk, NEW pos, NEW q, NEW ph, Traversed(stk, pos, q, ph), stk # <<>>,
           NEW C, ChecksFit(pos, C),
           NEW f, f = stk[Len(stk)], f.mode = "query", f.todo = <<>>,
           NEW g, g = stk[Len(stk) - 1], g.path = Root \/ ~IsGadgetAt(g.path),
           NEW at, IsNext(g, pos, q, at)
    PROVE  /\ Head(g.todo) \in WiresAt(g.path)
           /\ ChecksFit(Returned1(pos, q, f, g.path, at), CheckedWith(C, g.path, Head(g.todo)))
<1> DEFINE n == Len(stk)
           p == g.path
           s == f.path
           to == Ends(s)[q[s] + 2]
           pos0 == [pos EXCEPT ![s] = to]
<1>1. StackFits(stk, pos, q, ph) /\ Positioned(pos, q)
  BY DEF Traversed
<1>2. n \in Nat /\ n \in 1..n
  BY <1>1 DEF StackFits
<1>3. s \in DOMAIN plan /\ FrameFits(f, pos, q, ph)
  BY <1>1, <1>2, StackIs
<1>4. n > 1 /\ n - 1 \in 1..n /\ p \in DOMAIN plan
  BY <1>1, CallerIs
<1>5. p # s
  BY <1>1, <1>2, <1>4, OnePath
<1>7. /\ pos \in [DOMAIN plan -> Nat] /\ q \in [DOMAIN plan -> Nat]
      /\ q[s] < Len(plan[s].order) /\ pos[s] <= to /\ pos[s] \in Nat /\ q[s] \in Nat
      /\ IsTodo(f.todo, Found(s), InputsAt(s), pos[s], to)
  BY <1>1, <1>3 DEF Positioned, FrameFits, TodoFits
<1>8. to \in Nat /\ to <= Len(Found(s)) /\ Len(plan[s].order) \in Nat
  <2>1. Len(plan[s].order) \in Nat /\ Len(Found(s)) \in Nat
    BY <1>3, FlowAt
  <2>2. q[s] + 2 \in 1..(Len(plan[s].order) + 1)
    <3> DEFINE k == q[s]
               m == Len(plan[s].order)
    <3>1. k \in Nat /\ m \in Nat /\ k < m
      BY <1>7, <2>1
    <3> HIDE DEF k, m
    <3>2. k + 2 \in 1..(m + 1)
      BY <3>1
    <3> QED
      BY <3>2, Zenon DEF k, m
  <2>3. to \in 0..Len(Found(s))
    BY <1>3, <2>2, FlowAt
  <2> QED
    BY <2>1, <2>3
<1> HIDE DEF to
<1>9. OnlyInputs(s, pos[s], to)
  BY <1>7, TodoEmpty DEF OnlyInputs
<1>10. ChecksFit(pos0, C)
  BY <1>1, <1>3, <1>7, <1>8, <1>9, ChecksPassed
<1>11. ~Ended(q, s)
  BY <1>7, <1>8 DEF Ended
<1>12. Positioned(pos0, q)
  BY <1>1, <1>3, <1>8, <1>11, PositionMoves
<1>13. /\ Head(g.todo) = Found(p)[at] /\ NextAt(p, pos[p], at) /\ Head(g.todo) \in WiresAt(p)
  BY DEF IsNext, NextAt
<1>14. NextAt(p, pos0[p], at)
  BY <1>5, <1>7, <1>13
<1>15. ChecksFit([pos0 EXCEPT ![p] = at], CheckedWith(C, p, Found(p)[at]))
  <2> HIDE DEF pos0
  <2> QED
    BY <1>4, <1>10, <1>12, <1>14, ChecksAdvance
<1>16. Returned1(pos, q, f, p, at) = [pos0 EXCEPT ![p] = at]
  <2>1. Returned1(pos, q, f, p, at) = [pos EXCEPT ![p] = at, ![s] = to]
    BY DEF Returned1, to
  <2>2. [pos EXCEPT ![p] = at, ![s] = to] = [pos0 EXCEPT ![p] = at]
    BY <1>4, <1>5, <1>7
  <2> QED
    BY <2>1, <2>2
<1> QED
  BY <1>13, <1>15, <1>16

(* So does the check of a wire that a module drives.                       *)
LEMMA ReturnCheckKeeps ==
    ASSUME EvalInv, Evaluating, ReturnCheck
    PROVE  Kept
<1>1. /\ Running /\ Call.mode = "query" /\ Call.todo = <<>> /\ phase = "check"
      /\ CheckAt(Caller.path, Head(Caller.todo))
      /\ query_id' = [query_id EXCEPT ![Call.path] = @ + 1]
      /\ stack' = Append(SubSeq(stack, 1, Len(stack) - 2), [Caller EXCEPT !.todo = Tail(@)])
      /\ UNCHANGED <<plan, design, phase, built>>
  BY DEF ReturnCheck, Mode, PopTo, Returned, buildVars
<1>2. PICK pos, stk, f, q, D : Now(pos, stk, f, q, D)
  BY <1>1, NowIs
<1>3. /\ Planned /\ Traversed(stk, pos, q, phase) /\ panic = None /\ stk = stack /\ f = Call
      /\ q = query_id /\ D = DOMAIN place /\ stk # <<>> /\ stk \in Seq(Frames)
      /\ f = stk[Len(stk)] /\ f \in Frames /\ Len(stk) \in Nat \ {0}
      /\ f.path \in DOMAIN plan /\ StackFits(stk, pos, q, phase)
  BY <1>2 DEF Now, Call
<1>4. AllValued(D) /\ ChecksFit(pos, checks)
  BY <1>1, <1>2 DEF Now
<1>5. PICK g : g = stk[Len(stk) - 1]
  OBVIOUS
<1>6. /\ Len(stk) > 1 /\ g \in Frames /\ g.path \in DOMAIN plan /\ Working(g)
      /\ \E at : IsNext(g, pos, q, at)
  BY <1>1, <1>2, <1>3, <1>5, CallerTop
<1>7. PICK at : IsNext(g, pos, q, at)
  BY <1>6
<1>8. PICK r : r = [g EXCEPT !.todo = Tail(@)]
  OBVIOUS
<1>9. r \in Frames /\ IsRest(r, g)
  BY <1>6, <1>8, RestIs DEF Working
<1>10. PICK new : new = stack'
  OBVIOUS
<1>11. new = Append(SubSeq(stk, 1, Len(stk) - 2), r)
  BY <1>1, <1>3, <1>5, <1>8, <1>10 DEF Caller
<1>12. new \in Seq(Frames) /\ IsPopped(stk, new, r)
  BY <1>3, <1>6, <1>9, <1>11, StackPops
<1> DEFINE pos1 == Returned1(pos, q, f, g.path, at)
           q1 == [q EXCEPT ![f.path] = @ + 1]
           p == g.path
           w == Head(g.todo)
<1>13. Traversed(new, pos1, q1, phase)
  BY <1>1, <1>3, <1>5, <1>7, <1>9, <1>12, Returns
<1>14. p = Root \/ ~IsGadgetAt(p)
  <2>1. PICK k : k = Len(stk) - 1
    OBVIOUS
  <2>2. k \in 1..Len(stk)
    BY <1>3, <1>6, <2>1
  <2>3. g = stk[k]
    BY <1>5, <2>1
  <2> QED
    BY <1>1, <1>3, <2>2, <2>3, CheckedPath
<1>15. PICK C : C = checks
  OBVIOUS
<1>16. w \in WiresAt(p) /\ ChecksFit(pos1, CheckedWith(C, p, w))
  <2>1. f.mode = "query" /\ f.todo = <<>> /\ ChecksFit(pos, C)
    BY <1>1, <1>3, <1>4, <1>15
  <2> QED
    BY <1>3, <1>5, <1>7, <1>14, <2>1, ChecksReturn, Zenon
<1>17. checks' = CheckedWith(C, p, w) /\ UNCHANGED <<place, panic>>
  <2>1. CheckAt(p, w)
    BY <1>1, <1>3, <1>5 DEF Caller
  <2> QED
    BY <1>3, <1>4, <1>6, <1>15, <1>16, <2>1, CheckIs
<1>18. Frozen /\ phase' = "check" /\ query_id' = q1 /\ panic' = None /\ DOMAIN place' = D
  BY <1>1, <1>3, <1>17 DEF Frozen
<1> HIDE DEF pos1, q1
<1>19. Marked(new, pos1, q1, "check", D, CheckedWith(C, p, w))
  BY <1>4, <1>16 DEF Marked
<1> QED
  BY <1>1, <1>10, <1>13, <1>17, <1>18, <1>19, KeptIs

-----------------------------------------------------------------------------
(* The evaluators of a design do not depend on what is evaluated.          *)
SameNetlist == built' = built /\ design' = design

(* With the netlist, the evaluators of its modules stay,                   *)
LEMMA EvaluatorsStay ==
    ASSUME SameNetlist
    PROVE  Evaluators' = Evaluators /\ \A m, a, n : Evaluator(m, a, n)' = Evaluator(m, a, n)
<1>1. Size' = Size
  BY DEF SameNetlist, Size
<1>2. \A m, a, n : Evaluator(m, a, n)' = Evaluator(m, a, n)
  BY <1>1 DEF SameNetlist, Evaluator
<1>3. \A m : ModulesIn(m)' = ModulesIn(m) /\ \A i : TypeAt(m, i)' = TypeAt(m, i)
  BY DEF SameNetlist, ModulesIn, TypeAt
<1>4. \A e : EvaluatorFit(e)' <=> EvaluatorFit(e)
  <2>1. \A e : IdsFit(e)' <=> IdsFit(e)
    BY <1>1 DEF SameNetlist, IdsFit
  <2> QED
    BY <1>3, <2>1 DEF SameNetlist, EvaluatorFit
<1>5. Evaluators' = Evaluators
  <2>1. AllQueries' = AllQueries /\ DOMAIN built' = DOMAIN built
    BY DEF SameNetlist, AllQueries
  <2> DEFINE All == {Evaluator(m, a, n) : m \in DOMAIN built, a \in AllQueries, n \in Nat}
  <2>2. All' = All
    BY <1>2, <2>1
  <2>3. Evaluators = {e \in All : EvaluatorFit(e)} /\ Evaluators' = {e \in All' : EvaluatorFit(e)'}
    BY DEF Evaluators
  <2> HIDE DEF All
  <2>4. {e \in All : EvaluatorFit(e)'} = {e \in All : EvaluatorFit(e)}
    BY <1>4
  <2> QED
    BY <2>2, <2>3, <2>4
<1> QED
  BY <1>2, <1>5

(* and the plan,                                                           *)
LEMMA PlanStays ==
    ASSUME SameNetlist, NEW e, NEW top, PlanFit(e, top)
    PROVE  PlanFit(e, top)'
<1>1. Evaluators' = Evaluators /\ \A m, a, n : Evaluator(m, a, n)' = Evaluator(m, a, n)
  BY EvaluatorsStay
<1>2. \A m : ModulesIn(m)' = ModulesIn(m)
  BY DEF SameNetlist, ModulesIn
<1>3. Plans' = Plans
  BY <1>1 DEF Plans
<1>4. \A x, i : SubEvaluator(x, i)' = SubEvaluator(x, i)
  BY <1>1 DEF SameNetlist, SubEvaluator
<1>5. Names' = Names
  BY DEF SameNetlist, Names
<1>6. \A p : (HasParts(e, p)' <=> HasParts(e, p)) /\ (Descends(e, p)' <=> Descends(e, p))
  BY <1>2, <1>4 DEF HasParts, Descends
<1> QED
  BY <1>1, <1>3, <1>5, <1>6 DEF PlanFit

(* and what was proved of the construction.                                *)
LEMMA AcyclicStays ==
    ASSUME SameNetlist, phase' = "eval", Acyclic
    PROVE  Acyclic'
<1>1. /\ Names' = Names
      /\ \A m : YM(m)' = YM(m) /\ Submodules(m)' = Submodules(m)
  BY DEF SameNetlist, YM, Submodules, Cells, Names
<1>2. Exact'
  BY <1>1 DEF SameNetlist, Exact, Acyclic
<1>3. Typed'
  BY <1>1 DEF SameNetlist, Typed, Acyclic, Phases
<1>4. Instantiates' = Instantiates
  BY <1>1 DEF Instantiates
<1> QED
  BY <1>2, <1>3, <1>4 DEF Acyclic

(* The beginning of a cycle.                                               *)
FirstFrame == Frame(Root, "inputs", [k \in DOMAIN built[design.top].inputs |-> k])
Fresh ==
    /\ Acyclic /\ design.top \in DOMAIN built /\ PlanFit(plan, design.top)
    /\ phase = "eval" /\ panic = None /\ place = <<>> /\ checks = <<>>
    /\ query_id = Zeros /\ stack = <<FirstFrame>>

(* A new evaluator satisfies the invariant,                                *)
LEMMA FreshIs == Fresh => EvalInv
<1> SUFFICES ASSUME Fresh
             PROVE  EvalInv
  OBVIOUS
<1>1. Planned
  BY PlanIsPlanned DEF Fresh
<1>2. ModAt(Root) = built[design.top] /\ Root \in DOMAIN plan
  BY <1>1 DEF Planned, ModAt
<1>3. PICK stk : stk = stack
  OBVIOUS
<1>4. /\ Len(stk) = 1 /\ stk[1] = FirstFrame /\ stk = <<FirstFrame>>
  BY <1>3 DEF Fresh
<1>5. /\ stk[1].path = Root /\ stk[1].mode = "inputs"
      /\ IsAll(stk[1].todo, DOMAIN ModAt(Root).inputs)
  BY <1>2, <1>4 DEF FirstFrame, Frame, IsAll
<1>6. FirstFrame \in Frames
  <2>1. PICK n \in Nat : DOMAIN ModAt(Root).inputs = 1..n
    BY <1>1, <1>2, ListsAre
  <2>2. stk[1].todo \in Seq(1..n) /\ 1..n \subseteq Nat
    BY <1>5, <2>1, AllIs
  <2>3. stk[1].todo \in Seq(Nat)
    BY <2>2, NatSeq
  <2> QED
    BY <1>2, <1>4, <2>3 DEF FirstFrame, Frame, Frames
<1>7. stk \in Seq(Frames)
  BY <1>4, <1>6
<1>8. PICK z : z = Zeros
  OBVIOUS
<1>9. Traversed(stk, z, z, "eval")
  BY <1>1, <1>4, <1>5, <1>7, <1>8, Begins DEF IsBegin
<1>10. Valued(stk, z, z, {})
  BY <1>1, <1>4, <1>5, <1>8, BeginsValued
<1>11. DOMAIN place = {} /\ query_id = z /\ phase = "eval" /\ checks = <<>> /\ panic = None
  BY <1>8 DEF Fresh
<1>12. Going(z)
  BY <1>3, <1>9, <1>10, <1>11 DEF Going, Marked
<1> QED
  BY <1>1, <1>11, <1>12 DEF EvalInv, Evaluating, Phases

(* in the next state as well.                                              *)
LEMMA FreshNext == (Fresh => EvalInv)'
<1>1. Fresh => EvalInv
  BY FreshIs
<1> QED
  BY <1>1, PTL

-----------------------------------------------------------------------------
(* The inductive invariant, with what is so of the netlist before.         *)
Inv ==
    /\ EvalInv
    /\ ~Evaluating => Exact /\ Typed /\ Sorted

(* The invariant holds before the construction.                            *)
LEMMA InvBegins == EvalInit => Inv
<1> SUFFICES ASSUME EvalInit
             PROVE  Inv
  OBVIOUS
<1>1. NotYet /\ BuildInit /\ phase = "sort"
  BY DEF EvalInit, NotYet, BuildInit
<1>2. Exact /\ Typed /\ Sorted
  BY <1>1 DEF BuildInit, Exact, Typed, Sorted, NoFailure, None, Phases
<1>3. EvalInv
  BY <1>1 DEF EvalInv, NotYet, Evaluating, Phases
<1> QED
  BY <1>2, <1>3 DEF Inv

(* The construction's steps keep the invariant.                            *)
LEMMA BuildKeeps ==
    ASSUME Inv, Build
    PROVE  Inv'
<1>1. /\ phase \in {"sort", "build", "top"} /\ phase' \in {"build", "top", "ready", "failed"}
      /\ BuildNext /\ UNCHANGED <<plan, stack, place, query_id, checks, panic>>
  <2>1. phase \in {"sort", "build", "top"} /\ phase' \in {"build", "top", "ready", "failed"}
    BY DEF Build, BuildNext, SortModules, AddModule, SelectTop, FailWith
  <2> QED
    BY <2>1 DEF Build, evalVars
<1>2. NotYet /\ Exact /\ Typed /\ Sorted
  BY <1>1 DEF Inv, EvalInv, Evaluating
<1>3. [BuildNext]_buildVars
  BY <1>1
<1>4. Exact' /\ Typed' /\ Sorted'
  BY <1>2, <1>3, ExactStep, TypedStep, SortedStep
<1>5. NotYet' /\ ~Evaluating' /\ phase' \in Phases
  BY <1>1, <1>2 DEF NotYet, Evaluating, Phases
<1>6. phase' # "eval" /\ panic' = None
  BY <1>1, <1>2 DEF NotYet
<1> QED
  BY <1>4, <1>5, <1>6 DEF Inv, EvalInv

(* Creating the evaluators of a netlist begins the evaluation.             *)
LEMMA CreateKeeps ==
    ASSUME Inv, CreateEvaluator
    PROVE  Inv'
<1>1. /\ phase = "ready" /\ plan' = NewEvaluators(design.top) /\ phase' = "eval"
      /\ query_id' = [p \in DOMAIN plan' |-> 0] /\ stack' = <<FirstFrame>>
      /\ UNCHANGED <<place, checks, panic, design, built>>
  BY DEF CreateEvaluator, FirstFrame
<1>2. NotYet /\ Exact /\ Typed /\ Sorted
  BY <1>1 DEF Inv, EvalInv, Evaluating
<1>3. Acyclic /\ design.top \in DOMAIN built
  BY <1>1, <1>2 DEF Exact, Sorted, Acyclic
<1>4. SameNetlist
  BY <1>1 DEF SameNetlist
<1>5. Acyclic'
  BY <1>1, <1>3, <1>4, AcyclicStays
<1>6. PICK e : e = plan'
  OBVIOUS
<1>7. PICK t : t = design.top
  OBVIOUS
<1>8. PlanFit(e, t)
  BY <1>1, <1>3, <1>6, <1>7, PlanIs
<1>9. PlanFit(e, t)'
  BY <1>4, <1>8, PlanStays
<1>10. PlanFit(plan, design.top)'
  <2>1. e = plan' /\ t = design'.top
    BY <1>1, <1>6, <1>7
  <2> QED
    BY <1>9, <2>1
<1>11. query_id' = Zeros' /\ FirstFrame' = FirstFrame
  BY <1>1 DEF Zeros, FirstFrame
<1>12. Fresh'
  BY <1>1, <1>2, <1>3, <1>5, <1>10, <1>11 DEF Fresh, NotYet
<1>13. EvalInv'
  BY <1>12, FreshNext
<1> QED
  BY <1>1, <1>13 DEF Inv, Evaluating

-----------------------------------------------------------------------------
(* What a panic is excused by depends on the netlist only.                 *)
LEMMA ExcusedStays ==
    ASSUME Frozen, NEW why
    PROVE  Excused(why)' <=> Excused(why)
<1>1. \A p : /\ ModAt(p)' = ModAt(p) /\ IsGadgetAt(p)' = IsGadgetAt(p)
             /\ InGadget(p)' = InGadget(p)
  BY PathsStay
<1>2. \A p : GadgetAt(p)' = GadgetAt(p)
  BY <1>1 DEF GadgetAt
<1>3. NestedGadget' <=> NestedGadget
  BY <1>1 DEF Frozen, NestedGadget
<1>4. LateInput' <=> LateInput
  BY <1>1, <1>2 DEF Frozen, LateInput
<1> QED
  BY <1>3, <1>4 DEF Excused

(* A step that keeps the evaluation right keeps the invariant.             *)
LEMMA KeptInv ==
    ASSUME Planned, Kept
    PROVE  Inv'
<1>1. Planned'
  BY PlannedStays DEF Kept
<1>2. phase' \in Phases /\ Evaluating' /\ \E pos : Going(pos)'
  BY DEF Kept, Evaluating, Phases
<1>3. panic' # None => Excused(panic)'
  <2>1. PICK why : why = panic'
    OBVIOUS
  <2>2. Excused(why)' <=> Excused(why)
    BY ExcusedStays DEF Kept
  <2>3. panic' # None => Excused(why)'
    BY <2>1, <2>2 DEF Kept
  <2> QED
    BY <2>1, <2>3
<1>4. EvalInv'
  BY <1>1, <1>2, <1>3 DEF EvalInv, Kept
<1> QED
  BY <1>2, <1>4 DEF Inv

(* Every step of the evaluation and of the checks does.                    *)
LEMMA EvaluateKeeps ==
    ASSUME Inv, Evaluate
    PROVE  Inv'
<1>1. Running
  BY DEF Evaluate, SetInput, EndInputs, EvalWire, CallOutput, ReturnOutput, EndWires, SkipInstance,
         FinishModule, EndFinish, CheckWire, ReturnCheck, Mode, InWires
<1>2. EvalInv /\ Evaluating /\ Planned
  BY <1>1 DEF Inv, EvalInv, NotYet, Running
<1>3. Kept
  <2>1. CASE SetInput
    BY <1>2, <2>1, SetInputKeeps
  <2>2. CASE EndInputs
    BY <1>2, <2>2, EndInputsKeeps
  <2>3. CASE EvalWire
    BY <1>2, <2>3, EvalWireKeeps
  <2>4. CASE CallOutput
    BY <1>2, <2>4, CallOutputKeeps
  <2>5. CASE ReturnOutput
    BY <1>2, <2>5, ReturnOutputKeeps
  <2>6. CASE EndWires
    BY <1>2, <2>6, EndWiresKeeps
  <2>7. CASE SkipInstance
    BY <1>2, <2>7, SkipInstanceKeeps
  <2>8. CASE FinishModule
    BY <1>2, <2>8, FinishModuleKeeps
  <2>9. CASE EndFinish
    BY <1>2, <2>9, EndFinishKeeps
  <2>10. CASE CheckWire
    BY <1>2, <2>10, CheckWireKeeps
  <2>11. CASE ReturnCheck
    BY <1>2, <2>11, ReturnCheckKeeps
  <2> QED
    BY <2>1, <2>2, <2>3, <2>4, <2>5, <2>6, <2>7, <2>8, <2>9, <2>10, <2>11 DEF Evaluate
<1> QED
  BY <1>2, <1>3, KeptInv, Zenon

(* So does a step that changes nothing.                                    *)
LEMMA StutterKeeps ==
    ASSUME Inv, UNCHANGED vars
    PROVE  Inv'
<1>1. /\ Frozen /\ UNCHANGED buildVars /\ UNCHANGED <<phase, stack, place, query_id, checks, panic, plan>>
  BY DEF vars, Frozen, buildVars
<1>2. CASE Evaluating
  <2>1. Planned /\ phase \in {"eval", "check", "over"}
    BY <1>2 DEF Inv, EvalInv, Evaluating
  <2>2. PICK pos : Going(pos)
    BY <1>2 DEF Inv, EvalInv
  <2>3. PICK s : s = stack'
    OBVIOUS
  <2>4. PICK q : q = query_id'
    OBVIOUS
  <2>5. PICK ph : ph = phase'
    OBVIOUS
  <2>6. PICK D : D = DOMAIN place'
    OBVIOUS
  <2>7. PICK C : C = checks'
    OBVIOUS
  <2>8. /\ s = stack /\ q = query_id /\ ph = phase /\ D = DOMAIN place /\ C = checks /\ panic' = panic
    BY <1>1, <2>3, <2>4, <2>5, <2>6, <2>7
  <2>9. Traversed(s, pos, q, ph) /\ (panic' = None => Marked(s, pos, q, ph, D, C))
    BY <2>2, <2>8 DEF Going
  <2>10. /\ ph = "eval" => C = <<>>
         /\ panic' # None => ph = "eval" /\ Excused(panic')
    <3>1. /\ phase = "eval" => checks = <<>>
          /\ panic # None => phase = "eval" /\ Excused(panic)
      BY DEF Inv, EvalInv
    <3> QED
      BY <2>8, <3>1
  <2>11. Kept
    BY <1>1, <2>1, <2>3, <2>4, <2>5, <2>6, <2>7, <2>8, <2>9, <2>10, KeptIs
  <2> QED
    BY <2>1, <2>11, KeptInv
<1>3. CASE ~Evaluating
  <2>1. NotYet /\ Exact /\ Typed /\ Sorted /\ phase \in Phases
    BY <1>3 DEF Inv, EvalInv
  <2>2. Exact' /\ Typed' /\ Sorted'
    BY <1>1, <2>1, ExactStep, TypedStep, SortedStep
  <2>3. NotYet' /\ ~Evaluating' /\ phase' \in Phases /\ phase' # "eval" /\ panic' = None
    BY <1>1, <1>3, <2>1 DEF NotYet, Evaluating
  <2> QED
    BY <2>2, <2>3 DEF Inv, EvalInv
<1> QED
  BY <1>2, <1>3

(* The invariant of the evaluation.                                        *)
LEMMA EvalInvariant == EvalSpec => []Inv
<1>1. EvalInit => Inv
  BY InvBegins
<1>2. ASSUME Inv, [EvalNext]_vars
      PROVE  Inv'
  <2>1. CASE Build
    BY <1>2, <2>1, BuildKeeps
  <2>2. CASE CreateEvaluator
    BY <1>2, <2>2, CreateKeeps
  <2>3. CASE Evaluate
    BY <1>2, <2>3, EvaluateKeeps
  <2>4. CASE UNCHANGED vars
    BY <1>2, <2>4, StutterKeeps
  <2> QED
    BY <1>2, <2>1, <2>2, <2>3, <2>4 DEF EvalNext
<1> QED
  BY <1>1, <1>2, PTL DEF EvalSpec

-----------------------------------------------------------------------------
(* The types of the evaluators.                                            *)
LEMMA FinishIsDriven ==
    ASSUME Planned, NEW p \in DOMAIN plan, NEW w \in Range(plan[p].finish)
    PROVE  DriverOf(ModAt(p), w).kind # "input"
<1> DEFINE e == plan[p]
           s == PathOrders(p)
<1>1. /\ e.finish \in Seq(WiresAt(p))
      /\ IsTodo(e.finish, s.found, InputsAt(p), s.ends[Len(e.order) + 1], Len(s.found))
  BY FlowAt DEF Flow, WiresAt, InputsAt
<1>2. PICK k \in 1..Len(e.finish) : w = e.finish[k]
  BY <1>1 DEF Range
<1>3. e.finish[k] \notin InputsAt(p)
  BY <1>1 DEF IsTodo
<1>4. w \in WiresAt(p)
  BY <1>1, <1>2
<1> QED
  BY <1>2, <1>3, <1>4 DEF InputsAt, InputWires, WiresAt

(* The invariant types the evaluation.                                     *)
LEMMA TypesHold ==
    ASSUME Inv
    PROVE  EvalTypeOK
<1>1. phase \in Phases /\ panic \in Panics \cup {None}
  BY DEF Inv, EvalInv, Excused, Panics
<1>2. CASE ~Evaluating
  <2>1. plan = <<>> /\ stack = <<>> /\ query_id = <<>> /\ checks = <<>>
    BY <1>2 DEF Inv, EvalInv, NotYet
  <2>2. DOMAIN plan = {} /\ DOMAIN query_id = {} /\ DOMAIN checks = {} /\ Range(stack) = {}
    BY <2>1 DEF Range
  <2> QED
    BY <1>1, <2>2 DEF EvalTypeOK
<1>3. CASE Evaluating
  <2>1. Planned
    BY <1>3 DEF Inv, EvalInv
  <2>2. PICK pos : Going(pos)
    BY <1>3 DEF Inv, EvalInv
  <2>3. Positioned(pos, query_id) /\ stack \in Seq(Frames)
    BY <2>2 DEF Going, Traversed, StackFits
  <2>4. DOMAIN query_id = DOMAIN plan
    BY <2>3 DEF Positioned
  <2>5. ASSUME NEW p \in DOMAIN plan
        PROVE  query_id[p] \in 0..(Len(plan[p].order) + 1)
    <3>1. Len(plan[p].order) \in Nat
      BY <2>1, FlowAt
    <3>2. query_id[p] \in Nat /\ query_id[p] <= Len(plan[p].order) + 1
      BY <2>3 DEF Positioned
    <3> QED
      BY <3>1, <3>2
  <2>6. \A f \in Range(stack) : f.path \in DOMAIN plan
    <3>1. ASSUME NEW f \in Frames
          PROVE  f.path \in DOMAIN plan
      BY DEF Frames
    <3>2. Range(stack) \subseteq Frames
      BY <2>3 DEF Range
    <3> QED
      BY <3>1, <3>2
  <2>7. \A c \in DOMAIN checks : checks[c] \in Nat \ {0}
    <3>1. CASE phase = "eval"
      <4>1. checks = <<>>
        BY <3>1 DEF Inv, EvalInv
      <4> QED
        BY <4>1
    <3>2. CASE phase # "eval"
      <4>1. panic = None
        BY <3>2 DEF Inv, EvalInv
      <4>2. ChecksFit(pos, checks)
        BY <2>2, <3>2, <4>1 DEF Going, Marked
      <4> QED
        BY <4>2 DEF ChecksFit
    <3> QED
      BY <3>1, <3>2
  <2> QED
    BY <1>1, <2>1, <2>4, <2>5, <2>6, <2>7, FinishIsDriven DEF EvalTypeOK
<1> QED
  BY <1>2, <1>3

(* The only panics are the excused ones.                                   *)
LEMMA PanicsHold ==
    ASSUME Inv
    PROVE  NoOtherPanic
BY DEF Inv, EvalInv, Excused, NoOtherPanic

(* An evaluation that is over has left no wire without a value.            *)
LEMMA EverythingHolds ==
    ASSUME Inv
    PROVE  EverythingEvaluated
<1>1. SUFFICES ASSUME phase \in {"check", "over"}, panic = None, NEW p \in DOMAIN plan,
                      NEW w \in DOMAIN ModAt(p).source
               PROVE  HasValue(p, w)
  BY DEF EverythingEvaluated
<1>2. PICK pos : Going(pos)
  BY <1>1 DEF Inv, EvalInv, Evaluating
<1>3. AllValued(DOMAIN place)
  BY <1>1, <1>2 DEF Going, Marked
<1>4. w \in WiresAt(p)
  BY <1>1 DEF WiresAt, Wires
<1> QED
  BY <1>1, <1>3, <1>4 DEF AllValued, HasValue

(* Checks that are over have checked each input of a gadget once.          *)
LEMMA ChecksHold ==
    ASSUME Inv
    PROVE  CheckedOnce
<1>1. SUFFICES ASSUME phase = "over", NEW p \in DOMAIN plan, ~IsGadgetAt(p), ~InGadget(p),
                      NEW w \in DOMAIN ModAt(p).source
               PROVE  LET once == IF DriverOf(ModAt(p), w).kind = "input" THEN 0 ELSE 1
                      IN  /\ Times(<<p, w>>) = once
                          /\ \A g \in GadgetSinks(p, w) : Times(g) = once
  BY DEF CheckedOnce
<1>2. Planned /\ panic = None
  BY <1>1 DEF Inv, EvalInv, Evaluating
<1>3. PICK pos : Going(pos)
  BY <1>1 DEF Inv, EvalInv, Evaluating
<1>4. /\ Traversed(<<>>, pos, query_id, "over") /\ ChecksFit(pos, checks)
  BY <1>1, <1>2, <1>3 DEF Going, Marked
<1>5. Ended(query_id, p) /\ Positioned(pos, query_id)
  <2>1. AllEnded(query_id, "over")
    BY <1>2, <1>4, NothingLeft
  <2> QED
    BY <1>1, <1>4, <2>1 DEF AllEnded, Traversed
<1>6. w \in WiresAt(p) /\ (w \in InputsAt(p) <=> DriverOf(ModAt(p), w).kind = "input")
  BY <1>1 DEF WiresAt, Wires, InputsAt, InputWires
<1> DEFINE once == IF w \in InputsAt(p) THEN 0 ELSE 1
<1>7. CountIn(checks, <<p, w>>) = once /\ \A g \in GadgetSinks(p, w) : CountIn(checks, g) = once
  BY <1>1, <1>2, <1>4, <1>5, <1>6, CheckedWhenEnded
<1>8. \A c : Times(c) = CountIn(checks, c)
  BY DEF Times, CountIn
<1> QED
  BY <1>6, <1>7, <1>8

-----------------------------------------------------------------------------
(* The search of the instance with an identifier.                          *)
NextPath(id, p) ==
    IF p \notin DOMAIN plan \/ id = plan[p].ginst THEN p
    ELSE Append(p, CHOOSE i \in DOMAIN plan[p].ids : InRange(plan[p].ids[i], id))
Follows(at, id) ==
    at[0] = Root /\ \A d \in Nat : d # 0 => at[d] = NextPath(id, at[d - 1])

(* The path of an identifier is reached in as many steps down as there are *)
(* modules.                                                                *)
LEMMA PathOfIs ==
    ASSUME NEW id
    PROVE  \E at : Follows(at, id) /\ PathOf(id) = at[Cardinality(Names) + 1]
<1> DEFINE A == {Root} \cup DOMAIN plan \cup {NextPath(id, p) : p \in DOMAIN plan}
           step == [z \in Nat \X A |-> NextPath(id, z[2])]
           Solves(f) == f = [d \in Nat |-> IF d = 0 THEN Root ELSE NextPath(id, f[d - 1])]
           at == CHOOSE f : Solves(f)
           N == Cardinality(Names)
<1>1. Root \in A
  OBVIOUS
<1>2. \A p \in A : NextPath(id, p) \in A
  <2>1. \A p : p \notin DOMAIN plan => NextPath(id, p) = p
    BY DEF NextPath
  <2> QED
    BY <2>1
<1>3. step \in [Nat \X A -> A]
  <2> HIDE DEF A
  <2> QED
    BY <1>2
<1>4. PICK f : Recurses(f, A, Root, step)
  <2> HIDE DEF step, A
  <2> QED
    BY <1>1, <1>3, RecursionSolved
<1>5. Solves(f)
  <2>1. /\ f = [k \in Nat |-> f[k]] /\ f[0] = Root
        /\ \A k \in Nat : k # 0 =>
              f[k] = step[<<k, f[k - 1]>>] /\ <<k, f[k - 1]>> \in Nat \X A
    BY <1>4 DEF Recurses
  <2> HIDE DEF A
  <2>2. \A k \in Nat : f[k] = IF k = 0 THEN Root ELSE NextPath(id, f[k - 1])
    BY <2>1
  <2> HIDE DEF step
  <2> QED
    BY <2>1, <2>2
<1>6. Solves(at)
  <2> HIDE DEF Solves
  <2> QED
    BY <1>5
<1>7. PathOf(id) = at[N + 1]
  BY DEF PathOf, NextPath
<1> HIDE DEF at
<1>8. Follows(at, id)
  BY <1>6 DEF Follows
<1> QED
  BY <1>7, <1>8

(* An identifier of a module, or in the range of one of its instances.     *)
Holds(p, i, id) == i \in DOMAIN plan[p].ids /\ InRange(plan[p].ids[i], id)
Owns(p, id) == id = plan[p].ginst \/ \E i \in DOMAIN plan[p].ids : Holds(p, i, id)

(* A step down goes to the instance whose range has the identifier.        *)
LEMMA NextIsPart ==
    ASSUME Planned, NEW p \in DOMAIN plan, NEW i, NEW id \in Nat, Holds(p, i, id)
    PROVE  NextPath(id, p) = Append(p, i)
<1>1. IdsNest(p) /\ plan[p].ginst \in Nat
  BY DEF Planned, PathFit
<1> DEFINE ids == plan[p].ids
<1>2. i \in DOMAIN ids /\ ids[i].from <= id /\ id < ids[i].to
  BY DEF Holds, InRange
<1>3. \A j \in DOMAIN ids : ids[j].from \in Nat /\ ids[j].to \in Nat /\ plan[p].ginst < ids[j].from
  BY <1>1 DEF IdsNest
<1>4. \A k, l \in DOMAIN ids : k < l => ids[k].to <= ids[l].from
  BY <1>1 DEF IdsNest
<1>5. DOMAIN ids \subseteq Nat
  BY <1>1 DEF IdsNest, Planned, PathFit
<1>6. id # plan[p].ginst
  BY <1>1, <1>2, <1>3
<1>7. \A j \in DOMAIN ids : InRange(ids[j], id) => j = i
  <2> SUFFICES ASSUME NEW j \in DOMAIN ids, InRange(ids[j], id), j # i
               PROVE  FALSE
    OBVIOUS
  <2>1. ids[j].from <= id /\ id < ids[j].to
    BY DEF InRange
  <2>2. i < j \/ j < i
    BY <1>2, <1>5
  <2>3. ids[i].to <= ids[j].from \/ ids[j].to <= ids[i].from
    BY <1>2, <1>4, <2>2
  <2>4. ids[i].to \in Nat /\ ids[j].to \in Nat /\ ids[i].from \in Nat /\ ids[j].from \in Nat
    BY <1>2, <1>3
  <2> QED
    BY <1>2, <2>1, <2>3, <2>4
<1>8. (CHOOSE j \in DOMAIN ids : InRange(ids[j], id)) = i
  BY <1>2, <1>7 DEF InRange
<1> QED
  BY <1>6, <1>8 DEF NextPath

(* An identifier of an instance is in the range its parent gave it.        *)
LEMMA OwnerAbove ==
    ASSUME Planned, NEW p \in DOMAIN plan, NEW i \in Parts(p), NEW id \in Nat, Owns(Append(p, i), id)
    PROVE  Holds(p, i, id)
<1> DEFINE s == Append(p, i)
<1>1. /\ IdsNest(p) /\ IsPart(p, i) /\ s \in DOMAIN plan
      /\ i \in DOMAIN ModAt(p).instances /\ IsModule(Inst(p, i))
  BY DEF Planned, PathFit, IsPart, Parts
<1>2. IdsNest(s) /\ plan[s].ginst \in Nat
  BY <1>1 DEF Planned, PathFit
<1>3. /\ i \in DOMAIN plan[p].ids /\ plan[p].ids[i].from \in Nat /\ plan[p].ids[i].to \in Nat
      /\ plan[p].ids[i].from < plan[p].ids[i].to
      /\ \A j \in DOMAIN plan[s].ids : plan[s].ids[j].to <= plan[p].ids[i].to
  BY <1>1 DEF IdsNest, IsModule
<1>4. plan[s].ginst = plan[p].ids[i].from
  BY <1>1 DEF IsPart
<1>5. CASE id = plan[s].ginst
  BY <1>3, <1>4, <1>5 DEF Holds, InRange
<1>6. ASSUME NEW j \in DOMAIN plan[s].ids, Holds(s, j, id)
      PROVE  Holds(p, i, id)
  <2>1. plan[s].ids[j].from <= id /\ id < plan[s].ids[j].to
    BY <1>6 DEF Holds, InRange
  <2>2. /\ plan[s].ids[j].from \in Nat /\ plan[s].ids[j].to \in Nat
        /\ plan[s].ginst < plan[s].ids[j].from
    BY <1>2 DEF IdsNest
  <2>3. plan[p].ids[i].from <= id /\ id < plan[p].ids[i].to
    <3>1. plan[s].ids[j].to <= plan[p].ids[i].to
      BY <1>3
    <3> QED
      BY <1>2, <1>3, <1>4, <2>1, <2>2, <3>1
  <2> QED
    BY <1>3, <2>3 DEF Holds, InRange
<1> QED
  BY <1>5, <1>6 DEF Owns

(* The search goes by every module that owns the identifier.               *)
LEMMA SearchReaches ==
    ASSUME Planned, NEW id \in Nat, NEW at, Follows(at, id)
    PROVE  \A p \in DOMAIN plan : Owns(p, id) => at[Len(p)] = p
<1> DEFINE B == DOMAIN plan
           Bad == {p \in B : Owns(p, id) /\ at[Len(p)] # p}
           h == [p \in B |-> Len(p)]
<1>1. \A p \in B : h[p] \in Nat /\ h[p] = Len(p)
  BY FlowAt
<1>2. SUFFICES ASSUME Bad # {}
               PROVE  FALSE
  OBVIOUS
<1>3. PICK p \in Bad : \A x \in B : h[x] < h[p] => x \notin Bad
  <2> HIDE DEF h
  <2>1. Bad \in SUBSET B
    OBVIOUS
  <2> HIDE DEF Bad, B
  <2> QED
    BY <1>1, <1>2, <2>1, LeastRank
<1>4. p # Root
  <2>1. Len(Root) = 0
    BY DEF Root
  <2> QED
    BY <2>1 DEF Follows
<1>5. PICK x \in DOMAIN plan : \E i \in Parts(x) : p = Append(x, i)
  BY <1>4 DEF Planned, PathFit
<1>6. PICK i \in Parts(x) : p = Append(x, i)
  BY <1>5
<1>7. /\ x \in Seq(Nat) /\ p \in Seq(Nat) /\ i \in Nat /\ Len(p) = Len(x) + 1 /\ Len(x) \in Nat
  BY <1>6, FlowAt, PartIs DEF IsPart, Parts
<1>8. Holds(x, i, id)
  BY <1>3, <1>6, OwnerAbove
<1>9. at[Len(x)] = x
  <2>1. h[x] < h[p]
    BY <1>1, <1>7
  <2>2. Owns(x, id)
    BY <1>8 DEF Owns, Holds
  <2> QED
    BY <1>3, <2>1, <2>2
<1>10. at[Len(x) + 1] = NextPath(id, at[Len(x)])
  <2>1. Len(x) + 1 \in Nat /\ Len(x) + 1 # 0 /\ (Len(x) + 1) - 1 = Len(x)
    BY <1>7
  <2> QED
    BY <2>1 DEF Follows
<1>11. at[Len(p)] = p
  BY <1>6, <1>7, <1>8, <1>9, <1>10, NextIsPart
<1> QED
  BY <1>3, <1>11

(* ... and stays where it ends.                                            *)
LEMMA SearchStays ==
    ASSUME NEW id, NEW at, Follows(at, id), NEW n \in Nat, NEW p, at[n] = p, NextPath(id, p) = p,
           NEW m \in Nat, n <= m
    PROVE  at[m] = p
<1> DEFINE T == {k \in Nat : n <= k /\ at[k] # p}
<1>1. SUFFICES ASSUME T # {}
               PROVE  FALSE
  OBVIOUS
<1>2. PICK k \in T : \A y \in T : k <= y
  <2> HIDE DEF T
  <2>1. T \subseteq Nat
    BY DEF T
  <2> QED
    BY <1>1, <2>1, LeastIndex
<1>3. k \in Nat /\ n < k /\ k # 0 /\ k - 1 \in Nat /\ n <= k - 1 /\ ~(k <= k - 1)
  <2>1. k \in Nat /\ n <= k /\ k # n
    BY <1>2
  <2> QED
    BY <2>1
<1>4. at[k - 1] = p
  BY <1>2, <1>3
<1>5. at[k] = NextPath(id, at[k - 1])
  BY <1>3 DEF Follows
<1> QED
  BY <1>2, <1>4, <1>5

(* An identifier leads to the instance that was numbered with it.          *)
LEMMA IdsHold ==
    ASSUME Inv
    PROVE  IdsNameInstances
<1>1. SUFFICES ASSUME phase = "eval", NEW p \in DOMAIN plan
               PROVE  /\ PathOf(plan[p].ginst) = p
                      /\ \A i \in DOMAIN plan[p].ids :
                            Inst(p, i).kind = "cell" /\ ~IsModule(Inst(p, i))
                                => PathOf(plan[p].ids[i].from) = Append(p, i)
  BY DEF IdsNameInstances
<1>2. Planned
  BY <1>1 DEF Inv, EvalInv, Evaluating
<1> DEFINE N == Cardinality(Names)
<1>3. /\ N \in Nat /\ Len(p) \in Nat /\ Len(p) < N /\ IdsNest(p) /\ plan[p].ginst \in Nat
      /\ p \in Seq(Nat)
  BY <1>2 DEF Planned, PathFit
<1>4. N + 1 \in Nat /\ Len(p) <= N + 1 /\ Len(p) + 1 <= N + 1 /\ Len(p) + 1 \in Nat
  BY <1>3
<1> HIDE DEF N
<1>5. PathOf(plan[p].ginst) = p
  <2> DEFINE id == plan[p].ginst
  <2>1. PICK at : Follows(at, id) /\ PathOf(id) = at[N + 1]
    BY PathOfIs DEF N
  <2>2. at[Len(p)] = p
    BY <1>2, <1>3, <2>1, SearchReaches DEF Owns
  <2>3. NextPath(id, p) = p
    BY DEF NextPath
  <2>4. at[N + 1] = p
    BY <1>3, <1>4, <2>1, <2>2, <2>3, SearchStays
  <2> QED
    BY <2>1, <2>4
<1>6. ASSUME NEW i \in DOMAIN plan[p].ids, Inst(p, i).kind = "cell", ~IsModule(Inst(p, i))
      PROVE  PathOf(plan[p].ids[i].from) = Append(p, i)
  <2>1. PICK id : id = plan[p].ids[i].from
    OBVIOUS
  <2>2. /\ id \in Nat /\ plan[p].ids[i].to \in Nat /\ id < plan[p].ids[i].to
        /\ i \in DOMAIN ModAt(p).instances
    BY <1>3, <1>6, <2>1 DEF IdsNest
  <2>3. Holds(p, i, id)
    BY <2>1, <2>2 DEF Holds, InRange
  <2>4. PICK at : Follows(at, id) /\ PathOf(id) = at[N + 1]
    BY PathOfIs DEF N
  <2>5. at[Len(p)] = p
    BY <1>2, <2>2, <2>3, <2>4, SearchReaches DEF Owns
  <2>6. at[Len(p) + 1] = NextPath(id, at[Len(p)])
    <3>1. (Len(p) + 1) - 1 = Len(p) /\ Len(p) + 1 # 0
      BY <1>3
    <3> QED
      BY <1>4, <2>4, <3>1 DEF Follows
  <2>7. at[Len(p) + 1] = Append(p, i)
    BY <1>2, <2>2, <2>3, <2>5, <2>6, NextIsPart
  <2>8. NextPath(id, Append(p, i)) = Append(p, i)
    <3>1. Append(p, i) \notin DOMAIN plan
      BY <1>2, <1>6, <2>2, PartIs
    <3> QED
      BY <3>1 DEF NextPath
  <2>9. at[N + 1] = Append(p, i)
    <3>1. PICK n, m, t : n = Len(p) + 1 /\ m = N + 1 /\ t = Append(p, i)
      OBVIOUS
    <3>2. n \in Nat /\ m \in Nat /\ n <= m
      BY <1>3, <1>4, <3>1
    <3>3. Follows(at, id) /\ at[n] = t /\ NextPath(id, t) = t
      BY <2>4, <2>7, <2>8, <3>1
    <3>4. at[m] = t
      BY <3>2, <3>3, SearchStays
    <3> QED
      BY <3>1, <3>4
  <2> QED
    BY <2>1, <2>4, <2>9
<1> QED
  BY <1>5, <1>6

-----------------------------------------------------------------------------
(* The evaluators have their types at every step: each output is queried   *)
(* at most as often as the order computed by ModuleEvaluator::new says.    *)
THEOREM EvaluatorTypes == EvalSpec => []EvalTypeOK
<1>1. Inv => EvalTypeOK
  BY TypesHold
<1> QED
  BY <1>1, EvalInvariant, PTL

(* Evaluation panics in no netlist that is built, but for a gadget inside  *)
(* a gadget or one with an output in its first stage and a later input.    *)
THEOREM EvaluationIsOrdered == EvalSpec => []NoOtherPanic
<1>1. Inv => NoOtherPanic
  BY PanicsHold
<1> QED
  BY <1>1, EvalInvariant, PTL, Zenon

(* After a cycle every wire of every module instance has a value.          *)
THEOREM AllWiresEvaluated == EvalSpec => []EverythingEvaluated
<1>1. Inv => EverythingEvaluated
  BY EverythingHolds
<1> QED
  BY <1>1, EvalInvariant, PTL

(* The checks go over each wire outside of gadgets, and each gadget input, *)
(* exactly once.                                                           *)
THEOREM WiresCheckedOnce == EvalSpec => []CheckedOnce
<1>1. Inv => CheckedOnce
  BY ChecksHold
<1> QED
  BY <1>1, EvalInvariant, PTL

(* The identifier given to an instance leads back to it.                   *)
THEOREM IdentifiersNameInstances == EvalSpec => []IdsNameInstances
<1>1. Inv => IdsNameInstances
  BY IdsHold
<1> QED
  BY <1>1, EvalInvariant, PTL

=============================================================================
