-------------------------- MODULE SimulatorProofs ---------------------------
(***************************************************************************)
(* Proofs about the simulator, for every netlist, every trace and every    *)
(* length. First what a wire state says of one wire: the vectors of        *)
(* NspgiDep implement functions, and each gate makes a state that is sound *)
(* for the values of its output in two executions, for any number of       *)
(* shares, randoms and gadgets, the simplifications of CombBinary::sim and *)
(* sim_mux by known control values included. Then the whole simulator with *)
(* gadgets (AuditedSim) and, for netlists without gadgets, beside two      *)
(* executions of the circuit (TwinRun). What a wire state says of gadget   *)
(* executions is what the wire depends on, wire states are consistent, and *)
(* in a run that passes the data of an execution only comes back to its    *)
(* gadget after a pipeline bubble; glitches are those of combinational     *)
(* cones and no cone mixes shares; annotations cover what is inside of a   *)
(* pipeline. What the trackers count is enough to find every random bit    *)
(* that a sensitive execution shares with anything else, although          *)
(* executions overlap in the pipeline, their leaks are recorded only once  *)
(* they are complete, and the windows are pruned in between. The types of  *)
(* the simulator follow.                                                   *)
(***************************************************************************)
EXTENDS AuditedSim, TwinRun, RecSim, NspgiDep, SharedLemmas, FiniteSetTheorems, TLAPS

-----------------------------------------------------------------------------
(* The vectors of NspgiDep implement the functions of WireState, and,      *)
(* although it compares vectors, is_larger_than compares what they mean.   *)

(* Entries of a vector, within its length or beyond it.                    *)
LEMMA EntryType ==
    ASSUME NEW v \in Vectors, NEW g
    PROVE  /\ v \in Seq(Entry) /\ Len(v) \in Nat
           /\ DOMAIN v = 1..Len(v)
           /\ last(v, g) \in Entry
  BY DEF Vectors, last, Entry, NoExec

(* A vector of which no entry is set is the empty one.                     *)
LEMMA EmptyVector ==
    ASSUME NEW v \in Vectors, is_empty(v)
    PROVE  v = <<>>
<1>1. CASE Len(v) = 0
  BY <1>1, EntryType
<1>2. CASE Len(v) # 0
  <2>1. Len(v) \in DOMAIN v
    BY <1>2, EntryType
  <2> QED
    BY <2>1 DEF is_empty, Vectors
<1> QED
  BY <1>1, <1>2

(* The larger of two entries, None being less than any cycle.              *)
LEMMA LargerFacts ==
    ASSUME NEW c \in Entry, NEW d \in Entry
    PROVE  /\ Larger(c, d) \in Entry
           /\ c <= Larger(c, d) /\ d <= Larger(c, d)
           /\ Larger(c, NoExec) = c /\ Larger(NoExec, d) = d
           /\ c = Larger(c, d) <=> d <= c
  BY DEF Larger, Entry, NoExec

(* zip_longest: the length of the result, and its entries.                 *)
LEMMA ZipMax ==
    ASSUME NEW v \in Vectors, NEW w \in Vectors, ~is_empty(v), ~is_empty(w)
    PROVE  /\ zip_max(v, w) \in Vectors
           /\ \A g : last(zip_max(v, w), g) = Larger(last(v, g), last(w, g))
<1> DEFINE n == Larger(Len(v), Len(w))
<1>0. /\ Len(v) \in Nat /\ Len(w) \in Nat
      /\ DOMAIN v = 1..Len(v) /\ DOMAIN w = 1..Len(w)
      /\ \A i \in 1..Len(v) : v[i] \in Entry
      /\ \A i \in 1..Len(w) : w[i] \in Entry
  BY EntryType DEF Vectors
<1>1. /\ n \in Nat /\ Len(v) <= n /\ Len(w) <= n
      /\ n = Len(v) \/ n = Len(w)
  BY <1>0 DEF Larger
<1>2. DOMAIN zip_max(v, w) = 1..n
  BY DEF zip_max
<1>3. \A i \in 1..n : zip_max(v, w)[i] = Larger(last(v, i), last(w, i))
  <2> SUFFICES ASSUME NEW i \in 1..n
               PROVE  zip_max(v, w)[i] = Larger(last(v, i), last(w, i))
    OBVIOUS
  <2>1. last(v, i) \in Entry /\ last(w, i) \in Entry
    BY EntryType
  <2>2. CASE i > Len(w)
    BY <1>0, <1>1, <2>1, <2>2, LargerFacts DEF zip_max, last
  <2>3. CASE i <= Len(w) /\ i > Len(v)
    BY <1>0, <1>1, <2>1, <2>3, LargerFacts DEF zip_max, last
  <2>4. CASE i <= Len(w) /\ i <= Len(v)
    BY <1>0, <1>1, <2>4 DEF zip_max, last
  <2> QED
    BY <1>0, <1>1, <2>2, <2>3, <2>4
<1>4. \A i \in 1..n : zip_max(v, w)[i] \in Entry
  BY <1>3, EntryType, LargerFacts
<1>5. zip_max(v, w) \in Seq(Entry) /\ Len(zip_max(v, w)) = n
  <2>1. zip_max(v, w) \in [1..n -> Entry]
    BY <1>2, <1>4 DEF zip_max
  <2> QED
    BY <1>1, <2>1
<1>6. n = 0 \/ zip_max(v, w)[n] # NoExec
  <2>1. CASE n # 0 /\ n = Len(v)
    <3>1. last(v, n) = v[n] /\ v[n] # NoExec /\ v[n] \in Nat
      BY <1>0, <1>1, <2>1 DEF last, Vectors, Entry
    <3>2. last(v, n) <= Larger(last(v, n), last(w, n))
      BY EntryType, LargerFacts
    <3> QED
      BY <1>1, <1>3, <1>4, <2>1, <3>1, <3>2 DEF NoExec, Entry
  <2>2. CASE n # 0 /\ n = Len(w)
    <3>1. last(w, n) = w[n] /\ w[n] # NoExec /\ w[n] \in Nat
      BY <1>0, <1>1, <2>2 DEF last, Vectors, Entry
    <3>2. last(w, n) <= Larger(last(v, n), last(w, n))
      BY EntryType, LargerFacts
    <3> QED
      BY <1>1, <1>3, <1>4, <2>2, <3>1, <3>2 DEF NoExec, Entry
  <2> QED
    BY <1>1, <2>1, <2>2
<1>7. zip_max(v, w) \in Vectors
  BY <1>5, <1>6 DEF Vectors
<1>8. ASSUME NEW g
      PROVE  last(zip_max(v, w), g) = Larger(last(v, g), last(w, g))
  <2>1. CASE g \in 1..n
    BY <1>2, <1>3, <2>1 DEF last
  <2>2. CASE g \notin 1..n
    <3>1. g \notin 1..Len(v) /\ g \notin 1..Len(w)
      BY <1>0, <1>1, <2>2
    <3> QED
      BY <1>0, <1>2, <2>2, <3>1 DEF last, Larger
  <2> QED
    BY <2>1, <2>2
<1> QED
  BY <1>7, <1>8

(* max keeps vectors free of trailing None, and each gadget's entry is the *)
(* larger one of the two, whatever the lengths (NspgiDep::max).            *)
THEOREM MaxIsPointwise ==
    ASSUME NEW v \in Vectors, NEW w \in Vectors
    PROVE  /\ max(v, w) \in Vectors
           /\ \A g : last(max(v, w), g) = Larger(last(v, g), last(w, g))
<1>1. CASE is_empty(v)
  <2>1. \A g : last(v, g) = NoExec /\ last(w, g) \in Entry
    BY <1>1, EmptyVector, EntryType DEF last
  <2> QED
    BY <1>1, <2>1, LargerFacts DEF max
<1>2. CASE ~is_empty(v) /\ is_empty(w)
  <2>1. \A g : last(w, g) = NoExec /\ last(v, g) \in Entry
    BY <1>2, EmptyVector, EntryType DEF last
  <2> QED
    BY <1>2, <2>1, LargerFacts DEF max, Entry
<1>3. CASE ~is_empty(v) /\ ~is_empty(w) /\ v = w
  BY <1>3 DEF max, Larger
<1>4. CASE ~is_empty(v) /\ ~is_empty(w) /\ v # w
  BY <1>4, ZipMax DEF max
<1> QED
  BY <1>1, <1>2, <1>3, <1>4

(* Vectors without trailing None that agree on every gadget are equal: the *)
(* comparison of vectors in is_larger_than depends on it.                  *)
LEMMA Extensional ==
    ASSUME NEW v \in Vectors, NEW w \in Vectors,
           \A g : last(v, g) = last(w, g)
    PROVE  v = w
<1>1. ASSUME NEW x \in Vectors, NEW y \in Vectors,
             \A g : last(x, g) = last(y, g)
      PROVE  Len(x) <= Len(y)
  <2> SUFFICES ASSUME Len(y) < Len(x)
               PROVE  FALSE
    BY EntryType
  <2>1. Len(x) \in DOMAIN x /\ Len(x) \notin DOMAIN y /\ x # <<>>
    BY EntryType
  <2>2. last(x, Len(x)) # NoExec /\ last(y, Len(x)) = NoExec
    BY <2>1 DEF last, Vectors
  <2> QED
    BY <1>1, <2>2
<1>2. Len(v) <= Len(w) /\ Len(w) <= Len(v)
  BY <1>1
<1>3. Len(v) = Len(w) /\ DOMAIN v = DOMAIN w
  BY <1>2, EntryType
<1>4. \A i \in DOMAIN v : v[i] = w[i]
  BY <1>3 DEF last
<1>5. v \in [1..Len(v) -> Entry] /\ w \in [1..Len(w) -> Entry]
  BY EntryType
<1>6. v = [i \in DOMAIN v |-> v[i]] /\ w = [i \in DOMAIN w |-> w[i]]
  BY <1>5, Zenon
<1>7. [i \in DOMAIN v |-> v[i]] = [i \in DOMAIN w |-> w[i]]
  BY <1>3, <1>4, Zenon
<1> QED
  BY <1>6, <1>7, Zenon

(* is_larger_than says that every gadget's entry is at least as late: what *)
(* PipelineGadgetEvaluator::eval_output asserts of the dependencies that   *)
(* it computes from the annotations.                                       *)
THEOREM LargerIsPointwise ==
    ASSUME NEW v \in Vectors, NEW w \in Vectors
    PROVE  is_larger_than(v, w) <=> \A g : last(w, g) <= last(v, g)
<1>1. \A g : v = max(v, w) => last(v, g) = Larger(last(v, g), last(w, g))
  BY MaxIsPointwise
<1>2. \A g : last(v, g) \in Entry /\ last(w, g) \in Entry
  BY EntryType
<1>3. is_larger_than(v, w) => \A g : last(w, g) <= last(v, g)
  BY <1>1, <1>2, LargerFacts DEF is_larger_than
<1>4. ASSUME \A g : last(w, g) <= last(v, g)
      PROVE  is_larger_than(v, w)
  <2>1. \A g : last(v, g) = last(max(v, w), g)
    BY <1>2, <1>4, LargerFacts, MaxIsPointwise
  <2> QED
    BY <2>1, Extensional, MaxIsPointwise DEF is_larger_than
<1> QED
  BY <1>3, <1>4

(* The vectors implement the functions that WireState has for them.        *)
THEOREM VectorsImplementFunctions ==
    /\ empty \in Vectors /\ Deps(empty) = NoDep
    /\ \A g \in Nspgis, c \in Nat :
          single(g, c) \in Vectors /\ Deps(single(g, c)) = DepSingle(g, c)
    /\ \A v \in Vectors, w \in Vectors : Deps(max(v, w)) = DepMax(Deps(v), Deps(w))
<1>1. empty \in Vectors /\ Deps(empty) = NoDep
  BY DEF empty, Vectors, Deps, NoDep, last
<1>2. ASSUME NEW g \in Nspgis, NEW c \in Nat
      PROVE  single(g, c) \in Vectors /\ Deps(single(g, c)) = DepSingle(g, c)
  <2>1. g \in Nat /\ g # 0
    BY GadgetsAssumption DEF Nspgis
  <2>2. single(g, c) \in [1..g -> Entry]
    BY <2>1 DEF single, Entry
  <2>3. single(g, c) \in Seq(Entry) /\ Len(single(g, c)) = g
    BY <2>1, <2>2
  <2>4. single(g, c)[g] = c /\ c # NoExec
    BY <2>1 DEF single, NoExec
  <2>5. single(g, c) \in Vectors
    BY <2>3, <2>4 DEF Vectors
  <2>6. ASSUME NEW h \in Nspgis
        PROVE  last(single(g, c), h) = DepSingle(g, c)[h]
    BY <2>1, GadgetsAssumption DEF last, single, DepSingle, NoDep, Nspgis
  <2>7. Deps(single(g, c)) = DepSingle(g, c)
    BY <2>6 DEF Deps, DepSingle, NoDep
  <2> QED
    BY <2>5, <2>7
<1>3. ASSUME NEW v \in Vectors, NEW w \in Vectors
      PROVE  Deps(max(v, w)) = DepMax(Deps(v), Deps(w))
  BY MaxIsPointwise DEF Deps, DepMax, Larger
<1> QED
  BY <1>1, <1>2, <1>3

-----------------------------------------------------------------------------
(* Wire states, and the values of the wire in two executions.              *)

ExecIds == {NoExec} \cup Nat
WireStates ==
    [sensitivity : SUBSET Nat, glitch_sensitivity : SUBSET Nat, value : Bit \cup {X},
     random : SUBSET (Nat \X Int), deterministic : BOOLEAN, nspgi_dep : [Nspgis -> ExecIds]]

(* A state of wire w, which has value u in one execution and v in another. *)
WellFormed(w) == w \in WireStates /\ Consistent(w) /\ \A r, s \in w.random : r = s

(* The value and the flag deterministic are right.                         *)
Known(w, u, v) == w.value \in {X, u} /\ (w.deterministic => u = v)

(* When only the shares of diff differ between the executions.             *)
Senses(w, u, v, diff) == u # v => w.sensitivity \cap diff # {}

(* When only random r differs and n leaks of it were recorded.             *)
Carries(w, u, v, r, n) ==
    /\ n = 0 /\ u # v => w.random = {r}
    /\ n <= 1 /\ w.random = {r} => u # v

(* A binary gate keeps states well formed.                                 *)
LEMMA BinaryWellFormed ==
    ASSUME NEW gate \in BinaryGates, NEW op0, NEW op1, WellFormed(op0), WellFormed(op1)
    PROVE  WellFormed(BinarySim(gate, op0, op1))
<1>1. opx(gate, op0.value, op1.value) \in Bit \cup {X}
  BY DEF opx, Truth, BinaryGates, Bit, X, WellFormed, WireStates, neutral
<1>2. DepMax(op0.nspgi_dep, op1.nspgi_dep) \in [Nspgis -> ExecIds]
  BY DEF DepMax, WellFormed, WireStates
<1>3. Joined(gate, op0, op1) \in WireStates
  BY <1>1, <1>2 DEF Joined, WellFormed, WireStates
<1>4. WellFormed(Joined(gate, op0, op1))
  BY <1>3 DEF Joined, WellFormed, WireStates, Consistent
<1>5. ASSUME NEW w, WellFormed(w), w.sensitivity \subseteq op0.glitch_sensitivity \cup op1.glitch_sensitivity
      PROVE  WellFormed([w EXCEPT !.glitch_sensitivity = op0.glitch_sensitivity \cup op1.glitch_sensitivity])
  BY <1>5 DEF WellFormed, WireStates, Consistent
<1>6. Joined(gate, op0, op1).sensitivity \subseteq op0.glitch_sensitivity \cup op1.glitch_sensitivity
  BY DEF Joined, WellFormed, Consistent
<1> QED
  BY <1>4, <1>5, <1>6 DEF BinarySim, WellFormed, Consistent

(* A mux keeps states well formed.                                         *)
LEMMA MuxWellFormed ==
    ASSUME NEW op0, NEW op1, NEW ops, WellFormed(op0), WellFormed(op1), WellFormed(ops)
    PROVE  WellFormed(MuxSim(op0, op1, ops))
<1>1. DepMax(DepMax(op0.nspgi_dep, op1.nspgi_dep), ops.nspgi_dep) \in [Nspgis -> ExecIds]
  BY DEF DepMax, WellFormed, WireStates
<1>2. MuxJoined(op0, op1, ops) \in WireStates
  BY <1>1 DEF MuxJoined, WellFormed, WireStates
<1>3. WellFormed(MuxJoined(op0, op1, ops))
  BY <1>2 DEF MuxJoined, WellFormed, WireStates, Consistent
<1>4. ASSUME NEW w, WellFormed(w), NEW glitches \in SUBSET Nat
      PROVE  WellFormed(with_glitches(w, glitches))
  BY <1>4 DEF with_glitches, WellFormed, WireStates, Consistent
<1> QED
  BY <1>3, <1>4 DEF MuxSim, WellFormed, WireStates

-----------------------------------------------------------------------------
(* An operand that is a known control value has it in both executions.     *)
LEMMA ControlValue ==
    ASSUME NEW w, NEW u, NEW v, Known(w, u, v), NEW val \in Bit, is_control(w, val)
    PROVE  u = val /\ v = val
BY DEF is_control, glitch_deterministic, Known, X, Bit

(* What a gate passes on of its operands.                                  *)
LEMMA PassedOperand ==
    ASSUME NEW gate \in BinaryGates, NEW other, NEW op,
           NEW u \in Bit, NEW v \in Bit, NEW x \in Bit, NEW y \in Bit,
           Known(other, u, v), Known(op, x, y), Passes(gate, other, op)
    PROVE  /\ Truth(gate, u, x) = x /\ Truth(gate, v, y) = y
           /\ Truth(gate, x, u) = x /\ Truth(gate, y, v) = y
<1>1. CASE is_control(other, neutral(gate))
  <2>1. u = neutral(gate) /\ v = neutral(gate)
    BY <1>1, ControlValue DEF neutral, Bit
  <2> QED
    BY <2>1 DEF Truth, neutral, Bit, BinaryGates
<1>2. CASE \E val \in absorb(gate) : is_control(op, val)
  <2>1. PICK val \in absorb(gate) : is_control(op, val)
    BY <1>2
  <2>2. val \in Bit
    BY <2>1 DEF absorb, Bit, BinaryGates
  <2>3. x = val /\ y = val
    BY <2>1, <2>2, ControlValue
  <2> QED
    BY <2>1, <2>3 DEF Truth, absorb, Bit, BinaryGates
<1> QED
  BY <1>1, <1>2 DEF Passes

(* The three cases of CombBinary::sim.                                     *)
LEMMA BinaryCases ==
    ASSUME NEW gate \in BinaryGates, NEW op0, NEW op1, WellFormed(op0), WellFormed(op1)
    PROVE  LET res == BinarySim(gate, op0, op1)
               Same(w) == /\ res.value = w.value /\ res.sensitivity = w.sensitivity
                          /\ res.random = w.random /\ res.deterministic = w.deterministic
           IN  \/ Passes(gate, op0, op1) /\ Same(op1)
               \/ Passes(gate, op1, op0) /\ Same(op0)
               \/ ~Passes(gate, op0, op1) /\ ~Passes(gate, op1, op0) /\ Same(Joined(gate, op0, op1))
<1>1. ASSUME NEW w, DOMAIN w = DOMAIN nil, NEW g
      PROVE  LET res == [w EXCEPT !.glitch_sensitivity = g]
             IN  /\ res.value = w.value /\ res.sensitivity = w.sensitivity
                 /\ res.random = w.random /\ res.deterministic = w.deterministic
  BY <1>1 DEF nil
<1>2. DOMAIN op0 = DOMAIN nil /\ DOMAIN op1 = DOMAIN nil /\ DOMAIN Joined(gate, op0, op1) = DOMAIN nil
  BY DEF WellFormed, WireStates, nil, Joined
<1> QED
  BY <1>1, <1>2 DEF BinarySim

(* What a multiplexer puts on its output.                                  *)
Chosen(us, u0, u1) == IF us = 0 THEN u0 ELSE u1

(* The value, the flag deterministic and the sensitivity of the output of  *)
(* AND, OR and XOR gates are right when those of their operands are.       *)
THEOREM BinarySound ==
    ASSUME NEW gate \in BinaryGates, NEW op0, NEW op1, WellFormed(op0), WellFormed(op1),
           NEW u0 \in Bit, NEW v0 \in Bit, NEW u1 \in Bit, NEW v1 \in Bit,
           Known(op0, u0, v0), Known(op1, u1, v1)
    PROVE  /\ Known(BinarySim(gate, op0, op1), Truth(gate, u0, u1), Truth(gate, v0, v1))
           /\ \A diff : Senses(op0, u0, v0, diff) /\ Senses(op1, u1, v1, diff) =>
                  Senses(BinarySim(gate, op0, op1), Truth(gate, u0, u1), Truth(gate, v0, v1), diff)
<1> DEFINE res == BinarySim(gate, op0, op1)
           Same(w) == /\ res.value = w.value /\ res.sensitivity = w.sensitivity
                      /\ res.random = w.random /\ res.deterministic = w.deterministic
           Sound == /\ Known(res, Truth(gate, u0, u1), Truth(gate, v0, v1))
                    /\ \A diff : Senses(op0, u0, v0, diff) /\ Senses(op1, u1, v1, diff) =>
                           Senses(res, Truth(gate, u0, u1), Truth(gate, v0, v1), diff)
<1> SUFFICES Sound
  OBVIOUS
<1>1. CASE Passes(gate, op0, op1) /\ Same(op1)
  <2>1. Truth(gate, u0, u1) = u1 /\ Truth(gate, v0, v1) = v1
    BY <1>1, PassedOperand
  <2> QED
    BY <1>1, <2>1 DEF Known, Senses
<1>2. CASE Passes(gate, op1, op0) /\ Same(op0)
  <2>1. Truth(gate, u0, u1) = u0 /\ Truth(gate, v0, v1) = v0
    BY <1>2, PassedOperand
  <2> QED
    BY <1>2, <2>1 DEF Known, Senses
<1>3. CASE Same(Joined(gate, op0, op1))
  <2>1. /\ res.value = opx(gate, op0.value, op1.value)
        /\ res.deterministic = (op0.deterministic /\ op1.deterministic)
        /\ res.sensitivity = op0.sensitivity \cup op1.sensitivity
    BY <1>3 DEF Joined
  <2>2. res.value \in {X, Truth(gate, u0, u1)}
    <3>1. op0.value \in {X, u0} /\ op1.value \in {X, u1}
      BY DEF Known
    <3> QED
      BY <2>1, <3>1 DEF opx, Truth, absorb, neutral, BinaryGates, Bit, X
  <2>3. res.deterministic => Truth(gate, u0, u1) = Truth(gate, v0, v1)
    BY <2>1 DEF Known
  <2>4. Truth(gate, u0, u1) # Truth(gate, v0, v1) => u0 # v0 \/ u1 # v1
    OBVIOUS
  <2> HIDE DEF res
  <2> QED
    BY <2>1, <2>2, <2>3, <2>4 DEF Known, Senses
<1>4. \/ Passes(gate, op0, op1) /\ Same(op1)
      \/ Passes(gate, op1, op0) /\ Same(op0)
      \/ Same(Joined(gate, op0, op1))
  BY BinaryCases
<1> HIDE DEF Sound
<1> QED
  BY <1>1, <1>2, <1>3, <1>4

(* And so it is for multiplexers.                                          *)
THEOREM MuxSound ==
    ASSUME NEW op0, NEW op1, NEW ops, WellFormed(op0), WellFormed(op1), WellFormed(ops),
           NEW u0 \in Bit, NEW v0 \in Bit, NEW u1 \in Bit, NEW v1 \in Bit,
           NEW us \in Bit, NEW vs \in Bit,
           Known(op0, u0, v0), Known(op1, u1, v1), Known(ops, us, vs)
    PROVE  LET res == MuxSim(op0, op1, ops)
               u == Chosen(us, u0, u1)
               v == Chosen(vs, v0, v1)
           IN  /\ Known(res, u, v)
               /\ \A diff : /\ Senses(op0, u0, v0, diff) /\ Senses(op1, u1, v1, diff)
                            /\ Senses(ops, us, vs, diff)
                            => Senses(res, u, v, diff)
<1> DEFINE res == MuxSim(op0, op1, ops)
           u == Chosen(us, u0, u1)
           v == Chosen(vs, v0, v1)
           Sound == /\ Known(res, u, v)
                    /\ \A diff : /\ Senses(op0, u0, v0, diff) /\ Senses(op1, u1, v1, diff)
                                 /\ Senses(ops, us, vs, diff)
                                 => Senses(res, u, v, diff)
<1> SUFFICES Sound
  OBVIOUS
<1>1. ASSUME NEW w, DOMAIN w = DOMAIN nil, NEW g
      PROVE  LET new == with_glitches(w, g)
             IN  /\ new.value = w.value /\ new.sensitivity = w.sensitivity
                 /\ new.random = w.random /\ new.deterministic = w.deterministic
  BY <1>1 DEF nil, with_glitches
<1>2. DOMAIN op0 = DOMAIN nil /\ DOMAIN op1 = DOMAIN nil
  BY DEF WellFormed, WireStates, nil
<1>3. CASE is_control(ops, 0)
  <2>1. us = 0 /\ vs = 0
    BY <1>3, ControlValue DEF Bit
  <2> QED
    BY <1>1, <1>2, <1>3, <2>1 DEF MuxSim, Known, Senses, Chosen
<1>4. CASE is_control(ops, 1)
  <2>1. us = 1 /\ vs = 1
    BY <1>4, ControlValue DEF Bit
  <2>2. ~is_control(ops, 0)
    BY <1>4 DEF is_control
  <2> QED
    BY <1>1, <1>2, <1>4, <2>1, <2>2 DEF MuxSim, Known, Senses, Chosen
<1>5. CASE ~is_control(ops, 0) /\ ~is_control(ops, 1)
  <2>1. res = MuxJoined(op0, op1, ops)
    BY <1>5 DEF MuxSim
  <2>2. Known(res, u, v)
    <3>1. res.value = (IF ops.value = X THEN X ELSE IF ops.value = 0 THEN op0.value ELSE op1.value)
      BY <2>1 DEF MuxJoined
    <3>2. res.value \in {X, u}
      BY <3>1 DEF Known, X, Bit, Chosen
    <3>3. res.deterministic = (ops.deterministic /\ op0.deterministic /\ op1.deterministic)
      BY <2>1 DEF MuxJoined
    <3>4. res.deterministic => u = v
      BY <3>3 DEF Known, Chosen
    <3> HIDE DEF res, u, v
    <3> QED
      BY <3>2, <3>4 DEF Known
  <2>3. u # v => u0 # v0 \/ u1 # v1 \/ us # vs
    BY DEF Chosen
  <2>4. res.sensitivity = op0.sensitivity \cup op1.sensitivity \cup ops.sensitivity
    BY <2>1 DEF MuxJoined
  <2> HIDE DEF res, u, v
  <2> QED
    BY <2>2, <2>3, <2>4 DEF Senses
<1> HIDE DEF Sound
<1> QED
  BY <1>3, <1>4, <1>5

-----------------------------------------------------------------------------
(* How many of the operands that a gate leaks carry random r.              *)
LeakedBy(ops, r) == Cardinality({i \in DOMAIN ops : ops[i].random = {r}})

(* What the number of leaks of a random says of the operands.              *)
LEMMA LeakFacts ==
    ASSUME NEW ops, NEW len \in Nat, DOMAIN ops = 1..len, NEW r
    PROVE  /\ LeakedBy(ops, r) \in Nat
           /\ LeakedBy(ops, r) = 0 => \A i \in 1..len : ops[i].random # {r}
           /\ LeakedBy(ops, r) <= 1 =>
                 \A i, j \in 1..len : ops[i].random = {r} /\ ops[j].random = {r} => i = j
<1> DEFINE leaked == {i \in DOMAIN ops : ops[i].random = {r}}
<1>1. leaked \subseteq 1..len /\ IsFiniteSet(1..len)
  BY FS_Interval
<1>2. IsFiniteSet(leaked)
  BY <1>1, FS_Subset
<1>3. Cardinality(leaked) \in Nat
  BY <1>2, FS_CardinalityType
<1>4. Cardinality(leaked) = 0 => leaked = {}
  BY <1>2, FS_EmptySet
<1>5. ASSUME NEW i \in leaked, NEW j \in leaked, i # j
      PROVE  Cardinality(leaked) > 1
  <2>1. {i} \in SUBSET leaked /\ {i} # leaked
    BY <1>5
  <2>2. Cardinality({i}) = 1
    BY FS_Singleton
  <2> HIDE DEF leaked
  <2>3. Cardinality({i}) <= Cardinality(leaked) /\ Cardinality({i}) # Cardinality(leaked)
    BY <1>2, <2>1, FS_Subset
  <2> QED
    BY <1>3, <2>2, <2>3
<1>6. Cardinality(leaked) = LeakedBy(ops, r)
  BY DEF LeakedBy
<1>7. \A i \in 1..len : ops[i].random = {r} <=> i \in leaked
  OBVIOUS
<1> HIDE DEF leaked
<1> QED
  BY <1>3, <1>4, <1>5, <1>6, <1>7

(* A random that is not leaked acts on the output of a gate exactly if the *)
(* state of the output has it, and one that is leaked at most once acts on *)
(* an output that has it.                                                  *)
THEOREM BinaryCarries ==
    ASSUME NEW gate \in BinaryGates, NEW op0, NEW op1, WellFormed(op0), WellFormed(op1),
           NEW u0 \in Bit, NEW v0 \in Bit, NEW u1 \in Bit, NEW v1 \in Bit,
           Known(op0, u0, v0), Known(op1, u1, v1), NEW r, NEW n \in Nat,
           Carries(op0, u0, v0, r, n), Carries(op1, u1, v1, r, n)
    PROVE  Carries(BinarySim(gate, op0, op1), Truth(gate, u0, u1), Truth(gate, v0, v1),
                   r, n + LeakedBy(BinaryLeaks(gate, op0, op1), r))
<1> DEFINE res == BinarySim(gate, op0, op1)
           k == LeakedBy(BinaryLeaks(gate, op0, op1), r)
<1> SUFFICES Carries(res, Truth(gate, u0, u1), Truth(gate, v0, v1), r, n + k)
  OBVIOUS
<1>1. CASE Passes(gate, op0, op1) \/ Passes(gate, op1, op0)
  <2>1. BinaryLeaks(gate, op0, op1) = <<>>
    BY <1>1 DEF BinaryLeaks
  <2>2. n + k = n
    <3>1. k = 0
      BY <2>1, FS_EmptySet DEF LeakedBy
    <3> QED
      BY <3>1
  <2>3. CASE Passes(gate, op0, op1) /\ res.random = op1.random
    <3>1. Truth(gate, u0, u1) = u1 /\ Truth(gate, v0, v1) = v1
      BY <2>3, PassedOperand
    <3> QED
      BY <2>2, <2>3, <3>1 DEF Carries
  <2>4. CASE Passes(gate, op1, op0) /\ res.random = op0.random
    <3>1. Truth(gate, u0, u1) = u0 /\ Truth(gate, v0, v1) = v0
      BY <2>4, PassedOperand
    <3> QED
      BY <2>2, <2>4, <3>1 DEF Carries
  <2>5. \/ Passes(gate, op0, op1) /\ res.random = op1.random
        \/ Passes(gate, op1, op0) /\ res.random = op0.random
    BY <1>1, BinaryCases
  <2> QED
    BY <2>3, <2>4, <2>5
<1>2. CASE ~Passes(gate, op0, op1) /\ ~Passes(gate, op1, op0)
  <2>1. BinaryLeaks(gate, op0, op1) = <<op0, op1>>
    BY <1>2 DEF BinaryLeaks
  <2>2. k \in Nat /\ (k = 0 => \A i \in 1..2 : <<op0, op1>>[i].random # {r})
    <3>1. DOMAIN <<op0, op1>> = 1..2
      OBVIOUS
    <3> QED
      BY <2>1, <3>1, LeakFacts
  <2>3. n + k = 0 => n = 0 /\ op0.random # {r} /\ op1.random # {r}
    <3> HIDE DEF k
    <3>1. n + k = 0 => n = 0 /\ k = 0
      BY <2>2
    <3>2. k = 0 => op0.random # {r} /\ op1.random # {r}
      BY <2>2
    <3> QED
      BY <3>1, <3>2
  <2>4. n + k = 0 => u0 = v0 /\ u1 = v1
    BY <2>3 DEF Carries
  <2>5. res.random = {}
    <3>1. res.random = Joined(gate, op0, op1).random
      BY <1>2, BinaryCases
    <3> QED
      BY <3>1 DEF Joined
  <2> HIDE DEF res, k
  <2> QED
    BY <2>4, <2>5 DEF Carries
<1> QED
  BY <1>1, <1>2

(* The same for a multiplexer, whose operands may carry the same random.   *)
THEOREM MuxCarries ==
    ASSUME NEW op0, NEW op1, NEW ops, WellFormed(op0), WellFormed(op1), WellFormed(ops),
           NEW u0 \in Bit, NEW v0 \in Bit, NEW u1 \in Bit, NEW v1 \in Bit,
           NEW us \in Bit, NEW vs \in Bit, Known(ops, us, vs), NEW r, NEW n \in Nat,
           Carries(op0, u0, v0, r, n), Carries(op1, u1, v1, r, n), Carries(ops, us, vs, r, n)
    PROVE  Carries(MuxSim(op0, op1, ops),
                   Chosen(us, u0, u1), Chosen(vs, v0, v1),
                   r, n + LeakedBy(MuxLeaks(op0, op1, ops), r))
<1> DEFINE res == MuxSim(op0, op1, ops)
           k == LeakedBy(MuxLeaks(op0, op1, ops), r)
<1> SUFFICES Carries(res, Chosen(us, u0, u1), Chosen(vs, v0, v1), r, n + k)
  OBVIOUS
<1>1. CASE is_control(ops, 0) \/ is_control(ops, 1)
  <2>1. MuxLeaks(op0, op1, ops) = <<>>
    BY <1>1 DEF MuxLeaks
  <2>2. n + k = n
    <3>1. k = 0
      BY <2>1, FS_EmptySet DEF LeakedBy
    <3> QED
      BY <3>1
  <2>3. \A w, g : DOMAIN w = DOMAIN nil => with_glitches(w, g).random = w.random
    BY DEF with_glitches, nil
  <2>4. DOMAIN op0 = DOMAIN nil /\ DOMAIN op1 = DOMAIN nil
    BY DEF WellFormed, WireStates, nil
  <2>5. CASE is_control(ops, 0)
    <3>1. us = 0 /\ vs = 0 /\ res.random = op0.random
      BY <2>3, <2>4, <2>5, ControlValue DEF MuxSim, Bit
    <3> QED
      BY <2>2, <3>1 DEF Carries, Chosen
  <2>6. CASE is_control(ops, 1)
    <3>1. us = 1 /\ vs = 1 /\ ~is_control(ops, 0)
      BY <2>6, ControlValue DEF Bit, is_control
    <3>2. res.random = op1.random
      BY <2>3, <2>4, <2>6, <3>1 DEF MuxSim
    <3> QED
      BY <2>2, <3>1, <3>2 DEF Carries, Chosen
  <2> QED
    BY <1>1, <2>5, <2>6
<1>2. CASE ~is_control(ops, 0) /\ ~is_control(ops, 1)
  <2>1. MuxLeaks(op0, op1, ops) = <<op0, op1, ops>>
    BY <1>2 DEF MuxLeaks
  <2>2. /\ k \in Nat
        /\ k = 0 => \A i \in 1..3 : <<op0, op1, ops>>[i].random # {r}
        /\ k <= 1 => \A i, j \in 1..3 :
              <<op0, op1, ops>>[i].random = {r} /\ <<op0, op1, ops>>[j].random = {r} => i = j
    <3>1. DOMAIN <<op0, op1, ops>> = 1..3
      OBVIOUS
    <3> QED
      BY <2>1, <3>1, LeakFacts
  <2> HIDE DEF k
  <2>3. n + k = 0 => n = 0 /\ op0.random # {r} /\ op1.random # {r} /\ ops.random # {r}
    <3>1. n + k = 0 => n = 0 /\ k = 0
      BY <2>2
    <3>2. k = 0 => op0.random # {r} /\ op1.random # {r} /\ ops.random # {r}
      BY <2>2
    <3> QED
      BY <3>1, <3>2
  <2>4. n + k = 0 => u0 = v0 /\ u1 = v1 /\ us = vs
    BY <2>3 DEF Carries
  <2>5. res.random = op0.random \cap op1.random
    BY <1>2 DEF MuxSim, MuxJoined
  <2>6. n + k <= 1 => ~(op0.random = {r} /\ op1.random = {r})
    <3>1. n + k <= 1 => k <= 1
      BY <2>2
    <3>2. k <= 1 => ~(op0.random = {r} /\ op1.random = {r})
      BY <2>2
    <3> QED
      BY <3>1, <3>2
  <2>7. res.random = {r} => op0.random = {r} /\ op1.random = {r}
    BY <2>5 DEF WellFormed
  <2> HIDE DEF res
  <2> QED
    BY <2>4, <2>6, <2>7 DEF Carries, Chosen
<1> QED
  BY <1>1, <1>2

(* An inverter leaks its operand; a register does nothing to it.           *)
LEMMA NegateSound ==
    ASSUME NEW w, WellFormed(w), NEW u \in Bit, NEW v \in Bit, Known(w, u, v)
    PROVE  /\ WellFormed(negate(w)) /\ Known(negate(w), 1 - u, 1 - v)
           /\ \A diff : Senses(w, u, v, diff) => Senses(negate(w), 1 - u, 1 - v, diff)
           /\ \A r : \A n \in Nat :
                 Carries(w, u, v, r, n) => Carries(negate(w), 1 - u, 1 - v, r, n + LeakedBy(<<w>>, r))
<1>1. /\ negate(w).value = (IF w.value = X THEN X ELSE 1 - w.value)
      /\ negate(w).sensitivity = w.sensitivity /\ negate(w).random = w.random
      /\ negate(w).deterministic = w.deterministic
      /\ negate(w).glitch_sensitivity = w.glitch_sensitivity
      /\ negate(w) \in WireStates
  BY DEF negate, with_value, WellFormed, WireStates, Bit, X
<1>2. 1 - u # 1 - v <=> u # v
  BY DEF Bit
<1>3. WellFormed(negate(w))
  BY <1>1 DEF WellFormed, Consistent
<1>4. Known(negate(w), 1 - u, 1 - v)
  BY <1>1 DEF Known, X, Bit
<1>5. ASSUME NEW r, NEW n \in Nat, Carries(w, u, v, r, n)
      PROVE  Carries(negate(w), 1 - u, 1 - v, r, n + LeakedBy(<<w>>, r))
  <2>1. LeakedBy(<<w>>, r) \in Nat
    <3>1. DOMAIN <<w>> = 1..1
      OBVIOUS
    <3> QED
      BY <3>1, LeakFacts
  <2>2. n + LeakedBy(<<w>>, r) = 0 => n = 0
    BY <2>1
  <2>3. n + LeakedBy(<<w>>, r) <= 1 => n <= 1
    BY <2>1
  <2> QED
    BY <1>1, <1>2, <1>5, <2>2, <2>3 DEF Carries
<1> QED
  BY <1>1, <1>2, <1>3, <1>4, <1>5 DEF Senses

(* A register hides glitches and nothing else of what it stores.           *)
LEMMA RegisterSound ==
    ASSUME NEW w, WellFormed(w)
    PROVE  /\ WellFormed(stop_glitches(w))
           /\ stop_glitches(w).value = w.value /\ stop_glitches(w).random = w.random
           /\ stop_glitches(w).sensitivity = w.sensitivity
           /\ stop_glitches(w).deterministic = w.deterministic
BY DEF stop_glitches, WellFormed, WireStates, Consistent

-----------------------------------------------------------------------------
(* Netlists: the types of what cells and gadgets are connected to.         *)
LEMMA NetlistTypes ==
    ASSUME net \in Netlists
    PROVE  /\ Len(net.wires) \in Nat /\ Wires = DOMAIN net.wires
           /\ Len(net.gadgets) \in Nat /\ Gadgets = 1..Len(net.gadgets) /\ Gadgets \subseteq Nspgis
           /\ \A w \in Wires :
                 /\ Kind(w) \in InputKinds \cup CombKinds \cup {"tie", "port", "DFF", "gadget"}
                 /\ net.wires[w].id \in Nat /\ net.wires[w].lat \in Nat
                 /\ Kind(w) = "tie" => net.wires[w].id \in Bit
                 /\ Kind(w) = "random" => net.wires[w].id \in Ports
                 /\ Kind(w) # "gadget" => Fanin(w) \in Seq(Wires) /\ Len(Fanin(w)) = Arity(Kind(w))
                 /\ Kind(w) = "gadget" =>
                       Fanin(w)[1] \in Gadgets /\ Range(Tail(Fanin(w))) \subseteq Wires
           /\ \A g \in Gadgets :
                 /\ Len(net.gadgets[g].inputs) \in Nat
                 /\ GInputs(g) = 1..Len(net.gadgets[g].inputs)
                 /\ \A k \in GInputs(g) : GIn(g, k).wire \in Wires /\ GIn(g, k).lat \in Nat
<1>1. WellConnected(net) /\ Len(net.gadgets) <= NGadgets
  BY NetlistsAssumption
<1>2. /\ net.wires \in Seq(Range(net.wires)) /\ net.gadgets \in Seq(Range(net.gadgets))
      /\ \A wire \in Range(net.wires) :
            /\ wire.kind \in InputKinds \cup CombKinds \cup {"tie", "port", "DFF", "gadget"}
            /\ wire.id \in Nat /\ wire.lat \in Nat
            /\ wire.kind = "tie" => wire.id \in Bit
            /\ wire.kind = "random" => wire.id \in Ports
            /\ wire.kind = "gadget" =>
                  wire.in[1] \in DOMAIN net.gadgets /\ Range(Tail(wire.in)) \subseteq DOMAIN net.wires
            /\ wire.kind # "gadget" =>
                  wire.in \in Seq(DOMAIN net.wires) /\ Len(wire.in) = Arity(wire.kind)
      /\ \A gadget \in Range(net.gadgets) :
            /\ gadget.inputs \in Seq(Range(gadget.inputs))
            /\ \A i \in Range(gadget.inputs) : i.wire \in DOMAIN net.wires /\ i.lat \in Nat
  BY <1>1 DEF WellConnected
<1>3. /\ Len(net.wires) \in Nat /\ Wires = DOMAIN net.wires
      /\ Len(net.gadgets) \in Nat /\ Gadgets = 1..Len(net.gadgets)
  BY <1>2 DEF Wires, Gadgets
<1>4. Gadgets \subseteq Nspgis
  BY <1>1, <1>3, GadgetsAssumption DEF Nspgis
<1>5. ASSUME NEW w \in Wires
      PROVE  /\ Kind(w) \in InputKinds \cup CombKinds \cup {"tie", "port", "DFF", "gadget"}
             /\ net.wires[w].id \in Nat /\ net.wires[w].lat \in Nat
             /\ Kind(w) = "tie" => net.wires[w].id \in Bit
             /\ Kind(w) = "random" => net.wires[w].id \in Ports
             /\ Kind(w) # "gadget" => Fanin(w) \in Seq(Wires) /\ Len(Fanin(w)) = Arity(Kind(w))
             /\ Kind(w) = "gadget" =>
                   Fanin(w)[1] \in Gadgets /\ Range(Tail(Fanin(w))) \subseteq Wires
  <2>1. net.wires[w] \in Range(net.wires)
    BY <1>3 DEF Range
  <2> QED
    BY <1>2, <1>3, <2>1 DEF Kind, Fanin, Gadgets
<1>6. ASSUME NEW g \in Gadgets
      PROVE  /\ Len(net.gadgets[g].inputs) \in Nat
             /\ GInputs(g) = 1..Len(net.gadgets[g].inputs)
             /\ \A k \in GInputs(g) : GIn(g, k).wire \in Wires /\ GIn(g, k).lat \in Nat
  <2> DEFINE inputs == net.gadgets[g].inputs
  <2>1. net.gadgets[g] \in Range(net.gadgets)
    BY DEF Range, Gadgets
  <2>2. inputs \in Seq(Range(inputs)) /\ \A i \in Range(inputs) : i.wire \in Wires /\ i.lat \in Nat
    BY <1>2, <1>3, <2>1
  <2>3. GInputs(g) = DOMAIN inputs /\ \A k : GIn(g, k) = inputs[k]
    BY DEF GInputs, GIn
  <2> HIDE DEF inputs
  <2>4. DOMAIN inputs = 1..Len(inputs) /\ Len(inputs) \in Nat
    BY <2>2
  <2>5. \A k \in GInputs(g) : GIn(g, k) \in Range(inputs)
    BY <2>3 DEF Range
  <2> QED
    BY <2>2, <2>3, <2>4, <2>5 DEF inputs
<1> QED
  BY <1>3, <1>4, <1>5, <1>6

(* The inputs of a wire of a gate come before it.                          *)
LEMMA FaninBefore ==
    ASSUME net \in Netlists, NEW w \in Wires, Kind(w) \in CombKinds \cup {"port"},
           NEW i \in 1..Arity(Kind(w))
    PROVE  Fanin(w)[i] \in 1..(w - 1)
<1>1. /\ w \in DOMAIN net.wires /\ Fanin(w) \in Seq(Wires) /\ DOMAIN Fanin(w) = 1..Arity(Kind(w))
      /\ Fanin(w)[i] \in Wires
  <2>1. Kind(w) # "gadget"
    BY DEF CombKinds, BinaryGates
  <2>2. w \in DOMAIN net.wires /\ Fanin(w) \in Seq(Wires) /\ Len(Fanin(w)) = Arity(Kind(w))
    BY <2>1, NetlistTypes
  <2> QED
    BY <2>2
<1>2. \A v \in Before(net, w) : v < w
  BY <1>1, NetlistsAssumption DEF WellNumbered
<1>3. Before(net, w) = Range(Fanin(w))
  <2>1. net.wires[w].kind \in CombKinds \cup {"port"} /\ net.wires[w].kind # "gadget"
    BY DEF Kind, CombKinds, BinaryGates
  <2> QED
    BY <2>1 DEF Before, Fanin
<1>4. Fanin(w)[i] \in Range(Fanin(w))
  BY <1>1 DEF Range
<1>5. Fanin(w)[i] < w
  BY <1>2, <1>3, <1>4
<1> QED
  BY <1>1, <1>5, NetlistTypes DEF Wires

(* The inputs of the top-level module come first.                          *)
LEMMA InputsFirst ==
    ASSUME net \in Netlists
    PROVE  \E m \in 0..Len(net.wires) : InputWires = 1..m
<1>1. Len(net.wires) \in Nat /\ InputWires \in SUBSET (1..Len(net.wires))
  BY NetlistTypes DEF InputWires, Wires
<1>2. CASE InputWires = {}
  <2>1. InputWires = 1..0 /\ 0 \in 0..Len(net.wires)
    BY <1>1, <1>2
  <2> QED
    BY <2>1
<1>3. CASE InputWires # {}
  <2> DEFINE m == Max(InputWires)
  <2>1. m \in InputWires /\ \A v \in InputWires : v <= m
    <3>1. InputWires \in SUBSET (0..Len(net.wires))
      BY <1>1
    <3> QED
      BY <1>1, <1>3, <3>1, LargestIndex
  <2> HIDE DEF m
  <2>2. m \in 1..Len(net.wires) /\ m \in DOMAIN net.wires /\ net.wires[m].kind \in InputKinds
    BY <1>1, <2>1, NetlistTypes DEF InputWires, Kind
  <2>3. \A v \in 1..m : net.wires[v].kind \in InputKinds
    BY <2>2, NetlistsAssumption DEF WellNumbered
  <2>4. \A v \in 1..m : v \in InputWires
    BY <1>1, <2>2, <2>3 DEF InputWires, Wires, Kind
  <2>5. \A v \in InputWires : v \in 1..m
    BY <1>1, <2>1, <2>2
  <2>6. m \in 0..Len(net.wires)
    BY <1>1, <2>2
  <2>7. InputWires = 1..m
    BY <2>4, <2>5
  <2> QED
    BY <2>6, <2>7
<1> QED
  BY <1>2, <1>3

(* Initial states and the inputs of the top-level module.                  *)
LEMMA ControlState == WellFormed(control)
<1>1. NoDep \in [Nspgis -> ExecIds]
  BY DEF NoDep, ExecIds
<1> QED
  BY <1>1 DEF WellFormed, WireStates, Consistent, control, nil, X

(* What the simulator says of an input is well formed.                     *)
LEMMA InputWellFormed ==
    ASSUME net \in Netlists, NEW w \in InputWires, cycle' \in Int
    PROVE  WellFormed(InputState(w))
<1>1. NoDep \in [Nspgis -> ExecIds]
  BY DEF NoDep, ExecIds
<1>2. net.wires[w].id \in Nat
  BY NetlistTypes DEF InputWires
<1>3. WellFormed(share(net.wires[w].id))
  BY <1>1, <1>2 DEF WellFormed, WireStates, Consistent, share, nil, X
<1>4. WellFormed(random(net.wires[w].id, cycle'))
  <2> DEFINE w_1 == random(net.wires[w].id, cycle')
  <2>1. /\ w_1.random = {<<net.wires[w].id, cycle'>>}
        /\ w_1.sensitivity = {} /\ w_1.deterministic = FALSE /\ w_1.glitch_sensitivity = {}
    BY DEF random, nil
  <2>2. {<<net.wires[w].id, cycle'>>} \in SUBSET (Nat \X Int)
    BY <1>2
  <2>3. w_1 \in WireStates
    <3>1. nil \in WireStates
      BY <1>1 DEF nil, WireStates, X
    <3>2. \A set \in SUBSET (Nat \X Int) : [nil EXCEPT !.random = set] \in WireStates
      BY <3>1 DEF WireStates
    <3> QED
      BY <2>2, <3>2 DEF random
  <2> HIDE DEF w_1
  <2>4. WellFormed(w_1)
    BY <2>1, <2>3 DEF WellFormed, Consistent
  <2> QED
    BY <2>4 DEF w_1
<1> QED
  BY <1>3, <1>4, ControlState DEF InputState

-----------------------------------------------------------------------------
(* Latencies, and what instances remember.                                 *)

(* The largest input latency of each gadget, and the depth of memory.      *)
Lat == [g \in Gadgets |-> max_input_latency(g)]

(* Inputs arrive at most max_input_latency cycles after an execution       *)
(* starts.                                                                 *)
LEMMA InputLatencies ==
    ASSUME net \in Netlists, NEW g \in Gadgets
    PROVE  /\ max_input_latency(g) \in Nat
           /\ \A k \in GInputs(g) : GIn(g, k).lat \in Nat /\ GIn(g, k).lat <= max_input_latency(g)
<1> DEFINE n == Len(net.gadgets[g].inputs)
           f == [k \in 1..n |-> GIn(g, k).lat]
           all == {0} \cup {f[k] : k \in 1..n}
<1>1. n \in Nat /\ GInputs(g) = 1..n /\ \A k \in 1..n : f[k] \in Nat
  BY NetlistTypes
<1>2. all = {0} \cup {GIn(g, k).lat : k \in GInputs(g)}
  BY <1>1
<1>3. max_input_latency(g) = Max(all)
  BY <1>2 DEF max_input_latency
<1>4. Max(all) \in all /\ \A y \in all : y <= Max(all)
  <2>1. 1..n \in SUBSET (1..n) /\ 0 \in Int /\ \A k \in 1..n : f[k] \in Int
    BY <1>1
  <2> HIDE DEF n, f
  <2> QED
    BY <1>1, <2>1, LargestOf
<1>5. all \subseteq Nat /\ \A k \in GInputs(g) : GIn(g, k).lat \in all
  <2>1. \A k \in GInputs(g) : GIn(g, k).lat \in Nat
    BY NetlistTypes
  <2> HIDE DEF all
  <2> QED
    BY <1>2, <2>1
<1> HIDE DEF all, f, n
<1> QED
  BY <1>3, <1>4, <1>5

(* Instances remember as many cycles as any latency of a gadget.           *)
LEMMA DepthIs ==
    ASSUME net \in Netlists
    PROVE  /\ Depth \in Nat /\ Depth >= 1
           /\ \A g \in Gadgets : max_input_latency(g) <= Depth
           /\ \A g \in Gadgets : max_latency(g) \in Nat /\ max_latency(g) <= Depth
           /\ \A w \in Wires : Kind(w) = "gadget" => net.wires[w].lat <= Depth
<1> DEFINE n == Len(net.gadgets)
           m == Len(net.wires)
           f == [g \in 1..n |-> max_latency(g)]
           all == {1} \cup {f[g] : g \in 1..n}
<1>1. /\ n \in Nat /\ Gadgets = 1..n /\ m \in Nat /\ Wires = 1..m
      /\ \A w \in Wires : net.wires[w].lat \in Nat /\ (Kind(w) = "gadget" => Fanin(w)[1] \in Gadgets)
  BY NetlistTypes DEF Wires
<1>2. ASSUME NEW g \in Gadgets
      PROVE  /\ max_latency(g) \in Nat /\ max_input_latency(g) <= max_latency(g)
             /\ \A w \in OutputsOf(g) : net.wires[w].lat <= max_latency(g)
  <2> DEFINE h == [w \in 1..m |-> net.wires[w].lat]
             lats == {max_input_latency(g)} \cup {h[w] : w \in OutputsOf(g)}
  <2>1. OutputsOf(g) \in SUBSET (1..m) /\ max_input_latency(g) \in Nat
    BY <1>1, InputLatencies DEF OutputsOf
  <2>2. lats = {max_input_latency(g)} \cup {net.wires[w].lat : w \in OutputsOf(g)}
    BY <2>1
  <2>3. Max(lats) \in lats /\ \A y \in lats : y <= Max(lats)
    <3>1. \A w \in 1..m : h[w] \in Int
      BY <1>1
    <3>2. max_input_latency(g) \in Int
      BY <2>1
    <3> HIDE DEF m, h
    <3> QED
      BY <1>1, <2>1, <3>1, <3>2, LargestOf
  <2>4. /\ lats \subseteq Nat /\ max_input_latency(g) \in lats
        /\ \A w \in OutputsOf(g) : net.wires[w].lat \in lats
    BY <1>1, <2>1, <2>2
  <2>5. max_latency(g) = Max(lats)
    BY <2>2 DEF max_latency
  <2> HIDE DEF lats, h, m
  <2> QED
    BY <2>3, <2>4, <2>5
<1>3. all = {1} \cup {max_latency(g) : g \in Gadgets} /\ Depth = Max(all)
  <2>1. all = {1} \cup {max_latency(g) : g \in Gadgets}
    BY <1>1
  <2> QED
    BY <2>1 DEF Depth
<1>4. Max(all) \in all /\ \A y \in all : y <= Max(all)
  <2>1. 1..n \in SUBSET (1..n) /\ 1 \in Int /\ \A g \in 1..n : f[g] \in Int
    BY <1>1, <1>2
  <2> HIDE DEF n, f
  <2> QED
    BY <1>1, <2>1, LargestOf
<1>5. all \subseteq Nat /\ 1 \in all /\ \A g \in Gadgets : max_latency(g) \in all
  <2> HIDE DEF all
  <2> QED
    BY <1>2, <1>3
<1> HIDE DEF all, f, n, m
<1>6. Depth \in Nat /\ Depth >= 1 /\ \A g \in Gadgets : max_latency(g) <= Depth
  BY <1>3, <1>4, <1>5
<1>7. ASSUME NEW g \in Gadgets
      PROVE  max_input_latency(g) <= Depth
  <2>1. max_input_latency(g) \in Nat /\ max_latency(g) \in Nat
    BY <1>2, InputLatencies
  <2> QED
    BY <1>2, <1>6, <2>1
<1>8. ASSUME NEW w \in Wires, Kind(w) = "gadget"
      PROVE  net.wires[w].lat <= Depth
  <2>1. Fanin(w)[1] \in Gadgets /\ w \in OutputsOf(Fanin(w)[1]) /\ net.wires[w].lat \in Nat
    BY <1>1, <1>8 DEF OutputsOf
  <2>2. net.wires[w].lat <= max_latency(Fanin(w)[1]) /\ max_latency(Fanin(w)[1]) \in Nat
    BY <1>2, <2>1
  <2> QED
    BY <1>6, <2>1, <2>2
<1> QED
  BY <1>2, <1>6, <1>7, <1>8

(* Lat has a natural number for each gadget.                               *)
LEMMA LatIs ==
    ASSUME net \in Netlists
    PROVE  /\ DOMAIN Lat = Gadgets /\ DOMAIN Lat \subseteq Nspgis
           /\ \A g \in DOMAIN Lat : Lat[g] \in Nat /\ Lat[g] = max_input_latency(g)
BY InputLatencies, NetlistTypes DEF Lat

(* What only depends on the netlist.                                       *)
LEMMA SameNetlist ==
    ASSUME net' = net
    PROVE  Lat' = Lat /\ Depth' = Depth /\ Wires' = Wires /\ Gadgets' = Gadgets
<1>1. /\ Wires' = Wires /\ Gadgets' = Gadgets
      /\ \A w : Kind(w)' = Kind(w) /\ Fanin(w)' = Fanin(w)
      /\ \A g : GInputs(g)' = GInputs(g)
      /\ \A g, k : GIn(g, k)' = GIn(g, k)
  BY DEF Wires, Gadgets, Kind, Fanin, GInputs, GIn
<1>2. \A g : max_input_latency(g)' = max_input_latency(g) /\ OutputsOf(g)' = OutputsOf(g)
  BY <1>1 DEF max_input_latency, OutputsOf
<1>3. \A g : max_latency(g)' = max_latency(g)
  BY <1>2 DEF max_latency
<1> QED
  BY <1>1, <1>2, <1>3 DEF Lat, Depth

(* The inputs of gadgets only depend on the netlist.                       *)
LEMMA SameInputs ==
    ASSUME net' = net
    PROVE  /\ Gadgets' = Gadgets /\ CheckedInputs' = CheckedInputs
           /\ \A g : GInputs(g)' = GInputs(g) /\ max_input_latency(g)' = max_input_latency(g)
           /\ \A g, k : GIn(g, k)' = GIn(g, k)
<1>1. /\ Wires' = Wires /\ Gadgets' = Gadgets
      /\ \A w : Kind(w)' = Kind(w)
      /\ \A g : GInputs(g)' = GInputs(g)
      /\ \A g, k : GIn(g, k)' = GIn(g, k)
  BY DEF Wires, Gadgets, Kind, GInputs, GIn
<1>2. CheckedWires' = CheckedWires
  BY <1>1 DEF CheckedWires
<1>3. \A g : max_input_latency(g)' = max_input_latency(g)
  BY <1>1 DEF max_input_latency
<1>4. CheckedInputs' = CheckedInputs
  BY <1>1, <1>2 DEF CheckedInputs
<1> QED
  BY <1>1, <1>3, <1>4

(* What a cycle leaves of the memory of the ones before.                   *)
LEMMA ShiftedIs ==
    ASSUME NEW S, NEW now \in S, NEW old \in Seq(S), Len(old) >= 1
    PROVE  /\ Shifted(now, old) \in Seq(S) /\ Len(Shifted(now, old)) = Len(old)
           /\ Shifted(now, old)[1] = now
           /\ \A k \in 2..Len(old) : Shifted(now, old)[k] = old[k - 1]
<1> DEFINE rest == SubSeq(old, 1, Len(old) - 1)
<1>1. rest \in Seq(S) /\ Len(rest) = Len(old) - 1 /\ \A k \in 1..(Len(old) - 1) : rest[k] = old[k]
  <2> DEFINE m == Len(old) - 1
  <2>1. m \in Nat /\ \A k \in 1..m : old[k] \in S
    OBVIOUS
  <2>2. rest = [k \in 1..m |-> old[k]]
    BY <2>1 DEF SubSeq
  <2> HIDE DEF m
  <2>3. rest \in [1..m -> S]
    BY <2>1, <2>2
  <2>4. rest \in Seq(S) /\ Len(rest) = m
    BY <2>1, <2>3
  <2> QED
    BY <2>2, <2>4 DEF m
<1>2. Shifted(now, old) = <<now>> \o rest
  BY DEF Shifted
<1> HIDE DEF rest
<1> QED
  BY <1>1, <1>2

(* What is remembered after the states of a cycle.                         *)
LEMMA StatesShifted ==
    ASSUME ws \in Seq(WireStates), past \in Seq(Seq(WireStates)), Len(past) >= 1
    PROVE  /\ Shifted(ws, past) \in Seq(Seq(WireStates)) /\ Len(Shifted(ws, past)) = Len(past)
           /\ Shifted(ws, past)[1] = ws
           /\ \A k \in 2..Len(past) : Shifted(ws, past)[k] = past[k - 1]
<1> DEFINE States == Seq(WireStates)
<1>1. ws \in States /\ past \in Seq(States)
  OBVIOUS
<1> HIDE DEF States
<1>2. /\ Shifted(ws, past) \in Seq(States) /\ Len(Shifted(ws, past)) = Len(past)
      /\ Shifted(ws, past)[1] = ws
      /\ \A k \in 2..Len(past) : Shifted(ws, past)[k] = past[k - 1]
  BY <1>1, ShiftedIs
<1> QED
  BY <1>2 DEF States

(* What holds of the states of a run, in this cycle and in those that      *)
(* instances remember.                                                     *)
SimInv ==
    /\ net \in Netlists /\ ws \in Seq(WireStates)
    /\ past \in Seq(Seq(WireStates)) /\ Len(past) = Depth
    /\ verdict = "running" /\ pc # "eval" => Len(ws) = Len(net.wires)
    /\ \A k \in 1..Depth : \A w \in Wires : past[k][w] \in WireStates

(* From the inputs of a cycle until its instances finish.                  *)
InCycle == pc \in {"eval", "finish"}

(* What is on a wire is one cycle older when a cycle starts.               *)
LEMMA AtShifted ==
    ASSUME SimInv, StartCycle, cycle' # NCycles
    PROVE  \A w : \A i \in Nat : i + 1 <= Depth => At(w, i + 1)' = At(w, i)
<1>1. Depth \in Nat /\ Depth >= 1
  BY DepthIs DEF SimInv
<1>2. past'[1] = ws /\ \A k \in 2..Depth : past'[k] = past[k - 1]
  <2>1. ws \in Seq(WireStates) /\ past \in Seq(Seq(WireStates)) /\ Len(past) = Depth
    BY DEF SimInv
  <2>2. past' = Shifted(ws, past)
    BY DEF StartCycle
  <2> QED
    BY <1>1, <2>1, <2>2, StatesShifted
<1> SUFFICES ASSUME NEW w, NEW i \in Nat, i + 1 <= Depth
             PROVE  At(w, i + 1)' = At(w, i)
  OBVIOUS
<1>3. i + 1 # 0 /\ At(w, i + 1)' = past'[i + 1][w]
  BY DEF At
<1>4. CASE i = 0
  BY <1>2, <1>3, <1>4 DEF At
<1>5. CASE i # 0
  <2>1. i + 1 \in 2..Depth /\ (i + 1) - 1 = i
    BY <1>1, <1>5
  <2>2. past'[i + 1] = past[i]
    BY <1>2, <2>1
  <2> QED
    BY <1>3, <1>5, <2>2 DEF At
<1> QED
  BY <1>4, <1>5

-----------------------------------------------------------------------------
(* What evaluation gives a wire, apart from its dependencies.              *)

(* What a gate takes from its operands: all their glitches, and nothing    *)
(* that none of them has.                                                  *)
Combines(res, ops) ==
    /\ res.glitch_sensitivity = UNION {op.glitch_sensitivity : op \in ops}
    /\ res.sensitivity \subseteq UNION {op.sensitivity : op \in ops}
    /\ res.random \subseteq UNION {op.random : op \in ops}
    /\ res.deterministic \/ \E op \in ops : ~op.deterministic
    /\ \A g \in Nspgis : \E op \in ops : res.nspgi_dep[g] = op.nspgi_dep[g]

(* NspgiDep::max names an execution that one of the operands names.        *)
LEMMA MaxIsOneOf ==
    ASSUME NEW d, NEW e, NEW g \in Nspgis
    PROVE  DepMax(d, e)[g] = d[g] \/ DepMax(d, e)[g] = e[g]
BY DEF DepMax

(* A binary gate does so.                                                  *)
LEMMA BinaryResult ==
    ASSUME NEW gate, NEW op0 \in WireStates, NEW op1 \in WireStates
    PROVE  Combines(BinarySim(gate, op0, op1), {op0, op1})
<1> DEFINE res == IF Passes(gate, op0, op1) THEN op1
                  ELSE IF Passes(gate, op1, op0) THEN op0 ELSE Joined(gate, op0, op1)
           out == [res EXCEPT !.glitch_sensitivity =
                            op0.glitch_sensitivity \cup op1.glitch_sensitivity]
<1>1. /\ DOMAIN res = DOMAIN nil /\ res.random \subseteq op0.random \cup op1.random
      /\ res.sensitivity \subseteq op0.sensitivity \cup op1.sensitivity
      /\ res.deterministic \/ ~op0.deterministic \/ ~op1.deterministic
  <2>1. ASSUME NEW op \in {op0, op1}
        PROVE  /\ DOMAIN op = DOMAIN nil /\ op.random \subseteq op0.random \cup op1.random
               /\ op.sensitivity \subseteq op0.sensitivity \cup op1.sensitivity
               /\ op.deterministic \/ ~op0.deterministic \/ ~op1.deterministic
    BY DEF WireStates, nil
  <2>2. CASE res = Joined(gate, op0, op1)
    BY <2>2 DEF Joined, nil
  <2>3. CASE res # Joined(gate, op0, op1)
    <3>1. res \in {op0, op1}
      BY <2>3
    <3> HIDE DEF res
    <3> QED
      BY <2>1, <3>1
  <2> QED
    BY <2>2, <2>3
<1>2. \A g \in Nspgis : res.nspgi_dep[g] = op0.nspgi_dep[g] \/ res.nspgi_dep[g] = op1.nspgi_dep[g]
  BY MaxIsOneOf DEF Joined
<1>3. BinarySim(gate, op0, op1) = out
  BY DEF BinarySim
<1> HIDE DEF res
<1>4. /\ out.glitch_sensitivity = op0.glitch_sensitivity \cup op1.glitch_sensitivity
      /\ out.sensitivity = res.sensitivity /\ out.random = res.random
      /\ out.deterministic = res.deterministic /\ out.nspgi_dep = res.nspgi_dep
  BY <1>1 DEF nil
<1> HIDE DEF out
<1> QED
  BY <1>1, <1>2, <1>3, <1>4 DEF Combines

(* So does a mux: a selection that is known has no glitches.               *)
LEMMA MuxResult ==
    ASSUME NEW op0 \in WireStates, NEW op1 \in WireStates, NEW ops \in WireStates
    PROVE  Combines(MuxSim(op0, op1, ops), {op0, op1, ops})
<1>1. ASSUME NEW w \in WireStates, NEW glitches
      PROVE  /\ with_glitches(w, glitches).glitch_sensitivity = w.glitch_sensitivity \cup glitches
             /\ with_glitches(w, glitches).sensitivity = w.sensitivity
             /\ with_glitches(w, glitches).random = w.random
             /\ with_glitches(w, glitches).deterministic = w.deterministic
             /\ with_glitches(w, glitches).nspgi_dep = w.nspgi_dep
  BY DEF with_glitches, WireStates
<1>2. is_control(ops, 0) \/ is_control(ops, 1) => ops.glitch_sensitivity = {}
  BY DEF is_control, glitch_deterministic
<1>3. ASSUME NEW w \in {op0, op1}, NEW glitches,
             w.glitch_sensitivity \cup glitches =
                 op0.glitch_sensitivity \cup op1.glitch_sensitivity \cup ops.glitch_sensitivity
      PROVE  Combines(with_glitches(w, glitches), {op0, op1, ops})
  <2>1. w \in WireStates
    OBVIOUS
  <2> HIDE DEF Combines
  <2> QED
    BY <1>1, <1>3, <2>1 DEF Combines
<1>4. CASE is_control(ops, 0)
  <2>1. MuxSim(op0, op1, ops) = with_glitches(op0, op1.glitch_sensitivity)
    BY <1>4 DEF MuxSim
  <2> QED
    BY <1>2, <1>3, <1>4, <2>1
<1>5. CASE ~is_control(ops, 0) /\ is_control(ops, 1)
  <2>1. MuxSim(op0, op1, ops) = with_glitches(op1, op0.glitch_sensitivity)
    BY <1>5 DEF MuxSim
  <2> QED
    BY <1>2, <1>3, <1>5, <2>1
<1>6. CASE ~is_control(ops, 0) /\ ~is_control(ops, 1)
  <2> DEFINE out == MuxJoined(op0, op1, ops)
  <2>1. MuxSim(op0, op1, ops) = out
    BY <1>6 DEF MuxSim
  <2>2. \A g \in Nspgis : \/ out.nspgi_dep[g] = op0.nspgi_dep[g]
                           \/ out.nspgi_dep[g] = op1.nspgi_dep[g]
                           \/ out.nspgi_dep[g] = ops.nspgi_dep[g]
    <3>1. out.nspgi_dep = DepMax(DepMax(op0.nspgi_dep, op1.nspgi_dep), ops.nspgi_dep)
      BY DEF MuxJoined
    <3> HIDE DEF out
    <3> QED
      BY <3>1, MaxIsOneOf
  <2>3. /\ out.glitch_sensitivity =
              op0.glitch_sensitivity \cup op1.glitch_sensitivity \cup ops.glitch_sensitivity
        /\ out.sensitivity = op0.sensitivity \cup op1.sensitivity \cup ops.sensitivity
        /\ out.random = op0.random \cap op1.random
        /\ out.deterministic \/ ~op0.deterministic \/ ~op1.deterministic \/ ~ops.deterministic
    BY DEF MuxJoined
  <2> HIDE DEF out
  <2> QED
    BY <2>1, <2>2, <2>3 DEF Combines
<1> QED
  BY <1>4, <1>5, <1>6

(* The state that a wire gets.                                             *)
GateResult(res, n) == Combines(res, {Op(i) : i \in 1..n})

IsResult(res) ==
    /\ CASE Kind(NextWire) \in CombKinds \cup {"port"} -> GateResult(res, Arity(Kind(NextWire)))
         [] Kind(NextWire) = "DFF" -> /\ res = stop_glitches(past[1][Fanin(NextWire)[1]])
                                      /\ res.random = past[1][Fanin(NextWire)[1]].random
         [] OTHER -> res.random = {}
    /\ Kind(NextWire) = "tie" => res = with_value(control, net.wires[NextWire].id)

(* Evaluating a wire gives a state to it, or panics.                       *)
LEMMA EvalResult ==
    ASSUME SimInv, EvalWire
    PROVE  \E res : /\ IsResult(res)
                    /\ \/ Evaluated(res)
                       \/ \E why \in Panics \ {"untracked"} : GadgetPanic(why)
<1> DEFINE kind == Kind(NextWire)
           Good(res) == IsResult(res) /\ Evaluated(res)
<1>1. Evaluating /\ NextWire \in Wires /\ net \in Netlists
  BY DEF EvalWire, EvalTie, EvalPort, EvalUnary, EvalBinary, EvalMux, EvalDff, EvalGadget,
         Evaluating, SimInv
<1>2. ASSUME kind \in CombKinds \cup {"port"}, NEW i \in 1..Arity(kind)
      PROVE  Op(i) \in WireStates
  <2>1. Fanin(NextWire)[i] \in 1..(NextWire - 1)
    <3>1. kind # "gadget"
      BY <1>2 DEF CombKinds, BinaryGates
    <3> QED
      BY <1>1, <1>2, <3>1, FaninBefore
  <2>2. ws \in Seq(WireStates)
    BY DEF SimInv
  <2>3. Fanin(NextWire)[i] \in DOMAIN ws
    BY <2>1, <2>2 DEF NextWire
  <2> QED
    BY <2>2, <2>3 DEF Op
<1>3. ASSUME kind \in CombKinds \cup {"port"}, NEW res, GateResult(res, Arity(kind))
      PROVE  IsResult(res)
  <2> HIDE DEF kind
  <2>1. kind \in CombKinds \cup {"port"} => kind # "DFF"
    BY DEF CombKinds, BinaryGates
  <2> QED
    BY <1>3, <2>1 DEF IsResult, kind, CombKinds, BinaryGates
<1>4. CASE EvalTie
  <2> DEFINE res == with_value(control, net.wires[NextWire].id)
  <2>1. kind = "tie" /\ Evaluated(res) /\ res.random = {}
    BY <1>4 DEF EvalTie, with_value, control, nil
  <2>2. res = with_value(control, net.wires[NextWire].id)
    OBVIOUS
  <2> HIDE DEF res
  <2>3. IsResult(res)
    BY <2>1, <2>2 DEF IsResult, CombKinds, BinaryGates
  <2> QED
    BY <2>1, <2>3
<1>5. ASSUME kind \in {"BUF", "NOT", "port"}, NEW res, Evaluated(res),
             res = Op(1) \/ res = negate(Op(1))
      PROVE  Good(res)
  <2>1. kind \in CombKinds \cup {"port"} /\ Arity(kind) = 1
    BY <1>5 DEF CombKinds, BinaryGates, Arity, InputKinds
  <2>2. Op(1) \in WireStates
    BY <1>2, <2>1
  <2>3. /\ res.glitch_sensitivity = Op(1).glitch_sensitivity /\ res.random = Op(1).random
        /\ res.sensitivity = Op(1).sensitivity /\ res.deterministic = Op(1).deterministic
        /\ res.nspgi_dep = Op(1).nspgi_dep
    BY <1>5, <2>2 DEF negate, with_value, WireStates
  <2>4. {Op(i) : i \in 1..1} = {Op(1)}
    OBVIOUS
  <2>5. GateResult(res, 1)
    BY <2>3, <2>4 DEF GateResult, Combines
  <2> QED
    BY <1>3, <1>5, <2>1, <2>5
<1>6. CASE EvalBinary
  <2> DEFINE res == BinarySim(kind, Op(1), Op(2))
  <2>1. kind \in BinaryGates /\ Evaluated(res)
    BY <1>6 DEF EvalBinary
  <2>2. kind \in CombKinds \cup {"port"} /\ Arity(kind) = 2
    BY <2>1 DEF CombKinds, Arity, InputKinds, BinaryGates
  <2>3. Op(1) \in WireStates /\ Op(2) \in WireStates
    BY <1>2, <2>2
  <2>4. Combines(res, {Op(1), Op(2)})
    BY <2>3, BinaryResult
  <2> HIDE DEF res
  <2>5. {Op(i) : i \in 1..2} = {Op(1), Op(2)}
    <3>1. 1..2 = {1, 2}
      OBVIOUS
    <3> QED
      BY <3>1
  <2>6. GateResult(res, 2)
    BY <2>4, <2>5 DEF GateResult
  <2> QED
    BY <1>3, <2>1, <2>2, <2>6
<1>7. CASE EvalMux
  <2> DEFINE res == MuxSim(Op(1), Op(2), Op(3))
  <2>1. kind = "MUX" /\ Evaluated(res)
    BY <1>7 DEF EvalMux
  <2>2. kind \in CombKinds \cup {"port"} /\ Arity(kind) = 3
    BY <2>1 DEF CombKinds, Arity, InputKinds, BinaryGates
  <2>3. Op(1) \in WireStates /\ Op(2) \in WireStates /\ Op(3) \in WireStates
    BY <1>2, <2>2
  <2>4. Combines(res, {Op(1), Op(2), Op(3)})
    BY <2>3, MuxResult
  <2> HIDE DEF res
  <2>5. {Op(i) : i \in 1..3} = {Op(1), Op(2), Op(3)}
    <3>1. 1..3 = {1, 2, 3}
      OBVIOUS
    <3> QED
      BY <3>1
  <2>6. GateResult(res, 3)
    BY <2>4, <2>5 DEF GateResult
  <2> QED
    BY <1>3, <2>1, <2>2, <2>6
<1>8. CASE EvalDff
  <2> DEFINE w == past[1][Fanin(NextWire)[1]]
  <2>1. kind = "DFF" /\ Evaluated(stop_glitches(w))
    BY <1>8 DEF EvalDff
  <2>2. Fanin(NextWire)[1] \in Wires /\ 1 \in 1..Depth
    <3>1. Fanin(NextWire) \in Seq(Wires) /\ Len(Fanin(NextWire)) = Arity(kind)
      BY <1>1, <2>1, NetlistTypes
    <3>2. Arity(kind) = 1
      BY <2>1 DEF Arity, InputKinds, BinaryGates
    <3> QED
      BY <1>1, <3>1, <3>2, DepthIs
  <2>3. w \in WireStates
    BY <2>2 DEF SimInv
  <2> HIDE DEF w
  <2>4. stop_glitches(w).random = w.random
    BY <2>3 DEF stop_glitches, WireStates
  <2>5. IsResult(stop_glitches(w))
    BY <2>1, <2>4 DEF IsResult, CombKinds, BinaryGates, w
  <2> QED
    BY <2>1, <2>5
<1>9. CASE EvalGadget
  <2> DEFINE g == Fanin(NextWire)[1]
             lat == net.wires[NextWire].lat
             out(v) == with_value(Annotated(StageStatus(g, lat), net.wires[NextWire].id), v)
  <2>1. kind = "gadget" /\ \A v : out(v).random = {}
    BY <1>9 DEF EvalGadget, with_value, Annotated
  <2>2. \/ \E v \in OutputValues : Evaluated(out(v))
        \/ \E why \in {"unset", "uncovered"} : GadgetPanic(why)
    BY <1>9 DEF EvalGadget
  <2> HIDE DEF out
  <2>3. \A v : IsResult(out(v))
    BY <2>1 DEF IsResult, CombKinds, BinaryGates
  <2> QED
    BY <2>2, <2>3 DEF Panics
<1> HIDE DEF kind
<1>10. CASE EvalPort \/ EvalUnary
  BY <1>5, <1>10 DEF EvalPort, EvalUnary, kind
<1> QED
  BY <1>4, <1>6, <1>7, <1>8, <1>9, <1>10 DEF EvalWire

-----------------------------------------------------------------------------
(* No event is on a random that is not tracked: what will be read again is *)
(* kept, for any netlist, and whatever is kept along with the simulator.   *)
Statuses == [fresh_uses : Nat, leaks : Nat, last_stored : Int]
RandomIds == Ports \X Int

St(r) == StatusAt(trks[r[1]], r[2])

(* A random received in this cycle, or kept by a register or a gadget      *)
(* since the last one.                                                     *)
Alive(r) == r \in RandomIds /\ (r[2] = cycle \/ ~Stale(St(r), cycle - 1))

(* The state of wire w is read i cycles later, by a register, or by a      *)
(* gadget whose execution is complete, or is not yet.                      *)
ReadAgain(w, i) ==
    \/ i = 1 /\ \E d \in Dffs : w = Fanin(d)[1]
    \/ \E g \in Gadgets : \E k \in RndInputs(g) : w = GIn(g, k).wire /\ i \in 1..rel_lat(g, k)

Windows ==
    /\ trks \in [Ports -> Window(Statuses)]
    /\ \A p \in Ports :
          /\ trks[p].offset + Len(trks[p].states) <= cycle + 1
          /\ cycle \in Nat => trks[p].offset <= cycle

AllAlive ==
    /\ \A w \in DOMAIN ws \ net.inner : \A r \in ws[w].random : Alive(r)
    /\ \A w \in Wires : \A i \in 1..Depth :
          ReadAgain(w, i) => \A r \in past[i][w].random : Alive(r)

AllStored ==
    \A w \in Wires : \A i \in 1..Depth :
        ReadAgain(w, i) => \A r \in At(w, i - 1).random : r \in RandomIds /\ ~Stale(St(r), cycle)

TrackInv ==
    /\ verdict # "untracked"
    /\ cycle \in Nat \cup {NotStarted}
    /\ verdict = "running" =>
          /\ pc # "next" => cycle \in Nat
          /\ Windows
          /\ IF InCycle THEN AllAlive ELSE AllStored

-----------------------------------------------------------------------------
(* Recording events in the window of a tracker.                            *)

(* The window grows to the last random touched, and each status in it is   *)
(* updated by the events on its random.                                    *)
LEMMA RecordedEffect ==
    ASSUME NEW t \in Window(Statuses), NEW p, NEW events, IsFiniteSet(events),
           cycle \in Nat, t.offset <= cycle, t.offset + Len(t.states) <= cycle + 1,
           \A c \in Touched(p, events) : c \in t.offset..cycle
    PROVE  /\ Recorded(t, p, events) \in Window(Statuses)
           /\ Recorded(t, p, events).offset = t.offset
           /\ t.offset + Len(Recorded(t, p, events).states) <= cycle + 1
           /\ \A c \in Int : c >= t.offset =>
                 StatusAt(Recorded(t, p, events), c) = Updated(t, p, c, events)
<1> DEFINE m == Len(t.states)
           all == {m} \cup {IndexOf(t, c) : c \in Touched(p, events)}
           n == Max(all)
           val(i) == Updated(t, p, t.offset + i - 1, events)
           states == [i \in 1..n |-> val(i)]
<1>1. m \in Nat /\ t.offset \in Nat /\ \A i \in 1..m : t.states[i] \in Statuses
  BY DEF Window
<1>2. n \in Nat /\ m <= n /\ t.offset + n <= cycle + 1
      /\ \A c \in Touched(p, events) : IndexOf(t, c) <= n
  <2>1. all \subseteq Int /\ m \in all /\ \A i \in all : i \in Nat /\ i <= cycle + 1 - t.offset
    BY <1>1 DEF IndexOf
  <2> HIDE DEF m, all
  <2>2. all # {} /\ cycle + 1 - t.offset \in Int
    BY <1>1, <2>1
  <2>3. Max(all) \in all /\ \A i \in all : i <= Max(all)
    BY <2>1, <2>2, LargestBelow
  <2>4. n \in Nat /\ m <= n /\ t.offset + n <= cycle + 1
    <3>1. n \in Nat /\ n <= cycle + 1 - t.offset /\ m <= n
      BY <2>1, <2>3
    <3> HIDE DEF n
    <3> QED
      BY <1>1, <3>1
  <2>5. \A c \in Touched(p, events) : IndexOf(t, c) \in all
    BY DEF all
  <2> QED
    BY <2>3, <2>4, <2>5
<1>3. ASSUME NEW c
      PROVE  Updated(t, p, c, events) \in Statuses
  <2>1. \A op, r : IsFiniteSet(On(events, op, r)) /\ Cardinality(On(events, op, r)) \in Nat
    <3>1. \A op, r : On(events, op, r) \in SUBSET events
      BY DEF On
    <3> QED
      BY <3>1, FS_Subset, FS_CardinalityType
  <2>2. StatusAt(t, c) \in Statuses
    BY <1>1 DEF StatusAt, DefaultStatus, Statuses, NotStored
  <2> QED
    BY <2>1, <2>2 DEF Updated, Statuses
<1>4. Recorded(t, p, events) = [offset |-> t.offset, states |-> states]
  BY DEF Recorded
<1> HIDE DEF n, m
<1>5. states \in [1..n -> Statuses] /\ \A i \in 1..n : states[i] = val(i)
  BY <1>3
<1> HIDE DEF states
<1>6. states \in Seq(Statuses) /\ Len(states) = n
  BY <1>2, <1>5, FunctionIsSeq
<1>7. ASSUME NEW c \in Int, c >= t.offset
      PROVE  StatusAt(Recorded(t, p, events), c) = Updated(t, p, c, events)
  <2>1. /\ IndexOf(Recorded(t, p, events), c) = IndexOf(t, c)
        /\ IndexOf(t, c) \in Nat \ {0} /\ t.offset + IndexOf(t, c) - 1 = c
    BY <1>1, <1>4, <1>7 DEF IndexOf
  <2>2. CASE IndexOf(t, c) \in 1..n
    BY <1>4, <1>5, <1>6, <2>1, <2>2 DEF StatusAt
  <2>3. CASE IndexOf(t, c) \notin 1..n
    <3>1. c \notin Touched(p, events)
      BY <1>2, <2>1, <2>3
    <3>2. \A op : On(events, op, <<p, c>>) = {}
      <4> SUFFICES ASSUME NEW op, NEW e \in events, <<p, c>> \in e.random
                   PROVE  FALSE
        BY DEF On
      <4>1. <<p, c>> \in {r \in UNION {x.random : x \in events} : r[1] = p}
        OBVIOUS
      <4>2. <<p, c>>[2] \in Touched(p, events)
        BY <4>1 DEF Touched
      <4> QED
        BY <3>1, <4>2
    <3>3. StatusAt(t, c) = DefaultStatus
      BY <1>2, <2>1, <2>3 DEF StatusAt, m
    <3>4. Updated(t, p, c, events) = DefaultStatus
      <4>1. \A op : Cardinality(On(events, op, <<p, c>>)) = 0
        BY <3>2, FS_EmptySet
      <4>2. On(events, "store", <<p, c>>) = {}
        BY <3>2
      <4> QED
        BY <3>3, <4>1, <4>2 DEF Updated, DefaultStatus
    <3>5. StatusAt(Recorded(t, p, events), c) = DefaultStatus
      BY <1>4, <1>6, <2>1, <2>3 DEF StatusAt
    <3> QED
      BY <3>4, <3>5
  <2> QED
    BY <2>2, <2>3
<1> QED
  BY <1>1, <1>2, <1>4, <1>6, <1>7 DEF Window

(* get_mut does not panic on a random that is alive.                       *)
LEMMA AliveInWindow ==
    ASSUME Windows, cycle \in Nat, NEW r, Alive(r)
    PROVE  /\ r[1] \in Ports /\ r[2] \in Nat /\ r[2] <= cycle /\ r = <<r[1], r[2]>>
           /\ InWindow(trks[r[1]], r[2])
<1> DEFINE t == trks[r[1]]
<1>1. r \in RandomIds /\ r[1] \in Ports /\ r[2] \in Int /\ r = <<r[1], r[2]>>
  BY DEF Alive, RandomIds
<1>2. t \in Window(Statuses) /\ t.offset + Len(t.states) <= cycle + 1 /\ t.offset <= cycle
  BY <1>1 DEF Windows
<1>3. t.offset \in Nat /\ Len(t.states) \in Nat
  BY <1>2 DEF Window
<1>4. CASE r[2] = cycle
  BY <1>1, <1>2, <1>4 DEF InWindow
<1>5. CASE r[2] # cycle
  <2>1. ~Stale(StatusAt(t, r[2]), cycle - 1)
    BY <1>5 DEF Alive, St
  <2>2. IndexOf(t, r[2]) \in 1..Len(t.states)
    BY <2>1 DEF StatusAt, DefaultStatus, Stale
  <2> QED
    BY <1>1, <1>2, <1>3, <2>2 DEF IndexOf, InWindow
<1> QED
  BY <1>4, <1>5

(* The events of a step, on randoms that are alive: what they leave of     *)
(* each status, and that they make no other random alive.                  *)
LEMMA RecordingEffect ==
    ASSUME Windows, cycle \in Nat, NEW events, IsFiniteSet(events),
           \A e \in events : \A r \in e.random : Alive(r),
           trks' = [p \in Ports |-> Recorded(trks[p], p, events)], cycle' = cycle
    PROVE  /\ Tracked(events)
           /\ Windows'
           /\ \A r \in RandomIds : InWindow(trks[r[1]], r[2]) =>
                 St(r)' = Updated(trks[r[1]], r[1], r[2], events)
           /\ \A r : Alive(r)' <=> Alive(r)
<1>1. ASSUME NEW e \in events, NEW r \in e.random
      PROVE  /\ r[1] \in Ports /\ r = <<r[1], r[2]>> /\ InWindow(trks[r[1]], r[2])
             /\ r[2] \in trks[r[1]].offset..cycle
  <2>1. Alive(r)
    OBVIOUS
  <2>2. /\ r[1] \in Ports /\ r[2] \in Nat /\ r[2] <= cycle /\ r = <<r[1], r[2]>>
        /\ InWindow(trks[r[1]], r[2])
    BY <2>1, AliveInWindow
  <2>3. trks[r[1]].offset \in Nat
    BY <2>2 DEF Windows, Window
  <2> QED
    BY <2>2, <2>3 DEF InWindow
<1>2. ASSUME NEW p \in Ports
      PROVE  /\ trks[p] \in Window(Statuses) /\ trks[p].offset \in Nat
             /\ trks'[p] \in Window(Statuses)
             /\ trks'[p].offset = trks[p].offset /\ trks[p].offset <= cycle
             /\ trks[p].offset + Len(trks'[p].states) <= cycle + 1
             /\ \A c \in Int : c >= trks[p].offset =>
                   StatusAt(trks'[p], c) = Updated(trks[p], p, c, events)
  <2>1. /\ trks[p] \in Window(Statuses) /\ trks[p].offset <= cycle
        /\ trks[p].offset + Len(trks[p].states) <= cycle + 1
    BY DEF Windows
  <2>2. \A c \in Touched(p, events) : c \in trks[p].offset..cycle
    BY <1>1 DEF Touched
  <2>3. trks'[p] = Recorded(trks[p], p, events)
    OBVIOUS
  <2>4. trks[p].offset \in Nat
    BY <2>1 DEF Window
  <2> QED
    BY <2>1, <2>2, <2>3, <2>4, RecordedEffect
<1>3. Windows'
  <2>1. trks' \in [Ports -> Window(Statuses)]
    BY <1>2
  <2> QED
    BY <1>2, <2>1 DEF Windows
<1>4. ASSUME NEW r \in RandomIds, InWindow(trks[r[1]], r[2])
      PROVE  St(r)' = Updated(trks[r[1]], r[1], r[2], events)
  BY <1>2, <1>4 DEF St, RandomIds, InWindow
<1>5. ASSUME NEW r
      PROVE  Alive(r)' <=> Alive(r)
  <2> SUFFICES ASSUME r \in RandomIds, r[2] # cycle
               PROVE  Stale(St(r)', cycle - 1) <=> Stale(St(r), cycle - 1)
    BY DEF Alive
  <2>1. r[1] \in Ports /\ r[2] \in Int /\ r = <<r[1], r[2]>>
    BY DEF RandomIds
  <2>2. CASE ~InWindow(trks[r[1]], r[2])
    <3>1. ~(IndexOf(trks[r[1]], r[2]) \in 1..Len(trks[r[1]].states))
      BY <1>2, <2>1, <2>2 DEF InWindow, IndexOf
    <3>2. ~(IndexOf(trks'[r[1]], r[2]) \in 1..Len(trks'[r[1]].states))
      BY <1>2, <2>1, <2>2 DEF InWindow, IndexOf
    <3> QED
      BY <3>1, <3>2 DEF St, StatusAt
  <2>3. CASE InWindow(trks[r[1]], r[2])
    <3>1. St(r)'.last_stored = IF On(events, "store", r) = {} THEN St(r).last_stored ELSE cycle
      <4>1. St(r)' = Updated(trks[r[1]], r[1], r[2], events)
        BY <1>4, <2>3
      <4>2. On(events, "store", <<r[1], r[2]>>) = On(events, "store", r)
        BY <2>1
      <4> QED
        BY <4>1, <4>2 DEF Updated, St
    <3>2. CASE On(events, "store", r) = {}
      BY <3>1, <3>2 DEF Stale
    <3>3. CASE On(events, "store", r) # {}
      <4>1. Alive(r)
        BY <3>3 DEF On
      <4> QED
        BY <3>1, <3>3, <4>1 DEF Stale, Alive, NotStored
    <3> QED
      BY <3>2, <3>3
  <2> QED
    BY <2>2, <2>3
<1>6. Tracked(events)
  BY <1>1 DEF Tracked
<1> QED
  BY <1>3, <1>4, <1>5, <1>6

-----------------------------------------------------------------------------
(* Evaluation of a wire.                                                   *)

(* What is leaked, outside of the gadgets: operands of a gate.             *)
LEMMA LeakedOperands ==
    ASSUME net \in Netlists, NextWire \in Wires
    PROVE  /\ \E n \in Nat : DOMAIN WireLeaks = 1..n
           /\ \A i \in DOMAIN WireLeaks :
                 /\ NextWire \notin net.inner /\ Kind(NextWire) \in CombKinds
                 /\ \E j \in 1..Arity(Kind(NextWire)) : WireLeaks[i] = Op(j)
<1> DEFINE kind == Kind(NextWire)
           Holds(n) == /\ DOMAIN WireLeaks = 1..n
                       /\ \A i \in 1..n :
                            /\ NextWire \notin net.inner /\ kind \in CombKinds
                            /\ \E j \in 1..Arity(kind) : WireLeaks[i] = Op(j)
<1>1. \/ WireLeaks = <<>>
      \/ NextWire \notin net.inner /\ kind = "NOT" /\ WireLeaks = <<Op(1)>>
      \/ NextWire \notin net.inner /\ kind \in BinaryGates /\ WireLeaks = <<Op(1), Op(2)>>
      \/ NextWire \notin net.inner /\ kind = "MUX" /\ WireLeaks = <<Op(1), Op(2), Op(3)>>
  <2>1. /\ NextWire \in net.inner => WireLeaks = <<>>
        /\ NextWire \notin net.inner =>
              /\ kind = "NOT" => WireLeaks = <<Op(1)>>
              /\ kind \in BinaryGates => WireLeaks = BinaryLeaks(kind, Op(1), Op(2))
              /\ kind = "MUX" => WireLeaks = MuxLeaks(Op(1), Op(2), Op(3))
              /\ kind \notin {"NOT", "MUX"} \cup BinaryGates => WireLeaks = <<>>
    BY DEF WireLeaks, BinaryGates
  <2> HIDE DEF kind
  <2> QED
    BY <2>1 DEF BinaryLeaks, MuxLeaks
<1>2. CASE WireLeaks = <<>>
  <2>1. Holds(0)
    BY <1>2
  <2> QED
    BY <2>1
<1>3. CASE NextWire \notin net.inner /\ kind = "NOT" /\ WireLeaks = <<Op(1)>>
  <2>1. kind \in CombKinds /\ Arity(kind) = 1
    BY <1>3 DEF CombKinds, Arity, InputKinds, BinaryGates
  <2>2. DOMAIN WireLeaks = 1..1 /\ \A i \in 1..1 : WireLeaks[i] = Op(i)
    BY <1>3
  <2>3. Holds(1)
    BY <1>3, <2>1, <2>2
  <2> QED
    BY <2>3
<1>4. CASE NextWire \notin net.inner /\ kind \in BinaryGates /\ WireLeaks = <<Op(1), Op(2)>>
  <2>1. kind \in CombKinds /\ Arity(kind) = 2
    BY <1>4 DEF CombKinds, Arity, InputKinds, BinaryGates
  <2>2. DOMAIN WireLeaks = 1..2 /\ \A i \in 1..2 : WireLeaks[i] = Op(i)
    BY <1>4
  <2>3. Holds(2)
    BY <1>4, <2>1, <2>2
  <2> QED
    BY <2>3
<1>5. CASE NextWire \notin net.inner /\ kind = "MUX" /\ WireLeaks = <<Op(1), Op(2), Op(3)>>
  <2>1. kind \in CombKinds /\ Arity(kind) = 3
    BY <1>5 DEF CombKinds, Arity, InputKinds, BinaryGates
  <2>2. DOMAIN WireLeaks = 1..3 /\ \A i \in 1..3 : WireLeaks[i] = Op(i)
    BY <1>5
  <2>3. Holds(3)
    BY <1>5, <2>1, <2>2
  <2> QED
    BY <2>3
<1> QED
  BY <1>1, <1>2, <1>3, <1>4, <1>5

(* The operands of a gate outside of the gadgets are outside of them.      *)
LEMMA OperandAlive ==
    ASSUME SimInv, AllAlive, Evaluating, NextWire \notin net.inner,
           Kind(NextWire) \in CombKinds \cup {"port"}, NEW i \in 1..Arity(Kind(NextWire))
    PROVE  \A r \in Op(i).random : Alive(r)
<1>1. net \in Netlists /\ NextWire \in Wires /\ Kind(NextWire) # "gadget"
  BY DEF SimInv, Evaluating, CombKinds, BinaryGates
<1>2. Fanin(NextWire)[i] \in 1..(NextWire - 1)
  BY <1>1, FaninBefore
<1>3. ws \in Seq(WireStates)
  BY DEF SimInv
<1>4. Fanin(NextWire)[i] \in DOMAIN ws
  BY <1>2, <1>3 DEF NextWire
<1>5. Fanin(NextWire)[i] \notin net.inner
  <2>1. Fanin(NextWire) \in Seq(Wires) /\ Len(Fanin(NextWire)) = Arity(Kind(NextWire))
        /\ NextWire \in DOMAIN net.wires
    BY <1>1, NetlistTypes
  <2>2. Range(Fanin(NextWire)) \cap net.inner = {}
    BY <1>1, <2>1, NetlistsAssumption DEF Enclosed, Kind, Fanin
  <2>3. Fanin(NextWire)[i] \in Range(Fanin(NextWire))
    BY <2>1 DEF Range
  <2> QED
    BY <2>2, <2>3
<1> QED
  BY <1>4, <1>5 DEF AllAlive, Op

(* The events of an evaluation are on randoms that are alive, and so is    *)
(* the random that a wire outside of the gadgets gets.                     *)
LEMMA WireEventsAlive ==
    ASSUME SimInv, AllAlive, Evaluating
    PROVE  /\ IsFiniteSet(WireEvents)
           /\ \A e \in WireEvents : \A r \in e.random : Alive(r)
           /\ \A res : IsResult(res) /\ NextWire \notin net.inner => \A r \in res.random : Alive(r)
<1> DEFINE kind == Kind(NextWire)
<1>1. net \in Netlists /\ NextWire \in Wires
  BY DEF SimInv, Evaluating
<1>2. IsFiniteSet(WireEvents)
  <2>1. PICK n \in Nat : DOMAIN WireLeaks = 1..n
    BY <1>1, LeakedOperands
  <2> DEFINE f == [i \in 1..n |-> Event("leak", WireLeaks[i], i)]
  <2>2. WireEvents = {f[i] : i \in 1..n}
    BY <2>1 DEF WireEvents
  <2>3. IsFiniteSet(1..n)
    BY FS_Interval
  <2> QED
    BY <2>2, <2>3, FiniteImage
<1>3. ASSUME NEW e \in WireEvents, NEW r \in e.random
      PROVE  Alive(r)
  <2>1. PICK i \in DOMAIN WireLeaks : e = Event("leak", WireLeaks[i], i)
    BY DEF WireEvents
  <2>2. e.random = WireLeaks[i].random
    BY <2>1 DEF Event
  <2>3. NextWire \notin net.inner /\ kind \in CombKinds
    BY <1>1, LeakedOperands
  <2>4. PICK j \in 1..Arity(kind) : WireLeaks[i] = Op(j)
    BY <1>1, LeakedOperands
  <2> QED
    BY <2>2, <2>3, <2>4, OperandAlive
<1>4. ASSUME NEW res, IsResult(res), NextWire \notin net.inner, NEW r \in res.random
      PROVE  Alive(r)
  <2>1. CASE kind \in CombKinds \cup {"port"}
    <3>1. GateResult(res, Arity(kind))
      <4>1. kind # "DFF"
        BY <2>1 DEF CombKinds, BinaryGates
      <4> QED
        BY <1>4, <2>1, <4>1 DEF IsResult
    <3>2. PICK j \in 1..Arity(kind) : r \in Op(j).random
      BY <3>1 DEF GateResult, Combines
    <3> QED
      BY <1>4, <2>1, <3>2, OperandAlive
  <2>2. CASE kind = "DFF"
    <3>1. res.random = past[1][Fanin(NextWire)[1]].random
      BY <1>4, <2>2 DEF IsResult, CombKinds, BinaryGates
    <3>2. Fanin(NextWire)[1] \in Wires /\ 1 \in 1..Depth
      <4>1. Fanin(NextWire) \in Seq(Wires) /\ Len(Fanin(NextWire)) = Arity(kind)
        BY <1>1, <2>2, NetlistTypes
      <4>2. Arity(kind) = 1
        BY <2>2 DEF Arity, InputKinds, BinaryGates
      <4>3. Fanin(NextWire)[1] \in Wires
        BY <4>1, <4>2
      <4>4. 1 \in 1..Depth
        BY <1>1, DepthIs
      <4> QED
        BY <4>3, <4>4
    <3>3. ReadAgain(Fanin(NextWire)[1], 1)
      BY <1>1, <1>4, <2>2 DEF ReadAgain, Dffs
    <3> QED
      BY <3>1, <3>2, <3>3 DEF AllAlive
  <2>3. CASE kind \notin CombKinds \cup {"port", "DFF"}
    <3>1. res.random = {}
      BY <1>4, <2>3 DEF IsResult
    <3> QED
      BY <3>1
  <2> QED
    BY <2>1, <2>2, <2>3
<1> QED
  BY <1>2, <1>3, <1>4

-----------------------------------------------------------------------------
(* The end of a cycle.                                                     *)

(* What enters a gadget is outside of it.                                  *)
LEMMA GInputIs ==
    ASSUME net \in Netlists, NEW g \in Gadgets, NEW k \in GInputs(g)
    PROVE  /\ GIn(g, k).wire \in Wires \ net.inner
           /\ GIn(g, k).role \in {"share", "random", "control"}
<1>1. GIn(g, k).wire \in Wires
  BY NetlistTypes
<1>2. net.gadgets[g] \in Range(net.gadgets)
  BY DEF Range, Gadgets
<1>3. GIn(g, k) \in Range(net.gadgets[g].inputs)
  BY DEF Range, GInputs, GIn
<1> QED
  BY <1>1, <1>2, <1>3, NetlistsAssumption DEF Enclosed, WellConnected

(* When a gadget reads the state of a random input.                        *)
LEMMA RndInputIs ==
    ASSUME net \in Netlists, NEW g \in Gadgets, NEW k \in RndInputs(g)
    PROVE  /\ k \in GInputs(g) /\ GIn(g, k).wire \in Wires \ net.inner
           /\ GIn(g, k).lat \in Nat /\ max_input_latency(g) \in Nat
           /\ GIn(g, k).lat <= max_input_latency(g)
           /\ rel_lat(g, k) \in 0..Depth /\ rel_lat(g, k) = max_input_latency(g) - GIn(g, k).lat
           /\ Depth \in Nat
           /\ \A i \in 1..rel_lat(g, k) : ReadAgain(GIn(g, k).wire, i)
<1>1. k \in GInputs(g) /\ GIn(g, k).wire \in Wires
  BY NetlistTypes DEF RndInputs
<1>2. GIn(g, k).wire \notin net.inner
  BY <1>1, GInputIs
<1>3. /\ GIn(g, k).lat \in Nat /\ max_input_latency(g) \in Nat
      /\ GIn(g, k).lat <= max_input_latency(g) /\ max_input_latency(g) <= Depth /\ Depth \in Nat
  BY <1>1, InputLatencies, DepthIs
<1>4. rel_lat(g, k) \in 0..Depth /\ rel_lat(g, k) = max_input_latency(g) - GIn(g, k).lat
  BY <1>3 DEF rel_lat
<1> QED
  BY <1>1, <1>2, <1>3, <1>4 DEF ReadAgain

(* What is read again, now or in a later cycle, is alive.                  *)
LEMMA ReadAlive ==
    ASSUME SimInv, AllAlive, Len(ws) = Len(net.wires), NEW w \in Wires, NEW i \in 0..Depth,
           (i = 0 /\ w \notin net.inner) \/ ReadAgain(w, i)
    PROVE  \A r \in At(w, i).random : Alive(r)
<1>1. DOMAIN ws = Wires /\ Depth \in Nat
  <2>1. ws \in Seq(WireStates) /\ net \in Netlists
    BY DEF SimInv
  <2> QED
    BY <2>1, DepthIs DEF Wires
<1>2. CASE i = 0
  <2>1. net \in Netlists
    BY DEF SimInv
  <2>2. ~ReadAgain(w, 0)
    <3>1. \A g \in Gadgets : \A k \in RndInputs(g) : rel_lat(g, k) \in Int
      BY <2>1, RndInputIs
    <3> QED
      BY <3>1 DEF ReadAgain
  <2> QED
    BY <1>1, <1>2, <2>2 DEF AllAlive, At
<1>3. CASE i # 0
  <2>1. i \in 1..Depth /\ ReadAgain(w, i)
    BY <1>1, <1>3
  <2> QED
    BY <1>3, <2>1 DEF AllAlive, At
<1> QED
  BY <1>2, <1>3

(* The events of eval_finish are on randoms that are alive.                *)
LEMMA FinishEventsFinite ==
    ASSUME net \in Netlists
    PROVE  IsFiniteSet(FinishEvents)
<1>1. /\ Len(net.wires) \in Nat /\ Wires = 1..Len(net.wires)
      /\ Len(net.gadgets) \in Nat /\ Gadgets = 1..Len(net.gadgets)
  BY NetlistTypes DEF Wires
<1>2. IsFiniteSet(DffEvents)
  <2> DEFINE f == [w \in Dffs |-> Event("store", ws[Fanin(w)[1]], <<w>>)]
  <2>1. IsFiniteSet(Dffs)
    <3>1. Dffs \in SUBSET (1..Len(net.wires)) /\ IsFiniteSet(1..Len(net.wires))
      BY <1>1, FS_Interval DEF Dffs
    <3> QED
      BY <3>1, FS_Subset
  <2>2. DffEvents = {f[w] : w \in Dffs}
    BY DEF DffEvents
  <2> QED
    BY <2>1, <2>2, FiniteImage
<1>3. ASSUME NEW g \in Gadgets, NEW k \in RndInputs(g)
      PROVE  IsFiniteSet(RndEvents(g, k))
  <2> DEFINE f == [i \in 1..rel_lat(g, k) |-> Event("store", At(GIn(g, k).wire, i - 1), <<g, k, i>>)]
             used == At(GIn(g, k).wire, rel_lat(g, k))
             uses == IF StageStatus(g, max_input_latency(g)).sensitive
                     THEN {Event("use", used, <<g, k>>)} ELSE {}
             leaked == {Event("leak", used, <<g, k>>)}
             stores == {f[i] : i \in 1..rel_lat(g, k)}
  <2>1. IsFiniteSet(uses) /\ IsFiniteSet(leaked)
    BY FS_EmptySet, FS_Singleton
  <2>2. IsFiniteSet(stores)
    <3>1. IsFiniteSet(1..rel_lat(g, k))
      BY RndInputIs, FS_Interval
    <3> QED
      BY <3>1, FiniteImage
  <2>3. RndEvents(g, k) = (uses \cup leaked) \cup stores
    BY DEF RndEvents
  <2> HIDE DEF uses, leaked, stores
  <2>4. IsFiniteSet(uses \cup leaked)
    BY <2>1, FS_Union
  <2> QED
    BY <2>2, <2>3, <2>4, FS_Union
<1>4. ASSUME NEW g \in Gadgets
      PROVE  IsFiniteSet(UNION {RndEvents(g, k) : k \in RndInputs(g)})
  <2> DEFINE f == [k \in RndInputs(g) |-> RndEvents(g, k)]
             sets == {f[k] : k \in RndInputs(g)}
  <2>1. IsFiniteSet(RndInputs(g))
    <3> DEFINE n == Len(net.gadgets[g].inputs)
    <3>1. n \in Nat /\ GInputs(g) = 1..n
      BY NetlistTypes
    <3> HIDE DEF n
    <3>2. RndInputs(g) \in SUBSET (1..n) /\ IsFiniteSet(1..n)
      BY <3>1, FS_Interval DEF RndInputs
    <3> QED
      BY <3>2, FS_Subset
  <2>2. sets = {RndEvents(g, k) : k \in RndInputs(g)} /\ IsFiniteSet(sets)
    BY <2>1, FiniteImage
  <2>3. \A T \in sets : IsFiniteSet(T)
    BY <1>3
  <2> QED
    BY <2>2, <2>3, FS_UNION
<1>5. IsFiniteSet(GadgetEvents)
  <2> DEFINE f == [g \in Gadgets |-> UNION {RndEvents(g, k) : k \in RndInputs(g)}]
             sets == {f[g] : g \in Gadgets}
  <2>1. IsFiniteSet(Gadgets)
    BY <1>1, FS_Interval
  <2>2. sets = {UNION {RndEvents(g, k) : k \in RndInputs(g)} : g \in Gadgets} /\ IsFiniteSet(sets)
    BY <2>1, FiniteImage
  <2>3. \A T \in sets : IsFiniteSet(T)
    BY <1>4
  <2> QED
    BY <2>2, <2>3, FS_UNION DEF GadgetEvents
<1> QED
  BY <1>2, <1>5, FS_Union DEF FinishEvents

(* The events of a finished cycle are about random bits still in a window. *)
LEMMA FinishEventsAlive ==
    ASSUME SimInv, AllAlive, Len(ws) = Len(net.wires)
    PROVE  \A e \in FinishEvents : \A r \in e.random : Alive(r)
<1> SUFFICES ASSUME NEW e \in FinishEvents, NEW r \in e.random
             PROVE  Alive(r)
  OBVIOUS
<1>1. net \in Netlists /\ Depth \in Nat
  BY DepthIs DEF SimInv
<1>2. CASE e \in DffEvents
  <2>1. PICK w \in Dffs : e.random = ws[Fanin(w)[1]].random
    BY <1>2 DEF DffEvents, Event
  <2>2. w \in Wires \ net.inner /\ Kind(w) = "DFF" /\ w \in DOMAIN net.wires
    BY <1>1, NetlistTypes DEF Dffs
  <2>3. Fanin(w)[1] \in Wires /\ Fanin(w)[1] \notin net.inner
    <3>1. Fanin(w) \in Seq(Wires) /\ Len(Fanin(w)) = Arity(Kind(w))
      BY <1>1, <2>2, NetlistTypes
    <3>2. Arity(Kind(w)) = 1
      BY <2>2 DEF Arity, InputKinds, BinaryGates
    <3>3. Range(Fanin(w)) \cap net.inner = {}
      BY <1>1, <2>2, NetlistsAssumption DEF Enclosed, Kind, Fanin
    <3>4. Fanin(w)[1] \in Wires /\ Fanin(w)[1] \in Range(Fanin(w))
      BY <3>1, <3>2 DEF Range
    <3> QED
      BY <3>3, <3>4
  <2>4. r \in At(Fanin(w)[1], 0).random
    BY <2>1 DEF At
  <2> QED
    BY <1>1, <2>3, <2>4, ReadAlive
<1>3. CASE e \in GadgetEvents
  <2>1. PICK g \in Gadgets : e \in UNION {RndEvents(g, k) : k \in RndInputs(g)}
    BY <1>3 DEF GadgetEvents
  <2>2. PICK k \in RndInputs(g) : e \in RndEvents(g, k)
    BY <2>1
  <2> DEFINE w == GIn(g, k).wire
             l == rel_lat(g, k)
  <2>3. /\ w \in Wires /\ w \notin net.inner /\ l \in 0..Depth
        /\ \A i \in 1..l : ReadAgain(w, i)
    BY <1>1, RndInputIs
  <2>4. \/ e.random = At(w, l).random
        \/ \E i \in 1..l : e.random = At(w, i - 1).random
    BY <2>2 DEF RndEvents, Event
  <2> HIDE DEF w, l
  <2>5. PICK i \in 0..l : e.random = At(w, i).random
    <3>1. l \in 0..l /\ \A i \in 1..l : i - 1 \in 0..l
      BY <2>3
    <3> QED
      BY <2>4, <3>1
  <2>6. i \in 0..Depth /\ (i = 0 \/ i \in 1..l)
    BY <1>1, <2>3
  <2> QED
    BY <2>3, <2>5, <2>6, ReadAlive
<1> QED
  BY <1>2, <1>3 DEF FinishEvents

-----------------------------------------------------------------------------
(* This invariant is inductive.                                            *)

(* What is read again only depends on the netlist.                         *)
LEMMA SameReads ==
    ASSUME net' = net
    PROVE  /\ Wires' = Wires /\ Depth' = Depth /\ Gadgets' = Gadgets /\ InputWires' = InputWires
           /\ \A g : RndInputs(g)' = RndInputs(g)
           /\ \A g, k : rel_lat(g, k)' = rel_lat(g, k)
           /\ \A w, i : ReadAgain(w, i)' <=> ReadAgain(w, i)
<1>1. /\ Wires' = Wires /\ Depth' = Depth /\ Gadgets' = Gadgets
      /\ \A w : Kind(w)' = Kind(w) /\ Fanin(w)' = Fanin(w)
      /\ \A g : GInputs(g)' = GInputs(g) /\ max_input_latency(g)' = max_input_latency(g)
      /\ \A g, k : GIn(g, k)' = GIn(g, k)
  BY SameNetlist, SameInputs DEF Kind, Fanin
<1>2. /\ \A g : RndInputs(g)' = RndInputs(g)
      /\ \A g, k : rel_lat(g, k)' = rel_lat(g, k)
      /\ Dffs' = Dffs /\ InputWires' = InputWires
  BY <1>1 DEF RndInputs, rel_lat, Dffs, InputWires
<1>3. ASSUME NEW w, NEW i
      PROVE  ReadAgain(w, i)' <=> ReadAgain(w, i)
  BY <1>1, <1>2 DEF ReadAgain
<1> QED
  BY <1>1, <1>2, <1>3

(* TrackInv holds initially.                                               *)
LEMMA TrackInit == Init => TrackInv
<1> SUFFICES ASSUME Init
             PROVE  TrackInv
  OBVIOUS
<1>1. /\ net \in Netlists /\ cycle = NotStarted /\ pc = "next" /\ verdict = "running"
      /\ ws = x_state /\ past = [k \in 1..Depth |-> x_state]
      /\ trks = [p \in Ports |-> NewTracker]
  BY DEF Init
<1>2. Windows
  <2>1. NewTracker \in Window(Statuses) /\ NewTracker.offset = 0 /\ Len(NewTracker.states) = 0
    BY DEF NewTracker, Window
  <2> QED
    BY <1>1, <2>1 DEF Windows, NotStarted
<1>3. ASSUME NEW w \in Wires, NEW i \in 1..Depth
      PROVE  At(w, i - 1).random = {}
  <2>1. Depth \in Nat
    BY <1>1, DepthIs
  <2>2. i - 1 # 0 => i - 1 \in 1..Depth
    BY <2>1
  <2>3. At(w, i - 1) = x_state[w]
    BY <1>1, <2>2 DEF At
  <2> QED
    BY <2>3 DEF x_state, control, nil
<1>4. AllStored /\ ~InCycle
  BY <1>1, <1>3 DEF AllStored, InCycle
<1> QED
  BY <1>1, <1>2, <1>4 DEF TrackInv

(* Pruning keeps what was stored in the cycle that ends.                   *)
LEMMA StatusesKept ==
    ASSUME Windows, cycle \in Nat \cup {NotStarted}, StartCycle
    PROVE  /\ Windows'
           /\ \A r \in RandomIds :
                 ~Stale(St(r), cycle) \/ ~Stale(St(r)', cycle) => St(r)' = St(r)
<1>1. cycle' = cycle + 1 /\ cycle' \in Nat
  BY DEF StartCycle, NotStarted
<1>2. CASE cycle = NotStarted
  <2>1. trks' = trks
    BY <1>2 DEF StartCycle
  <2>2. \A p \in Ports : trks[p].offset \in Nat /\ Len(trks[p].states) \in Nat
    BY DEF Windows, Window
  <2>3. \A p \in Ports : trks[p].offset + Len(trks[p].states) <= cycle' + 1
                        /\ trks[p].offset <= cycle'
    BY <1>1, <1>2, <2>2 DEF Windows, NotStarted
  <2> QED
    BY <2>1, <2>3 DEF Windows, St
<1>3. CASE cycle # NotStarted
  <2>1. trks' = [p \in Ports |-> Prune(trks[p], cycle)] /\ cycle \in Nat
    BY <1>3 DEF StartCycle
  <2>2. ASSUME NEW p \in Ports
        PROVE  /\ trks[p] \in Window(Statuses) /\ trks[p].offset \in Nat
               /\ trks'[p] \in Window(Statuses) /\ trks'[p].offset \in Nat
               /\ trks'[p].offset <= cycle /\ trks'[p].offset + Len(trks'[p].states) <= cycle + 1
               /\ \A c \in Nat : InWindow(trks[p], c) /\ ~InWindow(trks'[p], c) =>
                     Stale(StatusAt(trks[p], c), cycle)
               /\ \A c \in Nat : InWindow(trks'[p], c) =>
                     /\ InWindow(trks[p], c)
                     /\ \/ StatusAt(trks'[p], c) = StatusAt(trks[p], c)
                        \/ /\ Stale(StatusAt(trks[p], c), cycle)
                           /\ StatusAt(trks'[p], c) = DefaultStatus
    <3>1. /\ trks[p] \in Window(Statuses) /\ trks[p].offset <= cycle
          /\ trks[p].offset + Len(trks[p].states) <= cycle + 1
      BY <2>1 DEF Windows
    <3>2. trks'[p] = Prune(trks[p], cycle)
      BY <2>1
    <3>3. trks'[p] \in Window(Statuses)
      BY <2>1, <3>1, <3>2, PruneEffect
    <3>4. trks[p].offset \in Nat /\ trks'[p].offset \in Nat
      BY <3>1, <3>3 DEF Window
    <3> QED
      BY <2>1, <3>1, <3>2, <3>3, <3>4, PruneEffect
  <2>3. Windows'
    <3>1. trks' \in [Ports -> Window(Statuses)]
      BY <2>1, <2>2
    <3>2. \A p \in Ports : /\ trks'[p].offset <= cycle'
                          /\ trks'[p].offset + Len(trks'[p].states) <= cycle' + 1
      <4> TAKE p \in Ports
      <4>1. Len(trks'[p].states) \in Nat
        BY <2>2 DEF Window
      <4> QED
        BY <1>1, <2>1, <2>2, <4>1
    <3> QED
      BY <3>1, <3>2 DEF Windows
  <2>4. ASSUME NEW r \in RandomIds, ~Stale(St(r), cycle) \/ ~Stale(St(r)', cycle)
        PROVE  St(r)' = St(r)
    <3> DEFINE p == r[1]
               c == r[2]
    <3>1. p \in Ports /\ c \in Int
      BY DEF RandomIds
    <3>2. St(r) = StatusAt(trks[p], c) /\ St(r)' = StatusAt(trks'[p], c)
      BY DEF St
    <3> HIDE DEF p, c
    <3>3. Stale(DefaultStatus, cycle)
      BY DEF Stale, DefaultStatus
    <3>4. ~Stale(St(r), cycle) => c \in Nat /\ InWindow(trks[p], c)
      <4>1. St(r) # DefaultStatus => IndexOf(trks[p], c) \in 1..Len(trks[p].states)
        BY <3>2 DEF StatusAt
      <4> QED
        BY <2>2, <3>1, <3>3, <4>1 DEF IndexOf, InWindow
    <3>5. ~Stale(St(r)', cycle) => c \in Nat /\ InWindow(trks'[p], c)
      <4>1. St(r)' # DefaultStatus => IndexOf(trks'[p], c) \in 1..Len(trks'[p].states)
        BY <3>2 DEF StatusAt
      <4> QED
        BY <2>2, <3>1, <3>3, <4>1 DEF IndexOf, InWindow
    <3> QED
      BY <2>2, <2>4, <3>1, <3>2, <3>3, <3>4, <3>5
  <2> QED
    BY <2>3, <2>4
<1> QED
  BY <1>2, <1>3

(* The inputs of a cycle carry the randoms of that cycle.                  *)
LEMMA InputRandoms ==
    ASSUME net \in Netlists, StartCycle, cycle' # NCycles, cycle' \in Nat,
           NEW w \in InputWires, NEW r \in ws'[w].random
    PROVE  r \in RandomIds /\ r[2] = cycle'
<1> DEFINE id == net.wires[w].id
<1>1. PICK v \in [InputWires -> ControlValues \cup DataValues] :
        ws' = [u \in InputWires |-> with_value(InputState(u), v[u])]
  BY DEF StartCycle
<1>2. \A s \in {control, share(id), random(id, cycle')} : with_value(s, v[w]).random = s.random
  BY DEF with_value, control, share, random, nil
<1>3. \/ InputState(w) \in {control, share(id)}
      \/ Kind(w) = "random" /\ InputState(w) = random(id, cycle')
  BY DEF InputState, InputWires, InputKinds, Kind
<1>4. control.random = {} /\ share(id).random = {} /\ random(id, cycle').random = {<<id, cycle'>>}
  BY DEF control, share, random, nil
<1>5. ws'[w] = with_value(InputState(w), v[w])
  BY <1>1
<1>6. Kind(w) = "random" /\ r = <<id, cycle'>>
  BY <1>2, <1>3, <1>4, <1>5
<1>7. id \in Ports
  BY <1>6, NetlistTypes DEF InputWires
<1> QED
  BY <1>6, <1>7 DEF RandomIds

(* What the end of a cycle stored is alive in the next one, and so are the *)
(* randoms it receives.                                                    *)
LEMMA TrackStart ==
    ASSUME SimInv, TrackInv, StartCycle
    PROVE  TrackInv'
<1>1. /\ StartCycle /\ pc = "next" /\ verdict = "running" /\ net' = net /\ cycle' = cycle + 1
  BY DEF StartCycle
<1>2. /\ net \in Netlists /\ cycle \in Nat \cup {NotStarted} /\ cycle' \in Nat
      /\ Windows /\ AllStored /\ Depth \in Nat
  BY <1>1, DepthIs DEF SimInv, TrackInv, InCycle, NotStarted
<1>3. CASE cycle' = NCycles
  <2>1. verdict' = "accepted"
    BY <1>1, <1>3 DEF StartCycle
  <2> QED
    BY <1>2, <2>1 DEF TrackInv
<1>4. CASE cycle' # NCycles
  <2>1. pc' = "eval" /\ verdict' = "running" /\ DOMAIN ws' = InputWires
    BY <1>1, <1>4 DEF StartCycle
  <2>2. /\ Windows'
        /\ \A r \in RandomIds : ~Stale(St(r), cycle) => St(r)' = St(r)
    BY <1>1, <1>2, StatusesKept
  <2>3. ASSUME NEW w \in DOMAIN ws', NEW r \in ws'[w].random
        PROVE  Alive(r)'
    <3>1. r \in RandomIds /\ r[2] = cycle'
      BY <1>1, <1>2, <1>4, <2>1, InputRandoms
    <3> QED
      BY <3>1 DEF Alive, RandomIds
  <2>4. ASSUME NEW w \in Wires, NEW i \in 1..Depth, ReadAgain(w, i), NEW r \in past'[i][w].random
        PROVE  Alive(r)'
    <3>1. At(w, i)' = At(w, i - 1)
      <4>1. i - 1 \in Nat /\ (i - 1) + 1 = i /\ i <= Depth
        BY <1>2
      <4> QED
        BY <1>1, <1>4, <4>1, AtShifted
    <3>2. At(w, i)' = past'[i][w]
      BY DEF At
    <3>3. r \in RandomIds /\ ~Stale(St(r), cycle)
      BY <1>2, <2>4, <3>1, <3>2 DEF AllStored
    <3>4. cycle' - 1 = cycle
      BY <1>1, <1>2 DEF NotStarted
    <3> QED
      BY <2>2, <3>3, <3>4 DEF Alive, RandomIds
  <2>5. AllAlive'
    BY <1>1, <2>3, <2>4, SameReads DEF AllAlive
  <2> QED
    BY <1>2, <2>1, <2>2, <2>5 DEF TrackInv, InCycle
<1> QED
  BY <1>3, <1>4

(* Evaluating a wire touches and passes on randoms that are alive.         *)
LEMMA TrackEval ==
    ASSUME SimInv, TrackInv, EvalWire
    PROVE  TrackInv'
<1>1. PICK res : /\ IsResult(res)
                 /\ Evaluated(res) \/ \E why \in Panics \ {"untracked"} : GadgetPanic(why)
  BY EvalResult DEF EvalWire
<1>2. /\ Evaluating /\ pc = "eval" /\ verdict = "running" /\ net' = net /\ cycle' = cycle
      /\ past' = past
  BY <1>1 DEF EvalWire, EvalTie, EvalPort, EvalUnary, EvalBinary, EvalMux, EvalDff,
              EvalGadget, Evaluating, Evaluated, GadgetPanic
<1>3. cycle \in Nat /\ Windows /\ AllAlive
  BY <1>2 DEF TrackInv, InCycle
<1>4. CASE \E why \in Panics \ {"untracked"} : GadgetPanic(why)
  <2>1. verdict' # "untracked" /\ verdict' # "running"
    BY <1>4 DEF GadgetPanic, Panics
  <2> QED
    BY <1>2, <1>3, <2>1 DEF TrackInv
<1>5. CASE Evaluated(res)
  <2>1. /\ IsFiniteSet(WireEvents)
        /\ \A e \in WireEvents : \A r \in e.random : Alive(r)
        /\ NextWire \notin net.inner => \A r \in res.random : Alive(r)
    BY <1>1, <1>2, <1>3, WireEventsAlive
  <2>2. Tracked(WireEvents)
    BY <1>3, <2>1, AliveInWindow DEF Tracked
  <2>3. /\ ws' = Append(ws, res) /\ verdict' = verdict
        /\ trks' = [p \in Ports |-> Recorded(trks[p], p, WireEvents)]
        /\ pc' \in {"eval", "finish"}
    BY <1>2, <1>5, <2>2 DEF Evaluated
  <2>4. Windows' /\ \A r : Alive(r)' <=> Alive(r)
    BY <1>2, <1>3, <2>1, <2>3, RecordingEffect
  <2>5. ASSUME NEW w \in DOMAIN ws' \ net.inner, NEW r \in ws'[w].random
        PROVE  Alive(r)
    <3>1. ws \in Seq(WireStates) /\ NextWire = Len(ws) + 1
      BY DEF SimInv, NextWire
    <3>2. /\ \A u \in DOMAIN ws : ws'[u] = ws[u]
          /\ ws'[NextWire] = res /\ DOMAIN ws' = DOMAIN ws \cup {NextWire}
      BY <2>3, <3>1
    <3> QED
      BY <1>3, <2>1, <2>5, <3>2 DEF AllAlive
  <2>6. AllAlive'
    <3>1. \A w \in DOMAIN ws' \ net.inner : \A r \in ws'[w].random : Alive(r)'
      BY <2>4, <2>5
    <3>2. \A w \in Wires : \A i \in 1..Depth :
            ReadAgain(w, i) => \A r \in past'[i][w].random : Alive(r)'
      BY <1>2, <1>3, <2>4 DEF AllAlive
    <3> QED
      BY <1>2, <3>1, <3>2, SameReads DEF AllAlive
  <2> QED
    BY <1>2, <1>3, <2>3, <2>4, <2>6 DEF TrackInv, InCycle
<1> QED
  BY <1>1, <1>4, <1>5

(* The end of a cycle stores what is read again in a later one.            *)
LEMMA StoresAgain ==
    ASSUME net \in Netlists, NEW w \in Wires, NEW i \in 1..Depth, ReadAgain(w, i),
           NEW r \in At(w, i - 1).random
    PROVE  On(FinishEvents, "store", r) # {}
<1>1. CASE i = 1 /\ \E d \in Dffs : w = Fanin(d)[1]
  <2>1. PICK d \in Dffs : w = Fanin(d)[1]
    BY <1>1
  <2> DEFINE e == Event("store", ws[Fanin(d)[1]], <<d>>)
  <2>2. e \in FinishEvents /\ e.op = "store" /\ r \in e.random
    BY <1>1, <2>1 DEF FinishEvents, DffEvents, Event, At
  <2> QED
    BY <2>2 DEF On
<1>2. CASE \E g \in Gadgets : \E k \in RndInputs(g) : w = GIn(g, k).wire /\ i \in 1..rel_lat(g, k)
  <2>1. PICK g \in Gadgets : \E k \in RndInputs(g) : w = GIn(g, k).wire /\ i \in 1..rel_lat(g, k)
    BY <1>2
  <2>2. PICK k \in RndInputs(g) : w = GIn(g, k).wire /\ i \in 1..rel_lat(g, k)
    BY <2>1
  <2> DEFINE e == Event("store", At(GIn(g, k).wire, i - 1), <<g, k, i>>)
  <2>3. e \in RndEvents(g, k)
    BY <2>2 DEF RndEvents
  <2>4. e.op = "store" /\ r \in e.random
    BY <2>2 DEF Event
  <2> HIDE DEF e
  <2>5. e \in FinishEvents
    BY <2>3 DEF FinishEvents, GadgetEvents
  <2> QED
    BY <2>4, <2>5 DEF On
<1> QED
  BY <1>1, <1>2 DEF ReadAgain

(* TrackInv holds after a cycle is finished.                               *)
LEMMA TrackFinish ==
    ASSUME SimInv, TrackInv, EvalFinish
    PROVE  TrackInv'
<1>1. /\ pc = "finish" /\ verdict = "running" /\ net' = net /\ cycle' = cycle
      /\ ws' = ws /\ past' = past
  BY DEF EvalFinish
<1>2. net \in Netlists /\ cycle \in Nat /\ Windows /\ AllAlive /\ Len(ws) = Len(net.wires)
  BY <1>1 DEF TrackInv, InCycle, SimInv
<1>3. /\ IsFiniteSet(FinishEvents)
      /\ \A e \in FinishEvents : \A r \in e.random : Alive(r)
  BY <1>2, FinishEventsFinite, FinishEventsAlive
<1>4. Tracked(FinishEvents)
  BY <1>2, <1>3, AliveInWindow DEF Tracked
<1>5. /\ trks' = [p \in Ports |-> Recorded(trks[p], p, FinishEvents)]
      /\ verdict' = verdict /\ pc' = "check"
  BY <1>4 DEF EvalFinish
<1>6. /\ Windows'
      /\ \A r \in RandomIds : InWindow(trks[r[1]], r[2]) =>
            St(r)' = Updated(trks[r[1]], r[1], r[2], FinishEvents)
  BY <1>1, <1>2, <1>3, <1>5, RecordingEffect
<1>7. ASSUME NEW w \in Wires, NEW i \in 1..Depth, ReadAgain(w, i), NEW r \in At(w, i - 1).random
      PROVE  r \in RandomIds /\ ~Stale(St(r)', cycle)
  <2>1. On(FinishEvents, "store", r) # {}
    BY <1>2, <1>7, StoresAgain
  <2>2. Alive(r)
    BY <1>3, <2>1 DEF On
  <2>3. r \in RandomIds /\ r = <<r[1], r[2]>> /\ InWindow(trks[r[1]], r[2])
    BY <1>2, <2>2, AliveInWindow DEF Alive
  <2>4. St(r)' = Updated(trks[r[1]], r[1], r[2], FinishEvents)
    BY <1>6, <2>3
  <2>5. On(FinishEvents, "store", <<r[1], r[2]>>) # {}
    BY <2>1, <2>3
  <2>6. St(r)'.last_stored = cycle
    BY <2>4, <2>5 DEF Updated
  <2> QED
    BY <1>2, <2>3, <2>6 DEF Stale, NotStored
<1>8. \A w, i : At(w, i)' = At(w, i)
  BY <1>1 DEF At
<1>9. AllStored'
  <2> SUFFICES ASSUME NEW w \in Wires, NEW i \in 1..Depth, ReadAgain(w, i),
                      NEW r \in At(w, i - 1)'.random
               PROVE  r \in RandomIds /\ ~Stale(St(r)', cycle')
    BY <1>1, SameReads DEF AllStored, RandomIds
  <2> QED
    BY <1>1, <1>7, <1>8
<1> QED
  BY <1>1, <1>2, <1>5, <1>6, <1>9 DEF TrackInv, InCycle

(* Every step keeps TrackInv.                                              *)
LEMMA TrackStep == SimInv /\ TrackInv /\ [Next]_simVars => TrackInv'
<1> SUFFICES ASSUME SimInv, TrackInv, [Next]_simVars
             PROVE  TrackInv'
  OBVIOUS
<1>1. CASE CheckCycle \/ UNCHANGED simVars
  <2>1. /\ UNCHANGED <<net, cycle, ws, past, trks>>
        /\ \/ verdict' = verdict
           \/ verdict = "running" /\ verdict' \in {"rejected", "running", "unindexed"}
        /\ InCycle' = InCycle
        /\ pc' # "next" => pc # "next"
    BY <1>1 DEF CheckCycle, Outcomes, simVars, InCycle
  <2>2. /\ \A w, i : At(w, i)' = At(w, i)
        /\ \A r : St(r)' = St(r)
    BY <2>1 DEF At, St
  <2>3. \A r : Alive(r)' = Alive(r)
    BY <2>1, <2>2 DEF Alive, RandomIds
  <2>4. Windows' = Windows
    BY <2>1 DEF Windows
  <2>5. AllAlive => AllAlive'
    BY <2>1, <2>3, SameReads DEF AllAlive
  <2>6. AllStored => AllStored'
    BY <2>1, <2>2, SameReads DEF AllStored, RandomIds
  <2> QED
    BY <2>1, <2>4, <2>5, <2>6 DEF TrackInv
<1> QED
  BY <1>1, TrackStart, TrackEval, TrackFinish DEF Next

(* Executions <<gadget, start>>, where lat gives the largest input latency *)
(* of each gadget: the cycle by which the simulator names an execution is  *)
(* the one in which its last input arrives, and is not negative.           *)
ExecsOf(lat) == {e \in (DOMAIN lat) \X Int : e[2] + lat[e[1]] >= 0}
ExecCycles(lat, D, g) == {NoExec} \cup {e[2] + lat[g] : e \in {e \in D : e[1] = g}}
IsLast(lat, c, D, g) == c \in ExecCycles(lat, D, g) /\ \A x \in ExecCycles(lat, D, g) : x <= c

(* State w names the last of the executions of D of each gadget.           *)
NamesLast(lat, w, D) ==
    D \subseteq ExecsOf(lat) /\ \A g \in DOMAIN lat : IsLast(lat, w.nspgi_dep[g], D, g)

Audited(lat, w, D) == WellFormed(w) /\ NamesLast(lat, w, D)

-----------------------------------------------------------------------------
(* Cycles of executions are numbers.                                       *)
LEMMA CyclesAreNumbers ==
    ASSUME NEW lat, \A g \in DOMAIN lat : lat[g] \in Nat,
           NEW D, D \subseteq ExecsOf(lat), NEW g \in DOMAIN lat
    PROVE  ExecCycles(lat, D, g) \subseteq Int
<1>1. \A e \in D : e[2] \in Int
  BY DEF ExecsOf
<1> QED
  BY <1>1 DEF ExecCycles, NoExec

(* Of no execution, the last one is none.                                  *)
LEMMA NoneIsLast ==
    ASSUME NEW lat, NEW g
    PROVE  IsLast(lat, NoExec, {}, g)
BY DEF IsLast, ExecCycles, NoExec

(* The last of two sets of executions is the later of their last ones.     *)
LEMMA LaterIsLast ==
    ASSUME NEW lat, \A g \in DOMAIN lat : lat[g] \in Nat, NEW g \in DOMAIN lat,
           NEW D, D \subseteq ExecsOf(lat), NEW E, E \subseteq ExecsOf(lat),
           NEW c, NEW d, IsLast(lat, c, D, g), IsLast(lat, d, E, g)
    PROVE  IsLast(lat, IF c < d THEN d ELSE c, D \cup E, g)
<1>1. ExecCycles(lat, D, g) \subseteq Int /\ ExecCycles(lat, E, g) \subseteq Int
  BY CyclesAreNumbers
<1>2. ExecCycles(lat, D \cup E, g) = ExecCycles(lat, D, g) \cup ExecCycles(lat, E, g)
  BY DEF ExecCycles
<1>3. /\ c \in ExecCycles(lat, D, g) /\ \A x \in ExecCycles(lat, D, g) : x <= c
      /\ d \in ExecCycles(lat, E, g) /\ \A x \in ExecCycles(lat, E, g) : x <= d
  BY DEF IsLast
<1>4. c \in Int /\ d \in Int
  BY <1>1, <1>3
<1>5. CASE c < d
  <2>1. \A x \in ExecCycles(lat, D, g) : x <= d
    BY <1>1, <1>3, <1>4, <1>5
  <2> QED
    BY <1>2, <1>3, <1>5, <2>1 DEF IsLast
<1>6. CASE ~(c < d)
  <2>1. \A x \in ExecCycles(lat, E, g) : x <= c
    BY <1>1, <1>3, <1>4, <1>6
  <2> QED
    BY <1>2, <1>3, <1>6, <2>1 DEF IsLast
<1> QED
  BY <1>5, <1>6

(* NspgiDep::max names the last of the executions of both operands.        *)
LEMMA MaxNamesLast ==
    ASSUME NEW lat, \A g \in DOMAIN lat : lat[g] \in Nat, DOMAIN lat \subseteq Nspgis,
           NEW v, NEW w, NEW D, NEW E, NamesLast(lat, v, D), NamesLast(lat, w, E),
           NEW res, res.nspgi_dep = DepMax(v.nspgi_dep, w.nspgi_dep)
    PROVE  NamesLast(lat, res, D \cup E)
<1>1. \A g \in DOMAIN lat :
        res.nspgi_dep[g] = IF v.nspgi_dep[g] < w.nspgi_dep[g] THEN w.nspgi_dep[g] ELSE v.nspgi_dep[g]
  BY DEF DepMax
<1>2. \A g \in DOMAIN lat : IsLast(lat, res.nspgi_dep[g], D \cup E, g)
  BY <1>1, LaterIsLast DEF NamesLast
<1> QED
  BY <1>2 DEF NamesLast

(* The executions that the output of a binary gate depends on.             *)
JoinedDeps(gate, op0, op1, D, E) ==
    IF Passes(gate, op0, op1) THEN E ELSE IF Passes(gate, op1, op0) THEN D ELSE D \cup E

(* A binary gate names the last execution that its output depends on.      *)
LEMMA BinaryAudited ==
    ASSUME NEW lat, \A g \in DOMAIN lat : lat[g] \in Nat, DOMAIN lat \subseteq Nspgis,
           NEW gate \in BinaryGates, NEW op0, NEW op1, NEW D, NEW E,
           Audited(lat, op0, D), Audited(lat, op1, E)
    PROVE  Audited(lat, BinarySim(gate, op0, op1), JoinedDeps(gate, op0, op1, D, E))
<1>1. WellFormed(BinarySim(gate, op0, op1))
  BY BinaryWellFormed DEF Audited
<1>2. ASSUME NEW w, DOMAIN w = DOMAIN nil, NEW glitches
      PROVE  [w EXCEPT !.glitch_sensitivity = glitches].nspgi_dep = w.nspgi_dep
  BY <1>2 DEF nil
<1>3. DOMAIN op0 = DOMAIN nil /\ DOMAIN op1 = DOMAIN nil /\ DOMAIN Joined(gate, op0, op1) = DOMAIN nil
  BY DEF Audited, WellFormed, WireStates, nil, Joined
<1>4. BinarySim(gate, op0, op1).nspgi_dep =
        IF Passes(gate, op0, op1) THEN op1.nspgi_dep
        ELSE IF Passes(gate, op1, op0) THEN op0.nspgi_dep ELSE Joined(gate, op0, op1).nspgi_dep
  BY <1>2, <1>3 DEF BinarySim
<1>5. Joined(gate, op0, op1).nspgi_dep = DepMax(op0.nspgi_dep, op1.nspgi_dep)
  BY DEF Joined
<1>6. NamesLast(lat, BinarySim(gate, op0, op1), JoinedDeps(gate, op0, op1, D, E))
  <2>1. CASE Passes(gate, op0, op1)
    BY <1>4, <2>1 DEF Audited, NamesLast, JoinedDeps
  <2>2. CASE ~Passes(gate, op0, op1) /\ Passes(gate, op1, op0)
    BY <1>4, <2>2 DEF Audited, NamesLast, JoinedDeps
  <2>3. CASE ~Passes(gate, op0, op1) /\ ~Passes(gate, op1, op0)
    <3>1. BinarySim(gate, op0, op1).nspgi_dep = DepMax(op0.nspgi_dep, op1.nspgi_dep)
      BY <1>4, <1>5, <2>3
    <3> QED
      BY <2>3, <3>1, MaxNamesLast DEF Audited, JoinedDeps
  <2> QED
    BY <2>1, <2>2, <2>3
<1> QED
  BY <1>1, <1>6 DEF Audited

(* The same for a mux.                                                     *)
ChosenDeps(ops, D, E, F) ==
    IF is_control(ops, 0) THEN D ELSE IF is_control(ops, 1) THEN E ELSE D \cup E \cup F

(* A mux names the last execution that its output depends on.              *)
LEMMA MuxAudited ==
    ASSUME NEW lat, \A g \in DOMAIN lat : lat[g] \in Nat, DOMAIN lat \subseteq Nspgis,
           NEW op0, NEW op1, NEW ops, NEW D, NEW E, NEW F,
           Audited(lat, op0, D), Audited(lat, op1, E), Audited(lat, ops, F)
    PROVE  Audited(lat, MuxSim(op0, op1, ops), ChosenDeps(ops, D, E, F))
<1>1. WellFormed(MuxSim(op0, op1, ops))
  BY MuxWellFormed DEF Audited
<1>2. ASSUME NEW w, DOMAIN w = DOMAIN nil, NEW glitches
      PROVE  with_glitches(w, glitches).nspgi_dep = w.nspgi_dep
  BY <1>2 DEF nil, with_glitches
<1>3. DOMAIN op0 = DOMAIN nil /\ DOMAIN op1 = DOMAIN nil
  BY DEF Audited, WellFormed, WireStates, nil
<1>4. CASE is_control(ops, 0)
  <2>1. MuxSim(op0, op1, ops).nspgi_dep = op0.nspgi_dep
    BY <1>2, <1>3, <1>4 DEF MuxSim
  <2> QED
    BY <1>1, <1>4, <2>1 DEF Audited, NamesLast, ChosenDeps
<1>5. CASE ~is_control(ops, 0) /\ is_control(ops, 1)
  <2>1. MuxSim(op0, op1, ops).nspgi_dep = op1.nspgi_dep
    BY <1>2, <1>3, <1>5 DEF MuxSim
  <2> QED
    BY <1>1, <1>5, <2>1 DEF Audited, NamesLast, ChosenDeps
<1>6. CASE ~is_control(ops, 0) /\ ~is_control(ops, 1)
  <2> DEFINE data == [nil EXCEPT !.nspgi_dep = DepMax(op0.nspgi_dep, op1.nspgi_dep)]
  <2>1. data.nspgi_dep = DepMax(op0.nspgi_dep, op1.nspgi_dep)
    BY DEF nil
  <2>2. MuxSim(op0, op1, ops).nspgi_dep = DepMax(data.nspgi_dep, ops.nspgi_dep)
    BY <1>6, <2>1 DEF MuxSim, MuxJoined
  <2> HIDE DEF data
  <2>3. NamesLast(lat, data, D \cup E)
    BY <2>1, MaxNamesLast DEF Audited
  <2>4. NamesLast(lat, MuxSim(op0, op1, ops), (D \cup E) \cup F)
    BY <2>2, <2>3, MaxNamesLast DEF Audited
  <2> QED
    BY <1>1, <1>6, <2>4 DEF Audited, ChosenDeps
<1> QED
  BY <1>4, <1>5, <1>6

(* The largest of c and f[k] for k in T, and the sets E and D[k] together. *)
Latest(c, f, T) == Max({c} \cup {f[k] : k \in T})
Together(E, D, T) == E \cup UNION {D[k] : k \in T}

(* The last of any number of sets of executions.                           *)
LEMMA LatestIsLast ==
    ASSUME NEW lat, \A g \in DOMAIN lat : lat[g] \in Nat, NEW h \in DOMAIN lat,
           NEW n \in Nat, NEW T \in SUBSET (1..n), NEW f, NEW D,
           \A k \in T : D[k] \subseteq ExecsOf(lat) /\ IsLast(lat, f[k], D[k], h),
           NEW c, NEW E, E \subseteq ExecsOf(lat), IsLast(lat, c, E, h)
    PROVE  IsLast(lat, Latest(c, f, T), Together(E, D, T), h)
<1> DEFINE all == {c} \cup {f[k] : k \in T}
           total == E \cup UNION {D[k] : k \in T}
<1>1. ASSUME NEW k \in T
      PROVE  f[k] \in Int /\ ExecCycles(lat, D[k], h) \subseteq Int
  BY CyclesAreNumbers DEF IsLast
<1>2. c \in Int /\ ExecCycles(lat, E, h) \subseteq Int
  BY CyclesAreNumbers DEF IsLast
<1>4. Max(all) \in all /\ \A y \in all : y <= Max(all)
  BY <1>1, <1>2, LargestOf
<1>5. Max(all) \in Int
  <2>1. all \subseteq Int
    BY <1>1, <1>2
  <2> HIDE DEF all
  <2> QED
    BY <1>4, <2>1
<1>6. \A x \in ExecCycles(lat, total, h) :
        x \in ExecCycles(lat, E, h) \/ \E k \in T : x \in ExecCycles(lat, D[k], h)
  BY DEF ExecCycles
<1>7. /\ ExecCycles(lat, E, h) \subseteq ExecCycles(lat, total, h)
      /\ \A k \in T : ExecCycles(lat, D[k], h) \subseteq ExecCycles(lat, total, h)
  BY DEF ExecCycles
<1>8. c \in all /\ \A k \in T : f[k] \in all
  OBVIOUS
<1>9. \A y \in all : y = c \/ \E k \in T : y = f[k]
  OBVIOUS
<1> HIDE DEF all, total
<1>10. Max(all) \in ExecCycles(lat, total, h)
  BY <1>4, <1>7, <1>9 DEF IsLast
<1>11. ASSUME NEW x \in ExecCycles(lat, total, h)
       PROVE  x <= Max(all)
  <2>1. CASE x \in ExecCycles(lat, E, h)
    <3>1. x \in Int /\ x <= c /\ c <= Max(all)
      BY <1>2, <1>4, <1>8, <2>1 DEF IsLast
    <3> QED
      BY <1>2, <1>5, <3>1
  <2>2. ASSUME NEW k \in T, x \in ExecCycles(lat, D[k], h)
        PROVE  x <= Max(all)
    <3>1. x \in Int /\ f[k] \in Int /\ x <= f[k] /\ f[k] <= Max(all)
      BY <1>1, <1>4, <1>8, <2>2 DEF IsLast
    <3> QED
      BY <1>5, <3>1
  <2> QED
    BY <1>6, <2>1, <2>2
<1>12. IsLast(lat, Max(all), total, h)
  BY <1>10, <1>11 DEF IsLast
<1> QED
  BY <1>12 DEF all, total, Latest, Together

-----------------------------------------------------------------------------
(* The first inductive invariant: the states of this cycle and of those    *)
(* that instances remember name the executions that their wires depend on. *)
DepInv ==
    /\ net \in Netlists /\ cycle \in Int
    /\ ws \in Seq(WireStates) /\ deps \in Seq(SUBSET (Nat \X Int))
    /\ past \in Seq(Seq(WireStates)) /\ pastDeps \in Seq(Seq(SUBSET (Nat \X Int)))
    /\ Len(past) = Depth /\ Len(pastDeps) = Depth
    /\ Len(ws) <= Len(deps)
    /\ verdict = "running" =>
          Len(ws) = Len(deps) /\ (pc # "eval" => Len(ws) = Len(net.wires))
    /\ \A w \in DOMAIN ws : Audited(Lat, ws[w], deps[w])
    /\ \A k \in 1..Depth : \A w \in Wires : Audited(Lat, past[k][w], pastDeps[k][w])

(* The rules of the simulator apply to them.                               *)
LEMMA AuditedStates == DepInv => SimInv
BY DEF DepInv, SimInv, Audited, WellFormed

(* The inputs of one stage of a gadget, as it remembers them.              *)
LEMMA InputAudited ==
    ASSUME DepInv, Len(ws) = Len(deps),
           NEW g \in Gadgets, NEW l \in Nat, l <= Depth, NEW k \in Taken(g, l),
           GIn(g, k).lat = l => GIn(g, k).wire \in DOMAIN ws
    PROVE  Audited(Lat, InputAt(g, k, l), DepsAt(GIn(g, k).wire, l - GIn(g, k).lat))
<1>1. GIn(g, k).wire \in Wires /\ GIn(g, k).lat \in Nat /\ GIn(g, k).lat <= l
  BY NetlistTypes DEF DepInv, Taken
<1>2. Depth \in Nat
  BY DepthIs DEF DepInv
<1>3. CASE GIn(g, k).lat = l
  <2>1. l - GIn(g, k).lat = 0
    BY <1>1, <1>3
  <2> QED
    BY <1>3, <2>1 DEF DepInv, InputAt, At, DepsAt
<1>4. CASE GIn(g, k).lat # l
  <2>1. l - GIn(g, k).lat \in 1..Depth /\ l - GIn(g, k).lat # 0
    BY <1>1, <1>2, <1>4
  <2> QED
    BY <1>1, <2>1 DEF DepInv, InputAt, At, DepsAt
<1> QED
  BY <1>3, <1>4

(* The executions that an output of a gadget depends on.                   *)
OwnExec(g, l) == IF cycle - l >= -max_input_latency(g) THEN {<<g, cycle - l>>} ELSE {}
StageDeps(g, l) ==
    OwnExec(g, l) \cup UNION {DepsAt(GIn(g, k).wire, l - GIn(g, k).lat) : k \in Taken(g, l)}

(* compute_output_state names the last of the executions that an output    *)
(* depends on, its own one or those of its inputs.                         *)
LEMMA StageAudited ==
    ASSUME net \in Netlists, cycle \in Int, NEW g \in Gadgets, NEW l \in Nat,
           \A k \in Taken(g, l) :
              Audited(Lat, InputAt(g, k, l), DepsAt(GIn(g, k).wire, l - GIn(g, k).lat)),
           NEW id \in Nat, NEW v \in Bit \cup {X}
    PROVE  Audited(Lat, with_value(Annotated(StageStatus(g, l), id), v), StageDeps(g, l))
<1> DEFINE status == StageStatus(g, l)
           res == with_value(Annotated(status, id), v)
           n == Len(net.gadgets[g].inputs)
           T == Taken(g, l)
           D == [k \in T |-> DepsAt(GIn(g, k).wire, l - GIn(g, k).lat)]
           own == IF ExecCycle(g, l) >= 0 THEN DepSingle(g, ExecCycle(g, l)) ELSE NoDep
           f(h) == [k \in T |-> InputAt(g, k, l).nspgi_dep[h]]
<1>1. /\ n \in Nat /\ T \in SUBSET (1..n) /\ g \in Nspgis /\ max_input_latency(g) \in Nat
      /\ \A k \in T : k \in GInputs(g)
  BY NetlistTypes, InputLatencies DEF Taken
<1>2. ExecCycle(g, l) \in Int /\ ExecCycle(g, l) = cycle - l + max_input_latency(g)
  BY <1>1 DEF ExecCycle
<1>3. own \in [Nspgis -> ExecIds]
  BY <1>1, <1>2 DEF DepSingle, NoDep, ExecIds
<1>4. ASSUME NEW h \in Nspgis
      PROVE  /\ status.nspgi_dep[h] = Max({own[h]} \cup {f(h)[k] : k \in T})
             /\ status.nspgi_dep[h] \in ExecIds
  <2>1. status.nspgi_dep[h] = Max({own[h]} \cup {f(h)[k] : k \in T})
    BY DEF StageStatus
  <2> DEFINE all == {own[h]} \cup {f(h)[k] : k \in T}
  <2>2. \A k \in T : f(h)[k] \in ExecIds
    BY DEF Audited, WellFormed, WireStates, ExecIds
  <2>3. own[h] \in ExecIds
    BY <1>3
  <2>4. all \subseteq ExecIds /\ ExecIds \subseteq Int
    BY <2>2, <2>3 DEF ExecIds, NoExec
  <2>5. Max(all) \in all
    <3> HIDE DEF own, f, T, n
    <3> QED
      BY <1>1, <2>2, <2>3, <2>4, LargestOf
  <2> HIDE DEF all
  <2>6. Max(all) \in ExecIds
    BY <2>4, <2>5
  <2> QED
    BY <2>1, <2>6 DEF all
<1>5. DOMAIN Lat = Gadgets /\ Lat[g] = max_input_latency(g) /\ Gadgets \subseteq Nspgis
      /\ \A h \in DOMAIN Lat : Lat[h] \in Nat
  BY LatIs
<1>6. OwnExec(g, l) \subseteq ExecsOf(Lat)
  <2>1. cycle - l >= -max_input_latency(g) =>
          <<g, cycle - l>> \in Gadgets \X Int /\ (cycle - l) + max_input_latency(g) >= 0
    BY <1>1
  <2> QED
    BY <1>5, <2>1 DEF OwnExec, ExecsOf
<1>7. ASSUME NEW h \in DOMAIN Lat
      PROVE  IsLast(Lat, own[h], OwnExec(g, l), h)
  <2>1. ExecCycle(g, l) >= 0 <=> cycle - l >= -max_input_latency(g)
    BY <1>1, <1>2
  <2>2. h \in Nspgis
    BY <1>5
  <2>3. CASE ExecCycle(g, l) >= 0 /\ h = g
    <3>1. own[h] = ExecCycle(g, l) /\ OwnExec(g, l) = {<<g, cycle - l>>}
      BY <1>1, <2>1, <2>3 DEF DepSingle, NoDep, OwnExec
    <3> DEFINE e == <<g, cycle - l>>
               x == ExecCycle(g, l)
    <3>2. e[1] = g /\ e[2] + Lat[g] = x
      BY <1>1, <1>2, <1>5
    <3>3. x \in Int /\ NoExec <= x /\ x <= x
      BY <1>2, <2>3 DEF NoExec
    <3>4. OwnExec(g, l) = {e} /\ own[h] = x
      BY <2>3, <3>1
    <3> HIDE DEF own, e, x
    <3>5. ExecCycles(Lat, {e}, h) = {NoExec, x}
      BY <2>3, <3>2 DEF ExecCycles
    <3> QED
      BY <3>3, <3>4, <3>5 DEF IsLast
  <2>4. CASE ~(ExecCycle(g, l) >= 0 /\ h = g)
    <3>1. own[h] = NoExec
      BY <1>1, <2>2, <2>4 DEF DepSingle, NoDep
    <3>2. ExecCycles(Lat, OwnExec(g, l), h) = {NoExec}
      BY <2>1, <2>4 DEF ExecCycles, OwnExec
    <3> HIDE DEF own
    <3> QED
      BY <3>1, <3>2 DEF IsLast, NoExec
  <2> QED
    BY <2>3, <2>4
<1>8. res = [sensitivity |-> IF status.sensitive THEN {id} ELSE {},
              glitch_sensitivity |-> IF status.glitch_sensitive THEN {id} ELSE {},
              value |-> v, random |-> {}, deterministic |-> status.deterministic,
              nspgi_dep |-> status.nspgi_dep]
  <2> HIDE DEF status
  <2> DEFINE out == [sensitivity |-> IF status.sensitive THEN {id} ELSE {},
                     glitch_sensitivity |-> IF status.glitch_sensitive THEN {id} ELSE {},
                     value |-> X, random |-> {}, deterministic |-> status.deterministic,
                     nspgi_dep |-> status.nspgi_dep]
  <2>1. Annotated(status, id) = out
    BY DEF Annotated
  <2>2. with_value(out, v) = [out EXCEPT !.value = v]
    BY DEF with_value
  <2>3. res = [out EXCEPT !.value = v]
    <3> HIDE DEF out
    <3> QED
      BY <2>1, <2>2
  <2> HIDE DEF res
  <2> QED
    BY <2>3
<1>9. NamesLast(Lat, res, StageDeps(g, l))
  <2>1. StageDeps(g, l) = Together(OwnExec(g, l), D, T)
    BY DEF StageDeps, Together
  <2>2. \A k \in T : D[k] \subseteq ExecsOf(Lat)
    BY DEF Audited, NamesLast
  <2>3. ASSUME NEW h \in DOMAIN Lat
        PROVE  IsLast(Lat, res.nspgi_dep[h], StageDeps(g, l), h)
    <3>1. \A k \in T : IsLast(Lat, f(h)[k], D[k], h)
      BY DEF Audited, NamesLast
    <3> DEFINE fh == f(h)
               c == own[h]
    <3>2. res.nspgi_dep = status.nspgi_dep
      <4> HIDE DEF status, res
      <4> QED
        BY <1>8
    <3>3. res.nspgi_dep[h] = Latest(c, fh, T)
      <4> HIDE DEF status, res
      <4> QED
        BY <1>4, <1>5, <3>2 DEF Latest
    <3>4. /\ n \in Nat /\ T \in SUBSET (1..n)
          /\ OwnExec(g, l) \subseteq ExecsOf(Lat) /\ IsLast(Lat, c, OwnExec(g, l), h)
          /\ \A k \in T : D[k] \subseteq ExecsOf(Lat) /\ IsLast(Lat, fh[k], D[k], h)
          /\ \A x \in DOMAIN Lat : Lat[x] \in Nat
      BY <1>1, <1>5, <1>6, <1>7, <2>2, <3>1
    <3> HIDE DEF c, fh, own, f, D, T, n, res, status
    <3>5. IsLast(Lat, Latest(c, fh, T), Together(OwnExec(g, l), D, T), h)
      BY <3>4, LatestIsLast
    <3> QED
      BY <2>1, <3>3, <3>5
  <2>4. StageDeps(g, l) \subseteq ExecsOf(Lat)
    BY <1>6, <2>1, <2>2 DEF Together
  <2> HIDE DEF D, T, res
  <2> QED
    BY <2>3, <2>4 DEF NamesLast
<1>10. WellFormed(res)
  <2>1. \A h \in Nspgis : status.nspgi_dep[h] \in ExecIds
    BY <1>4
  <2>2. status.nspgi_dep \in [Nspgis -> ExecIds]
    <3>1. status.nspgi_dep = [h \in Nspgis |-> status.nspgi_dep[h]]
      BY DEF StageStatus
    <3> HIDE DEF status
    <3> QED
      BY <2>1, <3>1
  <2>3. /\ status.deterministic \in BOOLEAN
        /\ status.sensitive => status.glitch_sensitive
        /\ status.deterministic => ~status.sensitive
    BY DEF StageStatus, Audited, WellFormed, Consistent
  <2> HIDE DEF status, res
  <2>4. res \in WireStates
    BY <1>8, <2>2, <2>3 DEF WireStates, ExecIds
  <2> QED
    BY <1>8, <2>3, <2>4 DEF WellFormed, Consistent
<1> QED
  BY <1>9, <1>10 DEF Audited

-----------------------------------------------------------------------------
(* The operands of a gate have been evaluated before it.                   *)
LEMMA OperandAudited ==
    ASSUME DepInv, Evaluating, Kind(NextWire) \in CombKinds \cup {"port"},
           NEW i \in 1..Arity(Kind(NextWire))
    PROVE  Audited(Lat, Op(i), deps[Fanin(NextWire)[i]])
<1>1. Len(ws) \in Nat /\ DOMAIN ws = 1..Len(ws)
  <2>1. ws \in Seq(WireStates)
    BY DEF DepInv
  <2> QED
    BY <2>1
<1>2. Fanin(NextWire)[i] \in 1..(NextWire - 1)
  BY FaninBefore DEF DepInv, Evaluating
<1>3. Fanin(NextWire)[i] \in DOMAIN ws
  BY <1>1, <1>2 DEF NextWire
<1> QED
  BY <1>3 DEF DepInv, Op

(* So have the inputs of a gadget that arrive when an output leaves, and   *)
(* the wires that implement the output.                                    *)
LEMMA GadgetBefore ==
    ASSUME DepInv, Evaluating, Kind(NextWire) = "gadget"
    PROVE  /\ \A k \in GInputs(Fanin(NextWire)[1]) :
                 GIn(Fanin(NextWire)[1], k).lat = net.wires[NextWire].lat =>
                    GIn(Fanin(NextWire)[1], k).wire \in DOMAIN ws
           /\ \A w \in Implementation : w \in DOMAIN ws
<1> DEFINE g == Fanin(NextWire)[1]
           l == net.wires[NextWire].lat
           wires == net.wires
           inputs == net.gadgets[g].inputs
<1>1. /\ net \in Netlists /\ NextWire \in Wires /\ NextWire \in DOMAIN net.wires
      /\ Len(ws) \in Nat /\ DOMAIN ws = 1..Len(ws)
  <2>1. ws \in Seq(WireStates) /\ net \in Netlists /\ NextWire \in Wires
    BY DEF DepInv, Evaluating
  <2> QED
    BY <2>1, NetlistTypes
<1>2. \A v \in Before(net, NextWire) : v < NextWire
  BY <1>1, NetlistsAssumption DEF WellNumbered
<1>3. Before(net, NextWire) =
        {i.wire : i \in {i \in Range(inputs) : i.lat = l}} \cup Implementation
  <2>1. net.wires[NextWire].kind = "gadget"
    BY DEF Kind
  <2> QED
    BY <2>1 DEF Before, CombKinds, BinaryGates, Implementation, Fanin
<1>4. /\ g \in Gadgets /\ Implementation \subseteq Wires
      /\ \A k \in GInputs(g) : GIn(g, k).wire \in Wires
  BY <1>1, NetlistTypes DEF Implementation
<1>5. \A w \in Wires : w < NextWire => w \in DOMAIN ws
  BY <1>1 DEF Wires, NextWire
<1>6. ASSUME NEW k \in GInputs(g), GIn(g, k).lat = l
      PROVE  GIn(g, k).wire \in Before(net, NextWire)
  <2>1. inputs[k] \in Range(inputs) /\ inputs[k].lat = l
    BY <1>6 DEF Range, GInputs, GIn
  <2> HIDE DEF inputs
  <2>2. inputs[k].wire \in {i.wire : i \in {i \in Range(inputs) : i.lat = l}}
    BY <2>1
  <2> QED
    BY <1>3, <2>2 DEF GIn, inputs
<1> HIDE DEF g, l, inputs
<1>7. \A w \in Implementation : w \in DOMAIN ws
  BY <1>2, <1>3, <1>4, <1>5
<1>8. \A k \in GInputs(g) : GIn(g, k).lat = l => GIn(g, k).wire \in DOMAIN ws
  BY <1>2, <1>4, <1>5, <1>6
<1> QED
  BY <1>7, <1>8 DEF g, l

(* An output of a gadget gets a state that names the last of the           *)
(* executions that it depends on, or the evaluation panics.                *)
LEMMA GadgetAudited ==
    ASSUME DepInv, EvalGadget
    PROVE  \E res : /\ Audited(Lat, res, DepsOfWire(NextWire))
                    /\ Evaluated(res) \/ \E why \in Panics : GadgetPanic(why)
<1> DEFINE g == Fanin(NextWire)[1]
           l == net.wires[NextWire].lat
           out(v) == with_value(Annotated(StageStatus(g, l), net.wires[NextWire].id), v)
<1>1. Evaluating /\ Kind(NextWire) = "gadget" /\ NextWire \in Wires
  BY DEF EvalGadget, Evaluating
<1>2. net \in Netlists /\ cycle \in Int /\ Len(ws) = Len(deps)
  BY <1>1 DEF DepInv, Evaluating
<1>3. /\ g \in Gadgets /\ l \in Nat /\ l <= Depth /\ net.wires[NextWire].id \in Nat
      /\ Implementation \subseteq Wires
  BY <1>1, <1>2, NetlistTypes, DepthIs DEF Implementation
<1>4. /\ \A k \in GInputs(g) : GIn(g, k).lat = l => GIn(g, k).wire \in DOMAIN ws
      /\ \A w \in Implementation : w \in DOMAIN ws
  BY <1>1, GadgetBefore
<1>5. DepsOfWire(NextWire) = StageDeps(g, l)
  BY <1>1 DEF DepsOfWire, StageDeps, OwnExec, BinaryGates
<1> HIDE DEF g, l
<1>6. \A k \in Taken(g, l) :
        Audited(Lat, InputAt(g, k, l), DepsAt(GIn(g, k).wire, l - GIn(g, k).lat))
  <2>1. \A k \in Taken(g, l) : GIn(g, k).lat = l => GIn(g, k).wire \in DOMAIN ws
    BY <1>4 DEF Taken
  <2> QED
    BY <1>2, <1>3, <2>1, InputAudited
<1>7. ASSUME NEW v \in Bit \cup {X}
      PROVE  Audited(Lat, out(v), DepsOfWire(NextWire))
  BY <1>2, <1>3, <1>5, <1>6, StageAudited
<1>8. OutputValues \subseteq Bit \cup {X}
  <2>1. \A w \in Implementation : ws[w].value \in Bit \cup {X}
    BY <1>4 DEF DepInv, Audited, WellFormed, WireStates
  <2> QED
    BY <2>1, ValuesAssumption DEF OutputValues
<1>9. X \in Bit \cup {X}
  OBVIOUS
<1>10. CASE \E why \in Panics : GadgetPanic(why)
  BY <1>7, <1>9, <1>10
<1>11. CASE \E v \in OutputValues : Evaluated(out(v))
  <2>1. PICK v \in OutputValues : Evaluated(out(v))
    BY <1>11
  <2>2. v \in Bit \cup {X}
    BY <1>8, <2>1
  <2> HIDE DEF out
  <2> QED
    BY <1>7, <2>1, <2>2
<1> QED
  BY <1>10, <1>11 DEF EvalGadget, Panics, g, l

(* Every evaluation keeps to what the wire depends on.                     *)
LEMMA EvalAudited ==
    ASSUME DepInv, EvalWire
    PROVE  \E res : /\ Audited(Lat, res, DepsOfWire(NextWire))
                    /\ Evaluated(res) \/ \E why \in Panics : GadgetPanic(why)
<1> DEFINE kind == Kind(NextWire)
           D(i) == deps[Fanin(NextWire)[i]]
           Good(res) == Audited(Lat, res, DepsOfWire(NextWire)) /\ Evaluated(res)
<1>1. Evaluating /\ NextWire \in Wires /\ net \in Netlists
  BY DEF EvalWire, EvalTie, EvalPort, EvalUnary, EvalBinary, EvalMux, EvalDff, EvalGadget,
         Evaluating, DepInv
<1>2. /\ DOMAIN Lat = Gadgets /\ DOMAIN Lat \subseteq Nspgis
      /\ \A g \in DOMAIN Lat : Lat[g] \in Nat
  BY <1>1, LatIs
<1>3. CASE EvalTie
  <2> DEFINE res == with_value(control, net.wires[NextWire].id)
  <2>1. kind = "tie" /\ Evaluated(res) /\ net.wires[NextWire].id \in Bit
    BY <1>1, <1>3, NetlistTypes DEF EvalTie
  <2>2. DepsOfWire(NextWire) = {}
    BY <2>1 DEF DepsOfWire, BinaryGates
  <2>3. res.nspgi_dep = NoDep
    BY DEF with_value, control, nil
  <2>4. WellFormed(res)
    BY <2>1, ControlState DEF with_value, WellFormed, WireStates, Consistent
  <2>5. \A g \in DOMAIN Lat : res.nspgi_dep[g] = NoExec
    BY <1>2, <2>3 DEF NoDep
  <2> HIDE DEF res
  <2>6. Audited(Lat, res, {})
    BY <2>4, <2>5, NoneIsLast DEF Audited, NamesLast
  <2> QED
    BY <2>1, <2>2, <2>6
<1>4. CASE kind \in {"BUF", "port"} /\ Evaluated(Op(1))
  <2>1. kind \in CombKinds \cup {"port"} /\ 1 \in 1..Arity(kind)
    BY <1>4 DEF CombKinds, Arity, InputKinds
  <2>2. DepsOfWire(NextWire) = D(1)
    BY <1>4 DEF DepsOfWire, BinaryGates
  <2>3. Audited(Lat, Op(1), D(1))
    BY <1>1, <2>1, OperandAudited
  <2> QED
    BY <1>4, <2>2, <2>3
<1>5. CASE kind = "NOT" /\ Evaluated(negate(Op(1)))
  <2>1. kind \in CombKinds \cup {"port"} /\ 1 \in 1..Arity(kind)
    BY <1>5 DEF CombKinds, Arity, InputKinds
  <2>2. DepsOfWire(NextWire) = D(1)
    BY <1>5 DEF DepsOfWire, BinaryGates
  <2>3. Audited(Lat, Op(1), D(1))
    BY <1>1, <2>1, OperandAudited
  <2>4. /\ negate(Op(1)) \in WireStates /\ negate(Op(1)).nspgi_dep = Op(1).nspgi_dep
        /\ negate(Op(1)).sensitivity = Op(1).sensitivity /\ negate(Op(1)).random = Op(1).random
        /\ negate(Op(1)).glitch_sensitivity = Op(1).glitch_sensitivity
        /\ negate(Op(1)).deterministic = Op(1).deterministic
    <3> DEFINE w == Op(1)
    <3>1. w \in WireStates
      BY <2>3 DEF Audited, WellFormed
    <3> HIDE DEF w
    <3>2. (IF w.value = X THEN X ELSE 1 - w.value) \in Bit \cup {X}
      BY <3>1 DEF WireStates, Bit, X
    <3>3. /\ negate(w) \in WireStates /\ negate(w).nspgi_dep = w.nspgi_dep
          /\ negate(w).sensitivity = w.sensitivity /\ negate(w).random = w.random
          /\ negate(w).glitch_sensitivity = w.glitch_sensitivity
          /\ negate(w).deterministic = w.deterministic
      BY <3>1, <3>2 DEF negate, with_value, WireStates
    <3> QED
      BY <3>3 DEF w
  <2>5. Audited(Lat, negate(Op(1)), D(1))
    BY <2>3, <2>4 DEF Audited, NamesLast, WellFormed, Consistent
  <2> QED
    BY <1>5, <2>2, <2>5
<1>6. CASE EvalBinary
  <2>1. kind \in BinaryGates /\ Evaluated(BinarySim(kind, Op(1), Op(2)))
    BY <1>6 DEF EvalBinary
  <2>2. kind \in CombKinds \cup {"port"} /\ 1 \in 1..Arity(kind) /\ 2 \in 1..Arity(kind)
    BY <2>1 DEF CombKinds, Arity, InputKinds, BinaryGates
  <2>3. DepsOfWire(NextWire) = JoinedDeps(kind, Op(1), Op(2), D(1), D(2))
    BY <2>1 DEF DepsOfWire, JoinedDeps, BinaryGates, Op
  <2>4. Audited(Lat, Op(1), D(1)) /\ Audited(Lat, Op(2), D(2))
    BY <1>1, <2>2, OperandAudited
  <2>5. Audited(Lat, BinarySim(kind, Op(1), Op(2)), JoinedDeps(kind, Op(1), Op(2), D(1), D(2)))
    BY <1>2, <2>1, <2>4, BinaryAudited
  <2> QED
    BY <2>1, <2>3, <2>5
<1>7. CASE EvalMux
  <2>1. kind = "MUX" /\ Evaluated(MuxSim(Op(1), Op(2), Op(3)))
    BY <1>7 DEF EvalMux
  <2>2. /\ kind \in CombKinds \cup {"port"}
        /\ 1 \in 1..Arity(kind) /\ 2 \in 1..Arity(kind) /\ 3 \in 1..Arity(kind)
    BY <2>1 DEF CombKinds, Arity, InputKinds, BinaryGates
  <2>3. DepsOfWire(NextWire) = ChosenDeps(Op(3), D(1), D(2), D(3))
    BY <2>1 DEF DepsOfWire, ChosenDeps, BinaryGates, Op
  <2>4. Audited(Lat, Op(1), D(1)) /\ Audited(Lat, Op(2), D(2)) /\ Audited(Lat, Op(3), D(3))
    BY <1>1, <2>2, OperandAudited
  <2>5. Audited(Lat, MuxSim(Op(1), Op(2), Op(3)), ChosenDeps(Op(3), D(1), D(2), D(3)))
    BY <1>2, <2>4, MuxAudited
  <2> QED
    BY <2>1, <2>3, <2>5
<1>8. CASE EvalDff
  <2> DEFINE w == past[1][Fanin(NextWire)[1]]
             E == pastDeps[1][Fanin(NextWire)[1]]
  <2>1. kind = "DFF" /\ Evaluated(stop_glitches(w))
    BY <1>8 DEF EvalDff
  <2>2. DepsOfWire(NextWire) = E
    BY <2>1 DEF DepsOfWire, BinaryGates
  <2>3. Fanin(NextWire)[1] \in Wires
    <3>1. Fanin(NextWire) \in Seq(Wires) /\ Len(Fanin(NextWire)) = Arity(kind)
      BY <1>1, <2>1, NetlistTypes
    <3>2. Arity(kind) = 1
      BY <2>1 DEF Arity, InputKinds, BinaryGates
    <3> QED
      BY <3>1, <3>2
  <2>4. 1 \in 1..Depth
    BY <1>1, DepthIs
  <2>5. Audited(Lat, w, E)
    BY <2>3, <2>4 DEF DepInv
  <2> HIDE DEF w, E
  <2>6. /\ WellFormed(stop_glitches(w)) /\ stop_glitches(w).nspgi_dep = w.nspgi_dep
    <3>1. WellFormed(w)
      BY <2>5 DEF Audited
    <3> QED
      BY <3>1, RegisterSound DEF stop_glitches, WellFormed, WireStates
  <2>7. Audited(Lat, stop_glitches(w), E)
    BY <2>5, <2>6 DEF Audited, NamesLast
  <2> QED
    BY <2>1, <2>2, <2>7
<1>9. CASE EvalGadget
  BY <1>9, GadgetAudited
<1> HIDE DEF kind
<1> QED
  BY <1>3, <1>4, <1>5, <1>6, <1>7, <1>8, <1>9 DEF EvalWire, EvalPort, EvalUnary, kind

(* A state that names no execution.                                        *)
LEMMA NoneAudited ==
    ASSUME net \in Netlists, NEW w, WellFormed(w), w.nspgi_dep = NoDep
    PROVE  Audited(Lat, w, {})
<1>1. \A g \in DOMAIN Lat : w.nspgi_dep[g] = NoExec
  BY LatIs DEF NoDep
<1> QED
  BY <1>1, NoneIsLast DEF Audited, NamesLast

(* The simulator starts with nothing on any wire.                          *)
LEMMA DepInit == AuditInit => DepInv
<1> SUFFICES ASSUME AuditInit
             PROVE  DepInv
  OBVIOUS
<1> DEFINE none == [w \in Wires |-> {}]
           ExecSets == SUBSET (Nat \X Int)
<1>1. /\ net \in Netlists /\ cycle = NotStarted /\ verdict = "running"
      /\ ws = x_state /\ past = [k \in 1..Depth |-> x_state]
      /\ deps = none /\ pastDeps = [k \in 1..Depth |-> none]
  BY DEF AuditInit, Init
<1>2. /\ Len(net.wires) \in Nat /\ Wires = 1..Len(net.wires) /\ Depth \in Nat
  BY <1>1, NetlistTypes, DepthIs DEF Wires
<1>3. x_state \in [1..Len(net.wires) -> WireStates] /\ none \in [1..Len(net.wires) -> ExecSets]
  BY <1>2, ControlState DEF x_state, WellFormed
<1>4. /\ x_state \in Seq(WireStates) /\ Len(x_state) = Len(net.wires) /\ DOMAIN x_state = Wires
      /\ none \in Seq(ExecSets) /\ Len(none) = Len(net.wires)
  <2> HIDE DEF none, ExecSets
  <2> QED
    BY <1>2, <1>3, FunctionIsSeq
<1>5. \A w \in Wires : Audited(Lat, x_state[w], none[w])
  <2>1. control.nspgi_dep = NoDep
    BY DEF control, nil
  <2>2. Audited(Lat, control, {})
    BY <1>1, <2>1, ControlState, NoneAudited
  <2> QED
    BY <2>2 DEF x_state
<1> HIDE DEF none, ExecSets
<1>6. /\ past \in Seq(Seq(WireStates)) /\ Len(past) = Depth
      /\ pastDeps \in Seq(Seq(ExecSets)) /\ Len(pastDeps) = Depth
      /\ \A k \in 1..Depth : past[k] = x_state /\ pastDeps[k] = none
  <2>1. /\ past \in [1..Depth -> Seq(WireStates)] /\ pastDeps \in [1..Depth -> Seq(ExecSets)]
        /\ \A k \in 1..Depth : past[k] = x_state /\ pastDeps[k] = none
    BY <1>1, <1>4
  <2> QED
    BY <1>2, <2>1, FunctionIsSeq
<1> QED
  BY <1>1, <1>2, <1>4, <1>5, <1>6 DEF DepInv, NotStarted, ExecSets

(* What is remembered after the audit of a cycle.                          *)
LEMMA DepsShifted ==
    ASSUME NEW Sets, deps \in Seq(Sets), pastDeps \in Seq(Seq(Sets)), Len(pastDeps) >= 1
    PROVE  /\ Shifted(deps, pastDeps) \in Seq(Seq(Sets))
           /\ Len(Shifted(deps, pastDeps)) = Len(pastDeps)
           /\ Shifted(deps, pastDeps)[1] = deps
           /\ \A k \in 2..Len(pastDeps) : Shifted(deps, pastDeps)[k] = pastDeps[k - 1]
<1> DEFINE Rows == Seq(Sets)
<1>1. deps \in Rows /\ pastDeps \in Seq(Rows)
  OBVIOUS
<1> HIDE DEF Rows
<1>2. /\ Shifted(deps, pastDeps) \in Seq(Rows) /\ Len(Shifted(deps, pastDeps)) = Len(pastDeps)
      /\ Shifted(deps, pastDeps)[1] = deps
      /\ \A k \in 2..Len(pastDeps) : Shifted(deps, pastDeps)[k] = pastDeps[k - 1]
  BY <1>1, ShiftedIs
<1> QED
  BY <1>2 DEF Rows

(* A new cycle puts inputs on the wires and remembers the previous cycle.  *)
LEMMA DepStart == DepInv /\ AuditStart => DepInv'
<1> SUFFICES ASSUME DepInv, AuditStart
             PROVE  DepInv'
  OBVIOUS
<1> DEFINE ExecSets == SUBSET (Nat \X Int)
<1>1. /\ StartCycle /\ pc = "next" /\ verdict = "running" /\ net' = net /\ cycle' = cycle + 1
  BY DEF AuditStart, StartCycle
<1>2. /\ net \in Netlists /\ cycle \in Int /\ cycle' \in Int
      /\ ws \in Seq(WireStates) /\ deps \in Seq(ExecSets)
      /\ past \in Seq(Seq(WireStates)) /\ pastDeps \in Seq(Seq(ExecSets))
      /\ Len(past) = Depth /\ Len(pastDeps) = Depth
      /\ Len(ws) = Len(deps) /\ Len(ws) = Len(net.wires)
      /\ \A w \in DOMAIN ws : Audited(Lat, ws[w], deps[w])
      /\ \A k \in 1..Depth : \A w \in Wires : Audited(Lat, past[k][w], pastDeps[k][w])
  BY <1>1 DEF DepInv
<1>3. Lat' = Lat /\ Depth' = Depth /\ Wires' = Wires
  BY <1>1, SameNetlist
<1>4. Depth \in Nat /\ Depth >= 1 /\ Wires = DOMAIN ws /\ Len(net.wires) \in Nat
  BY <1>2, DepthIs DEF Wires
<1>5. CASE cycle' = NCycles
  <2>1. UNCHANGED <<ws, past, deps, pastDeps, pc>> /\ verdict' = "accepted"
    BY <1>1, <1>5 DEF AuditStart, StartCycle
  <2> QED
    BY <1>1, <1>2, <1>3, <2>1 DEF DepInv
<1>6. CASE cycle' # NCycles
  <2>1. PICK v \in [InputWires -> ControlValues \cup DataValues] :
          ws' = [w \in InputWires |-> with_value(InputState(w), v[w])]
    BY <1>1, <1>6 DEF StartCycle
  <2>2. /\ pc' = "eval" /\ verdict' = "running"
        /\ past' = Shifted(ws, past) /\ pastDeps' = Shifted(deps, pastDeps)
        /\ deps' = [w \in InputWires |-> {}]
    BY <1>1, <1>6 DEF AuditStart, StartCycle
  <2>3. PICK m \in 0..Len(net.wires) : InputWires = 1..m
    BY <1>2, InputsFirst
  <2>4. m \in Nat
    BY <1>4, <2>3
  <2>5. ASSUME NEW w \in InputWires
        PROVE  Audited(Lat, ws'[w], {}) /\ ws'[w] \in WireStates
    <3> DEFINE i == InputState(w)
               u == v[w]
    <3>1. WellFormed(i)
      BY <1>2, InputWellFormed
    <3>2. i.nspgi_dep = NoDep
      BY DEF InputState, control, share, random, nil
    <3>3. u \in Bit \cup {X}
      BY ValuesAssumption
    <3>4. ws'[w] = with_value(i, u)
      BY <2>1
    <3> HIDE DEF i, u
    <3>5. WellFormed(with_value(i, u)) /\ with_value(i, u).nspgi_dep = NoDep
      BY <3>1, <3>2, <3>3 DEF with_value, WellFormed, WireStates, Consistent
    <3> QED
      BY <1>2, <3>4, <3>5, NoneAudited DEF WellFormed
  <2>6. /\ ws' \in Seq(WireStates) /\ Len(ws') = m /\ DOMAIN ws' = InputWires
        /\ deps' \in Seq(ExecSets) /\ Len(deps') = m
    <3>1. ws' \in [1..m -> WireStates] /\ deps' \in [1..m -> ExecSets]
      BY <2>1, <2>2, <2>3, <2>5
    <3> HIDE DEF ExecSets
    <3> QED
      BY <2>3, <2>4, <3>1, FunctionIsSeq
  <2>7. /\ past' \in Seq(Seq(WireStates)) /\ Len(past') = Depth /\ past'[1] = ws
        /\ \A k \in 2..Depth : past'[k] = past[k - 1]
    BY <1>2, <1>4, <2>2, StatesShifted
  <2>8. /\ pastDeps' \in Seq(Seq(ExecSets)) /\ Len(pastDeps') = Depth /\ pastDeps'[1] = deps
        /\ \A k \in 2..Depth : pastDeps'[k] = pastDeps[k - 1]
    BY <1>2, <1>4, <2>2, DepsShifted
  <2>9. ASSUME NEW k \in 1..Depth, NEW w \in Wires
        PROVE  Audited(Lat, past'[k][w], pastDeps'[k][w])
    <3>1. CASE k = 1
      BY <1>2, <1>4, <2>7, <2>8, <3>1
    <3>2. CASE k # 1
      <4>1. k \in 2..Depth /\ k - 1 \in 1..Depth
        BY <1>4, <3>2
      <4> QED
        BY <1>2, <2>7, <2>8, <4>1
    <3> QED
      BY <3>1, <3>2
  <2>10. \A w \in DOMAIN ws' : Audited(Lat, ws'[w], deps'[w])
    BY <2>2, <2>5, <2>6
  <2>11. Len(ws') <= Len(deps') /\ Len(ws') = Len(deps')
    BY <2>4, <2>6
  <2> QED
    BY <1>1, <1>2, <1>3, <2>2, <2>6, <2>7, <2>8, <2>9, <2>10, <2>11 DEF DepInv
<1> QED
  BY <1>5, <1>6

(* Evaluating a wire adds its state and what it depends on.                *)
LEMMA DepEval == DepInv /\ AuditEval => DepInv'
<1> SUFFICES ASSUME DepInv, AuditEval
             PROVE  DepInv'
  OBVIOUS
<1> DEFINE ExecSets == SUBSET (Nat \X Int)
           new == DepsOfWire(NextWire)
<1>1. PICK res : /\ Audited(Lat, res, new)
                 /\ Evaluated(res) \/ \E why \in Panics : GadgetPanic(why)
  BY EvalAudited DEF AuditEval
<1>2. /\ pc = "eval" /\ verdict = "running" /\ net' = net /\ cycle' = cycle /\ past' = past
      /\ pastDeps' = pastDeps /\ deps' = Append(deps, new)
  BY <1>1 DEF AuditEval, EvalWire, EvalTie, EvalPort, EvalUnary, EvalBinary, EvalMux, EvalDff,
              EvalGadget, Evaluating, Evaluated, GadgetPanic
<1>3. /\ net \in Netlists /\ ws \in Seq(WireStates) /\ deps \in Seq(ExecSets) /\ Len(ws) = Len(deps)
      /\ \A w \in DOMAIN ws : Audited(Lat, ws[w], deps[w])
  BY <1>2 DEF DepInv
<1>4. Lat' = Lat /\ Depth' = Depth /\ Wires' = Wires
  BY <1>2, SameNetlist
<1>5. new \in ExecSets
  <2>1. new \subseteq ExecsOf(Lat)
    BY <1>1 DEF Audited, NamesLast
  <2>2. DOMAIN Lat \subseteq Nat
    BY <1>3, LatIs, NetlistTypes
  <2> HIDE DEF new
  <2> QED
    BY <2>1, <2>2 DEF ExecsOf
<1> HIDE DEF ExecSets, new
<1>6. /\ deps' \in Seq(ExecSets) /\ Len(deps') = Len(deps) + 1 /\ Len(deps) \in Nat
      /\ \A w \in 1..Len(deps) : deps'[w] = deps[w]
      /\ deps'[Len(deps) + 1] = new
  BY <1>2, <1>3, <1>5, AppendIs
<1>7. res \in WireStates
  BY <1>1 DEF Audited, WellFormed
<1>8. DOMAIN ws = 1..Len(ws)
  BY <1>3
<1>9. CASE ws' = Append(ws, res) /\ verdict' = verdict /\ Evaluated(res)
  <2>1. /\ ws' \in Seq(WireStates) /\ Len(ws') = Len(ws) + 1
        /\ \A w \in 1..Len(ws) : ws'[w] = ws[w]
        /\ ws'[Len(ws) + 1] = res
    BY <1>3, <1>7, <1>9, AppendIs
  <2>2. DOMAIN ws' = 1..(Len(ws) + 1)
    BY <2>1
  <2>3. ASSUME NEW w \in DOMAIN ws'
        PROVE  Audited(Lat, ws'[w], deps'[w])
    <3>1. CASE w = Len(ws) + 1
      BY <1>1, <1>3, <1>6, <2>1, <3>1
    <3>2. CASE w # Len(ws) + 1
      <4>1. w \in 1..Len(ws)
        BY <1>3, <1>6, <2>2, <3>2
      <4> QED
        BY <1>3, <1>6, <1>8, <2>1, <4>1
    <3> QED
      BY <3>1, <3>2
  <2>4. pc' # "eval" => Len(ws') = Len(net'.wires)
    BY <1>2, <1>9, <2>1 DEF Evaluated, NextWire
  <2>5. Len(ws') <= Len(deps') /\ Len(ws') = Len(deps')
    BY <1>3, <1>6, <2>1
  <2> QED
    BY <1>2, <1>3, <1>4, <1>6, <2>1, <2>3, <2>4, <2>5 DEF DepInv, ExecSets
<1>10. CASE ws' = ws /\ verdict' # "running"
  <2>1. Len(ws') <= Len(deps')
    BY <1>3, <1>6, <1>10
  <2>2. \A w \in DOMAIN ws' : Audited(Lat, ws'[w], deps'[w])
    BY <1>3, <1>6, <1>8, <1>10
  <2> QED
    BY <1>2, <1>3, <1>4, <1>6, <1>10, <2>1, <2>2 DEF DepInv, ExecSets
<1>11. \A why \in Panics : why # "running"
  BY DEF Panics
<1> QED
  BY <1>1, <1>9, <1>10, <1>11 DEF Evaluated, GadgetPanic

(* Every step keeps what wires depend on.                                  *)
LEMMA DepStep == DepInv /\ [AuditNext]_vars => DepInv'
<1> SUFFICES ASSUME DepInv, [AuditNext]_vars
             PROVE  DepInv'
  OBVIOUS
<1>1. CASE AuditFinish \/ AuditCheck
  <2>1. /\ UNCHANGED <<net, cycle, ws, past, deps, pastDeps>>
        /\ verdict = "running" /\ pc # "eval"
    BY <1>1 DEF AuditFinish, AuditCheck, EvalFinish, CheckCycle, auditVars
  <2>2. Lat' = Lat /\ Depth' = Depth /\ Wires' = Wires
    BY <2>1, SameNetlist
  <2> QED
    BY <2>1, <2>2 DEF DepInv
<1>2. CASE UNCHANGED vars
  <2>1. UNCHANGED <<net, cycle, pc, verdict, ws, past, deps, pastDeps>>
    BY <1>2 DEF vars, simVars, auditVars
  <2>2. Lat' = Lat /\ Depth' = Depth /\ Wires' = Wires
    BY <2>1, SameNetlist
  <2> QED
    BY <2>1, <2>2 DEF DepInv
<1> QED
  BY <1>1, <1>2, DepStart, DepEval DEF AuditNext

(* Wire states always name what the wires depend on.                       *)
LEMMA AlwaysAudited == AuditSpec => []DepInv
BY DepInit, DepStep, PTL DEF AuditSpec

(* The assertions of consistency_check never fail, whatever the netlist    *)
(* and the trace: a wire is sensitive to no share without glitches that it *)
(* is not sensitive to with them, and a deterministic one carries neither  *)
(* a share nor a random.                                                   *)
THEOREM StatesAreConsistent == AuditSpec => []ConsistentStates
<1>1. DepInv => ConsistentStates
  BY DEF DepInv, ConsistentStates, Audited, WellFormed
<1> QED
  BY <1>1, AlwaysAudited, PTL

(* The vector nspgi_dep of a wire names, for each gadget, the execution    *)
(* completed last among those that the wire really depends on, through any *)
(* number of gates, registers and gadgets.                                 *)
THEOREM DependenciesAreExact == AuditSpec => []DepsExact
<1>1. ASSUME DepInv, NEW w \in DOMAIN ws, NEW g \in Gadgets
      PROVE  ws[w].nspgi_dep[g] =
               Max({NoExec} \cup {e[2] + max_input_latency(g) : e \in {e \in deps[w] : e[1] = g}})
  <2> DEFINE T == ExecCycles(Lat, deps[w], g)
             c == ws[w].nspgi_dep[g]
  <2>1. /\ DOMAIN Lat = Gadgets /\ Lat[g] = max_input_latency(g)
        /\ \A h \in DOMAIN Lat : Lat[h] \in Nat
    BY <1>1, LatIs DEF DepInv
  <2>2. deps[w] \subseteq ExecsOf(Lat) /\ IsLast(Lat, c, deps[w], g)
    BY <1>1, <2>1 DEF DepInv, Audited, NamesLast
  <2>3. T \subseteq Int /\ c \in T /\ \A x \in T : x <= c
    BY <2>1, <2>2, CyclesAreNumbers DEF IsLast
  <2>4. T = {NoExec} \cup {e[2] + max_input_latency(g) : e \in {e \in deps[w] : e[1] = g}}
    BY <2>1 DEF ExecCycles
  <2> HIDE DEF T, c
  <2>5. Max(T) = c
    BY <2>3, LargestIs
  <2> QED
    BY <2>4, <2>5 DEF c
<1>2. DepInv => DepsExact
  BY <1>1 DEF DepsExact
<1> QED
  BY <1>2, AlwaysAudited, PTL

(* The second inductive invariant: as long as an execution with a          *)
(* sensitive input is not complete, the simulator remembers such an input, *)
(* and last_nonsensitive_exec never names an execution with one.  While a  *)
(* cycle is evaluated, what is remembered is in the previous ones.         *)
Remembered(e) ==
    \E k \in GInputs(e[1]) : \E i \in Nat :
        /\ i = cycle - e[2] - GIn(e[1], k).lat
        /\ InCycle => i >= 1
        /\ At(GIn(e[1], k).wire, i).sensitivity # {}

LastNonsensitive(g) ==
    g <= Len(lastNs) /\ lastNs[g] # NoExec =>
        /\ lastNs[g] <= cycle /\ (InCycle => lastNs[g] < cycle)
        /\ <<g, lastNs[g] - max_input_latency(g)>> \notin busy

BusyInv ==
    /\ busy \subseteq Gadgets \X Int
    /\ \A e \in busy : e[2] + max_input_latency(e[1]) >= cycle => Remembered(e)
    /\ lastNs \in Seq(Int)
    /\ \A g \in Gadgets : LastNonsensitive(g)

BubbleInv ==
    /\ pc \in {"next", "eval", "finish", "check"}
    /\ verdict = "running" => BusyInv
    /\ BubbleSound

(* An execution is not sensitive when none of its inputs is.               *)
LEMMA NonsensitiveIs ==
    ASSUME net \in Netlists, NEW g \in Nonsensitive, NEW k \in GInputs(g)
    PROVE  /\ g \in Gadgets /\ rel_lat(g, k) \in Nat
           /\ At(GIn(g, k).wire, rel_lat(g, k)).sensitivity = {}
<1>1. g \in Gadgets /\ ~StageStatus(g, max_input_latency(g)).glitch_sensitive
  BY DEF Nonsensitive
<1>2. /\ max_input_latency(g) \in Nat
      /\ GIn(g, k).lat \in Nat /\ GIn(g, k).lat <= max_input_latency(g)
  BY <1>1, InputLatencies
<1>3. k \in Taken(g, max_input_latency(g))
  BY <1>2 DEF Taken
<1>4. InputAt(g, k, max_input_latency(g)).sensitivity = {}
  BY <1>1, <1>3 DEF StageStatus
<1> QED
  BY <1>1, <1>2, <1>4 DEF InputAt, rel_lat

(* The vector last_nonsensitive_exec.                                      *)
LEMMA ExtendedIs ==
    ASSUME net \in Netlists, cycle \in Int, lastNs \in Seq(Int)
    PROVE  /\ ExtendedLastNs \in Seq(Int)
           /\ \A bound \in Nat : Len(net.gadgets) <= bound /\ Len(lastNs) <= bound
                => Len(ExtendedLastNs) <= bound
           /\ \A g \in 1..Len(ExtendedLastNs) :
                 ExtendedLastNs[g] = IF g \in Nonsensitive THEN cycle
                                     ELSE IF g <= Len(lastNs) THEN lastNs[g] ELSE NoExec
<1> DEFINE n == Len(net.gadgets)
           c == Len(lastNs)
           len == Max({c} \cup Nonsensitive)
           all == {c} \cup Nonsensitive
           value(g) == IF g \in Nonsensitive THEN cycle
                       ELSE IF g <= Len(lastNs) THEN lastNs[g] ELSE NoExec
<1>1. n \in Nat /\ Nonsensitive \in SUBSET (1..n) /\ Len(lastNs) \in Nat
  BY NetlistTypes DEF Nonsensitive
<1>2. ASSUME NEW bound \in Nat, n <= bound, Len(lastNs) <= bound
      PROVE  len \in Nat /\ len <= bound
  <2>1. c \in Nat /\ c <= bound /\ \A y \in Nonsensitive : y \in Nat /\ y <= bound
    <3>1. \A y \in Nonsensitive : y \in Nat /\ y <= bound
      <4> HIDE DEF n
      <4> QED
        BY <1>1, <1>2
    <3> QED
      BY <1>1, <1>2, <3>1
  <2>2. len = Max(all)
    OBVIOUS
  <2> HIDE DEF c, len
  <2>3. all \in SUBSET Int /\ all # {} /\ all \subseteq Nat /\ \A y \in all : y <= bound
    BY <2>1
  <2> HIDE DEF all
  <2>4. Max(all) \in all
    <3>1. bound \in Int
      BY <1>2
    <3> QED
      BY <2>3, <3>1, LargestBelow
  <2> QED
    BY <2>2, <2>3, <2>4
<1>3. len \in Nat
  <2>1. \E bound \in Nat : n <= bound /\ Len(lastNs) <= bound
    BY <1>1
  <2> HIDE DEF len, n
  <2> QED
    BY <1>2, <2>1
<1>4. \A g \in 1..len : value(g) \in Int
  BY <1>1 DEF NoExec
<1>5. ExtendedLastNs = [g \in 1..len |-> value(g)]
  BY DEF ExtendedLastNs
<1> HIDE DEF len, value
<1>6. ExtendedLastNs \in [1..len -> Int]
  BY <1>4, <1>5
<1>7. ExtendedLastNs \in Seq(Int) /\ Len(ExtendedLastNs) = len
  BY <1>3, <1>6, FunctionIsSeq
<1>8. \A g \in 1..Len(ExtendedLastNs) : ExtendedLastNs[g] = value(g)
  BY <1>5, <1>7
<1> QED
  BY <1>2, <1>7, <1>8 DEF value

(* A run starts without executions.                                        *)
LEMMA BubbleInit == AuditInit => BubbleInv
<1> SUFFICES ASSUME AuditInit
             PROVE  BubbleInv
  OBVIOUS
<1>1. busy = {} /\ lastNs = <<>> /\ pc = "next" /\ cycle = NotStarted /\ net \in Netlists
  BY DEF AuditInit, Init
<1>2. \A g \in Gadgets : ~(g <= Len(lastNs))
  BY <1>1, NetlistTypes
<1>3. lastNs \in Seq(Int)
  BY <1>1
<1> QED
  BY <1>1, <1>2, <1>3 DEF BubbleInv, BusyInv, LastNonsensitive, BubbleSound, Passed

(* What a cycle held is remembered in the next one.                        *)
LEMMA BubbleStart ==
    ASSUME DepInv, BubbleInv, AuditStart
    PROVE  BubbleInv'
<1>1. /\ StartCycle /\ pc = "next" /\ verdict = "running" /\ net' = net /\ cycle' = cycle + 1
      /\ busy' = busy /\ lastNs' = lastNs
  BY DEF AuditStart, StartCycle
<1>2. BusyInv /\ net \in Netlists /\ cycle \in Int
  BY <1>1 DEF BubbleInv, DepInv
<1>3. CASE cycle' = NCycles
  <2>1. pc' = pc /\ verdict' = "accepted"
    BY <1>1, <1>3 DEF StartCycle
  <2> QED
    BY <1>1, <2>1 DEF BubbleInv, BubbleSound, Passed
<1>4. CASE cycle' # NCycles
  <2>1. pc' = "eval" /\ verdict' = "running" /\ past' = Shifted(ws, past)
    BY <1>1, <1>4 DEF StartCycle
  <2>2. Depth \in Nat /\ Depth >= 1
    BY <1>2, DepthIs
  <2>4. \A w : \A i \in Nat : i + 1 <= Depth => At(w, i + 1)' = At(w, i)
    BY <1>1, <1>4, AuditedStates, AtShifted
  <2>5. ASSUME NEW e \in busy, e[2] + max_input_latency(e[1]) >= cycle + 1
        PROVE  Remembered(e)'
    <3>1. e[1] \in Gadgets /\ e[2] \in Int
      BY <1>2 DEF BusyInv
    <3>2. /\ max_input_latency(e[1]) \in Nat /\ max_input_latency(e[1]) <= Depth
          /\ \A k \in GInputs(e[1]) : GIn(e[1], k).lat \in Nat
      BY <1>2, <3>1, InputLatencies, DepthIs
    <3>3. e[2] + max_input_latency(e[1]) >= cycle
      BY <1>2, <2>5, <3>1, <3>2
    <3>4. PICK k \in GInputs(e[1]), i \in Nat :
            /\ i = cycle - e[2] - GIn(e[1], k).lat
            /\ At(GIn(e[1], k).wire, i).sensitivity # {}
      BY <1>2, <3>3 DEF BusyInv, Remembered
    <3>5. i + 1 \in Nat /\ i + 1 >= 1 /\ i + 1 = (cycle + 1) - e[2] - GIn(e[1], k).lat /\ i + 1 <= Depth
      BY <1>2, <2>2, <2>5, <3>1, <3>2, <3>4
    <3>a. PICK w : w = GIn(e[1], k).wire
      OBVIOUS
    <3>6. At(w, i + 1)'.sensitivity # {} /\ GIn(e[1], k)'.wire = w
      BY <1>1, <2>4, <3>4, <3>5, <3>a, SameInputs
    <3> QED
      BY <1>1, <3>4, <3>5, <3>6, <3>a, SameInputs DEF Remembered
  <2>6. ASSUME NEW g \in Gadgets
        PROVE  LastNonsensitive(g)'
    <3>1. LastNonsensitive(g) /\ (g <= Len(lastNs) => lastNs[g] \in Int)
      <4>1. g \in Nat /\ g >= 1 /\ lastNs \in Seq(Int)
        BY <1>2, NetlistTypes DEF BusyInv
      <4> QED
        BY <1>2, <4>1 DEF BusyInv
    <3>2. g <= Len(lastNs) /\ lastNs[g] # NoExec => lastNs[g] < cycle + 1 /\ lastNs[g] <= cycle + 1
      BY <1>2, <3>1 DEF LastNonsensitive
    <3> QED
      BY <1>1, <3>1, <3>2, SameInputs DEF LastNonsensitive
  <2>7. BusyInv'
    BY <1>1, <1>2, <2>5, <2>6, SameInputs DEF BusyInv
  <2> QED
    BY <2>1, <2>7 DEF BubbleInv, BubbleSound, Passed
<1> QED
  BY <1>3, <1>4

(* Evaluating a wire changes nothing of the previous cycles.               *)
LEMMA BubbleEval ==
    ASSUME DepInv, BubbleInv, AuditEval
    PROVE  BubbleInv'
<1>1. PICK res : Evaluated(res) \/ \E why \in Panics : GadgetPanic(why)
  BY EvalAudited DEF AuditEval
<1>2. /\ pc = "eval" /\ verdict = "running" /\ net' = net /\ cycle' = cycle /\ past' = past
      /\ busy' = busy /\ lastNs' = lastNs
  BY <1>1 DEF AuditEval, EvalWire, EvalTie, EvalPort, EvalUnary, EvalBinary, EvalMux, EvalDff,
              EvalGadget, Evaluating, Evaluated, GadgetPanic
<1>3. pc' \in {"eval", "finish"}
  BY <1>1, <1>2 DEF Evaluated, GadgetPanic
<1>4. BusyInv
  BY <1>2 DEF BubbleInv
<1>5. \A w : \A i \in Nat : i >= 1 => At(w, i)' = At(w, i)
  BY <1>2 DEF At
<1>6. ASSUME NEW e \in busy, Remembered(e)
      PROVE  Remembered(e)'
  <2>1. PICK k \in GInputs(e[1]), i \in Nat :
          /\ i = cycle - e[2] - GIn(e[1], k).lat /\ i >= 1
          /\ At(GIn(e[1], k).wire, i).sensitivity # {}
    BY <1>2, <1>6 DEF Remembered, InCycle
  <2>a. PICK w : w = GIn(e[1], k).wire
    OBVIOUS
  <2>2. At(w, i)'.sensitivity # {} /\ GIn(e[1], k)'.wire = w
    BY <1>2, <1>5, <2>1, <2>a, SameInputs
  <2> QED
    BY <1>2, <2>1, <2>2, <2>a, SameInputs DEF Remembered
<1>7. \A g \in Gadgets : LastNonsensitive(g)'
  BY <1>2, <1>4, SameInputs DEF LastNonsensitive, BusyInv, InCycle
<1>8. BusyInv'
  BY <1>2, <1>4, <1>6, <1>7, SameInputs DEF BusyInv
<1> QED
  BY <1>3, <1>8 DEF BubbleInv, BubbleSound, Passed

(* The end of a cycle adds executions whose inputs are on the wires, and   *)
(* those it says have no sensitive input indeed have none.                 *)
LEMMA BubbleFinish ==
    ASSUME DepInv, BubbleInv, AuditFinish
    PROVE  BubbleInv'
<1>1. /\ pc = "finish" /\ verdict = "running" /\ net' = net /\ cycle' = cycle
      /\ ws' = ws /\ past' = past /\ busy' = busy \cup SensitiveExecs
  BY DEF AuditFinish, EvalFinish
<1>2. BusyInv /\ net \in Netlists /\ cycle \in Int /\ lastNs \in Seq(Int) /\ InCycle
  BY <1>1 DEF BubbleInv, BusyInv, DepInv, InCycle
<1>3. CASE verdict' = "untracked" /\ pc' = pc
  BY <1>1, <1>3 DEF BubbleInv, BubbleSound, Passed
<1>4. CASE verdict' = verdict /\ pc' = "check" /\ lastNs' = ExtendedLastNs
  <2>1. ~InCycle' /\ \A w, i : At(w, i)' = At(w, i)
    BY <1>1, <1>4 DEF InCycle, At
  <2>2. ASSUME NEW e \in SensitiveExecs
        PROVE  \E g \in Gadgets : \E k \in GInputs(g) :
                  e = <<g, cycle - GIn(g, k).lat>> /\ ws[GIn(g, k).wire].sensitivity # {}
    BY DEF SensitiveExecs
  <2>3. ASSUME NEW g \in Gadgets, NEW k \in GInputs(g)
        PROVE  GIn(g, k).lat \in Nat /\ GIn(g, k).lat <= max_input_latency(g)
               /\ max_input_latency(g) \in Nat
    BY <1>2, InputLatencies
  <2>4. ASSUME NEW e \in busy'
        PROVE  /\ e \in Gadgets \X Int
               /\ e[2] + max_input_latency(e[1]) >= cycle => Remembered(e)'
    <3>1. CASE e \in busy
      <4>1. Remembered(e) => Remembered(e)'
        BY <1>1, <2>1, SameInputs DEF Remembered
      <4> QED
        BY <1>2, <3>1, <4>1 DEF BusyInv
    <3>2. CASE e \in SensitiveExecs
      <4>a. PICK g \in Gadgets : \E k \in GInputs(g) :
              e = <<g, cycle - GIn(g, k).lat>> /\ ws[GIn(g, k).wire].sensitivity # {}
        BY <2>2, <3>2
      <4>1. PICK k \in GInputs(g) :
              e = <<g, cycle - GIn(g, k).lat>> /\ ws[GIn(g, k).wire].sensitivity # {}
        BY <4>a
      <4>2. GIn(g, k).lat \in Nat
        BY <2>3
      <4>3. e[1] = g /\ e[2] = cycle - GIn(g, k).lat /\ 0 = cycle - e[2] - GIn(g, k).lat
        BY <1>2, <4>1, <4>2
      <4>b. PICK w : w = GIn(g, k).wire
        OBVIOUS
      <4>4. At(w, 0)'.sensitivity # {} /\ GIn(g, k)'.wire = w
        BY <1>1, <4>1, <4>b, SameInputs DEF At
      <4>5. Remembered(e)'
        BY <1>1, <2>1, <4>3, <4>4, <4>b, SameInputs DEF Remembered
      <4>6. e \in Gadgets \X Int
        BY <1>2, <4>1, <4>2
      <4> QED
        BY <4>5, <4>6
    <3> QED
      BY <1>1, <3>1, <3>2
  <2>5. ASSUME NEW g \in Gadgets
        PROVE  LastNonsensitive(g)'
    <3> DEFINE final == lastNs'[g]
               start == final - max_input_latency(g)
    <3> SUFFICES ASSUME g <= Len(lastNs'), final # NoExec
                 PROVE  final <= cycle /\ <<g, start>> \notin busy'
      BY <1>1, <2>1, SameInputs DEF LastNonsensitive
    <3>1. /\ g \in Nat /\ g >= 1 /\ max_input_latency(g) \in Nat
          /\ lastNs' \in Seq(Int)
      BY <1>2, <1>4, NetlistTypes, InputLatencies, ExtendedIs
    <3>2. /\ final = IF g \in Nonsensitive THEN cycle
                    ELSE IF g <= Len(lastNs) THEN lastNs[g] ELSE NoExec
      <4>1. g \in 1..Len(lastNs')
        BY <3>1
      <4> QED
        BY <1>2, <1>4, <4>1, ExtendedIs
    <3>3. CASE g \in Nonsensitive
      <4>1. final = cycle
        BY <3>2, <3>3
      <4>2. <<g, cycle - max_input_latency(g)>> \notin busy
        <5> DEFINE e == <<g, cycle - max_input_latency(g)>>
        <5> SUFFICES ASSUME e \in busy
                     PROVE  FALSE
          OBVIOUS
        <5>1. e[1] = g /\ e[2] = cycle - max_input_latency(g)
          OBVIOUS
        <5> HIDE DEF e
        <5>2. e[2] + max_input_latency(e[1]) >= cycle
          BY <1>2, <3>1, <5>1
        <5>3. PICK k \in GInputs(g), i \in Nat :
                i = cycle - e[2] - GIn(g, k).lat /\ At(GIn(g, k).wire, i).sensitivity # {}
          BY <1>2, <5>1, <5>2 DEF BusyInv, Remembered
        <5>4. i = rel_lat(g, k)
          BY <1>2, <2>3, <3>1, <5>1, <5>3 DEF rel_lat
        <5> QED
          BY <1>2, <3>3, <5>3, <5>4, NonsensitiveIs
      <4>3. <<g, cycle - max_input_latency(g)>> \notin SensitiveExecs
        <5> SUFFICES ASSUME NEW k \in GInputs(g),
                            cycle - max_input_latency(g) = cycle - GIn(g, k).lat,
                            ws[GIn(g, k).wire].sensitivity # {}
                     PROVE  FALSE
          BY <2>2
        <5>1. rel_lat(g, k) = 0
          BY <1>2, <2>3, <3>1 DEF rel_lat
        <5> QED
          BY <1>2, <3>3, <5>1, NonsensitiveIs DEF At
      <4>4. final <= cycle
        BY <1>2, <4>1
      <4> QED
        BY <1>1, <4>1, <4>2, <4>3, <4>4
    <3>4. CASE g \notin Nonsensitive
      <4>1. g <= Len(lastNs) /\ final = lastNs[g]
        BY <3>2, <3>4
      <4>2. final \in Int
        BY <1>2, <3>1, <4>1
      <4>3. final < cycle /\ <<g, start>> \notin busy
        BY <1>2, <4>1 DEF BusyInv, LastNonsensitive
      <4>4. <<g, start>> \notin SensitiveExecs
        <5> SUFFICES ASSUME NEW k \in GInputs(g), start = cycle - GIn(g, k).lat
                     PROVE  FALSE
          BY <2>2
        <5> HIDE DEF final
        <5> QED
          BY <1>2, <2>3, <3>1, <4>2, <4>3
      <4>5. final <= cycle
        BY <1>2, <4>2, <4>3
      <4> QED
        BY <1>1, <4>3, <4>4, <4>5
    <3> QED
      BY <3>3, <3>4
  <2>6. lastNs' \in Seq(Int)
    BY <1>2, <1>4, ExtendedIs
  <2>7. BusyInv'
    <3>1. busy' \subseteq Gadgets \X Int
      BY <2>4
    <3> QED
      BY <1>1, <2>4, <2>5, <2>6, <3>1, SameInputs DEF BusyInv
  <2> QED
    BY <1>4, <2>7 DEF BubbleInv, BubbleSound, Passed
<1> QED
  BY <1>3, <1>4 DEF AuditFinish, EvalFinish

(* When the checks of a cycle pass, last_nonsensitive_exec names a bubble  *)
(* behind each execution that a checked input of its gadget depends on.    *)
LEMMA BubbleCheck ==
    ASSUME DepInv, BubbleInv, AuditCheck
    PROVE  BubbleInv'
<1>1. /\ pc = "check" /\ verdict = "running" /\ verdict' \in Outcomes
      /\ pc' = IF verdict' = "running" THEN "next" ELSE pc
      /\ UNCHANGED <<net, cycle, ws, past, lastNs, busy, deps>>
  BY DEF AuditCheck, CheckCycle, auditVars
<1>2. BusyInv /\ net \in Netlists /\ cycle \in Int /\ Len(ws) = Len(net.wires)
  BY <1>1 DEF BubbleInv, DepInv
<1>3. ~InCycle /\ ~InCycle' /\ \A w, i : At(w, i)' = At(w, i)
  BY <1>1 DEF InCycle, At
<1>4. BusyInv'
  <2>1. \A e : Remembered(e) => Remembered(e)'
    BY <1>1, <1>3, SameInputs DEF Remembered
  <2>2. \A g \in Gadgets : LastNonsensitive(g)'
    BY <1>1, <1>2, <1>3, SameInputs DEF LastNonsensitive, BusyInv
  <2> QED
    BY <1>1, <1>2, <2>1, <2>2, SameInputs DEF BusyInv
<1>5. ASSUME verdict' = "running", ~NoCheckTransitions, NEW gk \in CheckedInputs,
             net.gadgets[gk[1]].prop = "PINI",
             NEW e \in deps[GIn(gk[1], gk[2]).wire], e[1] = gk[1]
      PROVE  \E s \in e[2]..(cycle - max_input_latency(gk[1])) : <<gk[1], s>> \notin busy
  <2> DEFINE g == gk[1]
             k == gk[2]
             w == GIn(g, k).wire
             named == ws[w].nspgi_dep[g]
             s == lastNs[g] - max_input_latency(g)
  <2>1. g \in Gadgets /\ k \in GInputs(g) /\ w \in Wires
    BY DEF CheckedInputs, CheckedWires
  <2>2. w \in DOMAIN ws
    <3>1. ws \in Seq(WireStates)
      BY DEF DepInv
    <3> QED
      BY <1>2, <2>1, <3>1 DEF Wires
  <2>3. /\ DOMAIN Lat = Gadgets /\ Lat[g] = max_input_latency(g) /\ max_input_latency(g) \in Nat
        /\ \A h \in DOMAIN Lat : Lat[h] \in Nat
    BY <1>2, <2>1, LatIs
  <2>4. Audited(Lat, ws[w], deps[w])
    BY <2>2 DEF DepInv
  <2>5. e[2] \in Int /\ e[2] + max_input_latency(g) >= 0
    BY <1>5, <2>3, <2>4 DEF Audited, NamesLast, ExecsOf
  <2>6. e[2] + max_input_latency(g) <= named /\ named \in Int
    <3>1. e[2] + Lat[g] \in ExecCycles(Lat, deps[w], g)
      BY <1>5 DEF ExecCycles
    <3>2. IsLast(Lat, named, deps[w], g)
      BY <2>1, <2>3, <2>4 DEF Audited, NamesLast
    <3>3. ExecCycles(Lat, deps[w], g) \subseteq Int
      BY <2>1, <2>3, <2>4, CyclesAreNumbers DEF Audited, NamesLast
    <3> QED
      BY <2>3, <3>1, <3>2, <3>3 DEF IsLast
  <2> HIDE DEF g, k, w, named
  <2>7. DependsOnItself(g, k)
    <3>1. named # NoExec
      BY <2>3, <2>5, <2>6 DEF NoExec
    <3> QED
      BY <1>5, <3>1 DEF DependsOnItself, g, w, named
  <2>8. ~UnsafeWire /\ ~Unindexed
    BY <1>1, <1>5 DEF Outcomes
  <2>9. ~UnsafeRole(g, k) /\ ~NoBubble(g, k) /\ ~BubblePanic(g, k)
    BY <1>5, <2>8 DEF UnsafeWire, Unindexed, g, k
  <2>10. g <= Len(lastNs) /\ lastNs[g] # NoExec /\ ~(lastNs[g] < named)
    <3>1. g \in Nat /\ lastNs \in Seq(Int)
      BY <1>2, <2>1, NetlistTypes DEF BusyInv
    <3>2. g <= Len(lastNs)
      BY <2>7, <2>9, <3>1 DEF BubblePanic
    <3> QED
      BY <2>7, <2>9, <3>2 DEF NoBubble, named, w
  <2>11. lastNs[g] \in Int
    <3>1. g \in Nat /\ g >= 1 /\ lastNs \in Seq(Int)
      BY <1>2, <2>1, NetlistTypes DEF BusyInv
    <3> QED
      BY <2>10, <3>1
  <2>12. lastNs[g] <= cycle /\ <<g, s>> \notin busy
    BY <1>2, <2>1, <2>10 DEF BusyInv, LastNonsensitive
  <2>13. s \in e[2]..(cycle - max_input_latency(g))
    BY <1>2, <2>3, <2>5, <2>6, <2>10, <2>11, <2>12
  <2> QED
    BY <2>12, <2>13 DEF g
<1>6. BubbleSound'
  BY <1>1, <1>5, SameInputs DEF BubbleSound, Passed
<1>7. pc' \in {"next", "check"}
  BY <1>1
<1> QED
  BY <1>4, <1>6, <1>7 DEF BubbleInv

(* Every step keeps the second invariant, given the first one.             *)
LEMMA BubbleStep == DepInv /\ BubbleInv /\ [AuditNext]_vars => BubbleInv'
<1> SUFFICES ASSUME DepInv, BubbleInv, [AuditNext]_vars
             PROVE  BubbleInv'
  OBVIOUS
<1>1. CASE UNCHANGED vars
  <2>1. UNCHANGED <<net, cycle, pc, verdict, ws, past, lastNs, busy, deps>>
    BY <1>1 DEF vars, simVars, auditVars
  <2>2. InCycle' = InCycle /\ \A w, i : At(w, i)' = At(w, i)
    BY <2>1 DEF InCycle, At
  <2>3. /\ \A e : Remembered(e) => Remembered(e)'
        /\ \A g : LastNonsensitive(g) => LastNonsensitive(g)'
    BY <2>1, <2>2, SameInputs DEF Remembered, LastNonsensitive
  <2>4. BusyInv => BusyInv'
    BY <2>1, <2>3, SameInputs DEF BusyInv
  <2>5. BubbleSound => BubbleSound'
    BY <2>1, SameInputs DEF BubbleSound, Passed
  <2> QED
    BY <2>1, <2>4, <2>5 DEF BubbleInv
<1> QED
  BY <1>1, BubbleStart, BubbleEval, BubbleFinish, BubbleCheck DEF AuditNext

(* In a run that passed, data of an execution of a PINI gadget enters the  *)
(* same gadget again only behind an execution without sensitive inputs     *)
(* that started at or after it and is complete: check_safe_input and       *)
(* last_nonsensitive_exec enforce the pipeline bubble, whatever the        *)
(* latencies, the number of instances and the length of the run.           *)
THEOREM BubblesAreSound == AuditSpec => []BubbleSound
<1>1. BubbleInv => BubbleSound
  BY DEF BubbleInv
<1> QED
  BY <1>1, AlwaysAudited, BubbleInit, BubbleStep, PTL DEF AuditSpec

-----------------------------------------------------------------------------
(* The cones of combinational logic.                                       *)

(* The equation that defines the cones of a part of the circuit.           *)
InCone(part, v) == Kind(v) \in CombKinds \cup {"port"} /\ v \in part
ConeStep(part, cones, v) ==
    IF InCone(part, v) THEN UNION {cones[Fanin(v)[i]] : i \in DOMAIN Fanin(v)} ELSE {v}

(* Cells have the inputs that their kind says, and they come before.       *)
LEMMA FaninIs ==
    ASSUME net \in Netlists, NEW w \in Wires, Kind(w) \in CombKinds \cup {"port"}
    PROVE  /\ DOMAIN Fanin(w) = 1..Arity(Kind(w))
           /\ \A i \in DOMAIN Fanin(w) : Fanin(w)[i] \in Wires /\ Fanin(w)[i] \in 1..(w - 1)
<1>1. Kind(w) # "gadget"
  BY DEF CombKinds, BinaryGates
<1>2. Fanin(w) \in Seq(Wires) /\ Len(Fanin(w)) = Arity(Kind(w))
  BY <1>1, NetlistTypes
<1>3. DOMAIN Fanin(w) = 1..Arity(Kind(w)) /\ \A i \in DOMAIN Fanin(w) : Fanin(w)[i] \in Wires
  BY <1>2
<1> QED
  BY <1>3, FaninBefore

(* Wires are numbered in an order of evaluation: the equation has a        *)
(* solution.                                                               *)
LEMMA ConesExist ==
    ASSUME net \in Netlists, NEW part
    PROVE  \E cones : cones = [v \in Wires |-> ConeStep(part, cones, v)]
<1> DEFINE Solved(f, m) == f = [v \in 1..m |-> ConeStep(part, f, v)]
           n == Len(net.wires)
           Unsolved == {m \in 0..n : ~\E f : Solved(f, m)}
<1>1. n \in Nat /\ Wires = 1..n
  BY NetlistTypes DEF Wires
<1>2. ASSUME NEW v \in Wires, NEW f, NEW h, \A u \in 1..(v - 1) : f[u] = h[u]
      PROVE  ConeStep(part, f, v) = ConeStep(part, h, v)
  <2>1. CASE InCone(part, v)
    <3>1. \A i \in DOMAIN Fanin(v) : f[Fanin(v)[i]] = h[Fanin(v)[i]]
      BY <1>2, <2>1, FaninIs DEF InCone
    <3> QED
      BY <2>1, <3>1 DEF ConeStep
  <2>2. CASE ~InCone(part, v)
    BY <2>2 DEF ConeStep
  <2> QED
    BY <2>1, <2>2
<1>3. ASSUME Unsolved # {}
      PROVE  FALSE
  <2>1. PICK m \in Unsolved : \A y \in Unsolved : m <= y
    <3>1. Unsolved \subseteq Nat
      OBVIOUS
    <3> HIDE DEF Unsolved
    <3> QED
      BY <1>3, <3>1, LeastIndex
  <2>2. m # 0
    <3>1. Solved([v \in 1..0 |-> {}], 0)
      OBVIOUS
    <3> QED
      BY <3>1
  <2>3. m \in 1..n /\ m - 1 \in 0..n /\ m - 1 \notin Unsolved
    <3>1. m \in 0..n
      OBVIOUS
    <3> HIDE DEF Unsolved, n
    <3> QED
      BY <1>1, <2>1, <2>2, <3>1
  <2>4. PICK f : Solved(f, m - 1)
    BY <2>3
  <2> DEFINE h == [v \in 1..m |-> IF v = m THEN ConeStep(part, f, m) ELSE f[v]]
  <2>5. \A u \in 1..(m - 1) : h[u] = f[u]
    BY <1>1, <2>3
  <2>6. ASSUME NEW v \in 1..m
        PROVE  h[v] = ConeStep(part, h, v)
    <3>1. v \in Wires /\ \A u \in 1..(v - 1) : u \in 1..(m - 1)
      BY <1>1, <2>3
    <3>2. ConeStep(part, f, v) = ConeStep(part, h, v)
      <4>1. \A u \in 1..(v - 1) : f[u] = h[u]
        BY <2>5, <3>1
      <4> HIDE DEF h
      <4> QED
        BY <1>2, <3>1, <4>1
    <3>3. CASE v = m
      BY <3>2, <3>3
    <3>4. CASE v # m
      <4>1. v \in 1..(m - 1)
        BY <1>1, <2>3, <3>4
      <4>2. f[v] = ConeStep(part, f, v)
        BY <2>4, <4>1
      <4> QED
        BY <2>5, <3>2, <4>1, <4>2
    <3> QED
      BY <3>3, <3>4
  <2>7. h = [v \in 1..m |-> h[v]]
    OBVIOUS
  <2> HIDE DEF h
  <2>8. Solved(h, m)
    BY <2>6, <2>7
  <2> QED
    BY <2>3, <2>8
<1>4. n \in 0..n
  BY <1>1
<1>5. \E f : Solved(f, n)
  BY <1>3, <1>4
<1> HIDE DEF n
<1> QED
  BY <1>1, <1>5

(* So cones are what the equation says.                                    *)
LEMMA ConeIs ==
    ASSUME net \in Netlists, NEW part, NEW w \in Wires
    PROVE  ConeIn(part, w) =
             IF InCone(part, w) THEN UNION {ConeIn(part, Fanin(w)[i]) : i \in DOMAIN Fanin(w)}
             ELSE {w}
<1> DEFINE cone == CHOOSE f : f = [v \in Wires |-> ConeStep(part, f, v)]
<1>1. \A v : ConeIn(part, v) = cone[v]
  BY DEF ConeIn, ConeStep, InCone
<1>2. cone = [v \in Wires |-> ConeStep(part, cone, v)]
  BY ConesExist
<1> HIDE DEF cone
<1>3. cone[w] = ConeStep(part, cone, w)
  BY <1>2
<1> QED
  BY <1>1, <1>3 DEF ConeStep

(* The third inductive invariant: the glitches of a gate are those of its  *)
(* operands, an input brings one share at most, and once a cycle passed,   *)
(* so does each wire that was checked.                                     *)
LocalGlitches ==
    \A w \in DOMAIN ws : Kind(w) \in CombKinds \cup {"port"} =>
        ws[w].glitch_sensitivity =
            UNION {ws[Fanin(w)[i]].glitch_sensitivity : i \in DOMAIN Fanin(w)}

InputGlitches ==
    \A w \in DOMAIN ws : Kind(w) \in InputKinds =>
        ws[w].glitch_sensitivity \subseteq {net.wires[w].id}

ConeInv ==
    /\ Len(ws) <= Len(net.wires)
    /\ LocalGlitches
    /\ InputGlitches
    /\ Passed => \A w \in CheckedWires : Secure(ws[w])

(* A step leaves the netlist alone.                                        *)
LEMMA SameCells ==
    ASSUME net' = net
    PROVE  /\ \A w : Kind(w)' = Kind(w) /\ Fanin(w)' = Fanin(w)
           /\ CheckedWires' = CheckedWires /\ InputWires' = InputWires
<1>1. \A w : Kind(w)' = Kind(w) /\ Fanin(w)' = Fanin(w)
  BY DEF Kind, Fanin
<1> QED
  BY <1>1, SameNetlist DEF CheckedWires, InputWires

(* ConeInv holds initially.                                                *)
LEMMA ConeInit == AuditInit => ConeInv
<1> SUFFICES ASSUME AuditInit
             PROVE  ConeInv
  OBVIOUS
<1>1. net \in Netlists /\ ws = x_state /\ cycle = NotStarted
  BY DEF AuditInit, Init
<1>2. DOMAIN ws = Wires /\ \A w \in Wires : ws[w].glitch_sensitivity = {}
  BY <1>1 DEF x_state, control, nil
<1>3. LocalGlitches
  <2> SUFFICES ASSUME NEW w \in Wires, Kind(w) \in CombKinds \cup {"port"}
               PROVE  {} = UNION {ws[Fanin(w)[i]].glitch_sensitivity : i \in DOMAIN Fanin(w)}
    BY <1>2 DEF LocalGlitches
  <2>1. \A i \in DOMAIN Fanin(w) : ws[Fanin(w)[i]].glitch_sensitivity = {}
    BY <1>1, <1>2, FaninIs
  <2> QED
    BY <2>1
<1>4. Len(ws) <= Len(net.wires)
  <2>1. Len(net.wires) \in Nat /\ Wires = 1..Len(net.wires)
    BY <1>1, NetlistTypes DEF Wires
  <2>2. ws \in [1..Len(net.wires) -> {control}]
    BY <1>1, <2>1 DEF x_state
  <2>3. Len(ws) = Len(net.wires)
    BY <2>1, <2>2, FunctionIsSeq
  <2> QED
    BY <2>1, <2>3
<1> QED
  BY <1>1, <1>2, <1>3, <1>4 DEF ConeInv, InputGlitches, Passed

(* ConeInv holds after the start of a cycle.                               *)
LEMMA ConeStart ==
    ASSUME DepInv, ConeInv, AuditStart
    PROVE  ConeInv'
<1>1. /\ StartCycle /\ net' = net /\ net \in Netlists /\ cycle' = cycle + 1
  BY DEF AuditStart, StartCycle, DepInv
<1>2. CASE cycle' = NCycles
  <2>1. ws' = ws /\ verdict' = "accepted"
    BY <1>1, <1>2 DEF StartCycle
  <2> QED
    BY <1>1, <2>1, SameCells DEF ConeInv, LocalGlitches, InputGlitches, Passed
<1>3. CASE cycle' # NCycles
  <2>1. pc' = "eval"
    BY <1>1, <1>3 DEF StartCycle
  <2>2. PICK v : ws' = [w \in InputWires |-> with_value(InputState(w), v[w])]
    BY <1>1, <1>3 DEF StartCycle
  <2>3. ASSUME NEW w \in InputWires
        PROVE  ws'[w].glitch_sensitivity \subseteq {net.wires[w].id}
    <3> DEFINE id == net.wires[w].id
    <3>1. InputState(w) \in {control, share(id), random(id, cycle')}
      BY DEF InputState
    <3>2. \A s \in {control, share(id), random(id, cycle')} :
            with_value(s, v[w]).glitch_sensitivity \subseteq {id}
      BY DEF with_value, control, share, random, nil
    <3>3. ws'[w] = with_value(InputState(w), v[w])
      BY <2>2
    <3> QED
      BY <3>1, <3>2, <3>3
  <2>4. DOMAIN ws' = InputWires
    BY <2>2
  <2>5. LocalGlitches'
    <3>1. \A w \in InputWires : Kind(w) \notin CombKinds \cup {"port"}
      BY DEF InputWires, InputKinds, CombKinds, BinaryGates
    <3> QED
      BY <1>1, <2>4, <3>1, SameCells DEF LocalGlitches
  <2>6. InputGlitches'
    BY <1>1, <2>3, <2>4, SameCells DEF InputGlitches
  <2>7. Len(ws') <= Len(net.wires)
    <3>1. PICK m \in 0..Len(net.wires) : InputWires = 1..m
      BY <1>1, InputsFirst
    <3>2. m \in Nat /\ m <= Len(net.wires)
      BY <1>1, <3>1, NetlistTypes
    <3> DEFINE States == {ws'[w] : w \in InputWires}
    <3>3. ws' \in [1..m -> States]
      BY <2>2, <3>1
    <3> HIDE DEF States
    <3>4. Len(ws') = m
      BY <3>2, <3>3, FunctionIsSeq
    <3> QED
      BY <3>2, <3>4
  <2> QED
    BY <1>1, <2>1, <2>5, <2>6, <2>7 DEF ConeInv, Passed
<1> QED
  BY <1>2, <1>3

(* ConeInv holds after a wire is evaluated.                                *)
LEMMA ConeEval ==
    ASSUME DepInv, ConeInv, AuditEval
    PROVE  ConeInv'
<1>1. PICK res : /\ IsResult(res)
                 /\ Evaluated(res) \/ \E why \in Panics \ {"untracked"} : GadgetPanic(why)
  BY AuditedStates, EvalResult DEF AuditEval
<1>2. /\ Evaluating /\ pc = "eval" /\ verdict = "running" /\ net' = net
      /\ Kind(NextWire) \notin InputKinds
  BY <1>1 DEF AuditEval, EvalWire, EvalTie, EvalPort, EvalUnary, EvalBinary, EvalMux, EvalDff,
              EvalGadget, Evaluating, Evaluated, GadgetPanic, InputKinds, BinaryGates
<1>3. net \in Netlists /\ ws \in Seq(WireStates) /\ NextWire \in Wires /\ NextWire = Len(ws) + 1
  BY <1>2 DEF DepInv, Evaluating, NextWire
<1>4. ~Passed'
  BY <1>1, <1>2 DEF Evaluated, GadgetPanic, Panics, Passed
<1>5. CASE ws' = ws
  BY <1>2, <1>4, <1>5, SameCells DEF ConeInv, LocalGlitches, InputGlitches
<1>6. CASE ws' = Append(ws, res)
  <2>1. /\ DOMAIN ws = 1..(NextWire - 1) /\ DOMAIN ws' = 1..NextWire
        /\ \A w \in DOMAIN ws : ws'[w] = ws[w]
        /\ ws'[NextWire] = res
    BY <1>3, <1>6
  <2>2. ASSUME NEW w \in DOMAIN ws', Kind(w) \in CombKinds \cup {"port"}
        PROVE  ws'[w].glitch_sensitivity =
                 UNION {ws'[Fanin(w)[i]].glitch_sensitivity : i \in DOMAIN Fanin(w)}
    <3>1. w \in Wires /\ w <= NextWire
      BY <1>3, <2>1, NetlistTypes DEF Wires
    <3>2. DOMAIN Fanin(w) = 1..Arity(Kind(w))
      BY <1>3, <2>2, <3>1, FaninIs
    <3>3. \A i \in DOMAIN Fanin(w) : ws'[Fanin(w)[i]] = ws[Fanin(w)[i]]
      <4>1. \A i \in DOMAIN Fanin(w) : Fanin(w)[i] \in 1..(w - 1)
        BY <1>3, <2>2, <3>1, FaninIs
      <4>2. \A u \in 1..(w - 1) : u \in DOMAIN ws
        BY <1>3, <2>1, <3>1, NetlistTypes
      <4> QED
        BY <2>1, <4>1, <4>2
    <3>4. CASE w = NextWire
      <4>1. GateResult(res, Arity(Kind(w)))
        BY <1>1, <2>2, <3>4 DEF IsResult, CombKinds, BinaryGates
      <4>2. res.glitch_sensitivity =
              UNION {ws[Fanin(w)[i]].glitch_sensitivity : i \in DOMAIN Fanin(w)}
        BY <3>2, <3>4, <4>1 DEF GateResult, Combines, Op
      <4> QED
        BY <2>1, <3>3, <3>4, <4>2
    <3>5. CASE w # NextWire
      <4>1. w \in DOMAIN ws
        BY <1>3, <2>1, <3>1, <3>5
      <4>2. ws[w].glitch_sensitivity =
              UNION {ws[Fanin(w)[i]].glitch_sensitivity : i \in DOMAIN Fanin(w)}
        BY <2>2, <4>1 DEF ConeInv, LocalGlitches
      <4> QED
        BY <2>1, <3>3, <4>1, <4>2
    <3> QED
      BY <3>4, <3>5
  <2>3. ASSUME NEW w \in DOMAIN ws', Kind(w) \in InputKinds
        PROVE  ws'[w].glitch_sensitivity \subseteq {net.wires[w].id}
    <3>1. w \in DOMAIN ws
      BY <1>2, <1>3, <2>1, <2>3
    <3> QED
      BY <2>1, <2>3, <3>1 DEF ConeInv, InputGlitches
  <2>4. Len(ws') = NextWire /\ NextWire <= Len(net.wires)
    BY <1>3, <1>6, NetlistTypes DEF Wires
  <2> QED
    BY <1>2, <1>4, <2>2, <2>3, <2>4, SameCells DEF ConeInv, LocalGlitches, InputGlitches
<1> QED
  BY <1>1, <1>5, <1>6 DEF Evaluated, GadgetPanic

(* Every step keeps ConeInv.                                               *)
LEMMA ConeKept == DepInv /\ ConeInv /\ [AuditNext]_vars => ConeInv'
<1> SUFFICES ASSUME DepInv, ConeInv, [AuditNext]_vars
             PROVE  ConeInv'
  OBVIOUS
<1>1. CASE AuditFinish
  <2>1. net' = net /\ ws' = ws /\ ~Passed'
    BY <1>1 DEF AuditFinish, EvalFinish, Passed
  <2> QED
    BY <2>1, SameCells DEF ConeInv, LocalGlitches, InputGlitches
<1>2. CASE AuditCheck
  <2>1. net' = net /\ ws' = ws /\ verdict' \in Outcomes
    BY <1>2 DEF AuditCheck, CheckCycle
  <2>2. verdict' = "running" => ~UnsafeWire
    BY <2>1 DEF Outcomes
  <2> QED
    BY <2>1, <2>2, SameCells
       DEF ConeInv, LocalGlitches, InputGlitches, Passed, UnsafeWire, Secure
<1>3. CASE UNCHANGED vars
  <2>1. UNCHANGED <<net, ws, pc, verdict, cycle>>
    BY <1>3 DEF vars, simVars
  <2> QED
    BY <2>1, SameCells DEF ConeInv, LocalGlitches, InputGlitches, Passed, Secure
<1> QED
  BY <1>1, <1>2, <1>3, ConeStart, ConeEval DEF AuditNext

(* What local propagation computes is the union over the cone.             *)
LEMMA GlitchesOfCone ==
    ASSUME DepInv, ConeInv
    PROVE  GlitchConeExact
<1> DEFINE Wrong == {w \in DOMAIN ws : ws[w].glitch_sensitivity # ConeShares(w)}
<1>1. /\ net \in Netlists /\ Len(ws) \in Nat /\ DOMAIN ws = 1..Len(ws)
      /\ \A w \in DOMAIN ws : w \in Wires /\ w \in Nat
  <2>1. ws \in Seq(WireStates) /\ net \in Netlists
    BY DEF DepInv
  <2>2. Len(ws) <= Len(net.wires)
    BY DEF ConeInv
  <2> QED
    BY <2>1, <2>2, NetlistTypes DEF Wires
<1>2. ASSUME Wrong # {}
      PROVE  FALSE
  <2>1. PICK w \in Wrong : \A y \in Wrong : w <= y
    <3>1. Wrong \subseteq Nat
      BY <1>1
    <3> HIDE DEF Wrong
    <3> QED
      BY <1>2, <3>1, LeastIndex
  <2>2. w \in DOMAIN ws /\ w \in Wires /\ ws[w].glitch_sensitivity # ConeShares(w)
    BY <1>1
  <2>3. CASE Kind(w) \notin CombKinds \cup {"port"}
    <3>1. Cone(w) = {w}
      BY <1>1, <2>2, <2>3, ConeIs DEF Cone, InCone
    <3> QED
      BY <2>2, <3>1 DEF ConeShares
  <2>4. CASE Kind(w) \in CombKinds \cup {"port"}
    <3>1. Cone(w) = UNION {Cone(Fanin(w)[i]) : i \in DOMAIN Fanin(w)}
      BY <1>1, <2>2, <2>4, ConeIs DEF Cone, InCone
    <3>2. ConeShares(w) = UNION {ConeShares(Fanin(w)[i]) : i \in DOMAIN Fanin(w)}
      BY <3>1 DEF ConeShares
    <3>3. \A i \in DOMAIN Fanin(w) : ws[Fanin(w)[i]].glitch_sensitivity = ConeShares(Fanin(w)[i])
      <4>1. \A i \in DOMAIN Fanin(w) : Fanin(w)[i] \in 1..(w - 1)
        BY <1>1, <2>2, <2>4, FaninIs
      <4>2. \A u \in 1..(w - 1) : u \in DOMAIN ws /\ ~(w <= u)
        BY <1>1, <2>2
      <4> QED
        BY <2>1, <4>1, <4>2
    <3>4. ws[w].glitch_sensitivity =
            UNION {ws[Fanin(w)[i]].glitch_sensitivity : i \in DOMAIN Fanin(w)}
      BY <2>2, <2>4 DEF ConeInv, LocalGlitches
    <3> QED
      BY <2>2, <3>2, <3>3, <3>4
  <2> QED
    BY <2>3, <2>4
<1> QED
  BY <1>2 DEF GlitchConeExact

(* The glitch sensitivity that gates propagate, forwarding an operand but  *)
(* keeping the glitches of the others, is the one of the robust probing    *)
(* model: every share at a source of the combinational cone, for any       *)
(* netlist and in every state of an evaluation.                            *)
THEOREM GlitchesAreThoseOfCones == AuditSpec => []GlitchConeExact
BY AlwaysAudited, ConeInit, ConeKept, GlitchesOfCone, PTL DEF AuditSpec

(* A cycle that passed the checks has no wire outside of the gadgets whose *)
(* cone mixes two shares: neither the wires checked, nor the inputs of     *)
(* modules, which are not.                                                 *)
THEOREM CheckedCyclesMixNoShares == AuditSpec => []NoShareMixing
<1>1. ASSUME DepInv, ConeInv, Passed
      PROVE  \A w \in Wires \ net.inner : Cardinality(ConeShares(w)) <= 1
  <2> DEFINE Mixed == {w \in Wires \ net.inner : ~(Cardinality(ws[w].glitch_sensitivity) <= 1)}
  <2>1. net \in Netlists /\ DOMAIN ws = Wires /\ Wires \subseteq Nat
    <3>1. ws \in Seq(WireStates) /\ net \in Netlists /\ Len(ws) = Len(net.wires)
      BY <1>1 DEF DepInv, Passed
    <3> QED
      BY <3>1 DEF Wires
  <2>2. ASSUME Mixed # {}
        PROVE  FALSE
    <3>1. PICK w \in Mixed : \A y \in Mixed : w <= y
      <4>1. Mixed \subseteq Nat
        BY <2>1
      <4> HIDE DEF Mixed
      <4> QED
        BY <2>2, <4>1, LeastIndex
    <3>2. w \in Wires \ net.inner /\ ~(Cardinality(ws[w].glitch_sensitivity) <= 1)
      OBVIOUS
    <3>3. CASE w \in CheckedWires
      BY <1>1, <3>2, <3>3 DEF ConeInv, Secure
    <3>4. CASE Kind(w) \in InputKinds
      <4> DEFINE id == net.wires[w].id
      <4>1. ws[w].glitch_sensitivity \subseteq {id}
        BY <1>1, <2>1, <3>2, <3>4 DEF ConeInv, InputGlitches
      <4>2. ws[w].glitch_sensitivity = {} \/ ws[w].glitch_sensitivity = {id}
        BY <4>1
      <4>3. Cardinality({}) = 0 /\ Cardinality({id}) = 1
        BY FS_EmptySet, FS_Singleton
      <4> QED
        BY <3>2, <4>2, <4>3
    <3>5. CASE Kind(w) = "port"
      <4> DEFINE u == Fanin(w)[1]
      <4>1. DOMAIN Fanin(w) = 1..1 /\ u \in Wires /\ u \in 1..(w - 1)
        <5>1. Arity(Kind(w)) = 1
          BY <3>5 DEF Arity, InputKinds, BinaryGates
        <5>2. DOMAIN Fanin(w) = 1..1
          BY <2>1, <3>2, <3>5, <5>1, FaninIs
        <5>3. 1 \in DOMAIN Fanin(w)
          BY <5>2
        <5> QED
          BY <2>1, <3>2, <3>5, <5>2, <5>3, FaninIs
      <4>2. u \notin net.inner
        <5>1. w \in DOMAIN net.wires \ net.inner /\ net.wires[w].kind # "gadget"
          BY <2>1, <3>2, <3>5, NetlistTypes DEF Kind
        <5>2. Range(net.wires[w].in) \cap net.inner = {}
          BY <2>1, <5>1, NetlistsAssumption DEF Enclosed
        <5>3. u \in Range(net.wires[w].in)
          BY <4>1 DEF Range, Fanin
        <5> QED
          BY <5>2, <5>3
      <4>3. ws[w].glitch_sensitivity = ws[u].glitch_sensitivity
        <5>1. ws[w].glitch_sensitivity =
                UNION {ws[Fanin(w)[i]].glitch_sensitivity : i \in DOMAIN Fanin(w)}
          BY <1>1, <2>1, <3>2, <3>5 DEF ConeInv, LocalGlitches
        <5>2. \A i \in DOMAIN Fanin(w) : i = 1
          BY <4>1
        <5> QED
          BY <4>1, <5>1, <5>2
      <4>4. u \in Mixed /\ ~(w <= u)
        BY <2>1, <3>2, <4>1, <4>2, <4>3
      <4> HIDE DEF Mixed, u
      <4> QED
        BY <3>1, <4>4
    <3> QED
      BY <3>2, <3>3, <3>4, <3>5 DEF CheckedWires
  <2>3. \A w \in Wires : ConeShares(w) = ws[w].glitch_sensitivity
    BY <1>1, <2>1, GlitchesOfCone DEF GlitchConeExact
  <2> QED
    BY <2>2, <2>3
<1>2. DepInv /\ ConeInv => NoShareMixing
  BY <1>1 DEF NoShareMixing
<1> QED
  BY <1>2, AlwaysAudited, ConeInit, ConeKept, PTL DEF AuditSpec

-----------------------------------------------------------------------------
(* The inside of pipelined gadgets.                                        *)

(* What state x says comes from states of S, and its glitches from those   *)
(* or from glitches of states of G.                                        *)
CoveredBy(x, S, G) ==
    /\ x.sensitivity # {} => \E y \in S : y.sensitivity # {}
    /\ x.glitch_sensitivity # {} => \/ \E y \in S : y.sensitivity # {}
                                    \/ \E y \in G : y.glitch_sensitivity # {}
    /\ x.deterministic \/ \E y \in S : ~y.deterministic
    /\ \A h \in Nspgis : \/ x.nspgi_dep[h] = NoExec
                         \/ \E y \in S : x.nspgi_dep[h] = y.nspgi_dep[h]

(* The inputs that gadget g has got j cycles after the wires of its stage  *)
(* s were evaluated, and their states.                                     *)
EnteredBy(g, s, j) ==
    {k \in GInputs(g) : \/ GIn(g, k).lat < s
                        \/ GIn(g, k).lat = s /\ (j = 0 => GIn(g, k).wire \in DOMAIN ws)}
StateIn(g, k, s, j) == At(GIn(g, k).wire, s - GIn(g, k).lat + j)
Entered(g, s, j) == {StateIn(g, k, s, j) : k \in EnteredBy(g, s, j)}
Entering(g, s, j) == {StateIn(g, k, s, j) : k \in {k \in EnteredBy(g, s, j) : GIn(g, k).lat = s}}

(* The fourth inductive invariant: a wire inside of a pipeline is covered  *)
(* by the inputs of its stage, and so is what registers remember of it.    *)
CoverInv ==
    \A g \in Gadgets : \A stage \in [net.inner -> Stages(g)] :
        Staged(g, stage) =>
            \A v \in net.inner \cap Wires : stage[v] # NoStage =>
                /\ v \in DOMAIN ws =>
                      CoveredBy(ws[v], Entered(g, stage[v], 0), Entering(g, stage[v], 0))
                /\ stage[v] < max_latency(g) =>
                      CoveredBy(past[1][v], Entered(g, stage[v], 1), Entering(g, stage[v], 1))

(* More inputs cover as much.                                              *)
LEMMA CoveredByMore ==
    ASSUME NEW x, NEW S, NEW G, NEW T, NEW H, S \subseteq T, G \subseteq H, CoveredBy(x, S, G)
    PROVE  CoveredBy(x, T, H)
BY DEF CoveredBy

(* What covers the operands of a gate covers its output.                   *)
LEMMA CombinesCovered ==
    ASSUME NEW res, NEW ops, NEW S, NEW G, Combines(res, ops), \A op \in ops : CoveredBy(op, S, G)
    PROVE  CoveredBy(res, S, G)
<1>1. res.sensitivity # {} => \E op \in ops : op.sensitivity # {}
  BY DEF Combines
<1>2. res.glitch_sensitivity # {} => \E op \in ops : op.glitch_sensitivity # {}
  BY DEF Combines
<1>3. res.deterministic \/ \E op \in ops : ~op.deterministic
  BY DEF Combines
<1>4. \A h \in Nspgis : \E op \in ops : res.nspgi_dep[h] = op.nspgi_dep[h]
  BY DEF Combines
<1>5. \A h \in Nspgis : \/ res.nspgi_dep[h] = NoExec
                        \/ \E y \in S : res.nspgi_dep[h] = y.nspgi_dep[h]
  <2> SUFFICES ASSUME NEW h \in Nspgis
               PROVE  \/ res.nspgi_dep[h] = NoExec
                      \/ \E y \in S : res.nspgi_dep[h] = y.nspgi_dep[h]
    OBVIOUS
  <2>1. PICK op \in ops : res.nspgi_dep[h] = op.nspgi_dep[h]
    BY <1>4
  <2> QED
    BY <2>1 DEF CoveredBy
<1> QED
  BY <1>1, <1>2, <1>3, <1>5 DEF CoveredBy

(* A register is covered by what covers what it stores.                    *)
LEMMA StoredCovered ==
    ASSUME NEW x \in WireStates, NEW S, NEW G, CoveredBy(x, S, G)
    PROVE  CoveredBy(stop_glitches(x), S, {})
<1>1. /\ stop_glitches(x).sensitivity = x.sensitivity
      /\ stop_glitches(x).glitch_sensitivity = x.sensitivity
      /\ stop_glitches(x).deterministic = x.deterministic
      /\ stop_glitches(x).nspgi_dep = x.nspgi_dep
  BY DEF stop_glitches, WireStates
<1> QED
  BY <1>1 DEF CoveredBy

(* A constant needs nothing that covers it.                                *)
LEMMA ControlCovered ==
    ASSUME NEW S, NEW G, NEW v
    PROVE  CoveredBy(control, S, G) /\ CoveredBy(with_value(control, v), S, G)
BY DEF CoveredBy, control, with_value, nil, NoDep

(* No input comes before stage 0.                                          *)
LEMMA NoneEntered ==
    ASSUME net \in Netlists, NEW g \in Gadgets, NEW j
    PROVE  Entered(g, Constant, j) = {} /\ Entering(g, Constant, j) = {}
<1>1. \A k \in GInputs(g) : GIn(g, k).lat \in Nat
  BY NetlistTypes
<1>2. EnteredBy(g, Constant, j) = {}
  BY <1>1 DEF EnteredBy, Constant
<1> QED
  BY <1>2 DEF Entered, Entering

(* What stage s of a gadget reads in the cycle of its evaluation.          *)
LEMMA ReadCovered ==
    ASSUME net \in Netlists, CoverInv, NEW g \in Gadgets, NEW stage \in [net.inner -> Stages(g)],
           Staged(g, stage), NEW s \in Nat \cup {Constant}, NEW u \in DOMAIN ws, u \in Wires,
           InStage(g, stage, u, s)
    PROVE  CoveredBy(ws[u], Entered(g, s, 0), Entering(g, s, 0))
<1>1. CASE u \in net.inner
  <2>1. stage[u] = s \/ stage[u] = Constant
    BY <1>1 DEF InStage
  <2>2. CoveredBy(ws[u], Entered(g, stage[u], 0), Entering(g, stage[u], 0))
    <3>1. stage[u] # NoStage
      BY <2>1 DEF NoStage, Constant
    <3> QED
      BY <1>1, <3>1 DEF CoverInv
  <2>3. CASE stage[u] = Constant
    <3>1. CoveredBy(ws[u], {}, {})
      BY <2>2, <2>3, NoneEntered
    <3> QED
      BY <3>1, CoveredByMore
  <2> QED
    BY <2>1, <2>2, <2>3
<1>2. CASE u \notin net.inner
  <2>1. PICK k \in GInputs(g) : GIn(g, k).wire = u /\ GIn(g, k).lat = s
    BY <1>2 DEF InStage
  <2>2. k \in EnteredBy(g, s, 0)
    BY <2>1 DEF EnteredBy
  <2>3. StateIn(g, k, s, 0) = ws[u]
    <3>1. s - GIn(g, k).lat + 0 = 0
      BY <2>1 DEF Constant
    <3> QED
      BY <2>1, <3>1 DEF StateIn, At
  <2>4. ws[u] \in Entered(g, s, 0) /\ ws[u] \in Entering(g, s, 0)
    BY <2>1, <2>2, <2>3 DEF Entered, Entering
  <2> QED
    BY <2>4 DEF CoveredBy
<1> QED
  BY <1>1, <1>2

(* What a register of stage s reads, from the cycle before.                *)
LEMMA RegisterCovered ==
    ASSUME net \in Netlists, CoverInv, NEW g \in Gadgets, NEW stage \in [net.inner -> Stages(g)],
           Staged(g, stage), NEW s \in (0..max_latency(g)) \cup {Constant}, NEW u \in Wires,
           InStage(g, stage, u, IF s # Constant THEN s - 1 ELSE s)
    PROVE  \E G : CoveredBy(past[1][u], Entered(g, s, 0), G)
<1> DEFINE r == IF s # Constant THEN s - 1 ELSE s
<1>1. max_latency(g) \in Nat
  BY DepthIs
<1>2. s \in Int /\ r \in Int /\ r < max_latency(g) /\ r >= Constant
      /\ (r # Constant => r \in Nat /\ s = r + 1)
  BY <1>1 DEF Constant
<1> HIDE DEF r
<1>3. CASE u \in net.inner
  <2>1. stage[u] = r \/ stage[u] = Constant
    BY <1>3 DEF InStage, r
  <2>2. stage[u] # NoStage /\ stage[u] < max_latency(g)
    BY <1>1, <1>2, <2>1 DEF NoStage, Constant
  <2>3. CoveredBy(past[1][u], Entered(g, stage[u], 1), Entering(g, stage[u], 1))
    BY <1>3, <2>2 DEF CoverInv
  <2>4. CASE stage[u] = Constant
    <3>1. CoveredBy(past[1][u], {}, {})
      BY <2>3, <2>4, NoneEntered
    <3> QED
      BY <3>1, CoveredByMore
  <2>5. CASE stage[u] # Constant
    <3>1. stage[u] = r /\ r \in Nat /\ s = r + 1
      BY <1>2, <2>1, <2>5
    <3>2. Entered(g, r, 1) \subseteq Entered(g, s, 0)
      <4> SUFFICES ASSUME NEW k \in EnteredBy(g, r, 1)
                   PROVE  StateIn(g, k, r, 1) = StateIn(g, k, s, 0) /\ k \in EnteredBy(g, s, 0)
        BY DEF Entered
      <4>1. k \in GInputs(g) /\ (GIn(g, k).lat < r \/ GIn(g, k).lat = r)
        BY DEF EnteredBy
      <4>2. GIn(g, k).lat \in Nat
        BY <4>1, NetlistTypes
      <4>3. r - GIn(g, k).lat + 1 = s - GIn(g, k).lat + 0 /\ GIn(g, k).lat < s
        BY <3>1, <4>1, <4>2
      <4> QED
        BY <4>1, <4>3 DEF StateIn, EnteredBy
    <3> QED
      BY <2>3, <3>1, <3>2, CoveredByMore
  <2> QED
    BY <2>4, <2>5
<1>4. CASE u \notin net.inner
  <2>1. PICK k \in GInputs(g) : GIn(g, k).wire = u /\ GIn(g, k).lat = r
    BY <1>4 DEF InStage, r
  <2>2. GIn(g, k).lat \in Nat
    BY <2>1, NetlistTypes
  <2>3. r \in Nat /\ s = r + 1
    BY <1>2, <2>1, <2>2 DEF Constant
  <2>4. k \in EnteredBy(g, s, 0)
    BY <2>1, <2>3 DEF EnteredBy
  <2>5. StateIn(g, k, s, 0) = past[1][u]
    <3>1. s - GIn(g, k).lat + 0 = 1
      BY <2>1, <2>3
    <3> QED
      BY <2>1, <3>1 DEF StateIn, At
  <2>6. past[1][u] \in Entered(g, s, 0)
    BY <2>4, <2>5 DEF Entered
  <2>7. CoveredBy(past[1][u], Entered(g, s, 0), {past[1][u]})
    BY <2>6 DEF CoveredBy
  <2> QED
    BY <2>7
<1> QED
  BY <1>3, <1>4

(* What only depends on the netlist.                                       *)
LEMMA SameStages ==
    ASSUME net' = net
    PROVE  /\ \A g : max_latency(g)' = max_latency(g) /\ Stages(g)' = Stages(g)
           /\ \A g, stage : Staged(g, stage)' = Staged(g, stage)
<1>1. /\ Wires' = Wires /\ \A w : Kind(w)' = Kind(w) /\ Fanin(w)' = Fanin(w)
      /\ \A g : GInputs(g)' = GInputs(g)
      /\ \A g, k : GIn(g, k)' = GIn(g, k)
  BY DEF Wires, Kind, Fanin, GInputs, GIn
<1>2. \A g : max_input_latency(g)' = max_input_latency(g) /\ OutputsOf(g)' = OutputsOf(g)
  BY <1>1 DEF max_input_latency, OutputsOf
<1>3. \A g : max_latency(g)' = max_latency(g)
  BY <1>2 DEF max_latency
<1>4. \A g, stage, v, s : InStage(g, stage, v, s)' = InStage(g, stage, v, s)
  BY <1>1 DEF InStage
<1>5. \A v, s : ReadIn(v, s)' = ReadIn(v, s)
  BY <1>1 DEF ReadIn
<1>6. \A g, stage : Staged(g, stage)' = Staged(g, stage)
  BY <1>1, <1>2, <1>4, <1>5 DEF Staged
<1> QED
  BY <1>3, <1>6 DEF Stages

(* The inputs that a gadget has got remain the same while a cycle is       *)
(* evaluated.                                                              *)
LEMMA EnteredGrows ==
    ASSUME net \in Netlists, net' = net, past' = past,
           DOMAIN ws \subseteq DOMAIN ws', \A w \in DOMAIN ws : ws'[w] = ws[w],
           NEW g \in Gadgets, NEW s \in Int, NEW j \in Nat
    PROVE  Entered(g, s, j) \subseteq Entered(g, s, j)' /\ Entering(g, s, j) \subseteq Entering(g, s, j)'
<1>1. /\ GInputs(g)' = GInputs(g) /\ \A k : GIn(g, k)' = GIn(g, k)
  BY DEF GInputs, GIn
<1>2. EnteredBy(g, s, j) \subseteq EnteredBy(g, s, j)'
  BY <1>1 DEF EnteredBy
<1>3. ASSUME NEW k \in EnteredBy(g, s, j)
      PROVE  StateIn(g, k, s, j)' = StateIn(g, k, s, j)
  <2>1. k \in GInputs(g) /\ GIn(g, k).lat \in Nat
    BY NetlistTypes DEF EnteredBy
  <2>2. CASE s - GIn(g, k).lat + j = 0
    <3>1. ~(GIn(g, k).lat < s)
      BY <2>1, <2>2
    <3>2. GIn(g, k).lat = s /\ (j = 0 => GIn(g, k).wire \in DOMAIN ws)
      BY <3>1 DEF EnteredBy
    <3>3. GIn(g, k).wire \in DOMAIN ws
      BY <2>1, <2>2, <3>2
    <3> QED
      BY <1>1, <2>2, <3>3 DEF StateIn, At
  <2>3. CASE s - GIn(g, k).lat + j # 0
    BY <1>1, <2>3 DEF StateIn, At
  <2> QED
    BY <2>2, <2>3
<1>4. Entered(g, s, j) \subseteq Entered(g, s, j)'
  BY <1>2, <1>3 DEF Entered
<1>5. Entering(g, s, j) \subseteq Entering(g, s, j)'
  BY <1>1, <1>2, <1>3 DEF Entering
<1> QED
  BY <1>4, <1>5

(* CoverInv holds initially.                                               *)
LEMMA CoverInit == AuditInit => CoverInv
<1> SUFFICES ASSUME AuditInit, NEW v \in Wires
             PROVE  \A S, G : CoveredBy(ws[v], S, G) /\ CoveredBy(past[1][v], S, G)
  BY DEF CoverInv
<1>1. net \in Netlists /\ ws = x_state /\ past = [k \in 1..Depth |-> x_state]
  BY DEF AuditInit, Init
<1>2. 1 \in 1..Depth
  BY <1>1, DepthIs
<1>3. ws[v] = control /\ past[1][v] = control
  BY <1>1, <1>2 DEF x_state
<1> QED
  BY <1>3, ControlCovered

(* The inputs of the cycle that ends are remembered.                       *)
LEMMA CoverStart ==
    ASSUME DepInv, CoverInv, AuditStart
    PROVE  CoverInv'
<1>1. StartCycle /\ net' = net /\ net \in Netlists /\ DOMAIN ws = Wires
  <2>1. StartCycle /\ net' = net /\ net \in Netlists /\ pc = "next" /\ verdict = "running"
    BY DEF AuditStart, StartCycle, DepInv
  <2>2. ws \in Seq(WireStates) /\ Len(ws) = Len(net.wires)
    BY <2>1 DEF DepInv
  <2> QED
    BY <2>1, <2>2 DEF Wires
<1>2. CASE cycle' = NCycles
  <2>1. ws' = ws /\ past' = past
    BY <1>1, <1>2 DEF StartCycle
  <2>2. /\ \A g, s, j : Entered(g, s, j)' = Entered(g, s, j)
        /\ \A g, s, j : Entering(g, s, j)' = Entering(g, s, j)
    <3>1. /\ \A g : GInputs(g)' = GInputs(g) /\ \A k : GIn(g, k)' = GIn(g, k)
      BY <1>1 DEF GInputs, GIn
    <3>2. \A g, s, j : EnteredBy(g, s, j)' = EnteredBy(g, s, j)
      BY <2>1, <3>1 DEF EnteredBy
    <3>3. \A g, k, s, j : StateIn(g, k, s, j)' = StateIn(g, k, s, j)
      BY <2>1, <3>1 DEF StateIn, At
    <3> QED
      BY <3>1, <3>2, <3>3 DEF Entered, Entering
  <2>3. Gadgets' = Gadgets /\ Wires' = Wires
    BY <1>1, SameNetlist
  <2> QED
    BY <1>1, <2>1, <2>2, <2>3, SameStages DEF CoverInv
<1>3. CASE cycle' # NCycles
  <2>1. DOMAIN ws' = InputWires
    BY <1>1, <1>3 DEF StartCycle
  <2>2. past'[1] = ws /\ \A k \in 2..Depth : past'[k] = past[k - 1]
    <3>1. past' = Shifted(ws, past) /\ Depth \in Nat /\ Depth >= 1
      BY <1>1, <1>3, DepthIs DEF StartCycle
    <3>2. ws \in Seq(WireStates) /\ past \in Seq(Seq(WireStates)) /\ Len(past) = Depth
      BY DEF DepInv
    <3> QED
      BY <3>1, <3>2, StatesShifted
  <2>3. ASSUME NEW g \in Gadgets, NEW s \in Int, s + 1 <= Depth
        PROVE  Entered(g, s, 0) \subseteq Entered(g, s, 1)' /\ Entering(g, s, 0) \subseteq Entering(g, s, 1)'
    <3>1. /\ GInputs(g)' = GInputs(g) /\ \A k : GIn(g, k)' = GIn(g, k)
      BY <1>1 DEF GInputs, GIn
    <3>2. EnteredBy(g, s, 0) \subseteq EnteredBy(g, s, 1)'
      BY <3>1 DEF EnteredBy
    <3>3. ASSUME NEW k \in EnteredBy(g, s, 0)
          PROVE  StateIn(g, k, s, 1)' = StateIn(g, k, s, 0)
      <4>1. k \in GInputs(g) /\ GIn(g, k).lat \in Nat /\ (GIn(g, k).lat < s \/ GIn(g, k).lat = s)
        BY <1>1, NetlistTypes DEF EnteredBy
      <4>2. PICK i \in Nat : i = s - GIn(g, k).lat
        BY <4>1
      <4>3. i + 1 <= Depth /\ Depth \in Nat
        BY <1>1, <2>3, <4>1, <4>2, DepthIs
      <4>4. s - GIn(g, k).lat + 0 = i /\ s - GIn(g, k).lat + 1 = i + 1 /\ i + 1 # 0
        BY <4>1, <4>2
      <4>5. IF i = 0 THEN past'[i + 1] = ws ELSE past'[i + 1] = past[i]
        <5>1. CASE i = 0
          BY <2>2, <5>1
        <5>2. CASE i # 0
          <6>1. i + 1 \in 2..Depth /\ (i + 1) - 1 = i
            BY <4>3, <5>2
          <6> QED
            BY <2>2, <5>2, <6>1
        <5> QED
          BY <5>1, <5>2
      <4> QED
        BY <3>1, <4>4, <4>5 DEF StateIn, At
    <3>4. Entered(g, s, 0) \subseteq Entered(g, s, 1)'
      BY <3>2, <3>3 DEF Entered
    <3>5. Entering(g, s, 0) \subseteq Entering(g, s, 1)'
      BY <3>1, <3>2, <3>3 DEF Entering
    <3> QED
      BY <3>4, <3>5
  <2> SUFFICES ASSUME NEW g \in Gadgets, NEW stage \in [net.inner -> Stages(g)], Staged(g, stage),
                      NEW v \in net.inner \cap Wires, stage[v] # NoStage
               PROVE  /\ v \notin InputWires
                      /\ stage[v] < max_latency(g) =>
                            CoveredBy(ws[v], Entered(g, stage[v], 1)', Entering(g, stage[v], 1)')
    <3>1. Gadgets' = Gadgets /\ Wires' = Wires
      BY <1>1, SameNetlist
    <3> QED
      BY <1>1, <2>1, <2>2, <3>1, SameStages DEF CoverInv
  <2>4. v \notin InputWires
    <3>1. Kind(v) \in CombKinds \cup {"tie", "port", "DFF"}
      BY DEF Staged
    <3> QED
      BY <3>1 DEF InputWires, InputKinds, CombKinds, BinaryGates
  <2>5. ASSUME stage[v] < max_latency(g)
        PROVE  CoveredBy(ws[v], Entered(g, stage[v], 1)', Entering(g, stage[v], 1)')
    <3>1. CoveredBy(ws[v], Entered(g, stage[v], 0), Entering(g, stage[v], 0))
      BY <1>1 DEF CoverInv
    <3>2. PICK s \in Int : s = stage[v] /\ s + 1 <= Depth
      <4>1. max_latency(g) \in Nat /\ max_latency(g) <= Depth /\ Depth \in Nat
        BY <1>1, DepthIs
      <4>2. stage[v] \in Int
        <5>1. stage[v] \in Stages(g)
          OBVIOUS
        <5> QED
          BY <4>1, <5>1 DEF Stages, NoStage, Constant
      <4> QED
        BY <2>5, <4>1, <4>2
    <3> QED
      BY <2>3, <3>1, <3>2, CoveredByMore
  <2> QED
    BY <2>4, <2>5
<1> QED
  BY <1>2, <1>3

(* The wire that is evaluated is covered by the inputs of its stage.       *)
LEMMA ResultCovered ==
    ASSUME DepInv, CoverInv, Evaluating, NEW g \in Gadgets, NEW stage \in [net.inner -> Stages(g)],
           Staged(g, stage), NextWire \in net.inner, stage[NextWire] # NoStage,
           NEW res, IsResult(res)
    PROVE  CoveredBy(res, Entered(g, stage[NextWire], 0), Entering(g, stage[NextWire], 0))
<1> DEFINE w == NextWire
           s == stage[w]
           S == Entered(g, s, 0)
           G == Entering(g, s, 0)
<1>1. /\ net \in Netlists /\ w \in Wires /\ max_latency(g) \in Nat
      /\ s \in (0..max_latency(g)) \cup {Constant} /\ s \in Nat \cup {Constant}
  <2>1. net \in Netlists /\ w \in Wires /\ s \in Stages(g) /\ s # NoStage
    BY DEF DepInv, Evaluating
  <2>2. max_latency(g) \in Nat
    BY <2>1, DepthIs
  <2> QED
    BY <2>1, <2>2 DEF Stages
<1>2. /\ Kind(w) \in CombKinds \cup {"tie", "port", "DFF"}
      /\ \A u \in Range(Fanin(w)) : InStage(g, stage, u, ReadIn(w, s))
  BY DEF Staged
<1>3. DOMAIN ws = 1..(w - 1) /\ w - 1 \in Nat
  <2>1. ws \in Seq(WireStates)
    BY DEF DepInv
  <2> QED
    BY <2>1 DEF NextWire
<1>4. CASE Kind(w) \in CombKinds \cup {"port"}
  <2> DEFINE ops == {Op(i) : i \in 1..Arity(Kind(w))}
  <2>1. Combines(res, ops)
    <3>1. Kind(w) # "tie" /\ Kind(w) # "DFF"
      BY <1>4 DEF CombKinds, BinaryGates
    <3> QED
      BY <1>4, <3>1 DEF IsResult, GateResult, CombKinds, BinaryGates
  <2>2. ASSUME NEW i \in 1..Arity(Kind(w))
        PROVE  CoveredBy(Op(i), S, G)
    <3>1. i \in DOMAIN Fanin(w) /\ Fanin(w)[i] \in Wires /\ Fanin(w)[i] \in DOMAIN ws
      BY <1>1, <1>3, <1>4, FaninIs
    <3>2. Fanin(w)[i] \in Range(Fanin(w))
      BY <3>1 DEF Range
    <3>3. InStage(g, stage, Fanin(w)[i], s)
      <4>1. Kind(w) # "DFF"
        BY <1>4 DEF CombKinds, BinaryGates
      <4> QED
        BY <1>2, <3>2, <4>1 DEF ReadIn
    <3>4. CoveredBy(ws[Fanin(w)[i]], S, G)
      BY <1>1, <3>1, <3>3, ReadCovered
    <3> QED
      BY <3>4 DEF Op
  <2>3. \A op \in ops : CoveredBy(op, S, G)
    BY <2>2
  <2>4. CoveredBy(res, S, G)
    <3> HIDE DEF ops, S, G
    <3> QED
      BY <2>1, <2>3, CombinesCovered
  <2> QED
    BY <2>4
<1>5. CASE Kind(w) = "tie"
  BY <1>5, ControlCovered DEF IsResult
<1>6. CASE Kind(w) = "DFF"
  <2> DEFINE u == Fanin(w)[1]
  <2>1. u \in Wires /\ u \in Range(Fanin(w)) /\ 1 \in 1..Depth
    <3>1. Fanin(w) \in Seq(Wires) /\ Len(Fanin(w)) = Arity(Kind(w))
      BY <1>1, <1>6, NetlistTypes
    <3>2. Arity(Kind(w)) = 1
      BY <1>6 DEF Arity, InputKinds, BinaryGates
    <3>3. 1 \in DOMAIN Fanin(w)
      BY <3>1, <3>2
    <3>4. u \in Wires
      BY <3>1, <3>3
    <3>5. u \in Range(Fanin(w))
      BY <3>3 DEF Range
    <3>6. 1 \in 1..Depth
      BY <1>1, DepthIs
    <3> QED
      BY <3>4, <3>5, <3>6
  <2>2. past[1][u] \in WireStates
    BY <2>1 DEF DepInv, Audited, WellFormed
  <2>3. InStage(g, stage, u, IF s # Constant THEN s - 1 ELSE s)
    BY <1>2, <1>6, <2>1 DEF ReadIn
  <2>4. PICK H : CoveredBy(past[1][u], S, H)
    <3> HIDE DEF u, s
    <3> QED
      BY <1>1, <2>1, <2>3, RegisterCovered
  <2>5. res = stop_glitches(past[1][u])
    BY <1>6 DEF IsResult, CombKinds, BinaryGates
  <2>6. CoveredBy(res, S, {})
    BY <2>2, <2>4, <2>5, StoredCovered
  <2> QED
    BY <2>6, CoveredByMore
<1> QED
  BY <1>2, <1>4, <1>5, <1>6

(* CoverInv holds after a wire is evaluated.                               *)
LEMMA CoverEval ==
    ASSUME DepInv, CoverInv, AuditEval
    PROVE  CoverInv'
<1>1. PICK res : /\ IsResult(res)
                 /\ Evaluated(res) \/ \E why \in Panics \ {"untracked"} : GadgetPanic(why)
  BY AuditedStates, EvalResult DEF AuditEval
<1>2. Evaluating /\ net' = net /\ past' = past /\ net \in Netlists /\ NextWire \in Wires
  BY <1>1 DEF AuditEval, EvalWire, EvalTie, EvalPort, EvalUnary, EvalBinary, EvalMux, EvalDff,
              EvalGadget, Evaluating, Evaluated, GadgetPanic, DepInv
<1>3. /\ DOMAIN ws \subseteq DOMAIN ws' /\ \A w \in DOMAIN ws : ws'[w] = ws[w]
      /\ \A w \in DOMAIN ws' \ DOMAIN ws : w = NextWire /\ ws'[w] = res
  <2>1. ws \in Seq(WireStates)
    BY DEF DepInv
  <2>2. ws' = ws \/ ws' = Append(ws, res)
    BY <1>1 DEF Evaluated, GadgetPanic
  <2>3. CASE ws' = Append(ws, res)
    BY <2>1, <2>3 DEF NextWire
  <2> QED
    BY <2>2, <2>3
<1> SUFFICES ASSUME NEW g \in Gadgets, NEW stage \in [net.inner -> Stages(g)], Staged(g, stage),
                    NEW v \in net.inner \cap Wires, stage[v] # NoStage
             PROVE  /\ v \in DOMAIN ws' =>
                          CoveredBy(ws'[v], Entered(g, stage[v], 0)', Entering(g, stage[v], 0)')
                    /\ stage[v] < max_latency(g) =>
                          CoveredBy(past[1][v], Entered(g, stage[v], 1)', Entering(g, stage[v], 1)')
  <2>1. Gadgets' = Gadgets /\ Wires' = Wires
    BY <1>2, SameNetlist
  <2> QED
    BY <1>2, <2>1, SameStages DEF CoverInv
<1>4. PICK s \in Int : s = stage[v]
  <2>1. max_latency(g) \in Nat /\ stage[v] \in Stages(g)
    BY <1>2, DepthIs
  <2> QED
    BY <2>1 DEF Stages, NoStage, Constant
<1>5. ASSUME NEW j \in {0, 1}
      PROVE  Entered(g, s, j) \subseteq Entered(g, s, j)' /\ Entering(g, s, j) \subseteq Entering(g, s, j)'
  <2>1. j \in Nat
    OBVIOUS
  <2> QED
    BY <1>2, <1>3, <2>1, EnteredGrows
<1>6. ASSUME v \in DOMAIN ws'
      PROVE  CoveredBy(ws'[v], Entered(g, s, 0)', Entering(g, s, 0)')
  <2>1. CoveredBy(ws'[v], Entered(g, s, 0), Entering(g, s, 0))
    <3>1. CASE v \in DOMAIN ws
      BY <1>3, <1>4, <3>1 DEF CoverInv
    <3>2. CASE v \notin DOMAIN ws
      <4>1. v = NextWire /\ ws'[v] = res
        BY <1>3, <1>6, <3>2
      <4> QED
        BY <1>1, <1>2, <1>4, <4>1, ResultCovered
    <3> QED
      BY <3>1, <3>2
  <2> QED
    BY <1>5, <2>1, CoveredByMore
<1>7. ASSUME stage[v] < max_latency(g)
      PROVE  CoveredBy(past[1][v], Entered(g, s, 1)', Entering(g, s, 1)')
  <2>1. CoveredBy(past[1][v], Entered(g, s, 1), Entering(g, s, 1))
    BY <1>4, <1>7 DEF CoverInv
  <2> QED
    BY <1>5, <2>1, CoveredByMore
<1> QED
  BY <1>4, <1>6, <1>7

(* Every step keeps CoverInv.                                              *)
LEMMA CoverStep == DepInv /\ CoverInv /\ [AuditNext]_vars => CoverInv'
<1> SUFFICES ASSUME DepInv, CoverInv, [AuditNext]_vars
             PROVE  CoverInv'
  OBVIOUS
<1>1. ASSUME UNCHANGED <<net, ws, past>>
      PROVE  CoverInv'
  <2>1. /\ \A g, s, j : Entered(g, s, j)' = Entered(g, s, j)
        /\ \A g, s, j : Entering(g, s, j)' = Entering(g, s, j)
    <3>1. /\ \A g : GInputs(g)' = GInputs(g) /\ \A k : GIn(g, k)' = GIn(g, k)
      BY <1>1 DEF GInputs, GIn
    <3>2. \A g, s, j : EnteredBy(g, s, j)' = EnteredBy(g, s, j)
      BY <1>1, <3>1 DEF EnteredBy
    <3>3. \A g, k, s, j : StateIn(g, k, s, j)' = StateIn(g, k, s, j)
      BY <1>1, <3>1 DEF StateIn, At
    <3> QED
      BY <3>1, <3>2, <3>3 DEF Entered, Entering
  <2>2. Gadgets' = Gadgets /\ Wires' = Wires
    BY <1>1, SameNetlist
  <2> QED
    BY <1>1, <2>1, <2>2, SameStages DEF CoverInv
<1>2. CASE AuditFinish
  BY <1>1, <1>2 DEF AuditFinish, EvalFinish
<1>3. CASE AuditCheck
  BY <1>1, <1>3 DEF AuditCheck, CheckCycle
<1>4. CASE UNCHANGED vars
  BY <1>1, <1>4 DEF vars, simVars
<1> QED
  BY <1>2, <1>3, <1>4, CoverStart, CoverEval DEF AuditNext

(* The status of a stage has the last of the executions that its inputs    *)
(* depend on.                                                              *)
LEMMA StageBounds ==
    ASSUME DepInv, Len(ws) = Len(deps), NEW g \in Gadgets, NEW l \in Nat, l <= Depth,
           \A k \in GInputs(g) : GIn(g, k).lat = l => GIn(g, k).wire \in DOMAIN ws,
           NEW h \in Nspgis
    PROVE  /\ StageStatus(g, l).nspgi_dep[h] \in Int /\ NoExec <= StageStatus(g, l).nspgi_dep[h]
           /\ \A k \in Taken(g, l) :
                 /\ InputAt(g, k, l).nspgi_dep[h] \in Int
                 /\ InputAt(g, k, l).nspgi_dep[h] <= StageStatus(g, l).nspgi_dep[h]
<1> DEFINE T == Taken(g, l)
           n == Len(net.gadgets[g].inputs)
           f == [k \in T |-> InputAt(g, k, l).nspgi_dep[h]]
           own == IF ExecCycle(g, l) >= 0 THEN DepSingle(g, ExecCycle(g, l)) ELSE NoDep
           c == own[h]
           all == {c} \cup {f[k] : k \in T}
<1>1. n \in Nat /\ T \in SUBSET (1..n) /\ net \in Netlists /\ cycle \in Int
  BY NetlistTypes DEF Taken, DepInv
<1>2. c \in Int /\ NoExec <= c
  <2>1. ExecCycle(g, l) \in Int
    BY <1>1, InputLatencies DEF ExecCycle
  <2>2. CASE ExecCycle(g, l) >= 0
    BY <2>1, <2>2 DEF DepSingle, NoDep, NoExec
  <2>3. CASE ~(ExecCycle(g, l) >= 0)
    BY <2>3 DEF NoDep, NoExec
  <2> QED
    BY <2>2, <2>3
<1>3. \A k \in T : f[k] \in Int
  <2>1. \A k \in T : Audited(Lat, InputAt(g, k, l), DepsAt(GIn(g, k).wire, l - GIn(g, k).lat))
    <3>1. \A k \in T : GIn(g, k).lat = l => GIn(g, k).wire \in DOMAIN ws
      BY DEF Taken
    <3> QED
      BY <3>1, InputAudited
  <2> QED
    BY <2>1 DEF Audited, WellFormed, WireStates, ExecIds, NoExec
<1>4. StageStatus(g, l).nspgi_dep[h] = Max(all)
  <2>1. {f[k] : k \in T} = {InputAt(g, k, l).nspgi_dep[h] : k \in T}
    OBVIOUS
  <2> QED
    BY <2>1 DEF StageStatus
<1>5. Max(all) \in all /\ \A y \in all : y <= Max(all)
  <2> HIDE DEF T, n, f, c
  <2> QED
    BY <1>1, <1>2, <1>3, LargestOf
<1>6. all \subseteq Int /\ c \in all /\ \A k \in T : f[k] \in all
  BY <1>2, <1>3
<1>7. Max(all) \in Int /\ NoExec <= Max(all) /\ \A k \in T : f[k] <= Max(all)
  <2> HIDE DEF all, T, f, c
  <2>1. Max(all) \in Int /\ c <= Max(all) /\ \A k \in T : f[k] <= Max(all)
    BY <1>5, <1>6
  <2> QED
    BY <1>2, <2>1 DEF NoExec
<1> HIDE DEF all, c, own
<1> QED
  BY <1>3, <1>4, <1>7

(* The annotations of an output of a pipeline cover its implementation.    *)
LEMMA OutputCovered ==
    ASSUME DepInv, CoverInv, Evaluating, Kind(NextWire) = "gadget",
           Pipelined(Fanin(NextWire)[1]), NEW v \in Implementation
    PROVE  Covers(Annotated(StageStatus(Fanin(NextWire)[1], net.wires[NextWire].lat),
                            net.wires[NextWire].id), ws[v])
<1> DEFINE g == Fanin(NextWire)[1]
           l == net.wires[NextWire].lat
           id == net.wires[NextWire].id
           status == StageStatus(g, l)
           x == ws[v]
           S == {InputAt(g, k, l) : k \in Taken(g, l)}
           G == {InputAt(g, k, l) : k \in {k \in Taken(g, l) : GIn(g, k).lat = l}}
<1>1. /\ net \in Netlists /\ NextWire \in Wires /\ g \in Gadgets /\ l \in Nat /\ l <= Depth
      /\ NextWire \in OutputsOf(g) /\ v \in Range(Tail(Fanin(NextWire))) /\ Len(ws) = Len(deps)
  <2>1. net \in Netlists /\ NextWire \in Wires /\ Len(ws) = Len(deps)
    BY DEF DepInv, Evaluating
  <2> QED
    BY <2>1, NetlistTypes, DepthIs DEF OutputsOf, Implementation
<1>2. /\ \A k \in GInputs(g) : GIn(g, k).lat = l => GIn(g, k).wire \in DOMAIN ws
      /\ v \in DOMAIN ws /\ v \in Wires
  <2>1. v \in Wires
    BY <1>1, NetlistTypes
  <2> QED
    BY <2>1, GadgetBefore
<1>3. CoveredBy(x, S, G)
  <2>1. PICK stage \in [net.inner -> Stages(g)] : Staged(g, stage)
    BY DEF Pipelined
  <2>2. InStage(g, stage, v, l)
    BY <1>1, <2>1 DEF Staged
  <2>3. CoveredBy(x, Entered(g, l, 0), Entering(g, l, 0))
    BY <1>1, <1>2, <2>1, <2>2, ReadCovered
  <2>4. ASSUME NEW k \in EnteredBy(g, l, 0)
        PROVE  StateIn(g, k, l, 0) = InputAt(g, k, l) /\ k \in Taken(g, l)
    <3>1. k \in GInputs(g) /\ GIn(g, k).lat \in Nat /\ (GIn(g, k).lat < l \/ GIn(g, k).lat = l)
      BY <1>1, NetlistTypes DEF EnteredBy
    <3>2. l - GIn(g, k).lat + 0 = l - GIn(g, k).lat /\ GIn(g, k).lat <= l
      BY <1>1, <3>1
    <3> QED
      BY <3>1, <3>2 DEF StateIn, InputAt, Taken
  <2>5. Entered(g, l, 0) \subseteq S /\ Entering(g, l, 0) \subseteq G
    BY <2>4 DEF Entered, Entering
  <2> QED
    BY <2>3, <2>5, CoveredByMore
<1>4. /\ x.sensitivity # {} => status.sensitive
      /\ x.glitch_sensitivity # {} => status.glitch_sensitive
      /\ status.deterministic => x.deterministic
  <2> HIDE DEF x, g, l
  <2> QED
    BY <1>3 DEF CoveredBy, StageStatus
<1>5. DepMax(status.nspgi_dep, x.nspgi_dep) = status.nspgi_dep
  <2>1. ASSUME NEW h \in Nspgis
        PROVE  ~(status.nspgi_dep[h] < x.nspgi_dep[h])
    <3> DEFINE d == status.nspgi_dep[h]
    <3>1. /\ d \in Int /\ NoExec <= d
          /\ \A k \in Taken(g, l) :
                InputAt(g, k, l).nspgi_dep[h] \in Int /\ InputAt(g, k, l).nspgi_dep[h] <= d
      <4> HIDE DEF g, l
      <4> QED
        BY <1>1, <1>2, StageBounds
    <3>2. x.nspgi_dep[h] = NoExec \/ \E y \in S : x.nspgi_dep[h] = y.nspgi_dep[h]
      BY <1>3 DEF CoveredBy
    <3>3. x.nspgi_dep[h] \in Int /\ x.nspgi_dep[h] <= d
      <4> HIDE DEF d, x, g, l
      <4> QED
        BY <3>1, <3>2 DEF NoExec
    <3> HIDE DEF d, x
    <3> QED
      BY <3>1, <3>3 DEF d
  <2>2. status.nspgi_dep = [h \in Nspgis |-> status.nspgi_dep[h]]
    BY DEF StageStatus
  <2> HIDE DEF status, x
  <2> QED
    BY <2>1, <2>2 DEF DepMax
<1> HIDE DEF status, x
<1>6. /\ Annotated(status, id).sensitivity = (IF status.sensitive THEN {id} ELSE {})
      /\ Annotated(status, id).glitch_sensitivity = (IF status.glitch_sensitive THEN {id} ELSE {})
      /\ Annotated(status, id).deterministic = status.deterministic
      /\ Annotated(status, id).nspgi_dep = status.nspgi_dep
  BY DEF Annotated
<1>7. Covers(Annotated(status, id), x)
  BY <1>4, <1>5, <1>6 DEF Covers
<1> QED
  BY <1>7 DEF status, x

(* A gadget that is a pipeline with the latencies annotated never panics   *)
(* for what its implementation does, whatever it is made of and whatever   *)
(* the trace: the states that compute_output_state finds in the memory of  *)
(* its inputs, first cycles included, cover those of its registers.        *)
THEOREM AnnotationsCoverPipelines == AuditSpec => []AnnotationsCover
<1>1. AuditInit => AnnotationsCover
  BY DEF AuditInit, Init, AnnotationsCover
<1>2. ASSUME DepInv, CoverInv, AnnotationsCover, [AuditNext]_vars
      PROVE  AnnotationsCover'
  <2>1. net' = net
    BY <1>2 DEF AuditNext, AuditStart, AuditEval, AuditFinish, AuditCheck, vars, simVars, StartCycle,
               EvalFinish, CheckCycle, EvalWire, EvalTie, EvalPort, EvalUnary, EvalBinary, EvalMux,
               EvalDff, EvalGadget, Evaluated, GadgetPanic
  <2>2. Gadgets' = Gadgets /\ \A g : Pipelined(g)' = Pipelined(g)
    BY <2>1, SameNetlist, SameStages DEF Pipelined
  <2>3. ASSUME verdict' = "uncovered", verdict # "uncovered"
        PROVE  \E g \in Gadgets : ~Pipelined(g)
    <3>1. EvalGadget
      BY <1>2, <2>3 DEF AuditNext, AuditStart, AuditEval, AuditFinish, AuditCheck, vars, simVars,
               StartCycle, EvalFinish, CheckCycle, Outcomes, EvalWire, EvalTie, EvalPort, EvalUnary,
               EvalBinary, EvalMux, EvalDff, Evaluated
    <3> DEFINE g == Fanin(NextWire)[1]
               g_res == Annotated(StageStatus(g, net.wires[NextWire].lat), net.wires[NextWire].id)
    <3>2. \E v \in Implementation : ~Covers(g_res, ws[v])
      <4> HIDE DEF g_res
      <4> QED
        BY <2>3, <3>1 DEF EvalGadget, GadgetPanic, Evaluated, g_res
    <3>3. Evaluating /\ Kind(NextWire) = "gadget" /\ net \in Netlists /\ NextWire \in Wires
      BY <1>2, <3>1 DEF EvalGadget, Evaluating, DepInv
    <3>4. ~Pipelined(g)
      BY <1>2, <3>2, <3>3, OutputCovered
    <3> QED
      BY <3>3, <3>4, NetlistTypes
  <2> QED
    BY <1>2, <2>2, <2>3 DEF AnnotationsCover
<1> QED
  BY <1>1, <1>2, AlwaysAudited, CoverInit, CoverStep, PTL DEF AuditSpec

-----------------------------------------------------------------------------
(* What was observed, and what the trackers count of it.                   *)

(* The last cycle whose events are recorded, and the last one checked.     *)
LastFinished == IF InCycle THEN cycle - 1 ELSE cycle
LastChecked == IF pc = "next" THEN cycle ELSE cycle - 1

(* What the trackers count: what gates observe, and what randomness ports  *)
(* do, once the execution is complete.                                     *)
OnRecord(o) ==
    \/ o[2] = "gate"
    \/ o[4] \in RndInputs(o[3]) /\ o[5] + max_input_latency(o[3]) <= LastFinished
FreshUse(o) == o[2] = "gadget" /\ <<o[3], o[5]>> \in busy /\ OnRecord(o)

(* What is observed, of what was on the wires.                             *)
IsObservation(o) ==
    /\ o = <<o[1], o[2], o[3], o[4], o[5]>> /\ o[1] \in RandomIds /\ o[1][2] <= cycle
    /\ \/ o[2] = "gate"
       \/ /\ o[2] = "gadget" /\ o[3] \in Gadgets /\ o[4] \in GInputs(o[3]) /\ o[5] \in Int
          /\ o[5] + GIn(o[3], o[4]).lat <= LastFinished
          /\ \A i \in 0..Depth :
                (InCycle => i >= 1) /\ i = cycle - o[5] - GIn(o[3], o[4]).lat =>
                    o[1] \in At(GIn(o[3], o[4]).wire, i).random

AllObserved ==
    \A g \in Gadgets : \A k \in RndInputs(g) : \A i \in 0..Depth :
        (InCycle => i >= 1) =>
            \A r \in At(GIn(g, k).wire, i).random :
                <<r, "gadget", g, k, cycle - i - GIn(g, k).lat>> \in seen

(* The tracker counts every observation of a random that is alive.         *)
Counted(o) ==
    /\ OnRecord(o) => St(o[1]).leaks >= 1
    /\ \A other \in seen : OnRecord(o) /\ OnRecord(other) /\ other[1] = o[1] /\ other # o =>
            St(o[1]).leaks >= 2
    /\ FreshUse(o) => St(o[1]).fresh_uses >= 1

Sole(o) == FreshUse(o) => \A other \in seen : OnRecord(other) /\ other[1] = o[1] => other = o

(* A random at a control input that is checked: the check is still to come.*)
Refused(o) ==
    /\ o[2] = "gadget" /\ <<o[3], o[4]>> \in CheckedInputs /\ GIn(o[3], o[4]).role = "control"
Pending(o) == pc = "check" /\ o[1] \in ws[GIn(o[3], o[4]).wire].random

Supplied(e) ==
    \A k \in RndInputs(e[1]) : \E o \in seen :
        <<o[2], o[3], o[4], o[5]>> = <<"gadget", e[1], k, e[2]>>

FreshInv ==
    verdict = "running" =>
        /\ \A o \in seen : IsObservation(o)
        /\ AllObserved
        /\ \A o \in seen : Alive(o[1]) => Counted(o)
        /\ \A o \in seen : ~Alive(o[1]) \/ pc = "next" => Sole(o)
        /\ \A o \in seen : Refused(o) => Pending(o)
        /\ \A e \in busy : e[2] + max_input_latency(e[1]) <= LastChecked => Supplied(e)

(* The auditor's steps are steps of the simulator.                         *)
LEMMA TrackedInit == AuditInit => TrackInv
BY TrackInit DEF AuditInit

(* The simulator with gadgets tracks randoms as the one without does.      *)
LEMMA TrackedStep == DepInv /\ TrackInv /\ [AuditNext]_vars => TrackInv'
<1>1. [AuditNext]_vars => [Next]_simVars
  BY DEF AuditNext, AuditStart, AuditEval, AuditFinish, AuditCheck, Next, vars
<1> QED
  BY <1>1, AuditedStates, TrackStep

(* The assertion of index_of never fails, for any netlist: although the    *)
(* front of a window is dropped every cycle, each random that a wire, a    *)
(* register or a gadget gives to get_mut, at any latency, is still in it.  *)
THEOREM RandomsAlwaysTracked == AuditSpec => []RandomsTracked
<1>1. TrackInv => RandomsTracked
  BY DEF TrackInv, RandomsTracked
<1> QED
  BY <1>1, AlwaysAudited, TrackedInit, TrackedStep, PTL DEF AuditSpec

-----------------------------------------------------------------------------
(* This invariant is inductive.                                            *)

(* The status of a random bit is one of the tracker's.                     *)
LEMMA StatusType ==
    ASSUME Windows, NEW r \in RandomIds
    PROVE  St(r) \in Statuses
<1>1. r[1] \in Ports
  BY DEF RandomIds
<1>2. trks[r[1]].states \in Seq(Statuses)
  BY <1>1 DEF Windows, Window
<1>3. DefaultStatus \in Statuses
  BY DEF DefaultStatus, Statuses, NotStored
<1> QED
  BY <1>2, <1>3 DEF St, StatusAt

(* The execution whose inputs are now complete is sensitive when one of    *)
(* the inputs remembered for it is.                                        *)
LEMMA SensitiveStage ==
    ASSUME net \in Netlists, NEW g \in Gadgets, NEW k \in GInputs(g),
           At(GIn(g, k).wire, rel_lat(g, k)).sensitivity # {}
    PROVE  StageStatus(g, max_input_latency(g)).sensitive
<1>1. k \in Taken(g, max_input_latency(g))
  BY InputLatencies DEF Taken
<1>2. InputAt(g, k, max_input_latency(g)).sensitivity # {}
  BY DEF InputAt, rel_lat
<1> QED
  BY <1>1, <1>2 DEF StageStatus

(* FreshInv holds initially.                                               *)
LEMMA FreshInit == AuditInit => FreshInv
<1> SUFFICES ASSUME AuditInit
             PROVE  FreshInv
  OBVIOUS
<1>1. /\ net \in Netlists /\ seen = {} /\ busy = {}
      /\ ws = x_state /\ past = [k \in 1..Depth |-> x_state]
  BY DEF AuditInit, Init
<1>2. ASSUME NEW w \in Wires, NEW i \in 0..Depth
      PROVE  At(w, i).random = {}
  <2>1. i # 0 => i \in 1..Depth
    BY <1>1, DepthIs
  <2>2. At(w, i) = x_state[w]
    BY <1>1, <2>1 DEF At
  <2> QED
    BY <2>2 DEF x_state, control, nil
<1>3. AllObserved
  BY <1>1, <1>2, RndInputIs DEF AllObserved
<1> QED
  BY <1>1, <1>3 DEF FreshInv

(* What is on record only depends on the last cycle whose events are.      *)
LEMMA SameRecord ==
    ASSUME net' = net, LastFinished' = LastFinished
    PROVE  \A o : OnRecord(o)' <=> OnRecord(o)
BY SameInputs, SameReads DEF OnRecord

(* Which inputs are checked is a matter of the netlist.                    *)
LEMMA SameRefused ==
    ASSUME net' = net
    PROVE  \A o : Refused(o)' <=> Refused(o)
BY SameInputs DEF Refused

(* What supplied an execution still does.                                  *)
LEMMA SameSupply ==
    ASSUME net' = net, seen \subseteq seen'
    PROVE  \A e : Supplied(e) => Supplied(e)'
BY SameReads DEF Supplied

(* A new cycle observes nothing yet, and forgets no count of a random that *)
(* is still alive.                                                         *)
LEMMA FreshStart ==
    ASSUME DepInv, TrackInv, FreshInv, AuditStart
    PROVE  FreshInv'
<1>1. /\ StartCycle /\ pc = "next" /\ verdict = "running" /\ net' = net /\ cycle' = cycle + 1
      /\ seen' = seen /\ busy' = busy
  BY DEF AuditStart, StartCycle
<1>2. /\ net \in Netlists /\ cycle \in Nat \cup {NotStarted} /\ cycle \in Int
      /\ Windows /\ Depth \in Nat /\ ~InCycle
  BY <1>1, DepthIs DEF DepInv, TrackInv, InCycle, NotStarted
<1>3. CASE cycle' = NCycles
  <2>1. verdict' = "accepted"
    BY <1>1, <1>3 DEF StartCycle
  <2> QED
    BY <2>1 DEF FreshInv
<1>4. CASE cycle' # NCycles
  <2>1. pc' = "eval" /\ InCycle'
    BY <1>1, <1>4 DEF StartCycle, InCycle
  <2>2. LastFinished' = LastFinished /\ LastChecked' = LastChecked /\ LastFinished = cycle
    BY <1>1, <1>2, <2>1 DEF LastFinished, LastChecked
  <2>3. \A o : OnRecord(o)' <=> OnRecord(o)
    BY <1>1, <2>2, SameRecord
  <2>4. \A o : FreshUse(o)' <=> FreshUse(o)
    BY <1>1, <2>3 DEF FreshUse
  <2>5. \A w : \A i \in 1..Depth : At(w, i)' = At(w, i - 1)
    <3>1. \A i \in 1..Depth : i - 1 \in Nat /\ (i - 1) + 1 = i /\ i <= Depth
      BY <1>2
    <3> QED
      BY <1>1, <1>4, <3>1, AuditedStates, AtShifted
  <2>6. ASSUME NEW o \in seen
        PROVE  IsObservation(o)'
    <3>1. IsObservation(o)
      BY <1>1 DEF FreshInv
    <3>2. o[1] \in RandomIds /\ o[1][2] \in Int /\ o[1][2] <= cycle'
      BY <1>1, <1>2, <3>1 DEF IsObservation, RandomIds
    <3>3. CASE o[2] = "gate"
      BY <3>1, <3>2, <3>3 DEF IsObservation, RandomIds
    <3>4. CASE o[2] # "gate"
      <4> DEFINE g == o[3]
                 k == o[4]
      <4>1. /\ o[2] = "gadget" /\ g \in Gadgets /\ k \in GInputs(g) /\ o[5] \in Int
            /\ o[5] + GIn(g, k).lat <= LastFinished
            /\ \A i \in 0..Depth : i = cycle - o[5] - GIn(g, k).lat =>
                  o[1] \in At(GIn(g, k).wire, i).random
        BY <1>2, <3>1, <3>4 DEF IsObservation
      <4>2. GIn(g, k).lat \in Nat
        BY <1>2, <4>1, InputLatencies
      <4>3. PICK w, l : w = GIn(g, k).wire /\ l = GIn(g, k).lat
        OBVIOUS
      <4>4. GIn(g, k)'.wire = w /\ GIn(g, k)'.lat = l
        BY <1>1, <4>3, SameInputs
      <4>5. ASSUME NEW i \in 0..Depth, i >= 1, i = cycle' - o[5] - l
            PROVE  o[1] \in At(w, i)'.random
        <5>1. i - 1 \in 0..Depth /\ i - 1 = cycle - o[5] - l /\ i \in 1..Depth
          BY <1>1, <1>2, <4>1, <4>2, <4>3, <4>5
        <5> QED
          BY <2>5, <4>1, <4>3, <5>1
      <4> HIDE DEF g, k
      <4>6. /\ o[5] + GIn(g, k)'.lat <= LastFinished'
            /\ g \in Gadgets' /\ k \in GInputs(g)'
        BY <1>1, <2>2, <4>1, <4>3, <4>4, SameInputs
      <4>7. \A i \in 0..Depth' : (InCycle' => i >= 1) /\ i = cycle' - o[5] - GIn(g, k)'.lat =>
              o[1] \in At(GIn(g, k).wire, i)'.random
        BY <1>1, <2>1, <4>4, <4>5, SameReads
      <4> QED
        BY <3>1, <3>2, <4>1, <4>6, <4>7 DEF IsObservation, RandomIds, g, k
    <3> QED
      BY <3>3, <3>4
  <2>7. AllObserved'
    <3> SUFFICES ASSUME NEW g \in Gadgets, NEW k \in RndInputs(g), NEW i \in 1..Depth,
                        NEW w, w = GIn(g, k).wire, NEW l, l = GIn(g, k).lat,
                        NEW r \in At(w, i)'.random
                 PROVE  <<r, "gadget", g, k, cycle' - i - l>> \in seen
      <4>1. \A i \in 0..Depth : i >= 1 => i \in 1..Depth
        BY <1>2
      <4> QED
        BY <1>1, <2>1, <4>1, SameReads, SameInputs DEF AllObserved
    <3>1. r \in At(w, i - 1).random
      BY <2>5
    <3>2. i - 1 \in 0..Depth /\ l \in Nat
      BY <1>2, RndInputIs
    <3>3. <<r, "gadget", g, k, cycle - (i - 1) - l>> \in seen
      BY <1>1, <1>2, <3>1, <3>2 DEF FreshInv, AllObserved
    <3>4. cycle' - i - l = cycle - (i - 1) - l
      BY <1>1, <1>2, <3>2
    <3> QED
      BY <3>3, <3>4
  <2>8. ASSUME NEW o \in seen, Alive(o[1])'
        PROVE  Counted(o)'
    <3>1. o[1] \in RandomIds /\ o[1][2] \in Int /\ o[1][2] <= cycle
      BY <1>1 DEF FreshInv, IsObservation, RandomIds
    <3>2. ~Stale(St(o[1])', cycle)
      BY <1>1, <1>2, <2>8, <3>1 DEF Alive
    <3>3. St(o[1])' = St(o[1])
      BY <1>1, <1>2, <3>1, <3>2, StatusesKept
    <3>4. Alive(o[1])
      <4>1. St(o[1]) \in Statuses
        BY <1>2, <3>1, StatusType
      <4> QED
        BY <1>2, <3>1, <3>2, <3>3, <4>1 DEF Alive, Stale, Statuses
    <3>5. Counted(o)
      BY <1>1, <3>4 DEF FreshInv
    <3> QED
      BY <1>1, <2>3, <2>4, <3>3, <3>5 DEF Counted
  <2>9. \A o \in seen : Sole(o)'
    BY <1>1, <2>3, <2>4 DEF FreshInv, Sole
  <2>10. ASSUME NEW e \in busy, e[2] + max_input_latency(e[1]) <= LastChecked
         PROVE  Supplied(e)'
    BY <1>1, <2>10, SameSupply DEF FreshInv
  <2>11. \A e \in busy' : e[2] + max_input_latency(e[1])' <= LastChecked' => Supplied(e)'
    BY <1>1, <2>2, <2>10, SameInputs
  <2>12. \A o \in seen : ~Refused(o)'
    <3>1. \A o \in seen : ~Refused(o)
      BY <1>1 DEF FreshInv, Pending
    <3> QED
      BY <1>1, <3>1, SameRefused
  <2> QED
    BY <1>1, <2>6, <2>7, <2>8, <2>9, <2>11, <2>12 DEF FreshInv
<1> QED
  BY <1>3, <1>4

(* When the checks of a cycle pass, no random that is used as fresh was    *)
(* observed twice, and the executions that became complete were supplied.  *)
LEMMA FreshCheck ==
    ASSUME DepInv, TrackInv, BubbleInv, FreshInv, AuditCheck
    PROVE  FreshInv'
<1>1. /\ pc = "check" /\ verdict = "running" /\ verdict' \in Outcomes
      /\ pc' = (IF verdict' = "running" THEN "next" ELSE pc)
      /\ UNCHANGED <<net, cycle, ws, past, trks, lastNs>> /\ UNCHANGED auditVars
  BY DEF AuditCheck, CheckCycle
<1> SUFFICES ASSUME verdict' = "running"
             PROVE  FreshInv'
  BY DEF FreshInv
<1>2. /\ net \in Netlists /\ cycle \in Nat /\ Windows /\ Depth \in Nat
      /\ BusyInv /\ ~InCycle /\ ~InCycle' /\ pc' = "next"
  BY <1>1, DepthIs DEF DepInv, TrackInv, BubbleInv, InCycle
<1>3. ~UnsafeCycle /\ ~UnsafeWire
  BY <1>1 DEF Outcomes
<1>4. seen' = seen /\ busy' = busy
  BY <1>1 DEF auditVars
<1>5. /\ LastFinished = cycle /\ LastFinished' = cycle
      /\ LastChecked = cycle - 1 /\ LastChecked' = cycle
  BY <1>1, <1>2 DEF LastFinished, LastChecked
<1>6. /\ \A o : OnRecord(o)' <=> OnRecord(o)
      /\ \A o : FreshUse(o)' <=> FreshUse(o)
  <2>1. \A o : OnRecord(o)' <=> OnRecord(o)
    BY <1>1, <1>5, SameRecord
  <2> QED
    BY <1>4, <2>1 DEF FreshUse
<1>7. /\ \A w, i : At(w, i)' = At(w, i)
      /\ \A r : St(r)' = St(r) /\ (Alive(r)' <=> Alive(r))
  <2>1. /\ \A w, i : At(w, i)' = At(w, i)
        /\ \A r : St(r)' = St(r)
    BY <1>1 DEF At, St
  <2> QED
    BY <1>1, <2>1 DEF Alive, RandomIds
<1>8. \A o \in seen : IsObservation(o)'
  <2> SUFFICES ASSUME NEW o \in seen
               PROVE  IsObservation(o)'
    OBVIOUS
  <2>1. IsObservation(o)
    BY <1>1 DEF FreshInv
  <2> QED
    BY <1>1, <1>2, <1>5, <1>7, <2>1, SameReads, SameInputs DEF IsObservation, RandomIds
<1>9. AllObserved'
  <2>1. AllObserved
    BY <1>1 DEF FreshInv
  <2> QED
    BY <1>1, <1>2, <1>4, <1>7, <2>1, SameReads, SameInputs DEF AllObserved
<1>10. ASSUME NEW o \in seen, Alive(o[1])
       PROVE  Counted(o) /\ Counted(o)'
  <2>1. Counted(o)
    BY <1>1, <1>10 DEF FreshInv
  <2> QED
    BY <1>4, <1>6, <1>7, <2>1 DEF Counted
<1>11. ASSUME NEW o \in seen
       PROVE  Sole(o)'
  <2>1. Sole(o)
    <3>1. CASE ~Alive(o[1])
      BY <1>1, <3>1 DEF FreshInv
    <3>2. CASE Alive(o[1])
      <4>1. o[1] \in RandomIds /\ o[1][1] \in Ports
        BY <3>2 DEF Alive, RandomIds
      <4>2. ~AnyBad(trks[o[1][1]])
        BY <1>3, <4>1 DEF UnsafeCycle
      <4>3. ~BadStatus(St(o[1]))
        BY <4>2 DEF AnyBad, St, StatusAt, BadStatus, DefaultStatus
      <4>4. St(o[1]).leaks \in Nat /\ St(o[1]).fresh_uses \in Nat
        BY <1>2, <4>1, StatusType DEF Statuses
      <4> SUFFICES ASSUME FreshUse(o), NEW other \in seen, OnRecord(other), other[1] = o[1],
                          other # o
                   PROVE  FALSE
        BY DEF Sole
      <4>5. St(o[1]).leaks >= 2 /\ St(o[1]).fresh_uses >= 1
        BY <1>10, <3>2 DEF Counted, FreshUse
      <4> QED
        BY <4>3, <4>4, <4>5 DEF BadStatus
    <3> QED
      BY <3>1, <3>2
  <2> QED
    BY <1>4, <1>6, <2>1 DEF Sole
<1>12. ASSUME NEW e \in busy, e[2] + max_input_latency(e[1]) <= cycle
       PROVE  Supplied(e)
  <2> DEFINE g == e[1]
  <2>1. e = <<g, e[2]>> /\ g \in Gadgets /\ e[2] \in Int /\ max_input_latency(g) \in Nat
    BY <1>2, InputLatencies DEF BusyInv
  <2> HIDE DEF g
  <2>2. CASE e[2] + max_input_latency(g) <= cycle - 1
    BY <1>1, <1>5, <2>2 DEF FreshInv, g
  <2>3. CASE e[2] + max_input_latency(g) = cycle
    <3>1. StageStatus(g, max_input_latency(g)).sensitive
      <4>1. Remembered(e)
        BY <1>2, <2>1, <2>3 DEF BusyInv, g
      <4>2. PICK k \in GInputs(g), i \in Nat :
              i = cycle - e[2] - GIn(g, k).lat /\ At(GIn(g, k).wire, i).sensitivity # {}
        BY <4>1 DEF Remembered, g
      <4>3. i = rel_lat(g, k)
        <5>1. GIn(g, k).lat \in Nat
          BY <1>2, <2>1, InputLatencies
        <5> QED
          BY <1>2, <2>1, <2>3, <4>2, <5>1 DEF rel_lat
      <4> QED
        BY <1>2, <2>1, <4>2, <4>3, SensitiveStage
    <3>2. ASSUME NEW k \in RndInputs(g)
          PROVE  \E o \in seen : <<o[2], o[3], o[4], o[5]>> = <<"gadget", g, k, e[2]>>
      <4> DEFINE i == rel_lat(g, k)
      <4>1. At(GIn(g, k).wire, i).random # {}
        BY <1>3, <2>1, <3>1 DEF UnsafeCycle, UnsafeGadget, UnsafeRandom
      <4>2. PICK r : r \in At(GIn(g, k).wire, i).random
        BY <4>1
      <4>3. /\ i \in 0..Depth /\ GIn(g, k).lat \in Nat
            /\ i = max_input_latency(g) - GIn(g, k).lat
        BY <1>2, <2>1, RndInputIs
      <4> HIDE DEF i
      <4>4. <<r, "gadget", g, k, cycle - i - GIn(g, k).lat>> \in seen
        BY <1>1, <1>2, <2>1, <4>2, <4>3 DEF FreshInv, AllObserved
      <4>5. cycle - i - GIn(g, k).lat = e[2]
        BY <1>2, <2>1, <2>3, <4>3
      <4>6. PICK o : o = <<r, "gadget", g, k, e[2]>>
        OBVIOUS
      <4> QED
        BY <4>4, <4>5, <4>6
    <3> QED
      BY <3>2 DEF Supplied, g
  <2> QED
    BY <1>2, <1>12, <2>1, <2>2, <2>3 DEF g
<1>13. \A e \in busy' : e[2] + max_input_latency(e[1])' <= LastChecked' => Supplied(e)'
  BY <1>1, <1>4, <1>5, <1>12, SameSupply, SameInputs
<1>14. ASSUME NEW o \in seen
       PROVE  ~Refused(o)'
  <2> SUFFICES ASSUME Refused(o)
               PROVE  FALSE
    BY <1>1, SameRefused
  <2> DEFINE w == ws[GIn(o[3], o[4]).wire]
  <2>1. o[1] \in w.random
    BY <1>1 DEF FreshInv, Pending
  <2>2. ~UnsafeRole(o[3], o[4])
    <3>1. PICK gk : gk = <<o[3], o[4]>> /\ gk \in CheckedInputs
      BY DEF Refused
    <3>2. ~UnsafeRole(gk[1], gk[2])
      BY <1>3, <3>1 DEF UnsafeWire
    <3> QED
      BY <3>1, <3>2
  <2>3. w.deterministic
    BY <2>2 DEF UnsafeRole, Refused
  <2>4. GIn(o[3], o[4]).wire \in DOMAIN ws
    <3>1. o[3] \in Gadgets /\ o[4] \in GInputs(o[3])
      BY DEF Refused, CheckedInputs
    <3>2. GIn(o[3], o[4]).wire \in Wires
      BY <1>2, <3>1, GInputIs
    <3>3. Len(ws) = Len(net.wires) /\ ws \in Seq(WireStates)
      BY <1>1 DEF DepInv
    <3> QED
      BY <3>2, <3>3 DEF Wires
  <2>5. w.deterministic => w.random = {}
    BY <2>4 DEF DepInv, Audited, WellFormed, Consistent
  <2> QED
    BY <2>1, <2>3, <2>5
<1> QED
  BY <1>1, <1>4, <1>7, <1>8, <1>9, <1>10, <1>11, <1>13, <1>14 DEF FreshInv

(* What a step puts on record is counted by its events: each observation   *)
(* by one of its own, and each use.                                        *)
Newly(o) == o \in seen' /\ OnRecord(o)' /\ ~(o \in seen /\ OnRecord(o))

CountedBy(events, by) ==
    /\ \A o : Newly(o) => \E e \in events : e.op = "leak" /\ o[1] \in e.random /\ e.by = by[o]
    /\ \A o, other : Newly(o) /\ Newly(other) /\ o[1] = other[1] /\ o # other => by[o] # by[other]
    /\ \A o \in seen' : FreshUse(o)' =>
          \/ o \in seen /\ FreshUse(o)
          \/ \E e \in events : e.op = "use" /\ o[1] \in e.random

(* Recording the events of a step and observing them keep the counts       *)
(* exact.                                                                  *)
LEMMA CountedKept ==
    ASSUME Windows, cycle \in Nat, NEW events, IsFiniteSet(events),
           \A e \in events : \A r \in e.random : Alive(r),
           trks' = [p \in Ports |-> Recorded(trks[p], p, events)], cycle' = cycle,
           \A o \in seen : Alive(o[1]) => Counted(o),
           \A o \in seen : ~Alive(o[1]) => Sole(o),
           NEW by, CountedBy(events, by)
    PROVE  /\ \A o \in seen' : Alive(o[1])' => Counted(o)'
           /\ \A o \in seen' : ~Alive(o[1])' => Sole(o)'
<1> DEFINE Old(o) == o \in seen /\ OnRecord(o)
<1>1. /\ \A o \in seen' : OnRecord(o)' /\ ~Old(o) => Newly(o)
      /\ \A o : Newly(o) => \E e \in events : e.op = "leak" /\ o[1] \in e.random /\ e.by = by[o]
      /\ \A o, other :
            Newly(o) /\ Newly(other) /\ o[1] = other[1] /\ o # other => by[o] # by[other]
      /\ \A o \in seen' : FreshUse(o)' =>
            \/ o \in seen /\ FreshUse(o)
            \/ \E e \in events : e.op = "use" /\ o[1] \in e.random
  <2>1. \A o \in seen' : OnRecord(o)' /\ ~Old(o) => Newly(o)
    BY DEF Newly
  <2> QED
    BY <2>1 DEF CountedBy
<1>2. /\ \A r \in RandomIds : InWindow(trks[r[1]], r[2]) =>
            St(r)' = Updated(trks[r[1]], r[1], r[2], events)
      /\ \A r : Alive(r)' <=> Alive(r)
  BY RecordingEffect
<1>3. ASSUME NEW o \in seen', Alive(o[1])
      PROVE  Counted(o)'
  <2> DEFINE r == o[1]
             leaked == On(events, "leak", r)
             uses == On(events, "use", r)
  <2>1. r \in RandomIds /\ r = <<r[1], r[2]>> /\ InWindow(trks[r[1]], r[2])
    BY <1>3, AliveInWindow DEF Alive
  <2>2. St(r)'.leaks = St(r).leaks + Cardinality(leaked)
        /\ St(r)'.fresh_uses = St(r).fresh_uses + Cardinality(uses)
    <3>1. St(r)' = Updated(trks[r[1]], r[1], r[2], events)
      BY <1>2, <2>1
    <3>2. <<r[1], r[2]>> = r
      BY <2>1
    <3> QED
      BY <3>1, <3>2 DEF Updated, St
  <2>3. IsFiniteSet(leaked) /\ IsFiniteSet(uses)
    <3>1. leaked \in SUBSET events /\ uses \in SUBSET events
      BY DEF On
    <3> QED
      BY <3>1, FS_Subset
  <2>4. /\ Cardinality(leaked) \in Nat /\ Cardinality(uses) \in Nat
        /\ St(r).leaks \in Nat /\ St(r).fresh_uses \in Nat
    <3>1. St(r) \in Statuses
      BY <2>1, StatusType
    <3> QED
      BY <2>3, <3>1, FS_CardinalityType DEF Statuses
  <2>5. ASSUME NEW other \in seen', OnRecord(other)', other[1] = r, ~Old(other)
        PROVE  Cardinality(leaked) >= 1 /\ \E e \in leaked : e.by = by[other]
    <3>1. \E e \in leaked : e.by = by[other]
      BY <1>1, <2>5 DEF On
    <3> HIDE DEF leaked
    <3> QED
      BY <2>3, <3>1, AtLeast
  <2>6. ASSUME NEW other \in seen', OnRecord(other)', other[1] = r, Old(other)
        PROVE  Counted(other) /\ St(r).leaks >= 1
    <3>1. Counted(other)
      BY <1>3, <2>6
    <3> QED
      BY <2>6, <3>1 DEF Counted
  <2> HIDE DEF leaked, uses
  <2>7. ASSUME OnRecord(o)'
        PROVE  St(r)'.leaks >= 1
    <3>1. CASE Old(o)
      <4>1. St(r).leaks >= 1
        BY <2>6, <2>7, <3>1
      <4> QED
        BY <2>2, <2>4, <4>1
    <3>2. CASE ~Old(o)
      <4>1. Cardinality(leaked) >= 1
        BY <2>5, <2>7, <3>2
      <4> QED
        BY <2>2, <2>4, <4>1
    <3> QED
      BY <3>1, <3>2
  <2>8. ASSUME NEW other \in seen', OnRecord(o)', OnRecord(other)', other[1] = r, other # o
        PROVE  St(r)'.leaks >= 2
    <3>1. CASE Old(o) /\ Old(other)
      <4>1. St(r).leaks >= 2
        BY <2>6, <2>8, <3>1 DEF Counted
      <4> QED
        BY <2>2, <2>4, <4>1
    <3>2. CASE Old(o) /\ ~Old(other)
      <4>1. St(r).leaks >= 1 /\ Cardinality(leaked) >= 1
        BY <2>5, <2>6, <2>8, <3>2
      <4> QED
        BY <2>2, <2>4, <4>1
    <3>3. CASE ~Old(o) /\ Old(other)
      <4>1. St(r).leaks >= 1 /\ Cardinality(leaked) >= 1
        BY <2>5, <2>6, <2>8, <3>3
      <4> QED
        BY <2>2, <2>4, <4>1
    <3>4. CASE ~Old(o) /\ ~Old(other)
      <4>1. PICK e1 \in leaked : e1.by = by[o]
        BY <2>5, <2>8, <3>4
      <4>2. PICK e2 \in leaked : e2.by = by[other]
        BY <2>5, <2>8, <3>4
      <4>3. e1 # e2
        BY <1>1, <2>8, <3>4, <4>1, <4>2
      <4>4. Cardinality(leaked) >= 2
        BY <2>3, <4>3, AtLeast
      <4> QED
        BY <2>2, <2>4, <4>4
    <3> QED
      BY <3>1, <3>2, <3>3, <3>4
  <2>9. ASSUME FreshUse(o)'
        PROVE  St(r)'.fresh_uses >= 1
    <3>1. CASE o \in seen /\ FreshUse(o)
      <4>1. St(r).fresh_uses >= 1
        BY <1>3, <3>1 DEF Counted
      <4> QED
        BY <2>2, <2>4, <4>1
    <3>2. CASE \E e \in events : e.op = "use" /\ o[1] \in e.random
      <4>1. PICK e \in uses : TRUE
        BY <3>2 DEF On, uses
      <4>2. Cardinality(uses) >= 1
        BY <2>3, <4>1, AtLeast
      <4> QED
        BY <2>2, <2>4, <4>2
    <3> QED
      BY <1>1, <2>9, <3>1, <3>2
  <2> QED
    BY <2>7, <2>8, <2>9 DEF Counted
<1>4. ASSUME NEW o \in seen', ~Alive(o[1])
      PROVE  Sole(o)'
  <2>1. ASSUME NEW other \in seen', other[1] = o[1], OnRecord(other)'
        PROVE  Old(other)
    BY <1>1, <1>4, <2>1
  <2>2. FreshUse(o)' => o \in seen /\ FreshUse(o)
    BY <1>1, <1>4
  <2>3. o \in seen => Sole(o)
    BY <1>4
  <2> QED
    BY <2>1, <2>2, <2>3 DEF Sole
<1> QED
  BY <1>2, <1>3, <1>4

(* A known operand that lets a gate pass one of its operands on makes it a *)
(* wire.                                                                   *)
LEMMA PassesRoute ==
    ASSUME NEW gate \in BinaryGates, NEW other, NEW op, Passes(gate, other, op)
    PROVE  \E v \in Bit : Routes(gate, v) /\ (is_control(other, v) \/ is_control(op, v))
<1>1. Routes("AND", 0) /\ Routes("AND", 1) /\ Routes("OR", 0) /\ Routes("OR", 1) /\ Routes("XOR", 0)
  BY DEF Routes, Truth
<1>2. gate = "AND" \/ gate = "OR" \/ gate = "XOR"
  BY DEF BinaryGates
<1> QED
  BY <1>1, <1>2 DEF Passes, neutral, absorb, Bit

(* A gate that computes on its operands leaks the randoms of them all.     *)
LEMMA ObservedLeaks ==
    ASSUME net \in Netlists, NextWire \in Wires \ net.inner, Computes(NextWire),
           NEW i \in DOMAIN Fanin(NextWire)
    PROVE  i \in DOMAIN WireLeaks /\ WireLeaks[i] = Op(i)
<1> DEFINE kind == Kind(NextWire)
<1>1. DOMAIN Fanin(NextWire) = 1..Arity(kind) \/ kind = "gadget"
  BY NetlistTypes
<1>2. CASE kind = "NOT"
  <2>1. i \in 1..1
    BY <1>1, <1>2 DEF Arity, InputKinds, BinaryGates
  <2>2. WireLeaks = <<Op(1)>>
    BY <1>2 DEF WireLeaks, BinaryGates
  <2> QED
    BY <2>1, <2>2
<1>3. CASE kind \in BinaryGates
  <2>1. i \in 1..2
    BY <1>1, <1>3 DEF Arity, InputKinds, BinaryGates
  <2>2. \A v \in Bit : Routes(kind, v) => ~is_control(Op(1), v) /\ ~is_control(Op(2), v)
    <3>1. \A j \in 1..2 : \A v \in Bit : is_control(Op(j), v) => ~Routes(kind, v)
      BY <1>3 DEF Computes, Op, BinaryGates
    <3> QED
      BY <3>1
  <2>3. ~Passes(kind, Op(1), Op(2)) /\ ~Passes(kind, Op(2), Op(1))
    <3> HIDE DEF kind
    <3> QED
      BY <1>3, <2>2, PassesRoute
  <2>4. WireLeaks = <<Op(1), Op(2)>>
    BY <1>3, <2>3 DEF WireLeaks, BinaryLeaks, BinaryGates
  <2> QED
    BY <2>1, <2>4
<1>4. CASE kind = "MUX"
  <2>1. i \in 1..3
    BY <1>1, <1>4 DEF Arity, InputKinds, BinaryGates
  <2>2. ~is_control(Op(3), 0) /\ ~is_control(Op(3), 1)
    BY <1>4 DEF Computes, Op, BinaryGates, Bit
  <2>3. WireLeaks = <<Op(1), Op(2), Op(3)>>
    BY <1>4, <2>2 DEF WireLeaks, MuxLeaks, BinaryGates
  <2> QED
    BY <2>1, <2>3
<1> QED
  BY <1>2, <1>3, <1>4 DEF Computes

(* An evaluation leaks the randoms that it observes.                       *)
LEMMA FreshEval ==
    ASSUME DepInv, TrackInv, FreshInv, AuditEval
    PROVE  FreshInv'
<1>1. PICK res : /\ IsResult(res)
                 /\ Evaluated(res) \/ \E why \in Panics \ {"untracked"} : GadgetPanic(why)
  BY AuditedStates, EvalResult DEF AuditEval
<1>2. /\ Evaluating /\ pc = "eval" /\ verdict = "running" /\ net' = net /\ cycle' = cycle
      /\ past' = past /\ seen' = seen \cup GateObservations /\ busy' = busy
  BY <1>1 DEF AuditEval, EvalWire, EvalTie, EvalPort, EvalUnary, EvalBinary, EvalMux, EvalDff,
              EvalGadget, Evaluating, Evaluated, GadgetPanic
<1>3. /\ net \in Netlists /\ cycle \in Nat /\ Windows /\ AllAlive /\ Depth \in Nat
      /\ NextWire \in Wires
  BY <1>2, DepthIs DEF DepInv, TrackInv, InCycle, Evaluating
<1>4. CASE \E why \in Panics \ {"untracked"} : GadgetPanic(why)
  <2>1. verdict' # "running"
    BY <1>4 DEF GadgetPanic, Panics
  <2> QED
    BY <2>1 DEF FreshInv
<1>5. CASE Evaluated(res)
  <2>1. /\ IsFiniteSet(WireEvents)
        /\ \A e \in WireEvents : \A r \in e.random : Alive(r)
    BY <1>1, <1>2, <1>3, AuditedStates, WireEventsAlive
  <2>2. Tracked(WireEvents)
    BY <1>3, <2>1, AliveInWindow DEF Tracked
  <2>3. /\ trks' = [p \in Ports |-> Recorded(trks[p], p, WireEvents)]
        /\ pc' \in {"eval", "finish"}
    BY <1>2, <1>5, <2>2 DEF Evaluated
  <2>4. InCycle /\ InCycle' /\ LastFinished' = LastFinished /\ LastChecked' = LastChecked
    BY <1>2, <2>3 DEF InCycle, LastFinished, LastChecked
  <2>5. /\ \A o : OnRecord(o)' <=> OnRecord(o)
        /\ \A o : FreshUse(o)' <=> FreshUse(o)
    <3>1. \A o : OnRecord(o)' <=> OnRecord(o)
      BY <1>2, <2>4, SameRecord
    <3> QED
      BY <1>2, <3>1 DEF FreshUse
  <2>6. \A w : \A i \in 0..Depth : i >= 1 => At(w, i)' = At(w, i)
    BY <1>2 DEF At
  <2>7. \A r : Alive(r)' <=> Alive(r)
    BY <1>2, <1>3, <2>1, <2>3, RecordingEffect
  <2>8. ASSUME NEW o \in GateObservations
        PROVE  /\ o = <<o[1], "gate", NextWire, o[4], cycle>> /\ Alive(o[1])
               /\ \E e \in WireEvents : e.op = "leak" /\ o[1] \in e.random /\ e.by = o[4]
    <3>1. PICK i \in DOMAIN Fanin(NextWire) :
            /\ NextWire \notin net.inner /\ Computes(NextWire)
            /\ \E r \in Op(i).random : o = <<r, "gate", NextWire, i, cycle>>
      BY DEF GateObservations
    <3>2. /\ i \in DOMAIN WireLeaks /\ o[1] \in WireLeaks[i].random
          /\ o = <<o[1], "gate", NextWire, o[4], cycle>> /\ o[4] = i
      BY <1>3, <3>1, ObservedLeaks
    <3>3. Event("leak", WireLeaks[i], i) \in WireEvents
      BY <3>2 DEF WireEvents
    <3>4. PICK e \in WireEvents : e = Event("leak", WireLeaks[i], i)
      BY <3>3
    <3>5. e.op = "leak" /\ o[1] \in e.random /\ e.by = o[4]
      BY <3>2, <3>4 DEF Event
    <3> QED
      BY <2>1, <3>2, <3>5
  <2>9. ASSUME NEW o \in seen'
        PROVE  IsObservation(o)'
    <3>1. CASE o \in GateObservations
      <4>1. o[1] \in RandomIds /\ o[1][2] <= cycle /\ o = <<o[1], "gate", NextWire, o[4], cycle>>
        BY <1>3, <2>8, <3>1, AliveInWindow DEF Alive
      <4>2. o[2] = "gate" /\ o = <<o[1], o[2], o[3], o[4], o[5]>>
        BY <4>1
      <4> QED
        BY <1>2, <4>1, <4>2 DEF IsObservation, RandomIds
    <3>2. CASE o \in seen
      <4>1. IsObservation(o)
        BY <1>2, <3>2 DEF FreshInv
      <4> QED
        BY <1>2, <2>4, <2>6, <4>1, SameReads, SameInputs DEF IsObservation, RandomIds
    <3> QED
      BY <1>2, <3>1, <3>2
  <2>10. AllObserved'
    <3>1. AllObserved
      BY <1>2 DEF FreshInv
    <3> QED
      BY <1>2, <2>4, <2>6, <3>1, SameReads, SameInputs DEF AllObserved
  <2>11. /\ \A o \in seen' : Alive(o[1])' => Counted(o)'
         /\ \A o \in seen' : ~Alive(o[1])' => Sole(o)'
    <3> DEFINE by == [o \in seen' |-> o[4]]
    <3>1. /\ \A o \in seen : Alive(o[1]) => Counted(o)
          /\ \A o \in seen : ~Alive(o[1]) => Sole(o)
      BY <1>2 DEF FreshInv
    <3>2. ASSUME NEW o, Newly(o)
          PROVE  o \in GateObservations /\ by[o] = o[4]
      BY <1>2, <2>5, <3>2 DEF Newly
    <3>3. ASSUME NEW o, Newly(o)
          PROVE  \E e \in WireEvents : e.op = "leak" /\ o[1] \in e.random /\ e.by = by[o]
      BY <2>8, <3>2, <3>3
    <3>4. ASSUME NEW o, NEW other, Newly(o), Newly(other), o[1] = other[1], o # other
          PROVE  by[o] # by[other]
      <4>1. /\ o = <<o[1], "gate", NextWire, o[4], cycle>> /\ by[o] = o[4]
            /\ other = <<other[1], "gate", NextWire, other[4], cycle>> /\ by[other] = other[4]
        BY <2>8, <3>2, <3>4
      <4> HIDE DEF by
      <4> QED
        BY <3>4, <4>1
    <3>5. ASSUME NEW o \in seen', FreshUse(o)'
          PROVE  o \in seen /\ FreshUse(o)
      <4>1. o \notin GateObservations
        BY <2>5, <2>8, <3>5 DEF FreshUse
      <4> QED
        BY <1>2, <2>5, <3>5, <4>1
    <3> HIDE DEF by
    <3>6. CountedBy(WireEvents, by)
      BY <3>3, <3>4, <3>5 DEF CountedBy
    <3> QED
      BY <1>2, <1>3, <2>1, <2>3, <3>1, <3>6, CountedKept
  <2>12. \A e \in busy' : e[2] + max_input_latency(e[1])' <= LastChecked' => Supplied(e)'
    <3>1. \A e \in busy : e[2] + max_input_latency(e[1]) <= LastChecked => Supplied(e)
      BY <1>2 DEF FreshInv
    <3> QED
      BY <1>2, <2>4, <3>1, SameSupply, SameInputs
  <2>13. pc' # "next"
    BY <2>3
  <2>14. \A o \in seen' : ~Refused(o)'
    <3>1. \A o \in seen : ~Refused(o)
      BY <1>2 DEF FreshInv, Pending
    <3>2. ASSUME NEW o \in GateObservations
          PROVE  ~Refused(o)
      <4>1. o = <<o[1], "gate", NextWire, o[4], cycle>>
        BY <2>8, <3>2
      <4>2. o[2] = "gate"
        BY <4>1
      <4> QED
        BY <4>2 DEF Refused
    <3> QED
      BY <1>2, <3>1, <3>2, SameRefused
  <2> QED
    BY <2>9, <2>10, <2>11, <2>12, <2>13, <2>14 DEF FreshInv
<1> QED
  BY <1>1, <1>4, <1>5

(* An execution is recorded as sensitive when its inputs arrive.           *)
LEMMA NewlyBusy ==
    ASSUME net \in Netlists, cycle \in Int, NEW e \in SensitiveExecs
    PROVE  e[1] \in Gadgets /\ e[2] \in Int /\ e[2] + max_input_latency(e[1]) >= cycle
<1>1. PICK g \in Gadgets : \E k \in GInputs(g) : e = <<g, cycle - GIn(g, k).lat>>
  BY DEF SensitiveExecs
<1>2. PICK k \in GInputs(g) : e = <<g, cycle - GIn(g, k).lat>>
  BY <1>1
<1>3. /\ GIn(g, k).lat \in Nat /\ max_input_latency(g) \in Nat
      /\ GIn(g, k).lat <= max_input_latency(g)
  BY InputLatencies
<1>4. e[1] = g /\ e[2] = cycle - GIn(g, k).lat
  BY <1>2
<1> QED
  BY <1>3, <1>4

(* The end of a cycle observes the randoms that gadgets receive, and       *)
(* records those of the executions that are now complete, whose states     *)
(* were remembered since.                                                  *)
LEMMA FreshFinish ==
    ASSUME DepInv, TrackInv, BubbleInv, BubbleInv', FreshInv, AuditFinish
    PROVE  FreshInv'
<1>1. /\ pc = "finish" /\ verdict = "running" /\ net' = net /\ cycle' = cycle
      /\ ws' = ws /\ past' = past
      /\ seen' = seen \cup GadgetObservations /\ busy' = busy \cup SensitiveExecs
  BY DEF AuditFinish, EvalFinish
<1>2. /\ net \in Netlists /\ cycle \in Nat /\ Windows /\ AllAlive /\ Len(ws) = Len(net.wires)
      /\ Depth \in Nat
  BY <1>1, DepthIs DEF TrackInv, InCycle, DepInv
<1>3. /\ IsFiniteSet(FinishEvents)
      /\ \A e \in FinishEvents : \A r \in e.random : Alive(r)
  BY <1>2, AuditedStates, FinishEventsFinite, FinishEventsAlive
<1>4. Tracked(FinishEvents)
  BY <1>2, <1>3, AliveInWindow DEF Tracked
<1>5. /\ trks' = [p \in Ports |-> Recorded(trks[p], p, FinishEvents)]
      /\ verdict' = "running" /\ pc' = "check"
  BY <1>1, <1>4 DEF AuditFinish, EvalFinish
<1>6. /\ InCycle /\ ~InCycle' /\ LastFinished = cycle - 1 /\ LastFinished' = cycle
      /\ LastChecked = cycle - 1 /\ LastChecked' = cycle - 1
  BY <1>1, <1>5 DEF InCycle, LastFinished, LastChecked
<1>7. \A w, i : At(w, i)' = At(w, i)
  BY <1>1 DEF At
<1>8. BusyInv'
  BY <1>5 DEF BubbleInv
<1>9. ASSUME NEW o \in GadgetObservations
      PROVE  /\ o = <<o[1], "gadget", o[3], o[4], cycle - GIn(o[3], o[4]).lat>>
             /\ o[3] \in Gadgets /\ o[4] \in GInputs(o[3]) /\ Alive(o[1])
             /\ o[1] \in At(GIn(o[3], o[4]).wire, 0).random
  <2>1. PICK g \in Gadgets : \E k \in GInputs(g) : \E r \in ws[GIn(g, k).wire].random :
          o = <<r, "gadget", g, k, cycle - GIn(g, k).lat>>
    BY DEF GadgetObservations
  <2>2. PICK k \in GInputs(g) : \E r \in ws[GIn(g, k).wire].random :
          o = <<r, "gadget", g, k, cycle - GIn(g, k).lat>>
    BY <2>1
  <2>3. PICK r \in ws[GIn(g, k).wire].random : o = <<r, "gadget", g, k, cycle - GIn(g, k).lat>>
    BY <2>2
  <2>4. o[1] = r /\ o[3] = g /\ o[4] = k
    BY <2>3
  <2>5. r \in At(GIn(g, k).wire, 0).random
    BY <2>3 DEF At
  <2>6. GIn(g, k).wire \in Wires /\ GIn(g, k).wire \notin net.inner /\ 0 \in 0..Depth
    BY <1>2, GInputIs
  <2>7. Alive(r)
    BY <1>2, <2>5, <2>6, AuditedStates, ReadAlive
  <2> QED
    BY <2>3, <2>4, <2>5, <2>7
<1>10. ASSUME NEW o \in seen'
       PROVE  IsObservation(o)'
  <2>1. CASE o \in GadgetObservations
    <3> DEFINE g == o[3]
               k == o[4]
    <3>1. /\ o[1] \in RandomIds /\ o[1][2] <= cycle /\ o[2] = "gadget" /\ g \in Gadgets
          /\ k \in GInputs(g) /\ o[5] = cycle - GIn(g, k).lat
          /\ o = <<o[1], o[2], o[3], o[4], o[5]>>
          /\ o[1] \in At(GIn(g, k).wire, 0).random
      <4>1. o = <<o[1], "gadget", g, k, cycle - GIn(g, k).lat>>
        BY <1>9, <2>1
      <4>2. Alive(o[1])
        BY <1>9, <2>1
      <4> QED
        BY <1>2, <1>9, <2>1, <4>1, <4>2, AliveInWindow DEF Alive
    <3> HIDE DEF g, k
    <3>2. GIn(g, k).lat \in Nat
      BY <1>2, <3>1, InputLatencies
    <3>3. /\ o[5] \in Int /\ o[5] + GIn(g, k).lat <= cycle
          /\ \A i : i = cycle - o[5] - GIn(g, k).lat => i = 0
      BY <1>2, <3>1, <3>2
    <3> QED
      BY <1>1, <1>6, <1>7, <3>1, <3>3, SameReads, SameInputs DEF IsObservation, RandomIds, g, k
  <2>2. CASE o \in seen
    <3>1. IsObservation(o)
      BY <1>1, <2>2 DEF FreshInv
    <3>2. CASE o[2] = "gate"
      BY <1>1, <3>1, <3>2 DEF IsObservation, RandomIds
    <3>3. CASE o[2] # "gate"
      <4> DEFINE g == o[3]
                 k == o[4]
      <4>1. /\ o[2] = "gadget" /\ g \in Gadgets /\ k \in GInputs(g) /\ o[5] \in Int
            /\ o[5] + GIn(g, k).lat <= cycle - 1
            /\ \A i \in 0..Depth : i >= 1 /\ i = cycle - o[5] - GIn(g, k).lat =>
                  o[1] \in At(GIn(g, k).wire, i).random
        BY <1>6, <3>1, <3>3 DEF IsObservation
      <4> HIDE DEF g, k
      <4>2. GIn(g, k).lat \in Nat
        BY <1>2, <4>1, InputLatencies
      <4>3. o[5] + GIn(g, k).lat <= cycle /\ cycle - o[5] - GIn(g, k).lat >= 1
        BY <1>2, <4>1, <4>2
      <4> QED
        BY <1>1, <1>6, <1>7, <3>1, <4>1, <4>3, SameReads, SameInputs
           DEF IsObservation, RandomIds, g, k
    <3> QED
      BY <3>2, <3>3
  <2> QED
    BY <1>1, <2>1, <2>2
<1>11. AllObserved'
  <2> SUFFICES ASSUME NEW g \in Gadgets, NEW k \in RndInputs(g), NEW i \in 0..Depth,
                      NEW r \in At(GIn(g, k).wire, i).random
               PROVE  <<r, "gadget", g, k, cycle - i - GIn(g, k).lat>> \in seen'
    BY <1>1, <1>7, SameReads, SameInputs DEF AllObserved
  <2>1. CASE i = 0
    <3>1. r \in ws[GIn(g, k).wire].random
      BY <2>1 DEF At
    <3>2. cycle - i - GIn(g, k).lat = cycle - GIn(g, k).lat
      <4>1. GIn(g, k).lat \in Nat
        BY <1>2, RndInputIs
      <4> QED
        BY <1>2, <2>1, <4>1
    <3>3. <<r, "gadget", g, k, cycle - GIn(g, k).lat>> \in GadgetObservations
      BY <3>1, RndInputIs, <1>2 DEF GadgetObservations
    <3> QED
      BY <1>1, <3>2, <3>3
  <2>2. CASE i # 0
    <3>1. i >= 1
      BY <1>2, <2>2
    <3> QED
      BY <1>1, <3>1 DEF FreshInv, AllObserved
  <2> QED
    BY <2>1, <2>2
<1>12. ASSUME NEW o, Newly(o)
       PROVE  /\ o = <<o[1], "gadget", o[3], o[4], cycle - max_input_latency(o[3])>>
              /\ \E e \in FinishEvents : e.op = "leak" /\ o[1] \in e.random /\ e.by = <<o[3], o[4]>>
              /\ FreshUse(o)' => \E e \in FinishEvents : e.op = "use" /\ o[1] \in e.random
  <2> DEFINE g == o[3]
             k == o[4]
             used == At(GIn(g, k).wire, rel_lat(g, k))
  <2>1. o[2] # "gate"
    <3>1. o[2] = "gate" => OnRecord(o) /\ o \notin GadgetObservations
      BY <1>9 DEF OnRecord
    <3> QED
      BY <1>1, <1>12, <3>1 DEF Newly
  <2>2. /\ o = <<o[1], o[2], g, k, o[5]>> /\ o[2] = "gadget"
        /\ g \in Gadgets /\ k \in RndInputs(g) /\ o[5] \in Int
        /\ \A i \in 0..Depth : i = cycle - o[5] - GIn(g, k).lat =>
              o[1] \in At(GIn(g, k).wire, i).random
    <3>1. IsObservation(o)'
      BY <1>10, <1>12 DEF Newly
    <3>2. k \in RndInputs(g)
      BY <1>1, <1>12, <2>1, SameReads DEF Newly, OnRecord
    <3> QED
      BY <1>1, <1>6, <1>7, <2>1, <3>1, <3>2, SameReads, SameInputs DEF IsObservation
  <2>3. /\ GIn(g, k).lat \in Nat /\ max_input_latency(g) \in Nat
        /\ GIn(g, k).lat <= max_input_latency(g) /\ rel_lat(g, k) \in 0..Depth
        /\ rel_lat(g, k) = max_input_latency(g) - GIn(g, k).lat
    BY <1>2, <2>2, RndInputIs
  <2>4. o[5] = cycle - max_input_latency(g)
    <3>1. o[5] + max_input_latency(g) <= cycle
      BY <1>1, <1>6, <1>12, <2>1, SameInputs DEF OnRecord, Newly
    <3>2. CASE o \in seen
      <4>1. ~(o[5] + max_input_latency(g) <= cycle - 1)
        BY <1>6, <1>12, <2>2, <3>2 DEF OnRecord, Newly
      <4>2. o[5] \in Int
        BY <2>2
      <4> HIDE DEF g, k
      <4> QED
        BY <1>2, <2>3, <3>1, <4>1, <4>2
    <3>3. CASE o \in GadgetObservations
      <4>1. o = <<o[1], "gadget", g, k, cycle - GIn(g, k).lat>>
        BY <1>9, <3>3
      <4>2. o[5] = cycle - GIn(g, k).lat
        BY <4>1
      <4> HIDE DEF g, k
      <4> QED
        BY <1>2, <2>2, <2>3, <3>1, <4>2
    <3>4. o \in seen \/ o \in GadgetObservations
      BY <1>1, <1>12 DEF Newly
    <3> HIDE DEF g, k
    <3> QED
      BY <3>2, <3>3, <3>4
  <2>5. o[1] \in used.random
    <3>1. rel_lat(g, k) = cycle - o[5] - GIn(g, k).lat
      <4> HIDE DEF g, k
      <4> QED
        BY <1>2, <2>2, <2>3, <2>4
    <3> QED
      BY <2>2, <2>3, <3>1
  <2>6. \A e : e \in RndEvents(g, k) => e \in FinishEvents
    BY <2>2 DEF FinishEvents, GadgetEvents
  <2>7. PICK e : e = Event("leak", used, <<g, k>>)
    OBVIOUS
  <2>8. e \in FinishEvents /\ e.op = "leak" /\ o[1] \in e.random /\ e.by = <<g, k>>
    <3>1. e \in RndEvents(g, k)
      BY <2>7 DEF RndEvents
    <3> QED
      BY <2>5, <2>6, <2>7, <3>1 DEF Event
  <2>9. ASSUME FreshUse(o)'
        PROVE  \E u \in FinishEvents : u.op = "use" /\ o[1] \in u.random
    <3>1. StageStatus(g, max_input_latency(g)).sensitive
      <4> DEFINE x == <<g, o[5]>>
      <4>1. x \in busy' /\ x[1] = g /\ x[2] = o[5]
        BY <2>9 DEF FreshUse
      <4> HIDE DEF x
      <4>2. x[2] + max_input_latency(x[1])' >= cycle'
        <5>1. o[5] + max_input_latency(g) >= cycle
          <6> HIDE DEF g
          <6> QED
            BY <1>2, <2>3, <2>4
        <5> QED
          BY <1>1, <4>1, <5>1, SameInputs
      <4>3. Remembered(x)'
        BY <1>8, <4>1, <4>2 DEF BusyInv
      <4>4. PICK j \in GInputs(g), i \in Nat :
              i = cycle - o[5] - GIn(g, j).lat /\ At(GIn(g, j).wire, i).sensitivity # {}
        BY <1>1, <1>7, <4>1, <4>3, SameInputs DEF Remembered
      <4>5. i = rel_lat(g, j)
        <5>1. GIn(g, j).lat \in Nat
          BY <1>2, <2>2, InputLatencies
        <5> HIDE DEF g
        <5> QED
          BY <1>2, <2>3, <2>4, <4>4, <5>1 DEF rel_lat
      <4> QED
        BY <1>2, <2>2, <4>4, <4>5, SensitiveStage
    <3>2. PICK u : u = Event("use", used, <<g, k>>)
      OBVIOUS
    <3>3. u \in RndEvents(g, k)
      BY <3>1, <3>2 DEF RndEvents
    <3> QED
      BY <2>5, <2>6, <3>2, <3>3 DEF Event
  <2>10. o = <<o[1], "gadget", o[3], o[4], cycle - max_input_latency(o[3])>>
    BY <2>2, <2>4
  <2> QED
    BY <2>8, <2>9, <2>10
<1>13. ASSUME NEW o \in seen, OnRecord(o), FreshUse(o)'
       PROVE  FreshUse(o)
  <2>1. o[2] = "gadget" /\ <<o[3], o[5]>> \in busy' /\ o[5] + max_input_latency(o[3]) <= cycle - 1
    BY <1>6, <1>13 DEF FreshUse, OnRecord
  <2>2. <<o[3], o[5]>> \notin SensitiveExecs
    <3> SUFFICES ASSUME <<o[3], o[5]>> \in SensitiveExecs
                 PROVE  FALSE
      OBVIOUS
    <3>1. o[3] \in Gadgets /\ o[5] \in Int /\ o[5] + max_input_latency(o[3]) >= cycle
      BY <1>2, NewlyBusy
    <3>2. max_input_latency(o[3]) \in Nat
      BY <1>2, <3>1, InputLatencies
    <3> QED
      BY <1>2, <2>1, <3>1, <3>2
  <2> QED
    BY <1>1, <1>13, <2>1, <2>2 DEF FreshUse
<1>14. /\ \A o \in seen' : Alive(o[1])' => Counted(o)'
       /\ \A o \in seen' : ~Alive(o[1])' => Sole(o)'
  <2> DEFINE by == [o \in seen' |-> <<o[3], o[4]>>]
  <2>1. /\ \A o \in seen : Alive(o[1]) => Counted(o)
        /\ \A o \in seen : ~Alive(o[1]) => Sole(o)
    BY <1>1 DEF FreshInv
  <2>2. ASSUME NEW o, Newly(o)
        PROVE  \E e \in FinishEvents : e.op = "leak" /\ o[1] \in e.random /\ e.by = by[o]
    <3>1. o \in seen'
      BY <2>2 DEF Newly
    <3> QED
      BY <1>12, <2>2, <3>1
  <2>3. ASSUME NEW o, NEW other, Newly(o), Newly(other), o[1] = other[1], o # other
        PROVE  by[o] # by[other]
    <3> o \in seen' /\ other \in seen'
      BY <2>3 DEF Newly
    <3>1. /\ o = <<o[1], "gadget", o[3], o[4], cycle - max_input_latency(o[3])>>
          /\ by[o] = <<o[3], o[4]>>
      BY <1>12, <2>3
    <3>2. /\ other = <<other[1], "gadget", other[3], other[4],
                       cycle - max_input_latency(other[3])>>
          /\ by[other] = <<other[3], other[4]>>
      BY <1>12, <2>3
    <3> HIDE DEF by
    <3>3. by[o] = by[other] => o[3] = other[3] /\ o[4] = other[4]
      BY <3>1, <3>2
    <3> QED
      BY <2>3, <3>1, <3>2, <3>3
  <2>4. ASSUME NEW o \in seen', FreshUse(o)'
        PROVE  \/ o \in seen /\ FreshUse(o)
               \/ \E e \in FinishEvents : e.op = "use" /\ o[1] \in e.random
    <3>1. OnRecord(o)'
      BY <2>4 DEF FreshUse
    <3> QED
      BY <1>12, <1>13, <2>4, <3>1 DEF Newly
  <2> HIDE DEF by
  <2>5. CountedBy(FinishEvents, by)
    BY <2>2, <2>3, <2>4 DEF CountedBy
  <2> QED
    BY <1>1, <1>2, <1>3, <1>5, <2>1, <2>5, CountedKept
<1>15. ASSUME NEW e \in busy', e[2] + max_input_latency(e[1]) <= cycle - 1
       PROVE  Supplied(e)'
  <2>1. e \in busy
    <3>1. e \notin SensitiveExecs
      <4> SUFFICES ASSUME e \in SensitiveExecs
                   PROVE  FALSE
        OBVIOUS
      <4>1. e[1] \in Gadgets /\ e[2] \in Int /\ e[2] + max_input_latency(e[1]) >= cycle
        BY <1>2, NewlyBusy
      <4>2. max_input_latency(e[1]) \in Nat
        BY <1>2, <4>1, InputLatencies
      <4> QED
        BY <1>2, <1>15, <4>1, <4>2
    <3> QED
      BY <1>1, <3>1
  <2>2. Supplied(e)
    BY <1>1, <1>6, <1>15, <2>1 DEF FreshInv
  <2> QED
    BY <1>1, <2>2, SameSupply
<1>16. \A e \in busy' : e[2] + max_input_latency(e[1])' <= LastChecked' => Supplied(e)'
  BY <1>1, <1>6, <1>15, SameInputs
<1>17. pc' # "next"
  BY <1>5
<1>18. ASSUME NEW o \in seen', Refused(o)'
       PROVE  Pending(o)'
  <2>1. Refused(o)
    BY <1>1, <1>18, SameRefused
  <2>2. o \in GadgetObservations
    BY <1>1, <1>18, <2>1 DEF FreshInv, Pending
  <2>3. o[1] \in ws[GIn(o[3], o[4]).wire].random
    BY <1>9, <2>2 DEF At
  <2> QED
    BY <1>1, <1>5, <2>3, SameInputs DEF Pending
<1> QED
  BY <1>10, <1>11, <1>14, <1>16, <1>17, <1>18 DEF FreshInv

(* Every step keeps FreshInv.                                              *)
LEMMA FreshStep ==
    ASSUME DepInv, TrackInv, BubbleInv, FreshInv, [AuditNext]_vars
    PROVE  FreshInv'
<1>1. CASE AuditFinish
  <2>1. BubbleInv'
    BY <1>1, BubbleFinish
  <2> QED
    BY <1>1, <2>1, FreshFinish
<1>2. CASE UNCHANGED vars
  <2>1. /\ UNCHANGED <<net, cycle, pc, verdict, ws, past, trks, seen, busy>>
    BY <1>2 DEF vars, simVars, auditVars
  <2>2. /\ InCycle' = InCycle /\ LastFinished' = LastFinished /\ LastChecked' = LastChecked
        /\ \A w, i : At(w, i)' = At(w, i)
        /\ \A r : St(r)' = St(r)
    BY <2>1 DEF InCycle, LastFinished, LastChecked, At, St
  <2>3. \A r : Alive(r)' <=> Alive(r)
    BY <2>1, <2>2 DEF Alive, RandomIds
  <2>4. \A o : OnRecord(o)' <=> OnRecord(o)
    BY <2>1, <2>2, SameRecord
  <2>5. \A o : FreshUse(o)' <=> FreshUse(o)
    BY <2>1, <2>4 DEF FreshUse
  <2>6. \A o : (Counted(o)' <=> Counted(o)) /\ (Sole(o)' <=> Sole(o))
    BY <2>1, <2>2, <2>4, <2>5 DEF Counted, Sole
  <2>7. \A o : IsObservation(o) => IsObservation(o)'
    BY <2>1, <2>2, SameReads, SameInputs DEF IsObservation, RandomIds
  <2>8. AllObserved => AllObserved'
    BY <2>1, <2>2, SameReads, SameInputs DEF AllObserved
  <2>9. \A e : Supplied(e) => Supplied(e)'
    BY <2>1, SameSupply
  <2>10. \A o : (Refused(o)' <=> Refused(o)) /\ (Pending(o)' <=> Pending(o))
    BY <2>1, SameRefused, SameInputs DEF Pending
  <2> QED
    BY <2>1, <2>2, <2>3, <2>6, <2>7, <2>8, <2>9, <2>10, SameInputs DEF FreshInv
<1> QED
  BY <1>1, <1>2, FreshStart, FreshEval, FreshCheck DEF AuditNext

(* In a run that passed, each execution of a gadget with a sensitive input *)
(* got on each randomness port, at its latency, a random bit that no gate, *)
(* no other randomness port or execution and no checked control input ever *)
(* observed: for any netlist and any number of cycles, although the leaks  *)
(* of an execution are deferred until its last input is there and the      *)
(* statuses of old randoms are thrown away in between.                     *)
THEOREM SensitiveExecutionsGetFreshRandoms == AuditSpec => []FreshRandomness
<1>1. ASSUME FreshInv, BubbleInv, DepInv
      PROVE  FreshRandomness
  <2> SUFFICES ASSUME Passed, NEW e \in busy, Complete(e[1], e[2]), NEW k \in RndInputs(e[1])
               PROVE  \E o \in GotAt(e, k) : \A other \in Others(o) : Unchecked(other)
    BY DEF FreshRandomness
  <2>1. /\ verdict = "running" /\ pc = "next" /\ LastFinished = cycle /\ LastChecked = cycle
        /\ BusyInv
    BY <1>1 DEF Passed, LastFinished, LastChecked, InCycle, BubbleInv
  <2>2. e = <<e[1], e[2]>> /\ e[2] + max_input_latency(e[1]) <= cycle
    BY <2>1 DEF BusyInv, Complete
  <2>3. Supplied(e)
    BY <1>1, <2>1, <2>2 DEF FreshInv
  <2>4. PICK o \in seen : <<o[2], o[3], o[4], o[5]>> = <<"gadget", e[1], k, e[2]>>
    BY <2>3 DEF Supplied
  <2>5. o[2] = "gadget" /\ o[3] = e[1] /\ o[4] = k /\ o[5] = e[2]
    BY <2>4
  <2>6. FreshUse(o)
    BY <2>1, <2>2, <2>5 DEF FreshUse, OnRecord
  <2>7. Sole(o)
    BY <1>1, <2>1 DEF FreshInv
  <2>8. ASSUME NEW other \in seen, other # o, other[1] = o[1], Observed(other)
        PROVE  Unchecked(other)
    <3>1. ~OnRecord(other)
      BY <2>6, <2>7, <2>8 DEF Sole
    <3>2. other[2] # "gate" /\ other[4] \notin RndInputs(other[3])
      BY <2>1, <2>8, <3>1 DEF Observed, Complete, OnRecord
    <3>3. other[2] = "gadget" /\ other[3] \in Gadgets /\ other[4] \in GInputs(other[3])
      BY <1>1, <2>1, <3>2 DEF FreshInv, IsObservation
    <3>4. GIn(other[3], other[4]).role \in {"share", "control"}
      BY <1>1, <3>2, <3>3, GInputIs DEF RndInputs, DepInv
    <3>5. ~Refused(other)
      BY <1>1, <2>1 DEF FreshInv, Pending
    <3> QED
      BY <3>3, <3>4, <3>5 DEF Unchecked, Refused
  <2> QED
    BY <2>4, <2>8 DEF GotAt, Others
<1>2. AuditInit => BubbleInv /\ FreshInv /\ TrackInv
  BY BubbleInit, FreshInit, TrackedInit
<1>3. DepInv /\ BubbleInv /\ FreshInv /\ TrackInv /\ [AuditNext]_vars
        => BubbleInv' /\ FreshInv' /\ TrackInv'
  BY BubbleStep, FreshStep, TrackedStep
<1> QED
  BY <1>1, <1>2, <1>3, AlwaysAudited, PTL DEF AuditSpec
-----------------------------------------------------------------------------
(* Types.  States carry randoms of the trace, whatever kept them.          *)
TypeInv ==
    /\ verdict \in {"running", "accepted", "rejected"} \cup Panics
    /\ cycle \in {NotStarted} \cup 0..NCycles
    /\ verdict = "running" => cycle < NCycles
    /\ \A w \in DOMAIN ws : ws[w].random \subseteq Randoms
    /\ \A k \in 1..Depth : \A w \in Wires : past[k][w].random \subseteq Randoms
    /\ \A p \in Ports : trks[p].offset \in Nat
    /\ lastNs \in Seq(Int) /\ Len(lastNs) <= NGadgets

(* The types hold initially,                                               *)
LEMMA TypesInit == AuditInit /\ TrackInv => TypeInv
<1> SUFFICES ASSUME AuditInit, TrackInv
             PROVE  TypeInv
  OBVIOUS
<1>1. /\ verdict = "running" /\ cycle = NotStarted /\ lastNs = <<>>
      /\ ws = x_state /\ past = [k \in 1..Depth |-> x_state]
  BY DEF AuditInit, Init
<1>2. cycle < NCycles
  BY <1>1, TraceAssumption DEF NotStarted
<1>3. \A w \in Wires : x_state[w].random = {}
  BY DEF x_state, control, nil
<1>4. DOMAIN ws = Wires
  BY <1>1 DEF x_state
<1>5. \A p \in Ports : trks[p].offset \in Nat
  BY <1>1 DEF TrackInv, Windows, Window
<1>6. lastNs \in Seq(Int) /\ Len(lastNs) = 0
  BY <1>1
<1> QED
  BY <1>1, <1>2, <1>3, <1>4, <1>5, <1>6, GadgetsAssumption DEF TypeInv

(* TypeInv holds after the start of a cycle.                               *)
LEMMA TypesStart ==
    ASSUME DepInv, TrackInv, TypeInv, AuditStart
    PROVE  TypeInv'
<1>1. /\ StartCycle /\ pc = "next" /\ verdict = "running" /\ net' = net /\ cycle' = cycle + 1
      /\ lastNs' = lastNs
  BY DEF AuditStart, StartCycle
<1>2. /\ net \in Netlists /\ cycle \in Nat \cup {NotStarted} /\ cycle' \in Nat /\ Windows
      /\ Depth \in Nat /\ Depth >= 1
  BY <1>1, DepthIs DEF DepInv, TrackInv, NotStarted
<1>3. \A p \in Ports : trks'[p].offset \in Nat
  <2>1. Windows'
    BY <1>1, <1>2, StatusesKept
  <2> QED
    BY <2>1 DEF Windows, Window
<1>4. Depth' = Depth /\ Wires' = Wires
  BY <1>1, SameNetlist
<1>5. cycle' \in 0..NCycles
  BY <1>1, <1>2, TraceAssumption DEF TypeInv, NotStarted
<1>6. CASE cycle' = NCycles
  <2>1. verdict' = "accepted" /\ ws' = ws /\ past' = past
    BY <1>1, <1>6 DEF StartCycle
  <2> QED
    BY <1>1, <1>3, <1>4, <1>5, <2>1 DEF TypeInv
<1>7. CASE cycle' # NCycles
  <2>1. verdict' = "running" /\ DOMAIN ws' = InputWires /\ past' = Shifted(ws, past)
    BY <1>1, <1>7 DEF StartCycle
  <2>2. cycle' < NCycles /\ cycle' \in Cycles
    BY <1>5, <1>7, TraceAssumption DEF Cycles
  <2>3. ASSUME NEW w \in DOMAIN ws', NEW r \in ws'[w].random
        PROVE  r \in Randoms
    <3>1. r \in RandomIds /\ r[2] = cycle'
      BY <1>1, <1>2, <1>7, <2>1, InputRandoms
    <3> QED
      BY <2>2, <3>1 DEF RandomIds, Randoms
  <2>4. past'[1] = ws /\ \A k \in 2..Depth : past'[k] = past[k - 1]
    <3>1. ws \in Seq(WireStates) /\ past \in Seq(Seq(WireStates)) /\ Len(past) = Depth
      BY DEF DepInv
    <3> QED
      BY <1>2, <2>1, <3>1, StatesShifted
  <2>5. \A w \in Wires : w \in DOMAIN ws
    <3>1. ws \in Seq(WireStates) /\ Len(ws) = Len(net.wires)
      BY <1>1 DEF DepInv
    <3> QED
      BY <3>1 DEF Wires
  <2>6. ASSUME NEW k \in 1..Depth, NEW w \in Wires
        PROVE  past'[k][w].random \subseteq Randoms
    <3>1. CASE k = 1
      BY <2>4, <2>5, <3>1 DEF TypeInv
    <3>2. CASE k # 1
      <4>1. k \in 2..Depth /\ k - 1 \in 1..Depth
        BY <1>2, <3>2
      <4> QED
        BY <2>4, <4>1 DEF TypeInv
    <3> QED
      BY <3>1, <3>2
  <2> QED
    BY <1>1, <1>3, <1>4, <1>5, <2>1, <2>2, <2>3, <2>6 DEF TypeInv
<1> QED
  BY <1>6, <1>7

(* TypeInv holds after a wire is evaluated.                                *)
LEMMA TypesEval ==
    ASSUME DepInv, TrackInv', TypeInv, AuditEval
    PROVE  TypeInv'
<1>1. PICK res : /\ IsResult(res)
                 /\ Evaluated(res) \/ \E why \in Panics \ {"untracked"} : GadgetPanic(why)
  BY AuditedStates, EvalResult DEF AuditEval
<1>2. /\ Evaluating /\ net' = net /\ cycle' = cycle /\ past' = past /\ lastNs' = lastNs
      /\ verdict = "running"
  BY <1>1 DEF AuditEval, EvalWire, EvalTie, EvalPort, EvalUnary, EvalBinary, EvalMux, EvalDff,
              EvalGadget, Evaluating, Evaluated, GadgetPanic
<1>3. net \in Netlists /\ NextWire \in Wires /\ ws \in Seq(WireStates) /\ NextWire = Len(ws) + 1
  BY <1>2 DEF DepInv, Evaluating, NextWire
<1>4. Depth' = Depth /\ Wires' = Wires /\ Depth \in Nat /\ Depth >= 1
  BY <1>2, <1>3, SameNetlist, DepthIs
<1>5. \A p \in Ports : trks'[p].offset \in Nat
  <2>1. CASE verdict' = "running"
    BY <2>1 DEF TrackInv, Windows, Window
  <2>2. CASE verdict' # "running"
    <3>1. trks' = trks
      BY <1>1, <1>2, <2>2 DEF Evaluated, GadgetPanic
    <3> QED
      BY <3>1 DEF TypeInv
  <2> QED
    BY <2>1, <2>2
<1>6. verdict' \in {"running", "accepted", "rejected"} \cup Panics
  BY <1>1, <1>2 DEF Evaluated, GadgetPanic, Panics
<1>7. res.random \subseteq Randoms
  <2>1. CASE Kind(NextWire) \in CombKinds \cup {"port"}
    <3> DEFINE n == Arity(Kind(NextWire))
    <3>1. GateResult(res, n)
      BY <1>1, <2>1 DEF IsResult, CombKinds, BinaryGates
    <3>2. ASSUME NEW i \in 1..n
          PROVE  Op(i).random \subseteq Randoms
      <4>1. Fanin(NextWire)[i] \in 1..(NextWire - 1)
        BY <1>3, <2>1, FaninBefore
      <4>2. Fanin(NextWire)[i] \in DOMAIN ws
        BY <1>3, <4>1
      <4> QED
        BY <4>2 DEF Op, TypeInv
    <3> QED
      BY <3>1, <3>2 DEF GateResult, Combines
  <2>2. CASE Kind(NextWire) = "DFF"
    <3>1. res.random = past[1][Fanin(NextWire)[1]].random
      BY <1>1, <2>2 DEF IsResult, CombKinds, BinaryGates
    <3>2. Fanin(NextWire) \in Seq(Wires) /\ Len(Fanin(NextWire)) = 1
      BY <1>3, <2>2, NetlistTypes DEF Arity, InputKinds, BinaryGates
    <3>3. Fanin(NextWire)[1] \in Wires /\ 1 \in 1..Depth
      BY <1>4, <3>2
    <3> QED
      BY <3>1, <3>3 DEF TypeInv
  <2>3. CASE Kind(NextWire) \notin CombKinds \cup {"port", "DFF"}
    BY <1>1, <2>3 DEF IsResult
  <2> QED
    BY <2>1, <2>2, <2>3
<1>8. \A w \in DOMAIN ws' : ws'[w].random \subseteq Randoms
  <2>1. CASE ws' = ws
    BY <2>1 DEF TypeInv
  <2>2. CASE ws' = Append(ws, res)
    <3>1. /\ \A u \in DOMAIN ws : ws'[u] = ws[u]
          /\ ws'[NextWire] = res /\ DOMAIN ws' = DOMAIN ws \cup {NextWire}
      BY <1>3, <2>2
    <3> QED
      BY <1>7, <3>1 DEF TypeInv
  <2> QED
    BY <1>1, <2>1, <2>2 DEF Evaluated, GadgetPanic
<1> QED
  BY <1>2, <1>4, <1>5, <1>6, <1>8 DEF TypeInv

(* Every step keeps TypeInv.                                               *)
LEMMA TypesStep ==
    DepInv /\ TrackInv /\ TrackInv' /\ TypeInv /\ [AuditNext]_vars => TypeInv'
<1> SUFFICES ASSUME DepInv, TrackInv, TrackInv', TypeInv, [AuditNext]_vars
             PROVE  TypeInv'
  OBVIOUS
<1>1. CASE AuditFinish
  <2>1. /\ pc = "finish" /\ verdict = "running" /\ net' = net /\ cycle' = cycle
        /\ ws' = ws /\ past' = past /\ verdict' \in {"running", "untracked"}
        /\ \/ trks' = trks /\ lastNs' = lastNs
           \/ verdict' = "running" /\ lastNs' = ExtendedLastNs
    BY <1>1 DEF AuditFinish, EvalFinish
  <2>2. \A p \in Ports : trks'[p].offset \in Nat
    BY <2>1 DEF TrackInv, TypeInv, Windows, Window
  <2>3. lastNs' \in Seq(Int) /\ Len(lastNs') <= NGadgets
    <3>1. net \in Netlists /\ cycle \in Int /\ lastNs \in Seq(Int) /\ Len(lastNs) <= NGadgets
      BY DEF DepInv, TypeInv
    <3>2. Len(net.gadgets) <= NGadgets /\ NGadgets \in Nat
      BY <3>1, NetlistsAssumption, GadgetsAssumption
    <3> QED
      BY <2>1, <3>1, <3>2, ExtendedIs
  <2>4. Depth' = Depth /\ Wires' = Wires
    BY <2>1, SameNetlist
  <2> QED
    BY <2>1, <2>2, <2>3, <2>4 DEF TypeInv, Panics
<1>2. CASE AuditCheck
  <2>1. /\ UNCHANGED <<net, cycle, ws, past, trks, lastNs>>
        /\ verdict = "running" /\ verdict' \in {"rejected", "running", "unindexed"}
    BY <1>2 DEF AuditCheck, CheckCycle, Outcomes
  <2>2. Depth' = Depth /\ Wires' = Wires
    BY <2>1, SameNetlist
  <2> QED
    BY <2>1, <2>2 DEF TypeInv, Panics
<1>3. CASE UNCHANGED vars
  <2>1. UNCHANGED <<net, cycle, ws, past, trks, lastNs, verdict>>
    BY <1>3 DEF vars, simVars
  <2>2. Depth' = Depth /\ Wires' = Wires
    BY <2>1, SameNetlist
  <2> QED
    BY <2>1, <2>2 DEF TypeInv
<1> QED
  BY <1>1, <1>2, <1>3, TypesStart, TypesEval DEF AuditNext

(* The types of the simulator's state: cycles of the trace, states of      *)
(* wires that carry its randoms only and name executions by a cycle that   *)
(* is not negative, windows that never start below cycle 0, and            *)
(* last_nonsensitive_exec no longer than there are gadgets.                *)
THEOREM SimulatorTypes == AuditSpec => []TypeOK
<1>1. DepInv /\ ConeInv /\ BubbleInv /\ TypeInv => TypeOK
  <2> SUFFICES ASSUME DepInv, ConeInv, BubbleInv, TypeInv
               PROVE  TypeOK
    OBVIOUS
  <2>1. \A w \in DOMAIN ws : ws[w] \in AnyWireState
    BY DEF DepInv, Audited, WellFormed, WireStates, AnyWireState, ExecIds, TypeInv
  <2> QED
    BY <2>1 DEF TypeOK, DepInv, ConeInv, BubbleInv, TypeInv
<1> QED
  BY <1>1, AlwaysAudited, BubbleInit, BubbleStep, ConeInit, ConeKept, TrackedInit, TrackedStep,
     TypesInit, TypesStep, PTL DEF AuditSpec

-----------------------------------------------------------------------------
(* The simulator beside two executions of the circuit (TwinRun): what it   *)
(* says of a wire holds of the circuit, for every netlist without gadgets, *)
(* every trace of any length, and whatever differs between the executions. *)

(* A wire state agrees with the values of its wire in the two executions.  *)
Agrees(w, u, v, shares, randoms, counts) ==
    /\ WellFormed(w) /\ u \in Bit /\ v \in Bit /\ Known(w, u, v)
    /\ randoms = {} => Senses(w, u, v, shares)
    /\ shares = {} => \A r \in randoms : Carries(w, u, v, r, counts[r])

(* The inductive invariant: the states of the wires of this cycle and of   *)
(* the last one, which registers take over, agree with the executions.     *)
IndInv ==
    /\ net \in Netlists /\ cycle \in Int
    /\ diffRandoms \subseteq Randoms /\ \A r, s \in diffRandoms : r = s
    /\ leaks \in [Randoms -> Nat]
    /\ ws \in Seq(WireStates) /\ a \in Seq(Bit) /\ b \in Seq(Bit) /\ past \in Seq(Seq(WireStates))
    /\ Len(past) = Depth
    /\ verdict = "running" =>
          /\ Len(a) = Len(ws) /\ Len(b) = Len(ws)
          /\ pc # "eval" => Len(ws) = Len(net.wires)
    /\ \A w \in DOMAIN ws : Agrees(ws[w], a[w], b[w], diffShares, diffRandoms, leaks)
    /\ \A w \in Wires : Agrees(past[1][w], lastA[w], lastB[w], diffShares, diffRandoms, leaks)

-----------------------------------------------------------------------------
(* No cell is an output of a gadget, and no wire is inside of one.         *)
LEMMA NoGadgets ==
    ASSUME net \in Netlists
    PROVE  /\ net.gadgets = <<>> /\ net.inner = {} /\ Depth = 1
           /\ \A w \in Wires :
                 /\ Kind(w) \in InputKinds \cup CombKinds \cup {"tie", "port", "DFF"}
                 /\ Fanin(w) \in Seq(Wires) /\ Len(Fanin(w)) = Arity(Kind(w))
<1>1. net.gadgets = <<>> /\ net.inner = {} /\ Gadgets = {}
  BY TwinAssumption DEF Gadgets
<1>2. \A w \in Wires : Kind(w) # "gadget"
  BY <1>1, NetlistTypes
<1>3. Depth = 1
  <2>1. {1} \cup {max_latency(g) : g \in Gadgets} = {1}
    BY <1>1
  <2>2. Max({1}) = 1
    BY LargestIs
  <2> QED
    BY <2>1, <2>2 DEF Depth
<1> QED
  BY <1>1, <1>2, <1>3, NetlistTypes

-----------------------------------------------------------------------------
(* Truth tables give bits.                                                 *)
LEMMA TruthType ==
    ASSUME NEW gate \in BinaryGates, NEW u \in Bit, NEW v \in Bit
    PROVE  Truth(gate, u, v) \in Bit
BY DEF Truth, BinaryGates, Bit

(* What is said of a wire stays true when randoms are leaked again.        *)
LEMMA MoreLeaks ==
    ASSUME NEW w, NEW u, NEW v, NEW shares, NEW randoms \in SUBSET Randoms,
           NEW counts \in [Randoms -> Nat], NEW more \in [Randoms -> Nat],
           \A r \in Randoms : counts[r] <= more[r],
           Agrees(w, u, v, shares, randoms, counts)
    PROVE  Agrees(w, u, v, shares, randoms, more)
<1>1. ASSUME NEW r \in randoms, Carries(w, u, v, r, counts[r])
      PROVE  Carries(w, u, v, r, more[r])
  <2>1. counts[r] \in Nat /\ more[r] \in Nat /\ counts[r] <= more[r]
    OBVIOUS
  <2>2. (more[r] = 0 => counts[r] = 0) /\ (more[r] <= 1 => counts[r] <= 1)
    BY <2>1
  <2> QED
    BY <1>1, <2>2 DEF Carries
<1> QED
  BY <1>1 DEF Agrees

(* What the circuit and the simulator do for each kind of wire.            *)
LEMMA DrivenIs ==
    ASSUME NEW w, NEW now, NEW before
    PROVE  /\ Kind(w) = "tie" => Driven(w, now, before) = net.wires[w].id
           /\ Kind(w) \in {"BUF", "port"} => Driven(w, now, before) = now[Fanin(w)[1]]
           /\ Kind(w) = "NOT" => Driven(w, now, before) = 1 - now[Fanin(w)[1]]
           /\ Kind(w) \in BinaryGates =>
                 Driven(w, now, before) = Truth(Kind(w), now[Fanin(w)[1]], now[Fanin(w)[2]])
           /\ Kind(w) = "MUX" =>
                 Driven(w, now, before) =
                    IF now[Fanin(w)[3]] = 0 THEN now[Fanin(w)[1]] ELSE now[Fanin(w)[2]]
           /\ Kind(w) = "DFF" => Driven(w, now, before) = before[Fanin(w)[1]]
BY DEF Driven, BinaryGates

(* What the evaluation of a cell leaks, by its kind.                       *)
LEMMA LeaksBy ==
    ASSUME NextWire \notin net.inner
    PROVE  /\ Kind(NextWire) \in {"tie", "BUF", "port", "DFF"} => WireLeaks = <<>>
           /\ Kind(NextWire) = "NOT" => WireLeaks = <<Op(1)>>
           /\ Kind(NextWire) \in BinaryGates =>
                 WireLeaks = BinaryLeaks(Kind(NextWire), Op(1), Op(2))
           /\ Kind(NextWire) = "MUX" => WireLeaks = MuxLeaks(Op(1), Op(2), Op(3))
BY DEF WireLeaks, BinaryGates

(* The leaks of a random, counted among the operands that a cell leaks.    *)
LEMMA LeaksAre ==
    ASSUME NEW ops, WireLeaks = ops, NEW r
    PROVE  LeaksOf(r) = LeakedBy(ops, r)
BY DEF LeaksOf, LeakedBy

(* A cell that records nothing leaks nothing.                              *)
LEMMA NoLeaks ==
    ASSUME WireLeaks = <<>>, NEW r
    PROVE  LeaksOf(r) = 0
BY FS_EmptySet DEF LeaksOf

(* The operands of a gate.                                                 *)
LEMMA Operands ==
    ASSUME IndInv, Evaluating, Kind(NextWire) \in CombKinds \cup {"port"},
           NEW i \in 1..Arity(Kind(NextWire))
    PROVE  /\ Op(i) = ws[Fanin(NextWire)[i]]
           /\ Agrees(Op(i), a[Fanin(NextWire)[i]], b[Fanin(NextWire)[i]],
                     diffShares, diffRandoms, leaks)
<1>1. net \in Netlists /\ NextWire \in Wires /\ ws \in Seq(WireStates)
  BY DEF IndInv, Evaluating
<1>2. Fanin(NextWire)[i] \in 1..(NextWire - 1)
  BY <1>1, FaninBefore
<1>3. Fanin(NextWire)[i] \in DOMAIN ws
  BY <1>1, <1>2 DEF NextWire
<1> QED
  BY <1>3 DEF IndInv, Op

(* A cell leaks a random a finite number of times.                         *)
LEMMA LeakTypes ==
    ASSUME net \in Netlists, NextWire \in Wires, NEW r
    PROVE  LeaksOf(r) \in Nat
<1>1. /\ NextWire \notin net.inner
      /\ Kind(NextWire) \in InputKinds \cup CombKinds \cup {"tie", "port", "DFF"}
  BY NoGadgets
<1>2. \E len \in Nat : DOMAIN WireLeaks = 1..len
  <2>1. CASE Kind(NextWire) \in {"tie", "BUF", "port", "DFF"}
    <3>1. DOMAIN WireLeaks = 1..0
      BY <1>1, <2>1, LeaksBy
    <3> QED
      BY <3>1
  <2>2. CASE Kind(NextWire) \in InputKinds
    <3>1. WireLeaks = <<>>
      BY <1>1, <2>2 DEF WireLeaks, InputKinds, BinaryGates
    <3>2. DOMAIN WireLeaks = 1..0
      BY <3>1
    <3> QED
      BY <3>2
  <2>3. CASE Kind(NextWire) = "NOT"
    <3>1. DOMAIN WireLeaks = 1..1
      BY <1>1, <2>3, LeaksBy
    <3> QED
      BY <3>1
  <2>4. CASE Kind(NextWire) \in BinaryGates
    <3>1. WireLeaks = BinaryLeaks(Kind(NextWire), Op(1), Op(2))
      BY <1>1, <2>4, LeaksBy
    <3>2. DOMAIN WireLeaks = DOMAIN BinaryLeaks(Kind(NextWire), Op(1), Op(2))
      BY <3>1
    <3>3. DOMAIN WireLeaks = 1..0 \/ DOMAIN WireLeaks = 1..2
      BY <3>2 DEF BinaryLeaks
    <3> QED
      BY <3>3
  <2>5. CASE Kind(NextWire) = "MUX"
    <3>1. WireLeaks = MuxLeaks(Op(1), Op(2), Op(3))
      BY <1>1, <2>5, LeaksBy
    <3>2. DOMAIN WireLeaks = DOMAIN MuxLeaks(Op(1), Op(2), Op(3))
      BY <3>1
    <3>3. DOMAIN WireLeaks = 1..0 \/ DOMAIN WireLeaks = 1..3
      BY <3>2 DEF MuxLeaks
    <3> QED
      BY <3>3
  <2> QED
    BY <1>1, <2>1, <2>2, <2>3, <2>4, <2>5 DEF CombKinds
<1>3. PICK len \in Nat : DOMAIN WireLeaks = 1..len
  BY <1>2
<1>4. LeakedBy(WireLeaks, r) \in Nat
  BY <1>3, LeakFacts
<1> QED
  BY <1>4 DEF LeakedBy, LeaksOf

(* Each gate gives its output a state that agrees with what the circuit    *)
(* puts on it in both executions.                                          *)
LEMMA EvalAgrees ==
    ASSUME IndInv, TwinEval
    PROVE  \E res : /\ Evaluated(res)
                    /\ Agrees(res, Driven(NextWire, a, lastA), Driven(NextWire, b, lastB),
                              diffShares, diffRandoms, leaks')
<1> DEFINE kind == Kind(NextWire)
           f(i) == Fanin(NextWire)[i]
           u == Driven(NextWire, a, lastA)
           v == Driven(NextWire, b, lastB)
           Good(res) == Agrees(res, u, v, diffShares, diffRandoms, leaks')
<1>1. /\ net \in Netlists /\ NextWire \in Wires /\ NextWire \notin net.inner /\ Evaluating
      /\ diffRandoms \in SUBSET Randoms /\ leaks \in [Randoms -> Nat]
  <2>1. Evaluating
    BY DEF TwinEval, EvalWire, EvalTie, EvalPort, EvalUnary, EvalBinary, EvalMux, EvalDff, EvalGadget
  <2> QED
    BY <2>1, NoGadgets DEF IndInv, Evaluating
<1>2. \A r \in Randoms : LeaksOf(r) \in Nat /\ leaks'[r] = leaks[r] + LeaksOf(r)
  BY <1>1, LeakTypes DEF TwinEval
<1>3. leaks' \in [Randoms -> Nat] /\ \A r \in Randoms : leaks[r] <= leaks'[r]
  <2>1. leaks' = [r \in Randoms |-> leaks[r] + LeaksOf(r)]
    BY DEF TwinEval
  <2> QED
    BY <1>1, <1>2, <2>1
<1> HIDE DEF u, v
<1>4. ASSUME EvalTie
      PROVE  \E res : Evaluated(res) /\ Good(res)
  <2> DEFINE val == net.wires[NextWire].id
  <2>1. kind = "tie" /\ Evaluated(with_value(control, val)) /\ val \in Bit
    BY <1>1, <1>4, NetlistTypes DEF EvalTie
  <2>2. u = val /\ v = val
    BY <2>1, DrivenIs DEF u, v
  <2>3. WellFormed(with_value(control, val)) /\ with_value(control, val).value = val
    BY <2>1, ControlState DEF with_value, WellFormed, WireStates, Consistent
  <2>4. with_value(control, val).random = {}
    BY DEF with_value, control, nil
  <2>5. Good(with_value(control, val))
    BY <2>1, <2>2, <2>3, <2>4 DEF Agrees, Known, Senses, Carries
  <2> QED
    BY <2>1, <2>5
<1>5. ASSUME kind \in {"BUF", "port"}, Evaluated(Op(1))
      PROVE  \E res : Evaluated(res) /\ Good(res)
  <2>1. kind \in CombKinds \cup {"port"} /\ 1 \in 1..Arity(kind)
    BY <1>5 DEF CombKinds, Arity, InputKinds
  <2>2. Agrees(Op(1), a[f(1)], b[f(1)], diffShares, diffRandoms, leaks)
    BY <1>1, <2>1, Operands
  <2>3. u = a[f(1)] /\ v = b[f(1)]
    BY <1>5, DrivenIs DEF u, v
  <2>4. Good(Op(1))
    BY <1>1, <1>3, <2>2, <2>3, MoreLeaks
  <2> QED
    BY <1>5, <2>4
<1>6. ASSUME kind = "NOT", Evaluated(negate(Op(1)))
      PROVE  \E res : Evaluated(res) /\ Good(res)
  <2>1. kind \in CombKinds \cup {"port"} /\ 1 \in 1..Arity(kind)
    BY <1>6 DEF CombKinds, Arity, InputKinds
  <2>2. Agrees(Op(1), a[f(1)], b[f(1)], diffShares, diffRandoms, leaks)
    BY <1>1, <2>1, Operands
  <2>3. u = 1 - a[f(1)] /\ v = 1 - b[f(1)]
    BY <1>6, DrivenIs DEF u, v
  <2>4. \A r \in Randoms : leaks'[r] = leaks[r] + LeakedBy(<<Op(1)>>, r)
    BY <1>1, <1>2, <1>6, LeaksBy, LeaksAre
  <2>5. u \in Bit /\ v \in Bit
    BY <2>2, <2>3 DEF Agrees, Bit
  <2>6. \A r \in diffRandoms : leaks[r] \in Nat /\ leaks'[r] = leaks[r] + LeakedBy(<<Op(1)>>, r)
    BY <1>1, <2>4
  <2>7. Good(negate(Op(1)))
    BY <2>2, <2>3, <2>5, <2>6, NegateSound DEF Agrees
  <2> QED
    BY <1>6, <2>7
<1>7. ASSUME EvalBinary
      PROVE  \E res : Evaluated(res) /\ Good(res)
  <2> DEFINE res == BinarySim(kind, Op(1), Op(2))
             counts(r) == LeakedBy(BinaryLeaks(kind, Op(1), Op(2)), r)
  <2>1. kind \in BinaryGates /\ Evaluated(res)
    BY <1>7 DEF EvalBinary
  <2>2. kind \in CombKinds \cup {"port"} /\ 1 \in 1..Arity(kind) /\ 2 \in 1..Arity(kind)
    BY <2>1 DEF CombKinds, Arity, InputKinds, BinaryGates
  <2>3. /\ Agrees(Op(1), a[f(1)], b[f(1)], diffShares, diffRandoms, leaks)
        /\ Agrees(Op(2), a[f(2)], b[f(2)], diffShares, diffRandoms, leaks)
    BY <1>1, <2>2, Operands
  <2>4. u = Truth(kind, a[f(1)], a[f(2)]) /\ v = Truth(kind, b[f(1)], b[f(2)])
    BY <2>1, DrivenIs DEF u, v
  <2>5. \A r \in diffRandoms : leaks[r] \in Nat /\ leaks'[r] = leaks[r] + counts(r)
    BY <1>1, <1>2, <2>1, LeaksBy, LeaksAre
  <2>6. /\ a[f(1)] \in Bit /\ b[f(1)] \in Bit /\ a[f(2)] \in Bit /\ b[f(2)] \in Bit
        /\ WellFormed(Op(1)) /\ WellFormed(Op(2))
        /\ Known(Op(1), a[f(1)], b[f(1)]) /\ Known(Op(2), a[f(2)], b[f(2)])
    BY <2>3 DEF Agrees
  <2>7. u \in Bit /\ v \in Bit
    BY <2>1, <2>4, <2>6, TruthType
  <2>8. WellFormed(res)
    BY <2>1, <2>6, BinaryWellFormed
  <2>9. Known(res, u, v)
    BY <2>1, <2>4, <2>6, BinarySound
  <2>10. diffRandoms = {} => Senses(res, u, v, diffShares)
    <3>1. diffRandoms = {} => /\ Senses(Op(1), a[f(1)], b[f(1)], diffShares)
                              /\ Senses(Op(2), a[f(2)], b[f(2)], diffShares)
      BY <2>3 DEF Agrees
    <3> QED
      BY <2>1, <2>4, <2>6, <3>1, BinarySound
  <2>11. ASSUME diffShares = {}, NEW r \in diffRandoms
         PROVE  Carries(res, u, v, r, leaks'[r])
    <3>1. /\ Carries(Op(1), a[f(1)], b[f(1)], r, leaks[r])
          /\ Carries(Op(2), a[f(2)], b[f(2)], r, leaks[r])
      BY <2>3, <2>11 DEF Agrees
    <3>2. Carries(res, u, v, r, leaks[r] + counts(r))
      BY <2>1, <2>4, <2>5, <2>6, <3>1, BinaryCarries
    <3> QED
      BY <2>5, <3>2
  <2>12. Good(res)
    <3> HIDE DEF res
    <3> QED
      BY <2>7, <2>8, <2>9, <2>10, <2>11 DEF Agrees
  <2> QED
    BY <2>1, <2>12
<1>8. ASSUME EvalMux
      PROVE  \E res : Evaluated(res) /\ Good(res)
  <2> DEFINE res == MuxSim(Op(1), Op(2), Op(3))
             counts(r) == LeakedBy(MuxLeaks(Op(1), Op(2), Op(3)), r)
  <2>1. kind = "MUX" /\ Evaluated(res)
    BY <1>8 DEF EvalMux
  <2>2. /\ kind \in CombKinds \cup {"port"}
        /\ 1 \in 1..Arity(kind) /\ 2 \in 1..Arity(kind) /\ 3 \in 1..Arity(kind)
    BY <2>1 DEF CombKinds, Arity, InputKinds, BinaryGates
  <2>3. /\ Agrees(Op(1), a[f(1)], b[f(1)], diffShares, diffRandoms, leaks)
        /\ Agrees(Op(2), a[f(2)], b[f(2)], diffShares, diffRandoms, leaks)
        /\ Agrees(Op(3), a[f(3)], b[f(3)], diffShares, diffRandoms, leaks)
    BY <1>1, <2>2, Operands
  <2>4. u = Chosen(a[f(3)], a[f(1)], a[f(2)]) /\ v = Chosen(b[f(3)], b[f(1)], b[f(2)])
    BY <2>1, DrivenIs DEF u, v, Chosen
  <2>5. \A r \in diffRandoms : leaks[r] \in Nat /\ leaks'[r] = leaks[r] + counts(r)
    BY <1>1, <1>2, <2>1, LeaksBy, LeaksAre
  <2>6. /\ a[f(1)] \in Bit /\ b[f(1)] \in Bit /\ a[f(2)] \in Bit /\ b[f(2)] \in Bit
        /\ a[f(3)] \in Bit /\ b[f(3)] \in Bit
        /\ WellFormed(Op(1)) /\ WellFormed(Op(2)) /\ WellFormed(Op(3))
        /\ Known(Op(1), a[f(1)], b[f(1)]) /\ Known(Op(2), a[f(2)], b[f(2)])
        /\ Known(Op(3), a[f(3)], b[f(3)])
    BY <2>3 DEF Agrees
  <2>7. u \in Bit /\ v \in Bit
    BY <2>4, <2>6 DEF Chosen
  <2>8. WellFormed(res)
    BY <2>6, MuxWellFormed
  <2>9. Known(res, u, v)
    BY <2>4, <2>6, MuxSound
  <2>10. diffRandoms = {} => Senses(res, u, v, diffShares)
    <3>1. diffRandoms = {} => /\ Senses(Op(1), a[f(1)], b[f(1)], diffShares)
                              /\ Senses(Op(2), a[f(2)], b[f(2)], diffShares)
                              /\ Senses(Op(3), a[f(3)], b[f(3)], diffShares)
      BY <2>3 DEF Agrees
    <3> QED
      BY <2>4, <2>6, <3>1, MuxSound
  <2>11. ASSUME diffShares = {}, NEW r \in diffRandoms
         PROVE  Carries(res, u, v, r, leaks'[r])
    <3>1. /\ Carries(Op(1), a[f(1)], b[f(1)], r, leaks[r])
          /\ Carries(Op(2), a[f(2)], b[f(2)], r, leaks[r])
          /\ Carries(Op(3), a[f(3)], b[f(3)], r, leaks[r])
      BY <2>3, <2>11 DEF Agrees
    <3>2. Carries(res, u, v, r, leaks[r] + counts(r))
      BY <2>4, <2>5, <2>6, <3>1, MuxCarries
    <3> QED
      BY <2>5, <3>2
  <2>12. Good(res)
    <3> HIDE DEF res
    <3> QED
      BY <2>7, <2>8, <2>9, <2>10, <2>11 DEF Agrees
  <2> QED
    BY <2>1, <2>12
<1>9. ASSUME EvalDff
      PROVE  \E res : Evaluated(res) /\ Good(res)
  <2> DEFINE old == past[1][f(1)]
  <2>1. kind = "DFF" /\ Evaluated(stop_glitches(old)) /\ f(1) \in Wires
    <3>1. kind = "DFF" /\ Evaluated(stop_glitches(old))
      BY <1>9 DEF EvalDff
    <3>2. Fanin(NextWire) \in Seq(Wires) /\ Len(Fanin(NextWire)) = 1
      BY <1>1, <3>1, NetlistTypes DEF Arity, InputKinds, BinaryGates
    <3> QED
      BY <3>1, <3>2
  <2>2. Agrees(old, lastA[f(1)], lastB[f(1)], diffShares, diffRandoms, leaks)
    BY <2>1 DEF IndInv
  <2>3. u = lastA[f(1)] /\ v = lastB[f(1)]
    BY <2>1, DrivenIs DEF u, v
  <2>4. Agrees(old, u, v, diffShares, diffRandoms, leaks')
    BY <1>1, <1>3, <2>2, <2>3, MoreLeaks
  <2> HIDE DEF old
  <2>5. Good(stop_glitches(old))
    BY <2>4, RegisterSound DEF Agrees, Known, Senses, Carries
  <2> QED
    BY <2>1, <2>5
<1>10. ~EvalGadget
  BY <1>1, NoGadgets DEF EvalGadget, InputKinds, CombKinds, BinaryGates
<1>11. \E res : Evaluated(res) /\ Good(res)
  BY <1>4, <1>5, <1>6, <1>7, <1>8, <1>9, <1>10 DEF TwinEval, EvalWire, EvalPort, EvalUnary
<1> QED
  BY <1>11 DEF u, v

-----------------------------------------------------------------------------
(* Initially every wire is a control of unknown value.                     *)
LEMMA InitInv == TwinInit => IndInv
<1> SUFFICES ASSUME TwinInit
             PROVE  IndInv
  OBVIOUS
<1>1. net \in Netlists /\ net.gadgets = <<>> /\ Len(net.wires) \in Nat /\ Wires = 1..Len(net.wires)
  BY NoGadgets, NetlistTypes DEF TwinInit, Init, Wires
<1>2. /\ cycle = NotStarted /\ pc = "next" /\ ws = x_state /\ past = [k \in 1..Depth |-> x_state]
      /\ leaks = [r \in Randoms |-> 0] /\ b = a /\ lastA = a /\ lastB = a
      /\ diffRandoms \in {{}} \cup {{r} : r \in InputIds("random") \X Cycles}
  BY DEF TwinInit, Init
<1>3. PICK v \in Bit : a = [w \in Wires |-> v]
  BY DEF TwinInit
<1>4. Depth = 1
  BY <1>1, NoGadgets
<1>5. x_state \in [1..Len(net.wires) -> WireStates]
  BY <1>1, ControlState DEF x_state, WellFormed
<1>6. /\ ws \in Seq(WireStates) /\ Len(ws) = Len(net.wires)
      /\ past \in Seq(Seq(WireStates)) /\ past[1] = x_state /\ Len(past) = Depth
  <2>1. x_state \in Seq(WireStates) /\ Len(x_state) = Len(net.wires)
    BY <1>1, <1>5
  <2>2. past \in [1..1 -> Seq(WireStates)] /\ past[1] = x_state
    BY <1>2, <1>4, <2>1
  <2>3. past \in Seq(Seq(WireStates)) /\ Len(past) = 1
    <3>1. \A S, f : f \in [1..1 -> S] => f \in Seq(S) /\ Len(f) = 1
      OBVIOUS
    <3> QED
      BY <2>2, <3>1
  <2> QED
    BY <1>2, <1>4, <2>1, <2>2, <2>3
<1>7. a \in Seq(Bit) /\ Len(a) = Len(net.wires)
  BY <1>1, <1>3
<1>8. diffRandoms \subseteq Randoms /\ \A r, s \in diffRandoms : r = s
  <2>1. InputIds("random") \subseteq Ports
    BY <1>1, NetlistTypes DEF InputIds, InputWires
  <2> QED
    BY <1>2, <2>1 DEF Randoms
<1>9. ASSUME NEW w \in Wires
      PROVE  Agrees(x_state[w], a[w], a[w], diffShares, diffRandoms, leaks)
  <2>1. x_state[w] = control /\ a[w] = v
    BY <1>3 DEF x_state
  <2>2. control.value = X /\ control.random = {}
    BY DEF control, nil
  <2> QED
    BY <2>1, <2>2, ControlState DEF Agrees, Known, Senses, Carries
<1>10. leaks \in [Randoms -> Nat] /\ cycle \in Int
  BY <1>2 DEF NotStarted
<1> QED
  BY <1>1, <1>2, <1>6, <1>7, <1>8, <1>9, <1>10 DEF IndInv, x_state

(* A new cycle: the states become those of the last one, and the inputs    *)
(* differ where the two executions do.                                     *)
LEMMA StartStep == IndInv /\ TwinStart => IndInv'
<1> SUFFICES ASSUME IndInv, TwinStart
             PROVE  IndInv'
  OBVIOUS
<1>1. /\ pc = "next" /\ verdict = "running" /\ cycle' = cycle + 1 /\ net' = net
      /\ diffShares' = diffShares /\ diffRandoms' = diffRandoms /\ leaks' = leaks
      /\ net \in Netlists /\ cycle' \in Int
      /\ Len(ws) = Len(net.wires) /\ Len(a) = Len(ws) /\ Len(b) = Len(ws)
  BY DEF TwinStart, StartCycle, IndInv
<1>0. Depth' = Depth /\ Depth = 1
  BY <1>1, SameNetlist, NoGadgets
<1>2. CASE cycle' = NCycles
  <2>1. ws' = ws /\ past' = past /\ a' = a /\ b' = b /\ lastA' = lastA /\ lastB' = lastB /\ pc' = pc
    BY <1>2 DEF TwinStart, StartCycle
  <2> QED
    BY <1>0, <1>1, <2>1 DEF IndInv, Wires
<1>3. CASE cycle' # NCycles
  <2>1. /\ pc' = "eval" /\ past' = Shifted(ws, past) /\ lastA' = a /\ lastB' = b
        /\ a' \in [InputWires -> Bit] /\ b' \in [InputWires -> Bit]
        /\ \A w \in InputWires :
              /\ ws'[w].value \in {X, a'[w]}
              /\ ~Differs(w) => (b'[w] # a'[w] <=> InputState(w).random \cap diffRandoms # {})
    BY <1>3 DEF TwinStart, StartCycle
  <2>2. PICK val : ws' = [w \in InputWires |-> with_value(InputState(w), val[w])]
    BY <1>3 DEF TwinStart, StartCycle
  <2>3. PICK m \in 0..Len(net.wires) : InputWires = 1..m
    BY <1>1, InputsFirst
  <2>4. m \in Nat
    BY <1>1, <2>3, NetlistTypes
  <2>5. ASSUME NEW w \in InputWires
        PROVE  Agrees(ws'[w], a'[w], b'[w], diffShares, diffRandoms, leaks)
    <3> DEFINE in == InputState(w)
               u == a'[w]
               v == b'[w]
    <3>1. WellFormed(in)
      BY <1>1, InputWellFormed
    <3>2. ws'[w] = with_value(in, val[w]) /\ u \in Bit /\ v \in Bit
      BY <2>1, <2>2
    <3>3. val[w] \in {X, u}
      <4>1. with_value(in, val[w]).value = val[w]
        BY <3>1 DEF with_value, WellFormed, WireStates
      <4> QED
        BY <2>1, <3>2, <4>1
    <3> HIDE DEF in, u, v
    <3>4. /\ ws'[w] \in WireStates /\ ws'[w].value = val[w]
          /\ ws'[w].sensitivity = in.sensitivity /\ ws'[w].random = in.random
          /\ ws'[w].deterministic = in.deterministic
          /\ ws'[w].glitch_sensitivity = in.glitch_sensitivity
      BY <3>1, <3>2, <3>3 DEF with_value, WellFormed, WireStates
    <3>5. WellFormed(ws'[w])
      BY <3>1, <3>4 DEF WellFormed, Consistent
    <3>6. in.sensitivity \cap diffShares = {} => (v # u <=> in.random \cap diffRandoms # {})
      BY <2>1 DEF in, u, v, Differs
    <3>7. Known(ws'[w], u, v)
      <4>1. in.deterministic => in.sensitivity = {} /\ in.random = {}
        BY <3>1 DEF WellFormed, Consistent
      <4> QED
        BY <3>3, <3>4, <3>6, <4>1 DEF Known
    <3>8. diffRandoms = {} => Senses(ws'[w], u, v, diffShares)
      BY <3>4, <3>6 DEF Senses
    <3>9. ASSUME diffShares = {}, NEW r \in diffRandoms
          PROVE  Carries(ws'[w], u, v, r, leaks[r])
      <4>1. v # u <=> in.random \cap diffRandoms # {}
        BY <3>6, <3>9
      <4>2. in.random \cap diffRandoms # {} <=> in.random = {r}
        BY <3>1, <3>9 DEF WellFormed, IndInv
      <4> QED
        BY <3>4, <4>1, <4>2 DEF Carries
    <3> QED
      BY <3>2, <3>5, <3>7, <3>8, <3>9 DEF Agrees, u, v
  <2>6. ws' \in Seq(WireStates) /\ Len(ws') = m /\ DOMAIN ws' = InputWires
    <3>1. \A w \in InputWires : ws'[w] \in WireStates
      BY <2>5 DEF Agrees, WellFormed
    <3>2. ws' \in [1..m -> WireStates]
      BY <2>2, <2>3, <3>1
    <3> QED
      BY <2>3, <2>4, <3>2
  <2>7. a' \in Seq(Bit) /\ b' \in Seq(Bit) /\ Len(a') = m /\ Len(b') = m
    BY <2>1, <2>3, <2>4
  <2>8. past' \in Seq(Seq(WireStates)) /\ past'[1] = ws /\ Len(past') = Depth
    <3>1. ws \in Seq(WireStates) /\ past \in Seq(Seq(WireStates)) /\ Len(past) >= 1
          /\ Len(past) = Depth
      BY <1>0 DEF IndInv
    <3> QED
      BY <2>1, <3>1, StatesShifted
  <2>9. ASSUME NEW w \in Wires
        PROVE  Agrees(past'[1][w], lastA'[w], lastB'[w], diffShares, diffRandoms, leaks)
    <3>1. w \in DOMAIN ws
      BY <1>1 DEF IndInv, Wires
    <3> QED
      BY <2>1, <2>8, <3>1 DEF IndInv
  <2> QED
    BY <1>0, <1>1, <2>1, <2>5, <2>6, <2>7, <2>8, <2>9 DEF IndInv, Wires
<1> QED
  BY <1>2, <1>3

(* One more wire is evaluated.                                             *)
LEMMA EvalStep == IndInv /\ TwinEval => IndInv'
<1> SUFFICES ASSUME IndInv, TwinEval
             PROVE  IndInv'
  OBVIOUS
<1> DEFINE u == Driven(NextWire, a, lastA)
           v == Driven(NextWire, b, lastB)
<1>1. PICK res : Evaluated(res) /\ Agrees(res, u, v, diffShares, diffRandoms, leaks')
  BY EvalAgrees
<1>2. /\ Evaluating /\ verdict = "running" /\ pc = "eval"
      /\ a' = Append(a, u) /\ b' = Append(b, v)
      /\ leaks' = [r \in Randoms |-> leaks[r] + LeaksOf(r)]
      /\ UNCHANGED <<diffShares, diffRandoms, lastA, lastB, net, cycle, past>>
  BY <1>1 DEF TwinEval, EvalWire, EvalTie, EvalPort, EvalUnary, EvalBinary, EvalMux, EvalDff,
              EvalGadget, Evaluating, Evaluated
<1>3. /\ net \in Netlists /\ NextWire \in Wires /\ leaks \in [Randoms -> Nat]
      /\ diffRandoms \in SUBSET Randoms
      /\ ws \in Seq(WireStates) /\ a \in Seq(Bit) /\ b \in Seq(Bit)
      /\ Len(a) = Len(ws) /\ Len(b) = Len(ws)
  BY <1>2 DEF IndInv, Evaluating
<1>4. leaks' \in [Randoms -> Nat] /\ \A r \in Randoms : leaks[r] <= leaks'[r]
  <2>1. \A r \in Randoms : LeaksOf(r) \in Nat
    BY <1>3, LeakTypes
  <2> QED
    BY <1>2, <1>3, <2>1
<1>5. u \in Bit /\ v \in Bit /\ res \in WireStates
  BY <1>1 DEF Agrees, WellFormed
<1> HIDE DEF u, v
<1>6. /\ a' \in Seq(Bit) /\ b' \in Seq(Bit) /\ Len(a') = Len(ws) + 1 /\ Len(b') = Len(ws) + 1
      /\ \A w \in DOMAIN ws : a'[w] = a[w] /\ b'[w] = b[w]
      /\ a'[Len(ws) + 1] = u /\ b'[Len(ws) + 1] = v
  BY <1>2, <1>3, <1>5
<1>7. ASSUME NEW w \in DOMAIN ws
      PROVE  Agrees(ws[w], a'[w], b'[w], diffShares, diffRandoms, leaks')
  <2>1. Agrees(ws[w], a[w], b[w], diffShares, diffRandoms, leaks)
    BY DEF IndInv
  <2> QED
    BY <1>3, <1>4, <1>6, <2>1, MoreLeaks
<1>8. ASSUME NEW w \in Wires
      PROVE  Agrees(past[1][w], lastA[w], lastB[w], diffShares, diffRandoms, leaks')
  <2>1. Agrees(past[1][w], lastA[w], lastB[w], diffShares, diffRandoms, leaks)
    BY DEF IndInv
  <2> QED
    BY <1>3, <1>4, <2>1, MoreLeaks
<1>0. Depth' = Depth
  BY <1>2, SameNetlist
<1>9. CASE ws' = Append(ws, res) /\ verdict' = verdict
  <2>1. /\ ws' \in Seq(WireStates) /\ Len(ws') = Len(ws) + 1 /\ ws'[Len(ws) + 1] = res
        /\ \A w \in DOMAIN ws : ws'[w] = ws[w]
        /\ \A w \in DOMAIN ws' : w \in DOMAIN ws \/ w = Len(ws) + 1
    BY <1>3, <1>5, <1>9
  <2>2. \A w \in DOMAIN ws' : Agrees(ws'[w], a'[w], b'[w], diffShares, diffRandoms, leaks')
    BY <1>1, <1>6, <1>7, <2>1 DEF u, v
  <2>3. pc' # "eval" => Len(ws') = Len(net'.wires)
    BY <1>1, <1>2, <2>1 DEF Evaluated, NextWire
  <2> QED
    BY <1>0, <1>2, <1>3, <1>4, <1>6, <1>8, <2>1, <2>2, <2>3 DEF IndInv, Wires
<1>10. CASE ws' = ws /\ verdict' = "untracked"
  BY <1>0, <1>2, <1>3, <1>4, <1>6, <1>7, <1>8, <1>10 DEF IndInv, Wires
<1> QED
  BY <1>1, <1>9, <1>10 DEF Evaluated

(* Every step of the simulator and of both executions keeps agreement.     *)
LEMMA StepInv == IndInv /\ [TwinNext]_twinRunVars => IndInv'
<1> SUFFICES ASSUME IndInv, [TwinNext]_twinRunVars
             PROVE  IndInv'
  OBVIOUS
<1>1. CASE TwinFinish \/ TwinCheck
  <2>1. /\ UNCHANGED <<net, cycle, ws, past, a, b, lastA, lastB, diffShares, diffRandoms, leaks>>
        /\ verdict = "running" /\ pc # "eval"
    BY <1>1 DEF TwinFinish, TwinCheck, EvalFinish, CheckCycle, twinVars
  <2> QED
    BY <2>1, SameNetlist DEF IndInv, Wires
<1>2. CASE UNCHANGED twinRunVars
  BY <1>2, SameNetlist DEF twinRunVars, simVars, twinVars, IndInv, Wires
<1> QED
  BY <1>1, <1>2, StartStep, EvalStep DEF TwinNext

-----------------------------------------------------------------------------
(* All wires agree with both executions in every state.                    *)
LEMMA AlwaysAgrees == TwinSpec => []IndInv
BY InitInv, StepInv, PTL DEF TwinSpec

(* "value" in the output trace is the value of the net in the circuit.     *)
THEOREM ValuesAreSound == TwinSpec => []ValueSound
<1>1. IndInv => ValueSound
  BY DEF IndInv, ValueSound, Agrees, Known
<1> QED
  BY <1>1, AlwaysAgrees, PTL

(* No share and no random bit acts on a wire that is deterministic.        *)
THEOREM DeterminismIsSound == TwinSpec => []DeterministicSound
<1>1. IndInv => DeterministicSound
  BY DEF IndInv, DeterministicSound, Agrees, Known
<1> QED
  BY <1>1, AlwaysAgrees, PTL

(* Only the shares that a wire is sensitive to act on it.                  *)
THEOREM SensitivityIsSound == TwinSpec => []SensitivitySound
<1>1. IndInv => SensitivitySound
  BY DEF IndInv, SensitivitySound, Agrees, Senses
<1> QED
  BY <1>1, AlwaysAgrees, PTL

(* The random that a wire is said to carry acts on it, and on no other     *)
(* wire, as long as few gates leaked it.                                   *)
THEOREM RandomsAreExact == TwinSpec => []RandomExact
<1>1. IndInv => RandomExact
  BY DEF IndInv, RandomExact, Agrees, Carries
<1> QED
  BY <1>1, AlwaysAgrees, PTL

-----------------------------------------------------------------------------
(* Types: no random is untracked, so that both executions have a value for *)
(* each wire that has a state.                                             *)
TwinTypeInv ==
    /\ verdict \in {"running", "accepted", "rejected"} \cup Panics
    /\ Len(a) = Len(ws) /\ Len(b) = Len(ws)

(* Each of two runs that agree is a run of the simulator.                  *)
LEMMA AgreeingStates == IndInv => SimInv
<1> SUFFICES ASSUME IndInv
             PROVE  SimInv
  OBVIOUS
<1>1. net \in Netlists /\ Depth = 1
  BY NoGadgets DEF IndInv
<1>2. \A k \in 1..Depth : \A w \in Wires : past[k][w] \in WireStates
  BY <1>1 DEF IndInv, Agrees, WellFormed
<1> QED
  BY <1>1, <1>2 DEF IndInv, SimInv

(* Every step keeps the types.                                             *)
LEMMA TwinTypesStep == IndInv /\ TrackInv' /\ TwinTypeInv /\ [TwinNext]_twinRunVars => TwinTypeInv'
<1> SUFFICES ASSUME IndInv, TrackInv', TwinTypeInv, [TwinNext]_twinRunVars
             PROVE  TwinTypeInv'
  OBVIOUS
<1>1. CASE TwinStart
  <2>1. CASE cycle' = NCycles
    BY <1>1, <2>1 DEF TwinStart, StartCycle, TwinTypeInv
  <2>2. CASE cycle' # NCycles
    <3>1. /\ DOMAIN ws' = InputWires /\ a' \in [InputWires -> Bit] /\ b' \in [InputWires -> Bit]
          /\ verdict' = verdict
      BY <1>1, <2>2 DEF TwinStart, StartCycle
    <3>2. net \in Netlists
      BY DEF IndInv
    <3>3. PICK m \in 0..Len(net.wires) : InputWires = 1..m
      BY <3>2, InputsFirst
    <3>4. m \in Nat
      BY <3>2, <3>3, NetlistTypes
    <3>5. \A f : DOMAIN f = 1..m => Len(f) = m
      BY <3>4
    <3> QED
      BY <3>1, <3>3, <3>5 DEF TwinTypeInv
  <2> QED
    BY <2>1, <2>2
<1>2. CASE TwinEval
  <2>1. PICK res : Evaluated(res) /\ Agrees(res, Driven(NextWire, a, lastA), Driven(NextWire, b, lastB),
                                            diffShares, diffRandoms, leaks')
    BY <1>2, EvalAgrees
  <2>2. verdict' # "untracked"
    BY DEF TrackInv
  <2>3. ws' = Append(ws, res) /\ verdict' = verdict
    BY <2>1, <2>2 DEF Evaluated
  <2>4. ws \in Seq(WireStates) /\ a \in Seq(Bit) /\ b \in Seq(Bit)
    BY DEF IndInv
  <2>5. \E u, v : a' = Append(a, u) /\ b' = Append(b, v)
    BY <1>2 DEF TwinEval
  <2> QED
    BY <2>3, <2>4, <2>5 DEF TwinTypeInv
<1>3. CASE TwinFinish \/ TwinCheck
  <2>1. UNCHANGED <<ws, a, b>>
    BY <1>3 DEF TwinFinish, TwinCheck, EvalFinish, CheckCycle, twinVars
  <2>2. verdict' \in {verdict, "untracked", "unindexed", "rejected", "running"}
    BY <1>3 DEF TwinFinish, TwinCheck, EvalFinish, CheckCycle, Outcomes
  <2> QED
    BY <2>1, <2>2 DEF TwinTypeInv, Panics
<1>4. CASE UNCHANGED twinRunVars
  BY <1>4 DEF twinRunVars, simVars, twinVars, TwinTypeInv
<1> QED
  BY <1>1, <1>2, <1>3, <1>4 DEF TwinNext

(* In every state of both executions, each wire that has a state has a     *)
(* value in each of them, which is a bit, and leaks are counted: whatever  *)
(* the netlist, no evaluation stops on a random that is not tracked.       *)
THEOREM TwinTypes == TwinSpec => []TwinTypeOK
<1>1. TwinInit => TrackInv /\ TwinTypeInv
  <2> SUFFICES ASSUME TwinInit
               PROVE  TrackInv /\ TwinTypeInv
    OBVIOUS
  <2>1. TrackInv
    BY TrackInit DEF TwinInit
  <2>2. IndInv /\ pc = "next" /\ verdict = "running"
    BY InitInv DEF TwinInit, Init
  <2> QED
    BY <2>1, <2>2 DEF IndInv, TwinTypeInv
<1>2. IndInv /\ TrackInv /\ TwinTypeInv /\ [TwinNext]_twinRunVars => TrackInv' /\ TwinTypeInv'
  <2>1. [TwinNext]_twinRunVars => [Next]_simVars
    BY DEF TwinNext, TwinStart, TwinEval, TwinFinish, TwinCheck, Next, twinRunVars
  <2> QED
    BY <2>1, AgreeingStates, TrackStep, TwinTypesStep
<1>3. IndInv /\ TwinTypeInv => TwinTypeOK
  <2> SUFFICES ASSUME IndInv, TwinTypeInv
               PROVE  TwinTypeOK
    OBVIOUS
  <2>1. ws \in Seq(WireStates) /\ a \in Seq(Bit) /\ b \in Seq(Bit) /\ leaks \in [Randoms -> Nat]
    BY DEF IndInv
  <2>2. DOMAIN a = DOMAIN ws /\ DOMAIN b = DOMAIN ws
    BY <2>1 DEF TwinTypeInv
  <2>3. \A w \in DOMAIN ws : ws[w].value \in Bit \cup {X} /\ a[w] \in Bit /\ b[w] \in Bit
    <3>1. \A w \in DOMAIN ws : ws[w] \in WireStates
      BY <2>1
    <3>2. \A w \in DOMAIN ws : a[w] \in Bit /\ b[w] \in Bit
      BY <2>1, <2>2
    <3> QED
      BY <3>1, <3>2 DEF WireStates
  <2> QED
    BY <2>1, <2>2, <2>3 DEF TwinTypeOK, TwinTypeInv
<1> QED
  BY <1>1, <1>2, <1>3, AlwaysAgrees, PTL DEF TwinSpec

=============================================================================
