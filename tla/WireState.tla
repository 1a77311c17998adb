------------------------------ MODULE WireState ------------------------------
(***************************************************************************)
(* The symbolic state of a wire (WireState of simulation.rs) and the       *)
(* evaluation of the gates on it: what a wire may depend on, with and      *)
(* without glitches, its value in the reference simulation, and the fresh  *)
(* random bit it carries, if any.                                          *)
(*                                                                         *)
(* Share sets (share_set.rs, a bit mask) are sets.  An optional random     *)
(* source is a set of at most one <<port, lat>>.  The vector of NspgiDep   *)
(* is a function from gadget instances to cycles, with NoExec for None, so *)
(* that vectors that differ by trailing None entries are equal.            *)
(***************************************************************************)
EXTENDS Integers, FiniteSets

CONSTANT NGadgets        \* number of gadget instances (NSPGIs)

ASSUME GadgetsAssumption == NGadgets \in Nat

Nspgis == 1..NGadgets
NoExec == -1             \* None: the wire depends on no execution
X == -1                  \* the value 'x'
Bit == {0, 1}

NoDep == [g \in Nspgis |-> NoExec]

nil == [sensitivity |-> {}, glitch_sensitivity |-> {}, value |-> X, random |-> {},
        deterministic |-> FALSE, nspgi_dep |-> NoDep]
control == [nil EXCEPT !.deterministic = TRUE]
share(id) == [nil EXCEPT !.sensitivity = {id}, !.glitch_sensitivity = {id}]
random(port, lat) == [nil EXCEPT !.random = {<<port, lat>>}]

with_value(w, v) == [w EXCEPT !.value = v]
stop_all_glitches(w) == [w EXCEPT !.glitch_sensitivity = {}]      \* mutant
stop_glitches(w) == [w EXCEPT !.glitch_sensitivity = w.sensitivity]
with_glitches(w, glitches) == [w EXCEPT !.glitch_sensitivity = @ \cup glitches]
negate_unknown(w) == with_value(w, 1 - w.value)                  \* mutant
negate(w) == with_value(w, IF w.value = X THEN X ELSE 1 - w.value)

glitch_deterministic(w) == w.deterministic /\ w.glitch_sensitivity = {}
is_control(w, v) == glitch_deterministic(w) /\ w.value = v

(* The assertions of consistency_check.                                    *)
Consistent(w) ==
    /\ w.sensitivity \subseteq w.glitch_sensitivity
    /\ w.deterministic => w.sensitivity = {} /\ w.random = {}

(* check_secure: a wire may depend on one share at most, glitches included.*)
SecureNoGlitch(w) == Cardinality(w.sensitivity) <= 1             \* mutant
Secure(w) == Cardinality(w.sensitivity) <= 1 /\ Cardinality(w.glitch_sensitivity) <= 1

(* NspgiDep::max and NspgiDep::single.                                     *)
DepMax(d, e) == [g \in Nspgis |-> IF d[g] < e[g] THEN e[g] ELSE d[g]]
DepSingle(g, c) == [NoDep EXCEPT ![g] = c]

-----------------------------------------------------------------------------
(* CombBinary (gates.rs): the neutral and absorbing values, and the gate   *)
(* on three-valued operands.                                               *)
BinaryGates == {"AND", "OR", "XOR"}

neutral(gate) == IF gate = "AND" THEN 1 ELSE 0
absorb(gate) == CASE gate = "AND" -> {0} [] gate = "OR" -> {1} [] gate = "XOR" -> {}

Truth(gate, u, v) ==
    CASE gate = "AND" -> u * v
      [] gate = "OR"  -> u + v - u * v
      [] gate = "XOR" -> (u + v) % 2

opx_neutral(gate, u, v) ==                                       \* mutant
    IF u # X /\ v # X THEN Truth(gate, u, v)
    ELSE IF {u, v} \cap absorb(gate) # {} THEN neutral(gate)
    ELSE X

opx(gate, u, v) ==
    IF u # X /\ v # X THEN Truth(gate, u, v)
    ELSE IF {u, v} \cap absorb(gate) # {} THEN 1 - neutral(gate)
    ELSE X

(* One operand is a known control value that makes the gate return op.     *)
Passes(gate, other, op) ==
    is_control(other, neutral(gate)) \/ \E v \in absorb(gate) : is_control(op, v)

Joined(gate, op0, op1) ==
    [sensitivity |-> op0.sensitivity \cup op1.sensitivity,
     glitch_sensitivity |-> op0.glitch_sensitivity \cup op1.glitch_sensitivity,
     value |-> opx(gate, op0.value, op1.value),
     random |-> {},
     deterministic |-> op0.deterministic /\ op1.deterministic,
     nspgi_dep |-> DepMax(op0.nspgi_dep, op1.nspgi_dep)]

(* CombBinary::sim, and the operands whose randomness it leaks.            *)
BinarySimSwapped(gate, op0, op1) ==                              \* mutant
    IF Passes(gate, op0, op1) THEN op0
    ELSE IF Passes(gate, op1, op0) THEN op1 ELSE Joined(gate, op0, op1)

BinarySim(gate, op0, op1) ==
    LET res == IF Passes(gate, op0, op1) THEN op1
               ELSE IF Passes(gate, op1, op0) THEN op0
               ELSE Joined(gate, op0, op1)
    IN  [res EXCEPT !.glitch_sensitivity = op0.glitch_sensitivity \cup op1.glitch_sensitivity]

BinaryLeaks(gate, op0, op1) ==
    IF Passes(gate, op0, op1) \/ Passes(gate, op1, op0) THEN <<>> ELSE <<op0, op1>>

(* sim_mux, and the operands whose randomness it leaks.                    *)
MuxJoinedData(op0, op1, ops) ==                                  \* mutant
    [Joined("XOR", op0, op1) EXCEPT
        !.value = IF ops.value = 0 THEN op0.value ELSE IF ops.value = 1 THEN op1.value ELSE X]

MuxJoined(op0, op1, ops) ==
    [sensitivity |-> op0.sensitivity \cup op1.sensitivity \cup ops.sensitivity,
     glitch_sensitivity |->
        op0.glitch_sensitivity \cup op1.glitch_sensitivity \cup ops.glitch_sensitivity,
     value |-> IF ops.value = X THEN X ELSE IF ops.value = 0 THEN op0.value ELSE op1.value,
     random |-> op0.random \cap op1.random,
     deterministic |-> ops.deterministic /\ op0.deterministic /\ op1.deterministic,
     nspgi_dep |-> DepMax(DepMax(op0.nspgi_dep, op1.nspgi_dep), ops.nspgi_dep)]

MuxSimClean(op0, op1, ops) ==                                    \* mutant
    IF is_control(ops, 0) THEN op0
    ELSE IF is_control(ops, 1) THEN op1 ELSE MuxJoined(op0, op1, ops)

MuxSim(op0, op1, ops) ==
    IF is_control(ops, 0) THEN with_glitches(op0, op1.glitch_sensitivity)
    ELSE IF is_control(ops, 1) THEN with_glitches(op1, op0.glitch_sensitivity)
    ELSE MuxJoined(op0, op1, ops)

MuxLeaksNothing(op0, op1, ops) == <<>>                           \* mutant
MuxLeaks(op0, op1, ops) ==
    IF is_control(ops, 0) \/ is_control(ops, 1) THEN <<>> ELSE <<op0, op1, ops>>
=============================================================================
