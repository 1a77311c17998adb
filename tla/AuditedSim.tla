----------------------------- MODULE AuditedSim -----------------------------
(***************************************************************************)
(* RecSim with an auditor: history variables that follow the executions of *)
(* gadgets by the cycle they start in, and every observation of a random   *)
(* value by a gate or by a gadget, on any of its inputs, in the terms of   *)
(* the documentation rather than of the code's bookkeeping (leaks, most of *)
(* them deferred, trackers, execution cycles shifted by the input          *)
(* latency).  The properties compare the two.                              *)
(***************************************************************************)
EXTENDS RecSim

VARIABLES seen,          \* {<<random, "gate" or "gadget", instance, input, time>>};
                         \* the time of a gadget is the start of the execution
          busy,          \* {<<gadget, start>>}: executions with a sensitive input
          deps,          \* deps[w]: executions <<gadget, start>> wire w depends on
          pastDeps       \* the same, k cycles ago

auditVars == <<seen, busy, deps, pastDeps>>
vars == <<simVars, auditVars>>

AuditInit ==
    /\ Init
    /\ seen = {}
    /\ busy = {}
    /\ deps = [w \in Wires |-> {}]
    /\ pastDeps = [k \in 1..Depth |-> [w \in Wires |-> {}]]

DepsAt(w, k) == IF k = 0 THEN deps[w] ELSE pastDeps[k][w]

(* A wire depends on the executions its operands depend on, unless a known *)
(* control value selects one of them; an output of a gadget on its own     *)
(* execution and on those its inputs depend on.                            *)
DepsOfWire(w) ==
    LET d(i) == deps[Fanin(w)[i]]
        op(i) == ws[Fanin(w)[i]]
    IN  CASE Kind(w) = "tie" -> {}
          [] Kind(w) \in {"BUF", "NOT", "port"} -> d(1)
          [] Kind(w) \in BinaryGates ->
                IF Passes(Kind(w), op(1), op(2)) THEN d(2)
                ELSE IF Passes(Kind(w), op(2), op(1)) THEN d(1) ELSE d(1) \cup d(2)
          [] Kind(w) = "MUX" ->
                IF is_control(op(3), 0) THEN d(1)
                ELSE IF is_control(op(3), 1) THEN d(2) ELSE d(1) \cup d(2) \cup d(3)
          [] Kind(w) = "DFF" -> pastDeps[1][Fanin(w)[1]]
          [] Kind(w) = "gadget" ->
                LET g == Fanin(w)[1]
                    start == cycle - net.wires[w].lat
                IN  (IF start >= -max_input_latency(g) THEN {<<g, start>>} ELSE {})
                    \cup UNION {DepsAt(GIn(g, k).wire, net.wires[w].lat - GIn(g, k).lat) :
                                    k \in Taken(g, net.wires[w].lat)}

(* A binary gate computes on its operands unless one of them is a known    *)
(* control value with which it returns the other one as it is, or a        *)
(* constant: it then is a wire.  So is a mux whose select is known.        *)
Routes(gate, v) == Truth(gate, v, 0) <= Truth(gate, v, 1)

Computes(w) ==
    LET op(i) == ws[Fanin(w)[i]]
    IN  \/ Kind(w) = "NOT"
        \/ Kind(w) \in BinaryGates /\ \A i \in 1..2 : \A v \in Bit :
                is_control(op(i), v) => ~Routes(Kind(w), v)
        \/ Kind(w) = "MUX" /\ \A v \in Bit : ~is_control(op(3), v)

(* A gate outside of the gadgets observes the operands it computes on, a   *)
(* gadget all that enters it.                                              *)
GateObservations ==
    IF NextWire \in net.inner \/ ~Computes(NextWire) THEN {}
    ELSE UNION {{<<r, "gate", NextWire, i, cycle>> : r \in Op(i).random} :
                    i \in DOMAIN Fanin(NextWire)}

GadgetObservations ==
    UNION {UNION {{<<r, "gadget", g, k, cycle - GIn(g, k).lat>> : r \in ws[GIn(g, k).wire].random} :
                      k \in GInputs(g)} : g \in Gadgets}

SensitiveExecs ==
    UNION {{<<g, cycle - GIn(g, k).lat>> :
                k \in {k \in GInputs(g) : ws[GIn(g, k).wire].sensitivity # {}}} : g \in Gadgets}

AuditStart ==
    /\ StartCycle
    /\ IF cycle' = NCycles
       THEN UNCHANGED <<deps, pastDeps>>
       ELSE /\ deps' = [w \in InputWires |-> {}]
            /\ pastDeps' = Shifted(deps, pastDeps)
    /\ UNCHANGED <<seen, busy>>

AuditEval ==
    /\ EvalWire
    /\ seen' = seen \cup GateObservations
    /\ deps' = Append(deps, DepsOfWire(NextWire))
    /\ UNCHANGED <<busy, pastDeps>>

AuditFinish ==
    /\ EvalFinish
    /\ seen' = seen \cup GadgetObservations
    /\ busy' = busy \cup SensitiveExecs
    /\ UNCHANGED <<deps, pastDeps>>

AuditCheck == CheckCycle /\ UNCHANGED auditVars

AuditNext == AuditStart \/ AuditEval \/ AuditFinish \/ AuditCheck

AuditSpec == AuditInit /\ [][AuditNext]_vars /\ WF_vars(AuditNext)

-----------------------------------------------------------------------------
(* Types, and the length of what is remembered.                            *)
AnyWireState ==
    [sensitivity : SUBSET Nat, glitch_sensitivity : SUBSET Nat, value : Bit \cup {X},
     random : SUBSET Randoms, deterministic : BOOLEAN,
     nspgi_dep : [Nspgis -> {NoExec} \cup Nat]]

TypeOK ==
    /\ cycle \in {NotStarted} \cup 0..NCycles
    /\ pc \in {"next", "eval", "finish", "check"}
    /\ verdict \in {"running", "accepted", "rejected"} \cup Panics
    /\ Len(ws) <= Len(net.wires) /\ Len(past) = Depth
    /\ \A w \in DOMAIN ws : ws[w] \in AnyWireState
    /\ \A p \in Ports : trks[p].offset \in Nat
    /\ Len(lastNs) <= NGadgets

(* The cycle has been checked and the run goes on.                         *)
Passed == pc = "next" /\ verdict = "running" /\ cycle # NotStarted

(* The assertion of RndTracker::index_of never fails: every random on a    *)
(* wire, and every random that a gadget keeps for a later leak, is in the  *)
(* window of its port's tracker.                                           *)
RandomsTracked == verdict # "untracked"

(* The assertions of WireState::consistency_check hold on every wire.      *)
ConsistentStates == \A w \in DOMAIN ws : Consistent(ws[w])

(* The sources of a wire: the wires it is connected to by gates only, and  *)
(* in a part of the circuit.                                               *)
ConeIn(part, w) ==
    LET cone[v \in Wires] ==
            IF Kind(v) \in CombKinds \cup {"port"} /\ v \in part
            THEN UNION {cone[Fanin(v)[i]] : i \in DOMAIN Fanin(v)}
            ELSE {v}
    IN  cone[w]

Cone(w) == ConeIn(Wires, w)

ConeShares(w) == UNION {ws[v].glitch_sensitivity : v \in Cone(w)}

(* Glitch sensitivity is what the robust probing model says it is: the     *)
(* shares of every source of the combinational cone, whatever the values   *)
(* that gate them; selecting an operand must not forget the other one.     *)
GlitchConeExact == \A w \in DOMAIN ws : ws[w].glitch_sensitivity = ConeShares(w)

(* A cycle that passed the checks leaves no wire, of any kind, whose cone  *)
(* mixes two shares, outside of the gadgets.                               *)
NoShareMixing == Passed => \A w \in Wires \ net.inner : Cardinality(ConeShares(w)) <= 1

(* The stages of a gadget, from the latencies of its inputs: a register is *)
(* one stage after what it stores.  Some wires depend on no input, others  *)
(* are not part of the gadget.                                             *)
NoStage == -2
Constant == -1
Stages(g) == {NoStage, Constant} \cup 0..max_latency(g)

(* Wire v, read in stage s: an input of that latency, or a wire inside.    *)
InStage(g, stage, v, s) ==
    IF v \in net.inner THEN stage[v] \in {Constant, s}
    ELSE \E k \in GInputs(g) : GIn(g, k).wire = v /\ GIn(g, k).lat = s

ReadIn(v, s) == IF Kind(v) = "DFF" /\ s # Constant THEN s - 1 ELSE s

Staged(g, stage) ==
    /\ \A w \in OutputsOf(g) : \A v \in Range(Tail(Fanin(w))) :
          InStage(g, stage, v, net.wires[w].lat)
    /\ \A v \in {v \in net.inner : stage[v] # NoStage} :
          /\ Kind(v) \in CombKinds \cup {"tie", "port", "DFF"}
          /\ \A u \in Range(Fanin(v)) : InStage(g, stage, u, ReadIn(v, stage[v]))

(* A gadget of gates and registers whose outputs see its inputs as late as *)
(* their latencies say.                                                    *)
Pipelined(g) == \E stage \in [net.inner -> Stages(g)] : Staged(g, stage)

(* The annotations of a gadget cover what its implementation does in every *)
(* cycle, the first ones included (the assertions of eval_output), when it *)
(* is a pipeline with the latencies annotated: the status of a stage then  *)
(* follows from the inputs remembered for it.                              *)
AnnotationsCover == verdict = "uncovered" => \E g \in Gadgets : ~Pipelined(g)

(* Executions whose inputs have all arrived.                               *)
Complete(g, start) == start + max_input_latency(g) <= cycle
Observed(o) == o[2] = "gate" \/ Complete(o[3], o[5])

(* Inputs that the checks accept a random on, as it is sensitive to no     *)
(* share: those for shares, and those for control values if no wire that   *)
(* is checked drives them.                                                 *)
Unchecked(o) ==
    /\ o[2] = "gadget"
    /\ \/ GIn(o[3], o[4]).role = "share"
       \/ GIn(o[3], o[4]).role = "control" /\ <<o[3], o[4]>> \notin CheckedInputs

(* What random input k of execution e got; what else observed that random. *)
GotAt(e, k) == {o \in seen : <<o[2], o[3], o[4], o[5]>> = <<"gadget", e[1], k, e[2]>>}
Others(o) == {other \in seen \ {o} : other[1] = o[1] /\ Observed(other)}

(* In a run that passed, a gadget execution with a sensitive input got, on *)
(* each randomness port and at its latency, a random bit that no gate, no  *)
(* randomness port and no checked control input ever observed besides, of  *)
(* this or any other execution, before or after.  The code learns that an  *)
(* execution is sensitive only when its last input arrives, after the      *)
(* window may have moved.  Inputs for shares are excepted (Unchecked): the *)
(* code lets them take the same random.                                    *)
FreshRandomness ==
    Passed =>
        \A e \in busy : Complete(e[1], e[2]) =>
            \A k \in RndInputs(e[1]) : \E o \in GotAt(e, k) :
                \A other \in Others(o) : Unchecked(other)

(* In a run that passed, data of an execution of a PINI gadget enters the  *)
(* same gadget again only if an execution without sensitive inputs started *)
(* at or after it and is complete: no two dependent executions follow each *)
(* other in the pipeline.                                                  *)
BubbleSound ==
    Passed /\ ~NoCheckTransitions =>
        \A gk \in CheckedInputs :
            LET g == gk[1]
            IN  net.gadgets[g].prop = "PINI" =>
                  \A e \in deps[GIn(g, gk[2]).wire] : e[1] = g =>
                      \E s \in e[2]..(cycle - max_input_latency(g)) : <<g, s>> \notin busy

(* A wire names the last execution of each gadget it depends on.           *)
DepsExact ==
    \A w \in DOMAIN ws : \A g \in Gadgets :
        ws[w].nspgi_dep[g] =
            Max({NoExec} \cup {e[2] + max_input_latency(g) : e \in {e \in deps[w] : e[1] = g}})
=============================================================================
