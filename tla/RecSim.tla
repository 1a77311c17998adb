------------------------------- MODULE RecSim -------------------------------
(***************************************************************************)
(* The symbolic simulator: SimuIter and Simulator (top_sim.rs) driving the *)
(* evaluators of recsim.rs over a netlist, cycle by cycle, until a check   *)
(* fails or the trace ends.                                                *)
(*                                                                         *)
(* The module hierarchy is flattened: wires are numbered in an order in    *)
(* which they can be evaluated, the inputs of the top-level module first,  *)
(* and the inputs of a submodule are wires of kind "port".  The inputs     *)
(* that the instances remember (GateState.prev_inputs and                  *)
(* PipelineGadgetState.inputs) are the states of those wires in previous   *)
(* cycles.  The inputs of a gadget and the wires inside of it are wires as *)
(* well (net.inner): an output <<g, w>> of gadget g is implemented by wire *)
(* w.  The implementation may be left out, <<g>>, and the value of the     *)
(* output is then a choice; its dependencies come from the annotations.    *)
(***************************************************************************)
EXTENDS WireState, RndWindow, FiniteSetsExt, SequencesExt

CONSTANTS Netlists,            \* the netlists to analyse
          Ports,               \* randomness ports
          NCycles,             \* length of the trace
          ControlValues,       \* values of deterministic inputs in the trace
          DataValues,          \* values of valid shares and randoms in the trace
          GadgetValues,        \* values of the outputs of gadgets
          NoCheckTransitions   \* the configuration flag

VARIABLES net,                 \* the netlist
          cycle,               \* current_cycle, NotStarted before the first one
          pc,                  \* what the main loop does next
          verdict,             \* "running", "accepted", "rejected" or a panic
          ws,                  \* states of the wires evaluated in this cycle
          past,                \* past[k]: states of the wires k cycles ago
          trks,                \* random_status: the tracker of each port
          lastNs,              \* last_nonsensitive_exec, a vector that grows
          sig,                 \* [active, exec]: the control signals of the cycle
          lastStart            \* last_exec_start

simVars == <<net, cycle, pc, verdict, ws, past, trks, lastNs, sig, lastStart>>

(* How the program panics: index_of on a random that is not tracked, an    *)
(* output of a gadget evaluated before its inputs, an implementation that  *)
(* its annotations do not cover, and an index past the end of              *)
(* last_nonsensitive_exec.                                                 *)
Panics == {"untracked", "unset", "uncovered", "unindexed"}

NotStarted == -1
NoStart == -1
Cycles == 0..(NCycles - 1)
Randoms == Ports \X Cycles

-----------------------------------------------------------------------------
(* The netlist.                                                            *)
InputKinds == {"share", "random", "control"}
CombKinds == BinaryGates \cup {"BUF", "NOT", "MUX"}

(* The wires that module_comb_deps orders before wire w of netlist n.      *)
Before(n, w) ==
    LET src == n.wires[w]
    IN  CASE src.kind \in CombKinds \cup {"port"} -> Range(src.in)
          [] src.kind = "gadget" ->
                {i.wire : i \in {i \in Range(n.gadgets[src.in[1]].inputs) : i.lat = src.lat}}
                    \cup Range(Tail(src.in))
          [] OTHER -> {}

(* Wires are numbered inputs first, then in an order of evaluation.        *)
WellNumbered(n) ==
    \A w \in DOMAIN n.wires :
        /\ \A v \in Before(n, w) : v < w
        /\ n.wires[w].kind \in InputKinds => \A v \in 1..w : n.wires[v].kind \in InputKinds

(* Every cell has as many inputs as its kind; an output of a gadget names  *)
(* the gadget, and the wire that implements it, if any.                    *)
Arity(kind) ==
    CASE kind \in InputKinds \cup {"tie"} -> 0
      [] kind \in {"BUF", "NOT", "port", "DFF"} -> 1
      [] kind \in BinaryGates -> 2
      [] kind = "MUX" -> 3

WellConnected(n) ==
    /\ n.wires \in Seq(Range(n.wires)) /\ n.gadgets \in Seq(Range(n.gadgets))
    /\ \A wire \in Range(n.wires) :
          /\ wire.kind \in InputKinds \cup CombKinds \cup {"tie", "port", "DFF", "gadget"}
          /\ wire.id \in Nat /\ wire.lat \in Nat
          /\ wire.kind = "tie" => wire.id \in Bit
          /\ wire.kind = "random" => wire.id \in Ports
          /\ IF wire.kind = "gadget"
             THEN wire.in[1] \in DOMAIN n.gadgets /\ Range(Tail(wire.in)) \subseteq DOMAIN n.wires
             ELSE wire.in \in Seq(DOMAIN n.wires) /\ Len(wire.in) = Arity(wire.kind)
    /\ \A gadget \in Range(n.gadgets) :
          /\ gadget.inputs \in Seq(Range(gadget.inputs))
          /\ \A i \in Range(gadget.inputs) :
                i.wire \in DOMAIN n.wires /\ i.lat \in Nat /\ i.role \in {"share", "random", "control"}

(* What is outside of the gadgets is connected to their outputs, and never *)
(* to the wires inside of them.                                            *)
Enclosed(n) ==
    /\ \A w \in DOMAIN n.wires \ n.inner :
          n.wires[w].kind # "gadget" => Range(n.wires[w].in) \cap n.inner = {}
    /\ \A gadget \in Range(n.gadgets) : \A i \in Range(gadget.inputs) : i.wire \notin n.inner

ASSUME NetlistsAssumption ==
    \A n \in Netlists :
        WellNumbered(n) /\ WellConnected(n) /\ Enclosed(n) /\ Len(n.gadgets) <= NGadgets

ASSUME TraceAssumption == NCycles \in Nat

ASSUME ValuesAssumption == ControlValues \cup DataValues \cup GadgetValues \subseteq Bit \cup {X}

Wires == 1..Len(net.wires)
Kind(w) == net.wires[w].kind
Fanin(w) == net.wires[w].in
InputWires == {w \in Wires : Kind(w) \in InputKinds}

Gadgets == DOMAIN net.gadgets
GInputs(g) == DOMAIN net.gadgets[g].inputs
GIn(g, k) == net.gadgets[g].inputs[k]
OutputsOf(g) == {w \in Wires : Kind(w) = "gadget" /\ Fanin(w)[1] = g}
RndInputs(g) == {k \in GInputs(g) : GIn(g, k).role = "random"}

max_input_latency(g) == Max({0} \cup {GIn(g, k).lat : k \in GInputs(g)})
max_latency(g) == Max({max_input_latency(g)} \cup {net.wires[w].lat : w \in OutputsOf(g)})

(* How many cycles back an instance remembers its inputs.                  *)
Depth == Max({1} \cup {max_latency(g) : g \in Gadgets})

(* The state of wire w, k cycles ago.                                      *)
At(w, k) == IF k = 0 THEN ws[w] ELSE past[k][w]

x_state == [w \in Wires |-> control]

Init ==
    /\ net \in Netlists
    /\ cycle = NotStarted
    /\ pc = "next"
    /\ verdict = "running"
    /\ ws = x_state
    /\ past = [k \in 1..Depth |-> x_state]
    /\ trks = [p \in Ports |-> NewTracker]
    /\ lastNs = <<>>
    /\ sig = [active |-> {}, exec |-> FALSE]
    /\ lastStart = NoStart

-----------------------------------------------------------------------------
(* Inputs of the top-level module, from the trace.                         *)

(* con_valid: is a port valid at cycle c, under its latency condition?     *)
con_valid(cond, c, start, active) ==
    CASE cond.when = "always" -> TRUE
      [] cond.when = "never"  -> FALSE
      [] cond.when = "lats"   -> start # NoStart /\ c - start \in cond.lats
      [] cond.when = "active" -> cond.sig \in active

(* gadget_vcd_input, without the value.                                    *)
InputState(w) ==
    LET i == net.wires[w]
    IN  IF i.kind = "control" \/ ~con_valid(i.cond, cycle', lastStart', sig'.active) THEN control
        ELSE IF i.kind = "share" THEN share(i.id)
        ELSE random(i.id, cycle')

InputValues(w) == IF InputState(w).deterministic THEN ControlValues ELSE DataValues

(* init_next: the current states become those of the previous cycle, and   *)
(* the oldest ones are dropped.                                            *)
ShiftedAll(now, old) == <<now>> \o old                           \* mutant
Shifted(now, old) == <<now>> \o SubSeq(old, 1, Len(old) - 1)

(* SimuIter::next and the first half of Simulator::next: prune, advance,   *)
(* sample the control signals, make room for the new states, set inputs.   *)
StartCycle ==
    /\ pc = "next" /\ verdict = "running"
    /\ cycle' = cycle + 1
    /\ trks' = IF cycle = NotStarted THEN trks ELSE [p \in Ports |-> Prune(trks[p], cycle)]
    /\ IF cycle' = NCycles
       THEN /\ verdict' = "accepted"
            /\ UNCHANGED <<pc, ws, past, sig, lastStart>>
       ELSE /\ pc' = "eval"
            /\ \E act \in SUBSET net.signals, ea \in net.exec :
                  sig' = [active |-> act, exec |-> ea]
            /\ lastStart' = IF sig'.exec /\ (cycle = NotStarted \/ ~sig.exec)
                            THEN cycle' ELSE lastStart
            /\ past' = Shifted(ws, past)
            /\ \E v \in [InputWires -> ControlValues \cup DataValues] :
                  /\ \A w \in InputWires : v[w] \in InputValues(w)
                  /\ ws' = [w \in InputWires |-> with_value(InputState(w), v[w])]
            /\ UNCHANGED verdict
    /\ UNCHANGED <<net, lastNs>>

-----------------------------------------------------------------------------
(* Randomness events: leak_random, use_random and store_random do nothing  *)
(* unless the wire state carries a random.  What they write does not       *)
(* depend on the order of the events of a step, which are a set here; by   *)
(* tells apart those of one kind on one random.                            *)
Event(op, w, by) == [op |-> op, random |-> w.random, by |-> by]
On(events, op, r) == {e \in events : e.op = op /\ r \in e.random}

(* The status that these events leave of the random that port p received   *)
(* at cycle c.                                                             *)
Updated(t, p, c, events) ==
    LET st == StatusAt(t, c)
    IN  [fresh_uses |-> st.fresh_uses + Cardinality(On(events, "use", <<p, c>>)),
         leaks |-> st.leaks + Cardinality(On(events, "leak", <<p, c>>)),
         last_stored |-> IF On(events, "store", <<p, c>>) = {} THEN st.last_stored ELSE cycle]

(* The tracker of port p after them: it grows to the last random touched.  *)
Touched(p, events) == {r[2] : r \in {r \in UNION {e.random : e \in events} : r[1] = p}}

Recorded(t, p, events) ==
    [offset |-> t.offset,
     states |-> [i \in 1..Max({Len(t.states)} \cup {IndexOf(t, c) : c \in Touched(p, events)}) |->
                    Updated(t, p, t.offset + i - 1, events)]]

(* get_mut panics on none of the events.                                   *)
Tracked(events) == \A e \in events : \A r \in e.random : InWindow(trks[r[1]], r[2])

-----------------------------------------------------------------------------
(* Evaluation of one wire (eval_wire), in order, then of its fanout.       *)
NextWire == Len(ws) + 1
Evaluating == pc = "eval" /\ verdict = "running" /\ NextWire \in Wires
Op(i) == ws[Fanin(NextWire)[i]]

(* The operands leaked.  Inside of a gadget no event is recorded           *)
(* (sim_state is None).                                                    *)
WireLeaks ==
    IF NextWire \in net.inner THEN <<>>
    ELSE CASE Kind(NextWire) = "NOT" -> <<Op(1)>>
           [] Kind(NextWire) \in BinaryGates -> BinaryLeaks(Kind(NextWire), Op(1), Op(2))
           [] Kind(NextWire) = "MUX" -> MuxLeaks(Op(1), Op(2), Op(3))
           [] OTHER -> <<>>

WireEvents == {Event("leak", WireLeaks[i], i) : i \in DOMAIN WireLeaks}

Evaluated(res) ==
    /\ IF Tracked(WireEvents)
       THEN /\ ws' = Append(ws, res)
            /\ trks' = [p \in Ports |-> Recorded(trks[p], p, WireEvents)]
            /\ UNCHANGED verdict
       ELSE /\ verdict' = "untracked"
            /\ UNCHANGED <<ws, trks>>
    /\ pc' = IF NextWire = Len(net.wires) THEN "finish" ELSE pc
    /\ UNCHANGED <<net, cycle, past, lastNs, sig, lastStart>>

EvalTie ==
    /\ Evaluating /\ Kind(NextWire) = "tie"
    /\ Evaluated(with_value(control, net.wires[NextWire].id))

EvalPort == Evaluating /\ Kind(NextWire) = "port" /\ Evaluated(Op(1))

EvalUnary ==
    /\ Evaluating
    /\ \/ Kind(NextWire) = "BUF" /\ Evaluated(Op(1))
       \/ Kind(NextWire) = "NOT" /\ Evaluated(negate(Op(1)))

EvalBinary ==
    /\ Evaluating /\ Kind(NextWire) \in BinaryGates
    /\ Evaluated(BinarySim(Kind(NextWire), Op(1), Op(2)))

EvalMux ==
    /\ Evaluating /\ Kind(NextWire) = "MUX"
    /\ Evaluated(MuxSim(Op(1), Op(2), Op(3)))

EvalDff ==
    /\ Evaluating /\ Kind(NextWire) = "DFF"
    /\ Evaluated(stop_glitches(past[1][Fanin(NextWire)[1]]))

-----------------------------------------------------------------------------
(* Pipeline gadgets.                                                       *)

(* The inputs that belong to the execution whose outputs of latency lat    *)
(* are on the wires now, and their states when they entered the gadget.    *)
TakenBefore(g, lat) == {k \in GInputs(g) : GIn(g, k).lat < lat}     \* mutant
Taken(g, lat) == {k \in GInputs(g) : GIn(g, k).lat <= lat}
InputAt(g, k, lat) == At(GIn(g, k).wire, lat - GIn(g, k).lat)

(* The execution cycle of a gadget whose outputs of latency lat are out.   *)
ExecStart(g, lat) == cycle - lat                                 \* mutant
ExecCycle(g, lat) == cycle + max_input_latency(g) - lat

(* compute_output_state.                                                   *)
StageStatus(g, lat) ==
    LET own == IF ExecCycle(g, lat) >= 0 THEN DepSingle(g, ExecCycle(g, lat)) ELSE NoDep
        In(k) == InputAt(g, k, lat)
    IN  [deterministic |-> \A k \in Taken(g, lat) : In(k).deterministic,
         sensitive |-> \E k \in Taken(g, lat) : In(k).sensitivity # {},
         glitch_sensitive |-> \E k \in Taken(g, lat) :
                                \/ In(k).sensitivity # {}
                                \/ GIn(g, k).lat = lat /\ In(k).glitch_sensitivity # {},
         nspgi_dep |-> [h \in Nspgis |->
                          Max({own[h]} \cup {In(k).nspgi_dep[h] : k \in Taken(g, lat)})]]

InputsSet(g) == \A k \in GInputs(g) : GIn(g, k).wire \in DOMAIN ws

(* What the annotations say of an output, apart from its value, and how    *)
(* they cover what the implementation gives (assertions of eval_output).   *)
Annotated(status, id) ==
    [sensitivity |-> IF status.sensitive THEN {id} ELSE {},
     glitch_sensitivity |-> IF status.glitch_sensitive THEN {id} ELSE {},
     value |-> X, random |-> {},
     deterministic |-> status.deterministic,
     nspgi_dep |-> status.nspgi_dep]

Covers(g_res, res) ==
    /\ res.sensitivity # {} => g_res.sensitivity # {}
    /\ res.glitch_sensitivity # {} => g_res.glitch_sensitivity # {}
    /\ g_res.deterministic => res.deterministic
    /\ DepMax(g_res.nspgi_dep, res.nspgi_dep) = g_res.nspgi_dep

Implementation == Range(Tail(Fanin(NextWire)))
OutputValues == IF Implementation = {} THEN GadgetValues ELSE {ws[w].value : w \in Implementation}

(* PipelineGadgetEvaluator::eval_output.                                   *)
GadgetPanic(why) ==
    /\ verdict' = why
    /\ UNCHANGED <<net, cycle, pc, ws, past, trks, lastNs, sig, lastStart>>

EvalGadget ==
    /\ Evaluating /\ Kind(NextWire) = "gadget"
    /\ LET g == Fanin(NextWire)[1]
           lat == net.wires[NextWire].lat
           g_res == Annotated(StageStatus(g, lat), net.wires[NextWire].id)
       IN  IF lat = 0 /\ ~InputsSet(g) THEN GadgetPanic("unset")
           ELSE IF \E w \in Implementation : ~Covers(g_res, ws[w]) THEN GadgetPanic("uncovered")
           ELSE \E v \in OutputValues : Evaluated(with_value(g_res, v))

(* The events of eval_finish: a register stores its input, a gadget uses   *)
(* and leaks the randoms of the execution whose inputs are now complete,   *)
(* and stores those of the executions that are not.                        *)
Dffs == {w \in Wires \ net.inner : Kind(w) = "DFF"}
DffEvents == {Event("store", ws[Fanin(w)[1]], <<w>>) : w \in Dffs}

rel_lat(g, k) == max_input_latency(g) - GIn(g, k).lat

RndEvents(g, k) ==
    LET used == At(GIn(g, k).wire, rel_lat(g, k))
    IN  (IF StageStatus(g, max_input_latency(g)).sensitive
         THEN {Event("use", used, <<g, k>>)} ELSE {})
        \cup {Event("leak", used, <<g, k>>)}
        \cup {Event("store", At(GIn(g, k).wire, i - 1), <<g, k, i>>) : i \in 1..rel_lat(g, k)}

GadgetEvents == UNION {UNION {RndEvents(g, k) : k \in RndInputs(g)} : g \in Gadgets}
FinishEvents == DffEvents \cup GadgetEvents

Nonsensitive == {g \in Gadgets : ~StageStatus(g, max_input_latency(g)).glitch_sensitive}

(* nspgi_det_exec: the vector grows up to the index it is written at.      *)
ExtendedLastNs ==
    [g \in 1..Max({Len(lastNs)} \cup Nonsensitive) |->
        IF g \in Nonsensitive THEN cycle
        ELSE IF g <= Len(lastNs) THEN lastNs[g] ELSE NoExec]

(* eval_finish of the instances, once all the wires are evaluated.         *)
EvalFinish ==
    /\ pc = "finish" /\ verdict = "running"
    /\ IF Tracked(FinishEvents)
       THEN /\ trks' = [p \in Ports |-> Recorded(trks[p], p, FinishEvents)]
            /\ lastNs' = ExtendedLastNs
            /\ pc' = "check"
            /\ UNCHANGED verdict
       ELSE /\ verdict' = "untracked"
            /\ UNCHANGED <<pc, trks, lastNs>>
    /\ UNCHANGED <<net, cycle, ws, past, sig, lastStart>>

-----------------------------------------------------------------------------
(* The checks (SimuIter::check).                                           *)

(* Wires given to check_wire: those whose source is not an input of the    *)
(* module they are in, outside of the gadgets.                             *)
CheckedWires == {w \in Wires \ net.inner : Kind(w) \notin InputKinds \cup {"port"}}

(* check_safe_out of a gate: the shares of its inputs in this cycle, and   *)
(* those it takes for the shares of the previous cycle.                    *)
SensitiveCurrent(w) == UNION {ws[Fanin(w)[i]].sensitivity : i \in DOMAIN Fanin(w)}
SensitivePrev(w) == UNION {ws[Fanin(w)[i]].sensitivity : i \in DOMAIN Fanin(w)}

UnsafeOut(w) ==
    /\ Kind(w) \in CombKinds
    /\ \/ Cardinality(SensitiveCurrent(w)) > 1
       \/ Cardinality(SensitiveCurrent(w) \cup SensitivePrev(w)) > 1

(* check_safe_input of a gadget: the roles of its inputs.                  *)
UnsafeRole(g, k) ==
    LET w == ws[GIn(g, k).wire]
    IN  CASE GIn(g, k).role = "share" ->
                \/ ~(w.sensitivity \subseteq {GIn(g, k).share})
                \/ ~(w.sensitivity \subseteq {GIn(g, k).share})
          [] GIn(g, k).role = "random" -> w.glitch_sensitivity # {}
          [] GIn(g, k).role = "control" -> ~w.deterministic \/ w.glitch_sensitivity # {}

(* Then the pipeline bubble: last_nonsensitive_exec is indexed, which      *)
(* panics when the vector never grew to g.                                 *)
DependsOnItself(g, k) ==
    /\ ~NoCheckTransitions
    /\ net.gadgets[g].prop = "PINI"
    /\ ws[GIn(g, k).wire].nspgi_dep[g] # NoExec

BubblePanic(g, k) == DependsOnItself(g, k) /\ g > Len(lastNs)

NoBubbleLate(g, k) ==                                            \* mutant
    /\ DependsOnItself(g, k)
    /\ g <= Len(lastNs)
    /\ lastNs[g] < ws[GIn(g, k).wire].nspgi_dep[g] - 1

NoBubble(g, k) ==
    /\ DependsOnItself(g, k)
    /\ g <= Len(lastNs)
    /\ lastNs[g] = NoExec \/ lastNs[g] < ws[GIn(g, k).wire].nspgi_dep[g]

CheckedInputs ==
    UNION {{<<g, k>> : k \in {k \in GInputs(g) : GIn(g, k).wire \in CheckedWires}} : g \in Gadgets}

(* check_safe_finish of a gadget: a sensitive execution has fresh randoms. *)
UnsafeRandom(g) ==
    /\ StageStatus(g, max_input_latency(g)).sensitive
    /\ \E k \in RndInputs(g) : At(GIn(g, k).wire, rel_lat(g, k)).random = {}

(* check_output_ports.                                                     *)
UnsafeOutput(o) ==
    LET w == ws[o.wire]
    IN  IF o.role = "control" THEN w.glitch_sensitivity # {} \/ ~w.deterministic
        ELSE ~(w.sensitivity \subseteq
                 IF con_valid(o.cond, cycle, lastStart, sig.active) THEN {o.share} ELSE {})

(* check_safe_finish of the top-level module looks at the wires, with the  *)
(* gadget inputs they drive, then at the gadgets and the submodules, which *)
(* do the same; then come the randoms and the outputs.                     *)
UnsafeWire ==
    \/ \E w \in CheckedWires : UnsafeOut(w) \/ ~Secure(ws[w])
    \/ \E gk \in CheckedInputs : UnsafeRole(gk[1], gk[2]) \/ NoBubble(gk[1], gk[2])

UnsafeGadget == \E g \in Gadgets : UnsafeRandom(g)

UnsafeCycle ==
    \/ UnsafeGadget
    \/ \E p \in Ports : AnyBad(trks[p])
    \/ \E i \in DOMAIN net.outputs : UnsafeOutput(net.outputs[i])

Unindexed == \E gk \in CheckedInputs : ~UnsafeRole(gk[1], gk[2]) /\ BubblePanic(gk[1], gk[2])

(* The first check that fails ends the run; which wire or gadget comes     *)
(* first depends on the order of evaluation and on the hierarchy, and is a *)
(* choice here.                                                            *)
Outcomes ==
    IF Unindexed THEN {"unindexed"} \cup {v \in {"rejected"} : UnsafeWire \/ UnsafeGadget}
    ELSE IF UnsafeWire \/ UnsafeCycle THEN {"rejected"} ELSE {"running"}

CheckCycle ==
    /\ pc = "check" /\ verdict = "running"
    /\ verdict' \in Outcomes
    /\ pc' = IF verdict' = "running" THEN "next" ELSE pc
    /\ UNCHANGED <<net, cycle, ws, past, trks, lastNs, sig, lastStart>>

EvalWire == EvalTie \/ EvalPort \/ EvalUnary \/ EvalBinary \/ EvalMux \/ EvalDff \/ EvalGadget

Next == StartCycle \/ EvalWire \/ EvalFinish \/ CheckCycle

(* The main loop runs on until it has a verdict.                           *)
Spec == Init /\ [][Next]_simVars /\ WF_simVars(Next)
=============================================================================
