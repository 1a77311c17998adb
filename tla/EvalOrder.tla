------------------------------ MODULE EvalOrder ------------------------------
(***************************************************************************)
(* The recursive evaluators of recsim.rs: how ModuleEvaluator::new orders  *)
(* the wires of every instance, and one cycle of evaluation, then of       *)
(* checks, over the hierarchy of a netlist that NetBuild has built.  The   *)
(* outputs of an instance are evaluated one at a time (queries), in an     *)
(* order fixed beforehand, what is left when all its inputs are known; a   *)
(* call that comes in another order fails an assertion.                    *)
(*                                                                         *)
(* The wires of all module instances and the inputs of all gates are       *)
(* places <<path, number>>, a path being the instances from the top-level  *)
(* module down.  The value of a place is the term it computes (see         *)
(* FlatEval): what the gates compute is the subject of WireState, and the  *)
(* states that gadgets derive from their annotations that of RecSim; of a  *)
(* gadget, only when it reads its inputs matters here.                     *)
(***************************************************************************)
EXTENDS NetBuild

VARIABLES plan,              \* the evaluators: a function from paths of modules
          stack,             \* calls in progress, innermost last
          place,             \* the values of the places that have one
          query_id,          \* next_eval_query_id, then next_check_query_id, per module
          checks,            \* how often each wire and each gadget input was checked
          panic,             \* the assertion that failed, None
          circuit            \* auxiliary: the flat circuit of the design

evalVars == <<plan, stack, place, query_id, checks, panic, circuit>>
vars == <<design, phase, failure, built, top_gadget, plan, stack, place, query_id, checks, panic, circuit>>

Root == <<>>

(* How evaluation panics: an output queried out of order, a wire that has  *)
(* no value or two, a gadget that reads an input with no value, and a      *)
(* gadget in a gadget, for which there is no simulation state.             *)
Panics == {"query", "unset", "set_twice", "gadget_input", "nested"}

Term(op, id, args) == [op |-> op, id |-> id, args |-> args]

-----------------------------------------------------------------------------
(* ModuleEvaluator::new: a depth-first search of the reversed wire graph   *)
(* (DfsPostOrder of petgraph), with a single set of visited wires.  The    *)
(* stack has its top first.                                                *)
Ahead(dag, seen, w) ==
    LET new == Positions(dag, LAMBDA e : e[2] = w /\ e[1] \notin seen)
    IN  [k \in DOMAIN new |-> dag[new[k]][1]]

(* A wire is visited when it first comes to the top of the stack, and      *)
(* found when those before it have been.                                   *)
SearchStep(dag, st) ==
    IF st.stack = <<>> THEN st
    ELSE LET w == Head(st.stack)
             seen == st.seen \cup {w}
         IN  IF w \notin st.seen
             THEN [st EXCEPT !.stack = Ahead(dag, seen, w) \o @, !.seen = seen]
             ELSE [st EXCEPT !.stack = Tail(@),
                             !.found = IF w \in Range(@) THEN @ ELSE Append(@, w)]

(* The search from a start, of as many steps as there are wires to visit   *)
(* and to take off the stack; a start that was visited is taken off first. *)
Search(dag, wires, st, start) ==
    LET run[k \in Nat] ==
            IF k = 0 THEN [st EXCEPT !.stack = <<start>>] ELSE SearchStep(dag, run[k - 1])
    IN  IF start \in st.seen THEN st ELSE run[Cardinality(wires) + Len(dag) + 1]

(* The wires found, and how many of them before each start and in the end. *)
Searches(dag, wires, starts) ==
    LET st[k \in 0..Len(starts)] ==
            IF k = 0 THEN [stack |-> <<>>, seen |-> {}, found |-> <<>>, ends |-> <<0>>]
            ELSE LET s == Search(dag, wires, st[k - 1], starts[k])
                 IN  [s EXCEPT !.ends = Append(@, Len(s.found))]
    IN  st[Len(starts)]

(* Those of them to evaluate: the inputs are set by the parent.            *)
DriverOf(mod, w) == mod.instances[mod.source[w][1]]
EvaluatedAll(mod, ws) == ws                                        \* mutant
Evaluated(mod, ws) == Pick(ws, Positions(ws, LAMBDA w : DriverOf(mod, w).kind # "input"))

(* After the queries, the search starts from every wire.                   *)
LeftoverOutputs(mod) ==                                            \* mutant
    [o \in DOMAIN mod.outputs |-> mod.connection_wires[mod.outputs[o]]]
Leftover(mod) == [k \in 1..Cardinality(DOMAIN mod.source) |-> k - 1]

(* For each instance, the outputs of it that are asked for, in order.      *)
QueriesOf(mod, found, i) ==
    LET of == Positions(found, LAMBDA w : mod.source[w][1] = i)
    IN  [k \in DOMAIN of |-> mod.source[found[of[k]]][2]]

Orders(mod, queries) ==
    LET outs == [k \in DOMAIN queries |-> mod.connection_wires[mod.outputs[queries[k]]]]
        res == Searches(mod.dag, DOMAIN mod.source, outs \o Leftover(mod))
        part(from, to) == Evaluated(mod, SubSeq(res.found, from + 1, to))
    IN  [order |-> [k \in DOMAIN queries |->
                        [con |-> mod.outputs[queries[k]], wires |-> part(res.ends[k], res.ends[k + 1])]],
         finish |-> part(res.ends[Len(outs) + 1], Len(res.found)),
         queries |-> [i \in DOMAIN mod.instances |-> QueriesOf(mod, res.found, i)]]

IsModule(i) == i.kind = "cell" /\ ~is_gate(i.type)
IsGadgetName(m) == built[m].gadget # <<>>

(* The identifiers that the first instances take (EvalInstanceIds): one    *)
(* for a gate, one for a module and those of what it instantiates.         *)
Taken(insts, size) ==
    LET taken[k \in 0..Len(insts)] ==
            IF k = 0 THEN 0
            ELSE taken[k - 1] + (IF IsModule(insts[k]) THEN size[insts[k].type]
                                 ELSE IF insts[k].kind = "cell" THEN 1 ELSE 0)
    IN  taken
Size ==
    LET size[m \in DOMAIN built] ==
            1 + Taken(built[m].instances, size)[Len(built[m].instances)]
    IN  size

(* The evaluator of a module with identifier first; ids[i] is the range    *)
(* [from, to[ of the identifiers of instance i and of what is in it.       *)
Evaluator(m, queries, first) ==
    LET mod == built[m]
        o == Orders(mod, queries)
        taken == Taken(mod.instances, Size)
    IN  [module |-> m, order |-> o.order, finish |-> o.finish, queries |-> o.queries,
         ginst |-> first,
         ids |-> [i \in DOMAIN mod.instances |->
                    [from |-> first + 1 + taken[i - 1], to |-> first + 1 + taken[i]]]]

(* The evaluators of a module and of all that it instantiates.             *)
SubEvaluator(e, i) == Evaluator(built[e.module].instances[i].type, e.queries[i], e.ids[i].from)
SubPaths(evals) ==
    UNION {{Append(p, i) : i \in {i \in DOMAIN built[evals[p].module].instances :
                                    IsModule(built[evals[p].module].instances[i])}} :
           p \in DOMAIN evals}

WithSubs(evals) ==
    [p \in DOMAIN evals \cup SubPaths(evals) |->
        IF p \in DOMAIN evals THEN evals[p] ELSE SubEvaluator(evals[Front(p)], Last(p))]

NewEvaluators(top) ==
    LET level[d \in Nat] ==
            IF d = 0 THEN [p \in {Root} |-> Evaluator(top, <<>>, 0)] ELSE WithSubs(level[d - 1])
    IN  level[Cardinality(Names)]

-----------------------------------------------------------------------------
ModAt(path) == built[plan[path].module]
Inst(path, i) == ModAt(path).instances[i]
IsGadgetAt(path) == IsGadgetName(plan[path].module)
GadgetAt(path) == ModAt(path).gadget[1]
ConnectionWire(path, k) == ModAt(path).connection_wires[k]         \* mutant
InputWire(path, k) == ModAt(path).connection_wires[ModAt(path).inputs[k]]
OutputWire(path, o) == ModAt(path).connection_wires[ModAt(path).outputs[o]]

HasValue(path, n) == <<path, n>> \in DOMAIN place

(* The places a wire gives its value to (eval_fanout and set_input), down  *)
(* to those of the innermost modules.                                      *)
Sinks(x) ==
    IF x[1] \notin DOMAIN plan THEN {}
    ELSE {LET sub == Append(x[1], s[1])
          IN  <<sub, IF IsModule(Inst(x[1], s[1])) THEN InputWire(sub, s[2]) ELSE s[2]>> :
          s \in Range(ModAt(x[1]).sinks[x[2]])}
Fanout(path, w) ==
    LET reach[d \in Nat] ==
            IF d = 0 THEN Sinks(<<path, w>>)
            ELSE reach[d - 1] \cup UNION {Sinks(x) : x \in reach[d - 1]}
    IN  reach[Cardinality(Names)]

Set(path, w, v) ==
    LET reached == Fanout(path, w)
        new == reached \cup {<<path, w>>}
    IN  IF \E p \in reached : p[1] \in DOMAIN plan /\ p \in DOMAIN place
        THEN panic' = "set_twice" /\ UNCHANGED place
        ELSE /\ place' = [p \in new \cup DOMAIN place |-> IF p \in new THEN v ELSE place[p]]
             /\ UNCHANGED panic

Panic(why) == panic' = why /\ UNCHANGED place

(* A frame: the call of eval_output, or of eval_finish (its wires, then    *)
(* its instances), on a module, with what is left to do.                   *)
Frame(path, mode, todo) == [path |-> path, mode |-> mode, todo |-> todo]
Running == panic = None /\ stack # <<>>
Call == Last(stack)
Head1 == Head(Call.todo)
Rest == [Call EXCEPT !.todo = Tail(@)]
Replace(frame) == stack' = Append(Front(stack), frame)
Push(frame, new) == stack' = Front(stack) \o <<frame, new>>

Mode(m) == Running /\ Call.mode = m
InWires == Running /\ Call.mode \in {"query", "finish"} /\ Call.todo # <<>>
SourceInst == ModAt(Call.path).source[Head1][1]
SourceOut == ModAt(Call.path).source[Head1][2]
Source == Inst(Call.path, SourceInst)
SubPath == Append(Call.path, SourceInst)

-----------------------------------------------------------------------------
(* The flat circuit of the design: its nets are the inputs of the top      *)
(* module, the outputs of gates, and the constants and clocks of all       *)
(* module instances.  They are named by the places of their wires.         *)
TopBits(m) ==
    SelectSeq(AllBits(YM(m)), LAMBDA b : /\ YM(m).ports[b[1]].dir = "input"
                                         /\ <<Root, BitWire(YM(m), b)>> \notin ClockNets(m))

FirstCell(m) == Len(built[m].instances) - Len(Cells(m))
InstPath(m, cells) ==
    [k \in DOMAIN cells |->
        LET in == CHOOSE x \in Hierarchy(m) : x[1] = SubSeq(cells, 1, k - 1)
        IN  FirstCell(in[2]) + cells[k]]

FlatCircuit ==
    LET m == design.top
        clocks == ClockNets(m)
        joins == {e \in PortNets(m, "input") \cup {<<e[2], e[1]>> : e \in PortNets(m, "output")} :
                    e[2] \notin clocks}
        ins == TopBits(m)
        gates == UNION {{<<x, c>> : c \in GateCells(x)} : x \in Hierarchy(m)}
        cell(g) == Cells(g[1][2])[g[2]]
        out(g) == <<g[1][1], cell(g).con[GateOf(cell(g).type).outputs[1]][1]>>
        inputs == [k \in DOMAIN ins |-> <<Root, BitWire(YM(m), ins[k])>>]
        ties == {<<x[1], b>> : x \in Hierarchy(m), b \in {0, 1}}
        nets == Range(inputs) \cup ties \cup clocks \cup {out(g) : g \in gates}
        driver[n \in nets \cup {e[2] : e \in joins}] ==
            IF n \in nets THEN n ELSE driver[(CHOOSE e \in joins : e[2] = n)[1]]
        path[cells \in {x[1] : x \in Hierarchy(m)} \cup {Append(g[1][1], g[2]) : g \in gates}] ==
            InstPath(m, cells)
        at(n) == <<path[n[1]], n[2]>>
        net(n) ==
            IF n \in Range(inputs)
            THEN Term("input", <<CHOOSE k \in DOMAIN inputs : inputs[k] = n>>, <<>>)
            ELSE IF n \in clocks THEN Term("clock", <<>>, <<>>)
            ELSE IF n[2] = 0 THEN Term("0", <<>>, <<>>)
            ELSE IF n[2] = 1 THEN Term("1", <<>>, <<>>)
            ELSE LET g == CHOOSE g \in gates : out(g) = n
                     deps == GateOf(cell(g).type).deps
                 IN  Term(cell(g).type,
                          IF cell(g).type = "DFF" THEN path[Append(g[1][1], g[2])] ELSE <<>>,
                          [d \in DOMAIN deps |-> at(driver[<<g[1][1], cell(g).con[deps[d]][1]>>])])
    IN  [p \in {at(n) : n \in nets} |-> net(CHOOSE n \in nets : at(n) = p)]

-----------------------------------------------------------------------------
EvalInit ==
    /\ BuildInit
    /\ plan = <<>>
    /\ stack = <<>>
    /\ place = <<>>
    /\ query_id = <<>>
    /\ checks = <<>>
    /\ panic = None
    /\ circuit = <<>>

Build == BuildNext /\ UNCHANGED evalVars

(* Simulator::new: the evaluator of the top-level module, never queried.   *)
CreateEvaluator ==
    /\ phase = "ready"
    /\ plan' = NewEvaluators(design.top)
    /\ circuit' = FlatCircuit
    /\ phase' = "eval"
    /\ query_id' = [p \in DOMAIN plan' |-> 0]
    /\ stack' = <<Frame(Root, "inputs", [k \in DOMAIN built[design.top].inputs |-> k])>>
    /\ UNCHANGED <<place, checks, panic, design, failure, built, top_gadget>>

(* The inputs of the top-level module are set in order (Simulator::next).  *)
SetInput ==
    /\ Mode("inputs") /\ Call.todo # <<>>
    /\ Set(Root, InputWire(Root, Head1), Term("input", <<Head1>>, <<>>))
    /\ Replace(Rest)
    /\ UNCHANGED <<plan, circuit, query_id, checks>>
    /\ UNCHANGED buildVars

(* Then eval_finish is called on it.                                       *)
Finish(path) == Frame(path, "finish", plan[path].finish)
EndInputs ==
    /\ Mode("inputs") /\ Call.todo = <<>>
    /\ IF query_id[Root] # Len(plan[Root].order) THEN Panic("query") ELSE UNCHANGED <<place, panic>>
    /\ Replace(Finish(Root))
    /\ UNCHANGED <<plan, circuit, query_id, checks>>
    /\ UNCHANGED buildVars

(* eval_wire for a wire that a gate or a constant drives.  A register      *)
(* gives what it stored in the previous cycle.                             *)
EvalWire ==
    /\ InWires /\ phase = "eval" /\ ~IsModule(Source)
    /\ LET n == IF Source.kind = "cell" THEN Len(GateOf(Source.type).deps) ELSE 0
           args == [k \in 1..n |-> <<SubPath, k>>]
           op == IF Source.kind = "clock" THEN "clock" ELSE Source.type
           id == IF op = "DFF" THEN SubPath ELSE <<>>
       IN  IF \E k \in 1..n : args[k] \notin DOMAIN place THEN Panic("unset")
           ELSE Set(Call.path, Head1, Term(op, id, [k \in 1..n |-> place[args[k]]]))
    /\ Replace(Rest)
    /\ UNCHANGED <<plan, circuit, query_id, checks>>
    /\ UNCHANGED buildVars

(* A gadget with an output in its first stage must have all its inputs     *)
(* when this output is evaluated.                                          *)
AllInputs(path, ks) == \A k \in ks : HasValue(path, InputWire(path, k))
FirstStageReady(path, o) ==
    GadgetAt(path).latency[ModAt(path).outputs[o]] = 0
        => AllInputs(path, DOMAIN ModAt(path).inputs)

(* Is the module at the path inside a gadget?                              *)
InGadget(path) == \E p \in DOMAIN plan : IsStrictPrefix(p, path) /\ IsGadgetAt(p)

(* The checks do not enter gadgets.                                        *)
EntersNone(path) == phase = "eval"                                  \* mutant
Enters(path) == phase = "eval" \/ ~IsGadgetAt(path)

(* eval_wire and check_wire for an output of a module: eval_output_inner   *)
(* and check_safe_out_inner, up to their own wires.                        *)
CallOutput ==
    /\ InWires /\ IsModule(Source) /\ Enters(SubPath)
    /\ LET q == query_id[SubPath] + 1
           order == plan[SubPath].order
       IN  IF IsGadgetAt(SubPath) /\ ~FirstStageReady(SubPath, SourceOut)
           THEN Panic("gadget_input") /\ UNCHANGED stack
           ELSE IF q > Len(order) \/ order[q].con # ModAt(SubPath).outputs[SourceOut]
           THEN Panic("query") /\ UNCHANGED stack
           ELSE Push(Call, Frame(SubPath, "query", order[q].wires)) /\ UNCHANGED <<place, panic>>
    /\ UNCHANGED <<plan, circuit, query_id, checks>>
    /\ UNCHANGED buildVars

(* The inputs that the status of a gadget at a latency is computed from    *)
(* in this cycle (compute_output_state).                                   *)
AtLatency(path, lat) ==
    {k \in DOMAIN ModAt(path).inputs : GadgetAt(path).latency[ModAt(path).inputs[k]] = lat}

(* ... and their ends: the value of the output goes to the caller's wire.  *)
Caller == stack[Len(stack) - 1]
Returned == [Caller EXCEPT !.todo = Tail(@)]
PopTo(frame) == stack' = Append(SubSeq(stack, 1, Len(stack) - 2), frame)
Output(path) == plan[path].order[query_id[path] + 1].con

GadgetStatusReady(path) ==
    AllInputs(path, AtLatency(path, GadgetAt(path).latency[Output(path)]))

ReturnOutput ==
    /\ Mode("query") /\ Call.todo = <<>> /\ phase = "eval"
    /\ LET w == ModAt(Call.path).connection_wires[Output(Call.path)]
       IN  IF ~HasValue(Call.path, w) THEN Panic("unset")
           ELSE IF IsGadgetAt(Call.path) /\ InGadget(Call.path) THEN Panic("nested")
           ELSE IF IsGadgetAt(Call.path) /\ ~GadgetStatusReady(Call.path) THEN Panic("gadget_input")
           ELSE Set(Caller.path, Head(Caller.todo), place[<<Call.path, w>>])
    /\ query_id' = [query_id EXCEPT ![Call.path] = @ + 1]
    /\ PopTo(Returned)
    /\ UNCHANGED <<plan, circuit, checks>>
    /\ UNCHANGED buildVars

-----------------------------------------------------------------------------
(* The end of the wires of eval_finish_inner and check_safe_finish_inner:  *)
(* the instances come next.                                                *)
EndWires ==
    /\ Mode("finish") /\ Call.todo = <<>>
    /\ query_id' = [query_id EXCEPT ![Call.path] = @ + 1]
    /\ Replace(Frame(Call.path, "instances", [i \in DOMAIN ModAt(Call.path).instances |-> i]))
    /\ UNCHANGED <<plan, circuit, place, checks, panic>>
    /\ UNCHANGED buildVars

(* The instances of a module are finished one after the other.             *)
SameInstance == Call                                                \* mutant
NextInstance == Rest

(* eval_finish or check_safe_finish on an instance that is not entered: a  *)
(* register stores its input, a gadget looks at all of its inputs.         *)
SkipInstance ==
    /\ Mode("instances") /\ Call.todo # <<>>
    /\ ~(IsModule(Inst(Call.path, Head1)) /\ Enters(Append(Call.path, Head1)))
    /\ IF Inst(Call.path, Head1).type = "DFF" /\ ~HasValue(Append(Call.path, Head1), 2)
       THEN Panic("unset") ELSE UNCHANGED <<place, panic>>
    /\ Replace(NextInstance)
    /\ UNCHANGED <<plan, circuit, query_id, checks>>
    /\ UNCHANGED buildVars

(* On a module, all queries must have come.                                *)
FinishModule ==
    /\ Mode("instances") /\ Call.todo # <<>>
    /\ IsModule(Inst(Call.path, Head1)) /\ Enters(Append(Call.path, Head1))
    /\ LET sub == Append(Call.path, Head1)
       IN  /\ IF query_id[sub] # Len(plan[sub].order) THEN Panic("query")
              ELSE UNCHANGED <<place, panic>>
           /\ Push(NextInstance, Finish(sub))
    /\ UNCHANGED <<plan, circuit, query_id, checks>>
    /\ UNCHANGED buildVars

FinishReady(path) == AllInputs(path, AtLatency(path, GadgetAt(path).max_input_latency))

(* The end of a finish.  The checks follow the evaluation of the top-level *)
(* module, each module counting its queries from 0 again.                  *)
EndFinish ==
    /\ Mode("instances") /\ Call.todo = <<>>
    /\ IF phase = "eval" /\ IsGadgetAt(Call.path) /\ ~FinishReady(Call.path)
       THEN Panic("gadget_input") ELSE UNCHANGED <<place, panic>>
    /\ IF Len(stack) > 1 THEN stack' = Front(stack) /\ UNCHANGED <<phase, query_id>>
       ELSE IF phase = "eval"
       THEN /\ phase' = "check"
            /\ query_id' = [p \in DOMAIN query_id |-> 0]
            /\ stack' = <<Finish(Root)>>
       ELSE /\ phase' = "over"
            /\ stack' = <<>>
            /\ UNCHANGED query_id
    /\ UNCHANGED <<plan, circuit, checks, design, failure, built, top_gadget>>

-----------------------------------------------------------------------------
(* check_wire, its call to check_safe_out apart: the wire itself, then the *)
(* gadget inputs that it is connected to (check_fanout).                   *)
GadgetSinks(path, w) ==
    {<<Append(path, s[1]), s[2]>> : s \in {s \in Range(ModAt(path).sinks[w]) :
        IsModule(Inst(path, s[1])) /\ IsGadgetAt(Append(path, s[1]))}}

Times(c) == IF c \in DOMAIN checks THEN checks[c] ELSE 0
CheckAt(path, w) ==
    LET seen == {<<path, w>>} \cup GadgetSinks(path, w)
    IN  IF \E c \in seen : ~HasValue(c[1], IF c[1] = path THEN w ELSE InputWire(c[1], c[2]))
        THEN Panic("unset") /\ UNCHANGED checks
        ELSE /\ checks' = [c \in seen \cup DOMAIN checks |->
                              IF c \in seen THEN Times(c) + 1 ELSE checks[c]]
             /\ UNCHANGED <<place, panic>>

CheckWire ==
    /\ InWires /\ phase = "check"
    /\ IsModule(Source) => ~Enters(SubPath)
    /\ CheckAt(Call.path, Head1)
    /\ Replace(Rest)
    /\ UNCHANGED <<plan, circuit, query_id>>
    /\ UNCHANGED buildVars

ReturnCheck ==
    /\ Mode("query") /\ Call.todo = <<>> /\ phase = "check"
    /\ CheckAt(Caller.path, Head(Caller.todo))
    /\ query_id' = [query_id EXCEPT ![Call.path] = @ + 1]
    /\ PopTo(Returned)
    /\ UNCHANGED <<plan, circuit>>
    /\ UNCHANGED buildVars

-----------------------------------------------------------------------------
Evaluate ==
    \/ SetInput \/ EndInputs \/ EvalWire \/ CallOutput \/ ReturnOutput
    \/ EndWires \/ SkipInstance \/ FinishModule \/ EndFinish
    \/ CheckWire \/ ReturnCheck

EvalNext == Build \/ CreateEvaluator \/ Evaluate

(* A sequential program: it does not stop in the middle of a cycle.        *)
EvalSpec == EvalInit /\ [][EvalNext]_vars /\ WF_vars(Evaluate)

-----------------------------------------------------------------------------
(* glob_inst2path: the path of the instance with an identifier, found from *)
(* the ranges of the instances of one module after the other.              *)
InRangeClosed(r, id) == r.from <= id /\ id <= r.to                 \* mutant
InRange(r, id) == r.from <= id /\ id < r.to

PathOf(id) ==
    LET at[d \in Nat] ==
            IF d = 0 THEN Root
            ELSE LET p == at[d - 1]
                 IN  IF p \notin DOMAIN plan \/ id = plan[p].ginst THEN p
                     ELSE Append(p, CHOOSE i \in DOMAIN plan[p].ids : InRange(plan[p].ids[i], id))
    IN  at[Cardinality(Names) + 1]

-----------------------------------------------------------------------------
(* The type invariant of the evaluators.                                   *)
EvalTypeOK ==
    /\ phase \in Phases
    /\ panic \in Panics \cup {None}
    /\ DOMAIN query_id = DOMAIN plan
    /\ \A p \in DOMAIN plan :
          /\ query_id[p] \in 0..(Len(plan[p].order) + 1)
          /\ \A w \in Range(plan[p].finish) : DriverOf(ModAt(p), w).kind # "input"
    /\ \A f \in Range(stack) : f.path \in DOMAIN plan
    /\ \A c \in DOMAIN checks : checks[c] \in Nat \ {0}

(* Evaluation only panics on a gadget inside a gadget, or on a gadget with *)
(* an output in its first stage and an input in a later one (LateInput):   *)
(* the queries come in the order computed beforehand, every gate, register *)
(* and gadget reads inputs that have a value, and no input is set twice.   *)
NestedGadget == \E p \in DOMAIN plan : IsGadgetAt(p) /\ InGadget(p)
LateInput ==
    \E p \in {p \in DOMAIN plan : IsGadgetAt(p)} :
        LET lat == GadgetAt(p).latency
        IN  /\ \E o \in Range(ModAt(p).outputs) : lat[o] = 0
            /\ \E i \in Range(ModAt(p).inputs) : lat[i] # 0
NoOtherPanic ==
    panic # None => \/ panic = "nested" /\ NestedGadget
                    \/ panic = "gadget_input" /\ LateInput

(* Once a cycle is evaluated every wire has its value, those inside of     *)
(* gadgets included: the output trace unwraps them all (vcd_writer.rs,     *)
(* write_state), with no gadget in a gadget.                               *)
EverythingEvaluated ==
    phase \in {"check", "over"} /\ panic = None =>
        \A p \in DOMAIN plan : \A w \in DOMAIN ModAt(p).source : HasValue(p, w)

(* Each wire of a module is checked once per cycle, at any depth outside   *)
(* of the gadgets, and so is each input of a gadget (check_wire and        *)
(* check_fanout); the wires that are inputs of their module are not, with  *)
(* the gadget inputs that are connected to them.                           *)
CheckedOnce ==
    phase = "over" =>
        \A p \in {p \in DOMAIN plan : ~IsGadgetAt(p) /\ ~InGadget(p)} :
            \A w \in DOMAIN ModAt(p).source :
                LET once == IF DriverOf(ModAt(p), w).kind = "input" THEN 0 ELSE 1
                IN  /\ Times(<<p, w>>) = once
                    /\ \A g \in GadgetSinks(p, w) : Times(g) = once

(* Instance identifiers are unique, and glob_inst2path names the instance  *)
(* that new_inst gave one to.                                              *)
IdsNameInstances ==
    phase = "eval" /\ place = <<>> =>
        \A p \in DOMAIN plan :
            /\ PathOf(plan[p].ginst) = p
            /\ \A i \in DOMAIN plan[p].ids :
                  Inst(p, i).kind = "cell" /\ ~IsModule(Inst(p, i))
                      => PathOf(plan[p].ids[i].from) = Append(p, i)

(* Evaluation ends: every cycle that begins is evaluated and checked to    *)
(* its end, unless the program panics.                                     *)
Completes == phase = "eval" ~> (phase = "over" \/ panic # None)

-----------------------------------------------------------------------------
FlatValue == [n \in DOMAIN circuit \cap DOMAIN place |-> place[n]]

Flat == INSTANCE FlatEval WITH value <- FlatValue

(* The hierarchical evaluation of a netlist implements that of the flat    *)
(* circuit: every wire is given the value that its gates compute, once,    *)
(* from wires that have theirs, through any ports and modules.             *)
ImplementsFlat == Flat!FlatSpec

=============================================================================
