------------------------------ MODULE NetBuild ------------------------------
(***************************************************************************)
(* Construction of the netlist (module/builder.rs, module/yosys_ext.rs,    *)
(* module/instance.rs, netlist.rs): the modules of a Yosys netlist are     *)
(* sorted, then built one after the other from those they instantiate,     *)
(* with the order of evaluation of their wires and the inputs each wire    *)
(* depends on in the same cycle; then the top-level gadget is looked up.   *)
(*                                                                         *)
(* A design is [modules, top], modules a function from names to Yosys      *)
(* modules (see PortRoles).  A cell is [type, con], con[p][o + 1] being    *)
(* the wire connected to bit o of its port p.  Wires 0 and 1 are the       *)
(* constants, a wire Unsupported is an x or a z.  Any order of building    *)
(* that sort_modules may give is a behaviour.                              *)
(***************************************************************************)
EXTENDS PortRoles

CONSTANT Designs             \* the netlists to build

VARIABLES design,            \* the Yosys netlist and the name of its top module
          phase,             \* what comes next, the cycle of EvalOrder included
          failure,           \* [error, module] once failed
          built,             \* the modules built: a function from their names
          top_gadget         \* the top-level gadget, once ready

buildVars == <<design, phase, failure, built, top_gadget>>

Phases == {"sort", "build", "top", "ready", "failed", "eval", "check", "over"}
Unsupported == -1
NoFailure == [error |-> None, module |-> None]

-----------------------------------------------------------------------------
(* Graphs: sets of edges <<from, to>>.                                     *)
Upstream(edges, S) ==
    LET grow[k \in Nat] ==
            IF k = 0 THEN S
            ELSE LET X == grow[k - 1] IN X \cup {e[1] : e \in {e \in edges : e[2] \in X}}
    IN  grow[Cardinality(edges)]

HasLoop(edges) ==
    LET inner[k \in Nat] ==
            IF k = 0 THEN {e[2] : e \in edges}
            ELSE LET X == inner[k - 1] IN {e[2] : e \in {e \in edges : e[1] \in X /\ e[2] \in X}}
    IN  inner[Cardinality(edges)] # {}

-----------------------------------------------------------------------------
(* Gates and modules, seen from where they are instantiated.               *)
Comb(n) ==
    [ports |-> [i \in 1..(n + 1) |-> <<i, 0>>], inputs |-> [i \in 1..n |-> i],
     outputs |-> <<n + 1>>, clock |-> NoBit, deps |-> [i \in 1..n |-> i]]
Dff ==
    [ports |-> <<<<1, 0>>, <<2, 0>>, <<3, 0>>>>, inputs |-> <<1, 2>>,
     outputs |-> <<3>>, clock |-> <<1, 0>>, deps |-> <<>>]

GateTypes == {"BUF", "NOT", "AND", "OR", "XOR", "MUX", "DFF"}
GateOf(type) ==
    CASE type \in {"BUF", "NOT"}       -> Comb(1)
      [] type \in {"AND", "OR", "XOR"} -> Comb(2)
      [] type = "MUX"                  -> Comb(3)
      [] type = "DFF"                  -> Dff

is_gate(type) == type \in GateTypes

(* Modules of the netlist; one with the name of a gate is not looked at.   *)
Names == {m \in DOMAIN design.modules : ~is_gate(m)}
YM(m) == design.modules[m]
Cells(m) == YM(m).cells
AllBits(ym) ==
    FlattenSeq([p \in DOMAIN ym.ports |-> [o \in DOMAIN ym.ports[p].bits |-> <<p, o - 1>>]])
BitWire(ym, bit) == ym.ports[bit[1]].bits[bit[2] + 1]
WiresOf(ym) == 0..(ym.n - 1)

(* InstanceType::from_cell.  mods is the ModList, what is built so far.    *)
Interface(mods, type) == IF is_gate(type) THEN GateOf(type) ELSE mods[type]

CellWire(c, bit) == c.con[bit[1]][bit[2] + 1]

(* What the designs are: the wires of a module are numbered from 0 to      *)
(* n - 1 (count_wires asserts it), a cell connects all the ports of its    *)
(* type, and the code divides by the number of shares without a test.      *)
WireBits(ym) == {Unsupported} \cup WiresOf(ym)
PortBits(modules, type) ==
    IF is_gate(type) THEN Range(GateOf(type).ports)
    ELSE IF type \in DOMAIN modules THEN Range(AllBits(modules[type])) ELSE {}

ASSUME DesignsAssumption ==
    \A d \in Designs : IsFiniteSet(DOMAIN d.modules) /\ \A m \in DOMAIN d.modules :
        LET ym == d.modules[m]
        IN  /\ ym.attrs.shares \in {Missing} \cup (Nat \ {0})
            /\ ym.n \in Nat \ {0, 1}
            /\ ym.ports \in Seq(Range(ym.ports)) /\ ym.cells \in Seq(Range(ym.cells))
            /\ \A p \in Range(ym.ports) : p.bits \in Seq(WireBits(ym))
            /\ \A c \in Range(ym.cells) : \A b \in PortBits(d.modules, c.type) :
                  CellWire(c, b) \in WireBits(ym)

cell_connection_wires(c, bits) == [k \in DOMAIN bits |-> CellWire(c, bits[k])]

(* An instance of a module is a constant, the clock, one of the inputs or  *)
(* a cell; con gives the wires of its connections.                         *)
Instance(kind, type, input, con) == [kind |-> kind, type |-> type, input |-> input, con |-> con]

output_ports(mods, i) == IF i.kind = "cell" THEN Interface(mods, i.type).outputs ELSE <<1>>
input_ports(mods, i) == IF i.kind = "cell" THEN Interface(mods, i.type).inputs ELSE <<>>

(* comb_deps: the connections that an output depends on in the same cycle. *)
comb_deps_all(mods, i, con) == input_ports(mods, i)                \* mutant
comb_deps(mods, i, con) ==
    IF i.kind # "cell" THEN <<>>
    ELSE IF is_gate(i.type) THEN GateOf(i.type).deps
    ELSE LET sub == mods[i.type]
         IN  Pick(sub.inputs, sub.comb_input_deps[sub.connection_wires[con]])

-----------------------------------------------------------------------------
(* Ports and instances (Module::from_yosys).                               *)

(* The wires that clock a cell; a clock that is an x makes the code panic. *)
ClockPin(c, bit) == IF bit = NoBit THEN {} ELSE {CellWire(c, bit)}
clock_connection_gates(mods, c) ==                                 \* mutant
    IF is_gate(c.type) THEN ClockPin(c, GateOf(c.type).clock) ELSE {}
clock_connection(mods, c) == ClockPin(c, Interface(mods, c.type).clock)

ClockWires(mods, ym) == UNION {clock_connection(mods, c) : c \in Range(ym.cells)}
module_clock_wire(mods, ym) ==
    IF ClockWires(mods, ym) = {} THEN Unsupported ELSE CHOOSE w \in ClockWires(mods, ym) : TRUE

(* ports: the bits of the ports but the clock, and the clock.              *)
is_clock(ym, clock, bit) == clock # Unsupported /\ BitWire(ym, bit) = clock
ports(ym, clock) ==
    LET all == AllBits(ym) IN Pick(all, Positions(all, LAMBDA b : ~is_clock(ym, clock, b)))
clock_name(ym, clock) ==
    LET all == AllBits(ym)
        found == {k \in DOMAIN all : is_clock(ym, clock, all[k])}
    IN  IF found = {} THEN NoBit ELSE all[Max(found)]

filter_ports(ym, bits, dir) == Positions(bits, LAMBDA b : ym.ports[b[1]].dir = dir)

tie_instances == <<Instance("tie", "0", 0, <<0>>), Instance("tie", "1", 0, <<1>>)>>
clock_instances(clock) ==
    IF clock = Unsupported THEN <<>> ELSE <<Instance("clock", None, 0, <<clock>>)>>
input_instances(ym, bits) ==
    LET ins == filter_ports(ym, bits, "input")
    IN  [i \in DOMAIN ins |-> Instance("input", None, i, <<BitWire(ym, bits[ins[i]])>>)]
module_instances(mods, ym) ==
    [c \in DOMAIN ym.cells |->
        LET cell == ym.cells[c]
        IN  Instance("cell", cell.type, 0,
                     cell_connection_wires(cell, Interface(mods, cell.type).ports))]

Instances(mods, ym) ==
    LET clock == module_clock_wire(mods, ym)
    IN  tie_instances \o clock_instances(clock)
            \o input_instances(ym, ports(ym, clock)) \o module_instances(mods, ym)

-----------------------------------------------------------------------------
(* Sources and sinks of the wires.                                         *)

(* Every output of every instance that drives a wire.                      *)
drivers(mods, insts, w) ==
    {d \in UNION {{<<i, o>> : o \in DOMAIN output_ports(mods, insts[i])} : i \in DOMAIN insts} :
        insts[d[1]].con[output_ports(mods, insts[d[1]])[d[2]]] = w}

wires_sinks_cons(mods, insts, w) ==                                \* mutant
    FlattenSeq([i \in DOMAIN insts |->
        LET ins == input_ports(mods, insts[i])
            on == Positions(ins, LAMBDA c : insts[i].con[c] = w)
        IN  [k \in DOMAIN on |-> <<i, ins[on[k]]>>]])
wires_sinks(mods, insts, w) ==
    FlattenSeq([i \in DOMAIN insts |->
        LET ins == input_ports(mods, insts[i])
            on == Positions(ins, LAMBDA c : insts[i].con[c] = w)
        IN  [k \in DOMAIN on |-> <<i, on[k]>>]])

(* comb_wire_dag: its edges, in the order in which they are added.         *)
comb_wire_dag(mods, insts) ==
    FlattenSeq(FlattenSeq([i \in DOMAIN insts |->
        LET outs == output_ports(mods, insts[i])
        IN  [o \in DOMAIN outs |->
                LET deps == comb_deps(mods, insts[i], outs[o])
                IN  [d \in DOMAIN deps |-> <<insts[i].con[deps[d]], insts[i].con[outs[o]]>>]]]))

(* comb_depsets, along the sorted wires: the inputs that each wire depends *)
(* on, from gives the wires that it depends on at once.                    *)
comb_depsets(insts, source, from) ==
    LET deps[w \in DOMAIN from] ==
            IF insts[source[w][1]].kind = "input" THEN {insts[source[w][1]].input}
            ELSE UNION {deps[v] : v \in from[w]}
    IN  deps

comb_input_deps(mods, insts, wires, source) ==
    LET from == [w \in wires |->
                    LET i == insts[source[w][1]]
                        deps == comb_deps(mods, i, output_ports(mods, i)[source[w][2]])
                    IN  {i.con[c] : c \in Range(deps)}]
        deps == comb_depsets(insts, source, from)
    IN  [w \in wires |-> Increasing(deps[w])]

-----------------------------------------------------------------------------
(* update_pipeline_gadget_deps: in every stage, each output of a gadget    *)
(* depends on each input, whatever the module does.                        *)
StageDeps(mod, gadget) ==
    FlattenSeq([o \in DOMAIN mod.outputs |->
        LET stage == Positions(mod.inputs,
                        LAMBDA c : gadget.latency[c] = gadget.latency[mod.outputs[o]])
        IN  [k \in DOMAIN stage |-> <<stage[k], mod.connection_wires[mod.outputs[o]]>>]])

no_stage_edges(mod, gadget) == mod                                 \* mutant
update_pipeline_gadget_deps(mod, gadget) ==
    LET new == StageDeps(mod, gadget)
        added(w) == Pick(new, Positions(new, LAMBDA e : e[2] = w))
    IN  [mod EXCEPT
            !.dag = @ \o [k \in DOMAIN new |->
                            <<mod.connection_wires[mod.inputs[new[k][1]]], new[k][2]>>],
            !.comb_input_deps = [w \in DOMAIN @ |->
                            @[w] \o [k \in DOMAIN added(w) |-> added(w)[k][1]]]]

-----------------------------------------------------------------------------
(* One module: Module::from_yosys, PipelineGadget::new and                 *)
(* ModuleCombDeps::new.                                                    *)
DriverError(mods, insts, wires) ==
    FirstError(<<Check(\E w \in wires : Cardinality(drivers(mods, insts, w)) > 1, "two_drivers"),
                 Check(\E w \in wires : drivers(mods, insts, w) = {}, "no_driver")>>)

BuildModule(mods, ym) ==
    LET clock == module_clock_wire(mods, ym)
        bits == ports(ym, clock)
        insts == Instances(mods, ym)
        ins == filter_ports(ym, bits, "input")
        outs == filter_ports(ym, bits, "output")
        source == [w \in WiresOf(ym) |-> CHOOSE d \in drivers(mods, insts, w) : TRUE]
        dag == comb_wire_dag(mods, insts)
        shape == [ports |-> bits, inputs |-> ins, outputs |-> outs, clock |-> clock_name(ym, clock)]
        mod == [ports |-> bits, clock |-> shape.clock, inputs |-> ins, outputs |-> outs,
                instances |-> insts, gadget |-> <<>>,
                connection_wires |-> [c \in DOMAIN bits |-> BitWire(ym, bits[c])],
                source |-> source,
                sinks |-> [w \in WiresOf(ym) |-> wires_sinks(mods, insts, w)],
                dag |-> dag,
                comb_input_deps |-> comb_input_deps(mods, insts, WiresOf(ym), source)]
        error == FirstError(<<
            Check(\E i \in Range(module_instances(mods, ym)) : Unsupported \in Range(i.con),
                  "unsupported_wire"),
            Check(Unsupported \in ClockWires(mods, ym), "panic_clock"),
            Check(Cardinality(ClockWires(mods, ym)) > 1, "several_clocks"),
            Check(\E b \in Range(bits) : ym.ports[b[1]].dir = "inout", "inout"),
            Check(\E b \in Range(bits) : BitWire(ym, b) = Unsupported, "unsupported_wire")>>)
        driver == DriverError(mods, insts, WiresOf(ym))
        gadget == PipelineError(ym, shape)
    IN  IF error # None THEN Fail(error)
        ELSE IF driver # None THEN Fail(driver)
        ELSE IF gadget # None THEN Fail(gadget)
        ELSE IF HasLoop(Range(dag)) THEN Fail("loop")
        ELSE IF ~IsPipeline(ym) THEN Done(mod)
        ELSE LET g == PipelineGadget(ym, shape)
             IN  Done([update_pipeline_gadget_deps(mod, g) EXCEPT !.gadget = <<g>>])

-----------------------------------------------------------------------------
BuildInit ==
    /\ design \in Designs
    /\ phase = "sort"
    /\ failure = NoFailure
    /\ built = <<>>
    /\ top_gadget = <<>>

FailWith(error, m) ==
    /\ phase' = "failed"
    /\ failure' = [error |-> error, module |-> m]
    /\ UNCHANGED <<built, top_gadget>>

(* sort_modules: every cell must be a gate or a module of the netlist, and *)
(* no module may instantiate itself.                                       *)
Submodules(m) == {c.type : c \in {c \in Range(Cells(m)) : ~is_gate(c.type)}}
Instantiates == UNION {{<<s, m>> : s \in Submodules(m)} : m \in Names}

SortModules ==
    /\ phase = "sort"
    /\ LET unknown == {m \in Names : ~(Submodules(m) \subseteq Names)}
       IN  IF unknown # {} THEN \E m \in unknown : FailWith("unknown_cell", m)
           ELSE IF HasLoop(Instantiates) THEN FailWith("recursive", None)
           ELSE phase' = "build" /\ UNCHANGED <<failure, built, top_gadget>>
    /\ UNCHANGED design

(* The next module of ModListBuilder::new.                                 *)
AddModule(m) ==
    /\ phase = "build"
    /\ m \notin DOMAIN built
    /\ Submodules(m) \subseteq DOMAIN built
    /\ LET res == BuildModule(built, YM(m))
       IN  IF res.error # None THEN FailWith(res.error, m)
           ELSE /\ built' = [k \in DOMAIN built \cup {m} |-> IF k = m THEN res.value ELSE built[k]]
                /\ phase' = IF DOMAIN built' = Names THEN "top" ELSE "build"
                /\ UNCHANGED <<failure, top_gadget>>
    /\ UNCHANGED design

(* The end of Netlist::new                                                 *)
SelectTop ==
    /\ phase = "top"
    /\ LET t == design.top
       IN  IF t \notin DOMAIN built THEN FailWith("no_top", t)
           ELSE IF TopError(YM(t), built[t]) # None THEN FailWith(TopError(YM(t), built[t]), t)
           ELSE /\ top_gadget' = <<TopGadget(YM(t), built[t])>>
                /\ phase' = "ready"
                /\ UNCHANGED <<failure, built>>
    /\ UNCHANGED design

BuildNext == SortModules \/ (\E m \in Names : AddModule(m)) \/ SelectTop

BuildSpec == BuildInit /\ [][BuildNext]_buildVars

-----------------------------------------------------------------------------
(* The design as a flat circuit, from the Yosys netlist alone: a net is    *)
(* <<path, wire>>, path the cells from module m down to the one the wire   *)
(* is in.                                                                  *)
Hierarchy(m) ==
    LET level[k \in Nat] ==
            IF k = 0 THEN {<<<<>>, m>>}
            ELSE level[k - 1] \cup UNION
                    {{<<Append(x[1], c), Cells(x[2])[c].type>> :
                        c \in {c \in DOMAIN Cells(x[2]) : ~is_gate(Cells(x[2])[c].type)}} :
                     x \in level[k - 1]}
    IN  level[Cardinality(Names)]

Subs(m) == {x \in Hierarchy(m) : x[1] # <<>>}
CellOf(m, x) ==
    LET up == CHOOSE u \in Hierarchy(m) : u[1] = Front(x[1])
    IN  Cells(up[2])[Last(x[1])]

(* The two nets that each port bit of an instance joins: outer and inner.  *)
PortNets(m, dir) ==
    UNION {{<<<<Front(x[1]), CellWire(CellOf(m, x), b)>>, <<x[1], BitWire(YM(x[2]), b)>>>> :
              b \in {b \in Range(AllBits(YM(x[2]))) : YM(x[2]).ports[b[1]].dir = dir}} :
           x \in Subs(m)}

GateNets(m, x, c) ==
    LET cell == Cells(x[2])[c]
        g == GateOf(cell.type)
    IN  {<<<<x[1], cell.con[d][1]>>, <<x[1], cell.con[g.outputs[1]][1]>>>> : d \in Range(g.deps)}

GateCells(x) == {c \in DOMAIN Cells(x[2]) : is_gate(Cells(x[2])[c].type)}

(* The nets that clock the registers, up to where they come from.          *)
ClockPins(m) ==
    UNION {{<<x[1], Cells(x[2])[c].con[1][1]>> :
              c \in {c \in GateCells(x) : Cells(x[2])[c].type = "DFF"}} : x \in Hierarchy(m)}
ClockNets(m) == Upstream(PortNets(m, "input"), ClockPins(m))
ClockRoots(m) == {n \in ClockNets(m) : \A e \in PortNets(m, "input") : e[2] # n}

(* Same-cycle dependencies between nets.  Those that the stages of a       *)
(* gadget add are between the nets it is connected to, in its parent; an   *)
(* output stands for the wire it is on, with the other outputs on it.      *)
StageDep(ym, i, o) ==
    /\ PortOf(ym, i).dir = "input" /\ PortOf(ym, i).type # "clock"
    /\ PortOf(ym, o).dir = "output"
    /\ \E q \in Range(AllBits(ym)) :
          /\ PortOf(ym, q).dir = "output" /\ BitWire(ym, q) = BitWire(ym, o)
          /\ PortOf(ym, q).latency = PortOf(ym, i).latency

StageNets(m) ==
    UNION {{<<<<Front(x[1]), CellWire(CellOf(m, x), e[1])>>,
              <<Front(x[1]), CellWire(CellOf(m, x), e[2])>>>> :
              e \in {e \in Range(AllBits(YM(x[2]))) \X Range(AllBits(YM(x[2]))) :
                        StageDep(YM(x[2]), e[1], e[2])}} :
           x \in {x \in Subs(m) : IsPipeline(YM(x[2]))}}

FlatEdges(m) ==
    {e \in PortNets(m, "input") \cup {<<e[2], e[1]>> : e \in PortNets(m, "output")}
            \cup StageNets(m)
            \cup UNION {UNION {GateNets(m, x, c) : c \in GateCells(x)} : x \in Hierarchy(m)} :
        e[2] \notin ClockNets(m)}

(* The inputs of m that wire w depends on, and that a gadget's own stages  *)
(* add to its outputs.                                                     *)
FlatDeps(m, w) ==
    LET cone == Upstream(FlatEdges(m), {<<<<>>, w>>})
        mod == built[m]
        ins == DOMAIN mod.inputs
        wire(c) == mod.connection_wires[c]
    IN  {i \in ins : <<<<>>, wire(mod.inputs[i])>> \in cone}
          \cup IF ~IsPipeline(YM(m)) THEN {}
               ELSE {i \in ins : \E o \in Range(mod.outputs) :
                        /\ wire(o) = w
                        /\ PortOf(YM(m), mod.ports[o]).latency
                                = PortOf(YM(m), mod.ports[mod.inputs[i]]).latency}

Stopped == phase \in {"ready", "failed"}

-----------------------------------------------------------------------------
(* The type invariant of the construction, whose modules evaluation leaves *)
(* as they are.                                                            *)
ModuleOK(m) ==
    LET mod == built[m]
        wires == WiresOf(YM(m))
    IN  /\ Range(mod.connection_wires) \subseteq wires
        /\ DOMAIN mod.source = wires /\ DOMAIN mod.sinks = wires
        /\ \A w \in wires :
              /\ mod.source[w][1] \in DOMAIN mod.instances
              /\ Range(mod.comb_input_deps[w]) \subseteq DOMAIN mod.inputs
        /\ \A w \in wires : \A s \in Range(mod.sinks[w]) :
              /\ s[1] \in DOMAIN mod.instances
              /\ s[2] \in DOMAIN input_ports(built, mod.instances[s[1]])
        /\ \A e \in Range(mod.dag) : e[1] \in wires /\ e[2] \in wires
        /\ Len(mod.gadget) = (IF IsPipeline(YM(m)) THEN 1 ELSE 0)

TypeOK ==
    /\ design \in Designs
    /\ phase \in Phases
    /\ DOMAIN built \subseteq Names
    /\ phase \in {"build", "top", "failed"} => \A m \in DOMAIN built : ModuleOK(m)

(* The clock of a module comes in through one bit of its ports.  The code  *)
(* does not check it: Module.clock is the last port bit on the clock wire, *)
(* whatever its direction, the others being left unconnected, and a clock  *)
(* that no port brings is taken as an input.                               *)
ClockBits(m) ==
    {b \in Range(AllBits(YM(m))) : BitWire(YM(m), b) \in ClockWires(built, YM(m))}
OneClockBit ==
    \A m \in DOMAIN built : \A b \in ClockBits(m) :
        ClockBits(m) = {b} /\ YM(m).ports[b[1]].dir = "input"
ClocksArePorts ==
    OneClockBit /\ \A m \in DOMAIN built : ClockWires(built, YM(m)) # {} => ClockBits(m) # {}

(* The dependencies computed module by module (comb_depsets,               *)
(* comb_input_deps, update_pipeline_gadget_deps), each from the summaries  *)
(* of the modules it instantiates, are those of the flat circuit, when the *)
(* clock of each module comes in through one port bit.                     *)
DepsAreReachability ==
    Stopped /\ OneClockBit => \A m \in DOMAIN built : \A w \in WiresOf(YM(m)) :
        Range(built[m].comb_input_deps[w]) = FlatDeps(m, w)

(* A module is refused for a combinational loop exactly when its flat      *)
(* circuit has one, with the stages of the gadgets it instantiates: not    *)
(* when two outputs of an instance only depend on each other's inputs.     *)
(* The clocks are as above.                                                *)
LoopsExact ==
    OneClockBit =>
        /\ failure.error = "loop" => HasLoop(FlatEdges(failure.module))
        /\ Stopped => \A m \in DOMAIN built : ~HasLoop(FlatEdges(m))

(* The registers of an accepted design whose clocks come in through ports  *)
(* are clocked by one net, at whatever depth they are: module_clock_wire   *)
(* looks at one module at a time.                                          *)
OneClock == phase = "ready" /\ ClocksArePorts => Cardinality(ClockRoots(design.top)) <= 1

(* Every bit of a sharing of a gadget is one share of it, and each sharing *)
(* has one bit of each share, in both layouts (PortKind, share_id).        *)
SharingsComplete ==
    Stopped => \A m \in {m \in DOMAIN built : IsGadget(YM(m).attrs)} :
        LET n == YM(m).attrs.shares
        IN  \A p \in {p \in Range(YM(m).ports) : p.type \in Dense \cup {"sharings_strided"}} :
              \A j \in 0..(Width(p) \div n - 1), s \in 0..(n - 1) :
                  Cardinality({o \in 0..(Width(p) - 1) :
                      share_id(p, o, n) = s /\ sharing_of(p, o, n) = j}) = 1

(* Randomness ports are numbered without gap in both representations of a  *)
(* gadget: entry k of rnd_ports is the input whose role is random k.       *)
RandomsNumbered ==
    LET numbered(rnd, role) ==
            /\ \A k \in DOMAIN rnd : role[rnd[k]] = <<"random", k - 1>>
            /\ {i \in DOMAIN role : role[i][1] = "random"} = Range(rnd)
    IN  /\ \A m \in DOMAIN built : built[m].gadget # <<>> =>
              LET g == built[m].gadget[1] IN numbered(g.rnd_ports, g.input_roles)
        /\ phase = "ready" =>
              LET ins == built[design.top].inputs
              IN  numbered(top_gadget[1].rnd_ports,
                           [i \in DOMAIN ins |-> top_gadget[1].port_roles[ins[i]]])

=============================================================================
