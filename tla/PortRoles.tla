------------------------------ MODULE PortRoles ------------------------------
(***************************************************************************)
(* What the annotations of a Yosys module mean: the attributes of a gadget *)
(* and of its ports (gadget/yosys_ext.rs), the role of each bit of a port  *)
(* (gadget/gadget_builder.rs), the pipeline gadget they define             *)
(* (gadget/pipeline.rs) and the top-level one (gadget/top.rs).             *)
(*                                                                         *)
(* A module is [ports, cells, n, attrs].  A port is [dir, bits, type,      *)
(* share, latency, lat, active], ports being in the order of their names;  *)
(* a bit of a port is <<port, offset>>, offsets counted from 0.  Once the  *)
(* clock is known, a module is the record [ports, inputs, outputs, clock]: *)
(* the sequence of its other bits, those of them that are inputs and       *)
(* outputs (positions in ports), and the bit of the clock, if any.         *)
(***************************************************************************)
EXTENDS SequencesExt, FiniteSetsExt, Integers

None == "none"               \* an absent annotation
Missing == -1                \* an absent annotation with an integer value
NoBit == <<0, 0>>            \* no clock port

(* A step of the analysis fails, or gives a value.                         *)
Fail(error) == [error |-> error]
Done(value) == [error |-> None, value |-> value]

(* The numbers of a finite set in increasing order.                        *)
Increasing(S) ==
    [k \in 1..Cardinality(S) |-> CHOOSE x \in S : Cardinality({y \in S : y < x}) = k - 1]

(* The positions of a sequence where a test holds, in order.               *)
Positions(seq, Test(_)) == Increasing({i \in DOMAIN seq : Test(seq[i])})

(* A sequence at some positions.                                           *)
Pick(seq, positions) == [k \in DOMAIN positions |-> seq[positions[k]]]

(* The first error of a sequence of checks, in their order.                *)
Check(bad, error) == [bad |-> bad, error |-> error]
FirstError(checks) ==
    LET failed == {i \in DOMAIN checks : checks[i].bad}
    IN  IF failed = {} THEN None ELSE checks[Min(failed)].error

-----------------------------------------------------------------------------
(* Kinds of ports and share indices.                                       *)
Dense == {"sharing", "sharings_dense"}
ShareTypes == Dense \cup {"sharings_strided", "share"}
PortTypes == ShareTypes \cup {"random", "control", "clock"}

Width(p) == Len(p.bits)

(* PortKind::new                                                           *)
PortKindError(p, nshares) ==
    FirstError(<<
        Check(p.type \in Dense \cup {"sharings_strided"} /\ Width(p) % nshares # 0, "width"),
        Check(p.type = "share" /\ p.share = Missing, "no_share"),
        Check(p.type = "clock" /\ Width(p) # 1, "clock_width"),
        Check(p.type \notin PortTypes, "type")>>)

(* ModulePortKinds::share_id                                               *)
share_id_blocks(p, offset, nshares) ==                             \* mutant
    IF p.type \in Dense THEN offset \div nshares
    ELSE IF p.type = "sharings_strided" THEN offset % (Width(p) \div nshares)
    ELSE p.share
share_id(p, offset, nshares) ==
    IF p.type \in Dense THEN offset % nshares
    ELSE IF p.type = "sharings_strided" THEN offset \div (Width(p) \div nshares)
    ELSE p.share

(* The sharing, in its port, that a bit belongs to.                        *)
sharing_of(p, offset, nshares) ==
    IF p.type \in Dense THEN offset \div nshares
    ELSE offset % (Width(p) \div nshares)

-----------------------------------------------------------------------------
(* Module attributes (GadgetAttrs::new and the conversions of mod.rs).     *)
Given(a) == {k \in {"arch", "prop", "strat"} : a[k] # None}
                \cup (IF a.shares = Missing THEN {} ELSE {"shares"})
IsGadget(a) == Given(a) # {}

GadgetAttrsError(a) ==
    FirstError(<<
        Check(Given(a) \notin {{}, {"arch", "prop", "strat", "shares"}}, "all_or_none"),
        Check(IsGadget(a) /\ a.arch \notin {"loopy", "pipeline"}, "arch"),
        Check(IsGadget(a) /\ a.prop \notin {"PINI", "OPINI", "affine"}, "prop"),
        Check(IsGadget(a) /\ a.strat \notin {"assumed", "composite_top"}, "strat")>>)

(* GadgetBuilder::new: the attributes, then the kind of every port.        *)
GadgetBuilderError(ym) ==
    LET kind == [i \in DOMAIN ym.ports |-> PortKindError(ym.ports[i], ym.attrs.shares)]
    IN  IF GadgetAttrsError(ym.attrs) # None THEN GadgetAttrsError(ym.attrs)
        ELSE IF ~IsGadget(ym.attrs) THEN None
        ELSE FirstError([i \in DOMAIN kind |-> Check(kind[i] # None, kind[i])])

-----------------------------------------------------------------------------
(* Roles of the bits of the ports.                                         *)
PortOf(ym, bit) == ym.ports[bit[1]]

(* con2port, without the number of a random.                               *)
RoleError(p) ==
    FirstError(<<Check(p.type = "clock", "undetected_clock"),
                 Check(p.type = "random" /\ p.dir # "input", "random_output")>>)

RolesError(ym, bits) ==
    LET errors == [i \in DOMAIN bits |-> RoleError(PortOf(ym, bits[i]))]
    IN  FirstError([i \in DOMAIN bits |-> Check(errors[i] # None, errors[i])])

(* The randoms are numbered from 0 in the order of the bits.               *)
RandomPosition(ym, bits, i) == i                                   \* mutant
RandomId(ym, bits, i) ==
    Cardinality({j \in 1..(i - 1) : PortOf(ym, bits[j]).type = "random"})

Role(ym, bits, i) ==
    LET p == PortOf(ym, bits[i])
    IN  CASE p.type \in ShareTypes -> <<"share", share_id(p, bits[i][2], ym.attrs.shares)>>
          [] p.type = "random"     -> <<"random", RandomId(ym, bits, i)>>
          [] OTHER                 -> <<"control", 0>>

(* input_roles, output_roles (of some of the bits) and port_roles (of all) *)
Roles(ym, bits) == [i \in DOMAIN bits |-> Role(ym, bits, i)]
BitsAt(module, cons) == Pick(module.ports, cons)

check_clock(ym, module) == module.clock = NoBit \/ PortOf(ym, module.clock).type = "clock"

-----------------------------------------------------------------------------
(* PipelineGadget::new: nothing unless the module is a pipeline gadget.    *)
PipelineError(ym, module) ==
    LET pipeline == IsGadget(ym.attrs) /\ ym.attrs.arch = "pipeline"
        ins == BitsAt(module, module.inputs)
        outs == BitsAt(module, module.outputs)
    IN  IF GadgetBuilderError(ym) # None THEN GadgetBuilderError(ym)
        ELSE IF ~pipeline THEN None
        ELSE FirstError(<<
            Check(RolesError(ym, ins) # None, RolesError(ym, ins)),
            Check(RolesError(ym, outs) # None, RolesError(ym, outs)),
            Check(\E i \in DOMAIN outs : PortOf(ym, outs[i]).type = "control", "control_output"),
            Check(~check_clock(ym, module), "clock_not_annotated"),
            Check(\E b \in Range(module.ports) : PortOf(ym, b).latency = Missing, "no_latency")>>)

IsPipeline(ym) == IsGadget(ym.attrs) /\ ym.attrs.arch = "pipeline"

(* The inputs that are randoms: rnd_ports of a pipeline gadget.            *)
RandomInputs(roles) == Positions(roles, LAMBDA r : r[1] = "random")

PipelineGadget(ym, module) ==
    LET roles == Roles(ym, BitsAt(module, module.inputs))
        latency == [c \in DOMAIN module.ports |-> PortOf(ym, module.ports[c]).latency]
    IN  [input_roles |-> roles,
         output_share_id |-> [o \in DOMAIN module.outputs |->
                                 Roles(ym, BitsAt(module, module.outputs))[o][2]],
         latency |-> latency,
         max_latency |-> Max({0} \cup Range(latency)),
         max_input_latency |-> Max({0} \cup {latency[c] : c \in Range(module.inputs)}),
         rnd_ports |-> RandomInputs(roles)]

-----------------------------------------------------------------------------
(* TopGadget::new                                                          *)

(* LatencyCondition::new, where rel says that the module has an execution  *)
(* signal latencies can be relative to.                                    *)
ConditionError(p, rel) ==
    FirstError(<<
        Check(p.lat # Missing /\ p.active # None, "conflict"),
        Check(p.lat # Missing /\ ~rel, "no_exec"),
        Check(p.lat = Missing /\ p.active = None /\ p.type \in ShareTypes \cup {"random"},
              "no_condition")>>)

Condition(p) ==
    CASE p.active = "1"    -> [when |-> "always", lat |-> Missing, sig |-> None]
      [] p.active = "0"    -> [when |-> "never", lat |-> Missing, sig |-> None]
      [] p.active # None   -> [when |-> "active", lat |-> Missing, sig |-> p.active]
      [] p.lat # Missing   -> [when |-> "lats", lat |-> p.lat, sig |-> None]
      [] OTHER             -> [when |-> "none", lat |-> Missing, sig |-> None]

TopError(ym, module) ==
    IF ~IsGadget(ym.attrs) THEN "no_annotation"
    ELSE LET ps == [c \in DOMAIN module.ports |-> PortOf(ym, module.ports[c])]
             rel == ym.attrs.active # None
         IN  FirstError(
                <<Check(RolesError(ym, module.ports) # None, RolesError(ym, module.ports)),
                  Check(~check_clock(ym, module), "clock_not_annotated")>>
                \o [c \in DOMAIN ps |->
                        Check(ConditionError(ps[c], rel) # None, ConditionError(ps[c], rel))]
                \o <<Check(ym.attrs.strat # "composite_top", "strat_top"),
                     Check(ym.attrs.arch # "loopy", "pipeline_top"),
                     Check(ym.attrs.prop # "PINI", "prop_top")>>)

(* active_wires: the execution signal, then the others as they first occur. *)
AddWire(wires, w) == IF w \in Range(wires) THEN wires ELSE Append(wires, w)
ActiveWires(ym, module) ==
    LET sigs == [c \in DOMAIN module.ports |-> Condition(PortOf(ym, module.ports[c])).sig]
    IN  FoldLeft(AddWire, IF ym.attrs.active = None THEN <<>> ELSE <<ym.attrs.active>>,
                 SelectSeq(sigs, LAMBDA s : s # None))

(* rnd_ports: the random inputs, sorted by their numbers.                  *)
TopRndPorts(roles, inputs) ==
    LET random == {i \in DOMAIN inputs : roles[inputs[i]][1] = "random"}
        sorted == Increasing({roles[inputs[i]][2] : i \in random})
    IN  [k \in DOMAIN sorted |-> CHOOSE i \in random : roles[inputs[i]][2] = sorted[k]]

TopGadget(ym, module) ==
    LET roles == Roles(ym, module.ports)
    IN  [port_roles |-> roles,
         latency |-> [c \in DOMAIN module.ports |-> Condition(PortOf(ym, module.ports[c]))],
         rnd_ports |-> TopRndPorts(roles, module.inputs),
         active_wires |-> ActiveWires(ym, module)]

=============================================================================
