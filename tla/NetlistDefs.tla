----------------------------- MODULE NetlistDefs -----------------------------
(***************************************************************************)
(* Small netlists for model checking RecSim, and the constructors they are *)
(* written with.                                                           *)
(***************************************************************************)
EXTENDS Integers, Sequences

Cond(when, lats, s) == [when |-> when, lats |-> lats, sig |-> s]
Always == Cond("always", {}, 0)
Never == Cond("never", {}, 0)
Active(s) == Cond("active", {}, s)
Lats(l) == Cond("lats", l, 0)

Wire(kind, in, id, lat, cond) ==
    [kind |-> kind, in |-> in, id |-> id, lat |-> lat, cond |-> cond]
ShareIn(id, cond) == Wire("share", <<>>, id, 0, cond)
RandomIn(port, cond) == Wire("random", <<>>, port, 0, cond)
ControlIn == Wire("control", <<>>, 0, 0, Always)
Gate(kind, in) == Wire(kind, in, 0, 0, Always)
Tie(v) == Wire("tie", <<>>, v, 0, Always)
GadgetOut(g, id, lat) == Wire("gadget", <<g>>, id, lat, Always)
ImplementedOut(g, w, id, lat) == Wire("gadget", <<g, w>>, id, lat, Always)

In(wire, role, id, lat) == [wire |-> wire, role |-> role, share |-> id, lat |-> lat]
Gadget(prop, inputs) == [prop |-> prop, inputs |-> inputs]
Out(wire, role, id, cond) == [wire |-> wire, role |-> role, share |-> id, cond |-> cond]

Netlist(name, wires, gadgets, outputs, signals, exec) ==
    [name |-> name, wires |-> wires, gadgets |-> gadgets, outputs |-> outputs,
     signals |-> signals, exec |-> exec, inner |-> {}]
Inside(inner, netlist) == [netlist EXCEPT !.inner = inner]
-----------------------------------------------------------------------------
(* A PINI gadget on two shares, its random needed one cycle late, and the  *)
(* same random also kept in a register and xored later.                    *)
LateRandom ==
    Netlist("late_random",
        <<ShareIn(0, Active(1)), ShareIn(1, Active(1)), RandomIn(0, Always), ControlIn,
          Gate("BUF", <<1>>), Gate("BUF", <<2>>), Gate("BUF", <<3>>),
          Gate("DFF", <<7>>), Gate("DFF", <<8>>),
          Gate("XOR", <<9, 4>>), GadgetOut(1, 0, 2), GadgetOut(1, 1, 2)>>,
        <<Gadget("PINI", <<In(5, "share", 0, 0), In(6, "share", 1, 1), In(7, "random", 0, 0)>>)>>,
        <<Out(11, "share", 0, Always)>>, {1}, {FALSE})

(* The outputs of a PINI gadget, registers here, fed back to its inputs,   *)
(* or new shares, as a control input selects.                              *)
Feedback ==
    Inside({5, 6}, Netlist("feedback",
        <<ShareIn(0, Active(1)), ShareIn(1, Active(1)), RandomIn(0, Always), ControlIn,
          Gate("DFF", <<10>>), Gate("DFF", <<11>>),
          ImplementedOut(1, 5, 0, 1), ImplementedOut(1, 6, 1, 1), Gate("BUF", <<3>>),
          Gate("MUX", <<1, 7, 4>>), Gate("MUX", <<2, 8, 4>>)>>,
        <<Gadget("PINI", <<In(10, "share", 0, 0), In(11, "share", 1, 0), In(9, "random", 0, 0)>>)>>,
        <<>>, {1}, {FALSE}))

(* An OPINI gadget that feeds a PINI gadget with inputs at two latencies   *)
(* and a control input; the outputs of the second one come back through a  *)
(* register.                                                               *)
Chain ==
    Netlist("chain",
        <<ShareIn(0, Active(1)), ControlIn, RandomIn(0, Always),
          Gate("BUF", <<3>>), Gate("BUF", <<2>>), Gate("DFF", <<8>>),
          Gate("MUX", <<1, 6, 5>>), GadgetOut(2, 0, 2), GadgetOut(1, 0, 0)>>,
        <<Gadget("OPINI", <<In(7, "share", 0, 0)>>),
          Gadget("PINI", <<In(9, "share", 0, 0), In(5, "control", 0, 1), In(4, "random", 0, 1)>>)>>,
        <<Out(9, "share", 0, Always)>>, {1}, {FALSE})

(* A gadget that selects, in its second stage, the share it got in the     *)
(* first one or a new one, and gives it in that stage and in the next.     *)
Staged ==
    Inside(6..10, Netlist("staged",
        <<ShareIn(0, Active(1)), ShareIn(0, Always), ControlIn,
          Gate("AND", <<1, 3>>), Gate("AND", <<2, 3>>),
          Gate("port", <<4>>), Gate("DFF", <<6>>), Gate("MUX", <<7, 5, 3>>),
          Gate("NOT", <<8>>), Gate("DFF", <<9>>),
          ImplementedOut(1, 8, 0, 1), ImplementedOut(1, 10, 0, 2)>>,
        <<Gadget("PINI", <<In(4, "share", 0, 0), In(5, "share", 0, 1), In(3, "control", 0, 1)>>)>>,
        <<>>, {1}, {FALSE}))

(* A gadget annotated as one stage that may hold its input for longer.     *)
Holding ==
    Inside({4, 5}, Netlist("holding",
        <<ShareIn(0, Active(1)), ControlIn, Gate("BUF", <<1>>),
          Gate("DFF", <<5>>), Gate("MUX", <<3, 4, 2>>), ImplementedOut(1, 4, 0, 1)>>,
        <<Gadget("PINI", <<In(3, "share", 0, 0), In(2, "control", 0, 0)>>)>>,
        <<>>, {1}, {FALSE}))

(* Gates only: glitches through selections, a share register, an execution *)
(* signal that makes shares and outputs valid at given latencies, and a    *)
(* submodule that sees a share through its input port.                     *)
Gates ==
    Netlist("gates",
        <<ShareIn(0, Lats({0})), ShareIn(1, Lats({1})), ControlIn,
          Gate("port", <<1>>), Gate("DFF", <<4>>), Gate("MUX", <<4, 5, 3>>),
          Gate("XOR", <<6, 2>>), Gate("AND", <<7, 3>>), Gate("NOT", <<8>>), Tie(1),
          Gate("OR", <<3, 10>>)>>,
        <<>>, <<Out(9, "share", 0, Lats({0, 1})), Out(11, "control", 0, Always)>>,
        {}, BOOLEAN)

(* A mux that selects one of two shares: safe but for its glitches.        *)
SelectShare ==
    Netlist("select_share",
        <<ShareIn(0, Active(1)), ShareIn(1, Active(2)), ControlIn,
          Gate("MUX", <<1, 2, 3>>), Gate("DFF", <<4>>), Gate("AND", <<3, 5>>)>>,
        <<>>, <<Out(6, "share", 0, Never)>>, {1, 2}, {FALSE})

(* A random bit for a gadget, stored for one cycle, in which a control     *)
(* input can select it, rather than a new one, for another gadget, and one *)
(* can make a gate observe it.                                             *)
SharedRandom ==
    Netlist("shared_random",
        <<ShareIn(0, Active(1)), ShareIn(0, Always), RandomIn(0, Always), RandomIn(1, Always),
          ControlIn, ControlIn,
          Gate("BUF", <<1>>), Gate("BUF", <<2>>), Gate("BUF", <<3>>), Gate("DFF", <<9>>),
          Gate("MUX", <<4, 10, 5>>), Gate("XOR", <<10, 6>>)>>,
        <<Gadget("OPINI", <<In(7, "share", 0, 1), In(9, "random", 0, 0)>>),
          Gadget("OPINI", <<In(8, "share", 0, 0), In(11, "random", 0, 0)>>)>>,
        <<>>, {1}, {FALSE})

(* The random bit of a gadget, also given to a share input of another one, *)
(* and to a control input of it as another control input selects.          *)
RandomAsShare ==
    Netlist("random_as_share",
        <<ShareIn(0, Active(1)), RandomIn(0, Always), ControlIn,
          Gate("BUF", <<1>>), Gate("BUF", <<2>>), Gate("MUX", <<3, 5, 3>>),
          GadgetOut(1, 0, 1), GadgetOut(2, 0, 1)>>,
        <<Gadget("OPINI", <<In(4, "share", 0, 0), In(5, "random", 0, 0)>>),
          Gadget("OPINI", <<In(5, "share", 0, 0), In(6, "control", 0, 0)>>)>>,
        <<>>, {1}, {FALSE})

(* An input of the top-level module connected to an input of a gadget.     *)
DirectInput ==
    Netlist("direct_input",
        <<ShareIn(1, Active(1)), GadgetOut(1, 0, 1)>>,
        <<Gadget("PINI", <<In(1, "share", 0, 0)>>)>>, <<>>, {1}, {FALSE})

(* A gadget with an output in the stage of its first input, that goes      *)
(* through a gate to its second stage.                                     *)
LateInput ==
    Netlist("late_input",
        <<ShareIn(0, Active(1)), Gate("BUF", <<1>>), GadgetOut(1, 0, 0), Gate("BUF", <<3>>),
          GadgetOut(1, 0, 1)>>,
        <<Gadget("PINI", <<In(2, "share", 0, 0), In(4, "share", 0, 1)>>)>>, <<>>, {1}, {FALSE})

(* A masked bit: a share, a random bit and a control input through every   *)
(* gate, with a register on the random bit.                                *)
MaskedBit ==
    Netlist("masked_bit",
        <<ShareIn(0, Always), RandomIn(0, Always), ControlIn, Gate("DFF", <<2>>),
          Gate("AND", <<1, 3>>), Gate("MUX", <<2, 4, 3>>), Gate("XOR", <<5, 6>>),
          Gate("NOT", <<6>>), Gate("OR", <<2, 3>>)>>,
        <<>>, <<>>, {}, {FALSE})

(* Two shares selected by control values that are themselves computed, and *)
(* selected by values that are not.                                        *)
Selected ==
    Netlist("selected",
        <<ShareIn(0, Always), ShareIn(1, Always), ControlIn, Gate("DFF", <<7>>), Tie(1),
          Gate("XOR", <<3, 5>>), Gate("MUX", <<1, 4, 6>>), Gate("AND", <<2, 6>>),
          Gate("MUX", <<7, 3, 8>>), Gate("port", <<9>>), Gate("BUF", <<10>>)>>,
        <<>>, <<>>, {}, {FALSE})

(* A random bit and its complement, selected by themselves or by a share.  *)
SelfSelect ==
    Netlist("self_select",
        <<ShareIn(0, Always), RandomIn(0, Active(1)),
          Gate("NOT", <<2>>), Gate("MUX", <<2, 3, 2>>), Gate("MUX", <<2, 2, 1>>)>>,
        <<>>, <<>>, {1}, {FALSE})

=============================================================================
