----------------------------- MODULE MCFindings -----------------------------
(***************************************************************************)
(* What the messages and comments of the code say of the simulator and the *)
(* simulator does not do: one property for each, refuted by a run on one   *)
(* small netlist.                                                          *)
(***************************************************************************)
EXTENDS AuditedSim

N == INSTANCE NetlistDefs

MCSelectShare == {N!SelectShare}
MCDirectInput == {N!DirectInput}
MCLateInput == {N!LateInput}
MCFeedback == {N!Feedback}
MCRandomAsShare == {N!RandomAsShare}
Unknown == {X}

(* check_safe_out rejects a gate whose inputs are sensitive in multiple    *)
(* shares over consecutive cycles (its message of transition leakage).     *)
TransitionChecked ==
    Passed => \A w \in CheckedWires : Kind(w) \in CombKinds =>
        Cardinality(UNION {ws[v].sensitivity \cup past[1][v].sensitivity : v \in Range(Fanin(w))}) <= 1

(* check_safe_finish on modules checks all wires, and with each wire the   *)
(* inputs of the gadgets in its fanout (the header of recsim.rs).          *)
AllInputsChecked ==
    Passed => \A g \in Gadgets : \A k \in GInputs(g) : ~UnsafeRole(g, k)

(* If any input of a gadget is sensitive, the randoms must be fresh (the   *)
(* rules of a pipeline gadget, pipeline.rs), and fresh means observed only *)
(* there (README): no input of any other execution has the same random.    *)
FreshForOneOnly ==
    Passed =>
        \A e \in busy : Complete(e[1], e[2]) =>
            \A k \in RndInputs(e[1]) : \E o \in GotAt(e, k) : Others(o) = {}

(* The assertion of eval_output: when an output of latency 0 is evaluated, *)
(* all the inputs of the gadget are set.                                   *)
InputsSetFirst == verdict # "unset"

(* A gadget that gets its own data back with no bubble since then is a     *)
(* transition leakage failure, which is reported: the run is rejected.     *)
SelfDependence ==
    \E gk \in CheckedInputs :
        LET g == gk[1]
        IN  /\ net.gadgets[g].prop = "PINI"
            /\ \E e \in deps[GIn(g, gk[2]).wire] :
                  e[1] = g /\ \A s \in e[2]..(cycle - max_input_latency(g)) : <<g, s>> \in busy

BubbleReported == [][CheckCycle /\ SelfDependence => verdict' = "rejected"]_vars
=============================================================================
