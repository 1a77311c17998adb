------------------------------- MODULE TwinRun -------------------------------
(***************************************************************************)
(* RecSim next to two executions of the circuit itself.  Run a has the     *)
(* inputs of the trace; run b differs from it in the shares of diffShares  *)
(* and in the random bits of diffRandoms, and in nothing else.  What the   *)
(* simulator says of a wire (its value, that it is deterministic, which    *)
(* shares it is sensitive to, which random bit it carries) is compared     *)
(* with what the two runs have on it.                                      *)
(*                                                                         *)
(* Netlists have no gadgets here: what an annotated gadget computes is     *)
(* taken from its annotations.                                             *)
(***************************************************************************)
EXTENDS RecSim

ASSUME TwinAssumption == \A n \in Netlists : n.gadgets = <<>> /\ n.inner = {}

VARIABLES diffShares, diffRandoms,   \* what differs between the runs, chosen once
          a, b,                      \* values of the wires evaluated in this cycle
          lastA, lastB,              \* values of the wires in the previous cycle
          leaks                      \* leaks[r]: how many times gates leaked random r

twinVars == <<diffShares, diffRandoms, a, b, lastA, lastB, leaks>>
twinRunVars == <<simVars, twinVars>>

(* The share indices, or the randomness ports, of the inputs of a netlist. *)
InputIds(kind) == {net.wires[w].id : w \in {w \in InputWires : Kind(w) = kind}}

(* The runs differ in shares or in one random bit, not in both: what the   *)
(* simulator says of the two is separate.  Registers start from any one    *)
(* value, the same in both runs.                                           *)
TwinInit ==
    /\ Init
    /\ diffShares \in SUBSET InputIds("share")
    /\ diffRandoms \in {{}} \cup {{r} : r \in InputIds("random") \X Cycles}
    /\ diffShares = {} \/ diffRandoms = {}
    /\ \E v \in Bit : a = [w \in Wires |-> v]
    /\ b = a /\ lastA = a /\ lastB = a
    /\ leaks = [r \in Randoms |-> 0]

(* May input w differ between the runs in the cycle that starts?  The      *)
(* value of a port that is not active is trusted, as the simulator does.   *)
Differs(w) == InputState(w).sensitivity \cap diffShares # {}

TwinStart ==
    /\ StartCycle
    /\ IF cycle' = NCycles
       THEN UNCHANGED <<a, b, lastA, lastB>>
       ELSE /\ lastA' = a /\ lastB' = b
            /\ a' \in [InputWires -> Bit] /\ b' \in [InputWires -> Bit]
            /\ \A w \in InputWires :
                  /\ ws'[w].value \in {X, a'[w]}
                  /\ ~Differs(w) => (b'[w] # a'[w] <=> InputState(w).random \cap diffRandoms # {})
    /\ UNCHANGED <<diffShares, diffRandoms, leaks>>

(* The value the circuit puts on a wire, from those of its operands.       *)
Driven(w, now, last) ==
    LET op(i) == now[Fanin(w)[i]]
    IN  CASE Kind(w) = "tie" -> net.wires[w].id
          [] Kind(w) \in {"BUF", "port"} -> op(1)
          [] Kind(w) = "NOT" -> 1 - op(1)
          [] Kind(w) \in BinaryGates -> Truth(Kind(w), op(1), op(2))
          [] Kind(w) = "MUX" -> IF op(3) = 0 THEN op(1) ELSE op(2)
          [] Kind(w) = "DFF" -> last[Fanin(w)[1]]

LeaksOf(r) == Cardinality({i \in DOMAIN WireLeaks : WireLeaks[i].random = {r}})

TwinEval ==
    /\ EvalWire
    /\ a' = Append(a, Driven(NextWire, a, lastA))
    /\ b' = Append(b, Driven(NextWire, b, lastB))
    /\ leaks' = [r \in Randoms |-> leaks[r] + LeaksOf(r)]
    /\ UNCHANGED <<diffShares, diffRandoms, lastA, lastB>>

TwinFinish == EvalFinish /\ UNCHANGED twinVars
TwinCheck == CheckCycle /\ UNCHANGED twinVars

TwinNext == TwinStart \/ TwinEval \/ TwinFinish \/ TwinCheck

TwinSpec == TwinInit /\ [][TwinNext]_twinRunVars

-----------------------------------------------------------------------------
(* Types of what this module adds.                                         *)
TwinTypeOK ==
    /\ verdict \in {"running", "accepted", "rejected"} \cup Panics
    /\ \A w \in DOMAIN ws : ws[w].value \in Bit \cup {X}
    /\ DOMAIN a = DOMAIN ws /\ DOMAIN b = DOMAIN ws
    /\ \A w \in DOMAIN ws : {a[w], b[w]} \subseteq Bit
    /\ leaks \in [Randoms -> Nat]

(* The value of a wire, when it is not x, is the value a simulation of the *)
(* circuit gives it ("value" in the output trace), although a gate with an *)
(* x operand may have a value, and a gate may return one operand as it is. *)
ValueSound == \A w \in DOMAIN ws : ws[w].value \in {X, a[w]}

(* A deterministic wire does not depend on shares or random bits: no       *)
(* change of them, in any cycle so far, changes it.                        *)
DeterministicSound == \A w \in DOMAIN ws : ws[w].deterministic => a[w] = b[w]

(* A wire depends only on the shares it is sensitive to: masking by known  *)
(* control values may remove a share, and removes none that still acts.    *)
SensitivitySound ==
    diffRandoms = {} => \A w \in DOMAIN ws : a[w] # b[w] => ws[w].sensitivity \cap diffShares # {}

(* A random bit that no gate leaked acts on the wires that carry it and on *)
(* no other; leaked once at most, it still acts on all that carry it, so   *)
(* that these remain uniform.  A mux of two wires with the same random     *)
(* carries it whatever selects, and is only safe because it leaks it twice.*)
RandomExact ==
    diffShares = {} =>
        \A r \in diffRandoms : \A w \in DOMAIN ws :
            /\ leaks[r] = 0 /\ a[w] # b[w] => ws[w].random = {r}
            /\ leaks[r] <= 1 /\ ws[w].random = {r} => a[w] # b[w]
=============================================================================
