------------------------------ MODULE FlatEval ------------------------------
(***************************************************************************)
(* What evaluating a circuit for one cycle promises, without modules: each *)
(* net gets its value once, from those of its fan-in, in any order that    *)
(* respects the dependencies, until all of them have one.                  *)
(*                                                                         *)
(* A circuit is a function from its nets to [op, id, args]: the operation  *)
(* that drives the net, what tells it from others of the same kind (an     *)
(* input, a register), and the nets it is computed from.  The value of a   *)
(* net is the term it computes.                                            *)
(***************************************************************************)
EXTENDS Sequences, FiniteSets, TLC

VARIABLES circuit,           \* given, and the same all along
          value              \* the values of the nets that have one

Term(op, id, args) == [op |-> op, id |-> id, args |-> args]

FlatInit == value = <<>>

Evaluate(n) ==
    /\ n \notin DOMAIN value
    /\ LET args == circuit[n].args
       IN  /\ \A i \in DOMAIN args : args[i] \in DOMAIN value
           /\ value' = value @@ (n :> Term(circuit[n].op, circuit[n].id,
                                           [i \in DOMAIN args |-> value[args[i]]]))
    /\ UNCHANGED circuit

FlatNext == \E n \in DOMAIN circuit : Evaluate(n)

FlatSpec == FlatInit /\ [][FlatNext]_value

=============================================================================
