------------------------------ MODULE MCTwinRun ------------------------------
(* TwinRun on small netlists without gadgets.                              *)
EXTENDS TwinRun

N == INSTANCE NetlistDefs

MCTwinNets == {N!MaskedBit, N!Selected, N!SelfSelect}
Traced == {X, 0, 1}
Partly == {X, 1}
=============================================================================
