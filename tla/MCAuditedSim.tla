---------------------------- MODULE MCAuditedSim ----------------------------
(* AuditedSim on the small netlists of NetlistDefs.  Values of shares and  *)
(* randoms are left unknown: only values of deterministic wires select     *)
(* anything in the simulator.                                              *)
EXTENDS AuditedSim

N == INSTANCE NetlistDefs

MCNetlists == {N!LateRandom, N!Feedback, N!Chain, N!SharedRandom, N!Gates, N!SelectShare,
               N!Staged, N!Holding, N!RandomAsShare}
Unknown == {X}
=============================================================================
