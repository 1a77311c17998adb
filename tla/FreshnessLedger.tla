--------------------------- MODULE FreshnessLedger ---------------------------
(***************************************************************************)
(* What the randomness bookkeeping of the simulator promises for one       *)
(* randomness port, with no regard for the memory it takes: a full ledger  *)
(* of every use of every random value, kept for the whole run, and a run   *)
(* that is accepted only if no value used as fresh randomness by a gadget  *)
(* is observable more than once.                                           *)
(*                                                                         *)
(* RndTracker, the code's implementation, forgets values as the simulation *)
(* advances and must behave as if it did not.                              *)
(***************************************************************************)
EXTENDS Integers

CONSTANTS NCycles,       \* length of the trace, n_cycles
          MaxFreshUses,  \* bound on the fresh uses of one value, for TLC
          MaxLeaks       \* bound on the leaks of one value, for TLC

VARIABLES ledger,        \* [cycle -> [fresh_uses, leaks]] of the value received then
          cycle,         \* the simulated cycle
          phase,         \* "eval": uses are recorded, "checked": they were checked
          verdict        \* "running", "rejected" or "accepted"

ledgerVars == <<ledger, cycle, phase, verdict>>

Cycles == 0..(NCycles - 1)
Bad(l) == ledger[l].fresh_uses > 0 /\ ledger[l].leaks > 1

LedgerInit ==
    /\ ledger = [l \in Cycles |-> [fresh_uses |-> 0, leaks |-> 0]]
    /\ cycle = 0
    /\ phase = "eval"
    /\ verdict = "running"

\* A gate, or a gadget without a sensitive input, observes a value received by now.
RecordLeak(l) ==
    /\ verdict = "running" /\ phase = "eval" /\ l <= cycle
    /\ ledger[l].leaks < MaxLeaks
    /\ ledger' = [ledger EXCEPT ![l].leaks = @ + 1]
    /\ UNCHANGED <<cycle, phase, verdict>>

\* A gadget relies on the value being fresh.
RecordFreshUse(l) ==
    /\ verdict = "running" /\ phase = "eval" /\ l <= cycle
    /\ ledger[l].fresh_uses < MaxFreshUses
    /\ ledger' = [ledger EXCEPT ![l].fresh_uses = @ + 1]
    /\ UNCHANGED <<cycle, phase, verdict>>

\* The check at the end of a cycle looks at the whole ledger.
CheckAll ==
    /\ verdict = "running" /\ phase = "eval"
    /\ phase' = "checked"
    /\ verdict' = IF \E l \in Cycles : Bad(l) THEN "rejected" ELSE verdict
    /\ UNCHANGED <<ledger, cycle>>

Advance ==
    /\ verdict = "running" /\ phase = "checked"
    /\ cycle' = cycle + 1
    /\ phase' = "eval"
    /\ verdict' = IF cycle' = NCycles THEN "accepted" ELSE verdict
    /\ UNCHANGED ledger

LedgerNext ==
    \/ \E l \in Cycles : RecordLeak(l) \/ RecordFreshUse(l)
    \/ CheckAll
    \/ Advance

LedgerSpec == LedgerInit /\ [][LedgerNext]_ledgerVars
=============================================================================
