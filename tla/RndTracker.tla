----------------------------- MODULE RndTracker -----------------------------
(***************************************************************************)
(* The life of one RndTracker (top_sim.rs) over a simulation run: within   *)
(* a cycle the gates and gadgets of the circuit leak, use as fresh, or     *)
(* store random values (leak_random, use_random, store_random), the end of *)
(* the cycle checks them (check_random_uses), and SimuIter::next prunes    *)
(* the window before it advances the cycle.                                *)
(*                                                                         *)
(* Which values the circuit can touch is its own business (module RecSim): *)
(* here it may touch the value arriving now and every value a register or  *)
(* a gadget stored during the last cycle, which is all a wire can carry.   *)
(***************************************************************************)
EXTENDS RndWindow

CONSTANTS NCycles,       \* length of the trace, n_cycles
          MaxFreshUses,  \* bound on the fresh uses of one value, for TLC
          MaxLeaks       \* bound on the leaks of one value, for TLC

ASSUME TrackerAssumption == NCycles \in Nat \ {0} /\ MaxFreshUses \in Nat /\ MaxLeaks \in Nat

VARIABLES trk,           \* the tracker: [offset, states]
          cycle,         \* current_cycle
          phase,         \* "eval" until the cycle's check, then "checked"
          verdict,       \* "running", "rejected", "accepted" or "panic"
          hist           \* history: the status of every cycle, never pruned

vars == <<trk, cycle, phase, verdict, hist>>

Cycles == 0..(NCycles - 1)

TrackerInit ==
    /\ trk = NewTracker
    /\ cycle = 0
    /\ phase = "eval"
    /\ verdict = "running"
    /\ hist = [l \in Cycles |-> DefaultStatus]

-----------------------------------------------------------------------------
Evaluating == verdict = "running" /\ phase = "eval"

(* The value received at cycle l is on some wire of the circuit now: it is *)
(* arriving, or it was stored during the previous cycle or already during  *)
(* this one.                                                               *)
Held(l) == hist[l].last_stored # NotStored /\ hist[l].last_stored >= cycle - 1
OnAWire(l) == l = cycle \/ Held(l)

(* get_mut(lat) and one write to the status: it panics if lat was pruned.  *)
Access(l, st) ==
    IF InWindow(trk, l)
    THEN trk' = SetStatus(trk, l, st) /\ UNCHANGED verdict
    ELSE verdict' = "panic" /\ UNCHANGED trk

Leak(l) ==
    /\ Evaluating /\ OnAWire(l)
    /\ hist[l].leaks < MaxLeaks
    /\ Access(l, LeakStatus(StatusAt(trk, l)))
    /\ hist' = [hist EXCEPT ![l] = LeakStatus(@)]
    /\ UNCHANGED <<cycle, phase>>

FreshUse(l) ==
    /\ Evaluating /\ OnAWire(l)
    /\ hist[l].fresh_uses < MaxFreshUses
    /\ Access(l, FreshUseStatus(StatusAt(trk, l)))
    /\ hist' = [hist EXCEPT ![l] = FreshUseStatus(@)]
    /\ UNCHANGED <<cycle, phase>>

Store(l) ==
    /\ Evaluating /\ OnAWire(l)
    /\ Access(l, StoreStatus(StatusAt(trk, l), cycle))
    /\ hist' = [hist EXCEPT ![l] = StoreStatus(@, cycle)]
    /\ UNCHANGED <<cycle, phase>>

(* SimuIter::check, its check_random_uses.                                 *)
CheckRandomUses ==
    /\ Evaluating
    /\ phase' = "checked"
    /\ verdict' = IF AnyBad(trk) THEN "rejected" ELSE verdict
    /\ UNCHANGED <<trk, cycle, hist>>

(* SimuIter::next: prune with the cycle that just ended, then advance.     *)
NextCycle ==
    /\ verdict = "running" /\ phase = "checked"
    /\ trk' = Prune(trk, cycle)
    /\ cycle' = cycle + 1
    /\ phase' = "eval"
    /\ verdict' = IF cycle' = NCycles THEN "accepted" ELSE verdict
    /\ UNCHANGED hist

TrackerNext ==
    \/ \E l \in Cycles : Leak(l) \/ FreshUse(l) \/ Store(l)
    \/ CheckRandomUses
    \/ NextCycle

TrackerSpec == TrackerInit /\ [][TrackerNext]_vars

-----------------------------------------------------------------------------
Status == [fresh_uses : Nat, leaks : Nat, last_stored : Cycles \cup {NotStored}]

(* Types of the tracker's state and of its history.                        *)
TypeOK ==
    /\ trk \in [offset : Nat, states : Seq(Status)]
    /\ cycle \in 0..NCycles
    /\ phase \in {"eval", "checked"}
    /\ verdict \in {"running", "rejected", "accepted", "panic"}
    /\ hist \in [Cycles -> Status]

(* The assertion of index_of never fails: the window still has the status  *)
(* of every value the circuit can touch, although prune looks only at the  *)
(* front of the window and never at what the circuit holds.                *)
HeldIsTracked ==
    /\ verdict # "panic"
    /\ \A l \in Cycles : verdict = "running" /\ OnAWire(l) => InWindow(trk, l)

(* What the tracker reports for a value the circuit can still touch is its *)
(* complete status.  It is not so of every value in the window: when prune *)
(* empties it, offset goes back by one cycle and the status of a value     *)
(* that no register holds is replaced by the default one.                  *)
WindowFaithful ==
    \A l \in Cycles :
        verdict = "running" /\ OnAWire(l) => StatusAt(trk, l) = hist[l]

(* Forgetting is sound: as soon as a cycle is checked, and in an accepted  *)
(* run, no value ever received is both used as fresh and observable twice, *)
(* the values the window no longer has included.                           *)
NoBadForgotten ==
    (phase = "checked" /\ verdict = "running") \/ verdict = "accepted"
        => \A l \in Cycles : ~BadStatus(hist[l])

(* The memory bound prune is for: after it, the front of the window was    *)
(* stored during the cycle that just ended, so the window reaches back no  *)
(* further than the oldest value a register holds.                         *)
FrontIsHeld ==
    [][NextCycle => trk'.states = <<>> \/ trk'.states[1].last_stored = cycle]_vars

(* The abstract ledger, implemented by the tracker.                        *)
Ledger == INSTANCE FreshnessLedger WITH
    ledger <- [l \in Cycles |-> [fresh_uses |-> hist[l].fresh_uses, leaks |-> hist[l].leaks]]
ImplementsLedger == Ledger!LedgerSpec
=============================================================================
