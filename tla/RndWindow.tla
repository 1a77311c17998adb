------------------------------ MODULE RndWindow ------------------------------
(***************************************************************************)
(* The data type RndTracker of top_sim.rs: for one randomness input port,  *)
(* the status of the random value received at every clock cycle, kept as a *)
(* window [offset, states].  states[i] is the status of the value received *)
(* at cycle offset + i - 1; the front of the window is thrown away once    *)
(* the value is no longer held by any register.                            *)
(*                                                                         *)
(* The vectors fresh_uses and leaks of RndStatus are abstracted to their   *)
(* lengths: check_random_uses reads nothing else of them.                  *)
(***************************************************************************)
EXTENDS Integers, Sequences

NotStored == -1          \* last_stored = None

(* RndStatus::default(), RndStatus::leak, RndStatus::fresh_use and the     *)
(* assignment of store_random.                                             *)
DefaultStatus == [fresh_uses |-> 0, leaks |-> 0, last_stored |-> NotStored]
LeakStatus(st) == [st EXCEPT !.leaks = @ + 1]
FreshUseStatus(st) == [st EXCEPT !.fresh_uses = @ + 1]
StoreStatus(st, lat) == [st EXCEPT !.last_stored = lat]

(* The condition under which check_random_uses rejects a random value: it  *)
(* is used as fresh by a gadget and it is also observable elsewhere.       *)
BadStatusTwice(st) == st.fresh_uses > 0 /\ st.leaks > 2           \* mutant
BadStatus(st) == st.fresh_uses > 0 /\ st.leaks > 1

NewTracker == [offset |-> 0, states |-> <<>>]

InWindow(t, lat) == lat >= t.offset        \* the assertion of index_of
IndexOf(t, lat) == (lat - t.offset) + 1

(* The status that *get_mut(lat) gives access to.                          *)
StatusAt(t, lat) ==
    IF IndexOf(t, lat) \in 1..Len(t.states) THEN t.states[IndexOf(t, lat)] ELSE DefaultStatus

(* The window once that status has been overwritten: index_of has pushed   *)
(* default statuses until the index exists.                                *)
Padding(t, lat) == [i \in 1..(IndexOf(t, lat) - Len(t.states)) |-> DefaultStatus]

SetStatus(t, lat, st) ==
    [offset |-> t.offset,
     states |-> [t.states \o Padding(t, lat) EXCEPT ![IndexOf(t, lat)] = st]]

(* An entry is outdated if it was not stored at cycle last_cycle.          *)
StaleAlready(st, last_cycle) ==                                  \* mutant
    st.last_stored = NotStored \/ st.last_stored <= last_cycle
Stale(st, last_cycle) == st.last_stored = NotStored \/ st.last_stored < last_cycle

(* prune pops entries until the front is not outdated: whatever comes      *)
(* after that front is kept.                                               *)
NotStale(s, last_cycle) == {i \in 1..Len(s) : ~Stale(s[i], last_cycle)}

FirstKept(s, last_cycle) ==
    CHOOSE i \in NotStale(s, last_cycle) : \A j \in NotStale(s, last_cycle) : i <= j

PruneBelow(t, last_cycle) ==                                     \* mutant
    [offset |-> last_cycle - 1, states |-> <<>>]

PruneUnshifted(t, last_cycle) ==                                 \* mutant
    [offset |-> t.offset,
     states |-> SelectSeq(t.states, LAMBDA st : ~Stale(st, last_cycle))]

PruneOnce(t, last_cycle) ==                                      \* mutant
    IF t.states # <<>> /\ Stale(t.states[1], last_cycle)
    THEN [offset |-> t.offset + 1, states |-> Tail(t.states)] ELSE t

Prune(t, last_cycle) ==
    IF NotStale(t.states, last_cycle) = {}
    THEN [offset |-> last_cycle, states |-> <<>>]
    ELSE LET n == FirstKept(t.states, last_cycle) - 1
         IN  [offset |-> t.offset + n,
              states |-> [i \in 1..(Len(t.states) - n) |-> t.states[i + n]]]

(* check_random_uses, for one port.                                        *)
AnyBadFront(t) == t.states # <<>> /\ BadStatus(t.states[1])       \* mutant
AnyBad(t) == \E i \in 1..Len(t.states) : BadStatus(t.states[i])
=============================================================================
