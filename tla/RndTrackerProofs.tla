-------------------------- MODULE RndTrackerProofs --------------------------
(***************************************************************************)
(* Proofs about RndTracker: for every trace length and every bound, the    *)
(* tracker never panics, reports complete statuses, forgets no value that  *)
(* should have been rejected, and implements the never-pruned ledger.      *)
(***************************************************************************)
EXTENDS RndTracker, SharedLemmas, TLAPS

Tracker == Window(Status)

-----------------------------------------------------------------------------
(* Types and values of the window operators.                               *)

(* The writes to a status (default, leak, fresh_use, store) keep its type. *)
LEMMA StatusType ==
    ASSUME NEW st \in Status, NEW l \in Cycles
    PROVE  /\ DefaultStatus \in Status
           /\ LeakStatus(st) \in Status
           /\ FreshUseStatus(st) \in Status
           /\ StoreStatus(st, l) \in Status
  BY DEF Status, DefaultStatus, LeakStatus, FreshUseStatus, StoreStatus, NotStored

(* What get_mut gives access to is a status, whatever the cycle.           *)
LEMMA StatusAtType ==
    ASSUME NEW t \in Tracker, NEW l \in Int
    PROVE  StatusAt(t, l) \in Status
<1>1. DefaultStatus \in Status
  BY DEF Status, DefaultStatus, NotStored
<1>2. \A i \in 1..Len(t.states) : t.states[i] \in Status
  BY DEF Tracker, Window
<1> QED
  BY <1>1, <1>2 DEF StatusAt

(* Writing one status leaves every other status of the window as reported  *)
(* before, and never extends the window beyond the written cycle.          *)
LEMMA SetStatusEffect ==
    ASSUME NEW t \in Tracker, NEW l \in Nat, InWindow(t, l), NEW st \in Status
    PROVE  /\ SetStatus(t, l, st) \in Tracker
           /\ SetStatus(t, l, st).offset = t.offset
           /\ \A k \in Nat : InWindow(t, k) =>
                StatusAt(SetStatus(t, l, st), k) = IF k = l THEN st ELSE StatusAt(t, k)
           /\ \A c \in Nat : l <= c /\ t.offset + Len(t.states) <= c + 1 =>
                t.offset + Len(SetStatus(t, l, st).states) <= c + 1
<1> DEFINE m == Len(t.states)
           n == IF IndexOf(t, l) > m THEN IndexOf(t, l) ELSE m
           p == t.states \o Padding(t, l)
           s == [p EXCEPT ![IndexOf(t, l)] = st]
<1>1. /\ Len(t.states) \in Nat
      /\ t.offset \in Nat
      /\ IndexOf(t, l) \in Nat \ {0}
      /\ n \in Nat
      /\ n >= Len(t.states)
      /\ IndexOf(t, l) \in 1..n
  BY DEF Tracker, Window, IndexOf, InWindow
<1>2. SetStatus(t, l, st) = [offset |-> t.offset, states |-> s]
  BY DEF SetStatus
<1>3. /\ s \in [1..n -> Status]
      /\ \A i \in 1..n :
            s[i] = IF i = IndexOf(t, l) THEN st ELSE StatusAt(t, t.offset + i - 1)
  <2>1. Padding(t, l) \in Seq(Status) /\ Len(Padding(t, l)) = n - m
    <3>1. Padding(t, l) \in [1..(n - m) -> Status]
      <4>1. 1..(IndexOf(t, l) - m) = 1..(n - m)
        BY <1>1
      <4>2. Padding(t, l) = [i \in 1..(IndexOf(t, l) - m) |-> DefaultStatus]
        BY DEF Padding
      <4>3. DefaultStatus \in Status
        BY DEF Status, DefaultStatus, NotStored
      <4> HIDE DEF m, n
      <4> QED
        BY <4>1, <4>2, <4>3
    <3>2. n - m \in Nat
      BY <1>1
    <3> QED
      BY <3>1, <3>2
  <2>2. t.states \in Seq(Status)
    BY DEF Tracker, Window
  <2>3. p \in Seq(Status) /\ Len(p) = n
    BY <1>1, <2>1, <2>2
  <2>4. \A i \in 1..n : p[i] = StatusAt(t, t.offset + i - 1)
    <3> TAKE i \in 1..n
    <3>1. IndexOf(t, t.offset + i - 1) = i
      BY <1>1 DEF IndexOf
    <3>2. CASE i \in 1..m
      BY <1>1, <2>1, <2>2, <3>1, <3>2 DEF StatusAt
    <3>3. CASE i \notin 1..m
      <4>1. p[i] = Padding(t, l)[i - m] /\ i - m \in 1..(IndexOf(t, l) - m)
        BY <1>1, <2>1, <2>2, <3>3
      <4>2. Padding(t, l)[i - m] = DefaultStatus
        BY <4>1 DEF Padding
      <4> QED
        BY <3>1, <3>3, <4>1, <4>2 DEF StatusAt
    <3> QED
      BY <3>2, <3>3
  <2> HIDE DEF p
  <2>5. DOMAIN p = 1..n /\ \A i \in 1..n : p[i] \in Status
    BY <2>3
  <2>6. p \in [1..n -> Status]
    BY <2>3
  <2> QED
    BY <1>1, <2>4, <2>6
<1> HIDE DEF s, n
<1>4. s \in Seq(Status) /\ Len(s) = n
  BY <1>1, <1>3
<1>5. ASSUME NEW k \in Nat, InWindow(t, k)
      PROVE  StatusAt(SetStatus(t, l, st), k) = IF k = l THEN st ELSE StatusAt(t, k)
  <2>1. /\ IndexOf(SetStatus(t, l, st), k) = IndexOf(t, k)
        /\ IndexOf(t, k) \in Nat \ {0}
        /\ IndexOf(t, k) = IndexOf(t, l) <=> k = l
        /\ t.offset + IndexOf(t, k) - 1 = k
    BY <1>1, <1>2, <1>5 DEF IndexOf, InWindow
  <2>2. SetStatus(t, l, st).states = s
    BY <1>2
  <2>3. StatusAt(SetStatus(t, l, st), k)
            = IF IndexOf(t, k) \in 1..n THEN s[IndexOf(t, k)] ELSE DefaultStatus
    BY <1>4, <2>1, <2>2 DEF StatusAt
  <2>4. CASE IndexOf(t, k) \in 1..n
    BY <1>3, <2>1, <2>3, <2>4
  <2>5. CASE IndexOf(t, k) \notin 1..n
    BY <1>1, <2>1, <2>3, <2>5 DEF StatusAt
  <2> QED
    BY <2>4, <2>5
<1>6. ASSUME NEW c \in Nat, l <= c, t.offset + Len(t.states) <= c + 1
      PROVE  t.offset + n <= c + 1
  BY <1>1, <1>6 DEF IndexOf, n
<1> QED
  BY <1>1, <1>2, <1>4, <1>5, <1>6 DEF Tracker, Window

-----------------------------------------------------------------------------
(* The inductive invariant.                                                *)

(* The circuit can never touch the value of cycle l again, and it was      *)
(* checked for the last time.                                              *)
Gone(l) == l < cycle /\ ~Held(l) /\ ~BadStatus(hist[l])

(* The window knows everything about the value, or it may ignore it.       *)
Accounted(l) ==
    \/ InWindow(trk, l) /\ StatusAt(trk, l) = hist[l]
    \/ Gone(l) /\ (InWindow(trk, l) => StatusAt(trk, l) = DefaultStatus)

Running ==
    /\ cycle < NCycles
    /\ trk.offset <= cycle
    /\ trk.offset + Len(trk.states) <= cycle + 1
    /\ \A l \in Cycles : Accounted(l) /\ hist[l].last_stored <= cycle

IndInv ==
    /\ TypeOK
    /\ verdict # "panic"
    /\ verdict = "running" => Running
    /\ NoBadForgotten

(* new() establishes the invariant.                                        *)
LEMMA InitInd == TrackerInit => IndInv
<1> SUFFICES ASSUME TrackerInit PROVE IndInv
  OBVIOUS
<1>1. DefaultStatus \in Status /\ ~BadStatus(DefaultStatus)
  BY DEF Status, DefaultStatus, NotStored, BadStatus
<1>2. TypeOK
  BY <1>1, TrackerAssumption DEF TrackerInit, TypeOK, NewTracker
<1>3. \A l \in Cycles : Accounted(l) /\ hist[l].last_stored <= cycle
  BY DEF TrackerInit, NewTracker, Accounted, InWindow, StatusAt, IndexOf, Cycles,
         DefaultStatus, NotStored
<1> QED
  BY <1>2, <1>3, TrackerAssumption
     DEF TrackerInit, NewTracker, IndInv, Running, NoBadForgotten

(* A value on a wire is tracked, so the assertion of index_of holds; and   *)
(* it was received by now.                                                 *)
LEMMA OnAWireTracked ==
    ASSUME IndInv, verdict = "running", NEW l \in Cycles, OnAWire(l)
    PROVE  InWindow(trk, l) /\ StatusAt(trk, l) = hist[l] /\ l <= cycle
<1>1. /\ l \in Nat /\ cycle \in Nat
      /\ trk.offset \in Nat /\ Len(trk.states) \in Nat
      /\ trk.offset + Len(trk.states) <= cycle + 1
      /\ Accounted(l)
  BY DEF IndInv, Running, TypeOK, Cycles
<1>2. ~Gone(l)
  BY <1>1 DEF Gone, OnAWire
<1>3. InWindow(trk, l) /\ StatusAt(trk, l) = hist[l]
  BY <1>1, <1>2 DEF Accounted
<1>4. ASSUME l > cycle
      PROVE  FALSE
  <2>1. StatusAt(trk, l) = DefaultStatus
    BY <1>1, <1>4 DEF StatusAt, IndexOf
  <2> QED
    BY <1>1, <1>3, <1>4, <2>1 DEF OnAWire, Held, DefaultStatus
<1> QED
  BY <1>1, <1>3, <1>4

(* One write through get_mut, of the same status in the window and in the  *)
(* history, preserves the invariant.                                       *)
LEMMA AccessInd ==
    ASSUME IndInv, Evaluating,
           NEW l \in Cycles, OnAWire(l), NEW st \in Status,
           Access(l, st), hist' = [hist EXCEPT ![l] = st],
           st.last_stored <= cycle,
           UNCHANGED <<cycle, phase>>
    PROVE  IndInv'
<1>1. /\ InWindow(trk, l)
      /\ l <= cycle
      /\ trk' = SetStatus(trk, l, st)
      /\ verdict' = verdict
  BY OnAWireTracked DEF Access, Evaluating
<1>2. /\ trk \in Tracker /\ cycle \in Nat
      /\ Cycles \subseteq Nat
      /\ hist \in [Cycles -> Status]
      /\ Running
  BY DEF IndInv, TypeOK, Tracker, Window, Cycles, Evaluating
<1>3. /\ trk' \in Tracker
      /\ trk'.offset = trk.offset
      /\ trk'.offset + Len(trk'.states) <= cycle + 1
      /\ \A k \in Cycles : InWindow(trk, k) =>
            StatusAt(trk', k) = IF k = l THEN st ELSE StatusAt(trk, k)
  BY <1>1, <1>2, SetStatusEffect DEF Running
<1>4. hist' \in [Cycles -> Status] /\ \A k \in Cycles : hist'[k] = IF k = l THEN st ELSE hist[k]
  BY <1>2
<1>5. ASSUME NEW k \in Cycles
      PROVE  Accounted(k)'
  <2>1. InWindow(trk', k) <=> InWindow(trk, k)
    BY <1>3 DEF InWindow
  <2>2. CASE k = l
    BY <1>1, <1>3, <1>4, <2>1, <2>2 DEF Accounted
  <2>3. CASE k # l
    <3>1. Accounted(k) /\ hist'[k] = hist[k]
      BY <1>2, <1>4, <2>3 DEF Running
    <3>2. Gone(k)' <=> Gone(k)
      BY <3>1 DEF Gone, Held
    <3> QED
      BY <1>3, <2>1, <2>3, <3>1, <3>2 DEF Accounted
  <2> QED
    BY <2>2, <2>3
<1>6. TypeOK'
  BY <1>1, <1>3, <1>4 DEF IndInv, TypeOK, Tracker, Window
<1>7. Running'
  <2>1. \A k \in Cycles : hist'[k].last_stored <= cycle'
    BY <1>2, <1>4 DEF Running
  <2> QED
    BY <1>2, <1>3, <1>5, <2>1 DEF Running
<1>8. NoBadForgotten'
  BY <1>1 DEF NoBadForgotten, Evaluating
<1> QED
  BY <1>1, <1>6, <1>7, <1>8 DEF IndInv

(* The check over the window finds exactly what the check over the whole   *)
(* history would find.                                                     *)
LEMMA BadInWindow ==
    ASSUME IndInv, verdict = "running"
    PROVE  AnyBad(trk) <=> \E l \in Cycles : BadStatus(hist[l])
<1>1. /\ Running /\ trk \in Tracker /\ cycle \in Nat
      /\ ~BadStatus(DefaultStatus)
  BY DEF IndInv, TypeOK, Tracker, Window, BadStatus, DefaultStatus
<1>2. ASSUME NEW i \in 1..Len(trk.states), BadStatus(trk.states[i])
      PROVE  \E l \in Cycles : BadStatus(hist[l])
  <2> DEFINE l == trk.offset + i - 1
  <2>1. /\ l \in Cycles /\ InWindow(trk, l)
        /\ StatusAt(trk, l) = trk.states[i]
    BY <1>1, TrackerAssumption
       DEF Running, Tracker, Window, Cycles, InWindow, StatusAt, IndexOf
  <2>2. Accounted(l)
    BY <1>1, <2>1 DEF Running
  <2>3. StatusAt(trk, l) = hist[l]
    BY <1>1, <1>2, <2>1, <2>2 DEF Accounted
  <2> QED
    BY <1>2, <2>1, <2>3
<1>3. ASSUME NEW l \in Cycles, BadStatus(hist[l])
      PROVE  AnyBad(trk)
  <2>1. InWindow(trk, l) /\ StatusAt(trk, l) = hist[l]
    BY <1>1, <1>3 DEF Running, Accounted, Gone
  <2> QED
    BY <1>1, <1>3, <2>1 DEF AnyBad, StatusAt
<1> QED
  BY <1>2, <1>3 DEF AnyBad

(* check_random_uses preserves the invariant: a run that goes on has no    *)
(* bad value at all.                                                       *)
LEMMA CheckInd == IndInv /\ CheckRandomUses => IndInv'
<1> SUFFICES ASSUME IndInv, CheckRandomUses PROVE IndInv'
  OBVIOUS
<1>1. Running /\ verdict = "running"
  BY DEF IndInv, CheckRandomUses, Evaluating
<1>2. NoBadForgotten'
  BY <1>1, BadInWindow DEF NoBadForgotten, CheckRandomUses, BadStatus
<1>3. TypeOK' /\ (verdict' # "panic") /\ Running'
  BY <1>1 DEF IndInv, TypeOK, CheckRandomUses, Running, Accounted, Gone, Held
<1> QED
  BY <1>2, <1>3 DEF IndInv

(* SimuIter::next (prune, then the next cycle) preserves the invariant.    *)
LEMMA NextCycleInd == IndInv /\ NextCycle => IndInv'
<1> SUFFICES ASSUME IndInv, NextCycle PROVE IndInv'
  OBVIOUS
<1>1. /\ Running /\ trk \in Tracker /\ cycle \in Nat /\ cycle < NCycles
      /\ Cycles \subseteq Nat /\ hist \in [Cycles -> Status]
      /\ trk' = Prune(trk, cycle) /\ cycle' = cycle + 1 /\ hist' = hist
      /\ \A l \in Cycles : ~BadStatus(hist[l])
  BY DEF IndInv, TypeOK, Tracker, Window, NextCycle, Running, Cycles, NoBadForgotten
<1>2. /\ trk' \in Tracker
      /\ trk'.offset <= cycle
      /\ trk'.offset + Len(trk'.states) <= cycle + 1
      /\ \A k \in Cycles : InWindow(trk, k) /\ ~InWindow(trk', k)
            => Stale(StatusAt(trk, k), cycle)
      /\ \A k \in Cycles : InWindow(trk', k) =>
            /\ InWindow(trk, k)
            /\ \/ StatusAt(trk', k) = StatusAt(trk, k)
               \/ /\ Stale(StatusAt(trk, k), cycle)
                  /\ StatusAt(trk', k) = DefaultStatus
  BY <1>1, PruneEffect DEF Running, Tracker
<1>3. ASSUME NEW l \in Cycles
      PROVE  Accounted(l)'
  <2>1. CASE InWindow(trk, l) /\ StatusAt(trk, l) = hist[l]
    <3>1. CASE InWindow(trk', l) /\ StatusAt(trk', l) = StatusAt(trk, l)
      BY <1>1, <2>1, <3>1 DEF Accounted
    <3>2. CASE Stale(hist[l], cycle) /\ (InWindow(trk', l) => StatusAt(trk', l) = DefaultStatus)
      <4>1. ~Held(l)'
        BY <1>1, <3>2 DEF Held, Stale, Status, Cycles, NotStored
      <4>2. CASE l < cycle + 1
        BY <1>1, <3>2, <4>1, <4>2 DEF Accounted, Gone
      <4>3. CASE l >= cycle + 1
        BY <1>1, <1>2, <2>1, <3>2, <4>3
        DEF Accounted, Running, StatusAt, IndexOf, InWindow, Tracker, Window
      <4> QED
        BY <1>1, <4>2, <4>3
    <3> QED
      BY <1>2, <2>1, <3>1, <3>2
  <2>2. CASE Gone(l) /\ (InWindow(trk, l) => StatusAt(trk, l) = DefaultStatus)
    <3>1. Gone(l)'
      BY <1>1, <2>2 DEF Gone, Held, Status, Cycles, NotStored
    <3>2. InWindow(trk', l) => StatusAt(trk', l) = DefaultStatus
      BY <1>2, <2>2
    <3> QED
      BY <3>1, <3>2 DEF Accounted
  <2> QED
    BY <1>1, <2>1, <2>2 DEF Running, Accounted
<1>4. verdict' = "running" => Running'
  <2>1. verdict' = "running" => cycle' < NCycles
    BY <1>1, TrackerAssumption DEF NextCycle
  <2>2. \A l \in Cycles : hist'[l].last_stored <= cycle'
    BY <1>1 DEF Running, Status, Cycles, NotStored
  <2> QED
    BY <1>1, <1>2, <1>3, <2>1, <2>2 DEF Running, Tracker, Window
<1>5. TypeOK' /\ (verdict' # "panic")
  BY <1>1, <1>2, TrackerAssumption DEF IndInv, TypeOK, NextCycle, Tracker, Window
<1>6. NoBadForgotten'
  BY <1>1 DEF NoBadForgotten, NextCycle
<1> QED
  BY <1>4, <1>5, <1>6 DEF IndInv

(* Every step preserves the invariant.                                     *)
LEMMA StepInd == IndInv /\ [TrackerNext]_vars => IndInv'
<1> SUFFICES ASSUME IndInv, [TrackerNext]_vars PROVE IndInv'
  OBVIOUS
<1>1. ASSUME NEW l \in Cycles, Leak(l) \/ FreshUse(l) \/ Store(l)
      PROVE  IndInv'
  <2>1. Evaluating /\ OnAWire(l) /\ UNCHANGED <<cycle, phase>>
    BY <1>1 DEF Leak, FreshUse, Store
  <2>2. StatusAt(trk, l) = hist[l] /\ hist[l] \in Status
    BY <2>1, OnAWireTracked DEF Evaluating, IndInv, TypeOK
  <2>3. cycle \in Cycles /\ hist[l].last_stored <= cycle
    BY <2>1, TrackerAssumption DEF Evaluating, IndInv, TypeOK, Running, Cycles
  <2>4. PICK st \in Status : /\ Access(l, st)
                             /\ hist' = [hist EXCEPT ![l] = st]
                             /\ st.last_stored <= cycle
    <3>1. CASE Leak(l)
      BY <2>2, <2>3, <3>1, StatusType DEF Leak, LeakStatus, Status
    <3>2. CASE FreshUse(l)
      BY <2>2, <2>3, <3>2, StatusType DEF FreshUse, FreshUseStatus, Status
    <3>3. CASE Store(l)
      <4>1. /\ StoreStatus(hist[l], cycle) \in Status
            /\ StoreStatus(hist[l], cycle).last_stored <= cycle
        BY <2>2, <2>3, StatusType DEF StoreStatus, Status, Cycles
      <4>2. Access(l, StoreStatus(hist[l], cycle))
        BY <2>2, <3>3 DEF Store
      <4>3. hist' = [hist EXCEPT ![l] = StoreStatus(hist[l], cycle)]
        BY <3>3 DEF Store, StoreStatus
      <4> QED
        BY <4>1, <4>2, <4>3
    <3> QED
      BY ONLY <1>1, <3>1, <3>2, <3>3
  <2> QED
    BY <2>1, <2>4, AccessInd
<1>2. CASE CheckRandomUses
  BY <1>2, CheckInd
<1>3. CASE NextCycle
  BY <1>3, NextCycleInd
<1>4. CASE UNCHANGED vars
  BY <1>4 DEF vars, IndInv, TypeOK, Running, Accounted, Gone, Held, NoBadForgotten
<1> QED
  BY <1>1, <1>2, <1>3, <1>4 DEF TrackerNext

(* The inductive invariant holds in every reachable state of the tracker.  *)
THEOREM Invariance == TrackerSpec => []IndInv
  BY InitInd, StepInd, PTL DEF TrackerSpec

-----------------------------------------------------------------------------
(* The properties the runs check, for every trace.                         *)

(* The variables of the tracker have their types in every reachable state. *)
THEOREM TypeCorrect == TrackerSpec => []TypeOK
<1>1. IndInv => TypeOK
  BY DEF IndInv
<1> QED
  BY <1>1, Invariance, PTL

(* The assertion of RndTracker::index_of never fails (top_sim.rs): the     *)
(* values the circuit can touch are always in the window.                  *)
THEOREM NeverPanics == TrackerSpec => []HeldIsTracked
<1>1. IndInv => HeldIsTracked
  BY OnAWireTracked DEF IndInv, HeldIsTracked
<1> QED
  BY <1>1, Invariance, PTL

(* What get_mut returns for such a value is its complete status, whatever  *)
(* prune dropped in between.                                               *)
THEOREM ReportsAreComplete == TrackerSpec => []WindowFaithful
<1>1. IndInv => WindowFaithful
  BY OnAWireTracked DEF WindowFaithful
<1> QED
  BY <1>1, Invariance, PTL

(* check_random_uses sees only the window, yet no run it lets through ever *)
(* received a value that is used as fresh and leaked twice.                *)
THEOREM ForgettingIsSound == TrackerSpec => []NoBadForgotten
<1>1. IndInv => NoBadForgotten
  BY DEF IndInv
<1> QED
  BY <1>1, Invariance, PTL

(* After prune, the front of the window was stored in the last cycle.      *)
THEOREM WindowIsBounded == TrackerSpec => FrontIsHeld
<1>1. IndInv /\ NextCycle => trk'.states = <<>> \/ trk'.states[1].last_stored = cycle
  <2> SUFFICES ASSUME IndInv, NextCycle, trk'.states # <<>>
               PROVE  trk'.states[1].last_stored = cycle
    OBVIOUS
  <2> DEFINE k == trk'.offset
  <2>1. /\ Running /\ trk \in Tracker /\ cycle \in Nat
        /\ hist \in [Cycles -> Status] /\ trk' = Prune(trk, cycle)
    BY DEF IndInv, TypeOK, Tracker, Window, NextCycle
  <2>2. /\ trk' \in Tracker /\ k \in Cycles
        /\ ~Stale(trk'.states[1], cycle)
        /\ \/ StatusAt(trk', k) = StatusAt(trk, k)
           \/ StatusAt(trk', k) = DefaultStatus
    BY <2>1, PruneEffect, TrackerAssumption DEF Running, Tracker, Window, InWindow, Cycles
  <2>3. StatusAt(trk', k) = trk'.states[1]
    <3>1. Len(trk'.states) \in Nat /\ Len(trk'.states) # 0 /\ k \in Nat
      BY <2>2 DEF Tracker, Window
    <3> QED
      BY <3>1 DEF StatusAt, IndexOf
  <2>4. Stale(DefaultStatus, cycle)
    BY DEF Stale, DefaultStatus
  <2>5. trk'.states[1] = StatusAt(trk, k) /\ StatusAt(trk, k) # DefaultStatus
    BY <2>2, <2>3, <2>4
  <2>6. InWindow(trk, k)
    BY <2>1, <2>2, PruneEffect DEF Running, InWindow, Tracker, Window, Cycles
  <2>7. trk'.states[1] = hist[k] /\ hist[k].last_stored <= cycle
    BY <2>1, <2>2, <2>5, <2>6 DEF Running, Accounted
  <2> QED
    BY <2>1, <2>2, <2>7 DEF Stale, Status, Cycles, NotStored
<1> QED
  BY <1>1, Invariance, PTL DEF TrackerSpec, FrontIsHeld

-----------------------------------------------------------------------------
(* The refinement.                                                         *)

LedgerOf(h) == [l \in Cycles |-> [fresh_uses |-> h[l].fresh_uses, leaks |-> h[l].leaks]]

(* An initial tracker is an initial ledger.                                *)
LEMMA InitRefines == TrackerInit => Ledger!LedgerInit
  BY DEF TrackerInit, Ledger!LedgerInit, Ledger!Cycles, Cycles, DefaultStatus

(* A step of the tracker is a step of the ledger, or leaves it unchanged.  *)
LEMMA StepRefines ==
    IndInv /\ IndInv' /\ [TrackerNext]_vars => [Ledger!LedgerNext]_(Ledger!ledgerVars)
<1> SUFFICES ASSUME IndInv, IndInv', [TrackerNext]_vars
             PROVE  [Ledger!LedgerNext]_(Ledger!ledgerVars)
  OBVIOUS
<1>1. hist \in [Cycles -> Status] /\ hist' \in [Cycles -> Status]
  BY DEF IndInv, TypeOK, Cycles
<1>2. Ledger!Cycles = Cycles
  BY DEF Ledger!Cycles, Cycles
<1>3. ASSUME NEW l \in Cycles, Leak(l)
      PROVE  Ledger!RecordLeak(l)
  <2>1. l <= cycle
    BY <1>3, OnAWireTracked DEF Leak, Evaluating
  <2>2. LedgerOf(hist') = [LedgerOf(hist) EXCEPT ![l].leaks = @ + 1]
    BY <1>1, <1>3 DEF Leak, LeakStatus, LedgerOf, Status
  <2>3. verdict' = verdict
    BY <1>3, OnAWireTracked DEF Leak, Evaluating, Access
  <2> QED
    BY <1>3, <2>1, <2>2, <2>3 DEF Leak, Evaluating, Ledger!RecordLeak, LedgerOf
<1>4. ASSUME NEW l \in Cycles, FreshUse(l)
      PROVE  Ledger!RecordFreshUse(l)
  <2>1. l <= cycle
    BY <1>4, OnAWireTracked DEF FreshUse, Evaluating
  <2>2. LedgerOf(hist') = [LedgerOf(hist) EXCEPT ![l].fresh_uses = @ + 1]
    BY <1>1, <1>4 DEF FreshUse, FreshUseStatus, LedgerOf, Status
  <2>3. verdict' = verdict
    BY <1>4, OnAWireTracked DEF FreshUse, Evaluating, Access
  <2> QED
    BY <1>4, <2>1, <2>2, <2>3 DEF FreshUse, Evaluating, Ledger!RecordFreshUse, LedgerOf
<1>5. ASSUME NEW l \in Cycles, Store(l)
      PROVE  UNCHANGED Ledger!ledgerVars
  <2>1. LedgerOf(hist') = LedgerOf(hist)
    BY <1>1, <1>5 DEF Store, StoreStatus, LedgerOf, Status
  <2>2. UNCHANGED <<cycle, phase, verdict>>
    BY <1>5, OnAWireTracked DEF Store, Evaluating, Access
  <2> QED
    BY <2>1, <2>2 DEF Ledger!ledgerVars, LedgerOf
<1>6. CASE CheckRandomUses
  <2>1. AnyBad(trk) <=> \E l \in Cycles : BadStatus(hist[l])
    BY <1>1, <1>6, BadInWindow DEF CheckRandomUses, Evaluating
  <2>2. \A l \in Cycles : Ledger!Bad(l) <=> BadStatus(hist[l])
    BY DEF Ledger!Bad, BadStatus
  <2> QED
    BY <1>2, <1>6, <2>1, <2>2 DEF CheckRandomUses, Evaluating, Ledger!CheckAll, Ledger!LedgerNext
<1>7. CASE NextCycle
  BY <1>7 DEF NextCycle, Ledger!Advance, Ledger!LedgerNext
<1>8. CASE UNCHANGED vars
  BY <1>8 DEF vars, Ledger!ledgerVars
<1> QED
  BY <1>2, <1>3, <1>4, <1>5, <1>6, <1>7, <1>8 DEF TrackerNext, Ledger!LedgerNext

(* The tracker implements the ledger that is never pruned: the same runs   *)
(* are rejected, at the same cycle.                                        *)
THEOREM Refinement == TrackerSpec => ImplementsLedger
  BY InitRefines, StepRefines, Invariance, PTL
     DEF TrackerSpec, ImplementsLedger, Ledger!LedgerSpec
=============================================================================
