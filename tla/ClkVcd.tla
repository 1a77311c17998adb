-------------------------------- MODULE ClkVcd --------------------------------
(***************************************************************************)
(* Sampling of the input trace (clk_vcd.rs, clocked_states2): the commands *)
(* of a vcd file are read one by one and the state of the variables of     *)
(* interest is recorded at each rising edge of the clock, as it was before *)
(* the time of the edge; the state at the end of the file is the last one. *)
(*                                                                         *)
(* 'z' is 'x' here: no code distinguishes them.  The state of a variable   *)
(* is the sequence of its bits, offset 0 first, or Uninit.                 *)
(***************************************************************************)
EXTENDS Integers, FiniteSetsExt, SequencesExt

CONSTANTS Clock,           \* id code of the clock
          Sizes,           \* [code -> number of bits] of all the vcd variables
          used_vars,       \* sequence of the id codes of the variables of interest
          Written,         \* the vectors that the file may hold, last bit offset 0
          MaxCommands      \* bound on the length of the file, for TLC

X == -1
Value == {0, 1, X}
Uninit == <<>>

ASSUME VcdAssumption ==
    /\ Clock \in DOMAIN Sizes /\ Sizes[Clock] = 1
    /\ \A c \in DOMAIN Sizes : Sizes[c] \in Nat \ {0}
    /\ used_vars \in Seq(DOMAIN Sizes)
    /\ \A written \in Written : written \in Seq(Value) /\ written # <<>>

VARIABLES current_state, previous_state, clk_state, started, states,
          status,          \* "reading", then "parsed" or "invalid clock"
          log              \* history: the commands read so far

vars == <<current_state, previous_state, clk_state, started, states, status, log>>

(* A vector is written with its leading bits left out: all but one of the  *)
(* zeros, of the 'x', and any zeros before a one.                          *)
Expand(written, size) ==
    [i \in 1..(size - Len(written)) |-> IF written[1] = 1 THEN 0 ELSE written[1]] \o written

reverse_only(vec, size) == Reverse(vec)                          \* mutant

pad_vec_and_reverse(vec, size) ==
    LET padding_value == IF vec[1] = 1 THEN 0 ELSE vec[1]
    IN  Reverse(vec) \o [i \in 1..(size - Len(vec)) |-> padding_value]

(* idcode2var_id: the last variable entered under a code overwrites others.*)
VarOf(code) == Max({0} \cup {j \in DOMAIN used_vars : used_vars[j] = code})

(* get_var_offset, with from_vcd.                                          *)
get_var_offset(state, j, offset) == IF state[j] = Uninit THEN X ELSE state[j][offset + 1]

Init ==
    /\ current_state = [j \in DOMAIN used_vars |-> Uninit]
    /\ previous_state = current_state
    /\ clk_state = X
    /\ started = FALSE
    /\ states = <<>>
    /\ status = "reading"
    /\ log = <<>>

-----------------------------------------------------------------------------
Reading(command) ==
    /\ status = "reading" /\ Len(log) < MaxCommands
    /\ log' = Append(log, command)

Store(code, bits) ==
    current_state' = IF VarOf(code) = 0 THEN current_state
                     ELSE [current_state EXCEPT ![VarOf(code)] = bits]

(* The clock's part of ChangeScalar.                                       *)
TickLate(value) ==                                               \* mutant
    /\ states' = IF value = 1 /\ clk_state = 0 THEN Append(states, current_state) ELSE states
    /\ clk_state' = IF value = X THEN clk_state ELSE value
    /\ started' = (started \/ value # X)

Tick(value) ==
    /\ states' = IF value = 1 /\ clk_state = 0 THEN Append(states, previous_state) ELSE states
    /\ clk_state' = IF value = X THEN clk_state ELSE value
    /\ started' = (started \/ value # X)

ChangeScalar(code, value) ==
    /\ Sizes[code] = 1
    /\ Reading([op |-> "change", code |-> code, bits |-> <<value>>])
    /\ IF code = Clock /\ value = X /\ started
       THEN /\ status' = "invalid clock"
            /\ UNCHANGED <<current_state, clk_state, started, states>>
       ELSE /\ IF code = Clock THEN Tick(value) ELSE UNCHANGED <<clk_state, started, states>>
            /\ Store(code, <<value>>)
            /\ UNCHANGED status
    /\ UNCHANGED previous_state

ChangeVector(code, written) ==
    /\ code # Clock /\ Len(written) <= Sizes[code]
    /\ Reading([op |-> "change", code |-> code, bits |-> Expand(written, Sizes[code])])
    /\ Store(code, pad_vec_and_reverse(written, Sizes[code]))
    /\ UNCHANGED <<previous_state, clk_state, started, states, status>>

Timestamp ==
    /\ Reading([op |-> "time", code |-> Clock, bits |-> <<>>])
    /\ previous_state' = current_state
    /\ UNCHANGED <<current_state, clk_state, started, states, status>>

EndOfFile ==
    /\ status = "reading"
    /\ states' = Append(states, current_state)
    /\ status' = "parsed"
    /\ UNCHANGED <<current_state, previous_state, clk_state, started, log>>

Next ==
    \/ \E code \in DOMAIN Sizes :
          \/ \E value \in Value : ChangeScalar(code, value)
          \/ \E written \in Written : ChangeVector(code, written)
    \/ Timestamp
    \/ EndOfFile

Spec == Init /\ [][Next]_vars

-----------------------------------------------------------------------------
(* The reference: what a file says, read off its commands.                 *)
ChangesOf(file, code, k) == {i \in 1..(k - 1) : file[i].op = "change" /\ file[i].code = code}
ValueBefore(file, code, k) ==
    IF ChangesOf(file, code, k) = {} THEN [b \in 1..Sizes[code] |-> X]
    ELSE file[Max(ChangesOf(file, code, k))].bits

(* Rising edges: the clock goes to 1 and was 0, in file order.             *)
Rising(file) ==
    {k \in DOMAIN file : /\ file[k].op = "change" /\ file[k].code = Clock
                         /\ file[k].bits = <<1>> /\ ValueBefore(file, Clock, k) = <<0>>}
Rank(file, k) == Cardinality({i \in Rising(file) : i <= k})
EdgeNo(file, n) == CHOOSE k \in Rising(file) : Rank(file, k) = n
TimeOf(file, k) == Max({0} \cup {i \in 1..k : file[i].op = "time"})

Shows(state, file, k) ==
    \A j \in DOMAIN used_vars : \A offset \in 0..(Sizes[used_vars[j]] - 1) :
        get_var_offset(state, j, offset) =
            ValueBefore(file, used_vars[j], k)[Sizes[used_vars[j]] - offset]

(* Types, and the length of the trace.                                     *)
TypeOK ==
    /\ clk_state \in Value /\ started \in BOOLEAN
    /\ status \in {"reading", "parsed", "invalid clock"}
    /\ \A s \in {current_state, previous_state} \cup Range(states) :
          \A j \in DOMAIN used_vars : s[j] = Uninit \/ s[j] \in [1..Sizes[used_vars[j]] -> Value]

(* Each cycle of the trace has the values that the variables had before    *)
(* the time of its clock edge, whatever the order in which the changes of  *)
(* that time are written, the clock's among them; the last one has the     *)
(* final values.  There is one cycle per rising edge, and one more.        *)
SampledBeforeEdge ==
    /\ Len(states) = Cardinality(Rising(log)) + (IF status = "parsed" THEN 1 ELSE 0)
    /\ \A n \in 1..Cardinality(Rising(log)) :
          Shows(states[n], log, TimeOf(log, EdgeNo(log, n)))
    /\ status = "parsed" => Shows(states[Len(states)], log, Len(log) + 1)

(* No two names of interest have one id code (see idcode2var_id).          *)
OneNamePerNet == \A i, j \in DOMAIN used_vars : used_vars[i] = used_vars[j] => i = j

(* Every net of the trace that the analysis needs has its value in it: the *)
(* net named by a matchi_active attribute "must be included in the vcd,    *)
(* and its value is used".                                                 *)
EveryNetHasItsValue == status = "parsed" => Shows(states[Len(states)], log, Len(log) + 1)
=============================================================================
