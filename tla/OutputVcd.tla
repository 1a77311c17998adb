------------------------------ MODULE OutputVcd ------------------------------
(***************************************************************************)
(* The output trace (vcd_writer.rs), in the main loop (main.rs): in every  *)
(* cycle the states of all nets are written once evaluated and before they *)
(* are checked, so that the cycle that is rejected is in the trace.        *)
(*                                                                         *)
(* The file is read back by the code that samples input traces (ClkVcd),   *)
(* along the clock of the trace, as a viewer would.  The text of the       *)
(* commands and of the header is left to the vcd crate; a name is a target *)
(* (value, random, deterministic or a share), a path of instances and the  *)
(* number of a net of the module there.                                    *)
(***************************************************************************)
EXTENDS WireState, FiniteSetsExt, SequencesExt

CONSTANTS Netnames,          \* the nets of each module: the wires of their bits, offset 0 first
          Cells,             \* the module instances of each module: [instance, module]
          TopModule,
          nshares,
          ModuleStates,      \* states of the top-level module: functions from <<path, wire>>
          NCycles,           \* length of the input trace
          CountBits          \* size of the cycle counter, 32 in the code

TwoTo[n \in Nat] == IF n = 0 THEN 1 ELSE 2 * TwoTo[n - 1]

ASSUME OutputAssumption ==
    /\ nshares \in Nat /\ NCycles \in Nat \ {0}
    /\ CountBits \in Nat \ {0} /\ NCycles <= TwoTo[CountBits]
    /\ Netnames \in [DOMAIN Cells -> Seq(Seq(Nat))] /\ TopModule \in DOMAIN Cells
    /\ \A m \in DOMAIN Cells : \A k \in DOMAIN Netnames[m] : Netnames[m][k] # <<>>
    /\ \A m \in DOMAIN Cells : Cells[m] \in Seq([instance : Nat, module : DOMAIN Cells])
    /\ IsFiniteSet(DOMAIN Cells)

VARIABLES pc,                \* of the main loop: "next", "write", "check" or "done"
          computed,          \* the states that the simulator computed
          file,              \* the commands written
          current_state, previous_state, clk_state, started, states, status, log

readerVars == <<current_state, previous_state, clk_state, started, states, status, log>>
vars == <<pc, computed, file, current_state, previous_state, clk_state, started, states, status, log>>

-----------------------------------------------------------------------------
(* VcdWriter::new: the variables of the header, in the order in which they *)
(* are declared, with their id codes (numbers here).                       *)
Target(kind, share_id) == [kind |-> kind, share_id |-> share_id]
Targets == <<Target("value", 0), Target("random", 0), Target("deterministic", 0)>>
               \o [s \in 1..nshares |-> Target("share", s - 1)]

(* The nets below a module, to a depth, in the order in which they get     *)
(* their codes: its own, then those of each instance.  Instances are       *)
(* nested in each other less deep than there are modules.                  *)
Inside(instance, nets) == [k \in DOMAIN nets |-> [nets[k] EXCEPT !.path = <<instance>> \o @]]
NetsTo[depth \in Nat] ==
    [m \in DOMAIN Netnames |->
        IF depth = 0 THEN <<>>
        ELSE [k \in DOMAIN Netnames[m] |-> [path |-> <<>>, wires |-> Netnames[m][k]]]
                \o FlattenSeq([c \in DOMAIN Cells[m] |->
                                  Inside(Cells[m][c].instance, NetsTo[depth - 1][Cells[m][c].module])])]

module2scope(target, m, next_id) ==
    LET nets == NetsTo[Cardinality(DOMAIN Netnames)][m]
    IN  [k \in DOMAIN nets |->
            [code |-> next_id + k - 1, target |-> target, path |-> nets[k].path, wires |-> nets[k].wires]]

scope_restarted(header, target) == header \o module2scope(target, TopModule, 0)    \* mutant
scope(header, target) == header \o module2scope(target, TopModule, Len(header))

representations ==
    LET header[n \in Nat] == IF n = 0 THEN <<>> ELSE scope(header[n - 1], Targets[n])
    IN  header[Len(Targets)]

(* add_wire takes the codes that follow.                                   *)
clock == Len(representations)
cycle_count == clock + 1

Sizes == [code \in 0..cycle_count |->
            IF code = clock THEN 1
            ELSE IF code = cycle_count THEN CountBits
            ELSE Len((CHOOSE v \in Range(representations) : v.code = code).wires)]

-----------------------------------------------------------------------------
(* RepresentationTarget::state2value                                       *)
state2value(target, w) ==
    CASE target.kind = "value"         -> w.value
      [] target.kind = "random"        -> IF w.random # {} THEN 1 ELSE X
      [] target.kind = "deterministic" -> IF w.deterministic THEN 1 ELSE X
      [] target.kind = "share"         -> IF target.share_id \in w.sensitivity THEN 1 ELSE 0

(* int2bits: most significant bit first, each from one more shift.         *)
int2bits(x) ==
    LET shifted[n \in Nat] == IF n = 0 THEN x ELSE shifted[n - 1] \div 2
    IN  [i \in 1..CountBits |-> shifted[CountBits - i] % 2]

Vector(code, bits) == [op |-> "vector", code |-> code, bits |-> bits]
Scalar(code, value) == [op |-> "scalar", code |-> code, bits |-> <<value>>]
Time(t) == [op |-> "time", code |-> t, bits |-> <<>>]

write_state(state) ==
    [v \in DOMAIN representations |->
        LET var == representations[v]
            bits == [b \in DOMAIN var.wires |->
                        state2value(var.target, state[<<var.path, var.wires[b]>>])]
        IN  Vector(var.code, Reverse(bits))]

(* What new_state writes; the timestamp grows by 10 each time.             *)
new_state_low(state, timestamp) ==                                 \* mutant
    write_state(state)
        \o <<Vector(cycle_count, int2bits(timestamp \div 10)), Scalar(clock, 0),
             Time(timestamp + 5), Scalar(clock, 1), Time(timestamp + 10)>>
new_state(state, timestamp) ==
    write_state(state)
        \o <<Vector(cycle_count, int2bits(timestamp \div 10)), Scalar(clock, 1),
             Time(timestamp + 5), Scalar(clock, 0), Time(timestamp + 10)>>

-----------------------------------------------------------------------------
(* The main loop.                                                          *)
NextCycleStays ==                                                  \* mutant
    /\ pc = "next"
    /\ IF Len(computed) = NCycles THEN UNCHANGED <<pc, computed>>
       ELSE /\ \E s \in ModuleStates : computed' = Append(computed, s)
            /\ pc' = "write"
    /\ UNCHANGED file
    /\ UNCHANGED readerVars
NextCycle ==
    /\ pc = "next"
    /\ IF Len(computed) = NCycles THEN pc' = "done" /\ UNCHANGED computed
       ELSE /\ \E s \in ModuleStates : computed' = Append(computed, s)
            /\ pc' = "write"
    /\ UNCHANGED file
    /\ UNCHANGED readerVars

WriteState ==
    /\ pc = "write"
    /\ file' = file \o new_state(Last(computed), 10 * (Len(computed) - 1))
    /\ pc' = "check"
    /\ UNCHANGED computed
    /\ UNCHANGED readerVars

(* The cycle is accepted or not.                                           *)
Check ==
    /\ pc = "check"
    /\ pc' \in {"next", "done"}
    /\ UNCHANGED <<computed, file>>
    /\ UNCHANGED readerVars

-----------------------------------------------------------------------------
(* Then the file is read back.                                             *)
MaxFile == 1 + NCycles * (Len(representations) + 5)       \* the commands of a whole file
Codes == [j \in 1..(cycle_count + 1) |-> j - 1]
Reader == INSTANCE ClkVcd WITH Clock <- clock, used_vars <- Codes, Written <- {},
                               MaxCommands <- MaxFile

Read ==
    /\ pc = "done" /\ Len(log) < Len(file)
    /\ LET command == file[Len(log) + 1]
       IN  CASE command.op = "scalar" -> Reader!ChangeScalar(command.code, command.bits[1])
             [] command.op = "vector" -> Reader!ChangeVector(command.code, command.bits)
             [] command.op = "time"   -> Reader!Timestamp
    /\ UNCHANGED <<pc, computed, file>>

EndOfFile ==
    /\ pc = "done" /\ Len(log) = Len(file)
    /\ Reader!EndOfFile
    /\ UNCHANGED <<pc, computed, file>>

Init ==
    /\ pc = "next"
    /\ computed = <<>>
    /\ file = <<Time(0)>>
    /\ Reader!Init

Next == NextCycle \/ WriteState \/ Check \/ Read \/ EndOfFile

(* A sequential program, then one that reads the file to its end.          *)
Spec == Init /\ [][Next]_vars /\ WF_vars(Next)

-----------------------------------------------------------------------------
(* Types, id codes that name one variable each, and timestamps that grow.  *)
TypeOK ==
    /\ pc \in {"next", "write", "check", "done"}
    /\ Len(computed) <= NCycles
    /\ status \in {"reading", "parsed"}
    /\ IsInjective([v \in DOMAIN representations |-> representations[v].code])
    /\ \A i, j \in DOMAIN file :
          file[i].op = "time" /\ file[j].op = "time" /\ i < j => file[i].code < file[j].code

(* The value that a variable has in a cycle read back, bit b first at 0.   *)
ReadBack(code, cycle) == states[cycle][code + 1]

(* The number of some bits, the least significant one first.               *)
Number(bits) ==
    LET upper[n \in 0..Len(bits)] == IF n = 0 THEN 0 ELSE bits[Len(bits) - n + 1] + 2 * upper[n - 1]
    IN  upper[Len(bits)]

(* What is read back is what the simulator computed, cycle by cycle: one   *)
(* state per rising edge of the clock of the trace, the last one being of  *)
(* the cycle that was rejected, if one was, with the cycle counter of the  *)
(* error messages.                                                         *)
RoundTrip ==
    status = "parsed" /\ computed # <<>> =>
        /\ Len(states) = Len(computed)
        /\ \A i \in DOMAIN states :
              /\ \A v \in Range(representations) : \A b \in DOMAIN v.wires :
                    ReadBack(v.code, i)[b] = state2value(v.target, computed[i][<<v.path, v.wires[b]>>])
              /\ Number(ReadBack(cycle_count, i)) = i - 1

(* The loop over cycles, which has no bound of its own, ends when the      *)
(* cycle counter is the length of the input trace, and the output trace is *)
(* then complete.                                                          *)
Terminates == <>(pc = "done" /\ status = "parsed")
=============================================================================
