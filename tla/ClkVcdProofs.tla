----------------------------- MODULE ClkVcdProofs -----------------------------
(***************************************************************************)
(* The state recorded for a cycle has the values from before the time of   *)
(* its clock edge, for every file, set of variables and size: the fixed    *)
(* bounds of TLC's run are not needed.                                     *)
(***************************************************************************)
EXTENDS ClkVcd, SharedLemmas, FiniteSetTheorems, TLAPS

-----------------------------------------------------------------------------
(* What one more command changes of what a file says.                      *)

Command == [op : {"change", "time"}, code : DOMAIN Sizes, bits : Seq(Value)]
Longer(file, c) == Append(file, c)
Changes(c, code) == c.op = "change" /\ c.code = code
Edge(file, c) == Changes(c, Clock) /\ c.bits = <<1>> /\ ValueBefore(file, Clock, Len(file) + 1) = <<0>>

(* Nothing of the values before the commands that it had ...               *)
LEMMA EarlierValues ==
    ASSUME NEW file \in Seq(Command), NEW c \in Command, NEW code,
           NEW k \in 0..(Len(file) + 1)
    PROVE  ValueBefore(Longer(file, c), code, k) = ValueBefore(file, code, k)
<1>1. /\ Longer(file, c) \in Seq(Command)
      /\ \A i \in 1..Len(file) : Longer(file, c)[i] = file[i]
  BY DEF Longer
<1>2. \A i \in 1..(k - 1) : i \in 1..Len(file)
  OBVIOUS
<1>3. ChangesOf(Longer(file, c), code, k) = ChangesOf(file, code, k)
  BY <1>1, <1>2 DEF ChangesOf
<1>4. CASE ChangesOf(file, code, k) = {}
  BY <1>3, <1>4 DEF ValueBefore
<1>5. CASE ChangesOf(file, code, k) # {}
  <2>1. ChangesOf(file, code, k) \in SUBSET (0..(Len(file) + 1)) /\ Len(file) + 1 \in Nat
    BY <1>2 DEF ChangesOf
  <2>2. Max(ChangesOf(file, code, k)) \in ChangesOf(file, code, k)
    BY <1>5, <2>1, LargestIndex
  <2>3. Max(ChangesOf(file, code, k)) \in 1..Len(file)
    BY <1>2, <2>2 DEF ChangesOf
  <2> QED
    BY <1>1, <1>3, <1>5, <2>3 DEF ValueBefore
<1> QED
  BY <1>4, <1>5

(* ... and after it, the value that it gives.                              *)
LEMMA LatestValue ==
    ASSUME NEW file \in Seq(Command), NEW c \in Command, NEW code
    PROVE  ValueBefore(Longer(file, c), code, Len(file) + 2) =
               IF Changes(c, code) THEN c.bits ELSE ValueBefore(file, code, Len(file) + 1)
<1> DEFINE n == Len(file)
           new == ChangesOf(Longer(file, c), code, n + 2)
           old == ChangesOf(file, code, n + 1)
<1>1. /\ n \in Nat
      /\ \A i \in 1..n : Longer(file, c)[i] = file[i]
      /\ Longer(file, c)[n + 1] = c
  BY DEF Longer
<1>2. new = IF Changes(c, code) THEN old \cup {n + 1} ELSE old
  <2>1. \A i : i \in 1..((n + 2) - 1) <=> i \in 1..((n + 1) - 1) \/ i = n + 1
    BY <1>1
  <2>2. \A i : i \in 1..((n + 1) - 1) => i \in 1..n /\ i # n + 1
    BY <1>1
  <2> HIDE DEF n
  <2> QED
    BY <1>1, <2>1, <2>2 DEF ChangesOf, Changes
<1>3. old \in SUBSET (0..n)
  BY <1>1 DEF ChangesOf
<1>4. CASE Changes(c, code)
  <2>1. new \in SUBSET Int /\ n + 1 \in new /\ \A y \in new : y <= n + 1
    <3> HIDE DEF new, old, n
    <3> QED
      BY <1>1, <1>2, <1>3, <1>4
  <2>2. Max(new) = n + 1
    <3> HIDE DEF new
    <3> QED
      BY <2>1, LargestIs
  <2> QED
    BY <1>1, <1>4, <2>1, <2>2 DEF ValueBefore
<1>5. CASE ~Changes(c, code) /\ old = {}
  BY <1>2, <1>5 DEF ValueBefore
<1>6. CASE ~Changes(c, code) /\ old # {}
  <2>1. Max(old) \in old
    <3> HIDE DEF old
    <3> QED
      BY <1>1, <1>3, <1>6, LargestIndex
  <2>2. Max(old) \in 1..n
    BY <1>1, <2>1 DEF ChangesOf
  <2> QED
    BY <1>1, <1>2, <1>6, <2>2 DEF ValueBefore
<1> QED
  BY <1>4, <1>5, <1>6

(* The same of the time of a command.                                      *)
LEMMA EarlierTimes ==
    ASSUME NEW file \in Seq(Command), NEW c \in Command, NEW k \in 0..Len(file)
    PROVE  /\ TimeOf(Longer(file, c), k) = TimeOf(file, k)
           /\ TimeOf(file, k) \in 0..k
<1> DEFINE times == {0} \cup {i \in 1..k : file[i].op = "time"}
<1>1. \A i \in 1..k : i \in 1..Len(file) /\ Longer(file, c)[i] = file[i]
  BY DEF Longer
<1>2. TimeOf(Longer(file, c), k) = TimeOf(file, k)
  BY <1>1 DEF TimeOf
<1>3. times \in SUBSET (0..k) /\ times # {} /\ k \in Nat
  OBVIOUS
<1>4. Max(times) \in times
  <2> HIDE DEF times
  <2> QED
    BY <1>3, LargestIndex
<1> QED
  BY <1>2, <1>3, <1>4 DEF TimeOf

(* The same for the time of the last timestamp.                            *)
LEMMA LatestTime ==
    ASSUME NEW file \in Seq(Command), NEW c \in Command
    PROVE  TimeOf(Longer(file, c), Len(file) + 1) =
               IF c.op = "time" THEN Len(file) + 1 ELSE TimeOf(file, Len(file))
<1> DEFINE n == Len(file)
           old == {0} \cup {i \in 1..n : file[i].op = "time"}
           new == {0} \cup {i \in 1..(n + 1) : Longer(file, c)[i].op = "time"}
<1>1. /\ n \in Nat
      /\ \A i \in 1..n : Longer(file, c)[i] = file[i]
      /\ Longer(file, c)[n + 1] = c
  BY DEF Longer
<1>2. new = IF c.op = "time" THEN old \cup {n + 1} ELSE old
  <2>1. \A i : i \in 1..(n + 1) <=> i \in 1..n \/ i = n + 1
    BY <1>1
  <2> HIDE DEF n
  <2> QED
    BY <1>1, <2>1
<1>3. \A y \in old : y \in 0..n
  BY <1>1
<1>4. CASE c.op = "time"
  <2>0. new = old \cup {n + 1}
    BY <1>2, <1>4
  <2>1. new \in SUBSET Int /\ n + 1 \in new /\ \A y \in new : y <= n + 1
    <3>1. \A y \in new : y \in 0..n \/ y = n + 1
      <4> HIDE DEF new, old, n
      <4> QED
        BY <1>3, <2>0
    <3> HIDE DEF new, old, n
    <3> QED
      BY <1>1, <2>0, <3>1
  <2>2. Max(new) = n + 1
    <3> HIDE DEF new
    <3> QED
      BY <2>1, LargestIs
  <2> QED
    BY <1>4, <2>2 DEF TimeOf
<1>5. CASE c.op # "time"
  BY <1>2, <1>5 DEF TimeOf
<1> QED
  BY <1>4, <1>5

-----------------------------------------------------------------------------
(* Rising edges and their numbers.                                         *)
LEMMA LatestEdge ==
    ASSUME NEW file \in Seq(Command), NEW c \in Command
    PROVE  Rising(Longer(file, c)) =
               IF Edge(file, c) THEN Rising(file) \cup {Len(file) + 1} ELSE Rising(file)
<1> DEFINE n == Len(file)
           new == Longer(file, c)
<1>1. /\ n \in Nat /\ DOMAIN file = 1..n /\ DOMAIN new = 1..(n + 1)
      /\ \A i \in 1..n : new[i] = file[i]
      /\ new[n + 1] = c
  BY DEF Longer
<1>2. \A k \in 1..(n + 1) : ValueBefore(new, Clock, k) = ValueBefore(file, Clock, k)
  <2>1. \A k \in 1..(n + 1) : k \in 0..(Len(file) + 1)
    BY <1>1
  <2> QED
    BY <2>1, EarlierValues
<1>3. \A k : k \in 1..(n + 1) <=> k \in 1..n \/ k = n + 1
  BY <1>1
<1>4. n + 1 \notin 1..n
  BY <1>1
<1>5. \A k \in 1..n : k \in Rising(new) <=> k \in Rising(file)
  <2> HIDE DEF n, new
  <2> QED
    BY <1>1, <1>2, <1>3 DEF Rising
<1>6. n + 1 \in Rising(new) <=> Edge(file, c)
  <2>1. ValueBefore(new, Clock, n + 1) = ValueBefore(file, Clock, Len(file) + 1)
    BY <1>2, <1>3
  <2>2. n + 1 \in DOMAIN new
    BY <1>1
  <2> HIDE DEF n, new
  <2> QED
    BY <1>1, <2>1, <2>2 DEF Rising, Edge, Changes
<1>7. Rising(new) \subseteq 1..(n + 1) /\ Rising(file) \subseteq 1..n
  <2> HIDE DEF n, new
  <2> QED
    BY <1>1 DEF Rising
<1> HIDE DEF n, new
<1>8. \A k : k \in Rising(new) <=> k \in Rising(file) \/ (Edge(file, c) /\ k = n + 1)
  BY <1>3, <1>4, <1>5, <1>6, <1>7
<1>9. Rising(new) = IF Edge(file, c) THEN Rising(file) \cup {n + 1} ELSE Rising(file)
  BY <1>8
<1> QED
  BY <1>9 DEF n, new

(* A file has finitely many edges.                                         *)
LEMMA FiniteEdges ==
    ASSUME NEW file \in Seq(Command)
    PROVE  /\ IsFiniteSet(Rising(file)) /\ Cardinality(Rising(file)) \in Nat
           /\ Rising(file) \in SUBSET (1..Len(file))
<1>1. Rising(file) \subseteq 1..Len(file)
  BY DEF Rising
<1>2. IsFiniteSet(1..Len(file))
  BY FS_Interval
<1> QED
  BY <1>1, <1>2, FS_Subset, FS_CardinalityType

(* A new edge has the next number, the others keep theirs.                 *)
LEMMA LatestRank ==
    ASSUME NEW file \in Seq(Command), NEW c \in Command, Edge(file, c)
    PROVE  /\ Cardinality(Rising(Longer(file, c))) = Cardinality(Rising(file)) + 1
           /\ \A k \in Rising(file) : Rank(Longer(file, c), k) = Rank(file, k)
           /\ Rank(Longer(file, c), Len(file) + 1) = Cardinality(Rising(file)) + 1
<1> DEFINE n == Len(file)
           new == Rising(Longer(file, c))
<1>1. new = Rising(file) \cup {n + 1} /\ n \in Nat
  BY LatestEdge
<1>2. /\ \A i \in Rising(file) : i \in Nat /\ i <= n
      /\ n + 1 \notin Rising(file)
  BY FiniteEdges
<1>3. Cardinality(new) = Cardinality(Rising(file)) + 1
  <2> HIDE DEF n, new
  <2> QED
    BY <1>1, <1>2, FiniteEdges, FS_AddElement
<1>4. ASSUME NEW k \in Rising(file)
      PROVE  {i \in new : i <= k} = {i \in Rising(file) : i <= k}
  <2>1. ~(n + 1 <= k)
    BY <1>1, <1>2
  <2> HIDE DEF n, new
  <2> QED
    BY <1>1, <2>1
<1>5. {i \in new : i <= n + 1} = new
  <2>1. \A i \in new : i <= n + 1
    BY <1>1, <1>2
  <2> HIDE DEF n, new
  <2> QED
    BY <2>1
<1> HIDE DEF n, new
<1>6. /\ \A k \in Rising(file) : Rank(Longer(file, c), k) = Rank(file, k)
      /\ Rank(Longer(file, c), n + 1) = Cardinality(new)
  BY <1>4, <1>5 DEF Rank, new
<1> QED
  BY <1>3, <1>6 DEF n, new

-----------------------------------------------------------------------------
(* States and values.                                                      *)

(* What a state shows at a place in the file does not depend on what comes *)
(* after it.                                                               *)
LEMMA EarlierShows ==
    ASSUME NEW file \in Seq(Command), NEW c \in Command, NEW k \in 0..(Len(file) + 1), NEW state
    PROVE  Shows(state, Longer(file, c), k) <=> Shows(state, file, k)
BY EarlierValues DEF Shows

(* Padding and reversal give bit b of a vector at offset b.                *)
LEMMA PaddedBits ==
    ASSUME NEW w \in Seq(Value), w # <<>>, NEW size \in Nat \ {0}, Len(w) <= size
    PROVE  /\ Expand(w, size) \in Seq(Value)
           /\ pad_vec_and_reverse(w, size) \in [1..size -> Value]
           /\ \A offset \in 0..(size - 1) :
                 pad_vec_and_reverse(w, size)[offset + 1] = Expand(w, size)[size - offset]
<1> DEFINE bit == IF w[1] = 1 THEN 0 ELSE w[1]
           d == size - Len(w)
           pad == [i \in 1..d |-> bit]
           rev == Reverse(w)
<1>1. Len(w) \in 1..size /\ d \in Nat /\ 1 \in 1..Len(w) /\ size = d + Len(w)
  OBVIOUS
<1>2. bit \in Value
  <2>1. w[1] \in Value
    BY <1>1
  <2> QED
    BY <2>1 DEF Value
<1> HIDE DEF bit, d
<1>3. pad \in Seq(Value) /\ Len(pad) = d /\ \A i \in 1..d : pad[i] = bit
  BY <1>1, <1>2
<1>4. /\ rev \in Seq(Value) /\ Len(rev) = Len(w)
      /\ \A i \in 1..Len(w) : rev[i] = w[Len(w) - i + 1]
  BY <1>1 DEF Reverse
<1>5. Expand(w, size) = pad \o w /\ pad_vec_and_reverse(w, size) = rev \o pad
  BY DEF Expand, pad_vec_and_reverse, bit, d
<1> HIDE DEF pad, rev
<1>6. /\ pad \o w \in Seq(Value) /\ rev \o pad \in Seq(Value)
      /\ Len(rev \o pad) = size
  BY <1>1, <1>3, <1>4
<1>7. ASSUME NEW offset \in 0..(size - 1)
      PROVE  (rev \o pad)[offset + 1] = (pad \o w)[size - offset]
  <2>1. CASE offset < Len(w)
    <3>1. (rev \o pad)[offset + 1] = rev[offset + 1] /\ offset + 1 \in 1..Len(w)
      BY <1>1, <1>3, <1>4, <2>1
    <3>2. (pad \o w)[size - offset] = w[size - offset - d]
      BY <1>1, <1>3, <2>1
    <3>3. Len(w) - (offset + 1) + 1 = size - offset - d
      BY <1>1
    <3> QED
      BY <1>4, <3>1, <3>2, <3>3
  <2>2. CASE offset >= Len(w)
    <3>1. (rev \o pad)[offset + 1] = pad[offset + 1 - Len(w)]
      BY <1>1, <1>3, <1>4, <2>2
    <3>2. (pad \o w)[size - offset] = pad[size - offset]
      BY <1>1, <1>3, <2>2
    <3>3. offset + 1 - Len(w) \in 1..d /\ size - offset \in 1..d
      BY <1>1, <2>2
    <3> QED
      BY <1>3, <3>1, <3>2, <3>3
  <2>3. offset < Len(w) \/ offset >= Len(w)
    BY <1>1
  <2> QED
    BY <2>1, <2>2, <2>3
<1>8. rev \o pad \in [1..size -> Value]
  <2> DEFINE both == rev \o pad
  <2>1. both \in Seq(Value) /\ Len(both) = size
    BY <1>6
  <2> HIDE DEF both
  <2>2. both \in [1..size -> Value]
    BY <2>1
  <2> QED
    BY <2>2 DEF both
<1> QED
  BY <1>5, <1>6, <1>7, <1>8

(* The state of a variable of interest has the code's bits, or none yet.   *)
States ==
    {s \in [DOMAIN used_vars -> Seq(Value)] :
        \A j \in DOMAIN used_vars : s[j] = Uninit \/ s[j] \in [1..Sizes[used_vars[j]] -> Value]}

Stored(state, code, bits) ==
    IF VarOf(code) = 0 THEN state ELSE [state EXCEPT ![VarOf(code)] = bits]

(* VarOf finds the place of an id code, if it is of interest.              *)
LEMMA VariableOf ==
    ASSUME NEW code
    PROVE  \/ VarOf(code) = 0 /\ \A j \in DOMAIN used_vars : used_vars[j] # code
           \/ VarOf(code) \in DOMAIN used_vars /\ used_vars[VarOf(code)] = code
<1> DEFINE named == {j \in DOMAIN used_vars : used_vars[j] = code}
           all == {0} \cup named
<1>1. Len(used_vars) \in Nat /\ DOMAIN used_vars = 1..Len(used_vars)
  BY VcdAssumption
<1>2. all \in SUBSET (0..Len(used_vars)) /\ all # {} /\ named \subseteq 1..Len(used_vars)
  BY <1>1
<1>3. Max(all) \in all /\ \A y \in all : y <= Max(all)
  <2> HIDE DEF all
  <2> QED
    BY <1>1, <1>2, LargestIndex
<1>4. VarOf(code) = Max(all)
  BY DEF VarOf
<1>5. CASE Max(all) \in named
  BY <1>4, <1>5
<1>6. CASE Max(all) = 0
  <2>1. \A y \in named : y \in all /\ ~(y <= 0)
    BY <1>1, <1>2
  <2>2. named = {}
    <3> HIDE DEF all, named
    <3> QED
      BY <1>3, <1>6, <2>1
  <2> QED
    BY <1>4, <1>6, <2>2
<1> QED
  BY <1>3, <1>5, <1>6

(* Storing a value of the right width keeps widths.                        *)
LEMMA StoredType ==
    ASSUME NEW state \in States, NEW code \in DOMAIN Sizes, NEW bits \in [1..Sizes[code] -> Value]
    PROVE  Stored(state, code, bits) \in States
<1>1. CASE VarOf(code) = 0
  BY <1>1 DEF Stored
<1>2. CASE VarOf(code) # 0
  <2>1. VarOf(code) \in DOMAIN used_vars /\ used_vars[VarOf(code)] = code
    BY <1>2, VariableOf
  <2>2. bits \in Seq(Value)
    BY VcdAssumption
  <2> QED
    BY <1>2, <2>1, <2>2 DEF Stored, States
<1> QED
  BY <1>1, <1>2

(* A change of a code, stored, shows after it what the file says.          *)
LEMMA StoredShows ==
    ASSUME OneNamePerNet,
           NEW file \in Seq(Command), NEW c \in Command, c.op = "change",
           NEW state \in States, Shows(state, file, Len(file) + 1),
           NEW bits \in [1..Sizes[c.code] -> Value],
           \A offset \in 0..(Sizes[c.code] - 1) : bits[offset + 1] = c.bits[Sizes[c.code] - offset]
    PROVE  Shows(Stored(state, c.code, bits), Longer(file, c), Len(file) + 2)
<1> DEFINE new == Stored(state, c.code, bits)
<1>1. c.code \in DOMAIN Sizes /\ Sizes[c.code] \in Nat \ {0}
  BY VcdAssumption DEF Command
<1>2. SUFFICES ASSUME NEW j \in DOMAIN used_vars, NEW offset \in 0..(Sizes[used_vars[j]] - 1)
               PROVE  get_var_offset(new, j, offset) =
                        ValueBefore(Longer(file, c), used_vars[j], Len(file) + 2)[Sizes[used_vars[j]] - offset]
  BY DEF Shows
<1>3. CASE used_vars[j] = c.code
  <2>1. VarOf(c.code) = j
    BY <1>3, VariableOf DEF OneNamePerNet
  <2>2. j # 0
    BY VcdAssumption
  <2>3. new[j] = bits
    BY <2>1, <2>2 DEF Stored, States
  <2>4. bits # Uninit
    BY <1>1 DEF Uninit
  <2>5. get_var_offset(new, j, offset) = bits[offset + 1]
    BY <2>3, <2>4 DEF get_var_offset
  <2>6. ValueBefore(Longer(file, c), used_vars[j], Len(file) + 2) = c.bits
    BY <1>3, LatestValue DEF Changes
  <2> QED
    BY <1>3, <2>5, <2>6
<1>4. CASE used_vars[j] # c.code
  <2>1. new[j] = state[j]
    BY <1>4, VariableOf DEF Stored, States
  <2>2. get_var_offset(new, j, offset) = get_var_offset(state, j, offset)
    BY <2>1 DEF get_var_offset
  <2>3. ValueBefore(Longer(file, c), used_vars[j], Len(file) + 2)
            = ValueBefore(file, used_vars[j], Len(file) + 1)
    BY <1>4, LatestValue DEF Changes
  <2>4. get_var_offset(state, j, offset)
            = ValueBefore(file, used_vars[j], Len(file) + 1)[Sizes[used_vars[j]] - offset]
    BY DEF Shows
  <2> QED
    BY <2>2, <2>3, <2>4
<1> QED
  BY <1>3, <1>4

-----------------------------------------------------------------------------
(* Types.                                                                  *)
TypeInv ==
    /\ log \in Seq(Command)
    /\ clk_state \in Value /\ started \in BOOLEAN
    /\ status \in {"reading", "parsed", "invalid clock"}
    /\ current_state \in States /\ previous_state \in States
    /\ states \in Seq(States)

(* The commands that the file may hold.                                    *)
ScalarCommand(code, value) == [op |-> "change", code |-> code, bits |-> <<value>>]
VectorCommand(code, w) == [op |-> "change", code |-> code, bits |-> Expand(w, Sizes[code])]
TimeCommand == [op |-> "time", code |-> Clock, bits |-> <<>>]

(* A scalar command writes one bit, which is its own padding.              *)
LEMMA ScalarBits ==
    ASSUME NEW code \in DOMAIN Sizes, Sizes[code] = 1, NEW value \in Value
    PROVE  /\ ScalarCommand(code, value) \in Command
           /\ <<value>> \in [1..Sizes[code] -> Value]
           /\ \A offset \in 0..(Sizes[code] - 1) : <<value>>[offset + 1] = <<value>>[Sizes[code] - offset]
BY DEF ScalarCommand, Command

(* What is kept of a vector command is its padded bits, the least first.   *)
LEMMA VectorBits ==
    ASSUME NEW code \in DOMAIN Sizes, NEW w \in Written, Len(w) <= Sizes[code]
    PROVE  /\ VectorCommand(code, w) \in Command
           /\ pad_vec_and_reverse(w, Sizes[code]) \in [1..Sizes[code] -> Value]
           /\ \A offset \in 0..(Sizes[code] - 1) :
                 pad_vec_and_reverse(w, Sizes[code])[offset + 1]
                    = Expand(w, Sizes[code])[Sizes[code] - offset]
<1>1. w \in Seq(Value) /\ w # <<>> /\ Sizes[code] \in Nat \ {0}
  BY VcdAssumption
<1>2. /\ Expand(w, Sizes[code]) \in Seq(Value)
      /\ pad_vec_and_reverse(w, Sizes[code]) \in [1..Sizes[code] -> Value]
      /\ \A offset \in 0..(Sizes[code] - 1) :
            pad_vec_and_reverse(w, Sizes[code])[offset + 1]
               = Expand(w, Sizes[code])[Sizes[code] - offset]
  BY <1>1, PaddedBits
<1> QED
  BY <1>2 DEF VectorCommand, Command

(* A timestamp is a command.                                               *)
LEMMA TimeType == TimeCommand \in Command
BY VcdAssumption DEF TimeCommand, Command

(* One more element of a sequence.                                         *)
LEMMA AppendType ==
    ASSUME NEW S, NEW seq \in Seq(S), NEW e \in S
    PROVE  /\ Append(seq, e) \in Seq(S) /\ Len(Append(seq, e)) = Len(seq) + 1 /\ Len(seq) \in Nat
           /\ \A i \in 1..Len(seq) : Append(seq, e)[i] = seq[i] /\ seq[i] \in S
           /\ Append(seq, e)[Len(seq) + 1] = e
OBVIOUS

(* Types hold when the file is opened.                                     *)
LEMMA InitTypes == Init => TypeInv
<1>1. [j \in DOMAIN used_vars |-> Uninit] \in States
  BY DEF States, Uninit
<1>2. <<>> \in Seq(Command) /\ <<>> \in Seq(States)
  OBVIOUS
<1> QED
  BY <1>1, <1>2 DEF Init, TypeInv, Value

(* Every command keeps types: vectors are padded to their width.           *)
LEMMA StepTypes == TypeInv /\ [Next]_vars => TypeInv'
<1> SUFFICES ASSUME TypeInv, [Next]_vars
             PROVE  TypeInv'
  OBVIOUS
<1>1. ASSUME NEW code \in DOMAIN Sizes, NEW value \in Value, ChangeScalar(code, value)
      PROVE  TypeInv'
  <2>1. log' = Append(log, ScalarCommand(code, value)) /\ Sizes[code] = 1
    BY <1>1 DEF ChangeScalar, Reading, ScalarCommand
  <2>a. ScalarCommand(code, value) \in Command
    BY <2>1, ScalarBits
  <2>2. log' \in Seq(Command)
    BY <2>1, <2>a, AppendType DEF TypeInv
  <2>3. current_state' = current_state \/ current_state' = Stored(current_state, code, <<value>>)
    BY <1>1 DEF ChangeScalar, Store, Stored
  <2>4. current_state' \in States
    BY <2>1, <2>3, ScalarBits, StoredType DEF TypeInv
  <2>5. states' = states \/ states' = Append(states, previous_state)
    BY <1>1 DEF ChangeScalar, Tick
  <2>6. states' \in Seq(States)
    <3>1. states \in Seq(States) /\ Append(states, previous_state) \in Seq(States)
      BY AppendType DEF TypeInv
    <3> QED
      BY <2>5, <3>1
  <2>7. clk_state' \in Value /\ started' \in BOOLEAN
    BY <1>1 DEF ChangeScalar, Tick, TypeInv
  <2>8. status' \in {"reading", "parsed", "invalid clock"} /\ previous_state' \in States
    BY <1>1 DEF ChangeScalar, TypeInv
  <2> QED
    BY <2>2, <2>4, <2>6, <2>7, <2>8 DEF TypeInv
<1>2. ASSUME NEW code \in DOMAIN Sizes, NEW w \in Written, ChangeVector(code, w)
      PROVE  TypeInv'
  <2>1. log' = Append(log, VectorCommand(code, w)) /\ Len(w) <= Sizes[code]
    BY <1>2 DEF ChangeVector, Reading, VectorCommand
  <2>a. VectorCommand(code, w) \in Command
    BY <2>1, VectorBits
  <2>2. log' \in Seq(Command)
    BY <2>1, <2>a, AppendType DEF TypeInv
  <2>3. current_state' = Stored(current_state, code, pad_vec_and_reverse(w, Sizes[code]))
    BY <1>2 DEF ChangeVector, Store, Stored
  <2>4. current_state' \in States
    BY <2>1, <2>3, VectorBits, StoredType DEF TypeInv
  <2> QED
    BY <1>2, <2>2, <2>4 DEF ChangeVector, TypeInv
<1>3. CASE Timestamp
  <2>1. log' \in Seq(Command)
    BY <1>3, TimeType DEF Timestamp, Reading, TimeCommand, TypeInv
  <2> QED
    BY <1>3, <2>1 DEF Timestamp, TypeInv
<1>4. CASE EndOfFile
  <2>1. states' \in Seq(States)
    BY <1>4 DEF EndOfFile, TypeInv
  <2> QED
    BY <1>4, <2>1 DEF EndOfFile, TypeInv
<1>5. CASE UNCHANGED vars
  BY <1>5 DEF vars, TypeInv
<1> QED
  BY <1>1, <1>2, <1>3, <1>4, <1>5 DEF Next

(* Variables have the width of the trace's in every state that is kept.    *)
THEOREM TypeCorrect == Spec => []TypeOK
<1>1. TypeInv => TypeOK
  <2> SUFFICES ASSUME TypeInv
               PROVE  TypeOK
    OBVIOUS
  <2>1. Range(states) \subseteq States
    <3>1. states \in Seq(States)
      BY DEF TypeInv
    <3>2. \A i \in DOMAIN states : states[i] \in States
      BY <3>1
    <3> QED
      BY <3>2 DEF Range
  <2> QED
    BY <2>1 DEF TypeInv, TypeOK, States
<1> QED
  BY <1>1, InitTypes, StepTypes, PTL DEF Spec

-----------------------------------------------------------------------------
(* The inductive invariant.  While the file is read, the current state is  *)
(* that of the end of what has been read, the previous one that of the     *)
(* time of the last timestamp, and the clock has its value; each edge that *)
(* was read has a number, and the state recorded under this number is that *)
(* from before its time.                                                   *)
CurrentInv ==
    /\ ValueBefore(log, Clock, Len(log) + 1) = <<clk_state>>
    /\ started <=> clk_state # X
    /\ Shows(current_state, log, Len(log) + 1)
    /\ Shows(previous_state, log, TimeOf(log, Len(log)))

Numbered(file, recorded) ==
    /\ \A k \in Rising(file) :
          /\ Rank(file, k) \in 1..Cardinality(Rising(file))
          /\ Shows(recorded[Rank(file, k)], file, TimeOf(file, k))
    /\ \A n \in 1..Cardinality(Rising(file)) : \E k \in Rising(file) : Rank(file, k) = n

IndInv ==
    /\ TypeInv
    /\ status # "invalid clock" => CurrentInv
    /\ Len(states) = Cardinality(Rising(log)) + (IF status = "parsed" THEN 1 ELSE 0)
    /\ Numbered(log, states)
    /\ status = "parsed" => Shows(states[Len(states)], log, Len(log) + 1)

(* Nothing is known of any variable in an empty file.                      *)
LEMMA InitInv == Init => IndInv
<1> SUFFICES ASSUME Init
             PROVE  IndInv
  OBVIOUS
<1>1. TypeInv
  BY InitTypes
<1>2. log = <<>> /\ Len(log) = 0 /\ DOMAIN log = {} /\ states = <<>> /\ Len(states) = 0
  BY DEF Init
<1>3. Rising(log) = {} /\ Cardinality(Rising(log)) = 0
  <2>1. Rising(log) = {}
    BY <1>2 DEF Rising
  <2> QED
    BY <2>1, FS_EmptySet
<1>4. Numbered(log, states)
  BY <1>3 DEF Numbered
<1>5. \A code \in DOMAIN Sizes, k \in 0..1 : ValueBefore(log, code, k) = [b \in 1..Sizes[code] |-> X]
  BY DEF ValueBefore, ChangesOf
<1>6. TimeOf(log, Len(log)) = 0
  <2>1. {0} \cup {i \in 1..0 : log[i].op = "time"} = {0}
    OBVIOUS
  <2>2. Max({0}) = 0
    BY LargestIs
  <2> QED
    BY <1>2, <2>1, <2>2 DEF TimeOf
<1>7. ASSUME NEW k \in 0..1
      PROVE  Shows(current_state, log, k)
  <2>1. ASSUME NEW j \in DOMAIN used_vars, NEW offset \in 0..(Sizes[used_vars[j]] - 1)
        PROVE  get_var_offset(current_state, j, offset)
                    = ValueBefore(log, used_vars[j], k)[Sizes[used_vars[j]] - offset]
    <3>1. used_vars[j] \in DOMAIN Sizes /\ Sizes[used_vars[j]] \in Nat \ {0}
      BY VcdAssumption
    <3>2. get_var_offset(current_state, j, offset) = X
      BY DEF get_var_offset, Init
    <3>3. Sizes[used_vars[j]] - offset \in 1..Sizes[used_vars[j]]
      BY <3>1
    <3> QED
      BY <1>5, <3>1, <3>2, <3>3
  <2> QED
    BY <2>1 DEF Shows
<1>8. previous_state = current_state /\ clk_state = X /\ started = FALSE /\ status = "reading"
  BY DEF Init
<1>9. ValueBefore(log, Clock, Len(log) + 1) = <<clk_state>>
  <2>a. Clock \in DOMAIN Sizes /\ Sizes[Clock] = 1 /\ 1 \in 0..1
    BY VcdAssumption
  <2>1. ValueBefore(log, Clock, 1) = [b \in 1..1 |-> X]
    BY <1>5, <2>a
  <2> QED
    BY <1>2, <1>8, <2>1
<1>10. CurrentInv
  <2>1. Shows(current_state, log, 1) /\ Shows(current_state, log, 0)
    BY <1>7
  <2> QED
    BY <1>2, <1>6, <1>8, <1>9, <2>1 DEF CurrentInv
<1> QED
  BY <1>1, <1>2, <1>3, <1>4, <1>8, <1>10 DEF IndInv

(* A command that is no edge leaves what was recorded true, and an edge    *)
(* makes it true of the previous state.                                    *)
LEMMA KeepsRecords ==
    ASSUME IndInv, status = "reading", NEW c \in Command, ~Edge(log, c)
    PROVE  /\ Len(states) = Cardinality(Rising(Longer(log, c)))
           /\ Numbered(Longer(log, c), states)
<1>1. log \in Seq(Command) /\ Numbered(log, states) /\ Len(states) = Cardinality(Rising(log)) + 0
  BY DEF IndInv, TypeInv
<1>2. Rising(Longer(log, c)) = Rising(log)
  BY <1>1, LatestEdge
<1>3. \A k \in Rising(log) : Rank(Longer(log, c), k) = Rank(log, k)
  BY <1>2 DEF Rank
<1>4. ASSUME NEW k \in Rising(log), NEW state, Shows(state, log, TimeOf(log, k))
      PROVE  Shows(state, Longer(log, c), TimeOf(Longer(log, c), k))
  <2>1. k \in 1..Len(log) /\ k \in 0..Len(log) /\ Len(log) \in Nat
    BY <1>1, FiniteEdges
  <2>2. TimeOf(Longer(log, c), k) = TimeOf(log, k) /\ TimeOf(log, k) \in 0..k
    BY <1>1, <2>1, EarlierTimes
  <2>3. TimeOf(log, k) \in 0..(Len(log) + 1)
    BY <2>1, <2>2
  <2> QED
    BY <1>1, <1>4, <2>2, <2>3, EarlierShows
<1>5. Len(states) = Cardinality(Rising(log))
  BY <1>1, FiniteEdges
<1> QED
  BY <1>1, <1>2, <1>3, <1>4, <1>5 DEF Numbered

(* An edge records the values from before its time, under its rank.        *)
LEMMA RecordsEdge ==
    ASSUME IndInv, status = "reading", NEW c \in Command, Edge(log, c)
    PROVE  /\ Len(Append(states, previous_state)) = Cardinality(Rising(Longer(log, c)))
           /\ Numbered(Longer(log, c), Append(states, previous_state))
<1> DEFINE n == Len(log)
           card == Cardinality(Rising(log))
           recorded == Append(states, previous_state)
           file == Longer(log, c)
<1>1. /\ log \in Seq(Command) /\ n \in Nat
      /\ Numbered(log, states) /\ Len(states) = card + 0 /\ states \in Seq(States)
      /\ previous_state \in States /\ CurrentInv
  BY DEF IndInv, TypeInv
<1>2. card \in Nat /\ Rising(log) \in SUBSET (1..n)
  BY <1>1, FiniteEdges
<1>3. Rising(file) = Rising(log) \cup {n + 1}
  BY <1>1, LatestEdge
<1>4. /\ Cardinality(Rising(file)) = card + 1
      /\ \A k \in Rising(log) : Rank(file, k) = Rank(log, k)
      /\ Rank(file, n + 1) = card + 1
  BY <1>1, LatestRank
<1>5. /\ Len(recorded) = card + 1
      /\ \A i \in 1..card : recorded[i] = states[i]
      /\ recorded[card + 1] = previous_state
  BY <1>1, <1>2, AppendType
<1>6. ASSUME NEW k \in Rising(log)
      PROVE  /\ Rank(file, k) \in 1..(card + 1)
             /\ Shows(recorded[Rank(file, k)], file, TimeOf(file, k))
  <2>1. k \in 0..n /\ k \in 1..n
    BY <1>1, <1>2
  <2>2. TimeOf(file, k) = TimeOf(log, k) /\ TimeOf(log, k) \in 0..k
    BY <1>1, <2>1, EarlierTimes
  <2>3. TimeOf(log, k) \in 0..(n + 1)
    BY <1>1, <2>1, <2>2
  <2>4. Rank(log, k) \in 1..card /\ Shows(states[Rank(log, k)], log, TimeOf(log, k))
    BY <1>1 DEF Numbered
  <2>5. recorded[Rank(file, k)] = states[Rank(log, k)] /\ Rank(file, k) \in 1..(card + 1)
    BY <1>2, <1>4, <1>5, <2>4
  <2>6. Shows(states[Rank(log, k)], file, TimeOf(log, k))
    BY <1>1, <2>3, <2>4, EarlierShows
  <2> QED
    BY <2>2, <2>5, <2>6
<1>7. /\ Rank(file, n + 1) \in 1..(card + 1)
      /\ Shows(recorded[Rank(file, n + 1)], file, TimeOf(file, n + 1))
  <2>1. c.op # "time"
    BY DEF Edge, Changes
  <2>2. TimeOf(file, n + 1) = TimeOf(log, n)
    BY <1>1, <2>1, LatestTime
  <2>3. TimeOf(log, n) \in 0..(n + 1)
    <3>1. n \in 0..n
      BY <1>1
    <3>2. TimeOf(log, n) \in 0..n
      BY <1>1, <3>1, EarlierTimes
    <3> QED
      BY <1>1, <3>2
  <2>4. Shows(previous_state, file, TimeOf(log, n))
    BY <1>1, <2>3, EarlierShows DEF CurrentInv
  <2> QED
    BY <1>2, <1>4, <1>5, <2>2, <2>4
<1>8. ASSUME NEW i \in 1..(card + 1)
      PROVE  \E k \in Rising(file) : Rank(file, k) = i
  <2>1. CASE i \in 1..card
    <3>1. PICK k \in Rising(log) : Rank(log, k) = i
      BY <1>1, <2>1 DEF Numbered
    <3> QED
      BY <1>3, <1>4, <3>1
  <2>2. CASE i = card + 1
    BY <1>3, <1>4, <2>2
  <2> QED
    BY <1>2, <2>1, <2>2
<1>9. Numbered(file, recorded)
  <2> HIDE DEF n, card, recorded, file
  <2> QED
    BY <1>3, <1>4, <1>6, <1>7, <1>8 DEF Numbered
<1> QED
  BY <1>4, <1>5, <1>9

(* A change that is not the clock's, or leaves the clock as it says.       *)
LEMMA ScalarStep ==
    ASSUME OneNamePerNet, IndInv,
           NEW code \in DOMAIN Sizes, NEW value \in Value, ChangeScalar(code, value)
    PROVE  IndInv'
<1> DEFINE c == ScalarCommand(code, value)
           n == Len(log)
<1>1. /\ log' = Longer(log, c) /\ Sizes[code] = 1 /\ status = "reading"
      /\ previous_state' = previous_state
  BY DEF ChangeScalar, Reading, ScalarCommand, Longer
<1>2. TypeInv /\ TypeInv' /\ CurrentInv
  <2>1. Next
    BY DEF Next
  <2> QED
    BY <1>1, <2>1, StepTypes DEF IndInv
<1>3. log \in Seq(Command) /\ n \in Nat /\ current_state \in States
  <2>1. log \in Seq(Command) /\ current_state \in States
    BY <1>2 DEF TypeInv
  <2> QED
    BY <2>1
<1>4. /\ c \in Command /\ c.op = "change" /\ c.code = code /\ c.bits = <<value>>
      /\ <<value>> \in [1..Sizes[code] -> Value]
      /\ \A offset \in 0..(Sizes[code] - 1) : <<value>>[offset + 1] = c.bits[Sizes[code] - offset]
  BY <1>1, ScalarBits DEF ScalarCommand
<1> HIDE DEF c
<1>5. Len(log') = n + 1
  BY <1>1, <1>3, <1>4, AppendType DEF Longer
<1>6. Edge(log, c) <=> code = Clock /\ value = 1 /\ clk_state = 0
  <2>1. ValueBefore(log, Clock, n + 1) = <<clk_state>>
    BY <1>2 DEF CurrentInv
  <2>2. (<<value>> = <<1>> <=> value = 1) /\ (<<clk_state>> = <<0>> <=> clk_state = 0)
    OBVIOUS
  <2> QED
    BY <1>4, <2>1, <2>2 DEF Edge, Changes
<1>7. /\ Edge(log, c) => states' = Append(states, previous_state) /\ status' = "reading"
      /\ ~Edge(log, c) => states' = states
      /\ status' \in {"reading", "invalid clock"}
  <2>1. 1 # X
    BY DEF X
  <2> QED
    BY <1>1, <1>6, <2>1 DEF ChangeScalar, Tick
<1>8. Len(states') = Cardinality(Rising(log')) /\ Numbered(log', states')
  <2>1. CASE Edge(log, c)
    BY <1>1, <1>4, <1>7, <2>1, RecordsEdge
  <2>2. CASE ~Edge(log, c)
    BY <1>1, <1>4, <1>7, <2>2, KeepsRecords
  <2> QED
    BY <2>1, <2>2
<1>9. Cardinality(Rising(log')) \in Nat
  BY <1>2, FiniteEdges DEF TypeInv
<1>10. ASSUME status' # "invalid clock"
       PROVE  CurrentInv'
  <2>1. /\ ~(code = Clock /\ value = X /\ started)
        /\ IF code = Clock THEN Tick(value) ELSE UNCHANGED <<clk_state, started, states>>
        /\ current_state' = Stored(current_state, code, <<value>>)
    BY <1>10 DEF ChangeScalar, Store, Stored
  <2>2. Shows(current_state', log', n + 2)
    BY <1>1, <1>2, <1>3, <1>4, <2>1, StoredShows DEF CurrentInv
  <2>3. Shows(previous_state', log', TimeOf(log', n + 1))
    <3>1. TimeOf(log', n + 1) = TimeOf(log, n)
      BY <1>1, <1>3, <1>4, LatestTime
    <3>2. n \in 0..n
      BY <1>3
    <3>3. TimeOf(log, n) \in 0..n
      BY <1>3, <1>4, <3>2, EarlierTimes
    <3>4. TimeOf(log, n) \in 0..(n + 1)
      BY <1>3, <3>3
    <3> QED
      BY <1>1, <1>2, <1>3, <1>4, <3>1, <3>4, EarlierShows DEF CurrentInv
  <2>4. (started' <=> clk_state' # X) /\ ValueBefore(log', Clock, n + 2) = <<clk_state'>>
    <3>1. ValueBefore(log', Clock, n + 2)
                = IF code = Clock THEN <<value>> ELSE ValueBefore(log, Clock, n + 1)
      BY <1>1, <1>3, <1>4, LatestValue DEF Changes
    <3>2. CASE code = Clock
      BY <1>2, <2>1, <3>1, <3>2 DEF Tick, CurrentInv, TypeInv
    <3>3. CASE code # Clock
      BY <1>2, <2>1, <3>1, <3>3 DEF CurrentInv
    <3> QED
      BY <3>2, <3>3
  <2>5. Len(log') + 1 = n + 2
    BY <1>3, <1>5
  <2> QED
    BY <1>5, <2>2, <2>3, <2>4, <2>5 DEF CurrentInv
<1>11. Len(states') = Cardinality(Rising(log')) + (IF status' = "parsed" THEN 1 ELSE 0)
  <2>1. status' # "parsed"
    BY <1>7
  <2> QED
    BY <1>8, <1>9, <2>1
<1> QED
  BY <1>2, <1>7, <1>8, <1>10, <1>11 DEF IndInv

(* A vector command changes one variable, and is never an edge.            *)
LEMMA VectorStep ==
    ASSUME OneNamePerNet, IndInv,
           NEW code \in DOMAIN Sizes, NEW w \in Written, ChangeVector(code, w)
    PROVE  IndInv'
<1> DEFINE c == VectorCommand(code, w)
           bits == pad_vec_and_reverse(w, Sizes[code])
           n == Len(log)
<1>1. /\ log' = Longer(log, c) /\ Len(w) <= Sizes[code] /\ code # Clock /\ status = "reading"
      /\ UNCHANGED <<previous_state, clk_state, started, states, status>>
      /\ current_state' = Stored(current_state, code, bits)
  BY DEF ChangeVector, Reading, VectorCommand, Longer, Store, Stored
<1>2. TypeInv /\ TypeInv' /\ CurrentInv
  <2>1. Next
    BY DEF Next
  <2> QED
    BY <1>1, <2>1, StepTypes DEF IndInv
<1>3. log \in Seq(Command) /\ n \in Nat /\ current_state \in States
  <2>1. log \in Seq(Command) /\ current_state \in States
    BY <1>2 DEF TypeInv
  <2> QED
    BY <2>1
<1>4. /\ c \in Command /\ c.op = "change" /\ c.code = code
      /\ bits \in [1..Sizes[code] -> Value]
      /\ \A offset \in 0..(Sizes[code] - 1) : bits[offset + 1] = c.bits[Sizes[code] - offset]
  BY <1>1, VectorBits DEF VectorCommand
<1> HIDE DEF c, bits
<1>5. Len(log') = n + 1 /\ Len(log') + 1 = n + 2
  BY <1>1, <1>3, <1>4, AppendType DEF Longer
<1>6. ~Edge(log, c)
  BY <1>1, <1>4 DEF Edge, Changes
<1>7. Len(states') = Cardinality(Rising(log')) /\ Numbered(log', states')
  BY <1>1, <1>4, <1>6, KeepsRecords
<1>8. Cardinality(Rising(log')) \in Nat
  BY <1>2, FiniteEdges DEF TypeInv
<1>9. Shows(current_state', log', n + 2)
  BY <1>1, <1>2, <1>3, <1>4, StoredShows DEF CurrentInv
<1>10. Shows(previous_state', log', TimeOf(log', n + 1))
  <2>1. TimeOf(log', n + 1) = TimeOf(log, n)
    BY <1>1, <1>3, <1>4, LatestTime
  <2>2. n \in 0..n
    BY <1>3
  <2>3. TimeOf(log, n) \in 0..n
    BY <1>3, <1>4, <2>2, EarlierTimes
  <2>4. TimeOf(log, n) \in 0..(n + 1)
    BY <1>3, <2>3
  <2> QED
    BY <1>1, <1>2, <1>3, <1>4, <2>1, <2>4, EarlierShows DEF CurrentInv
<1>11. ValueBefore(log', Clock, n + 2) = <<clk_state'>>
  <2>1. ValueBefore(log', Clock, n + 2) = ValueBefore(log, Clock, n + 1)
    BY <1>1, <1>3, <1>4, LatestValue DEF Changes
  <2> QED
    BY <1>1, <1>2, <2>1 DEF CurrentInv
<1>12. CurrentInv'
  BY <1>1, <1>2, <1>5, <1>9, <1>10, <1>11 DEF CurrentInv
<1> QED
  BY <1>1, <1>2, <1>7, <1>8, <1>12 DEF IndInv

(* A new time: the present becomes the past.                               *)
LEMMA TimeStep ==
    ASSUME IndInv, Timestamp
    PROVE  IndInv'
<1> DEFINE n == Len(log)
           c == TimeCommand
<1>1. /\ log' = Longer(log, c) /\ status = "reading" /\ previous_state' = current_state
      /\ UNCHANGED <<current_state, clk_state, started, states, status>>
  BY DEF Timestamp, Reading, TimeCommand, Longer
<1>2. TypeInv /\ TypeInv' /\ CurrentInv
  <2>1. Next
    BY DEF Next
  <2> QED
    BY <1>1, <2>1, StepTypes DEF IndInv
<1>3. log \in Seq(Command) /\ n \in Nat /\ current_state \in States
  <2>1. log \in Seq(Command) /\ current_state \in States
    BY <1>2 DEF TypeInv
  <2> QED
    BY <2>1
<1>4. c \in Command /\ c.op = "time" /\ \A code \in DOMAIN Sizes : ~Changes(c, code)
  BY TimeType DEF TimeCommand, Changes
<1> HIDE DEF c
<1>5. Len(log') = n + 1 /\ Len(log') + 1 = n + 2
  BY <1>1, <1>3, <1>4, AppendType DEF Longer
<1>6. ~Edge(log, c)
  BY <1>4, VcdAssumption DEF Edge
<1>7. Len(states') = Cardinality(Rising(log')) /\ Numbered(log', states')
  BY <1>1, <1>4, <1>6, KeepsRecords
<1>8. Cardinality(Rising(log')) \in Nat
  BY <1>2, FiniteEdges DEF TypeInv
<1>9. \A code \in DOMAIN Sizes : ValueBefore(log', code, n + 2) = ValueBefore(log, code, n + 1)
  BY <1>1, <1>3, <1>4, LatestValue
<1>10. Shows(current_state', log', n + 2)
  <2>1. \A j \in DOMAIN used_vars : used_vars[j] \in DOMAIN Sizes
    BY VcdAssumption
  <2>2. Shows(current_state, log, n + 1)
    BY <1>2 DEF CurrentInv
  <2> QED
    BY <1>1, <1>9, <2>1, <2>2 DEF Shows, get_var_offset
<1>11. Shows(previous_state', log', TimeOf(log', n + 1))
  <2>1. TimeOf(log', n + 1) = n + 1
    BY <1>1, <1>3, <1>4, LatestTime
  <2>2. n + 1 \in 0..(n + 1)
    BY <1>3
  <2>3. Shows(current_state, log', n + 1)
    BY <1>1, <1>2, <1>3, <1>4, <2>2, EarlierShows DEF CurrentInv
  <2> QED
    BY <1>1, <2>1, <2>3
<1>12. ValueBefore(log', Clock, n + 2) = <<clk_state'>>
  BY <1>1, <1>2, <1>9, VcdAssumption DEF CurrentInv
<1>13. CurrentInv'
  BY <1>1, <1>2, <1>5, <1>10, <1>11, <1>12 DEF CurrentInv
<1>14. Len(states') = Cardinality(Rising(log')) + (IF status' = "parsed" THEN 1 ELSE 0)
  <2>1. status' # "parsed"
    BY <1>1
  <2> QED
    BY <1>7, <1>8, <2>1
<1> QED
  BY <1>1, <1>2, <1>7, <1>13, <1>14 DEF IndInv

(* The end: one more state, the last one, under no number.                 *)
LEMMA EndStep ==
    ASSUME IndInv, EndOfFile
    PROVE  IndInv'
<1> DEFINE card == Cardinality(Rising(log))
           recorded == Append(states, current_state)
<1>1. /\ states' = recorded /\ status = "reading" /\ status' = "parsed"
      /\ UNCHANGED <<current_state, previous_state, clk_state, started, log>>
  BY DEF EndOfFile
<1>2. TypeInv /\ TypeInv' /\ CurrentInv /\ CurrentInv'
  <2>1. Next
    BY DEF Next
  <2>2. TypeInv /\ CurrentInv
    BY <1>1 DEF IndInv
  <2> QED
    BY <1>1, <2>1, <2>2, StepTypes DEF CurrentInv
<1>3. log \in Seq(Command) /\ current_state \in States /\ states \in Seq(States)
  BY <1>2 DEF TypeInv
<1>4. card \in Nat
  BY <1>3, FiniteEdges
<1>5. Len(states) = card /\ Numbered(log, states)
  BY <1>1, <1>4 DEF IndInv
<1>6. /\ Len(recorded) = card + 1
      /\ \A i \in 1..card : recorded[i] = states[i]
      /\ recorded[card + 1] = current_state
  BY <1>3, <1>5, AppendType
<1>7. Numbered(log, recorded)
  BY <1>5, <1>6 DEF Numbered
<1>8. Shows(recorded[Len(recorded)], log, Len(log) + 1)
  BY <1>2, <1>6 DEF CurrentInv
<1>9. Len(states') = Cardinality(Rising(log')) + (IF status' = "parsed" THEN 1 ELSE 0)
  BY <1>1, <1>4, <1>6
<1> HIDE DEF recorded, card
<1> QED
  BY <1>1, <1>2, <1>7, <1>8, <1>9 DEF IndInv

(* Every command keeps the inductive invariant.                            *)
LEMMA StepInv ==
    ASSUME OneNamePerNet
    PROVE  IndInv /\ [Next]_vars => IndInv'
<1> SUFFICES ASSUME IndInv, [Next]_vars
             PROVE  IndInv'
  OBVIOUS
<1>1. CASE UNCHANGED vars
  BY <1>1 DEF vars, IndInv, TypeInv, CurrentInv
<1> QED
  BY <1>1, ScalarStep, VectorStep, TimeStep, EndStep DEF Next

(* Each recorded state has the values from before the time of its edge,    *)
(* as long as no id code has two names.                                    *)
THEOREM SamplesBeforeEdges ==
    ASSUME OneNamePerNet
    PROVE  Spec => []SampledBeforeEdge
<1>1. IndInv => SampledBeforeEdge
  <2> SUFFICES ASSUME IndInv
               PROVE  SampledBeforeEdge
    OBVIOUS
  <2>1. ASSUME NEW n \in 1..Cardinality(Rising(log))
        PROVE  Shows(states[n], log, TimeOf(log, EdgeNo(log, n)))
    <3>1. \E k \in Rising(log) : Rank(log, k) = n
      BY DEF IndInv, Numbered
    <3>2. EdgeNo(log, n) \in Rising(log) /\ Rank(log, EdgeNo(log, n)) = n
      BY <3>1 DEF EdgeNo
    <3> QED
      BY <3>2 DEF IndInv, Numbered
  <2> QED
    BY <2>1 DEF IndInv, SampledBeforeEdge
<1> QED
  BY <1>1, InitInv, StepInv, PTL DEF Spec

(* Every net named in the annotations has its value in the trace, when no  *)
(* net of interest has two names (a net with two names may lose it, see    *)
(* the run aliased_net).                                                   *)
THEOREM EveryNetSampled ==
    ASSUME OneNamePerNet
    PROVE  Spec => []EveryNetHasItsValue
<1>1. SampledBeforeEdge => EveryNetHasItsValue
  BY DEF SampledBeforeEdge, EveryNetHasItsValue
<1> QED
  BY <1>1, SamplesBeforeEdges, PTL

=============================================================================
