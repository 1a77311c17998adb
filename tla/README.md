# Formal models of MATCHI

MATCHI (`src/matchi`) decides whether a masked circuit is a secure composition
of gadgets: it simulates the circuit symbolically, clock cycle by clock cycle,
along the inputs of a recorded trace, and checks rules on every wire and gadget.
A wrong answer is silent: a leaking circuit would be reported as "Verification
successful". These TLA+ modules model the program from the construction of the
netlist to the trace it writes, TLC checks on small netlists and traces that
accepted runs mean what the documentation says, and TLAPS proves for all
instances the parts that the rest stands on: the memory of the randomness bookkeeping, for
every trace length; the meaning of wire states, for every netlist of gates and every trace;
the executions that wires depend on and the pipeline bubbles between them, the randoms that gadgets
share, the glitches of wires and what annotations say of implementations, for every netlist with
gadgets and every trace; the vectors of gadget executions, for every length; the numbering of shares
and randoms, the clock and the tables of modules, their dependencies and combinational loops, for
every design; the sampling of the input trace, for every file; and the output trace, for every
hierarchy and every number of cycles.

The program is sequential. What is hard in it is state that lives across cycles
(randoms in flight in registers and gadgets, pipelined executions that overlap,
decisions taken late about values received early, a window that forgets), and a
recursion whose order is fixed beforehand and only asserted later.

## The system

| part | state it keeps | operations | interacts with | what makes it correct |
|---|---|---|---|---|
| main loop (`main.rs`) | the iterator over cycles | next, write, check, until a verdict | top-level simulator, vcd writer | every analysis ends with a verdict, the last state is written |
| trace sampling (`clk_vcd.rs`) | current and previous state of the variables, state of the clock, recorded states | one transition per vcd command | read by the top-level simulator | each cycle has the values from before its clock edge |
| top-level simulator (`top_sim.rs`: `Simulator`, `SimuIter`, `GlobSimulationState`) | current cycle, last execution start, one tracker per randomness port, last non-sensitive execution of each gadget | prune and advance, set inputs, evaluate, check | drives the evaluators, which call back `leak_random`, `use_random`, `store_random`, `nspgi_det_exec` | a fresh random is used once; dependent executions are separated by a bubble |
| randomness tracker (`top_sim.rs`: `RndTracker`, `RndStatus`) | a window of statuses and its offset | `get_mut` (grows), `prune` (shrinks) | evaluators, the end-of-cycle check | forgets nothing that still matters; bounded |
| evaluators (`recsim.rs`) | inputs of this cycle and of earlier ones, states of wires, stage status, the number of the next query | `init_next`, `set_input`, `eval_output`, `eval_finish`, `check_safe_*` | wire states, global state, each other through the hierarchy | every wire is evaluated once, after what it depends on, and every rule is applied to every wire and gadget |
| wire states (`simulation.rs`), gates (`gates.rs`), values (`wire_value.rs`), share sets (`share_set.rs`) | none (values) | constructors, `sim`, `sim_mux`, `NspgiDep::max` | evaluators | what they say of a wire holds of the circuit |
| annotations (`gadget/`) | none | attributes into roles, latencies, conditions | netlist construction, evaluators | shares and randoms are numbered as the documentation says |
| modules and netlist (`module/`, `netlist.rs`) | modules built so far, their dependencies | build one module from those it instantiates | annotations, evaluators | the summary of a module says what its flat circuit does: dependencies, loops, clock |
| vcd writer (`vcd_writer.rs`) | timestamp, id codes | write the states of a cycle | main loop | the trace says what was computed, cycle by cycle |
| configuration, identifiers (`config.rs`, `type_utils.rs`) | flags | | | |

First the netlist is built, module by module, each from the summaries of those it
instantiates. Then, within a cycle, `SimuIter::next` prunes the trackers with the cycle
that ended, advances, and calls `Simulator::next`, which samples the control signals,
shifts the evaluators' memory (`init_next`), sets the inputs, evaluates all wires in
an order that respects combinational dependencies, and lets every instance
finish (`eval_finish`: registers and gadgets record what they store, gadgets
use and leak their randoms). The states are written to the output trace, and
`SimuIter::check` applies the rules.

The hard behaviours are listed one by one, at their lines, in `PROJECT.json`
("hazards"), with the properties about each.

## Modules

| module | models | based on |
|---|---|---|
| `RndWindow` | the data type `RndTracker`: index, growth, `prune`, the test of `check_random_uses` | |
| `FreshnessLedger` | abstract specification of the randomness bookkeeping: a ledger that is never pruned | |
| `RndTracker` | the life of one tracker over a run, with a history of every value | `RndWindow`, refines `FreshnessLedger` |
| `RndTrackerProofs` | theorems about it | `RndTracker` |
| `WireState` | `WireState`, `CombBinary::sim`, `sim_mux`, `NspgiDep` as a function | |
| `NspgiDep` | `NspgiDep` as the vector of the code | `WireState` |
| `RecSim` | `SimuIter`, `Simulator`, `GlobSimulationState` and the evaluators of `recsim.rs` over a flattened netlist | `WireState`, `RndWindow` |
| `AuditedSim` | `RecSim` with an auditor: which execution observed which random when, which executions had a sensitive input, which executions a wire depends on | `RecSim` |
| `TwinRun` | `RecSim` beside two concrete executions of the circuit | `RecSim` |
| `SimulatorProofs` | theorems about the vectors of `NspgiDep` and about the gates; about executions, glitches and annotations, about randoms, and types; that what the simulator says of wires is sound for two executions | `AuditedSim`, `TwinRun`, `NspgiDep` |
| `PortRoles` | what annotations mean: kinds of ports, share indices, roles, `PipelineGadget::new`, `TopGadget::new` | |
| `NetBuild`, `NetBuildProofs` | construction: order of modules, clock, instances, drivers, dependencies, loops; theorems about shares, randoms and the tables of modules, and about the flat circuit of a design: hierarchy, clock, dependencies, loops | `PortRoles` |
| `FlatEval` | abstract specification of evaluation: the nets of a flat circuit get their values in any order that respects dependencies | |
| `EvalOrder` | `ModuleEvaluator::new`, one cycle of recursive evaluation and of recursive checks | `NetBuild`, refines `FlatEval` |
| `EvalPlanProofs` | the orders, queries, evaluators and identifiers that `ModuleEvaluator::new` makes, the fan-out of wires, and how calls go over the orders | `EvalOrder`, `NetBuildProofs` |
| `EvalOrderProofs` | theorems about evaluation and checks | `EvalPlanProofs` |
| `ClkVcd`, `ClkVcdProofs` | `clocked_states2`, and theorems about it | |
| `OutputVcd`, `OutputVcdProofs` | the vcd writer in the main loop, then its file read back, and theorems about both | `WireState`, instantiates `ClkVcd` |
| `SharedLemmas` | least and largest elements of sets of numbers, sequences, cardinalities, the effect of `prune`, for the proofs | |
| `NetlistDefs` | small netlists for `RecSim` | |
| `MCRndTracker`, `MCAuditedSim`, `MCTwinRun`, `MCNetBuild`, `MCEvalOrder`, `MCOutputVcd`, `MCFindings`, `MCClkVcd` | constants for TLC; `MCFindings` also has the properties of the runs that are expected to fail | |

The simulator is split in two: `RecSim` has the states and their rules, over a
netlist whose wires are numbered in an order in which they can be evaluated
(assumption `NetlistsAssumption`); `NetBuild` and `EvalOrder` show where such an order
comes from, with terms in the place of states. Two more conjuncts of that assumption hold of every
netlist that Yosys writes: cells have the inputs of their kind (those of gadgets, one of three
roles), and what is outside of the gadgets
is connected to their outputs and never to the wires inside (`Enclosed`). `TraceAssumption` says
that a trace has a number of cycles. What a gadget contributes to the order
(when it reads its inputs) is in `EvalOrder`, what it makes of them in `RecSim`.

### RecSim

State and code:

| variable | code |
|---|---|
| `net` | `Netlist`, flattened |
| `cycle`, `lastStart`, `trks`, `lastNs` | `current_cycle`, `last_exec_start`, `random_status`, `last_nonsensitive_exec` |
| `ws` | `ModuleState.wire_states`, of the wires evaluated so far in this cycle |
| `past` | `GateState.prev_inputs` and `PipelineGadgetState.inputs`: an instance remembers its inputs, which are wires, for as many cycles as its latency |
| `sig` | the values of the `matchi_active` nets and of the execution signal in this cycle |
| `pc`, `verdict` | where the main loop is; how it ended |

Actions: `StartCycle` (`SimuIter::next`, the first half of `Simulator::next`), one
action per kind of evaluator for `eval_wire` (`EvalTie`, `EvalPort`, `EvalUnary`,
`EvalBinary`, `EvalMux`, `EvalDff`, `EvalGadget`), `EvalFinish` (`eval_finish` of all
instances), `CheckCycle` (`SimuIter::check`). Assertions that the code may fail are
verdicts: `untracked` (`index_of`), `unset` and `uncovered` (`eval_output` of a gadget),
`unindexed` (`last_nonsensitive_exec` out of bounds).

Abstractions:

- The hierarchy of modules is flattened (see `EvalOrder`). The input of a
  submodule is a wire of kind `port`, which keeps the difference the code makes:
  such wires are not given to `check_wire`.
- The inside of a gadget is the set of wires `inner`: they are evaluated as any others,
  record no event and are not checked (`sim_state` is `None` there). A gadget output
  that names an inner wire takes its value, and the assertions that compare the
  state of that wire with the annotations are evaluated (`Covers`). A gadget without
  inner wires stands for any implementation that its annotations cover: the value
  of its outputs is a choice.
- `NspgiDep` is a function from all gadget instances; `VectorsImplementFunctions` is
  the theorem that the vectors of the code behave like it.
- `fresh_uses` and `leaks` of `RndStatus` are their lengths, and the events of a step (randoms
  leaked, used and stored by one wire, or by all instances that finish) are a set: they only
  count and set, so that their order makes no difference.
- Which failing check is reported first depends on the order of the wires, and is
  a choice; that an index out of bounds among the wires comes before the checks of trackers
  and outputs is kept. The random inputs of gadgets are checked with the module they are in, before
  or after the wires of other modules, so that with both errors either is the outcome.
- The trace is chosen cycle by cycle: any value of each input within the
  constants `ControlValues` and `DataValues`, any `matchi_active` signal.

### AuditedSim

The auditor's variables are updated in the same steps and never read by the
simulator. They follow gadget executions by the cycle they start in, where the code
uses the cycle shifted by the input latency; they record an observation of a random
when it happens, where the code records it when the execution is complete; and they
never forget. A gadget observes what enters it on any input, where the code only leaks what
enters a randomness port; a gate observes the operands it computes on, which is said without the code's
`leak` calls: not one that it passes on unchanged because the other is a known control
value. The properties compare the two accounts. A random that leaves the
circuit, through a port of the top module, is not an observation: the code does not follow it.

### TwinRun

Run `a` of the circuit has the inputs of the trace, run `b` differs in a chosen set
of shares, or in one random bit. `Driven` is what the cells compute. The two runs
differ in shares or in a random bit, not in both: the simulator's sensitivity says
nothing about differences between random bits that shares cause and conversely.

### ClkVcd

One action per vcd command, on id codes with their sizes. `log` is the file read so
far, and the reference (`ValueBefore`, `Rising`, `TimeOf`) is read off it. `z` is
`x`. The header (scopes, names) is not modelled.

### PortRoles and NetBuild

A Yosys module is its ports, cells, number of wires and attributes; a bit of a port is
the port and an offset. `SortModules`, `AddModule` and `SelectTop` are
`ModListBuilder::sort_modules`, one turn of the loop of `ModListBuilder::new` and the end
of `Netlist::new`. Every `bail!` is a value of `failure`, in the order in which they are
tested; the unwrap of a clock connected to an x is `panic_clock`. `built[m]` is
`Module`, `ModuleCombDeps` and `Option<PipelineGadget>` together.

`Hierarchy`, `PortNets`, `FlatEdges`, `FlatDeps` and `ClockNets` are the reference: the flat
circuit read off the Yosys netlist, with paths of cells for instances, and no summary. In it, the
stages of a gadget lead from an input to the outputs of the same latency; an output stands for the wire
it is on, so that two outputs on one wire have the stages of both (`StageDep`), as the code keeps the
stage edges by wire.

Abstractions: attributes are values, not text; bit ranges of nets start at 0; the number
of wires of a module is given and is that of its nets, as `count_wires` finds it; a
gate has ports of width 1.

### EvalOrder and FlatEval

`plan` is what `ModuleEvaluator::new` computes: for each query of an instance the wires to
evaluate before it, what is left for `eval_finish`, the order in which the outputs of each
instance will be queried, and the instance identifiers. `stack` is the call stack of the
recursion, one frame per `eval_output` or `eval_finish` in progress; an action is one turn of
a loop, a call or a return. `query_id` is `next_eval_query_id`, then `next_check_query_id`.
`place` holds the values of wires and of inputs of gates: setting an input reaches through
all modules that the wire enters at once. The five assertions and unwraps are `panic`.

The search that orders the wires is the loop of petgraph's `DfsPostOrder` on its stack
(`SearchStep`), run for as many steps as it can take (`Search`). The evaluators, which the code makes by
recursion over the hierarchy, are made level by level (`WithSubs`); their identifiers, which the
code counts along this recursion, are sums of what the instances before take (`Taken`, `Size`).

The model is one cycle: nothing of the order is kept from one cycle to the next. The value
of a wire is the term that its gates compute, a register being a constant of its own, so
that two wires have the same value only if the same gates over the same nets give it. The
state of a gadget's output is that of its implementation here.

### OutputVcd

`module2scope` gives id codes, `new_state` writes a cycle, and the main loop is three
actions. Once it is over, the commands are given to the actions of `ClkVcd`, clocked by
the clock of the trace, with every id code of interest. `OutputAssumption`: the cycle counter can
count the cycles (`CountBits` is 32 in the code), and nets have bits, as those of netlists do. Modules
are nested in each other less deep than there are modules, since no module instantiates itself.

## Runs

| run | properties besides types | what it shows |
|---|---|---|
| `rnd_tracker` | `HeldIsTracked`, `WindowFaithful`, `NoBadForgotten`, `FrontIsHeld`, `ImplementsLedger` | the tracker never panics, answers completely for every value that can be on a wire, forgets nothing that would have been rejected, is bounded, and implements the ledger |
| `simulator` | `RandomsTracked`, `FreshRandomness`, `BubbleSound`, `DepsExact` | in runs that pass, each sensitive execution had a random that no gate, no other randomness port and no checked control input observed, at any time before or after (inputs for shares are excepted: run `random_as_share`); dependent executions of a PINI gadget are separated by a bubble; wires name the last execution they depend on |
| | `ConsistentStates`, `GlitchConeExact`, `NoShareMixing` | glitch sensitivity is that of the combinational cone although gates are simplified by known values; no cone mixes shares in a cycle that passed |
| | `AnnotationsCover` | the assertions that compare a gadget's implementation with its annotations only fail for a gadget that keeps data longer than its latencies say |
| `twin_runs` | `ValueSound`, `DeterministicSound`, `SensitivitySound`, `RandomExact` | values, determinism, sensitivity and random sources of wires hold of the circuit, through every gate and its simplifications |
| `netlists` | `DepsAreReachability`, `LoopsExact`, `OneClock`, `SharingsComplete`, `RandomsNumbered` | the dependencies computed from summaries are those of the flat circuit; a loop is reported exactly when the flat circuit has one; one clock at any depth; shares and randoms are numbered without gap |
| | `NoOtherPanic`, `EverythingEvaluated`, `CheckedOnce`, `IdsNameInstances`, `ImplementsFlat`, `Completes` | evaluation implements that of the flat circuit, gives every wire its value, checks each wire once, and ends; it panics only on a gadget in a gadget and on an output of the first stage with inputs in later ones |
| `output_vcd` | `RoundTrip`, `Terminates` | what is read back from the output trace is what was computed, with the cycle numbers of the error messages; the main loop ends and the trace is complete |
| `clk_vcd` | `SampledBeforeEdge` | one state per rising edge, with the values before the time of the edge, vectors padded correctly |

Runs that are expected to fail, on one small netlist or file each, each against what a
message, an assertion, a comment or the README of the repository says:

| run | property | disagreement |
|---|---|---|
| `transition` | `TransitionChecked` | the transition check of gates reads the current inputs twice (`recsim.rs:513`) |
| `direct_input` | `AllInputsChecked` | gadget inputs driven by a port of their module are not checked (`recsim.rs:898`) |
| `late_input` | `InputsSetFirst` | assertion on inputs of later stages (`recsim.rs:740`) |
| `random_as_share` | `FreshForOneOnly` | a random that a sensitive execution uses as fresh is accepted on a share input of another gadget, which leaks nothing (`recsim.rs:641`, against `pipeline.rs:18`, "If any input is sensitive, the randoms must be fresh", and what fresh means at `src/README.md:134`) |
| `no_bubble` | `BubbleReported` | index out of bounds instead of the transition failure (`recsim.rs:691`) |
| `aliased_net` | `EveryNetHasItsValue` | of two names of interest with one id code only the last gets values |

Smaller disagreements have no run:

- Execution cycles in wire states are those of the last input of the execution, as
  `simulation.rs:28` says and `DepsExact` checks; the comment at `top_sim.rs:21` says those
  of the first.
- `random` in the output trace can be 1 for a net that does not have the value of a
  random bit (`src/README.md:92`): `mux(r, not r, r)` keeps the random source `r` and is
  constant. `RandomExact` states why that does no harm: the mux has leaked `r` twice by then,
  so a gadget that uses it as fresh is rejected all the same.
- `deterministic` in the output trace is x, not 0, for a net that is not
  (`src/README.md:91`, `vcd_writer.rs:210`).
- A share input of a gadget that is glitch-sensitive for one other share alone is accepted: the condition at
  `recsim.rs:648` repeats that of line 642, which is about the stable sensitivity, and its branch,
  whose message is about glitches, is never taken. `UnsafeRole` has the checks that are made.
- The value of an inactive random or share port is a control value (`top_sim.rs:240`),
  although nothing is assumed of it (`src/README.md:135`). In `twin_runs` ports are always active, but for one netlist
  (`SelfSelect`), where no gate is simplified by such a value.

### Bounds

- `rnd_tracker`: 4 cycles, one fresh use and two leaks per value. Two leaks and a
  use are what the check distinguishes; four cycles let a value be stored three
  times, and the window be emptied and start again. The proofs are for all bounds.
- `simulator`: 4 cycles, two ports, nine netlists: a gadget whose random comes before
  its last input and is also kept in two registers (`LateRandom`), a gadget implemented
  by registers and fed back to itself (`Feedback`), two gadgets in a loop through a
  register with a control input in the second stage (`Chain`), two gadgets that may get
  the same random, stored, through a mux (`SharedRandom`), a gadget of three stages with
  its implementation (`Staged`), one that may hold its data (`Holding`), and two netlists of
  gates, registers, selections of shares, a submodule port and relative latencies (`Gates`,
  `SelectShare`), and a random that is also wired to share and control inputs of other gadgets
  (`RandomAsShare`). The largest latency of these gadgets is 2
  cycles, so executions overlap, complete and come back within the trace. Shares and
  randoms have value `x`: only values of deterministic wires select
  anything in the simulator, and those take both values. All its properties are proved for all
  netlists and lengths.
- `twin_runs`: 2 cycles (one register deep) on three netlists that put shares,
  randoms and controls, known and unknown, through every gate. Registers start from
  the same value in both runs. The proofs are for all netlists without gadgets and all
  lengths.
- `netlists`: three levels of modules; every wiring of a leaf with two inputs and two
  outputs and a gate, for leaves that cross their inputs, register them, pass them through or
  are gadgets of one or two stages, one with two outputs on one wire; clocks that differ at three depths; each malformed
  netlist and each wrong annotation alone. Two instances of each module are enough for
  dependencies that cross, for queries that come in different orders, and for identifiers.
- `output_vcd`: 3 cycles, four module states with every combination of flags, two instances
  of a submodule, nets of one and two bits that share wires, a counter of 3 bits.
- `clk_vcd`: files of 6 commands over a scalar clock and a vector of two bits.

`CHECK_DEADLOCK FALSE` in every configuration: the program stops once it has a
verdict, or at the end of the file.

### Fairness

The program is one thread in loops without waiting, so it always takes its next step:
`EvalSpec` has `WF(Evaluate)`, for `Completes`, and `OutputVcd` has `WF(Next)`, for `Terminates`,
which is about the main loop, whose only bound is the length of the trace. `Spec` of
`RecSim` has `WF(Next)` too; the `simulator` run has no liveness property, evaluating
`ENABLED` of the sets of events being slow in TLC.

## Proofs

`RndTrackerProofs` proves, for every trace length and every bound on uses and leaks
(`TrackerAssumption`: they are natural numbers and the trace is not empty):

| theorem | statement |
|---|---|
| `TypeCorrect` | `TypeOK` always |
| `NeverPanics` | `HeldIsTracked` always: `index_of` never fails its assertion |
| `ReportsAreComplete` | `WindowFaithful` always |
| `ForgettingIsSound` | `NoBadForgotten` always |
| `WindowIsBounded` | `FrontIsHeld`, an action property |
| `Refinement` | `RndTracker` implements `FreshnessLedger` |

None of the safety properties is inductive. `WindowFaithful` speaks only of values
on a wire, and the value a register stores in this cycle is on a wire in the next
one, after a prune. The inductive invariant `IndInv` says of every cycle's value
that it is `Accounted`: either the window has its exact status, or it is `Gone` (no
register holds it, it was checked, and it was not bad) and the window, if it reaches
back to it at all, says the default status. The second case is what `prune` makes of
the cycle that just ended when it empties the window, since it then sets the offset
to that cycle. The window never reaches beyond the current cycle, which bounds what
`prune` can drop.

`SetStatusEffect` and `PruneEffect` are lemmas about the data type: what a write and
a prune leave of every other status. `LeastIndex` gives the place where `prune` stops. The last
two are in `SharedLemmas`, for the windows of `RecSim` as well. `BadInWindow` says that the check over the window and the check over the
whole history agree, which is the core of the refinement: a step of `CheckRandomUses`
is `CheckAll` of the ledger.

Assumed of the circuit in `RndTracker`: it touches the value of a cycle only when
that value is arriving or was stored in the last cycle or in this one (`OnAWire`).
That the simulator keeps to this is `RandomsAlwaysTracked`, below.

`SimulatorProofs` proves, for vectors of any lengths and any number of gadgets:

| theorem | statement |
|---|---|
| `MaxIsPointwise` | `max` of two vectors without trailing `None` is one, and its entries are the maxima of theirs, missing entries being `None`; the shortcuts for empty and equal vectors included |
| `LargerIsPointwise` | `is_larger_than`, which compares vectors for equality, is the pointwise order |
| `VectorsImplementFunctions` | `empty`, `single` and `max` on vectors are `NoDep`, `DepSingle` and `DepMax` on functions |

The invariant of the representation (`Vectors`: no trailing `None`) is what makes equality of
vectors the same as equality of functions; without it `is_larger_than` could refuse.

It also proves, for all wire states and all values of the operands in two executions:

| theorem | statement |
|---|---|
| `BinarySound` | if the states of two operands agree with their values (known value, determinism, sensitivity to shares), that of any binary gate agrees with its output |
| `MuxSound` | the same for a mux |
| `BinaryCarries`, `MuxCarries` | if the operands carry a random bit as their states say, so does the output, given the leaks that the gate records |

The gates are where the simulator simplifies: a neutral operand passes the other one through, an
absorbing one hides it, a mux whose select is known follows one side. `BinaryCases` lists what
`CombBinary::sim` may do, each case is proved by itself. They rest on `WellFormed` of the
operands (`ControlValue`: a known value means a deterministic wire without sensitivity), which
`BinaryWellFormed` and `MuxWellFormed` preserve; without it the simplifications are wrong.
`BinaryCarries` and `MuxCarries` say of a random that no gate leaked that it acts on the output
exactly if the state of the output names it, and of one leaked at most once that it acts on an
output that names it: a use of a random that was leaked twice must be refused.

`SimulatorProofs` proves of `TwinRun`, for every netlist of gates, registers, constants and inputs, every trace
and every pair of executions that `TwinRun` allows (`TwinAssumption`: there is no gadget;
`NetlistsAssumption`: wires are in an order of evaluation and cells have the inputs of their
kind; `ValuesAssumption`: values are bits or `x`):

| theorem | statement |
|---|---|
| `ValuesAreSound` | `ValueSound` always: a known value is that of the wire |
| `DeterminismIsSound` | `DeterministicSound` always: a deterministic wire does not depend on shares or randoms |
| `SensitivityIsSound` | `SensitivitySound` always: a wire that differs between the executions is sensitive to a share they differ in |
| `RandomsAreExact` | `RandomExact` always: a random bit that no gate leaked acts on no wire but those that carry it, and one leaked at most once acts on all of these |
| `TwinTypes` | `TwinTypeOK` always: every wire that has a state has a value, a bit, in both executions |

None is inductive: a register takes over the state and the value of a wire from the last
cycle, and the leaks of a random are those of all gates so far. `IndInv` says that the states of
this cycle and of the last one agree with both executions (`Agrees`), for the leaks counted so
far; `MoreLeaks` says that more leaks never make it false. `EvalAgrees` is the step of one
wire, from the theorems on gates. `TwinTypes` needs more: that a wire gets a state whenever it
gets a value, so that no random is untracked, which is `TrackInv` below.

`SimulatorProofs` proves of `AuditedSim`, for every netlist, with any number of gadgets, latencies and
implementations, every trace and every length (`NetlistsAssumption`, `ValuesAssumption`,
`GadgetsAssumption`):

| theorem | statement |
|---|---|
| `StatesAreConsistent` | `ConsistentStates` always: `consistency_check` never fails |
| `DependenciesAreExact` | `DepsExact` always: a wire names the last execution of each gadget that it depends on |
| `BubblesAreSound` | `BubbleSound` always: the data of an execution only comes back behind a bubble |
| `GlitchesAreThoseOfCones` | `GlitchConeExact` always: the glitch sensitivity of a wire is that of its combinational cone |
| `CheckedCyclesMixNoShares` | `NoShareMixing` always: in a run that passes, no cone of a checked wire mixes shares |
| `AnnotationsCoverPipelines` | `AnnotationsCover` always: the assertions on the implementation of a gadget fail only if it is not a pipeline with the latencies annotated |

The first two follow from one inductive invariant, `DepInv`: what the simulator and the auditor
hold of this cycle and of all that instances remember agree (`Audited`: the state is well formed
and `nspgi_dep` is the last of the executions the auditor names, `NamesLast`). It must reach back as
far as the largest latency (`DepthIs`), since a gadget combines inputs of several cycles, and it
says that the auditor names no execution whose last input arrives before cycle 0 (`ExecsOf`): for
those the simulator says `None`, and `DependsOnItself` would not see them.
`EvalAudited` is the evaluation of one wire; `MaxNamesLast`, `BinaryAudited`, `MuxAudited` and
`StageAudited` (`compute_output_state`) are what each cell does to the executions.

The third one needs a second invariant, `BubbleInv`, because the simulator learns that an
execution is not sensitive when its last input arrives, up to `max_input_latency` cycles after
the auditor knew that it is: as long as an execution in `busy` is not complete, a sensitive input
of it is among what the gadget remembers (`Remembered`), so the stage status of its last cycle
sees it; hence `last_nonsensitive_exec` never names an execution in `busy` (`LastNonsensitive`).
While a cycle is evaluated the input is in an earlier cycle, and `last_nonsensitive_exec` too:
these two clauses (`InCycle`) are what makes it inductive. `BubbleCheck` then joins both: a check
that passes compares the last execution that a wire really depends on with one that is really
without sensitive input.

`Cone`, the reference for glitches, is a recursive function over the numbering of wires; `ConeIs` is
its equation for every wire, from a least counterexample (`ConesExist`), and `ConeInv` then
says of each wire that its state has the glitches of its fanin (`LocalGlitches`), of the inputs of
cones that their glitches are their own (`InputGlitches`), and of a run that passed that the wires
checked were secure. `EvalResult` lists what a wire evaluated may be: of a binary gate or a mux it is a
simplification by a known value or it unites its operands.

A gadget is `Pipelined` if its wires can be given stages such that a gate reads wires of its own
stage, a register those of the stage before, and an output those of its latency. `CoverInv` says
that a wire inside is then covered by what its stage remembers of the inputs of the gadget, of
this cycle (`Entered` and `Entering`) and, through registers, of the last one; wires that no input
reaches have no sensitivity at all. The labelling also follows feedback loops of any length, which a
definition by paths of bounded length did not: with that one the property was false for a loop of
registers longer than the bound.

It also proves, under the same assumptions:

| theorem | statement |
|---|---|
| `RandomsAlwaysTracked` | `RandomsTracked` always: no event is on a random that the window of its tracker forgot |
| `SensitiveExecutionsGetFreshRandoms` | `FreshRandomness` always: in a run that passes, a sensitive execution had on each random input one random bit that no gate, no other randomness port and no checked control input observed, before or after |
| `SimulatorTypes` | `TypeOK` of `AuditedSim` always |

For the first, `TrackInv` (it is about `RecSim` with any auditor, given that the
states are wire states, `SimInv`) says that the random named by any state that is read again is `Alive`: it was
received in this cycle or its status says that it was stored in the last one. What is read again
depends on where in the cycle the run is (`AllAlive`, `AllStored`): registers and gadgets store their
inputs when they finish, for as many cycles as the largest latency (`ReadAgain`), and it takes the
windows of all cycles since (`Windows`) that a status alive is not pruned (`StatusesKept`).

The second joins it to `BubbleInv`, which says when the simulator knows that an execution is
sensitive. `FreshInv` says: an observation, by a gate or on any input of a gadget, is of a random on a wire at
the time (`IsObservation`); what is remembered of random inputs has been observed (`AllObserved`); the
tracker of a random alive counts its observations on record, which are those of gates and, once the
execution is complete, of randomness ports (`OnRecord`), one fresh use for the one of a sensitive
execution and a leak for every other (`Counted`); an observation by a checked control input, which no
tracker counts, is of the cycle whose check is still to come (`Refused`, `Pending`), and that check
refuses it, for a consistent deterministic state has no random; one that is not alive any more, or was checked, is alone if it is a
fresh use (`Sole`); and each sensitive execution whose randoms were checked had them (`Supplied`).
`ObservedLeaks` joins the auditor's view of a gate to the code's: one that computes on its operands
leaks each of their randoms. The delay matters in both directions: a leak of an execution that is not complete is not on
record, and the random is still alive by then, because it is remembered.

`NetBuildProofs` proves, for every design:

| theorem | statement |
|---|---|
| `SharesOneToOne` | in both layouts, each sharing of a port has one bit of each share, for every width that is a multiple of the number of shares |
| `SharingsAreComplete` | `SharingsComplete` always: the construction lets no other gadget through |
| `RandomsAreNumbered` | `RandomsNumbered` always: entry k of `rnd_ports` is the input whose role is random k, and no other input is a random, in both representations of a gadget |
| `NetlistTypes` | `TypeOK` of `NetBuild` always: connections are wires, sources are instances, sinks are inputs of instances, dependencies are inputs |

`DesignsAssumption` says what the designs are: finitely many modules, whose wires are numbered from
0 to n - 1, the two constants included (`count_wires` asserts it); cells that connect all ports of
their type (Yosys writes no other, and the code indexes the connections); and a number of shares
that is not 0 (the code divides by it without a test).

The inductive invariant is `Exact`: every module is what `BuildModule` makes of it from what is built
*now*, and its submodules are built. It holds because `BuildModule` looks at nothing but the interfaces
of the modules that are instantiated (`BuildIsLocal`), so that one more module changes nothing.
A module that is built passed all tests (`NoFirstError`, `BuiltChecks`), from which `AcceptedGadget`
and `AcceptedShares` give the first two theorems, and `RandomsInOrder` and `ListedAreNumbered` the
third: `rnd_ports` comes from sorting the inputs by their number, and that they are the numbers
0 to n - 1 is the last test of `PipelineGadget::new`.

For the types, `Typed` says of the modules built that their interfaces are in range. That the
wires of a module have an order of evaluation is a fact about graphs: if peeling a graph leaves nothing
(`~HasLoop`), its nodes have ranks that grow along edges (`LoopFreeRanks`); `DepsetsAre` then gives
the equation of the recursive function `comb_depsets`, and a least counterexample along the ranks
shows that its values are inputs (`DepsetsTyped`).

`NetBuildProofs` also proves, for every design, with any number of modules, levels and instances:

| theorem | statement |
|---|---|
| `RegistersHaveOneClock` | `OneClock` always: registers at every depth are clocked by one net |
| `DepsAreExact` | `DepsAreReachability` always: what `comb_input_deps` says of a wire is what the wire is reached from in the flat circuit |
| `LoopsAreExact` | `LoopsExact` always: a module is refused for a loop exactly if its flat circuit has one |

They have a hypothesis about clocks. `OneClockBit` says that the clock of a module comes in through one
bit of its ports, or that no port carries it: of a clock that several port bits carry, `Module.clock`
keeps the last one in the order of names, and the other bits, which are left out of the ports of
the module, are connected to nothing; if an output is among them, what is behind it is lost to
dependencies and clocks. `OneClock` also needs that a clock does come in through a port
(`ClocksArePorts`): a clock that no port brings in is accepted, because the instance that
`module_clock_wire` makes for it drives the wire (`builder.rs:216`). Neither is what
`src/README.md:61` asks for (a single clock), and the code tests neither. Designs of `netlists` have a
clock without port; none has one on two port bits.

The argument goes from the hierarchy to summaries:

- *Hierarchy and clock.* `HierarchyIs` gives the instances below a module by induction over the depth: a
  finite tree (`TreeOf`), which is the module and the trees of its cells' modules (`HierarchyBelow`).
  `ClockedAbove` says that every net above a clock pin is the clock wire of its module; a module has at
  most one (`OneClockWire`), which is that of all its instances.
- *Flat circuit.* `AllEdgesBelow`: the edges of a module's flat circuit are its own (gates, ports of
  cells, stages of cells) and those of its cells, moved under the cell (`Under`). By `ClockBelow` this
  is true without the edges into the clock too, which are those that `FlatEdges` leaves out.
- *One module.* `DagAre`: an edge of the graph that `comb_wire_dag` makes is a path through a gate or
  through a cell, from an input to an output that depends on it by the summary of the cell's module.
  If these summaries are exact, a path of this graph is one of the flat circuit (`DagConeIsFlat`: go
  down into the cell and come out). Conversely (`FlatConeIsDag`) `Leads` is a set of nets that is
  closed under going backwards in the flat circuit: a net inside of a cell leads when the
  wires on all the inputs it depends on do, which makes the induction one about the cell's own flat
  circuit, and no path has to be cut into pieces.
- *Summaries.* `comb_depsets` takes the wires in an order of the loop-free graph, so that it gives the inputs
  in the cone of a wire (`DepsetIs`, on the equations of `DepsetStep`); the stages of a pipeline gadget are added to
  it, and they are those of the flat circuit (`StagePairsAre`). Hence `SummaryExact`: a module whose
  cells have exact summaries has one. By the order of modules, all have (`AllSummarised`).
- *Loops.* A loop in the graph of a module is one of its flat circuit (`DagLoopIsFlat`). A loop of the flat circuit is
  inside of one cell, or meets a wire of the module, and then gives a loop of the graph
  (`FlatLoopIsDag`). `LoopIsLast` says that the test for loops is the only one left
  when it fails, so that the module refused is otherwise fit for this argument.

The inductive invariant is `Sorted` with `Exact` and `Typed`: the instantiations have no loop once
`SortModules` succeeded, and a module refused for a loop is one whose submodules are built, and
`BuildModule` of it is that error *now*. Cones and loops of finite graphs are computed by recursive
functions of a bounded number of steps; `UpstreamClosed`, `UpstreamIn` and `LoopIs` replace them by what
they mean (the least closed set; a set of nodes each of which comes after one of them), because
sets that only grow or shrink settle within that number (`SetsSettle`).

Two properties had to be corrected to be proved, on designs that the run did not have, where TLC then
confirmed that they were false: `DepsAreReachability` did not see that a gadget with two outputs of
different latencies on one wire has the stages of both (`SameWire` is now among the leaves of `netlists`),
and both properties ignored what a clock on two port bits loses (`OneClockBit`).

`ClkVcdProofs` proves, for every file, every set of variables of interest and every width:

| theorem | statement |
|---|---|
| `TypeCorrect` | `TypeOK` always: what is kept of a variable has its width |
| `SamplesBeforeEdges` | `SampledBeforeEdge` always: the n-th state has the values from before the time of the n-th rising edge |
| `EveryNetSampled` | `EveryNetHasItsValue` always |

The last two assume `OneNamePerNet`: without it they do not hold, as `aliased_net` shows. All rest
on `VcdAssumption` (the clock has one bit, sizes are positive, the file writes vectors that are
not empty). `SampledBeforeEdge` is not inductive: the edge to come will record `previous_state`, so
`IndInv` also says of which commands `current_state`, `previous_state` and `clk_state` are
the outcome (`CurrentInv`), and numbers the edges read so far by their rank in file order
(`Numbered`). `EarlierValues`, `LatestValue`, `EarlierTimes`, `LatestTime`, `LatestEdge` and
`LatestRank` say what one more command changes of what a file says, and `StoredShows` what
storing a value changes of a state. `PaddedBits` is the correctness of
`pad_vec_and_reverse`.

`OutputVcdProofs` proves, for every hierarchy of modules, any number of shares, all states and every
number of cycles (`OutputAssumption`):

| theorem | statement |
|---|---|
| `OutputTypes` | `TypeOK` of `OutputVcd` always: no two variables have one id code, timestamps grow |
| `WhatIsReadWasComputed` | `RoundTrip` always: what is read back is what was computed, with the numbers of the cycles |

The header first: `NetsAre` gives the nets below a module as sequences, `HeaderIs` that each
representation takes the codes after those of the ones before it, so that code k - 1 is that of the k-th
variable (`CodesAre`), and those of the clock and of the counter are the next two. `CountBack` says that
the bits of the counter are the number of the cycle, which `shifted` and `Number` relate by powers of
two, and `BitsAre` that a vector is read in the order of the wires of the net.

The file is the first timestamp and one block of commands per cycle, of the same length for every
cycle (`BlocksOK`), whose times are those of the cycle (`TimesOK`). The inductive invariant `OutputInv`
places the reader in it: after `Len(log)` commands it is in block b after k commands of it
(`ReadingOf`), and then `StatesOK` and `ReaderOK` say what is in its three states: the current one has the values of cycle
b in the variables already read and those of the cycle before in the others, the previous one is that
of the last timestamp, which is the one before the clock edge when the edge is read, and the states
recorded are those of the cycles before. The proof of `Read` follows the five kinds of commands of a block
(`VectorStep`, `EdgeStep`, `MiddleStep`, `EndStep`).

`EvalOrderProofs`, with `EvalPlanProofs`, proves for every design of `DesignsAssumption`, accepted or
not, however deep, and with no hypothesis about its clocks:

| theorem | statement |
|---|---|
| `EvaluatorTypes` | `EvalTypeOK` always |
| `EvaluationIsOrdered` | `NoOtherPanic` always: the assertions on the order of queries, the unwraps of values and the test for a value that is set twice never fail; a gadget reads inputs that have a value but for a late input |
| `AllWiresEvaluated` | `EverythingEvaluated` always: a cycle that was evaluated has a value for every wire at every depth |
| `WiresCheckedOnce` | `CheckedOnce` always: each wire outside of gadgets, and each input of a gadget, is checked exactly once |
| `IdentifiersNameInstances` | `IdsNameInstances` always: `glob_inst2path` finds the instance that has the identifier |

What makes the evaluation right is decided when evaluators are made, module by module, and only
asserted later. The argument follows this:

- *The search.* `SearchInv` is the invariant of a depth-first search with an explicit stack: above a
  wire that was visited and not found yet are wires that come before it, so that it is
  found after them. It needs that the graph has no loop but through inputs: the edges
  among the others grow along ranks (`SearchGraph`), which a module that was built has
  (`~HasLoop`, `LoopFreeRanks` of `NetBuildProofs`).
- *The orders.* From it, `OrdersAre` gives what the order of a module is (`SearchOf`, `IsTodo`): the wires found,
  each once, cut at the end of each query, and what an instance is asked for is the outputs
  of it in the order in which they are found, so each of them once. The wires that an output needs
  depend on no input that the output does not depend on by `comb_input_deps` (`NeedsAre`). This is
  where stage edges matter: without them an output would be asked of a gadget too early.
- *The plan.* `Planned`: the paths are a tree, each below another of a module that instantiates it, no deeper than there are
  modules (`Acyclic`, from the order of construction), and the identifiers of an instance are a range
  within that of its module, apart from those of its siblings (`IdsNest`). Following an identifier from the
  top therefore never leaves the path that holds it (`SearchReaches`, `SearchStays`).
- *The fan-out.* `Sunk`, `SpreadOver`: each input of a module and of a gate has one wire that it gets its value from, so
  that a value set from a wire reaches places that had none, at any depth.

The inductive invariant `EvalInv` says of each module how many of the wires found were dealt
with, `pos`, a number that the program does not keep. `Traversed` says that the queries answered by an instance are the
outputs of it among these (`Counted`), that a module without call is between two of its queries (`IdleFits`),
and that each call in progress is in the middle of the output that the call below it is waiting for
(`StackFits`). During the evaluation `Valued` says that the wires that have a value are exactly
those dealt with, and that the call of an output has the inputs that this output depends on; hence the next wire
has no value yet and what it is computed from has one. After it, `AllValued` and `ChecksFit` say the same of the
checks, which follow the same orders but stop at gadgets (`EntersAt`). `Traversed` is not about values and serves
for both. Once the evaluation begins nothing changes the netlist or the evaluators (`Frozen`), before
it the invariants of `NetBuildProofs` hold (`Inv`).

`NestedGadget` and `LateInput` are the two exceptions of `NoOtherPanic` (the run `late_input` reaches the
second); in all other designs evaluation cannot panic.

Every safety property of the runs that pass is proved. Only model-checked are the
liveness properties (`Completes` and `Terminates`), as liveness and `ENABLED` are out of the prover's
reach, and that `EvalOrder` implements `FlatEval` (`ImplementsFlat`): that the term that a wire gets is
the one that the flat circuit gives it is an induction over terms, hence over data.

## Not modelled

- Names: of nets in the JSON netlist (bit ranges, escaping), of variables in the vcd
  headers, in messages. Configuration and command line: text processing.
- The width of share sets (64) and of cycle numbers (32 bits): a program with more
  shares stops on an assertion, and no trace has that many cycles.
- `matchi_share` is not compared with the number of shares, and a number of shares of 0
  divides by zero when a sharing is declared: the code tests neither, and the netlists
  of `netlists` give neither.
- What is behind an output port through which a module passes its clock on: the port is left out of
  those of the module. The properties exclude it (`OneClockBit`).
- In the input trace, a change of the clock written as a vector command is not seen as an
  edge: `clk_vcd` gives the clock scalar commands only, as simulators do.
- In `EvalOrder`, more than one cycle, and states: see above. In `RecSim`, hierarchy.

## Plan

Done: the core (randomness, simulator, states, sampling), construction and evaluation of
netlists, annotations, inside of gadgets, the output trace. Left:

1. One pipeline gadget on its own with an abstract specification per execution (an
   execution has its inputs, is sensitive or not, uses its randoms once), the code's memory
   per cycle shown to implement it, for latencies larger than those of `simulator`.
2. Several cycles of `EvalOrder` with the states of `RecSim` in the place of terms.
