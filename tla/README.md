# OS-MAGI-80 in TLA+

OS-MAGI-80 is the beginning of a fantasy computer for the Amiga 1200: a
compiler for a small Lua dialect that produces 68020 assembly, an instruction
level test runner for that assembly, graphics routines for the AGA chipset, and
benchmarks that take the machine over to measure them.  These modules model the
parts whose correctness depends on order, sharing and resource limits, check
them with TLC on small instances and prove with TLAPS, for every value of the
constants, the invariants of the parts that can be proved about.

Paths below are relative to `src/`.

## 1. The system

### Components

| component | state it keeps | operations | how it meets the others |
|---|---|---|---|
| front end (`compiler/frontend`) | token position; fixed tables of AST nodes, statements, locals and pool entries; loop depth | lex, parse by recursive descent, type, convert constants, refuse a constant divisor of 0; one diagnostic | produces the statement lists that the IR lowering walks |
| IR lowering (`compiler/ir/ir.c`) | table of at most 32 blocks, instruction array, current block, active loops, pending break and continue edges | one recursive walk: if, while, break, continue, assignment, return; edge patching; validation | its output is read by the evaluator, the -O0 renderer and the value IR |
| evaluator (`miga80_evaluate_ir`) | locals, operand stack, current block, budget of blocks | run one function on given arguments | the reference the tests compare compiled code with |
| value IR (`compiler/value_ir`) | value table, block ranges, entry and exit values of locals, loop phis, liveness | dominators, loops, work list, phi insertion, numbering and folding, removal of trivial phis, liveness, layout order | read by the -O1 backend; no side effects but its own table |
| -O1 backend (`backend_m68k/optimized.c`) | location of each value (register, frame, phi slot), frame size, pending copies of an edge | allocate phi slots, reserve a temporary, allocate locations, emit blocks, emit the copies of an edge | final text of a function |
| -O0 backend (`backend_m68k/backend.c`) | depth of the operand stack | render the IR one instruction at a time | as above |
| test runner (`tools/miga68k-test`) | guarded memory areas, first fault, instruction budget | load, run to a sentinel, judge registers and memory | runs the output of either backend |
| graphics (`src/graphics`) | none beyond its arguments | chunky-to-planar conversion in several forms, compositor, reference decoder | called by tests and benchmarks |
| exclusive benchmark (`tests/benchmark/exclusive-graphics`) | every resource of the session; saved interrupt and DMA masks; the timer pair | acquire, batches of timed kernels, restore, release in reverse order | shares custom chips with audio, sprites, blitter and the operating system |
| other benchmarks and tests, scripts, documents | | | not part of the running system |

The compiler is sequential: its hard behaviours are long sequences of legal
steps (nested loops with breaks at every place), shared fixed-size tables,
decisions made in one pass and used in another, and iteration to a fixed point
while the data changes in place.  The benchmark is concurrent with the
hardware: counters change between two reads, the blitter runs on after a
timeout, and each step of a takeover may fail.

### What makes each part correct

* Front end: operators bind as the language says; a constant that is known
  early is the number the program would compute; only a constant that fits a
  type is converted to it.
* Words: each operation is brought back to its type, with its sign, wherever it
  is computed: parser, evaluator, folding, -O0 code, -O1 code in short forms.
* IR lowering: the blocks do what the statements say; no block has more than
  two predecessors; every edge is patched exactly once; break and continue go
  to the innermost loop; the block table is never exceeded; what lowering
  builds, validation and loop analysis accept.
* Value IR: a value is defined before each use on every path; on every path a
  local's value holds what the evaluator has stored in the local; the removal of
  trivial phis ends; the compiled function returns what the evaluator returns and
  faults where it faults.
* -O1 backend: the moves on an edge amount to a simultaneous assignment; the
  decision to reserve a temporary agrees with the need for one; each value is
  where its reader looks for it.
* Evaluator and runner: a fault is reported once and as the first one.
* Graphics: each bit of each pixel goes to its plane, byte and bit, and nothing
  else is written; the topmost object is seen; what the decoder reads from the
  planes is what the compositor draws.
* Exclusive benchmark: a timer or beam value is one the hardware had during the
  read; each way out of a batch restores interrupts and DMA; a resource is
  released exactly if it was acquired, and never while hardware uses it.

## 2. Modules

Five families, described below in the order of the compiler, then the test
runner, the graphics and the benchmark.

### Expressions and words

`TypedWords` holds the words of the types (`i32`, `i16`, `i8`, `u16`, `u8`,
`bool`, `string`, `symbol`) and the arithmetic of the parser and the evaluator on them:
`Normalize` is `miga80_normalize_integer`, `Divide` is `miga80_divide_i32`,
`Apply` the binary operations.  The widths are constants.

`FrontEnd` is the parser of expressions and of the statements that are no
control flow.  The author writes one token after another.  The recursive descent
is a sequence `frames` of the calls that hold an operation and wait for its right
operand; a call that only passes its operand on leaves no trace in it.

| action | code |
|---|---|
| `BeginLocal`, `BeginAssign`, `BeginReturn` | `parse_local_declaration`, `parse_assignment`, the end of `miga80_parse_function`, up to the expression |
| `Primary`, `PoolLiteral`, `Prefix`, `NoOperand` | `parse_primary`, `parse_unary` |
| `Operator`, `Combine` | the loops of `parse_multiply`, `parse_add` and `parse_expression`: before and after the right operand |
| `CloseParenthesis` | the end of a parenthesis in `parse_primary` |
| `EndLocal`, `EndAssign`, `EndDivideAssign`, `EndReturn` | what follows the expression: `require_type`, the read of the target of `/=`, the statement |

`Constants` is `constant_i32`, `Coerced` is `coerce_constant`, `Matched` is
`require_matching_integers`.  `Intern` is `intern_pool_literal`: the pool holds
each text once for each of the types string and symbol, so that equality of texts
is equality of numbers.  Which text a literal spells, escapes included, belongs to
the author's choice.  `Passable` is the limit of the argument registers of each
class (`parse_parameter`).

`StackCode` lowers what was parsed (`Lower`: `lower_node`, the statements, the
typed stack of `validate_block_stack`), takes a call (`Call`: the check of the
arguments, and the prologue of the -O0 code) and runs one instruction at a time
(`Step`) twice: as `miga80_evaluate_ir` and as the machine code that
`backend.c` writes for it, on registers and a stack in memory.  A string is the
number of its pool entry to the evaluator and an address to the processor
(`Native`); the caller puts arguments into D0.. and A0.. by class (`Passed`) and the
prologue reads them from there (`Arriving`).  The processor is
external: the few instructions that are used, with the flags of `cmp.l`, the byte
that `Scc` writes and the overflow of `divs.l`.

`TypedValues` builds the values of the same code (`Compile`) with the foldings
of `make_binary`, `make_neg` and `make_normalize_integer` and the liveness of
`mark_live_values`, and computes them with the instructions that `emit_value`
chooses: immediates, `addq.l` and `subq.l`, shifts, sums for 2 and 3.  `Homes` and
`DataAtEntry` are the places of parameters: scalars stay, addresses are copied to
data registers that are free (`build_allocation_plan`,
`emit_address_parameter_copies`).
`MCTypedCode` chooses the functions.  `StackCode_proof` holds the theorems about
the parser, the evaluator and the -O0 code.

### Phi copies on an edge

`ParallelCopy` is the abstract specification: on an edge, all phi slots of the
target block receive their sources in one step (`TakeEdge`).

`PhiEdgeCopy` is `optimized.c` at work on one edge.  `copies` is the array that
`emit_phi_edge` fills from the phis of the target, in the order of their
values; `place` is the frame contents at run time, so that the emitted moves
are executed as they are emitted; `pending` is the array of copies not yet
emitted.

| action | code |
|---|---|
| `Init` | the mapping of destinations to sources in `reserve_phi_temporary_if_needed` |
| `Walk`, `WalkEnds` | its search for a cycle, from each slot in turn |
| `ReserveTemporary`, `NoTemporaryNeeded` | its outcome |
| `EmitSafeCopy` | one round of `emit_phi_edge`: the first copy whose destination no other pending copy reads |
| `BreakCycle` | no such copy: save a destination in the temporary and redirect its readers |
| `Finish` | all copies emitted |

`PhiEdgeCopy` implements `ParallelCopy`: the emission is a stutter until
`Finish`, which is `TakeEdge`.  The temporary is not part of the abstract state.
`MCPhiEdgeCopy` instantiates it; `PhiEdgeCopy_proof` holds the theorems.

### Structured control flow

`ControlLowering` is `lower_statement_list` with its helpers.  Statements
arrive one token at a time (`if`, `else`, `end`, `while`, ...): the author's
choice is the nondeterminism, and every program within the bounds is reached.
The recursion of the C function is the sequence `frames`; a token runs the code
that the function runs at that point.  Merging the pending edges of a loop
(`build_control_funnel`, `add_funnel_edge`) is a state machine of its own
(`FunnelEdge`, `CloseContinueFunnel`, `CloseBreakFunnel`), because it creates
blocks, and may run out of them, edge by edge.  Its position is an index over
the edges it is offered (`Offered`): the pending ones in their order, then the
edge at which the body of the loop, or its condition, falls through.
`ControlLowering_proof` holds the theorems.

`LoweredFlow` adds what the blocks mean (`FlowMatchesSource` compares each
block with the rules of the language, stated on the token sequence) and the
passes that read them: `miga80_validate_ir`, `analyze_loops`, the work list and
the layout order of the value IR.  `MCLoweredFlow` instantiates it.

### From statements to running code

`ValueIR` extends the lowering with `miga80_build_value_ir`.  Its actions start
when the lowering is done: `AnalyzeLoops`, `LowerBlock` (one ready block of the
work list: merge the locals of its predecessors, make loop phis at a header,
lower its statements with folding and value numbering, complete the loop phis at
a latch), `LoweringDone`, `RemoveTrivialPhi` (one replacement of the scan),
`MarkLive`.

`CompiledRun` then runs both forms: `StepSource` is one block of the evaluator,
`StepCompiled` one block of the -O1 code (phis of the edge, live values in
order, zero tests of divisors that are not constants, the branch).  Both start
from the same arguments.  `MCCompiledRun` chooses the expressions, conditions
and arguments.  Besides path, result and fault (`AgreesWithEvaluator`) the two are
compared in between: the values that the locals had at the end of a block, as far
as they are still used, hold the words of the evaluator's locals
(`LocalsFollowed`).

### Registers and frame

`ValueLocations` gives the values of `ValueIR` their places, as
`optimized.c` does, and then runs the emitted code to see whether they are there.
A place is a data register or a frame slot.

| action | code |
|---|---|
| `Liveness` | `build_cfg_liveness`: the fixed point, with the phi operands live on their edge only |
| `PlacePhis` | the head of `build_allocation_plan`: slots of phis, the temporary, parameters |
| `AllocateBlock` | one block of its loop: owners at the entry, then a place for each value, in the order of preference of the code |
| `PlanDone` | `miga80_emit_gnu_m68k_o1`: a plan that needs a frame is made again without the last register; then the emission, which may refuse |
| `RunBlock` | the code of one block and of one of its edges: `emit_value`, `emit_branch`, `emit_phi_edge` |

The run does not compute: `contents` says which value each place holds, and an
instruction that reads a place must find there the value it means.  So every
path is followed whatever the conditions are, loops included, and one run covers
all words.  `CompiledRun` does the converse: it computes, and leaves the places
out.  `MCValueLocations` chooses the expressions.

`LoweredFlow` and `ValueIR` extend `ControlLowering`; `CompiledRun` and
`ValueLocations` extend `ValueIR`, and take from `PhiEdgeCopy` that the copies of
an edge are simultaneous.

### The test runner

`TestRunner` is `miga68k-test`: `Prepare` (`prepare_program`), `Fetch` and `Stop`
(the head of the loop of `execute_program` and the instruction hook), `Access`
(the callbacks of `memory.c`), `InstructionEnds` (the rest of the loop), `Judge`
(the verdicts of the five kinds of test, in the order of `main`).  The emulated
processor is external: an instruction makes a few accesses and leaves the
registers as it likes.  `breach` and `history` record what really happened, by
a definition of an allowed access that is stated byte by byte and not taken from
`memory.c`.  `TestRunner_proof` holds the theorems about it (section 4).

### Graphics

`ChunkyPlanar` holds the conversions of an image to planes, one action for a
group of 8 or 32 pixels (`ConvertGroup`) after the validation (`Accept`,
`Refuse`): pixel by pixel (`Reference`), by a table of pairs (`Lookup`), by five
passes of exchanges (`Mask32`).  The cores for the 68k go on in address registers
and skip the rest of a row (`SourceSkip`, `TargetSkip`), where the C functions
compute each address; they swap the halves of a word where C shifts by 16.

All of them only move bits, so the image is symbolic: a bit of a word is the set
of the bits of the image whose exclusive or it is.  A result about one symbolic
image is a result about every image of its size.

`ReferenceFrame` is the compositor: `Clear`, `DrawPlanar`, `DrawPixel`, then for
each priority each object (`DrawObject`, `NextPriority`).  Pixels are symbolic
here too: an output byte is the sequence of what is drawn there, the transparent
pixels over one that is not.

`FrameOracle` joins them as the host tests do: a job draws a scene, makes
conversions in a memory of eight planes, and decodes (`Decode`, `RefuseDecode`:
`miga80_aga_reference_decode_dual_playfield` with its test for memory that
overlaps).  `MCFrameOracle` holds the jobs; `FrameOracle_proof` proves what the
compositor shows, what the conversions write and that the decoder shows the same.
`JobsAssumption` says what a job is: the scenes and the calls have the types of the
headers, a decoder's output that meets the memory of a plane meets the rows read of it,
and a job that compares both ways (`paired`) draws and converts one image (`SameImage`:
each view is the whole image of the only call for its playfield, at a place divisible by
eight, in cleared planes, and there are no objects).

### The exclusive benchmark

Five modules, one for each level at which
`tests/benchmark/exclusive-graphics/main.c` meets actors it does not control.
`ExclusiveMeasurement` puts the two lowest one after the other; else they do not
import one another, and each level is abstracted to one step of the next:
a sample is "plausible or not" in a batch, a suite is "passes or fails, perhaps
with a blit still running" in a session.

`ExclusiveTimer` is one sample: `read_exclusive_timer` before and after the
kernel, access by access (`ReadHigh`, `ReadLow`, `RetryWord`, `TakeWord`),
against a counter that ticks between any two accesses (`Tick`); `Measure` is
`measured_elapsed_ticks`.

`RasterWait` is `wait_for_raster_start` with `current_beam_line`: three reads per
line (`ReadVposr`, `ReadVhposr`, `Retry` or `Poll`), two loops that share one poll
count, against a beam that moves or stands still (`Beam`).  `ExclusiveMeasurement` is a
sample as `begin_batch` and `run_raw_case` take it: the timer is read when the
wait has found its line (`BeginSample`).  `ExclusiveMeasurement_proof` holds the
theorems about all three.

`ExclusiveBatch` is a suite of cases:

| action | code |
|---|---|
| `StartAttempt` | the head of the loop in `run_raw_case` and `run_c2p_case`, with the raster wait of `begin_batch` |
| `TakeOver`, `Refused`, `Launch` | `begin_batch`: save and switch off, compare, launch the blit |
| `KernelEnds` | the kernels between the two timer reads, with the error of a conversion |
| `BlitterIdle`, `BlitterTimeout` | `wait_for_blitter` in `end_batch` |
| `Restore` | the raster wait of `end_batch` and `restore_batch_state` |
| `Measure`, `EndCase` | the rest of the loop of a case, and what follows it |
| `Cleanup` | `WaitBlit` in the cleanup of `main` |
| `Handler`, `BlitEnds` | handlers of the operating system, which run while an interrupt is enabled; the blitter |

`Disable()` to `Enable()` is one step, because nothing else runs there.

`ExclusiveSession` is `main`: one action for each group of requests (libraries,
timers, screen, memory, sprites, audio, blitter), each of which may be refused in
part; every failure goes to `DisownBlitter`, the first action of the one cleanup,
and on through `StopLoads`, `ReleaseTimers`, `CloseScreen`, `FreeMemory` to
`WriteReport`.  The display, the audio channels and the blitter read memory
until they are stopped; other programs take and release timers meanwhile.
`ExclusiveBatch_proof` and `ExclusiveSession_proof` hold the theorems.

## 3. Runs

| run | what it asks | bounds |
|---|---|---|
| `phi_edge_copy` | does the emission implement the simultaneous assignment, end, and use the temporary correctly? | up to 4 phi slots, each source a slot of the block or another place: all mappings, in both list orders |
| `lowered_flow` | is every program lowered to blocks that mean the same and that later passes accept? | 6 statements, the return included, nesting to any depth they allow, a table of 14 blocks so that it also overflows |
| `compiled_run` | does the compiled function follow the evaluator, local by local, to the same result or fault, for every program? | 4 statements over two locals and a parameter, 12 blocks, words of 3 bits |
| `division_faults` | is a division by zero always observed? (refuted, see section 6) | as above |
| `value_locations` | does the allocation always succeed, is each operand where it is read, are the registers to preserve saved? | 5 statements over three locals and a parameter, 12 blocks; 3 registers, 2 of them with a frame, the last 2 to be preserved |
| `late_constant` | does the emission accept every function? (refuted, see section 6) | as above with the 8 registers of the code |
| `test_runner` | does a test pass exactly if its program kept the contract, and name the first fault? | areas of 4 to 10 bytes, 3 instructions of up to 2 accesses each, 2 entries of trace; the five tests of `main` in their order, or one fault case |
| `exclusive_measurement` | does a sample start only at the start line, does the wait always end, and is the difference of two reads the time that passed? | frames of 13 lines, 4 of them in the upper part, start at line 3, one line between accesses; bytes of 3 values, so 4 digits with 81 counts; 14 ticks, placed anywhere |
| `exclusive_batch` | does each way out of a batch leave the machine as it was? | 3 profiles (no blitter, fair, hog), 2 samples, 1 retry, 2 interrupt sources |
| `typed_code` | do parser, evaluator, -O0 code and -O1 instructions give a function the one meaning its source has? | words of 4 bits, `i16` and `u16` of 3, `i8` and `u8` of 2; eleven signatures with up to three parameters and a local, up to three operators each, four of them with strings or symbols; a pool of 2 entries and 2 bytes; 6 nodes, 3 statements, 2 waiting calls; 8 words as arguments |
| `frame_oracle` | does each conversion put every bit where it belongs, does the compositor show the topmost object, do planes and composed frame agree? | a display of 40 x 2 pixels; images of 16 to 64 pixels in two rows; 3 objects, 3 priorities, 8-bit coordinates |
| `exclusive_session` | is all that was taken given back, and no memory freed under the hardware? | 2 sprites, 2 channels, one block for each use of memory |

Why these bounds suffice.  Four slots give two disjoint cycles of two, a cycle
of three with a tail, and a cycle of four: longer cycles repeat the same round,
and the proof covers every size.  Five statements give a loop in a loop with a
break and a continue in the inner one, an if in a loop both of whose arms leave
it, and three edges into one funnel, the first case in which a merge block is
merged again.  In `compiled_run` the words are narrow so that sums and products
wrap and divisors become zero (the least integer divided by -1 is a matter of
`typed_code`); the programs reach nested loops whose phis become trivial one
after another.  In `value_locations` three registers are few enough that all that the code does for lack of one happens:
values in the frame and in a register that live across blocks, frame slots used
again, phis of different loops that share a slot, edges that need the temporary;
more registers only make that rarer.  In `test_runner` the areas touch (code and
data, data and stack) or do not (vectors and code), an access of 4 bytes is
longer than a guard, and the budget is longer than the trace, which wraps.  In `exclusive_measurement` the
starting counts stand before a carry into each digit and before the wrap of the
whole counter, so that a carry falls between any two accesses, and in the second
read too; the wait starts on every line.  In `exclusive_batch` one retry is
enough for an attempt to be discarded and for the attempts to run out; three
profiles give a case after one that used the blitter.  In `exclusive_session` a
second sprite and a second channel give a load that is partly started; more of
them repeat the same round.  In `typed_code` the widths keep the order of those
of the code, so that there are words that fit `i32` only, `i16` and `u16` but no
byte, and all of them; the arguments include the least and the greatest word, so
that sums wrap, the least word is divided by -1 and a byte takes its sign from the
wrong bit if it can; six nodes are enough for two operators with a conversion.
There `addq.l` reaches to 2 and a shift to 2 places (8 in the code): constants
within and beyond both limits occur.  Two texts of one type, one text of both
types and a text too long for the rest of the pool are written, in every order; strings and
scalars alternate as parameters, and one signature has more strings than registers.
In `frame_oracle` two rows show the step
from row to row and 64 pixels that from group to group within a row for the
conversions by 32; strides leave gaps behind the rows of the source or of the
planes.  The cameras stand at the ends of the range of the coordinates, so that a
difference computed in their width would wrap.  There the jobs are chosen, not
all of a bound: each backend with each format and with and without gaps, each
failing test of a validation, and the pairings of `run_canonical_backend`.

The bounds in the modules: `MaxAccesses` of `TestRunner` bounds one instruction,
its `MaxInstructions` is a limit of the code with a smaller value; `MaxBlocks` (32 in the code) and `MaxStatements` are
limits of the code itself with smaller values, as are `MaxNodes`, `MaxObjects`,
`MaxPriority`, `DisplayWidth` and `DisplayHeight`; `MaxFrames` bounds how deep an
author nests an expression, which the code leaves to its stack; the width of a word is a
constant of `ValueIR` and of `TypedWords`; so is the number of values of a byte of `ExclusiveTimer`.
`MaxClock` (ticks of a whole sample) and `MaxDrift` (lines between two accesses)
bound the hardware.  Nothing else grows without end.

What is assumed of the hardware.  A timer read takes less than the period of the
counter, 2^32 ticks: `ClockAssumption` asks that a sample ends before the counter
has run through its range but for the last carry of its low word.  The beam moves
little between accesses: `DriftAssumption` asks that two accesses pass at most the
lines that the upper part of a frame has, 57, and that the four accesses of two
reads begun on the start line do not reach that part.  A longer interruption
could return to the same `VPOSR` in another frame.  The operating system keeps blitter DMA on outside
a batch (`SystemDmaAssumption`), without which `WaitBlit` would never return.

Fairness.  `PhiEdgeCopy` assumes weak fairness of its steps and
`ControlLowering` of the funnel steps: the compiler is one sequential program
that continues until it returns, so this is only the assumption that it is not
stopped.  The author's next statement is never assumed to come.  `RemovalEnds`
of `ValueIR` assumes the same of its passes.  `ExclusiveMeasurement` assumes that the program
goes on and nothing of the beam.  `ExclusiveBatch` assumes that the program goes on,
and that a blit whose DMA stays on ends; handlers need never run.

## 4. Proofs

`PhiEdgeCopy_proof` proves, for any number of slots, any set of places, any
edge and any values:

* `TypeCorrect`: the type invariant;
* `TransferCorrect`: when the emission is done, every slot holds what its
  source held before, and nothing else changed but the temporary;
* `EmissionNeverFails`: if no temporary was reserved, a safe copy is always
  found, i.e. the search and the emission agree;
* `OneTemporaryIsEnough`: when a cycle is broken, no pending copy reads the
  temporary;
* `Refinement`: each step is a step of `ParallelCopy` or a stutter.

The assumptions are those named in `PhiEdgeCopy` and `ParallelCopy`: the slots
are a finite initial segment of the naturals, and the other places and the
temporary are none of them.

The invariant.  `EdgeTransferCorrect` alone is not inductive: it speaks of the
end only.  The induction needs
* `CopyInv`: in the middle, a pending copy still finds in its (possibly
  redirected) source what its original source held, and an emitted copy's
  destination holds its final value;
* `SearchInv` and `SearchComplete`: which slots the search has cleared, and that
  after it a cycle exists only if the temporary is reserved;
* `AllEmitted`: every copy is either pending or emitted;
* `NeverStuck`: with pending copies and no safe one there is a temporary.
`SearchComplete` rests on the lemma that a finite set of slots each of which
is read by another pending copy contains a cycle of the mapping, by a walk that
cannot leave it.

`TestRunner_proof` proves, for any layout of the memory, any budget, any length
of the trace, any order of the tests and any programs:

* `VerdictCorrect`: a case passes exactly if its program kept the contract, and
  the tests of the runner itself pass;
* `FirstFaultReported`: what is reported is the first forbidden access, and a
  program is stopped for a memory fault exactly if it made one;
* `ReportCorrect`: what is printed with a fault are the last instructions up to the
  one that made it, in their order;
* `Invariance`: the inductive invariant they follow from.

The assumptions are `RunnerAssumption` (the constants are naturals, the tests of
the five kinds) and `LayoutAssumption` (what `prepare_program` writes is mapped,
the two instructions of the runner's own programs lie below the sentinels, the
budget exceeds two, nothing is mapped at the end of the stack).

The argument.  The lemma `AcceptedIsAllowed` shows that the comparison of the
ends in `memory.c` is the same as asking for every byte.  The verdict speaks of
the end of a test, so the induction needs what holds on the way: `FirstFault`
(`memory.c` has noted the first forbidden access and no other), `LoopExact` (the
loop has counted every instruction, goes on only without a fault and gives the
reason it ended for) and `OwnPrograms` (how far the fixed programs have come,
whatever the tests before them left behind).

The buffer of the trace is a ring, so the induction needs where each of the last
instructions stands in it (`TraceExact`): the position is the count of
instructions modulo the capacity, and no two of the last ones share one.  The
lemmas `NextPosition`, `OtherPosition` and `ShiftedPosition` are the arithmetic of
that.

`ControlLowering_proof` proves, for any number of statements and any table of blocks:

* `TypeCorrect`: the type invariant;
* `NeverThreePredecessors`: no block has more than two predecessors;
* `NoEdgeIsPatchedTwice`: an edge that has its target keeps it.

Both are about what was remembered in three places at once: the pending edges
(`control`), the open statements (`frames`) and the merge at work (`funnel`).  Their
common invariant `Shape` says that every remembered edge still waits to be patched
(`EdgesWait`), that no edge is remembered in two places (`EdgesDistinct`), that the
blocks to be entered later have no code, no exit (`Unwritten`) and few enough
entries so far (`FewEntries`), that the pending edges of an inner loop lie above
those of the outer one (`StartsOrdered`), and that a merge has at least one edge to
close on (`FunnelSound`).  Without `EdgesDistinct`, "patched once" is not inductive:
an edge could be patched from one place and be pending in another.

It also proves `JoinsWithinBudget`: the number of blocks with two
predecessors, and with it the table of loop phis, stays within what the number of
blocks allows.  This is a credit argument.  Each block made brings credit; `BudgetInv`
says what it is owed for: three for each join, two for each edge that waits for its
target, two for each `else` list still to come, two for the block being written,
and one or two while a merge at the end of a loop is under way.  One lemma per token shows
that it leaves as much as it needs (`Pays`).  The bound on joins alone says nothing
of the joins that the pending edges will still make.

`ExclusiveBatch_proof` proves, for any profiles, any number of samples, retries and
interrupt sources:

* `MasksAlwaysRestored`: outside a batch, whichever way the last one ended, the
  interrupts and the DMA are what the system last made them;
* `NoHandlerInside`: between the takeover and the restoration no handler changes
  the masks, so that restoring them loses nothing;
* `NoBlitIsOverrun`: a blit is launched only when none runs;
* `CasesAreSound`: each sample of a fair-blitter case was taken under load, a case
  that succeeds used at most one warm-up and `Retries` attempts beyond its samples,
  and a case that fails for want of attempts has discarded more than `Retries`.

It assumes that there is a profile and that its flags are Booleans
(`ProfilesAssumption`), and that the system keeps blitter DMA on
(`SystemDmaAssumption`).

`ExclusiveSession_proof` proves, for any blocks of memory, any number of sprites and
channels:

* `MemoryOutlivesDma`: no memory is freed that the hardware still reads;
* `EverythingReturned`: at the end nothing is held but a screen that the system did
  not close, and that is reported;
* `ReportIsSound`: the suite runs with all of the fast memory or with none, and the
  report says "pass" only after a suite without a failure, with nothing held.

The invariant says, for each label of the cleanup, what has been given back when it
is passed (`Released`), and for each part of the hardware that it works only while
the session knows it.  `BlocksAssumption` says that the blocks of memory and the
other things held are different.

`ExclusiveMeasurement_proof` proves, for any frame, any period of the timer and any
interleaving of program, counter and beam:

* `StartsAtTheRaster`: the wait succeeds only when the beam has entered the start
  line at most four accesses before;
* `LinesAreCoherent`: a line that the program reads is one the beam was on during
  the read, though it is put together from two registers;
* `ElapsedIsExact`: the difference of two reads of the timer is a time that passed
  between an instant of the first and an instant of the second.

The invariants `WaitInv` and `TimerInv` say of each half-finished read at which
instant each of its parts was true.  The attempt to prove `WaitInv` showed that an
earlier `DriftAssumption` was too weak for values other than those TLC checks; it is
now as strong as the argument needs.

`FrameOracle_proof` proves `FrameIsLayered` (`TopmostShown`), for any display, any
number of objects and any scene that the types of the header admit: the composed
frame shows objects by priority and then by their place in the list, over the pixel
view and the planar view; padding and refused scenes leave the output as it was.
The invariant says of each byte what is drawn there before each step: the objects
that the two loops have passed (`Passed`), each at its rank.  `PassedNext` shows that
the next object lies above all of them, `RanksRaised` that each of them moves one
place back, `TexelSeen` that the address computed for a pixel stays in its row.

It also proves `PlanesAreExact` (`PlanesExact`), for every image, every sequence of
calls, all sizes, strides and places, and each of the five backends: when no call is
under way, every byte of every plane is what the last accepted call that covers it has
to write, bit by bit, and any other byte is as it was.  The argument has three parts.
First the kernels, each against one definition of what it is to make of the bits of a
group of pixels (`Makes`): `Transposition` says of the ten merges, each of which
exchanges two bit positions (`Exchanged`, in C and in registers), where each bit of the
four words ends, `LookupMakes` and `Mask32Makes` that the table of pairs and the
network make the bytes of the four planes.  Then the addresses: `WorkAddresses` shows
that the registers of the 68k routines, which go on from row to row by adding a
skip, address what the C loops compute, `GroupIsShown` that a group read there holds
its pixels, `Placed` and `StoredBytes` that it is stored where they belong and meets
no other byte.  Last the invariant `ConversionInv`: what is behind the group at work
holds what the last call that covers it has to write, what lies ahead what
the calls before had to (`BehindNext`, `GroupKeepsWritten`).  A decoder that is not
refused leaves the planes alone because of the test for memory that overlaps
(`DecodeKeepsPlanes`); this is where `JobsAssumption` is used.

From both it proves `FramesAreTheSame` (`FramesAgree`): `DecodedInv` says that a byte of
the decoder's output is the pixel of the front view over that of the back view
(`BitOfImage`, by `PlanesExact` at that address), `ViewsAlone` that the compositor has
drawn the same two, and `SameLook` that a transparent pixel left away does not matter.

`StackCode_proof` proves, for any widths of the words, any authors (signatures,
literals, operators, spellings), any limits of the tables and of the registers, and
any arguments:

* `ParserKeepsTables` and `ParserAlone`: the tables of the parser stay well formed;
* `NothingRejected`: what the parser accepts, validation accepts;
* `CallsMirrored`: at each instruction of a call, the evaluator and the processor
  hold the words of the same nodes, of the types of `validate_block_stack`;
* `MachinesAgree` (`StackCodeAgrees`): the -O0 code follows the evaluator to the same
  result or the same division by zero;
* `CallsMeanTheSource` and `SourceMeaningKept` (`MeaningKept`): the result is what the
  source means in integers and texts, and a fault is that of the first division by
  zero of the source;
* `ParserArithmeticExact` (`ConstantsExact`): a constant the parser computes is the
  word that the code of the expression leaves.

The theorems are about `StackSpec` (`ParserAlone` about `ParseSpec`).  The run
`typed_code` has `ValuesSpec`, whose steps are those of `StackSpec` with the values
of -O1 made beside a call.

Two named assumptions were added for the proofs and are evaluated by the run.
`AuthorsAssumption` says that an author has a signature, operators and
spellings of the right types.  `AddressAssumption` says that the descriptors of a full
pool have different addresses, without which two strings could be equal to the
processor only; in the code they are aligned to 4 bytes in an address space of 32 bits.

The argument has four layers.

* `ParserInv`.  That an expression evaluates to what is written says nothing of
  the parser half-way, with calls of the recursive descent open.  The invariant
  therefore speaks of every node in the table (`Formed`: operands precede
  it and have the types its kind is for; a conversion stands above what it may be
  above), of the pool (`Pooled`: no text twice for one type), of each
  waiting call (`FramesInv`), of the operand in hand, and of which locals are
  stored by a statement before they are read (`StoredInv`).  It counts too: the code of
  an expression, which emits a node as often as it is used, is no longer than the nodes its statement
  has added.  From this the limits on instructions and stack follow, that is
  `NothingRejected`.  The read of the target of `/=` and the conversion of its
  quotient are the cases in which this is close.
* The line of a function.  `Line` gives, after each instruction, the nodes whose
  words are on the stack (`held`) and the number of statements that are done.  It is
  built node by node and statement by statement, and the types of
  `validate_block_stack` are the types of the nodes on it.
* `RunInv`.  `StackCodeAgrees` compares numbers with addresses and needs to know
  which word is of which type.  The invariant says that a call
  follows its line: each word has the type of its node, and memory below `a7` mirrors
  arguments, locals and stack (`Mirrors`).  One lemma per instruction shows that both
  machines go from one point of the line to the next or fault alike; below them are
  lemmas about words: that normal forms are unique, that sums, products and
  quotients of the processor have the low bits of those of the evaluator, that the
  flags of `cmp.l` decide as the evaluator does, signed or not.
* `MeaningInv`.  Each word on the stack denotes the meaning of its node under the
  locals that the statements so far have stored; and nothing before has faulted.

Induction over data.  The library's induction theorems take an operator, which none
of the provers can instantiate.  `SetInduction` states induction over the naturals as
a fact about a set, proved from the minimal elements of a well-founded relation; with
it recursive functions over the table of nodes, the statements and the
instructions can be reasoned about.  For this, `LowerNode`, `LowerStatements`,
`StackTypes`, `BytesUsed`, `InOrder` and `Meaning` are recursive functions whose step is
an operator of its own (`NodeCode`, `Ending`, `NodeMeaning`, `Execute`) and no folds;
likewise `PackGroup`, `Transposed` and `Visible` of the graphics.

Each inductive invariant was an invariant of a TLC run on the instance of its
module before it was proved; of `StackCode_proof` only `ParserInv`, since `RunInv` and
`MeaningInv` speak of some line out of infinitely many.  TLC checks the properties
they imply.

Only model-checked:

* liveness, which is out of the prover's reach: the end of the emission (in
  `ImplementsParallelCopy`; its safety part is the theorem `Refinement`), `FunnelEnds`,
  `RemovalEnds`, `WaitEnds`, `SessionEnds`;
* `LoweredFlow`, `ValueIR`, `CompiledRun` and `ValueLocations`, which use recursive
  operators (dominators, evaluation of expressions, fixed points);
* `ParsedAsWritten` of `FrontEnd`: the definition it compares the tree with
  reads the written tokens by a rule of its own, and a proof would need the
  history of every waiting call as well as its node;
* `ConstantFormsAgree` of `TypedValues`, which numbers values and chooses instructions
  by folds over the code.

## 5. Properties and mutants

Each checked property has a mutant: a definition of the module with a plausible
mistake (`Mutant...`, defined before the definition it stands in for), under
which TLC finds the property violated.  They show that the property depends on
the code modelled and is not true by the shape of the model.

## 6. Findings

**A division by zero can be lost at -O1.**  `make_binary` looks at the divisor
when it makes a division.  `remove_trivial_loop_phis` may later replace that
divisor, a loop phi whose operands are both the constant 0, by the constant.
`mark_live_values` then does not treat the division as one that may fault and
drops it if its result is not used, and `emit_division` emits no test if it is.
The shortest program the run finds is `local x = 0; while x == y do x = x; y = p
/ x end`, called with y = 0.  The evaluator and the -O0 code fault; the -O1 code
does not.  The run `division_faults` shows it.

**A multiplication by a late constant is refused at -O1.**  `make_binary` puts a
constant operand on the right, but a left operand may become the constant 3
later, when a trivial loop phi is removed.  If the right operand dies in the
product, its register is the destination and the left operand is to be added
to it: `emit_multiply` then looks for the register of the constant, finds none,
and the compilation of a valid program fails with "unable to write O1 value
instruction".  `local x = 3; while y < x do x = x; y = x * (p + y) end` is such
a program.  The run `late_constant` shows it, with the registers of the code.
`Refused` also covers two operands that both become constants late.

## 7. Plan

Done: phi copies, control lowering, value IR, compiled run, value locations, the
test runner, the exclusive benchmark with its measurements, expressions from the
parser to both backends, the graphics.

Left, in this order:

1. Proofs: `ParsedAsWritten` above `ParserInv`, `ConstantFormsAgree` above `MeaningInv`.
2. Strings and symbols through joins and loops of `ValueIR` and the edges of -O1.
3. The budget of blocks of the evaluator.

## 8. Not modelled

* The text of tokens, names, messages and assembly: no property is about their
  wording.  The escapes in literals and the bytes of the pool in the output; the syntax of the head of a
  function and of control statements (whose meaning is in `ControlLowering`); the
  limits on locals (16) and names, which are each one comparison.
* Typed words in loops: `ValueIR` has words of one type, `TypedValues` all types
  but straight-line code.  The foldings of a phi do not depend on the type.
* In the -O0 code, branches: a test of a word and two jumps, which `CompiledRun`
  has for -O1.
* The budget of blocks of the evaluator: the comparison with compiled code is
  about runs that finish.
* In the graphics, null pointers, sizes beyond the address space (`SIZE_MAX`) and
  alignment.
* Of the ABI descriptor, the names of registers and the limit of the frame, 32768
  bytes, which no function within the other limits reaches.  The compiler driver: file input and
  output around the passes.  The entry program: one line of output.
* The other benchmarks: measurement loops of the same conversions under the
  operating system.
* Scripts, tool chain, emulator configuration, documents and art.
* Instruction semantics of the 68020 beyond the integer instructions of
  `StackCode`: the repository takes them from an external emulator.
