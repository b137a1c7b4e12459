# rip-sim in TLA+

rip-sim simulates a RISC-V processor (RV32IM, machine mode) at two levels: one
instruction at a time, and as a five-stage pipeline with pluggable branch
predictors.  An assembler makes the programs.  This directory holds a TLA+ model
of both simulators, of the assembler, the decoder and the loading of a program,
the TLC instances that check them against each other, and machine-checked proofs
of nearly all of the safety properties these instances check, the refinement between
the two simulators included.

The question that matters most here: **does the pipeline compute what the
instruction-level simulator computes?**  Forwarding, stalls, flushes, the
redirections of the fetch and the branch predictor must be invisible to the
program.  `ImplementsGolden` says so as a refinement, `PipelineCorrect` proves it, and
most of the other properties name one mechanism the refinement rests on.  The second question is
what comes before and after it: **is what the assembler was given what the
simulator executes, and is what the simulator executes what it counts?**

## 1. Inventory of the system

| Component | Source | State | Operations |
|---|---|---|---|
| Pipeline simulator | `lib/RIPSimulator/RIPSimulator.cpp`, `include/RIPSimulator/{RIPSimulator,PipelineStates}.h` | PC, Mode, GPRegs, States, Mem; per stage an instruction, its address, a stall and an invalid bit; the latches DE*, EX*, MA*; BranchPC | `proceedNStage` = shift and fetch, `writeback`, `memoryaccess`, `exec`, `decode`, `handleException`, redirect; `run`, `runInteractively` |
| Instruction-level simulator | `lib/Simulator/Simulator.cpp`, `lib/Instructions.cpp` | PC, Mode, GPRegs, States, Mem | `run` = decode at PC, `exec` of the instruction class, handling of the exception it returns |
| Instruction set | `include/InstructionTypes.h`, `include/Instructions.h`, `lib/Decoder.cpp` | none | `decode`, the field accessors, the immediates |
| Data instructions | `exec` of both simulators | none | 27 arithmetic operators on 32-bit words |
| Memory | `lib/Memory.cpp`, `include/Memory.h` | DRAM bytes | read and write of bytes, half-words, words, with assertions on the address |
| CSRs, exceptions, modes | `include/CSR.h`, `lib/CSR.cpp`, `include/Exceptions.h`, `lib/Exceptions.cpp` | 4096 CSRs | read, write, the mstatus fields, `trap_val` |
| Registers | `include/Registers.h` | 32 registers | read, write (dropped for x0) |
| Branch predictors | `include/RIPSimulator/BranchPredictor.h` | a history table, a history register or weights; PrevPred, BranchPredPC, hit and miss counts | `Predict`, `Learn`, `StatsUpdate` |
| Interactive protocol | `lib/RIPSimulator/Interactive.cpp`, `BranchPredictor.h:296-338`, `python-wrapper/rip_simulator/rip_simulator.py` | two pipes | proceed, predict, learn, break, exit |
| Statistics | `include/Statistics.h`, `RIPSimulator.cpp:385-406, 714-723`, `Simulator.cpp:81-87` | instruction counts, branch distances, counter CSRs | one instruction counted per cycle (pipeline) or step (the other simulator), one prediction judged per branch |
| Assembler | `include/Assembler/AsmParser.h`, `lib/Assembler/{AsmParser,BinaryEmitter}.cpp`, `tools/asmkheiv/` | labels with their addresses, the bytes written | two passes over the source |
| Command line and loading | `tools/rip-sim/rip-sim.cpp`, `RIPSimulator.h:40-110` | options; DRAM while it is filled | parse an argument, build, load a word |
| Reservoir predictors | `python-wrapper/reservoir_branch_predictor/` | floating-point matrices | predict, learn |
| simkheiv, debug output | `tools/simkheiv/`, `lib/Debug.cpp` | none worth naming | text and file I/O |

**Interaction.** `run` calls `proceedNStage(1)` in a loop on one thread.  Within
a cycle the stages run from the oldest instruction to the youngest, and talk to
each other through shared fields: exec reads what decode left a cycle earlier in
DE*, decode reads what exec left *in the same cycle* in EX* (forwarding), and
what memoryaccess left in MA*; exec sets stall bits that the next shift obeys,
exec, decode and handleException set invalid bits that the end of the cycle
obeys, and all three can redirect the fetch.  The predictor is a callback:
`Predict` from decode, `Learn` from exec, with its last answer kept in a single
field.  In interactive mode the callback is a message to a Python process.

**What is hard.** There is no concurrency in the simulator; the difficulty is
order.  Five instructions are in flight, each mechanism acts on a different pair
of them, and what is right depends on which of up to three actors wrote a
field last: the youngest result must win when forwarding, the oldest instruction
must win when redirecting, a stall and a flush must not meet, a prediction must
still be the right branch's when it is judged one or two cycles later, a CSR
write still in the pipeline must be seen by the trap behind it.  Every one of
these needs a particular sequence of three or four instructions to go wrong.
The interactive protocol adds two processes that read from each other in turn.
Outside the pipeline the difficulty is duplication: a field is taken apart and put
together by the encoder, the decoder, the constructor of the instruction, the
pipeline's exec and the other simulator's; arithmetic is written twice; an
instruction is counted by two loops; labels are placed in one pass and code in
another.  All of them must agree, at the edges of every field.

**What makes each component correct.**

* Pipeline: every instruction takes effect once, in program order, on the
  operands its predecessors leave, and instructions of a wrong path never do;
  the loop does not spin without executing.
* Instruction-level simulator: it is the reference; its own correctness is
  what its comments and the instruction names say of it.
* Memory: an access outside DRAM fails its assertion.
* Branch predictors: a lesson goes to the entry that made the prediction;
  counters stay in their range; the answer never matters for the result.
* Interactive protocol: no state in which both sides wait; a request is
  answered or the simulator notices that it will not be.
* Assembler and decoder: the instruction decoded from DRAM is the one written in
  the source, operands and immediate included; both simulators see the same
  fields in every word; a label is the address of the instruction behind it.
* Data instructions: what RV32IM asks, from both simulators.
* Command line: the last setting of each option holds, and a mistake keeps the
  simulator from being built.
* Statistics: each executed instruction counts once and each executed branch is
  judged once, whatever is stalled, flushed or fetched on a wrong path.

## 2. Plan

Done (this document describes it):

1. `RiscvIsa`, `RvAlu`, `InstructionSim`, `Pipeline` and the refinement between
   the two simulators; type, stall and end-address proofs.
2. `BranchPredictors`, and `PredictedPipeline`, which composes them with
   `Pipeline`; `InteractiveProtocol` with its proofs.
3. `Encoding`, `InstructionAlu`, `ArithmeticSpec`: words bit by bit, the arithmetic
   of the second simulator, and what both are to compute.
4. `Toolchain`, from assembler text to a loaded program, and `ExecutionUnits`,
   which adds the first instruction's result.
5. `CountedPipeline`: the statistics of both simulators beside the pipeline, with
   an EndAddress.
6. The claims of the repository the code does not meet.

7. Proofs of all safety properties but one (section 6), of the refinement for
   every program on which the simulators do not differ by design, and of conditions
   on the words of a program that make it one of these.

Next, in this order:

1. Such conditions for programs with traps: a handler that is part of the text,
   and what may stand in front of an `ecall` or an `mret`.
2. Programs that write over their own instructions (`fence.i` is decoded as
   `addi`), and wrong paths that leave DRAM.

## 3. Modules

| Module | Models | Role |
|---|---|---|
| `RiscvIsa` | kinds, operand classes, branch conditions, memory, CSR numbers and mstatus fields, exceptions | shared definitions, constants and their assumptions |
| `RvAlu` | the arithmetic of the pipeline's exec | the `Alu` of the TLC instances |
| `InstructionAlu` | the arithmetic of `*Instruction::exec` | the `SimAlu` of the TLC instances |
| `ArithmeticSpec` | - | what RV32IM asks of a result |
| `Encoding` | `InstructionTypes.h`, the constructors and members of `Instructions.h`, `Decoder.cpp` | words as sets of bits: encoders, decoder, fields |
| `Toolchain` | `AsmParser`, `emitBinary`, `Options::parse`, the construction and loading of rip-sim | one action per line, argument or word |
| `ExecutionUnits` | - | `Toolchain` and the first instruction in both execution units |
| `InstructionSim` | `Simulator::run` and `*Instruction::exec` | abstract specification: one action per kind of instruction |
| `Pipeline` | `RIPSimulator::run` and everything it calls | detailed specification: one action per step of a cycle |
| `PipelineRefinement` | - | refinement mapping, `ImplementsGolden`, `OperandsArchitectural`, and `Comparable`, what it asks of a program |
| `BranchPredictors` | the classes of `BranchPredictor.h` except the interactive one | `Predict`, `Learn`, and the order in which a pipeline may call them |
| `PredictedPipeline` | decode and exec with `BP` set | `Pipeline` composed with `BranchPredictors` |
| `CountedPipeline` | `Statistics`, `StatsUpdate`, the counters, the counting in both loops | `Pipeline` and what is counted |
| `InteractiveProtocol` | `runInteractively`, `InteractiveBranchPredictor`, class `RIPSimulator` of the wrapper | two processes and two pipes |
| `RepositoryClaims` | - | statements of the repository the pipeline contradicts |
| `MCPrograms`, `MCPipeline`, `MCCountedPipeline`, `MCPredictedPipeline`, `MCBranchPredictors`, `MCToolchain` | - | programs and constants for TLC |
| `Pipeline_proofs`, `PipelineRefinement_proofs`, `PredictedPipeline_proofs`, `CountedPipeline_proofs`, `BranchPredictors_proofs`, `InteractiveProtocol_proofs`, `Encoding_proofs`, `Toolchain_proofs` | - | lemmas and theorems, each about the module it is named after |

### 3.1 Pipeline

`proceedNStage(1)` is cut where its callees begin and end: `phase` says which is
next.  In a cycle the actions are one of each of

    fetch -> writeback -> memory -> exec -> decodes -> handleException -> Redirect

and each group has one action per case of the code (`FetchStalled`, `Fetch`,
`FetchFails`, ...; one exec action per instruction kind).  Variables carry the
names of the code's fields.

* `Insts`, `PCs`: `PipelineStates`' instruction pointers and addresses.  An
  instruction is its word; an empty stage is `nullptr`.
* `Proceed`, `ProceedPC`: the shift, in which every stage above a stalled one
  moves and the first stage above is left empty.
* `DEVal`, `EXVal`, `MAVal`: the latch fields as records.  Fields the code does
  not assign keep their old value here too (decode of a `lui` leaves the old
  rs1), because stale latches are one of the hazards.
* `PrevPred`, `BranchPredPC`: the two fields of class BranchPredictor the
  pipeline uses.  What the predictor answers is any Boolean, so what is shown
  holds for every predictor, learning ones included.
* `Except`: the exception exec returned, until handleException has dealt with
  it in the same cycle.
* `Status`: `"run"`, or why the loop ended: an `empty` pipeline, `end` address,
  `break`, a failed assertion or unimplemented instruction (`abort`), or an array
  access out of bounds (`undefined`).  A stopped simulator stutters.

Registers, CSRs and latches start as the constructor leaves them; fields it does
not initialise start with any value of `Garbage`.

The machine is scaled, not simplified.  Words are four bytes of `ByteSize`
values; CSR numbers and the mstatus fields are packed into such a word; the
decoder is a function from words to fields, so a program is still bytes in
memory that loads read and stores write.  The theorems hold for every size the
assumptions of `RiscvIsa` admit.  Addresses are 64 bits in the code, and
`DRAMAssumption` keeps DRAM in the lower half of the word range, where the
unsigned word shows the same outcome.

### 3.2 The refinement

`ImplementsGolden` is `Golden!Spec`, the instruction-level simulator with its
variables replaced by the architectural state read off the pipeline:

* an instruction takes effect the moment exec runs it;
* results of executed instructions that are still in EX* or MA* are laid over
  GPRegs, States and Mem, the older first;
* PC is the address of the oldest instruction exec has yet to run, or where
  exec has redirected the fetch.

TLC checks that every step of the pipeline is then a step of `InstructionSim` or
a stutter: an instruction lost, executed twice, taken from a wrong path or given
a stale operand is a step that is neither.

The instruction-level simulator computes with its own arithmetic: `InstructionSim`'s
`Alu` is replaced by `SimAlu`, which the runs give `InstructionAlu`, and the
pipeline `RvAlu`.

The comparison restricts the *programs* where the two simulators are known to
differ.  `Comparable` is the conjunction of these restrictions; the theorem assumes it,
and `Data` and `Control` check that their programs keep to it:

* `ZeroFromFile`: no result is written to x0 and read back while in flight (run
  `ClaimZero`);
* `SameTrap`: no branch is predicted taken in the cycle of a trap (run
  `ClaimHandler`; `Control` has no ecall, `Data` no predictor), no CSR instruction
  directly in front of an ecall writes a CSR the trap writes (`RIPSimulator.cpp:588`,
  `:614`: the two writes land in the wrong order, or the new value is not seen), and
  interrupts are disabled;
* `SameExecution`: csrrc and csrrci are left out, the instruction-level simulator ands
  the operand with the *logical* negation of the CSR (`Instructions.cpp:97`, `:118`);
  targets of jalr are even, only the instruction-level simulator clears the lowest bit;
  no load reads the console address or runs in the epilogue, where only the other
  simulator goes to the memory; an
  mret finds no write to mstatus directly in front of it, a legal MPP (an illegal one
  redirects to mepc in the pipeline, over the trap) and MPRV clear;
* `ExtxLast`: extx is the last instruction (run `ClaimExtx`);
* `FetchInDRAM`: wrong paths stay inside DRAM; the fetch runs ahead of the execution and
  would fail an assertion the other simulator never reaches;
* `StoresApart`: a store does not hit an instruction that has been fetched;
* there is no EndAddress, and `SameArithmetic`: both simulators compute the same results
  (`ArithmeticAsSpecified` is why they do; `MCPipeline` assumes it of its instance, and
  TLC evaluates it).

Two facts of the mapping itself: an ebreak or ext leaves the instruction before it
executed but not written back, and the mapping counts its result; MIE is not saved
by a trap of the instruction-level simulator (`Simulator.cpp:74`), and the runs
compare traps with MIE zero.

### 3.3 Branch predictors

`BranchPredictors` has one variable for each table of the four classes and
`Kind`, chosen in the initial state, for the class.  An entry of the `std::map`s
that does not exist yet is `None`: the code answers "not taken" for it, and the
first `Learn` of a two-bit entry creates it with 0 whatever the outcome, so that
lesson is lost.  The perceptron's `y` is a field that `Predict` writes and `Learn`
reads.

`Decoded`, `Executed` and `Squashed` are the environment: the pipeline predicts
a branch when it decodes it, then either executes it, and teaches its outcome, or
squashes it.  `pending` is the branch in between.  At most one is pending in that
specification; that this is so in the pipeline is `LessonsMatchPredictions`.

`PredictedPipeline` conjoins the predictor's actions to the actions of `Pipeline`
that call them: `decodeBranch` takes `PrevPred` from `Predict` (in `Pipeline` it is
any Boolean), `execBranch` passes the condition to `Learn`.  `pending` is read
off the stages: the branch in DE that decode has run for, or in EX that exec has
yet to run for.  `BP!Spec` is then a property of the composition.

### 3.4 Interactive protocol

The simulator is reduced to what it exchanges: a cycle may teach a branch decoded
in the cycle before, may ask for one prediction, then ends with an output line
and waits for one word, or ends the simulation.  Every program is a choice of
these.  Between its last line and its end the simulator dumps statistics
(`"ending"`): a write still succeeds then, and the read behind it returns nothing.
The wrapper runs the loop its users write (see
`python-wrapper/tests/interactive_branch_predictor_test.py`): proceed, look at
the kind of line, predict if asked.  `close` may come between any two calls, and instead of the
prediction that was asked for.

The pipes carry what the code writes, in units the other side can see:
`std::cin >> s` takes a word when the blank behind it has arrived.  `predict`
writes its answer without a blank (`partial`), then " FIXME!! ", which ends the
answer and adds a word of its own.  The words "whatever" and "FIXME!!" are `Other`.

### 3.5 Encoding, decoding and the two readings of a field

In `Encoding` a 32-bit word is the set of the positions of its one bits: `&` is
intersection, `|` is union, a shift moves the positions, `std::bitset<n>` of an
integer is `Bits(v, n)`.  `IWord` ... `JWord` are the shifts and masks of the
constructors that encode, `MakeI` ... `MakeJ` of those that decode: they keep the fields
as members *and* put the word together again.  `FieldsOf` compares the two: the
instruction-level simulator reads the members (`MemberImm`), the pipeline the word
(`getRd`, ..., `PipelineImm`).  `NearJump` keeps the jumps of half a megabyte and
more out of it, whose sign the pipeline takes from bit 19.

### 3.6 Toolchain

`stage` is the place in a pipeline of programs: asmkheiv's first pass (`"labels"`)
and second pass (`"emit"`), rip-sim's `"args"`, its `"load"`, `"running"`.  A step is a
line, an argument, or a word loaded.  `Source` is a sequence of lines already split
into tokens; a token says what it can be read as.  `Labels` is the `std::map`, whose
`insert` leaves an entry that is there; the empty label, in front of a line that begins
with its colon, is an entry like any other.  An option's value that `stoll` cannot read
is `nullopt`: the exception ends rip-sim (`NotANumber`).  `Accepted` collects the assertions and
exceptions of the constructors, `Reject` is what they do.  A base register in
parentheses is lost by `parseOffsetReg` (`OffsetReg`), as in the code.  `Prebuilt` files
enter behind the assembler, so that the loader and the decoder also see words no
assembler writes.

`ExecutionUnits` adds one step: when the first loaded word is a data instruction, it
is run on any pair of operands in `RvAlu` and in `InstructionAlu`.

### 3.7 Counting

`CountedPipeline` conjoins the counting to the steps of `Pipeline`: `Execute` is exec
with the predictor's `StatsUpdate` and the counter CSRs, `EndCycle` the end of the
cycle, where the pipeline looks at EX and counts what it finds.  `SimStats` counts
the same instructions where `Simulator::run` would, when they are executed.  The
counters are separate variables: programs that read them are not modelled.
`MaxCycles` bounds the number of cycles, for programs that loop.

## 4. Runs

The pipeline's runs use four registers, eight CSRs, 8-bit words of 2-bit bytes,
32 bytes of DRAM at 16 (48 in `Modes`).  Every program of the stated length over a
run's alphabet is an initial state; the program is followed by words that do not
decode, so most programs end by draining the pipeline.

| Run | Instance | Checks |
|---|---|---|
| `Data` | no predictor; four-word programs: 7^4 over data instructions, 6^4 over CSR instructions, 7^4 over loads and stores of each width and users of their results, branches and jumps; six-word programs with a handler; programs that stop in every way, in machine and in Supervisor mode | `ImplementsGolden`, `OperandsArchitectural`, `StallOnlyForLoadUse`, `FetchFollowsPrediction`, `Comparable` |
| `Control` | any predictor; four words over branches, jumps and a load; five over addi, a write to mepc, mret, a read of mstatus and a branch; two values of uninitialised fields | `ImplementsGolden`, `KeepsExecuting`, `FetchFollowsPrediction`, `Comparable` |
| `Modes` | any predictor, EndAddress 52; programs of ten words that set mstatus and mepc and go on with any four of nine instructions that depend on modes, stall or branch; 24 cycles | `TypeOK`, `FetchFollowsPrediction`, `StalledNeverFlushed`, `EndNeverFetched`, `StatisticsAgree`, `AccuracyOfExecuted` |
| `Toolchain` | every mnemonic with the operands at the edges of its fields, every register name, lines that are rejected; listings of up to four lines with labels; command lines of up to three options; 1248 shapes of four words; all pairs of 4-bit operands; 16 bytes of DRAM | `DecodedAsWritten`, `LabelsPointAtCode`, `FieldsAgree`, `SettingsAsGiven`, `ArithmeticAsSpecified` |
| `Predictors` | each kind; one index bit, two history bits, two branches | `TypeOK`, `LearningHelps`, `Converges` |
| `Predicted` | four-word programs over two branches, a jump, addi and a load; each kind | `LessonsMatchPredictions`, `PredictionStands` |
| `Interactive` | up to eight cycles, close at any time | `TypeOK`, `AnswerMatchesRequest`, `PredictsUpToDate`, `BacklogBounded`, `RequestsEnd`, `UserEnds` |
| `ClaimZero`, `ClaimHandler`, `ClaimExtx`, `ClaimBounds` | one program each | a statement of the repository, violated by the pipeline |
| `ClaimBase` | `Toolchain`'s instance | a statement of the repository, violated by the assembler |

**Why the bounds are enough.** A result is forwarded from EX and MA and is in the
register file after that, so an instruction can only be affected through the
pipeline by the three before it; a redirection empties what is behind it.  Four
words over an alphabet that has every role (writer, reader, both, neither, at
distance one to three) contain every such combination, and loops repeat them
with other values.  Registers number four because an instruction names at most
three.  Loads and stores of each width exercise sign extension and partial words;
the 8-bit word lets additions and addresses wrap.

`Data` finds 634,706 distinct states, `Control` 257,073, `Modes` 578,225 and
`Toolchain` 164,171.  Ten-word programs are enough for `Modes` because the first
four words only set the mode up; 24 cycles let each of them run to its end or twice
around its loop, and the bound cuts counting, not the pipeline.  In `Toolchain` the
fields have their real widths: what is small is the number of words.  The
immediates are the ends of each field, the bits at which an encoder takes a field
apart, and both signs; register numbers use every bit.  Listings of four lines
contain two definitions of a label with code before, between and behind them.
Operands of four bits have every pair of signs, the overflowing division and shifts
beyond the width; the operators do not depend on it otherwise.

The predictors' widths are constants: 5 or 10 bits of index and 10 of history in
the code.  The two branches of
`Predictors` share a table entry, except where gshare's history tells them apart.
With two history bits Theta is 17 and a weight has five bits, -16 to 15.
`Interactive` finds the same backlog of
at most six words at six, eight and ten cycles: what a cycle adds, the next
request takes away.  Without a request nothing accumulates either, because a cycle
takes the word its line was answered with.

**What the properties say.**  `OperandsArchitectural`: at exec, the latched
operands equal the architectural state.  It splits the refinement's question in
two: operands here, order of instructions in `FetchFollowsPrediction`, which
says that the instruction behind a branch at exec is the one the recorded
prediction chose, and the next word behind anything else.  `StallOnlyForLoadUse`
gives the exact shape of a stall; `StalledNeverFlushed` that shift and bubble
never disagree about a stage.  `Comparable` is what the programs of a run must keep
to for the theorem to be about them; it is true of a program only together with the
flushes that keep what stands behind an extx or at the end of DRAM from taking part.
`KeepsExecuting`: until the simulator stops, exec
gets an instruction again and again.

`EndNeverFetched`: the loop sees the fetch address once a cycle, after every
redirection, and the instruction at EndAddress never enters the pipeline.
`StatisticsAgree`: the pipeline counts what it finds in EX at the end of a cycle, the
other simulator what it executes; with bubbles, stalls and wrong paths the two tables
and the two distributions of branch distances are the same.  `AccuracyOfExecuted`: the
hits and misses are those of executed branches, each once, in the predictor's own
count and in the counter CSRs.

`DecodedAsWritten` goes once through everything: source, two passes, bytes,
loader, decoder; the instruction of line k is behind those of the lines above it
(`Count`), with the mnemonic, registers and immediate the line asks for, if the
immediate fits its field (`Fits`; some lines of the run do not fit, and are cut off).
`LabelsPointAtCode`: the first pass counts as the second emits.  `FieldsAgree`: the two
simulators read the same registers and immediate from every word that decodes.
`SettingsAsGiven`: the last setting of each option holds, and no simulator is built
for a wrong command line; of `--dram-size` it follows the number and leaves the unit
open (see section 5).  `ArithmeticAsSpecified` compares both execution units with
`ArithmeticSpec`, which states a quotient by its product and remainder, a shift by its
bits, a product by congruence: nothing that could repeat a mistake of the code.

`LessonsMatchPredictions` and `PredictionStands` are what a predictor may rely
on: exec judges the branch decode predicted last, before decode predicts another,
with tables and history untouched in between.  gshare's index and the
perceptron's `y` are wrong otherwise, silently.  `LearningHelps` compares the answer
after a lesson with the one before, under the old history: it leans towards the
outcome, and strictly so if the answer was wrong (the lost first lesson
excepted).  `Converges` is what a user expects of every kind: a branch that always
goes the same way is in the end predicted.

`AnswerMatchesRequest`: the answer the simulator takes belongs to the request it
waits with, and the word it takes at the end of a cycle is never an answer.
`PredictsUpToDate`: when the user is asked, every line of the simulator has been
read, so the lesson of the branch before has been learnt.  `BacklogBounded`: the
surplus of words does not grow with the length of the program.  `RequestsEnd`,
`UserEnds`: nobody waits for ever.

**Fairness.** `FairSpec` is weak fairness of `proceedNStage`: `run` is a loop on
one thread, and each of its steps terminates.  Nothing is assumed of the predictor:
`KeepsExecuting` holds if it is always wrong.  `InteractiveProtocol`'s `FairSpec`
is weak fairness of each process: the operating system schedules both, and each
step is a call that returns once its guard holds.  `Converges` assumes no fairness
of the predictors; its premise is that the branch goes on being executed.

**Deadlock** is checked in every run: in each state of a cycle some action is
enabled, and a stopped simulator stutters.  In `Interactive` only a closed wrapper
stutters, so each process waiting for the other would be found.

## 5. Disagreements with the repository's own statements

| Run | Statement | What happens |
|---|---|---|
| `ClaimZero` | "The zero register x0 = zero is set 0." (`Registers.h:60`) | After `addi x0, x0, 5` a following reader of x0 gets 5: forwarding does not exclude x0. A unit test pins this: `CSRRS_CSRRCI` (`RIPSimulatorTest.cpp:1243-1268`) runs `addi x0, x0, 1` and `csrrw x3, mcause, x0` one behind the other and expects 1 to arrive in mcause. |
| `ClaimHandler` | mtvec is the "Machine trap-handler base address." (`CSR.h:36`) | A branch behind an ecall is decoded in the cycle of the trap; predicted taken, its target replaces the handler's address. |
| `ClaimExtx` | "extended instruction. nop on simulator" (`Decoder.cpp:43`) | The two instructions behind extx are flushed and never fetched again. |
| `ClaimBounds` | "invalid access to bigger address than DRAMSize" (`Memory.cpp:11`) | The check admits the first address behind DRAM; sequential fetch reaches it. |
| `ClaimBase` | "op rd, offset(rs1)" and "sb/h/w rs2,offset(rs1)" (`Instructions.h:167`, `:448`) | `parseOffsetReg` returns an empty register: `lw x1, 4(x2)` is assembled as `lw x1, 4(x0)`. The tests only use x0 there. |

Also met, without a run:

* The help text gives `--dram-size` "in kilobytes" (`rip-sim.cpp:108`); the code takes
  bytes (`:83`, and so does `Build`).  The repository contradicts itself: `README.md:93` and
  `rip_simulator.py:28` pass 268435456, which is the default of 256 megabytes in bytes.
  `SettingsAsGiven` does not say which of them is right.
* "this end address is on IF, should be EX" (FIXME at `RIPSimulator.cpp:739`, in
  `runInteractively`; `run` compares at line 636 in the same way without a remark).  The comparison is
  modelled as it is: the simulation ends when the fetch arrives at EndAddress, with the
  instructions in front of it still in the pipeline, and when a wrong path gets there as
  well.  `EndNeverFetched` says that the comparison as it stands is never missed, not that it
  is the right one.

Not stated otherwise by any document: the
perceptron's bias is not clamped as its other weights are (`BranchPredictor.h:240`); jal offsets of half a
megabyte and more change their sign (`RIPSimulator.cpp:350`); an instruction behind a
label on the same line is dropped; immediates too wide for their field are cut off
without a message; branches take numbers, never labels, so the addresses of the first
pass are not used; an extx is counted by the pipeline only.

## 6. Proofs

What TLC finds on small instances, the theorems say for every value of the constants:
for every memory size, word size, register count, decoder, arithmetic, program and
predictor that the assumptions of `RiscvIsa` and `Pipeline` admit; for every source,
file and command line; for every width of the predictors' tables; for every number of
cycles.

| Theorem | Module | States |
|---|---|---|
| `TypeCorrect` | `Pipeline_proofs` | `TypeOK` |
| `StallCorrect`, `NoStalledInstructionLost` | `Pipeline_proofs` | `StallOnlyForLoadUse`, `StalledNeverFlushed` |
| `EndCorrect` | `Pipeline_proofs` | `EndNeverFetched` |
| `PredictionFollowed` | `Pipeline_proofs` | `FetchFollowsPrediction` |
| `OperandsForwarded`, `OperandsCorrect` | `PipelineRefinement_proofs` | `OperandsArchitectural`, as long as x0 is not forwarded |
| `PipelineCorrect` | `PipelineRefinement_proofs` | `ImplementsGolden`, for programs that are `Comparable` |
| `TextComparable`, `TextCorrect` | `PipelineRefinement_proofs` | `Comparable` and `ImplementsGolden`, for programs with a closed text they keep to |
| `LessonsInStep`, `PredictionsStand` | `PredictedPipeline_proofs` | `LessonsMatchPredictions`, `PredictionStands` |
| `StatisticsKept`, `AccuracyKept` | `CountedPipeline_proofs` | `StatisticsAgree`, `AccuracyOfExecuted` |
| `RangesKept`, `LessonsHelp` | `BranchPredictors_proofs` | `TypeOK`, `LearningHelps` |
| `ProtocolTypeCorrect`, `NoAnswerMixedUp`, `PredictionsUpToDate`, `BacklogStaysBounded` | `InteractiveProtocol_proofs` | `TypeOK`, `AnswerMatchesRequest`, `PredictsUpToDate`, `BacklogBounded` |
| `EveryWordAgrees`, `EncodedComesBack` | `Encoding_proofs` | `FieldsOf` for every word that decodes; `decode` of every word that is encoded |
| `ProgramsReadAlike`, `WrittenIsDecoded`, `LastSettingCounts`, `LabelsFit` | `Toolchain_proofs` | `FieldsAgree`, `DecodedAsWritten`, `SettingsAsGiven`, `LabelsPointAtCode` |

### 6.1 The pipeline

* **Types.**  `TypeOK` is not inductive: handleException
  stores the instruction in EX to mtval, which is a word only if there is one.
  The invariant `TypeInv` adds `ExceptionInEX`: an exception is pending only
  between exec and handleException, and the instruction that raised it is still
  in EX.  One lemma per stage, one step per action.  The first section of
  `Pipeline_proofs` bounds what the memory, the mstatus fields and the byte
  operators return; the word size enters only through `ByteAssumption`.
* **Stalls.**  The invariant
  `StallInv` adds to `StallOnlyForLoadUse` the `StallProtocol`: invalid bits are
  set only between exec and the end of a cycle, and never while a stage is
  stalled.  This is inductive because a load neither jumps nor raises, and
  decode leaves a stalled instruction alone: the two facts a change of exec or
  decode is most likely to break.
* **The end.**  What the fetch relies on is
  `BeginsBeforeEnd`: a running simulator never begins a cycle at EndAddress, which
  is run's test, taken after the redirection.  `ShiftKeepsAddress` says that an
  instruction takes its address along when the stages shift, stalled or not; with
  it `EndInv` is inductive.  No assumption on the program, the predictor or the
  address is needed, except that it is not the first address fetched.
* **The order of the fetch.**  `FetchFollowsPrediction` speaks of one phase; what
  keeps it is `FetchOrder`, which says in every phase where the instruction behind each
  stage comes from: behind IF is PC, behind DE what DE's prediction asks for once it is
  decoded (and the next word before), the same behind EX until exec, and a redirection is
  pending only while what it replaces is being flushed.  The lemmas about `Proceed` say
  how these move up when the stages shift.
* **Operands.**  `RegBehind(r)` is the value instructions in EX and
  MA will leave in r, read off the latches; `OperandInv` says that the decoded operands of DE
  are those values, that a load in EX is never followed by a reader of its result
  (`LoadsApart`), and that the shift and the writeback take a result from EX to MA to the
  file without changing what it stands for.  The one thing that breaks it is x0, which is
  forwarded like any register (`ClaimZero`): `OperandsForwarded` is about behaviours in which
  an operand x0 is read from the file, `OperandsCorrect` about programs that guarantee it
  because no instruction names x0 as its result (`ResultsNamed`).  Jumps and system
  instructions may: `SerialInv` shows that nothing behind them is decoded while
  they are in flight.
* **The refinement.**  `PipelineCorrect` combines the above: `SimInv` is the conjunction of
  `TypeInv`, `StallInv`, `FetchOrder`, `OperandInv` and two more invariants.  `CycleInv` adds
  what the mapping needs of a cycle: what is in a stage has passed the memory check, a pending
  exception is that of the instruction in EX, which flushes and redirects nothing, a flush
  leaves the instruction it was decided for, with a predictor it always comes with a
  redirection, and a predicted redirection stands behind its branch.  `WordsInv` says that
  a fetched word is still the one at its address.  Then each action has a lemma.  Shifts,
  writeback, memoryaccess, decode and redirect are stutters: what they move was counted
  when exec ran it (`FetchSimulates` also has the two ways a program ends in the fetch,
  `Golden!Stop` and `Golden!Fail`).  An action of exec is the golden action of its kind
  (`DataSimulates` ... `MretSimulates`), and so is an action of handleException for the
  instructions that raise (`BreakSimulates`, `ExtxSimulates`, `TrapSimulates`).  `GoldenAt` says that
  exec has the golden model's instruction in front of it, `ExecReads` that it has its operands,
  `ExecEffect` what the latches mean to the mapping.  A load or store that is going to fail
  is a failed step of the golden model at exec already, before memoryaccess gets to it.
* **Programs.**  `Comparable` speaks of the pipeline, in each state.  `TextComparable`
  derives it from what can be said of a program without one.  T is where the program
  stands; the images are `Closed` in T: from each word that decodes, the next word and
  the target of a branch or jump are in T again, and each is a `PlainWord`, which neither
  traps nor hides a result in x0.  `KeepsToText` adds what depends on values, and only for
  instructions that are executed: jalr goes to an even address in T, a store changes no
  word of T, a load does not read the console.  The invariant `TextInv` says that
  everything in the pipeline then comes from T, what was fetched on a wrong path as well:
  PC and both redirections are in T, each fetched word is still the one at its address.  So
  the fetch cannot leave DRAM before the execution does, no store hits a fetched
  instruction, and x0 is not forwarded.  Most of the programs of the runs are of this kind: of
  the 9162 memory images of `Data`, 7510 are `Closed` in their first six words.  The instructions left out are the ones the
  simulators treat differently (csrrc, csrrci), ecall, mret and extx.  `NamesResult` is in
  it as well: a nop written as `addi x0, x0, 0` is not a `PlainWord` (see `ClaimZero`).
* **The predictor under the pipeline.**  `LessonsInStep` is a refinement:
  `PredictedPipeline` implements `BranchPredictors`, with `Pending`, read off the stages,
  for `pending`.  Each action of the pipeline is shown to be the one the predictor
  expects or a stutter; that a branch is decoded only when none is pending rests on
  `StallInv`: a stalled branch is decoded once.  `AnswerStands` is `PredictionStands`
  in every phase.  Both assume that there is a predictor (`HasBP`).
* **What is counted.**  The pipeline counts at the end of a cycle what exec ran
  in the middle of it.  `StatsToBe` is the statistics with the executed instruction already
  counted, `Agree` says that they are the other simulator's; it is inductive because nothing
  but DE and IF is ever flushed (`OnlyFrontFlushed`), so what exec ran is what stands in EX at the
  end.  `Accurate` relates the judgements to `StatsToBe` in the same way.

### 6.2 The predictors

`TypeInv` adds `OneBit` to `TypeOK`: the entries of the one-bit kind are bits, and an entry
of 2 would answer "not taken" right after a lesson "taken".  That the score is a number
needs the equation of the perceptron's sum, which is a recursive function:
`SumUnfolds` gets it from the uniqueness of partial sums.  `AnswerStands` says that from
`Predict` to `Learn` the recorded answer, and the perceptron's y, are what the tables
give; it makes `LearningHelps` a fact about a single lesson: one of a counter
(`TableHelps`), or one of a perceptron (`PerceptronHelps`), where every input of the sum
contributes the square of a sign and no clamped weight moves back.

`PowersAssumption` states what the proofs use of 2^n: positive, and doubled by the next
exponent.  It holds for all naturals; the provers do not know exponentiation.

Induction over the naturals is done with sets: `SetInduction` says that a set of
naturals with 0 in it that is closed under the successor is all of them, from the
well-foundedness of the naturals.  The
same lemma gives `Total`, a fold over a finite set, its equation in `CountedPipeline_proofs`
(`TotalIncrement`: one more of a key is one more in all).

### 6.3 The interactive protocol

The invariant `Exchange` follows a
request through its states (`Unread`: its line is the last one in the pipe;
`Answering`: everything is read and the wrapper writes; `Answered`: exactly one
answer is among the words; `Abandoned`: the wrapper has closed instead of answering) and says what the pipes hold otherwise (`Idle`) and
after the simulator is gone.  The lemmas `Written`, `Read` and `WrittenTwo` say
what a pipe holds after each kind of write and read.  `Surplus` bounds `Lead`, the words and lines on their way less the one a waiting
wrapper is about to take, at each place of the simulator's loop: a lesson or a request
puts it up by one, the answer by two, and taking the answer brings it back to one, so
that one cycle leaves nothing to the next.

### 6.4 The tools

`EveryWordAgrees` follows a field through the shifts and masks of the encoder, the decoder
and the getters, with words as sets of bits: each layout has a lemma that says which
bits of a word come from which operand (`WordI` ... `WordJ`), one that reads them back
(`FieldsOfI` ... `FieldsOfJ`), and each row of the decoder one that names its layout.
`Extensions` and `JumpExtension` show that the two ways to extend a sign agree, and from
which bit on they do not.

`EncodedComesBack` is the other direction: what the decoder makes of an encoded
word.  One lemma per layout says what opcode, funct3 and funct7 of the word are, one per
row of the decoder that these select the mnemonic, and the constructors give the operands
back.  srli and srai share their row and are told apart by a bit of the immediate; of
ecall, ebreak, uret, sret, mret, ext and extx it is the immediate that says which it is.

In `Toolchain_proofs`, `FilesOK` and `MemoryOK` keep the file, the counters and the loaded bytes in
their types; `SettingsOK` says that the options are those of the arguments parsed so far
(`LastOf` of a prefix), `LabelsOK` that PC is four times the instructions counted and
that each label is at the number of instructions in front of its first definition; in the second
pass the bytes written are four times the instructions read.  The proofs assume
`ToolchainAssumption`, that the inputs are lines, bytes and arguments.

`WrittenIsDecoded` follows a line from the source to the decoder.  `WrittenOK`: the
file consists of the words of the instruction lines read, each behind the words of those
above it.  `LoadOK`: the memory holds the bytes of the file loaded so far, in their order.
Both are inductive, with one lemma for the six ways to emit a line and one for a word
loaded.  `ReadBack` puts the four bytes of a word together again.  `EveryLine` is about
one line: the register names stand for their numbers, the number of an immediate that
fits its field is what the sign extension makes of its bits, and `EncodedComesBack` does
the rest.

### 6.5 Only model-checked

* `ArithmeticAsSpecified`: bitwise operators and powers of two, which the provers cannot
  expand.  `PipelineCorrect` takes the equality of the two arithmetics as its
  assumption `SameArithmetic`.
* That a program with traps is `Comparable` (ecall, mret, extx), which `PipelineCorrect`
  assumes and `TextComparable` does not give: the runs check it for their programs.
* `KeepsExecuting`, `Converges`, `RequestsEnd`, `UserEnds`: liveness
  under fairness is outside the prover's reach.

## 7. Not modelled, and why

* Reads and writes of the counter CSRs by the program: they would make the
  program's result depend on the number of cycles, which the instruction-level
  simulator does not have.  A csrrs on a counter writes back what it read two
  cycles earlier, so counts in between are lost; no document speaks of it.
* The splitting of a line into tokens and the syntax of numbers (`stoi`, the options'
  `stoll`): text processing.  Whether there is a number at all is modelled.
* StartAddress in the pipeline: it only changes the first fetch address
  (`SettingsAsGiven` follows it to the simulator).  The initial stack pointer is part
  of `InitGPRs`.
* The contents of the interactive lines: the pipeline state of a cycle is for
  display, and the outcome in a lesson is the user's to use.  `proceed` fails with a
  broken pipe, instead of returning None, when the simulator ends between its
  write and the call (`py = "broken"` is reached); no document says which it should
  be.
* The decoder in the pipeline's runs is a table over a scaled word; the real one is
  in `Encoding`.  The theorems about the pipeline hold for every decoder.
* Reservoir predictors: floating-point algebra on random matrices.  As
  predictors they are covered by the arbitrary answers of `decodeBranch`.
* simkheiv, JSON and debug output, the layout of the statistics: text processing that
  keeps no state.  simkheiv loads and runs as rip-sim does without options.
* Programs that write over their own instructions, and wrong paths that leave DRAM:
  the runs keep away from both (`StoresApart`, `FetchInDRAM`); planned.
* Assertions are modelled as enabled: a failed one stops the simulator.
