# The Tomasulo simulator in TLA+

`src/` is a cycle-level simulator of a RISC-V core with Tomasulo's algorithm: reservation stations,
functional units, a reorder buffer, a load-store queue, register renaming and a common data bus. This
directory models it in TLA+, model-checks it with TLC on small instances, and proves part of it with TLAPS
for every size and every program.

## 1. The system

### Components

| Component | Source | State it keeps | Operations |
|---|---|---|---|
| Simulator core | `tomasulo_sim.cpp/.h` | registers, register status (rename table), memory, stations, units, ROB, LSQ, CDB list, fetch indices | `issue_instruction`, `executeFU` (`try_launch_to_fu`, `process_fu_array`), `CDB_broadcast`, `commit_head_of_rob`, `simulate` |
| Functional units | `execute_*_op`, `FunctionalUnit::compute_result` | none | what each operation computes |
| Operation classes, latencies | `instruction.h`, `is_*_op`, `get_latency` | none | routing of an operation to its arrays |
| Decoder | `decoder.cpp` | none | 32-bit word to `Instruction` |
| Loader | `loader.cpp` | the vector it fills | file to words, each decoded |
| Entry point | `main.cpp` | none of its own | argument check, initial registers and memory, one call of `simulate`, exit status |
| Disassembly, translator | `instruction.cpp`, `translator.cpp` | none | one line of text for each loaded instruction |
| State dump | `print_cycle_state` | none | text |

The components call each other once, in a line: `main` loads and decodes a program, sets up the machine and
calls `simulate`; the translator loads, decodes and lists. What can go wrong in a way that depends on order
happens inside `simulate`, whose state is global and exported: a second call meets what the first one left. What can go wrong
in the front end depends on the bits of a word and on the length of a file.

### What is hard in it

The program is one thread and deterministic. Its difficulty is the *simulated* concurrency: up to 32
instructions in flight at once, sharing stations, units, ROB slots, LSQ slots and tags, advanced by five calls
per turn whose order matters. The only nondeterminism is the input: the program and the initial state. What a
test hardly reaches is a particular alignment of latencies, such as a producer that finishes in the turn its consumer
issues, an older writer that commits after a younger one renamed the same register, a structure that fills up
exactly while an entry leaves it, a branch that resolves while an instruction is being retried. `hazards` in
`PROJECT.json` lists them at their lines, each with the properties that would notice.

### What makes each component correct

* ROB: a ring, entered at the tail, left executed from the head; an entry keeps its instruction and only moves
  ISSUED, EXECUTING, EXECUTED, COMMITTED.
* LSQ: exactly the loads and stores in flight, in program order; address and data present when the access has
  executed.
* Stations and units: a busy station works for one live entry, a busy unit for one busy station; no entry is
  orphaned, none is served twice, no result goes to a reused entry.
* Rename table and CDB: a register is mapped to its youngest writer in flight; whoever waits for a tag waits for
  an instruction that will still broadcast.
* The whole: the committed state is that of executing the program one instruction at a time; `simulate` returns,
  and leaves nothing busy.
* Functional units and decoder: agreement with the RISC-V manual, on every operand and every encoding.
* Loader, listing, entry point: what was assembled is what is simulated; the listing shows the words of the file,
  each beside its text; exit status 0 means exactly that everything was done.
* A second call of `simulate`: sees nothing of the first but the input it is given.

## 2. Modules

| Module | What it is |
|---|---|
| `Instructions` | operation names, classes, latencies, arrays, operand kinds |
| `FunctionalUnits` | `compute_result` on words of `WIDTH` bits; a bitwise operation is the number with these bits |
| `TomasuloSim` | the simulator core: state, `Init`, one action per outcome of each call, `Spec`, `FairSpec` |
| `ISA` | the abstract machine: one instruction per step, in order, no buffers |
| `InstructionWindow` | the abstract out-of-order machine: a sequence of instructions that enter and leave in order, execute in any order, and fit into the hardware |
| `TomasuloProperties` | type invariant, invariants, action property, what keeps a run to program order (`Ordered`), refinement of `ISA` and of `InstructionWindow`, termination |
| `Resimulation` | `simulate` called again after it returned: one more action, `CallAgain`, and what calls owe each other |
| `UnitArithmetic` | one functional unit from `start` to its result, against the manual's definition of each operation |
| `Decoder` | `decode_instruction`, from the six fields of a word to an instruction |
| `Encoding` | the reference for it: the encodings of the RISC-V manual, R, I, S, B and U, written from the manual |
| `FrontEnd` | the loader, the disassembly and the two `main` functions |
| `FrontEndProperties` | what loading, listing and the exit status promise |
| `TomasuloProofs` | types and the ROB ring: theorems and proofs |
| `StationProofs` | the matching of ROB entries, stations and units, and the progress of entries: theorems and proofs |
| `LsqProofs` | the load-store queue against the ROB: theorems and proofs |
| `WindowProofs` | that the simulator implements the window |
| `RenameProofs` | the status table, wake-up, and that nothing is left at the end: theorems and proofs |
| `InOrderProofs` | that every commit is one step of `ISA` and every other step none; that the machine never waits for itself; conditions on a program under which both hold of every run; and all of it for any number of calls |
| `UnitProofs` | the integer units compute what the manual says, for words of every width, and what the core assumes of them |
| `DecoderProofs` | the decoder inverts the encodings, takes no other word for an instruction, and what the front end promises of every binary |
| `MCTomasulo` | instances: sizes, initial states, straight-line program families |
| `MCControl` | instances with branches and jumps |
| `MCResimulation` | programs to call one after the other |
| `MCFrontEnd` | binaries to load and list |
| `MCSimpleTest` | the words of `addition_test/simple_test.bin`, decoded by `Decoder`, with the sizes of `tomasulo_sim.h` and a cycle counter |
| `MCDivergences` | one short program for each statement of a comment or of `Readme.md` that the code contradicts |

`TomasuloSim` EXTENDS `Instructions`; `compute_result` is a constant operator of it, for which the instances
substitute `FunctionalUnits!execute`. `TomasuloProperties` EXTENDS `TomasuloSim` and instantiates `ISA` and
`InstructionWindow`, each with its refinement mapping. Each of `TomasuloProofs`, `StationProofs`, `LsqProofs` EXTENDS the one before;
`WindowProofs` and `RenameProofs` EXTEND `LsqProofs`, `InOrderProofs` EXTENDS `RenameProofs` and `Resimulation`, and `UnitProofs` EXTENDS
`UnitArithmetic`. `FrontEnd` EXTENDS `Decoder`, `FrontEndProperties` EXTENDS `FrontEnd` and `Encoding`, and `MCFrontEnd` and `DecoderProofs` EXTEND
`FrontEndProperties`; `MCSimpleTest` is the composition: words, decoder, core and
functional units together. Nothing the proofs reach uses a recursive operator.

### State and actions against the code

One turn of the loop in `simulate` is five steps; `stage` names the call that comes next.

| Action | Code |
|---|---|
| `CommitNothing`, `CommitStore`, `CommitRegister`, `CommitThrow` | `commit_head_of_rob`: its early returns, its two successful outcomes, `to_int`/`to_fp` throwing |
| `Launch` | first half of `executeFU`: `try_launch_to_fu` on all seven arrays |
| `Advance`, `AdvanceThrow` | second half: `process_fu_array` on all seven, with completion, memory access, redirect and the `cdb_list` |
| `IssueNothing`, `IssueArith`, `StallArith`, `IssueMemory`, `StallMemory` | the redirect of `simulate`, then `issue_instruction` by outcome |
| `CDB_broadcast` | `CDB_broadcast`, `next_fetch_branch = next_fetch_idx`, and the loop condition |
| `Stopped` | `simulate` has returned (`done`) or an exception left it (`threw`) |
| `CallAgain` | `simulate` up to its loop, when an earlier call has returned: all the resets it makes, and not the two it does not |

`FrontEnd` is the run of one of the two programs:

| Action | Code |
|---|---|
| `Usage` | `argc != 2` in either `main` |
| `OpenFails`, `Open`, `Load`, `Loaded` | `load_instructions_from_bin`: the stream that does not open, the count of words, one turn of its loop, its end |
| `List`, `Listed` | one turn of the loop of `translator.cpp` with `Instruction::toString`, its end |
| `Simulate` | the call of `simulate` in `main.cpp`, seen from outside: it returns or throws |

`UnitArithmetic` is `FunctionalUnit::start` (`Start`), a turn of the countdown (`Count`) and `compute_result` with the trap of the
host's division (`Finish`).

Points where the model says the same thing differently:

* A tag `"ROBi"` is the number `i`, the empty string is `NoTag` (-1). The C++ pairs `rs1/fs1`, `rs2/fs2`, `rd/fd`
  are one field each: all code reads them as "the integer one if present, else the other".
* `ROBEntry.instr` is the index of the instruction; `is_load`, `is_store` are functions of the operation.
* `Vj` and `Vk` are never cleared by the code, and are not here: a reused station shows its old operands. An empty
  `Vj` is dereferenced when LUI or AUIPC launch from a fresh station; all builds tried (`-O0` to `-O2`) read the zero
  bytes of the default-constructed optional, and so does `Contents`.
* `next_fetch_idx` is a `size_t`: a negative index here is a huge one there, and both fail `< size()`.
* `lsq_head` exists in the code but nothing moves or reads it, so it has no variable. The tests of `lsq_idx != -1` are
  left out: every load and store gets a slot, which `LsqMatchesRob` confirms.
* `cdb_list` is a set: the units that complete in a turn have different entries (`UnitsServeStations`).
* Memory is two maps by address, as in the code (`memory_int`, `memory_fp`), and an access has no width.
* The functional units of one array are visited by index, so of two that redirect in one turn the later wins
  (`Redirect`). Effects of units of different arrays do not overlap.
* A word of a binary is the record of its six fields (`get_opcode` to `get_funct7`): they partition its 32 bits, so every
  immediate is a sum of fields, and no number of the decoder exceeds the integers of TLC.
* A line of the listing is an index, a word and a text, and a text is a mnemonic with its registers and its numbers in
  order; spelling and spacing are left out. (The code prints the index in hexadecimal from the second line on, since
  `std::hex` sticks to the stream, `translator.cpp:19-20`; that is spelling too.)
* A jump target is computed modulo `WORD`. At 64 bits a target is either in the program or far outside it; the
  instances choose `WIDTH` so that a program's addresses fit in a word.

The translation was also compared with the code by running both: about nineteen thousand random programs, on builds with the
sizes of the instances, agreed on the full state after every turn, including throws and programs that do not end. The
only two that differed overflowed the reduced word of the model.

## 3. Properties

Each is preceded by the behaviour it is about.

* `TomasuloProperties`, of every program: `TypeOK`, `RobIsARing`, `LsqMatchesRob`, `StationsServeRob`, `UnitsServeStations`,
  `LsqReadyWhenExecuted`, the action property `EntriesProgress`, and the refinement `RefinesWindow`.
* `TomasuloProperties`, of programs without late branches in which no instruction stalls whose destination is also a source:
  `RenameTable`, `NoLostWakeup`.
* `TomasuloProperties`, of programs that avoid the defects of section 5: `QuiescentAtEnd`, `RefinesISA`, its safety half
  `ExecutesInOrder`, `Termination`, and `NeverStuck`, what termination rests on besides the counting down of units: the head has its
  operands as soon as it is the head and is committed as soon as it has executed, in every turn in which it has not some unit
  works, and nothing keeps an instruction out of an empty machine.
* `TomasuloProperties`, `Ordered`: what "avoid the defects of section 5" means, in every state of a run. Of the program, that its
  instructions are as the decoder makes them (`WellFormed`) and mean what the simulator computes (`AllSupported`); of the run, that
  failed attempts to issue do no harm (`RetryUndisturbed`, `RetryReadsOthers`), that a store commits before a younger load of its
  location executes (`LoadsInOrder`) and that a branch is taken before anything is fetched behind it (`BranchesInTime`).
* `Resimulation`, of any sequence of calls: `EachCallInOrder`, each call starts at the index at which the last one
  stopped and executes its program from there in order, from the registers and the memory it is given; `EveryCallReturns`.
* `UnitArithmetic`: `AluMatchesManual`, `ProductsMatchManual`, `QuotientsMatchManual`, each operation stated by what
  its result must satisfy (bit by bit, by congruence, by the equation of division), not by a formula.
* `FrontEndProperties`: `LoadsWhatWasAssembled`, four bytes that encode an instruction are decoded to this very
  instruction, signs and register files included; `ListingShowsBinary`, every line has the word of the file at its index, and
  beside an encoding the text that the manual gives its instruction (`Written`), and beside that text nothing else; `StatusTellsTheTruth`, the
  exit status is 0 if and only if all was done, `simulate` returning rather than throwing included; and `KnownWordsAreEncodings`, the other
  direction of decoding: a word is taken for an instruction only if it is an encoding of it but for the
  field values listed in `Tolerated`. Those are what the decoder does accept beyond the manual (section 5); the property says that there
  are no others.
* `MCSimpleTest`: `ReadmeResults`.

**Refinement.** `InOrder` is `ISA` with `regs` and `memory` mapped to themselves, the program to
`instruction_queue`, and `pc` to the instruction at the head of the ROB or, when the ROB is empty, the next to be
fetched. So an instruction of `ISA` executes at the moment the simulator commits it, every other step
stutters, and since `ISASpec` has weak fairness every instruction of the program is eventually committed; `ExecutesInOrder` is the same
without the fairness. `ISA`
computes with the same `compute_result`, except for LUI, AUIPC, the jumps and x0, which it states in its own
words: the refinement is about order and data flow, not about arithmetic.

`OutOfOrder` is `InstructionWindow` with the program mapped to `instruction_queue` and the window to the ROB read from head to
tail, each entry as its instruction and its state. A window has no indices: that slots, stations, units and LSQ slots are
reused without harm is what the refinement says. It holds of every program, wrong branches and throws included, because it speaks of
instructions and not of values; and it has no fairness, because a wrong value can leave an instruction waiting for ever.
The capacities in `Fits` are what a wrong full-test would exceed: a load that gets an LSQ slot when none is
free, or a second instruction in a busy station.

## 4. Runs

| Run | Programs | Bounds | Shows |
|---|---|---|---|
| `arith` | all sequences of up to 4 over 6 dependent integer and double instructions; loops and forward skips, some past the end of the program, whose branch has its operands when it issues | ROB 4, 2 MULDIV stations, one FP station of each kind, `WIDTH` 4 | renaming, wake-up, in-order results, control flow, no deadlock, termination, quiescence; these programs are `Ordered` |
| `memory` | all sequences of up to 4 over 7 memory instructions and an addition, without a load behind a store to its word | ROB 3, LSQ 2, 1 load and 2 store stations | LSQ bookkeeping, memory in order, no deadlock, termination; these programs are `Ordered` |
| `wild` | all sequences of up to 4 over late branches, a jump, an illegal instruction, MUL, LW, SW with the same registers everywhere; and a family in which a branch overtakes an instruction that stalled | ROB 4, LSQ 2, one station of a sort (two ALU), two load units | structural invariants and the refinement of the window survive even where values go wrong; every action fires, the throws included |
| `calls` | any number of calls, each with any sequence of up to 4 over a MUL, a load, a store and a double addition | ROB 3, LSQ 2 | a call sees nothing an earlier one left but `next_fetch_branch`; every call returns |
| `simple_test` | the loop of `Readme.md`, decoded from its binary | `tomasulo_sim.h` sizes, `WIDTH` 7 | the memory and the 41 cycles `Readme.md` reports; refinement on the way; the loop is `Ordered` |
| `units` | every operation a unit computes, every pair of operands | `WIDTH` 4: 16 integers, 17 doubles with NaN | the operations of the integer units are the manual's |
| `binaries` | one word of each kind of instruction with every single immediate bit and the extreme values, up to 3 bytes after it; pairs of similar instructions, conversions with their unsigned forms among them; words of 15 opcodes, all funct3 and the funct7 in use and their neighbours; no file, no argument | binaries of at most 8 bytes | loading, decoding both ways, the listing (index, word and text), exit status |
| `store_then_load`, `self_dependence`, `write_x0`, `late_branch` | one program each | `tomasulo_sim.h` sizes | the statement quoted in section 5 is violated |
| `second_call` | the same program, called again | as `calls` | likewise |

**Why the bounds are enough.** The code treats ROB, LSQ and stations by index and never looks at their size
except to compare with it and to wrap. With a ROB of 3 or 4, an LSQ of 2 and one or two stations, programs of four
to seven instructions fill each structure, stall on each, wrap it around, and reuse a slot and a tag while others
are still referred to. Latencies keep their real values (1, 2, 3, 4, 8), so all relative orders of completion of
two or three instructions occur. Two registers of a kind suffice for a write after a write, a write after a read
and a chain. Words are 4 to 7 bits: the structure never tests a value except in BNE, and at 4 bits
there are shifts beyond the word, both signs and both extremes; `UnitProofs` shows the same of every width. A word of a binary is decoded by fields that do not influence each other, which is
why one immediate bit at a time is enough, and the theorems of `DecoderProofs` say the same of every word and every file. `Ordered` is checked in
`arith`, `memory` and `simple_test` because it is the premise of `CommitsInOrder`: these runs show that dependent programs, loops, full
structures and the program of `Readme.md` meet it. `calls` has no bound on the number of calls: its states are finite
because every call starts from the given inputs. No call resets `next_fetch_branch`, and in these programs it only grows: a
later call executes what its program holds beyond the index at which the last one stopped, and nothing once that is four. So two or three calls with
work to do follow each other (one of one instruction, then of two, ...), and behind them calls that end at once. Deadlock checking stays on in every run:
a stopped simulator is `Stopped`, so a deadlock would be a state the actions forgot.

**Fairness.** `FairSpec` is weak fairness of `Next`: the loop is one thread, none of its calls blocks or waits for
anything outside, so a step that can be taken is taken. `CallsSpec` is weak fairness of `Next` alone: a call that has begun goes on, nobody has to call again. Runs that check no liveness use `Spec`.

**Mutants.** Each property of each passing run has a mutant, one of the `Slip...` operators of `TomasuloSim`
(a ring that does not wrap, a status entry released by an older writer, a consumer that ignores an executed producer, an LSQ
slot not reset, ...); with the mutant in place of the definition that follows it, the run finds the property violated.
Nothing in the specification uses a `Slip...` operator.

## 5. Divergences found

Each is a run that TLC must find violated, with a program of one to six instructions.

| Run | What the code does | What it says |
|---|---|---|
| `store_then_load` | a load reads memory when it completes and never searches the LSQ, so it misses an older store in flight (`tomasulo_sim.cpp:643`) | `Readme.md:10,15`: dependency tracking and memory disambiguation by the LSQ |
| `self_dependence` | a failed attempt to issue has renamed the destination; the retry reads its own tag and waits for itself (`:561`) | `:1001`: simulate until all is fetched and the ROB is empty |
| `write_x0` | commit writes x0 and later reads see it (`:752`) | `:939`: x0 is hardwired to 0 |
| `late_branch` | the target is relative to the last fetched instruction (`:680`) | `Readme.md:135`: pc + imm |
| `second_call` | `simulate` resets `next_fetch_idx` and not `next_fetch_branch`, so a second call fetches from where the first one ended (`:998`) | `:930`: the global state is initialised |

Seen while modelling, modelled as the code has them, and without a run of their own:

* UNKNOWN and EBREAK have no station (`tomasulo_sim.cpp:345`): the loop turns for ever, where `Readme.md:17` announces
  exception handling for illegal instructions.
* JALR adds its immediate to the link value, not to rs1 (`:684`, its comment `:683`), and the link value is 0, not
  PC + 4, because the executor gets a fresh station (`:169`).
* SRA shifts a `uint64_t`, so zeros come in at the top (`:161`). The one division without a result, the least integer by
  -1, stops the process (`:195`). `units` leaves SRA out of `AluMatchesManual` and ends that division in `Trap`.
* `decoder.cpp` knows one branch (BNE), two integer loads, no shift by an immediate and no JAL, where `Readme.md:8` says full
  support for RV32I. FADD.S, FMUL.S and FDIV.S become UNKNOWN and FCVT.W.S and FCVT.S.W are taken for FCVT_D_W
  (`decoder.cpp:110`), where `Readme.md:9` says single precision. FADD.D with a funct7 of 2, which is the addition of halves, is taken for
  FADD_D (`:101`). These values are in `Tolerated`.
* FCVT.D.WU and FCVT.WU.D (rs2 = 1) are taken for the signed FCVT_D_W and FCVT_W_D (`Signed`): the text on a line of the listing names
  the signed conversion, and only the word before it shows the difference. Their rs2 is in `Tolerated` too.
* The text of an UNKNOWN word has "0x" in front of decimal digits (`instruction.cpp:188`).

`Readme.md:95` does say that wrong-path instructions are not undone; that is modelled (they commit) and is
not listed. `Readme.md` reports that the element at `base_addr` is not doubled; `ReadmeResults` agrees, because the loop ends
when the pointer reaches it.

## 6. Theorems

For all sizes, programs, initial states and every `compute_result` that satisfy the named assumptions of
`TomasuloSim`, for all files of bytes (the first two of the decoder have no parameters), and for every width of a word:

| Theorem | Statement |
|---|---|
| `TomasuloProofs!TypeCorrect` | `Spec => []TypeOK` |
| `TomasuloProofs!RingCorrect` | `Spec => []RobIsARing` |
| `StationProofs!StationsCorrect` | `Spec => []StationsServeRob` |
| `StationProofs!UnitsCorrect` | `Spec => []UnitsServeStations` |
| `StationProofs!EntriesCorrect` | `Spec => EntriesProgress` |
| `LsqProofs!LsqCorrect` | `Spec => []LsqMatchesRob` |
| `LsqProofs!LsqReady` | `Spec => []LsqReadyWhenExecuted` |
| `WindowProofs!WindowRefined` | `Spec => RefinesWindow` |
| `RenameProofs!RenameCorrect` | `Spec /\ [](WellFormed /\ RetryUndisturbed) => []RenameTable` |
| `RenameProofs!WakeupCorrect` | `Spec /\ [](WellFormed /\ RetryUndisturbed /\ RetryReadsOthers) => []NoLostWakeup` |
| `RenameProofs!QuiescentCorrect` | `Spec /\ [](WellFormed /\ RetryUndisturbed) => []QuiescentAtEnd` |
| `InOrderProofs!CommitsInOrder` | `Spec /\ []Ordered => ExecutesInOrder` |
| `InOrderProofs!NeverStuckCorrect` | `Spec /\ []Ordered => []NeverStuck` |
| `InOrderProofs!StraightLineCorrect` | `Spec /\ WellFormed /\ StraightLine => [](RenameTable /\ NoLostWakeup /\ QuiescentAtEnd)` |
| `InOrderProofs!StraightLineOrdered` | `Spec /\ WellFormed /\ AllSupported /\ StraightLine /\ LoadsApart => []Ordered` |
| `InOrderProofs!StraightLineInOrder` | `Spec /\ WellFormed /\ AllSupported /\ StraightLine /\ LoadsApart => ExecutesInOrder` |
| `InOrderProofs!CallsKeepTheRing` | `CallsSpec => []RobIsARing` |
| `InOrderProofs!CallsKeepServing` | `CallsSpec => [](StationsServeRob /\ UnitsServeStations /\ LsqMatchesRob /\ LsqReadyWhenExecuted)` |
| `InOrderProofs!CallsLeaveNothing` | `CallsSpec /\ [](WellFormed /\ RetryUndisturbed /\ RetryReadsOthers) => [](RenameTable /\ NoLostWakeup /\ QuiescentAtEnd)` |
| `InOrderProofs!CallsCommitInOrder` | `CallsSpec /\ []Ordered => EachCallInOrder` |
| `InOrderProofs!CallsNeverStuck` | `CallsSpec /\ []Ordered => []NeverStuck` |
| `DecoderProofs!DecodeInvertsEncode` | `\A i \in Encodable : decode_instruction(Encode(i)) = i` |
| `DecoderProofs!DecodedWellFormed` | `\A w \in Word : WellFormedInstruction(decode_instruction(w))` |
| `DecoderProofs!OnlyEncodingsKnown` | `Spec => []KnownWordsAreEncodings` |
| `DecoderProofs!AssembledIsLoaded` | `Spec => []LoadsWhatWasAssembled` |
| `DecoderProofs!ListingIsTrue` | `Spec => []ListingShowsBinary` |
| `DecoderProofs!StatusIsTrue` | `Spec => []StatusTellsTheTruth` |
| `UnitProofs!AluCorrect` | `Spec => []AluMatchesManual` |
| `UnitProofs!ProductsCorrect` | `Spec => []ProductsMatchManual` |
| `UnitProofs!QuotientsCorrect` | `Spec => []QuotientsMatchManual` |
| `UnitProofs!UnitsMeetAssumptions` | the units' `execute` yields a value for values, LUI its second operand, and BNE 1 exactly if its operands differ |

The assumptions: `SizeAssumption`, the ROB, the LSQ, the word and each array have at least one element;
`ValueAssumption`, register numbers are 0..31, zero is a double, the empty optional is not a value;
`ComputeAssumption`, an operation yields a value; `ControlAssumption`, LUI yields its second operand and BNE yields 1 exactly if its operands
differ (the two operations that `ISA` states in its own words); `InputAssumption`, programs are sequences of
instructions, registers and memory hold values. TLC evaluates all five in every run of the core. `UnitsMeetAssumptions` proves
`ComputeAssumption` and `ControlAssumption` of the functional units of every width, which are the `compute_result` of the code; their own
assumption is `WidthAssumption`, a word has at least one bit. The front end has `FileAssumption`, a binary is a
sequence of bytes and a name that does not open is none, and `AssemblyAssumption`, an assembler emits encodable instructions.

**Types and the ring.** Neither of the first two is inductive alone. `TypeOK` needs the head of a ROB that is not empty to be live, and every index a busy
structure uses as a subscript to be in range: a commit releases `lsq[rob[rob_head].lsq_idx]`, which is a slot only
because entries in flight that access memory have one. So the inductive invariant is
`RingInv == TypeOK /\ RobIsARing /\ SubscriptsInRange`. `SubscriptsInRange` is weaker than `LsqMatchesRob`,
`StationsServeRob` and `UnitsServeStations` together, which the `wild` run checks. The proof has one lemma per call of the loop
(`CommitInv`, `LaunchInv`, `AdvanceInv`, `IssueInv`, `BroadcastInv`) and three about the ring: giving back the head
removes exactly the head (`RingShrinks`), taking the tail adds exactly the tail (`RingGrows`), and the slot that
`issue_instruction` writes before it knows whether it will issue is not in flight (`TailIsFree`). The first two rest on
`ModRob`, arithmetic modulo a size that is not a literal.

**Entries, stations, units.** `StationsServeRob` and `UnitsServeStations` are inductive only together: a station is freed when
its unit completes, so that the entry it served is then EXECUTED follows from the unit naming the same entry; and a unit's
station is not freed early because no second unit names that entry. Both need the ring (a new entry's index is not one that a
station still names), so the invariant is `ServeInv == RingInv /\ StationsServeRob /\ UnitsServeStations`. Two lemmas
carry the argument. `LaunchesOneToOne`: `try_launch_to_fu` pairs ready stations and idle units one to one, since members of a
finite set of indices have different ranks (`RankInjective`). `AfterAdvance`: under the invariant every completed unit
delivers, and a station, a unit and an entry leave together. `EntriesCorrect` follows from the
invariant step by step: an entry is launched only from ISSUED because its station was ready, and completed only from EXECUTING
because its unit was busy.

**The load-store queue.** `LsqMatchesRob` places the slot of each load and store by counting the younger ones in flight. It is not
inductive: a slot could be valid for no entry, and then the next access would be given it a second time. `SlotsInv` adds that every valid slot
has its entry. `LsqTailIsFree` is a counting argument: an access whose slot is the one at `lsq_tail` would have
`LSQ_SIZE - 1` younger ones, so with itself the queue would be full. When the head commits, the ages of all the others
shrink by one and only its own slot becomes invalid (`HeadLeaves`, `SlotsRelease`); when an access enters, every other has one younger access
more and `lsq_tail` moves by one (`TailEnters`, `SlotsTake`). `LsqReadyWhenExecuted` needs that a unit which completes an
entry addresses that entry's slot and no other (`AddressedWithEntry`), which follows from the matching of units and entries.

**The window.** Each step of the simulator is one step of the window (a commit is `LeaveWindow`, `Launch` is `Begin`, `Advance` is
`Complete`, `IssueArith` and `IssueMemory` are `EnterWindow`) or leaves it as it is. That the sequence seen through the ring moves as a
sequence does is `WindowMoves`; that it fits is an injection for each capacity (`AtMost`): instructions that access memory into valid slots,
pending ones of a class into its busy stations, executing ones into its busy units (`AccessesFit`, `StationsFit`,
`UnitsFit`), which exist by the invariants above.

**Renaming and wake-up.** These do not hold of every program: section 5 shows a failed attempt to issue that breaks them. The premises say of a run that
the failed attempts do no harm. `RetryUndisturbed`: no branch redirects the fetch while a register is mapped to the entry that the
next attempt will fill. `RetryReadsOthers`: no attempt reads a register mapped so. `WellFormed`: a store has no destination, and a first operand
is of the kind its operation unwraps; `DecodedWellFormed` proves this of every word a binary can hold. Two of the premises are about runs, not
programs, because whether an instruction stalls depends on everything in flight; `StraightLineCorrect` replaces them by a
condition on the program alone, `StraightLine`: no jumps, and an instruction that reads the register it writes is one whose
failed attempts rename nothing (`RenamesOnlyIssued`). It accesses memory, or its array always has a station for it, because fewer than `NUM_RS`
instructions of its class are among the `ROB_SIZE - 1` before it. The proof counts: without jumps the entries in flight are the ones just before the next fetch
(`InARow`), so each busy station of the array serves another of these (`StationsHaveRivals`, an injection), and only an instruction that may have to wait
for a station has a register renamed ahead of it (`RetriesWait`). A program in which every instruction but the memory accesses writes a register it does not read satisfies it
on every machine; with the sizes of `tomasulo_sim.h` so does, for instance, a chain of up to six ALU operations on one register.

`RenameTable` is not inductive. Commit releases the register of the head only if there is a result and a destination, so an
executed entry must have its result and a store no destination (`ResultsArrive`, `StoresWriteNothing`), and the register is released only
if the head is its youngest writer, which then was its only one (`CommitRename`). A register mapped ahead of the issue stays right
only if the next attempt is for the same instruction (`RetryFollows`). With these, `RenameInv` is inductive. `NoLostWakeup` is inductive
relative to it: an instruction that enters takes a tag only of a mapped producer that is in flight, older, and not executed
(`OperandAwaits`); a producer that completes while somebody waits is heard in the same turn (`AdvanceWakeup`); and the broadcast ends the waiting
for whatever it has heard (`BroadcastWakeup`). At the end the ROB is empty, so nothing can be matched with it (`NothingLeft`).

**Program order.** `CommitsInOrder` is the statement that Tomasulo's algorithm works. `RenameTable` and `NoLostWakeup` say who waits for
whom; this is about the values. An instruction in flight *sees*, for a register, the result of the youngest older instruction in flight that
writes it, or the committed value if there is none (`Sees`, `Feeds`). What it sees does not change while others enter, execute and commit
(`ViewSteady`, `ViewAtCommit`: when a writer commits, its result becomes the committed value), and when it is the head it sees the committed
registers. The inductive invariant is `InOrderInv == RenameInv /\ NoLostWakeup /\ ValuesInv`, where `ValuesInv` says that what is seen is what is
held, everywhere a value can be:

* `EntriesHaveCode`: the fields of an entry are those of its instruction;
* `StationsHear`: an operand of a busy station is the value its instruction sees, or the tag of the instruction that feeds it;
* `UnitsHear`, `ExecutedRight`: a busy unit has the operands its instruction sees, and an executed entry has the result, the address and
  the data that these give; a load, the memory at its address;
* `BusTellsResults`: what is on the bus is the result of an executed entry in flight;
* `EntriesFollow`, `FetchAgrees`: the entries in flight are consecutive on the path of the program, and the next fetch continues it.

Then a commit of the head is a step of `ISA` (`HeadCommits`), and every other step leaves registers, memory and the program counter of the
refinement as they are (`ProgramCounterStays`). Each premise in `Ordered` excludes one thing that section 5 shows to break the
conclusion: `LoadsInOrder` the run `store_then_load`, `RetryReadsOthers` and `RetryUndisturbed` the run `self_dependence` and the redirect during a
retry, `BranchesInTime` the run `late_branch`, `Supported` the run `write_x0` and the operations (JALR, AUIPC) whose meaning differs from
the manual's. `Ordered` is a state predicate of a run; `StraightLineOrdered` derives it from conditions on the input alone:
`StraightLine`, and `LoadsApart`, a load behind a store to the same kind of memory has another address. The addresses are known before the run because
nothing in the program writes the two base registers (`Settled`), so whoever reads one sees what it held at the start
(`SettledSeen`, `AddressSettled`). For such programs the premises on the run are themselves invariants (`StraightOrderInv`), and with
`StraightLineInOrder` they execute in order.

**No deadlock.** `NeverStuckCorrect` is the part of termination that is a safety property. It follows from `InOrderInv`. Nobody is older than the
head, so it awaits nobody (`NoLostWakeup`) and its station has the operands it needs (`HeadReady`); an executed head has its
result, or its address and data in the LSQ, so it can commit (`HeadCanCommit`); an empty ROB leaves every station and
every LSQ slot free (`EmptyHasRoom`). That some unit works while the head has not executed needs one inductive step more
(`HeadWorks`): a launch leaves no array with a ready station and only idle units (`IdleUnitsLaunch`). What `Termination` adds is that
a busy unit counts down, and fairness.

**Calls.** A call of `simulate` ends in a state of `Started` whatever came before, but for `cdb_list` and `next_fetch_branch`, of
which the invariants need no more than their types (`LeftOver`): so `LsqStarted`, `RenameStarted` and `InOrderStarted`, the bases of the arguments
for one call, are also their steps for `CallAgain`, and the theorems on calls follow from the same inductive invariants. In
`CallsCommitInOrder` the premise stays with the run, because a call that begins where the last one stopped (`second_call`) may
have nothing to execute or start in the middle; what it commits, it commits in order from there. That it begins exactly there is part of the
statement: an ended call has an empty ROB (`CallsOrderEnded`), so the program counter of the refinement is the fetch index, which `CallAgain` keeps. And
it never waits for itself (`CallsNeverStuck`).

**Decoder.** `DecodeInvertsEncode` is proved format by format: a lemma per immediate (`decode_imm_i`, `_s`, `_b`, `_u`) says that cutting
a number of its range into the fields of the format and putting them back together gives the number, then each operation follows
by its opcode and funct. TLC checks it for chosen immediates (`binaries`), the proof is for all of them. The other direction,
`KnownIsEncoding`, goes by the opcode of the word: the fields that select the operation are those of its encoding (`SelectedBy`), up to the values in `Tolerated` (`ToleratedFields`); the pieces of the
immediate that was put together are the fields again (`PiecesI`, `PiecesB`, `PiecesU`, ...), and a word that nothing selects is UNKNOWN.

**Front end.** `FrontInv` says for every stage how far it has come: what is loaded is a prefix of the file, word by word, each with its decoding
(`PrefixLoaded`), what is listed is a prefix of what is loaded (`PrefixListed`), and `i` is the length of the one being built (`StageReached`). At the exit,
the status is 0 exactly if everything is loaded and listed or simulated (`Success`). The
four properties follow from it. `LoadedBytes`: the loader puts the four bytes of a word together again (`BytesLoadBack`), so a word whose bytes
encode an instruction is decoded to it, by `DecodeInvertsEncode`. `KnownIsEncoding`. `TextIsWritten`: the text of an encodable instruction is the one
the manual writes. `TextReadBack`: a word with the text of an instruction encodes it, up to the tolerated values, because such a word is not
UNKNOWN and the texts of two encodable instructions differ (`EncodableReadBack`). `NumInst`: the count of words leaves at most three bytes.

**Units.** The functions of `FunctionalUnits` are compared with the manual for words of every `WIDTH`. Powers of two and numbers made of bits are
recursive functions, so their equations need an induction: over sets of naturals, from the least element of a set
(`LeastNumber`, `SetInduction`, `Recursion`), since the library's induction theorems take an operator. `FromBitsCorrect` says that a number has the bits it is
made of; the bitwise operations follow (`BitwiseCorrect`), and the shifts move bits (`BitShiftedLeft`, `BitShiftedRight`). Sums, products and their upper
words are compared by congruence (`SameWord`, `HighWord`, `SignedProducts`), quotients by the equation of division and its uniqueness
(`Truncation`, `SignedQuotients`, `UnsignedQuotients`). The invariant `UnitInv` says that an issued operation has operands of its types and a finished
one the result that `execute` gives for them. `UnitsMeetAssumptions` connects the units with the core, which has `compute_result` as a constant.

**Only model-checked.** Liveness (`Termination`, `EveryCallReturns`, and the fairness half of `RefinesISA`) is out of the prover's
reach; `ReadmeResults`, a statement about one program, is checked by TLC. Every other property of a passing run is a theorem.

## 7. Not modelled

* `print_cycle_state`: text, printed from the state and read by nobody.
* The scripts: `Makefile`s and the assembly of test programs; of the test programs, `simple_test.bin` is what a run decodes.
* Rounding and the bits of doubles: a double is a small natural number or NaN. `units` compares no double operation
  with the manual for that reason.
* The trap of the host's division inside the core: no program of the core's runs has a DIV or a REM; `units` has the trap.
* MULH, MULHSU, MULHU, DIVU, REMU, FEQ, FLT, FLE: units compute them (`units`), the decoder never returns them.
* A call of `simulate` after one that threw: `main` exits then.
* Addresses of different accesses that overlap partly: the code keeps one value per address and kind.
* In a listing, how a register or a number is spelt, and its spaces.

## 8. Plan

Done: everything in section 2, and a theorem for every safety property of the core, the units and the front end that a passing run
checks, `ReadmeResults` apart.
What is left:

1. A condition on the program alone that implies `Ordered` and allows branches, as `StraightLineOrdered` has one without jumps. That a branch has its
   operands when it issues is not enough: there are more ALU stations than ALUs, so a ready branch may wait for a unit while its
   successors are fetched. The condition has to count the instructions of its class, as `RenamesOnlyIssued` does.
2. `LoadsApart` for base registers that the program writes: the addresses then depend on values computed on the way.
3. Liveness, when a prover supports it: `NeverStuckCorrect` and a count of the cycles left in the busy units are what it needs.
