# Northstar64: a TLA+ verification project

Northstar64 is a deterministic interpreter for RV64I with Zicsr, machine, supervisor and user
modes and Sv39 address translation. It is one thread and one hart with no interrupts; what makes
it hard is not concurrency but long sequences of legal steps: traps that nest over two register
banks in one `mstatus`, views of registers that open and close with `mideleg`, programs that edit
the page tables and the code they run under, and steps that fail half way.

The modules in this directory model that behaviour, TLC checks them on small instances, and TLAPS
proves all that the passing runs check but liveness, for every value of the constants: all
programs, instruction words, memories, files, devices and traces. `PROJECT.json` lists every run,
mutant, theorem and hazard, and maps each definition to the source lines it stands for.

## The system

| Component | State | Operations | Interacts with |
|---|---|---|---|
| CSR file (`csr.cpp`, `csr.hpp`, `privilege.hpp`) | twenty 64-bit registers | `read`, `write`, `enter_trap`, `return_from_trap`, `tick_cycle`, `retire_instruction`, `reset` | called by the CPU, which owns the privilege |
| Sv39 walker (`sv39.cpp`) | none | `walk_sv39` | reads page-table entries through the bus |
| CPU (`cpu.cpp`) | registers, pc, privilege, CSR file, sequence number, halt state, terminal trap | `step`, `run`, `reset` | walker, bus, decoder, trace sink |
| Decoder (`decode.cpp`) | none | `decode`, `disassemble` | called by the CPU |
| Bus and devices (`memory.cpp`, `uart.cpp`) | device list; sparse pages; transmitted bytes | `add_device`, `read`, `write`, `write_bytes`, `image_range_is_valid`, `clear`, UART registers | CPU, walker, loader |
| ELF loader (`elf.cpp`) | none | `inspect_elf`, `load_elf` | writes RAM through the bus |
| Machine (`machine.cpp`) | owns bus, RAM, UART, CPU | `load`, `run` | composes all of the above |
| Trace (`trace.cpp`) | output file | `append`, `flush`, `compare_trace_files` | sink of `Cpu::run` |
| Command line (`main.cpp`) | none | `run`, `inspect`, `decode`, `verify-trace` | Machine, Trace |
| Isolation guest (`tests/integration/isolation.S`) | page tables, trap frame | an M, S and U program | runs on the CPU |

What makes each correct:

- CSR file: no write, trap or return leaves a reserved encoding; a return goes back to what was
  interrupted; lower modes neither change nor see what M mode owns.
- Walker: user and supervisor pages are separate; rights are ordered; pages map as wholes; a walk
  never grants user mode a frame that no reachable user entry names.
- CPU: traps are precise; privilege is gained only through an installed handler; the counters
  count exactly; the step record agrees with the state; user programs stay in their frames.
- Bus: each address belongs to at most one device; sparse pages behave as flat memory.
- Decoder: exactly the advertised encodings are accepted, and no operand bit is lost.
- Loader and machine: a load depends on the file alone; validation covers every byte written;
  segments do not overlap; a rejected image changes nothing (it does, see the finding below).
- Run loop and trace: a run ends, reports why, and its trace is the steps it took.

The hard behaviours are listed as hazards in `PROJECT.json`, each at its line.

## The modules

| Module | Models |
|---|---|
| `Words` | 64-bit words as sets of bit positions, at full width, so that the masks of the C++ code carry over literally |
| `Csr` | `csr.cpp` as operators on a register file |
| `CsrFile` | the CSR file as an object: any sequence of its calls, with the caller's privilege |
| `PhysicalBus` | RAM and UART of the default memory map as the CPU and the walker see them |
| `BusRanges` | the bus's address arithmetic: containment, overlap, lookup, image ranges |
| `Devices` | `Bus::add_device`, for any devices in any order |
| `FlatRam` | what a RAM promises: bytes that hold what was last written |
| `SparseRam` | the map of lazily allocated pages, shown to implement `FlatRam` |
| `Sv39` | `walk_sv39`, and the frames user mode may use stated without a walk |
| `AddressSpace` | page tables edited one entry at a time, and what they then allow |
| `Decode` | `decode()` and its helpers on 32-bit words |
| `Encoding` | the instruction encodings, instruction to word: the reference for `Decode` |
| `InstructionWords` | words that change bit by bit, and what the decoder makes of them |
| `Alu` | arithmetic, comparisons and branches of `Cpu::execute` |
| `Cpu` | `Cpu::step` and `Cpu::reset`, composing `Csr`, `Sv39`, `PhysicalBus` and `Alu` |
| `Trace` | trace files as text, and `compare_trace_files` |
| `RunLoop` | `Cpu::run` with its trace and the run command's exit status, composing `Cpu` and `Trace` |
| `Elf` | the checks of `parse` and `load_elf`, and what a load writes |
| `Machine` | `Machine::load` again and again, with the guest running in between, composing `Elf` and the bus of `Devices` |
| `Programs` | guest programs as machine words, put together by `Encoding` and read by `Decode` |
| `MCCsrFile`, `MCAddressSpace`, `MCCpu`, `MCRunLoop`, `MCMachine` | the instances for TLC; `Devices`, `SparseRam` and `InstructionWords` need none |
| `HartLemmas` | lemmas about the operators the hart is built from: words, `Csr`, `PhysicalBus` and the walk |
| `CsrFileProofs`, `AddressSpaceProofs`, `SparseRamProofs`, `CpuProofs` | the theorems about the module of that name |
| `DecodeProofs` | `Decode` agrees with `Encoding` on every word |
| `MachineProofs` | the theorems about the bus (`BusRanges`, `Devices`) and, on top of them, `Machine` |
| `RunLoopProofs` | the theorems about `RunLoop` and the text of `Trace`, on top of `CpuProofs` |

State and actions follow the code. A C++ member keeps its name (`registers_` is `registers`). An
`std::optional` is a set of at most one element, and so is the result of `decode`, with the empty
set for a `DecodeError`.

**The hart.** A step is one action, since nothing can run between its parts: `StepHalted`,
`StepFetchTrap` or `StepInstruction`, whose disjuncts are the cases of the switch in
`Cpu::execute`. The step's effects on the CSR file compose in code order: the tick, then the
instruction or the trap, then the retirement. `EnterTrap` in `Cpu` is `raise_trap` with the whole
of `CsrFile::enter_trap` in it; each instruction says itself what it has written when it raises a
trap, so that `PreciseTraps` is about the order of checks and writes in `Cpu::execute`. `Cpu`
takes its decoder as a constant, a table from words to decoded instructions; in the instances that
table is what `Decode` says of the words the programs consist of, or leave behind when they
overwrite themselves. Operations have their assembler names,
with `fence_i` and `sfence_vma` for FENCE.I and SFENCE.VMA. Of `CpuConfig` only `trap_policy` is a
variable: it is chosen when the hart is made and never changes.

**The CSR file.** `CsrFile` has two history variables, `sframe` and `mframe`: the interrupted
context (pc, privilege, interrupt enable) that a bank holds since its last trap, until a return
uses it or software writes one of the registers it is stored in.

**Memory.** The bus ranges are integers up to `MaxAddress` with explicit wrapping, because what is
at stake is the top of the address space. `Devices` has the registry `devices_` and `add_device`;
its specification of the bus alone is `BusSpec`, and `Machine` shares the variable. `SparseRam`
keeps `pages_` and the last call with its result; mapping a byte to what `read_byte` finds for it
turns each of its actions into the action of `FlatRam` with the same arguments and the same answer.

**Loading.** A file is a record of what `parse` reads of it, `header_ok` standing for the checks on
the header bytes. `std::sort` leaves the order of equal addresses open, so `SortedSegments` is the
set of orders that can result. `Machine::load` is two actions, `Load` when `load_elf` returns and
`LoadThrows` when it throws after RAM and the transmit log have been cleared. The CPU is seen from
outside there.

**Running.** `RunLoop` adds to the hart the loop of `Cpu::run`, the trace and the end of
`run_command`. A failing stream is a fault the code handles: it may show at opening (`OpenFails`),
at an append (the second disjunct of `RunStep`, when the step has been taken already) or at the
flush (`FlushFails`), and leaves any beginning of the text in the file. A line of the trace has an
opening all lines share and a rest that tells records apart, so that a file can end before, inside
and just after a line. The lines `std::getline` reads lie between the stops of a text: its start,
its newlines, and its end if no newline is there.

Abstractions: error texts, assembly text and `halt_detail` are left out. RAM is the set of its one
bits in `Cpu`, a function from addresses to bytes in `Machine`. The walker's result drops
`pte_address`.

Some modules hold definitions called `name_slip` right before `name`: `name` with a plausible
slip in it, unused, put in its place to see that a property notices. `PROJECT.json` lists them
under `mutants`.

## The runs

| Run | Instance | Checks |
|---|---|---|
| `csr_file` | 6 calls between resets; writes of all ones, zero, reserved MPP and reserved satp modes to 16 CSRs; causes 8 (delegatable) and 11 (not) | `TypeOK`, `WarlInv`, `MprvOnlyInMachine`, `FramesRestored`, `NoMachineLeak`, `SupervisorConfinement` |
| `address_space` | three tables with one editable slot each, 12 entry values: pointers to each table, giga-, mega- and 4K leaves, partial rights, reserved encodings | `TypeOK`, `UserSupervisorDisjoint`, `SumGivesUserRights`, `RightsOrdered`, `WholePages`, `UserStoresStayInUserFrames` |
| `cpu_modes` | all 3-instruction programs over 12 instructions (traps, returns, CSR accesses), each privilege, with and without delegation, Vector policy, 5 steps | `TypeOK`, `LegalState`, `RecordTruthful`, `PreciseTraps`, `PrivilegeGate`, `MachineConfinement`, `CountersExact` |
| `cpu_memory` | all 3-instruction programs over 16 instructions (loads, stores, jumps, branches), M mode, Halt policy, aligned and misaligned reset entries, 5 steps | `RecordTruthful`, `PreciseTraps`, `PcStaysAligned` |
| `cpu_paged` | all 3-instruction programs over 10 instructions under Sv39 from U and S mode, three page-table variants, 6 steps | `UserConfinement` |
| `decode` | each of the 63 operations with its operand bits clear and set, and all words within two bit flips of these | `OperationExact`, `OperandsExact` |
| `devices` | every pair of devices in a 4-bit address space, all addresses, widths and image sizes | `OneOwner`, `FindExact`, `ImageRangeExact` |
| `sparse_ram` | 5 bytes in pages of 2, so the last page is cut; offsets up to 6, widths 1, 2, 4 and 8 | `TypeOK`, `FlatSpec` (the refinement) |
| `machine` | RAM up to the top of a 3-bit address space, or just below the UART; 459 files of one or two segments, bad ones included | `FreshAfterLoad`, `ValidatedWritesSucceed`, `OverlapOnlyAtTop` |
| `machine_rejected_load` | the same | `RejectedLoadKeepsMemory`, violated: see below |
| `run_loop` | all 2-instruction programs over 6 instructions, trap vector at the second one or at unmapped 0; both trap policies; limits 0, 1, 3; two runs; with and without a trace that may fail anywhere | `TraceIsExecution`, `ResultMatchesTrace`, `ExitTruthful`, `TruncationFound`, `RunEnds` |
| `verify_newline` | the same, Halt policy | `VerifiedIsIdentical`, violated: see below |

All pass except `machine_rejected_load` and `verify_newline`, whose violations are the result. The comment above each
property says what it states and which code it is about.

**The findings.** `docs/architecture.md:105` promises "Failed ELF validation does not modify guest
memory." `load_elf` keeps to that, and its comment says so, but `Machine::load` clears RAM and the
UART log first (`machine.cpp:10`). TLC's trace is two calls long: load a file, load one that is
rejected. RAM is then zero while the CPU, which has not been reset, still points into the first
program.

`verify-trace` prints "traces are byte-for-byte identical" (`main.cpp:83`, shown in `README.md:72`),
and ADR 0003 decides to "Compare traces as byte streams". `compare_trace_files` compares what
`getline` yields, and that is the same line with or without its newline. TLC's trace is one run
whose write fails with all but the last newline on disk: the file is a byte short and passes. Every
other cut is found, and at the right line (`TruncationFound`).

Smaller things the models had to state exactly. Segments are disjoint except where one reaches the
last address: there `load_address + memory_size` wraps to 0 and the overlap test sees nothing
(`OverlapOnlyAtTop`); RAM in the default map ends far below. A misaligned entry is saved in xepc
rounded down, and the faulting pc is in xtval only (`PreciseTraps`). `retired_instructions` is the
guest-writable `minstret` since reset, not the count of the run (`ResultMatchesTrace` holds for
programs that leave the counter alone). When an empty segment has
the address of another one, the file is accepted if `std::sort` puts the empty one first and
rejected otherwise; the model allows both orders, and what the properties say of an accepted file
holds in either.

**Bounds.** Six CSR calls suffice to set up delegation, leave M mode, trap into S, trap into M on
top of it, and return from both. Three table slots give every chain of a three-level walk, loops
included. In the CPU runs a trap vectors into the second or third instruction of the same program,
so five or six steps contain a trap, its handler, a trap in the handler, and the return; stores
into the code and into the page tables are among the instructions. Two devices are enough for
registry and lookup, whose conditions speak of pairs. Four-byte writes span three of the two-byte
pages. Two segments in either file order meet the neighbour test in all its cases. Two runs show
what a second one inherits. `MaxCalls`, `MaxSteps`, `MaxOutput`, `MaxDevices`, `MaxRuns` and
`MaxFlips` bound the calls, the steps between two resets or loads, the bytes sent, the devices, the
runs and the flipped bits. In the run loop `MaxSteps` is the most the runs can use, so the bound
never stops a run before its own limit does.

Deadlock is checked except where the system does stop: the run command exits, and the word of
`decode` has no more bits to flip.

The starting states of the CPU runs are reset harts configured through `set_reg`, `set_pc`,
`set_privilege` and `csrs().write`, the way the unit tests prepare theirs.

**Fairness.** Only `RunSpec` assumes any: weak fairness of `RunStep` and of `RunReturn`. Both are
the `while` loop of `Cpu::run` on the caller's own thread; no step blocks or waits, so as long as
the loop can go on it does. Nothing is assumed of who starts a run or ends the command, nor of the
stream: it may fail or not. Under this fairness every run ends, also one whose guest never retires
an instruction.

## The proofs

| Module | Theorem | Statement |
|---|---|---|
| `CsrFileProofs` | `CsrFileTyping`, `CsrFileWarl`, `CsrFileMprv`, `CsrFileFrames`, `CsrFileNoLeak` | `[]TypeOK`, `[]WarlInv`, `[]MprvOnlyInMachine`, `[]FramesRestored`, `[]NoMachineLeak` |
| | `CsrFileConfinement` | `SupervisorConfinement` |
| `AddressSpaceProofs` | `AddressSpaceTyping`, `UserSupervisorDisjointHolds`, `SumGivesUserRightsHolds`, `RightsOrderedHolds`, `WholePagesHolds`, `UserStoresConfined` | the six invariants of `AddressSpace` |
| `SparseRamProofs` | `TypeCorrect`, `ImplementsFlatRam` | `[]TypeOK`; `Spec => FlatSpec`, the refinement |
| `MachineProofs` | `RegistryKept` | `BusSpec => []Registry(devices)`, the inductive invariant of the bus |
| | `OneOwnerHolds`, `FindExactHolds`, `ImageRangeExactHolds` | the three invariants of `Devices` |
| | `MachineInvHolds` | `[]MachineInv`, the inductive invariant |
| | `FreshAfterLoadHolds`, `ValidatedWritesSucceedHolds`, `OverlapOnlyAtTopHolds` | the three invariants of `Machine` |
| | `MachineBusCorrect` | the three invariants of `Devices`, for the bus inside a machine |
| `DecodeProofs` | `OperationsDecoded`, `OperandsDecoded` | `[]OperationExact`, `[]OperandsExact` |
| | `DecodeUnambiguous` | a word decodes to at most one instruction |
| `CpuProofs` | `HartInvHolds` | `[]HartInv`, the inductive invariant |
| | `HartTyping`, `LegalStateHolds`, `RecordTruthfulHolds` | `[]TypeOK`, `[]LegalState`, `[]RecordTruthful` |
| | `PcAlignmentKept`, `TrapsArePrecise`, `PrivilegeGated`, `MachineConfined`, `CountersAreExact`, `UserConfined` | the six action properties of `Cpu` |
| `RunLoopProofs` | `RunInvHolds` | `[]RunInv`, the inductive invariant of the run loop |
| | `TraceIsExecutionHolds`, `ExitTruthfulHolds`, `TruncationFoundHolds` | `[]TraceIsExecution`, `[]ExitTruthful`, `[]TruncationFound` |
| | `ResultFollowsTraceHolds` | `[]ResultFollowsTrace`: reason, steps and trap of a result are the trace's |
| | `RetiredCounted` | `minstret` counts the retired records, modulo 2^64 |
| | `ResultMatchesTraceHolds` | `[]ResultMatchesTrace` |
| | `RunImplementsHart` | `RunSpec => Spec`: a run is an execution of the hart |

### Assumptions

The theorems rest on the named assumptions about constants and on nothing else; TLC evaluates each
of them in a run.

- `CsrFile`: writes are pairs of a CSR name and a word, causes are below 16, trap pcs and values
  are words, the bound on calls is a number.
- `AddressSpace`: entries are words in aligned slots of RAM; the root is a page number.
- `BusRanges`, `Devices`: the last address and the bound on devices are numbers, the former
  positive. `MaxAddress` need not be of the form 2^n - 1.
- `SparseRam`: sizes and page sizes are positive, 0 is a byte.
- `Elf`, `Machine`: configurations and files have their types, a fill value is not 0.
- `Cpu`: words of the decoder table have 32 bits and its values are instructions, nothing more: the
  theorems hold for any decoder, hence for `decode`. The boot states have x0 zero and legal CSRs,
  which is what `reset` and CSR writes produce.
- `RunLoop`: the limits and the bound on runs are numbers.
- `InstructionWords`: the bound on flipped bits is a number. With 32 flips every word is reached;
  the lemma behind the theorems, `WordExact`, is about words directly.

Two theorems have hypotheses of their own, as what they say is false without them. `RetiredCounted`
and `ResultMatchesTraceHolds` need a program space without a write to `minstret`
(`"minstret" \notin WrittenCsrs`), because a guest in M mode may set the counter. The second also
needs `minstret` to be 0 at the start, as after `reset`, and fewer than 256 steps, since
`ResultMatchesTrace` writes the count with `NatWord`, which reaches that far; `RetiredCounted` has
neither limit. The instance of `run_loop` meets all three.

Bounds such as `MaxSteps` are constants too, so the other theorems hold for runs of any length.

### The arguments

**CSR file.** `HartLemmas` has one lemma per operator of `Csr`: what `WriteCsr`, `EnterTrapCsrs`
and `return_from_trap` preserve of type and of `Warl`, and which CSRs can be written below M mode.
`TypeOK` is inductive by itself. `WarlInv` needs `TypeOK`, as masks speak about words.
`MprvOnlyInMachine` needs that no CSR writable below M mode reaches bit 17. `FramesRestored` is
inductive with `TypeOK`: what a return leaves in xIE is what the bank saved in xPIE
(`EnableRestored`), and the frame lemmas show that a trap into one bank and a return from the other
leave the fields `Restores` depends on alone. Confinement is a step property from `TypeOK`; the
absence of leaks holds in every well-typed state.

**Address space.** A walk of three levels is unfolded once, in two lemmas. `WalkSame`: two walks of
an address from one root meet the same entries, so the second finds the first one's leaf or faults
at it; with it the three properties that compare privileges or accesses are facts about the verdict
on one entry. `WalkGrants`: what a user walk translates is named by a user entry of a reachable
table. `WholePages` needs besides that bits below the leaf's page size select no entry.

**Bus.** `Registry` says devices are well formed, sorted by base and pairwise disjoint.
`add_device` keeps it: the overlap test, done with inclusive limits, is exact for ranges that do
not wrap, and the insertion keeps the order. That a lookup finds the one owner, or that an image
range lies in one device, follows from `Registry` by arithmetic.

**Sparse RAM.** The refinement needs no invariant: each action maps to the action of `FlatRam` with
the same arguments in any state, by `WriteThenRead` (what `read_byte` finds after a write that
allocates pages) and `RangeCheck` (`in_range`, which avoids the overflow, is the plain sum).

**Machine.** `MachineInv` joins the registry, that image-accepting addresses are RAM, that what is
loaded passed validation, and `FreshAfterLoad`. `SegmentOwner` turns validation into a device that
owns all bytes of a segment, so no write can fault. As the registry is part of it, what is proved
of the bus alone carries over (`MachineBusCorrect`). For overlaps the file order is irrelevant:
`SortedFacts` gives the order by address, and where no end wraps, disjoint neighbours are disjoint
altogether.

**Decoder.** `Decode` goes from bits to fields to nested switches; `Encoding` is a table of 63
rows, each with the bits it fixes. `RowMatches` reduces "the word matches the row" to equalities
between fields of the word read as numbers, which is what the switches compare. One lemma per
opcode shows that the switch finds exactly the rows of that opcode, and `DecodeExact` puts them
together: an operation is decoded exactly when its row matches. For the operands
`ImmediateAssembled` shows, for each format, that the bits `immediate_i` to `immediate_j` move are
those of the encoding, and `EncodeDecoded` that encoding the result gives the word again, but for
bits the format ignores. The only state invariant needed is that the word has 32 bits.

**Hart.** `StepShape` is the centre: each step of a running hart, whatever the instruction, either
enters a trap from the state with the cycle ticked and nothing written, or completes with a described change of
registers, CSRs, memory and pc. It has a lemma per instruction class (`AluShape` to `StoreShape`),
resting on `TranslateFacts` and `AccessFacts` for memory. Everything else is proved from the two
shapes and not from the switch. `HartInv` is `TypeOK`, `LegalState`, `RecordTruthful` and
`StoppedAtTrap` (a hart with a terminal trap is halted, at the trap's pc), which `RecordTruthful`
needs because a step of a halted hart reports that trap again. The six action properties follow
from `HartInv` and the two shapes. `UserConfined` combines the shape of a memory access with
`WalkGrants`.

**Run loop.** `RunInv` adds to `HartInv`, `TraceIsExecution` and `ExitTruthful` that the trace's
last record agrees with the hart on halting and its trap (`LastRecord`), that a result is the one
the present state gives, with the loop at its end (`ResultCurrent`), and that only a command that
has ended has an exit status (`ExitLast`). `RunImplementsHart` shows that every action of the loop
is a step of the hart or leaves it alone, so the hart's theorems hold during runs too.

The count of retired instructions is one more invariant on top, `Counted`: `minstret` is the entry
of a table of successive increments at the number of retired records. `StepShape` records which
CSRs an instruction can write, so a step changes `minstret` only by retiring. `NatWordNext`, binary
increment bit by bit, makes the numbers below 256 such a table.

**Trace files.** `OnDisk` (a file is a beginning of the text) is invariant. The text has three
pieces for each record (`TextPieces`), so the stops of a cut text are known (`CutStops`);
`RankedStops` shows that counting finds the k-th of them, `CutLines` that the lines between them
are those of the records but for a last one with only its opening, and `CutFound` compares. The
one cut without a difference, that of the last newline, is outside `TruncationFound`.

### Only model-checked

- `RunEnds`: liveness under fairness is out of the prover's reach.
- That the instances' programs are what `decode` makes of their words (`Programs`): the theorems
  about the hart hold for any decoder table, those about the decoder for any word.

`RejectedLoadKeepsMemory` and `VerifiedIsIdentical` are false of the code and have no theorem.

## Plan

Every component but those under "Not modelled" has its module, and every invariant and action
property of a passing run is proved. A change to the code should start at the definition `PROJECT.json` maps to the lines it touches; its
runs and then its proof module tell what still holds. Open: a proof of `RunEnds`, which
needs a prover for fairness.

## Not modelled

- The isolation guest (`tests/integration/isolation.S`): a test program, one long execution that
  the integration test compares with a recorded transcript. The machine it runs on is modelled,
  and what it demonstrates (user faults handled, user mode confined) is checked for all short
  programs in `cpu_modes` and `cpu_paged`.
- ELF header bytes, JSON and disassembly text, option parsing and printing: data layout and wording.
- Host memory exhaustion, and I/O errors other than those of the trace stream: outside the
  program's own logic.
- PMP, interrupt delivery, floating point and compressed instructions do not exist in the code.
