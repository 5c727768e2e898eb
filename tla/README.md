# TLA+ verification of the RISC-V virtual platform

This directory holds TLA+ specifications of the core logic of the RISC-V
virtual platform, TLC configurations that check them on small instances, and
proofs that the TLA+ proof system checks for all instances. Paths below are
relative to the repository. There are three groups of modules: the six-stage
RV64 core `CPURV64P6_Cycle` with its store buffer and MMU, the instruction set as
the different cores implement it, and the core among its devices.

## The system

The platform is a SystemC simulation. One *hart* (several alternative CPU
models, one chosen at build or start time) fetches from and writes to memory
through the bus controller; devices sit on the same bus and raise interrupt
lines that the hart samples at every clock edge.

| Part | State | Operations | Talks to |
|---|---|---|---|
| six-stage core (`src/CPU_P64_6_Cycle.cpp`) | latches between PCGen, Fetch, ID, Issue, EX; fetch queue; stall and flush flags; functional units; trap flags | one pass over interrupt check, Commit, EX, Issue, ID, Fetch, PCGen per cycle | everything below |
| scoreboard (`inc/Scoreboard.h`) | ring of entries, `rd_clobber`, `fp_clobber` | allocate, complete, retire, two flushes | Issue, EX, Commit |
| store buffer (`inc/StoreBuffer.h`) | speculative and committed ring | add_store, commit_store, drain_one, forward_load, invalidate_address, two flushes | EX, Commit, memory |
| CSR file (`inc/CSR_File.h`) | privilege, trap CSRs, counters, PMP | read, write, take_exception, take_interrupt, MRET, SRET | EX, interrupt check, MMU |
| MMU, TLBs (`inc/MMU.h`, `inc/TLB.h`) | ITLB, DTLB, LRU clocks | translate (with walk), sfence_vma, flush_all | Fetch, EX, memory |
| L1 caches (`inc/Cache.h`) | tags, replacement state | access | Fetch, EX (latency only) |
| CLINT, PLIC, UART, DMA (`inc/*.h`) | registers, pending bits, FIFO | bus accesses, timer tick, stdin thread, transfer | interrupt lines, bus |
| AXI contention model (`inc/axi`, `src/axi`) | two refill masters, slave | request, done, ack | Fetch, EX in the AXI build |
| two-stage cores, six-stage RV32 core | simpler pipelines | one instruction per step or cycle | bus |
| instruction sets (`inc/*_extension.h`, `inc/BASE_ISA.h`) | registers | decode and execute | the cores |

What is hard here: the stages of one cycle run one after the other in reverse
order and communicate through latches and flags, some of which are read before
and some after they change; units finish out of order; stores wait in two queues
while younger loads look through them; branches, exceptions, interrupts, illegal
instructions and fetch faults each drop what is in flight in their own way. Tests
run programs; they meet few of the alignments of these events.

What makes each part correct:

* store buffer: loads see the youngest older store, memory changes in program
  order and only by stores that retire;
* scoreboard and operands: an operand is the result of the youngest older
  writer; clobbers name live producers;
* core: it implements the sequential machine of the instruction set, with
  precise traps; every unit serves a live entry; effects happen once; it never
  stops and never hangs;
* MMU: a page that was fenced since it last changed is translated as the page
  tables and the current mode have it, whatever the TLBs hold;
* instruction set: the cores agree on every instruction, immediates are decoded
  bit by bit as they were assembled, division and reservations follow their
  definitions;
* CSR file: traps save and returns restore the mode they interrupt; a guest below
  machine mode does not change machine state;
* devices: input is served in order, output and timers go on, no timer interrupt
  comes early, a transfer that is reported done has been done.

## Modules

| Module | Models | Extends / uses |
|---|---|---|
| `MemAccess` | byte addresses, accesses, overlap | |
| `Ring` | head/tail/count rings and their coherence | |
| `StoreQueue` | abstract specification: stores in program order in front of memory | `MemAccess` |
| `StoreBuffer` | `inc/StoreBuffer.h`, slot by slot, with memory | `MemAccess`, `Ring`, refines `StoreQueue` |
| `Unbuffered` | misaligned and FP stores that go past the buffer | `StoreBuffer` |
| `RingProofs`, `StoreBufferProofs` | lemmas on rings; theorems on the store buffer | TLAPS |
| `Scoreboard` | `inc/Scoreboard.h` as operators on a record | `Ring` |
| `Operands` | register values from Issue to Commit | `Scoreboard` |
| `ScoreboardProofs`, `OperandsProofs` | lemmas on the scoreboard's operations; theorems on operands | `RingProofs`, TLAPS |
| `Code` | the program: kind, size and target per address, environment events | |
| `Machine` | abstract specification: the sequential machine with traps | `Code` |
| `PipelineState` | members of `CPURV64P6_Cycle`, initial state | `Code`, `Scoreboard` |
| `Frontend` | latch transfer, ID, Fetch, PCGen | `PipelineState` |
| `Backend` | interrupt check, Commit, EX, Issue | `PipelineState` |
| `Pipeline` | the cycle, and its properties | both, refines `Machine` |
| `PipelineProofs` | theorems on the pipeline | `Pipeline`, `ScoreboardProofs` |
| `PipelineRefinement` | the pipeline implements `Machine` | `PipelineProofs` |
| `Mmu` | `inc/MMU.h`, `inc/TLB.h`: walk, two TLBs, fences | |
| `MmuProofs` | theorems on the TLBs | `Mmu`, TLAPS |
| `Words`, `Encoding` | arithmetic at a width; fields and immediates of instruction words | |
| `Hart` | `inc/Registers.h`, memory interface, `RaiseException` | both |
| `BaseIsa`, `CompressedIsa`, `MulDiv`, `Atomics` | decoders and Exec functions of `inc/BASE_ISA.h`, `inc/C_extension.h`, `inc/M_extension.h`, `inc/A_extension.h` | `Hart` |
| `SimpleCore`, `TwoStage` | one instruction on `CPURV64Simple` and on `CPURV64P2` | the four above |
| `SixStageIsa` | ID and EX of `CPURV64P6_Cycle`: fields, results, addresses | `SimpleCore` |
| `Isa` | the three cores in lockstep | all of these |
| `CsrFile` | `inc/CSR_File.h`: masks, traps, returns, interrupt choice | |
| `Clint`, `Plic`, `Uart`, `Dma` | the devices, as operators on records | |
| `Platform` | hart, CSR file, devices, posted stores, stdin thread, guest software | all of these |
| `PlatformProofs` | theorems on the hart, the timer, the console and the DMA engine | `Platform`, TLAPS |
| `MCStoreBuffer`, `MCOperands`, `MCPipeline`, `MCMmu`, `MCIsa`, `MCPlatform` | programs, instruction words, page tables, latencies and symmetry for TLC | |

Definitions whose comment starts with "Fault" are not part of any behaviour.
They are plausible wrong versions of the definition that follows them; put in
its place they must make TLC report the property they are listed with, which
shows that the property depends on the code it is about.

### Store buffer

The variables are the private members of the class plus `memory`, a function
from addresses to bytes. A store carries its data as a model value; the byte of
a store at an address is the pair of the data and the position, so that
forwarding with the wrong shift is visible. Actions are the member functions.
`direct_write` is what EX does for an atomic: write memory, then
`invalidate_address`. The refinement mapping to `StoreQueue` reads the
speculative ring from head to tail as the pending queue, and memory with the
committed ring applied as architectural memory; `add_store` implements Execute,
`commit_store` Retire, the flushes Squash, `direct_write` Atomic, and
`drain_one` is a stutter.

### Operands

Every instruction has a class by the way its result travels: integer results
wait in the scoreboard entry until Commit; FP results are written to the FP file
in EX; conversions and compares write the integer file in EX. `arch` records
what the retired program has left in the registers, and `work` what each entry
will compute. Which instruction comes next and which unit finishes next is open.

### Pipeline

One step of the model is one stage of one cycle (`stage` says which), so every
read of a latch or flag sees what the code's order lets it see. Kept: all
latches, the fetch queue, all stall and flush flags, the scoreboard, every
unit's countdown, both store queues, the trap flags, WFI, and the early returns
of every stage. Abstracted:

* operand values, to "some source may not be ready" (`OperandStall`), which also
  covers the one-cycle stalls after shifts and CSR writes;
* the registers tainted by loads, to "a base register may come from a load" (event
  `load_addr`). The bubble it costs is kept: `AddressBubble` holds Issue for
  `load_addr_penalty` cycles, once per instruction and again only after another load
  has completed (`address_paid`), with EX empty too; `load_addr_extra` survives a
  flush as in the code;
* addresses, to the three answers of `forward_load` and hit or miss of the D$;
* the branch predictor, to any choice among not taken and the branch's target; with
  the event `wrong_target` also any other address of the branch's mode, as the
  return address stack and the BTB entry of a jump through a register may give it;
  with `stale_btb` also a target for other instructions. A predicted target in the
  other mode is not modelled;
* privilege, to handler (M, interrupts off) and user code (U, interrupts on); MRET
  stands for SRET too. `ExRefused` is the exception of either below its mode, and of
  WFI under mstatus.TW (event `tw`): unlike the others it neither waits for older
  instructions nor drops them, and the refused instruction retires;
* the store buffer, to the queue it is shown to implement;
* FP divide and single-cycle FP operations, to the FPU slots; `store_write_penalty`
  has its default 0; PMP and the AXI build are not modelled.

`fetch_instruction` reports an error if the bus does (lines 591 to 595 of the
core's source: the fetch is dropped, PCGen goes on). This path cannot be taken and
is not an action: `instr_bus` is bound to `BusCtrl`, whose `b_transport` ends every
access with `TLM_OK_RESPONSE` (`src/BusCtrl.cpp`, 60 to 156).

`last`, `next`, `saved` and `applied` are history variables: the last retired
address (with the parity of the number of retirements, so that retiring the same
instruction twice is a step), the address that must retire next, what the latest trap saved, and how
often the EX-time effect of an unretired instruction was applied. The refinement
to `Machine` is the identity on the first three. Code wraps around, so that
behaviours are infinite; the initial state is an empty pipeline at the start of
user code, which is where the termination test's grace period of 100 cycles has
passed.

A program carries the optional events its environment produces: `irq` (interrupt
in user mode), `fault` (translation faults in EX), `fetch_fault`, `target_fault`
(fetch faults with nothing older in the latches), `dtlb` (walks), `wake`, `tw`,
`load_addr`, `wrong_target`, `stale_btb`; and the cycles for which a miss may hold Fetch. One run can so
combine programs with the events under which they are to be checked.

### MMU

A page number is a triple of nine-bit fields, so shifts by a level become
comparisons of fields; page offsets are left out. `memory` holds the page tables
slot by slot, `tlb` both TLBs, `satp` the mode, address space and root. `walk` is
the part of `translate` that changes state (a successful walk updates the A and D
bits and fills a slot), `translate` the answer in the current state. The victim
of a fill is any slot, which covers the LRU choice. Mode, SUM and MXR are inputs
of every translation, since software may change them between any two. `changed`
is a history variable: the pages whose translation software changed since a fence
that covers them, with the G bit the old translation had, since a fence of one
address space leaves global entries alone. `store_pte` stands for the operating
system; the constant `Updates` limits it to tables whose pointers lead to tables.
Addresses are canonical; the code accepts others and walks with their low bits.

### Instruction set

An instruction word is an `int32_t`; the scattered immediates are written as the
code extracts them, piece by piece. A hart is a record of
registers, pc, memory, CSRs and reservations; `stop` says that the simulation was
ended (`sc_stop`). The width is a parameter: a byte has `ByteBits` bits, a word
four bytes, a register eight. Each Exec function of the non-pipelined core is an
operator on the hart (functions that differ in one operator share a definition).
The six-stage core decodes the same word in ID into the fields of `id_issue_next`
and computes in EX; for compressed words it uses the decoder of `C_extension` and
an expansion of its own.

`Isa` gives one instruction after the other to all cores. Where they are known to
differ the comparison ends; the differences are definitions of their own:

* `DivwOverflow`: `M_extension` does not sign-extend DIVW of the least word by -1
  (`inc/M_extension.h`, 386); DIV and REM compare with the 32-bit minimum, so the
  64-bit overflow is left to the host (`Stops`);
* `LongJump`, `LongTrap`: C.J, C.JR, C.JALR and `RaiseException` work with 32-bit
  addresses;
* `VectoredTrap`: `RaiseException` jumps to mtvec with its mode bits, `CSR_File`
  takes them off;
* `UnknownCsr`: an address that `CSR_File` does not know is an illegal instruction
  on the six-stage core (lines 2955 to 2967); the map of the non-pipelined core has
  every address;
* `MaskedWrite`: `CSR_File` clears bit 0 of mepc and sepc and bit 1 of mtvec, and
  ignores writes to read-only addresses (`inc/CSR_File.h`, 224 to 258); the
  non-pipelined core stores what it is given (`inc/Registers.h`, 356);
* `WideWrite`: that map holds 32 bits of a CSR;
* `StatusCsr`: mstatus has a write mask, and trap and return update it, on the
  six-stage core only;
* `ReservedLr`: LR.W with rs2 other than x0 is illegal on the non-pipelined core,
  which then steps over the handler's first instruction;
* `OtherReservation`: `A_extension` keeps a reservation per LR and width, the
  six-stage core one without a width;
* `CsrShortcut`: CSRRS and CSRRC to x0 return before they write, CSRRSI and CSRRCI
  with 0 before they read;
* `OtherEnvironment`: ECALL is a trap in one core and a system call shim in the
  other; compressed FP words are executed by one and illegal in the other, where the
  trap of some illegal compressed words also steps over the handler's first two bytes;
* `UsesPC`: the two-stage core has moved the pc behind the instruction when it
  executes it (`src/CPU_P64_2.cpp`, 106), so jumps, branches, links, AUIPC and
  traps are off by the size of the instruction, and FENCE, which looks at the word
  behind itself, looks at another.

Each of them is necessary: without it TLC reports the disagreement. FENCE before an
ECALL ends the simulation on the non-pipelined core (`inc/BASE_ISA.h`, 1315); the
comparison ends there like after any other stop.

The CSRs compared are mtvec, mscratch, mepc, mcause, mtval, sepc, the read-only
mhartid and sedeleg, which `CSR_File` does not know; mstatus is executed but not
compared (at the width of the run its upper flags do not exist).
The registers of `CSR_File` with masks of many bits (mie, mip, medeleg, mideleg,
sstatus, satp), misa, the counters and fcsr are not in the suites; `CsrFile` and
`Platform` have the first group. `DividerHasEnoughCycles` does not speak of the
divisor -1, which takes the divider's one-cycle shortcut (lines 1841 to 1845).

### CSR file and platform

A CSR is the set of its one bits. `CsrFile` has the address, the privilege, the
readable and the writable bits of each register, trap entry with delegation,
`pending_interrupt` in its order, mret and sret. The devices are records with one
operator per register access or process.

`Platform` puts them around a hart. Of the core it keeps what devices can tell:
`posted` are the device stores in the store buffer, which drain in order and
later; `ex` is a load that has acted but not committed, which an interrupt
repeats; a load from the address of a posted store gets its value from there.
`access` splits the register reads of the UART that look at the FIFO twice, since
the stdin thread may run in between. Signals settle in delta cycles (`PlicOutput`,
`ClintOutput`) before the kernel goes on. `phase` alternates the wake-up check of
WFI, which moves time forward, with the clock edge. Software is part of the model:
a console driver with a supervisor handler, a timer firmware that sets mtimecmp in
halves, a program that polls the DMA engine, and a guest that executes any CSR
instruction, trap, return, WFI or device store in any mode.

## Runs

Passing runs:

| Run | Question | Bounds |
|---|---|---|
| `store_buffer` | Is the split buffer a program-order queue, and does forwarding see it? | 2+2 slots, 2 addresses, sizes 1 and 2, 2 data values (symmetric): rings wrap, stores overlap partly and fully |
| `operands` | Do operands follow program order? | 3 entries, x0/x1, f0/f1, 2 values: entries are reused while two writers of one register are in flight; integer and FP results with interrupts, integer results with the drain of an illegal instruction |
| `pipeline` | Does the pipeline implement the sequential machine, and does the simulation go on as long as the program does? | all loops of three loads, stores and branches (but three branches), up to rotation, with faults and interrupts anywhere; all loops of two out of seven kinds around SYSTEM and illegal instructions; loads whose value is an address; branches predicted to any address; compressed and full-size code mixed, with branches into its middle: four instructions with interrupts and misses of 0 and 1 extra cycles, and six with either; 3 entries, store queues of 1, fetch queue of 2 |
| `pipeline_units` | Do units serve live entries and deliver results, do store queue and scoreboard agree, do atomics see an empty buffer, do effects happen once, does the pipeline keep retiring? | all 2-instruction programs of ALU, MUL, DIV and loads with two miss slots, walks, faults and interrupts; all of CSR, DIV and FP with faults (loops shorter than the scoreboard); any two instructions, two stores and an atomic with faults; loads whose value is the address of loads and stores, between branches; MRET and WFI that user code is refused, behind a divide or a load and a store; 4 entries, 2+1 store slots |
| `mmu` | Do the TLBs ever answer otherwise than the tables for a fenced page? | 2 slots per TLB, 2 address spaces (symmetric), 3 tables with a pointer, a global megapage, a misaligned megapage and a small page that come and go: one entry answers for two pages, a table changes under it, and each form of SFENCE.VMA covers only part of what is stale |
| `isa` | Do the non-pipelined, the two-stage and the six-stage core execute RV64IMAC alike? | registers of 8 bits (bytes of 1), every ALU and compressed operation on 121 pairs of edge operands, every immediate format bit by bit, memory, stack, atomic, reservation (four instructions) and system sequences (CSR instructions on known, unknown, read-only and masked registers with odd, even and wide operands, illegal words, MRET and SRET with each mode of mtvec); deadlock is not checked since the suites end |
| `platform` | Is console input served in order whatever the configuration order, does output go on, do timers fire and not early, do nested traps return, is machine mode isolated, are transfers done when reported done? | 2 PLIC sources, FIFO of 2 (three characters overflow it), times of 4 bits in two halves (all halves are met), 2 posted stores, 16 programs: three characters with every order of configuration, machine timer interrupts inside the supervisor's handler, transmission with reception, three deadlines with one in the past, transfers that overlap, leave memory or are empty, guests of two CSR instructions from every mode, mode 2 (which mret accepts) included |

Three entries are enough for a unit to finish after a younger instruction, for
the ring to wrap and for a full scoreboard to stall Issue; a queue of one store
is full with every store; four entries let two ready stores meet one free
committed slot; a fetch queue of two fills behind one stall. Deadlock is checked
in every passing run.

Violation runs: each checks one property that a comment or document states, and
TLC shows a behaviour of the code that breaks it.

| Run | What happens |
|---|---|
| `bad_fetch_replay` | Replay in EX keeps a stale `stall_pcgen`; an instruction is delivered twice |
| `bad_interrupted_effect` | An interrupt between EX and Commit repeats the effect of an AMO, CSR or FP instruction |
| `bad_illegal_drain` | The drain before the trap of an illegal instruction writes FP entries to integer registers |
| `bad_walk_forward` | DTLB miss and store-buffer hit commit a placeholder |
| `bad_unbuffered_store` | Misaligned and FP stores are overtaken by older buffered ones |

The passing runs exclude the inputs of these findings (for example, no
interrupts where effects of EX are counted); `MCPipeline` and `MCOperands` name
them. Further behaviours that the model has and the passing runs leave out, each
reproduced with the programs and events given:

* `ImplementsMachine` fails with DIV and the event `fetch_fault`: Fetch takes its
  fault without waiting for older instructions (line 561 of the core's source).
* It fails with DIV and ILLEGAL: the drain in Issue (1576) retires what is ready
  and drops an older divide that is still executing.
* It fails with BRANCH and `stale_btb`: correcting the prediction in ID (1186)
  makes PCGen drop the instruction ID and Issue have just passed on.
* It fails with four entries and a handler DIV, ALU, ALU, MRET: an interrupt in
  the cycle after MRET finds older ready entries and flushes them (2880).
* It fails with DIV and `target_fault`: the trap of such a fetch looks at the
  latches only, and drops a divide that is executing.
* It fails with DIV, STORE, LOAD, ALU, ALU, ALU and misses of up to 3 cycles: a load
  that overlaps a buffered store in part is replayed too, and the fetch delivers an
  instruction twice as in `bad_fetch_replay`; it retires twice. No fault is needed.
* `StoreQueueMatchesScoreboard` fails during the drain with STORE, ILLEGAL and one
  committed entry: Issue (1576) retires a store that `commit_store` has refused because
  the committed queue is full (`inc/StoreBuffer.h`, 58); `flush_speculative` then
  drops it.
* `UnitsServeLiveEntries` fails with loads, `irq` and a latency of 2 for `hit`:
  `cpu_process_IRQ` does not cancel `load_hit_fu` (3471). The default is 1.
* `OperandsFollowProgramOrder` fails with the class `fcvt` and interrupts: these
  instructions write the integer file in EX (3188).
* `ClobberNamesProducer` fails for register 0 of the FP file: Commit releases a
  clobber only if rd is not 0 (3381). Only waiting is affected, no value.
* `TxFinishes` fails if the UART is configured before the PLIC: writes of
  priority, enable and threshold do not recompute the output (`inc/PLIC.h`, 84).
  A received byte is announced again by the monitor process, a transmitter
  interrupt is not. The programs that transmit have no machine timer either: whether
  a claim of the transmitter swallowed by a machine interrupt is made good is not
  checked, only (by `ConsoleServed`) that one of the receiver is.
* `BytesInOrder` in its strong form (nothing lost) fails with machine interrupts:
  a load of RBR acts in EX and is repeated (3446); and with transmission: a load
  of RBR is answered from a buffered store to THR (2265).
* `NoEarlyTimer` fails without its exception for posted stores: mret may run
  before the store of mtimecmp has reached the CLINT, whose line is still high.
* `DmaDoneMeansCopied` is stated for transfers inside memory: BusCtrl turns every
  error response into success, the engine's check of it (`inc/DMA.h`, 52) never
  fires. A length of 0 leaves the start bit set for ever.
* `MachineIsolated` does not cover UXL, XS and SD, which sstatus can write although
  `inc/CSR_File.h` calls UXL read-only.

## Fairness

`pipeline_units` assumes weak fairness of the next-state relation:
`cycle_thread` is one thread that runs all stages in every cycle. No fairness is
assumed of data-dependent choices: that a store overlapped by a replayed load
drains, and that operands become ready, follows from the model. `KeepsRetiring`
is stated for behaviours in which interrupts stop at some time, since an
interrupt in every user cycle is allowed by the platform and leaves no progress
to claim: MRET takes effect in EX and may be flushed before it retires.

`platform` assumes weak fairness of every process of the SystemC kernel, which runs
each one whose time has come: the delta cycles, the CLINT's tick, the UART's
monitor, the clock edge with its wake-up check, and the drain of the store buffer
that Commit performs in every cycle. Nothing is assumed of the stdin thread: nobody
has to type. Time is bounded by `until` of a program; beyond it the clock stands
still, which can only make the liveness properties harder.

## Proofs

Every theorem is about the specification that the runs check, for every value of
the constants that the named assumptions of its modules allow.

### Store buffer

`StoreBufferProofs` proves, for all depths of the two queues and all sets of
addresses, sizes and data (`MemAccessAssumption`, `DepthAssumption`):

* `StoreBufferTypes`: `Spec => []TypeOK`;
* `StoreBufferCoherent`: `Spec => []RingCoherent`;
* `StoreBufferForwards`: `Spec => []ForwardingSeesProgramOrder`;
* `StoreBufferRefines`: `Spec => ImplementsStoreQueue`.

`TypeOK` is inductive. `RingCoherent` is not by itself: it says nothing of the
range of the cursors, without which arithmetic modulo the depth proves nothing,
so the inductive invariant is `TypeOK` together with coherence of both rings.
`direct_write` could punch holes into a ring by invalidating entries; it is
enabled only when the buffer is empty, as Issue guarantees (which
`AtomicsFindBufferEmptyHolds` proves of the pipeline). The
argument per action is in `RingProofs`: push, pop at the head, pop of the
youngest, and emptying a coherent ring give a coherent ring; the arithmetic of
the cursors modulo the depth is there too. Forwarding and the refinement follow
from the same invariant without induction over the queues: what program order
says of a byte is stated by the youngest store of it, not by applying the stores
one after the other, and each operation moves that store by at most one place.

### Scoreboard and operands

`ScoreboardProofs` says what allocate, complete, retire, release and the two
flushes do to a coherent scoreboard. On them rests `OperandsProofs`, for every
size, every set of registers and every set of programs:

* `OperandTypesHold`: `Spec => []OperandTypes`;
* `ClobbersNameProducers`: `Spec => []ClobberNamesProducer`;
* `FpReadsWaitHolds`: `Spec => []FpReadsWait`;
* `OperandsFollow`: `Spec => []OperandsFollowProgramOrder`.

None of them is inductive. `OperandsInv` adds coherence of the ring, that an entry
in flight records the instruction it works for, that an unfinished entry
is the one in the latch to EX or has a unit, and the fact that carries the
argument: a clobber that is busy names the youngest entry in flight that writes its
register, and one that is not busy has no such entry (`ClobbersFollow`, exact
except for f0, which Commit never releases). The last theorem assumes
`Precise(p)` of every program p: no `fcvt` class, and no illegal instruction beside
FP ones. Both are findings above: those instructions write the integer file before
they commit, and there the property is false.

### Pipeline

`PipelineProofs` proves, for every size of the scoreboard and the queues, every
number of units and latencies (`PipelineAssumption`; `load_hit_penalty` has its
value 1), every code and every choice of events:

* `TypesHold`: `Spec => []TypeOK`;
* `ScoreboardRingHolds`: `Spec => []ScoreboardRing`;
* `AtomicsFindBufferEmptyHolds`: `Spec => []AtomicsFindBufferEmpty`;
* `NeverStopsEarlyHolds`: `Spec => NeverStopsEarly`.

These hold for all programs, the inputs of the findings included. The inductive
invariant is `Base`: the types of the front end and the back end with the
coherent scoreboard, that no flush outlives its cycle (`FlushEnds`), that the
instruction on its way to EX has the youngest entry (`TailFollows`, without which
`flush_speculative` by position would tear the ring), and that the store buffer
stays empty from Issue to EX of an atomic (`AtomicsWait`). The latches through
which an instruction reaches EX change their meaning in the course of a cycle;
`Pending` names, stage by stage, the instruction EX will get, so that one formula
serves for all stages. The last of them needs `Awake` besides: every reason for
PCGen to send nothing (a flush, a stall, a replay, a full fetch queue, the lost cycle
of a predicted jump) leaves an instruction in a latch that `Terminates` looks at, or
is a flag that it looks at itself.

* `ExIsYoungestHolds`: `Spec => []ExIsYoungest`;
* `CommitsComputedResultsHolds`: `Spec => []CommitsComputedResults`.

They assume `WalksAlone(p)`: a program with DTLB walks has no stores. Otherwise the
slot of a walk can outlive its load (finding `bad_walk_forward`), and both are
false. `Live` adds to `Base` that results that are ready or
on their way in a unit are computed ones, and that units work for unfinished entries,
each for its own, none of them for the instruction that EX has yet to execute. In
the cycle of an interrupt `load_hit_fu` works on for an entry that is gone; that it
finishes in this very cycle, before its slot is allocated again, is where the latency
of 1 is needed.

* `StoreQueueMatchesHolds`:
  `Spec => [](stage # "drain" => StoreQueueMatchesScoreboard)`.

It also assumes `WalksAlone`. `Matched` adds to `Live` that the queue has room for the
store in EX (`StoreRoom`) and that no unit works for a store (`UnitsSpare`), so that a
store becomes ready only where EX also puts it into the queue. The queue is compared
with the scoreboard by membership and by the distance of each slot from the head
(`Lists`), which needs no induction over the queue: retirement lowers all distances
by one, the instruction in EX has the largest, and a flush by position removes what the
queue does not list. The drain of Issue is excluded because there the property is
false (above).

* `EffectsAppliedOnceHolds`: `Spec => []EffectsAppliedOnce`.

It assumes `WalksAlone` and `EffectsRetire(p)`: a program with AMO, CSR or FP
instructions has neither interrupts nor illegal instructions, both of which drop
instructions that have executed (finding `bad_interrupted_effect`; the drain above).
`Accounted` adds to `Live` that there are at most as many unretired applications of an
address as entries of that address that EX has executed (`Tally`). Counting entries, not
addresses, is what makes it hold in loops shorter than the scoreboard. An exception
flushes entries too; that none of them has executed follows from its waiting for
everything older (`LoneEntry`).

* `UnitsServeLiveEntriesHolds`: `Spec => []UnitsServeLiveEntries`.

It assumes in addition `LateFlushFree(p)`: no stale branch targets and no fetch faults.
Those flush from ID and Fetch, after Issue in the same cycle, and drop the
instruction Issue has just dispatched, whose entry then waits for ever (the findings
with `stale_btb` and `fetch_fault` above). The proof needs that only branches are
predicted taken (`Foresight`), that a flush never meets a dispatched instruction
(`NothingDropped`), and that a unit is free for whatever is on its way to EX
(`FreeUnit`); with these every unfinished entry stays covered by a latch or a unit
(`Remembered`). All programs of the two passing runs satisfy `WalksAlone` and
`LateFlushFree`, those of `pipeline_units` also `EffectsRetire`: `MCPipeline`
assumes it and TLC evaluates it.

### The core and the sequential machine

`PipelineRefinement` proves, for all sizes and latencies as above,

* `ImplementsMachineHolds`: `Spec => ImplementsMachine`, for programs that are
  `Orderly`.

Instructions retire one by one along a path of the program, each once, and a trap
saves the address and mode of the instruction that would have retired next, through
all stalls, replays, mispredictions, flushes, interrupts and returns. The conditions
of `Orderly` (in `Pipeline`) leave out the findings, and each is there because the
property is false, or a lemma it rests on is, without it:

| Condition | Without it |
|---|---|
| `WalksAlone` | `bad_walk_forward`; `Live` is false |
| `LateFlushFree` | `stale_btb` and `fetch_fault` above |
| no misses that hold Fetch, or `ReplayFree` | `bad_fetch_replay`, with a fault or a partly overlapped load |
| `Quick` with `target_fault` or illegal instructions | an older, unfinished instruction is dropped (above) |
| `Swift` kinds only in the handler, with `irq` | the handler with DIV above |
| `ModesRespected` | MRET in user code, and WFI there under `tw`, trap and then retire all the same, together with what is older (`ExRefused`, 2874 and 2911). The rest is no condition on the core: user code does not jump into the handler, traps do not nest, and no compressed encoding of WFI or SFENCE.VMA exists |

`ReplayFree` also leaves out ECALL with such misses: EX replays it until everything
older is done. Its trap drops what was fetched twice, and TLC found no violation on
the programs tried; the proof does not cover it. All programs of the run `pipeline`
are `Orderly`: this is an `ASSUME` of `MCPipeline` that TLC evaluates, so the run
and the theorem are about the same property of the same programs, and the theorem is
about all the others in the class.

`next` says only what retires next, which no action can be shown to respect
from `Base` and `Remembered` alone. The inductive invariant `Inv` adds to them:

* `Flow`: what is in the two decode latches, the fetch queue, Fetch's output, PCGen's
  latch and `next_pc` are consecutive instructions of one predicted path (`Path`).
  The latches change their roles in the course of a cycle (`D1`, `D2`, `G`), and
  PCGen's latch is followed by an address computed before the size of
  its instruction is known (`Ahead` instead of `Goes`);
* `Steady`: the flags that keep `Flow` true: Fetch's result finds room in
  the queue and is not fetched again (`Delivery`), whoever holds Fetch holds PCGen
  (`HoldsAgree`), and a flush, sleep and stall leave bubbles where the code
  expects them (`Emptied`);
* `InOrder`: the entries of the scoreboard from head to tail start at `next` and each
  leads to the one after it (`Linked`), an executed one in a way the program
  allows (`Resolved`); the youngest leads to `Origin`, where the front
  end's path begins, unless it is a branch EX has still to resolve (`Dispatching`);
* `Modes`: `mepc` is what the abstract machine saved, and instructions in flight are of
  the current mode;
* `Fast`: in the programs and modes that `Quick` and `Swift` speak of, the
  scoreboard never holds more than the entries of this and the next cycle, all ready
  in time; so traps that do not wait for it find nothing to drop.

Links are stated between neighbouring slots of the ring, and the queue by
position, so that no induction over either is needed: a flush by position keeps the
links of the entries it keeps, retirement advances the head along its link, and
Issue appends one. Each action then maps to a step: Commit and Issue's drain
retire (`Retire`), the exceptions of EX, Fetch and Issue trap (`Trap`), an interrupt
traps before the oldest instruction, or right after a return that has executed
and not retired (`TrapAfterReturn`); everything else is a stutter.

### MMU

`MmuProofs` proves, for every TLB size, every field width and every set of tables
that `MmuAssumption` allows:

* `MmuTypes`: `Spec => []TypeOK`, with every pointer in the tables leading to a
  table, so that walks stay inside them;
* `MmuCoherent`: `Spec => []TlbCoherent`;
* `MmuFollowsTables`: `Spec => []FencedPagesFollowTables`.

`FencedPagesFollowTables` speaks of answers only and is not inductive; the
invariant behind it is `TlbCoherent` with `TypeOK`. The lemmas carry the argument:
all pages an entry of a leaf's level answers for share that leaf (`LeafShared`);
A and D updates change no translation (`LeafKept`); a fence removes a page from
`changed` only if no entry it leaves valid answers for that page with the G bit
recorded there (`FenceCoherent`); a store to the tables adds every page whose
translation it changes (`StoreCoherent`).

### Platform

`PlatformProofs` proves every safety property of the platform run, for any number of
PLIC sources, any depth of the FIFO and the store buffer, any width of the timer
(`HalfAssumption`) and all programs that satisfy the assumptions below:

* `CsrsStayMasked`: `Spec => []CsrTypes`, and with it
  `PlatformTypesHold`: `Spec => []PlatformTypes`;
* `MachineStateIsolated`: `Spec => MachineIsolated`;
* `UartLineFreshHolds`: `Spec => []UartLineFresh`;
* `ReturnsRestoreHolds`: `Spec => ReturnsRestore`;
* `NoEarlyTimerHolds`: `Spec => NoEarlyTimer`;
* `BytesInOrderHolds`: `Spec => []BytesInOrder`;
* `DmaDoneMeansCopiedHolds`: `Spec => []DmaDoneMeansCopied`.

The assumptions are about software, and TLC evaluates them on the programs of
`MCPlatform`. `ProgramsAssumption`: the initial CSR file is within the masks and
stores have the types of their registers. `WiringAssumption`: the UART's source is one
of the PLIC's. Guests are bound by nothing else: they write any CSR and return from
anywhere. Of the other programs `HandlersAssumption` says that the
firmware installed the handlers of the interrupts it enabled and lets the supervisor
return, and that it stores its first deadline as a whole; `ConsoleAssumption`, that
programs without the timer have no machine interrupts, that those that transmit
nothing leave THR and LCR alone, and that the transmitted character is
distinguishable from typed ones; `DmaAssumption`, that the copying program has
interrupts off and stores the source, the three registers and the start bit in this
order.

None of the properties is inductive. The invariants behind them, each resting on the
ones before:

* `HartInv`: the masks together with bit 0 of `pc`, which a trap saves in `mepc` or
  `sepc`. Isolation follows from the types: a write of `sie` replaces only bits of
  `mideleg`, which `MachineState` leaves out. Lemmas on `CsrFile` say what each
  operation does to a file within its masks (`TrapToS`, `TrapToM`, `SretLegal`,
  `WriteLegal`).
* `PlatformInv` adds the devices' states (`Fresh`: the level the PLIC holds is the
  UART's) and the types of what is in the store buffer.
* `Nest`: the hart is in the main program, in the supervisor's handler or in the
  machine's, the machine's above either of the others, and for each level the CSRs
  hold what the frame of that level recorded: `mepc` with MPP and MPIE for the
  innermost one, `sepc` with SPP and SPIE below it. Interrupts of a level are off while its handler runs;
  without that a second trap would overwrite the saved state.
* `TimerInv`: the timer signal is recomputed after every change (`SignalFresh`), and
  for each half of mtimecmp, the last store of it in the buffer, or the register if
  there is none, is that half of the deadline, except where the handler has still to
  store it (`Follows`). `Nest` is needed for the latter: nothing interrupts the handler
  between its stores.
* `ByteInv`: what software has, what a load of RBR has brought and not committed, and
  the FIFO are in ascending order (`Ordered`); `QuietInv`: without machine interrupts
  and transmission the three together are all that arrived, a byte that IIR
  reported stays until RBR is read, and a load of RBR finds no store to its address.
* `DmaInv`: the stores that have drained, those in the buffer and those still to come
  make up the program's sequence, memory is what the drained ones made it, and the
  start bit reads as clear only when all have drained; a poll before that is
  answered from the buffer.

### What only TLC checks

Liveness under fairness (`KeepsRetiring`, `ConsoleServed`, `TxFinishes`,
`TimerFires`, `DmaFinishes`) is out of the prover's reach. The instruction set
(`Isa`) is built from recursive operators on words and would need induction over
data. Programs outside the classes above are covered by the violation runs, which
show why they are excluded.

## Not modelled

See the component list in `PROJECT.json`. Left out for good: output, tracing,
statistics, command line, the socket of the debug server, vendored code, guest
programs, and `inc/ROB.h`, which nothing uses. Left out because they only affect
latency, which the pipeline leaves open: L1 caches and the branch predictor's
tables. Left out of what is modelled: F and D arithmetic (only the way their
results travel is in `Operands`), the RV32 classes, PMP, counters, vectored traps,
address decoding of the bus, the loaders; the interrupt checks of the
non-pipelined and two-stage cores (the latter drops the latched instruction, and
in both a call_interrupt right after an interrupt was taken leaves the flag and
MEIP set, after which none is taken); the AXI build; the six-stage RV32 core.

## Plan

1. Proofs: ECALL together with fetch misses in the refinement of `Machine`.
2. `Mmu` composed with `StoreBuffer`: page-table stores that have not drained
   when the walk reads memory.
3. Operand values with commit timing, for the machine-mode ECALL shim.
4. `AxiContention`: request, done and ack of the refill masters under flushes.
5. PMP, vectored traps, branch predictor tables, the six-stage RV32 core.
