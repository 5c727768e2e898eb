------------------------------ MODULE Platform ------------------------------
(***************************************************************************)
(* The six-stage core among its devices: CLINT and PLIC drive its          *)
(* interrupt lines, the UART interrupts through the PLIC, software reaches *)
(* all of them and the DMA engine through loads and stores.                *)
(*                                                                         *)
(* Of the core this module keeps what the devices can tell apart: a store  *)
(* reaches its device only when the store buffer drains, a load reaches it *)
(* in EX and is repeated if an interrupt comes before it commits, and a    *)
(* load from the address of a buffered store never reaches it.             *)
(*                                                                         *)
(* The kernel runs one process at a time; only the stdin thread runs beside *)
(* it.  Signals settle in delta cycles before time goes on.                *)
(***************************************************************************)
EXTENDS CsrFile, Plic, Uart, Clint, Dma, SequencesExt

CONSTANTS Programs,      \* what software does: a record for each program
          StoreDepth,    \* device stores the store buffer holds
          StartMemory    \* memory at reset

UART_SOURCE == 1         \* VPTop wires the UART to source 1

SENT_CHAR == 99          \* what the programs transmit

\* What software stores to the registers.
DeviceStores ==
    [dev : {"plic"}, reg : {"priority", "threshold", "claim"}, val : Nat]
    \cup [dev : {"plic"}, reg : {"enable"}, val : SUBSET Sources]
    \cup [dev : {"uart"}, reg : {"THR"}, val : {0, SENT_CHAR}]
    \cup [dev : {"uart"}, reg : {"SCR"}, val : Nat]
    \cup [dev : {"uart"}, reg : {"IER"}, val : SUBSET {RDA, THRI}]
    \cup [dev : {"uart"}, reg : {"LCR"}, val : BOOLEAN]
    \cup [dev : {"clint"}, reg : {"mtimecmp", "mtime"}, val : Times]
    \cup [dev : {"clint"}, reg : {"mtimecmp_low", "mtimecmp_high", "mtime_low", "mtime_high"},
          val : 0..(Half - 1)]
    \cup [dev : {"clint"}, reg : {"msip"}, val : BOOLEAN]
    \cup [dev : {"dma"}, reg : {"src", "dst", "len"}, val : Nat]
    \cup [dev : {"dma"}, reg : {"control"}, val : BOOLEAN]
    \cup [dev : {"mem"}, reg : {"byte"}, val : [address : Nat, data : Nat]]

\* The firmware leaves a CSR file that its masks allow; guests write 64 bits.
ASSUME ProgramsAssumption ==
    \A k \in DOMAIN Programs :
        /\ Programs[k].csr \in CsrFiles /\ Masked(Programs[k].csr)
        /\ Programs[k].values \subseteq SUBSET AllBits
        /\ Programs[k].boots \subseteq Seq(DeviceStores)
        /\ Programs[k].stores \subseteq DeviceStores
        /\ Programs[k].deadlines \subseteq Times

ASSUME WiringAssumption == UART_SOURCE \in Sources /\ StoreDepth \in Nat

VARIABLES
    program, todo,                    \* the program and its initial stores
    csr, pc, wfi_stall, phase,        \* hart; phase of cycle_thread
    posted, ex, access,               \* buffered stores, load in EX, UART access
    plic, uart, clint, dma, mem,      \* devices and memory
    budget,                           \* bound: timer shots or guest steps left
    \* history: characters typed, taken in and read, the time software asked
    \* for, and the state each trap interrupted
    typed, arrived, got, deadline, frames

hartVars    == <<csr, pc, wfi_stall, phase>>
busVars     == <<posted, ex, access>>
deviceVars  == <<plic, uart, clint, dma, mem>>
historyVars == <<typed, arrived, got, deadline, frames>>
vars == <<program, todo, budget, hartVars, busVars, deviceVars, historyVars>>

\* Code addresses of the programs, as sets of bits.
Boot == {4}
Idle == {5}
Claim == {6}             \* the supervisor's handler
Identify == {7}
Receive == {8}
Transmit == {9}
Complete == {10}
SReturn == {11}
Rearm == {12}            \* the machine's handler
RearmHigh == {13}
RearmLow == {14}
MReturn == {15}
Poll == {16}

Software == Programs[program]

\* The firmware of a program that is no guest installed the handlers of the
\* interrupts it enabled, and lets the supervisor return.
Installed(c) ==
    /\ TSR \notin c.mstatus
    /\ c.mie \ c.mideleg # {} => trap_vector(c.mtvec) = Rearm
    /\ c.mie \cap c.mideleg # {} => trap_vector(c.stvec) = Claim

\* Before it waits for interrupts, it stores a deadline as a whole.
BootStores == {w \in DeviceStores : w.reg \notin {"mtimecmp_low", "mtimecmp_high"}}

ASSUME HandlersAssumption ==
    \A k \in DOMAIN Programs : Programs[k].name # "guest" =>
        Installed(Programs[k].csr) /\ Programs[k].boots \subseteq Seq(BootStores)

\* What is typed differs from what is sent.  A program without the timer has no
\* machine interrupts; one that sends nothing leaves THR and LCR alone.
ASSUME ConsoleAssumption ==
    \A k \in DOMAIN Programs :
        LET p == Programs[k] IN
        /\ p.chars \in 0..(SENT_CHAR - 1)
        /\ p.name # "guest" /\ ~p.timer => p.csr.mie \subseteq p.csr.mideleg
        /\ p.name # "guest" /\ p.sends = 0 =>
             \A b \in p.boots : \A i \in DOMAIN b : b[i].reg \notin {"THR", "LCR"}

\* The program of the DMA engine has interrupts off, changes the source by a store
\* and starts a transfer; source is what memory holds after that store.
ASSUME DmaAssumption ==
    \A k \in DOMAIN Programs : Programs[k].name = "dma" =>
        /\ Programs[k].csr.mie = {}
        /\ \A b \in Programs[k].boots :
             /\ [i \in DOMAIN b |-> b[i].reg] = <<"byte", "src", "dst", "len", "control">>
             /\ b[5].val
             /\ Programs[k].source = bus_write(StartMemory, b[1].val.address, 1,
                                               [i \in {0} |-> b[1].val.data])

NoLoad == [done |-> FALSE, value |-> 0]
Loaded(v) == [done |-> TRUE, value |-> v]

Init ==
    /\ program \in DOMAIN Programs
    /\ todo \in Software.boots
    /\ csr = Software.csr
    /\ pc = Boot /\ wfi_stall = FALSE /\ phase = "edge"
    /\ posted = <<>> /\ ex = NoLoad /\ access = "none"
    /\ plic = ResetPlic /\ uart = ResetUart /\ clint = ResetClint
    /\ dma = ResetDma /\ mem = StartMemory
    /\ budget = Software.budget
    /\ typed = 0 /\ arrived = <<>> /\ got = <<>>
    /\ deadline = Never /\ frames = <<>>

-----------------------------------------------------------------------------
(* Device accesses *)

update_interrupts_sticky(u, p) ==
    IF irq_level(u) THEN set_irq_level(p, UART_SOURCE, TRUE) ELSE p

\* The UART drives its PLIC source with its current level.
update_interrupts(u, p) == set_irq_level(p, UART_SOURCE, irq_level(u))

\* A store [dev, reg, val] arrives.
write_plic(w) ==
    /\ plic' = CASE w.reg = "priority" -> write_priority(plic, UART_SOURCE, w.val)
                 [] w.reg = "enable" -> write_enable(plic, w.val)
                 [] w.reg = "threshold" -> write_threshold(plic, w.val)
                 [] w.reg = "claim" -> complete(plic, w.val)
    /\ UNCHANGED <<uart, clint, dma, mem>>

write_uart(w) ==
    /\ uart' = CASE w.reg = "THR" -> write_THR(uart)
                 [] w.reg = "IER" -> write_IER(uart, w.val)
                 [] w.reg = "LCR" -> write_LCR(uart, w.val)
                 [] w.reg = "SCR" -> write_SCR(uart, w.val)
    /\ plic' = IF w.reg \in {"THR", "IER"} /\ ~uart.dlab THEN update_interrupts(uart', plic)
                                                ELSE plic
    /\ UNCHANGED <<clint, dma, mem>>

write_clint(w) ==
    /\ clint' = CASE w.reg = "mtimecmp" -> write_mtimecmp(clint, w.val)
                  [] w.reg = "mtimecmp_low" -> write_mtimecmp_low(clint, w.val)
                  [] w.reg = "mtimecmp_high" -> write_mtimecmp_high(clint, w.val)
                  [] w.reg = "mtime" -> write_mtime(clint, w.val)
                  [] w.reg = "mtime_low" -> write_mtime_low(clint, w.val)
                  [] w.reg = "mtime_high" -> write_mtime_high(clint, w.val)
                  [] w.reg = "msip" -> write_msip(clint, w.val)
    /\ UNCHANGED <<plic, uart, dma, mem>>

write_dma(w) ==
    /\ IF w.reg = "control"
       THEN /\ dma' = write_control(dma, w.val)
            /\ mem' = IF w.val THEN start_transfer(dma, mem) ELSE mem
       ELSE dma' = write_register(dma, w.reg, w.val) /\ UNCHANGED mem
    /\ UNCHANGED <<plic, uart, clint>>

write_memory(w) ==
    /\ mem' = bus_write(mem, w.val.address, 1, [i \in {0} |-> w.val.data])
    /\ UNCHANGED <<plic, uart, clint, dma>>

-----------------------------------------------------------------------------
(* Processes of the kernel *)

Settled == ~plic.event /\ ~clint.event

\* Delta cycles.
PlicOutput ==
    /\ access = "none" /\ plic.event
    /\ plic' = update_output_process(plic)
    /\ UNCHANGED <<program, todo, budget, hartVars, busVars, uart, clint, dma, mem,
                   historyVars>>

ClintOutput ==
    /\ access = "none" /\ clint.event
    /\ clint' = update_irq_method(clint)
    /\ UNCHANGED <<program, todo, budget, hartVars, busVars, plic, uart, dma, mem,
                   historyVars>>

Tick ==
    /\ access = "none" /\ Settled
    /\ Software.timer /\ clint.mtime < Software.until
    /\ clint' = tick(clint)
    /\ UNCHANGED <<program, todo, budget, hartVars, busVars, plic, uart, dma, mem,
                   historyVars>>

RxMonitor ==
    /\ access = "none" /\ Settled
    /\ monitor_due(uart)
    /\ plic' = update_interrupts(uart, plic)
    /\ UNCHANGED <<program, todo, budget, hartVars, busVars, uart, clint, dma, mem,
                   historyVars>>

\* The oldest committed store leaves the buffer for its device.
Drain ==
    /\ access = "none" /\ Settled /\ posted # <<>>
    /\ LET w == Head(posted) IN
         CASE w.dev = "plic" -> write_plic(w)
           [] w.dev = "uart" -> write_uart(w)
           [] w.dev = "clint" -> write_clint(w)
           [] w.dev = "dma" -> write_dma(w)
           [] w.dev = "mem" -> write_memory(w)
    /\ posted' = Tail(posted)
    /\ UNCHANGED <<program, todo, budget, hartVars, ex, access, historyVars>>

\* The stdin thread, at any moment.
StdinByte ==
    /\ typed < Software.chars
    /\ typed' = typed + 1
    /\ uart' = stdin_push(uart, typed')
    /\ arrived' = IF Accepts(uart) THEN Append(arrived, typed') ELSE arrived
    /\ UNCHANGED <<program, todo, budget, hartVars, busVars, plic, clint, dma, mem,
                   got, deadline, frames>>

-----------------------------------------------------------------------------
(* The hart: cycle_thread *)

Lines == (IF clint.timer_irq THEN {7} ELSE {}) \cup (IF clint.msip THEN {3} ELSE {})
           \cup (IF plic.out THEN {9} ELSE {})

\* A sleeping hart moves time to just before the deadline and wakes up if
\* anything is pending or a line is high.
WfiCheck ==
    /\ access = "none" /\ Settled
    /\ phase = "check" /\ phase' = "edge"
    /\ clint' = IF Software.timer THEN fast_forward_to_deadline(clint) ELSE clint
    /\ wfi_stall' = (csr.mip \cap csr.mie = {} /\ Lines = {})
    /\ UNCHANGED <<program, todo, budget, csr, pc, busVars, plic, uart, dma, mem,
                   historyVars>>

\* The interrupt lines become bits of mip at every clock edge.
SyncLines == [csr EXCEPT !.mip = (@ \ {3, 7, 9}) \cup Lines]

Frame(c, p) == [priv |-> c.priv, sie |-> SIE \in c.mstatus, mie |-> MIE \in c.mstatus,
                pc |-> p]

TracksFrames == Software.name # "guest"
Push == frames' = IF TracksFrames THEN Append(frames, Frame(csr, pc)) ELSE frames
Pop == frames' = IF frames = <<>> THEN frames ELSE Front(frames)

\* cpu_process_IRQ: a load that has not committed is dropped and comes again.
Interrupt ==
    /\ pending_interrupt(SyncLines) >= 0
    /\ csr' = take_interrupt(SyncLines, pending_interrupt(SyncLines), pc)
    /\ pc' = TrapTarget(csr')
    /\ wfi_stall' = FALSE
    /\ ex' = NoLoad
    /\ Push
    /\ UNCHANGED <<program, todo, budget, phase, posted, access, deviceVars, typed,
                   arrived, got, deadline>>

\* No instruction while asleep.
Asleep ==
    /\ wfi_stall
    /\ csr' = SyncLines
    /\ phase' = "check"
    /\ UNCHANGED <<program, todo, budget, pc, wfi_stall, busVars, deviceVars, historyVars>>

-----------------------------------------------------------------------------
(* Instructions *)

at(label) == Software.name # "guest" /\ pc = label

Store(dev, reg, val) == [dev |-> dev, reg |-> reg, val |-> val]

\* A store enters the buffer if there is room.
Post(w, next) ==
    /\ Len(posted) < StoreDepth
    /\ posted' = Append(posted, w)
    /\ pc' = next
    /\ csr' = SyncLines
    /\ UNCHANGED <<program, wfi_stall, phase, ex, access, deviceVars>>

\* The buffered stores to an address.
Buffered(dev, reg) ==
    {i \in DOMAIN posted : posted[i].dev = dev /\ posted[i].reg = reg}

\* A load takes the value of the youngest.
FromBuffer(dev, reg) ==
    /\ \E i \in Buffered(dev, reg) :
         /\ \A j \in Buffered(dev, reg) : j <= i
         /\ ex' = Loaded(posted[i].val)
    /\ UNCHANGED <<access, deviceVars>>

\* Loads of the device registers, in EX.
read_claim ==
    \/ FromBuffer("plic", "claim")
    \/ /\ Buffered("plic", "claim") = {}
       /\ ex' = Loaded(Claimed(plic))
       /\ plic' = claim(plic)
       /\ UNCHANGED <<access, uart, clint, dma, mem>>

read_control ==
    \/ FromBuffer("dma", "control")
    \/ /\ Buffered("dma", "control") = {}
       /\ ex' = Loaded(dma.start)
       /\ UNCHANGED <<access, deviceVars>>

\* RBR shares the address of THR.  RBR and IIR look at the FIFO more than
\* once; access says that the second look is still to come.
read_RBR ==
    \/ FromBuffer("uart", "THR")
    \/ /\ Buffered("uart", "THR") = {}
       /\ IF uart.dlab \/ rx_fifo_empty(uart)
          THEN ex' = Loaded(0) /\ UNCHANGED access
          ELSE access' = "rbr" /\ UNCHANGED ex
       /\ UNCHANGED deviceVars

begin_IIR ==
    /\ IF iir(uart) = 2 THEN access' = "iir" /\ UNCHANGED ex
                        ELSE ex' = Loaded(iir(uart)) /\ UNCHANGED access
    /\ UNCHANGED deviceVars

finish_RBR ==
    /\ access = "rbr"
    /\ ex' = Loaded(Head(uart.fifo))
    /\ uart' = rx_pop(uart)

finish_IIR ==
    /\ access = "iir"
    /\ ex' = Loaded(2)
    /\ uart' = read_IIR(uart)

FinishAccess ==
    /\ finish_RBR \/ finish_IIR
    /\ plic' = update_interrupts(uart', plic)
    /\ access' = "none"
    /\ UNCHANGED <<program, todo, budget, hartVars, posted, clint, dma, mem, historyVars>>

\* A load executes; it commits at a later edge, unless it is interrupted.
LoadAt(label, reads) ==
    /\ at(label) /\ ~ex.done
    /\ reads
    /\ csr' = SyncLines
    /\ UNCHANGED <<program, todo, budget, pc, wfi_stall, phase, posted, historyVars>>

CommitTo(next) ==
    /\ ex.done /\ ex' = NoLoad
    /\ csr' = SyncLines
    /\ pc' = next
    /\ UNCHANGED <<program, todo, budget, wfi_stall, phase, posted, access, deviceVars,
                   typed, arrived, deadline, frames>>

Raises(code) ==
    /\ csr' = take_exception(SyncLines, code, pc)
    /\ pc' = TrapTarget(csr')

\* Returns, illegal in the modes that may not use them.
Mret ==
    IF csr.priv # M THEN Raises(ILLEGAL_INSTR)
    ELSE csr' = mret(SyncLines) /\ pc' = csr.mepc

Sret ==
    IF csr.priv = U \/ (csr.priv = S /\ TSR \in csr.mstatus) THEN Raises(ILLEGAL_INSTR)
    ELSE csr' = sret(SyncLines) /\ pc' = csr.sepc

-----------------------------------------------------------------------------
(* Software *)

\* The initial stores, then sleep, or poll the DMA engine.
BootStep ==
    /\ at(Boot)
    /\ \/ /\ todo # <<>>
          /\ Post(Head(todo), Boot)
          /\ todo' = Tail(todo)
          /\ deadline' = IF Head(todo).reg = "mtimecmp" THEN Head(todo).val ELSE deadline
       \/ /\ todo = <<>>
          /\ csr' = SyncLines
          /\ pc' = IF Software.name = "dma" THEN Poll ELSE Idle
          /\ UNCHANGED <<program, todo, wfi_stall, phase, busVars, deviceVars, deadline>>
    /\ UNCHANGED <<budget, typed, arrived, got, frames>>

\* WFI resumes behind itself, in a loop.
WaitForInterrupt ==
    /\ at(Idle)
    /\ wfi_stall' = TRUE /\ phase' = "check"
    /\ csr' = SyncLines
    /\ UNCHANGED <<program, todo, budget, pc, busVars, deviceVars, historyVars>>

\* The supervisor claims, serves what IIR reports until it reports nothing,
\* and completes.
SupervisorLoads ==
    \/ LoadAt(Claim, read_claim)
    \/ LoadAt(Identify, begin_IIR)
    \/ LoadAt(Receive, read_RBR)

SupervisorCommits ==
    \/ /\ at(Claim) /\ CommitTo(IF ex.value = 0 THEN SReturn ELSE Identify)
       /\ UNCHANGED got
    \/ /\ at(Identify)
       /\ CommitTo(CASE ex.value = 4 -> Receive [] ex.value = 2 -> Transmit
                     [] OTHER -> Complete)
       /\ UNCHANGED got
    \/ /\ at(Receive) /\ CommitTo(Identify)
       /\ got' = IF ex.value = SENT_CHAR THEN got ELSE Append(got, ex.value)

SupervisorStores ==
    /\ \/ /\ at(Transmit)
          /\ Post(IF uart.sent < Software.sends THEN Store("uart", "THR", SENT_CHAR)
                  ELSE Store("uart", "IER", uart.ier \ {THRI}), Identify)
       \/ at(Complete) /\ Post(Store("plic", "claim", UART_SOURCE), SReturn)
    /\ UNCHANGED <<todo, budget, historyVars>>

SupervisorReturn ==
    /\ at(SReturn) /\ Sret
    /\ Pop
    /\ UNCHANGED <<program, todo, budget, wfi_stall, phase, busVars, deviceVars, typed,
                   arrived, got, deadline>>

\* The machine sets the next deadline in halves, the low one out of the way
\* first.
MachineRearm ==
    \/ /\ at(Rearm)
       /\ \E d \in {t \in Software.deadlines : t > clint.mtime /\ budget > 0} \cup {Never} :
            /\ budget = 0 \/ d # Never
                 \/ \A t \in Software.deadlines : t <= clint.mtime
            /\ deadline' = d
       /\ budget' = IF budget > 0 THEN budget - 1 ELSE 0
       /\ Post(Store("clint", "mtimecmp_low", Half - 1), RearmHigh)
       /\ UNCHANGED <<todo, typed, arrived, got, frames>>
    \/ /\ at(RearmHigh)
       /\ Post(Store("clint", "mtimecmp_high", deadline \div Half), RearmLow)
       /\ UNCHANGED <<todo, budget, historyVars>>
    \/ /\ at(RearmLow)
       /\ Post(Store("clint", "mtimecmp_low", deadline % Half), MReturn)
       /\ UNCHANGED <<todo, budget, historyVars>>

MachineReturn ==
    /\ at(MReturn) /\ Mret
    /\ Pop
    /\ UNCHANGED <<program, todo, budget, wfi_stall, phase, busVars, deviceVars, typed,
                   arrived, got, deadline>>

\* Software polls the start bit.
PollControl ==
    \/ LoadAt(Poll, read_control)
    \/ /\ at(Poll) /\ CommitTo(IF ex.value THEN Poll ELSE Idle)
       /\ UNCHANGED got

-----------------------------------------------------------------------------
(* A guest: any CSR write, trap, return or device store, in any mode.      *)

Guest ==
    /\ Software.name = "guest" /\ budget > 0
    /\ budget' = budget - 1

\* A CSR instruction replaces, sets or clears bits; an access the mode does
\* not allow is illegal.
csr_value(op, old, v) ==
    CASE op = "CSRRW" -> v [] op = "CSRRS" -> old \cup v [] op = "CSRRC" -> old \ v

GuestCsr(op, a, v) ==
    IF csr.priv < req_priv(a) THEN Raises(ILLEGAL_INSTR)
    ELSE /\ csr' = write(SyncLines, a, csr_value(op, read(SyncLines, a), v))
         /\ UNCHANGED pc

\* In machine mode ECALL is the system call shim.
GuestEcall ==
    IF csr.priv = M THEN csr' = SyncLines /\ UNCHANGED pc
    ELSE Raises(CASE csr.priv = U -> ECALL_U [] csr.priv = S -> ECALL_S
                  [] OTHER -> ECALL_M)

GuestStep ==
    /\ Guest
    /\ \/ \E op \in {"CSRRW", "CSRRS", "CSRRC"}, a \in Addresses, v \in Software.values :
            GuestCsr(op, a, v)
       \/ GuestEcall
       \/ Raises(LOAD_PAGE_FAULT)
       \/ Mret \/ Sret
    /\ UNCHANGED <<program, todo, wfi_stall, phase, busVars, deviceVars, historyVars>>

\* WFI, the one instruction left when the budget is spent.
GuestWfi ==
    /\ Software.name = "guest"
    /\ IF csr.priv # M /\ TW \in csr.mstatus
       THEN Raises(ILLEGAL_INSTR) /\ UNCHANGED <<wfi_stall, phase>>
       ELSE /\ wfi_stall' = TRUE /\ phase' = "check"
            /\ csr' = SyncLines /\ UNCHANGED pc
    /\ UNCHANGED <<program, todo, budget, busVars, deviceVars, historyVars>>

GuestStore ==
    /\ Guest
    /\ \E w \in Software.stores : Post(w, pc)
    /\ UNCHANGED <<todo, historyVars>>

-----------------------------------------------------------------------------

Instruction ==
    \/ BootStep \/ WaitForInterrupt
    \/ SupervisorLoads \/ SupervisorCommits \/ SupervisorStores \/ SupervisorReturn
    \/ MachineRearm \/ MachineReturn
    \/ PollControl
    \/ GuestStep \/ GuestWfi \/ GuestStore

\* A clock edge: an interrupt, or an instruction unless the hart sleeps.
Cycle ==
    /\ access = "none" /\ Settled /\ phase = "edge"
    /\ \/ Interrupt
       \/ /\ pending_interrupt(SyncLines) = -1
          /\ Asleep \/ (~wfi_stall /\ Instruction)

Next ==
    \/ PlicOutput \/ ClintOutput \/ Tick \/ RxMonitor \/ Drain \/ StdinByte
    \/ WfiCheck \/ Cycle \/ FinishAccess

Spec == Init /\ [][Next]_vars

\* The kernel runs every process whose time has come, and the store buffer
\* drains; nobody has to type.
Fairness ==
    /\ WF_vars(PlicOutput) /\ WF_vars(ClintOutput) /\ WF_vars(Tick)
    /\ WF_vars(RxMonitor) /\ WF_vars(Drain)
    /\ WF_vars(WfiCheck) /\ WF_vars(Cycle) /\ WF_vars(FinishAccess)

FairSpec == Spec /\ Fairness

-----------------------------------------------------------------------------
(* Properties *)

\* The CSR file keeps within the masks of CSR_File.h, whatever software writes.
CsrTypes == csr \in CsrFiles /\ Masked(csr)

\* Every CSR keeps within its mask, and every device within its registers.
PlatformTypes ==
    /\ CsrTypes
    /\ plic.pending \subseteq Sources /\ plic.level \subseteq Sources
    /\ Len(uart.fifo) <= FifoDepth
    /\ clint.mtime \in Times /\ clint.mtimecmp \in Times
    /\ Len(posted) <= StoreDepth

\* No instruction, trap or interrupt that stays below machine mode changes
\* machine state: the supervisor's views (sstatus, sie, sip) and delegated
\* traps never reach it.
MachineIsolated ==
    [][csr.priv < M /\ csr'.priv < M => MachineState(csr') = MachineState(csr)]_vars

\* mret and sret give the interrupted program back the mode, the interrupt
\* enables and the pc it had when the trap came, nested traps included.
ReturnsRestore ==
    [][Len(frames') < Len(frames) => Frame(csr', pc') = Last(frames)]_vars

\* The level the UART drives into the PLIC is its current one; only a byte the
\* stdin thread has just delivered may still be unannounced.
UartLineFresh ==
    /\ UART_SOURCE \in plic.level => irq_level(uart)
    /\ THRI \in uart.ier /\ uart.thre_ip => UART_SOURCE \in plic.level

\* Software receives the bytes taken into the FIFO in their order, each once.
\* A load of RBR that a machine interrupt catches before it commits has taken
\* its byte and takes another, or 0 if there is none: then bytes may be
\* missing, not reordered.  While a character to transmit is in the store
\* buffer, RBR, at the same address, reads that character.
InFlight == IF pc = Receive /\ ex.done THEN <<ex.value>> ELSE <<>>

BytesInOrder ==
    LET seen == got \o InFlight \o uart.fifo
        Typed(i) == seen[i] \notin {0, SENT_CHAR}
    IN  /\ ~Software.timer /\ Software.sends = 0 => seen = arrived
        /\ \A i, j \in 1..Len(seen) : i < j /\ Typed(i) /\ Typed(j) => seen[i] < seen[j]

\* A timer interrupt is taken only when the time software asked for has come,
\* or while a store of the CLINT has not left the store buffer.
TimerTrap ==
    /\ Len(frames') > Len(frames)
    /\ csr'.priv = M /\ csr'.mcause = [interrupt |-> TRUE, code |-> 7]

NoEarlyTimer ==
    [][TimerTrap => \/ clint.mtime >= deadline
                    \/ \E i \in DOMAIN posted : posted[i].dev = "clint"]_vars

\* When software polls the start bit of the DMA engine and finds it clear, the
\* destination holds what the source held, the store that came just before
\* the transfer and overlapping ranges included; a transfer outside memory
\* ends just as quietly.
DmaDoneMeansCopied ==
    Software.name = "dma" /\ pc = Idle
      /\ InMemory(mem, dma.src, dma.len) /\ InMemory(mem, dma.dst, dma.len) =>
        \A i \in 0..(dma.len - 1) : mem[dma.dst + i] = Software.source[dma.src + i]

\* Every byte in the FIFO is read at last, whatever the order in which
\* software configured PLIC and UART, and though timer interrupts can swallow
\* a claim.
ConsoleServed == (uart.fifo # <<>>) ~> (uart.fifo = <<>>)

\* Every character is transmitted, each on an interrupt of its own.
TxFinishes == (Software.sends > 0) ~> (uart.sent = Software.sends)

\* A deadline software sets is followed by the interrupt, in which it sets the
\* next, until it wants no more.
TimerFires == (deadline # Never) ~> (deadline = Never)

\* A transfer of a length other than 0 clears the start bit for the polling
\* software.
DmaFinishes == (Software.name = "dma" /\ Software.len > 0) ~> (pc = Idle)
==============================================================================
