------------------------------ MODULE Backend ------------------------------
(***************************************************************************)
(* The back end of the six-stage core: the interrupt check, Commit, EX and *)
(* Issue (src/CPU_P64_6_Cycle.cpp).  Operand values are abstracted to      *)
(* "needs a result that is not there yet"; addresses to the three answers  *)
(* of the store buffer and the hit or miss of the D$.                      *)
(***************************************************************************)
EXTENDS PipelineState, FiniteSetsExt

\* What Commit, EX and the interrupt check leave to the front end.
backLatches == <<id_issue_next, latchVars, frontVars, stallVars>>

-----------------------------------------------------------------------------
(* Interrupts *)

\* The oldest instruction that has no entry in the scoreboard.
OldestLatchPC ==
    IF issue_ex_reg # Bubble THEN issue_ex_reg.pc
    ELSE IF id_issue_reg # Bubble THEN id_issue_reg.pc
    ELSE IF fetch_id_reg # Bubble THEN fetch_id_reg.pc
    ELSE IF pcgen_fetch_reg # Bubble THEN pcgen_fetch_reg.pc
    ELSE next_pc

\* The oldest instruction that has not committed.
OldestPC == IF is_empty(scoreboard) THEN OldestLatchPC ELSE get_head(scoreboard).pc

\* Fault: the scoreboard is flushed before the address is read.
IrqEpc_after_flush == IF pending_priv_switch THEN mepc ELSE OldestLatchPC

\* An MRET that has executed has already moved the machine to its target.
IrqEpc == IF pending_priv_switch THEN mepc ELSE OldestPC

\* Every unit but load_hit_fu is cancelled.
CancelForIrq == [u \in Units |-> IF u = Hit THEN fu[u] ELSE Idle]

TakeInterrupt ==
    /\ "irq" \in program.events
    /\ priv = "U"
    /\ scoreboard' = flush(scoreboard)
    /\ spec_stores' = <<>>
    /\ fu' = CancelForIrq
    /\ stall_ex' = FALSE
    /\ mepc' = IrqEpc
    /\ mpp' = priv
    /\ priv' = "M"
    /\ pending_priv_switch' = FALSE
    /\ pc_redirect_target' = HandlerPC
    /\ flush_pipeline' = TRUE
    /\ wfi_stall' = FALSE
    /\ saved' = [pc |-> IrqEpc, priv |-> priv]
    /\ next' = HandlerPC
    /\ UNCHANGED <<committed_stores, last, applied>>

NoInterrupt ==
    UNCHANGED <<backVars, stall_ex, trapVars, flushVars, wfi_stall, historyVars>>

cpu_process_IRQ ==
    /\ stage = "irq"
    /\ stage' = "commit1"
    /\ TakeInterrupt \/ NoInterrupt
    /\ UNCHANGED <<program, backLatches, issue_ex_next, prev_cycle_flush,
                   addressVars>>

-----------------------------------------------------------------------------
(* Commit *)

\* One application of p's effect is accounted for by a retirement.
Settle(p) == [applied EXCEPT ![p] = IF @ > 0 THEN @ - 1 ELSE 0]

\* The head entry becomes architectural; control moves to its successor.
RetireHead(s) ==
    /\ scoreboard' = retire(release(s))
    /\ last' = [pc |-> get_head(s).pc, odd |-> ~last.odd]
    /\ next' = get_head(s).next
    /\ applied' = Settle(get_head(s).pc)
    /\ UNCHANGED saved

\* Pop the oldest speculative store onto the committed queue; refused when the
\* one is empty or the other full.
commit_store(committed) ==
    IF spec_stores = <<>> \/ committed = COMMIT_DEPTH
    THEN committed_stores' = committed /\ UNCHANGED spec_stores
    ELSE committed_stores' = committed + 1 /\ spec_stores' = Tail(spec_stores)

\* Fault: a store retires although the committed queue has no room for it.
CommitPort_unchecked(committed) ==
    /\ head_ready(scoreboard)
    /\ IF get_head(scoreboard).is_store
       THEN commit_store(committed)
       ELSE committed_stores' = committed /\ UNCHANGED spec_stores
    /\ RetireHead(scoreboard)
    /\ pending_priv_switch' = FALSE

\* One commit port, given the number of committed stores after the drain.
CommitPort(committed) ==
    /\ head_ready(scoreboard)
    /\ IF get_head(scoreboard).is_store
       THEN committed < COMMIT_DEPTH /\ commit_store(committed)
       ELSE committed_stores' = committed /\ UNCHANGED spec_stores
    /\ RetireHead(scoreboard)
    /\ pending_priv_switch' = FALSE

\* The loop over the ports ends at the first head that cannot commit.
PortBlocked(committed) ==
    /\ \/ ~head_ready(scoreboard)
       \/ get_head(scoreboard).is_store /\ committed >= COMMIT_DEPTH
    /\ committed_stores' = committed
    /\ UNCHANGED <<scoreboard, spec_stores, pending_priv_switch, historyVars>>

\* Fault: nothing drains while the committed queue is full.
Drained_not_when_full ==
    IF committed_stores > 0 /\ committed_stores < COMMIT_DEPTH
    THEN committed_stores - 1 ELSE committed_stores

Drained == IF committed_stores > 0 THEN committed_stores - 1 ELSE 0

\* One committed store drains to memory, then the two ports.
Commit_stage ==
    /\ \/ /\ stage = "commit1"
          /\ \/ CommitPort(Drained) /\ stage' = "commit2"
             \/ PortBlocked(Drained) /\ stage' = "ex"
       \/ /\ stage = "commit2"
          /\ stage' = "ex"
          /\ CommitPort(committed_stores) \/ PortBlocked(committed_stores)
    /\ UNCHANGED <<program, backLatches, issue_ex_next, stall_ex, wfi_stall,
                   flushVars, prev_cycle_flush, addressVars, fu, priv, mpp, mepc>>
-----------------------------------------------------------------------------
(* EX *)

\* Fault: the counter is tested before it is decremented.
Done_late(u) == fu[u].busy /\ fu[u].remaining = 0

\* The units count down; the one that reaches zero completes its entry.
Done(u) == fu[u].busy /\ fu[u].remaining = 1

TickedUnits ==
    [u \in Units |-> IF Done(u) THEN Idle
                     ELSE IF fu[u].busy THEN [fu[u] EXCEPT !.remaining = @ - 1]
                     ELSE fu[u]]

\* Places in the order of the ticks of the units that complete entry i.
Completing(i) ==
    {k \in DOMAIN TickOrder : Done(TickOrder[k]) /\ fu[TickOrder[k]].trans_id = i}

TickedEntry(i) ==
    IF Completing(i) = {} THEN scoreboard.entries[i]
    ELSE [scoreboard.entries[i] EXCEPT !.ready = TRUE, !.rd = 0,
              !.result = fu[TickOrder[Max(Completing(i))]].result]

TickedScoreboard ==
    [scoreboard EXCEPT !.entries = [i \in 0 .. SIZE - 1 |-> TickedEntry(i)]]

\* In the operators below s and f are the scoreboard and the units after the
\* ticks, and i is the instruction in EX.

has_unready_older(s) == ~is_empty(s) /\ s.head # issue_ex_reg.rob_index

Resolve(s, p) == [s EXCEPT !.entries[issue_ex_reg.rob_index].next = p]
Complete(s, p) ==
    complete(Resolve(s, p), issue_ex_reg.rob_index, Computed, 0)

Start(f, u, cycles, result) ==
    [f EXCEPT ![u] = [busy |-> TRUE, remaining |-> cycles, result |-> result,
                      trans_id |-> issue_ex_reg.rob_index]]

\* First free slot of a unit with several; slot 1 if, against expectation, all
\* are taken.
FreeSlot(f, unit, slots) ==
    LET free == {k \in 1 .. slots : ~f[<<unit, k>>].busy}
    IN  IF free = {} THEN <<unit, 1>> ELSE <<unit, First(free)>>

\* The latch keeps the instruction and EX runs it again in the next cycle.
Replay(s, f) ==
    /\ stall_ex' = TRUE
    /\ scoreboard' = s
    /\ fu' = f
    /\ UNCHANGED <<spec_stores, committed_stores, flushVars, wfi_stall,
                   trapVars, historyVars>>

\* Committed stores drain, everything in flight is dropped, and the handler
\* starts with the address of the instruction in EX.
TakeException(s) ==
    /\ stall_ex' = FALSE
    /\ scoreboard' = flush(s)
    /\ fu' = AllIdle
    /\ spec_stores' = <<>>
    /\ committed_stores' = 0
    /\ mepc' = issue_ex_reg.pc /\ mpp' = priv /\ priv' = "M"
    /\ flush_pipeline' = TRUE /\ pc_redirect_target' = HandlerPC
    /\ saved' = [pc |-> issue_ex_reg.pc, priv |-> priv]
    /\ next' = HandlerPC
    /\ UNCHANGED <<wfi_stall, pending_priv_switch, last, applied>>

\* Fault: an exception does not wait for the older instructions.
ExTrap_early(s, f) == TakeException(s)

\* Exception: replayed until no older instruction is left.
ExTrap(s, f) == IF has_unready_older(s) THEN Replay(s, f) ELSE TakeException(s)

\* What an instruction that neither stalls nor redirects leaves alone.
Proceed == /\ stall_ex' = FALSE
           /\ UNCHANGED <<committed_stores, flushVars, wfi_stall, trapVars,
                          last, next, saved>>

\* Register-only instructions, and the effects that EX applies at once.
ExAlu(s, f) ==
    /\ scoreboard' = Complete(s, Following(program, issue_ex_reg.pc))
    /\ fu' = f
    /\ Proceed
    /\ UNCHANGED <<spec_stores, applied>>

\* The count of unretired applications ends at one more than can be in flight.
Apply(p) == [applied EXCEPT ![p] = IF @ <= SIZE THEN @ + 1 ELSE @]

\* Fault: the effect comes first, then EX waits for the older instructions.
ExAtomic_then_waits(s, f) ==
    /\ applied' = Apply(issue_ex_reg.pc)
    /\ fu' = f
    /\ IF has_unready_older(s)
       THEN stall_ex' = TRUE /\ scoreboard' = s
       ELSE /\ stall_ex' = FALSE
            /\ scoreboard' = Complete(s, Following(program, issue_ex_reg.pc))
    /\ UNCHANGED <<spec_stores, committed_stores, flushVars, wfi_stall,
                   trapVars, last, next, saved>>

\* AMO and SC write memory in EX.
ExAtomic(s, f) ==
    /\ scoreboard' = Complete(s, Following(program, issue_ex_reg.pc))
    /\ fu' = f
    /\ applied' = Apply(issue_ex_reg.pc)
    /\ Proceed
    /\ UNCHANGED spec_stores

\* So do CSR instructions write their register; satp also restarts fetch.
ExCsr(s, f) ==
    /\ scoreboard' = Complete(s, Following(program, issue_ex_reg.pc))
    /\ fu' = f
    /\ applied' = Apply(issue_ex_reg.pc)
    /\ stall_ex' = FALSE
    /\ \/ UNCHANGED flushVars
       \/ /\ flush_pipeline' = TRUE
          /\ pc_redirect_target' = Following(program, issue_ex_reg.pc)
    /\ UNCHANGED <<spec_stores, committed_stores, wfi_stall, trapVars,
                   last, next, saved>>

\* Multiplier, divider.
ExLong(s, f, u) ==
    /\ scoreboard' = Resolve(s, Following(program, issue_ex_reg.pc))
    /\ fu' = Start(f, u, Latency[u[1]], Computed)
    /\ Proceed
    /\ UNCHANGED <<spec_stores, applied>>

\* FPU: execute writes the FP register file now, the slot models the latency.
ExFp(s, f) ==
    /\ scoreboard' = Resolve(s, Following(program, issue_ex_reg.pc))
    /\ fu' = Start(f, FreeSlot(f, "fpu", FpuSlots), Latency["fpu"], Computed)
    /\ applied' = Apply(issue_ex_reg.pc)
    /\ Proceed
    /\ UNCHANGED spec_stores

\* Load.  A DTLB miss occupies a miss slot at once, with a placeholder result;
\* a replay finds the translation in the TLB.  Then the store buffer answers,
\* and only after a MISS is the D$ consulted.
ExLoad(s, f) ==
    \E walk \in {w \in BOOLEAN : w => ("dtlb" \in program.events /\ ~stall_ex)},
       answer \in IF spec_stores = <<>> /\ committed_stores = 0 THEN {"MISS"}
                  ELSE {"MISS", "HIT", "PARTIAL_OVERLAP"},
       dcache_hit \in BOOLEAN :
       LET slot == FreeSlot(f, "miss", DcacheSlots)
           g    == IF walk THEN Start(f, slot, Latency["miss"], Zero) ELSE f
           hit  == IF g[Hit].busy THEN g
                   ELSE Start(g, Hit, Latency["hit"], Computed)
       IN  IF answer = "PARTIAL_OVERLAP"
           THEN Replay(s, g)
           ELSE /\ fu' = CASE answer = "HIT" -> hit
                           [] answer = "MISS" /\ walk ->
                                 [g EXCEPT ![slot].result = Computed]
                           [] answer = "MISS" /\ ~walk ->
                                 IF dcache_hit THEN hit
                                 ELSE Start(f, slot, Latency["miss"], Computed)
                /\ scoreboard' = Resolve(s, Following(program, issue_ex_reg.pc))
                /\ Proceed
                /\ UNCHANGED <<spec_stores, applied>>

\* Store: add_store refuses when the queue is full, and EX does not look.
ExStore(s, f) ==
    /\ spec_stores' = IF Len(spec_stores) = SPEC_DEPTH THEN spec_stores
                      ELSE Append(spec_stores, issue_ex_reg.rob_index)
    /\ scoreboard' = Complete(s, Following(program, issue_ex_reg.pc))
    /\ fu' = f
    /\ Proceed
    /\ UNCHANGED applied

RedirectTo(p) == flush_pipeline' = TRUE /\ pc_redirect_target' = p

\* store_buffer.flush_speculative(idx, scoreboard): the youngest stores whose
\* entries the scoreboard flush s has just dropped.
StoresKept(s) ==
    SubSeq(spec_stores, 1,
           Max({0} \cup {k \in DOMAIN spec_stores :
                            s.entries[spec_stores[k]].valid}))

CancelFlushed(s, f) ==
    [u \in Units |->
        IF f[u].busy /\ ~s.entries[f[u].trans_id].valid THEN Idle ELSE f[u]]

\* Branch: compared with its prediction; a wrong one drops what is younger.
ExBranch(s, f) ==
    \E taken \in BOOLEAN :
       LET i == issue_ex_reg
           t == IF taken THEN program.code[i.pc].target ELSE Following(program, i.pc)
           correct == i.predicted = (IF taken THEN t ELSE NotTaken)
           kept == flush_speculative(s, i.rob_index)
       IN  /\ IF correct
              THEN /\ scoreboard' = Complete(s, t)
                   /\ fu' = f
                   /\ UNCHANGED <<flushVars, spec_stores>>
              ELSE /\ scoreboard' = Complete(kept, t)
                   /\ fu' = CancelFlushed(kept, f)
                   /\ spec_stores' = StoresKept(kept)
                   /\ RedirectTo(t)
           /\ stall_ex' = FALSE
           /\ UNCHANGED <<committed_stores, wfi_stall, trapVars, historyVars>>

\* MRET (and SRET) below machine mode, WFI that mstatus.TW refuses.
Forbidden(kind) ==
    priv = "U" /\ (kind = "MRET" \/ (kind = "WFI" /\ "tw" \in program.events))

\* Their exception waits for nothing and drops nothing: the older instructions
\* retire in the handler's mode, and so does the refused one.
ExRefused(s, f) ==
    /\ scoreboard' = Complete(s, HandlerPC)
    /\ fu' = f
    /\ RedirectTo(HandlerPC)
    /\ mepc' = issue_ex_reg.pc /\ mpp' = priv /\ priv' = "M"
    /\ saved' = [pc |-> issue_ex_reg.pc, priv |-> priv]
    /\ stall_ex' = FALSE
    /\ UNCHANGED <<pending_priv_switch, spec_stores, committed_stores, wfi_stall,
                   last, next, applied>>

\* MRET leaves the handler when it executes, not when it commits.
ExMret(s, f) ==
    /\ scoreboard' = Complete(s, mepc)
    /\ fu' = f
    /\ RedirectTo(mepc)
    /\ priv' = mpp /\ mpp' = "U"
    /\ pending_priv_switch' = TRUE
    /\ stall_ex' = FALSE
    /\ UNCHANGED <<mepc, spec_stores, committed_stores, wfi_stall, historyVars>>

\* WFI and SFENCE.VMA restart fetch behind themselves; WFI also sleeps.
ExRestart(s, f, sleeps) ==
    /\ scoreboard' = Complete(s, Following(program, issue_ex_reg.pc))
    /\ fu' = f
    /\ wfi_stall' = (wfi_stall \/ sleeps)
    /\ RedirectTo(Advance(program, issue_ex_reg.pc, 2))
    /\ stall_ex' = FALSE
    /\ UNCHANGED <<spec_stores, committed_stores, trapVars, historyVars>>

\* Instructions whose address translation or privilege check may fail.
MayTrap(kind) == "fault" \in program.events /\ priv = "U"
                 /\ kind \in {"LOAD", "STORE", "AMO", "CSR"}

ExInstruction(s, f, kind) ==
    \/ MayTrap(kind) /\ ExTrap(s, f)
    \/ kind = "ALU"    /\ ExAlu(s, f)
    \/ kind = "MUL"    /\ ExLong(s, f, Mul)
    \/ kind = "DIV"    /\ ExLong(s, f, Div)
    \/ kind = "FP"     /\ ExFp(s, f)
    \/ kind = "LOAD"   /\ ExLoad(s, f)
    \/ kind = "STORE"  /\ ExStore(s, f)
    \/ kind = "BRANCH" /\ ExBranch(s, f)
    \/ kind = "AMO"    /\ ExAtomic(s, f)
    \/ kind = "CSR"    /\ ExCsr(s, f)
    \/ Forbidden(kind) /\ ExRefused(s, f)
    \/ kind = "MRET"   /\ ~Forbidden(kind) /\ ExMret(s, f)
    \/ kind = "ECALL"  /\ ExTrap(s, f)
    \/ kind \in {"WFI", "SFENCE"} /\ ~Forbidden(kind) /\ ExRestart(s, f, kind = "WFI")

\* A load has completed: its register may be the base of an address.
LoadDone == \E u \in Units : u[1] \in {"miss", "hit", "fpu"} /\ Done(u)

EX_stage ==
    /\ stage = "ex"
    /\ stage' = "issue"
    /\ IF issue_ex_reg = Bubble \/ flush_pipeline
       THEN /\ scoreboard' = TickedScoreboard
            /\ fu' = TickedUnits
            /\ stall_ex' = FALSE
            /\ UNCHANGED <<spec_stores, committed_stores, flushVars, wfi_stall,
                           trapVars, historyVars>>
       ELSE ExInstruction(TickedScoreboard, TickedUnits,
                          KindAt(issue_ex_reg.pc))
    /\ prev_cycle_flush' = flush_pipeline'
    /\ address_paid' = (address_paid /\ ~LoadDone)
    /\ UNCHANGED <<program, backLatches, issue_ex_next, load_addr_extra>>

-----------------------------------------------------------------------------
(* Issue *)

buffer_empty == spec_stores = <<>> /\ committed_stores = 0

AllBusy(unit, slots) == \A k \in 1 .. slots : fu[<<unit, k>>].busy

\* A source operand may be produced by an entry that is not ready, or by the shift
\* or CSR write now in EX that forces one bubble.
OperandStall ==
    \/ issue_ex_reg # Bubble
    \/ \E i \in 0 .. SIZE - 1 :
          InFlight(scoreboard, i) /\ ~scoreboard.entries[i].ready

\* Fault: Issue does not look whether the divider is still working.
UnitBusy_div_unchecked(kind) ==
    \/ kind = "MUL" /\ fu[Mul].busy
    \/ kind = "FP" /\ AllBusy("fpu", FpuSlots)
    \/ kind \in {"LOAD", "AMO"} /\ (AllBusy("miss", DcacheSlots) \/ fu[Hit].busy)

UnitBusy(kind) ==
    \/ kind = "MUL" /\ fu[Mul].busy
    \/ kind = "DIV" /\ fu[Div].busy
    \/ kind = "FP" /\ AllBusy("fpu", FpuSlots)
    \/ kind \in {"LOAD", "AMO"} /\ (AllBusy("miss", DcacheSlots) \/ fu[Hit].busy)

\* Fault: an atomic waits for a slot, like a store, not for the drain.
BufferHazard_atomic_as_store(kind) ==
    kind \in {"STORE", "AMO"} /\ Len(spec_stores) = SPEC_DEPTH

\* A store needs a slot, an atomic an empty buffer.
BufferHazard(kind) ==
    \/ kind = "STORE" /\ Len(spec_stores) = SPEC_DEPTH
    \/ kind = "AMO" /\ ~buffer_empty

\* SYSTEM instructions wait for every multi-cycle unit.
Serialized(kind) ==
    kind \in {"CSR", "ECALL", "MRET", "WFI", "SFENCE"} /\ \E u \in Units : fu[u].busy

Hazard(kind) ==
    UnitBusy(kind) \/ BufferHazard(kind) \/ Serialized(kind) \/ is_full(scoreboard)

\* Fault: the latch to EX keeps the instruction issued before.
Held_keeps_latch ==
    /\ stall_issue' = TRUE
    /\ UNCHANGED <<scoreboard, issue_ex_next>>

Held ==
    /\ issue_ex_next' = Bubble
    /\ stall_issue' = TRUE
    /\ UNCHANGED scoreboard

Dispatch(i, kind) ==
    /\ scoreboard' = allocate(scoreboard, [pc |-> i.pc, fp |-> FALSE,
                                           is_store |-> kind = "STORE"])
    /\ issue_ex_next' = IF kind = "ILLEGAL" THEN Bubble
                        ELSE [pc |-> i.pc, predicted |-> i.predicted,
                              rob_index |-> scoreboard.tail]
    /\ stall_issue' = FALSE

load_addr_penalty == 2

\* A memory instruction whose base register a load has produced is held for
\* load_addr_penalty cycles, once.  The count survives a flush, and then holds
\* whatever comes next.
AddressBubble(kind) ==
    \/ /\ load_addr_extra > 0
       /\ load_addr_extra' = load_addr_extra - 1
       /\ UNCHANGED address_paid
    \/ /\ load_addr_extra = 0
       /\ "load_addr" \in program.events
       /\ kind \in {"LOAD", "STORE", "AMO", "FP"} /\ ~address_paid
       /\ load_addr_extra' = load_addr_penalty - 1
       /\ address_paid' = TRUE

MustWait(kind) ==
    /\ load_addr_extra = 0
    /\ OperandStall \/ Hazard(kind)
    /\ UNCHANGED addressVars

IssueInstruction(i, kind) ==
    \/ /\ AddressBubble(kind) \/ MustWait(kind)
       /\ Held
       /\ stage' = "id"
    \/ /\ load_addr_extra = 0 /\ ~Hazard(kind)
       /\ Dispatch(i, kind)
       /\ address_paid' = FALSE /\ UNCHANGED load_addr_extra
       /\ stage' = IF kind = "ILLEGAL" THEN "drain" ELSE "id"

Issue_stage ==
    /\ stage = "issue"
    /\ \/ /\ stall_ex
          /\ Held
          /\ stage' = "id"
          /\ UNCHANGED <<stall_pcgen, stall_fetch, addressVars>>
       \/ /\ ~stall_ex
          /\ stall_pcgen' = FALSE /\ stall_fetch' = FALSE
          /\ IF flush_pipeline \/ id_issue_reg = Bubble
             THEN /\ issue_ex_next' = Bubble
                  /\ stall_issue' = FALSE
                  /\ stage' = "id"
                  /\ address_paid' = FALSE
                  /\ UNCHANGED <<scoreboard, load_addr_extra>>
             ELSE IssueInstruction(id_issue_reg, KindAt(id_issue_reg.pc))
    /\ UNCHANGED <<program, latchVars, frontVars, id_issue_next, stall_ex,
                   wfi_stall, flushVars, prev_cycle_flush, fu, spec_stores,
                   committed_stores, trapVars, historyVars>>

\* Illegal instruction: Issue itself retires the ready entries, ...
DrainReady ==
    /\ head_ready(scoreboard)
    /\ scoreboard' = retire(scoreboard)
    /\ last' = [pc |-> get_head(scoreboard).pc, odd |-> ~last.odd]
    /\ next' = get_head(scoreboard).next
    /\ applied' = Settle(get_head(scoreboard).pc)
    /\ IF get_head(scoreboard).is_store
       THEN commit_store(committed_stores)
       ELSE UNCHANGED <<committed_stores, spec_stores>>
    /\ stage' = "drain"
    /\ UNCHANGED <<fu, flushVars, trapVars, saved>>

\* ... and, at the first that is not, drops the rest and takes the exception.
IllegalTrap ==
    /\ ~head_ready(scoreboard)
    /\ scoreboard' = flush(scoreboard)
    /\ fu' = AllIdle
    /\ spec_stores' = <<>> /\ committed_stores' = 0
    /\ mepc' = id_issue_reg.pc /\ mpp' = priv /\ priv' = "M"
    /\ RedirectTo(HandlerPC)
    /\ saved' = [pc |-> id_issue_reg.pc, priv |-> priv]
    /\ next' = HandlerPC
    /\ stage' = "id"
    /\ UNCHANGED <<pending_priv_switch, last, applied>>

Issue_illegal ==
    /\ stage = "drain"
    /\ DrainReady \/ IllegalTrap
    /\ UNCHANGED <<program, backLatches, issue_ex_next, stall_ex, wfi_stall,
                   prev_cycle_flush, addressVars>>
=============================================================================
