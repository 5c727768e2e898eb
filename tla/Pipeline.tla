------------------------------ MODULE Pipeline ------------------------------
(***************************************************************************)
(* The six-stage core, CPURV64P6_Cycle::cycle_thread: front end and back   *)
(* end composed, one clock cycle after the other.                          *)
(***************************************************************************)
EXTENDS Frontend, Backend

Next ==
    \/ LatchTransfer
    \/ cpu_process_IRQ
    \/ Commit_stage
    \/ EX_stage
    \/ Issue_stage
    \/ Issue_illegal
    \/ ID_stage
    \/ Fetch_stage
    \/ PCGen_stage

\* Fault: an idle core that waits for an interrupt counts as finished.
Terminates_in_wfi ==
    /\ stage = "latch" /\ ~prev_cycle_flush
    /\ {pcgen_fetch_reg, pcgen_fetch_next, fetch_id_reg, id_issue_reg,
        issue_ex_reg} = {Bubble}
    /\ is_empty(scoreboard)

\* End of a cycle: nothing in the latches, nothing in the scoreboard, and no
\* redirect or wait for an interrupt that would explain it.
Terminates ==
    /\ stage = "latch" /\ ~prev_cycle_flush /\ ~wfi_stall
    /\ {pcgen_fetch_reg, pcgen_fetch_next, fetch_id_reg, id_issue_reg,
        issue_ex_reg} = {Bubble}
    /\ is_empty(scoreboard)

\* cycle_thread is one SystemC thread: every stage runs in every cycle.
Spec == Init /\ [][Next]_vars
FairSpec == Spec /\ WF_vars(Next)

-----------------------------------------------------------------------------
(* Properties. *)

Latch(l) == l = Bubble \/ (l.pc \in PC /\ l.predicted \in PC \cup {NotTaken})

\* Types of the latches, queues, units and flags of CPURV64P6_Cycle.
TypeOK ==
    /\ next_pc \in PC /\ pc_redirect_target \in PC /\ mepc \in PC
    /\ \A l \in {pcgen_fetch_reg, pcgen_fetch_next, fetch_id_next, fetch_id_reg,
                 id_issue_reg, id_issue_next, issue_ex_reg, issue_ex_next} :
          Latch(l)
    /\ Len(fetch_queue) <= FETCH_QUEUE_CAPACITY
    /\ Len(spec_stores) <= SPEC_DEPTH
    /\ committed_stores \in 0 .. COMMIT_DEPTH
    /\ scoreboard.count \in 0 .. SIZE
    /\ \A u \in Units : fu[u].busy => fu[u].remaining > 0

\* To the programmer the pipeline is the sequential machine: instructions
\* retire one by one along the program's path, none lost, none twice, and every
\* trap saves the address and mode of the first that did not retire, whatever
\* is in flight when a branch, an exception, an interrupt or a stall hits
\* (cycle_thread and the six stages).
Sequential == INSTANCE Machine
ImplementsMachine == Sequential!Spec

\* The scoreboard's cursors and valid bits agree in every cycle, however
\* allocation, retirement and the two flushes interleave (Scoreboard.h).
ScoreboardRing == ScoreboardCoherent(scoreboard)

\* Entries in flight whose store EX has put into the store buffer.
ExecutedStores ==
    {i \in 0 .. SIZE - 1 : /\ InFlight(scoreboard, i)
                           /\ scoreboard.entries[i].is_store
                           /\ scoreboard.entries[i].ready}

\* The speculative store queue lists exactly the executed, uncommitted stores in
\* program order, so that commit_store pops the store at the scoreboard head
\* (StoreBuffer.h: "spec_head always holds the store currently at the scoreboard
\* head") although it ignores the index it is given.
StoreQueueMatchesScoreboard ==
    /\ {spec_stores[k] : k \in DOMAIN spec_stores} = ExecutedStores
    /\ \A j, k \in DOMAIN spec_stores :
          j < k => Position(scoreboard, spec_stores[j])
                      < Position(scoreboard, spec_stores[k])

\* Between cycles the busy units and the unfinished entries match one to one: a
\* unit never completes an entry after it was flushed or given to another
\* instruction, and no entry waits for a unit that forgot it (the EX ticks, the
\* structural hazards of Issue and the cancellations on every kind of flush).
Unexecuted ==
    LET latches == IF stall_ex THEN {issue_ex_next, issue_ex_reg}
                   ELSE {issue_ex_next}
    IN  {l.rob_index : l \in latches \ {Bubble}}

UnitsServeLiveEntries ==
    stage = "latch" =>
        /\ \A u \in Units : fu[u].busy =>
              /\ InFlight(scoreboard, fu[u].trans_id)
              /\ ~scoreboard.entries[fu[u].trans_id].ready
              /\ \A v \in Units \ {u} :
                    fu[v].busy => fu[v].trans_id # fu[u].trans_id
        /\ \A i \in 0 .. SIZE - 1 :
              (InFlight(scoreboard, i) /\ ~scoreboard.entries[i].ready) =>
                 \/ i \in Unexecuted
                 \/ \E u \in Units : fu[u].busy /\ fu[u].trans_id = i

\* The instruction in EX is the youngest entry of the scoreboard: a mispredicted
\* branch never finds a younger entry to flush (Issue and EX share a cycle).
ExIsYoungest ==
    (stage = "ex" /\ issue_ex_reg # Bubble /\ ~flush_pipeline) =>
        /\ ~is_empty(scoreboard)
        /\ scoreboard.tail = (issue_ex_reg.rob_index + 1) % SIZE

\* What commits is the instruction's own result, never a placeholder or the
\* contents of a fresh entry (complete and its callers in EX).
CommitsComputedResults ==
    head_ready(scoreboard) => get_head(scoreboard).result = Computed

\* An effect that EX applies at once (AMO and SC writes, CSR writes, FP register
\* writes) is applied once per instruction that retires: of one address there are
\* never more unretired applications than instances of it in flight.
EffectsAppliedOnce ==
    \A p \in PC :
       \/ applied[p] <= 1
       \/ applied[p] <= Cardinality({i \in 0 .. SIZE - 1 :
                              InFlight(scoreboard, i) /\ scoreboard.entries[i].pc = p})

\* An atomic executes with an empty store buffer: what Issue saw one cycle
\* earlier still holds when EX writes memory past the buffer.
AtomicsFindBufferEmpty ==
    (stage = "ex" /\ issue_ex_reg # Bubble /\ KindAt(issue_ex_reg.pc) = "AMO")
        => buffer_empty

\* The simulation never stops (Terminates) while the program goes on.
NeverStopsEarly == [][PCGen_stage => ~Terminates']_vars

\* Unless interrupts go on for ever, instructions keep retiring: no combination
\* of stalls, replays, full queues, traps and refills stops the pipeline for good.
KeepsRetiring ==
    <>[][stage = "irq" => ~TakeInterrupt]_vars =>
        []<><<Commit_stage /\ scoreboard'.head # scoreboard.head>>_vars

-----------------------------------------------------------------------------
(* Programs.  The six-stage core is not precise for every program: what each *)
(* class below leaves out is a behaviour of the code that breaks a property. *)

\* A DTLB walk never meets a store: ExLoad sends a load back whose walk has
\* already started a slot with a placeholder when the buffer answers
\* PARTIAL_OVERLAP.
WalksAlone(p) == "dtlb" \in p.events => \A a \in PC : p.code[a].kind # "STORE"

\* Nothing younger than Issue flushes: PCGen would drop the latch to EX, and the
\* entry of the instruction in it would never be completed.
LateFlushFree(p) == "stale_btb" \notin p.events /\ "fetch_fault" \notin p.events

\* Nothing drops an instruction after its effect: neither an interrupt nor the
\* drain for an illegal instruction.
EffectFree(p) == \A a \in PC : p.code[a].kind \notin {"AMO", "CSR", "FP"}
EffectsRetire(p) ==
    \/ EffectFree(p)
    \/ "irq" \notin p.events /\ \A a \in PC : p.code[a].kind # "ILLEGAL"

\* Kinds that are ready as soon as EX has run them and that Commit never holds.
Swift(kind) == kind \notin {"MUL", "DIV", "FP", "LOAD", "STORE"}

Quick(p) == \A a \in PC : Swift(p.code[a].kind)

\* EX never sends an instruction back to its latch, where fetch stalls would make
\* the front end fetch an instruction twice.
ReplayFree(p) ==
    /\ "fault" \notin p.events
    /\ \A a \in PC : p.code[a].kind # "ECALL"
    /\ \/ \A a \in PC : p.code[a].kind # "LOAD"
       \/ \A a \in PC : p.code[a].kind # "STORE"

\* Jumps stay in their mode, only the handler returns from traps or waits where
\* mstatus.TW forbids it, and only user code traps on its own account; WFI and
\* SFENCE.VMA are never compressed.
ModesRespected(p) ==
    \A a \in PC :
       /\ p.code[a].kind = "BRANCH" => PrivOf(p.code[a].target) = PrivOf(a)
       /\ p.code[a].kind = "MRET" => PrivOf(a) = "M"
       /\ p.code[a].kind = "WFI" /\ "tw" \in p.events => PrivOf(a) = "M"
       /\ p.code[a].kind \in {"ECALL", "ILLEGAL"} => PrivOf(a) = "U"
       /\ p.code[a].kind \in {"WFI", "SFENCE"} => p.code[a].size = 2

\* Programs that the core runs like the sequential machine.  The trap of a fetch
\* and that of an illegal instruction discard older instructions that are not
\* ready, and so does an interrupt that follows a return from the handler.
Orderly(p) ==
    /\ WalksAlone(p) /\ LateFlushFree(p) /\ ModesRespected(p)
    /\ p.stalls = {} \/ ReplayFree(p)
    /\ "target_fault" \in p.events \/ (\E a \in PC : p.code[a].kind = "ILLEGAL")
          => Quick(p)
    /\ "irq" \in p.events =>
          \A a \in PC : PrivOf(a) = "M" => Swift(p.code[a].kind)
=============================================================================
