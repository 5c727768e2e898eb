------------------------------ MODULE Frontend ------------------------------
(***************************************************************************)
(* The front end of the six-stage core: the latch transfer at the clock    *)
(* edge, ID, Fetch and PCGen (src/CPU_P64_6_Cycle.cpp).  Branch prediction *)
(* is a choice of PCGen among not taken and the targets the BTB may hold;  *)
(* an I$ access hits or misses, and hits the line refilled last.           *)
(***************************************************************************)
EXTENDS PipelineState

QueueAfterPush ==
    IF fetch_id_next # Bubble /\ Len(fetch_queue) < FETCH_QUEUE_CAPACITY
    THEN Append(fetch_queue, fetch_id_next) ELSE fetch_queue

\* Clock edge.  A core that waits for an interrupt first looks for one; without
\* the event "wake" the interrupt only comes as a trap.
LatchTransfer ==
    /\ stage = "latch"
    /\ stage' = "irq"
    /\ \/ UNCHANGED wfi_stall
       \/ wfi_stall /\ "wake" \in program.events /\ wfi_stall' = FALSE
    /\ IF prev_cycle_flush
       THEN /\ issue_ex_reg' = Bubble
            /\ id_issue_reg' = Bubble
            /\ fetch_id_reg' = Bubble
            /\ UNCHANGED <<fetch_queue, fetch_id_next>>
       ELSE /\ issue_ex_reg' = IF stall_ex THEN issue_ex_reg ELSE issue_ex_next
            /\ id_issue_reg' = IF stall_issue THEN id_issue_reg ELSE id_issue_next
            /\ fetch_id_next' = Bubble
            /\ IF stall_issue
               THEN /\ fetch_queue' = QueueAfterPush
                    /\ UNCHANGED fetch_id_reg
               ELSE IF QueueAfterPush = <<>>
                    THEN /\ fetch_queue' = <<>>
                         /\ fetch_id_reg' = Bubble
                    ELSE /\ fetch_queue' = Tail(QueueAfterPush)
                         /\ fetch_id_reg' = Head(QueueAfterPush)
    /\ pcgen_fetch_reg' = pcgen_fetch_next
    /\ UNCHANGED <<program, next_pc, taken_redirect_bubble,
                   icache_miss_remaining, icache_line, pcgen_fetch_next,
                   id_issue_next, issue_ex_next, stallVars, stall_ex,
                   flushVars, prev_cycle_flush, addressVars, backVars, trapVars,
                   historyVars>>

-----------------------------------------------------------------------------
(* ID *)

\* A prediction for something that is no branch is corrected here.
Misprediction(i) == i.predicted # NotTaken /\ KindAt(i.pc) # "BRANCH"

ID_stage ==
    /\ stage = "id"
    /\ stage' = "fetch"
    /\ \/ /\ flush_pipeline
          /\ id_issue_next' = Bubble
          /\ UNCHANGED flushVars
       \/ /\ ~flush_pipeline /\ stall_issue
          /\ UNCHANGED <<id_issue_next, flushVars>>
       \/ /\ ~flush_pipeline /\ ~stall_issue
          /\ id_issue_next' = fetch_id_reg
          /\ IF fetch_id_reg # Bubble /\ Misprediction(fetch_id_reg)
                /\ KindAt(fetch_id_reg.pc) # "ILLEGAL"
             THEN /\ flush_pipeline' = TRUE
                  /\ pc_redirect_target' = Following(program, fetch_id_reg.pc)
             ELSE UNCHANGED flushVars
    /\ UNCHANGED <<program, frontVars, latchVars, issue_ex_next, stallVars,
                   stall_ex, wfi_stall, prev_cycle_flush, addressVars, backVars,
                   trapVars, historyVars>>

-----------------------------------------------------------------------------
(* Fetch *)

queue_full == Len(fetch_queue) >= FETCH_QUEUE_CAPACITY

\* Nothing delivered, and PCGen held if hold.
NoDelivery(hold) ==
    /\ fetch_id_next' = Bubble
    /\ stall_pcgen' = (stall_pcgen \/ hold)
    /\ UNCHANGED <<next_pc, stall_fetch, flushVars, trapVars, historyVars>>

CountDown ==
    /\ icache_miss_remaining > 0
    /\ icache_miss_remaining' = icache_miss_remaining - 1
    /\ NoDelivery(TRUE)
    /\ UNCHANGED icache_line

\* ITLB or I$ miss: hold PCGen for n cycles more; the line is warm afterwards.
FetchMiss(n) ==
    /\ icache_miss_remaining = 0
    /\ icache_line # pcgen_fetch_reg.pc
    /\ icache_miss_remaining' = n
    /\ icache_line' = pcgen_fetch_reg.pc
    /\ NoDelivery(TRUE)

\* A fetch may fault anywhere, or only where nothing is left in the latches: on
\* the first fetch after a redirect.
FaultPossible ==
    \/ "fetch_fault" \in program.events
    \/ /\ "target_fault" \in program.events
       /\ {fetch_id_reg, id_issue_reg, issue_ex_reg} = {Bubble}
       /\ fetch_queue = <<>>

\* Instruction page or access fault: the trap is taken on the spot.
FetchFault ==
    /\ FaultPossible
    /\ icache_miss_remaining = 0
    /\ priv = "U"
    /\ fetch_id_next' = Bubble
    /\ mepc' = pcgen_fetch_reg.pc
    /\ mpp' = priv
    /\ priv' = "M"
    /\ flush_pipeline' = TRUE
    /\ pc_redirect_target' = HandlerPC
    /\ saved' = [pc |-> pcgen_fetch_reg.pc, priv |-> priv]
    /\ next' = HandlerPC
    /\ UNCHANGED <<next_pc, stall_pcgen, stall_fetch, icache_miss_remaining,
                   icache_line, pending_priv_switch, last, applied>>

\* Fault: next_pc is not corrected after a compressed instruction.
Deliver_full_size ==
    /\ icache_miss_remaining = 0
    /\ fetch_id_next' = pcgen_fetch_reg
    /\ UNCHANGED <<next_pc, stall_pcgen, stall_fetch, flushVars, trapVars,
                   historyVars, icache_miss_remaining, icache_line>>

\* I$ hit.  PCGen has already advanced next_pc by a full instruction.
Deliver ==
    /\ icache_miss_remaining = 0
    /\ fetch_id_next' = pcgen_fetch_reg
    /\ next_pc' = IF /\ program.code[pcgen_fetch_reg.pc].size = 1
                     /\ pcgen_fetch_reg.predicted = NotTaken
                  THEN Advance(program, next_pc, -1) ELSE next_pc
    /\ UNCHANGED <<stall_pcgen, stall_fetch, flushVars, trapVars, historyVars,
                   icache_miss_remaining, icache_line>>

\* The bus answers every transport with TLM_OK_RESPONSE, so fetch_instruction
\* does not fail once the address is translated.
Fetch_stage ==
    /\ stage = "fetch"
    /\ stage' = "pcgen"
    /\ \/ /\ flush_pipeline
          /\ icache_miss_remaining' = 0
          /\ NoDelivery(FALSE)
          /\ UNCHANGED icache_line
       \/ /\ ~flush_pipeline /\ queue_full
          /\ stall_fetch' = TRUE
          /\ UNCHANGED <<next_pc, fetch_id_next, stall_pcgen, flushVars,
                         trapVars, historyVars, icache_miss_remaining,
                         icache_line>>
       \/ /\ ~flush_pipeline /\ ~queue_full /\ stall_fetch
          /\ UNCHANGED <<next_pc, fetch_id_next, stall_pcgen, stall_fetch,
                         flushVars, trapVars, historyVars,
                         icache_miss_remaining, icache_line>>
       \/ /\ ~flush_pipeline /\ ~queue_full /\ ~stall_fetch
          /\ pcgen_fetch_reg = Bubble
          /\ NoDelivery(FALSE)
          /\ UNCHANGED <<icache_miss_remaining, icache_line>>
       \/ /\ ~flush_pipeline /\ ~queue_full /\ ~stall_fetch
          /\ pcgen_fetch_reg # Bubble
          /\ \/ CountDown
             \/ \E n \in program.stalls : FetchMiss(n)
             \/ FetchFault
             \/ Deliver
    /\ UNCHANGED <<program, taken_redirect_bubble, pcgen_fetch_next,
                   fetch_queue, latchVars, id_issue_next, issue_ex_next,
                   stall_issue, stall_ex, wfi_stall, prev_cycle_flush, addressVars,
                   backVars>>

-----------------------------------------------------------------------------
(* PCGen *)

\* Targets that may be predicted for p: its own branch target; another one, from
\* the return address stack or from an earlier jump through a register; or a
\* stale one left by other code at the same address.
Predictable(p) ==
    IF KindAt(p) = "BRANCH" /\ "wrong_target" \in program.events
    THEN {t \in PC : PrivOf(t) = PrivOf(p)}
    ELSE IF KindAt(p) = "BRANCH" \/ "stale_btb" \in program.events
         THEN {program.code[p].target} ELSE {}

Redirect ==
    /\ next_pc' = pc_redirect_target
    /\ flush_pipeline' = FALSE
    /\ taken_redirect_bubble' = FALSE
    /\ pcgen_fetch_next' = Bubble
    /\ fetch_queue' = <<>>
    /\ fetch_id_next' = Bubble
    /\ id_issue_next' = Bubble
    /\ issue_ex_next' = Bubble
    /\ UNCHANGED <<stall_pcgen, stall_fetch>>

\* One fetch cycle lost on a predicted jump.
SpendBubble ==
    /\ taken_redirect_bubble
    /\ taken_redirect_bubble' = FALSE
    /\ pcgen_fetch_next' = Bubble
    /\ UNCHANGED next_pc

Predict ==
    /\ ~taken_redirect_bubble
    /\ \E t \in {NotTaken} \cup Predictable(next_pc) :
          /\ pcgen_fetch_next' = [pc |-> next_pc, predicted |-> t]
          /\ next_pc' = IF t = NotTaken THEN Advance(program, next_pc, 2) ELSE t
          /\ taken_redirect_bubble' = (t # NotTaken)

KeepLatches == UNCHANGED <<flush_pipeline, fetch_queue, fetch_id_next,
                           id_issue_next, issue_ex_next>>

PCGen_stage ==
    /\ stage = "pcgen"
    /\ stage' = "latch"
    /\ \/ flush_pipeline /\ Redirect
       \/ /\ ~flush_pipeline /\ wfi_stall
          /\ stall_fetch' = TRUE /\ stall_pcgen' = TRUE
          /\ pcgen_fetch_next' = Bubble
          /\ KeepLatches
          /\ UNCHANGED <<next_pc, taken_redirect_bubble>>
       \/ /\ ~flush_pipeline /\ ~wfi_stall
          /\ stall_pcgen' = (stall_pcgen \/ queue_full)
          /\ IF stall_pcgen \/ queue_full
             THEN UNCHANGED <<next_pc, taken_redirect_bubble, pcgen_fetch_next>>
             ELSE SpendBubble \/ Predict
          /\ KeepLatches
          /\ UNCHANGED stall_fetch
    /\ UNCHANGED <<program, icache_miss_remaining, icache_line, latchVars,
                   stall_issue, stall_ex, wfi_stall, pc_redirect_target,
                   prev_cycle_flush, addressVars, backVars, trapVars, historyVars>>
=============================================================================
