--------------------------- MODULE PipelineState ---------------------------
(***************************************************************************)
(* State of CPURV64P6_Cycle shared by its stages (inc/CPU_P64_6_Cycle.h).  *)
(* cycle_thread runs, in every clock cycle, the latch transfer, the        *)
(* interrupt check and the six stages in reverse order; the variable stage *)
(* says which of them runs next.  A latch holds Bubble (valid = false) or  *)
(* the instruction in it.                                                  *)
(*                                                                         *)
(* The store buffer appears as the queue that StoreBuffer.tla shows it to  *)
(* implement: the scoreboard indices of the speculative stores and the     *)
(* number of committed ones.  The multi-cycle units appear as one          *)
(* function: mul, div, hit (load_hit_fu), the D$ miss slots and the FPU    *)
(* slots.                                                                  *)
(***************************************************************************)
EXTENDS Code, Scoreboard

CONSTANTS
    SPEC_DEPTH, COMMIT_DEPTH,   \* depths of the store buffer's two queues
    FETCH_QUEUE_CAPACITY,
    DcacheSlots, FpuSlots,      \* slots of the D$ miss unit, of the FPU
    Latency                     \* cycles of each unit

VARIABLES
    stage, program,
    \* PCGen and Fetch
    next_pc, taken_redirect_bubble, icache_miss_remaining, icache_line,
    pcgen_fetch_reg, pcgen_fetch_next, fetch_id_next, fetch_queue,
    \* ID, Issue and EX latches
    fetch_id_reg, id_issue_reg, id_issue_next, issue_ex_reg, issue_ex_next,
    \* control
    stall_pcgen, stall_fetch, stall_issue, stall_ex, wfi_stall,
    flush_pipeline, prev_cycle_flush, pc_redirect_target,
    \* cycles Issue still waits for a loaded address, and whether the instruction
    \* in Issue has waited since the last load completed
    load_addr_extra, address_paid,
    \* back end
    scoreboard, fu, spec_stores, committed_stores,
    \* trap state: mode, saved mode and address, MRET executed, not committed
    priv, mpp, mepc, pending_priv_switch,
    \* history: last retired address (and parity), the next one, what was saved by
    \* the latest trap, EX-time effects of instructions not yet retired
    last, next, saved, applied

frontVars   == <<next_pc, taken_redirect_bubble, icache_miss_remaining,
                 icache_line, pcgen_fetch_next, fetch_id_next, fetch_queue>>
latchVars   == <<pcgen_fetch_reg, fetch_id_reg, id_issue_reg, issue_ex_reg>>
stallVars   == <<stall_pcgen, stall_fetch, stall_issue>>
flushVars   == <<flush_pipeline, pc_redirect_target>>
addressVars == <<load_addr_extra, address_paid>>
backVars    == <<scoreboard, fu, spec_stores, committed_stores>>
trapVars    == <<priv, mpp, mepc, pending_priv_switch>>
historyVars == <<last, next, saved, applied>>
vars == <<stage, program, frontVars, latchVars, id_issue_next, issue_ex_next,
          stallVars, stall_ex, wfi_stall, flushVars, prev_cycle_flush, addressVars,
          backVars, trapVars, historyVars>>

Bubble   == [pc |-> -1]
NotTaken == -1

\* A unit is a name and a slot number.
Mul == <<"mul", 1>>
Div == <<"div", 1>>
Hit == <<"hit", 1>>
MissSlots == [i \in 1 .. DcacheSlots |-> <<"miss", i>>]
FpSlots   == [i \in 1 .. FpuSlots |-> <<"fpu", i>>]

\* Ticks of EX in the order of the code: the later of two completions of one
\* entry wins.
TickOrder == <<Mul, Div>> \o MissSlots \o <<Hit>> \o FpSlots
Units == {TickOrder[k] : k \in DOMAIN TickOrder}

Idle == [busy |-> FALSE, remaining |-> 0, trans_id |-> -1, result |-> Zero]
AllIdle == [u \in Units |-> Idle]

ASSUME PipelineAssumption ==
    /\ {SPEC_DEPTH, COMMIT_DEPTH, FETCH_QUEUE_CAPACITY, DcacheSlots, FpuSlots}
          \subseteq Nat \ {0}
    /\ Latency \in [{"mul", "div", "hit", "miss", "fpu"} -> Nat \ {0}]
    /\ Latency["hit"] = 1   \* load_hit_penalty

KindAt(p) == program.code[p].kind

Init ==
    /\ stage = "latch"
    /\ program \in Programs
    /\ next_pc = 0 /\ taken_redirect_bubble = FALSE
    /\ icache_miss_remaining = 0 /\ icache_line = -1
    /\ pcgen_fetch_reg = Bubble /\ pcgen_fetch_next = Bubble
    /\ fetch_id_next = Bubble /\ fetch_queue = <<>>
    /\ fetch_id_reg = Bubble
    /\ id_issue_reg = Bubble /\ id_issue_next = Bubble
    /\ issue_ex_reg = Bubble /\ issue_ex_next = Bubble
    /\ stall_pcgen = FALSE /\ stall_fetch = FALSE
    /\ stall_issue = FALSE /\ stall_ex = FALSE /\ wfi_stall = FALSE
    /\ flush_pipeline = FALSE /\ prev_cycle_flush = FALSE
    /\ pc_redirect_target = 0
    /\ load_addr_extra = 0 /\ address_paid = FALSE
    /\ scoreboard = NewScoreboard
    /\ fu = AllIdle /\ spec_stores = <<>> /\ committed_stores = 0
    /\ priv = "U" /\ mpp = "U" /\ mepc = 0 /\ pending_priv_switch = FALSE
    /\ last = [pc |-> 0, odd |-> FALSE] /\ next = 0 /\ saved = [pc |-> 0, priv |-> "U"]
    /\ applied = [p \in PC |-> 0]
=============================================================================
