----------------------------- MODULE Unbuffered -----------------------------
(***************************************************************************)
(* Stores that EX performs on memory itself, past the store buffer:        *)
(* misaligned and FP stores (EX_stage of src/CPU_P64_6_Cycle.cpp,          *)
(* F_extension.h).  Unlike an atomic, none of them waits in Issue for the  *)
(* buffer to drain.  No instruction is squashed here, so the memory the    *)
(* program expects is simply every store applied when it executes.         *)
(***************************************************************************)
EXTENDS StoreBuffer

VARIABLE expected           \* history: memory in program order

accessVars == <<vars, expected>>

AccessInit == Init /\ expected = InitMemory

buffered_store(s) == add_store(s) /\ expected' = Apply(expected, s)

\* EX writes memory at once; is_store is cleared, so Commit does nothing.
unbuffered_store(s) ==
    /\ memory' = Apply(memory, s)
    /\ expected' = Apply(expected, s)
    /\ UNCHANGED <<specVars, commitVars>>

AccessNext ==
    \/ \E s \in Store : buffered_store(s) \/ unbuffered_store(s)
    \/ (commit_store \/ drain_one) /\ UNCHANGED expected

AccessSpec == AccessInit /\ [][AccessNext]_accessVars

\* A buffered load, whatever forward_load answers it, returns what the program
\* stored last, also when the last store was an unbuffered one (EX, opcode 0x03).
LoadsSeeUnbufferedStores ==
    \A r \in Access :
        LET f == forward_load(r.address, r.size)
        IN  \A b \in r.address .. r.address + r.size - 1 :
               /\ f.result = "HIT" => f.bytes[b] = expected[b]
               /\ f.result = "MISS" => memory[b] = expected[b]
=============================================================================
