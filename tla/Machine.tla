------------------------------ MODULE Machine ------------------------------
(***************************************************************************)
(* What a pipelined core promises its programmer: the instruction set's    *)
(* sequential machine.  One instruction at a time retires, the one at      *)
(* next; a trap saves the address and the mode of the instruction that     *)
(* would have retired next, and continues at the handler.                  *)
(***************************************************************************)
EXTENDS Code

VARIABLES
    program,    \* the code, never written
    last,       \* address of the instruction that retired last, and whether the
                \* number of instructions that have retired is odd: a second
                \* retirement of the same instruction is a step too
    next,       \* address of the instruction to retire next
    saved       \* address and mode saved by the latest trap

machineVars == <<program, last, next, saved>>

Init ==
    /\ program \in Programs
    /\ last = [pc |-> 0, odd |-> FALSE]
    /\ next = 0
    /\ saved = [pc |-> 0, priv |-> "U"]

Successors(p) ==
    CASE program.code[p].kind = "BRANCH" -> {Following(program, p), program.code[p].target}
      [] program.code[p].kind = "MRET"   -> {saved.pc}
      [] OTHER                      -> {Following(program, p)}

Retire ==
    /\ last' = [pc |-> next, odd |-> ~last.odd]
    /\ next' \in Successors(next)
    /\ UNCHANGED <<program, saved>>

\* An exception of the instruction at next, or an interrupt before it.
Trap ==
    /\ saved' = [pc |-> next, priv |-> PrivOf(next)]
    /\ next' = HandlerPC
    /\ UNCHANGED <<program, last>>

\* An interrupt right after a return from a trap: the return and the new trap
\* appear as one step, which saves the address returned to.
TrapAfterReturn ==
    /\ program.code[next].kind = "MRET"
    /\ saved' = [pc |-> saved.pc, priv |-> PrivOf(saved.pc)]
    /\ next' = HandlerPC
    /\ UNCHANGED <<program, last>>

Next == Retire \/ Trap \/ TrapAfterReturn

Spec == Init /\ [][Next]_machineVars
=============================================================================
