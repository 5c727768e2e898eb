-------------------------------- MODULE Code --------------------------------
(***************************************************************************)
(* The program the core runs, as far as its control flow depends on it.    *)
(* Addresses count halfwords.  User code starts at 0 and wraps around at   *)
(* its end, so that behaviours are infinite; the trap handler occupies     *)
(* UserEnd .. CodeEnd-1.  An instruction has a kind (the class of opcodes  *)
(* that the stages tell apart), a size of one or two halfwords and a       *)
(* branch target.  A program comes with the events that its environment    *)
(* may produce and the cycles for which an I$ or ITLB miss may hold Fetch. *)
(***************************************************************************)
EXTENDS Integers

CONSTANTS UserEnd, CodeEnd, Programs

Kind == {"ALU", "MUL", "DIV", "FP", "LOAD", "STORE", "BRANCH", "AMO",
         "CSR", "ECALL", "MRET", "WFI", "SFENCE", "ILLEGAL"}

PC == 0 .. CodeEnd - 1
HandlerPC == UserEnd

Instruction == [kind : Kind, size : {1, 2}, target : PC]

\* Interrupts, wake-ups from WFI, WFI refused below machine mode (mstatus.TW),
\* faults of an instruction in EX or of the fetch from a redirect target or from
\* anywhere, DTLB walks, addresses computed from loaded values, jumps predicted
\* to a wrong target, stale BTB entries.
Event == {"irq", "wake", "tw", "fault", "target_fault", "fetch_fault", "dtlb",
          "load_addr", "wrong_target", "stale_btb"}

ASSUME CodeAssumption ==
    /\ UserEnd \in Nat \ {0}
    /\ CodeEnd \in Nat
    /\ UserEnd < CodeEnd
    /\ \A program \in Programs :
          /\ program.code \in [PC -> Instruction]
          /\ program.end \in 1 .. UserEnd
          /\ program.events \subseteq Event
          /\ program.stalls \subseteq Nat

\* p + n in the region of p.
Advance(program, p, n) ==
    IF p < UserEnd THEN (p + n) % program.end
    ELSE UserEnd + ((p - UserEnd + n) % (CodeEnd - UserEnd))

\* The handler runs in machine mode with interrupts off, user code does not.
PrivOf(p) == IF p < UserEnd THEN "U" ELSE "M"

\* The address after the instruction at p.
Following(program, p) == Advance(program, p, program.code[p].size)
=============================================================================
