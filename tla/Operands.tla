------------------------------ MODULE Operands ------------------------------
(***************************************************************************)
(* Register values on their way through the six-stage core: operands are   *)
(* read in Issue through the clobber tables of the scoreboard, results are *)
(* completed out of order, and Commit writes the register file in order    *)
(* (Issue_stage, EX_stage, Commit_stage and cpu_process_IRQ of             *)
(* src/CPU_P64_6_Cycle.cpp).  What holds instructions back otherwise       *)
(* (units, store buffer, fetch) is in Pipeline.tla; here any instruction   *)
(* may come next and any unit may finish next.                             *)
(*                                                                         *)
(* Classes of instructions, by where the result goes: "int" results wait   *)
(* in the scoreboard entry; "fp" ones are written to the FP register file  *)
(* in EX; "fcvt" (FP to integer moves, conversions, compares) are written  *)
(* to the integer register file in EX and completed like the others.       *)
(***************************************************************************)
EXTENDS Scoreboard, FiniteSetsExt

CONSTANTS Values,       \* results an instruction may compute
          Programs      \* programs: the classes of their instructions, and the
                        \* traps they meet besides exceptions in EX

ASSUME OperandsAssumption ==
    Programs \subseteq [classes : SUBSET {"int", "fp", "fcvt"},
                        traps : SUBSET {"interrupt", "illegal"}]

VARIABLES
    program,    \* the program that runs
    scoreboard,
    reg,        \* integer register file (register_bank)
    latched,    \* entry in the Issue/EX latch, -1 if none
    work,       \* for every entry: class, destination, value it will have
    arch        \* history: integer registers as the retired program left them

opVars == <<program, scoreboard, reg, latched, work, arch>>

NoWork == [class |-> "int", rd |-> 0, value |-> 0]

Init ==
    /\ program \in Programs
    /\ scoreboard = NewScoreboard
    /\ reg = [r \in Regs |-> 0]
    /\ latched = -1
    /\ work = [i \in 0 .. SIZE - 1 |-> NoWork]
    /\ arch = reg

\* The k-th entry in flight will write integer or FP register r.
Writes(k, fp, r) ==
    LET w == work[Slot(scoreboard, k)]
    IN  w.rd = r /\ (w.class = "fp") = fp

-----------------------------------------------------------------------------
(* Issue *)

\* Operand read: a busy clobber stalls until its entry is ready.
Waits(table, r) ==
    table[r].busy /\ ~scoreboard.entries[table[r].trans_id].ready

\* x0 is never looked up; a busy register is forwarded from its entry.
SourceReady(r) == r = 0 \/ ~Waits(scoreboard.rd_clobber, r)
SourceValue(r) ==
    IF r = 0 THEN 0
    ELSE IF scoreboard.rd_clobber[r].busy
         THEN scoreboard.entries[scoreboard.rd_clobber[r].trans_id].result
         ELSE reg[r]

\* Fault: f0 is taken for a constant like x0.
FpSourceReady_skips_f0(r) == r = 0 \/ ~Waits(scoreboard.fp_clobber, r)

\* FP sources are looked up for every register, f0 included.
FpSourceReady(r) == ~Waits(scoreboard.fp_clobber, r)

\* EX has run in this cycle, so the latch is free.
Issue(class, rd, value) ==
    /\ latched = -1
    /\ ~is_full(scoreboard)
    /\ LET i == scoreboard.tail
           s == allocate(scoreboard, [pc |-> 0, is_store |-> FALSE,
                                      fp |-> class = "fp"])
       IN  /\ scoreboard' = clobber(s, i, rd, class = "fp")
           /\ work' = [work EXCEPT ![i] =
                          [class |-> class, rd |-> rd, value |-> value]]
           /\ latched' = i
    /\ UNCHANGED <<program, reg, arch>>

-----------------------------------------------------------------------------
(* EX *)

\* The entry of an FP instruction gets a result too: fpu_result, which stays 0.
Finish(i) == complete(scoreboard, i,
                      IF work[i].class = "fp" THEN 0 ELSE work[i].value,
                      work[i].rd)

\* The instruction in the latch executes: it completes, or a unit takes it.
Execute ==
    /\ latched # -1
    /\ scoreboard' \in {scoreboard, Finish(latched)}
    /\ reg' = IF work[latched].class = "fcvt" /\ work[latched].rd # 0
              THEN [reg EXCEPT ![work[latched].rd] = work[latched].value]
              ELSE reg
    /\ latched' = -1
    /\ UNCHANGED <<program, work, arch>>

\* A unit reaches the end of its latency.
UnitDone(i) ==
    /\ InFlight(scoreboard, i) /\ i # latched
    /\ ~scoreboard.entries[i].ready
    /\ scoreboard' = Finish(i)
    /\ UNCHANGED <<program, reg, latched, work, arch>>

-----------------------------------------------------------------------------
(* Commit and traps *)

Written(file, e) ==
    IF e.rd # 0 /\ ~e.fp THEN [file EXCEPT ![e.rd] = e.result] ELSE file

\* The register file after a retired instruction, in program order.
Retired(file, w) ==
    IF w.class # "fp" /\ w.rd # 0 THEN [file EXCEPT ![w.rd] = w.value] ELSE file

\* Commit runs before EX: the entry leaves, its result becomes architectural.
Commit ==
    /\ head_ready(scoreboard)
    /\ LET e == get_head(scoreboard)
           w == work[scoreboard.head]
       IN  /\ reg' = Written(reg, e)
           /\ arch' = Retired(arch, w)
    /\ scoreboard' = retire(release(scoreboard))
    /\ work' = [work EXCEPT ![scoreboard.head] = NoWork]
    /\ UNCHANGED <<program, latched>>

\* Fault: the latch to EX survives the flush.
Interrupt_keeps_latch ==
    /\ "interrupt" \in program.traps
    /\ scoreboard' = flush(scoreboard)
    /\ work' = [i \in DOMAIN work |-> NoWork]
    /\ UNCHANGED <<program, latched, reg, arch>>

\* Interrupt: whatever is in flight is dropped.
Interrupt ==
    /\ "interrupt" \in program.traps
    /\ scoreboard' = flush(scoreboard)
    /\ latched' = -1
    /\ work' = [i \in DOMAIN work |-> NoWork]
    /\ UNCHANGED <<program, reg, arch>>

\* Exception of the instruction in EX: taken at the scoreboard head only.
Exception ==
    /\ latched # -1
    /\ latched = scoreboard.head
    /\ scoreboard' = flush(scoreboard)
    /\ latched' = -1
    /\ work' = [i \in DOMAIN work |-> NoWork]
    /\ UNCHANGED <<program, reg, arch>>

\* How many entries are ready from the head on.
ReadyCount ==
    Max({n \in 0 .. scoreboard.count :
            \A k \in 0 .. n - 1 : scoreboard.entries[Slot(scoreboard, k)].ready})

\* Fault: the older results are dropped although Issue counts them as retired.
IllegalDrain_unwritten == reg

\* The drain writes the integer register, whichever file the entry is for; of
\* several entries the last one counts.
IllegalDrain ==
    [r \in Regs |->
        LET drained == {k \in 0 .. ReadyCount - 1 :
                           scoreboard.entries[Slot(scoreboard, k)].rd = r}
        IN  IF r = 0 \/ drained = {} THEN reg[r]
            ELSE scoreboard.entries[Slot(scoreboard, Max(drained))].result]

\* The registers after the drained instructions, in program order.
DrainRetired ==
    [r \in Regs |->
        LET drained == {k \in 0 .. ReadyCount - 1 : Writes(k, FALSE, r)}
        IN  IF r = 0 \/ drained = {} THEN arch[r]
            ELSE work[Slot(scoreboard, Max(drained))].value]

\* Issue meets an illegal instruction: the ready entries retire, the others are
\* dropped, and the trap is taken.
Illegal ==
    /\ "illegal" \in program.traps
    /\ latched = -1
    /\ ~is_full(scoreboard)
    /\ reg' = IllegalDrain
    /\ arch' = DrainRetired
    /\ scoreboard' = flush(scoreboard)
    /\ work' = [i \in DOMAIN work |-> NoWork]
    /\ UNCHANGED <<program, latched>>

Next ==
    \/ \E class \in program.classes, rd \in Regs, value \in Values : Issue(class, rd, value)
    \/ Execute
    \/ \E i \in 0 .. SIZE - 1 : UnitDone(i)
    \/ Commit
    \/ Interrupt
    \/ Exception
    \/ Illegal

Spec == Init /\ [][Next]_opVars

-----------------------------------------------------------------------------
(* Properties. *)

\* Places of the in-flight writers of integer or FP register r, 0 the oldest.
Writers(fp, r) == {k \in 0 .. scoreboard.count - 1 : Writes(k, fp, r)}
Youngest(fp, r) == Slot(scoreboard, Max(Writers(fp, r)))

\* Types of the register file, the latch and the scoreboard's tables.
OperandTypes ==
    /\ reg \in [Regs -> Values \cup {0}]
    /\ latched \in {-1} \cup {i \in 0 .. SIZE - 1 : InFlight(scoreboard, i)}
    /\ \A r \in Regs :
          /\ scoreboard.rd_clobber[r].trans_id \in -1 .. SIZE - 1
          /\ scoreboard.fp_clobber[r].trans_id \in -1 .. SIZE - 1

\* An operand Issue accepts has the value the program order gives it: that of
\* the youngest older writer, in flight or retired, however completions,
\* commits, reallocations of entries and flushes interleave (operand resolution
\* in Issue_stage, clobber release in Commit_stage).
OperandsFollowProgramOrder ==
    latched = -1 =>
        \A r \in Regs \ {0} :
            LET want == IF Writers(FALSE, r) = {} THEN arch[r]
                        ELSE work[Youngest(FALSE, r)].value
            IN  SourceReady(r) => SourceValue(r) = want

\* FP operands live in the register file, so Issue must wait for every unit that
\* still owes one: none is read while a writer of it is unfinished (fp_clobber
\* in Issue_stage; only the youngest writer is remembered).
FpReadsWait ==
    latched = -1 =>
        \A r \in Regs : FpSourceReady(r) =>
            \/ Writers(TRUE, r) = {}
            \/ scoreboard.entries[Youngest(TRUE, r)].ready

\* A busy clobber names an entry that is in flight and will write the register
\* it stands for: Issue never waits for an unrelated instruction.
Producing(table, fp, r) ==
    table[r].busy => /\ InFlight(scoreboard, table[r].trans_id)
                     /\ work[table[r].trans_id].rd = r
                     /\ (work[table[r].trans_id].class = "fp") = fp

ClobberNamesProducer ==
    \A r \in Regs \ {0} : /\ Producing(scoreboard.rd_clobber, FALSE, r)
                          /\ Producing(scoreboard.fp_clobber, TRUE, r)
=============================================================================
