--------------------------------- MODULE Isa ---------------------------------
(***************************************************************************)
(* The implementations of the instruction set side by side.  simple is the *)
(* hart of the non-pipelined core, two that of the two-stage core, six     *)
(* that of the six-stage core; each Step gives all the same instruction.   *)
(* The known differences end the lockstep and are named one by one below.  *)
(***************************************************************************)
EXTENDS SixStageIsa, TwoStage

CONSTANTS Suites,        \* by name: instructions, operand pairs and depth to run
          MemTop         \* last address of the memory

VARIABLES suite,         \* the suite this behaviour runs
          simple, six,   \* the harts
          two, ahead,    \* two-stage hart, and whether it has used its advanced pc
          last,          \* the instruction all executed last
          steps,         \* instructions executed
          status         \* "lockstep", or "apart" after a known difference

vars == <<suite, simple, six, two, ahead, last, steps, status>>

Registers == 0..31
Values == 0..(2^XLEN - 1)
StartPC == 8
StartMemory == [b \in 0..MemTop |-> Flag(b % 7 \in {2, 5, 6})]
HandlerPC == 4

\* A hart at reset with two operand pairs in x1, x2 and x8, x9.
StartHart(a, b) ==
  [x |-> [r \in Registers |-> CASE r \in {1, 8} -> a [] r \in {2, 9} -> b
                                [] OTHER -> 0],
   pc |-> StartPC, mem |-> StartMemory,
   csr |-> [c \in Csrs |-> IF c = CSR_MTVEC THEN HandlerPC ELSE 0],
   res |-> {}, stop |-> FALSE]

\* No instruction yet.  An instruction is a word and the immediate it was
\* assembled from.
None == [w |-> 0, imm |-> 0, has |-> FALSE]

Init ==
  /\ suite \in DOMAIN Suites
  /\ \E v \in Suites[suite].values :
       /\ simple = StartHart(v[1], v[2])
       /\ six = StartHart(v[1], v[2])
       /\ two = StartHart(v[1], v[2])
  /\ ahead = FALSE
  /\ last = None
  /\ steps = 0
  /\ status = "lockstep"

-----------------------------------------------------------------------------
(* Where the two cores are known to differ. *)

\* The non-pipelined core gives up: an sc_stop, or a division that kills it.
Stops(after) == after.stop

\* DIVW of INT32_MIN by -1 is not sign-extended by M_extension.
DivwOverflow(h, w) ==
  /\ ~is_compressed(w) /\ decode(w) = "ERROR" /\ m_decode(w) = "DIVW"
  /\ Signed(rs1(h, w), WORD) = Least(WORD) /\ Signed(rs2(h, w), WORD) = -1

\* C.J, C.JR and C.JALR work in 32 bits.
LongJump(h, w, after) ==
  /\ is_compressed(w) /\ c_decode(w) \in {"C_J", "C_JR", "C_JALR"}
  /\ \/ after.pc >= 2^WORD
     \/ h.pc + 2 >= 2^WORD

\* A reservation only one core holds for the address and size of an SC: the
\* non-pipelined core keeps one per LR, the six-stage core ignores the size.
OtherReservation(h, g, w) ==
  /\ opcode(w) = 47 /\ a_decode(w) = "SC"
  /\ (<<a_address(h, w), a_size(w)>> \in h.res) #
       (\E r \in g.res : r[1] = rs1(g, w))

\* CSRRS and CSRRC to x0 do not write; CSRRSI and CSRRCI with 0 do not read.
CsrShortcut(w) ==
  /\ opcode(w) = 115
  /\ \/ decode(w) \in {"CSRRS", "CSRRC"} /\ get_rd(w) = 0
     \/ decode(w) \in {"CSRRSI", "CSRRCI"} /\ get_rs1(w) = 0

\* ECALL is a trap on one core and a system call shim on the other; the
\* compressed floating-point words are illegal on the first.
OtherEnvironment(w) ==
  \/ opcode(w) = 115 /\ decode(w) = "ECALL"
  \/ is_compressed(w) /\ c_decode(w) \in {"C_FLD", "C_FSD", "C_FLDSP", "C_FSDSP"}

\* RaiseException saves the pc through a 32-bit variable.
LongTrap(h, w) == h.pc >= 2^WORD /\ ID_decode(w) = IllegalWord

\* trap_vector drops the mode bits of mtvec, RaiseException jumps to them.
VectoredTrap(g, w) == g.csr[CSR_MTVEC] % 4 # 0 /\ ID_decode(w) = IllegalWord

\* LR.W with a second source register is illegal on one core only.
ReservedLr(w) ==
  opcode(w) = 47 /\ a_decode(w) = "LR" /\ a_size(w) = 4 /\ get_rs2(w) # 0

AccessesCsr(w) == ~is_compressed(w) /\ opcode(w) = 115 /\ get_funct3(w) # 0

\* CSR_File traps on an address it does not know; the map of the non-pipelined
\* core has every address.
UnknownCsr(w) == AccessesCsr(w) /\ ~csr_known(get_csr(w))

\* The cores start from and keep different flags in mstatus.
StatusCsr(w) == AccessesCsr(w) /\ get_csr(w) = CSR_MSTATUS

\* CSR_File masks mepc, sepc and mtvec and ignores a write to a read-only
\* address; the non-pipelined core stores the value.
MaskedWrite(g, w) ==
  LET d == ID_decode(w)  c == get_csr(w) IN
  /\ AccessesCsr(w) /\ csr_known(c) /\ csr_writes(g, d)
  /\ csr_written(g, c, csr_new(g, d)) # csr_new(g, d)

\* The map of the non-pipelined core stores 32 bits of a CSR.
WideWrite(g, w) ==
  LET d == ID_decode(w) IN
  AccessesCsr(w) /\ csr_known(get_csr(w)) /\ csr_writes(g, d) /\ csr_new(g, d) >= 2^WORD

\* h and g are the harts of the non-pipelined and the six-stage core before w.
KnownDifference(h, g, w, hAfter, gAfter) ==
  \/ Stops(hAfter)
  \/ DivwOverflow(h, w)
  \/ LongJump(h, w, gAfter)
  \/ LongTrap(h, w)
  \/ VectoredTrap(g, w)
  \/ ReservedLr(w)
  \/ UnknownCsr(w)
  \/ StatusCsr(w)
  \/ MaskedWrite(g, w)
  \/ WideWrite(g, w)
  \/ OtherReservation(h, g, w)
  \/ CsrShortcut(w)
  \/ OtherEnvironment(w)

\* Jumps, links, branches (taken or not), AUIPC, FENCE and traps use the pc,
\* which the two-stage core has already moved behind the instruction.
UsesPC(w) ==
  \/ decode(w) \in {"AUIPC", "JAL", "FENCE", "ECALL", "EBREAK"} \cup Range(Branches)
  \/ ReservedLr(w)
  \/ decode(w) = "JALR" /\ get_rd(w) # 0
  \/ /\ decode(w) = "ERROR"
     /\ \/ c_pc_final(w, c_decode(w)) /\ c_decode(w) # "C_JR"
        \/ c_decode(w) \in {"C_FLD", "C_FSD", "C_FLDSP", "C_FSDSP"}

\* MRET and SRET leave machine mode on the six-stage core.
LeavesMachineMode(w) == opcode(w) = 115 /\ decode(w) \in {"MRET", "SRET"}

-----------------------------------------------------------------------------

\* The addresses a word reads or writes are in memory; anything else is a bus
\* error, which ends the simulation.
Footprint(h, d) ==
  CASE d.legal /\ d.opcode \in {3, 35} ->
         EX_address(h, d)..(EX_address(h, d) + load_size(d.funct3) - 1)
    [] d.legal /\ d.opcode = 47 ->
         getValue(h, d.rs1)..(getValue(h, d.rs1) + (IF d.funct3 = 3 THEN 7 ELSE 3))
    [] d.legal /\ d.opcode = 15 -> {Trunc(h.pc + 4, WORD) + i : i \in 0..3}
    [] OTHER -> {}

\* All cores execute i; the two-stage core stops at what it does differently.
Step(i) ==
  /\ status = "lockstep"
  /\ steps < Suites[suite].depth
  /\ Footprint(six, ID_decode(i.w)) \subseteq 0..MemTop
  /\ simple' = CPU_step(simple, i.w)
  /\ six' = six_step(six, i.w)
  /\ ahead' = (ahead \/ UsesPC(i.w))
  /\ two' = IF ahead' THEN two ELSE two_step(two, i.w)
  /\ last' = i
  /\ steps' = steps + 1
  /\ status' = IF KnownDifference(simple, six, i.w, simple', six') THEN "apart"
               ELSE IF LeavesMachineMode(i.w) THEN "left" ELSE "lockstep"
  /\ UNCHANGED suite

Next == \E i \in Suites[suite].words : Step(i)

Spec == Init /\ [][Next]_vars

-----------------------------------------------------------------------------

\* The harts stay within the widths of their registers, memory and CSRs.
IsaTypes ==
  /\ status \in {"lockstep", "apart", "left"}
  /\ \A h \in {simple, two, six} :
       /\ h.x \in [Registers -> Values] /\ h.x[0] = 0
       /\ h.pc \in Values
       /\ h.mem \in [0..MemTop -> 0..(2^ByteBits - 1)]
       /\ h.csr \in [Csrs -> Values]

\* BASE_ISA, C_extension, M_extension and A_extension on one side and ID_stage
\* and EX_stage on the other compute the same registers, memory, pc and CSRs
\* (mstatus excepted), and trap to the same place with the same mepc, mcause
\* and mtval, for every instruction outside the differences named above.
\* Setters and readers of Registers.h on one side and CSR_File.h on the other
\* are part of it.
CoresAgree ==
  status # "apart" =>
    /\ simple.x = six.x
    /\ simple.mem = six.mem
    /\ simple.pc = six.pc
    /\ \A c \in Csrs \ {CSR_MSTATUS} : simple.csr[c] = six.csr[c]

\* EX_stage of the two-stage core, which finds the pc moved on by IF_stage,
\* leaves the same hart as CPU_step of the non-pipelined core, which moves it
\* afterwards and by what the extension that executed the word says, for every
\* sequence of instructions that do not use the pc.
TwoStageAgrees == ~ahead => two = simple

\* The immediate a decoder takes from a word by its own operation.
SimpleImmediate(w) ==
  LET base == decode(w) IN
  CASE base \in Range(Branches) -> get_imm_B(w)
    [] base \in Range(Stores) -> get_imm_S(w)
    [] base = "JAL" -> get_imm_J(w)
    [] OTHER -> get_imm_I(w)

\* ID_stage and the getters of BASE_ISA and C_extension read back the immediate
\* that was assembled into the word, every bit of it at its place.
ImmediatesDecoded ==
  last.has =>
    /\ ID_decode(last.w).imm = last.imm
    /\ ~is_compressed(last.w) => SimpleImmediate(last.w) = last.imm

\* The reservation of the six-stage core (load_reservation_addr) is always one
\* the non-pipelined core also holds (TLB_A_Entries), whatever LR, SC, AMO and
\* store instructions came before.
ReservationsNested == status # "apart" => six.res \subseteq simple.res

\* DIV and REM of EX_stage, computed by two instructions, belong together:
\* dividend = quotient * divisor + remainder, the remainder smaller than the
\* divisor and of the dividend's sign; DIVU and REMU likewise.
DivisionIsEuclidean ==
  LET a == simple.x[1]
      b == simple.x[2]
      s == Signed(a, XLEN)
      t == Signed(b, XLEN)
      r == Signed(EX_muldiv(6, a, b), XLEN)
      ur == EX_muldiv(7, a, b)
      Abs(n) == IF n < 0 THEN -n ELSE n
  IN
  /\ Trunc(EX_muldiv(4, a, b) * t + r, XLEN) = a
  /\ t # 0 => Abs(r) < Abs(t)
  /\ r = 0 \/ (r < 0) = (s < 0)
  /\ Trunc(EX_muldiv(5, a, b) * b + ur, XLEN) = a
  /\ b # 0 => ur < b

\* The divider is busy for at least the cycles its quotient needs, one per bit
\* and never longer than a full-width division, for signed, unsigned and 32-bit
\* operands.  Division by -1 is excepted: the code gives it one cycle by a
\* shortcut of its own (op_b_neg_one), as it does division by zero.
DividerHasEnoughCycles ==
  LET a == simple.x[1]  b == simple.x[2] IN
  \A isSigned \in BOOLEAN, word \in BOOLEAN :
    LET n == IF word THEN WORD ELSE XLEN
        s == IF isSigned THEN Signed(a, n) ELSE Trunc(a, n)
        t == IF isSigned THEN Signed(b, n) ELSE Trunc(b, n)
        q == IF t = 0 THEN 0 ELSE Quotient(s, t)
        bits == (IF q < 0 THEN -q ELSE q)
        cycles == div_cycles(isSigned, word, a, b)
    IN  /\ cycles \in 1..(n + 5)
        /\ t \notin {0, -1} => bits < 2^cycles
==============================================================================
