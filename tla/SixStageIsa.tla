----------------------------- MODULE SixStageIsa -----------------------------
(***************************************************************************)
(* What one instruction does on CPURV64P6_Cycle: the fields ID_stage       *)
(* decodes or expands a word to, and the result, target and memory access  *)
(* EX_stage computes from them, for a hart in machine mode without address *)
(* translation and with an empty store buffer.  Pipelining itself is the   *)
(* subject of module Pipeline; the decoder of compressed words is the one  *)
(* the other cores use.                                                    *)
(***************************************************************************)
EXTENDS SimpleCore

\* The decoded fields of id_issue_next.  legal is FALSE for is_illegal.
Decoded(op, f3, f7, rd, r1, r2, imm) ==
  [opcode |-> op, funct3 |-> f3, funct7 |-> f7, rd |-> rd, rs1 |-> r1, rs2 |-> r2,
   imm |-> imm, legal |-> TRUE]

IllegalWord == [Decoded(0, 0, 0, 0, 0, 0, 0) EXCEPT !.legal = FALSE]

is_compressed(w) == range(w, 1, 0) # 3

\* Expansion to the equivalent 32-bit fields, quadrant by quadrant.
ExpandQuadrant0(w, c) ==
  LET rd == c_rdp(w)  r1 == c_rs1p(w) IN
  CASE c = "C_ADDI4SPN" -> IF c_imm_ADDI4SPN(w) = 0 THEN IllegalWord
                           ELSE Decoded(19, 0, 0, rd, SP, 0, c_imm_ADDI4SPN(w))
    [] c = "C_LW" -> Decoded(3, 2, 0, rd, r1, 0, c_imm_L(w))
    [] c = "C_LD" -> Decoded(3, 3, 0, rd, r1, 0, c_imm_CL(w))
    [] c = "C_SW" -> Decoded(35, 2, 0, 0, r1, rd, c_imm_L(w))
    [] c = "C_SD" -> Decoded(35, 3, 0, 0, r1, rd, c_imm_CL(w))
    [] c = "C_FLD" -> Decoded(7, 3, 0, rd, r1, 0, c_imm_CL(w))
    [] c = "C_FSD" -> Decoded(39, 3, 0, 0, r1, rd, c_imm_CL(w))

\* The shift amount, without the sign extension of get_imm_ADDI.
c_shamt(w) == bit(w, 12) * 32 + range(w, 6, 2)

ExpandQuadrant1(w, c) ==
  LET rd == c_rd(w)  p == c_rs1p(w)  q == c_rdp(w) IN
  CASE c = "C_ADDI" -> Decoded(19, 0, 0, rd, rd, 0, c_imm_ADDI(w))
    [] c = "C_ADDIW" -> Decoded(27, 0, 0, rd, rd, 0, c_imm_ADDI(w))
    [] c = "C_LI" -> Decoded(19, 0, 0, rd, 0, 0, c_imm_ADDI(w))
    [] c = "C_ADDI16SP" ->
         IF rd = SP THEN Decoded(19, 0, 0, SP, SP, 0, c_imm_ADDI16SP(w))
                    ELSE Decoded(55, 0, 0, rd, 0, 0, c_imm_LUI(w) * 2^UpperShift)
    [] c = "C_SRLI" -> Decoded(19, 5, 0, p, p, 0, c_shamt(w))
    [] c = "C_SRAI" -> Decoded(19, 5, 0, p, p, 0, c_shamt(w) + 1024)
    [] c = "C_ANDI" -> Decoded(19, 7, 0, p, p, 0, c_imm_ADDI(w))
    [] c = "C_SUB" -> Decoded(51, 0, 32, p, p, q, 0)
    [] c = "C_XOR" -> Decoded(51, 4, 0, p, p, q, 0)
    [] c = "C_OR" -> Decoded(51, 6, 0, p, p, q, 0)
    [] c = "C_AND" -> Decoded(51, 7, 0, p, p, q, 0)
    [] c = "C_SUBW" -> Decoded(59, 0, 32, p, p, q, 0)
    [] c = "C_ADDW" -> Decoded(59, 0, 0, p, p, q, 0)
    [] c = "C_J" -> Decoded(111, 0, 0, 0, 0, 0, c_imm_J(w))
    [] c = "C_BEQZ" -> Decoded(99, 0, 0, 0, p, 0, c_imm_CB(w))
    [] c = "C_BNEZ" -> Decoded(99, 1, 0, 0, p, 0, c_imm_CB(w))

ExpandQuadrant2(w, c) ==
  LET rd == c_rd(w)  r2 == c_rs2(w) IN
  CASE c = "C_SLLI" -> Decoded(19, 1, 0, rd, rd, 0, c_shamt(w))
    [] c = "C_LWSP" -> Decoded(3, 2, 0, rd, SP, 0, c_imm_LWSP(w))
    [] c = "C_LDSP" -> Decoded(3, 3, 0, rd, SP, 0, c_imm_LDSP(w))
    [] c = "C_JR" -> Decoded(103, 0, 0, 0, rd, 0, 0)
    [] c = "C_MV" -> Decoded(51, 0, 0, rd, 0, r2, 0)
    [] c = "C_EBREAK" -> Decoded(115, 0, 0, 0, 0, 0, 1)
    [] c = "C_JALR" -> Decoded(103, 0, 0, RA, rd, 0, 0)
    [] c = "C_ADD" -> Decoded(51, 0, 0, rd, rd, r2, 0)
    [] c = "C_SWSP" -> Decoded(35, 2, 0, 0, SP, r2, c_imm_CSS(w))
    [] c = "C_SDSP" -> Decoded(35, 3, 0, 0, SP, r2, c_imm_CSDSP(w))
    [] c = "C_FLDSP" -> Decoded(7, 3, 0, rd, SP, 0, c_imm_LDSP(w))
    [] c = "C_FSDSP" -> Decoded(39, 3, 0, 0, SP, r2, c_imm_CSDSP(w))

Expand(w) ==
  LET c == c_decode(w) IN
  CASE c = "ERROR" -> IllegalWord
    [] c # "ERROR" /\ range(w, 1, 0) = 0 -> ExpandQuadrant0(w, c)
    [] c # "ERROR" /\ range(w, 1, 0) = 1 -> ExpandQuadrant1(w, c)
    [] OTHER -> ExpandQuadrant2(w, c)

-----------------------------------------------------------------------------
(* A 32-bit word.  ID masks the source fields an opcode does not use. *)

isSfence(w) == range(w, 31, 25) = 9 /\ get_funct3(w) = 0

id_rs1(w) == IF opcode(w) \in {55, 23, 111} THEN 0 ELSE get_rs1(w)

id_rs2(w) ==
  IF \/ opcode(w) \in {55, 23, 111, 19, 27, 3, 7, 103}
     \/ opcode(w) = 115 /\ ~isSfence(w)
  THEN 0 ELSE get_rs2(w)

id_rd(w) == IF opcode(w) \in {35, 39, 99} THEN 0 ELSE get_rd(w)

\* The shifts of ID_stage: instr >> 20, (instr >> 25) << 5 | ..., each sign-
\* extended from its top bit.
id_imm(w) ==
  CASE opcode(w) \in {19, 27, 3, 7, 103, 115} -> Signed(range(w, 31, 20), 12)
    [] opcode(w) \in {35, 39} ->
         Signed(range(w, 31, 25) * 32 + range(w, 11, 7), 12)
    [] opcode(w) = 99 ->
         Signed(bit(w, 31) * 4096 + bit(w, 7) * 2048 + range(w, 30, 25) * 32
                  + range(w, 11, 8) * 2, 13)
    [] opcode(w) \in {55, 23} -> Signed(range(w, 31, 12) * 2^UpperShift, WORD)
    [] opcode(w) = 111 ->
         Signed(bit(w, 31) * 2^20 + range(w, 19, 12) * 4096 + bit(w, 20) * 2048
                  + range(w, 30, 21) * 2, 21)
    [] OTHER -> 0

ID_decode(w) ==
  IF is_compressed(w) THEN Expand(w)
  ELSE Decoded(opcode(w), get_funct3(w), get_funct7(w), id_rd(w), id_rs1(w),
               id_rs2(w), id_imm(w))

-----------------------------------------------------------------------------
(* EX: the ALU.  a and b are the operand values, s and t the operands as   *)
(* signed numbers.                                                         *)

EX_op(f3, f7, a, b) ==
  LET s == Signed(a, XLEN)  t == Signed(b, XLEN) IN
  CASE f3 = 0 -> IF f7 = 32 THEN a - b ELSE a + b
    [] f3 = 1 -> Sll(a, b % XLEN, XLEN)
    [] f3 = 2 -> Flag(s < t)
    [] f3 = 3 -> Flag(a < b)
    [] f3 = 4 -> a ^^ b
    [] f3 = 5 -> IF f7 = 32 THEN Sra(a, b % XLEN, XLEN) ELSE Srl(a, b % XLEN, XLEN)
    [] f3 = 6 -> a | b
    [] f3 = 7 -> a & b

\* Bit 10 of the immediate tells SRAI from SRLI.
EX_op_imm(f3, a, imm) ==
  LET u == Trunc(imm, XLEN)  k == imm % XLEN IN
  CASE f3 = 0 -> a + imm
    [] f3 = 1 -> Sll(a, k, XLEN)
    [] f3 = 2 -> Flag(Signed(a, XLEN) < imm)
    [] f3 = 3 -> Flag(a < u)
    [] f3 = 4 -> a ^^ u
    [] f3 = 5 -> IF (imm \div 1024) % 2 = 1 THEN Sra(a, k, XLEN) ELSE Srl(a, k, XLEN)
    [] f3 = 6 -> a | u
    [] f3 = 7 -> a & u

EX_word_imm(f3, f7, a, imm) ==
  LET k == imm % WORD IN
  Signed(CASE f3 = 0 -> a + imm
           [] f3 = 1 -> Sll(a, k, WORD)
           [] f3 = 5 -> IF f7 = 32 THEN Sra(a, k, WORD) ELSE Srl(a, k, WORD)
           [] OTHER -> 0, WORD)

EX_word(f3, f7, a, b) ==
  LET k == b % WORD IN
  Signed(CASE f3 = 0 -> IF f7 = 32 THEN a - b ELSE a + b
           [] f3 = 1 -> Sll(a, k, WORD)
           [] f3 = 5 -> IF f7 = 32 THEN Sra(a, k, WORD) ELSE Srl(a, k, WORD)
           [] OTHER -> 0, WORD)

\* Division by zero gives all ones, overflow the dividend.
div_result(s, t, n) ==
  CASE t = 0 -> -1
    [] t = -1 /\ s = Least(n) -> s
    [] OTHER -> Quotient(s, t)

rem_result_zero(s, t, n) ==
  CASE t = 0 -> 0
    [] t = -1 /\ s = Least(n) -> 0
    [] OTHER -> Remainder(s, t)

rem_result(s, t, n) ==
  CASE t = 0 -> s
    [] t = -1 /\ s = Least(n) -> 0
    [] OTHER -> Remainder(s, t)

EX_muldiv(f3, a, b) ==
  LET s == Signed(a, XLEN)  t == Signed(b, XLEN) IN
  CASE f3 = 0 -> s * t
    [] f3 = 1 -> (s * t) \div 2^XLEN
    [] f3 = 2 -> (s * b) \div 2^XLEN
    [] f3 = 3 -> (a * b) \div 2^XLEN
    [] f3 = 4 -> div_result(s, t, XLEN)
    [] f3 = 5 -> IF b = 0 THEN 2^XLEN - 1 ELSE a \div b
    [] f3 = 6 -> rem_result(s, t, XLEN)
    [] f3 = 7 -> IF b = 0 THEN a ELSE a % b

EX_muldiv_word(f3, a, b) ==
  LET s == Signed(a, WORD)
      t == Signed(b, WORD)
      u == Trunc(a, WORD)
      v == Trunc(b, WORD)
  IN
  CASE f3 = 0 -> Signed(s * t, WORD)
    [] f3 = 4 -> div_result(s, t, WORD)
    [] f3 = 5 -> IF v = 0 THEN -1 ELSE Signed(u \div v, WORD)
    [] f3 = 6 -> rem_result(s, t, WORD)
    [] f3 = 7 -> Signed(IF v = 0 THEN u ELSE u % v, WORD)
    [] OTHER -> 0

\* clz64: leading zeros of an XLEN-bit value.
clz(v) == Cardinality({k \in 0..(XLEN - 1) : v < 2^k})

div_cycles_swapped(isSigned, word, a, b) ==
  LET n == IF word THEN WORD ELSE XLEN
      s == IF isSigned THEN Signed(a, n) ELSE Trunc(a, n)
      t == IF isSigned THEN Signed(b, n) ELSE Trunc(b, n)
      lzc_a_input == IF s < 0 THEN -s ELSE s
      lzc_b_input == IF t < 0 THEN -t - 1 ELSE t
      div_shift == clz(lzc_a_input) - clz(lzc_b_input)
  IN  IF div_shift < 0 \/ lzc_b_input = 0 THEN 1 ELSE div_shift + 6

\* Cycles the divider is busy, from the operands as the operation reads them.
div_cycles(isSigned, word, a, b) ==
  LET n == IF word THEN WORD ELSE XLEN
      s == IF isSigned THEN Signed(a, n) ELSE Trunc(a, n)
      t == IF isSigned THEN Signed(b, n) ELSE Trunc(b, n)
      lzc_a_input == IF s < 0 THEN -s ELSE s
      lzc_b_input == IF t < 0 THEN -t - 1 ELSE t
      div_shift == clz(lzc_b_input) - clz(lzc_a_input)
  IN  IF div_shift < 0 \/ lzc_b_input = 0 THEN 1 ELSE div_shift + 6

\* What EX writes to rd for the opcodes that compute a value; link is the
\* address behind the instruction.
EX_result(h, d, a, b, link) ==
  CASE d.opcode = 51 /\ d.funct7 = 1 -> EX_muldiv(d.funct3, a, b)
    [] d.opcode = 51 /\ d.funct7 # 1 -> EX_op(d.funct3, d.funct7, a, b)
    [] d.opcode = 19 -> EX_op_imm(d.funct3, a, d.imm)
    [] d.opcode = 55 -> d.imm
    [] d.opcode = 23 -> h.pc + d.imm
    [] d.opcode = 27 -> EX_word_imm(d.funct3, d.funct7, a, d.imm)
    [] d.opcode = 59 /\ d.funct7 = 1 -> EX_muldiv_word(d.funct3, a, b)
    [] d.opcode = 59 /\ d.funct7 # 1 -> EX_word(d.funct3, d.funct7, a, b)
    [] d.opcode \in {111, 103} -> link
    [] OTHER -> 0

branch_taken(d, a, b) ==
  LET s == Signed(a, XLEN)  t == Signed(b, XLEN) IN
  \/ d.opcode \in {111, 103}
  \/ d.opcode = 99 /\ CASE d.funct3 = 0 -> a = b
                        [] d.funct3 = 1 -> a # b
                        [] d.funct3 = 4 -> s < t
                        [] d.funct3 = 5 -> s >= t
                        [] d.funct3 = 6 -> a < b
                        [] d.funct3 = 7 -> a >= b
                        [] OTHER -> FALSE

branch_target_odd(h, d) ==
  IF d.opcode = 103 THEN Trunc(getValue(h, d.rs1) + d.imm, XLEN) ELSE h.pc + d.imm

branch_target(h, d) ==
  IF d.opcode = 103
  THEN LET t == Trunc(getValue(h, d.rs1) + d.imm, XLEN) IN t - (t % 2)
  ELSE h.pc + d.imm

-----------------------------------------------------------------------------
(* EX: memory *)

load_size(f3) == CASE f3 \in {0, 4} -> 1 [] f3 \in {1, 5} -> 2
                   [] f3 \in {2, 6} -> 4 [] f3 = 3 -> 8

EX_address(h, d) == Trunc(getValue(h, d.rs1) + d.imm, XLEN)

\* Sign extension for funct3 0..3, none above.
EX_load(h, d) ==
  LET n == load_size(d.funct3)  data == readDataMem(h, EX_address(h, d), n)
  IN  setValue(h, d.rd, IF d.funct3 < 4 THEN Signed(data, ByteBits * n) ELSE data)

\* A store whose bytes start at or below the reserved address and reach it
\* drops the reservation; a misaligned one takes the path that does not look.
EX_store(h, d) ==
  LET a == EX_address(h, d)  n == 2^d.funct3
      hit == {r \in h.res : a % n = 0 /\ r[1] \in a..(a + n - 1)}
  IN  [writeDataMem(h, a, getValue(h, d.rs2), n) EXCEPT !.res = @ \ hit]

amo_reservation_kept(h, op, a, n) ==
  CASE op = "LR" -> {<<a, n>>} [] op = "SC" -> h.res [] OTHER -> {}

\* One reservation, whatever its width; SC and every AMO drop it.
amo_reservation(h, op, a, n) == IF op = "LR" THEN {<<a, n>>} ELSE {}

EX_amo(h, d) ==
  LET a == getValue(h, d.rs1)
      n == IF d.funct3 = 3 THEN 8 ELSE 4
      m == ByteBits * n
      op == Entry(A_Codes, d.funct7 \div 4)
      old == readDataMem(h, a, n)
      v == Trunc(getValue(h, d.rs2), m)
      reserved == \E r \in h.res : r[1] = a
      g == [h EXCEPT !.res = amo_reservation(h, op, a, n)]
  IN
  CASE op = "LR" -> setValue(g, d.rd, Signed(old, m))
    [] op = "SC" /\ reserved -> setValue(writeDataMem(g, a, v, n), d.rd, 0)
    [] op = "SC" /\ ~reserved -> setValue(g, d.rd, 1)
    [] OTHER -> setValue(writeDataMem(g, a,
                           IF op = "ERROR" THEN old ELSE AmoValue(op, old, v, m), n),
                         d.rd, Signed(old, m))

-----------------------------------------------------------------------------
(* EX: system instructions, in machine mode.  CSRs are 64 bits wide. *)

Bits(ks) == Trunc(SumSet({2^k : k \in ks}), XLEN)

STATUS_SIE == Bits({1})
STATUS_MIE == Bits({3})
STATUS_SPIE == Bits({5})
STATUS_MPIE == Bits({7})
STATUS_SPP == Bits({8})
STATUS_MPP == Bits({11, 12})
WRITE_MASK == Bits({1, 3, 5, 7, 8} \cup 11..14 \cup 17..22)

\* take_exception with medeleg 0; an exception goes to the base of mtvec.
EX_trap(h, cause, tval) ==
  LET st == h.csr[CSR_MSTATUS]
      kept == Without(st, STATUS_MIE | STATUS_MPIE)
  IN  [h EXCEPT !.csr[CSR_MEPC] = h.pc,
                !.csr[CSR_MCAUSE] = cause,
                !.csr[CSR_MTVAL] = tval,
                !.csr[CSR_MSTATUS] =
                  kept | STATUS_MPP | (IF st & STATUS_MIE # 0 THEN STATUS_MPIE ELSE 0),
                !.pc = Without(h.csr[CSR_MTVEC], 3)]

\* mret and sret: the enable bit takes its saved value, which becomes 1, and
\* the saved mode becomes U.  Both drop the reservation.
EX_return(h, epc, enable, saved, mode) ==
  LET st == h.csr[CSR_MSTATUS]
      kept == Without(st, enable | mode)
  IN  [setPC(h, h.csr[epc]) EXCEPT
         !.res = {},
         !.csr[CSR_MSTATUS] = kept | saved | (IF st & saved # 0 THEN enable ELSE 0)]

\* The addresses CSR_File::read has a case for.
csr_known(c) == c \in Csrs \ {CSR_SEDELEG}

csr_read(h, c) ==
  IF c \in {CSR_MEPC, CSR_SEPC} THEN Without(h.csr[c], 1) ELSE h.csr[c]

\* The value CSR_File::write leaves in c; addresses from 0xC00 are read-only.
csr_written(h, c, v) ==
  CASE c \div 1024 = 3 -> h.csr[c]
    [] c = CSR_MSTATUS -> Without(h.csr[c], WRITE_MASK) | (v & WRITE_MASK)
    [] c = CSR_MTVEC -> Without(v, 2)
    [] c \in {CSR_MEPC, CSR_SEPC} -> Without(v, 1)
    [] OTHER -> v

csr_addr(d) == d.imm % 4096

csr_operand(h, d) == IF d.funct3 >= 5 THEN d.rs1 ELSE getValue(h, d.rs1)

\* The value EX hands to write; CSRRW always does, CSRRS and CSRRC only for a
\* non-zero operand.
csr_new(h, d) ==
  LET old == csr_read(h, csr_addr(d))  v == csr_operand(h, d) IN
  CASE d.funct3 % 4 = 1 -> v
    [] d.funct3 % 4 = 2 -> old | v
    [] d.funct3 % 4 = 3 -> Without(old, v)

csr_writes(h, d) == d.funct3 % 4 = 1 \/ csr_operand(h, d) # 0

\* An address CSR_File does not know is an illegal instruction; w is the word.
EX_csr(h, d, w) ==
  LET c == csr_addr(d)
      g == IF csr_writes(h, d)
           THEN [h EXCEPT !.csr[c] = csr_written(h, c, csr_new(h, d))] ELSE h
  IN  IF csr_known(c) THEN incPC(setValue(g, d.rd, csr_read(h, c)))
                      ELSE EX_trap(h, ILLEGAL_INSTRUCTION, Trunc(w, WORD))

\* WFI and SFENCE resume at the next word; an unknown funct12 is a no-op.
EX_system(h, d, w) ==
  CASE d.funct3 # 0 -> EX_csr(h, d, w)
    [] d.funct3 = 0 /\ d.imm = 1 -> EX_trap(h, BREAK, 0)
    [] d.funct3 = 0 /\ d.imm = 770 ->
         EX_return(h, CSR_MEPC, STATUS_MIE, STATUS_MPIE, STATUS_MPP)
    [] d.funct3 = 0 /\ d.imm = 258 ->
         EX_return(h, CSR_SEPC, STATUS_SIE, STATUS_SPIE, STATUS_SPP)
    [] OTHER -> incPC(h)

\* w is the fetched word, d its fields and next the address behind it.
EX_instruction(h, d, w, next) ==
  CASE ~d.legal -> EX_trap(h, ILLEGAL_INSTRUCTION, Trunc(w, WORD))
    [] d.legal /\ d.opcode = 115 -> EX_system(h, d, w)
    [] d.legal /\ d.opcode = 3 -> setPC(EX_load(h, d), next)
    [] d.legal /\ d.opcode = 35 -> setPC(EX_store(h, d), next)
    [] d.legal /\ d.opcode = 47 -> setPC(EX_amo(h, d), next)
    [] OTHER -> setPC(setValue(h, d.rd, EX_result(h, d, getValue(h, d.rs1),
                                                  getValue(h, d.rs2), next)),
                      IF branch_taken(d, getValue(h, d.rs1), getValue(h, d.rs2))
                      THEN branch_target(h, d) ELSE next)

\* One instruction through ID, EX and Commit.
six_step(h, w) ==
  EX_instruction(h, ID_decode(w), w, h.pc + (IF is_compressed(w) THEN 2 ELSE 4))
==============================================================================
