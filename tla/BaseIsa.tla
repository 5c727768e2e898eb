------------------------------- MODULE BaseIsa -------------------------------
(***************************************************************************)
(* BASE_ISA<uint64_t>: decode and execution of RV64I and Zicsr as the      *)
(* non-pipelined and the two-stage cores do it.  decode returns the name   *)
(* of the operation or "ERROR"; an Exec operator maps a hart to the hart   *)
(* after it; pc is advanced by the caller unless the operation changed it. *)
(***************************************************************************)
EXTENDS Hart, TLC

CONSTANT UpperShift      \* position of a U-type immediate: 12 in the code

ASSUME UpperShiftAssumption == UpperShift \in Nat

-----------------------------------------------------------------------------
(* decode *)

Branches == 0 :> "BEQ" @@ 1 :> "BNE" @@ 4 :> "BLT" @@ 5 :> "BGE"
              @@ 6 :> "BLTU" @@ 7 :> "BGEU"
Loads == 0 :> "LB" @@ 1 :> "LH" @@ 2 :> "LW" @@ 3 :> "LD" @@ 4 :> "LBU"
           @@ 5 :> "LHU" @@ 6 :> "LWU"
Stores == 0 :> "SB" @@ 1 :> "SH" @@ 2 :> "SW" @@ 3 :> "SD"
Immediates == 0 :> "ADDI" @@ 1 :> "SLLI" @@ 2 :> "SLTI" @@ 3 :> "SLTIU"
                @@ 4 :> "XORI" @@ 6 :> "ORI" @@ 7 :> "ANDI"
Operations == 1 :> "SLL" @@ 2 :> "SLT" @@ 3 :> "SLTU" @@ 4 :> "XOR"
                @@ 6 :> "OR" @@ 7 :> "AND"
CsrOps == 1 :> "CSRRW" @@ 2 :> "CSRRS" @@ 3 :> "CSRRC" @@ 5 :> "CSRRWI"
            @@ 6 :> "CSRRSI" @@ 7 :> "CSRRCI"
Privileged == 0 :> "ECALL" @@ 1 :> "EBREAK" @@ 2 :> "URET" @@ 9 :> "SFENCE"
                @@ 258 :> "SRET" @@ 261 :> "WFI" @@ 770 :> "MRET"

Entry(table, k) == IF k \in DOMAIN table THEN table[k] ELSE "ERROR"

\* The two forms told apart by bits 31..26 (shifts) or 31..25.
Either(code, plain, alternate, yes, no) ==
  CASE code = plain -> yes [] code = alternate -> no [] OTHER -> "ERROR"

decodeSystem(w) ==
  LET op == Entry(Privileged, get_csr(w)) IN
  CASE get_funct3(w) # 0 -> Entry(CsrOps, get_funct3(w))
    [] op = "ERROR" /\ range(w, 31, 25) = 9 -> "SFENCE"
    [] OTHER -> op

\* Opcode 0x33.
decodeOp(w) ==
  LET f3 == get_funct3(w)  f7 == get_funct7(w) IN
  CASE f7 \notin {0, 32} -> "ERROR"
    [] f3 = 0 -> Either(f7, 0, 32, "ADD", "SUB")
    [] f3 = 5 -> Either(f7, 0, 32, "SRL", "SRA")
    [] OTHER -> Operations[f3]

\* Opcodes 0x1B and 0x3B.
decodeWord(w) ==
  LET f3 == get_funct3(w)  top == range(w, 31, 26) IN
  IF opcode(w) = 27
  THEN CASE f3 = 0 -> "ADDIW" [] f3 = 1 -> "SLLIW"
         [] f3 = 5 -> Either(top, 0, 16, "SRLIW", "SRAIW")
         [] OTHER -> "ERROR"
  ELSE CASE get_funct7(w) \notin {0, 32} -> "ERROR"
         [] f3 = 0 -> Either(top, 0, 16, "ADDW", "SUBW")
         [] f3 = 1 -> "SLLW"
         [] f3 = 5 -> Either(top, 0, 16, "SRLW", "SRAW")
         [] OTHER -> "ERROR"

decode(w) ==
  LET f3 == get_funct3(w) IN
  CASE opcode(w) = 55 -> "LUI"
    [] opcode(w) = 23 -> "AUIPC"
    [] opcode(w) = 111 -> "JAL"
    [] opcode(w) = 103 -> "JALR"
    [] opcode(w) = 99 -> Entry(Branches, f3)
    [] opcode(w) = 3 -> Entry(Loads, f3)
    [] opcode(w) = 35 -> Entry(Stores, f3)
    [] opcode(w) = 19 /\ f3 = 5 -> Either(range(w, 31, 26), 0, 16, "SRLI", "SRAI")
    [] opcode(w) = 19 /\ f3 # 5 -> Immediates[f3]
    [] opcode(w) = 51 -> decodeOp(w)
    [] opcode(w) = 15 -> "FENCE"
    [] opcode(w) = 115 -> decodeSystem(w)
    [] opcode(w) \in {27, 59} -> decodeWord(w)
    [] OTHER -> "ERROR"

-----------------------------------------------------------------------------
(* Execution.  rs1 and rs2 are the operands as register values. *)

rs1(h, w) == getValue(h, get_rs1(w))
rs2(h, w) == getValue(h, get_rs2(w))

\* int32_t of the U-type immediate in its place.
UpperImmediate(w) == Signed(get_imm_U(w) * 2^UpperShift, WORD)

Exec_LUI(h, w) == setValue(h, get_rd(w), UpperImmediate(w))
Exec_AUIPC(h, w) == setValue(h, get_rd(w), h.pc + UpperImmediate(w))

Exec_JAL(h, w) ==
  setValue(setPC(h, h.pc + get_imm_J(w)), get_rd(w), h.pc + 4)

Exec_JALR(h, w) ==
  LET target == Trunc(rs1(h, w) + get_imm_I(w), XLEN)
  IN  setPC(setValue(h, get_rd(w), h.pc + 4), target - (target % 2))

Taken(op, a, b) ==
  CASE op = "BEQ" -> a = b
    [] op = "BNE" -> a # b
    [] op = "BLT" -> Signed(a, XLEN) < Signed(b, XLEN)
    [] op = "BGE" -> Signed(a, XLEN) >= Signed(b, XLEN)
    [] op = "BLTU" -> a < b
    [] op = "BGEU" -> a >= b

Exec_branch(h, w, op) ==
  IF Taken(op, rs1(h, w), rs2(h, w)) THEN setPC(h, h.pc + get_imm_B(w))
                                     ELSE incPC(h)

\* Bytes moved by a load or a store.
Width(op) ==
  CASE op \in {"LB", "LBU", "SB"} -> 1
    [] op \in {"LH", "LHU", "SH"} -> 2
    [] op \in {"LW", "LWU", "SW"} -> 4
    [] OTHER -> 8

LoadAddress(h, w) == Trunc(rs1(h, w) + get_imm_I(w), XLEN)
StoreAddress(h, w) == Trunc(rs1(h, w) + get_imm_S(w), XLEN)

\* LB, LH and LW sign-extend, LBU, LHU and LWU do not.
Exec_load(h, w, op) ==
  LET data == readDataMem(h, LoadAddress(h, w), Width(op))
  IN  setValue(h, get_rd(w),
               IF op \in {"LB", "LH", "LW"}
               THEN Signed(data, ByteBits * Width(op)) ELSE data)

\* Two accesses of four bytes.
Exec_LD(h, w) ==
  LET a == LoadAddress(h, w)
  IN  setValue(h, get_rd(w), readDataMem(h, a, 4)
                               + readDataMem(h, a + 4, 4) * 2^WORD)

Exec_SD(h, w) ==
  LET a == StoreAddress(h, w)  data == rs2(h, w)
  IN  writeDataMem(writeDataMem(h, a, Trunc(data, WORD), 4),
                   a + 4, Srl(data, WORD, XLEN), 4)

Exec_store(h, w, op) ==
  writeDataMem(h, StoreAddress(h, w), rs2(h, w), Width(op))

-----------------------------------------------------------------------------

Arithmetic(op, a, b) ==
  CASE op = "ADD" -> a + b
    [] op = "SUB" -> a - b
    [] op = "SLT" -> Flag(Signed(a, XLEN) < Signed(b, XLEN))
    [] op = "SLTU" -> Flag(a < b)

Logic(op, a, b) ==
  CASE op = "XOR" -> a ^^ b [] op = "OR" -> a | b [] op = "AND" -> a & b

\* 64-bit shifts: the amount is taken modulo the width.
Shift(op, a, k) ==
  CASE op = "SLL" -> Sll(a, k % XLEN, XLEN)
    [] op = "SRL" -> Srl(a, k % XLEN, XLEN)
    [] op = "SRA" -> Sra(a, k % XLEN, XLEN)

\* 32-bit operations: the result is sign-extended.
WordOp(op, a, b) ==
  Signed(CASE op = "ADDW" -> a + b
           [] op = "SUBW" -> a - b
           [] op = "SLLW" -> Sll(a, b % WORD, WORD)
           [] op = "SRLW" -> Srl(a, b % WORD, WORD)
           [] op = "SRAW" -> Sra(a, b % WORD, WORD), WORD)

Exec_OP(h, w, op) ==
  LET a == rs1(h, w)  b == rs2(h, w) IN
  setValue(h, get_rd(w),
    CASE op \in {"ADD", "SUB", "SLT", "SLTU"} -> Arithmetic(op, a, b)
      [] op \in {"XOR", "OR", "AND"} -> Logic(op, a, b)
      [] op \in {"SLL", "SRL", "SRA"} -> Shift(op, a, b)
      [] OTHER -> WordOp(op, a, b))

Exec_ADDI(h, w) == setValue(h, get_rd(w), rs1(h, w) + get_imm_I(w))
Exec_ADDIW(h, w) == setValue(h, get_rd(w), Signed(rs1(h, w) + get_imm_I(w), WORD))

Exec_OP_IMM(h, w, op) ==
  LET a == rs1(h, w)  i == get_imm_I(w)  u == Trunc(i, XLEN) IN
  setValue(h, get_rd(w),
    CASE op = "SLTI" -> Flag(Signed(a, XLEN) < i)
      [] op = "SLTIU" -> Flag(a < u)
      [] op = "XORI" -> a ^^ u [] op = "ORI" -> a | u [] op = "ANDI" -> a & u)

Exec_shift_imm(h, w, op) ==
  setValue(h, get_rd(w),
    Shift(CASE op = "SLLI" -> "SLL" [] op = "SRLI" -> "SRL" [] op = "SRAI" -> "SRA",
          rs1(h, w), get_shamt(w)))

\* SLLIW and SRLIW stop the simulation when bit 5 of the amount is set; the
\* caller ignores their result and steps over the handler's first word.
Exec_shift_word_imm(h, w, op) ==
  IF op # "SRAIW" /\ get_shamt(w) >= 32
  THEN NOP(RaiseException(h, ILLEGAL_INSTRUCTION, w))
  ELSE setValue(h, get_rd(w),
         WordOp(CASE op = "SLLIW" -> "SLLW" [] op = "SRLIW" -> "SRLW"
                  [] op = "SRAIW" -> "SRAW", rs1(h, w), get_shamt(w)))

-----------------------------------------------------------------------------
(* CSR and privileged instructions *)

Exec_CSRRW(h, w) ==
  setCSR(setValue(h, get_rd(w), h.csr[get_csr(w)]), get_csr(w), rs1(h, w))

\* The bits of a that are not in b.
Without(a, b) == a - (a & b)

\* With rd = x0 the code returns before it writes the CSR.
Exec_CSRRS_CSRRC(h, w, op) ==
  LET old == h.csr[get_csr(w)] IN
  IF get_rd(w) = 0 THEN h
  ELSE setCSR(setValue(h, get_rd(w), old), get_csr(w),
              IF op = "CSRRS" THEN old | rs1(h, w) ELSE Without(old, rs1(h, w)))

\* The rs1 field is the operand; with 0, CSRRSI and CSRRCI return before
\* they write rd.
Exec_CSR_imm(h, w, op) ==
  LET old == h.csr[get_csr(w)]  zimm == get_rs1(w) IN
  CASE op = "CSRRWI" -> setCSR(setValue(h, get_rd(w), old), get_csr(w), zimm)
    [] op # "CSRRWI" /\ zimm = 0 -> h
    [] OTHER -> setCSR(setValue(h, get_rd(w), old), get_csr(w),
                       IF op = "CSRRSI" THEN old | zimm ELSE Without(old, zimm))

Exec_MRET(h) ==
  LET st == h.csr[CSR_MSTATUS]
      enabled == IF st & MSTATUS_MPIE # 0 THEN st | MSTATUS_MIE ELSE st
  IN  setCSR(setPC(h, h.csr[CSR_MEPC]), CSR_MSTATUS, enabled | MSTATUS_MPIE)

Exec_SRET(h) == setPC(h, h.csr[CSR_SEPC])

\* ECALL and EBREAK trap; the latter also stops the simulation.
Exec_ECALL(h, w) == RaiseException(h, CALL_FROM_M_MODE, w)
Exec_EBREAK(h, w) == RaiseException(h, BREAK, w)

\* The word behind a FENCE is read; an ECALL there (115) ends the simulation.
Exec_FENCE(h) ==
  IF readDataMem(h, Trunc(h.pc + 4, WORD), 4) = Trunc(115, WORD) THEN NOP(h) ELSE h

-----------------------------------------------------------------------------

\* Operations after which exec_instruction returns false: pc is final.
ChangesPC == {"JAL", "JALR", "BEQ", "BNE", "BLT", "BGE", "BLTU", "BGEU", "MRET",
              "SRET", "ECALL", "EBREAK"}

ShiftImmediates == {"SLLI", "SRLI", "SRAI"}
ShiftWordImmediates == {"SLLIW", "SRLIW", "SRAIW"}

\* WFI and SFENCE leave the hart alone; URET has no case of its own.
exec_instruction(h, w, op) ==
  CASE op = "LUI" -> Exec_LUI(h, w)
    [] op = "AUIPC" -> Exec_AUIPC(h, w)
    [] op = "JAL" -> Exec_JAL(h, w)
    [] op = "JALR" -> Exec_JALR(h, w)
    [] op \in Range(Branches) -> Exec_branch(h, w, op)
    [] op = "LD" -> Exec_LD(h, w)
    [] op \in Range(Loads) \ {"LD"} -> Exec_load(h, w, op)
    [] op = "SD" -> Exec_SD(h, w)
    [] op \in Range(Stores) \ {"SD"} -> Exec_store(h, w, op)
    [] op = "ADDI" -> Exec_ADDI(h, w)
    [] op = "ADDIW" -> Exec_ADDIW(h, w)
    [] op \in {"SLTI", "SLTIU", "XORI", "ORI", "ANDI"} -> Exec_OP_IMM(h, w, op)
    [] op \in ShiftImmediates -> Exec_shift_imm(h, w, op)
    [] op \in ShiftWordImmediates -> Exec_shift_word_imm(h, w, op)
    [] op = "CSRRW" -> Exec_CSRRW(h, w)
    [] op \in {"CSRRS", "CSRRC"} -> Exec_CSRRS_CSRRC(h, w, op)
    [] op \in {"CSRRWI", "CSRRSI", "CSRRCI"} -> Exec_CSR_imm(h, w, op)
    [] op = "MRET" -> Exec_MRET(h)
    [] op = "SRET" -> Exec_SRET(h)
    [] op = "ECALL" -> Exec_ECALL(h, w)
    [] op = "EBREAK" -> Exec_EBREAK(h, w)
    [] op = "FENCE" -> Exec_FENCE(h)
    [] op \in {"WFI", "SFENCE"} -> h
    [] op = "URET" -> NOP(h)
    [] OTHER -> Exec_OP(h, w, op)
==============================================================================
