---------------------------- MODULE CompressedIsa ----------------------------
(***************************************************************************)
(* C_extension<uint64_t>: decode and execution of the 16-bit instructions  *)
(* as the non-pipelined and the two-stage cores do it.                     *)
(***************************************************************************)
EXTENDS BaseIsa

Quadrant0 == 0 :> "C_ADDI4SPN" @@ 1 :> "C_FLD" @@ 2 :> "C_LW" @@ 3 :> "C_LD"
               @@ 5 :> "C_FSD" @@ 6 :> "C_SW" @@ 7 :> "C_SD"
Quadrant1 == 0 :> "C_ADDI" @@ 1 :> "C_ADDIW" @@ 2 :> "C_LI" @@ 3 :> "C_ADDI16SP"
               @@ 5 :> "C_J" @@ 6 :> "C_BEQZ" @@ 7 :> "C_BNEZ"
Quadrant2 == 0 :> "C_SLLI" @@ 1 :> "C_FLDSP" @@ 2 :> "C_LWSP" @@ 3 :> "C_LDSP"
               @@ 5 :> "C_FSDSP" @@ 6 :> "C_SWSP" @@ 7 :> "C_SDSP"

\* Quadrant 1, funct3 4: shifts and register operations on x8..x15.
decodeMiscAlu(w) ==
  LET wide == bit(w, 12) = 1 IN
  CASE range(w, 11, 10) = 0 -> "C_SRLI"
    [] range(w, 11, 10) = 1 -> "C_SRAI"
    [] range(w, 11, 10) = 2 -> "C_ANDI"
    [] OTHER -> CASE range(w, 6, 5) = 0 -> IF wide THEN "C_SUBW" ELSE "C_SUB"
                  [] range(w, 6, 5) = 1 -> IF wide THEN "C_ADDW" ELSE "C_XOR"
                  [] range(w, 6, 5) = 2 -> "C_OR"
                  [] OTHER -> "C_AND"

\* Quadrant 2, funct3 4: jumps through a register, moves and C.EBREAK.
decodeJumpMove(w) ==
  CASE bit(w, 12) = 0 /\ range(w, 6, 2) = 0 -> "C_JR"
    [] bit(w, 12) = 0 /\ range(w, 6, 2) # 0 -> "C_MV"
    [] bit(w, 12) = 1 /\ range(w, 11, 2) = 0 -> "C_EBREAK"
    [] bit(w, 12) = 1 /\ range(w, 11, 2) # 0 /\ range(w, 6, 2) = 0 -> "C_JALR"
    [] OTHER -> "C_ADD"

c_decode(w) ==
  LET f3 == c_funct3(w) IN
  CASE range(w, 1, 0) = 0 -> Entry(Quadrant0, f3)
    [] range(w, 1, 0) = 1 -> IF f3 = 4 THEN decodeMiscAlu(w) ELSE Quadrant1[f3]
    [] range(w, 1, 0) = 2 -> IF f3 = 4 THEN decodeJumpMove(w) ELSE Quadrant2[f3]
    [] OTHER -> "ERROR"

-----------------------------------------------------------------------------

SP == 2
RA == 1

c_rs1(h, w) == getValue(h, c_rd(w))
c_rs1pv(h, w) == getValue(h, c_rs1p(w))
c_rs2v(h, w) == getValue(h, c_rs2(w))
c_rs2pv(h, w) == getValue(h, c_rdp(w))

\* Jumps compute their target, and a link, in 32 bits.
Exec_C_JR(h, w) ==
  LET t == Trunc(c_rs1(h, w), WORD) IN setPC(h, t - (t % 2))

Exec_C_JALR(h, w) ==
  LET t == Trunc(c_rs1(h, w), WORD)
  IN  setPC(setValue(h, RA, Trunc(h.pc + 2, WORD)), t - (t % 2))

Exec_C_JAL(h, w, rd) ==
  setValue(setPC(h, Trunc(h.pc + c_imm_J(w), WORD)), rd, Trunc(h.pc + 2, WORD))

Exec_C_MV_ADD(h, w, op) ==
  setValue(h, c_rd(w), IF op = "C_MV" THEN c_rs2v(h, w)
                       ELSE c_rs1(h, w) + c_rs2v(h, w))

Exec_C_LWSP(h, w) ==
  LET a == Trunc(c_imm_LWSP(w) + getValue(h, SP), XLEN)
  IN  setValue(h, c_rd(w), Signed(readDataMem(h, a, 4), WORD))

\* A zero immediate is the all-zero illegal word.
Exec_C_ADDI4SPN(h, w) ==
  IF c_imm_ADDI4SPN(w) = 0 THEN RaiseException(h, ILLEGAL_INSTRUCTION, w)
  ELSE setValue(h, c_rdp(w), getValue(h, SP) + c_imm_ADDI4SPN(w))

Exec_C_ADDI16SP(h, w) ==
  IF c_rd(w) = SP THEN setValue(h, SP, getValue(h, SP) + c_imm_ADDI16SP(w))
  ELSE setValue(h, c_rd(w), c_imm_LUI(w) * 2^UpperShift)

Exec_C_SWSP(h, w) ==
  writeDataMem(h, Trunc(c_imm_CSS(w) + getValue(h, SP), WORD), c_rs2v(h, w), 4)

Exec_C_branch(h, w, op) ==
  IF (c_rs1pv(h, w) = 0) = (op = "C_BEQZ") THEN setPC(h, h.pc + c_imm_CB(w))
                                           ELSE incPCby2(h)

Exec_C_LI(h, w) == setValue(h, c_rd(w), c_imm_ADDI(w))

\* The amount is the sign-extended immediate; shifting by a negative or too
\* large amount is undefined in C++ and takes the low bits on the build's
\* machines.
Exec_C_shift(h, w, op) ==
  LET r == IF op = "C_SLLI" THEN c_rd(w) ELSE c_rs1p(w) IN
  setValue(h, r,
    Shift(CASE op = "C_SLLI" -> "SLL" [] op = "C_SRLI" -> "SRL"
            [] op = "C_SRAI" -> "SRA", getValue(h, r), c_imm_ADDI(w)))

Exec_C_ALU(h, w, op) ==
  LET a == c_rs1pv(h, w)  b == c_rs2pv(h, w) IN
  setValue(h, c_rs1p(w),
    CASE op = "C_ANDI" -> a & Trunc(c_imm_ADDI(w), XLEN)
      [] op = "C_SUB" -> a - b
      [] op = "C_SUBW" -> Signed(a - b, WORD)
      [] op = "C_ADDW" -> Signed(a + b, WORD)
      [] op = "C_XOR" -> a ^^ b
      [] op = "C_OR" -> a | b
      [] op = "C_AND" -> a & b)

\* An eight-byte access in two halves.
ReadPair(h, a) == readDataMem(h, a, 4) + readDataMem(h, a + 4, 4) * 2^WORD

WritePair(h, a, v) ==
  writeDataMem(writeDataMem(h, a, Trunc(v, WORD), 4), a + 4, Srl(v, WORD, XLEN), 4)

Exec_C_SDSP(h, w) ==
  WritePair(h, Trunc(c_imm_CSDSP(w) + getValue(h, SP), XLEN), c_rs2v(h, w))

Exec_C_ADDI_ADDIW(h, w, op) ==
  LET sum == c_rs1(h, w) + c_imm_ADDI(w)
  IN  setValue(h, c_rd(w), IF op = "C_ADDI" THEN sum ELSE Signed(sum, WORD))

Exec_C_LW_LD(h, w, op) ==
  LET a == Trunc(c_rs1pv(h, w) + (IF op = "C_LW" THEN c_imm_L(w) ELSE c_imm_CL(w)),
                 XLEN)
  IN  setValue(h, c_rdp(w), IF op = "C_LW" THEN Signed(readDataMem(h, a, 4), WORD)
                                          ELSE ReadPair(h, a))

Exec_C_SD_SW(h, w, op) ==
  IF op = "C_SW"
  THEN writeDataMem(h, Trunc(c_rs1pv(h, w) + c_imm_L(w), WORD), c_rs2pv(h, w), 4)
  ELSE WritePair(h, Trunc(c_rs1pv(h, w) + c_imm_CL(w), XLEN), c_rs2pv(h, w))

Exec_C_LDSP(h, w) ==
  setValue(h, c_rd(w), ReadPair(h, Trunc(c_imm_LDSP(w) + getValue(h, SP), XLEN)))

-----------------------------------------------------------------------------

\* pc is final after these; after an illegal C.ADDI4SPN as well, but not
\* after the floating-point words, whose trap lands two bytes into the handler.
C_ChangesPC == {"C_JAL", "C_J", "C_JR", "C_JALR", "C_BEQZ", "C_BNEZ", "C_EBREAK"}

c_pc_final(w, op) ==
  op \in C_ChangesPC \/ (op = "C_ADDI4SPN" /\ c_imm_ADDI4SPN(w) = 0)

c_exec_instruction(h, w, op) ==
  CASE op = "C_ADDI4SPN" -> Exec_C_ADDI4SPN(h, w)
    [] op \in {"C_LW", "C_LD"} -> Exec_C_LW_LD(h, w, op)
    [] op \in {"C_SW", "C_SD"} -> Exec_C_SD_SW(h, w, op)
    [] op \in {"C_ADDI", "C_ADDIW"} -> Exec_C_ADDI_ADDIW(h, w, op)
    [] op = "C_J" -> Exec_C_JAL(h, w, 0)
    [] op = "C_LI" -> Exec_C_LI(h, w)
    [] op \in {"C_SLLI", "C_SRLI", "C_SRAI"} -> Exec_C_shift(h, w, op)
    [] op = "C_LWSP" -> Exec_C_LWSP(h, w)
    [] op = "C_LDSP" -> Exec_C_LDSP(h, w)
    [] op = "C_SWSP" -> Exec_C_SWSP(h, w)
    [] op = "C_SDSP" -> Exec_C_SDSP(h, w)
    [] op = "C_JR" -> Exec_C_JR(h, w)
    [] op = "C_JALR" -> Exec_C_JALR(h, w)
    [] op \in {"C_MV", "C_ADD"} -> Exec_C_MV_ADD(h, w, op)
    [] op = "C_ADDI16SP" -> Exec_C_ADDI16SP(h, w)
    [] op \in {"C_BEQZ", "C_BNEZ"} -> Exec_C_branch(h, w, op)
    [] op = "C_EBREAK" -> RaiseException(h, BREAK, w)
    [] op \in {"C_FLD", "C_FSD", "C_FLDSP", "C_FSDSP"} ->
         RaiseException(h, ILLEGAL_INSTRUCTION, w)
    [] OTHER -> Exec_C_ALU(h, w, op)
==============================================================================
