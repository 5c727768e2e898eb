------------------------------- MODULE MulDiv -------------------------------
(***************************************************************************)
(* M_extension<uint64_t>: multiplication and division as the non-pipelined *)
(* and the two-stage cores do it.                                          *)
(***************************************************************************)
EXTENDS BaseIsa

M_Codes == 0 :> "MUL" @@ 1 :> "MULH" @@ 2 :> "MULHSU" @@ 3 :> "MULHU" @@ 4 :> "DIV"
             @@ 5 :> "DIVU" @@ 6 :> "REM" @@ 7 :> "REMU"
M_WordCodes == 0 :> "MULW" @@ 4 :> "DIVW" @@ 5 :> "DIVUW" @@ 6 :> "REMW"
                 @@ 7 :> "REMUW"

\* Neither funct7 nor, for the second table, the opcode is looked at.
m_decode(w) ==
  IF opcode(w) = 51 THEN M_Codes[get_funct3(w)] ELSE Entry(M_WordCodes, get_funct3(w))

Exec_M_MUL(a, b) == Signed(a, XLEN) * Signed(b, XLEN)

\* The upper half of the double-width product.
Exec_M_MULH(a, b) == (Signed(a, XLEN) * Signed(b, XLEN)) \div 2^XLEN
Exec_M_MULHSU(a, b) == (Signed(a, XLEN) * b) \div 2^XLEN
Exec_M_MULHU(a, b) == (a * b) \div 2^XLEN

\* The overflow test compares with INT32_MIN.
Exec_M_DIV(a, b) ==
  LET s == Signed(a, XLEN)  t == Signed(b, XLEN) IN
  CASE t = 0 -> -1
    [] t = -1 /\ s = Least(WORD) -> 2^(WORD - 1)
    [] OTHER -> Quotient(s, t)

Exec_M_DIVU(a, b) == IF b = 0 THEN -1 ELSE a \div b

Exec_M_REM(a, b) ==
  LET s == Signed(a, XLEN)  t == Signed(b, XLEN) IN
  CASE t = 0 -> s
    [] t = -1 /\ s = Least(WORD) -> 0
    [] OTHER -> Remainder(s, t)

Exec_M_REMU(a, b) == IF b = 0 THEN a ELSE a % b

Exec_M_MULW(a, b) == Signed(Trunc(a, WORD) * Trunc(b, WORD), WORD)

\* On overflow the result is 0x80000000 in a 64-bit variable.
Exec_M_DIVW(a, b) ==
  LET s == Signed(a, WORD)  t == Signed(b, WORD) IN
  CASE t = 0 -> -1
    [] t = -1 /\ s = Least(WORD) -> 2^(WORD - 1)
    [] OTHER -> Quotient(s, t)

Exec_M_DIVUW(a, b) ==
  LET u == Trunc(a, WORD)  v == Trunc(b, WORD)
  IN  IF v = 0 THEN -1 ELSE Signed(u \div v, WORD)

Exec_M_REMW(a, b) ==
  LET s == Signed(a, WORD)  t == Signed(b, WORD) IN
  CASE t = 0 -> s
    [] t = -1 -> 0
    [] OTHER -> Remainder(s, t)

Exec_M_REMUW(a, b) ==
  LET u == Trunc(a, WORD)  v == Trunc(b, WORD)
  IN  Signed(IF v = 0 THEN u ELSE u % v, WORD)

\* INT64_MIN / -1 and INT64_MIN % -1 are undefined: the host's division traps
\* and the simulator dies.
m_undefined(op, a, b) ==
  /\ op \in {"DIV", "REM"}
  /\ Signed(a, XLEN) = Least(XLEN) /\ Signed(b, XLEN) = -1

m_result(op, a, b) ==
  CASE op = "MUL" -> Exec_M_MUL(a, b)
    [] op = "MULH" -> Exec_M_MULH(a, b)
    [] op = "MULHSU" -> Exec_M_MULHSU(a, b)
    [] op = "MULHU" -> Exec_M_MULHU(a, b)
    [] op = "DIV" -> Exec_M_DIV(a, b)
    [] op = "DIVU" -> Exec_M_DIVU(a, b)
    [] op = "REM" -> Exec_M_REM(a, b)
    [] op = "REMU" -> Exec_M_REMU(a, b)
    [] op = "MULW" -> Exec_M_MULW(a, b)
    [] op = "DIVW" -> Exec_M_DIVW(a, b)
    [] op = "DIVUW" -> Exec_M_DIVUW(a, b)
    [] op = "REMW" -> Exec_M_REMW(a, b)
    [] op = "REMUW" -> Exec_M_REMUW(a, b)

m_exec_instruction(h, w, op) ==
  LET a == rs1(h, w)  b == rs2(h, w) IN
  IF m_undefined(op, a, b) THEN NOP(h) ELSE setValue(h, get_rd(w), m_result(op, a, b))
==============================================================================
