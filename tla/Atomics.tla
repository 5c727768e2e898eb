------------------------------- MODULE Atomics -------------------------------
(***************************************************************************)
(* A_extension<uint64_t>: LR/SC and the atomic memory operations as the    *)
(* non-pipelined and the two-stage cores do them.  A reservation is an     *)
(* element <<address, size>> of h.res; the code keeps one unordered_set    *)
(* per size.                                                               *)
(***************************************************************************)
EXTENDS BaseIsa

A_Codes == 0 :> "AMOADD" @@ 1 :> "AMOSWAP" @@ 2 :> "LR" @@ 3 :> "SC"
             @@ 4 :> "AMOXOR" @@ 8 :> "AMOOR" @@ 12 :> "AMOAND" @@ 16 :> "AMOMIN"
             @@ 20 :> "AMOMAX" @@ 24 :> "AMOMINU" @@ 28 :> "AMOMAXU"

a_decode(w) == Entry(A_Codes, range(w, 31, 27))

\* Every funct3 but 3 is the 32-bit form.
a_size(w) == IF get_funct3(w) = 3 THEN 8 ELSE 4

\* The 32-bit forms hold the address in 32 bits.
a_address(h, w) == Trunc(rs1(h, w), IF a_size(w) = 8 THEN XLEN ELSE WORD)

TLB_reserve(h, a, n) == [h EXCEPT !.res = @ \cup {<<a, n>>}]

\* A reservation is used up by the SC that finds it; others stay.
TLB_used(h, a, n) == [h EXCEPT !.res = @ \ {<<a, n>>}]

\* LR.W with rs2 # x0 traps, but the caller steps over the handler's first
\* word; LR.D does not look at rs2.
Exec_A_LR(h, w) ==
  LET a == a_address(h, w)  n == a_size(w) IN
  IF n = 4 /\ get_rs2(w) # 0 THEN RaiseException(h, ILLEGAL_INSTRUCTION, w)
  ELSE TLB_reserve(setValue(h, get_rd(w), Signed(readDataMem(h, a, n), ByteBits * n)),
                   a, n)

Exec_A_SC(h, w) ==
  LET a == a_address(h, w)  n == a_size(w) IN
  IF <<a, n>> \in h.res
  THEN setValue(TLB_used(writeDataMem(h, a, rs2(h, w), n), a, n), get_rd(w), 0)
  ELSE setValue(h, get_rd(w), 1)

\* The value an AMO stores, for operands of n bits.
AmoValue(op, old, v, n) ==
  CASE op = "AMOSWAP" -> v
    [] op = "AMOADD" -> Trunc(old + v, n)
    [] op = "AMOXOR" -> old ^^ v
    [] op = "AMOAND" -> old & v
    [] op = "AMOOR" -> old | v
    [] op = "AMOMIN" -> IF Signed(old, n) < Signed(v, n) THEN old ELSE v
    [] op = "AMOMAX" -> IF Signed(old, n) > Signed(v, n) THEN old ELSE v
    [] op = "AMOMINU" -> IF old < v THEN old ELSE v
    [] op = "AMOMAXU" -> IF old > v THEN old ELSE v

\* rs2 is read before rd is written.
Exec_AMO(h, w, op) ==
  LET a == a_address(h, w)
      n == a_size(w)
      old == readDataMem(h, a, n)
      v == Trunc(rs2(h, w), ByteBits * n)
  IN  writeDataMem(setValue(h, get_rd(w), Signed(old, ByteBits * n)), a,
                   AmoValue(op, old, v, ByteBits * n), n)

a_exec_instruction(h, w, op) ==
  CASE op = "LR" -> Exec_A_LR(h, w)
    [] op = "SC" -> Exec_A_SC(h, w)
    [] OTHER -> Exec_AMO(h, w, op)
==============================================================================
