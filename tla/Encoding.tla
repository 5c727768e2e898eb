------------------------------ MODULE Encoding ------------------------------
(***************************************************************************)
(* Instruction words and their fields.  An instruction word is an int32_t, *)
(* bit 31 its sign; m_instr.range(hi, lo) of the code is range(w, hi, lo). *)
(* An immediate is assembled from pieces <<hi, lo, shift>>: range(hi, lo)  *)
(* << shift.                                                               *)
(***************************************************************************)
EXTENDS Words, Sequences

range(w, hi, lo) ==
  IF lo = 31 THEN Flag(w < 0) ELSE (w \div 2^lo) % 2^(hi - lo + 1)

bit(w, k) == range(w, k, k)

\* The pieces of an immediate or-ed together; they never overlap.
pieces(w, ps) ==
  MapThenSumSet(LAMBDA i : range(w, ps[i][1], ps[i][2]) * 2^ps[i][3],
                DOMAIN ps)

\* The pieces as a number of n bits sign-extended from its top bit.
signedPieces(w, ps, n) == Signed(pieces(w, ps), n)

-----------------------------------------------------------------------------
(* The fields of a 32-bit instruction. *)

opcode(w) == range(w, 6, 0)
get_rd(w) == range(w, 11, 7)
get_rs1(w) == range(w, 19, 15)
get_rs2(w) == range(w, 24, 20)
get_funct3(w) == range(w, 14, 12)
get_funct7(w) == range(w, 31, 25)
get_shamt(w) == range(w, 25, 20)
get_csr(w) == range(w, 31, 20)

get_imm_I(w) == signedPieces(w, <<<<31, 20, 0>>>>, 12)
get_imm_S(w) == signedPieces(w, <<<<31, 25, 5>>, <<11, 7, 0>>>>, 12)
get_imm_U(w) == range(w, 31, 12)

get_imm_B_exchanged(w) ==
  signedPieces(w, <<<<7, 7, 12>>, <<30, 25, 5>>, <<31, 31, 11>>, <<11, 8, 1>>>>,
               13)

get_imm_B(w) ==
  signedPieces(w, <<<<7, 7, 11>>, <<30, 25, 5>>, <<31, 31, 12>>, <<11, 8, 1>>>>,
               13)

get_imm_J(w) ==
  signedPieces(w, <<<<31, 31, 20>>, <<19, 12, 12>>, <<20, 20, 11>>,
                    <<30, 21, 1>>>>, 21)

-----------------------------------------------------------------------------
(* The fields of a compressed instruction: registers with a prime are      *)
(* x8..x15.                                                                *)

c_rd(w) == range(w, 11, 7)
c_rs2(w) == range(w, 6, 2)
c_rdp(w) == range(w, 4, 2) + 8
c_rs1p(w) == range(w, 9, 7) + 8
c_funct3(w) == range(w, 15, 13)

c_imm_J(w) ==
  signedPieces(w, <<<<12, 12, 11>>, <<11, 11, 4>>, <<10, 10, 9>>, <<9, 9, 8>>,
                    <<8, 8, 10>>, <<7, 7, 6>>, <<6, 6, 7>>, <<5, 3, 1>>,
                    <<2, 2, 5>>>>, 12)

c_imm_L(w) == pieces(w, <<<<12, 10, 3>>, <<6, 6, 2>>, <<5, 5, 6>>>>)
c_imm_LWSP(w) == pieces(w, <<<<12, 12, 5>>, <<6, 4, 2>>, <<3, 2, 6>>>>)
c_imm_LDSP(w) == pieces(w, <<<<12, 12, 5>>, <<6, 5, 3>>, <<4, 2, 6>>>>)
c_imm_ADDI(w) == signedPieces(w, <<<<12, 12, 5>>, <<6, 2, 0>>>>, 6)

c_imm_ADDI4SPN(w) ==
  pieces(w, <<<<12, 11, 4>>, <<10, 7, 6>>, <<6, 6, 2>>, <<5, 5, 3>>>>)

c_imm_ADDI16SP(w) ==
  signedPieces(w, <<<<12, 12, 9>>, <<6, 6, 4>>, <<5, 5, 6>>, <<4, 4, 8>>,
                    <<3, 3, 7>>, <<2, 2, 5>>>>, 10)

c_imm_CSS(w) == pieces(w, <<<<12, 9, 2>>, <<8, 7, 6>>>>)
c_imm_CSDSP(w) == pieces(w, <<<<12, 10, 3>>, <<9, 7, 6>>>>)

c_imm_CB(w) ==
  signedPieces(w, <<<<12, 12, 8>>, <<11, 11, 4>>, <<10, 10, 3>>, <<6, 6, 7>>,
                    <<5, 5, 6>>, <<4, 4, 2>>, <<3, 3, 1>>, <<2, 2, 5>>>>, 9)

c_imm_CL(w) == pieces(w, <<<<12, 10, 3>>, <<6, 5, 6>>>>)

\* In units of the 4096 bytes it is shifted by.
c_imm_LUI(w) == signedPieces(w, <<<<12, 12, 5>>, <<6, 2, 0>>>>, 6)
==============================================================================
