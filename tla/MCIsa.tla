-------------------------------- MODULE MCIsa --------------------------------
(***************************************************************************)
(* The instructions the two cores are compared on, assembled with the      *)
(* formats of the RISC-V manual, and the operands they start from.         *)
(***************************************************************************)
EXTENDS Isa

\* The low len bits of n at position lo of a word; n may be negative.
bits(n, lo, len) == {lo + k : k \in {j \in 0..(len - 1) : (n \div 2^j) % 2 = 1}}

\* An immediate spread over a word: <<hi, lo, at>> puts its bits hi..lo at
\* position at.
spread(n, fields) ==
  UNION {bits(n \div 2^fields[i][2], fields[i][3], fields[i][1] - fields[i][2] + 1)
           : i \in DOMAIN fields}

\* The word with these one bits.
word(w) == SumSet({2^k : k \in w \ {31}}) - (IF 31 \in w THEN 2^30 ELSE 0)
             - (IF 31 \in w THEN 2^30 ELSE 0)

plain(w) == [w |-> word(w), imm |-> 0, has |-> FALSE]
carries(w, n) == [w |-> word(w), imm |-> n, has |-> TRUE]

-----------------------------------------------------------------------------
(* 32-bit formats *)

base(op, f3, rd, r1, r2) ==
  bits(op, 0, 7) \cup bits(rd, 7, 5) \cup bits(f3, 12, 3) \cup bits(r1, 15, 5)
    \cup bits(r2, 20, 5)

R(op, f3, f7, rd, r1, r2) == plain(base(op, f3, rd, r1, r2) \cup bits(f7, 25, 7))
I(op, f3, rd, r1, n) == carries(base(op, f3, rd, r1, 0) \cup bits(n, 20, 12), n)
S(f3, r1, r2, n) ==
  carries(base(35, f3, 0, r1, r2) \cup spread(n, <<<<11, 5, 25>>, <<4, 0, 7>>>>), n)
B(f3, r1, r2, n) ==
  carries(base(99, f3, 0, r1, r2)
            \cup spread(n, <<<<12, 12, 31>>, <<10, 5, 25>>, <<4, 1, 8>>, <<11, 11, 7>>>>),
          n)
U(op, rd, n) == plain(bits(op, 0, 7) \cup bits(rd, 7, 5) \cup bits(n, 12, 20))
J(rd, n) ==
  carries(bits(111, 0, 7) \cup bits(rd, 7, 5)
            \cup spread(n, <<<<20, 20, 31>>, <<10, 1, 21>>, <<11, 11, 20>>, <<19, 12, 12>>>>),
          n)

(* 16-bit formats; q is the quadrant, registers with a prime are x8..x15 *)

C(q, f3) == bits(q, 0, 2) \cup bits(f3, 13, 3)
CR(f4, rd, r2) ==
  plain(bits(2, 0, 2) \cup bits(r2, 2, 5) \cup bits(rd, 7, 5) \cup bits(f4, 12, 4))
CI(q, f3, rd, n, fields) == carries(C(q, f3) \cup bits(rd, 7, 5) \cup spread(n, fields), n)
CSS(f3, r2, n, fields) == carries(C(2, f3) \cup bits(r2, 2, 5) \cup spread(n, fields), n)
CIW(rd, n) ==
  carries(C(0, 0) \cup bits(rd - 8, 2, 3)
            \cup spread(n, <<<<5, 4, 11>>, <<9, 6, 7>>, <<2, 2, 6>>, <<3, 3, 5>>>>), n)
CL(f3, r1, rd, n, fields) ==
  carries(C(0, f3) \cup bits(rd - 8, 2, 3) \cup bits(r1 - 8, 7, 3) \cup spread(n, fields),
          n)
CA(f6, f2, rd, r2) ==
  plain(bits(1, 0, 2) \cup bits(r2 - 8, 2, 3) \cup bits(f2, 5, 2) \cup bits(rd - 8, 7, 3)
          \cup bits(f6, 10, 6))
CB(f3, r1, n) ==
  carries(C(1, f3) \cup bits(r1 - 8, 7, 3)
            \cup spread(n, <<<<8, 8, 12>>, <<4, 3, 10>>, <<7, 6, 5>>, <<2, 1, 3>>,
                             <<5, 5, 2>>>>), n)
\* C.SRLI, C.SRAI and C.ANDI.
CBI(f2, rd, n) ==
  C(1, 4) \cup bits(f2, 10, 2) \cup bits(rd - 8, 7, 3)
    \cup spread(n, <<<<5, 5, 12>>, <<4, 0, 2>>>>)
CJ(n) ==
  carries(C(1, 5) \cup spread(n, <<<<11, 11, 12>>, <<4, 4, 11>>, <<9, 8, 9>>,
                                   <<10, 10, 8>>, <<6, 6, 7>>, <<7, 7, 6>>, <<3, 1, 3>>,
                                   <<5, 5, 2>>>>), n)

SixBits == <<<<5, 5, 12>>, <<4, 0, 2>>>>
WordOffset == <<<<5, 3, 10>>, <<2, 2, 6>>, <<6, 6, 5>>>>
DoubleOffset == <<<<5, 3, 10>>, <<7, 6, 5>>>>
LwspOffset == <<<<5, 5, 12>>, <<4, 2, 4>>, <<7, 6, 2>>>>
LdspOffset == <<<<5, 5, 12>>, <<4, 3, 5>>, <<8, 6, 2>>>>
SwspOffset == <<<<5, 2, 9>>, <<7, 6, 7>>>>
SdspOffset == <<<<5, 3, 10>>, <<8, 6, 7>>>>
SpOffset == <<<<9, 9, 12>>, <<4, 4, 6>>, <<6, 6, 5>>, <<8, 7, 3>>, <<5, 5, 2>>>>

-----------------------------------------------------------------------------
(* compute: every register and immediate operation on edge operands *)

Alu ==
     {R(51, f3, 0, 3, 1, 2) : f3 \in 0..7} \cup {R(51, f3, 32, 3, 1, 2) : f3 \in {0, 5}}
\cup {R(59, f3, 0, 3, 1, 2) : f3 \in {0, 1, 5}}
\cup {R(59, f3, 32, 3, 1, 2) : f3 \in {0, 5}}
\cup {R(51, f3, 1, 3, 1, 2) : f3 \in 0..7}
\cup {R(59, f3, 1, 3, 1, 2) : f3 \in {0, 4, 5, 6, 7}}

AluImmediate ==
     {I(19, f3, 3, 1, n) : f3 \in {0, 2, 3, 4, 6, 7}, n \in {0, 5, -1, -128}}
\cup {I(19, f3, 3, 1, n) : f3 \in {1, 5}, n \in {0, 1, 3, 7}}
\cup {I(19, 5, 3, 1, 1024 + n) : n \in {0, 1, 3, 7}}
\cup {I(27, 0, 3, 1, n) : n \in {0, 5, -1}}
\cup {I(27, f3, 3, 1, n) : f3 \in {1, 5}, n \in {0, 1, 3}}
\cup {I(27, 5, 3, 1, 1024 + n) : n \in {0, 1, 3}}
\cup {U(op, 3, n) : op \in {55, 23}, n \in {0, 1, 2, 3}}

CompressedAlu ==
     {CA(35, f2, 8, 9) : f2 \in 0..3} \cup {CA(39, f2, 8, 9) : f2 \in 0..1}
\cup {plain(CBI(f2, 8, n)) : f2 \in 0..1, n \in {1, 3, 7}}
\cup {carries(CBI(2, 8, n), n) : n \in {0, 5, -1}}
\cup {CR(8, 3, 2), CR(9, 1, 2)}
\cup {CI(1, f3, 1, n, SixBits) : f3 \in 0..2, n \in {1, 15, -1, -32}}
\cup {[CI(2, 0, 1, n, SixBits) EXCEPT !.has = FALSE] : n \in {1, 3, 7}}
\cup {[CI(1, 3, 1, n, SixBits) EXCEPT !.has = FALSE] : n \in {1, 3, -1}}

Edges == {0, 1, 2, 7, 8, 15, 16, 127, 128, 248, 255}

-----------------------------------------------------------------------------
(* immediates: each bit of each format on its own, and jumps and branches *)

Ones(lo, hi) == {2^k : k \in lo..(hi - 1)} \cup {-2^hi}

Immediate ==
     {I(19, 0, 3, 1, n) : n \in Ones(0, 11)} \cup {I(103, 0, 3, 1, n) : n \in Ones(0, 11)}
\cup {S(2, 1, 2, n) : n \in Ones(0, 11)} \cup {I(3, 2, 3, 1, n) : n \in Ones(0, 11)}
\cup {B(f3, 1, 2, n) : f3 \in {0, 1, 4, 5, 6, 7}, n \in Ones(1, 12)}
\cup {J(rd, n) : rd \in {0, 3}, n \in Ones(1, 20)}
\cup {CIW(8, n) : n \in {2^k : k \in 2..9}}
\cup {CL(f3, 8, 9, n, WordOffset) : f3 \in {2, 6}, n \in {2^k : k \in 2..6}}
\cup {CL(f3, 8, 9, n, DoubleOffset) : f3 \in {3, 7}, n \in {2^k : k \in 3..7}}
\cup {CI(2, 2, 3, n, LwspOffset) : n \in {2^k : k \in 2..7}}
\cup {CI(2, 3, 3, n, LdspOffset) : n \in {2^k : k \in 3..8}}
\cup {CSS(6, 1, n, SwspOffset) : n \in {2^k : k \in 2..7}}
\cup {CSS(7, 1, n, SdspOffset) : n \in {2^k : k \in 3..8}}
\cup {CI(1, 3, 2, n, SpOffset) : n \in Ones(4, 9)}
\cup {CB(f3, 8, n) : f3 \in {6, 7}, n \in Ones(1, 8)}
\cup {CJ(n) : n \in Ones(1, 11)}
\cup {CR(8, 1, 0), CR(9, 2, 0)}

-----------------------------------------------------------------------------
(* memory, atomics, system *)

Memory ==
     {I(3, f3, 3, 1, n) : f3 \in 0..6, n \in {0, 1, 4}}
\cup {S(f3, 1, 2, n) : f3 \in 0..3, n \in {0, 3}}
\cup {CL(2, 8, 9, 4, WordOffset), CL(6, 8, 9, 4, WordOffset),
      CL(3, 8, 9, 8, DoubleOffset), CL(7, 8, 9, 8, DoubleOffset)}

Stack == {CI(2, 2, 3, 4, LwspOffset), CI(2, 3, 3, 8, LdspOffset),
          CSS(6, 1, 4, SwspOffset), CSS(7, 1, 8, SdspOffset), CI(1, 3, 2, 16, SpOffset),
          CI(1, 3, 2, -16, SpOffset)}

AMO(code, f3, rd, r1, r2) == R(47, f3, code * 4, rd, r1, r2)

AtomicOps == {AMO(code, f3, 3, 1, 2) : code \in DOMAIN A_Codes \ {2}, f3 \in {2, 3}}

\* x1 and x2 hold two addresses.
Reservation ==
     {AMO(2, f3, 3, r, 0) : f3 \in {2, 3}, r \in {1, 2}}
\cup {AMO(3, f3, 3, r, 1) : f3 \in {2, 3}, r \in {1, 2}}
\cup {AMO(2, 2, 3, 1, 2), AMO(1, 2, 3, 1, 2), S(2, 1, 2, 0), S(0, 1, 2, 3), S(1, 2, 1, 3)}

csrw(f3, rd, r1, c) == plain(base(115, f3, rd, r1, 0) \cup bits(c, 20, 12))

System ==
     {csrw(f3, rd, r1, c) : f3 \in {1, 2, 3}, rd \in {0, 3}, r1 \in {0, 1},
                            c \in {CSR_MSCRATCH, CSR_MEPC, CSR_MTVEC, CSR_MSTATUS,
                                   CSR_SEPC, CSR_SEDELEG, CSR_MHARTID}}
\cup {csrw(f3, 3, z, CSR_MSCRATCH) : f3 \in {5, 6, 7}, z \in {0, 10}}
\cup {csrw(0, 0, 0, c) : c \in {0, 1, 258, 261, 770}}
\cup {plain({}), plain(bits(1, 2, 3)), plain(bits(15, 0, 7)), CR(9, 0, 0)}

Suite(words, values, depth) == [words |-> words, values |-> values, depth |-> depth]

MCSuites ==
  [compute |-> Suite(Alu \cup AluImmediate \cup CompressedAlu, Edges \X Edges, 1),
   immediate |-> Suite(Immediate, {<<0, 0>>, <<3, 8>>, <<130, 5>>}, 1),
   memory |-> Suite(Memory, {0, 1, 4} \X {0, 202}, 2),
   stack |-> Suite(Stack, {0, 137, 255} \X {0, 4}, 2),
   amo |-> Suite(AtomicOps, {0, 4, 8} \X {0, 3, 8, 9, 115, 202, 255}, 2),
   reservation |-> Suite(Reservation, {<<0, 4>>, <<4, 4>>}, 4),
   system |-> Suite(System, {<<5, 0>>, <<10, 0>>, <<11, 0>>, <<170, 0>>}, 3)]
==============================================================================
