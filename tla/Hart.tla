-------------------------------- MODULE Hart --------------------------------
(***************************************************************************)
(* The architectural state an instruction works on: a record with the      *)
(* register file x, the program counter pc, the byte-addressed memory mem, *)
(* the machine CSRs csr, the LR reservations res (<<address, size>>) and    *)
(* stop, TRUE once the code has called sc_stop.                            *)
(***************************************************************************)
EXTENDS Encoding

\* Registers.h: the CSRs the instructions and traps of this model touch.
CSR_MSTATUS == 768
CSR_MTVEC == 773
CSR_MSCRATCH == 832
CSR_MEPC == 833
CSR_MCAUSE == 834
CSR_MTVAL == 835
CSR_SEPC == 321
CSR_SEDELEG == 258
CSR_MHARTID == 3860

Csrs == {CSR_MSTATUS, CSR_MTVEC, CSR_MSCRATCH, CSR_MEPC, CSR_MCAUSE, CSR_MTVAL,
         CSR_SEPC, CSR_SEDELEG, CSR_MHARTID}

MSTATUS_MIE == 8
MSTATUS_MPIE == 128

\* Exception_cause.
ILLEGAL_INSTRUCTION == 2
BREAK == 3
CALL_FROM_M_MODE == 11

-----------------------------------------------------------------------------

setValue_any(h, r, v) == [h EXCEPT !.x[r] = Trunc(v, XLEN)]

\* x0 takes no value.
setValue(h, r, v) == IF r = 0 THEN h ELSE [h EXCEPT !.x[r] = Trunc(v, XLEN)]

getValue(h, r) == h.x[r]

setPC(h, a) == [h EXCEPT !.pc = Trunc(a, XLEN)]
incPC(h) == setPC(h, h.pc + 4)
incPCby2(h) == setPC(h, h.pc + 2)

\* The values of the CSR map are unsigned int, whatever the core's width.
setCSR(h, c, v) == [h EXCEPT !.csr[c] = Trunc(v, WORD)]

\* The n bytes at address a, little-endian.
readDataMem(h, a, n) ==
  MapThenSumSet(LAMBDA i : h.mem[a + i] * 2^(ByteBits * i), 0..(n - 1))

readDataMem64(h, a) == readDataMem(h, a, 8)

writeDataMem(h, a, v, n) ==
  [h EXCEPT !.mem =
    [b \in DOMAIN h.mem |->
       IF b \in a..(a + n - 1) THEN Srl(v, ByteBits * (b - a), XLEN) % 2^ByteBits
                               ELSE h.mem[b]]]

writeDataMem64(h, a, v) == writeDataMem(h, a, v, 8)

\* sc_stop: NOP, and the decoders' answer to a word they do not know.
NOP(h) == [h EXCEPT !.stop = TRUE]

\* RaiseException of the instruction word w: addresses pass through 32-bit
\* variables, the cause is or-ed into mstatus, and a breakpoint leaves mtval.
RaiseException(h, cause, w) ==
  [h EXCEPT !.csr[CSR_MEPC] = Trunc(h.pc, WORD),
            !.csr[CSR_MCAUSE] = cause,
            !.csr[CSR_MTVAL] = CASE cause = ILLEGAL_INSTRUCTION -> Trunc(w, WORD)
                                   [] cause = BREAK -> @
                                   [] OTHER -> 0,
            !.csr[CSR_MSTATUS] = @ | cause,
            !.pc = Trunc(h.csr[CSR_MTVEC], WORD),
            !.stop = @ \/ cause = BREAK]
==============================================================================
