------------------------------- MODULE CsrFile -------------------------------
(***************************************************************************)
(* CSR_File of the six-stage core: which CSR bits an access may read and   *)
(* write, trap entry with delegation, trap return, and the choice of the   *)
(* interrupt to take.  A register is the set of its one bits.  mcause and  *)
(* scause hold [interrupt, code]; registers that only store what software  *)
(* puts there (scratch, tval, counters, counter enables, PMP, fcsr) are    *)
(* left out, and so is vectored mode.                                     *)
(***************************************************************************)
EXTENDS Integers, Sequences, FiniteSetsExt

\* PrivMode.  2 is no mode, but a value the two MPP bits can hold.
U == 0
S == 1
M == 3

-----------------------------------------------------------------------------
(* mstatus *)

UIE == 0
SIE == 1
MIE == 3
UPIE == 4
SPIE == 5
MPIE == 7
SPP == 8
MPP == {11, 12}
FS == {13, 14}
XS == {15, 16}
MPRV == 17
SUM == 18
MXR == 19
TVM == 20
TW == 21
TSR == 22
UXL == {32, 33}
SXL == {34, 35}
SD == 63

WRITE_MASK == {SIE, MIE, SPIE, MPIE, SPP, MPRV, SUM, MXR, TVM, TW, TSR} \cup MPP \cup FS
SSTATUS_MASK == {UIE, SIE, UPIE, SPIE, SPP, SUM, MXR, SD} \cup FS \cup XS \cup UXL
MEDELEG_MASK == (0..9) \cup {12, 13, 15}
MIDELEG_MASK == {1, 5, 9}
MIE_MASK == {1, 3, 5, 7, 9, 11}
MIP_SW_MASK == {1, 5, 9}

\* Causes of the exceptions raised here.
ILLEGAL_INSTR == 2
ECALL_U == 8
ECALL_S == 9
ECALL_M == 11
LOAD_PAGE_FAULT == 13

-----------------------------------------------------------------------------
(* CSR addresses, the field that holds each, and the bits an access sees. *)

MSTATUS == 768
MEDELEG == 770
MIDELEG == 771
MIE_CSR == 772
MTVEC == 773
MEPC == 833
MIP == 836
SSTATUS == 256
SIE_CSR == 260
STVEC == 261
SEPC == 321
SIP == 324
SATP == 384

AllBits == 0..63

\* The registers at reset; UXL and SXL are 2.
ResetCsr ==
  [priv |-> M, mstatus |-> {33, 35}, medeleg |-> {}, mideleg |-> {}, mie |-> {}, mip |-> {},
   mtvec |-> {}, mepc |-> {}, mcause |-> [interrupt |-> FALSE, code |-> 0],
   stvec |-> {}, sepc |-> {}, scause |-> [interrupt |-> FALSE, code |-> 0], satp |-> {}]

Field(a) ==
  CASE a \in {MSTATUS, SSTATUS} -> "mstatus"
    [] a = MEDELEG -> "medeleg"
    [] a = MIDELEG -> "mideleg"
    [] a \in {MIE_CSR, SIE_CSR} -> "mie"
    [] a \in {MIP, SIP} -> "mip"
    [] a = MTVEC -> "mtvec"
    [] a = MEPC -> "mepc"
    [] a = STVEC -> "stvec"
    [] a = SEPC -> "sepc"
    [] a = SATP -> "satp"

Addresses == {MSTATUS, MEDELEG, MIDELEG, MIE_CSR, MTVEC, MEPC, MIP, SSTATUS, SIE_CSR,
              STVEC, SEPC, SIP, SATP}

req_priv_any(a) == U

\* Bits 9..8 of an address are the mode it needs.
req_priv(a) == (a \div 256) % 4

readable(c, a) ==
  CASE a = SSTATUS -> SSTATUS_MASK
    [] a \in {SIE_CSR, SIP} -> c.mideleg
    [] OTHER -> AllBits

\* The bits a write replaces; the others keep their value.
writable(c, a) ==
  CASE a = MSTATUS -> WRITE_MASK
    [] a = SSTATUS -> SSTATUS_MASK
    [] a = MEDELEG -> MEDELEG_MASK
    [] a = MIDELEG -> MIDELEG_MASK
    [] a = MIE_CSR -> MIE_MASK
    [] a = SIE_CSR -> c.mideleg
    [] a = MIP -> MIP_SW_MASK
    [] a = SIP -> c.mideleg \cap MIP_SW_MASK
    [] a \in {MTVEC, STVEC} -> AllBits \ {1}
    [] a \in {MEPC, SEPC} -> AllBits \ {0}
    [] OTHER -> AllBits

read(c, a) == c[Field(a)] \cap readable(c, a)

\* Only Bare and Sv39 are accepted as the mode in satp.
satp_accepted(a, v) == a = SATP => v \cap (60..63) \in {{}, {63}}

write_unmasked(c, a, v) ==
  IF c.priv < req_priv(a) \/ ~satp_accepted(a, v) THEN c
  ELSE [c EXCEPT ![Field(a)] = v]

write(c, a, v) ==
  IF c.priv < req_priv(a) \/ ~satp_accepted(a, v) THEN c
  ELSE [c EXCEPT ![Field(a)] = (@ \ writable(c, a)) \cup (v \cap writable(c, a))]

Causes == [interrupt : BOOLEAN, code : 0..15]

CsrFiles ==
  [priv : 0..3, mstatus : SUBSET AllBits, medeleg : SUBSET AllBits,
   mideleg : SUBSET AllBits, mie : SUBSET AllBits, mip : SUBSET AllBits,
   mtvec : SUBSET AllBits, mepc : SUBSET AllBits, mcause : Causes,
   stvec : SUBSET AllBits, sepc : SUBSET AllBits, scause : Causes,
   satp : SUBSET AllBits]

\* The bits that stay 0, and the SXL field, which keeps its reset value.
Masked(c) ==
  /\ c.medeleg \subseteq MEDELEG_MASK /\ c.mideleg \subseteq MIDELEG_MASK
  /\ c.mie \subseteq MIE_MASK /\ c.mip \subseteq MIP_SW_MASK \cup {3, 7}
  /\ c.mstatus \subseteq WRITE_MASK \cup SSTATUS_MASK \cup SXL
  /\ c.mstatus \cap SXL = ResetCsr.mstatus \cap SXL
  /\ c.satp \cap (60..63) \in {{}, {63}}
  /\ 1 \notin c.mtvec \cup c.stvec /\ 0 \notin c.mepc \cup c.sepc

\* What machine mode keeps to itself.
MachineState(c) ==
  [medeleg |-> c.medeleg, mideleg |-> c.mideleg, mie |-> c.mie \ c.mideleg,
   mtvec |-> c.mtvec, mepc |-> c.mepc, mcause |-> c.mcause,
   mstatus |-> c.mstatus \cap ({MIE, MPIE, MPRV, TVM, TW, TSR} \cup MPP)]

-----------------------------------------------------------------------------
(* Trap entry *)

trap_vector(tvec) == tvec \ {0, 1}

\* The status bits with bit to set as bit from is, and from cleared.
Stacked(status, from, to) ==
  ((status \ {from, to}) \cup (IF from \in status THEN {to} ELSE {}))

PrivBits(p) == (IF p % 2 = 1 THEN {11} ELSE {}) \cup (IF p >= 2 THEN {12} ELSE {})

trap_to_S(c, cause, epc) ==
  [c EXCEPT !.scause = cause, !.sepc = epc, !.priv = S,
            !.mstatus = (Stacked(@, SIE, SPIE) \ {SPP})
                          \cup (IF c.priv = S THEN {SPP} ELSE {})]

trap_to_M(c, cause, epc) ==
  [c EXCEPT !.mcause = cause, !.mepc = epc, !.priv = M,
            !.mstatus = (Stacked(@, MIE, MPIE) \ MPP) \cup PrivBits(c.priv)]

delegated(c, deleg, code) == code \in deleg /\ c.priv # M

\* The hart after the trap; the caller goes to TrapTarget.
take_exception(c, code, epc) ==
  LET cause == [interrupt |-> FALSE, code |-> code] IN
  IF delegated(c, c.medeleg, code) THEN trap_to_S(c, cause, epc)
                                   ELSE trap_to_M(c, cause, epc)

take_interrupt(c, code, epc) ==
  LET cause == [interrupt |-> TRUE, code |-> code] IN
  IF delegated(c, c.mideleg, code) THEN trap_to_S(c, cause, epc)
                                   ELSE trap_to_M(c, cause, epc)

\* Where a hart that has just trapped continues.
TrapTarget(c) == IF c.priv = S THEN trap_vector(c.stvec) ELSE trap_vector(c.mtvec)

-----------------------------------------------------------------------------
(* Interrupt selection *)

m_enabled(c) == c.priv # M \/ MIE \in c.mstatus
s_enabled(c) == c.priv = U \/ (c.priv = S /\ SIE \in c.mstatus)

check_m(c, i) == m_enabled(c) /\ i \in (c.mip \cap c.mie) \ c.mideleg
check_s(c, i) == s_enabled(c) /\ i \in c.mip \cap c.mie \cap c.mideleg

\* The cause to take, the first in this order, or -1.  A supervisor interrupt
\* that is not delegated is never taken.
Order == <<11, 3, 7, 9, 1, 5>>

pending_interrupt(c) ==
  LET taken == {k \in 1..6 : IF k <= 3 THEN check_m(c, Order[k]) ELSE check_s(c, Order[k])}
  IN  IF taken = {} THEN -1 ELSE Order[Min(taken)]

-----------------------------------------------------------------------------
(* Trap return *)

\* The status bits with bit to set as bit from is, and from set.
Unstacked(status, from, to) ==
  ((status \ {to}) \cup (IF from \in status THEN {to} ELSE {})) \cup {from}

SavedMode(c) == (IF 11 \in c.mstatus THEN 1 ELSE 0) + (IF 12 \in c.mstatus THEN 2 ELSE 0)

mret(c) ==
  [c EXCEPT !.mstatus = Unstacked(@, MPIE, MIE) \ MPP, !.priv = SavedMode(c)]

sret_to_user(c) ==
  [c EXCEPT !.mstatus = Unstacked(@, SPIE, SIE) \ {SPP}, !.priv = U]

sret(c) ==
  [c EXCEPT !.mstatus = Unstacked(@, SPIE, SIE) \ {SPP},
            !.priv = IF SPP \in c.mstatus THEN S ELSE U]
==============================================================================
