---------------------------- MODULE PlatformProofs ----------------------------
(***************************************************************************)
(* Theorems about Platform, for all programs and devices.  In order: the   *)
(* operations of the CSR file, the hart, the devices' types, nested traps, *)
(* the timer, the console and the DMA engine; each part has an inductive   *)
(* invariant of its own and rests on the earlier ones.                     *)
(***************************************************************************)
EXTENDS Platform, SequenceTheorems, TLAPS

-----------------------------------------------------------------------------
(* What each operation of the CSR file does to a file within its masks, for  *)
(* every value written and every cause.                                      *)

\* A CSR file within its masks.
Legal(c) == c \in CsrFiles /\ Masked(c)

\* Code addresses: bit 0 is always clear.
Pcs == SUBSET (AllBits \ {0})

\* d agrees with c on the delegation and the interrupt registers and on the
\* machine's and the supervisor's trap vectors.
SameFrame(c, d) ==
  /\ d.medeleg = c.medeleg /\ d.mideleg = c.mideleg /\ d.mie = c.mie /\ d.mip = c.mip
  /\ d.mtvec = c.mtvec /\ d.stvec = c.stvec /\ d.satp = c.satp

\* The bits of mstatus that belong to machine mode, and those it may hold.
MachineBits == {MIE, MPIE, MPRV, TVM, TW, TSR} \cup MPP
StatusBits == WRITE_MASK \cup SSTATUS_MASK \cup SXL

-----------------------------------------------------------------------------
(* mstatus *)

\* Where the bits that traps and returns move lie.
LEMMA StatusLayout ==
  /\ StatusBits \subseteq AllBits
  /\ {SIE, SPIE, SPP, MIE, MPIE} \cup MPP \subseteq StatusBits
  /\ ({SIE, SPIE, SPP, MIE, MPIE} \cup MPP) \cap SXL = {}
  /\ {SIE, SPIE, SPP} \cap MachineBits = {}
  /\ WRITE_MASK \cap SXL = {}
  /\ SSTATUS_MASK \cap (SXL \cup MachineBits) = {}
  BY DEF StatusBits, MachineBits, AllBits, WRITE_MASK, SSTATUS_MASK, UIE, SIE, MIE, UPIE,
         SPIE, MPIE, SPP, MPP, FS, XS, MPRV, SUM, MXR, TVM, TW, TSR, UXL, SXL, SD

\* A status in which only the supervisor's bits moved.
LEMMA SupervisorMoves ==
  ASSUME NEW s, s \subseteq StatusBits, NEW t,
         t \ {SIE, SPIE, SPP} = s \ {SIE, SPIE, SPP}
  PROVE  /\ t \in SUBSET AllBits /\ t \subseteq StatusBits /\ t \cap SXL = s \cap SXL
         /\ t \cap MachineBits = s \cap MachineBits
  BY StatusLayout

\* A status in which only the machine's bits moved.
LEMMA MachineMoves ==
  ASSUME NEW s, s \subseteq StatusBits, NEW t,
         t \ ({MIE, MPIE} \cup MPP) = s \ ({MIE, MPIE} \cup MPP)
  PROVE  t \in SUBSET AllBits /\ t \subseteq StatusBits /\ t \cap SXL = s \cap SXL
  BY StatusLayout

-----------------------------------------------------------------------------
(* Records *)

LEMMA LegalFields ==
  ASSUME NEW c, Legal(c)
  PROVE  /\ c \in CsrFiles /\ c.priv \in 0..3
         /\ c.mstatus \in SUBSET AllBits /\ c.mstatus \subseteq StatusBits
         /\ c.mideleg \subseteq MIDELEG_MASK
         /\ c.mtvec \in SUBSET AllBits /\ c.stvec \in SUBSET AllBits
         /\ c.mepc \in Pcs /\ c.sepc \in Pcs
<1>1. c \in CsrFiles /\ Masked(c)
  BY DEF Legal
<1>2. /\ c.priv \in 0..3 /\ c.mstatus \in SUBSET AllBits
      /\ c.mtvec \in SUBSET AllBits /\ c.stvec \in SUBSET AllBits
      /\ c.mepc \in SUBSET AllBits /\ c.sepc \in SUBSET AllBits
  BY <1>1 DEF CsrFiles
<1> QED
  BY <1>1, <1>2 DEF Masked, StatusBits, Pcs

LEMMA SameMachineState ==
  ASSUME NEW c, NEW d,
         d.medeleg = c.medeleg, d.mideleg = c.mideleg, d.mtvec = c.mtvec,
         d.mepc = c.mepc, d.mcause = c.mcause,
         d.mie \ d.mideleg = c.mie \ c.mideleg,
         d.mstatus \cap MachineBits = c.mstatus \cap MachineBits
  PROVE  MachineState(d) = MachineState(c)
  BY DEF MachineState, MachineBits

\* A file that differs from a legal one in mode, status and trap registers.
LEMMA LegalAgain ==
  ASSUME NEW c, Legal(c), NEW d \in CsrFiles, SameFrame(c, d),
         d.mstatus \subseteq StatusBits, d.mstatus \cap SXL = c.mstatus \cap SXL,
         d.mepc \in Pcs, d.sepc \in Pcs
  PROVE  Legal(d)
  BY DEF Legal, Masked, SameFrame, StatusBits, Pcs

-----------------------------------------------------------------------------
(* Trap entry and return *)

\* A delegated trap leaves machine state alone.
LEMMA TrapToS ==
  ASSUME NEW c, Legal(c), NEW cause \in Causes, NEW epc \in Pcs
  PROVE  /\ Legal(trap_to_S(c, cause, epc))
         /\ trap_to_S(c, cause, epc).priv = S
         /\ MachineState(trap_to_S(c, cause, epc)) = MachineState(c)
<1> DEFINE st == (Stacked(c.mstatus, SIE, SPIE) \ {SPP})
                    \cup (IF c.priv = S THEN {SPP} ELSE {})
           p == S
           d == [c EXCEPT !.scause = cause, !.sepc = epc, !.priv = p, !.mstatus = st]
<1>1. st \ {SIE, SPIE, SPP} = c.mstatus \ {SIE, SPIE, SPP}
  BY DEF Stacked
<1>2. trap_to_S(c, cause, epc) = d
  BY DEF trap_to_S
<1>3. p \in 0..3 /\ p = S /\ epc \in SUBSET AllBits /\ c \in CsrFiles
  BY LegalFields DEF Pcs, S
<1> HIDE DEF st, p
<1>4. /\ st \in SUBSET AllBits /\ st \subseteq StatusBits /\ st \cap SXL = c.mstatus \cap SXL
      /\ st \cap MachineBits = c.mstatus \cap MachineBits
  BY <1>1, LegalFields, SupervisorMoves
<1>5. d \in CsrFiles
  BY <1>3, <1>4 DEF CsrFiles
<1>6. /\ d.priv = p /\ d.mstatus = st /\ d.sepc = epc
      /\ SameFrame(c, d) /\ d.mepc = c.mepc /\ d.mcause = c.mcause
  BY <1>3, <1>4 DEF CsrFiles, SameFrame
<1> HIDE DEF d
<1>7. Legal(d)
  BY <1>4, <1>5, <1>6, LegalFields, LegalAgain
<1>8. MachineState(d) = MachineState(c)
  BY <1>4, <1>6, SameMachineState DEF SameFrame
<1> QED
  BY <1>2, <1>3, <1>6, <1>7, <1>8

\* Any other trap enters machine mode.
LEMMA TrapToM ==
  ASSUME NEW c, Legal(c), NEW cause \in Causes, NEW epc \in Pcs
  PROVE  /\ Legal(trap_to_M(c, cause, epc))
         /\ trap_to_M(c, cause, epc).priv = M
<1> DEFINE st == (Stacked(c.mstatus, MIE, MPIE) \ MPP) \cup PrivBits(c.priv)
           p == M
           d == [c EXCEPT !.mcause = cause, !.mepc = epc, !.priv = p, !.mstatus = st]
<1>1. st \ ({MIE, MPIE} \cup MPP) = c.mstatus \ ({MIE, MPIE} \cup MPP)
  BY DEF Stacked, PrivBits, MPP
<1>2. trap_to_M(c, cause, epc) = d
  BY DEF trap_to_M
<1>3. p \in 0..3 /\ p = M /\ epc \in SUBSET AllBits /\ c \in CsrFiles
  BY LegalFields DEF Pcs, M
<1> HIDE DEF st, p
<1>4. st \in SUBSET AllBits /\ st \subseteq StatusBits /\ st \cap SXL = c.mstatus \cap SXL
  BY <1>1, LegalFields, MachineMoves
<1>5. d \in CsrFiles
  BY <1>3, <1>4 DEF CsrFiles
<1>6. /\ d.priv = p /\ d.mstatus = st /\ d.mepc = epc
      /\ SameFrame(c, d) /\ d.sepc = c.sepc
  BY <1>3, <1>4 DEF CsrFiles, SameFrame
<1> HIDE DEF d
<1>7. Legal(d)
  BY <1>4, <1>5, <1>6, LegalFields, LegalAgain
<1> QED
  BY <1>2, <1>3, <1>6, <1>7

\* mret may enter any mode the two bits of MPP hold.
LEMMA MretLegal ==
  ASSUME NEW c, Legal(c)
  PROVE  Legal(mret(c))
<1> DEFINE st == Unstacked(c.mstatus, MPIE, MIE) \ MPP
           p == SavedMode(c)
           d == [c EXCEPT !.mstatus = st, !.priv = p]
<1>1. st \ ({MIE, MPIE} \cup MPP) = c.mstatus \ ({MIE, MPIE} \cup MPP)
  BY DEF Unstacked
<1>2. mret(c) = d
  BY DEF mret
<1>3. p \in 0..3 /\ c \in CsrFiles
  BY LegalFields DEF SavedMode
<1> HIDE DEF st, p
<1>4. st \in SUBSET AllBits /\ st \subseteq StatusBits /\ st \cap SXL = c.mstatus \cap SXL
  BY <1>1, LegalFields, MachineMoves
<1>5. d \in CsrFiles
  BY <1>3, <1>4 DEF CsrFiles
<1>6. d.mstatus = st /\ SameFrame(c, d) /\ d.mepc = c.mepc /\ d.sepc = c.sepc
  BY <1>3, <1>4 DEF CsrFiles, SameFrame
<1> HIDE DEF d
<1> QED
  BY <1>2, <1>4, <1>5, <1>6, LegalFields, LegalAgain

LEMMA SretLegal ==
  ASSUME NEW c, Legal(c)
  PROVE  Legal(sret(c)) /\ MachineState(sret(c)) = MachineState(c)
<1> DEFINE st == Unstacked(c.mstatus, SPIE, SIE) \ {SPP}
           p == IF SPP \in c.mstatus THEN S ELSE U
           d == [c EXCEPT !.mstatus = st, !.priv = p]
<1>1. st \ {SIE, SPIE, SPP} = c.mstatus \ {SIE, SPIE, SPP}
  BY DEF Unstacked
<1>2. sret(c) = d
  BY DEF sret
<1>3. p \in 0..3 /\ c \in CsrFiles
  BY LegalFields DEF S, U
<1> HIDE DEF st, p
<1>4. /\ st \in SUBSET AllBits /\ st \subseteq StatusBits /\ st \cap SXL = c.mstatus \cap SXL
      /\ st \cap MachineBits = c.mstatus \cap MachineBits
  BY <1>1, LegalFields, SupervisorMoves
<1>5. d \in CsrFiles
  BY <1>3, <1>4 DEF CsrFiles
<1>6. /\ d.mstatus = st /\ SameFrame(c, d) /\ d.mepc = c.mepc /\ d.sepc = c.sepc
      /\ d.mcause = c.mcause
  BY <1>3, <1>4 DEF CsrFiles, SameFrame
<1> HIDE DEF d
<1>7. Legal(d)
  BY <1>4, <1>5, <1>6, LegalFields, LegalAgain
<1>8. MachineState(d) = MachineState(c)
  BY <1>4, <1>6, SameMachineState DEF SameFrame
<1> QED
  BY <1>2, <1>7, <1>8

\* A trap stays below machine mode only if it is delegated, and goes to a
\* handler's first instruction.
LEMMA TrapTargetPc ==
  ASSUME NEW c, Legal(c)
  PROVE  TrapTarget(c) \in Pcs
  BY LegalFields DEF TrapTarget, trap_vector, Pcs

LEMMA TakeException ==
  ASSUME NEW c, Legal(c), NEW code \in 0..15, NEW epc \in Pcs
  PROVE  /\ Legal(take_exception(c, code, epc))
         /\ take_exception(c, code, epc).priv < M =>
              MachineState(take_exception(c, code, epc)) = MachineState(c)
<1> DEFINE cause == [interrupt |-> FALSE, code |-> code]
<1>1. cause \in Causes
  BY DEF Causes
<1>2. \/ take_exception(c, code, epc) = trap_to_S(c, cause, epc)
      \/ take_exception(c, code, epc) = trap_to_M(c, cause, epc)
  BY DEF take_exception
<1> HIDE DEF cause
<1> QED
  BY <1>1, <1>2, TrapToS, TrapToM DEF M

LEMMA TakeInterrupt ==
  ASSUME NEW c, Legal(c), NEW code \in 0..15, NEW epc \in Pcs
  PROVE  /\ Legal(take_interrupt(c, code, epc))
         /\ take_interrupt(c, code, epc).priv < M =>
              MachineState(take_interrupt(c, code, epc)) = MachineState(c)
<1> DEFINE cause == [interrupt |-> TRUE, code |-> code]
<1>1. cause \in Causes
  BY DEF Causes
<1>2. \/ take_interrupt(c, code, epc) = trap_to_S(c, cause, epc)
      \/ take_interrupt(c, code, epc) = trap_to_M(c, cause, epc)
  BY DEF take_interrupt
<1> HIDE DEF cause
<1> QED
  BY <1>1, <1>2, TrapToS, TrapToM DEF M

\* The interrupt taken is one of the six, if any.
LEMMA PendingCause ==
  ASSUME NEW c
  PROVE  pending_interrupt(c) \in {-1, 1, 3, 5, 7, 9, 11}
<1> DEFINE taken == {k \in 1..6 : IF k <= 3 THEN check_m(c, Order[k]) ELSE check_s(c, Order[k])}
<1>1. pending_interrupt(c) = IF taken = {} THEN -1 ELSE Order[Min(taken)]
  BY DEF pending_interrupt
<1>2. taken \subseteq 1..6
  OBVIOUS
<1> HIDE DEF taken
<1>3. taken # {} => Min(taken) \in 1..6
  <2> SUFFICES ASSUME taken # {}
               PROVE  \E x \in taken : \A y \in taken : x <= y
    BY <1>2 DEF Min
  <2>1. CASE 1 \in taken
    BY <1>2, <2>1
  <2>2. CASE 2 \in taken /\ 1 \notin taken
    BY <1>2, <2>2
  <2>3. CASE 3 \in taken /\ 1 \notin taken /\ 2 \notin taken
    BY <1>2, <2>3
  <2>4. CASE 4 \in taken /\ 1 \notin taken /\ 2 \notin taken /\ 3 \notin taken
    BY <1>2, <2>4
  <2>5. CASE 5 \in taken /\ 1 \notin taken /\ 2 \notin taken /\ 3 \notin taken /\ 4 \notin taken
    BY <1>2, <2>5
  <2>6. CASE /\ 6 \in taken /\ 1 \notin taken /\ 2 \notin taken /\ 3 \notin taken
             /\ 4 \notin taken /\ 5 \notin taken
    BY <1>2, <2>6
  <2> QED
    <3>1. PICK k \in taken : TRUE
      OBVIOUS
    <3>2. k = 1 \/ k = 2 \/ k = 3 \/ k = 4 \/ k = 5 \/ k = 6
      BY <1>2
    <3> QED
      BY <3>2, <2>1, <2>2, <2>3, <2>4, <2>5, <2>6
<1>4. \A k \in 1..6 : Order[k] \in {1, 3, 5, 7, 9, 11}
  BY DEF Order
<1> QED
  BY <1>1, <1>3, <1>4

-----------------------------------------------------------------------------
(* Writes *)

Written == {"mstatus", "medeleg", "mideleg", "mie", "mip", "mtvec", "mepc", "stvec",
            "sepc", "satp"}

\* The registers and the bits behind the addresses.
LEMMA WriteTargets ==
  ASSUME NEW c, NEW a \in Addresses
  PROVE  /\ Field(a) \in Written
         /\ a = MSTATUS => Field(a) = "mstatus" /\ writable(c, a) = WRITE_MASK
         /\ a = SSTATUS => Field(a) = "mstatus" /\ writable(c, a) = SSTATUS_MASK
         /\ a = MEDELEG => Field(a) = "medeleg" /\ writable(c, a) = MEDELEG_MASK
         /\ a = MIDELEG => Field(a) = "mideleg" /\ writable(c, a) = MIDELEG_MASK
         /\ a = MIE_CSR => Field(a) = "mie" /\ writable(c, a) = MIE_MASK
         /\ a = SIE_CSR => Field(a) = "mie" /\ writable(c, a) = c.mideleg
         /\ a = MIP => Field(a) = "mip" /\ writable(c, a) = MIP_SW_MASK
         /\ a = SIP => Field(a) = "mip" /\ writable(c, a) = c.mideleg \cap MIP_SW_MASK
         /\ a = MTVEC => Field(a) = "mtvec" /\ writable(c, a) = AllBits \ {1}
         /\ a = STVEC => Field(a) = "stvec" /\ writable(c, a) = AllBits \ {1}
         /\ a = MEPC => Field(a) = "mepc" /\ writable(c, a) = AllBits \ {0}
         /\ a = SEPC => Field(a) = "sepc" /\ writable(c, a) = AllBits \ {0}
         /\ a = SATP => Field(a) = "satp" /\ writable(c, a) = AllBits
         /\ a \notin {SSTATUS, SIE_CSR, STVEC, SEPC, SIP, SATP} => req_priv(a) = M
  BY DEF Addresses, Field, writable, req_priv, Written, M, MSTATUS, MEDELEG, MIDELEG,
         MIE_CSR, MTVEC, MEPC, MIP, SSTATUS, SIE_CSR, STVEC, SEPC, SIP, SATP

\* A write keeps every register within its mask, and one below machine mode
\* leaves machine state alone: the supervisor's views show only its own bits.
LEMMA WriteLegal ==
  ASSUME NEW c, Legal(c), NEW a \in Addresses, NEW v \in SUBSET AllBits
  PROVE  /\ Legal(write(c, a, v))
         /\ write(c, a, v).priv = c.priv
         /\ c.priv < M => MachineState(write(c, a, v)) = MachineState(c)
<1> DEFINE f == Field(a)
           w == writable(c, a)
           new == (c[f] \ w) \cup (v \cap w)
           d == [c EXCEPT ![f] = new]
<1>1. CASE c.priv < req_priv(a) \/ ~satp_accepted(a, v)
  BY <1>1 DEF write
<1>2. CASE ~(c.priv < req_priv(a)) /\ satp_accepted(a, v)
  <2>1. write(c, a, v) = d
    BY <1>2 DEF write
  <2>2. c \in CsrFiles /\ Masked(c) /\ c.priv \in 0..3
    BY LegalFields DEF Legal
  <2>3. f \in Written
    BY WriteTargets
  <2>4. new \in SUBSET AllBits
    BY <2>2, <2>3 DEF CsrFiles, Written
  <2>5. d \in CsrFiles /\ d.priv = c.priv /\ d.mcause = c.mcause
    <3> HIDE DEF f, new
    <3>1. d \in CsrFiles
      BY <2>2, <2>3, <2>4 DEF CsrFiles, Written
    <3>2. d.priv = c.priv /\ d.mcause = c.mcause
      BY <2>2, <2>3, <2>4 DEF CsrFiles, Written
    <3> QED
      BY <3>1, <3>2
  <2>6. d[f] = new /\ \A g \in Written \ {f} : d[g] = c[g]
    <3> HIDE DEF f, new
    <3> QED
      BY <2>2, <2>3, <2>4 DEF CsrFiles, Written
  <2> HIDE DEF d
  <2>7. /\ d.mstatus = IF f = "mstatus" THEN (c.mstatus \ w) \cup (v \cap w) ELSE c.mstatus
        /\ d.medeleg = IF f = "medeleg" THEN (c.medeleg \ w) \cup (v \cap w) ELSE c.medeleg
        /\ d.mideleg = IF f = "mideleg" THEN (c.mideleg \ w) \cup (v \cap w) ELSE c.mideleg
        /\ d.mie = IF f = "mie" THEN (c.mie \ w) \cup (v \cap w) ELSE c.mie
        /\ d.mip = IF f = "mip" THEN (c.mip \ w) \cup (v \cap w) ELSE c.mip
        /\ d.mtvec = IF f = "mtvec" THEN (c.mtvec \ w) \cup (v \cap w) ELSE c.mtvec
        /\ d.mepc = IF f = "mepc" THEN (c.mepc \ w) \cup (v \cap w) ELSE c.mepc
        /\ d.stvec = IF f = "stvec" THEN (c.stvec \ w) \cup (v \cap w) ELSE c.stvec
        /\ d.sepc = IF f = "sepc" THEN (c.sepc \ w) \cup (v \cap w) ELSE c.sepc
        /\ d.satp = IF f = "satp" THEN (c.satp \ w) \cup (v \cap w) ELSE c.satp
    BY <2>3, <2>6 DEF Written
  <2>8. /\ f = "medeleg" => w = MEDELEG_MASK
        /\ f = "mideleg" => w = MIDELEG_MASK
        /\ f = "mie" => (w = MIE_MASK /\ req_priv(a) = M) \/ w = c.mideleg
        /\ f = "mip" => w = MIP_SW_MASK \/ w = c.mideleg \cap MIP_SW_MASK
        /\ f \in {"mtvec", "stvec"} => w = AllBits \ {1}
        /\ f \in {"mepc", "sepc"} => w = AllBits \ {0}
        /\ f = "mstatus" => (w = WRITE_MASK /\ req_priv(a) = M) \/ w = SSTATUS_MASK
        /\ f = "satp" => w = AllBits /\ a = SATP
        /\ f \in {"medeleg", "mideleg", "mtvec", "mepc"} => req_priv(a) = M
    BY WriteTargets DEF Addresses, MSTATUS, MEDELEG, MIDELEG, MIE_CSR, MTVEC, MEPC, MIP,
         SSTATUS, SIE_CSR, STVEC, SEPC, SIP, SATP
  <2> HIDE DEF f, w, new
  <2>9. Masked(d)
    <3>1. /\ d.medeleg \subseteq MEDELEG_MASK /\ d.mideleg \subseteq MIDELEG_MASK
          /\ d.mip \subseteq MIP_SW_MASK \cup {3, 7}
      BY <2>2, <2>7, <2>8 DEF Masked
    <3>2. d.mie \subseteq MIE_MASK
      BY <2>2, <2>7, <2>8 DEF Masked, MIE_MASK, MIDELEG_MASK
    <3>3. d.mstatus \subseteq StatusBits /\ d.mstatus \cap SXL = c.mstatus \cap SXL
      <4>1. c.mstatus \subseteq StatusBits
        BY LegalFields
      <4> QED
        BY <2>7, <2>8, <4>1, StatusLayout DEF StatusBits
    <3>4. d.satp \cap (60..63) \in {{}, {63}}
      <4>1. CASE f = "satp"
        <5>1. v \cap (60..63) \in {{}, {63}} /\ d.satp = v
          BY <1>2, <2>2, <2>7, <2>8, <4>1 DEF satp_accepted, CsrFiles
        <5> QED
          BY <5>1
      <4>2. CASE f # "satp"
        BY <2>2, <2>7, <4>2 DEF Masked
      <4> QED
        BY <4>1, <4>2
    <3>5. 1 \notin d.mtvec \cup d.stvec /\ 0 \notin d.mepc \cup d.sepc
      BY <2>2, <2>7, <2>8 DEF Masked
    <3> QED
      BY <2>2, <3>1, <3>2, <3>3, <3>4, <3>5 DEF Masked, StatusBits
  <2>10. ASSUME c.priv < M
         PROVE  MachineState(d) = MachineState(c)
    <3>1. req_priv(a) # M
      BY <1>2, <2>2, <2>10
    <3>2. f \notin {"medeleg", "mideleg", "mtvec", "mepc"}
      BY <2>8, <3>1
    <3>3. d.mie \ d.mideleg = c.mie \ c.mideleg
      <4>1. CASE f = "mie"
        <5>1. w = c.mideleg
          BY <2>8, <3>1, <4>1
        <5>2. d.mie = (c.mie \ w) \cup (v \cap w) /\ d.mideleg = c.mideleg
          BY <2>7, <4>1
        <5> QED
          BY <5>1, <5>2
      <4>2. CASE f # "mie"
        BY <2>7, <3>2, <4>2
      <4> QED
        BY <4>1, <4>2
    <3>4. d.mstatus \cap MachineBits = c.mstatus \cap MachineBits
      <4>1. CASE f = "mstatus"
        <5>1. w = SSTATUS_MASK
          BY <2>8, <3>1, <4>1
        <5>2. d.mstatus = (c.mstatus \ w) \cup (v \cap w)
          BY <2>7, <4>1
        <5> QED
          BY <5>1, <5>2, StatusLayout
      <4>2. CASE f # "mstatus"
        BY <2>7, <4>2
      <4> QED
        BY <4>1, <4>2
    <3> QED
      BY <2>5, <2>7, <3>2, <3>3, <3>4, SameMachineState
  <2> QED
    BY <2>1, <2>5, <2>9, <2>10 DEF Legal
<1> QED
  BY <1>1, <1>2

-----------------------------------------------------------------------------
(* The hart. *)

\* The inductive invariant.  The masks alone are not inductive: a trap saves
\* pc in mepc or sepc, so bit 0 of pc has to be clear too.
HartInv ==
    /\ CsrTypes
    /\ pc \in Pcs
    /\ program \in DOMAIN Programs

\* A step of the hart.
HartStep ==
    /\ CsrTypes'
    /\ pc' \in Pcs
    /\ csr.priv < M /\ csr'.priv < M => MachineState(csr') = MachineState(csr)

\* The addresses of the programs.
LEMMA Labels ==
    {Boot, Idle, Claim, Identify, Receive, Transmit, Complete, SReturn, Rearm, RearmHigh,
     RearmLow, MReturn, Poll} \subseteq Pcs
  BY DEF Pcs, AllBits, Boot, Idle, Claim, Identify, Receive, Transmit, Complete, SReturn,
         Rearm, RearmHigh, RearmLow, MReturn, Poll

\* Sampling the interrupt lines changes mip alone.
LEMMA SyncLegal ==
    ASSUME CsrTypes
    PROVE  /\ Legal(SyncLines)
           /\ SyncLines.priv = csr.priv
           /\ MachineState(SyncLines) = MachineState(csr)
<1> DEFINE c == csr
           ip == (c.mip \ {3, 7, 9}) \cup Lines
           d == [c EXCEPT !.mip = ip]
<1>1. SyncLines = d
  BY DEF SyncLines
<1>2. c \in CsrFiles /\ Masked(c)
  BY DEF CsrTypes
<1>3. Lines \subseteq {3, 7, 9}
  BY DEF Lines
<1>4. ip \in SUBSET AllBits /\ ip \subseteq MIP_SW_MASK \cup {3, 7}
  <2>1. c.mip \in SUBSET AllBits /\ c.mip \subseteq MIP_SW_MASK \cup {3, 7}
    BY <1>2 DEF CsrFiles, Masked
  <2>2. {3, 7, 9} \subseteq AllBits /\ {3, 7, 9} \subseteq MIP_SW_MASK \cup {3, 7}
    BY DEF AllBits, MIP_SW_MASK
  <2> QED
    BY <1>3, <2>1, <2>2
<1> HIDE DEF c, ip
<1>5. d \in CsrFiles
  BY <1>2, <1>4 DEF CsrFiles
<1>6. /\ d.priv = c.priv /\ d.mstatus = c.mstatus /\ d.medeleg = c.medeleg
      /\ d.mideleg = c.mideleg /\ d.mie = c.mie /\ d.mip = ip /\ d.mtvec = c.mtvec
      /\ d.mepc = c.mepc /\ d.mcause = c.mcause /\ d.stvec = c.stvec
      /\ d.sepc = c.sepc /\ d.satp = c.satp
  BY <1>2, <1>4 DEF CsrFiles
<1> HIDE DEF d
<1>7. Masked(d)
  BY <1>2, <1>4, <1>6 DEF Masked
<1>8. MachineState(d) = MachineState(c)
  BY <1>6, SameMachineState
<1> QED
  BY <1>1, <1>5, <1>6, <1>7, <1>8 DEF Legal, c

-----------------------------------------------------------------------------
(* Kinds of steps *)

\* An instruction that leaves the CSRs alone.
LEMMA PlainStep ==
    ASSUME HartInv, csr' = SyncLines \/ csr' = csr, pc' \in Pcs
    PROVE  HartStep
  BY SyncLegal DEF HartInv, HartStep, CsrTypes, Legal

\* An exception.
LEMMA RaisesStep ==
    ASSUME HartInv, NEW code \in 0..15, Raises(code)
    PROVE  HartStep
<1>1. CsrTypes /\ pc \in Pcs
  BY DEF HartInv
<1>2. csr' = take_exception(SyncLines, code, pc) /\ pc' = TrapTarget(csr')
  BY DEF Raises
<1>3. /\ Legal(csr')
      /\ csr'.priv < M => MachineState(csr') = MachineState(SyncLines)
  BY <1>1, <1>2, SyncLegal, TakeException
<1> QED
  BY <1>1, <1>2, <1>3, SyncLegal, TrapTargetPc DEF HartStep, CsrTypes, Legal

LEMMA InterruptStep ==
    ASSUME HartInv, Interrupt
    PROVE  HartStep
<1> DEFINE code == pending_interrupt(SyncLines)
<1>1. CsrTypes /\ pc \in Pcs
  BY DEF HartInv
<1>2. csr' = take_interrupt(SyncLines, code, pc) /\ pc' = TrapTarget(csr')
  BY DEF Interrupt
<1>3. code \in 0..15
  BY PendingCause DEF Interrupt
<1> HIDE DEF code
<1>4. /\ Legal(csr')
      /\ csr'.priv < M => MachineState(csr') = MachineState(SyncLines)
  BY <1>1, <1>2, <1>3, SyncLegal, TakeInterrupt
<1> QED
  BY <1>1, <1>2, <1>4, SyncLegal, TrapTargetPc DEF HartStep, CsrTypes, Legal

LEMMA MretStep ==
    ASSUME HartInv, Mret
    PROVE  HartStep
<1>1. CsrTypes /\ Legal(csr)
  BY DEF HartInv, CsrTypes, Legal
<1>2. CASE csr.priv # M
  BY <1>2, RaisesStep DEF Mret, ILLEGAL_INSTR
<1>3. CASE csr.priv = M
  <2>1. csr' = mret(SyncLines) /\ pc' = csr.mepc
    BY <1>3 DEF Mret
  <2>2. Legal(csr') /\ pc' \in Pcs
    BY <1>1, <2>1, SyncLegal, MretLegal, LegalFields
  <2> QED
    BY <1>3, <2>2 DEF HartStep, CsrTypes, Legal, M
<1> QED
  BY <1>2, <1>3

LEMMA SretStep ==
    ASSUME HartInv, Sret
    PROVE  HartStep
<1>1. CsrTypes /\ Legal(csr)
  BY DEF HartInv, CsrTypes, Legal
<1>2. CASE csr.priv = U \/ (csr.priv = S /\ TSR \in csr.mstatus)
  BY <1>2, RaisesStep DEF Sret, ILLEGAL_INSTR
<1>3. CASE ~(csr.priv = U \/ (csr.priv = S /\ TSR \in csr.mstatus))
  <2>1. csr' = sret(SyncLines) /\ pc' = csr.sepc
    BY <1>3 DEF Sret
  <2>2. Legal(csr') /\ pc' \in Pcs /\ MachineState(csr') = MachineState(csr)
    BY <1>1, <2>1, SyncLegal, SretLegal, LegalFields
  <2> QED
    BY <2>2 DEF HartStep, CsrTypes, Legal
<1> QED
  BY <1>2, <1>3

\* A CSR instruction.
LEMMA GuestCsrStep ==
    ASSUME HartInv, NEW op \in {"CSRRW", "CSRRS", "CSRRC"}, NEW a \in Addresses,
           NEW v \in SUBSET AllBits, GuestCsr(op, a, v)
    PROVE  HartStep
<1> DEFINE new == csr_value(op, read(SyncLines, a), v)
<1>1. CsrTypes /\ pc \in Pcs
  BY DEF HartInv
<1>2. CASE csr.priv < req_priv(a)
  BY <1>2, RaisesStep DEF GuestCsr, ILLEGAL_INSTR
<1>3. CASE ~(csr.priv < req_priv(a))
  <2>1. csr' = write(SyncLines, a, new) /\ pc' = pc
    BY <1>3 DEF GuestCsr
  <2>2. read(SyncLines, a) \in SUBSET AllBits
    <3>1. SyncLines \in CsrFiles /\ Field(a) \in Written
      BY <1>1, SyncLegal, WriteTargets DEF Legal
    <3> HIDE DEF SyncLines
    <3>2. SyncLines[Field(a)] \in SUBSET AllBits
      BY <3>1 DEF CsrFiles, Written
    <3> QED
      BY <3>2 DEF read
  <2>3. new \in SUBSET AllBits
    BY <2>2 DEF csr_value
  <2> HIDE DEF new
  <2>4. /\ Legal(csr') /\ csr'.priv = csr.priv
        /\ csr.priv < M => MachineState(csr') = MachineState(csr)
    BY <1>1, <2>1, <2>3, SyncLegal, WriteLegal
  <2> QED
    BY <1>1, <2>1, <2>4 DEF HartStep, CsrTypes, Legal
<1> QED
  BY <1>2, <1>3

\* An instruction of a guest.
LEMMA GuestInstruction ==
    ASSUME HartInv, GuestStep
    PROVE  HartStep
<1>1. /\ \A v \in Software.values : v \in SUBSET AllBits
      /\ pc \in Pcs
  BY ProgramsAssumption DEF HartInv, Software
<1>2. ASSUME NEW op \in {"CSRRW", "CSRRS", "CSRRC"}, NEW a \in Addresses,
             NEW v \in Software.values, GuestCsr(op, a, v)
      PROVE  HartStep
  BY <1>1, <1>2, GuestCsrStep
<1>3. CASE GuestEcall
  <2>1. CASE csr.priv = M
    BY <1>1, <1>3, <2>1, PlainStep DEF GuestEcall
  <2>2. CASE csr.priv # M
    <3>1. \E code \in {ECALL_U, ECALL_S, ECALL_M} : Raises(code)
      BY <1>3, <2>2 DEF GuestEcall
    <3> QED
      BY <3>1, RaisesStep DEF ECALL_U, ECALL_S, ECALL_M
  <2> QED
    BY <2>1, <2>2
<1>4. CASE Raises(LOAD_PAGE_FAULT)
  BY <1>4, RaisesStep DEF LOAD_PAGE_FAULT
<1>5. CASE Mret
  BY <1>5, MretStep
<1>6. CASE Sret
  BY <1>6, SretStep
<1> QED
  BY <1>2, <1>3, <1>4, <1>5, <1>6 DEF GuestStep

-----------------------------------------------------------------------------
(* All steps *)

LEMMA InstructionStep ==
    ASSUME HartInv, Instruction
    PROVE  HartStep
<1>0. pc \in Pcs
  BY DEF HartInv
<1>1. CASE BootStep
  BY <1>1, Labels, PlainStep DEF BootStep, Post
<1>2. CASE WaitForInterrupt
  BY <1>0, <1>2, PlainStep DEF WaitForInterrupt
<1>3. CASE SupervisorLoads
  BY <1>0, <1>3, PlainStep DEF SupervisorLoads, LoadAt
<1>4. CASE SupervisorCommits
  BY <1>4, Labels, PlainStep DEF SupervisorCommits, CommitTo
<1>5. CASE SupervisorStores
  BY <1>5, Labels, PlainStep DEF SupervisorStores, Post
<1>6. CASE SupervisorReturn
  BY <1>6, SretStep DEF SupervisorReturn
<1>7. CASE MachineRearm
  BY <1>7, Labels, PlainStep DEF MachineRearm, Post
<1>8. CASE MachineReturn
  BY <1>8, MretStep DEF MachineReturn
<1>9. CASE PollControl
  BY <1>0, <1>9, Labels, PlainStep DEF PollControl, LoadAt, CommitTo
<1>10. CASE GuestStep
  BY <1>10, GuestInstruction
<1>11. CASE GuestWfi
  <2>1. CASE Raises(ILLEGAL_INSTR)
    BY <2>1, RaisesStep DEF ILLEGAL_INSTR
  <2>2. CASE csr' = SyncLines /\ UNCHANGED pc
    BY <1>0, <2>2, PlainStep
  <2> QED
    BY <1>11, <2>1, <2>2 DEF GuestWfi
<1>12. CASE GuestStore
  BY <1>0, <1>12, PlainStep DEF GuestStore, Post
<1> QED
  BY <1>1, <1>2, <1>3, <1>4, <1>5, <1>6, <1>7, <1>8, <1>9, <1>10, <1>11, <1>12
     DEF Instruction

\* Every step keeps the invariant and isolates machine state.
LEMMA HartInvStep ==
    ASSUME HartInv, [Next]_vars
    PROVE  HartInv' /\ HartStep
<1>0. pc \in Pcs /\ program \in DOMAIN Programs
  BY DEF HartInv
<1>1. program' = program
  BY DEF Next, vars, PlicOutput, ClintOutput, Tick, RxMonitor, Drain, StdinByte, WfiCheck,
         Cycle, FinishAccess, Interrupt, Asleep, Instruction, BootStep, Post,
         WaitForInterrupt, SupervisorLoads, LoadAt, SupervisorCommits, CommitTo,
         SupervisorStores, SupervisorReturn, MachineRearm, MachineReturn, PollControl,
         GuestStep, GuestWfi, GuestStore
<1> SUFFICES HartStep
  BY <1>0, <1>1 DEF HartStep, HartInv
<1>2. CASE Cycle
  <2>1. CASE Interrupt
    BY <2>1, InterruptStep
  <2>2. CASE Asleep
    BY <1>0, <2>2, PlainStep DEF Asleep
  <2>3. CASE Instruction
    BY <2>3, InstructionStep
  <2> QED
    BY <1>2, <2>1, <2>2, <2>3 DEF Cycle
<1>3. CASE \/ PlicOutput \/ ClintOutput \/ Tick \/ RxMonitor \/ Drain \/ StdinByte
           \/ WfiCheck \/ FinishAccess \/ UNCHANGED vars
  <2>1. csr' = csr /\ pc' = pc
    BY <1>3 DEF PlicOutput, ClintOutput, Tick, RxMonitor, Drain, StdinByte, WfiCheck,
                FinishAccess, vars, hartVars
  <2> QED
    BY <1>0, <2>1, PlainStep
<1> QED
  BY <1>2, <1>3 DEF Next

LEMMA HartInvInit == Init => HartInv
  BY ProgramsAssumption, Labels DEF Init, HartInv, CsrTypes, Software

\* Whatever software writes, whatever traps and whatever the devices do, every
\* CSR keeps within the mask CSR_File.h gives it.
THEOREM CsrsStayMasked == Spec => []CsrTypes
<1>1. HartInv /\ [Next]_vars => HartInv'
  BY HartInvStep
<1>2. HartInv => CsrTypes
  BY DEF HartInv
<1> QED
  BY HartInvInit, <1>1, <1>2, PTL DEF Spec

\* For every program, value written and delegation set up by the firmware, no
\* step that stays below machine mode changes machine state.
THEOREM MachineStateIsolated == Spec => MachineIsolated
<1>1. HartInv /\ [Next]_vars => HartInv'
  BY HartInvStep
<1>2. HartInv /\ [Next]_vars =>
        [csr.priv < M /\ csr'.priv < M => MachineState(csr') = MachineState(csr)]_vars
  BY HartInvStep DEF HartStep
<1> QED
  BY HartInvInit, <1>1, <1>2, PTL DEF Spec, MachineIsolated

-----------------------------------------------------------------------------
(* The devices *)

PlicStates ==
    [priority : [Sources -> 0..7], pending : SUBSET Sources, enabled : SUBSET Sources,
     level : SUBSET Sources, threshold : 0..7, state : BOOLEAN, event : BOOLEAN,
     out : BOOLEAN]

UartStates ==
    [ier : SUBSET {RDA, THRI}, thre_ip : BOOLEAN, dlab : BOOLEAN, scr : Nat,
     fifo : Seq(Nat), sent : Nat]

ClintStates ==
    [mtime : Times, mtimecmp : Times, msip : BOOLEAN, timer_irq : BOOLEAN, event : BOOLEAN]

\* The output follows what is pending; the sources do not change.
LEMMA UpdateIrqOut ==
    ASSUME NEW p \in PlicStates
    PROVE  update_irq_out(p) \in PlicStates /\ update_irq_out(p).level = p.level
<1> DEFINE x == Deliverable(p) # {}
           e == p.event \/ x # p.state
<1>1. x \in BOOLEAN /\ e \in BOOLEAN
  BY DEF PlicStates
<1>2. update_irq_out(p) = [p EXCEPT !.state = x, !.event = e]
  BY DEF update_irq_out
<1> HIDE DEF x, e
<1> QED
  BY <1>1, <1>2 DEF PlicStates

LEMMA SetIrqLevel ==
    ASSUME NEW p \in PlicStates, NEW active \in BOOLEAN
    PROVE  /\ set_irq_level(p, UART_SOURCE, active) \in PlicStates
           /\ UART_SOURCE \in set_irq_level(p, UART_SOURCE, active).level <=> active
<1> DEFINE L == IF active THEN p.level \cup {UART_SOURCE} ELSE p.level \ {UART_SOURCE}
           P == IF active THEN p.pending \cup {UART_SOURCE} ELSE p.pending \ {UART_SOURCE}
           q == [p EXCEPT !.level = L, !.pending = P]
<1>1. L \in SUBSET Sources /\ P \in SUBSET Sources /\ (UART_SOURCE \in L <=> active)
  BY WiringAssumption DEF PlicStates
<1>2. set_irq_level(p, UART_SOURCE, active) = update_irq_out(q)
  BY DEF set_irq_level
<1> HIDE DEF L, P
<1>3. q \in PlicStates /\ q.level = L
  BY <1>1 DEF PlicStates
<1> QED
  BY <1>1, <1>2, <1>3, UpdateIrqOut

LEMMA PlicRegisters ==
    ASSUME NEW p \in PlicStates, NEW n \in Nat, NEW ids \in SUBSET Sources
    PROVE  \A q \in {write_priority(p, UART_SOURCE, n), write_enable(p, ids),
                     write_threshold(p, n), claim(p), complete(p, n),
                     update_output_process(p)} :
               q \in PlicStates /\ q.level = p.level
<1>1. write_priority(p, UART_SOURCE, n) \in PlicStates
      /\ write_priority(p, UART_SOURCE, n).level = p.level
  <2> DEFINE v == n % 8
             f == [p.priority EXCEPT ![UART_SOURCE] = v]
  <2>1. v \in 0..7
    OBVIOUS
  <2> HIDE DEF v
  <2>2. f \in [Sources -> 0..7]
    BY <2>1 DEF PlicStates
  <2>3. write_priority(p, UART_SOURCE, n) = [p EXCEPT !.priority = f]
    BY DEF write_priority, v
  <2> HIDE DEF f
  <2> QED
    BY <2>2, <2>3 DEF PlicStates
<1>2. write_enable(p, ids) \in PlicStates /\ write_enable(p, ids).level = p.level
  BY DEF write_enable, PlicStates
<1>3. write_threshold(p, n) \in PlicStates /\ write_threshold(p, n).level = p.level
  BY DEF write_threshold, PlicStates
<1>4. claim(p) \in PlicStates /\ claim(p).level = p.level
  <2> DEFINE P == p.pending \ {Claimed(p)}
             q == [p EXCEPT !.pending = P]
  <2>1. P \in SUBSET Sources
    BY DEF PlicStates
  <2>2. claim(p) = update_irq_out(q)
    BY DEF claim
  <2> HIDE DEF P
  <2>3. q \in PlicStates /\ q.level = p.level
    BY <2>1 DEF PlicStates
  <2> QED
    BY <2>2, <2>3, UpdateIrqOut
<1>5. complete(p, n) \in PlicStates /\ complete(p, n).level = p.level
  <2> DEFINE P == (p.pending \ {n}) \cup ({n} \cap p.level)
             q == [p EXCEPT !.pending = P]
  <2>1. P \in SUBSET Sources
    BY DEF PlicStates
  <2>2. complete(p, n) = update_irq_out(q)
    BY DEF complete
  <2> HIDE DEF P
  <2>3. q \in PlicStates /\ q.level = p.level
    BY <2>1 DEF PlicStates
  <2> QED
    BY <2>2, <2>3, UpdateIrqOut
<1>6. update_output_process(p) \in PlicStates /\ update_output_process(p).level = p.level
  BY DEF update_output_process, PlicStates
<1> QED
  BY <1>1, <1>2, <1>3, <1>4, <1>5, <1>6

\* The UART's level in the PLIC is current, but for a byte that has just come.
Fresh(u, p) ==
    /\ UART_SOURCE \in p.level => irq_level(u)
    /\ THRI \in u.ier /\ u.thre_ip => UART_SOURCE \in p.level

LEMMA UpdateInterrupts ==
    ASSUME NEW u \in UartStates, NEW p \in PlicStates
    PROVE  update_interrupts(u, p) \in PlicStates /\ Fresh(u, update_interrupts(u, p))
<1>1. irq_level(u) \in BOOLEAN
  BY DEF irq_level, UartStates
<1> QED
  BY <1>1, SetIrqLevel DEF update_interrupts, Fresh, irq_level

LEMMA UartRegisters ==
    ASSUME NEW u \in UartStates, NEW n \in Nat, NEW b \in BOOLEAN,
           NEW bits \in SUBSET {RDA, THRI}
    PROVE  /\ \A v \in {write_THR(u), write_IER(u, bits), write_LCR(u, b), write_SCR(u, n),
                        read_IIR(u)} : v \in UartStates /\ v.fifo = u.fifo
           /\ \A v \in {write_LCR(u, b), write_SCR(u, n)} :
                 v.ier = u.ier /\ v.thre_ip = u.thre_ip
           /\ u.dlab => write_THR(u) = u /\ write_IER(u, bits) = u
<1>1. write_THR(u) \in UartStates /\ write_THR(u).fifo = u.fifo
  <2> DEFINE k == u.sent + 1
             w == [u EXCEPT !.sent = k, !.thre_ip = TRUE]
  <2>1. k \in Nat
    BY DEF UartStates
  <2>2. write_THR(u) = IF u.dlab THEN u ELSE w
    BY DEF write_THR
  <2> HIDE DEF k
  <2>3. w \in UartStates /\ w.fifo = u.fifo
    BY <2>1 DEF UartStates
  <2> QED
    BY <2>2, <2>3
<1>2. write_IER(u, bits) \in UartStates /\ write_IER(u, bits).fifo = u.fifo
  <2> DEFINE x == CASE THRI \in bits \ u.ier -> TRUE
                    [] THRI \notin bits -> FALSE
                    [] OTHER -> u.thre_ip
             w == [u EXCEPT !.ier = bits, !.thre_ip = x]
  <2>1. x \in BOOLEAN
    BY DEF UartStates
  <2>2. write_IER(u, bits) = IF u.dlab THEN u ELSE w
    BY DEF write_IER
  <2> HIDE DEF x
  <2>3. w \in UartStates /\ w.fifo = u.fifo
    BY <2>1 DEF UartStates
  <2> QED
    BY <2>2, <2>3
<1>3. /\ write_LCR(u, b) \in UartStates /\ write_LCR(u, b).fifo = u.fifo
      /\ write_LCR(u, b).ier = u.ier /\ write_LCR(u, b).thre_ip = u.thre_ip
  BY DEF write_LCR, UartStates
<1>4. /\ write_SCR(u, n) \in UartStates /\ write_SCR(u, n).fifo = u.fifo
      /\ write_SCR(u, n).ier = u.ier /\ write_SCR(u, n).thre_ip = u.thre_ip
  BY DEF write_SCR, UartStates
<1>5. read_IIR(u) \in UartStates /\ read_IIR(u).fifo = u.fifo
  BY DEF read_IIR, UartStates
<1>6. u.dlab => write_THR(u) = u /\ write_IER(u, bits) = u
  BY DEF write_THR, write_IER
<1> QED
  BY <1>1, <1>2, <1>3, <1>4, <1>5, <1>6

\* The two ends of the FIFO.
LEMMA UartFifo ==
    ASSUME NEW u \in UartStates, Len(u.fifo) <= FifoDepth, NEW ch \in Nat
    PROVE  /\ LET v == stdin_push(u, ch)
              IN  /\ v \in UartStates /\ Len(v.fifo) <= FifoDepth
                  /\ v.ier = u.ier /\ v.thre_ip = u.thre_ip
                  /\ v.fifo = IF Accepts(u) THEN Append(u.fifo, ch) ELSE u.fifo
           /\ u.fifo # <<>> =>
                 LET v == rx_pop(u)
                 IN  v \in UartStates /\ Len(v.fifo) <= FifoDepth /\ v.fifo = Tail(u.fifo)
<1>0. u.fifo \in Seq(Nat) /\ FifoDepth \in Nat
  BY FifoDepthAssumption DEF UartStates
<1>1. ASSUME u.fifo # <<>>
      PROVE  rx_pop(u) \in UartStates /\ Len(rx_pop(u).fifo) <= FifoDepth
             /\ rx_pop(u).fifo = Tail(u.fifo)
  <2> DEFINE q == Tail(u.fifo)
  <2>1. q \in Seq(Nat) /\ Len(q) <= FifoDepth
    <3>1. q \in Seq(Nat) /\ Len(q) = Len(u.fifo) - 1
      BY <1>0, <1>1, HeadTailProperties
    <3> QED
      BY <1>0, <3>1
  <2>2. rx_pop(u) = [u EXCEPT !.fifo = q]
    BY DEF rx_pop
  <2> HIDE DEF q
  <2>3. rx_pop(u).fifo = q /\ rx_pop(u) \in UartStates
    BY <2>1, <2>2 DEF UartStates
  <2> QED
    BY <2>1, <2>3 DEF q
<1>2. /\ stdin_push(u, ch) \in UartStates /\ Len(stdin_push(u, ch).fifo) <= FifoDepth
      /\ stdin_push(u, ch).ier = u.ier /\ stdin_push(u, ch).thre_ip = u.thre_ip
      /\ stdin_push(u, ch).fifo = IF Accepts(u) THEN Append(u.fifo, ch) ELSE u.fifo
  <2>1. CASE Accepts(u)
    <3> DEFINE q == Append(u.fifo, ch)
    <3>1. q \in Seq(Nat) /\ Len(q) = Len(u.fifo) + 1
      BY <1>0
    <3>2. stdin_push(u, ch) = [u EXCEPT !.fifo = q]
      BY <2>1 DEF stdin_push
    <3>3. Len(q) <= FifoDepth
      BY <1>0, <2>1, <3>1 DEF Accepts
    <3> HIDE DEF q
    <3>4. /\ stdin_push(u, ch) \in UartStates /\ stdin_push(u, ch).fifo = q
          /\ stdin_push(u, ch).ier = u.ier /\ stdin_push(u, ch).thre_ip = u.thre_ip
      BY <3>1, <3>2 DEF UartStates
    <3> QED
      BY <2>1, <3>3, <3>4 DEF q
  <2>2. CASE ~ Accepts(u)
    BY <2>2 DEF stdin_push
  <2> QED
    BY <2>1, <2>2
<1> QED
  BY <1>1, <1>2

-----------------------------------------------------------------------------
(* Times and their halves *)

LEMMA Halves ==
    ASSUME NEW x \in Times, NEW v \in 0..(Half - 1)
    PROVE  /\ x \div Half \in 0..(Half - 1) /\ x % Half \in 0..(Half - 1)
           /\ x = (x \div Half) * Half + (x % Half)
           /\ low(x, v) \in Times /\ high(x, v) \in Times
<1>0. Half \in Nat \ {0} /\ x \in 0..(Half * Half - 1)
  BY HalfAssumption DEF Times
<1>1. x \div Half \in 0..(Half - 1)
  BY <1>0
<1>2. x % Half \in 0..(Half - 1)
  BY <1>0
<1>3. x = (x \div Half) * Half + (x % Half)
  BY <1>0
<1>4. \A q, r \in 0..(Half - 1) : q * Half + r \in Times
  BY <1>0 DEF Times
<1>5. low(x, v) \in Times
  BY <1>1, <1>4 DEF low
<1>6. high(x, v) \in Times
  BY <1>2, <1>4 DEF high
<1> QED
  BY <1>1, <1>2, <1>3, <1>5, <1>6

LEMMA ClintRegisters ==
    ASSUME NEW k \in ClintStates, NEW t \in Times, NEW h \in 0..(Half - 1), NEW b \in BOOLEAN
    PROVE  \A j \in {write_mtimecmp(k, t), write_mtimecmp_low(k, h), write_mtimecmp_high(k, h),
                     write_mtime(k, t), write_mtime_low(k, h), write_mtime_high(k, h),
                     write_msip(k, b), tick(k), update_irq_method(k),
                     fast_forward_to_deadline(k)} : j \in ClintStates
<1>0. k.mtime \in Times /\ k.mtimecmp \in Times /\ Half \in Nat \ {0}
  BY HalfAssumption DEF ClintStates
<1>1. \A x \in Times : write_mtimecmp(k, x) \in ClintStates /\ write_mtime(k, x) \in ClintStates
  BY DEF write_mtimecmp, write_mtime, ClintStates
<1>2. /\ low(k.mtime, h) \in Times /\ high(k.mtime, h) \in Times
      /\ low(k.mtimecmp, h) \in Times /\ high(k.mtimecmp, h) \in Times
  BY <1>0, Halves
<1>3. /\ write_mtimecmp_low(k, h) \in ClintStates /\ write_mtimecmp_high(k, h) \in ClintStates
      /\ write_mtime_low(k, h) \in ClintStates /\ write_mtime_high(k, h) \in ClintStates
  BY <1>1, <1>2
     DEF write_mtimecmp_low, write_mtimecmp_high, write_mtime_low, write_mtime_high
<1>4. write_msip(k, b) \in ClintStates
  BY DEF write_msip, ClintStates
<1>5. tick(k) \in ClintStates
  <2> DEFINE x == (k.mtime + 1) % (Half * Half)
  <2>1. x \in Times
    <3>1. Half * Half \in Nat \ {0}
      BY <1>0
    <3> QED
      BY <1>0, <3>1 DEF Times
  <2>2. tick(k) = [k EXCEPT !.mtime = x, !.event = TRUE]
    BY DEF tick
  <2> HIDE DEF x
  <2> QED
    BY <2>1, <2>2 DEF ClintStates
<1>6. update_irq_method(k) \in ClintStates
  <2> DEFINE x == k.mtime >= k.mtimecmp
  <2>1. x \in BOOLEAN
    OBVIOUS
  <2>2. update_irq_method(k) = [k EXCEPT !.timer_irq = x, !.event = FALSE]
    BY DEF update_irq_method
  <2> HIDE DEF x
  <2> QED
    BY <2>1, <2>2 DEF ClintStates
<1>7. fast_forward_to_deadline(k) \in ClintStates
  <2> DEFINE x == k.mtimecmp - 1
             w == [k EXCEPT !.mtime = x, !.event = TRUE]
  <2>1. ASSUME (k.mtime + 1) % (Half * Half) < k.mtimecmp PROVE x \in Times
    <3>1. Half * Half \in Nat \ {0}
      BY <1>0
    <3> QED
      BY <1>0, <2>1, <3>1 DEF Times
  <2>2. fast_forward_to_deadline(k) =
          IF k.mtimecmp # Never /\ (k.mtime + 1) % (Half * Half) < k.mtimecmp THEN w ELSE k
    BY DEF fast_forward_to_deadline
  <2> HIDE DEF x
  <2>3. x \in Times => w \in ClintStates
    BY DEF ClintStates
  <2> QED
    BY <2>1, <2>2, <2>3
<1> QED
  BY <1>1, <1>3, <1>4, <1>5, <1>6, <1>7

-----------------------------------------------------------------------------
(* The platform's invariant *)

DevicesInv ==
    /\ plic \in PlicStates /\ uart \in UartStates /\ clint \in ClintStates
    /\ Len(uart.fifo) <= FifoDepth
    /\ Fresh(uart, plic)
    /\ access \in {"none", "rbr", "iir"}
    /\ access = "rbr" => uart.fifo # <<>>

BusInv ==
    /\ posted \in Seq(DeviceStores) /\ Len(posted) <= StoreDepth
    /\ todo \in Seq(DeviceStores)
    /\ deadline \in Times /\ typed \in Nat

PlatformInv == HartInv /\ DevicesInv /\ BusInv

\* What a store may carry.
LEMMA StoreKinds ==
    ASSUME NEW w \in DeviceStores
    PROVE  /\ w.dev \in {"plic", "uart", "clint", "dma", "mem"}
           /\ w.dev = "plic" =>
                 \/ w.reg \in {"priority", "threshold", "claim"} /\ w.val \in Nat
                 \/ w.reg = "enable" /\ w.val \in SUBSET Sources
           /\ w.dev = "uart" =>
                 \/ w.reg = "THR"
                 \/ w.reg = "SCR" /\ w.val \in Nat
                 \/ w.reg = "IER" /\ w.val \in SUBSET {RDA, THRI}
                 \/ w.reg = "LCR" /\ w.val \in BOOLEAN
           /\ w.dev = "clint" =>
                 \/ w.reg \in {"mtimecmp", "mtime"} /\ w.val \in Times
                 \/ w.reg \in {"mtimecmp_low", "mtimecmp_high", "mtime_low", "mtime_high"}
                       /\ w.val \in 0..(Half - 1)
                 \/ w.reg = "msip" /\ w.val \in BOOLEAN
  BY DEF DeviceStores

LEMMA WritePlic ==
    ASSUME DevicesInv, NEW w \in DeviceStores, w.dev = "plic", write_plic(w),
           access' = access
    PROVE  DevicesInv'
<1>1. plic' \in PlicStates /\ plic'.level = plic.level
  <2>1. plic \in PlicStates
    BY DEF DevicesInv
  <2>2. CASE w.reg \in {"priority", "threshold", "claim"} /\ w.val \in Nat
    <3>1. plic' \in {write_priority(plic, UART_SOURCE, w.val), write_threshold(plic, w.val),
                     complete(plic, w.val)}
      BY <2>2 DEF write_plic
    <3> QED
      BY <2>1, <2>2, <3>1, PlicRegisters
  <2>3. CASE w.reg = "enable" /\ w.val \in SUBSET Sources
    <3>1. plic' = write_enable(plic, w.val)
      BY <2>3 DEF write_plic
    <3> QED
      BY <2>1, <2>3, <3>1, PlicRegisters
  <2> QED
    BY <2>2, <2>3, StoreKinds
<1>2. uart' = uart /\ clint' = clint
  BY DEF write_plic
<1> QED
  BY <1>1, <1>2 DEF DevicesInv, Fresh

LEMMA WriteUart ==
    ASSUME DevicesInv, NEW w \in DeviceStores, w.dev = "uart", write_uart(w),
           access' = access
    PROVE  DevicesInv'
<1>0. plic \in PlicStates /\ uart \in UartStates /\ clint' = clint
  BY DEF DevicesInv, write_uart
<1>1. uart' \in UartStates /\ uart'.fifo = uart.fifo
  <2>1. CASE w.reg = "THR"
    BY <1>0, <2>1, UartRegisters DEF write_uart
  <2>2. CASE w.reg = "SCR" /\ w.val \in Nat
    BY <1>0, <2>2, UartRegisters DEF write_uart
  <2>3. CASE w.reg = "IER" /\ w.val \in SUBSET {RDA, THRI}
    BY <1>0, <2>3, UartRegisters DEF write_uart
  <2>4. CASE w.reg = "LCR" /\ w.val \in BOOLEAN
    BY <1>0, <2>4, UartRegisters DEF write_uart
  <2> QED
    BY <2>1, <2>2, <2>3, <2>4, StoreKinds
<1>2. plic' \in PlicStates /\ Fresh(uart', plic')
  <2>1. CASE w.reg \in {"THR", "IER"} /\ ~ uart.dlab
    BY <1>0, <1>1, <2>1, UpdateInterrupts DEF write_uart
  <2>2. CASE ~ (w.reg \in {"THR", "IER"} /\ ~ uart.dlab)
    <3>1. plic' = plic
      BY <2>2 DEF write_uart
    <3>2. uart'.ier = uart.ier /\ uart'.thre_ip = uart.thre_ip
      <4>1. CASE w.reg = "THR"
        BY <1>0, <2>2, <4>1, UartRegisters DEF write_uart
      <4>2. CASE w.reg = "SCR" /\ w.val \in Nat
        BY <1>0, <4>2, UartRegisters DEF write_uart
      <4>3. CASE w.reg = "IER" /\ w.val \in SUBSET {RDA, THRI}
        BY <1>0, <2>2, <4>3, UartRegisters DEF write_uart
      <4>4. CASE w.reg = "LCR" /\ w.val \in BOOLEAN
        BY <1>0, <4>4, UartRegisters DEF write_uart
      <4> QED
        BY <4>1, <4>2, <4>3, <4>4, StoreKinds
    <3> QED
      BY <1>0, <1>1, <3>1, <3>2 DEF DevicesInv, Fresh, irq_level, rx_fifo_empty
  <2> QED
    BY <2>1, <2>2
<1> QED
  BY <1>0, <1>1, <1>2 DEF DevicesInv

LEMMA WriteClint ==
    ASSUME DevicesInv, NEW w \in DeviceStores, w.dev = "clint", write_clint(w),
           access' = access
    PROVE  DevicesInv'
<1>0. clint \in ClintStates /\ plic' = plic /\ uart' = uart
  BY DEF DevicesInv, write_clint
<1>1. clint' \in ClintStates
  <2>1. CASE w.reg \in {"mtimecmp", "mtime"} /\ w.val \in Times
    <3>1. clint' \in {write_mtimecmp(clint, w.val), write_mtime(clint, w.val)}
      BY <2>1 DEF write_clint
    <3>2. 0 \in 0..(Half - 1)
      BY HalfAssumption
    <3> QED
      BY <1>0, <2>1, <3>1, <3>2, ClintRegisters
  <2>2. CASE w.reg \in {"mtimecmp_low", "mtimecmp_high", "mtime_low", "mtime_high"}
             /\ w.val \in 0..(Half - 1)
    <3>1. clint' \in {write_mtimecmp_low(clint, w.val), write_mtimecmp_high(clint, w.val),
                      write_mtime_low(clint, w.val), write_mtime_high(clint, w.val)}
      BY <2>2 DEF write_clint
    <3>2. clint.mtime \in Times
      BY <1>0 DEF ClintStates
    <3> QED
      BY <1>0, <2>2, <3>1, <3>2, ClintRegisters
  <2>3. CASE w.reg = "msip" /\ w.val \in BOOLEAN
    BY <1>0, <2>3 DEF write_clint, write_msip, ClintStates
  <2> QED
    BY <2>1, <2>2, <2>3, StoreKinds
<1> QED
  BY <1>0, <1>1 DEF DevicesInv

\* A store reaches its device.
LEMMA DrainDevices ==
    ASSUME PlatformInv, Drain
    PROVE  DevicesInv' /\ BusInv'
<1> DEFINE w == Head(posted)
<1>1. /\ posted # <<>> /\ posted' = Tail(posted) /\ posted \in Seq(DeviceStores)
      /\ Len(posted) <= StoreDepth /\ todo' = todo /\ deadline' = deadline /\ typed' = typed
      /\ access' = access
  BY DEF PlatformInv, BusInv, Drain, historyVars
<1>2. w \in DeviceStores
  BY <1>1
<1>3. posted' \in Seq(DeviceStores) /\ Len(posted') <= StoreDepth
  <2>1. Tail(posted) \in Seq(DeviceStores) /\ Len(Tail(posted)) = Len(posted) - 1
    BY <1>1
  <2> QED
    BY <1>1, <2>1, WiringAssumption
<1>4. BusInv'
  BY <1>1, <1>3 DEF PlatformInv, BusInv
<1>5. DevicesInv'
  <2>1. DevicesInv
    BY DEF PlatformInv
  <2> HIDE DEF w
  <2>2. CASE w.dev = "plic"
    <3>1. write_plic(w)
      BY <2>2 DEF Drain, w
    <3> QED
      BY <1>1, <1>2, <2>1, <2>2, <3>1, WritePlic
  <2>3. CASE w.dev = "uart"
    <3>1. write_uart(w)
      BY <2>3 DEF Drain, w
    <3> QED
      BY <1>1, <1>2, <2>1, <2>3, <3>1, WriteUart
  <2>4. CASE w.dev = "clint"
    <3>1. write_clint(w)
      BY <2>4 DEF Drain, w
    <3> QED
      BY <1>1, <1>2, <2>1, <2>4, <3>1, WriteClint
  <2>5. CASE w.dev \in {"dma", "mem"}
    <3>1. write_dma(w) \/ write_memory(w)
      BY <2>5 DEF Drain, w
    <3>2. plic' = plic /\ uart' = uart /\ clint' = clint
      BY <3>1 DEF write_dma, write_memory
    <3> QED
      BY <1>1, <2>1, <3>2 DEF DevicesInv
  <2> QED
    BY <1>2, <2>2, <2>3, <2>4, <2>5, StoreKinds
<1> QED
  BY <1>4, <1>5

\* The other processes of the kernel, and the stdin thread.
LEMMA ProcessDevices ==
    ASSUME PlatformInv,
           PlicOutput \/ ClintOutput \/ Tick \/ RxMonitor \/ StdinByte \/ WfiCheck \/ FinishAccess
    PROVE  DevicesInv' /\ BusInv'
<1>0. /\ DevicesInv /\ BusInv /\ plic \in PlicStates /\ uart \in UartStates
      /\ clint \in ClintStates
  BY DEF PlatformInv, DevicesInv
<1>1. CASE PlicOutput
  <2>1. plic' \in PlicStates /\ plic'.level = plic.level
    BY <1>0, <1>1, PlicRegisters DEF PlicOutput
  <2> QED
    BY <1>0, <1>1, <2>1 DEF PlicOutput, DevicesInv, BusInv, Fresh, busVars, historyVars
<1>2. CASE ClintOutput \/ Tick \/ WfiCheck
  <2>1. clint' \in {clint, update_irq_method(clint), tick(clint),
                    fast_forward_to_deadline(clint)}
    BY <1>2 DEF ClintOutput, Tick, WfiCheck
  <2>2. clint.mtime \in Times /\ 0 \in 0..(Half - 1)
    BY <1>0, HalfAssumption DEF ClintStates
  <2>3. clint' \in ClintStates
    BY <1>0, <2>1, <2>2, ClintRegisters
  <2> QED
    BY <1>0, <1>2, <2>3 DEF ClintOutput, Tick, WfiCheck, DevicesInv, BusInv, busVars, historyVars
<1>3. CASE RxMonitor
  <2>1. plic' \in PlicStates /\ Fresh(uart, plic')
    BY <1>0, <1>3, UpdateInterrupts DEF RxMonitor
  <2> QED
    BY <1>0, <1>3, <2>1 DEF RxMonitor, DevicesInv, BusInv, busVars, historyVars
<1>4. CASE StdinByte
  <2>1. typed' \in Nat /\ Len(uart.fifo) <= FifoDepth /\ uart.fifo \in Seq(Nat)
    BY <1>0, <1>4 DEF StdinByte, BusInv, DevicesInv, UartStates
  <2>2. /\ uart' \in UartStates /\ Len(uart'.fifo) <= FifoDepth
        /\ uart'.ier = uart.ier /\ uart'.thre_ip = uart.thre_ip
        /\ uart'.fifo = IF Accepts(uart) THEN Append(uart.fifo, typed') ELSE uart.fifo
    <3> DEFINE ch == typed'
    <3>1. uart' = stdin_push(uart, ch) /\ ch \in Nat
      BY <1>4, <2>1 DEF StdinByte
    <3> HIDE DEF ch
    <3>2. LET v == stdin_push(uart, ch)
          IN  /\ v \in UartStates /\ Len(v.fifo) <= FifoDepth
              /\ v.ier = uart.ier /\ v.thre_ip = uart.thre_ip
              /\ v.fifo = IF Accepts(uart) THEN Append(uart.fifo, ch) ELSE uart.fifo
      BY <1>0, <2>1, <3>1, UartFifo
    <3> QED
      BY <3>1, <3>2 DEF ch
  <2>3. uart.fifo # <<>> => uart'.fifo # <<>>
    BY <2>1, <2>2
  <2>4. Fresh(uart', plic)
    BY <1>0, <2>2, <2>3 DEF DevicesInv, Fresh, irq_level, rx_fifo_empty
  <2> QED
    BY <1>0, <1>4, <2>1, <2>2, <2>3, <2>4 DEF StdinByte, DevicesInv, BusInv, busVars
<1>5. CASE FinishAccess
  <2>1. uart' \in UartStates /\ Len(uart'.fifo) <= FifoDepth
    <3>1. CASE finish_RBR
      BY <1>0, <3>1, UartFifo DEF finish_RBR, DevicesInv
    <3>2. CASE finish_IIR
      BY <1>0, <3>2, UartRegisters DEF finish_IIR, DevicesInv
    <3> QED
      BY <1>5, <3>1, <3>2 DEF FinishAccess
  <2>2. plic' \in PlicStates /\ Fresh(uart', plic')
    BY <1>0, <1>5, <2>1, UpdateInterrupts DEF FinishAccess
  <2> QED
    BY <1>0, <1>5, <2>1, <2>2 DEF FinishAccess, DevicesInv, BusInv, historyVars
<1> QED
  BY <1>1, <1>2, <1>3, <1>4, <1>5

\* A store enters the buffer.
LEMMA PostBus ==
    ASSUME BusInv, NEW w \in DeviceStores, NEW next, Post(w, next)
    PROVE  posted' \in Seq(DeviceStores) /\ Len(posted') <= StoreDepth
<1>1. /\ posted \in Seq(DeviceStores) /\ Len(posted) < StoreDepth
      /\ posted' = Append(posted, w)
  BY DEF BusInv, Post
<1>2. posted' \in Seq(DeviceStores) /\ Len(posted') = Len(posted) + 1
  BY <1>1
<1> QED
  BY <1>1, <1>2, WiringAssumption

\* The hart leaves the devices alone, but for a read of the claim register.
LEMMA CycleDevices ==
    ASSUME PlatformInv, Cycle
    PROVE  DevicesInv'
<1>0. /\ DevicesInv /\ access = "none"
  BY DEF PlatformInv, Cycle
<1>1. \/ UNCHANGED deviceVars
      \/ plic' = claim(plic) /\ UNCHANGED <<uart, clint>> /\ access' = access
  BY DEF Cycle, Interrupt, Asleep, Instruction, BootStep, Post, WaitForInterrupt,
         SupervisorLoads, LoadAt, read_claim, FromBuffer, begin_IIR, read_RBR,
         SupervisorCommits, CommitTo, SupervisorStores, SupervisorReturn, MachineRearm,
         MachineReturn, PollControl, read_control, GuestStep, GuestWfi, GuestStore,
         deviceVars
<1>2. \/ access' = access
      \/ access' = "iir"
      \/ access' = "rbr" /\ uart.fifo # <<>>
  BY DEF Cycle, Interrupt, Asleep, Instruction, BootStep, Post, WaitForInterrupt,
         SupervisorLoads, LoadAt, read_claim, FromBuffer, begin_IIR, read_RBR,
         rx_fifo_empty, SupervisorCommits, CommitTo, SupervisorStores, SupervisorReturn,
         MachineRearm, MachineReturn, PollControl, read_control, GuestStep, GuestWfi,
         GuestStore, busVars
<1>3. CASE UNCHANGED deviceVars
  BY <1>0, <1>2, <1>3 DEF DevicesInv, deviceVars
<1>4. CASE plic' = claim(plic) /\ UNCHANGED <<uart, clint>> /\ access' = access
  <2>1. plic' \in PlicStates /\ plic'.level = plic.level
    BY <1>0, <1>4, PlicRegisters DEF DevicesInv
  <2> QED
    BY <1>0, <1>4, <2>1 DEF DevicesInv, Fresh
<1> QED
  BY <1>1, <1>3, <1>4

LEMMA CycleBus ==
    ASSUME PlatformInv, Cycle
    PROVE  BusInv'
<1>0. BusInv /\ HartInv /\ uart \in UartStates /\ deadline \in Times
  BY DEF PlatformInv, DevicesInv, BusInv
<1>a. Half \in Nat \ {0, 1}
  BY HalfAssumption
<1>1. CASE BootStep
  <2>1. CASE todo # <<>> /\ Post(Head(todo), Boot)
    <3> DEFINE w == Head(todo)
    <3>1. w \in DeviceStores /\ Tail(todo) \in Seq(DeviceStores)
      BY <1>0, <2>1 DEF BusInv
    <3> HIDE DEF w
    <3>2. posted' \in Seq(DeviceStores) /\ Len(posted') <= StoreDepth
      BY <1>0, <2>1, <3>1, PostBus DEF w
    <3>3. todo' = Tail(todo) /\ deadline' \in {deadline, w.val} /\ typed' = typed
          /\ (deadline' # deadline => w.reg = "mtimecmp")
      BY <1>1, <2>1 DEF BootStep, w
    <3>4. w.reg = "mtimecmp" => w.val \in Times
      BY <3>1 DEF DeviceStores
    <3> QED
      BY <1>0, <3>1, <3>2, <3>3, <3>4 DEF BusInv
  <2>2. CASE todo = <<>>
    BY <1>0, <1>1, <2>2 DEF BootStep, BusInv, busVars
  <2> QED
    BY <1>1, <2>1, <2>2 DEF BootStep
<1>2. CASE SupervisorStores
  <2> DEFINE x == IF uart.sent < Software.sends THEN Store("uart", "THR", SENT_CHAR)
                  ELSE Store("uart", "IER", uart.ier \ {THRI})
             y == Store("plic", "claim", UART_SOURCE)
  <2>1. x \in DeviceStores /\ y \in DeviceStores
    <3>1. uart.ier \ {THRI} \in SUBSET {RDA, THRI}
      BY <1>0 DEF UartStates
    <3> QED
      BY <3>1 DEF Store, DeviceStores, UART_SOURCE
  <2> HIDE DEF x, y
  <2>2. Post(x, Identify) \/ Post(y, SReturn)
    BY <1>2 DEF SupervisorStores, x, y
  <2>3. posted' \in Seq(DeviceStores) /\ Len(posted') <= StoreDepth
    BY <1>0, <2>1, <2>2, PostBus
  <2> QED
    BY <1>0, <1>2, <2>3 DEF SupervisorStores, BusInv, historyVars
<1>3. CASE MachineRearm
  <2> DEFINE x == Store("clint", "mtimecmp_low", Half - 1)
             y == Store("clint", "mtimecmp_high", deadline \div Half)
             z == Store("clint", "mtimecmp_low", deadline % Half)
  <2>1. x \in DeviceStores /\ y \in DeviceStores /\ z \in DeviceStores
    <3>1. Half - 1 \in 0..(Half - 1)
      BY <1>a
    <3>2. deadline \div Half \in 0..(Half - 1) /\ deadline % Half \in 0..(Half - 1)
      BY <1>0, <3>1, Halves
    <3> DEFINE a == Half - 1
               b == deadline \div Half
               c == deadline % Half
    <3> HIDE DEF a, b, c
    <3>3. a \in 0..(Half - 1) /\ b \in 0..(Half - 1) /\ c \in 0..(Half - 1)
      BY <3>1, <3>2 DEF a, b, c
    <3>4. /\ Store("clint", "mtimecmp_low", a) \in DeviceStores
          /\ Store("clint", "mtimecmp_high", b) \in DeviceStores
          /\ Store("clint", "mtimecmp_low", c) \in DeviceStores
      BY <3>3 DEF Store, DeviceStores
    <3> QED
      BY <3>4 DEF a, b, c
  <2> HIDE DEF x, y, z
  <2>2. Post(x, RearmHigh) \/ Post(y, RearmLow) \/ Post(z, MReturn)
    BY <1>3 DEF MachineRearm, x, y, z
  <2>3. posted' \in Seq(DeviceStores) /\ Len(posted') <= StoreDepth
    BY <1>0, <2>1, <2>2, PostBus
  <2>4. deadline' \in {deadline, Never} \cup Software.deadlines
    BY <1>3 DEF MachineRearm, historyVars
  <2>5. deadline' \in Times
    <3>1. Never \in Times
      BY <1>a DEF Never, Times
    <3>2. Software.deadlines \subseteq Times
      BY <1>0, ProgramsAssumption DEF HartInv, Software
    <3> QED
      BY <1>0, <2>4, <3>1, <3>2
  <2> QED
    BY <1>0, <1>3, <2>3, <2>5 DEF MachineRearm, BusInv, historyVars
<1>4. CASE GuestStore
  <2>1. \E w \in DeviceStores : Post(w, pc)
    BY <1>0, <1>4, ProgramsAssumption DEF GuestStore, HartInv, Software
  <2>2. posted' \in Seq(DeviceStores) /\ Len(posted') <= StoreDepth
    BY <1>0, <2>1, PostBus
  <2> QED
    BY <1>0, <1>4, <2>2 DEF GuestStore, BusInv, historyVars
<1>5. CASE \/ Interrupt \/ Asleep \/ WaitForInterrupt \/ SupervisorLoads \/ SupervisorCommits
           \/ SupervisorReturn \/ MachineReturn \/ PollControl \/ GuestStep \/ GuestWfi
  <2>1. posted' = posted /\ todo' = todo /\ deadline' = deadline /\ typed' = typed
    BY <1>5 DEF Interrupt, Asleep, WaitForInterrupt, SupervisorLoads, LoadAt,
                SupervisorCommits, CommitTo, SupervisorReturn, MachineReturn, PollControl,
                GuestStep, GuestWfi, busVars, historyVars
  <2> QED
    BY <1>0, <2>1 DEF BusInv
<1> QED
  BY <1>1, <1>2, <1>3, <1>4, <1>5 DEF Cycle, Instruction

LEMMA PlatformInvInit == Init => PlatformInv
<1> SUFFICES ASSUME Init PROVE PlatformInv
  OBVIOUS
<1>0. program \in DOMAIN Programs /\ Half \in Nat \ {0, 1} /\ FifoDepth \in Nat
  BY HalfAssumption, FifoDepthAssumption DEF Init
<1>1. plic \in PlicStates /\ plic.level = {}
  BY DEF Init, ResetPlic, PlicStates
<1>2. uart \in UartStates /\ uart.fifo = <<>> /\ uart.ier = {}
  BY DEF Init, ResetUart, UartStates
<1>3. clint \in ClintStates /\ Never \in Times
  <2>1. 0 \in Times /\ Never \in Times
    BY <1>0 DEF Times, Never
  <2> QED
    BY <2>1 DEF Init, ResetClint, ClintStates
<1>4. DevicesInv
  BY <1>0, <1>1, <1>2, <1>3 DEF Init, DevicesInv, Fresh
<1>5. todo \in Seq(DeviceStores)
  BY <1>0, ProgramsAssumption DEF Init, Software
<1>6. posted \in Seq(DeviceStores) /\ Len(posted) <= StoreDepth
  BY WiringAssumption DEF Init
<1>7. BusInv
  BY <1>3, <1>5, <1>6 DEF Init, BusInv
<1> QED
  BY <1>4, <1>7, HartInvInit DEF PlatformInv

LEMMA PlatformInvStep ==
    ASSUME PlatformInv, [Next]_vars
    PROVE  PlatformInv'
<1>1. HartInv'
  BY HartInvStep DEF PlatformInv
<1>2. CASE UNCHANGED vars
  BY <1>1, <1>2 DEF PlatformInv, DevicesInv, BusInv, vars, busVars, deviceVars, historyVars
<1>3. CASE Next
  <2>1. CASE Drain
    BY <1>1, <2>1, DrainDevices DEF PlatformInv
  <2>2. CASE Cycle
    BY <1>1, <2>2, CycleDevices, CycleBus DEF PlatformInv
  <2>3. CASE PlicOutput \/ ClintOutput \/ Tick \/ RxMonitor \/ StdinByte \/ WfiCheck
             \/ FinishAccess
    BY <1>1, <2>3, ProcessDevices DEF PlatformInv
  <2> QED
    BY <1>3, <2>1, <2>2, <2>3 DEF Next
<1> QED
  BY <1>2, <1>3

LEMMA PlatformInvHolds == Spec => []PlatformInv
<1>1. PlatformInv /\ [Next]_vars => PlatformInv'
  BY PlatformInvStep
<1> QED
  BY PlatformInvInit, <1>1, PTL DEF Spec

\* Whatever software writes and in whatever order stores drain, bytes arrive and
\* processes run, CSRs keep within the masks of CSR_File.h, the sources of the PLIC
\* exist, the FIFO and the store buffer do not overflow, and both timers of the CLINT
\* keep their width, though they are written in halves.
THEOREM PlatformTypesHold == Spec => []PlatformTypes
<1>1. PlatformInv => PlatformTypes
  BY DEF PlatformInv, HartInv, DevicesInv, BusInv, PlatformTypes, PlicStates, ClintStates
<1> QED
  BY <1>1, PlatformInvHolds, PTL

\* The level the UART drives into the PLIC is never out of date, but for bytes
\* that the stdin thread has just delivered: every register access that changes the
\* level also announces it (UART.h, update_interrupts), between the two looks of a
\* read at the FIFO included.
THEOREM UartLineFreshHolds == Spec => []UartLineFresh
<1>1. PlatformInv => UartLineFresh
  BY DEF PlatformInv, DevicesInv, UartLineFresh, Fresh
<1> QED
  BY <1>1, PlatformInvHolds, PTL

-----------------------------------------------------------------------------
(* Nested traps *)

\* Where software is: in its main program, in the supervisor's handler, or in
\* the machine's.
Main == {Boot, Idle, Poll}
SHandler == {Claim, Identify, Receive, Transmit, Complete, SReturn}
MHandler == {Rearm, RearmHigh, RearmLow, MReturn}

LEMMA LabelsDiffer ==
    /\ Main \cap SHandler = {} /\ Main \cap MHandler = {} /\ SHandler \cap MHandler = {}
<1>1. \A x, y : {x} = {y} => x = y
  OBVIOUS
<1> QED
  BY <1>1 DEF Main, SHandler, MHandler, Boot, Idle, Poll, Claim, Identify, Receive, Transmit,
              Complete, SReturn, Rearm, RearmHigh, RearmLow, MReturn

\* What sret and mret go back to.
SavedByS(c) ==
    [priv |-> IF SPP \in c.mstatus THEN S ELSE U, sie |-> SPIE \in c.mstatus,
     mie |-> MIE \in c.mstatus, pc |-> c.sepc]

SavedByM(c) ==
    [priv |-> SavedMode(c), sie |-> SIE \in c.mstatus, mie |-> MPIE \in c.mstatus,
     pc |-> c.mepc]

\* The supervisor's handler, interrupted by the machine.
Below(c) ==
    [priv |-> IF SPP \in c.mstatus THEN S ELSE U, sie |-> SPIE \in c.mstatus,
     mie |-> MPIE \in c.mstatus, pc |-> c.sepc]

InMain(c, p, fs) == p \in Main /\ fs = <<>>

InS(c, p, fs) ==
    /\ p \in SHandler /\ c.priv = S /\ SIE \notin c.mstatus /\ c.sepc \in Main
    /\ fs = <<SavedByS(c)>>

InM(c, p, fs) ==
    /\ p \in MHandler /\ c.priv = M /\ MIE \notin c.mstatus
    /\ \/ c.mepc \in Main /\ fs = <<SavedByM(c)>>
       \/ /\ c.mepc \in SHandler /\ SavedMode(c) = S /\ SIE \notin c.mstatus /\ c.sepc \in Main
          /\ fs = <<Below(c), SavedByM(c)>>

Nested(c, p, fs) == InMain(c, p, fs) \/ InS(c, p, fs) \/ InM(c, p, fs)

\* Sampling the lines disturbs nothing of this.
SameTraps(c, d) ==
    /\ d.priv = c.priv /\ d.mstatus = c.mstatus /\ d.mie = c.mie /\ d.mideleg = c.mideleg
    /\ d.stvec = c.stvec /\ d.mtvec = c.mtvec /\ d.sepc = c.sepc /\ d.mepc = c.mepc

LEMMA SyncTraps ==
    ASSUME CsrTypes
    PROVE  SameTraps(csr, SyncLines) /\ SyncLines \in CsrFiles
<1> DEFINE ip == (csr.mip \ {3, 7, 9}) \cup Lines
<1>1. SyncLines = [csr EXCEPT !.mip = ip]
  BY DEF SyncLines
<1>2. csr \in CsrFiles /\ SyncLines \in CsrFiles
  BY SyncLegal DEF CsrTypes, Legal
<1> HIDE DEF ip
<1> QED
  BY <1>1, <1>2 DEF CsrFiles, SameTraps

LEMMA SameNested ==
    ASSUME NEW c, NEW d, SameTraps(c, d), NEW p, NEW fs
    PROVE  /\ Nested(d, p, fs) <=> Nested(c, p, fs)
           /\ Installed(d) <=> Installed(c)
           /\ Frame(d, p) = Frame(c, p) /\ SavedByS(d) = SavedByS(c)
           /\ SavedByM(d) = SavedByM(c)
  BY DEF SameTraps, Nested, InMain, InS, InM, SavedByS, SavedByM, SavedMode, Below, Installed,
         Frame

\* The status after a trap and after a return, bit by bit.
OtherBits(s, t, moved) ==
    \A b \in {SIE, SPIE, SPP, MIE, MPIE, 11, 12, TSR} \ moved : b \in t <=> b \in s

LEMMA StackS ==
    ASSUME NEW s, NEW c
    PROVE  LET t == (Stacked(s, SIE, SPIE) \ {SPP}) \cup (IF c THEN {SPP} ELSE {})
           IN  /\ SIE \notin t /\ (SPIE \in t <=> SIE \in s) /\ (SPP \in t <=> c)
               /\ OtherBits(s, t, {SIE, SPIE, SPP})
  BY DEF Stacked, OtherBits, SIE, SPIE, SPP, MIE, MPIE, TSR

LEMMA StackM ==
    ASSUME NEW s, NEW p \in 0..3
    PROVE  LET t == (Stacked(s, MIE, MPIE) \ MPP) \cup PrivBits(p)
           IN  /\ MIE \notin t /\ (MPIE \in t <=> MIE \in s)
               /\ (IF 11 \in t THEN 1 ELSE 0) + (IF 12 \in t THEN 2 ELSE 0) = p
               /\ OtherBits(s, t, {MIE, MPIE, 11, 12})
  BY DEF Stacked, PrivBits, OtherBits, SIE, SPIE, SPP, MIE, MPIE, MPP, TSR

LEMMA UnstackS ==
    ASSUME NEW s
    PROVE  LET t == Unstacked(s, SPIE, SIE) \ {SPP}
           IN  (SIE \in t <=> SPIE \in s) /\ OtherBits(s, t, {SIE, SPIE, SPP})
  BY DEF Unstacked, OtherBits, SIE, SPIE, SPP, MIE, MPIE, TSR

LEMMA UnstackM ==
    ASSUME NEW s
    PROVE  LET t == Unstacked(s, MPIE, MIE) \ MPP
           IN  (MIE \in t <=> MPIE \in s) /\ OtherBits(s, t, {MIE, MPIE, 11, 12})
  BY DEF Unstacked, OtherBits, SIE, SPIE, SPP, MIE, MPIE, MPP, TSR

\* A trap or a return leaves the handlers installed.
Keeps(c, d) ==
    /\ d.mie = c.mie /\ d.mideleg = c.mideleg /\ d.stvec = c.stvec /\ d.mtvec = c.mtvec
    /\ TSR \in d.mstatus <=> TSR \in c.mstatus

LEMMA KeepsInstalled ==
    ASSUME NEW c, NEW d, Keeps(c, d)
    PROVE  Installed(d) <=> Installed(c)
  BY DEF Keeps, Installed

LEMMA EnterS ==
    ASSUME NEW c \in CsrFiles, NEW cause, NEW epc, NEW d, d = trap_to_S(c, cause, epc)
    PROVE  /\ Keeps(c, d) /\ d.priv = S /\ d.sepc = epc /\ SIE \notin d.mstatus
           /\ c.priv \in {U, S} => SavedByS(d) = Frame(c, epc)
<1> DEFINE t == (Stacked(c.mstatus, SIE, SPIE) \ {SPP}) \cup (IF c.priv = S THEN {SPP} ELSE {})
<1>1. /\ SIE \notin t /\ (SPIE \in t <=> SIE \in c.mstatus) /\ (SPP \in t <=> c.priv = S)
      /\ OtherBits(c.mstatus, t, {SIE, SPIE, SPP})
  BY StackS
<1>2. (MIE \in t <=> MIE \in c.mstatus) /\ (TSR \in t <=> TSR \in c.mstatus)
  BY <1>1 DEF OtherBits, SIE, SPIE, SPP, MIE, TSR
<1>3. d = [c EXCEPT !.scause = cause, !.sepc = epc, !.priv = S, !.mstatus = t]
  BY DEF trap_to_S
<1> HIDE DEF t
<1>4. /\ d.priv = S /\ d.mstatus = t /\ d.sepc = epc /\ d.mie = c.mie
      /\ d.mideleg = c.mideleg /\ d.stvec = c.stvec /\ d.mtvec = c.mtvec
  BY <1>3 DEF CsrFiles
<1>5. c.priv \in {U, S} => (IF SPP \in d.mstatus THEN S ELSE U) = c.priv
  BY <1>1, <1>4 DEF U, S
<1>6. (SPIE \in d.mstatus) = (SIE \in c.mstatus) /\ (MIE \in d.mstatus) = (MIE \in c.mstatus)
  BY <1>1, <1>2, <1>4
<1> QED
  BY <1>1, <1>2, <1>4, <1>5, <1>6 DEF Keeps, SavedByS, Frame

LEMMA EnterM ==
    ASSUME NEW c \in CsrFiles, NEW cause, NEW epc, NEW d, d = trap_to_M(c, cause, epc)
    PROVE  /\ Keeps(c, d) /\ d.priv = M /\ d.mepc = epc /\ d.sepc = c.sepc
           /\ MIE \notin d.mstatus /\ SavedMode(d) = c.priv
           /\ SIE \in d.mstatus <=> SIE \in c.mstatus
           /\ SavedByM(d) = Frame(c, epc) /\ Below(d) = SavedByS(c)
<1> DEFINE t == (Stacked(c.mstatus, MIE, MPIE) \ MPP) \cup PrivBits(c.priv)
<1>0. c.priv \in 0..3
  BY DEF CsrFiles
<1>1. /\ MIE \notin t /\ (MPIE \in t <=> MIE \in c.mstatus)
      /\ (IF 11 \in t THEN 1 ELSE 0) + (IF 12 \in t THEN 2 ELSE 0) = c.priv
      /\ OtherBits(c.mstatus, t, {MIE, MPIE, 11, 12})
  BY <1>0, StackM
<1>2. /\ (SIE \in t) = (SIE \in c.mstatus) /\ (SPIE \in t) = (SPIE \in c.mstatus)
      /\ (SPP \in t) = (SPP \in c.mstatus) /\ (TSR \in t) = (TSR \in c.mstatus)
  BY <1>1 DEF OtherBits, SIE, SPIE, SPP, MIE, MPIE, TSR
<1>3. d = [c EXCEPT !.mcause = cause, !.mepc = epc, !.priv = M, !.mstatus = t]
  BY DEF trap_to_M
<1> HIDE DEF t
<1>4. /\ d.priv = M /\ d.mstatus = t /\ d.mepc = epc /\ d.sepc = c.sepc /\ d.mie = c.mie
      /\ d.mideleg = c.mideleg /\ d.stvec = c.stvec /\ d.mtvec = c.mtvec
  BY <1>3 DEF CsrFiles
<1>5. SavedMode(d) = c.priv
  BY <1>1, <1>4 DEF SavedMode
<1>6. (MPIE \in d.mstatus) = (MIE \in c.mstatus)
  BY <1>1, <1>4
<1>7. SavedByM(d) = Frame(c, epc)
  BY <1>2, <1>4, <1>5, <1>6 DEF SavedByM, Frame
<1>8. Below(d) = SavedByS(c)
  BY <1>2, <1>4, <1>6 DEF Below, SavedByS
<1> QED
  BY <1>1, <1>2, <1>4, <1>5, <1>7, <1>8 DEF Keeps

LEMMA LeaveS ==
    ASSUME NEW c \in CsrFiles, NEW d, d = sret(c)
    PROVE  Keeps(c, d) /\ Frame(d, c.sepc) = SavedByS(c)
<1> DEFINE t == Unstacked(c.mstatus, SPIE, SIE) \ {SPP}
           p == IF SPP \in c.mstatus THEN S ELSE U
<1>1. (SIE \in t <=> SPIE \in c.mstatus) /\ OtherBits(c.mstatus, t, {SIE, SPIE, SPP})
  BY UnstackS
<1>2. (MIE \in t) = (MIE \in c.mstatus) /\ (TSR \in t) = (TSR \in c.mstatus)
  BY <1>1 DEF OtherBits, SIE, SPIE, SPP, MIE, TSR
<1>3. d = [c EXCEPT !.mstatus = t, !.priv = p]
  BY DEF sret
<1> HIDE DEF t, p
<1>4. /\ d.priv = p /\ d.mstatus = t /\ d.mie = c.mie
      /\ d.mideleg = c.mideleg /\ d.stvec = c.stvec /\ d.mtvec = c.mtvec
  BY <1>3 DEF CsrFiles
<1>5. (SIE \in d.mstatus) = (SPIE \in c.mstatus)
  BY <1>1, <1>4
<1> QED
  BY <1>2, <1>4, <1>5 DEF Keeps, SavedByS, Frame, p

LEMMA LeaveM ==
    ASSUME NEW c \in CsrFiles, NEW d, d = mret(c)
    PROVE  /\ Keeps(c, d) /\ Frame(d, c.mepc) = SavedByM(c) /\ d.priv = SavedMode(c)
           /\ d.sepc = c.sepc /\ SavedByS(d) = Below(c)
           /\ SIE \in d.mstatus <=> SIE \in c.mstatus
<1> DEFINE t == Unstacked(c.mstatus, MPIE, MIE) \ MPP
           p == SavedMode(c)
<1>1. (MIE \in t <=> MPIE \in c.mstatus) /\ OtherBits(c.mstatus, t, {MIE, MPIE, 11, 12})
  BY UnstackM
<1>2. /\ (SIE \in t) = (SIE \in c.mstatus) /\ (SPIE \in t) = (SPIE \in c.mstatus)
      /\ (SPP \in t) = (SPP \in c.mstatus) /\ (TSR \in t) = (TSR \in c.mstatus)
  BY <1>1 DEF OtherBits, SIE, SPIE, SPP, MIE, MPIE, TSR
<1>3. d = [c EXCEPT !.mstatus = t, !.priv = p]
  BY DEF mret
<1> HIDE DEF t, p
<1>4. /\ d.priv = p /\ d.mstatus = t /\ d.mie = c.mie /\ d.sepc = c.sepc
      /\ d.mideleg = c.mideleg /\ d.stvec = c.stvec /\ d.mtvec = c.mtvec
  BY <1>3 DEF CsrFiles
<1>5. (MIE \in d.mstatus) = (MPIE \in c.mstatus)
  BY <1>1, <1>4
<1> QED
  BY <1>2, <1>4, <1>5 DEF Keeps, SavedByS, SavedByM, Below, Frame, p

\* The interrupt taken: a machine interrupt goes to machine mode; a supervisor
\* interrupt comes only while its mode takes one, and goes to supervisor mode.
LEMMA InterruptTaken ==
    ASSUME NEW c \in CsrFiles, pending_interrupt(c) >= 0, NEW p
    PROVE  LET d == take_interrupt(c, pending_interrupt(c), p)
               cause == [interrupt |-> TRUE, code |-> pending_interrupt(c)]
           IN  /\ pending_interrupt(c) \in c.mip
               /\ \/ m_enabled(c) /\ c.mie \ c.mideleg # {} /\ d = trap_to_M(c, cause, p)
                  \/ s_enabled(c) /\ c.mie \cap c.mideleg # {} /\ d = trap_to_S(c, cause, p)
<1> DEFINE taken == {k \in 1..6 : IF k <= 3 THEN check_m(c, Order[k]) ELSE check_s(c, Order[k])}
           cause == [interrupt |-> TRUE, code |-> pending_interrupt(c)]
<1>1. pending_interrupt(c) = IF taken = {} THEN -1 ELSE Order[Min(taken)]
  BY DEF pending_interrupt
<1>2. taken # {}
  BY <1>1
<1>3. Min(taken) \in taken
  <2>1. taken \subseteq 1..6
    OBVIOUS
  <2>2. \E k \in taken : \A j \in taken : k <= j
    <3>1. \E k \in taken : TRUE
      BY <1>2
    <3> HIDE DEF taken
    <3> QED
      BY <2>1, <3>1
  <2> HIDE DEF taken
  <2> QED
    BY <2>2 DEF Min
<1> DEFINE k == Min(taken)
           code == pending_interrupt(c)
<1>4. k \in 1..6 /\ (IF k <= 3 THEN check_m(c, Order[k]) ELSE check_s(c, Order[k]))
  BY <1>3
<1>5. code = Order[k]
  BY <1>1, <1>2
<1> HIDE DEF taken, k, code
<1>6. CASE check_m(c, code)
  <2>1. m_enabled(c) /\ code \in c.mip /\ code \in c.mie /\ code \notin c.mideleg
    BY <1>6 DEF check_m
  <2> QED
    BY <2>1 DEF take_interrupt, delegated, code
<1>7. CASE check_s(c, code)
  <2>1. /\ s_enabled(c) /\ code \in c.mip /\ code \in c.mie /\ code \in c.mideleg
        /\ c.priv # M
    BY <1>7 DEF check_s, s_enabled, U, S, M
  <2> QED
    BY <2>1 DEF take_interrupt, delegated, code
<1> QED
  BY <1>4, <1>5, <1>6, <1>7

-----------------------------------------------------------------------------

\* The inductive invariant of nested traps: each level of software is where its
\* code is, and what the CSRs will give back is what the trap found.
Nest ==
    IF Software.name # "guest" THEN Installed(csr) /\ Nested(csr, pc, frames)
                               ELSE frames = <<>>

\* A step keeps the level of software, or a return goes down one.
NestStep ==
    /\ Nest'
    /\ Len(frames') < Len(frames) => Frame(csr', pc') = Last(frames)

SameLevel(p, q) ==
    \/ p \in Main /\ q \in Main
    \/ p \in SHandler /\ q \in SHandler
    \/ p \in MHandler /\ q \in MHandler

LEMMA Stacks ==
    ASSUME NEW x, NEW y
    PROVE  /\ Append(<<>>, x) = <<x>> /\ Append(<<x>>, y) = <<x, y>>
           /\ Front(<<x>>) = <<>> /\ Front(<<x, y>>) = <<x>>
           /\ Last(<<x>>) = x /\ Last(<<x, y>>) = y
<1> DEFINE T == {x, y}
           s == <<x>>
           t == <<x, y>>
           a == Append(<<>>, x)
           b == Append(<<x>>, y)
           f == SubSeq(s, 1, 0)
           g == SubSeq(t, 1, 1)
<1>1. s \in Seq(T) /\ Len(s) = 1 /\ s[1] = x
  OBVIOUS
<1>2. t \in Seq(T) /\ Len(t) = 2 /\ t[1] = x /\ t[2] = y
  OBVIOUS
<1>3. a \in Seq(T) /\ Len(a) = 1 /\ a[1] = x
  OBVIOUS
<1>4. b \in Seq(T) /\ Len(b) = 2 /\ b[1] = x /\ b[2] = y
  <2>1. x \in T /\ y \in T
    OBVIOUS
  <2> HIDE DEF s, T
  <2> DEFINE b1 == Append(s, y)
  <2>2. b1 \in Seq(T) /\ Len(b1) = Len(s) + 1 /\ b1[1] = s[1] /\ b1[Len(s)+1] = y
    <3>0. s \in Seq(T)
      BY <1>1
    <3>1. /\ Append(s, y) \in Seq(T) /\ Len(Append(s, y)) = Len(s) + 1
          /\ Append(s, y)[Len(s) + 1] = y
          /\ \A i \in 1..Len(s) : Append(s, y)[i] = s[i]
      BY <2>1, <3>0, AppendProperties
    <3> QED
      BY <1>1, <3>1
  <2> HIDE DEF b1
  <2>3. b1 \in Seq(T) /\ Len(b1) = 2 /\ b1[1] = x /\ b1[2] = y
    BY <1>1, <2>2
  <2> QED
    BY <2>3 DEF b1, s
<1>5. g \in Seq(T) /\ Len(g) = 1 /\ g[1] = x
  <2> HIDE DEF t, T
  <2> QED
    BY <1>2
<1>6. Front(s) = f /\ Front(t) = g /\ Last(s) = x /\ Last(t) = y
  <2> HIDE DEF s, t
  <2> QED
    BY <1>1, <1>2 DEF Front, Last, s
<1>7. f = <<>>
  <2> HIDE DEF s
  <2> QED
    BY <1>1
<1> HIDE DEF T, s, t, a, b, f, g
<1>8. a = s /\ g = s
  BY <1>1, <1>3, <1>5, SeqEqual
<1>9. b = t
  <2>1. \A i \in 1..Len(b) : b[i] = t[i]
    BY <1>2, <1>4
  <2> QED
    BY <1>2, <1>4, <2>1, SeqEqual
<1> QED
  BY <1>6, <1>7, <1>8, <1>9 DEF s, t, a, b, f, g

LEMMA NestFrames ==
    ASSUME Nest
    PROVE  Len(frames) \in Nat /\ \A x : Len(frames) <= Len(Append(frames, x))
<1>1. frames = <<>> \/ (\E x : frames = <<x>>) \/ (\E x, y : frames = <<x, y>>)
  BY DEF Nest, Nested, InMain, InS, InM
<1>2. CASE frames = <<>>
  BY <1>2
<1>3. CASE \E x : frames = <<x>>
  <2>1. PICK y : frames = <<y>>
    BY <1>3
  <2> QED
    BY <2>1
<1>4. CASE \E x, y : frames = <<x, y>>
  <2>1. PICK y, z : frames = <<y, z>>
    BY <1>4
  <2> SUFFICES ASSUME NEW x
               PROVE  Len(frames) \in Nat /\ Len(frames) <= Len(Append(frames, x))
    OBVIOUS
  <2> DEFINE T == {x, y, z}
  <2>2. frames \in Seq(T) /\ x \in T
    BY <2>1
  <2> HIDE DEF T
  <2>3. Len(Append(frames, x)) = Len(frames) + 1 /\ Len(frames) \in Nat
    BY <2>2, AppendProperties, LenProperties
  <2> QED
    BY <2>3
<1> QED
  BY <1>1, <1>2, <1>3, <1>4

\* Instructions that neither trap nor return.
LEMMA PlainNest ==
    ASSUME HartInv, Nest, csr' = SyncLines \/ csr' = csr, SameLevel(pc, pc'),
           frames' = frames, program' = program
    PROVE  NestStep
<1>1. SameTraps(csr, csr')
  BY SyncTraps DEF HartInv, SameTraps
<1>2. ~(Len(frames') < Len(frames))
  BY NestFrames
<1>3. CASE Software.name = "guest"
  BY <1>2, <1>3 DEF Nest, NestStep, Software
<1>4. CASE Software.name # "guest"
  <2> DEFINE c == csr
             d == csr'
             p == pc
             q == pc'
             fs == frames
  <2>1. Installed(c) /\ Nested(c, p, fs) /\ SameTraps(c, d) /\ SameLevel(p, q)
    BY <1>1, <1>4 DEF Nest
  <2> HIDE DEF c, d, p, q, fs
  <2>2. Installed(d) /\ Nested(d, p, fs)
    BY <2>1, SameNested
  <2>3. Nested(d, q, fs)
    BY <2>1, <2>2, LabelsDiffer DEF Nested, InMain, InS, InM, SameLevel
  <2> QED
    BY <1>2, <1>4, <2>2, <2>3 DEF Nest, NestStep, Software, d, q, fs
<1> QED
  BY <1>3, <1>4

\* An interrupt goes up one level.
LEMMA InterruptNest ==
    ASSUME HartInv, Nest, Interrupt
    PROVE  NestStep
<1> DEFINE c == SyncLines
           code == pending_interrupt(c)
           cause == [interrupt |-> TRUE, code |-> code]
<1>1. c \in CsrFiles /\ SameTraps(csr, c) /\ code >= 0 /\ program' = program
      /\ csr' = take_interrupt(c, code, pc) /\ pc' = TrapTarget(csr')
  BY SyncTraps DEF HartInv, Interrupt
<1>2. CASE Software.name = "guest"
  BY <1>1, <1>2 DEF Nest, NestStep, Software, Interrupt, Push, TracksFrames
<1>3. CASE Software.name # "guest"
  <2>1. frames' = Append(frames, Frame(csr, pc)) /\ Installed(csr) /\ Nested(csr, pc, frames)
    BY <1>3 DEF Nest, Software, Interrupt, Push, TracksFrames
  <2> DEFINE d == csr'
             p == pc
             fs == frames
  <2>a. ~(Len(frames') < Len(frames))
    <3>1. Len(frames) \in Nat /\ Len(frames) <= Len(frames')
      BY <2>1, NestFrames
    <3> QED
      BY <3>1
  <2>2. /\ Installed(c) /\ Nested(c, p, fs) /\ frames' = Append(fs, Frame(c, p))
        /\ pc' = TrapTarget(d)
    BY <1>1, <2>1, SameNested
  <2>3. \/ m_enabled(c) /\ c.mie \ c.mideleg # {} /\ d = trap_to_M(c, cause, p)
        \/ s_enabled(c) /\ c.mie \cap c.mideleg # {} /\ d = trap_to_S(c, cause, p)
    BY <1>1, InterruptTaken
  <2> HIDE DEF c, code, cause, d, p, fs
  <2>4. CASE m_enabled(c) /\ c.mie \ c.mideleg # {} /\ d = trap_to_M(c, cause, p)
    <3>1. /\ Keeps(c, d) /\ d.priv = M /\ d.mepc = p /\ d.sepc = c.sepc
          /\ MIE \notin d.mstatus /\ SavedMode(d) = c.priv
          /\ SIE \in d.mstatus <=> SIE \in c.mstatus
          /\ SavedByM(d) = Frame(c, p) /\ Below(d) = SavedByS(c)
      BY <1>1, <2>4, EnterM
    <3>2. Installed(d) /\ TrapTarget(d) = Rearm /\ Rearm \in MHandler
      BY <2>2, <2>4, <3>1, KeepsInstalled DEF Keeps, Installed, TrapTarget, MHandler, S, M
    <3>3. ~InM(c, p, fs)
      BY <2>4 DEF InM, m_enabled
    <3>4. ASSUME InMain(c, p, fs)
          PROVE  Nested(d, Rearm, Append(fs, Frame(c, p)))
      <4>1. Append(fs, Frame(c, p)) = <<SavedByM(d)>> /\ p \in Main
        BY <3>1, <3>4, Stacks DEF InMain
      <4> QED
        BY <3>1, <3>2, <4>1 DEF Nested, InM
    <3>5. ASSUME InS(c, p, fs)
          PROVE  Nested(d, Rearm, Append(fs, Frame(c, p)))
      <4>1. /\ p \in SHandler /\ fs = <<Below(d)>>
            /\ c.priv = S /\ SIE \notin c.mstatus /\ c.sepc \in Main
        BY <3>1, <3>5 DEF InS
      <4>2. Append(fs, Frame(c, p)) = <<Below(d), SavedByM(d)>>
        BY <3>1, <4>1, Stacks
      <4> QED
        BY <3>1, <3>2, <4>1, <4>2 DEF Nested, InM
    <3>6. Nested(d, TrapTarget(d), Append(fs, Frame(c, p)))
      BY <2>2, <3>2, <3>3, <3>4, <3>5 DEF Nested
    <3> QED
      BY <1>1, <1>3, <2>2, <2>a, <3>2, <3>6 DEF Nest, NestStep, Software, d
  <2>5. CASE s_enabled(c) /\ c.mie \cap c.mideleg # {} /\ d = trap_to_S(c, cause, p)
    <3>0. c.priv \in {U, S}
      BY <2>5 DEF s_enabled
    <3>1. /\ Keeps(c, d) /\ d.priv = S /\ d.sepc = p /\ SIE \notin d.mstatus
          /\ SavedByS(d) = Frame(c, p)
      BY <1>1, <2>5, <3>0, EnterS
    <3>2. Installed(d) /\ TrapTarget(d) = Claim /\ Claim \in SHandler
      BY <2>2, <2>5, <3>1, KeepsInstalled DEF Keeps, Installed, TrapTarget, SHandler, S, M
    <3>3. ~InM(c, p, fs) /\ ~InS(c, p, fs)
      BY <2>5 DEF InM, InS, s_enabled, U, S, M
    <3>4. Append(fs, Frame(c, p)) = <<SavedByS(d)>> /\ p \in Main
      BY <2>2, <3>1, <3>3, Stacks DEF InMain, Nested
    <3>6. Nested(d, TrapTarget(d), Append(fs, Frame(c, p)))
      BY <3>1, <3>2, <3>4 DEF Nested, InS
    <3> QED
      BY <1>1, <1>3, <2>2, <2>a, <3>2, <3>6 DEF Nest, NestStep, Software, d
  <2> QED
    BY <2>3, <2>4, <2>5
<1> QED
  BY <1>2, <1>3

\* A return goes back to what the trap found.
LEMMA SupervisorReturnNest ==
    ASSUME HartInv, Nest, SupervisorReturn
    PROVE  NestStep
<1> DEFINE c == SyncLines
           d == csr'
           p == pc
           fs == frames
<1>1. /\ c \in CsrFiles /\ SameTraps(csr, c) /\ program' = program /\ p = SReturn
      /\ Software.name # "guest" /\ Sret /\ Pop /\ SReturn \in SHandler
  BY SyncTraps DEF HartInv, SupervisorReturn, at, SHandler
<1>2. Installed(csr) /\ InS(csr, p, fs)
  BY <1>1, LabelsDiffer DEF Nest, Nested, InMain, InM
<1>3. csr.priv = S /\ TSR \notin csr.mstatus
  BY <1>2 DEF InS, Installed
<1>4. d = sret(c) /\ pc' = c.sepc
  BY <1>1, <1>3 DEF Sret, SameTraps, U, S
<1>5. Installed(c) /\ c.sepc \in Main /\ fs = <<SavedByS(c)>>
  BY <1>1, <1>2, SameNested DEF InS, SameTraps
<1>6. frames' = <<>> /\ Last(frames) = SavedByS(c)
  BY <1>1, <1>5, Stacks DEF Pop
<1> HIDE DEF c, d, p, fs
<1>7. Keeps(c, d) /\ Frame(d, c.sepc) = SavedByS(c)
  BY <1>1, <1>4, LeaveS
<1>8. Installed(d) /\ Nested(d, c.sepc, <<>>)
  BY <1>5, <1>7, KeepsInstalled DEF Nested, InMain
<1> QED
  BY <1>1, <1>4, <1>6, <1>7, <1>8 DEF Nest, NestStep, Software, d

LEMMA MachineReturnNest ==
    ASSUME HartInv, Nest, MachineReturn
    PROVE  NestStep
<1> DEFINE c == SyncLines
           d == csr'
           p == pc
           fs == frames
<1>1. /\ c \in CsrFiles /\ SameTraps(csr, c) /\ program' = program /\ p = MReturn
      /\ Software.name # "guest" /\ Mret /\ Pop /\ MReturn \in MHandler
  BY SyncTraps DEF HartInv, MachineReturn, at, MHandler
<1>2. Installed(csr) /\ Nested(csr, p, fs)
  BY <1>1 DEF Nest
<1>3. Installed(c) /\ InM(c, p, fs)
  BY <1>1, <1>2, SameNested, LabelsDiffer DEF Nested, InMain, InS
<1>4. d = mret(c) /\ pc' = c.mepc
  BY <1>1, <1>3 DEF Mret, SameTraps, InM
<1>5. frames' = IF fs = <<>> THEN fs ELSE Front(fs)
  BY <1>1 DEF Pop
<1> HIDE DEF c, d, p, fs
<1>6. /\ Keeps(c, d) /\ Frame(d, c.mepc) = SavedByM(c) /\ d.priv = SavedMode(c)
      /\ d.sepc = c.sepc /\ SavedByS(d) = Below(c)
      /\ SIE \in d.mstatus <=> SIE \in c.mstatus
  BY <1>1, <1>4, LeaveM
<1>7. Installed(d)
  BY <1>3, <1>6, KeepsInstalled
<1>8. Nested(d, c.mepc, frames') /\ Last(fs) = SavedByM(c)
  <2>1. CASE c.mepc \in Main /\ fs = <<SavedByM(c)>>
    <3>1. frames' = <<>> /\ Last(fs) = SavedByM(c)
      BY <1>5, <2>1, Stacks
    <3> QED
      BY <2>1, <3>1 DEF Nested, InMain
  <2>2. CASE /\ c.mepc \in SHandler /\ SavedMode(c) = S /\ SIE \notin c.mstatus
             /\ c.sepc \in Main /\ fs = <<Below(c), SavedByM(c)>>
    <3>1. frames' = <<Below(c)>> /\ Last(fs) = SavedByM(c)
      BY <1>5, <2>2, Stacks
    <3> QED
      BY <1>6, <2>2, <3>1 DEF Nested, InS
  <2> QED
    BY <1>3, <2>1, <2>2 DEF InM
<1> QED
  BY <1>1, <1>4, <1>6, <1>7, <1>8 DEF Nest, NestStep, Software, d, fs

\* A guest has no frames.
LEMMA GuestNest ==
    ASSUME Nest, Software.name = "guest", program' = program, frames' = frames
    PROVE  NestStep
  BY DEF Nest, NestStep, Software

\* Every other instruction stays at its level.
LEMMA SameLevels ==
    ASSUME \/ BootStep \/ WaitForInterrupt \/ SupervisorLoads \/ SupervisorCommits
           \/ SupervisorStores \/ MachineRearm \/ PollControl
    PROVE  /\ csr' = SyncLines /\ SameLevel(pc, pc')
           /\ frames' = frames /\ program' = program
<1> USE DEF at, Main, SHandler, MHandler, SameLevel, historyVars
<1>1. CASE BootStep
  BY <1>1 DEF BootStep, Post
<1>2. CASE WaitForInterrupt
  BY <1>2 DEF WaitForInterrupt
<1>3. CASE SupervisorLoads
  BY <1>3 DEF SupervisorLoads, LoadAt
<1>4. CASE SupervisorCommits
  BY <1>4 DEF SupervisorCommits, CommitTo
<1>5. CASE SupervisorStores
  BY <1>5 DEF SupervisorStores, Post
<1>6. CASE MachineRearm
  BY <1>6 DEF MachineRearm, Post
<1>7. CASE PollControl
  BY <1>7 DEF PollControl, LoadAt, CommitTo
<1> QED
  BY <1>1, <1>2, <1>3, <1>4, <1>5, <1>6, <1>7

\* The level itself.
LEMMA LevelKept ==
    ASSUME Nest, pc' = pc, Software.name # "guest"
    PROVE  SameLevel(pc, pc')
  BY DEF Nest, Nested, InMain, InS, InM, SameLevel

LEMMA IdleNest ==
    ASSUME HartInv, Nest, csr' = SyncLines \/ csr' = csr, pc' = pc, frames' = frames,
           program' = program
    PROVE  NestStep
  BY GuestNest, LevelKept, PlainNest

LEMMA NestStepLemma ==
    ASSUME HartInv, Nest, [Next]_vars
    PROVE  NestStep
<1>1. CASE UNCHANGED vars
  <2>1. csr' = csr /\ pc' = pc /\ frames' = frames /\ program' = program
    BY <1>1 DEF vars, hartVars, historyVars
  <2> QED
    BY <2>1, IdleNest
<1>2. CASE PlicOutput \/ ClintOutput \/ Tick \/ RxMonitor \/ Drain \/ StdinByte
           \/ WfiCheck \/ FinishAccess
  <2>1. csr' = csr /\ pc' = pc /\ frames' = frames /\ program' = program
    BY <1>2 DEF PlicOutput, ClintOutput, Tick, RxMonitor, Drain, StdinByte, WfiCheck,
                FinishAccess, hartVars, historyVars
  <2> QED
    BY <2>1, IdleNest
<1>3. CASE Cycle
  <2>1. CASE Interrupt
    BY <2>1, InterruptNest
  <2>2. CASE Asleep
    <3>1. csr' = SyncLines /\ pc' = pc /\ frames' = frames /\ program' = program
      BY <2>2 DEF Asleep, historyVars
    <3> QED
      BY <3>1, IdleNest
  <2>3. CASE \/ BootStep \/ WaitForInterrupt \/ SupervisorLoads \/ SupervisorCommits
             \/ SupervisorStores \/ MachineRearm \/ PollControl
    BY <2>3, SameLevels, PlainNest
  <2>4. CASE GuestStep \/ GuestWfi \/ GuestStore
    <3>1. Software.name = "guest" /\ frames' = frames /\ program' = program
      BY <2>4 DEF GuestStep, GuestWfi, GuestStore, Guest, Post, historyVars
    <3> QED
      BY <3>1, GuestNest
  <2>5. CASE SupervisorReturn
    BY <2>5, SupervisorReturnNest
  <2>6. CASE MachineReturn
    BY <2>6, MachineReturnNest
  <2> QED
    BY <1>3, <2>1, <2>2, <2>3, <2>4, <2>5, <2>6 DEF Cycle, Instruction
<1> QED
  BY <1>1, <1>2, <1>3 DEF Next

LEMMA NestInit == Init => Nest
<1> SUFFICES ASSUME Init PROVE Nest
  OBVIOUS
<1>1. program \in DOMAIN Programs /\ csr = Software.csr /\ pc = Boot /\ frames = <<>>
  BY DEF Init
<1>2. Software.name # "guest" => Installed(csr)
  BY <1>1, HandlersAssumption DEF Software
<1>3. Nested(csr, pc, frames)
  BY <1>1 DEF Nested, InMain, Main
<1> QED
  BY <1>1, <1>2, <1>3 DEF Nest

\* mret and sret give back what the trap found, mode, enables and pc, for a machine
\* interrupt in the supervisor's handler and every other nesting: trap entry and trap
\* return in CSR_File.h are inverses, and no interrupt comes between them at the
\* level whose saved state it would overwrite.
THEOREM ReturnsRestoreHolds == Spec => ReturnsRestore
<1>1. HartInv /\ Nest /\ [Next]_vars => Nest'
  BY NestStepLemma DEF NestStep
<1>2. HartInv /\ Nest /\ [Next]_vars
        => [Len(frames') < Len(frames) => Frame(csr', pc') = Last(frames)]_vars
  BY NestStepLemma DEF NestStep
<1>3. HartInv /\ [Next]_vars => HartInv'
  BY HartInvStep
<1> QED
  BY <1>1, <1>2, <1>3, HartInvInit, NestInit, PTL DEF Spec, ReturnsRestore

-----------------------------------------------------------------------------
(* The timer *)

\* The signal of the CLINT is current when no event is pending.
SignalFresh(k) == ~k.event => (k.timer_irq <=> k.mtime >= k.mtimecmp)

\* A deadline travels to the CLINT in two halves.  What a store sets of it:
Part(x, h) == IF h = "low" THEN x % Half ELSE x \div Half
Sets(w, h) == w.dev = "clint" /\ w.reg \in {"mtimecmp", IF h = "low" THEN "mtimecmp_low"
                                                                    ELSE "mtimecmp_high"}
Sent(w, h) == IF w.reg = "mtimecmp" THEN Part(w.val, h) ELSE w.val

\* When the stores in q have reached a CLINT whose deadline is x, its half h is
\* that of the time d.
Follows(x, q, d, h) ==
    \/ \E i \in 1..Len(q) : /\ Sets(q[i], h) /\ Sent(q[i], h) = Part(d, h)
                            /\ \A j \in 1..Len(q) : j > i => ~Sets(q[j], h)
    \/ /\ \A i \in 1..Len(q) : ~Sets(q[i], h)
       /\ Part(x, h) = Part(d, h)

LEMMA PostOther ==
    ASSUME NEW x, NEW q \in Seq(DeviceStores), NEW d, NEW h, Follows(x, q, d, h),
           NEW w \in DeviceStores, ~Sets(w, h)
    PROVE  Follows(x, Append(q, w), d, h)
<1> DEFINE r == Append(q, w)
<1>1. /\ Len(r) = Len(q) + 1 /\ r[Len(q) + 1] = w /\ Len(q) \in Nat
      /\ \A i \in 1..Len(q) : r[i] = q[i]
  BY AppendProperties, LenProperties
<1> HIDE DEF r
<1>2. CASE \A i \in 1..Len(q) : ~Sets(q[i], h)
  <2>1. \A i \in 1..Len(r) : ~Sets(r[i], h)
    BY <1>1, <1>2
  <2>2. Part(x, h) = Part(d, h)
    BY <1>2 DEF Follows
  <2> QED
    BY <2>1, <2>2 DEF Follows, r
<1>3. ASSUME NEW i \in 1..Len(q), Sets(q[i], h), Sent(q[i], h) = Part(d, h),
             \A j \in 1..Len(q) : j > i => ~Sets(q[j], h)
      PROVE  Follows(x, r, d, h)
  <2>1. i \in 1..Len(r) /\ r[i] = q[i] /\ \A j \in 1..Len(r) : j > i => ~Sets(r[j], h)
    BY <1>1, <1>3
  <2> QED
    BY <1>3, <2>1 DEF Follows
<1> QED
  BY <1>2, <1>3 DEF Follows, r

LEMMA PostHalf ==
    ASSUME NEW x, NEW q \in Seq(DeviceStores), NEW d, NEW h,
           NEW w \in DeviceStores, Sets(w, h), Sent(w, h) = Part(d, h)
    PROVE  Follows(x, Append(q, w), d, h)
<1> DEFINE r == Append(q, w)
<1>1. Len(r) = Len(q) + 1 /\ r[Len(q) + 1] = w /\ Len(q) \in Nat
  BY AppendProperties, LenProperties
<1> HIDE DEF r
<1>2. Len(r) \in 1..Len(r) /\ r[Len(r)] = w /\ \A j \in 1..Len(r) : ~(j > Len(r))
  BY <1>1
<1> QED
  BY <1>2 DEF Follows, r

LEMMA DrainHalf ==
    ASSUME NEW x, NEW y, NEW q \in Seq(DeviceStores), q # <<>>, NEW d, NEW h,
           Follows(x, q, d, h),
           Part(y, h) = IF Sets(Head(q), h) THEN Sent(Head(q), h) ELSE Part(x, h)
    PROVE  Follows(y, Tail(q), d, h)
<1> DEFINE r == Tail(q)
<1>1. /\ Len(r) = Len(q) - 1 /\ Len(q) \in Nat \ {0} /\ Head(q) = q[1]
      /\ \A i \in 1..Len(r) : r[i] = q[i + 1]
  BY HeadTailProperties, LenProperties, EmptySeq
<1> HIDE DEF r
<1>2. CASE \A i \in 1..Len(q) : ~Sets(q[i], h)
  <2>1. 1 \in 1..Len(q) /\ \A i \in 1..Len(r) : i + 1 \in 1..Len(q)
    BY <1>1
  <2>2. \A i \in 1..Len(r) : ~Sets(r[i], h)
    BY <1>1, <1>2, <2>1
  <2>3. Part(y, h) = Part(d, h)
    BY <1>1, <1>2, <2>1 DEF Follows
  <2> QED
    BY <2>2, <2>3 DEF Follows, r
<1>3. ASSUME NEW i \in 1..Len(q), Sets(q[i], h), Sent(q[i], h) = Part(d, h),
             \A j \in 1..Len(q) : j > i => ~Sets(q[j], h)
      PROVE  Follows(y, r, d, h)
  <2>1. CASE i = 1
    <3>1. \A j \in 1..Len(r) : ~Sets(r[j], h)
      <4> SUFFICES ASSUME NEW j \in 1..Len(r) PROVE ~Sets(r[j], h)
        OBVIOUS
      <4>1. j + 1 \in 1..Len(q) /\ j + 1 > i /\ r[j] = q[j + 1]
        BY <1>1, <2>1
      <4> QED
        BY <1>3, <4>1
    <3>2. Part(y, h) = Part(d, h)
      BY <1>1, <1>3, <2>1
    <3> QED
      BY <3>1, <3>2 DEF Follows
  <2>2. CASE i # 1
    <3> DEFINE m == i - 1
    <3>1. m \in 1..Len(r) /\ r[m] = q[i]
      <4>1. m \in 1..Len(r) /\ m + 1 = i
        BY <1>1, <2>2
      <4> HIDE DEF m
      <4> QED
        BY <1>1, <4>1
    <3>2. \A j \in 1..Len(r) : j > m => ~Sets(r[j], h)
      <4> SUFFICES ASSUME NEW j \in 1..Len(r), j > m PROVE ~Sets(r[j], h)
        OBVIOUS
      <4>1. j + 1 \in 1..Len(q) /\ j + 1 > i /\ r[j] = q[j + 1]
        BY <1>1
      <4> QED
        BY <1>3, <4>1
    <3> HIDE DEF m
    <3> QED
      BY <1>3, <3>1, <3>2 DEF Follows
  <2> QED
    BY <2>1, <2>2
<1> QED
  BY <1>2, <1>3 DEF Follows, r

\* The halves of a deadline are its only parts.
LEMMA Parts ==
    ASSUME NEW x \in Times, NEW y \in Times, NEW v \in 0..(Half - 1)
    PROVE  /\ Part(x, "low") \in 0..(Half - 1) /\ Part(x, "high") \in 0..(Half - 1)
           /\ Part(low(x, v), "low") = v /\ Part(low(x, v), "high") = Part(x, "high")
           /\ Part(high(x, v), "high") = v /\ Part(high(x, v), "low") = Part(x, "low")
           /\ Part(x, "low") = Part(y, "low") /\ Part(x, "high") = Part(y, "high") => x = y
<1>0. Half \in Nat \ {0}
  BY HalfAssumption
<1>1. /\ x \div Half \in 0..(Half - 1) /\ x % Half \in 0..(Half - 1)
      /\ x = (x \div Half) * Half + (x % Half)
  BY Halves
<1>2. y = (y \div Half) * Half + (y % Half)
  BY Halves
<1>3. \A q \in Nat, r \in 0..(Half - 1) :
         (q * Half + r) % Half = r /\ (q * Half + r) \div Half = q
  BY <1>0
<1>4. (low(x, v) % Half) = v /\ (low(x, v) \div Half) = x \div Half
  BY <1>1, <1>3 DEF low
<1>5. (high(x, v) % Half) = x % Half /\ (high(x, v) \div Half) = v
  BY <1>1, <1>3 DEF high
<1> QED
  BY <1>1, <1>2, <1>4, <1>5 DEF Part

\* Processes of the CLINT keep its deadline and announce what they change.
LEMMA ClintProcesses ==
    ASSUME NEW k \in ClintStates, SignalFresh(k)
    PROVE  \A j \in {k, tick(k), update_irq_method(k), fast_forward_to_deadline(k)} :
               j.mtimecmp = k.mtimecmp /\ SignalFresh(j)
<1>1. tick(k).mtimecmp = k.mtimecmp /\ SignalFresh(tick(k))
  <2> DEFINE x == (k.mtime + 1) % (Half * Half)
  <2>1. tick(k) = [k EXCEPT !.mtime = x, !.event = TRUE]
    BY DEF tick
  <2> HIDE DEF x
  <2> QED
    BY <2>1 DEF ClintStates, SignalFresh
<1>2. update_irq_method(k).mtimecmp = k.mtimecmp /\ SignalFresh(update_irq_method(k))
  <2> DEFINE x == k.mtime >= k.mtimecmp
             j == update_irq_method(k)
  <2>1. j = [k EXCEPT !.timer_irq = x, !.event = FALSE]
    BY DEF update_irq_method
  <2> HIDE DEF x
  <2>2. j.timer_irq = x /\ j.mtime = k.mtime /\ j.mtimecmp = k.mtimecmp
    BY <2>1 DEF ClintStates
  <2> QED
    BY <2>2 DEF x, SignalFresh
<1>3. /\ fast_forward_to_deadline(k).mtimecmp = k.mtimecmp
      /\ SignalFresh(fast_forward_to_deadline(k))
  <2> DEFINE x == k.mtimecmp - 1
             w == [k EXCEPT !.mtime = x, !.event = TRUE]
  <2>1. fast_forward_to_deadline(k) \in {k, w}
    BY DEF fast_forward_to_deadline
  <2> HIDE DEF x
  <2>2. w.mtimecmp = k.mtimecmp /\ SignalFresh(w)
    BY DEF ClintStates, SignalFresh
  <2> QED
    BY <2>1, <2>2
<1> QED
  BY <1>1, <1>2, <1>3

\* A store that arrives sets the halves it carries.
LEMMA ClintStores ==
    ASSUME DevicesInv, SignalFresh(clint), NEW w \in DeviceStores, w.dev = "clint",
           write_clint(w), NEW h \in {"low", "high"}
    PROVE  /\ SignalFresh(clint')
           /\ Part(clint'.mtimecmp, h) = IF Sets(w, h) THEN Sent(w, h)
                                         ELSE Part(clint.mtimecmp, h)
<1> DEFINE k == clint
           j == clint'
           x == k.mtimecmp
           v == w.val
<1>0. k \in ClintStates /\ x \in Times /\ SignalFresh(k)
  BY DEF DevicesInv, ClintStates
<1>1. \A y : write_mtimecmp(k, y).mtimecmp = y /\ SignalFresh(write_mtimecmp(k, y))
  BY <1>0 DEF write_mtimecmp, ClintStates, SignalFresh
<1>2. \A y : write_mtime(k, y).mtimecmp = x /\ SignalFresh(write_mtime(k, y))
  BY <1>0 DEF write_mtime, ClintStates, SignalFresh
<1>3. \A y : write_msip(k, y).mtimecmp = x /\ SignalFresh(write_msip(k, y))
  BY <1>0 DEF write_msip, ClintStates, SignalFresh
<1>4. CASE w.reg = "mtimecmp"
  <2>1. j = write_mtimecmp(k, v)
    BY <1>4 DEF write_clint
  <2> QED
    BY <1>1, <1>4, <2>1 DEF Sets, Sent
<1>5. CASE w.reg = "mtimecmp_low"
  <2>1. j = write_mtimecmp(k, low(x, v)) /\ v \in 0..(Half - 1)
    BY <1>5, StoreKinds DEF write_clint, write_mtimecmp_low
  <2>2. Part(low(x, v), "low") = v /\ Part(low(x, v), "high") = Part(x, "high")
    BY <1>0, <2>1, Parts
  <2> HIDE DEF k, j, x, v
  <2>3. j.mtimecmp = low(x, v) /\ SignalFresh(j)
    BY <1>1, <2>1
  <2>4. Sets(w, h) <=> h = "low"
    BY <1>5 DEF Sets
  <2>5. Sent(w, h) = v
    BY <1>5 DEF Sent, v
  <2>6. Part(j.mtimecmp, h) = IF Sets(w, h) THEN Sent(w, h) ELSE Part(x, h)
    BY <2>2, <2>3, <2>4, <2>5
  <2> QED
    BY <2>3, <2>6 DEF j, x, k
<1>6. CASE w.reg = "mtimecmp_high"
  <2>1. j = write_mtimecmp(k, high(x, v)) /\ v \in 0..(Half - 1)
    BY <1>6, StoreKinds DEF write_clint, write_mtimecmp_high
  <2>2. Part(high(x, v), "high") = v /\ Part(high(x, v), "low") = Part(x, "low")
    BY <1>0, <2>1, Parts
  <2> HIDE DEF k, j, x, v
  <2>3. j.mtimecmp = high(x, v) /\ SignalFresh(j)
    BY <1>1, <2>1
  <2>4. Sets(w, h) <=> h = "high"
    BY <1>6 DEF Sets
  <2>5. Sent(w, h) = v
    BY <1>6 DEF Sent, v
  <2>6. Part(j.mtimecmp, h) = IF Sets(w, h) THEN Sent(w, h) ELSE Part(x, h)
    BY <2>2, <2>3, <2>4, <2>5
  <2> QED
    BY <2>3, <2>6 DEF j, x, k
<1>7. CASE w.reg \in {"mtime", "mtime_low", "mtime_high", "msip"}
  <2>1. \E y : j = write_mtime(k, y) \/ j = write_msip(k, y)
    BY <1>7 DEF write_clint, write_mtime_low, write_mtime_high
  <2>2. ~Sets(w, h)
    BY <1>7 DEF Sets
  <2> HIDE DEF k, j, x
  <2>3. j.mtimecmp = x /\ SignalFresh(j)
    BY <1>2, <1>3, <2>1
  <2> QED
    BY <2>2, <2>3 DEF j, x, k
<1> QED
  BY <1>4, <1>5, <1>6, <1>7, StoreKinds

-----------------------------------------------------------------------------

\* The inductive invariant: the signal is current, and the deadline in the CLINT,
\* once the buffered stores have arrived, is the one software asked for, but for
\* the halves the machine's handler has yet to send.
TimerInv ==
    /\ SignalFresh(clint)
    /\ Software.name # "guest" =>
         /\ todo \in Seq(BootStores)
         /\ pc # RearmHigh => Follows(clint.mtimecmp, posted, deadline, "high")
         /\ pc \notin {RearmHigh, RearmLow} =>
              Follows(clint.mtimecmp, posted, deadline, "low")

LEMMA TimerInit == Init => TimerInv
<1> SUFFICES ASSUME Init PROVE TimerInv
  OBVIOUS
<1>1. program \in DOMAIN Programs /\ todo \in Software.boots /\ posted = <<>>
      /\ clint = ResetClint /\ deadline = Never
  BY DEF Init
<1>2. Software.name # "guest" => todo \in Seq(BootStores)
  BY <1>1, HandlersAssumption DEF Software
<1>3. Never > 0 /\ Never \in Nat
  BY HalfAssumption DEF Never
<1>4. clint.timer_irq = FALSE /\ clint.mtime = 0 /\ clint.mtimecmp = Never
  BY <1>1 DEF ResetClint
<1>5. SignalFresh(clint)
  BY <1>3, <1>4 DEF SignalFresh
<1>6. \A h : Follows(clint.mtimecmp, posted, deadline, h)
  BY <1>1, <1>4 DEF Follows
<1> QED
  BY <1>2, <1>5, <1>6 DEF TimerInv

LEMMA TimerDrain ==
    ASSUME PlatformInv, TimerInv, Drain
    PROVE  TimerInv'
<1> DEFINE w == Head(posted)
<1>1. /\ posted # <<>> /\ posted' = Tail(posted) /\ posted \in Seq(DeviceStores)
      /\ todo' = todo /\ deadline' = deadline /\ pc' = pc /\ program' = program
      /\ DevicesInv /\ SignalFresh(clint)
  BY DEF PlatformInv, BusInv, Drain, historyVars, hartVars, TimerInv
<1>2. w \in DeviceStores
  BY <1>1
<1>3. /\ SignalFresh(clint')
      /\ \A h \in {"low", "high"} :
           Part(clint'.mtimecmp, h) = IF Sets(w, h) THEN Sent(w, h) ELSE Part(clint.mtimecmp, h)
  <2> HIDE DEF w
  <2>1. CASE w.dev = "clint"
    <3>1. write_clint(w)
      BY <2>1 DEF Drain, w
    <3> QED
      BY <1>1, <1>2, <2>1, <3>1, ClintStores
  <2>2. CASE w.dev # "clint"
    <3>1. clint' = clint
      BY <1>2, <2>2, StoreKinds
         DEF Drain, w, write_plic, write_uart, write_dma, write_memory
    <3>2. \A h : ~Sets(w, h)
      BY <2>2 DEF Sets
    <3> QED
      BY <1>1, <3>1, <3>2
  <2> QED
    BY <2>1, <2>2
<1>4. \A h \in {"low", "high"} : Follows(clint.mtimecmp, posted, deadline, h)
                                   => Follows(clint'.mtimecmp, posted', deadline', h)
  BY <1>1, <1>3, DrainHalf
<1> QED
  BY <1>1, <1>3, <1>4 DEF TimerInv, Software

\* Steps that neither post nor set a deadline.
LEMMA TimerQuiet ==
    ASSUME PlatformInv, TimerInv, program' = program, todo' = todo, posted' = posted,
           deadline' = deadline,
           \/ pc' = pc
           \/ Software.name # "guest" => pc \notin {RearmHigh, RearmLow}
                                           /\ pc' \notin {RearmHigh, RearmLow},
           clint' \in {clint, tick(clint), update_irq_method(clint),
                       fast_forward_to_deadline(clint)}
    PROVE  TimerInv'
<1>1. clint \in ClintStates /\ SignalFresh(clint)
  BY DEF PlatformInv, DevicesInv, TimerInv
<1>2. clint'.mtimecmp = clint.mtimecmp /\ SignalFresh(clint')
  BY <1>1, ClintProcesses
<1> QED
  BY <1>2 DEF TimerInv, Software

\* A store that is posted.
LEMMA TimerPost ==
    ASSUME PlatformInv, TimerInv, NEW w \in DeviceStores, NEW next, Post(w, next)
    PROVE  /\ SignalFresh(clint') /\ clint' = clint /\ program' = program /\ pc' = next
           /\ \A h \in {"low", "high"} :
                \/ Sets(w, h) /\ Sent(w, h) = Part(deadline', h)
                \/ ~Sets(w, h) /\ deadline' = deadline
                     /\ Follows(clint.mtimecmp, posted, deadline, h)
                => Follows(clint'.mtimecmp, posted', deadline', h)
<1>1. /\ SignalFresh(clint) /\ clint' = clint /\ program' = program /\ pc' = next
      /\ posted' = Append(posted, w) /\ posted \in Seq(DeviceStores)
  BY DEF TimerInv, Post, deviceVars, PlatformInv, BusInv
<1>2. ASSUME NEW h \in {"low", "high"}, Sets(w, h), Sent(w, h) = Part(deadline', h)
      PROVE  Follows(clint'.mtimecmp, posted', deadline', h)
  BY <1>1, <1>2, PostHalf
<1>3. ASSUME NEW h \in {"low", "high"}, ~Sets(w, h), deadline' = deadline,
             Follows(clint.mtimecmp, posted, deadline, h)
      PROVE  Follows(clint'.mtimecmp, posted', deadline', h)
  BY <1>1, <1>3, PostOther
<1> QED
  BY <1>1, <1>2, <1>3

\* Labels of the machine's handler.
LEMMA RearmLabels ==
    /\ RearmHigh # RearmLow /\ Rearm \notin {RearmHigh, RearmLow}
    /\ MReturn \notin {RearmHigh, RearmLow}
    /\ \A x \in Main \cup SHandler : x \notin {RearmHigh, RearmLow}
<1>1. \A x, y : {x} = {y} => x = y
  OBVIOUS
<1>2. RearmHigh # RearmLow /\ Rearm \notin {RearmHigh, RearmLow}
      /\ MReturn \notin {RearmHigh, RearmLow}
  BY <1>1 DEF Rearm, RearmHigh, RearmLow, MReturn
<1>3. RearmHigh \in MHandler /\ RearmLow \in MHandler
  BY DEF MHandler
<1> QED
  BY <1>2, <1>3, LabelsDiffer

LEMMA TimerBoot ==
    ASSUME PlatformInv, TimerInv, BootStep
    PROVE  TimerInv'
<1>1. Software.name # "guest" /\ pc = Boot /\ Boot \in Main /\ Idle \in Main /\ Poll \in Main
      /\ pc \notin {RearmHigh, RearmLow}
  BY RearmLabels DEF BootStep, at, Main
<1>2. CASE todo # <<>> /\ Post(Head(todo), Boot)
  <2> DEFINE w == Head(todo)
  <2>1. /\ w \in BootStores /\ todo' = Tail(todo) /\ Tail(todo) \in Seq(BootStores)
        /\ deadline' = IF w.reg = "mtimecmp" THEN w.val ELSE deadline
    BY <1>1, <1>2 DEF TimerInv, BootStep
  <2>2. /\ w \in DeviceStores /\ w.reg \notin {"mtimecmp_low", "mtimecmp_high"}
        /\ w.reg = "mtimecmp" => w.dev = "clint"
    BY <2>1 DEF BootStores, DeviceStores
  <2>3. Post(w, Boot)
    BY <1>2
  <2> HIDE DEF w
  <2>4. \A h \in {"low", "high"} :
           \/ Sets(w, h) /\ Sent(w, h) = Part(deadline', h)
           \/ ~Sets(w, h) /\ deadline' = deadline
    BY <2>1, <2>2 DEF Sets, Sent
  <2>5. \A h \in {"low", "high"} : Follows(clint.mtimecmp, posted, deadline, h)
    BY <1>1 DEF TimerInv
  <2>6. /\ SignalFresh(clint') /\ program' = program
        /\ \A h \in {"low", "high"} : Follows(clint'.mtimecmp, posted', deadline', h)
    BY <2>2, <2>3, <2>4, <2>5, TimerPost
  <2> QED
    BY <2>1, <2>6 DEF TimerInv
<1>3. CASE todo = <<>>
  <2>1. /\ program' = program /\ todo' = todo /\ posted' = posted /\ deadline' = deadline
        /\ pc' \in Main /\ clint' = clint
    BY <1>1, <1>3 DEF BootStep, busVars, deviceVars
  <2> QED
    BY <1>1, <2>1, RearmLabels, TimerQuiet
<1> QED
  BY <1>2, <1>3 DEF BootStep

LEMMA TimerSupervisor ==
    ASSUME PlatformInv, TimerInv, SupervisorStores
    PROVE  TimerInv'
<1> DEFINE x == IF uart.sent < Software.sends THEN Store("uart", "THR", SENT_CHAR)
                ELSE Store("uart", "IER", uart.ier \ {THRI})
           y == Store("plic", "claim", UART_SOURCE)
<1>1. x \in DeviceStores /\ y \in DeviceStores
  <2>1. uart.ier \ {THRI} \in SUBSET {RDA, THRI}
    BY DEF PlatformInv, DevicesInv, UartStates
  <2> QED
    BY <2>1 DEF Store, DeviceStores, UART_SOURCE
<1>2. \A h : ~Sets(x, h) /\ ~Sets(y, h)
  BY DEF Sets, Store
<1> HIDE DEF x, y
<1>3. /\ Post(x, Identify) \/ Post(y, SReturn)
      /\ Software.name # "guest" /\ pc \in SHandler /\ Identify \in SHandler
      /\ SReturn \in SHandler /\ deadline' = deadline /\ todo' = todo
  BY DEF SupervisorStores, x, y, at, SHandler, historyVars
<1>4. pc \notin {RearmHigh, RearmLow}
  BY <1>3, RearmLabels
<1>5. \A h \in {"low", "high"} : Follows(clint.mtimecmp, posted, deadline, h)
  BY <1>3, <1>4 DEF TimerInv
<1>6. /\ SignalFresh(clint') /\ program' = program
      /\ \A h \in {"low", "high"} : Follows(clint'.mtimecmp, posted', deadline', h)
  BY <1>1, <1>2, <1>3, <1>5, TimerPost
<1> QED
  BY <1>3, <1>6 DEF TimerInv, Software

LEMMA TimerRearm ==
    ASSUME PlatformInv, TimerInv, MachineRearm
    PROVE  TimerInv'
<1> DEFINE x == Store("clint", "mtimecmp_low", Half - 1)
           y == Store("clint", "mtimecmp_high", deadline \div Half)
           z == Store("clint", "mtimecmp_low", deadline % Half)
<1>1. x \in DeviceStores /\ y \in DeviceStores /\ z \in DeviceStores
  <2>1. Half - 1 \in 0..(Half - 1)
    BY HalfAssumption
  <2>2. deadline \div Half \in 0..(Half - 1) /\ deadline % Half \in 0..(Half - 1)
    BY <2>1, Halves DEF PlatformInv, BusInv
  <2> DEFINE a == Half - 1
             b == deadline \div Half
             c == deadline % Half
  <2> HIDE DEF a, b, c
  <2>3. a \in 0..(Half - 1) /\ b \in 0..(Half - 1) /\ c \in 0..(Half - 1)
    BY <2>1, <2>2 DEF a, b, c
  <2>4. /\ Store("clint", "mtimecmp_low", a) \in DeviceStores
        /\ Store("clint", "mtimecmp_high", b) \in DeviceStores
        /\ Store("clint", "mtimecmp_low", c) \in DeviceStores
    BY <2>3 DEF Store, DeviceStores
  <2> QED
    BY <2>4 DEF a, b, c
<1>2. Sets(y, "high") /\ Sent(y, "high") = Part(deadline, "high") /\ ~Sets(y, "low")
  BY DEF Sets, Sent, Part, Store
<1>3. Sets(z, "low") /\ Sent(z, "low") = Part(deadline, "low") /\ ~Sets(z, "high")
  BY DEF Sets, Sent, Part, Store
<1> HIDE DEF x, y, z
<1>4. Software.name # "guest" /\ todo' = todo
  BY DEF MachineRearm, at, historyVars
<1>5. CASE pc = Rearm /\ Post(x, RearmHigh)
  <2>1. SignalFresh(clint') /\ program' = program /\ pc' = RearmHigh
    BY <1>1, <1>5, TimerPost
  <2> QED
    BY <1>4, <2>1 DEF TimerInv, Software
<1>6. CASE pc = RearmHigh /\ Post(y, RearmLow) /\ deadline' = deadline
  <2>1. /\ SignalFresh(clint') /\ program' = program /\ pc' = RearmLow
        /\ Follows(clint'.mtimecmp, posted', deadline', "high")
    BY <1>1, <1>2, <1>6, TimerPost
  <2> QED
    BY <1>4, <2>1 DEF TimerInv, Software
<1>7. CASE pc = RearmLow /\ Post(z, MReturn) /\ deadline' = deadline
  <2>1. Follows(clint.mtimecmp, posted, deadline, "high")
    BY <1>4, <1>7, RearmLabels DEF TimerInv
  <2>2. /\ SignalFresh(clint') /\ program' = program
        /\ Follows(clint'.mtimecmp, posted', deadline', "high")
        /\ Follows(clint'.mtimecmp, posted', deadline', "low")
    BY <1>1, <1>3, <1>7, <2>1, TimerPost
  <2> QED
    BY <1>4, <2>2 DEF TimerInv, Software
<1> QED
  BY <1>5, <1>6, <1>7 DEF MachineRearm, at, x, y, z, historyVars

\* An interrupt never comes between the halves: machine mode has them off.
LEMMA InterruptLevel ==
    ASSUME HartInv, Nest, Interrupt, Software.name # "guest"
    PROVE  pc \notin {RearmHigh, RearmLow} /\ pc' \in {Rearm, Claim}
<1> DEFINE c == SyncLines
           cause == [interrupt |-> TRUE, code |-> pending_interrupt(c)]
<1>1. /\ c \in CsrFiles /\ SameTraps(csr, c) /\ Installed(csr) /\ Nested(csr, pc, frames)
      /\ csr' = take_interrupt(c, pending_interrupt(c), pc) /\ pc' = TrapTarget(csr')
      /\ pending_interrupt(c) >= 0
  BY SyncTraps DEF HartInv, Interrupt, Nest
<1>2. Installed(c) /\ Nested(c, pc, frames)
  BY <1>1, SameNested
<1>3. \/ m_enabled(c) /\ c.mie \ c.mideleg # {} /\ csr' = trap_to_M(c, cause, pc)
      \/ s_enabled(c) /\ c.mie \cap c.mideleg # {} /\ csr' = trap_to_S(c, cause, pc)
  BY <1>1, InterruptTaken
<1> HIDE DEF c, cause
<1>4. ~InM(c, pc, frames)
  BY <1>3 DEF InM, m_enabled, s_enabled, U, S, M
<1>5. pc \in Main \cup SHandler
  BY <1>2, <1>4 DEF Nested, InMain, InS
<1>6. CASE m_enabled(c) /\ c.mie \ c.mideleg # {} /\ csr' = trap_to_M(c, cause, pc)
  <2>1. Keeps(c, csr') /\ csr'.priv = M
    BY <1>1, <1>6, EnterM
  <2>2. TrapTarget(csr') = Rearm
    BY <1>2, <1>6, <2>1 DEF Keeps, Installed, TrapTarget, S, M
  <2> QED
    BY <1>1, <1>5, <2>2, RearmLabels
<1>7. CASE s_enabled(c) /\ c.mie \cap c.mideleg # {} /\ csr' = trap_to_S(c, cause, pc)
  <2>1. Keeps(c, csr') /\ csr'.priv = S
    BY <1>1, <1>7, EnterS
  <2>2. TrapTarget(csr') = Claim
    BY <1>2, <1>7, <2>1 DEF Keeps, Installed, TrapTarget, S, M
  <2> QED
    BY <1>1, <1>5, <2>2, RearmLabels
<1> QED
  BY <1>3, <1>6, <1>7

\* Neither does a return end between them.
LEMMA ReturnLevel ==
    ASSUME HartInv, Nest, SupervisorReturn \/ MachineReturn
    PROVE  pc \notin {RearmHigh, RearmLow} /\ pc' \in Main \cup SHandler
<1>1. CASE SupervisorReturn
  <2>1. /\ pc = SReturn /\ SReturn \in SHandler /\ Software.name # "guest" /\ Sret
        /\ Installed(csr) /\ Nested(csr, pc, frames)
    BY <1>1 DEF SupervisorReturn, at, SHandler, Nest
  <2>2. csr.priv = S /\ TSR \notin csr.mstatus /\ csr.sepc \in Main
    BY <2>1, LabelsDiffer DEF Nested, InMain, InS, InM, Installed
  <2>3. pc' = csr.sepc
    BY <2>1, <2>2 DEF Sret, U, S
  <2> QED
    BY <2>1, <2>2, <2>3, RearmLabels
<1>2. CASE MachineReturn
  <2>1. /\ pc = MReturn /\ MReturn \in MHandler /\ Software.name # "guest" /\ Mret
        /\ Nested(csr, pc, frames)
    BY <1>2 DEF MachineReturn, at, MHandler, Nest
  <2>2. csr.priv = M /\ csr.mepc \in Main \cup SHandler
    BY <2>1, LabelsDiffer DEF Nested, InMain, InS, InM
  <2>3. pc' = csr.mepc
    BY <2>1, <2>2 DEF Mret
  <2> QED
    BY <2>1, <2>2, <2>3, RearmLabels
<1> QED
  BY <1>1, <1>2

LEMMA TimerStep ==
    ASSUME PlatformInv, Nest, TimerInv, [Next]_vars
    PROVE  TimerInv'
<1>0. HartInv
  BY DEF PlatformInv
<1>1. CASE UNCHANGED vars
  <2>1. /\ program' = program /\ todo' = todo /\ posted' = posted /\ deadline' = deadline
        /\ pc' = pc /\ clint' = clint
    BY <1>1 DEF vars, hartVars, busVars, deviceVars, historyVars
  <2> QED
    BY <2>1, TimerQuiet
<1>2. CASE PlicOutput \/ ClintOutput \/ Tick \/ RxMonitor \/ StdinByte \/ WfiCheck
           \/ FinishAccess
  <2>1. /\ program' = program /\ todo' = todo /\ posted' = posted /\ deadline' = deadline
        /\ pc' = pc /\ clint' \in {clint, tick(clint), update_irq_method(clint),
                                   fast_forward_to_deadline(clint)}
    BY <1>2 DEF PlicOutput, ClintOutput, Tick, RxMonitor, StdinByte, WfiCheck, FinishAccess,
                hartVars, busVars, historyVars
  <2> QED
    BY <2>1, TimerQuiet
<1>3. CASE Drain
  BY <1>3, TimerDrain
<1>4. CASE Cycle
  <2>1. CASE BootStep
    BY <2>1, TimerBoot
  <2>2. CASE SupervisorStores
    BY <2>2, TimerSupervisor
  <2>3. CASE MachineRearm
    BY <2>3, TimerRearm
  <2>4. CASE GuestStore
    <3>1. \E w \in DeviceStores : Post(w, pc)
      BY <1>0, <2>4, ProgramsAssumption DEF GuestStore, HartInv, Software
    <3>2. SignalFresh(clint') /\ program' = program
      BY <3>1, TimerPost
    <3>3. Software.name = "guest"
      BY <2>4 DEF GuestStore, Guest
    <3> QED
      BY <3>2, <3>3 DEF TimerInv, Software
  <2>5. CASE \/ Interrupt \/ Asleep \/ WaitForInterrupt \/ SupervisorLoads \/ SupervisorCommits
             \/ SupervisorReturn \/ MachineReturn \/ PollControl \/ GuestStep \/ GuestWfi
    <3>1. /\ program' = program /\ todo' = todo /\ posted' = posted /\ deadline' = deadline
          /\ clint' = clint
      BY <2>5 DEF Interrupt, Asleep, WaitForInterrupt, SupervisorLoads, LoadAt, read_claim,
                  FromBuffer, begin_IIR, read_RBR, SupervisorCommits, CommitTo,
                  SupervisorReturn, MachineReturn, PollControl, read_control, GuestStep,
                  GuestWfi, busVars, historyVars, deviceVars
    <3>2. \/ pc' = pc
          \/ Software.name # "guest" => pc \notin {RearmHigh, RearmLow}
                                          /\ pc' \notin {RearmHigh, RearmLow}
      <4>1. CASE Interrupt
        <5>1. Claim \in SHandler
          BY DEF SHandler
        <5> QED
          BY <1>0, <4>1, <5>1, InterruptLevel, RearmLabels
      <4>2. CASE SupervisorReturn \/ MachineReturn
        BY <1>0, <4>2, ReturnLevel, RearmLabels
      <4>3. CASE SupervisorCommits \/ PollControl
        <5>1. pc' = pc \/ (pc \in Main \cup SHandler /\ pc' \in Main \cup SHandler)
          BY <4>3 DEF SupervisorCommits, PollControl, LoadAt, CommitTo, at, Main, SHandler
        <5> QED
          BY <5>1, RearmLabels
      <4>4. CASE Asleep \/ WaitForInterrupt \/ SupervisorLoads
        BY <4>4 DEF Asleep, WaitForInterrupt, SupervisorLoads, LoadAt
      <4>5. CASE GuestStep \/ GuestWfi
        BY <4>5 DEF GuestStep, GuestWfi, Guest
      <4> QED
        BY <2>5, <4>1, <4>2, <4>3, <4>4, <4>5
    <3> QED
      BY <3>1, <3>2, TimerQuiet
  <2> QED
    BY <1>4, <2>1, <2>2, <2>3, <2>4, <2>5 DEF Cycle, Instruction
<1> QED
  BY <1>1, <1>2, <1>3, <1>4 DEF Next

\* Only interrupts add a frame.
LEMMA OnlyInterruptsPush ==
    ASSUME Nest, [Next]_vars, Len(frames') > Len(frames)
    PROVE  Interrupt /\ Settled /\ Software.name # "guest"
<1>1. Len(frames) \in Nat
  BY NestFrames
<1>2. frames' # frames
  BY <1>1
<1>3. ~Pop
  <2> SUFFICES ASSUME Pop PROVE FALSE
    OBVIOUS
  <2>1. frames # <<>> /\ frames' = Front(frames)
    BY <1>2 DEF Pop
  <2>2. \E x : frames = <<x>> \/ \E y : frames = <<x, y>>
    BY <2>1 DEF Nest, Nested, InMain, InS, InM
  <2>3. PICK x : frames = <<x>> \/ \E y : frames = <<x, y>>
    BY <2>2
  <2>4. CASE frames = <<x>>
    <3>1. Len(frames) = 1 /\ frames' = <<>>
      BY <2>1, <2>4, Stacks
    <3> QED
      BY <3>1
  <2>5. CASE \E y : frames = <<x, y>>
    <3>1. PICK y : frames = <<x, y>>
      BY <2>5
    <3>2. Front(<<x, y>>) = <<x>>
      BY Stacks
    <3>3. Len(frames) = 2 /\ frames' = <<x>>
      BY <2>1, <3>1, <3>2
    <3> QED
      BY <3>3
  <2> QED
    BY <2>3, <2>4, <2>5
<1>4. CASE UNCHANGED vars
  BY <1>2, <1>4 DEF vars, historyVars
<1>5. CASE Next
  <2>1. Cycle
    BY <1>2, <1>5 DEF Next, PlicOutput, ClintOutput, Tick, RxMonitor, Drain, StdinByte,
                      WfiCheck, FinishAccess, historyVars
  <2>2. Interrupt
    BY <1>2, <1>3, <2>1 DEF Cycle, Asleep, Instruction, BootStep, WaitForInterrupt,
       SupervisorLoads, LoadAt, SupervisorCommits, CommitTo, SupervisorStores,
       SupervisorReturn, MachineRearm, MachineReturn, PollControl, GuestStep, GuestWfi,
       GuestStore, historyVars
  <2>3. Software.name # "guest"
    BY <1>2, <2>2 DEF Interrupt, Push, TracksFrames
  <2> QED
    BY <2>1, <2>2, <2>3 DEF Cycle
<1> QED
  BY <1>4, <1>5

\* What a timer trap saw.
LEMMA TimerTrapSignal ==
    ASSUME HartInv, Interrupt, csr'.priv = M,
           csr'.mcause = [interrupt |-> TRUE, code |-> 7]
    PROVE  clint.timer_irq
<1> DEFINE c == SyncLines
           code == pending_interrupt(c)
           cause == [interrupt |-> TRUE, code |-> code]
<1>1. c \in CsrFiles /\ csr' = take_interrupt(c, code, pc) /\ code >= 0
  BY SyncTraps DEF HartInv, Interrupt
<1>2. /\ code \in c.mip
      /\ csr' = trap_to_M(c, cause, pc) \/ csr' = trap_to_S(c, cause, pc)
  BY <1>1, InterruptTaken
<1>3. c.mip = (csr.mip \ {3, 7, 9}) \cup Lines
  <2> DEFINE ip == (csr.mip \ {3, 7, 9}) \cup Lines
  <2>1. c = [csr EXCEPT !.mip = ip] /\ csr \in CsrFiles
    BY DEF SyncLines, HartInv, CsrTypes
  <2> HIDE DEF ip
  <2>2. c.mip = ip
    BY <2>1 DEF CsrFiles
  <2> QED
    BY <2>2 DEF ip
<1> HIDE DEF c, code, cause
<1>4. csr' = trap_to_M(c, cause, pc)
  <2>1. ~(csr' = trap_to_S(c, cause, pc))
    BY <1>1, EnterS DEF S, M
  <2> QED
    BY <1>2, <2>1
<1>5. csr'.mcause = cause
  <2> DEFINE t == (Stacked(c.mstatus, MIE, MPIE) \ MPP) \cup PrivBits(c.priv)
  <2>1. csr' = [c EXCEPT !.mcause = cause, !.mepc = pc, !.priv = M, !.mstatus = t]
    BY <1>4 DEF trap_to_M
  <2> HIDE DEF t
  <2> QED
    BY <1>1, <2>1 DEF CsrFiles
<1>6. code = 7
  BY <1>5 DEF cause
<1>7. 7 \in Lines
  BY <1>2, <1>3, <1>6
<1> QED
  BY <1>7 DEF Lines

LEMMA NoTrapEarly ==
    ASSUME PlatformInv, Nest, TimerInv, [Next]_vars, TimerTrap
    PROVE  clint.mtime >= deadline \/ \E i \in DOMAIN posted : posted[i].dev = "clint"
<1>1. Interrupt /\ Settled /\ Software.name # "guest" /\ HartInv
  BY OnlyInterruptsPush DEF TimerTrap, PlatformInv
<1>2. clint.timer_irq /\ pc \notin {RearmHigh, RearmLow}
  BY <1>1, TimerTrapSignal, InterruptLevel DEF TimerTrap
<1>3. clint.mtime >= clint.mtimecmp
  BY <1>1, <1>2 DEF TimerInv, SignalFresh, Settled
<1>4. \A h \in {"low", "high"} : Follows(clint.mtimecmp, posted, deadline, h)
  BY <1>1, <1>2 DEF TimerInv
<1>5. posted \in Seq(DeviceStores) /\ DOMAIN posted = 1..Len(posted)
      /\ deadline \in Times /\ clint.mtimecmp \in Times
  BY DEF PlatformInv, BusInv, DevicesInv, ClintStates
<1>6. SUFFICES ASSUME \A i \in 1..Len(posted) : posted[i].dev # "clint"
               PROVE  clint.mtimecmp = deadline
  BY <1>3, <1>5
<1>7. \A h \in {"low", "high"} : Part(clint.mtimecmp, h) = Part(deadline, h)
  BY <1>4, <1>6 DEF Follows, Sets
<1>8. 0 \in 0..(Half - 1)
  BY HalfAssumption
<1> QED
  BY <1>5, <1>7, <1>8, Parts

LEMMA PlatformNests == Spec => [](PlatformInv /\ Nest /\ TimerInv)
<1>1. Init => PlatformInv /\ Nest /\ TimerInv
  BY PlatformInvInit, NestInit, TimerInit
<1>2. PlatformInv /\ Nest /\ TimerInv /\ [Next]_vars => (PlatformInv /\ Nest /\ TimerInv)'
  <2> SUFFICES ASSUME PlatformInv, Nest, TimerInv, [Next]_vars
               PROVE  PlatformInv' /\ Nest' /\ TimerInv'
    OBVIOUS
  <2>1. PlatformInv'
    BY PlatformInvStep
  <2>2. Nest'
    BY NestStepLemma DEF NestStep, PlatformInv
  <2>3. TimerInv'
    BY TimerStep
  <2> QED
    BY <2>1, <2>2, <2>3
<1> QED
  BY <1>1, <1>2, PTL DEF Spec

\* No timer interrupt comes before the time software asked for, though it stores the
\* deadline in halves through a store buffer: once the buffer is empty mtimecmp holds
\* both halves, for the handler that stores them cannot be interrupted, and the
\* signal is recomputed after every store (CLINT.h, update_irq_method).
THEOREM NoEarlyTimerHolds == Spec => NoEarlyTimer
<1>1. PlatformInv /\ Nest /\ TimerInv /\ [Next]_vars =>
        [TimerTrap => \/ clint.mtime >= deadline
                      \/ \E i \in DOMAIN posted : posted[i].dev = "clint"]_vars
  BY NoTrapEarly
<1> QED
  BY <1>1, PlatformNests, PTL DEF Spec, NoEarlyTimer

-----------------------------------------------------------------------------
(* The console *)

\* Bytes that were typed come in their order.
Real(b) == b \notin {0, SENT_CHAR}
Before(x, y) == Real(x) /\ Real(y) => x < y

\* Software has the bytes g and is about to commit those of F; q is in the FIFO; all
\* of them were among the first t.
Ordered(g, F, q, t) ==
    /\ \A i, j \in 1..Len(g) : i < j => Before(g[i], g[j])
    /\ \A i, j \in 1..Len(q) : i < j => Before(q[i], q[j])
    /\ \A i \in 1..Len(g), j \in 1..Len(q) : Before(g[i], q[j])
    /\ \A i \in 1..Len(g), v \in F : Before(g[i], v)
    /\ \A v \in F, j \in 1..Len(q) : Before(v, q[j])
    /\ \A i \in 1..Len(g) : Real(g[i]) => g[i] <= t
    /\ \A j \in 1..Len(q) : Real(q[j]) => q[j] <= t
    /\ \A v \in F : Real(v) => v <= t

LEMMA OrderedPush ==
    ASSUME NEW g \in Seq(Nat), NEW F \in SUBSET Nat, NEW q \in Seq(Nat), NEW t \in Nat,
           Ordered(g, F, q, t)
    PROVE  Ordered(g, F, q, t + 1) /\ Ordered(g, F, Append(q, t + 1), t + 1)
<1> DEFINE r == Append(q, t + 1)
<1>0. t + 1 \in Nat /\ \A x \in Nat : x <= t => x < t + 1 /\ x <= t + 1
  OBVIOUS
<1>1. /\ Len(r) = Len(q) + 1 /\ r[Len(q) + 1] = t + 1 /\ Len(q) \in Nat
      /\ \A j \in 1..Len(q) : r[j] = q[j] /\ q[j] \in Nat
  BY <1>0, AppendProperties, LenProperties, ElementOfSeq
<1>2. \A i \in 1..Len(g) : g[i] \in Nat
  BY ElementOfSeq
<1> HIDE DEF r
<1>3. \A j \in 1..Len(r) : j \in 1..Len(q) \/ j = Len(q) + 1
  BY <1>1
<1>4. Ordered(g, F, q, t + 1)
  BY <1>0, <1>1, <1>2 DEF Ordered
<1>5. \A i, j \in 1..Len(r) : i < j => Before(r[i], r[j])
  <2> SUFFICES ASSUME NEW i \in 1..Len(r), NEW j \in 1..Len(r), i < j
               PROVE  Before(r[i], r[j])
    OBVIOUS
  <2>1. i \in 1..Len(q)
    BY <1>1
  <2>2. CASE j \in 1..Len(q)
    BY <1>1, <2>1, <2>2 DEF Ordered
  <2>3. CASE j = Len(q) + 1
    <3>1. Real(q[i]) => q[i] <= t
      BY <2>1 DEF Ordered
    <3> QED
      BY <1>0, <1>1, <2>1, <2>3, <3>1 DEF Before
  <2> QED
    BY <1>3, <2>2, <2>3
<1>6. \A i \in 1..Len(g), j \in 1..Len(r) : Before(g[i], r[j])
  BY <1>0, <1>1, <1>2, <1>3 DEF Ordered, Before
<1>7. \A v \in F, j \in 1..Len(r) : Before(v, r[j])
  BY <1>0, <1>1, <1>3 DEF Ordered, Before
<1>8. \A j \in 1..Len(r) : Real(r[j]) => r[j] <= t + 1
  BY <1>0, <1>1, <1>3 DEF Ordered
<1>9. Ordered(g, F, r, t + 1)
  BY <1>4, <1>5, <1>6, <1>7, <1>8 DEF Ordered
<1> QED
  BY <1>4, <1>9 DEF r

LEMMA OrderedPop ==
    ASSUME NEW g \in Seq(Nat), NEW q \in Seq(Nat), q # <<>>, NEW t \in Nat,
           Ordered(g, {}, q, t)
    PROVE  Ordered(g, {Head(q)}, Tail(q), t)
<1> DEFINE r == Tail(q)
<1>1. /\ Len(r) = Len(q) - 1 /\ Len(q) \in Nat \ {0} /\ Head(q) = q[1]
      /\ \A i \in 1..Len(r) : r[i] = q[i + 1]
  BY HeadTailProperties, LenProperties, EmptySeq
<1> HIDE DEF r
<1>2. 1 \in 1..Len(q) /\ \A i \in 1..Len(r) : i + 1 \in 1..Len(q) /\ i + 1 > 1
  BY <1>1
<1>3. \A i, j \in 1..Len(r) : i < j => Before(r[i], r[j])
  <2> SUFFICES ASSUME NEW i \in 1..Len(r), NEW j \in 1..Len(r), i < j
               PROVE  Before(r[i], r[j])
    OBVIOUS
  <2> DEFINE a == i + 1
             b == j + 1
  <2>1. a \in 1..Len(q) /\ b \in 1..Len(q) /\ a < b /\ r[i] = q[a] /\ r[j] = q[b]
    BY <1>1, <1>2
  <2> HIDE DEF a, b
  <2> QED
    BY <2>1 DEF Ordered
<1>4. \A i \in 1..Len(g), j \in 1..Len(r) : Before(g[i], r[j])
  BY <1>1, <1>2 DEF Ordered
<1>5. \A j \in 1..Len(r) : Before(q[1], r[j]) /\ (Real(r[j]) => r[j] <= t)
  <2> SUFFICES ASSUME NEW j \in 1..Len(r)
               PROVE  Before(q[1], r[j]) /\ (Real(r[j]) => r[j] <= t)
    OBVIOUS
  <2> DEFINE b == j + 1
  <2>1. b \in 1..Len(q) /\ 1 < b /\ r[j] = q[b]
    BY <1>1, <1>2
  <2> HIDE DEF b
  <2> QED
    BY <1>2, <2>1 DEF Ordered
<1>6. /\ Real(q[1]) => q[1] <= t
      /\ \A i \in 1..Len(g) : Before(g[i], q[1])
  BY <1>2 DEF Ordered
<1>7. Ordered(g, {q[1]}, r, t)
  BY <1>3, <1>4, <1>5, <1>6 DEF Ordered
<1> QED
  BY <1>1, <1>7 DEF r

LEMMA OrderedCommit ==
    ASSUME NEW g \in Seq(Nat), NEW v \in Nat, NEW q \in Seq(Nat), NEW t \in Nat,
           Ordered(g, {v}, q, t)
    PROVE  Ordered(Append(g, v), {}, q, t)
<1> DEFINE r == Append(g, v)
<1>1. /\ Len(r) = Len(g) + 1 /\ r[Len(g) + 1] = v /\ Len(g) \in Nat
      /\ \A j \in 1..Len(g) : r[j] = g[j]
  BY AppendProperties, LenProperties
<1> HIDE DEF r
<1>2. \A j \in 1..Len(r) : j \in 1..Len(g) \/ j = Len(g) + 1
  BY <1>1
<1>3. \A i, j \in 1..Len(r) : i < j => Before(r[i], r[j])
  <2> SUFFICES ASSUME NEW i \in 1..Len(r), NEW j \in 1..Len(r), i < j
               PROVE  Before(r[i], r[j])
    OBVIOUS
  <2>1. i \in 1..Len(g)
    BY <1>1
  <2>2. CASE j \in 1..Len(g)
    BY <1>1, <2>1, <2>2 DEF Ordered
  <2>3. CASE j = Len(g) + 1
    BY <1>1, <2>1, <2>3 DEF Ordered
  <2> QED
    BY <1>2, <2>2, <2>3
<1>4. \A i \in 1..Len(r), j \in 1..Len(q) : Before(r[i], q[j])
  BY <1>1, <1>2 DEF Ordered
<1>5. \A i \in 1..Len(r) : Real(r[i]) => r[i] <= t
  BY <1>1, <1>2 DEF Ordered
<1>6. Ordered(r, {}, q, t)
  BY <1>3, <1>4, <1>5 DEF Ordered
<1> QED
  BY <1>6 DEF r

LEMMA OrderedLoads ==
    ASSUME NEW g, NEW F, NEW q, NEW t, Ordered(g, F, q, t)
    PROVE  /\ Ordered(g, {}, q, t) /\ Ordered(g, {0}, q, t) /\ Ordered(g, {SENT_CHAR}, q, t)
<1>1. ~Real(0) /\ ~Real(SENT_CHAR)
  BY DEF Real
<1>2. Ordered(g, {}, q, t)
  BY DEF Ordered
<1>3. Ordered(g, {0}, q, t)
  BY <1>1, <1>2 DEF Ordered, Before
<1>4. Ordered(g, {SENT_CHAR}, q, t)
  BY <1>1, <1>2 DEF Ordered, Before
<1> QED
  BY <1>2, <1>3, <1>4

\* The order of the three parts is that of the whole.
LEMMA OrderedSeen ==
    ASSUME NEW g \in Seq(Nat), NEW f \in Seq(Nat), NEW q \in Seq(Nat), NEW t \in Nat,
           NEW F, Ordered(g, F, q, t), f = <<>> \/ \E v \in F : f = <<v>>,
           NEW s, s = g \o f \o q, NEW i \in 1..Len(s), NEW j \in 1..Len(s), i < j
    PROVE  Before(s[i], s[j])
<1> DEFINE h == g \o f
           a == Len(g)
           n == Len(f)
           b == Len(h)
           c == Len(s)
<1>1. /\ h \in Seq(Nat) /\ b = a + n
      /\ \A k \in 1..b : h[k] = IF k <= a THEN g[k] ELSE f[k - a]
  BY ConcatProperties
<1>2. /\ c = b + Len(q)
      /\ \A k \in 1..c : s[k] = IF k <= b THEN h[k] ELSE q[k - b]
  BY <1>1, ConcatProperties
<1>3. a \in Nat /\ n \in Nat /\ Len(q) \in Nat
  BY LenProperties
<1>4. n \in {0, 1} /\ (n = 1 => f[1] \in F)
  OBVIOUS
<1> DEFINE d == Len(q)
<1>5. /\ i \in 1..c /\ j \in 1..c /\ c = b + d
      /\ a \in Nat /\ b \in Nat /\ c \in Nat /\ d \in Nat
  BY <1>1, <1>2, <1>3
<1> HIDE DEF h, a, n, b, c, d
<1>6. \A k \in 1..c :
        \/ k \in 1..a /\ s[k] = g[k]
        \/ n = 1 /\ k = b /\ s[k] = f[1]
        \/ k > b /\ k - b \in 1..d /\ s[k] = q[k - b]
  <2> SUFFICES ASSUME NEW k \in 1..c
               PROVE  \/ k \in 1..a /\ s[k] = g[k]
                      \/ n = 1 /\ k = b /\ s[k] = f[1]
                      \/ k > b /\ k - b \in 1..d /\ s[k] = q[k - b]
    OBVIOUS
  <2>0. k \in Nat /\ k >= 1 /\ k <= c
    BY <1>5
  <2>1. CASE k <= a
    <3>1. k \in 1..b /\ k <= b
      BY <1>1, <1>3, <1>5, <2>0, <2>1
    <3>2. s[k] = h[k] /\ h[k] = g[k]
      BY <1>1, <1>2, <2>1, <3>1
    <3>3. k \in 1..a
      BY <1>5, <2>0, <2>1
    <3> QED
      BY <3>2, <3>3
  <2>2. CASE k > a /\ k <= b
    <3>1. n = 1 /\ k = b /\ k - a = 1 /\ k \in 1..b /\ ~(k <= a)
      BY <1>1, <1>4, <1>5, <2>0, <2>2
    <3> QED
      BY <1>1, <1>2, <2>2, <3>1
  <2>3. CASE k > b
    <3>1. k - b \in 1..d /\ ~(k <= b)
      BY <1>5, <2>0, <2>3
    <3> QED
      BY <1>2, <2>3, <3>1
  <2>4. k <= a \/ (k > a /\ k <= b) \/ k > b
    BY <1>5, <2>0
  <2> QED
    BY <2>1, <2>2, <2>3, <2>4
<1>7. a \in Nat /\ b \in Nat /\ b >= a /\ (n = 1 => b > a)
  BY <1>1, <1>4, <1>5
<1>8. CASE j \in 1..a /\ s[j] = g[j]
  <2>1. i \in 1..a /\ s[i] = g[i]
    <3>1. \/ i \in 1..a /\ s[i] = g[i]
          \/ n = 1 /\ i = b /\ s[i] = f[1]
          \/ i > b /\ i - b \in 1..d /\ s[i] = q[i - b]
      BY <1>5, <1>6
    <3>2. i \in Nat /\ j \in Nat
      BY <1>5
    <3>3. j <= b
      BY <1>7, <3>2, <1>8
    <3>4. i # b /\ ~(i > b)
      BY <1>7, <3>2, <3>3
    <3> QED
      BY <3>1, <3>4
  <2> QED
    BY <1>8, <2>1 DEF Ordered, a
<1>9. CASE n = 1 /\ j = b /\ s[j] = f[1]
  <2>1. i \in 1..a /\ s[i] = g[i]
    <3>1. \/ i \in 1..a /\ s[i] = g[i]
          \/ n = 1 /\ i = b /\ s[i] = f[1]
          \/ i > b /\ i - b \in 1..d /\ s[i] = q[i - b]
      BY <1>5, <1>6
    <3>2. i \in Nat /\ j \in Nat
      BY <1>5
    <3>3. j <= b
      BY <1>7, <3>2, <1>9
    <3>4. i # b /\ ~(i > b)
      BY <1>7, <3>2, <3>3
    <3> QED
      BY <3>1, <3>4
  <2> QED
    BY <1>4, <1>9, <2>1 DEF Ordered, a
<1>10. CASE j > b /\ j - b \in 1..d /\ s[j] = q[j - b]
  <2> DEFINE y == j - b
  <2>1. y \in 1..d /\ s[j] = q[y]
    BY <1>10
  <2>2. CASE i \in 1..a /\ s[i] = g[i]
    <3> HIDE DEF y
    <3> QED
      BY <2>1, <2>2 DEF Ordered, a, d
  <2>3. CASE n = 1 /\ s[i] = f[1]
    <3> HIDE DEF y
    <3> QED
      BY <1>4, <2>1, <2>3 DEF Ordered, d
  <2>4. CASE i > b /\ i - b \in 1..d /\ s[i] = q[i - b]
    <3> DEFINE x == i - b
    <3>1. x \in 1..d /\ s[i] = q[x] /\ x < y
      BY <1>7, <2>4
    <3> HIDE DEF x, y
    <3> QED
      BY <2>1, <3>1 DEF Ordered, d
  <2> QED
    BY <1>5, <1>6, <2>2, <2>3, <2>4
<1> QED
  BY <1>5, <1>6, <1>8, <1>9, <1>10

-----------------------------------------------------------------------------

\* What a load of RBR has brought and not committed.
Flying == IF pc = Receive /\ ex.done THEN {ex.value} ELSE {}

\* The inductive invariant of the order of the bytes: a value is in EX only where a
\* load is, and an access is under way only there.
ByteInv ==
    /\ got \in Seq(Nat) /\ Flying \in SUBSET Nat
    /\ Ordered(got, Flying, uart.fifo, typed)
    /\ ex.done \in BOOLEAN
    /\ ex.done => Software.name # "guest" /\ pc \in {Claim, Identify, Receive, Poll}
    /\ access = "rbr" => pc = Receive /\ ~ex.done /\ Software.name # "guest"
    /\ access = "iir" => pc = Identify /\ ~ex.done /\ Software.name # "guest"

LEMMA LoadLabels ==
    /\ Receive \notin {Claim, Identify, Poll}
    /\ {Boot, Idle, Transmit, Complete, SReturn, Rearm, RearmHigh, RearmLow, MReturn}
         \cap {Claim, Identify, Receive, Poll} = {}
<1>1. \A x, y : {x} = {y} => x = y
  OBVIOUS
<1> QED
  BY <1>1 DEF Boot, Idle, Poll, Claim, Identify, Receive, Transmit, Complete, SReturn, Rearm,
              RearmHigh, RearmLow, MReturn

\* Steps that touch no byte.
LEMMA SameBytes ==
    ASSUME ByteInv, ex' = ex, pc' = pc, got' = got, uart'.fifo = uart.fifo, typed' = typed,
           access' = access, program' = program
    PROVE  ByteInv'
  BY DEF ByteInv, Flying, Software

\* Steps after which no load is in EX.
LEMMA NothingLoaded ==
    ASSUME ByteInv, ex' = NoLoad \/ (ex' = ex /\ ~ex.done), got' = got,
           uart'.fifo = uart.fifo, typed' = typed, access' = "none"
    PROVE  ByteInv'
<1>1. ex'.done = FALSE
  BY DEF NoLoad, ByteInv
<1>2. Flying' = {}
  BY <1>1 DEF Flying
<1>3. Ordered(got', {}, uart'.fifo, typed')
  BY OrderedLoads DEF ByteInv
<1> QED
  BY <1>1, <1>2, <1>3 DEF ByteInv

\* A load from another register executes.
LEMMA OtherLoad ==
    ASSUME ByteInv, Software.name # "guest", pc \in {Claim, Identify, Poll}, pc' = pc,
           \/ \E v : ex' = Loaded(v) /\ access' = "none"
           \/ pc = Identify /\ ex' = ex /\ ~ex.done /\ access' = "iir",
           got' = got, uart'.fifo = uart.fifo, typed' = typed, program' = program
    PROVE  ByteInv'
<1>1. Flying = {} /\ Flying' = {}
  BY LoadLabels DEF Flying
<1>2. ex'.done \in BOOLEAN /\ access' # "rbr" /\ (access' = "iir" => pc' = Identify /\ ~ex'.done)
  <2>1. CASE \E v : ex' = Loaded(v) /\ access' = "none"
    <3>1. PICK v : ex' = Loaded(v) /\ access' = "none"
      BY <2>1
    <3>2. ex'.done = TRUE
      BY <3>1 DEF Loaded
    <3> QED
      BY <3>1, <3>2
  <2>2. CASE pc = Identify /\ ex' = ex /\ ~ex.done /\ access' = "iir"
    BY <2>2 DEF ByteInv
  <2> QED
    BY <2>1, <2>2
<1>3. Ordered(got', Flying', uart'.fifo, typed') /\ got' \in Seq(Nat)
  BY <1>1 DEF ByteInv
<1> QED
  BY <1>1, <1>2, <1>3 DEF ByteInv, Software

\* A load of RBR finds no byte, or a character that is still to be sent.
LEMMA EmptyLoad ==
    ASSUME ByteInv, Software.name # "guest", pc = Receive, pc' = pc,
           NEW v \in {0, SENT_CHAR}, ex' = Loaded(v), access' = "none",
           got' = got, uart'.fifo = uart.fifo, typed' = typed, program' = program
    PROVE  ByteInv'
<1>1. ex'.done = TRUE /\ ex'.value = v /\ v \in Nat
  BY DEF Loaded, SENT_CHAR
<1>2. Flying' = {v}
  BY <1>1 DEF Flying
<1>3. Ordered(got', {v}, uart'.fifo, typed')
  BY OrderedLoads DEF ByteInv
<1> QED
  BY <1>1, <1>2, <1>3 DEF ByteInv, Software

\* A load takes a byte from the FIFO.
LEMMA ByteLoad ==
    ASSUME PlatformInv, ByteInv, access = "rbr", ex' = Loaded(Head(uart.fifo)),
           uart'.fifo = Tail(uart.fifo), pc' = pc, access' = "none",
           got' = got, typed' = typed, program' = program
    PROVE  ByteInv'
<1> DEFINE q == uart.fifo
           v == Head(q)
<1>1. /\ q \in Seq(Nat) /\ q # <<>> /\ pc = Receive /\ ~ex.done /\ typed \in Nat
      /\ Software.name # "guest" /\ got \in Seq(Nat) /\ Ordered(got, Flying, q, typed)
  BY DEF PlatformInv, DevicesInv, UartStates, BusInv, ByteInv
<1>2. v \in Nat
  BY <1>1
<1>3. Flying = {}
  BY <1>1 DEF Flying
<1>4. Ordered(got, {v}, Tail(q), typed)
  BY <1>1, <1>3, OrderedPop
<1> HIDE DEF v
<1>5. ex'.done = TRUE /\ ex'.value = v
  BY DEF Loaded, v
<1>6. Flying' = {v}
  BY <1>1, <1>5 DEF Flying
<1> QED
  BY <1>1, <1>2, <1>4, <1>5, <1>6 DEF ByteInv, Software

\* Software gets what a load has brought.
LEMMA ByteCommit ==
    ASSUME PlatformInv, ByteInv, pc = Receive, ex.done, ex' = NoLoad,
           got' = IF ex.value = SENT_CHAR THEN got ELSE Append(got, ex.value),
           uart'.fifo = uart.fifo, typed' = typed, access' = "none"
    PROVE  ByteInv'
<1> DEFINE v == ex.value
           q == uart.fifo
<1>1. /\ q \in Seq(Nat) /\ typed \in Nat /\ got \in Seq(Nat)
      /\ Flying = {v} /\ v \in Nat /\ Ordered(got, {v}, q, typed)
  BY DEF PlatformInv, DevicesInv, UartStates, BusInv, ByteInv, Flying
<1>2. ex'.done = FALSE /\ Flying' = {}
  BY DEF NoLoad, Flying
<1> HIDE DEF v, q
<1>3. got' = got \/ got' = Append(got, v)
  BY DEF v
<1>4. Ordered(got, {}, q, typed) /\ Ordered(Append(got, v), {}, q, typed)
      /\ Append(got, v) \in Seq(Nat)
  BY <1>1, OrderedLoads, OrderedCommit
<1>5. Ordered(got', {}, q, typed) /\ got' \in Seq(Nat)
  BY <1>1, <1>3, <1>4
<1> QED
  BY <1>2, <1>5 DEF ByteInv, q

LEMMA ByteCycle ==
    ASSUME PlatformInv, ByteInv, Cycle
    PROVE  ByteInv'
<1>0. access = "none"
  BY DEF Cycle
<1>1. typed' = typed /\ uart' = uart /\ program' = program
  BY DEF Cycle, Interrupt, Asleep, Instruction, BootStep, Post, WaitForInterrupt,
         SupervisorLoads, LoadAt, read_claim, FromBuffer, begin_IIR, read_RBR,
         SupervisorCommits, CommitTo, SupervisorStores, SupervisorReturn, MachineRearm,
         MachineReturn, PollControl, read_control, GuestStep, GuestWfi, GuestStore,
         deviceVars, historyVars
<1>2. CASE Interrupt
  BY <1>0, <1>1, <1>2, NothingLoaded DEF Interrupt
<1>3. CASE Asleep
  BY <1>1, <1>3, SameBytes DEF Asleep, busVars, historyVars
<1>4. CASE \/ BootStep \/ WaitForInterrupt \/ SupervisorStores \/ SupervisorReturn
           \/ MachineRearm \/ MachineReturn \/ GuestStep \/ GuestWfi \/ GuestStore
  <2>1. \/ pc \in {Boot, Idle, Transmit, Complete, SReturn, Rearm, RearmHigh, RearmLow, MReturn}
        \/ Software.name = "guest"
    BY <1>4 DEF BootStep, WaitForInterrupt, SupervisorStores, SupervisorReturn, MachineRearm,
                MachineReturn, GuestStep, GuestWfi, GuestStore, Guest, at
  <2>2. ~ex.done
    BY <2>1, LoadLabels DEF ByteInv
  <2>3. ex' = ex /\ access' = access /\ got' = got
    BY <1>4 DEF BootStep, WaitForInterrupt, SupervisorStores, SupervisorReturn, MachineRearm,
                MachineReturn, GuestStep, GuestWfi, GuestStore, Post, busVars, historyVars
  <2> QED
    BY <1>0, <1>1, <2>2, <2>3, NothingLoaded
<1>5. CASE SupervisorLoads
  <2>0. got' = got /\ pc' = pc /\ ~ex.done /\ Software.name # "guest"
    BY <1>5 DEF SupervisorLoads, LoadAt, historyVars, at
  <2>1. CASE LoadAt(Claim, read_claim)
    <3>1. pc = Claim /\ \E v : ex' = Loaded(v) /\ access' = "none"
      BY <1>0, <2>1 DEF LoadAt, at, read_claim, FromBuffer
    <3> QED
      BY <1>1, <2>0, <3>1, OtherLoad
  <2>2. CASE LoadAt(Identify, begin_IIR)
    <3>1. /\ pc = Identify
          /\ \/ \E v : ex' = Loaded(v) /\ access' = "none"
             \/ ex' = ex /\ access' = "iir"
      BY <1>0, <2>2 DEF LoadAt, at, begin_IIR
    <3> QED
      BY <1>1, <2>0, <3>1, OtherLoad
  <2>3. CASE LoadAt(Receive, read_RBR)
    <3>1. CASE FromBuffer("uart", "THR")
      <4>1. PICK i \in Buffered("uart", "THR") : ex' = Loaded(posted[i].val)
        BY <3>1 DEF FromBuffer
      <4>2. posted[i] \in DeviceStores /\ posted[i].dev = "uart" /\ posted[i].reg = "THR"
        BY <4>1, LenProperties, ElementOfSeq DEF Buffered, PlatformInv, BusInv
      <4>3. posted[i].val \in {0, SENT_CHAR}
        BY <4>2 DEF DeviceStores
      <4>4. access' = "none" /\ pc = Receive
        BY <1>0, <2>3, <3>1 DEF FromBuffer, LoadAt, at
      <4> QED
        BY <1>1, <2>0, <4>1, <4>3, <4>4, EmptyLoad
    <3>2. CASE ex' = Loaded(0) /\ access' = access
      <4>1. pc = Receive
        BY <2>3 DEF LoadAt, at
      <4> QED
        BY <1>0, <1>1, <2>0, <3>2, <4>1, EmptyLoad
    <3>3. CASE access' = "rbr" /\ ex' = ex
      <4>1. pc = Receive
        BY <2>3 DEF LoadAt, at
      <4>2. Flying' = Flying
        BY <2>0, <3>3 DEF Flying
      <4> QED
        BY <1>1, <2>0, <3>3, <4>1, <4>2 DEF ByteInv, Software
    <3> QED
      BY <2>3, <3>1, <3>2, <3>3 DEF LoadAt, read_RBR
  <2> QED
    BY <1>5, <2>1, <2>2, <2>3 DEF SupervisorLoads
<1>6. CASE SupervisorCommits
  <2>0. ex.done /\ ex' = NoLoad /\ access' = access
    BY <1>6 DEF SupervisorCommits, CommitTo
  <2>1. CASE got' = got
    BY <1>0, <1>1, <2>0, <2>1, NothingLoaded
  <2>2. CASE pc = Receive /\ got' = IF ex.value = SENT_CHAR THEN got ELSE Append(got, ex.value)
    BY <1>0, <1>1, <2>0, <2>2, ByteCommit
  <2> QED
    BY <1>6, <2>1, <2>2 DEF SupervisorCommits, at
<1>7. CASE PollControl
  <2>0. Software.name # "guest" /\ pc = Poll /\ got' = got
    BY <1>7 DEF PollControl, LoadAt, at, historyVars
  <2>1. CASE LoadAt(Poll, read_control)
    <3>1. (\E v : ex' = Loaded(v) /\ access' = "none") /\ pc' = pc
      BY <1>0, <2>1 DEF LoadAt, read_control, FromBuffer
    <3> QED
      BY <1>1, <2>0, <3>1, OtherLoad
  <2>2. CASE ex' = NoLoad /\ access' = access
    BY <1>0, <1>1, <2>0, <2>2, NothingLoaded
  <2> QED
    BY <1>7, <2>1, <2>2 DEF PollControl, CommitTo
<1> QED
  BY <1>2, <1>3, <1>4, <1>5, <1>6, <1>7 DEF Cycle, Instruction

\* Stores leave the FIFO alone.
LEMMA DrainFifo ==
    ASSUME PlatformInv, Drain
    PROVE  uart'.fifo = uart.fifo
<1> DEFINE w == Head(posted)
<1>1. w \in DeviceStores /\ uart \in UartStates
  BY DEF PlatformInv, BusInv, DevicesInv, Drain
<1>2. CASE w.dev = "uart"
  <2>1. write_uart(w)
    BY <1>2 DEF Drain
  <2> HIDE DEF w
  <2>2. CASE w.reg = "THR"
    BY <1>1, <2>1, <2>2, UartRegisters DEF write_uart
  <2>3. CASE w.reg = "SCR" /\ w.val \in Nat
    BY <1>1, <2>1, <2>3, UartRegisters DEF write_uart
  <2>4. CASE w.reg = "IER" /\ w.val \in SUBSET {RDA, THRI}
    BY <1>1, <2>1, <2>4, UartRegisters DEF write_uart
  <2>5. CASE w.reg = "LCR" /\ w.val \in BOOLEAN
    BY <1>1, <2>1, <2>5, UartRegisters DEF write_uart
  <2> QED
    BY <1>1, <1>2, <2>2, <2>3, <2>4, <2>5, StoreKinds
<1>3. CASE w.dev # "uart"
  <2>1. uart' = uart
    BY <1>1, <1>3, StoreKinds DEF Drain, write_plic, write_clint, write_dma, write_memory
  <2> QED
    BY <2>1
<1> QED
  BY <1>2, <1>3

LEMMA ByteStep ==
    ASSUME PlatformInv, ByteInv, [Next]_vars
    PROVE  ByteInv'
<1>1. CASE UNCHANGED vars
  <2>1. /\ ex' = ex /\ pc' = pc /\ got' = got /\ uart' = uart /\ typed' = typed
        /\ access' = access /\ program' = program
    BY <1>1 DEF vars, hartVars, busVars, deviceVars, historyVars
  <2> QED
    BY <2>1, SameBytes
<1>2. CASE PlicOutput \/ ClintOutput \/ Tick \/ RxMonitor \/ WfiCheck
  <2>1. /\ ex' = ex /\ pc' = pc /\ got' = got /\ uart' = uart /\ typed' = typed
        /\ access' = access /\ program' = program
    BY <1>2 DEF PlicOutput, ClintOutput, Tick, RxMonitor, WfiCheck, hartVars, busVars,
                historyVars
  <2> QED
    BY <2>1, SameBytes
<1>3. CASE Drain
  <2>1. /\ ex' = ex /\ pc' = pc /\ got' = got /\ typed' = typed
        /\ access' = access /\ program' = program
    BY <1>3 DEF Drain, hartVars, historyVars
  <2> QED
    BY <1>3, <2>1, SameBytes, DrainFifo
<1>4. CASE StdinByte
  <2>1. /\ ex' = ex /\ pc' = pc /\ got' = got /\ access' = access /\ program' = program
        /\ typed' = typed + 1 /\ uart' = stdin_push(uart, typed + 1)
    BY <1>4 DEF StdinByte, hartVars, busVars
  <2>2. /\ uart \in UartStates /\ Len(uart.fifo) <= FifoDepth /\ uart.fifo \in Seq(Nat)
        /\ typed \in Nat /\ typed + 1 \in Nat
    BY DEF PlatformInv, DevicesInv, BusInv, UartStates
  <2>3. uart'.fifo = IF Accepts(uart) THEN Append(uart.fifo, typed + 1) ELSE uart.fifo
    BY <2>1, <2>2, UartFifo
  <2>4. got \in Seq(Nat) /\ Flying \in SUBSET Nat /\ Ordered(got, Flying, uart.fifo, typed)
    BY DEF ByteInv
  <2>5. /\ Ordered(got, Flying, uart.fifo, typed + 1)
        /\ Ordered(got, Flying, Append(uart.fifo, typed + 1), typed + 1)
    BY <2>2, <2>4, OrderedPush
  <2>6. Ordered(got', Flying, uart'.fifo, typed') /\ Flying' = Flying
    BY <2>1, <2>3, <2>5 DEF Flying
  <2> QED
    BY <2>1, <2>4, <2>6 DEF ByteInv, Software
<1>5. CASE FinishAccess
  <2>0. /\ uart \in UartStates /\ Len(uart.fifo) <= FifoDepth
        /\ pc' = pc /\ got' = got /\ access' = "none" /\ program' = program /\ typed' = typed
    BY <1>5 DEF PlatformInv, DevicesInv, FinishAccess, hartVars, historyVars
  <2>1. CASE finish_RBR
    <3>1. access = "rbr" /\ ex' = Loaded(Head(uart.fifo)) /\ uart.fifo # <<>>
      BY <2>1 DEF finish_RBR, PlatformInv, DevicesInv
    <3>2. uart'.fifo = Tail(uart.fifo)
      BY <2>0, <2>1, <3>1, UartFifo DEF finish_RBR
    <3> QED
      BY <2>0, <3>1, <3>2, ByteLoad
  <2>2. CASE finish_IIR
    <3>1. uart'.fifo = uart.fifo /\ ex' = Loaded(2) /\ access = "iir"
      BY <2>0, <2>2, UartRegisters DEF finish_IIR
    <3>2. pc = Identify /\ Software.name # "guest"
      BY <3>1 DEF ByteInv
    <3> QED
      BY <2>0, <3>1, <3>2, OtherLoad
  <2> QED
    BY <1>5, <2>1, <2>2 DEF FinishAccess
<1>6. CASE Cycle
  BY <1>6, ByteCycle
<1> QED
  BY <1>1, <1>2, <1>3, <1>4, <1>5, <1>6 DEF Next

LEMMA ByteInit == Init => ByteInv
<1> SUFFICES ASSUME Init PROVE ByteInv
  OBVIOUS
<1>1. ex.done = FALSE /\ access = "none" /\ got = <<>> /\ uart.fifo = <<>> /\ typed = 0
  BY DEF Init, NoLoad, ResetUart
<1>2. Flying = {}
  BY <1>1 DEF Flying
<1>3. Ordered(got, {}, uart.fifo, typed)
  BY <1>1 DEF Ordered
<1>4. got \in Seq(Nat) /\ Flying \in SUBSET Nat
  BY <1>1, <1>2
<1>5. Ordered(got, Flying, uart.fifo, typed)
  BY <1>2, <1>3
<1> QED
  BY <1>1, <1>4, <1>5 DEF ByteInv

-----------------------------------------------------------------------------

\* Software that is no guest keeps its enables.
LEMMA EnablesKept ==
    ASSUME HartInv, Nest, [Next]_vars, Software.name # "guest"
    PROVE  csr'.mie = csr.mie /\ csr'.mideleg = csr.mideleg
<1> DEFINE c == SyncLines
<1>1. c \in CsrFiles /\ SameTraps(csr, c) /\ Installed(csr) /\ Nested(csr, pc, frames)
  BY SyncTraps DEF HartInv, Nest
<1>2. CASE csr' = csr \/ csr' = c
  BY <1>1, <1>2 DEF SameTraps
<1>3. CASE Interrupt
  <2>1. csr' = take_interrupt(c, pending_interrupt(c), pc)
    BY <1>3 DEF Interrupt
  <2>2. \E cause : csr' = trap_to_M(c, cause, pc) \/ csr' = trap_to_S(c, cause, pc)
    BY <2>1 DEF take_interrupt
  <2> HIDE DEF c
  <2>3. Keeps(c, csr')
    BY <1>1, <2>2, EnterM, EnterS
  <2> QED
    BY <1>1, <2>3 DEF Keeps, SameTraps
<1>4. CASE SupervisorReturn
  <2>1. pc = SReturn /\ SReturn \in SHandler /\ Sret
    BY <1>4 DEF SupervisorReturn, at, SHandler
  <2>2. csr.priv = S /\ TSR \notin csr.mstatus
    BY <1>1, <2>1, LabelsDiffer DEF Nested, InMain, InS, InM, Installed
  <2>3. csr' = sret(c)
    BY <2>1, <2>2 DEF Sret, U, S
  <2> HIDE DEF c
  <2>4. Keeps(c, csr')
    BY <1>1, <2>3, LeaveS
  <2> QED
    BY <1>1, <2>4 DEF Keeps, SameTraps
<1>5. CASE MachineReturn
  <2>1. pc = MReturn /\ MReturn \in MHandler /\ Mret
    BY <1>5 DEF MachineReturn, at, MHandler
  <2>2. csr.priv = M
    BY <1>1, <2>1, LabelsDiffer DEF Nested, InMain, InS, InM
  <2>3. csr' = mret(c)
    BY <2>1, <2>2 DEF Mret
  <2> HIDE DEF c
  <2>4. Keeps(c, csr')
    BY <1>1, <2>3, LeaveM
  <2> QED
    BY <1>1, <2>4 DEF Keeps, SameTraps
<1>6. \/ csr' = csr \/ csr' = c \/ Interrupt \/ SupervisorReturn \/ MachineReturn
  BY DEF Next, vars, PlicOutput, ClintOutput, Tick, RxMonitor, Drain, StdinByte, WfiCheck,
         FinishAccess, hartVars, Cycle, Asleep, Instruction, BootStep, Post, WaitForInterrupt,
         SupervisorLoads, LoadAt, SupervisorCommits, CommitTo, SupervisorStores,
         MachineRearm, PollControl, GuestStep, GuestWfi, GuestStore, Guest
<1> QED
  BY <1>2, <1>3, <1>4, <1>5, <1>6

\* Without machine interrupts, the handlers are not interrupted.
LEMMA QuietInterrupt ==
    ASSUME HartInv, Nest, Interrupt, Software.name # "guest", csr.mie \subseteq csr.mideleg
    PROVE  pc \in Main /\ csr.mie # {} /\ pc' = Claim
<1> DEFINE c == SyncLines
           cause == [interrupt |-> TRUE, code |-> pending_interrupt(c)]
<1>1. /\ c \in CsrFiles /\ SameTraps(csr, c) /\ Nested(csr, pc, frames) /\ Installed(csr)
      /\ csr' = take_interrupt(c, pending_interrupt(c), pc) /\ pc' = TrapTarget(csr')
      /\ pending_interrupt(c) >= 0
  BY SyncTraps DEF HartInv, Interrupt, Nest
<1>2. Nested(c, pc, frames) /\ Installed(c)
  BY <1>1, SameNested
<1>3. \/ m_enabled(c) /\ c.mie \ c.mideleg # {}
      \/ s_enabled(c) /\ c.mie \cap c.mideleg # {} /\ csr' = trap_to_S(c, cause, pc)
  BY <1>1, InterruptTaken
<1> HIDE DEF c, cause
<1>4. /\ s_enabled(c) /\ csr.mie # {} /\ c.mie \cap c.mideleg # {}
      /\ csr' = trap_to_S(c, cause, pc)
  BY <1>1, <1>3 DEF SameTraps
<1>5. ~InM(c, pc, frames) /\ ~InS(c, pc, frames)
  BY <1>4 DEF InM, InS, s_enabled, U, S, M
<1>6. Keeps(c, csr') /\ csr'.priv = S
  BY <1>1, <1>4, EnterS
<1>7. TrapTarget(csr') = Claim
  BY <1>2, <1>4, <1>6 DEF Keeps, Installed, TrapTarget, S, M
<1> QED
  BY <1>1, <1>2, <1>4, <1>5, <1>7 DEF Nested, InMain

-----------------------------------------------------------------------------

\* The software that loses nothing: no machine interrupts, no transmission.
QuietStores == {w \in DeviceStores : w.reg \notin {"THR", "LCR"}}

\* Every byte taken in is with software, on its way to it, or in the FIFO; a byte
\* that IIR has reported is there until RBR is read.
QuietBytes(p, x, g, q, a) ==
    /\ g \o (IF p = Receive /\ x.done THEN <<x.value>> ELSE <<>>) \o q = a
    /\ p = Identify /\ x.done /\ x.value = 4 => q # <<>>
    /\ p = Receive /\ ~x.done => q # <<>>
    /\ p = Receive /\ x.done => x.value # SENT_CHAR

Quiet == Software.name # "guest" /\ ~Software.timer /\ Software.sends = 0

TypedBytes ==
    /\ arrived \in Seq(Nat) /\ typed <= Software.chars
    /\ uart.fifo \in Seq(0..(SENT_CHAR - 1))
    /\ Software.name = "guest" => got = <<>> /\ uart.fifo = arrived

QuietBus ==
    /\ csr.mie \subseteq csr.mideleg /\ pc \in Main \cup SHandler
    /\ ~uart.dlab
    /\ posted \in Seq(QuietStores) /\ todo \in Seq(QuietStores)

QuietInv ==
    /\ TypedBytes
    /\ Quiet => QuietBus /\ QuietBytes(pc, ex, got, uart.fifo, arrived)

LEMMA Shift ==
    ASSUME NEW x \in Seq(Nat), NEW y \in Seq(Nat), NEW z \in Seq(Nat)
    PROVE  (x \o y) \o z = x \o (y \o z)
  BY ConcatAssociative, SMTT(60)

\* The three ways a byte moves: into the FIFO, into EX, to software.
LEMMA TakeIn ==
    ASSUME NEW g \in Seq(Nat), NEW f \in Seq(Nat), NEW q \in Seq(Nat), NEW v \in Nat
    PROVE  g \o f \o Append(q, v) = Append(g \o f \o q, v)
<1> DEFINE h == g \o f
           o == <<v>>
           a == h \o q
<1>1. h \in Seq(Nat) /\ o \in Seq(Nat)
  BY ConcatProperties
<1> HIDE DEF h, o
<1>2. a \in Seq(Nat)
  BY <1>1, ConcatProperties
<1> HIDE DEF a
<1>3. Append(q, v) = q \o o /\ Append(a, v) = a \o o
  BY <1>2, AppendIsConcat DEF o
<1>4. (h \o q) \o o = h \o (q \o o)
  BY <1>1, Shift
<1> QED
  BY <1>3, <1>4 DEF h, a

LEMMA Load ==
    ASSUME NEW g \in Seq(Nat), NEW q \in Seq(Nat), q # <<>>
    PROVE  g \o <<Head(q)>> \o Tail(q) = g \o <<>> \o q
<1> DEFINE o == <<Head(q)>>
           r == Tail(q)
<1>0. Head(q) \in Nat
  OBVIOUS
<1>1. o \in Seq(Nat) /\ r \in Seq(Nat) /\ q = o \o r
  <2>1. r \in Seq(Nat)
    OBVIOUS
  <2>2. o \in Seq(Nat)
    BY <1>0
  <2>3. q = o \o r
    <3>1. /\ Len(o \o r) = Len(o) + Len(r) /\ o \o r \in Seq(Nat)
          /\ \A i \in 1..Len(o) + Len(r) : (o \o r)[i] = IF i <= Len(o) THEN o[i]
                                                         ELSE r[i - Len(o)]
      <4> HIDE DEF o, r
      <4> QED
        BY <2>1, <2>2, ConcatProperties
    <3>2. Len(o) = 1 /\ o[1] = Head(q)
      BY <1>0
    <3>3. /\ Len(r) = Len(q) - 1 /\ Len(q) \in Nat \ {0} /\ Head(q) = q[1]
          /\ \A i \in 1..Len(r) : r[i] = q[i + 1]
      BY HeadTailProperties, LenProperties, EmptySeq
    <3> DEFINE s == o \o r
               n == Len(r)
    <3> HIDE DEF o, r
    <3>4. Len(s) = Len(q) /\ \A i \in 1..Len(s) : s[i] = q[i]
      <4> DEFINE m == Len(q)
      <4>1. m \in Nat /\ n = m - 1 /\ Len(s) = m
        BY <3>1, <3>2, <3>3
      <4> HIDE DEF m, n
      <4>2. SUFFICES ASSUME NEW i \in 1..m PROVE s[i] = q[i]
        BY <4>1 DEF m
      <4>3. CASE i = 1
        BY <3>1, <3>2, <3>3, <4>1, <4>3 DEF n
      <4>4. CASE i # 1
        <5>1. i - 1 \in 1..n /\ (i - 1) + 1 = i /\ ~(i <= 1) /\ i \in 1..1 + n
          BY <4>1, <4>4
        <5>2. s[i] = r[i - 1]
          BY <3>1, <3>2, <5>1 DEF n
        <5> DEFINE k == i - 1
        <5> HIDE DEF k
        <5>3. k \in 1..n /\ k + 1 = i /\ s[i] = r[k]
          BY <5>1, <5>2 DEF k
        <5> QED
          BY <3>3, <5>3 DEF n
      <4> QED
        BY <4>3, <4>4
    <3> HIDE DEF s
    <3>5. s \in Seq(Nat)
      BY <3>1 DEF s
    <3> QED
      BY <3>4, <3>5, SeqEqual DEF s
  <2> QED
    BY <2>1, <2>2, <2>3
<1> HIDE DEF o, r
<1>2. g \o <<>> = g
  BY ConcatEmptySeq
<1>3. (g \o o) \o r = g \o (o \o r)
  <2>1. o \in Seq(Nat) /\ r \in Seq(Nat)
    BY <1>1
  <2> QED
    BY <2>1, Shift
<1>4. (g \o o) \o r = g \o <<>> \o q
  BY <1>1, <1>2, <1>3
<1> QED
  BY <1>4 DEF o, r

LEMMA HandOver ==
    ASSUME NEW g \in Seq(Nat), NEW q \in Seq(Nat), NEW v \in Nat
    PROVE  Append(g, v) \o <<>> \o q = g \o <<v>> \o q
<1>1. Append(g, v) = g \o <<v>> /\ Append(g, v) \in Seq(Nat)
  BY AppendIsConcat, AppendProperties
<1>2. Append(g, v) \o <<>> = Append(g, v)
  BY <1>1, ConcatEmptySeq
<1> QED
  BY <1>1, <1>2

\* No step but a byte's way through EX changes the divisor latch.
LEMMA UartDlab ==
    ASSUME NEW u \in UartStates, NEW bits, NEW n, NEW ch
    PROVE  \A v \in {write_THR(u), write_IER(u, bits), write_SCR(u, n), read_IIR(u),
                     rx_pop(u), stdin_push(u, ch)} : v.dlab = u.dlab
<1>1. write_THR(u).dlab = u.dlab
  BY DEF write_THR, UartStates
<1>2. write_IER(u, bits).dlab = u.dlab
  <2> DEFINE x == CASE THRI \in bits \ u.ier -> TRUE
                    [] THRI \notin bits -> FALSE
                    [] OTHER -> u.thre_ip
  <2>1. write_IER(u, bits) = IF u.dlab THEN u ELSE [u EXCEPT !.ier = bits, !.thre_ip = x]
    BY DEF write_IER
  <2> HIDE DEF x
  <2> QED
    BY <2>1 DEF UartStates
<1>3. write_SCR(u, n).dlab = u.dlab /\ read_IIR(u).dlab = u.dlab
  BY DEF write_SCR, read_IIR, UartStates
<1>4. rx_pop(u).dlab = u.dlab
  BY DEF rx_pop, UartStates
<1>5. stdin_push(u, ch).dlab = u.dlab
  BY DEF stdin_push, UartStates
<1> QED
  BY <1>1, <1>2, <1>3, <1>4, <1>5

LEMMA QuietInit == Init => QuietInv
<1> SUFFICES ASSUME Init PROVE QuietInv
  OBVIOUS
<1>1. /\ program \in DOMAIN Programs /\ todo \in Software.boots /\ csr = Software.csr
      /\ pc = Boot /\ posted = <<>> /\ ex.done = FALSE /\ uart.fifo = <<>>
      /\ uart.dlab = FALSE /\ typed = 0 /\ arrived = <<>> /\ got = <<>>
  BY DEF Init, NoLoad, ResetUart
<1>2. Software.chars \in 0..(SENT_CHAR - 1)
  BY <1>1, ConsoleAssumption DEF Software
<1>3. TypedBytes
  <2>1. 0 <= Software.chars
    BY <1>2 DEF SENT_CHAR
  <2>2. arrived \in Seq(Nat) /\ uart.fifo \in Seq(0..(SENT_CHAR - 1))
    BY <1>1
  <2> QED
    BY <1>1, <2>1, <2>2 DEF TypedBytes
<1>4. ASSUME Quiet PROVE QuietBus
  <2>1. csr.mie \subseteq csr.mideleg
    BY <1>1, <1>4, ConsoleAssumption DEF Quiet, Software
  <2>2. \A i \in DOMAIN todo : todo[i].reg \notin {"THR", "LCR"}
    BY <1>1, <1>4, ConsoleAssumption DEF Quiet, Software
  <2>3. todo \in Seq(DeviceStores)
    BY <1>1, ProgramsAssumption DEF Software
  <2>4. todo \in Seq(QuietStores)
    <3>1. Len(todo) \in Nat /\ DOMAIN todo = 1..Len(todo)
          /\ todo \in [1..Len(todo) -> DeviceStores]
      BY <2>3, LenProperties
    <3>2. todo \in [1..Len(todo) -> QuietStores]
      BY <2>2, <3>1 DEF QuietStores
    <3> QED
      BY <3>1, <3>2
  <2>5. posted \in Seq(QuietStores) /\ Boot \in Main
    BY <1>1 DEF Main
  <2> QED
    BY <1>1, <2>1, <2>4, <2>5 DEF QuietBus
<1>5. QuietBytes(pc, ex, got, uart.fifo, arrived)
  <2>1. pc # Identify /\ pc # Receive
    BY <1>1, LoadLabels
  <2>2. <<>> \o <<>> \o <<>> = <<>>
    OBVIOUS
  <2> QED
    BY <1>1, <2>1, <2>2 DEF QuietBytes
<1> QED
  BY <1>3, <1>4, <1>5 DEF QuietInv

LEMMA TypedStep ==
    ASSUME PlatformInv, ByteInv, TypedBytes, [Next]_vars
    PROVE  TypedBytes'
<1> DEFINE B == 0..(SENT_CHAR - 1)
<1>0. program \in DOMAIN Programs /\ Software.chars \in B
  BY ConsoleAssumption DEF PlatformInv, HartInv, Software
<1>1. CASE /\ typed' = typed /\ arrived' = arrived /\ program' = program
           /\ uart'.fifo = uart.fifo
           /\ Software.name = "guest" => got' = got
  BY <1>1 DEF TypedBytes, Software
<1>2. CASE StdinByte
  <2>1. /\ typed' = typed + 1 /\ typed < Software.chars /\ uart' = stdin_push(uart, typed + 1)
        /\ arrived' = IF Accepts(uart) THEN Append(arrived, typed + 1) ELSE arrived
        /\ program' = program /\ got' = got
    BY <1>2 DEF StdinByte
  <2>2. typed \in Nat /\ uart \in UartStates /\ Len(uart.fifo) <= FifoDepth
    BY DEF PlatformInv, BusInv, DevicesInv
  <2>3. typed + 1 \in Nat /\ typed + 1 \in B /\ typed + 1 <= Software.chars
    <3> DEFINE n == Software.chars
               k == typed
    <3>1. n \in 0..98 /\ k \in Nat /\ k < n
      BY <1>0, <2>1, <2>2 DEF SENT_CHAR
    <3> HIDE DEF n, k
    <3>2. k + 1 \in Nat /\ k + 1 \in 0..98 /\ k + 1 <= n
      BY <3>1
    <3> QED
      BY <3>2 DEF n, k, SENT_CHAR
  <2>4. uart'.fifo = IF Accepts(uart) THEN Append(uart.fifo, typed + 1) ELSE uart.fifo
    BY <2>1, <2>2, <2>3, UartFifo
  <2> HIDE DEF B
  <2>5. uart.fifo \in Seq(B) /\ arrived \in Seq(Nat)
    BY DEF TypedBytes, B
  <2>6. uart'.fifo \in Seq(B) /\ arrived' \in Seq(Nat)
    BY <2>1, <2>3, <2>4, <2>5, AppendProperties
  <2> QED
    BY <2>1, <2>3, <2>4, <2>6 DEF TypedBytes, Software, B
<1>3. CASE FinishAccess
  <2>0. /\ uart \in UartStates /\ Len(uart.fifo) <= FifoDepth /\ program' = program
        /\ got' = got /\ typed' = typed /\ arrived' = arrived
    BY <1>3 DEF PlatformInv, DevicesInv, FinishAccess, historyVars
  <2>1. CASE finish_RBR
    <3>1. uart.fifo # <<>> /\ Software.name # "guest"
      BY <2>1 DEF finish_RBR, PlatformInv, DevicesInv, ByteInv
    <3>2. uart'.fifo = Tail(uart.fifo)
      BY <2>0, <2>1, <3>1, UartFifo DEF finish_RBR
    <3> HIDE DEF B
    <3>3. uart'.fifo \in Seq(B)
      <4>1. uart.fifo \in Seq(B)
        BY DEF TypedBytes, B
      <4> QED
        BY <3>1, <3>2, <4>1, HeadTailProperties
    <3> QED
      BY <2>0, <3>1, <3>3 DEF TypedBytes, Software, B
  <2>2. CASE finish_IIR
    <3>1. uart'.fifo = uart.fifo
      BY <2>0, <2>2, UartRegisters DEF finish_IIR
    <3> QED
      BY <1>1, <2>0, <3>1
  <2> QED
    BY <1>3, <2>1, <2>2 DEF FinishAccess
<1>4. CASE Drain
  BY <1>1, <1>4, DrainFifo DEF Drain, historyVars
<1>5. CASE UNCHANGED vars \/ PlicOutput \/ ClintOutput \/ Tick \/ RxMonitor \/ WfiCheck
  <2>1. /\ typed' = typed /\ arrived' = arrived /\ program' = program
        /\ uart' = uart /\ got' = got
    BY <1>5 DEF vars, PlicOutput, ClintOutput, Tick, RxMonitor, WfiCheck, historyVars,
                deviceVars
  <2> QED
    BY <1>1, <2>1
<1>6. CASE Cycle
  <2>1. /\ typed' = typed /\ arrived' = arrived /\ program' = program /\ uart' = uart
        /\ Software.name = "guest" => got' = got
    BY <1>6 DEF Cycle, Interrupt, Asleep, Instruction, BootStep, Post, WaitForInterrupt,
         SupervisorLoads, LoadAt, read_claim, FromBuffer, begin_IIR, read_RBR,
         SupervisorCommits, CommitTo, SupervisorStores, SupervisorReturn, MachineRearm,
         MachineReturn, PollControl, read_control, GuestStep, GuestWfi, GuestStore,
         deviceVars, historyVars, at
  <2> QED
    BY <1>1, <2>1
<1> QED
  BY <1>2, <1>3, <1>4, <1>5, <1>6 DEF Next

\* A quiet store enters the buffer.
LEMMA QuietPost ==
    ASSUME QuietBus, NEW w \in QuietStores, NEW next, Post(w, next)
    PROVE  posted' \in Seq(QuietStores) /\ pc' = next /\ uart' = uart
<1>1. posted \in Seq(QuietStores) /\ posted' = Append(posted, w)
  BY DEF QuietBus, Post
<1> QED
  BY <1>1, AppendProperties DEF Post, deviceVars

\* Where quiet software goes.
LEMMA QuietLevels ==
    ASSUME PlatformInv, Nest, QuietBus, Software.name # "guest", Cycle
    PROVE  pc' \in Main \cup SHandler /\ ~MachineRearm /\ ~MachineReturn
           /\ (SupervisorReturn => pc' \in Main)
<1>0. HartInv /\ csr.mie \subseteq csr.mideleg /\ pc \in Main \cup SHandler
  BY DEF PlatformInv, QuietBus
<1>1. ~MachineRearm /\ ~MachineReturn
  <2>1. pc \notin MHandler
    BY <1>0, LabelsDiffer
  <2> QED
    BY <2>1 DEF MachineRearm, MachineReturn, at, MHandler
<1>2. CASE Interrupt
  <2>1. pc' = Claim
    BY <1>0, <1>2, QuietInterrupt
  <2>2. ~SupervisorReturn
    <3>1. SupervisorReturn => pc = SReturn
      BY DEF SupervisorReturn, at
    <3>2. pc \in Main /\ SReturn \in SHandler
      BY <1>0, <1>2, QuietInterrupt DEF SHandler
    <3> QED
      BY <3>1, <3>2, LabelsDiffer
  <2> QED
    BY <1>1, <2>1, <2>2 DEF SHandler
<1>3. CASE SupervisorReturn
  <2>1. /\ pc = SReturn /\ SReturn \in SHandler /\ Sret
        /\ Installed(csr) /\ Nested(csr, pc, frames)
    BY <1>3 DEF SupervisorReturn, at, SHandler, Nest
  <2>2. csr.priv = S /\ TSR \notin csr.mstatus /\ csr.sepc \in Main
    BY <2>1, LabelsDiffer DEF Nested, InMain, InS, InM, Installed
  <2>3. pc' = csr.sepc
    BY <2>1, <2>2 DEF Sret, U, S
  <2> QED
    BY <1>1, <2>2, <2>3
<1>4. CASE Asleep
  <2>1. pc' = pc
    BY <1>4 DEF Asleep
  <2> QED
    BY <1>0, <1>1, <1>3, <2>1
<1>5. CASE \/ BootStep \/ WaitForInterrupt \/ SupervisorLoads \/ SupervisorCommits
           \/ SupervisorStores \/ PollControl
  <2>1. SameLevel(pc, pc')
    BY <1>5, SameLevels
  <2>2. pc' \in Main \cup SHandler
    BY <1>0, <2>1, LabelsDiffer DEF SameLevel
  <2> QED
    BY <1>1, <1>3, <2>2
<1>6. ~GuestStep /\ ~GuestWfi /\ ~GuestStore
  BY DEF GuestStep, GuestWfi, GuestStore, Guest
<1> QED
  BY <1>1, <1>2, <1>3, <1>4, <1>5, <1>6 DEF Cycle, Instruction

LEMMA QuietBusStep ==
    ASSUME PlatformInv, Nest, QuietBus, Quiet, [Next]_vars
    PROVE  QuietBus'
<1>0. /\ uart \in UartStates /\ Software.name # "guest" /\ HartInv
      /\ ~uart.dlab /\ posted \in Seq(QuietStores) /\ todo \in Seq(QuietStores)
      /\ pc \in Main \cup SHandler
  BY DEF PlatformInv, DevicesInv, Quiet, QuietBus
<1>1. csr'.mie \subseteq csr'.mideleg
  BY <1>0, EnablesKept DEF QuietBus
<1>2. CASE /\ pc' = pc /\ posted' = posted /\ todo' = todo
           /\ uart' \in {uart, stdin_push(uart, typed'), rx_pop(uart), read_IIR(uart)}
  <2> DEFINE ch == typed'
  <2>1. uart' \in {uart, stdin_push(uart, ch), rx_pop(uart), read_IIR(uart)}
    BY <1>2
  <2> HIDE DEF ch
  <2>2. uart'.dlab = uart.dlab
    BY <1>0, <2>1, UartDlab
  <2> QED
    BY <1>0, <1>1, <1>2, <2>2 DEF QuietBus
<1>3. CASE Drain
  <2> DEFINE w == Head(posted)
  <2>1. /\ posted # <<>> /\ posted' = Tail(posted) /\ pc' = pc /\ todo' = todo
    BY <1>3 DEF Drain, hartVars
  <2>2. w \in QuietStores /\ posted' \in Seq(QuietStores)
    BY <1>0, <2>1
  <2>3. w \in DeviceStores /\ w.reg # "LCR"
    BY <2>2 DEF QuietStores
  <2>4. uart'.dlab = uart.dlab
    <3>1. CASE w.dev = "uart"
      <4>1. write_uart(w)
        BY <1>3, <3>1 DEF Drain
      <4> HIDE DEF w
      <4>2. uart' \in {write_THR(uart), write_IER(uart, w.val), write_SCR(uart, w.val)}
        BY <2>3, <3>1, <4>1, StoreKinds DEF write_uart
      <4> QED
        BY <1>0, <4>2, UartDlab
    <3>2. CASE w.dev # "uart"
      <4>1. uart' = uart
        BY <1>3, <2>3, <3>2, StoreKinds
           DEF Drain, write_plic, write_clint, write_dma, write_memory
      <4> QED
        BY <4>1
    <3> QED
      BY <3>1, <3>2
  <2> QED
    BY <1>0, <1>1, <2>1, <2>2, <2>4 DEF QuietBus
<1>4. CASE Cycle
  <2>0. pc' \in Main \cup SHandler /\ ~MachineRearm /\ ~MachineReturn
    BY <1>0, <1>4, QuietLevels
  <2>1. uart' = uart
    BY <1>4 DEF Cycle, Interrupt, Asleep, Instruction, BootStep, Post, WaitForInterrupt,
         SupervisorLoads, LoadAt, read_claim, FromBuffer, begin_IIR, read_RBR,
         SupervisorCommits, CommitTo, SupervisorStores, SupervisorReturn, MachineRearm,
         MachineReturn, PollControl, read_control, GuestStep, GuestWfi, GuestStore,
         deviceVars
  <2>2. CASE BootStep /\ todo # <<>> /\ Post(Head(todo), Boot)
    <3>1. Head(todo) \in QuietStores /\ todo' = Tail(todo) /\ Tail(todo) \in Seq(QuietStores)
      BY <1>0, <2>2 DEF BootStep
    <3>2. posted' \in Seq(QuietStores)
      BY <2>2, <3>1, QuietPost
    <3> QED
      BY <1>0, <1>1, <2>0, <2>1, <3>1, <3>2 DEF QuietBus
  <2>3. CASE SupervisorStores
    <3> DEFINE x == Store("uart", "IER", uart.ier \ {THRI})
               y == Store("plic", "claim", UART_SOURCE)
    <3>1. x \in QuietStores /\ y \in QuietStores
      <4>1. uart.ier \ {THRI} \in SUBSET {RDA, THRI}
        BY <1>0 DEF UartStates
      <4>2. x \in DeviceStores /\ y \in DeviceStores
        BY <4>1 DEF Store, DeviceStores, UART_SOURCE
      <4>3. x.reg = "IER" /\ y.reg = "claim"
        BY DEF Store
      <4> QED
        BY <4>2, <4>3 DEF QuietStores
    <3>2. ~(uart.sent < Software.sends)
      BY <1>0 DEF Quiet, UartStates
    <3> HIDE DEF x, y
    <3>3. (Post(x, Identify) \/ Post(y, SReturn)) /\ todo' = todo
      BY <2>3, <3>2 DEF SupervisorStores, x, y
    <3>4. posted' \in Seq(QuietStores)
      BY <3>1, <3>3, QuietPost
    <3> QED
      BY <1>0, <1>1, <2>0, <2>1, <3>3, <3>4 DEF QuietBus
  <2>4. CASE posted' = posted /\ todo' = todo
    BY <1>0, <1>1, <2>0, <2>1, <2>4 DEF QuietBus
  <2>5. \/ BootStep /\ todo # <<>> /\ Post(Head(todo), Boot)
        \/ SupervisorStores
        \/ posted' = posted /\ todo' = todo
    BY <1>0, <1>4, <2>0 DEF Cycle, Interrupt, Asleep, Instruction, BootStep, WaitForInterrupt,
         SupervisorLoads, LoadAt, SupervisorCommits, CommitTo, SupervisorReturn,
         PollControl, GuestStep, GuestWfi, GuestStore, Guest, busVars
  <2> QED
    BY <2>2, <2>3, <2>4, <2>5
<1>5. CASE UNCHANGED vars \/ PlicOutput \/ ClintOutput \/ Tick \/ RxMonitor \/ WfiCheck
           \/ StdinByte \/ FinishAccess
  <2>1. /\ pc' = pc /\ posted' = posted /\ todo' = todo
        /\ uart' \in {uart, stdin_push(uart, typed'), rx_pop(uart), read_IIR(uart)}
    BY <1>5 DEF vars, PlicOutput, ClintOutput, Tick, RxMonitor, WfiCheck, StdinByte,
                FinishAccess, finish_RBR, finish_IIR, hartVars, busVars, deviceVars
  <2> QED
    BY <1>2, <2>1
<1> QED
  BY <1>3, <1>4, <1>5 DEF Next

\* A step that brings no byte to software and reports none.
LEMMA QuietIdle ==
    ASSUME NEW p, NEW x, NEW p2, NEW y, NEW g, NEW q, NEW a,
           QuietBytes(p, x, g, q, a), p # Receive \/ ~x.done, p2 # Receive,
           p2 # Identify \/ ~y.done \/ y.value # 4
    PROVE  QuietBytes(p2, y, g, q, a)
  BY DEF QuietBytes

LEMMA QuietLabels ==
    /\ Receive \notin Main /\ Identify \notin Main
    /\ Receive \notin {Claim, Identify, Poll, Boot, Idle, Transmit, Complete, SReturn}
    /\ Identify \notin {Claim, Poll, Boot, Idle, Transmit, Complete, SReturn}
<1>1. \A x, y : {x} = {y} => x = y
  OBVIOUS
<1> QED
  BY <1>1 DEF Boot, Idle, Poll, Claim, Identify, Receive, Transmit, Complete, SReturn, Main

LEMMA QuietCycle ==
    ASSUME PlatformInv, Nest, ByteInv, QuietBus, Quiet, Cycle,
           QuietBytes(pc, ex, got, uart.fifo, arrived)
    PROVE  QuietBytes(pc', ex', got', uart.fifo, arrived)
<1>0. /\ Software.name # "guest" /\ HartInv /\ csr.mie \subseteq csr.mideleg
      /\ ~uart.dlab /\ posted \in Seq(QuietStores) /\ ~NoLoad.done
      /\ ~MachineRearm /\ ~MachineReturn /\ (SupervisorReturn => pc' \in Main)
  BY QuietLevels DEF PlatformInv, Quiet, QuietBus, NoLoad
<1>1. CASE Interrupt
  <2>1. pc \in Main /\ pc' = Claim /\ ex' = NoLoad /\ got' = got
    BY <1>0, <1>1, QuietInterrupt DEF Interrupt
  <2> QED
    BY <1>0, <2>1, QuietIdle, QuietLabels
<1>2. CASE Asleep
  BY <1>2 DEF Asleep, busVars, historyVars
<1>3. CASE BootStep \/ WaitForInterrupt \/ SupervisorStores \/ SupervisorReturn
  <2>1. pc \in {Boot, Idle, Transmit, Complete, SReturn} /\ ex' = ex /\ got' = got
    BY <1>3 DEF BootStep, WaitForInterrupt, SupervisorStores, SupervisorReturn, at, Post,
                busVars, historyVars
  <2>2. ~ex.done
    BY <2>1, LoadLabels DEF ByteInv
  <2>3. pc' \in Main \/ pc' \in {Boot, Idle, Poll, Identify, SReturn}
    BY <1>0, <1>3 DEF BootStep, WaitForInterrupt, SupervisorStores, Post, at
  <2> QED
    BY <2>1, <2>2, <2>3, QuietIdle, QuietLabels
<1>4. CASE SupervisorLoads
  <2>0. pc' = pc /\ got' = got /\ ~ex.done
    BY <1>4 DEF SupervisorLoads, LoadAt, historyVars
  <2>1. CASE pc = Claim
    BY <2>0, <2>1, QuietIdle, QuietLabels
  <2>2. CASE LoadAt(Identify, begin_IIR)
    <3>1. pc = Identify /\ (ex' = ex \/ ex' = Loaded(iir(uart)))
      BY <2>2 DEF LoadAt, begin_IIR, at
    <3>2. CASE ex' = ex
      BY <2>0, <3>2
    <3>3. CASE ex' = Loaded(iir(uart))
      <4>1. ex'.value = iir(uart)
        BY <3>3 DEF Loaded
      <4>2. iir(uart) = 4 => uart.fifo # <<>>
        BY DEF iir, rx_fifo_empty
      <4>3. QuietBytes(pc, ex, got, uart.fifo, arrived) /\ pc # Receive
        BY <3>1, QuietLabels
      <4> QED
        BY <2>0, <3>1, <4>1, <4>2, <4>3 DEF QuietBytes
    <3> QED
      BY <3>1, <3>2, <3>3
  <2>3. CASE LoadAt(Receive, read_RBR)
    <3>1. pc = Receive /\ read_RBR
      BY <2>3 DEF LoadAt, at
    <3>2. Buffered("uart", "THR") = {}
      <4>1. \A i \in DOMAIN posted : posted[i] \in QuietStores
        BY <1>0, LenProperties, ElementOfSeq
      <4> QED
        BY <4>1 DEF Buffered, QuietStores
    <3>3. uart.fifo # <<>>
      BY <2>0, <3>1 DEF QuietBytes
    <3>4. ex' = ex
      BY <1>0, <3>1, <3>2, <3>3 DEF read_RBR, FromBuffer, rx_fifo_empty
    <3> QED
      BY <2>0, <3>4
  <2> QED
    BY <1>4, <2>1, <2>2, <2>3 DEF SupervisorLoads, LoadAt, at
<1>5. CASE SupervisorCommits
  <2>0. ex.done /\ ex' = NoLoad
    BY <1>5 DEF SupervisorCommits, CommitTo
  <2>1. CASE pc = Claim /\ pc' \in {SReturn, Identify} /\ got' = got
    BY <1>0, <2>0, <2>1, QuietIdle, QuietLabels
  <2>2. CASE pc = Identify /\ got' = got /\ pc' \in {Transmit, Complete}
    BY <1>0, <2>0, <2>2, QuietIdle, QuietLabels
  <2>3. CASE pc = Identify /\ got' = got /\ ex.value = 4 /\ pc' = Receive
    <3>1. QuietBytes(pc, ex, got, uart.fifo, arrived) /\ Identify # Receive
      BY QuietLabels
    <3> QED
      BY <1>0, <2>0, <2>3, <3>1 DEF QuietBytes
  <2>4. CASE /\ pc = Receive /\ pc' = Identify
             /\ got' = IF ex.value = SENT_CHAR THEN got ELSE Append(got, ex.value)
    <3> DEFINE v == ex.value
               q == uart.fifo
    <3>1. /\ v # SENT_CHAR /\ got \o <<v>> \o q = arrived
      BY <2>0, <2>4 DEF QuietBytes
    <3>2. got \in Seq(Nat) /\ v \in Nat
      BY <2>0, <2>4 DEF ByteInv, Flying
    <3>3. q \in Seq(Nat)
      BY DEF PlatformInv, DevicesInv, UartStates
    <3>4. got' = Append(got, v)
      BY <2>4, <3>1
    <3> HIDE DEF v, q
    <3>7. Append(got, v) \o <<>> \o q = arrived
      BY <3>1, <3>2, <3>3, HandOver
    <3>8. pc' # Receive
      BY <2>4, QuietLabels
    <3> QED
      BY <1>0, <2>0, <2>4, <3>4, <3>7, <3>8 DEF QuietBytes, q
  <2>5. \/ pc = Claim /\ pc' \in {SReturn, Identify} /\ got' = got
        \/ pc = Identify /\ got' = got /\ pc' \in {Transmit, Complete}
        \/ pc = Identify /\ got' = got /\ ex.value = 4 /\ pc' = Receive
        \/ /\ pc = Receive /\ pc' = Identify
           /\ got' = IF ex.value = SENT_CHAR THEN got ELSE Append(got, ex.value)
    BY <1>5 DEF SupervisorCommits, CommitTo, at
  <2> QED
    BY <2>1, <2>2, <2>3, <2>4, <2>5
<1>6. CASE PollControl
  <2>1. pc = Poll /\ pc' \in {Poll, Idle} /\ got' = got
    BY <1>6 DEF PollControl, LoadAt, at, CommitTo, historyVars
  <2> QED
    BY <2>1, QuietIdle, QuietLabels
<1>7. ~GuestStep /\ ~GuestWfi /\ ~GuestStore
  BY <1>0 DEF GuestStep, GuestWfi, GuestStore, Guest
<1> QED
  BY <1>0, <1>1, <1>2, <1>3, <1>4, <1>5, <1>6, <1>7 DEF Cycle, Instruction

LEMMA QuietBytesStep ==
    ASSUME PlatformInv, Nest, ByteInv, TypedBytes, QuietBus, Quiet, [Next]_vars,
           QuietBytes(pc, ex, got, uart.fifo, arrived)
    PROVE  QuietBytes(pc', ex', got', uart'.fifo, arrived')
<1> DEFINE q == uart.fifo
           f == IF pc = Receive /\ ex.done THEN <<ex.value>> ELSE <<>>
<1>0. /\ uart \in UartStates /\ Len(q) <= FifoDepth /\ q \in Seq(Nat) /\ typed \in Nat
      /\ got \in Seq(Nat) /\ arrived \in Seq(Nat) /\ got \o f \o q = arrived
  BY DEF PlatformInv, DevicesInv, UartStates, BusInv, ByteInv, TypedBytes, QuietBytes
<1>1. CASE StdinByte
  <2>1. /\ ex' = ex /\ pc' = pc /\ got' = got /\ uart' = stdin_push(uart, typed + 1)
        /\ arrived' = IF Accepts(uart) THEN Append(arrived, typed + 1) ELSE arrived
    BY <1>1 DEF StdinByte, hartVars, busVars
  <2>2. typed + 1 \in Nat
    BY <1>0
  <2>3. uart'.fifo = IF Accepts(uart) THEN Append(q, typed + 1) ELSE q
    BY <1>0, <2>1, <2>2, UartFifo
  <2>4. CASE ~Accepts(uart)
    BY <2>1, <2>3, <2>4
  <2>5. CASE Accepts(uart)
    <3>1. f \in Seq(Nat)
      <4>1. pc = Receive /\ ex.done => ex.value \in Nat
        BY DEF ByteInv, Flying
      <4> QED
        BY <4>1
    <3> DEFINE v == typed + 1
    <3>2. v \in Nat /\ uart'.fifo = Append(q, v) /\ arrived' = Append(arrived, v)
      BY <2>1, <2>2, <2>3, <2>5
    <3> HIDE DEF v, f, q
    <3>3. got \o f \o Append(q, v) = Append(arrived, v)
      <4>1. got \in Seq(Nat) /\ f \in Seq(Nat) /\ q \in Seq(Nat) /\ v \in Nat
        BY <1>0, <3>1, <3>2
      <4>2. got \o f \o Append(q, v) = Append(got \o f \o q, v)
        BY <4>1, TakeIn
      <4> QED
        BY <1>0, <4>2
    <3>4. Append(q, v) # <<>>
      BY <1>0, <3>2, AppendProperties
    <3>5. got' \o f \o uart'.fifo = arrived' /\ uart'.fifo # <<>>
      BY <2>1, <3>2, <3>3, <3>4
    <3> QED
      BY <2>1, <3>5 DEF QuietBytes, f
  <2> QED
    BY <2>4, <2>5
<1>2. CASE FinishAccess /\ finish_RBR
  <2>1. /\ pc' = pc /\ got' = got /\ arrived' = arrived /\ pc = Receive /\ ~ex.done
        /\ ex' = Loaded(Head(q)) /\ q # <<>> /\ uart' = rx_pop(uart)
    BY <1>2 DEF FinishAccess, finish_RBR, PlatformInv, DevicesInv, ByteInv, hartVars,
                historyVars
  <2>2. uart'.fifo = Tail(q)
    BY <1>0, <2>1, UartFifo
  <2>3. got \o <<>> \o q = arrived
    BY <1>0, <2>1
  <2>4. Head(q) # SENT_CHAR
    <3>1. q \in Seq(0..(SENT_CHAR - 1))
      BY DEF TypedBytes
    <3> DEFINE B == 0..(SENT_CHAR - 1)
    <3>2. q \in Seq(B) /\ q # <<>>
      BY <2>1, <3>1
    <3> HIDE DEF B, q
    <3>3. Head(q) \in B
      BY <3>2
    <3> QED
      BY <3>3 DEF SENT_CHAR, B
  <2> DEFINE v == Head(q)
  <2>6. got \o <<v>> \o Tail(q) = arrived
    <3>1. got \in Seq(Nat) /\ q \in Seq(Nat) /\ q # <<>>
      BY <1>0, <2>1
    <3> HIDE DEF q
    <3>2. got \o <<Head(q)>> \o Tail(q) = got \o <<>> \o q
      BY <3>1, Load
    <3> QED
      BY <2>3, <3>2
  <2>7. ex'.done = TRUE /\ ex'.value = v
    BY <2>1 DEF Loaded
  <2> HIDE DEF v, q
  <2>8. v # SENT_CHAR /\ Receive # Identify
    BY <2>4, QuietLabels DEF v
  <2> QED
    BY <2>1, <2>2, <2>6, <2>7, <2>8 DEF QuietBytes
<1>3. CASE FinishAccess /\ finish_IIR
  <2>1. /\ pc' = pc /\ got' = got /\ arrived' = arrived /\ pc = Identify
        /\ ex' = Loaded(2)
    BY <1>3 DEF FinishAccess, finish_IIR, ByteInv, hartVars, historyVars
  <2>2. uart'.fifo = q
    BY <1>0, <1>3, UartRegisters DEF finish_IIR
  <2>3. ex'.value = 2
    BY <2>1 DEF Loaded
  <2> QED
    BY <2>1, <2>2, <2>3, QuietIdle, QuietLabels
<1>4. CASE Drain
  BY <1>4, DrainFifo DEF Drain, hartVars, historyVars
<1>5. CASE UNCHANGED vars \/ PlicOutput \/ ClintOutput \/ Tick \/ RxMonitor \/ WfiCheck
  BY <1>5 DEF vars, PlicOutput, ClintOutput, Tick, RxMonitor, WfiCheck, hartVars, busVars,
              historyVars, deviceVars
<1>6. CASE Cycle
  <2>1. uart' = uart /\ arrived' = arrived
    BY <1>6 DEF Cycle, Interrupt, Asleep, Instruction, BootStep, Post, WaitForInterrupt,
         SupervisorLoads, LoadAt, read_claim, FromBuffer, begin_IIR, read_RBR,
         SupervisorCommits, CommitTo, SupervisorStores, SupervisorReturn, MachineRearm,
         MachineReturn, PollControl, read_control, GuestStep, GuestWfi, GuestStore,
         deviceVars, historyVars
  <2> QED
    BY <1>6, <2>1, QuietCycle
<1> QED
  BY <1>1, <1>2, <1>3, <1>4, <1>5, <1>6 DEF Next, FinishAccess

LEMMA SameProgram ==
    ASSUME [Next]_vars
    PROVE  program' = program
  BY DEF Next, vars, PlicOutput, ClintOutput, Tick, RxMonitor, Drain, StdinByte, WfiCheck,
         FinishAccess, Cycle, Interrupt, Asleep, Instruction, BootStep, Post,
         WaitForInterrupt, SupervisorLoads, LoadAt, SupervisorCommits, CommitTo,
         SupervisorStores, SupervisorReturn, MachineRearm, MachineReturn, PollControl,
         GuestStep, GuestWfi, GuestStore

LEMMA QuietStep ==
    ASSUME PlatformInv, Nest, ByteInv, QuietInv, [Next]_vars
    PROVE  QuietInv'
<1>1. TypedBytes'
  BY TypedStep DEF QuietInv
<1>2. Quiet' => Quiet
  BY SameProgram DEF Quiet, Software
<1>3. ASSUME Quiet PROVE QuietBus' /\ QuietBytes(pc', ex', got', uart'.fifo, arrived')
  <2>1. TypedBytes /\ QuietBus /\ QuietBytes(pc, ex, got, uart.fifo, arrived)
    BY <1>3 DEF QuietInv
  <2> QED
    BY <1>3, <2>1, QuietBusStep, QuietBytesStep
<1> QED
  BY <1>1, <1>2, <1>3 DEF QuietInv

LEMMA ConsoleInOrder ==
    ASSUME PlatformInv, ByteInv, QuietInv
    PROVE  BytesInOrder
<1> DEFINE q == uart.fifo
           f == InFlight
           s == got \o f \o q
<1>1. /\ got \in Seq(Nat) /\ q \in Seq(Nat) /\ typed \in Nat
      /\ Ordered(got, Flying, q, typed)
  BY DEF PlatformInv, DevicesInv, UartStates, BusInv, ByteInv
<1>2. f \in Seq(Nat) /\ (f = <<>> \/ \E v \in Flying : f = <<v>>)
  <2>1. CASE pc = Receive /\ ex.done
    <3>1. Flying = {ex.value} /\ f = <<ex.value>> /\ ex.value \in Nat
      BY <2>1 DEF ByteInv, Flying, InFlight
    <3> QED
      BY <3>1
  <2>2. CASE ~(pc = Receive /\ ex.done)
    BY <2>2 DEF InFlight
  <2> QED
    BY <2>1, <2>2
<1>3. ASSUME ~Software.timer, Software.sends = 0 PROVE s = arrived
  <2>1. CASE Software.name # "guest"
    BY <1>3, <2>1 DEF QuietInv, Quiet, QuietBytes, InFlight
  <2>2. CASE Software.name = "guest"
    <3>1. got = <<>> /\ q = arrived /\ ~ex.done
      BY <2>2 DEF QuietInv, TypedBytes, ByteInv
    <3>2. s = <<>> \o <<>> \o q
      BY <3>1 DEF InFlight
    <3> HIDE DEF q
    <3>3. <<>> \o <<>> \o q = q
      <4>1. <<>> \o <<>> = <<>>
        OBVIOUS
      <4>2. <<>> \o q = q
        BY <1>1, ConcatEmptySeq
      <4> QED
        BY <4>1, <4>2
    <3> QED
      BY <3>1, <3>2, <3>3
  <2> QED
    BY <2>1, <2>2
<1> HIDE DEF q, f
<1>4. ASSUME NEW i \in 1..Len(s), NEW j \in 1..Len(s), i < j, Real(s[i]), Real(s[j])
      PROVE  s[i] < s[j]
  <2> DEFINE r == s
  <2>1. r = got \o f \o q /\ i \in 1..Len(r) /\ j \in 1..Len(r) /\ i < j
    BY <1>4
  <2> HIDE DEF r
  <2>2. Before(r[i], r[j])
    BY <1>1, <1>2, <2>1, OrderedSeen
  <2> QED
    BY <1>4, <2>2 DEF Before, r
<1> QED
  BY <1>3, <1>4 DEF BytesInOrder, Real, q, f

\* Software receives the bytes taken into the receive FIFO in their order: all of
\* them if no machine interrupt can come between a load of RBR and its commit and
\* nothing is transmitted, and otherwise some may be missing, none reordered (UART.h,
\* rx_pop and stdin_reader, with cpu_process_IRQ, which drops the load in EX).
THEOREM BytesInOrderHolds == Spec => []BytesInOrder
<1> DEFINE I == PlatformInv /\ Nest /\ ByteInv /\ QuietInv
<1>1. Init => I
  BY PlatformInvInit, NestInit, ByteInit, QuietInit
<1>2. I /\ [Next]_vars => I'
  <2> SUFFICES ASSUME PlatformInv, Nest, ByteInv, QuietInv, [Next]_vars
               PROVE  PlatformInv' /\ Nest' /\ ByteInv' /\ QuietInv'
    OBVIOUS
  <2>1. PlatformInv'
    BY PlatformInvStep
  <2>2. Nest'
    BY NestStepLemma DEF NestStep, PlatformInv
  <2>3. ByteInv'
    BY ByteStep
  <2>4. QuietInv'
    BY QuietStep
  <2> QED
    BY <2>1, <2>2, <2>3, <2>4
<1>3. I => BytesInOrder
  BY ConsoleInOrder
<1> HIDE DEF I
<1> QED
  BY <1>1, <1>2, <1>3, PTL DEF Spec

-----------------------------------------------------------------------------
(* The DMA engine *)

DmaStates == [src : Nat, dst : Nat, len : Nat, start : BOOLEAN]

\* The stores of the program that copies.
LEMMA DmaBoots ==
    ASSUME NEW k \in DOMAIN Programs, Programs[k].name = "dma", NEW b \in Programs[k].boots
    PROVE  /\ b \in Seq(DeviceStores) /\ Len(b) = 5
           /\ \A i \in 1..5 : b[i] \in DeviceStores
           /\ b[1].dev = "mem" /\ b[1].reg = "byte"
           /\ \A i \in 2..4 : /\ b[i].dev = "dma" /\ b[i].reg \in {"src", "dst", "len"}
                              /\ b[i].val \in Nat
           /\ b[5].dev = "dma" /\ b[5].reg = "control" /\ b[5].val = TRUE
           /\ Programs[k].source = bus_write(StartMemory, b[1].val.address, 1,
                                             [i \in {0} |-> b[1].val.data])
<1> DEFINE r == [i \in DOMAIN b |-> b[i].reg]
           s == <<"byte", "src", "dst", "len", "control">>
<1>1. r = s /\ b[5].val
  BY DmaAssumption
<1>2. b \in Seq(DeviceStores)
  BY ProgramsAssumption
<1>3. DOMAIN b = 1..Len(b) /\ Len(b) \in Nat
  BY <1>2, LenProperties
<1>4. DOMAIN s = 1..5
  OBVIOUS
<1>5. DOMAIN b = 1..5
  <2>1. DOMAIN r = DOMAIN b
    OBVIOUS
  <2> HIDE DEF r, s
  <2> QED
    BY <1>1, <1>4, <2>1
<1>6. Len(b) = 5
  <2> DEFINE n == Len(b)
  <2>1. n \in Nat /\ 1..n = 1..5
    BY <1>3, <1>5
  <2> HIDE DEF n
  <2>2. n = 5
    BY <2>1
  <2> QED
    BY <2>2 DEF n
<1>7. \A i \in 1..5 : b[i] \in DeviceStores /\ b[i].reg = s[i]
  <2>1. \A i \in 1..5 : r[i] = b[i].reg
    BY <1>5
  <2>2. \A i \in 1..5 : b[i] \in DeviceStores
    BY <1>2, <1>6, ElementOfSeq
  <2> HIDE DEF r, s
  <2> QED
    BY <1>1, <2>1, <2>2
<1>8. /\ s[1] = "byte" /\ s[2] = "src" /\ s[3] = "dst" /\ s[4] = "len" /\ s[5] = "control"
  OBVIOUS
<1> HIDE DEF s
<1>9. \A w \in DeviceStores :
        /\ w.reg = "byte" => w.dev = "mem"
        /\ w.reg \in {"src", "dst", "len"} => w.dev = "dma" /\ w.val \in Nat
        /\ w.reg = "control" => w.dev = "dma" /\ w.val \in BOOLEAN
  BY DEF DeviceStores
<1>10. \A i \in 2..4 : s[i] \in {"src", "dst", "len"} /\ i \in 1..5
  BY <1>8
<1>11. b[1].dev = "mem" /\ b[1].reg = "byte"
  BY <1>7, <1>8, <1>9
<1>12. \A i \in 2..4 : /\ b[i].dev = "dma" /\ b[i].reg \in {"src", "dst", "len"}
                       /\ b[i].val \in Nat
  BY <1>7, <1>9, <1>10
<1>13. b[5].dev = "dma" /\ b[5].reg = "control" /\ b[5].val = TRUE
  BY <1>1, <1>7, <1>8, <1>9
<1> QED
  BY <1>2, <1>6, <1>7, <1>11, <1>12, <1>13, DmaAssumption

\* Of the stores of b, n have reached the devices and m have entered the buffer.
DmaAt(b, n, m) ==
    /\ n <= m
    /\ Len(todo) = 5 - m /\ \A j \in 1..Len(todo) : todo[j] = b[m + j]
    /\ Len(posted) = m - n /\ \A j \in 1..Len(posted) : posted[j] = b[n + j]
    /\ mem = IF n = 0 THEN StartMemory
             ELSE IF n < 5 THEN Software.source
             ELSE start_transfer(dma, Software.source)
    /\ pc # Boot => m = 5
    /\ pc = Idle => n = 5
    /\ pc = Poll /\ ex.done => ex.value = TRUE \/ n = 5

\* The inductive invariant of the program that copies: interrupts are off, so the
\* stores follow each other, and the start bit reads as clear only after the last.
DmaInv ==
    Software.name = "dma" =>
        /\ csr.mie = {} /\ pc \in Main /\ dma \in DmaStates
        /\ \E b \in Software.boots : \E n, m \in 0..5 : DmaAt(b, n, m)

\* What is copied.
LEMMA Copied ==
    ASSUME NEW source, NEW d \in DmaStates, NEW x, x = start_transfer(d, source),
           InMemory(x, d.src, d.len), InMemory(x, d.dst, d.len), NEW i \in 0..(d.len - 1)
    PROVE  x[d.dst + i] = source[d.src + i]
<1> DEFINE a == d.dst
           s == d.src
           l == d.len
           buffer == bus_read(source, s, l)
           k == a + i
<1>1. a \in Nat /\ s \in Nat /\ l \in Nat /\ l # 0 /\ i \in 0..(l - 1)
  BY DEF DmaStates
<1>2. x = bus_write(source, a, l, buffer)
  BY <1>1 DEF start_transfer
<1> HIDE DEF buffer, a, s, l
<1>3. InMemory(source, a, l) /\ InMemory(source, s, l)
  <2>1. InMemory(x, a, l) /\ InMemory(x, s, l)
    BY DEF a, s, l
  <2>2. CASE ~InMemory(source, a, l)
    BY <1>2, <2>1, <2>2 DEF bus_write
  <2>3. CASE InMemory(source, a, l)
    <3>1. DOMAIN x = DOMAIN source
      BY <1>2, <2>3 DEF bus_write
    <3> QED
      BY <2>1, <3>1 DEF InMemory
  <2> QED
    BY <2>2, <2>3
<1>4. k \in a..(a + l - 1) /\ k - a = i
  BY <1>1
<1>5. k \in DOMAIN source
  BY <1>3, <1>4 DEF InMemory
<1> HIDE DEF k
<1>6. x[k] = buffer[k - a]
  BY <1>2, <1>3, <1>4, <1>5 DEF bus_write
<1>7. buffer[i] = source[s + i]
  BY <1>1, <1>3 DEF bus_read, buffer
<1>8. x[k] = source[s + i]
  BY <1>4, <1>6, <1>7
<1> QED
  BY <1>8 DEF k, a, s

LEMMA DmaInit == Init => DmaInv
<1> SUFFICES ASSUME Init, Software.name = "dma"
             PROVE  /\ csr.mie = {} /\ pc \in Main /\ dma \in DmaStates
                    /\ \E b \in Software.boots : \E n, m \in 0..5 : DmaAt(b, n, m)
  BY DEF DmaInv
<1>1. /\ program \in DOMAIN Programs /\ todo \in Software.boots /\ csr = Software.csr
      /\ pc = Boot /\ posted = <<>> /\ ex.done = FALSE /\ dma = ResetDma
      /\ mem = StartMemory
  BY DEF Init, NoLoad
<1>2. csr.mie = {}
  BY <1>1, DmaAssumption DEF Software
<1>3. dma \in DmaStates /\ pc \in Main
  BY <1>1 DEF DmaStates, ResetDma, Main
<1>4. Len(todo) = 5
  BY <1>1, DmaBoots DEF Software
<1>5. Boot # Idle
  <2>1. \A x, y : {x} = {y} => x = y
    OBVIOUS
  <2> QED
    BY <2>1 DEF Boot, Idle
<1>6. DmaAt(todo, 0, 0)
  <2>1. \A j \in 1..Len(todo) : todo[j] = todo[0 + j]
    BY <1>4
  <2>2. Len(posted) = 0 - 0 /\ \A j \in 1..Len(posted) : posted[j] = todo[0 + j]
    BY <1>1
  <2> QED
    BY <1>1, <1>4, <1>5, <2>1, <2>2 DEF DmaAt
<1> QED
  BY <1>1, <1>2, <1>3, <1>6

\* The oldest store arrives.
LEMMA DmaDrain ==
    ASSUME PlatformInv, Software.name = "dma", dma \in DmaStates, Drain,
           NEW b \in Software.boots, NEW n \in 0..5, NEW m \in 0..5, DmaAt(b, n, m)
    PROVE  n + 1 \in 0..5 /\ dma' \in DmaStates /\ DmaAt(b, n + 1, m)'
<1> DEFINE w == Head(posted)
<1>1. /\ posted # <<>> /\ posted' = Tail(posted) /\ posted \in Seq(DeviceStores)
      /\ todo' = todo /\ pc' = pc /\ ex' = ex /\ program' = program
  BY DEF PlatformInv, BusInv, Drain, hartVars
<1>2. /\ Len(posted') = Len(posted) - 1 /\ Len(posted) \in Nat \ {0} /\ w = posted[1]
      /\ \A j \in 1..Len(posted') : posted'[j] = posted[j + 1]
  BY <1>1, HeadTailProperties, LenProperties, EmptySeq
<1>3. /\ n <= m /\ Len(posted) = m - n /\ \A j \in 1..Len(posted) : posted[j] = b[n + j]
      /\ mem = IF n = 0 THEN StartMemory
               ELSE IF n < 5 THEN Software.source
               ELSE start_transfer(dma, Software.source)
  BY DEF DmaAt
<1>4. n < m /\ n + 1 \in 1..5 /\ n + 1 <= m
  BY <1>2, <1>3
<1>5. w = b[n + 1]
  BY <1>2, <1>3
<1>6. Len(posted') = m - (n + 1) /\ \A j \in 1..Len(posted') : posted'[j] = b[(n + 1) + j]
  <2>1. Len(posted') = m - (n + 1)
    BY <1>2, <1>3
  <2>2. ASSUME NEW j \in 1..Len(posted') PROVE posted'[j] = b[(n + 1) + j]
    <3> DEFINE i == j + 1
    <3>1. i \in 1..Len(posted) /\ n + i = (n + 1) + j
      BY <1>2, <1>3
    <3>2. posted'[j] = posted[i]
      BY <1>2
    <3> HIDE DEF i
    <3>3. posted[i] = b[n + i]
      BY <1>3, <3>1
    <3> QED
      BY <3>1, <3>2, <3>3
  <2> QED
    BY <2>1, <2>2
<1>7. program \in DOMAIN Programs
  BY DEF PlatformInv, HartInv
<1>8. /\ b[1].dev = "mem" /\ b[1].reg = "byte"
      /\ \A i \in 2..4 : /\ b[i].dev = "dma" /\ b[i].reg \in {"src", "dst", "len"}
                         /\ b[i].val \in Nat
      /\ b[5].dev = "dma" /\ b[5].reg = "control" /\ b[5].val = TRUE
      /\ Software.source = bus_write(StartMemory, b[1].val.address, 1,
                                     [i \in {0} |-> b[1].val.data])
  BY <1>7, DmaBoots DEF Software
<1>9. /\ dma' \in DmaStates
      /\ mem' = IF n + 1 < 5 THEN Software.source ELSE start_transfer(dma', Software.source)
  <2>1. CASE n = 0
    <3>1. w = b[1]
      BY <1>5, <2>1
    <3>2. w.dev = "mem"
      BY <1>8, <3>1
    <3>3. write_memory(w)
      BY <3>2 DEF Drain
    <3>4. mem' = Software.source /\ dma' = dma
      BY <1>3, <1>8, <2>1, <3>1, <3>3 DEF write_memory
    <3> QED
      BY <2>1, <3>4
  <2>2. CASE n \in 1..3
    <3>1. n + 1 \in 2..4 /\ n + 1 < 5 /\ n # 0 /\ n < 5
      BY <2>2
    <3>2. w.dev = "dma" /\ w.reg \in {"src", "dst", "len"} /\ w.val \in Nat
      <4> DEFINE i == n + 1
      <4>1. i \in 2..4 /\ w = b[i]
        BY <1>5, <3>1
      <4> HIDE DEF i, w
      <4> QED
        BY <1>8, <4>1
    <3>3. write_dma(w)
      BY <3>2 DEF Drain
    <3> HIDE DEF w
    <3>4. mem' = mem /\ dma' = [dma EXCEPT ![w.reg] = w.val]
      BY <3>2, <3>3 DEF write_dma, write_register
    <3>5. dma' \in DmaStates
      BY <3>2, <3>4 DEF DmaStates
    <3> QED
      BY <1>3, <3>1, <3>4, <3>5
  <2>3. CASE n = 4
    <3>1. w = b[5]
      BY <1>5, <2>3
    <3>2. w.dev = "dma" /\ w.reg = "control" /\ w.val = TRUE
      BY <1>8, <3>1
    <3>3. write_dma(w)
      BY <3>2 DEF Drain
    <3> HIDE DEF w
    <3>4. mem = Software.source
      BY <1>3, <2>3
    <3>5. mem' = start_transfer(dma, Software.source) /\ dma' = write_control(dma, TRUE)
      BY <3>2, <3>3, <3>4 DEF write_dma
    <3>6. dma' \in DmaStates /\ dma'.src = dma.src /\ dma'.dst = dma.dst /\ dma'.len = dma.len
      <4> DEFINE e == TRUE /\ dma.len = 0
      <4>1. e \in BOOLEAN
        OBVIOUS
      <4>2. dma' = [dma EXCEPT !.start = e]
        BY <3>5 DEF write_control
      <4> HIDE DEF e
      <4> QED
        BY <4>1, <4>2 DEF DmaStates
    <3>7. start_transfer(dma, Software.source) = start_transfer(dma', Software.source)
      BY <3>6 DEF start_transfer
    <3>8. ~(n + 1 < 5)
      BY <2>3
    <3>9. mem' = start_transfer(dma', Software.source)
      BY <3>5, <3>7
    <3> QED
      BY <3>6, <3>8, <3>9
  <2>4. n = 0 \/ n \in 1..3 \/ n = 4
    BY <1>4
  <2> QED
    BY <2>1, <2>2, <2>3, <2>4
<1>10. n # 5 /\ pc # Idle /\ (pc # Boot => m = 5) /\ (pc = Poll /\ ex.done => ex.value = TRUE)
  BY <1>4 DEF DmaAt
<1>11. Len(todo) = 5 - m /\ \A j \in 1..Len(todo) : todo[j] = b[m + j]
  BY DEF DmaAt
<1>12. n + 1 # 0 /\ n + 1 \in 0..5
  BY <1>4
<1> HIDE DEF w
<1> QED
  BY <1>1, <1>4, <1>6, <1>9, <1>10, <1>11, <1>12 DEF DmaAt, Software

\* The boot code posts the next store, and polls when there is none.
LEMMA DmaBoot ==
    ASSUME PlatformInv, ByteInv, Software.name = "dma", BootStep,
           NEW b \in Software.boots, NEW n \in 0..5, NEW m \in 0..5, DmaAt(b, n, m)
    PROVE  pc' \in Main /\ \E i \in 0..5 : DmaAt(b, n, i)'
<1>0. /\ pc = Boot /\ ex' = ex /\ mem' = mem /\ dma' = dma /\ program' = program
      /\ pc' \in {Boot, Poll}
  BY DEF BootStep, at, Post, busVars, deviceVars
<1>1. /\ n <= m /\ Len(todo) = 5 - m /\ Len(posted) = m - n
      /\ \A j \in 1..Len(todo) : todo[j] = b[m + j]
      /\ \A j \in 1..Len(posted) : posted[j] = b[n + j]
      /\ mem = IF n = 0 THEN StartMemory
               ELSE IF n < 5 THEN Software.source
               ELSE start_transfer(dma, Software.source)
  BY DEF DmaAt
<1>2. posted \in Seq(DeviceStores) /\ todo \in Seq(DeviceStores)
  BY DEF PlatformInv, BusInv
<1>3. Boot \in Main /\ Poll \in Main /\ Boot # Poll /\ Boot # Idle /\ Poll # Idle
  <2>1. \A x, y : {x} = {y} => x = y
    OBVIOUS
  <2> QED
    BY <2>1 DEF Main, Boot, Poll, Idle
<1>4. CASE todo # <<>> /\ Post(Head(todo), Boot) /\ todo' = Tail(todo)
  <2>1. /\ pc' = Boot /\ posted' = Append(posted, Head(todo))
    BY <1>4 DEF Post
  <2>2. /\ Len(todo') = Len(todo) - 1 /\ Len(todo) \in Nat \ {0} /\ Head(todo) = todo[1]
        /\ \A j \in 1..Len(todo') : todo'[j] = todo[j + 1]
    BY <1>2, <1>4, HeadTailProperties, LenProperties, EmptySeq
  <2>3. Head(todo) \in DeviceStores
    BY <1>2, <1>4
  <2> DEFINE w == Head(todo)
  <2>4. w = b[m + 1] /\ m + 1 \in 0..5 /\ m < 5
    BY <1>1, <2>2
  <2> HIDE DEF w
  <2>5. /\ Len(posted') = Len(posted) + 1 /\ posted'[Len(posted) + 1] = w
        /\ \A j \in 1..Len(posted) : posted'[j] = posted[j]
    BY <1>2, <2>1, <2>3, AppendProperties DEF w
  <2>6. Len(posted) \in Nat
    BY <1>1
  <2>7. /\ Len(posted') = (m + 1) - n
        /\ \A j \in 1..Len(posted') : posted'[j] = b[n + j]
    <3>1. Len(posted') = (m + 1) - n
      BY <1>1, <2>5
    <3>2. ASSUME NEW j \in 1..Len(posted') PROVE posted'[j] = b[n + j]
      <4>1. CASE j \in 1..Len(posted)
        BY <1>1, <2>5, <4>1
      <4>2. CASE j = Len(posted) + 1
        <5>1. n + j = m + 1
          BY <1>1, <4>2
        <5> QED
          BY <2>4, <2>5, <4>2, <5>1
      <4> QED
        BY <2>5, <2>6, <4>1, <4>2
    <3> QED
      BY <3>1, <3>2
  <2>8. /\ Len(todo') = 5 - (m + 1)
        /\ \A j \in 1..Len(todo') : todo'[j] = b[(m + 1) + j]
    <3>1. Len(todo') = 5 - (m + 1)
      BY <1>1, <2>2
    <3>2. ASSUME NEW j \in 1..Len(todo') PROVE todo'[j] = b[(m + 1) + j]
      <4> DEFINE i == j + 1
      <4>1. i \in 1..Len(todo) /\ m + i = (m + 1) + j
        BY <1>1, <2>2
      <4>2. todo'[j] = todo[i]
        BY <2>2
      <4> HIDE DEF i
      <4>3. todo[i] = b[m + i]
        BY <1>1, <4>1
      <4> QED
        BY <4>1, <4>2, <4>3
    <3> QED
      BY <3>1, <3>2
  <2>9. n <= m + 1
    BY <1>1
  <2>10. DmaAt(b, n, m + 1)'
    BY <1>0, <1>1, <1>3, <2>1, <2>7, <2>8, <2>9 DEF DmaAt, Software
  <2> QED
    BY <1>3, <2>1, <2>4, <2>10
<1>5. CASE todo = <<>> /\ todo' = todo /\ posted' = posted
  <2>1. m = 5
    BY <1>1, <1>5
  <2>2. ~ex.done
    BY <1>0, LoadLabels DEF ByteInv
  <2>3. DmaAt(b, n, m)'
    BY <1>0, <1>1, <1>3, <1>5, <2>1, <2>2 DEF DmaAt, Software
  <2> QED
    BY <1>0, <1>3, <2>3
<1> QED
  BY <1>4, <1>5 DEF BootStep, busVars

\* A load of the control register sees the store that is still in the buffer.
LEMMA DmaPoll ==
    ASSUME PlatformInv, Software.name = "dma", PollControl, pc = Poll,
           NEW b \in Software.boots, NEW n \in 0..5, NEW m \in 0..5, DmaAt(b, n, m)
    PROVE  pc' \in Main /\ DmaAt(b, n, m)'
<1>0. /\ program \in DOMAIN Programs /\ program' = program /\ posted' = posted
      /\ todo' = todo /\ mem' = mem /\ dma' = dma
  BY DEF PlatformInv, HartInv, PollControl, LoadAt, read_control, FromBuffer, CommitTo,
         deviceVars
<1>1. Poll \in Main /\ Idle \in Main /\ Poll # Boot /\ Poll # Idle
  <2>1. \A x, y : {x} = {y} => x = y
    OBVIOUS
  <2> QED
    BY <2>1 DEF Main, Boot, Poll, Idle
<1>2. /\ m = 5 /\ n <= 5 /\ Len(posted) = 5 - n
      /\ \A j \in 1..Len(posted) : posted[j] = b[n + j]
      /\ ex.done => ex.value = TRUE \/ n = 5
  BY <1>1 DEF DmaAt
<1>3. /\ b[1].reg = "byte" /\ \A i \in 2..4 : b[i].reg \in {"src", "dst", "len"}
      /\ b[5].dev = "dma" /\ b[5].reg = "control" /\ b[5].val = TRUE
  BY <1>0, DmaBoots DEF Software
<1>4. \A i \in 1..5 : b[i].reg = "control" => i = 5
  BY <1>3
<1>5. posted \in Seq(DeviceStores) /\ DOMAIN posted = 1..Len(posted)
  BY LenProperties DEF PlatformInv, BusInv
<1>6. CASE LoadAt(Poll, read_control)
  <2>1. pc' = pc /\ read_control
    BY <1>6 DEF LoadAt
  <2>2. ex'.value = TRUE \/ n = 5
    <3>1. CASE FromBuffer("dma", "control")
      <4>1. PICK i \in Buffered("dma", "control") : ex' = Loaded(posted[i].val)
        BY <3>1 DEF FromBuffer
      <4>2. i \in 1..Len(posted) /\ posted[i].reg = "control"
        BY <1>5, <4>1 DEF Buffered
      <4>3. n + i \in 1..5 /\ posted[i] = b[n + i]
        BY <1>2, <4>2
      <4>4. n + i = 5
        BY <1>4, <4>2, <4>3
      <4>5. posted[i].val = TRUE
        BY <1>3, <4>3, <4>4
      <4> QED
        BY <4>1, <4>5 DEF Loaded
    <3>2. CASE Buffered("dma", "control") = {}
      <4>1. ASSUME n # 5 PROVE FALSE
        <5> DEFINE i == 5 - n
        <5>1. i \in 1..Len(posted) /\ n + i = 5
          BY <1>2, <4>1
        <5> HIDE DEF i
        <5>2. posted[i] = b[5]
          BY <1>2, <5>1
        <5>3. i \in Buffered("dma", "control")
          BY <1>3, <1>5, <5>1, <5>2 DEF Buffered
        <5> QED
          BY <3>2, <5>3
      <4> QED
        BY <4>1
    <3> QED
      BY <2>1, <3>1, <3>2 DEF read_control
  <2> QED
    BY <1>0, <1>1, <2>1, <2>2 DEF DmaAt, Software
<1>7. CASE ex.done /\ ex' = NoLoad /\ pc' = IF ex.value THEN Poll ELSE Idle
  <2>1. ex'.done = FALSE
    BY <1>7 DEF NoLoad
  <2>2. pc' \in {Poll, Idle} /\ (pc' = Idle => n = 5)
    BY <1>1, <1>2, <1>7
  <2> QED
    BY <1>0, <1>1, <1>2, <2>1, <2>2 DEF DmaAt, Software
<1> QED
  BY <1>6, <1>7 DEF PollControl, CommitTo

LEMMA DmaStep ==
    ASSUME PlatformInv, Nest, ByteInv, DmaInv, [Next]_vars
    PROVE  DmaInv'
<1> SUFFICES ASSUME Software.name = "dma"
             PROVE  /\ csr'.mie = {} /\ pc' \in Main /\ dma' \in DmaStates
                    /\ \E b \in Software.boots : \E n, m \in 0..5 : DmaAt(b, n, m)'
  BY SameProgram DEF DmaInv, Software
<1>0. /\ HartInv /\ Software.name # "guest" /\ csr.mie = {} /\ pc \in Main
      /\ dma \in DmaStates
  BY DEF DmaInv, PlatformInv
<1>1. csr'.mie = {}
  BY <1>0, EnablesKept
<1>2. PICK b \in Software.boots : \E n, m \in 0..5 : DmaAt(b, n, m)
  BY DEF DmaInv
<1>3. PICK n \in 0..5, m \in 0..5 : DmaAt(b, n, m)
  BY <1>2
<1>4. CASE /\ pc' = pc /\ ex' = ex /\ todo' = todo /\ posted' = posted /\ mem' = mem
           /\ dma' = dma
  <2>1. DmaAt(b, n, m)'
    BY <1>3, <1>4, SameProgram DEF DmaAt, Software
  <2> QED
    BY <1>0, <1>1, <1>3, <1>4, <2>1
<1>5. CASE Drain
  <2>1. n + 1 \in 0..5 /\ dma' \in DmaStates /\ DmaAt(b, n + 1, m)'
    BY <1>0, <1>3, <1>5, DmaDrain
  <2>2. pc' = pc
    BY <1>5 DEF Drain, hartVars
  <2> QED
    BY <1>0, <1>1, <2>1, <2>2
<1>6. CASE Cycle
  <2>1. ~Interrupt
    <3>1. csr.mie \subseteq csr.mideleg
      BY <1>0
    <3> QED
      BY <1>0, <3>1, QuietInterrupt
  <2>2. CASE Asleep
    BY <1>4, <2>2 DEF Asleep, busVars, deviceVars
  <2>3. CASE BootStep
    <3>1. pc' \in Main /\ \E i \in 0..5 : DmaAt(b, n, i)'
      BY <1>3, <2>3, DmaBoot
    <3>2. dma' = dma
      BY <2>3 DEF BootStep, Post, deviceVars
    <3> QED
      BY <1>0, <1>1, <1>3, <3>1, <3>2
  <2>4. CASE WaitForInterrupt
    BY <1>4, <2>4 DEF WaitForInterrupt, busVars, deviceVars
  <2>5. CASE PollControl
    <3>1. pc = Poll
      BY <2>5 DEF PollControl, LoadAt, at
    <3>2. pc' \in Main /\ DmaAt(b, n, m)'
      BY <1>3, <2>5, <3>1, DmaPoll
    <3>3. dma' = dma
      BY <2>5 DEF PollControl, LoadAt, read_control, FromBuffer, CommitTo, deviceVars
    <3> QED
      BY <1>0, <1>1, <1>3, <3>2, <3>3
  <2>6. /\ ~SupervisorLoads /\ ~SupervisorCommits /\ ~SupervisorStores /\ ~SupervisorReturn
        /\ ~MachineRearm /\ ~MachineReturn
    <3>1. pc \notin SHandler /\ pc \notin MHandler
      BY <1>0, LabelsDiffer
    <3> QED
      BY <3>1 DEF SupervisorLoads, LoadAt, SupervisorCommits, SupervisorStores,
                  SupervisorReturn, MachineRearm, MachineReturn, at, SHandler, MHandler
  <2>7. ~GuestStep /\ ~GuestWfi /\ ~GuestStore
    BY <1>0 DEF GuestStep, GuestWfi, GuestStore, Guest
  <2> QED
    BY <1>6, <2>1, <2>2, <2>3, <2>4, <2>5, <2>6, <2>7 DEF Cycle, Instruction
<1>7. CASE FinishAccess
  <2>1. access # "none"
    BY <1>7 DEF FinishAccess, finish_RBR, finish_IIR
  <2>2. pc \in {Receive, Identify}
    BY <2>1 DEF ByteInv, PlatformInv, DevicesInv
  <2> QED
    BY <1>0, <2>2, QuietLabels
<1>8. CASE UNCHANGED vars \/ PlicOutput \/ ClintOutput \/ Tick \/ RxMonitor \/ WfiCheck
           \/ StdinByte
  <2>1. /\ pc' = pc /\ ex' = ex /\ todo' = todo /\ posted' = posted /\ mem' = mem
        /\ dma' = dma
    BY <1>8 DEF vars, PlicOutput, ClintOutput, Tick, RxMonitor, WfiCheck, StdinByte,
                hartVars, busVars, deviceVars
  <2> QED
    BY <1>4, <2>1
<1> QED
  BY <1>5, <1>6, <1>7, <1>8 DEF Next

\* When software finds the start bit of the DMA engine clear, the destination holds
\* what the source held (DMA.h, start_transfer): the store to the source, the
\* registers and the start bit drain in program order, a poll that comes before the
\* start bit has drained is answered from the store buffer, and the engine reads
\* all of the source before it writes.
THEOREM DmaDoneMeansCopiedHolds == Spec => []DmaDoneMeansCopied
<1> DEFINE I == PlatformInv /\ Nest /\ ByteInv /\ DmaInv
<1>1. Init => I
  BY PlatformInvInit, NestInit, ByteInit, DmaInit
<1>2. I /\ [Next]_vars => I'
  <2> SUFFICES ASSUME PlatformInv, Nest, ByteInv, DmaInv, [Next]_vars
               PROVE  PlatformInv' /\ Nest' /\ ByteInv' /\ DmaInv'
    OBVIOUS
  <2>1. PlatformInv'
    BY PlatformInvStep
  <2>2. Nest'
    BY NestStepLemma DEF NestStep, PlatformInv
  <2>3. ByteInv'
    BY ByteStep
  <2>4. DmaInv'
    BY DmaStep
  <2> QED
    BY <2>1, <2>2, <2>3, <2>4
<1>3. I => DmaDoneMeansCopied
  <2> SUFFICES ASSUME DmaInv, Software.name = "dma", pc = Idle,
                      InMemory(mem, dma.src, dma.len), InMemory(mem, dma.dst, dma.len),
                      NEW i \in 0..(dma.len - 1)
               PROVE  mem[dma.dst + i] = Software.source[dma.src + i]
    BY DEF DmaDoneMeansCopied
  <2>1. PICK b \in Software.boots, n \in 0..5, m \in 0..5 : DmaAt(b, n, m)
    BY DEF DmaInv
  <2>2. mem = start_transfer(dma, Software.source) /\ dma \in DmaStates
    BY <2>1 DEF DmaAt, DmaInv
  <2> QED
    BY <2>2, Copied
<1> HIDE DEF I
<1> QED
  BY <1>1, <1>2, <1>3, PTL DEF Spec
==============================================================================
