----------------------------- MODULE MCPlatform -----------------------------
EXTENDS Platform

Nothing ==
    [name |-> "", boots |-> {<<>>}, csr |-> ResetCsr, budget |-> 0, timer |-> FALSE, until |-> 0,
     chars |-> 0, sends |-> 0, deadlines |-> {}, values |-> {}, stores |-> {},
     source |-> <<>>, len |-> 0]

\* Firmware delegated the external interrupt and entered mode p.
ConsoleCsr(p) ==
    [ResetCsr EXCEPT !.priv = p, !.mideleg = {9}, !.mie = {9}, !.stvec = Claim,
                     !.mstatus = @ \cup {SIE}]
TimerCsr(p) == [ConsoleCsr(p) EXCEPT !.mie = {7, 9}, !.mtvec = Rearm]

Priority == Store("plic", "priority", 1)
Enable == Store("plic", "enable", {UART_SOURCE})
Ier(bits) == Store("uart", "IER", bits)

\* Any order of the configuration.
Rx(p) ==
    [Nothing EXCEPT !.name = "rx", !.csr = ConsoleCsr(p), !.chars = 3,
                    !.boots = SetToSeqs({Priority, Enable, Ier({RDA})})]

RxTimer(p) ==
    [Nothing EXCEPT !.name = "rx", !.csr = TimerCsr(p), !.chars = 2, !.timer = TRUE,
                    !.until = 2,
                    !.boots = {<<Store("clint", "mtimecmp", 2), Priority, Enable, Ier({RDA})>>}]

\* The PLIC first: it would not see a transmitter interrupt that came before.
Tx == [Nothing EXCEPT !.name = "tx", !.csr = ConsoleCsr(U), !.sends = 2,
                      !.boots = {<<Priority, Enable, Ier({THRI})>>}]

TxRx == [Tx EXCEPT !.chars = 1, !.sends = 1,
                   !.boots = {<<Store("uart", "LCR", TRUE), Store("uart", "THR", 0),
                                Store("uart", "LCR", FALSE), Store("uart", "SCR", 1),
                                Store("plic", "threshold", 0), Priority, Enable,
                                Ier({RDA, THRI})>>}]

\* Deadlines in both halves, one of them in the past.
Clock ==
    [Nothing EXCEPT !.name = "clock", !.csr = [TimerCsr(S) EXCEPT !.mie = {7}],
                    !.timer = TRUE, !.deadlines = {4, 6, 11}, !.budget = 2, !.until = 13,
                    !.boots = {<<Store("clint", "mtimecmp", d)>> : d \in {0, 3, 5}}]

-----------------------------------------------------------------------------

MCStartMemory == [a \in 0..3 |-> a]

Copy(src, dst, len) ==
    [Nothing EXCEPT !.name = "dma", !.len = len,
        !.source = [MCStartMemory EXCEPT ![1] = 7],
        !.boots = {<<Store("mem", "byte", [address |-> 1, data |-> 7]), Store("dma", "src", src), Store("dma", "dst", dst),
                     Store("dma", "len", len), Store("dma", "control", TRUE)>>}]

-----------------------------------------------------------------------------

\* A guest in mode p under firmware that delegated what it could, with the
\* given bits of mstatus set.
GuestCsr0(p, bits) ==
    [ResetCsr EXCEPT !.priv = p, !.medeleg = {ECALL_U, LOAD_PAGE_FAULT},
                     !.mideleg = {1, 5, 9}, !.mie = {3, 7, 9}, !.mtvec = {20},
                     !.stvec = {21}, !.mepc = {22}, !.sepc = {23},
                     !.mstatus = @ \cup {SIE, SPIE, MPIE} \cup bits]

GuestAt(p, bits) ==
    [Nothing EXCEPT !.name = "guest", !.csr = GuestCsr0(p, bits), !.budget = 2,
                    !.values = {AllBits \ {0}, {9, 12}}]

Timers ==
    [GuestAt(U, {11}) EXCEPT !.values = {},
        !.stores = {Store("clint", "msip", TRUE), Store("clint", "msip", FALSE),
                    Store("clint", "mtime", 2), Store("clint", "mtime_low", 1),
                    Store("clint", "mtime_high", 1), Store("clint", "mtimecmp", 0)}]

\* The firmware left 2, which is no mode, in MPP; and the mode mret enters then.
Firmware == GuestAt(M, {12})
NoMode == GuestAt(2, {})

MCPrograms ==
    <<Rx(U), Rx(S), RxTimer(U), Tx, TxRx, Clock,
      Copy(0, 1, 2), Copy(1, 0, 3), Copy(2, 2, 2), Copy(3, 0, 2), Copy(0, 2, 0),
      GuestAt(U, {11, TW}), GuestAt(S, {11, TSR}), Firmware, NoMode, Timers>>
==============================================================================
