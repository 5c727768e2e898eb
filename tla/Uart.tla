-------------------------------- MODULE Uart --------------------------------
(***************************************************************************)
(* The 16550-like UART (inc/UART.h): interrupt enables, the transmitter    *)
(* interrupt m_thre_ip, and the receive FIFO that the stdin thread fills   *)
(* and the simulation empties.  The characters transmitted are only        *)
(* counted.                                                                *)
(***************************************************************************)
EXTENDS Integers, Sequences

CONSTANT FifoDepth       \* 64 in the code

ASSUME FifoDepthAssumption == FifoDepth \in Nat \ {0}

RDA == 0                 \* bits of IER
THRI == 1

ResetUart ==
  [ier |-> {}, thre_ip |-> TRUE, dlab |-> FALSE, scr |-> 0, fifo |-> <<>>, sent |-> 0]

rx_fifo_empty(u) == u.fifo = <<>>

\* thre_active || rda_active, the level update_interrupts drives.
irq_level(u) ==
  \/ THRI \in u.ier /\ u.thre_ip
  \/ RDA \in u.ier /\ ~rx_fifo_empty(u)

\* stdin_reader: a character that finds the FIFO full is dropped.
Accepts(u) == Len(u.fifo) < FifoDepth
stdin_push(u, ch) == IF Accepts(u) THEN [u EXCEPT !.fifo = Append(@, ch)] ELSE u

monitor_never(u) == FALSE

\* rx_monitor_process only looks at the interrupt if this holds.
monitor_due(u) == RDA \in u.ier /\ ~rx_fifo_empty(u)

-----------------------------------------------------------------------------
(* Registers.  With DLAB set, registers 0 and 1 are the divisor. *)

write_THR(u) == IF u.dlab THEN u ELSE [u EXCEPT !.sent = @ + 1, !.thre_ip = TRUE]

\* Enabling THRI raises its interrupt, disabling it withdraws it.
write_IER(u, bits) ==
  IF u.dlab THEN u
  ELSE [u EXCEPT !.ier = bits,
                 !.thre_ip = CASE THRI \in bits \ u.ier -> TRUE
                               [] THRI \notin bits -> FALSE
                               [] OTHER -> @]

write_LCR(u, dlab) == [u EXCEPT !.dlab = dlab]
write_SCR(u, v) == [u EXCEPT !.scr = v]

rx_pop_last(u) == [u EXCEPT !.fifo = SubSeq(@, 1, Len(@) - 1)]

rx_pop(u) == [u EXCEPT !.fifo = Tail(@)]

\* What IIR reports: 4 received data, 2 transmitter empty, 1 nothing.
iir(u) ==
  CASE RDA \in u.ier /\ ~rx_fifo_empty(u) -> 4
    [] ~(RDA \in u.ier /\ ~rx_fifo_empty(u)) /\ THRI \in u.ier /\ u.thre_ip -> 2
    [] OTHER -> 1

\* Reading 2 withdraws the transmitter interrupt.
read_IIR(u) == [u EXCEPT !.thre_ip = FALSE]
==============================================================================
