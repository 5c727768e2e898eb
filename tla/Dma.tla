--------------------------------- MODULE Dma ---------------------------------
(***************************************************************************)
(* The memory-to-memory DMA engine (inc/DMA.h) on the bus                  *)
(* (src/BusCtrl.cpp), which answers every access with success: an access   *)
(* outside memory reads zeros and writes nothing.  The transfer happens    *)
(* inside the write of the control register.                               *)
(***************************************************************************)
EXTENDS Integers, Sequences

ResetDma == [src |-> 0, dst |-> 0, len |-> 0, start |-> FALSE]

InMemory(mem, a, n) == a .. (a + n - 1) \subseteq DOMAIN mem

\* Memory::b_transport behind BusCtrl::b_transport.
bus_read(mem, a, n) ==
  [i \in 0..(n - 1) |-> IF InMemory(mem, a, n) THEN mem[a + i] ELSE 0]

bus_write(mem, a, n, buffer) ==
  IF InMemory(mem, a, n)
  THEN [x \in DOMAIN mem |-> IF x \in a..(a + n - 1) THEN buffer[x - a] ELSE mem[x]]
  ELSE mem

write_register(d, reg, v) == [d EXCEPT ![reg] = v]

start_transfer_short(d, mem) ==
  IF d.len = 0 THEN mem
  ELSE bus_write(mem, d.dst, d.len - 1, bus_read(mem, d.src, d.len))

\* Memory after start_transfer: the whole source is read before anything is
\* written.  Length 0 returns at once.
start_transfer(d, mem) ==
  IF d.len = 0 THEN mem
  ELSE bus_write(mem, d.dst, d.len, bus_read(mem, d.src, d.len))

write_control_busy(d, start) == [d EXCEPT !.start = start]

\* The start bit is cleared by a transfer, and stays if there was none.
write_control(d, start) == [d EXCEPT !.start = start /\ d.len = 0]
==============================================================================
