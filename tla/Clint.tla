-------------------------------- MODULE Clint --------------------------------
(***************************************************************************)
(* The timer and software interrupts (inc/CLINT.h).  A time has two        *)
(* halves.  event says that m_update_event is notified; timer_irq is the   *)
(* signal update_irq_method writes.                                        *)
(***************************************************************************)
EXTENDS Integers

CONSTANT Half            \* values of half a time, 2^32 in the code

ASSUME HalfAssumption == Half \in Nat \ {0, 1}

Times == 0..(Half * Half - 1)
Never == Half * Half - 1

ResetClint ==
  [mtime |-> 0, mtimecmp |-> Never, msip |-> FALSE, timer_irq |-> FALSE, event |-> FALSE]

\* x with its low or high half replaced.
low(x, v) == (x \div Half) * Half + v
high(x, v) == v * Half + (x % Half)

tick_silent(k) == [k EXCEPT !.mtime = (@ + 1) % (Half * Half)]

tick(k) == [k EXCEPT !.mtime = (@ + 1) % (Half * Half), !.event = TRUE]

update_irq_early(k) ==
  [k EXCEPT !.timer_irq = k.mtime + 1 >= k.mtimecmp, !.event = FALSE]

update_irq_method(k) ==
  [k EXCEPT !.timer_irq = k.mtime >= k.mtimecmp, !.event = FALSE]

\* One tick before the deadline, if there is one and it is further away.
fast_forward_to_deadline(k) ==
  IF k.mtimecmp # Never /\ (k.mtime + 1) % (Half * Half) < k.mtimecmp
  THEN [k EXCEPT !.mtime = k.mtimecmp - 1, !.event = TRUE]
  ELSE k

write_mtimecmp(k, v) == [k EXCEPT !.mtimecmp = v, !.event = TRUE]
write_mtimecmp_low(k, v) == write_mtimecmp(k, low(k.mtimecmp, v))
write_mtimecmp_high(k, v) == write_mtimecmp(k, high(k.mtimecmp, v))

write_mtime(k, v) == [k EXCEPT !.mtime = v, !.event = TRUE]
write_mtime_low(k, v) == write_mtime(k, low(k.mtime, v))
write_mtime_high(k, v) == write_mtime(k, high(k.mtime, v))

write_msip(k, v) == [k EXCEPT !.msip = v]
==============================================================================
