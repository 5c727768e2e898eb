-------------------------------- MODULE Plic --------------------------------
(***************************************************************************)
(* The interrupt controller (inc/PLIC.h).  Its state is a record: the      *)
(* priority of each source, the sets of pending, enabled and asserted      *)
(* level sources, the threshold, the computed output state (m_irq_state),  *)
(* whether m_update_irq_event is notified, and the output signal out.      *)
(***************************************************************************)
EXTENDS Integers, FiniteSetsExt

CONSTANT Sources         \* source numbers; 0 means none

ASSUME SourcesAssumption == Sources \subseteq 1..31

ResetPlic ==
  [priority |-> [i \in Sources |-> 0], pending |-> {}, enabled |-> {}, level |-> {},
   threshold |-> 0, state |-> FALSE, event |-> FALSE, out |-> FALSE]

\* The sources that may interrupt.
Deliverable(p) ==
  {i \in p.pending \cap p.enabled : p.priority[i] > p.threshold}

\* The event is notified only when the state changes.
update_irq_out(p) ==
  LET target_state == Deliverable(p) # {} IN
  [p EXCEPT !.state = target_state, !.event = @ \/ target_state # p.state]

\* The method the event triggers, in the next delta cycle.
update_output_process(p) == [p EXCEPT !.out = p.state, !.event = FALSE]

set_irq_level(p, id, active) ==
  update_irq_out(
    IF active THEN [p EXCEPT !.level = @ \cup {id}, !.pending = @ \cup {id}]
              ELSE [p EXCEPT !.level = @ \ {id}, !.pending = @ \ {id}])

\* Writes of the configuration do not update the output.
write_priority(p, id, v) == [p EXCEPT !.priority[id] = v % 8]
write_enable(p, ids) == [p EXCEPT !.enabled = ids]
write_threshold(p, v) == [p EXCEPT !.threshold = v % 8]

\* The source a read of the claim register returns: the highest priority, the
\* lowest number among equals, 0 if there is none.
Claimed(p) ==
  LET best == {i \in Deliverable(p) :
                 \A j \in Deliverable(p) : p.priority[i] >= p.priority[j]}
  IN  IF best = {} THEN 0 ELSE Min(best)

claim(p) == update_irq_out([p EXCEPT !.pending = @ \ {Claimed(p)}])

complete_forgets(p, id) == update_irq_out([p EXCEPT !.pending = @ \ {id}])

\* A level source that is still asserted becomes pending again.
complete(p, id) ==
  update_irq_out([p EXCEPT !.pending = (@ \ {id}) \cup ({id} \cap p.level)])
==============================================================================
