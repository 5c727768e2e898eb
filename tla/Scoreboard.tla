----------------------------- MODULE Scoreboard -----------------------------
(***************************************************************************)
(* inc/Scoreboard.h: the combined issue FIFO and reorder buffer.  The      *)
(* object is a record s of its members: the ring entries/head/tail/count,  *)
(* and the two clobber tables, which name for every register the entry     *)
(* that will produce it.  One operator per member function, from the       *)
(* object before the call to the object after it, so that a stage that     *)
(* makes several calls is their composition.                               *)
(*                                                                         *)
(* Results are tags: an instruction's own value is Computed, what a        *)
(* default-constructed entry or a placeholder holds is Zero.  next is not  *)
(* a member: it records where the instruction sends control, for the       *)
(* commit-order properties.                                                *)
(***************************************************************************)
EXTENDS Ring, Sequences, FiniteSets

CONSTANTS SIZE, Regs

ASSUME ScoreboardAssumption ==
    /\ SIZE \in Nat \ {0}
    /\ 0 \in Regs

Computed == "computed"
Zero     == "zero"

\* Entry{}: what allocate writes before the stage fills in the metadata.
FreshEntry == [valid |-> FALSE, ready |-> FALSE, rd |-> 0, result |-> Zero,
               pc |-> 0, is_store |-> FALSE, fp |-> FALSE, next |-> 0]

NoClobber == [busy |-> FALSE, trans_id |-> -1]

NewScoreboard ==
    [entries |-> [i \in 0 .. SIZE - 1 |-> FreshEntry],
     head |-> 0, tail |-> 0, count |-> 0,
     rd_clobber |-> [r \in Regs |-> NoClobber],
     fp_clobber |-> [r \in Regs |-> NoClobber]]

is_full(s)    == s.count = SIZE
is_empty(s)   == s.count = 0
get_head(s)   == s.entries[s.head]
head_ready(s) == s.count > 0 /\ get_head(s).valid /\ get_head(s).ready

\* Fault: a reused entry keeps its ready bit.
allocate_keeps_ready(s, m) ==
    [s EXCEPT !.entries[s.tail] =
                  [FreshEntry EXCEPT !.valid = TRUE, !.pc = m.pc,
                                     !.is_store = m.is_store, !.fp = m.fp,
                                     !.ready = s.entries[s.tail].ready],
              !.tail = (s.tail + 1) % SIZE,
              !.count = s.count + 1]

\* Index of the entry the next allocate will return is s.tail; the metadata m
\* (pc, is_store, fp) is what Issue stores right after the call.
allocate(s, m) ==
    [s EXCEPT !.entries[s.tail] =
                  [FreshEntry EXCEPT !.valid = TRUE, !.pc = m.pc,
                                     !.is_store = m.is_store, !.fp = m.fp],
              !.tail = (s.tail + 1) % SIZE,
              !.count = s.count + 1]

\* Issue, last lines: the destination register now waits for entry i.
clobber(s, i, rd, fp) ==
    IF fp THEN [s EXCEPT !.fp_clobber[rd] = [busy |-> TRUE, trans_id |-> i]]
    ELSE IF rd # 0
         THEN [s EXCEPT !.rd_clobber[rd] = [busy |-> TRUE, trans_id |-> i]]
         ELSE s

complete(s, i, result, rd) ==
    [s EXCEPT !.entries[i].ready = TRUE,
              !.entries[i].result = result,
              !.entries[i].rd = rd]

retire(s) ==
    IF is_empty(s) THEN s
    ELSE [s EXCEPT !.entries[s.head].valid = FALSE,
                   !.head = (s.head + 1) % SIZE,
                   !.count = s.count - 1]

\* Commit, register update: the clobber goes only if it still names this entry.
Released(table, r, i) ==
    IF table[r].trans_id = i THEN [table EXCEPT ![r] = NoClobber] ELSE table

\* Faults: an older commit clears the newest producer's clobber; none is cleared.
release_any(s) ==
    LET e == get_head(s)
    IN  IF e.rd = 0 THEN s
        ELSE IF e.fp
             THEN [s EXCEPT !.fp_clobber = Released(s.fp_clobber, e.rd, s.head)]
             ELSE [s EXCEPT !.rd_clobber[e.rd] = NoClobber]
release_none(s) == s

release(s) ==
    LET e == get_head(s)
    IN  IF e.rd = 0 THEN s
        ELSE IF e.fp
             THEN [s EXCEPT !.fp_clobber = Released(s.fp_clobber, e.rd, s.head)]
             ELSE [s EXCEPT !.rd_clobber = Released(s.rd_clobber, e.rd, s.head)]

\* Fault: the indices are reset and the entries kept.
flush_keeps_entries(s) == [NewScoreboard EXCEPT !.entries = s.entries]

\* Trap, interrupt: every entry and every clobber goes, contents stay.
flush(s) ==
    [NewScoreboard EXCEPT
        !.entries = [i \in DOMAIN s.entries |->
                        [s.entries[i] EXCEPT !.valid = FALSE, !.ready = FALSE]]]

\* Slots from the one after b up to the tail: what a mispredicted branch in
\* entry b flushes.
Younger(s, b) ==
    LET n == (s.tail + SIZE - ((b + 1) % SIZE)) % SIZE
    IN  {(b + 1 + k) % SIZE : k \in 0 .. n - 1}

\* Mispredicted branch: the clobber lookup uses the entry's rd member, which
\* complete sets.
flush_speculative(s, b) ==
    LET gone == {i \in Younger(s, b) : s.entries[i].valid}
        Kept(table) ==
            [r \in Regs |->
                IF \E i \in gone : s.entries[i].rd = r /\ table[r].busy
                                   /\ table[r].trans_id = i
                THEN NoClobber ELSE table[r]]
    IN  [s EXCEPT
            !.entries = [i \in DOMAIN s.entries |->
                IF i \in gone
                THEN [s.entries[i] EXCEPT !.valid = FALSE, !.ready = FALSE]
                ELSE s.entries[i]],
            !.count = s.count - Cardinality(gone),
            !.tail = (b + 1) % SIZE,
            !.rd_clobber = Kept(s.rd_clobber),
            !.fp_clobber = Kept(s.fp_clobber)]

-----------------------------------------------------------------------------
(* Readings used by the properties. *)

\* The k-th entry in flight, k = 0, 1, ..., and how far entry i is from the head.
Slot(s, k)     == (s.head + k) % SIZE
Position(s, i) == (i + SIZE - s.head) % SIZE

InFlight(s, i) == InWindow(i, s.head, s.count, SIZE)

ScoreboardCoherent(s) == Coherent(s.entries, s.head, s.tail, s.count, SIZE)
=============================================================================
