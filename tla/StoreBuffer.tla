---------------------------- MODULE StoreBuffer ----------------------------
(***************************************************************************)
(* inc/StoreBuffer.h: the split store buffer of the six-stage core.  Two   *)
(* rings, each an array with head, tail and count: the speculative queue,  *)
(* filled by EX, and the committed queue, filled at commit and drained to  *)
(* memory one store per cycle.  One action per member function, under the  *)
(* conditions its callers in CPU_P64_6_Cycle.cpp establish; the memory the *)
(* drain writes to is part of the state.  Entries keep their contents when *)
(* they are invalidated, as the array slots do.  The scoreboard index kept *)
(* in an entry is abstracted: the branch flush is given the number of      *)
(* youngest stores whose scoreboard entries are no longer valid.           *)
(***************************************************************************)
EXTENDS MemAccess, Ring, Sequences

CONSTANTS SPEC_DEPTH, COMMIT_DEPTH

ASSUME DepthAssumption ==
    /\ SPEC_DEPTH \in Nat \ {0}
    /\ COMMIT_DEPTH \in Nat \ {0}

VARIABLES
    spec, spec_head, spec_tail, spec_count,
    committed, commit_head, commit_tail, commit_count,
    memory

specVars   == <<spec, spec_head, spec_tail, spec_count>>
commitVars == <<committed, commit_head, commit_tail, commit_count>>
vars       == <<specVars, commitVars, memory>>

\* A slot that was never written has size 0 and covers no byte.
Entry == [valid : BOOLEAN, address : Addr, size : Sizes \cup {0},
          data : Data \cup {Blank}]
NoEntry == [valid |-> FALSE, address |-> 0, size |-> 0, data |-> Blank]
EntryOf(s) == [valid |-> TRUE, address |-> s.address, size |-> s.size,
               data |-> s.data]

Init ==
    /\ spec = [i \in 0 .. SPEC_DEPTH - 1 |-> NoEntry]
    /\ spec_head = 0 /\ spec_tail = 0 /\ spec_count = 0
    /\ committed = [i \in 0 .. COMMIT_DEPTH - 1 |-> NoEntry]
    /\ commit_head = 0 /\ commit_tail = 0 /\ commit_count = 0
    /\ memory = InitMemory

-----------------------------------------------------------------------------
(* Queue positions and capacity. *)

SpecFromOldest(k)   == FromOldest(spec, spec_head, k, SPEC_DEPTH)
SpecFromNewest(k)   == FromNewest(spec, spec_tail, k, SPEC_DEPTH)
CommitFromOldest(k) == FromOldest(committed, commit_head, k, COMMIT_DEPTH)
CommitFromNewest(k) == FromNewest(committed, commit_tail, k, COMMIT_DEPTH)

spec_is_full   == spec_count = SPEC_DEPTH
commit_is_full == commit_count = COMMIT_DEPTH
is_empty       == spec_count = 0 /\ commit_count = 0

-----------------------------------------------------------------------------
(* Load forwarding. *)

Outcome == {"HIT", "PARTIAL_OVERLAP", "MISS"}

\* What the youngest overlapping store e means for the load [a, a+n).
ForwardFrom(e, a, n) ==
    IF Within(a, n, e.address, e.size)
    THEN [result |-> "HIT",
          bytes  |-> [b \in a .. a + n - 1 |-> <<e.data, b - e.address>>]]
    ELSE [result |-> "PARTIAL_OVERLAP", bytes |-> <<>>]

Matches(e, a, n) == e.valid /\ Overlap(a, n, e.address, e.size)

\* Fault: both queues searched oldest to newest.
forward_load_oldest_first(a, n) ==
    LET inSpec == {k \in 0 .. spec_count - 1 : Matches(SpecFromOldest(k), a, n)}
        inCommitted ==
            {k \in 0 .. commit_count - 1 : Matches(CommitFromOldest(k), a, n)}
    IN  CASE inSpec # {} -> ForwardFrom(SpecFromOldest(First(inSpec)), a, n)
          [] inSpec = {} /\ inCommitted # {} ->
                 ForwardFrom(CommitFromOldest(First(inCommitted)), a, n)
          [] OTHER -> [result |-> "MISS", bytes |-> <<>>]

\* Speculative queue newest to oldest, then committed queue newest to oldest.
forward_load(a, n) ==
    LET inSpec == {k \in 0 .. spec_count - 1 : Matches(SpecFromNewest(k), a, n)}
        inCommitted ==
            {k \in 0 .. commit_count - 1 : Matches(CommitFromNewest(k), a, n)}
    IN  CASE inSpec # {} -> ForwardFrom(SpecFromNewest(First(inSpec)), a, n)
          [] inSpec = {} /\ inCommitted # {} ->
                 ForwardFrom(CommitFromNewest(First(inCommitted)), a, n)
          [] OTHER -> [result |-> "MISS", bytes |-> <<>>]

-----------------------------------------------------------------------------
(* Operations. *)

\* Fault: no capacity check, neither here nor at Issue.
add_store_unchecked(s) ==
    /\ spec' = [spec EXCEPT ![spec_tail] = EntryOf(s)]
    /\ spec_tail' = (spec_tail + 1) % SPEC_DEPTH
    /\ spec_count' = spec_count + 1
    /\ UNCHANGED <<spec_head, commitVars, memory>>

\* EX, store: Issue does not send a store to EX while the queue is full.
add_store(s) ==
    /\ ~spec_is_full
    /\ spec' = [spec EXCEPT ![spec_tail] = EntryOf(s)]
    /\ spec_tail' = (spec_tail + 1) % SPEC_DEPTH
    /\ spec_count' = spec_count + 1
    /\ UNCHANGED <<spec_head, commitVars, memory>>

\* Commit of a store: the oldest speculative entry becomes the newest
\* committed one; with a full committed queue nothing happens and commit stalls.
commit_store ==
    /\ spec_count # 0
    /\ ~commit_is_full
    /\ committed' =
          [committed EXCEPT ![commit_tail] = WithValid(spec[spec_head], TRUE)]
    /\ commit_tail' = (commit_tail + 1) % COMMIT_DEPTH
    /\ commit_count' = commit_count + 1
    /\ spec' = [spec EXCEPT ![spec_head] = WithValid(@, FALSE)]
    /\ spec_head' = (spec_head + 1) % SPEC_DEPTH
    /\ spec_count' = spec_count - 1
    /\ UNCHANGED <<spec_tail, commit_head, memory>>

\* Commit, once per cycle: pops entries up to and including the oldest valid
\* one, which its caller writes to memory; all of them if none is valid.
drain_one ==
    /\ commit_count > 0
    /\ LET valid  == {k \in 0 .. commit_count - 1 : CommitFromOldest(k).valid}
           popped == IF valid = {} THEN commit_count ELSE First(valid) + 1
       IN  /\ committed' = [i \in DOMAIN committed |->
                 IF InWindow(i, commit_head, popped, COMMIT_DEPTH)
                 THEN WithValid(committed[i], FALSE) ELSE committed[i]]
           /\ commit_head' = (commit_head + popped) % COMMIT_DEPTH
           /\ commit_count' = commit_count - popped
           /\ memory' = IF valid = {} THEN memory
                        ELSE Apply(memory, CommitFromOldest(First(valid)))
    /\ UNCHANGED <<specVars, commit_tail>>

Invalidated(ring, a, n) ==
    [i \in DOMAIN ring |->
        IF Matches(ring[i], a, n) THEN WithValid(ring[i], FALSE)
                                  ELSE ring[i]]

\* Fault: an atomic waits for the speculative queue only.
direct_write_early(s) ==
    /\ spec_count = 0
    /\ memory' = Apply(memory, s)
    /\ spec' = Invalidated(spec, s.address, s.size)
    /\ committed' = Invalidated(committed, s.address, s.size)
    /\ UNCHANGED <<spec_head, spec_tail, spec_count,
                   commit_head, commit_tail, commit_count>>

\* EX, AMO or successful SC: writes memory directly, then invalidate_address.
\* Issue holds an atomic back until the buffer is empty.
direct_write(s) ==
    /\ is_empty
    /\ memory' = Apply(memory, s)
    /\ spec' = Invalidated(spec, s.address, s.size)
    /\ committed' = Invalidated(committed, s.address, s.size)
    /\ UNCHANGED <<spec_head, spec_tail, spec_count,
                   commit_head, commit_tail, commit_count>>

\* Fault: the tail is not reset.
flush_speculative_keeps_tail ==
    /\ spec' = [i \in DOMAIN spec |-> WithValid(spec[i], FALSE)]
    /\ spec_head' = 0 /\ spec_count' = 0
    /\ UNCHANGED <<spec_tail, commitVars, memory>>

\* Trap or interrupt: every speculative store is dropped.
flush_speculative ==
    /\ spec' = [i \in DOMAIN spec |-> WithValid(spec[i], FALSE)]
    /\ spec_head' = 0 /\ spec_tail' = 0 /\ spec_count' = 0
    /\ UNCHANGED <<commitVars, memory>>

\* Branch mispredict: pops the n youngest stores, those that the scoreboard
\* flush has just invalidated.
flush_speculative_younger(n) ==
    /\ n \in 1 .. spec_count
    /\ spec' = [i \in DOMAIN spec |->
                  IF InTail(i, spec_tail, n, SPEC_DEPTH)
                  THEN WithValid(spec[i], FALSE) ELSE spec[i]]
    /\ spec_tail' = (spec_tail + SPEC_DEPTH - n) % SPEC_DEPTH
    /\ spec_count' = spec_count - n
    /\ UNCHANGED <<spec_head, commitVars, memory>>

Next ==
    \/ \E s \in Store : add_store(s)
    \/ commit_store
    \/ drain_one
    \/ \E s \in Store : direct_write(s)
    \/ flush_speculative
    \/ \E n \in 1 .. SPEC_DEPTH : flush_speculative_younger(n)

Spec == Init /\ [][Next]_vars

-----------------------------------------------------------------------------
(* Refinement mapping to StoreQueue. *)

\* The uncommitted stores in program order.
PendingStores ==
    [k \in 1 .. spec_count |->
        LET e == SpecFromOldest(k - 1)
        IN  [address |-> e.address, size |-> e.size, data |-> e.data]]

\* Memory as it will be once the committed queue has drained.
ArchMemory ==
    [b \in Addr |->
        LET covering == {k \in 0 .. commit_count - 1 :
                            /\ CommitFromNewest(k).valid
                            /\ Covers(CommitFromNewest(k), b)}
        IN  IF covering = {} THEN memory[b]
            ELSE ByteOf(CommitFromNewest(First(covering)), b)]

Queue == INSTANCE StoreQueue WITH pending <- PendingStores, arch <- ArchMemory

-----------------------------------------------------------------------------
(* Properties. *)

\* Every variable has its type: slots hold entries, indices lie in their
\* array, counts do not exceed the depth (StoreBuffer.h, private members).
TypeOK ==
    /\ spec \in [0 .. SPEC_DEPTH - 1 -> Entry]
    /\ spec_head \in 0 .. SPEC_DEPTH - 1
    /\ spec_tail \in 0 .. SPEC_DEPTH - 1
    /\ spec_count \in 0 .. SPEC_DEPTH
    /\ committed \in [0 .. COMMIT_DEPTH - 1 -> Entry]
    /\ commit_head \in 0 .. COMMIT_DEPTH - 1
    /\ commit_tail \in 0 .. COMMIT_DEPTH - 1
    /\ commit_count \in 0 .. COMMIT_DEPTH
    /\ memory \in [Addr -> Byte]

\* Three redundant cursors per ring: after any sequence of pushes, pops at
\* either end and flushes, tail is head plus count, the entries between them
\* are all valid, and no valid entry lies outside (StoreBuffer.h,
\* add_store, commit_store, drain_one and both flush_speculative functions).
RingCoherent ==
    /\ Coherent(spec, spec_head, spec_tail, spec_count, SPEC_DEPTH)
    /\ Coherent(committed, commit_head, commit_tail, commit_count, COMMIT_DEPTH)

\* A load that forward_load answers sees program order: a HIT returns, byte by
\* byte, the youngest store older than the load, and after a MISS memory itself
\* holds that value (EX reads memory only then).
ForwardingSeesProgramOrder ==
    \A r \in Access :
        LET f == forward_load(r.address, r.size)
        IN  \A b \in r.address .. r.address + r.size - 1 :
               /\ f.result = "HIT" => f.bytes[b] = Queue!ProgramByte(b)
               /\ f.result = "MISS" => memory[b] = Queue!ProgramByte(b)

\* The buffer implements StoreQueue: retirement alone changes architectural
\* memory, in program order and exactly once per store; draining and the order
\* in which the two rings wrap are invisible.
ImplementsStoreQueue == Queue!Spec
=============================================================================
