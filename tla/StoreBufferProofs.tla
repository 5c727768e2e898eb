------------------------- MODULE StoreBufferProofs -------------------------
(***************************************************************************)
(* Theorems about StoreBuffer for every depth of the two queues, every     *)
(* memory size and every set of access sizes and data.                     *)
(***************************************************************************)
EXTENDS StoreBuffer, RingProofs

-----------------------------------------------------------------------------
(* Types. *)

LEMMA EntryTypes ==
    /\ NoEntry \in Entry /\ NoEntry.valid = FALSE
    /\ \A s \in Store : EntryOf(s) \in Entry /\ EntryOf(s).valid = TRUE
    /\ \A e \in Entry : \A v \in BOOLEAN :
          WithValid(e, v) \in Entry /\ WithValid(e, v).valid = v
<1>1. NoEntry \in Entry /\ NoEntry.valid = FALSE
  BY MemAccessAssumption DEF Entry, NoEntry, Addr
<1>2. \A s \in Store : EntryOf(s) \in Entry /\ EntryOf(s).valid = TRUE
  BY DEF Entry, EntryOf, Store
<1>3. ASSUME NEW e \in Entry, NEW v \in BOOLEAN
      PROVE  WithValid(e, v) \in Entry /\ WithValid(e, v).valid = v
  BY DEF Entry, WithValid
<1> QED
  BY <1>1, <1>2, <1>3

\* Memory stays typed when a store or a buffered entry is written to it.
LEMMA ApplyType ==
    ASSUME NEW m \in [Addr -> Byte], NEW e,
           e.address \in Addr, e.data \in Data \cup {Blank}
    PROVE  Apply(m, e) \in [Addr -> Byte]
  BY MemAccessAssumption DEF Apply, Byte, ByteOf, Covers, Addr

\* The constants and cursors of the committed queue, as plain arithmetic facts.
LEMMA CommitCursors ==
    ASSUME TypeOK
    PROVE  /\ COMMIT_DEPTH \in Nat \ {0}
           /\ commit_head \in 0 .. COMMIT_DEPTH - 1
           /\ commit_tail \in 0 .. COMMIT_DEPTH - 1
           /\ commit_count \in 0 .. COMMIT_DEPTH
           /\ committed \in [0 .. COMMIT_DEPTH - 1 -> Entry]
  BY DepthAssumption DEF TypeOK

LEMMA SpecCursors ==
    ASSUME TypeOK
    PROVE  /\ SPEC_DEPTH \in Nat \ {0}
           /\ spec_head \in 0 .. SPEC_DEPTH - 1
           /\ spec_tail \in 0 .. SPEC_DEPTH - 1
           /\ spec_count \in 0 .. SPEC_DEPTH
           /\ spec \in [0 .. SPEC_DEPTH - 1 -> Entry]
  BY DepthAssumption DEF TypeOK

\* In a coherent ring the oldest committed entry is valid, so drain_one pops
\* exactly that one.
LEMMA DrainsOldest ==
    ASSUME TypeOK, RingCoherent, drain_one
    PROVE  /\ commit_count > 0
           /\ committed' = [committed EXCEPT ![commit_head] =
                                WithValid(committed[commit_head], FALSE)]
           /\ commit_head' = (commit_head + 1) % COMMIT_DEPTH
           /\ commit_count' = commit_count - 1
           /\ memory' = Apply(memory, committed[commit_head])
           /\ UNCHANGED <<spec, spec_head, spec_tail, spec_count, commit_tail>>
<1> DEFINE D == COMMIT_DEPTH
           valid == {k \in 0 .. commit_count - 1 : CommitFromOldest(k).valid}
<1>1. commit_count > 0 /\ commit_head \in 0 .. D - 1 /\ D \in Nat \ {0} /\ commit_count \in Nat
  BY CommitCursors DEF drain_one
<1>2. (commit_head + 0) % D = commit_head
  BY <1>1, ModInside
<1>3. InWindow(commit_head, commit_head, commit_count, D)
  <2>1. 0 \in 0 .. commit_count - 1
    BY <1>1
  <2> QED
    BY <1>2, <2>1 DEF InWindow
<1>4. CommitFromOldest(0) = committed[commit_head] /\ committed[commit_head].valid
  BY <1>1, <1>2, <1>3 DEF RingCoherent, Coherent, CommitFromOldest, FromOldest
<1>5. 0 \in valid /\ valid \in SUBSET Nat
  BY <1>1, <1>4
<1>6. First(valid) \in valid /\ First(valid) <= 0
  BY <1>5, FirstIsLeast
<1>7. First(valid) = 0
  BY <1>5, <1>6
<1>8. \A i : InWindow(i, commit_head, 0 + 1, D) <=> i = commit_head
  <2>1. 0 .. (0 + 1) - 1 = {0}
    OBVIOUS
  <2> QED
    BY <1>2, <2>1 DEF InWindow
<1>9. committed' = [i \in DOMAIN committed |->
                      IF InWindow(i, commit_head, 0 + 1, D)
                      THEN WithValid(committed[i], FALSE) ELSE committed[i]]
  BY <1>5, <1>7 DEF drain_one
<1>10. committed' = [committed EXCEPT ![commit_head] =
                                WithValid(committed[commit_head], FALSE)]
  BY <1>8, <1>9, CommitCursors
<1>11. /\ commit_head' = (commit_head + (0 + 1)) % D
       /\ commit_count' = commit_count - (0 + 1)
       /\ memory' = Apply(memory, CommitFromOldest(0))
  BY <1>5, <1>7 DEF drain_one
<1>12. UNCHANGED <<spec, spec_head, spec_tail, spec_count, commit_tail>>
  BY DEF drain_one, specVars
<1> QED
  BY <1>1, <1>4, <1>10, <1>11, <1>12

LEMMA TypeInit == Init => TypeOK
  BY DepthAssumption, MemAccessAssumption, EntryTypes
  DEF Init, TypeOK, InitMemory, Byte, Addr

LEMMA TypeStep == TypeOK /\ RingCoherent /\ [Next]_vars => TypeOK'
<1> SUFFICES ASSUME TypeOK, RingCoherent, [Next]_vars PROVE TypeOK'
  OBVIOUS
<1> USE DepthAssumption
<1>1. ASSUME NEW s \in Store, add_store(s) PROVE TypeOK'
  BY <1>1, EntryTypes, ModRange
  DEF TypeOK, add_store, spec_is_full, commitVars
<1>2. CASE commit_store
  <2>1. spec' \in [0 .. SPEC_DEPTH - 1 -> Entry]
    BY <1>2, EntryTypes DEF TypeOK, commit_store
  <2>2. committed' \in [0 .. COMMIT_DEPTH - 1 -> Entry]
    BY <1>2, EntryTypes DEF TypeOK, commit_store
  <2>3. spec_head' \in 0 .. SPEC_DEPTH - 1 /\ commit_tail' \in 0 .. COMMIT_DEPTH - 1
    BY <1>2, ModRange DEF TypeOK, commit_store
  <2>4. spec_count' \in 0 .. SPEC_DEPTH /\ commit_count' \in 0 .. COMMIT_DEPTH
    BY <1>2 DEF TypeOK, commit_store, commit_is_full
  <2> QED
    BY <1>2, <2>1, <2>2, <2>3, <2>4 DEF TypeOK, commit_store
<1>3. CASE drain_one
  <2>1. committed' \in [0 .. COMMIT_DEPTH - 1 -> Entry]
    BY <1>3, CommitCursors, DrainsOldest, EntryTypes
  <2>2. commit_head' \in 0 .. COMMIT_DEPTH - 1
    <3>1. 1 \in 0 .. COMMIT_DEPTH /\ commit_head' = (commit_head + 1) % COMMIT_DEPTH
      BY <1>3, DrainsOldest
    <3> QED
      BY <3>1, CommitCursors, Up
  <2>3. commit_count' \in 0 .. COMMIT_DEPTH
    BY <1>3, CommitCursors, DrainsOldest
  <2>4. committed[commit_head] \in Entry
    BY CommitCursors
  <2>5. Apply(memory, committed[commit_head]) \in [Addr -> Byte]
    BY <2>4, ApplyType DEF Entry, TypeOK
  <2> QED
    BY <1>3, <2>1, <2>2, <2>3, <2>5, DrainsOldest DEF TypeOK
<1>4. ASSUME NEW s \in Store, direct_write(s) PROVE TypeOK'
  <2>1. \A ring, D : ring \in [0 .. D - 1 -> Entry] =>
            Invalidated(ring, s.address, s.size) \in [0 .. D - 1 -> Entry]
    BY EntryTypes DEF Invalidated
  <2>2. Apply(memory, s) \in [Addr -> Byte]
    BY ApplyType DEF TypeOK, Store
  <2> QED
    BY <1>4, <2>1, <2>2 DEF TypeOK, direct_write
<1>5. CASE flush_speculative
  <2>1. spec' \in [0 .. SPEC_DEPTH - 1 -> Entry]
    BY <1>5, EntryTypes DEF TypeOK, flush_speculative
  <2> QED
    <3>1. /\ spec_head' \in 0 .. SPEC_DEPTH - 1
          /\ spec_tail' \in 0 .. SPEC_DEPTH - 1
          /\ spec_count' \in 0 .. SPEC_DEPTH
      BY <1>5 DEF flush_speculative
    <3>2. UNCHANGED <<committed, commit_head, commit_tail, commit_count, memory>>
      BY <1>5 DEF flush_speculative, commitVars
    <3> QED
      BY <2>1, <3>1, <3>2 DEF TypeOK
<1>6. ASSUME NEW n \in 1 .. SPEC_DEPTH, flush_speculative_younger(n)
      PROVE  TypeOK'
  <2>1. spec' \in [0 .. SPEC_DEPTH - 1 -> Entry]
    BY <1>6, EntryTypes DEF TypeOK, flush_speculative_younger
  <2>2. spec_tail' \in 0 .. SPEC_DEPTH - 1
    <3>1. n \in 0 .. SPEC_DEPTH /\ spec_tail' = (spec_tail + SPEC_DEPTH - n) % SPEC_DEPTH
      BY <1>6 DEF flush_speculative_younger
    <3> QED
      BY <3>1, SpecCursors, Down
  <2>3. spec_count' \in 0 .. SPEC_DEPTH
    BY <1>6 DEF TypeOK, flush_speculative_younger
  <2>4. UNCHANGED <<spec_head, committed, commit_head, commit_tail, commit_count, memory>>
    BY <1>6 DEF flush_speculative_younger, commitVars
  <2> QED
    BY <2>1, <2>2, <2>3, <2>4 DEF TypeOK
<1>7. CASE UNCHANGED vars
  BY <1>7 DEF TypeOK, vars, specVars, commitVars
<1> QED
  BY <1>1, <1>2, <1>3, <1>4, <1>5, <1>6, <1>7 DEF Next

-----------------------------------------------------------------------------
(* Cursors. *)

LEMMA RingInit == Init => RingCoherent
<1> SUFFICES ASSUME Init PROVE RingCoherent
  OBVIOUS
<1>1. 0 \in 0 .. SPEC_DEPTH - 1 /\ 0 \in 0 .. COMMIT_DEPTH - 1
  BY DepthAssumption
<1>2. /\ \A i \in 0 .. SPEC_DEPTH - 1 : spec[i].valid = FALSE
      /\ \A i \in 0 .. COMMIT_DEPTH - 1 : committed[i].valid = FALSE
  BY EntryTypes DEF Init
<1> QED
  BY <1>1, <1>2, DepthAssumption, RingEmpty DEF Init, RingCoherent

SpecRing   == Coherent(spec, spec_head, spec_tail, spec_count, SPEC_DEPTH)
CommitRing == Coherent(committed, commit_head, commit_tail, commit_count, COMMIT_DEPTH)

LEMMA RingStep == TypeOK /\ RingCoherent /\ [Next]_vars => RingCoherent'
<1> SUFFICES ASSUME TypeOK, RingCoherent, [Next]_vars PROVE SpecRing' /\ CommitRing'
  BY DEF RingCoherent, SpecRing, CommitRing
<1>0. SpecRing /\ CommitRing
  BY DEF RingCoherent, SpecRing, CommitRing
<1>a. UNCHANGED specVars => SpecRing'
  BY <1>0 DEF specVars, SpecRing
<1>b. UNCHANGED commitVars => CommitRing'
  BY <1>0 DEF commitVars, CommitRing
<1>1. ASSUME NEW s \in Store, add_store(s) PROVE SpecRing' /\ CommitRing'
  <2>1. spec_count \in 0 .. SPEC_DEPTH - 1
    BY <1>1, SpecCursors DEF add_store, spec_is_full
  <2>2. \A i \in 0 .. SPEC_DEPTH - 1 :
           spec'[i].valid <=> i = spec_tail \/ spec[i].valid
    BY <1>1, SpecCursors, EntryTypes DEF add_store
  <2>3. Coherent(spec', spec_head, (spec_tail + 1) % SPEC_DEPTH,
                 spec_count + 1, SPEC_DEPTH)
    BY <1>0, <2>1, <2>2, SpecCursors, RingPush DEF SpecRing
  <2> QED
    BY <1>1, <1>b, <2>3 DEF add_store, SpecRing
<1>2. CASE commit_store
  <2>1. spec_count \in 1 .. SPEC_DEPTH /\ commit_count \in 0 .. COMMIT_DEPTH - 1
    <3>1. spec_count # 0 /\ commit_count # COMMIT_DEPTH
      BY <1>2 DEF commit_store, commit_is_full
    <3>2. /\ SPEC_DEPTH \in Nat /\ spec_count \in 0 .. SPEC_DEPTH
          /\ COMMIT_DEPTH \in Nat /\ commit_count \in 0 .. COMMIT_DEPTH
      BY SpecCursors, CommitCursors
    <3> QED
      BY <3>1, <3>2
  <2>2. \A i \in 0 .. SPEC_DEPTH - 1 :
           spec'[i].valid <=> i # spec_head /\ spec[i].valid
    BY <1>2, SpecCursors, EntryTypes DEF commit_store
  <2>3. Coherent(spec', (spec_head + 1) % SPEC_DEPTH, spec_tail,
                 spec_count - 1, SPEC_DEPTH)
    BY <1>0, <2>1, <2>2, SpecCursors, RingPop DEF SpecRing
  <2>4. \A i \in 0 .. COMMIT_DEPTH - 1 :
           committed'[i].valid <=> i = commit_tail \/ committed[i].valid
    BY <1>2, SpecCursors, CommitCursors, EntryTypes DEF commit_store
  <2>5. Coherent(committed', commit_head, (commit_tail + 1) % COMMIT_DEPTH,
                 commit_count + 1, COMMIT_DEPTH)
    BY <1>0, <2>1, <2>4, CommitCursors, RingPush DEF CommitRing
  <2> QED
    BY <1>2, <2>3, <2>5 DEF commit_store, SpecRing, CommitRing
<1>3. CASE drain_one
  <2>1. commit_count \in 1 .. COMMIT_DEPTH
    BY <1>3, CommitCursors, DrainsOldest
  <2>2. \A i \in 0 .. COMMIT_DEPTH - 1 :
           committed'[i].valid <=> i # commit_head /\ committed[i].valid
    BY <1>3, CommitCursors, DrainsOldest, EntryTypes
  <2>3. Coherent(committed', (commit_head + 1) % COMMIT_DEPTH, commit_tail,
                 commit_count - 1, COMMIT_DEPTH)
    BY <1>0, <2>1, <2>2, CommitCursors, RingPop DEF CommitRing
  <2> QED
    BY <1>3, <1>a, <2>3, DrainsOldest DEF CommitRing, specVars
<1>4. ASSUME NEW s \in Store, direct_write(s) PROVE SpecRing' /\ CommitRing'
  <2>1. /\ \A i \in 0 .. SPEC_DEPTH - 1 : ~ spec[i].valid
        /\ \A i \in 0 .. COMMIT_DEPTH - 1 : ~ committed[i].valid
    BY <1>0, <1>4
    DEF SpecRing, CommitRing, Coherent, InWindow, direct_write, is_empty
  <2>2. spec' = spec /\ committed' = committed
    BY <1>4, <2>1, SpecCursors, CommitCursors DEF direct_write, Invalidated, Matches
  <2> QED
    BY <1>4, <1>a, <1>b, <2>2 DEF direct_write, specVars, commitVars
<1>5. CASE flush_speculative
  <2>1. \A i \in 0 .. SPEC_DEPTH - 1 : spec'[i].valid = FALSE
    BY <1>5, SpecCursors, EntryTypes DEF flush_speculative
  <2>2. 0 \in 0 .. SPEC_DEPTH - 1
    BY SpecCursors
  <2>3. Coherent(spec', 0, 0, 0, SPEC_DEPTH)
    BY <2>1, <2>2, SpecCursors, RingEmpty
  <2> QED
    BY <1>5, <1>b, <2>3 DEF flush_speculative, SpecRing
<1>6. ASSUME NEW n \in 1 .. SPEC_DEPTH, flush_speculative_younger(n)
      PROVE  SpecRing' /\ CommitRing'
  <2>1. n \in 0 .. spec_count
    BY <1>6, SpecCursors DEF flush_speculative_younger
  <2>2. \A i \in 0 .. SPEC_DEPTH - 1 :
           spec'[i].valid <=>
              /\ spec[i].valid
              /\ ~ InTail(i, spec_tail, n, SPEC_DEPTH)
    BY <1>6, SpecCursors, EntryTypes DEF flush_speculative_younger
  <2>3. Coherent(spec', spec_head, (spec_tail + SPEC_DEPTH - n) % SPEC_DEPTH,
                 spec_count - n, SPEC_DEPTH)
    BY <1>0, <2>1, <2>2, SpecCursors, RingPopNewest DEF SpecRing
  <2> QED
    BY <1>6, <1>b, <2>3 DEF flush_speculative_younger, SpecRing
<1>7. CASE UNCHANGED vars
  BY <1>7, <1>a, <1>b DEF vars
<1> QED
  BY <1>1, <1>2, <1>3, <1>4, <1>5, <1>6, <1>7 DEF Next

\* No sequence of calls takes a cursor or a count of the store buffer out of its
\* range (StoreBuffer.h, every member function).
THEOREM StoreBufferTypes == Spec => []TypeOK
<1>1. Init => TypeOK /\ RingCoherent
  BY TypeInit, RingInit
<1>2. TypeOK /\ RingCoherent /\ [Next]_vars => (TypeOK /\ RingCoherent)'
  BY TypeStep, RingStep
<1> QED
  BY <1>1, <1>2, PTL DEF Spec

\* Head, tail, count and the valid bits of both queues always agree, however
\* the rings wrap and whichever end is popped (StoreBuffer.h, add_store,
\* commit_store, drain_one, invalidate_address and the flushes).
THEOREM StoreBufferCoherent == Spec => []RingCoherent
<1>1. Init => TypeOK /\ RingCoherent
  BY TypeInit, RingInit
<1>2. TypeOK /\ RingCoherent /\ [Next]_vars => (TypeOK /\ RingCoherent)'
  BY TypeStep, RingStep
<1> QED
  BY <1>1, <1>2, PTL DEF Spec
-----------------------------------------------------------------------------
(* The two queues as sequences: what an operation does to the entry at     *)
(* every position.                                                         *)

\* A store without the valid bit.
StoreOf(e) == [address |-> e.address, size |-> e.size, data |-> e.data]

LEMMA StoreOfEntry ==
    /\ \A s \in Store : StoreOf(EntryOf(s)) = s
    /\ \A e \in Entry, v \in BOOLEAN : StoreOf(WithValid(e, v)) = StoreOf(e)
<1>1. ASSUME NEW s \in Store PROVE StoreOf(EntryOf(s)) = s
  BY DEF StoreOf, EntryOf, Store
<1>2. ASSUME NEW e \in Entry, NEW v \in BOOLEAN
      PROVE  StoreOf(WithValid(e, v)) = StoreOf(e)
  BY DEF StoreOf, WithValid, Entry
<1> QED
  BY <1>1, <1>2

\* A ring read from its oldest entry.
InOrder(ring, h, c, D) == [k \in 1 .. c |-> StoreOf(ring[(h + (k - 1)) % D])]

Waiting == [address : Addr, size : Sizes \cup {0}, data : Data \cup {Blank}]

LEMMA PendingForm ==
    /\ PendingStores = InOrder(spec, spec_head, spec_count, SPEC_DEPTH)
    /\ PendingStores' = InOrder(spec', spec_head', spec_count', SPEC_DEPTH)
  BY DEF PendingStores, SpecFromOldest, FromOldest, StoreOf, InOrder

LEMMA InOrderAt ==
    ASSUME NEW D \in Nat \ {0}, NEW ring \in [0 .. D - 1 -> Entry],
           NEW h \in 0 .. D - 1, NEW c \in 0 .. D
    PROVE  /\ InOrder(ring, h, c, D) \in [1 .. c -> Waiting]
           /\ \A j \in 0 .. c - 1 :
                 InOrder(ring, h, c, D)[j + 1] = StoreOf(ring[(h + j) % D])
<1>1. ASSUME NEW k \in 1 .. c PROVE StoreOf(ring[(h + (k - 1)) % D]) \in Waiting
  <2> DEFINE j == k - 1
  <2>1. j \in 0 .. D
    OBVIOUS
  <2>2. (h + j) % D \in 0 .. D - 1
    <3> HIDE DEF j
    <3> QED
      BY <2>1, Up
  <2>3. ring[(h + j) % D] \in Entry
    BY <2>2
  <2> QED
    BY <2>3 DEF StoreOf, Waiting, Entry
<1>2. ASSUME NEW j \in 0 .. c - 1
      PROVE  InOrder(ring, h, c, D)[j + 1] = StoreOf(ring[(h + j) % D])
  <2>1. j + 1 \in 1 .. c /\ (j + 1) - 1 = j
    OBVIOUS
  <2> QED
    BY <2>1 DEF InOrder
<1> QED
  BY <1>1, <1>2 DEF InOrder

\* How to recognise the three sequence operations by length and positions.
LEMMA IsAppend ==
    ASSUME NEW T, NEW n \in Nat, NEW p \in [1 .. n -> T], NEW s \in T,
           NEW q \in [1 .. n + 1 -> T],
           q[n + 1] = s, \A k \in 1 .. n : q[k] = p[k]
    PROVE  q = Append(p, s)
<1>1. p \in Seq(T) /\ Len(p) = n
  OBVIOUS
<1> QED
  BY <1>1

LEMMA IsTail ==
    ASSUME NEW T, NEW n \in Nat \ {0}, NEW p \in [1 .. n -> T],
           NEW q \in [1 .. n - 1 -> T],
           \A k \in 1 .. n - 1 : q[k] = p[k + 1]
    PROVE  q = Tail(p) /\ p # <<>> /\ Head(p) = p[1]
<1>1. p \in Seq(T) /\ Len(p) = n
  OBVIOUS
<1>2. p # <<>> /\ Head(p) = p[1]
  BY <1>1
<1> QED
  BY <1>1, <1>2

LEMMA IsPrefix ==
    ASSUME NEW T, NEW n \in Nat, NEW m \in 0 .. n, NEW p \in [1 .. n -> T],
           NEW q \in [1 .. n - m -> T],
           \A k \in 1 .. n - m : q[k] = p[k]
    PROVE  q = SubSeq(p, 1, Len(p) - m) /\ Len(p) = n
<1>1. p \in Seq(T) /\ Len(p) = n
  OBVIOUS
<1> QED
  BY <1>1

\* add_store appends.
LEMMA InOrderPush ==
    ASSUME NEW D \in Nat \ {0}, NEW ring \in [0 .. D - 1 -> Entry],
           NEW h \in 0 .. D - 1, NEW c \in 0 .. D - 1, NEW s \in Store
    PROVE  InOrder([ring EXCEPT ![(h + c) % D] = EntryOf(s)], h, c + 1, D)
              = Append(InOrder(ring, h, c, D), s)
<1> DEFINE new == [ring EXCEPT ![(h + c) % D] = EntryOf(s)]
           p == InOrder(ring, h, c, D)
           q == InOrder(new, h, c + 1, D)
<1>1. new \in [0 .. D - 1 -> Entry] /\ c \in 0 .. D /\ c + 1 \in 0 .. D
  BY EntryTypes
<1>2. (h + c) % D \in 0 .. D - 1
  BY <1>1, Up
<1>3. new[(h + c) % D] = EntryOf(s)
  BY <1>2
<1>4. ASSUME NEW j \in 0 .. c - 1
      PROVE  new[(h + j) % D] = ring[(h + j) % D]
  <2>1. j \in 0 .. D - 1 /\ j \in 0 .. D /\ j # c
    OBVIOUS
  <2>2. (h + j) % D \in 0 .. D - 1 /\ (h + j) % D # (h + c) % D
    BY <2>1, Up, SlotsDiffer
  <2> QED
    BY <2>2
<1> HIDE DEF new
<1>5. p \in [1 .. c -> Waiting] /\ q \in [1 .. c + 1 -> Waiting]
  BY <1>1, InOrderAt
<1>a. \A j \in 0 .. c - 1 : p[j + 1] = StoreOf(ring[(h + j) % D])
  BY <1>1, InOrderAt
<1>b. \A j \in 0 .. (c + 1) - 1 : q[j + 1] = StoreOf(new[(h + j) % D])
  BY <1>1, InOrderAt
<1>6. q[c + 1] = s
  <2>1. c \in 0 .. (c + 1) - 1
    OBVIOUS
  <2>2. q[c + 1] = StoreOf(new[(h + c) % D])
    BY <1>b, <2>1, Zenon
  <2> QED
    BY <1>3, <2>2, StoreOfEntry
<1>7. ASSUME NEW k \in 1 .. c PROVE q[k] = p[k]
  <2> DEFINE j == k - 1
  <2>1. j \in 0 .. c - 1 /\ j \in 0 .. (c + 1) - 1 /\ j + 1 = k
    OBVIOUS
  <2>2. q[j + 1] = p[j + 1]
    <3> HIDE DEF j
    <3> QED
      BY <1>a, <1>b, <1>4, <2>1, Zenon
  <2> QED
    BY <2>1, <2>2
<1>8. s \in Waiting
  BY DEF Store, Waiting
<1> HIDE DEF p, q
<1>9. q = Append(p, s)
  BY <1>5, <1>6, <1>7, <1>8, IsAppend
<1> QED
  BY <1>9 DEF new, p, q

\* commit_store takes the head.
LEMMA InOrderPop ==
    ASSUME NEW D \in Nat \ {0}, NEW ring \in [0 .. D - 1 -> Entry],
           NEW h \in 0 .. D - 1, NEW c \in 1 .. D, NEW v \in BOOLEAN
    PROVE  /\ InOrder([ring EXCEPT ![h] = WithValid(ring[h], v)], (h + 1) % D, c - 1, D)
                 = Tail(InOrder(ring, h, c, D))
           /\ InOrder(ring, h, c, D) # <<>>
           /\ Head(InOrder(ring, h, c, D)) = StoreOf(ring[h])
<1> DEFINE new == [ring EXCEPT ![h] = WithValid(ring[h], v)]
           p == InOrder(ring, h, c, D)
           g == (h + 1) % D
           q == InOrder(new, g, c - 1, D)
<1>1. new \in [0 .. D - 1 -> Entry] /\ c \in 0 .. D /\ c - 1 \in 0 .. D /\ 1 \in 0 .. D
  BY EntryTypes
<1>2. g \in 0 .. D - 1
  BY <1>1, Up
<1>3. \A i \in 0 .. D - 1 : StoreOf(new[i]) = StoreOf(ring[i])
  BY StoreOfEntry
<1> HIDE DEF new, g
<1>4. p \in [1 .. c -> Waiting] /\ q \in [1 .. c - 1 -> Waiting]
  BY <1>1, <1>2, InOrderAt
<1>a. \A j \in 0 .. c - 1 : p[j + 1] = StoreOf(ring[(h + j) % D])
  BY <1>1, InOrderAt
<1>b. \A j \in 0 .. (c - 1) - 1 : q[j + 1] = StoreOf(new[(g + j) % D])
  BY <1>1, <1>2, InOrderAt
<1>5. ASSUME NEW k \in 1 .. c - 1 PROVE q[k] = p[k + 1]
  <2> DEFINE j == k - 1
  <2>1. j \in 0 .. (c - 1) - 1 /\ j + 1 \in 0 .. c - 1 /\ j + 1 = k /\ j \in 0 .. D - 1
        /\ j + 1 \in 0 .. D
    OBVIOUS
  <2>2. q[j + 1] = p[(j + 1) + 1]
    <3> HIDE DEF j
    <3>1. q[j + 1] = StoreOf(new[(g + j) % D])
      BY <1>b, <2>1, Zenon
    <3>2. (g + j) % D = (h + (j + 1)) % D
      BY <2>1, NextSlot DEF g
    <3>3. (h + (j + 1)) % D \in 0 .. D - 1
      BY <2>1, Up
    <3>4. p[(j + 1) + 1] = StoreOf(ring[(h + (j + 1)) % D])
      BY <1>a, <2>1, Zenon
    <3> QED
      BY <1>3, <3>1, <3>2, <3>3, <3>4
  <2> QED
    BY <2>1, <2>2
<1>6. p[1] = StoreOf(ring[h])
  <2>1. 0 \in 0 .. c - 1 /\ 0 + 1 = 1 /\ (h + 0) % D = h
    BY ModInside
  <2>2. p[0 + 1] = StoreOf(ring[(h + 0) % D])
    BY <1>a, <2>1, Zenon
  <2> QED
    BY <2>1, <2>2
<1> HIDE DEF p, q
<1>7. q = Tail(p) /\ p # <<>> /\ Head(p) = p[1]
  <2>1. c \in Nat \ {0}
    OBVIOUS
  <2> QED
    BY <1>4, <1>5, <2>1, IsTail
<1> QED
  BY <1>6, <1>7 DEF new, p, q, g

\* Dropping the n youngest entries leaves a prefix, whatever their valid bits.
LEMMA InOrderSquash ==
    ASSUME NEW D \in Nat \ {0}, NEW ring \in [0 .. D - 1 -> Entry],
           NEW new \in [0 .. D - 1 -> Entry],
           NEW h \in 0 .. D - 1, NEW c \in 0 .. D, NEW n \in 0 .. c,
           \A i \in 0 .. D - 1 : StoreOf(new[i]) = StoreOf(ring[i])
    PROVE  /\ InOrder(new, h, c - n, D)
                 = SubSeq(InOrder(ring, h, c, D), 1, Len(InOrder(ring, h, c, D)) - n)
           /\ Len(InOrder(ring, h, c, D)) = c
<1> DEFINE p == InOrder(ring, h, c, D)
           q == InOrder(new, h, c - n, D)
<1>1. p \in [1 .. c -> Waiting] /\ q \in [1 .. c - n -> Waiting]
  <2>1. c - n \in 0 .. D
    OBVIOUS
  <2> QED
    BY <2>1, InOrderAt
<1>a. \A j \in 0 .. c - 1 : p[j + 1] = StoreOf(ring[(h + j) % D])
  BY InOrderAt
<1>b. \A j \in 0 .. (c - n) - 1 : q[j + 1] = StoreOf(new[(h + j) % D])
  <2>1. c - n \in 0 .. D
    OBVIOUS
  <2> QED
    BY <2>1, InOrderAt
<1>2. ASSUME NEW k \in 1 .. c - n PROVE q[k] = p[k]
  <2> DEFINE j == k - 1
  <2>1. j \in 0 .. (c - n) - 1 /\ j \in 0 .. c - 1 /\ j + 1 = k /\ j \in 0 .. D
        /\ c - n \in 0 .. D
    OBVIOUS
  <2>2. q[j + 1] = p[j + 1]
    <3> HIDE DEF j
    <3>1. (h + j) % D \in 0 .. D - 1
      BY <2>1, Up
    <3> QED
      BY <1>a, <1>b, <2>1, <3>1, Zenon
  <2> QED
    BY <2>1, <2>2
<1> HIDE DEF p, q
<1>3. q = SubSeq(p, 1, Len(p) - n) /\ Len(p) = c
  <2>1. c \in Nat
    OBVIOUS
  <2> QED
    BY <1>1, <1>2, <2>1, IsPrefix
<1> QED
  BY <1>3 DEF p, q

-----------------------------------------------------------------------------
(* The committed queue over memory: E lists the entries, newest first.      *)

Hits(E, c, b) == {k \in 0 .. c - 1 : E[k].valid /\ Covers(E[k], b)}

Settled(E, c, m) ==
    [b \in Addr |-> IF Hits(E, c, b) = {} THEN m[b]
                    ELSE ByteOf(E[First(Hits(E, c, b))], b)]

NewestFirst(ring, t, c, D) == [k \in 0 .. c - 1 |-> ring[(t + D - 1 - k) % D]]

\* ArchMemory, for any ring.
SettledRing(ring, t, c, D, m) ==
    [b \in Addr |->
        LET covering == {k \in 0 .. c - 1 :
                            /\ FromNewest(ring, t, k, D).valid
                            /\ Covers(FromNewest(ring, t, k, D), b)}
        IN  IF covering = {} THEN m[b]
            ELSE ByteOf(FromNewest(ring, t, First(covering), D), b)]

LEMMA SettledForm ==
    ASSUME NEW ring, NEW t, NEW c \in Nat, NEW D, NEW m
    PROVE  SettledRing(ring, t, c, D, m) = Settled(NewestFirst(ring, t, c, D), c, m)
<1> DEFINE C(b) == {k \in 0 .. c - 1 : /\ FromNewest(ring, t, k, D).valid
                                       /\ Covers(FromNewest(ring, t, k, D), b)}
           E == NewestFirst(ring, t, c, D)
<1>0. \A k \in 0 .. c - 1 : E[k] = FromNewest(ring, t, k, D)
  BY DEF NewestFirst, FromNewest
<1> HIDE DEF E
<1>1. ASSUME NEW b \in Addr
      PROVE  /\ C(b) = Hits(E, c, b)
             /\ C(b) # {} => E[First(C(b))] = FromNewest(ring, t, First(C(b)), D)
  <2>1. C(b) = Hits(E, c, b)
    BY <1>0 DEF Hits
  <2>2. C(b) \in SUBSET Nat /\ C(b) \subseteq 0 .. c - 1
    OBVIOUS
  <2> HIDE DEF C
  <2>3. C(b) # {} => First(C(b)) \in 0 .. c - 1
    BY <2>2, FirstIsLeast
  <2> QED
    BY <1>0, <2>1, <2>3
<1>2. ASSUME NEW b \in Addr
      PROVE  (IF C(b) = {} THEN m[b] ELSE ByteOf(FromNewest(ring, t, First(C(b)), D), b))
               = (IF Hits(E, c, b) = {} THEN m[b] ELSE ByteOf(E[First(Hits(E, c, b))], b))
  <2>1. C(b) = Hits(E, c, b) /\ (C(b) # {} => E[First(C(b))] = FromNewest(ring, t, First(C(b)), D))
    BY <1>1
  <2> HIDE DEF C
  <2> QED
    BY <2>1
<1>3. [b \in Addr |-> IF C(b) = {} THEN m[b] ELSE ByteOf(FromNewest(ring, t, First(C(b)), D), b)]
        = Settled(E, c, m)
  <2> HIDE DEF C
  <2> QED
    BY <1>2 DEF Settled
<1> QED
  BY <1>3 DEF E, SettledRing

LEMMA ArchForm ==
    ASSUME TypeOK, TypeOK'
    PROVE  /\ ArchMemory =
                 Settled(NewestFirst(committed, commit_tail, commit_count, COMMIT_DEPTH),
                         commit_count, memory)
           /\ ArchMemory' =
                 Settled(NewestFirst(committed', commit_tail', commit_count', COMMIT_DEPTH),
                         commit_count', memory')
<1>1. commit_count \in Nat /\ commit_count' \in Nat
  BY DepthAssumption DEF TypeOK
<1>2. ArchMemory = SettledRing(committed, commit_tail, commit_count, COMMIT_DEPTH, memory)
  BY DEF ArchMemory, CommitFromNewest, SettledRing
<1>3. ArchMemory' =
         SettledRing(committed', commit_tail', commit_count', COMMIT_DEPTH, memory')
  BY DEF ArchMemory, CommitFromNewest, SettledRing
<1> QED
  BY <1>1, <1>2, <1>3, SettledForm

\* The byte at b comes from the newest entry that covers it.
LEMMA SettledNone ==
    ASSUME NEW E, NEW c \in Nat, NEW m, NEW b \in Addr,
           \A k \in 0 .. c - 1 : ~ (E[k].valid /\ Covers(E[k], b))
    PROVE  Settled(E, c, m)[b] = m[b]
<1>1. Hits(E, c, b) = {}
  BY DEF Hits
<1> QED
  BY <1>1 DEF Settled

LEMMA SettledAt ==
    ASSUME NEW E, NEW c \in Nat, NEW m, NEW b \in Addr,
           NEW k \in 0 .. c - 1, E[k].valid, Covers(E[k], b),
           \A j \in 0 .. k - 1 : ~ (E[j].valid /\ Covers(E[j], b))
    PROVE  Settled(E, c, m)[b] = ByteOf(E[k], b)
<1> DEFINE H == Hits(E, c, b)
<1>1. k \in H /\ H \in SUBSET Nat /\ \A j \in H : ~ (j \in 0 .. k - 1)
  BY DEF Hits
<1>2. First(H) \in H /\ First(H) <= k
  BY <1>1, FirstIsLeast
<1>3. First(H) \in Nat /\ ~ (First(H) \in 0 .. k - 1)
  BY <1>1, <1>2
<1>4. First(H) = k
  BY <1>2, <1>3
<1>5. Settled(E, c, m)[b] = ByteOf(E[First(H)], b)
  BY <1>1 DEF Settled
<1> QED
  BY <1>4, <1>5

\* Every byte is covered by no entry, or by a newest one.
LEMMA SettledCases ==
    ASSUME NEW E, NEW c \in Nat, NEW b
    PROVE  \/ \A k \in 0 .. c - 1 : ~ (E[k].valid /\ Covers(E[k], b))
           \/ \E k \in 0 .. c - 1 :
                 /\ E[k].valid /\ Covers(E[k], b)
                 /\ \A j \in 0 .. k - 1 : ~ (E[j].valid /\ Covers(E[j], b))
<1> SUFFICES ASSUME Hits(E, c, b) # {}
             PROVE  \E k \in 0 .. c - 1 :
                       /\ E[k].valid /\ Covers(E[k], b)
                       /\ \A j \in 0 .. k - 1 : ~ (E[j].valid /\ Covers(E[j], b))
  BY DEF Hits
<1> DEFINE H == Hits(E, c, b)
           k == First(H)
<1>1. H \in SUBSET Nat
  BY DEF Hits
<1>2. k \in H /\ \A j \in H : k <= j
  BY <1>1, FirstIsLeast
<1> HIDE DEF k
<1>3. k \in 0 .. c - 1 /\ E[k].valid /\ Covers(E[k], b)
  BY <1>2 DEF Hits
<1>4. ASSUME NEW j \in 0 .. k - 1 PROVE ~ (E[j].valid /\ Covers(E[j], b))
  <2>1. j \in 0 .. c - 1 /\ ~ (k <= j)
    BY <1>3
  <2>2. j \notin H
    BY <1>2, <2>1
  <2> QED
    BY <2>1, <2>2 DEF Hits
<1> QED
  BY <1>3, <1>4

\* A store committed on top is the last one applied.
LEMMA SettledPush ==
    ASSUME NEW E, NEW F, NEW c \in Nat, NEW m, F[0].valid,
           \A k \in 0 .. c - 1 : F[k + 1] = E[k]
    PROVE  Settled(F, c + 1, m) = Apply(Settled(E, c, m), F[0])
<1>1. ASSUME NEW b \in Addr
      PROVE  Settled(F, c + 1, m)[b]
                = IF Covers(F[0], b) THEN ByteOf(F[0], b) ELSE Settled(E, c, m)[b]
  <2>0. c + 1 \in Nat /\ 0 \in 0 .. (c + 1) - 1
    OBVIOUS
  <2>1. CASE Covers(F[0], b)
    <3>1. \A j \in 0 .. 0 - 1 : ~ (F[j].valid /\ Covers(F[j], b))
      OBVIOUS
    <3> QED
      BY <2>0, <2>1, <3>1, SettledAt
  <2>2. CASE ~ Covers(F[0], b)
    <3>1. ASSUME \A k \in 0 .. c - 1 : ~ (E[k].valid /\ Covers(E[k], b))
          PROVE  Settled(F, c + 1, m)[b] = Settled(E, c, m)[b]
      <4>1. ASSUME NEW k \in 0 .. (c + 1) - 1 PROVE ~ (F[k].valid /\ Covers(F[k], b))
        <5>1. CASE k = 0
          BY <2>2, <5>1
        <5>2. CASE k # 0
          <6> DEFINE i == k - 1
          <6>1. i \in 0 .. c - 1 /\ i + 1 = k
            BY <5>2
          <6>2. F[i + 1] = E[i]
            <7> HIDE DEF i
            <7> QED
              BY <6>1
          <6> HIDE DEF i
          <6> QED
            BY <3>1, <6>1, <6>2
        <5> QED
          BY <5>1, <5>2
      <4>2. Settled(F, c + 1, m)[b] = m[b]
        <5> DEFINE n == c + 1
        <5>1. n \in Nat /\ \A k \in 0 .. n - 1 : ~ (F[k].valid /\ Covers(F[k], b))
          BY <4>1
        <5> HIDE DEF n
        <5>2. Settled(F, n, m)[b] = m[b]
          BY <5>1, SettledNone
        <5> QED
          BY <5>2 DEF n
      <4>3. Settled(E, c, m)[b] = m[b]
        BY <3>1, SettledNone
      <4> QED
        BY <4>2, <4>3
    <3>2. ASSUME NEW k \in 0 .. c - 1, E[k].valid, Covers(E[k], b),
                 \A j \in 0 .. k - 1 : ~ (E[j].valid /\ Covers(E[j], b))
          PROVE  Settled(F, c + 1, m)[b] = Settled(E, c, m)[b]
      <4>1. k + 1 \in 0 .. (c + 1) - 1 /\ F[k + 1] = E[k]
        OBVIOUS
      <4>2. ASSUME NEW j \in 0 .. (k + 1) - 1 PROVE ~ (F[j].valid /\ Covers(F[j], b))
        <5>1. CASE j = 0
          BY <2>2, <5>1
        <5>2. CASE j # 0
          <6> DEFINE i == j - 1
          <6>1. i \in 0 .. k - 1 /\ i \in 0 .. c - 1 /\ i + 1 = j
            BY <5>2
          <6>2. F[i + 1] = E[i]
            <7> HIDE DEF i
            <7> QED
              BY <6>1
          <6> HIDE DEF i
          <6> QED
            BY <3>2, <6>1, <6>2
        <5> QED
          BY <5>1, <5>2
      <4>3. Settled(F, c + 1, m)[b] = ByteOf(F[k + 1], b)
        <5> DEFINE k1 == k + 1
        <5> HIDE DEF k1
        <5>1. k1 \in 0 .. (c + 1) - 1 /\ F[k1].valid /\ Covers(F[k1], b)
          BY <3>2, <4>1 DEF k1
        <5>2. \A j \in 0 .. k1 - 1 : ~ (F[j].valid /\ Covers(F[j], b))
          BY <4>2 DEF k1
        <5>3. Settled(F, c + 1, m)[b] = ByteOf(F[k1], b)
          BY <2>0, <5>1, <5>2, SettledAt
        <5> QED
          BY <5>3 DEF k1
      <4> QED
        BY <3>2, <4>1, <4>3, SettledAt
    <3>3. Settled(F, c + 1, m)[b] = Settled(E, c, m)[b]
      BY <3>1, <3>2, SettledCases
    <3> QED
      BY <2>2, <3>3
  <2> QED
    BY <2>1, <2>2
<1> QED
  BY <1>1 DEF Settled, Apply

\* Writing the oldest store to memory and dropping it changes nothing.
LEMMA SettledPop ==
    ASSUME NEW E, NEW F, NEW c \in Nat \ {0}, NEW m, E[c - 1].valid,
           \A k \in 0 .. (c - 1) - 1 : F[k] = E[k]
    PROVE  Settled(F, c - 1, Apply(m, E[c - 1])) = Settled(E, c, m)
<1> DEFINE n == Apply(m, E[c - 1])
           d == c - 1
<1>0. d \in Nat /\ d \in 0 .. c - 1 /\ c \in Nat
  OBVIOUS
<1>1. ASSUME NEW b \in Addr
      PROVE  Settled(F, d, n)[b] = Settled(E, c, m)[b]
  <2>1. ASSUME NEW k \in 0 .. d - 1, E[k].valid, Covers(E[k], b),
               \A j \in 0 .. k - 1 : ~ (E[j].valid /\ Covers(E[j], b))
        PROVE  Settled(F, d, n)[b] = Settled(E, c, m)[b]
    <3>1. k \in 0 .. c - 1 /\ F[k] = E[k] /\ \A j \in 0 .. k - 1 : F[j] = E[j]
      OBVIOUS
    <3>2. Settled(E, c, m)[b] = ByteOf(E[k], b)
      BY <1>0, <2>1, <3>1, SettledAt
    <3> HIDE DEF d, n
    <3>3. Settled(F, d, n)[b] = ByteOf(F[k], b)
      BY <1>0, <2>1, <3>1, SettledAt
    <3> QED
      BY <3>1, <3>2, <3>3
  <2>2. ASSUME \A k \in 0 .. d - 1 : ~ (E[k].valid /\ Covers(E[k], b))
        PROVE  Settled(F, d, n)[b] = Settled(E, c, m)[b]
    <3>1. Settled(F, d, n)[b] = n[b]
      <4>1. \A k \in 0 .. d - 1 : ~ (F[k].valid /\ Covers(F[k], b))
        BY <2>2
      <4> HIDE DEF d, n
      <4> QED
        BY <1>0, <4>1, SettledNone
    <3>2. n[b] = IF Covers(E[d], b) THEN ByteOf(E[d], b) ELSE m[b]
      BY DEF Apply
    <3>3. CASE Covers(E[d], b)
      <4>1. Settled(E, c, m)[b] = ByteOf(E[d], b)
        <5>1. E[d].valid
          OBVIOUS
        <5>2. d \in 0 .. c - 1
          OBVIOUS
        <5> HIDE DEF d
        <5> QED
          BY <1>0, <2>2, <3>3, <5>1, <5>2, SettledAt
      <4> QED
        BY <3>1, <3>2, <3>3, <4>1
    <3>4. CASE ~ Covers(E[d], b)
      <4>1. \A k \in 0 .. c - 1 : k \in 0 .. d - 1 \/ k = d
        OBVIOUS
      <4>2. \A k \in 0 .. c - 1 : ~ (E[k].valid /\ Covers(E[k], b))
        BY <2>2, <3>4, <4>1
      <4>3. Settled(E, c, m)[b] = m[b]
        BY <1>0, <4>2, SettledNone
      <4> QED
        BY <3>1, <3>2, <3>4, <4>3
    <3> QED
      BY <3>3, <3>4
  <2> QED
    <3> HIDE DEF d, n
    <3> QED
      BY <1>0, <2>1, <2>2, SettledCases
<1> QED
  BY <1>1 DEF Settled

\* A push of e, and a pop of the oldest entry that leaves x in its slot.
Pushed(D, h, t, c, ring, e, new, u, c1) ==
    /\ D \in Nat \ {0} /\ ring \in [0 .. D - 1 -> Entry]
    /\ h \in 0 .. D - 1 /\ t \in 0 .. D - 1 /\ c \in 0 .. D - 1 /\ t = (h + c) % D
    /\ new = [ring EXCEPT ![t] = e] /\ u = (t + 1) % D /\ c1 = c + 1

Popped(D, h, t, c, ring, x, new, c1) ==
    /\ D \in Nat \ {0} /\ ring \in [0 .. D - 1 -> Entry]
    /\ h \in 0 .. D - 1 /\ t \in 0 .. D - 1 /\ c \in 1 .. D /\ t = (h + c) % D
    /\ new = [ring EXCEPT ![h] = x] /\ c1 = c - 1

\* A push shifts every older entry by one position.
LEMMA NewestPush ==
    ASSUME NEW D, NEW h, NEW t, NEW c, NEW ring, NEW e, NEW new, NEW u, NEW c1,
           Pushed(D, h, t, c, ring, e, new, u, c1)
    PROVE  /\ NewestFirst(new, u, c1, D)[0] = e
           /\ \A k \in 0 .. c - 1 :
                 NewestFirst(new, u, c1, D)[k + 1] = NewestFirst(ring, t, c, D)[k]
<1> USE DEF Pushed
<1> DEFINE F == NewestFirst(new, u, c + 1, D)
<1>1. c \in 0 .. D /\ c + 1 \in 0 .. D /\ 1 \in 0 .. D
  OBVIOUS
<1>2. u = (h + (c + 1)) % D /\ u \in 0 .. D - 1
  <2>1. u = (h + (c + 1)) % D
    BY PushWindow
  <2>2. u \in 0 .. D - 1
    BY <1>1, Up
  <2> QED
    BY <2>1, <2>2
<1>3. \A k \in 0 .. (c + 1) - 1 : F[k] = new[(u + D - 1 - k) % D]
  BY DEF NewestFirst
<1>4. ASSUME NEW k \in 0 .. (c + 1) - 1
      PROVE  (u + D - 1 - k) % D = (h + ((c + 1) - 1 - k)) % D
  <2>1. Cursors(h, u, c1, D) /\ k \in 0 .. c1 - 1
    BY <1>1, <1>2 DEF Cursors
  <2>2. (u + D - 1 - k) % D = (h + (c1 - 1 - k)) % D
    <3> HIDE DEF Pushed
    <3> QED
      BY <2>1, NewestSlot
  <2> QED
    BY <2>2
<1>5. F[0] = e
  <2>1. 0 \in 0 .. (c + 1) - 1 /\ (c + 1) - 1 - 0 = c
    OBVIOUS
  <2>2. (u + D - 1 - 0) % D = (h + ((c + 1) - 1 - 0)) % D
    BY <1>4, <2>1, Zenon
  <2>3. F[0] = new[(u + D - 1 - 0) % D]
    BY <1>3, <2>1, Zenon
  <2> QED
    BY <2>1, <2>2, <2>3
<1>6. ASSUME NEW k \in 0 .. c - 1 PROVE F[k + 1] = NewestFirst(ring, t, c, D)[k]
  <2> DEFINE i == k + 1
             j == c - 1 - k
  <2>1. i \in 0 .. (c + 1) - 1 /\ (c + 1) - 1 - i = j /\ j \in 0 .. D - 1 /\ j \in 0 .. D /\ j # c
    OBVIOUS
  <2>2. F[i] = new[(h + j) % D]
    <3> HIDE DEF i, j, F
    <3> QED
      BY <1>3, <1>4, <2>1
  <2>3. NewestFirst(ring, t, c, D)[k] = ring[(t + D - 1 - k) % D]
    BY DEF NewestFirst
  <2>4. (t + D - 1 - k) % D = (h + j) % D
    <3>1. Cursors(h, t, c, D)
      BY <1>1 DEF Cursors
    <3> HIDE DEF Pushed
    <3> QED
      BY <3>1, NewestSlot
  <2>5. (h + j) % D \in 0 .. D - 1 /\ (h + j) % D # t
    <3> HIDE DEF j
    <3> QED
      BY <2>1, Up, SlotsDiffer
  <2>6. new[(h + j) % D] = ring[(h + j) % D]
    <3> HIDE DEF j
    <3> QED
      BY <2>5
  <2> QED
    BY <2>2, <2>3, <2>4, <2>6
<1> QED
  BY <1>5, <1>6

\* A pop at the oldest end leaves every newer entry where it is.
LEMMA NewestPop ==
    ASSUME NEW D, NEW h, NEW t, NEW c, NEW ring, NEW x, NEW new, NEW c1,
           Popped(D, h, t, c, ring, x, new, c1)
    PROVE  /\ NewestFirst(ring, t, c, D)[c - 1] = ring[h]
           /\ \A k \in 0 .. (c - 1) - 1 :
                 NewestFirst(new, t, c1, D)[k] = NewestFirst(ring, t, c, D)[k]
<1> USE DEF Popped
<1>0. D \in Nat \ {0} /\ h \in 0 .. D - 1 /\ c \in 0 .. D /\ 0 \in 0 .. D - 1 /\ h + 0 = h
  OBVIOUS
<1>1. c \in 0 .. D /\ 0 \in 0 .. D - 1 /\ (h + 0) % D = h
  <2> HIDE DEF Popped
  <2>1. h % D = h
    BY <1>0, ModInside
  <2> QED
    BY <1>0, <2>1
<1>2. \A k \in 0 .. c - 1 : NewestFirst(ring, t, c, D)[k] = ring[(t + D - 1 - k) % D]
  BY DEF NewestFirst
<1>3. \A k \in 0 .. (c - 1) - 1 : NewestFirst(new, t, c - 1, D)[k] = new[(t + D - 1 - k) % D]
  BY DEF NewestFirst
<1>4. \A k \in 0 .. c - 1 : (t + D - 1 - k) % D = (h + (c - 1 - k)) % D
  <2>1. Cursors(h, t, c, D)
    BY <1>1 DEF Cursors
  <2> HIDE DEF Popped
  <2> QED
    BY <2>1, NewestSlot
<1>5. NewestFirst(ring, t, c, D)[c - 1] = ring[h]
  <2> DEFINE k == c - 1
  <2>1. k \in 0 .. c - 1 /\ c - 1 - k = 0
    OBVIOUS
  <2>2. NewestFirst(ring, t, c, D)[k] = ring[h]
    <3> HIDE DEF k
    <3> QED
      BY <1>1, <1>2, <1>4, <2>1
  <2> QED
    BY <2>2
<1>6. ASSUME NEW k \in 0 .. (c - 1) - 1
      PROVE  NewestFirst(new, t, c - 1, D)[k] = NewestFirst(ring, t, c, D)[k]
  <2> DEFINE j == c - 1 - k
  <2>1. k \in 0 .. c - 1 /\ j \in 0 .. D - 1 /\ j \in 0 .. D /\ j # 0
    OBVIOUS
  <2>2. (t + D - 1 - k) % D = (h + j) % D
    BY <1>4, <2>1, Zenon
  <2>3. (h + j) % D \in 0 .. D - 1 /\ (h + j) % D # (h + 0) % D
    <3> HIDE DEF j
    <3> QED
      BY <1>1, <2>1, Up, SlotsDiffer
  <2>4. new[(h + j) % D] = ring[(h + j) % D]
    <3> HIDE DEF j
    <3> QED
      BY <1>1, <2>3
  <2> QED
    BY <1>2, <1>3, <2>1, <2>2, <2>4
<1> QED
  BY <1>5, <1>6

-----------------------------------------------------------------------------
(* Refinement. *)

\* The operators of MemAccess mean the same in the instance.
LEMMA QueueOperators ==
    /\ Queue!Store = Store
    /\ Queue!InitMemory = InitMemory
    /\ \A m, s : Queue!Apply(m, s) = Apply(m, s)
    /\ \A s, b : Queue!Covers(s, b) = Covers(s, b) /\ Queue!ByteOf(s, b) = ByteOf(s, b)
<1>1. Queue!Addr = Addr
  BY DEF Queue!Addr, Addr
<1>2. Queue!Store = Store /\ Queue!InitMemory = InitMemory
  BY <1>1 DEF Queue!Store, Store, Queue!InitMemory, InitMemory
<1>3. \A s, b : Queue!Covers(s, b) = Covers(s, b) /\ Queue!ByteOf(s, b) = ByteOf(s, b)
  BY DEF Queue!Covers, Covers, Queue!ByteOf, ByteOf
<1>4. \A m, s : Queue!Apply(m, s) = Apply(m, s)
  BY <1>1, <1>3 DEF Queue!Apply, Apply
<1> QED
  BY <1>2, <1>3, <1>4

LEMMA QueueInit == Init => Queue!Init
<1> SUFFICES ASSUME Init PROVE Queue!Init
  OBVIOUS
<1>1. PendingStores = <<>>
  BY DEF Init, PendingStores
<1>2. ArchMemory = InitMemory
  <2>1. \A k \in 0 .. commit_count - 1 : FALSE
    BY DEF Init
  <2> QED
    BY <2>1 DEF ArchMemory, Init, InitMemory
<1> QED
  BY <1>1, <1>2, QueueOperators DEF Queue!Init

LEMMA QueueStep ==
    ASSUME TypeOK, RingCoherent, TypeOK', [Next]_vars
    PROVE  [Queue!Next]_(Queue!vars)
<1>0. /\ spec_tail = (spec_head + spec_count) % SPEC_DEPTH
      /\ commit_tail = (commit_head + commit_count) % COMMIT_DEPTH
  BY DEF RingCoherent, Coherent
<1>a. UNCHANGED <<specVars, commitVars, memory>> => UNCHANGED Queue!vars
  BY PendingForm, ArchForm DEF specVars, commitVars, Queue!vars
<1>b. UNCHANGED specVars => PendingStores' = PendingStores
  BY PendingForm DEF specVars
<1>c. UNCHANGED <<commitVars, memory>> => ArchMemory' = ArchMemory
  BY ArchForm DEF commitVars
<1>1. ASSUME NEW s \in Store, add_store(s) PROVE Queue!Next
  <2>1. spec_count \in 0 .. SPEC_DEPTH - 1
    BY <1>1, SpecCursors DEF add_store, spec_is_full
  <2>2. PendingStores' = Append(PendingStores, s)
    BY <1>0, <1>1, <2>1, SpecCursors, PendingForm, InOrderPush DEF add_store
  <2>3. ArchMemory' = ArchMemory
    BY <1>1, <1>c DEF add_store
  <2> QED
    BY <2>2, <2>3, QueueOperators DEF Queue!Next, Queue!Execute
<1>2. CASE commit_store
  <2>1. spec_count \in 1 .. SPEC_DEPTH /\ commit_count \in 0 .. COMMIT_DEPTH - 1
    <3>1. spec_count # 0 /\ commit_count # COMMIT_DEPTH
      BY <1>2 DEF commit_store, commit_is_full
    <3>2. /\ SPEC_DEPTH \in Nat /\ spec_count \in 0 .. SPEC_DEPTH
          /\ COMMIT_DEPTH \in Nat /\ commit_count \in 0 .. COMMIT_DEPTH
      BY SpecCursors, CommitCursors
    <3> QED
      BY <3>1, <3>2
  <2>2. /\ PendingStores' = Tail(PendingStores) /\ PendingStores # <<>>
        /\ Head(PendingStores) = StoreOf(spec[spec_head])
    BY <1>2, <2>1, SpecCursors, PendingForm, InOrderPop DEF commit_store
  <2> DEFINE e == WithValid(spec[spec_head], TRUE)
             E == NewestFirst(committed, commit_tail, commit_count, COMMIT_DEPTH)
             F == NewestFirst(committed', commit_tail', commit_count', COMMIT_DEPTH)
  <2>3. F[0] = e /\ \A k \in 0 .. commit_count - 1 : F[k + 1] = E[k]
    <3>1. /\ committed' = [committed EXCEPT ![commit_tail] = e]
          /\ commit_tail' = (commit_tail + 1) % COMMIT_DEPTH
          /\ commit_count' = commit_count + 1
      BY <1>2 DEF commit_store
    <3>2. /\ COMMIT_DEPTH \in Nat \ {0} /\ committed \in [0 .. COMMIT_DEPTH - 1 -> Entry]
          /\ commit_head \in 0 .. COMMIT_DEPTH - 1 /\ commit_tail \in 0 .. COMMIT_DEPTH - 1
      BY CommitCursors
    <3>3. Pushed(COMMIT_DEPTH, commit_head, commit_tail, commit_count, committed, e,
                 committed', commit_tail', commit_count')
      BY <1>0, <2>1, <3>1, <3>2 DEF Pushed
    <3> HIDE DEF e
    <3> QED
      BY <3>3, NewestPush
  <2>4. spec[spec_head] \in Entry /\ e.valid
    BY SpecCursors, EntryTypes
  <2>5. ArchMemory' = Apply(ArchMemory, e)
    <3>1. commit_count \in Nat /\ commit_count' = commit_count + 1 /\ memory' = memory
      BY <1>2, <2>1 DEF commit_store
    <3>2. ArchMemory = Settled(E, commit_count, memory) /\ ArchMemory' = Settled(F, commit_count', memory')
      BY ArchForm
    <3> HIDE DEF e, E, F
    <3>3. Settled(F, commit_count + 1, memory) = Apply(Settled(E, commit_count, memory), F[0])
      BY <2>3, <2>4, <3>1, SettledPush
    <3> QED
      BY <2>3, <3>1, <3>2, <3>3
  <2>6. \A m : Apply(m, e) = Apply(m, StoreOf(spec[spec_head]))
    BY <2>4 DEF Apply, Covers, ByteOf, StoreOf, WithValid, Entry
  <2> QED
    BY <2>2, <2>5, <2>6, QueueOperators DEF Queue!Next, Queue!Retire
<1>3. CASE drain_one
  <2>1. commit_count \in 1 .. COMMIT_DEPTH /\ commit_count \in Nat \ {0}
    BY <1>3, CommitCursors, DrainsOldest
  <2> DEFINE E == NewestFirst(committed, commit_tail, commit_count, COMMIT_DEPTH)
             F == NewestFirst(committed', commit_tail', commit_count', COMMIT_DEPTH)
             x == WithValid(committed[commit_head], FALSE)
  <2>2. /\ committed' = [committed EXCEPT ![commit_head] = x]
        /\ commit_tail' = commit_tail /\ commit_count' = commit_count - 1
    BY <1>3, DrainsOldest
  <2>3. /\ E[commit_count - 1] = committed[commit_head]
        /\ \A k \in 0 .. (commit_count - 1) - 1 : F[k] = E[k]
    <3>2. /\ COMMIT_DEPTH \in Nat \ {0} /\ committed \in [0 .. COMMIT_DEPTH - 1 -> Entry]
          /\ commit_head \in 0 .. COMMIT_DEPTH - 1 /\ commit_tail \in 0 .. COMMIT_DEPTH - 1
      BY CommitCursors
    <3>3. Popped(COMMIT_DEPTH, commit_head, commit_tail, commit_count, committed, x,
                 committed', commit_count')
      BY <1>0, <2>1, <2>2, <3>2 DEF Popped
    <3>4. F = NewestFirst(committed', commit_tail, commit_count', COMMIT_DEPTH)
      BY <2>2
    <3> HIDE DEF x, F
    <3> QED
      BY <3>3, <3>4, NewestPop
  <2>4. committed[commit_head].valid
    <3>1. 0 \in 0 .. commit_count - 1 /\ (commit_head + 0) % COMMIT_DEPTH = commit_head
      BY <2>1, CommitCursors, ModInside
    <3>2. committed[(commit_head + 0) % COMMIT_DEPTH].valid
      BY <3>1, CommitCursors, WindowValid DEF RingCoherent
    <3> QED
      BY <3>1, <3>2
  <2>5. ArchMemory' = ArchMemory
    <3>1. commit_count' = commit_count - 1 /\ memory' = Apply(memory, committed[commit_head])
      BY <1>3, DrainsOldest
    <3>2. ArchMemory = Settled(E, commit_count, memory) /\ ArchMemory' = Settled(F, commit_count', memory')
      BY ArchForm
    <3> HIDE DEF E, F
    <3>3. Settled(F, commit_count - 1, Apply(memory, E[commit_count - 1]))
             = Settled(E, commit_count, memory)
      BY <2>1, <2>3, <2>4, SettledPop
    <3> QED
      BY <2>3, <3>1, <3>2, <3>3
  <2>6. PendingStores' = PendingStores
    BY <1>3, <1>b, DrainsOldest DEF specVars
  <2> QED
    BY <2>5, <2>6 DEF Queue!vars
<1>4. ASSUME NEW s \in Store, direct_write(s) PROVE Queue!Next
  <2>1. spec_count = 0 /\ commit_count = 0 /\ spec_count' = 0 /\ commit_count' = 0
    BY <1>4 DEF direct_write, is_empty
  <2>2. PendingStores = <<>> /\ PendingStores' = <<>>
    BY <2>1 DEF PendingStores
  <2>3. ArchMemory = memory /\ ArchMemory' = memory'
    <3>1. \A E, b : Hits(E, 0, b) = {}
      BY DEF Hits
    <3>2. \A E, m : m \in [Addr -> Byte] => Settled(E, 0, m) = m
      BY <3>1 DEF Settled
    <3>3. memory \in [Addr -> Byte] /\ memory' \in [Addr -> Byte]
      BY DEF TypeOK
    <3>4. /\ ArchMemory = Settled(NewestFirst(committed, commit_tail, 0, COMMIT_DEPTH), 0, memory)
          /\ ArchMemory' =
                Settled(NewestFirst(committed', commit_tail', 0, COMMIT_DEPTH), 0, memory')
      BY <2>1, ArchForm
    <3> QED
      BY <3>2, <3>3, <3>4, Zenon
  <2> QED
    BY <1>4, <2>2, <2>3, QueueOperators DEF direct_write, Queue!Next, Queue!Atomic
<1>5. ASSUME flush_speculative PROVE Queue!Next \/ UNCHANGED Queue!vars
  <2>1. ArchMemory' = ArchMemory
    BY <1>5, <1>c DEF flush_speculative
  <2>2. PendingStores' = <<>>
    BY <1>5 DEF flush_speculative, PendingStores
  <2>3. CASE spec_count = 0
    <3>1. PendingStores = <<>>
      BY <2>3 DEF PendingStores
    <3> QED
      BY <2>1, <2>2, <3>1 DEF Queue!vars
  <2>4. CASE spec_count # 0
    <3> DEFINE n == spec_count
    <3>1. /\ PendingStores \in [1 .. n -> Waiting] /\ n \in 0 .. n /\ n \in Nat \ {0}
          /\ PendingStores' \in [1 .. n - n -> Waiting]
          /\ \A k \in 1 .. n - n : PendingStores'[k] = PendingStores[k]
      <4>1. n \in 0 .. n /\ n \in Nat \ {0} /\ 1 .. n - n = {}
        BY <2>4, SpecCursors
      <4>2. PendingStores \in [1 .. n -> Waiting]
        BY SpecCursors, PendingForm, InOrderAt
      <4>3. PendingStores' \in [1 .. n - n -> Waiting]
        BY <2>2, <4>1
      <4> QED
        BY <4>1, <4>2, <4>3
    <3>2. PendingStores' = SubSeq(PendingStores, 1, Len(PendingStores) - n) /\ Len(PendingStores) = n
      <4> HIDE DEF n
      <4> QED
        BY <3>1, IsPrefix
    <3>3. n \in 1 .. Len(PendingStores)
      BY <3>1, <3>2
    <3> QED
      BY <2>1, <3>2, <3>3 DEF Queue!Next, Queue!Squash
  <2> QED
    BY <2>3, <2>4
<1>6. ASSUME NEW n \in 1 .. SPEC_DEPTH, flush_speculative_younger(n)
      PROVE  Queue!Next
  <2>1. n \in 0 .. spec_count /\ n \in 1 .. spec_count
    BY <1>6, SpecCursors DEF flush_speculative_younger
  <2>2. ArchMemory' = ArchMemory
    BY <1>6, <1>c DEF flush_speculative_younger
  <2>3. /\ spec' \in [0 .. SPEC_DEPTH - 1 -> Entry]
        /\ \A i \in 0 .. SPEC_DEPTH - 1 : StoreOf(spec'[i]) = StoreOf(spec[i])
    BY <1>6, SpecCursors, StoreOfEntry DEF flush_speculative_younger, TypeOK
  <2>4. /\ PendingStores' = SubSeq(PendingStores, 1, Len(PendingStores) - n)
        /\ Len(PendingStores) = spec_count
    <3>1. /\ SPEC_DEPTH \in Nat \ {0} /\ spec \in [0 .. SPEC_DEPTH - 1 -> Entry]
          /\ spec_head \in 0 .. SPEC_DEPTH - 1 /\ spec_count \in 0 .. SPEC_DEPTH
      BY SpecCursors
    <3>2. /\ PendingStores = InOrder(spec, spec_head, spec_count, SPEC_DEPTH)
          /\ PendingStores' = InOrder(spec', spec_head, spec_count - n, SPEC_DEPTH)
      BY <1>6, PendingForm DEF flush_speculative_younger
    <3>3. LET p == InOrder(spec, spec_head, spec_count, SPEC_DEPTH)
          IN  /\ InOrder(spec', spec_head, spec_count - n, SPEC_DEPTH) = SubSeq(p, 1, Len(p) - n)
              /\ Len(p) = spec_count
      BY <2>1, <2>3, <3>1, InOrderSquash
    <3> QED
      BY <3>2, <3>3
  <2> QED
    BY <2>1, <2>2, <2>4 DEF Queue!Next, Queue!Squash
<1>7. CASE UNCHANGED vars
  BY <1>7, <1>a DEF vars
<1> QED
  BY <1>1, <1>2, <1>3, <1>4, <1>5, <1>6, <1>7 DEF Next

\* The store buffer of any depth implements the program-order queue: memory as
\* the program sees it changes only when a store commits or an atomic writes,
\* in program order and once per store; draining, wrapping and squashing never
\* show (StoreBuffer.h, every member function).
THEOREM StoreBufferRefines == Spec => ImplementsStoreQueue
<1>1. Init => TypeOK /\ RingCoherent /\ Queue!Init
  BY TypeInit, RingInit, QueueInit
<1>2. TypeOK /\ RingCoherent /\ [Next]_vars
         => (TypeOK /\ RingCoherent)' /\ [Queue!Next]_(Queue!vars)
  BY TypeStep, RingStep, QueueStep
<1> QED
  BY <1>1, <1>2, PTL DEF Spec, ImplementsStoreQueue, Queue!Spec

-----------------------------------------------------------------------------
(* Forwarding. *)

\* Position k from the newest end of the speculative queue is place
\* spec_count - k in program order.
LEMMA PendingPlace ==
    ASSUME TypeOK, RingCoherent, NEW k \in 0 .. spec_count - 1
    PROVE  LET e == NewestFirst(spec, spec_tail, spec_count, SPEC_DEPTH)[k]
           IN  /\ e \in Entry /\ e.valid
               /\ e = SpecFromNewest(k)
               /\ spec_count - k \in DOMAIN PendingStores
               /\ PendingStores[spec_count - k] = StoreOf(e)
<1> DEFINE D == SPEC_DEPTH
           h == spec_head
           c == spec_count
           j == c - 1 - k
           e == NewestFirst(spec, spec_tail, c, D)[k]
<1>1. /\ D \in Nat \ {0} /\ spec \in [0 .. D - 1 -> Entry]
      /\ h \in 0 .. D - 1 /\ spec_tail \in 0 .. D - 1 /\ c \in 0 .. D
      /\ spec_tail = (h + c) % D
  BY SpecCursors DEF RingCoherent, Coherent
<1>2. j \in 0 .. c - 1 /\ j \in 0 .. D /\ j + 1 = c - k /\ c - k \in 1 .. c
  BY <1>1
<1>3. e = spec[(spec_tail + D - 1 - k) % D]
  BY DEF NewestFirst
<1>4. (spec_tail + D - 1 - k) % D = (h + j) % D
  <2>1. Cursors(h, spec_tail, c, D)
    BY <1>1 DEF Cursors
  <2> QED
    BY <2>1, NewestSlot
<1> HIDE DEF j
<1>5. (h + j) % D \in 0 .. D - 1 /\ spec[(h + j) % D].valid
  BY <1>1, <1>2, WindowValid DEF RingCoherent
<1>6. e = spec[(h + j) % D] /\ e \in Entry /\ e.valid
  BY <1>1, <1>3, <1>4, <1>5
<1>7. e = SpecFromNewest(k)
  BY <1>3 DEF SpecFromNewest, FromNewest
<1>8. PendingStores \in [1 .. c -> Waiting] /\ PendingStores[j + 1] = StoreOf(spec[(h + j) % D])
  <2>1. /\ PendingStores \in [1 .. c -> Waiting]
        /\ \A i \in 0 .. c - 1 : PendingStores[i + 1] = StoreOf(spec[(h + i) % D])
    <3>1. PendingStores = InOrder(spec, h, c, D)
      BY PendingForm
    <3>2. /\ InOrder(spec, h, c, D) \in [1 .. c -> Waiting]
          /\ \A i \in 0 .. c - 1 : InOrder(spec, h, c, D)[i + 1] = StoreOf(spec[(h + i) % D])
      BY <1>1, InOrderAt, Zenon
    <3> QED
      BY <3>1, <3>2, Zenon
  <2> QED
    BY <1>2, <2>1, Zenon
<1> QED
  BY <1>2, <1>6, <1>7, <1>8

LEMMA CommitPlace ==
    ASSUME TypeOK, RingCoherent, NEW k \in 0 .. commit_count - 1
    PROVE  LET e == NewestFirst(committed, commit_tail, commit_count, COMMIT_DEPTH)[k]
           IN  e \in Entry /\ e = CommitFromNewest(k)
<1> DEFINE D == COMMIT_DEPTH
           i == (commit_tail + D - 1 - k) % D
<1>1. /\ D \in Nat \ {0} /\ committed \in [0 .. D - 1 -> Entry]
      /\ commit_tail \in 0 .. D - 1 /\ commit_count \in 0 .. D
  BY CommitCursors
<1>2. commit_tail + D - 1 - k \in Nat
  BY <1>1
<1>3. i \in 0 .. D - 1
  BY <1>1, <1>2, ModRange
<1>4. NewestFirst(committed, commit_tail, commit_count, COMMIT_DEPTH)[k] = committed[i]
  BY DEF NewestFirst
<1> QED
  BY <1>1, <1>3, <1>4 DEF CommitFromNewest, FromNewest

\* The byte a load must see is the newest speculative one over ArchMemory.
LEMMA ProgramByteForm ==
    ASSUME TypeOK, RingCoherent, NEW b \in Addr
    PROVE  Queue!ProgramByte(b) =
              Settled(NewestFirst(spec, spec_tail, spec_count, SPEC_DEPTH),
                      spec_count, ArchMemory)[b]
<1> DEFINE c == spec_count
           E == NewestFirst(spec, spec_tail, spec_count, SPEC_DEPTH)
           C == {i \in DOMAIN PendingStores : Covers(PendingStores[i], b)}
           y == CHOOSE i \in C : \A j \in C : j <= i
<1>0. c \in Nat /\ DOMAIN PendingStores = 1 .. c
  BY SpecCursors DEF PendingStores
<1>1. Queue!ProgramByte(b) = IF C = {} THEN ArchMemory[b] ELSE ByteOf(PendingStores[y], b)
  BY DEF Queue!ProgramByte, Queue!Covers, Covers, Queue!ByteOf, ByteOf
<1>2. \A k \in 0 .. c - 1 : /\ E[k].valid /\ c - k \in 1 .. c
                            /\ PendingStores[c - k] = StoreOf(E[k])
  BY <1>0, PendingPlace
<1> HIDE DEF E, c
<1>3. \A e, x : Covers(StoreOf(e), x) = Covers(e, x) /\ ByteOf(StoreOf(e), x) = ByteOf(e, x)
  BY DEF Covers, ByteOf, StoreOf
<1>4. ASSUME NEW i \in C PROVE c - i \in 0 .. c - 1 /\ Covers(E[c - i], b)
  <2> DEFINE k == c - i
  <2>1. i \in 1 .. c /\ Covers(PendingStores[i], b)
    BY <1>0
  <2>2. k \in 0 .. c - 1 /\ c - k = i
    BY <1>0, <2>1
  <2> HIDE DEF k
  <2>3. PendingStores[i] = StoreOf(E[k])
    BY <1>2, <2>2
  <2>4. Covers(E[k], b)
    BY <1>3, <2>1, <2>3
  <2> QED
    BY <2>2, <2>4 DEF k
<1>5. ASSUME \A k \in 0 .. c - 1 : ~ (E[k].valid /\ Covers(E[k], b))
      PROVE  Queue!ProgramByte(b) = Settled(E, c, ArchMemory)[b]
  <2>1. C = {}
    BY <1>2, <1>4, <1>5
  <2>2. Settled(E, c, ArchMemory)[b] = ArchMemory[b]
    BY <1>0, <1>5, SettledNone
  <2> QED
    BY <1>1, <2>1, <2>2
<1>6. ASSUME NEW k \in 0 .. c - 1, E[k].valid, Covers(E[k], b),
             \A j \in 0 .. k - 1 : ~ (E[j].valid /\ Covers(E[j], b))
      PROVE  Queue!ProgramByte(b) = Settled(E, c, ArchMemory)[b]
  <2> DEFINE i == c - k
  <2>1. i \in 1 .. c /\ PendingStores[i] = StoreOf(E[k])
    BY <1>2
  <2>2. i \in C
    BY <1>0, <1>3, <1>6, <2>1
  <2>3. ASSUME NEW j \in C PROVE j <= i
    <3> DEFINE l == c - j
    <3>1. l \in 0 .. c - 1 /\ Covers(E[l], b) /\ E[l].valid
      BY <1>2, <1>4
    <3>2. ~ (l \in 0 .. k - 1)
      <4> HIDE DEF l
      <4> QED
        BY <1>6, <3>1
    <3> QED
      BY <1>0, <3>1, <3>2
  <2> HIDE DEF i, C
  <2>4. y \in C /\ \A j \in C : j <= y
    BY <2>2, <2>3
  <2>5. y = i
    <3>1. y <= i /\ i <= y
      BY <2>2, <2>3, <2>4
    <3>2. C \subseteq Int
      BY <1>0 DEF C
    <3> HIDE DEF y
    <3> QED
      BY <2>2, <2>4, <3>1, <3>2
  <2>6. Queue!ProgramByte(b) = ByteOf(E[k], b)
    BY <1>1, <1>3, <2>1, <2>2, <2>5
  <2>7. Settled(E, c, ArchMemory)[b] = ByteOf(E[k], b)
    BY <1>0, <1>6, SettledAt
  <2> QED
    BY <2>6, <2>7
<1>7. Queue!ProgramByte(b) = Settled(E, c, ArchMemory)[b]
  BY <1>0, <1>5, <1>6, SettledCases
<1> QED
  BY <1>7 DEF E, c

LEMMA EntryNumbers ==
    ASSUME NEW e \in Entry
    PROVE  e.address \in Int /\ e.size \in Int
<1>1. e.address \in Addr /\ e.size \in Sizes \cup {0}
  BY DEF Entry
<1>2. Addr \subseteq Int /\ Sizes \cup {0} \subseteq Int
  BY MemAccessAssumption DEF Addr
<1> QED
  BY <1>1, <1>2

Overlapping(E, c, a, n) == {k \in 0 .. c - 1 : Matches(E[k], a, n)}

\* A scan of the c entries E, newest first, for the load [a, a+n), seen at byte b.
Scan(E, c, a, n, b) ==
    /\ c \in Nat /\ \A k \in 0 .. c - 1 : E[k] \in Entry
    /\ a \in Nat /\ n \in Nat /\ b \in Addr /\ a <= b /\ b < a + n

\* Its answer over the memory m: with no overlapping entry the byte shows
\* through; a HIT returns the byte of the newest covering entry.
ScanRight(E, c, a, n, b, m) ==
    LET H == Overlapping(E, c, a, n)
        f == ForwardFrom(E[First(H)], a, n)
    IN  /\ H = {} => Settled(E, c, m)[b] = m[b]
        /\ H # {} => /\ First(H) \in 0 .. c - 1
                     /\ f.result # "MISS"
                     /\ f.result = "HIT" => f.bytes[b] = Settled(E, c, m)[b]

LEMMA ScanFinds ==
    ASSUME NEW E, NEW c, NEW a, NEW n, NEW b, NEW m, Scan(E, c, a, n, b)
    PROVE  ScanRight(E, c, a, n, b, m)
<1> USE DEF Scan
<1> DEFINE H == Overlapping(E, c, a, n)
<1> USE DEF Overlapping
<1>0. b \in Int
  BY MemAccessAssumption DEF Addr
<1>1. ASSUME NEW k \in 0 .. c - 1, E[k].valid, Covers(E[k], b) PROVE k \in H
  <2>1. E[k].address \in Int /\ E[k].size \in Int
    BY EntryNumbers
  <2> QED
    BY <1>0, <1>1, <2>1 DEF Matches, Covers, Overlap
<1>2. ASSUME H = {} PROVE Settled(E, c, m)[b] = m[b]
  BY <1>1, <1>2, SettledNone
<1>3. ASSUME H # {} PROVE /\ First(H) \in 0 .. c - 1
                          /\ ForwardFrom(E[First(H)], a, n).result # "MISS"
                          /\ ForwardFrom(E[First(H)], a, n).result = "HIT"
                               => ForwardFrom(E[First(H)], a, n).bytes[b] = Settled(E, c, m)[b]
  <2> DEFINE k == First(H)
             e == E[k]
  <2>1. H \in SUBSET Nat
    OBVIOUS
  <2>2. k \in H /\ \A j \in H : k <= j
    BY <1>3, <2>1, FirstIsLeast
  <2> HIDE DEF k
  <2>3. k \in 0 .. c - 1 /\ e.valid /\ e \in Entry
    BY <2>2 DEF Matches
  <2>4. \A j \in 0 .. k - 1 : ~ (E[j].valid /\ Covers(E[j], b))
    <3> SUFFICES ASSUME NEW j \in 0 .. k - 1, E[j].valid, Covers(E[j], b) PROVE FALSE
      OBVIOUS
    <3>1. j \in 0 .. c - 1 /\ ~ (k <= j)
      BY <2>3
    <3> QED
      BY <1>1, <2>2, <3>1
  <2>5. ForwardFrom(e, a, n).result # "MISS"
    BY DEF ForwardFrom
  <2>6. ASSUME ForwardFrom(e, a, n).result = "HIT"
        PROVE  ForwardFrom(e, a, n).bytes[b] = Settled(E, c, m)[b]
    <3>1. Within(a, n, e.address, e.size)
      BY <2>6 DEF ForwardFrom
    <3>2. ForwardFrom(e, a, n).bytes[b] = <<e.data, b - e.address>>
      BY <1>0, <3>1 DEF ForwardFrom
    <3>3. Covers(e, b)
      <4>1. e.address \in Int /\ e.size \in Int
        BY <2>3, EntryNumbers
      <4> QED
        BY <1>0, <3>1, <4>1 DEF Within, Covers
    <3>4. Settled(E, c, m)[b] = ByteOf(e, b)
      <4>1. \A i \in 0 .. c - 1 :
               /\ E[i].valid /\ Covers(E[i], b)
               /\ \A j \in 0 .. i - 1 : ~ (E[j].valid /\ Covers(E[j], b))
               => Settled(E, c, m)[b] = ByteOf(E[i], b)
        BY SettledAt
      <4> QED
        BY <2>3, <2>4, <3>3, <4>1, Zenon
    <3> QED
      BY <3>2, <3>4 DEF ByteOf
  <2> QED
    BY <2>3, <2>5, <2>6 DEF k
<1> QED
  BY <1>2, <1>3 DEF ScanRight

LEMMA Forwarding == TypeOK /\ RingCoherent => ForwardingSeesProgramOrder
<1> SUFFICES ASSUME TypeOK, RingCoherent, NEW r \in Access,
                    NEW b \in r.address .. r.address + r.size - 1
             PROVE  LET f == forward_load(r.address, r.size)
                    IN  /\ f.result = "HIT" => f.bytes[b] = Queue!ProgramByte(b)
                        /\ f.result = "MISS" => memory[b] = Queue!ProgramByte(b)
  BY DEF ForwardingSeesProgramOrder
<1> DEFINE a == r.address
           n == r.size
           f == forward_load(a, n)
           S == NewestFirst(spec, spec_tail, spec_count, SPEC_DEPTH)
           T == NewestFirst(committed, commit_tail, commit_count, COMMIT_DEPTH)
           inSpec == Overlapping(S, spec_count, a, n)
           inCommitted == Overlapping(T, commit_count, a, n)
<1>1. a \in Nat /\ n \in Nat /\ b \in Addr /\ a <= b /\ b < a + n
  <2>1. r.address \in Addr /\ r.size \in Sizes /\ r.address + r.size - 1 \in Addr
    BY DEF Access
  <2>2. Sizes \subseteq Nat /\ MaxAddr \in Nat
    BY MemAccessAssumption
  <2>3. a \in 0 .. MaxAddr /\ n \in Nat /\ a + n - 1 \in 0 .. MaxAddr /\ MaxAddr \in Nat
    BY <2>1, <2>2 DEF Addr
  <2>4. b \in a .. a + n - 1
    OBVIOUS
  <2> HIDE DEF a, n
  <2> QED
    BY <2>3, <2>4 DEF Addr
<1>2. spec_count \in Nat /\ commit_count \in Nat
  BY SpecCursors, CommitCursors
<1>3. \A k \in 0 .. spec_count - 1 : S[k] \in Entry /\ S[k] = SpecFromNewest(k)
  BY PendingPlace
<1>4. \A k \in 0 .. commit_count - 1 : T[k] \in Entry /\ T[k] = CommitFromNewest(k)
  BY CommitPlace
<1>5. /\ ArchMemory = Settled(T, commit_count, memory)
      /\ Queue!ProgramByte(b) = Settled(S, spec_count, ArchMemory)[b]
  <2>1. ArchMemory = Settled(T, commit_count, memory)
    BY <1>2, SettledForm DEF ArchMemory, CommitFromNewest, SettledRing
  <2> QED
    BY <1>1, <2>1, ProgramByteForm
<1>6. f = CASE inSpec # {} -> ForwardFrom(SpecFromNewest(First(inSpec)), a, n)
            [] inSpec = {} /\ inCommitted # {} ->
                   ForwardFrom(CommitFromNewest(First(inCommitted)), a, n)
            [] OTHER -> [result |-> "MISS", bytes |-> <<>>]
  <2>1. inSpec = {k \in 0 .. spec_count - 1 : Matches(SpecFromNewest(k), a, n)}
    BY <1>3 DEF Overlapping
  <2>2. inCommitted = {k \in 0 .. commit_count - 1 : Matches(CommitFromNewest(k), a, n)}
    BY <1>4 DEF Overlapping
  <2> HIDE DEF inSpec, inCommitted, a, n
  <2> QED
    BY <2>1, <2>2 DEF forward_load
<1> HIDE DEF a, n, f, S, T
<1>7. /\ inSpec = {} => Settled(S, spec_count, ArchMemory)[b] = ArchMemory[b]
      /\ inSpec # {} =>
            /\ First(inSpec) \in 0 .. spec_count - 1
            /\ ForwardFrom(S[First(inSpec)], a, n).result # "MISS"
            /\ ForwardFrom(S[First(inSpec)], a, n).result = "HIT"
                 => ForwardFrom(S[First(inSpec)], a, n).bytes[b]
                       = Settled(S, spec_count, ArchMemory)[b]
  <2>1. Scan(S, spec_count, a, n, b)
    BY <1>1, <1>2, <1>3 DEF Scan
  <2>2. ScanRight(S, spec_count, a, n, b, ArchMemory)
    BY <2>1, ScanFinds
  <2> QED
    BY <2>2 DEF ScanRight
<1>8. /\ inCommitted = {} => Settled(T, commit_count, memory)[b] = memory[b]
      /\ inCommitted # {} =>
            /\ First(inCommitted) \in 0 .. commit_count - 1
            /\ ForwardFrom(T[First(inCommitted)], a, n).result # "MISS"
            /\ ForwardFrom(T[First(inCommitted)], a, n).result = "HIT"
                 => ForwardFrom(T[First(inCommitted)], a, n).bytes[b]
                       = Settled(T, commit_count, memory)[b]
  <2>1. Scan(T, commit_count, a, n, b)
    BY <1>1, <1>2, <1>4 DEF Scan
  <2>2. ScanRight(T, commit_count, a, n, b, memory)
    BY <2>1, ScanFinds
  <2> QED
    BY <2>2 DEF ScanRight
<1> HIDE DEF inSpec, inCommitted
<1>9. CASE inSpec # {}
  <2>1. f = ForwardFrom(S[First(inSpec)], a, n)
    BY <1>3, <1>6, <1>7, <1>9
  <2> QED
    BY <1>5, <1>7, <1>9, <2>1 DEF f, a, n
<1>10. CASE inSpec = {} /\ inCommitted # {}
  <2>1. f = ForwardFrom(T[First(inCommitted)], a, n)
    BY <1>4, <1>6, <1>8, <1>10
  <2> QED
    BY <1>5, <1>7, <1>8, <1>10, <2>1 DEF f, a, n
<1>11. CASE inSpec = {} /\ inCommitted = {}
  <2>1. f.result = "MISS"
    BY <1>6, <1>11
  <2> QED
    BY <1>5, <1>7, <1>8, <1>11, <2>1 DEF f, a, n
<1> QED
  BY <1>9, <1>10, <1>11

\* Whatever the two queues hold and however they wrap, a load that is answered
\* from the buffer gets the youngest older store byte by byte, and one that goes
\* to memory finds there what program order says (StoreBuffer.h, forward_load).
THEOREM StoreBufferForwards == Spec => []ForwardingSeesProgramOrder
<1>1. Init => TypeOK /\ RingCoherent
  BY TypeInit, RingInit
<1>2. TypeOK /\ RingCoherent /\ [Next]_vars => (TypeOK /\ RingCoherent)'
  BY TypeStep, RingStep
<1>3. TypeOK /\ RingCoherent => ForwardingSeesProgramOrder
  BY Forwarding
<1> QED
  BY <1>1, <1>2, <1>3, PTL DEF Spec
=============================================================================
