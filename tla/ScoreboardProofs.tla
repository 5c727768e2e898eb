-------------------------- MODULE ScoreboardProofs --------------------------
(***************************************************************************)
(* What each member function of the scoreboard does to each member, and    *)
(* that the cursors and valid bits agree afterwards, for every SIZE and    *)
(* every set of registers, results V and addresses P.                      *)
(***************************************************************************)
EXTENDS Scoreboard, FiniteSetsExt, FiniteSetTheorems, RingProofs

\* The greatest element of a bounded set.
LEMMA MaxIsGreatest ==
    ASSUME NEW n \in Nat, NEW S \in SUBSET (0 .. n), S # {}
    PROVE  Max(S) \in S /\ \A j \in S : j <= Max(S)
<1> DEFINE T == {n - j : j \in S}
<1>1. T \in SUBSET Nat /\ T # {}
  <2>1. \A j \in S : j \in 0 .. n
    OBVIOUS
  <2>2. \A j \in S : n - j \in Nat
    BY <2>1
  <2> QED
    BY <2>2
<1> HIDE DEF T
<1>2. First(T) \in T /\ \A j \in T : First(T) <= j
  BY <1>1, FirstIsLeast
<1>3. PICK m \in S : First(T) = n - m
  BY <1>2 DEF T
<1>4. \A j \in S : n - j \in T
  BY DEF T
<1>5. \A j \in S : n - m <= n - j
  BY <1>2, <1>3, <1>4
<1>6. \A j \in S : m >= j
  BY <1>5
<1>7. Max(S) \in S /\ \A j \in S : Max(S) >= j
  BY <1>6, Zenon DEF Max
<1> QED
  BY <1>7

LEMMA MaxUnique ==
    ASSUME NEW S \in SUBSET Nat, NEW k \in S, \A j \in S : j <= k
    PROVE  Max(S) = k
<1>1. \A j \in S : k >= j
  OBVIOUS
<1>2. Max(S) \in S /\ \A j \in S : Max(S) >= j
  BY <1>1, Zenon DEF Max
<1> DEFINE m == Max(S)
<1>3. m \in Nat /\ k \in Nat /\ m >= k /\ m <= k
  BY <1>2
<1> HIDE DEF m
<1>4. m = k
  BY <1>3
<1> QED
  BY <1>4 DEF m

-----------------------------------------------------------------------------
(* The member functions. *)

Clobber == [busy : BOOLEAN, trans_id : -1 .. SIZE - 1]

BoardEntry(V, P) ==
    [valid : BOOLEAN, ready : BOOLEAN, rd : Regs, result : V, pc : P,
     is_store : BOOLEAN, fp : BOOLEAN, next : P]

Board(V, P) ==
    [entries : [0 .. SIZE - 1 -> BoardEntry(V, P)],
     head : 0 .. SIZE - 1, tail : 0 .. SIZE - 1, count : 0 .. SIZE,
     rd_clobber : [Regs -> Clobber], fp_clobber : [Regs -> Clobber]]

\* Typed, with cursors and valid bits that agree.
GoodBoard(s, V, P) ==
    s \in Board(V, P) /\ Zero \in V /\ 0 \in P /\ ScoreboardCoherent(s)

LEMMA BoardMembers ==
    ASSUME NEW V, NEW P, NEW s \in Board(V, P)
    PROVE  /\ SIZE \in Nat \ {0}
           /\ s.entries \in [0 .. SIZE - 1 -> BoardEntry(V, P)]
           /\ s.head \in 0 .. SIZE - 1 /\ s.tail \in 0 .. SIZE - 1 /\ s.count \in 0 .. SIZE
           /\ s.rd_clobber \in [Regs -> Clobber] /\ s.fp_clobber \in [Regs -> Clobber]
  BY ScoreboardAssumption DEF Board

\* A record with members of the right types is a board.
LEMMA IsBoard ==
    ASSUME NEW V, NEW P,
           NEW e \in [0 .. SIZE - 1 -> BoardEntry(V, P)],
           NEW h \in 0 .. SIZE - 1, NEW t \in 0 .. SIZE - 1, NEW c \in 0 .. SIZE,
           NEW rc \in [Regs -> Clobber], NEW fc \in [Regs -> Clobber]
    PROVE  [entries |-> e, head |-> h, tail |-> t, count |-> c,
            rd_clobber |-> rc, fp_clobber |-> fc] \in Board(V, P)
  BY DEF Board

LEMMA FreshTypes ==
    ASSUME NEW V, NEW P, Zero \in V, 0 \in P
    PROVE  /\ FreshEntry \in BoardEntry(V, P) /\ ~ FreshEntry.valid
           /\ NoClobber \in Clobber /\ ~ NoClobber.busy /\ NoClobber.trans_id = -1
<1>1. -1 \in -1 .. SIZE - 1
  BY ScoreboardAssumption
<1>2. NoClobber \in Clobber /\ ~ NoClobber.busy /\ NoClobber.trans_id = -1
  BY <1>1 DEF NoClobber, Clobber
<1> QED
  BY <1>2, ScoreboardAssumption DEF FreshEntry, BoardEntry

LEMMA NewScoreboardGood ==
    ASSUME NEW V, NEW P, Zero \in V, 0 \in P
    PROVE  GoodBoard(NewScoreboard, V, P) /\ NewScoreboard.count = 0
<1> DEFINE e == [i \in 0 .. SIZE - 1 |-> FreshEntry]
           n == [r \in Regs |-> NoClobber]
<1>1. SIZE \in Nat \ {0} /\ 0 \in 0 .. SIZE - 1 /\ 0 \in 0 .. SIZE
  BY ScoreboardAssumption
<1>2. e \in [0 .. SIZE - 1 -> BoardEntry(V, P)] /\ n \in [Regs -> Clobber]
  BY FreshTypes
<1>3. NewScoreboard \in Board(V, P)
  BY <1>1, <1>2, IsBoard DEF NewScoreboard
<1>4. /\ NewScoreboard.entries = e /\ NewScoreboard.head = 0
      /\ NewScoreboard.tail = 0 /\ NewScoreboard.count = 0
  BY DEF NewScoreboard
<1>5. \A i \in 0 .. SIZE - 1 : e[i].valid = FALSE
  BY DEF FreshEntry
<1> HIDE DEF e
<1>6. Coherent(e, 0, 0, 0, SIZE)
  BY <1>1, <1>5, RingEmpty
<1> QED
  BY <1>3, <1>4, <1>6 DEF GoodBoard, ScoreboardCoherent

\* What Issue knows of the instruction it allocates an entry for.
Metadata(P) == [pc : P, is_store : BOOLEAN, fp : BOOLEAN]

\* The entry that allocate leaves at the tail.
AllocatedEntry(m) ==
    [FreshEntry EXCEPT !.valid = TRUE, !.pc = m.pc, !.is_store = m.is_store, !.fp = m.fp]

LEMMA AllocatedType ==
    ASSUME NEW V, NEW P, Zero \in V, 0 \in P,
           NEW m \in Metadata(P)
    PROVE  /\ AllocatedEntry(m) \in BoardEntry(V, P)
           /\ AllocatedEntry(m).valid /\ ~ AllocatedEntry(m).ready
           /\ AllocatedEntry(m).fp = m.fp /\ AllocatedEntry(m).is_store = m.is_store
           /\ AllocatedEntry(m).pc = m.pc
  BY ScoreboardAssumption DEF Metadata, AllocatedEntry, FreshEntry, BoardEntry

LEMMA AllocateGood ==
    ASSUME NEW V, NEW P, NEW s, GoodBoard(s, V, P), ~ is_full(s),
           NEW m \in Metadata(P)
    PROVE  /\ GoodBoard(allocate(s, m), V, P)
           /\ s.count \in 0 .. SIZE - 1
           /\ allocate(s, m).entries = [s.entries EXCEPT ![s.tail] = AllocatedEntry(m)]
           /\ allocate(s, m).head = s.head
           /\ allocate(s, m).tail = (s.tail + 1) % SIZE
           /\ allocate(s, m).count = s.count + 1
           /\ allocate(s, m).rd_clobber = s.rd_clobber
           /\ allocate(s, m).fp_clobber = s.fp_clobber
<1> DEFINE a == allocate(s, m)
           n == AllocatedEntry(m)
           e == [s.entries EXCEPT ![s.tail] = n]
           t == (s.tail + 1) % SIZE
           k == s.count + 1
<1>0. s \in Board(V, P) /\ Zero \in V /\ 0 \in P
  BY DEF GoodBoard
<1>1. /\ SIZE \in Nat \ {0} /\ s.count \in 0 .. SIZE - 1
      /\ s.head \in 0 .. SIZE - 1 /\ s.tail \in 0 .. SIZE - 1
      /\ s.entries \in [0 .. SIZE - 1 -> BoardEntry(V, P)]
      /\ s.rd_clobber \in [Regs -> Clobber] /\ s.fp_clobber \in [Regs -> Clobber]
  BY <1>0, BoardMembers DEF is_full
<1>2. a = [entries |-> e, head |-> s.head, tail |-> t, count |-> k,
           rd_clobber |-> s.rd_clobber, fp_clobber |-> s.fp_clobber]
  <2>1. a = [s EXCEPT !.entries = [s.entries EXCEPT ![s.tail] = n], !.tail = t, !.count = k]
    <3>1. n = [FreshEntry EXCEPT !.valid = TRUE, !.pc = m.pc, !.is_store = m.is_store,
                                 !.fp = m.fp]
      BY DEF AllocatedEntry
    <3> HIDE DEF n, t, k
    <3>2. a = [s EXCEPT !.entries[s.tail] = n, !.tail = t, !.count = k]
      BY <3>1 DEF allocate, t, k
    <3> QED
      BY <1>0, <3>2 DEF Board
  <2> HIDE DEF a, e, t, k
  <2> QED
    BY <1>0, <2>1 DEF Board, e
<1>3. t \in 0 .. SIZE - 1 /\ k \in 0 .. SIZE
  <2>1. 1 \in 0 .. SIZE
    BY <1>1
  <2>2. t \in 0 .. SIZE - 1
    BY <1>1, <2>1, Up
  <2>3. k \in 0 .. SIZE
    BY <1>1
  <2> QED
    BY <2>2, <2>3
<1>4. AllocatedEntry(m) \in BoardEntry(V, P) /\ AllocatedEntry(m).valid
  BY <1>0, AllocatedType
<1>5. e \in [0 .. SIZE - 1 -> BoardEntry(V, P)]
  BY <1>1, <1>4
<1>6. \A i \in 0 .. SIZE - 1 : e[i].valid <=> i = s.tail \/ s.entries[i].valid
  BY <1>1, <1>4
<1>7. Coherent(s.entries, s.head, s.tail, s.count, SIZE)
  BY DEF GoodBoard, ScoreboardCoherent
<1> HIDE DEF e
<1>8. Coherent(e, s.head, (s.tail + 1) % SIZE, s.count + 1, SIZE)
  BY <1>1, <1>6, <1>7, RingPush
<1>9. a \in Board(V, P)
  <2> HIDE DEF a, t, k
  <2> QED
    BY <1>1, <1>2, <1>3, <1>5, IsBoard
<1>10. /\ a.entries = e /\ a.head = s.head /\ a.tail = (s.tail + 1) % SIZE
       /\ a.count = s.count + 1
       /\ a.rd_clobber = s.rd_clobber /\ a.fp_clobber = s.fp_clobber
  BY <1>2
<1> HIDE DEF a
<1>11. GoodBoard(a, V, P)
  BY <1>0, <1>8, <1>9, <1>10 DEF GoodBoard, ScoreboardCoherent
<1> QED
  BY <1>1, <1>10, <1>11 DEF a, e

\* clobber touches one table only.
LEMMA AllocateCursors ==
    ASSUME NEW V, NEW P, NEW s, GoodBoard(s, V, P), NEW m
    PROVE  /\ allocate(s, m).tail = (s.tail + 1) % SIZE
           /\ allocate(s, m).count = s.count + 1
<1> DEFINE t == (s.tail + 1) % SIZE
           k == s.count + 1
           n == [FreshEntry EXCEPT !.valid = TRUE, !.pc = m.pc, !.is_store = m.is_store,
                                   !.fp = m.fp]
<1>1. s \in Board(V, P)
  BY DEF GoodBoard
<1>2. allocate(s, m).tail = t /\ allocate(s, m).count = k
  <2> HIDE DEF n, t, k
  <2>1. allocate(s, m) = [s EXCEPT !.entries[s.tail] = n, !.tail = t, !.count = k]
    BY DEF allocate, t, k, n
  <2> QED
    BY <1>1, <2>1 DEF Board
<1> QED
  BY <1>2

LEMMA ClobberGood ==
    ASSUME NEW V, NEW P, NEW s, GoodBoard(s, V, P), NEW i \in 0 .. SIZE - 1,
           NEW rd \in Regs, NEW fp \in BOOLEAN
    PROVE  LET n == [busy |-> TRUE, trans_id |-> i]
               c == clobber(s, i, rd, fp)
           IN  /\ GoodBoard(c, V, P)
               /\ c.entries = s.entries /\ c.head = s.head
               /\ c.tail = s.tail /\ c.count = s.count
               /\ c.fp_clobber = IF fp THEN [s.fp_clobber EXCEPT ![rd] = n] ELSE s.fp_clobber
               /\ c.rd_clobber = IF ~ fp /\ rd # 0 THEN [s.rd_clobber EXCEPT ![rd] = n]
                                                   ELSE s.rd_clobber
<1> DEFINE n == [busy |-> TRUE, trans_id |-> i]
           c == clobber(s, i, rd, fp)
<1>0. s \in Board(V, P) /\ Zero \in V /\ 0 \in P /\ ScoreboardCoherent(s)
  BY DEF GoodBoard
<1>1. n \in Clobber
  <2>1. i \in -1 .. SIZE - 1
    OBVIOUS
  <2> QED
    BY <2>1 DEF Clobber
<1> HIDE DEF n
<1>2. /\ c \in Board(V, P)
      /\ c.entries = s.entries /\ c.head = s.head /\ c.tail = s.tail /\ c.count = s.count
      /\ c.fp_clobber = IF fp THEN [s.fp_clobber EXCEPT ![rd] = n] ELSE s.fp_clobber
      /\ c.rd_clobber = IF ~ fp /\ rd # 0 THEN [s.rd_clobber EXCEPT ![rd] = n]
                                          ELSE s.rd_clobber
  <2>1. CASE fp
    <3> DEFINE T == [s.fp_clobber EXCEPT ![rd] = n]
    <3>1. c = [s EXCEPT !.fp_clobber = T]
      BY <2>1 DEF clobber, n
    <3>2. T \in [Regs -> Clobber]
      BY <1>0, <1>1 DEF Board
    <3> HIDE DEF T, c
    <3>3. /\ c \in Board(V, P) /\ c.fp_clobber = T
          /\ c.entries = s.entries /\ c.head = s.head /\ c.tail = s.tail /\ c.count = s.count
          /\ c.rd_clobber = s.rd_clobber
      BY <1>0, <3>1, <3>2 DEF Board
    <3> QED
      BY <2>1, <3>3 DEF T
  <2>2. CASE ~ fp /\ rd # 0
    <3> DEFINE T == [s.rd_clobber EXCEPT ![rd] = n]
    <3>1. c = [s EXCEPT !.rd_clobber = T]
      BY <2>2 DEF clobber, n
    <3>2. T \in [Regs -> Clobber]
      BY <1>0, <1>1 DEF Board
    <3> HIDE DEF T, c
    <3>3. /\ c \in Board(V, P) /\ c.rd_clobber = T
          /\ c.entries = s.entries /\ c.head = s.head /\ c.tail = s.tail /\ c.count = s.count
          /\ c.fp_clobber = s.fp_clobber
      BY <1>0, <3>1, <3>2 DEF Board
    <3> QED
      BY <2>2, <3>3 DEF T
  <2>3. CASE ~ fp /\ rd = 0
    BY <1>0, <2>3 DEF clobber
  <2> QED
    BY <2>1, <2>2, <2>3
<1> HIDE DEF c
<1>3. GoodBoard(c, V, P)
  BY <1>0, <1>2 DEF GoodBoard, ScoreboardCoherent
<1> QED
  BY <1>2, <1>3 DEF c, n

CompletedEntry(e, result, rd) == [e EXCEPT !.ready = TRUE, !.result = result, !.rd = rd]

LEMMA CompleteGood ==
    ASSUME NEW V, NEW P, NEW s, GoodBoard(s, V, P), NEW i \in 0 .. SIZE - 1,
           NEW result \in V, NEW rd \in Regs
    PROVE  LET c == complete(s, i, result, rd)
           IN  /\ GoodBoard(c, V, P)
               /\ c.entries = [s.entries EXCEPT ![i] =
                                   CompletedEntry(s.entries[i], result, rd)]
               /\ c.head = s.head /\ c.tail = s.tail /\ c.count = s.count
               /\ c.rd_clobber = s.rd_clobber /\ c.fp_clobber = s.fp_clobber
<1> DEFINE c == complete(s, i, result, rd)
           n == [s.entries[i] EXCEPT !.ready = TRUE, !.result = result, !.rd = rd]
           e == [s.entries EXCEPT ![i] = n]
<1>0. s \in Board(V, P) /\ Zero \in V /\ 0 \in P /\ ScoreboardCoherent(s)
  BY DEF GoodBoard
<1>1. s.entries \in [0 .. SIZE - 1 -> BoardEntry(V, P)] /\ s.entries[i] \in BoardEntry(V, P)
  BY <1>0, BoardMembers
<1>2. n \in BoardEntry(V, P) /\ n.valid = s.entries[i].valid
  BY <1>1 DEF BoardEntry
<1>3. c = [s EXCEPT !.entries = e]
  BY <1>0, <1>1 DEF complete, Board, BoardEntry
<1> HIDE DEF n
<1>4. e \in [0 .. SIZE - 1 -> BoardEntry(V, P)]
      /\ \A j \in 0 .. SIZE - 1 : e[j].valid = s.entries[j].valid
  BY <1>1, <1>2
<1> HIDE DEF e
<1>5. /\ c \in Board(V, P) /\ c.entries = e
      /\ c.head = s.head /\ c.tail = s.tail /\ c.count = s.count
      /\ c.rd_clobber = s.rd_clobber /\ c.fp_clobber = s.fp_clobber
  BY <1>0, <1>3, <1>4 DEF Board
<1> HIDE DEF c
<1>6. ScoreboardCoherent(c)
  BY <1>0, <1>4, <1>5 DEF ScoreboardCoherent, Coherent
<1> QED
  BY <1>0, <1>5, <1>6 DEF GoodBoard, CompletedEntry, c, e, n

RetiredEntry(e) == WithValid(e, FALSE)

LEMMA RetireGood ==
    ASSUME NEW V, NEW P, NEW s, GoodBoard(s, V, P), s.count > 0
    PROVE  /\ GoodBoard(retire(s), V, P)
           /\ s.count \in 1 .. SIZE
           /\ retire(s).entries = [s.entries EXCEPT ![s.head] = RetiredEntry(s.entries[s.head])]
           /\ retire(s).head = (s.head + 1) % SIZE
           /\ retire(s).tail = s.tail
           /\ retire(s).count = s.count - 1
           /\ retire(s).rd_clobber = s.rd_clobber
           /\ retire(s).fp_clobber = s.fp_clobber
<1> DEFINE c == retire(s)
           n == WithValid(s.entries[s.head], FALSE)
           e == [s.entries EXCEPT ![s.head] = n]
           h == (s.head + 1) % SIZE
           k == s.count - 1
<1>0. s \in Board(V, P) /\ Zero \in V /\ 0 \in P /\ ScoreboardCoherent(s)
  BY DEF GoodBoard
<1>1. /\ SIZE \in Nat \ {0} /\ s.count \in 1 .. SIZE
      /\ s.head \in 0 .. SIZE - 1 /\ s.tail \in 0 .. SIZE - 1
      /\ s.entries \in [0 .. SIZE - 1 -> BoardEntry(V, P)]
      /\ s.entries[s.head] \in BoardEntry(V, P)
      /\ s.rd_clobber \in [Regs -> Clobber] /\ s.fp_clobber \in [Regs -> Clobber]
  BY <1>0, BoardMembers
<1>2. c = [entries |-> e, head |-> h, tail |-> s.tail, count |-> k,
           rd_clobber |-> s.rd_clobber, fp_clobber |-> s.fp_clobber]
  <2>1. ~ is_empty(s)
    BY <1>1 DEF is_empty
  <2> QED
    BY <1>0, <1>1, <2>1 DEF retire, WithValid, Board, BoardEntry
<1>3. h \in 0 .. SIZE - 1 /\ k \in 0 .. SIZE
  <2>1. 1 \in 0 .. SIZE
    BY <1>1
  <2>2. h \in 0 .. SIZE - 1
    BY <1>1, <2>1, Up
  <2>3. k \in 0 .. SIZE
    BY <1>1
  <2> QED
    BY <2>2, <2>3
<1>4. n \in BoardEntry(V, P) /\ ~ n.valid
  BY <1>1 DEF BoardEntry, WithValid
<1> HIDE DEF n
<1>5. e \in [0 .. SIZE - 1 -> BoardEntry(V, P)]
  BY <1>1, <1>4
<1>6. \A i \in 0 .. SIZE - 1 : e[i].valid <=> i # s.head /\ s.entries[i].valid
  BY <1>1, <1>4
<1>7. Coherent(s.entries, s.head, s.tail, s.count, SIZE)
  BY <1>0 DEF ScoreboardCoherent
<1> HIDE DEF e
<1>8. Coherent(e, (s.head + 1) % SIZE, s.tail, s.count - 1, SIZE)
  BY <1>1, <1>6, <1>7, RingPop
<1>9. c \in Board(V, P)
  <2> HIDE DEF c, h, k
  <2> QED
    BY <1>1, <1>2, <1>3, <1>5, IsBoard
<1>10. /\ c.entries = e /\ c.head = (s.head + 1) % SIZE /\ c.tail = s.tail
       /\ c.count = s.count - 1
       /\ c.rd_clobber = s.rd_clobber /\ c.fp_clobber = s.fp_clobber
  BY <1>2
<1> HIDE DEF c
<1>11. GoodBoard(c, V, P)
  BY <1>0, <1>8, <1>9, <1>10 DEF GoodBoard, ScoreboardCoherent
<1> QED
  BY <1>1, <1>10, <1>11 DEF RetiredEntry, c, e, n

LEMMA ReleaseGood ==
    ASSUME NEW V, NEW P, NEW s, GoodBoard(s, V, P)
    PROVE  LET c == release(s)
               e == get_head(s)
           IN  /\ GoodBoard(c, V, P)
               /\ c.entries = s.entries /\ c.head = s.head
               /\ c.tail = s.tail /\ c.count = s.count
               /\ c.fp_clobber = IF e.rd # 0 /\ e.fp
                                 THEN Released(s.fp_clobber, e.rd, s.head) ELSE s.fp_clobber
               /\ c.rd_clobber = IF e.rd # 0 /\ ~ e.fp
                                 THEN Released(s.rd_clobber, e.rd, s.head) ELSE s.rd_clobber
<1> DEFINE c == release(s)
           e == get_head(s)
<1>0. s \in Board(V, P) /\ Zero \in V /\ 0 \in P /\ ScoreboardCoherent(s)
  BY DEF GoodBoard
<1>1. e \in BoardEntry(V, P)
  BY <1>0, BoardMembers DEF get_head
<1>2. \A i : \A table \in [Regs -> Clobber] : Released(table, e.rd, i) \in [Regs -> Clobber]
  BY <1>0, <1>1, FreshTypes DEF Released, BoardEntry
<1> HIDE DEF e
<1>3. /\ c \in Board(V, P)
      /\ c.entries = s.entries /\ c.head = s.head /\ c.tail = s.tail /\ c.count = s.count
      /\ c.fp_clobber = IF e.rd # 0 /\ e.fp
                        THEN Released(s.fp_clobber, e.rd, s.head) ELSE s.fp_clobber
      /\ c.rd_clobber = IF e.rd # 0 /\ ~ e.fp
                        THEN Released(s.rd_clobber, e.rd, s.head) ELSE s.rd_clobber
  <2>1. c = IF e.rd = 0 THEN s
            ELSE IF e.fp THEN [s EXCEPT !.fp_clobber = Released(s.fp_clobber, e.rd, s.head)]
                         ELSE [s EXCEPT !.rd_clobber = Released(s.rd_clobber, e.rd, s.head)]
    BY DEF release, e
  <2>2. /\ Released(s.fp_clobber, e.rd, s.head) \in [Regs -> Clobber]
        /\ Released(s.rd_clobber, e.rd, s.head) \in [Regs -> Clobber]
    BY <1>0, <1>2, BoardMembers
  <2>3. CASE e.rd = 0
    BY <1>0, <2>1, <2>3
  <2>4. CASE e.rd # 0 /\ e.fp
    BY <1>0, <2>1, <2>2, <2>4 DEF Board
  <2>5. CASE e.rd # 0 /\ ~ e.fp
    BY <1>0, <2>1, <2>2, <2>5 DEF Board
  <2> QED
    BY <2>3, <2>4, <2>5
<1> HIDE DEF c
<1>4. GoodBoard(c, V, P)
  BY <1>0, <1>3 DEF GoodBoard, ScoreboardCoherent
<1> QED
  BY <1>3, <1>4 DEF c, e

LEMMA FlushGood ==
    ASSUME NEW V, NEW P, NEW s, GoodBoard(s, V, P)
    PROVE  /\ GoodBoard(flush(s), V, P)
           /\ flush(s).head = 0 /\ flush(s).tail = 0 /\ flush(s).count = 0
           /\ flush(s).rd_clobber = [r \in Regs |-> NoClobber]
           /\ flush(s).fp_clobber = [r \in Regs |-> NoClobber]
<1> DEFINE c == flush(s)
           e == [i \in DOMAIN s.entries |->
                    [s.entries[i] EXCEPT !.valid = FALSE, !.ready = FALSE]]
           n == [r \in Regs |-> NoClobber]
<1>0. s \in Board(V, P) /\ Zero \in V /\ 0 \in P
  BY DEF GoodBoard
<1>1. s.entries \in [0 .. SIZE - 1 -> BoardEntry(V, P)] /\ SIZE \in Nat \ {0}
      /\ 0 \in 0 .. SIZE - 1 /\ 0 \in 0 .. SIZE
  BY <1>0, BoardMembers
<1>2. ASSUME NEW i \in 0 .. SIZE - 1
      PROVE  LET x == [s.entries[i] EXCEPT !.valid = FALSE, !.ready = FALSE]
             IN  x \in BoardEntry(V, P) /\ x.valid = FALSE
  <2>1. s.entries[i] \in BoardEntry(V, P)
    BY <1>1
  <2> QED
    BY <2>1 DEF BoardEntry
<1>3. e \in [0 .. SIZE - 1 -> BoardEntry(V, P)] /\ \A i \in 0 .. SIZE - 1 : e[i].valid = FALSE
  <2> DEFINE X(i) == [s.entries[i] EXCEPT !.valid = FALSE, !.ready = FALSE]
  <2>1. \A i \in 0 .. SIZE - 1 : X(i) \in BoardEntry(V, P) /\ X(i).valid = FALSE
    BY <1>2
  <2>2. e = [i \in 0 .. SIZE - 1 |-> X(i)]
    BY <1>1
  <2> HIDE DEF X, e
  <2> QED
    BY <2>1, <2>2
<1> HIDE DEF e
<1>4. c = [entries |-> e, head |-> 0, tail |-> 0, count |-> 0,
           rd_clobber |-> n, fp_clobber |-> n]
  <2>1. c = [NewScoreboard EXCEPT !.entries = e]
    BY DEF flush, e
  <2>2. NewScoreboard = [entries |-> [i \in 0 .. SIZE - 1 |-> FreshEntry],
                         head |-> 0, tail |-> 0, count |-> 0, rd_clobber |-> n, fp_clobber |-> n]
    BY DEF NewScoreboard
  <2> HIDE DEF c, n
  <2> QED
    BY <2>1, <2>2
<1>5. n \in [Regs -> Clobber]
  BY <1>0, FreshTypes
<1> HIDE DEF n
<1>6. c \in Board(V, P)
  BY <1>1, <1>3, <1>4, <1>5, IsBoard
<1>7. Coherent(e, 0, 0, 0, SIZE)
  BY <1>1, <1>3, RingEmpty
<1>8. /\ c.entries = e /\ c.head = 0 /\ c.tail = 0 /\ c.count = 0
      /\ c.rd_clobber = n /\ c.fp_clobber = n
  BY <1>4
<1> HIDE DEF c
<1>9. GoodBoard(c, V, P)
  BY <1>0, <1>6, <1>7, <1>8 DEF GoodBoard, ScoreboardCoherent
<1> QED
  BY <1>8, <1>9 DEF c, n

\* Nothing is younger than the entry before the tail: the flush of a
\* mispredicted branch there changes nothing.
LEMMA FlushSpeculativeYoungest ==
    ASSUME NEW V, NEW P, NEW s, GoodBoard(s, V, P), NEW b, s.tail = (b + 1) % SIZE
    PROVE  flush_speculative(s, b) = s
<1> DEFINE e == s.entries
           gone == {i \in Younger(s, b) : e[i].valid}
<1>0. s \in Board(V, P)
  BY DEF GoodBoard
<1>1. /\ SIZE \in Nat \ {0} /\ e \in [0 .. SIZE - 1 -> BoardEntry(V, P)]
      /\ s.tail \in 0 .. SIZE - 1 /\ s.count \in 0 .. SIZE
      /\ s.rd_clobber \in [Regs -> Clobber] /\ s.fp_clobber \in [Regs -> Clobber]
  BY <1>0, BoardMembers
<1>2. (s.tail + SIZE - s.tail) % SIZE = 0
  BY <1>1
<1>3. gone = {}
  <2>1. \A k : ~ (k \in 0 .. 0 - 1)
    OBVIOUS
  <2>2. Younger(s, b) = {}
    BY <1>2, <2>1 DEF Younger
  <2> QED
    BY <2>2
<1>4. Cardinality(gone) = 0
  BY <1>3, FS_EmptySet
<1> HIDE DEF gone
<1> DEFINE Kept(table) ==
              [r \in Regs |->
                  IF \E i \in gone : e[i].rd = r /\ table[r].busy /\ table[r].trans_id = i
                  THEN NoClobber ELSE table[r]]
           x == [i \in DOMAIN e |->
                    IF i \in gone THEN [e[i] EXCEPT !.valid = FALSE, !.ready = FALSE] ELSE e[i]]
<1>5. /\ Kept(s.rd_clobber) = s.rd_clobber /\ Kept(s.fp_clobber) = s.fp_clobber
      /\ x = e
  BY <1>1, <1>3
<1>6. flush_speculative(s, b) =
        [s EXCEPT !.entries = x, !.count = s.count - Cardinality(gone),
                  !.tail = (b + 1) % SIZE,
                  !.rd_clobber = Kept(s.rd_clobber), !.fp_clobber = Kept(s.fp_clobber)]
  BY DEF flush_speculative, gone
<1> HIDE DEF x, Kept, e
<1>7. s.count - Cardinality(gone) = s.count
  BY <1>1, <1>4
<1>8. flush_speculative(s, b) =
        [s EXCEPT !.entries = s.entries, !.count = s.count, !.tail = s.tail,
                  !.rd_clobber = s.rd_clobber, !.fp_clobber = s.fp_clobber]
  <2>1. x = s.entries
    BY <1>5 DEF e
  <2> QED
    BY <1>5, <1>6, <1>7, <2>1, Zenon
<1> QED
  BY <1>0, <1>8 DEF Board
=============================================================================
