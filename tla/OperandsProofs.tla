--------------------------- MODULE OperandsProofs ---------------------------
(***************************************************************************)
(* Theorems about Operands for every size of the scoreboard, every set of  *)
(* registers and values and every set of programs.                         *)
(***************************************************************************)
EXTENDS Operands, ScoreboardProofs

-----------------------------------------------------------------------------
(* The inductive invariant. *)

RegValue == Values \cup {0}
EntryValue == RegValue \cup {Zero}

WorkItem == [class : {"int", "fp", "fcvt"}, rd : Regs, value : RegValue]

StateTypes ==
    /\ program \in Programs
    /\ GoodBoard(scoreboard, EntryValue, {0})
    /\ reg \in [Regs -> RegValue]
    /\ arch \in [Regs -> RegValue]
    /\ latched \in {-1} \cup 0 .. SIZE - 1
    /\ work \in [0 .. SIZE - 1 -> WorkItem]

\* An entry is for the instruction issued into it; once ready it holds that
\* instruction's result.
EntryServes(e, w) ==
    /\ e.fp = (w.class = "fp")
    /\ e.ready => /\ e.rd = w.rd
                  /\ e.result = IF w.class = "fp" THEN 0 ELSE w.value

WorkInFlight ==
    \A i \in 0 .. SIZE - 1 : InFlight(scoreboard, i) =>
        /\ EntryServes(scoreboard.entries[i], work[i])
        /\ work[i].class \in program.classes

\* What is in the latch to EX has an entry and has not finished.
LatchLive ==
    latched # -1 => InFlight(scoreboard, latched) /\ ~ scoreboard.entries[latched].ready

\* Clobber c names the youngest of the writers at the places W of a ring that
\* starts at h.
Names(c, h, W) ==
    \E k \in W : /\ \A j \in W : j <= k
                 /\ c.busy /\ c.trans_id = (h + k) % SIZE

\* With no writer left an exact clobber is free.  f0's is not exact: Commit
\* never releases it.
Follows(c, h, W, exact) ==
    /\ W # {} => Names(c, h, W)
    /\ (W = {} /\ exact) => ~ c.busy

ClobbersFollow ==
    \A r \in Regs :
        /\ r # 0 => Follows(scoreboard.rd_clobber[r], scoreboard.head, Writers(FALSE, r), TRUE)
        /\ Follows(scoreboard.fp_clobber[r], scoreboard.head, Writers(TRUE, r), r # 0)

\* Programs whose register file only Commit writes, or a drain without FP entries.
Precise(p) ==
    /\ "fcvt" \notin p.classes
    /\ "fp" \in p.classes => "illegal" \notin p.traps

FileIsArchitectural == Precise(program) => \A r \in Regs \ {0} : reg[r] = arch[r]

OperandsInv ==
    /\ StateTypes /\ WorkInFlight /\ LatchLive /\ ClobbersFollow /\ FileIsArchitectural

-----------------------------------------------------------------------------
(* Places of writers. *)

Places(h, c, w, fp, r) ==
    {k \in 0 .. c - 1 : w[(h + k) % SIZE].rd = r /\ (w[(h + k) % SIZE].class = "fp") = fp}

LEMMA WritersForm ==
    \A fp, r :
        /\ Writers(fp, r) = Places(scoreboard.head, scoreboard.count, work, fp, r)
        /\ Writers(fp, r)' = Places(scoreboard'.head, scoreboard'.count, work', fp, r)
  BY DEF Writers, Writes, Slot, Places

\* A new instruction at place c.
Hits(x, fp, r) == x.rd = r /\ (x.class = "fp") = fp

PushedWork(h, c, w, x, v) ==
    /\ h \in 0 .. SIZE - 1 /\ c \in 0 .. SIZE - 1
    /\ w \in [0 .. SIZE - 1 -> WorkItem] /\ x \in WorkItem
    /\ v = [w EXCEPT ![(h + c) % SIZE] = x]

LEMMA PlacesPush ==
    ASSUME NEW h, NEW c, NEW w, NEW x, NEW v, PushedWork(h, c, w, x, v), NEW fp, NEW r
    PROVE  /\ Hits(x, fp, r) => Places(h, c + 1, v, fp, r) = Places(h, c, w, fp, r) \cup {c}
           /\ ~ Hits(x, fp, r) => Places(h, c + 1, v, fp, r) = Places(h, c, w, fp, r)
<1>0. /\ SIZE \in Nat \ {0} /\ c \in 0 .. SIZE
      /\ h \in 0 .. SIZE - 1 /\ c \in 0 .. SIZE - 1
      /\ w \in [0 .. SIZE - 1 -> WorkItem]
      /\ v = [w EXCEPT ![(h + c) % SIZE] = x]
  BY ScoreboardAssumption DEF PushedWork
<1>1. (h + c) % SIZE \in 0 .. SIZE - 1
  BY <1>0, Up
<1>2. v[(h + c) % SIZE] = x
  BY <1>0, <1>1
<1>3. ASSUME NEW k \in 0 .. c - 1 PROVE v[(h + k) % SIZE] = w[(h + k) % SIZE]
  <2>1. k \in 0 .. SIZE - 1 /\ k \in 0 .. SIZE /\ k # c
    BY <1>0
  <2>2. (h + k) % SIZE \in 0 .. SIZE - 1 /\ (h + k) % SIZE # (h + c) % SIZE
    BY <1>0, <2>1, Up, SlotsDiffer
  <2> QED
    BY <1>0, <2>2
<1>4. \A k : k \in 0 .. (c + 1) - 1 <=> k = c \/ k \in 0 .. c - 1
  BY <1>0
<1>5. ~ (c \in 0 .. c - 1)
  BY <1>0
<1> DEFINE B(k) == v[(h + k) % SIZE].rd = r /\ (v[(h + k) % SIZE].class = "fp") = fp
           A(k) == w[(h + k) % SIZE].rd = r /\ (w[(h + k) % SIZE].class = "fp") = fp
           X == Hits(x, fp, r)
<1>6. (B(c) <=> X) /\ \A k \in 0 .. c - 1 : B(k) <=> A(k)
  BY <1>2, <1>3 DEF Hits
<1>7. /\ Places(h, c + 1, v, fp, r) = {k \in 0 .. (c + 1) - 1 : B(k)}
      /\ Places(h, c, w, fp, r) = {k \in 0 .. c - 1 : A(k)}
  BY DEF Places
<1> HIDE DEF A, B, X
<1>8. CASE X
  <2>1. {k \in 0 .. (c + 1) - 1 : B(k)} = {k \in 0 .. c - 1 : A(k)} \cup {c}
    BY <1>4, <1>5, <1>6, <1>8
  <2> QED
    BY <1>7, <1>8, <2>1 DEF X
<1>9. CASE ~ X
  <2>1. {k \in 0 .. (c + 1) - 1 : B(k)} = {k \in 0 .. c - 1 : A(k)}
    BY <1>4, <1>5, <1>6, <1>9
  <2> QED
    BY <1>7, <1>9, <2>1 DEF X
<1> QED
  BY <1>8, <1>9

\* The instruction at place 0 leaves.
LEMMA PlacesPop ==
    ASSUME NEW h \in 0 .. SIZE - 1, NEW c \in 1 .. SIZE,
           NEW w, NEW v, \A i \in 0 .. SIZE - 1 : i # h => v[i] = w[i], NEW fp, NEW r
    PROVE  \A k : k \in Places((h + 1) % SIZE, c - 1, v, fp, r)
                    <=> k \in Nat /\ k + 1 \in Places(h, c, w, fp, r)
<1>0. SIZE \in Nat \ {0} /\ 0 \in 0 .. SIZE - 1 /\ (h + 0) % SIZE = h
  <2>1. SIZE \in Nat \ {0}
    BY ScoreboardAssumption
  <2> QED
    BY <2>1, ModInside
<1> TAKE k
<1> DEFINE g == (h + 1) % SIZE
           A(i) == w[(h + i) % SIZE].rd = r /\ (w[(h + i) % SIZE].class = "fp") = fp
           B(i) == v[(g + i) % SIZE].rd = r /\ (v[(g + i) % SIZE].class = "fp") = fp
<1>1. k \in 0 .. (c - 1) - 1 <=> k \in Nat /\ k + 1 \in 0 .. c - 1
  BY <1>0
<1>2. ASSUME k \in 0 .. (c - 1) - 1 PROVE A(k + 1) <=> B(k)
  <2> DEFINE j == k + 1
  <2>1. k \in 0 .. SIZE - 1 /\ j \in 0 .. SIZE - 1 /\ j \in 0 .. SIZE /\ j # 0
    BY <1>0, <1>2
  <2>2. (g + k) % SIZE = (h + j) % SIZE
    BY <1>0, <2>1, NextSlot
  <2>3. (h + j) % SIZE \in 0 .. SIZE - 1 /\ (h + j) % SIZE # h
    <3> HIDE DEF j
    <3>1. (h + j) % SIZE # (h + 0) % SIZE
      BY <1>0, <2>1, SlotsDiffer
    <3> QED
      BY <1>0, <2>1, <3>1, Up
  <2>4. v[(h + j) % SIZE] = w[(h + j) % SIZE]
    <3> HIDE DEF j
    <3> QED
      BY <2>3
  <2> HIDE DEF g, j
  <2>5. B(k) <=> A(j)
    BY <2>2, <2>4
  <2> QED
    BY <2>5 DEF j
<1>3. /\ k \in Places(g, c - 1, v, fp, r) <=> k \in 0 .. (c - 1) - 1 /\ B(k)
      /\ k + 1 \in Places(h, c, w, fp, r) <=> k + 1 \in 0 .. c - 1 /\ A(k + 1)
  BY DEF Places
<1> HIDE DEF A, B, g
<1>4. k \in Places(g, c - 1, v, fp, r) <=> k \in Nat /\ k + 1 \in Places(h, c, w, fp, r)
  BY <1>1, <1>2, <1>3
<1> QED
  BY <1>4 DEF g

-----------------------------------------------------------------------------
(* Clobbers. *)

LEMMA FollowsPush ==
    ASSUME NEW h, NEW c \in Nat, NEW W \in SUBSET (0 .. c - 1), NEW exact, NEW n,
           n.busy, n.trans_id = (h + c) % SIZE
    PROVE  Follows(n, h, W \cup {c}, exact)
<1>1. \A j \in W \cup {c} : j <= c
  OBVIOUS
<1> QED
  BY <1>1 DEF Follows, Names

\* W is what was at the places, U what is there once the oldest has left.
PoppedPlaces(h, c, W, U) ==
    /\ h \in 0 .. SIZE - 1 /\ c \in 1 .. SIZE /\ W \in SUBSET (0 .. c - 1)
    /\ \A k : k \in U <=> k \in Nat /\ k + 1 \in W

LEMMA FollowsPop ==
    ASSUME NEW h, NEW c, NEW W, NEW U, PoppedPlaces(h, c, W, U),
           NEW cl, NEW exact \in BOOLEAN, Follows(cl, h, W, exact)
    PROVE  /\ 0 \notin W \/ ~ exact => Follows(cl, (h + 1) % SIZE, U, exact)
           /\ 0 \in W => Follows(IF cl.trans_id = h THEN NoClobber ELSE cl,
                                 (h + 1) % SIZE, U, exact)
<1> DEFINE g == (h + 1) % SIZE
<1> USE DEF PoppedPlaces
<1>0. SIZE \in Nat \ {0} /\ 0 \in 0 .. SIZE - 1 /\ (h + 0) % SIZE = h
  <2>1. SIZE \in Nat \ {0}
    BY ScoreboardAssumption
  <2> QED
    BY <2>1, ModInside
<1>1. ASSUME NEW k \in W, \A j \in W : j <= k, k # 0, cl.busy, cl.trans_id = (h + k) % SIZE
      PROVE  Names(cl, g, U) /\ U # {} /\ cl.trans_id # h
  <2> DEFINE i == k - 1
  <2>1. i \in Nat /\ i + 1 = k /\ i \in 0 .. SIZE - 1 /\ k \in 0 .. SIZE - 1
    BY <1>0, <1>1
  <2> HIDE DEF i
  <2>2. i \in U /\ \A j \in U : j <= i
    <3>1. i \in U
      BY <1>1, <2>1
    <3>2. ASSUME NEW j \in U PROVE j <= i
      <4>1. j \in Nat /\ j + 1 \in W
        OBVIOUS
      <4>2. j + 1 <= k
        BY <1>1, <4>1
      <4> QED
        BY <2>1, <4>1, <4>2
    <3> QED
      BY <3>1, <3>2
  <2>3. (g + i) % SIZE = (h + (i + 1)) % SIZE
    BY <1>0, <2>1, NextSlot
  <2>4. (h + k) % SIZE # (h + 0) % SIZE
    BY <1>0, <1>1, <2>1, SlotsDiffer
  <2> HIDE DEF g
  <2> QED
    BY <1>0, <1>1, <2>1, <2>2, <2>3, <2>4 DEF Names
<1>2. ASSUME W # {} PROVE \E k \in W : /\ \A j \in W : j <= k
                                         /\ cl.busy /\ cl.trans_id = (h + k) % SIZE
  BY <1>2 DEF Follows, Names
<1>3. ASSUME W = {} PROVE U = {}
  BY <1>3
<1>4. ASSUME NEW k \in W, k = 0, \A j \in W : j <= k PROVE U = {}
  <2>1. \A j \in U : FALSE
    BY <1>4
  <2> QED
    BY <2>1
<1>5. ~ NoClobber.busy
  BY DEF NoClobber
<1> HIDE DEF g
<1>6. ASSUME 0 \notin W \/ ~ exact PROVE Follows(cl, g, U, exact)
  <2>1. CASE W = {}
    BY <1>3, <2>1 DEF Follows
  <2>2. CASE W # {}
    <3>1. PICK k \in W : /\ \A j \in W : j <= k
                         /\ cl.busy /\ cl.trans_id = (h + k) % SIZE
      BY <1>2, <2>2
    <3>2. CASE k # 0
      <4>1. Names(cl, g, U) /\ U # {}
        BY <1>1, <3>1, <3>2
      <4> QED
        BY <4>1 DEF Follows
    <3>3. CASE k = 0
      <4>1. U = {} /\ ~ exact
        BY <1>4, <1>6, <3>1, <3>3
      <4> QED
        BY <4>1 DEF Follows
    <3> QED
      BY <3>2, <3>3
  <2> QED
    BY <2>1, <2>2
<1>7. ASSUME 0 \in W PROVE Follows(IF cl.trans_id = h THEN NoClobber ELSE cl, g, U, exact)
  <2>1. PICK k \in W : /\ \A j \in W : j <= k
                       /\ cl.busy /\ cl.trans_id = (h + k) % SIZE
    BY <1>2, <1>7
  <2>2. CASE k # 0
    <3>1. Names(cl, g, U) /\ U # {} /\ cl.trans_id # h
      BY <1>1, <2>1, <2>2
    <3> QED
      BY <3>1 DEF Follows
  <2>3. CASE k = 0
    <3>1. U = {} /\ cl.trans_id = h
      BY <1>0, <1>4, <2>1, <2>3
    <3> QED
      BY <1>5, <3>1 DEF Follows
  <2> QED
    BY <2>2, <2>3
<1> QED
  BY <1>6, <1>7 DEF g

-----------------------------------------------------------------------------
(* The steps. *)

LEMMA BoardFacts ==
    ASSUME OperandsInv
    PROVE  /\ SIZE \in Nat \ {0}
           /\ scoreboard.entries \in [0 .. SIZE - 1 -> BoardEntry(EntryValue, {0})]
           /\ scoreboard.head \in 0 .. SIZE - 1 /\ scoreboard.tail \in 0 .. SIZE - 1
           /\ scoreboard.count \in 0 .. SIZE
           /\ scoreboard.rd_clobber \in [Regs -> Clobber]
           /\ scoreboard.fp_clobber \in [Regs -> Clobber]
           /\ scoreboard.tail = (scoreboard.head + scoreboard.count) % SIZE
           /\ program.classes \subseteq {"int", "fp", "fcvt"}
<1>1. GoodBoard(scoreboard, EntryValue, {0}) /\ program \in Programs
  BY DEF OperandsInv, StateTypes
<1>2. scoreboard \in Board(EntryValue, {0})
  BY <1>1 DEF GoodBoard
<1>3. scoreboard.tail = (scoreboard.head + scoreboard.count) % SIZE
  BY <1>1 DEF GoodBoard, ScoreboardCoherent, Coherent
<1>4. program.classes \subseteq {"int", "fp", "fcvt"}
  BY <1>1, OperandsAssumption
<1> QED
  BY <1>2, <1>3, <1>4, BoardMembers

LEMMA NoWorkType == NoWork \in WorkItem /\ 0 \in RegValue /\ RegValue \subseteq EntryValue
  BY ScoreboardAssumption DEF NoWork, WorkItem, RegValue, EntryValue

\* An empty scoreboard with free tables satisfies what is said of entries.
LEMMA EmptyBoard ==
    ASSUME NEW s, s.count = 0, s.rd_clobber = [r \in Regs |-> NoClobber],
           s.fp_clobber = [r \in Regs |-> NoClobber], NEW w
    PROVE  /\ \A i : ~ InFlight(s, i)
           /\ \A fp : \A r \in Regs :
                 /\ Follows(s.rd_clobber[r], s.head, Places(s.head, s.count, w, fp, r), TRUE)
                 /\ Follows(s.fp_clobber[r], s.head, Places(s.head, s.count, w, fp, r), r # 0)
<1>1. \A k : ~ (k \in 0 .. s.count - 1)
  OBVIOUS
<1>2. \A i : ~ InFlight(s, i)
  BY <1>1 DEF InFlight, InWindow
<1>3. \A r, fp : Places(s.head, s.count, w, fp, r) = {}
  BY <1>1 DEF Places
<1>4. \A r \in Regs : ~ s.rd_clobber[r].busy /\ ~ s.fp_clobber[r].busy
  BY DEF NoClobber
<1> QED
  BY <1>2, <1>3, <1>4 DEF Follows

LEMMA InitOperands == Init => OperandsInv
<1> SUFFICES ASSUME Init PROVE OperandsInv
  OBVIOUS
<1>1. GoodBoard(scoreboard, EntryValue, {0}) /\ scoreboard.count = 0
  BY NewScoreboardGood DEF Init, EntryValue
<1>2. StateTypes
  BY <1>1, NoWorkType DEF Init, StateTypes
<1>3. /\ scoreboard.rd_clobber = [r \in Regs |-> NoClobber]
      /\ scoreboard.fp_clobber = [r \in Regs |-> NoClobber]
  BY DEF Init, NewScoreboard
<1>4. WorkInFlight
  BY <1>1, <1>3, EmptyBoard DEF WorkInFlight
<1>5. LatchLive /\ FileIsArchitectural
  BY DEF Init, LatchLive, FileIsArchitectural
<1>6. ClobbersFollow
  BY <1>1, <1>3, EmptyBoard, WritersForm DEF ClobbersFollow
<1> QED
  BY <1>2, <1>4, <1>5, <1>6 DEF OperandsInv

\* What the three traps have in common.
LEMMA FlushOperands ==
    ASSUME OperandsInv, scoreboard' = flush(scoreboard), latched' = -1,
           work' = [i \in DOMAIN work |-> NoWork], program' = program,
           reg' \in [Regs -> RegValue], arch' \in [Regs -> RegValue], FileIsArchitectural'
    PROVE  OperandsInv'
<1>0. GoodBoard(scoreboard, EntryValue, {0}) /\ work \in [0 .. SIZE - 1 -> WorkItem]
  BY DEF OperandsInv, StateTypes
<1>1. /\ GoodBoard(scoreboard', EntryValue, {0}) /\ scoreboard'.count = 0
      /\ scoreboard'.rd_clobber = [r \in Regs |-> NoClobber]
      /\ scoreboard'.fp_clobber = [r \in Regs |-> NoClobber]
  BY <1>0, FlushGood
<1>2. StateTypes'
  BY <1>0, <1>1, NoWorkType DEF OperandsInv, StateTypes, RegValue, EntryValue
<1>3. WorkInFlight'
  BY <1>1, EmptyBoard DEF WorkInFlight
<1>4. LatchLive'
  BY DEF LatchLive
<1>5. ClobbersFollow'
  BY <1>1, EmptyBoard, WritersForm DEF ClobbersFollow
<1> QED
  BY <1>2, <1>3, <1>4, <1>5 DEF OperandsInv

LEMMA IssueOperands ==
    ASSUME OperandsInv, NEW class \in program.classes, NEW rd \in Regs, NEW value \in Values,
           Issue(class, rd, value)
    PROVE  OperandsInv'
<1> DEFINE fp == class = "fp"
           m == [pc |-> 0, is_store |-> FALSE, fp |-> fp]
           x == [class |-> class, rd |-> rd, value |-> value]
           t == scoreboard.tail
           h == scoreboard.head
           c == scoreboard.count
           a == allocate(scoreboard, m)
           n == [busy |-> TRUE, trans_id |-> t]
<1>0. /\ SIZE \in Nat \ {0} /\ h \in 0 .. SIZE - 1 /\ t \in 0 .. SIZE - 1
      /\ c \in 0 .. SIZE /\ t = (h + c) % SIZE
      /\ scoreboard.rd_clobber \in [Regs -> Clobber]
      /\ scoreboard.fp_clobber \in [Regs -> Clobber]
      /\ scoreboard.entries \in [0 .. SIZE - 1 -> BoardEntry(EntryValue, {0})]
      /\ class \in {"int", "fp", "fcvt"}
  BY BoardFacts
<1>1. /\ GoodBoard(scoreboard, EntryValue, {0}) /\ ~ is_full(scoreboard)
      /\ work \in [0 .. SIZE - 1 -> WorkItem] /\ latched = -1
      /\ WorkInFlight /\ ClobbersFollow
  BY DEF OperandsInv, StateTypes, Issue
<1>2. /\ scoreboard' = clobber(a, t, rd, fp) /\ work' = [work EXCEPT ![t] = x]
      /\ latched' = t /\ program' = program /\ reg' = reg /\ arch' = arch
  BY DEF Issue
<1>3. fp \in BOOLEAN /\ m.fp = fp
  OBVIOUS
<1>3a. m \in Metadata({0})
  BY DEF Metadata
<1>4. x \in WorkItem /\ x.rd = rd /\ x.class = class
  BY <1>0 DEF WorkItem, RegValue
<1> HIDE DEF m, x, fp
<1>5. /\ GoodBoard(a, EntryValue, {0}) /\ c \in 0 .. SIZE - 1
      /\ a.entries = [scoreboard.entries EXCEPT ![t] = AllocatedEntry(m)]
      /\ a.head = h /\ a.count = c + 1
      /\ a.rd_clobber = scoreboard.rd_clobber /\ a.fp_clobber = scoreboard.fp_clobber
  BY <1>1, <1>3a, AllocateGood
<1> HIDE DEF a
<1>6. /\ GoodBoard(scoreboard', EntryValue, {0})
      /\ scoreboard'.entries = a.entries /\ scoreboard'.head = a.head
      /\ scoreboard'.count = a.count
      /\ scoreboard'.fp_clobber = IF fp THEN [a.fp_clobber EXCEPT ![rd] = n] ELSE a.fp_clobber
      /\ scoreboard'.rd_clobber = IF ~ fp /\ rd # 0 THEN [a.rd_clobber EXCEPT ![rd] = n]
                                                    ELSE a.rd_clobber
  <2> DEFINE d == clobber(a, t, rd, fp)
  <2>0. t \in 0 .. SIZE - 1 /\ GoodBoard(a, EntryValue, {0})
    BY <1>0, <1>5
  <2> HIDE DEF t
  <2>1. /\ GoodBoard(d, EntryValue, {0})
        /\ d.entries = a.entries /\ d.head = a.head /\ d.count = a.count
        /\ d.fp_clobber = IF fp THEN [a.fp_clobber EXCEPT ![rd] = n] ELSE a.fp_clobber
        /\ d.rd_clobber = IF ~ fp /\ rd # 0 THEN [a.rd_clobber EXCEPT ![rd] = n]
                                           ELSE a.rd_clobber
    BY <1>3, <2>0, ClobberGood
  <2> HIDE DEF d
  <2>2. scoreboard' = d
    BY <1>2 DEF d
  <2> QED
    BY <2>1, <2>2
<1>7. /\ ~ AllocatedEntry(m).ready /\ AllocatedEntry(m).fp = fp
  <2>1. ~ AllocatedEntry(m).ready /\ AllocatedEntry(m).fp = m.fp
    BY DEF AllocatedEntry, FreshEntry, m
  <2> QED
    BY <1>3, <2>1
<1>8. StateTypes'
  <2>1. work' \in [0 .. SIZE - 1 -> WorkItem]
    BY <1>1, <1>2, <1>4
  <2> QED
    BY <1>0, <1>2, <1>6, <2>1 DEF OperandsInv, StateTypes, RegValue, EntryValue
<1>9. \A i \in 0 .. SIZE - 1 : InFlight(scoreboard', i) <=> i = t \/ InFlight(scoreboard, i)
  <2>1. \A i \in 0 .. SIZE - 1 : InWindow(i, h, c + 1, SIZE) <=> i = t \/ InWindow(i, h, c, SIZE)
    BY <1>0, <1>5, PushWindow
  <2> QED
    BY <1>5, <1>6, <2>1 DEF InFlight
<1>10. WorkInFlight'
  <2> SUFFICES ASSUME NEW i \in 0 .. SIZE - 1, InFlight(scoreboard', i)
               PROVE  /\ EntryServes(scoreboard'.entries[i], work'[i])
                      /\ work'[i].class \in program'.classes
    BY DEF WorkInFlight
  <2>1. CASE i = t
    <3>1. scoreboard'.entries[i] = AllocatedEntry(m) /\ work'[i] = x
      BY <1>0, <1>1, <1>2, <1>5, <1>6, <2>1
    <3> QED
      BY <1>2, <1>4, <1>7, <3>1 DEF EntryServes, fp
  <2>2. CASE i # t
    <3>1. scoreboard'.entries[i] = scoreboard.entries[i] /\ work'[i] = work[i]
      BY <1>0, <1>1, <1>2, <1>5, <1>6, <2>2
    <3>2. InFlight(scoreboard, i)
      BY <1>9, <2>2
    <3> QED
      BY <1>1, <1>2, <3>1, <3>2 DEF WorkInFlight
  <2> QED
    BY <2>1, <2>2
<1>11. LatchLive'
  <2>1. scoreboard'.entries[t] = AllocatedEntry(m)
    BY <1>0, <1>5, <1>6
  <2> QED
    BY <1>0, <1>2, <1>7, <1>9, <2>1 DEF LatchLive
<1>12. \A f, r : Writers(f, r)' = IF rd = r /\ fp = f THEN Writers(f, r) \cup {c}
                                                     ELSE Writers(f, r)
  <2> DEFINE v == work'
  <2>1. v = [work EXCEPT ![(h + c) % SIZE] = x]
    BY <1>0, <1>2
  <2>2. scoreboard'.head = h /\ scoreboard'.count = c + 1
    BY <1>5, <1>6
  <2>3. \A f, r : /\ Writers(f, r) = Places(h, c, work, f, r)
                  /\ Writers(f, r)' = Places(h, c + 1, v, f, r)
    BY <2>2, WritersForm
  <2> HIDE DEF h, c, v
  <2>4. PushedWork(h, c, work, x, v)
    BY <1>0, <1>1, <1>4, <1>5, <2>1 DEF PushedWork
  <2>5. ASSUME NEW f, NEW r
        PROVE  /\ Hits(x, f, r) => Places(h, c + 1, v, f, r) = Places(h, c, work, f, r) \cup {c}
               /\ ~ Hits(x, f, r) => Places(h, c + 1, v, f, r) = Places(h, c, work, f, r)
    BY <2>4, PlacesPush, SMTT(30)
  <2>6. \A f, r : Hits(x, f, r) <=> rd = r /\ fp = f
    BY <1>4, Zenon DEF Hits, fp
  <2> QED
    BY <2>3, <2>5, <2>6, Zenon
<1>13. \A f, r : Writers(f, r) \in SUBSET (0 .. c - 1)
  BY DEF Writers
<1>14. ClobbersFollow'
  <2> SUFFICES ASSUME NEW r \in Regs
               PROVE  /\ r # 0 => Follows(scoreboard'.rd_clobber[r], h, Writers(FALSE, r)', TRUE)
                      /\ Follows(scoreboard'.fp_clobber[r], h, Writers(TRUE, r)', r # 0)
    BY <1>5, <1>6 DEF ClobbersFollow
  <2>0. /\ r # 0 => Follows(scoreboard.rd_clobber[r], h, Writers(FALSE, r), TRUE)
        /\ Follows(scoreboard.fp_clobber[r], h, Writers(TRUE, r), r # 0)
    BY <1>1 DEF ClobbersFollow
  <2>1. \A f, exact : Follows(n, h, Writers(f, r) \cup {c}, exact)
    <3>1. n.busy /\ n.trans_id = (h + c) % SIZE
      BY <1>0
    <3> HIDE DEF n, h, c
    <3>2. c \in Nat
      BY <1>5
    <3> QED
      BY <1>13, <3>1, <3>2, FollowsPush, Zenon
  <2>2. ASSUME r # 0 PROVE Follows(scoreboard'.rd_clobber[r], h, Writers(FALSE, r)', TRUE)
    <3>1. CASE rd = r /\ ~ fp
      <4>1. scoreboard'.rd_clobber[r] = n
        BY <1>0, <1>5, <1>6, <2>2, <3>1
      <4>2. Writers(FALSE, r)' = Writers(FALSE, r) \cup {c}
        BY <1>3, <1>12, <3>1
      <4> HIDE DEF n, h, c
      <4> QED
        BY <2>1, <4>1, <4>2
    <3>2. CASE ~ (rd = r /\ ~ fp)
      <4>1. scoreboard'.rd_clobber[r] = scoreboard.rd_clobber[r]
        BY <1>0, <1>5, <1>6, <3>2
      <4>2. Writers(FALSE, r)' = Writers(FALSE, r)
        BY <1>3, <1>12, <3>2
      <4> QED
        BY <2>0, <2>2, <4>1, <4>2
    <3> QED
      BY <3>1, <3>2
  <2>3. Follows(scoreboard'.fp_clobber[r], h, Writers(TRUE, r)', r # 0)
    <3>1. CASE rd = r /\ fp
      <4>1. scoreboard'.fp_clobber[r] = n
        BY <1>0, <1>5, <1>6, <3>1
      <4>2. Writers(TRUE, r)' = Writers(TRUE, r) \cup {c}
        BY <1>3, <1>12, <3>1
      <4> HIDE DEF n, h, c
      <4> QED
        BY <2>1, <4>1, <4>2
    <3>2. CASE ~ (rd = r /\ fp)
      <4>1. scoreboard'.fp_clobber[r] = scoreboard.fp_clobber[r]
        BY <1>0, <1>5, <1>6, <3>2
      <4>2. Writers(TRUE, r)' = Writers(TRUE, r)
        BY <1>3, <1>12, <3>2
      <4> QED
        BY <2>0, <4>1, <4>2
    <3> QED
      BY <3>1, <3>2
  <2> QED
    BY <2>2, <2>3
<1>15. FileIsArchitectural'
  BY <1>2 DEF OperandsInv, FileIsArchitectural
<1> QED
  BY <1>8, <1>10, <1>11, <1>14, <1>15 DEF OperandsInv

\* A unit or EX writes its result into the entry of its instruction.
LEMMA FinishOperands ==
    ASSUME OperandsInv, NEW i \in 0 .. SIZE - 1, InFlight(scoreboard, i),
           scoreboard' \in {scoreboard, Finish(i)}, work' = work, program' = program
    PROVE  /\ GoodBoard(scoreboard', EntryValue, {0})
           /\ \A j : InFlight(scoreboard', j) <=> InFlight(scoreboard, j)
           /\ \A j \in 0 .. SIZE - 1 : j # i => scoreboard'.entries[j] = scoreboard.entries[j]
           /\ WorkInFlight' /\ ClobbersFollow'
<1> DEFINE res == IF work[i].class = "fp" THEN 0 ELSE work[i].value
           rd == work[i].rd
           e == scoreboard.entries
           x == CompletedEntry(e[i], res, rd)
<1>1. /\ GoodBoard(scoreboard, EntryValue, {0}) /\ work \in [0 .. SIZE - 1 -> WorkItem]
      /\ WorkInFlight /\ ClobbersFollow
  BY DEF OperandsInv, StateTypes
<1>2. e \in [0 .. SIZE - 1 -> BoardEntry(EntryValue, {0})]
  BY BoardFacts
<1>3. res \in EntryValue /\ rd \in Regs
  <2>1. work[i] \in WorkItem
    BY <1>1
  <2> QED
    BY <2>1, NoWorkType DEF WorkItem
<1>4. Finish(i) = complete(scoreboard, i, res, rd)
  BY DEF Finish
<1>5. /\ e[i].fp = (work[i].class = "fp")
      /\ e[i] \in BoardEntry(EntryValue, {0})
  BY <1>1, <1>2 DEF WorkInFlight, EntryServes
<1>6. /\ x.fp = (work[i].class = "fp") /\ x.rd = work[i].rd /\ x.result = res
  BY <1>5 DEF BoardEntry, CompletedEntry
<1> HIDE DEF res, rd
<1>7. /\ GoodBoard(Finish(i), EntryValue, {0})
      /\ Finish(i).entries = [e EXCEPT ![i] = x]
      /\ Finish(i).head = scoreboard.head /\ Finish(i).count = scoreboard.count
      /\ Finish(i).rd_clobber = scoreboard.rd_clobber
      /\ Finish(i).fp_clobber = scoreboard.fp_clobber
  <2> DEFINE f == complete(scoreboard, i, res, rd)
  <2>1. /\ GoodBoard(f, EntryValue, {0})
        /\ f.entries = [scoreboard.entries EXCEPT ![i] =
                           CompletedEntry(scoreboard.entries[i], res, rd)]
        /\ f.head = scoreboard.head /\ f.count = scoreboard.count
        /\ f.rd_clobber = scoreboard.rd_clobber /\ f.fp_clobber = scoreboard.fp_clobber
    BY <1>1, <1>3, CompleteGood
  <2> HIDE DEF f
  <2>2. Finish(i) = f
    BY <1>4 DEF f
  <2> QED
    BY <2>1, <2>2
<1> HIDE DEF x
<1>8. /\ GoodBoard(scoreboard', EntryValue, {0})
      /\ scoreboard'.head = scoreboard.head /\ scoreboard'.count = scoreboard.count
      /\ scoreboard'.rd_clobber = scoreboard.rd_clobber
      /\ scoreboard'.fp_clobber = scoreboard.fp_clobber
      /\ \A j \in 0 .. SIZE - 1 : j # i => scoreboard'.entries[j] = e[j]
      /\ scoreboard'.entries[i] \in {e[i], x}
  <2>1. CASE scoreboard' = scoreboard
    BY <1>1, <2>1
  <2>2. CASE scoreboard' = Finish(i)
    BY <1>2, <1>7, <2>2
  <2> QED
    BY <2>1, <2>2
<1>9. \A j : InFlight(scoreboard', j) <=> InFlight(scoreboard, j)
  BY <1>8 DEF InFlight
<1>10. WorkInFlight'
  <2> SUFFICES ASSUME NEW j \in 0 .. SIZE - 1, InFlight(scoreboard', j)
               PROVE  /\ EntryServes(scoreboard'.entries[j], work'[j])
                      /\ work'[j].class \in program'.classes
    BY DEF WorkInFlight
  <2>1. EntryServes(e[j], work[j]) /\ work[j].class \in program.classes
    BY <1>1, <1>9 DEF WorkInFlight
  <2>2. EntryServes(x, work[i])
    BY <1>6 DEF EntryServes, res
  <2>3. scoreboard'.entries[j] = e[j] \/ (j = i /\ scoreboard'.entries[j] = x)
    BY <1>8
  <2> QED
    BY <2>1, <2>2, <2>3
<1>11. ClobbersFollow'
  <2>1. \A fp, r : Writers(fp, r)' = Writers(fp, r)
    BY <1>8, WritersForm
  <2> QED
    BY <1>1, <1>8, <2>1 DEF ClobbersFollow
<1> QED
  BY <1>8, <1>9, <1>10, <1>11

LEMMA ExecuteOperands ==
    ASSUME OperandsInv, Execute
    PROVE  OperandsInv'
<1>1. /\ latched \in 0 .. SIZE - 1 /\ InFlight(scoreboard, latched)
      /\ program \in Programs /\ arch \in [Regs -> RegValue] /\ reg \in [Regs -> RegValue]
      /\ work \in [0 .. SIZE - 1 -> WorkItem]
  BY DEF OperandsInv, StateTypes, LatchLive, Execute
<1>2. /\ scoreboard' \in {scoreboard, Finish(latched)} /\ latched' = -1
      /\ program' = program /\ work' = work /\ arch' = arch
      /\ reg' = IF work[latched].class = "fcvt" /\ work[latched].rd # 0
                THEN [reg EXCEPT ![work[latched].rd] = work[latched].value] ELSE reg
  BY DEF Execute
<1>3. GoodBoard(scoreboard', EntryValue, {0}) /\ WorkInFlight' /\ ClobbersFollow'
  BY <1>1, <1>2, FinishOperands
<1>4. work[latched] \in WorkItem /\ work[latched].class \in program.classes
  BY <1>1 DEF OperandsInv, WorkInFlight
<1>5. reg' \in [Regs -> RegValue]
  BY <1>1, <1>2, <1>4 DEF WorkItem
<1>6. StateTypes'
  BY <1>1, <1>2, <1>3, <1>5 DEF StateTypes, RegValue, EntryValue, WorkItem
<1>7. FileIsArchitectural'
  <2>1. CASE work[latched].class = "fcvt"
    BY <1>2, <1>4, <2>1 DEF FileIsArchitectural, Precise
  <2>2. CASE work[latched].class # "fcvt"
    BY <1>2, <2>2 DEF OperandsInv, FileIsArchitectural
  <2> QED
    BY <2>1, <2>2
<1>8. LatchLive'
  BY <1>2 DEF LatchLive
<1> QED
  BY <1>3, <1>6, <1>7, <1>8 DEF OperandsInv

LEMMA UnitDoneOperands ==
    ASSUME OperandsInv, NEW i \in 0 .. SIZE - 1, UnitDone(i)
    PROVE  OperandsInv'
<1>1. /\ scoreboard' = Finish(i) /\ InFlight(scoreboard, i) /\ i # latched
      /\ program' = program /\ work' = work /\ arch' = arch /\ reg' = reg /\ latched' = latched
  BY DEF UnitDone
<1>2. /\ GoodBoard(scoreboard', EntryValue, {0}) /\ WorkInFlight' /\ ClobbersFollow'
      /\ \A j : InFlight(scoreboard', j) <=> InFlight(scoreboard, j)
      /\ \A j \in 0 .. SIZE - 1 : j # i => scoreboard'.entries[j] = scoreboard.entries[j]
  BY <1>1, FinishOperands
<1>3. StateTypes'
  BY <1>1, <1>2 DEF OperandsInv, StateTypes, RegValue, EntryValue, WorkItem
<1>4. LatchLive'
  BY <1>1, <1>2 DEF OperandsInv, StateTypes, LatchLive
<1>5. FileIsArchitectural'
  BY <1>1 DEF OperandsInv, FileIsArchitectural
<1> QED
  BY <1>2, <1>3, <1>4, <1>5 DEF OperandsInv

LEMMA CommitOperands ==
    ASSUME OperandsInv, Commit
    PROVE  OperandsInv'
<1> DEFINE h == scoreboard.head
           c == scoreboard.count
           e == scoreboard.entries[h]
           w == work[h]
           b == release(scoreboard)
<1>0. /\ SIZE \in Nat \ {0} /\ h \in 0 .. SIZE - 1
      /\ scoreboard.rd_clobber \in [Regs -> Clobber]
      /\ scoreboard.fp_clobber \in [Regs -> Clobber]
      /\ scoreboard.entries \in [0 .. SIZE - 1 -> BoardEntry(EntryValue, {0})]
  BY BoardFacts
<1>1. /\ GoodBoard(scoreboard, EntryValue, {0})
      /\ work \in [0 .. SIZE - 1 -> WorkItem] /\ LatchLive
      /\ WorkInFlight /\ ClobbersFollow /\ FileIsArchitectural
      /\ reg \in [Regs -> RegValue] /\ arch \in [Regs -> RegValue]
      /\ program \in Programs /\ latched \in {-1} \cup 0 .. SIZE - 1
  BY DEF OperandsInv, StateTypes
<1>2. /\ scoreboard' = retire(b) /\ work' = [work EXCEPT ![h] = NoWork]
      /\ program' = program /\ latched' = latched
      /\ reg' = Written(reg, e) /\ arch' = Retired(arch, w)
      /\ c > 0 /\ e.valid /\ e.ready
  BY DEF Commit, head_ready, get_head
<1>3. \A i \in 0 .. SIZE - 1 : scoreboard.entries[i].valid <=> InFlight(scoreboard, i)
  BY <1>1 DEF GoodBoard, ScoreboardCoherent, Coherent, InFlight
<1>4. /\ e.rd = w.rd /\ e.fp = (w.class = "fp")
      /\ e.result = IF w.class = "fp" THEN 0 ELSE w.value
  BY <1>0, <1>1, <1>2, <1>3 DEF WorkInFlight, EntryServes
<1>5. w \in WorkItem
  BY <1>0, <1>1
<1>6. /\ GoodBoard(b, EntryValue, {0})
      /\ b.entries = scoreboard.entries /\ b.head = h /\ b.count = c
      /\ b.fp_clobber = IF e.rd # 0 /\ e.fp
                        THEN Released(scoreboard.fp_clobber, e.rd, h) ELSE scoreboard.fp_clobber
      /\ b.rd_clobber = IF e.rd # 0 /\ ~ e.fp
                        THEN Released(scoreboard.rd_clobber, e.rd, h) ELSE scoreboard.rd_clobber
  BY <1>1, ReleaseGood DEF get_head
<1> HIDE DEF b
<1>7. /\ GoodBoard(scoreboard', EntryValue, {0}) /\ c \in 1 .. SIZE
      /\ scoreboard'.entries = [scoreboard.entries EXCEPT ![h] = RetiredEntry(e)]
      /\ scoreboard'.head = (h + 1) % SIZE /\ scoreboard'.count = c - 1
      /\ scoreboard'.rd_clobber = b.rd_clobber /\ scoreboard'.fp_clobber = b.fp_clobber
  <2>1. b.count > 0
    BY <1>2, <1>6
  <2>2. /\ GoodBoard(retire(b), EntryValue, {0}) /\ b.count \in 1 .. SIZE
        /\ retire(b).entries = [b.entries EXCEPT ![b.head] = RetiredEntry(b.entries[b.head])]
        /\ retire(b).head = (b.head + 1) % SIZE /\ retire(b).count = b.count - 1
        /\ retire(b).rd_clobber = b.rd_clobber /\ retire(b).fp_clobber = b.fp_clobber
    BY <1>6, <2>1, RetireGood
  <2> QED
    BY <1>2, <1>6, <2>2
<1>8. \A i \in 0 .. SIZE - 1 : i # h => scoreboard'.entries[i] = scoreboard.entries[i]
  BY <1>0, <1>7
<1>9. \A i \in 0 .. SIZE - 1 : InFlight(scoreboard', i) <=> i # h /\ InFlight(scoreboard, i)
  <2>1. \A i \in 0 .. SIZE - 1 : scoreboard'.entries[i].valid <=> InFlight(scoreboard', i)
    BY <1>7 DEF GoodBoard, ScoreboardCoherent, Coherent, InFlight
  <2>2. ~ scoreboard'.entries[h].valid
    <3>1. e \in BoardEntry(EntryValue, {0}) /\ scoreboard'.entries[h] = RetiredEntry(e)
      BY <1>0, <1>7
    <3> QED
      BY <3>1 DEF BoardEntry, RetiredEntry, WithValid
  <2> QED
    BY <1>0, <1>3, <1>8, <2>1, <2>2
<1>10. /\ reg' \in [Regs -> RegValue] /\ arch' \in [Regs -> RegValue] /\ FileIsArchitectural'
  <2>1. CASE w.class # "fp" /\ w.rd # 0
    <3>1. reg' = [reg EXCEPT ![w.rd] = w.value] /\ arch' = [arch EXCEPT ![w.rd] = w.value]
      BY <1>2, <1>4, <2>1 DEF Written, Retired
    <3> HIDE DEF w
    <3> QED
      BY <1>1, <1>2, <1>5, <3>1 DEF FileIsArchitectural, WorkItem
  <2>2. CASE ~ (w.class # "fp" /\ w.rd # 0)
    <3>1. reg' = reg /\ arch' = arch
      BY <1>2, <1>4, <2>2 DEF Written, Retired
    <3> QED
      BY <1>1, <1>2, <3>1 DEF FileIsArchitectural
  <2> QED
    BY <2>1, <2>2
<1>11. StateTypes'
  <2>1. work' \in [0 .. SIZE - 1 -> WorkItem]
    BY <1>1, <1>2, NoWorkType
  <2> QED
    BY <1>1, <1>2, <1>7, <1>10, <2>1 DEF StateTypes, RegValue, EntryValue, WorkItem
<1>12. \A i \in 0 .. SIZE - 1 : i # h => work'[i] = work[i]
  BY <1>1, <1>2
<1>13. WorkInFlight'
  BY <1>1, <1>2, <1>8, <1>9, <1>12 DEF WorkInFlight
<1>14. LatchLive'
  <2>1. latched # -1 => latched \in 0 .. SIZE - 1 /\ latched # h /\ InFlight(scoreboard, latched)
                        /\ ~ scoreboard.entries[latched].ready
    BY <1>1, <1>2 DEF LatchLive
  <2> QED
    BY <1>2, <1>8, <1>9, <2>1 DEF LatchLive
<1>15. ASSUME NEW fp, NEW r
       PROVE  /\ Writers(fp, r) \in SUBSET (0 .. c - 1)
              /\ \A k : k \in Writers(fp, r)' <=> k \in Nat /\ k + 1 \in Writers(fp, r)
              /\ 0 \in Writers(fp, r) <=> Hits(w, fp, r)
  <2> DEFINE v == work'
  <2>1. /\ Writers(fp, r) = Places(h, c, work, fp, r)
        /\ Writers(fp, r)' = Places((h + 1) % SIZE, c - 1, v, fp, r)
    BY <1>7, WritersForm
  <2>2. \A i \in 0 .. SIZE - 1 : i # h => v[i] = work[i]
    BY <1>12
  <2>3. (h + 0) % SIZE = h /\ 0 \in 0 .. c - 1
    <3>1. (h + 0) % SIZE = h
      BY <1>0, ModInside
    <3>2. 0 \in 0 .. c - 1
      BY <1>7
    <3> QED
      BY <3>1, <3>2
  <2>4. 0 \in Places(h, c, work, fp, r) <=> Hits(w, fp, r)
    BY <2>3 DEF Places, Hits
  <2> HIDE DEF h, c, v, w
  <2>5. \A k : k \in Places((h + 1) % SIZE, c - 1, v, fp, r)
                  <=> k \in Nat /\ k + 1 \in Places(h, c, work, fp, r)
    BY <1>0, <1>7, <2>2, PlacesPop
  <2>6. Places(h, c, work, fp, r) \in SUBSET (0 .. c - 1)
    BY DEF Places
  <2> QED
    BY <2>1, <2>4, <2>5, <2>6, Zenon
<1>16. ClobbersFollow'
  <2> SUFFICES ASSUME NEW r \in Regs
               PROVE  /\ r # 0 => Follows(scoreboard'.rd_clobber[r], (h + 1) % SIZE,
                                          Writers(FALSE, r)', TRUE)
                      /\ Follows(scoreboard'.fp_clobber[r], (h + 1) % SIZE,
                                 Writers(TRUE, r)', r # 0)
    BY <1>7 DEF ClobbersFollow
  <2>0. /\ r # 0 => Follows(scoreboard.rd_clobber[r], h, Writers(FALSE, r), TRUE)
        /\ Follows(scoreboard.fp_clobber[r], h, Writers(TRUE, r), r # 0)
    BY <1>1 DEF ClobbersFollow
  <2>1. ASSUME NEW cl, NEW exact \in BOOLEAN, NEW fp, Follows(cl, h, Writers(fp, r), exact)
        PROVE  /\ 0 \notin Writers(fp, r) \/ ~ exact
                     => Follows(cl, (h + 1) % SIZE, Writers(fp, r)', exact)
               /\ 0 \in Writers(fp, r)
                     => Follows(IF cl.trans_id = h THEN NoClobber ELSE cl,
                                (h + 1) % SIZE, Writers(fp, r)', exact)
    <3> DEFINE W == Writers(fp, r)
               U == Writers(fp, r)'
    <3>1. /\ W \in SUBSET (0 .. c - 1) /\ \A k : k \in U <=> k \in Nat /\ k + 1 \in W
          /\ Follows(cl, h, W, exact)
      BY <1>15, <2>1
    <3> HIDE DEF W, U, h, c
    <3>2. /\ 0 \notin W \/ ~ exact => Follows(cl, (h + 1) % SIZE, U, exact)
          /\ 0 \in W => Follows(IF cl.trans_id = h THEN NoClobber ELSE cl,
                                (h + 1) % SIZE, U, exact)
      <4>1. PoppedPlaces(h, c, W, U)
        BY <1>0, <1>7, <3>1 DEF PoppedPlaces
      <4> QED
        BY <3>1, <4>1, FollowsPop, SMTT(30)
    <3> QED
      BY <3>2 DEF W, U
  <2>2. ASSUME r # 0 PROVE Follows(scoreboard'.rd_clobber[r], (h + 1) % SIZE,
                                   Writers(FALSE, r)', TRUE)
    <3>1. CASE Hits(w, FALSE, r)
      <4>1. scoreboard'.rd_clobber[r] = IF scoreboard.rd_clobber[r].trans_id = h THEN NoClobber
                                        ELSE scoreboard.rd_clobber[r]
        BY <1>0, <1>4, <1>6, <1>7, <2>2, <3>1 DEF Hits, Released
      <4>2. 0 \in Writers(FALSE, r)
        BY <1>15, <3>1
      <4> HIDE DEF h, w
      <4> QED
        BY <2>0, <2>1, <2>2, <4>1, <4>2
    <3>2. CASE ~ Hits(w, FALSE, r)
      <4>1. scoreboard'.rd_clobber[r] = scoreboard.rd_clobber[r]
        BY <1>0, <1>4, <1>6, <1>7, <3>2 DEF Hits, Released
      <4>2. 0 \notin Writers(FALSE, r)
        BY <1>15, <3>2
      <4> HIDE DEF h, w
      <4> QED
        BY <2>0, <2>1, <2>2, <4>1, <4>2
    <3> QED
      BY <3>1, <3>2
  <2>3. Hits(w, TRUE, r) <=> e.rd = r /\ e.fp
    BY <1>4, Zenon DEF Hits
  <2>4. Follows(scoreboard'.fp_clobber[r], (h + 1) % SIZE, Writers(TRUE, r)', r # 0)
    <3> DEFINE exact == r # 0
    <3>0. exact \in BOOLEAN /\ Follows(scoreboard.fp_clobber[r], h, Writers(TRUE, r), exact)
      BY <2>0
    <3>1. CASE Hits(w, TRUE, r) /\ r # 0
      <4>1. scoreboard'.fp_clobber[r] = IF scoreboard.fp_clobber[r].trans_id = h THEN NoClobber
                                        ELSE scoreboard.fp_clobber[r]
        <5>1. scoreboard'.fp_clobber = Released(scoreboard.fp_clobber, r, h)
          BY <1>6, <1>7, <2>3, <3>1
        <5> QED
          BY <1>0, <5>1 DEF Released
      <4>2. 0 \in Writers(TRUE, r)
        BY <1>15, <3>1
      <4> HIDE DEF h, w, exact
      <4>3. Follows(scoreboard'.fp_clobber[r], (h + 1) % SIZE, Writers(TRUE, r)', exact)
        BY <2>1, <3>0, <4>1, <4>2
      <4> QED
        BY <4>3 DEF exact
    <3>2. CASE ~ (Hits(w, TRUE, r) /\ r # 0)
      <4>1. scoreboard'.fp_clobber[r] = scoreboard.fp_clobber[r]
        <5>1. CASE e.rd # 0 /\ e.fp
          <6>1. scoreboard'.fp_clobber = Released(scoreboard.fp_clobber, e.rd, h) /\ e.rd # r
            BY <1>6, <1>7, <2>3, <3>2, <5>1
          <6> QED
            BY <1>0, <6>1 DEF Released
        <5>2. CASE ~ (e.rd # 0 /\ e.fp)
          BY <1>6, <1>7, <5>2
        <5> QED
          BY <5>1, <5>2
      <4>2. 0 \notin Writers(TRUE, r) \/ ~ exact
        BY <1>15, <3>2
      <4> HIDE DEF h, w, exact
      <4>3. Follows(scoreboard'.fp_clobber[r], (h + 1) % SIZE, Writers(TRUE, r)', exact)
        BY <2>1, <3>0, <4>1, <4>2
      <4> QED
        BY <4>3 DEF exact
    <3> QED
      BY <3>1, <3>2
  <2> QED
    BY <2>2, <2>4
<1> QED
  BY <1>10, <1>11, <1>13, <1>14, <1>16 DEF OperandsInv

LEMMA InterruptOperands ==
    ASSUME OperandsInv, Interrupt \/ Exception
    PROVE  OperandsInv'
<1>1. /\ scoreboard' = flush(scoreboard) /\ latched' = -1 /\ program' = program
      /\ work' = [i \in DOMAIN work |-> NoWork] /\ reg' = reg /\ arch' = arch
  BY DEF Interrupt, Exception
<1>2. reg' \in [Regs -> RegValue] /\ arch' \in [Regs -> RegValue]
  BY <1>1 DEF OperandsInv, StateTypes
<1>3. FileIsArchitectural'
  BY <1>1 DEF OperandsInv, FileIsArchitectural
<1> QED
  BY <1>1, <1>2, <1>3, FlushOperands

\* The entries the drain of an illegal instruction retires are ready, and hold
\* the results of their instructions.
LEMMA DrainedServe ==
    ASSUME OperandsInv
    PROVE  /\ ReadyCount \in 0 .. SIZE
           /\ \A k \in 0 .. ReadyCount - 1 :
                 LET i == Slot(scoreboard, k)
                 IN  /\ i \in 0 .. SIZE - 1
                     /\ work[i] \in WorkItem /\ work[i].class \in program.classes
                     /\ scoreboard.entries[i].rd = work[i].rd
                     /\ scoreboard.entries[i].result =
                           IF work[i].class = "fp" THEN 0 ELSE work[i].value
<1> DEFINE c == scoreboard.count
           R == {n \in 0 .. c : \A k \in 0 .. n - 1 : scoreboard.entries[Slot(scoreboard, k)].ready}
<1>1. SIZE \in Nat \ {0} /\ c \in 0 .. SIZE /\ scoreboard.head \in 0 .. SIZE - 1
  BY BoardFacts
<1>2. R \in SUBSET (0 .. c) /\ 0 \in R
  BY <1>1
<1>3. Max(R) \in R /\ ReadyCount = Max(R)
  <2>1. ReadyCount = Max(R)
    BY DEF ReadyCount
  <2>2. c \in Nat /\ R # {}
    BY <1>1, <1>2
  <2> HIDE DEF R, c
  <2> QED
    BY <1>2, <2>1, <2>2, MaxIsGreatest
<1>4. /\ ReadyCount \in 0 .. c
      /\ \A k \in 0 .. ReadyCount - 1 : scoreboard.entries[Slot(scoreboard, k)].ready
  BY <1>3
<1>5. ASSUME NEW k \in 0 .. ReadyCount - 1
      PROVE  LET i == Slot(scoreboard, k)
             IN  /\ i \in 0 .. SIZE - 1
                 /\ work[i] \in WorkItem /\ work[i].class \in program.classes
                 /\ scoreboard.entries[i].rd = work[i].rd
                 /\ scoreboard.entries[i].result =
                       IF work[i].class = "fp" THEN 0 ELSE work[i].value
  <2> DEFINE i == Slot(scoreboard, k)
  <2>1. k \in 0 .. c - 1 /\ k \in 0 .. SIZE
    BY <1>1, <1>4
  <2>2. i \in 0 .. SIZE - 1
    BY <1>1, <2>1, Up DEF Slot
  <2>3. InFlight(scoreboard, i)
    BY <2>1 DEF InFlight, InWindow, Slot
  <2>4. scoreboard.entries[i].ready
    BY <1>4
  <2> HIDE DEF i
  <2> QED
    BY <2>2, <2>3, <2>4 DEF OperandsInv, StateTypes, WorkInFlight, EntryServes, i
<1> QED
  BY <1>1, <1>4, <1>5

LEMMA IllegalOperands ==
    ASSUME OperandsInv, Illegal
    PROVE  OperandsInv'
<1> DEFINE E(k) == scoreboard.entries[Slot(scoreboard, k)]
           w(k) == work[Slot(scoreboard, k)]
           D(r) == {k \in 0 .. ReadyCount - 1 : E(k).rd = r}
           C(r) == {k \in 0 .. ReadyCount - 1 : Writes(k, FALSE, r)}
<1>1. /\ scoreboard' = flush(scoreboard) /\ latched' = -1 /\ program' = program
      /\ work' = [i \in DOMAIN work |-> NoWork]
      /\ reg' = [r \in Regs |-> IF r = 0 \/ D(r) = {} THEN reg[r] ELSE E(Max(D(r))).result]
      /\ arch' = [r \in Regs |-> IF r = 0 \/ C(r) = {} THEN arch[r] ELSE w(Max(C(r))).value]
      /\ "illegal" \in program.traps
  BY DEF Illegal, IllegalDrain, DrainRetired
<1>2. reg \in [Regs -> RegValue] /\ arch \in [Regs -> RegValue] /\ FileIsArchitectural
  BY DEF OperandsInv, StateTypes
<1>3. ReadyCount \in 0 .. SIZE /\ SIZE \in Nat
  BY DrainedServe, ScoreboardAssumption
<1>4. \A k \in 0 .. ReadyCount - 1 :
         /\ w(k) \in WorkItem /\ w(k).class \in program.classes
         /\ E(k).rd = w(k).rd
         /\ E(k).result = IF w(k).class = "fp" THEN 0 ELSE w(k).value
  BY DrainedServe
<1>5. ASSUME NEW S \in SUBSET (0 .. ReadyCount - 1), S # {}
      PROVE  Max(S) \in S /\ Max(S) \in 0 .. ReadyCount - 1
  <2>1. S \in SUBSET (0 .. SIZE)
    BY <1>3
  <2> QED
    BY <1>3, <1>5, <2>1, MaxIsGreatest
<1>6. \A r : D(r) \in SUBSET (0 .. ReadyCount - 1) /\ C(r) \in SUBSET (0 .. ReadyCount - 1)
  OBVIOUS
<1>7. \A k \in 0 .. ReadyCount - 1 : E(k).result \in RegValue /\ w(k).value \in RegValue
  BY <1>4, NoWorkType DEF WorkItem
<1>8. reg' \in [Regs -> RegValue] /\ arch' \in [Regs -> RegValue]
  <2> HIDE DEF E, w, D, C
  <2>1. \A r \in Regs : D(r) # {} => E(Max(D(r))).result \in RegValue
    BY <1>5, <1>6, <1>7
  <2>2. \A r \in Regs : C(r) # {} => w(Max(C(r))).value \in RegValue
    BY <1>5, <1>6, <1>7
  <2> QED
    BY <1>1, <1>2, <2>1, <2>2
<1>9. FileIsArchitectural'
  <2> SUFFICES ASSUME Precise(program), NEW r \in Regs \ {0} PROVE reg'[r] = arch'[r]
    BY <1>1 DEF FileIsArchitectural
  <2>1. "fp" \notin program.classes
    BY <1>1 DEF Precise
  <2>2. \A k \in 0 .. ReadyCount - 1 : /\ Writes(k, FALSE, r) <=> E(k).rd = r
                                       /\ E(k).result = w(k).value
    BY <1>4, <2>1 DEF Writes
  <2>3. D(r) = C(r)
    BY <2>2
  <2>4. reg[r] = arch[r]
    BY <1>2 DEF FileIsArchitectural
  <2> HIDE DEF E, w, D, C
  <2>5. D(r) # {} => E(Max(D(r))).result = w(Max(C(r))).value
    BY <1>5, <1>6, <2>2, <2>3
  <2> QED
    BY <1>1, <2>3, <2>4, <2>5
<1> HIDE DEF E, w, D, C
<1> QED
  BY <1>1, <1>8, <1>9, FlushOperands

LEMMA StutterOperands ==
    ASSUME OperandsInv, UNCHANGED opVars
    PROVE  OperandsInv'
<1>1. /\ scoreboard' = scoreboard /\ program' = program /\ reg' = reg /\ latched' = latched
      /\ work' = work /\ arch' = arch
  BY DEF opVars
<1>2. \A fp, r : Writers(fp, r)' = Writers(fp, r)
  BY <1>1, WritersForm
<1>3. StateTypes' /\ WorkInFlight' /\ LatchLive' /\ FileIsArchitectural'
  BY <1>1 DEF OperandsInv, StateTypes, WorkInFlight, LatchLive, FileIsArchitectural,
              RegValue, EntryValue, WorkItem
<1>4. ClobbersFollow'
  BY <1>1, <1>2 DEF OperandsInv, ClobbersFollow
<1> QED
  BY <1>3, <1>4 DEF OperandsInv

LEMMA OperandsInductive == Spec => []OperandsInv
<1>1. OperandsInv /\ [Next]_opVars => OperandsInv'
  <2> SUFFICES ASSUME OperandsInv, [Next]_opVars PROVE OperandsInv'
    OBVIOUS
  <2>1. CASE \E class \in program.classes, rd \in Regs, value \in Values : Issue(class, rd, value)
    BY <2>1, IssueOperands
  <2>2. CASE Execute
    BY <2>2, ExecuteOperands
  <2>3. CASE \E i \in 0 .. SIZE - 1 : UnitDone(i)
    BY <2>3, UnitDoneOperands
  <2>4. CASE Commit
    BY <2>4, CommitOperands
  <2>5. CASE Interrupt \/ Exception
    BY <2>5, InterruptOperands
  <2>6. CASE Illegal
    BY <2>6, IllegalOperands
  <2>7. CASE UNCHANGED opVars
    BY <2>7, StutterOperands
  <2> QED
    BY <2>1, <2>2, <2>3, <2>4, <2>5, <2>6, <2>7 DEF Next
<1> QED
  BY <1>1, InitOperands, PTL DEF Spec

-----------------------------------------------------------------------------
(* What the invariant says of a busy register. *)

\* With writers in flight the register's clobber is busy and names the
\* youngest; without any, an exact clobber is free.
LEMMA ClobberReading ==
    ASSUME OperandsInv, NEW fp, NEW r, NEW c, NEW exact,
           Follows(c, scoreboard.head, Writers(fp, r), exact)
    PROVE  /\ Writers(fp, r) # {} =>
                 /\ c.busy /\ c.trans_id = Youngest(fp, r)
                 /\ Youngest(fp, r) \in 0 .. SIZE - 1
                 /\ InFlight(scoreboard, Youngest(fp, r))
                 /\ Hits(work[Youngest(fp, r)], fp, r)
           /\ (Writers(fp, r) = {} /\ exact) => ~ c.busy
<1> DEFINE W == Writers(fp, r)
<1>1. W \in SUBSET (0 .. scoreboard.count - 1) /\ W \in SUBSET Nat
  BY BoardFacts DEF Writers
<1>2. ASSUME W # {}
      PROVE  /\ c.busy /\ c.trans_id = Youngest(fp, r)
             /\ Youngest(fp, r) \in 0 .. SIZE - 1
             /\ InFlight(scoreboard, Youngest(fp, r))
             /\ Hits(work[Youngest(fp, r)], fp, r)
  <2>1. PICK k \in W : /\ \A j \in W : j <= k
                       /\ c.busy /\ c.trans_id = (scoreboard.head + k) % SIZE
    BY <1>2 DEF Follows, Names
  <2>2. k \in 0 .. scoreboard.count - 1 /\ Writes(k, fp, r)
    BY DEF Writers
  <2> HIDE DEF W
  <2>3. Max(W) = k
    BY <1>1, <2>1, MaxUnique
  <2>4. Youngest(fp, r) = Slot(scoreboard, k)
    BY <2>3 DEF Youngest, W
  <2>5. Slot(scoreboard, k) \in 0 .. SIZE - 1
    <3>1. SIZE \in Nat \ {0} /\ scoreboard.head \in 0 .. SIZE - 1 /\ scoreboard.count \in 0 .. SIZE
      BY BoardFacts
    <3>2. k \in 0 .. SIZE
      BY <2>2, <3>1
    <3> QED
      BY <3>1, <3>2, Up DEF Slot
  <2>6. InFlight(scoreboard, Slot(scoreboard, k))
    BY <2>2 DEF InFlight, InWindow, Slot
  <2>7. Hits(work[Slot(scoreboard, k)], fp, r)
    BY <2>2 DEF Writes, Hits
  <2>8. c.busy /\ c.trans_id = Slot(scoreboard, k)
    BY <2>1 DEF Slot
  <2> QED
    BY <2>4, <2>5, <2>6, <2>7, <2>8
<1> QED
  BY <1>2 DEF Follows

-----------------------------------------------------------------------------
(* Theorems. *)

\* Register file, latch and clobber tables keep their types; the latch holds
\* nothing but entries in flight.
THEOREM OperandTypesHold == Spec => []OperandTypes
<1>1. OperandsInv => OperandTypes
  <2> SUFFICES ASSUME OperandsInv PROVE OperandTypes
    OBVIOUS
  <2>1. reg \in [Regs -> Values \cup {0}] /\ latched \in {-1} \cup 0 .. SIZE - 1 /\ LatchLive
    BY DEF OperandsInv, StateTypes, RegValue
  <2>2. ASSUME NEW r \in Regs
        PROVE  /\ scoreboard.rd_clobber[r].trans_id \in -1 .. SIZE - 1
               /\ scoreboard.fp_clobber[r].trans_id \in -1 .. SIZE - 1
    <3>1. scoreboard.rd_clobber[r] \in Clobber /\ scoreboard.fp_clobber[r] \in Clobber
      BY BoardFacts
    <3> QED
      BY <3>1 DEF Clobber
  <2>3. latched \in {-1} \cup {i \in 0 .. SIZE - 1 : InFlight(scoreboard, i)}
    BY <2>1 DEF LatchLive
  <2> QED
    BY <2>1, <2>2, <2>3 DEF OperandTypes
<1> QED
  BY <1>1, OperandsInductive, PTL

\* A busy clobber names an entry in flight that will write its register
\* (rd_clobber and fp_clobber of inc/Scoreboard.h, written by Issue_stage and
\* released by Commit_stage), whatever the programs.
THEOREM ClobbersNameProducers == Spec => []ClobberNamesProducer
<1>1. OperandsInv => ClobberNamesProducer
  <2> SUFFICES ASSUME OperandsInv, NEW r \in Regs \ {0}
               PROVE  /\ Producing(scoreboard.rd_clobber, FALSE, r)
                      /\ Producing(scoreboard.fp_clobber, TRUE, r)
    BY DEF ClobberNamesProducer
  <2> DEFINE exact == r # 0
  <2>1. /\ Follows(scoreboard.rd_clobber[r], scoreboard.head, Writers(FALSE, r), TRUE)
        /\ Follows(scoreboard.fp_clobber[r], scoreboard.head, Writers(TRUE, r), exact)
        /\ exact
    BY DEF OperandsInv, ClobbersFollow
  <2> HIDE DEF exact
  <2>2. ASSUME NEW table, NEW fp, NEW x, x, Follows(table[r], scoreboard.head, Writers(fp, r), x)
        PROVE  Producing(table, fp, r)
    <3> SUFFICES ASSUME table[r].busy
                 PROVE  /\ InFlight(scoreboard, table[r].trans_id)
                        /\ work[table[r].trans_id].rd = r
                        /\ (work[table[r].trans_id].class = "fp") = fp
      BY DEF Producing
    <3> DEFINE c == table[r]
               y == Youngest(fp, r)
    <3> HIDE DEF c, y
    <3>1. Follows(c, scoreboard.head, Writers(fp, r), x)
      BY <2>2 DEF c
    <3>2. /\ Writers(fp, r) # {} => /\ c.trans_id = y /\ InFlight(scoreboard, y)
                                    /\ Hits(work[y], fp, r)
          /\ (Writers(fp, r) = {} /\ x) => ~ c.busy
      BY <3>1, ClobberReading, Zenon DEF y
    <3>3. Writers(fp, r) # {}
      BY <2>2, <3>2, Zenon DEF c
    <3> QED
      BY <3>2, <3>3, Zenon DEF c, Hits
  <2> QED
    BY <2>1, <2>2, Zenon
<1> QED
  BY <1>1, OperandsInductive, PTL

\* Issue reads an FP register only when its youngest writer in flight, if there
\* is one, has finished (fp_clobber lookups of Issue_stage).
THEOREM FpReadsWaitHolds == Spec => []FpReadsWait
<1>1. OperandsInv => FpReadsWait
  <2> SUFFICES ASSUME OperandsInv, NEW r \in Regs, FpSourceReady(r), Writers(TRUE, r) # {}
               PROVE  scoreboard.entries[Youngest(TRUE, r)].ready
    BY DEF FpReadsWait
  <2> DEFINE exact == r # 0
             c == scoreboard.fp_clobber[r]
  <2>1. Follows(c, scoreboard.head, Writers(TRUE, r), exact)
    BY DEF OperandsInv, ClobbersFollow
  <2> HIDE DEF exact, c
  <2>2. c.busy /\ c.trans_id = Youngest(TRUE, r)
    BY <2>1, ClobberReading, Zenon
  <2> QED
    BY <2>2, Zenon DEF FpSourceReady, Waits, c
<1> QED
  BY <1>1, OperandsInductive, PTL

\* In programs without FP-to-integer moves, and without an illegal instruction
\* among FP ones, every integer operand that Issue accepts has the value
\* program order gives it, for every size of the scoreboard.
THEOREM OperandsFollow ==
    ASSUME \A p \in Programs : Precise(p)
    PROVE  Spec => []OperandsFollowProgramOrder
<1>1. OperandsInv => OperandsFollowProgramOrder
  <2> SUFFICES ASSUME OperandsInv, latched = -1, NEW r \in Regs \ {0}, SourceReady(r)
               PROVE  SourceValue(r) = IF Writers(FALSE, r) = {} THEN arch[r]
                                       ELSE work[Youngest(FALSE, r)].value
    BY DEF OperandsFollowProgramOrder
  <2> DEFINE c == scoreboard.rd_clobber[r]
             y == Youngest(FALSE, r)
             exact == TRUE
  <2>1. Follows(c, scoreboard.head, Writers(FALSE, r), exact)
    BY DEF OperandsInv, ClobbersFollow
  <2>2. reg[r] = arch[r]
    BY DEF OperandsInv, StateTypes, FileIsArchitectural
  <2>3. /\ Writers(FALSE, r) # {} =>
              /\ c.busy /\ c.trans_id = y /\ y \in 0 .. SIZE - 1
              /\ InFlight(scoreboard, y) /\ Hits(work[y], FALSE, r)
        /\ Writers(FALSE, r) = {} => ~ c.busy
    <3> DEFINE f == FALSE
    <3>1. Follows(c, scoreboard.head, Writers(f, r), exact) /\ exact
      BY <2>1
    <3> HIDE DEF c, f, exact
    <3>2. /\ Writers(f, r) # {} =>
                /\ c.busy /\ c.trans_id = Youngest(f, r) /\ Youngest(f, r) \in 0 .. SIZE - 1
                /\ InFlight(scoreboard, Youngest(f, r))
                /\ Hits(work[Youngest(f, r)], f, r)
          /\ (Writers(f, r) = {} /\ exact) => ~ c.busy
      BY <3>1, ClobberReading, Zenon
    <3> QED
      BY <3>1, <3>2, Zenon DEF f
  <2>4. CASE Writers(FALSE, r) = {}
    BY <2>2, <2>3, <2>4 DEF SourceValue
  <2>5. CASE Writers(FALSE, r) # {}
    <3>1. /\ c.busy /\ c.trans_id = y /\ y \in 0 .. SIZE - 1
          /\ InFlight(scoreboard, y) /\ work[y].class # "fp"
      <4> HIDE DEF c, y
      <4> QED
        BY <2>3, <2>5 DEF Hits
    <3>2. scoreboard.entries[y].ready
      BY <3>1 DEF SourceReady, Waits
    <3>3. scoreboard.entries[y].result = work[y].value
      <4> HIDE DEF y
      <4> QED
        BY <3>1, <3>2 DEF OperandsInv, WorkInFlight, EntryServes
    <3> HIDE DEF y
    <3>4. SourceValue(r) = scoreboard.entries[y].result
      BY <3>1 DEF SourceValue
    <3> QED
      BY <2>5, <3>3, <3>4 DEF y
  <2> QED
    BY <2>4, <2>5
<1> QED
  BY <1>1, OperandsInductive, PTL
=============================================================================
