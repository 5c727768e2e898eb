--------------------------- MODULE PipelineProofs ---------------------------
(***************************************************************************)
(* Theorems about the six-stage core for every program, every size of the  *)
(* scoreboard, the fetch queue and the store buffer, every number of slots *)
(* and every latency.                                                      *)
(***************************************************************************)
EXTENDS Pipeline, ScoreboardProofs, SequenceTheorems, FiniteSetTheorems

-----------------------------------------------------------------------------
(* Types. *)

Instr      == [pc : PC, predicted : PC \cup {NotTaken}]
FrontLatch == {Bubble} \cup Instr
ExInstr    == [pc : PC, predicted : PC \cup {NotTaken}, rob_index : 0 .. SIZE - 1]
ExLatch    == {Bubble} \cup ExInstr

Tag == {Computed, Zero}

\* A unit that works has cycles left and an entry to complete.
GoodUnit ==
    {x \in [busy : BOOLEAN, remaining : Nat, trans_id : -1 .. SIZE - 1, result : Tag] :
        x.busy => x.remaining > 0 /\ x.trans_id \in 0 .. SIZE - 1}

FrontTypes ==
    /\ program \in Programs
    /\ next_pc \in PC /\ pc_redirect_target \in PC /\ mepc \in PC
    /\ pcgen_fetch_reg \in FrontLatch /\ pcgen_fetch_next \in FrontLatch
    /\ fetch_id_next \in FrontLatch /\ fetch_id_reg \in FrontLatch
    /\ id_issue_reg \in FrontLatch /\ id_issue_next \in FrontLatch
    /\ fetch_queue \in Seq(Instr) /\ Len(fetch_queue) <= FETCH_QUEUE_CAPACITY

BackTypes ==
    /\ issue_ex_reg \in ExLatch /\ issue_ex_next \in ExLatch
    /\ GoodBoard(scoreboard, Tag, PC)
    /\ fu \in [Units -> GoodUnit]
    /\ spec_stores \in Seq(0 .. SIZE - 1) /\ Len(spec_stores) <= SPEC_DEPTH
    /\ committed_stores \in 0 .. COMMIT_DEPTH

-----------------------------------------------------------------------------
(* Addresses. *)

LEMMA AdvancePC ==
    ASSUME NEW p \in Programs, NEW a \in PC, NEW n \in -1 .. 2
    PROVE  Advance(p, a, n) \in PC
<1>1. /\ UserEnd \in Nat \ {0} /\ CodeEnd \in Nat /\ UserEnd < CodeEnd
      /\ p.end \in 1 .. UserEnd
  BY CodeAssumption
<1>2. a \in 0 .. CodeEnd - 1
  BY DEF PC
<1> DEFINE e == p.end
           x == a + n
           d == CodeEnd - UserEnd
           y == a - UserEnd + n
<1>3. x \in Int /\ y \in Int /\ e \in Nat \ {0} /\ d \in Nat \ {0}
  BY <1>1, <1>2
<1>4. Advance(p, a, n) = IF a < UserEnd THEN x % e ELSE UserEnd + (y % d)
  BY DEF Advance
<1> HIDE DEF x, y, e, d
<1>5. x % e \in 0 .. e - 1 /\ y % d \in 0 .. d - 1
  BY <1>3
<1>6. e <= UserEnd /\ d = CodeEnd - UserEnd
  BY <1>1 DEF e, d
<1> DEFINE v == x % e
           w == y % d
<1>7. v \in 0 .. e - 1 /\ w \in 0 .. d - 1
  BY <1>5
<1>8. Advance(p, a, n) = IF a < UserEnd THEN v ELSE UserEnd + w
  BY <1>4
<1> HIDE DEF v, w
<1> QED
  BY <1>1, <1>3, <1>6, <1>7, <1>8 DEF PC

LEMMA CodeAddresses ==
    /\ HandlerPC \in PC /\ 0 \in PC
    /\ \A p \in Programs, a \in PC :
          /\ p.code[a] \in Instruction /\ p.code[a].target \in PC
          /\ Following(p, a) \in PC
<1>1. HandlerPC \in PC /\ 0 \in PC
  BY CodeAssumption DEF HandlerPC, PC
<1>2. ASSUME NEW p \in Programs, NEW a \in PC
      PROVE  /\ p.code[a] \in Instruction /\ p.code[a].target \in PC
             /\ Following(p, a) \in PC
  <2>1. p.code[a] \in Instruction
    BY CodeAssumption
  <2>2. p.code[a].target \in PC /\ p.code[a].size \in {1, 2}
    BY <2>1 DEF Instruction
  <2>3. p.code[a].size \in -1 .. 2
    BY <2>2
  <2> QED
    BY <2>1, <2>2, <2>3, AdvancePC DEF Following
<1> QED
  BY <1>1, <1>2

LEMMA Constants ==
    /\ SIZE \in Nat \ {0} /\ SPEC_DEPTH \in Nat \ {0} /\ COMMIT_DEPTH \in Nat \ {0}
    /\ FETCH_QUEUE_CAPACITY \in Nat \ {0}
    /\ DcacheSlots \in Nat \ {0} /\ FpuSlots \in Nat \ {0}
    /\ \A k \in {"mul", "div", "hit", "miss", "fpu"} : Latency[k] \in Nat \ {0}
    /\ Latency["hit"] = 1
    /\ Computed \in Tag /\ Zero \in Tag /\ 0 \in Regs
  BY ScoreboardAssumption, PipelineAssumption DEF Tag

LEMMA IdleUnits == Idle \in GoodUnit /\ ~ Idle.busy /\ AllIdle \in [Units -> GoodUnit]
<1>1. Idle \in GoodUnit /\ ~ Idle.busy
  BY Constants DEF Idle, GoodUnit
<1> QED
  BY <1>1 DEF AllIdle

-----------------------------------------------------------------------------
(* The ticks of EX. *)

\* The last unit that completes entry i.
LEMMA CompletingLast ==
    ASSUME NEW i, Completing(i) # {}
    PROVE  LET u == TickOrder[Max(Completing(i))]
           IN  u \in Units /\ fu[u].busy /\ fu[u].remaining = 1 /\ fu[u].trans_id = i
<1> DEFINE T == {"mul", "div", "hit", "miss", "fpu"} \X Nat
<1>1. TickOrder \in Seq(T)
  <2>1. MissSlots \in Seq(T)
    BY Constants DEF MissSlots
  <2>2. FpSlots \in Seq(T)
    BY Constants DEF FpSlots
  <2> QED
    BY <2>1, <2>2 DEF TickOrder, Mul, Div, Hit
<1>2. DOMAIN TickOrder \in SUBSET (0 .. Len(TickOrder)) /\ Len(TickOrder) \in Nat
  BY <1>1
<1>3. Completing(i) \in SUBSET (0 .. Len(TickOrder))
  BY <1>2 DEF Completing
<1>4. Max(Completing(i)) \in Completing(i)
  BY <1>2, <1>3, MaxIsGreatest
<1> QED
  BY <1>4 DEF Completing, Done, Units

LEMMA TicksBoard ==
    ASSUME BackTypes
    PROVE  LET s == TickedScoreboard
           IN  /\ GoodBoard(s, Tag, PC)
               /\ s.entries = [i \in 0 .. SIZE - 1 |-> TickedEntry(i)]
               /\ s.head = scoreboard.head /\ s.tail = scoreboard.tail
               /\ s.count = scoreboard.count
               /\ s.rd_clobber = scoreboard.rd_clobber /\ s.fp_clobber = scoreboard.fp_clobber
               /\ \A i : InFlight(s, i) <=> InFlight(scoreboard, i)
<1> DEFINE s == TickedScoreboard
           e == [i \in 0 .. SIZE - 1 |-> TickedEntry(i)]
<1>0. /\ GoodBoard(scoreboard, Tag, PC) /\ scoreboard \in Board(Tag, PC)
      /\ fu \in [Units -> GoodUnit]
  BY DEF BackTypes, GoodBoard
<1>1. scoreboard.entries \in [0 .. SIZE - 1 -> BoardEntry(Tag, PC)] /\ SIZE \in Nat
  BY <1>0, BoardMembers
<1>2. ASSUME NEW i \in 0 .. SIZE - 1
      PROVE  TickedEntry(i) \in BoardEntry(Tag, PC)
             /\ TickedEntry(i).valid = scoreboard.entries[i].valid
  <2>0. scoreboard.entries[i] \in BoardEntry(Tag, PC)
    BY <1>1
  <2>1. CASE Completing(i) = {}
    BY <2>0, <2>1 DEF TickedEntry
  <2>2. CASE Completing(i) # {}
    <3> DEFINE r == fu[TickOrder[Max(Completing(i))]].result
    <3>1. r \in Tag
      <4>1. TickOrder[Max(Completing(i))] \in Units
        BY <2>2, CompletingLast
      <4> QED
        BY <1>0, <4>1 DEF GoodUnit
    <3>2. TickedEntry(i) = [scoreboard.entries[i] EXCEPT !.ready = TRUE, !.rd = 0, !.result = r]
      BY <2>2 DEF TickedEntry
    <3> HIDE DEF r
    <3> QED
      BY <2>0, <3>1, <3>2, Constants DEF BoardEntry
  <2> QED
    BY <2>1, <2>2
<1>3. e \in [0 .. SIZE - 1 -> BoardEntry(Tag, PC)]
      /\ \A i \in 0 .. SIZE - 1 : e[i].valid = scoreboard.entries[i].valid
  BY <1>2
<1>4. s = [scoreboard EXCEPT !.entries = e]
  BY DEF TickedScoreboard
<1> HIDE DEF e
<1>5. /\ s \in Board(Tag, PC) /\ s.entries = e
      /\ s.head = scoreboard.head /\ s.tail = scoreboard.tail /\ s.count = scoreboard.count
      /\ s.rd_clobber = scoreboard.rd_clobber /\ s.fp_clobber = scoreboard.fp_clobber
  BY <1>0, <1>3, <1>4 DEF Board
<1> HIDE DEF s
<1>6. ScoreboardCoherent(s)
  BY <1>0, <1>3, <1>5 DEF GoodBoard, ScoreboardCoherent, Coherent
<1>7. GoodBoard(s, Tag, PC) /\ \A i : InFlight(s, i) <=> InFlight(scoreboard, i)
  BY <1>0, <1>5, <1>6 DEF GoodBoard, InFlight
<1> QED
  BY <1>5, <1>7 DEF s, e

LEMMA TicksUnits ==
    ASSUME fu \in [Units -> GoodUnit]
    PROVE  /\ TickedUnits \in [Units -> GoodUnit]
           /\ \A u \in Units :
                 TickedUnits[u].busy =>
                    /\ fu[u].busy /\ fu[u].remaining > 1
                    /\ TickedUnits[u].trans_id = fu[u].trans_id
                    /\ TickedUnits[u].result = fu[u].result
<1>1. ASSUME NEW u \in Units
      PROVE  /\ TickedUnits[u] \in GoodUnit
             /\ TickedUnits[u].busy =>
                    /\ fu[u].busy /\ fu[u].remaining > 1
                    /\ TickedUnits[u].trans_id = fu[u].trans_id
                    /\ TickedUnits[u].result = fu[u].result
  <2>0. fu[u] \in GoodUnit
    OBVIOUS
  <2>1. CASE Done(u)
    BY <2>1, IdleUnits DEF TickedUnits
  <2>2. CASE ~ fu[u].busy
    BY <2>0, <2>2 DEF TickedUnits, Done
  <2>3. CASE fu[u].busy /\ ~ Done(u)
    <3>1. TickedUnits[u] = [fu[u] EXCEPT !.remaining = fu[u].remaining - 1]
      BY <2>3 DEF TickedUnits
    <3>2. fu[u].remaining \in Nat /\ fu[u].remaining > 1 /\ fu[u].remaining - 1 \in Nat
          /\ fu[u].remaining - 1 > 0
      BY <2>0, <2>3 DEF Done, GoodUnit
    <3> QED
      BY <2>0, <2>3, <3>1, <3>2 DEF GoodUnit
  <2> QED
    BY <2>1, <2>2, <2>3
<1> QED
  BY <1>1 DEF TickedUnits

-----------------------------------------------------------------------------
(* The units. *)

LEMMA UnitNames ==
    /\ Mul \in Units /\ Div \in Units /\ Hit \in Units
    /\ \A k \in 1 .. DcacheSlots : <<"miss", k>> \in Units
    /\ \A k \in 1 .. FpuSlots : <<"fpu", k>> \in Units
<1> DEFINE T == {"mul", "div", "hit", "miss", "fpu"} \X Nat
           A == <<Mul, Div>>
           B == <<Hit>>
           X == A \o MissSlots
           Y == X \o B
           Z == Y \o FpSlots
<1>1. /\ DcacheSlots \in Nat /\ FpuSlots \in Nat
      /\ MissSlots \in Seq(T) /\ Len(MissSlots) = DcacheSlots
      /\ FpSlots \in Seq(T) /\ Len(FpSlots) = FpuSlots
  BY Constants DEF MissSlots, FpSlots
<1>2. A \in Seq(T) /\ Len(A) = 2 /\ B \in Seq(T) /\ Len(B) = 1
  BY DEF Mul, Div, Hit
<1>3. TickOrder = Z
  BY DEF TickOrder
<1>4. /\ A[1] = Mul /\ A[2] = Div /\ B[1] = Hit
      /\ \A k \in 1 .. DcacheSlots : MissSlots[k] = <<"miss", k>>
      /\ \A k \in 1 .. FpuSlots : FpSlots[k] = <<"fpu", k>>
  BY DEF MissSlots, FpSlots
<1> HIDE DEF A, B, X, Y, Z, T
<1>5. /\ X \in Seq(T) /\ Len(X) = 2 + DcacheSlots
      /\ X[1] = Mul /\ X[2] = Div /\ \A k \in 1 .. DcacheSlots : X[k + 2] = MissSlots[k]
  <2>1. /\ X \in Seq(T) /\ Len(X) = Len(A) + Len(MissSlots)
        /\ \A k \in 1 .. Len(A) + Len(MissSlots) :
              X[k] = IF k <= Len(A) THEN A[k] ELSE MissSlots[k - Len(A)]
    BY <1>1, <1>2, ConcatProperties, Zenon DEF X
  <2>2. X[1] = Mul /\ X[2] = Div
    BY <1>1, <1>2, <1>4, <2>1
  <2>3. ASSUME NEW k \in 1 .. DcacheSlots PROVE X[k + 2] = MissSlots[k]
    BY <1>1, <1>2, <2>1
  <2> QED
    BY <1>1, <1>2, <2>1, <2>2, <2>3
<1>6. /\ Y \in Seq(T) /\ Len(Y) = 3 + DcacheSlots
      /\ \A k \in 1 .. 2 + DcacheSlots : Y[k] = X[k]
      /\ Y[3 + DcacheSlots] = Hit
  <2>1. /\ Y \in Seq(T) /\ Len(Y) = Len(X) + Len(B)
        /\ \A k \in 1 .. Len(X) + Len(B) : Y[k] = IF k <= Len(X) THEN X[k] ELSE B[k - Len(X)]
    BY <1>2, <1>5, ConcatProperties, Zenon DEF Y
  <2> QED
    BY <1>1, <1>2, <1>4, <1>5, <2>1
<1>7. /\ TickOrder \in Seq(T) /\ Len(TickOrder) = 3 + DcacheSlots + FpuSlots
      /\ \A k \in 1 .. 3 + DcacheSlots : TickOrder[k] = Y[k]
      /\ \A k \in 1 .. FpuSlots : TickOrder[k + (3 + DcacheSlots)] = FpSlots[k]
  <2>0. /\ Z \in Seq(T) /\ Len(Z) = Len(Y) + Len(FpSlots)
        /\ \A k \in 1 .. Len(Y) + Len(FpSlots) :
              Z[k] = IF k <= Len(Y) THEN Y[k] ELSE FpSlots[k - Len(Y)]
    BY <1>1, <1>6, ConcatProperties, Zenon DEF Z
  <2>1. /\ TickOrder \in Seq(T) /\ Len(TickOrder) = Len(Y) + Len(FpSlots)
        /\ \A k \in 1 .. Len(Y) + Len(FpSlots) :
              TickOrder[k] = IF k <= Len(Y) THEN Y[k] ELSE FpSlots[k - Len(Y)]
    BY <1>3, <2>0
  <2>2. ASSUME NEW k \in 1 .. FpuSlots PROVE TickOrder[k + (3 + DcacheSlots)] = FpSlots[k]
    BY <1>1, <1>6, <2>1
  <2> QED
    BY <1>1, <1>6, <2>1, <2>2
<1>8. DOMAIN TickOrder = 1 .. 3 + DcacheSlots + FpuSlots
  BY <1>7
<1>9. Mul \in Units /\ Div \in Units /\ Hit \in Units
  <2>1. TickOrder[1] = Mul /\ TickOrder[2] = Div /\ TickOrder[3 + DcacheSlots] = Hit
    BY <1>1, <1>5, <1>6, <1>7
  <2>2. {1, 2, 3 + DcacheSlots} \subseteq DOMAIN TickOrder
    BY <1>1, <1>8
  <2> QED
    BY <2>1, <2>2 DEF Units
<1>10. ASSUME NEW k \in 1 .. DcacheSlots PROVE <<"miss", k>> \in Units
  <2>1. k + 2 \in 1 .. 2 + DcacheSlots /\ k + 2 \in 1 .. 3 + DcacheSlots
        /\ k + 2 \in DOMAIN TickOrder
    BY <1>1, <1>8
  <2>2. TickOrder[k + 2] = <<"miss", k>>
    BY <1>4, <1>5, <1>6, <1>7, <2>1
  <2> QED
    BY <2>1, <2>2 DEF Units
<1>11. ASSUME NEW k \in 1 .. FpuSlots PROVE <<"fpu", k>> \in Units
  <2>1. k + (3 + DcacheSlots) \in DOMAIN TickOrder
    BY <1>1, <1>8
  <2>2. TickOrder[k + (3 + DcacheSlots)] = <<"fpu", k>>
    BY <1>4, <1>7
  <2> QED
    BY <2>1, <2>2 DEF Units
<1> QED
  BY <1>9, <1>10, <1>11

\* A unit that is free for an instruction of a kind.
FreeUnit(f, kind) ==
    /\ kind = "MUL" => ~ f[Mul].busy
    /\ kind = "DIV" => ~ f[Div].busy
    /\ kind = "FP" => \E k \in 1 .. FpuSlots : ~ f[<<"fpu", k>>].busy
    /\ kind = "LOAD" => /\ ~ f[Hit].busy
                        /\ \E k \in 1 .. DcacheSlots : ~ f[<<"miss", k>>].busy

LEMMA FreeSlotIsUnit ==
    ASSUME NEW f, NEW unit, NEW slots \in Nat \ {0},
           \A k \in 1 .. slots : <<unit, k>> \in Units
    PROVE  /\ FreeSlot(f, unit, slots) \in Units
           /\ \E k \in 1 .. slots : FreeSlot(f, unit, slots) = <<unit, k>>
           /\ (\E k \in 1 .. slots : ~ f[<<unit, k>>].busy)
                 => ~ f[FreeSlot(f, unit, slots)].busy
<1> DEFINE free == {k \in 1 .. slots : ~ f[<<unit, k>>].busy}
<1>1. FreeSlot(f, unit, slots) = IF free = {} THEN <<unit, 1>> ELSE <<unit, First(free)>>
  BY DEF FreeSlot
<1>2. free # {} => First(free) \in free
  <2>1. free \in SUBSET Nat
    OBVIOUS
  <2> HIDE DEF free
  <2> QED
    BY <2>1, FirstIsLeast
<1>3. CASE free = {}
  <2>1. 1 \in 1 .. slots /\ FreeSlot(f, unit, slots) = <<unit, 1>>
    BY <1>1, <1>3
  <2> QED
    BY <1>3, <2>1
<1>4. CASE free # {}
  <2> DEFINE m == First(free)
  <2>1. m \in 1 .. slots /\ ~ f[<<unit, m>>].busy /\ FreeSlot(f, unit, slots) = <<unit, m>>
    BY <1>1, <1>2, <1>4
  <2> HIDE DEF m
  <2> QED
    BY <2>1
<1> QED
  BY <1>3, <1>4

-----------------------------------------------------------------------------
(* What EX does to the entry of its instruction. *)

\* The board t is s but for entry b.
Kept(s, t, b) ==
    /\ GoodBoard(t, Tag, PC)
    /\ t.head = s.head /\ t.tail = s.tail /\ t.count = s.count
    /\ \A i \in 0 .. SIZE - 1 : i # b => t.entries[i] = s.entries[i]
    /\ t.entries[b].is_store = s.entries[b].is_store /\ t.entries[b].pc = s.entries[b].pc
Untouched(s, t, b) ==
    /\ Kept(s, t, b)
    /\ t.entries[b].ready = s.entries[b].ready /\ t.entries[b].result = s.entries[b].result
Finished(s, t, b) ==
    Kept(s, t, b) /\ t.entries[b].ready /\ t.entries[b].result = Computed

LEMMA ResolveKeeps ==
    ASSUME NEW s, GoodBoard(s, Tag, PC), issue_ex_reg \in ExInstr, NEW a \in PC
    PROVE  /\ Untouched(s, Resolve(s, a), issue_ex_reg.rob_index)
           /\ Finished(s, Complete(s, a), issue_ex_reg.rob_index)
<1> DEFINE b == issue_ex_reg.rob_index
           e == s.entries
           n == [e[b] EXCEPT !.next = a]
           x == [e EXCEPT ![b] = n]
           t == Resolve(s, a)
<1>0. s \in Board(Tag, PC) /\ ScoreboardCoherent(s) /\ b \in 0 .. SIZE - 1
  BY DEF GoodBoard, ExInstr
<1>1. e \in [0 .. SIZE - 1 -> BoardEntry(Tag, PC)] /\ e[b] \in BoardEntry(Tag, PC)
  BY <1>0, BoardMembers
<1>2. /\ n \in BoardEntry(Tag, PC) /\ n.valid = e[b].valid
      /\ n.ready = e[b].ready /\ n.result = e[b].result /\ n.is_store = e[b].is_store
      /\ n.pc = e[b].pc
  BY <1>1 DEF BoardEntry
<1>3. t = [s EXCEPT !.entries = x]
  BY <1>0, <1>1 DEF Resolve, Board, BoardEntry
<1> HIDE DEF b, n
<1>4. /\ x \in [0 .. SIZE - 1 -> BoardEntry(Tag, PC)] /\ x[b] = n
      /\ \A i \in 0 .. SIZE - 1 : i # b => x[i] = e[i]
      /\ \A i \in 0 .. SIZE - 1 : x[i].valid = e[i].valid
  BY <1>0, <1>1, <1>2
<1> HIDE DEF x
<1>5. /\ t \in Board(Tag, PC) /\ t.entries = x
      /\ t.head = s.head /\ t.tail = s.tail /\ t.count = s.count
  BY <1>0, <1>3, <1>4 DEF Board
<1>6. Complete(s, a) = complete(t, b, Computed, 0)
  BY DEF Complete, b
<1> HIDE DEF t, e
<1>7. GoodBoard(t, Tag, PC)
  <2>1. ScoreboardCoherent(t)
    BY <1>0, <1>4, <1>5 DEF ScoreboardCoherent, Coherent, e
  <2> QED
    BY <1>5, <2>1 DEF GoodBoard
<1>8. Untouched(s, t, b)
  BY <1>2, <1>4, <1>5, <1>7 DEF Untouched, Kept, e
<1> DEFINE c == complete(t, b, Computed, 0)
           y == CompletedEntry(t.entries[b], Computed, 0)
<1>9. /\ GoodBoard(c, Tag, PC) /\ c.entries = [t.entries EXCEPT ![b] = y]
      /\ c.head = t.head /\ c.tail = t.tail /\ c.count = t.count
  <2>1. Computed \in Tag /\ 0 \in Regs
    BY Constants
  <2> QED
    BY <1>0, <1>7, <2>1, CompleteGood
<1>10. /\ y.ready /\ y.result = Computed
       /\ y.is_store = t.entries[b].is_store /\ y.pc = t.entries[b].pc
  <2>1. t.entries[b] \in BoardEntry(Tag, PC)
    BY <1>0, <1>4, <1>5
  <2> QED
    BY <2>1 DEF BoardEntry, CompletedEntry
<1> HIDE DEF c, y
<1>11. c.entries[b] = y /\ \A i \in 0 .. SIZE - 1 : i # b => c.entries[i] = t.entries[i]
  BY <1>0, <1>4, <1>5, <1>9
<1>12. Finished(s, c, b)
  BY <1>2, <1>4, <1>5, <1>9, <1>10, <1>11 DEF Finished, Kept, e
<1> QED
  BY <1>6, <1>8, <1>12 DEF b, t, c

LEMMA StartGood ==
    ASSUME NEW f \in [Units -> GoodUnit], issue_ex_reg \in ExInstr,
           NEW u, NEW c \in Nat \ {0}, NEW r \in Tag
    PROVE  Start(f, u, c, r) \in [Units -> GoodUnit]
<1> DEFINE x == [busy |-> TRUE, remaining |-> c, result |-> r,
                 trans_id |-> issue_ex_reg.rob_index]
<1>1. x \in GoodUnit
  <2>1. issue_ex_reg.rob_index \in 0 .. SIZE - 1 /\ issue_ex_reg.rob_index \in -1 .. SIZE - 1
    BY Constants DEF ExInstr
  <2> QED
    BY <2>1 DEF GoodUnit
<1>2. Start(f, u, c, r) = [f EXCEPT ![u] = x]
  BY DEF Start
<1> HIDE DEF x
<1> QED
  BY <1>1, <1>2

-----------------------------------------------------------------------------
(* The outcomes of EX for the instruction in its latch, given the scoreboard *)
(* s and the units f after the ticks.                                        *)

ExContext(s, f) ==
    /\ FrontTypes /\ BackTypes
    /\ issue_ex_reg \in ExInstr
    /\ GoodBoard(s, Tag, PC) /\ f \in [Units -> GoodUnit]
    /\ s.tail = (issue_ex_reg.rob_index + 1) % SIZE

\* A DTLB walk starts a miss slot with a placeholder and the store buffer then
\* sends the load back.
WalkPossible ==
    KindAt(issue_ex_reg.pc) = "LOAD" /\ "dtlb" \in program.events /\ ~ buffer_empty

ExReplays(s, f) ==
    /\ stall_ex' /\ flush_pipeline' = flush_pipeline
    /\ scoreboard' = s
    /\ spec_stores' = spec_stores /\ committed_stores' = committed_stores
    /\ fu' = f \/ (WalkPossible /\ fu' \in [Units -> GoodUnit])
    /\ applied' = applied

ExTraps(s) ==
    /\ ~ stall_ex' /\ flush_pipeline'
    /\ scoreboard' = flush(s)
    /\ fu' = AllIdle
    /\ spec_stores' = <<>> /\ committed_stores' = 0
    /\ applied' = applied /\ ~ has_unready_older(s)

\* A store enters the buffer, which has a slot for it; a mispredicted branch
\* drops the stores whose entries are gone.
StoresEntered(s) ==
    IF KindAt(issue_ex_reg.pc) = "STORE"
    THEN spec_stores' = IF Len(spec_stores) = SPEC_DEPTH THEN spec_stores
                        ELSE Append(spec_stores, issue_ex_reg.rob_index)
    ELSE spec_stores' = spec_stores \/ spec_stores' = StoresKept(s)

ExFinishes(s, f) ==
    /\ ~ stall_ex'
    /\ Finished(s, scoreboard', issue_ex_reg.rob_index)
    /\ fu' \in [Units -> GoodUnit]
    /\ \A u \in Units :
          \/ fu'[u] = f[u]
          \/ fu'[u] = Idle /\ f[u].busy /\ ~ s.entries[f[u].trans_id].valid
    /\ spec_stores' \in Seq(0 .. SIZE - 1) /\ Len(spec_stores') <= SPEC_DEPTH
    /\ KindAt(issue_ex_reg.pc) # "STORE" /\ spec_stores = <<>> => spec_stores' = <<>>
    /\ StoresEntered(s)
    /\ committed_stores' = committed_stores

\* A unit gets the instruction; a busy load_hit_fu swallows it.
UnitStarts(f) ==
    \/ KindAt(issue_ex_reg.pc) = "LOAD" /\ f[Hit].busy /\ fu' = f
    \/ \E u \in Units, c \in Nat \ {0} :
          /\ fu' = Start(f, u, c, Computed)
          /\ u = Hit => c = 1
          /\ FreeUnit(f, KindAt(issue_ex_reg.pc)) => ~ f[u].busy

ExStarts(s, f) ==
    /\ ~ stall_ex' /\ flush_pipeline' = flush_pipeline
    /\ KindAt(issue_ex_reg.pc) # "STORE"
    /\ Untouched(s, scoreboard', issue_ex_reg.rob_index)
    /\ fu' \in [Units -> GoodUnit]
    /\ WalkPossible \/ UnitStarts(f)
    /\ spec_stores' = spec_stores /\ committed_stores' = committed_stores

ExOutcome(s, f) ==
    /\ pc_redirect_target' \in PC /\ mepc' \in PC
    /\ ExReplays(s, f) \/ ExTraps(s) \/ ExFinishes(s, f) \/ ExStarts(s, f)

LEMMA ExAddresses ==
    ASSUME NEW s, NEW f, ExContext(s, f)
    PROVE  /\ issue_ex_reg.pc \in PC /\ Following(program, issue_ex_reg.pc) \in PC
           /\ program.code[issue_ex_reg.pc].target \in PC
           /\ Advance(program, issue_ex_reg.pc, 2) \in PC
           /\ mepc \in PC /\ HandlerPC \in PC /\ pc_redirect_target \in PC
<1>1. issue_ex_reg.pc \in PC /\ program \in Programs /\ 2 \in -1 .. 2
  BY DEF ExContext, ExInstr, FrontTypes
<1>2. mepc \in PC /\ pc_redirect_target \in PC
  BY DEF ExContext, FrontTypes
<1> QED
  BY <1>1, <1>2, CodeAddresses, AdvancePC

LEMMA ExTrapOutcome ==
    ASSUME NEW s, NEW f, ExContext(s, f), ExTrap(s, f)
    PROVE  ExOutcome(s, f)
<1>1. CASE Replay(s, f)
  BY <1>1, ExAddresses DEF Replay, ExOutcome, ExReplays, flushVars, trapVars, historyVars
<1>2. CASE TakeException(s) /\ ~ has_unready_older(s)
  BY <1>2, ExAddresses DEF TakeException, ExOutcome, ExTraps
<1> QED
  BY <1>1, <1>2 DEF ExTrap

\* What the instructions that complete their entry at once have in common.
LEMMA ExFinished ==
    ASSUME NEW s, NEW f, ExContext(s, f), NEW a \in PC,
           scoreboard' = Complete(s, a), fu' = f, spec_stores' = spec_stores,
           committed_stores' = committed_stores, ~ stall_ex',
           KindAt(issue_ex_reg.pc) # "STORE"
    PROVE  ExFinishes(s, f)
<1>1. Finished(s, scoreboard', issue_ex_reg.rob_index)
  BY ResolveKeeps DEF ExContext
<1> QED
  BY <1>1 DEF ExFinishes, ExContext, BackTypes, StoresEntered

LEMMA ExShortOutcome ==
    ASSUME NEW s, NEW f, ExContext(s, f), KindAt(issue_ex_reg.pc) # "STORE",
           \/ ExAlu(s, f) \/ ExAtomic(s, f) \/ ExCsr(s, f) \/ ExMret(s, f)
           \/ ExRefused(s, f)
           \/ \E sleeps \in BOOLEAN : ExRestart(s, f, sleeps)
    PROVE  ExOutcome(s, f)
<1> DEFINE a == Following(program, issue_ex_reg.pc)
<1>0. a \in PC /\ mepc \in PC
  BY ExAddresses
<1>1. CASE ExAlu(s, f)
  <2>1. ExFinishes(s, f)
    BY <1>0, <1>1, ExFinished DEF ExAlu, Proceed
  <2> QED
    BY <1>1, <2>1, ExAddresses DEF ExAlu, Proceed, ExOutcome, flushVars, trapVars
<1>2. CASE ExAtomic(s, f)
  <2>1. ExFinishes(s, f)
    BY <1>0, <1>2, ExFinished DEF ExAtomic, Proceed
  <2> QED
    BY <1>2, <2>1, ExAddresses DEF ExAtomic, Proceed, ExOutcome, flushVars, trapVars
<1>3. CASE ExCsr(s, f)
  <2>1. ExFinishes(s, f)
    BY <1>0, <1>3, ExFinished DEF ExCsr
  <2> QED
    BY <1>3, <2>1, ExAddresses DEF ExCsr, ExOutcome, flushVars, trapVars
<1>4. CASE ExMret(s, f)
  <2>1. ExFinishes(s, f)
    BY <1>0, <1>4, ExFinished DEF ExMret
  <2> QED
    BY <1>4, <2>1, ExAddresses DEF ExMret, RedirectTo, ExOutcome
<1>5. CASE \E sleeps \in BOOLEAN : ExRestart(s, f, sleeps)
  <2>1. ExFinishes(s, f)
    BY <1>0, <1>5, ExFinished DEF ExRestart
  <2> QED
    BY <1>5, <2>1, ExAddresses DEF ExRestart, RedirectTo, ExOutcome, trapVars
<1>6. CASE ExRefused(s, f)
  <2>0. HandlerPC \in PC
    BY ExAddresses
  <2>1. ExFinishes(s, f)
    BY <1>6, <2>0, ExFinished DEF ExRefused
  <2> QED
    BY <1>6, <2>0, <2>1, ExAddresses DEF ExRefused, RedirectTo, ExOutcome
<1> QED
  BY <1>1, <1>2, <1>3, <1>4, <1>5, <1>6

LEMMA ExStoreOutcome ==
    ASSUME NEW s, NEW f, ExContext(s, f), ExStore(s, f), KindAt(issue_ex_reg.pc) = "STORE"
    PROVE  ExOutcome(s, f)
<1> DEFINE b == issue_ex_reg.rob_index
<1>1. Finished(s, scoreboard', b)
  BY ExAddresses, ResolveKeeps DEF ExContext, ExStore
<1>2. spec_stores' \in Seq(0 .. SIZE - 1) /\ Len(spec_stores') <= SPEC_DEPTH
  <2>1. /\ spec_stores \in Seq(0 .. SIZE - 1) /\ Len(spec_stores) <= SPEC_DEPTH
        /\ b \in 0 .. SIZE - 1 /\ SPEC_DEPTH \in Nat
    BY Constants DEF ExContext, BackTypes, ExInstr
  <2>2. spec_stores' = IF Len(spec_stores) = SPEC_DEPTH THEN spec_stores
                       ELSE Append(spec_stores, b)
    BY DEF ExStore
  <2> HIDE DEF b
  <2>3. /\ Append(spec_stores, b) \in Seq(0 .. SIZE - 1)
        /\ Len(Append(spec_stores, b)) = Len(spec_stores) + 1
    BY <2>1, AppendProperties, Zenon
  <2>4. Len(spec_stores) \in Nat
    BY <2>1
  <2>5. CASE Len(spec_stores) = SPEC_DEPTH
    BY <2>1, <2>2, <2>5
  <2>6. CASE Len(spec_stores) # SPEC_DEPTH
    <3>1. spec_stores' = Append(spec_stores, b) /\ Len(spec_stores) + 1 <= SPEC_DEPTH
      BY <2>1, <2>2, <2>4, <2>6
    <3> QED
      BY <2>3, <3>1, Zenon
  <2> QED
    BY <2>5, <2>6
<1>3. ExFinishes(s, f)
  BY <1>1, <1>2 DEF ExFinishes, StoresEntered, ExContext, ExStore, Proceed
<1> QED
  BY <1>3, ExAddresses DEF ExStore, Proceed, ExOutcome, flushVars, trapVars

LEMMA ExLongOutcome ==
    ASSUME NEW s, NEW f, ExContext(s, f),
           \/ KindAt(issue_ex_reg.pc) = "MUL" /\ ExLong(s, f, Mul)
           \/ KindAt(issue_ex_reg.pc) = "DIV" /\ ExLong(s, f, Div)
           \/ KindAt(issue_ex_reg.pc) = "FP" /\ ExFp(s, f)
    PROVE  ExOutcome(s, f)
<1>0. /\ f \in [Units -> GoodUnit] /\ issue_ex_reg \in ExInstr
      /\ Computed \in Tag
  BY Constants DEF ExContext
<1>1. PICK u \in Units, c \in Nat \ {0} :
         /\ fu' = Start(f, u, c, Computed)
         /\ u # Hit
         /\ FreeUnit(f, KindAt(issue_ex_reg.pc)) => ~ f[u].busy
  <2>1. CASE KindAt(issue_ex_reg.pc) = "MUL" /\ ExLong(s, f, Mul)
    <3>1. /\ Mul \in Units /\ Latency[Mul[1]] \in Nat \ {0} /\ Mul # Hit
          /\ FreeUnit(f, "MUL") => ~ f[Mul].busy
      BY Constants, UnitNames DEF Mul, Hit, FreeUnit
    <3> QED
      BY <2>1, <3>1 DEF ExLong
  <2>2. CASE KindAt(issue_ex_reg.pc) = "DIV" /\ ExLong(s, f, Div)
    <3>1. /\ Div \in Units /\ Latency[Div[1]] \in Nat \ {0} /\ Div # Hit
          /\ FreeUnit(f, "DIV") => ~ f[Div].busy
      BY Constants, UnitNames DEF Div, Hit, FreeUnit
    <3> QED
      BY <2>2, <3>1 DEF ExLong
  <2>3. CASE KindAt(issue_ex_reg.pc) = "FP" /\ ExFp(s, f)
    <3> DEFINE v == FreeSlot(f, "fpu", FpuSlots)
    <3>1. /\ v \in Units
          /\ \E k \in 1 .. FpuSlots : v = <<"fpu", k>>
          /\ (\E k \in 1 .. FpuSlots : ~ f[<<"fpu", k>>].busy) => ~ f[v].busy
      BY Constants, UnitNames, FreeSlotIsUnit
    <3>2. fu' = Start(f, v, Latency["fpu"], Computed)
      BY <2>3 DEF ExFp
    <3> HIDE DEF v
    <3>3. v # Hit /\ Latency["fpu"] \in Nat \ {0}
      BY <3>1, Constants DEF Hit
    <3>4. FreeUnit(f, "FP") => ~ f[v].busy
      BY <3>1 DEF FreeUnit
    <3> QED
      BY <2>3, <3>1, <3>2, <3>3, <3>4
  <2> QED
    BY <2>1, <2>2, <2>3
<1>2. fu' \in [Units -> GoodUnit]
  BY <1>0, <1>1, StartGood
<1>3. UnitStarts(f)
  BY <1>1 DEF UnitStarts
<1>4. Untouched(s, scoreboard', issue_ex_reg.rob_index)
  BY ExAddresses, ResolveKeeps DEF ExContext, ExLong, ExFp
<1>5. ExStarts(s, f)
  BY <1>2, <1>3, <1>4 DEF ExStarts, ExLong, ExFp, Proceed, flushVars
<1> QED
  BY <1>5, ExAddresses DEF ExLong, ExFp, Proceed, ExOutcome, flushVars, trapVars

LEMMA ExBranchOutcome ==
    ASSUME NEW s, NEW f, ExContext(s, f), ExBranch(s, f), KindAt(issue_ex_reg.pc) = "BRANCH"
    PROVE  ExOutcome(s, f)
<1> DEFINE b == issue_ex_reg.rob_index
<1>1. PICK t \in PC :
         /\ \/ /\ scoreboard' = Complete(s, t)
               /\ fu' = f
               /\ UNCHANGED <<flushVars, spec_stores>>
            \/ /\ scoreboard' = Complete(flush_speculative(s, b), t)
               /\ fu' = CancelFlushed(flush_speculative(s, b), f)
               /\ spec_stores' = StoresKept(flush_speculative(s, b))
               /\ RedirectTo(t)
         /\ stall_ex' = FALSE
         /\ UNCHANGED <<committed_stores, wfi_stall, trapVars, historyVars>>
  BY ExAddresses DEF ExBranch
<1>2. flush_speculative(s, b) = s
  BY FlushSpeculativeYoungest DEF ExContext
<1>3. mepc' \in PC /\ committed_stores' = committed_stores /\ ~ stall_ex'
  BY <1>1, ExAddresses DEF trapVars
<1>4. Finished(s, scoreboard', b)
  BY <1>1, <1>2, ResolveKeeps DEF ExContext
<1>5. CASE fu' = f /\ UNCHANGED <<flushVars, spec_stores>>
  BY <1>3, <1>4, <1>5, ExAddresses
     DEF ExFinishes, StoresEntered, ExContext, BackTypes, ExOutcome, flushVars
<1>6. CASE fu' = CancelFlushed(s, f) /\ spec_stores' = StoresKept(s) /\ RedirectTo(t)
  <2>1. /\ fu' \in [Units -> GoodUnit]
        /\ \A u \in Units :
              \/ fu'[u] = f[u]
              \/ fu'[u] = Idle /\ f[u].busy /\ ~ s.entries[f[u].trans_id].valid
    BY <1>6, IdleUnits DEF CancelFlushed, ExContext
  <2>2. /\ spec_stores' \in Seq(0 .. SIZE - 1) /\ Len(spec_stores') <= SPEC_DEPTH
        /\ spec_stores = <<>> => spec_stores' = <<>>
    <3> DEFINE S == {0} \cup {k \in DOMAIN spec_stores : s.entries[spec_stores[k]].valid}
               n == Len(spec_stores)
               m == Max(S)
    <3>1. spec_stores \in Seq(0 .. SIZE - 1) /\ n \in Nat /\ n <= SPEC_DEPTH /\ SPEC_DEPTH \in Nat
      BY Constants DEF ExContext, BackTypes
    <3>2. S \in SUBSET (0 .. n) /\ S # {}
      BY <3>1
    <3> HIDE DEF S, n
    <3>3. m \in 0 .. n
      BY <3>1, <3>2, MaxIsGreatest
    <3>4. spec_stores' = SubSeq(spec_stores, 1, m)
      BY <1>6 DEF StoresKept, S
    <3> HIDE DEF m
    <3>5. \A i \in 1 .. m : spec_stores[i] \in 0 .. SIZE - 1
      <4>1. \A i \in 1 .. n : spec_stores[i] \in 0 .. SIZE - 1
        BY <3>1, ElementOfSeq, Zenon DEF n
      <4>2. \A i \in 1 .. m : i \in 1 .. n
        BY <3>1, <3>3
      <4> QED
        BY <4>1, <4>2, Zenon
    <3>6. /\ spec_stores' \in Seq(0 .. SIZE - 1)
          /\ Len(spec_stores') = IF 1 <= m THEN m - 1 + 1 ELSE 0
      <4>1. m \in Int /\ 1 \in Int
        BY <3>1, <3>3
      <4> QED
        BY <3>4, <3>5, <4>1, SubSeqProperties
    <3>7. Len(spec_stores') <= n
      BY <3>1, <3>3, <3>6
    <3>8. spec_stores = <<>> => spec_stores' = <<>>
      BY <3>1, <3>6, <3>7 DEF n
    <3> QED
      BY <3>1, <3>6, <3>7, <3>8
  <2>3. ExFinishes(s, f)
    BY <1>3, <1>4, <1>6, <2>1, <2>2 DEF ExFinishes, StoresEntered
  <2> QED
    BY <1>3, <1>6, <2>3 DEF ExOutcome, RedirectTo
<1> QED
  BY <1>1, <1>2, <1>5, <1>6

LEMMA RetaggedUnit ==
    ASSUME NEW t, NEW n, NEW r, NEW b, NEW q
    PROVE  [[busy |-> t, remaining |-> n, result |-> r, trans_id |-> b] EXCEPT !.result = q]
              = [busy |-> t, remaining |-> n, result |-> q, trans_id |-> b]
  OBVIOUS

LEMMA ExLoadOutcome ==
    ASSUME NEW s, NEW f, ExContext(s, f), ExLoad(s, f), KindAt(issue_ex_reg.pc) = "LOAD"
    PROVE  ExOutcome(s, f)
<1> DEFINE slot == FreeSlot(f, "miss", DcacheSlots)
           n == Latency["miss"]
           z == Start(f, slot, n, Zero)
           G(w) == IF w THEN z ELSE f
           H(g) == IF g[Hit].busy THEN g ELSE Start(g, Hit, Latency["hit"], Computed)
<1>1. PICK walk \in {w \in BOOLEAN : w => ("dtlb" \in program.events /\ ~stall_ex)},
           answer \in IF spec_stores = <<>> /\ committed_stores = 0 THEN {"MISS"}
                      ELSE {"MISS", "HIT", "PARTIAL_OVERLAP"},
           dcache_hit \in BOOLEAN :
         IF answer = "PARTIAL_OVERLAP"
         THEN Replay(s, G(walk))
         ELSE /\ fu' = CASE answer = "HIT" -> H(G(walk))
                         [] answer = "MISS" /\ walk -> [z EXCEPT ![slot].result = Computed]
                         [] answer = "MISS" /\ ~walk ->
                               IF dcache_hit THEN H(f) ELSE Start(f, slot, n, Computed)
              /\ scoreboard' = Resolve(s, Following(program, issue_ex_reg.pc))
              /\ Proceed
              /\ UNCHANGED <<spec_stores, applied>>
  BY DEF ExLoad
<1>2. /\ f \in [Units -> GoodUnit] /\ issue_ex_reg \in ExInstr
      /\ Computed \in Tag /\ Zero \in Tag /\ n \in Nat \ {0} /\ Latency["hit"] = 1
      /\ Hit \in Units
  BY Constants, UnitNames DEF ExContext
<1>3. /\ slot \in Units
      /\ \E k \in 1 .. DcacheSlots : slot = <<"miss", k>>
      /\ (\E k \in 1 .. DcacheSlots : ~ f[<<"miss", k>>].busy) => ~ f[slot].busy
  BY Constants, UnitNames, FreeSlotIsUnit
<1> HIDE DEF slot, n
<1>4. slot # Hit
  BY <1>3 DEF Hit
<1>5. z \in [Units -> GoodUnit]
  BY <1>2, StartGood
<1>6. ASSUME NEW g \in [Units -> GoodUnit] PROVE H(g) \in [Units -> GoodUnit]
  <2>1. 1 \in Nat \ {0}
    OBVIOUS
  <2>2. Start(g, Hit, 1, Computed) \in [Units -> GoodUnit]
    BY <1>2, <2>1, StartGood
  <2> QED
    BY <1>2, <2>2
<1>7. [z EXCEPT ![slot].result = Computed] = Start(f, slot, n, Computed)
  <2> DEFINE b == issue_ex_reg.rob_index
             t == TRUE
             x == [busy |-> t, remaining |-> n, result |-> Zero, trans_id |-> b]
             y == [busy |-> t, remaining |-> n, result |-> Computed, trans_id |-> b]
  <2>1. z = [f EXCEPT ![slot] = x] /\ Start(f, slot, n, Computed) = [f EXCEPT ![slot] = y]
    BY DEF Start
  <2> HIDE DEF t
  <2>2. [x EXCEPT !.result = Computed] = y
    BY RetaggedUnit
  <2> HIDE DEF x, y, z
  <2>3. z[slot] = x
    BY <1>2, <1>3, <2>1
  <2>4. [z EXCEPT ![slot].result = Computed] = [z EXCEPT ![slot] = y]
    BY <2>2, <2>3
  <2> QED
    BY <1>2, <1>3, <2>1, <2>4
<1>8. Start(f, slot, n, Computed) \in [Units -> GoodUnit]
  BY <1>2, StartGood
<1>9. WalkPossible \/ ~ walk \/ answer = "MISS"
  BY <1>1 DEF WalkPossible, buffer_empty
<1> HIDE DEF z
<1>10. CASE answer = "PARTIAL_OVERLAP"
  <2>1. Replay(s, G(walk))
    BY <1>1, <1>10
  <2>2. G(walk) = f \/ (WalkPossible /\ G(walk) \in [Units -> GoodUnit])
    BY <1>5, <1>9, <1>10
  <2> HIDE DEF G
  <2> QED
    BY <2>1, <2>2, ExAddresses DEF Replay, ExOutcome, ExReplays, flushVars, trapVars, historyVars
<1>11. CASE answer # "PARTIAL_OVERLAP"
  <2>1. /\ fu' = CASE answer = "HIT" -> H(G(walk))
                  [] answer = "MISS" /\ walk -> Start(f, slot, n, Computed)
                  [] answer = "MISS" /\ ~walk ->
                        IF dcache_hit THEN H(f) ELSE Start(f, slot, n, Computed)
        /\ scoreboard' = Resolve(s, Following(program, issue_ex_reg.pc))
        /\ Proceed
        /\ UNCHANGED <<spec_stores, applied>>
    BY <1>1, <1>7, <1>11
  <2>2. answer \in {"MISS", "HIT"}
    BY <1>1, <1>11
  <2>3. G(walk) \in [Units -> GoodUnit] /\ (~ walk => G(walk) = f)
    BY <1>2, <1>5
  <2> HIDE DEF G
  <2>4. \/ fu' = H(G(walk)) /\ answer = "HIT"
        \/ fu' = H(f)
        \/ fu' = Start(f, slot, n, Computed)
    BY <2>1, <2>2
  <2>5. fu' \in [Units -> GoodUnit]
    BY <1>2, <1>6, <1>8, <2>3, <2>4
  <2>6. WalkPossible \/ fu' = H(f) \/ fu' = Start(f, slot, n, Computed)
    BY <1>9, <2>3, <2>4
  <2>7. ASSUME fu' = H(f) PROVE UnitStarts(f)
    <3>1. CASE f[Hit].busy
      BY <2>7, <3>1 DEF UnitStarts
    <3>2. CASE ~ f[Hit].busy
      <4>1. fu' = Start(f, Hit, 1, Computed) /\ 1 \in Nat \ {0}
        BY <1>2, <2>7, <3>2
      <4> QED
        BY <1>2, <3>2, <4>1 DEF UnitStarts
    <3> QED
      BY <3>1, <3>2
  <2>8. ASSUME fu' = Start(f, slot, n, Computed) PROVE UnitStarts(f)
    <3>1. FreeUnit(f, KindAt(issue_ex_reg.pc)) => ~ f[slot].busy
      BY <1>3 DEF FreeUnit
    <3> QED
      BY <1>2, <1>3, <1>4, <2>8, <3>1 DEF UnitStarts
  <2>9. WalkPossible \/ UnitStarts(f)
    BY <2>6, <2>7, <2>8
  <2>10. Untouched(s, scoreboard', issue_ex_reg.rob_index)
    BY <2>1, ExAddresses, ResolveKeeps DEF ExContext
  <2>11. ExStarts(s, f)
    BY <2>1, <2>5, <2>9, <2>10 DEF ExStarts, Proceed, flushVars
  <2> QED
    BY <2>1, <2>11, ExAddresses DEF Proceed, ExOutcome, flushVars, trapVars
<1> QED
  BY <1>10, <1>11

LEMMA ExInstructionOutcome ==
    ASSUME NEW s, NEW f, ExContext(s, f), ExInstruction(s, f, KindAt(issue_ex_reg.pc))
    PROVE  ExOutcome(s, f)
<1> DEFINE kind == KindAt(issue_ex_reg.pc)
<1>1. CASE ExTrap(s, f)
  BY <1>1, ExTrapOutcome
<1>2. CASE /\ kind # "STORE"
           /\ \/ ExAlu(s, f) \/ ExAtomic(s, f) \/ ExCsr(s, f) \/ ExMret(s, f)
              \/ ExRefused(s, f) \/ ExRestart(s, f, kind = "WFI")
  <2>1. (kind = "WFI") \in BOOLEAN
    OBVIOUS
  <2> QED
    BY <1>2, <2>1, ExShortOutcome
<1>3. CASE kind = "LOAD" /\ ExLoad(s, f)
  BY <1>3, ExLoadOutcome
<1>4. CASE kind = "STORE" /\ ExStore(s, f)
  BY <1>4, ExStoreOutcome
<1>5. CASE kind = "BRANCH" /\ ExBranch(s, f)
  BY <1>5, ExBranchOutcome
<1>6. CASE \/ kind = "MUL" /\ ExLong(s, f, Mul)
           \/ kind = "DIV" /\ ExLong(s, f, Div)
           \/ kind = "FP" /\ ExFp(s, f)
  BY <1>6, ExLongOutcome
<1> QED
  BY <1>1, <1>2, <1>3, <1>4, <1>5, <1>6 DEF ExInstruction, Forbidden

\* EX with nothing to execute.
ExIdles ==
    /\ issue_ex_reg = Bubble \/ flush_pipeline
    /\ ~ stall_ex' /\ flush_pipeline' = flush_pipeline
    /\ pc_redirect_target' = pc_redirect_target /\ mepc' = mepc
    /\ scoreboard' = TickedScoreboard /\ fu' = TickedUnits
    /\ spec_stores' = spec_stores /\ committed_stores' = committed_stores

LEMMA ExStep ==
    ASSUME FrontTypes, BackTypes, EX_stage,
           issue_ex_reg # Bubble /\ ~ flush_pipeline =>
              scoreboard.tail = (issue_ex_reg.rob_index + 1) % SIZE
    PROVE  \/ ExIdles
           \/ /\ issue_ex_reg \in ExInstr /\ ~ flush_pipeline
              /\ ExOutcome(TickedScoreboard, TickedUnits)
<1>1. CASE issue_ex_reg = Bubble \/ flush_pipeline
  BY <1>1 DEF EX_stage, ExIdles, flushVars, trapVars
<1>2. CASE issue_ex_reg # Bubble /\ ~ flush_pipeline
  <2>1. issue_ex_reg \in ExInstr
    BY <1>2 DEF BackTypes, ExLatch
  <2>2. /\ GoodBoard(TickedScoreboard, Tag, PC)
        /\ TickedScoreboard.tail = (issue_ex_reg.rob_index + 1) % SIZE
    BY <1>2, TicksBoard
  <2>3. TickedUnits \in [Units -> GoodUnit]
    BY TicksUnits DEF BackTypes
  <2>4. ExContext(TickedScoreboard, TickedUnits)
    BY <2>1, <2>2, <2>3 DEF ExContext
  <2>5. ExInstruction(TickedScoreboard, TickedUnits, KindAt(issue_ex_reg.pc))
    BY <1>2 DEF EX_stage
  <2> QED
    BY <1>2, <2>1, <2>4, <2>5, ExInstructionOutcome
<1> QED
  BY <1>1, <1>2

-----------------------------------------------------------------------------
(* The inductive invariant that holds for every program. *)

Early == {"irq", "commit1", "commit2", "ex"}

\* The instruction that Issue has dispatched and EX has not executed.
Pending ==
    IF stage \in Early THEN IF flush_pipeline THEN Bubble ELSE issue_ex_reg
    ELSE IF stage = "latch" /\ prev_cycle_flush THEN Bubble
    ELSE IF stall_ex THEN issue_ex_reg
    ELSE IF stage = "issue" THEN Bubble ELSE issue_ex_next

\* A flush ends with the cycle; Issue drains the scoreboard for the illegal
\* instruction in its latch only, with nothing on the way to EX.
FlushEnds ==
    /\ stage \in {"latch", "irq"} => ~ flush_pipeline
    /\ stage = "drain" => ~ stall_ex /\ issue_ex_next = Bubble /\ id_issue_reg # Bubble

\* What was dispatched last is the youngest entry.
TailFollows ==
    Pending # Bubble => scoreboard.tail = (Pending.rob_index + 1) % SIZE

\* What EX would execute, whether a flush cancels it or not.
Upcoming == IF stage \in Early THEN issue_ex_reg ELSE Pending

\* The buffer stays empty while an atomic waits for EX.
AtomicsWait ==
    Upcoming # Bubble /\ KindAt(Upcoming.pc) = "AMO" => buffer_empty

Base == FrontTypes /\ BackTypes /\ FlushEnds /\ TailFollows /\ AtomicsWait

\* A step that leaves the tail alone and sends nothing new to EX.
LEMMA NothingNew ==
    ASSUME Base, program' = program,
           Pending' \in {Bubble, Pending},
           Pending' # Bubble => scoreboard'.tail = scoreboard.tail,
           Upcoming' \in {Bubble, Upcoming},
           buffer_empty => buffer_empty'
    PROVE  TailFollows' /\ AtomicsWait'
  BY DEF Base, TailFollows, AtomicsWait, KindAt

LEMMA LatchMembers ==
    /\ Bubble \in FrontLatch /\ Bubble \in ExLatch
    /\ \A l \in FrontLatch : l # Bubble => l \in Instr /\ l.pc \in PC
    /\ \A l \in ExLatch : l # Bubble => l \in ExInstr /\ l.pc \in PC
  BY DEF FrontLatch, ExLatch, Instr, ExInstr

LEMMA BaseInit ==
    ASSUME Init PROVE Base
<1>1. FrontTypes
  <2>1. 0 \in PC /\ FETCH_QUEUE_CAPACITY \in Nat /\ Bubble \in FrontLatch
    BY CodeAddresses, Constants, LatchMembers
  <2> QED
    BY <2>1 DEF Init, FrontTypes
<1>2. BackTypes
  <2>1. GoodBoard(NewScoreboard, Tag, PC)
    BY CodeAddresses, Constants, NewScoreboardGood
  <2>2. SPEC_DEPTH \in Nat /\ COMMIT_DEPTH \in Nat /\ Bubble \in ExLatch
    BY Constants, LatchMembers
  <2> QED
    BY <2>1, <2>2, IdleUnits DEF Init, BackTypes
<1>3. FlushEnds /\ Pending = Bubble /\ Upcoming = Bubble
  BY DEF Init, FlushEnds, Pending, Upcoming, Early
<1> QED
  BY <1>1, <1>2, <1>3 DEF Base, TailFollows, AtomicsWait

LEMMA LatchBase ==
    ASSUME Base, LatchTransfer PROVE Base' /\ Pending' = Pending
<1>0. FrontTypes /\ BackTypes /\ FlushEnds
  BY DEF Base
<1> DEFINE q == QueueAfterPush
<1>1. q \in Seq(Instr) /\ Len(q) <= FETCH_QUEUE_CAPACITY
  <2>0. FETCH_QUEUE_CAPACITY \in Nat
    BY Constants
  <2>1. CASE fetch_id_next # Bubble /\ Len(fetch_queue) < FETCH_QUEUE_CAPACITY
    <3>1. fetch_id_next \in Instr /\ fetch_queue \in Seq(Instr)
      BY <1>0, <2>1, LatchMembers DEF FrontTypes
    <3>2. q = Append(fetch_queue, fetch_id_next)
      BY <2>1 DEF QueueAfterPush
    <3>3. q \in Seq(Instr) /\ Len(q) = Len(fetch_queue) + 1 /\ Len(fetch_queue) \in Nat
      BY <3>1, <3>2, AppendProperties
    <3> QED
      BY <2>0, <2>1, <3>3
  <2>2. CASE ~ (fetch_id_next # Bubble /\ Len(fetch_queue) < FETCH_QUEUE_CAPACITY)
    BY <1>0, <2>2 DEF QueueAfterPush, FrontTypes
  <2> QED
    BY <2>1, <2>2
<1> HIDE DEF q
<1>2. q # <<>> => /\ Head(q) \in Instr /\ Tail(q) \in Seq(Instr)
                  /\ Len(Tail(q)) <= FETCH_QUEUE_CAPACITY
  <2>1. q # <<>> => Head(q) \in Instr /\ Tail(q) \in Seq(Instr) /\ Len(Tail(q)) = Len(q) - 1
    BY <1>1, HeadTailProperties
  <2> QED
    BY <1>1, <2>1, Constants
<1>3. /\ fetch_queue' \in Seq(Instr) /\ Len(fetch_queue') <= FETCH_QUEUE_CAPACITY
      /\ fetch_id_reg' \in FrontLatch /\ fetch_id_next' \in FrontLatch
      /\ id_issue_reg' \in FrontLatch /\ pcgen_fetch_reg' \in FrontLatch
      /\ issue_ex_reg' \in ExLatch
  <2>0. FETCH_QUEUE_CAPACITY \in Nat
    BY Constants
  <2>1. fetch_queue' \in {fetch_queue, q, <<>>} \/ (q # <<>> /\ fetch_queue' = Tail(q))
    BY DEF LatchTransfer, q
  <2>2. fetch_id_reg' \in {Bubble, fetch_id_reg} \/ (q # <<>> /\ fetch_id_reg' = Head(q))
    BY DEF LatchTransfer, q
  <2>3. fetch_queue' \in Seq(Instr) /\ Len(fetch_queue') <= FETCH_QUEUE_CAPACITY
    <3>1. CASE fetch_queue' = <<>>
      BY <2>0, <3>1, EmptySeq
    <3>2. CASE fetch_queue' \in {fetch_queue, q}
      BY <1>0, <1>1, <3>2 DEF FrontTypes
    <3>3. CASE q # <<>> /\ fetch_queue' = Tail(q)
      BY <1>2, <3>3, Zenon
    <3> QED
      BY <2>1, <3>1, <3>2, <3>3
  <2>4. fetch_id_reg' \in FrontLatch
    BY <1>0, <1>2, <2>2, LatchMembers DEF FrontTypes, FrontLatch
  <2> QED
    BY <1>0, <2>3, <2>4, LatchMembers DEF LatchTransfer, FrontTypes, BackTypes
<1>4. FrontTypes'
  BY <1>0, <1>3 DEF LatchTransfer, FrontTypes, frontVars, flushVars, trapVars
<1>5. BackTypes'
  BY <1>0, <1>3 DEF LatchTransfer, BackTypes, backVars, Units, TickOrder
<1>6. FlushEnds'
  BY <1>0 DEF LatchTransfer, FlushEnds, flushVars
<1>7. Pending' = Pending /\ Upcoming' = Upcoming
  BY <1>0 DEF LatchTransfer, FlushEnds, flushVars, Pending, Upcoming, Early
<1>8. /\ program' = program /\ scoreboard' = scoreboard
      /\ buffer_empty => buffer_empty'
  BY DEF LatchTransfer, backVars, buffer_empty
<1> QED
  BY <1>4, <1>5, <1>6, <1>7, <1>8, NothingNew DEF Base

LEMMA NoStoreTypes ==
    /\ <<>> \in Seq(0 .. SIZE - 1) /\ Len(<<>>) <= SPEC_DEPTH
    /\ 0 \in 0 .. COMMIT_DEPTH
<1>1. <<>> \in Seq(0 .. SIZE - 1) /\ Len(<<>>) = 0
  BY EmptySeq
<1> QED
  BY <1>1, Constants

\* The interrupt check drops everything or changes nothing.
Interrupted ==
    /\ flush_pipeline'
    /\ scoreboard' = flush(scoreboard)
    /\ fu' = CancelForIrq
    /\ spec_stores' = <<>> /\ committed_stores' = committed_stores
    /\ "irq" \in program.events

LEMMA IrqBase ==
    ASSUME Base, cpu_process_IRQ
    PROVE  /\ Base'
           /\ \/ Interrupted /\ Pending' = Bubble
              \/ UNCHANGED <<backVars, flush_pipeline>> /\ Pending' = Pending
<1>0. FrontTypes /\ BackTypes /\ FlushEnds
  BY DEF Base
<1>1. stage = "irq" /\ ~ flush_pipeline /\ stage' = "commit1"
  BY <1>0 DEF cpu_process_IRQ, FlushEnds
<1>2. CASE TakeInterrupt
  <2>1. OldestLatchPC \in PC
    BY <1>0, LatchMembers DEF OldestLatchPC, FrontTypes, BackTypes
  <2>2. GoodBoard(scoreboard, Tag, PC) /\ scoreboard.entries[scoreboard.head].pc \in PC
    <3>1. GoodBoard(scoreboard, Tag, PC) /\ scoreboard \in Board(Tag, PC)
      BY <1>0 DEF BackTypes, GoodBoard
    <3>2. scoreboard.entries[scoreboard.head] \in BoardEntry(Tag, PC)
      BY <3>1, BoardMembers
    <3> QED
      BY <3>1, <3>2 DEF BoardEntry
  <2>3. IrqEpc \in PC
    BY <1>0, <2>1, <2>2 DEF IrqEpc, OldestPC, get_head, FrontTypes
  <2>4. FrontTypes'
    BY <1>0, <1>2, <2>3, CodeAddresses
       DEF TakeInterrupt, cpu_process_IRQ, FrontTypes, backLatches, latchVars, frontVars
  <2>5. CancelForIrq \in [Units -> GoodUnit]
    BY <1>0, IdleUnits DEF CancelForIrq, BackTypes
  <2>6. GoodBoard(flush(scoreboard), Tag, PC)
    BY <2>2, FlushGood
  <2>7. BackTypes'
    BY <1>0, <1>2, <2>5, <2>6, NoStoreTypes
       DEF TakeInterrupt, cpu_process_IRQ, BackTypes, backLatches, latchVars, Units, TickOrder
  <2>8. /\ Interrupted /\ Pending' = Bubble /\ Upcoming' = Upcoming
        /\ FlushEnds' /\ program' = program /\ (buffer_empty => buffer_empty')
    BY <1>1, <1>2 DEF TakeInterrupt, Interrupted, cpu_process_IRQ, Pending, Upcoming, Early,
                      FlushEnds, buffer_empty, backLatches, latchVars
  <2> QED
    BY <2>4, <2>7, <2>8, NothingNew DEF Base
<1>3. CASE NoInterrupt
  <2>1. FrontTypes'
    BY <1>0, <1>3 DEF NoInterrupt, cpu_process_IRQ, FrontTypes, backLatches, latchVars,
                      frontVars, flushVars, trapVars
  <2>2. BackTypes'
    BY <1>0, <1>3 DEF NoInterrupt, cpu_process_IRQ, BackTypes, backLatches, latchVars, backVars,
                      Units, TickOrder
  <2>3. /\ UNCHANGED <<backVars, flush_pipeline>> /\ Pending' = Pending /\ Upcoming' = Upcoming
        /\ FlushEnds' /\ program' = program
    BY <1>1, <1>3 DEF NoInterrupt, cpu_process_IRQ, Pending, Upcoming, Early, FlushEnds,
                      flushVars, backLatches, latchVars
  <2>4. scoreboard' = scoreboard /\ (buffer_empty => buffer_empty')
    BY <2>3 DEF backVars, buffer_empty
  <2> QED
    BY <2>1, <2>2, <2>3, <2>4, NothingNew DEF Base
<1> QED
  BY <1>2, <1>3 DEF cpu_process_IRQ

\* One store moves on, or none.
LEMMA CommitStoreTypes ==
    ASSUME BackTypes, NEW c \in 0 .. COMMIT_DEPTH, commit_store(c)
    PROVE  /\ spec_stores' \in Seq(0 .. SIZE - 1) /\ Len(spec_stores') <= SPEC_DEPTH
           /\ committed_stores' \in 0 .. COMMIT_DEPTH
           /\ spec_stores = <<>> => spec_stores' = <<>> /\ committed_stores' = c
<1>0. /\ spec_stores \in Seq(0 .. SIZE - 1) /\ Len(spec_stores) <= SPEC_DEPTH
      /\ SPEC_DEPTH \in Nat /\ COMMIT_DEPTH \in Nat
  BY Constants DEF BackTypes
<1>1. CASE spec_stores = <<>> \/ c = COMMIT_DEPTH
  BY <1>0, <1>1 DEF commit_store
<1>2. CASE ~ (spec_stores = <<>> \/ c = COMMIT_DEPTH)
  <2>1. spec_stores' = Tail(spec_stores) /\ committed_stores' = c + 1 /\ spec_stores # <<>>
    BY <1>2 DEF commit_store
  <2>2. /\ Tail(spec_stores) \in Seq(0 .. SIZE - 1)
        /\ Len(Tail(spec_stores)) = Len(spec_stores) - 1
    BY <1>0, <1>2, HeadTailProperties
  <2>3. Len(spec_stores) \in Nat /\ Len(spec_stores) - 1 <= SPEC_DEPTH
    BY <1>0
  <2>4. c + 1 \in 0 .. COMMIT_DEPTH
    BY <1>0, <1>2
  <2> QED
    BY <2>1, <2>2, <2>3, <2>4
<1> QED
  BY <1>1, <1>2

\* What commits: the ready entry at the head, which leaves.
Committed ==
    /\ head_ready(scoreboard)
    /\ scoreboard.count > 0
    /\ scoreboard'.entries =
          [scoreboard.entries EXCEPT ![scoreboard.head] =
              RetiredEntry(scoreboard.entries[scoreboard.head])]
    /\ scoreboard'.head = (scoreboard.head + 1) % SIZE
    /\ scoreboard'.tail = scoreboard.tail
    /\ scoreboard'.count = scoreboard.count - 1

LEMMA PortBase ==
    ASSUME BackTypes, NEW c \in 0 .. COMMIT_DEPTH, CommitPort(c) \/ PortBlocked(c)
    PROVE  /\ GoodBoard(scoreboard', Tag, PC)
           /\ spec_stores' \in Seq(0 .. SIZE - 1) /\ Len(spec_stores') <= SPEC_DEPTH
           /\ committed_stores' \in 0 .. COMMIT_DEPTH
           /\ spec_stores = <<>> => spec_stores' = <<>> /\ committed_stores' = c
           /\ scoreboard' = scoreboard \/ Committed
           /\ CommitPort(c) => Committed
<1>0. GoodBoard(scoreboard, Tag, PC)
  BY DEF BackTypes
<1>1. CASE PortBlocked(c)
  <2>1. ~ CommitPort(c)
    BY <1>1, Constants DEF PortBlocked, CommitPort
  <2> QED
    BY <1>0, <1>1, <2>1 DEF PortBlocked, BackTypes
<1>2. CASE CommitPort(c)
  <2> DEFINE s == release(scoreboard)
  <2>1. /\ GoodBoard(s, Tag, PC) /\ s.entries = scoreboard.entries
        /\ s.head = scoreboard.head /\ s.tail = scoreboard.tail /\ s.count = scoreboard.count
    BY <1>0, ReleaseGood
  <2>2. head_ready(scoreboard) /\ scoreboard.count > 0
    BY <1>2 DEF CommitPort, head_ready
  <2>3. scoreboard' = retire(s)
    BY <1>2 DEF CommitPort, RetireHead
  <2> HIDE DEF s
  <2>4. /\ GoodBoard(retire(s), Tag, PC)
        /\ retire(s).entries = [s.entries EXCEPT ![s.head] = RetiredEntry(s.entries[s.head])]
        /\ retire(s).head = (s.head + 1) % SIZE
        /\ retire(s).tail = s.tail /\ retire(s).count = s.count - 1
    BY <2>1, <2>2, RetireGood
  <2>5. Committed /\ GoodBoard(scoreboard', Tag, PC)
    BY <2>1, <2>2, <2>3, <2>4 DEF Committed
  <2>6. CASE get_head(scoreboard).is_store
    BY <1>2, <2>5, <2>6, CommitStoreTypes DEF CommitPort
  <2>7. CASE ~ get_head(scoreboard).is_store
    BY <1>2, <2>5, <2>7 DEF CommitPort, BackTypes
  <2> QED
    BY <2>6, <2>7
<1> QED
  BY <1>1, <1>2

LEMMA CommitBase ==
    ASSUME Base, Commit_stage
    PROVE  /\ Base' /\ Pending' = Pending
           /\ scoreboard' = scoreboard \/ Committed
           /\ buffer_empty => buffer_empty'
<1>0. FrontTypes /\ BackTypes /\ FlushEnds
  BY DEF Base
<1>1. PICK c \in {Drained, committed_stores} : CommitPort(c) \/ PortBlocked(c)
  BY DEF Commit_stage
<1>2. c \in 0 .. COMMIT_DEPTH /\ (committed_stores = 0 => c = 0)
  BY <1>0, Constants DEF Drained, BackTypes
<1>3. /\ GoodBoard(scoreboard', Tag, PC)
      /\ spec_stores' \in Seq(0 .. SIZE - 1) /\ Len(spec_stores') <= SPEC_DEPTH
      /\ committed_stores' \in 0 .. COMMIT_DEPTH
      /\ spec_stores = <<>> => spec_stores' = <<>> /\ committed_stores' = c
      /\ scoreboard' = scoreboard \/ Committed
  BY <1>0, <1>1, <1>2, PortBase
<1>4. FrontTypes'
  BY <1>0 DEF Commit_stage, FrontTypes, backLatches, latchVars, frontVars, flushVars
<1>5. BackTypes'
  BY <1>0, <1>3 DEF Commit_stage, BackTypes, backLatches, latchVars, Units, TickOrder
<1>6. /\ Pending' = Pending /\ Upcoming' = Upcoming /\ FlushEnds' /\ program' = program
  BY DEF Commit_stage, Pending, Upcoming, Early, FlushEnds, flushVars, backLatches, latchVars
<1>7. buffer_empty => buffer_empty'
  BY <1>2, <1>3 DEF buffer_empty
<1>8. scoreboard'.tail = scoreboard.tail
  BY <1>3 DEF Committed
<1> QED
  BY <1>3, <1>4, <1>5, <1>6, <1>7, <1>8, NothingNew DEF Base

\* EX executes the instruction in its latch.
ExRuns ==
    /\ issue_ex_reg \in ExInstr /\ ~ flush_pipeline
    /\ ExOutcome(TickedScoreboard, TickedUnits)

LEMMA ExBase ==
    ASSUME Base, EX_stage
    PROVE  /\ Base' /\ (ExIdles \/ ExRuns)
           /\ Pending' = IF stall_ex' THEN issue_ex_reg ELSE Bubble
<1> DEFINE s == TickedScoreboard
           f == TickedUnits
<1>0. FrontTypes /\ BackTypes
  BY DEF Base
<1>1. issue_ex_reg # Bubble /\ ~ flush_pipeline =>
         Pending = issue_ex_reg /\ scoreboard.tail = (issue_ex_reg.rob_index + 1) % SIZE
  BY DEF Base, TailFollows, Pending, Early, EX_stage
<1>2. ExIdles \/ ExRuns
  BY <1>0, <1>1, ExStep DEF ExRuns
<1>3. /\ GoodBoard(s, Tag, PC) /\ s.tail = scoreboard.tail
      /\ f \in [Units -> GoodUnit]
  BY <1>0, TicksBoard, TicksUnits DEF BackTypes
<1> HIDE DEF s, f
<1>4. /\ pc_redirect_target' \in PC /\ mepc' \in PC
      /\ GoodBoard(scoreboard', Tag, PC) /\ fu' \in [Units -> GoodUnit]
      /\ spec_stores' \in Seq(0 .. SIZE - 1) /\ Len(spec_stores') <= SPEC_DEPTH
      /\ committed_stores' \in 0 .. COMMIT_DEPTH
  <2>1. CASE ExIdles
    BY <1>0, <1>3, <2>1 DEF ExIdles, FrontTypes, BackTypes, s, f
  <2>2. CASE ExRuns
    <3>1. /\ pc_redirect_target' \in PC /\ mepc' \in PC
          /\ ExReplays(s, f) \/ ExTraps(s) \/ ExFinishes(s, f) \/ ExStarts(s, f)
      BY <2>2 DEF ExRuns, ExOutcome, s, f
    <3>2. CASE ExReplays(s, f)
      BY <1>0, <1>3, <3>1, <3>2 DEF ExReplays, BackTypes
    <3>3. CASE ExTraps(s)
      <4>1. GoodBoard(flush(s), Tag, PC)
        BY <1>3, FlushGood
      <4> QED
        BY <3>1, <3>3, <4>1, IdleUnits, NoStoreTypes DEF ExTraps
    <3>4. CASE ExFinishes(s, f)
      BY <1>0, <3>1, <3>4 DEF ExFinishes, Finished, Kept, BackTypes
    <3>5. CASE ExStarts(s, f)
      BY <1>0, <3>1, <3>5 DEF ExStarts, Untouched, Kept, BackTypes
    <3> QED
      BY <3>1, <3>2, <3>3, <3>4, <3>5
  <2> QED
    BY <1>2, <2>1, <2>2
<1>5. /\ program' = program /\ issue_ex_reg' = issue_ex_reg /\ stage' = "issue"
      /\ stage = "ex" /\ UNCHANGED <<latchVars, frontVars, id_issue_next, issue_ex_next>>
  BY DEF EX_stage, backLatches, latchVars
<1>6. FrontTypes'
  BY <1>0, <1>4, <1>5 DEF FrontTypes, latchVars, frontVars
<1>7. BackTypes'
  BY <1>0, <1>4, <1>5 DEF BackTypes, latchVars, Units, TickOrder
<1>8. Pending' = (IF stall_ex' THEN issue_ex_reg ELSE Bubble) /\ FlushEnds'
      /\ Upcoming' = Pending' /\ Upcoming = issue_ex_reg
  BY <1>5 DEF Pending, Upcoming, FlushEnds, Early
<1>9. stall_ex' => /\ Pending = issue_ex_reg /\ scoreboard'.tail = scoreboard.tail
                   /\ spec_stores' = spec_stores /\ committed_stores' = committed_stores
  <2>1. CASE ExIdles
    BY <2>1 DEF ExIdles
  <2>2. CASE ExRuns
    <3>1. stall_ex' => ExReplays(s, f)
      BY <2>2 DEF ExRuns, ExOutcome, ExTraps, ExFinishes, ExStarts, s, f
    <3>2. Pending = issue_ex_reg
      BY <1>5, <2>2 DEF ExRuns, Pending, Early
    <3> QED
      BY <1>3, <3>1, <3>2 DEF ExReplays
  <2> QED
    BY <1>2, <2>1, <2>2
<1>10. TailFollows' /\ AtomicsWait'
  <2>1. CASE stall_ex'
    <3>1. Pending' = Pending /\ Upcoming' = Upcoming /\ (buffer_empty => buffer_empty')
      BY <1>8, <1>9, <2>1 DEF buffer_empty
    <3> QED
      BY <1>5, <1>9, <2>1, <3>1, NothingNew
  <2>2. CASE ~ stall_ex'
    BY <1>8, <2>2 DEF TailFollows, AtomicsWait
  <2> QED
    BY <2>1, <2>2
<1> QED
  BY <1>2, <1>6, <1>7, <1>8, <1>10 DEF Base

\* What Issue allocates and sends to EX.
Dispatched ==
    /\ ~ stall_ex /\ ~ flush_pipeline /\ id_issue_reg # Bubble
    /\ ~ Hazard(KindAt(id_issue_reg.pc))
    /\ Dispatch(id_issue_reg, KindAt(id_issue_reg.pc))

LEMMA IssueBase ==
    ASSUME Base, Issue_stage
    PROVE  /\ Base'
           /\ \/ /\ scoreboard' = scoreboard
                 /\ stage' = "id" /\ Pending' = Pending
                 /\ issue_ex_next' = Bubble
              \/ /\ Dispatched /\ Pending = Bubble
                 /\ Pending' = issue_ex_next'
<1>0. FrontTypes /\ BackTypes
  BY DEF Base
<1>1. /\ stage = "issue" /\ program' = program
      /\ UNCHANGED <<latchVars, frontVars, id_issue_next, stall_ex, flushVars, mepc, fu,
                     spec_stores, committed_stores>>
  BY DEF Issue_stage, trapVars
<1>2. FrontTypes'
  BY <1>0, <1>1 DEF FrontTypes, latchVars, frontVars, flushVars
<1>3. \/ Held /\ stage' = "id"
      \/ /\ ~ stall_ex
         /\ issue_ex_next' = Bubble /\ stage' = "id" /\ scoreboard' = scoreboard
      \/ Dispatched /\ stage' = IF KindAt(id_issue_reg.pc) = "ILLEGAL" THEN "drain" ELSE "id"
  BY DEF Issue_stage, IssueInstruction, Dispatched
<1>4. CASE scoreboard' = scoreboard /\ stage' = "id" /\ issue_ex_next' = Bubble
  <2>1. BackTypes'
    BY <1>0, <1>1, <1>4, LatchMembers DEF BackTypes, latchVars, Units, TickOrder
  <2>2. Pending' = Pending /\ Upcoming' = Upcoming /\ FlushEnds'
    BY <1>1, <1>4 DEF Pending, Upcoming, FlushEnds, Early, latchVars
  <2>3. buffer_empty => buffer_empty'
    BY <1>1 DEF buffer_empty
  <2> QED
    BY <1>1, <1>2, <1>4, <2>1, <2>2, <2>3, NothingNew DEF Base
<1>5. CASE Dispatched /\ stage' = IF KindAt(id_issue_reg.pc) = "ILLEGAL" THEN "drain" ELSE "id"
  <2> DEFINE k == KindAt(id_issue_reg.pc)
             m == [pc |-> id_issue_reg.pc, fp |-> FALSE, is_store |-> k = "STORE"]
             l == [pc |-> id_issue_reg.pc, predicted |-> id_issue_reg.predicted,
                   rob_index |-> scoreboard.tail]
  <2>1. id_issue_reg \in Instr /\ id_issue_reg.pc \in PC
    BY <1>0, <1>5, LatchMembers DEF Dispatched, FrontTypes
  <2>2. m \in Metadata(PC)
    BY <2>1 DEF Metadata
  <2>3. /\ GoodBoard(scoreboard, Tag, PC) /\ ~ is_full(scoreboard)
        /\ scoreboard.tail \in 0 .. SIZE - 1
    BY <1>0, <1>5 DEF BackTypes, Dispatched, Hazard, GoodBoard, Board
  <2>4. /\ scoreboard' = allocate(scoreboard, m)
        /\ issue_ex_next' = IF k = "ILLEGAL" THEN Bubble ELSE l
    BY <1>5 DEF Dispatched, Dispatch
  <2>5. l \in ExInstr /\ l.rob_index = scoreboard.tail /\ l.pc = id_issue_reg.pc
    BY <2>1, <2>3 DEF Instr, ExInstr
  <2> HIDE DEF m, l
  <2>6. GoodBoard(scoreboard', Tag, PC) /\ scoreboard'.tail = (scoreboard.tail + 1) % SIZE
    <3> DEFINE a == allocate(scoreboard, m)
    <3>0. GoodBoard(a, Tag, PC)
      BY <2>2, <2>3, AllocateGood
    <3>1. a.tail = (scoreboard.tail + 1) % SIZE
      BY <2>3, AllocateCursors
    <3> HIDE DEF a
    <3> QED
      BY <2>4, <3>0, <3>1 DEF a
  <2>7. BackTypes'
    BY <1>0, <1>1, <2>4, <2>5, <2>6, LatchMembers
       DEF BackTypes, ExLatch, latchVars, Units, TickOrder
  <2>8. /\ Pending = Bubble /\ Pending' = issue_ex_next' /\ Upcoming' = issue_ex_next'
    BY <1>1, <1>5 DEF Dispatched, Pending, Upcoming, Early
  <2>9. FlushEnds'
    BY <1>1, <1>5, <2>4 DEF FlushEnds, Dispatched, latchVars
  <2>10. TailFollows'
    BY <2>4, <2>5, <2>6, <2>8 DEF TailFollows
  <2>11. AtomicsWait'
    <3>1. k = "AMO" => buffer_empty'
      BY <1>1, <1>5 DEF Dispatched, Hazard, BufferHazard, buffer_empty
    <3>2. Upcoming' # Bubble => Upcoming'.pc = id_issue_reg.pc
      BY <2>4, <2>5, <2>8
    <3> QED
      BY <1>1, <3>1, <3>2 DEF AtomicsWait, KindAt
  <2> QED
    BY <1>2, <1>5, <2>7, <2>8, <2>9, <2>10, <2>11 DEF Base
<1> QED
  BY <1>3, <1>4, <1>5 DEF Held

LEMMA DrainBase ==
    ASSUME Base, Issue_illegal
    PROVE  /\ Base' /\ Pending' = Bubble /\ Pending = Bubble
           /\ \/ stage' = "drain" /\ Committed /\ fu' = fu
              \/ /\ stage' = "id" /\ scoreboard' = flush(scoreboard) /\ fu' = AllIdle
                 /\ flush_pipeline'
           /\ buffer_empty => buffer_empty'
<1>0. FrontTypes /\ BackTypes /\ FlushEnds /\ GoodBoard(scoreboard, Tag, PC)
  BY DEF Base, BackTypes
<1>1. /\ stage = "drain" /\ program' = program
      /\ ~ stall_ex /\ issue_ex_next = Bubble /\ id_issue_reg # Bubble
      /\ UNCHANGED <<id_issue_next, latchVars, frontVars, issue_ex_next, stall_ex>>
  BY <1>0 DEF Issue_illegal, FlushEnds, backLatches
<1>2. CASE DrainReady
  <2>1. head_ready(scoreboard) /\ scoreboard.count > 0 /\ scoreboard' = retire(scoreboard)
    BY <1>2 DEF DrainReady, head_ready
  <2>2. Committed /\ GoodBoard(scoreboard', Tag, PC)
    BY <1>0, <2>1, RetireGood DEF Committed
  <2>3. /\ spec_stores' \in Seq(0 .. SIZE - 1) /\ Len(spec_stores') <= SPEC_DEPTH
        /\ committed_stores' \in 0 .. COMMIT_DEPTH
        /\ buffer_empty => buffer_empty'
    <3>1. CASE get_head(scoreboard).is_store
      <4>1. commit_store(committed_stores) /\ committed_stores \in 0 .. COMMIT_DEPTH
        BY <1>0, <1>2, <3>1 DEF DrainReady, BackTypes
      <4> QED
        BY <1>0, <4>1, CommitStoreTypes DEF buffer_empty
    <3>2. CASE ~ get_head(scoreboard).is_store
      BY <1>0, <1>2, <3>2 DEF DrainReady, BackTypes, buffer_empty
    <3> QED
      BY <3>1, <3>2
  <2>4. FrontTypes'
    BY <1>0, <1>1, <1>2 DEF FrontTypes, DrainReady, latchVars, frontVars, flushVars, trapVars
  <2>5. BackTypes' /\ fu' = fu
    BY <1>0, <1>1, <1>2, <2>2, <2>3 DEF DrainReady, BackTypes, latchVars, Units, TickOrder
  <2>6. /\ Pending = Bubble /\ Pending' = Bubble /\ Upcoming' = Bubble /\ FlushEnds'
        /\ stage' = "drain"
    BY <1>1, <1>2 DEF DrainReady, Pending, Upcoming, FlushEnds, Early, latchVars
  <2> QED
    BY <2>2, <2>3, <2>4, <2>5, <2>6 DEF Base, TailFollows, AtomicsWait
<1>3. CASE IllegalTrap
  <2>1. GoodBoard(flush(scoreboard), Tag, PC)
    BY <1>0, FlushGood
  <2>2. id_issue_reg.pc \in PC /\ HandlerPC \in PC
    BY <1>0, <1>1, LatchMembers, CodeAddresses DEF FrontTypes
  <2>3. FrontTypes'
    BY <1>0, <1>1, <1>3, <2>2
       DEF FrontTypes, IllegalTrap, RedirectTo, latchVars, frontVars
  <2>4. BackTypes'
    BY <1>0, <1>1, <1>3, <2>1, IdleUnits, NoStoreTypes
       DEF IllegalTrap, BackTypes, latchVars, Units, TickOrder
  <2>5. /\ Pending = Bubble /\ Pending' = Bubble /\ Upcoming' = Bubble /\ FlushEnds'
        /\ stage' = "id" /\ scoreboard' = flush(scoreboard) /\ fu' = AllIdle
        /\ flush_pipeline' /\ (buffer_empty => buffer_empty')
    BY <1>1, <1>3 DEF IllegalTrap, RedirectTo, Pending, Upcoming, FlushEnds, Early,
                      buffer_empty, latchVars
  <2> QED
    BY <2>3, <2>4, <2>5 DEF Base, TailFollows, AtomicsWait
<1> QED
  BY <1>2, <1>3 DEF Issue_illegal

LEMMA IdBase ==
    ASSUME Base, ID_stage PROVE Base' /\ Pending' = Pending
<1>0. FrontTypes /\ BackTypes
  BY DEF Base
<1>1. /\ stage = "id" /\ stage' = "fetch" /\ program' = program
      /\ UNCHANGED <<frontVars, latchVars, issue_ex_next, stall_ex, backVars, trapVars>>
  BY DEF ID_stage
<1>2. id_issue_next' \in FrontLatch /\ pc_redirect_target' \in PC
  <2>1. id_issue_next' \in FrontLatch
    BY <1>0, LatchMembers DEF ID_stage, FrontTypes
  <2>2. \/ pc_redirect_target' = pc_redirect_target
        \/ /\ fetch_id_reg # Bubble
           /\ pc_redirect_target' = Following(program, fetch_id_reg.pc)
    BY DEF ID_stage, flushVars
  <2>3. fetch_id_reg # Bubble => Following(program, fetch_id_reg.pc) \in PC
    BY <1>0, LatchMembers, CodeAddresses DEF FrontTypes
  <2> QED
    BY <1>0, <2>1, <2>2, <2>3 DEF FrontTypes
<1>3. FrontTypes'
  BY <1>0, <1>1, <1>2 DEF FrontTypes, frontVars, latchVars, trapVars
<1>4. BackTypes'
  BY <1>0, <1>1 DEF BackTypes, latchVars, backVars, Units, TickOrder
<1>5. Pending' = Pending /\ Upcoming' = Upcoming /\ FlushEnds'
  BY <1>1 DEF Pending, Upcoming, Early, FlushEnds, latchVars
<1>6. scoreboard' = scoreboard /\ (buffer_empty => buffer_empty')
  BY <1>1 DEF backVars, buffer_empty
<1> QED
  BY <1>1, <1>3, <1>4, <1>5, <1>6, NothingNew DEF Base

LEMMA FetchBase ==
    ASSUME Base, Fetch_stage PROVE Base' /\ Pending' = Pending
<1>0. FrontTypes /\ BackTypes
  BY DEF Base
<1>1. /\ stage = "fetch" /\ stage' = "pcgen" /\ program' = program
      /\ UNCHANGED <<pcgen_fetch_next, fetch_queue, latchVars, id_issue_next, issue_ex_next,
                     stall_ex, backVars>>
  BY DEF Fetch_stage
<1>2. pcgen_fetch_reg # Bubble => pcgen_fetch_reg.pc \in PC
  BY <1>0, LatchMembers DEF FrontTypes
<1>3. /\ fetch_id_next' \in FrontLatch /\ next_pc' \in PC
      /\ mepc' \in PC /\ pc_redirect_target' \in PC
  <2>1. CASE FetchFault /\ pcgen_fetch_reg # Bubble
    BY <1>0, <1>2, <2>1, LatchMembers, CodeAddresses DEF FetchFault, FrontTypes
  <2>2. CASE Deliver
    <3>1. -1 \in -1 .. 2 /\ program \in Programs /\ next_pc \in PC
      BY <1>0 DEF FrontTypes
    <3>2. Advance(program, next_pc, -1) \in PC
      BY <3>1, AdvancePC
    <3> QED
      BY <1>0, <2>2, <3>2 DEF Deliver, FrontTypes, flushVars, trapVars
  <2>3. CASE /\ fetch_id_next' \in {Bubble, fetch_id_next}
             /\ UNCHANGED <<next_pc, flushVars, trapVars>>
    BY <1>0, <2>3, LatchMembers DEF FrontTypes, flushVars, trapVars
  <2> QED
    BY <2>1, <2>2, <2>3 DEF Fetch_stage, NoDelivery, CountDown, FetchMiss
<1>4. FrontTypes'
  BY <1>0, <1>1, <1>3 DEF FrontTypes, latchVars
<1>5. BackTypes'
  BY <1>0, <1>1 DEF BackTypes, latchVars, backVars, Units, TickOrder
<1>6. Pending' = Pending /\ Upcoming' = Upcoming /\ FlushEnds'
  BY <1>1 DEF Pending, Upcoming, Early, FlushEnds, latchVars
<1>7. scoreboard' = scoreboard /\ (buffer_empty => buffer_empty')
  BY <1>1 DEF backVars, buffer_empty
<1> QED
  BY <1>1, <1>4, <1>5, <1>6, <1>7, NothingNew DEF Base

LEMMA PCGenBase ==
    ASSUME Base, PCGen_stage PROVE Base' /\ Pending' \in {Bubble, Pending}
<1>0. FrontTypes /\ BackTypes
  BY DEF Base
<1>1. /\ stage = "pcgen" /\ stage' = "latch" /\ program' = program
      /\ UNCHANGED <<latchVars, stall_ex, pc_redirect_target, prev_cycle_flush, backVars, trapVars>>
  BY DEF PCGen_stage
<1>2. program \in Programs /\ next_pc \in PC /\ 2 \in -1 .. 2
  BY <1>0 DEF FrontTypes
<1>3. next_pc' \in PC /\ pcgen_fetch_next' \in FrontLatch
  <2>1. CASE Redirect
    BY <1>0, <2>1, LatchMembers DEF Redirect, FrontTypes
  <2>2. CASE SpendBubble
    BY <1>0, <2>2, LatchMembers DEF SpendBubble, FrontTypes
  <2>3. CASE Predict
    <3>1. PICK t \in {NotTaken} \cup Predictable(next_pc) :
             /\ pcgen_fetch_next' = [pc |-> next_pc, predicted |-> t]
             /\ next_pc' = IF t = NotTaken THEN Advance(program, next_pc, 2) ELSE t
      BY <2>3 DEF Predict
    <3>2. t \in PC \cup {NotTaken}
      BY <1>2, CodeAddresses DEF Predictable
    <3>3. Advance(program, next_pc, 2) \in PC
      BY <1>2, AdvancePC
    <3> QED
      BY <1>2, <3>1, <3>2, <3>3 DEF FrontLatch, Instr
  <2>4. CASE next_pc' = next_pc /\ pcgen_fetch_next' \in {Bubble, pcgen_fetch_next}
    BY <1>0, <2>4, LatchMembers DEF FrontTypes
  <2> QED
    BY <2>1, <2>2, <2>3, <2>4 DEF PCGen_stage
<1>4. \/ /\ UNCHANGED <<fetch_queue, fetch_id_next, id_issue_next, issue_ex_next>>
         /\ ~ flush_pipeline /\ flush_pipeline' = flush_pipeline
      \/ /\ fetch_queue' = <<>> /\ fetch_id_next' = Bubble
         /\ id_issue_next' = Bubble /\ issue_ex_next' = Bubble /\ ~ flush_pipeline'
  BY DEF PCGen_stage, Redirect, KeepLatches
<1>5. FrontTypes'
  <2>1. fetch_queue' \in Seq(Instr) /\ Len(fetch_queue') <= FETCH_QUEUE_CAPACITY
    <3>1. <<>> \in Seq(Instr) /\ Len(<<>>) = 0 /\ 0 <= FETCH_QUEUE_CAPACITY
      BY EmptySeq, Constants
    <3> QED
      BY <1>0, <1>4, <3>1 DEF FrontTypes
  <2>2. fetch_id_next' \in FrontLatch /\ id_issue_next' \in FrontLatch
    BY <1>0, <1>4, LatchMembers DEF FrontTypes
  <2> QED
    BY <1>0, <1>1, <1>3, <2>1, <2>2 DEF FrontTypes, latchVars, trapVars
<1>6. BackTypes'
  BY <1>0, <1>1, <1>4, LatchMembers DEF BackTypes, latchVars, backVars, Units, TickOrder
<1>7. FlushEnds'
  BY <1>1, <1>4 DEF FlushEnds
<1>8. Pending' \in {Bubble, Pending} /\ Upcoming' \in {Bubble, Upcoming}
  BY <1>1, <1>4 DEF Pending, Upcoming, Early, latchVars
<1>9. scoreboard' = scoreboard /\ (buffer_empty => buffer_empty')
  BY <1>1 DEF backVars, buffer_empty
<1> QED
  BY <1>1, <1>5, <1>6, <1>7, <1>8, <1>9, NothingNew DEF Base

LEMMA BaseStutters ==
    ASSUME Base, UNCHANGED vars
    PROVE  /\ Base' /\ Pending' = Pending
           /\ UNCHANGED <<stage, program, latchVars, backVars, flush_pipeline,
                          frontVars, id_issue_next, issue_ex_next, stall_ex, stall_issue>>
<1>1. UNCHANGED <<stage, program, frontVars, latchVars, id_issue_next, issue_ex_next,
                  stallVars, stall_ex, flushVars, prev_cycle_flush, backVars, trapVars>>
  BY DEF vars
<1>2. FrontTypes' /\ BackTypes'
  BY <1>1 DEF Base, FrontTypes, BackTypes, frontVars, latchVars, flushVars, trapVars, backVars,
              Units, TickOrder
<1>3. /\ FlushEnds' /\ Pending' = Pending /\ Upcoming' = Upcoming
      /\ scoreboard' = scoreboard /\ (buffer_empty => buffer_empty')
  BY <1>1 DEF Base, FlushEnds, Pending, Upcoming, Early, latchVars, flushVars, backVars,
              buffer_empty
<1>4. TailFollows' /\ AtomicsWait'
  BY <1>1, <1>3, NothingNew
<1> QED
  BY <1>1, <1>2, <1>3, <1>4 DEF Base, flushVars, stallVars

LEMMA BaseHolds == Spec => []Base
<1>1. Init => Base
  BY BaseInit
<1>2. Base /\ [Next]_vars => Base'
  BY BaseStutters, LatchBase, IrqBase, CommitBase, ExBase, IssueBase, DrainBase, IdBase,
     FetchBase, PCGenBase DEF Next
<1> QED
  BY <1>1, <1>2, PTL DEF Spec

\* Latches, queues and units of CPURV64P6_Cycle keep their types and stay within
\* their capacities, and every saved or redirect address is in the code, for
\* every program, size and latency (cycle_thread).
THEOREM TypesHold == Spec => []TypeOK
<1>1. Base => TypeOK
  <2> SUFFICES ASSUME Base PROVE TypeOK
    OBVIOUS
  <2>0. FrontTypes /\ BackTypes
    BY DEF Base
  <2>1. \A l \in FrontLatch \cup ExLatch : Latch(l)
    BY DEF FrontLatch, ExLatch, Instr, ExInstr, Latch
  <2>2. scoreboard.count \in 0 .. SIZE
    BY <2>0 DEF BackTypes, GoodBoard, Board
  <2>3. \A u \in Units : fu[u].busy => fu[u].remaining > 0
    BY <2>0 DEF BackTypes, GoodUnit
  <2>4. /\ next_pc \in PC /\ pc_redirect_target \in PC /\ mepc \in PC
        /\ Len(fetch_queue) <= FETCH_QUEUE_CAPACITY /\ Len(spec_stores) <= SPEC_DEPTH
        /\ committed_stores \in 0 .. COMMIT_DEPTH
    BY <2>0 DEF FrontTypes, BackTypes
  <2>5. \A l \in {pcgen_fetch_reg, pcgen_fetch_next, fetch_id_next, fetch_id_reg,
                  id_issue_reg, id_issue_next, issue_ex_reg, issue_ex_next} : Latch(l)
    BY <2>0, <2>1 DEF FrontTypes, BackTypes
  <2> QED
    BY <2>2, <2>3, <2>4, <2>5 DEF TypeOK
<1> QED
  BY <1>1, BaseHolds, PTL

\* The cursors and valid bits of the scoreboard agree after every stage of every
\* cycle, through allocation, completion, retirement by Commit and by Issue's
\* illegal-instruction drain, and both flushes (Scoreboard.h and its callers).
THEOREM ScoreboardRingHolds == Spec => []ScoreboardRing
<1>1. Base => ScoreboardRing
  BY DEF Base, BackTypes, GoodBoard, ScoreboardRing
<1> QED
  BY <1>1, BaseHolds, PTL

\* An atomic that Issue let pass finds the store buffer empty when EX writes
\* memory past it: no store enters the buffer in between, whatever drains,
\* stalls, interrupts and flushes happen (BufferHazard in Issue, EX).
THEOREM AtomicsFindBufferEmptyHolds == Spec => []AtomicsFindBufferEmpty
<1>1. Base => AtomicsFindBufferEmpty
  BY DEF Base, AtomicsWait, Upcoming, Early, AtomicsFindBufferEmpty
<1> QED
  BY <1>1, BaseHolds, PTL

-----------------------------------------------------------------------------
(* Programs in which a DTLB walk never meets a store.                        *)

StoreFree == "dtlb" \in program.events => buffer_empty

\* Only results of instructions become ready.
ReadyComputed(s) ==
    \A i \in 0 .. SIZE - 1 : s.entries[i].ready => s.entries[i].result = Computed

Unfinished(s, i) == s.entries[i].valid /\ ~ s.entries[i].ready

\* Every unit that works will deliver a result, load_hit_fu at the next tick.
UnitsCompute(f) ==
    \A u \in Units : f[u].busy => f[u].result = Computed /\ (u = Hit => f[u].remaining = 1)

\* Units work for entries in flight that are not ready, each for its own.
UnitsServe(s, f) ==
    \A u \in Units : f[u].busy =>
        /\ Unfinished(s, f[u].trans_id)
        /\ \A v \in Units : v # u /\ f[v].busy => f[v].trans_id # f[u].trans_id

\* Entry b is in flight and waits for EX.
Awaits(s, f, b) ==
    Unfinished(s, b) /\ \A u \in Units : f[u].busy => f[u].trans_id # b

OnlyHit(f) == \A u \in Units : f[u].busy => u = Hit

\* An interrupt was taken earlier in this cycle: load_hit_fu still works for an
\* entry that is gone.
Flushed == stage \in Early /\ flush_pipeline

Live ==
    /\ StoreFree
    /\ ReadyComputed(scoreboard)
    /\ UnitsCompute(fu)
    /\ IF Flushed THEN OnlyHit(fu) ELSE UnitsServe(scoreboard, fu)
    /\ Pending # Bubble => Awaits(scoreboard, fu, Pending.rob_index)

LEMMA IdleLive ==
    ASSUME NEW s
    PROVE  UnitsCompute(AllIdle) /\ UnitsServe(s, AllIdle) /\ OnlyHit(AllIdle)
<1>1. \A u \in Units : ~ AllIdle[u].busy
  BY IdleUnits DEF AllIdle
<1> QED
  BY <1>1 DEF UnitsCompute, UnitsServe, OnlyHit

LEMMA FlushUnready ==
    ASSUME NEW s, GoodBoard(s, Tag, PC) PROVE ReadyComputed(flush(s))
<1>1. \A i \in 0 .. SIZE - 1 : s.entries[i] \in BoardEntry(Tag, PC)
  BY BoardMembers DEF GoodBoard
<1>2. DOMAIN s.entries = 0 .. SIZE - 1
  BY DEF GoodBoard, Board
<1> DEFINE e == [i \in DOMAIN s.entries |->
                    [s.entries[i] EXCEPT !.valid = FALSE, !.ready = FALSE]]
<1>3. \A i \in 0 .. SIZE - 1 : ~ e[i].ready
  BY <1>1, <1>2 DEF BoardEntry
<1> HIDE DEF e
<1>4. flush(s).entries = e
  <2>1. flush(s) = [NewScoreboard EXCEPT !.entries = e]
    BY DEF flush, e
  <2> QED
    BY <2>1 DEF NewScoreboard
<1> QED
  BY <1>3, <1>4 DEF ReadyComputed

LEMMA LiveInit ==
    ASSUME Init PROVE Live
<1>1. StoreFree
  BY DEF Init, StoreFree, buffer_empty
<1>2. ReadyComputed(NewScoreboard)
  BY DEF ReadyComputed, NewScoreboard, FreshEntry
<1>3. ~ Flushed /\ Pending = Bubble
  BY DEF Init, Flushed, Early, Pending
<1> QED
  BY <1>1, <1>2, <1>3, IdleLive DEF Init, Live

\* Steps that leave the back end alone.
LEMMA LiveSame ==
    ASSUME Live, UNCHANGED backVars, program' = program, Flushed' <=> Flushed,
           Pending' \in {Bubble, Pending}
    PROVE  Live'
<1>1. scoreboard' = scoreboard /\ fu' = fu /\ (buffer_empty => buffer_empty')
  BY DEF backVars, buffer_empty
<1>2. StoreFree'
  BY <1>1 DEF Live, StoreFree
<1>3. /\ ReadyComputed(scoreboard') /\ UnitsCompute(fu')
      /\ IF Flushed' THEN OnlyHit(fu') ELSE UnitsServe(scoreboard', fu')
      /\ Pending' # Bubble => Awaits(scoreboard', fu', Pending'.rob_index)
  BY <1>1 DEF Live
<1> QED
  BY <1>2, <1>3 DEF Live

\* A flush of the whole scoreboard.
LEMMA LiveFlush ==
    ASSUME Live, GoodBoard(scoreboard, Tag, PC), program' = program,
           scoreboard' = flush(scoreboard), Pending' = Bubble,
           buffer_empty => buffer_empty',
           \/ fu' = AllIdle
           \/ fu' = CancelForIrq /\ Flushed'
    PROVE  Live'
<1>1. StoreFree'
  BY DEF Live, StoreFree
<1>2. ReadyComputed(scoreboard')
  BY FlushUnready
<1>3. UnitsCompute(fu') /\ IF Flushed' THEN OnlyHit(fu') ELSE UnitsServe(scoreboard', fu')
  <2>1. CASE fu' = AllIdle
    BY <2>1, IdleLive
  <2>2. CASE fu' = CancelForIrq /\ Flushed'
    <3>1. \A u \in Units : fu'[u].busy => u = Hit /\ fu'[u] = fu[u]
      BY <2>2, IdleUnits DEF CancelForIrq
    <3> QED
      BY <2>2, <3>1 DEF UnitsCompute, OnlyHit, Live
  <2> QED
    BY <2>1, <2>2
<1> QED
  BY <1>1, <1>2, <1>3 DEF Live

\* The ready entry at the head leaves.
LEMMA LiveCommit ==
    ASSUME Live, BackTypes, BackTypes', Committed, fu' = fu, program' = program,
           Flushed' <=> Flushed, Pending' = Pending, buffer_empty => buffer_empty'
    PROVE  Live'
<1> DEFINE h == scoreboard.head
           e == scoreboard.entries
           d == scoreboard'.entries
<1>1. StoreFree'
  BY DEF Live, StoreFree
<1>2. /\ h \in 0 .. SIZE - 1 /\ e \in [0 .. SIZE - 1 -> BoardEntry(Tag, PC)]
      /\ e[h].ready
  BY BoardMembers DEF BackTypes, GoodBoard, Committed, head_ready, get_head
<1>3. d = [e EXCEPT ![h] = RetiredEntry(e[h])]
  BY DEF Committed
<1>4. RetiredEntry(e[h]).ready = e[h].ready /\ RetiredEntry(e[h]).result = e[h].result
  BY <1>2 DEF RetiredEntry, WithValid, BoardEntry
<1>5. /\ \A i \in 0 .. SIZE - 1 : d[i].ready = e[i].ready /\ d[i].result = e[i].result
      /\ \A i \in 0 .. SIZE - 1 : i # h => d[i] = e[i]
  <2> HIDE DEF d, e, h
  <2> QED
    BY <1>2, <1>3, <1>4
<1>6. ReadyComputed(scoreboard')
  BY <1>5 DEF Live, ReadyComputed
<1>7. \A i \in 0 .. SIZE - 1 : Unfinished(scoreboard, i) => Unfinished(scoreboard', i)
  BY <1>2, <1>5 DEF Unfinished
<1>8. \A u \in Units : fu[u].busy => fu[u].trans_id \in 0 .. SIZE - 1
  BY DEF BackTypes, GoodUnit
<1>9. UnitsCompute(fu') /\ IF Flushed' THEN OnlyHit(fu') ELSE UnitsServe(scoreboard', fu')
  BY <1>7, <1>8 DEF Live, UnitsServe
<1>10. Pending' # Bubble => Awaits(scoreboard', fu', Pending'.rob_index)
  <2>1. Pending # Bubble => Pending.rob_index \in 0 .. SIZE - 1
    BY DEF Pending, BackTypes, ExLatch, ExInstr
  <2> QED
    BY <1>7, <2>1 DEF Live, Awaits
<1> QED
  BY <1>1, <1>6, <1>9, <1>10 DEF Live

\* The slot at the tail is free while the scoreboard is not full, and only an
\* empty scoreboard has no valid entry.
LEMMA TailIsFree ==
    ASSUME NEW s, GoodBoard(s, Tag, PC)
    PROVE  /\ ~ is_full(s) => ~ s.entries[s.tail].valid
           /\ \A i \in 0 .. SIZE - 1 : s.entries[i].valid => ~ is_empty(s)
<1> DEFINE h == s.head
           t == s.tail
           c == s.count
<1>1. /\ SIZE \in Nat \ {0} /\ h \in 0 .. SIZE - 1 /\ t \in 0 .. SIZE - 1 /\ c \in 0 .. SIZE
      /\ t = (h + c) % SIZE
      /\ \A i \in 0 .. SIZE - 1 : s.entries[i].valid <=> InWindow(i, h, c, SIZE)
  BY BoardMembers DEF GoodBoard, ScoreboardCoherent, Coherent
<1>2. is_full(s) <=> c = SIZE
  BY DEF is_full
<1>3. is_empty(s) <=> c = 0
  BY DEF is_empty
<1> HIDE DEF h, t, c
<1>4. t = IF h + c < SIZE THEN h + c ELSE h + c - SIZE
  BY <1>1, Up
<1>5. InWindow(t, h, c, SIZE) <=> (h <= t /\ t < h + c) \/ (t < h /\ t + SIZE < h + c)
  BY <1>1, WindowRuns
<1>6. c # SIZE => ~ InWindow(t, h, c, SIZE)
  BY <1>1, <1>4, <1>5
<1>7. c = 0 => \A i : ~ InWindow(i, h, c, SIZE)
  BY DEF InWindow
<1> QED
  BY <1>1, <1>2, <1>3, <1>6, <1>7 DEF t

LEMMA LiveDispatch ==
    ASSUME Base, Live, Issue_stage, Dispatched, Base', Pending = Bubble, Pending' = issue_ex_next'
    PROVE  Live'
<1> DEFINE k == KindAt(id_issue_reg.pc)
           m == [pc |-> id_issue_reg.pc, fp |-> FALSE, is_store |-> k = "STORE"]
           t == scoreboard.tail
           e == scoreboard.entries
           d == scoreboard'.entries
           n == AllocatedEntry(m)
<1>0. GoodBoard(scoreboard, Tag, PC) /\ ~ is_full(scoreboard) /\ FrontTypes /\ BackTypes
  BY DEF Base, BackTypes, Dispatched, Hazard
<1>1. /\ scoreboard' = allocate(scoreboard, m)
      /\ issue_ex_next' # Bubble => issue_ex_next'.rob_index = t
  BY DEF Dispatched, Dispatch
<1>2. /\ fu' = fu /\ program' = program /\ ~ Flushed /\ ~ Flushed'
      /\ buffer_empty => buffer_empty'
  BY DEF Issue_stage, IssueInstruction, Dispatched, Flushed, Early, buffer_empty
<1>3. m \in Metadata(PC)
  BY <1>0, LatchMembers DEF Metadata, Dispatched, FrontTypes
<1>4. n.valid /\ ~ n.ready
  <2>1. Zero \in Tag /\ 0 \in PC
    BY Constants, CodeAddresses
  <2> HIDE DEF m
  <2> QED
    BY <1>3, <2>1, AllocatedType
<1> HIDE DEF m, n
<1>5. d = [e EXCEPT ![t] = n]
  <2>1. allocate(scoreboard, m).entries = [e EXCEPT ![t] = n]
    BY <1>0, <1>3, AllocateGood DEF n
  <2> QED
    BY <1>1, <2>1
<1>6. t \in 0 .. SIZE - 1 /\ e \in [0 .. SIZE - 1 -> BoardEntry(Tag, PC)] /\ ~ e[t].valid
  BY <1>0, BoardMembers, TailIsFree DEF GoodBoard
<1>7. d[t] = n /\ \A i \in 0 .. SIZE - 1 : i # t => d[i] = e[i]
  <2> HIDE DEF d, e, t
  <2> QED
    BY <1>5, <1>6
<1>8. StoreFree'
  BY <1>2 DEF Live, StoreFree
<1>9. ReadyComputed(scoreboard')
  BY <1>4, <1>7 DEF Live, ReadyComputed
<1>10. \A u \in Units : fu[u].busy => fu[u].trans_id \in 0 .. SIZE - 1
  BY <1>0 DEF BackTypes, GoodUnit
<1>11. UnitsServe(scoreboard, fu) /\ UnitsCompute(fu')
  BY <1>2 DEF Live
<1>12. \A u \in Units : fu[u].busy => fu[u].trans_id # t
  BY <1>6, <1>11 DEF UnitsServe, Unfinished
<1>13. UnitsServe(scoreboard', fu')
  BY <1>2, <1>7, <1>10, <1>11, <1>12 DEF UnitsServe, Unfinished
<1>14. Pending' # Bubble => Awaits(scoreboard', fu', Pending'.rob_index)
  BY <1>1, <1>2, <1>4, <1>7, <1>12 DEF Awaits, Unfinished
<1> QED
  BY <1>2, <1>8, <1>9, <1>11, <1>13, <1>14 DEF Live

\* The ticks: a unit that goes on works for the same entry, which no other unit
\* has completed.
LEMMA LiveTicks ==
    ASSUME Live, BackTypes
    PROVE  LET s == TickedScoreboard
               f == TickedUnits
           IN  /\ ReadyComputed(s) /\ UnitsCompute(f) /\ ~ f[Hit].busy
               /\ UnitsServe(s, f)
               /\ \A b \in 0 .. SIZE - 1 :
                     Awaits(scoreboard, fu, b) => Awaits(s, f, b) /\ s.entries[b] = scoreboard.entries[b]
<1> DEFINE s == TickedScoreboard
           f == TickedUnits
<1>0. /\ \A i \in 0 .. SIZE - 1 : s.entries[i] = TickedEntry(i)
      /\ scoreboard.entries \in [0 .. SIZE - 1 -> BoardEntry(Tag, PC)]
      /\ fu \in [Units -> GoodUnit] /\ Hit \in Units
  BY TicksBoard, BoardMembers, UnitNames DEF BackTypes, GoodBoard
<1>1. \A u \in Units : f[u].busy =>
         /\ fu[u].busy /\ fu[u].remaining > 1
         /\ f[u].trans_id = fu[u].trans_id /\ f[u].result = fu[u].result
  BY <1>0, TicksUnits
<1>2. \A u \in Units : fu[u].busy => fu[u].result = Computed /\ (u = Hit => fu[u].remaining = 1)
  BY DEF Live, UnitsCompute
<1>3. UnitsCompute(f) /\ ~ f[Hit].busy
  BY <1>0, <1>1, <1>2 DEF UnitsCompute
<1>4. ASSUME NEW i \in 0 .. SIZE - 1, Completing(i) # {}
      PROVE  TickedEntry(i).ready /\ TickedEntry(i).result = Computed
  <2> DEFINE r == fu[TickOrder[Max(Completing(i))]].result
  <2>1. r = Computed
    <3>1. \E u \in Units : u = TickOrder[Max(Completing(i))] /\ fu[u].busy
      BY <1>4, CompletingLast
    <3> QED
      BY <1>2, <3>1
  <2>2. TickedEntry(i) = [scoreboard.entries[i] EXCEPT !.ready = TRUE, !.rd = 0, !.result = r]
    BY <1>4 DEF TickedEntry
  <2> HIDE DEF r
  <2>3. scoreboard.entries[i] \in BoardEntry(Tag, PC)
    BY <1>0
  <2> QED
    BY <2>1, <2>2, <2>3 DEF BoardEntry
<1>5. ASSUME NEW i \in 0 .. SIZE - 1, Completing(i) = {}
      PROVE  TickedEntry(i) = scoreboard.entries[i]
  BY <1>5 DEF TickedEntry
<1>6. ReadyComputed(s)
  BY <1>0, <1>4, <1>5 DEF ReadyComputed, Live
<1>7. ASSUME NEW i \in 0 .. SIZE - 1, Completing(i) # {}
      PROVE  \E v \in Units : fu[v].busy /\ fu[v].remaining = 1 /\ fu[v].trans_id = i
  BY <1>7 DEF Completing, Done, Units
<1>8. UnitsServe(s, f)
  <2> SUFFICES ASSUME NEW u \in Units, f[u].busy
               PROVE  /\ Unfinished(s, f[u].trans_id)
                      /\ \A v \in Units : v # u /\ f[v].busy => f[v].trans_id # f[u].trans_id
    BY DEF UnitsServe
  <2> DEFINE i == fu[u].trans_id
  <2>1. fu[u].busy /\ fu[u].remaining > 1 /\ f[u].trans_id = i /\ i \in 0 .. SIZE - 1
    BY <1>0, <1>1 DEF GoodUnit
  <2>2. UnitsServe(scoreboard, fu)
    <3>1. u # Hit
      BY <1>3
    <3> QED
      BY <2>1, <3>1 DEF Live, OnlyHit
  <2>3. Unfinished(scoreboard, i) /\ \A v \in Units : v # u /\ fu[v].busy => fu[v].trans_id # i
    BY <2>1, <2>2 DEF UnitsServe
  <2> HIDE DEF i
  <2>4. Completing(i) = {}
    <3>1. ASSUME NEW v \in Units, fu[v].busy, fu[v].remaining = 1, fu[v].trans_id = i
          PROVE  FALSE
      <4>1. v = u
        BY <2>3, <3>1
      <4> QED
        BY <1>0, <2>1, <3>1, <4>1 DEF GoodUnit
    <3> QED
      BY <1>7, <2>1, <3>1
  <2>5. Unfinished(s, i)
    BY <1>0, <1>5, <2>1, <2>3, <2>4 DEF Unfinished
  <2> QED
    BY <1>1, <2>1, <2>3, <2>5
<1>9. ASSUME NEW b \in 0 .. SIZE - 1, Awaits(scoreboard, fu, b)
      PROVE  Awaits(s, f, b) /\ s.entries[b] = scoreboard.entries[b]
  <2>1. Completing(b) = {}
    BY <1>7, <1>9 DEF Awaits
  <2>2. s.entries[b] = scoreboard.entries[b]
    BY <1>0, <1>5, <2>1
  <2> QED
    BY <1>1, <1>9, <2>2 DEF Awaits, Unfinished
<1> QED
  BY <1>3, <1>6, <1>8, <1>9

\* EX changes no valid bit of the entries it keeps.
LEMMA KeptValid ==
    ASSUME NEW s, NEW t, NEW b, GoodBoard(s, Tag, PC), Kept(s, t, b)
    PROVE  \A i \in 0 .. SIZE - 1 : t.entries[i].valid <=> s.entries[i].valid
<1>1. t.head = s.head /\ t.count = s.count
  BY DEF Kept
<1>2. \A i \in 0 .. SIZE - 1 : s.entries[i].valid <=> InWindow(i, s.head, s.count, SIZE)
  BY DEF GoodBoard, ScoreboardCoherent, Coherent
<1>3. \A i \in 0 .. SIZE - 1 : t.entries[i].valid <=> InWindow(i, t.head, t.count, SIZE)
  BY DEF Kept, GoodBoard, ScoreboardCoherent, Coherent
<1> QED
  BY <1>1, <1>2, <1>3

LEMMA LiveEx ==
    ASSUME Base, Live, WalksAlone(program), EX_stage
    PROVE  Live'
<1> DEFINE s == TickedScoreboard
           f == TickedUnits
           b == issue_ex_reg.rob_index
<1>0. FrontTypes /\ BackTypes /\ program \in Programs
  BY DEF Base, FrontTypes
<1>1. /\ Base' /\ (ExIdles \/ ExRuns)
      /\ Pending' = IF stall_ex' THEN issue_ex_reg ELSE Bubble
  BY ExBase
<1>2. /\ ReadyComputed(s) /\ UnitsCompute(f) /\ UnitsServe(s, f)
      /\ \A i \in 0 .. SIZE - 1 : Awaits(scoreboard, fu, i) => Awaits(s, f, i)
  BY <1>0, LiveTicks
<1>3. /\ GoodBoard(s, Tag, PC) /\ f \in [Units -> GoodUnit]
  BY <1>0, TicksBoard, TicksUnits DEF BackTypes
<1>4. program' = program /\ ~ Flushed' /\ stage = "ex"
  BY DEF EX_stage, Flushed, Early
<1>5. CASE ExIdles
  <2>1. /\ scoreboard' = s /\ fu' = f /\ Pending' = Bubble /\ (buffer_empty => buffer_empty')
    BY <1>1, <1>5 DEF ExIdles, buffer_empty
  <2>2. StoreFree'
    BY <1>4, <2>1 DEF Live, StoreFree
  <2> HIDE DEF s, f
  <2> QED
    BY <1>2, <1>4, <2>1, <2>2 DEF Live
<1>6. CASE ExRuns
  <2>1. /\ issue_ex_reg \in ExInstr /\ issue_ex_reg.pc \in PC /\ b \in 0 .. SIZE - 1
        /\ Pending = issue_ex_reg /\ issue_ex_reg # Bubble
    <3>1. issue_ex_reg \in ExInstr /\ ~ flush_pipeline
      BY <1>6 DEF ExRuns
    <3>2. issue_ex_reg # Bubble
      BY <3>1 DEF ExInstr, Bubble
    <3> QED
      BY <1>4, <3>1, <3>2 DEF Pending, Early, ExInstr
  <2>2. Awaits(s, f, b)
    BY <1>2, <2>1 DEF Live
  <2>3. KindAt(issue_ex_reg.pc) = "STORE" => "dtlb" \notin program.events
    BY <2>1 DEF WalksAlone, KindAt
  <2>4. ~ WalkPossible
    BY DEF Live, StoreFree, WalkPossible
  <2>5. ExReplays(s, f) \/ ExTraps(s) \/ ExFinishes(s, f) \/ ExStarts(s, f)
    BY <1>6 DEF ExRuns, ExOutcome
  <2> HIDE DEF s, f, b
  <2>6. StoreFree'
    BY <1>4, <2>3, <2>5 DEF Live, StoreFree, buffer_empty, ExReplays, ExTraps, ExFinishes, ExStarts
  <2>7. CASE ExReplays(s, f)
    <3>1. scoreboard' = s /\ fu' = f /\ Pending' = issue_ex_reg
      BY <1>1, <2>4, <2>7 DEF ExReplays
    <3> QED
      BY <1>2, <1>4, <2>2, <2>6, <3>1 DEF Live, b
  <2>8. CASE ExTraps(s)
    <3>1. scoreboard' = flush(s) /\ fu' = AllIdle /\ Pending' = Bubble
      BY <1>1, <2>8 DEF ExTraps
    <3>2. ReadyComputed(scoreboard')
      BY <1>3, <3>1, FlushUnready
    <3> QED
      BY <1>4, <2>6, <3>1, <3>2, IdleLive DEF Live
  <2>9. CASE ExFinishes(s, f)
    <3>1. /\ Finished(s, scoreboard', b) /\ Kept(s, scoreboard', b) /\ Pending' = Bubble
          /\ \A u \in Units : fu'[u] = f[u] \/ fu'[u] = Idle
      BY <1>1, <2>9 DEF ExFinishes, Finished, b
    <3>2. ReadyComputed(scoreboard')
      BY <1>2, <3>1 DEF ReadyComputed, Finished, Kept
    <3>3. \A u \in Units : fu'[u].busy => fu'[u] = f[u] /\ f[u].busy
      BY <3>1, IdleUnits
    <3>4. UnitsCompute(fu')
      BY <1>2, <3>3 DEF UnitsCompute
    <3>5. \A i \in 0 .. SIZE - 1 : i # b /\ Unfinished(s, i) => Unfinished(scoreboard', i)
      BY <3>1 DEF Kept, Unfinished
    <3>6. \A u \in Units : f[u].busy => f[u].trans_id \in 0 .. SIZE - 1 /\ f[u].trans_id # b
      BY <1>3, <2>2 DEF GoodUnit, Awaits
    <3>7. UnitsServe(scoreboard', fu')
      BY <1>2, <3>3, <3>5, <3>6 DEF UnitsServe
    <3> QED
      BY <1>4, <2>6, <3>1, <3>2, <3>4, <3>7 DEF Live
  <2>10. CASE ExStarts(s, f)
    <3>1. /\ Untouched(s, scoreboard', b) /\ Kept(s, scoreboard', b) /\ Pending' = Bubble
          /\ UnitStarts(f)
      BY <1>1, <2>4, <2>10 DEF ExStarts, Untouched, b
    <3>2. ReadyComputed(scoreboard')
      BY <1>2, <3>1 DEF ReadyComputed, Untouched, Kept
    <3>3. \A i \in 0 .. SIZE - 1 : Unfinished(s, i) => Unfinished(scoreboard', i)
      BY <1>3, <3>1, KeptValid DEF Kept, Untouched, Unfinished
    <3>4. \A u \in Units : f[u].busy => f[u].trans_id \in 0 .. SIZE - 1 /\ f[u].trans_id # b
      BY <1>3, <2>2 DEF GoodUnit, Awaits
    <3>5. CASE fu' = f
      BY <1>2, <1>4, <2>6, <3>1, <3>2, <3>3, <3>4, <3>5 DEF Live, UnitsServe
    <3>6. ASSUME NEW u \in Units, NEW c \in Nat \ {0}, fu' = Start(f, u, c, Computed),
                 u = Hit => c = 1
          PROVE  Live'
      <4> DEFINE x == [busy |-> TRUE, remaining |-> c, result |-> Computed, trans_id |-> b]
      <4>1. fu' = [f EXCEPT ![u] = x]
        BY <3>6 DEF Start, b
      <4>2. x.busy /\ x.remaining = c /\ x.result = Computed /\ x.trans_id = b
        OBVIOUS
      <4> HIDE DEF x
      <4>3. fu'[u] = x /\ \A v \in Units : v # u => fu'[v] = f[v]
        BY <1>3, <4>1
      <4>4. UnitsCompute(fu')
        BY <1>2, <3>6, <4>2, <4>3 DEF UnitsCompute
      <4>5. Unfinished(scoreboard', b)
        BY <2>1, <2>2, <3>3 DEF Awaits
      <4>6. UnitsServe(scoreboard', fu')
        BY <1>2, <3>3, <3>4, <4>2, <4>3, <4>5 DEF UnitsServe
      <4> QED
        BY <1>4, <2>6, <3>1, <3>2, <4>4, <4>6 DEF Live
    <3> QED
      BY <3>1, <3>5, <3>6 DEF UnitStarts
  <2> QED
    BY <2>5, <2>7, <2>8, <2>9, <2>10
<1> QED
  BY <1>1, <1>5, <1>6

LEMMA LiveStep ==
    ASSUME Base, Live, WalksAlone(program), [Next]_vars
    PROVE  Live'
<1>0. BackTypes /\ FlushEnds /\ GoodBoard(scoreboard, Tag, PC)
  BY DEF Base, BackTypes
<1>1. CASE UNCHANGED vars
  <2>1. Pending' = Pending /\ UNCHANGED <<stage, program, backVars, flush_pipeline>>
    BY <1>1, BaseStutters
  <2> QED
    BY <2>1, LiveSame DEF Flushed
<1>2. CASE LatchTransfer
  <2>1. /\ Pending' = Pending /\ UNCHANGED <<program, backVars>> /\ ~ Flushed /\ ~ Flushed'
    BY <1>0, <1>2, LatchBase DEF LatchTransfer, Flushed, FlushEnds, Early, flushVars
  <2> QED
    BY <2>1, LiveSame
<1>3. CASE cpu_process_IRQ
  <2>1. /\ program' = program /\ stage \in Early /\ stage' \in Early /\ ~ flush_pipeline
    BY <1>0, <1>3 DEF cpu_process_IRQ, FlushEnds, Early
  <2>2. CASE Interrupted /\ Pending' = Bubble
    <3>1. /\ Flushed' /\ scoreboard' = flush(scoreboard) /\ fu' = CancelForIrq
          /\ buffer_empty => buffer_empty'
      BY <2>1, <2>2 DEF Interrupted, Flushed, buffer_empty
    <3> QED
      BY <1>0, <2>1, <2>2, <3>1, LiveFlush
  <2>3. CASE UNCHANGED <<backVars, flush_pipeline>> /\ Pending' = Pending
    BY <2>1, <2>3, LiveSame DEF Flushed
  <2> QED
    BY <1>3, <2>2, <2>3, IrqBase
<1>4. CASE Commit_stage
  <2>1. /\ program' = program /\ fu' = fu /\ (Flushed' <=> Flushed)
    BY <1>4 DEF Commit_stage, Flushed, Early, flushVars
  <2>2. /\ BackTypes' /\ Pending' = Pending /\ (scoreboard' = scoreboard \/ Committed)
        /\ buffer_empty => buffer_empty'
    BY <1>4, CommitBase DEF Base
  <2>3. CASE scoreboard' = scoreboard
    <3>1. StoreFree'
      BY <2>1, <2>2 DEF Live, StoreFree
    <3>2. /\ ReadyComputed(scoreboard') /\ UnitsCompute(fu')
          /\ IF Flushed' THEN OnlyHit(fu') ELSE UnitsServe(scoreboard', fu')
          /\ Pending' # Bubble => Awaits(scoreboard', fu', Pending'.rob_index)
      BY <2>1, <2>2, <2>3 DEF Live
    <3> QED
      BY <3>1, <3>2 DEF Live
  <2>4. CASE Committed
    BY <1>0, <2>1, <2>2, <2>4, LiveCommit
  <2> QED
    BY <2>2, <2>3, <2>4
<1>5. CASE EX_stage
  BY <1>5, LiveEx
<1>6. CASE Issue_stage
  <2>1. \/ scoreboard' = scoreboard /\ stage' = "id" /\ Pending' = Pending
        \/ Base' /\ Dispatched /\ Pending = Bubble /\ Pending' = issue_ex_next'
    BY <1>6, IssueBase
  <2>2. CASE scoreboard' = scoreboard /\ stage' = "id" /\ Pending' = Pending
    <3>1. UNCHANGED <<backVars, program>> /\ ~ Flushed /\ ~ Flushed'
      BY <1>6, <2>2 DEF Issue_stage, backVars, Flushed, Early
    <3> QED
      BY <2>2, <3>1, LiveSame
  <2>3. CASE Base' /\ Dispatched /\ Pending = Bubble /\ Pending' = issue_ex_next'
    BY <1>6, <2>3, LiveDispatch
  <2> QED
    BY <2>1, <2>2, <2>3
<1>7. CASE Issue_illegal
  <2>1. program' = program /\ ~ Flushed
    BY <1>7 DEF Issue_illegal, Flushed, Early
  <2>2. /\ BackTypes' /\ Pending' = Bubble /\ Pending = Bubble
        /\ \/ stage' = "drain" /\ Committed /\ fu' = fu
           \/ stage' = "id" /\ scoreboard' = flush(scoreboard) /\ fu' = AllIdle
        /\ buffer_empty => buffer_empty'
    BY <1>7, DrainBase DEF Base
  <2>3. ~ Flushed'
    BY <2>2 DEF Flushed, Early
  <2>4. CASE Committed /\ fu' = fu
    BY <1>0, <2>1, <2>2, <2>3, <2>4, LiveCommit
  <2>5. CASE scoreboard' = flush(scoreboard) /\ fu' = AllIdle
    BY <1>0, <2>1, <2>2, <2>5, LiveFlush
  <2> QED
    BY <2>2, <2>4, <2>5
<1>8. CASE ID_stage
  <2>1. /\ Pending' = Pending /\ UNCHANGED <<program, backVars>> /\ ~ Flushed /\ ~ Flushed'
    BY <1>8, IdBase DEF ID_stage, Flushed, Early
  <2> QED
    BY <2>1, LiveSame
<1>9. CASE Fetch_stage
  <2>1. /\ Pending' = Pending /\ UNCHANGED <<program, backVars>> /\ ~ Flushed /\ ~ Flushed'
    BY <1>9, FetchBase DEF Fetch_stage, Flushed, Early
  <2> QED
    BY <2>1, LiveSame
<1>10. CASE PCGen_stage
  <2>1. Pending' \in {Bubble, Pending} /\ UNCHANGED <<program, backVars>> /\ ~ Flushed /\ ~ Flushed'
    BY <1>10, PCGenBase DEF PCGen_stage, Flushed, Early
  <2> QED
    BY <2>1, LiveSame
<1> QED
  BY <1>1, <1>2, <1>3, <1>4, <1>5, <1>6, <1>7, <1>8, <1>9, <1>10 DEF Next

LEMMA LiveHolds ==
    ASSUME \A p \in Programs : WalksAlone(p)
    PROVE  Spec => [](Base /\ Live)
<1>1. Init => Base /\ Live
  BY BaseInit, LiveInit
<1>2. Base => WalksAlone(program)
  BY DEF Base, FrontTypes
<1>3. Base /\ Live /\ [Next]_vars => Live'
  BY <1>2, LiveStep
<1> QED
  BY <1>1, <1>3, BaseHolds, PTL DEF Spec

\* The instruction in EX is in the scoreboard, and nothing was allocated after
\* it: a mispredicted branch finds no younger entry to flush, and an entry is
\* never retired before its instruction has executed (Issue, EX, Commit).
\* Programs with DTLB walks are taken without stores: see WalksAlone.
THEOREM ExIsYoungestHolds ==
    ASSUME \A p \in Programs : WalksAlone(p)
    PROVE  Spec => []ExIsYoungest
<1>1. Base /\ Live => ExIsYoungest
  <2> SUFFICES ASSUME Base, Live, stage = "ex", issue_ex_reg # Bubble, ~ flush_pipeline
               PROVE  /\ ~ is_empty(scoreboard)
                      /\ scoreboard.tail = (issue_ex_reg.rob_index + 1) % SIZE
    BY DEF ExIsYoungest
  <2>1. Pending = issue_ex_reg
    BY DEF Pending, Early
  <2>2. GoodBoard(scoreboard, Tag, PC) /\ issue_ex_reg.rob_index \in 0 .. SIZE - 1
    BY DEF Base, BackTypes, ExLatch, ExInstr
  <2>3. scoreboard.entries[issue_ex_reg.rob_index].valid
    BY <2>1 DEF Live, Awaits, Unfinished
  <2>4. ~ is_empty(scoreboard)
    BY <2>2, <2>3, TailIsFree
  <2>5. scoreboard.tail = (issue_ex_reg.rob_index + 1) % SIZE
    BY <2>1 DEF Base, TailFollows
  <2> QED
    BY <2>4, <2>5
<1> QED
  BY <1>1, LiveHolds, PTL

\* Commit writes back what the instruction computed, never the placeholder of a
\* load in flight nor the contents of a reused entry, in every interleaving of
\* completions, interrupts, flushes and reallocation (complete, allocate, flush
\* and the EX ticks).
THEOREM CommitsComputedResultsHolds ==
    ASSUME \A p \in Programs : WalksAlone(p)
    PROVE  Spec => []CommitsComputedResults
<1>1. Base /\ Live => CommitsComputedResults
  <2> SUFFICES ASSUME Base, Live, head_ready(scoreboard)
               PROVE  get_head(scoreboard).result = Computed
    BY DEF CommitsComputedResults
  <2>1. scoreboard.head \in 0 .. SIZE - 1
    BY DEF Base, BackTypes, GoodBoard, Board
  <2> QED
    BY <2>1 DEF Live, ReadyComputed, head_ready, get_head
<1> QED
  BY <1>1, LiveHolds, PTL

-----------------------------------------------------------------------------
(* The speculative store queue and the scoreboard.                           *)

\* Distance of slot i from the head h.
At(h, i) == (i + SIZE - h) % SIZE

\* Entry i holds a store that EX has executed and Commit has not retired.
Waits(e, i) == e[i].valid /\ e[i].is_store /\ e[i].ready

\* The queue q lists exactly those entries, oldest first.
Lists(q, e, h) ==
    /\ \A k \in 1 .. Len(q) : Waits(e, q[k])
    /\ \A i \in 0 .. SIZE - 1 : Waits(e, i) => \E k \in 1 .. Len(q) : q[k] = i
    /\ \A j, k \in 1 .. Len(q) : j < k => At(h, q[j]) < At(h, q[k])

LEMMA Distance ==
    ASSUME NEW h \in 0 .. SIZE - 1, NEW i \in 0 .. SIZE - 1
    PROVE  /\ At(h, i) = IF i >= h THEN i - h ELSE i + SIZE - h
           /\ At(h, i) \in 0 .. SIZE - 1
<1>1. SIZE \in Nat \ {0} /\ h \in 0 .. SIZE
  BY Constants
<1>2. /\ (i + SIZE - h) % SIZE = IF i >= h THEN i - h ELSE i + SIZE - h
      /\ (i + SIZE - h) % SIZE \in 0 .. SIZE - 1
  BY <1>1, Down
<1> QED
  BY <1>2 DEF At

\* Only the head is at distance 0; everyone else moves one closer when it leaves.
LEMMA CloserByOne ==
    ASSUME NEW h \in 0 .. SIZE - 1, NEW i \in 0 .. SIZE - 1
    PROVE  /\ (h + 1) % SIZE \in 0 .. SIZE - 1
           /\ At(h, i) = 0 <=> i = h
           /\ i # h => At((h + 1) % SIZE, i) = At(h, i) - 1
<1> DEFINE n == (h + 1) % SIZE
<1>1. SIZE \in Nat \ {0} /\ 1 \in 0 .. SIZE
  BY Constants
<1>2. n = (IF h + 1 < SIZE THEN h + 1 ELSE h + 1 - SIZE) /\ n \in 0 .. SIZE - 1
  BY <1>1, Up
<1> HIDE DEF n
<1>3. At(n, i) = IF i >= n THEN i - n ELSE i + SIZE - n
  BY <1>2, Distance
<1>4. At(h, i) = IF i >= h THEN i - h ELSE i + SIZE - h
  BY Distance
<1> DEFINE x == At(n, i)
           y == At(h, i)
<1>5. x = (IF i >= n THEN i - n ELSE i + SIZE - n) /\ y = (IF i >= h THEN i - h ELSE i + SIZE - h)
  BY <1>3, <1>4
<1> HIDE DEF x, y
<1>6. (y = 0 <=> i = h) /\ (i # h => x = y - 1)
  BY <1>1, <1>2, <1>5
<1> QED
  BY <1>2, <1>6 DEF x, y, n

\* The entry before the tail is the farthest of the window.
LEMMA YoungestFarthest ==
    ASSUME NEW h \in 0 .. SIZE - 1, NEW c \in 0 .. SIZE, NEW b \in 0 .. SIZE - 1,
           (h + c) % SIZE = (b + 1) % SIZE,
           NEW i \in 0 .. SIZE - 1, i # b, InWindow(i, h, c, SIZE)
    PROVE  At(h, i) < At(h, b)
<1> DEFINE x == At(h, i)
           y == At(h, b)
           t == (h + c) % SIZE
           u == (b + 1) % SIZE
<1>1. SIZE \in Nat \ {0} /\ 1 \in 0 .. SIZE
  BY Constants
<1>2. /\ t = IF h + c < SIZE THEN h + c ELSE h + c - SIZE
      /\ u = IF b + 1 < SIZE THEN b + 1 ELSE b + 1 - SIZE
  BY <1>1, Up
<1>3. x = (IF i >= h THEN i - h ELSE i + SIZE - h) /\ y = (IF b >= h THEN b - h ELSE b + SIZE - h)
  BY Distance
<1>4. (h <= i /\ i < h + c) \/ (i < h /\ i + SIZE < h + c)
  BY <1>1, WindowRuns
<1>5. t = u
  OBVIOUS
<1> HIDE DEF x, y, t, u
<1>6. x < y
  BY <1>1, <1>2, <1>3, <1>4, <1>5
<1> QED
  BY <1>6 DEF x, y

Indices == Seq(0 .. SIZE - 1)

LEMMA IndexSequence ==
    ASSUME NEW q \in Indices
    PROVE  Len(q) \in Nat /\ \A k \in 1 .. Len(q) : q[k] \in 0 .. SIZE - 1
<1>1. Len(q) \in Nat
  BY LenProperties DEF Indices
<1>2. \A k \in 1 .. Len(q) : q[k] \in 0 .. SIZE - 1
  BY ElementOfSeq, Zenon DEF Indices
<1> QED
  BY <1>1, <1>2

LEMMA ListsSame ==
    ASSUME NEW q \in Indices, NEW e, NEW d, NEW h, Lists(q, e, h),
           \A i \in 0 .. SIZE - 1 : Waits(d, i) <=> Waits(e, i)
    PROVE  Lists(q, d, h)
  BY IndexSequence DEF Lists

LEMMA ListsNothing ==
    ASSUME NEW e, NEW h, \A i \in 0 .. SIZE - 1 : ~ e[i].valid
    PROVE  Lists(<<>>, e, h)
  BY DEF Lists, Waits

\* A store at the head is the first of the queue: both leave together.
LEMMA ListsPop ==
    ASSUME NEW q \in Indices, NEW e, NEW d, NEW h \in 0 .. SIZE - 1, Lists(q, e, h),
           Waits(e, h), ~ Waits(d, h),
           \A i \in 0 .. SIZE - 1 : i # h => (Waits(d, i) <=> Waits(e, i))
    PROVE  q # <<>> /\ Lists(Tail(q), d, (h + 1) % SIZE)
<1> DEFINE n == Len(q)
           r == Tail(q)
           g == (h + 1) % SIZE
<1>1. n \in Nat /\ \A k \in 1 .. n : q[k] \in 0 .. SIZE - 1
  BY IndexSequence
<1>2. PICK m \in 1 .. n : q[m] = h
  BY DEF Lists
<1>3. q # <<>> /\ n >= 1
  BY <1>1, <1>2
<1>4. Len(r) = n - 1 /\ \A k \in 1 .. n - 1 : r[k] = q[k + 1]
  BY <1>3 DEF Indices
<1>5. \A j, k \in 1 .. n : j < k => At(h, q[j]) < At(h, q[k])
  BY DEF Lists
<1>6. \A k \in 1 .. n : At(h, q[k]) \in 0 .. SIZE - 1
  BY <1>1, Distance
<1>7. At(h, h) = 0
  BY CloserByOne
<1> DEFINE x == [k \in 1 .. n |-> At(h, q[k])]
<1>8. \A k \in 1 .. n : x[k] = At(h, q[k])
  OBVIOUS
<1> HIDE DEF x, n, r, g
<1>9. m = 1
  <2>1. x[m] = 0 /\ x[1] \in 0 .. SIZE - 1 /\ (1 < m => x[1] < x[m])
    BY <1>1, <1>2, <1>3, <1>5, <1>6, <1>7, <1>8
  <2> QED
    BY <1>1, <1>2, <2>1, Constants
<1>10. \A k \in 2 .. n : q[k] # h
  <2> SUFFICES ASSUME NEW k \in 2 .. n, q[k] = h PROVE FALSE
    OBVIOUS
  <2>1. 1 \in 1 .. n /\ k \in 1 .. n /\ 1 < k
    BY <1>1
  <2>2. x[1] < x[k] /\ x[1] = 0 /\ x[k] = 0
    BY <1>2, <1>5, <1>7, <1>8, <1>9, <2>1
  <2> QED
    BY <2>2
<1>11. \A k \in 1 .. n - 1 : k + 1 \in 2 .. n /\ k + 1 \in 1 .. n
  BY <1>1
<1>12. \A k \in 1 .. Len(r) : Waits(d, r[k])
  BY <1>1, <1>4, <1>10, <1>11 DEF Lists, n
<1>13. ASSUME NEW i \in 0 .. SIZE - 1, Waits(d, i)
       PROVE  \E k \in 1 .. Len(r) : r[k] = i
  <2>1. i # h /\ Waits(e, i)
    BY <1>13
  <2>2. PICK k \in 1 .. n : q[k] = i
    BY <2>1 DEF Lists, n
  <2>3. k # 1 /\ k - 1 \in 1 .. n - 1 /\ (k - 1) + 1 = k
    BY <1>1, <1>2, <1>9, <2>1, <2>2
  <2> QED
    BY <1>4, <2>2, <2>3
<1>14. ASSUME NEW j \in 1 .. Len(r), NEW k \in 1 .. Len(r), j < k
       PROVE  At(g, r[j]) < At(g, r[k])
  <2> DEFINE a == q[j + 1]
             b == q[k + 1]
  <2>1. /\ j + 1 \in 1 .. n /\ k + 1 \in 1 .. n /\ j + 1 \in 2 .. n /\ k + 1 \in 2 .. n
        /\ j + 1 < k + 1
    BY <1>1, <1>4, <1>11, <1>14
  <2>2. /\ r[j] = a /\ r[k] = b
        /\ a \in 0 .. SIZE - 1 /\ b \in 0 .. SIZE - 1 /\ a # h /\ b # h
        /\ At(h, a) < At(h, b)
    BY <1>1, <1>4, <1>5, <1>10, <1>14, <2>1
  <2> HIDE DEF a, b
  <2>3. At(g, a) = At(h, a) - 1 /\ At(g, b) = At(h, b) - 1
    BY <2>2, CloserByOne DEF g
  <2>4. At(h, a) \in 0 .. SIZE - 1 /\ At(h, b) \in 0 .. SIZE - 1
    BY <2>2, Distance
  <2> QED
    BY <2>2, <2>3, <2>4, Constants
<1>15. Lists(r, d, g)
  BY <1>12, <1>13, <1>14 DEF Lists
<1> QED
  BY <1>3, <1>15 DEF r, g

\* The head leaves and is no store: the queue stays.
LEMMA ListsSkip ==
    ASSUME NEW q \in Indices, NEW e, NEW d, NEW h \in 0 .. SIZE - 1, Lists(q, e, h),
           ~ Waits(e, h), \A i \in 0 .. SIZE - 1 : Waits(d, i) <=> Waits(e, i)
    PROVE  Lists(q, d, (h + 1) % SIZE)
<1> DEFINE n == Len(q)
           g == (h + 1) % SIZE
<1>1. n \in Nat /\ \A k \in 1 .. n : q[k] \in 0 .. SIZE - 1
  BY IndexSequence
<1>2. \A k \in 1 .. n : q[k] # h
  BY DEF Lists
<1>3. Lists(q, d, h)
  BY ListsSame
<1> HIDE DEF n, g
<1>4. ASSUME NEW j \in 1 .. n, NEW k \in 1 .. n, j < k
      PROVE  At(g, q[j]) < At(g, q[k])
  <2> DEFINE a == q[j]
             b == q[k]
  <2>1. a \in 0 .. SIZE - 1 /\ b \in 0 .. SIZE - 1 /\ a # h /\ b # h /\ At(h, a) < At(h, b)
    BY <1>1, <1>2, <1>3, <1>4 DEF Lists, n
  <2> HIDE DEF a, b
  <2>2. At(g, a) = At(h, a) - 1 /\ At(g, b) = At(h, b) - 1
    BY <2>1, CloserByOne DEF g
  <2>3. At(h, a) \in 0 .. SIZE - 1 /\ At(h, b) \in 0 .. SIZE - 1
    BY <2>1, Distance
  <2>4. At(g, a) < At(g, b)
    BY <2>1, <2>2, <2>3, Constants
  <2> QED
    BY <2>4 DEF a, b
<1> QED
  BY <1>3, <1>4 DEF Lists, n, g

\* A store becomes ready in the youngest entry and joins at the end.
LEMMA ListsPush ==
    ASSUME NEW q \in Indices, NEW e, NEW d, NEW h, NEW b \in 0 .. SIZE - 1, Lists(q, e, h),
           ~ Waits(e, b), Waits(d, b),
           \A i \in 0 .. SIZE - 1 : i # b => (Waits(d, i) <=> Waits(e, i)),
           \A i \in 0 .. SIZE - 1 : i # b /\ Waits(e, i) => At(h, i) < At(h, b)
    PROVE  Lists(Append(q, b), d, h)
<1> DEFINE n == Len(q)
           r == Append(q, b)
<1>1. n \in Nat /\ \A k \in 1 .. n : q[k] \in 0 .. SIZE - 1
  BY IndexSequence
<1>2. Len(r) = n + 1 /\ r[n + 1] = b /\ \A k \in 1 .. n : r[k] = q[k]
  BY AppendProperties DEF Indices
<1>3. \A k \in 1 .. n : Waits(e, q[k]) /\ q[k] # b
  BY DEF Lists
<1>4. \A j, k \in 1 .. n : j < k => At(h, q[j]) < At(h, q[k])
  BY DEF Lists
<1>5. \A i \in 0 .. SIZE - 1 : Waits(e, i) => \E k \in 1 .. n : q[k] = i
  BY DEF Lists
<1> HIDE DEF n, r
<1>6. \A k \in 1 .. n + 1 : k = n + 1 \/ k \in 1 .. n
  BY <1>1
<1>7. \A k \in 1 .. n : k \in 1 .. n + 1
  BY <1>1
<1>8. \A k \in 1 .. n + 1 : Waits(d, r[k])
  BY <1>1, <1>2, <1>3, <1>6
<1>9. \A i \in 0 .. SIZE - 1 : Waits(d, i) => \E k \in 1 .. n + 1 : r[k] = i
  <2> SUFFICES ASSUME NEW i \in 0 .. SIZE - 1, Waits(d, i)
               PROVE  \E k \in 1 .. n + 1 : r[k] = i
    OBVIOUS
  <2>1. CASE i = b
    <3>1. n + 1 \in 1 .. n + 1
      BY <1>1
    <3> QED
      BY <1>2, <2>1, <3>1
  <2>2. CASE i # b
    BY <1>2, <1>5, <1>7, <2>2
  <2> QED
    BY <2>1, <2>2
<1>10. ASSUME NEW j \in 1 .. n + 1, NEW k \in 1 .. n + 1, j < k
       PROVE  At(h, r[j]) < At(h, r[k])
  <2>1. j \in 1 .. n
    BY <1>1, <1>10
  <2>2. CASE k \in 1 .. n
    BY <1>2, <1>4, <1>10, <2>1, <2>2
  <2>3. CASE k = n + 1
    BY <1>1, <1>2, <1>3, <2>1, <2>3
  <2> QED
    BY <1>6, <2>2, <2>3
<1> QED
  BY <1>2, <1>8, <1>9, <1>10 DEF Lists, r

-----------------------------------------------------------------------------
\* The store on its way to EX has an entry marked as one and a slot to go to.
StoreRoom ==
    Pending # Bubble =>
        /\ scoreboard.entries[Pending.rob_index].is_store <=> KindAt(Pending.pc) = "STORE"
        /\ KindAt(Pending.pc) = "STORE" => Len(spec_stores) < SPEC_DEPTH

\* No unit works for a store.
UnitsSpare(s, f) ==
    \A u \in Units : f[u].busy =>
        ~ (s.entries[f[u].trans_id].valid /\ s.entries[f[u].trans_id].is_store)

\* The drain of Issue is the exception: it retires a store also when commit_store
\* refuses it because the committed queue is full.
Matched ==
    stage # "drain" =>
        /\ Lists(spec_stores, scoreboard.entries, scoreboard.head)
        /\ StoreRoom
        /\ UnitsSpare(scoreboard, fu)

LEMMA FlushEmpties ==
    ASSUME NEW s, GoodBoard(s, Tag, PC)
    PROVE  \A i \in 0 .. SIZE - 1 : ~ flush(s).entries[i].valid
<1>1. GoodBoard(flush(s), Tag, PC) /\ is_empty(flush(s))
  BY FlushGood DEF is_empty
<1> QED
  BY <1>1, TailIsFree

LEMMA MatchedInit ==
    ASSUME Init PROVE Matched
<1>1. \A i \in 0 .. SIZE - 1 : ~ scoreboard.entries[i].valid
  BY DEF Init, NewScoreboard, FreshEntry
<1>2. Lists(spec_stores, scoreboard.entries, scoreboard.head)
  BY <1>1, ListsNothing DEF Init
<1>3. Pending = Bubble
  BY DEF Init, Pending, Early
<1>4. UnitsSpare(scoreboard, fu)
  BY IdleUnits DEF Init, UnitsSpare, AllIdle
<1> QED
  BY <1>2, <1>3, <1>4 DEF Matched, StoreRoom

LEMMA MatchedSame ==
    ASSUME Matched, stage' # "drain" => stage # "drain", UNCHANGED backVars,
           program' = program, Pending' \in {Bubble, Pending}
    PROVE  Matched'
<1>1. scoreboard' = scoreboard /\ fu' = fu /\ spec_stores' = spec_stores
  BY DEF backVars
<1>2. StoreRoom => StoreRoom'
  BY <1>1 DEF StoreRoom, KindAt
<1> QED
  BY <1>1, <1>2 DEF Matched

LEMMA MatchedFlush ==
    ASSUME NEW s, GoodBoard(s, Tag, PC), scoreboard' = flush(s), spec_stores' = <<>>,
           Pending' = Bubble, BackTypes'
    PROVE  Matched'
<1>1. \A i \in 0 .. SIZE - 1 : ~ scoreboard'.entries[i].valid
  BY FlushEmpties
<1>2. Lists(spec_stores', scoreboard'.entries, scoreboard'.head)
  BY <1>1, ListsNothing
<1>3. UnitsSpare(scoreboard', fu')
  <2>1. \A u \in Units : fu'[u].busy => fu'[u].trans_id \in 0 .. SIZE - 1
    BY DEF BackTypes, GoodUnit
  <2> QED
    BY <1>1, <2>1 DEF UnitsSpare
<1> QED
  BY <1>2, <1>3 DEF Matched, StoreRoom

\* The ready entry at the head leaves, with its store.
LEMMA MatchedCommit ==
    ASSUME Base, Matched, Commit_stage PROVE Matched'
<1> DEFINE q == spec_stores
           e == scoreboard.entries
           d == scoreboard'.entries
           h == scoreboard.head
<1>0. /\ BackTypes /\ stage # "drain" /\ stage' # "drain" /\ program' = program /\ fu' = fu
      /\ BackTypes' /\ Pending' = Pending
  BY CommitBase DEF Base, Commit_stage
<1>1. PICK c \in {Drained, committed_stores} : CommitPort(c) \/ PortBlocked(c)
  BY DEF Commit_stage
<1>2. /\ q \in Indices /\ h \in 0 .. SIZE - 1 /\ e \in [0 .. SIZE - 1 -> BoardEntry(Tag, PC)]
  BY <1>0, BoardMembers DEF BackTypes, GoodBoard, Indices
<1>3. Lists(q, e, h) /\ StoreRoom /\ UnitsSpare(scoreboard, fu)
  BY <1>0 DEF Matched
<1>4. CASE PortBlocked(c)
  <2>1. scoreboard' = scoreboard /\ spec_stores' = spec_stores
    BY <1>4 DEF PortBlocked
  <2>2. StoreRoom'
    BY <1>0, <1>3, <2>1 DEF StoreRoom, KindAt
  <2> QED
    BY <1>0, <1>3, <2>1, <2>2 DEF Matched
<1>5. CASE CommitPort(c)
  <2>0. c \in 0 .. COMMIT_DEPTH
    BY <1>0, Constants DEF Drained, BackTypes
  <2>1. Committed
    BY <1>0, <1>5, <2>0, PortBase
  <2>2. /\ e[h].valid /\ e[h].ready /\ scoreboard'.head = (h + 1) % SIZE
        /\ d = [e EXCEPT ![h] = RetiredEntry(e[h])]
    BY <2>1 DEF Committed, head_ready, get_head
  <2>3. ~ RetiredEntry(e[h]).valid /\ RetiredEntry(e[h]).is_store = e[h].is_store
    BY <1>2 DEF RetiredEntry, WithValid, BoardEntry
  <2>4. d[h] = RetiredEntry(e[h]) /\ \A i \in 0 .. SIZE - 1 : i # h => d[i] = e[i]
    <3> HIDE DEF d, e, h
    <3> QED
      BY <1>2, <2>2
  <2>5. ~ Waits(d, h) /\ \A i \in 0 .. SIZE - 1 : i # h => (Waits(d, i) <=> Waits(e, i))
    BY <2>3, <2>4 DEF Waits
  <2>6. \A i \in 0 .. SIZE - 1 : d[i].valid /\ d[i].is_store => e[i].valid /\ e[i].is_store
    BY <2>3, <2>4
  <2>7. \A i \in 0 .. SIZE - 1 : d[i].is_store = e[i].is_store
    BY <2>3, <2>4
  <2>8. /\ Lists(spec_stores', d, scoreboard'.head)
        /\ Len(spec_stores') <= Len(q)
    <3>1. CASE e[h].is_store
      <4>1. Waits(e, h)
        BY <2>2, <3>1 DEF Waits
      <4>2. q # <<>> /\ Lists(Tail(q), d, (h + 1) % SIZE)
        <5> HIDE DEF q, e, d, h
        <5> QED
          BY <1>2, <1>3, <2>5, <4>1, ListsPop
      <4>3. commit_store(c) /\ c < COMMIT_DEPTH
        BY <1>5, <3>1 DEF CommitPort, get_head
      <4>4. spec_stores' = Tail(q)
        BY <2>0, <4>2, <4>3, Constants DEF commit_store
      <4>5. Len(Tail(q)) = Len(q) - 1 /\ Len(q) \in Nat
        BY <1>2, <4>2, HeadTailProperties, LenProperties DEF Indices
      <4> QED
        BY <2>2, <4>2, <4>4, <4>5
    <3>2. CASE ~ e[h].is_store
      <4>1. ~ Waits(e, h) /\ \A i \in 0 .. SIZE - 1 : Waits(d, i) <=> Waits(e, i)
        BY <2>5, <3>2 DEF Waits
      <4>2. Lists(q, d, (h + 1) % SIZE)
        <5> HIDE DEF q, e, d, h
        <5> QED
          BY <1>2, <1>3, <4>1, ListsSkip
      <4>3. spec_stores' = q
        BY <1>5, <3>2 DEF CommitPort, get_head
      <4>4. Len(q) \in Nat
        BY <1>2, IndexSequence
      <4> QED
        BY <2>2, <4>2, <4>3, <4>4
    <3> QED
      BY <3>1, <3>2
  <2>9. UnitsSpare(scoreboard', fu')
    <3>1. \A u \in Units : fu[u].busy => fu[u].trans_id \in 0 .. SIZE - 1
      BY <1>0 DEF BackTypes, GoodUnit
    <3> QED
      BY <1>0, <1>3, <2>6, <3>1 DEF UnitsSpare
  <2>10. StoreRoom'
    <3>1. Pending # Bubble => Pending.rob_index \in 0 .. SIZE - 1
      BY <1>0 DEF Pending, BackTypes, ExLatch, ExInstr
    <3>2. Len(q) \in Nat /\ Len(spec_stores') \in Nat /\ SPEC_DEPTH \in Nat
      BY <1>0, <1>2, IndexSequence, Constants, LenProperties DEF BackTypes
    <3> QED
      BY <1>0, <1>3, <2>7, <2>8, <3>1, <3>2 DEF StoreRoom, KindAt
  <2> QED
    BY <2>8, <2>9, <2>10 DEF Matched
<1> QED
  BY <1>1, <1>4, <1>5

LEMMA MatchedDispatch ==
    ASSUME Base, Live, Matched, Issue_stage, Dispatched, Pending' = issue_ex_next'
    PROVE  Matched'
<1> DEFINE k == KindAt(id_issue_reg.pc)
           m == [pc |-> id_issue_reg.pc, fp |-> FALSE, is_store |-> k = "STORE"]
           t == scoreboard.tail
           e == scoreboard.entries
           d == scoreboard'.entries
           n == AllocatedEntry(m)
           q == spec_stores
<1>0. /\ GoodBoard(scoreboard, Tag, PC) /\ ~ is_full(scoreboard) /\ FrontTypes /\ BackTypes
      /\ stage # "drain" /\ ~ Flushed
  BY DEF Base, BackTypes, Dispatched, Hazard, Issue_stage, Flushed, Early
<1>1. /\ scoreboard' = allocate(scoreboard, m)
      /\ issue_ex_next' # Bubble => issue_ex_next'.rob_index = t /\ issue_ex_next'.pc = id_issue_reg.pc
  BY DEF Dispatched, Dispatch
<1>2. fu' = fu /\ program' = program /\ spec_stores' = q
  BY DEF Issue_stage
<1>3. m \in Metadata(PC) /\ (m.is_store <=> k = "STORE")
  BY <1>0, LatchMembers DEF Metadata, Dispatched, FrontTypes
<1>4. n.valid /\ ~ n.ready /\ (n.is_store <=> k = "STORE")
  <2>1. Zero \in Tag /\ 0 \in PC
    BY Constants, CodeAddresses
  <2> HIDE DEF m, k
  <2>2. n.valid /\ ~ n.ready /\ n.is_store = m.is_store
    BY <1>3, <2>1, AllocatedType
  <2> QED
    BY <1>3, <2>2
<1> HIDE DEF m, n
<1>5. d = [e EXCEPT ![t] = n] /\ scoreboard'.head = scoreboard.head
  <2>1. /\ allocate(scoreboard, m).entries = [e EXCEPT ![t] = n]
        /\ allocate(scoreboard, m).head = scoreboard.head
    BY <1>0, <1>3, AllocateGood DEF n
  <2> QED
    BY <1>1, <2>1
<1>6. /\ t \in 0 .. SIZE - 1 /\ e \in [0 .. SIZE - 1 -> BoardEntry(Tag, PC)] /\ ~ e[t].valid
      /\ q \in Indices
  BY <1>0, BoardMembers, TailIsFree DEF GoodBoard, BackTypes, Indices
<1>7. d[t] = n /\ \A i \in 0 .. SIZE - 1 : i # t => d[i] = e[i]
  <2> HIDE DEF d, e, t
  <2> QED
    BY <1>5, <1>6
<1>8. Lists(q, e, scoreboard.head) /\ UnitsSpare(scoreboard, fu)
  BY <1>0 DEF Matched
<1>9. \A i \in 0 .. SIZE - 1 : Waits(d, i) <=> Waits(e, i)
  BY <1>4, <1>6, <1>7 DEF Waits
<1>10. Lists(spec_stores', d, scoreboard'.head)
  <2>1. Lists(q, d, scoreboard.head)
    <3> HIDE DEF q, d, e
    <3> QED
      BY <1>6, <1>8, <1>9, ListsSame
  <2> QED
    BY <1>2, <1>5, <2>1
<1>11. \A u \in Units : fu[u].busy => fu[u].trans_id \in 0 .. SIZE - 1 /\ fu[u].trans_id # t
  <2>1. \A u \in Units : fu[u].busy => fu[u].trans_id \in 0 .. SIZE - 1
    BY <1>0 DEF BackTypes, GoodUnit
  <2>2. UnitsServe(scoreboard, fu)
    BY <1>0 DEF Live
  <2> QED
    BY <1>6, <2>1, <2>2 DEF UnitsServe, Unfinished
<1>12. UnitsSpare(scoreboard', fu')
  BY <1>2, <1>7, <1>8, <1>11 DEF UnitsSpare
<1>13. k = "STORE" => Len(q) < SPEC_DEPTH
  <2>1. k = "STORE" => Len(q) # SPEC_DEPTH
    BY DEF Dispatched, Hazard, BufferHazard
  <2>2. Len(q) \in Nat /\ SPEC_DEPTH \in Nat /\ Len(q) <= SPEC_DEPTH
    BY <1>0, <1>6, IndexSequence, Constants DEF BackTypes
  <2> QED
    BY <2>1, <2>2
<1>14. StoreRoom'
  <2>1. Pending' # Bubble => Pending'.rob_index = t /\ Pending'.pc = id_issue_reg.pc
    BY <1>1
  <2> QED
    BY <1>2, <1>4, <1>7, <1>13, <2>1 DEF StoreRoom, KindAt
<1> QED
  BY <1>10, <1>12, <1>14 DEF Matched

\* The ticks complete no store.
LEMMA MatchedTicks ==
    ASSUME BackTypes, Lists(spec_stores, scoreboard.entries, scoreboard.head),
           UnitsSpare(scoreboard, fu)
    PROVE  LET s == TickedScoreboard
               f == TickedUnits
           IN  /\ Lists(spec_stores, s.entries, s.head)
               /\ UnitsSpare(s, f)
               /\ \A i \in 0 .. SIZE - 1 : s.entries[i].is_store = scoreboard.entries[i].is_store
<1> DEFINE s == TickedScoreboard
           f == TickedUnits
           e == scoreboard.entries
<1>0. /\ \A i \in 0 .. SIZE - 1 : s.entries[i] = TickedEntry(i)
      /\ e \in [0 .. SIZE - 1 -> BoardEntry(Tag, PC)]
      /\ fu \in [Units -> GoodUnit] /\ s.head = scoreboard.head /\ spec_stores \in Indices
  BY TicksBoard, BoardMembers DEF BackTypes, GoodBoard, Indices
<1>1. \A u \in Units : f[u].busy => fu[u].busy /\ f[u].trans_id = fu[u].trans_id
                                    /\ fu[u].trans_id \in 0 .. SIZE - 1
  BY <1>0, TicksUnits DEF GoodUnit
<1>2. ASSUME NEW i \in 0 .. SIZE - 1
      PROVE  /\ s.entries[i].valid = e[i].valid /\ s.entries[i].is_store = e[i].is_store
             /\ Waits(s.entries, i) <=> Waits(e, i)
  <2>0. e[i] \in BoardEntry(Tag, PC) /\ s.entries[i] = TickedEntry(i)
    BY <1>0
  <2>1. CASE Completing(i) = {}
    BY <2>0, <2>1 DEF TickedEntry, Waits
  <2>2. CASE Completing(i) # {}
    <3> DEFINE r == fu[TickOrder[Max(Completing(i))]].result
    <3>1. TickedEntry(i) = [e[i] EXCEPT !.ready = TRUE, !.rd = 0, !.result = r]
      BY <2>2 DEF TickedEntry
    <3> HIDE DEF r, e
    <3>2. TickedEntry(i).valid = e[i].valid /\ TickedEntry(i).is_store = e[i].is_store
      BY <2>0, <3>1 DEF BoardEntry
    <3>3. ~ (e[i].valid /\ e[i].is_store)
      <4>1. \E v \in Units : fu[v].busy /\ fu[v].trans_id = i
        BY <2>2 DEF Completing, Done, Units
      <4> QED
        BY <4>1 DEF UnitsSpare, e
    <3> QED
      BY <2>0, <3>2, <3>3 DEF Waits
  <2> QED
    BY <2>1, <2>2
<1> HIDE DEF s, f
<1>3. Lists(spec_stores, s.entries, s.head)
  BY <1>0, <1>2, ListsSame
<1>4. UnitsSpare(s, f)
  BY <1>1, <1>2 DEF UnitsSpare
<1> QED
  BY <1>2, <1>3, <1>4 DEF s, f

\* A mispredicted branch drops no store: none in the queue is younger.
LEMMA AllStoresKept ==
    ASSUME NEW s, spec_stores \in Indices,
           \A k \in 1 .. Len(spec_stores) : s.entries[spec_stores[k]].valid
    PROVE  StoresKept(s) = spec_stores
<1> DEFINE n == Len(spec_stores)
           S == {0} \cup {k \in DOMAIN spec_stores : s.entries[spec_stores[k]].valid}
<1>1. n \in Nat /\ DOMAIN spec_stores = 1 .. n
  BY IndexSequence, LenProperties DEF Indices
<1>2. S = 0 .. n
  BY <1>1
<1>3. S \in SUBSET Nat /\ n \in S /\ \A j \in S : j <= n
  BY <1>1, <1>2
<1>4. StoresKept(s) = SubSeq(spec_stores, 1, Max(S))
  BY DEF StoresKept
<1> HIDE DEF S
<1>5. Max(S) = n
  BY <1>3, MaxUnique
<1>6. SubSeq(spec_stores, 1, Len(spec_stores)) = spec_stores
  BY SubSeqFull DEF Indices
<1> QED
  BY <1>4, <1>5, <1>6

LEMMA MatchedEx ==
    ASSUME Base, Live, Matched, WalksAlone(program), EX_stage
    PROVE  Matched'
<1> DEFINE s == TickedScoreboard
           f == TickedUnits
           b == issue_ex_reg.rob_index
           k == KindAt(issue_ex_reg.pc)
           q == spec_stores
           h == s.head
           e == s.entries
           d == scoreboard'.entries
<1>0. BackTypes /\ stage = "ex" /\ stage' # "drain" /\ program' = program
  BY DEF Base, EX_stage
<1>1. /\ BackTypes' /\ (ExIdles \/ ExRuns)
      /\ Pending' = IF stall_ex' THEN issue_ex_reg ELSE Bubble
  BY ExBase DEF Base
<1>2. /\ Lists(q, e, h) /\ UnitsSpare(s, f) /\ StoreRoom
      /\ \A i \in 0 .. SIZE - 1 : e[i].is_store = scoreboard.entries[i].is_store
  BY <1>0, MatchedTicks DEF Matched
<1>3. /\ GoodBoard(s, Tag, PC) /\ f \in [Units -> GoodUnit] /\ q \in Indices
      /\ s.tail = scoreboard.tail /\ h \in 0 .. SIZE - 1
  BY <1>0, TicksBoard, TicksUnits, BoardMembers DEF BackTypes, Indices, GoodBoard
<1>4. \A u \in Units : f[u].busy => f[u].trans_id \in 0 .. SIZE - 1
  BY <1>3 DEF GoodUnit
<1>5. CASE ExIdles
  <2>1. scoreboard' = s /\ fu' = f /\ spec_stores' = q /\ Pending' = Bubble
    BY <1>1, <1>5 DEF ExIdles
  <2> HIDE DEF s, f
  <2> QED
    BY <1>2, <2>1 DEF Matched, StoreRoom
<1>6. CASE ExRuns
  <2>1. /\ issue_ex_reg \in ExInstr /\ b \in 0 .. SIZE - 1
        /\ Pending = issue_ex_reg /\ issue_ex_reg # Bubble
    <3>1. issue_ex_reg \in ExInstr /\ ~ flush_pipeline
      BY <1>6 DEF ExRuns
    <3>2. issue_ex_reg # Bubble
      BY <3>1 DEF ExInstr, Bubble
    <3> QED
      BY <1>0, <3>1, <3>2 DEF Pending, Early, ExInstr
  <2>2. Awaits(s, f, b)
    BY <1>0, <2>1, LiveTicks DEF Live
  <2>3. /\ e[b].valid /\ ~ e[b].ready
        /\ e[b].is_store <=> k = "STORE"
        /\ k = "STORE" => Len(q) < SPEC_DEPTH
    BY <1>2, <2>1, <2>2 DEF Awaits, Unfinished, StoreRoom
  <2>4. ~ WalkPossible
    BY DEF Live, StoreFree, WalkPossible
  <2>5. ExReplays(s, f) \/ ExTraps(s) \/ ExFinishes(s, f) \/ ExStarts(s, f)
    BY <1>6 DEF ExRuns, ExOutcome
  <2> HIDE DEF s, f, b
  <2>6. CASE ExReplays(s, f)
    <3>1. scoreboard' = s /\ fu' = f /\ spec_stores' = q /\ Pending' = issue_ex_reg
      BY <1>1, <2>4, <2>6 DEF ExReplays
    <3>2. StoreRoom'
      BY <1>0, <2>1, <2>3, <3>1 DEF StoreRoom, KindAt, b
    <3> QED
      BY <1>2, <3>1, <3>2 DEF Matched
  <2>7. CASE ExTraps(s)
    <3>1. scoreboard' = flush(s) /\ spec_stores' = <<>> /\ Pending' = Bubble
      BY <1>1, <2>7 DEF ExTraps
    <3> QED
      BY <1>1, <1>3, <3>1, MatchedFlush
  <2>8. ASSUME Kept(s, scoreboard', b), ~ stall_ex', fu' \in [Units -> GoodUnit],
               Lists(spec_stores', d, h),
               \A u \in Units : fu'[u].busy => fu'[u] = f[u] \/ (fu'[u].trans_id = b /\ k # "STORE")
        PROVE  Matched'
    <3>1. /\ \A i \in 0 .. SIZE - 1 : d[i].valid <=> e[i].valid
          /\ \A i \in 0 .. SIZE - 1 : d[i].is_store = e[i].is_store
      BY <1>3, <2>1, <2>8, KeptValid DEF Kept
    <3>2. UnitsSpare(scoreboard', fu')
      <4> SUFFICES ASSUME NEW u \in Units, fu'[u].busy
                   PROVE  ~ (d[fu'[u].trans_id].valid /\ d[fu'[u].trans_id].is_store)
        BY DEF UnitsSpare
      <4>1. CASE fu'[u] = f[u]
        BY <1>2, <1>4, <3>1, <4>1 DEF UnitsSpare
      <4>2. CASE fu'[u].trans_id = b /\ k # "STORE"
        BY <2>1, <2>3, <3>1, <4>2
      <4> QED
        BY <2>8, <4>1, <4>2
    <3>3. scoreboard'.head = h /\ Pending' = Bubble
      BY <1>1, <2>8 DEF Kept
    <3> QED
      BY <2>8, <3>2, <3>3 DEF Matched, StoreRoom
  <2>9. CASE ExFinishes(s, f)
    <3>1. /\ Finished(s, scoreboard', b) /\ Kept(s, scoreboard', b) /\ ~ stall_ex'
          /\ \A u \in Units : fu'[u] = f[u] \/ fu'[u] = Idle
          /\ fu' \in [Units -> GoodUnit]
      BY <2>9 DEF ExFinishes, Finished, b
    <3>2. \A u \in Units : fu'[u].busy => fu'[u] = f[u]
      BY <3>1, IdleUnits
    <3>3. /\ d[b].valid /\ d[b].ready /\ d[b].is_store = e[b].is_store
          /\ \A i \in 0 .. SIZE - 1 : i # b => d[i] = e[i]
      <4>1. d[b].valid
        BY <1>3, <2>1, <2>3, <3>1, KeptValid
      <4>2. d[b].ready
        BY <3>1 DEF Finished
      <4>3. /\ d[b].is_store = e[b].is_store
            /\ \A i \in 0 .. SIZE - 1 : i # b => d[i] = e[i]
        BY <3>1 DEF Kept
      <4> QED
        BY <4>1, <4>2, <4>3
    <3>4. ~ Waits(e, b) /\ \A i \in 0 .. SIZE - 1 : i # b => (Waits(d, i) <=> Waits(e, i))
      BY <2>3, <3>3 DEF Waits
    <3>5. Lists(spec_stores', d, h)
      <4>1. CASE k = "STORE"
        <5>1. Waits(d, b)
          BY <2>3, <3>3, <4>1 DEF Waits
        <5>2. spec_stores' = Append(q, b)
          <6>1. Len(q) # SPEC_DEPTH
            BY <1>3, <2>3, <4>1, IndexSequence, Constants
          <6> QED
            BY <2>9, <4>1, <6>1 DEF ExFinishes, StoresEntered, b
        <5>3. ASSUME NEW i \in 0 .. SIZE - 1, i # b, Waits(e, i)
              PROVE  At(h, i) < At(h, b)
          <6> DEFINE c == s.count
          <6>1. /\ s.tail = (h + c) % SIZE /\ c \in 0 .. SIZE
                /\ e[i].valid <=> InWindow(i, h, c, SIZE)
            BY <1>3, BoardMembers DEF GoodBoard, ScoreboardCoherent, Coherent
          <6>2. s.tail = (b + 1) % SIZE
            BY <1>3, <2>1 DEF Base, TailFollows, b
          <6>3. InWindow(i, h, c, SIZE)
            BY <5>3, <6>1 DEF Waits
          <6> HIDE DEF h, c
          <6> QED
            BY <1>3, <2>1, <5>3, <6>1, <6>2, <6>3, YoungestFarthest
        <5> HIDE DEF q, e, d, h
        <5>4. Lists(Append(q, b), d, h)
          BY <1>2, <1>3, <2>1, <3>4, <5>1, <5>3, ListsPush
        <5> QED
          BY <5>2, <5>4
      <4>2. CASE k # "STORE"
        <5>1. \A i \in 0 .. SIZE - 1 : Waits(d, i) <=> Waits(e, i)
          BY <2>3, <3>3, <3>4, <4>2 DEF Waits
        <5>2. spec_stores' = q
          <6>1. spec_stores' = q \/ spec_stores' = StoresKept(s)
            BY <2>9, <4>2 DEF ExFinishes, StoresEntered
          <6>2. \A j \in 1 .. Len(q) : e[q[j]].valid
            BY <1>2 DEF Lists, Waits
          <6>3. StoresKept(s) = q
            BY <1>3, <6>2, AllStoresKept
          <6> QED
            BY <6>1, <6>3
        <5> HIDE DEF q, e, d, h
        <5>3. Lists(q, d, h)
          BY <1>2, <1>3, <5>1, ListsSame
        <5> QED
          BY <5>2, <5>3
      <4> QED
        BY <4>1, <4>2
    <3> QED
      BY <2>8, <3>1, <3>2, <3>5
  <2>10. CASE ExStarts(s, f)
    <3>1. /\ Untouched(s, scoreboard', b) /\ Kept(s, scoreboard', b) /\ ~ stall_ex'
          /\ UnitStarts(f) /\ k # "STORE" /\ spec_stores' = q
          /\ fu' \in [Units -> GoodUnit]
      BY <2>4, <2>10 DEF ExStarts, Untouched, b
    <3>2. \A u \in Units : fu'[u].busy => fu'[u] = f[u] \/ (fu'[u].trans_id = b /\ k # "STORE")
      <4>1. CASE fu' = f
        BY <4>1
      <4>2. ASSUME NEW v \in Units, NEW c, fu' = Start(f, v, c, Computed)
            PROVE  \A u \in Units : fu'[u] = f[u] \/ fu'[u].trans_id = b
        <5> DEFINE x == [busy |-> TRUE, remaining |-> c, result |-> Computed, trans_id |-> b]
        <5>1. fu' = [f EXCEPT ![v] = x]
          BY <4>2 DEF Start, b
        <5>2. x.trans_id = b
          OBVIOUS
        <5> HIDE DEF x
        <5> QED
          BY <1>3, <5>1, <5>2
      <4> QED
        BY <3>1, <4>1, <4>2 DEF UnitStarts
    <3>3. \A i \in 0 .. SIZE - 1 : Waits(d, i) <=> Waits(e, i)
      BY <1>3, <2>1, <3>1, KeptValid DEF Kept, Untouched, Waits
    <3>4. Lists(spec_stores', d, h)
      <4> HIDE DEF q, e, d, h
      <4>1. Lists(q, d, h)
        BY <1>2, <1>3, <3>3, ListsSame
      <4> QED
        BY <3>1, <4>1
    <3> QED
      BY <2>8, <3>1, <3>2, <3>4
  <2> QED
    BY <2>5, <2>6, <2>7, <2>9, <2>10
<1> QED
  BY <1>1, <1>5, <1>6

LEMMA MatchedStep ==
    ASSUME Base, Live, Matched, WalksAlone(program), [Next]_vars
    PROVE  Matched'
<1>0. BackTypes /\ FlushEnds /\ GoodBoard(scoreboard, Tag, PC)
  BY DEF Base, BackTypes
<1>1. CASE UNCHANGED vars
  <2>1. Pending' = Pending /\ UNCHANGED <<stage, program, backVars>>
    BY <1>1, BaseStutters
  <2> QED
    BY <2>1, MatchedSame
<1>2. CASE LatchTransfer
  <2>1. Pending' = Pending /\ UNCHANGED <<program, backVars>> /\ stage # "drain"
    BY <1>2, LatchBase DEF LatchTransfer
  <2> QED
    BY <2>1, MatchedSame
<1>3. CASE cpu_process_IRQ
  <2>1. program' = program /\ stage # "drain" /\ BackTypes'
    BY <1>3, IrqBase DEF cpu_process_IRQ, Base
  <2>2. CASE Interrupted /\ Pending' = Bubble
    BY <1>0, <2>1, <2>2, MatchedFlush DEF Interrupted
  <2>3. CASE UNCHANGED <<backVars, flush_pipeline>> /\ Pending' = Pending
    BY <2>1, <2>3, MatchedSame
  <2> QED
    BY <1>3, <2>2, <2>3, IrqBase
<1>4. CASE Commit_stage
  BY <1>4, MatchedCommit
<1>5. CASE EX_stage
  BY <1>5, MatchedEx
<1>6. CASE Issue_stage
  <2>1. \/ scoreboard' = scoreboard /\ stage' = "id" /\ Pending' = Pending
        \/ Dispatched /\ Pending' = issue_ex_next'
    BY <1>6, IssueBase
  <2>2. CASE scoreboard' = scoreboard /\ stage' = "id" /\ Pending' = Pending
    <3>1. UNCHANGED <<backVars, program>> /\ stage # "drain"
      BY <1>6, <2>2 DEF Issue_stage, backVars
    <3> QED
      BY <2>2, <3>1, MatchedSame
  <2>3. CASE Dispatched /\ Pending' = issue_ex_next'
    BY <1>6, <2>3, MatchedDispatch
  <2> QED
    BY <2>1, <2>2, <2>3
<1>7. CASE Issue_illegal
  <2>1. BackTypes' /\ Pending' = Bubble
    BY <1>7, DrainBase DEF Base
  <2>2. CASE DrainReady
    BY <2>2 DEF DrainReady, Matched
  <2>3. CASE IllegalTrap
    <3>1. scoreboard' = flush(scoreboard) /\ spec_stores' = <<>>
      BY <2>3 DEF IllegalTrap
    <3> QED
      BY <1>0, <2>1, <3>1, MatchedFlush
  <2> QED
    BY <1>7, <2>2, <2>3 DEF Issue_illegal
<1>8. CASE ID_stage
  <2>1. Pending' = Pending /\ UNCHANGED <<program, backVars>> /\ stage # "drain"
    BY <1>8, IdBase DEF ID_stage
  <2> QED
    BY <2>1, MatchedSame
<1>9. CASE Fetch_stage
  <2>1. Pending' = Pending /\ UNCHANGED <<program, backVars>> /\ stage # "drain"
    BY <1>9, FetchBase DEF Fetch_stage
  <2> QED
    BY <2>1, MatchedSame
<1>10. CASE PCGen_stage
  <2>1. Pending' \in {Bubble, Pending} /\ UNCHANGED <<program, backVars>> /\ stage # "drain"
    BY <1>10, PCGenBase DEF PCGen_stage
  <2> QED
    BY <2>1, MatchedSame
<1> QED
  BY <1>1, <1>2, <1>3, <1>4, <1>5, <1>6, <1>7, <1>8, <1>9, <1>10 DEF Next

\* The store that commit_store pops is the one at the scoreboard head, and the
\* speculative queue lists the executed stores in program order, however
\* completions, both commit ports, interrupts, exceptions and flushes interleave
\* (StoreBuffer.h, commit_store ignores its argument; Commit, EX, Issue).  Only
\* while Issue drains the scoreboard for an illegal instruction may a store
\* retire that the full committed queue has refused.  Programs with DTLB walks
\* are taken without stores: see WalksAlone.
THEOREM StoreQueueMatchesHolds ==
    ASSUME \A p \in Programs : WalksAlone(p)
    PROVE  Spec => [](stage # "drain" => StoreQueueMatchesScoreboard)
<1>1. Base /\ Matched => (stage # "drain" => StoreQueueMatchesScoreboard)
  <2> SUFFICES ASSUME Base, Matched, stage # "drain" PROVE StoreQueueMatchesScoreboard
    OBVIOUS
  <2> DEFINE q == spec_stores
             e == scoreboard.entries
             h == scoreboard.head
  <2>1. GoodBoard(scoreboard, Tag, PC) /\ q \in Indices
    BY DEF Base, BackTypes, Indices
  <2>2. \A i \in 0 .. SIZE - 1 : e[i].valid <=> InFlight(scoreboard, i)
    BY <2>1 DEF GoodBoard, ScoreboardCoherent, Coherent, InFlight
  <2>3. \A i \in 0 .. SIZE - 1 : Waits(e, i) <=> i \in ExecutedStores
    BY <2>2 DEF Waits, ExecutedStores
  <2>4. DOMAIN q = 1 .. Len(q) /\ \A k \in 1 .. Len(q) : q[k] \in 0 .. SIZE - 1
    BY <2>1, IndexSequence, LenProperties DEF Indices
  <2>5. Lists(q, e, h)
    BY DEF Matched
  <2>6. {q[k] : k \in DOMAIN q} = ExecutedStores
    <3>1. \A k \in DOMAIN q : q[k] \in ExecutedStores
      BY <2>3, <2>4, <2>5 DEF Lists
    <3>2. \A i \in ExecutedStores : \E k \in DOMAIN q : q[k] = i
      BY <2>3, <2>4, <2>5 DEF Lists, ExecutedStores
    <3> QED
      BY <3>1, <3>2
  <2>7. \A j, k \in DOMAIN q : j < k => Position(scoreboard, q[j]) < Position(scoreboard, q[k])
    BY <2>4, <2>5 DEF Lists, Position, At
  <2> QED
    BY <2>6, <2>7 DEF StoreQueueMatchesScoreboard
<1>2. Init => Matched
  BY MatchedInit
<1>3. Base => WalksAlone(program)
  BY DEF Base, FrontTypes
<1>4. Base /\ Live /\ Matched /\ [Next]_vars => Matched'
  BY <1>3, MatchedStep
<1> QED
  BY <1>1, <1>2, <1>4, LiveHolds, PTL DEF Spec

-----------------------------------------------------------------------------
(* Programs in which nothing younger than Issue flushes.  A wrong prediction *)
(* for what is no branch would be corrected by ID, and a fetch fault traps   *)
(* in Fetch, in the cycle in which Issue dispatches.                         *)

\* An instruction predicted taken is a branch.
Foreseen(p) ==
    {l \in Instr : l.predicted # NotTaken => p.code[l.pc].kind = "BRANCH"}

Foresight ==
    /\ {pcgen_fetch_reg, pcgen_fetch_next, fetch_id_next, fetch_id_reg}
          \subseteq {Bubble} \cup Foreseen(program)
    /\ fetch_queue \in Seq(Foreseen(program))

\* A flush never meets a dispatched instruction on its way to EX.
NothingDropped ==
    /\ stage \in {"id", "fetch", "pcgen"} =>
          /\ flush_pipeline => issue_ex_next = Bubble
          /\ id_issue_reg = Bubble => issue_ex_next = Bubble
    /\ stage \in {"issue", "drain", "id", "fetch", "pcgen"} /\ prev_cycle_flush =>
          flush_pipeline /\ ~ stall_ex

\* Every unfinished entry has its instruction l before EX or a unit at work.
Covered(s, f, l) ==
    \A i \in 0 .. SIZE - 1 : Unfinished(s, i) =>
        \/ l # Bubble /\ l.rob_index = i
        \/ \E u \in Units : f[u].busy /\ f[u].trans_id = i

Remembered ==
    /\ NothingDropped
    /\ Pending # Bubble => FreeUnit(fu, program.code[Pending.pc].kind)
    /\ stage # "drain" => Covered(scoreboard, fu, Pending)

LEMMA ForesightStep ==
    ASSUME Base, Foresight, LateFlushFree(program), [Next]_vars
    PROVE  Foresight'
<1> DEFINE F == Foreseen(program)
<1>0. program \in Programs /\ next_pc \in PC
  BY DEF Base, FrontTypes
<1>1. CASE LatchTransfer
  <2> DEFINE q == QueueAfterPush
  <2>1. program' = program /\ F' = F
    BY <1>1 DEF LatchTransfer, Foreseen
  <2>2. q \in Seq(F)
    <3>1. CASE fetch_id_next # Bubble /\ Len(fetch_queue) < FETCH_QUEUE_CAPACITY
      <4>1. fetch_id_next \in F /\ fetch_queue \in Seq(F)
        BY <3>1 DEF Foresight
      <4> HIDE DEF F
      <4>2. q = Append(fetch_queue, fetch_id_next)
        BY <3>1 DEF QueueAfterPush
      <4> QED
        BY <4>1, <4>2, AppendProperties
    <3>2. CASE ~ (fetch_id_next # Bubble /\ Len(fetch_queue) < FETCH_QUEUE_CAPACITY)
      BY <3>2 DEF QueueAfterPush, Foresight
    <3> QED
      BY <3>1, <3>2
  <2>3. fetch_queue' \in {fetch_queue, q, <<>>} \/ (q # <<>> /\ fetch_queue' = Tail(q))
    BY <1>1 DEF LatchTransfer
  <2>4. fetch_id_reg' \in {Bubble, fetch_id_reg} \/ (q # <<>> /\ fetch_id_reg' = Head(q))
    BY <1>1 DEF LatchTransfer
  <2>5. /\ pcgen_fetch_reg' = pcgen_fetch_next /\ pcgen_fetch_next' = pcgen_fetch_next
        /\ fetch_id_next' \in {Bubble, fetch_id_next}
    BY <1>1 DEF LatchTransfer
  <2>6. /\ fetch_queue \in Seq(F)
        /\ {pcgen_fetch_next, fetch_id_next, fetch_id_reg} \subseteq {Bubble} \cup F
    BY DEF Foresight
  <2> HIDE DEF q, F
  <2>7. q # <<>> => Head(q) \in F /\ Tail(q) \in Seq(F)
    BY <2>2, HeadTailProperties
  <2>8. <<>> \in Seq(F)
    BY EmptySeq
  <2>9. fetch_queue' \in Seq(F)
    BY <2>2, <2>3, <2>6, <2>7, <2>8
  <2>10. {pcgen_fetch_reg', pcgen_fetch_next', fetch_id_next', fetch_id_reg'}
            \subseteq {Bubble} \cup F
    BY <2>4, <2>5, <2>6, <2>7
  <2> QED
    BY <2>1, <2>9, <2>10 DEF Foresight, F
<1>2. CASE Fetch_stage
  <2>1. /\ program' = program /\ pcgen_fetch_reg' = pcgen_fetch_reg
        /\ pcgen_fetch_next' = pcgen_fetch_next /\ fetch_id_reg' = fetch_id_reg
        /\ fetch_queue' = fetch_queue
        /\ fetch_id_next' \in {Bubble, fetch_id_next, pcgen_fetch_reg}
    BY <1>2 DEF Fetch_stage, NoDelivery, CountDown, FetchMiss, FetchFault, Deliver, latchVars
  <2> QED
    BY <2>1 DEF Foresight, Foreseen
<1>3. CASE PCGen_stage
  <2>1. /\ program' = program /\ pcgen_fetch_reg' = pcgen_fetch_reg
        /\ fetch_id_reg' = fetch_id_reg /\ fetch_id_next' \in {Bubble, fetch_id_next}
        /\ fetch_queue' \in {<<>>, fetch_queue}
    BY <1>3 DEF PCGen_stage, Redirect, KeepLatches, latchVars
  <2>2. pcgen_fetch_next' \in {Bubble, pcgen_fetch_next} \/ Predict
    BY <1>3 DEF PCGen_stage, Redirect, SpendBubble
  <2>3. pcgen_fetch_next' \in {Bubble} \cup F
    <3>1. CASE Predict
      <4>1. PICK t \in {NotTaken} \cup Predictable(next_pc) :
               pcgen_fetch_next' = [pc |-> next_pc, predicted |-> t]
        BY <3>1 DEF Predict
      <4>2. t # NotTaken => program.code[next_pc].kind = "BRANCH" /\ t \in PC
        BY <1>0, CodeAddresses DEF Predictable, KindAt, LateFlushFree
      <4> QED
        BY <1>0, <4>1, <4>2 DEF Foreseen, Instr
    <3>2. CASE pcgen_fetch_next' \in {Bubble, pcgen_fetch_next}
      BY <3>2 DEF Foresight
    <3> QED
      BY <2>2, <3>1, <3>2
  <2>4. fetch_queue' \in Seq(F)
    <3>1. fetch_queue \in Seq(F)
      BY DEF Foresight
    <3> HIDE DEF F
    <3>2. <<>> \in Seq(F)
      BY EmptySeq
    <3> QED
      BY <2>1, <3>1, <3>2
  <2> QED
    BY <2>1, <2>3, <2>4 DEF Foresight, Foreseen
<1>4. CASE \/ cpu_process_IRQ \/ Commit_stage \/ EX_stage \/ Issue_stage \/ Issue_illegal
           \/ ID_stage \/ UNCHANGED vars
  <2>1. UNCHANGED <<program, latchVars, frontVars>>
    BY <1>4 DEF cpu_process_IRQ, Commit_stage, EX_stage, Issue_stage, Issue_illegal, ID_stage,
                vars, backLatches
  <2> QED
    BY <2>1 DEF Foresight, Foreseen, latchVars, frontVars
<1> QED
  BY <1>1, <1>2, <1>3, <1>4 DEF Next

LEMMA RememberedInit ==
    ASSUME Init PROVE Foresight /\ Remembered
<1>1. Foresight
  <2>1. <<>> \in Seq(Foreseen(program))
    BY EmptySeq
  <2> QED
    BY <2>1 DEF Init, Foresight
<1>2. Pending = Bubble /\ NothingDropped
  BY DEF Init, Pending, Early, NothingDropped
<1>3. \A i \in 0 .. SIZE - 1 : ~ Unfinished(NewScoreboard, i)
  BY DEF NewScoreboard, FreshEntry, Unfinished
<1> QED
  BY <1>1, <1>2, <1>3 DEF Init, Remembered, Covered

\* Steps that leave the back end alone and drop nothing.
LEMMA RememberedSame ==
    ASSUME Remembered, UNCHANGED backVars, program' = program, Pending' = Pending,
           stage # "drain" \/ stage' = "drain", NothingDropped'
    PROVE  Remembered'
<1>1. scoreboard' = scoreboard /\ fu' = fu
  BY DEF backVars
<1>2. Pending' # Bubble => FreeUnit(fu', program'.code[Pending'.pc].kind)
  BY <1>1 DEF Remembered
<1>3. stage' # "drain" => Covered(scoreboard', fu', Pending')
  BY <1>1 DEF Remembered
<1> QED
  BY <1>2, <1>3 DEF Remembered

LEMMA FlushCovers ==
    ASSUME NEW s, GoodBoard(s, Tag, PC) PROVE \A i \in 0 .. SIZE - 1 : ~ Unfinished(flush(s), i)
<1>1. GoodBoard(flush(s), Tag, PC) /\ flush(s).count = 0
  BY FlushGood
<1>2. is_empty(flush(s))
  BY <1>1 DEF is_empty
<1> DEFINE t == flush(s)
<1>3. GoodBoard(t, Tag, PC) /\ is_empty(t)
  BY <1>1, <1>2
<1> HIDE DEF t
<1>4. \A i \in 0 .. SIZE - 1 : ~ t.entries[i].valid
  BY <1>3, TailIsFree
<1> QED
  BY <1>4 DEF Unfinished, t

LEMMA RememberedFlush ==
    ASSUME GoodBoard(scoreboard, Tag, PC), scoreboard' = flush(scoreboard), Pending' = Bubble,
           NothingDropped'
    PROVE  Remembered'
  BY FlushCovers DEF Remembered, Covered

\* The head that leaves was finished.
LEMMA RememberedCommit ==
    ASSUME BackTypes, Remembered, Committed, fu' = fu, program' = program, Pending' = Pending,
           stage # "drain" \/ stage' = "drain", NothingDropped'
    PROVE  Remembered'
<1> DEFINE h == scoreboard.head
           e == scoreboard.entries
           d == scoreboard'.entries
<1>1. /\ h \in 0 .. SIZE - 1 /\ e \in [0 .. SIZE - 1 -> BoardEntry(Tag, PC)] /\ e[h].ready
      /\ d = [e EXCEPT ![h] = RetiredEntry(e[h])]
  BY BoardMembers DEF BackTypes, GoodBoard, Committed, head_ready, get_head
<1>2. RetiredEntry(e[h]).ready = e[h].ready
  BY <1>1 DEF RetiredEntry, WithValid, BoardEntry
<1>3. d[h].ready /\ \A i \in 0 .. SIZE - 1 : i # h => d[i] = e[i]
  <2> HIDE DEF d, e, h
  <2> QED
    BY <1>1, <1>2
<1>4. \A i \in 0 .. SIZE - 1 : Unfinished(scoreboard', i) => Unfinished(scoreboard, i)
  BY <1>3 DEF Unfinished
<1>5. Pending' # Bubble => FreeUnit(fu', program'.code[Pending'.pc].kind)
  BY DEF Remembered
<1>6. stage' # "drain" => Covered(scoreboard', fu', Pending')
  BY <1>4 DEF Remembered, Covered
<1> QED
  BY <1>5, <1>6 DEF Remembered

LEMMA RememberedDispatch ==
    ASSUME Base, Remembered, Issue_stage, Dispatched, Pending = Bubble,
           Pending' = issue_ex_next', NothingDropped'
    PROVE  Remembered'
<1> DEFINE k == KindAt(id_issue_reg.pc)
           m == [pc |-> id_issue_reg.pc, fp |-> FALSE, is_store |-> k = "STORE"]
           t == scoreboard.tail
           e == scoreboard.entries
           d == scoreboard'.entries
<1>0. GoodBoard(scoreboard, Tag, PC) /\ ~ is_full(scoreboard) /\ FrontTypes
  BY DEF Base, BackTypes, Dispatched, Hazard
<1>1. /\ scoreboard' = allocate(scoreboard, m)
      /\ issue_ex_next' # Bubble => issue_ex_next'.rob_index = t /\ issue_ex_next'.pc = id_issue_reg.pc
      /\ k # "ILLEGAL" => issue_ex_next' # Bubble
  <2>1. issue_ex_next' = IF k = "ILLEGAL" THEN Bubble
                         ELSE [pc |-> id_issue_reg.pc, predicted |-> id_issue_reg.predicted,
                               rob_index |-> t]
    BY DEF Dispatched, Dispatch
  <2>2. scoreboard' = allocate(scoreboard, m)
    BY DEF Dispatched, Dispatch
  <2>3. [pc |-> id_issue_reg.pc, predicted |-> id_issue_reg.predicted, rob_index |-> t] # Bubble
    BY DEF Bubble
  <2> QED
    BY <2>1, <2>2, <2>3
<1>2. /\ fu' = fu /\ program' = program /\ stage # "drain" /\ (k = "ILLEGAL" => stage' = "drain")
  <2>1. stage = "issue" /\ fu' = fu /\ program' = program
    BY DEF Issue_stage
  <2>2. IssueInstruction(id_issue_reg, k)
    BY DEF Issue_stage, Dispatched
  <2>3. k = "ILLEGAL" => stage' = "drain"
    <3>1. scoreboard' # scoreboard
      <4> DEFINE a == allocate(scoreboard, m)
      <4> HIDE DEF m
      <4>2. a.count = scoreboard.count + 1
        BY <1>0, AllocateCursors
      <4> HIDE DEF a
      <4>3. a # scoreboard
        BY <1>0, <4>2 DEF GoodBoard, Board
      <4> QED
        BY <1>1, <4>3 DEF a
    <3> QED
      BY <2>2, <3>1 DEF IssueInstruction, Held
  <2> QED
    BY <2>1, <2>3
<1>3. m \in Metadata(PC)
  BY <1>0, LatchMembers DEF Metadata, Dispatched, FrontTypes
<1> HIDE DEF m
<1>4. \A i \in 0 .. SIZE - 1 : i # t => d[i] = e[i]
  <2>1. allocate(scoreboard, m).entries = [e EXCEPT ![t] = AllocatedEntry(m)]
    BY <1>0, <1>3, AllocateGood
  <2>2. d = [e EXCEPT ![t] = AllocatedEntry(m)]
    BY <1>1, <2>1
  <2>3. e \in [0 .. SIZE - 1 -> BoardEntry(Tag, PC)]
    BY <1>0, BoardMembers DEF GoodBoard
  <2> HIDE DEF d, e, t
  <2> QED
    BY <2>2, <2>3
<1>5. FreeUnit(fu, k)
  BY DEF Dispatched, Hazard, UnitBusy, AllBusy, FreeUnit
<1>6. Pending' # Bubble => FreeUnit(fu', program'.code[Pending'.pc].kind)
  BY <1>1, <1>2, <1>5 DEF KindAt
<1>7. stage' # "drain" => Covered(scoreboard', fu', Pending')
  <2> SUFFICES ASSUME stage' # "drain", NEW i \in 0 .. SIZE - 1, Unfinished(scoreboard', i)
               PROVE  \/ Pending' # Bubble /\ Pending'.rob_index = i
                      \/ \E u \in Units : fu'[u].busy /\ fu'[u].trans_id = i
    BY DEF Covered
  <2>1. CASE i = t
    BY <1>1, <1>2, <2>1
  <2>2. CASE i # t
    <3>1. Unfinished(scoreboard, i)
      BY <1>4, <2>2 DEF Unfinished
    <3> QED
      BY <1>2, <3>1 DEF Remembered, Covered
  <2> QED
    BY <2>1, <2>2
<1> QED
  BY <1>6, <1>7 DEF Remembered

\* The ticks: an entry that stays unfinished keeps what it waits for, and a free
\* unit stays free.
LEMMA RememberedTicks ==
    ASSUME BackTypes, Covered(scoreboard, fu, Pending)
    PROVE  /\ Covered(TickedScoreboard, TickedUnits, Pending)
           /\ \A kind : FreeUnit(fu, kind) => FreeUnit(TickedUnits, kind)
<1> DEFINE s == TickedScoreboard
           f == TickedUnits
<1>0. /\ \A i \in 0 .. SIZE - 1 : s.entries[i] = TickedEntry(i)
      /\ GoodBoard(s, Tag, PC) /\ GoodBoard(scoreboard, Tag, PC)
      /\ s.head = scoreboard.head /\ s.count = scoreboard.count
      /\ scoreboard.entries \in [0 .. SIZE - 1 -> BoardEntry(Tag, PC)]
      /\ fu \in [Units -> GoodUnit]
  BY TicksBoard, BoardMembers DEF BackTypes, GoodBoard
<1>1. \A u \in Units : f[u].busy => fu[u].busy
  BY <1>0, TicksUnits
<1>2. ASSUME NEW i \in 0 .. SIZE - 1, Unfinished(s, i)
      PROVE  Unfinished(scoreboard, i) /\ Completing(i) = {}
  <2>1. Completing(i) # {} => TickedEntry(i).ready
    <3> DEFINE r == fu[TickOrder[Max(Completing(i))]].result
    <3>1. Completing(i) # {} =>
             TickedEntry(i) = [scoreboard.entries[i] EXCEPT !.ready = TRUE, !.rd = 0, !.result = r]
      BY DEF TickedEntry
    <3> HIDE DEF r
    <3>2. scoreboard.entries[i] \in BoardEntry(Tag, PC)
      BY <1>0
    <3> QED
      BY <3>1, <3>2 DEF BoardEntry
  <2>2. Completing(i) = {}
    BY <1>0, <1>2, <2>1 DEF Unfinished
  <2>3. s.entries[i] = scoreboard.entries[i]
    BY <1>0, <2>2 DEF TickedEntry
  <2> QED
    BY <1>2, <2>2, <2>3 DEF Unfinished
<1>3. ASSUME NEW u \in Units, fu[u].busy, Completing(fu[u].trans_id) = {}
      PROVE  f[u].busy /\ f[u].trans_id = fu[u].trans_id
  <2>1. ~ Done(u)
    BY <1>3 DEF Completing, Units
  <2>2. f[u] = [fu[u] EXCEPT !.remaining = fu[u].remaining - 1]
    BY <1>3, <2>1 DEF TickedUnits
  <2> QED
    BY <1>0, <1>3, <2>2 DEF GoodUnit
<1>4. Covered(s, f, Pending)
  <2> SUFFICES ASSUME NEW i \in 0 .. SIZE - 1, Unfinished(s, i)
               PROVE  \/ Pending # Bubble /\ Pending.rob_index = i
                      \/ \E u \in Units : f[u].busy /\ f[u].trans_id = i
    BY DEF Covered
  <2>1. Unfinished(scoreboard, i) /\ Completing(i) = {}
    BY <1>2
  <2>2. \/ Pending # Bubble /\ Pending.rob_index = i
        \/ \E u \in Units : fu[u].busy /\ fu[u].trans_id = i
    BY <2>1 DEF Covered
  <2> QED
    BY <1>3, <2>1, <2>2
<1>5. \A kind : FreeUnit(fu, kind) => FreeUnit(f, kind)
  BY <1>1, UnitNames DEF FreeUnit
<1> QED
  BY <1>4, <1>5

LEMMA RememberedEx ==
    ASSUME Base, Live, Remembered, WalksAlone(program), EX_stage
    PROVE  Remembered'
<1> DEFINE s == TickedScoreboard
           f == TickedUnits
           b == issue_ex_reg.rob_index
           kind == KindAt(issue_ex_reg.pc)
<1>0. BackTypes /\ stage = "ex" /\ stage' = "issue" /\ program' = program
  BY DEF Base, EX_stage
<1>1. /\ ExIdles \/ ExRuns
      /\ Pending' = IF stall_ex' THEN issue_ex_reg ELSE Bubble
  BY ExBase
<1>2. /\ Covered(s, f, Pending) /\ \A k : FreeUnit(fu, k) => FreeUnit(f, k)
  BY <1>0, RememberedTicks DEF Remembered
<1>3. GoodBoard(s, Tag, PC) /\ f \in [Units -> GoodUnit]
  BY <1>0, TicksBoard, TicksUnits DEF BackTypes
<1>4. CASE ExIdles
  <2>1. scoreboard' = s /\ fu' = f /\ Pending' = Bubble /\ ~ stall_ex'
    BY <1>1, <1>4 DEF ExIdles
  <2>2. Pending = Bubble
    BY <1>0, <1>4 DEF ExIdles, Pending, Early
  <2>3. NothingDropped'
    BY <1>0, <2>1 DEF NothingDropped, EX_stage
  <2> HIDE DEF s, f
  <2> QED
    BY <1>0, <1>2, <2>1, <2>2, <2>3 DEF Remembered
<1>5. CASE ExRuns
  <2>1. /\ issue_ex_reg # Bubble /\ Pending = issue_ex_reg /\ ~ flush_pipeline
        /\ b \in 0 .. SIZE - 1
    <3>1. issue_ex_reg \in ExInstr /\ ~ flush_pipeline
      BY <1>5 DEF ExRuns
    <3>2. issue_ex_reg # Bubble
      BY <3>1 DEF ExInstr, Bubble
    <3> QED
      BY <1>0, <3>1, <3>2 DEF Pending, Early, ExInstr
  <2>2. FreeUnit(f, kind)
    BY <1>2, <2>1 DEF Remembered, KindAt
  <2>3. ~ WalkPossible
    BY DEF Live, StoreFree, WalkPossible
  <2>4. ExReplays(s, f) \/ ExTraps(s) \/ ExFinishes(s, f) \/ ExStarts(s, f)
    BY <1>5 DEF ExRuns, ExOutcome
  <2> HIDE DEF s, f, b
  <2>5. NothingDropped'
    <3>1. stall_ex' => ~ flush_pipeline'
      BY <2>1, <2>4 DEF ExReplays, ExTraps, ExFinishes, ExStarts
    <3> QED
      BY <1>0, <3>1 DEF NothingDropped, EX_stage
  <2>6. CASE ExReplays(s, f)
    <3>1. scoreboard' = s /\ fu' = f /\ Pending' = issue_ex_reg
      BY <1>1, <2>3, <2>6 DEF ExReplays
    <3> QED
      BY <1>0, <1>2, <2>1, <2>2, <2>5, <3>1 DEF Remembered, KindAt
  <2>7. CASE ExTraps(s)
    <3>1. scoreboard' = flush(s) /\ Pending' = Bubble
      BY <1>1, <2>7 DEF ExTraps
    <3>2. \A i \in 0 .. SIZE - 1 : ~ Unfinished(scoreboard', i)
      BY <1>3, <3>1, FlushCovers
    <3> QED
      BY <2>5, <3>1, <3>2 DEF Remembered, Covered
  <2>8. CASE ExFinishes(s, f)
    <3>1. /\ Finished(s, scoreboard', b) /\ Kept(s, scoreboard', b) /\ Pending' = Bubble
          /\ \A u \in Units :
                \/ fu'[u] = f[u]
                \/ fu'[u] = Idle /\ f[u].busy /\ ~ s.entries[f[u].trans_id].valid
      BY <1>1, <2>8 DEF ExFinishes, Finished, b
    <3>2. ASSUME NEW i \in 0 .. SIZE - 1, Unfinished(scoreboard', i)
          PROVE  \E u \in Units : fu'[u].busy /\ fu'[u].trans_id = i
      <4>1. i # b /\ Unfinished(s, i)
        BY <3>1, <3>2 DEF Finished, Kept, Unfinished
      <4>2. PICK u \in Units : f[u].busy /\ f[u].trans_id = i
        BY <1>2, <2>1, <4>1 DEF Covered, b
      <4>3. fu'[u] = f[u]
        BY <3>1, <4>1, <4>2 DEF Unfinished
      <4> QED
        BY <4>2, <4>3
    <3>3. Covered(scoreboard', fu', Pending')
      BY <3>2 DEF Covered
    <3> QED
      BY <2>5, <3>1, <3>3 DEF Remembered
  <2>9. CASE ExStarts(s, f)
    <3>1. /\ Untouched(s, scoreboard', b) /\ Kept(s, scoreboard', b) /\ Pending' = Bubble
          /\ UnitStarts(f)
      BY <1>1, <2>3, <2>9 DEF ExStarts, Untouched, b
    <3>2. PICK v \in Units, c \in Nat \ {0} : fu' = Start(f, v, c, Computed) /\ ~ f[v].busy
      <4>1. kind = "LOAD" => ~ f[Hit].busy
        BY <2>2 DEF FreeUnit
      <4> QED
        BY <2>2, <3>1, <4>1 DEF UnitStarts
    <3>3. fu'[v].busy /\ fu'[v].trans_id = b /\ \A u \in Units : u # v => fu'[u] = f[u]
      <4> DEFINE x == [busy |-> TRUE, remaining |-> c, result |-> Computed, trans_id |-> b]
      <4>1. fu' = [f EXCEPT ![v] = x]
        BY <3>2 DEF Start, b
      <4>2. x.busy /\ x.trans_id = b
        OBVIOUS
      <4> HIDE DEF x
      <4> QED
        BY <1>3, <4>1, <4>2
    <3>4. ASSUME NEW i \in 0 .. SIZE - 1, Unfinished(scoreboard', i)
          PROVE  \E u \in Units : fu'[u].busy /\ fu'[u].trans_id = i
      <4>1. CASE i = b
        BY <3>3, <4>1
      <4>2. CASE i # b
        <5>1. Unfinished(s, i)
          BY <3>1, <3>4, <4>2 DEF Kept, Unfinished
        <5>2. PICK u \in Units : f[u].busy /\ f[u].trans_id = i
          BY <1>2, <2>1, <4>2, <5>1 DEF Covered, b
        <5>3. u # v
          BY <3>2, <5>2
        <5> QED
          BY <3>3, <5>2, <5>3
      <4> QED
        BY <4>1, <4>2
    <3>5. Covered(scoreboard', fu', Pending')
      BY <3>4 DEF Covered
    <3> QED
      BY <2>5, <3>1, <3>5 DEF Remembered
  <2> QED
    BY <2>4, <2>6, <2>7, <2>8, <2>9
<1> QED
  BY <1>1, <1>4, <1>5

LEMMA RememberedStep ==
    ASSUME Base, Live, Foresight, Remembered, WalksAlone(program), LateFlushFree(program),
           [Next]_vars
    PROVE  Remembered'
<1>0. BackTypes /\ FrontTypes /\ FlushEnds /\ GoodBoard(scoreboard, Tag, PC)
  BY DEF Base, BackTypes
<1>1. CASE UNCHANGED vars
  <2>1. Pending' = Pending /\ UNCHANGED <<stage, program, backVars>>
    BY <1>1, BaseStutters
  <2>2. NothingDropped'
    BY <1>1 DEF Remembered, NothingDropped, vars, flushVars, latchVars
  <2> QED
    BY <2>1, <2>2, RememberedSame
<1>2. CASE LatchTransfer
  <2>1. /\ Pending' = Pending /\ UNCHANGED <<program, backVars>> /\ stage = "latch"
        /\ NothingDropped'
    BY <1>2, LatchBase DEF LatchTransfer, NothingDropped
  <2> QED
    BY <2>1, RememberedSame
<1>3. CASE cpu_process_IRQ
  <2>1. program' = program /\ stage = "irq" /\ NothingDropped'
    BY <1>3 DEF cpu_process_IRQ, NothingDropped
  <2>2. CASE Interrupted /\ Pending' = Bubble
    BY <1>0, <2>1, <2>2, RememberedFlush DEF Interrupted
  <2>3. CASE UNCHANGED <<backVars, flush_pipeline>> /\ Pending' = Pending
    BY <2>1, <2>3, RememberedSame
  <2> QED
    BY <1>3, <2>2, <2>3, IrqBase
<1>4. CASE Commit_stage
  <2>1. program' = program /\ fu' = fu /\ stage # "drain" /\ stage' # "drain" /\ NothingDropped'
    BY <1>4 DEF Commit_stage, NothingDropped
  <2>2. Pending' = Pending /\ (scoreboard' = scoreboard \/ Committed)
    BY <1>4, CommitBase
  <2>3. CASE scoreboard' = scoreboard
    BY <2>1, <2>2, <2>3 DEF Remembered
  <2>4. CASE Committed
    BY <1>0, <2>1, <2>2, <2>4, RememberedCommit
  <2> QED
    BY <2>2, <2>3, <2>4
<1>5. CASE EX_stage
  BY <1>5, RememberedEx
<1>6. CASE Issue_stage
  <2>1. /\ stage = "issue" /\ program' = program
        /\ UNCHANGED <<latchVars, stall_ex, flushVars, prev_cycle_flush, fu, spec_stores,
                       committed_stores>>
    BY <1>6 DEF Issue_stage
  <2>2. CASE scoreboard' = scoreboard /\ stage' = "id" /\ Pending' = Pending
             /\ issue_ex_next' = Bubble
    <3>1. NothingDropped'
      BY <2>1, <2>2 DEF Remembered, NothingDropped, flushVars
    <3>2. UNCHANGED backVars
      BY <2>1, <2>2 DEF backVars
    <3> QED
      BY <2>1, <2>2, <3>1, <3>2, RememberedSame
  <2>3. CASE Dispatched /\ Pending = Bubble /\ Pending' = issue_ex_next'
    <3>1. NothingDropped'
      BY <2>1, <2>3 DEF Remembered, NothingDropped, Dispatched, flushVars, latchVars
    <3> QED
      BY <1>6, <2>3, <3>1, RememberedDispatch
  <2> QED
    BY <1>6, <2>2, <2>3, IssueBase
<1>7. CASE Issue_illegal
  <2>1. /\ program' = program /\ stage = "drain"
        /\ UNCHANGED <<issue_ex_next, stall_ex, prev_cycle_flush, latchVars>>
    BY <1>7 DEF Issue_illegal, backLatches
  <2>2. issue_ex_next = Bubble /\ ~ stall_ex
    BY <1>0, <2>1 DEF FlushEnds
  <2>3. /\ Pending' = Bubble /\ Pending = Bubble
        /\ \/ stage' = "drain" /\ Committed /\ fu' = fu
           \/ /\ stage' = "id" /\ scoreboard' = flush(scoreboard) /\ fu' = AllIdle
              /\ flush_pipeline'
    BY <1>7, DrainBase
  <2>4. CASE stage' = "drain" /\ Committed /\ fu' = fu
    <3>1. flush_pipeline' = flush_pipeline
      BY <1>7, <2>4 DEF Issue_illegal, DrainReady, IllegalTrap, flushVars
    <3>2. NothingDropped'
      BY <2>1, <2>4, <3>1 DEF Remembered, NothingDropped
    <3> QED
      BY <1>0, <2>1, <2>3, <2>4, <3>2, RememberedCommit
  <2>5. CASE stage' = "id" /\ scoreboard' = flush(scoreboard) /\ flush_pipeline'
    <3>1. NothingDropped'
      BY <2>1, <2>2, <2>5 DEF NothingDropped
    <3> QED
      BY <1>0, <2>3, <2>5, <3>1, RememberedFlush
  <2> QED
    BY <2>3, <2>4, <2>5
<1>8. CASE ID_stage
  <2>1. /\ Pending' = Pending /\ UNCHANGED <<program, backVars>>
        /\ stage = "id" /\ stage' = "fetch"
        /\ UNCHANGED <<latchVars, issue_ex_next, stall_ex, prev_cycle_flush>>
    BY <1>8, IdBase DEF ID_stage
  <2>2. fetch_id_reg # Bubble => ~ Misprediction(fetch_id_reg)
    BY DEF Foresight, Foreseen, Misprediction, KindAt
  <2>3. flush_pipeline' = flush_pipeline
    BY <1>8, <2>2 DEF ID_stage, flushVars
  <2>4. NothingDropped'
    BY <2>1, <2>3 DEF Remembered, NothingDropped, latchVars
  <2> QED
    BY <2>1, <2>4, RememberedSame
<1>9. CASE Fetch_stage
  <2>1. /\ Pending' = Pending /\ UNCHANGED <<program, backVars>>
        /\ stage = "fetch" /\ stage' = "pcgen"
        /\ UNCHANGED <<latchVars, issue_ex_next, stall_ex, prev_cycle_flush>>
    BY <1>9, FetchBase DEF Fetch_stage
  <2>2. flush_pipeline' = flush_pipeline \/ FetchFault
    BY <1>9 DEF Fetch_stage, NoDelivery, CountDown, FetchMiss, Deliver, flushVars
  <2>3. FetchFault => id_issue_reg = Bubble /\ flush_pipeline'
    BY DEF FetchFault, FaultPossible, LateFlushFree
  <2>4. NothingDropped'
    BY <2>1, <2>2, <2>3 DEF Remembered, NothingDropped, latchVars
  <2> QED
    BY <2>1, <2>4, RememberedSame
<1>10. CASE PCGen_stage
  <2>1. /\ UNCHANGED <<program, backVars, latchVars, stall_ex, prev_cycle_flush>>
        /\ stage = "pcgen" /\ stage' = "latch"
    BY <1>10 DEF PCGen_stage
  <2>2. IF flush_pipeline THEN issue_ex_next' = Bubble ELSE issue_ex_next' = issue_ex_next
    BY <1>10 DEF PCGen_stage, Redirect, KeepLatches
  <2>3. /\ flush_pipeline => issue_ex_next = Bubble
        /\ prev_cycle_flush => flush_pipeline /\ ~ stall_ex
    BY <2>1 DEF Remembered, NothingDropped
  <2>4. Pending' = Pending /\ NothingDropped'
    BY <2>1, <2>2, <2>3 DEF Pending, Early, NothingDropped, latchVars
  <2> QED
    BY <2>1, <2>4, RememberedSame
<1> QED
  BY <1>1, <1>2, <1>3, <1>4, <1>5, <1>6, <1>7, <1>8, <1>9, <1>10 DEF Next

\* Between cycles the units at work and the unfinished entries match one to one,
\* and what no unit works for is still on its way to EX: no completion reaches
\* an entry that was flushed or reused, and no entry is forgotten (the EX ticks,
\* the structural hazards of Issue, the cancellations of every flush).  Programs
\* are taken without the late flushes of LateFlushFree, which do lose entries.
THEOREM UnitsServeLiveEntriesHolds ==
    ASSUME \A p \in Programs : WalksAlone(p) /\ LateFlushFree(p)
    PROVE  Spec => []UnitsServeLiveEntries
<1> DEFINE Inv == Base /\ Live /\ Foresight /\ Remembered
<1>1. Init => Inv
  BY BaseInit, LiveInit, RememberedInit
<1>2. Inv /\ [Next]_vars => Foresight' /\ Remembered'
  <2>1. Base => WalksAlone(program) /\ LateFlushFree(program)
    BY DEF Base, FrontTypes
  <2> QED
    BY <2>1, ForesightStep, RememberedStep
<1>3. \A p \in Programs : WalksAlone(p)
  OBVIOUS
<1>4. Spec => [](Base /\ Live)
  BY <1>3, LiveHolds
<1>5. Inv => UnitsServeLiveEntries
  <2> SUFFICES ASSUME Inv, stage = "latch"
               PROVE  /\ \A u \in Units : fu[u].busy =>
                            /\ InFlight(scoreboard, fu[u].trans_id)
                            /\ ~scoreboard.entries[fu[u].trans_id].ready
                            /\ \A v \in Units \ {u} :
                                  fu[v].busy => fu[v].trans_id # fu[u].trans_id
                      /\ \A i \in 0 .. SIZE - 1 :
                            (InFlight(scoreboard, i) /\ ~scoreboard.entries[i].ready) =>
                               \/ i \in Unexecuted
                               \/ \E u \in Units : fu[u].busy /\ fu[u].trans_id = i
    BY DEF UnitsServeLiveEntries
  <2>1. /\ \A u \in Units : fu[u].busy => fu[u].trans_id \in 0 .. SIZE - 1
        /\ \A i \in 0 .. SIZE - 1 : scoreboard.entries[i].valid <=> InFlight(scoreboard, i)
    BY DEF Base, BackTypes, GoodUnit, GoodBoard, ScoreboardCoherent, Coherent, InFlight
  <2>2. UnitsServe(scoreboard, fu) /\ Covered(scoreboard, fu, Pending)
    BY DEF Live, Remembered, Flushed, Early
  <2>3. Pending # Bubble => Pending.rob_index \in Unexecuted
    BY DEF Pending, Early, Unexecuted
  <2> QED
    BY <2>1, <2>2, <2>3 DEF UnitsServe, Covered, Unfinished
<1> HIDE DEF Inv
<1>6. Spec => []Inv
  <2>1. Base /\ Live /\ Foresight /\ Remembered <=> Inv
    BY DEF Inv
  <2> QED
    BY <1>1, <1>2, <1>4, <2>1, PTL DEF Spec
<1> QED
  BY <1>5, <1>6, PTL

-----------------------------------------------------------------------------
(* Effects of EX and retirements.                                            *)

\* Entries of address a that EX has executed, where n is the one it has not.
Ran(e, n, a) == {i \in 0 .. SIZE - 1 : e[i].valid /\ e[i].pc = a /\ i # n}

Tally(e, n, c) == \A a \in PC : c[a] <= Cardinality(Ran(e, n, a))

\* The entry that EX has not executed; SIZE is none.
Skipped(l) == IF l = Bubble THEN SIZE ELSE l.rob_index

LEMMA RanFinite ==
    ASSUME NEW e, NEW n, NEW a
    PROVE  IsFiniteSet(Ran(e, n, a)) /\ Cardinality(Ran(e, n, a)) \in Nat
<1> DEFINE R == Ran(e, n, a)
<1>1. SIZE \in Nat \ {0}
  BY Constants
<1>2. 0 \in Int /\ SIZE - 1 \in Int
  BY <1>1
<1>3. IsFiniteSet(0 .. SIZE - 1)
  BY <1>2, FS_Interval
<1>4. R \in SUBSET (0 .. SIZE - 1)
  BY DEF Ran
<1> HIDE DEF R
<1>5. IsFiniteSet(R)
  BY <1>3, <1>4, FS_Subset
<1> QED
  BY <1>5, FS_CardinalityType DEF R

\* More executed entries.
LEMMA TallyGrows ==
    ASSUME NEW e, NEW d, NEW n, NEW m, NEW c \in [PC -> Nat], Tally(e, n, c),
           \A i \in 0 .. SIZE - 1 : e[i].valid /\ i # n => d[i].valid /\ d[i].pc = e[i].pc /\ i # m
    PROVE  Tally(d, m, c)
<1> SUFFICES ASSUME NEW a \in PC PROVE c[a] <= Cardinality(Ran(d, m, a))
  BY DEF Tally
<1> DEFINE R == Ran(e, n, a)
           T == Ran(d, m, a)
<1>1. R \in SUBSET T
  BY DEF Ran
<1>2. IsFiniteSet(T) /\ Cardinality(R) \in Nat /\ Cardinality(T) \in Nat
  BY RanFinite
<1>3. c[a] <= Cardinality(R) /\ c[a] \in Nat
  BY DEF Tally
<1> HIDE DEF R, T
<1>4. Cardinality(R) <= Cardinality(T)
  BY <1>1, <1>2, FS_Subset
<1>5. c[a] <= Cardinality(T)
  BY <1>2, <1>3, <1>4
<1> QED
  BY <1>5 DEF T

\* EX applies the effect of the entry that now counts as executed.
LEMMA TallyApply ==
    ASSUME NEW e, NEW d, NEW b \in 0 .. SIZE - 1, NEW c \in [PC -> Nat], Tally(e, b, c),
           NEW x \in Nat, NEW a \in PC, x <= c[a] + 1, e[b].valid, e[b].pc = a,
           \A i \in 0 .. SIZE - 1 : (d[i].valid <=> e[i].valid) /\ d[i].pc = e[i].pc
    PROVE  Tally(d, SIZE, [c EXCEPT ![a] = x])
<1> DEFINE w == [c EXCEPT ![a] = x]
<1>0. Tally(d, SIZE, c)
  <2>1. \A i \in 0 .. SIZE - 1 : i # SIZE
    BY Constants
  <2> QED
    BY <2>1, TallyGrows
<1>1. ASSUME NEW p \in PC, p # a PROVE w[p] <= Cardinality(Ran(d, SIZE, p))
  BY <1>0, <1>1 DEF Tally
<1>2. w[a] <= Cardinality(Ran(d, SIZE, a))
  <2> DEFINE R == Ran(e, b, a)
             T == Ran(d, SIZE, a)
  <2>1. \A i \in 0 .. SIZE - 1 : i # SIZE
    BY Constants
  <2>2. T = R \cup {b} /\ b \notin R
    BY <2>1 DEF Ran
  <2>3. IsFiniteSet(R) /\ Cardinality(R) \in Nat
    BY RanFinite
  <2>4. c[a] <= Cardinality(R) /\ c[a] \in Nat /\ w[a] = x
    BY DEF Tally
  <2> HIDE DEF R, T
  <2>5. Cardinality(T) = Cardinality(R) + 1
    BY <2>2, <2>3, FS_AddElement
  <2>6. x <= Cardinality(T)
    BY <2>3, <2>4, <2>5
  <2> QED
    BY <2>4, <2>6 DEF T
<1> QED
  BY <1>1, <1>2 DEF Tally

\* The executed entry h, of address a, retires: d and w are what e and c become.
Settles(e, d, n, h, a, c, w) ==
    /\ h \in 0 .. SIZE - 1 /\ h # n /\ e[h].pc = a /\ ~ d[h].valid
    /\ \A i \in 0 .. SIZE - 1 : i # h => d[i] = e[i]
    /\ a \in PC /\ c \in [PC -> Nat] /\ w \in [PC -> Nat]
    /\ \A p \in PC : p # a => w[p] = c[p]
    /\ w[a] = IF c[a] > 0 THEN c[a] - 1 ELSE 0

LEMMA TallySettle ==
    ASSUME NEW e, NEW d, NEW n, NEW h, NEW a, NEW c, NEW w,
           Settles(e, d, n, h, a, c, w), Tally(e, n, c)
    PROVE  Tally(d, n, w)
<1> USE DEF Settles
<1> DEFINE x == IF c[a] > 0 THEN c[a] - 1 ELSE 0
<1>1. ASSUME NEW p \in PC, p # a PROVE w[p] <= Cardinality(Ran(d, n, p))
  <2>1. Ran(d, n, p) = Ran(e, n, p)
    BY <1>1 DEF Ran
  <2> QED
    BY <1>1, <2>1 DEF Tally
<1>2. w[a] <= Cardinality(Ran(d, n, a))
  <2> DEFINE R == Ran(e, n, a)
             T == Ran(d, n, a)
  <2>1. T = R \ {h}
    BY DEF Ran
  <2>2. IsFiniteSet(R) /\ Cardinality(R) \in Nat /\ Cardinality(T) \in Nat
    BY RanFinite
  <2>3. c[a] <= Cardinality(R) /\ c[a] \in Nat /\ w[a] = x
    BY DEF Tally
  <2> HIDE DEF R, T
  <2>4. Cardinality(T) = Cardinality(R) - 1 \/ Cardinality(T) = Cardinality(R)
    BY <2>1, <2>2, FS_RemoveElement
  <2>5. x <= Cardinality(T)
    BY <2>2, <2>3, <2>4
  <2> QED
    BY <2>3, <2>5 DEF T
<1> QED
  BY <1>1, <1>2 DEF Tally

\* Every application that no retirement has settled is that of an entry in flight.
Accounted ==
    /\ applied \in [PC -> Nat]
    /\ stage = "drain" => KindAt(id_issue_reg.pc) = "ILLEGAL"
    /\ Pending # Bubble => scoreboard.entries[Pending.rob_index].pc = Pending.pc
    /\ IF EffectFree(program) THEN \A a \in PC : applied[a] = 0
       ELSE Tally(scoreboard.entries, Skipped(Pending), applied)

LEMMA AccountedInit ==
    ASSUME Init PROVE Accounted
<1>1. applied \in [PC -> Nat] /\ \A a \in PC : applied[a] = 0
  BY DEF Init
<1>2. Tally(scoreboard.entries, Skipped(Pending), applied)
  <2> SUFFICES ASSUME NEW a \in PC PROVE applied[a] <= Cardinality(Ran(scoreboard.entries, Skipped(Pending), a))
    BY DEF Tally
  <2> DEFINE n == Cardinality(Ran(scoreboard.entries, Skipped(Pending), a))
  <2>1. n \in Nat
    BY RanFinite
  <2> HIDE DEF n
  <2>2. applied[a] <= n
    BY <1>1, <2>1
  <2> QED
    BY <2>2 DEF n
<1>3. Pending = Bubble /\ stage # "drain"
  BY DEF Init, Pending, Early
<1> QED
  BY <1>1, <1>2, <1>3 DEF Accounted

LEMMA AccountedSame ==
    ASSUME BackTypes, Accounted, stage' # "drain" \/ UNCHANGED <<stage, id_issue_reg>>, program' = program,
           UNCHANGED <<backVars, applied>>, Pending' \in {Bubble, Pending}
    PROVE  Accounted'
<1>1. scoreboard' = scoreboard /\ applied' = applied
  BY DEF backVars
<1>2. stage' = "drain" => KindAt(id_issue_reg.pc)' = "ILLEGAL"
  BY DEF Accounted, KindAt
<1>3. Pending' # Bubble => scoreboard'.entries[Pending'.rob_index].pc = Pending'.pc
  BY <1>1 DEF Accounted
<1>4. ASSUME ~ EffectFree(program) PROVE Tally(scoreboard.entries, Skipped(Pending'), applied)
  <2>1. Tally(scoreboard.entries, Skipped(Pending), applied) /\ applied \in [PC -> Nat]
    BY <1>4 DEF Accounted
  <2>2. CASE Pending' = Pending
    BY <2>1, <2>2
  <2>3. CASE Pending' = Bubble
    <3> DEFINE e == scoreboard.entries
               n == Skipped(Pending)
    <3>1. Skipped(Pending') = SIZE /\ \A i \in 0 .. SIZE - 1 : i # SIZE
      BY <2>3, Constants DEF Skipped
    <3> HIDE DEF e, n
    <3>2. Tally(e, SIZE, applied)
      BY <2>1, <3>1, TallyGrows DEF e, n
    <3> QED
      BY <3>1, <3>2 DEF e
  <2> QED
    BY <2>2, <2>3
<1> QED
  BY <1>1, <1>2, <1>3, <1>4 DEF Accounted

LEMMA AccountedCommit ==
    ASSUME Base, Live, Accounted, Commit_stage PROVE Accounted'
<1> DEFINE e == scoreboard.entries
           d == scoreboard'.entries
           h == scoreboard.head
           n == Skipped(Pending)
<1>0. /\ BackTypes /\ stage' # "drain" /\ program' = program
      /\ Pending' = Pending
  BY CommitBase DEF Base, Commit_stage
<1>1. PICK c \in {Drained, committed_stores} : CommitPort(c) \/ PortBlocked(c)
  BY DEF Commit_stage
<1>2. h \in 0 .. SIZE - 1 /\ e \in [0 .. SIZE - 1 -> BoardEntry(Tag, PC)] /\ applied \in [PC -> Nat]
  BY <1>0, BoardMembers DEF BackTypes, GoodBoard, Accounted
<1>3. CASE PortBlocked(c)
  <2>1. scoreboard' = scoreboard /\ applied' = applied
    BY <1>3 DEF PortBlocked, historyVars
  <2> QED
    BY <1>0, <2>1 DEF Accounted
<1>4. CASE CommitPort(c)
  <2>0. c \in 0 .. COMMIT_DEPTH
    BY <1>0, Constants DEF Drained, BackTypes
  <2>1. Committed
    BY <1>0, <1>4, <2>0, PortBase
  <2> DEFINE a == e[h].pc
             x == IF applied[a] > 0 THEN applied[a] - 1 ELSE 0
  <2>2. /\ e[h].valid /\ e[h].ready
        /\ d = [e EXCEPT ![h] = RetiredEntry(e[h])]
    BY <2>1 DEF Committed, head_ready, get_head
  <2>3. ~ RetiredEntry(e[h]).valid /\ RetiredEntry(e[h]).pc = e[h].pc /\ a \in PC
    BY <1>2 DEF RetiredEntry, WithValid, BoardEntry
  <2>4. d[h] = RetiredEntry(e[h]) /\ \A i \in 0 .. SIZE - 1 : i # h => d[i] = e[i]
    <3> HIDE DEF d, e, h
    <3> QED
      BY <1>2, <2>2
  <2>5. applied' = [applied EXCEPT ![a] = x]
    BY <1>4 DEF CommitPort, RetireHead, Settle, get_head
  <2>6. x \in Nat
    BY <1>2, <2>3
  <2>7. Pending # Bubble => Pending.rob_index \in 0 .. SIZE - 1 /\ Pending.rob_index # h
    <3>1. Pending # Bubble => Pending.rob_index \in 0 .. SIZE - 1
      BY <1>0 DEF Pending, BackTypes, ExLatch, ExInstr
    <3>2. Pending # Bubble => ~ e[Pending.rob_index].ready
      BY DEF Live, Awaits, Unfinished
    <3> QED
      BY <2>2, <3>1, <3>2
  <2>8. Pending' # Bubble => scoreboard'.entries[Pending'.rob_index].pc = Pending'.pc
    BY <1>0, <2>4, <2>7 DEF Accounted
  <2>9. applied' \in [PC -> Nat]
    <3> HIDE DEF x, a
    <3> QED
      BY <1>2, <2>5, <2>6
  <2>10. /\ \A p \in PC : p # a => applied'[p] = applied[p]
         /\ applied'[a] = IF applied[a] > 0 THEN applied[a] - 1 ELSE 0
    <3>1. \A p \in PC : p # a => applied'[p] = applied[p]
      <4> HIDE DEF x, a
      <4> QED
        BY <1>2, <2>5
    <3>2. applied'[a] = x
      <4> HIDE DEF x, a
      <4> QED
        BY <1>2, <2>3, <2>5
    <3> QED
      BY <3>1, <3>2
  <2>11. ASSUME EffectFree(program) PROVE \A p \in PC : applied'[p] = 0
    <3>1. \A p \in PC : applied[p] = 0
      BY <2>11 DEF Accounted
    <3>2. x = 0
      BY <2>3, <3>1
    <3> HIDE DEF x, a
    <3> QED
      BY <1>2, <2>3, <2>5, <3>1, <3>2
  <2>12. ASSUME ~ EffectFree(program) PROVE Tally(d, n, applied')
    <3>1. Tally(e, n, applied)
      BY <2>12 DEF Accounted
    <3>2. h # n
      BY <1>2, <2>7, Constants DEF Skipped
    <3>3. ~ d[h].valid
      BY <2>3, <2>4
    <3> HIDE DEF d, e, h, n
    <3>4. e[h].pc = a
      OBVIOUS
    <3> HIDE DEF a
    <3>5. Settles(e, d, n, h, a, applied, applied')
      BY <1>2, <2>3, <2>4, <2>9, <2>10, <3>2, <3>3, <3>4 DEF Settles
    <3> QED
      BY <3>1, <3>5, TallySettle
  <2>13. stage' # "drain" /\ program' = program /\ Skipped(Pending') = n
    BY <1>0
  <2> QED
    BY <2>8, <2>9, <2>11, <2>12, <2>13 DEF Accounted
<1> QED
  BY <1>1, <1>3, <1>4

LEMMA AccountedDispatch ==
    ASSUME Base, Accounted, Issue_stage, Dispatched, Pending = Bubble, Pending' = issue_ex_next',
           EffectsRetire(program)
    PROVE  Accounted'
<1> DEFINE k == KindAt(id_issue_reg.pc)
           m == [pc |-> id_issue_reg.pc, fp |-> FALSE, is_store |-> k = "STORE"]
           t == scoreboard.tail
           e == scoreboard.entries
           d == scoreboard'.entries
           n == AllocatedEntry(m)
<1>0. /\ GoodBoard(scoreboard, Tag, PC) /\ ~ is_full(scoreboard) /\ FrontTypes /\ BackTypes
  BY DEF Base, BackTypes, Dispatched, Hazard
<1>1. /\ scoreboard' = allocate(scoreboard, m)
      /\ issue_ex_next' # Bubble => issue_ex_next'.rob_index = t /\ issue_ex_next'.pc = id_issue_reg.pc
      /\ k # "ILLEGAL" => issue_ex_next'.rob_index = t /\ issue_ex_next'.pc = id_issue_reg.pc
  BY DEF Dispatched, Dispatch
<1>2. /\ program' = program /\ applied' = applied /\ id_issue_reg' = id_issue_reg
      /\ stage' = "drain" => k = "ILLEGAL"
  BY DEF Issue_stage, historyVars, latchVars, Dispatched, IssueInstruction, Held
<1>3. m \in Metadata(PC) /\ m.pc = id_issue_reg.pc /\ id_issue_reg.pc \in PC
  BY <1>0, LatchMembers DEF Metadata, Dispatched, FrontTypes
<1>4. n.valid /\ n.pc = id_issue_reg.pc
  <2>1. Zero \in Tag /\ 0 \in PC
    BY Constants, CodeAddresses
  <2> HIDE DEF m, k
  <2>2. n.valid /\ n.pc = m.pc
    BY <1>3, <2>1, AllocatedType
  <2> QED
    BY <1>3, <2>2
<1> HIDE DEF m, n
<1>5. d = [e EXCEPT ![t] = n]
  <2>1. allocate(scoreboard, m).entries = [e EXCEPT ![t] = n]
    BY <1>0, <1>3, AllocateGood DEF n
  <2> QED
    BY <1>1, <2>1
<1>6. t \in 0 .. SIZE - 1 /\ e \in [0 .. SIZE - 1 -> BoardEntry(Tag, PC)] /\ ~ e[t].valid
  BY <1>0, BoardMembers, TailIsFree DEF GoodBoard
<1>7. d[t] = n /\ \A i \in 0 .. SIZE - 1 : i # t => d[i] = e[i]
  <2> HIDE DEF d, e, t
  <2> QED
    BY <1>5, <1>6
<1>8. Pending' # Bubble => scoreboard'.entries[Pending'.rob_index].pc = Pending'.pc
  BY <1>1, <1>4, <1>7
<1>9. ASSUME ~ EffectFree(program) PROVE Tally(d, Skipped(Pending'), applied)
  <2>1. Tally(e, Skipped(Pending), applied) /\ applied \in [PC -> Nat]
    BY <1>9 DEF Accounted
  <2>2. k # "ILLEGAL"
    BY <1>3, <1>9 DEF EffectsRetire, KindAt
  <2>3. Skipped(Pending') \in {t, SIZE}
    BY <1>1 DEF Skipped
  <2> DEFINE j == Skipped(Pending)
             l == Skipped(Pending')
  <2>4. \A i \in 0 .. SIZE - 1 : e[i].valid /\ i # j => d[i].valid /\ d[i].pc = e[i].pc /\ i # l
    BY <1>6, <1>7, <2>3, Constants
  <2> HIDE DEF e, d, j, l
  <2>5. Tally(d, l, applied)
    BY <2>1, <2>4, TallyGrows DEF j
  <2> QED
    BY <2>5 DEF l
<1> QED
  BY <1>2, <1>8, <1>9 DEF Accounted, KindAt

LEMMA TicksKeepAddresses ==
    ASSUME BackTypes
    PROVE  \A i \in 0 .. SIZE - 1 :
              /\ TickedScoreboard.entries[i].valid = scoreboard.entries[i].valid
              /\ TickedScoreboard.entries[i].pc = scoreboard.entries[i].pc
<1> DEFINE e == scoreboard.entries
<1>1. /\ \A i \in 0 .. SIZE - 1 : TickedScoreboard.entries[i] = TickedEntry(i)
      /\ e \in [0 .. SIZE - 1 -> BoardEntry(Tag, PC)]
  BY TicksBoard, BoardMembers DEF BackTypes, GoodBoard
<1>2. ASSUME NEW i \in 0 .. SIZE - 1
      PROVE  TickedEntry(i).valid = e[i].valid /\ TickedEntry(i).pc = e[i].pc
  <2>0. e[i] \in BoardEntry(Tag, PC)
    BY <1>1
  <2>1. CASE Completing(i) = {}
    BY <2>1 DEF TickedEntry
  <2>2. CASE Completing(i) # {}
    <3> DEFINE r == fu[TickOrder[Max(Completing(i))]].result
    <3>1. TickedEntry(i) = [e[i] EXCEPT !.ready = TRUE, !.rd = 0, !.result = r]
      BY <2>2 DEF TickedEntry
    <3> HIDE DEF r, e
    <3> QED
      BY <2>0, <3>1 DEF BoardEntry
  <2> QED
    BY <2>1, <2>2
<1> QED
  BY <1>1, <1>2

\* EX applies an effect or none.
LEMMA ExApplies ==
    ASSUME EX_stage
    PROVE  \/ applied' = applied
           \/ /\ issue_ex_reg # Bubble /\ ~ flush_pipeline /\ ~ stall_ex'
              /\ KindAt(issue_ex_reg.pc) \in {"AMO", "CSR", "FP"}
              /\ applied' = Apply(issue_ex_reg.pc)
<1> DEFINE s == TickedScoreboard
           f == TickedUnits
           k == KindAt(issue_ex_reg.pc)
<1>1. CASE issue_ex_reg = Bubble \/ flush_pipeline
  BY <1>1 DEF EX_stage, historyVars
<1>2. CASE issue_ex_reg # Bubble /\ ~ flush_pipeline
  <2>1. ExInstruction(s, f, k)
    BY <1>2 DEF EX_stage
  <2> HIDE DEF s, f, k
  <2>2. CASE ExTrap(s, f)
    BY <2>2 DEF ExTrap, Replay, TakeException, historyVars
  <2>3. CASE ExLoad(s, f)
    BY <2>3 DEF ExLoad, Replay, historyVars
  <2>4. CASE ExBranch(s, f)
    BY <2>4 DEF ExBranch, historyVars
  <2>5. CASE k \in {"AMO", "CSR", "FP"} /\ (ExAtomic(s, f) \/ ExCsr(s, f) \/ ExFp(s, f))
    BY <1>2, <2>5 DEF ExAtomic, ExCsr, ExFp, Proceed, k
  <2>6. CASE \/ ExAlu(s, f) \/ ExLong(s, f, Mul) \/ ExLong(s, f, Div) \/ ExStore(s, f)
             \/ ExRefused(s, f) \/ ExMret(s, f) \/ ExRestart(s, f, k = "WFI")
    BY <2>6 DEF ExAlu, ExLong, ExStore, ExRefused, ExMret, ExRestart, historyVars
  <2> QED
    BY <2>1, <2>2, <2>3, <2>4, <2>5, <2>6 DEF ExInstruction
<1> QED
  BY <1>1, <1>2

\* An exception is taken when its instruction is the only one in flight.
LEMMA LoneEntry ==
    ASSUME NEW s, GoodBoard(s, Tag, PC), NEW b \in 0 .. SIZE - 1, s.entries[b].valid,
           s.head = b, s.tail = (b + 1) % SIZE,
           NEW i \in 0 .. SIZE - 1, s.entries[i].valid
    PROVE  i = b
<1> DEFINE c == s.count
<1>1. /\ c \in 0 .. SIZE /\ (b + c) % SIZE = (b + 1) % SIZE
      /\ InWindow(i, b, c, SIZE)
  BY BoardMembers DEF GoodBoard, ScoreboardCoherent, Coherent
<1> HIDE DEF c
<1>2. i # b => At(b, i) < At(b, b)
  BY <1>1, YoungestFarthest
<1>3. At(b, b) = 0 /\ At(b, i) \in 0 .. SIZE - 1
  BY CloserByOne, Distance
<1> DEFINE x == At(b, i)
           y == At(b, b)
<1>4. (i # b => x < y) /\ y = 0 /\ x \in 0 .. SIZE - 1
  BY <1>2, <1>3
<1> HIDE DEF x, y
<1> QED
  BY <1>4

LEMMA AccountedEx ==
    ASSUME Base, Live, Accounted, WalksAlone(program), EX_stage
    PROVE  Accounted'
<1> DEFINE s == TickedScoreboard
           f == TickedUnits
           b == issue_ex_reg.rob_index
           a == issue_ex_reg.pc
           e == s.entries
           d == scoreboard'.entries
<1>0. BackTypes /\ stage = "ex" /\ stage' # "drain" /\ program' = program /\ applied \in [PC -> Nat]
  BY DEF Base, EX_stage, Accounted
<1>1. /\ ExIdles \/ ExRuns
      /\ Pending' = IF stall_ex' THEN issue_ex_reg ELSE Bubble
  BY ExBase
<1>2. /\ GoodBoard(s, Tag, PC) /\ s.tail = scoreboard.tail
      /\ \A i \in 0 .. SIZE - 1 : /\ e[i].valid = scoreboard.entries[i].valid
                                  /\ e[i].pc = scoreboard.entries[i].pc
  BY <1>0, TicksBoard, TicksKeepAddresses DEF BackTypes
<1>3. ASSUME ~ EffectFree(program) PROVE Tally(e, Skipped(Pending), applied)
  <2> DEFINE j == Skipped(Pending)
             o == scoreboard.entries
  <2>1. Tally(o, j, applied)
    BY <1>3 DEF Accounted
  <2>2. \A i \in 0 .. SIZE - 1 : o[i].valid /\ i # j => e[i].valid /\ e[i].pc = o[i].pc /\ i # j
    BY <1>2
  <2> HIDE DEF e, o, j
  <2>3. Tally(e, j, applied)
    BY <1>0, <2>1, <2>2, TallyGrows
  <2> QED
    BY <2>3 DEF j
<1>4. SIZE \in Nat \ {0}
  BY Constants
<1>5. CASE ExIdles
  <2>1. scoreboard' = s /\ Pending' = Bubble /\ Skipped(Pending') = SIZE
    BY <1>1, <1>5 DEF ExIdles, Skipped
  <2>2. applied' = applied
    BY <1>5, ExApplies DEF ExIdles
  <2>3. ASSUME ~ EffectFree(program) PROVE Tally(e, SIZE, applied)
    <3> DEFINE j == Skipped(Pending)
    <3>1. Tally(e, j, applied) /\ \A i \in 0 .. SIZE - 1 : i # SIZE
      BY <1>3, <1>4, <2>3
    <3> HIDE DEF e, j
    <3> QED
      BY <1>0, <3>1, TallyGrows
  <2> HIDE DEF s
  <2> QED
    BY <1>0, <2>1, <2>2, <2>3 DEF Accounted
<1>6. CASE ExRuns
  <2>1. /\ issue_ex_reg \in ExInstr /\ b \in 0 .. SIZE - 1 /\ a \in PC
        /\ Pending = issue_ex_reg /\ issue_ex_reg # Bubble /\ Skipped(Pending) = b
    <3>1. issue_ex_reg \in ExInstr /\ ~ flush_pipeline
      BY <1>6 DEF ExRuns
    <3>2. issue_ex_reg # Bubble
      BY <3>1 DEF ExInstr, Bubble
    <3>3. Pending = issue_ex_reg
      BY <1>0, <3>1 DEF Pending, Early
    <3> QED
      BY <3>1, <3>2, <3>3 DEF ExInstr, Skipped
  <2>2. e[b].valid /\ e[b].pc = a
    <3>1. Awaits(scoreboard, fu, b)
      BY <2>1 DEF Live
    <3>2. scoreboard.entries[b].valid /\ scoreboard.entries[b].pc = a
      BY <2>1, <3>1 DEF Awaits, Unfinished, Accounted
    <3> QED
      BY <1>2, <2>1, <3>2
  <2>3. ~ EffectFree(program) => Tally(e, b, applied)
    BY <1>3, <2>1
  <2>4. ~ WalkPossible
    BY DEF Live, StoreFree, WalkPossible
  <2>5. ExReplays(s, f) \/ ExTraps(s) \/ ExFinishes(s, f) \/ ExStarts(s, f)
    BY <1>6 DEF ExRuns, ExOutcome
  <2>6. /\ s.tail = (b + 1) % SIZE
        /\ is_empty(s) => ~ e[b].valid
    BY <1>2, <2>1, TailIsFree DEF Base, TailFollows
  <2> HIDE DEF s, f, b, a
  <2>7. CASE ExReplays(s, f)
    <3>1. scoreboard' = s /\ Pending' = issue_ex_reg /\ applied' = applied
      BY <1>1, <2>7 DEF ExReplays
    <3>2. Skipped(Pending') = b
      BY <2>1, <3>1
    <3>3. scoreboard'.entries[Pending'.rob_index].pc = Pending'.pc
      BY <2>2, <3>1 DEF b, a
    <3> QED
      BY <1>0, <2>3, <3>1, <3>2, <3>3 DEF Accounted
  <2>8. CASE ExTraps(s)
    <3>1. Pending' = Bubble /\ applied' = applied /\ s.head = b
      BY <1>1, <2>2, <2>6, <2>8 DEF ExTraps, has_unready_older, b
    <3>2. \A i \in 0 .. SIZE - 1 : e[i].valid => i = b
      BY <1>2, <2>1, <2>2, <2>6, <3>1, LoneEntry
    <3>3. ASSUME ~ EffectFree(program) PROVE Tally(d, SIZE, applied)
      <4>1. \A i \in 0 .. SIZE - 1 : ~ (e[i].valid /\ i # b)
        BY <3>2
      <4> HIDE DEF e, d
      <4> QED
        BY <1>0, <2>3, <3>3, <4>1, TallyGrows
    <3> QED
      BY <1>0, <3>1, <3>3 DEF Accounted, Skipped
  <2>9. ASSUME Kept(s, scoreboard', b), ~ stall_ex' PROVE Accounted'
    <3>1. \A i \in 0 .. SIZE - 1 : (d[i].valid <=> e[i].valid) /\ d[i].pc = e[i].pc
      BY <1>2, <2>1, <2>9, KeptValid DEF Kept
    <3>2. Pending' = Bubble /\ Skipped(Pending') = SIZE
      BY <1>1, <2>9 DEF Skipped
    <3>3. CASE applied' = applied
      <4>1. ASSUME ~ EffectFree(program) PROVE Tally(d, SIZE, applied)
        <5>1. \A i \in 0 .. SIZE - 1 : i # SIZE
          BY <1>4
        <5> HIDE DEF e, d
        <5> QED
          BY <1>0, <2>3, <3>1, <4>1, <5>1, TallyGrows
      <4> QED
        BY <1>0, <3>2, <3>3, <4>1 DEF Accounted
    <3>4. CASE /\ KindAt(issue_ex_reg.pc) \in {"AMO", "CSR", "FP"}
               /\ applied' = Apply(issue_ex_reg.pc)
      <4> DEFINE x == IF applied[a] <= SIZE THEN applied[a] + 1 ELSE applied[a]
      <4>1. applied' = [applied EXCEPT ![a] = x]
        BY <3>4 DEF Apply, a
      <4>2. x \in Nat /\ x <= applied[a] + 1
        BY <1>0, <1>4, <2>1
      <4>3. ~ EffectFree(program)
        BY <2>1, <3>4 DEF EffectFree, KindAt, a
      <4> HIDE DEF x, e, d
      <4>4. applied' \in [PC -> Nat]
        BY <1>0, <2>1, <4>1, <4>2
      <4>5. Tally(d, SIZE, [applied EXCEPT ![a] = x])
        BY <1>0, <2>1, <2>2, <2>3, <3>1, <4>2, <4>3, TallyApply
      <4> QED
        BY <1>0, <3>2, <4>1, <4>3, <4>4, <4>5 DEF Accounted, d
    <3> QED
      BY <3>3, <3>4, ExApplies
  <2>10. CASE ExFinishes(s, f)
    BY <2>9, <2>10 DEF ExFinishes, Finished, b
  <2>11. CASE ExStarts(s, f)
    BY <2>9, <2>11 DEF ExStarts, Untouched, b
  <2> QED
    BY <2>5, <2>7, <2>8, <2>10, <2>11
<1> QED
  BY <1>1, <1>5, <1>6

LEMMA AccountedStep ==
    ASSUME Base, Live, Accounted, WalksAlone(program), EffectsRetire(program), [Next]_vars
    PROVE  Accounted'
<1>0. BackTypes
  BY DEF Base
<1>1. CASE UNCHANGED vars
  <2>1. Pending' = Pending /\ UNCHANGED <<stage, program, backVars>>
    BY <1>1, BaseStutters
  <2>2. UNCHANGED <<id_issue_reg, applied>>
    BY <1>1 DEF vars, latchVars, historyVars
  <2> QED
    BY <1>0, <2>1, <2>2, AccountedSame
<1>2. CASE LatchTransfer
  <2>1. Pending' = Pending /\ UNCHANGED <<program, backVars, applied>> /\ stage' # "drain"
    BY <1>2, LatchBase DEF LatchTransfer, historyVars
  <2> QED
    BY <1>0, <2>1, AccountedSame
<1>3. CASE cpu_process_IRQ
  <2>1. program' = program /\ stage' # "drain" /\ applied' = applied
    BY <1>3 DEF cpu_process_IRQ, TakeInterrupt, NoInterrupt, historyVars
  <2>2. CASE Interrupted /\ Pending' = Bubble
    <3>1. EffectFree(program)
      BY <2>2 DEF Interrupted, EffectsRetire
    <3> QED
      BY <2>1, <2>2, <3>1 DEF Accounted
  <2>3. CASE UNCHANGED <<backVars, flush_pipeline>> /\ Pending' = Pending
    BY <1>0, <2>1, <2>3, AccountedSame
  <2> QED
    BY <1>3, <2>2, <2>3, IrqBase
<1>4. CASE Commit_stage
  BY <1>4, AccountedCommit
<1>5. CASE EX_stage
  BY <1>5, AccountedEx
<1>6. CASE Issue_stage
  <2>1. \/ scoreboard' = scoreboard /\ stage' = "id" /\ Pending' = Pending
        \/ Dispatched /\ Pending = Bubble /\ Pending' = issue_ex_next'
    BY <1>6, IssueBase
  <2>2. CASE scoreboard' = scoreboard /\ stage' = "id" /\ Pending' = Pending
    <3>1. UNCHANGED <<backVars, program, applied>>
      BY <1>6, <2>2 DEF Issue_stage, backVars, historyVars
    <3> QED
      BY <1>0, <2>2, <3>1, AccountedSame
  <2>3. CASE Dispatched /\ Pending = Bubble /\ Pending' = issue_ex_next'
    BY <1>6, <2>3, AccountedDispatch
  <2> QED
    BY <2>1, <2>2, <2>3
<1>7. CASE Issue_illegal
  <2>1. /\ Pending' = Bubble /\ program' = program /\ stage = "drain"
        /\ id_issue_reg' = id_issue_reg /\ id_issue_reg.pc \in PC
    <3>1. stage = "drain" => id_issue_reg # Bubble
      BY DEF Base, FlushEnds
    <3> QED
      BY <1>7, <3>1, DrainBase, LatchMembers
         DEF Issue_illegal, backLatches, latchVars, Base, FrontTypes
  <2>2. KindAt(id_issue_reg.pc) = "ILLEGAL" /\ applied \in [PC -> Nat]
    BY <2>1 DEF Accounted
  <2>3. EffectFree(program)
    BY <2>1, <2>2 DEF EffectsRetire, KindAt
  <2>4. \A p \in PC : applied[p] = 0
    BY <2>3 DEF Accounted
  <2>5. applied' = applied
    <3>1. CASE DrainReady
      <4> DEFINE a == get_head(scoreboard).pc
      <4>1. a \in PC
        BY <1>0, BoardMembers DEF BackTypes, GoodBoard, get_head, BoardEntry
      <4>2. applied' = [applied EXCEPT ![a] = IF applied[a] > 0 THEN applied[a] - 1 ELSE 0]
        BY <3>1 DEF DrainReady, Settle
      <4>3. applied[a] = 0
        BY <2>4, <4>1
      <4> HIDE DEF a
      <4> QED
        BY <2>2, <4>1, <4>2, <4>3
    <3>2. CASE IllegalTrap
      BY <3>2 DEF IllegalTrap
    <3> QED
      BY <1>7, <3>1, <3>2 DEF Issue_illegal
  <2> QED
    BY <2>1, <2>2, <2>3, <2>4, <2>5 DEF Accounted, KindAt
<1>8. CASE ID_stage
  <2>1. Pending' = Pending /\ UNCHANGED <<program, backVars, applied>> /\ stage' # "drain"
    BY <1>8, IdBase DEF ID_stage, historyVars
  <2> QED
    BY <1>0, <2>1, AccountedSame
<1>9. CASE Fetch_stage
  <2>1. Pending' = Pending /\ UNCHANGED <<program, backVars>> /\ stage' # "drain"
    BY <1>9, FetchBase DEF Fetch_stage
  <2>2. applied' = applied
    BY <1>9 DEF Fetch_stage, NoDelivery, CountDown, FetchMiss, FetchFault, Deliver, historyVars
  <2> QED
    BY <1>0, <2>1, <2>2, AccountedSame
<1>10. CASE PCGen_stage
  <2>1. /\ Pending' \in {Bubble, Pending}
        /\ UNCHANGED <<program, backVars, applied>> /\ stage' # "drain"
    BY <1>10, PCGenBase DEF PCGen_stage, historyVars
  <2> QED
    BY <1>0, <2>1, AccountedSame
<1> QED
  BY <1>1, <1>2, <1>3, <1>4, <1>5, <1>6, <1>7, <1>8, <1>9, <1>10 DEF Next

\* What EX does at once to memory, CSRs and FP registers it does once for every
\* instruction that retires, also in loops of which several rounds are in flight:
\* replays come before the effect, exceptions wait until nothing older is left,
\* and a mispredicted branch finds nothing younger (EX, Commit).  Programs with
\* such effects are taken without interrupts and illegal instructions, which drop
\* instructions after their effect: see EffectsRetire.
THEOREM EffectsAppliedOnceHolds ==
    ASSUME \A p \in Programs : WalksAlone(p) /\ EffectsRetire(p)
    PROVE  Spec => []EffectsAppliedOnce
<1>1. Base /\ Accounted => EffectsAppliedOnce
  <2> SUFFICES ASSUME Base, Accounted, NEW p \in PC
               PROVE  LET S == {i \in 0 .. SIZE - 1 :
                                   InFlight(scoreboard, i) /\ scoreboard.entries[i].pc = p}
                      IN  applied[p] <= 1 \/ applied[p] <= Cardinality(S)
    BY DEF EffectsAppliedOnce
  <2> DEFINE e == scoreboard.entries
             S == {i \in 0 .. SIZE - 1 : InFlight(scoreboard, i) /\ e[i].pc = p}
  <2>1. CASE EffectFree(program)
    BY <2>1 DEF Accounted
  <2>2. CASE ~ EffectFree(program)
    <3>1. Tally(e, Skipped(Pending), applied) /\ applied \in [PC -> Nat]
      BY <2>2 DEF Accounted
    <3>2. \A i \in 0 .. SIZE - 1 : e[i].valid <=> InFlight(scoreboard, i)
      BY DEF Base, BackTypes, GoodBoard, ScoreboardCoherent, Coherent, InFlight
    <3>3. \A i \in 0 .. SIZE - 1 : i # SIZE
      BY Constants
    <3>4. S = Ran(e, SIZE, p)
      BY <3>2, <3>3 DEF Ran
    <3>5. Tally(e, SIZE, applied)
      <4> DEFINE j == Skipped(Pending)
      <4>1. Tally(e, j, applied)
        BY <3>1
      <4> HIDE DEF e, j
      <4> QED
        BY <3>1, <3>3, <4>1, TallyGrows
    <3>6. applied[p] <= Cardinality(Ran(e, SIZE, p))
      BY <3>5 DEF Tally
    <3> QED
      BY <3>4, <3>6
  <2> QED
    BY <2>1, <2>2
<1>2. Base => WalksAlone(program) /\ EffectsRetire(program)
  BY DEF Base, FrontTypes
<1>3. Base /\ Live /\ Accounted /\ [Next]_vars => Accounted'
  BY <1>2, AccountedStep
<1>4. Init => Accounted
  BY AccountedInit
<1>5. Spec => [](Base /\ Live)
  BY LiveHolds
<1> QED
  BY <1>1, <1>3, <1>4, <1>5, PTL DEF Spec

-----------------------------------------------------------------------------
(* The simulation does not stop early.                                       *)

Late == {"issue", "drain", "id", "fetch", "pcgen"}

\* An instruction in one of the latches that Terminates looks at.
Occupied ==
    \/ pcgen_fetch_reg # Bubble \/ fetch_id_reg # Bubble
    \/ id_issue_reg # Bubble \/ issue_ex_reg # Bubble

\* PCGen's own latch and its lost cycle.
PCGenAwake ==
    /\ stage # "latch" => pcgen_fetch_reg = pcgen_fetch_next
    /\ taken_redirect_bubble => pcgen_fetch_next # Bubble
    /\ wfi_stall => ~ taken_redirect_bubble \/ flush_pipeline

\* A replay, a flush or a stall leaves the instruction that caused it in sight.
CausesVisible ==
    /\ stage \in Late => /\ stall_ex => issue_ex_reg # Bubble
                         /\ flush_pipeline => prev_cycle_flush \/ Occupied
                         /\ prev_cycle_flush => flush_pipeline
    /\ stage \in Late \ {"issue"} => (stall_pcgen => Occupied)
    /\ stage \in {"latch"} \cup (Late \ {"issue"}) =>
          (stall_issue => id_issue_reg # Bubble \/ (stall_ex /\ issue_ex_reg # Bubble))

\* So does the fetch queue.
QueueVisible ==
    IF stage = "latch" THEN prev_cycle_flush => fetch_queue = <<>>
    ELSE fetch_queue # <<>> => Occupied

Awake == PCGenAwake /\ CausesVisible /\ QueueVisible

LEMMA AwakeInit ==
    ASSUME Init PROVE Awake
  BY DEF Init, Awake, PCGenAwake, CausesVisible, QueueVisible, Late

LEMMA BubbleNoInstr == \A l \in Instr : l # Bubble
<1> SUFFICES ASSUME NEW l \in Instr PROVE l # Bubble
  OBVIOUS
<1>1. l.pc \in PC /\ -1 \notin PC
  BY DEF Instr, PC
<1>2. Bubble.pc = -1
  BY DEF Bubble
<1> QED
  BY <1>1, <1>2

LEMMA AwakeLatch ==
    ASSUME Base, Awake, LatchTransfer PROVE Awake'
<1>0. /\ stage = "latch" /\ stage' = "irq" /\ fetch_queue \in Seq(Instr)
      /\ fetch_id_next \in FrontLatch
      /\ Base'
  BY LatchBase DEF LatchTransfer, Base, FrontTypes
<1>1. PCGenAwake'
  BY <1>0 DEF LatchTransfer, Awake, PCGenAwake, flushVars
<1>2. CausesVisible'
  BY <1>0 DEF CausesVisible, Late
<1>3. QueueVisible'
  <2>1. CASE prev_cycle_flush
    <3>1. fetch_queue' = <<>>
      BY <1>0, <2>1 DEF LatchTransfer, Awake, QueueVisible
    <3> QED
      BY <1>0, <3>1 DEF QueueVisible
  <2>2. CASE ~ prev_cycle_flush /\ stall_issue
    <3>1. id_issue_reg' # Bubble \/ issue_ex_reg' # Bubble
      BY <1>0, <2>2 DEF LatchTransfer, Awake, CausesVisible
    <3> QED
      BY <1>0, <3>1 DEF QueueVisible, Occupied
  <2>3. CASE ~ prev_cycle_flush /\ ~ stall_issue
    <3> DEFINE q == QueueAfterPush
    <3>1. CASE q = <<>>
      BY <1>0, <2>3, <3>1 DEF LatchTransfer, QueueVisible
    <3>2. CASE q # <<>>
      <4>1. q \in Seq(Instr)
        <5>1. CASE fetch_id_next # Bubble /\ Len(fetch_queue) < FETCH_QUEUE_CAPACITY
          <6>1. fetch_id_next \in Instr /\ q = Append(fetch_queue, fetch_id_next)
            BY <1>0, <5>1, LatchMembers DEF QueueAfterPush
          <6> QED
            BY <1>0, <6>1, AppendProperties
        <5>2. CASE ~ (fetch_id_next # Bubble /\ Len(fetch_queue) < FETCH_QUEUE_CAPACITY)
          BY <1>0, <5>2 DEF QueueAfterPush
        <5> QED
          BY <5>1, <5>2
      <4>2. fetch_id_reg' = Head(q)
        BY <2>3, <3>2 DEF LatchTransfer
      <4> HIDE DEF q
      <4>3. Head(q) \in Instr
        BY <3>2, <4>1, HeadTailProperties
      <4> QED
        BY <1>0, <4>2, <4>3, BubbleNoInstr DEF QueueVisible, Occupied
    <3> QED
      BY <3>1, <3>2
  <2> QED
    BY <2>1, <2>2, <2>3
<1> QED
  BY <1>1, <1>2, <1>3 DEF Awake

LEMMA AwakeIrq ==
    ASSUME Base, Awake, cpu_process_IRQ PROVE Awake'
<1>1. /\ stage = "irq" /\ stage' = "commit1" /\ UNCHANGED <<latchVars, frontVars>>
      /\ \/ ~ wfi_stall'
         \/ wfi_stall' = wfi_stall /\ flush_pipeline' = flush_pipeline
  BY DEF cpu_process_IRQ, backLatches, TakeInterrupt, NoInterrupt, flushVars
<1> QED
  BY <1>1 DEF Awake, PCGenAwake, CausesVisible, QueueVisible, Late, Occupied, latchVars, frontVars

LEMMA AwakeCommit ==
    ASSUME Base, Awake, Commit_stage PROVE Awake'
<1>1. /\ stage \in {"commit1", "commit2"} /\ stage' \in {"commit2", "ex"}
      /\ UNCHANGED <<latchVars, frontVars, wfi_stall, flushVars>>
  BY DEF Commit_stage, backLatches
<1> QED
  BY <1>1 DEF Awake, PCGenAwake, CausesVisible, QueueVisible, Late, Occupied, latchVars,
              frontVars, flushVars

LEMMA AwakeEx ==
    ASSUME Base, Awake, EX_stage PROVE Awake'
<1>1. /\ stage = "ex" /\ stage' = "issue" /\ UNCHANGED <<latchVars, frontVars>>
      /\ prev_cycle_flush' = flush_pipeline'
  BY DEF EX_stage, backLatches
<1>2. /\ stall_ex' => issue_ex_reg # Bubble
      /\ \/ wfi_stall' = wfi_stall /\ (flush_pipeline => flush_pipeline')
         \/ flush_pipeline'
  <2>1. CASE issue_ex_reg = Bubble \/ flush_pipeline
    BY <2>1 DEF EX_stage, flushVars
  <2>2. CASE ~ (issue_ex_reg = Bubble \/ flush_pipeline)
    <3>1. \/ wfi_stall' = wfi_stall
          \/ flush_pipeline'
      BY <2>2 DEF EX_stage, ExInstruction, ExTrap, Replay, TakeException, ExAlu, ExLong, ExFp,
                  ExLoad, ExStore, ExBranch, ExAtomic, ExCsr, ExRefused, ExMret, ExRestart,
                  Proceed, RedirectTo, flushVars
    <3> QED
      BY <2>2, <3>1
  <2> QED
    BY <2>1, <2>2
<1>3. PCGenAwake'
  BY <1>1, <1>2 DEF Awake, PCGenAwake, latchVars, frontVars
<1>4. CausesVisible'
  BY <1>1, <1>2 DEF CausesVisible, Late, latchVars
<1>5. QueueVisible'
  BY <1>1 DEF Awake, QueueVisible, Occupied, latchVars, frontVars
<1> QED
  BY <1>3, <1>4, <1>5 DEF Awake

LEMMA AwakeIssue ==
    ASSUME Base, Awake, Issue_stage PROVE Awake'
<1>1. /\ stage = "issue" /\ stage' \in {"id", "drain"}
      /\ UNCHANGED <<latchVars, frontVars, wfi_stall, flushVars, stall_ex, prev_cycle_flush>>
  BY DEF Issue_stage, IssueInstruction
<1>2. /\ stall_ex \/ ~ stall_pcgen'
      /\ stall_issue' => stall_ex \/ id_issue_reg # Bubble
  BY DEF Issue_stage, IssueInstruction, Held, Dispatch
<1>3. PCGenAwake'
  BY <1>1 DEF Awake, PCGenAwake, latchVars, frontVars, flushVars
<1>4. CausesVisible'
  BY <1>1, <1>2 DEF Awake, CausesVisible, Late, Occupied, latchVars, flushVars
<1>5. QueueVisible'
  BY <1>1 DEF Awake, QueueVisible, Occupied, latchVars, frontVars
<1> QED
  BY <1>3, <1>4, <1>5 DEF Awake

LEMMA AwakeDrain ==
    ASSUME Base, Awake, Issue_illegal PROVE Awake'
<1>1. /\ stage = "drain" /\ stage' \in {"id", "drain"}
      /\ UNCHANGED <<latchVars, frontVars, stallVars, wfi_stall, stall_ex, prev_cycle_flush>>
      /\ flush_pipeline' = flush_pipeline \/ flush_pipeline'
      /\ id_issue_reg # Bubble
  BY DEF Issue_illegal, DrainReady, IllegalTrap, backLatches, RedirectTo, flushVars, Base, FlushEnds
<1>3. PCGenAwake'
  BY <1>1 DEF Awake, PCGenAwake, latchVars, frontVars
<1>4. CausesVisible'
  BY <1>1 DEF Awake, CausesVisible, Late, Occupied, latchVars, stallVars
<1>5. QueueVisible'
  BY <1>1 DEF Awake, QueueVisible, Occupied, latchVars, frontVars
<1> QED
  BY <1>3, <1>4, <1>5 DEF Awake

LEMMA AwakeId ==
    ASSUME Base, Awake, ID_stage PROVE Awake'
<1>1. /\ stage = "id" /\ stage' = "fetch"
      /\ UNCHANGED <<latchVars, frontVars, stallVars, wfi_stall, stall_ex, prev_cycle_flush>>
      /\ flush_pipeline' = flush_pipeline \/ (flush_pipeline' /\ fetch_id_reg # Bubble)
  BY DEF ID_stage, flushVars
<1>3. PCGenAwake'
  BY <1>1 DEF Awake, PCGenAwake, latchVars, frontVars
<1>4. CausesVisible'
  BY <1>1 DEF Awake, CausesVisible, Late, Occupied, latchVars, stallVars
<1>5. QueueVisible'
  BY <1>1 DEF Awake, QueueVisible, Occupied, latchVars, frontVars
<1> QED
  BY <1>3, <1>4, <1>5 DEF Awake

LEMMA AwakeFetch ==
    ASSUME Base, Awake, Fetch_stage PROVE Awake'
<1>1. /\ stage = "fetch" /\ stage' = "pcgen"
      /\ UNCHANGED <<latchVars, pcgen_fetch_next, taken_redirect_bubble, fetch_queue, stall_issue,
                     wfi_stall, stall_ex, prev_cycle_flush>>
  BY DEF Fetch_stage
<1>2. /\ flush_pipeline' = flush_pipeline \/ (flush_pipeline' /\ pcgen_fetch_reg # Bubble)
      /\ stall_pcgen' => stall_pcgen \/ pcgen_fetch_reg # Bubble
  <2>1. CASE pcgen_fetch_reg # Bubble
    <3>1. flush_pipeline' = flush_pipeline \/ flush_pipeline'
      BY DEF Fetch_stage, NoDelivery, CountDown, FetchMiss, FetchFault, Deliver, flushVars
    <3> QED
      BY <2>1, <3>1
  <2>2. CASE pcgen_fetch_reg = Bubble
    <3>1. \/ NoDelivery(FALSE)
          \/ UNCHANGED <<stall_pcgen, flushVars>>
      BY <2>2 DEF Fetch_stage
    <3>2. flush_pipeline' = flush_pipeline
      BY <3>1 DEF NoDelivery, flushVars
    <3>3. stall_pcgen' => stall_pcgen
      <4>1. CASE stall_pcgen' = (stall_pcgen \/ FALSE)
        BY <4>1
      <4>2. CASE stall_pcgen' = stall_pcgen
        BY <4>2
      <4> QED
        BY <3>1, <4>1, <4>2 DEF NoDelivery
    <3> QED
      BY <3>2, <3>3
  <2> QED
    BY <2>1, <2>2
<1>3. PCGenAwake'
  BY <1>1, <1>2 DEF Awake, PCGenAwake, latchVars
<1>4. CausesVisible'
  BY <1>1, <1>2 DEF Awake, CausesVisible, Late, Occupied, latchVars
<1>5. QueueVisible'
  BY <1>1 DEF Awake, QueueVisible, Occupied, latchVars
<1> QED
  BY <1>3, <1>4, <1>5 DEF Awake

\* PCGen sends an instruction into an empty front end, or shows why it waits.
LEMMA AwakePCGen ==
    ASSUME Base, Awake, PCGen_stage PROVE Awake' /\ ~ Terminates'
<1>1. /\ stage = "pcgen" /\ stage' = "latch"
      /\ UNCHANGED <<latchVars, stall_issue, stall_ex, wfi_stall, prev_cycle_flush>>
      /\ next_pc \in PC /\ fetch_queue \in Seq(Instr)
  BY DEF PCGen_stage, Base, FrontTypes
<1>2. /\ pcgen_fetch_reg = pcgen_fetch_next
      /\ taken_redirect_bubble => pcgen_fetch_next # Bubble
      /\ wfi_stall => ~ taken_redirect_bubble \/ flush_pipeline
      /\ flush_pipeline => prev_cycle_flush \/ Occupied
      /\ prev_cycle_flush => flush_pipeline
      /\ stall_pcgen => Occupied
      /\ fetch_queue # <<>> => Occupied
  BY <1>1 DEF Awake, PCGenAwake, CausesVisible, QueueVisible, Late
<1>3. queue_full => Occupied
  <2>1. queue_full => Len(fetch_queue) # 0
    BY <1>1, Constants DEF queue_full
  <2>2. fetch_queue = <<>> => Len(fetch_queue) = 0
    OBVIOUS
  <2> QED
    BY <1>2, <2>1, <2>2
<1>4. Predict => pcgen_fetch_next' # Bubble
  <2>1. \A t : [pc |-> next_pc, predicted |-> t] # Bubble
    <3>1. next_pc # -1
      BY <1>1 DEF PC
    <3> QED
      BY <3>1 DEF Bubble
  <2> QED
    BY <2>1 DEF Predict
<1>5. \/ flush_pipeline /\ Redirect
      \/ ~ flush_pipeline /\ wfi_stall /\ pcgen_fetch_next' = Bubble
         /\ taken_redirect_bubble' = taken_redirect_bubble /\ flush_pipeline' = flush_pipeline
      \/ ~ flush_pipeline /\ (stall_pcgen \/ queue_full) /\ flush_pipeline' = flush_pipeline
         /\ UNCHANGED <<taken_redirect_bubble, pcgen_fetch_next>>
      \/ ~ flush_pipeline /\ ~ wfi_stall /\ SpendBubble
      \/ ~ flush_pipeline /\ ~ wfi_stall /\ Predict
  BY DEF PCGen_stage, KeepLatches
<1>6. PCGenAwake'
  BY <1>1, <1>2, <1>4, <1>5 DEF PCGenAwake, Redirect, SpendBubble, Predict
<1>7. CausesVisible'
  BY <1>1 DEF Awake, CausesVisible, Late, latchVars
<1>8. QueueVisible'
  BY <1>1, <1>2, <1>5 DEF QueueVisible, Redirect
<1>9. \/ wfi_stall' \/ prev_cycle_flush' \/ Occupied'
      \/ pcgen_fetch_next' # Bubble
  BY <1>1, <1>2, <1>3, <1>4, <1>5 DEF SpendBubble, Occupied, latchVars
<1>10. ~ Terminates'
  BY <1>9 DEF Terminates, Occupied
<1> QED
  BY <1>6, <1>7, <1>8, <1>10 DEF Awake

LEMMA AwakeStutters ==
    ASSUME Awake, UNCHANGED vars PROVE Awake'
  BY DEF vars, frontVars, latchVars, stallVars, flushVars, Awake, PCGenAwake, CausesVisible,
         QueueVisible, Late, Occupied

\* The loop of cycle_thread ends when no latch and no entry holds an instruction
\* and neither a redirect nor a wait for an interrupt explains it.  At the end of
\* no cycle is that the case, for every program, event, latency and size: fetch
\* stalls, replays, the lost cycle of a predicted jump, WFI and every kind of
\* flush leave something in sight (PCGen and the exit test of cycle_thread).
THEOREM NeverStopsEarlyHolds == Spec => NeverStopsEarly
<1>1. Init => Awake
  BY AwakeInit
<1>2. Base /\ Awake /\ [Next]_vars => Awake'
  BY AwakeStutters, AwakeLatch, AwakeIrq, AwakeCommit, AwakeEx, AwakeIssue, AwakeDrain, AwakeId,
     AwakeFetch, AwakePCGen DEF Next
<1>3. Base /\ Awake /\ [Next]_vars => [PCGen_stage => ~Terminates']_vars
  BY AwakePCGen
<1> QED
  BY <1>1, <1>2, <1>3, BaseHolds, PTL DEF Spec, NeverStopsEarly

=============================================================================
