------------------------- MODULE PipelineRefinement -------------------------
(***************************************************************************)
(* The six-stage core implements the sequential machine: every behaviour   *)
(* of Pipeline retires instructions one by one along the program's path    *)
(* and takes every trap between two of them, for every program of a class  *)
(* (Orderly), every size of the scoreboard, the fetch queue and the store  *)
(* buffer, every number of slots and every latency.                        *)
(***************************************************************************)
EXTENDS PipelineProofs

-----------------------------------------------------------------------------
(* The path of the front end.                                                *)

\* Where the front end has gone from instruction l, which may be compressed, and
\* where PCGen went before anyone knew its size.
Goes(p, l)  == IF l.predicted = NotTaken THEN Following(p, l.pc) ELSE l.predicted
Ahead(p, l) == IF l.predicted = NotTaken THEN Advance(p, l.pc, 2) ELSE l.predicted

\* Instructions of mode v, only branches predicted taken.
Local(p, v) ==
    {l \in Instr : /\ PrivOf(l.pc) = v
                   /\ l.predicted # NotTaken => p.code[l.pc].kind = "BRANCH"}

\* The address of latch l, of queue q or, where they are empty, of what follows.
From(l, a)   == IF l = Bubble THEN a ELSE l.pc
Leading(q, a) == IF q = <<>> THEN a ELSE q[1].pc

Joins(p, v, l, a) == l # Bubble => l \in Local(p, v) /\ Goes(p, l) = a

Runs(p, q, a) ==
    \A k \in 1 .. Len(q) : Goes(p, q[k]) = IF k = Len(q) THEN a ELSE q[k + 1].pc

\* Two decode latches, the queue, Fetch's result, PCGen's latch and next_pc n
\* hold consecutive instructions, oldest first.
Path(p, v, d1, d2, q, f, g, n) ==
    LET a4 == From(g, n)
        a3 == From(f, a4)
        a2 == Leading(q, a3)
        a1 == From(d2, a2)
    IN  /\ n \in PC /\ PrivOf(n) = v
        /\ g # Bubble => g \in Local(p, v) /\ Ahead(p, g) = n
        /\ Joins(p, v, f, a4)
        /\ q \in Seq(Local(p, v)) /\ Runs(p, q, a3)
        /\ Joins(p, v, d2, a2)
        /\ Joins(p, v, d1, a1)

Begin(d1, d2, q, f, g, n) ==
    From(d1, From(d2, Leading(q, From(f, From(g, n)))))

\* Where these are at each point of the cycle.
Decoding == {"fetch", "pcgen", "latch"}
D1 == IF stage \in Early \cup {"issue"} \/ stall_issue THEN id_issue_reg
      ELSE IF stage \in Decoding THEN id_issue_next ELSE Bubble
D2 == IF stage \in Decoding /\ ~ stall_issue THEN Bubble ELSE fetch_id_reg
G  == IF stage = "pcgen" /\ fetch_id_next # Bubble THEN Bubble ELSE pcgen_fetch_next

Flow ==
    ~ flush_pipeline =>
        Path(program, priv, D1, D2, fetch_queue, fetch_id_next, G, next_pc)

\* The address of the oldest instruction that Issue has not dispatched.
Origin == IF flush_pipeline THEN pc_redirect_target
          ELSE Begin(D1, D2, fetch_queue, fetch_id_next, G, next_pc)

-----------------------------------------------------------------------------
(* The flags that keep the front end from losing or repeating an instruction. *)

\* Fetch's result waits for the latch transfer, and finds room in the queue.
Delivery ==
    /\ fetch_id_next # Bubble =>
          stage \in {"pcgen", "latch"} /\ Len(fetch_queue) < FETCH_QUEUE_CAPACITY
    /\ stage = "pcgen" /\ ~ flush_pipeline =>
          IF fetch_id_next # Bubble THEN ~ stall_pcgen
          ELSE pcgen_fetch_next = Bubble \/ stall_pcgen \/ queue_full

\* Whoever holds Fetch holds PCGen, and without replays nobody does for two cycles.
HoldsAgree ==
    IF program.stalls = {}
    THEN /\ icache_miss_remaining = 0
         /\ IF stage = "pcgen" /\ ~ flush_pipeline
            THEN stall_fetch <=> stall_pcgen \/ queue_full
            ELSE stall_fetch <=> stall_pcgen
    ELSE /\ ~ stall_ex
         /\ stage \in {"drain", "id", "fetch"} => ~ stall_fetch /\ ~ stall_pcgen

\* What a flush, a sleeping core and a stalled one leave in the latches.
Emptied ==
    /\ flush_pipeline => ~ stall_ex
    /\ flush_pipeline /\ stage \in {"id", "fetch", "pcgen"} => ~ stall_issue
    /\ stage = "drain" => ~ stall_issue /\ ~ flush_pipeline
    /\ stage = "latch" /\ prev_cycle_flush =>
          /\ id_issue_next = Bubble /\ fetch_id_next = Bubble /\ fetch_queue = <<>>
          /\ ~ stall_issue /\ ~ stall_ex
    /\ stage = "irq" /\ fetch_queue # <<>> =>
          issue_ex_reg # Bubble \/ id_issue_reg # Bubble \/ fetch_id_reg # Bubble
    /\ wfi_stall /\ ~ flush_pipeline => pcgen_fetch_next = Bubble
    /\ stage = "fetch" /\ ~ flush_pipeline /\ ~ stall_issue => id_issue_next = fetch_id_reg

\* Without stores there is nothing that sends a load back.
StoreLess == (\A a \in PC : KindAt(a) # "STORE") => buffer_empty

Steady == Delivery /\ HoldsAgree /\ Emptied /\ StoreLess

-----------------------------------------------------------------------------
(* Modes. *)

Modes ==
    /\ mepc = saved.pc /\ mpp = "U" /\ PrivOf(saved.pc) = "U" /\ saved.pc \in PC
    /\ priv \in {"U", "M"}
    /\ flush_pipeline => PrivOf(pc_redirect_target) = priv
    /\ "irq" \in program.events /\ ~ pending_priv_switch =>
          \A i \in 0 .. SIZE - 1 :
             scoreboard.entries[i].valid => PrivOf(scoreboard.entries[i].pc) = priv

-----------------------------------------------------------------------------
(* The path of the scoreboard.                                               *)

\* Where control goes from a, which the latest trap interrupted at r.
Succ(p, r, a) ==
    CASE p.code[a].kind = "BRANCH" -> {Following(p, a), p.code[a].target}
      [] p.code[a].kind = "MRET"   -> {r}
      [] OTHER                     -> {Following(p, a)}

\* The slot before the tail t.
Youngest(t) == (t + SIZE - 1) % SIZE

\* Ring e from h up to t, with c entries: instructions of one path from n, ...
Linked(e, h, t, c, n) ==
    /\ c > 0 => e[h].pc = n
    /\ \A i \in 0 .. SIZE - 1 :
          e[i].valid /\ i # Youngest(t) => e[(i + 1) % SIZE].pc = e[i].next

\* ... which leads to a, ...
Leads(e, t, c, n, a) ==
    IF c = 0 THEN n = a ELSE e[Youngest(t)].next = a

\* ... each resolved except the entry b.
Resolved(p, r, e, b) ==
    \A i \in 0 .. SIZE - 1 :
       e[i].valid /\ i # b => e[i].next \in Succ(p, r, e[i].pc)

\* The entry that has not executed: in a drain the illegal instruction's.
Refused    == Youngest(scoreboard.tail)
Unresolved == IF stage = "drain" THEN Refused ELSE Skipped(Pending)

Dispatching ==
    IF stage = "drain"
    THEN /\ scoreboard.count > 0
         /\ scoreboard.entries[Refused].pc = id_issue_reg.pc
         /\ ~ scoreboard.entries[Refused].ready
         /\ KindAt(id_issue_reg.pc) = "ILLEGAL" /\ PrivOf(id_issue_reg.pc) = priv
    ELSE IF Pending = Bubble
    THEN Leads(scoreboard.entries, scoreboard.tail, scoreboard.count, next, Origin)
    ELSE /\ ~ flush_pipeline
         /\ scoreboard.entries[Pending.rob_index].pc = Pending.pc
         /\ PrivOf(Pending.pc) = priv /\ Goes(program, Pending) = Origin
         /\ Pending.predicted # NotTaken => KindAt(Pending.pc) = "BRANCH"

InOrder ==
    /\ Linked(scoreboard.entries, scoreboard.head, scoreboard.tail, scoreboard.count, next)
    /\ Resolved(program, saved.pc, scoreboard.entries, Unresolved)
    /\ Dispatching

-----------------------------------------------------------------------------
(* Programs and modes in which the scoreboard empties fast.                  *)

Lean == Quick(program) \/ ("irq" \in program.events /\ (priv = "M" \/ pending_priv_switch))

One(b) == IF b THEN 1 ELSE 0

\* Executed entries are ready, Commit retires them in the next cycle.
Room ==
    LET p == One(Pending # Bubble)
        x == One(issue_ex_reg # Bubble)
    IN  CASE stage \in {"irq", "commit1"} -> 1 + p
          [] stage \in {"commit2", "ex"}  -> p
          [] stage = "issue"              -> x
          [] OTHER -> x + One(stage = "drain" \/ (Pending # Bubble /\ ~ stall_ex))

Ready ==
    \A i \in 0 .. SIZE - 1 : scoreboard.entries[i].valid =>
        /\ ~ scoreboard.entries[i].is_store
        /\ i # Unresolved => scoreboard.entries[i].ready

\* An MRET that has executed and not committed is alone in the scoreboard.
Returning ==
    "irq" \in program.events /\ pending_priv_switch =>
        /\ scoreboard.count = 1 /\ Pending = Bubble
        /\ KindAt(scoreboard.entries[scoreboard.head].pc) = "MRET"
        /\ CASE stage \in {"issue", "id", "fetch", "pcgen"} ->
                    flush_pipeline /\ prev_cycle_flush
             [] stage = "latch" -> prev_cycle_flush
             [] OTHER -> stage \in {"irq", "commit1"}

Fast == /\ Lean => Ready /\ scoreboard.count <= Room
        /\ Returning

-----------------------------------------------------------------------------
(* The inductive invariant. *)

Known == Base /\ Live /\ Foresight /\ Remembered /\ Awake /\ Orderly(program)

Inv == Known /\ Steady /\ Flow /\ Modes /\ InOrder /\ Fast

-----------------------------------------------------------------------------
(* Addresses. *)

LEMMA Remainder ==
    ASSUME NEW d \in Nat \ {0}, NEW z \in Nat, NEW q \in Int, NEW r \in 0 .. d - 1,
           z = d * q + r
    PROVE  z % d = r
<1> DEFINE m == z % d
           k == z \div d
<1>1. z = d * k + m /\ m \in 0 .. d - 1 /\ k \in Int
  OBVIOUS
<1> HIDE DEF m, k
<1>2. CASE k = q
  BY <1>1, <1>2 DEF m
<1>3. CASE k > q
  <2> DEFINE e == k - q - 1
  <2>1. e \in Nat /\ k = q + 1 + e
    BY <1>1, <1>3
  <2> HIDE DEF e
  <2>2. d * e \in Nat
    BY <2>1
  <2>3. d * k = d * q + d + d * e
    BY <1>1, <2>1
  <2> DEFINE u == d * k
             w == d * q
             t == d * e
  <2>4. u \in Int /\ w \in Int /\ t \in Nat /\ u = w + d + t /\ u + m = w + r
    BY <1>1, <2>1, <2>2, <2>3
  <2> HIDE DEF u, w, t
  <2> QED
    BY <1>1, <2>4
<1>4. CASE k < q
  <2> DEFINE e == q - k - 1
  <2>1. e \in Nat /\ q = k + 1 + e
    BY <1>1, <1>4
  <2> HIDE DEF e
  <2>2. d * e \in Nat
    BY <2>1
  <2>3. d * q = d * k + d + d * e
    BY <1>1, <2>1
  <2> DEFINE u == d * k
             w == d * q
             t == d * e
  <2>4. u \in Int /\ w \in Int /\ t \in Nat /\ w = u + d + t /\ u + m = w + r
    BY <1>1, <2>1, <2>2, <2>3
  <2> HIDE DEF u, w, t
  <2> QED
    BY <1>1, <2>4
<1> QED
  BY <1>1, <1>2, <1>3, <1>4

LEMMA StepBack ==
    ASSUME NEW d \in Nat \ {0}, NEW x \in Nat
    PROVE  (((x + 2) % d) + (-1)) % d = (x + 1) % d
<1> DEFINE y == (x + 1) % d
           q == (x + 1) \div d
<1>1. x + 1 = d * q + y /\ y \in 0 .. d - 1 /\ q \in Int
  OBVIOUS
<1>2. (x + 2) % d = IF y + 1 < d THEN y + 1 ELSE 0
  <2>1. CASE y + 1 < d
    <3>1. x + 2 = d * q + (y + 1) /\ y + 1 \in 0 .. d - 1
      BY <1>1, <2>1
    <3> HIDE DEF y, q
    <3> DEFINE r == y + 1
    <3>2. x + 2 = d * q + r /\ r \in 0 .. d - 1 /\ x + 2 \in Nat
      BY <3>1
    <3> HIDE DEF r
    <3>3. (x + 2) % d = r
      BY <1>1, <3>2, Remainder
    <3> QED
      BY <2>1, <3>3 DEF r
  <2>2. CASE ~ (y + 1 < d)
    <3>1. y = d - 1
      BY <1>1, <2>2
    <3> HIDE DEF y, q
    <3>2. x + 2 = d * (q + 1)
      BY <1>1, <3>1
    <3> DEFINE u == q + 1
    <3>3. x + 2 = d * u + 0 /\ u \in Int /\ 0 \in 0 .. d - 1 /\ x + 2 \in Nat
      BY <1>1, <3>2
    <3> HIDE DEF u
    <3>4. (x + 2) % d = 0
      BY <3>3, Remainder
    <3> QED
      BY <2>2, <3>4
  <2> QED
    BY <2>1, <2>2
<1>3. (0 + (-1)) % d = d - 1
  OBVIOUS
<1>4. y % d = y
  BY <1>1, ModInside
<1> HIDE DEF y, q
<1>5. CASE y + 1 < d
  <2>1. (y + 1) + (-1) = y
    BY <1>1
  <2> QED
    BY <1>2, <1>4, <1>5, <2>1 DEF y
<1>6. CASE ~ (y + 1 < d)
  <2>1. y = d - 1
    BY <1>1, <1>6
  <2> QED
    BY <1>2, <1>3, <1>6, <2>1 DEF y
<1> QED
  BY <1>5, <1>6

\* Advancing stays in the region; going back one halfword undoes one.
LEMMA AdvanceStays ==
    ASSUME NEW p \in Programs, NEW a \in PC
    PROVE  /\ \A n \in -1 .. 2 : PrivOf(Advance(p, a, n)) = PrivOf(a)
           /\ Advance(p, Advance(p, a, 2), -1) = Advance(p, a, 1)
<1>1. /\ UserEnd \in Nat \ {0} /\ CodeEnd \in Nat /\ UserEnd < CodeEnd
      /\ p.end \in 1 .. UserEnd
  BY CodeAssumption
<1>2. a \in 0 .. CodeEnd - 1
  BY DEF PC
<1> DEFINE d == p.end
           e == CodeEnd - UserEnd
<1>3. CASE a < UserEnd
  <2>1. d \in Nat \ {0} /\ a \in Nat /\ d <= UserEnd
    BY <1>1, <1>2
  <2> HIDE DEF d
  <2>2. \A n \in -1 .. 2 : (a + n) % d \in 0 .. d - 1
    BY <2>1
  <2>3. \A n \in -1 .. 2 : (a + n) % d < UserEnd
    BY <1>1, <2>1, <2>2
  <2>4. (((a + 2) % d) + (-1)) % d = (a + 1) % d
    BY <2>1, StepBack
  <2>5. \A n \in -1 .. 2 : Advance(p, a, n) = (a + n) % d
    BY <1>3 DEF Advance, d
  <2>6. 2 \in -1 .. 2 /\ 1 \in -1 .. 2
    OBVIOUS
  <2>7. Advance(p, a, 2) = (a + 2) % d /\ Advance(p, a, 1) = (a + 1) % d /\ (a + 2) % d < UserEnd
    BY <2>3, <2>5, <2>6
  <2>8. Advance(p, (a + 2) % d, -1) = (((a + 2) % d) + (-1)) % d
    BY <2>7 DEF Advance, d
  <2>9. \A n \in -1 .. 2 : PrivOf(Advance(p, a, n)) = PrivOf(a)
    BY <1>3, <2>3, <2>5 DEF PrivOf
  <2> QED
    BY <2>4, <2>7, <2>8, <2>9
<1>4. CASE ~ (a < UserEnd)
  <2> DEFINE x == a - UserEnd
  <2>1. e \in Nat \ {0} /\ x \in Nat
    BY <1>1, <1>2, <1>4
  <2>2. \A n \in -1 .. 2 : Advance(p, a, n) = UserEnd + ((x + n) % e)
    BY <1>4 DEF Advance
  <2> HIDE DEF e, x
  <2>3. \A n \in -1 .. 2 : (x + n) % e \in 0 .. e - 1
    BY <2>1
  <2>4. (((x + 2) % e) + (-1)) % e = (x + 1) % e
    BY <2>1, StepBack
  <2>5. \A n \in -1 .. 2 : ~ (UserEnd + ((x + n) % e) < UserEnd)
    BY <1>1, <2>1, <2>3
  <2>6. 2 \in -1 .. 2 /\ 1 \in -1 .. 2
    OBVIOUS
  <2> DEFINE y == (x + 2) % e
  <2>7. y \in 0 .. e - 1 /\ ~ (UserEnd + y < UserEnd) /\ Advance(p, a, 2) = UserEnd + y
    BY <2>2, <2>3, <2>5, <2>6
  <2>8. (UserEnd + y) - UserEnd = y
    BY <1>1, <2>1, <2>7
  <2>9. Advance(p, UserEnd + y, -1) = UserEnd + ((y + (-1)) % e)
    BY <2>7, <2>8 DEF Advance, e
  <2>10. \A n \in -1 .. 2 : PrivOf(Advance(p, a, n)) = PrivOf(a)
    BY <1>4, <2>2, <2>5 DEF PrivOf
  <2> QED
    BY <2>2, <2>4, <2>6, <2>7, <2>9, <2>10
<1> QED
  BY <1>3, <1>4

\* Neither the size of an instruction nor, where Orderly, a jump leaves the mode.
LEMMA PathAddresses ==
    ASSUME NEW p \in Programs, NEW a \in PC
    PROVE  /\ Advance(p, a, 2) \in PC /\ PrivOf(Advance(p, a, 2)) = PrivOf(a)
           /\ Following(p, a) \in PC /\ PrivOf(Following(p, a)) = PrivOf(a)
           /\ p.code[a].size = 2 => Following(p, a) = Advance(p, a, 2)
           /\ p.code[a].size # 2 => Following(p, a) = Advance(p, Advance(p, a, 2), -1)
           /\ p.code[a].target \in PC /\ p.code[a].size \in {1, 2}
           /\ ModesRespected(p) /\ p.code[a].kind = "BRANCH"
                 => PrivOf(p.code[a].target) = PrivOf(a)
<1>1. p.code[a] \in Instruction
  BY CodeAssumption
<1>2. p.code[a].size \in {1, 2} /\ p.code[a].target \in PC
  BY <1>1 DEF Instruction
<1>3. 1 \in -1 .. 2 /\ 2 \in -1 .. 2
  OBVIOUS
<1>4. Advance(p, a, 2) \in PC /\ Advance(p, a, 1) \in PC
  BY <1>3, AdvancePC
<1> QED
  BY <1>2, <1>3, <1>4, AdvanceStays DEF Following, ModesRespected

-----------------------------------------------------------------------------
(* How the path moves through the front end. *)

LEMMA BubbleNotLocal ==
    ASSUME NEW p, NEW v PROVE Bubble \notin Local(p, v)
  BY BubbleNoInstr DEF Local

\* A redirect starts a new path.
LEMMA PathEmpty ==
    ASSUME NEW p, NEW v, NEW n \in PC, PrivOf(n) = v
    PROVE  /\ Path(p, v, Bubble, Bubble, <<>>, Bubble, Bubble, n)
           /\ Begin(Bubble, Bubble, <<>>, Bubble, Bubble, n) = n
<1>1. <<>> \in Seq(Local(p, v)) /\ Len(<<>>) = 0
  BY EmptySeq
<1>2. Runs(p, <<>>, n)
  BY <1>1 DEF Runs
<1> QED
  BY <1>1, <1>2 DEF Path, Begin, Joins, From, Leading

\* ID hands its instruction on.
LEMMA PathShift ==
    ASSUME NEW p, NEW v, NEW d, NEW q, NEW f, NEW g, NEW n,
           Path(p, v, Bubble, d, q, f, g, n)
    PROVE  /\ Path(p, v, d, Bubble, q, f, g, n)
           /\ Begin(d, Bubble, q, f, g, n) = Begin(Bubble, d, q, f, g, n)
  BY DEF Path, Begin, Joins, From

\* Issue takes the oldest.
LEMMA PathDispatch ==
    ASSUME NEW p, NEW v, NEW c, NEW d, NEW q, NEW f, NEW g, NEW n,
           Path(p, v, c, d, q, f, g, n), c # Bubble
    PROVE  /\ Path(p, v, Bubble, d, q, f, g, n)
           /\ Begin(c, d, q, f, g, n) = c.pc
           /\ Begin(Bubble, d, q, f, g, n) = Goes(p, c)
           /\ c \in Local(p, v)
  BY DEF Path, Begin, Joins, From

\* The latch transfer appends Fetch's result to the queue ...
LEMMA PathPush ==
    ASSUME NEW p, NEW v, NEW c, NEW d, NEW q, NEW f, NEW g, NEW n,
           Path(p, v, c, d, q, f, g, n), f # Bubble
    PROVE  /\ Path(p, v, c, d, Append(q, f), Bubble, g, n)
           /\ Begin(c, d, Append(q, f), Bubble, g, n) = Begin(c, d, q, f, g, n)
<1> DEFINE a == From(g, n)
           r == Append(q, f)
           m == Len(q)
<1>1. /\ q \in Seq(Local(p, v)) /\ Runs(p, q, f.pc) /\ f \in Local(p, v) /\ Goes(p, f) = a
  BY DEF Path, Joins, From
<1>2. /\ r \in Seq(Local(p, v)) /\ Len(r) = m + 1 /\ m \in Nat
      /\ \A k \in 1 .. m : r[k] = q[k]
      /\ r[m + 1] = f
  BY <1>1, AppendProperties
<1>3. r # <<>> /\ Leading(r, a) = Leading(q, f.pc)
  <2>1. Len(r) # 0
    BY <1>2
  <2>2. r # <<>>
    BY <2>1, EmptySeq
  <2>3. CASE q = <<>>
    <3>1. m = 0
      BY <2>3, EmptySeq
    <3> QED
      BY <1>2, <2>2, <2>3, <3>1 DEF Leading
  <2>4. CASE q # <<>>
    <3>1. m # 0
      BY <1>1, <2>4, EmptySeq
    <3>2. r[1] = q[1]
      BY <1>2, <3>1
    <3> QED
      BY <2>2, <2>4, <3>2 DEF Leading
  <2> QED
    BY <2>2, <2>3, <2>4
<1>4. Runs(p, r, a)
  <2> SUFFICES ASSUME NEW k \in 1 .. Len(r)
               PROVE  Goes(p, r[k]) = IF k = Len(r) THEN a ELSE r[k + 1].pc
    BY DEF Runs
  <2> HIDE DEF a, r, m
  <2>1. CASE k = m + 1
    BY <1>1, <1>2, <2>1
  <2>2. CASE k # m + 1
    <3>1. k \in 1 .. m /\ r[k] = q[k] /\ k # Len(r)
      BY <1>2, <2>2
    <3>2. Goes(p, q[k]) = IF k = m THEN f.pc ELSE q[k + 1].pc
      BY <1>1, <3>1 DEF Runs, m
    <3>3. k # m => k + 1 \in 1 .. m
      BY <1>2, <3>1
    <3> QED
      BY <1>2, <3>1, <3>2, <3>3
  <2> QED
    BY <2>1, <2>2
<1>5. From(f, a) = f.pc /\ From(Bubble, a) = a
  BY DEF From
<1> QED
  BY <1>2, <1>3, <1>4, <1>5 DEF Path, Begin, Joins

\* ... and moves the front of the queue to ID.
LEMMA PathPop ==
    ASSUME NEW p, NEW v, NEW c, NEW q, NEW f, NEW g, NEW n,
           Path(p, v, c, Bubble, q, f, g, n), q # <<>>
    PROVE  /\ Path(p, v, c, Head(q), Tail(q), f, g, n)
           /\ Begin(c, Head(q), Tail(q), f, g, n) = Begin(c, Bubble, q, f, g, n)
<1> DEFINE a == From(f, From(g, n))
           r == Tail(q)
           m == Len(q)
           h == Head(q)
<1>1. q \in Seq(Local(p, v)) /\ Runs(p, q, a)
  BY DEF Path
<1>2. /\ h = q[1] /\ h \in Local(p, v) /\ r \in Seq(Local(p, v)) /\ m \in Nat \ {0}
      /\ Len(r) = m - 1
      /\ \A k \in 1 .. Len(r) : r[k] = q[k + 1]
  <2>1. m \in Nat /\ m # 0
    BY <1>1, EmptySeq, LenProperties
  <2>2. /\ h \in Local(p, v) /\ r \in Seq(Local(p, v)) /\ Len(r) = m - 1
        /\ \A k \in 1 .. Len(r) : r[k] = q[k + 1]
    BY <1>1, HeadTailProperties
  <2>3. h = q[1]
    BY <1>1
  <2> QED
    BY <2>1, <2>2, <2>3
<1>3. h # Bubble
  BY <1>2, BubbleNotLocal
<1>4. Goes(p, h) = Leading(r, a)
  <2>0. 1 \in 1 .. m
    BY <1>2
  <2>1. Goes(p, h) = IF 1 = m THEN a ELSE q[2].pc
    <3>1. Goes(p, q[1]) = IF 1 = m THEN a ELSE q[1 + 1].pc
      BY <1>1, <2>0 DEF Runs
    <3> QED
      BY <1>2, <3>1
  <2>2. CASE m = 1
    <3>1. r \in Seq(Local(p, v)) /\ Len(r) = 0
      BY <1>2, <2>2
    <3> HIDE DEF r
    <3>2. r = <<>>
      BY <3>1, EmptySeq
    <3> QED
      BY <2>1, <2>2, <3>2 DEF Leading
  <2>3. CASE m # 1
    <3>1. 1 \in 1 .. Len(r) /\ Len(r) # 0
      BY <1>2, <2>3
    <3>2. r # <<>> /\ r[1] = q[1 + 1]
      BY <1>2, <3>1, EmptySeq
    <3> QED
      BY <2>1, <2>3, <3>2 DEF Leading
  <2> QED
    BY <2>2, <2>3
<1>5. Runs(p, r, a)
  <2> SUFFICES ASSUME NEW k \in 1 .. Len(r)
               PROVE  Goes(p, r[k]) = IF k = Len(r) THEN a ELSE r[k + 1].pc
    BY DEF Runs
  <2> HIDE DEF a, r, m, h
  <2>1. k + 1 \in 1 .. m /\ r[k] = q[k + 1] /\ (k = Len(r) <=> k + 1 = m)
    BY <1>2
  <2>2. Goes(p, q[k + 1]) = IF k + 1 = m THEN a ELSE q[(k + 1) + 1].pc
    BY <1>1, <2>1 DEF Runs, m
  <2>3. k # Len(r) => k + 1 \in 1 .. Len(r)
    BY <1>2
  <2>4. k # Len(r) => r[k + 1] = q[(k + 1) + 1]
    BY <1>2, <2>3
  <2> QED
    BY <2>1, <2>2, <2>4
<1>6. From(h, Leading(r, a)) = h.pc /\ From(Bubble, Leading(q, a)) = h.pc
  BY <1>2, <1>3 DEF From, Leading
<1> QED
  BY <1>2, <1>3, <1>4, <1>5, <1>6 DEF Path, Begin, Joins

\* Fetch delivers PCGen's instruction, now that its size is known.
LEMMA PathDeliver ==
    ASSUME NEW p, NEW v, NEW c, NEW d, NEW q, NEW g, NEW n, NEW m \in PC,
           Path(p, v, c, d, q, Bubble, g, n), g # Bubble, Goes(p, g) = m, PrivOf(m) = v
    PROVE  /\ Path(p, v, c, d, q, g, Bubble, m)
           /\ Begin(c, d, q, g, Bubble, m) = Begin(c, d, q, Bubble, g, n)
  BY DEF Path, Begin, Joins, From

\* PCGen adds the instruction at next_pc.
LEMMA PathPredict ==
    ASSUME NEW p, NEW v, NEW c, NEW d, NEW q, NEW f, NEW g, NEW n, NEW m \in PC,
           Path(p, v, c, d, q, f, Bubble, n), g \in Local(p, v), g.pc = n,
           Ahead(p, g) = m, PrivOf(m) = v
    PROVE  /\ Path(p, v, c, d, q, f, g, m)
           /\ Begin(c, d, q, f, g, m) = Begin(c, d, q, f, Bubble, n)
<1>1. g # Bubble
  BY BubbleNotLocal
<1> QED
  BY <1>1 DEF Path, Begin, Joins, From

-----------------------------------------------------------------------------
(* How the path moves through the scoreboard. *)

LEMMA YoungestSlot ==
    ASSUME NEW t \in 0 .. SIZE - 1
    PROVE  /\ Youngest(t) \in 0 .. SIZE - 1
           /\ (Youngest(t) + 1) % SIZE = t
           /\ Youngest((t + 1) % SIZE) = t
           /\ \A y \in 0 .. SIZE - 1 : t = (y + 1) % SIZE => y = Youngest(t)
<1>0. SIZE \in Nat \ {0}
  BY Constants
<1>1. \A k \in 0 .. SIZE - 1 :
         /\ Youngest(k) = IF k >= 1 THEN k - 1 ELSE k + SIZE - 1
         /\ (k + 1) % SIZE = IF k + 1 < SIZE THEN k + 1 ELSE k + 1 - SIZE
  <2> SUFFICES ASSUME NEW k \in 0 .. SIZE - 1
               PROVE  /\ Youngest(k) = IF k >= 1 THEN k - 1 ELSE k + SIZE - 1
                      /\ (k + 1) % SIZE = IF k + 1 < SIZE THEN k + 1 ELSE k + 1 - SIZE
    OBVIOUS
  <2>1. 1 \in 0 .. SIZE
    BY <1>0
  <2> QED
    BY <1>0, <2>1, Up, Down DEF Youngest
<1> DEFINE y == Youngest(t)
           u == (t + 1) % SIZE
<1>2. /\ y = IF t >= 1 THEN t - 1 ELSE t + SIZE - 1
      /\ u = IF t + 1 < SIZE THEN t + 1 ELSE t + 1 - SIZE
  BY <1>1
<1> HIDE DEF y, u
<1>3. y \in 0 .. SIZE - 1 /\ u \in 0 .. SIZE - 1
  BY <1>0, <1>2
<1>4. (y + 1) % SIZE = t /\ Youngest(u) = t
  <2>1. /\ (y + 1) % SIZE = IF y + 1 < SIZE THEN y + 1 ELSE y + 1 - SIZE
        /\ Youngest(u) = IF u >= 1 THEN u - 1 ELSE u + SIZE - 1
    BY <1>1, <1>3
  <2> DEFINE a == (y + 1) % SIZE
             b == Youngest(u)
  <2>2. /\ a = IF y + 1 < SIZE THEN y + 1 ELSE y + 1 - SIZE
        /\ b = IF u >= 1 THEN u - 1 ELSE u + SIZE - 1
    BY <2>1
  <2> HIDE DEF a, b
  <2>3. a = t /\ b = t
    BY <1>0, <1>2, <1>3, <2>2
  <2> QED
    BY <2>3 DEF a, b
<1>5. ASSUME NEW k \in 0 .. SIZE - 1, t = (k + 1) % SIZE PROVE k = y
  <2>1. t = IF k + 1 < SIZE THEN k + 1 ELSE k + 1 - SIZE
    BY <1>1, <1>5
  <2> QED
    BY <1>0, <1>2, <2>1
<1> QED
  BY <1>3, <1>4, <1>5 DEF y, u

\* With one entry the head is the youngest.
LEMMA OneEntry ==
    ASSUME NEW h \in 0 .. SIZE - 1, NEW t \in 0 .. SIZE - 1, NEW c \in 0 .. SIZE,
           t = (h + c) % SIZE, c > 0
    PROVE  c = 1 <=> h = Youngest(t)
<1>0. SIZE \in Nat \ {0} /\ 1 \in 0 .. SIZE
  BY Constants
<1>1. t = IF h + c < SIZE THEN h + c ELSE h + c - SIZE
  BY <1>0, Up
<1> DEFINE y == Youngest(t)
<1>2. y = IF t >= 1 THEN t - 1 ELSE t + SIZE - 1
  BY <1>0, Down DEF Youngest
<1> HIDE DEF y
<1>3. c = 1 <=> h = y
  BY <1>0, <1>1, <1>2
<1> QED
  BY <1>3 DEF y

\* The cursors of a coherent ring.
RingOf(e, h, t, c) ==
    /\ h \in 0 .. SIZE - 1 /\ t \in 0 .. SIZE - 1 /\ c \in 0 .. SIZE
    /\ t = (h + c) % SIZE
    /\ c > 0 => e[h].valid
    /\ c = 0 => \A i \in 0 .. SIZE - 1 : ~ e[i].valid
    /\ c < SIZE => ~ e[t].valid

LEMMA BoardRing ==
    ASSUME NEW s, GoodBoard(s, Tag, PC)
    PROVE  RingOf(s.entries, s.head, s.tail, s.count)
<1>1. /\ s.head \in 0 .. SIZE - 1 /\ s.tail \in 0 .. SIZE - 1 /\ s.count \in 0 .. SIZE
      /\ s.tail = (s.head + s.count) % SIZE
      /\ \A i \in 0 .. SIZE - 1 : s.entries[i].valid <=> InWindow(i, s.head, s.count, SIZE)
  BY BoardMembers DEF GoodBoard, ScoreboardCoherent, Coherent
<1> DEFINE h == s.head
           c == s.count
           t == s.tail
           e == s.entries
<1>2. /\ h \in 0 .. SIZE - 1 /\ t \in 0 .. SIZE - 1 /\ c \in 0 .. SIZE
      /\ t = (h + c) % SIZE
      /\ \A i \in 0 .. SIZE - 1 : e[i].valid <=> InWindow(i, h, c, SIZE)
  BY <1>1
<1> HIDE DEF h, c, t, e
<1>3. SIZE \in Nat \ {0}
  BY Constants
<1>4. t = IF h + c < SIZE THEN h + c ELSE h + c - SIZE
  BY <1>2, <1>3, Up
<1>5. \A i \in 0 .. SIZE - 1 :
         e[i].valid <=> (h <= i /\ i < h + c) \/ (i < h /\ i + SIZE < h + c)
  BY <1>2, <1>3, WindowRuns
<1>6. c > 0 => e[h].valid
  BY <1>2, <1>3, <1>5
<1>7. c = 0 => \A i \in 0 .. SIZE - 1 : ~ e[i].valid
  BY <1>2, <1>3, <1>5
<1>8. c < SIZE => ~ e[t].valid
  BY <1>2, <1>3, <1>4, <1>5
<1>9. RingOf(e, h, t, c)
  BY <1>2, <1>6, <1>7, <1>8 DEF RingOf
<1> QED
  BY <1>9 DEF e, h, t, c

\* Ring d holds no more than e, at the same addresses.
SamePath(e, d) ==
    \A i \in 0 .. SIZE - 1 :
       d[i].pc = e[i].pc /\ d[i].next = e[i].next /\ (d[i].valid => e[i].valid)

LEMMA NextSlotRange ==
    ASSUME NEW i \in 0 .. SIZE - 1 PROVE (i + 1) % SIZE \in 0 .. SIZE - 1
<1>1. SIZE \in Nat \ {0} /\ 1 \in 0 .. SIZE
  BY Constants
<1> QED
  BY <1>1, Up

LEMMA PathSame ==
    ASSUME NEW e, NEW d, SamePath(e, d), NEW h \in 0 .. SIZE - 1, NEW t \in 0 .. SIZE - 1,
           NEW c, NEW n, NEW p, NEW r, NEW b
    PROVE  /\ Linked(e, h, t, c, n) => Linked(d, h, t, c, n)
           /\ \A a : Leads(e, t, c, n, a) => Leads(d, t, c, n, a)
           /\ Resolved(p, r, e, b) => Resolved(p, r, d, b)
<1>1. Linked(e, h, t, c, n) => Linked(d, h, t, c, n)
  BY NextSlotRange DEF Linked, SamePath
<1>2. Youngest(t) \in 0 .. SIZE - 1
  BY YoungestSlot
<1>3. \A a : Leads(e, t, c, n, a) => Leads(d, t, c, n, a)
  BY <1>2 DEF Leads, SamePath
<1>4. Resolved(p, r, e, b) => Resolved(p, r, d, b)
  BY DEF Resolved, SamePath
<1> QED
  BY <1>1, <1>3, <1>4

\* The head retires: the path goes on at its successor.
LEMMA PathRetire ==
    ASSUME NEW e, NEW d, NEW h, NEW t, NEW c, NEW n,
           RingOf(e, h, t, c), SamePath(e, d), c > 0, Linked(e, h, t, c, n)
    PROVE  /\ e[h].pc = n
           /\ Linked(d, (h + 1) % SIZE, t, c - 1, e[h].next)
           /\ \A a : Leads(e, t, c, n, a) => Leads(d, t, c - 1, e[h].next, a)
<1>1. /\ h \in 0 .. SIZE - 1 /\ t \in 0 .. SIZE - 1 /\ c \in 0 .. SIZE /\ t = (h + c) % SIZE
      /\ e[h].valid /\ e[h].pc = n
  BY DEF RingOf, Linked
<1>2. c = 1 <=> h = Youngest(t)
  BY <1>1, OneEntry
<1>3. /\ SIZE \in Nat \ {0} /\ c \in Nat /\ (h + 1) % SIZE \in 0 .. SIZE - 1
      /\ Youngest(t) \in 0 .. SIZE - 1
  BY <1>1, Constants, NextSlotRange, YoungestSlot
<1>4. c - 1 > 0 => d[(h + 1) % SIZE].pc = e[h].next
  <2> SUFFICES ASSUME c - 1 > 0 PROVE d[(h + 1) % SIZE].pc = e[h].next
    OBVIOUS
  <2>1. h # Youngest(t)
    BY <1>2, <1>3
  <2>2. e[(h + 1) % SIZE].pc = e[h].next
    BY <1>1, <2>1 DEF Linked
  <2> QED
    BY <1>3, <2>2 DEF SamePath
<1>5. \A i \in 0 .. SIZE - 1 :
         d[i].valid /\ i # Youngest(t) => d[(i + 1) % SIZE].pc = d[i].next
  BY NextSlotRange DEF Linked, SamePath
<1>6. Linked(d, (h + 1) % SIZE, t, c - 1, e[h].next)
  BY <1>4, <1>5 DEF Linked
<1>7. ASSUME NEW a, Leads(e, t, c, n, a) PROVE Leads(d, t, c - 1, e[h].next, a)
  <2>1. c # 0 /\ (c - 1 = 0 <=> c = 1)
    BY <1>3
  <2>2. e[Youngest(t)].next = a
    BY <1>7, <2>1 DEF Leads
  <2>3. d[Youngest(t)].next = a
    BY <1>3, <2>2 DEF SamePath
  <2> QED
    BY <1>2, <2>1, <2>2, <2>3 DEF Leads
<1> QED
  BY <1>1, <1>6, <1>7

\* Issue dispatches the instruction that the path leads to.
LEMMA PathAllocate ==
    ASSUME NEW e, NEW d, NEW h, NEW t, NEW c, NEW n, NEW a,
           RingOf(e, h, t, c), c < SIZE, Linked(e, h, t, c, n), Leads(e, t, c, n, a),
           \A i \in 0 .. SIZE - 1 : i # t => d[i] = e[i],
           d[t].pc = a
    PROVE  /\ Linked(d, h, (t + 1) % SIZE, c + 1, n)
           /\ Youngest((t + 1) % SIZE) = t
<1>1. /\ h \in 0 .. SIZE - 1 /\ t \in 0 .. SIZE - 1 /\ c \in 0 .. SIZE /\ t = (h + c) % SIZE
      /\ ~ e[t].valid /\ (c > 0 => e[h].valid) /\ (c = 0 => \A i \in 0 .. SIZE - 1 : ~ e[i].valid)
  BY DEF RingOf
<1>2. Youngest((t + 1) % SIZE) = t /\ (Youngest(t) + 1) % SIZE = t /\ Youngest(t) \in 0 .. SIZE - 1
  BY <1>1, YoungestSlot
<1>3. d[h].pc = n
  <2>1. CASE c = 0
    <3>1. SIZE \in Nat \ {0}
      BY Constants
    <3>2. t = IF h + c < SIZE THEN h + c ELSE h + c - SIZE
      BY <1>1, <3>1, Up
    <3>3. h = t
      BY <1>1, <2>1, <3>1, <3>2
    <3> QED
      BY <2>1, <3>3 DEF Leads
  <2>2. CASE c # 0
    <3>1. c > 0
      BY <1>1, <2>2, Constants
    <3> QED
      BY <1>1, <3>1 DEF Linked
  <2> QED
    BY <2>1, <2>2
<1>4. ASSUME NEW i \in 0 .. SIZE - 1, d[i].valid, i # t
      PROVE  d[(i + 1) % SIZE].pc = d[i].next
  <2>1. d[i] = e[i] /\ e[i].valid /\ c # 0
    BY <1>1, <1>4
  <2>2. CASE i = Youngest(t)
    <3>1. e[i].next = a /\ (i + 1) % SIZE = t
      BY <1>2, <2>1, <2>2 DEF Leads
    <3> QED
      BY <2>1, <3>1
  <2>3. CASE i # Youngest(t)
    <3>1. (i + 1) % SIZE \in 0 .. SIZE - 1 /\ (i + 1) % SIZE # t
      BY <1>1, <2>3, NextSlotRange, YoungestSlot
    <3>2. e[(i + 1) % SIZE].pc = e[i].next
      BY <2>1, <2>3 DEF Linked
    <3> QED
      BY <2>1, <3>1, <3>2
  <2> QED
    BY <2>2, <2>3
<1> QED
  BY <1>2, <1>3, <1>4 DEF Linked

\* EX resolves the youngest entry.
LEMMA PathResolve ==
    ASSUME NEW e, NEW d, NEW h \in 0 .. SIZE - 1, NEW t \in 0 .. SIZE - 1, NEW c \in Nat,
           NEW n, NEW b, Linked(e, h, t, c, n), b = Youngest(t), c > 0,
           \A i \in 0 .. SIZE - 1 : i # b => d[i] = e[i],
           d[b].pc = e[b].pc
    PROVE  /\ Linked(d, h, t, c, n)
           /\ Leads(d, t, c, n, d[b].next)
<1>1. b \in 0 .. SIZE - 1
  BY YoungestSlot
<1>2. d[h].pc = n
  BY DEF Linked
<1>3. ASSUME NEW i \in 0 .. SIZE - 1, d[i].valid, i # b
      PROVE  d[(i + 1) % SIZE].pc = d[i].next
  <2>1. d[i] = e[i]
    BY <1>3
  <2>2. e[(i + 1) % SIZE].pc = e[i].next
    BY <1>3, <2>1 DEF Linked
  <2>3. d[(i + 1) % SIZE].pc = e[(i + 1) % SIZE].pc
    BY NextSlotRange
  <2> QED
    BY <2>1, <2>2, <2>3
<1> QED
  BY <1>2, <1>3 DEF Linked, Leads

\* A flush leaves no path: control is at n.
LEMMA PathFlushed ==
    ASSUME NEW e, NEW h, NEW t, NEW n, NEW p, NEW r, NEW b,
           \A i \in 0 .. SIZE - 1 : ~ e[i].valid
    PROVE  Linked(e, h, t, 0, n) /\ Leads(e, t, 0, n, n) /\ Resolved(p, r, e, b)
  BY DEF Linked, Leads, Resolved

-----------------------------------------------------------------------------
(* What EX does to control flow. *)

LEMMA ResolveNext ==
    ASSUME NEW s, GoodBoard(s, Tag, PC), issue_ex_reg \in ExInstr, NEW a \in PC
    PROVE  LET b == issue_ex_reg.rob_index
           IN  /\ Kept(s, Resolve(s, a), b) /\ Resolve(s, a).entries[b].next = a
               /\ Finished(s, Complete(s, a), b) /\ Complete(s, a).entries[b].next = a
<1> DEFINE b == issue_ex_reg.rob_index
           e == s.entries
           n == [e[b] EXCEPT !.next = a]
           x == [e EXCEPT ![b] = n]
           t == Resolve(s, a)
<1>0. s \in Board(Tag, PC) /\ b \in 0 .. SIZE - 1
  BY DEF GoodBoard, ExInstr
<1>1. e \in [0 .. SIZE - 1 -> BoardEntry(Tag, PC)] /\ e[b] \in BoardEntry(Tag, PC)
  BY <1>0, BoardMembers
<1>2. n.next = a
  BY <1>1 DEF BoardEntry
<1>3. t = [s EXCEPT !.entries = x]
  BY <1>0, <1>1 DEF Resolve, Board, BoardEntry
<1>4. /\ Untouched(s, t, b) /\ Finished(s, Complete(s, a), b)
      /\ Complete(s, a) = complete(t, b, Computed, 0)
  BY ResolveKeeps DEF Complete
<1> HIDE DEF b, n
<1>5. x[b] = n
  BY <1>0, <1>1
<1> HIDE DEF x
<1>6. t.entries = x
  BY <1>0, <1>3 DEF Board
<1> HIDE DEF t, e
<1>7. GoodBoard(t, Tag, PC) /\ Computed \in Tag /\ 0 \in Regs
  BY <1>4, Constants DEF Untouched, Kept
<1> DEFINE c == complete(t, b, Computed, 0)
           y == CompletedEntry(t.entries[b], Computed, 0)
<1>8. c.entries = [t.entries EXCEPT ![b] = y]
  BY <1>0, <1>7, CompleteGood
<1>9. t.entries \in [0 .. SIZE - 1 -> BoardEntry(Tag, PC)] /\ t.entries[b] \in BoardEntry(Tag, PC)
  BY <1>0, <1>7, BoardMembers DEF GoodBoard
<1>10. y.next = t.entries[b].next
  BY <1>9 DEF BoardEntry, CompletedEntry
<1> HIDE DEF c, y
<1>11. c.entries[b].next = a
  BY <1>0, <1>2, <1>5, <1>6, <1>8, <1>9, <1>10
<1>12. t.entries[b].next = a /\ Kept(s, t, b)
  BY <1>2, <1>4, <1>5, <1>6 DEF Untouched
<1> QED
  BY <1>4, <1>11, <1>12 DEF b, t, c

\* The ticks complete entries and leave their places on the path alone.
LEMMA TicksKeepPath ==
    ASSUME BackTypes
    PROVE  /\ SamePath(scoreboard.entries, TickedScoreboard.entries)
           /\ \A i \in 0 .. SIZE - 1 :
                 /\ TickedScoreboard.entries[i].valid = scoreboard.entries[i].valid
                 /\ TickedScoreboard.entries[i].is_store = scoreboard.entries[i].is_store
                 /\ scoreboard.entries[i].ready => TickedScoreboard.entries[i].ready
<1> DEFINE e == scoreboard.entries
<1>1. /\ \A i \in 0 .. SIZE - 1 : TickedScoreboard.entries[i] = TickedEntry(i)
      /\ e \in [0 .. SIZE - 1 -> BoardEntry(Tag, PC)]
  BY TicksBoard, BoardMembers DEF BackTypes, GoodBoard
<1>2. ASSUME NEW i \in 0 .. SIZE - 1
      PROVE  /\ TickedEntry(i).pc = e[i].pc /\ TickedEntry(i).next = e[i].next
             /\ TickedEntry(i).valid = e[i].valid /\ TickedEntry(i).is_store = e[i].is_store
             /\ e[i].ready => TickedEntry(i).ready
  <2>0. e[i] \in BoardEntry(Tag, PC)
    BY <1>1
  <2>1. CASE Completing(i) = {}
    BY <2>1 DEF TickedEntry
  <2>2. CASE Completing(i) # {}
    <3> DEFINE r == fu[TickOrder[Max(Completing(i))]].result
    <3>1. TickedEntry(i) = [e[i] EXCEPT !.ready = TRUE, !.rd = 0, !.result = r]
      BY <2>2 DEF TickedEntry
    <3> HIDE DEF r, e
    <3> QED
      BY <2>0, <3>1 DEF BoardEntry
  <2> QED
    BY <2>1, <2>2
<1> QED
  BY <1>1, <1>2 DEF SamePath

\* The instruction goes back to its latch, ...
ExWaits(s) ==
    /\ ~ ReplayFree(program) \/ (KindAt(issue_ex_reg.pc) = "LOAD" /\ ~ buffer_empty)
    /\ stall_ex' /\ scoreboard' = s
    /\ UNCHANGED <<flush_pipeline, pc_redirect_target, wfi_stall, priv, mpp, mepc,
                   pending_priv_switch, last, next, saved>>

\* ... takes an exception, ...
ExExcepts(s) ==
    /\ priv = "U" \/ KindAt(issue_ex_reg.pc) = "ECALL"
    /\ ~ stall_ex' /\ scoreboard' = flush(s) /\ ~ has_unready_older(s)
    /\ flush_pipeline' /\ pc_redirect_target' = HandlerPC
    /\ mepc' = issue_ex_reg.pc /\ mpp' = priv /\ priv' = "M"
    /\ saved' = [pc |-> issue_ex_reg.pc, priv |-> priv]
    /\ next' = HandlerPC /\ last' = last
    /\ pending_priv_switch' = pending_priv_switch /\ wfi_stall' = wfi_stall

\* ... or sends control to x, where the front end already is or is sent now.
ExSends(x) ==
    IF KindAt(issue_ex_reg.pc) = "MRET"
    THEN /\ flush_pipeline' /\ pc_redirect_target' = x /\ wfi_stall' = wfi_stall
         /\ x = mepc /\ priv' = mpp /\ mpp' = "U" /\ pending_priv_switch'
    ELSE /\ x \in Succ(program, mepc, issue_ex_reg.pc)
         /\ priv' = priv /\ mpp' = mpp /\ pending_priv_switch' = pending_priv_switch
         /\ \/ /\ flush_pipeline' = flush_pipeline /\ pc_redirect_target' = pc_redirect_target
               /\ wfi_stall' = wfi_stall /\ x = Goes(program, issue_ex_reg)
            \/ flush_pipeline' /\ pc_redirect_target' = x

ExExecutes(s) ==
    LET b == issue_ex_reg.rob_index
    IN  /\ ~ stall_ex' /\ Kept(s, scoreboard', b)
        /\ ExSends(scoreboard'.entries[b].next)
        /\ Swift(KindAt(issue_ex_reg.pc)) => scoreboard'.entries[b].ready
        /\ UNCHANGED <<mepc, last, next, saved>>

ExMoves(s) == ExWaits(s) \/ ExExcepts(s) \/ ExExecutes(s)

\* The instruction in EX, as Issue dispatched it.
ExPath == /\ ModesRespected(program) /\ PrivOf(issue_ex_reg.pc) = priv
          /\ issue_ex_reg.predicted # NotTaken => KindAt(issue_ex_reg.pc) = "BRANCH"

LEMMA ExTrapMoves ==
    ASSUME NEW s, NEW f, ExTrap(s, f),
           \/ "fault" \in program.events /\ priv = "U"
           \/ KindAt(issue_ex_reg.pc) = "ECALL",
           issue_ex_reg.pc \in PC
    PROVE  ExMoves(s)
<1>1. CASE Replay(s, f)
  <2>1. ~ ReplayFree(program)
    BY DEF ReplayFree, KindAt
  <2> QED
    BY <1>1, <2>1 DEF Replay, ExMoves, ExWaits, flushVars, trapVars, historyVars
<1>2. CASE TakeException(s) /\ ~ has_unready_older(s)
  BY <1>2 DEF TakeException, ExMoves, ExExcepts
<1> QED
  BY <1>1, <1>2 DEF ExTrap

\* Instructions that fall through.
LEMMA ExFollows ==
    ASSUME NEW s, NEW f, ExContext(s, f), ExPath,
           LET a == Following(program, issue_ex_reg.pc)
               k == KindAt(issue_ex_reg.pc)
           IN  /\ k \notin {"MRET", "BRANCH"}
               /\ \/ scoreboard' = Complete(s, a)
                  \/ ~ Swift(k) /\ scoreboard' = Resolve(s, a)
               /\ \/ UNCHANGED flushVars /\ wfi_stall' = wfi_stall
                  \/ flush_pipeline' /\ pc_redirect_target' = a,
           stall_ex' = FALSE, UNCHANGED <<trapVars, last, next, saved>>
    PROVE  ExExecutes(s)
<1> DEFINE a == Following(program, issue_ex_reg.pc)
           b == issue_ex_reg.rob_index
           k == KindAt(issue_ex_reg.pc)
<1>1. a \in PC /\ GoodBoard(s, Tag, PC) /\ issue_ex_reg \in ExInstr
  BY ExAddresses DEF ExContext
<1>2. /\ Kept(s, scoreboard', b) /\ scoreboard'.entries[b].next = a
      /\ Swift(k) => scoreboard'.entries[b].ready
  <2>1. /\ Kept(s, Resolve(s, a), b) /\ Resolve(s, a).entries[b].next = a
        /\ Finished(s, Complete(s, a), b) /\ Complete(s, a).entries[b].next = a
    BY <1>1, ResolveNext
  <2> QED
    BY <2>1 DEF Finished
<1>3. issue_ex_reg.predicted = NotTaken /\ Goes(program, issue_ex_reg) = a
  BY DEF ExPath, Goes
<1>4. a \in Succ(program, mepc, issue_ex_reg.pc)
  BY DEF Succ, KindAt
<1>5. ExSends(a)
  BY <1>3, <1>4 DEF ExSends, flushVars, trapVars
<1> QED
  BY <1>2, <1>5 DEF ExExecutes, trapVars

LEMMA ExBranchMoves ==
    ASSUME NEW s, NEW f, ExContext(s, f), ExPath, ExBranch(s, f),
           KindAt(issue_ex_reg.pc) = "BRANCH"
    PROVE  ExExecutes(s)
<1> DEFINE b == issue_ex_reg.rob_index
           i == issue_ex_reg
<1>1. flush_speculative(s, b) = s
  BY FlushSpeculativeYoungest DEF ExContext
<1>2. PICK taken \in BOOLEAN :
         LET t == IF taken THEN program.code[i.pc].target ELSE Following(program, i.pc)
             correct == i.predicted = (IF taken THEN t ELSE NotTaken)
         IN  /\ IF correct
                THEN scoreboard' = Complete(s, t) /\ UNCHANGED <<flushVars, spec_stores>>
                ELSE scoreboard' = Complete(s, t) /\ RedirectTo(t)
             /\ stall_ex' = FALSE
             /\ UNCHANGED <<committed_stores, wfi_stall, trapVars, historyVars>>
  BY <1>1 DEF ExBranch
<1> DEFINE t == IF taken THEN program.code[i.pc].target ELSE Following(program, i.pc)
<1>3. t \in PC /\ -1 \notin PC
  BY ExAddresses DEF PC
<1>4. i.predicted = (IF taken THEN t ELSE NotTaken) => t = Goes(program, i)
  BY <1>3 DEF Goes, NotTaken
<1>5. t \in Succ(program, mepc, i.pc)
  BY DEF Succ, KindAt
<1>6. /\ scoreboard' = Complete(s, t) /\ stall_ex' = FALSE
      /\ UNCHANGED <<wfi_stall, trapVars, historyVars>>
  BY <1>2
<1>7. \/ UNCHANGED flushVars /\ t = Goes(program, i)
      \/ flush_pipeline' /\ pc_redirect_target' = t
  BY <1>2, <1>4 DEF RedirectTo
<1> HIDE DEF t
<1>8. Finished(s, scoreboard', b) /\ scoreboard'.entries[b].next = t
  BY <1>3, <1>6, ResolveNext DEF ExContext
<1>9. ExSends(t)
  BY <1>5, <1>6, <1>7 DEF ExSends, flushVars, trapVars
<1> QED
  BY <1>6, <1>8, <1>9 DEF ExExecutes, Finished, trapVars, historyVars

LEMMA ExMretMoves ==
    ASSUME NEW s, NEW f, ExContext(s, f), ExMret(s, f), KindAt(issue_ex_reg.pc) = "MRET"
    PROVE  ExExecutes(s)
<1>1. mepc \in PC /\ GoodBoard(s, Tag, PC) /\ issue_ex_reg \in ExInstr
  BY ExAddresses DEF ExContext
<1>2. /\ Finished(s, scoreboard', issue_ex_reg.rob_index)
      /\ scoreboard'.entries[issue_ex_reg.rob_index].next = mepc
  BY <1>1, ResolveNext DEF ExMret
<1>3. ExSends(mepc)
  BY DEF ExSends, ExMret, RedirectTo
<1> QED
  BY <1>2, <1>3 DEF ExExecutes, Finished, ExMret, historyVars

LEMMA ExLoadMoves ==
    ASSUME NEW s, NEW f, ExContext(s, f), ExPath, ExLoad(s, f), KindAt(issue_ex_reg.pc) = "LOAD"
    PROVE  ExMoves(s)
<1>1. CASE \E g : Replay(s, g) /\ ~ buffer_empty
  BY <1>1 DEF Replay, ExMoves, ExWaits, flushVars, trapVars, historyVars
<1>2. CASE /\ scoreboard' = Resolve(s, Following(program, issue_ex_reg.pc))
           /\ Proceed
  <2>1. ~ Swift(KindAt(issue_ex_reg.pc))
    BY DEF Swift
  <2>2. ExExecutes(s)
    BY <1>2, <2>1, ExFollows DEF Proceed
  <2> QED
    BY <2>2 DEF ExMoves
<1>3. PICK answer \in IF spec_stores = <<>> /\ committed_stores = 0 THEN {"MISS"}
                      ELSE {"MISS", "HIT", "PARTIAL_OVERLAP"} :
         IF answer = "PARTIAL_OVERLAP" THEN \E g : Replay(s, g)
         ELSE /\ scoreboard' = Resolve(s, Following(program, issue_ex_reg.pc))
              /\ Proceed
  BY DEF ExLoad
<1>4. CASE answer = "PARTIAL_OVERLAP"
  <2>1. ~ buffer_empty
    BY <1>3, <1>4 DEF buffer_empty
  <2>2. \E g : Replay(s, g)
    BY <1>3, <1>4
  <2> QED
    BY <1>1, <2>1, <2>2
<1>5. CASE answer # "PARTIAL_OVERLAP"
  BY <1>2, <1>3, <1>5
<1> QED
  BY <1>4, <1>5

LEMMA ExInstructionMoves ==
    ASSUME NEW s, NEW f, ExContext(s, f), ExPath,
           ExInstruction(s, f, KindAt(issue_ex_reg.pc))
    PROVE  ExMoves(s)
<1> DEFINE kind == KindAt(issue_ex_reg.pc)
           a == Following(program, issue_ex_reg.pc)
<1>0. issue_ex_reg.pc \in PC /\ program \in Programs
  BY DEF ExContext, ExInstr, FrontTypes
<1>1. CASE (MayTrap(kind) \/ kind = "ECALL") /\ ExTrap(s, f)
  BY <1>0, <1>1, ExTrapMoves DEF MayTrap
<1>2. CASE kind = "LOAD" /\ ExLoad(s, f)
  BY <1>2, ExLoadMoves
<1>3. CASE kind = "BRANCH" /\ ExBranch(s, f)
  BY <1>3, ExBranchMoves DEF ExMoves
<1>4. CASE kind = "MRET" /\ ExMret(s, f)
  BY <1>4, ExMretMoves DEF ExMoves
<1>5. CASE \/ kind = "ALU" /\ ExAlu(s, f)
           \/ kind = "STORE" /\ ExStore(s, f)
           \/ kind = "AMO" /\ ExAtomic(s, f)
           \/ kind = "CSR" /\ ExCsr(s, f)
  <2>1. kind \notin {"MRET", "BRANCH"} /\ scoreboard' = Complete(s, a) /\ stall_ex' = FALSE
    BY <1>5 DEF ExAlu, ExStore, ExAtomic, ExCsr, Proceed
  <2>2. \/ UNCHANGED flushVars /\ wfi_stall' = wfi_stall
        \/ flush_pipeline' /\ pc_redirect_target' = a
    BY <1>5 DEF ExAlu, ExStore, ExAtomic, ExCsr, Proceed
  <2>3. UNCHANGED <<trapVars, last, next, saved>>
    BY <1>5 DEF ExAlu, ExStore, ExAtomic, ExCsr, Proceed
  <2> QED
    BY <2>1, <2>2, <2>3, ExFollows DEF ExMoves
<1>6. CASE \/ kind = "MUL" /\ ExLong(s, f, Mul)
           \/ kind = "DIV" /\ ExLong(s, f, Div)
           \/ kind = "FP" /\ ExFp(s, f)
  <2>1. kind \notin {"MRET", "BRANCH"} /\ ~ Swift(kind)
    BY <1>6 DEF Swift
  <2>2. /\ scoreboard' = Resolve(s, a) /\ stall_ex' = FALSE
        /\ UNCHANGED flushVars /\ wfi_stall' = wfi_stall
        /\ UNCHANGED <<trapVars, last, next, saved>>
    BY <1>6 DEF ExLong, ExFp, Proceed
  <2> QED
    BY <2>1, <2>2, ExFollows DEF ExMoves
<1>7. CASE kind \in {"WFI", "SFENCE"} /\ ExRestart(s, f, kind = "WFI")
  <2>1. Advance(program, issue_ex_reg.pc, 2) = a
    BY <1>0, <1>7, PathAddresses DEF ExPath, ModesRespected, KindAt
  <2>2. /\ scoreboard' = Complete(s, a) /\ stall_ex' = FALSE
        /\ flush_pipeline' /\ pc_redirect_target' = a
        /\ UNCHANGED <<trapVars, last, next, saved>>
    BY <1>7, <2>1 DEF ExRestart, RedirectTo, historyVars
  <2> QED
    BY <1>7, <2>2, ExFollows DEF ExMoves
<1>8. ExInstruction(s, f, kind)
  OBVIOUS
<1>9. ~ Forbidden(kind)
  BY <1>0 DEF ExPath, ModesRespected, Forbidden, KindAt
<1> HIDE DEF kind, a
<1> QED
  BY <1>1, <1>2, <1>3, <1>4, <1>5, <1>6, <1>7, <1>8, <1>9 DEF ExInstruction

-----------------------------------------------------------------------------
(* EX, Pending and the entry that has not executed. *)

\* EX idles or runs the pending instruction, with the scoreboard after the ticks.
LEMMA ExCases ==
    ASSUME Inv, EX_stage
    PROVE  \/ /\ ExIdles /\ Pending = Bubble /\ Pending' = Bubble
              /\ UNCHANGED <<flush_pipeline, pc_redirect_target, wfi_stall, priv, mpp, mepc,
                             pending_priv_switch, last, next, saved>>
           \/ /\ ExRuns /\ issue_ex_reg # Bubble /\ Pending = issue_ex_reg
              /\ Pending' = IF stall_ex' THEN issue_ex_reg ELSE Bubble
              /\ ExMoves(TickedScoreboard)
<1>0. Base /\ stage = "ex" /\ Orderly(program) /\ FrontTypes /\ BackTypes
  BY DEF Inv, Known, Base, EX_stage
<1>1. /\ ExIdles \/ ExRuns
      /\ Pending' = IF stall_ex' THEN issue_ex_reg ELSE Bubble
  BY <1>0, ExBase
<1>2. CASE issue_ex_reg = Bubble \/ flush_pipeline
  <2>1. ~ ExRuns
    BY <1>2 DEF ExRuns, ExInstr, Bubble
  <2>2. Pending = Bubble
    BY <1>0, <1>2 DEF Pending, Early
  <2>3. UNCHANGED <<flushVars, wfi_stall, trapVars, historyVars>>
    BY <1>2 DEF EX_stage
  <2> QED
    BY <1>1, <2>1, <2>2, <2>3 DEF ExIdles, flushVars, trapVars, historyVars
<1>3. CASE issue_ex_reg # Bubble /\ ~ flush_pipeline
  <2>1. ExRuns
    BY <1>1, <1>3 DEF ExIdles
  <2>2. Pending = issue_ex_reg
    BY <1>0, <1>3 DEF Pending, Early
  <2>3. ExPath
    BY <1>0, <1>3, <2>2 DEF Inv, InOrder, Dispatching, ExPath, Orderly
  <2>4. ExInstruction(TickedScoreboard, TickedUnits, KindAt(issue_ex_reg.pc))
    BY <1>3 DEF EX_stage
  <2>5. ExContext(TickedScoreboard, TickedUnits)
    <3>1. issue_ex_reg \in ExInstr
      BY <2>1 DEF ExRuns
    <3>2. /\ GoodBoard(TickedScoreboard, Tag, PC)
          /\ TickedScoreboard.tail = (issue_ex_reg.rob_index + 1) % SIZE
      BY <1>0, <1>3, <2>2, TicksBoard DEF Base, TailFollows
    <3>3. TickedUnits \in [Units -> GoodUnit]
      BY <1>0, TicksUnits DEF BackTypes
    <3> QED
      BY <1>0, <3>1, <3>2, <3>3 DEF ExContext
  <2>6. ExMoves(TickedScoreboard)
    BY <2>3, <2>4, <2>5, ExInstructionMoves
  <2> QED
    BY <1>1, <1>3, <2>1, <2>2, <2>6
<1> QED
  BY <1>2, <1>3

-----------------------------------------------------------------------------
(* The flags. *)

\* A step that does not fill the store buffer.
LEMMA StoreLessKept ==
    ASSUME StoreLess, program' = program, buffer_empty => buffer_empty' PROVE StoreLess'
  BY DEF StoreLess, KindAt

LEMMA SteadyLatch ==
    ASSUME Inv, LatchTransfer PROVE Steady'
<1>0. /\ Base /\ Awake /\ Steady /\ stage = "latch" /\ stage' = "irq" /\ program' = program
      /\ ~ flush_pipeline /\ ~ flush_pipeline'
      /\ UNCHANGED <<stall_pcgen, stall_fetch, stall_issue, stall_ex, pcgen_fetch_next,
                     icache_miss_remaining, spec_stores, committed_stores>>
  BY DEF LatchTransfer, Inv, Known, Base, FlushEnds, flushVars, stallVars, backVars
<1>1. fetch_id_next' = Bubble
  BY <1>0 DEF LatchTransfer, Steady, Emptied
<1>2. Delivery'
  BY <1>0, <1>1 DEF Delivery
<1>3. HoldsAgree'
  BY <1>0 DEF HoldsAgree, Steady
<1>4. fetch_queue' # <<>> =>
         issue_ex_reg' # Bubble \/ id_issue_reg' # Bubble \/ fetch_id_reg' # Bubble
  <2>1. CASE prev_cycle_flush
    BY <1>0, <2>1 DEF LatchTransfer, Steady, Emptied
  <2>2. CASE ~ prev_cycle_flush /\ stall_issue
    BY <1>0, <2>2 DEF LatchTransfer, Awake, CausesVisible
  <2>3. CASE ~ prev_cycle_flush /\ ~ stall_issue
    <3> DEFINE q == QueueAfterPush
    <3>1. q \in Seq(Instr)
      <4>1. fetch_queue \in Seq(Instr) /\ fetch_id_next \in FrontLatch
        BY <1>0 DEF Base, FrontTypes
      <4>2. CASE fetch_id_next # Bubble /\ Len(fetch_queue) < FETCH_QUEUE_CAPACITY
        <5>1. fetch_id_next \in Instr
          BY <4>1, <4>2, LatchMembers
        <5> QED
          BY <4>1, <4>2, <5>1, AppendProperties DEF QueueAfterPush
      <4>3. CASE ~ (fetch_id_next # Bubble /\ Len(fetch_queue) < FETCH_QUEUE_CAPACITY)
        BY <4>1, <4>3 DEF QueueAfterPush
      <4> QED
        BY <4>2, <4>3
    <3>2. fetch_queue' = <<>> \/ (q # <<>> /\ fetch_id_reg' = Head(q))
      BY <2>3 DEF LatchTransfer
    <3> HIDE DEF q
    <3>3. q # <<>> => Head(q) \in Instr
      BY <3>1, HeadTailProperties
    <3> QED
      BY <3>2, <3>3, BubbleNoInstr
  <2> QED
    BY <2>1, <2>2, <2>3
<1>5. wfi_stall' => wfi_stall
  BY DEF LatchTransfer
<1>6. Emptied'
  BY <1>0, <1>4, <1>5 DEF Emptied, Steady
<1>7. StoreLess'
  BY <1>0, StoreLessKept DEF Steady, buffer_empty
<1> QED
  BY <1>2, <1>3, <1>6, <1>7 DEF Steady

LEMMA SteadyIrq ==
    ASSUME Inv, cpu_process_IRQ PROVE Steady'
<1>0. /\ Base /\ Steady /\ stage = "irq" /\ stage' = "commit1" /\ program' = program
      /\ ~ flush_pipeline
      /\ UNCHANGED <<stall_pcgen, stall_fetch, stall_issue, pcgen_fetch_next, fetch_id_next,
                     icache_miss_remaining, committed_stores>>
  BY DEF cpu_process_IRQ, TakeInterrupt, NoInterrupt, Inv, Known, Base, FlushEnds,
         backLatches, frontVars, stallVars, backVars
<1>1. \/ flush_pipeline' /\ ~ stall_ex' /\ ~ wfi_stall' /\ spec_stores' = <<>>
      \/ UNCHANGED <<flush_pipeline, stall_ex, wfi_stall, spec_stores>>
  BY DEF cpu_process_IRQ, TakeInterrupt, NoInterrupt, flushVars, backVars
<1>2. Delivery' /\ HoldsAgree' /\ Emptied'
  BY <1>0, <1>1 DEF Steady, Delivery, HoldsAgree, Emptied
<1>3. StoreLess'
  BY <1>0, <1>1, StoreLessKept DEF Steady, buffer_empty
<1> QED
  BY <1>2, <1>3 DEF Steady

LEMMA SteadyCommit ==
    ASSUME Inv, Commit_stage PROVE Steady'
<1>0. /\ Base /\ Steady /\ stage \in {"commit1", "commit2"} /\ stage' \in {"commit2", "ex"}
      /\ program' = program
      /\ UNCHANGED <<stall_pcgen, stall_fetch, stall_issue, pcgen_fetch_next, fetch_id_next,
                     icache_miss_remaining, flush_pipeline, stall_ex, wfi_stall>>
  BY DEF Commit_stage, Inv, Known, backLatches, frontVars, stallVars, flushVars
<1>1. Delivery' /\ HoldsAgree' /\ Emptied'
  BY <1>0 DEF Steady, Delivery, HoldsAgree, Emptied
<1>2. StoreLess'
  BY <1>0, CommitBase, StoreLessKept DEF Steady
<1> QED
  BY <1>1, <1>2 DEF Steady

LEMMA SteadyEx ==
    ASSUME Inv, EX_stage PROVE Steady'
<1>0. /\ Base /\ Steady /\ stage = "ex" /\ stage' = "issue" /\ program' = program
      /\ UNCHANGED <<stall_pcgen, stall_fetch, stall_issue, pcgen_fetch_next, fetch_id_next,
                     icache_miss_remaining>>
  BY DEF EX_stage, Inv, Known, backLatches, frontVars, stallVars
<1> DEFINE k == KindAt(issue_ex_reg.pc)
<1>1. \/ ~ stall_ex' /\ UNCHANGED <<flush_pipeline, wfi_stall>>
      \/ ~ stall_ex' /\ flush_pipeline'
      \/ /\ stall_ex' /\ ~ flush_pipeline' /\ UNCHANGED <<flush_pipeline, wfi_stall>>
         /\ issue_ex_reg \in ExInstr
         /\ ~ ReplayFree(program) \/ (k = "LOAD" /\ ~ buffer_empty)
  BY ExCases DEF ExIdles, ExRuns, ExMoves, ExWaits, ExExcepts, ExExecutes, ExSends
<1>2. Delivery'
  BY <1>0 DEF Steady, Delivery
<1>3. program.stalls # {} => ~ stall_ex'
  <2>1. program.stalls # {} => ReplayFree(program)
    BY DEF Inv, Known, Orderly
  <2>2. ReplayFree(program) /\ issue_ex_reg \in ExInstr => ~ (k = "LOAD" /\ ~ buffer_empty)
    BY <1>0 DEF ReplayFree, Steady, StoreLess, KindAt, ExInstr
  <2> QED
    BY <1>1, <2>1, <2>2
<1>4. HoldsAgree'
  BY <1>0, <1>3 DEF Steady, HoldsAgree
<1>5. Emptied'
  BY <1>0, <1>1 DEF Steady, Emptied
<1>6. StoreLess'
  <2>1. CASE ExIdles
    BY <1>0, <2>1, StoreLessKept DEF Steady, ExIdles, buffer_empty
  <2>2. CASE ExRuns
    <3>1. CASE \E a \in PC : KindAt(a) = "STORE"
      BY <1>0, <3>1 DEF StoreLess, KindAt
    <3>2. CASE \A a \in PC : KindAt(a) # "STORE"
      <4>1. k # "STORE" /\ buffer_empty
        BY <1>0, <2>2, <3>2 DEF ExRuns, ExInstr, Steady, StoreLess
      <4>2. buffer_empty'
        BY <2>2, <4>1 DEF ExRuns, ExOutcome, ExReplays, ExTraps, ExFinishes, ExStarts, buffer_empty
      <4> QED
        BY <4>2 DEF StoreLess
    <3> QED
      BY <3>1, <3>2
  <2> QED
    BY <2>1, <2>2, ExCases
<1> QED
  BY <1>2, <1>4, <1>5, <1>6 DEF Steady

LEMMA SteadyIssue ==
    ASSUME Inv, Issue_stage PROVE Steady'
<1>0. /\ Base /\ Steady /\ stage = "issue" /\ stage' \in {"id", "drain"} /\ program' = program
      /\ UNCHANGED <<stall_ex, pcgen_fetch_next, fetch_id_next, icache_miss_remaining,
                     flush_pipeline, wfi_stall, spec_stores, committed_stores>>
  BY DEF Issue_stage, IssueInstruction, Inv, Known, frontVars, flushVars
<1>1. \/ /\ stall_ex /\ stage' = "id" /\ UNCHANGED <<stall_pcgen, stall_fetch>>
      \/ /\ ~ stall_ex /\ ~ stall_pcgen' /\ ~ stall_fetch'
         /\ flush_pipeline => stage' = "id" /\ ~ stall_issue'
         /\ stage' = "drain" => ~ stall_issue' /\ ~ flush_pipeline
  BY DEF Issue_stage, IssueInstruction, Dispatch, Held
<1>2. Delivery' /\ HoldsAgree' /\ Emptied'
  BY <1>0, <1>1 DEF Steady, Delivery, HoldsAgree, Emptied
<1>3. StoreLess'
  BY <1>0, StoreLessKept DEF Steady, buffer_empty
<1> QED
  BY <1>2, <1>3 DEF Steady

LEMMA SteadyDrain ==
    ASSUME Inv, Issue_illegal PROVE Steady'
<1>0. /\ Base /\ Steady /\ stage = "drain" /\ stage' \in {"id", "drain"} /\ program' = program
      /\ ~ stall_ex
      /\ UNCHANGED <<stall_ex, pcgen_fetch_next, fetch_id_next, icache_miss_remaining,
                     wfi_stall, stall_issue, stall_pcgen, stall_fetch>>
      /\ stage' = "drain" => flush_pipeline' = flush_pipeline
      /\ stage' = "id" => flush_pipeline'
  BY DEF Issue_illegal, DrainReady, IllegalTrap, RedirectTo, Inv, Known, Base, FlushEnds,
         backLatches, frontVars, flushVars, stallVars
<1>1. Delivery' /\ HoldsAgree' /\ Emptied'
  BY <1>0 DEF Steady, Delivery, HoldsAgree, Emptied
<1>2. StoreLess'
  BY <1>0, DrainBase, StoreLessKept DEF Steady
<1> QED
  BY <1>1, <1>2 DEF Steady

\* No instruction in ID was predicted taken that is no branch.
LEMMA IdKeepsFlush ==
    ASSUME Inv, ID_stage
    PROVE  /\ UNCHANGED <<flush_pipeline, pc_redirect_target>>
           /\ id_issue_next' = IF flush_pipeline THEN Bubble
                               ELSE IF stall_issue THEN id_issue_next ELSE fetch_id_reg
<1>1. fetch_id_reg # Bubble => ~ Misprediction(fetch_id_reg)
  <2>1. fetch_id_reg \in {Bubble} \cup Foreseen(program)
    BY DEF Inv, Known, Foresight
  <2> QED
    BY <2>1 DEF Foreseen, Misprediction, KindAt
<1> QED
  BY <1>1 DEF ID_stage, flushVars

LEMMA SteadyId ==
    ASSUME Inv, ID_stage PROVE Steady'
<1>0. /\ Base /\ Steady /\ stage = "id" /\ stage' = "fetch" /\ program' = program
      /\ UNCHANGED <<stall_ex, pcgen_fetch_next, fetch_id_next, icache_miss_remaining,
                     wfi_stall, stall_issue, stall_pcgen, stall_fetch, fetch_id_reg,
                     spec_stores, committed_stores>>
  BY DEF ID_stage, Inv, Known, frontVars, stallVars, latchVars, backVars
<1>1. Delivery' /\ HoldsAgree' /\ Emptied'
  BY <1>0, IdKeepsFlush DEF Steady, Delivery, HoldsAgree, Emptied
<1>2. StoreLess'
  BY <1>0, StoreLessKept DEF Steady, buffer_empty
<1> QED
  BY <1>1, <1>2 DEF Steady

\* Fetch passes on nothing, what PCGen sent, or takes a fault with nothing in the
\* latches; no other fault is possible.
FetchKeeps ==
    /\ fetch_id_next' = Bubble
    /\ UNCHANGED <<next_pc, flush_pipeline, pc_redirect_target, priv, mpp, mepc,
                   pending_priv_switch, last, next, saved>>

FetchDelivers ==
    /\ ~ flush_pipeline /\ ~ queue_full /\ pcgen_fetch_next # Bubble /\ ~ stall_pcgen
    /\ fetch_id_next' = pcgen_fetch_next
    /\ next_pc' = IF /\ program.code[pcgen_fetch_next.pc].size = 1
                     /\ pcgen_fetch_next.predicted = NotTaken
                  THEN Advance(program, next_pc, -1) ELSE next_pc
    /\ UNCHANGED <<flush_pipeline, pc_redirect_target, priv, mpp, mepc,
                   pending_priv_switch, last, next, saved>>

FetchTraps ==
    /\ ~ flush_pipeline /\ pcgen_fetch_next # Bubble /\ priv = "U"
    /\ "target_fault" \in program.events
    /\ fetch_id_reg = Bubble /\ id_issue_reg = Bubble /\ issue_ex_reg = Bubble
    /\ fetch_queue = <<>>
    /\ fetch_id_next' = Bubble /\ next_pc' = next_pc
    /\ mepc' = pcgen_fetch_next.pc /\ mpp' = priv /\ priv' = "M"
    /\ flush_pipeline' /\ pc_redirect_target' = HandlerPC
    /\ saved' = [pc |-> pcgen_fetch_next.pc, priv |-> priv]
    /\ next' = HandlerPC /\ last' = last /\ pending_priv_switch' = pending_priv_switch

LEMMA FetchCases ==
    ASSUME Inv, Fetch_stage
    PROVE  /\ fetch_id_next = Bubble /\ stage = "fetch" /\ stage' = "pcgen"
           /\ program' = program
           /\ UNCHANGED <<taken_redirect_bubble, pcgen_fetch_next, fetch_queue, pcgen_fetch_reg,
                          fetch_id_reg, id_issue_reg, issue_ex_reg, id_issue_next,
                          issue_ex_next, stall_issue, stall_ex, wfi_stall, prev_cycle_flush,
                          scoreboard, fu, spec_stores, committed_stores>>
           /\ FetchKeeps \/ FetchDelivers \/ FetchTraps
           /\ Steady'
<1>0. /\ Base /\ Awake /\ Steady /\ stage = "fetch" /\ stage' = "pcgen" /\ program' = program
      /\ LateFlushFree(program)
  BY DEF Fetch_stage, Inv, Known, Orderly
<1>1. UNCHANGED <<taken_redirect_bubble, pcgen_fetch_next, fetch_queue, pcgen_fetch_reg,
                  fetch_id_reg, id_issue_reg, issue_ex_reg, id_issue_next,
                  issue_ex_next, stall_issue, stall_ex, wfi_stall, prev_cycle_flush,
                  scoreboard, fu, spec_stores, committed_stores>>
  BY DEF Fetch_stage, latchVars, backVars
<1>2. /\ fetch_id_next = Bubble /\ pcgen_fetch_reg = pcgen_fetch_next
      /\ queue_full' = queue_full
      /\ ~ queue_full => Len(fetch_queue') < FETCH_QUEUE_CAPACITY
  <2>1. Len(fetch_queue) \in Nat /\ FETCH_QUEUE_CAPACITY \in Nat
    BY <1>0, Constants, LenProperties DEF Base, FrontTypes
  <2> QED
    BY <1>0, <1>1, <2>1 DEF Steady, Delivery, Awake, PCGenAwake, queue_full
<1>3. StoreLess'
  BY <1>0, <1>1, StoreLessKept DEF Steady, buffer_empty
<1>4. ~ flush_pipeline /\ ~ queue_full /\ ~ stall_fetch => ~ stall_pcgen
  BY <1>0 DEF Steady, HoldsAgree
<1>5. CASE flush_pipeline
  <2>1. /\ icache_miss_remaining' = 0 /\ NoDelivery(FALSE)
    BY <1>5 DEF Fetch_stage
  <2>2. FetchKeeps /\ stall_fetch' = stall_fetch
    BY <2>1 DEF NoDelivery, FetchKeeps, flushVars, trapVars, historyVars
  <2>3. stall_pcgen' <=> stall_pcgen
    <3>1. stall_pcgen' = (stall_pcgen \/ FALSE)
      BY <2>1 DEF NoDelivery
    <3> QED
      BY <3>1
  <2>4. Delivery' /\ HoldsAgree' /\ Emptied'
    <3>1. flush_pipeline'
      BY <1>5, <2>2 DEF FetchKeeps
    <3>2. Delivery'
      BY <1>0, <1>1, <2>2, <3>1 DEF Delivery, FetchKeeps
    <3>3. HoldsAgree'
      BY <1>0, <1>1, <2>1, <2>2, <2>3, <3>1 DEF HoldsAgree, Steady
    <3>4. Emptied'
      BY <1>0, <1>1, <1>5, <2>2, <3>1 DEF Emptied, Steady, FetchKeeps
    <3> QED
      BY <3>2, <3>3, <3>4
  <2> QED
    BY <1>0, <1>1, <1>2, <1>3, <2>2, <2>4 DEF Steady
<1>6. ASSUME ~ flush_pipeline, FetchKeeps,
             pcgen_fetch_next = Bubble \/ stall_pcgen' \/ queue_full,
             program.stalls = {} =>
                icache_miss_remaining' = 0 /\ (stall_fetch' <=> stall_pcgen' \/ queue_full)
      PROVE  Steady'
  <2>1. ~ flush_pipeline' /\ fetch_id_next' = Bubble
    BY <1>6 DEF FetchKeeps
  <2>2. Delivery'
    BY <1>0, <1>1, <1>2, <1>6, <2>1 DEF Delivery
  <2>3. HoldsAgree'
    BY <1>0, <1>1, <1>2, <1>6, <2>1 DEF HoldsAgree, Steady
  <2>4. Emptied'
    BY <1>0, <1>1, <1>6, <2>1 DEF Emptied, Steady
  <2> QED
    BY <1>3, <2>2, <2>3, <2>4 DEF Steady
<1>7. CASE ~ flush_pipeline /\ queue_full
  <2>1. stall_fetch' /\ UNCHANGED <<next_pc, fetch_id_next, stall_pcgen, flushVars, trapVars,
                                     historyVars, icache_miss_remaining>>
    BY <1>7 DEF Fetch_stage
  <2>2. FetchKeeps
    BY <1>2, <2>1 DEF FetchKeeps, flushVars, trapVars, historyVars
  <2>3. program.stalls = {} => icache_miss_remaining = 0
    BY <1>0 DEF Steady, HoldsAgree
  <2>4. Steady'
    BY <1>6, <1>7, <2>1, <2>2, <2>3
  <2> QED
    BY <1>0, <1>1, <1>2, <2>2, <2>4
<1>8. CASE ~ flush_pipeline /\ ~ queue_full /\ stall_fetch
  <2>1. UNCHANGED <<next_pc, fetch_id_next, stall_pcgen, stall_fetch, flushVars, trapVars,
                    historyVars, icache_miss_remaining>>
    BY <1>8 DEF Fetch_stage
  <2>2. FetchKeeps
    BY <1>2, <2>1 DEF FetchKeeps, flushVars, trapVars, historyVars
  <2>3. stall_pcgen /\ program.stalls = {} /\ icache_miss_remaining = 0
    BY <1>0, <1>8 DEF Steady, HoldsAgree
  <2>4. Steady'
    BY <1>6, <1>8, <2>1, <2>2, <2>3
  <2> QED
    BY <1>0, <1>1, <1>2, <2>2, <2>4
<1>9. CASE ~ flush_pipeline /\ ~ queue_full /\ ~ stall_fetch /\ pcgen_fetch_reg = Bubble
  <2>1. NoDelivery(FALSE) /\ icache_miss_remaining' = icache_miss_remaining
    BY <1>9 DEF Fetch_stage
  <2>2. FetchKeeps /\ stall_fetch' = stall_fetch
    BY <2>1 DEF NoDelivery, FetchKeeps, flushVars, trapVars, historyVars
  <2>3. stall_pcgen' <=> stall_pcgen
    <3>1. stall_pcgen' = (stall_pcgen \/ FALSE)
      BY <2>1 DEF NoDelivery
    <3> QED
      BY <3>1
  <2>4. program.stalls = {} => icache_miss_remaining = 0
    BY <1>0 DEF Steady, HoldsAgree
  <2>5. Steady'
    BY <1>2, <1>4, <1>6, <1>9, <2>1, <2>2, <2>3, <2>4
  <2> QED
    BY <1>0, <1>1, <1>2, <2>2, <2>5
<1>10. CASE ~ flush_pipeline /\ ~ queue_full /\ ~ stall_fetch /\ pcgen_fetch_reg # Bubble
  <2>1. CountDown \/ (\E n \in program.stalls : FetchMiss(n)) \/ FetchFault \/ Deliver
    BY <1>10 DEF Fetch_stage
  <2>2. CASE CountDown \/ (\E n \in program.stalls : FetchMiss(n))
    <3>1. NoDelivery(TRUE)
      BY <2>2 DEF CountDown, FetchMiss
    <3>2. FetchKeeps
      BY <3>1 DEF NoDelivery, FetchKeeps, flushVars, trapVars, historyVars
    <3>3. stall_pcgen'
      <4>1. stall_pcgen' = (stall_pcgen \/ TRUE)
        BY <3>1 DEF NoDelivery
      <4> QED
        BY <4>1
    <3>4. program.stalls # {}
      <4>1. CASE CountDown
        BY <1>0, <4>1 DEF Steady, HoldsAgree, CountDown
      <4> QED
        BY <2>2, <4>1
    <3>5. Steady'
      BY <1>6, <1>10, <3>2, <3>3, <3>4
    <3> QED
      BY <1>0, <1>1, <1>2, <3>2, <3>5
  <2>3. CASE FetchFault
    <3>1. FaultPossible /\ "fetch_fault" \notin program.events
      BY <1>0, <2>3 DEF FetchFault, LateFlushFree
    <3>2. /\ "target_fault" \in program.events
          /\ fetch_id_reg = Bubble /\ id_issue_reg = Bubble /\ issue_ex_reg = Bubble
          /\ fetch_queue = <<>>
      BY <3>1 DEF FaultPossible
    <3>3. FetchTraps
      BY <1>2, <1>10, <2>3, <3>2 DEF FetchFault, FetchTraps
    <3>4. flush_pipeline' /\ fetch_id_next' = Bubble /\ ~ stall_ex /\ ~ stall_issue
          /\ UNCHANGED <<stall_pcgen, stall_fetch, icache_miss_remaining>>
      BY <1>0, <2>3, <3>2 DEF FetchFault, Awake, CausesVisible, Late
    <3>5. Delivery'
      BY <1>0, <3>4 DEF Delivery
    <3>6. HoldsAgree'
      BY <1>0, <1>1, <3>4 DEF HoldsAgree, Steady
    <3>7. Emptied'
      BY <1>0, <1>1, <3>4 DEF Emptied
    <3> QED
      BY <1>0, <1>1, <1>2, <1>3, <3>3, <3>5, <3>6, <3>7 DEF Steady
  <2>4. CASE Deliver
    <3>1. /\ UNCHANGED <<stall_pcgen, stall_fetch, icache_miss_remaining, flushVars, trapVars,
                         historyVars>>
          /\ fetch_id_next' = pcgen_fetch_next
          /\ next_pc' = IF /\ program.code[pcgen_fetch_next.pc].size = 1
                           /\ pcgen_fetch_next.predicted = NotTaken
                        THEN Advance(program, next_pc, -1) ELSE next_pc
      BY <1>2, <2>4 DEF Deliver
    <3>2. FetchDelivers
      BY <1>2, <1>4, <1>10, <3>1 DEF FetchDelivers, flushVars, trapVars, historyVars
    <3>3. ~ flush_pipeline' /\ ~ stall_pcgen' /\ ~ stall_fetch' /\ fetch_id_next' # Bubble
      BY <1>2, <1>4, <1>10, <3>1 DEF flushVars
    <3>4. Delivery'
      BY <1>0, <1>2, <1>10, <3>3 DEF Delivery
    <3>5. HoldsAgree'
      BY <1>0, <1>1, <1>2, <1>10, <3>1, <3>3 DEF HoldsAgree, Steady
    <3>6. Emptied'
      BY <1>0, <1>1, <1>10, <3>3 DEF Emptied, Steady
    <3> QED
      BY <1>0, <1>1, <1>2, <1>3, <3>2, <3>4, <3>5, <3>6 DEF Steady
  <2> QED
    BY <2>1, <2>2, <2>3, <2>4
<1> QED
  BY <1>5, <1>7, <1>8, <1>9, <1>10

\* PCGen redirects, waits, or goes on.
PCGenMoves ==
    \/ /\ flush_pipeline /\ Redirect
    \/ /\ ~ flush_pipeline /\ ~ flush_pipeline'
       /\ UNCHANGED <<fetch_queue, fetch_id_next, id_issue_next, issue_ex_next>>
       /\ \/ next_pc' = next_pc /\ pcgen_fetch_next' = pcgen_fetch_next
             /\ (fetch_id_next = Bubble \/ pcgen_fetch_next = Bubble)
          \/ next_pc' = next_pc /\ pcgen_fetch_next' = Bubble
             /\ (fetch_id_next # Bubble \/ pcgen_fetch_next = Bubble)
          \/ Predict /\ (fetch_id_next # Bubble \/ pcgen_fetch_next = Bubble)

LEMMA PCGenCases ==
    ASSUME Inv, PCGen_stage
    PROVE  /\ stage = "pcgen" /\ stage' = "latch" /\ program' = program
           /\ UNCHANGED <<pcgen_fetch_reg, fetch_id_reg, id_issue_reg, issue_ex_reg,
                          stall_issue, stall_ex, wfi_stall, pc_redirect_target,
                          prev_cycle_flush, scoreboard, fu, spec_stores, committed_stores,
                          priv, mpp, mepc, pending_priv_switch, last, next, saved>>
           /\ flush_pipeline' = FALSE
           /\ PCGenMoves
           /\ Steady'
<1>0. /\ Base /\ Awake /\ Steady /\ stage = "pcgen" /\ stage' = "latch" /\ program' = program
      /\ Remembered
  BY DEF PCGen_stage, Inv, Known
<1>1. UNCHANGED <<pcgen_fetch_reg, fetch_id_reg, id_issue_reg, issue_ex_reg,
                  stall_issue, stall_ex, wfi_stall, pc_redirect_target,
                  prev_cycle_flush, scoreboard, fu, spec_stores, committed_stores,
                  priv, mpp, mepc, pending_priv_switch, last, next, saved,
                  icache_miss_remaining>>
  BY DEF PCGen_stage, latchVars, backVars, trapVars, historyVars
<1>2. StoreLess'
  BY <1>0, <1>1, StoreLessKept DEF Steady, buffer_empty
<1>3. prev_cycle_flush => flush_pipeline
  BY <1>0 DEF Remembered, NothingDropped
<1>4. CASE flush_pipeline
  <2>1. Redirect
    BY <1>4 DEF PCGen_stage
  <2>2. flush_pipeline' = FALSE
    BY <2>1 DEF Redirect
  <2>3. Delivery' /\ Emptied' 
    BY <1>0, <1>1, <1>4, <2>1 DEF Delivery, Emptied, Steady, Redirect
  <2>4. HoldsAgree'
    BY <1>0, <1>1, <1>4, <2>1 DEF HoldsAgree, Steady, Redirect
  <2> QED
    BY <1>0, <1>1, <1>2, <1>4, <2>1, <2>2, <2>3, <2>4 DEF PCGenMoves, Steady
<1>5. CASE ~ flush_pipeline
  <2>0. KeepLatches
    BY <1>5 DEF PCGen_stage
  <2>1. UNCHANGED <<fetch_queue, fetch_id_next, id_issue_next, issue_ex_next, flush_pipeline>>
    BY <2>0 DEF KeepLatches
  <2>2. flush_pipeline' = FALSE
    BY <1>5, <2>1 DEF PCGen_stage
  <2>3. Delivery'
    BY <1>0, <1>1, <2>1 DEF Delivery, Steady
  <2>4. CASE wfi_stall
    <3>1. /\ stall_fetch' = TRUE /\ stall_pcgen' = TRUE
          /\ pcgen_fetch_next' = Bubble /\ next_pc' = next_pc
      BY <1>5, <2>4 DEF PCGen_stage
    <3>2. pcgen_fetch_next = Bubble
      BY <1>0, <1>5, <2>4 DEF Steady, Emptied
    <3>3. HoldsAgree'
      BY <1>0, <1>1, <3>1 DEF HoldsAgree, Steady
    <3>4. Emptied'
      BY <1>0, <1>1, <1>3, <1>5, <2>1, <3>1 DEF Emptied
    <3> QED
      BY <1>0, <1>1, <1>2, <1>5, <2>1, <2>2, <2>3, <3>1, <3>2, <3>3, <3>4 DEF Steady, PCGenMoves
  <2>5. CASE ~ wfi_stall
    <3>1. stall_pcgen' <=> stall_pcgen \/ queue_full
      <4>1. stall_pcgen' = (stall_pcgen \/ queue_full)
        BY <1>5, <2>5 DEF PCGen_stage
      <4> QED
        BY <4>1
    <3>2. stall_fetch' = stall_fetch
      BY <1>5, <2>5 DEF PCGen_stage
    <3>3. HoldsAgree'
      BY <1>0, <1>1, <1>5, <2>1, <3>1, <3>2 DEF HoldsAgree, Steady
    <3>4. Emptied'
      BY <1>0, <1>1, <1>3, <1>5, <2>1, <2>5 DEF Emptied
    <3>5. CASE stall_pcgen \/ queue_full
      <4>1. next_pc' = next_pc /\ pcgen_fetch_next' = pcgen_fetch_next
        BY <1>5, <2>5, <3>5 DEF PCGen_stage
      <4>2. fetch_id_next = Bubble
        <5>1. Len(fetch_queue) \in Nat /\ FETCH_QUEUE_CAPACITY \in Nat
          BY <1>0, Constants, LenProperties DEF Base, FrontTypes
        <5> QED
          BY <1>0, <1>5, <3>5, <5>1 DEF Steady, Delivery, queue_full
      <4> QED
        BY <1>0, <1>1, <1>2, <1>5, <2>1, <2>2, <2>3, <3>3, <3>4, <4>1, <4>2 DEF Steady, PCGenMoves
    <3>6. CASE ~ (stall_pcgen \/ queue_full)
      <4>1. SpendBubble \/ Predict
        BY <1>5, <2>5, <3>6 DEF PCGen_stage
      <4>2. fetch_id_next # Bubble \/ pcgen_fetch_next = Bubble
        BY <1>0, <1>5, <3>6 DEF Steady, Delivery
      <4>3. PCGenMoves
        BY <1>5, <2>1, <2>2, <4>1, <4>2 DEF PCGenMoves, SpendBubble
      <4> QED
        BY <1>0, <1>1, <1>2, <1>5, <2>1, <2>2, <2>3, <3>3, <3>4, <4>3 DEF Steady
    <3> QED
      BY <3>5, <3>6
  <2> QED
    BY <2>4, <2>5
<1> QED
  BY <1>4, <1>5

-----------------------------------------------------------------------------
(* The front end's path in every stage. *)

LEMMA FlowTo ==
    ASSUME ~ flush_pipeline', program' = program, priv' = priv,
           NEW c, NEW d, NEW q, NEW f, NEW g, NEW n,
           Path(program, priv, c, d, q, f, g, n),
           c = D1', d = D2', q = fetch_queue', f = fetch_id_next', g = G', n = next_pc'
    PROVE  Flow' /\ Origin' = Begin(c, d, q, f, g, n)
<1>1. Path(program', priv', D1', D2', fetch_queue', fetch_id_next', G', next_pc')
  OBVIOUS
<1>2. Flow'
  BY <1>1 DEF Flow
<1> QED
  BY <1>2 DEF Origin

LEMMA FlowFrom ==
    ASSUME Inv, ~ flush_pipeline
    PROVE  /\ Path(program, priv, D1, D2, fetch_queue, fetch_id_next, G, next_pc)
           /\ Origin = Begin(D1, D2, fetch_queue, fetch_id_next, G, next_pc)
  BY DEF Inv, Flow, Origin

LEMMA FlowSame ==
    ASSUME Inv, flush_pipeline' = flush_pipeline, pc_redirect_target' = pc_redirect_target,
           program' = program, priv' = priv,
           ~ flush_pipeline => /\ D1' = D1 /\ D2' = D2 /\ G' = G
                               /\ UNCHANGED <<fetch_queue, fetch_id_next, next_pc>>
    PROVE  Flow' /\ Origin' = Origin
<1>1. CASE flush_pipeline
  BY <1>1 DEF Flow, Origin
<1>2. CASE ~ flush_pipeline
  BY <1>2, FlowTo, FlowFrom
<1> QED
  BY <1>1, <1>2

LEMMA FlowLatch ==
    ASSUME Inv, LatchTransfer PROVE Flow' /\ Origin' = Origin
<1>0. /\ Base /\ Steady /\ stage = "latch" /\ stage' = "irq" /\ program' = program
      /\ ~ flush_pipeline /\ ~ flush_pipeline' /\ priv' = priv
      /\ UNCHANGED <<stall_issue, pcgen_fetch_next, next_pc, flush_pipeline, pc_redirect_target>>
  BY DEF LatchTransfer, Inv, Known, Base, FlushEnds, flushVars, stallVars, trapVars
<1>1. G = pcgen_fetch_next /\ G' = G /\ D1' = id_issue_reg' /\ D2' = fetch_id_reg'
  BY <1>0 DEF G, D1, D2, Early, Decoding
<1>2. CASE prev_cycle_flush
  <2>1. D1 = Bubble /\ D2 = Bubble
    BY <1>0, <1>2 DEF Steady, Emptied, D1, D2, Early, Decoding
  <2>2. D1' = D1 /\ D2' = D2 /\ UNCHANGED <<fetch_queue, fetch_id_next>>
    BY <1>1, <1>2, <2>1 DEF LatchTransfer
  <2> QED
    BY <1>0, <1>1, <2>2, FlowSame
<1>3. CASE ~ prev_cycle_flush
  <2> DEFINE q == QueueAfterPush
  <2>1. fetch_id_next' = Bubble /\ D1' = D1
    BY <1>0, <1>1, <1>3 DEF LatchTransfer, D1, Early, Decoding
  <2>2. /\ Path(program, priv, D1, D2, q, Bubble, G, next_pc)
        /\ Begin(D1, D2, q, Bubble, G, next_pc) = Origin
    <3>1. CASE fetch_id_next = Bubble
      BY <1>0, <3>1, FlowFrom DEF QueueAfterPush
    <3>2. CASE fetch_id_next # Bubble
      <4>1. q = Append(fetch_queue, fetch_id_next)
        BY <1>0, <3>2 DEF Steady, Delivery, QueueAfterPush
      <4> QED
        BY <1>0, <3>2, <4>1, FlowFrom, PathPush
    <3> QED
      BY <3>1, <3>2
  <2>3. CASE stall_issue
    <3>1. D2 = fetch_id_reg /\ D2' = D2 /\ fetch_queue' = q
      BY <1>0, <1>1, <1>3, <2>3 DEF LatchTransfer, D2, Early, Decoding
    <3> QED
      BY <1>0, <1>1, <2>1, <2>2, <3>1, FlowTo
  <2>4. CASE ~ stall_issue
    <3>0. D2 = Bubble
      BY <1>0, <2>4 DEF D2, Decoding
    <3>1. CASE q = <<>>
      <4>1. fetch_queue' = q /\ D2' = D2
        BY <1>1, <1>3, <2>4, <3>0, <3>1 DEF LatchTransfer
      <4> QED
        BY <1>0, <1>1, <2>1, <2>2, <4>1, FlowTo
    <3>2. CASE q # <<>>
      <4>1. fetch_queue' = Tail(q) /\ D2' = Head(q)
        BY <1>1, <1>3, <2>4, <3>2 DEF LatchTransfer
      <4> HIDE DEF q
      <4>2. /\ Path(program, priv, D1, Head(q), Tail(q), Bubble, G, next_pc)
            /\ Begin(D1, Head(q), Tail(q), Bubble, G, next_pc) = Origin
        BY <2>2, <3>0, <3>2, PathPop
      <4> QED
        BY <1>0, <1>1, <2>1, <4>1, <4>2, FlowTo
    <3> QED
      BY <3>1, <3>2
  <2> QED
    BY <2>3, <2>4
<1> QED
  BY <1>2, <1>3

LEMMA FlowBackend ==
    ASSUME Inv, cpu_process_IRQ \/ Commit_stage \/ EX_stage
    PROVE  /\ flush_pipeline' \/ UNCHANGED <<flush_pipeline, pc_redirect_target, priv>> => Flow'
           /\ UNCHANGED <<flush_pipeline, pc_redirect_target, priv>> => Origin' = Origin
<1>0. /\ stage \in Early /\ stage' \in Early \cup {"issue"} /\ program' = program
      /\ UNCHANGED <<id_issue_reg, fetch_id_reg, pcgen_fetch_next, fetch_queue, fetch_id_next,
                     next_pc>>
  BY DEF cpu_process_IRQ, Commit_stage, EX_stage, backLatches, latchVars, frontVars, Early
<1>1. D1' = D1 /\ D2' = D2 /\ G' = G
  BY <1>0 DEF D1, D2, G, Early, Decoding
<1>2. flush_pipeline' => Flow'
  BY DEF Flow
<1> QED
  BY <1>0, <1>1, <1>2, FlowSame

LEMMA FlowIssue ==
    ASSUME Inv, Issue_stage
    PROVE  /\ Flow'
           /\ ~ Dispatched => Origin' = Origin
           /\ Dispatched => /\ Origin = id_issue_reg.pc
                            /\ Origin' = Goes(program, id_issue_reg)
                            /\ id_issue_reg \in Local(program, priv)
<1>0. /\ stage = "issue" /\ stage' \in {"id", "drain"} /\ program' = program /\ priv' = priv
      /\ UNCHANGED <<flush_pipeline, pc_redirect_target, id_issue_reg, fetch_id_reg,
                     pcgen_fetch_next, fetch_queue, fetch_id_next, next_pc>>
  BY DEF Issue_stage, IssueInstruction, frontVars, latchVars, flushVars, trapVars
<1>1. G' = G /\ D2' = D2 /\ D1 = id_issue_reg
  BY <1>0 DEF G, D1, D2, Early, Decoding
<1>2. D1' = IF stall_issue' THEN id_issue_reg ELSE Bubble
  BY <1>0 DEF D1, Early, Decoding
<1>3. CASE Dispatched
  <2>1. D1' = Bubble /\ ~ flush_pipeline /\ D1 # Bubble
    BY <1>1, <1>2, <1>3 DEF Dispatched, Dispatch
  <2>2. /\ Path(program, priv, Bubble, D2, fetch_queue, fetch_id_next, G, next_pc)
        /\ Origin = id_issue_reg.pc
        /\ Begin(Bubble, D2, fetch_queue, fetch_id_next, G, next_pc) = Goes(program, id_issue_reg)
        /\ id_issue_reg \in Local(program, priv)
    BY <1>1, <2>1, FlowFrom, PathDispatch
  <2>3. Flow' /\ Origin' = Begin(Bubble, D2, fetch_queue, fetch_id_next, G, next_pc)
    BY <1>0, <1>1, <2>1, <2>2, FlowTo
  <2> QED
    BY <1>3, <2>2, <2>3
<1>4. CASE ~ Dispatched
  <2>1. ~ flush_pipeline => D1' = D1
    BY <1>1, <1>2, <1>4 DEF Issue_stage, IssueInstruction, Held, Dispatched
  <2> QED
    BY <1>0, <1>1, <1>4, <2>1, FlowSame
<1> QED
  BY <1>3, <1>4

LEMMA FlowDrain ==
    ASSUME Inv, Issue_illegal PROVE Flow' /\ (stage' = "drain" => Origin' = Origin)
<1>1. CASE DrainReady
  <2>0. /\ stage = "drain" /\ stage' = "drain" /\ program' = program /\ priv' = priv
        /\ UNCHANGED <<flush_pipeline, pc_redirect_target, id_issue_reg, fetch_id_reg,
                       pcgen_fetch_next, fetch_queue, fetch_id_next, next_pc, stall_issue>>
    BY <1>1 DEF Issue_illegal, DrainReady, backLatches, frontVars, latchVars, flushVars, trapVars,
                stallVars
  <2>1. G' = G /\ D2' = D2 /\ D1' = D1
    BY <2>0 DEF G, D1, D2, Early, Decoding
  <2> QED
    BY <2>0, <2>1, FlowSame
<1>2. CASE IllegalTrap
  BY <1>2 DEF IllegalTrap, RedirectTo, Flow
<1> QED
  BY <1>1, <1>2 DEF Issue_illegal

LEMMA FlowId ==
    ASSUME Inv, ID_stage PROVE Flow' /\ Origin' = Origin
<1>0. /\ stage = "id" /\ stage' = "fetch" /\ program' = program /\ priv' = priv
      /\ UNCHANGED <<flush_pipeline, pc_redirect_target, id_issue_reg, fetch_id_reg,
                     pcgen_fetch_next, fetch_queue, fetch_id_next, next_pc, stall_issue>>
  BY IdKeepsFlush DEF ID_stage, frontVars, latchVars, trapVars, stallVars
<1>1. G' = G
  BY <1>0 DEF G
<1>2. CASE flush_pipeline \/ stall_issue
  <2>1. ~ flush_pipeline => D1' = D1 /\ D2' = D2
    BY <1>0, <1>2 DEF D1, D2, Early, Decoding
  <2> QED
    BY <1>0, <1>1, <2>1, FlowSame
<1>3. CASE ~ flush_pipeline /\ ~ stall_issue
  <2>1. D1 = Bubble /\ D2 = fetch_id_reg /\ D1' = fetch_id_reg /\ D2' = Bubble
    BY <1>0, <1>3, IdKeepsFlush DEF D1, D2, Early, Decoding
  <2>2. /\ Path(program, priv, fetch_id_reg, Bubble, fetch_queue, fetch_id_next, G, next_pc)
        /\ Origin = Begin(fetch_id_reg, Bubble, fetch_queue, fetch_id_next, G, next_pc)
    BY <1>3, <2>1, FlowFrom, PathShift
  <2> QED
    BY <1>0, <1>1, <1>3, <2>1, <2>2, FlowTo
<1> QED
  BY <1>2, <1>3

LEMMA FlowFetch ==
    ASSUME Inv, Fetch_stage PROVE Flow' /\ (~ FetchTraps => Origin' = Origin)
<1>0. /\ fetch_id_next = Bubble /\ stage = "fetch" /\ stage' = "pcgen" /\ program' = program
      /\ UNCHANGED <<pcgen_fetch_next, fetch_queue, fetch_id_reg, id_issue_reg, id_issue_next,
                     stall_issue>>
      /\ FetchKeeps \/ FetchDelivers \/ FetchTraps
  BY FetchCases
<1>1. D1' = D1 /\ D2' = D2 /\ G = pcgen_fetch_next
      /\ G' = IF fetch_id_next' # Bubble THEN Bubble ELSE pcgen_fetch_next
  BY <1>0 DEF D1, D2, G, Early, Decoding
<1>2. CASE FetchTraps
  BY <1>2 DEF FetchTraps, Flow
<1>3. CASE FetchKeeps
  BY <1>0, <1>1, <1>3, FlowSame DEF FetchKeeps
<1>4. CASE FetchDelivers
  <2> DEFINE g == pcgen_fetch_next
             m == Goes(program, g)
  <2>1. /\ ~ flush_pipeline /\ ~ flush_pipeline' /\ priv' = priv /\ g # Bubble
        /\ fetch_id_next' = g /\ G' = Bubble
        /\ next_pc' = IF program.code[g.pc].size = 1 /\ g.predicted = NotTaken
                      THEN Advance(program, next_pc, -1) ELSE next_pc
    BY <1>1, <1>4 DEF FetchDelivers
  <2>2. Path(program, priv, D1, D2, fetch_queue, Bubble, g, next_pc)
    BY <1>0, <1>1, <2>1, FlowFrom
  <2>3. /\ g \in Local(program, priv) /\ Ahead(program, g) = next_pc
        /\ next_pc \in PC /\ PrivOf(next_pc) = priv
    BY <2>1, <2>2 DEF Path
  <2>4. g.pc \in PC /\ program \in Programs /\ PrivOf(g.pc) = priv
    BY <2>3 DEF Local, Instr, Inv, Known, Base, FrontTypes
  <2>5. next_pc' = m /\ m \in PC /\ PrivOf(m) = priv
    <3>1. program.code[g.pc].size \in {1, 2}
      BY <2>4, PathAddresses
    <3>2. CASE g.predicted # NotTaken
      BY <2>1, <2>3, <3>2 DEF Goes, Ahead
    <3>3. CASE g.predicted = NotTaken /\ program.code[g.pc].size = 2
      BY <2>1, <2>3, <2>4, <3>3, PathAddresses DEF Goes, Ahead
    <3>4. CASE g.predicted = NotTaken /\ program.code[g.pc].size = 1
      BY <2>1, <2>3, <2>4, <3>4, PathAddresses DEF Goes, Ahead
    <3> QED
      BY <3>1, <3>2, <3>3, <3>4
  <2> HIDE DEF m
  <2>6. /\ Path(program, priv, D1, D2, fetch_queue, g, Bubble, m)
        /\ Begin(D1, D2, fetch_queue, g, Bubble, m) = Begin(D1, D2, fetch_queue, Bubble, g, next_pc)
    <3>1. Goes(program, g) = m
      BY DEF m
    <3> HIDE DEF g
    <3> QED
      BY <2>1, <2>2, <2>5, <3>1, PathDeliver
  <2>7. Begin(D1, D2, fetch_queue, Bubble, g, next_pc) = Origin
    BY <1>0, <1>1, <2>1, FlowFrom
  <2> QED
    BY <1>0, <1>1, <2>1, <2>5, <2>6, <2>7, FlowTo
<1> QED
  BY <1>0, <1>2, <1>3, <1>4

LEMMA FlowPCGen ==
    ASSUME Inv, PCGen_stage PROVE Flow' /\ Origin' = Origin
<1>0. /\ stage = "pcgen" /\ stage' = "latch" /\ program' = program /\ priv' = priv
      /\ UNCHANGED <<id_issue_reg, fetch_id_reg, stall_issue, pc_redirect_target>>
      /\ ~ flush_pipeline' /\ PCGenMoves
  BY PCGenCases
<1>1. G' = pcgen_fetch_next' /\ G = IF fetch_id_next # Bubble THEN Bubble ELSE pcgen_fetch_next
  BY <1>0 DEF G
<1>2. CASE flush_pipeline
  <2>1. Redirect /\ ~ stall_issue
    BY <1>0, <1>2 DEF PCGenMoves, Inv, Steady, Emptied
  <2>2. /\ D1' = Bubble /\ D2' = Bubble /\ G' = Bubble /\ fetch_queue' = <<>>
        /\ fetch_id_next' = Bubble /\ next_pc' = pc_redirect_target
    BY <1>0, <1>1, <2>1 DEF Redirect, D1, D2, Early, Decoding
  <2>3. pc_redirect_target \in PC /\ PrivOf(pc_redirect_target) = priv
    BY <1>2 DEF Inv, Modes, Known, Base, FrontTypes
  <2>4. /\ Path(program, priv, Bubble, Bubble, <<>>, Bubble, Bubble, pc_redirect_target)
        /\ Begin(Bubble, Bubble, <<>>, Bubble, Bubble, pc_redirect_target) = pc_redirect_target
    BY <2>3, PathEmpty
  <2>5. Origin = pc_redirect_target
    BY <1>2 DEF Origin
  <2> QED
    BY <1>0, <2>2, <2>4, <2>5, FlowTo
<1>3. CASE ~ flush_pipeline
  <2>1. D1' = D1 /\ D2' = D2 /\ UNCHANGED <<fetch_queue, fetch_id_next>>
    BY <1>0, <1>3 DEF PCGenMoves, D1, D2, Early, Decoding
  <2>2. CASE next_pc' = next_pc /\ G' = G
    BY <1>0, <1>3, <2>1, <2>2, FlowFrom, FlowTo
  <2>3. CASE Predict /\ (fetch_id_next # Bubble \/ pcgen_fetch_next = Bubble)
    <3>0. /\ G = Bubble /\ next_pc \in PC /\ program \in Programs
          /\ LateFlushFree(program) /\ ModesRespected(program)
      BY <1>1, <2>3 DEF Inv, Known, Base, FrontTypes, Orderly
    <3>1. PICK t \in {NotTaken} \cup Predictable(next_pc) :
             /\ pcgen_fetch_next' = [pc |-> next_pc, predicted |-> t]
             /\ next_pc' = IF t = NotTaken THEN Advance(program, next_pc, 2) ELSE t
      BY <2>3 DEF Predict
    <3> DEFINE g == [pc |-> next_pc, predicted |-> t]
               m == next_pc'
    <3>2. PrivOf(next_pc) = priv
      BY <1>3, FlowFrom DEF Path
    <3>3. t # NotTaken => /\ t \in PC /\ PrivOf(t) = PrivOf(next_pc)
                          /\ program.code[next_pc].kind = "BRANCH"
      BY <3>0, <3>1, PathAddresses DEF Predictable, LateFlushFree, KindAt
    <3>4. t \in PC \cup {NotTaken}
      BY <3>3
    <3>5. g \in Local(program, priv) /\ g.pc = next_pc /\ g.predicted = t
      BY <3>0, <3>2, <3>3, <3>4 DEF Local, Instr
    <3>6. m \in PC /\ PrivOf(m) = priv /\ Ahead(program, g) = m
      BY <3>0, <3>1, <3>2, <3>3, <3>5, PathAddresses DEF Ahead
    <3>7. G' = g
      BY <1>1, <3>1
    <3> HIDE DEF g, m
    <3>8. /\ Path(program, priv, D1, D2, fetch_queue, fetch_id_next, g, m)
          /\ Begin(D1, D2, fetch_queue, fetch_id_next, g, m) = Origin
      BY <1>3, <3>0, <3>5, <3>6, FlowFrom, PathPredict
    <3> QED
      BY <1>0, <2>1, <3>7, <3>8, FlowTo DEF m
  <2> QED
    BY <1>0, <1>1, <1>3, <2>1, <2>2, <2>3 DEF PCGenMoves
<1> QED
  BY <1>2, <1>3

-----------------------------------------------------------------------------
(* What the invariant says of the entry that has not executed. *)

LEMMA PendingFacts ==
    ASSUME Inv
    PROVE  /\ FrontTypes /\ BackTypes /\ GoodBoard(scoreboard, Tag, PC) /\ program \in Programs
           /\ RingOf(scoreboard.entries, scoreboard.head, scoreboard.tail, scoreboard.count)
           /\ scoreboard.count \in Nat
           /\ Pending = Bubble => Skipped(Pending) = SIZE /\ SIZE \notin 0 .. SIZE - 1
           /\ Pending # Bubble =>
                 /\ Pending \in ExInstr /\ Pending.pc \in PC
                 /\ Skipped(Pending) = Pending.rob_index
                 /\ Pending.rob_index \in 0 .. SIZE - 1
                 /\ Pending.rob_index = Youngest(scoreboard.tail)
                 /\ scoreboard.entries[Pending.rob_index].valid
                 /\ ~ scoreboard.entries[Pending.rob_index].ready
                 /\ scoreboard.count > 0
<1>1. /\ FrontTypes /\ BackTypes /\ GoodBoard(scoreboard, Tag, PC) /\ program \in Programs
      /\ Live /\ TailFollows
  BY DEF Inv, Known, Base, BackTypes, FrontTypes
<1>2. RingOf(scoreboard.entries, scoreboard.head, scoreboard.tail, scoreboard.count)
  BY <1>1, BoardRing
<1>3. /\ SIZE \in Nat \ {0} /\ scoreboard.count \in 0 .. SIZE /\ scoreboard.tail \in 0 .. SIZE - 1
  BY <1>2, Constants DEF RingOf
<1>4. SIZE \notin 0 .. SIZE - 1 /\ scoreboard.count \in Nat
  BY <1>3
<1>5. ASSUME Pending # Bubble
      PROVE  /\ Pending \in ExInstr /\ Pending.pc \in PC
             /\ Skipped(Pending) = Pending.rob_index
             /\ Pending.rob_index \in 0 .. SIZE - 1
             /\ Pending.rob_index = Youngest(scoreboard.tail)
             /\ scoreboard.entries[Pending.rob_index].valid
             /\ ~ scoreboard.entries[Pending.rob_index].ready
             /\ scoreboard.count > 0
  <2>1. Pending \in ExInstr /\ Pending.pc \in PC
    BY <1>1, <1>5, LatchMembers DEF Pending, BackTypes
  <2>2. Pending.rob_index \in 0 .. SIZE - 1
    BY <2>1 DEF ExInstr
  <2>3. scoreboard.tail = (Pending.rob_index + 1) % SIZE
    BY <1>1, <1>5 DEF TailFollows
  <2>4. Pending.rob_index = Youngest(scoreboard.tail)
    BY <1>3, <2>2, <2>3, YoungestSlot
  <2>5. /\ scoreboard.entries[Pending.rob_index].valid
        /\ ~ scoreboard.entries[Pending.rob_index].ready
    BY <1>1, <1>5 DEF Live, Awaits, Unfinished
  <2>6. scoreboard.count # 0
    BY <1>2, <2>2, <2>5 DEF RingOf
  <2>7. scoreboard.count > 0
    BY <1>4, <2>6
  <2> QED
    BY <1>5, <2>1, <2>2, <2>4, <2>5, <2>7 DEF Skipped
<1> QED
  BY <1>1, <1>2, <1>4, <1>5 DEF Skipped

LEMMA NoEntries ==
    ASSUME NEW s, GoodBoard(s, Tag, PC), s.count = 0
    PROVE  \A i \in 0 .. SIZE - 1 : ~ s.entries[i].valid
  BY BoardRing DEF RingOf

\* The whole path is in the mode of the core.
LEMMA BeginMode ==
    ASSUME NEW p, NEW v, NEW c, NEW d, NEW q, NEW f, NEW g, NEW n,
           Path(p, v, c, d, q, f, g, n)
    PROVE  PrivOf(Begin(c, d, q, f, g, n)) = v
<1> DEFINE a4 == From(g, n)
           a3 == From(f, a4)
           a2 == Leading(q, a3)
           a1 == From(d, a2)
<1>1. \A l \in Local(p, v) : PrivOf(l.pc) = v
  BY DEF Local
<1>2. PrivOf(a4) = v
  BY <1>1 DEF Path, From
<1>3. PrivOf(a3) = v
  BY <1>1, <1>2 DEF Path, Joins, From
<1>4. PrivOf(a2) = v
  <2>1. q \in Seq(Local(p, v))
    BY DEF Path
  <2>2. q # <<>> => q[1] \in Local(p, v)
    BY <2>1
  <2> QED
    BY <1>1, <1>3, <2>2 DEF Leading
<1>5. PrivOf(a1) = v
  BY <1>1, <1>4 DEF Path, Joins, From
<1> QED
  BY <1>1, <1>5 DEF Path, Joins, From, Begin

LEMMA OriginMode ==
    ASSUME Inv PROVE PrivOf(Origin) = priv
<1>1. CASE flush_pipeline
  BY <1>1 DEF Inv, Modes, Origin
<1>2. CASE ~ flush_pipeline
  BY <1>2, FlowFrom, BeginMode
<1> QED
  BY <1>1, <1>2

-----------------------------------------------------------------------------
(* Steps that leave the back end alone. *)

LEMMA CoreKept ==
    ASSUME Inv, stage # "drain", stage' # "drain", Pending' = Pending, Origin' = Origin,
           UNCHANGED <<program, scoreboard, priv, mpp, mepc, pending_priv_switch, next, saved>>,
           flush_pipeline' => PrivOf(pc_redirect_target') = priv,
           Pending # Bubble => ~ flush_pipeline',
           Lean => scoreboard.count <= Room', Returning'
    PROVE  Modes' /\ InOrder' /\ Fast'
<1>0. Modes /\ InOrder /\ Fast
  BY DEF Inv
<1>1. Modes'
  BY <1>0 DEF Modes
<1>2. Unresolved = Skipped(Pending) /\ Unresolved' = Skipped(Pending)
  BY DEF Unresolved
<1>3. Dispatching'
  BY <1>0 DEF InOrder, Dispatching, KindAt
<1>4. InOrder'
  BY <1>0, <1>2, <1>3 DEF InOrder
<1>5. (Lean' => Lean) /\ (Ready => Ready')
  BY <1>2 DEF Lean, Ready
<1>6. Fast'
  BY <1>0, <1>5 DEF Fast
<1> QED
  BY <1>1, <1>4, <1>6

LEMMA CoreSame ==
    ASSUME Inv, stage # "drain", stage' # "drain", Pending' = Pending, Origin' = Origin,
           UNCHANGED <<program, scoreboard, priv, mpp, mepc, pending_priv_switch, next, saved>>,
           flush_pipeline' => PrivOf(pc_redirect_target') = priv,
           Pending # Bubble => ~ flush_pipeline',
           Room <= Room', Room \in Nat, Room' \in Nat, Returning'
    PROVE  Modes' /\ InOrder' /\ Fast'
<1>1. Lean => scoreboard.count <= Room
  BY DEF Inv, Fast
<1>2. scoreboard.count \in Nat
  BY PendingFacts
<1>3. Lean => scoreboard.count <= Room'
  BY <1>1, <1>2
<1> QED
  BY <1>3, CoreKept

LEMMA RoomNat == Room \in Nat /\ Room' \in Nat
<1>1. \A b : One(b) \in {0, 1}
  BY DEF One
<1> QED
  BY <1>1 DEF Room

LEMMA CoreLatch ==
    ASSUME Inv, LatchTransfer
    PROVE  Modes' /\ InOrder' /\ Fast' /\ UNCHANGED <<program, last, next, saved>>
<1>0. /\ stage = "latch" /\ stage' = "irq" /\ ~ flush_pipeline'
      /\ Base /\ Returning
      /\ UNCHANGED <<program, scoreboard, priv, mpp, mepc, pending_priv_switch, last, next, saved>>
  BY DEF LatchTransfer, Inv, Known, Base, FlushEnds, flushVars, backVars, trapVars, historyVars, Fast
<1>1. Pending' = Pending
  BY <1>0, LatchBase
<1>2. Returning'
  BY <1>0, <1>1 DEF Returning, KindAt
<1>3. Room <= Room'
  <2> DEFINE p == One(Pending # Bubble)
             x == One(issue_ex_reg # Bubble)
             y == One(stage = "drain" \/ (Pending # Bubble /\ ~ stall_ex))
  <2>1. Room = x + y /\ Room' = 1 + p
    BY <1>0, <1>1 DEF Room
  <2>2. p \in {0, 1} /\ x \in {0, 1} /\ y \in {0, 1} /\ y <= p
    BY <1>0 DEF One
  <2> HIDE DEF p, x, y
  <2> QED
    BY <2>1, <2>2
<1> QED
  BY <1>0, <1>1, <1>2, <1>3, CoreSame, FlowLatch, RoomNat

LEMMA CoreId ==
    ASSUME Inv, ID_stage
    PROVE  Modes' /\ InOrder' /\ Fast' /\ UNCHANGED <<program, last, next, saved>>
<1>0. /\ stage = "id" /\ stage' = "fetch" /\ Base /\ Returning /\ Modes
      /\ UNCHANGED <<flush_pipeline, pc_redirect_target, prev_cycle_flush, issue_ex_reg, stall_ex,
                     program, scoreboard, priv, mpp, mepc, pending_priv_switch, last, next, saved>>
  BY IdKeepsFlush DEF ID_stage, Inv, Known, latchVars, backVars, trapVars, historyVars, Fast
<1>1. Pending' = Pending
  BY <1>0, IdBase
<1>2. Returning'
  BY <1>0, <1>1 DEF Returning, KindAt
<1>3. Room' = Room
  BY <1>0, <1>1 DEF Room
<1>4. Room <= Room'
  BY <1>3, RoomNat
<1>5. flush_pipeline' => PrivOf(pc_redirect_target') = priv
  BY <1>0 DEF Modes
<1>6. Pending # Bubble => ~ flush_pipeline'
  BY <1>0 DEF Inv, InOrder, Dispatching
<1> QED
  BY <1>0, <1>1, <1>2, <1>4, <1>5, <1>6, CoreSame, FlowId, RoomNat

LEMMA CorePCGen ==
    ASSUME Inv, PCGen_stage
    PROVE  Modes' /\ InOrder' /\ Fast' /\ UNCHANGED <<program, last, next, saved>>
<1>0. /\ stage = "pcgen" /\ stage' = "latch" /\ Base /\ Returning /\ Steady /\ Remembered
      /\ ~ flush_pipeline' /\ PCGenMoves
      /\ UNCHANGED <<prev_cycle_flush, issue_ex_reg, stall_ex,
                     program, scoreboard, priv, mpp, mepc, pending_priv_switch, last, next, saved>>
  BY PCGenCases DEF Inv, Known, Fast
<1>1. Pending' = Pending
  <2>1. CASE flush_pipeline
    <3>1. issue_ex_next = Bubble /\ issue_ex_next' = Bubble /\ ~ stall_ex
      BY <1>0, <2>1 DEF PCGenMoves, Redirect, Remembered, NothingDropped, Steady, Emptied
    <3> QED
      BY <1>0, <3>1 DEF Pending, Early
  <2>2. CASE ~ flush_pipeline
    <3>1. ~ prev_cycle_flush /\ issue_ex_next' = issue_ex_next
      BY <1>0, <2>2 DEF PCGenMoves, Remembered, NothingDropped
    <3> QED
      BY <1>0, <3>1 DEF Pending, Early
  <2> QED
    BY <2>1, <2>2
<1>2. Returning'
  BY <1>0, <1>1 DEF Returning, KindAt
<1>3. Room' = Room
  BY <1>0, <1>1 DEF Room
<1>4. Room <= Room'
  BY <1>3, RoomNat
<1> QED
  BY <1>0, <1>1, <1>2, <1>4, CoreSame, FlowPCGen, RoomNat

\* What the sequential machine sees of a step.
MachineStep == Sequential!Next \/ UNCHANGED <<program, last, next, saved>>

LEMMA SameCode ==
    /\ Sequential!HandlerPC = HandlerPC
    /\ \A a : Sequential!PrivOf(a) = PrivOf(a)
    /\ \A p, a : Sequential!Following(p, a) = Following(p, a)
  BY DEF Sequential!HandlerPC, HandlerPC, Sequential!PrivOf, PrivOf, Sequential!Following,
         Following, Sequential!Advance, Advance

\* A trap leaves nothing behind.
Trapped ==
    /\ program' = program /\ last' = last
    /\ saved' = [pc |-> mepc', priv |-> "U"] /\ mpp' = "U" /\ priv' = "M"
    /\ mepc' \in PC /\ PrivOf(mepc') = "U"
    /\ mepc' = next \/ ("irq" \in program.events /\ pending_priv_switch /\ mepc' = mepc)
    /\ next' = HandlerPC /\ flush_pipeline' /\ pc_redirect_target' = HandlerPC
    /\ GoodBoard(scoreboard', Tag, PC) /\ scoreboard'.count = 0
    /\ Pending' = Bubble /\ stage' # "drain"
    /\ ~ pending_priv_switch' \/ "irq" \notin program.events

LEMMA CoreTrap ==
    ASSUME Inv, Trapped, "irq" \in program.events /\ pending_priv_switch => mepc' = mepc
    PROVE  Modes' /\ InOrder' /\ Fast' /\ MachineStep
<1>0. Modes /\ InOrder /\ Fast
  BY DEF Inv
<1>1. \A i \in 0 .. SIZE - 1 : ~ scoreboard'.entries[i].valid
  BY NoEntries DEF Trapped
<1>2. PrivOf(HandlerPC) = "M"
  BY CodeAssumption DEF PrivOf, HandlerPC
<1>3. saved'.pc = mepc'
  BY DEF Trapped
<1>4. Modes'
  BY <1>1, <1>2, <1>3 DEF Modes, Trapped
<1>5. Origin' = HandlerPC
  BY DEF Trapped, Origin
<1>6. Dispatching'
  BY <1>5 DEF Dispatching, Leads, Trapped
<1>7. InOrder'
  <2> DEFINE e == scoreboard'.entries
             h == scoreboard'.head
             t == scoreboard'.tail
             n == next'
             p == program'
             r == saved'.pc
             b == Unresolved'
  <2>1. scoreboard'.count = 0 /\ \A i \in 0 .. SIZE - 1 : ~ e[i].valid
    BY <1>1 DEF Trapped
  <2> HIDE DEF e, h, t, n, p, r, b
  <2>2. Linked(e, h, t, 0, n) /\ Resolved(p, r, e, b)
    BY <2>1, PathFlushed
  <2> QED
    BY <1>6, <2>1, <2>2 DEF InOrder, e, h, t, n, p, r, b
<1>8. Fast'
  <2>1. Ready'
    BY <1>1 DEF Ready
  <2>2. Returning'
    BY DEF Returning, Trapped
  <2>3. scoreboard'.count <= Room'
    BY RoomNat DEF Trapped
  <2> QED
    BY <2>1, <2>2, <2>3 DEF Fast
<1>9. MachineStep
  <2>1. CASE "irq" \in program.events /\ pending_priv_switch
    <3>1. /\ scoreboard.count = 1 /\ KindAt(scoreboard.entries[scoreboard.head].pc) = "MRET"
      BY <1>0, <2>1 DEF Fast, Returning
    <3>2. scoreboard.entries[scoreboard.head].pc = next
      BY <1>0, <3>1 DEF InOrder, Linked
    <3>3. mepc' = saved.pc /\ PrivOf(saved.pc) = "U"
      BY <1>0, <2>1 DEF Modes
    <3>4. Sequential!TrapAfterReturn
      BY <3>1, <3>2, <3>3, SameCode DEF Sequential!TrapAfterReturn, Trapped, KindAt
    <3> QED
      BY <3>4 DEF MachineStep, Sequential!Next
  <2>2. CASE ~ ("irq" \in program.events /\ pending_priv_switch)
    <3>1. mepc' = next /\ PrivOf(next) = "U"
      BY <2>2 DEF Trapped
    <3>2. Sequential!Trap
      BY <3>1, SameCode DEF Sequential!Trap, Trapped
    <3> QED
      BY <3>2 DEF MachineStep, Sequential!Next
  <2> QED
    BY <2>1, <2>2
<1> QED
  BY <1>4, <1>7, <1>8, <1>9

-----------------------------------------------------------------------------
(* Traps. *)

LEMMA CoreFetch ==
    ASSUME Inv, Fetch_stage PROVE Modes' /\ InOrder' /\ Fast' /\ MachineStep
<1>0. /\ stage = "fetch" /\ stage' = "pcgen" /\ Base /\ Returning /\ Modes /\ InOrder /\ Fast
      /\ Remembered /\ Awake /\ Steady /\ Orderly(program)
      /\ UNCHANGED <<issue_ex_reg, stall_ex, prev_cycle_flush, program, scoreboard>>
      /\ FetchKeeps \/ FetchDelivers \/ FetchTraps
  BY FetchCases DEF Inv, Known, Fast
<1>1. Pending' = Pending
  BY <1>0, FetchBase
<1>2. CASE ~ FetchTraps
  <2>1. /\ UNCHANGED <<flush_pipeline, pc_redirect_target, priv, mpp, mepc,
                       pending_priv_switch, last, next, saved>>
    BY <1>0, <1>2 DEF FetchKeeps, FetchDelivers
  <2>2. Returning'
    BY <1>0, <1>1, <2>1 DEF Returning, KindAt
  <2>3. Room' = Room
    BY <1>0, <1>1 DEF Room
  <2>4. Room <= Room'
    BY <2>3, RoomNat
  <2>5. flush_pipeline' => PrivOf(pc_redirect_target') = priv
    BY <1>0, <2>1 DEF Modes
  <2>6. Pending # Bubble => ~ flush_pipeline'
    BY <1>0, <2>1 DEF InOrder, Dispatching
  <2>7. Origin' = Origin
    BY <1>2, FlowFetch
  <2>8. Modes' /\ InOrder' /\ Fast'
    BY <1>0, <1>1, <2>1, <2>2, <2>4, <2>5, <2>6, <2>7, CoreSame, RoomNat
  <2> QED
    BY <1>0, <2>1, <2>8 DEF MachineStep
<1>3. CASE FetchTraps
  <2>1. /\ Pending = Bubble /\ ~ stall_ex /\ ~ stall_issue /\ id_issue_next = Bubble
        /\ fetch_id_next = Bubble
    <3>1. issue_ex_next = Bubble
      BY <1>0, <1>3 DEF FetchTraps, Remembered, NothingDropped
    <3>2. ~ stall_ex /\ ~ stall_issue
      BY <1>0, <1>3 DEF FetchTraps, Awake, CausesVisible, Late
    <3>3. Pending = Bubble
      BY <1>0, <3>1, <3>2 DEF Pending, Early
    <3>4. id_issue_next = Bubble /\ fetch_id_next = Bubble
      BY <1>0, <1>3, <3>2 DEF FetchTraps, Steady, Emptied, Delivery
    <3> QED
      BY <3>2, <3>3, <3>4
  <2>2. scoreboard.count = 0
    <3>1. Lean
      BY <1>0, <1>3 DEF FetchTraps, Orderly, Lean
    <3>2. Room = 0
      BY <1>0, <1>3, <2>1 DEF Room, One, FetchTraps
    <3>3. scoreboard.count <= 0 /\ scoreboard.count \in Nat
      BY <1>0, <3>1, <3>2, PendingFacts DEF Fast
    <3> QED
      BY <3>3
  <2>3. next = Origin
    BY <1>0, <2>1, <2>2 DEF InOrder, Dispatching, Leads
  <2>4. Origin = pcgen_fetch_next.pc
    <3>1. D1 = Bubble /\ D2 = Bubble /\ G = pcgen_fetch_next
      BY <1>0, <2>1 DEF D1, D2, G, Early, Decoding
    <3> QED
      BY <1>3, <2>1, <3>1 DEF FetchTraps, Origin, Begin, From, Leading
  <2>5. PrivOf(Origin) = priv
    BY OriginMode
  <2>6. ~ ("irq" \in program.events /\ pending_priv_switch)
    BY <1>0, <1>3 DEF Returning, FetchTraps
  <2>7. pcgen_fetch_next.pc \in PC
    BY <1>0, <1>3, LatchMembers DEF Base, FrontTypes, FetchTraps
  <2>8. Trapped
    BY <1>0, <1>1, <1>3, <2>1, <2>2, <2>3, <2>4, <2>5, <2>6, <2>7, PendingFacts
       DEF FetchTraps, Trapped
  <2> QED
    BY <2>6, <2>8, CoreTrap
<1> QED
  BY <1>2, <1>3

\* What the interrupt saves is the next instruction to retire.
LEMMA OldestIsNext ==
    ASSUME Inv, stage = "irq"
    PROVE  OldestPC = next /\ OldestPC \in PC
<1>0. /\ Base /\ InOrder /\ Steady /\ Awake /\ ~ flush_pipeline /\ FrontTypes /\ BackTypes
  BY DEF Inv, Known, Base, FlushEnds
<1>1. CASE scoreboard.count # 0
  <2>1. scoreboard.count > 0 /\ scoreboard.head \in 0 .. SIZE - 1
        /\ scoreboard.entries \in [0 .. SIZE - 1 -> BoardEntry(Tag, PC)]
    BY <1>1, PendingFacts, BoardMembers DEF RingOf, GoodBoard
  <2>2. OldestPC = scoreboard.entries[scoreboard.head].pc
    BY <1>1 DEF OldestPC, is_empty, get_head
  <2>3. scoreboard.entries[scoreboard.head].pc \in PC
    BY <2>1 DEF BoardEntry
  <2> QED
    BY <1>0, <2>1, <2>2, <2>3 DEF InOrder, Linked
<1>2. CASE scoreboard.count = 0
  <2>1. Pending = Bubble
    BY <1>2, PendingFacts
  <2>2. issue_ex_reg = Bubble
    BY <1>0, <2>1 DEF Pending, Early
  <2>3. next = Origin
    BY <1>0, <1>2, <2>1 DEF InOrder, Dispatching, Leads
  <2>4. D1 = id_issue_reg /\ D2 = fetch_id_reg /\ G = pcgen_fetch_next
    BY DEF D1, D2, G, Early, Decoding
  <2>5. /\ fetch_id_next = Bubble /\ pcgen_fetch_reg = pcgen_fetch_next
        /\ fetch_queue # <<>> => id_issue_reg # Bubble \/ fetch_id_reg # Bubble
    BY <1>0, <2>2 DEF Steady, Delivery, Emptied, Awake, PCGenAwake
  <2>6. Origin = Begin(id_issue_reg, fetch_id_reg, fetch_queue, Bubble, pcgen_fetch_reg, next_pc)
    BY <1>0, <2>4, <2>5 DEF Origin
  <2>7. OldestPC = OldestLatchPC
    BY <1>2 DEF OldestPC, is_empty
  <2>8. OldestLatchPC = Origin
    BY <2>2, <2>5, <2>6 DEF OldestLatchPC, Begin, From, Leading
  <2>9. OldestLatchPC \in PC
    BY <1>0, <2>2, LatchMembers DEF OldestLatchPC, FrontTypes
  <2> QED
    BY <2>3, <2>7, <2>8, <2>9
<1> QED
  BY <1>1, <1>2

LEMMA CoreIrq ==
    ASSUME Inv, cpu_process_IRQ PROVE Modes' /\ InOrder' /\ Fast' /\ MachineStep
<1>0. /\ stage = "irq" /\ stage' = "commit1" /\ program' = program /\ ~ flush_pipeline
      /\ Base /\ Returning /\ Modes /\ InOrder /\ Fast /\ issue_ex_reg' = issue_ex_reg
  BY DEF cpu_process_IRQ, Inv, Known, Fast, Base, FlushEnds, backLatches, latchVars
<1>1. CASE TakeInterrupt
  <2>1. /\ "irq" \in program.events /\ priv = "U" /\ mepc' = IrqEpc /\ mpp' = "U" /\ priv' = "M"
        /\ saved' = [pc |-> mepc', priv |-> "U"] /\ next' = HandlerPC /\ last' = last
        /\ flush_pipeline' /\ pc_redirect_target' = HandlerPC /\ ~ pending_priv_switch'
        /\ scoreboard' = flush(scoreboard)
    BY <1>1 DEF TakeInterrupt
  <2>2. GoodBoard(scoreboard', Tag, PC) /\ scoreboard'.count = 0
    BY <2>1, PendingFacts, FlushGood
  <2>3. Pending' = Bubble
    BY <1>0, <2>1 DEF Pending, Early
  <2>4. /\ IrqEpc \in PC /\ PrivOf(IrqEpc) = "U"
        /\ IF pending_priv_switch THEN IrqEpc = mepc ELSE IrqEpc = next
    <3>1. CASE pending_priv_switch
      BY <1>0, <3>1 DEF IrqEpc, Modes
    <3>2. CASE ~ pending_priv_switch
      <4>1. IrqEpc = next /\ next \in PC
        BY <1>0, <3>2, OldestIsNext DEF IrqEpc
      <4>2. CASE scoreboard.count # 0
        <5>1. /\ scoreboard.count > 0 /\ scoreboard.head \in 0 .. SIZE - 1
              /\ scoreboard.entries[scoreboard.head].valid
          BY <4>2, PendingFacts DEF RingOf
        <5>2. scoreboard.entries[scoreboard.head].pc = next
          BY <1>0, <5>1 DEF InOrder, Linked
        <5>3. PrivOf(scoreboard.entries[scoreboard.head].pc) = priv
          BY <1>0, <2>1, <3>2, <5>1 DEF Modes
        <5> QED
          BY <2>1, <3>2, <4>1, <5>2, <5>3
      <4>3. CASE scoreboard.count = 0
        <5>1. Pending = Bubble
          BY <4>3, PendingFacts
        <5>2. next = Origin
          BY <1>0, <4>3, <5>1 DEF InOrder, Dispatching, Leads
        <5> QED
          BY <2>1, <3>2, <4>1, <5>2, OriginMode
      <4> QED
        BY <4>2, <4>3
    <3> QED
      BY <3>1, <3>2
  <2>5. Trapped
    BY <1>0, <2>1, <2>2, <2>3, <2>4 DEF Trapped
  <2> QED
    BY <2>1, <2>4, <2>5, CoreTrap
<1>2. CASE NoInterrupt
  <2>1. UNCHANGED <<scoreboard, flush_pipeline, pc_redirect_target, priv, mpp, mepc,
                    pending_priv_switch, last, next, saved>>
    BY <1>2 DEF NoInterrupt, backVars, trapVars, flushVars, historyVars
  <2>2. Pending' = Pending
    BY <1>0, <2>1 DEF Pending, Early
  <2>3. Returning'
    BY <1>0, <2>1, <2>2 DEF Returning, KindAt
  <2>4. Room' = Room
    BY <1>0, <2>2 DEF Room
  <2>5. Room <= Room'
    BY <2>4, RoomNat
  <2>6. Origin' = Origin
    BY <2>1, FlowBackend
  <2>7. Modes' /\ InOrder' /\ Fast'
    BY <1>0, <2>1, <2>2, <2>3, <2>5, <2>6, CoreSame, RoomNat
  <2> QED
    BY <1>0, <2>1, <2>7 DEF MachineStep
<1> QED
  BY <1>1, <1>2 DEF cpu_process_IRQ

-----------------------------------------------------------------------------
(* Retirement. *)

\* The head leaves, by Commit or by Issue's drain.
Retires ==
    /\ Committed /\ GoodBoard(scoreboard', Tag, PC)
    /\ last' = [pc |-> get_head(scoreboard).pc, odd |-> ~ last.odd]
    /\ next' = get_head(scoreboard).next
    /\ UNCHANGED <<program, saved, priv, mpp, mepc, flush_pipeline, pc_redirect_target>>
    /\ Pending' = Pending /\ Origin' = Origin
    /\ IF stage = "drain"
       THEN UNCHANGED <<stage, pending_priv_switch, id_issue_reg>> /\ Room' = Room
       ELSE stage' # "drain" /\ ~ pending_priv_switch' /\ Room <= Room' + 1

LEMMA CoreRetire ==
    ASSUME Inv, Retires PROVE Modes' /\ InOrder' /\ Fast' /\ MachineStep
<1> DEFINE e == scoreboard.entries
           d == scoreboard'.entries
           h == scoreboard.head
           t == scoreboard.tail
           c == scoreboard.count
<1>0. Modes /\ InOrder /\ Fast /\ RingOf(e, h, t, c) /\ c \in Nat /\ c > 0
  BY PendingFacts DEF Inv, Retires, Committed
<1>1. h \in 0 .. SIZE - 1 /\ t \in 0 .. SIZE - 1 /\ e[h].valid /\ e[h].ready
  BY <1>0 DEF RingOf, Retires, Committed, head_ready, get_head
<1>2. \A i \in 0 .. SIZE - 1 :
         /\ d[i].pc = e[i].pc /\ d[i].next = e[i].next /\ d[i].ready = e[i].ready
         /\ d[i].is_store = e[i].is_store /\ (d[i].valid => e[i].valid)
  <2>1. e \in [0 .. SIZE - 1 -> BoardEntry(Tag, PC)] /\ d = [e EXCEPT ![h] = RetiredEntry(e[h])]
    BY PendingFacts, BoardMembers DEF GoodBoard, Retires, Committed
  <2>2. RetiredEntry(e[h]) = [e[h] EXCEPT !.valid = FALSE] /\ e[h] \in BoardEntry(Tag, PC)
    BY <1>1, <2>1 DEF RetiredEntry, WithValid
  <2> DEFINE n == RetiredEntry(e[h])
  <2>3. /\ n.pc = e[h].pc /\ n.next = e[h].next /\ n.ready = e[h].ready
        /\ n.is_store = e[h].is_store /\ n.valid = FALSE
    BY <2>2 DEF BoardEntry
  <2> HIDE DEF n, e, d, h
  <2> QED
    BY <1>1, <2>1, <2>3 DEF n
<1>3. SamePath(e, d)
  BY <1>2 DEF SamePath
<1>4. /\ scoreboard'.head = (h + 1) % SIZE /\ scoreboard'.tail = t /\ scoreboard'.count = c - 1
  BY DEF Retires, Committed
<1>5. /\ e[h].pc = next /\ Linked(d, (h + 1) % SIZE, t, c - 1, next')
      /\ \A a : Leads(e, t, c, next, a) => Leads(d, t, c - 1, next', a)
  <2>1. next' = e[h].next /\ Linked(e, h, t, c, next)
    BY <1>0 DEF Retires, get_head, InOrder
  <2> HIDE DEF e, d, h, t, c
  <2> QED
    BY <1>0, <1>3, <2>1, PathRetire
<1>6. Unresolved' = Unresolved /\ h # Unresolved
  <2>1. Unresolved' = Unresolved
    BY <1>4 DEF Unresolved, Refused, Retires
  <2>2. CASE stage = "drain"
    BY <1>0, <1>1, <2>1, <2>2 DEF Unresolved, InOrder, Dispatching
  <2>3. CASE stage # "drain"
    <3>1. Unresolved = Skipped(Pending)
      BY <2>3 DEF Unresolved
    <3>2. CASE Pending = Bubble
      BY <1>1, <2>1, <3>1, <3>2, PendingFacts
    <3>3. CASE Pending # Bubble
      BY <1>1, <2>1, <3>1, <3>3, PendingFacts
    <3> QED
      BY <3>2, <3>3
  <2> QED
    BY <2>2, <2>3
<1>7. Resolved(program, saved.pc, d, Unresolved')
  BY <1>0, <1>3, <1>6 DEF Resolved, SamePath, InOrder
<1>8. Dispatching'
  <2>1. CASE stage = "drain"
    <3>1. /\ Refused' = Refused /\ Refused \in 0 .. SIZE - 1 /\ stage' = "drain"
          /\ id_issue_reg' = id_issue_reg /\ program' = program /\ priv' = priv
      BY <1>1, <1>4, <2>1, YoungestSlot DEF Refused, Retires
    <3>2. /\ e[Refused].pc = id_issue_reg.pc /\ ~ e[Refused].ready
          /\ KindAt(id_issue_reg.pc) = "ILLEGAL" /\ PrivOf(id_issue_reg.pc) = priv
      BY <1>0, <2>1 DEF InOrder, Dispatching
    <3>3. c # 1
      <4>1. h # Youngest(t)
        BY <1>1, <3>2 DEF Refused
      <4> HIDE DEF e, d, h, t, c
      <4> QED
        BY <1>0, <4>1, OneEntry DEF RingOf
    <3>4. c - 1 > 0
      BY <1>0, <3>3
    <3>5. d[Refused].pc = e[Refused].pc /\ d[Refused].ready = e[Refused].ready
      BY <1>2, <3>1
    <3> QED
      BY <1>4, <3>1, <3>2, <3>4, <3>5 DEF Dispatching, KindAt
  <2>2. CASE stage # "drain" /\ Pending = Bubble
    <3>1. Leads(e, t, c, next, Origin)
      BY <1>0, <2>2 DEF InOrder, Dispatching
    <3>2. Leads(d, t, c - 1, next', Origin')
      BY <1>5, <3>1 DEF Retires
    <3> QED
      BY <1>4, <2>2, <3>2 DEF Dispatching, Retires
  <2>3. CASE stage # "drain" /\ Pending # Bubble
    <3>1. /\ ~ flush_pipeline /\ e[Pending.rob_index].pc = Pending.pc
          /\ PrivOf(Pending.pc) = priv /\ Goes(program, Pending) = Origin
          /\ Pending.predicted # NotTaken => KindAt(Pending.pc) = "BRANCH"
      BY <1>0, <2>3 DEF InOrder, Dispatching
    <3>2. d[Pending.rob_index].pc = e[Pending.rob_index].pc
      BY <1>2, <2>3, PendingFacts
    <3>3. /\ stage' # "drain" /\ Pending' = Pending /\ Origin' = Origin /\ program' = program
          /\ priv' = priv /\ flush_pipeline' = flush_pipeline
      BY <2>3 DEF Retires
    <3> QED
      BY <2>3, <3>1, <3>2, <3>3 DEF Dispatching, KindAt
  <2> QED
    BY <2>1, <2>2, <2>3
<1>9. InOrder'
  <2>1. program' = program /\ saved' = saved
    BY DEF Retires
  <2> QED
    BY <1>4, <1>5, <1>7, <1>8, <2>1 DEF InOrder
<1>10. "irq" \in program.events /\ pending_priv_switch =>
         c = 1 /\ stage \in {"issue", "id", "fetch", "pcgen", "latch", "irq", "commit1"}
  BY <1>0 DEF Fast, Returning
<1>11. Modes'
  <2>1. ASSUME "irq" \in program.events, ~ pending_priv_switch', NEW i \in 0 .. SIZE - 1, d[i].valid
        PROVE  PrivOf(d[i].pc) = priv
    <3>1. CASE pending_priv_switch
      <4>1. scoreboard'.count = 0
        BY <1>4, <1>10, <2>1, <3>1
      <4>2. ~ d[i].valid
        BY <4>1, NoEntries DEF Retires
      <4> QED
        BY <2>1, <4>2
    <3>2. CASE ~ pending_priv_switch
      BY <1>0, <1>2, <2>1, <3>2 DEF Modes
    <3> QED
      BY <3>1, <3>2
  <2> QED
    BY <1>0, <2>1 DEF Modes, Retires
<1>12. Fast'
  <2>1. ~ (program.events = program.events /\ "irq" \in program.events /\ pending_priv_switch')
    BY <1>10 DEF Retires
  <2>2. Returning'
    BY <2>1 DEF Returning, Retires
  <2>3. Lean' => Lean
    BY <2>1 DEF Lean, Retires
  <2>4. Ready => Ready'
    BY <1>2, <1>6 DEF Ready
  <2>5. Lean' => scoreboard'.count <= Room'
    <3>1. Lean' => c <= Room
      BY <1>0, <2>3 DEF Fast
    <3> DEFINE r == Room
               q == Room'
    <3>2. r \in Nat /\ q \in Nat /\ (q = r \/ r <= q + 1) /\ c \in Nat
      BY <1>0, RoomNat DEF Retires
    <3> HIDE DEF c, r, q
    <3>3. c <= r => c - 1 <= q
      BY <3>2
    <3> QED
      BY <1>4, <3>1, <3>3 DEF r, q
  <2> QED
    BY <1>0, <2>2, <2>3, <2>4, <2>5 DEF Fast
<1>13. MachineStep
  <2>1. last' = [pc |-> next, odd |-> ~ last.odd] /\ program' = program /\ saved' = saved
    BY <1>5 DEF Retires, get_head
  <2>2. next' \in Succ(program, saved.pc, next)
    <3>1. e[h].next \in Succ(program, saved.pc, e[h].pc)
      BY <1>0, <1>1, <1>6 DEF InOrder, Resolved
    <3> QED
      BY <1>5, <3>1 DEF Retires, get_head
  <2>3. next' \in Sequential!Successors(next)
    BY <2>2, SameCode DEF Succ, Sequential!Successors
  <2>4. Sequential!Retire
    BY <2>1, <2>3 DEF Sequential!Retire
  <2> QED
    BY <2>4 DEF MachineStep, Sequential!Next
<1> QED
  BY <1>9, <1>11, <1>12, <1>13

LEMMA CoreCommit ==
    ASSUME Inv, Commit_stage PROVE Modes' /\ InOrder' /\ Fast' /\ MachineStep
<1>0. /\ stage \in {"commit1", "commit2"} /\ stage' \in {"commit2", "ex"} /\ Base /\ Returning
      /\ Modes /\ InOrder /\ Fast /\ BackTypes
      /\ UNCHANGED <<program, priv, mpp, mepc, flush_pipeline, pc_redirect_target, issue_ex_reg>>
  BY DEF Commit_stage, Inv, Known, Base, Fast, flushVars, backLatches, latchVars
<1>1. Pending' = Pending /\ GoodBoard(scoreboard', Tag, PC)
  BY <1>0, CommitBase DEF Base, BackTypes
<1>2. Origin' = Origin
  BY <1>0, FlowBackend
<1> DEFINE p == One(Pending # Bubble)
<1>3. Room' = p /\ p \in {0, 1}
  BY <1>0, <1>1 DEF Room, One, Commit_stage
<1>4. PICK c \in {Drained, committed_stores} :
         \/ CommitPort(c) /\ (stage = "commit1" => stage' = "commit2")
         \/ PortBlocked(c) /\ stage' = "ex"
  BY DEF Commit_stage
<1>5. CASE CommitPort(c)
  <2>1. c \in 0 .. COMMIT_DEPTH
    BY <1>0, <1>4, Constants DEF Drained, BackTypes
  <2>2. Committed
    BY <1>0, <1>5, <2>1, PortBase
  <2>3. /\ last' = [pc |-> get_head(scoreboard).pc, odd |-> ~ last.odd]
        /\ next' = get_head(scoreboard).next /\ saved' = saved
        /\ ~ pending_priv_switch'
    BY <1>5 DEF CommitPort, RetireHead
  <2>4. Room <= Room' + 1
    <3>1. Room = 1 + p \/ Room = p
      BY <1>0 DEF Room
    <3> HIDE DEF p
    <3> QED
      BY <1>3, <3>1
  <2>5. Retires
    BY <1>0, <1>1, <1>2, <2>2, <2>3, <2>4 DEF Retires
  <2> QED
    BY <2>5, CoreRetire
<1>6. CASE PortBlocked(c) /\ stage' = "ex"
  <2> DEFINE e == scoreboard.entries
             h == scoreboard.head
             t == scoreboard.tail
             k == scoreboard.count
  <2>1. /\ UNCHANGED <<scoreboard, pending_priv_switch, last, next, saved>>
        /\ ~ head_ready(scoreboard) \/ get_head(scoreboard).is_store
    BY <1>6 DEF PortBlocked, historyVars
  <2>2. ASSUME Lean PROVE k = 0 \/ (k = 1 /\ Pending # Bubble)
    <3>1. CASE k = 0
      BY <3>1
    <3>2. CASE k # 0
      <4>1. k > 0 /\ h \in 0 .. SIZE - 1 /\ e[h].valid
        BY <3>2, PendingFacts DEF RingOf
      <4>2. ~ e[h].is_store /\ (h # Unresolved => e[h].ready)
        BY <1>0, <2>2, <4>1 DEF Fast, Ready
      <4>3. h = Unresolved /\ Unresolved = Skipped(Pending)
        BY <1>0, <2>1, <4>1, <4>2 DEF head_ready, get_head, Unresolved
      <4>4. Pending # Bubble /\ h = Youngest(t)
        BY <4>1, <4>3, PendingFacts
      <4>5. RingOf(e, h, t, k)
        BY PendingFacts
      <4> HIDE DEF e, h, t, k
      <4>6. k = 1
        BY <4>1, <4>4, <4>5, OneEntry DEF RingOf
      <4> QED
        BY <4>4, <4>6
    <3> QED
      BY <3>1, <3>2
  <2>3. Lean => scoreboard.count <= Room'
    <3>1. Pending # Bubble => p = 1
      BY DEF One
    <3> HIDE DEF p
    <3> QED
      BY <1>3, <2>2, <3>1
  <2>4. ~ ("irq" \in program.events /\ pending_priv_switch)
    <3> SUFFICES ASSUME "irq" \in program.events /\ pending_priv_switch PROVE FALSE
      OBVIOUS
    <3>1. k = 1 /\ Pending = Bubble
      BY <1>0 DEF Returning
    <3>2. Lean
      BY DEF Lean
    <3> QED
      BY <2>2, <3>1, <3>2
  <2>5. Returning'
    BY <1>0, <2>1, <2>4 DEF Returning
  <2>6. flush_pipeline' => PrivOf(pc_redirect_target') = priv
    BY <1>0 DEF Modes
  <2>7. Pending # Bubble => ~ flush_pipeline'
    BY <1>0 DEF InOrder, Dispatching
  <2>8. Modes' /\ InOrder' /\ Fast'
    BY <1>0, <1>1, <1>2, <2>1, <2>3, <2>5, <2>6, <2>7, CoreKept
  <2> QED
    BY <1>0, <2>1, <2>8 DEF MachineStep
<1> QED
  BY <1>4, <1>5, <1>6

LEMMA CoreDrain ==
    ASSUME Inv, Issue_illegal PROVE Modes' /\ InOrder' /\ Fast' /\ MachineStep
<1>0. /\ stage = "drain" /\ program' = program /\ Base /\ Modes /\ InOrder /\ Fast /\ BackTypes
      /\ Returning /\ Orderly(program)
      /\ UNCHANGED <<id_issue_reg, issue_ex_reg, stall_ex>>
  BY DEF Issue_illegal, Inv, Known, Base, Fast, backLatches, latchVars
<1>1. /\ Pending' = Bubble /\ Pending = Bubble /\ GoodBoard(scoreboard', Tag, PC)
  BY <1>0, DrainBase DEF Base, BackTypes
<1>2. CASE DrainReady
  <2>1. /\ stage' = "drain"
        /\ last' = [pc |-> get_head(scoreboard).pc, odd |-> ~ last.odd]
        /\ next' = get_head(scoreboard).next
        /\ UNCHANGED <<saved, priv, mpp, mepc, pending_priv_switch, flush_pipeline, pc_redirect_target>>
    BY <1>2 DEF DrainReady, flushVars, trapVars
  <2>2. Committed /\ Origin' = Origin
    BY <1>0, <2>1, DrainBase, FlowDrain
  <2>3. Room' = Room
    BY <1>0, <2>1 DEF Room
  <2>4. Retires
    BY <1>0, <1>1, <2>1, <2>2, <2>3 DEF Retires
  <2> QED
    BY <2>4, CoreRetire
<1>3. CASE IllegalTrap
  <2> DEFINE e == scoreboard.entries
             h == scoreboard.head
             a == id_issue_reg.pc
  <2>1. /\ ~ head_ready(scoreboard) /\ stage' = "id" /\ last' = last
        /\ mepc' = a /\ mpp' = priv /\ priv' = "M" /\ scoreboard' = flush(scoreboard)
        /\ saved' = [pc |-> a, priv |-> priv] /\ next' = HandlerPC
        /\ flush_pipeline' /\ pc_redirect_target' = HandlerPC
        /\ pending_priv_switch' = pending_priv_switch
    BY <1>3 DEF IllegalTrap, RedirectTo
  <2>2. /\ scoreboard.count > 0 /\ e[Refused].pc = a /\ KindAt(a) = "ILLEGAL" /\ PrivOf(a) = priv
    BY <1>0 DEF InOrder, Dispatching
  <2>3. a \in PC
    BY <1>0, LatchMembers DEF Base, FlushEnds, FrontTypes
  <2>4. Quick(program) /\ priv = "U"
    BY <1>0, <2>2, <2>3 DEF Orderly, ModesRespected, KindAt
  <2>5. h \in 0 .. SIZE - 1 /\ e[h].valid
    BY <2>2, PendingFacts DEF RingOf
  <2>6. h = Refused
    <3>1. Ready /\ Unresolved = Refused
      BY <1>0, <2>4 DEF Fast, Lean, Unresolved
    <3>2. h # Refused => e[h].ready
      BY <2>5, <3>1 DEF Ready
    <3> QED
      BY <2>1, <2>2, <2>5, <3>2 DEF head_ready, get_head
  <2>7. next = a
    BY <1>0, <2>2, <2>6 DEF InOrder, Linked
  <2>8. scoreboard'.count = 0
    BY <2>1, PendingFacts, FlushGood
  <2>9. ~ ("irq" \in program.events /\ pending_priv_switch)
    BY <1>0 DEF Returning
  <2>10. Trapped
    BY <1>0, <1>1, <2>1, <2>2, <2>3, <2>4, <2>7, <2>8, <2>9 DEF Trapped
  <2> QED
    BY <2>9, <2>10, CoreTrap
<1> QED
  BY <1>2, <1>3 DEF Issue_illegal

-----------------------------------------------------------------------------
(* EX. *)

\* The ticks of the functional units leave the path alone.
LEMMA TickedPath ==
    ASSUME Inv, stage = "ex"
    PROVE  LET s == TickedScoreboard
           IN  /\ GoodBoard(s, Tag, PC)
               /\ s.head = scoreboard.head /\ s.tail = scoreboard.tail
               /\ s.count = scoreboard.count
               /\ Linked(s.entries, s.head, s.tail, s.count, next)
               /\ Resolved(program, saved.pc, s.entries, Skipped(Pending))
               /\ Pending = Bubble => Leads(s.entries, s.tail, s.count, next, Origin)
               /\ \A i \in 0 .. SIZE - 1 :
                     /\ s.entries[i].valid = scoreboard.entries[i].valid
                     /\ s.entries[i].pc = scoreboard.entries[i].pc
                     /\ Lean /\ s.entries[i].valid =>
                           /\ ~ s.entries[i].is_store
                           /\ i # Skipped(Pending) => s.entries[i].ready
<1> DEFINE e == scoreboard.entries
           d == TickedScoreboard.entries
           h == scoreboard.head
           t == scoreboard.tail
           c == scoreboard.count
           b == Skipped(Pending)
           r == saved.pc
<1>0. BackTypes /\ InOrder /\ Fast
  BY PendingFacts DEF Inv
<1>1. /\ GoodBoard(TickedScoreboard, Tag, PC)
      /\ TickedScoreboard.head = h /\ TickedScoreboard.tail = t /\ TickedScoreboard.count = c
  BY <1>0, TicksBoard
<1>2. SamePath(e, d) /\ h \in 0 .. SIZE - 1 /\ t \in 0 .. SIZE - 1
  BY <1>0, TicksKeepPath, PendingFacts DEF RingOf
<1>3. /\ Linked(e, h, t, c, next) /\ Resolved(program, r, e, b)
      /\ Pending = Bubble => Leads(e, t, c, next, Origin)
  BY <1>0 DEF InOrder, Unresolved, Dispatching
<1>4. \A i \in 0 .. SIZE - 1 :
         /\ d[i].valid = e[i].valid /\ d[i].is_store = e[i].is_store
         /\ e[i].ready => d[i].ready
  BY <1>0, TicksKeepPath
<1>5. Lean => \A i \in 0 .. SIZE - 1 : e[i].valid => ~ e[i].is_store /\ (i # b => e[i].ready)
  BY <1>0 DEF Fast, Ready, Unresolved
<1> HIDE DEF e, d, h, t, c, b, r
<1>6. /\ Linked(d, h, t, c, next) /\ Resolved(program, r, d, b)
      /\ Pending = Bubble => Leads(d, t, c, next, Origin)
  BY <1>2, <1>3, PathSame
<1>7. \A i \in 0 .. SIZE - 1 :
         /\ d[i].valid = e[i].valid /\ d[i].pc = e[i].pc
         /\ Lean /\ d[i].valid => ~ d[i].is_store /\ (i # b => d[i].ready)
  BY <1>2, <1>4, <1>5 DEF SamePath
<1> QED
  BY <1>1, <1>6, <1>7 DEF e, d, h, t, c, b, r

\* EX has nothing to do, or sends its instruction back.
LEMMA CoreExIdle ==
    ASSUME Inv, EX_stage, scoreboard' = TickedScoreboard, Pending' = Pending,
           UNCHANGED <<flush_pipeline, pc_redirect_target, priv, mpp, mepc,
                       pending_priv_switch, last, next, saved>>
    PROVE  Modes' /\ InOrder' /\ Fast' /\ MachineStep
<1>0. /\ stage = "ex" /\ stage' = "issue" /\ program' = program /\ issue_ex_reg' = issue_ex_reg
      /\ Modes /\ InOrder /\ Fast /\ Returning /\ Base
  BY DEF EX_stage, Inv, Known, Fast, backLatches, latchVars
<1>1. Origin' = Origin
  BY FlowBackend
<1>2. Modes'
  BY <1>0, TickedPath DEF Modes
<1>3. Unresolved' = Skipped(Pending)
  BY <1>0 DEF Unresolved
<1>4. Dispatching'
  <2>1. CASE Pending = Bubble
    BY <1>0, <1>1, <2>1, TickedPath DEF Dispatching
  <2>2. CASE Pending # Bubble
    <3>1. /\ ~ flush_pipeline
          /\ scoreboard.entries[Pending.rob_index].pc = Pending.pc
          /\ PrivOf(Pending.pc) = priv /\ Goes(program, Pending) = Origin
          /\ Pending.predicted # NotTaken => KindAt(Pending.pc) = "BRANCH"
      BY <1>0, <2>2 DEF InOrder, Dispatching
    <3>2. scoreboard'.entries[Pending.rob_index].pc = Pending.pc
      BY <1>0, <2>2, <3>1, TickedPath, PendingFacts
    <3> QED
      BY <1>0, <1>1, <2>2, <3>1, <3>2 DEF Dispatching, KindAt
  <2> QED
    BY <2>1, <2>2
<1>5. InOrder'
  BY <1>0, <1>3, <1>4, TickedPath DEF InOrder
<1>6. Lean' => Lean
  BY <1>0 DEF Lean
<1>7. Lean => Ready'
  BY <1>0, <1>3, TickedPath DEF Ready
<1>8. Lean => scoreboard'.count <= Room'
  <2> DEFINE p == One(Pending # Bubble)
             x == One(issue_ex_reg # Bubble)
  <2>1. Room = p /\ Room' = x
    BY <1>0 DEF Room
  <2>2. p \in {0, 1} /\ x \in {0, 1} /\ p <= x
    BY <1>0 DEF One, Pending, Early
  <2>3. scoreboard'.count = scoreboard.count /\ scoreboard.count \in Nat
    BY <1>0, TickedPath, PendingFacts
  <2>4. Lean => scoreboard.count <= Room
    BY <1>0 DEF Fast
  <2> HIDE DEF p, x
  <2> QED
    BY <2>1, <2>2, <2>3, <2>4
<1>9. Returning'
  BY <1>0 DEF Returning
<1> QED
  BY <1>0, <1>2, <1>5, <1>6, <1>7, <1>8, <1>9 DEF Fast, MachineStep

LEMMA CoreExExcepts ==
    ASSUME Inv, EX_stage, ExRuns, Pending = issue_ex_reg, Pending' = Bubble,
           ExExcepts(TickedScoreboard)
    PROVE  Modes' /\ InOrder' /\ Fast' /\ MachineStep
<1> DEFINE s == TickedScoreboard
           a == issue_ex_reg.pc
<1>0. /\ stage = "ex" /\ stage' = "issue" /\ program' = program
      /\ Modes /\ InOrder /\ Fast /\ Returning /\ Orderly(program) /\ issue_ex_reg # Bubble
      /\ issue_ex_reg \in ExInstr
  BY DEF EX_stage, Inv, Known, Fast, ExRuns, ExInstr, Bubble
<1>1. /\ a \in PC /\ scoreboard.count > 0 /\ scoreboard.count \in Nat
      /\ scoreboard.entries[issue_ex_reg.rob_index].pc = a /\ PrivOf(a) = priv
  BY <1>0, PendingFacts DEF InOrder, Dispatching
<1>2. GoodBoard(s, Tag, PC) /\ s.head = scoreboard.head /\ s.count = scoreboard.count
  BY <1>0, TickedPath
<1>3. scoreboard.head = issue_ex_reg.rob_index
  BY <1>1, <1>2 DEF ExExcepts, has_unready_older, is_empty
<1>4. next = a
  BY <1>0, <1>1, <1>3 DEF InOrder, Linked
<1>5. priv = "U"
  BY <1>0, <1>1 DEF ExExcepts, Orderly, ModesRespected, KindAt
<1>6. GoodBoard(scoreboard', Tag, PC) /\ scoreboard'.count = 0
  BY <1>2, FlushGood DEF ExExcepts
<1>7. ~ ("irq" \in program.events /\ pending_priv_switch)
  BY <1>0 DEF Returning
<1>8. Trapped
  BY <1>0, <1>1, <1>4, <1>5, <1>6, <1>7 DEF Trapped, ExExcepts
<1> QED
  BY <1>7, <1>8, CoreTrap

LEMMA CoreExExecutes ==
    ASSUME Inv, EX_stage, ExRuns, Pending = issue_ex_reg, Pending' = Bubble,
           ExExecutes(TickedScoreboard)
    PROVE  Modes' /\ InOrder' /\ Fast' /\ MachineStep
<1> DEFINE a == issue_ex_reg.pc
           b == issue_ex_reg.rob_index
           e == TickedScoreboard.entries
           d == scoreboard'.entries
           h == scoreboard.head
           t == scoreboard.tail
           c == scoreboard.count
           x == d[b].next
           k == program.code[a].kind
<1>0. /\ stage = "ex" /\ stage' = "issue" /\ program' = program /\ issue_ex_reg' = issue_ex_reg
      /\ Modes /\ InOrder /\ Fast /\ Returning /\ Orderly(program) /\ issue_ex_reg # Bubble
      /\ issue_ex_reg \in ExInstr /\ ~ flush_pipeline /\ prev_cycle_flush' = flush_pipeline'
  BY DEF EX_stage, Inv, Known, Fast, ExRuns, ExInstr, Bubble, backLatches, latchVars
<1>1. /\ b \in 0 .. SIZE - 1 /\ b = Youngest(t) /\ c > 0 /\ c \in Nat
      /\ RingOf(scoreboard.entries, h, t, c)
      /\ a \in PC /\ program \in Programs /\ Skipped(Pending) = b /\ SIZE \notin 0 .. SIZE - 1
      /\ scoreboard.entries[b].valid
  BY <1>0, Constants, PendingFacts
<1>2. /\ scoreboard.entries[b].pc = a /\ PrivOf(a) = priv /\ Goes(program, issue_ex_reg) = Origin
  BY <1>0 DEF InOrder, Dispatching
<1>3. /\ Linked(e, h, t, c, next) /\ Resolved(program, saved.pc, e, b)
      /\ \A i \in 0 .. SIZE - 1 :
            /\ e[i].valid = scoreboard.entries[i].valid
            /\ e[i].pc = scoreboard.entries[i].pc
            /\ Lean /\ e[i].valid => ~ e[i].is_store /\ (i # b => e[i].ready)
  BY <1>0, <1>1, TickedPath
<1>4. /\ scoreboard'.head = h /\ scoreboard'.tail = t /\ scoreboard'.count = c
      /\ \A i \in 0 .. SIZE - 1 : i # b => d[i] = e[i]
      /\ d[b].pc = a /\ d[b].is_store = e[b].is_store /\ e[b].valid
  BY <1>0, <1>1, <1>2, <1>3, TickedPath DEF ExExecutes, Kept
<1>5. /\ ExSends(x) /\ (Swift(k) => d[b].ready)
      /\ UNCHANGED <<mepc, last, next, saved>>
  BY DEF ExExecutes, KindAt
<1>6. Linked(d, h, t, c, next) /\ Leads(d, t, c, next, x)
  <2>1. h \in 0 .. SIZE - 1 /\ t \in 0 .. SIZE - 1 /\ d[b].pc = e[b].pc
    BY <1>1, <1>2, <1>3, <1>4 DEF RingOf
  <2>2. /\ Linked(e, h, t, c, next) /\ b = Youngest(t) /\ c > 0 /\ c \in Nat
        /\ \A i \in 0 .. SIZE - 1 : i # b => d[i] = e[i]
    BY <1>1, <1>3, <1>4
  <2> HIDE DEF b, d, e, h, t, c
  <2> QED
    BY <2>1, <2>2, PathResolve
<1>7. Origin' = x
  <2>1. CASE flush_pipeline'
    BY <1>0, <1>5, <2>1 DEF Origin, ExSends
  <2>2. CASE ~ flush_pipeline'
    <3>1. /\ UNCHANGED <<flush_pipeline, pc_redirect_target, priv>>
          /\ x = Goes(program, issue_ex_reg)
      BY <1>5, <2>2 DEF ExSends
    <3> QED
      BY <1>2, <3>1, FlowBackend
  <2> QED
    BY <2>1, <2>2
<1>8. x \in Succ(program, saved.pc, a) /\ PrivOf(x) = priv'
  <2>1. mepc = saved.pc /\ PrivOf(mepc) = "U" /\ mpp = "U"
    BY <1>0 DEF Modes
  <2>2. CASE k = "MRET"
    BY <1>5, <2>1, <2>2 DEF ExSends, Succ, KindAt
  <2>3. CASE k # "MRET"
    <3>1. x \in Succ(program, saved.pc, a) /\ priv' = priv
      BY <1>5, <2>1, <2>3 DEF ExSends, KindAt
    <3>2. x \in {Following(program, a)} \/ (k = "BRANCH" /\ x = program.code[a].target)
      BY <2>3, <3>1 DEF Succ
    <3>3. PrivOf(x) = PrivOf(a)
      BY <1>0, <1>1, <3>2, PathAddresses DEF Orderly
    <3> QED
      BY <1>2, <3>1, <3>3
  <2> QED
    BY <2>2, <2>3
<1>9. InOrder'
  <2>1. Unresolved' = SIZE
    BY <1>0 DEF Unresolved, Skipped
  <2>2. Dispatching'
    BY <1>0, <1>4, <1>5, <1>6, <1>7 DEF Dispatching
  <2>3. Resolved(program, saved.pc, d, SIZE)
    <3> SUFFICES ASSUME NEW i \in 0 .. SIZE - 1, d[i].valid
                 PROVE  d[i].next \in Succ(program, saved.pc, d[i].pc)
      BY DEF Resolved
    <3>1. CASE i = b
      BY <1>4, <1>8, <3>1
    <3>2. CASE i # b
      BY <1>3, <1>4, <3>2 DEF Resolved
    <3> QED
      BY <3>1, <3>2
  <2> QED
    BY <1>0, <1>4, <1>5, <1>6, <2>1, <2>2, <2>3 DEF InOrder
<1>10. ~ ("irq" \in program.events /\ pending_priv_switch)
  BY <1>0 DEF Returning
<1>11. k = "MRET" => priv = "M"
  BY <1>0, <1>1, <1>2 DEF Orderly, ModesRespected
<1>12. Modes'
  <2>1. flush_pipeline' => PrivOf(pc_redirect_target') = priv'
    BY <1>0, <1>5, <1>8 DEF ExSends
  <2>2. priv' \in {"U", "M"} /\ mpp' = "U"
    BY <1>0, <1>5 DEF ExSends, Modes
  <2>3. ASSUME "irq" \in program'.events, ~ pending_priv_switch', NEW i \in 0 .. SIZE - 1, d[i].valid
        PROVE  PrivOf(d[i].pc) = priv'
    <3>1. priv' = priv /\ ~ pending_priv_switch
      BY <1>5, <1>10, <2>3, <1>0 DEF ExSends
    <3>2. scoreboard.entries[i].valid /\ d[i].pc = scoreboard.entries[i].pc
      BY <1>1, <1>2, <1>3, <1>4, <2>3
    <3> QED
      BY <1>0, <2>3, <3>1, <3>2 DEF Modes
  <2> QED
    BY <1>0, <1>5, <2>1, <2>2, <2>3 DEF Modes
<1>13. Lean' => Lean
  BY <1>0, <1>5, <1>11 DEF Lean, ExSends, KindAt, Modes
<1>14. Lean => Swift(k)
  BY <1>0, <1>1, <1>2, <1>10 DEF Lean, Quick, Orderly
<1>15. Lean => Ready'
  <2> SUFFICES ASSUME Lean, NEW i \in 0 .. SIZE - 1, d[i].valid
               PROVE  ~ d[i].is_store /\ d[i].ready
    BY DEF Ready
  <2>1. CASE i = b
    BY <1>1, <1>3, <1>4, <1>5, <1>14, <2>1
  <2>2. CASE i # b
    BY <1>3, <1>4, <2>2
  <2> QED
    BY <2>1, <2>2
<1>16. Lean => c = 1
  <2>1. Room = 1
    BY <1>0 DEF Room, One
  <2>2. Lean => c <= 1
    BY <1>0, <2>1 DEF Fast
  <2> QED
    BY <1>1, <2>2
<1>17. Lean => scoreboard'.count <= Room'
  <2>1. Room' = 1
    BY <1>0 DEF Room, One
  <2> QED
    BY <1>4, <1>16, <2>1
<1>18. Returning'
  <2> SUFFICES ASSUME "irq" \in program'.events, pending_priv_switch' PROVE Returning'
    BY DEF Returning
  <2>1. k = "MRET" /\ flush_pipeline'
    BY <1>0, <1>5, <1>10 DEF ExSends, KindAt
  <2>2. Lean
    BY <1>0, <1>11, <2>1 DEF Lean
  <2>3. h = b
    <3>1. c = 1
      BY <1>16, <2>2
    <3> HIDE DEF h, b, c, t
    <3> QED
      BY <1>1, <3>1, OneEntry DEF RingOf
  <2> QED
    BY <1>0, <1>4, <1>16, <2>1, <2>2, <2>3 DEF Returning, KindAt
<1> QED
  BY <1>0, <1>5, <1>9, <1>12, <1>13, <1>15, <1>17, <1>18 DEF Fast, MachineStep

LEMMA CoreEx ==
    ASSUME Inv, EX_stage PROVE Flow' /\ Modes' /\ InOrder' /\ Fast' /\ MachineStep
<1>1. CASE /\ ExIdles /\ Pending = Bubble /\ Pending' = Bubble
           /\ UNCHANGED <<flush_pipeline, pc_redirect_target, wfi_stall, priv, mpp, mepc,
                          pending_priv_switch, last, next, saved>>
  BY <1>1, CoreExIdle, FlowBackend DEF ExIdles
<1>2. CASE /\ ExRuns /\ issue_ex_reg # Bubble /\ Pending = issue_ex_reg
           /\ Pending' = IF stall_ex' THEN issue_ex_reg ELSE Bubble
           /\ ExMoves(TickedScoreboard)
  <2>1. CASE ExWaits(TickedScoreboard)
    BY <1>2, <2>1, CoreExIdle, FlowBackend DEF ExWaits
  <2>2. CASE ExExcepts(TickedScoreboard)
    <3>1. Pending' = Bubble /\ flush_pipeline'
      BY <1>2, <2>2 DEF ExExcepts
    <3> QED
      BY <1>2, <2>2, <3>1, CoreExExcepts, FlowBackend
  <2>3. CASE ExExecutes(TickedScoreboard)
    <3>1. Pending' = Bubble /\ ~ flush_pipeline
      BY <1>2, <2>3 DEF ExExecutes, ExRuns
    <3>2. flush_pipeline' \/ UNCHANGED <<flush_pipeline, pc_redirect_target, priv>>
      BY <2>3 DEF ExExecutes, ExSends
    <3> QED
      BY <1>2, <2>3, <3>1, <3>2, CoreExExecutes, FlowBackend
  <2> QED
    BY <1>2, <2>1, <2>2, <2>3 DEF ExMoves
<1> QED
  BY <1>1, <1>2, ExCases

-----------------------------------------------------------------------------
(* Issue. *)

LEMMA CoreDispatch ==
    ASSUME Inv, Issue_stage, Dispatched
    PROVE  Modes' /\ InOrder' /\ Fast' /\ MachineStep
<1> DEFINE a == id_issue_reg.pc
           k == program.code[a].kind
           m == [pc |-> a, fp |-> FALSE, is_store |-> k = "STORE"]
           l == [pc |-> a, predicted |-> id_issue_reg.predicted, rob_index |-> scoreboard.tail]
           e == scoreboard.entries
           d == scoreboard'.entries
           h == scoreboard.head
           t == scoreboard.tail
           c == scoreboard.count
<1>0. /\ stage = "issue" /\ ~ flush_pipeline /\ ~ stall_ex /\ id_issue_reg # Bubble
      /\ Modes /\ InOrder /\ Fast /\ Returning /\ Orderly(program)
      /\ UNCHANGED <<program, id_issue_reg, issue_ex_reg, stall_ex, flush_pipeline,
                     pc_redirect_target, priv, mpp, mepc, pending_priv_switch, last, next, saved>>
  BY DEF Issue_stage, Dispatched, Inv, Known, Fast, latchVars, flushVars, trapVars, historyVars
<1>1. stage' = IF k = "ILLEGAL" THEN "drain" ELSE "id"
  BY DEF Issue_stage, IssueInstruction, Dispatched, Dispatch, Held, KindAt
<1>2. /\ scoreboard' = allocate(scoreboard, m)
      /\ issue_ex_next' = IF k = "ILLEGAL" THEN Bubble ELSE l
  BY DEF Dispatched, Dispatch, KindAt
<1>3. /\ Origin = a /\ Origin' = Goes(program, id_issue_reg) /\ PrivOf(a) = priv
      /\ id_issue_reg.predicted # NotTaken => k = "BRANCH"
      /\ id_issue_reg \in Instr /\ a \in PC
  BY FlowIssue DEF Local, Instr
<1>4. Pending = Bubble /\ Pending' = issue_ex_next'
  BY <1>0, <1>1 DEF Pending, Early
<1>5. /\ RingOf(e, h, t, c) /\ GoodBoard(scoreboard, Tag, PC) /\ ~ is_full(scoreboard)
      /\ t \in 0 .. SIZE - 1 /\ c \in Nat /\ c < SIZE
  <2>1. /\ RingOf(e, h, t, c) /\ GoodBoard(scoreboard, Tag, PC) /\ ~ is_full(scoreboard)
        /\ c \in Nat
    BY PendingFacts DEF Dispatched, Hazard
  <2>2. c # SIZE /\ c \in 0 .. SIZE /\ t \in 0 .. SIZE - 1 /\ SIZE \in Nat
    BY <2>1, Constants DEF RingOf, is_full
  <2> QED
    BY <2>1, <2>2
<1>6. m \in Metadata(PC) /\ Zero \in Tag /\ 0 \in PC
  BY <1>3, <1>5 DEF Metadata, GoodBoard
<1>7. /\ d = [e EXCEPT ![t] = AllocatedEntry(m)] /\ scoreboard'.head = h
      /\ scoreboard'.tail = (t + 1) % SIZE /\ scoreboard'.count = c + 1
  <2> DEFINE n == AllocatedEntry(m)
             s == allocate(scoreboard, m)
  <2> HIDE DEF m
  <2>1. s.entries = [e EXCEPT ![t] = n] /\ s.head = h /\ s.tail = (t + 1) % SIZE
    BY <1>5, <1>6, AllocateGood
  <2>2. s.count = c + 1
    BY <1>5, AllocateCursors
  <2> HIDE DEF n, s
  <2> QED
    BY <1>2, <2>1, <2>2 DEF n, s
<1>8. /\ d[t].valid /\ ~ d[t].ready /\ d[t].pc = a /\ (d[t].is_store => k = "STORE")
      /\ \A i \in 0 .. SIZE - 1 : i # t => d[i] = e[i]
  <2>1. m.pc = a /\ (m.is_store => k = "STORE")
    OBVIOUS
  <2>2. e \in [0 .. SIZE - 1 -> BoardEntry(Tag, PC)]
    BY <1>5, BoardMembers DEF GoodBoard
  <2> HIDE DEF m
  <2>3. /\ AllocatedEntry(m).valid /\ ~ AllocatedEntry(m).ready
        /\ AllocatedEntry(m).is_store = m.is_store /\ AllocatedEntry(m).pc = m.pc
    BY <1>6, AllocatedType
  <2> QED
    BY <1>5, <1>7, <2>1, <2>2, <2>3
<1>9. /\ Linked(e, h, t, c, next) /\ Leads(e, t, c, next, a)
      /\ Resolved(program, saved.pc, e, SIZE)
      /\ Unresolved = SIZE
  BY <1>0, <1>3, <1>4 DEF InOrder, Dispatching, Unresolved, Skipped
<1>10. /\ Linked(d, h, (t + 1) % SIZE, c + 1, next) /\ Youngest((t + 1) % SIZE) = t
  <2>1. d[t].pc = a /\ \A i \in 0 .. SIZE - 1 : i # t => d[i] = e[i]
    BY <1>8
  <2> HIDE DEF a, d, e, h, t, c
  <2> QED
    BY <1>5, <1>9, <2>1, PathAllocate
<1>11. Unresolved' = t
  BY <1>1, <1>2, <1>4, <1>7, <1>10 DEF Unresolved, Refused, Skipped, Bubble
<1>12. Resolved(program, saved.pc, d, t)
  BY <1>5, <1>8, <1>9, Constants DEF Resolved
<1>13. Dispatching'
  <2>1. CASE k = "ILLEGAL"
    <3>1. stage' = "drain" /\ Refused' = t /\ scoreboard'.count > 0
      BY <1>1, <1>5, <1>7, <1>10, <2>1 DEF Refused
    <3> QED
      BY <1>0, <1>3, <1>8, <2>1, <3>1 DEF Dispatching, KindAt
  <2>2. CASE k # "ILLEGAL"
    <3>1. stage' = "id" /\ Pending' = l /\ l # Bubble
      BY <1>1, <1>2, <1>4, <2>2 DEF Bubble
    <3>2. /\ l.pc = a /\ l.rob_index = t /\ l.predicted = id_issue_reg.predicted
      OBVIOUS
    <3>3. Goes(program, l) = Origin'
      BY <1>3, <3>2 DEF Goes
    <3> HIDE DEF l
    <3> QED
      BY <1>0, <1>3, <1>8, <3>1, <3>2, <3>3 DEF Dispatching, KindAt
  <2> QED
    BY <2>1, <2>2
<1>14. InOrder'
  BY <1>0, <1>7, <1>10, <1>11, <1>12, <1>13 DEF InOrder
<1>15. Modes'
  <2>1. ASSUME "irq" \in program'.events, ~ pending_priv_switch', NEW i \in 0 .. SIZE - 1, d[i].valid
        PROVE  PrivOf(d[i].pc) = priv'
    <3>1. CASE i = t
      BY <1>0, <1>3, <1>8, <3>1
    <3>2. CASE i # t
      BY <1>0, <1>8, <2>1, <3>2 DEF Modes
    <3> QED
      BY <3>1, <3>2
  <2> QED
    BY <1>0, <2>1 DEF Modes
<1>16. ~ ("irq" \in program.events /\ pending_priv_switch)
  BY <1>0 DEF Returning
<1>17. Lean' = Lean
  BY <1>0 DEF Lean
<1>18. Lean => k # "STORE"
  BY <1>0, <1>3, <1>16 DEF Lean, Quick, Orderly, Swift
<1>19. Lean => Ready'
  <2> SUFFICES ASSUME Lean, NEW i \in 0 .. SIZE - 1, d[i].valid
               PROVE  ~ d[i].is_store /\ (i # t => d[i].ready)
    BY <1>11 DEF Ready
  <2>1. CASE i = t
    BY <1>8, <1>18, <2>1
  <2>2. CASE i # t
    BY <1>0, <1>5, <1>8, <1>9, <2>2, Constants DEF Fast, Ready
  <2> QED
    BY <2>1, <2>2
<1>20. Lean => scoreboard'.count <= Room'
  <2> DEFINE x == One(issue_ex_reg # Bubble)
  <2>1. Room = x /\ x \in {0, 1}
    BY <1>0 DEF Room, One
  <2>2. Room' = x + 1
    <3>1. stage' = "drain" \/ (Pending' # Bubble /\ ~ stall_ex')
      BY <1>0, <1>1, <1>2, <1>4 DEF Bubble
    <3> QED
      BY <1>0, <1>1, <3>1 DEF Room, One
  <2>3. Lean => c <= Room
    BY <1>0 DEF Fast
  <2> HIDE DEF x
  <2> QED
    BY <1>5, <1>7, <2>1, <2>2, <2>3
<1>21. Returning'
  BY <1>0, <1>16 DEF Returning
<1> QED
  BY <1>0, <1>14, <1>15, <1>17, <1>19, <1>20, <1>21 DEF Fast, MachineStep

LEMMA CoreIssue ==
    ASSUME Inv, Issue_stage PROVE Modes' /\ InOrder' /\ Fast' /\ MachineStep
<1>1. CASE Dispatched
  BY <1>1, CoreDispatch
<1>2. CASE ~ Dispatched
  <2>0. /\ stage = "issue" /\ Modes /\ InOrder /\ Returning /\ Base
        /\ UNCHANGED <<program, issue_ex_reg, flush_pipeline, pc_redirect_target, prev_cycle_flush,
                       priv, mpp, mepc, pending_priv_switch, last, next, saved>>
    BY DEF Issue_stage, Inv, Known, Fast, latchVars, flushVars, trapVars, historyVars
  <2>1. scoreboard' = scoreboard /\ stage' = "id" /\ Pending' = Pending
    BY <1>2, <2>0, IssueBase
  <2>2. Origin' = Origin
    BY <1>2, FlowIssue
  <2>3. Returning'
    BY <2>0, <2>1 DEF Returning, KindAt
  <2>4. Room <= Room'
    <3> DEFINE x == One(issue_ex_reg # Bubble)
               y == One(stage' = "drain" \/ (Pending' # Bubble /\ ~ stall_ex'))
    <3>1. Room = x /\ Room' = x + y
      BY <2>0, <2>1 DEF Room
    <3>2. x \in {0, 1} /\ y \in {0, 1}
      BY DEF One
    <3> HIDE DEF x, y
    <3> QED
      BY <3>1, <3>2
  <2>5. flush_pipeline' => PrivOf(pc_redirect_target') = priv
    BY <2>0 DEF Modes
  <2>6. Pending # Bubble => ~ flush_pipeline'
    BY <2>0 DEF InOrder, Dispatching
  <2>7. Modes' /\ InOrder' /\ Fast'
    BY <2>0, <2>1, <2>2, <2>3, <2>4, <2>5, <2>6, CoreSame, RoomNat
  <2> QED
    BY <2>0, <2>7 DEF MachineStep
<1> QED
  BY <1>1, <1>2

-----------------------------------------------------------------------------
(* The invariant is inductive. *)

LEMMA InvInit ==
    ASSUME Init, Orderly(program) PROVE Inv
<1>0. Pending = Bubble /\ Unresolved = SIZE
  BY DEF Init, Pending, Early, Unresolved, Skipped
<1>1. Known
  BY BaseInit, LiveInit, RememberedInit, AwakeInit DEF Known
<1>2. Steady
  <2>1. Delivery /\ HoldsAgree /\ Emptied
    BY DEF Init, Delivery, HoldsAgree, Emptied
  <2>2. StoreLess
    BY DEF Init, StoreLess, buffer_empty
  <2> QED
    BY <2>1, <2>2 DEF Steady
<1>3. 0 \in PC /\ PrivOf(0) = "U"
  BY CodeAddresses, CodeAssumption DEF PrivOf
<1>4. D1 = Bubble /\ D2 = Bubble /\ G = Bubble
  BY DEF Init, D1, D2, G, Early, Decoding
<1>5. /\ Path(program, priv, Bubble, Bubble, <<>>, Bubble, Bubble, 0)
      /\ Begin(Bubble, Bubble, <<>>, Bubble, Bubble, 0) = 0
  BY <1>3, PathEmpty DEF Init
<1>6. Flow /\ Origin = 0
  BY <1>4, <1>5 DEF Init, Flow, Origin
<1>7. \A i \in 0 .. SIZE - 1 : ~ NewScoreboard.entries[i].valid
  BY DEF NewScoreboard, FreshEntry
<1>8. NewScoreboard.count = 0
  BY DEF NewScoreboard
<1>9. Modes
  BY <1>3, <1>7 DEF Init, Modes
<1>10. InOrder
  <2>1. Dispatching
    BY <1>0, <1>6, <1>8 DEF Init, Dispatching, Leads
  <2> DEFINE e == NewScoreboard.entries
             h == NewScoreboard.head
             t == NewScoreboard.tail
             r == saved.pc
             n == 0
  <2>2. \A i \in 0 .. SIZE - 1 : ~ e[i].valid
    BY <1>7
  <2> HIDE DEF e, h, t, r, n
  <2>3. Linked(e, h, t, 0, n) /\ Resolved(program, r, e, SIZE)
    BY <2>2, PathFlushed
  <2> QED
    BY <1>0, <1>8, <2>1, <2>3 DEF Init, InOrder, e, h, t, r, n
<1>11. Fast
  <2>1. Ready /\ Returning
    BY <1>7 DEF Init, Ready, Returning
  <2>2. scoreboard.count <= Room
    BY <1>8, RoomNat DEF Init
  <2> QED
    BY <2>1, <2>2 DEF Fast
<1> QED
  BY <1>1, <1>2, <1>6, <1>9, <1>10, <1>11 DEF Inv

LEMMA KnownStep ==
    ASSUME Known, [Next]_vars PROVE Known'
<1>0. /\ Base /\ Live /\ Foresight /\ Remembered /\ Awake /\ WalksAlone(program)
      /\ LateFlushFree(program)
  BY DEF Known, Orderly
<1>1. Base'
  BY <1>0, BaseStutters, LatchBase, IrqBase, CommitBase, ExBase, IssueBase, DrainBase, IdBase,
     FetchBase, PCGenBase DEF Next
<1>2. Live' /\ Foresight' /\ Remembered'
  BY <1>0, LiveStep, ForesightStep, RememberedStep
<1>3. Awake'
  BY <1>0, AwakeStutters, AwakeLatch, AwakeIrq, AwakeCommit, AwakeEx, AwakeIssue, AwakeDrain,
     AwakeId, AwakeFetch, AwakePCGen DEF Next
<1>4. program' = program
  BY DEF Next, vars, LatchTransfer, cpu_process_IRQ, Commit_stage, EX_stage, Issue_stage,
         Issue_illegal, ID_stage, Fetch_stage, PCGen_stage
<1>5. Orderly(program')
  BY <1>4 DEF Known
<1> QED
  BY <1>1, <1>2, <1>3, <1>5 DEF Known

LEMMA InvStutters ==
    ASSUME Inv, UNCHANGED vars
    PROVE  Steady' /\ Flow' /\ Modes' /\ InOrder' /\ Fast' /\ MachineStep
<1>0. /\ UNCHANGED <<stage, program, fetch_queue, fetch_id_next, pcgen_fetch_next, next_pc,
                     icache_miss_remaining, fetch_id_reg, id_issue_reg, id_issue_next,
                     issue_ex_reg, issue_ex_next, stall_pcgen, stall_fetch, stall_issue, stall_ex,
                     wfi_stall, flush_pipeline, pc_redirect_target, prev_cycle_flush>>
      /\ UNCHANGED <<scoreboard, spec_stores, committed_stores, priv, mpp, mepc,
                     pending_priv_switch, last, next, saved>>
  BY DEF vars, frontVars, latchVars, stallVars, flushVars, backVars, trapVars, historyVars
<1>1. /\ D1' = D1 /\ D2' = D2 /\ G' = G /\ Pending' = Pending
  BY <1>0 DEF D1, D2, G, Pending
<1>2. Flow' /\ Origin' = Origin
  BY <1>0, <1>1, FlowSame
<1>3. Steady'
  <2>1. Delivery' /\ HoldsAgree' /\ Emptied'
    BY <1>0 DEF Inv, Steady, Delivery, HoldsAgree, Emptied, queue_full
  <2>2. StoreLess'
    BY <1>0, StoreLessKept DEF Inv, Steady, buffer_empty
  <2> QED
    BY <2>1, <2>2 DEF Steady
<1>4. Modes'
  BY <1>0 DEF Inv, Modes
<1>5. Unresolved' = Unresolved /\ Refused' = Refused
  BY <1>0, <1>1 DEF Unresolved, Refused
<1>6. InOrder'
  <2>1. Dispatching'
    BY <1>0, <1>1, <1>2, <1>5 DEF Inv, InOrder, Dispatching, KindAt
  <2> QED
    BY <1>0, <1>5, <2>1 DEF Inv, InOrder
<1>7. Fast'
  <2>1. Lean' = Lean /\ Room' = Room
    BY <1>0, <1>1 DEF Lean, Room
  <2>2. Ready => Ready'
    BY <1>0, <1>5 DEF Ready
  <2>3. Returning'
    BY <1>0, <1>1 DEF Inv, Fast, Returning, KindAt
  <2> QED
    BY <1>0, <2>1, <2>2, <2>3 DEF Inv, Fast
<1> QED
  BY <1>0, <1>2, <1>3, <1>4, <1>6, <1>7 DEF MachineStep

LEMMA InvStep ==
    ASSUME Inv, [Next]_vars PROVE Inv' /\ MachineStep
<1>0. Known'
  BY KnownStep DEF Inv
<1>1. CASE LatchTransfer
  BY <1>0, <1>1, SteadyLatch, FlowLatch, CoreLatch DEF Inv, MachineStep
<1>2. CASE cpu_process_IRQ
  <2>1. flush_pipeline' \/ UNCHANGED <<flush_pipeline, pc_redirect_target, priv>>
    BY <1>2 DEF cpu_process_IRQ, TakeInterrupt, NoInterrupt, flushVars, trapVars
  <2> QED
    BY <1>0, <1>2, <2>1, SteadyIrq, FlowBackend, CoreIrq DEF Inv
<1>3. CASE Commit_stage
  <2>1. UNCHANGED <<flush_pipeline, pc_redirect_target, priv>>
    BY <1>3 DEF Commit_stage, flushVars
  <2> QED
    BY <1>0, <1>3, <2>1, SteadyCommit, FlowBackend, CoreCommit DEF Inv
<1>4. CASE EX_stage
  BY <1>0, <1>4, SteadyEx, CoreEx DEF Inv
<1>5. CASE Issue_stage
  BY <1>0, <1>5, SteadyIssue, FlowIssue, CoreIssue DEF Inv
<1>6. CASE Issue_illegal
  BY <1>0, <1>6, SteadyDrain, FlowDrain, CoreDrain DEF Inv
<1>7. CASE ID_stage
  BY <1>0, <1>7, SteadyId, FlowId, CoreId DEF Inv, MachineStep
<1>8. CASE Fetch_stage
  <2>1. Steady'
    BY <1>8, FetchCases
  <2> QED
    BY <1>0, <1>8, <2>1, FlowFetch, CoreFetch DEF Inv
<1>9. CASE PCGen_stage
  <2>1. Steady'
    BY <1>9, PCGenCases
  <2> QED
    BY <1>0, <1>9, <2>1, FlowPCGen, CorePCGen DEF Inv, MachineStep
<1>10. CASE UNCHANGED vars
  BY <1>0, <1>10, InvStutters DEF Inv
<1> QED
  BY <1>1, <1>2, <1>3, <1>4, <1>5, <1>6, <1>7, <1>8, <1>9, <1>10 DEF Next

\* Whatever the six-stage core predicts, replays, flushes, drains and refetches,
\* what it retires is what the sequential machine retires: every instruction at
\* the address where its predecessor sent control, each once, and every trap
\* between two of them, with the address of the next one saved (PCGen to Commit,
\* cycle_thread).  Orderly names the programs for which the code has this; the
\* runs show what happens to the others.
THEOREM ImplementsMachineHolds ==
    ASSUME \A p \in Programs : Orderly(p)
    PROVE  Spec => ImplementsMachine
<1>1. Init => Inv
  <2>1. Init => Orderly(program)
    BY DEF Init
  <2> QED
    BY <2>1, InvInit
<1>2. Inv /\ [Next]_vars => Inv' /\ [Sequential!Next]_(Sequential!machineVars)
  BY InvStep DEF MachineStep, Sequential!machineVars
<1>3. Init => Sequential!Init
  BY DEF Init, Sequential!Init
<1> QED
  BY <1>1, <1>2, <1>3, PTL DEF Spec, ImplementsMachine, Sequential!Spec

=============================================================================
