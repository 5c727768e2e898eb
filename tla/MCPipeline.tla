----------------------------- MODULE MCPipeline -----------------------------
(* Programs and latencies for the runs of Pipeline. *)
EXTENDS Pipeline

Full(kind)       == [kind |-> kind, size |-> 2, target |-> 0]
Compressed(kind) == [kind |-> kind, size |-> 1, target |-> 0]

\* User code of n full-size instructions; the handler is an MRET.
Straight(kinds, n, events, stalls) ==
    [code |-> [p \in PC |-> CASE p < 2 * n -> Full(kinds[1 + p \div 2])
                              [] p \in 2 * n .. UserEnd - 1 -> Full("ALU")
                              [] OTHER -> Full("MRET")],
     end |-> 2 * n, events |-> events, stalls |-> stalls]

\* Every program of n instructions of the given kinds.
AnyProgram(kinds, n, events, stalls) ==
    {Straight(k, n, events, stalls) : k \in [1 .. n -> kinds]}

\* Loops of two instructions.  Code wraps around, so one order of them is enough.
AnyLoop(kinds, events, stalls) ==
    {Straight(<<kinds[i], kinds[j]>>, 2, events, stalls) :
        <<i, j>> \in {k \in (1 .. Len(kinds)) \X (1 .. Len(kinds)) : k[1] <= k[2]}}

\* Compressed and full-size instructions mixed, with branches into the middle of
\* the code: a longer program without interrupts, a shorter one with them.
Mixed ==
    LET code(p) == CASE p = 0 -> Compressed("ALU")
                     [] p = 1 -> Full("MUL")
                     [] p = 3 -> [kind |-> "BRANCH", size |-> 1, target |-> 1]
                     [] p = 4 -> Compressed("ALU")
                     [] p = 5 -> Full("ALU")
                     [] p = 7 -> [kind |-> "BRANCH", size |-> 2, target |-> 4]
                     [] OTHER -> Compressed("ALU")
    IN  [code |-> [p \in PC |-> IF p < 9 THEN code(p) ELSE Full("MRET")],
         end |-> 9, events |-> {}, stalls |-> {0, 1}]

MixedLoop ==
    LET code(p) == CASE p = 1 -> Full("MUL")
                     [] p = 4 -> [kind |-> "BRANCH", size |-> 2, target |-> 1]
                     [] OTHER -> Compressed("ALU")
    IN  [code |-> [p \in PC |-> IF p < 9 THEN code(p) ELSE Full("MRET")],
         end |-> 6, events |-> {"irq"}, stalls |-> {0, 1}]

\* Loops of three memory accesses and branches, up to rotation.
MemoryLoops ==
    {<<"LOAD", "LOAD", a>> : a \in {"LOAD", "STORE", "BRANCH"}}
    \cup {<<"LOAD", "STORE", a>> : a \in {"STORE", "BRANCH"}}
    \cup {<<a, "BRANCH", b>> : a \in {"LOAD", "STORE"}, b \in {"STORE", "BRANCH"}}
    \cup {<<"STORE", "STORE", "STORE">>}

\* Memory accesses and branches with faults and interrupts; SYSTEM and illegal
\* instructions; addresses that wait for loads; jumps predicted anywhere;
\* compressed code with fetch stalls.
ControlFlow ==
    {Straight(k, 3, {"fault", "irq"}, {}) : k \in MemoryLoops}
    \cup AnyLoop(<<"ALU", "BRANCH", "CSR", "WFI", "SFENCE", "ECALL", "ILLEGAL">>,
                 {"irq", "wake", "fault", "target_fault"}, {})
    \cup {Straight(<<"LOAD", "STORE", "BRANCH">>, 3, {"fault", "irq", "load_addr"}, {}),
          Straight(<<"BRANCH">>, 1, {"irq", "wrong_target"}, {}),
          Straight(<<"BRANCH", "ALU">>, 2, {"wrong_target"}, {}),
          Mixed, [Mixed EXCEPT !.events = {"irq"}, !.stalls = {}], MixedLoop}

\* Every unit in use, with replays, faults and interrupts; loops with effects in
\* EX that are shorter than the scoreboard; stores and an atomic behind two other
\* instructions; addresses that wait for loads; returns and waits that user code is
\* refused.
UnitsAndStores ==
    AnyProgram({"ALU", "MUL", "DIV", "LOAD"}, 2, {"fault", "irq", "dtlb"}, {})
    \cup AnyProgram({"CSR", "DIV", "FP"}, 2, {"fault"}, {})
    \cup {Straight(<<a, b, "STORE", "STORE", "AMO">>, 5, {"fault"}, {}) :
             a, b \in {"ALU", "AMO", "DIV", "FP", "LOAD", "STORE"}}
    \cup {Straight(<<"LOAD", a, b>>, 3, {"load_addr"}, {}) :
             a \in {"LOAD", "STORE"}, b \in {"LOAD", "BRANCH"}}
    \cup {Straight(<<a, "STORE", b>>, 3, {"irq", "tw"}, {}) :
             a \in {"DIV", "LOAD"}, b \in {"MRET", "WFI"}}

\* Replayed loads and fetch stalls together.
ReplayedLoads == AnyProgram({"MUL", "LOAD"}, 3, {"fault"}, {0, 1})

\* Instructions with an effect in EX, interrupted.
InterruptedEffects == AnyProgram({"ALU", "AMO", "CSR", "FP"}, 3, {"irq"}, {})

\* Loads that walk the page table and find an older store in the buffer.
WalksAndStores == AnyProgram({"DIV", "LOAD", "STORE"}, 3, {"dtlb"}, {})

\* The programs of the passing runs are among those of the theorems.
ASSUME Programs = ControlFlow => \A p \in Programs : Orderly(p)
ASSUME Programs = UnitsAndStores =>
          \A p \in Programs : WalksAlone(p) /\ LateFlushFree(p) /\ EffectsRetire(p)

Latencies == [mul |-> 1, div |-> 3, hit |-> 1, miss |-> 3, fpu |-> 2]
=============================================================================
