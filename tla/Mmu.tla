-------------------------------- MODULE Mmu --------------------------------
(***************************************************************************)
(* inc/MMU.h and inc/TLB.h: sv39 translation with an instruction and a     *)
(* data TLB in front of a three-level page-table walk, and the operations  *)
(* of the core that change TLBs or tables: SFENCE.VMA, satp accesses, MRET *)
(* (EX_stage of src/CPU_P64_6_Cycle.cpp) and stores to the tables.         *)
(*                                                                         *)
(* A page number is a triple of fields, the most significant first; shifts *)
(* by nine bits per level become comparisons of fields.  Offsets in a page *)
(* are left out.  The victim of a TLB fill is any slot: which one only     *)
(* decides what misses later.  The mode, SUM and MXR are inputs of every   *)
(* translation, since software may change them between any two.            *)
(***************************************************************************)
EXTENDS Integers, FiniteSetsExt

CONSTANTS
    Field,      \* values of one field of a page number, 0 .. 511 in the code
    Tables,     \* physical pages that hold page tables
    Roots,      \* the ones software puts into satp
    Asids,
    TLB_SIZE,
    Pages,      \* virtual pages that are accessed and fenced
    Updates     \* stores of software to the tables: <<slot, page-table entry>>

Page == Field \X Field \X Field
Slot == Tables \X Field
Perm == {"R", "W", "X", "U"}
Pte  == [v : BOOLEAN, perm : SUBSET Perm, g : BOOLEAN, a : BOOLEAN,
         d : BOOLEAN, ppn : Page]

\* Neither R nor X: the entry points to the table of the next level.
Pointer(p) == p.v /\ p.perm \cap {"R", "X"} = {}

ASSUME MmuAssumption ==
    /\ 0 \in Field
    /\ Tables \subseteq Page
    /\ Roots \subseteq Tables
    /\ TLB_SIZE \in Nat \ {0}
    /\ Pages \subseteq Page
    /\ Updates \subseteq Slot \X Pte
    /\ \A u \in Updates : Pointer(u[2]) => u[2].ppn \in Tables

VARIABLES
    memory,     \* the page tables in memory
    satp,       \* sv39 (MODE = 8) or bare, address space, root table
    tlb,        \* itlb ("I") and dtlb ("D"), slot by slot
    changed     \* history: pages whose translation changed since a fence that
                \* covers them, with the G bit the old translation had

vars == <<memory, satp, tlb, changed>>

Index == 0 .. TLB_SIZE - 1
Satp  == [sv39 : BOOLEAN, asid : Asids, root : Roots]
Entry == [valid : BOOLEAN, global : BOOLEAN, perm : SUBSET Perm,
          level : 0 .. 2, asid : Asids, vpn : Page, ppn : Page]

NoPte == [v |-> FALSE, perm |-> {}, g |-> FALSE, a |-> FALSE, d |-> FALSE,
          ppn |-> <<0, 0, 0>>]
NoEntry(asid) == [valid |-> FALSE, global |-> FALSE, perm |-> {}, level |-> 0,
                  asid |-> asid, vpn |-> <<0, 0, 0>>, ppn |-> <<0, 0, 0>>]

Init ==
    /\ memory = [s \in Slot |-> NoPte]
    /\ satp \in {s \in Satp : ~s.sv39}
    /\ tlb = [t \in {"I", "D"} |-> [i \in Index |-> NoEntry(satp.asid)]]
    /\ changed = {}

-----------------------------------------------------------------------------
(* Page-table walk. *)

\* Fault: the level is recorded after the loop has counted it down.
WalkEnd_next_level(v) ==
    LET top == <<satp.root, v[1]>>
        mid == <<memory[top].ppn, v[2]>>
        low == <<memory[mid].ppn, v[3]>>
    IN  IF ~Pointer(memory[top]) THEN [slot |-> top, level |-> 1]
        ELSE IF ~Pointer(memory[mid]) THEN [slot |-> mid, level |-> 0]
             ELSE [slot |-> low, level |-> -1]

\* Where the walk for page v ends, and on which level: at the first entry that
\* is not a pointer, on level 0 at any entry.
WalkEnd(v) ==
    LET top == <<satp.root, v[1]>>
        mid == <<memory[top].ppn, v[2]>>
        low == <<memory[mid].ppn, v[3]>>
    IN  IF ~Pointer(memory[top]) THEN [slot |-> top, level |-> 2]
        ELSE IF ~Pointer(memory[mid]) THEN [slot |-> mid, level |-> 1]
             ELSE [slot |-> low, level |-> 0]

\* Reserved bits: the fields of a superpage below its level are zero.
Aligned(ppn, level) ==
    /\ level >= 1 => ppn[3] = 0
    /\ level = 2 => ppn[2] = 0

NoLeaf == [found |-> FALSE]

\* The translation the tables hold for v, before permissions are asked for.
Leaf(v) ==
    LET end == WalkEnd(v)
        p   == memory[end.slot]
    IN  IF p.v /\ ~Pointer(p) /\ Aligned(p.ppn, end.level)
        THEN [found |-> TRUE, ppn |-> p.ppn, perm |-> p.perm,
              level |-> end.level, global |-> p.g]
        ELSE NoLeaf

check_perm(perm, access, priv, sum, mxr) ==
    /\ priv = "U" => "U" \in perm
    /\ (priv = "S" /\ "U" \in perm) => (access # "FETCH" /\ sum)
    /\ CASE access = "FETCH" -> "X" \in perm
         [] access = "LOAD"  -> "R" \in perm \/ (mxr /\ "X" \in perm)
         [] access = "STORE" -> "W" \in perm

\* make_paddr: fields below the level of the leaf come from the virtual page.
make_paddr(ppn, v, level) ==
    <<ppn[1], IF level = 2 THEN v[2] ELSE ppn[2],
      IF level >= 1 THEN v[3] ELSE ppn[3]>>

-----------------------------------------------------------------------------
(* TLB. *)

\* The pages agree in every field that an entry of this level translates.
vpn_match(v, w, level) ==
    /\ v[1] = w[1]
    /\ level <= 1 => v[2] = w[2]
    /\ level = 0 => v[3] = w[3]

\* Slots that answer for page v; the first one is taken.
Hits(t, v) ==
    {i \in Index : /\ tlb[t][i].valid
                   /\ tlb[t][i].global \/ tlb[t][i].asid = satp.asid
                   /\ vpn_match(v, tlb[t][i].vpn, tlb[t][i].level)}

Which(access) == IF access = "FETCH" THEN "I" ELSE "D"

\* Fault: permissions are checked when the entry is filled, not on a hit.
translate_hit_unchecked(v, access, priv, sum, mxr) ==
    LET hits == Hits(Which(access), v)
        from == IF hits # {} THEN tlb[Which(access)][Min(hits)] ELSE Leaf(v)
    IN  IF ~satp.sv39 \/ priv = "M" THEN [fault |-> FALSE, page |-> v]
        ELSE IF \/ hits # {}
                \/ /\ from # NoLeaf
                   /\ check_perm(from.perm, access, priv, sum, mxr)
             THEN [fault |-> FALSE, page |-> make_paddr(from.ppn, v, from.level)]
             ELSE [fault |-> TRUE]

\* What translate returns: a fault, or the physical page.
translate(v, access, priv, sum, mxr) ==
    LET hits == Hits(Which(access), v)
        from == IF hits # {} THEN tlb[Which(access)][Min(hits)] ELSE Leaf(v)
    IN  IF ~satp.sv39 \/ priv = "M" THEN [fault |-> FALSE, page |-> v]
        ELSE IF /\ hits # {} \/ from # NoLeaf
                /\ check_perm(from.perm, access, priv, sum, mxr)
             THEN [fault |-> FALSE, page |-> make_paddr(from.ppn, v, from.level)]
             ELSE [fault |-> TRUE]

-----------------------------------------------------------------------------
(* Operations. *)

\* A and D bits: a successful walk sets A, for a store also D.
Accessed(p, access) == [p EXCEPT !.a = TRUE, !.d = p.d \/ access = "STORE"]

\* The part of translate that changes state: a miss whose walk succeeds
\* updates the entry in memory and fills a slot of the TLB.
walk(v, access, priv, sum, mxr) ==
    /\ satp.sv39 /\ priv # "M"
    /\ Hits(Which(access), v) = {}
    /\ Leaf(v) # NoLeaf
    /\ check_perm(Leaf(v).perm, access, priv, sum, mxr)
    /\ LET l == Leaf(v)
       IN  /\ memory' = [memory EXCEPT ![WalkEnd(v).slot] = Accessed(@, access)]
           /\ \E i \in Index :
                 tlb' = [tlb EXCEPT ![Which(access)][i] =
                           [valid |-> TRUE, global |-> l.global, perm |-> l.perm,
                            level |-> l.level, asid |-> satp.asid, vpn |-> v,
                            ppn |-> l.ppn]]
    /\ UNCHANGED <<satp, changed>>

\* Which entries the flushes of a TLB invalidate.
flush_va(e, v) == vpn_match(v, e.vpn, e.level)
flush_asid(e, asid) == ~e.global /\ e.asid = asid
flush_va_asid(e, v, asid) == flush_asid(e, asid) /\ flush_va(e, v)

\* Both TLBs after a flush.
Without(flushed(_)) ==
    [t \in {"I", "D"} |-> [i \in Index |->
        IF flushed(tlb[t][i]) THEN [tlb[t][i] EXCEPT !.valid = FALSE]
                              ELSE tlb[t][i]]]

flush_all == tlb' = Without(LAMBDA e : TRUE)

\* Fault: global entries survive a flush of everything.
sfence_all_keeps_global ==
    /\ tlb' = Without(LAMBDA e : ~e.global)
    /\ changed' = {}
    /\ UNCHANGED <<memory, satp>>

\* SFENCE.VMA x0, x0, and MRET: everything, global entries too.
sfence_all ==
    /\ flush_all
    /\ changed' = {}
    /\ UNCHANGED <<memory, satp>>

\* SFENCE.VMA x0, asid: global entries stay.
sfence_asid(asid) ==
    /\ tlb' = Without(LAMBDA e : flush_asid(e, asid))
    /\ changed' = {c \in changed : c[2] \/ asid # satp.asid}
    /\ UNCHANGED <<memory, satp>>

\* Fault: only the data TLB is flushed.
sfence_va_dtlb(v) ==
    /\ tlb' = [Without(LAMBDA e : flush_va(e, v)) EXCEPT
                !["I"] = tlb["I"]]
    /\ changed' = {c \in changed : c[1] # v}
    /\ UNCHANGED <<memory, satp>>

\* SFENCE.VMA va, x0.
sfence_va(v) ==
    /\ tlb' = Without(LAMBDA e : flush_va(e, v))
    /\ changed' = {c \in changed : c[1] # v}
    /\ UNCHANGED <<memory, satp>>

\* SFENCE.VMA va, asid.
sfence_va_asid(v, asid) ==
    /\ tlb' = Without(LAMBDA e : flush_va_asid(e, v, asid))
    /\ changed' = {c \in changed : c[1] # v \/ c[2] \/ asid # satp.asid}
    /\ UNCHANGED <<memory, satp>>

\* Fault: the TLBs survive a change of the address space.
write_satp_unflushed(s) ==
    /\ satp' = s
    /\ changed' = {}
    /\ UNCHANGED <<memory, tlb>>

\* A CSR instruction on satp, one that only reads it too.
write_satp(s) ==
    /\ satp' = s
    /\ flush_all
    /\ changed' = {}
    /\ UNCHANGED memory

\* A store of the operating system to a page table, once it is in memory.
store_pte(slot, pte) ==
    /\ memory' = [memory EXCEPT ![slot] = pte]
    /\ UNCHANGED <<satp, tlb>>
    /\ changed' = changed \cup
          {<<v, Leaf(v).global>> : v \in {w \in Page : /\ Leaf(w) # NoLeaf
                                                       /\ Leaf(w)' # Leaf(w)}}

Accesses == {"FETCH", "LOAD", "STORE"}
Modes    == {"U", "S", "M"}

Next ==
    \/ \E v \in Pages, access \in Accesses, priv \in Modes, sum, mxr \in BOOLEAN :
          walk(v, access, priv, sum, mxr)
    \/ sfence_all
    \/ \E asid \in Asids : sfence_asid(asid)
    \/ \E v \in Pages : sfence_va(v)
    \/ \E v \in Pages, asid \in Asids : sfence_va_asid(v, asid)
    \/ \E s \in Satp : write_satp(s)
    \/ \E u \in Updates : store_pte(u[1], u[2])

Spec == Init /\ [][Next]_vars

-----------------------------------------------------------------------------
(* Properties. *)

\* Types of the tables, the satp register and both TLBs; every pointer in the
\* tables leads to a table.
TypeOK ==
    /\ memory \in [Slot -> Pte]
    /\ \A s \in Slot : Pointer(memory[s]) => memory[s].ppn \in Tables
    /\ satp \in Satp
    /\ tlb \in [{"I", "D"} -> [Index -> Entry]]
    /\ changed \subseteq Page \X BOOLEAN

\* A valid TLB entry belongs to the current address space, and for every page
\* it answers for it holds what the tables hold, unless that page changed and
\* no fence covering it has been executed since (TLB insert and flushes,
\* flush_all on satp accesses).
EntryLeaf(e) == [found |-> TRUE, ppn |-> e.ppn, perm |-> e.perm,
                 level |-> e.level, global |-> e.global]

EntryCoherent(e) ==
    e.valid =>
        /\ e.asid = satp.asid
        /\ \A v \in Page : vpn_match(v, e.vpn, e.level) =>
              EntryLeaf(e) = Leaf(v) \/ <<v, e.global>> \in changed

TlbCoherent == \A t \in {"I", "D"}, i \in Index : EntryCoherent(tlb[t][i])

\* What the tables alone would answer.
Reference(v, access, priv, sum, mxr) ==
    IF ~satp.sv39 \/ priv = "M" THEN [fault |-> FALSE, page |-> v]
    ELSE IF /\ Leaf(v) # NoLeaf
            /\ check_perm(Leaf(v).perm, access, priv, sum, mxr)
         THEN [fault |-> FALSE,
               page |-> make_paddr(Leaf(v).ppn, v, Leaf(v).level)]
         ELSE [fault |-> TRUE]

\* A page that has been fenced since it last changed is translated, or faults,
\* exactly as a walk of the tables would have it, in every mode and for every
\* kind of access, whatever the TLBs hold (translate, SFENCE.VMA, satp writes):
\* the permissions are those of the current mode, not those at fill time.
FencedPagesFollowTables ==
    \A v \in Pages : ({v} \X BOOLEAN) \cap changed = {} =>
        \A access \in Accesses, priv \in Modes, sum, mxr \in BOOLEAN :
            translate(v, access, priv, sum, mxr)
                = Reference(v, access, priv, sum, mxr)
=============================================================================
