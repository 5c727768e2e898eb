----------------------------- MODULE MmuProofs -----------------------------
(***************************************************************************)
(* Theorems about Mmu for every TLB size, every set of tables and every    *)
(* set of stores to them that keeps pointers inside the tables.            *)
(***************************************************************************)
EXTENDS Mmu, WellFoundedInduction, TLAPS

-----------------------------------------------------------------------------
(* Walks. *)

\* The fields of a page number.
LEMMA PageFields ==
    ASSUME NEW v \in Page
    PROVE  v[1] \in Field /\ v[2] \in Field /\ v[3] \in Field
  BY DEF Page

\* A walk stays inside the tables.
LEMMA WalkInTables ==
    ASSUME TypeOK, NEW v \in Page
    PROVE  /\ WalkEnd(v).slot \in Slot
           /\ WalkEnd(v).level \in 0 .. 2
<1> DEFINE top == <<satp.root, v[1]>>
           mid == <<memory[top].ppn, v[2]>>
           low == <<memory[mid].ppn, v[3]>>
<1>1. top \in Slot
  BY PageFields, MmuAssumption DEF TypeOK, Satp, Slot
<1>2. Pointer(memory[top]) => mid \in Slot
  BY <1>1, PageFields DEF TypeOK, Slot
<1>3. Pointer(memory[top]) /\ Pointer(memory[mid]) => low \in Slot
  BY <1>2, PageFields DEF TypeOK, Slot
<1> HIDE DEF top, mid, low
<1>4. WalkEnd(v) = IF ~Pointer(memory[top]) THEN [slot |-> top, level |-> 2]
                   ELSE IF ~Pointer(memory[mid]) THEN [slot |-> mid, level |-> 1]
                        ELSE [slot |-> low, level |-> 0]
  BY DEF WalkEnd, top, mid, low
<1> QED
  BY <1>1, <1>2, <1>3, <1>4

\* What a successful walk finds has the type of a TLB entry's fields.
LEMMA LeafType ==
    ASSUME TypeOK, NEW v \in Page, Leaf(v) # NoLeaf
    PROVE  /\ Leaf(v) = [found |-> TRUE, ppn |-> Leaf(v).ppn,
                         perm |-> Leaf(v).perm, level |-> WalkEnd(v).level,
                         global |-> Leaf(v).global]
           /\ Leaf(v).ppn \in Page
           /\ Leaf(v).perm \in SUBSET Perm
           /\ Leaf(v).level \in 0 .. 2
           /\ Leaf(v).global \in BOOLEAN
<1> DEFINE p == memory[WalkEnd(v).slot]
<1>1. p \in Pte
  BY WalkInTables DEF TypeOK
<1>2. Leaf(v) = [found |-> TRUE, ppn |-> p.ppn, perm |-> p.perm,
                 level |-> WalkEnd(v).level, global |-> p.g]
  BY DEF Leaf
<1> QED
  BY <1>1, <1>2, WalkInTables DEF Pte

\* The pages that an entry of the leaf's level answers for share the leaf.
LEMMA LeafShared ==
    ASSUME TypeOK, NEW v \in Page, NEW w \in Page, Leaf(v) # NoLeaf,
           vpn_match(w, v, Leaf(v).level)
    PROVE  Leaf(w) = Leaf(v)
<1>1. vpn_match(w, v, WalkEnd(v).level)
  BY LeafType
<1>2. WalkEnd(w) = WalkEnd(v)
  BY <1>1 DEF WalkEnd, vpn_match
<1> QED
  BY <1>2 DEF Leaf

\* A step that leaves satp and, up to the A and D bits, the tables alone does
\* not change any translation.
LEMMA LeafKept ==
    ASSUME TypeOK, satp' = satp,
           \A s \in Slot : /\ memory'[s].v = memory[s].v
                           /\ memory'[s].perm = memory[s].perm
                           /\ memory'[s].g = memory[s].g
                           /\ memory'[s].ppn = memory[s].ppn,
           NEW v \in Page
    PROVE  Leaf(v)' = Leaf(v)
<1> DEFINE top == <<satp.root, v[1]>>
           mid == <<memory[top].ppn, v[2]>>
           low == <<memory[mid].ppn, v[3]>>
<1>1. top \in Slot
  BY PageFields, MmuAssumption DEF TypeOK, Satp, Slot
<1>2. Pointer(memory[top]) => mid \in Slot
  BY <1>1, PageFields DEF TypeOK, Slot
<1>3. \A s \in Slot : Pointer(memory'[s]) <=> Pointer(memory[s])
  BY DEF Pointer
<1>4. WalkEnd(v)' = WalkEnd(v)
  <2>1. CASE ~Pointer(memory[top])
    BY <2>1, <1>1, <1>3 DEF WalkEnd
  <2>2. CASE Pointer(memory[top])
    <3>1. Pointer(memory'[top]) /\ memory'[top].ppn = memory[top].ppn
      BY <2>2, <1>1, <1>3
    <3>2. /\ Pointer(memory'[mid]) <=> Pointer(memory[mid])
          /\ memory'[mid].ppn = memory[mid].ppn
      BY <2>2, <1>2, <1>3
    <3> QED
      BY <3>1, <3>2, <2>2 DEF WalkEnd
  <2> QED
    BY <2>1, <2>2
<1>5. WalkEnd(v).slot \in Slot
  BY WalkInTables
<1> QED
  BY <1>3, <1>4, <1>5 DEF Leaf

-----------------------------------------------------------------------------
(* Types. *)

\* A flush only clears valid bits.
LEMMA FlushedEntry ==
    ASSUME TypeOK, NEW t \in {"I", "D"}, NEW i \in Index
    PROVE  /\ tlb[t][i] \in Entry
           /\ [tlb[t][i] EXCEPT !.valid = FALSE] \in Entry
           /\ [tlb[t][i] EXCEPT !.valid = FALSE].valid = FALSE
<1>1. tlb[t][i] \in Entry
  BY DEF TypeOK
<1> QED
  BY <1>1 DEF Entry

LEMMA InitTypes == Init => TypeOK
<1> SUFFICES ASSUME Init PROVE TypeOK
  OBVIOUS
<1>1. <<0, 0, 0>> \in Page
  BY MmuAssumption DEF Page
<1>2. NoPte \in Pte /\ ~Pointer(NoPte)
  BY <1>1 DEF NoPte, Pte, Pointer
<1>3. NoEntry(satp.asid) \in Entry
  BY <1>1 DEF Init, NoEntry, Entry, Satp
<1> QED
  BY <1>2, <1>3 DEF Init, TypeOK

LEMMA WalkTypes ==
    ASSUME TypeOK, NEW v \in Pages, NEW access \in Accesses, NEW priv, NEW sum,
           NEW mxr, walk(v, access, priv, sum, mxr)
    PROVE  TypeOK'
<1> DEFINE end == WalkEnd(v).slot
           pte == Accessed(memory[end], access)
<1>1. v \in Page
  BY MmuAssumption
<1>2. end \in Slot
  BY <1>1, WalkInTables
<1>3. memory[end] \in Pte
  BY <1>2 DEF TypeOK
<1>4. /\ pte \in Pte
      /\ pte.v = memory[end].v /\ pte.perm = memory[end].perm
      /\ pte.g = memory[end].g /\ pte.ppn = memory[end].ppn
  BY <1>3 DEF Pte, Accessed
<1>5. memory' = [memory EXCEPT ![end] = pte]
  BY DEF walk
<1> HIDE DEF end, pte
<1>6. memory' \in [Slot -> Pte]
  BY <1>4, <1>5 DEF TypeOK
<1>7. \A s \in Slot : Pointer(memory'[s]) => memory'[s].ppn \in Tables
  BY <1>2, <1>4, <1>5 DEF TypeOK, Pointer
<1>8. PICK i \in Index : tlb' = [tlb EXCEPT ![Which(access)][i] =
                           [valid |-> TRUE, global |-> Leaf(v).global,
                            perm |-> Leaf(v).perm, level |-> Leaf(v).level,
                            asid |-> satp.asid, vpn |-> v, ppn |-> Leaf(v).ppn]]
  BY DEF walk
<1>9. [valid |-> TRUE, global |-> Leaf(v).global, perm |-> Leaf(v).perm,
       level |-> Leaf(v).level, asid |-> satp.asid, vpn |-> v,
       ppn |-> Leaf(v).ppn] \in Entry
  <2>1. Leaf(v) # NoLeaf
    BY DEF walk
  <2> QED
    BY <2>1, <1>1, LeafType DEF Entry, TypeOK, Satp
<1>10. tlb' \in [{"I", "D"} -> [Index -> Entry]]
  BY <1>8, <1>9 DEF TypeOK, Which
<1> QED
  BY <1>6, <1>7, <1>10 DEF walk, TypeOK

LEMMA StoreTypes ==
    ASSUME TypeOK, NEW u \in Updates, store_pte(u[1], u[2])
    PROVE  TypeOK'
<1>1. u[1] \in Slot /\ u[2] \in Pte /\ (Pointer(u[2]) => u[2].ppn \in Tables)
  BY MmuAssumption
<1>2. memory' \in [Slot -> Pte]
  BY <1>1 DEF store_pte, TypeOK
<1>3. \A s \in Slot : Pointer(memory'[s]) => memory'[s].ppn \in Tables
  BY <1>1 DEF store_pte, TypeOK
<1>4. changed' \subseteq Page \X BOOLEAN
  BY LeafType DEF store_pte, TypeOK
<1> QED
  BY <1>2, <1>3, <1>4 DEF store_pte, TypeOK

LEMMA NextTypes == TypeOK /\ [Next]_vars => TypeOK'
<1> SUFFICES ASSUME TypeOK, [Next]_vars PROVE TypeOK'
  OBVIOUS
<1> USE FlushedEntry
<1>1. CASE sfence_all
  BY <1>1 DEF sfence_all, flush_all, Without, TypeOK
<1>2. ASSUME NEW asid \in Asids, sfence_asid(asid) PROVE TypeOK'
  BY <1>2 DEF sfence_asid, Without, TypeOK
<1>3. ASSUME NEW v \in Pages, sfence_va(v) PROVE TypeOK'
  BY <1>3 DEF sfence_va, Without, TypeOK
<1>4. ASSUME NEW v \in Pages, NEW asid \in Asids, sfence_va_asid(v, asid)
      PROVE  TypeOK'
  BY <1>4 DEF sfence_va_asid, Without, TypeOK
<1>5. ASSUME NEW s \in Satp, write_satp(s) PROVE TypeOK'
  BY <1>5 DEF write_satp, flush_all, Without, TypeOK
<1>6. CASE UNCHANGED vars
  BY <1>6 DEF vars, TypeOK
<1> QED
  BY <1>1, <1>2, <1>3, <1>4, <1>5, <1>6, WalkTypes, StoreTypes DEF Next

\* The tables, satp and both TLBs keep their types, and every pointer in the
\* tables leads to a table, under every interleaving of translations, fences,
\* satp accesses and stores to the tables (MMU translate, sfence_vma, TLB).
THEOREM MmuTypes == Spec => []TypeOK
  BY InitTypes, NextTypes, PTL DEF Spec

-----------------------------------------------------------------------------
(* Coherence. *)

LEMMA WalkKeepsLeaves ==
    ASSUME TypeOK, NEW v \in Pages, NEW access \in Accesses, NEW priv, NEW sum,
           NEW mxr, walk(v, access, priv, sum, mxr), NEW w \in Page
    PROVE  Leaf(w)' = Leaf(w)
<1> DEFINE end == WalkEnd(v).slot
           pte == Accessed(memory[end], access)
<1>1. end \in Slot
  BY MmuAssumption, WalkInTables
<1>2. memory[end] \in Pte
  BY <1>1 DEF TypeOK
<1>3. /\ pte.v = memory[end].v /\ pte.perm = memory[end].perm
      /\ pte.g = memory[end].g /\ pte.ppn = memory[end].ppn
  BY <1>2 DEF Pte, Accessed
<1>4. memory' = [memory EXCEPT ![end] = pte] /\ satp' = satp
  BY DEF walk
<1> HIDE DEF end, pte
<1>5. \A s \in Slot : /\ memory'[s].v = memory[s].v
                      /\ memory'[s].perm = memory[s].perm
                      /\ memory'[s].g = memory[s].g
                      /\ memory'[s].ppn = memory[s].ppn
  BY <1>1, <1>3, <1>4 DEF TypeOK
<1> QED
  BY <1>4, <1>5, LeafKept

LEMMA WalkCoherent ==
    ASSUME TypeOK, TlbCoherent, NEW v \in Pages, NEW access \in Accesses,
           NEW priv, NEW sum, NEW mxr, walk(v, access, priv, sum, mxr)
    PROVE  TlbCoherent'
<1> DEFINE new == [valid |-> TRUE, global |-> Leaf(v).global,
                   perm |-> Leaf(v).perm, level |-> Leaf(v).level,
                   asid |-> satp.asid, vpn |-> v, ppn |-> Leaf(v).ppn]
<1>1. PICK k \in Index : tlb' = [tlb EXCEPT ![Which(access)][k] = new]
  BY DEF walk
<1>2. Leaf(v) # NoLeaf /\ v \in Page /\ satp' = satp /\ changed' = changed
  BY MmuAssumption DEF walk
<1>3. \A w \in Page : Leaf(w)' = Leaf(w)
  BY WalkKeepsLeaves
<1>4. EntryLeaf(new) = Leaf(v)
  BY <1>2, LeafType DEF EntryLeaf
<1>5. \A w \in Page : vpn_match(w, v, Leaf(v).level) => Leaf(w) = Leaf(v)
  BY <1>2, LeafShared
<1> SUFFICES ASSUME NEW t \in {"I", "D"}, NEW i \in Index
             PROVE  EntryCoherent(tlb[t][i])'
  BY DEF TlbCoherent
<1>6. tlb'[t][i] = tlb[t][i] \/ tlb'[t][i] = new
  BY <1>1 DEF TypeOK, Which
<1>7. EntryCoherent(tlb[t][i])
  BY DEF TlbCoherent
<1>8. CASE tlb'[t][i] = tlb[t][i]
  BY <1>2, <1>3, <1>7, <1>8 DEF EntryCoherent, EntryLeaf
<1>9. CASE tlb'[t][i] = new
  BY <1>2, <1>3, <1>4, <1>5, <1>9 DEF EntryCoherent, EntryLeaf
<1> QED
  BY <1>6, <1>8, <1>9

\* A fence: the entries it leaves valid are old ones, and the pages it takes
\* out of changed are not matched by any of those.
LEMMA FenceCoherent ==
    ASSUME TypeOK, TlbCoherent, UNCHANGED <<memory, satp>>,
           \A t \in {"I", "D"}, i \in Index :
              tlb'[t][i].valid =>
                 /\ tlb[t][i].valid /\ tlb'[t][i] = tlb[t][i]
                 /\ \A v \in Page :
                       /\ vpn_match(v, tlb[t][i].vpn, tlb[t][i].level)
                       /\ <<v, tlb[t][i].global>> \in changed
                       => <<v, tlb[t][i].global>> \in changed'
    PROVE  TlbCoherent'
<1> SUFFICES ASSUME NEW t \in {"I", "D"}, NEW i \in Index, tlb'[t][i].valid
             PROVE  EntryCoherent(tlb[t][i])'
  BY DEF TlbCoherent, EntryCoherent
<1>1. EntryCoherent(tlb[t][i])
  BY DEF TlbCoherent
<1>2. \A v \in Page : Leaf(v)' = Leaf(v)
  BY DEF Leaf, WalkEnd
<1> QED
  BY <1>1, <1>2 DEF EntryCoherent, EntryLeaf

LEMMA StoreCoherent ==
    ASSUME TypeOK, TlbCoherent, NEW u \in Updates, store_pte(u[1], u[2])
    PROVE  TlbCoherent'
<1> SUFFICES ASSUME NEW t \in {"I", "D"}, NEW i \in Index
             PROVE  EntryCoherent(tlb[t][i])'
  BY DEF TlbCoherent
<1> DEFINE e == tlb[t][i]
<1>1. tlb' = tlb /\ satp' = satp
  BY DEF store_pte
<1>2. EntryCoherent(e)
  BY DEF TlbCoherent
<1>3. ASSUME NEW v \in Page, e.valid, vpn_match(v, e.vpn, e.level)
      PROVE  EntryLeaf(e) = Leaf(v)' \/ <<v, e.global>> \in changed'
  <2>1. CASE <<v, e.global>> \in changed
    BY <2>1 DEF store_pte
  <2>2. CASE EntryLeaf(e) = Leaf(v)
    <3>1. Leaf(v) # NoLeaf /\ Leaf(v).global = e.global
      BY <2>2 DEF EntryLeaf, NoLeaf
    <3>2. CASE Leaf(v)' # Leaf(v)
      BY <3>1, <3>2 DEF store_pte
    <3> QED
      BY <2>2, <3>2
  <2> QED
    BY <1>2, <1>3, <2>1, <2>2 DEF EntryCoherent
<1> QED
  BY <1>1, <1>2, <1>3 DEF EntryCoherent, EntryLeaf

LEMMA NextCoherent == TypeOK /\ TlbCoherent /\ [Next]_vars => TlbCoherent'
<1> SUFFICES ASSUME TypeOK, TlbCoherent, [Next]_vars PROVE TlbCoherent'
  OBVIOUS
<1>1. CASE sfence_all
  BY <1>1, FlushedEntry DEF sfence_all, flush_all, Without, TlbCoherent,
                            EntryCoherent
<1>2. ASSUME NEW asid \in Asids, sfence_asid(asid) PROVE TlbCoherent'
  <2>1. ASSUME NEW t \in {"I", "D"}, NEW i \in Index, tlb'[t][i].valid
        PROVE  /\ tlb'[t][i] = tlb[t][i]
               /\ tlb[t][i].global \/ tlb[t][i].asid # asid
    BY <1>2, <2>1, FlushedEntry DEF sfence_asid, flush_asid, Without
  <2>2. ASSUME NEW t \in {"I", "D"}, NEW i \in Index, tlb[t][i].valid
        PROVE  tlb[t][i].asid = satp.asid
    BY <2>2 DEF TlbCoherent, EntryCoherent
  <2>3. ASSUME NEW t \in {"I", "D"}, NEW i \in Index, tlb'[t][i].valid,
               NEW w \in Page, <<w, tlb[t][i].global>> \in changed
        PROVE  <<w, tlb[t][i].global>> \in changed'
    <3>1. tlb[t][i].global \/ asid # satp.asid
      BY <2>1, <2>2, <2>3
    <3>2. <<w, tlb[t][i].global>>[2] \/ asid # satp.asid
      BY <3>1, Zenon
    <3> QED
      BY <1>2, <2>3, <3>2, Zenon DEF sfence_asid
  <2> QED
    BY <1>2, <2>1, <2>3, FenceCoherent DEF sfence_asid
<1>3. ASSUME NEW v \in Pages, sfence_va(v) PROVE TlbCoherent'
  <2>1. ASSUME NEW t \in {"I", "D"}, NEW i \in Index, tlb'[t][i].valid
        PROVE  /\ tlb'[t][i] = tlb[t][i]
               /\ ~vpn_match(v, tlb[t][i].vpn, tlb[t][i].level)
    BY <1>3, <2>1, FlushedEntry DEF sfence_va, flush_va, Without
  <2> QED
    BY <1>3, <2>1, FenceCoherent DEF sfence_va
<1>4. ASSUME NEW v \in Pages, NEW asid \in Asids, sfence_va_asid(v, asid)
      PROVE  TlbCoherent'
  <2>1. ASSUME NEW t \in {"I", "D"}, NEW i \in Index, tlb'[t][i].valid
        PROVE  /\ tlb'[t][i] = tlb[t][i]
               /\ \/ tlb[t][i].global \/ tlb[t][i].asid # asid
                  \/ ~vpn_match(v, tlb[t][i].vpn, tlb[t][i].level)
    BY <1>4, <2>1, FlushedEntry DEF sfence_va_asid, flush_va_asid,
                                    flush_va, flush_asid, Without
  <2>2. ASSUME NEW t \in {"I", "D"}, NEW i \in Index, tlb[t][i].valid
        PROVE  tlb[t][i].asid = satp.asid
    BY <2>2 DEF TlbCoherent, EntryCoherent
  <2>3. ASSUME NEW t \in {"I", "D"}, NEW i \in Index, tlb'[t][i].valid,
               NEW w \in Page, vpn_match(w, tlb[t][i].vpn, tlb[t][i].level),
               <<w, tlb[t][i].global>> \in changed
        PROVE  <<w, tlb[t][i].global>> \in changed'
    <3>1. w # v \/ tlb[t][i].global \/ asid # satp.asid
      BY <2>1, <2>2, <2>3
    <3>2. \/ <<w, tlb[t][i].global>>[1] # v
          \/ <<w, tlb[t][i].global>>[2] \/ asid # satp.asid
      BY <3>1, Zenon
    <3> QED
      BY <1>4, <2>3, <3>2, Zenon DEF sfence_va_asid
  <2> QED
    BY <1>4, <2>1, <2>3, FenceCoherent DEF sfence_va_asid
<1>5. ASSUME NEW s \in Satp, write_satp(s) PROVE TlbCoherent'
  BY <1>5, FlushedEntry DEF write_satp, flush_all, Without, TlbCoherent,
                            EntryCoherent
<1>6. CASE UNCHANGED vars
  BY <1>6, FenceCoherent DEF vars
<1> QED
  BY <1>1, <1>2, <1>3, <1>4, <1>5, <1>6, WalkCoherent, StoreCoherent DEF Next

\* For every number of TLB slots and every content of the tables, a valid entry
\* of either TLB agrees with the tables on every page it answers for, unless
\* software changed that page and has not fenced it (TLB::insert, the flushes
\* of TLB.h, MMU::sfence_vma, flush_all on satp accesses and MRET).
THEOREM MmuCoherent == Spec => []TlbCoherent
<1>1. Init => TlbCoherent
  BY DEF Init, TlbCoherent, EntryCoherent, NoEntry
<1> QED
  BY <1>1, MmuTypes, NextCoherent, PTL DEF Spec

-----------------------------------------------------------------------------
(* Translations. *)

\* The first of the slots that hit is one of them.
LEMMA FirstHit ==
    ASSUME NEW S, S \subseteq Index, S # {}
    PROVE  Min(S) \in S
<1>1. S \subseteq Nat
  BY MmuAssumption DEF Index
<1>2. PICK x \in S : \A y \in S : ~(<<y, x>> \in OpToRel(<, Nat))
  BY <1>1, WFMin, NatLessThanWellFounded, Zenon
<1>3. \A y \in S : ~(y < x)
  BY <1>1, <1>2, Zenon DEF OpToRel
<1>4. \A y \in S : x <= y
  BY <1>1, <1>3
<1> QED
  BY <1>4, Zenon DEF Min

LEMMA CoherentFollows ==
    ASSUME TypeOK, TlbCoherent
    PROVE  FencedPagesFollowTables
<1> SUFFICES ASSUME NEW v \in Pages, ({v} \X BOOLEAN) \cap changed = {},
                    NEW access \in Accesses, NEW priv \in Modes,
                    NEW sum \in BOOLEAN, NEW mxr \in BOOLEAN
             PROVE  translate(v, access, priv, sum, mxr)
                       = Reference(v, access, priv, sum, mxr)
  BY DEF FencedPagesFollowTables
<1> DEFINE t == Which(access)
           hits == Hits(t, v)
           e == tlb[t][Min(hits)]
<1>1. CASE hits = {}
  BY <1>1 DEF translate, Reference
<1>2. CASE hits # {}
  <2>1. Min(hits) \in hits /\ Min(hits) \in Index
    BY <1>2, FirstHit DEF Hits
  <2>2. t \in {"I", "D"} /\ v \in Page
    BY MmuAssumption DEF Which
  <2>3. EntryCoherent(e) /\ e \in Entry
    BY <2>1, <2>2 DEF TlbCoherent, TypeOK
  <2>4. e.valid /\ vpn_match(v, e.vpn, e.level) /\ e.global \in BOOLEAN
    BY <2>1, <2>3 DEF Hits, Entry
  <2>5. <<v, e.global>> \notin changed
    BY <2>4
  <2>6. EntryLeaf(e) = Leaf(v)
    BY <2>2, <2>3, <2>4, <2>5 DEF EntryCoherent
  <2>7. /\ Leaf(v) # NoLeaf /\ Leaf(v).perm = e.perm
        /\ Leaf(v).ppn = e.ppn /\ Leaf(v).level = e.level
    BY <2>6 DEF EntryLeaf, NoLeaf
  <2> HIDE DEF e
  <2>8. translate(v, access, priv, sum, mxr) =
          IF ~satp.sv39 \/ priv = "M" THEN [fault |-> FALSE, page |-> v]
          ELSE IF check_perm(e.perm, access, priv, sum, mxr)
               THEN [fault |-> FALSE, page |-> make_paddr(e.ppn, v, e.level)]
               ELSE [fault |-> TRUE]
    BY <1>2 DEF translate, e
  <2> QED
    BY <2>7, <2>8 DEF Reference
<1> QED
  BY <1>1, <1>2

\* For every number of TLB slots and every content of the tables, a page that
\* has been fenced since it last changed is translated, or faults, as the
\* tables and the current mode have it, whichever TLB slots hit
\* (MMU::translate, TLB::lookup, SFENCE.VMA).
THEOREM MmuFollowsTables == Spec => []FencedPagesFollowTables
  BY MmuTypes, MmuCoherent, CoherentFollows, PTL
=============================================================================
