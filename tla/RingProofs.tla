----------------------------- MODULE RingProofs -----------------------------
(***************************************************************************)
(* What pushes, pops and flushes do to a ring, for every size of the ring. *)
(* These lemmas are the only place where the proofs look at %.             *)
(***************************************************************************)
EXTENDS Ring, WellFoundedInduction, TLAPS

-----------------------------------------------------------------------------
(* Indices. *)

\* An index inside the array is its own remainder.
LEMMA ModInside ==
    ASSUME NEW D \in Nat \ {0}, NEW x \in 0 .. D - 1
    PROVE  x % D = x
  OBVIOUS

\* An index one lap too far comes back by D.
LEMMA ModWrap ==
    ASSUME NEW D \in Nat \ {0}, NEW x \in D .. 2 * D - 1
    PROVE  x % D = x - D
  OBVIOUS

LEMMA ModRange ==
    ASSUME NEW D \in Nat \ {0}, NEW x \in Nat
    PROVE  x % D \in 0 .. D - 1
  OBVIOUS

\* Walking up from a cursor by at most one lap.
LEMMA Up ==
    ASSUME NEW D \in Nat \ {0}, NEW h \in 0 .. D - 1, NEW k \in 0 .. D
    PROVE  /\ (h + k) % D = IF h + k < D THEN h + k ELSE h + k - D
           /\ (h + k) % D \in 0 .. D - 1
  OBVIOUS

\* Walking down from a cursor by at most one lap.
LEMMA Down ==
    ASSUME NEW D \in Nat \ {0}, NEW t \in 0 .. D - 1, NEW k \in 0 .. D
    PROVE  /\ (t + D - k) % D = IF t >= k THEN t - k ELSE t + D - k
           /\ (t + D - k) % D \in 0 .. D - 1
  OBVIOUS

\* A window that starts at h is one run of slots, or two when it wraps.
LEMMA WindowRuns ==
    ASSUME NEW D \in Nat \ {0}, NEW h \in 0 .. D - 1, NEW c \in 0 .. D,
           NEW i \in 0 .. D - 1
    PROVE  InWindow(i, h, c, D) <=>
              \/ h <= i /\ i < h + c
              \/ i < h /\ i + D < h + c
<1>1. ASSUME NEW k \in 0 .. c - 1, i = (h + k) % D
      PROVE  \/ h <= i /\ i < h + c
             \/ i < h /\ i + D < h + c
  <2>1. k \in 0 .. D
    OBVIOUS
  <2>2. (h + k) % D = IF h + k < D THEN h + k ELSE h + k - D
    BY <2>1, Up
  <2> QED
    BY <1>1, <2>2
<1>2. ASSUME h <= i, i < h + c PROVE InWindow(i, h, c, D)
  <2>1. i - h \in 0 .. c - 1 /\ h + (i - h) = i
    BY <1>2
  <2>2. i % D = i
    BY ModInside
  <2> QED
    BY <2>1, <2>2 DEF InWindow
<1>3. ASSUME i < h, i + D < h + c PROVE InWindow(i, h, c, D)
  <2>1. i + D - h \in 0 .. c - 1 /\ h + (i + D - h) = i + D
    BY <1>3
  <2>2. i + D \in D .. 2 * D - 1 /\ (i + D) - D = i
    OBVIOUS
  <2>3. (i + D) % D = i
    BY <2>2, ModWrap
  <2> QED
    BY <2>1, <2>3 DEF InWindow
<1> QED
  BY <1>1, <1>2, <1>3 DEF InWindow

\* The first match of a scan exists and is the least.
LEMMA FirstIsLeast ==
    ASSUME NEW S \in SUBSET Nat, S # {}
    PROVE  First(S) \in S /\ \A j \in S : First(S) <= j
<1>1. PICK n \in S : \A j \in S : ~ (<<j, n>> \in OpToRel(<, Nat))
  BY WFMin, NatLessThanWellFounded, Zenon
<1>2. \A j \in S : ~ (j < n)
  BY <1>1, Zenon DEF OpToRel
<1>3. \A j \in S : n <= j
  BY <1>2
<1> QED
  BY <1>3, Zenon DEF First

-----------------------------------------------------------------------------
(* How the cursors and the window move. *)

LEMMA PushWindow ==
    ASSUME NEW D \in Nat \ {0}, NEW h \in 0 .. D - 1, NEW c \in 0 .. D - 1,
           NEW t \in 0 .. D - 1, t = (h + c) % D
    PROVE  /\ (t + 1) % D = (h + (c + 1)) % D
           /\ \A i \in 0 .. D - 1 :
                 InWindow(i, h, c + 1, D) <=> i = t \/ InWindow(i, h, c, D)
<1>0. c \in 0 .. D /\ c + 1 \in 0 .. D /\ 1 \in 0 .. D
  OBVIOUS
<1>1. t = IF h + c < D THEN h + c ELSE h + c - D
  BY <1>0, Up
<1>2. (t + 1) % D = IF t + 1 < D THEN t + 1 ELSE t + 1 - D
  BY <1>0, Up
<1>3. (h + (c + 1)) % D = IF h + (c + 1) < D THEN h + (c + 1) ELSE h + (c + 1) - D
  BY <1>0, Up
<1>4. (t + 1) % D = (h + (c + 1)) % D
  BY <1>1, <1>2, <1>3
<1>5. ASSUME NEW i \in 0 .. D - 1
      PROVE  InWindow(i, h, c + 1, D) <=> i = t \/ InWindow(i, h, c, D)
  <2>1. InWindow(i, h, c, D) <=> \/ h <= i /\ i < h + c
                                 \/ i < h /\ i + D < h + c
    BY <1>0, WindowRuns
  <2>2. InWindow(i, h, c + 1, D) <=> \/ h <= i /\ i < h + (c + 1)
                                     \/ i < h /\ i + D < h + (c + 1)
    BY <1>0, WindowRuns
  <2> QED
    BY <1>1, <2>1, <2>2
<1> QED
  BY <1>4, <1>5

LEMMA PopOldestWindow ==
    ASSUME NEW D \in Nat \ {0}, NEW h \in 0 .. D - 1, NEW c \in 0 .. D,
           NEW n \in 0 .. c, NEW t \in 0 .. D - 1, t = (h + c) % D
    PROVE  /\ t = (((h + n) % D) + (c - n)) % D
           /\ \A i \in 0 .. D - 1 :
                 InWindow(i, (h + n) % D, c - n, D)
                    <=> InWindow(i, h, c, D) /\ ~ InWindow(i, h, n, D)
<1>0. n \in 0 .. D /\ c - n \in 0 .. D
  OBVIOUS
<1> DEFINE g == (h + n) % D
<1>1. /\ g = IF h + n < D THEN h + n ELSE h + n - D
      /\ g \in 0 .. D - 1
  BY <1>0, Up
<1>2. t = IF h + c < D THEN h + c ELSE h + c - D
  BY Up
<1> HIDE DEF g
<1>3. (g + (c - n)) % D = IF g + (c - n) < D THEN g + (c - n) ELSE g + (c - n) - D
  BY <1>0, <1>1, Up
<1>4. t = (g + (c - n)) % D
  BY <1>1, <1>2, <1>3
<1>5. ASSUME NEW i \in 0 .. D - 1
      PROVE  InWindow(i, g, c - n, D)
                <=> InWindow(i, h, c, D) /\ ~ InWindow(i, h, n, D)
  <2>1. InWindow(i, h, c, D) <=> \/ h <= i /\ i < h + c
                                 \/ i < h /\ i + D < h + c
    BY WindowRuns
  <2>2. InWindow(i, h, n, D) <=> \/ h <= i /\ i < h + n
                                 \/ i < h /\ i + D < h + n
    BY <1>0, WindowRuns
  <2>3. InWindow(i, g, c - n, D) <=> \/ g <= i /\ i < g + (c - n)
                                     \/ i < g /\ i + D < g + (c - n)
    BY <1>0, <1>1, WindowRuns
  <2> QED
    BY <1>1, <2>1, <2>2, <2>3
<1> QED
  BY <1>4, <1>5 DEF g

LEMMA PopNewestWindow ==
    ASSUME NEW D \in Nat \ {0}, NEW h \in 0 .. D - 1, NEW c \in 0 .. D,
           NEW n \in 0 .. c, NEW t \in 0 .. D - 1, t = (h + c) % D
    PROVE  /\ (t + D - n) % D = (h + (c - n)) % D
           /\ \A i \in 0 .. D - 1 :
                 InWindow(i, h, c - n, D) <=>
                    /\ InWindow(i, h, c, D)
                    /\ ~ InTail(i, t, n, D)
<1>0. n \in 0 .. D /\ c - n \in 0 .. D
  OBVIOUS
<1>1. t = IF h + c < D THEN h + c ELSE h + c - D
  BY Up
<1>2. (t + D - n) % D = IF t >= n THEN t - n ELSE t + D - n
  BY <1>0, Down
<1>3. (h + (c - n)) % D = IF h + (c - n) < D THEN h + (c - n) ELSE h + (c - n) - D
  BY <1>0, Up
<1>4. (t + D - n) % D = (h + (c - n)) % D
  BY <1>1, <1>2, <1>3
<1>5. ASSUME NEW k \in 0 .. n - 1
      PROVE  (t + D - 1 - k) % D = IF t > k THEN t - 1 - k ELSE t + D - 1 - k
  <2>1. k + 1 \in 0 .. D /\ t + D - 1 - k = t + D - (k + 1)
    OBVIOUS
  <2>2. (t + D - (k + 1)) % D = IF t >= k + 1 THEN t - (k + 1) ELSE t + D - (k + 1)
    BY <2>1, Down
  <2> QED
    BY <2>1, <2>2
<1>6. ASSUME NEW i \in 0 .. D - 1
      PROVE  InTail(i, t, n, D) <=>
                \/ i < t /\ i >= t - n
                \/ i >= t /\ i >= t + D - n
  <2>1. ASSUME NEW k \in 0 .. n - 1, i = (t + D - 1 - k) % D
        PROVE  \/ i < t /\ i >= t - n
               \/ i >= t /\ i >= t + D - n
    <3>1. i = IF t > k THEN t - 1 - k ELSE t + D - 1 - k
      BY <1>5, <2>1
    <3> QED
      BY <3>1
  <2>2. ASSUME i < t, i >= t - n
        PROVE  InTail(i, t, n, D)
    <3>1. t - 1 - i \in 0 .. n - 1
      BY <2>2
    <3>2. (t + D - 1 - (t - 1 - i)) % D
             = IF t > t - 1 - i THEN t - 1 - (t - 1 - i) ELSE t + D - 1 - (t - 1 - i)
      BY <1>5, <3>1
    <3>3. i = (t + D - 1 - (t - 1 - i)) % D
      BY <3>2
    <3> QED
      BY <3>1, <3>3 DEF InTail
  <2>3. ASSUME i >= t, i >= t + D - n
        PROVE  InTail(i, t, n, D)
    <3>1. t + D - 1 - i \in 0 .. n - 1
      BY <2>3
    <3>2. t + D - 1 - (t + D - 1 - i) = i
      OBVIOUS
    <3>3. i % D = i
      BY ModInside
    <3> QED
      BY <3>1, <3>2, <3>3 DEF InTail
  <2> QED
    BY <2>1, <2>2, <2>3 DEF InTail
<1>7. ASSUME NEW i \in 0 .. D - 1
      PROVE  InWindow(i, h, c - n, D) <=>
                /\ InWindow(i, h, c, D)
                /\ ~ InTail(i, t, n, D)
  <2>1. InWindow(i, h, c, D) <=> \/ h <= i /\ i < h + c
                                 \/ i < h /\ i + D < h + c
    BY WindowRuns
  <2>2. InWindow(i, h, c - n, D) <=> \/ h <= i /\ i < h + (c - n)
                                     \/ i < h /\ i + D < h + (c - n)
    BY <1>0, WindowRuns
  <2>3. InTail(i, t, n, D) <=>
                \/ i < t /\ i >= t - n
                \/ i >= t /\ i >= t + D - n
    BY <1>6
  <2> QED
    BY <1>1, <2>1, <2>2, <2>3
<1> QED
  BY <1>4, <1>7
-----------------------------------------------------------------------------
(* The operations keep a ring coherent. *)

\* A ring with no valid entry and equal cursors is coherent.
LEMMA RingEmpty ==
    ASSUME NEW D \in Nat \ {0}, NEW h \in 0 .. D - 1, NEW ring,
           \A i \in 0 .. D - 1 : ring[i].valid = FALSE
    PROVE  Coherent(ring, h, h, 0, D)
<1>1. (h + 0) % D = h
  BY ModInside
<1>2. \A i : ~ InWindow(i, h, 0, D)
  BY DEF InWindow
<1> QED
  BY <1>1, <1>2 DEF Coherent

\* A push at the tail.
LEMMA RingPush ==
    ASSUME NEW D \in Nat \ {0}, NEW h \in 0 .. D - 1, NEW t \in 0 .. D - 1,
           NEW c \in 0 .. D - 1, NEW ring, NEW new,
           Coherent(ring, h, t, c, D),
           \A i \in 0 .. D - 1 : new[i].valid <=> i = t \/ ring[i].valid
    PROVE  Coherent(new, h, (t + 1) % D, c + 1, D)
<1>1. /\ t = (h + c) % D
      /\ \A i \in 0 .. D - 1 : ring[i].valid <=> InWindow(i, h, c, D)
  BY DEF Coherent
<1>2. /\ (t + 1) % D = (h + (c + 1)) % D
      /\ \A i \in 0 .. D - 1 :
            InWindow(i, h, c + 1, D) <=> i = t \/ InWindow(i, h, c, D)
  BY <1>1, PushWindow
<1> QED
  BY <1>1, <1>2 DEF Coherent

\* A pop at the head.
LEMMA RingPop ==
    ASSUME NEW D \in Nat \ {0}, NEW h \in 0 .. D - 1, NEW t \in 0 .. D - 1,
           NEW c \in 1 .. D, NEW ring, NEW new,
           Coherent(ring, h, t, c, D),
           \A i \in 0 .. D - 1 : new[i].valid <=> i # h /\ ring[i].valid
    PROVE  Coherent(new, (h + 1) % D, t, c - 1, D)
<1>1. /\ t = (h + c) % D
      /\ \A i \in 0 .. D - 1 : ring[i].valid <=> InWindow(i, h, c, D)
  BY DEF Coherent
<1>2. 1 \in 0 .. c /\ c \in 0 .. D
  OBVIOUS
<1>3. /\ t = (((h + 1) % D) + (c - 1)) % D
      /\ \A i \in 0 .. D - 1 :
            InWindow(i, (h + 1) % D, c - 1, D)
               <=> InWindow(i, h, c, D) /\ ~ InWindow(i, h, 1, D)
  BY <1>1, <1>2, PopOldestWindow
<1>4. \A i \in 0 .. D - 1 : InWindow(i, h, 1, D) <=> i = h
  <2>1. (h + 0) % D = h
    BY ModInside
  <2>2. 0 .. 1 - 1 = {0}
    OBVIOUS
  <2> QED
    BY <2>1, <2>2 DEF InWindow
<1> QED
  BY <1>1, <1>3, <1>4 DEF Coherent

\* Several pops at the tail.
LEMMA RingPopNewest ==
    ASSUME NEW D \in Nat \ {0}, NEW h \in 0 .. D - 1, NEW t \in 0 .. D - 1,
           NEW c \in 0 .. D, NEW n \in 0 .. c, NEW ring, NEW new,
           Coherent(ring, h, t, c, D),
           \A i \in 0 .. D - 1 :
              new[i].valid <=>
                 /\ ring[i].valid
                 /\ ~ InTail(i, t, n, D)
    PROVE  Coherent(new, h, (t + D - n) % D, c - n, D)
<1>1. /\ t = (h + c) % D
      /\ \A i \in 0 .. D - 1 : ring[i].valid <=> InWindow(i, h, c, D)
  BY DEF Coherent
<1>2. /\ (t + D - n) % D = (h + (c - n)) % D
      /\ \A i \in 0 .. D - 1 :
            InWindow(i, h, c - n, D) <=>
               /\ InWindow(i, h, c, D)
               /\ ~ InTail(i, t, n, D)
  BY <1>1, PopNewestWindow
<1> QED
  BY <1>1, <1>2 DEF Coherent

-----------------------------------------------------------------------------
(* Positions: where the k-th entry from either end is after an operation. *)

\* Different positions are different slots.
LEMMA SlotsDiffer ==
    ASSUME NEW D \in Nat \ {0}, NEW h \in 0 .. D - 1,
           NEW j \in 0 .. D - 1, NEW k \in 0 .. D - 1, (h + j) % D = (h + k) % D
    PROVE  j = k
<1>1. j \in 0 .. D /\ k \in 0 .. D
  OBVIOUS
<1>2. (h + j) % D = IF h + j < D THEN h + j ELSE h + j - D
  BY <1>1, Up
<1>3. (h + k) % D = IF h + k < D THEN h + k ELSE h + k - D
  BY <1>1, Up
<1> QED
  BY <1>2, <1>3

\* The cursors of a ring of D slots with c entries.
Cursors(h, t, c, D) ==
    /\ D \in Nat \ {0} /\ h \in 0 .. D - 1 /\ t \in 0 .. D - 1
    /\ c \in 0 .. D /\ t = (h + c) % D

\* The slot at the newest position k is the one at the oldest position c-1-k.
LEMMA NewestSlot ==
    ASSUME NEW h, NEW t, NEW c, NEW D, Cursors(h, t, c, D), NEW k \in 0 .. c - 1
    PROVE  (t + D - 1 - k) % D = (h + (c - 1 - k)) % D
<1>0. /\ D \in Nat \ {0} /\ h \in 0 .. D - 1 /\ t \in 0 .. D - 1
      /\ c \in 0 .. D /\ t = (h + c) % D
  BY DEF Cursors
<1>1. t = IF h + c < D THEN h + c ELSE h + c - D
  BY <1>0, Up
<1>2. k + 1 \in 0 .. D /\ t + D - 1 - k = t + D - (k + 1) /\ c - 1 - k \in 0 .. D
  BY <1>0
<1>3. (t + D - (k + 1)) % D = IF t >= k + 1 THEN t - (k + 1) ELSE t + D - (k + 1)
  BY <1>0, <1>2, Down
<1>4. (h + (c - 1 - k)) % D
         = IF h + (c - 1 - k) < D THEN h + (c - 1 - k) ELSE h + (c - 1 - k) - D
  BY <1>0, <1>2, Up
<1> QED
  BY <1>0, <1>1, <1>2, <1>3, <1>4

\* One entry further from a head that has moved on by one.
LEMMA NextSlot ==
    ASSUME NEW D \in Nat \ {0}, NEW h \in 0 .. D - 1, NEW k \in 0 .. D - 1
    PROVE  (((h + 1) % D) + k) % D = (h + (k + 1)) % D
<1>1. 1 \in 0 .. D /\ k \in 0 .. D /\ k + 1 \in 0 .. D
  OBVIOUS
<1>2. /\ (h + 1) % D = IF h + 1 < D THEN h + 1 ELSE h + 1 - D
      /\ (h + 1) % D \in 0 .. D - 1
  BY <1>1, Up
<1>3. (h + (k + 1)) % D = IF h + (k + 1) < D THEN h + (k + 1) ELSE h + (k + 1) - D
  BY <1>1, Up
<1> DEFINE g == (h + 1) % D
<1>4. (g + k) % D = IF g + k < D THEN g + k ELSE g + k - D
  <2> HIDE DEF g
  <2>1. g \in 0 .. D - 1
    BY <1>2 DEF g
  <2> QED
    BY <1>1, <2>1, Up
<1> QED
  BY <1>2, <1>3, <1>4

\* In a coherent ring the entries between the cursors are valid.
LEMMA WindowValid ==
    ASSUME NEW D \in Nat \ {0}, NEW h \in 0 .. D - 1, NEW t \in 0 .. D - 1,
           NEW c \in 0 .. D, NEW ring, Coherent(ring, h, t, c, D), NEW k \in 0 .. c - 1
    PROVE  (h + k) % D \in 0 .. D - 1 /\ ring[(h + k) % D].valid
<1>1. k \in 0 .. D
  OBVIOUS
<1>2. (h + k) % D \in 0 .. D - 1
  BY <1>1, Up
<1>3. InWindow((h + k) % D, h, c, D)
  BY DEF InWindow
<1> QED
  BY <1>2, <1>3 DEF Coherent
=============================================================================
