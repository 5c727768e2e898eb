-------------------------------- MODULE Ring --------------------------------
(***************************************************************************)
(* The array-with-cursors FIFO that StoreBuffer.h (twice) and Scoreboard.h *)
(* implement by hand: slots 0 .. D-1, a head, a tail, a count, and a valid *)
(* bit in every slot.                                                      *)
(***************************************************************************)
EXTENDS Integers

\* The k-th entry from the oldest and from the newest, k = 0, 1, ...
FromOldest(ring, head, k, D) == ring[(head + k) % D]
FromNewest(ring, tail, k, D) == ring[(tail + D - 1 - k) % D]

WithValid(e, v) == [e EXCEPT !.valid = v]

\* Least element of a set of numbers: the first match of an upward scan.
First(S) == CHOOSE k \in S : \A j \in S : k <= j

\* Slot i holds one of the count entries that start at head.
InWindow(i, head, count, D) == \E k \in 0 .. count - 1 : i = (head + k) % D

\* Slot i holds one of the n newest entries of a ring that ends before tail.
InTail(i, tail, n, D) == \E k \in 0 .. n - 1 : i = (tail + D - 1 - k) % D

\* The three cursors agree and exactly the slots between them are valid.
Coherent(ring, head, tail, count, D) ==
    /\ tail = (head + count) % D
    /\ \A i \in 0 .. D - 1 : ring[i].valid <=> InWindow(i, head, count, D)
=============================================================================
