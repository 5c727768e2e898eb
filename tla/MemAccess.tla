----------------------------- MODULE MemAccess -----------------------------
(***************************************************************************)
(* Byte-granular memory accesses, shared by the store buffer, its abstract *)
(* specification and the pipeline.  A 64-bit data word is abstracted to a  *)
(* tag: byte k of the word d is the pair <<d, k>>, so that shifting a word *)
(* by whole bytes, masking it and comparing the result byte by byte keep   *)
(* their meaning while the bits themselves do not matter.                  *)
(***************************************************************************)
EXTENDS Integers

CONSTANTS
    MaxAddr,    \* physical byte addresses are 0 .. MaxAddr
    Sizes,      \* access sizes in bytes (1, 2, 4 and 8 in the program)
    Data,       \* tags of the words that stores write
    Blank       \* tag of the initial contents of memory

ASSUME MemAccessAssumption ==
    /\ MaxAddr \in Nat
    /\ Sizes \subseteq Nat \ {0}
    /\ Blank \notin Data

Addr == 0 .. MaxAddr

\* Tagged bytes; offsets are only bounded by the largest size.
Byte == (Data \cup {Blank}) \X Nat

\* A naturally aligned range of bytes that lies in memory.
Access == {r \in [address : Addr, size : Sizes] :
              /\ r.address % r.size = 0
              /\ r.address + r.size - 1 \in Addr}

Store == {s \in [address : Addr, size : Sizes, data : Data] :
              /\ s.address % s.size = 0
              /\ s.address + s.size - 1 \in Addr}

Covers(s, b) == s.address <= b /\ b < s.address + s.size

\* The byte a store puts at an address it covers.
ByteOf(s, b) == <<s.data, b - s.address>>

\* Memory after one store.
Apply(m, s) == [b \in Addr |-> IF Covers(s, b) THEN ByteOf(s, b) ELSE m[b]]

InitMemory == [b \in Addr |-> <<Blank, 0>>]

\* The ranges [a, a+n) and [c, c+m) share a byte; the first lies in the second.
Overlap(a, n, c, m) == a < c + m /\ c < a + n
Within(a, n, c, m)  == a >= c /\ a + n <= c + m
=============================================================================
