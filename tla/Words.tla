-------------------------------- MODULE Words --------------------------------
(***************************************************************************)
(* The fixed-width integers the instruction semantics computes with.  A    *)
(* register holds a number in 0..2^XLEN-1, as uint64_t does; the casts of  *)
(* the code to a signed or a narrower type are Signed and Trunc.           *)
(*                                                                         *)
(* ByteBits is 8 in the code.  Model checking scales every width down by   *)
(* the same factor, which keeps byte counts, offsets within a word and     *)
(* addresses as they are.                                                  *)
(***************************************************************************)
EXTENDS Integers, FiniteSetsExt, Bitwise

CONSTANT ByteBits        \* bits of a byte

ASSUME ByteBitsAssumption == ByteBits \in Nat \ {0}

XLEN == 8 * ByteBits     \* uint64_t
WORD == 4 * ByteBits     \* uint32_t

\* static_cast to an unsigned type of n bits.
Trunc(v, n) == v % 2^n

\* static_cast to a signed type of n bits, as a number.
Signed(v, n) ==
  LET t == v % 2^n IN IF t >= 2^(n - 1) THEN t - 2^n ELSE t

\* C++ shifts of an n-bit value: >> of a signed type is arithmetic.
Sll(v, k, n) == Trunc(Trunc(v, n) * 2^k, n)
Srl(v, k, n) == Trunc(v, n) \div 2^k
Sra(v, k, n) == Signed(v, n) \div 2^k

\* C++ division truncates towards zero and % takes the sign of the dividend.
Quotient(a, b) ==
  LET q == (IF a < 0 THEN -a ELSE a) \div (IF b < 0 THEN -b ELSE b)
  IN  IF (a < 0) = (b < 0) THEN q ELSE -q

Remainder(a, b) == a - b * Quotient(a, b)

\* int32_t / int64_t at their lower limit.
Least(n) == -2^(n - 1)

Flag(p) == IF p THEN 1 ELSE 0
==============================================================================
