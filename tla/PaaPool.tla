------------------------------- MODULE PaaPool -------------------------------
(***************************************************************************)
(* A pool of IPv4 addresses of PGW-C (ipv4_pool, pgw_paa_dynamic.hpp): a    *)
(* bitmap in words, kept in a map from index to word. A word is the set of  *)
(* its bits that are taken. An address is its distance from the first       *)
(* address of the pool, and may be negative.                                *)
(***************************************************************************)
EXTENDS Integers, FiniteSetsExt, StdMap

CONSTANT WordBits    \* the width of a word: 32 in the code

ASSUME WordBitsAssumption == WordBits \in Nat \ {0}

FullWord == 0..WordBits - 1

\* The pool of "num" addresses; the bits of the last word beyond them are taken.
NewPool(num) ==
  [w \in 0..(num - 1) \div WordBits |-> {b \in FullWord : w * WordBits + b >= num}]

\* alloc[w], which makes the word when there is none.
WordAt(alloc, w) == IF w \in DOMAIN alloc THEN alloc[w] ELSE {}

\* The bits alloc_free_bit looks at, and finds free.
FreeBits(alloc) ==
  UNION {{w * WordBits + b : b \in FullWord \ WordAt(alloc, w)} :
           w \in 0..Cardinality(DOMAIN alloc) - 1}

\* alloc_free_bit of a pool that has free bits: the first of them ...
FreeBit(alloc) == Min(FreeBits(alloc))

\* ... is taken.
AllocBit(alloc) ==
  LET w == FreeBit(alloc) \div WordBits  b == FreeBit(alloc) % WordBits
  IN MapAssign(alloc, w, WordAt(alloc, w) \cup {b})

\* free_bit, which makes the word when there is none.
ClearBit(alloc, bit) ==
  MapAssign(alloc, bit \div WordBits, WordAt(alloc, bit \div WordBits) \ {bit % WordBits})

\* Mutant: the address of the broadcast, num itself, is taken for one of the pool.
FreeAddressPast(alloc, num, a) == IF a <= num THEN ClearBit(alloc, a) ELSE alloc

\* free_address: in_pool compares signed numbers, so an address before the pool
\* is in it, and its bit belongs to a word before the first.
FreeAddress(alloc, num, a) == IF a < num THEN ClearBit(alloc, a) ELSE alloc

==============================================================================
