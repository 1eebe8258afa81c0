---------------------------- MODULE BitsetLayout ----------------------------
(***************************************************************************)
(* The buffer layout of Kokkos::Impl::concurrent_bitset: the enum          *)
(* constants of the struct, the header fields, and the sizing helpers      *)
(* buffer_bound and buffer_bound_lg2.  The word widths are parameters: a   *)
(* bitmap word has 2^BitsPerIntLg2 bits (32 in the code), the used count  *)
(* StateShift bits (26 in the code).                                      *)
(***************************************************************************)
EXTENDS Integers

CONSTANTS
  BitsPerIntLg2,  \* bits_per_int_lg2
  StateShift      \* state_shift

ASSUME BitsPerIntLg2 \in 0..5 /\ StateShift \in 1..26

(* The enum constants of the struct.                                       *)
BitsPerInt     == 2^BitsPerIntLg2
BitsPerIntMask == BitsPerInt - 1
MaxBitCountLg2 == StateShift - 1
MaxBitCount    == 2^MaxBitCountLg2
WordMod        == 2^(StateShift + 6)   \* the header is a uint32_t

(* state & state_used_mask, and state & state_header_mask.                 *)
UsedCount(h)   == h % 2^StateShift
StateHeader(h) == ((h \div 2^StateShift) % 32) * 2^StateShift

(* Sizing helpers: number of uint32_t words of the buffer, 0 if too big.   *)
buffer_bound_lg2(lg) ==
  IF lg <= MaxBitCountLg2
  THEN 1 + 2^(IF lg > BitsPerIntLg2 THEN lg - BitsPerIntLg2 ELSE 0)
  ELSE 0

(* Mutant: the word holding the tail bits is not counted.                 *)
buffer_bound_no_tail(bb) ==
  IF bb <= MaxBitCount THEN 1 + bb \div BitsPerInt ELSE 0

buffer_bound(bb) ==
  IF bb <= MaxBitCount
  THEN 1 + bb \div BitsPerInt + (IF bb % BitsPerInt # 0 THEN 1 ELSE 0)
  ELSE 0

=============================================================================
