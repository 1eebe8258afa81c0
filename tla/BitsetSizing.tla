---------------------------- MODULE BitsetSizing ----------------------------
(***************************************************************************)
(* buffer_bound and buffer_bound_lg2 checked against a reference over all *)
(* their admissible arguments and the first inadmissible one.  The state  *)
(* is the argument pair; each behaviour evaluates one pair.               *)
(***************************************************************************)
EXTENDS BitsetLayout

VARIABLES bb, lg

Init == bb \in 0..MaxBitCount + 1 /\ lg \in 0..MaxBitCountLg2 + 1

Next == UNCHANGED <<bb, lg>>

Spec == Init /\ [][Next]_<<bb, lg>>

(* Reference: the fewest words of BitsPerInt bits that hold b bits.       *)
WordsFor(b) == CHOOSE n \in 0..b : n * BitsPerInt >= b /\ (n - 1) * BitsPerInt < b

(* buffer_bound is one header word plus ceil(bit_bound / bits_per_int),   *)
(* and buffer_bound_lg2(lg) agrees with buffer_bound(2^lg): the owner may  *)
(* size the buffer with either; both return 0 above max_bit_count.        *)
SizingMatchesReference ==
  /\ buffer_bound(bb) = IF bb <= MaxBitCount THEN 1 + WordsFor(bb) ELSE 0
  /\ buffer_bound_lg2(lg) = buffer_bound(2^lg)
=============================================================================
