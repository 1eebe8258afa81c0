\* set() called next to acquire/release: claims stay exclusive and in range
\* even though set() leaves bits the count does not know about.  A bound of
\* 3 bits in 2-bit words leaves a partial tail word (bits 2-3, bit 3 beyond
\* the bound), so the `bit_bound <= bit` re-wrap of the claim loop is taken.
CONSTANTS
  Threads = {t1, t2}
  Variant = "bounded"
  BitBoundArg = 3
  BitsPerIntLg2 = 1
  StateShift = 3
  InitHeader = 0
  Hints = {0, 2, 3}
  CallerHeaders = {0, 8}
  MaxOps = 0
  Misuse = FALSE
  EnableSet = TRUE
SPECIFICATION Spec
INVARIANT ClaimsExclusive
INVARIANT ClaimsInBounds
SYMMETRY MCThreadSymmetry
