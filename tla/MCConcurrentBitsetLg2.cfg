\* acquire_bounded_lg2 with hints below the bound: 2^2 bits in two words.
CONSTANTS
  Threads = {t1, t2, t3}
  Variant = "lg2"
  BitBoundArg = 2
  BitsPerIntLg2 = 1
  StateShift = 3
  InitHeader = 8
  Hints = {0, 3, 5}
  CallerHeaders = {8, 1}
  MaxOps = 0
  Misuse = FALSE
  EnableSet = FALSE
SPECIFICATION Spec
INVARIANT ClaimsExclusive
INVARIANT ClaimsInBounds
INVARIANT HeaderAccounting
SYMMETRY MCThreadSymmetry
