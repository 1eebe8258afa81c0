\* acquire_bounded / release with honest callers: 3 threads, 4 bits in two
\* 2-bit words, a 3-bit used count (so a full bitset plus 3 racing
\* reservations fills the count field exactly).
CONSTANTS
  Threads = {t1, t2, t3}
  Variant = "bounded"
  BitBoundArg = 4
  BitsPerIntLg2 = 1
  StateShift = 3
  InitHeader = 0
  Hints = {0, 3, 4}
  CallerHeaders = {0, 8}
  MaxOps = 0
  Misuse = FALSE
  EnableSet = FALSE
SPECIFICATION Spec
INVARIANT TypeOK
INVARIANT ClaimsExclusive
INVARIANT ClaimsInBounds
INVARIANT HeaderAccounting
INVARIANT FreeBitForClaimer
INVARIANT TagIntact
SYMMETRY MCThreadSymmetry
