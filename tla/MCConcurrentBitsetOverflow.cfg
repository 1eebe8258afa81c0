\* The largest bitset the header allows (max_bit_count = 2^(StateShift-1)
\* bits, here 2) and max_bit_count threads calling acquire on it when full.
CONSTANTS
  Threads = {t1, t2}
  Variant = "bounded"
  BitBoundArg = 2
  BitsPerIntLg2 = 1
  StateShift = 2
  InitHeader = 0
  Hints = {0}
  CallerHeaders = {0}
  MaxOps = 0
  Misuse = FALSE
  EnableSet = FALSE
SPECIFICATION Spec
INVARIANT TagIntact
