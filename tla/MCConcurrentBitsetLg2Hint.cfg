\* acquire_bounded_lg2 given the hint bit == 1 << bit_bound_lg2, which its
\* comment lists among the (-3,-3) cases.
CONSTANTS
  Threads = {t1}
  Variant = "lg2"
  BitBoundArg = 1
  BitsPerIntLg2 = 1
  StateShift = 3
  InitHeader = 0
  Hints = {2}
  CallerHeaders = {0}
  MaxOps = 0
  Misuse = FALSE
  EnableSet = FALSE
SPECIFICATION Spec
INVARIANT ClaimsInBounds
