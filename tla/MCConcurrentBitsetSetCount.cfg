\* One set() on a free bit, as its Requires asks: the used count in the
\* header must count the bit it sets, as acquire's reservation does.
CONSTANTS
  Threads = {t1, t2}
  Variant = "bounded"
  BitBoundArg = 2
  BitsPerIntLg2 = 1
  StateShift = 3
  InitHeader = 0
  Hints = {0}
  CallerHeaders = {0}
  MaxOps = 0
  Misuse = FALSE
  EnableSet = TRUE
SPECIFICATION Spec
INVARIANT HeaderAccounting
