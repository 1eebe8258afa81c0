\* acquire_bounded with a bit_bound that is not a multiple of the word
\* width: 6 bits, a full 4-bit word and a 2-bit tail word.
CONSTANTS
  Threads = {t1, t2}
  Variant = "bounded"
  BitBoundArg = 6
  BitsPerIntLg2 = 2
  StateShift = 4
  InitHeader = 0
  Hints = {0, 4}
  CallerHeaders = {0}
  MaxOps = 6
  Misuse = FALSE
  EnableSet = FALSE
SPECIFICATION FairSpec
PROPERTY ClaimTerminates
CHECK_DEADLOCK FALSE
