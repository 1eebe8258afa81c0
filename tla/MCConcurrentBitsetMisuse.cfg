\* Termination of acquire's claim loop, with release also called on bits the
\* caller does not hold (double release, or a bit someone else owns): each
\* thread makes a bounded number of calls, so every behaviour ends with all
\* callers done (hence no deadlock check); the header still counts exactly
\* the bits set and a claimer always has a free bit.
CONSTANTS
    Threads = {t1, t2}
    Variant = "bounded"
    BitBoundArg = 4
    BitsPerIntLg2 = 1
    StateShift = 3
    InitHeader = 0
    Hints = {0, 3}
    CallerHeaders = {0}
    MaxOps = 4
    Misuse = TRUE
    EnableSet = FALSE
SPECIFICATION FairSpec
INVARIANT HeaderAccounting
INVARIANT FreeBitForClaimer
INVARIANT TagIntact
PROPERTY ClaimTerminates
CHECK_DEADLOCK FALSE
