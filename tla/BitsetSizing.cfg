\* Real 32-bit words (bits_per_int_lg2 = 5), count field narrowed to 8 bits so
\* that every bit_bound up to max_bit_count = 128 is enumerated.
CONSTANTS
  BitsPerIntLg2 = 5
  StateShift = 8
SPECIFICATION Spec
INVARIANT SizingMatchesReference
