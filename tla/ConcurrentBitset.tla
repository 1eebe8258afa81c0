--------------------------- MODULE ConcurrentBitset ---------------------------
(***************************************************************************)
(* Kokkos::Impl::concurrent_bitset: a lock-free set of claimable bits kept *)
(* in a buffer of unsigned words.  Word 0 is the header: the low           *)
(* state_shift bits count the claimed (and reserved) bits, the 5 bits      *)
(* above them are the state_header tag.  The remaining words are the      *)
(* bitmap.  Every thread runs acquire / release / set on the same buffer,  *)
(* each atomic read-modify-write being one step of the model.  All         *)
(* atomics and fences of the code are sequentially consistent, so a fence  *)
(* is no step of its own.                                                  *)
(*                                                                         *)
(* Widths are scaled: a bitmap word has 2^BitsPerIntLg2 bits (32 in the    *)
(* code) and the used-count field has StateShift bits (26 in the code);    *)
(* the header keeps its 5 tag bits and its spare top bit.                  *)
(*                                                                         *)
(* Return values are not variables: a successful acquire is the bit being  *)
(* added to the caller's `held`, every error path is a return to "idle"    *)
(* that leaves `held` alone.                                               *)
(***************************************************************************)
EXTENDS Integers, FiniteSets, FiniteSetsExt, BitsetLayout

CONSTANTS
  Threads,        \* the threads calling into one buffer
  Variant,        \* "bounded" (acquire_bounded) or "lg2" (acquire_bounded_lg2)
  BitBoundArg,    \* bit_bound, or bit_bound_lg2, that every caller passes
  InitHeader,     \* header word stored by the owner before the first call
  Hints,          \* hint bits passed to acquire
  CallerHeaders,  \* state_header arguments passed to every operation
  MaxOps,         \* number of calls each thread makes, 0 for no limit
  Misuse,         \* TRUE: release may name a bit the caller does not hold
  EnableSet       \* TRUE: callers also call set()

ASSUME /\ Threads # {}
       /\ Variant \in {"bounded", "lg2"}
       /\ MaxOps \in Nat /\ Misuse \in BOOLEAN /\ EnableSet \in BOOLEAN

-----------------------------------------------------------------------------
(* The bound both acquire variants compute, and the owner's buffer size.  *)
BitBound    == IF Variant = "lg2" THEN 2^BitBoundArg ELSE BitBoundArg
BufferWords == IF Variant = "lg2" THEN buffer_bound_lg2(BitBoundArg)
                                  ELSE buffer_bound(BitBoundArg)
WordCount   == BitBound \div BitsPerInt
BitmapBits  == (BufferWords - 1) * BitsPerInt

ASSUME BufferWords > 1

-----------------------------------------------------------------------------
VARIABLES
  header,   \* buffer[0]
  bits,     \* indices of the bitmap bits that are 1 (buffer[1..])
  pc,       \* where each thread is inside its current call
  bit,      \* the local `bit` of the call in progress
  held,     \* bits each thread owns: acquired and not yet released
  ops       \* calls each thread has started

vars == <<header, bits, pc, bit, held, ops>>

PCs == {"idle", "acq_undo", "acq_claim", "rel_clear", "rel_dec",
        "set_or", "set_dec"}

(* Positions set in bitmap word w (the `prev` a fetch_or/fetch_and sees). *)
WordValue(w) == {b % BitsPerInt : b \in {x \in bits : x \div BitsPerInt = w}}

(* Kokkos::countr_one(prev), and -1 when prev is all ones.                *)
CountrOne(prev) ==
  IF prev = 0..BitsPerIntMask THEN -1 ELSE Min((0..BitsPerIntMask) \ prev)

(* Mutant: acquire_bounded rejecting only hints above the bound.          *)
InvalidArgsOffByOne(hint, sh) ==
  MaxBitCount < BitBound \/ StateHeader(sh) # sh \/ BitBound < hint

(* The argument checks that make acquire return (-3,-3).                  *)
InvalidArgsLg2(hint, sh) ==
  MaxBitCountLg2 < BitBoundArg \/ StateHeader(sh) # sh \/ BitBound < hint

InvalidArgsBounded(hint, sh) ==
  MaxBitCount < BitBound \/ StateHeader(sh) # sh \/ BitBound <= hint

InvalidArgs(hint, sh) ==
  IF Variant = "lg2" THEN InvalidArgsLg2(hint, sh) ELSE InvalidArgsBounded(hint, sh)

(* The next bit tried after losing the race for `b`, word value `prev`.   *)
(* Mutants: after a full word, retry the same word / never wrap to 0.     *)
WrapBitSameWord(w, b) == w * BitsPerInt + (b % BitsPerInt)
WrapBitNoWrap(w, b)   == (w + 1) * BitsPerInt + (b % BitsPerInt)

WrapBit(w, b) ==
  (IF w + 1 < WordCount THEN (w + 1) * BitsPerInt ELSE 0) + (b % BitsPerInt)

NextBitLg2(b, prev) ==
  LET w == b \div BitsPerInt
      j == CountrOne(prev)
  IN  IF 0 <= j THEN w * BitsPerInt + j ELSE WrapBit(w, b)

(* Mutant: a j found in the tail word is not checked against the bound.  *)
NextBitBoundedNoBound(b, prev) ==
  LET w  == b \div BitsPerInt
      j  == CountrOne(prev)
      b1 == IF 0 <= j THEN w * BitsPerInt + j ELSE b
  IN  IF j < 0 THEN WrapBit(w, b1) ELSE b1

NextBitBounded(b, prev) ==
  LET w  == b \div BitsPerInt
      j  == CountrOne(prev)
      b1 == IF 0 <= j THEN w * BitsPerInt + j ELSE b
  IN  IF j < 0 \/ BitBound <= b1 THEN WrapBit(w, b1) ELSE b1

NextBit(b, prev) ==
  IF Variant = "lg2" THEN NextBitLg2(b, prev) ELSE NextBitBounded(b, prev)

Dec(h) == (h - 1) % WordMod

-----------------------------------------------------------------------------
Init ==
  /\ header = InitHeader
  /\ bits = {}
  /\ pc = [t \in Threads |-> "idle"]
  /\ bit = [t \in Threads |-> 0]
  /\ held = [t \in Threads |-> {}]
  /\ ops = [t \in Threads |-> 0]

(* A thread starts a new call.  With a call budget, each thread stops     *)
(* after MaxOps calls, which is what lets a caller's claim loop run alone. *)
Budgeted == MaxOps > 0

Invoke(t, to) ==
  /\ pc[t] = "idle"
  /\ Budgeted => ops[t] < MaxOps
  /\ ops' = IF Budgeted THEN [ops EXCEPT ![t] = @ + 1] ELSE ops
  /\ pc' = [pc EXCEPT ![t] = to]

Return(t) == pc' = [pc EXCEPT ![t] = "idle"]

(* acquire: bad bound, header or hint; returns (-3,-3) touching nothing.  *)
AcquireInvalid(t) ==
  /\ \E hint \in Hints, sh \in CallerHeaders : InvalidArgs(hint, sh)
  /\ Invoke(t, "idle")
  /\ UNCHANGED <<header, bits, bit, held>>

(* Mutant: the fullness test `bit_bound <= state_bit_used` written `<`.   *)
AcquireReserveOffByOne(t) ==
  \E hint \in Hints, sh \in CallerHeaders :
    /\ ~InvalidArgs(hint, sh)
    /\ header' = (header + 1) % WordMod
    /\ Invoke(t, IF sh # StateHeader(header) \/ BitBound < UsedCount(header)
                 THEN "acq_undo" ELSE "acq_claim")
    /\ bit' = [bit EXCEPT ![t] = hint]
    /\ UNCHANGED <<bits, held>>

(* acquire: atomic_fetch_add(buffer, 1), then the tag and fullness test.  *)
AcquireReserve(t) ==
  \E hint \in Hints, sh \in CallerHeaders :
    /\ ~InvalidArgs(hint, sh)
    /\ header' = (header + 1) % WordMod
    /\ Invoke(t, IF sh # StateHeader(header) \/ BitBound <= UsedCount(header)
                 THEN "acq_undo" ELSE "acq_claim")
    /\ bit' = [bit EXCEPT ![t] = hint]
    /\ UNCHANGED <<bits, held>>

(* Mutant: the failed reservation is not given back.                     *)
AcquireUndoNoSub(t) ==
  /\ pc[t] = "acq_undo"
  /\ Return(t)
  /\ UNCHANGED <<header, bits, bit, held, ops>>

(* acquire: atomic_fetch_sub(buffer, 1), return (-2,-2) or (-1,-1).       *)
AcquireUndo(t) ==
  /\ pc[t] = "acq_undo"
  /\ header' = Dec(header)
  /\ Return(t)
  /\ UNCHANGED <<bits, bit, held, ops>>

(* Mutant: the claim loop takes the bit without testing `prev & mask`.   *)
AcquireClaimNoTest(t) ==
  /\ pc[t] = "acq_claim"
  /\ bits' = bits \cup {bit[t]}
  /\ held' = [held EXCEPT ![t] = @ \cup {bit[t]}]
  /\ Return(t)
  /\ UNCHANGED <<header, bit, ops>>

(* acquire: one round of the claim loop, atomic_fetch_or on the word of   *)
(* `bit`; a won race returns the bit, a lost one picks the next bit.      *)
AcquireClaim(t) ==
  LET b    == bit[t]
      prev == WordValue(b \div BitsPerInt)
  IN  /\ pc[t] = "acq_claim"
      /\ bits' = bits \cup {b}
      /\ \/ /\ b % BitsPerInt \notin prev
            /\ held' = [held EXCEPT ![t] = @ \cup {b}]
            /\ Return(t)
            /\ UNCHANGED bit
         \/ /\ b % BitsPerInt \in prev
            /\ bit' = [bit EXCEPT ![t] = NextBit(b, prev)]
            /\ UNCHANGED <<pc, held>>
      /\ UNCHANGED <<header, ops>>

(* The bits a thread passes to release.                                   *)
Releasable(t) == IF Misuse THEN 0..BitBound - 1 ELSE held[t]

(* release: compare state_header with a plain read of buffer[0].          *)
ReleaseCheck(t) ==
  \E b \in Releasable(t), sh \in CallerHeaders :
    /\ Invoke(t, IF sh = StateHeader(header) THEN "rel_clear" ELSE "idle")
    /\ bit' = [bit EXCEPT ![t] = b]
    /\ UNCHANGED <<header, bits, held>>

(* Mutant: the bit is tested in the word after the AND, not in `prev`.    *)
ReleaseClearTestsAfter(t) ==
  LET b == bit[t] IN
  /\ pc[t] = "rel_clear"
  /\ bits' = bits \ {b}
  /\ held' = [held EXCEPT ![t] = @ \ {b}]
  /\ pc' = [pc EXCEPT ![t] = IF b \in bits' THEN "rel_dec" ELSE "idle"]
  /\ UNCHANGED <<header, bit, ops>>

(* release: atomic_fetch_and with ~mask; a bit already 0 returns -1.      *)
ReleaseClear(t) ==
  LET b == bit[t] IN
  /\ pc[t] = "rel_clear"
  /\ bits' = bits \ {b}
  /\ held' = [held EXCEPT ![t] = @ \ {b}]
  /\ pc' = [pc EXCEPT ![t] = IF b \in bits THEN "rel_dec" ELSE "idle"]
  /\ UNCHANGED <<header, bit, ops>>

(* release: atomic_fetch_sub(buffer, 1), returns the new count.           *)
ReleaseDecrement(t) ==
  /\ pc[t] = "rel_dec"
  /\ header' = Dec(header)
  /\ Return(t)
  /\ UNCHANGED <<bits, bit, held, ops>>

(* set: the caller names an in-range bit that is not set (its Requires),  *)
(* then the header tag is compared as in release.                         *)
SetCheck(t) ==
  \E b \in (0..BitBound - 1) \ bits, sh \in CallerHeaders :
    /\ EnableSet
    /\ Invoke(t, IF sh = StateHeader(header) THEN "set_or" ELSE "idle")
    /\ bit' = [bit EXCEPT ![t] = b]
    /\ UNCHANGED <<header, bits, held>>

(* set: atomic_fetch_or; a bit that was 0 returns -1 without touching the *)
(* count, a bit that was 1 goes on to decrement the count.                *)
SetOr(t) ==
  /\ pc[t] = "set_or"
  /\ bits' = bits \cup {bit[t]}
  /\ pc' = [pc EXCEPT ![t] = IF bit[t] \in bits THEN "set_dec" ELSE "idle"]
  /\ UNCHANGED <<header, bit, held, ops>>

(* set: atomic_fetch_sub(buffer, 1).                                      *)
SetDecrement(t) ==
  /\ pc[t] = "set_dec"
  /\ header' = Dec(header)
  /\ Return(t)
  /\ UNCHANGED <<bits, bit, held, ops>>

(* The steps of a call in progress; they are what fairness is about.      *)
InCall(t) ==
  \/ AcquireUndo(t) \/ AcquireClaim(t)
  \/ ReleaseClear(t) \/ ReleaseDecrement(t)
  \/ SetOr(t) \/ SetDecrement(t)

Next ==
  \E t \in Threads :
    \/ AcquireInvalid(t) \/ AcquireReserve(t) \/ ReleaseCheck(t)
    \/ SetCheck(t) \/ InCall(t)

Spec == Init /\ [][Next]_vars

(* A thread inside a call keeps being scheduled until the call returns;   *)
(* nothing forces an idle thread to make another call.                    *)
FairSpec == Spec /\ \A t \in Threads : WF_vars(InCall(t))

-----------------------------------------------------------------------------
TypeOK ==
  /\ header \in 0..WordMod - 1
  /\ bits \subseteq Nat
  /\ pc \in [Threads -> PCs]
  /\ bit \in [Threads -> 0..BitBound]
  /\ held \in [Threads -> SUBSET Nat]
  /\ ops \in [Threads -> 0..MaxOps]

(* Calls whose +1 on the header is not yet matched by a bit set, or whose *)
(* bit clear is not yet matched by the -1.                                *)
InFlight == {t \in Threads : pc[t] \in {"acq_undo", "acq_claim", "rel_dec"}}

(* Uniqueness (acquire's fetch_or arbitration): no bit is owned by two    *)
(* threads at once, and every owned bit is 1 in the bitmap.               *)
ClaimsExclusive ==
  /\ \A t, u \in Threads : t # u => held[t] \cap held[u] = {}
  /\ \A t \in Threads : held[t] \subseteq bits

(* acquire only hands out bits below the bound, and no fetch_or of any    *)
(* operation writes outside the bitmap words the owner allocated.         *)
ClaimsInBounds ==
  /\ \A t \in Threads : held[t] \subseteq 0..BitBound - 1
  /\ bits \subseteq 0..BitmapBits - 1

(* The two-fetch_add protocol of acquire and release keeps the header     *)
(* word exact: it is the owner's tag plus the bits set plus the calls     *)
(* between their header update and their bitmap update.  So the count    *)
(* never wraps into the tag, and once the calls quiesce it equals the     *)
(* number of bits set.                                                    *)
HeaderAccounting ==
  header = InitHeader + Cardinality(bits) + Cardinality(InFlight)

(* The claim loop of acquire is only entered with a zero bit below the    *)
(* bound: the reservation made before the fence guarantees one exists.   *)
FreeBitForClaimer ==
  \A t \in Threads : pc[t] = "acq_claim" => (0..BitBound - 1) \ bits # {}

(* The used count never carries into the state_header bits, so callers   *)
(* passing the owner's tag never see a mismatch.  The code comment on     *)
(* the header layout promises this for up to max_bit_count concurrent    *)
(* acquire calls on a full bitset.                                        *)
TagIntact == StateHeader(header) = StateHeader(InitHeader)

(* Once a reservation has succeeded, the claim loop of acquire returns a  *)
(* bit: the `while (1)` spin ends.                                        *)
ClaimTerminates ==
  \A t \in Threads : pc[t] = "acq_claim" ~> pc[t] = "idle"

=============================================================================
