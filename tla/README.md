# TLA+ models of the concurrent bitset and the SYCL workgroup reduction

The source under `src/` is one C++ file,
`src/core/src/SYCL/Kokkos_SYCL_WorkgroupReduction.hpp`, which holds two Kokkos
headers back to back:

* lines 1-256: `Kokkos_SYCL_WorkgroupReduction.hpp`, the work-group reduction
  used by the SYCL back-end's parallel_reduce;
* lines 257-582: `Kokkos_ConcurrentBitset.hpp`, `Kokkos::Impl::concurrent_bitset`,
  a lock-free allocator of bit indices (the subject of `spec.md`).

The other two files (`.github/workflows/continuous-integration-linux.yml`,
`simd/performance_tests/CMakeLists.txt`) are build configuration.

## 1. Inventory

### 1.1 concurrent_bitset (lines 273-582)

**State.** One `uint32_t` buffer shared by every caller thread:
* `buffer[0]`, the header: bits 0..25 count the bits claimed plus the
  reservations in flight (`state_used_mask`), bits 26..30 are the owner's tag
  (`state_header_mask`), bit 31 is spare;
* `buffer[1..]`, the bitmap, 32 bits per word.
Callers keep only locals (`bit`, the `state` read by fetch_add, `prev`).

**Operations.** All are static, take the buffer, and are built only from
sequentially consistent atomics (`atomic_fetch_add/sub/or/and`) and
`memory_fence`:
* `buffer_bound(bit_bound)`, `buffer_bound_lg2(bit_bound_lg2)`: buffer size in
  words, 0 above `max_bit_count` (pure);
* `acquire_bounded(buffer, bit_bound, hint, state_header)` and
  `acquire_bounded_lg2(...)`: check the arguments (-3), fetch_add the header
  (the *reservation*), give it back with fetch_sub on a tag mismatch (-2) or when
  the count was already at the bound (-1), otherwise loop: fetch_or the hinted
  bit; if it was 0 return it, else jump with `countr_one(prev)` to the first 0
  of the word, or to the next word (wrapping to word 0 after `word_count`);
* `release(buffer, bit, state_header)`: compare the tag with a plain read of
  the header (-2), fetch_and the bit off (-1 if it was already 0), fetch_sub the
  header;
* `set(buffer, bit, state_header)`: tag check, fetch_or the bit; if it was 0
  return -1, otherwise fetch_sub the header.

**Interaction.** Threads interact only through the shared words; there are no
locks or CAS loops. The hard behaviours are interleavings of the two-step
acquire (header, then bitmap) and release (bitmap, then header), the claim
loop's termination, and the arithmetic edges: the bound not a multiple of 32,
a hint at the bound, the count field filling up into the tag.

**What makes it correct.** No bit is held by two callers (uniqueness); every
claimed bit is below the bound and inside the buffer; the header is the tag
plus the exact number of set bits plus the calls in flight, so the count never
wraps into the tag and equals the popcount at quiescence (spec §3); a caller
that passed the reservation always has a free bit to find and finds it.

### 1.2 workgroup_reduction, local-memory algorithm (lines 75-145)

**State.** `local_mem`, one value slot per work-item of the work-group;
`results_ptr` / `device_accessible_result_ptr` in global memory.
**Operations.** Each work-item runs the same code:
* a strided tree inside its sub-group (`join(result, local_mem[local_id + stride])`
  for stride = 1, 2, 4, ... while `stride < upper_stride_bound`, a sub-group
  barrier after each round);
* a work-group barrier;
* sub-group 0 then folds the other sub-groups' results: first those above its
  own range (the offset loop), then a second tree;
* work-item 0 calls `final`/`copy`.

**Interaction.** Shared local memory plus barriers.
**Hard parts.**
* Within a round a work-item reads a slot that another work-item writes in the
  same round.
* `upper_stride_bound` is computed in unsigned arithmetic.
* The bounds `n_subgroups` and `max_size` decide which items are folded.

**Correct when** the value copied out is the join of exactly the first
`max_size` items, each once.

### 1.3 workgroup_reduction, shuffle algorithm (lines 29-40, 147-252)

The same tree with `shift_group_left` (a sub-group collective) in place of
local memory. Per-sub-group results go to `local_mem[sg_group_id]` (only for
`sg_group_id <= n_active_subgroups`), and sub-group 0 finishes with an offset
loop and a shuffle tree. The overload is selected by
`use_shuffle_based_algorithm<ReducerType>`, which is `false` for every reducer
today (line 72). It is modelled anyway so that it is checked against the same
contract. Its first tree is compiled in one of two forms: unrolled with an `int`
stride on Intel and NVIDIA GPUs (`#if`, lines 165-176), or as a loop with an
`unsigned` stride (`#else`, lines 178-183). In the loop, `stride <
upper_stride_bound` converts the `int` bound to unsigned, so lanes above
`max_size` (negative bound) join too.

### 1.4 Not modelled

* The CI workflow and the CMake file have no runtime behaviour.
* `shift_group_right` and `select_from_group` (lines 42-66) have no caller in
  the file.
* The `TrivialWrapper` reinterpretation in the shuffle wrappers is a byte copy.
* The callers of `workgroup_reduction` (the parallel_reduce kernels) are not in
  this repository. What the models assume of them is stated in section 3.

## 2. Plan

1. **ConcurrentBitset** (done): the bitset with every atomic of every
   operation as a step, both acquire variants, release and set; the sizing
   helpers against a reference; the safety, liveness and violation runs below.
2. An abstract allocator refined by ConcurrentBitset was tried and dropped:
   with the bits a thread holds as its slots, the refinement said no more than
   `ClaimsExclusive` and `ClaimsInBounds`.
3. **WorkgroupReduction** (done): the local-memory algorithm, with sub-groups
   as processes, in lock-step or not.
4. **ShuffleReduction** (done): the shuffle algorithm.
5. **ReduceSpec and WorkgroupReductions** (done): the contract of the call,
   and both overloads checked against it.
6. Open:
   * the lg2 variant with a bound smaller than one word;
   * the local-memory algorithm with `value_count > 1` (array reducers);
   * larger work-groups (16, 32) in a lock-step-only run, if a run slot frees
     up.

## 3. Modules

| Module | Models |
|---|---|
| `BitsetLayout.tla` | the enum constants, header fields and `buffer_bound`, `buffer_bound_lg2` (lines 286-326) |
| `ConcurrentBitset.tla` | the operations of `concurrent_bitset` (lines 348-577); extends BitsetLayout |
| `BitsetSizing.tla` | check of the sizing helpers: the state is one argument pair |
| `MCConcurrentBitset.tla` | model-checking instance (thread symmetry) |
| `WorkgroupReduction.tla` | the local-memory `workgroup_reduction` (lines 75-145) |
| `ShuffleReduction.tla` | the shuffle `workgroup_reduction` (lines 147-252) and `shift_group_left` (lines 29-40) |
| `ReduceSpec.tla` | what a `workgroup_reduction` call promises, abstract |
| `WorkgroupReductions.tla` | the overload set: either algorithm, chosen in Init, checked against ReduceSpec |

### ConcurrentBitset: state and actions

Variables: `header` (buffer[0] as an integer below 2^(StateShift+6)), `bits`
(set of indices of 1 bits in the bitmap, indices past the buffer included so
that out-of-bounds writes are visible), and per thread `pc`, `bit` (the
local `bit`), `held` (bits the thread owns, i.e. the caller's view of acquire's
result), `ops` (calls started, only under a call budget).

Each atomic is one action:

| Action | Code |
|---|---|
| `AcquireInvalid` | argument checks returning (-3,-3) |
| `AcquireReserve` | `atomic_fetch_add(buffer, 1)` and the tag / full test |
| `AcquireUndo` | `atomic_fetch_sub(buffer, 1)`, return -2 / -1 |
| `AcquireClaim` | one iteration of `while (1)`: fetch_or, then return or next bit (`NextBitBounded` / `NextBitLg2`) |
| `ReleaseCheck`, `ReleaseClear`, `ReleaseDecrement` | tag read, fetch_and, fetch_sub of `release` |
| `SetCheck`, `SetOr`, `SetDecrement` | the same three steps of `set` |

Fences are not steps: every atomic is sequentially consistent (spec §6), so
the order of the steps already is the order the fences enforce.

**Scaling.** A bitmap word has `2^BitsPerIntLg2` bits (32 in the code), the
count field `StateShift` bits (26), `max_bit_count = 2^(StateShift-1)` as in the
code; the tag keeps its 5 bits. Every formula of the code is written in these
constants, so each run is the code with narrower words. Return values are not
variables: success is visible as the bit entering `held`, the error paths as
returns that leave `held` alone.

**Callers.** Honest callers release only bits in `held`; `Misuse` lets them
release any bit below the bound; `EnableSet` lets them call `set` on a bit
that is 0 when they call (its `Requires`). `Hints` and `CallerHeaders` are the
arguments enumerated, including invalid ones (hint at the bound, a foreign tag,
a tag with low bits).

**Fairness.** `FairSpec` puts weak fairness on the in-call steps of each thread
(`InCall`): a thread inside a call keeps being scheduled, as OS/GPU threads
are. Nothing forces a thread to start a call. The claim loop is lock-free, not
wait-free: while other threads keep acquiring, one thread may lose every race,
so the liveness runs give each thread a budget of `MaxOps` calls; termination
is then checked in the behaviours where the others eventually stop, which is
the claim the code's comment "There is a zero bit available somewhere" makes.
These runs end when all calls are done, which is why they set
`CHECK_DEADLOCK FALSE`; the other runs have no budget and never stop.

### WorkgroupReduction and ShuffleReduction: state and actions

**Choices made in Init.** The work-group is fixed per behaviour:
* `wg` work-items, and sub-groups of `sgmax` lanes laid out over consecutive
  linear ids, the last one possibly shorter;
* `ms` (`max_size`), in `1..wg`;
* `final`, and `devptr` (whether a device-accessible result pointer was
  passed);
* for the local-memory algorithm, `lockstep`;
* for the shuffle algorithm, `unrolled` (the `#if` first tree, else the
  `#else` loop).

A run therefore covers every shape up to its bounds.

**Values.** A value is the bag of item indices joined into it, and `join` is
bag sum. A result thus shows which items it holds and how many times each.
The caller has stored item `i` in slot `i` for `i < max_size` and the
identity (the empty bag) above. Two markers stand for values the code does not
define:
* `Junk` is what a read past `local_mem` or a shift from past the sub-group
  returns;
* `Unset` is uninitialised local memory.

Both are kept in the result, so that if either ever reached it, the contract
check would fail.

**Local-memory state.** `mem` (local_mem, one slot per work-item,
`value_count = 1`), and per sub-group `pc`, `stride` (the loop variable, which
is also the offset of the offset loop) and `joined`.

**Local-memory actions:**

| Action | Code |
|---|---|
| `RoundLockstep(k)` | one iteration of a tree loop (lines 96-99, 119-125) with every lane loading before any stores |
| `LaneJoin(k, j)`, `SubgroupBarrier(k)` | the same without lock-step: one lane's join, then `group_barrier(sg)` |
| `TreeDone(k)` | the first loop ends |
| `WorkgroupBarrier` | `group_barrier(group)`: sub-group 0 goes on, the others return |
| `FoldHigher`, `FoldDone` | the offset loop (lines 110-116) |
| `CopyResult` | the end of the second tree and lane 0's `final`/`copy` (lines 128-143) |

`upper_stride_bound` keeps its unsigned wrap-around (line 95).

**Shuffle.** ShuffleReduction has `val` (each work-item's `local_value`),
`lmem` (`local_mem`, one slot per sub-group, starting `Unset`) and `sgval`
(sub-group 0's `sg_value`). Each `shuffle_combine` iteration is one step,
because a shuffle is a collective. `StrideBelowBound` is the comparison
`stride < upper_stride_bound`: signed when `unrolled`, otherwise with the
bound converted to unsigned (modulo 2^30, which like 2^32 exceeds every
stride; TLC's integers stop at 2^31).

**Assumptions about callers.** These come from the calls in Kokkos' SYCL
parallel_reduce, which is not in this repository:
* `local_mem` has one slot per work-item (local-memory algorithm) or one per
  sub-group (shuffle algorithm);
* slots above `max_size` hold the identity;
* `max_size >= 1`.

**No fairness.** The reduction runs check safety only. Each sub-group is one
process and every loop's exit guard is the complement of its continuation
guard, so every barrier opens by construction; a liveness property would
hold whatever the loop bounds are. When every sub-group has returned,
`Returned` stutters, so deadlock checking still catches a state with no step.

## 4. Properties

* `ClaimsExclusive`: no bit in two threads' `held`, and held bits are 1.
* `ClaimsInBounds`: held bits are below the bound, and no fetch_or writes
  outside the bitmap words `buffer_bound`/`buffer_bound_lg2` allocated.
* `HeaderAccounting`: `header = InitHeader + |bits| + |calls between their
  header and bitmap update|`; implies the count equals the popcount at
  quiescence.
* `FreeBitForClaimer`: a thread in the claim loop always has a 0 bit below
  the bound (what the reservation is for).
* `TagIntact`: the state header bits never change.
* `ClaimTerminates`: a thread in the claim loop eventually returns.
* `SizingMatchesReference` (BitsetSizing): `buffer_bound(b) = 1 + ceil(b/bits_per_int)`, and
  `buffer_bound_lg2(l) = buffer_bound(2^l)`, for all admissible b, l.
* `ReduceRefinement` (WorkgroupReductions): whichever overload runs implements
  `ReduceSpec`. The result changes once, from nothing to the join of items
  `0..max_size-1`, each exactly once, with `final()` applied as asked and
  copied to the destination the arguments select.
  * For the local-memory algorithm without lock-step, the refinement mapping
    (`ReducerView`) passes the result through the reducer an idempotent join
    sees: the set of items.
  * The property thus says exact for every reducer in lock-step, and exact for
    min/max/and/or otherwise. It cannot see a double count without lock-step;
    `ResultCorrect` (reduction_race) is the property that does.
  * For the shuffle `#else` path it checks that the lanes above `max_size`,
    which join through the wrapped unsigned bound (TLC reaches it: with 4
    work-items, sub-groups of 2 and `max_size` 2, lane 3 joins an unspecified
    value), never feed a slot that is read.
* `ResultCorrect` (WorkgroupReduction): the copied value is exactly the bag
  `0..max_size-1`.
* `JoinsInBounds` (WorkgroupReduction): no join reads past `local_mem`.

## 5. Runs

| Run | cfg | Bounds | Shows |
|---|---|---|---|
| bitset_safety | `MCConcurrentBitset.cfg` | 3 threads, 4 bits in 2 two-bit words, 3-bit count, hints {0,3,4}, tags {0,8} | all safety properties; 4 held bits + 3 racing reservations fill the count field to 7, its maximum, and the hint 4 exercises (-3) |
| bitset_sizing | `BitsetSizing.cfg` | real 32-bit words, count field of 8 bits: every bit_bound 0..129, every lg 0..8 | the sizing helpers match the reference |
| bitset_set | `MCConcurrentBitsetSet.cfg` | 2 threads with set(), bound 3 in 2-bit words (a partial tail word) | claims stay exclusive and in range even with set(); the claim loop's `bit_bound <= bit` re-wrap (line 500) is taken |
| bitset_misuse_liveness | `MCConcurrentBitsetMisuse.cfg` | 2 threads releasing any bit, 4 calls each, FairSpec | the header stays exact under double release, and every claim loop terminates |
| bitset_lg2 | `MCConcurrentBitsetLg2.cfg` | lg2 variant, tag 8 | same safety for acquire_bounded_lg2 |
| bitset_lg2_hint | `MCConcurrentBitsetLg2Hint.cfg` | hint = 1<<lg2 | **violation**: bit 2 of a 2-bit bitset claimed, written past the buffer |
| bitset_tail | `MCConcurrentBitsetTail.cfg` | bound 6, 4-bit words | **violation**: claimer spins on full word 0 while bit 5 is free |
| bitset_set_count | `MCConcurrentBitsetSetCount.cfg` | set() on a free bit | **violation**: `HeaderAccounting`, the header stays 0 with one bit set |
| bitset_overflow | `MCConcurrentBitsetOverflow.cfg` | 2-bit count field, bitset of max_bit_count = 2 bits, 2 threads | **violation**: 2 concurrent acquires on the full bitset carry into the tag |
| reduction | `MCWorkgroupReductions.cfg` | both overloads; local-memory in lock-step or not; shuffle `#if` or `#else`; work-groups of 1-8 items, sub-groups of 1, 2, 4, 8, every max_size, final, devptr | TypeOK and ReduceRefinement (349k states, about 20 s) |
| reduction_bounds | `MCWorkgroupReductionBounds.cfg` | one sub-group of 4, lock-step | **violation**: lane 3 reads `local_mem[4]` when max_size = 2 |
| reduction_race | `MCWorkgroupReductionRace.cfg` | one sub-group of 4, not in lock-step | **violation**: an item joined twice (line 98; with WGSizes {8}, SGSizes {2} the same cfg fails in the second tree, line 121) |

The bounds are enough for the properties checked because every branch of
the code is reached in them: a lost fetch_or race, `countr_one` inside a word,
a full word and the wrap to word 0, the count at the bound, a tag mismatch,
an invalid hint, and the count field at its maximum. More threads only add
interleavings of the same steps on more bits.

For the reduction, up to 8 work-items in sub-groups of 1-8 reach every case
of the code:
* a sub-group of 1;
* a shorter last sub-group;
* several sub-groups above sub-group 0's range (the offset loop runs);
* `max_size` below, at and above a sub-group's size, so that the unsigned
  `upper_stride_bound` wraps;
* whole sub-groups above `max_size`;
* `n_active_subgroups` both below and equal to `n_subgroups`.

Strides beyond 4 only repeat the doubling.

## 6. Findings

1. `acquire_bounded_lg2` admits `bit == 1 << bit_bound_lg2` (line 360, `<`
   where the comment at line 341 says `<=`): it claims and returns an
   out-of-range bit, and for `bit_bound_lg2 >= 5` writes one word past the
   buffer.
2. `acquire_bounded` with a bound that is not a multiple of 32: `word_count`
   rounds down (line 448) and the wrap at line 501 never visits the tail word
   from a full word, so the claim loop can spin forever with a free bit.
3. `set()` (lines 561-575) inverts its documented behaviour: setting a free
   bit returns -1 and is not counted, an already-set bit is "un-counted".
   TLC: after one set() on a free bit the header still reads 0, so the used
   count acquire tests for fullness no longer covers every set bit
   (`HeaderAccounting` fails).
   Two set() calls on one free bit also drive the count below 0, and the
   header wraps through the tag bits.
4. The header comment (line 301) promises at least 2^25 concurrent acquires
   before overflow; 2^25 concurrent acquires on a full 2^25-bit set already
   reach the tag bit.
5. The local-memory `workgroup_reduction` reads out of bounds (line 95).
   * `upper_stride_bound` is an unsigned `min`.
   * For a lane with `id_in_sg > local_range` and `local_id > max_size`, both
     differences wrap, so the lane joins at every stride.
   * When `2 <= max_size <= last sub-group size - 2`, the last lane reads
     `local_mem[wg]`, one slot past the work-group's local memory.
   * The value lands in a slot no one reads, so the result stays correct
     (ReduceRefinement holds), but the read is out of bounds.
6. The local-memory tree races within a sub-group (lines 98 and 121).
   * Lane `i` reads `local_mem[i + stride]` while lane `i + stride` joins
     into it, with no barrier between them.
   * When the lanes are not in lock-step (SYCL does not promise it), an item
     is joined twice: sums and products come out wrong, min/max do not.
   * The shuffle overload has no such race.

## 7. Mutants

`ConcurrentBitset.tla`, `BitsetLayout.tla`, `WorkgroupReduction.tla` and
`ShuffleReduction.tla` define mutant variants just before the operators they
alter. Each carries one plausible bug:
* bitset: `AcquireClaimNoTest`, `AcquireReserveOffByOne`, `AcquireUndoNoSub`,
  `ReleaseClearTestsAfter`, `InvalidArgsOffByOne`, `WrapBitSameWord`,
  `WrapBitNoWrap`, `NextBitBoundedNoBound` (no `bit_bound <= bit` test),
  `buffer_bound_no_tail`;
* reduction: `FinalJoinsPastEnd` (`<=` for `<`), `FoldDoneStrideZero`, and `ShuffleCombineSgAllSubgroups` (bounding the
  shuffle tree by `n_subgroups`, as the local-memory overload does, rather
  than by `n_active_subgroups`). They are not part of `Next`.
Substituting one for its original under a passing run's cfg makes that run's
property fail (listed in `PROJECT.json` under "mutants"), which shows each
property actually constrains the code it is about.
