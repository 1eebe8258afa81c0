-------------------------- MODULE ShuffleReduction --------------------------
(***************************************************************************)
(* The shuffle-based workgroup_reduction of                                *)
(* core/src/SYCL/Kokkos_SYCL_WorkgroupReduction.hpp (lines 147-252), the   *)
(* overload chosen when use_shuffle_based_algorithm<ReducerType> holds.    *)
(*                                                                         *)
(* Each work-item's local_value is a register; a sub-group iteration is    *)
(* one step since shift_group_left is a collective every lane of the       *)
(* sub-group takes part in.  Values are bags of item indices as in         *)
(* WorkgroupReduction.  A shift from a lane past the sub-group returns an  *)
(* unspecified value (Junk); local_mem, one slot per sub-group, starts     *)
(* uninitialised (Unset).                                                  *)
(*                                                                         *)
(* The first tree exists twice: unrolled with an int stride for Intel and  *)
(* NVIDIA GPUs (#if, lines 165-176), and as a loop with an unsigned stride *)
(* elsewhere (#else, lines 178-183).  Which one was compiled is chosen in   *)
(* Init (`unrolled`).                                                      *)
(***************************************************************************)
EXTENDS Integers, Bags

CONSTANTS WGSizes, SGSizes

VARIABLES
    wg, sgmax, ms, final, devptr,   \* as in WorkgroupReduction
    unrolled,  \* TRUE: the #if path of the first tree is compiled
    val,       \* work-item -> local_value
    lmem,      \* local_mem: sub-group -> its result
    sgval,     \* lane of sub-group 0 -> sg_value
    pc,        \* sub-group -> where it is in the function
    stride,    \* sub-group -> current stride / offset of its loop
    out        \* what lane 0 wrote to global memory, or NoOut

vars == <<wg, sgmax, ms, final, devptr, unrolled, val, lmem, sgval, pc, stride, out>>

Junk  == SetToBag({-1})
Unset == SetToBag({-2})
NoOut == [val |-> EmptyBag, final |-> FALSE, dest |-> "none"]

MinOf(a, b) == IF a < b THEN a ELSE b

NSub == (wg + sgmax - 1) \div sgmax
SubGroups == 0..NSub-1
SubRange(k) == MinOf(sgmax, wg - k * sgmax)
Lanes(k) == 0..SubRange(k)-1
LocalId(k, l) == k * sgmax + l
\* local_range = min<int>(sg.get_local_range(), max_size)
LocalRange(k) == MinOf(SubRange(k), ms)
\* upper_stride_bound = min<int>(...): max_size - local_id wraps as a
\* size_t but its conversion to int gives back the negative difference.
UpperStrideBound(k, l) == MinOf(LocalRange(k) - l, ms - LocalId(k, l))
\* `stride < upper_stride_bound`: an int comparison on the #if path; on
\* the #else path the int bound is converted to the unsigned type of the
\* stride, so a negative bound wraps (modulo 2^30 here, which is above
\* every stride, as 2^32 is in the code: TLC integers stop at 2^31).
Umod == 2^30
StrideBelowBound(k, l, s) ==
    IF unrolled THEN s < UpperStrideBound(k, l)
                ELSE s < UpperStrideBound(k, l) % Umod
\* n_active_subgroups
NActive == (ms + sgmax - 1) \div sgmax

\* shift_group_left(sg, x, s) as seen by lane l of sub-group k, x given
\* per lane by f.
ShiftLeft(k, f, l, s) == IF l + s < SubRange(k) THEN f[l + s] ELSE Junk

LaneValues(k) == [l \in Lanes(k) |-> val[LocalId(k, l)]]
-----------------------------------------------------------------------------
Init ==
    /\ wg \in WGSizes
    /\ sgmax \in SGSizes
    /\ ms \in 1..wg
    /\ final \in BOOLEAN
    /\ devptr \in BOOLEAN
    /\ unrolled \in BOOLEAN
    /\ val = [i \in 0..wg-1 |-> IF i < ms THEN SetToBag({i}) ELSE EmptyBag]
    /\ lmem = [k \in SubGroups |-> Unset]
    /\ sgval = [l \in Lanes(0) |-> Unset]
    /\ pc = [k \in SubGroups |-> "tree"]
    /\ stride = [k \in SubGroups |-> 1]
    /\ out = NoOut

Fixed == UNCHANGED <<wg, sgmax, ms, final, devptr, unrolled>>

\* One shuffle_combine(stride) of sub-group k (lines 163-176), or one
\* iteration of the #else loop (lines 178-183).
ShuffleCombine(k) ==
    /\ pc[k] = "tree"
    /\ stride[k] < LocalRange(k)
    /\ val' = [i \in DOMAIN val |->
                 IF \E l \in Lanes(k) : i = LocalId(k, l)
                    /\ StrideBelowBound(k, l, stride[k])
                 THEN val[i] (+) ShiftLeft(k, LaneValues(k), i - k * sgmax, stride[k])
                 ELSE val[i]]
    /\ stride' = [stride EXCEPT ![k] = 2 * stride[k]]
    /\ Fixed /\ UNCHANGED <<lmem, sgval, pc, out>>

\* The tree ends; lane 0 stores the sub-group's value in local_mem[k] if
\* k <= n_active_subgroups (lines 186-192), then group_barrier(group).
StoreSubgroupResult(k) ==
    /\ pc[k] = "tree"
    /\ stride[k] >= LocalRange(k)
    /\ lmem' = IF k <= NActive THEN [lmem EXCEPT ![k] = val[LocalId(k, 0)]]
               ELSE lmem
    /\ pc' = [pc EXCEPT ![k] = "wait"]
    /\ Fixed /\ UNCHANGED <<val, sgval, stride, out>>

\* group_barrier(group) releases every sub-group; the others return, and
\* each lane of sub-group 0 loads local_mem[id < n_active ? id : 0]
\* (lines 194-198) before the offset loop if n_active > local_range.
WorkgroupBarrier ==
    /\ \A k \in SubGroups : pc[k] = "wait"
    /\ sgval' = [l \in Lanes(0) |-> lmem[IF l < NActive THEN l ELSE 0]]
    /\ pc' = [k \in SubGroups |->
                IF k # 0 THEN "done"
                ELSE IF NActive > LocalRange(0) THEN "fold" ELSE "tree2"]
    /\ stride' = [stride EXCEPT ![0] = IF NActive > LocalRange(0)
                                       THEN LocalRange(0) ELSE 1]
    /\ Fixed /\ UNCHANGED <<val, lmem, out>>

\* One iteration of the offset loop (lines 203-208).
FoldHigher ==
    /\ pc[0] = "fold"
    /\ stride[0] < NActive
    /\ sgval' = [l \in Lanes(0) |->
                   IF l + stride[0] < NActive
                   THEN sgval[l] (+) lmem[l + stride[0]] ELSE sgval[l]]
    /\ stride' = [stride EXCEPT ![0] = @ + LocalRange(0)]
    /\ Fixed /\ UNCHANGED <<val, lmem, pc, out>>

\* The offset loop ends at group_barrier(sg) (line 209).
FoldDone ==
    /\ pc[0] = "fold"
    /\ stride[0] >= NActive
    /\ pc' = [pc EXCEPT ![0] = "tree2"]
    /\ stride' = [stride EXCEPT ![0] = 1]
    /\ Fixed /\ UNCHANGED <<val, lmem, sgval, out>>

\* Mutant: the lanes join while id_in_sg + stride < n_subgroups.
ShuffleCombineSgAllSubgroups ==
    /\ pc[0] = "tree2"
    /\ stride[0] < LocalRange(0)
    /\ sgval' = [l \in Lanes(0) |->
                   IF l + stride[0] < NSub
                   THEN sgval[l] (+) ShiftLeft(0, sgval, l, stride[0])
                   ELSE sgval[l]]
    /\ stride' = [stride EXCEPT ![0] = 2 * stride[0]]
    /\ Fixed /\ UNCHANGED <<val, lmem, pc, out>>

\* One shuffle_combine_sg(stride) of sub-group 0 (lines 213-235).
ShuffleCombineSg ==
    /\ pc[0] = "tree2"
    /\ stride[0] < LocalRange(0)
    /\ sgval' = [l \in Lanes(0) |->
                   IF l + stride[0] < NActive
                   THEN sgval[l] (+) ShiftLeft(0, sgval, l, stride[0])
                   ELSE sgval[l]]
    /\ stride' = [stride EXCEPT ![0] = 2 * stride[0]]
    /\ Fixed /\ UNCHANGED <<val, lmem, pc, out>>

\* Lane 0 calls final() if asked and writes sg_value out (lines 241-250).
CopyResult ==
    /\ pc[0] = "tree2"
    /\ stride[0] >= LocalRange(0)
    /\ out' = [val   |-> sgval[0],
               final |-> final,
               dest  |-> IF ~final THEN "results_group"
                         ELSE IF devptr THEN "device" ELSE "results_0"]
    /\ pc' = [pc EXCEPT ![0] = "done"]
    /\ Fixed /\ UNCHANGED <<val, lmem, sgval, stride>>

Returned ==
    /\ \A k \in SubGroups : pc[k] = "done"
    /\ UNCHANGED vars

Next ==
    \/ \E k \in SubGroups : ShuffleCombine(k) \/ StoreSubgroupResult(k)
    \/ WorkgroupBarrier
    \/ FoldHigher
    \/ FoldDone
    \/ ShuffleCombineSg
    \/ CopyResult
    \/ Returned

Spec == Init /\ [][Next]_vars
-----------------------------------------------------------------------------
TypeOK ==
    /\ wg \in WGSizes /\ sgmax \in SGSizes /\ ms \in 1..wg
    /\ final \in BOOLEAN /\ devptr \in BOOLEAN /\ unrolled \in BOOLEAN
    /\ DOMAIN val = 0..wg-1 /\ DOMAIN lmem = SubGroups /\ DOMAIN sgval = Lanes(0)
    /\ \A i \in 0..wg-1 : IsABag(val[i])
    /\ pc \in [SubGroups -> {"tree", "wait", "fold", "tree2", "done"}]
    /\ stride \in [SubGroups -> 1..2*wg]
=============================================================================
