------------------------- MODULE WorkgroupReduction -------------------------
(***************************************************************************)
(* The local-memory workgroup_reduction of                                 *)
(* core/src/SYCL/Kokkos_SYCL_WorkgroupReduction.hpp (lines 75-145).        *)
(*                                                                         *)
(* One work-group of wg work-items, cut into sub-groups of at most sgmax   *)
(* work-items (SYCL lays sub-groups out over consecutive linear ids, the   *)
(* last one possibly shorter).  local_mem has one slot per work-item       *)
(* (value_count = 1); a slot holds the BAG of item indices folded into it  *)
(* so far, and join is bag sum, so the result shows which items were       *)
(* combined and how often.  The caller has stored item i in slot i for     *)
(* i < max_size and the reducer's identity (the empty bag) above it.  A    *)
(* read past the end of local_mem yields Junk.                             *)
(*                                                                         *)
(* A sub-group is one process.  With lockstep its lanes execute a loop     *)
(* iteration together (every lane loads its operand before any lane        *)
(* stores); without it each lane's join is a step of its own and only the  *)
(* sub-group barrier orders them.                                          *)
(***************************************************************************)
EXTENDS Integers, FiniteSets, Bags

CONSTANTS
    WGSizes,     \* work-group sizes to explore
    SGSizes,     \* sub-group sizes (sg.get_max_local_range()) to explore
    Schedules    \* subset of BOOLEAN: lanes of a sub-group in lock-step or not

VARIABLES
    lockstep,    \* the lanes of each sub-group run in lock-step
    wg,          \* item.get_local_range(): work-items in the group
    sgmax,       \* sg.get_max_local_range()
    ms,          \* max_size
    final,       \* the 'final' argument
    devptr,      \* device_accessible_result_ptr != nullptr
    mem,         \* local_mem, slot -> bag of item indices
    pc,          \* sub-group -> where it is in the function
    stride,      \* sub-group -> current stride / offset of its loop
    joined,      \* sub-group -> joins of the current round already done
    out,         \* what lane 0 copied to global memory, or NoOut
    oob          \* some join read local_mem past its end

vars == <<lockstep, wg, sgmax, ms, final, devptr, mem, pc, stride, joined, out, oob>>

Junk  == SetToBag({-1})
NoOut == [val |-> EmptyBag, final |-> FALSE, dest |-> "none"]
\* Unsigned int arithmetic wraps modulo 2^32.  TLC's integers end at 2^31-1,
\* so 2^30 stands in: a wrapped difference still exceeds every stride.
Umod  == 2^30

MinOf(a, b) == IF a < b THEN a ELSE b

\* sg.get_group_range(): number of sub-groups.
NSub == (wg + sgmax - 1) \div sgmax
SubGroups == 0..NSub-1
\* sg.get_local_range() of sub-group k.
SubRange(k) == MinOf(sgmax, wg - k * sgmax)
Lanes(k) == 0..SubRange(k)-1
\* item.get_local_linear_id() of lane l of sub-group k.
LocalId(k, l) == k * sgmax + l

\* local_range = min<unsigned>(sg.get_local_range(), max_size)
LocalRange(k) == MinOf(SubRange(k), ms)
\* upper_stride_bound: both differences are unsigned and wrap.
UpperStrideBound(k, l) ==
    MinOf((LocalRange(k) - l) % Umod, (ms - LocalId(k, l)) % Umod)

\* The <<destination, source>> slots joined by the lanes of sub-group k in
\* the iteration with stride s of the loop it is in.
SubgroupJoins(k, s) ==
    {<<LocalId(k, l), LocalId(k, l) + s>> :
        l \in {m \in Lanes(k) : s < UpperStrideBound(k, m)}}
\* Mutant: id_in_sg + stride <= n_subgroups.
FinalJoinsPastEnd(s) ==
    {<<l * sgmax, (l + s) * sgmax>> : l \in {m \in Lanes(0) : m + s <= NSub}}
FinalJoins(s) ==
    {<<l * sgmax, (l + s) * sgmax>> : l \in {m \in Lanes(0) : m + s < NSub}}
RoundJoins(k) ==
    IF pc[k] = "tree" THEN SubgroupJoins(k, stride[k]) ELSE FinalJoins(stride[k])

Read(m, src) == IF src < wg THEN m[src] ELSE Junk

\* local_mem after every join in J, all operands loaded from m first.
JoinAll(m, J) ==
    [i \in DOMAIN m |->
        IF \E j \in J : j[1] = i
        THEN m[i] (+) Read(m, (CHOOSE j \in J : j[1] = i)[2])
        ELSE m[i]]

ReadsOutside(J) == \E j \in J : j[2] >= wg
-----------------------------------------------------------------------------
Init ==
    /\ lockstep \in Schedules
    /\ wg \in WGSizes
    /\ sgmax \in SGSizes
    /\ ms \in 1..wg
    /\ final \in BOOLEAN
    /\ devptr \in BOOLEAN
    /\ mem = [i \in 0..wg-1 |-> IF i < ms THEN SetToBag({i}) ELSE EmptyBag]
    /\ pc = [k \in SubGroups |-> "tree"]
    /\ stride = [k \in SubGroups |-> 1]
    /\ joined = [k \in SubGroups |-> {}]
    /\ out = NoOut
    /\ oob = FALSE

Fixed == UNCHANGED <<lockstep, wg, sgmax, ms, final, devptr>>

\* One iteration of a tree loop (lines 96-99 or 119-125) run in lock-step,
\* ending at its group_barrier(sg).
RoundLockstep(k) ==
    /\ lockstep
    /\ pc[k] \in {"tree", "tree2"}
    /\ stride[k] < LocalRange(k)
    /\ mem' = JoinAll(mem, RoundJoins(k))
    /\ oob' = (oob \/ ReadsOutside(RoundJoins(k)))
    /\ stride' = [stride EXCEPT ![k] = 2 * stride[k]]
    /\ Fixed /\ UNCHANGED <<pc, joined, out>>

\* The join of one lane in an iteration of a tree loop, without lock-step.
LaneJoin(k, j) ==
    /\ ~lockstep
    /\ pc[k] \in {"tree", "tree2"}
    /\ stride[k] < LocalRange(k)
    /\ j \in RoundJoins(k) \ joined[k]
    /\ mem' = [mem EXCEPT ![j[1]] = @ (+) Read(mem, j[2])]
    /\ oob' = (oob \/ j[2] >= wg)
    /\ joined' = [joined EXCEPT ![k] = @ \cup {j}]
    /\ Fixed /\ UNCHANGED <<pc, stride, out>>

\* group_barrier(sg) closing an iteration once every lane has joined.
SubgroupBarrier(k) ==
    /\ ~lockstep
    /\ pc[k] \in {"tree", "tree2"}
    /\ stride[k] < LocalRange(k)
    /\ joined[k] = RoundJoins(k)
    /\ stride' = [stride EXCEPT ![k] = 2 * stride[k]]
    /\ joined' = [joined EXCEPT ![k] = {}]
    /\ Fixed /\ UNCHANGED <<mem, pc, out, oob>>

\* The first tree loop ends: the sub-group waits at group_barrier(group).
TreeDone(k) ==
    /\ pc[k] = "tree"
    /\ stride[k] >= LocalRange(k)
    /\ pc' = [pc EXCEPT ![k] = "wait"]
    /\ Fixed /\ UNCHANGED <<mem, stride, joined, out, oob>>

\* group_barrier(item.get_group()): all sub-groups have left their tree.
\* Sub-group 0 goes on with the offset loop (offset = local_range); the
\* others return.
WorkgroupBarrier ==
    /\ \A k \in SubGroups : pc[k] = "wait"
    /\ pc' = [k \in SubGroups |-> IF k = 0 THEN "fold" ELSE "done"]
    /\ stride' = [stride EXCEPT ![0] = LocalRange(0)]
    /\ Fixed /\ UNCHANGED <<mem, joined, out, oob>>

\* One iteration of the offset loop of sub-group 0 (lines 110-115): lane l
\* folds the result of sub-group l + offset into the slot of sub-group l.
\* The slots read are above every slot written, so the lanes' order within
\* an iteration does not matter.
FoldHigherJoins(o) ==
    {<<l * sgmax, (l + o) * sgmax>> : l \in {m \in Lanes(0) : m + o < NSub}}
FoldHigher ==
    /\ pc[0] = "fold"
    /\ stride[0] < MinOf(NSub, ms)
    /\ mem' = JoinAll(mem, FoldHigherJoins(stride[0]))
    /\ oob' = (oob \/ ReadsOutside(FoldHigherJoins(stride[0])))
    /\ stride' = [stride EXCEPT ![0] = @ + LocalRange(0)]
    /\ Fixed /\ UNCHANGED <<pc, joined, out>>

\* Mutant: the second tree loop starts at stride 0.
FoldDoneStrideZero ==
    /\ pc[0] = "fold"
    /\ stride[0] >= MinOf(NSub, ms)
    /\ pc' = [pc EXCEPT ![0] = "tree2"]
    /\ stride' = [stride EXCEPT ![0] = 0]
    /\ Fixed /\ UNCHANGED <<mem, joined, out, oob>>

\* The offset loop ends; group_barrier(sg) and the second tree (stride 1).
FoldDone ==
    /\ pc[0] = "fold"
    /\ stride[0] >= MinOf(NSub, ms)
    /\ pc' = [pc EXCEPT ![0] = "tree2"]
    /\ stride' = [stride EXCEPT ![0] = 1]
    /\ Fixed /\ UNCHANGED <<mem, joined, out, oob>>

\* The second tree ends and lane 0 calls final() if 'final' and copies
\* local_mem[0] to the device-accessible result, results_ptr[0] or
\* results_ptr[group] (lines 128-143).
CopyResult ==
    /\ pc[0] = "tree2"
    /\ stride[0] >= LocalRange(0)
    /\ out' = [val   |-> mem[0],
               final |-> final,
               dest  |-> IF ~final THEN "results_group"
                         ELSE IF devptr THEN "device" ELSE "results_0"]
    /\ pc' = [pc EXCEPT ![0] = "done"]
    /\ Fixed /\ UNCHANGED <<mem, stride, joined, oob>>

\* Every work-item has returned.
Returned ==
    /\ \A k \in SubGroups : pc[k] = "done"
    /\ UNCHANGED vars

Next ==
    \/ \E k \in SubGroups :
          \/ RoundLockstep(k)
          \/ \E j \in RoundJoins(k) : LaneJoin(k, j)
          \/ SubgroupBarrier(k)
          \/ TreeDone(k)
    \/ WorkgroupBarrier
    \/ FoldHigher
    \/ FoldDone
    \/ CopyResult
    \/ Returned

Spec == Init /\ [][Next]_vars
-----------------------------------------------------------------------------
TypeOK ==
    /\ lockstep \in Schedules
    /\ wg \in WGSizes /\ sgmax \in SGSizes /\ ms \in 1..wg
    /\ final \in BOOLEAN /\ devptr \in BOOLEAN
    /\ DOMAIN mem = 0..wg-1
    /\ \A i \in 0..wg-1 : IsABag(mem[i])
    /\ pc \in [SubGroups -> {"tree", "wait", "fold", "tree2", "done"}]
    /\ stride \in [SubGroups -> 1..2*wg]
    /\ oob \in BOOLEAN

\* The value copied out by lane 0 is the fold of items 0..max_size-1, each
\* exactly once: no item is lost, none is joined twice, and neither the
\* identity slots above max_size nor anything read past local_mem reaches
\* it (lines 94-125).
ResultCorrect ==
    out # NoOut => out.val = SetToBag(0..ms-1)

\* No join reads local_mem past the work-group's slots (the operand of
\* line 98 with the unsigned upper_stride_bound of line 95).
JoinsInBounds == ~oob

\* Without lock-step an item may reach the result twice (line 98), which
\* only a join with x (+) x = x (min, max, bitwise and/or) absorbs.  The
\* value a reducer sees is the bag itself under lock-step, and the set of
\* items folded for such an idempotent reducer otherwise.
ReducerView(v) == IF lockstep THEN v ELSE [v EXCEPT !.val = SetToBag(BagToSet(@))]
=============================================================================
