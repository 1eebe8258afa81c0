------------------------- MODULE WorkgroupReductions -------------------------
(***************************************************************************)
(* SYCLReduction::workgroup_reduction as its callers see it: an overload   *)
(* set selected per reducer type by use_shuffle_based_algorithm (line 72), *)
(* the local-memory algorithm (WorkgroupReduction) when it is false and    *)
(* the shuffle algorithm (ShuffleReduction) when it is true.  The choice   *)
(* is made once, in Init; each algorithm leaves the other's variables      *)
(* alone.  Both must implement the ReduceSpec contract.                    *)
(***************************************************************************)
EXTENDS Integers, Bags

CONSTANTS WGSizes, SGSizes, Schedules, Algorithms

VARIABLES
    algo,                              \* "local_memory" or "shuffle"
    wg, sgmax, ms, final, devptr, pc, stride, out,
    lockstep, mem, joined, oob,        \* WorkgroupReduction only
    unrolled, val, lmem, sgval         \* ShuffleReduction only

LocalVars   == <<lockstep, mem, joined, oob>>
ShuffleVars == <<unrolled, val, lmem, sgval>>
vars == <<algo, wg, sgmax, ms, final, devptr, pc, stride, out,
          lockstep, mem, joined, oob, unrolled, val, lmem, sgval>>

L == INSTANCE WorkgroupReduction
S == INSTANCE ShuffleReduction

Init ==
    /\ algo \in Algorithms
    /\ \/ /\ algo = "local_memory" /\ L!Init
          /\ unrolled = FALSE /\ val = <<>> /\ lmem = <<>> /\ sgval = <<>>
       \/ /\ algo = "shuffle" /\ S!Init
          /\ lockstep = TRUE /\ mem = <<>> /\ joined = <<>> /\ oob = FALSE

Next ==
    /\ \/ algo = "local_memory" /\ L!Next /\ UNCHANGED ShuffleVars
       \/ algo = "shuffle" /\ S!Next /\ UNCHANGED LocalVars
    /\ UNCHANGED algo

Spec == Init /\ [][Next]_vars
-----------------------------------------------------------------------------
TypeOK ==
    /\ algo \in Algorithms
    /\ algo = "local_memory" => L!TypeOK
    /\ algo = "shuffle" => S!TypeOK

\* Whichever overload runs, the call implements ReduceSpec: out changes
\* once, from nothing to the fold of items 0..max_size-1, each exactly
\* once, with final() applied as asked and written to the destination the
\* arguments select.  The local-memory algorithm without lock-step lanes
\* meets it only for idempotent joins (L!ReducerView, line 98).
Reduce == INSTANCE ReduceSpec
    WITH items <- 0..ms-1, fin <- final, dev <- devptr,
         result <- IF algo = "shuffle" THEN out ELSE L!ReducerView(out)
ReduceRefinement == Reduce!Spec
=============================================================================
