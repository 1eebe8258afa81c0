----------------------------- MODULE ReduceSpec -----------------------------
(***************************************************************************)
(* What workgroup_reduction promises its caller: once, and only once, the  *)
(* join of the work-group's items 0..max_size-1 (each taken exactly once)  *)
(* is written to the destination the arguments select: results_ptr[group]  *)
(* for an intermediate pass, else (after final()) the device-accessible    *)
(* result when there is one and results_ptr[0] otherwise.                  *)
(***************************************************************************)
EXTENDS Bags

VARIABLES
    items,     \* the item indices the call must fold
    fin,       \* the 'final' argument
    dev,       \* a device-accessible result pointer was passed
    result     \* what has been written, or None

None == [val |-> EmptyBag, final |-> FALSE, dest |-> "none"]

Destination ==
    IF ~fin THEN "results_group" ELSE IF dev THEN "device" ELSE "results_0"

Init == result = None

Write ==
    /\ result = None
    /\ result' = [val |-> SetToBag(items), final |-> fin, dest |-> Destination]
    /\ UNCHANGED <<items, fin, dev>>

Spec == Init /\ [][Write]_<<items, fin, dev, result>>
=============================================================================
