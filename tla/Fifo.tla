-------------------------------- MODULE Fifo -------------------------------
(***************************************************************************)
(* The queue PrimeServer assumes behind add_queue and pop_queue: a         *)
(* sequence, jobs in at the end and out at the head.                       *)
(***************************************************************************)
EXTENDS Sequences

CONSTANTS Jobs, NoJob

VARIABLES
    items,  \* the jobs queued, oldest first
    popped  \* what the last pop returned

vars == <<items, popped>>

Init == items = <<>> /\ popped = NoJob

Add ==
    /\ \E j \in Jobs : items' = Append(items, j)
    /\ UNCHANGED popped

Pop ==
    /\ items # <<>>
    /\ popped' = Head(items)
    /\ items' = Tail(items)

Next == Add \/ Pop

Spec == Init /\ [][Next]_vars
=============================================================================
