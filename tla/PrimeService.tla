---------------------------- MODULE PrimeService ---------------------------
(***************************************************************************)
(* What multisrv promises the client of a connection, without threads,     *)
(* queues, locks or flags: a request is a set of blocks; the blocks are    *)
(* finished one at a time, in any order, each once; and the connection is  *)
(* done with the request only when none is left.                           *)
(***************************************************************************)
EXTENDS Naturals

CONSTANTS Conns, MaxBlocks

VARIABLES
    busy,   \* busy[c]: connection c is working on a request
    todo    \* todo[c]: the blocks of that request still to be finished

vars == <<busy, todo>>

Init ==
    /\ busy = [c \in Conns |-> FALSE]
    /\ todo = [c \in Conns |-> {}]

Submit(c) ==
    /\ ~ busy[c]
    /\ busy' = [busy EXCEPT ![c] = TRUE]
    /\ \E n \in 1 .. MaxBlocks : todo' = [todo EXCEPT ![c] = 0 .. n - 1]

FinishBlock(c) ==
    /\ busy[c]
    /\ \E k \in todo[c] : todo' = [todo EXCEPT ![c] = @ \ {k}]
    /\ UNCHANGED busy

(* The answer is sent, or the connection breaks while it is. *)
Leave(c) ==
    /\ busy[c]
    /\ todo[c] = {}
    /\ busy' = [busy EXCEPT ![c] = FALSE]
    /\ UNCHANGED todo

Next == \E c \in Conns : Submit(c) \/ FinishBlock(c) \/ Leave(c)

Spec == Init /\ [][Next]_vars
=============================================================================
