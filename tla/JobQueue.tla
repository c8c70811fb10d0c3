------------------------------ MODULE JobQueue -----------------------------
(***************************************************************************)
(* The linked list behind one work queue of proj1/src/multisrv.c:          *)
(* add_queue, pop_queue and the test workfunc makes before it pops, each   *)
(* one step because the caller holds the queue's mutex.                    *)
(*                                                                         *)
(* A node is a malloc'ed qdata.  Its rear_dir is copied from the caller's  *)
(* qdata, which never sets it, and main sets only the size of a queue: a   *)
(* pointer nobody wrote may have any value.  front_dir is left out: it is  *)
(* set in the local copy only and no live code reads it.                   *)
(***************************************************************************)
EXTENDS Integers, Sequences

CONSTANTS
    Jobs,      \* the contents of a node
    NoJob,     \* popped before the first pop
    MaxNodes,  \* bound: the nodes malloc'ed in a behaviour
    Null       \* the null pointer

ASSUME NodesAssumption == MaxNodes \in Nat /\ NoJob \notin Jobs /\ Null \notin 1 .. MaxNodes

Nodes    == 1 .. MaxNodes
Pointers == Nodes \cup {Null}

VARIABLES
    size, front, rear,  \* the fields of Queue
    job,                \* job[p]: the contents of node p
    rear_dir,           \* rear_dir[p]: the successor of node p
    allocated,          \* the number of nodes malloc'ed: nodes 1 .. allocated
    popped              \* the value of the last pop_queue

queueVars == <<size, front, rear, job, rear_dir, allocated, popped>>

QueueInit ==
    /\ size = 0
    /\ front \in Pointers
    /\ rear \in Pointers
    /\ job = [p \in Nodes |-> NoJob]
    /\ rear_dir = [p \in Nodes |-> Null]
    /\ allocated = 0
    /\ popped = NoJob

AddQueue(j) ==
    LET temp == allocated + 1 IN
    /\ allocated < MaxNodes
    /\ allocated' = temp
    /\ job' = [job EXCEPT ![temp] = j]
    /\ \E wild \in Pointers :
          \/ /\ size = 0
             /\ front' = temp
             /\ rear_dir' = [rear_dir EXCEPT ![temp] = wild]
          \/ /\ size # 0
             /\ rear_dir' = [rear_dir EXCEPT ![temp] = wild, ![rear] = temp]
             /\ UNCHANGED front
    /\ rear' = temp
    /\ size' = size + 1
    /\ UNCHANGED popped

(* Mutant: the newest job is returned. *)
PopQueueNewest ==
    /\ size # 0
    /\ popped' = job[rear]
    /\ front' = IF size = 1 THEN Null ELSE rear_dir[front]
    /\ rear' = IF size = 1 THEN Null ELSE rear
    /\ size' = size - 1
    /\ UNCHANGED <<job, rear_dir, allocated>>

(* Called only after check_queue_emtpy said no. *)
PopQueue ==
    /\ size # 0
    /\ popped' = job[front]
    /\ \/ /\ size # 1
          /\ front' = rear_dir[front]
          /\ UNCHANGED rear
       \/ /\ size = 1
          /\ front' = Null
          /\ rear' = Null
    /\ size' = size - 1
    /\ UNCHANGED <<job, rear_dir, allocated>>

QueueNext == (\E j \in Jobs : AddQueue(j)) \/ PopQueue

QueueSpec == QueueInit /\ [][QueueNext]_queueVars

-----------------------------------------------------------------------------
(* Properties. *)

(* The nodes reached from front along rear_dir, for the size of the queue. *)
Chain ==
    LET node[k \in 1 .. size] == IF k = 1 THEN front ELSE rear_dir[node[k - 1]]
    IN  [k \in 1 .. size |-> node[k]]

(* The fields have their types, and size counts the nodes in the list.     *)
QueueTypeOK ==
    /\ size \in 0 .. allocated
    /\ allocated \in 0 .. MaxNodes
    /\ front \in Pointers /\ rear \in Pointers
    /\ job \in [Nodes -> Jobs \cup {NoJob}]
    /\ rear_dir \in [Nodes -> Pointers]
    /\ popped \in Jobs \cup {NoJob}

(* The list implements the sequence PrimeServer uses. *)
Queue == INSTANCE Fifo WITH items <- [k \in 1 .. size |-> job[Chain[k]]]

FifoSpec == Queue!Spec

(* The inductive invariant behind it: malloc hands out nodes in order, so  *)
(* the list is the newest nodes, each followed by the one after it; the    *)
(* newest node's own successor may be anything.                            *)
ListInv ==
    /\ QueueTypeOK
    /\ size > 0 => rear = allocated /\ front = allocated - size + 1
    /\ \A p \in allocated - size + 1 .. allocated - 1 : rear_dir[p] = p + 1
    /\ \A p \in 1 .. allocated : job[p] \in Jobs
=============================================================================
