-------------------------- MODULE JobQueue_proofs --------------------------
(***************************************************************************)
(* Proof that the linked list behind a work queue is a FIFO queue, for any *)
(* jobs and any number of nodes.                                           *)
(***************************************************************************)
EXTENDS JobQueue, WellFoundedInduction, TLAPS

(* A set of numbers that is not empty has a least element. *)
LEMMA Least ==
    ASSUME NEW T \in SUBSET Nat, T # {}
    PROVE  \E n \in T : \A m \in T : n <= m
<1>1. \A x, y \in Nat : <<y, x>> \in OpToRel(<, Nat) <=> y < x
  BY DEF OpToRel
<1>2. PICK R : IsWellFoundedOn(R, Nat) /\ \A x, y \in Nat : <<y, x>> \in R <=> y < x
  BY <1>1, NatLessThanWellFounded, Zenon
<1>3. PICK x \in T : \A y \in T : ~ (<<y, x>> \in R)
  BY <1>2, WFMin
<1>4. ASSUME NEW y \in T PROVE x <= y
  <2>1. x \in Nat /\ y \in Nat /\ ~ (<<y, x>> \in R)
    BY <1>3
  <2>2. ~ (y < x)
    BY <1>2, <2>1
  <2> QED
    BY <2>1, <2>2
<1> QED
  BY <1>3, <1>4

(* The nodes of the list, from the front. *)
Nth(k) == allocated - size + k

(* Following rear_dir from front leads through the newest nodes in order.  *)
(* The recursive function that follows it exists because Nth is one, and   *)
(* is Nth because the first place where it is not would follow one where   *)
(* it is.                                                                  *)
LEMMA ChainIs ==
    ASSUME ListInv
    PROVE  Chain = [k \in 1 .. size |-> Nth(k)]
<1>0. /\ size \in Nat /\ allocated \in Nat /\ size <= allocated
      /\ size > 0 => front = Nth(1)
      /\ \A p \in allocated - size + 1 .. allocated - 1 : rear_dir[p] = p + 1
  BY NodesAssumption DEF ListInv, QueueTypeOK, Nth
<1>1. \A k \in 2 .. size : rear_dir[Nth(k - 1)] = Nth(k)
  <2> TAKE k \in 2 .. size
  <2>1. Nth(k - 1) \in allocated - size + 1 .. allocated - 1 /\ Nth(k - 1) + 1 = Nth(k)
    BY <1>0 DEF Nth
  <2> QED
    BY <1>0, <2>1
<1> DEFINE node[k \in 1 .. size] == IF k = 1 THEN front ELSE rear_dir[node[k - 1]]
           nth == [k \in 1 .. size |-> Nth(k)]
<1>2. nth = [k \in 1 .. size |-> IF k = 1 THEN front ELSE rear_dir[nth[k - 1]]]
  <2>1. \A k \in 1 .. size : Nth(k) = IF k = 1 THEN front ELSE rear_dir[nth[k - 1]]
    BY <1>0, <1>1
  <2> QED
    BY <2>1
<1>3. node = [k \in 1 .. size |-> IF k = 1 THEN front ELSE rear_dir[node[k - 1]]]
  <2> HIDE DEF nth
  <2> QED
    BY <1>2 DEF node
<1>4. Chain = [k \in 1 .. size |-> node[k]]
  BY DEF Chain
<1> HIDE DEF node
<1>5. \A k \in 1 .. size : node[k] = Nth(k)
  <2> DEFINE Bad == {k \in 1 .. size : node[k] # Nth(k)}
  <2>1. SUFFICES ASSUME Bad # {} PROVE FALSE
    OBVIOUS
  <2>2. PICK k \in Bad : \A m \in Bad : k <= m
    <3>1. Bad \in SUBSET Nat
      BY <1>0
    <3> HIDE DEF Bad
    <3> QED
      BY <2>1, <3>1, Least
  <2>3. k \in 1 .. size /\ node[k] # Nth(k)
    OBVIOUS
  <2>4. k # 1
    BY <1>0, <1>3, <2>3
  <2>5. k - 1 \in 1 .. size /\ k - 1 \notin Bad
    BY <1>0, <2>2, <2>3, <2>4
  <2>6. node[k - 1] = Nth(k - 1)
    BY <2>5
  <2>7. node[k] = rear_dir[Nth(k - 1)]
    BY <1>3, <2>3, <2>4, <2>6
  <2> QED
    BY <1>0, <1>1, <2>3, <2>4, <2>7
<1> QED
  BY <1>4, <1>5

LEMMA ListInvInit == QueueInit => ListInv
BY NodesAssumption DEF QueueInit, ListInv, QueueTypeOK, Nodes, Pointers

LEMMA ListInvStep == ListInv /\ [QueueNext]_queueVars => ListInv'
<1> SUFFICES ASSUME ListInv, [QueueNext]_queueVars PROVE ListInv'
  OBVIOUS
<1> USE DEF ListInv, QueueTypeOK, Nodes, Pointers
<1>0. MaxNodes \in Nat
  BY NodesAssumption
<1>1. ASSUME NEW j \in Jobs, AddQueue(j) PROVE ListInv'
  <2> DEFINE temp == allocated + 1
  <2>1. /\ temp \in Nodes /\ allocated' = temp /\ rear' = temp /\ size' = size + 1
        /\ job' = [job EXCEPT ![temp] = j] /\ popped' = popped
        /\ front' \in Pointers /\ rear_dir' \in [Nodes -> Pointers]
    BY <1>0, <1>1 DEF AddQueue
  <2>2. front' = allocated' - size' + 1
    BY <1>0, <1>1, <2>1 DEF AddQueue
  <2>3. ASSUME NEW p \in allocated' - size' + 1 .. allocated' - 1 PROVE rear_dir'[p] = p + 1
    <3>1. size > 0 /\ p \in Nodes /\ p # temp
      BY <1>0, <2>1
    <3>2. CASE p = allocated
      <4>1. rear = p
        BY <3>1, <3>2
      <4>2. rear_dir'[p] = temp
        BY <1>0, <1>1, <3>1, <4>1 DEF AddQueue
      <4> QED
        BY <3>2, <4>2
    <3>3. CASE p # allocated
      <4>1. rear # p
        BY <3>1, <3>3
      <4>2. rear_dir'[p] = rear_dir[p]
        BY <1>0, <1>1, <3>1, <4>1 DEF AddQueue
      <4>3. p \in allocated - size + 1 .. allocated - 1
        BY <1>0, <2>1, <3>1, <3>3
      <4> QED
        BY <4>2, <4>3
    <3> QED
      BY <3>2, <3>3
  <2>4. \A p \in 1 .. allocated' : job'[p] \in Jobs
    BY <1>0, <2>1
  <2>5. job' \in [Nodes -> Jobs \cup {NoJob}]
    BY <2>1
  <2>6. size' \in 0 .. allocated' /\ allocated' \in 0 .. MaxNodes
    BY <1>0, <2>1
  <2> QED
    BY <2>1, <2>2, <2>3, <2>4, <2>5, <2>6
<1>2. CASE PopQueue
  <2>1. /\ size' = size - 1 /\ size > 0 /\ popped' = job[front]
        /\ UNCHANGED <<job, rear_dir, allocated>>
    BY <1>0, <1>2 DEF PopQueue
  <2>2. front = allocated - size + 1 /\ front \in 1 .. allocated
    BY <1>0, <2>1
  <2>3. popped' \in Jobs
    BY <2>1, <2>2
  <2>4. /\ front' \in Pointers /\ rear' \in Pointers
        /\ size' > 0 => rear' = allocated' /\ front' = allocated' - size' + 1
    <3>1. CASE size = 1
      BY <1>2, <2>1, <3>1 DEF PopQueue
    <3>2. CASE size # 1
      <4>1. rear_dir[front] = front + 1
        BY <1>0, <2>1, <2>2, <3>2
      <4> QED
        BY <1>0, <1>2, <2>1, <2>2, <3>2, <4>1 DEF PopQueue
    <3> QED
      BY <3>1, <3>2
  <2>5. size' \in 0 .. allocated'
    BY <1>0, <2>1
  <2>6. \A p \in allocated' - size' + 1 .. allocated' - 1 : rear_dir'[p] = p + 1
    BY <1>0, <2>1
  <2> QED
    BY <2>1, <2>3, <2>4, <2>5, <2>6
<1>3. CASE UNCHANGED queueVars
  BY <1>3 DEF queueVars
<1> QED
  BY <1>1, <1>2, <1>3 DEF QueueNext

-----------------------------------------------------------------------------
(* What the queue holds, by ChainIs. *)
Items == [k \in 1 .. size |-> job[Chain[k]]]

ItemsOK ==
    /\ Items = [k \in 1 .. size |-> job[Nth(k)]]
    /\ Items \in Seq(Jobs) /\ Len(Items) = size

LEMMA ItemsAre == ListInv => ItemsOK
<1> SUFFICES ASSUME ListInv PROVE ItemsOK
  OBVIOUS
<1>0. /\ size \in Nat /\ allocated \in Nat /\ size <= allocated
      /\ \A p \in 1 .. allocated : job[p] \in Jobs
  BY NodesAssumption DEF ListInv, QueueTypeOK
<1>1. Items = [k \in 1 .. size |-> job[Nth(k)]]
  BY ChainIs DEF Items
<1>2. \A k \in 1 .. size : job[Nth(k)] \in Jobs
  BY <1>0 DEF Nth
<1> QED
  BY <1>0, <1>1, <1>2 DEF ItemsOK

LEMMA ItemsAreNext == ListInv' => ItemsOK'
BY ItemsAre, PTL

LEMMA AppendAt ==
    ASSUME NEW s \in Seq(Jobs), NEW e \in Jobs
    PROVE  /\ Append(s, e)[Len(s) + 1] = e
           /\ \A k \in 1 .. Len(s) : Append(s, e)[k] = s[k]
OBVIOUS

(* A node keeps its contents as long as the list goes through it. *)
LEMMA AddStep ==
    ASSUME ListInv, ListInv', NEW j \in Jobs, AddQueue(j)
    PROVE  Items' = Append(Items, j) /\ popped' = popped
<1>0. /\ size \in Nat /\ allocated \in Nat /\ size <= allocated
      /\ job \in [Nodes -> Jobs \cup {NoJob}] /\ allocated + 1 \in Nodes
      /\ size' = size + 1 /\ allocated' = allocated + 1 /\ popped' = popped
      /\ job' = [job EXCEPT ![allocated + 1] = j]
  BY NodesAssumption DEF ListInv, QueueTypeOK, AddQueue, Nodes
<1>1. Items' = [k \in 1 .. size + 1 |-> job'[Nth(k)']]
  BY <1>0, ItemsAreNext DEF ItemsOK
<1>2. Items = [k \in 1 .. size |-> job[Nth(k)]] /\ Items \in Seq(Jobs) /\ Len(Items) = size
  BY ItemsAre DEF ItemsOK
<1>3. \A k \in 1 .. size : job'[Nth(k)'] = job[Nth(k)]
  BY <1>0 DEF Nth, Nodes
<1>4. job'[Nth(size)'] = j
  <2>1. Nth(size)' = allocated + 1
    BY <1>0 DEF Nth
  <2> QED
    BY <1>0, <2>1
<1>5. Items' \in Seq(Jobs) /\ Len(Items') = size + 1
  BY <1>0, ItemsAreNext DEF ItemsOK
<1>6. Append(Items, j) \in Seq(Jobs) /\ Len(Append(Items, j)) = size + 1
  <2>1. Items \in Seq(Jobs) /\ Len(Items) = size
    BY <1>2
  <2> QED
    BY <2>1
<1>7. /\ Append(Items, j)[size + 1] = j
      /\ \A k \in 1 .. size : Append(Items, j)[k] = Items[k]
  <2>1. Items \in Seq(Jobs) /\ Len(Items) = size
    BY <1>2
  <2> QED
    BY <2>1, AppendAt
<1>8. ASSUME NEW k \in 1 .. size + 1 PROVE Items'[k] = Append(Items, j)[k]
  <2>1. CASE k = size + 1
    <3>1. Items'[k] = j
      BY <1>0, <1>1, <1>4, <2>1
    <3>2. Append(Items, j)[k] = j
      BY <1>7, <2>1
    <3> QED
      BY <3>1, <3>2
  <2>2. CASE k # size + 1
    <3>1. k \in 1 .. size
      BY <1>0, <2>2
    <3>2. Items'[k] = Items[k]
      BY <1>1, <1>2, <1>3, <3>1
    <3>3. Append(Items, j)[k] = Items[k]
      BY <1>7, <3>1
    <3> QED
      BY <3>2, <3>3
  <2> QED
    BY <2>1, <2>2
<1> QED
  BY <1>0, <1>5, <1>6, <1>8

LEMMA PopStep ==
    ASSUME ListInv, ListInv', PopQueue
    PROVE  Items # <<>> /\ popped' = Head(Items) /\ Items' = Tail(Items)
<1>0. /\ size \in Nat \ {0} /\ allocated \in Nat /\ size <= allocated
      /\ front = Nth(1) /\ popped' = job[front]
      /\ size' = size - 1 /\ UNCHANGED <<job, allocated>>
  BY NodesAssumption DEF ListInv, QueueTypeOK, PopQueue, Nth
<1>1. Items = [k \in 1 .. size |-> job[Nth(k)]] /\ Items \in Seq(Jobs) /\ Len(Items) = size
  BY ItemsAre DEF ItemsOK
<1>2. /\ Items' = [k \in 1 .. size - 1 |-> job[Nth(k)']]
      /\ Items' \in Seq(Jobs) /\ Len(Items') = size - 1
  BY <1>0, ItemsAreNext DEF ItemsOK
<1>3. Items # <<>> /\ popped' = Head(Items)
  BY <1>0, <1>1
<1>4. Tail(Items) \in Seq(Jobs) /\ Len(Tail(Items)) = size - 1
  BY <1>0, <1>1, <1>3
<1>5. ASSUME NEW k \in 1 .. size - 1 PROVE Items'[k] = Tail(Items)[k]
  <2>1. Tail(Items)[k] = Items[k + 1]
    BY <1>0, <1>1, <1>3
  <2>2. Nth(k)' = Nth(k + 1)
    BY <1>0 DEF Nth
  <2> QED
    BY <1>0, <1>1, <1>2, <2>1, <2>2
<1>6. Items' = Tail(Items)
  <2>1. Items' \in Seq(Jobs) /\ Len(Items') = size - 1
    BY <1>2
  <2> QED
    BY <1>4, <1>5, <2>1
<1> QED
  BY <1>3, <1>6

-----------------------------------------------------------------------------

(* add_queue and pop_queue, with the links and the size they keep, are a   *)
(* FIFO queue: whatever the uninitialised pointers hold, a pop returns the *)
(* oldest job that is in the queue, and no job is lost or duplicated.      *)
THEOREM ListIsFifo == QueueSpec => FifoSpec
<1> SUFFICES QueueSpec => Queue!Spec
  BY DEF FifoSpec
<1>1. QueueInit => Queue!Init
  <2> SUFFICES ASSUME QueueInit PROVE Queue!Init
    OBVIOUS
  <2>1. ListInv /\ size = 0 /\ popped = NoJob
    BY ListInvInit DEF QueueInit
  <2>2. Items = <<>>
    BY <2>1, ItemsAre DEF ItemsOK
  <2> QED
    BY <2>1, <2>2 DEF Queue!Init, Items
<1>2. ListInv /\ ListInv' /\ [QueueNext]_queueVars => [Queue!Next]_(Queue!vars)
  <2> SUFFICES ASSUME ListInv, ListInv', [QueueNext]_queueVars PROVE [Queue!Next]_(Queue!vars)
    OBVIOUS
  <2>1. ASSUME NEW j \in Jobs, AddQueue(j) PROVE Queue!Next
    BY <2>1, AddStep DEF Queue!Next, Queue!Add, Items
  <2>2. CASE PopQueue
    BY <2>2, PopStep DEF Queue!Next, Queue!Pop, Items
  <2>3. CASE UNCHANGED queueVars
    BY <2>3 DEF queueVars, Queue!vars, Chain
  <2> QED
    BY <2>1, <2>2, <2>3 DEF QueueNext
<1> QED
  BY ListInvInit, ListInvStep, <1>1, <1>2, PTL DEF QueueSpec, Queue!Spec
=============================================================================
