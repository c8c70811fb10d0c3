---------------------------- MODULE PrimeServer ----------------------------
(***************************************************************************)
(* The prime-number server of proj1/src/multisrv.c: one thread per         *)
(* accepted connection (serve_connection) cuts every request into slices   *)
(* and deals them round-robin to per-worker queues; worker threads         *)
(* (workfunc) pop slices, fill the shared output array and raise one flag  *)
(* per slice; the connection thread spins on the flags, then replies.      *)
(*                                                                         *)
(* Kept: every step of the two kinds of threads that touches shared        *)
(* memory, in the order of the code, and every exit of the service loop.   *)
(* Abstracted: the numbers themselves (module PrimeCheck), the linked list *)
(* behind a queue (module JobQueue), the bytes on the socket (module       *)
(* PrimeWire) and the main thread (module ServerMain).                     *)
(***************************************************************************)
EXTENDS Integers, Sequences, FiniteSets

CONSTANTS
    NumWorkers,   \* workerThreadSize
    SliceSize,    \* qslice_max_size
    Conns,        \* the connections main may accept
    MaxLen,       \* bound: the longest array a client sends
    MaxReq,       \* bound: the requests one client sends
    DirtyHeap,    \* may malloc return memory that is not zero?
    Free          \* the value of a mutex nobody holds

Workers == 0 .. NumWorkers - 1

ASSUME ServerAssumption ==
    /\ NumWorkers \in Nat \ {0}
    /\ SliceSize \in Nat \ {0}
    /\ MaxLen \in Nat
    /\ MaxReq \in Nat
    /\ DirtyHeap \in BOOLEAN
    /\ Conns \cap Workers = {}
    /\ Free \notin Conns \cup Workers

(* A request is named by its connection and its number on that connection: *)
(* its three arrays are malloc'ed afresh and never freed.                  *)
Requests  == Conns \X (1 .. MaxReq)
Positions == 0 .. MaxLen - 1

(* Operators marked "mutant" are bugs the properties are tried against;    *)
(* the specification does not use them.  Mutant: the last, shorter slice   *)
(* is not counted.                                                         *)
NumBlocksFloor(n) == n \div SliceSize

(* block_num: the number of slices of an array of n entries. *)
NumBlocks(n) == ((n - 1) \div SliceSize) + 1

(* The fields of qdata that are read; inarr, outarr and flag_arr are req. *)
Jobs == [req : Requests, start : Positions, size : 0 .. MaxLen, flag_pos : Positions]

(* Mutant: every slice is told to raise flag 0. *)
MakeJobOneFlag(r, n, at) ==
    [req |-> r, start |-> at, flag_pos |-> at \div n,
     size |-> IF at + SliceSize > n THEN n % SliceSize ELSE SliceSize]

(* Mutant: a full last slice is taken for a remainder of length 0. *)
MakeJobEmptyLast(r, n, at) ==
    [req |-> r, start |-> at, flag_pos |-> at \div SliceSize,
     size |-> IF at + SliceSize >= n THEN n % SliceSize ELSE SliceSize]

(* Mutant: the remainder is computed for the second slice of any array. *)
MakeJobShort(r, n, at) ==
    [req |-> r, start |-> at, flag_pos |-> at \div SliceSize,
     size |-> IF at + SliceSize > n THEN n - SliceSize ELSE SliceSize]

MakeJob(r, n, at) ==
    [req      |-> r,
     start    |-> at,
     size     |-> IF at + SliceSize > n THEN n % SliceSize ELSE SliceSize,
     flag_pos |-> at \div SliceSize]

(* memset clears block_num BYTES of an array of block_num ints, so flag k  *)
(* is sure to be zero only when its four bytes lie within the first        *)
(* block_num.                                                              *)
GarbageFlags(n) ==
    IF DirtyHeap
    THEN {k \in 0 .. NumBlocks(n) - 1 : 4 * (k + 1) > NumBlocks(n)}
    ELSE {}

VARIABLES
    shutting_down,  \* set by the SIGINT handler, never reset
    queue,          \* queue[w]: the jobs of queues[w], oldest first
    mutex,          \* mutex[w]: the thread that holds qu_mutexs[w], or Free
    flags,          \* flags[r]: the positions of result_flags that are not 0
    written,        \* written[r]: the entries of output_arr a worker stored
    cpc,            \* where each connection thread is
    reqno,          \* the number of requests it has read
    len,            \* its N
    in,             \* the worker its next slice goes to
    i,              \* the index of its current for loop
    wpc,            \* where each worker thread is
    hand,           \* the job a worker popped, as a set of at most one
    wi              \* the worker's loop index

connVars   == <<cpc, reqno, len, in, i>>
workerVars == <<wpc, hand, wi>>
memVars    == <<flags, written>>
vars == <<shutting_down, queue, mutex, memVars, connVars, workerVars>>

Req(c) == <<c, reqno[c]>>

Init ==
    /\ shutting_down = FALSE
    /\ queue = [w \in Workers |-> <<>>]
    /\ mutex = [w \in Workers |-> Free]
    /\ flags = [r \in Requests |-> {}]
    /\ written = [r \in Requests |-> {}]
    /\ cpc = [c \in Conns |-> "none"]
    /\ reqno = [c \in Conns |-> 0]
    /\ len = [c \in Conns |-> 0]
    /\ in = [c \in Conns |-> 0]
    /\ i = [c \in Conns |-> 0]
    /\ wpc = [w \in Workers |-> "lock"]
    /\ hand = [w \in Workers |-> {}]
    /\ wi = [w \in Workers |-> 0]

-----------------------------------------------------------------------------
(* The signal handler. *)
Sigint ==
    /\ shutting_down' = TRUE
    /\ UNCHANGED <<queue, mutex, memVars, connVars, workerVars>>

-----------------------------------------------------------------------------
(* Connection threads.  GoOn is the "if (shutting_down) goto quit" that    *)
(* follows every system call; "closed" is the label quit.                  *)

GoOn(c, next) ==
    cpc' = [cpc EXCEPT ![c] = IF shutting_down THEN "closed" ELSE next]

(* main accepted a connection and created the thread that serves it. *)
Accept(c) ==
    /\ cpc[c] = "none"
    /\ cpc' = [cpc EXCEPT ![c] = "start"]
    /\ UNCHANGED <<shutting_down, queue, mutex, memVars, reqno, len, in, i, workerVars>>

(* The first evaluation of while (! shutting_down). *)
StartLoop(c) ==
    /\ cpc[c] = "start"
    /\ GoOn(c, "read_len")
    /\ UNCHANGED <<shutting_down, queue, mutex, memVars, reqno, len, in, i, workerVars>>

(* A read or write of the socket returns <= 0: the peer closed, the        *)
(* connection was reset, or the call was interrupted.                      *)
IoFails(c) ==
    /\ cpc[c] \in {"read_len", "ack", "read_arr", "reply"}
    /\ cpc' = [cpc EXCEPT ![c] = "closed"]
    /\ UNCHANGED <<shutting_down, queue, mutex, memVars, reqno, len, in, i, workerVars>>

(* len 0 stands for every N <= 0: the read of the array then returns <= 0. *)
ReadLen(c) ==
    /\ cpc[c] = "read_len"
    /\ reqno[c] < MaxReq
    /\ reqno' = [reqno EXCEPT ![c] = @ + 1]
    /\ \E n \in 0 .. MaxLen : len' = [len EXCEPT ![c] = n]
    /\ GoOn(c, "ack")
    /\ UNCHANGED <<shutting_down, queue, mutex, memVars, in, i, workerVars>>

WriteAck(c) ==
    /\ cpc[c] = "ack"
    /\ GoOn(c, "read_arr")
    /\ UNCHANGED <<shutting_down, queue, mutex, memVars, reqno, len, in, i, workerVars>>

(* The array arrives; the flags are allocated and (partly) cleared, and    *)
(* the first worker is drawn.                                              *)
ReadArray(c) ==
    /\ cpc[c] = "read_arr"
    /\ len[c] > 0
    /\ GoOn(c, "lock")
    /\ \E g \in SUBSET GarbageFlags(len[c]) :
          flags' = [flags EXCEPT ![Req(c)] = g]
    /\ \E w \in Workers : in' = [in EXCEPT ![c] = w]
    /\ i' = [i EXCEPT ![c] = 0]
    /\ UNCHANGED <<shutting_down, queue, mutex, written, reqno, len, workerVars>>

(* Mutant: the mutex is not waited for. *)
EnqueueLockUnchecked(c) ==
    /\ cpc[c] = "lock"
    /\ mutex' = [mutex EXCEPT ![in[c]] = c]
    /\ cpc' = [cpc EXCEPT ![c] = "add"]
    /\ UNCHANGED <<shutting_down, queue, memVars, reqno, len, in, i, workerVars>>

EnqueueLock(c) ==
    /\ cpc[c] = "lock"
    /\ mutex[in[c]] = Free
    /\ mutex' = [mutex EXCEPT ![in[c]] = c]
    /\ cpc' = [cpc EXCEPT ![c] = "add"]
    /\ UNCHANGED <<shutting_down, queue, memVars, reqno, len, in, i, workerVars>>

EnqueueAdd(c) ==
    /\ cpc[c] = "add"
    /\ queue' = [queue EXCEPT ![in[c]] = Append(@, MakeJob(Req(c), len[c], i[c]))]
    /\ cpc' = [cpc EXCEPT ![c] = "unlock"]
    /\ UNCHANGED <<shutting_down, mutex, memVars, reqno, len, in, i, workerVars>>

(* Unlock, advance to the next worker and the next slice; after the last   *)
(* slice the loop that polls the flags starts at 0.                        *)
EnqueueUnlock(c) ==
    /\ cpc[c] = "unlock"
    /\ mutex' = [mutex EXCEPT ![in[c]] = Free]
    /\ in' = [in EXCEPT ![c] = (@ + 1) % NumWorkers]
    /\ \/ /\ i[c] + SliceSize < len[c]
          /\ i' = [i EXCEPT ![c] = @ + SliceSize]
          /\ cpc' = [cpc EXCEPT ![c] = "lock"]
       \/ /\ i[c] + SliceSize >= len[c]
          /\ i' = [i EXCEPT ![c] = 0]
          /\ cpc' = [cpc EXCEPT ![c] = "wait"]
    /\ UNCHANGED <<shutting_down, queue, memVars, reqno, len, workerVars>>

(* Mutant: "if" for "while". *)
SeeFlagOnce(c) ==
    /\ cpc[c] = "wait"
    /\ i' = [i EXCEPT ![c] = IF @ + 1 < NumBlocks(len[c]) THEN @ + 1 ELSE 0]
    /\ cpc' = [cpc EXCEPT ![c] = IF i[c] + 1 < NumBlocks(len[c]) THEN @ ELSE "reply"]
    /\ UNCHANGED <<shutting_down, queue, mutex, memVars, reqno, len, in, workerVars>>

(* while(result_flags[i] ==0){} lets go of flag i. *)
SeeFlag(c) ==
    /\ cpc[c] = "wait"
    /\ i[c] \in flags[Req(c)]
    /\ \/ /\ i[c] + 1 < NumBlocks(len[c])
          /\ i' = [i EXCEPT ![c] = @ + 1]
          /\ cpc' = cpc
       \/ /\ i[c] + 1 >= NumBlocks(len[c])
          /\ i' = [i EXCEPT ![c] = 0]
          /\ cpc' = [cpc EXCEPT ![c] = "reply"]
    /\ UNCHANGED <<shutting_down, queue, mutex, memVars, reqno, len, in, workerVars>>

Reply(c) ==
    /\ cpc[c] = "reply"
    /\ GoOn(c, "read_len")
    /\ UNCHANGED <<shutting_down, queue, mutex, memVars, reqno, len, in, i, workerVars>>

ConnNext(c) ==
    \/ StartLoop(c) \/ IoFails(c) \/ ReadLen(c) \/ WriteAck(c) \/ ReadArray(c)
    \/ EnqueueLock(c) \/ EnqueueAdd(c) \/ EnqueueUnlock(c)
    \/ SeeFlag(c) \/ Reply(c)

-----------------------------------------------------------------------------
(* Worker threads. *)

WorkerLock(w) ==
    /\ wpc[w] = "lock"
    /\ mutex[w] = Free
    /\ mutex' = [mutex EXCEPT ![w] = w]
    /\ wpc' = [wpc EXCEPT ![w] = "pop"]
    /\ UNCHANGED <<shutting_down, queue, memVars, connVars, hand, wi>>

(* Mutant: the job popped stays in the queue. *)
WorkerPopPeek(w) ==
    /\ wpc[w] = "pop"
    /\ wpc' = [wpc EXCEPT ![w] = "unlock"]
    /\ hand' = [hand EXCEPT ![w] = IF queue[w] = <<>> THEN {} ELSE {Head(queue[w])}]
    /\ UNCHANGED <<shutting_down, queue, mutex, memVars, connVars, wi>>

(* Pop the oldest job, if there is one; an empty hand is get_job == 0. *)
WorkerPop(w) ==
    /\ wpc[w] = "pop"
    /\ wpc' = [wpc EXCEPT ![w] = "unlock"]
    /\ \/ /\ queue[w] # <<>>
          /\ hand' = [hand EXCEPT ![w] = {Head(queue[w])}]
          /\ queue' = [queue EXCEPT ![w] = Tail(@)]
       \/ /\ queue[w] = <<>>
          /\ UNCHANGED <<hand, queue>>
    /\ UNCHANGED <<shutting_down, mutex, memVars, connVars, wi>>

WorkerUnlock(w) ==
    /\ wpc[w] = "unlock"
    /\ mutex' = [mutex EXCEPT ![w] = Free]
    /\ \/ /\ hand[w] = {}
          /\ wpc' = [wpc EXCEPT ![w] = "lock"]
          /\ UNCHANGED wi
       \/ \E d \in hand[w] :
             /\ wpc' = [wpc EXCEPT ![w] = "work"]
             /\ wi' = [wi EXCEPT ![w] = d.start]
    /\ UNCHANGED <<shutting_down, queue, memVars, connVars, hand>>

(* One iteration of for(i = startpoint; i < worksize; i++): the bound is   *)
(* the size of the slice, not its end.                                     *)
Compute(w) ==
    /\ wpc[w] = "work"
    /\ \E d \in hand[w] :
          /\ wi[w] < d.size
          /\ written' = [written EXCEPT ![d.req] = @ \cup {wi[w]}]
    /\ wi' = [wi EXCEPT ![w] = @ + 1]
    /\ UNCHANGED <<shutting_down, queue, mutex, flags, connVars, wpc, hand>>

(* d.flag_arr[d.flag_pos] = 1, and back to the head of the loop. *)
SetFlag(w) ==
    /\ wpc[w] = "work"
    /\ \E d \in hand[w] :
          /\ wi[w] >= d.size
          /\ flags' = [flags EXCEPT ![d.req] = @ \cup {d.flag_pos}]
    /\ hand' = [hand EXCEPT ![w] = {}]
    /\ wpc' = [wpc EXCEPT ![w] = "lock"]
    /\ UNCHANGED <<shutting_down, queue, mutex, written, connVars, wi>>

WorkerNext(w) ==
    WorkerLock(w) \/ WorkerPop(w) \/ WorkerUnlock(w) \/ Compute(w) \/ SetFlag(w)

-----------------------------------------------------------------------------
Next ==
    \/ Sigint
    \/ \E c \in Conns : Accept(c) \/ ConnNext(c)
    \/ \E w \in Workers : WorkerNext(w)

Spec == Init /\ [][Next]_vars

-----------------------------------------------------------------------------
(* Properties. *)

ConnStates   == {"none", "start", "read_len", "ack", "read_arr", "lock", "add",
                 "unlock", "wait", "reply", "closed"}
WorkerStates == {"lock", "pop", "unlock", "work"}

(* The values every variable of the server may take. *)
TypeOK ==
    /\ shutting_down \in BOOLEAN
    /\ queue \in [Workers -> Seq(Jobs)]
    /\ mutex \in [Workers -> Conns \cup Workers \cup {Free}]
    /\ flags \in [Requests -> SUBSET Positions]
    /\ written \in [Requests -> SUBSET Positions]
    /\ cpc \in [Conns -> ConnStates]
    /\ reqno \in [Conns -> 0 .. MaxReq]
    /\ len \in [Conns -> 0 .. MaxLen]
    /\ in \in [Conns -> Workers]
    /\ i \in [Conns -> Nat]
    /\ wpc \in [Workers -> WorkerStates]
    /\ hand \in [Workers -> SUBSET Jobs]
    /\ wi \in [Workers -> Nat]

(* A job is outstanding while it sits in a queue or in a worker's hand. *)
Queued(w)      == {queue[w][n] : n \in 1 .. Len(queue[w])}
Outstanding(w) == Queued(w) \cup hand[w]

Slicing == {"lock", "add", "unlock"}

(* qu_mutexs does its work: two threads are never both between lock and    *)
(* unlock of the same queue, so add_queue and pop_queue never overlap.     *)
ConnInside(c, w) == cpc[c] \in {"add", "unlock"} /\ in[c] = w
WorkerInside(w)  == wpc[w] \in {"pop", "unlock"}

MutualExclusion ==
    \A w \in Workers :
        /\ \A c, d \in Conns : ConnInside(c, w) /\ ConnInside(d, w) => c = d
        /\ \A c \in Conns : ~ (ConnInside(c, w) /\ WorkerInside(w))

(* No slice is dealt to two workers, queued twice, or queued again once a  *)
(* worker has taken it: two workers never fill the same part of an array.  *)
SliceDealtOnce ==
    /\ \A v, w \in Workers : \A a \in Outstanding(v), b \in Outstanding(w) :
          a.req = b.req /\ a.flag_pos = b.flag_pos => v = w /\ a = b
    /\ \A w \in Workers :
          /\ \A m, n \in 1 .. Len(queue[w]) : queue[w][m] = queue[w][n] => m = n
          /\ Queued(w) \cap hand[w] = {}

(* The polling loop of serve_connection never waits for a flag nobody will *)
(* raise: the slice of a flag that is still 0 is queued or being worked on. *)
NoSliceLost ==
    \A c \in Conns : cpc[c] = "wait" =>
        \A k \in i[c] .. NumBlocks(len[c]) - 1 :
            \/ k \in flags[Req(c)]
            \/ \E w \in Workers : \E j \in Outstanding(w) :
                  j.req = Req(c) /\ j.flag_pos = k

(* Every outstanding job belongs to the request its connection is slicing  *)
(* or waiting for: when the reply is written no worker will touch the      *)
(* arrays any more, which is what the (commented out) free of lines        *)
(* 122-124 would rely on.                                                  *)
NoOrphanJob ==
    \A w \in Workers : \A j \in Outstanding(w) : \E c \in Conns :
        j.req = Req(c) /\ cpc[c] \in Slicing \cup {"wait"}

(* When the reply is written a worker has stored every entry of output_arr. *)
ReplyComplete ==
    \A c \in Conns : cpc[c] = "reply" => written[Req(c)] = 0 .. len[c] - 1

(* An array that fits in one slice ("if slice size is bigger than input    *)
(* array size, there are no slice by server", proj1/README.md:19) is       *)
(* answered completely.                                                    *)
OneSliceReply ==
    \A c \in Conns :
        cpc[c] = "reply" /\ len[c] <= SliceSize => written[Req(c)] = 0 .. len[c] - 1

-----------------------------------------------------------------------------
(* The server implements PrimeService: a block is finished when its flag   *)
(* is raised.                                                              *)
Busy(c) == cpc[c] \in Slicing \cup {"wait", "reply"}

Service == INSTANCE PrimeService WITH
    MaxBlocks <- MaxLen,
    busy <- [c \in Conns |-> Busy(c)],
    todo <- [c \in Conns |->
                IF Busy(c) THEN (0 .. NumBlocks(len[c]) - 1) \ flags[Req(c)] ELSE {}]

ServiceSpec == Service!Spec
=============================================================================
