----------------------------- MODULE GameOfLife -----------------------------
(***************************************************************************)
(* The parallel game of life of lab03 (src/glife.cpp, nprocs >= 1).  main  *)
(* divides the cells between threads and passes each its range through one *)
(* stack variable, threadArg, which the next turn of the loop overwrites.  *)
(* A thread reads the fields of threadArg one by one, when it gets to run. *)
(* Two barriers separate computing a generation from swapping the grids.   *)
(***************************************************************************)
EXTENDS LifeGrid

CONSTANTS Sizes,      \* the <<rows, columns>> of the grids
          MaxThreads, \* bound on nprocs
          Gens        \* number of generations

ASSUME LifeAssumption ==
    /\ Sizes \subseteq (Nat \ {0}) \X (Nat \ {0})
    /\ MaxThreads \in Nat \ {0}
    /\ Gens \in Nat

VARIABLES
    nprocs, m_Rows, m_Cols,
    buf,            \* the two arrays of cells
    m_Grid, m_Temp, \* which array is which
    mpc, mi,        \* main: program counter, loop index
    from, to,       \* main: range of the thread being created
    threadArg,      \* the stack variable all threads read
    pc, rng, f,     \* thread: program counter, its copy of the range, cell
    togo,           \* thread: generations not yet finished
    tmp,            \* thread: local of flushGrid
    waiting         \* threads blocked in each barrier

mainVars == <<mpc, mi, from, to, threadArg>>
gridVars == <<buf, m_Grid, m_Temp>>
sizeVars == <<nprocs, m_Rows, m_Cols>>
vars == <<sizeVars, gridVars, mainVars, pc, rng, f, togo, tmp, waiting>>

Thread == 0 .. MaxThreads - 1
Size == m_Rows * m_Cols

Init ==
    /\ nprocs \in 1 .. MaxThreads
    /\ \E s \in Sizes : m_Rows = s[1] /\ m_Cols = s[2]
    /\ \E g \in Grids(m_Rows, m_Cols) :
          buf = <<g, [k \in Cells(m_Rows, m_Cols) |-> DEAD]>>
    /\ m_Grid = 1 /\ m_Temp = 2
    /\ mpc = "arg" /\ mi = 0 /\ from = -1 /\ to = -1
    /\ threadArg = [from |-> -1, to |-> -1]
    /\ pc = [t \in Thread |-> "none"]
    /\ rng = [t \in Thread |-> [from |-> -1, to |-> -1]]
    /\ f = [t \in Thread |-> 0]
    /\ togo = [t \in Thread |-> Gens]
    /\ tmp = [t \in Thread |-> 1]
    /\ waiting = [b \in {"cal", "flush"} |-> {}]

(***************************************************************************)
(* main                                                                    *)
(***************************************************************************)
width  == Size \div nprocs
margin == Size % nprocs

(* Mutant: no thread takes the cells that are left over. *)
RangeEndNoMargin(i, first) == first + width - 1

RangeEnd(i, first) == first + width - 1 + (IF i < margin THEN 1 ELSE 0)

SetFrom ==
    /\ mpc = "arg" /\ mi < nprocs
    /\ from' = to + 1
    /\ to' = RangeEnd(mi, to + 1)
    /\ threadArg' = [threadArg EXCEPT !.from = to + 1]
    /\ mpc' = "to"
    /\ UNCHANGED <<sizeVars, gridVars, mi, pc, rng, f, togo, tmp, waiting>>

SetTo ==
    /\ mpc = "to"
    /\ threadArg' = [threadArg EXCEPT !.to = to]
    /\ mpc' = "create"
    /\ UNCHANGED <<sizeVars, gridVars, mi, from, to, pc, rng, f, togo, tmp, waiting>>

Create ==
    /\ mpc = "create"
    /\ pc' = [pc EXCEPT ![mi] = "from"]
    /\ mi' = mi + 1
    /\ mpc' = "arg"
    /\ UNCHANGED <<sizeVars, gridVars, from, to, threadArg, rng, f, togo, tmp, waiting>>

Join ==
    /\ mpc = "arg" /\ mi = nprocs
    /\ \A t \in 0 .. nprocs - 1 : pc[t] = "done"
    /\ mpc' = "done"
    /\ UNCHANGED <<sizeVars, gridVars, mi, from, to, threadArg, pc, rng, f, togo, tmp, waiting>>

(***************************************************************************)
(* workerThread                                                            *)
(***************************************************************************)
ReadFrom(t) ==
    /\ pc[t] = "from"
    /\ rng' = [rng EXCEPT ![t].from = threadArg.from]
    /\ pc' = [pc EXCEPT ![t] = "to"]
    /\ UNCHANGED <<sizeVars, gridVars, mainVars, f, togo, tmp, waiting>>

ReadTo(t) ==
    /\ pc[t] = "to"
    /\ rng' = [rng EXCEPT ![t].to = threadArg.to]
    /\ pc' = [pc EXCEPT ![t] = "loop"]
    /\ UNCHANGED <<sizeVars, gridVars, mainVars, f, togo, tmp, waiting>>

Loop(t) ==
    /\ pc[t] = "loop"
    /\ f' = [f EXCEPT ![t] = rng[t].from]
    /\ pc' = [pc EXCEPT ![t] = IF togo[t] > 0 THEN "cell" ELSE "done"]
    /\ UNCHANGED <<sizeVars, gridVars, mainVars, rng, togo, tmp, waiting>>

(* next(from, to): one turn of its loop. *)
Cell(t) ==
    /\ pc[t] = "cell" /\ f[t] <= rng[t].to
    /\ buf' = [buf EXCEPT ![m_Temp][f[t]] =
                  CellNext(m_Rows, m_Cols, buf[m_Grid], f[t])]
    /\ f' = [f EXCEPT ![t] = f[t] + 1]
    /\ UNCHANGED <<sizeVars, m_Grid, m_Temp, mainVars, pc, rng, togo, tmp, waiting>>

(* pthread_barrier_wait: the last of nprocs threads wakes the others. *)
AfterBarrier(b, t) ==
    CASE b = "flush"    -> "loop"
      [] b = "cal"      -> IF rng[t].from = 0 THEN "swap" ELSE "flush"

(* Mutant: a barrier set up for one thread fewer. *)
IsLastEarly(b) == Cardinality(waiting[b]) >= nprocs - 2

(* Mutant: a barrier set up for one thread more. *)
IsLastNever(b) == Cardinality(waiting[b]) = nprocs

IsLast(b) == Cardinality(waiting[b]) = nprocs - 1

Counted(b) == IF b = "flush" THEN 1 ELSE 0

Arrive(t, b) ==
    LET all == waiting[b] \cup {t}
    IN  IF IsLast(b)
        THEN /\ waiting' = [waiting EXCEPT ![b] = {}]
             /\ pc' = [u \in Thread |-> IF u \in all THEN AfterBarrier(b, u) ELSE pc[u]]
             /\ togo' = [u \in Thread |-> IF u \in all THEN togo[u] - Counted(b) ELSE togo[u]]
        ELSE /\ waiting' = [waiting EXCEPT ![b] = all]
             /\ pc' = [pc EXCEPT ![t] = "blocked"]
             /\ UNCHANGED togo

BarrierCal(t) ==
    /\ pc[t] = "cell" /\ f[t] > rng[t].to
    /\ Arrive(t, "cal")
    /\ UNCHANGED <<sizeVars, gridVars, mainVars, rng, f, tmp>>

BarrierFlush(t) ==
    /\ pc[t] = "flush"
    /\ Arrive(t, "flush")
    /\ UNCHANGED <<sizeVars, gridVars, mainVars, rng, f, tmp>>

(* flushGrid, by the thread whose first cell is 0: two stores, in between *)
(* both pointers name the same array.                                     *)
FlushGrid(t) ==
    /\ pc[t] = "swap"
    /\ tmp' = [tmp EXCEPT ![t] = m_Grid]
    /\ m_Grid' = m_Temp
    /\ pc' = [pc EXCEPT ![t] = "swapped"]
    /\ UNCHANGED <<sizeVars, buf, m_Temp, mainVars, rng, f, togo, waiting>>

FlushTemp(t) ==
    /\ pc[t] = "swapped"
    /\ m_Temp' = tmp[t]
    /\ pc' = [pc EXCEPT ![t] = "flush"]
    /\ UNCHANGED <<sizeVars, buf, m_Grid, mainVars, rng, f, togo, tmp, waiting>>

WorkerStep(t) ==
    \/ ReadFrom(t) \/ ReadTo(t) \/ Loop(t) \/ Cell(t)
    \/ BarrierCal(t) \/ FlushGrid(t) \/ FlushTemp(t) \/ BarrierFlush(t)

MainStep == SetFrom \/ SetTo \/ Create \/ Join

Next == MainStep \/ \E t \in Thread : WorkerStep(t)

(* The operating system runs every thread that can run. *)
Spec == /\ Init /\ [][Next]_vars
        /\ WF_vars(MainStep)
        /\ \A t \in Thread : WF_vars(WorkerStep(t))

(***************************************************************************)
(* Properties                                                              *)
(***************************************************************************)
TypeOK ==
    /\ nprocs \in 1 .. MaxThreads /\ <<m_Rows, m_Cols>> \in Sizes
    /\ DOMAIN buf = {1, 2}
    /\ \A b \in {1, 2} : buf[b] \in Grids(m_Rows, m_Cols)
    /\ m_Grid \in {1, 2} /\ m_Temp \in {1, 2}
    /\ mpc \in {"arg", "to", "create", "done"} /\ mi \in 0 .. nprocs
    /\ from \in -1 .. Size /\ to \in -1 .. Size - 1
    /\ threadArg \in [from : -1 .. Size, to : -1 .. Size - 1]
    /\ pc \in [Thread -> {"none", "from", "to", "loop", "cell", "blocked",
                          "swap", "swapped", "flush", "done"}]
    /\ rng \in [Thread -> [from : -1 .. Size, to : -1 .. Size - 1]]
    /\ f \in [Thread -> -1 .. Size]
    /\ togo \in [Thread -> 0 .. Gens]
    /\ tmp \in [Thread -> {1, 2}]
    /\ waiting \in [{"cal", "flush"} -> SUBSET Thread]

(* Nobody computes cells while a thread is swapping the grids, and nobody  *)
(* is woken to do so: what the two barriers are for.  It holds even when   *)
(* threads have read each other's ranges.                                  *)
FlushAlone ==
    \A t, u \in Thread :
        pc[t] \in {"swap", "swapped"} => pc[u] \notin {"loop", "cell"}

(* The range main makes for each thread. *)
Given[t \in Thread] ==
    LET first == IF t = 0 THEN 0 ELSE Given[t - 1].to + 1
    IN  [from |-> first, to |-> RangeEnd(t, first)]

(* Every thread that has read its range has read its own. *)
OwnRanges ==
    \A t \in 0 .. nprocs - 1 :
        pc[t] \notin {"none", "from", "to"} => rng[t] = Given[t]

(* Generations not yet shown: thread 0 shows one by its first store. *)
Left == togo[0] - (IF \/ pc[0] \in {"swapped", "flush"}
                      \/ 0 \in waiting["flush"] THEN 1 ELSE 0)

Sequential == INSTANCE LifeSequence WITH grid <- buf[m_Grid], left <- Left

(* While the threads have read their own ranges, the grid changes only as  *)
(* the sequential version changes it, one whole generation at a time.      *)
SequentialStep == [][OwnRanges' => [Sequential!Next]_<<buf[m_Grid], Left>>]_vars

(* All threads get through both barriers of every generation, whatever     *)
(* ranges they read, and main joins them; with their own ranges every      *)
(* generation has been shown.                                              *)
Finishes == <>(mpc = "done" /\ (OwnRanges => Left = 0))
=============================================================================
