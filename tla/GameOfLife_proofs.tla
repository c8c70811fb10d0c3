-------------------------- MODULE GameOfLife_proofs -------------------------
(***************************************************************************)
(* Proofs about GameOfLife, for any grid, any number of threads and of     *)
(* generations: the two barriers keep computing and swapping apart, and    *)
(* threads with their own ranges compute the sequential generations.       *)
(***************************************************************************)
EXTENDS GameOfLife, FiniteSetTheorems, WellFoundedInduction, TLAPS

Workers == 0 .. nprocs - 1

Starting == {"none", "from", "to"}
Steps == Starting \cup {"loop", "cell", "blocked", "swap", "swapped", "flush", "done"}

(* main creates the threads in order, nprocs of them and no more.          *)
CreateInv ==
    /\ nprocs \in 1 .. MaxThreads
    /\ mi \in 0 .. nprocs
    /\ mpc \in {"to", "create"} => mi < nprocs
    /\ pc \in [Thread -> Steps]
    /\ \A t \in Thread : t >= mi => pc[t] = "none"

(* A barrier holds threads that are blocked, and only existing ones.       *)
BarrierInv ==
    /\ waiting \in [{"cal", "flush"} -> SUBSET Workers]
    /\ \A b \in {"cal", "flush"} : \A t \in waiting[b] : pc[t] = "blocked"

(* All threads are on their way to the first barrier ...                   *)
Computing ==
    /\ waiting["flush"] = {}
    /\ \A t \in Thread : pc[t] \in Starting \cup {"loop", "cell", "blocked", "done"}

(* ... or all of them are between the first and the second.                *)
Flushing ==
    /\ waiting["cal"] = {}
    /\ \A t \in Workers : pc[t] \in {"swap", "swapped", "flush", "blocked"}

PhaseInv == Computing \/ Flushing

LifeInv == CreateInv /\ BarrierInv /\ PhaseInv

(* The thread that finds n - 1 others at a barrier of n is the last one.   *)
LEMMA LastCompletes ==
    ASSUME NEW n \in Nat \ {0}, NEW W \in SUBSET (0 .. n - 1),
           NEW t \in (0 .. n - 1) \ W, Cardinality(W) = n - 1
    PROVE  W \cup {t} = 0 .. n - 1
<1>1. IsFiniteSet(0 .. n - 1) /\ Cardinality(0 .. n - 1) = n
  BY FS_Interval
<1>2. IsFiniteSet(W)
  BY <1>1, FS_Subset
<1>3. Cardinality(W \cup {t}) = n
  BY <1>2, FS_AddElement
<1>. QED
  BY <1>1, <1>3, FS_Subset, ZenonT(40)

LEMMA InitLife == Init => LifeInv
<1>. SUFFICES ASSUME Init PROVE LifeInv
  OBVIOUS
<1>. USE LifeAssumption DEF Init, Thread
<1>1. CreateInv
  BY DEF CreateInv, Steps, Starting
<1>2. BarrierInv
  BY DEF BarrierInv
<1>3. Computing
  BY DEF Computing, Starting
<1>. QED
  BY <1>1, <1>2, <1>3 DEF LifeInv, PhaseInv

(* main starts threads only while some are missing, so never in Flushing.  *)
LEMMA MainLife == LifeInv /\ MainStep => LifeInv'
<1>. SUFFICES ASSUME LifeInv, MainStep PROVE LifeInv'
  OBVIOUS
<1>. USE LifeAssumption DEF LifeInv, CreateInv, BarrierInv, PhaseInv, Computing,
                            Flushing, Steps, Starting, Thread, Workers, sizeVars
<1>1. CASE SetFrom
  BY <1>1 DEF SetFrom
<1>2. CASE SetTo
  BY <1>2 DEF SetTo
<1>3. CASE Create
  <2>1. mi \in Workers /\ pc[mi] = "none"
    BY <1>3 DEF Create
  <2>2. Computing
    BY <2>1
  <2>3. mi \notin waiting["cal"]
    BY <2>1
  <2>. QED
    BY <1>3, <2>1, <2>2, <2>3 DEF Create
<1>4. CASE Join
  BY <1>4 DEF Join
<1>. QED
  BY <1>1, <1>2, <1>3, <1>4 DEF MainStep

(* A step of a thread that leaves the barriers alone keeps its phase.      *)
LEMMA QuietLife ==
    ASSUME LifeInv, NEW t \in Thread,
           ReadFrom(t) \/ ReadTo(t) \/ Loop(t) \/ Cell(t) \/ FlushGrid(t) \/ FlushTemp(t)
    PROVE  LifeInv'
<1>. USE LifeAssumption DEF LifeInv, CreateInv, BarrierInv, PhaseInv, Computing,
                            Flushing, Steps, Starting, Thread, Workers, sizeVars, mainVars
<1>1. CASE ReadFrom(t)
  BY <1>1 DEF ReadFrom
<1>2. CASE ReadTo(t)
  BY <1>2 DEF ReadTo
<1>3. CASE Loop(t)
  BY <1>3, SMTT(20) DEF Loop
<1>4. CASE Cell(t)
  BY <1>4 DEF Cell
<1>5. CASE FlushGrid(t)
  BY <1>5 DEF FlushGrid
<1>6. CASE FlushTemp(t)
  BY <1>6 DEF FlushTemp
<1>. QED
  BY <1>1, <1>2, <1>3, <1>4, <1>5, <1>6

(* The last thread at the first barrier finds all others there: the phase  *)
(* changes for everyone at once.                                           *)
LEMMA CalLife ==
    ASSUME LifeInv, NEW t \in Thread, BarrierCal(t)
    PROVE  LifeInv'
<1>. USE LifeAssumption DEF LifeInv, CreateInv, Steps, Starting, Thread, Workers, sizeVars, mainVars
<1>1. /\ pc[t] = "cell" /\ t \in Workers /\ t \notin waiting["cal"]
      /\ UNCHANGED <<nprocs, mi, mpc>> /\ Arrive(t, "cal")
  BY DEF BarrierCal, BarrierInv
<1>2. Computing
  BY <1>1 DEF PhaseInv, Flushing
<1>3. CASE IsLast("cal")
  <2>1. waiting["cal"] \cup {t} = Workers
    BY <1>1, <1>3, LastCompletes DEF IsLast, BarrierInv
  <2>2. \A u \in Workers : AfterBarrier("cal", u) \in {"swap", "flush"}
    BY DEF AfterBarrier
  <2>3. /\ waiting' = [waiting EXCEPT !["cal"] = {}]
        /\ pc' = [u \in Thread |-> IF u \in Workers THEN AfterBarrier("cal", u) ELSE pc[u]]
    BY <1>1, <1>3, <2>1 DEF Arrive
  <2>4. waiting' = [b \in {"cal", "flush"} |-> {}]
    BY <1>2, <2>3 DEF BarrierInv, Computing
  <2>5. \A u \in Workers : pc[u] # "none"
    BY <1>1, <2>1 DEF BarrierInv
  <2>6. mi = nprocs
    BY <2>5
  <2>7. CreateInv'
    BY <1>1, <2>2, <2>3, <2>6
  <2>. QED
    BY <1>1, <2>2, <2>3, <2>4, <2>7 DEF BarrierInv, PhaseInv, Flushing
<1>4. CASE ~IsLast("cal")
  <2>1. /\ waiting' = [waiting EXCEPT !["cal"] = @ \cup {t}]
        /\ pc' = [pc EXCEPT ![t] = "blocked"]
    BY <1>1, <1>4 DEF Arrive, BarrierInv
  <2>. QED
    BY <1>1, <1>2, <2>1 DEF BarrierInv, PhaseInv, Computing
<1>. QED
  BY <1>3, <1>4

(* The same at the second barrier.                                         *)
LEMMA FlushLife ==
    ASSUME LifeInv, NEW t \in Thread, BarrierFlush(t)
    PROVE  LifeInv'
<1>. USE LifeAssumption DEF LifeInv, CreateInv, Steps, Starting, Thread, Workers, sizeVars, mainVars
<1>1. /\ pc[t] = "flush" /\ t \in Workers /\ t \notin waiting["flush"]
      /\ UNCHANGED <<nprocs, mi, mpc>> /\ Arrive(t, "flush")
  BY DEF BarrierFlush, BarrierInv
<1>2. Flushing
  BY <1>1 DEF PhaseInv, Computing
<1>3. CASE IsLast("flush")
  <2>1. waiting["flush"] \cup {t} = Workers
    BY <1>1, <1>3, LastCompletes DEF IsLast, BarrierInv
  <2>2. /\ waiting' = [waiting EXCEPT !["flush"] = {}]
        /\ pc' = [u \in Thread |-> IF u \in Workers THEN "loop" ELSE pc[u]]
    BY <1>1, <1>3, <2>1 DEF Arrive, AfterBarrier
  <2>3. waiting' = [b \in {"cal", "flush"} |-> {}]
    BY <1>2, <2>2 DEF BarrierInv, Flushing
  <2>4. \A u \in Workers : pc[u] # "none"
    BY <1>2 DEF Flushing
  <2>5. mi = nprocs
    BY <2>4
  <2>6. CreateInv'
    BY <1>1, <2>2, <2>5
  <2>. QED
    BY <1>1, <2>2, <2>3, <2>5, <2>6 DEF BarrierInv, PhaseInv, Computing
<1>4. CASE ~IsLast("flush")
  <2>1. /\ waiting' = [waiting EXCEPT !["flush"] = @ \cup {t}]
        /\ pc' = [pc EXCEPT ![t] = "blocked"]
    BY <1>1, <1>4 DEF Arrive, BarrierInv
  <2>. QED
    BY <1>1, <1>2, <2>1 DEF BarrierInv, PhaseInv, Flushing
<1>. QED
  BY <1>3, <1>4

LEMMA StepLife == LifeInv /\ [Next]_vars => LifeInv'
<1>. SUFFICES ASSUME LifeInv, [Next]_vars PROVE LifeInv'
  OBVIOUS
<1>1. CASE MainStep
  BY <1>1, MainLife
<1>2. ASSUME NEW t \in Thread, WorkerStep(t) PROVE LifeInv'
  BY <1>2, QuietLife, CalLife, FlushLife DEF WorkerStep
<1>3. CASE UNCHANGED vars
  BY <1>3 DEF vars, sizeVars, mainVars, LifeInv, CreateInv, BarrierInv, PhaseInv,
              Computing, Flushing, Workers
<1>. QED
  BY <1>1, <1>2, <1>3 DEF Next

(* While main is still creating threads, nobody has passed a barrier; no   *)
(* thread swaps the grids while another computes (glife.cpp:186-192).      *)
THEOREM BarrierSafety == Spec => []FlushAlone
<1>1. LifeInv => FlushAlone
  BY LifeAssumption DEF LifeInv, CreateInv, PhaseInv, Computing, Flushing, FlushAlone,
     Starting, Thread, Workers
<1>. QED
  BY <1>1, InitLife, StepLife, PTL DEF Spec

-----------------------------------------------------------------------------
(* The generations to go: the same number for all threads, as a barrier    *)
(* lets all of them through at once.                                       *)
TogoInv ==
    /\ togo \in [Thread -> Nat]
    /\ \A t, u \in Workers : togo[t] = togo[u]
    /\ \A t \in Workers :
          pc[t] \in {"cell", "swap", "swapped", "flush", "blocked"} => togo[t] > 0

(* The last thread at a barrier finds all the others there.                *)
LEMMA AllThere ==
    ASSUME LifeInv, NEW t \in Thread, NEW b \in {"cal", "flush"}, IsLast(b),
           pc[t] \notin {"none", "blocked"}
    PROVE  waiting[b] \cup {t} = Workers
<1>1. nprocs \in Nat \ {0} /\ t \in Workers /\ waiting[b] \in SUBSET Workers
  BY LifeAssumption DEF LifeInv, CreateInv, BarrierInv, Workers, Thread
<1>2. t \notin waiting[b]
  BY DEF LifeInv, BarrierInv
<1>. QED
  BY <1>1, <1>2, LastCompletes DEF IsLast, Workers

(* What the last arrival does, and what the others do.                     *)
LEMMA Arrival ==
    ASSUME LifeInv, NEW t \in Thread, NEW b \in {"cal", "flush"}, Arrive(t, b),
           pc[t] \notin {"none", "blocked"}
    PROVE  \/ /\ waiting[b] \cup {t} = Workers
              /\ waiting' = [waiting EXCEPT ![b] = {}]
              /\ pc' = [u \in Thread |-> IF u \in Workers THEN AfterBarrier(b, u) ELSE pc[u]]
              /\ togo' = [u \in Thread |-> IF u \in Workers THEN togo[u] - Counted(b) ELSE togo[u]]
           \/ /\ waiting' = [waiting EXCEPT ![b] = waiting[b] \cup {t}]
              /\ pc' = [pc EXCEPT ![t] = "blocked"]
              /\ togo' = togo
<1>1. CASE IsLast(b)
  <2>1. waiting[b] \cup {t} = Workers
    BY <1>1, AllThere
  <2>. QED
    BY <1>1, <2>1 DEF Arrive
<1>2. CASE ~ IsLast(b)
  BY <1>2 DEF Arrive
<1>. QED
  BY <1>1, <1>2

LEMMA TogoStep ==
    ASSUME LifeInv, TogoInv, [Next]_vars
    PROVE  TogoInv'
<1>0. /\ Workers \subseteq Thread /\ pc \in [Thread -> Steps] /\ togo \in [Thread -> Nat]
      /\ mi \in 0 .. nprocs
  BY LifeAssumption DEF LifeInv, CreateInv, Workers, Thread, TogoInv
<1>1. UNCHANGED Workers
  BY DEF Next, MainStep, SetFrom, SetTo, Create, Join, WorkerStep, ReadFrom, ReadTo, Loop, Cell,
         BarrierCal, FlushGrid, FlushTemp, BarrierFlush, vars, sizeVars, Workers
<1>2. ASSUME togo' = togo,
             \A t \in Workers : pc'[t] \in {"cell", "swap", "swapped", "flush", "blocked"} =>
                pc[t] \in {"cell", "swap", "swapped", "flush", "blocked"} \/ togo[t] > 0
      PROVE  TogoInv'
  BY <1>1, <1>2 DEF TogoInv
<1>. HIDE DEF Workers, Thread
<1>3. CASE MainStep
  BY <1>0, <1>2, <1>3 DEF MainStep, SetFrom, SetTo, Create, Join
<1>4. ASSUME NEW t \in Thread, ReadFrom(t) \/ ReadTo(t) \/ Loop(t) PROVE TogoInv'
  BY <1>0, <1>2, <1>4 DEF ReadFrom, ReadTo, Loop
<1>5. ASSUME NEW t \in Thread, Cell(t) \/ FlushGrid(t) \/ FlushTemp(t) PROVE TogoInv'
  BY <1>0, <1>2, <1>5 DEF Cell, FlushGrid, FlushTemp
<1>6. ASSUME NEW t \in Thread, BarrierCal(t) PROVE TogoInv'
  <2>1. pc[t] = "cell" /\ Arrive(t, "cal") /\ t \in Workers
    BY <1>6 DEF BarrierCal, LifeInv, CreateInv, Workers, Thread
  <2>2. togo[t] > 0 /\ \A u \in Workers : togo[u] = togo[t]
    BY <2>1 DEF TogoInv
  <2>3. togo' = togo
    <3>1. \A u \in Thread : togo[u] - Counted("cal") = togo[u]
      BY <1>0 DEF Counted
    <3>. QED
      BY <1>0, <2>1, <3>1, Arrival
  <2>. QED
    BY <1>2, <2>2, <2>3
<1>7. ASSUME NEW t \in Thread, BarrierFlush(t) PROVE TogoInv'
  <2>1. pc[t] = "flush" /\ Arrive(t, "flush") /\ t \in Workers
    BY <1>7 DEF BarrierFlush, LifeInv, CreateInv, Workers, Thread
  <2>2. \A u \in Workers : togo[u] > 0 /\ \A v \in Workers : togo[u] = togo[v]
    BY <2>1 DEF TogoInv
  <2>3. CASE /\ pc' = [u \in Thread |-> IF u \in Workers THEN AfterBarrier("flush", u) ELSE pc[u]]
             /\ togo' = [u \in Thread |-> IF u \in Workers THEN togo[u] - Counted("flush") ELSE togo[u]]
    <3>1. \A u \in Workers : pc'[u] = "loop" /\ togo'[u] = togo[u] - 1
      BY <1>0, <2>3 DEF AfterBarrier, Counted
    <3>2. togo' \in [Thread -> Nat]
      BY <1>0, <2>2, <2>3 DEF Counted
    <3>. QED
      BY <1>1, <2>2, <3>1, <3>2 DEF TogoInv
  <2>4. CASE pc' = [pc EXCEPT ![t] = "blocked"] /\ togo' = togo
    BY <1>0, <1>2, <2>1, <2>4
  <2>. QED
    BY <2>1, <2>3, <2>4, Arrival
<1>8. CASE UNCHANGED vars
  BY <1>0, <1>2, <1>8 DEF vars
<1>. QED
  BY <1>3, <1>4, <1>5, <1>6, <1>7, <1>8 DEF Next, WorkerStep

-----------------------------------------------------------------------------
(* The ranges main makes: they cover the cells, and the first begins at    *)
(* cell 0, no other.                                                       *)

LEMMA Least ==
    ASSUME NEW T \in SUBSET Nat, T # {}
    PROVE  \E n \in T : \A m \in T : n <= m
<1>1. \A x, y \in Nat : <<y, x>> \in OpToRel(<, Nat) <=> y < x
  BY DEF OpToRel
<1>2. PICK R : IsWellFoundedOn(R, Nat) /\ \A x, y \in Nat : <<y, x>> \in R <=> y < x
  BY <1>1, NatLessThanWellFounded, Zenon
<1>3. PICK x \in T : \A y \in T : ~ (<<y, x>> \in R)
  BY <1>2, WFMin
<1>4. ASSUME NEW y \in T PROVE x <= y
  <2>1. x \in Nat /\ y \in Nat /\ ~ (<<y, x>> \in R)
    BY <1>3
  <2>2. ~ (y < x)
    BY <1>2, <2>1
  <2>. QED
    BY <2>1, <2>2
<1>. QED
  BY <1>3, <1>4

SizesInv == nprocs \in 1 .. MaxThreads /\ m_Rows \in Nat \ {0} /\ m_Cols \in Nat \ {0}

LEMMA Division ==
    ASSUME SizesInv
    PROVE  /\ nprocs \in Nat \ {0} /\ width \in Nat /\ margin \in 0 .. nprocs - 1
           /\ Size \in Nat \ {0} /\ nprocs * width + margin = Size
<1>1. nprocs \in Nat \ {0}
  BY LifeAssumption DEF SizesInv
<1>2. Size \in Nat \ {0}
  BY DEF SizesInv, Size
<1>3. \A s \in Nat, n \in Nat \ {0} :
         s \div n \in Nat /\ s % n \in 0 .. n - 1 /\ n * (s \div n) + (s % n) = s
  OBVIOUS
<1>. QED
  BY <1>1, <1>2, <1>3 DEF width, margin

(* Where the range of a thread begins.                                     *)
First(t) == t * width + (IF t < margin THEN t ELSE margin)

LEMMA NextFirst ==
    ASSUME SizesInv, NEW t \in Nat
    PROVE  /\ First(t) \in Nat /\ First(t + 1) \in Nat
           /\ RangeEnd(t, First(t)) = First(t + 1) - 1
           /\ First(t) <= First(t + 1)
<1>1. width \in Nat /\ margin \in Nat
  BY Division
<1>2. t * width \in Nat /\ (t + 1) * width = t * width + width
  BY <1>1
<1>. QED
  BY <1>1, <1>2 DEF First, RangeEnd

GivenRight == \A t \in Thread : Given[t] = [from |-> First(t), to |-> First(t + 1) - 1]

LEMMA GivenRanges == SizesInv => GivenRight
<1>. SUFFICES ASSUME SizesInv PROVE GivenRight
  OBVIOUS
<1>. DEFINE g == [t \in Thread |-> [from |-> First(t), to |-> First(t + 1) - 1]]
            Turn(h, t) == LET first == IF t = 0 THEN 0 ELSE h[t - 1].to + 1
                          IN  [from |-> first, to |-> RangeEnd(t, first)]
<1>0. Thread \subseteq Nat /\ \A t \in Thread : t # 0 => t - 1 \in Thread
  BY LifeAssumption DEF Thread
<1>1. First(0) = 0
  BY Division DEF First
<1>2. ASSUME NEW t \in Thread PROVE g[t] = Turn(g, t)
  <2>1. t \in Nat
    BY <1>0
  <2>2. RangeEnd(t, First(t)) = First(t + 1) - 1
    BY <2>1, NextFirst
  <2>3. (IF t = 0 THEN 0 ELSE g[t - 1].to + 1) = First(t)
    <3>1. CASE t = 0
      BY <1>1, <3>1
    <3>2. CASE t # 0
      <4>1. g[t - 1].to = First((t - 1) + 1) - 1 /\ (t - 1) + 1 = t
        BY <1>0, <2>1, <3>2
      <4>2. First(t) \in Nat
        BY <2>1, NextFirst
      <4>. HIDE DEF g
      <4>. QED
        BY <3>2, <4>1, <4>2
    <3>. QED
      BY <3>1, <3>2
  <2>4. g[t] = [from |-> First(t), to |-> First(t + 1) - 1]
    OBVIOUS
  <2>. HIDE DEF g
  <2>. QED
    BY <2>2, <2>3, <2>4
<1>3. Given = [t \in Thread |-> Turn(Given, t)]
  <2>1. g = [t \in Thread |-> Turn(g, t)]
    BY <1>2
  <2>. HIDE DEF g
  <2>. QED
    BY <2>1 DEF Given
<1>. HIDE DEF Turn, g
<1>4. ASSUME NEW t \in Thread, t = 0 \/ Given[t - 1] = g[t - 1] PROVE Given[t] = g[t]
  BY <1>2, <1>3, <1>4 DEF Turn
<1>5. \A t \in Thread : Given[t] = g[t]
  <2>. DEFINE Bad == {t \in Thread : Given[t] # g[t]}
  <2>1. SUFFICES ASSUME Bad # {} PROVE FALSE
    OBVIOUS
  <2>2. PICK t \in Bad : \A u \in Bad : t <= u
    <3>1. Bad \in SUBSET Nat
      BY <1>0
    <3>. HIDE DEF Bad
    <3>. QED
      BY <2>1, <3>1, Least
  <2>3. t \in Thread /\ Given[t] # g[t] /\ t \in Nat
    BY <1>0
  <2>4. t = 0 \/ (t - 1 \in Thread /\ t - 1 \notin Bad)
    BY <1>0, <2>2, <2>3
  <2>5. t = 0 \/ Given[t - 1] = g[t - 1]
    BY <2>4
  <2>. QED
    BY <1>4, <2>3, <2>5
<1>. QED
  BY <1>5 DEF GivenRight, g

LEMMA RangesCover ==
    ASSUME SizesInv
    PROVE  /\ \A t \in Workers : /\ Given[t].from \in Nat /\ Given[t].to \in Int
                                 /\ Given[t].to < Size
                                 /\ Given[t].from = 0 <=> t = 0
           /\ \A k \in 0 .. Size - 1 :
                 \E t \in Workers : Given[t].from <= k /\ k <= Given[t].to
<1>0. /\ nprocs \in Nat \ {0} /\ width \in Nat /\ margin \in 0 .. nprocs - 1
      /\ Size \in Nat \ {0} /\ nprocs * width + margin = Size /\ Workers = 0 .. nprocs - 1
      /\ Workers \subseteq Thread
  BY Division, LifeAssumption DEF Workers, Thread, SizesInv
<1>1. \A t \in Workers : Given[t] = [from |-> First(t), to |-> First(t + 1) - 1]
  BY <1>0, GivenRanges DEF GivenRight
<1>2. \A t \in Nat : First(t) \in Nat /\ First(t + 1) \in Nat /\ First(t) <= First(t + 1)
  BY NextFirst
<1>3. First(nprocs) = Size /\ First(0) = 0
  BY <1>0 DEF First
<1>4. ASSUME NEW t \in Workers PROVE First(t + 1) <= Size
  <2>1. t + 1 \in Nat /\ t + 1 <= nprocs
    BY <1>0
  <2>2. (t + 1) * width <= nprocs * width
    <3>1. \A a, b, c \in Nat : a <= b => a * c <= b * c
      OBVIOUS
    <3>. QED
      BY <1>0, <2>1, <3>1
  <2>3. (t + 1) * width \in Nat /\ nprocs * width \in Nat
    BY <1>0, <2>1
  <2>. QED
    BY <1>0, <2>1, <2>2, <2>3 DEF First
<1>5. ASSUME NEW t \in Workers, t # 0 PROVE First(t) # 0
  <2>1. t \in Nat \ {0}
    BY <1>0, <1>5
  <2>2. CASE width = 0
    <3>1. margin # 0
      BY <1>0, <2>2
    <3>. QED
      BY <1>0, <2>1, <2>2, <3>1 DEF First
  <2>3. CASE width # 0
    <3>1. t * width \in Nat \ {0}
      BY <1>0, <2>1, <2>3
    <3>. QED
      BY <1>0, <2>1, <3>1 DEF First
  <2>. QED
    BY <2>2, <2>3
<1>6. ASSUME NEW k \in 0 .. Size - 1
      PROVE  \E t \in Workers : First(t) <= k /\ k < First(t + 1)
  <2>. DEFINE T == {t \in Workers : k < First(t + 1)}
  <2>1. nprocs - 1 \in T
    <3>1. nprocs - 1 \in Workers /\ (nprocs - 1) + 1 = nprocs
      BY <1>0
    <3>. QED
      BY <1>0, <1>3, <3>1
  <2>2. PICK t \in T : \A u \in T : t <= u
    <3>1. T \in SUBSET Nat
      BY <1>0
    <3>. HIDE DEF T
    <3>. QED
      BY <2>1, <3>1, Least
  <2>3. t \in Workers /\ k < First(t + 1) /\ t \in Nat
    BY <1>0
  <2>4. CASE t = 0
    BY <1>3, <2>3, <2>4
  <2>5. CASE t # 0
    <3>1. t - 1 \in Workers /\ t - 1 \notin T /\ (t - 1) + 1 = t
      BY <1>0, <2>2, <2>3, <2>5
    <3>2. ~ (k < First(t))
      BY <3>1
    <3>. QED
      BY <1>2, <2>3, <3>2
  <2>. QED
    BY <2>4, <2>5
<1>w. \A t \in Workers : /\ Given[t].from = First(t) /\ Given[t].to = First(t + 1) - 1
                            /\ t \in Nat
  <2>1. \A t \in Workers : t \in Nat
    BY <1>0
  <2>2. ASSUME NEW t \in Workers
        PROVE  Given[t].from = First(t) /\ Given[t].to = First(t + 1) - 1
    <3>1. Given[t] = [from |-> First(t), to |-> First(t + 1) - 1]
      BY <1>1
    <3>2. \A a, b : [from |-> a, to |-> b].from = a /\ [from |-> a, to |-> b].to = b
      OBVIOUS
    <3>. QED
      BY <3>1, <3>2
  <2>. QED
    BY <2>1, <2>2
<1>7. ASSUME NEW t \in Workers
      PROVE  /\ Given[t].from \in Nat /\ Given[t].to \in Int /\ Given[t].to < Size
             /\ Given[t].from = 0 <=> t = 0
  <2>1. First(t) \in Nat /\ First(t + 1) \in Nat /\ Size \in Nat
    BY <1>0, <1>2, <1>w
  <2>2. First(t + 1) <= Size /\ (First(t) = 0 <=> t = 0)
    BY <1>3, <1>4, <1>5
  <2>. QED
    BY <1>w, <2>1, <2>2
<1>8. ASSUME NEW k \in 0 .. Size - 1
      PROVE  \E t \in Workers : Given[t].from <= k /\ k <= Given[t].to
  <2>1. PICK t \in Workers : First(t) <= k /\ k < First(t + 1)
    BY <1>6
  <2>2. First(t) \in Nat /\ First(t + 1) \in Nat
    BY <1>2, <1>w
  <2>. QED
    BY <1>w, <2>1, <2>2
<1>. QED
  BY <1>7, <1>8

-----------------------------------------------------------------------------
(* The grids, as long as the threads have read their own ranges.           *)

(* Thread t has computed its cells below n.                                *)
Behind(t, n) ==
    \A k \in Cells(m_Rows, m_Cols) :
        rng[t].from <= k /\ k < n => buf[m_Temp][k] = CellNext(m_Rows, m_Cols, buf[m_Grid], k)

(* The two grids are apart but between the two stores of thread 0, who     *)
(* alone swaps them, when the next generation is complete.                 *)
GridInv ==
    /\ DOMAIN buf = {1, 2} /\ \A b \in {1, 2} : buf[b] \in Grids(m_Rows, m_Cols)
    /\ m_Grid \in {1, 2} /\ m_Temp \in {1, 2}
    /\ \A t \in Workers :
          /\ pc[t] = "cell" => f[t] \in Int /\ rng[t].from <= f[t] /\ Behind(t, f[t])
          /\ t \in waiting["cal"] => Behind(t, rng[t].to + 1)
          /\ pc[t] \in {"swap", "swapped"} => t = 0
    /\ IF pc[0] = "swapped" THEN m_Temp = m_Grid /\ tmp[0] \in {1, 2} \ {m_Grid}
                            ELSE m_Temp # m_Grid
    /\ pc[0] = "swap" => buf[m_Temp] = NextGrid(m_Rows, m_Cols, buf[m_Grid])

(* What every thread has of its own.                                       *)
LocalsInv == DOMAIN rng = Thread /\ DOMAIN f = Thread /\ DOMAIN tmp = Thread

LifeGridInv == LifeInv /\ SizesInv /\ TogoInv /\ LocalsInv /\ (OwnRanges => GridInv)

LEMMA InitGrid == Init => LifeGridInv
<1>. SUFFICES ASSUME Init PROVE LifeGridInv
  OBVIOUS
<1>1. LifeInv
  BY InitLife
<1>2. SizesInv
  <2>1. PICK s \in Sizes : m_Rows = s[1] /\ m_Cols = s[2]
    BY DEF Init
  <2>2. s \in (Nat \ {0}) \X (Nat \ {0})
    BY <2>1, LifeAssumption
  <2>. QED
    BY <2>1, <2>2 DEF Init, SizesInv
<1>3. TogoInv
  BY LifeAssumption DEF Init, TogoInv, Workers, Thread
<1>4. GridInv
  <2>1. PICK g \in Grids(m_Rows, m_Cols) :
           buf = <<g, [k \in Cells(m_Rows, m_Cols) |-> DEAD]>>
    BY DEF Init
  <2>2. [k \in Cells(m_Rows, m_Cols) |-> DEAD] \in Grids(m_Rows, m_Cols)
    BY DEF Grids
  <2>3. DOMAIN buf = {1, 2} /\ buf[1] \in Grids(m_Rows, m_Cols)
        /\ buf[2] \in Grids(m_Rows, m_Cols)
    BY <2>1, <2>2
  <2>4. m_Grid = 1 /\ m_Temp = 2 /\ \A t \in Workers : pc[t] = "none" /\ t \notin waiting["cal"]
    BY LifeAssumption DEF Init, Workers, Thread
  <2>5. pc[0] = "none"
    BY LifeAssumption DEF Init, Thread
  <2>. QED
    BY <2>3, <2>4, <2>5 DEF GridInv
<1>5. LocalsInv
  BY DEF Init, LocalsInv
<1>. QED
  BY <1>1, <1>2, <1>3, <1>4, <1>5 DEF LifeGridInv

LEMMA LocalsStep ==
    ASSUME LocalsInv, [Next]_vars
    PROVE  LocalsInv'
BY DEF Next, MainStep, SetFrom, SetTo, Create, Join, WorkerStep, ReadFrom, ReadTo, Loop, Cell,
       BarrierCal, FlushGrid, FlushTemp, BarrierFlush, vars, LocalsInv, Thread

LEMMA SizesStep ==
    ASSUME SizesInv, [Next]_vars
    PROVE  /\ SizesInv' /\ UNCHANGED <<nprocs, m_Rows, m_Cols, Workers, Size>>
           /\ \A t \in Thread : Given[t]' = Given[t]
<1>1. UNCHANGED <<nprocs, m_Rows, m_Cols>>
  BY DEF Next, MainStep, SetFrom, SetTo, Create, Join, WorkerStep, ReadFrom, ReadTo, Loop, Cell,
         BarrierCal, FlushGrid, FlushTemp, BarrierFlush, vars, sizeVars
<1>2. SizesInv' /\ UNCHANGED <<Workers, Size, width, margin>>
  BY <1>1 DEF SizesInv, Workers, Size, width, margin
<1>3. SizesInv' => GivenRight'
  BY GivenRanges, PTL
<1>4. \A t \in Thread : Given[t]' = [from |-> First(t)', to |-> First(t + 1)' - 1]
  BY <1>2, <1>3 DEF GivenRight
<1>5. \A t \in Thread : Given[t] = [from |-> First(t), to |-> First(t + 1) - 1]
  BY GivenRanges DEF GivenRight
<1>6. \A t : First(t)' = First(t)
  BY <1>2 DEF First
<1>. QED
  BY <1>1, <1>2, <1>4, <1>5, <1>6

(* A thread that has read its range keeps it.                              *)
LEMMA RangesKept ==
    ASSUME LifeInv, LocalsInv, [Next]_vars, NEW t \in Workers, pc[t] \notin Starting
    PROVE  pc'[t] \notin Starting /\ rng'[t] = rng[t]
<1>0. /\ pc \in [Thread -> Steps] /\ t \in Thread /\ pc[t] \notin {"none", "from", "to"}
      /\ DOMAIN rng = Thread /\ t # mi
  <2>1. Workers \subseteq Thread
    BY LifeAssumption DEF LifeInv, CreateInv, Workers, Thread
  <2>2. t = mi => pc[t] = "none"
    BY <2>1 DEF LifeInv, CreateInv, Workers, Thread
  <2>. QED
    BY <2>1, <2>2 DEF LifeInv, CreateInv, LocalsInv, Starting
<1>. HIDE DEF Thread, Workers
<1>. SUFFICES pc'[t] \notin {"none", "from", "to"} /\ rng'[t] = rng[t]
  BY DEF Starting
<1>1. CASE MainStep
  BY <1>0, <1>1 DEF MainStep, SetFrom, SetTo, Create, Join
<1>2. ASSUME NEW u \in Thread, WorkerStep(u)
      PROVE  pc'[t] \notin {"none", "from", "to"} /\ rng'[t] = rng[t]
  <2>1. CASE ReadFrom(u) \/ ReadTo(u)
    BY <1>0, <2>1 DEF ReadFrom, ReadTo
  <2>2. CASE Loop(u) \/ Cell(u) \/ FlushGrid(u) \/ FlushTemp(u)
    BY <1>0, <2>2 DEF Loop, Cell, FlushGrid, FlushTemp
  <2>3. ASSUME NEW b \in {"cal", "flush"}, Arrive(u, b), rng' = rng
        PROVE pc'[t] \notin {"none", "from", "to"} /\ rng'[t] = rng[t]
    <3>1. \A v \in Thread : AfterBarrier(b, v) \notin {"none", "from", "to"}
      BY DEF AfterBarrier
    <3>. QED
      BY <1>0, <2>3, <3>1 DEF Arrive
  <2>. QED
    BY <1>2, <2>1, <2>2, <2>3 DEF WorkerStep, BarrierCal, BarrierFlush
<1>3. CASE UNCHANGED vars
  BY <1>0, <1>3 DEF vars
<1>. QED
  BY <1>1, <1>2, <1>3 DEF Next

LEMMA OwnRangesBack ==
    ASSUME LifeInv, SizesInv, LocalsInv, [Next]_vars, OwnRanges'
    PROVE  OwnRanges
<1>1. \A t \in Workers : pc'[t] \notin Starting => rng'[t] = Given[t]
  <2>1. Workers \subseteq Thread
    BY LifeAssumption DEF LifeInv, CreateInv, Workers, Thread
  <2>2. Workers' = Workers /\ \A t \in Thread : Given[t]' = Given[t]
    BY SizesStep
  <2>. QED
    BY <2>1, <2>2 DEF OwnRanges, Workers, Starting
<1>. QED
  BY <1>1, RangesKept DEF OwnRanges, Workers, Starting

-----------------------------------------------------------------------------
(* The steps. *)

(* What is known of the threads in every state.                            *)
LEMMA Facts ==
    ASSUME LifeInv, SizesInv, TogoInv, LocalsInv, OwnRanges
    PROVE  /\ 0 \in Workers /\ Workers \subseteq Thread /\ pc \in [Thread -> Steps]
           /\ DOMAIN rng = Thread /\ DOMAIN f = Thread /\ DOMAIN tmp = Thread
           /\ togo \in [Thread -> Nat] /\ waiting \in [{"cal", "flush"} -> SUBSET Workers]
           /\ \A b \in {"cal", "flush"} : \A t \in waiting[b] : pc[t] = "blocked"
           /\ \A t \in Workers : pc[t] \notin {"none", "from", "to"} =>
                 /\ rng[t] = Given[t] /\ rng[t].from \in Nat /\ rng[t].to \in Int
                 /\ rng[t].to < Size /\ (rng[t].from = 0 <=> t = 0)
           /\ Cells(m_Rows, m_Cols) = 0 .. Size - 1 /\ Size \in Nat \ {0}
<1>1. 0 \in Workers /\ Workers \subseteq Thread
  BY LifeAssumption DEF SizesInv, Workers, Thread
<1>2. \A t \in Workers : pc[t] \notin {"none", "from", "to"} => rng[t] = Given[t]
  BY DEF OwnRanges, Workers
<1>3. Cells(m_Rows, m_Cols) = 0 .. Size - 1 /\ Size \in Nat \ {0}
  BY Division DEF Cells, Size
<1>4. \A t \in Workers : /\ Given[t].from \in Nat /\ Given[t].to \in Int
                         /\ Given[t].to < Size /\ (Given[t].from = 0 <=> t = 0)
  BY RangesCover
<1>. QED
  BY <1>1, <1>2, <1>3, <1>4 DEF LifeInv, CreateInv, BarrierInv, LocalsInv, TogoInv

(* No cell of a generation is computed and no grid is swapped.             *)
QuietStep ==
    /\ UNCHANGED <<buf, m_Grid, m_Temp, togo, tmp, waiting>>
    /\ \A t \in Workers :
          /\ pc[t] = "cell" \/ t \in waiting["cal"] => rng'[t] = rng[t] /\ f'[t] = f[t]
          /\ pc'[t] = "cell" /\ pc[t] # "cell" => f'[t] = rng'[t].from /\ f'[t] \in Int
          /\ pc'[t] # pc[t] => /\ pc[t] \notin {"swap", "swapped", "flush"}
                               /\ pc'[t] \notin {"swap", "swapped", "flush"}

LEMMA QuietSteps ==
    ASSUME LifeInv, SizesInv, TogoInv, LocalsInv, OwnRanges,
           \/ MainStep \/ UNCHANGED vars
           \/ \E t \in Thread : ReadFrom(t) \/ ReadTo(t) \/ Loop(t)
    PROVE  QuietStep
<1>0. /\ Workers \subseteq Thread /\ pc \in [Thread -> Steps]
      /\ DOMAIN rng = Thread /\ DOMAIN f = Thread
      /\ \A t \in waiting["cal"] : pc[t] = "blocked"
      /\ \A t \in Workers : pc[t] = "loop" => rng[t].from \in Int
  BY Facts
<1>1. CASE MainStep
  <2>1. \A t \in Thread : t = mi => pc[t] = "none"
    BY DEF LifeInv, CreateInv
  <2>2. \A t \in Workers : pc'[t] = pc[t] \/ (pc[t] = "none" /\ pc'[t] = "from")
    BY <1>0, <1>1, <2>1 DEF MainStep, SetFrom, SetTo, Create, Join
  <2>3. UNCHANGED <<buf, m_Grid, m_Temp, togo, tmp, waiting, rng, f>>
    BY <1>1 DEF MainStep, SetFrom, SetTo, Create, Join, gridVars
  <2>. QED
    BY <2>2, <2>3 DEF QuietStep
<1>2. CASE UNCHANGED vars
  BY <1>2 DEF vars, gridVars, QuietStep
<1>3. ASSUME NEW u \in Thread, ReadFrom(u) \/ ReadTo(u) PROVE QuietStep
  BY <1>0, <1>3 DEF ReadFrom, ReadTo, gridVars, QuietStep
<1>4. ASSUME NEW u \in Thread, Loop(u) PROVE QuietStep
  BY <1>0, <1>4 DEF Loop, gridVars, QuietStep
<1>. QED
  BY <1>1, <1>2, <1>3, <1>4

LEMMA QuietGrid ==
    ASSUME LifeInv, SizesInv, TogoInv, LocalsInv, OwnRanges, GridInv, QuietStep,
           UNCHANGED <<m_Rows, m_Cols, Workers>>
    PROVE  GridInv' /\ UNCHANGED <<buf[m_Grid], Left>>
<1>0. 0 \in Workers /\ \A k \in Cells(m_Rows, m_Cols) : k \in Int
  BY Facts
<1>1. /\ \A t \in Workers : pc'[t] = "cell" =>
            f'[t] \in Int /\ rng'[t].from <= f'[t] /\ Behind(t, f[t])'
  <2>1. SUFFICES ASSUME NEW t \in Workers, pc'[t] = "cell"
                 PROVE  f'[t] \in Int /\ rng'[t].from <= f'[t] /\ Behind(t, f[t])'
    OBVIOUS
  <2>2. CASE pc[t] = "cell"
    BY <2>1, <2>2 DEF QuietStep, GridInv, Behind
  <2>3. CASE pc[t] # "cell"
    <3>1. f'[t] = rng'[t].from /\ f'[t] \in Int
      BY <2>1, <2>3 DEF QuietStep
    <3>2. \A k \in Cells(m_Rows, m_Cols) : ~ (rng'[t].from <= k /\ k < f'[t])
      BY <1>0, <3>1
    <3>. QED
      BY <3>1, <3>2 DEF Behind
  <2>. QED
    BY <2>2, <2>3
<1>2. \A t \in Workers : t \in waiting'["cal"] => Behind(t, rng[t].to + 1)'
  BY DEF QuietStep, GridInv, Behind
<1>3. \A t \in Workers : pc'[t] \in {"swap", "swapped"} => t = 0
  BY DEF QuietStep, GridInv
<1>4. pc'[0] \in {"swap", "swapped", "flush"} \/ pc[0] \in {"swap", "swapped", "flush"} =>
         pc'[0] = pc[0]
  BY <1>0 DEF QuietStep
<1>5. UNCHANGED <<buf, m_Grid, m_Temp, togo, tmp, waiting>>
  BY DEF QuietStep
<1>6. GridInv'
  BY <1>1, <1>2, <1>3, <1>4, <1>5 DEF GridInv
<1>. QED
  BY <1>4, <1>5, <1>6 DEF Left

LEMMA CellGrid ==
    ASSUME LifeInv, SizesInv, TogoInv, LocalsInv, OwnRanges, GridInv,
           UNCHANGED <<m_Rows, m_Cols, Workers>>, NEW t \in Thread, Cell(t)
    PROVE  GridInv' /\ UNCHANGED <<buf[m_Grid], Left>>
<1>1. /\ pc[t] = "cell" /\ f[t] <= rng[t].to /\ f' = [f EXCEPT ![t] = f[t] + 1]
      /\ buf' = [buf EXCEPT ![m_Temp][f[t]] = CellNext(m_Rows, m_Cols, buf[m_Grid], f[t])]
      /\ UNCHANGED <<m_Grid, m_Temp, pc, rng, togo, tmp, waiting>>
  BY DEF Cell
<1>2. t \in Workers /\ Computing /\ 0 \in Workers /\ DOMAIN f = Thread
  <2>1. t \in Workers
    BY <1>1 DEF LifeInv, CreateInv, Workers, Thread
  <2>2. 0 \in Workers /\ DOMAIN f = Thread
    BY Facts
  <2>3. Computing
    BY <1>1, <2>1 DEF LifeInv, PhaseInv, Flushing
  <2>. QED
    BY <2>1, <2>2, <2>3
<1>3. \A u \in Workers : pc[u] \notin {"swap", "swapped", "flush"}
  BY <1>2, Facts DEF Computing, Starting
<1>4. /\ m_Temp # m_Grid /\ m_Temp \in {1, 2} /\ m_Grid \in {1, 2} /\ DOMAIN buf = {1, 2}
      /\ buf[1] \in Grids(m_Rows, m_Cols) /\ buf[2] \in Grids(m_Rows, m_Cols)
  BY <1>2, <1>3 DEF GridInv
<1>5. f[t] \in Int /\ rng[t].from <= f[t] /\ Behind(t, f[t])
  BY <1>1, <1>2 DEF GridInv
<1>c. \A k \in Cells(m_Rows, m_Cols) : k \in Int
  BY Facts
<1>6. DOMAIN buf' = {1, 2} /\ buf'[m_Grid] = buf[m_Grid]
  BY <1>1, <1>4
<1>7. buf'[m_Temp] = [buf[m_Temp] EXCEPT ![f[t]] = CellNext(m_Rows, m_Cols, buf[m_Grid], f[t])]
  BY <1>1, <1>4
<1>8. CellNext(m_Rows, m_Cols, buf[m_Grid], f[t]) \in {DEAD, LIVE}
  BY DEF CellNext
<1>. HIDE DEF CellNext, Cells, Workers, Thread
<1>9. buf'[m_Temp] \in Grids(m_Rows, m_Cols)
  <2>1. buf[m_Temp] \in Grids(m_Rows, m_Cols)
    BY <1>4
  <2>. QED
    BY <1>7, <1>8, <2>1 DEF Grids
<1>10. \A k \in Cells(m_Rows, m_Cols) :
          /\ buf[m_Temp][k] = CellNext(m_Rows, m_Cols, buf[m_Grid], k) =>
                buf'[m_Temp][k] = CellNext(m_Rows, m_Cols, buf[m_Grid], k)
          /\ k = f[t] => buf'[m_Temp][k] = CellNext(m_Rows, m_Cols, buf[m_Grid], k)
  BY <1>4, <1>7 DEF Grids
<1>11. ASSUME NEW u \in Workers, pc'[u] = "cell"
       PROVE  f'[u] \in Int /\ rng'[u].from <= f'[u] /\ Behind(u, f[u])'
  <2>1. f[u] \in Int /\ rng[u].from <= f[u] /\ Behind(u, f[u])
    BY <1>1, <1>11 DEF GridInv
  <2>r. rng[u].from \in Int
    <3>1. pc[u] \notin {"none", "from", "to"}
      BY <1>1, <1>11
    <3>2. rng[u].from \in Nat
      BY <3>1, Facts
    <3>. QED
      BY <3>2
  <2>2. CASE u = t
    <3>1. f'[u] = f[u] + 1
      BY <1>1, <1>2, <2>2
    <3>2. \A k \in Cells(m_Rows, m_Cols) : k < f[u] + 1 => k < f[u] \/ k = f[u]
      BY <1>c, <2>1
    <3>3. Behind(u, f[u])'
      BY <1>1, <1>6, <1>10, <2>1, <2>2, <3>1, <3>2 DEF Behind
    <3>. QED
      BY <1>1, <2>1, <2>r, <3>1, <3>3
  <2>3. CASE u # t
    <3>1. f'[u] = f[u]
      BY <1>1, <1>2, <2>3, Facts
    <3>2. Behind(u, f[u])'
      BY <1>1, <1>6, <1>10, <2>1, <3>1 DEF Behind
    <3>. QED
      BY <1>1, <2>1, <3>1, <3>2
  <2>. QED
    BY <2>2, <2>3
<1>12. ASSUME NEW u \in Workers, u \in waiting'["cal"] PROVE Behind(u, rng[u].to + 1)'
  BY <1>1, <1>6, <1>10, <1>12 DEF GridInv, Behind
<1>13. GridInv'
  <2>1. \A b \in {1, 2} : buf'[b] \in Grids(m_Rows, m_Cols)
    BY <1>4, <1>6, <1>9
  <2>. QED
    BY <1>1, <1>2, <1>3, <1>4, <1>6, <1>11, <1>12, <2>1 DEF GridInv
<1>14. Left' = Left
  BY <1>1 DEF Left
<1>. QED
  BY <1>1, <1>6, <1>13, <1>14

(* The last thread at the first barrier: every cell has been computed.     *)
LEMMA CalGrid ==
    ASSUME LifeInv, SizesInv, TogoInv, LocalsInv, OwnRanges, GridInv,
           UNCHANGED <<m_Rows, m_Cols, Workers>>, NEW t \in Thread, BarrierCal(t)
    PROVE  GridInv' /\ UNCHANGED <<buf[m_Grid], Left>>
<1>1. /\ pc[t] = "cell" /\ f[t] > rng[t].to /\ Arrive(t, "cal")
      /\ UNCHANGED <<buf, m_Grid, m_Temp, rng, f, tmp>>
  BY DEF BarrierCal, gridVars
<1>2. t \in Workers /\ Computing /\ 0 \in Workers /\ Workers \subseteq Thread
  <2>1. t \in Workers
    BY <1>1, Facts DEF LifeInv, CreateInv, Workers, Thread, SizesInv
  <2>2. Computing
    BY <1>1, <2>1, Zenon DEF LifeInv, PhaseInv, Flushing
  <2>3. 0 \in Workers /\ Workers \subseteq Thread
    BY Facts, LifeAssumption DEF Workers, Thread, SizesInv
  <2>. QED
    BY <2>1, <2>2, <2>3
<1>3. \A u \in Workers : pc[u] \notin {"swap", "swapped", "flush"}
  BY <1>2, Facts DEF Computing, Starting
<1>4. f[t] \in Int /\ Behind(t, f[t]) /\ m_Temp # m_Grid
  BY <1>1, <1>2, <1>3 DEF GridInv
<1>f. /\ pc \in [Thread -> Steps] /\ waiting \in [{"cal", "flush"} -> SUBSET Workers]
      /\ \A u \in waiting["cal"] : pc[u] = "blocked"
      /\ \A u \in Workers : pc[u] \notin {"none", "from", "to"} => (rng[u].from = 0 <=> u = 0)
      /\ rng[t].to \in Int
  BY <1>1, <1>2, Facts
<1>5. Behind(t, rng[t].to + 1)
  <2>1. \A k \in Cells(m_Rows, m_Cols) : k < rng[t].to + 1 => k < f[t]
    <3>1. \A k \in Cells(m_Rows, m_Cols) : k \in Int
      BY Facts
    <3>. QED
      BY <1>1, <1>4, <1>f, <3>1
  <2>. QED
    BY <1>4, <2>1 DEF Behind
<1>6. waiting["flush"] = {} /\ 0 \notin waiting["flush"]
  BY <1>2 DEF Computing
<1>7. togo' = togo
  <2>1. \A u \in Thread : togo[u] - Counted("cal") = togo[u]
    BY Facts DEF Counted
  <2>2. togo \in [Thread -> Nat]
    BY Facts
  <2>. QED
    BY <1>1, <2>1, <2>2, Arrival
<1>8. CASE /\ waiting["cal"] \cup {t} = Workers
           /\ waiting' = [waiting EXCEPT !["cal"] = {}]
           /\ pc' = [u \in Thread |-> IF u \in Workers THEN AfterBarrier("cal", u) ELSE pc[u]]
  <2>1. \A u \in Workers : Behind(u, rng[u].to + 1)
    BY <1>5, <1>8 DEF GridInv
  <2>2. buf[m_Temp] = NextGrid(m_Rows, m_Cols, buf[m_Grid])
    <3>1. ASSUME NEW k \in Cells(m_Rows, m_Cols)
          PROVE  buf[m_Temp][k] = CellNext(m_Rows, m_Cols, buf[m_Grid], k)
      <4>1. PICK u \in Workers : Given[u].from <= k /\ k <= Given[u].to
        BY Facts, RangesCover
      <4>2. rng[u] = Given[u] /\ Given[u].to \in Int /\ k \in Int
        BY <1>1, <1>8, <1>f, <4>1, Facts
      <4>3. rng[u].from <= k /\ k < rng[u].to + 1
        BY <4>1, <4>2
      <4>. QED
        BY <2>1, <4>3 DEF Behind
    <3>2. buf[m_Temp] \in Grids(m_Rows, m_Cols)
      BY DEF GridInv
    <3>. QED
      BY <3>1, <3>2 DEF NextGrid, Grids
  <2>3. \A u \in Workers : pc'[u] = IF u = 0 THEN "swap" ELSE "flush"
    <3>1. \A u \in Workers : pc[u] \notin {"none", "from", "to"}
      BY <1>1, <1>8, <1>f
    <3>2. \A u \in Workers : pc'[u] = IF rng[u].from = 0 THEN "swap" ELSE "flush"
      BY <1>2, <1>8 DEF AfterBarrier
    <3>. QED
      BY <1>f, <3>1, <3>2
  <2>4. waiting'["cal"] = {} /\ waiting'["flush"] = waiting["flush"]
    BY <1>8, <1>f
  <2>5. GridInv'
    BY <1>1, <1>2, <1>4, <2>2, <2>3, <2>4 DEF GridInv
  <2>6. Left' = Left
    BY <1>2, <1>3, <1>6, <1>7, <2>3, <2>4 DEF Left
  <2>. QED
    BY <1>1, <2>5, <2>6
<1>9. CASE /\ waiting' = [waiting EXCEPT !["cal"] = waiting["cal"] \cup {t}]
           /\ pc' = [pc EXCEPT ![t] = "blocked"]
  <2>1. /\ \A u \in Workers : pc'[u] = IF u = t THEN "blocked" ELSE pc[u]
        /\ waiting'["cal"] = waiting["cal"] \cup {t} /\ waiting'["flush"] = waiting["flush"]
    BY <1>2, <1>9, <1>f
  <2>2. \A n : \A u \in Workers : Behind(u, n) => Behind(u, n)'
    BY <1>1 DEF Behind
  <2>3. \A u \in Workers :
           /\ pc'[u] = "cell" => f'[u] \in Int /\ rng'[u].from <= f'[u] /\ Behind(u, f[u])'
           /\ u \in waiting'["cal"] => Behind(u, rng[u].to + 1)'
    BY <1>1, <1>5, <2>1 DEF GridInv, Behind
  <2>4. GridInv'
    BY <1>1, <1>2, <1>3, <1>4, <2>1, <2>3 DEF GridInv
  <2>5. Left' = Left
    BY <1>2, <1>3, <1>6, <1>7, <2>1 DEF Left
  <2>. QED
    BY <1>1, <2>4, <2>5
<1>. QED
  BY <1>1, <1>8, <1>9, Arrival

(* Thread 0 shows the next generation by its first store.                  *)
LEMMA FlushGridGrid ==
    ASSUME LifeInv, SizesInv, TogoInv, LocalsInv, OwnRanges, GridInv,
           UNCHANGED <<m_Rows, m_Cols, Workers>>, NEW t \in Thread, FlushGrid(t)
    PROVE  /\ GridInv' /\ Left > 0 /\ Left' = Left - 1
           /\ buf'[m_Grid'] = NextGrid(m_Rows, m_Cols, buf[m_Grid])
<1>1. /\ pc[t] = "swap" /\ m_Grid' = m_Temp /\ tmp' = [tmp EXCEPT ![t] = m_Grid]
      /\ pc' = [pc EXCEPT ![t] = "swapped"]
      /\ UNCHANGED <<buf, m_Temp, rng, f, togo, waiting>>
  BY DEF FlushGrid
<1>f. /\ pc \in [Thread -> Steps] /\ DOMAIN tmp = Thread /\ Workers \subseteq Thread
      /\ \A u \in waiting["flush"] : pc[u] = "blocked"
      /\ togo \in [Thread -> Nat] /\ 0 \in Workers
  BY Facts
<1>2. t \in Workers
  BY <1>1 DEF LifeInv, CreateInv, Workers, Thread
<1>3. t = 0 /\ Flushing
  BY <1>1, <1>2 DEF GridInv, LifeInv, PhaseInv, Computing, Starting
<1>4. /\ m_Temp # m_Grid /\ m_Temp \in {1, 2} /\ m_Grid \in {1, 2}
      /\ buf[m_Temp] = NextGrid(m_Rows, m_Cols, buf[m_Grid])
  BY <1>1, <1>3 DEF GridInv
<1>5. waiting["cal"] = {} /\ \A u \in Workers : pc[u] \in {"swap", "swapped", "flush", "blocked"}
  BY <1>3 DEF Flushing
<1>6. /\ pc'[0] = "swapped" /\ tmp'[0] = m_Grid
      /\ \A u \in Workers : u # 0 => pc'[u] = pc[u]
  BY <1>1, <1>3, <1>f
<1>7. GridInv'
  BY <1>1, <1>4, <1>5, <1>6 DEF GridInv
<1>8. 0 \notin waiting["flush"] /\ togo[0] > 0 /\ togo[0] \in Nat
  BY <1>1, <1>3, <1>f DEF TogoInv
<1>. QED
  BY <1>1, <1>3, <1>4, <1>6, <1>7, <1>8 DEF Left

LEMMA FlushTempGrid ==
    ASSUME LifeInv, SizesInv, TogoInv, LocalsInv, OwnRanges, GridInv,
           UNCHANGED <<m_Rows, m_Cols, Workers>>, NEW t \in Thread, FlushTemp(t)
    PROVE  GridInv' /\ UNCHANGED <<buf[m_Grid], Left>>
<1>1. /\ pc[t] = "swapped" /\ m_Temp' = tmp[t] /\ pc' = [pc EXCEPT ![t] = "flush"]
      /\ UNCHANGED <<buf, m_Grid, rng, f, togo, tmp, waiting>>
  BY DEF FlushTemp
<1>f. pc \in [Thread -> Steps] /\ Workers \subseteq Thread /\ 0 \in Workers
  BY Facts
<1>2. t \in Workers
  BY <1>1 DEF LifeInv, CreateInv, Workers, Thread
<1>3. t = 0 /\ Flushing
  BY <1>1, <1>2 DEF GridInv, LifeInv, PhaseInv, Computing, Starting
<1>4. tmp[0] \in {1, 2} \ {m_Grid}
  BY <1>1, <1>3 DEF GridInv
<1>5. waiting["cal"] = {} /\ \A u \in Workers : pc[u] \in {"swap", "swapped", "flush", "blocked"}
  BY <1>3 DEF Flushing
<1>6. pc'[0] = "flush" /\ \A u \in Workers : u # 0 => pc'[u] = pc[u]
  BY <1>1, <1>3, <1>f
<1>7. GridInv'
  BY <1>1, <1>3, <1>4, <1>5, <1>6 DEF GridInv
<1>. QED
  BY <1>1, <1>3, <1>6, <1>7 DEF Left

LEMMA FlushBarrierGrid ==
    ASSUME LifeInv, SizesInv, TogoInv, LocalsInv, OwnRanges, GridInv,
           UNCHANGED <<m_Rows, m_Cols, Workers>>, NEW t \in Thread, BarrierFlush(t)
    PROVE  GridInv' /\ UNCHANGED <<buf[m_Grid], Left>>
<1>1. pc[t] = "flush" /\ Arrive(t, "flush") /\ UNCHANGED <<buf, m_Grid, m_Temp, rng, f, tmp>>
  BY DEF BarrierFlush, gridVars
<1>f. /\ pc \in [Thread -> Steps] /\ Workers \subseteq Thread /\ 0 \in Workers
      /\ waiting \in [{"cal", "flush"} -> SUBSET Workers] /\ togo \in [Thread -> Nat]
      /\ \A u \in waiting["flush"] : pc[u] = "blocked"
  BY Facts
<1>2. t \in Workers
  BY <1>1 DEF LifeInv, CreateInv, Workers, Thread
<1>3. waiting["cal"] = {} /\ \A u \in Workers : pc[u] \in {"swap", "swapped", "flush", "blocked"}
  BY <1>1, <1>2 DEF LifeInv, PhaseInv, Computing, Flushing, Starting
<1>4. CASE /\ waiting["flush"] \cup {t} = Workers
           /\ waiting' = [waiting EXCEPT !["flush"] = {}]
           /\ pc' = [u \in Thread |-> IF u \in Workers THEN AfterBarrier("flush", u) ELSE pc[u]]
           /\ togo' = [u \in Thread |-> IF u \in Workers THEN togo[u] - Counted("flush") ELSE togo[u]]
  <2>1. \A u \in Workers : pc'[u] = "loop" /\ togo'[u] = togo[u] - 1
    BY <1>f, <1>4 DEF AfterBarrier, Counted
  <2>2. waiting'["cal"] = {} /\ waiting'["flush"] = {}
    BY <1>3, <1>4, <1>f
  <2>3. pc[0] = "flush" \/ 0 \in waiting["flush"]
    BY <1>1, <1>4, <1>f
  <2>4. pc[0] # "swapped" /\ pc[0] # "swap"
    BY <1>1, <1>4, <1>f
  <2>5. GridInv'
    BY <1>1, <1>f, <2>1, <2>2, <2>4 DEF GridInv
  <2>6. Left' = Left
    BY <1>f, <2>1, <2>2, <2>3 DEF Left
  <2>. QED
    BY <1>1, <2>5, <2>6
<1>5. CASE /\ waiting' = [waiting EXCEPT !["flush"] = waiting["flush"] \cup {t}]
           /\ pc' = [pc EXCEPT ![t] = "blocked"] /\ togo' = togo
  <2>1. /\ \A u \in Workers : pc'[u] = IF u = t THEN "blocked" ELSE pc[u]
        /\ waiting'["cal"] = {} /\ waiting'["flush"] = waiting["flush"] \cup {t}
    BY <1>3, <1>5, <1>f
  <2>2. pc[0] = "swapped" => t # 0
    BY <1>1
  <2>3. GridInv'
    BY <1>1, <1>3, <1>f, <2>1, <2>2 DEF GridInv
  <2>4. 0 \in waiting["flush"] => pc[0] = "blocked" /\ t # 0
    BY <1>1, <1>f
  <2>5. Left' = Left
    BY <1>1, <1>5, <1>f, <2>1, <2>4 DEF Left
  <2>. QED
    BY <1>1, <2>3, <2>5
<1>. QED
  BY <1>1, <1>4, <1>5, Arrival

(* A step of the threads is a step of the sequential version or changes    *)
(* nothing that it shows.                                                  *)
LEMMA GridStep ==
    ASSUME LifeInv, SizesInv, TogoInv, LocalsInv, OwnRanges, GridInv, [Next]_vars
    PROVE  /\ GridInv'
           /\ \/ UNCHANGED <<buf[m_Grid], Left>>
              \/ /\ Left > 0 /\ Left' = Left - 1
                 /\ buf'[m_Grid'] = NextGrid(m_Rows, m_Cols, buf[m_Grid])
<1>1. UNCHANGED <<m_Rows, m_Cols, Workers>>
  BY SizesStep
<1>2. CASE MainStep \/ (UNCHANGED vars) \/ \E t \in Thread : ReadFrom(t) \/ ReadTo(t) \/ Loop(t)
  BY <1>1, <1>2, QuietSteps, QuietGrid
<1>3. ASSUME NEW t \in Thread,
             Cell(t) \/ BarrierCal(t) \/ FlushGrid(t) \/ FlushTemp(t) \/ BarrierFlush(t)
      PROVE  /\ GridInv'
             /\ \/ UNCHANGED <<buf[m_Grid], Left>>
                \/ /\ Left > 0 /\ Left' = Left - 1
                   /\ buf'[m_Grid'] = NextGrid(m_Rows, m_Cols, buf[m_Grid])
  BY <1>1, <1>3, CellGrid, CalGrid, FlushGridGrid, FlushTempGrid, FlushBarrierGrid
<1>. QED
  BY <1>2, <1>3 DEF Next, WorkerStep

LEMMA LifeGridStep == LifeGridInv /\ [Next]_vars => LifeGridInv'
<1>. SUFFICES ASSUME LifeGridInv, [Next]_vars PROVE LifeGridInv'
  OBVIOUS
<1>. USE DEF LifeGridInv
<1>1. LifeInv'
  BY StepLife
<1>2. SizesInv' /\ TogoInv' /\ LocalsInv'
  BY SizesStep, TogoStep, LocalsStep
<1>3. OwnRanges' => GridInv'
  BY OwnRangesBack, GridStep
<1>. QED
  BY <1>1, <1>2, <1>3

(* The sequential version is modelled in a module with its own cells.      *)
LEMMA SameGeneration ==
    \A r, c, g : Sequential!NextGrid(r, c, g) = NextGrid(r, c, g)
<1>1. Sequential!LIVE = LIVE /\ Sequential!DEAD = DEAD
  BY DEF Sequential!LIVE, Sequential!DEAD, LIVE, DEAD
<1>2. \A r, c, i, j : Sequential!Neighbours(r, c, i, j) = Neighbours(r, c, i, j)
  BY DEF Sequential!Neighbours, Neighbours
<1>3. \A r, c, g, i, j : Sequential!getNumOfNeighbors(r, c, g, i, j) = getNumOfNeighbors(r, c, g, i, j)
  <2>. TAKE r, c, g, i, j
  <2>1. {p \in Sequential!Neighbours(r, c, i, j) : g[p[1] * c + p[2]] = Sequential!LIVE}
          = {p \in Neighbours(r, c, i, j) : g[p[1] * c + p[2]] = LIVE}
    BY <1>1, <1>2
  <2>2. \A S : Sequential!Cardinality(S) = Cardinality(S)
    BY DEF Sequential!Cardinality, Cardinality, Sequential!IsFiniteSet, IsFiniteSet
  <2>. QED
    BY <2>1, <2>2 DEF Sequential!getNumOfNeighbors, getNumOfNeighbors
<1>4. \A r, c, g, k : Sequential!CellNext(r, c, g, k) = CellNext(r, c, g, k)
  BY <1>1, <1>3 DEF Sequential!CellNext, CellNext
<1>5. \A r, c : Sequential!Cells(r, c) = Cells(r, c)
  BY DEF Sequential!Cells, Cells
<1>. QED
  BY <1>4, <1>5 DEF Sequential!NextGrid, NextGrid

(* Threads that have read their own ranges do what the sequential version  *)
(* does, one whole generation at a time, whatever the grid and the number  *)
(* of threads: a cell is computed from the shown grid only, every cell has *)
(* a thread, and no thread shows a generation before it is complete.       *)
THEOREM ThreadsStepAsOne == Spec => SequentialStep
<1>1. LifeGridInv /\ [Next]_vars =>
         [OwnRanges' => [Sequential!Next]_<<buf[m_Grid], Left>>]_vars
  <2>. SUFFICES ASSUME LifeGridInv, [Next]_vars, OwnRanges'
                PROVE  [Sequential!Next]_<<buf[m_Grid], Left>>
    OBVIOUS
  <2>1. \/ UNCHANGED <<buf[m_Grid], Left>>
        \/ /\ Left > 0 /\ Left' = Left - 1
           /\ buf'[m_Grid'] = NextGrid(m_Rows, m_Cols, buf[m_Grid])
    BY OwnRangesBack, GridStep DEF LifeGridInv
  <2>2. UNCHANGED <<m_Rows, m_Cols>>
    BY SizesStep DEF LifeGridInv
  <2>. QED
    BY <2>1, <2>2, SameGeneration DEF Sequential!Next
<1>2. Init /\ [][Next]_vars => []LifeGridInv
  BY InitGrid, LifeGridStep, PTL
<1>. QED
  BY <1>1, <1>2, PTL DEF Spec, SequentialStep
=============================================================================
