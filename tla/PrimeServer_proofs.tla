------------------------- MODULE PrimeServer_proofs ------------------------
(***************************************************************************)
(* Proofs about PrimeServer for any number of workers, slice size,         *)
(* connections, requests and lengths, and about the process it is part of  *)
(* (ServerMain).                                                           *)
(***************************************************************************)
EXTENDS PrimeServerInv, ServerMain, TLAPS, FiniteSetTheorems

-----------------------------------------------------------------------------
(* Arithmetic of the slicing loop. *)

(* a / s and a % s lie between 0 and a. *)
LEMMA DivModBounds ==
    ASSUME NEW a \in Nat, NEW s \in Nat \ {0}
    PROVE  /\ a \div s \in Nat
           /\ a \div s <= a
           /\ a % s \in Nat
           /\ a % s < s
           /\ a % s <= a
<1>1. a \div s \in Nat /\ a \div s <= a
  BY SMT
<1>2. a % s \in Nat /\ a % s < s /\ a % s <= a
  BY SMT
<1> QED
  BY <1>1, <1>2

(* Division is monotone in the dividend. *)
LEMMA DivMono ==
    ASSUME NEW a \in Nat, NEW b \in Nat, NEW s \in Nat \ {0}, a <= b
    PROVE  a \div s <= b \div s
BY SMT

(* The next slice has the next number. *)
LEMMA DivStep ==
    ASSUME NEW a \in Nat, NEW s \in Nat \ {0}
    PROVE  (a + s) \div s = (a \div s) + 1
BY SMT

(* The loop index stays a multiple of the slice size. *)
LEMMA ModStep ==
    ASSUME NEW a \in Nat, NEW s \in Nat \ {0}, a % s = 0
    PROVE  (a + s) % s = 0
<1>1. (a + s) \div s = (a \div s) + 1
  BY DivStep
<1>2. a = s * (a \div s) + (a % s)
  BY SMT
<1>3. a + s = s * ((a + s) \div s) + ((a + s) % s)
  BY SMT
<1>4. a \div s \in Int /\ (a + s) % s \in Int
  BY SMT
<1>5. s * ((a \div s) + 1) = s * (a \div s) + s
  BY <1>4, SMT
<1> QED
  BY <1>1, <1>2, <1>3, <1>4, <1>5, SMT

(* When the next slice would start at or after n, this one is the last. *)
LEMMA DivLast ==
    ASSUME NEW a \in Nat, NEW n \in Nat, NEW s \in Nat \ {0},
           a % s = 0, a < n, n <= a + s
    PROVE  (n - 1) \div s = a \div s
BY SMT

(* An array of n > 0 entries has between 1 and n slices. *)
LEMMA NumBlocksBounds ==
    ASSUME NEW n \in Nat \ {0}
    PROVE  NumBlocks(n) \in 1 .. n
<1>1. n - 1 \in Nat /\ SliceSize \in Nat \ {0}
  BY ServerAssumption
<1>2. (n - 1) \div SliceSize \in Nat /\ (n - 1) \div SliceSize <= n - 1
  BY <1>1, DivModBounds
<1> QED
  BY <1>2 DEF NumBlocks

(* The job made for an index within the array is a job. *)
LEMMA MakeJobType ==
    ASSUME NEW r \in Requests, NEW n \in 0 .. MaxLen, NEW a \in Nat, a < n
    PROVE  MakeJob(r, n, a) \in Jobs
<1>1. SliceSize \in Nat \ {0} /\ MaxLen \in Nat
  BY ServerAssumption
<1>2. n \in Nat /\ a \in Positions
  BY <1>1 DEF Positions
<1>3. a \div SliceSize \in Positions
  BY <1>1, <1>2, DivModBounds DEF Positions
<1>4. n % SliceSize \in 0 .. MaxLen
  BY <1>1, <1>2, DivModBounds
<1>5. a + SliceSize <= n => SliceSize \in 0 .. MaxLen
  BY <1>1, <1>2
<1>6. (IF a + SliceSize > n THEN n % SliceSize ELSE SliceSize) \in 0 .. MaxLen
  BY <1>1, <1>2, <1>4, <1>5
<1> QED
  BY <1>2, <1>3, <1>6 DEF MakeJob, Jobs

(* The round-robin successor of a worker is a worker. *)
LEMMA NextWorker ==
    ASSUME NEW w \in Workers
    PROVE  (w + 1) % NumWorkers \in Workers
<1>1. w + 1 \in Nat /\ NumWorkers \in Nat \ {0}
  BY ServerAssumption DEF Workers
<1>2. (w + 1) % NumWorkers \in Nat /\ (w + 1) % NumWorkers < NumWorkers
  BY <1>1, DivModBounds
<1> QED
  BY <1>1, <1>2 DEF Workers

(* The loop index of the next slice. *)
LEMMA NextIndex ==
    ASSUME NEW a \in Nat, a % SliceSize = 0
    PROVE  /\ a + SliceSize \in Nat
           /\ (a + SliceSize) % SliceSize = 0
           /\ (a + SliceSize) \div SliceSize = (a \div SliceSize) + 1
<1>1. SliceSize \in Nat \ {0}
  BY ServerAssumption
<1>2. a + SliceSize \in Nat
  BY <1>1
<1>3. (a + SliceSize) % SliceSize = 0
  BY <1>1, ModStep
<1>4. (a + SliceSize) \div SliceSize = (a \div SliceSize) + 1
  BY <1>1, DivStep
<1> QED
  BY <1>2, <1>3, <1>4

(* The garbage a dirty heap leaves is among the flags of the request. *)
LEMMA GarbageType ==
    ASSUME NEW n \in 1 .. MaxLen
    PROVE  GarbageFlags(n) \subseteq Positions
<1>1. MaxLen \in Nat /\ n \in Nat \ {0}
  BY ServerAssumption
<1>2. NumBlocks(n) \in 1 .. n
  BY <1>1, NumBlocksBounds
<1>3. 0 .. NumBlocks(n) - 1 \subseteq Positions
  BY <1>1, <1>2 DEF Positions
<1> QED
  BY <1>3 DEF GarbageFlags

-----------------------------------------------------------------------------
(* Types. *)

LEMMA InitType == Init => TypeInv
<1> SUFFICES ASSUME Init PROVE TypeInv
  OBVIOUS
<1>1. 0 \in Workers /\ 0 \in 0 .. MaxReq /\ 0 \in 0 .. MaxLen
  BY ServerAssumption DEF Workers
<1>2. queue \in [Workers -> Seq(Jobs)]
  BY DEF Init
<1>3. TypeOK
  BY <1>1, <1>2 DEF Init, TypeOK, ConnStates, WorkerStates
<1>4. ConnInv
  BY DEF Init, ConnInv, Slicing
<1> QED
  BY <1>3, <1>4 DEF TypeInv

(* Req(c) names a request once one has been read. *)
LEMMA ReqType ==
    ASSUME TypeInv, NEW c \in Conns,
           cpc[c] \in {"ack", "read_arr", "wait", "reply"} \cup Slicing
    PROVE  Req(c) \in Requests
BY ServerAssumption DEF TypeInv, TypeOK, ConnInv, Req, Requests

(* Every step preserves the types and the loop bounds. *)
LEMMA TypeStep == TypeInv /\ [Next]_vars => TypeInv'
<1> SUFFICES ASSUME TypeInv, [Next]_vars PROVE TypeInv'
  OBVIOUS
<1> USE ServerAssumption DEF TypeInv, TypeOK, ConnInv, ConnStates, WorkerStates, Slicing,
                             memVars, connVars, workerVars, Req
<1>1. CASE Sigint
  BY <1>1 DEF Sigint
<1>2. ASSUME NEW c \in Conns, Accept(c) PROVE TypeInv'
  BY <1>2 DEF Accept
<1>3. ASSUME NEW c \in Conns, StartLoop(c) PROVE TypeInv'
  BY <1>3 DEF StartLoop, GoOn
<1>4. ASSUME NEW c \in Conns, IoFails(c) PROVE TypeInv'
  BY <1>4 DEF IoFails
<1>5. ASSUME NEW c \in Conns, ReadLen(c) PROVE TypeInv'
  BY <1>5 DEF ReadLen, GoOn
<1>6. ASSUME NEW c \in Conns, WriteAck(c) PROVE TypeInv'
  BY <1>6 DEF WriteAck, GoOn
<1>7. ASSUME NEW c \in Conns, ReadArray(c) PROVE TypeInv'
  <2>1. Req(c) \in Requests
    BY <1>7, ReqType DEF ReadArray
  <2>2. len[c] \in Nat \ {0} /\ len[c] <= MaxLen
    BY <1>7 DEF ReadArray
  <2>3. GarbageFlags(len[c]) \subseteq Positions
    BY <2>2, GarbageType
  <2>4. flags' \in [Requests -> SUBSET Positions]
    BY <1>7, <2>1, <2>3 DEF ReadArray
  <2>5. 0 % SliceSize = 0
    BY DivModBounds
  <2> QED
    BY <1>7, <2>2, <2>4, <2>5 DEF ReadArray, GoOn
<1>8. ASSUME NEW c \in Conns, EnqueueLock(c) PROVE TypeInv'
  BY <1>8 DEF EnqueueLock
<1>9. ASSUME NEW c \in Conns, EnqueueAdd(c) PROVE TypeInv'
  <2>1. Req(c) \in Requests
    BY <1>9, ReqType DEF EnqueueAdd
  <2>2. MakeJob(Req(c), len[c], i[c]) \in Jobs
    BY <1>9, <2>1, MakeJobType DEF EnqueueAdd
  <2>3. queue' \in [Workers -> Seq(Jobs)]
    BY <1>9, <2>2 DEF EnqueueAdd
  <2> QED
    BY <1>9, <2>3 DEF EnqueueAdd
<1>10. ASSUME NEW c \in Conns, EnqueueUnlock(c) PROVE TypeInv'
  <2>1. (in[c] + 1) % NumWorkers \in Workers
    BY NextWorker
  <2>2. in' \in [Conns -> Workers]
    BY <1>10, <2>1 DEF EnqueueUnlock
  <2>3. i[c] < len[c] /\ i[c] % SliceSize = 0 /\ i[c] \in Nat /\ len[c] \in Nat
    BY <1>10 DEF EnqueueUnlock
  <2>4. i[c] + SliceSize \in Nat /\ (i[c] + SliceSize) % SliceSize = 0
    BY <2>3, NextIndex
  <2>4a. \E n \in Nat : i' = [i EXCEPT ![c] = n]
    BY <1>10, <2>4 DEF EnqueueUnlock
  <2>4b. i' \in [Conns -> Nat]
    BY <2>4a
  <2>4c. cpc' \in [Conns -> ConnStates]
    BY <1>10 DEF EnqueueUnlock
  <2>5. TypeOK'
    BY <1>10, <2>2, <2>4b, <2>4c DEF EnqueueUnlock
  <2>6. ConnInv'
    BY <1>10, <2>3, <2>4 DEF EnqueueUnlock
  <2> QED
    BY <2>5, <2>6
<1>11. ASSUME NEW c \in Conns, SeeFlag(c) PROVE TypeInv'
  <2>1. i' \in [Conns -> Nat] /\ cpc' \in [Conns -> ConnStates]
    <3>1. \E n \in Nat : i' = [i EXCEPT ![c] = n]
      BY <1>11 DEF SeeFlag
    <3>2. i' \in [Conns -> Nat]
      BY <3>1
    <3>3. cpc' \in [Conns -> ConnStates]
      BY <1>11 DEF SeeFlag
    <3> QED
      BY <3>2, <3>3
  <2>2. TypeOK'
    BY <1>11, <2>1 DEF SeeFlag
  <2>3. ConnInv'
    BY <1>11, ZenonT(40) DEF SeeFlag
  <2> QED
    BY <2>2, <2>3
<1>12. ASSUME NEW c \in Conns, Reply(c) PROVE TypeInv'
  BY <1>12 DEF Reply, GoOn
<1>13. ASSUME NEW w \in Workers, WorkerLock(w) PROVE TypeInv'
  BY <1>13 DEF WorkerLock
<1>14. ASSUME NEW w \in Workers, WorkerPop(w) PROVE TypeInv'
  <2>1. queue[w] \in Seq(Jobs)
    OBVIOUS
  <2>2. queue[w] # <<>> => Head(queue[w]) \in Jobs /\ Tail(queue[w]) \in Seq(Jobs)
    BY <2>1
  <2>3. queue' \in [Workers -> Seq(Jobs)]
    BY <1>14, <2>2, ZenonT(40) DEF WorkerPop
  <2>4. hand' \in [Workers -> SUBSET Jobs]
    <3>1. CASE queue[w] # <<>>
      <4>1. {Head(queue[w])} \in SUBSET Jobs
        BY <2>2, <3>1
      <4>2. hand' = [hand EXCEPT ![w] = {Head(queue[w])}]
        BY <1>14, <3>1 DEF WorkerPop
      <4> HIDE DEF Jobs
      <4> QED
        BY <4>1, <4>2
    <3>2. CASE queue[w] = <<>>
      BY <1>14, <3>2 DEF WorkerPop
    <3> QED
      BY <3>1, <3>2
  <2> QED
    BY <1>14, <2>3, <2>4 DEF WorkerPop
<1>15. ASSUME NEW w \in Workers, WorkerUnlock(w) PROVE TypeInv'
  <2>1. \A d \in hand[w] : d.start \in Nat
    BY DEF Jobs, Positions
  <2>2. wi' \in [Workers -> Nat] /\ wpc' \in [Workers -> WorkerStates]
    BY <1>15, <2>1, ZenonT(40) DEF WorkerUnlock
  <2>3. mutex' \in [Workers -> Conns \cup Workers \cup {Free}]
    BY <1>15 DEF WorkerUnlock
  <2> QED
    BY <1>15, <2>2, <2>3 DEF WorkerUnlock
<1>16. ASSUME NEW w \in Workers, Compute(w) PROVE TypeInv'
  <2>1. \A d \in hand[w] :
            d.req \in Requests /\ (wi[w] < d.size => wi[w] \in Positions)
    BY DEF Jobs, Positions
  <2>2. written' \in [Requests -> SUBSET Positions]
    BY <1>16, <2>1 DEF Compute
  <2> QED
    BY <1>16, <2>2 DEF Compute
<1>17. ASSUME NEW w \in Workers, SetFlag(w) PROVE TypeInv'
  <2>1. \A d \in hand[w] : d.req \in Requests /\ d.flag_pos \in Positions
    BY DEF Jobs
  <2>2. flags' \in [Requests -> SUBSET Positions]
    BY <1>17, <2>1 DEF SetFlag
  <2> QED
    BY <1>17, <2>2 DEF SetFlag
<1>18. CASE UNCHANGED vars
  BY <1>18 DEF vars
<1> QED
  BY <1>1, <1>2, <1>3, <1>4, <1>5, <1>6, <1>7, <1>8, <1>9, <1>10, <1>11, <1>12,
     <1>13, <1>14, <1>15, <1>16, <1>17, <1>18 DEF Next, ConnNext, WorkerNext

(* Spec => []TypeOK: every variable of the server keeps its type; in       *)
(* particular every job, worker index and flag position stays in range.    *)
THEOREM TypeCorrect == Spec => []TypeOK
<1>1. Init => TypeInv
  BY InitType
<1>2. TypeInv /\ [Next]_vars => TypeInv'
  BY TypeStep
<1>3. TypeInv => TypeOK
  BY DEF TypeInv
<1> QED
  BY <1>1, <1>2, <1>3, PTL DEF Spec

-----------------------------------------------------------------------------
(* Mutual exclusion. *)

(* A connection thread is not a worker thread, and Free is neither. *)
LEMMA ThreadsDiffer ==
    ASSUME NEW c \in Conns, NEW w \in Workers
    PROVE  c # w /\ c # Free /\ w # Free
BY ServerAssumption

LEMMA LockStep == TypeInv /\ LockInv /\ [Next]_vars => LockInv'
<1> SUFFICES ASSUME TypeInv, LockInv, [Next]_vars PROVE LockInv'
  OBVIOUS
<1> USE ThreadsDiffer DEF TypeInv, TypeOK, LockInv, WorkerInside, memVars, connVars, workerVars
<1>1. CASE Sigint
  BY <1>1 DEF Sigint
<1>2. ASSUME NEW c \in Conns, Accept(c) PROVE LockInv'
  BY <1>2 DEF Accept
<1>3. ASSUME NEW c \in Conns, StartLoop(c) PROVE LockInv'
  BY <1>3 DEF StartLoop, GoOn
<1>4. ASSUME NEW c \in Conns, IoFails(c) PROVE LockInv'
  BY <1>4 DEF IoFails
<1>5. ASSUME NEW c \in Conns, ReadLen(c) PROVE LockInv'
  BY <1>5 DEF ReadLen, GoOn
<1>6. ASSUME NEW c \in Conns, WriteAck(c) PROVE LockInv'
  BY <1>6 DEF WriteAck, GoOn
<1>7. ASSUME NEW c \in Conns, ReadArray(c) PROVE LockInv'
  BY <1>7 DEF ReadArray, GoOn
<1>8. ASSUME NEW c \in Conns, EnqueueLock(c) PROVE LockInv'
  BY <1>8 DEF EnqueueLock
<1>9. ASSUME NEW c \in Conns, EnqueueAdd(c) PROVE LockInv'
  BY <1>9 DEF EnqueueAdd
<1>10. ASSUME NEW c \in Conns, EnqueueUnlock(c) PROVE LockInv'
  BY <1>10 DEF EnqueueUnlock
<1>11. ASSUME NEW c \in Conns, SeeFlag(c) PROVE LockInv'
  BY <1>11 DEF SeeFlag
<1>12. ASSUME NEW c \in Conns, Reply(c) PROVE LockInv'
  BY <1>12 DEF Reply, GoOn
<1>13. ASSUME NEW w \in Workers, WorkerLock(w) PROVE LockInv'
  BY <1>13 DEF WorkerLock
<1>14. ASSUME NEW w \in Workers, WorkerPop(w) PROVE LockInv'
  BY <1>14 DEF WorkerPop
<1>15. ASSUME NEW w \in Workers, WorkerUnlock(w) PROVE LockInv'
  BY <1>15 DEF WorkerUnlock
<1>16. ASSUME NEW w \in Workers, Compute(w) PROVE LockInv'
  BY <1>16 DEF Compute
<1>17. ASSUME NEW w \in Workers, SetFlag(w) PROVE LockInv'
  BY <1>17 DEF SetFlag
<1>18. CASE UNCHANGED vars
  BY <1>18 DEF vars
<1> QED
  BY <1>1, <1>2, <1>3, <1>4, <1>5, <1>6, <1>7, <1>8, <1>9, <1>10, <1>11, <1>12,
     <1>13, <1>14, <1>15, <1>16, <1>17, <1>18 DEF Next, ConnNext, WorkerNext

LEMMA HandStep == TypeInv /\ HandInv /\ [Next]_vars => HandInv'
<1> SUFFICES ASSUME TypeInv, HandInv, [Next]_vars PROVE HandInv'
  OBVIOUS
<1> USE DEF TypeInv, TypeOK, HandInv, memVars, connVars, workerVars
<1>1. CASE Sigint
  BY <1>1 DEF Sigint
<1>2. ASSUME NEW c \in Conns, Accept(c) PROVE HandInv'
  BY <1>2 DEF Accept
<1>3. ASSUME NEW c \in Conns, StartLoop(c) PROVE HandInv'
  BY <1>3 DEF StartLoop, GoOn
<1>4. ASSUME NEW c \in Conns, IoFails(c) PROVE HandInv'
  BY <1>4 DEF IoFails
<1>5. ASSUME NEW c \in Conns, ReadLen(c) PROVE HandInv'
  BY <1>5 DEF ReadLen, GoOn
<1>6. ASSUME NEW c \in Conns, WriteAck(c) PROVE HandInv'
  BY <1>6 DEF WriteAck, GoOn
<1>7. ASSUME NEW c \in Conns, ReadArray(c) PROVE HandInv'
  BY <1>7 DEF ReadArray, GoOn
<1>8. ASSUME NEW c \in Conns, EnqueueLock(c) PROVE HandInv'
  BY <1>8 DEF EnqueueLock
<1>9. ASSUME NEW c \in Conns, EnqueueAdd(c) PROVE HandInv'
  BY <1>9 DEF EnqueueAdd
<1>10. ASSUME NEW c \in Conns, EnqueueUnlock(c) PROVE HandInv'
  BY <1>10 DEF EnqueueUnlock
<1>11. ASSUME NEW c \in Conns, SeeFlag(c) PROVE HandInv'
  BY <1>11 DEF SeeFlag
<1>12. ASSUME NEW c \in Conns, Reply(c) PROVE HandInv'
  BY <1>12 DEF Reply, GoOn
<1>13. ASSUME NEW w \in Workers, WorkerLock(w) PROVE HandInv'
  BY <1>13 DEF WorkerLock
<1>14. ASSUME NEW w \in Workers, WorkerPop(w) PROVE HandInv'
  BY <1>14 DEF WorkerPop
<1>15. ASSUME NEW w \in Workers, WorkerUnlock(w) PROVE HandInv'
  <2>1. hand' = hand
    BY <1>15 DEF WorkerUnlock
  <2>2. \A v \in Workers : v # w => wpc'[v] = wpc[v]
    BY <1>15 DEF WorkerUnlock
  <2>3. wpc'[w] = "work" \/ (wpc'[w] = "lock" /\ hand[w] = {})
    BY <1>15 DEF WorkerUnlock
  <2> QED
    BY <2>1, <2>2, <2>3
<1>16. ASSUME NEW w \in Workers, Compute(w) PROVE HandInv'
  BY <1>16 DEF Compute
<1>17. ASSUME NEW w \in Workers, SetFlag(w) PROVE HandInv'
  BY <1>17 DEF SetFlag
<1>18. CASE UNCHANGED vars
  BY <1>18 DEF vars
<1> QED
  BY <1>1, <1>2, <1>3, <1>4, <1>5, <1>6, <1>7, <1>8, <1>9, <1>10, <1>11, <1>12,
     <1>13, <1>14, <1>15, <1>16, <1>17, <1>18 DEF Next, ConnNext, WorkerNext

-----------------------------------------------------------------------------
(* How the steps change the set of outstanding jobs. *)

(* The elements of a sequence. *)
Elems(s) == {s[n] : n \in 1 .. Len(s)}

(* No element stands twice in a sequence. *)
Distinct(s) == \A m, n \in 1 .. Len(s) : s[m] = s[n] => m = n

(* Append adds one element, and keeps them distinct if it is a new one. *)
LEMMA AppendElems ==
    ASSUME NEW S, NEW s \in Seq(S), NEW e \in S
    PROVE  /\ Elems(Append(s, e)) = Elems(s) \cup {e}
           /\ Distinct(s) /\ e \notin Elems(s) => Distinct(Append(s, e))
<1>1. /\ Len(s) \in Nat
      /\ Len(Append(s, e)) = Len(s) + 1
      /\ \A n \in 1 .. Len(s) : Append(s, e)[n] = s[n]
      /\ Append(s, e)[Len(s) + 1] = e
  OBVIOUS
<1>2. 1 .. Len(s) + 1 = (1 .. Len(s)) \cup {Len(s) + 1}
  BY <1>1
<1>3. Elems(Append(s, e)) = Elems(s) \cup {e}
  BY <1>1, <1>2 DEF Elems
<1>4. ASSUME Distinct(s), e \notin Elems(s) PROVE Distinct(Append(s, e))
  BY <1>1, <1>2, <1>4 DEF Elems, Distinct
<1> QED
  BY <1>3, <1>4

(* The head and the tail of a sequence hold its elements between them, and *)
(* share none when the elements are distinct.                              *)
LEMMA TailElems ==
    ASSUME NEW S, NEW s \in Seq(S), s # <<>>
    PROVE  /\ Elems(s) = Elems(Tail(s)) \cup {Head(s)}
           /\ Distinct(s) => Distinct(Tail(s)) /\ Head(s) \notin Elems(Tail(s))
<1>1. /\ Len(s) \in Nat \ {0}
      /\ Len(Tail(s)) = Len(s) - 1
      /\ \A n \in 1 .. Len(s) - 1 : Tail(s)[n] = s[n + 1]
      /\ Head(s) = s[1]
  OBVIOUS
<1>2. \A n \in 1 .. Len(s) : n = 1 \/ (n - 1 \in 1 .. Len(s) - 1 /\ Tail(s)[n - 1] = s[n])
  BY <1>1
<1>3. Elems(s) \subseteq Elems(Tail(s)) \cup {Head(s)}
  BY <1>1, <1>2 DEF Elems
<1>4. Elems(Tail(s)) \cup {Head(s)} \subseteq Elems(s)
  BY <1>1 DEF Elems
<1>5. ASSUME Distinct(s)
      PROVE  Distinct(Tail(s)) /\ Head(s) \notin Elems(Tail(s))
  BY <1>1, <1>5 DEF Elems, Distinct
<1> QED
  BY <1>3, <1>4, <1>5

(* The elements of a queue are the jobs queued. *)
LEMMA QueuedElems == \A w \in Workers : Queued(w) = Elems(queue[w])
BY DEF Queued, Elems

(* A step that touches neither the queues nor the hands. *)
LEMMA QuietOutstanding ==
    ASSUME UNCHANGED <<queue, hand>>
    PROVE  \A w : Outstanding(w)' = Outstanding(w) /\ Queued(w)' = Queued(w)
BY DEF Outstanding, Queued

(* add_queue makes one job outstanding, on the queue of worker in[c]. *)
LEMMA AddOutstanding ==
    ASSUME TypeInv, NEW c \in Conns, EnqueueAdd(c)
    PROVE  /\ MakeJob(Req(c), len[c], i[c]) \in Jobs
           /\ \A w \in Workers : Outstanding(w)' =
                Outstanding(w) \cup
                   (IF w = in[c] THEN {MakeJob(Req(c), len[c], i[c])} ELSE {})
<1> DEFINE new == MakeJob(Req(c), len[c], i[c])
<1>1. /\ cpc[c] = "add" /\ in[c] \in Workers /\ hand' = hand
      /\ queue \in [Workers -> Seq(Jobs)]
      /\ queue' = [queue EXCEPT ![in[c]] = Append(@, new)]
  BY DEF EnqueueAdd, TypeInv, TypeOK, workerVars
<1>2. new \in Jobs
  <2>1. Req(c) \in Requests
    BY <1>1, ReqType DEF Slicing
  <2>2. len[c] \in 0 .. MaxLen /\ i[c] \in Nat /\ i[c] < len[c]
    BY <1>1 DEF TypeInv, TypeOK, ConnInv, Slicing
  <2> QED
    BY <2>1, <2>2, MakeJobType
<1> HIDE DEF new
<1>3. Elems(Append(queue[in[c]], new)) = Elems(queue[in[c]]) \cup {new}
  BY <1>1, <1>2, AppendElems
<1>4. \A w \in Workers : Queued(w)' = Elems(queue'[w]) /\ Queued(w) = Elems(queue[w])
  BY DEF Queued, Elems
<1>5. \A w \in Workers : Queued(w)' = Queued(w) \cup (IF w = in[c] THEN {new} ELSE {})
  BY <1>1, <1>3, <1>4
<1> QED
  BY <1>1, <1>2, <1>5 DEF Outstanding, new

(* pop_queue moves a job from the queue to the hand. *)
LEMMA PopOutstanding ==
    ASSUME TypeInv, HandInv, NEW w \in Workers, WorkerPop(w)
    PROVE  \A v \in Workers : Outstanding(v)' = Outstanding(v)
<1>1. CASE queue[w] = <<>>
  BY <1>1, QuietOutstanding DEF WorkerPop
<1>2. CASE queue[w] # <<>>
  <2>1. /\ queue \in [Workers -> Seq(Jobs)] /\ hand \in [Workers -> SUBSET Jobs]
        /\ queue' = [queue EXCEPT ![w] = Tail(@)]
        /\ hand' = [hand EXCEPT ![w] = {Head(queue[w])}]
        /\ hand[w] = {}
    BY <1>2 DEF WorkerPop, TypeInv, TypeOK, HandInv
  <2>2. Elems(queue[w]) = Elems(Tail(queue[w])) \cup {Head(queue[w])}
    BY <1>2, <2>1, TailElems
  <2>3. \A v \in Workers : Queued(v)' = Elems(queue'[v]) /\ Queued(v) = Elems(queue[v])
    BY DEF Queued, Elems
  <2> QED
    BY <2>1, <2>2, <2>3 DEF Outstanding
<1> QED
  BY <1>1, <1>2

(* Raising a flag takes one job out of the hand, and out of nowhere else. *)
LEMMA SetFlagOutstanding ==
    ASSUME TypeInv, HandInv, SliceDealtOnce, NEW w \in Workers, SetFlag(w)
    PROVE  \E d \in Outstanding(w) :
              /\ d \in Jobs
              /\ flags' = [flags EXCEPT ![d.req] = @ \cup {d.flag_pos}]
              /\ Outstanding(w)' = Outstanding(w) \ {d}
              /\ \A v \in Workers \ {w} : Outstanding(v)' = Outstanding(v)
<1>1. PICK d \in hand[w] : flags' = [flags EXCEPT ![d.req] = @ \cup {d.flag_pos}]
  BY DEF SetFlag
<1>2. /\ d \in Jobs /\ hand[w] = {d} /\ queue' = queue
      /\ hand \in [Workers -> SUBSET Jobs]
      /\ hand' = [hand EXCEPT ![w] = {}]
  BY <1>1 DEF SetFlag, TypeInv, TypeOK, HandInv
<1>3. \A v \in Workers : Queued(v)' = Queued(v)
  BY <1>2 DEF Queued
<1>4. d \notin Queued(w)
  BY <1>2 DEF SliceDealtOnce
<1> QED
  BY <1>1, <1>2, <1>3, <1>4 DEF Outstanding

(* What a step adds to the outstanding jobs: only add_queue adds any. *)
LEMMA OutstandingStep ==
    ASSUME TypeInv, HandInv, SliceDealtOnce, [Next]_vars
    PROVE  \/ \A w \in Workers : Outstanding(w)' \subseteq Outstanding(w)
           \/ \E c \in Conns : EnqueueAdd(c)
<1>1. CASE UNCHANGED <<queue, hand>>
  BY <1>1, QuietOutstanding
<1>2. ASSUME NEW w \in Workers, WorkerPop(w)
      PROVE  \A v \in Workers : Outstanding(v)' \subseteq Outstanding(v)
  BY <1>2, PopOutstanding
<1>3. ASSUME NEW w \in Workers, SetFlag(w)
      PROVE  \A v \in Workers : Outstanding(v)' \subseteq Outstanding(v)
  BY <1>3, SetFlagOutstanding
<1>4. \/ UNCHANGED <<queue, hand>>
      \/ \E c \in Conns : EnqueueAdd(c)
      \/ \E w \in Workers : WorkerPop(w) \/ SetFlag(w)
  BY DEF Next, ConnNext, WorkerNext, vars, workerVars, Sigint, Accept, StartLoop, IoFails,
         ReadLen, WriteAck, ReadArray, EnqueueLock, EnqueueUnlock, SeeFlag, Reply,
         WorkerLock, WorkerUnlock, Compute
<1> QED
  BY <1>1, <1>2, <1>3, <1>4

(* DealtInv for one job. *)
DealtJob(j) ==
    \A c \in Conns : j.req[1] = c =>
        /\ j.req[2] <= reqno[c]
        /\ j.req = Req(c) =>
              /\ cpc[c] \notin {"ack", "read_arr"}
              /\ cpc[c] \in Slicing => j.flag_pos < Dealt(c)

(* A job once dealt stays dealt: the loop index only grows while its       *)
(* request is being sliced, and the next request has another number.       *)
LEMMA DealtJobStep ==
    ASSUME TypeInv, [Next]_vars, NEW j \in Jobs, DealtJob(j)
    PROVE  DealtJob(j)'
<1>0. j.req \in Conns \X (1 .. MaxReq) /\ j.flag_pos \in Nat
  BY ServerAssumption DEF Jobs, Requests, Positions
<1> USE <1>0 DEF DealtJob, Dealt, TypeInv, TypeOK, ConnInv, Slicing, Req,
                 memVars, connVars, workerVars
<1>1. CASE Sigint
  BY <1>1 DEF Sigint
<1>2. ASSUME NEW c \in Conns, Accept(c) PROVE DealtJob(j)'
  BY <1>2 DEF Accept
<1>3. ASSUME NEW c \in Conns, StartLoop(c) PROVE DealtJob(j)'
  BY <1>3 DEF StartLoop, GoOn
<1>4. ASSUME NEW c \in Conns, IoFails(c) PROVE DealtJob(j)'
  BY <1>4 DEF IoFails
<1>5. ASSUME NEW c \in Conns, ReadLen(c) PROVE DealtJob(j)'
  BY <1>5, SMTT(20) DEF ReadLen, GoOn
<1>6. ASSUME NEW c \in Conns, WriteAck(c) PROVE DealtJob(j)'
  BY <1>6 DEF WriteAck, GoOn
<1>7. ASSUME NEW c \in Conns, ReadArray(c) PROVE DealtJob(j)'
  BY <1>7 DEF ReadArray, GoOn
<1>8. ASSUME NEW c \in Conns, EnqueueLock(c) PROVE DealtJob(j)'
  BY <1>8 DEF EnqueueLock
<1>9. ASSUME NEW c \in Conns, EnqueueAdd(c) PROVE DealtJob(j)'
  <2>1. i[c] \div SliceSize \in Nat
    BY ServerAssumption, DivModBounds
  <2> QED
    BY <1>9, <2>1, SMTT(20) DEF EnqueueAdd
<1>10. ASSUME NEW c \in Conns, EnqueueUnlock(c) PROVE DealtJob(j)'
  <2>1. /\ cpc[c] = "unlock" /\ i[c] % SliceSize = 0 /\ i[c] \in Nat
        /\ reqno' = reqno
        /\ \A e \in Conns : e # c => cpc'[e] = cpc[e] /\ i'[e] = i[e]
        /\ \/ cpc'[c] = "lock" /\ i'[c] = i[c] + SliceSize
           \/ cpc'[c] = "wait"
    BY <1>10 DEF EnqueueUnlock
  <2>2. (i[c] + SliceSize) \div SliceSize = (i[c] \div SliceSize) + 1
    BY <2>1, NextIndex
  <2> QED
    BY <2>1, <2>2
<1>11. ASSUME NEW c \in Conns, SeeFlag(c) PROVE DealtJob(j)'
  BY <1>11 DEF SeeFlag
<1>12. ASSUME NEW c \in Conns, Reply(c) PROVE DealtJob(j)'
  BY <1>12 DEF Reply, GoOn
<1>13. ASSUME NEW w \in Workers, WorkerLock(w) PROVE DealtJob(j)'
  BY <1>13 DEF WorkerLock
<1>14. ASSUME NEW w \in Workers, WorkerPop(w) PROVE DealtJob(j)'
  BY <1>14 DEF WorkerPop
<1>15. ASSUME NEW w \in Workers, WorkerUnlock(w) PROVE DealtJob(j)'
  BY <1>15 DEF WorkerUnlock
<1>16. ASSUME NEW w \in Workers, Compute(w) PROVE DealtJob(j)'
  BY <1>16 DEF Compute
<1>17. ASSUME NEW w \in Workers, SetFlag(w) PROVE DealtJob(j)'
  BY <1>17 DEF SetFlag
<1>18. CASE UNCHANGED vars
  BY <1>18 DEF vars
<1> QED
  BY <1>1, <1>2, <1>3, <1>4, <1>5, <1>6, <1>7, <1>8, <1>9, <1>10, <1>11, <1>12,
     <1>13, <1>14, <1>15, <1>16, <1>17, <1>18 DEF Next, ConnNext, WorkerNext

LEMMA DealtStep ==
    TypeInv /\ HandInv /\ SliceDealtOnce /\ DealtInv /\ [Next]_vars => DealtInv'
<1> SUFFICES ASSUME TypeInv, HandInv, SliceDealtOnce, DealtInv, [Next]_vars
             PROVE  DealtInv'
  OBVIOUS
<1>1. \A w \in Workers : Outstanding(w) \subseteq Jobs
  BY DEF Outstanding, Queued, TypeInv, TypeOK
<1>2. \A w \in Workers : \A j \in Outstanding(w) : DealtJob(j)
  BY DEF DealtInv, DealtJob
<1>3. \A w \in Workers : \A j \in Outstanding(w) : DealtJob(j)'
  BY <1>1, <1>2, DealtJobStep
<1>4. \A w \in Workers : \A j \in Outstanding(w)' : DealtJob(j)'
  <2>1. CASE \A w \in Workers : Outstanding(w)' \subseteq Outstanding(w)
    BY <1>3, <2>1
  <2>2. ASSUME NEW c \in Conns, EnqueueAdd(c)
        PROVE  \A w \in Workers : \A j \in Outstanding(w)' : DealtJob(j)'
    <3> DEFINE new == MakeJob(Req(c), len[c], i[c])
    <3>1. /\ new \in Jobs
          /\ \A w \in Workers : Outstanding(w)' \subseteq Outstanding(w) \cup {new}
      BY <2>2, AddOutstanding
    <3>2. ASSUME NEW j \in Jobs, j = new PROVE DealtJob(j)'
      <4>1. /\ cpc' = [cpc EXCEPT ![c] = "unlock"] /\ reqno' = reqno /\ i' = i
            /\ reqno[c] \in Nat /\ i[c] \in Nat /\ cpc \in [Conns -> ConnStates]
        BY <2>2, ServerAssumption DEF EnqueueAdd, TypeInv, TypeOK
      <4>2. i[c] \div SliceSize \in Nat
        BY <4>1, ServerAssumption, DivModBounds
      <4>3. j.req = <<c, reqno[c]>> /\ j.flag_pos = i[c] \div SliceSize
        BY <3>2 DEF MakeJob, Req
      <4> HIDE DEF new
      <4> QED
        BY <4>1, <4>2, <4>3 DEF DealtJob, Dealt, Req, Slicing
    <3>3. ASSUME NEW w \in Workers, NEW j \in Outstanding(w)' PROVE DealtJob(j)'
      <4>1. j \in Outstanding(w) \/ (j \in Jobs /\ j = new)
        BY <3>1
      <4> HIDE DEF new
      <4> QED
        BY <1>3, <3>2, <4>1
    <3> QED
      BY <3>3
  <2> QED
    BY <2>1, <2>2, OutstandingStep
<1> QED
  BY <1>4 DEF DealtInv, DealtJob

-----------------------------------------------------------------------------
(* Every slice is dealt once. *)

(* Two outstanding jobs for one slice are one job in one place. *)
SlicesDiffer ==
    \A v, w \in Workers : \A a \in Outstanding(v), b \in Outstanding(w) :
        a.req = b.req /\ a.flag_pos = b.flag_pos => v = w /\ a = b

(* No queue holds a job twice, or the job its worker has in hand. *)
QueuesDistinct ==
    \A w \in Workers : Distinct(queue[w]) /\ Elems(queue[w]) \cap hand[w] = {}

LEMMA SliceDealtOnceSplit == SliceDealtOnce <=> SlicesDiffer /\ QueuesDistinct
BY DEF SliceDealtOnce, SlicesDiffer, QueuesDistinct, Distinct, Elems, Queued

(* The job add_queue appends is for a slice that is not outstanding. *)
LEMMA NewSlice ==
    ASSUME TypeInv, DealtInv, NEW c \in Conns, EnqueueAdd(c),
           NEW w \in Workers, NEW j \in Outstanding(w),
           j.req = Req(c)
    PROVE  j.flag_pos # i[c] \div SliceSize
<1>1. cpc[c] = "add" /\ i[c] \in Nat
  BY DEF EnqueueAdd, TypeInv, TypeOK
<1>2. i[c] \div SliceSize \in Nat
  BY <1>1, ServerAssumption, DivModBounds
<1>3. j \in Jobs /\ j.req[1] = c
  BY DEF Outstanding, Queued, TypeInv, TypeOK, Req
<1>4. j.flag_pos < i[c] \div SliceSize
  BY <1>1, <1>3 DEF DealtInv, Slicing, Dealt
<1>5. j.flag_pos \in Nat
  BY <1>3, ServerAssumption DEF Jobs, Positions
<1> QED
  BY <1>2, <1>4, <1>5

LEMMA SliceStep ==
    TypeInv /\ HandInv /\ SliceDealtOnce /\ DealtInv /\ [Next]_vars => SliceDealtOnce'
<1> SUFFICES ASSUME TypeInv, HandInv, SliceDealtOnce, DealtInv, [Next]_vars
             PROVE  SliceDealtOnce'
  OBVIOUS
<1>1. SlicesDiffer /\ QueuesDistinct
  BY SliceDealtOnceSplit
<1>2. SlicesDiffer'
  <2>1. CASE \A w \in Workers : Outstanding(w)' \subseteq Outstanding(w)
    BY <1>1, <2>1 DEF SlicesDiffer
  <2>2. ASSUME NEW c \in Conns, EnqueueAdd(c) PROVE SlicesDiffer'
    <3>1. PICK new \in Jobs :
             /\ new.req = Req(c) /\ new.flag_pos = i[c] \div SliceSize
             /\ \A w \in Workers : Outstanding(w)' =
                   Outstanding(w) \cup (IF w = in[c] THEN {new} ELSE {})
      BY <2>2, AddOutstanding DEF MakeJob
    <3>2. \A w \in Workers : \A j \in Outstanding(w) :
             ~ (j.req = new.req /\ j.flag_pos = new.flag_pos)
      BY <2>2, <3>1, NewSlice
    <3> QED
      BY <1>1, <3>1, <3>2 DEF SlicesDiffer
  <2> QED
    BY <2>1, <2>2, OutstandingStep
<1>3. QueuesDistinct'
  <2> USE DEF QueuesDistinct
  <2>1. CASE UNCHANGED <<queue, hand>>
    BY <1>1, <2>1
  <2>2. ASSUME NEW c \in Conns, EnqueueAdd(c) PROVE QueuesDistinct'
    <3> DEFINE new == MakeJob(Req(c), len[c], i[c])
               q   == in[c]
    <3>1. /\ q \in Workers /\ hand' = hand /\ queue \in [Workers -> Seq(Jobs)]
          /\ queue' = [queue EXCEPT ![q] = Append(@, new)]
      BY <2>2 DEF EnqueueAdd, TypeInv, TypeOK, workerVars
    <3>2. new \in Jobs
      BY <2>2, AddOutstanding
    <3>3. new \notin Outstanding(q)
      BY <2>2, <3>1, NewSlice DEF MakeJob
    <3>4. new \notin Elems(queue[q]) /\ new \notin hand[q]
      BY <3>3 DEF Outstanding, Queued, Elems
    <3> HIDE DEF new, q
    <3>5. /\ Distinct(Append(queue[q], new))
          /\ Elems(Append(queue[q], new)) \cap hand[q] = {}
      BY <1>1, <3>1, <3>2, <3>4, AppendElems
    <3> QED
      BY <1>1, <3>1, <3>5
  <2>3. ASSUME NEW w \in Workers, WorkerPop(w), queue[w] # <<>> PROVE QueuesDistinct'
    <3>1. /\ queue \in [Workers -> Seq(Jobs)] /\ hand \in [Workers -> SUBSET Jobs]
          /\ queue' = [queue EXCEPT ![w] = Tail(@)]
          /\ hand' = [hand EXCEPT ![w] = {Head(queue[w])}]
      BY <2>3 DEF WorkerPop, TypeInv, TypeOK
    <3>2. Distinct(Tail(queue[w])) /\ Head(queue[w]) \notin Elems(Tail(queue[w]))
      BY <1>1, <2>3, <3>1, TailElems
    <3> QED
      BY <1>1, <3>1, <3>2
  <2>4. ASSUME NEW w \in Workers, SetFlag(w) PROVE QueuesDistinct'
    <3>1. queue' = queue /\ \A v \in Workers : hand'[v] \subseteq hand[v]
      BY <2>4 DEF SetFlag, TypeInv, TypeOK
    <3> QED
      BY <1>1, <3>1
  <2>5. \/ UNCHANGED <<queue, hand>>
        \/ \E c \in Conns : EnqueueAdd(c)
        \/ \E w \in Workers : (WorkerPop(w) /\ queue[w] # <<>>) \/ SetFlag(w)
    BY DEF Next, ConnNext, WorkerNext, vars, workerVars, Sigint, Accept, StartLoop, IoFails,
           ReadLen, WriteAck, ReadArray, EnqueueLock, EnqueueUnlock, SeeFlag, Reply,
           WorkerLock, WorkerUnlock, WorkerPop, Compute
  <2> QED
    BY <2>1, <2>2, <2>3, <2>4, <2>5
<1>4. SliceDealtOnce' <=> SlicesDiffer' /\ QueuesDistinct'
  BY SliceDealtOnceSplit, PTL
<1> QED
  BY <1>2, <1>3, <1>4

-----------------------------------------------------------------------------
(* No slice is lost. *)

Serving == Slicing \cup {"wait"}

(* Connection c stands still unless it takes the step itself. *)
LEMMA ConnFrame ==
    ASSUME TypeInv, [Next]_vars, NEW c \in Conns, ~ ConnNext(c), ~ Accept(c)
    PROVE  /\ cpc'[c] = cpc[c] /\ reqno'[c] = reqno[c] /\ len'[c] = len[c]
           /\ in'[c] = in[c] /\ i'[c] = i[c]
<1> USE DEF TypeInv, TypeOK, connVars, workerVars, memVars
<1>1. CASE UNCHANGED connVars
  BY <1>1
<1>2. ASSUME NEW e \in Conns, e # c, Accept(e) \/ ConnNext(e)
      PROVE  /\ cpc'[c] = cpc[c] /\ reqno'[c] = reqno[c] /\ len'[c] = len[c]
             /\ in'[c] = in[c] /\ i'[c] = i[c]
  BY <1>2 DEF ConnNext, Accept, StartLoop, IoFails, ReadLen, WriteAck, ReadArray, EnqueueLock,
              EnqueueAdd, EnqueueUnlock, SeeFlag, Reply, GoOn
<1>3. UNCHANGED connVars \/ \E e \in Conns : Accept(e) \/ ConnNext(e)
  BY DEF Next, WorkerNext, vars, Sigint, WorkerLock, WorkerPop, WorkerUnlock, Compute, SetFlag
<1> QED
  BY <1>1, <1>2, <1>3

(* While a connection serves a request, the request stays the same.        *)
LEMMA ServingFrame ==
    ASSUME TypeInv, [Next]_vars, NEW c \in Conns, cpc[c] \in Serving \cup {"reply"}
    PROVE  reqno'[c] = reqno[c] /\ len'[c] = len[c]
<1>1. CASE ~ ConnNext(c) /\ ~ Accept(c)
  BY <1>1, ConnFrame
<1>2. CASE ConnNext(c) \/ Accept(c)
  BY <1>2 DEF Serving, Slicing, ConnNext, Accept, StartLoop, IoFails, ReadLen, WriteAck,
              ReadArray, EnqueueLock, EnqueueAdd, EnqueueUnlock, SeeFlag, Reply
<1> QED
  BY <1>1, <1>2

(* A connection begins to serve a request only by reading its array, and   *)
(* replies only after its last flag.                                       *)
LEMMA ServingBegins ==
    ASSUME TypeInv, [Next]_vars, NEW c \in Conns,
           cpc[c] \notin Serving, cpc'[c] \in Serving
    PROVE  ReadArray(c) /\ cpc'[c] = "lock" /\ i'[c] = 0 /\ reqno'[c] = reqno[c]
<1> USE DEF TypeInv, TypeOK, Serving, Slicing
<1>1. ConnNext(c) \/ Accept(c)
  BY ConnFrame
<1>2. ReadArray(c)
  BY <1>1 DEF ConnNext, Accept, StartLoop, IoFails, ReadLen, WriteAck, EnqueueLock,
              EnqueueAdd, EnqueueUnlock, SeeFlag, Reply, GoOn
<1> QED
  BY <1>2 DEF ReadArray, GoOn

(* The number of slices dealt grows only in add_queue, by one. *)
LEMMA DealtChange ==
    ASSUME TypeInv, [Next]_vars, NEW c \in Conns,
           cpc[c] \in Serving, cpc'[c] \in Serving
    PROVE  \/ Dealt(c)' = Dealt(c)
           \/ /\ EnqueueAdd(c)
              /\ Dealt(c) = i[c] \div SliceSize
              /\ Dealt(c)' = Dealt(c) + 1
<1> USE DEF Serving, Slicing, Dealt
<1>0. /\ cpc \in [Conns -> ConnStates] /\ i \in [Conns -> Nat] /\ len[c] \in Nat
      /\ len \in [Conns -> 0 .. MaxLen]
  BY ServerAssumption DEF TypeInv, TypeOK
<1>1. CASE ~ ConnNext(c) /\ ~ Accept(c)
  BY <1>1, ConnFrame
<1>2. CASE EnqueueLock(c)
  BY <1>0, <1>2 DEF EnqueueLock
<1>3. CASE EnqueueAdd(c)
  BY <1>0, <1>3 DEF EnqueueAdd
<1>4. CASE EnqueueUnlock(c)
  <2>1. cpc[c] = "unlock" /\ i[c] \in Nat /\ i[c] % SliceSize = 0 /\ i[c] < len[c]
    BY <1>0, <1>4 DEF EnqueueUnlock, TypeInv, ConnInv
  <2>2. SliceSize \in Nat \ {0}
    BY ServerAssumption
  <2>3. CASE i[c] + SliceSize < len[c]
    <3>1. cpc'[c] = "lock" /\ i'[c] = i[c] + SliceSize
      BY <1>0, <1>4, <2>1, <2>2, <2>3 DEF EnqueueUnlock
    <3>2. (i[c] + SliceSize) \div SliceSize = (i[c] \div SliceSize) + 1
      BY <2>1, NextIndex
    <3> QED
      BY <2>1, <3>1, <3>2
  <2>4. CASE i[c] + SliceSize >= len[c]
    <3>1. cpc'[c] = "wait" /\ len' = len
      BY <1>0, <1>4, <2>1, <2>2, <2>4 DEF EnqueueUnlock
    <3>2. (len[c] - 1) \div SliceSize = i[c] \div SliceSize
      BY <1>0, <2>1, <2>2, <2>4, DivLast
    <3> QED
      BY <2>1, <3>1, <3>2 DEF NumBlocks
  <2> QED
    BY <1>0, <2>1, <2>2, <2>3, <2>4
<1>5. CASE SeeFlag(c)
  BY <1>0, <1>5 DEF SeeFlag
<1>6. CASE \/ Accept(c) \/ StartLoop(c) \/ IoFails(c) \/ ReadLen(c) \/ WriteAck(c)
           \/ ReadArray(c) \/ Reply(c)
  BY <1>0, <1>6 DEF Accept, StartLoop, IoFails, ReadLen, WriteAck, ReadArray, Reply
<1> QED
  BY <1>1, <1>2, <1>3, <1>4, <1>5, <1>6 DEF ConnNext

(* Slice k of the current request of c is finished or outstanding. *)
Tracked(c, k) ==
    \/ k \in flags[Req(c)]
    \/ \E w \in Workers : \E j \in Outstanding(w) : j.req = Req(c) /\ j.flag_pos = k

(* The flags of the request being served only grow. *)
LEMMA FlagsGrow ==
    ASSUME TypeInv, [Next]_vars, NEW c \in Conns, cpc[c] \in Serving \cup {"reply"}
    PROVE  flags[Req(c)] \subseteq flags'[Req(c)]
<1>0. Req(c) \in Requests /\ flags \in [Requests -> SUBSET Positions]
  BY ReqType DEF TypeInv, TypeOK, Serving
<1>1. CASE flags' = flags
  BY <1>1
<1>2. ASSUME NEW e \in Conns, ReadArray(e)
      PROVE  flags[Req(c)] \subseteq flags'[Req(c)]
  <2>1. e # c
    BY <1>2 DEF ReadArray, Serving, Slicing
  <2>2. Req(e) # Req(c)
    BY <2>1 DEF Req
  <2> QED
    BY <1>0, <1>2, <2>2 DEF ReadArray
<1>3. ASSUME NEW w \in Workers, SetFlag(w)
      PROVE  flags[Req(c)] \subseteq flags'[Req(c)]
  BY <1>0, <1>3 DEF SetFlag
<1> QED
  BY <1>1, <1>2, <1>3
     DEF Next, ConnNext, WorkerNext, vars, memVars, Sigint, Accept, StartLoop, IoFails,
         ReadLen, WriteAck, EnqueueLock, EnqueueAdd, EnqueueUnlock, SeeFlag, Reply,
         WorkerLock, WorkerPop, WorkerUnlock, Compute

(* A job leaves the outstanding ones only when its flag is raised. *)
LEMMA OutstandingLeaves ==
    ASSUME TypeInv, HandInv, SliceDealtOnce, [Next]_vars,
           NEW w \in Workers, NEW j \in Outstanding(w)
    PROVE  j \in Outstanding(w)' \/ j.flag_pos \in flags'[j.req]
<1>1. CASE UNCHANGED <<queue, hand>>
  BY <1>1, QuietOutstanding
<1>2. ASSUME NEW v \in Workers, WorkerPop(v) PROVE j \in Outstanding(w)'
  BY <1>2, PopOutstanding
<1>3. ASSUME NEW v \in Workers, SetFlag(v)
      PROVE  j \in Outstanding(w)' \/ j.flag_pos \in flags'[j.req]
  <2>1. PICK d \in Jobs :
           /\ flags' = [flags EXCEPT ![d.req] = @ \cup {d.flag_pos}]
           /\ Outstanding(v)' = Outstanding(v) \ {d}
           /\ \A u \in Workers \ {v} : Outstanding(u)' = Outstanding(u)
    BY <1>3, SetFlagOutstanding
  <2>2. d.flag_pos \in flags'[d.req]
    BY <2>1 DEF TypeInv, TypeOK, Jobs
  <2> QED
    BY <2>1, <2>2
<1>4. ASSUME NEW c \in Conns, EnqueueAdd(c) PROVE j \in Outstanding(w)'
  BY <1>4, AddOutstanding
<1>5. \/ UNCHANGED <<queue, hand>>
      \/ \E c \in Conns : EnqueueAdd(c)
      \/ \E v \in Workers : WorkerPop(v) \/ SetFlag(v)
  BY DEF Next, ConnNext, WorkerNext, vars, workerVars, Sigint, Accept, StartLoop, IoFails,
         ReadLen, WriteAck, ReadArray, EnqueueLock, EnqueueUnlock, SeeFlag, Reply,
         WorkerLock, WorkerUnlock, Compute
<1> QED
  BY <1>1, <1>2, <1>3, <1>4, <1>5

(* A tracked slice stays tracked while its request is served. *)
LEMMA TrackedStep ==
    ASSUME TypeInv, HandInv, SliceDealtOnce, [Next]_vars,
           NEW c \in Conns, NEW k, cpc[c] \in Serving, Tracked(c, k)
    PROVE  Tracked(c, k)'
<1>1. Req(c)' = Req(c)
  BY ServingFrame DEF Req
<1>2. CASE k \in flags[Req(c)]
  BY <1>1, <1>2, FlagsGrow DEF Tracked
<1>3. CASE \E w \in Workers : \E j \in Outstanding(w) : j.req = Req(c) /\ j.flag_pos = k
  BY <1>1, <1>3, OutstandingLeaves DEF Tracked
<1> QED
  BY <1>2, <1>3 DEF Tracked

LEMMA LiveStep ==
    TypeInv /\ HandInv /\ SliceDealtOnce /\ LiveInv /\ [Next]_vars => LiveInv'
<1> SUFFICES ASSUME TypeInv, HandInv, SliceDealtOnce, LiveInv, [Next]_vars,
                    NEW c \in Conns, cpc'[c] \in Serving,
                    NEW k \in (0 .. Dealt(c) - 1)'
             PROVE  Tracked(c, k)'
  BY DEF LiveInv, Tracked, Serving
<1>1. CASE cpc[c] \notin Serving
  <2>1. cpc'[c] = "lock" /\ i'[c] = 0
    BY <1>1, ServingBegins
  <2>2. Dealt(c)' = 0
    BY <2>1, ServerAssumption, DivModBounds DEF Dealt
  <2> QED
    BY <2>2
<1>2. CASE cpc[c] \in Serving
  <2>1. CASE Dealt(c)' = Dealt(c)
    <3>1. Tracked(c, k)
      BY <1>2, <2>1 DEF LiveInv, Tracked, Serving
    <3> QED
      BY <1>2, <3>1, TrackedStep
  <2>2. CASE /\ EnqueueAdd(c)
             /\ Dealt(c) = i[c] \div SliceSize
             /\ Dealt(c)' = Dealt(c) + 1
    <3>1. Dealt(c) \in Nat
      BY <2>2, ServerAssumption, DivModBounds DEF TypeInv, TypeOK
    <3>2. CASE k \in 0 .. Dealt(c) - 1
      <4>1. Tracked(c, k)
        BY <1>2, <3>2 DEF LiveInv, Tracked, Serving
      <4> QED
        BY <1>2, <4>1, TrackedStep
    <3>3. CASE k = Dealt(c)
      <4>1. PICK new \in Jobs :
               /\ new.req = Req(c) /\ new.flag_pos = i[c] \div SliceSize
               /\ \A w \in Workers : Outstanding(w)' =
                     Outstanding(w) \cup (IF w = in[c] THEN {new} ELSE {})
        BY <2>2, AddOutstanding DEF MakeJob
      <4>2. in[c] \in Workers /\ Req(c)' = Req(c)
        BY <2>2 DEF TypeInv, TypeOK, EnqueueAdd, Req
      <4> QED
        BY <2>2, <3>3, <4>1, <4>2 DEF Tracked
    <3> QED
      BY <2>2, <3>1, <3>2, <3>3
  <2> QED
    BY <1>2, <2>1, <2>2, DealtChange
<1> QED
  BY <1>1, <1>2

-----------------------------------------------------------------------------
(* The polling loop. *)

(* How a connection comes to poll, and to reply. *)
LEMMA PollingMoves ==
    ASSUME TypeInv, [Next]_vars, NEW c \in Conns
    PROVE  /\ cpc'[c] = "wait" =>
                 \/ cpc[c] = "wait" /\ i'[c] = i[c]
                 \/ cpc[c] = "wait" /\ i[c] \in flags[Req(c)] /\ i'[c] = i[c] + 1
                 \/ cpc[c] = "unlock" /\ i'[c] = 0
           /\ cpc'[c] = "reply" =>
                 \/ cpc[c] = "reply"
                 \/ /\ cpc[c] = "wait" /\ i[c] \in flags[Req(c)]
                    /\ i[c] + 1 >= NumBlocks(len[c])
<1> USE DEF TypeInv, TypeOK
<1>1. CASE ~ ConnNext(c) /\ ~ Accept(c)
  BY <1>1, ConnFrame
<1>2. CASE SeeFlag(c)
  BY <1>2 DEF SeeFlag
<1>3. CASE EnqueueUnlock(c)
  BY <1>3 DEF EnqueueUnlock
<1>4. CASE \/ Accept(c) \/ StartLoop(c) \/ IoFails(c) \/ ReadLen(c) \/ WriteAck(c)
           \/ ReadArray(c) \/ EnqueueLock(c) \/ EnqueueAdd(c) \/ Reply(c)
  BY <1>4 DEF Accept, StartLoop, IoFails, ReadLen, WriteAck, ReadArray, EnqueueLock,
              EnqueueAdd, Reply, GoOn
<1> QED
  BY <1>1, <1>2, <1>3, <1>4 DEF ConnNext

LEMMA SeenStep == TypeInv /\ SeenInv /\ [Next]_vars => SeenInv'
<1> SUFFICES ASSUME TypeInv, SeenInv, [Next]_vars, NEW c \in Conns
             PROVE  /\ cpc'[c] = "wait" =>
                          \A k \in (0 .. i[c] - 1)' : k \in flags'[Req(c)']
                    /\ cpc'[c] = "reply" =>
                          \A k \in (0 .. NumBlocks(len[c]) - 1)' : k \in flags'[Req(c)']
  BY DEF SeenInv
<1>1. i[c] \in Nat /\ NumBlocks(len[c]) \in Int
  <2>1. i[c] \in Nat /\ len[c] \in Nat /\ SliceSize \in Nat \ {0}
    BY ServerAssumption DEF TypeInv, TypeOK
  <2>2. (len[c] - 1) \div SliceSize \in Int
    BY <2>1
  <2> QED
    BY <2>1, <2>2 DEF NumBlocks
<1>2. CASE cpc'[c] = "wait"
  <2>1. CASE cpc[c] = "unlock" /\ i'[c] = 0
    BY <1>2, <2>1
  <2>2. CASE cpc[c] = "wait"
    <3>1. Req(c)' = Req(c) /\ flags[Req(c)] \subseteq flags'[Req(c)]
      BY <2>2, ServingFrame, FlagsGrow DEF Req, Serving
    <3>2. \/ i'[c] = i[c]
          \/ i[c] \in flags[Req(c)] /\ i'[c] = i[c] + 1
      BY <1>1, <1>2, <2>2, PollingMoves
    <3>3. \A k \in 0 .. i[c] - 1 : k \in flags[Req(c)]
      BY <2>2 DEF SeenInv
    <3> QED
      BY <1>1, <1>2, <3>1, <3>2, <3>3
  <2> QED
    BY <1>2, <2>1, <2>2, PollingMoves
<1>3. CASE cpc'[c] = "reply"
  <2>1. cpc[c] \in {"wait", "reply"}
    BY <1>3, PollingMoves
  <2>2. /\ Req(c)' = Req(c) /\ len'[c] = len[c]
        /\ flags[Req(c)] \subseteq flags'[Req(c)]
    BY <2>1, ServingFrame, FlagsGrow DEF Req, Serving
  <2>3. \A k \in 0 .. NumBlocks(len[c]) - 1 : k \in flags[Req(c)]
    <3>1. CASE cpc[c] = "reply"
      BY <3>1 DEF SeenInv
    <3>2. CASE cpc[c] = "wait"
      <4>1. i[c] \in flags[Req(c)] /\ i[c] + 1 >= NumBlocks(len[c])
        BY <1>3, <3>2, PollingMoves
      <4>2. \A k \in 0 .. i[c] - 1 : k \in flags[Req(c)]
        BY <3>2 DEF SeenInv
      <4> QED
        BY <1>1, <4>1, <4>2
    <3> QED
      BY <2>1, <3>1, <3>2
  <2> QED
    BY <1>3, <2>2, <2>3 DEF NumBlocks
<1> QED
  BY <1>2, <1>3

-----------------------------------------------------------------------------
(* The invariant for any heap, and what follows from it. *)

LEMMA InitInv == Init => FlagInv /\ CleanInv /\ NoOrphanJob
<1> SUFFICES ASSUME Init PROVE FlagInv /\ CleanInv /\ NoOrphanJob
  OBVIOUS
<1>1. TypeInv
  BY InitType
<1>2. \A w \in Workers : Queued(w) = {} /\ Outstanding(w) = {} /\ Len(queue[w]) = 0
  BY DEF Init, Queued, Outstanding
<1>3. LockInv /\ HandInv
  BY DEF Init, LockInv, HandInv, WorkerInside
<1>4. DealtInv /\ SliceDealtOnce /\ NoOrphanJob
  BY <1>2 DEF DealtInv, SliceDealtOnce, NoOrphanJob
<1>5. LiveInv /\ SeenInv
  BY DEF Init, LiveInv, SeenInv, Slicing
<1>6. CleanInv
  BY <1>2 DEF Init, CleanInv, Slicing
<1> QED
  BY <1>1, <1>3, <1>4, <1>5, <1>6 DEF FlagInv, QueueInv

LEMMA FlagInvStep == FlagInv /\ [Next]_vars => FlagInv'
BY TypeStep, LockStep, HandStep, DealtStep, SliceStep, LiveStep, SeenStep
   DEF FlagInv, QueueInv

LEMMA FlagInvariant == Spec => []FlagInv
<1>1. Init => FlagInv
  BY InitInv
<1> QED
  BY <1>1, FlagInvStep, PTL DEF Spec

(* pthread mutexes keep add_queue and pop_queue of one queue apart. *)
THEOREM QueuesExclusive == Spec => []MutualExclusion
<1>1. FlagInv => MutualExclusion
  BY ThreadsDiffer
     DEF FlagInv, QueueInv, LockInv, MutualExclusion, ConnInside, WorkerInside
<1> QED
  BY <1>1, FlagInvariant, PTL

(* A slice is dealt to one worker, once, whatever the heap holds. *)
THEOREM DealtOnce == Spec => []SliceDealtOnce
<1>1. FlagInv => SliceDealtOnce
  BY DEF FlagInv, QueueInv
<1> QED
  BY <1>1, FlagInvariant, PTL

(* The polling loop of serve_connection waits only for flags that a queued *)
(* or running job will raise, whatever the heap holds.                     *)
THEOREM NoneLost == Spec => []NoSliceLost
<1>1. ASSUME FlagInv, NEW c \in Conns, cpc[c] = "wait",
             NEW k \in i[c] .. NumBlocks(len[c]) - 1
      PROVE  Tracked(c, k)
  <2>1. i[c] \in Nat /\ Dealt(c) = NumBlocks(len[c])
    BY <1>1 DEF FlagInv, QueueInv, TypeInv, TypeOK, Dealt
  <2>2. NumBlocks(len[c]) \in Int
    <3>1. len[c] \in Nat /\ SliceSize \in Nat \ {0}
      BY <1>1, ServerAssumption DEF FlagInv, QueueInv, TypeInv, TypeOK
    <3>2. (len[c] - 1) \div SliceSize \in Int
      BY <3>1
    <3> QED
      BY <3>1, <3>2 DEF NumBlocks
  <2>3. k \in 0 .. Dealt(c) - 1
    BY <1>1, <2>1, <2>2
  <2> QED
    BY <1>1, <2>3 DEF FlagInv, LiveInv, Tracked
<1>2. FlagInv => NoSliceLost
  BY <1>1 DEF NoSliceLost, Tracked
<1> QED
  BY <1>2, FlagInvariant, PTL

-----------------------------------------------------------------------------
(* A heap that hands out zeroed memory: no job outlives its request. *)

(* A flag is raised by a worker, or was left in the memory of the array.   *)
LEMMA FlagOrigin ==
    ASSUME TypeInv, HandInv, SliceDealtOnce, ~ DirtyHeap, [Next]_vars,
           NEW c \in Conns, cpc'[c] \in Serving, NEW k \in flags'[Req(c)']
    PROVE  \/ cpc[c] \in Serving /\ k \in flags[Req(c)]
           \/ \E w \in Workers : \E d \in Outstanding(w) :
                 /\ SetFlag(w) /\ d \notin Outstanding(w)'
                 /\ cpc'[c] = cpc[c] /\ i'[c] = i[c]
                 /\ d.req = Req(c) /\ d.flag_pos = k
<1>0. flags \in [Requests -> SUBSET Positions]
  BY DEF TypeInv, TypeOK
<1>1. CASE cpc[c] \notin Serving
  <2>1. ReadArray(c) /\ reqno'[c] = reqno[c]
    BY <1>1, ServingBegins
  <2>2. Req(c) \in Requests
    BY <2>1, ReqType DEF ReadArray
  <2>3. flags'[Req(c)] = {}
    BY <1>0, <2>1, <2>2 DEF ReadArray, GarbageFlags
  <2> QED
    BY <2>1, <2>3 DEF Req
<1>2. CASE cpc[c] \in Serving
  <2>0. Req(c)' = Req(c) /\ Req(c) \in Requests
    BY <1>2, ServingFrame, ReqType DEF Req, Serving
  <2>1. CASE flags' = flags
    BY <1>2, <2>0, <2>1
  <2>2. ASSUME NEW e \in Conns, ReadArray(e) PROVE k \in flags[Req(c)]
    <3>1. Req(e) # Req(c)
      BY <1>2, <2>2 DEF ReadArray, Serving, Slicing, Req
    <3> QED
      BY <1>0, <2>0, <2>2, <3>1 DEF ReadArray
  <2>3. ASSUME NEW w \in Workers, SetFlag(w), k \notin flags[Req(c)]
        PROVE  \E d \in Outstanding(w) :
                 /\ d \notin Outstanding(w)'
                 /\ cpc'[c] = cpc[c] /\ i'[c] = i[c]
                 /\ d.req = Req(c) /\ d.flag_pos = k
    <3>1. PICK d \in Outstanding(w) :
             /\ d \in Jobs
             /\ flags' = [flags EXCEPT ![d.req] = @ \cup {d.flag_pos}]
             /\ Outstanding(w)' = Outstanding(w) \ {d}
      BY <2>3, SetFlagOutstanding
    <3>2. d.req \in Requests
      BY <3>1 DEF Jobs
    <3>3. d.req = Req(c) /\ d.flag_pos = k
      BY <1>0, <2>0, <2>3, <3>1, <3>2
    <3>4. cpc' = cpc /\ i' = i
      BY <2>3 DEF SetFlag, connVars
    <3> QED
      BY <3>1, <3>3, <3>4
  <2> QED
    BY <1>2, <2>1, <2>2, <2>3
       DEF Next, ConnNext, WorkerNext, vars, memVars, Sigint, Accept, StartLoop, IoFails,
           ReadLen, WriteAck, EnqueueLock, EnqueueAdd, EnqueueUnlock, SeeFlag, Reply,
           WorkerLock, WorkerPop, WorkerUnlock, Compute
<1> QED
  BY <1>1, <1>2

(* CleanInv for one job, and for the flags of one connection. *)
CleanJob(j) ==
    \A c \in Conns : j.req = Req(c) =>
        /\ cpc[c] \in Serving
        /\ j.flag_pos \notin flags[Req(c)]
        /\ j.flag_pos < Dealt(c)

CleanFlags ==
    \A c \in Conns : cpc[c] \in Slicing => \A k \in flags[Req(c)] : k < Dealt(c)

CleanJobs == \A w \in Workers : \A j \in Outstanding(w) : CleanJob(j)

LEMMA CleanSplit == CleanInv <=> CleanFlags /\ CleanJobs
BY DEF CleanInv, CleanFlags, CleanJobs, CleanJob, Serving

LEMMA DealtInt == ASSUME TypeInv, NEW c \in Conns PROVE Dealt(c) \in Int
<1>1. i[c] \in Nat /\ len[c] \in Nat /\ SliceSize \in Nat \ {0}
  BY ServerAssumption DEF TypeInv, TypeOK
<1>2. i[c] \div SliceSize \in Int /\ (len[c] - 1) \div SliceSize \in Int
  BY <1>1
<1> QED
  BY <1>2 DEF Dealt, NumBlocks

(* Slices already dealt stay below Dealt(c). *)
LEMMA DealtGrows ==
    ASSUME TypeInv, [Next]_vars, NEW c \in Conns,
           cpc[c] \in Serving, cpc'[c] \in Serving, NEW k \in Int, k < Dealt(c)
    PROVE  k < Dealt(c)'
<1>1. Dealt(c) \in Int
  BY DealtInt
<1>2. Dealt(c)' = Dealt(c) \/ Dealt(c)' = Dealt(c) + 1
  BY DealtChange
<1> QED
  BY <1>1, <1>2

LEMMA CleanFlagsStep ==
    TypeInv /\ HandInv /\ SliceDealtOnce /\ CleanInv /\ ~ DirtyHeap /\ [Next]_vars
        => CleanFlags'
<1> SUFFICES ASSUME TypeInv, HandInv, SliceDealtOnce, CleanInv, ~ DirtyHeap, [Next]_vars,
                    NEW c \in Conns, cpc'[c] \in Slicing, NEW k \in flags'[Req(c)']
             PROVE  k < Dealt(c)'
  BY DEF CleanFlags
<1>1. cpc'[c] \in Serving
  BY DEF Serving
<1>2. cpc[c] # "wait"
  <2>1. SUFFICES ASSUME cpc[c] = "wait" PROVE FALSE
    OBVIOUS
  <2>2. CASE ~ ConnNext(c) /\ ~ Accept(c)
    BY <2>1, <2>2, ConnFrame DEF Slicing
  <2>3. CASE ConnNext(c) \/ Accept(c)
    BY <2>1, <2>3 DEF TypeInv, TypeOK, Slicing, ConnNext, Accept, StartLoop, IoFails, ReadLen,
              WriteAck, ReadArray, EnqueueLock, EnqueueAdd, EnqueueUnlock, SeeFlag, Reply
  <2> QED
    BY <2>2, <2>3
<1>3. CASE cpc[c] \in Serving /\ k \in flags[Req(c)]
  <2>1. cpc[c] \in Slicing
    BY <1>2, <1>3 DEF Serving
  <2>2. k < Dealt(c)
    BY <1>3, <2>1 DEF CleanInv
  <2>3. k \in Int
    <3>1. Req(c) \in Requests
      BY <2>1, ReqType
    <3> QED
      BY <1>3, <3>1, ServerAssumption DEF TypeInv, TypeOK, Positions
  <2> QED
    BY <1>1, <1>3, <2>2, <2>3, DealtGrows
<1>4. ASSUME NEW w \in Workers, NEW d \in Outstanding(w),
             cpc'[c] = cpc[c], i'[c] = i[c], d.req = Req(c), d.flag_pos = k
      PROVE  k < Dealt(c)'
  <2>1. cpc[c] \in Serving /\ k < Dealt(c)
    BY <1>4 DEF CleanInv, Serving
  <2>2. k \in Int
    <3>1. d \in Jobs
      BY DEF Outstanding, Queued, TypeInv, TypeOK
    <3> QED
      BY <1>4, <3>1, ServerAssumption DEF Jobs, Positions
  <2> QED
    BY <1>1, <2>1, <2>2, DealtGrows
<1> QED
  BY <1>1, <1>3, <1>4, FlagOrigin

LEMMA OutstandingJobs ==
    ASSUME TypeInv, NEW w \in Workers, NEW j \in Outstanding(w)
    PROVE  j \in Jobs /\ j.flag_pos \in Nat /\ j.req \in Conns \X (1 .. MaxReq)
<1>1. j \in Jobs
  BY DEF Outstanding, Queued, TypeInv, TypeOK
<1> QED
  BY <1>1, ServerAssumption DEF Jobs, Positions, Requests

(* A connection whose jobs are outstanding keeps serving their request: it *)
(* cannot have seen their flags.                                           *)
LEMMA KeepsServing ==
    ASSUME TypeInv, SeenInv, CleanInv, [Next]_vars, NEW c \in Conns,
           NEW w \in Workers, NEW j \in Outstanding(w), j.req = Req(c)
    PROVE  cpc[c] \in Serving /\ cpc'[c] \in Serving /\ Req(c)' = Req(c)
<1>1. cpc[c] \in Serving /\ j.flag_pos \notin flags[Req(c)] /\ j.flag_pos < Dealt(c)
  BY DEF CleanInv, Serving
<1>2. Req(c)' = Req(c)
  BY <1>1, ServingFrame DEF Req
<1>3. cpc'[c] \in Serving \cup {"reply"}
  <2>1. CASE ~ ConnNext(c) /\ ~ Accept(c)
    BY <1>1, <2>1, ConnFrame
  <2>2. CASE ConnNext(c) \/ Accept(c)
    BY <1>1, <2>2 DEF TypeInv, TypeOK, Serving, Slicing, ConnNext, Accept, StartLoop, IoFails,
              ReadLen, WriteAck, ReadArray, EnqueueLock, EnqueueAdd, EnqueueUnlock, SeeFlag, Reply
  <2> QED
    BY <2>1, <2>2
<1>4. cpc'[c] # "reply"
  <2>1. SUFFICES ASSUME cpc'[c] = "reply" PROVE FALSE
    OBVIOUS
  <2>2. /\ cpc[c] = "wait" /\ i[c] \in flags[Req(c)] /\ i[c] + 1 >= NumBlocks(len[c])
    BY <1>1, <2>1, PollingMoves DEF Serving, Slicing
  <2>3. /\ i[c] \in Nat /\ Dealt(c) = NumBlocks(len[c]) /\ Dealt(c) \in Int
        /\ j.flag_pos \in Nat
    BY <2>2, DealtInt, OutstandingJobs DEF Dealt, TypeInv, TypeOK
  <2>4. \A k \in 0 .. i[c] - 1 : k \in flags[Req(c)]
    BY <2>2 DEF SeenInv
  <2> QED
    BY <1>1, <2>2, <2>3, <2>4
<1> QED
  BY <1>1, <1>2, <1>3, <1>4

(* The number of the current request never shrinks. *)
LEMMA ReqnoGrows ==
    ASSUME TypeInv, [Next]_vars, NEW c \in Conns
    PROVE  reqno'[c] = reqno[c] \/ reqno'[c] = reqno[c] + 1
<1>1. CASE ~ ConnNext(c) /\ ~ Accept(c)
  BY <1>1, ConnFrame
<1>2. CASE ConnNext(c) \/ Accept(c)
  BY <1>2 DEF TypeInv, TypeOK, ConnNext, Accept, StartLoop, IoFails,
              ReadLen, WriteAck, ReadArray, EnqueueLock, EnqueueAdd, EnqueueUnlock, SeeFlag, Reply
<1> QED
  BY <1>1, <1>2

LEMMA CleanJobStep ==
    ASSUME QueueInv, SeenInv, CleanInv, ~ DirtyHeap, [Next]_vars,
           NEW w \in Workers, NEW j \in Outstanding(w), j \in Outstanding(w)'
    PROVE  CleanJob(j)'
<1> USE DEF QueueInv
<1>1. SUFFICES ASSUME NEW c \in Conns, j.req = Req(c)'
               PROVE  /\ cpc'[c] \in Serving
                      /\ j.flag_pos \notin flags'[Req(c)']
                      /\ j.flag_pos < Dealt(c)'
  BY DEF CleanJob
<1>2. j.req = Req(c)
  <2>1. j.req[1] = c /\ j.req[2] = reqno'[c] /\ reqno[c] \in Nat
    BY <1>1, ServerAssumption DEF Req, TypeInv, TypeOK
  <2>2. j.req[2] <= reqno[c]
    BY <2>1 DEF DealtInv
  <2> QED
    BY <1>1, <2>1, <2>2, ReqnoGrows DEF Req
<1>3. /\ cpc[c] \in Serving /\ cpc'[c] \in Serving
      /\ j.flag_pos \notin flags[Req(c)] /\ j.flag_pos < Dealt(c)
  BY <1>2, KeepsServing DEF CleanInv
<1>4. j.flag_pos \notin flags'[Req(c)']
  <2>1. SUFFICES ASSUME j.flag_pos \in flags'[Req(c)'] PROVE FALSE
    OBVIOUS
  <2>2. PICK v \in Workers : \E d \in Outstanding(v) :
           d \notin Outstanding(v)' /\ d.req = Req(c) /\ d.flag_pos = j.flag_pos
    BY <1>3, <2>1, FlagOrigin
  <2>2a. PICK d \in Outstanding(v) :
           d \notin Outstanding(v)' /\ d.req = Req(c) /\ d.flag_pos = j.flag_pos
    BY <2>2
  <2>3. v = w /\ d = j
    BY <1>2, <2>2a DEF SliceDealtOnce
  <2> QED
    BY <2>2a, <2>3
<1>5. j.flag_pos < Dealt(c)'
  BY <1>3, OutstandingJobs, DealtGrows
<1> QED
  BY <1>3, <1>4, <1>5

LEMMA NewCleanJob ==
    ASSUME TypeInv, CleanInv, [Next]_vars, NEW c \in Conns, EnqueueAdd(c), NEW j \in Jobs,
           j.req = Req(c), j.flag_pos = i[c] \div SliceSize
    PROVE  CleanJob(j)' /\ Req(c)' = Req(c) /\ cpc'[c] \in Serving
<1>1. /\ cpc[c] = "add" /\ cpc'[c] = "unlock" /\ i' = i /\ flags' = flags /\ reqno' = reqno
      /\ i[c] \in Nat
  BY DEF EnqueueAdd, TypeInv, TypeOK, memVars
<1>2. i[c] \div SliceSize \in Nat
  BY <1>1, ServerAssumption, DivModBounds
<1>3. Dealt(c) = i[c] \div SliceSize /\ Dealt(c)' = (i[c] \div SliceSize) + 1
  BY <1>1 DEF Dealt
<1>4. j.flag_pos \notin flags[Req(c)]
  BY <1>1, <1>2, <1>3 DEF CleanInv, Slicing
<1>5. \A e \in Conns : j.req = Req(e)' => e = c
  BY DEF Req
<1>6. Req(c)' = Req(c) /\ flags'[Req(c)'] = flags[Req(c)]
  BY <1>1 DEF Req
<1> QED
  BY <1>1, <1>2, <1>3, <1>4, <1>5, <1>6 DEF CleanJob, Serving, Slicing

LEMMA CleanStep ==
    FlagInv /\ CleanInv /\ NoOrphanJob /\ ~ DirtyHeap /\ [Next]_vars
        => CleanInv' /\ NoOrphanJob'
<1> SUFFICES ASSUME FlagInv, CleanInv, NoOrphanJob, ~ DirtyHeap, [Next]_vars
             PROVE  CleanInv' /\ NoOrphanJob'
  OBVIOUS
<1> USE DEF FlagInv, QueueInv
<1>1. CleanFlags'
  BY CleanFlagsStep
<1>2. ASSUME NEW w \in Workers, NEW j \in Outstanding(w)'
      PROVE  CleanJob(j)' /\ \E c \in Conns : j.req = Req(c)' /\ cpc'[c] \in Serving
  <2>1. CASE j \in Outstanding(w)
    <3>1. PICK c \in Conns : j.req = Req(c)
      BY <2>1 DEF NoOrphanJob
    <3>2. cpc'[c] \in Serving /\ Req(c)' = Req(c)
      BY <2>1, <3>1, KeepsServing
    <3> QED
      BY <1>2, <2>1, <3>1, <3>2, CleanJobStep
  <2>2. CASE j \notin Outstanding(w)
    <3>1. PICK c \in Conns : EnqueueAdd(c)
      BY <1>2, <2>2, OutstandingStep
    <3>2. PICK new \in Jobs :
             /\ new.req = Req(c) /\ new.flag_pos = i[c] \div SliceSize
             /\ Outstanding(w)' \subseteq Outstanding(w) \cup {new}
      BY <3>1, AddOutstanding DEF MakeJob
    <3>3. j = new
      BY <2>2, <3>2
    <3> QED
      BY <3>1, <3>2, <3>3, NewCleanJob
  <2> QED
    BY <2>1, <2>2
<1>3. CleanInv' <=> CleanFlags' /\ CleanJobs'
  BY CleanSplit, PTL
<1>4. NoOrphanJob'
  BY <1>2 DEF NoOrphanJob, Serving
<1> QED
  BY <1>1, <1>2, <1>3, <1>4 DEF CleanJobs

(* When malloc returns zeroed memory, no job outlives the request it was   *)
(* made for: once the reply is under way no worker touches its arrays.     *)
THEOREM BuffersQuiet == ~ DirtyHeap => (Spec => []NoOrphanJob)
<1> SUFFICES ASSUME ~ DirtyHeap PROVE Spec => []NoOrphanJob
  OBVIOUS
<1>1. Init => ZeroInv
  BY InitInv DEF ZeroInv
<1>2. ZeroInv /\ [Next]_vars => ZeroInv'
  BY FlagInvStep, CleanStep DEF ZeroInv
<1>3. ZeroInv => NoOrphanJob
  BY DEF ZeroInv
<1> QED
  BY <1>1, <1>2, <1>3, PTL DEF Spec

-----------------------------------------------------------------------------
(* A request that fits in one slice is answered completely. *)

(* Entries of the output arrays are only stored, by a worker at its job.   *)
LEMMA WrittenChange ==
    ASSUME TypeInv, HandInv, [Next]_vars
    PROVE  \/ written' = written
           \/ \E w \in Workers : \E d \in hand[w] :
                 /\ Compute(w) /\ hand[w] = {d} /\ wi[w] < d.size
                 /\ written' = [written EXCEPT ![d.req] = @ \cup {wi[w]}]
<1>1. ASSUME NEW w \in Workers, Compute(w)
      PROVE  \E d \in hand[w] :
                 /\ hand[w] = {d} /\ wi[w] < d.size
                 /\ written' = [written EXCEPT ![d.req] = @ \cup {wi[w]}]
  <2>1. PICK d \in hand[w] :
           wi[w] < d.size /\ written' = [written EXCEPT ![d.req] = @ \cup {wi[w]}]
    BY <1>1 DEF Compute
  <2>2. hand[w] = {d}
    BY <2>1 DEF HandInv
  <2> QED
    BY <2>1, <2>2
<1> QED
  BY <1>1
     DEF Next, ConnNext, WorkerNext, vars, memVars, Sigint, Accept, StartLoop, IoFails,
         ReadLen, WriteAck, ReadArray, EnqueueLock, EnqueueAdd, EnqueueUnlock, SeeFlag, Reply,
         WorkerLock, WorkerPop, WorkerUnlock, SetFlag

(* A request nobody has dealt stays one, from the first step of the server *)
(* until its array has been read.                                          *)
LEMMA BlankStep ==
    TypeInv /\ HandInv /\ DealtInv /\ BlankInv /\ [Next]_vars => BlankInv'
<1> SUFFICES ASSUME TypeInv, HandInv, DealtInv, BlankInv, [Next]_vars,
                    NEW c \in Conns, NEW k \in 1 .. MaxReq,
                    \/ k > reqno'[c]
                    \/ k = reqno'[c] /\ cpc'[c] \in {"ack", "read_arr"}
             PROVE  written'[<<c, k>>] = {}
  BY DEF BlankInv
<1>0. reqno[c] \in Nat /\ k \in Nat /\ <<c, k>> \in Requests
  BY ServerAssumption DEF TypeInv, TypeOK, Requests
<1>1. k > reqno[c] \/ (k = reqno[c] /\ cpc[c] \in {"ack", "read_arr"})
  <2>1. CASE k > reqno'[c]
    BY <1>0, <2>1, ReqnoGrows
  <2>2. CASE k = reqno'[c] /\ cpc'[c] \in {"ack", "read_arr"}
    <3>1. CASE ~ ConnNext(c) /\ ~ Accept(c)
      BY <2>2, <3>1, ConnFrame
    <3>2. CASE ConnNext(c) \/ Accept(c)
      BY <1>0, <2>2, <3>2
         DEF TypeInv, TypeOK, ConnNext, Accept, StartLoop, IoFails, ReadLen, WriteAck,
             ReadArray, EnqueueLock, EnqueueAdd, EnqueueUnlock, SeeFlag, Reply, GoOn
    <3> QED
      BY <3>1, <3>2
  <2> QED
    BY <2>1, <2>2
<1>2. written[<<c, k>>] = {}
  BY <1>1 DEF BlankInv
<1>3. ASSUME NEW w \in Workers, NEW d \in hand[w],
             written' = [written EXCEPT ![d.req] = @ \cup {wi[w]}]
      PROVE  written'[<<c, k>>] = {}
  <2>1. d \in Outstanding(w) /\ d.req \in Requests
    BY OutstandingJobs DEF Outstanding, Requests
  <2>2. d.req # <<c, k>>
    <3>1. SUFFICES ASSUME d.req = <<c, k>> PROVE FALSE
      OBVIOUS
    <3>2. k <= reqno[c] /\ (k = reqno[c] => cpc[c] \notin {"ack", "read_arr"})
      BY <2>1, <3>1 DEF DealtInv, Req
    <3> QED
      BY <1>0, <1>1, <3>2
  <2> QED
    BY <1>0, <1>2, <1>3, <2>1, <2>2 DEF TypeInv, TypeOK
<1> QED
  BY <1>2, <1>3, WrittenChange

(* The one slice of a short array is the array. *)
LEMMA WholeJob ==
    ASSUME NEW r, NEW n \in Nat, n <= SliceSize, NEW a \in Nat, a < n, a % SliceSize = 0
    PROVE  MakeJob(r, n, a).start = 0 /\ MakeJob(r, n, a).size = n
<1>1. SliceSize \in Nat \ {0}
  BY ServerAssumption
<1>2. a = 0
  BY <1>1, SMT
<1>3. n < SliceSize => n % SliceSize = n
  BY <1>1, SMT
<1> QED
  BY <1>1, <1>2, <1>3 DEF MakeJob

(* A short request that is being served was being served before, or its    *)
(* array has just been read: then nothing has been dealt yet.              *)
LEMMA OneSliceBegins ==
    ASSUME TypeInv, HandInv, SliceDealtOnce, DealtInv, BlankInv, ~ DirtyHeap, [Next]_vars,
           NEW c \in Conns, OneSlice(c)'
    PROVE  \/ OneSlice(c) /\ Req(c)' = Req(c) /\ len'[c] = len[c]
           \/ /\ flags'[Req(c)'] = {} /\ written'[Req(c)'] = {}
              /\ \A w \in Workers : \A j \in Outstanding(w)' : j.req # Req(c)'
<1>1. CASE cpc[c] \in Serving \cup {"reply"}
  <2>1. reqno'[c] = reqno[c] /\ len'[c] = len[c]
    BY <1>1, ServingFrame
  <2>2. Busy(c)
    BY <1>1 DEF Busy, Serving
  <2> QED
    BY <2>1, <2>2 DEF OneSlice, Req
<1>2. CASE cpc[c] \notin Serving \cup {"reply"}
  <2>1. cpc'[c] \in Serving \cup {"reply"}
    BY DEF OneSlice, Busy, Serving
  <2>2. cpc'[c] # "reply"
    BY <1>2, PollingMoves DEF Serving
  <2>3. ReadArray(c) /\ reqno'[c] = reqno[c]
    BY <1>2, <2>1, <2>2, ServingBegins
  <2>4. Req(c)' = Req(c) /\ Req(c) \in Requests /\ cpc[c] = "read_arr"
    BY <2>3, ReqType DEF Req, ReadArray
  <2>5. flags'[Req(c)'] = {}
    <3>1. flags \in [Requests -> SUBSET Positions]
      BY DEF TypeInv, TypeOK
    <3>2. flags'[Req(c)] = {}
      BY <2>3, <2>4, <3>1 DEF ReadArray, GarbageFlags
    <3> QED
      BY <2>4, <3>2
  <2>6. written'[Req(c)'] = {}
    <3>1. written[<<c, reqno[c]>>] = {}
      BY <2>4 DEF BlankInv, Req, Requests
    <3> QED
      BY <2>3, <2>4, <3>1 DEF ReadArray, Req
  <2>7. \A w \in Workers : \A j \in Outstanding(w) : j.req # Req(c)
    BY <2>4 DEF DealtInv, Req
  <2> QED
    BY <2>3, <2>4, <2>5, <2>6, <2>7, QuietOutstanding DEF ReadArray, workerVars
<1> QED
  BY <1>1, <1>2

(* The output array of a short request only fills up. *)
LEMMA WrittenGrows ==
    ASSUME TypeInv, HandInv, [Next]_vars, NEW r \in Requests
    PROVE  written[r] \subseteq written'[r]
<1>1. ASSUME NEW w \in Workers, NEW d \in hand[w],
             written' = [written EXCEPT ![d.req] = @ \cup {wi[w]}]
      PROVE  written[r] \subseteq written'[r]
  BY <1>1 DEF TypeInv, TypeOK
<1> QED
  BY <1>1, WrittenChange

LEMMA SliceFilledStep ==
    ASSUME TypeInv, HandInv, SliceDealtOnce, ~ DirtyHeap, [Next]_vars,
           NEW c \in Conns, OneSlice(c), OneSlice(c)', Req(c)' = Req(c), len'[c] = len[c],
           SliceFilled(c), SliceRunning(c)
    PROVE  SliceFilled(c)'
<1>0. /\ Req(c) \in Requests /\ len[c] \in Nat
      /\ written \in [Requests -> SUBSET Positions]
      /\ flags \in [Requests -> SUBSET Positions]
      /\ wi \in [Workers -> Nat] /\ wpc \in [Workers -> WorkerStates]
  BY ReqType, ServerAssumption, SMTT(20) DEF TypeInv, TypeOK, OneSlice, Busy
<1>1. written'[Req(c)] \subseteq 0 .. len[c] - 1
  <2>1. ASSUME NEW w \in Workers, NEW d \in hand[w], wi[w] < d.size,
               written' = [written EXCEPT ![d.req] = @ \cup {wi[w]}]
        PROVE  written'[Req(c)] \subseteq 0 .. len[c] - 1
    <3>1. CASE d.req # Req(c)
      BY <1>0, <2>1, <3>1 DEF SliceFilled
    <3>2. CASE d.req = Req(c)
      <4>1. d.size = len[c]
        BY <3>2 DEF SliceRunning, Outstanding
      <4> QED
        BY <1>0, <2>1, <3>2, <4>1 DEF SliceFilled
    <3> QED
      BY <3>1, <3>2
  <2> QED
    BY <2>1, WrittenChange DEF SliceFilled
<1>2. ASSUME flags'[Req(c)] # {} PROVE 0 .. len[c] - 1 \subseteq written[Req(c)]
  <2>1. CASE flags[Req(c)] # {}
    BY <2>1 DEF SliceFilled
  <2>2. CASE flags[Req(c)] = {}
    <3>1. ASSUME NEW e \in Conns, ReadArray(e)
          PROVE  flags'[Req(c)] = {}
      BY <1>0, <2>2, <3>1 DEF ReadArray, GarbageFlags
    <3>2. ASSUME NEW w \in Workers, SetFlag(w)
          PROVE  0 .. len[c] - 1 \subseteq written[Req(c)]
      <4>1. PICK d \in hand[w] :
               wi[w] >= d.size /\ flags' = [flags EXCEPT ![d.req] = @ \cup {d.flag_pos}]
        BY <3>2 DEF SetFlag
      <4>2. d.req = Req(c)
        BY <1>0, <1>2, <2>2, <4>1
      <4>3. d.size = len[c] /\ 0 .. wi[w] - 1 \subseteq written[Req(c)]
        BY <3>2, <4>2 DEF SliceRunning, Outstanding, SetFlag
      <4> QED
        BY <1>0, <4>1, <4>3
    <3> QED
      BY <1>2, <2>2, <3>1, <3>2
         DEF Next, ConnNext, WorkerNext, vars, memVars, Sigint, Accept, StartLoop, IoFails,
             ReadLen, WriteAck, EnqueueLock, EnqueueAdd, EnqueueUnlock, SeeFlag, Reply,
             WorkerLock, WorkerPop, WorkerUnlock, Compute
  <2> QED
    BY <2>1, <2>2
<1>3. written[Req(c)] \subseteq written'[Req(c)]
  BY <1>0, WrittenGrows
<1> QED
  BY <1>1, <1>2, <1>3 DEF SliceFilled

(* The index of a worker moves when it takes up a job and when it stores   *)
(* an entry of the array.                                                  *)
LEMMA WorkerIndex ==
    ASSUME TypeInv, HandInv, [Next]_vars, NEW w \in Workers, NEW j \in hand'[w],
           wpc'[w] = "work"
    PROVE  /\ j \in hand[w]
           /\ \/ wi'[w] = j.start
              \/ wpc[w] = "work" /\ wi'[w] = wi[w]
              \/ /\ wpc[w] = "work" /\ wi'[w] = wi[w] + 1
                 /\ written' = [written EXCEPT ![j.req] = @ \cup {wi[w]}]
<1> USE DEF TypeInv, TypeOK
<1>1. CASE UNCHANGED workerVars
  BY <1>1 DEF workerVars
<1>2. ASSUME NEW v \in Workers, v # w, WorkerNext(v)
      PROVE  hand'[w] = hand[w] /\ wpc'[w] = wpc[w] /\ wi'[w] = wi[w]
  BY <1>2 DEF WorkerNext, WorkerLock, WorkerPop, WorkerUnlock, Compute, SetFlag
<1>3. CASE WorkerLock(w) \/ WorkerPop(w) \/ SetFlag(w)
  BY <1>3 DEF WorkerLock, WorkerPop, SetFlag
<1>4. CASE WorkerUnlock(w)
  <2>1. j \in hand[w] /\ \A d \in hand[w] : d = j
    BY <1>4 DEF WorkerUnlock, HandInv
  <2> QED
    BY <1>4, <2>1 DEF WorkerUnlock
<1>5. CASE Compute(w)
  <2>1. j \in hand[w] /\ \A d \in hand[w] : d = j
    BY <1>5 DEF Compute, HandInv
  <2> QED
    BY <1>5, <2>1 DEF Compute
<1>6. UNCHANGED workerVars \/ \E v \in Workers : WorkerNext(v)
  BY DEF Next, ConnNext, vars, Sigint, Accept, StartLoop, IoFails, ReadLen, WriteAck,
         ReadArray, EnqueueLock, EnqueueAdd, EnqueueUnlock, SeeFlag, Reply
<1> QED
  BY <1>1, <1>2, <1>3, <1>4, <1>5, <1>6 DEF WorkerNext

LEMMA SliceRunningStep ==
    ASSUME TypeInv, HandInv, SliceDealtOnce, [Next]_vars,
           NEW c \in Conns, OneSlice(c), Req(c)' = Req(c), len'[c] = len[c],
           SliceRunning(c)
    PROVE  SliceRunning(c)'
<1>0. /\ Req(c) \in Requests /\ len[c] \in Nat
      /\ written \in [Requests -> SUBSET Positions] /\ wi \in [Workers -> Nat]
  BY ReqType, ServerAssumption DEF TypeInv, TypeOK, OneSlice, Busy
<1>1. written[Req(c)] \subseteq written'[Req(c)]
  BY <1>0, WrittenGrows
<1> SUFFICES ASSUME NEW w \in Workers, NEW j \in Outstanding(w)', j.req = Req(c)
             PROVE  /\ j.start = 0 /\ j.size = len[c]
                    /\ wpc'[w] = "work" /\ j \in hand'[w]
                          => 0 .. wi'[w] - 1 \subseteq written'[Req(c)]
  BY DEF SliceRunning
<1>2. CASE j \notin Outstanding(w)
  <2>1. PICK e \in Conns : EnqueueAdd(e)
    BY <1>2, OutstandingStep
  <2>2. j = MakeJob(Req(e), len[e], i[e])
    BY <1>2, <2>1, AddOutstanding
  <2>3. e = c
    BY <2>2 DEF MakeJob, Req
  <2>4. i[c] \in Nat /\ i[c] < len[c] /\ i[c] % SliceSize = 0 /\ len[c] <= SliceSize
    BY <2>1, <2>3 DEF EnqueueAdd, TypeInv, TypeOK, ConnInv, Slicing, OneSlice
  <2>5. j.start = 0 /\ j.size = len[c]
    BY <1>0, <2>2, <2>3, <2>4, WholeJob
  <2>6. j \notin hand'[w]
    BY <1>2, <2>1 DEF EnqueueAdd, workerVars, Outstanding
  <2> QED
    BY <2>5, <2>6
<1>3. CASE j \in Outstanding(w)
  <2>1. j.start = 0 /\ j.size = len[c]
    BY <1>3 DEF SliceRunning
  <2>2. ASSUME wpc'[w] = "work", j \in hand'[w]
        PROVE  0 .. wi'[w] - 1 \subseteq written'[Req(c)]
    <3>1. j \in hand[w]
      BY <2>2, WorkerIndex
    <3>2. wpc[w] = "work" => 0 .. wi[w] - 1 \subseteq written[Req(c)]
      BY <1>3, <3>1 DEF SliceRunning
    <3>3. CASE wi'[w] = j.start
      BY <2>1, <3>3
    <3>4. CASE wpc[w] = "work" /\ wi'[w] = wi[w]
      BY <1>1, <3>2, <3>4
    <3>5. CASE /\ wpc[w] = "work" /\ wi'[w] = wi[w] + 1
               /\ written' = [written EXCEPT ![j.req] = @ \cup {wi[w]}]
      <4>1. written'[Req(c)] = written[Req(c)] \cup {wi[w]}
        BY <1>0, <3>5
      <4> QED
        BY <1>0, <3>2, <3>5, <4>1
    <3> QED
      BY <2>2, <3>3, <3>4, <3>5, WorkerIndex
  <2> QED
    BY <2>1, <2>2
<1> QED
  BY <1>2, <1>3

LEMMA FillStep == ~ DirtyHeap /\ FillInv /\ [Next]_vars => FillInv'
<1> SUFFICES ASSUME ~ DirtyHeap, FillInv, [Next]_vars PROVE FillInv'
  OBVIOUS
<1>1. /\ TypeInv /\ HandInv /\ SliceDealtOnce /\ DealtInv /\ FlagInv
      /\ BlankInv /\ OneSliceInv
  BY DEF FillInv, FlagInv, QueueInv
<1>2. FlagInv' /\ BlankInv'
  BY <1>1, FlagInvStep, BlankStep
<1>3. ASSUME NEW c \in Conns, OneSlice(c)' PROVE SliceFilled(c)' /\ SliceRunning(c)'
  <2>1. CASE OneSlice(c) /\ Req(c)' = Req(c) /\ len'[c] = len[c]
    BY <1>1, <1>3, <2>1, SliceFilledStep, SliceRunningStep DEF OneSliceInv
  <2>2. CASE /\ flags'[Req(c)'] = {} /\ written'[Req(c)'] = {}
             /\ \A w \in Workers : \A j \in Outstanding(w)' : j.req # Req(c)'
    BY <2>2 DEF SliceFilled, SliceRunning
  <2> QED
    BY <1>1, <1>3, <2>1, <2>2, OneSliceBegins
<1> QED
  BY <1>2, <1>3 DEF FillInv, OneSliceInv

(* When malloc returns zeroed memory, an array that fits in one slice is   *)
(* answered completely: when the reply is written a worker has stored      *)
(* every entry of the output array, whatever other requests, connections   *)
(* and SIGINT do meanwhile.                                                *)
THEOREM OneSliceAnswered == ~ DirtyHeap => (Spec => []OneSliceReply)
<1> SUFFICES ASSUME ~ DirtyHeap PROVE Spec => []OneSliceReply
  OBVIOUS
<1>1. Init => FillInv
  <2>1. Init => BlankInv
    BY ServerAssumption DEF Init, BlankInv, Requests
  <2>2. Init => OneSliceInv
    BY DEF Init, OneSliceInv, OneSlice, Busy, Slicing
  <2> QED
    BY <2>1, <2>2, InitInv DEF FillInv
<1>2. FillInv /\ [Next]_vars => FillInv'
  BY FillStep
<1>3. ASSUME FillInv, NEW c \in Conns, cpc[c] = "reply", len[c] <= SliceSize
      PROVE  written[Req(c)] = 0 .. len[c] - 1
  <2>1. OneSlice(c)
    BY <1>3 DEF OneSlice, Busy
  <2>2. SliceFilled(c)
    BY <1>3, <2>1 DEF FillInv, OneSliceInv
  <2>3. CASE len[c] = 0
    BY <2>2, <2>3 DEF SliceFilled
  <2>4. CASE len[c] # 0
    <3>1. len[c] \in Nat \ {0}
      BY <1>3, <2>4, ServerAssumption DEF FillInv, FlagInv, QueueInv, TypeInv, TypeOK
    <3>2. NumBlocks(len[c]) \in 1 .. len[c]
      BY <3>1, NumBlocksBounds
    <3>3. 0 \in flags[Req(c)]
      BY <1>3, <3>1, <3>2 DEF FillInv, FlagInv, SeenInv
    <3> QED
      BY <2>2, <3>3 DEF SliceFilled
  <2> QED
    BY <2>3, <2>4
<1>4. FillInv => OneSliceReply
  BY <1>3 DEF OneSliceReply
<1> QED
  BY <1>1, <1>2, <1>4, PTL DEF Spec

-----------------------------------------------------------------------------
(* PrimeServer implements PrimeService when malloc returns zeroed memory.  *)

BusyMap == [c \in Conns |-> Busy(c)]

(* The blocks of the current request still to be finished. *)
Left(c) == IF Busy(c) THEN (0 .. NumBlocks(len[c]) - 1) \ flags[Req(c)] ELSE {}
LeftMap == [c \in Conns |-> Left(c)]

(* BusyMap after a step that changes Busy nowhere, or at one connection. *)
LEMMA BusySame ==
    ASSUME \A c \in Conns : Busy(c)' <=> Busy(c)
    PROVE  BusyMap' = BusyMap
<1>1. \A c \in Conns : Busy(c)' = Busy(c)
  BY DEF Busy
<1> QED
  BY <1>1 DEF BusyMap

LEMMA BusySet ==
    ASSUME NEW c \in Conns, Busy(c)', \A e \in Conns \ {c} : Busy(e)' <=> Busy(e)
    PROVE  BusyMap' = [BusyMap EXCEPT ![c] = TRUE]
<1>1. Busy(c)' = TRUE
  BY DEF Busy
<1>2. \A e \in Conns \ {c} : Busy(e)' = Busy(e)
  BY DEF Busy
<1> QED
  BY <1>1, <1>2 DEF BusyMap

LEMMA BusyReset ==
    ASSUME NEW c \in Conns, ~ Busy(c)', \A e \in Conns \ {c} : Busy(e)' <=> Busy(e)
    PROVE  BusyMap' = [BusyMap EXCEPT ![c] = FALSE]
<1>1. Busy(c)' = FALSE
  BY DEF Busy
<1>2. \A e \in Conns \ {c} : Busy(e)' = Busy(e)
  BY DEF Busy
<1> QED
  BY <1>1, <1>2 DEF BusyMap

(* Busy and Left of connection e after a step that leaves e and the flags  *)
(* of its request alone.                                                   *)
LEMMA LeftFrame ==
    ASSUME NEW e \in Conns, Busy(e)' <=> Busy(e),
           Busy(e) => /\ len'[e] = len[e] /\ reqno'[e] = reqno[e]
                      /\ flags'[Req(e)] = flags[Req(e)]
    PROVE  Left(e)' = Left(e)
<1>1. CASE ~ Busy(e)
  BY <1>1 DEF Left
<1>2. CASE Busy(e)
  BY <1>2 DEF Left, NumBlocks, Req
<1> QED
  BY <1>1, <1>2

(* A step that changes no connection's Busy and no flags changes nothing   *)
(* the client of PrimeService sees.                                        *)
LEMMA ServiceStutter ==
    ASSUME TypeInv, [Next]_vars, flags' = flags, \A c \in Conns : Busy(c)' <=> Busy(c)
    PROVE  UNCHANGED <<BusyMap, LeftMap>>
<1>1. ASSUME NEW c \in Conns PROVE Left(c)' = Left(c)
  <2>1. Busy(c) => len'[c] = len[c] /\ reqno'[c] = reqno[c]
    BY ServingFrame DEF Busy, Serving
  <2> QED
    BY <2>1, LeftFrame
<1>2. LeftMap' = LeftMap
  BY <1>1 DEF LeftMap
<1> QED
  BY <1>2, BusySame

(* Reading the array submits the request; all its blocks are still to do.  *)
LEMMA SubmitStep ==
    ASSUME TypeInv, ~ DirtyHeap, [Next]_vars, NEW c \in Conns, ReadArray(c), ~ shutting_down
    PROVE  Service!Submit(c)
<1>1. /\ cpc[c] = "read_arr" /\ cpc' = [cpc EXCEPT ![c] = "lock"]
      /\ cpc \in [Conns -> ConnStates]
      /\ reqno' = reqno /\ len' = len /\ len[c] \in 1 .. MaxLen
      /\ flags \in [Requests -> SUBSET Positions]
      /\ flags' = [flags EXCEPT ![Req(c)] = {}]
      /\ Req(c) \in Requests
  <2>1. /\ cpc[c] = "read_arr" /\ cpc' = [cpc EXCEPT ![c] = "lock"]
        /\ cpc \in [Conns -> ConnStates]
        /\ reqno' = reqno /\ len' = len /\ len[c] \in 1 .. MaxLen
    BY ServerAssumption DEF ReadArray, GoOn, TypeInv, TypeOK
  <2>2. flags \in [Requests -> SUBSET Positions]
    BY DEF TypeInv, TypeOK
  <2>3. flags' = [flags EXCEPT ![Req(c)] = {}]
    BY DEF ReadArray, GarbageFlags
  <2>4. Req(c) \in Requests
    BY <2>1, ReqType
  <2> QED
    BY <2>1, <2>2, <2>3, <2>4
<1>2. ~ Busy(c) /\ Busy(c)' /\ \A e \in Conns \ {c} : Busy(e)' <=> Busy(e)
  BY <1>1 DEF Busy, Slicing
<1>3. Left(c)' = 0 .. NumBlocks(len[c]) - 1
  BY <1>1, <1>2 DEF Left, Req, NumBlocks
<1>4. \A e \in Conns \ {c} : Left(e)' = Left(e)
  <2>1. \A e \in Conns \ {c} : flags'[Req(e)] = flags[Req(e)]
    BY <1>1 DEF Req
  <2> QED
    BY <1>1, <1>2, <2>1, LeftFrame
<1>5. NumBlocks(len[c]) \in 1 .. MaxLen
  <2>1. len[c] \in Nat \ {0} /\ MaxLen \in Nat
    BY <1>1, ServerAssumption
  <2>2. NumBlocks(len[c]) \in 1 .. len[c]
    BY <2>1, NumBlocksBounds
  <2> QED
    BY <1>1, <2>1, <2>2
<1>6. BusyMap' = [BusyMap EXCEPT ![c] = TRUE]
  BY <1>2, BusySet
<1>7. LeftMap' = [LeftMap EXCEPT ![c] = 0 .. NumBlocks(len[c]) - 1]
  BY <1>3, <1>4 DEF LeftMap
<1> QED
  BY <1>2, <1>5, <1>6, <1>7 DEF Service!Submit, BusyMap, LeftMap, Left

(* Raising a flag finishes a block of the request being served. *)
LEMMA FinishStep ==
    ASSUME ZeroInv, [Next]_vars, NEW w \in Workers, SetFlag(w)
    PROVE  \E c \in Conns : Service!FinishBlock(c)
<1>0. TypeInv /\ HandInv /\ SliceDealtOnce /\ CleanInv /\ NoOrphanJob
  BY DEF ZeroInv, FlagInv, QueueInv
<1>1. PICK d \in Outstanding(w) :
         d \in Jobs /\ flags' = [flags EXCEPT ![d.req] = @ \cup {d.flag_pos}]
  BY <1>0, SetFlagOutstanding
<1>2. PICK c \in Conns : d.req = Req(c) /\ cpc[c] \in Serving
  BY <1>0 DEF NoOrphanJob, Serving
<1>3. /\ UNCHANGED <<cpc, len, reqno>>
      /\ flags \in [Requests -> SUBSET Positions] /\ d.req \in Requests
  BY <1>0, <1>1 DEF SetFlag, connVars, TypeInv, TypeOK, Jobs
<1>4. \A e \in Conns : Busy(e)' <=> Busy(e)
  BY <1>3 DEF Busy
<1>5. d.flag_pos \in Nat /\ d.flag_pos \notin flags[Req(c)] /\ d.flag_pos < NumBlocks(len[c])
  <2>1. d.flag_pos \in Nat /\ d.flag_pos \notin flags[Req(c)] /\ d.flag_pos < Dealt(c)
    BY <1>0, <1>2, OutstandingJobs DEF CleanInv
  <2>2. Dealt(c) <= NumBlocks(len[c])
    <3>1. CASE cpc[c] = "wait"
      BY <1>0, <3>1, DealtInt DEF Dealt
    <3>2. CASE cpc[c] \in Slicing
      <4>1. /\ i[c] \in Nat /\ len[c] - 1 \in Nat /\ i[c] <= len[c] - 1
            /\ SliceSize \in Nat \ {0}
        BY <1>0, <3>2, ServerAssumption DEF TypeInv, TypeOK, ConnInv
      <4>2. i[c] \div SliceSize <= (len[c] - 1) \div SliceSize
        BY <4>1, DivMono
      <4>3. i[c] \div SliceSize \in Int /\ (len[c] - 1) \div SliceSize \in Int
        BY <4>1
      <4> QED
        BY <3>2, <4>2, <4>3 DEF Dealt, NumBlocks, Slicing
    <3> QED
      BY <1>2, <3>1, <3>2 DEF Serving
  <2>3. Dealt(c) \in Int /\ NumBlocks(len[c]) \in Int
    <3>1. len[c] \in Nat /\ SliceSize \in Nat \ {0}
      BY <1>0, ServerAssumption DEF TypeInv, TypeOK
    <3>2. (len[c] - 1) \div SliceSize \in Int
      BY <3>1
    <3> QED
      BY <1>0, <3>2, DealtInt DEF NumBlocks
  <2> QED
    BY <2>1, <2>2, <2>3
<1>6. \A e \in Conns \ {c} : Left(e)' = Left(e)
  <2>1. \A e \in Conns \ {c} : flags'[Req(e)] = flags[Req(e)]
    BY <1>1, <1>2, <1>3 DEF Req
  <2> QED
    BY <1>3, <1>4, <2>1, LeftFrame
<1>7. Left(c)' = Left(c) \ {d.flag_pos} /\ Busy(c)
  <2>1. Busy(c) /\ Busy(c)' /\ Req(c)' = Req(c) /\ NumBlocks(len[c])' = NumBlocks(len[c])
    BY <1>2, <1>3, <1>4 DEF Busy, Serving, Req, NumBlocks
  <2>2. flags'[Req(c)] = flags[Req(c)] \cup {d.flag_pos}
    BY <1>1, <1>2, <1>3
  <2> QED
    BY <2>1, <2>2 DEF Left
<1>8. d.flag_pos \in Left(c)
  <2>1. NumBlocks(len[c]) \in Int
    <3>1. len[c] \in Nat /\ SliceSize \in Nat \ {0}
      BY <1>0, ServerAssumption DEF TypeInv, TypeOK
    <3>2. (len[c] - 1) \div SliceSize \in Int
      BY <3>1
    <3> QED
      BY <3>2 DEF NumBlocks
  <2> QED
    BY <1>5, <1>7, <2>1 DEF Left
<1>9. LeftMap' = [LeftMap EXCEPT ![c] = @ \ {d.flag_pos}]
  BY <1>6, <1>7 DEF LeftMap
<1>10. BusyMap' = BusyMap
  BY <1>4, BusySame
<1> QED
  BY <1>7, <1>8, <1>9, <1>10 DEF Service!FinishBlock, BusyMap, LeftMap, Left

(* A connection leaves "reply", by either way, with nothing left to do. *)
LEMMA LeaveStep ==
    ASSUME TypeInv, SeenInv, [Next]_vars, NEW c \in Conns, Reply(c) \/ IoFails(c),
           cpc[c] = "reply"
    PROVE  Service!Leave(c)
<1>1. /\ cpc'[c] \in {"closed", "read_len"}
      /\ \A e \in Conns \ {c} : cpc'[e] = cpc[e]
      /\ UNCHANGED <<len, reqno, flags>>
  BY DEF Reply, IoFails, GoOn, TypeInv, TypeOK, memVars
<1>2. Busy(c) /\ ~ Busy(c)' /\ \A e \in Conns \ {c} : Busy(e)' <=> Busy(e)
  BY <1>1 DEF Busy, Slicing
<1>3. Left(c) = {} /\ Left(c)' = {}
  <2>1. \A k \in 0 .. NumBlocks(len[c]) - 1 : k \in flags[Req(c)]
    BY DEF SeenInv
  <2> QED
    BY <1>2, <2>1 DEF Left
<1>4. \A e \in Conns \ {c} : Left(e)' = Left(e)
  BY <1>1, <1>2, LeftFrame
<1>5. BusyMap' = [BusyMap EXCEPT ![c] = FALSE]
  BY <1>2, BusyReset
<1>6. LeftMap' = LeftMap
  BY <1>3, <1>4 DEF LeftMap
<1> QED
  BY <1>2, <1>3, <1>5, <1>6 DEF Service!Leave, BusyMap, LeftMap, Left

(* Every step of the server is a step of the service, or none. *)
LEMMA ServiceStep ==
    ASSUME ~ DirtyHeap, ZeroInv, [Next]_vars
    PROVE  Service!Next \/ UNCHANGED <<BusyMap, LeftMap>>
<1>0. TypeInv /\ SeenInv
  BY DEF ZeroInv, FlagInv, QueueInv
<1> USE DEF TypeInv, TypeOK
<1>1. ASSUME NEW w \in Workers, SetFlag(w) PROVE Service!Next
  BY <1>1, FinishStep DEF Service!Next
<1>2. ASSUME NEW c \in Conns, ReadArray(c)
      PROVE  Service!Next \/ UNCHANGED <<BusyMap, LeftMap>>
  <2>1. CASE ~ shutting_down
    BY <1>0, <1>2, <2>1, SubmitStep DEF Service!Next
  <2>2. CASE shutting_down
    <3>1. /\ cpc[c] = "read_arr" /\ cpc'[c] = "closed" /\ len' = len /\ reqno' = reqno
          /\ \A e \in Conns \ {c} : cpc'[e] = cpc[e]
          /\ flags \in [Requests -> SUBSET Positions]
          /\ \A e \in Conns \ {c} : flags'[Req(e)] = flags[Req(e)]
      BY <1>0, <1>2, <2>2 DEF ReadArray, GoOn, Req
    <3>2. \A e \in Conns : Busy(e)' <=> Busy(e)
      BY <3>1 DEF Busy, Slicing
    <3>3. ~ Busy(c)
      BY <3>1 DEF Busy, Slicing
    <3>4. \A e \in Conns : Left(e)' = Left(e)
      BY <3>1, <3>2, <3>3, LeftFrame
    <3>5. LeftMap' = LeftMap
      BY <3>4 DEF LeftMap
    <3> QED
      BY <3>2, <3>5, BusySame
  <2> QED
    BY <2>1, <2>2
<1>3. ASSUME NEW c \in Conns, Reply(c) \/ IoFails(c), cpc[c] = "reply" PROVE Service!Next
  BY <1>0, <1>3, LeaveStep DEF Service!Next
<1>4. ASSUME NEW c \in Conns,
             \/ Accept(c) \/ StartLoop(c) \/ ReadLen(c) \/ WriteAck(c) \/ EnqueueLock(c)
             \/ EnqueueAdd(c) \/ EnqueueUnlock(c) \/ SeeFlag(c)
             \/ (IoFails(c) /\ cpc[c] # "reply")
      PROVE  UNCHANGED <<BusyMap, LeftMap>>
  <2>1. flags' = flags /\ \A e \in Conns \ {c} : cpc'[e] = cpc[e]
    BY <1>0, <1>4 DEF Accept, StartLoop, ReadLen, WriteAck, EnqueueLock, EnqueueAdd,
                      EnqueueUnlock, SeeFlag, IoFails, GoOn, memVars
  <2>2. Busy(c)' <=> Busy(c)
    BY <1>0, <1>4 DEF Accept, StartLoop, ReadLen, WriteAck, EnqueueLock, EnqueueAdd,
                      EnqueueUnlock, SeeFlag, IoFails, GoOn, Busy, Slicing
  <2>3. \A e \in Conns : Busy(e)' <=> Busy(e)
    BY <2>1, <2>2 DEF Busy
  <2> QED
    BY <1>0, <2>1, <2>3, ServiceStutter
<1>5. CASE \/ UNCHANGED vars \/ Sigint
           \/ \E w \in Workers : WorkerLock(w) \/ WorkerPop(w) \/ WorkerUnlock(w) \/ Compute(w)
  <2>1. flags' = flags /\ cpc' = cpc
    BY <1>5 DEF vars, memVars, connVars, Sigint, WorkerLock, WorkerPop, WorkerUnlock, Compute
  <2> QED
    BY <1>0, <2>1, ServiceStutter DEF Busy
<1>6. CASE \E c \in Conns : Reply(c) /\ cpc[c] # "reply"
  BY <1>6 DEF Reply
<1> QED
  BY <1>1, <1>2, <1>3, <1>4, <1>5, <1>6 DEF Next, ConnNext, WorkerNext

(* Seen by its clients, the server is PrimeService: requests are cut into  *)
(* blocks that are finished one at a time, each once, and a connection     *)
(* leaves a request only when all its blocks are finished.                 *)
THEOREM ImplementsService == ~ DirtyHeap => (Spec => ServiceSpec)
<1> SUFFICES ASSUME ~ DirtyHeap PROVE Spec => Service!Spec
  BY DEF ServiceSpec
<1>1. Init => ZeroInv
  BY InitInv DEF ZeroInv
<1>2. ZeroInv /\ [Next]_vars => ZeroInv'
  BY FlagInvStep, CleanStep DEF ZeroInv
<1>3. Init => Service!Init
  <2> SUFFICES ASSUME Init PROVE Service!Init
    OBVIOUS
  <2>1. \A c \in Conns : Busy(c) = FALSE
    BY DEF Init, Busy, Slicing
  <2>2. [c \in Conns |-> Busy(c)] = [c \in Conns |-> FALSE]
    BY <2>1
  <2>3. LeftMap = [c \in Conns |-> {}]
    BY <2>1 DEF LeftMap, Left
  <2> QED
    BY <2>2, <2>3 DEF Service!Init, LeftMap, Left
<1>4. ZeroInv /\ [Next]_vars => [Service!Next]_(Service!vars)
  BY ServiceStep DEF Service!vars, BusyMap, LeftMap, Left
<1> QED
  BY <1>1, <1>2, <1>3, <1>4, PTL DEF Spec, Service!Spec

-----------------------------------------------------------------------------
(* The process: the main thread composed with the threads.                 *)

(* A step of the process is one of the threads', or leaves them alone.     *)
LEMMA MainStepMaps == [MainNext]_mainVars => [Next]_vars
BY DEF MainNext, mainVars, MainLoop, MainCall, MainAccept, MainError, MainExit, MainSigint,
       ThreadStep, Next

(* The process implements its threads: what the theorems above say of the  *)
(* threads by themselves holds of the process, where main accepts, handles *)
(* SIGINT and may end them all.                                            *)
THEOREM ProcessImplementsThreads == MainSpec => Spec
BY MainStepMaps, PTL DEF MainSpec, MainInit, Spec

(* The values of the variables of the process; the flag is up exactly when *)
(* a SIGINT has arrived.                                                   *)
THEOREM MainTypeCorrect == MainSpec => []MainTypeOK
<1> DEFINE MainPart == /\ mpc \in {"loop", "call", "blocked", "close", "exited", "failed"}
                       /\ sigints \in 0 .. MaxSigints
                       /\ shutting_down <=> sigints > 0
<1>1. MainInit => MainPart
  BY SigintsAssumption DEF MainInit, Init
<1>2. MainPart /\ [MainNext]_mainVars => MainPart'
  <2> SUFFICES ASSUME MainPart, [MainNext]_mainVars PROVE MainPart'
    OBVIOUS
  <2>1. CASE MainSigint
    BY <2>1, SigintsAssumption DEF MainSigint, Sigint
  <2>2. CASE MainAccept
    BY <2>2 DEF MainAccept, Accept
  <2>3. CASE ThreadStep
    <3>1. UNCHANGED shutting_down
      BY <2>3 DEF ThreadStep, ConnNext, WorkerNext, StartLoop, IoFails, ReadLen, WriteAck,
                  ReadArray, EnqueueLock, EnqueueAdd, EnqueueUnlock, SeeFlag, Reply,
                  WorkerLock, WorkerPop, WorkerUnlock, Compute, SetFlag
    <3> QED
      BY <2>3, <3>1 DEF ThreadStep
  <2>4. CASE UNCHANGED mainVars \/ MainLoop \/ MainCall \/ MainError \/ MainExit
    BY <2>4 DEF mainVars, vars, MainLoop, MainCall, MainError, MainExit
  <2> QED
    BY <2>1, <2>2, <2>3, <2>4 DEF MainNext
<1>3. TypeOK /\ MainPart => MainTypeOK
  BY DEF MainTypeOK
<1> QED
  BY <1>1, <1>2, <1>3, ProcessImplementsThreads, TypeCorrect, PTL DEF MainSpec

(* What a step of the process does to the connections and the flag.        *)
LEMMA ConnectionsStep ==
    ASSUME TypeOK, [MainNext]_mainVars
    PROVE  /\ shutting_down => shutting_down'
           /\ \/ /\ Accepted' = Accepted
                 /\ shutting_down /\ mpc \notin {"call", "blocked"}
                       => mpc' \notin {"call", "blocked"}
              \/ /\ mpc = "blocked" /\ mpc' = "loop"
                 /\ \E c \in Conns : Accepted' = Accepted \cup {c}
<1>0. cpc \in [Conns -> ConnStates]
  BY DEF TypeOK
<1>1. CASE MainSigint
  BY <1>1 DEF Accepted, MainSigint, Sigint, connVars, Alive
<1>2. CASE MainAccept
  BY <1>0, <1>2 DEF Accepted, MainAccept, Accept
<1>3. CASE ThreadStep
  <2>1. UNCHANGED <<shutting_down, mpc>>
    BY <1>3 DEF ThreadStep, ConnNext, WorkerNext, StartLoop, IoFails, ReadLen, WriteAck,
                ReadArray, EnqueueLock, EnqueueAdd, EnqueueUnlock, SeeFlag, Reply,
                WorkerLock, WorkerPop, WorkerUnlock, Compute, SetFlag
  <2>2. ASSUME NEW c \in Conns, ConnNext(c) PROVE Accepted' = Accepted
    <3>1. /\ cpc[c] # "none" /\ cpc'[c] # "none"
          /\ \A e \in Conns : e # c => cpc'[e] = cpc[e]
      BY <1>0, <2>2 DEF ConnNext, StartLoop, IoFails, ReadLen, WriteAck, ReadArray, EnqueueLock,
                  EnqueueAdd, EnqueueUnlock, SeeFlag, Reply, GoOn
    <3> QED
      BY <3>1 DEF Accepted
  <2>3. ASSUME NEW w \in Workers, WorkerNext(w) PROVE cpc' = cpc
    BY <2>3 DEF WorkerNext, WorkerLock, WorkerPop, WorkerUnlock, Compute, SetFlag, connVars
  <2> QED
    BY <1>3, <2>1, <2>2, <2>3 DEF ThreadStep, Accepted
<1>4. CASE UNCHANGED mainVars \/ MainLoop \/ MainCall \/ MainError \/ MainExit
  BY <1>4 DEF Accepted, mainVars, vars, connVars, MainLoop, MainCall, MainError, MainExit
<1> QED
  BY <1>1, <1>2, <1>3, <1>4 DEF MainNext

(* After SIGINT the server takes on at most one more connection.  Once it  *)
(* has, main is past its accept and finds the flag at the head of its loop *)
(* before it could call accept again.                                      *)
THEOREM ShutdownAcceptsOne == MainSpec => AtMostOneMore
<1>1. ASSUME NEW S \in SUBSET Conns
      PROVE  MainSpec => [](shutting_down /\ Accepted = S
                              => [](Cardinality(Accepted \ S) <= 1))
  <2> DEFINE Down == shutting_down /\ Accepted = S
             Few  == Cardinality(Accepted \ S) <= 1
             J    == /\ shutting_down
                     /\ \/ Accepted = S
                        \/ /\ \E c \in Conns : Accepted = S \cup {c}
                           /\ mpc \notin {"call", "blocked"}
  <2>1. Down => J
    OBVIOUS
  <2>2. J => Few
    <3> SUFFICES ASSUME J PROVE Cardinality(Accepted \ S) <= 1
      OBVIOUS
    <3>1. CASE Accepted \ S = {}
      BY <3>1, FS_EmptySet
    <3>2. ASSUME NEW c, Accepted \ S = {c} PROVE Cardinality(Accepted \ S) <= 1
      BY <3>2, FS_Singleton
    <3>3. Accepted \ S = {} \/ \E c : Accepted \ S = {c}
      OBVIOUS
    <3> QED
      BY <3>1, <3>2, <3>3
  <2>3. TypeOK /\ J /\ [MainNext]_mainVars => J'
    BY ConnectionsStep
  <2> HIDE DEF J, Few, Down
  <2>4. MainSpec => [](Down => []Few)
    BY <2>1, <2>2, <2>3, ProcessImplementsThreads, TypeCorrect, PTL DEF MainSpec
  <2> QED
    BY <2>4 DEF Down, Few
<1> QED
  BY <1>1 DEF AtMostOneMore
=============================================================================
