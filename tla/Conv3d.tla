------------------------------- MODULE Conv3d -------------------------------
(***************************************************************************)
(* The 3D convolution of proj2 (main.c): main reads the arrays, convolves  *)
(* them by one thread (cpu_conv3d) or by DIV threads that each take some   *)
(* planes (thread_conv3d), and compares the output with a sample.  An      *)
(* output element is a sum of products, computed eight lanes at a time;    *)
(* the lanes behind the last kernel element are not initialised.           *)
(*                                                                         *)
(* The convolution is linear in the input, so the inputs are the arrays    *)
(* with a single 1, at the address hot.  All the numbers are small         *)
(* integers, which floats hold exactly.                                    *)
(***************************************************************************)
EXTENDS Integers

CONSTANTS Sizes,    \* the <<depths, rows, columns>> of the input
          Widths,   \* kernel widths
          MaxDiv    \* bound on the number of threads

ASSUME Conv3dAssumption ==
    /\ Sizes \subseteq (Nat \ {0}) \X (Nat \ {0}) \X (Nat \ {0})
    /\ Widths \subseteq Nat \ {0}
    /\ MaxDiv \in Nat

VARIABLES
    Depths, Rows, Columns, kernelwidth, DIV, hot,
    outputArr,
    heap,         \* blocks allocated and not freed
    mpc, i,       \* main: program counter, loop index
    from, to,     \* main: planes of the thread being created
    pc,           \* worker: program counter
    at, z_to,     \* worker: address of its next output, end of its planes
    tail,         \* what the lanes behind the last element add to a sum
    verdict       \* what verification printed

sizes == <<Depths, Rows, Columns, kernelwidth, DIV, hot, tail>>
vars  == <<sizes, outputArr, heap, mpc, i, from, to, pc, at, z_to, verdict>>

Cpu    == -1                        \* main itself, in cpu_conv3d
Worker == {Cpu} \cup 0 .. MaxDiv - 1
Plane  == Rows * Columns
Address == 0 .. Depths * Plane - 1

(* Outputs that are not a number of the convolution. *)
Unwritten == -1
Junk      == -2
NaN       == -3

Arg(t)  == <<"arg", t>>
Temp(t) == <<"temparr", t>>
vectors == <<"kernelVectors", Cpu>>
threads == <<"threads", Cpu>>

Init ==
    /\ \E s \in Sizes : Depths = s[1] /\ Rows = s[2] /\ Columns = s[3]
    /\ kernelwidth \in Widths
    /\ DIV \in 0 .. MaxDiv
    /\ hot \in Address
    /\ outputArr = [a \in Address |-> Unwritten]
    /\ heap = {}
    /\ mpc = "start" /\ i = 0 /\ from = 0 /\ to = 0
    /\ pc = [t \in Worker |-> "none"]
    /\ at = [t \in Worker |-> 0] /\ z_to = [t \in Worker |-> 0]
    /\ tail \in {"clean", "junk", "nan"}
    /\ verdict = "none"

(***************************************************************************)
(* One output element.                                                     *)
(***************************************************************************)
total_kernel_size == kernelwidth * kernelwidth * kernelwidth
tempiter == (total_kernel_size \div 8) + (IF total_kernel_size % 8 # 0 THEN 1 ELSE 0)
tempsize == tempiter * 8
pad      == (kernelwidth - 1) \div 2

inputArr(a)  == IF a = hot THEN 1 ELSE 0
kernelArr(k) == k + 1

(* Mutant: the columns are not checked, and the rows run into each other. *)
InsideRowsOnly(z, y, x) == 0 <= y /\ y < Rows /\ 0 <= z /\ z < Depths

Inside(z, y, x) ==
    0 <= x /\ x < Columns /\ 0 <= y /\ y < Rows /\ 0 <= z /\ z < Depths

(* temparr[k] for the output at a: an input element, or the padding. *)
temparr(a, k) ==
    LET now_z == (a \div Plane) - pad + (k \div (kernelwidth * kernelwidth))
        now_y == ((a % Plane) \div Columns) - pad + ((k \div kernelwidth) % kernelwidth)
        now_x == (a % Columns) - pad + (k % kernelwidth)
    IN  IF Inside(now_z, now_y, now_x)
        THEN inputArr(now_z * Plane + now_y * Columns + now_x) ELSE 0

(* The products added one after the other. *)
Products(a) ==
    LET sum[n \in 0 .. total_kernel_size] ==
            IF n = 0 THEN 0 ELSE sum[n - 1] + kernelArr(n - 1) * temparr(a, n - 1)
    IN  sum[total_kernel_size]

(* The sum of all lanes, the tail included when there is one. *)
Sum(a) ==
    CASE tempsize = total_kernel_size \/ tail = "clean" -> Products(a)
      [] tempsize # total_kernel_size /\ tail = "junk" -> Junk
      [] tempsize # total_kernel_size /\ tail = "nan"  -> NaN

(***************************************************************************)
(* The loops over the outputs, of cpu_conv3d and conv3d_runnable.          *)
(***************************************************************************)
Convolve(t) ==
    /\ pc[t] = "convolve" /\ at[t] < z_to[t] * Plane
    /\ outputArr' = [outputArr EXCEPT ![at[t]] = Sum(at[t])]
    /\ at' = [at EXCEPT ![t] = @ + 1]
    /\ UNCHANGED <<sizes, heap, mpc, i, from, to, pc, z_to, verdict>>

ConvolveEnds(t) ==
    /\ pc[t] = "convolve" /\ at[t] >= z_to[t] * Plane
    /\ heap' = heap \ (IF t = Cpu THEN {vectors, Temp(t)} ELSE {Temp(t)})
    /\ pc' = [pc EXCEPT ![t] = "ended"]
    /\ UNCHANGED <<sizes, outputArr, mpc, i, from, to, at, z_to, verdict>>

(* conv3d_runnable copies its argument and frees it. *)
RunnableStart(t) ==
    /\ pc[t] = "created"
    /\ heap' = (heap \ {Arg(t)}) \cup {Temp(t)}
    /\ pc' = [pc EXCEPT ![t] = "convolve"]
    /\ UNCHANGED <<sizes, outputArr, mpc, i, from, to, at, z_to, verdict>>

(***************************************************************************)
(* main                                                                    *)
(***************************************************************************)
div_width == Depths \div DIV

(* cpu_conv3d. *)
ChooseCpu ==
    /\ mpc = "start" /\ DIV = 1
    /\ heap' = heap \cup {vectors, Temp(Cpu)}
    /\ pc' = [pc EXCEPT ![Cpu] = "convolve"]
    /\ z_to' = [z_to EXCEPT ![Cpu] = Depths]
    /\ mpc' = "cpu"
    /\ UNCHANGED <<sizes, outputArr, i, from, to, at, verdict>>

CpuReturns ==
    /\ mpc = "cpu" /\ pc[Cpu] = "ended"
    /\ mpc' = "verify"
    /\ UNCHANGED <<sizes, outputArr, heap, i, from, to, pc, at, z_to, verdict>>

(* thread_conv3d. *)
ChooseThreads ==
    /\ mpc = "start" /\ DIV > 1
    /\ heap' = heap \cup {vectors, threads}
    /\ from' = -div_width /\ to' = 0
    /\ mpc' = "create"
    /\ UNCHANGED <<sizes, outputArr, i, pc, at, z_to, verdict>>

(* "thread number error!": the output stays as malloc gave it. *)
ChooseNothing ==
    /\ mpc = "start" /\ DIV < 1
    /\ mpc' = "verify"
    /\ UNCHANGED <<sizes, outputArr, heap, i, from, to, pc, at, z_to, verdict>>

(* from forgets what the threads before got in addition, so a plane may    *)
(* belong to two threads.                                                  *)
NextTo(k, last) ==
    IF k + div_width > Depths THEN Depths
    ELSE last + div_width + (IF k < Depths % DIV THEN 1 ELSE 0)

Create ==
    /\ mpc = "create" /\ i < DIV
    /\ from' = from + div_width
    /\ to' = NextTo(i, to)
    /\ heap' = heap \cup {Arg(i)}
    /\ pc' = [pc EXCEPT ![i] = "created"]
    /\ at' = [at EXCEPT ![i] = (from + div_width) * Plane]
    /\ z_to' = [z_to EXCEPT ![i] = NextTo(i, to)]
    /\ i' = i + 1
    /\ UNCHANGED <<sizes, outputArr, mpc, verdict>>

AllCreated ==
    /\ mpc = "create" /\ i = DIV
    /\ mpc' = "join" /\ i' = 0
    /\ UNCHANGED <<sizes, outputArr, heap, from, to, pc, at, z_to, verdict>>

(* Mutant: the join does not wait. *)
JoinedAlways(t) == TRUE

Joined(t) == pc[t] = "ended"

Join ==
    /\ mpc = "join" /\ i < DIV /\ Joined(i)
    /\ i' = i + 1
    /\ UNCHANGED <<sizes, outputArr, heap, mpc, from, to, pc, at, z_to, verdict>>

FreeVectors ==
    /\ mpc = "join" /\ i = DIV
    /\ heap' = heap \ {threads, vectors}
    /\ mpc' = "verify" /\ i' = 0
    /\ UNCHANGED <<sizes, outputArr, from, to, pc, at, z_to, verdict>>

(***************************************************************************)
(* The reference: the sample file holds it.                                *)
(***************************************************************************)
Sample(a) ==
    LET dz == (hot \div Plane) - (a \div Plane) + pad
        dy == ((hot % Plane) \div Columns) - ((a % Plane) \div Columns) + pad
        dx == (hot % Columns) - (a % Columns) + pad
        window == 0 .. kernelwidth - 1
    IN  IF dz \in window /\ dy \in window /\ dx \in window
        THEN kernelArr((dz * kernelwidth + dy) * kernelwidth + dx) ELSE 0

AllCompared(idx) == idx = Depths * Plane

(* verification: no comparison with a NaN is true, so it goes unnoticed. *)
Close(idx) == outputArr[idx] \in {Sample(idx), NaN}

Verify ==
    /\ mpc = "verify"
    /\ IF AllCompared(i) THEN verdict' = "equal" /\ mpc' = "done" /\ i' = i
       ELSE IF Close(i) THEN UNCHANGED <<verdict, mpc>> /\ i' = i + 1
       ELSE verdict' = "not equal" /\ mpc' = "done" /\ i' = i
    /\ UNCHANGED <<sizes, outputArr, heap, from, to, pc, at, z_to>>

(* fscanf finds no number in the sample file: "Error while verification!". *)
VerifyFails ==
    /\ mpc = "verify" /\ ~AllCompared(i)
    /\ verdict' = "error" /\ mpc' = "done"
    /\ UNCHANGED <<sizes, outputArr, heap, i, from, to, pc, at, z_to>>

Main == \/ ChooseCpu \/ CpuReturns \/ ChooseThreads \/ ChooseNothing
        \/ Create \/ AllCreated \/ Join \/ FreeVectors \/ Verify
        \/ VerifyFails
Work(t) == RunnableStart(t) \/ Convolve(t) \/ ConvolveEnds(t)
Next == Main \/ \E t \in Worker : Work(t)

Spec == Init /\ [][Next]_vars

(***************************************************************************)
(* Properties                                                              *)
(***************************************************************************)
TypeOK ==
    /\ outputArr \in [Address -> Nat \cup {Unwritten, Junk, NaN}]
    /\ heap \subseteq {vectors, threads} \cup {Arg(t) : t \in Worker} \cup {Temp(t) : t \in Worker}
    /\ mpc \in {"start", "cpu", "create", "join", "verify", "done"}
    /\ i \in Nat /\ from \in Int /\ to \in 0 .. Depths
    /\ pc \in [Worker -> {"none", "created", "convolve", "ended"}]
    /\ at \in [Worker -> Nat] /\ z_to \in [Worker -> 0 .. Depths]
    /\ tail \in {"clean", "junk", "nan"}
    /\ verdict \in {"none", "equal", "not equal", "error"}

(* When the memory behind the kernel is clean, whatever is in the output   *)
(* is the convolution's element, although two threads may write one plane, *)
(* and in the end all of it is there, however the planes were divided; the *)
(* verification then says so.                                              *)
Convolves ==
    tail = "clean" =>
        /\ \A a \in Address : outputArr[a] \in {Unwritten, Sample(a)}
        /\ mpc \in {"verify", "done"} /\ DIV >= 1 =>
              \A a \in Address : outputArr[a] = Sample(a)
        /\ verdict = "not equal" => DIV < 1

(* What a running thread uses is allocated: the kernel's vectors outlive   *)
(* every thread, and a thread's argument lives until it has read it.  At   *)
(* the end everything is freed.                                            *)
HeapHeld ==
    /\ \A t \in Worker :
          /\ pc[t] = "created" => {vectors, Arg(t)} \subseteq heap
          /\ pc[t] = "convolve" => {vectors, Temp(t)} \subseteq heap
    /\ mpc \in {"verify", "done"} => heap = {}

(***************************************************************************)
(* The inductive invariant behind the two                                  *)
(***************************************************************************)
Team == 0 .. MaxDiv - 1

(* The threads created are the first ones; joined ones have ended. *)
Begun == IF mpc = "create" THEN i ELSE DIV

ControlInv ==
    /\ {Depths, Rows, Columns, kernelwidth} \subseteq Nat \ {0}
    /\ DIV \in 0 .. MaxDiv /\ hot \in Address
    /\ mpc \in {"start", "cpu", "create", "join", "verify", "done"} /\ i \in Nat
    /\ pc \in [Worker -> {"none", "created", "convolve", "ended"}]
    /\ mpc = "start" => \A t \in Worker : pc[t] = "none"
    /\ mpc \in {"start", "cpu"} => i = 0
    /\ mpc = "cpu" => /\ DIV = 1 /\ pc[Cpu] \in {"convolve", "ended"}
                      /\ \A t \in Team : pc[t] = "none"
    /\ mpc \in {"create", "join"} =>
          /\ DIV > 1 /\ i <= DIV /\ pc[Cpu] = "none"
          /\ \A t \in Team : pc[t] = "none" <=> t >= Begun
    /\ mpc = "join" => \A t \in 0 .. i - 1 : pc[t] = "ended"
    /\ mpc \in {"verify", "done"} => \A t \in Worker : pc[t] \in {"none", "ended"}
    /\ mpc = "verify" => i <= Depths * Plane

(* The heap holds the vectors, main's thread ids and each thread's block. *)
Blocks ==
    (IF mpc \in {"create", "join"} THEN {vectors, threads}
     ELSE IF pc[Cpu] = "convolve" THEN {vectors} ELSE {})
    \cup {Arg(t) : t \in {u \in Worker : pc[u] = "created"}}
    \cup {Temp(t) : t \in {u \in Worker : pc[u] = "convolve"}}

(* Where the planes of a thread begin.  They reach at least to where the   *)
(* next one's begin, and those of the last thread to the end.              *)
First(t) == IF t = Cpu THEN 0 ELSE t * div_width

PlanesInv ==
    /\ at \in [Worker -> Nat] /\ z_to \in [Worker -> 0 .. Depths]
    /\ mpc = "create" =>
          /\ from = (i - 1) * div_width
          /\ \/ to = i * div_width + (IF i < Depths % DIV THEN i ELSE Depths % DIV)
             \/ i > 0 /\ i - 1 + div_width > Depths /\ to = Depths
    /\ pc[Cpu] = "none" => at[Cpu] = 0
    /\ pc[Cpu] # "none" => z_to[Cpu] = Depths
    /\ \A t \in Team : pc[t] # "none" =>
          /\ DIV > 1 /\ t < DIV /\ (t + 1) * div_width <= z_to[t]
          /\ t = DIV - 1 => z_to[t] = Depths

(* What has been written is the sum, a thread has written its outputs up   *)
(* to the next one, and main has joined threads that had written theirs.   *)
Written(first, next) == \A a \in Address : first <= a /\ a < next => outputArr[a] = Sum(a)

OutputInv ==
    /\ DOMAIN outputArr = Address
    /\ \A a \in Address : outputArr[a] \in {Unwritten, Sum(a)}
    /\ \A t \in Worker : pc[t] # "none" =>
          /\ First(t) * Plane <= at[t] /\ Written(First(t) * Plane, at[t])
          /\ pc[t] = "ended" => at[t] >= z_to[t] * Plane
    /\ mpc = "join" =>
          /\ Written(0, i * div_width * Plane)
          /\ i = DIV => Written(0, Depths * Plane)
    /\ mpc \in {"verify", "done"} /\ DIV >= 1 => Written(0, Depths * Plane)

VerdictInv == tail = "clean" /\ verdict = "not equal" => DIV < 1

ConvInv == ControlInv /\ heap = Blocks /\ PlanesInv /\ OutputInv /\ VerdictInv
=============================================================================
