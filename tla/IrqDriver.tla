----------------------------- MODULE IrqDriver ------------------------------
(***************************************************************************)
(* The interrupt driver of lab12 (driver.c) under its test, ioctl_test.c   *)
(* started several times at once by test.sh: five numbers and their sum,   *)
(* written by ioctls and by the handler of IRQ 11, and a mutex that is     *)
(* taken by one ioctl and released by another.                             *)
(***************************************************************************)
EXTENDS KernelServices

CONSTANT Tests   \* concurrent runs of ioctl_test

VARIABLES num, dsum, mut1,
          ip,       \* process: next operation, 0 before it starts
          reg,      \* process: register or local variable
          printed   \* the lines of the kernel log: <<tag, sum>>

irqVars == <<num, dsum, mut1, ip, reg, printed>>

Parent(t) == <<t, "parent">>
Child(t)  == <<t, "child">>
Family(t) == {Parent(t), Child(t)}
Process   == Tests \X {"parent", "child"}
Index     == 0 .. 4
NoOwner   == <<0, "nobody">>

(***************************************************************************)
(* The memory accesses of each ioctl, in order.                            *)
(***************************************************************************)
Op(o, k, v) == [op |-> o, k |-> k, v |-> v]
ForAll(o)   == [i \in 1 .. 5 |-> Op(o, i - 1, 0)]

INC(k)   == <<Op("load", k, 0), Op("inc", k, 0)>>
INC_ALL  == INC(0) \o INC(1) \o INC(2) \o INC(3) \o INC(4)
SUM      == <<Op("local", 0, 0)>> \o ForAll("add") \o <<Op("sum", 0, 0)>>
RESET    == ForAll("set") \o <<Op("zero", 0, 0)>>
LOCK     == <<Op("lock", 0, 0)>>
UNLOCK   == <<Op("unlock", 0, 0)>>
PRINT(t) == <<Op("print", t, 0)>>

(* Five times the same number, then the sum. *)
Many(k) == INC(k) \o INC(k) \o INC(k) \o INC(k) \o INC(k) \o SUM

(* irq_handler: the int instruction runs it before the ioctl goes on. *)
INT == <<Op("zero", 0, 0)>> \o [i \in 1 .. 5 |-> Op("set", i - 1, -i)]
          \o ForAll("accumulate") \o PRINT("IRQ")

(* Mutant: the second process of the test does not take the mutex. *)
CodeUnlocked(p) ==
    CASE p[2] = "parent" -> LOCK \o Many(0) \o PRINT("IOCTL0") \o RESET \o UNLOCK
      [] p[2] = "child"  -> INT \o RESET \o UNLOCK

(* Mutant: a path that leaves the mutex locked. *)
CodeKept(p) == LOCK \o INT \o RESET

Code(p) ==
    CASE p[2] = "parent" ->
           LOCK \o Many(0) \o Many(1) \o Many(2) \o PRINT("IOCTL0") \o RESET
                \o INC_ALL \o INC_ALL \o SUM \o PRINT("IOCTL1") \o RESET \o UNLOCK
      [] p[2] = "child" ->
           LOCK \o INT \o RESET \o Many(0) \o Many(1) \o Many(2) \o Many(3)
                \o Many(4) \o PRINT("IOCTL2") \o RESET \o UNLOCK

codes  == [kind \in {"parent", "child"} |-> Code(<<0, kind>>)]
End(p) == Len(codes[p[2]]) + 1

IrqInit ==
    /\ num = [k \in Index |-> 0] /\ dsum = 0
    /\ mut1 = NoOwner
    /\ ip = [p \in Process |-> 0]
    /\ reg = [p \in Process |-> 0]
    /\ printed = {}

(***************************************************************************)
(* The loader, and processes that open the device.                         *)
(***************************************************************************)
DriverInit ==
    /\ Insmod
    /\ num' = [k \in Index |-> 0] /\ dsum' = 0
    /\ UNCHANGED <<refs, armed, running, mut1, ip, reg, printed>>

DriverExit ==
    /\ Rmmod
    /\ UNCHANGED <<irqVars, refs, armed, running>>

(* open, then fork: parent and child share the file. *)
StartTest(t) ==
    /\ ip[Parent(t)] = 0
    /\ ModuleGet
    /\ ip' = [p \in Process |-> IF p \in Family(t) THEN 1 ELSE ip[p]]
    /\ UNCHANGED <<mstate, armed, running, num, dsum, mut1, reg, printed>>

(* The last close of the file releases the module; my_release itself does  *)
(* nothing, not even about the mutex.                                      *)
Close(p) ==
    /\ ip[p] = End(p)
    /\ ip' = [ip EXCEPT ![p] = End(p) + 1]
    /\ IF \A q \in Family(p[1]) \ {p} : ip[q] > End(q)
       THEN ModulePut ELSE UNCHANGED refs
    /\ UNCHANGED <<mstate, armed, running, num, dsum, mut1, reg, printed>>

(***************************************************************************)
(* One memory access of a process.                                         *)
(***************************************************************************)
Mutex(p, o) ==
    \/ /\ o.op = "lock" /\ mut1 = NoOwner
       /\ mut1' = p
    \/ /\ o.op = "unlock"
       /\ mut1' = NoOwner

Local(p, o) ==
    \/ o.op = "load"  /\ reg' = [reg EXCEPT ![p] = num[o.k]]
    \/ o.op = "local" /\ reg' = [reg EXCEPT ![p] = 0]
    \/ o.op = "add"   /\ reg' = [reg EXCEPT ![p] = reg[p] + num[o.k]]

StoreNum(p, o) ==
    \/ o.op = "inc" /\ num' = [num EXCEPT ![o.k] = reg[p] + 1] /\ reg' = [reg EXCEPT ![p] = 0]
    \/ o.op = "set" /\ num' = [num EXCEPT ![o.k] = o.v] /\ UNCHANGED reg

StoreSum(p, o) ==
    \/ o.op = "zero"       /\ dsum' = 0 /\ UNCHANGED reg
    \/ o.op = "sum"        /\ dsum' = reg[p] /\ reg' = [reg EXCEPT ![p] = 0]
    \/ o.op = "accumulate" /\ dsum' = dsum + num[o.k] /\ UNCHANGED reg

PrintLine(o) == o.op = "print" /\ printed' = printed \cup {<<o.k, dsum>>}

Access(p) ==
    /\ ip[p] \in 1 .. End(p) - 1
    /\ ip' = [ip EXCEPT ![p] = ip[p] + 1]
    /\ LET o == codes[p[2]][ip[p]]
       IN  \/ Mutex(p, o)    /\ UNCHANGED <<num, dsum, reg, printed>>
           \/ Local(p, o)    /\ UNCHANGED <<num, dsum, mut1, printed>>
           \/ StoreNum(p, o) /\ UNCHANGED <<dsum, mut1, printed>>
           \/ StoreSum(p, o) /\ UNCHANGED <<num, mut1, printed>>
           \/ PrintLine(o)       /\ UNCHANGED <<num, dsum, mut1, reg>>
    /\ UNCHANGED services

IrqNext ==
    \/ DriverInit \/ DriverExit
    \/ \E t \in Tests : StartTest(t)
    \/ \E p \in Process : Access(p) \/ Close(p)

(***************************************************************************)
(* Properties                                                              *)
(***************************************************************************)
IrqTypeOK ==
    /\ num \in [Index -> Int] /\ dsum \in Int
    /\ mut1 \in Process \cup {NoOwner}
    /\ \A p \in Process : ip[p] \in 0 .. End(p) + 1
    /\ reg \in [Process -> Int]

Expected(tag) == CASE tag = "IRQ" -> -15 [] tag = "IOCTL0" -> 15
                   [] tag = "IOCTL1" -> 10 [] tag = "IOCTL2" -> 25

(* Every sum a test prints is the one ioctl_test.c and test.sh expect, for *)
(* any number of tests at once.                                            *)
ExpectedAnswers == \A line \in printed : line[2] = Expected(line[1])

(* The mutex comes free for every test that waits for it. *)
TestsEnd == \A p \in Process : ip[p] = 1 ~> ip[p] > End(p)

(* The tests whose file is open: parent and child start together, and the  *)
(* file is closed when both have closed it.                                *)
IrqHolders == {t \in Tests : \E p \in Family(t) : ip[p] \in 1 .. End(p)}

IrqInv ==
    /\ ip \in [Process -> Nat]
    /\ \A t \in Tests : ip[Parent(t)] = 0 <=> ip[Child(t)] = 0

(***************************************************************************)
(* The inductive invariant behind ExpectedAnswers: whoever holds the mutex *)
(* has computed what its accesses compute in a program that runs alone.    *)
(***************************************************************************)
Zeros   == [k \in Index |-> 0]
Nothing == [num |-> Zeros, dsum |-> 0, reg |-> 0]

(* One access of such a program. *)
Exec(o, s) ==
    [num  |-> CASE o.op = "inc" -> [s.num EXCEPT ![o.k] = s.reg + 1]
                [] o.op = "set" -> [s.num EXCEPT ![o.k] = o.v]
                [] OTHER -> s.num,
     dsum |-> CASE o.op = "zero" -> 0
                [] o.op = "sum" -> s.reg
                [] o.op = "accumulate" -> s.dsum + s.num[o.k]
                [] OTHER -> s.dsum,
     reg  |-> CASE o.op = "load" -> s.num[o.k]
                [] o.op = "add" -> s.reg + s.num[o.k]
                [] o.op \in {"local", "inc", "sum"} -> 0
                [] OTHER -> s.reg]

(* What it has computed after each of its accesses. *)
Run(c) ==
    LET run[n \in 0 .. Len(c)] == IF n = 0 THEN Nothing ELSE Exec(c[n], run[n - 1])
    IN  run

Inside(p) == ip[p] \in 2 .. End(p) - 1

MutexInv ==
    /\ num \in [Index -> Int] /\ dsum \in Int /\ reg \in [Process -> Int]
    /\ mut1 = NoOwner => num = Zeros /\ dsum = 0
    /\ mut1 \in Process \cup {NoOwner}
    /\ \A p \in Process :
          /\ mut1 = p <=> Inside(p)
          /\ ip[p] \in {0, 1} => reg[p] = 0
          /\ Inside(p) =>
                [num |-> num, dsum |-> dsum, reg |-> reg[p]] = Run(codes[p[2]])[ip[p] - 1]
    /\ ExpectedAnswers
=============================================================================
