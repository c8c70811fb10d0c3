-------------------------- MODULE TestDriver_proofs -------------------------
(***************************************************************************)
(* Proofs about TestDriver, for any number of supervisors, calls, and      *)
(* signals: types, the table of pids, and no early end of await_children.  *)
(***************************************************************************)
EXTENDS TestDriver, TLAPS

(* A supervisor that has not ended has a call left to make. *)
CallsInv ==
    \A c \in Children : cstate[c] \notin {"zombie", "reaped"} => calls[c] > 0

(* Children 0 .. k - 1 have been forked; after the last all have been.     *)
ForkInv ==
    /\ dpc = "fork" => \A c \in Children : cstate[c] = "none" <=> c >= k
    /\ dpc \notin {"fork", "failed"} => \A c \in Children : cstate[c] # "none"

(* The child wait returned is reaped, and its pid still in the table.      *)
RecordInv == dpc = "record" => cstate[result] = "reaped"

DriverInv == TypeOK /\ CallsInv /\ ForkInv /\ RecordInv /\ PidsCurrent /\ AllReaped

LEMMA InitInv == Init => DriverInv
<1>. SUFFICES ASSUME Init PROVE DriverInv
  OBVIOUS
<1>. USE DriverAssumption DEF Init
<1>1. TypeOK
  <2>1. /\ pid \in [Children -> BOOLEAN] /\ cdown \in [Children -> BOOLEAN]
        /\ {shutting_down, timed_out, parentSigint, serverUp} \subseteq BOOLEAN
    BY Zenon
  <2>2. /\ k \in 0 .. Concurrency /\ result \in Children /\ sigints \in 0 .. MaxSigints
        /\ calls \in [Children -> 0 .. MaxCalls]
    BY DEF Children
  <2>. QED BY <2>1, <2>2 DEF TypeOK, Ended
<1>2. CallsInv
  BY DEF CallsInv
<1>3. ForkInv /\ RecordInv /\ PidsCurrent /\ AllReaped
  BY DEF ForkInv, RecordInv, PidsCurrent, AllReaped, Children
<1>. QED BY <1>1, <1>2, <1>3 DEF DriverInv

(* The types, with what keeps the number of calls from falling below 0.    *)
LEMMA TypeStep ==
    TypeOK /\ CallsInv /\ ForkInv /\ [Next]_vars => TypeOK' /\ CallsInv'
<1>. SUFFICES ASSUME TypeOK, CallsInv, ForkInv, [Next]_vars PROVE TypeOK' /\ CallsInv'
  OBVIOUS
<1>. USE DriverAssumption DEF TypeOK, CallsInv, Running, Children, Ended
<1>1. CASE Fork
  <2>1. pid' \in [Children -> BOOLEAN] /\ cdown' \in [Children -> BOOLEAN]
    BY <1>1, Zenon DEF Fork
  <2>2. k' \in 0 .. Concurrency /\ dpc' = dpc /\ UNCHANGED <<result, calls, serverUp>>
    BY <1>1 DEF Fork
  <2>3. cstate' \in [Children -> {"none", "start", "connect", "check", "call", "blocked",
                               "zombie", "reaped"}]
    BY <1>1 DEF Fork
  <2>4. CallsInv'
    BY <1>1 DEF Fork, ForkInv
  <2>. QED BY <1>1, <2>1, <2>2, <2>3, <2>4 DEF Fork, flagVars, signalVars
<1>2. CASE ForkFails
  BY <1>2 DEF ForkFails, flagVars, signalVars, childVars
<1>3. CASE SetAlarm
  BY <1>3 DEF SetAlarm, flagVars, childVars
<1>4. CASE Reap
  BY <1>4 DEF Reap, Zombies, flagVars, signalVars
<1>5. CASE Block \/ NoChildLeft
  BY <1>5 DEF Block, NoChildLeft, flagVars, signalVars, childVars
<1>6. CASE Record
  BY <1>6 DEF Record, flagVars, signalVars, childVars
<1>7. CASE Interrupted
  BY <1>7 DEF Interrupted, flagVars, signalVars, childVars
<1>8. CASE Kill
  BY <1>8 DEF Kill, flagVars, childVars
<1>9. CASE KillDone \/ RemoveHandlers \/ EmptyPipes
  BY <1>9 DEF KillDone, RemoveHandlers, EmptyPipes, flagVars, signalVars, childVars
<1>10. AfterHandler \in {"killed", "eintr", dpc}
  BY DEF AfterHandler
<1>11. CASE AlarmFires
  BY <1>10, <1>11 DEF AlarmFires, childVars
<1>12. CASE CtrlC
  <2>1. parentSigint' \in BOOLEAN /\ UNCHANGED <<parentVars, flagVars, alarm, childVars, serverUp>>
    BY <1>12, Zenon DEF CtrlC
  <2>2. sigints' \in 0 .. MaxSigints
    <3>. HIDE DEF Running
    <3>. QED BY <1>12 DEF CtrlC
  <2>3. pending' \subseteq Children
    BY <1>12, Zenon DEF CtrlC
  <2>. QED BY <2>1, <2>2, <2>3 DEF parentVars, flagVars, childVars
<1>13. CASE ParentSigint
  BY <1>10, <1>13 DEF ParentSigint, childVars
<1>14. CASE ServerLocksUp
  BY <1>14 DEF ServerLocksUp, parentVars, flagVars, signalVars, childVars
<1>15. ASSUME NEW c \in Children, ChildStarts(c) \/ ChildConnects(c) \/ ChildCheck(c)
                               \/ ChildCall(c) \/ ChildFails(c)
       PROVE  TypeOK' /\ CallsInv'
  <2>1. UNCHANGED <<cdown, calls, parentVars, flagVars, signalVars, serverUp>>
    BY <1>15 DEF ChildStarts, ChildConnects, ChildCheck, ChildCall, ChildFails
  <2>2. cstate[c] \in {"start", "connect", "check", "call", "blocked"}
    BY <1>15 DEF ChildStarts, ChildConnects, ChildCheck, ChildCall, ChildFails
  <2>3. \E s \in {"connect", "check", "call", "blocked", "zombie"} : cstate' = [cstate EXCEPT ![c] = s]
    BY <1>15, Zenon DEF ChildStarts, ChildConnects, ChildCheck, ChildCall, ChildFails
  <2>. QED BY <2>1, <2>2, <2>3 DEF parentVars, flagVars, signalVars
<1>16. ASSUME NEW c \in Children, ChildReturns(c) PROVE TypeOK' /\ CallsInv'
  <2>1. UNCHANGED <<cdown, parentVars, flagVars, signalVars, serverUp>>
    BY <1>16 DEF ChildReturns
  <2>2. cstate[c] = "blocked" /\ calls[c] \in 1 .. MaxCalls
    BY <1>16 DEF ChildReturns
  <2>3. calls' = [calls EXCEPT ![c] = calls[c] - 1]
    BY <1>16 DEF ChildReturns
  <2>4. cstate' = [cstate EXCEPT ![c] = IF calls[c] > 1 THEN "check" ELSE "zombie"]
    BY <1>16 DEF ChildReturns
  <2>5. calls' \in [Children -> 0 .. MaxCalls]
    BY <2>2, <2>3
  <2>6. cstate' \in [Children -> {"none", "start", "connect", "check", "call", "blocked",
                               "zombie", "reaped"}]
    BY <2>4
  <2>7. CallsInv'
    BY <2>2, <2>3, <2>4
  <2>. QED BY <2>1, <2>5, <2>6, <2>7 DEF parentVars, flagVars, signalVars
<1>17. ASSUME NEW c \in Children, ChildSigint(c) PROVE TypeOK' /\ CallsInv'
  BY <1>17 DEF ChildSigint, parentVars, flagVars
<1>18. CASE UNCHANGED vars
  BY <1>18 DEF vars, parentVars, flagVars, signalVars, childVars
<1>. QED
  BY <1>1, <1>2, <1>3, <1>4, <1>5, <1>6, <1>7, <1>8, <1>9, <1>11, <1>12, <1>13,
     <1>14, <1>15, <1>16, <1>17, <1>18 DEF Next, ParentNext, ChildNext

(* A supervisor's own step changes neither the parent nor who is reaped.   *)
LEMMA ChildStep ==
    ASSUME DriverInv, NEW c \in Children, ChildNext(c) \/ ChildFails(c)
    PROVE  ForkInv' /\ RecordInv' /\ PidsCurrent' /\ AllReaped'
<1>. USE DEF DriverInv, TypeOK
<1>1. UNCHANGED parentVars
  BY DEF ChildNext, ChildStarts, ChildConnects, ChildCheck, ChildCall, ChildReturns, ChildSigint, ChildFails
<1>2. \A d \in Children :
         /\ cstate'[d] = "none" <=> cstate[d] = "none"
         /\ cstate'[d] = "reaped" <=> cstate[d] = "reaped"
  BY DEF ChildNext, ChildStarts, ChildConnects, ChildCheck, ChildCall, ChildReturns, ChildSigint, ChildFails, Running
<1>. QED
  BY <1>1, <1>2 DEF parentVars, ForkInv, RecordInv, PidsCurrent, AllReaped

(* The parent's steps and the signals it handles. *)
LEMMA ParentStep ==
    ASSUME DriverInv,
           ParentNext \/ ForkFails \/ AlarmFires \/ ParentSigint
    PROVE  ForkInv' /\ RecordInv' /\ PidsCurrent' /\ AllReaped'
<1>. USE DriverAssumption
     DEF DriverInv, TypeOK, ForkInv, RecordInv, PidsCurrent, AllReaped, Children
<1>1. CASE Fork
  BY <1>1 DEF Fork
<1>2. CASE ForkFails
  BY <1>2 DEF ForkFails, childVars
<1>3. CASE SetAlarm
  BY <1>3 DEF SetAlarm, childVars
<1>4. CASE Reap
  BY <1>4 DEF Reap, Zombies
<1>5. CASE Block
  BY <1>5 DEF Block, childVars
<1>6. CASE NoChildLeft
  <2>1. \A c \in Children : cstate[c] = "reaped"
    BY <1>6 DEF NoChildLeft, Zombies, Running
  <2>. QED BY <1>6, <2>1 DEF NoChildLeft, childVars
<1>7. CASE Record
  BY <1>7 DEF Record, childVars
<1>8. CASE Interrupted
  BY <1>8 DEF Interrupted, childVars
<1>9. CASE Kill \/ KillDone
  BY <1>9 DEF Kill, KillDone, childVars
<1>10. CASE RemoveHandlers \/ EmptyPipes
  BY <1>10 DEF RemoveHandlers, EmptyPipes, childVars
<1>11. CASE AlarmFires \/ ParentSigint
  <2>1. \/ dpc' = dpc
        \/ dpc = "empty" /\ dpc' = "killed"
        \/ dpc = "blocked" /\ dpc' = "eintr"
    BY <1>11 DEF AlarmFires, ParentSigint, AfterHandler
  <2>2. UNCHANGED <<k, result, pid, cstate>>
    BY <1>11 DEF AlarmFires, ParentSigint, childVars
  <2>. QED BY <2>1, <2>2
<1>. QED
  BY <1>1, <1>2, <1>3, <1>4, <1>5, <1>6, <1>7, <1>8, <1>9, <1>10, <1>11 DEF ParentNext

LEMMA NextInv == DriverInv /\ [Next]_vars => DriverInv'
<1>. SUFFICES ASSUME DriverInv, [Next]_vars PROVE DriverInv'
  OBVIOUS
<1>1. TypeOK' /\ CallsInv'
  BY TypeStep DEF DriverInv
<1>2. ForkInv' /\ RecordInv' /\ PidsCurrent' /\ AllReaped'
  <2>1. CASE UNCHANGED <<parentVars, cstate>>
    BY <2>1 DEF parentVars, DriverInv, ForkInv, RecordInv, PidsCurrent, AllReaped
  <2>2. CASE CtrlC \/ ServerLocksUp \/ UNCHANGED vars
    BY <2>1, <2>2 DEF CtrlC, ServerLocksUp, vars, childVars
  <2>. QED BY <2>2, ParentStep, ChildStep DEF Next
<1>. QED BY <1>1, <1>2 DEF DriverInv

LEMMA Invariant == Spec => []DriverInv
  BY InitInv, NextInv, PTL DEF Spec

(* Every state of the driver is well typed. *)
THEOREM DriverTyped == Spec => []TypeOK
  BY Invariant, PTL DEF DriverInv

(* The table holds the pids of the children not yet reaped and no others:  *)
(* no process is ever signalled by mistake.                                *)
THEOREM TableCurrent == Spec => []PidsCurrent
  BY Invariant, PTL DEF DriverInv

(* await_children returns only when all supervisors have been reaped.      *)
THEOREM NoEarlyReturn == Spec => []AllReaped
  BY Invariant, PTL DEF DriverInv
=============================================================================
