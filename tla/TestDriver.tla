----------------------------- MODULE TestDriver ----------------------------
(***************************************************************************)
(* proj1/src/driver.c: the parent forks one supervisor per concurrent      *)
(* client, sets an alarm and waits for all of them; SIGALRM and SIGINT are *)
(* caught, interrupt a blocking system call, and set shutting_down.        *)
(*                                                                         *)
(* Kept: every point of parent and children at which a signal makes a      *)
(* difference.  A handler may run between any two steps.  Abstracted: the  *)
(* four system calls of an iteration (module PrimeWire) are one, and       *)
(* MaxCalls of them make up the run of a supervisor; the stderr pipes      *)
(* never fill up, a supervisor writes two lines.                           *)
(***************************************************************************)
EXTENDS Naturals, FiniteSets

CONSTANTS
    Concurrency,  \* concurrency, the number of supervisors
    MaxCalls,     \* bound: system calls of a supervisor
    MaxSigints    \* bound: the Ctrl-C's typed

ASSUME DriverAssumption ==
    /\ Concurrency \in 1 .. 20
    /\ MaxCalls \in Nat \ {0}
    /\ MaxSigints \in Nat

Children == 0 .. Concurrency - 1

VARIABLES
    dpc,            \* where the parent is
    k,              \* its loop index
    result,         \* the child that wait returned
    pid,            \* pid[c]: children[c].pid is not 0
    shutting_down, timed_out,  \* the parent's flags
    alarm,          \* the alarm clock: "unset", "set", "fired"
    pending,        \* the children with a SIGINT they have not handled
    parentSigint,   \* has the parent one?
    sigints,        \* the number of Ctrl-C's so far
    cstate,         \* where each supervisor is
    cdown,          \* cdown[c]: its copy of shutting_down
    calls,          \* calls[c]: the system calls it still has to make
    serverUp        \* FALSE once the server has stopped answering

parentVars == <<dpc, k, result, pid>>
flagVars   == <<shutting_down, timed_out>>
signalVars == <<alarm, pending, parentSigint, sigints>>
childVars  == <<cstate, cdown, calls>>
vars == <<parentVars, flagVars, signalVars, childVars, serverUp>>

Running == {c \in Children : cstate[c] \in {"start", "connect", "check", "call", "blocked"}}
Zombies == {c \in Children : cstate[c] = "zombie"}
Ended   == {"done", "failed", "killed"}

(* setalrmhandler has installed the handlers. *)
Init ==
    /\ dpc = "fork" /\ k = 0 /\ result = 0
    /\ pid = [c \in Children |-> FALSE]
    /\ shutting_down = FALSE /\ timed_out = FALSE
    /\ alarm = "unset" /\ pending = {} /\ parentSigint = FALSE /\ sigints = 0
    /\ cstate = [c \in Children |-> "none"]
    /\ cdown = [c \in Children |-> FALSE]
    /\ calls = [c \in Children |-> MaxCalls]
    /\ serverUp = TRUE

-----------------------------------------------------------------------------
(* The parent. *)

(* create_supervisor: the child starts with a copy of the parent's memory. *)
Fork ==
    /\ dpc = "fork" /\ k < Concurrency
    /\ pid' = [pid EXCEPT ![k] = TRUE]
    /\ cstate' = [cstate EXCEPT ![k] = "start"]
    /\ cdown' = [cdown EXCEPT ![k] = shutting_down]
    /\ k' = k + 1
    /\ UNCHANGED <<dpc, result, calls, flagVars, signalVars, serverUp>>

(* CHECK: the parent exits, whatever children it has. *)
ForkFails ==
    /\ dpc = "fork" /\ k < Concurrency
    /\ dpc' = "failed"
    /\ UNCHANGED <<k, result, pid, childVars, flagVars, signalVars, serverUp>>

SetAlarm ==
    /\ dpc = "fork" /\ k = Concurrency
    /\ alarm' = "set"
    /\ dpc' = "wait"
    /\ UNCHANGED <<k, result, pid, childVars, flagVars, pending, parentSigint, sigints, serverUp>>

(* wait finds a child that has terminated, at once or after blocking. *)
Reap ==
    /\ dpc \in {"wait", "blocked"}
    /\ \E c \in Zombies :
          /\ result' = c
          /\ cstate' = [cstate EXCEPT ![c] = "reaped"]
    /\ dpc' = "record"
    /\ UNCHANGED <<k, pid, cdown, calls, flagVars, signalVars, serverUp>>

Block ==
    /\ dpc = "wait" /\ Zombies = {} /\ Running # {}
    /\ dpc' = "blocked"
    /\ UNCHANGED <<k, result, pid, childVars, flagVars, signalVars, serverUp>>

(* ECHILD: await_children returns. *)
NoChildLeft ==
    /\ dpc = "wait" /\ Zombies = {} /\ Running = {}
    /\ dpc' = "remove"
    /\ UNCHANGED <<k, result, pid, childVars, flagVars, signalVars, serverUp>>

(* Mutant: the pid of a child that is gone stays in the table. *)
RecordNot ==
    /\ dpc = "record"
    /\ dpc' = "wait"
    /\ UNCHANGED <<k, result, pid, childVars, flagVars, signalVars, serverUp>>

(* find_child_id and children[i].pid = 0. *)
Record ==
    /\ dpc = "record"
    /\ pid' = [pid EXCEPT ![result] = FALSE]
    /\ dpc' = "wait"
    /\ UNCHANGED <<k, result, childVars, flagVars, signalVars, serverUp>>

(* Mutant: await_children returns on any interruption. *)
InterruptedReturns ==
    /\ dpc = "eintr"
    /\ dpc' = IF shutting_down THEN "remove" ELSE "wait"
    /\ UNCHANGED <<k, result, pid, childVars, flagVars, signalVars, serverUp>>

(* wait failed with EINTR; every handler has set shutting_down. *)
Interrupted ==
    /\ dpc = "eintr"
    /\ k' = 0
    /\ dpc' = IF shutting_down /\ timed_out THEN "kill" ELSE "wait"
    /\ UNCHANGED <<result, pid, childVars, flagVars, signalVars, serverUp>>

(* One iteration of the loop that signals the children not yet reaped. *)
Kill ==
    /\ dpc = "kill" /\ k < Concurrency
    /\ pending' = IF pid[k] /\ k \in Running THEN pending \cup {k} ELSE pending
    /\ k' = k + 1
    /\ UNCHANGED <<dpc, result, pid, childVars, flagVars, alarm, parentSigint, sigints, serverUp>>

KillDone ==
    /\ dpc = "kill" /\ k = Concurrency
    /\ dpc' = "wait"
    /\ UNCHANGED <<k, result, pid, childVars, flagVars, signalVars, serverUp>>

(* The default actions are restored; the alarm stays set. *)
RemoveHandlers ==
    /\ dpc = "remove"
    /\ dpc' = "empty"
    /\ UNCHANGED <<k, result, pid, childVars, flagVars, signalVars, serverUp>>

(* The children's output is printed (from non-blocking pipes). *)
EmptyPipes ==
    /\ dpc = "empty"
    /\ dpc' = "done"
    /\ UNCHANGED <<k, result, pid, childVars, flagVars, signalVars, serverUp>>

ParentNext ==
    \/ Fork \/ SetAlarm \/ Reap \/ Block \/ NoChildLeft \/ Record
    \/ Interrupted \/ Kill \/ KillDone \/ RemoveHandlers \/ EmptyPipes

-----------------------------------------------------------------------------
(* Signals. *)

(* A signal interrupts wait only if wait has no child to return. *)
AfterHandler ==
    CASE dpc = "empty" -> "killed"
      [] dpc = "blocked" /\ Zombies = {} -> "eintr"
      [] OTHER -> dpc

(* alrmhandler on SIGALRM. *)
AlarmFires ==
    /\ alarm = "set" /\ dpc \notin Ended
    /\ alarm' = "fired"
    /\ dpc' = AfterHandler
    /\ shutting_down' = TRUE
    /\ timed_out' = TRUE
    /\ UNCHANGED <<k, result, pid, pending, parentSigint, sigints, childVars, serverUp>>

(* The terminal sends SIGINT to every process of the group. *)
CtrlC ==
    /\ sigints < MaxSigints /\ dpc \notin Ended
    /\ sigints' = sigints + 1
    /\ parentSigint' = TRUE
    /\ pending' = pending \cup Running
    /\ UNCHANGED <<parentVars, flagVars, alarm, childVars, serverUp>>

(* alrmhandler on SIGINT, in the parent. *)
ParentSigint ==
    /\ parentSigint /\ dpc \notin Ended
    /\ parentSigint' = FALSE
    /\ dpc' = AfterHandler
    /\ shutting_down' = TRUE
    /\ UNCHANGED <<k, result, pid, timed_out, alarm, pending, sigints, childVars, serverUp>>

(* alrmhandler in a supervisor: a blocked call returns -1, which is goto   *)
(* quit, or CHECK's exit for connect; elsewhere the flag is seen at the    *)
(* next check.                                                             *)
ChildSigint(c) ==
    /\ c \in pending \cap Running
    /\ pending' = pending \ {c}
    /\ cdown' = [cdown EXCEPT ![c] = TRUE]
    /\ cstate' = [cstate EXCEPT ![c] = IF @ \in {"connect", "blocked"} THEN "zombie" ELSE @]
    /\ UNCHANGED <<calls, parentVars, flagVars, alarm, parentSigint, sigints, serverUp>>

-----------------------------------------------------------------------------
(* Supervisors. *)

(* socket is called, and connect is being entered. *)
ChildStarts(c) ==
    /\ cstate[c] = "start"
    /\ cstate' = [cstate EXCEPT ![c] = "connect"]
    /\ UNCHANGED <<cdown, calls, parentVars, flagVars, signalVars, serverUp>>

(* The server's kernel accepts the connection, whatever the server does. *)
ChildConnects(c) ==
    /\ cstate[c] = "connect"
    /\ cstate' = [cstate EXCEPT ![c] = "check"]
    /\ UNCHANGED <<cdown, calls, parentVars, flagVars, signalVars, serverUp>>

(* Mutant: "continue" for "goto quit". *)
ChildCheckContinues(c) ==
    /\ cstate[c] = "check"
    /\ cstate' = [cstate EXCEPT ![c] = IF cdown[c] THEN "check" ELSE "call"]
    /\ UNCHANGED <<cdown, calls, parentVars, flagVars, signalVars, serverUp>>

(* if (shutting_down) goto quit *)
ChildCheck(c) ==
    /\ cstate[c] = "check"
    /\ cstate' = [cstate EXCEPT ![c] = IF cdown[c] THEN "zombie" ELSE "call"]
    /\ UNCHANGED <<cdown, calls, parentVars, flagVars, signalVars, serverUp>>

(* The flag has been tested and the next system call is being entered. *)
ChildCall(c) ==
    /\ cstate[c] = "call"
    /\ cstate' = [cstate EXCEPT ![c] = "blocked"]
    /\ UNCHANGED <<cdown, calls, parentVars, flagVars, signalVars, serverUp>>

(* The server answers; after the last call the supervisor exits. *)
ChildReturns(c) ==
    /\ cstate[c] = "blocked" /\ serverUp
    /\ calls' = [calls EXCEPT ![c] = @ - 1]
    /\ cstate' = [cstate EXCEPT ![c] = IF calls[c] > 1 THEN "check" ELSE "zombie"]
    /\ UNCHANGED <<cdown, parentVars, flagVars, signalVars, serverUp>>

(* socket or connect fails, and CHECK exits; or a call returns <= 0, as    *)
(* the connection is closed or reset.                                      *)
ChildFails(c) ==
    /\ cstate[c] \in {"start", "connect", "blocked"}
    /\ cstate' = [cstate EXCEPT ![c] = "zombie"]
    /\ UNCHANGED <<cdown, calls, parentVars, flagVars, signalVars, serverUp>>

(* The driver comes to an end without a failure of the server, and also    *)
(* when the timeout finds the parent in wait and the supervisors locked up *)
(* in their system calls.                                                  *)
DriverEnds ==
    /\ []serverUp => <>(dpc \in Ended)
    /\ /\ dpc = "eintr" /\ timed_out /\ ~ serverUp
       /\ \A c \in Children : cstate[c] \in {"blocked", "zombie", "reaped"}
       ~> dpc \in Ended

(* "failure of a server can lock up the clients" *)
ServerLocksUp ==
    /\ serverUp
    /\ serverUp' = FALSE
    /\ UNCHANGED <<parentVars, flagVars, signalVars, childVars>>

ChildNext(c) ==
    \/ ChildStarts(c) \/ ChildConnects(c)
    \/ ChildCheck(c) \/ ChildCall(c) \/ ChildReturns(c) \/ ChildSigint(c)

Next ==
    \/ ParentNext \/ ForkFails
    \/ AlarmFires \/ CtrlC \/ ParentSigint
    \/ ServerLocksUp
    \/ \E c \in Children : ChildNext(c) \/ ChildFails(c)

Spec == Init /\ [][Next]_vars

(* Every process runs, a signal sent is handled, the alarm clock runs, and *)
(* a server that is up answers.                                            *)
Fairness ==
    /\ WF_vars(ParentNext)
    /\ WF_vars(AlarmFires) /\ WF_vars(ParentSigint)
    /\ \A c \in Children : WF_vars(ChildNext(c)) /\ WF_vars(ChildSigint(c))

FairSpec == Spec /\ Fairness

-----------------------------------------------------------------------------
(* Properties. *)

(* The values the variables may take. *)
TypeOK ==
    /\ dpc \in {"fork", "wait", "blocked", "record", "eintr", "kill",
                "remove", "empty"} \cup Ended
    /\ k \in 0 .. Concurrency /\ result \in Children
    /\ pid \in [Children -> BOOLEAN]
    /\ shutting_down \in BOOLEAN /\ timed_out \in BOOLEAN
    /\ alarm \in {"unset", "set", "fired"} /\ pending \subseteq Children
    /\ parentSigint \in BOOLEAN /\ sigints \in 0 .. MaxSigints
    /\ cstate \in [Children -> {"none", "start", "connect", "check", "call", "blocked",
                               "zombie", "reaped"}]
    /\ cdown \in [Children -> BOOLEAN]
    /\ calls \in [Children -> 0 .. MaxCalls]
    /\ serverUp \in BOOLEAN

(* Whenever the parent may send a signal, the table children[] holds the   *)
(* pids of the children not yet reaped and no others: it never kills a     *)
(* process that has got the pid of a child that is gone, and every child   *)
(* wait returns is found in the table.                                     *)
PidsCurrent ==
    \A c \in Children :
        pid[c] <=> \/ cstate[c] \notin {"none", "reaped"}
                   \/ dpc = "record" /\ c = result

(* await_children returns only when every supervisor has been forked and   *)
(* reaped, whatever signals came: no output is printed early.              *)
AllReaped ==
    dpc \in {"remove", "empty", "done"} => \A c \in Children : cstate[c] = "reaped"

(* "failure of a server can lock up the clients.  Therefore, this driver   *)
(* implements a timeout" (driver.c:29-30): after the alarm the driver      *)
(* comes to an end.                                                        *)
TimeoutEnds == timed_out ~> dpc \in Ended
=============================================================================
