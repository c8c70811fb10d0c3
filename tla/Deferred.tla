------------------------------ MODULE Deferred ------------------------------
(***************************************************************************)
(* The deferred-work device of lab13 (deferred/kernel/deferred.c): four    *)
(* ioctls share one timer and the flag that says what its handler does;    *)
(* the handler prints, queues a work item that sleeps, or looks for dead   *)
(* processes on a list and arms itself again.                              *)
(***************************************************************************)
EXTENDS KernelServices

CONSTANTS DefUsers,  \* processes that issue ioctls
          Tasks      \* processes that may be monitored

ASSUME TasksAssumption == Tasks \cap {"closed", "open", "listed", "arm"} = {}

VARIABLES flag, hpc, work,
          upc,      \* user: closed, open, or the rest of the ioctl it is in
          mons,     \* process_list: the tasks monitored
          tstate,   \* task: run, dead (__state = TASK_DEAD) or released
          trefs,    \* task: references to its task_struct
          wanted,   \* a call has armed the timer and none cancelled it since
          xpc,      \* deferred_exit: program counter
          broken    \* a bad pointer was used: no defined behaviour from here

defVars == <<flag, hpc, work, upc, mons, tstate, trefs, wanted, xpc, broken>>

DefInit ==
    /\ flag = "NONE" /\ hpc = "idle" /\ work = "idle"
    /\ upc = [u \in DefUsers |-> "closed"]
    /\ mons = {}
    /\ tstate = [t \in Tasks |-> "run"]
    /\ trefs = [t \in Tasks |-> 1]
    /\ wanted = FALSE /\ xpc = "timer" /\ broken = FALSE

DefInsmod ==
    /\ Insmod
    /\ flag' = "NONE" /\ mons' = {}
    /\ UNCHANGED <<refs, armed, running, hpc, work, upc, tstate, trefs, wanted, xpc, broken>>

(***************************************************************************)
(* ioctls: the flag is stored first and the timer armed after it, so that  *)
(* other calls and the handler may come in between.                        *)
(***************************************************************************)
Open(u) ==
    /\ upc[u] = "closed"
    /\ ModuleGet
    /\ upc' = [upc EXCEPT ![u] = "open"]
    /\ UNCHANGED <<mstate, armed, running, flag, hpc, work, mons, tstate, trefs, wanted, xpc, broken>>

DefRelease(u) ==
    /\ upc[u] = "open"
    /\ ModulePut
    /\ upc' = [upc EXCEPT ![u] = "closed"]
    /\ UNCHANGED <<mstate, armed, running, flag, hpc, work, mons, tstate, trefs, wanted, xpc, broken>>

SetFlag(u, type) ==
    /\ upc[u] = IF type = "MON" THEN "listed" ELSE "open"
    /\ flag' = type
    /\ upc' = [upc EXCEPT ![u] = "arm"]
    /\ UNCHANGED <<services, hpc, work, mons, tstate, trefs, wanted, xpc, broken>>

ModTimer(u) ==
    /\ upc[u] = "arm"
    /\ armed' = TRUE /\ wanted' = TRUE
    /\ upc' = [upc EXCEPT ![u] = "open"]
    /\ UNCHANGED <<mstate, refs, running, flag, hpc, work, mons, tstate, trefs, xpc, broken>>

Cancel(u) ==
    /\ upc[u] = "open"
    /\ DelTimerSync
    /\ wanted' = FALSE
    /\ UNCHANGED <<mstate, refs, flag, hpc, work, upc, mons, tstate, trefs, xpc, broken>>

(* get_proc: the lookup and the reference are two steps, and the task may  *)
(* be released between them.  No such pid, or no memory: an error pointer, *)
(* which the caller puts on the list.                                      *)
Lookup(u, t) ==
    /\ upc[u] = "open" /\ t \notin mons \* bound: a task is monitored once
    /\ \A v \in DefUsers : upc[v] # t
    /\ trefs[t] <= 1                    \* bound: at most twice in its life
    /\ IF tstate[t] = "released" THEN broken' = TRUE /\ UNCHANGED upc
       ELSE upc' = [upc EXCEPT ![u] = t] /\ UNCHANGED broken
    /\ UNCHANGED <<services, flag, hpc, work, mons, tstate, trefs, wanted, xpc>>

GetTask(t) == trefs' = [trefs EXCEPT ![t] = @ + 1]

GetProc(u, t) ==
    /\ upc[u] = t
    /\ IF trefs[t] = 0
       THEN broken' = TRUE /\ UNCHANGED <<trefs, mons, upc>>
       ELSE /\ GetTask(t)
            /\ mons' = mons \cup {t}
            /\ upc' = [upc EXCEPT ![u] = "listed"]
            /\ UNCHANGED broken
    /\ UNCHANGED <<services, flag, hpc, work, tstate, wanted, xpc>>

(* A task dies, and its parent or init releases it. *)
Dies(t) ==
    /\ tstate[t] = "run"
    /\ tstate' = [tstate EXCEPT ![t] = "dead"]
    /\ UNCHANGED <<services, flag, hpc, work, upc, mons, trefs, wanted, xpc, broken>>

Released(t) ==
    /\ tstate[t] = "dead"
    /\ tstate' = [tstate EXCEPT ![t] = "released"]
    /\ trefs' = [trefs EXCEPT ![t] = @ - 1]
    /\ UNCHANGED <<services, flag, hpc, work, upc, mons, wanted, xpc, broken>>

(***************************************************************************)
(* timer_handler and my_work_handler                                       *)
(***************************************************************************)
DefFires ==
    /\ TimerFires
    /\ hpc' = "start"
    /\ UNCHANGED <<mstate, refs, flag, work, upc, mons, tstate, trefs, wanted, xpc, broken>>

(* queue_work: a work item waits once at most, also while it runs. *)
QueueWork == work' = CASE work \in {"idle", "queued"} -> "queued"
                       [] work \in {"asleep", "asleep, queued"} -> "asleep, queued"

(* The flag is read once for each type, and may change in between. *)
IfSet ==
    /\ hpc = "start"
    /\ hpc' = IF flag = "SET" THEN "return" ELSE "not SET"
    /\ UNCHANGED <<services, flag, work, upc, mons, tstate, trefs, wanted, xpc, broken>>

IfAlloc ==
    /\ hpc = "not SET"
    /\ IF flag = "ALLOC" THEN hpc' = "return" /\ QueueWork
                         ELSE hpc' = "not ALLOC" /\ UNCHANGED work
    /\ UNCHANGED <<services, flag, upc, mons, tstate, trefs, wanted, xpc, broken>>

IfMon ==
    /\ hpc = "not ALLOC"
    /\ hpc' = IF flag = "MON" THEN "scan" ELSE "return"
    /\ UNCHANGED <<services, flag, work, upc, mons, tstate, trefs, wanted, xpc, broken>>

(* Under the spinlock; a removed entry's reference is not given back. *)
Scan ==
    /\ hpc = "scan"
    /\ mons' = {t \in mons : tstate[t] = "run"}
    /\ hpc' = "rearm"
    /\ UNCHANGED <<services, flag, work, upc, tstate, trefs, wanted, xpc, broken>>

(* Mutant: the handler does not arm the timer again. *)
DefRearmNot == FALSE

DefRearm == TRUE

HandlerRearms ==
    /\ hpc = "rearm"
    /\ armed' = (armed \/ DefRearm)
    /\ hpc' = "return"
    /\ UNCHANGED <<mstate, refs, running, flag, work, upc, mons, tstate, trefs, wanted, xpc, broken>>

HandlerReturns ==
    /\ hpc = "return"
    /\ running' = FALSE /\ hpc' = "idle"
    /\ UNCHANGED <<mstate, refs, armed, flag, work, upc, mons, tstate, trefs, wanted, xpc, broken>>

(* alloc_io sleeps five seconds in the workqueue's thread. *)
WorkRuns ==
    /\ work # "idle"
    /\ work' = CASE work = "queued" -> "asleep" [] work = "asleep" -> "idle"
                 [] work = "asleep, queued" -> "queued"
    /\ UNCHANGED <<services, flag, hpc, upc, mons, tstate, trefs, wanted, xpc, broken>>

(***************************************************************************)
(* deferred_exit: the timer first, then what it may have queued.  The list *)
(* stays as it is.                                                         *)
(***************************************************************************)
ExitStart ==
    /\ RmmodStart
    /\ UNCHANGED <<refs, armed, running, defVars>>

(* Mutant: del_timer, which does not wait for a running handler. *)
ExitDelTimer ==
    /\ mstate = "going" /\ xpc = "timer"
    /\ armed' = FALSE
    /\ xpc' = "flush"
    /\ UNCHANGED <<mstate, refs, running, flag, hpc, work, upc, mons, tstate, trefs, wanted, broken>>

ExitTimer ==
    /\ mstate = "going" /\ xpc = "timer"
    /\ DelTimerSync
    /\ xpc' = "flush"
    /\ UNCHANGED <<mstate, refs, flag, hpc, work, upc, mons, tstate, trefs, wanted, broken>>

ExitFlush ==
    /\ mstate = "going" /\ xpc = "flush" /\ work = "idle"
    /\ mstate' = "gone"
    /\ UNCHANGED <<refs, armed, running, defVars>>

Handler == DefFires \/ IfSet \/ IfAlloc \/ IfMon \/ Scan \/ HandlerRearms \/ HandlerReturns
Exit == ExitTimer \/ ExitFlush
Ioctl(u) == \/ ModTimer(u) \/ SetFlag(u, "MON")
            \/ \E t \in Tasks : GetProc(u, t)
User(u) ==
    \/ Open(u) \/ DefRelease(u) \/ Cancel(u) \/ Ioctl(u)
    \/ \E type \in {"SET", "ALLOC"} : SetFlag(u, type)
    \/ \E t \in Tasks : Lookup(u, t)

DefNext ==
    /\ ~broken
    /\ \/ DefInsmod \/ ExitStart \/ Exit \/ Handler \/ WorkRuns
       \/ \E u \in DefUsers : User(u)
       \/ \E t \in Tasks : Dies(t) \/ Released(t)

(***************************************************************************)
(* Properties                                                              *)
(***************************************************************************)
DefTypeOK ==
    /\ flag \in {"NONE", "SET", "ALLOC", "MON"}
    /\ hpc \in {"idle", "start", "not SET", "not ALLOC", "scan", "rearm", "return"}
    /\ work \in {"idle", "queued", "asleep", "asleep, queued"}
    /\ upc \in [DefUsers -> {"closed", "open", "listed", "arm"} \cup Tasks]
    /\ mons \subseteq Tasks
    /\ tstate \in [Tasks -> {"run", "dead", "released"}]
    /\ trefs \in [Tasks -> 0 .. 3]
    /\ wanted \in BOOLEAN /\ xpc \in {"timer", "flush"} /\ broken \in BOOLEAN

(* A monitored process that has died is found, unless the timer is         *)
(* cancelled, another ioctl changes its purpose, or the module goes.       *)
DeathFound ==
    \A t \in Tasks :
        t \in mons /\ tstate[t] # "run" /\ flag = "MON" /\ wanted
            ~> t \notin mons \/ flag # "MON" \/ ~wanted \/ broken \/ mstate # "live"

(* The users that have the device open, and what is left of timer and work *)
(* item while deferred_exit runs and after it.                             *)
DefHolders == {u \in DefUsers : upc[u] # "closed"}

DefInv ==
    /\ DOMAIN upc = DefUsers
    /\ running <=> hpc # "idle"
    /\ xpc = "flush" => mstate \in {"going", "gone"} /\ ~armed /\ ~running
    /\ mstate = "gone" => xpc = "flush" /\ work = "idle"
=============================================================================
