----------------------------- MODULE KThreadLab -----------------------------
(***************************************************************************)
(* The kernel thread of lab13 (kthread/kthread.c): unloading tells the     *)
(* thread to stop and waits for its answer.  wait_event_interruptible is   *)
(* modelled by its steps: go on the wait queue, look at the flag, sleep;   *)
(* a wake-up makes a sleeper look again.  All of it is code and data of    *)
(* the module, which is freed when rmmod is done: a thread that has not    *)
(* called do_exit by then and runs has no defined behaviour any more, and  *)
(* the model stops.                                                        *)
(***************************************************************************)
EXTENDS KernelServices

VARIABLES stopFlag, termFlag,  \* flag_stop_thread, flag_thread_terminated
          tpc, unpc,           \* program counters of the thread and of rmmod
          tq, uq,              \* who is on its wait queue and not yet woken
          signalled            \* a signal is pending for rmmod

kthVars == <<stopFlag, termFlag, tpc, unpc, tq, uq, signalled>>

KthInit ==
    /\ stopFlag = FALSE /\ termFlag = FALSE
    /\ tpc = "none" /\ unpc = "none"
    /\ tq = FALSE /\ uq = FALSE /\ signalled = FALSE

KthInsmod ==
    /\ Insmod
    /\ tpc' = "queue"
    /\ UNCHANGED <<refs, armed, running, stopFlag, termFlag, unpc, tq, uq, signalled>>

(***************************************************************************)
(* my_thread_f.  A kernel thread takes no signals.                         *)
(***************************************************************************)
ThreadQueue ==
    /\ mstate # "gone" /\ tpc = "queue"
    /\ tq' = TRUE /\ tpc' = "check"
    /\ UNCHANGED <<services, stopFlag, termFlag, unpc, uq, signalled>>

ThreadCheck ==
    /\ mstate # "gone" /\ tpc = "check"
    /\ tpc' = IF stopFlag THEN "mark" ELSE "sleep"
    /\ UNCHANGED <<services, stopFlag, termFlag, unpc, tq, uq, signalled>>

ThreadWoken ==
    /\ mstate # "gone" /\ tpc = "sleep" /\ ~tq
    /\ tpc' = "queue"
    /\ UNCHANGED <<services, stopFlag, termFlag, unpc, tq, uq, signalled>>

ThreadMark ==
    /\ mstate # "gone" /\ tpc = "mark"
    /\ termFlag' = TRUE
    /\ tpc' = "wake"
    /\ UNCHANGED <<services, stopFlag, unpc, tq, uq, signalled>>

(* Mutant: the thread ends and wakes nobody. *)
ThreadWakeNot ==
    /\ mstate # "gone" /\ tpc = "wake"
    /\ tpc' = "exiting"
    /\ UNCHANGED <<services, stopFlag, termFlag, unpc, tq, uq, signalled>>

(* After the wake-up the thread still runs the module's code: a message    *)
(* and the call of do_exit.                                                *)
ThreadWake ==
    /\ mstate # "gone" /\ tpc = "wake"
    /\ uq' = FALSE
    /\ tpc' = "exiting"
    /\ UNCHANGED <<services, stopFlag, termFlag, unpc, tq, signalled>>

ThreadExit ==
    /\ mstate # "gone" /\ tpc = "exiting"
    /\ tpc' = "exited"
    /\ UNCHANGED <<services, stopFlag, termFlag, unpc, tq, uq, signalled>>

(* The thread goes on in the module's code, or on its wait queues, when    *)
(* they are gone.                                                          *)
ThreadCrashes ==
    /\ mstate = "gone"
    /\ \/ tpc \in {"queue", "check", "mark", "wake", "exiting"}
       \/ tpc = "sleep" /\ ~tq
    /\ tpc' = "oops"
    /\ UNCHANGED <<services, stopFlag, termFlag, unpc, tq, uq, signalled>>

(***************************************************************************)
(* kthread_exit                                                            *)
(***************************************************************************)
UnloadStart ==
    /\ RmmodStart
    /\ unpc' = "set"
    /\ UNCHANGED <<refs, armed, running, stopFlag, termFlag, tpc, tq, uq, signalled>>

UnloadSet ==
    /\ unpc = "set"
    /\ stopFlag' = TRUE
    /\ unpc' = "wake"
    /\ UNCHANGED <<services, termFlag, tpc, tq, uq, signalled>>

UnloadWake ==
    /\ unpc = "wake"
    /\ tq' = FALSE
    /\ unpc' = "queue"
    /\ UNCHANGED <<services, stopFlag, termFlag, tpc, uq, signalled>>

UnloadQueue ==
    /\ unpc = "queue"
    /\ uq' = TRUE /\ unpc' = "check"
    /\ UNCHANGED <<services, stopFlag, termFlag, tpc, tq, signalled>>

(* The wait also ends when rmmod has a signal pending; its result is not   *)
(* looked at.                                                              *)
UnloadCheck ==
    /\ unpc = "check"
    /\ IF termFlag \/ signalled
       THEN /\ unpc' = "none"
            /\ mstate' = "gone"
       ELSE /\ unpc' = "sleep"
            /\ UNCHANGED mstate
    /\ UNCHANGED <<refs, armed, running, stopFlag, termFlag, tpc, tq, uq, signalled>>

UnloadWoken ==
    /\ unpc = "sleep" /\ ~uq
    /\ unpc' = "queue"
    /\ UNCHANGED <<services, stopFlag, termFlag, tpc, tq, uq, signalled>>

(* Ctrl-C on rmmod wakes it as well. *)
Signal ==
    /\ mstate = "going" /\ ~signalled
    /\ signalled' = TRUE
    /\ uq' = FALSE
    /\ UNCHANGED <<services, stopFlag, termFlag, tpc, unpc, tq>>

Thread == \/ ThreadQueue \/ ThreadCheck \/ ThreadWoken
          \/ ThreadMark \/ ThreadWake \/ ThreadExit \/ ThreadCrashes
Unload == \/ UnloadSet \/ UnloadWake \/ UnloadQueue
          \/ UnloadCheck \/ UnloadWoken

KthNext == KthInsmod \/ UnloadStart \/ Thread \/ Unload \/ Signal

(***************************************************************************)
(* Properties                                                              *)
(***************************************************************************)
KthTypeOK ==
    /\ {stopFlag, termFlag, tq, uq, signalled} \subseteq BOOLEAN
    /\ tpc \in {"none", "queue", "check", "sleep", "mark", "wake", "exiting", "exited",
               "oops"}
    /\ unpc \in {"none", "set", "wake", "queue", "check", "sleep"}

(* "wait for the kernel thread to exit" (kthread.c:66), "notify the unload *)
(* process that we have exited" (kthread.c:36): unless a signal ends the   *)
(* wait, the thread has left the module's code when the module is gone.    *)
(* The code raises the flag rmmod waits for before its last wake-up, its   *)
(* message and do_exit (kthread.c:33-38).                                  *)
ThreadEndsFirst == mstate = "gone" /\ ~signalled => tpc \in {"none", "exited"}
=============================================================================
