--------------------------- MODULE KernelServices ---------------------------
(***************************************************************************)
(* What the kernel modules of the labs take from Linux: the module loader  *)
(* with its reference count, and one timer.  The services are external     *)
(* code, modelled as the labs use them.                                    *)
(***************************************************************************)
EXTENDS Integers, FiniteSets, Sequences

VARIABLES mstate,   \* none, live (init returned), going (exit runs), gone
          refs,     \* open files that hold the module
          armed,    \* the timer is pending
          running   \* the timer's handler runs

services == <<mstate, refs, armed, running>>

ServicesInit == mstate = "none" /\ refs = 0 /\ armed = FALSE /\ running = FALSE

ServicesOK == /\ mstate \in {"none", "live", "going", "gone"}
              /\ refs \in Nat /\ armed \in BOOLEAN /\ running \in BOOLEAN

(* insmod: the module's init function has returned 0. *)
Insmod == mstate = "none" /\ mstate' = "live"

(* open takes a reference to the module (fops.owner), the last close gives *)
(* it back; rmmod fails while there is one.                                *)
ModuleGet == mstate = "live" /\ refs' = refs + 1
ModulePut == refs' = refs - 1
RmmodStart == mstate = "live" /\ refs = 0 /\ mstate' = "going"
Rmmod == mstate = "live" /\ refs = 0 /\ mstate' = "gone"

(* A timer that fires is no longer pending; its handler may arm it again.  *)
(* A handler is never run twice at a time.                                 *)
TimerFires == armed /\ ~running /\ armed' = FALSE /\ running' = TRUE

(* del_timer_sync waits for a running handler and disarms the timer. *)
DelTimerSync == ~running /\ armed' = FALSE /\ UNCHANGED running
=============================================================================
