----------------------------- MODULE SelfTimer ------------------------------
(***************************************************************************)
(* The timer of lab13 (timer/timer.c): its handler prints a line and arms  *)
(* the timer again; unloading has to stop a timer that never stays off.    *)
(***************************************************************************)
EXTENDS KernelServices

VARIABLE spc   \* the handler: idle, print, rearm or return

SelfInit == spc = "idle"

SelfInsmod ==
    /\ Insmod
    /\ armed' = TRUE
    /\ UNCHANGED <<refs, running, spc>>

SelfFires ==
    /\ TimerFires
    /\ spc' = "print"
    /\ UNCHANGED <<mstate, refs>>

SelfPrint ==
    /\ spc = "print"
    /\ spc' = "rearm"
    /\ UNCHANGED services

SelfRearms ==
    /\ spc = "rearm"
    /\ armed' = TRUE
    /\ spc' = "return"
    /\ UNCHANGED <<mstate, refs, running>>

SelfReturns ==
    /\ spc = "return"
    /\ running' = FALSE
    /\ spc' = "idle"
    /\ UNCHANGED <<mstate, refs, armed>>

SelfExitStart ==
    /\ RmmodStart
    /\ UNCHANGED <<refs, armed, running, spc>>

SelfExit ==
    /\ mstate = "going"
    /\ DelTimerSync
    /\ mstate' = "gone"
    /\ UNCHANGED <<refs, spc>>

SelfHandler == SelfFires \/ SelfPrint \/ SelfRearms \/ SelfReturns

SelfNext == SelfInsmod \/ SelfHandler \/ SelfExitStart \/ SelfExit

(***************************************************************************)
(* Properties                                                              *)
(***************************************************************************)
SelfTypeOK == spc \in {"idle", "print", "rearm", "return"}

(* The handler is running whenever it is at one of its steps. *)
SelfInv ==
    /\ running <=> spc # "idle"
    /\ mstate = "gone" => ~armed /\ ~running
=============================================================================
