------------------------------- MODULE Kernel -------------------------------
(***************************************************************************)
(* The kernel labs side by side: a machine loads one of the modules, and   *)
(* the module, its users and the kernel's services run together until it   *)
(* is unloaded.  The labs share the services and nothing else.             *)
(***************************************************************************)
EXTENDS IrqDriver, NameList, CharDev, MmapDev, Deferred, KThreadLab, SelfTimer,
        LruCounter

VARIABLE lab   \* the module this machine loads

Labs == {"lab10", "lab11", "lab12", "deferred", "kthread", "timer", "lab14", "proj3"}

vars == <<lab, services, irqVars, listVars, cdevVars, mmapVars, defVars, kthVars,
          spc, lruVars>>

Init ==
    /\ lab \in Labs
    /\ ServicesInit
    /\ IrqInit /\ ListInit /\ CdevInit /\ MmapInit /\ DefInit /\ KthInit /\ SelfInit /\ LruInit
    /\ lab # "lab14" => alloc = "NONE"

(* The other labs stay as they are. *)
Alone ==
    /\ UNCHANGED lab
    /\ lab # "lab12"    => UNCHANGED irqVars
    /\ lab # "lab10"    => UNCHANGED listVars
    /\ lab # "lab11"    => UNCHANGED cdevVars
    /\ lab # "lab14"    => UNCHANGED mmapVars
    /\ lab # "deferred" => UNCHANGED defVars
    /\ lab # "kthread"  => UNCHANGED kthVars
    /\ lab # "timer"    => UNCHANGED spc
    /\ lab # "proj3"    => UNCHANGED lruVars

Next ==
    \/ lab = "lab12" /\ IrqNext /\ Alone
    \/ lab = "lab10" /\ ListNext /\ Alone
    \/ lab = "lab11" /\ CdevNext /\ Alone
    \/ lab = "lab14" /\ MmapNext /\ Alone
    \/ lab = "deferred" /\ DefNext /\ Alone
    \/ lab = "kthread" /\ KthNext /\ Alone
    \/ lab = "timer" /\ SelfNext /\ Alone
    \/ lab = "proj3" /\ LruNext /\ Alone

(***************************************************************************)
(* Fairness.  A process that can run gets to run, the kernel's threads and *)
(* its timer do, and a mutex is handed to those that wait in order; a      *)
(* caller of del_timer_sync looks again often enough to find the handler   *)
(* at rest, whose period is a second; the timer fires on some processor    *)
(* as soon as its interrupts are on, and lru_lock is a fair spinlock.      *)
(* Nobody has to open a device, to unload a module or to die.              *)
(***************************************************************************)
IrqStep(p)     == lab = "lab12" /\ (Access(p) \/ Close(p)) /\ Alone
DefHandler     == lab = "deferred" /\ ~broken /\ Handler /\ Alone
DefWork        == lab = "deferred" /\ ~broken /\ WorkRuns /\ Alone
DefExit        == lab = "deferred" /\ ~broken /\ Exit /\ Alone
DefIoctl(u)    == lab = "deferred" /\ ~broken /\ Ioctl(u) /\ Alone
KthThread      == lab = "kthread" /\ Thread /\ Alone
KthUnload      == lab = "kthread" /\ Unload /\ Alone
TimerHandler   == lab = "timer" /\ SelfHandler /\ Alone
TimerUnloads   == lab = "timer" /\ SelfExit /\ Alone
LruFires       == lab = "proj3" /\ ~Faulted /\ (\E c \in Cpus : CountFires(c)) /\ Alone
LruGetsLock    == lab = "proj3" /\ ~Faulted /\ CountLock /\ Alone
LruHandler     == lab = "proj3" /\ ~Faulted /\ HandlerStep /\ Alone
LruReclaims(c) == lab = "proj3" /\ ~Faulted /\ ReclaimStep(c) /\ Alone
LruUnloads     == lab = "proj3" /\ ~Faulted /\ LruExitTimer /\ Alone

Fairness ==
    /\ \A p \in Process : WF_vars(IrqStep(p))
    /\ WF_vars(DefHandler) /\ WF_vars(DefWork) /\ SF_vars(DefExit)
    /\ \A u \in DefUsers : WF_vars(DefIoctl(u))
    /\ WF_vars(KthThread) /\ WF_vars(KthUnload)
    /\ WF_vars(TimerHandler) /\ SF_vars(TimerUnloads)
    /\ SF_vars(LruFires) /\ SF_vars(LruGetsLock) /\ WF_vars(LruHandler)
    /\ \A c \in Cpus : WF_vars(LruReclaims(c))
    /\ SF_vars(LruUnloads)

Spec == Init /\ [][Next]_vars /\ Fairness

(***************************************************************************)
(* Properties, beside those of the labs' modules                           *)
(***************************************************************************)
TypeOK ==
    /\ lab \in Labs /\ ServicesOK
    /\ IrqTypeOK /\ ListTypeOK /\ CdevTypeOK /\ MmapTypeOK /\ DefTypeOK /\ KthTypeOK
    /\ SelfTypeOK /\ LruTypeOK

(* CommandsDoWhatTheySay of lab10's list_write, of every step. *)
NameCommands == [][CommandsDoWhatTheySay]_vars

(* Passes of proj3's timer handler go on being finished until the module   *)
(* is unloaded, whatever the reclaim does with the lock and the            *)
(* interrupts, unless it faults while it holds them.                       *)
CountingGoesOn == lab = "proj3" => []<>(hcpc = "unlock" \/ mstate # "live" \/ Faulted)

(* When a module has been unloaded neither its timer nor its handler nor   *)
(* its work item is under way, although a handler arms the timer and       *)
(* queues the work itself.                                                 *)
NothingAfterUnload == mstate = "gone" => ~armed /\ ~running /\ work = "idle"

(* rmmod comes back, although the handler it waits for arms the timer      *)
(* again and the thread it waits for has to be woken: no wake-up is lost   *)
(* between looking at a flag and going to sleep.  What the thread does     *)
(* after the module is gone is not covered: see ThreadEndsFirst.           *)
UnloadEnds == mstate = "going" ~> mstate = "gone" \/ broken \/ Faulted

(***************************************************************************)
(* The inductive invariant behind the safety properties                    *)
(***************************************************************************)
Holders ==
    CASE lab = "lab12"    -> IrqHolders
      [] lab = "lab11"    -> CdevHolders
      [] lab = "lab14"    -> MmapHolders
      [] lab = "deferred" -> DefHolders
      [] OTHER            -> {}

(* The module's references are counted right, and keep it loaded. *)
RefsInv ==
    /\ IsFiniteSet(Holders) /\ refs = Cardinality(Holders)
    /\ refs > 0 => mstate = "live"

(* What a lab leaves alone stays as it began. *)
ElsewhereInv ==
    /\ lab # "lab11" => access = 0
    /\ lab # "lab14" => MmapHolders = {} /\ alloc = "NONE"
    /\ lab # "deferred" => work = "idle"
    /\ lab \notin {"deferred", "timer", "proj3"} => ~armed /\ ~running

KernelInv ==
    /\ lab \in Labs /\ mstate \in {"none", "live", "going", "gone"}
    /\ RefsInv /\ ElsewhereInv
    /\ IrqInv /\ CdevInv /\ MmapInv /\ LruInv
    /\ lab = "deferred" => DefInv
    /\ lab = "timer" => SelfInv
    /\ lab = "proj3" => LruTimerInv
=============================================================================
