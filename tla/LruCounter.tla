----------------------------- MODULE LruCounter -----------------------------
(***************************************************************************)
(* The page reference counters of proj3: a module whose timer counts the   *)
(* references of the pages on the LRU lists (lruCounter.c), and the patch  *)
(* of the page reclaim that relocates pages on the same lists              *)
(* (kernel.diff).  The timer's handler takes lru_lock with plain           *)
(* spin_lock, the reclaim with interrupts off.  A handler interrupts the   *)
(* process of its processor, which goes on when the handler has returned.  *)
(* One node and one lruvec; the code does the same for each of them.       *)
(***************************************************************************)
EXTENDS KernelServices

CONSTANTS Cpus, Pages,
          NumLists,   \* LRU lists, 5 in the kernel
          MaxCount    \* the counters saturate: 10000 in the code

ASSUME LruAssumption == NumLists \in Nat \ {0} /\ MaxCount \in Nat

VARIABLES lists,       \* the pages on each LRU list; their order plays no part
          my_ref_c,    \* the counter the patch adds to struct page
          lru_lock,    \* free, or the processor and context that hold it
          hcpu, hcpc,  \* processor and program counter of the handler
          hlist,       \* the list it counts next
          ppc, irqsOff,\* processor: process in the reclaim, interrupts off
          counted      \* page: how often the present pass has counted it

lruVars == <<lists, my_ref_c, lru_lock, hcpu, hcpc, hlist, ppc, irqsOff, counted>>

NoCpu == "none"
Unlocked == <<NoCpu, "free">>
Lists == 1 .. NumLists
Listed == UNION {lists[l] : l \in Lists}

LruInit ==
    /\ lists = [l \in Lists |-> {}]
    /\ my_ref_c = [p \in Pages |-> 0]
    /\ lru_lock = Unlocked
    /\ hcpu = NoCpu /\ hcpc = "idle" /\ hlist = 1
    /\ ppc = [c \in Cpus |-> "user"]
    /\ irqsOff = [c \in Cpus |-> FALSE]
    /\ counted = [p \in Pages |-> 0]

pageVars == <<lists, my_ref_c, counted>>

(***************************************************************************)
(* The rest of the kernel: pages move on and between the lists under the   *)
(* lock.                                                                   *)
(***************************************************************************)
MovePage(p, to) ==
    /\ mstate = "live" /\ lru_lock = Unlocked
    /\ lists' = [l \in Lists |-> IF l = to THEN lists[l] \cup {p} ELSE lists[l] \ {p}]
    /\ UNCHANGED <<services, my_ref_c, lru_lock, hcpu, hcpc, hlist, ppc, irqsOff, counted>>

(***************************************************************************)
(* timer_handler and ref_counter_watchdog                                  *)
(***************************************************************************)
LruInsmod ==
    /\ Insmod
    /\ armed' = TRUE
    /\ UNCHANGED <<refs, running, lruVars>>

CountFires(c) ==
    /\ ~irqsOff[c]
    /\ TimerFires
    /\ hcpu' = c /\ hcpc' = "lock"
    /\ counted' = [p \in Pages |-> 0]
    /\ UNCHANGED <<mstate, refs, lists, my_ref_c, lru_lock, hlist, ppc, irqsOff>>

(* Mutant: the lock is taken for one list at a time. *)
CountLockBriefly == Unlocked

CountKeepsLock == lru_lock

CountLock ==
    /\ hcpc = "lock" /\ lru_lock = Unlocked
    /\ lru_lock' = <<hcpu, "timer">>
    /\ hcpc' = "count" /\ hlist' = 1
    /\ UNCHANGED <<services, pageVars, hcpu, ppc, irqsOff>>

Count(p, referenced) ==
    CASE referenced /\ my_ref_c[p] < MaxCount   -> my_ref_c[p] + 1
      [] ~referenced /\ my_ref_c[p] > -MaxCount -> my_ref_c[p] - 1
      [] OTHER                                  -> my_ref_c[p]

(* count_ref_c_in_lru, on one list.  PG_referenced is set and cleared all  *)
(* over the kernel without the lock: any pages may have it.                *)
CountList ==
    /\ hcpc = "count"
    /\ \E referenced \in SUBSET Pages :
          my_ref_c' = [p \in Pages |-> IF p \in lists[hlist]
                                       THEN Count(p, p \in referenced) ELSE my_ref_c[p]]
    /\ counted' = [p \in Pages |-> counted[p] + (IF p \in lists[hlist] THEN 1 ELSE 0)]
    /\ IF hlist = NumLists THEN hcpc' = "unlock" /\ hlist' = 1
       ELSE hcpc' = hcpc /\ hlist' = hlist + 1
    /\ lru_lock' = CountKeepsLock
    /\ UNCHANGED <<services, lists, hcpu, ppc, irqsOff>>

CountUnlock ==
    /\ hcpc = "unlock"
    /\ lru_lock' = Unlocked
    /\ hcpc' = "rearm"
    /\ UNCHANGED <<services, pageVars, hcpu, hlist, ppc, irqsOff>>

CountRearm == armed' = TRUE

HandlerEnds ==
    /\ hcpc = "rearm"
    /\ CountRearm
    /\ running' = FALSE
    /\ hcpu' = NoCpu /\ hcpc' = "idle"
    /\ UNCHANGED <<mstate, refs, pageVars, lru_lock, hlist, ppc, irqsOff>>

LruExit ==
    /\ RmmodStart
    /\ UNCHANGED <<refs, armed, running, lruVars>>

LruExitTimer ==
    /\ mstate = "going"
    /\ DelTimerSync
    /\ mstate' = "gone"
    /\ UNCHANGED <<refs, lruVars>>

(***************************************************************************)
(* The reclaim (try_to_free_pages): spin_lock_irq, every list relocated,   *)
(* spin_unlock_irq.  A process stands still while the handler has its      *)
(* processor.                                                              *)
(***************************************************************************)
(* Mutant: spin_lock in place of spin_lock_irq. *)
DisableNot(c) == irqsOff' = irqsOff

Disable(c) == irqsOff' = [irqsOff EXCEPT ![c] = TRUE]

Reclaim(c) ==
    /\ mstate = "live" /\ hcpu # c /\ ppc[c] = "user"
    /\ Disable(c)
    /\ ppc' = [ppc EXCEPT ![c] = "lock"]
    /\ UNCHANGED <<services, pageVars, lru_lock, hcpu, hcpc, hlist>>

ReclaimLock(c) ==
    /\ hcpu # c /\ ppc[c] = "lock" /\ lru_lock = Unlocked
    /\ lru_lock' = <<c, "process">>
    /\ ppc' = [ppc EXCEPT ![c] = "relocate"]
    /\ UNCHANGED <<services, pageVars, hcpu, hcpc, hlist, irqsOff>>

(* relocate_least_freq looks for a victim and then deletes and adds the    *)
(* loop's cursor, which is the list head by then: deleting the head leaves *)
(* an empty list, and the pages are on none.                               *)
Relocated(list) == {}

(* On its way, from the second page of a list on, it compares counters     *)
(* through iter_page, which nobody has set: that may fault, with the lock  *)
(* held and the interrupts off, or, as nothing comes of the comparison, do *)
(* nothing (Relocate).                                                     *)
RelocateFaults(c) ==
    /\ hcpu # c /\ ppc[c] = "relocate"
    /\ \E l \in Lists : Cardinality(lists[l]) > 1
    /\ ppc' = [ppc EXCEPT ![c] = "oops"]
    /\ UNCHANGED <<services, pageVars, lru_lock, hcpu, hcpc, hlist, irqsOff>>

Faulted == \E c \in Cpus : ppc[c] = "oops"

Relocate(c) ==
    /\ hcpu # c /\ ppc[c] = "relocate"
    /\ lists' = [l \in Lists |-> Relocated(lists[l])]
    /\ ppc' = [ppc EXCEPT ![c] = "unlock"]
    /\ UNCHANGED <<services, my_ref_c, lru_lock, hcpu, hcpc, hlist, irqsOff, counted>>

ReclaimUnlock(c) ==
    /\ hcpu # c /\ ppc[c] = "unlock"
    /\ lru_lock' = Unlocked
    /\ irqsOff' = [irqsOff EXCEPT ![c] = FALSE]
    /\ ppc' = [ppc EXCEPT ![c] = "user"]
    /\ UNCHANGED <<services, pageVars, hcpu, hcpc, hlist>>

HandlerStep == CountList \/ CountUnlock \/ HandlerEnds
ReclaimStep(c) == ReclaimLock(c) \/ Relocate(c) \/ ReclaimUnlock(c)

(* After a fault the model stops. *)
LruNext ==
    /\ ~Faulted
    /\ \/ LruInsmod \/ LruExit \/ LruExitTimer \/ CountLock \/ HandlerStep
       \/ \E c \in Cpus :
             CountFires(c) \/ Reclaim(c) \/ ReclaimStep(c) \/ RelocateFaults(c)
       \/ \E p \in Pages, l \in Lists : MovePage(p, l)

(***************************************************************************)
(* Properties                                                              *)
(***************************************************************************)
LruTypeOK ==
    /\ lists \in [Lists -> SUBSET Pages]
    /\ counted \in [Pages -> Nat]
    /\ my_ref_c \in [Pages -> -MaxCount .. MaxCount]
    /\ hcpu \in Cpus \cup {NoCpu}
    /\ hcpc \in {"idle", "lock", "count", "unlock", "rearm"} /\ hlist \in Lists
    /\ ppc \in [Cpus -> {"user", "lock", "relocate", "unlock", "oops"}]

(* One pass of the handler counts every page that is on a list once, even  *)
(* when pages move between the lists.                                      *)
OncePerPass ==
    /\ \A p \in Pages : counted[p] <= 1
    /\ hcpc = "unlock" => \A p \in Listed : counted[p] = 1

(* The timer's part of the invariant. *)
LruTimerInv ==
    /\ running <=> hcpc # "idle"
    /\ mstate = "gone" => ~armed /\ ~running

(* A page is on one list, the lock is held by whoever looks at the lists,  *)
(* and a pass has counted the pages of the lists it has passed.            *)
LockedBy ==
    /\ hcpc \in {"count", "unlock"} => lru_lock = <<hcpu, "timer">>
    /\ \A c \in Cpus : ppc[c] \in {"relocate", "unlock"} => lru_lock = <<c, "process">>

Passed == CASE hcpc = "count" -> 1 .. hlist - 1
            [] hcpc = "unlock" -> Lists
            [] OTHER -> {}

LruInv ==
    /\ LruTypeOK
    /\ \A l, m \in Lists : l # m => lists[l] \cap lists[m] = {}
    /\ LockedBy
    /\ \A p \in Pages : counted[p] <= 1
    /\ hcpc = "lock" => \A p \in Pages : counted[p] = 0
    /\ hcpc \in {"count", "unlock"} => \A p \in Pages :
          counted[p] = IF \E l \in Passed : p \in lists[l] THEN 1 ELSE 0
=============================================================================
