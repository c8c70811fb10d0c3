----------------------------- MODULE ServerMain ----------------------------
(***************************************************************************)
(* The process of proj1/src/multisrv.c: the main thread's accept loop and  *)
(* its SIGINT handler, composed with the connection and worker threads of  *)
(* PrimeServer.  When main returns, every other thread dies where it is.   *)
(*                                                                         *)
(* The state modelled first is the one main reaches at its accept loop:    *)
(* mutexes, queues and workers exist.  The kernel delivers a signal sent   *)
(* to the process to its main thread, which does not block it.             *)
(***************************************************************************)
EXTENDS PrimeServer

VARIABLES
    mpc,     \* where the main thread is
    sigints  \* the number of SIGINTs so far, at most MaxSigints

CONSTANT MaxSigints

ASSUME SigintsAssumption == MaxSigints \in Nat

mainVars == <<vars, mpc, sigints>>

Alive == mpc \notin {"exited", "failed"}

MainInit ==
    /\ Init
    /\ mpc = "loop"
    /\ sigints = 0

(* Mutant: the loop forgets the flag. *)
MainLoopForever ==
    /\ mpc = "loop"
    /\ mpc' = "call"
    /\ UNCHANGED <<vars, sigints>>

(* while (! shutting_down) *)
MainLoop ==
    /\ mpc = "loop"
    /\ mpc' = IF shutting_down THEN "close" ELSE "call"
    /\ UNCHANGED <<vars, sigints>>

(* The test has been made and accept is being entered: a signal that comes *)
(* before this step finds no system call to interrupt.                     *)
MainCall ==
    /\ mpc = "call"
    /\ mpc' = "blocked"
    /\ UNCHANGED <<vars, sigints>>

(* accept returns a connection; a thread is created to serve it. *)
MainAccept ==
    /\ mpc = "blocked"
    /\ \E c \in Conns : Accept(c)
    /\ mpc' = "loop"
    /\ UNCHANGED sigints

(* accept fails with anything but EINTR: ERR_QUIT ends the process. *)
MainError ==
    /\ mpc = "blocked"
    /\ mpc' = "failed"
    /\ UNCHANGED <<vars, sigints>>

(* close(listenfd) and return: the process exits, with all its threads. *)
MainExit ==
    /\ mpc = "close"
    /\ mpc' = "exited"
    /\ UNCHANGED <<vars, sigints>>

(* SIGINT: the handler runs in the main thread, and accept, if main is     *)
(* blocked in it, returns EINTR (the handler is installed without          *)
(* SA_RESTART).                                                            *)
MainSigint ==
    /\ Alive
    /\ sigints < MaxSigints
    /\ Sigint
    /\ sigints' = sigints + 1
    /\ mpc' = IF mpc = "blocked" THEN "loop" ELSE mpc

(* The other threads run while the process lives. *)
ThreadStep ==
    /\ Alive
    /\ \/ \E c \in Conns : ConnNext(c)
       \/ \E w \in Workers : WorkerNext(w)
    /\ UNCHANGED <<mpc, sigints>>

MainNext ==
    \/ MainLoop \/ MainCall \/ MainAccept \/ MainError \/ MainExit
    \/ MainSigint
    \/ ThreadStep

MainSpec == MainInit /\ [][MainNext]_mainVars

(* The main thread and every other thread keep running; nothing is assumed *)
(* of clients and signals.                                                 *)
MainFairness ==
    /\ WF_mainVars(MainLoop \/ MainCall \/ MainExit)
    /\ \A c \in Conns :
          WF_mainVars(/\ Alive
                      /\ EnqueueAdd(c) \/ EnqueueUnlock(c) \/ SeeFlag(c)
                      /\ UNCHANGED <<mpc, sigints>>)
    /\ \A w \in Workers : WF_mainVars(Alive /\ WorkerNext(w) /\ UNCHANGED <<mpc, sigints>>)

MainFairSpec == MainSpec /\ MainFairness

-----------------------------------------------------------------------------
(* Properties. *)

MainTypeOK ==
    /\ TypeOK
    /\ mpc \in {"loop", "call", "blocked", "close", "exited", "failed"}
    /\ sigints \in 0 .. MaxSigints
    /\ shutting_down <=> sigints > 0

Accepted == {c \in Conns : cpc[c] # "none"}

(* After SIGINT the server takes on at most one more connection: the one   *)
(* main was already calling accept for.                                    *)
AtMostOneMore ==
    \A S \in SUBSET Conns :
        [](shutting_down /\ Accepted = S => [](Cardinality(Accepted \ S) <= 1))

(* A connection that polls its flags gets out of the loop, or the process  *)
(* ends, whether SIGINT arrives or not: threads never wait for each other, *)
(* and during shutdown the requests in progress are still answered.        *)
DrainsOrDies ==
    \A c \in Conns : cpc[c] = "wait" ~> (cpc[c] = "reply" \/ ~ Alive)

(* "to allow us to shut down" (multisrv.c:155): a SIGINT that finds main   *)
(* waiting in accept, or at the head of its loop, ends the process.  (One  *)
(* that comes between the test of the loop and accept does not: main then  *)
(* waits for one more connection or SIGINT.)                               *)
SigintEnds == shutting_down /\ mpc \in {"loop", "close"} ~> mpc = "exited"
=============================================================================
