---------------------------- MODULE SingleThread ---------------------------
(***************************************************************************)
(* The parts of proj1 that one thread runs by itself: the echo server,     *)
(* isPrime in a worker, and a work queue under its mutex.  A machine runs  *)
(* one of them; they share nothing.                                        *)
(***************************************************************************)
EXTENDS EchoServer, PrimeCheck, JobQueue

VARIABLE program   \* the part this machine runs

Programs == {"echosrv", "isPrime", "queue"}

threadVars == <<program, vars, checkVars, queueVars>>

(* The parts that do not run have one initial state only. *)
ThreadInit ==
    /\ program \in Programs
    /\ Init /\ CheckInit /\ QueueInit
    /\ program # "isPrime" => n = 0
    /\ program # "queue" => front = Null /\ rear = Null

Others ==
    /\ UNCHANGED program
    /\ program # "echosrv" => UNCHANGED vars
    /\ program # "isPrime" => UNCHANGED checkVars
    /\ program # "queue"   => UNCHANGED queueVars

ThreadNext ==
    \/ program = "echosrv" /\ Next /\ Others
    \/ program = "isPrime" /\ CheckNext /\ Others
    \/ program = "queue" /\ QueueNext /\ Others

(* The server process runs, and the peer keeps taking what is written.     *)
EchoServes == program = "echosrv" /\ ServerNext /\ Others

ThreadSpec == ThreadInit /\ [][ThreadNext]_threadVars /\ WF_threadVars(EchoServes)
=============================================================================
