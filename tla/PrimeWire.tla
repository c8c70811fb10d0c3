----------------------------- MODULE PrimeWire -----------------------------
(***************************************************************************)
(* The conversation of a client of proj1 (client_work of echocli.c, the    *)
(* supervisor of driver.c: the same four calls per iteration) with         *)
(* serve_connection of multisrv.c over one TCP connection: length,         *)
(* acknowledgement, array, answer.                                         *)
(*                                                                         *)
(* Every int is sent by write and received by a single read, which returns *)
(* whatever has arrived: TCP keeps no boundaries between the writes.  The  *)
(* unit is one int; a read that splits an int only adds to the confusion a *)
(* short read causes.  An int carries what it was written as, which only   *)
(* the properties look at.  Writes do not block.                           *)
(***************************************************************************)
EXTENDS Naturals, Sequences

CONSTANTS
    N,           \* the length of the client's arrays: N, or array_length
    Iterations,  \* the iterations of the client: iteration(s)
    MaxNum       \* bound: the numbers tested are in 0 .. MaxNum

ASSUME WireAssumption ==
    N \in Nat \ {0} /\ Iterations \in Nat /\ MaxNum \in Nat \ {0}

Min2(a, b) == IF a < b THEN a ELSE b
Max2(a, b) == IF a < b THEN b ELSE a

VARIABLES
    toServer,  \* the ints written by the client and not yet read
    toClient,  \* the ints written by the server and not yet read
    cpc,       \* where the client is
    iter,      \* its loop index
    answer,    \* what it has read into output_arr
    spc,       \* where the server is
    len,       \* what the server takes for N
    input,     \* what it has read into input_arr
    short      \* has a read returned less than asked for?

clientVars == <<cpc, iter, answer>>
serverVars == <<spc, len, input>>
vars == <<toServer, toClient, clientVars, serverVars, short>>

Int(kind, it, v) == [kind |-> kind, iter |-> it, value |-> v]

Init ==
    /\ toServer = <<>> /\ toClient = <<>>
    /\ cpc = "len" /\ iter = 0 /\ answer = <<>>
    /\ spc = "len" /\ len = 0 /\ input = <<>>
    /\ short = FALSE

(* A read of at most n ints takes k of them off a stream.                  *)
Taken(stream, k) == SubSeq(stream, 1, k)
Rest(stream, k)  == SubSeq(stream, k + 1, Len(stream))
ReadSizes(stream, n) == 1 .. Min2(n, Len(stream))

-----------------------------------------------------------------------------
(* The client.  A write succeeds although the server has closed (the reset *)
(* comes later), or fails.                                                 *)

ClientLen ==
    /\ cpc = "len" /\ iter < Iterations
    /\ toServer' = Append(toServer, Int("len", iter, N))
    /\ cpc' = "ack"
    /\ UNCHANGED <<toClient, iter, answer, serverVars, short>>

(* Mutant: the acknowledgement is not read. *)
ClientNoAck ==
    /\ cpc = "ack" /\ toClient # <<>>
    /\ cpc' = "array"
    /\ UNCHANGED <<toClient, toServer, iter, answer, serverVars, short>>

(* The value of the acknowledgement is never looked at. *)
ClientAck ==
    /\ cpc = "ack" /\ toClient # <<>>
    /\ toClient' = Tail(toClient)
    /\ cpc' = "array"
    /\ UNCHANGED <<toServer, iter, answer, serverVars, short>>

ClientArray ==
    /\ cpc = "array"
    /\ \E numbers \in [1 .. N -> 0 .. MaxNum] :
          toServer' = toServer \o [j \in 1 .. N |-> Int("num", iter, numbers[j])]
    /\ cpc' = "answer"
    /\ UNCHANGED <<toClient, iter, answer, serverVars, short>>

ClientAnswer ==
    /\ cpc = "answer"
    /\ \E k \in ReadSizes(toClient, N) :
          /\ answer' = Taken(toClient, k)
          /\ toClient' = Rest(toClient, k)
          /\ short' = (short \/ k < N)
    /\ iter' = iter + 1
    /\ cpc' = "len"
    /\ UNCHANGED <<toServer, serverVars>>

(* The iterations are done; or a call failed or returned 0; or the driver  *)
(* is shutting down: goto quit.                                            *)
ClientClose ==
    /\ \/ cpc = "len" /\ iter = Iterations
       \/ cpc \in {"ack", "answer"} /\ toClient = <<>> /\ spc = "closed"
    /\ cpc' = "closed"
    /\ UNCHANGED <<toServer, toClient, iter, answer, serverVars, short>>

ClientGivesUp ==
    /\ cpc # "closed"
    /\ cpc' = "closed"
    /\ UNCHANGED <<toServer, toClient, iter, answer, serverVars, short>>

-----------------------------------------------------------------------------
(* The server. *)

ServerLen ==
    /\ spc = "len" /\ toServer # <<>>
    /\ len' = Head(toServer).value
    /\ toServer' = Tail(toServer)
    /\ spc' = "ack"
    /\ UNCHANGED <<toClient, input, clientVars, short>>

ServerAck ==
    /\ spc = "ack"
    /\ toClient' = Append(toClient, Int("ack", 0, 1))
    /\ spc' = "array"
    /\ UNCHANGED <<toServer, len, input, clientVars, short>>

(* With len 0 the read returns 0 at once, which is goto quit.              *)
ServerArray ==
    /\ spc = "array" /\ len > 0
    /\ \E k \in ReadSizes(toServer, len) :
          /\ input' = Taken(toServer, k)
          /\ toServer' = Rest(toServer, k)
          /\ short' = (short \/ k < len)
    /\ spc' = "answer"
    /\ UNCHANGED <<toClient, len, clientVars>>

(* Mutant: the answer is one int short. *)
ServerAnswerShort ==
    /\ spc = "answer"
    /\ toClient' = toClient \o
          [j \in 1 .. len - 1 |-> Int("out", input[1].iter, 0)]
    /\ spc' = "len"
    /\ UNCHANGED <<toServer, len, input, clientVars, short>>

(* len ints, each marked with the iteration of the input it answers (with  *)
(* no iteration if the input was not read).                                *)
ServerAnswer ==
    /\ spc = "answer"
    /\ toClient' = toClient \o
          [j \in 1 .. len |->
              Int("out", IF j <= Len(input) THEN input[j].iter ELSE Iterations, 0)]
    /\ spc' = "len"
    /\ UNCHANGED <<toServer, len, input, clientVars, short>>

(* read returned <= 0: the client has closed, or len is 0.                 *)
ServerClose ==
    /\ \/ spc \in {"len", "array"} /\ toServer = <<>> /\ cpc = "closed"
       \/ spc = "array" /\ len = 0
    /\ spc' = "closed"
    /\ UNCHANGED <<toServer, toClient, len, input, clientVars, short>>

(* goto quit: a call fails, or the server has set shutting_down.  What it  *)
(* has written still arrives.                                              *)
ServerQuits ==
    /\ spc # "closed"
    /\ spc' = "closed"
    /\ UNCHANGED <<toServer, toClient, len, input, clientVars, short>>

ClientNext == ClientLen \/ ClientAck \/ ClientArray \/ ClientAnswer \/ ClientClose
ServerNext == ServerLen \/ ServerAck \/ ServerArray \/ ServerAnswer \/ ServerClose

Next == ClientNext \/ ClientGivesUp \/ ServerNext \/ ServerQuits

Spec == Init /\ [][Next]_vars

(* Both processes run, and what has been written arrives. *)
FairSpec == Spec /\ WF_vars(ClientNext) /\ WF_vars(ServerNext)

-----------------------------------------------------------------------------
(* Properties. *)

Ints == [kind : {"len", "num", "ack", "out"}, iter : 0 .. Iterations,
         value : 0 .. Max2(N, MaxNum)]

(* No read stores more than its array holds.                               *)
TypeOK ==
    /\ toServer \in Seq(Ints) /\ toClient \in Seq(Ints)
    /\ cpc \in {"len", "ack", "array", "answer", "closed"}
    /\ iter \in 0 .. Iterations
    /\ cpc \in {"ack", "array", "answer"} => iter < Iterations
    /\ answer \in Seq(Ints) /\ Len(answer) <= N
    /\ spc \in {"len", "ack", "array", "answer", "closed"}
    /\ len \in 0 .. Max2(N, MaxNum)
    /\ input \in Seq(Ints)
    /\ spc = "answer" => Len(input) \in 1 .. len
    /\ short \in BOOLEAN

(* Client and server never wait for each other, however the ints are       *)
(* misread after a short read: the server writes at least as many ints as  *)
(* it has read before it waits, the client reads at most as many as it has *)
(* written before it stops waiting.                                        *)
ClientWaits == cpc \in {"ack", "answer"} /\ toClient = <<>>
ServerWaits == toServer = <<>> /\ (spc = "len" \/ (spc = "array" /\ len > 0))
NoMutualWait == ~ (ClientWaits /\ ServerWaits)

(* The inductive form: the ints under way cover what the client is owed,   *)
(* except for what the server has read and not yet answered.               *)
Owed   == CASE cpc = "ack" -> 1 [] cpc = "answer" -> N [] OTHER -> 0
Unpaid == CASE spc = "ack" -> 1 [] spc = "answer" -> Len(input) [] OTHER -> 0

IntsUnderWay ==
    cpc # "closed" /\ spc # "closed" =>
        Len(toServer) + Len(toClient) + Unpaid >= Owed

(* "send data to server and check that it returns it exactly"              *)
(* (driver.c:179; the check is not in the code): as long as every read     *)
(* returns all that was asked for, an iteration ends with the N answers to *)
(* its own numbers.                                                        *)
OwnAnswer ==
    ~ short /\ cpc = "len" /\ iter > 0 =>
        /\ Len(answer) = N
        /\ \A j \in 1 .. N : answer[j].kind = "out" /\ answer[j].iter = iter - 1

(* The inductive form: as long as no read has been short, client and       *)
(* server take turns, and the streams hold only what one of them is about  *)
(* to read.                                                                *)
AllOf(s, kind, it) ==
    Len(s) = N /\ \A j \in 1 .. N : s[j].kind = kind /\ s[j].iter = it

Silent == toServer = <<>> /\ toClient = <<>>

TakingTurns ==
    \/ /\ cpc = "len" /\ spc = "len" /\ Silent
       /\ iter > 0 => AllOf(answer, "out", iter - 1)
    \/ /\ cpc = "ack" /\ spc = "len"
       /\ toServer = <<Int("len", iter, N)>> /\ toClient = <<>>
    \/ cpc = "ack" /\ spc = "ack" /\ len = N /\ Silent
    \/ /\ cpc = "ack" /\ spc = "array" /\ len = N
       /\ toServer = <<>> /\ toClient = <<Int("ack", 0, 1)>>
    \/ cpc = "array" /\ spc = "array" /\ len = N /\ Silent
    \/ /\ cpc = "answer" /\ spc = "array" /\ len = N
       /\ AllOf(toServer, "num", iter) /\ toClient = <<>>
    \/ cpc = "answer" /\ spc = "answer" /\ len = N /\ AllOf(input, "num", iter) /\ Silent
    \/ cpc = "answer" /\ spc = "len" /\ toServer = <<>> /\ AllOf(toClient, "out", iter)

(* A server that quits leaves the client what it has written.              *)
ServerGone ==
    /\ spc = "closed"
    /\ \/ /\ cpc = "len" /\ toClient = <<>>
          /\ iter > 0 => AllOf(answer, "out", iter - 1)
       \/ cpc = "ack" /\ toClient \in {<<>>, <<Int("ack", 0, 1)>>}
       \/ cpc = "array" /\ toClient = <<>>
       \/ cpc = "answer" /\ (toClient = <<>> \/ AllOf(toClient, "out", iter))

InTurn == TakingTurns \/ ServerGone

InStep == ~ short /\ cpc # "closed" => InTurn

(* The conversation comes to an end on both sides.                         *)
BothEnd == <>(cpc = "closed" /\ spc = "closed")
=============================================================================
