-------------------------- MODULE PrimeWire_proofs -------------------------
(***************************************************************************)
(* Client and server of PrimeWire never wait for each other, and the       *)
(* client gets the answers to its own numbers, for every array length,     *)
(* number of iterations and range of numbers.                              *)
(***************************************************************************)
EXTENDS PrimeWire, TLAPS

USE DEF vars, clientVars, serverVars

(* A read takes a non-empty part of a stream and leaves the rest.          *)
LEMMA ReadSplits ==
    ASSUME NEW stream \in Seq(Ints), NEW n \in Nat, NEW k \in ReadSizes(stream, n)
    PROVE  /\ k \in 1 .. n
           /\ k <= Len(stream)
           /\ Taken(stream, k) \in Seq(Ints)
           /\ Len(Taken(stream, k)) = k
           /\ Rest(stream, k) \in Seq(Ints)
           /\ Len(Rest(stream, k)) = Len(stream) - k
<1>1. k \in 1 .. n /\ k \in 1 .. Len(stream)
  BY DEF ReadSizes, Min2
<1> QED
  BY <1>1 DEF Taken, Rest

LEMMA BoundNat == Max2(N, MaxNum) \in Nat /\ N <= Max2(N, MaxNum)
BY WireAssumption DEF Max2

(* What the server writes in answer to an array.                           *)
Answers(n) ==
    [j \in 1 .. n |->
        Int("out", IF j <= Len(input) THEN input[j].iter ELSE Iterations, 0)]

LEMMA AnswersTyped ==
    ASSUME TypeOK, NEW n \in Nat
    PROVE  Answers(n) \in Seq(Ints) /\ Len(Answers(n)) = n
<1>1. ASSUME NEW j \in 1 .. n
      PROVE  Int("out", IF j <= Len(input) THEN input[j].iter ELSE Iterations, 0) \in Ints
  <2>1. j <= Len(input) => input[j] \in Ints
    BY DEF TypeOK
  <2>2. (IF j <= Len(input) THEN input[j].iter ELSE Iterations) \in 0 .. Iterations
    BY <2>1, WireAssumption DEF Ints
  <2>3. 0 \in 0 .. Max2(N, MaxNum)
    BY WireAssumption DEF Max2
  <2> QED
    BY <2>2, <2>3 DEF Int, Ints
<1> QED
  BY <1>1 DEF Answers

(* What the client writes after its acknowledgement.                       *)
Numbers(numbers) == [j \in 1 .. N |-> Int("num", iter, numbers[j])]

LEMMA NumbersTyped ==
    ASSUME TypeOK, NEW numbers \in [1 .. N -> 0 .. MaxNum]
    PROVE  Numbers(numbers) \in Seq(Ints) /\ Len(Numbers(numbers)) = N
<1>1. ASSUME NEW j \in 1 .. N
      PROVE  Int("num", iter, numbers[j]) \in Ints
  <2>1. numbers[j] \in 0 .. Max2(N, MaxNum)
    BY WireAssumption DEF Max2
  <2> QED
    BY <2>1 DEF Int, Ints, TypeOK
<1> QED
  BY <1>1, WireAssumption DEF Numbers

-----------------------------------------------------------------------------
(* Every state of the conversation is well typed: no read stores more than *)
(* its array holds, whatever the server takes for the length.              *)
THEOREM WireTyped == Spec => []TypeOK
<1>1. Init => TypeOK
  <2>1. <<>> \in Seq(Ints) /\ Len(<<>>) <= N
    BY WireAssumption
  <2>2. 0 \in 0 .. Iterations /\ 0 \in 0 .. Max2(N, MaxNum)
    BY WireAssumption, BoundNat
  <2> QED
    BY <2>1, <2>2 DEF Init, TypeOK
<1>2. TypeOK /\ [Next]_vars => TypeOK'
  <2> SUFFICES ASSUME TypeOK, [Next]_vars PROVE TypeOK'
    OBVIOUS
  <2>1. CASE ClientLen
    <3>1. Int("len", iter, N) \in Ints
      BY WireAssumption DEF Int, Ints, TypeOK, Max2
    <3> QED
      BY <2>1, <3>1 DEF ClientLen, TypeOK
  <2>2. CASE ClientAck
    BY <2>2 DEF ClientAck, TypeOK
  <2>3. CASE ClientArray
    <3>1. PICK numbers \in [1 .. N -> 0 .. MaxNum] :
             toServer' = toServer \o Numbers(numbers)
      BY <2>3 DEF ClientArray, Numbers
    <3>2. toServer' \in Seq(Ints)
      BY <3>1, NumbersTyped DEF TypeOK
    <3> QED
      BY <2>3, <3>2 DEF ClientArray, TypeOK
  <2>4. CASE ClientAnswer
    <3>1. PICK k \in ReadSizes(toClient, N) :
             /\ answer' = Taken(toClient, k)
             /\ toClient' = Rest(toClient, k)
             /\ short' = (short \/ k < N)
      BY <2>4 DEF ClientAnswer
    <3>2. answer' \in Seq(Ints) /\ Len(answer') <= N /\ toClient' \in Seq(Ints)
      BY <3>1, ReadSplits, WireAssumption DEF TypeOK
    <3>3. short' \in BOOLEAN
      BY <3>1
    <3>4. iter' \in 0 .. Iterations
      BY <2>4, WireAssumption DEF ClientAnswer, TypeOK
    <3> QED
      BY <2>4, <3>2, <3>3, <3>4 DEF ClientAnswer, TypeOK
  <2>5. CASE ClientClose
    BY <2>5 DEF ClientClose, TypeOK
  <2>6. CASE ClientGivesUp
    BY <2>6 DEF ClientGivesUp, TypeOK
  <2>7. CASE ServerLen
    <3>1. Head(toServer) \in Ints
      BY <2>7 DEF ServerLen, TypeOK
    <3>2. len' \in 0 .. Max2(N, MaxNum)
      BY <2>7, <3>1 DEF ServerLen, Ints
    <3>3. toServer' \in Seq(Ints)
      BY <2>7 DEF ServerLen, TypeOK
    <3> QED
      BY <2>7, <3>2, <3>3 DEF ServerLen, TypeOK
  <2>8. CASE ServerAck
    <3>1. Int("ack", 0, 1) \in Ints
      BY WireAssumption DEF Int, Ints, Max2
    <3> QED
      BY <2>8, <3>1 DEF ServerAck, TypeOK
  <2>9. CASE ServerArray
    <3>1. PICK k \in ReadSizes(toServer, len) :
             /\ input' = Taken(toServer, k)
             /\ toServer' = Rest(toServer, k)
             /\ short' = (short \/ k < len)
      BY <2>9 DEF ServerArray
    <3>2. len \in Nat
      BY BoundNat DEF TypeOK
    <3>3. input' \in Seq(Ints) /\ Len(input') \in 1 .. len /\ toServer' \in Seq(Ints)
      BY <3>1, <3>2, ReadSplits DEF TypeOK
    <3>4. short' \in BOOLEAN
      BY <3>1
    <3> QED
      BY <2>9, <3>3, <3>4 DEF ServerArray, TypeOK
  <2>10. CASE ServerAnswer
    <3>1. toClient' = toClient \o Answers(len)
      BY <2>10 DEF ServerAnswer, Answers
    <3>2. toClient' \in Seq(Ints)
      BY <3>1, AnswersTyped, BoundNat DEF TypeOK
    <3> QED
      BY <2>10, <3>2 DEF ServerAnswer, TypeOK
  <2>11. CASE ServerClose
    BY <2>11 DEF ServerClose, TypeOK
  <2>12. CASE ServerQuits
    BY <2>12 DEF ServerQuits, TypeOK
  <2>13. CASE UNCHANGED vars
    BY <2>13 DEF TypeOK
  <2> QED
    BY <2>1, <2>2, <2>3, <2>4, <2>5, <2>6, <2>7, <2>8, <2>9, <2>10, <2>11,
       <2>12, <2>13 DEF Next, ClientNext, ServerNext
<1> QED
  BY <1>1, <1>2, PTL DEF Spec

-----------------------------------------------------------------------------
(* Every step keeps enough ints under way for the client.                  *)
(* What the arithmetic below needs of the types.                           *)
Naturalness ==
    /\ Len(toServer) \in Nat /\ Len(toClient) \in Nat
    /\ Owed \in Nat /\ Unpaid \in Nat

LEMMA AllNatural == TypeOK => Naturalness
<1> SUFFICES ASSUME TypeOK PROVE Naturalness
  OBVIOUS
<1>1. Len(toServer) \in Nat /\ Len(toClient) \in Nat
  BY DEF TypeOK
<1>2. Owed \in Nat
  BY WireAssumption DEF Owed
<1>3. Unpaid \in Nat
  BY DEF TypeOK, Unpaid
<1> QED
  BY <1>1, <1>2, <1>3 DEF Naturalness

LEMMA ConcatLength ==
    ASSUME NEW s \in Seq(Ints), NEW t \in Seq(Ints)
    PROVE  Len(s \o t) = Len(s) + Len(t)
OBVIOUS

(* Every step keeps enough ints under way for the client.                  *)
LEMMA UnderWayStep ==
    ASSUME TypeOK, Naturalness, Naturalness', IntsUnderWay, [Next]_vars
    PROVE  IntsUnderWay'
<1>1. CASE ClientLen
  <2>1. Len(toServer') = Len(toServer) + 1 /\ toClient' = toClient
    BY <1>1 DEF ClientLen, TypeOK
  <2>2. Owed = 0 /\ Owed' = 1 /\ Unpaid' = Unpaid
    BY <1>1 DEF ClientLen, Owed, Unpaid
  <2> QED
    BY <1>1, <2>1, <2>2 DEF ClientLen, IntsUnderWay, Naturalness
<1>2. CASE ClientAck
  <2>1. Len(toClient') = Len(toClient) - 1 /\ toServer' = toServer
    BY <1>2 DEF ClientAck, TypeOK
  <2>2. Owed = 1 /\ Owed' = 0 /\ Unpaid' = Unpaid
    BY <1>2 DEF ClientAck, Owed, Unpaid
  <2> QED
    BY <1>2, <2>1, <2>2 DEF ClientAck, IntsUnderWay, Naturalness
<1>3. CASE ClientArray
  <2>1. PICK numbers \in [1 .. N -> 0 .. MaxNum] : toServer' = toServer \o Numbers(numbers)
    BY <1>3 DEF ClientArray, Numbers
  <2>2. Numbers(numbers) \in Seq(Ints) /\ Len(Numbers(numbers)) = N
    BY NumbersTyped
  <2>3. Len(toServer') = Len(toServer) + N /\ toClient' = toClient
    BY <1>3, <2>1, <2>2, ConcatLength DEF ClientArray, TypeOK
  <2>4. Owed = 0 /\ Owed' = N /\ Unpaid' = Unpaid
    BY <1>3 DEF ClientArray, Owed, Unpaid
  <2> QED
    BY <1>3, <2>3, <2>4, WireAssumption DEF ClientArray, IntsUnderWay, Naturalness
<1>4. CASE ClientAnswer
  <2>1. PICK k \in ReadSizes(toClient, N) : toClient' = Rest(toClient, k)
    BY <1>4 DEF ClientAnswer
  <2>2. k \in 1 .. N /\ Len(toClient') = Len(toClient) - k /\ toServer' = toServer
    BY <1>4, <2>1, ReadSplits, WireAssumption DEF ClientAnswer, TypeOK
  <2>3. Owed = N /\ Owed' = 0 /\ Unpaid' = Unpaid
    BY <1>4 DEF ClientAnswer, Owed, Unpaid
  <2> QED
    BY <1>4, <2>2, <2>3, WireAssumption DEF ClientAnswer, IntsUnderWay, Naturalness
<1>5. CASE ClientClose \/ ClientGivesUp \/ ServerClose \/ ServerQuits
  BY <1>5 DEF ClientClose, ClientGivesUp, ServerClose, ServerQuits, IntsUnderWay
<1>6. CASE ServerLen
  <2>1. Len(toServer') = Len(toServer) - 1 /\ toClient' = toClient
    BY <1>6 DEF ServerLen, TypeOK
  <2>2. Unpaid = 0 /\ Unpaid' = 1 /\ Owed' = Owed
    BY <1>6 DEF ServerLen, Owed, Unpaid
  <2> QED
    BY <1>6, <2>1, <2>2 DEF ServerLen, IntsUnderWay, Naturalness
<1>7. CASE ServerAck
  <2>1. Len(toClient') = Len(toClient) + 1 /\ toServer' = toServer
    BY <1>7 DEF ServerAck, TypeOK
  <2>2. Unpaid = 1 /\ Unpaid' = 0 /\ Owed' = Owed
    BY <1>7 DEF ServerAck, Owed, Unpaid
  <2> QED
    BY <1>7, <2>1, <2>2 DEF ServerAck, IntsUnderWay, Naturalness
<1>8. CASE ServerArray
  <2>1. PICK k \in ReadSizes(toServer, len) :
           input' = Taken(toServer, k) /\ toServer' = Rest(toServer, k)
    BY <1>8 DEF ServerArray
  <2>2. len \in Nat
    BY BoundNat DEF TypeOK
  <2>3. Len(toServer') = Len(toServer) - Len(input') /\ toClient' = toClient
    BY <1>8, <2>1, <2>2, ReadSplits, SMTT(20) DEF ServerArray, TypeOK
  <2>4. Unpaid = 0 /\ Unpaid' = Len(input') /\ Owed' = Owed
    BY <1>8 DEF ServerArray, Owed, Unpaid
  <2> QED
    BY <1>8, <2>3, <2>4 DEF ServerArray, IntsUnderWay, Naturalness
<1>9. CASE ServerAnswer
  <2>1. toClient' = toClient \o Answers(len)
    BY <1>9 DEF ServerAnswer, Answers
  <2>2. len \in Nat /\ Len(input) <= len
    BY <1>9, BoundNat DEF ServerAnswer, TypeOK
  <2>3. Answers(len) \in Seq(Ints) /\ Len(Answers(len)) = len
    BY <2>2, AnswersTyped
  <2>4. Len(toClient') = Len(toClient) + len /\ toServer' = toServer
    BY <1>9, <2>1, <2>3, ConcatLength DEF ServerAnswer, TypeOK
  <2>5. Unpaid = Len(input) /\ Unpaid' = 0 /\ Owed' = Owed
    BY <1>9 DEF ServerAnswer, Owed, Unpaid
  <2> QED
    BY <1>9, <2>2, <2>4, <2>5 DEF ServerAnswer, IntsUnderWay, Naturalness
<1>10. CASE UNCHANGED vars
  BY <1>10 DEF IntsUnderWay, Owed, Unpaid
<1> QED
  BY <1>1, <1>2, <1>3, <1>4, <1>5, <1>6, <1>7, <1>8, <1>9, <1>10
     DEF Next, ClientNext, ServerNext

(* Enough ints under way: somebody has something to read.                  *)
LEMMA UnderWayEnough ==
    ASSUME TypeOK, IntsUnderWay
    PROVE  NoMutualWait
<1> SUFFICES ASSUME ClientWaits, ServerWaits PROVE FALSE
  BY DEF NoMutualWait
<1>1. Len(toServer) = 0 /\ Len(toClient) = 0
  BY DEF ClientWaits, ServerWaits
<1>2. Unpaid = 0
  BY DEF ServerWaits, Unpaid
<1>3. Owed \in Nat \ {0}
  BY WireAssumption DEF ClientWaits, Owed
<1>4. cpc # "closed" /\ spc # "closed"
  BY DEF ClientWaits, ServerWaits
<1> QED
  BY <1>1, <1>2, <1>3, <1>4 DEF IntsUnderWay

(* Client and server never wait for each other on empty streams, whatever  *)
(* part of what has arrived each read returns.                             *)
THEOREM NeverBothWait == Spec => []NoMutualWait
<1>1. Init => IntsUnderWay
  BY DEF Init, IntsUnderWay, Owed, Unpaid
<1>2. TypeOK /\ TypeOK' /\ IntsUnderWay /\ [Next]_vars => IntsUnderWay'
  <2>1. TypeOK => Naturalness
    BY AllNatural
  <2>2. TypeOK' => Naturalness'
    BY <2>1, PTL
  <2> QED
    BY <2>1, <2>2, UnderWayStep
<1>3. TypeOK /\ IntsUnderWay => NoMutualWait
  BY UnderWayEnough
<1> QED
  BY <1>1, <1>2, <1>3, WireTyped, PTL DEF Spec

-----------------------------------------------------------------------------
(* As long as every read returns all that was asked for, client and server *)
(* take turns.                                                             *)

(* A read of all of a stream leaves nothing of it.                         *)
LEMMA WholeRead ==
    ASSUME NEW s \in Seq(Ints)
    PROVE  Taken(s, Len(s)) = s /\ Rest(s, Len(s)) = <<>>
BY DEF Taken, Rest

(* A server that has quit changes nothing more; the client goes on.        *)
LEMMA GoneStep ==
    ASSUME TypeOK, ServerGone, ~ short, ~ short', cpc # "closed", cpc' # "closed", [Next]_vars
    PROVE  ServerGone'
<1>1. spc = "closed"
  BY DEF ServerGone
<1>2. N \in Nat \ {0} /\ iter \in Nat /\ toClient \in Seq(Ints)
  BY WireAssumption DEF TypeOK
<1>3. CASE ClientLen
  BY <1>3 DEF ClientLen, ServerGone
<1>4. CASE ClientAck
  <2>1. cpc = "ack" /\ toClient = <<Int("ack", 0, 1)>>
    BY <1>4 DEF ClientAck, ServerGone
  <2>2. Tail(toClient) = <<>>
    BY <2>1
  <2> QED
    BY <1>1, <1>4, <2>2 DEF ClientAck, ServerGone
<1>5. CASE ClientArray
  BY <1>5 DEF ClientArray, ServerGone
<1>6. CASE ClientAnswer
  <2>1. AllOf(toClient, "out", iter)
    BY <1>2, <1>6 DEF ClientAnswer, ServerGone, ReadSizes, Min2
  <2>2. PICK k \in ReadSizes(toClient, N) :
           /\ answer' = Taken(toClient, k) /\ toClient' = Rest(toClient, k)
           /\ short' = (short \/ k < N)
    BY <1>6 DEF ClientAnswer
  <2>3. k = Len(toClient)
    <3>1. ~ (k < N)
      BY <2>2, Zenon
    <3>2. Len(toClient) = N
      BY <2>1 DEF AllOf
    <3>3. k \in 1 .. N
      BY <1>2, <2>2, <3>2, ReadSplits
    <3> QED
      BY <1>2, <3>1, <3>2, <3>3
  <2>4. answer' = toClient /\ toClient' = <<>>
    BY <1>2, <2>2, <2>3, WholeRead
  <2>5. cpc' = "len" /\ iter' = iter + 1 /\ spc' = spc
    BY <1>6 DEF ClientAnswer
  <2>6. AllOf(answer', "out", iter' - 1)
    BY <1>2, <2>1, <2>4, <2>5 DEF AllOf
  <2> QED
    BY <1>1, <2>4, <2>5, <2>6 DEF ServerGone, AllOf
<1>7. CASE ClientClose \/ ClientGivesUp
  BY <1>7 DEF ClientClose, ClientGivesUp
<1>8. CASE ServerNext \/ ServerQuits
  BY <1>1, <1>8 DEF ServerNext, ServerLen, ServerAck, ServerArray, ServerAnswer, ServerClose,
                    ServerQuits
<1>9. CASE UNCHANGED vars
  BY <1>9 DEF ServerGone, AllOf
<1> QED
  BY <1>3, <1>4, <1>5, <1>6, <1>7, <1>8, <1>9 DEF Next, ClientNext

LEMMA InStepStep ==
    ASSUME TypeOK, InStep, [Next]_vars
    PROVE  InStep'
<1> SUFFICES ASSUME ~ short', cpc' # "closed" PROVE InTurn'
  BY DEF InStep
<1>0. ~ short /\ cpc # "closed" /\ InTurn
  <2>1. ~ short
    <3>1. CASE ClientAnswer
      BY <3>1, Zenon DEF ClientAnswer
    <3>2. CASE ServerArray
      BY <3>2, Zenon DEF ServerArray
    <3>3. CASE UNCHANGED short
      BY <3>3
    <3> QED
      BY <3>1, <3>2, <3>3
         DEF Next, ClientNext, ServerNext, ClientLen, ClientAck, ClientArray, ClientClose,
             ClientGivesUp, ServerLen, ServerAck, ServerAnswer, ServerClose, ServerQuits
  <2>2. cpc # "closed"
    BY DEF Next, ClientNext, ServerNext, ClientLen, ClientAck, ClientArray, ClientAnswer,
           ClientClose, ClientGivesUp, ServerLen, ServerAck, ServerArray, ServerAnswer,
           ServerClose, ServerQuits
  <2> QED
    BY <2>1, <2>2 DEF InStep
<1>g. CASE ServerGone
  BY <1>0, <1>g, GoneStep DEF InTurn
<1> SUFFICES ASSUME ~ ServerGone PROVE InTurn'
  BY <1>g
<1>1. ~ short /\ cpc # "closed" /\ TakingTurns
  BY <1>0 DEF InTurn
<1>2. N \in Nat \ {0} /\ iter \in Nat
  BY WireAssumption DEF TypeOK
<1>3. CASE ClientLen
  <2>1. cpc = "len" /\ spc = "len" /\ Silent
    BY <1>1, <1>3 DEF ClientLen, TakingTurns
  <2>2. Append(<<>>, Int("len", iter, N)) = <<Int("len", iter, N)>>
    OBVIOUS
  <2> QED
    BY <1>3, <2>1, <2>2 DEF ClientLen, Silent, TakingTurns, InTurn
<1>4. CASE ClientAck
  <2>1. /\ cpc = "ack" /\ spc = "array" /\ len = N
        /\ toServer = <<>> /\ toClient = <<Int("ack", 0, 1)>>
    BY <1>1, <1>4 DEF ClientAck, TakingTurns, Silent
  <2>2. Tail(toClient) = <<>>
    BY <2>1
  <2> QED
    BY <1>4, <2>1, <2>2 DEF ClientAck, Silent, TakingTurns, InTurn
<1>5. CASE ClientArray
  <2>1. cpc = "array" /\ spc = "array" /\ len = N /\ Silent
    BY <1>1, <1>5 DEF ClientArray, TakingTurns
  <2>2. PICK numbers \in [1 .. N -> 0 .. MaxNum] : toServer' = toServer \o Numbers(numbers)
    BY <1>5 DEF ClientArray, Numbers
  <2>3. Numbers(numbers) \in Seq(Ints) /\ Len(Numbers(numbers)) = N
    BY NumbersTyped
  <2>4. toServer' = Numbers(numbers)
    BY <2>1, <2>2, <2>3 DEF Silent
  <2>5. AllOf(toServer', "num", iter)
    BY <2>3, <2>4 DEF AllOf, Numbers, Int
  <2> QED
    BY <1>5, <2>1, <2>5 DEF ClientArray, Silent, TakingTurns, InTurn, AllOf
<1>6. CASE ClientAnswer
  <2>1. cpc = "answer" /\ spc = "len" /\ toServer = <<>> /\ AllOf(toClient, "out", iter)
    BY <1>1, <1>2, <1>6 DEF ClientAnswer, TakingTurns, Silent, ReadSizes, Min2
  <2>2. PICK k \in ReadSizes(toClient, N) :
           /\ answer' = Taken(toClient, k) /\ toClient' = Rest(toClient, k)
           /\ short' = (short \/ k < N)
    BY <1>6 DEF ClientAnswer
  <2>3. k = Len(toClient) /\ toClient \in Seq(Ints)
    <3>1. ~ (k < N)
      BY <2>2, Zenon
    <3>2. toClient \in Seq(Ints) /\ Len(toClient) = N
      BY <2>1 DEF AllOf, TypeOK
    <3>3. k \in 1 .. N
      BY <1>2, <2>1, <2>2, <3>2, ReadSplits
    <3> QED
      BY <1>2, <2>1, <3>1, <3>2, <3>3
  <2>4. answer' = toClient /\ toClient' = <<>>
    BY <2>2, <2>3, WholeRead
  <2>5. cpc' = "len" /\ iter' = iter + 1 /\ toServer' = toServer /\ spc' = spc
    BY <1>6 DEF ClientAnswer
  <2>6. AllOf(answer', "out", iter' - 1)
    BY <1>2, <2>1, <2>4, <2>5 DEF AllOf
  <2> QED
    BY <2>1, <2>4, <2>5, <2>6 DEF Silent, TakingTurns, InTurn, AllOf
<1>7. CASE ClientClose \/ ClientGivesUp
  BY <1>7 DEF ClientClose, ClientGivesUp
<1>8. CASE ServerLen
  <2>1. cpc = "ack" /\ toServer = <<Int("len", iter, N)>> /\ toClient = <<>>
    BY <1>1, <1>8 DEF ServerLen, TakingTurns, Silent
  <2>2. Head(toServer).value = N /\ Tail(toServer) = <<>>
    BY <2>1 DEF Int
  <2> QED
    BY <1>8, <2>1, <2>2 DEF ServerLen, Silent, TakingTurns, InTurn
<1>9. CASE ServerAck
  <2>1. cpc = "ack" /\ len = N /\ Silent
    BY <1>1, <1>9 DEF ServerAck, TakingTurns
  <2>2. toClient' = <<Int("ack", 0, 1)>>
    BY <1>9, <2>1 DEF ServerAck, Silent
  <2> QED
    BY <1>9, <2>1, <2>2 DEF ServerAck, Silent, TakingTurns, InTurn
<1>10. CASE ServerArray
  <2>1. cpc = "answer" /\ len = N /\ AllOf(toServer, "num", iter) /\ toClient = <<>>
    BY <1>1, <1>2, <1>10 DEF ServerArray, TakingTurns, Silent, ReadSizes, Min2
  <2>2. PICK k \in ReadSizes(toServer, len) :
           /\ input' = Taken(toServer, k) /\ toServer' = Rest(toServer, k)
           /\ short' = (short \/ k < len)
    BY <1>10 DEF ServerArray
  <2>3. k = Len(toServer) /\ toServer \in Seq(Ints)
    <3>1. ~ (k < len)
      BY <2>2, Zenon
    <3>2. toServer \in Seq(Ints) /\ Len(toServer) = N
      BY <2>1 DEF AllOf, TypeOK
    <3>3. k \in 1 .. N
      BY <1>2, <2>1, <2>2, <3>2, ReadSplits
    <3> QED
      BY <1>2, <2>1, <3>1, <3>2, <3>3
  <2>4. input' = toServer /\ toServer' = <<>>
    BY <2>2, <2>3, WholeRead
  <2>5. spc' = "answer" /\ UNCHANGED <<toClient, len, cpc, iter>>
    BY <1>10 DEF ServerArray
  <2>6. AllOf(input', "num", iter')
    BY <2>1, <2>4, <2>5
  <2> QED
    BY <2>1, <2>4, <2>5, <2>6 DEF Silent, TakingTurns, InTurn, AllOf
<1>11. CASE ServerAnswer
  <2>1. cpc = "answer" /\ len = N /\ AllOf(input, "num", iter) /\ Silent
    BY <1>1, <1>11 DEF ServerAnswer, TakingTurns
  <2>2. toClient' = toClient \o Answers(N)
    BY <1>11, <2>1 DEF ServerAnswer, Answers
  <2>3. Answers(N) \in Seq(Ints) /\ Len(Answers(N)) = N
    BY <1>2, AnswersTyped
  <2>4. toClient' = Answers(N)
    BY <2>1, <2>2, <2>3 DEF Silent
  <2>5. AllOf(toClient', "out", iter)
    BY <2>1, <2>3, <2>4 DEF AllOf, Answers, Int
  <2> QED
    BY <1>11, <2>1, <2>5 DEF ServerAnswer, Silent, TakingTurns, InTurn, AllOf
<1>12. CASE ServerClose \/ ServerQuits
  <2>1. spc' = "closed" /\ UNCHANGED <<cpc, toClient, iter, answer>>
    BY <1>12 DEF ServerClose, ServerQuits
  <2> QED
    BY <1>1, <2>1 DEF TakingTurns, Silent, ServerGone, InTurn, AllOf
<1>13. CASE UNCHANGED vars
  BY <1>1, <1>13 DEF TakingTurns, InTurn, Silent, AllOf
<1> QED
  BY <1>3, <1>4, <1>5, <1>6, <1>7, <1>8, <1>9, <1>10, <1>11, <1>12, <1>13
     DEF Next, ClientNext, ServerNext

(* As long as no read is short, every iteration of the client ends with N  *)
(* answers to its own numbers, for every N and number of iterations.       *)
THEOREM AnswersOwnNumbers == Spec => []OwnAnswer
<1>1. Init => InStep
  BY DEF Init, InStep, InTurn, TakingTurns, Silent
<1>2. TypeOK /\ InStep => OwnAnswer
  BY DEF InStep, InTurn, TakingTurns, ServerGone, OwnAnswer, AllOf
<1> QED
  BY <1>1, <1>2, InStepStep, WireTyped, PTL DEF Spec
=============================================================================
