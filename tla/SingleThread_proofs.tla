------------------------- MODULE SingleThread_proofs ------------------------
(***************************************************************************)
(* Proofs about the parts of proj1 that run in a single thread: isPrime,   *)
(* for every range of arguments, and the echo server, for lines, numbers   *)
(* of bytes and of connections of any size.  The work queue's proofs are   *)
(* in JobQueue_proofs.                                                     *)
(***************************************************************************)
EXTENDS SingleThread, SequenceTheorems, WellFoundedInduction, TLAPS

-----------------------------------------------------------------------------
(* isPrime.                                                                *)

(* Every divisor below i has been tried, and none divides n. *)
Tried == \A d \in 2 .. i - 1 : n % d # 0

CheckInv == CheckTypeOK /\ Tried /\ NoPrimeRejected /\ OnlySquaresSlip

-----------------------------------------------------------------------------
(* Arithmetic. *)

(* Squaring is monotone on the naturals. *)
LEMMA SquareMono ==
    ASSUME NEW a \in Nat, NEW b \in Nat, a <= b
    PROVE  a * a <= a * b /\ a * b <= b * b
BY SMT

(* A divisor d of m, other than its root and m itself, has a partner e     *)
(* that divides m too; if d is above the root, e is below it.              *)
LEMMA Partner ==
    ASSUME NEW m \in Nat, NEW d \in 2 .. m - 1, m % d = 0, d * d > m
    PROVE  \E e \in 2 .. m - 1 : m % e = 0 /\ e * e < m
<1> DEFINE e == m \div d
<1>1. d \in Nat /\ d >= 2 /\ d < m
  OBVIOUS
<1>2. e \in Nat /\ m = d * e
  BY <1>1, SMT
<1> HIDE DEF e
<1>3. e >= 2
  <2>1. e # 0
    BY <1>1, <1>2
  <2>2. e # 1
    BY <1>1, <1>2
  <2> QED
    BY <1>2, <2>1, <2>2
<1>4. e < d
  <2>1. CASE e >= d
    <3>1. d * d <= d * e
      BY <1>1, <1>2, <2>1, SquareMono
    <3> QED
      BY <1>1, <1>2, <3>1
  <2> QED
    BY <1>1, <1>2, <2>1
<1>5. e * e < m
  <2>1. e * e < e * d
    BY <1>1, <1>2, <1>3, <1>4, SMT
  <2>2. e * d = d * e
    BY <1>1, <1>2
  <2> QED
    BY <1>2, <2>1, <2>2
<1>6. m % e = 0
  BY <1>1, <1>2, <1>3, SMT
<1> QED
  BY <1>1, <1>2, <1>3, <1>4, <1>5, <1>6

(* What the end of the loop says: with no divisor below a and a*a >= m,    *)
(* the only divisor m can have is its root.                                *)
LEMMA LoopEnd ==
    ASSUME NEW m \in Int, NEW a \in Nat, a >= 2, a * a >= m,
           \A d \in 2 .. a - 1 : m % d # 0,
           NEW d \in 2 .. m - 1, m % d = 0
    PROVE  d * d = m
<1>1. m \in Nat /\ d \in Nat /\ d * d \in Nat
  BY SMT
<1>2. d >= a
  OBVIOUS
<1>3. d * d >= m
  <2>1. a * a <= a * d /\ a * d <= d * d
    BY <1>1, <1>2, SquareMono
  <2> QED
    BY <1>1, <2>1
<1>4. CASE d * d > m
  <2>1. PICK e \in 2 .. m - 1 : m % e = 0 /\ e * e < m
    BY <1>1, <1>4, Partner
  <2>2. e < a
    <3>1. CASE e >= a
      <4>1. a * a <= a * e /\ a * e <= e * e
        BY <2>1, <3>1, SquareMono
      <4> QED
        BY <1>1, <2>1, <4>1
    <3> QED
      BY <2>1, <3>1
  <2> QED
    BY <2>1, <2>2
<1> QED
  BY <1>1, <1>3, <1>4

-----------------------------------------------------------------------------
(* The invariant. *)

LEMMA CheckInitInv == CheckInit => CheckInv
BY RangeAssumption
   DEF CheckInit, CheckInv, CheckTypeOK, Tried, NoPrimeRejected, OnlySquaresSlip, Numbers

LEMMA CheckNextInv == CheckInv /\ [CheckNext]_checkVars => CheckInv'
<1> SUFFICES ASSUME CheckInv, [CheckNext]_checkVars PROVE CheckInv'
  OBVIOUS
<1>0. n \in Int /\ i \in Nat /\ i >= 2
  BY RangeAssumption DEF CheckInv, CheckTypeOK, Numbers
<1>1. CASE Divides
  <2>1. n > 2 /\ i \in 2 .. n - 1
    <3>1. 2 * i <= i * i
      BY <1>0, SMT
    <3> QED
      BY <1>0, <1>1, <3>1 DEF Divides
  <2>2. ~ IsPrime(n)
    BY <1>1, <2>1 DEF Divides, IsPrime
  <2> QED
    BY <1>1, <2>1, <2>2
       DEF Divides, CheckInv, CheckTypeOK, Tried, NoPrimeRejected, OnlySquaresSlip, IsPrime
<1>2. CASE Advance
  <2>1. i' \in Nat \ {0, 1} /\ (i' - 1) * (i' - 1) < n'
    BY <1>0, <1>2 DEF Advance
  <2>2. Tried'
    BY <1>0, <1>2 DEF Advance, CheckInv, Tried
  <2> QED
    BY <1>2, <2>1, <2>2
       DEF Advance, CheckInv, CheckTypeOK, NoPrimeRejected, OnlySquaresSlip, IsPrime
<1>3. CASE Exhausted
  <2>1. \A d \in 2 .. n - 1 : n % d = 0 => d * d = n
    BY <1>0, <1>3, LoopEnd DEF Exhausted, CheckInv, Tried
  <2> QED
    BY <1>3, <2>1
       DEF Exhausted, CheckInv, CheckTypeOK, Tried, NoPrimeRejected, OnlySquaresSlip
<1>4. CASE UNCHANGED checkVars
  BY <1>4 DEF checkVars, CheckInv, CheckTypeOK, Tried, NoPrimeRejected, OnlySquaresSlip, IsPrime
<1> QED
  BY <1>1, <1>2, <1>3, <1>4 DEF CheckNext

LEMMA CheckInvHolds == CheckSpec => []CheckInv
BY CheckInitInv, CheckNextInv, PTL DEF CheckSpec

(* isPrime never returns 0 for a prime. *)
THEOREM PrimesAccepted == CheckSpec => []NoPrimeRejected
<1>1. CheckInv => NoPrimeRejected
  BY DEF CheckInv
<1> QED
  BY <1>1, CheckInvHolds, PTL

(* Whatever isPrime calls prime is prime, below 2, or the square of its    *)
(* only proper divisor.                                                    *)
THEOREM SquaresSlip == CheckSpec => []OnlySquaresSlip
<1>1. CheckInv => OnlySquaresSlip
  BY DEF CheckInv
<1> QED
  BY <1>1, CheckInvHolds, PTL
-----------------------------------------------------------------------------
(* The framing of a sequence of bytes.                                     *)

(* A set of numbers that is not empty has a least element. *)
LEMMA Least ==
    ASSUME NEW T \in SUBSET Nat, T # {}
    PROVE  \E x \in T : \A y \in T : x <= y
<1>1. \A x, y \in Nat : <<y, x>> \in OpToRel(<, Nat) <=> y < x
  BY DEF OpToRel
<1>2. PICK R : IsWellFoundedOn(R, Nat) /\ \A x, y \in Nat : <<y, x>> \in R <=> y < x
  BY <1>1, NatLessThanWellFounded, Zenon
<1>3. PICK x \in T : \A y \in T : ~ (<<y, x>> \in R)
  BY <1>2, WFMin
<1>4. ASSUME NEW y \in T PROVE x <= y
  <2>1. x \in Nat /\ y \in Nat /\ ~ (<<y, x>> \in R)
    BY <1>3
  <2>2. ~ (y < x)
    BY <1>2, <2>1
  <2> QED
    BY <2>1, <2>2
<1> QED
  BY <1>3, <1>4

(* Induction: Good is the set of numbers for which a claim holds.          *)
LEMMA UpTo ==
    ASSUME NEW len \in Nat, NEW Good, 0 \in Good,
           \A k \in 1 .. len : k - 1 \in Good => k \in Good
    PROVE  0 .. len \subseteq Good
<1> DEFINE Bad == (0 .. len) \ Good
<1>1. SUFFICES ASSUME Bad # {} PROVE FALSE
  OBVIOUS
<1>2. PICK m \in Bad : \A k \in Bad : m <= k
  <2>1. Bad \in SUBSET Nat
    OBVIOUS
  <2> HIDE DEF Bad
  <2> QED
    BY <1>1, <2>1, Least
<1>3. m \in 1 .. len /\ m \notin Good
  BY <1>2
<1>4. m - 1 \in 0 .. len /\ m - 1 \notin Bad
  BY <1>2, <1>3
<1> QED
  BY <1>3, <1>4

Sent == {"c", "nl"}

Base == [out |-> <<>>, run |-> 0]

(* What Frames defines, for the first m bytes of s.                        *)
Turn(h, s, k) == IF k = 0 THEN Base ELSE FrameStep(h[k - 1], s[k])

Defined(s, m) == \E h : h = [k \in 0 .. m |-> Turn(h, s, k)]

LEMMA FramesDefined == \A s \in Seq(Sent) : Frames(s) = [k \in 0 .. Len(s) |-> Turn(Frames(s), s, k)]
<1> SUFFICES ASSUME NEW s \in Seq(Sent)
             PROVE  Frames(s) = [k \in 0 .. Len(s) |-> Turn(Frames(s), s, k)]
  OBVIOUS
<1>1. Defined(s, 0)
  <2> DEFINE h == [k \in 0 .. 0 |-> Base]
  <2>1. \A k \in 0 .. 0 : k = 0
    OBVIOUS
  <2>2. \A k \in 0 .. 0 : h[k] = Turn(h, s, k)
    BY <2>1 DEF Turn
  <2>3. h = [k \in 0 .. 0 |-> h[k]]
    OBVIOUS
  <2> HIDE DEF h
  <2>4. h = [k \in 0 .. 0 |-> Turn(h, s, k)]
    BY <2>2, <2>3
  <2> QED
    BY <2>4 DEF Defined
<1>2. ASSUME NEW m \in Nat, Defined(s, m) PROVE Defined(s, m + 1)
  <2>1. PICK g : g = [k \in 0 .. m |-> Turn(g, s, k)]
    BY <1>2 DEF Defined
  <2> DEFINE h == [k \in 0 .. m + 1 |-> IF k = m + 1 THEN FrameStep(g[m], s[m + 1]) ELSE g[k]]
  <2>2. ASSUME NEW k \in 0 .. m + 1 PROVE h[k] = Turn(h, s, k)
    <3>1. CASE k = m + 1
      <4>1. k # 0 /\ k - 1 = m /\ m \in 0 .. m + 1 /\ m # m + 1
        BY <3>1
      <4>2. h[k] = FrameStep(g[m], s[k]) /\ h[m] = g[m]
        BY <3>1, <4>1
      <4> HIDE DEF h
      <4> QED
        BY <4>1, <4>2 DEF Turn
    <3>2. CASE k # m + 1
      <4>1. k \in 0 .. m /\ (k # 0 => k - 1 \in 0 .. m + 1 /\ k - 1 # m + 1)
        BY <3>2
      <4>2. h[k] = g[k] /\ (k # 0 => h[k - 1] = g[k - 1])
        BY <3>2, <4>1
      <4>3. g[k] = Turn(g, s, k)
        BY <2>1, <4>1
      <4> HIDE DEF h
      <4> QED
        BY <4>2, <4>3 DEF Turn
    <3> QED
      BY <3>1, <3>2
  <2>3. h = [k \in 0 .. m + 1 |-> h[k]]
    OBVIOUS
  <2> HIDE DEF h
  <2>4. h = [k \in 0 .. m + 1 |-> Turn(h, s, k)]
    BY <2>2, <2>3
  <2> QED
    BY <2>4 DEF Defined
<1>3. Defined(s, Len(s))
  <2> DEFINE Good == {m \in Nat : Defined(s, m)}
  <2>1. 0 \in Good /\ \A m \in 1 .. Len(s) : m - 1 \in Good => m \in Good
    BY <1>1, <1>2
  <2>2. Len(s) \in Nat /\ Len(s) \in 0 .. Len(s)
    OBVIOUS
  <2> HIDE DEF Good
  <2>3. 0 .. Len(s) \subseteq Good
    BY <2>1, <2>2, UpTo
  <2> QED
    BY <2>2, <2>3 DEF Good
<1>4. PICK h : h = [k \in 0 .. Len(s) |-> Turn(h, s, k)]
  BY <1>3 DEF Defined
<1> QED
  BY <1>4 DEF Frames, Turn, Base

(* The first byte of the framing, and every later one from the one before. *)
LEMMA FramesTurn ==
    ASSUME NEW s \in Seq(Sent)
    PROVE  /\ Frames(s)[0] = Base
           /\ \A k \in 1 .. Len(s) : Frames(s)[k] = FrameStep(Frames(s)[k - 1], s[k])
<1>1. \A k \in 0 .. Len(s) : Frames(s)[k] = Turn(Frames(s), s, k)
  BY FramesDefined
<1>2. 0 \in 0 .. Len(s) /\ \A k \in 1 .. Len(s) : k \in 0 .. Len(s) /\ k # 0
  OBVIOUS
<1> QED
  BY <1>1, <1>2 DEF Turn

FrameType == [out : Seq(Bytes), run : 0 .. MaxLine - 2]

LEMMA FrameStepType ==
    ASSUME NEW acc \in FrameType, NEW b \in Sent
    PROVE  /\ FrameStep(acc, b) \in FrameType
           /\ \E u \in Seq(Bytes) : FrameStep(acc, b).out = acc.out \o u
<1>1. acc.out \in Seq(Bytes) /\ acc.run \in 0 .. MaxLine - 2 /\ MaxLine \in Nat \ {0, 1}
  BY EchoAssumption DEF FrameType
<1>0. 0 \in 0 .. MaxLine - 2
        /\ \A o \in Seq(Bytes), r \in 0 .. MaxLine - 2 : [out |-> o, run |-> r] \in FrameType
  BY <1>1 DEF FrameType
<1>2. b \in Bytes /\ "nul" \in Bytes
  BY DEF Sent, Bytes
<1>3. /\ <<b>> \in Seq(Bytes) /\ <<b, "nul">> \in Seq(Bytes)
      /\ Append(acc.out, b) = acc.out \o <<b>>
      /\ acc.out \o <<b>> \in Seq(Bytes) /\ acc.out \o <<b, "nul">> \in Seq(Bytes)
  BY <1>1, <1>2
<1>4. CASE b = "nl"
  <2>1. FrameStep(acc, b) = [out |-> Append(acc.out, b), run |-> 0]
    BY <1>4 DEF FrameStep
  <2>2. FrameStep(acc, b).out = acc.out \o <<b>> /\ FrameStep(acc, b).run = 0
    BY <1>3, <2>1
  <2> QED
    BY <1>0, <1>3, <2>1, <2>2
<1>5. CASE b # "nl" /\ acc.run + 1 = MaxLine - 1
  <2>1. FrameStep(acc, b) = [out |-> acc.out \o <<b, "nul">>, run |-> 0]
    BY <1>5 DEF FrameStep
  <2>2. FrameStep(acc, b).out = acc.out \o <<b, "nul">>
    BY <2>1
  <2> QED
    BY <1>0, <1>3, <2>1, <2>2
<1>6. CASE b # "nl" /\ acc.run + 1 # MaxLine - 1
  <2>1. FrameStep(acc, b) = [out |-> Append(acc.out, b), run |-> acc.run + 1]
    BY <1>6 DEF FrameStep
  <2>2. acc.run + 1 \in 0 .. MaxLine - 2
    BY <1>1, <1>6
  <2>3. FrameStep(acc, b).out = acc.out \o <<b>>
    BY <1>3, <2>1
  <2> QED
    BY <1>0, <1>3, <2>1, <2>2, <2>3
<1> QED
  BY <1>4, <1>5, <1>6

LEMMA FramesType ==
    ASSUME NEW s \in Seq(Sent)
    PROVE  \A k \in 0 .. Len(s) : Frames(s)[k] \in FrameType
<1> DEFINE Good == {k \in 0 .. Len(s) : Frames(s)[k] \in FrameType}
<1>1. 0 \in Good
  <2>1. Base \in FrameType
    <3>1. <<>> \in Seq(Bytes) /\ 0 \in 0 .. MaxLine - 2
      BY EchoAssumption
    <3> QED
      BY <3>1 DEF Base, FrameType
  <2>2. Frames(s)[0] = Base /\ 0 \in 0 .. Len(s)
    BY FramesTurn
  <2> QED
    BY <2>1, <2>2
<1>2. ASSUME NEW k \in 1 .. Len(s), k - 1 \in Good PROVE k \in Good
  <2>1. s[k] \in Sent /\ Frames(s)[k - 1] \in FrameType /\ k \in 0 .. Len(s)
    BY <1>2
  <2> QED
    BY <2>1, FramesTurn, FrameStepType
<1>3. Len(s) \in Nat
  OBVIOUS
<1> HIDE DEF Good
<1>4. 0 .. Len(s) \subseteq Good
  BY <1>1, <1>2, <1>3, UpTo
<1> QED
  BY <1>4 DEF Good

(* What is sent later does not change the framing of what was sent.        *)
LEMMA FramesStay ==
    ASSUME NEW s \in Seq(Sent), NEW b \in Sent
    PROVE  \A k \in 0 .. Len(s) : Frames(Append(s, b))[k] = Frames(s)[k]
<1> DEFINE t == Append(s, b)
           Good == {k \in 0 .. Len(s) : Frames(t)[k] = Frames(s)[k]}
<1>0. t \in Seq(Sent) /\ Len(t) = Len(s) + 1 /\ \A k \in 1 .. Len(s) : t[k] = s[k]
  OBVIOUS
<1> HIDE DEF t
<1>1. 0 \in Good
  BY <1>0, FramesTurn
<1>2. ASSUME NEW k \in 1 .. Len(s), k - 1 \in Good PROVE k \in Good
  <2>1. Frames(t)[k] = FrameStep(Frames(t)[k - 1], t[k])
    BY <1>0, FramesTurn
  <2>2. Frames(s)[k] = FrameStep(Frames(s)[k - 1], s[k])
    BY FramesTurn
  <2> QED
    BY <1>0, <1>2, <2>1, <2>2
<1>3. Len(s) \in Nat
  OBVIOUS
<1> HIDE DEF Good
<1>4. 0 .. Len(s) \subseteq Good
  BY <1>1, <1>2, <1>3, UpTo
<1> QED
  BY <1>4 DEF Good, t

(* A prefix is what something can be appended to.                          *)
LEMMA PrefixOfConcat ==
    ASSUME NEW s \in Seq(Bytes), NEW t \in Seq(Bytes)
    PROVE  IsPrefix(s, t) <=> \E u \in Seq(Bytes) : t = s \o u
<1>1. ASSUME NEW u \in Seq(Bytes) PROVE IsPrefix(s, s \o u)
  <2>1. Len(s) <= Len(s \o u)
    OBVIOUS
  <2>2. SubSeq(s, 1, Len(s)) = SubSeq(s \o u, 1, Len(s))
    <3>1. /\ SubSeq(s, 1, Len(s)) \in Seq(Bytes) /\ SubSeq(s \o u, 1, Len(s)) \in Seq(Bytes)
          /\ Len(SubSeq(s, 1, Len(s))) = Len(s) /\ Len(SubSeq(s \o u, 1, Len(s))) = Len(s)
          /\ \A k \in 1 .. Len(s) : SubSeq(s, 1, Len(s))[k] = s[k]
          /\ \A k \in 1 .. Len(s) : SubSeq(s \o u, 1, Len(s))[k] = s[k]
      OBVIOUS
    <3> QED
      BY <3>1, SeqEqual
  <2> QED
    BY <2>1, <2>2 DEF IsPrefix
<1>2. ASSUME IsPrefix(s, t) PROVE \E u \in Seq(Bytes) : t = s \o u
  <2>1. Len(s) \in 0 .. Len(t) /\ SubSeq(s, 1, Len(s)) = SubSeq(t, 1, Len(s))
    BY <1>2 DEF IsPrefix
  <2>2. SubSeq(s, 1, Len(s)) = s /\ SubSeq(t, 1, Len(t)) = t
    BY SubSeqFull
  <2>3. SubSeq(t, 1, Len(s)) \o SubSeq(t, Len(s) + 1, Len(t)) = SubSeq(t, 1, Len(t))
    <3>1. 1 \in 1 .. Len(t) + 1 /\ Len(s) \in 1 - 1 .. Len(t) /\ Len(t) \in Len(s) .. Len(t)
      BY <2>1
    <3> QED
      BY <3>1, ConcatAdjacentSubSeq, Zenon
  <2>4. SubSeq(t, Len(s) + 1, Len(t)) \in Seq(Bytes)
    BY <2>1
  <2> QED
    BY <2>1, <2>2, <2>3, <2>4
<1> QED
  BY <1>1, <1>2

LEMMA PrefixTransitive ==
    ASSUME NEW s \in Seq(Bytes), NEW t \in Seq(Bytes), NEW u \in Seq(Bytes),
           IsPrefix(s, t), IsPrefix(t, u)
    PROVE  IsPrefix(s, u)
<1>1. PICK v \in Seq(Bytes) : t = s \o v
  BY PrefixOfConcat
<1>2. PICK w \in Seq(Bytes) : u = t \o w
  BY PrefixOfConcat
<1>3. u = s \o (v \o w) /\ v \o w \in Seq(Bytes)
  <2>1. (s \o v) \o w = s \o (v \o w)
    BY ConcatAssociative
  <2>2. v \o w \in Seq(Bytes)
    BY ConcatProperties
  <2> QED
    BY <1>1, <1>2, <2>1, <2>2, Zenon
<1> QED
  BY <1>3, PrefixOfConcat

(* The framing of more bytes begins with that of fewer.                    *)
LEMMA OutGrows ==
    ASSUME NEW s \in Seq(Sent), NEW m \in 0 .. Len(s)
    PROVE  IsPrefix(Frames(s)[m].out, Frames(s)[Len(s)].out)
<1> DEFINE Good == {k \in 0 .. Len(s) : m <= k => IsPrefix(Frames(s)[m].out, Frames(s)[k].out)}
<1>0. \A k \in 0 .. Len(s) : Frames(s)[k] \in FrameType /\ Frames(s)[k].out \in Seq(Bytes)
  BY FramesType DEF FrameType
<1>1. IsPrefix(Frames(s)[m].out, Frames(s)[m].out)
  <2>1. <<>> \in Seq(Bytes) /\ Frames(s)[m].out = Frames(s)[m].out \o <<>>
    BY <1>0, ConcatEmptySeq
  <2> QED
    BY <1>0, <2>1, PrefixOfConcat
<1>2. 0 \in Good
  BY <1>1
<1>3. ASSUME NEW k \in 1 .. Len(s), k - 1 \in Good PROVE k \in Good
  <2>1. k - 1 \in 0 .. Len(s) /\ k \in 0 .. Len(s) /\ s[k] \in Sent
    OBVIOUS
  <2>2. CASE m = k
    BY <1>1, <2>1, <2>2
  <2>3. CASE m > k
    BY <2>1, <2>3
  <2>4. CASE m < k
    <3>1. IsPrefix(Frames(s)[m].out, Frames(s)[k - 1].out)
      BY <1>3, <2>4
    <3>2. \E u \in Seq(Bytes) : Frames(s)[k].out = Frames(s)[k - 1].out \o u
      <4>1. Frames(s)[k] = FrameStep(Frames(s)[k - 1], s[k]) /\ Frames(s)[k - 1] \in FrameType
        BY <1>0, <2>1, FramesTurn
      <4> QED
        BY <2>1, <4>1, FrameStepType, ZenonT(40)
    <3>3. IsPrefix(Frames(s)[k - 1].out, Frames(s)[k].out)
      BY <1>0, <2>1, <3>2, PrefixOfConcat
    <3>4. IsPrefix(Frames(s)[m].out, Frames(s)[k].out)
      BY <1>0, <2>1, <3>1, <3>3, PrefixTransitive
    <3> QED
      BY <2>1, <3>4
  <2> QED
    BY <2>1, <2>2, <2>3, <2>4
<1>4. Len(s) \in Nat
  OBVIOUS
<1> HIDE DEF Good
<1>5. 0 .. Len(s) \subseteq Good
  BY <1>2, <1>3, <1>4, UpTo
<1> QED
  BY <1>5 DEF Good

LEMMA WrittenProperties ==
    ASSUME NEW s \in Seq(Sent), NEW m \in 0 .. Len(s), NEW e \in BOOLEAN
    PROVE  /\ Written(s, e) \in Seq(Bytes)
           /\ IsPrefix(Frames(s)[m].out, Written(s, e))
<1> DEFINE all == Frames(s)[Len(s)]
<1>1. /\ all.out \in Seq(Bytes) /\ Frames(s)[m].out \in Seq(Bytes)
  BY FramesType DEF FrameType
<1>2. IsPrefix(Frames(s)[m].out, all.out)
  BY OutGrows
<1>3. <<"nul">> \in Seq(Bytes) /\ Append(all.out, "nul") = all.out \o <<"nul">>
  <2> HIDE DEF all
  <2>1. "nul" \in Bytes
    BY DEF Bytes
  <2> QED
    BY <1>1, <2>1, AppendIsConcat
<1>4. Append(all.out, "nul") \in Seq(Bytes) /\ IsPrefix(all.out, Append(all.out, "nul"))
  <2>1. all.out \o <<"nul">> \in Seq(Bytes)
    BY <1>1, <1>3, ConcatProperties
  <2> HIDE DEF all
  <2> QED
    BY <1>1, <1>3, <2>1, PrefixOfConcat
<1>5. Written(s, e) = all.out \/ Written(s, e) = Append(all.out, "nul")
  BY DEF Written
<1> HIDE DEF all
<1> QED
  BY <1>1, <1>2, <1>4, <1>5, PrefixTransitive

(* What Texts defines, for the first m bytes of s.                         *)
TextTurn(h, s, k) ==
    IF k = 0 THEN <<>>
    ELSE IF s[k] = "nul" THEN h[k - 1] ELSE Append(h[k - 1], s[k])

TextDefined(s, m) == \E h : h = [k \in 0 .. m |-> TextTurn(h, s, k)]

LEMMA TextsDefined == \A s \in Seq(Bytes) : Texts(s) = [k \in 0 .. Len(s) |-> TextTurn(Texts(s), s, k)]
<1> SUFFICES ASSUME NEW s \in Seq(Bytes)
             PROVE  Texts(s) = [k \in 0 .. Len(s) |-> TextTurn(Texts(s), s, k)]
  OBVIOUS
<1>1. TextDefined(s, 0)
  <2> DEFINE h == [k \in 0 .. 0 |-> <<>>]
  <2>1. \A k \in 0 .. 0 : k = 0
    OBVIOUS
  <2>2. \A k \in 0 .. 0 : h[k] = TextTurn(h, s, k)
    BY <2>1 DEF TextTurn
  <2>3. h = [k \in 0 .. 0 |-> h[k]]
    OBVIOUS
  <2> HIDE DEF h
  <2>4. h = [k \in 0 .. 0 |-> TextTurn(h, s, k)]
    BY <2>2, <2>3
  <2> QED
    BY <2>4 DEF TextDefined
<1>2. ASSUME NEW m \in Nat, TextDefined(s, m) PROVE TextDefined(s, m + 1)
  <2>1. PICK g : g = [k \in 0 .. m |-> TextTurn(g, s, k)]
    BY <1>2 DEF TextDefined
  <2> DEFINE last == IF s[m + 1] = "nul" THEN g[m] ELSE Append(g[m], s[m + 1])
             h == [k \in 0 .. m + 1 |-> IF k = m + 1 THEN last ELSE g[k]]
  <2>2. ASSUME NEW k \in 0 .. m + 1 PROVE h[k] = TextTurn(h, s, k)
    <3>1. CASE k = m + 1
      <4>1. k # 0 /\ k - 1 = m /\ m \in 0 .. m + 1 /\ m # m + 1
        BY <3>1
      <4>2. h[k] = (IF s[k] = "nul" THEN g[m] ELSE Append(g[m], s[k])) /\ h[m] = g[m]
        BY <3>1, <4>1
      <4> HIDE DEF h
      <4> QED
        BY <4>1, <4>2 DEF TextTurn
    <3>2. CASE k # m + 1
      <4>1. k \in 0 .. m /\ (k # 0 => k - 1 \in 0 .. m + 1 /\ k - 1 # m + 1)
        BY <3>2
      <4>2. h[k] = g[k] /\ (k # 0 => h[k - 1] = g[k - 1])
        BY <3>2, <4>1
      <4>3. g[k] = TextTurn(g, s, k)
        BY <2>1, <4>1
      <4> HIDE DEF h
      <4> QED
        BY <4>2, <4>3 DEF TextTurn
    <3> QED
      BY <3>1, <3>2
  <2>3. h = [k \in 0 .. m + 1 |-> h[k]]
    OBVIOUS
  <2> HIDE DEF h
  <2>4. h = [k \in 0 .. m + 1 |-> TextTurn(h, s, k)]
    BY <2>2, <2>3
  <2> QED
    BY <2>4 DEF TextDefined
<1>3. TextDefined(s, Len(s))
  <2> DEFINE Good == {m \in Nat : TextDefined(s, m)}
  <2>1. 0 \in Good /\ \A m \in 1 .. Len(s) : m - 1 \in Good => m \in Good
    BY <1>1, <1>2
  <2>2. Len(s) \in Nat /\ Len(s) \in 0 .. Len(s)
    OBVIOUS
  <2> HIDE DEF Good
  <2>3. 0 .. Len(s) \subseteq Good
    BY <2>1, <2>2, UpTo
  <2> QED
    BY <2>2, <2>3 DEF Good
<1>4. PICK h : h = [k \in 0 .. Len(s) |-> TextTurn(h, s, k)]
  BY <1>3 DEF TextDefined
<1> QED
  BY <1>4 DEF Texts, TextTurn

LEMMA TextsTurn ==
    ASSUME NEW s \in Seq(Bytes)
    PROVE  /\ Texts(s)[0] = <<>>
           /\ \A k \in 1 .. Len(s) : Texts(s)[k] =
                 IF s[k] = "nul" THEN Texts(s)[k - 1] ELSE Append(Texts(s)[k - 1], s[k])
<1>1. \A k \in 0 .. Len(s) : Texts(s)[k] = TextTurn(Texts(s), s, k)
  BY TextsDefined
<1>2. 0 \in 0 .. Len(s) /\ \A k \in 1 .. Len(s) : k \in 0 .. Len(s) /\ k # 0
  OBVIOUS
<1> QED
  BY <1>1, <1>2 DEF TextTurn

LEMMA TextsType ==
    ASSUME NEW s \in Seq(Bytes)
    PROVE  \A k \in 0 .. Len(s) : Texts(s)[k] \in Seq(Bytes)
<1> DEFINE Good == {k \in 0 .. Len(s) : Texts(s)[k] \in Seq(Bytes)}
<1>1. 0 \in Good
  <2>1. <<>> \in Seq(Bytes) /\ 0 \in 0 .. Len(s)
    OBVIOUS
  <2> QED
    BY <2>1, TextsTurn
<1>2. ASSUME NEW k \in 1 .. Len(s), k - 1 \in Good PROVE k \in Good
  <2>1. s[k] \in Bytes /\ Texts(s)[k - 1] \in Seq(Bytes) /\ k \in 0 .. Len(s)
    BY <1>2
  <2>2. Append(Texts(s)[k - 1], s[k]) \in Seq(Bytes)
    BY <2>1, AppendProperties
  <2> QED
    BY <2>1, <2>2, TextsTurn
<1>3. Len(s) \in Nat
  OBVIOUS
<1> HIDE DEF Good
<1>4. 0 .. Len(s) \subseteq Good
  BY <1>1, <1>2, <1>3, UpTo
<1> QED
  BY <1>4 DEF Good

(* Two sequences that agree on the first m bytes have the same characters  *)
(* there.                                                                  *)
LEMMA TextsAgree ==
    ASSUME NEW s \in Seq(Bytes), NEW t \in Seq(Bytes), Len(s) <= Len(t),
           \A k \in 1 .. Len(s) : t[k] = s[k]
    PROVE  \A k \in 0 .. Len(s) : Texts(t)[k] = Texts(s)[k]
<1> DEFINE Good == {k \in 0 .. Len(s) : Texts(t)[k] = Texts(s)[k]}
<1>1. 0 \in Good
  BY TextsTurn
<1>2. ASSUME NEW k \in 1 .. Len(s), k - 1 \in Good PROVE k \in Good
  <2>1. k \in 1 .. Len(t)
    OBVIOUS
  <2>2. Texts(t)[k] = IF t[k] = "nul" THEN Texts(t)[k - 1] ELSE Append(Texts(t)[k - 1], t[k])
    BY <2>1, TextsTurn
  <2>3. Texts(s)[k] = IF s[k] = "nul" THEN Texts(s)[k - 1] ELSE Append(Texts(s)[k - 1], s[k])
    BY TextsTurn
  <2> QED
    BY <1>2, <2>2, <2>3
<1>3. Len(s) \in Nat
  OBVIOUS
<1> HIDE DEF Good
<1>4. 0 .. Len(s) \subseteq Good
  BY <1>1, <1>2, <1>3, UpTo
<1> QED
  BY <1>4 DEF Good

LEMMA TextsGrow ==
    ASSUME NEW s \in Seq(Bytes), NEW m \in 0 .. Len(s)
    PROVE  IsPrefix(Texts(s)[m], Texts(s)[Len(s)])
<1> DEFINE Good == {k \in 0 .. Len(s) : m <= k => IsPrefix(Texts(s)[m], Texts(s)[k])}
<1>0. \A k \in 0 .. Len(s) : Texts(s)[k] \in Seq(Bytes)
  BY TextsType
<1>1. ASSUME NEW u \in Seq(Bytes) PROVE IsPrefix(u, u)
  <2>1. <<>> \in Seq(Bytes) /\ u = u \o <<>>
    BY ConcatEmptySeq
  <2> QED
    BY <2>1, PrefixOfConcat
<1>2. 0 \in Good
  BY <1>0, <1>1
<1>3. ASSUME NEW k \in 1 .. Len(s), k - 1 \in Good PROVE k \in Good
  <2>1. k - 1 \in 0 .. Len(s) /\ k \in 0 .. Len(s) /\ s[k] \in Bytes
    OBVIOUS
  <2>2. CASE m = k
    BY <1>0, <1>1, <2>1, <2>2
  <2>3. CASE m > k
    BY <2>1, <2>3
  <2>4. CASE m < k
    <3>1. IsPrefix(Texts(s)[m], Texts(s)[k - 1])
      BY <1>3, <2>4
    <3>2. /\ Append(Texts(s)[k - 1], s[k]) = Texts(s)[k - 1] \o <<s[k]>>
          /\ <<s[k]>> \in Seq(Bytes) /\ Append(Texts(s)[k - 1], s[k]) \in Seq(Bytes)
      BY <1>0, <2>1, AppendIsConcat, AppendProperties
    <3>3. IsPrefix(Texts(s)[k - 1], Texts(s)[k])
      <4>1. IsPrefix(Texts(s)[k - 1], Append(Texts(s)[k - 1], s[k]))
        BY <1>0, <2>1, <3>2, PrefixOfConcat
      <4> QED
        BY <1>0, <1>1, <2>1, <4>1, TextsTurn
    <3>4. IsPrefix(Texts(s)[m], Texts(s)[k])
      BY <1>0, <2>1, <3>1, <3>3, PrefixTransitive
    <3> QED
      BY <2>1, <3>4
  <2> QED
    BY <2>1, <2>2, <2>3, <2>4
<1>4. Len(s) \in Nat
  OBVIOUS
<1> HIDE DEF Good
<1>5. 0 .. Len(s) \subseteq Good
  BY <1>2, <1>3, <1>4, UpTo
<1> QED
  BY <1>5 DEF Good

(* A prefix has a prefix of the characters.                                *)
LEMMA TextPrefix ==
    ASSUME NEW s \in Seq(Bytes), NEW t \in Seq(Bytes), IsPrefix(s, t)
    PROVE  IsPrefix(Text(s), Text(t))
<1>1. PICK u \in Seq(Bytes) : t = s \o u
  BY PrefixOfConcat
<1>2. Len(s) \in 0 .. Len(t) /\ \A k \in 1 .. Len(s) : t[k] = s[k]
  BY <1>1, ConcatProperties
<1>3. Texts(t)[Len(s)] = Texts(s)[Len(s)]
  <2>1. Len(s) \in 0 .. Len(s) /\ Len(s) <= Len(t)
    BY <1>2
  <2> QED
    BY <1>2, <2>1, TextsAgree
<1> QED
  BY <1>2, <1>3, TextsGrow DEF Text

LEMMA TextAppend ==
    ASSUME NEW s \in Seq(Bytes), NEW b \in Bytes
    PROVE  Text(Append(s, b)) = IF b = "nul" THEN Text(s) ELSE Append(Text(s), b)
<1> DEFINE t == Append(s, b)
<1>1. /\ t \in Seq(Bytes) /\ Len(t) = Len(s) + 1 /\ t[Len(t)] = b
      /\ \A k \in 1 .. Len(s) : t[k] = s[k]
  BY AppendProperties
<1> HIDE DEF t
<1>2. Len(s) \in Nat /\ Len(s) \in 0 .. Len(s) /\ Len(s) <= Len(t) /\ Len(t) \in 1 .. Len(t)
        /\ Len(t) - 1 = Len(s)
  BY <1>1
<1>3. Texts(t)[Len(s)] = Texts(s)[Len(s)]
  BY <1>1, <1>2, TextsAgree
<1>4. Texts(t)[Len(t)] = IF b = "nul" THEN Texts(t)[Len(s)] ELSE Append(Texts(t)[Len(s)], b)
  BY <1>1, <1>2, TextsTurn
<1> QED
  BY <1>3, <1>4 DEF Text, t

LEMMA SubSeqNext ==
    ASSUME NEW s \in Seq(Sent), NEW k \in 1 .. Len(s)
    PROVE  SubSeq(s, 1, k) = Append(SubSeq(s, 1, k - 1), s[k])
<1> DEFINE u == SubSeq(s, 1, k)
           v == SubSeq(s, 1, k - 1)
<1>1. u \in Seq(Sent) /\ Len(u) = k /\ \A j \in 1 .. k : u[j] = s[j]
  OBVIOUS
<1>2. v \in Seq(Sent) /\ Len(v) = k - 1 /\ \A j \in 1 .. k - 1 : v[j] = s[j]
  OBVIOUS
<1>3. s[k] \in Sent
  OBVIOUS
<1> HIDE DEF u, v
<1>4. /\ Append(v, s[k]) \in Seq(Sent) /\ Len(Append(v, s[k])) = k
      /\ \A j \in 1 .. k - 1 : Append(v, s[k])[j] = v[j]
      /\ Append(v, s[k])[k] = s[k]
  BY <1>2, <1>3, AppendProperties
<1>5. \A j \in 1 .. Len(u) : u[j] = Append(v, s[k])[j]
  BY <1>1, <1>2, <1>4
<1> QED
  BY <1>1, <1>4, <1>5, SeqEqual DEF u, v

(* The characters of what is written are the bytes it is written for.      *)
LEMMA TextOfFrames ==
    ASSUME NEW s \in Seq(Sent)
    PROVE  \A k \in 0 .. Len(s) : Text(Frames(s)[k].out) = SubSeq(s, 1, k)
<1> DEFINE Good == {k \in 0 .. Len(s) : Text(Frames(s)[k].out) = SubSeq(s, 1, k)}
<1>0. \A k \in 0 .. Len(s) : Frames(s)[k] \in FrameType /\ Frames(s)[k].out \in Seq(Bytes)
  BY FramesType DEF FrameType
<1>1. 0 \in Good
  <2>1. Frames(s)[0].out = <<>> /\ <<>> \in Seq(Bytes) /\ Len(<<>>) = 0 /\ 0 \in 0 .. Len(s)
    BY FramesTurn DEF Base
  <2>2. Text(<<>>) = <<>>
    BY <2>1, TextsTurn DEF Text
  <2>3. SubSeq(s, 1, 0) = <<>>
    BY SubSeqEmpty
  <2> QED
    BY <2>1, <2>2, <2>3
<1>2. ASSUME NEW k \in 1 .. Len(s), k - 1 \in Good PROVE k \in Good
  <2> DEFINE acc == Frames(s)[k - 1]
             b == s[k]
  <2>1. k \in 0 .. Len(s) /\ k - 1 \in 0 .. Len(s) /\ b \in Sent
    OBVIOUS
  <2>2. acc.out \in Seq(Bytes) /\ Text(acc.out) = SubSeq(s, 1, k - 1)
    BY <1>0, <1>2, <2>1
  <2>3. Frames(s)[k] = FrameStep(acc, b)
    BY FramesTurn
  <2>4. SubSeq(s, 1, k) = Append(SubSeq(s, 1, k - 1), b)
    BY SubSeqNext
  <2> HIDE DEF acc, b
  <2>5. b \in Bytes /\ b # "nul" /\ "nul" \in Bytes
    BY <2>1 DEF Sent, Bytes
  <2> DEFINE o == acc.out
  <2>10. o \in Seq(Bytes) /\ Text(o) = SubSeq(s, 1, k - 1)
    BY <2>2
  <2> HIDE DEF o
  <2>6. /\ Append(o, b) \in Seq(Bytes)
        /\ Text(Append(o, b)) = SubSeq(s, 1, k)
    <3>1. Append(o, b) \in Seq(Bytes)
      BY <2>5, <2>10, AppendProperties
    <3>2. Text(Append(o, b)) = Append(Text(o), b)
      BY <2>5, <2>10, TextAppend
    <3> QED
      BY <2>4, <2>10, <3>1, <3>2
  <2>7. Text(Append(Append(o, b), "nul")) = SubSeq(s, 1, k)
    BY <2>5, <2>6, TextAppend
  <2>8. o \o <<b, "nul">> = Append(Append(o, b), "nul")
    <3>1. <<b>> \in Seq(Bytes) /\ <<"nul">> \in Seq(Bytes) /\ <<b, "nul">> = <<b>> \o <<"nul">>
      BY <2>5
    <3>2. Append(Append(o, b), "nul") = (o \o <<b>>) \o <<"nul">>
      BY <2>5, <2>6, <2>10, AppendIsConcat
    <3>3. (o \o <<b>>) \o <<"nul">> = o \o (<<b>> \o <<"nul">>)
      BY <2>10, <3>1, ConcatAssociative
    <3> QED
      BY <3>1, <3>2, <3>3
  <2>9. \/ Frames(s)[k].out = Append(o, b)
        \/ Frames(s)[k].out = o \o <<b, "nul">>
    BY <2>3 DEF FrameStep, o
  <2> QED
    BY <2>1, <2>6, <2>7, <2>8, <2>9
<1>3. Len(s) \in Nat
  OBVIOUS
<1> HIDE DEF Good
<1>4. 0 .. Len(s) \subseteq Good
  BY <1>1, <1>2, <1>3, UpTo
<1> QED
  BY <1>4 DEF Good

LEMMA TextOfWritten ==
    ASSUME NEW s \in Seq(Sent), NEW e \in BOOLEAN
    PROVE  Text(Written(s, e)) = s
<1> DEFINE all == Frames(s)[Len(s)]
<1>1. Len(s) \in 0 .. Len(s) /\ SubSeq(s, 1, Len(s)) = s
  BY SubSeqFull
<1>2. all.out \in Seq(Bytes) /\ Text(all.out) = s
  BY <1>1, FramesType, TextOfFrames DEF FrameType
<1>3. Written(s, e) = all.out \/ Written(s, e) = Append(all.out, "nul")
  BY DEF Written
<1> HIDE DEF all
<1>4. Text(Append(all.out, "nul")) = s
  <2>1. "nul" \in Bytes
    BY DEF Bytes
  <2> QED
    BY <1>2, <2>1, TextAppend
<1> QED
  BY <1>2, <1>3, <1>4

(* No line of short lines is cut: the run never reaches the array's end.   *)
LEMMA ShortFrames ==
    ASSUME NEW s \in Seq(Sent), ShortLines(s)
    PROVE  \A k \in 0 .. Len(s) :
              /\ Frames(s)[k].out = SubSeq(s, 1, k)
              /\ Frames(s)[k].run <= k
              /\ \A j \in k - Frames(s)[k].run + 1 .. k : s[j] # "nl"
<1> DEFINE short(k) == /\ Frames(s)[k].out = SubSeq(s, 1, k)
                       /\ Frames(s)[k].run <= k
                       /\ \A j \in k - Frames(s)[k].run + 1 .. k : s[j] # "nl"
           Good == {k \in 0 .. Len(s) : short(k)}
<1>0. \A k \in 0 .. Len(s) : /\ Frames(s)[k] \in FrameType
                             /\ Frames(s)[k].out \in Seq(Bytes)
                             /\ Frames(s)[k].run \in 0 .. MaxLine - 2
  BY FramesType DEF FrameType
<1>1. 0 \in Good
  <2>1. Frames(s)[0].out = <<>> /\ Frames(s)[0].run = 0 /\ 0 \in 0 .. Len(s)
    BY FramesTurn DEF Base
  <2>2. SubSeq(s, 1, 0) = <<>>
    BY SubSeqEmpty
  <2>3. 0 <= 0 /\ 0 - 0 + 1 = 1 /\ 1 .. 0 = {}
    OBVIOUS
  <2> QED
    BY <2>1, <2>2, <2>3
<1>2. ASSUME NEW k \in 1 .. Len(s), k - 1 \in Good PROVE k \in Good
  <2> DEFINE acc == Frames(s)[k - 1]
             b == s[k]
  <2>1. k \in 0 .. Len(s) /\ k - 1 \in 0 .. Len(s) /\ b \in Sent
    OBVIOUS
  <2>2. /\ acc.out = SubSeq(s, 1, k - 1) /\ acc.run <= k - 1 /\ acc.run \in 0 .. MaxLine - 2
        /\ \A j \in k - 1 - acc.run + 1 .. k - 1 : s[j] # "nl"
    BY <1>0, <1>2, <2>1
  <2>3. Frames(s)[k] = FrameStep(acc, b)
    BY FramesTurn
  <2>4. SubSeq(s, 1, k) = Append(acc.out, b)
    BY <2>2, SubSeqNext
  <2> HIDE DEF acc
  <2>5. CASE b = "nl"
    <3>1. Frames(s)[k] = [out |-> Append(acc.out, b), run |-> 0]
      BY <2>3, <2>5 DEF FrameStep
    <3> QED
      BY <2>1, <2>4, <3>1
  <2>6. CASE b # "nl"
    <3>1. \A j \in k - acc.run .. k : s[j] # "nl"
      BY <2>2, <2>6
    <3>2. acc.run + 1 # MaxLine - 1
      <4>1. SUFFICES ASSUME acc.run + 1 = MaxLine - 1 PROVE FALSE
        OBVIOUS
      <4>2. k \in MaxLine - 1 .. Len(s) /\ k - MaxLine + 2 = k - acc.run
        BY <2>2, <4>1, EchoAssumption
      <4>3. \E j \in k - MaxLine + 2 .. k : s[j] = "nl"
        BY <4>2 DEF ShortLines
      <4> QED
        BY <3>1, <4>2, <4>3
    <3>3. Frames(s)[k] = [out |-> Append(acc.out, b), run |-> acc.run + 1]
      BY <2>3, <2>6, <3>2 DEF FrameStep
    <3>4. k - (acc.run + 1) + 1 = k - acc.run /\ acc.run + 1 <= k
      BY <2>2
    <3>5. Frames(s)[k].out = SubSeq(s, 1, k) /\ Frames(s)[k].run = acc.run + 1
      BY <2>4, <3>3
    <3>6. short(k)
      BY <3>1, <3>4, <3>5
    <3> QED
      BY <2>1, <3>6
  <2> QED
    BY <2>5, <2>6
<1>3. Len(s) \in Nat
  OBVIOUS
<1> HIDE DEF Good
<1>4. 0 .. Len(s) \subseteq Good
  BY <1>1, <1>2, <1>3, UpTo
<1> QED
  BY <1>4 DEF Good

LEMMA ShortWritten ==
    ASSUME NEW s \in Seq(Sent), NEW e \in BOOLEAN, ShortLines(s), e => Ended(s)
    PROVE  Written(s, e) = s
<1> DEFINE all == Frames(s)[Len(s)]
<1>1. Len(s) \in Nat /\ Len(s) \in 0 .. Len(s) /\ SubSeq(s, 1, Len(s)) = s
  BY SubSeqFull
<1>2. /\ all.out = s /\ all.run \in Nat /\ all.run <= Len(s)
      /\ \A j \in Len(s) - all.run + 1 .. Len(s) : s[j] # "nl"
  BY <1>1, ShortFrames, FramesType DEF FrameType
<1>3. e => all.run = 0
  <2>1. SUFFICES ASSUME e, all.run > 0 PROVE FALSE
    BY <1>2
  <2>2. s # <<>> /\ s[Len(s)] # "nl"
    BY <1>1, <1>2, <2>1
  <2> QED
    BY <2>1, <2>2 DEF Ended
<1> QED
  BY <1>2, <1>3 DEF Written

LEMMA NoBytes ==
    /\ <<>> \in Seq(Sent) /\ <<>> \in Seq(Bytes) /\ Len(<<>>) = 0
    /\ Frames(<<>>)[0] = Base /\ Written(<<>>, FALSE) = <<>>
    /\ IsPrefix(<<>>, Written(<<>>, FALSE))
<1>1. <<>> \in Seq(Sent) /\ <<>> \in Seq(Bytes) /\ Len(<<>>) = 0 /\ 0 \in 0 .. 0
  OBVIOUS
<1>2. Frames(<<>>)[0] = Base
  BY <1>1, FramesTurn
<1>3. Written(<<>>, FALSE) = <<>>
  BY <1>1, <1>2 DEF Written, Base
<1> QED
  BY <1>1, <1>2, <1>3, ConcatEmptySeq, PrefixOfConcat

-----------------------------------------------------------------------------
(* The echo server.                                                        *)

USE DEF clientVars, bufVars

(* Where the connection is over, or not yet there, nothing is to be shown. *)
LEMMA Outside ==
    ASSUME EchoInv, pc' \in {"loop", "accept", "quit", "exited"} \/ pc' = pc,
           shutting_down' \in BOOLEAN, broken' \in BOOLEAN,
           UNCHANGED <<accepted, clientVars, bufVars, echoed>>
    PROVE  EchoInv'
BY DEF EchoInv, TypeOK, WritesInOrder, Got, Drained, Written

(* What is said of the bytes of a connection that is read or written.      *)
BytesInv ==
    /\ Got \in Nat
    /\ read_buf \o unread = SubSeq(sent, Got + 1, Len(sent))
    /\ \/ /\ echoed \o line = Frames(sent)[Got].out
          /\ Frames(sent)[Got].run = IF pc = "read" THEN Len(line) ELSE 0
       \/ /\ echoed \o line = Written(sent, TRUE) /\ Drained
          /\ pc = "read" => line = <<>>

LEMMA Lengths ==
    ASSUME EchoInv, pc \in {"read", "write"}
    PROVE  /\ sent \in Seq(Sent) /\ unread \in Seq(Sent)
           /\ {read_buf, line, echoed, echoed \o line} \subseteq Seq(Bytes)
           /\ Got \in 0 .. Len(sent) /\ Len(sent) = Got + Len(read_buf) + Len(unread)
           /\ Frames(sent)[Got] \in FrameType
           /\ BytesInv
<1>1. /\ sent \in Seq(Sent) /\ unread \in Seq(Sent)
      /\ {read_buf, line, echoed} \subseteq Seq(Bytes)
      /\ BytesInv
  BY DEF EchoInv, TypeOK, Sent, BytesInv
<1>2. Len(sent) \in Nat /\ Len(unread) \in Nat /\ Len(read_buf) \in Nat
  BY <1>1
<1>3. Got \in 0 .. Len(sent) /\ Len(sent) = Got + Len(read_buf) + Len(unread)
  BY <1>1, <1>2 DEF BytesInv, Got
<1>4. echoed \o line \in Seq(Bytes)
  BY <1>1, ConcatProperties
<1> QED
  BY <1>1, <1>3, <1>4, FramesType

(* What has been written and the line are a prefix of the framing.         *)
LEMMA LinePrefix ==
    ASSUME EchoInv, pc \in {"read", "write"}
    PROVE  IsPrefix(echoed \o line, Written(sent, hungup))
<1>1. hungup \in BOOLEAN
  BY DEF EchoInv, TypeOK
<1>2. CASE echoed \o line = Frames(sent)[Got].out
  BY <1>1, <1>2, Lengths, WrittenProperties
<1>3. CASE echoed \o line = Written(sent, TRUE) /\ Drained
  <2>1. hungup = TRUE /\ <<>> \in Seq(Bytes)
    BY <1>1, <1>3 DEF Drained
  <2>2. echoed \o line = (echoed \o line) \o <<>>
    BY Lengths, ConcatEmptySeq
  <2> QED
    BY <1>3, <2>1, <2>2, Lengths, PrefixOfConcat
<1> QED
  BY <1>2, <1>3, Lengths DEF BytesInv

LEMMA EchoInit == Init => EchoInv
<1> SUFFICES ASSUME Init PROVE EchoInv
  OBVIOUS
<1>1. /\ shutting_down \in BOOLEAN /\ hungup \in BOOLEAN /\ broken \in BOOLEAN
      /\ pc = "loop" /\ accepted = 0
      /\ sent = <<>> /\ unread = <<>> /\ read_buf = <<>> /\ line = <<>> /\ echoed = <<>>
      /\ hungup = FALSE
  BY DEF Init
<1>2. 0 <= MaxLine /\ 0 \in 0 .. MaxConns
  BY EchoAssumption
<1>3. TypeOK
  BY <1>1, <1>2, NoBytes DEF TypeOK, Sent
<1> QED
  BY <1>1, <1>3, NoBytes DEF EchoInv, WritesInOrder

(* A byte that is appended comes last in what follows the first m.         *)
LEMMA AppendToRest ==
    ASSUME NEW s \in Seq(Sent), NEW b \in Sent, NEW m \in 0 .. Len(s)
    PROVE  SubSeq(Append(s, b), m + 1, Len(s) + 1) = Append(SubSeq(s, m + 1, Len(s)), b)
<1> DEFINE t == Append(s, b)
<1>1. /\ t \in Seq(Sent) /\ Len(t) = Len(s) + 1
      /\ \A k \in 1 .. Len(s) : t[k] = s[k]
      /\ t[Len(s) + 1] = b
  OBVIOUS
<1> HIDE DEF t
<1>2. /\ SubSeq(t, m + 1, Len(s) + 1) \in Seq(Sent)
      /\ Len(SubSeq(t, m + 1, Len(s) + 1)) = Len(s) - m + 1
      /\ \A k \in 1 .. Len(s) - m + 1 : SubSeq(t, m + 1, Len(s) + 1)[k] = t[m + k]
  BY <1>1
<1>3. /\ SubSeq(s, m + 1, Len(s)) \in Seq(Sent)
      /\ Len(SubSeq(s, m + 1, Len(s))) = Len(s) - m
      /\ \A k \in 1 .. Len(s) - m : SubSeq(s, m + 1, Len(s))[k] = s[m + k]
  OBVIOUS
<1> DEFINE r == SubSeq(s, m + 1, Len(s))
           u == SubSeq(t, m + 1, Len(s) + 1)
<1>4. r \in Seq(Sent) /\ Len(r) = Len(s) - m
  BY <1>3
<1>5. \A k \in 1 .. Len(s) - m : u[k] = r[k]
  <2>1. \A k \in 1 .. Len(s) - m : m + k \in 1 .. Len(s) /\ k \in 1 .. Len(s) - m + 1
    OBVIOUS
  <2> QED
    BY <1>1, <1>2, <1>3, <2>1
<1>6. u[Len(s) - m + 1] = b
  <2>1. Len(s) - m + 1 \in 1 .. Len(s) - m + 1 /\ m + (Len(s) - m + 1) = Len(s) + 1
    OBVIOUS
  <2>2. u[Len(s) - m + 1] = t[m + (Len(s) - m + 1)]
    BY <1>2, <2>1
  <2> HIDE DEF u
  <2>3. t[m + (Len(s) - m + 1)] = t[Len(s) + 1]
    BY <2>1
  <2> QED
    BY <1>1, <2>2, <2>3
<1>7. u \in Seq(Sent) /\ Len(u) = Len(s) - m + 1
  BY <1>2
<1> HIDE DEF r, u
<1>8. /\ Append(r, b) \in Seq(Sent) /\ Len(Append(r, b)) = Len(s) - m + 1
      /\ \A k \in 1 .. Len(s) - m : Append(r, b)[k] = r[k]
      /\ Append(r, b)[Len(s) - m + 1] = b
  BY <1>4, AppendProperties
<1>9. \A k \in 1 .. Len(u) : u[k] = Append(r, b)[k]
  BY <1>5, <1>6, <1>7, <1>8
<1> QED
  BY <1>7, <1>8, <1>9, SeqEqual DEF r, t, u

LEMMA SendStep ==
    ASSUME EchoInv, NEW b \in Sent, Send(b)
    PROVE  EchoInv'
<1>1. /\ pc \in {"read", "write"} /\ pc' = pc /\ hungup = FALSE /\ hungup' = FALSE
      /\ sent' = Append(sent, b) /\ unread' = Append(unread, b)
      /\ UNCHANGED <<shutting_down, accepted, read_buf, line, echoed, broken>>
  BY DEF Send, EchoInv, TypeOK
<1>2. /\ sent \in Seq(Sent) /\ unread \in Seq(Sent) /\ read_buf \in Seq(Bytes)
      /\ Got \in 0 .. Len(sent) /\ BytesInv /\ echoed \in Seq(Bytes)
  BY <1>1, Lengths
<1>3. /\ sent' \in Seq(Sent) /\ unread' \in Seq(Sent)
      /\ Len(sent') = Len(sent) + 1 /\ Len(unread') = Len(unread) + 1
  BY <1>1, <1>2
<1>4. TypeOK'
  BY <1>1, <1>3 DEF EchoInv, TypeOK, Sent
<1>5. Got' = Got
  BY <1>1, <1>2, <1>3 DEF Got
<1>6. Frames(sent')[Got] = Frames(sent)[Got] /\ Frames(sent')[Len(sent)] = Frames(sent)[Len(sent)]
  <2>1. Len(sent) \in 0 .. Len(sent)
    BY <1>2
  <2> QED
    BY <1>1, <1>2, <2>1, FramesStay
<1>7. read_buf' \o unread' = SubSeq(sent', Got + 1, Len(sent'))
  <2>1. read_buf \o Append(unread, b) = Append(read_buf \o unread, b)
    BY <1>2 DEF Sent, Bytes
  <2>2. SubSeq(Append(sent, b), Got + 1, Len(sent) + 1) = Append(SubSeq(sent, Got + 1, Len(sent)), b)
    BY <1>2, AppendToRest
  <2> QED
    BY <1>1, <1>2, <1>3, <2>1, <2>2 DEF BytesInv
<1>8. WritesInOrder'
  <2>1. IsPrefix(echoed, Frames(sent)[Len(sent)].out)
    BY <1>1 DEF EchoInv, WritesInOrder, Written
  <2>2. Len(sent) \in 0 .. Len(sent') /\ FALSE \in BOOLEAN
    BY <1>2, <1>3
  <2>3. /\ IsPrefix(Frames(sent')[Len(sent)].out, Written(sent', FALSE))
        /\ Written(sent', FALSE) \in Seq(Bytes) /\ Frames(sent')[Len(sent)].out \in Seq(Bytes)
    BY <1>3, <2>2, WrittenProperties, FramesType DEF FrameType
  <2> QED
    BY <1>1, <1>2, <1>6, <2>1, <2>3, PrefixTransitive DEF WritesInOrder
<1>9. /\ echoed' \o line' = Frames(sent')[Got'].out
      /\ Frames(sent')[Got'].run = IF pc' = "read" THEN Len(line') ELSE 0
  BY <1>1, <1>2, <1>5, <1>6 DEF BytesInv, Drained
<1> QED
  BY <1>2, <1>4, <1>5, <1>7, <1>8, <1>9 DEF EchoInv

LEMMA HangUpStep ==
    ASSUME EchoInv, HangUp
    PROVE  EchoInv'
<1>1. /\ pc \in {"read", "write"} /\ pc' = pc /\ hungup = FALSE /\ hungup' = TRUE
      /\ UNCHANGED <<shutting_down, accepted, sent, unread, read_buf, line, echoed, broken>>
  BY DEF HangUp, EchoInv, TypeOK
<1>2. sent \in Seq(Sent) /\ echoed \in Seq(Bytes) /\ BytesInv
  BY <1>1, Lengths
<1>3. WritesInOrder'
  <2>1. IsPrefix(echoed, Frames(sent)[Len(sent)].out)
    BY <1>1 DEF EchoInv, WritesInOrder, Written
  <2>2. Len(sent) \in 0 .. Len(sent)
    BY <1>2
  <2>3. /\ IsPrefix(Frames(sent)[Len(sent)].out, Written(sent, TRUE))
        /\ Written(sent, TRUE) \in Seq(Bytes) /\ Frames(sent)[Len(sent)].out \in Seq(Bytes)
    BY <1>2, <2>2, WrittenProperties, FramesType DEF FrameType
  <2> QED
    BY <1>1, <1>2, <2>1, <2>3, PrefixTransitive DEF WritesInOrder
<1> QED
  BY <1>1, <1>2, <1>3 DEF EchoInv, TypeOK, BytesInv, Got, Drained

LEMMA AcceptStep ==
    ASSUME EchoInv, Accept
    PROVE  EchoInv'
<1>1. /\ accepted < MaxConns /\ accepted' = accepted + 1
      /\ pc' \in {"quit", "read"} /\ shutting_down' = shutting_down
      /\ sent' = <<>> /\ unread' = <<>> /\ read_buf' = <<>> /\ line' = <<>> /\ echoed' = <<>>
      /\ hungup' = FALSE /\ broken' = FALSE
  BY DEF Accept
<1>2. /\ accepted' \in 0 .. MaxConns /\ 0 <= MaxLine
  <2>1. accepted \in 0 .. MaxConns
    BY DEF EchoInv, TypeOK
  <2> QED
    BY <1>1, <2>1, EchoAssumption
<1>3. TypeOK'
  BY <1>1, <1>2, NoBytes DEF EchoInv, TypeOK, Sent
<1>4. WritesInOrder'
  BY <1>1, NoBytes DEF WritesInOrder
<1>5. Got' = 0
  <2>1. Got' = Len(<<>>) - Len(<<>>) - Len(<<>>)
    BY <1>1 DEF Got
  <2>2. Len(<<>>) = 0
    BY NoBytes
  <2> DEFINE m == Len(<<>>)
  <2> HIDE DEF m
  <2>3. Got' = m - m - m /\ m = 0
    BY <2>1, <2>2, Zenon DEF m
  <2> QED
    BY <2>3
<1>6. <<>> \o <<>> = <<>> /\ SubSeq(<<>>, 0 + 1, Len(<<>>)) = <<>>
  BY NoBytes, ConcatEmptySeq, SubSeqEmpty
<1>7. /\ Got' \in Nat
      /\ read_buf' \o unread' = SubSeq(sent', Got' + 1, Len(sent'))
      /\ echoed' \o line' = Frames(sent')[Got'].out
      /\ Frames(sent')[Got'].run = 0 /\ Len(line') = 0
  BY <1>1, <1>5, <1>6, NoBytes DEF Base
<1> QED
  BY <1>1, <1>3, <1>4, <1>7 DEF EchoInv

LEMMA RefillStep ==
    ASSUME EchoInv, Refill
    PROVE  EchoInv'
<1>1. PICK k \in 1 .. MaxLine :
         /\ pc = "read" /\ read_buf = <<>> /\ k <= Len(unread)
         /\ read_buf' = SubSeq(unread, 1, k)
         /\ unread' = SubSeq(unread, k + 1, Len(unread))
         /\ UNCHANGED <<shutting_down, pc, accepted, sent, hungup, line, echoed, broken>>
  BY DEF Refill
<1>2. /\ sent \in Seq(Sent) /\ unread \in Seq(Sent) /\ Got \in 0 .. Len(sent)
      /\ Len(sent) = Got + Len(unread) /\ BytesInv
  BY <1>1, Lengths, NoBytes
<1>3. k \in 1 .. Len(unread) /\ k <= MaxLine
  BY <1>1, <1>2, EchoAssumption
<1>4. /\ read_buf' \in Seq(Sent) /\ unread' \in Seq(Sent)
      /\ Len(read_buf') = k /\ Len(unread') = Len(unread) - k
  BY <1>1, <1>2, <1>3
<1>5. read_buf' \o unread' = unread
  <2>1. 1 \in 1 .. Len(unread) + 1 /\ k \in 1 - 1 .. Len(unread) /\ Len(unread) \in k .. Len(unread)
    BY <1>3
  <2>2. SubSeq(unread, 1, k) \o SubSeq(unread, k + 1, Len(unread)) = SubSeq(unread, 1, Len(unread))
    BY <1>2, <2>1, ConcatAdjacentSubSeq, Zenon
  <2> QED
    BY <1>1, <1>2, <2>2, SubSeqFull
<1>6. read_buf' \in Seq(Bytes)
  <2>1. Sent \subseteq Bytes
    BY DEF Sent, Bytes
  <2> QED
    BY <1>4, <2>1, SeqMonotonic
<1>7. TypeOK'
  BY <1>1, <1>3, <1>4, <1>6 DEF EchoInv, TypeOK, Sent
<1>8. WritesInOrder'
  BY <1>1 DEF EchoInv, WritesInOrder
<1>9. Got' = Got
  <2>1. Got' = Len(sent) - (Len(unread) - k) - k
    BY <1>1, <1>4 DEF Got
  <2>2. Got = Len(sent) - Len(unread) /\ Len(sent) \in Nat /\ Len(unread) \in Nat
    BY <1>2
  <2> QED
    BY <1>3, <2>1, <2>2
<1>10. read_buf \o unread = unread
  BY <1>1, <1>2, ConcatEmptySeq
<1>11. ~ Drained
  BY <1>2, <1>3, NoBytes DEF Drained
<1> QED
  BY <1>1, <1>2, <1>5, <1>7, <1>8, <1>9, <1>10, <1>11 DEF EchoInv, BytesInv

LEMMA TakeCharStep ==
    ASSUME EchoInv, TakeChar
    PROVE  EchoInv'
<1> DEFINE h == Head(read_buf)
           text == Append(line, h)
           acc == Frames(sent)[Got]
<1>1. /\ pc = "read" /\ read_buf # <<>> /\ read_buf' = Tail(read_buf)
      /\ UNCHANGED <<shutting_down, accepted, sent, hungup, unread, echoed, broken>>
      /\ \/ h = "nl" /\ Return(text)
         \/ h # "nl" /\ Len(text) = MaxLine - 1 /\ Return(Append(text, "nul"))
         \/ h # "nl" /\ Len(text) # MaxLine - 1 /\ line' = text /\ pc' = pc
  BY DEF TakeChar
<1>2. /\ sent \in Seq(Sent) /\ unread \in Seq(Sent) /\ read_buf \in Seq(Bytes)
      /\ line \in Seq(Bytes) /\ echoed \in Seq(Bytes) /\ echoed \o line \in Seq(Bytes)
      /\ Got \in 0 .. Len(sent) /\ Len(sent) = Got + Len(read_buf) + Len(unread)
      /\ BytesInv /\ acc \in FrameType
  BY <1>1, Lengths
<1>3. ~ Drained
  BY <1>1 DEF Drained
<1>4. echoed \o line = acc.out /\ acc.run = Len(line)
  BY <1>1, <1>2, <1>3 DEF BytesInv
<1>5. Len(read_buf) >= 1 /\ Len(read_buf') = Len(read_buf) - 1 /\ read_buf' \in Seq(Bytes)
  BY <1>1, <1>2
<1>6. Got \in 0 .. Len(sent) - 1 /\ Got' = Got + 1 /\ Got' \in 1 .. Len(sent)
  <2>1. Len(unread) \in Nat /\ Len(read_buf) \in Nat /\ Len(sent) \in Nat
    BY <1>2
  <2> QED
    BY <1>1, <1>2, <1>5, <2>1 DEF Got
<1>7. h = sent[Got + 1] /\ read_buf' \o unread = SubSeq(sent, Got + 2, Len(sent))
  <2>1. /\ Head(read_buf \o unread) = h
        /\ Tail(read_buf \o unread) = Tail(read_buf) \o unread
    BY <1>1, <1>2, SMTT(30) DEF Sent, Bytes
  <2>2. read_buf \o unread = SubSeq(sent, Got + 1, Len(sent))
    BY <1>2 DEF BytesInv
  <2>3. Got + 1 \in 1 .. Len(sent) /\ Len(sent) \in Got + 1 .. Len(sent)
    BY <1>2, <1>6
  <2>4. /\ Head(SubSeq(sent, Got + 1, Len(sent))) = sent[Got + 1]
        /\ Tail(SubSeq(sent, Got + 1, Len(sent))) = SubSeq(sent, Got + 1 + 1, Len(sent))
    BY <1>2, <2>3, HeadTailOfSubSeq
  <2>5. Got + 1 + 1 = Got + 2
    BY <1>6
  <2> HIDE DEF h
  <2> QED
    BY <1>1, <2>1, <2>2, <2>4, <2>5
<1>8. h \in Sent /\ h \in Bytes
  <2>1. sent[Got + 1] \in Sent
    BY <1>2, <1>6
  <2> QED
    BY <1>7, <2>1 DEF Sent, Bytes
<1> HIDE DEF h
<1>9. Frames(sent)[Got'] = FrameStep(acc, h)
  <2>1. Got' \in 1 .. Len(sent) /\ Got' - 1 = Got
    BY <1>6
  <2> QED
    BY <1>2, <1>6, <1>7, <2>1, FramesTurn
<1>10. /\ text \in Seq(Bytes) /\ Len(text) = Len(line) + 1 /\ Len(line) \in Nat
       /\ text = line \o <<h>> /\ <<h>> \in Seq(Bytes) /\ "nul" \in Bytes
       /\ Append(text, "nul") \in Seq(Bytes) /\ Len(Append(text, "nul")) = Len(line) + 2
  <2>1. "nul" \in Bytes
    BY DEF Bytes
  <2>2. text \in Seq(Bytes) /\ Len(text) = Len(line) + 1 /\ text = line \o <<h>>
    BY <1>2, <1>8, AppendProperties, AppendIsConcat
  <2> HIDE DEF text
  <2>3. Append(text, "nul") \in Seq(Bytes) /\ Len(Append(text, "nul")) = Len(text) + 1
    BY <2>1, <2>2, AppendProperties
  <2> QED
    BY <1>2, <1>8, <2>1, <2>2, <2>3
<1>11. echoed \o text = Append(acc.out, h)
  <2>1. echoed \o (line \o <<h>>) = (echoed \o line) \o <<h>>
    BY <1>2, <1>10, ConcatAssociative
  <2>2. (echoed \o line) \o <<h>> = Append(echoed \o line, h)
    BY <1>2, <1>8, AppendIsConcat
  <2> QED
    BY <1>4, <1>10, <2>1, <2>2
<1>12. echoed \o Append(text, "nul") = acc.out \o <<h, "nul">>
  <2> DEFINE rest == <<h>> \o <<"nul">>
  <2>1. /\ <<"nul">> \in Seq(Bytes) /\ rest \in Seq(Bytes)
        /\ rest = <<h, "nul">>
    <3>1. <<"nul">> \in Seq(Bytes)
      BY <1>10
    <3>2. rest \in Seq(Bytes)
      BY <1>10, <3>1, ConcatProperties
    <3>3. rest = <<h, "nul">>
      <4>1. /\ <<h, "nul">> \in Seq(Bytes) /\ Len(<<h, "nul">>) = 2
            /\ <<h, "nul">>[1] = h /\ <<h, "nul">>[2] = "nul"
        BY <1>8, <1>10
      <4>2. Len(rest) = 2 /\ rest[1] = h /\ rest[2] = "nul"
        BY <1>10, <3>1, ConcatProperties
      <4>3. \A k \in 1 .. 2 : k = 1 \/ k = 2
        OBVIOUS
      <4> HIDE DEF rest
      <4>4. \A k \in 1 .. Len(rest) : rest[k] = <<h, "nul">>[k]
        BY <4>1, <4>2, <4>3
      <4> QED
        BY <3>2, <4>1, <4>2, <4>4, SeqEqual
    <3> QED
      BY <3>1, <3>2, <3>3
  <2>2. Append(text, "nul") = line \o rest
    <3>1. text = line \o <<h>>
      BY <1>10
    <3> HIDE DEF text
    <3>2. Append(text, "nul") = text \o <<"nul">>
      BY <1>10, AppendIsConcat
    <3>3. (line \o <<h>>) \o <<"nul">> = line \o (<<h>> \o <<"nul">>)
      BY <1>2, <1>10, <2>1, ConcatAssociative
    <3> QED
      BY <3>1, <3>2, <3>3
  <2> HIDE DEF rest, text
  <2>3. echoed \o (line \o rest) = (echoed \o line) \o rest
    <3>1. echoed \in Seq(Bytes) /\ line \in Seq(Bytes) /\ rest \in Seq(Bytes)
      BY <1>2, <2>1
    <3> QED
      BY <3>1, ConcatAssociative
  <2> QED
    BY <1>4, <2>1, <2>2, <2>3, Zenon
<1>13. Len(line) \in 0 .. MaxLine - 2 /\ MaxLine \in Nat
  BY <1>2, <1>4, EchoAssumption DEF FrameType
<1> HIDE DEF text, acc
<1>a. ASSUME NEW t \in Seq(Bytes), NEW o, NEW r,
             line' = t, Len(t) <= MaxLine, FrameStep(acc, h) = [out |-> o, run |-> r],
             echoed \o t = o,
             \/ pc' \in {"quit", "write"} /\ r = 0
             \/ pc' = "read" /\ r = Len(t)
      PROVE  /\ line' \in Seq(Bytes) /\ Len(line') <= MaxLine
             /\ pc' \in {"read", "write", "quit"}
             /\ pc' \in {"read", "write"} =>
                   /\ echoed \o line' = FrameStep(acc, h).out
                   /\ FrameStep(acc, h).run = IF pc' = "read" THEN Len(line') ELSE 0
  BY <1>a
<1>14. /\ line' \in Seq(Bytes) /\ Len(line') <= MaxLine
       /\ pc' \in {"read", "write", "quit"}
       /\ pc' \in {"read", "write"} =>
             /\ echoed \o line' = FrameStep(acc, h).out
             /\ FrameStep(acc, h).run = IF pc' = "read" THEN Len(line') ELSE 0
  <2>0. /\ Len(text) \in Nat /\ Len(text) <= MaxLine
        /\ Len(Append(text, "nul")) <= MaxLine
    BY <1>10, <1>13
  <2>1. CASE h = "nl" /\ Return(text)
    <3>1. line' = text /\ pc' \in {"quit", "write"}
      BY <2>1 DEF Return
    <3>2. FrameStep(acc, h) = [out |-> Append(acc.out, h), run |-> 0]
      BY <2>1 DEF FrameStep
    <3> QED
      BY <1>a, <1>10, <1>11, <2>0, <3>1, <3>2
  <2>2. CASE h # "nl" /\ Len(text) = MaxLine - 1 /\ Return(Append(text, "nul"))
    <3>1. line' = Append(text, "nul") /\ pc' \in {"quit", "write"}
      BY <2>2 DEF Return
    <3>2. FrameStep(acc, h) = [out |-> acc.out \o <<h, "nul">>, run |-> 0]
      <4>1. acc.run + 1 = MaxLine - 1
        BY <1>4, <1>10, <2>2
      <4> QED
        BY <2>2, <4>1 DEF FrameStep
    <3> QED
      BY <1>a, <1>10, <1>12, <2>0, <3>1, <3>2
  <2>3. CASE h # "nl" /\ Len(text) # MaxLine - 1 /\ line' = text /\ pc' = pc
    <3>1. FrameStep(acc, h) = [out |-> Append(acc.out, h), run |-> acc.run + 1]
      <4>1. acc.run + 1 # MaxLine - 1
        BY <1>4, <1>10, <2>3
      <4> QED
        BY <2>3, <4>1 DEF FrameStep
    <3>2. acc.run + 1 = Len(text) /\ pc' = "read"
      BY <1>1, <1>4, <1>10, <2>3
    <3> QED
      BY <1>a, <1>10, <1>11, <2>0, <2>3, <3>1, <3>2
  <2> QED
    BY <1>1, <2>1, <2>2, <2>3
<1>15. TypeOK'
  <2>1. Len(read_buf') <= MaxLine
    BY <1>2, <1>5, <1>13 DEF EchoInv, TypeOK
  <2> QED
    BY <1>1, <1>5, <1>14, <2>1 DEF EchoInv, TypeOK
<1>16. WritesInOrder'
  BY <1>1 DEF EchoInv, WritesInOrder
<1>17. read_buf' \o unread' = SubSeq(sent', Got' + 1, Len(sent')) /\ Got' \in Nat
  <2>1. Got' + 1 = Got + 2
    BY <1>6
  <2> QED
    BY <1>1, <1>6, <1>7, <2>1
<1> QED
  BY <1>1, <1>9, <1>14, <1>15, <1>16, <1>17 DEF EchoInv

LEMMA EndOfFileStep ==
    ASSUME EchoInv, EndOfFile
    PROVE  EchoInv'
<1>1. /\ pc = "read" /\ read_buf = <<>> /\ unread = <<>> /\ hungup
      /\ UNCHANGED <<shutting_down, accepted, sent, hungup, unread, read_buf, echoed, broken>>
      /\ \/ pc' = "quit" /\ line' = line
         \/ line # <<>> /\ line' = Append(line, "nul") /\ pc' \in {"quit", "write"}
  BY DEF EndOfFile, Return
<1>2. CASE pc' = "quit" /\ line' = line
  <2>1. shutting_down' \in BOOLEAN /\ broken' \in BOOLEAN
    BY <1>1 DEF EchoInv, TypeOK
  <2> QED
    BY <1>1, <1>2, <2>1, Outside
<1>3. CASE line # <<>> /\ line' = Append(line, "nul") /\ pc' \in {"quit", "write"}
  <2>1. /\ sent \in Seq(Sent) /\ line \in Seq(Bytes) /\ echoed \in Seq(Bytes)
        /\ echoed \o line \in Seq(Bytes) /\ Frames(sent)[Got] \in FrameType
        /\ Got = Len(sent) /\ Len(line) \in Nat /\ Len(line) > 0 /\ BytesInv
    <3>1. /\ sent \in Seq(Sent) /\ line \in Seq(Bytes) /\ echoed \in Seq(Bytes)
          /\ echoed \o line \in Seq(Bytes) /\ Frames(sent)[Got] \in FrameType /\ BytesInv
      BY <1>1, Lengths
    <3>2. Got \in 0 .. Len(sent) /\ Len(sent) = Got + Len(read_buf) + Len(unread)
      BY <1>1, Lengths
    <3> QED
      BY <1>1, <1>3, <3>1, <3>2, NoBytes
  <2>2. echoed \o line = Frames(sent)[Len(sent)].out /\ Frames(sent)[Len(sent)].run = Len(line)
    BY <1>1, <1>3, <2>1 DEF BytesInv
  <2>3. Written(sent, TRUE) = Append(echoed \o line, "nul")
    BY <2>1, <2>2 DEF Written
  <2>4. /\ line' \in Seq(Bytes) /\ Len(line') = Len(line) + 1
        /\ echoed \o line' = Append(echoed \o line, "nul")
    <3>1. "nul" \in Bytes /\ <<"nul">> \in Seq(Bytes)
      BY DEF Bytes
    <3>2. /\ Append(line, "nul") = line \o <<"nul">> /\ Append(line, "nul") \in Seq(Bytes)
          /\ Len(Append(line, "nul")) = Len(line) + 1
      BY <2>1, <3>1, AppendIsConcat, AppendProperties
    <3>3. echoed \o (line \o <<"nul">>) = (echoed \o line) \o <<"nul">>
      BY <2>1, <3>1, ConcatAssociative
    <3>4. (echoed \o line) \o <<"nul">> = Append(echoed \o line, "nul")
      BY <2>1, <3>1, AppendIsConcat
    <3> QED
      BY <1>3, <3>2, <3>3, <3>4
  <2>5. Len(line') <= MaxLine
    BY <2>1, <2>2, <2>4, EchoAssumption DEF FrameType
  <2>6. TypeOK'
    BY <1>1, <1>3, <2>4, <2>5 DEF EchoInv, TypeOK
  <2>7. WritesInOrder'
    BY <1>1 DEF EchoInv, WritesInOrder
  <2>8. Got' = Got /\ Drained'
    BY <1>1 DEF Got, Drained
  <2> QED
    BY <1>1, <1>3, <2>1, <2>3, <2>4, <2>6, <2>7, <2>8 DEF EchoInv, BytesInv
<1> QED
  BY <1>1, <1>2, <1>3

LEMMA WriteStep ==
    ASSUME EchoInv, Write
    PROVE  EchoInv'
<1>1. PICK k \in 1 .. MaxLine :
         /\ pc = "write" /\ k <= Len(line)
         /\ echoed' = echoed \o SubSeq(line, 1, k)
         /\ line' = SubSeq(line, k + 1, Len(line))
         /\ pc' = CASE k < Len(line) -> "write"
                    [] k = Len(line) -> IF shutting_down THEN "quit" ELSE "read"
         /\ UNCHANGED <<shutting_down, accepted, sent, hungup, unread, read_buf, broken>>
  BY DEF Write
<1>2. /\ sent \in Seq(Sent) /\ line \in Seq(Bytes) /\ echoed \in Seq(Bytes)
      /\ echoed \o line \in Seq(Bytes) /\ Got \in 0 .. Len(sent) /\ BytesInv
  BY <1>1, Lengths
<1>3. k \in 1 .. Len(line) /\ Len(line) \in Nat /\ Len(line) <= MaxLine
  BY <1>1, <1>2, EchoAssumption DEF EchoInv, TypeOK
<1>4. /\ pc' \in {"write", "quit", "read"}
      /\ pc' = "read" => k = Len(line)
  BY <1>1, <1>3
<1>5. /\ SubSeq(line, 1, k) \in Seq(Bytes)
      /\ line' \in Seq(Bytes) /\ Len(line') = Len(line) - k
  <2>1. SubSeq(line, 1, k) \in Seq(Bytes)
    BY <1>2, <1>3
  <2>2. SubSeq(line, k + 1, Len(line)) \in Seq(Bytes)
        /\ Len(SubSeq(line, k + 1, Len(line))) = Len(line) - k
    BY <1>2, <1>3
  <2> QED
    BY <1>1, <2>1, <2>2, Zenon
<1>6. echoed' \in Seq(Bytes)
  BY <1>1, <1>2, <1>5, ConcatProperties
<1>7. echoed' \o line' = echoed \o line
  <2>1. 1 \in 1 .. Len(line) + 1 /\ k \in 1 - 1 .. Len(line) /\ Len(line) \in k .. Len(line)
    BY <1>3
  <2>2. SubSeq(line, 1, k) \o SubSeq(line, k + 1, Len(line)) = SubSeq(line, 1, Len(line))
    BY <1>2, <2>1, ConcatAdjacentSubSeq, Zenon
  <2>3. SubSeq(line, 1, Len(line)) = line
    BY <1>2, SubSeqFull
  <2>4. (echoed \o SubSeq(line, 1, k)) \o line' = echoed \o (SubSeq(line, 1, k) \o line')
    BY <1>2, <1>5, ConcatAssociative, SMTT(30)
  <2> QED
    BY <1>1, <2>2, <2>3, <2>4
<1>8. TypeOK'
  <2>1. Len(line') <= MaxLine
    BY <1>3, <1>5, EchoAssumption
  <2>2. pc' \in {"loop", "accept", "read", "write", "quit", "exited"}
    BY <1>4
  <2> QED
    BY <1>1, <1>5, <1>6, <2>1, <2>2 DEF EchoInv, TypeOK
<1>9. WritesInOrder'
  <2>1. IsPrefix(echoed', echoed' \o line')
    BY <1>2, <1>5, <1>6, <1>7, PrefixOfConcat
  <2>2. hungup \in BOOLEAN /\ 0 \in 0 .. Len(sent)
    BY <1>2 DEF EchoInv, TypeOK
  <2>3. Written(sent, hungup) \in Seq(Bytes)
    BY <1>2, <2>2, WrittenProperties
  <2>4. IsPrefix(echoed', Written(sent, hungup))
    BY <1>1, <1>2, <1>6, <1>7, <2>1, <2>3, LinePrefix, PrefixTransitive
  <2> QED
    BY <1>1, <2>4 DEF WritesInOrder
<1>10. Got' = Got /\ Drained' = Drained
  BY <1>1 DEF Got, Drained
<1>11. pc' = "read" => line' = <<>> /\ Len(line') = 0
  BY <1>3, <1>4, <1>5
<1> QED
  BY <1>1, <1>2, <1>4, <1>7, <1>8, <1>9, <1>10, <1>11 DEF EchoInv, BytesInv

LEMMA EchoStep == EchoInv /\ [Next]_vars => EchoInv'
<1> SUFFICES ASSUME EchoInv, [Next]_vars PROVE EchoInv'
  OBVIOUS
<1>0. shutting_down \in BOOLEAN /\ broken \in BOOLEAN
  BY DEF EchoInv, TypeOK
<1>1. ASSUME NEW b \in {"c", "nl"}, Send(b) PROVE EchoInv'
  BY <1>1, SendStep DEF Sent
<1>2. CASE MainLoop \/ Close \/ CallFails \/ AcceptFails \/ Sigint
  <2>1. /\ pc' \in {"loop", "accept", "quit", "exited"} \/ pc' = pc
        /\ shutting_down' \in BOOLEAN /\ broken' \in BOOLEAN
        /\ UNCHANGED <<accepted, clientVars, bufVars, echoed>>
    BY <1>0, <1>2 DEF MainLoop, Close, CallFails, AcceptFails, Sigint
  <2> QED
    BY <2>1, Outside
<1>3. CASE UNCHANGED vars
  <2>1. pc' = pc /\ shutting_down' = shutting_down /\ broken' = broken
        /\ UNCHANGED <<accepted, clientVars, bufVars, echoed>>
    BY <1>3 DEF vars
  <2> QED
    BY <1>0, <2>1, Outside
<1> QED
  BY <1>1, <1>2, <1>3, HangUpStep, AcceptStep, RefillStep, TakeCharStep, EndOfFileStep,
     WriteStep DEF Next, ServerNext

LEMMA EchoHolds == Spec => []EchoInv
BY EchoInit, EchoStep, PTL DEF Spec

(* readline never writes beyond its array: the line with its terminator    *)
(* has at most MAXLINE bytes, whatever arrives and however it is cut.      *)
THEOREM EchoTyped == Spec => []TypeOK
<1>1. EchoInv => TypeOK
  BY DEF EchoInv
<1> QED
  BY <1>1, EchoHolds, PTL

(* However read and write cut the stream, the characters of what the       *)
(* client gets back are the first characters of what it sent, in order.    *)
THEOREM EchoOrdered == Spec => []EchoInOrder
<1>1. EchoInv => EchoInOrder
  <2> SUFFICES ASSUME EchoInv PROVE EchoInOrder
    OBVIOUS
  <2>1. /\ sent \in Seq(Sent) /\ hungup \in BOOLEAN /\ echoed \in Seq(Bytes)
        /\ IsPrefix(echoed, Written(sent, hungup))
    BY DEF EchoInv, TypeOK, Sent, WritesInOrder
  <2>2. Written(sent, hungup) \in Seq(Bytes) /\ Text(Written(sent, hungup)) = sent
    <3>1. 0 \in 0 .. Len(sent)
      BY <2>1
    <3> QED
      BY <2>1, <3>1, WrittenProperties, TextOfWritten
  <2> QED
    BY <2>1, <2>2, TextPrefix DEF EchoInOrder
<1> QED
  BY <1>1, EchoHolds, PTL

(* A client whose lines fit readline's array, and that does not hang up in *)
(* the middle of one, gets back exactly the bytes it sent.                 *)
THEOREM ShortLinesEchoed == Spec => []ShortLinesExact
<1>1. EchoInv => ShortLinesExact
  <2> SUFFICES ASSUME EchoInv, ShortLines(sent), hungup => Ended(sent)
               PROVE  IsPrefix(echoed, sent)
    BY DEF ShortLinesExact
  <2>1. /\ sent \in Seq(Sent) /\ hungup \in BOOLEAN
        /\ IsPrefix(echoed, Written(sent, hungup))
    BY DEF EchoInv, TypeOK, Sent, WritesInOrder
  <2> QED
    BY <2>1, ShortWritten
<1> QED
  BY <1>1, EchoHolds, PTL

-----------------------------------------------------------------------------
(* The parts together.                                                     *)

(* The machine that runs one of the parts runs it as its own specification *)
(* says: what is proved of the parts holds of the machine.                 *)
LEMMA PartsKept == ThreadSpec => Spec /\ CheckSpec /\ QueueSpec
<1>1. ThreadInit => Init /\ CheckInit /\ QueueInit
  BY DEF ThreadInit
<1>2. [ThreadNext]_threadVars => [Next]_vars /\ [CheckNext]_checkVars /\ [QueueNext]_queueVars
  <2> SUFFICES ASSUME [ThreadNext]_threadVars
               PROVE  [Next]_vars /\ [CheckNext]_checkVars /\ [QueueNext]_queueVars
    OBVIOUS
  <2> QED
    BY DEF ThreadNext, threadVars, Others
<1> QED
  BY <1>1, <1>2, PTL DEF ThreadSpec, Spec, CheckSpec, QueueSpec
=============================================================================
