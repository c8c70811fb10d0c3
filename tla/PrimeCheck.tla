----------------------------- MODULE PrimeCheck ----------------------------
(***************************************************************************)
(* isPrime of proj1/src/multisrv.c: trial division by 2, 3, ... while the  *)
(* square of the divisor is less than n.  One step is one evaluation of    *)
(* the loop condition with the body it admits.                             *)
(*                                                                         *)
(* n ranges over the ints a client may send; MaxNum is small enough that   *)
(* i*i does not leave the int range (echocli sends less than 1000, driver  *)
(* less than 10000).                                                       *)
(***************************************************************************)
EXTENDS Integers

CONSTANTS MaxNeg, MaxNum  \* bounds: the numbers sent are in -MaxNeg .. MaxNum

ASSUME RangeAssumption == MaxNeg \in Nat /\ MaxNum \in Nat

Numbers == (-MaxNeg) .. MaxNum

VARIABLES
    n,       \* the argument
    i,       \* the divisor tried next
    result   \* the return value, or "none" before the return

checkVars == <<n, i, result>>

CheckInit ==
    /\ n \in Numbers
    /\ i = 2
    /\ result = "none"

(* Mutant: the bound is n, so that n itself counts as a divisor. *)
DividesSelf ==
    /\ result = "none"
    /\ i <= n
    /\ n % i = 0
    /\ result' = "0"
    /\ UNCHANGED <<n, i>>

(* The loop condition holds and i divides n: return 0. *)
Divides ==
    /\ result = "none"
    /\ i * i < n
    /\ n % i = 0
    /\ result' = "0"
    /\ UNCHANGED <<n, i>>

(* Mutant: only every second divisor is tried. *)
AdvanceByTwo ==
    /\ result = "none"
    /\ i * i < n
    /\ n % i # 0
    /\ i' = i + 2
    /\ UNCHANGED <<n, result>>

(* The loop condition holds and i does not divide n: next divisor. *)
Advance ==
    /\ result = "none"
    /\ i * i < n
    /\ n % i # 0
    /\ i' = i + 1
    /\ UNCHANGED <<n, result>>

(* The loop condition fails: return 1. *)
Exhausted ==
    /\ result = "none"
    /\ i * i >= n
    /\ result' = "1"
    /\ UNCHANGED <<n, i>>

CheckNext == Divides \/ Advance \/ Exhausted

CheckSpec == CheckInit /\ [][CheckNext]_checkVars

-----------------------------------------------------------------------------
(* The reference definition. *)
IsPrime(m) == m >= 2 /\ \A d \in 2 .. m - 1 : m % d # 0

(* i only grows to the first integer whose square is at least n. *)
CheckTypeOK ==
    /\ n \in Numbers
    /\ i \in Nat \ {0, 1}
    /\ i = 2 \/ (i - 1) * (i - 1) < n
    /\ result \in {"none", "0", "1"}

(* The answer 0 is never wrong: a prime is never called composite. *)
NoPrimeRejected == result = "0" => n > 2 /\ ~ IsPrime(n)

(* The answer 1 is wrong only for numbers below 2 and for squares: every   *)
(* divisor of a number called prime is its square root.                    *)
OnlySquaresSlip ==
    result = "1" => \A d \in 2 .. n - 1 : n % d = 0 => d * d = n

=============================================================================
