----------------------------- MODULE EdgeBackoff ------------------------------
(***************************************************************************)
(* The wait between two attempts of EdgeClient.retry (internal/output/     *)
(* edge.go): time.Second * (1 << (retryCount - 1)) in a 64-bit             *)
(* time.Duration, cut off at 60 seconds.  A second is 10^9 ns, that is     *)
(* 1953125 * 2^9, so the product is 1953125 shifted left by 9 + k bits     *)
(* with the bits from 64 on lost; it is looked at bit by bit.              *)
(***************************************************************************)
EXTENDS Integers

Mantissa == 1953125

Bit(x, i) == (x \div 2^i) % 2

\* Bit i of time.Second * (1 << k) as an int64.
DurationBit(k, i) == IF i - 9 - k \in 0..20 THEN Bit(Mantissa, i - 9 - k) ELSE 0

IsNegative(k) == DurationBit(k, 63) = 1

IsZero(k) == \A i \in 0..63 : DurationBit(k, i) = 0

NeverOverMinute(k) == FALSE  \* mutant: the comparison with a minute is left out

\* 60 seconds is 60 * Mantissa * 2^9, less than 2^36.
OverMinute(k) ==
  /\ ~IsNegative(k)
  /\ (\E i \in 36..62 : DurationBit(k, i) = 1) \/ (k \in 0..6 /\ 2^k > 60)

\* The seconds time.Sleep waits; it returns at once unless they are positive.
\* With retryCount reset by another goroutine the shift is by 2^64 - 1: zero.
Backoff(n) ==
  LET k == n - 1 IN
  CASE k < 0 -> 0
    [] k >= 0 /\ (IsNegative(k) \/ IsZero(k)) -> 0
    [] k >= 0 /\ OverMinute(k) -> 60
    [] OTHER -> 2^k
===============================================================================
