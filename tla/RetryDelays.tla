---------------------------- MODULE RetryDelays ----------------------------
(***************************************************************************)
(* The delay arithmetic of the retry queue, in milliseconds.               *)
(***************************************************************************)
EXTENDS Integers

BaseRetryDelay == 10000
ContinuationDelay == 1000

Max2(a, b) == IF a >= b THEN a ELSE b
Min2(a, b) == IF a <= b THEN a ELSE b

(* int.bit_length of n >= 0.                                               *)
BitLength(n) == CHOOSE k \in 0..n : 2^k > n /\ (k = 0 \/ 2^(k - 1) <= n)

(* The doubling is clamped before the shift, not after it.                 *)
BackoffDelay(attempt, cap) ==
    LET shift == Max2(attempt, 1) - 1
        ceiling == BitLength(Max2(cap, 0) \div BaseRetryDelay)
    IN Max2(0, Min2(BaseRetryDelay * 2^Min2(shift, ceiling), cap))

(* The attempt counter of an issue that has none yet is 0 here.            *)
NextAttemptOf(attempt) == IF attempt < 1 THEN 1 ELSE attempt + 1

DelayFor(attempt, delayType, cap) ==
    IF delayType = "continuation" THEN ContinuationDelay ELSE BackoffDelay(attempt, cap)

-----------------------------------------------------------------------------

(* backoff_delay_ms: the clamped shift is min(10000 * 2^(attempt-1), cap), *)
(* floored at 0; it grows with the attempt and with the cap.               *)
BackoffIsTheFormula(attempt, cap) ==
    LET d == BackoffDelay(attempt, cap) IN
    /\ d = Max2(0, Min2(BaseRetryDelay * 2^(Max2(attempt, 1) - 1), cap))
    /\ d <= BackoffDelay(NextAttemptOf(attempt), cap)

=============================================================================
