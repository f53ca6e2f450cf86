------------------------------- MODULE Backoff -------------------------------
(***************************************************************************)
(* The delays before a retry: the reference worker's, the publisher's and  *)
(* the consumer's functions over durations, which doubling may overflow.   *)
(***************************************************************************)
EXTENDS MachineInteger

CONSTANTS
    Second,        \* a second, in units of duration
    MostDoublings  \* where the worker and the publisher stop to count (30)

ASSUME BackoffAssumption ==
    /\ Second \in 1 .. MaxInt
    /\ MostDoublings \in Nat

Durations == MachineIntegers

Base(base) == IF base <= 0 THEN Second ELSE base

Maximum(base, maximum) == IF maximum < Base(base) THEN Base(base) ELSE maximum

\* Fault: it doubles first and compares afterwards.
GrownUnchecked(base, maximum, n) ==
    LET delay[i \in 0 .. n] ==
          IF i = 0 THEN base
          ELSE IF delay[i - 1] >= maximum THEN maximum ELSE Signed(2 * delay[i - 1])
    IN  IF delay[n] > maximum THEN maximum ELSE delay[n]

\* The loop of the three: a delay above half the maximum grows to the maximum
\* and stays there.
Grown(base, maximum, n) ==
    LET delay[i \in 0 .. n] ==
          IF i = 0 THEN base
          ELSE IF delay[i - 1] > maximum \div 2 THEN maximum ELSE Signed(2 * delay[i - 1])
    IN  delay[n]

Clamp(n) == IF n < 0 THEN 0 ELSE IF n > MostDoublings THEN MostDoublings ELSE n

\* attempts counts from 1: the attempt that has just failed.
ReferenceRetryDelay(base, maximum, attempts) ==
    Grown(Base(base), Maximum(base, maximum), Clamp(attempts - 1))

\* attempts counts from 0: the attempts before the one that has just failed.
PublisherRetryDelay(base, maximum, attempts) ==
    Grown(Base(base), Maximum(base, maximum), Clamp(attempts))

\* The receive count, from 1; the loop has no limit but the maximum.
ConsumerRetryDelay(base, maximum, attempt) ==
    Grown(Base(base), Maximum(base, maximum), IF attempt < 1 THEN 0 ELSE attempt - 1)

\* Fault: whole seconds, also of a delay below a second.
SecondsRounded(delay) == delay \div Second

\* The visibility timeout of a positive delay, in whole seconds.
VisibilitySeconds(delay) ==
    IF delay > 0 /\ delay \div Second = 0 THEN 1 ELSE delay \div Second
=============================================================================
