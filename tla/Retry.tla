------------------------------- MODULE Retry -------------------------------
(***************************************************************************)
(* The @Retryable decorator (package typescript-retry-decorator) the way   *)
(* the import and export plugins configure it: a method that throws is     *)
(* called again after an exponentially growing, capped pause, until its    *)
(* attempts are used up and the caller's promise rejects.                  *)
(*                                                                         *)
(* The state of one decorated call is a record; the plugins keep one per   *)
(* call in a variable of theirs.  `slept' is a history of the pauses.      *)
(***************************************************************************)
EXTENDS Integers

CONSTANTS MAX_POLL_TIMEOUT,      \* the time the plugins mean to poll for, in ms
          MAX_BACKOFF_INTERVAL,  \* the longest pause between two attempts, in ms
          HEAD_START,            \* the 25.5 s the code subtracts for the short pauses
          BackOff,               \* the first pause, in ms
          Multiplier             \* the growth factor of the pauses

ASSUME RetryAssumption ==
  /\ MAX_POLL_TIMEOUT \in Nat
  /\ MAX_BACKOFF_INTERVAL \in Nat \ {0}
  /\ HEAD_START \in Nat
  /\ HEAD_START <= MAX_POLL_TIMEOUT
  /\ MAX_BACKOFF_INTERVAL <= HEAD_START + 1
  /\ BackOff \in Nat
  /\ BackOff <= MAX_BACKOFF_INTERVAL
  /\ Multiplier \in Nat \ {0}

\* Math.ceil((MAX_POLL_TIMEOUT - 25.5 * 1_000) / MAX_BACKOFF_INTERVAL)
MAX_ATTEMPTS ==
  (MAX_POLL_TIMEOUT - HEAD_START + MAX_BACKOFF_INTERVAL - 1) \div MAX_BACKOFF_INTERVAL

RetryState == [left : Nat, wait : 0..MAX_BACKOFF_INTERVAL, slept : Nat]

FirstAttempt == [left |-> MAX_ATTEMPTS, wait |-> BackOff, slept |-> 0]

\* Mutant: maxAttempts-- < 0, one attempt too many.
ExhaustedLate(r) == r.left < 0

\* if (--maxAttempts < 0) throw new MaxAttemptsError(...)
Exhausted(r) == r.left - 1 < 0

\* Mutant: the pauses grow without the cap.
NextBackOffUncapped(wait) == wait * Multiplier

\* backOff = min(backOff * multiplier, maxInterval)
NextBackOff(wait) ==
  IF wait * Multiplier < MAX_BACKOFF_INTERVAL THEN wait * Multiplier
                                              ELSE MAX_BACKOFF_INTERVAL

\* One failed attempt that is not the last: pause, then call the method again.
AfterPause(r) ==
  [left |-> r.left - 1, wait |-> NextBackOff(r.wait), slept |-> r.slept + r.wait]

(* What bounds the pauses of one call: every attempt that is left may      *)
(* still cost a longest pause.                                             *)
WithinBudget(r) ==
  r.slept + r.left * MAX_BACKOFF_INTERVAL <= MAX_ATTEMPTS * MAX_BACKOFF_INTERVAL
=============================================================================
