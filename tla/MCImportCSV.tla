---------------------------- MODULE MCImportCSV ----------------------------
(* Checks ImportCSV, and the numbers of the code that its runs replace by  *)
(* small ones.                                                             *)
EXTENDS ImportCSV, SequencesExt

\* The retry configuration of the code, in milliseconds.
Code == INSTANCE Retry WITH
  MAX_POLL_TIMEOUT <- 3600000, MAX_BACKOFF_INTERVAL <- 10000,
  HEAD_START <- 25500, BackOff <- 500, Multiplier <- 2

\* The state of the decorator after the last of its attempts but one failed.
AllPauses ==
  FoldLeft(LAMBDA r, i : Code!AfterPause(r), Code!FirstAttempt,
           [i \in 1..Code!MAX_ATTEMPTS |-> i])

\* Whoever is told that a job did not finish in time has waited for the hour
\* the plugins set themselves, less a minute at most.
ASSUME AnHourOfPolling ==
  /\ Code!RetryAssumption
  /\ AllPauses.left = 0
  /\ AllPauses.slept \in 3540000..3600000
=============================================================================
