---------------------------- MODULE NackHistory -----------------------------
(***************************************************************************)
(* The node's OTA handler and the NACKs its session has outlived.          *)
(*                                                                         *)
(* The handler keeps one counter for them, retry_count.  Nothing sets it   *)
(* back but a restart, it wraps, and an over-long manifest overwrites it,  *)
(* so how long a session really lasts has to be counted beside it.         *)
(***************************************************************************)
EXTENDS OtaHandler

VARIABLE
  survived   \* history: NACKs outlived since anything else changed retry_count

historyVars == <<vars, survived>>

HistoryInit == Init /\ survived = 0

\* A session in ERROR is over.
CountNack ==
  survived' = IF HandleNack
              THEN IF state' = "ERROR" THEN 0 ELSE survived + 1
              ELSE IF retry_count' = retry_count THEN survived ELSE 0

HistoryNext == Next /\ CountNack

HistorySpec == HistoryInit /\ [][HistoryNext]_historyVars

HistoryFairSpec == HistorySpec /\ PeerFairness

----------------------------------------------------------------------------
(* Properties *)

\* A session outlives at most MaxRetry NACKs, whatever an over-long manifest left
\* in retry_count, and although the uint8_t that handle_nack counts in wraps and
\* nothing sets it back: from its largest value a NACK leads to 0 and to a new
\* budget, and the third one from there is the end.
NackBudget == survived <= MaxRetry

\* What makes it so: a session that has just outlived a NACK is within the
\* budget, and the counter lags behind by the one that made it wrap.
BudgetLeft ==
  survived \in Nat /\ (survived > 0 => /\ state # "ERROR"
                                       /\ retry_count < MaxRetry
                                       /\ survived <= retry_count + 1)
============================================================================
