-------------------------- MODULE AlertLifecycle_MC ---------------------------
(* TLC instances of AlertLifecycle.                                        *)
EXTENDS AlertLifecycle, TLC

AlertSymmetry ==
  Permutations(Evaluators) \cup Permutations(Ids) \cup Permutations(Series)

\* Overlapping replicas explored three times: a fault beside one operator call,
\* two calls, and time passing.
LapseInit ==
  \/ Empty(MaxClock, 0, MaxUserOps - 1, 0)
  \/ Empty(MaxClock, MaxFlips - 1, 0, MaxFaults)
  \/ Empty(1, MaxFlips - 1, MaxUserOps, MaxFaults)
LapseSpec == LapseInit /\ [][Next]_vars /\ Fairness
=============================================================================
