----------------------------- MODULE SingletonLoop -----------------------------
(***************************************************************************)
(* What the scheduler and the alerter are promised by their leader         *)
(* election: one loop, although several replicas run it.  A cycle begins   *)
(* when no replica is in one, and ends, by returning or with its process,  *)
(* before another begins.                                                  *)
(***************************************************************************)
CONSTANTS Runners, Nobody
VARIABLE running   \* whose cycle it is

LoopInit == running = Nobody
BeginCycle(r) == running = Nobody /\ running' = r
FinishCycle == running # Nobody /\ running' = Nobody
LoopNext == FinishCycle \/ \E r \in Runners : BeginCycle(r)
LoopSpec == LoopInit /\ [][LoopNext]_running
=============================================================================
