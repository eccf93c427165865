----------------------------- MODULE Scheduling_MC -----------------------------
(* TLC instance of scheduling: the lease that elects the scheduler, with a   *)
(* lease longer than the tick period as 15s/10s (scheduler) and 90s/30s      *)
(* (alerter) are, and the dispatch of jobs.                                  *)
EXTENDS LeaderLease, SiteDispatch

CONSTANTS c1, c2, x1, x2
MCSchedulers == {c1, c2}
MCSites == {x1, x2}

\* A behaviour is one of one part, while the other rests.  Dispatch is
\* explored twice: two schedulers overlap, as after a lapsed lease, while
\* devices and supervisors rest; and one scheduler beside the supervisors
\* while a device moves.
VARIABLE part

Overlap == /\ tick = [s \in Schedulers |-> Waiting]
           /\ moves = MaxMoves /\ time = 0
Moving == /\ tick = [s \in Schedulers |-> IF s = c1 THEN Waiting ELSE Standby]
          /\ moves = 0 /\ time = MaxClock - 1

SchedulingInit ==
  /\ Init /\ DispatchInit /\ siteOf = [d \in Devices |-> x1]
  /\ \/ part \in {"overlap", "lease"} /\ Overlap
     \/ part = "moving" /\ Moving

InLease(A) == part = "lease" /\ A
InOverlap(A) == part = "overlap" /\ A
InMoving(A) == part = "moving" /\ A

\* The schedulers alone: a tick within the minute announces nothing.
SchedulersAlone ==
  \/ \E s \in Schedulers : StartTick(s, FALSE) \/ Due(s) \/ Dispatch(s) \/ SchedulerCrashes(s)
  \/ TimePasses

SchedulingNext ==
  \/ InLease(Next) /\ UNCHANGED <<dispatchVars, part>>
  \/ InOverlap(SchedulersAlone) /\ UNCHANGED <<vars, part>>
  \/ InMoving(DispatchNext) /\ UNCHANGED <<vars, part>>

\* Fairness and DispatchFairness, each in its part.
SchedulingSpec ==
  /\ SchedulingInit /\ [][SchedulingNext]_<<vars, dispatchVars, part>>
  /\ WF_vars(InLease(Advance))
  /\ \A r \in Replicas : /\ WF_vars(InLease(TryAcquire(r)))
                         /\ WF_vars(InLease(EndCycle(r))) /\ WF_vars(InLease(Restart(r)))
  /\ \A s \in Schedulers : /\ SF_dispatchVars(InMoving(StartTick(s, TRUE)))
                           /\ WF_dispatchVars(InMoving(SchedulerStep(s)))
  /\ WF_dispatchVars(InMoving(FollowSites))
  /\ \A i \in Supervisors : WF_dispatchVars(InMoving(SupervisorStep(i)))

\* LeaderReturns, where the lease is explored.
LeaseLeaderReturns == part = "lease" => LeaderReturns

\* JobsAreDone, where the supervisors are explored.
MovingJobsAreDone == part = "moving" => JobsAreDone
=============================================================================
