--------------------------- MODULE Scheduling_proofs ---------------------------
(***************************************************************************)
(* Proofs about the scheduler's two halves: LeaderLease for any number of  *)
(* replicas, any lease and tick lengths and any bound on faults, and       *)
(* SiteDispatch for any number of schedulers, devices, sites and           *)
(* supervisors, any interval and any bounds.  The two share no state.      *)
(***************************************************************************)
EXTENDS LeaderLease, SiteDispatch, TLAPS

-----------------------------------------------------------------------------
(* The lease.                                                              *)

\* Every variable keeps its type, whatever fails and in whatever order.
THEOREM LeaseTyped == Spec => []TypeOK
<1> USE LeaseAssumption
<1>1. Init => TypeOK
  BY DEF Init, TypeOK
<1>2. TypeOK /\ [Next]_vars => TypeOK'
  <2> SUFFICES ASSUME TypeOK, [Next]_vars
               PROVE  TypeOK'
    OBVIOUS
  <2> USE DEF TypeOK, TakesTick, StartsCycle, Fault, Stops, Forgotten, Released
  <2>1. CASE Advance
    BY <2>1 DEF Advance, MayPass, Ticks, ExpiringKey
  <2>2. ASSUME NEW r \in Replicas, TryAcquire(r)
        PROVE  TypeOK'
    <3>1. CASE Renew(r)         BY <3>1 DEF Renew
    <3>2. CASE Acquire(r)       BY <3>2 DEF Acquire
    <3>3. CASE Refused(r)       BY <3>3 DEF Refused
    <3>4. CASE ExtendFails(r)   BY <3>4 DEF ExtendFails
    <3>5. CASE AcquireFails(r)  BY <3>5 DEF AcquireFails
    <3> QED
      BY <2>2, <3>1, <3>2, <3>3, <3>4, <3>5 DEF TryAcquire
  <2>3. ASSUME NEW r \in Replicas, EndCycle(r)
        PROVE  TypeOK'
    BY <2>3 DEF EndCycle
  <2>4. ASSUME NEW r \in Replicas, Shutdown(r)
        PROVE  TypeOK'
    BY <2>4 DEF Shutdown
  <2>5. ASSUME NEW r \in Replicas, Crash(r)
        PROVE  TypeOK'
    BY <2>5 DEF Crash
  <2>6. ASSUME NEW r \in Replicas, Restart(r)
        PROVE  TypeOK'
    BY <2>6 DEF Restart
  <2>7. CASE UNCHANGED vars
    BY <2>7 DEF vars
  <2> QED
    BY <2>1, <2>2, <2>3, <2>4, <2>5, <2>6, <2>7 DEF Next
<1> QED
  BY <1>1, <1>2, PTL DEF Spec

\* A step of the specification keeps every running cycle covered by the
\* lease, provided cycles are shorter than the lease.
LEMMA CoverStep ==
  ASSUME CycleMax < TTL, TypeOK, CoveredByLease, [Next]_vars
  PROVE  CoveredByLease'
<1> SUFFICES ASSUME NEW q \in Replicas, Leading(q)'
             PROVE  Extends(q)' /\ ttl' + elapsed'[q] >= TTL
  BY DEF CoveredByLease
<1> USE LeaseAssumption DEF TypeOK, CoveredByLease, Leading, Extends
<1>1. CASE Advance
  BY <1>1 DEF Advance, MayPass, ExpiringKey
<1>2. ASSUME NEW r \in Replicas, Renew(r)
      PROVE  Extends(q)' /\ ttl' + elapsed'[q] >= TTL
  BY <1>2 DEF Renew, TakesTick, StartsCycle
<1>3. ASSUME NEW r \in Replicas, Acquire(r)
      PROVE  Extends(q)' /\ ttl' + elapsed'[q] >= TTL
  BY <1>3 DEF Acquire, TakesTick, StartsCycle, CanLock
<1>4. ASSUME NEW r \in Replicas, Refused(r)
      PROVE  Extends(q)' /\ ttl' + elapsed'[q] >= TTL
  BY <1>4 DEF Refused, TakesTick
<1>5. ASSUME NEW r \in Replicas, ExtendFails(r)
      PROVE  Extends(q)' /\ ttl' + elapsed'[q] >= TTL
  BY <1>5 DEF ExtendFails, TakesTick, Forgotten
<1>6. ASSUME NEW r \in Replicas, AcquireFails(r)
      PROVE  Extends(q)' /\ ttl' + elapsed'[q] >= TTL
  BY <1>6 DEF AcquireFails, TakesTick, CanLock
<1>7. ASSUME NEW r \in Replicas, EndCycle(r)
      PROVE  Extends(q)' /\ ttl' + elapsed'[q] >= TTL
  BY <1>7 DEF EndCycle
<1>8. ASSUME NEW r \in Replicas, Shutdown(r)
      PROVE  Extends(q)' /\ ttl' + elapsed'[q] >= TTL
  BY <1>8 DEF Shutdown, Stops, Released, Forgotten
<1>9. ASSUME NEW r \in Replicas, Crash(r)
      PROVE  Extends(q)' /\ ttl' + elapsed'[q] >= TTL
  BY <1>9 DEF Crash, Stops, Forgotten
<1>10. ASSUME NEW r \in Replicas, Restart(r)
       PROVE  Extends(q)' /\ ttl' + elapsed'[q] >= TTL
  BY <1>10 DEF Restart
<1>11. CASE UNCHANGED vars
  BY <1>11 DEF vars
<1> QED
  BY <1>1, <1>2, <1>3, <1>4, <1>5, <1>6, <1>7, <1>8, <1>9, <1>10, <1>11
     DEF Next, TryAcquire

\* If no cycle can last as long as the lease, at most one replica runs a
\* cycle at any time: the lease alone makes the scheduler's and the alerter's
\* loops singletons, with paused replicas, crashes, restarts and lost Redis
\* answers allowed.
THEOREM LeaseExcludes ==
  ASSUME CycleMax < TTL
  PROVE  Spec => []SoleLeader
<1>1. Init => CoveredByLease
  BY DEF Init, CoveredByLease, Leading
<1>2. TypeOK /\ CoveredByLease /\ [Next]_vars => CoveredByLease'
  BY CoverStep
<1>3. CoveredByLease => SoleLeader
  BY DEF CoveredByLease, SoleLeader, Extends
<1> QED
  BY <1>1, <1>2, <1>3, LeaseTyped, PTL DEF Spec

\* A step moves the phase of one replica at most, and into a cycle only from
\* idle.
LEMMA OnePhaseStep ==
  ASSUME TypeOK, [Next]_vars
  PROVE  \/ phase' = phase
         \/ \E r \in Replicas :
              /\ \A q \in Replicas \ {r} : phase'[q] = phase[q]
              /\ phase'[r] = "cycle" => phase[r] = "idle"
<1> USE DEF TypeOK
<1>1. CASE Advance
  BY <1>1 DEF Advance
<1>2. ASSUME NEW r \in Replicas, TryAcquire(r)
      PROVE  \/ phase' = phase
             \/ /\ \A q \in Replicas \ {r} : phase'[q] = phase[q]
                /\ phase'[r] = "cycle" => phase[r] = "idle"
  BY <1>2 DEF TryAcquire, Renew, Acquire, Refused, ExtendFails, AcquireFails, TakesTick, StartsCycle
<1>3. ASSUME NEW r \in Replicas, EndCycle(r) \/ Shutdown(r) \/ Crash(r) \/ Restart(r)
      PROVE  /\ \A q \in Replicas \ {r} : phase'[q] = phase[q]
             /\ phase'[r] = "cycle" => phase[r] = "idle"
  BY <1>3 DEF EndCycle, Shutdown, Crash, Restart, Stops
<1>4. CASE UNCHANGED vars
  BY <1>4 DEF vars
<1> QED
  BY <1>1, <1>2, <1>3, <1>4 DEF Next

\* The lease implements the singleton loop: with cycles shorter than the
\* lease, every step of the replicas is a step of the one loop or none, for
\* any number of replicas and whatever fails.
THEOREM LeaseImplementsLoop ==
  ASSUME CycleMax < TTL
  PROVE  Spec => ImplementsLoop
<1> USE LeaseAssumption
<1>1. Init => Loop!LoopInit
  BY DEF Init, Loop!LoopInit, Runner, Leading
<1>2. TypeOK /\ SoleLeader /\ SoleLeader' /\ [Next]_vars => [Loop!LoopNext]_Runner
  <2> SUFFICES ASSUME TypeOK, SoleLeader, SoleLeader', [Next]_vars, Runner' # Runner
               PROVE  Loop!LoopNext
    OBVIOUS
  <2>1. phase' # phase
    BY DEF Runner, Leading
  <2>2. PICK r \in Replicas : /\ \A q \in Replicas \ {r} : phase'[q] = phase[q]
                              /\ phase'[r] = "cycle" => phase[r] = "idle"
    BY <2>1, OnePhaseStep
  <2>3. CASE phase'[r] = "cycle"
    <3>1. Runner' = r
      BY <2>3 DEF SoleLeader, Runner, Leading
    <3>2. \A q \in Replicas : phase[q] # "cycle"
      BY <2>2, <2>3 DEF SoleLeader, Leading
    <3>3. Runner = Free
      BY <3>2 DEF Runner, Leading
    <3> QED
      BY <3>1, <3>3 DEF Loop!LoopNext, Loop!BeginCycle
  <2>4. CASE phase'[r] # "cycle" /\ phase[r] = "cycle"
    <3>1. Runner = r
      BY <2>4 DEF SoleLeader, Runner, Leading
    <3>2. \A q \in Replicas : phase'[q] # "cycle"
      BY <2>2, <2>4 DEF SoleLeader, Leading
    <3>3. Runner' = Free
      BY <3>2 DEF Runner, Leading
    <3> QED
      BY <3>1, <3>3 DEF Loop!LoopNext, Loop!FinishCycle
  <2>5. CASE phase'[r] # "cycle" /\ phase[r] # "cycle"
    <3>1. \A q \in Replicas : Leading(q)' <=> Leading(q)
      BY <2>2, <2>5 DEF Leading
    <3>2. Runner' = Runner
      <4>1. CASE \E q \in Replicas : Leading(q)
        <5>1. PICK q \in Replicas : Leading(q)
          BY <4>1
        <5>2. Runner = q
          BY <5>1 DEF SoleLeader, Runner
        <5>3. Leading(q)'
          BY <3>1, <5>1
        <5>4. Runner' = q
          BY <5>3 DEF SoleLeader, Runner
        <5> QED
          BY <5>2, <5>4
      <4>2. CASE \A q \in Replicas : ~Leading(q)
        BY <4>2, <3>1 DEF Runner
      <4> QED
        BY <4>1, <4>2
    <3> QED
      BY <3>2
  <2> QED
    BY <2>3, <2>4, <2>5
<1> QED
  BY <1>1, <1>2, LeaseTyped, LeaseExcludes, PTL DEF Spec, ImplementsLoop, Loop!LoopSpec

-----------------------------------------------------------------------------
(* Leadership does not bounce.                                             *)

\* Since a remembered lease was last renewed, no tick has come that its
\* holder has not taken, so what is left of the lease is at least what the
\* lease has over the ticker's period, and the time to the next tick.
Renewed ==
  \A r \in Replicas :
    Extends(r) => /\ phase[r] # "down"
                  /\ ~ticked[r] => ttl + Interval >= TTL + nextTick[r]

LEMMA RenewedStep ==
  ASSUME TypeOK, CycleMax < TTL, Interval < TTL, CoveredByLease, Renewed, [Next]_vars
  PROVE  Renewed'
<1> SUFFICES ASSUME NEW q \in Replicas, Extends(q)'
             PROVE  /\ phase'[q] # "down"
                    /\ ~ticked'[q] => ttl' + Interval >= TTL + nextTick'[q]
  BY DEF Renewed
<1> DEFINE Goal == /\ phase'[q] # "down"
                   /\ ~ticked'[q] => ttl' + Interval >= TTL + nextTick'[q]
<1> USE LeaseAssumption DEF TypeOK, Renewed, Extends
<1>1. CASE Advance
  BY <1>1 DEF Advance, ExpiringKey, Ticks
<1>2. ASSUME NEW r \in Replicas, Renew(r)
      PROVE  Goal
  BY <1>2 DEF Renew, TakesTick, StartsCycle
<1>3. ASSUME NEW r \in Replicas, Acquire(r)
      PROVE  Goal
  BY <1>3 DEF Acquire, TakesTick, StartsCycle, CanLock
<1>4. ASSUME NEW r \in Replicas, Refused(r)
      PROVE  Goal
  BY <1>4 DEF Refused, TakesTick
<1>5. ASSUME NEW r \in Replicas, ExtendFails(r)
      PROVE  Goal
  BY <1>5 DEF ExtendFails, TakesTick, Forgotten
<1>6. ASSUME NEW r \in Replicas, AcquireFails(r)
      PROVE  Goal
  BY <1>6 DEF AcquireFails, TakesTick, CanLock
<1>7. ASSUME NEW r \in Replicas, EndCycle(r)
      PROVE  Goal
  BY <1>7 DEF EndCycle
<1>8. ASSUME NEW r \in Replicas, Shutdown(r)
      PROVE  Goal
  BY <1>8 DEF Shutdown, Stops, Released, Forgotten
<1>9. ASSUME NEW r \in Replicas, Crash(r)
      PROVE  Goal
  BY <1>9 DEF Crash, Stops, Forgotten
<1>10. ASSUME NEW r \in Replicas, Restart(r)
       PROVE  Goal
  BY <1>10 DEF Restart
<1>11. CASE UNCHANGED vars
  BY <1>11 DEF vars
<1> QED
  BY <1>1, <1>2, <1>3, <1>4, <1>5, <1>6, <1>7, <1>8, <1>9, <1>10, <1>11
     DEF Next, TryAcquire

\* With cycles and ticks shorter than the lease, a holder's lease never runs
\* out between two renewals: it ends with its holder, a Redis error, or
\* while a tick waits for a paused holder.
THEOREM LeaseKept ==
  ASSUME CycleMax < TTL, Interval < TTL
  PROVE  Spec => LeaseIsKept
<1>1. Init => CoveredByLease /\ Renewed
  BY DEF Init, CoveredByLease, Renewed, Leading, Extends
<1>2. TypeOK /\ CoveredByLease /\ Renewed /\ [Next]_vars => CoveredByLease' /\ Renewed'
  BY CoverStep, RenewedStep
<1>3. TypeOK /\ CoveredByLease /\ Renewed /\ [Next]_vars =>
        [\A r \in Replicas :
           Extends(r) => \/ owner' = r
                         \/ faults' > faults
                         \/ phase[r] = "idle" /\ ticked[r]]_vars
  <2> SUFFICES ASSUME TypeOK, CoveredByLease, Renewed, Next,
                      NEW q \in Replicas, Extends(q)
               PROVE  \/ owner' = q
                      \/ faults' > faults
                      \/ phase[q] = "idle" /\ ticked[q]
    OBVIOUS
  <2> USE LeaseAssumption DEF TypeOK
  <2>1. CASE Advance
    <3>1. CASE phase[q] = "cycle"
      BY <2>1, <3>1 DEF Advance, MayPass, ExpiringKey, CoveredByLease, Leading, Extends
    <3>2. CASE phase[q] = "idle" /\ ~ticked[q]
      BY <2>1, <3>2 DEF Advance, ExpiringKey, Renewed, Extends
    <3> QED
      BY <3>1, <3>2 DEF Renewed
  <2>2. ASSUME NEW r \in Replicas, TryAcquire(r)
        PROVE  owner' = q \/ faults' > faults
    BY <2>2 DEF TryAcquire, Renew, Acquire, Refused, ExtendFails, AcquireFails,
                CanLock, Fault, Extends
  <2>3. ASSUME NEW r \in Replicas, EndCycle(r) \/ Shutdown(r) \/ Crash(r) \/ Restart(r)
        PROVE  owner' = q \/ faults' > faults
    BY <2>3 DEF EndCycle, Shutdown, Crash, Restart, Fault, Extends
  <2> QED
    BY <2>1, <2>2, <2>3 DEF Next
<1> QED
  BY <1>1, <1>2, <1>3, LeaseTyped, PTL DEF Spec, LeaseIsKept

-----------------------------------------------------------------------------
(* Dispatch.                                                               *)

Job == [dev : Devices, site : Sites, at : Nat]

Ticking ==
  [pc : {"sites", "announce", "due", "dispatch"}, at : Nat, sites : SUBSET Sites, due : SUBSET Job]

\* What the scheduler side keeps, with its types.
DispatchTypeOK ==
  /\ siteOf \in [Devices -> Sites] /\ nextDue \in [Devices -> Nat]
  /\ tick \in [Schedulers -> {Waiting, Standby} \cup Ticking]
  /\ published \subseteq Job \X Schedulers /\ time \in Nat

\* A job claimed by a scheduler and not yet published, given up or lost.
InHand(j, s) == tick[s].pc = "dispatch" /\ j \in tick[s].due

Claims == {c \in Job \X Schedulers : c \in published \/ InHand(c[1], c[2])}

\* The least time between two bookings.
Least == PollInterval - Jitter

Apart(p, q) == p[1].at - q[1].at >= Least \/ q[1].at - p[1].at >= Least

\* A claim, published or in hand, moved the device's schedule on by the
\* interval less the jitter at least, and two claims of a device are that far
\* apart.
ClaimsApart ==
  /\ \A c \in Claims : c[1].at + Least <= nextDue[c[1].dev]
  /\ \A p, q \in Claims : p # q /\ p[1].dev = q[1].dev => Apart(p, q)

\* A step that claims nothing new and leaves the schedules alone.
LEMMA FewerClaims ==
  ASSUME ClaimsApart, Claims' \subseteq Claims, UNCHANGED nextDue
  PROVE  ClaimsApart'
BY DEF ClaimsApart, Apart

LEMMA DispatchingTyped ==
  ASSUME NEW t \in Ticking, NEW due \in SUBSET Job
  PROVE  /\ Dispatching(t, due) \in {Waiting, Standby} \cup Ticking
         /\ Dispatching(t, due).pc = "dispatch" => Dispatching(t, due).due = due
         /\ Dispatching(t, due).pc # "dispatch" => due = {}
BY DEF Dispatching, Waiting, Ticking

LEMMA TickingWhen ==
  ASSUME DispatchTypeOK, NEW s \in Schedulers, tick[s].pc \notin {"wait", "standby"}
  PROVE  tick[s] \in Ticking
BY DEF DispatchTypeOK, Waiting, Standby

LEMMA ClaimedTyped ==
  ASSUME DispatchTypeOK, NEW s \in Schedulers, tick[s] \in Ticking, NEW due \in SUBSET Devices
  PROVE  Claimed(s, due) \in SUBSET Job
BY DEF DispatchTypeOK, Claimed, Job, Ticking

\* ScheduleRepo.Due.
LEMMA DueKeeps ==
  ASSUME DispatchTypeOK, ClaimsApart, NEW s \in Schedulers, Due(s)
  PROVE  DispatchTypeOK' /\ ClaimsApart'
<1> DEFINE due == Ready(tick[s].at)
           jobs == Claimed(s, due)
<1> USE DispatchAssumption
<1>1. tick[s] \in Ticking
  BY TickingWhen DEF Due
<1>2. due \in SUBSET Devices
  BY DEF Ready
<1>3. jobs \in SUBSET Job
  BY <1>1, <1>2, ClaimedTyped
<1>0. PICK spread \in [due -> -Jitter..Jitter] :
        nextDue' = [d \in Devices |-> IF d \in due THEN tick[s].at + PollInterval + spread[d]
                                      ELSE nextDue[d]]
  BY DEF Due
<1>a. /\ Least \in Nat \ {0}
      /\ \A d \in due : PollInterval + spread[d] \in Nat /\ PollInterval + spread[d] >= Least
  BY DEF Least
<1>4. /\ nextDue' = [d \in Devices |-> IF d \in due THEN tick[s].at + (PollInterval + spread[d]) ELSE nextDue[d]]
      /\ tick' = [tick EXCEPT ![s] = Dispatching(tick[s], jobs)]
      /\ UNCHANGED <<siteOf, published, time>>
  <2>1. tick[s].at \in Nat
    BY <1>1 DEF Ticking
  <2>2. \A d \in due : tick[s].at + PollInterval + spread[d] = tick[s].at + (PollInterval + spread[d])
    BY <2>1
  <2> QED BY <1>0, <2>2 DEF Due
<1>5. tick[s].at \in Nat
  BY <1>1 DEF Ticking
<1>6. nextDue \in [Devices -> Nat]
  BY DEF DispatchTypeOK
<1>7. \A d \in Devices : nextDue[d] <= nextDue'[d]
  BY <1>a, <1>4, <1>5, <1>6 DEF Ready
<1>8. DispatchTypeOK'
  <2>1. nextDue' \in [Devices -> Nat]
    BY <1>a, <1>4, <1>5, <1>6
  <2>2. tick' \in [Schedulers -> {Waiting, Standby} \cup Ticking]
    BY <1>1, <1>3, <1>4, DispatchingTyped DEF DispatchTypeOK
  <2> QED BY <1>4, <2>1, <2>2 DEF DispatchTypeOK
<1> DEFINE New == {c \in Job \X Schedulers : c[1] \in jobs /\ c[2] = s}
<1>9. Claims' \subseteq Claims \cup New
  <2> SUFFICES ASSUME NEW c \in Job \X Schedulers, c \in Claims'
               PROVE  c \in Claims \cup New
    BY DEF Claims
  <2>1. CASE c \in published'
    BY <2>1, <1>4 DEF Claims
  <2>2. CASE InHand(c[1], c[2])' /\ c[2] # s
    BY <2>2, <1>4 DEF Claims, InHand, DispatchTypeOK
  <2>3. CASE InHand(c[1], c[2])' /\ c[2] = s
    <3>1. tick'[s] = Dispatching(tick[s], jobs)
      BY <1>4 DEF DispatchTypeOK
    <3>2. c[1] \in jobs
      BY <2>3, <3>1, <1>1, <1>3, DispatchingTyped DEF InHand
    <3> QED BY <2>3, <3>2
  <2> QED BY <2>1, <2>2, <2>3 DEF Claims
<1>10. ASSUME NEW c \in New
       PROVE  c[1].dev \in due /\ c[1].at = tick[s].at
  BY <1>10 DEF Claimed
<1>11. ASSUME NEW p \in New, NEW q \in New, p[1].dev = q[1].dev
       PROVE  p = q
  <2>1. p[1] = q[1]
    BY <1>11 DEF Claimed
  <2> QED BY <2>1
<1>12. ASSUME NEW p \in New, NEW q \in Claims, p[1].dev = q[1].dev
       PROVE  Apart(p, q) /\ Apart(q, p)
  <2>1. q[1].at \in Nat /\ q[1].dev \in Devices
    BY DEF Claims, Job
  <2>2. q[1].at + Least <= nextDue[q[1].dev]
    BY DEF ClaimsApart
  <2>3. nextDue[p[1].dev] <= tick[s].at
    BY <1>10 DEF Ready
  <2> QED BY <1>a, <1>5, <1>6, <1>10, <1>12, <2>1, <2>2, <2>3 DEF Apart
<1>13. ASSUME NEW c \in Claims'
       PROVE  c[1].at + Least <= nextDue'[c[1].dev]
  <2>1. c[1].at \in Nat /\ c[1].dev \in Devices
    BY DEF Claims, Job
  <2>2. CASE c \in New
    BY <2>1, <2>2, <1>a, <1>4, <1>5, <1>10
  <2>3. CASE c \in Claims
    <3>1. c[1].at + Least <= nextDue[c[1].dev]
      BY <2>3 DEF ClaimsApart
    <3>2. nextDue[c[1].dev] \in Nat /\ nextDue'[c[1].dev] \in Nat
      BY <1>6, <1>8, <2>1 DEF DispatchTypeOK
    <3> QED BY <2>1, <3>1, <3>2, <1>a, <1>7
  <2> QED BY <1>9, <2>2, <2>3
<1>14. ASSUME NEW p \in Claims', NEW q \in Claims', p # q, p[1].dev = q[1].dev
       PROVE  Apart(p, q)
  <2>1. CASE p \in Claims /\ q \in Claims
    BY <2>1, <1>14 DEF ClaimsApart
  <2> QED BY <2>1, <1>9, <1>11, <1>12, <1>14
<1> QED
  BY <1>8, <1>13, <1>14 DEF ClaimsApart, Apart

\* Scheduler.dispatch of one job.
LEMMA DispatchKeeps ==
  ASSUME DispatchTypeOK, ClaimsApart, NEW s \in Schedulers, Dispatch(s)
  PROVE  DispatchTypeOK' /\ ClaimsApart'
<1>1. tick[s] \in Ticking /\ tick[s].pc = "dispatch"
  BY TickingWhen DEF Dispatch
<1>2. PICK j \in tick[s].due :
        /\ tick' = [tick EXCEPT ![s] = Dispatching(tick[s], tick[s].due \ {j})]
        /\ published' = published \cup {<<j, s>>} \/ published' = published
  BY DEF Dispatch
<1>3. UNCHANGED <<siteOf, nextDue, time>>
  BY DEF Dispatch
<1>4. tick[s].due \in SUBSET Job
  BY <1>1 DEF Ticking
<1>5. tick[s].due \ {j} \in SUBSET Job /\ <<j, s>> \in Job \X Schedulers
  BY <1>4
<1>6. DispatchTypeOK'
  <2>1. tick' \in [Schedulers -> {Waiting, Standby} \cup Ticking]
    BY <1>1, <1>2, <1>5, DispatchingTyped DEF DispatchTypeOK
  <2> QED BY <1>2, <1>3, <1>5, <2>1 DEF DispatchTypeOK
<1>7. Claims' \subseteq Claims
  <2> SUFFICES ASSUME NEW c \in Job \X Schedulers, c \in Claims'
               PROVE  c \in Claims
    BY DEF Claims
  <2>1. CASE c \in published'
    <3>1. c \in published \/ c = <<j, s>>
      BY <2>1, <1>2
    <3> QED BY <3>1, <1>1 DEF Claims, InHand
  <2>2. CASE InHand(c[1], c[2])' /\ c[2] # s
    BY <2>2, <1>2 DEF Claims, InHand, DispatchTypeOK
  <2>3. CASE InHand(c[1], c[2])' /\ c[2] = s
    <3>1. tick'[s] = Dispatching(tick[s], tick[s].due \ {j})
      BY <1>2 DEF DispatchTypeOK
    <3>2. c[1] \in tick[s].due
      BY <2>3, <3>1, <1>1, <1>5, DispatchingTyped DEF InHand
    <3> QED BY <2>3, <3>2, <1>1 DEF Claims, InHand
  <2> QED BY <2>1, <2>2, <2>3 DEF Claims
<1> QED
  BY <1>3, <1>6, <1>7, FewerClaims

\* The rest of a tick, and a crash in the middle of one.
LEMMA TickKeeps ==
  ASSUME DispatchTypeOK, ClaimsApart, NEW s \in Schedulers,
         \/ \E announce \in BOOLEAN : StartTick(s, announce)
         \/ ActiveSites(s) \/ PublishSites(s) \/ SchedulerCrashes(s)
  PROVE  DispatchTypeOK' /\ ClaimsApart'
<1>1. UNCHANGED <<siteOf, nextDue, published, time>>
  BY DEF StartTick, ActiveSites, PublishSites, SchedulerCrashes
<1>2. \E t \in {Waiting, Standby} \cup Ticking :
        t.pc # "dispatch" /\ tick' = [tick EXCEPT ![s] = t]
  <2>1. ASSUME NEW announce \in BOOLEAN, StartTick(s, announce)
        PROVE  \E t \in Ticking : t.pc # "dispatch" /\ tick' = [tick EXCEPT ![s] = t]
    <3> DEFINE t == [pc |-> IF announce THEN "sites" ELSE "due", at |-> time, sites |-> {}, due |-> {}]
    <3>1. t \in Ticking /\ t.pc # "dispatch"
      BY DEF Ticking, DispatchTypeOK
    <3> QED BY <2>1, <3>1 DEF StartTick
  <2>2. CASE ActiveSites(s)
    <3>1. tick[s] \in Ticking
      BY <2>2, TickingWhen DEF ActiveSites
    <3>2. {siteOf[d] : d \in Devices} \in SUBSET Sites
      BY DEF DispatchTypeOK
    <3>3. ASSUME NEW S \in SUBSET Sites
          PROVE  [tick[s] EXCEPT !.pc = "announce", !.sites = S] \in Ticking
      BY <3>1 DEF Ticking
    <3>4. [tick[s] EXCEPT !.pc = "due"] \in Ticking
      BY <3>1 DEF Ticking
    <3>5. \/ tick' = [tick EXCEPT ![s] = [tick[s] EXCEPT !.pc = "announce", !.sites = {siteOf[d] : d \in Devices}]]
          \/ tick' = [tick EXCEPT ![s] = [tick[s] EXCEPT !.pc = "due"]]
      BY <2>2, <3>1 DEF ActiveSites, DispatchTypeOK, Ticking
    <3>6. /\ [tick[s] EXCEPT !.pc = "announce", !.sites = {siteOf[d] : d \in Devices}].pc # "dispatch"
          /\ [tick[s] EXCEPT !.pc = "due"].pc # "dispatch"
      BY <3>1 DEF Ticking
    <3> QED BY <3>2, <3>3, <3>4, <3>5, <3>6
  <2>3. CASE PublishSites(s)
    <3>1. tick[s] \in Ticking
      BY <2>3, TickingWhen DEF PublishSites
    <3>2. [tick[s] EXCEPT !.pc = "due"] \in Ticking /\ [tick[s] EXCEPT !.pc = "due"].pc # "dispatch"
      BY <3>1 DEF Ticking
    <3> QED BY <2>3, <3>2 DEF PublishSites
  <2>4. CASE SchedulerCrashes(s)
    BY <2>4 DEF SchedulerCrashes, Waiting
  <2> QED BY <2>1, <2>2, <2>3, <2>4
<1>3. DispatchTypeOK'
  BY <1>1, <1>2 DEF DispatchTypeOK
<1>4. \A c \in Schedulers : tick'[c].pc = "dispatch" => tick'[c] = tick[c]
  BY <1>2 DEF DispatchTypeOK
<1>5. Claims' \subseteq Claims
  BY <1>1, <1>4 DEF Claims, InHand
<1> QED
  BY <1>1, <1>3, <1>5, FewerClaims

\* However many schedulers tick at once, stall between reading the clock and
\* claiming or crash in between, and however devices move and sites break, two
\* jobs of a device are booked an interval less the jitter apart.
THEOREM NeverDoubleBooked == DispatchSpec => []NotDoubleBooked
<1> USE DispatchAssumption
<1>1. DispatchInit => DispatchTypeOK /\ ClaimsApart
  <2> SUFFICES ASSUME DispatchInit
               PROVE  DispatchTypeOK /\ ClaimsApart
    OBVIOUS
  <2>1. DispatchTypeOK
    BY DEF DispatchInit, DispatchTypeOK
  <2>2. Claims = {}
    BY DEF DispatchInit, Claims, InHand, Waiting, Standby
  <2> QED BY <2>1, <2>2 DEF ClaimsApart
<1>2. DispatchTypeOK /\ ClaimsApart /\ [DispatchNext]_dispatchVars => DispatchTypeOK' /\ ClaimsApart'
  <2> SUFFICES ASSUME DispatchTypeOK, ClaimsApart, [DispatchNext]_dispatchVars
               PROVE  DispatchTypeOK' /\ ClaimsApart'
    OBVIOUS
  <2>1. ASSUME NEW s \in Schedulers, SchedulerStep(s) \/ SchedulerCrashes(s)
        PROVE  DispatchTypeOK' /\ ClaimsApart'
    BY <2>1, DueKeeps, DispatchKeeps, TickKeeps DEF SchedulerStep
  <2>2. CASE UNCHANGED <<nextDue, tick, published>> /\ siteOf' \in [Devices -> Sites] /\ time' \in Nat
    <3>1. DispatchTypeOK'
      BY <2>2 DEF DispatchTypeOK
    <3>2. Claims' \subseteq Claims
      BY <2>2 DEF Claims, InHand
    <3> QED BY <2>2, <3>1, <3>2, FewerClaims
  <2>3. ASSUME NEW i \in Supervisors, SupervisorStep(i) \/ StreamBreaks(i)
        PROVE  UNCHANGED schedulerVars /\ UNCHANGED time
    BY <2>3 DEF SupervisorStep, StreamBreaks, Consume, HandOut, Execute, NoticeWithdrawn
  <2>4. CASE FollowSites \/ AnnouncementsLost
    BY <2>2, <2>4 DEF FollowSites, AnnouncementsLost, schedulerVars, DispatchTypeOK
  <2>5. ASSUME NEW d \in Devices, NEW x \in Sites, MoveDevice(d, x)
        PROVE  DispatchTypeOK' /\ ClaimsApart'
    BY <2>2, <2>5 DEF MoveDevice, DispatchTypeOK
  <2>6. CASE TimePasses
    BY <2>2, <2>6 DEF TimePasses, schedulerVars, DispatchTypeOK
  <2>9. ASSUME NEW x \in Sites, Expire(x)
        PROVE  DispatchTypeOK' /\ ClaimsApart'
    BY <2>2, <2>9 DEF Expire, schedulerVars, DispatchTypeOK
  <2>7. CASE UNCHANGED dispatchVars
    BY <2>2, <2>7 DEF dispatchVars, schedulerVars, DispatchTypeOK
  <2>8. CASE \E i \in Supervisors : SupervisorStep(i) \/ StreamBreaks(i)
    BY <2>2, <2>3, <2>8 DEF schedulerVars, DispatchTypeOK
  <2> QED
    BY <2>1, <2>4, <2>5, <2>6, <2>7, <2>8, <2>9 DEF DispatchNext
<1>3. DispatchTypeOK /\ ClaimsApart => NotDoubleBooked
  <2> SUFFICES ASSUME DispatchTypeOK, ClaimsApart
               PROVE  NotDoubleBooked
    OBVIOUS
  <2>1. published \subseteq Claims
    BY DEF DispatchTypeOK, Claims
  <2> QED BY <2>1 DEF ClaimsApart, Apart, Least, NotDoubleBooked
<1> QED
  BY <1>1, <1>2, <1>3, PTL DEF DispatchSpec
=============================================================================
