----------------------------- MODULE SiteDispatch -----------------------------
(***************************************************************************)
(* How jobs reach devices: schedulers claim due schedules and publish jobs *)
(* to the queue of the device's site, announce the sites in use, and a     *)
(* poller that serves every site follows the announcements with one        *)
(* supervisor goroutine per site (collection/app/scheduler.go,             *)
(* collection/pollerrt/runtime.go, platform/amqpx).                        *)
(*                                                                         *)
(* The lease is LeaderLease's subject; here any scheduler may tick, so two *)
(* may overlap as they do after a lapsed lease.  A schedule is one per     *)
(* device.  The broker is external: a queue hands a job to one consumer    *)
(* and takes back what a closed channel left unacknowledged, and drops a   *)
(* job that waited for the queue's message TTL; the poller's announcement  *)
(* queue holds at most one message here.                                   *)
(***************************************************************************)
EXTENDS Integers, FiniteSets

CONSTANTS
  Schedulers, Devices, Sites,
  PollInterval,  \* interval_s
  Jitter,        \* the most by which random() moves the next instant, either way
  JobTTL,        \* x-message-ttl of a site's queue
  MaxClock,      \* bound on the clock
  MaxMoves,      \* bound on devices changing site
  Supervisors,   \* bound on the supervisor goroutines at one time
  MaxBreaks      \* bound on failed calls, crashes and broken streams

ASSUME DispatchAssumption ==
  /\ PollInterval \in Nat \ {0} /\ Jitter \in 0..(PollInterval - 1) /\ JobTTL \in Nat \ {0}
  /\ MaxClock \in Nat /\ MaxMoves \in Nat /\ MaxBreaks \in Nat

VARIABLES
  siteOf,    \* devices.site_id
  nextDue,   \* polling_schedule.next_due_at
  tick,      \* each scheduler: [pc, at, sites, due]
  queue,     \* poll.site.<id>: messages [job, until] not handed out
  announced, \* the message in the poller's announcement queue, or NoMessage
  sup,       \* supervisors: [site, state, live, held], held a message at most
  done,      \* jobs executed
  expired,   \* history: jobs the broker dropped
  published, \* history: jobs accepted by the broker
  time, moves, breaks

schedulerVars == <<siteOf, nextDue, tick, published, moves>>
siteVars == <<sup, done, expired>>
dispatchVars == <<schedulerVars, queue, announced, siteVars, time, breaks>>

Waiting == [pc |-> "wait"]
Standby == [pc |-> "standby"]   \* a replica without the lease
NoMessage == <<>>
NotStarted == [state |-> "ended"]

DispatchInit ==
  /\ siteOf \in [Devices -> Sites] /\ nextDue = [d \in Devices |-> 0]
  /\ tick \in [Schedulers -> {Waiting, Standby}]
  /\ queue = [x \in Sites |-> {}]
  /\ announced = NoMessage
  /\ sup = [i \in Supervisors |-> NotStarted] /\ done = {} /\ expired = {}
  /\ published = {} /\ time \in 0..MaxClock /\ moves \in 0..MaxMoves /\ breaks = 0

Break == breaks < MaxBreaks /\ breaks' = breaks + 1

-----------------------------------------------------------------------------
(* Scheduler.Run.  A tick keeps the instant it started.                    *)

StartTick(s, announce) ==
  /\ tick[s].pc = "wait"
  /\ tick' = [tick EXCEPT ![s] = [pc |-> IF announce THEN "sites" ELSE "due", at |-> time,
                                  sites |-> {}, due |-> {}]]
  /\ UNCHANGED <<siteOf, nextDue, queue, announced, siteVars, published, time, moves, breaks>>

\* ScheduleRepo.ActiveSites; an error skips the announcement.
ActiveSites(s) ==
  /\ tick[s].pc = "sites"
  /\ \/ /\ tick' = [tick EXCEPT ![s].pc = "announce", ![s].sites = {siteOf[d] : d \in Devices}]
        /\ UNCHANGED breaks
     \/ Break /\ tick' = [tick EXCEPT ![s].pc = "due"]
  /\ UNCHANGED <<siteOf, nextDue, queue, announced, siteVars, published, time, moves>>

\* PublishSites: lost when the poller has no announcement queue, or the
\* publish fails.
PublishSites(s) ==
  /\ tick[s].pc = "announce"
  /\ tick' = [tick EXCEPT ![s].pc = "due"]
  /\ \/ announced = NoMessage /\ announced' = <<tick[s].sites>> /\ UNCHANGED breaks
     \/ Break /\ UNCHANGED announced
  /\ UNCHANGED <<siteOf, nextDue, queue, siteVars, published, time, moves>>

\* The tick is over when nothing is left to dispatch.
Dispatching(t, due) == IF due = {} THEN Waiting ELSE [t EXCEPT !.pc = "dispatch", !.due = due, !.sites = {}]

Ready(at) == {d \in Devices : nextDue[d] <= at}

Claimed(s, due) ==
  {[dev |-> d, site |-> siteOf[d], at |-> tick[s].at] : d \in due}

\* Variant: a schedule is advanced from where it was, catching up one
\* interval at a time.
DueCatchesUp(s) ==
  /\ tick[s].pc = "due"
  /\ LET due == Ready(tick[s].at)
     IN /\ nextDue' = [d \in Devices |-> IF d \in due THEN nextDue[d] + PollInterval ELSE nextDue[d]]
        /\ tick' = [tick EXCEPT ![s] = Dispatching(@, Claimed(s, due))]
  /\ UNCHANGED <<siteOf, queue, announced, siteVars, published, time, moves, breaks>>

\* ScheduleRepo.Due: one statement claims what is due and advances it from
\* the instant of the tick by the interval and a random jitter of either sign.
Due(s) ==
  /\ tick[s].pc = "due"
  /\ LET due == Ready(tick[s].at)
     IN /\ \E spread \in [due -> -Jitter..Jitter] :
             nextDue' = [d \in Devices |-> IF d \in due THEN tick[s].at + PollInterval + spread[d]
                                           ELSE nextDue[d]]
        /\ tick' = [tick EXCEPT ![s] = Dispatching(@, Claimed(s, due))]
  /\ UNCHANGED <<siteOf, queue, announced, siteVars, published, time, moves, breaks>>

\* Declare once a minute, resolve, publish; each failure skips the job for
\* this interval.  What the declare reports of the queue is only recorded.
Dispatch(s) ==
  /\ tick[s].pc = "dispatch"
  /\ \E j \in tick[s].due :
       /\ tick' = [tick EXCEPT ![s] = Dispatching(@, tick[s].due \ {j})]
       /\ \/ /\ queue' = [queue EXCEPT ![j.site] = @ \cup {[job |-> j, until |-> time + JobTTL]}]
             /\ published' = published \cup {<<j, s>>}
             /\ UNCHANGED breaks
          \/ Break /\ UNCHANGED <<queue, published>>
  /\ UNCHANGED <<siteOf, nextDue, announced, siteVars, time, moves>>

\* What was claimed and not published is lost until the next interval.
SchedulerCrashes(s) ==
  /\ tick[s].pc \notin {"wait", "standby"} /\ Break
  /\ tick' = [tick EXCEPT ![s] = Waiting]
  /\ UNCHANGED <<siteOf, nextDue, queue, announced, siteVars, published, time, moves>>

-----------------------------------------------------------------------------
(* Runtime.followSites and Runtime.superviseSite.                          *)

Serving(i) == sup[i].state \in {"connecting", "consuming"} /\ sup[i].live
Running == {sup[i].site : i \in {j \in Supervisors : Serving(j)}}

\* reconcileSites on a full list: withdrawn supervisors are cancelled, new
\* sites get one each.
FollowSites ==
  /\ announced # NoMessage /\ announced' = NoMessage
  /\ LET start == announced[1] \ Running
         fresh == {i \in Supervisors : sup[i].state = "ended"}
         new == CHOOSE f \in [start -> fresh] : \A x, y \in start : x # y => f[x] # f[y]
     IN /\ Cardinality(start) <= Cardinality(fresh)
        /\ sup' = [i \in Supervisors |->
                     IF \E x \in start : new[x] = i
                     THEN [state |-> "connecting", live |-> TRUE, held |-> {},
                           site |-> CHOOSE x \in start : new[x] = i]
                     ELSE IF Serving(i) /\ sup[i].site \notin announced[1]
                     THEN [sup[i] EXCEPT !.live = FALSE]
                     ELSE sup[i]]
  /\ UNCHANGED <<schedulerVars, queue, done, expired, time, breaks>>

\* The announcement stream breaks: its queue goes with what it held.
AnnouncementsLost ==
  /\ announced # NoMessage /\ Break /\ announced' = NoMessage
  /\ UNCHANGED <<schedulerVars, queue, siteVars, time>>

\* Declare and consume on a channel of the supervisor's own.
Consume(i) ==
  /\ sup[i].state = "connecting"
  /\ sup' = [sup EXCEPT ![i] = IF sup[i].live THEN [@ EXCEPT !.state = "consuming"] ELSE NotStarted]
  /\ UNCHANGED <<schedulerVars, queue, announced, done, expired, time, breaks>>

\* The broker hands a job that has not expired to any consumer of its queue.
HandOut(i) ==
  /\ sup[i].state = "consuming" /\ sup[i].held = {}
  /\ \E m \in queue[sup[i].site] :
       /\ time < m.until
       /\ queue' = [queue EXCEPT ![sup[i].site] = @ \ {m}]
       /\ sup' = [sup EXCEPT ![i].held = {m}]
  /\ UNCHANGED <<schedulerVars, announced, done, expired, time, breaks>>

\* The delivery goes to a worker, who executes and acknowledges it: also when
\* the context has ended, as select takes either ready branch.
Execute(i) ==
  /\ sup[i].state = "consuming" /\ sup[i].held # {}
  /\ done' = done \cup {m.job : m \in sup[i].held}
  /\ sup' = [sup EXCEPT ![i].held = {}]
  /\ UNCHANGED <<schedulerVars, queue, announced, expired, time, breaks>>

Requeued(i) == [queue EXCEPT ![sup[i].site] = @ \cup sup[i].held]

\* Variant: a withdrawn supervisor returns without closing its channel.
NoticeWithdrawnLeaks(i) ==
  /\ sup[i].state = "consuming" /\ ~sup[i].live /\ sup[i].held # {}
  /\ sup' = [sup EXCEPT ![i] = NotStarted]
  /\ UNCHANGED <<schedulerVars, queue, announced, done, expired, time, breaks>>

\* The end of its context is noticed with a delivery in hand: stop closes
\* the channel and the broker takes the job back.
NoticeWithdrawn(i) ==
  /\ sup[i].state = "consuming" /\ ~sup[i].live /\ sup[i].held # {}
  /\ sup' = [sup EXCEPT ![i] = NotStarted]
  /\ queue' = Requeued(i)
  /\ UNCHANGED <<schedulerVars, announced, done, expired, time, breaks>>

\* A broken stream: stop, and after three seconds around the loop.
StreamBreaks(i) ==
  /\ sup[i].state = "consuming" /\ Break
  /\ sup' = [sup EXCEPT ![i] = IF sup[i].live THEN [@ EXCEPT !.held = {}, !.state = "connecting"]
                                ELSE NotStarted]
  /\ queue' = Requeued(i)
  /\ UNCHANGED <<schedulerVars, announced, done, expired, time>>

-----------------------------------------------------------------------------
(* The surroundings.                                                       *)

\* The message TTL of EnsureSiteQueue: nobody took the job in time.
Expire(x) ==
  /\ \E m \in queue[x] : /\ time >= m.until /\ expired' = expired \cup {m.job}
                          /\ queue' = [queue EXCEPT ![x] = @ \ {m}]
  /\ UNCHANGED <<schedulerVars, announced, sup, done, time, breaks>>

MoveDevice(d, x) ==
  /\ moves < MaxMoves /\ siteOf[d] # x
  /\ moves' = moves + 1 /\ siteOf' = [siteOf EXCEPT ![d] = x]
  /\ UNCHANGED <<nextDue, tick, published, queue, announced, siteVars, time, breaks>>

TimePasses ==
  /\ time < MaxClock /\ time' = time + 1
  /\ UNCHANGED <<schedulerVars, queue, announced, siteVars, breaks>>

SchedulerStep(s) ==
  (\E announce \in BOOLEAN : StartTick(s, announce)) \/ ActiveSites(s) \/ PublishSites(s) \/ Due(s) \/ Dispatch(s)
SupervisorStep(i) == Consume(i) \/ HandOut(i) \/ Execute(i) \/ NoticeWithdrawn(i)

DispatchNext ==
  \/ \E s \in Schedulers : SchedulerStep(s) \/ SchedulerCrashes(s)
  \/ FollowSites \/ AnnouncementsLost
  \/ \E i \in Supervisors : SupervisorStep(i) \/ StreamBreaks(i)
  \/ \E d \in Devices, x \in Sites : MoveDevice(d, x)
  \/ \E x \in Sites : Expire(x)
  \/ TimePasses

\* The tick timers keep running, a call that may fail does not always fail,
\* the poller's goroutines are scheduled, and the announcement interval
\* comes round again and again.
DispatchFairness ==
  /\ \A s \in Schedulers : /\ SF_dispatchVars(StartTick(s, TRUE))
                           /\ WF_dispatchVars(SchedulerStep(s))
  /\ WF_dispatchVars(FollowSites)
  /\ \A i \in Supervisors : WF_dispatchVars(SupervisorStep(i))

DispatchSpec == DispatchInit /\ [][DispatchNext]_dispatchVars /\ DispatchFairness

-----------------------------------------------------------------------------
(* Properties.                                                             *)

\* However two schedulers overlap, stall between reading the clock and
\* claiming, or crash between claiming and publishing, a raced or crashed
\* leader does not double-book: two jobs of a device are an interval apart,
\* less the jitter (ScheduleRepo.Due).
NotDoubleBooked ==
  \A p, q \in published :
    p # q /\ p[1].dev = q[1].dev =>
      \/ p[1].at - q[1].at >= PollInterval - Jitter
      \/ q[1].at - p[1].at >= PollInterval - Jitter

\* A job in the queue of a site that stays announced is executed, unless it
\* stays there for the queue's TTL: a supervisor withdrawn earlier that still
\* reads the same queue, broken streams, and announcements lost or out of date
\* lose no job (superviseSite, followSites, Client.Consume, EnsureSiteQueue).
JobsAreDone ==
  \A d \in Devices, x \in Sites, t \in 0..MaxClock :
    LET j == [dev |-> d, site |-> x, at |-> t]
        Waits(past) == \E m \in queue[x] : m.job = j /\ past = (time >= m.until)
    IN Waits(FALSE) ~> \/ j \in done
                       \/ j \in expired \/ Waits(TRUE)
                       \/ ~(\E e \in Devices : siteOf[e] = x)
=============================================================================
