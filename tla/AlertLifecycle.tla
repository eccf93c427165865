--------------------------- MODULE AlertLifecycle ----------------------------
(***************************************************************************)
(* The alerter: replicas of internal/alerting/app.Evaluator working on the *)
(* alert_instances table while operators acknowledge, silence, disable and *)
(* delete through the API (internal/alerting/adapters).                    *)
(*                                                                         *)
(* One rule is modelled; evalRule never looks at another rule's rows.  A   *)
(* series stands for a fingerprint, and cond for the set of fingerprints   *)
(* the rule's query returns after suppressNoise.  Every call that leaves   *)
(* the process (query, SQL statement, publish) is a step of its own, so    *)
(* other replicas and the API come in between.  An instance id is a fresh  *)
(* ULID: an unused member of Ids.                                          *)
(***************************************************************************)
EXTENDS Naturals, FiniteSets

CONSTANTS
  Evaluators,     \* alerter replicas
  Series,         \* fingerprints under the rule
  Ids,            \* instance ids that can be handed out
  None,           \* no replica, no instance, no series
  FlapWindow,     \* domain.FlapWindow in ticks of the clock
  FlapThreshold,  \* domain.FlapThreshold
  LeaseLapses,    \* may the lease expire while its holder is in a cycle
  MaxClock,       \* bound on time
  MaxFlips,       \* bound on changes of the monitored condition
  MaxUserOps,     \* bound on API calls
  MaxFaults       \* bound on failed calls and crashes

ASSUME AlertAssumption ==
  /\ None \notin Evaluators /\ None \notin Series /\ None \notin Ids
  /\ FlapWindow \in Nat /\ FlapThreshold \in Nat \ {0}
  /\ LeaseLapses \in BOOLEAN
  /\ MaxClock \in Nat \ {0} /\ MaxFlips \in Nat
  /\ MaxUserOps \in Nat /\ MaxFaults \in Nat

VARIABLES
  clock, cond, flips, userOps,  \* environment: time, what the query returns
  faults,
  holder,       \* who holds the lease "leader:alerter"
  rule,         \* alerting.alert_rules: enabled, disabled or deleted
  silenced,     \* alerting.silences: series under an active silence
  row,          \* alerting.alert_instances by id
  events,       \* alerting.alert_events as pairs <<id, event>>
  sent,         \* how often alert.fired / alert.resolved were published, by id
  loc           \* per replica: evalRule's program counter and locals

envVars == <<clock, cond, flips, userOps, holder, rule, silenced>>
vars    == <<envVars, faults, row, events, sent, loc>>

LiveStates == {"firing", "acknowledged", "flapping"}
States     == LiveStates \cup {"unused", "resolved", "deleted"}

Row == [state : States, series : Series \cup {None}, flap : Nat,
        acked : BOOLEAN, firedAt : Nat, resolvedAt : Nat]

Unused == [state |-> "unused", series |-> None, flap |-> 0,
           acked |-> FALSE, firedAt |-> 0, resolvedAt |-> 0]

\* pc: where evalRule is; matched, live (liveByFP), now: its locals; todo:
\* series still to fire; cur, flap, inst: the instance in hand; event: what
\* is to be notified about it.
Local == [pc : {"idle", "query", "live", "work", "insert", "flap", "event",
                "silence", "publish"},
          matched : SUBSET Series, live : [Series -> Ids \cup {None}],
          now : Nat, todo : SUBSET Series, gone : SUBSET Series,
          cur : Series \cup {None}, flap : Nat, inst : Ids \cup {None},
          event : {"none", "fired", "flap_start", "resolved"}]

Idle == [pc |-> "idle", matched |-> {}, live |-> [s \in Series |-> None],
         now |-> 0, todo |-> {}, gone |-> {}, cur |-> None, flap |-> 0,
         inst |-> None, event |-> "none"]

Live(i)   == row[i].state \in LiveStates
LiveOf(s) == {i \in Ids : Live(i) /\ row[i].series = s}

\* An empty alerter; the arguments are where the bounds count from.
Empty(at, changes, ops, failed) ==
  /\ clock = at /\ cond = {} /\ flips = changes /\ userOps = ops /\ faults = failed
  /\ holder = None
  /\ rule = "enabled"
  /\ silenced = {}
  /\ row = [i \in Ids |-> Unused]
  /\ events = {}
  /\ sent = [i \in Ids |-> [fired |-> 0, resolved |-> 0]]
  /\ loc = [e \in Evaluators |-> Idle]

Init == Empty(1, 0, 0, 0)

\* A call fails.
Fault == faults < MaxFaults /\ faults' = faults + 1
OK    == UNCHANGED faults

-----------------------------------------------------------------------------
(* Environment.                                                            *)

Tick ==
  /\ clock < MaxClock
  /\ clock' = clock + 1
  /\ UNCHANGED <<cond, flips, userOps, holder, rule, silenced, faults, row,
                 events, sent, loc>>

\* The monitored condition of a series begins or ends.
CondChanges(s) ==
  /\ flips < MaxFlips
  /\ flips' = flips + 1
  /\ cond' = IF s \in cond THEN cond \ {s} ELSE cond \cup {s}
  /\ UNCHANGED <<clock, userOps, holder, rule, silenced, faults, row, events,
                 sent, loc>>

\* The lease runs out: always possible between cycles (a replica that stops
\* renewing it), during one only if LeaseLapses.
LeaseExpires ==
  /\ holder # None
  /\ LeaseLapses \/ loc[holder].pc = "idle"
  /\ holder' = None
  /\ UNCHANGED <<clock, cond, flips, userOps, rule, silenced, faults, row,
                 events, sent, loc>>

-----------------------------------------------------------------------------
(* alert_instances: the statements of the Store.                           *)

\* Variant: no unique index on (rule_id, fingerprint) WHERE state !=
\* 'resolved'.
AnyInsert(s, i) == TRUE

\* The partial unique index accepts i as the live row of s.
LiveUnique(s, i) == LiveOf(s) \subseteq {i}

\* Variant: the state filter of the SQL is lost.
LiveRowsAnyState(s) ==
  {i \in Ids : row[i].series = s /\ row[i].state \notin {"unused", "deleted"}}

\* LiveByRule: state != 'resolved'.
LiveRows(s) == LiveOf(s)

\* Variant: the window is not applied.
ResolvedEver(s, since) ==
  {i \in Ids : row[i].series = s /\ row[i].state = "resolved"}

\* RecentResolved: resolved rows of s with resolved_at >= since, ...
ResolvedSince(s, since) ==
  {i \in Ids : /\ row[i].series = s /\ row[i].state = "resolved"
               /\ row[i].resolvedAt >= since}

\* ... ORDER BY resolved_at DESC LIMIT 1.
Newest(S) == {i \in S : \A j \in S : row[j].resolvedAt <= row[i].resolvedAt}

Updated(i, r) == [row EXCEPT ![i] = r]

Inserted(i, s, n, at) ==
  Updated(i, [state |-> "firing", series |-> s, flap |-> n,
              acked |-> FALSE, firedAt |-> at, resolvedAt |-> 0])

\* Variant: only rows nobody acknowledged resolve.
ResolvedIfFiring(i, at) ==
  IF row[i].state \in {"firing", "flapping"}
  THEN Updated(i, [row[i] EXCEPT !.state = "resolved", !.resolvedAt = at]) ELSE row

\* Resolve: WHERE state != 'resolved'; a row deleted meanwhile is no row.
ResolvedRow(i, at) ==
  IF Live(i)
  THEN Updated(i, [row[i] EXCEPT !.state = "resolved", !.resolvedAt = at])
  ELSE row

\* SetFlapping: WHERE id, whatever the state.
FlappingRow(i) == Updated(i, [row[i] EXCEPT !.state = "flapping"])

-----------------------------------------------------------------------------
(* The evaluator.                                                          *)

\* Replica e's locals become l.
Becomes(e, l) == loc' = [loc EXCEPT ![e] = l]

Finish(e) == Becomes(e, Idle)

\* TryAcquire succeeds at a tick; EnabledRules may or may not return the rule.
StartCycle(e) ==
  /\ loc[e].pc = "idle"
  /\ holder \in {None, e}
  /\ holder' = e
  /\ Becomes(e, [loc[e] EXCEPT !.pc = IF rule = "enabled" THEN "query" ELSE "idle"])
  /\ UNCHANGED <<clock, cond, flips, userOps, rule, silenced, faults, row,
                 events, sent>>

\* Metrics.Query, then suppressNoise.
Query(e) ==
  /\ loc[e].pc = "query"
  /\ Becomes(e, [loc[e] EXCEPT !.pc = "live", !.matched = cond])
  /\ UNCHANGED <<envVars, faults, row, events, sent>>

\* LiveByRule fills liveByFP and the clock is read.  What is left of the
\* cycle is then fixed: fire the matched series that have no row, resolve the
\* rows whose series did not match.
LoadLive(e) ==
  /\ loc[e].pc = "live"
  /\ \E m \in [Series -> Ids \cup {None}] :
       /\ \A s \in Series : IF LiveRows(s) = {} THEN m[s] = None
                                                ELSE m[s] \in LiveRows(s)
       /\ Becomes(e, [loc[e] EXCEPT
            !.pc = "work", !.live = m, !.now = clock,
            !.todo = {s \in loc[e].matched : m[s] = None},
            !.gone = {s \in Series \ loc[e].matched : m[s] # None}])
  /\ UNCHANGED <<envVars, faults, row, events, sent>>

\* Query or LiveByRule fails: the rule is given up for this cycle.
EvalFails(e) ==
  /\ loc[e].pc \in {"query", "live"}
  /\ Fault
  /\ Finish(e)
  /\ UNCHANGED <<envVars, row, events, sent>>

\* now.Add(-FlapWindow)
Since(e) == IF loc[e].now > FlapWindow THEN loc[e].now - FlapWindow ELSE 0

\* A new firing: RecentResolved gives the flap count the row will carry.  Its
\* error is ignored and counts as "nothing resolved recently".
CountFlaps(e, s) ==
  /\ loc[e].pc = "work" /\ s \in loc[e].todo
  /\ LET recent == Newest(ResolvedSince(s, Since(e)))
         Carry(n) == Becomes(e, [loc[e] EXCEPT !.pc = "insert", !.cur = s,
                               !.flap = n, !.todo = @ \ {s}])
     IN \/ recent # {} /\ OK /\ \E i \in recent : Carry(row[i].flap + 1)
        \/ recent = {} /\ OK /\ Carry(0)
        \/ recent # {} /\ Fault /\ Carry(0)
  /\ UNCHANGED <<envVars, row, events, sent>>

\* Instances.Fire: INSERT of a fresh id.  The unique index, or the foreign
\* key once the rule is gone, refuses it; a lost answer looks the same to the
\* evaluator whether or not the row is there.
Fire(e) ==
  LET s == loc[e].cur
      Insert(i) == row' = Inserted(i, s, loc[e].flap, loc[e].now)
      Skip == Becomes(e, [loc[e] EXCEPT !.pc = "work", !.cur = None,
                                 !.flap = 0])
  IN /\ loc[e].pc = "insert"
     /\ \/ /\ rule # "deleted"
           /\ \E i \in Ids :
                /\ row[i].state = "unused" /\ LiveUnique(s, i)
                /\ \/ /\ Insert(i) /\ OK
                      /\ Becomes(e, [loc[e] EXCEPT
                           !.inst = i, !.event = "fired",
                           !.pc = IF loc[e].flap >= FlapThreshold
                                     THEN "flap" ELSE "event"])
                   \/ Fault /\ (Insert(i) \/ UNCHANGED row) /\ Skip
        \/ /\ rule = "deleted" \/ ~LiveUnique(s, None)
           /\ UNCHANGED row /\ OK /\ Skip
     /\ UNCHANGED <<envVars, events, sent>>

\* Instances.SetFlapping on the row just inserted.  The unique index refuses
\* to bring it back beside another live row; on any error the evaluator goes
\* on with a plain "fired".
SetFlapping(e) ==
  LET i == loc[e].inst
      Go(ev) == Becomes(e, [loc[e] EXCEPT !.pc = "event", !.event = ev])
  IN /\ loc[e].pc = "flap"
     /\ \/ /\ row[i].state = "deleted"
           /\ UNCHANGED row /\ OK /\ Go("flap_start")
        \/ /\ row[i].state # "deleted" /\ LiveUnique(row[i].series, i)
           /\ \/ row' = FlappingRow(i) /\ OK /\ Go("flap_start")
              \/ row' = FlappingRow(i) /\ Fault /\ Go("fired")
        \/ /\ row[i].state # "deleted" /\ ~LiveUnique(row[i].series, i)
           /\ UNCHANGED row /\ OK /\ Go("fired")
        \/ UNCHANGED row /\ Fault /\ Go("fired")
     /\ UNCHANGED <<envVars, events, sent>>

\* Anything live but no longer matching resolves.
Resolve(e, s) ==
  LET i == loc[e].live[s]
  IN /\ loc[e].pc = "work" /\ loc[e].todo = {} /\ s \in loc[e].gone
     /\ \/ /\ row' = ResolvedRow(i, loc[e].now) /\ OK
           /\ Becomes(e, [loc[e] EXCEPT !.pc = "event", !.event = "resolved",
                        !.inst = i, !.gone = @ \ {s}])
        \/ /\ row' \in {row, ResolvedRow(i, loc[e].now)} /\ Fault
           /\ Becomes(e, [loc[e] EXCEPT !.gone = @ \ {s}])
     /\ UNCHANGED <<envVars, events, sent>>

\* AppendEvent; its error is dropped, as is the row's absence (foreign key).
Recorded(i, ev) ==
  \/ OK /\ events' = IF row[i].state = "deleted" THEN events
                     ELSE events \cup {<<i, ev>>}
  \/ Fault /\ UNCHANGED events

NextItem(e) ==
  Becomes(e, [loc[e] EXCEPT !.pc = "work", !.cur = None, !.flap = 0,
                     !.inst = None, !.event = "none"])

AppendEvent(e) ==
  /\ loc[e].pc = "event"
  /\ Recorded(loc[e].inst, loc[e].event)
  /\ IF loc[e].event = "flap_start"
     THEN NextItem(e)                   \* notify returns: collapsed
     ELSE Becomes(e, [loc[e] EXCEPT !.pc = "silence"])
  /\ UNCHANGED <<envVars, row, sent>>

\* notify asks for an active silence; an error counts as "not silenced".
CheckSilence(e) ==
  LET muted == row[loc[e].inst].series \in silenced
      Proceed == /\ Becomes(e, [loc[e] EXCEPT !.pc = "publish"])
                 /\ UNCHANGED events
  IN /\ loc[e].pc = "silence"
     /\ \/ muted /\ Recorded(loc[e].inst, "silenced") /\ NextItem(e)
        \/ ~muted /\ OK /\ Proceed
        \/ muted /\ Fault /\ Proceed
     /\ UNCHANGED <<envVars, row, sent>>

\* The message is with the broker once more.
SentFor(e) ==
  LET i == loc[e].inst
  IN sent' = IF loc[e].event = "resolved" THEN [sent EXCEPT ![i].resolved = @ + 1]
                                          ELSE [sent EXCEPT ![i].fired = @ + 1]

\* Publish with a broker confirm; a failure is logged and the notification is
\* gone, a confirm lost on the way back leaves it sent.
Publish(e) ==
  /\ loc[e].pc = "publish"
  /\ \/ SentFor(e) /\ OK
     \/ (SentFor(e) \/ UNCHANGED sent) /\ Fault
  /\ NextItem(e)
  /\ UNCHANGED <<envVars, row, events>>

EndCycle(e) ==
  /\ loc[e].pc = "work" /\ loc[e].todo = {} /\ loc[e].gone = {}
  /\ Finish(e)
  /\ UNCHANGED <<envVars, faults, row, events, sent>>

\* The process dies with its locals; the lease stays until it expires.
Crash(e) ==
  /\ loc[e].pc # "idle"
  /\ Fault
  /\ Finish(e)
  /\ UNCHANGED <<envVars, row, events, sent>>

-----------------------------------------------------------------------------
(* The API.                                                                *)

UserOp == userOps < MaxUserOps /\ userOps' = userOps + 1

\* Variant: Ack without the state condition.
AckableAny(i) == row[i].state \notin {"unused", "deleted"}

Ackable(i) == row[i].state \in {"firing", "flapping"}

Ack(i) ==
  /\ UserOp
  /\ Ackable(i)
  /\ row' = Updated(i, [row[i] EXCEPT !.state = "acknowledged", !.acked = TRUE])
  /\ events' = events \cup {<<i, "acked">>}
  /\ UNCHANGED <<clock, cond, flips, holder, rule, silenced, faults, sent, loc>>

Unack(i) ==
  /\ UserOp
  /\ row[i].state = "acknowledged"
  /\ row' = Updated(i, [row[i] EXCEPT !.state = "firing", !.acked = FALSE])
  /\ events' = events \cup {<<i, "unacked">>}
  /\ UNCHANGED <<clock, cond, flips, holder, rule, silenced, faults, sent, loc>>

CreateSilence(s) ==
  /\ UserOp
  /\ silenced' = silenced \cup {s}
  /\ UNCHANGED <<clock, cond, flips, holder, rule, faults, row, events, sent,
                 loc>>

\* Revoked through the API or ends_at passed.
SilenceEnds(s) ==
  /\ s \in silenced
  /\ silenced' = silenced \ {s}
  /\ UNCHANGED <<clock, cond, flips, userOps, holder, rule, faults, row,
                 events, sent, loc>>

SetRuleEnabled(b) ==
  /\ UserOp
  /\ rule # "deleted"
  /\ rule' = IF b THEN "enabled" ELSE "disabled"
  /\ UNCHANGED <<clock, cond, flips, holder, silenced, faults, row, events,
                 sent, loc>>

\* One transaction: the rule's instances, then the rule; alert_events cascade.
DeleteRule ==
  /\ UserOp
  /\ rule # "deleted"
  /\ rule' = "deleted"
  /\ row' = [i \in Ids |-> IF row[i].state = "unused" THEN row[i]
                           ELSE [row[i] EXCEPT !.state = "deleted"]]
  /\ events' = {}
  /\ UNCHANGED <<clock, cond, flips, holder, silenced, faults, sent, loc>>

-----------------------------------------------------------------------------

\* Steps evalRule takes by itself once a cycle has begun.
Step(e) ==
  \/ Query(e) \/ LoadLive(e) \/ EvalFails(e)
  \/ \E s \in Series : CountFlaps(e, s) \/ Resolve(e, s)
  \/ Fire(e) \/ SetFlapping(e) \/ AppendEvent(e) \/ CheckSilence(e)
  \/ Publish(e) \/ EndCycle(e)

Api ==
  \/ \E i \in Ids : Ack(i) \/ Unack(i)
  \/ \E s \in Series : CreateSilence(s) \/ SilenceEnds(s)
  \/ \E b \in BOOLEAN : SetRuleEnabled(b)
  \/ DeleteRule

Next ==
  \/ Tick \/ LeaseExpires
  \/ \E s \in Series : CondChanges(s)
  \/ \E e \in Evaluators : StartCycle(e) \/ Step(e) \/ Crash(e)
  \/ Api

Spec == Init /\ [][Next]_vars

\* A replica keeps executing the cycle it is in, and the ticker keeps
\* starting cycles at a replica that can have the lease.
Fairness ==
  /\ \A e \in Evaluators : WF_vars(Step(e))
  /\ WF_vars(\E e \in Evaluators : StartCycle(e))

FairSpec == Spec /\ Fairness

-----------------------------------------------------------------------------

TypeOK ==
  /\ clock \in 1..MaxClock /\ cond \in SUBSET Series /\ flips \in 0..MaxFlips
  /\ userOps \in 0..MaxUserOps /\ faults \in 0..MaxFaults
  /\ holder \in Evaluators \cup {None}
  /\ rule \in {"enabled", "disabled", "deleted"}
  /\ silenced \in SUBSET Series
  /\ row \in [Ids -> Row]
  /\ sent \in [Ids -> [fired : Nat, resolved : Nat]]
  /\ loc \in [Evaluators -> Local]

\* A series never has two live alerts, although evalRule decides to insert
\* from a snapshot that another replica, its own earlier cycle or SetFlapping
\* may have overtaken: the partial unique index is what holds the line.
OneLive ==
  \A i, j \in Ids :
    Live(i) /\ Live(j) /\ row[i].series = row[j].series => i = j

\* alert.fired goes out at most once per instance, alert.resolved at most once
\* and only for an instance that is and stays resolved.  (One evaluator at a
\* time; Resolve reports no row count, so a second one would announce again.)
NoticesOnce ==
  \A i \in Ids :
    /\ sent[i].fired <= 1 /\ sent[i].resolved <= 1
    /\ sent[i].resolved = 1 => row[i].state \in {"resolved", "deleted"}

\* A flap count is earned: it is one more than that of an earlier alert of
\* the same series that had resolved at most FlapWindow before this one
\* fired, and an alert is flapping only from FlapThreshold on.  This is what
\* evalRule counts: a window for every re-fire and FlapThreshold of them,
\* where FR-ALR-05 has more than three in one window.
FlapChain ==
  \A i \in Ids : row[i].state # "unused" =>
    /\ row[i].flap > 0 =>
         \E j \in Ids \ {i} :
           /\ row[j].series = row[i].series
           /\ row[j].flap + 1 = row[i].flap
           /\ row[j].resolvedAt > 0
           /\ row[i].firedAt <= row[j].resolvedAt + FlapWindow
    /\ row[i].state = "flapping" => row[i].flap >= FlapThreshold

\* FR-ALR-03: resolved is the end of an instance; a re-fire is a new one.
ResolvedIsFinal ==
  [][\A i \in Ids : row[i].state = "resolved" =>
                      row'[i].state \in {"resolved", "deleted"}]_vars

\* A condition that stays true under an enabled rule ends up with a live
\* alert, and one that stays false with none, whatever replicas, operators
\* and failed calls did before: lost INSERTs, stale cycles and resolved rows
\* are made good by a later cycle.
AlertFollowsCondition ==
  \A s \in Series :
    /\ <>[](s \in cond /\ rule = "enabled") => <>[](LiveOf(s) # {})
    /\ <>[](s \notin cond /\ rule = "enabled") => <>[](LiveOf(s) = {})
=============================================================================
