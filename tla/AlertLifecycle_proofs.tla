------------------------ MODULE AlertLifecycle_proofs -------------------------
(***************************************************************************)
(* Proofs about AlertLifecycle for any number of replicas, series and      *)
(* instances and any bounds, and about AlertNoise for any ports, names,    *)
(* scopes and edits.  The two share no state.                              *)
(***************************************************************************)
EXTENDS AlertLifecycle, AlertNoise, WellFoundedInduction, TLAPS

LEMMA BecomesTyped ==
  ASSUME loc \in [Evaluators -> Local], NEW e \in Evaluators,
         NEW l \in Local, Becomes(e, l)
  PROVE  loc' \in [Evaluators -> Local]
BY DEF Becomes

LEMMA IdleTyped == Idle \in Local
BY AlertAssumption DEF Idle, Local

\* Whatever step a replica takes, its locals keep their types.
LEMMA LocalsTyped ==
  ASSUME TypeOK, NEW e \in Evaluators, StartCycle(e) \/ Step(e) \/ Crash(e)
  PROVE  loc' \in [Evaluators -> Local]
<1>a. loc[e] \in Local
  BY DEF TypeOK
<1>b. SUFFICES \E l \in Local : Becomes(e, l)
  BY BecomesTyped DEF TypeOK
<1>c. CASE NextItem(e)
  BY <1>a, <1>c DEF NextItem, Local
<1>d. CASE Finish(e)
  BY <1>d, IdleTyped DEF Finish
<1>1. CASE StartCycle(e)
  <2>1. [loc[e] EXCEPT !.pc = IF rule = "enabled" THEN "query" ELSE "idle"] \in Local
    BY <1>a DEF Local
  <2> QED BY <1>1, <2>1 DEF StartCycle
<1>2. CASE Query(e)
  <2>1. [loc[e] EXCEPT !.pc = "live", !.matched = cond] \in Local
    BY <1>a DEF Local, TypeOK
  <2> QED BY <1>2, <2>1 DEF Query
<1>3. CASE LoadLive(e)
  <2>1. ASSUME NEW m \in [Series -> Ids \cup {None}]
        PROVE  [loc[e] EXCEPT
                  !.pc = "work", !.live = m, !.now = clock,
                  !.todo = {s \in loc[e].matched : m[s] = None},
                  !.gone = {s \in Series \ loc[e].matched : m[s] # None}] \in Local
    <3>1. clock \in Nat
      BY AlertAssumption DEF TypeOK
    <3>2. ASSUME NEW t \in SUBSET Series, NEW g \in SUBSET Series
          PROVE  [loc[e] EXCEPT !.pc = "work", !.live = m, !.now = clock,
                                !.todo = t, !.gone = g] \in Local
      BY <1>a, <3>1 DEF Local
    <3>3. loc[e].matched \in SUBSET Series
      BY <1>a DEF Local
    <3> QED BY <3>2, <3>3
  <2> QED BY <1>3, <2>1 DEF LoadLive
<1>5. ASSUME NEW s \in Series, CountFlaps(e, s)
      PROVE  \E l \in Local : Becomes(e, l)
  <2>1. ASSUME NEW n \in Nat
        PROVE  [loc[e] EXCEPT !.pc = "insert", !.cur = s,
                  !.flap = n, !.todo = @ \ {s}] \in Local
    BY <1>a DEF Local
  <2>2. \A i \in Ids : row[i].flap + 1 \in Nat
    BY DEF TypeOK, Row
  <2> QED BY <1>5, <2>1, <2>2 DEF CountFlaps, Newest, ResolvedSince
<1>6. ASSUME NEW s \in Series, Resolve(e, s)
      PROVE  \E l \in Local : Becomes(e, l)
  <2>1. [loc[e] EXCEPT !.pc = "event", !.event = "resolved",
           !.inst = loc[e].live[s], !.gone = @ \ {s}] \in Local
    BY <1>a DEF Local
  <2>2. [loc[e] EXCEPT !.gone = @ \ {s}] \in Local
    BY <1>a DEF Local
  <2> QED BY <1>6, <2>1, <2>2 DEF Resolve
<1>7. CASE Fire(e)
  <2>1. ASSUME NEW i \in Ids, NEW p \in {"flap", "event"}
        PROVE  [loc[e] EXCEPT !.inst = i, !.event = "fired", !.pc = p] \in Local
    BY <1>a DEF Local
  <2>2. [loc[e] EXCEPT !.pc = "work", !.cur = None, !.flap = 0] \in Local
    BY <1>a DEF Local
  <2> QED BY <1>7, <2>1, <2>2 DEF Fire
<1>8. CASE SetFlapping(e)
  <2>1. ASSUME NEW ev \in {"fired", "flap_start"}
        PROVE  [loc[e] EXCEPT !.pc = "event", !.event = ev] \in Local
    BY <1>a DEF Local
  <2> QED BY <1>8, <2>1 DEF SetFlapping
<1>9. CASE AppendEvent(e)
  <2>1. [loc[e] EXCEPT !.pc = "silence"] \in Local
    BY <1>a DEF Local
  <2> QED BY <1>9, <1>c, <2>1 DEF AppendEvent
<1>10. CASE CheckSilence(e)
  <2>1. [loc[e] EXCEPT !.pc = "publish"] \in Local
    BY <1>a DEF Local
  <2> QED BY <1>10, <1>c, <2>1 DEF CheckSilence
<1>11. CASE Publish(e)
  BY <1>11, <1>c DEF Publish
<1> QED
  BY <1>d, <1>1, <1>2, <1>3, <1>5, <1>6, <1>7, <1>8, <1>9, <1>10, <1>11
     DEF Step, EvalFails, EndCycle, Crash
LEMMA UpdatedTyped ==
  ASSUME row \in [Ids -> Row], NEW i,
         NEW r, i \in Ids => r \in Row
  PROVE  Updated(i, r) \in [Ids -> Row]
BY DEF Updated

\* Whatever step is taken, the rows keep their types.
LEMMA RowsTyped ==
  ASSUME TypeOK, Next
  PROVE  row' \in [Ids -> Row]
<1> USE AlertAssumption DEF TypeOK
<1>1. ASSUME NEW e \in Evaluators, Fire(e)
      PROVE  row' \in [Ids -> Row]
  <2>1. loc[e].cur \in Series \cup {None} /\ loc[e].flap \in Nat /\ loc[e].now \in Nat
    BY DEF Local
  <2>2. ASSUME NEW i \in Ids
        PROVE  Inserted(i, loc[e].cur, loc[e].flap, loc[e].now) \in [Ids -> Row]
    BY <2>1, UpdatedTyped DEF Inserted, Row, States, LiveStates
  <2>3. \/ row' = row
        \/ \E i \in Ids : row' = Inserted(i, loc[e].cur, loc[e].flap, loc[e].now)
    BY <1>1 DEF Fire
  <2> QED BY <2>2, <2>3
<1>2. ASSUME NEW e \in Evaluators, SetFlapping(e)
      PROVE  row' \in [Ids -> Row]
  <2>1. row' = row \/ row' = FlappingRow(loc[e].inst)
    BY <1>2 DEF SetFlapping
  <2>2. ASSUME NEW i \in Ids
        PROVE  [row[i] EXCEPT !.state = "flapping"] \in Row
    BY DEF Row, States, LiveStates
  <2>3. FlappingRow(loc[e].inst) \in [Ids -> Row]
    BY <2>2, UpdatedTyped DEF FlappingRow
  <2> QED BY <2>1, <2>3
<1>3. ASSUME NEW e \in Evaluators, NEW s \in Series, Resolve(e, s)
      PROVE  row' \in [Ids -> Row]
  <2>1. row' = row \/ row' = ResolvedRow(loc[e].live[s], loc[e].now)
    BY <1>3 DEF Resolve
  <2>2. loc[e].now \in Nat
    BY DEF Local
  <2>3. ASSUME NEW i \in Ids, NEW at \in Nat
        PROVE  [row[i] EXCEPT !.state = "resolved", !.resolvedAt = at] \in Row
    BY ZenonT(40) DEF Row, States, LiveStates
  <2>4. ResolvedRow(loc[e].live[s], loc[e].now) \in [Ids -> Row]
    BY <2>2, <2>3, UpdatedTyped DEF ResolvedRow
  <2> QED BY <2>1, <2>4
<1>4. ASSUME NEW i \in Ids, Ack(i) \/ Unack(i)
      PROVE  row' \in [Ids -> Row]
  <2>1. /\ [row[i] EXCEPT !.state = "acknowledged", !.acked = TRUE] \in Row
        /\ [row[i] EXCEPT !.state = "firing", !.acked = FALSE] \in Row
    BY ZenonT(40) DEF Row, States, LiveStates
  <2>2. Updated(i, [row[i] EXCEPT !.state = "acknowledged", !.acked = TRUE])
          \in [Ids -> Row]
    BY <2>1, UpdatedTyped
  <2>3. Updated(i, [row[i] EXCEPT !.state = "firing", !.acked = FALSE])
          \in [Ids -> Row]
    BY <2>1, UpdatedTyped
  <2> QED BY <1>4, <2>2, <2>3 DEF Ack, Unack
<1>5. CASE DeleteRule
  <2>1. ASSUME NEW i \in Ids
        PROVE  [row[i] EXCEPT !.state = "deleted"] \in Row
    BY DEF Row, States, LiveStates
  <2> QED BY <1>5, <2>1 DEF DeleteRule
<1>6. CASE UNCHANGED row
  BY <1>6
<1> QED
  BY <1>1, <1>2, <1>3, <1>4, <1>5, <1>6
     DEF Next, Step, Api, Tick, LeaseExpires, CondChanges, StartCycle, Crash,
         Query, LoadLive, EvalFails, CountFlaps, AppendEvent, CheckSilence,
         Publish, EndCycle, CreateSilence, SilenceEnds, SetRuleEnabled

\* Type correctness of the alerter, its table and the API.
THEOREM AlertsTyped == Spec => []TypeOK
<1> USE AlertAssumption
<1>1. Init => TypeOK
  BY IdleTyped DEF Init, Empty, TypeOK, Unused, Row, States, LiveStates
<1>2. TypeOK /\ [Next]_vars => TypeOK'
  <2> SUFFICES ASSUME TypeOK, [Next]_vars
               PROVE  TypeOK'
    OBVIOUS
  <2>1. CASE UNCHANGED vars
    BY <2>1 DEF vars, envVars, TypeOK
  <2>2. CASE Next
    <3>1. row' \in [Ids -> Row]
      BY <2>2, RowsTyped
    <3>2. loc' \in [Evaluators -> Local]
      BY <2>2, LocalsTyped
         DEF Next, Api, Tick, LeaseExpires, CondChanges, Ack, Unack, DeleteRule,
             CreateSilence, SilenceEnds, SetRuleEnabled, TypeOK
    <3>3. faults' \in 0..MaxFaults
      <4>1. faults' = faults \/ Fault
        <5>1. ASSUME NEW e \in Evaluators, Fire(e) \/ SetFlapping(e)
              PROVE  faults' = faults \/ Fault
          BY <5>1 DEF Fire, SetFlapping, OK
        <5>2. ASSUME NEW e \in Evaluators,
                     AppendEvent(e) \/ CheckSilence(e) \/ Publish(e)
              PROVE  faults' = faults \/ Fault
          BY <5>2 DEF AppendEvent, Recorded, CheckSilence, Publish, OK
        <5>3. ASSUME NEW e \in Evaluators, NEW s \in Series,
                     CountFlaps(e, s) \/ Resolve(e, s)
              PROVE  faults' = faults \/ Fault
          BY <5>3 DEF CountFlaps, Resolve, OK
        <5>4. CASE Api
          BY <5>4 DEF Api, Ack, Unack, DeleteRule, CreateSilence, SilenceEnds,
             SetRuleEnabled
        <5> QED
          BY <2>2, <5>1, <5>2, <5>3, <5>4
             DEF Next, Step, Tick, LeaseExpires, CondChanges, StartCycle, Crash,
                 Query, LoadLive, EvalFails, EndCycle
      <4> QED BY <4>1 DEF Fault, TypeOK
    <3>4. sent' \in [Ids -> [fired : Nat, resolved : Nat]]
      <4>1. ASSUME NEW e \in Evaluators, Publish(e)
            PROVE  sent' \in [Ids -> [fired : Nat, resolved : Nat]]
        BY <4>1 DEF Publish, SentFor, TypeOK
      <4> QED
        BY <2>2, <4>1, ZenonT(40) DEF TypeOK, Next, Step, Api, Tick, LeaseExpires,
           CondChanges, StartCycle, Crash, Query, LoadLive, EvalFails,
           CountFlaps, Fire, SetFlapping, Resolve, AppendEvent, CheckSilence,
           EndCycle, Ack, Unack, DeleteRule, CreateSilence, SilenceEnds,
           SetRuleEnabled
    <3>5. /\ clock' \in 1..MaxClock /\ cond' \in SUBSET Series
          /\ flips' \in 0..MaxFlips /\ userOps' \in 0..MaxUserOps
          /\ holder' \in Evaluators \cup {None}
          /\ rule' \in {"enabled", "disabled", "deleted"}
          /\ silenced' \in SUBSET Series
      <4>1. ASSUME NEW e \in Evaluators, Step(e) \/ Crash(e)
            PROVE  UNCHANGED envVars
        BY <4>1 DEF Step, Crash, Query, LoadLive, EvalFails, CountFlaps, Fire,
           SetFlapping, Resolve, AppendEvent, CheckSilence, Publish, EndCycle
      <4>2. CASE UNCHANGED envVars
        BY <4>2 DEF envVars, TypeOK
      <4>3. ASSUME NEW e \in Evaluators, StartCycle(e)
            PROVE  /\ UNCHANGED <<clock, cond, flips, userOps, rule, silenced>>
                   /\ holder' = e
        BY <4>3 DEF StartCycle
      <4>4. CASE Tick \/ LeaseExpires \/ \E s \in Series : CondChanges(s)
        BY <4>4 DEF Tick, LeaseExpires, CondChanges, TypeOK
      <4>5. CASE Api
        <5>1. userOps' = userOps \/ UserOp
          BY <4>5 DEF Api, Ack, Unack, DeleteRule, CreateSilence, SilenceEnds,
             SetRuleEnabled
        <5>2. userOps' \in 0..MaxUserOps
          BY <5>1 DEF UserOp, TypeOK
        <5>3. UNCHANGED <<clock, cond, flips, holder>>
          BY <4>5 DEF Api, Ack, Unack, DeleteRule, CreateSilence, SilenceEnds,
             SetRuleEnabled
        <5>4. rule' \in {rule, "enabled", "disabled", "deleted"}
          BY <4>5 DEF Api, Ack, Unack, DeleteRule, CreateSilence, SilenceEnds,
             SetRuleEnabled
        <5>5. silenced' \in SUBSET Series
          BY <4>5 DEF Api, Ack, Unack, DeleteRule, CreateSilence, SilenceEnds,
             SetRuleEnabled, TypeOK
        <5> QED BY <5>2, <5>3, <5>4, <5>5 DEF TypeOK
      <4> QED
        BY <2>2, <4>1, <4>2, <4>3, <4>4, <4>5 DEF Next, TypeOK
    <3> QED
      BY <3>1, <3>2, <3>3, <3>4, <3>5 DEF TypeOK
  <2> QED
    BY <2>1, <2>2
<1> QED
  BY <1>1, <1>2, PTL DEF Spec

\* A series never has two live alerts, for any number of replicas, with the
\* lease lapsing at any time, failed calls, crashes and operators in between.
THEOREM AtMostOneLive == Spec => []OneLive
<1>1. Init => OneLive
  BY DEF Init, Empty, OneLive, Live, Unused, LiveStates
<1>2. TypeOK /\ OneLive /\ [Next]_vars => OneLive'
  <2> SUFFICES ASSUME TypeOK, OneLive, [Next]_vars
               PROVE  OneLive'
    OBVIOUS
  <2> USE DEF OneLive, Live
  <2>a. row \in [Ids -> Row]
    BY DEF TypeOK
  <2>b. ASSUME NEW k, NEW r, row' = Updated(k, r), r.series = row[k].series,
               k \in Ids => Live(k)
        PROVE  OneLive'
    BY <2>a, <2>b DEF Updated
  <2>c. ASSUME NEW k, NEW r, row' = Updated(k, r), LiveUnique(r.series, k)
        PROVE  OneLive'
    BY <2>a, <2>c DEF Updated, LiveUnique, LiveOf
  <2>1. ASSUME NEW e \in Evaluators, Fire(e)
        PROVE  OneLive'
    <3>1. \/ row' = row
          \/ \E i \in Ids : /\ LiveUnique(loc[e].cur, i)
                            /\ row' = Inserted(i, loc[e].cur, loc[e].flap, loc[e].now)
      BY <2>1 DEF Fire
    <3> QED BY <2>c, <3>1 DEF Inserted
  <2>2. ASSUME NEW e \in Evaluators, SetFlapping(e)
        PROVE  OneLive'
    <3> DEFINE i == loc[e].inst
    <3>1. \/ row' = row
          \/ LiveUnique(row[i].series, i) /\ row' = FlappingRow(i)
          \/ ~LiveUnique(row[i].series, i) /\ row' = row
      BY <2>2 DEF SetFlapping
    <3>2. CASE row' = row
      BY <3>2
    <3>3. CASE LiveUnique(row[i].series, i) /\ row' = FlappingRow(i) /\ i \in Ids
      <4>1. row[i] \in Row
        BY <2>a, <3>3
      <4>2. [row[i] EXCEPT !.state = "flapping"].series = row[i].series
        BY <4>1 DEF Row
      <4> QED BY <2>c, <3>3, <4>2 DEF FlappingRow
    <3>4. CASE row' = FlappingRow(i) /\ i \notin Ids
      BY <2>a, <3>4 DEF FlappingRow, Updated
    <3> QED BY <3>1, <3>2, <3>3, <3>4
  <2>d. ASSUME NEW k \in Ids, NEW r, row' = Updated(k, r), Live(k),
               r.series = row[k].series
        PROVE  OneLive'
    BY <2>b, <2>d
  <2>3. ASSUME NEW e \in Evaluators, NEW s \in Series, Resolve(e, s)
        PROVE  OneLive'
    <3> DEFINE i == loc[e].live[s]
               r == [row[i] EXCEPT !.state = "resolved",
                                   !.resolvedAt = loc[e].now]
    <3>1. row' = row \/ (Live(i) /\ row' = Updated(i, r))
      BY <2>3 DEF Resolve, ResolvedRow
    <3>2. CASE row' = row
      BY <3>2
    <3>3. CASE i \in Ids /\ Live(i) /\ row' = Updated(i, r)
      <4>1. row[i] \in Row
        BY <2>a, <3>3
      <4>2. r.series = row[i].series
        BY <4>1 DEF Row
      <4> QED BY <2>d, <3>3, <4>2
    <3>4. CASE i \notin Ids /\ row' = Updated(i, r)
      BY <2>a, <3>4 DEF Updated
    <3> QED BY <3>1, <3>2, <3>3, <3>4
  <2>4. ASSUME NEW i \in Ids, Ack(i) \/ Unack(i)
        PROVE  OneLive'
    <3>1. row[i] \in Row
      BY <2>a
    <3>2. CASE Ack(i)
      <4>1. [row[i] EXCEPT !.state = "acknowledged", !.acked = TRUE].series
              = row[i].series
        BY <3>1 DEF Row
      <4> QED BY <2>d, <3>2, <4>1 DEF Ack, Ackable, LiveStates
    <3>3. CASE Unack(i)
      <4>1. [row[i] EXCEPT !.state = "firing", !.acked = FALSE].series
              = row[i].series
        BY <3>1 DEF Row
      <4> QED BY <2>d, <3>3, <4>1 DEF Unack, LiveStates
    <3> QED BY <2>4, <3>2, <3>3
  <2>5. CASE DeleteRule
    BY <2>a, <2>5 DEF DeleteRule, LiveStates, Row
  <2>6. CASE UNCHANGED row
    BY <2>6
  <2> QED
    BY <2>1, <2>2, <2>3, <2>4, <2>5, <2>6
       DEF Next, vars, Step, Api, Tick, LeaseExpires, CondChanges, StartCycle,
           Crash, Query, LoadLive, EvalFails, CountFlaps, AppendEvent,
           CheckSilence, Publish, EndCycle, CreateSilence, SilenceEnds,
           SetRuleEnabled
<1> QED
  BY <1>1, <1>2, AlertsTyped, PTL DEF Spec
-----------------------------------------------------------------------------
(* One replica at a time.  While no lease lapses under a running cycle,    *)
(* the cycle in progress is alone with operators and their API: what its   *)
(* locals say of the table stays true until it uses them.                  *)

\* A row that stays as it is, but for being deleted with its rule.
Final(i) == row[i].state \in {"resolved", "deleted"}

\* A settled alert that the n-th flap of series s, fired at this time, counts
\* from.
Earned(s, n, at) ==
  \E j \in Ids :
    /\ Final(j) /\ row[j].series = s /\ row[j].flap + 1 = n
    /\ row[j].resolvedAt > 0 /\ at <= row[j].resolvedAt + FlapWindow

\* The lease: a replica in a cycle holds it.
HolderOnly == \A e \in Evaluators : loc[e].pc # "idle" => holder = e

RowFits(i) ==
  /\ row[i].state = "unused" => sent[i].fired = 0 /\ sent[i].resolved = 0
  /\ row[i].state = "resolved" => row[i].resolvedAt > 0
  /\ row[i].state # "unused" /\ row[i].flap > 0 => Earned(row[i].series, row[i].flap, row[i].firedAt)
  /\ row[i].state = "flapping" => row[i].flap >= FlapThreshold
  /\ sent[i].fired <= 1 /\ sent[i].resolved <= 1
  /\ sent[i].resolved = 1 => Final(i)

\* An alert the cycle is to resolve: nobody else resolves or announces it.
ToResolve(l, s) ==
  /\ l.live[s] \in Ids /\ row[l.live[s]].series = s
  /\ row[l.live[s]].state \notin {"unused", "resolved"} /\ sent[l.live[s]].resolved = 0

InstanceFits(l) ==
  /\ l.inst \in Ids /\ l.event # "none" /\ row[l.inst].state # "unused"
  /\ l.event \in {"fired", "flap_start"} => sent[l.inst].fired = 0 /\ row[l.inst].state # "resolved"
  /\ l.event = "resolved" => sent[l.inst].resolved = 0 /\ Final(l.inst) /\ row[l.inst].series \notin l.gone

\* What the locals of a cycle say of the table.
LocalFits(l) ==
  /\ l.pc = "idle" => l.gone = {}
  /\ l.pc \notin {"idle", "query", "live"} => l.now > 0
  /\ \A s \in l.gone : ToResolve(l, s)
  /\ l.pc = "insert" /\ l.flap > 0 => Earned(l.cur, l.flap, l.now)
  /\ l.pc = "flap" => l.event = "fired" /\ row[l.inst].flap >= FlapThreshold
  /\ l.pc \in {"flap", "event", "silence", "publish"} => InstanceFits(l)

CycleInv ==
  /\ HolderOnly /\ (\A i \in Ids : RowFits(i)) /\ \A e \in Evaluators : LocalFits(loc[e])

\* Rows are kept: an alert never changes its series, its count or the time it
\* fired, and one that is settled stays so.
RowsKept ==
  \A i \in Ids :
    /\ row[i].state # "unused" =>
         /\ row'[i].state # "unused" /\ row'[i].series = row[i].series
         /\ row'[i].flap = row[i].flap /\ row'[i].firedAt = row[i].firedAt
    /\ Final(i) => Final(i)' /\ row'[i].resolvedAt = row[i].resolvedAt

LEMMA EarnedStays ==
  ASSUME RowsKept, NEW s, NEW n, NEW at, Earned(s, n, at)
  PROVE  Earned(s, n, at)'
<1>1. PICK j \in Ids : /\ Final(j) /\ row[j].series = s /\ row[j].flap + 1 = n
                       /\ row[j].resolvedAt > 0 /\ at <= row[j].resolvedAt + FlapWindow
  BY DEF Earned
<1>2. row[j].state # "unused"
  BY <1>1 DEF Final
<1>3. /\ Final(j)' /\ row'[j].series = s /\ row'[j].flap + 1 = n
      /\ row'[j].resolvedAt > 0 /\ at <= row'[j].resolvedAt + FlapWindow
  BY <1>1, <1>2 DEF RowsKept
<1> QED BY <1>3 DEF Earned

\* A step that leaves the table and the notices alone.
LEMMA SameTable ==
  ASSUME UNCHANGED <<row, sent>>
  PROVE  /\ \A i \in Ids : RowFits(i) => RowFits(i)'
         /\ \A l : LocalFits(l) => LocalFits(l)'
BY DEF RowFits, LocalFits, ToResolve, InstanceFits, Earned, Final

\* A row that did not change still fits.
LEMMA RowStillFits ==
  ASSUME RowsKept, NEW i \in Ids, RowFits(i), row'[i] = row[i], sent'[i] = sent[i]
  PROVE  RowFits(i)'
<1>1. Final(i)' <=> Final(i)
  BY DEF Final
<1>2. row[i].state # "unused" /\ row[i].flap > 0 => Earned(row[i].series, row[i].flap, row[i].firedAt)'
  BY EarnedStays DEF RowFits
<1>3. row[i].state # "unused" /\ row[i].flap > 0 =>
        (\E j \in Ids :
           /\ Final(j)' /\ row'[j].series = row'[i].series /\ row'[j].flap + 1 = row'[i].flap
           /\ row'[j].resolvedAt > 0 /\ row'[i].firedAt <= row'[j].resolvedAt + FlapWindow)
  BY EarnedStays DEF RowFits, Earned
<1> QED BY <1>1, <1>3 DEF RowFits, Earned

\* The replica in its cycle moves; the others are idle.
LEMMA OneActs ==
  ASSUME TypeOK, CycleInv, NEW e \in Evaluators, NEW l \in Local, Becomes(e, l),
         UNCHANGED holder, loc[e].pc # "idle",
         \A i \in Ids : RowFits(i)', LocalFits(l)'
  PROVE  CycleInv'
<1>1. loc' = [loc EXCEPT ![e] = l] /\ loc \in [Evaluators -> Local]
  BY DEF Becomes, TypeOK
<1>2. holder = e
  BY DEF CycleInv, HolderOnly
<1>3. ASSUME NEW f \in Evaluators, f # e
      PROVE  loc[f].pc = "idle" /\ loc'[f] = loc[f] /\ loc[f].gone = {}
  BY <1>1, <1>2, <1>3 DEF CycleInv, HolderOnly, LocalFits
<1>4. HolderOnly'
  BY <1>2, <1>3 DEF HolderOnly
<1>5. ASSUME NEW f \in Evaluators
      PROVE  LocalFits(loc[f])'
  <2>1. CASE f = e
    <3>1. loc'[f] = l
      BY <1>1, <2>1
    <3> QED BY <3>1 DEF LocalFits, ToResolve, InstanceFits, Earned, Final
  <2>2. CASE f # e
    BY <1>3, <2>2 DEF LocalFits
  <2> QED BY <2>1, <2>2
<1> QED BY <1>4, <1>5 DEF CycleInv

\* Steps of a cycle that read, wait, or are given up.
LEMMA ReadingKeeps ==
  ASSUME TypeOK, CycleInv, NEW e \in Evaluators,
         \/ Query(e) \/ LoadLive(e) \/ EvalFails(e) \/ EndCycle(e) \/ Crash(e)
         \/ AppendEvent(e) \/ CheckSilence(e) \/ \E s \in Series : CountFlaps(e, s)
  PROVE  CycleInv'
<1> USE AlertAssumption
<1>1. UNCHANGED <<row, sent, holder>>
  BY DEF Query, LoadLive, EvalFails, EndCycle, Crash, AppendEvent, CheckSilence, CountFlaps, envVars
<1>2. loc[e] \in Local /\ LocalFits(loc[e]) /\ \A i \in Ids : RowFits(i)
  BY DEF TypeOK, CycleInv
<1>3. loc[e].pc # "idle"
  BY DEF Query, LoadLive, EvalFails, EndCycle, Crash, AppendEvent, CheckSilence, CountFlaps
<1>4. SUFFICES \E l \in Local : Becomes(e, l) /\ LocalFits(l)
  <2>1. PICK l \in Local : Becomes(e, l) /\ LocalFits(l)
    BY <1>4
  <2>2. LocalFits(l)' /\ \A i \in Ids : RowFits(i)'
    BY <1>1, <1>2, <2>1, SameTable
  <2> QED BY <1>1, <1>3, <2>1, <2>2, OneActs
<1>5. Idle \in Local /\ LocalFits(Idle)
  BY IdleTyped DEF Idle, LocalFits
<1>6. CASE EvalFails(e) \/ EndCycle(e) \/ Crash(e)
  BY <1>5, <1>6 DEF EvalFails, EndCycle, Crash, Finish
<1>7. CASE Query(e)
  <2> DEFINE l == [loc[e] EXCEPT !.pc = "live", !.matched = cond]
  <2>1. l \in Local
    BY <1>2 DEF Local, TypeOK
  <2>2. l.pc = "live" /\ l.gone = loc[e].gone /\ l.live = loc[e].live
    BY <1>2 DEF Local
  <2>3. LocalFits(l)
    BY <1>2, <2>2 DEF LocalFits, ToResolve
  <2> QED BY <1>7, <2>1, <2>3 DEF Query
<1>8. CASE LoadLive(e)
  <2>1. PICK m \in [Series -> Ids \cup {None}] :
          /\ \A s \in Series : IF LiveRows(s) = {} THEN m[s] = None ELSE m[s] \in LiveRows(s)
          /\ Becomes(e, [loc[e] EXCEPT
               !.pc = "work", !.live = m, !.now = clock,
               !.todo = {s \in loc[e].matched : m[s] = None},
               !.gone = {s \in Series \ loc[e].matched : m[s] # None}])
    BY <1>8 DEF LoadLive
  <2> DEFINE td == {s \in loc[e].matched : m[s] = None}
             gn == {s \in Series \ loc[e].matched : m[s] # None}
             l == [loc[e] EXCEPT !.pc = "work", !.live = m, !.now = clock, !.todo = td, !.gone = gn]
  <2>2. clock \in Nat /\ clock > 0 /\ td \in SUBSET Series /\ gn \in SUBSET Series
    BY <1>2 DEF TypeOK, Local
  <2> HIDE DEF td, gn
  <2>3. l \in Local /\ l.pc = "work" /\ l.live = m /\ l.now = clock /\ l.gone = gn
    BY <1>2, <2>2 DEF Local
  <2>4. ASSUME NEW s \in gn
        PROVE  ToResolve(l, s)
    <3>1. m[s] \in Ids /\ Live(m[s]) /\ row[m[s]].series = s
      BY <2>1 DEF gn, LiveRows, LiveOf
    <3>2. sent[m[s]].resolved = 0
      <4>1. sent[m[s]].resolved <= 1 /\ sent[m[s]].resolved # 1
        BY <1>2, <3>1 DEF RowFits, Final, Live, LiveStates
      <4>2. sent[m[s]].resolved \in Nat
        BY <3>1 DEF TypeOK
      <4> QED BY <4>1, <4>2
    <3> QED BY <2>3, <3>1, <3>2 DEF ToResolve, Live, LiveStates
  <2>5. LocalFits(l)
    BY <2>2, <2>3, <2>4 DEF LocalFits
  <2> QED BY <2>1, <2>3, <2>5 DEF td, gn
<1>9. ASSUME NEW s \in Series, CountFlaps(e, s)
      PROVE  \E l \in Local : Becomes(e, l) /\ LocalFits(l)
  <2> DEFINE l(n) == [loc[e] EXCEPT !.pc = "insert", !.cur = s, !.flap = n, !.todo = @ \ {s}]
  <2>1. ASSUME NEW n \in Nat
        PROVE  /\ l(n) \in Local /\ l(n).pc = "insert" /\ l(n).cur = s /\ l(n).flap = n
               /\ l(n).gone = loc[e].gone /\ l(n).live = loc[e].live /\ l(n).now = loc[e].now
    BY <1>2 DEF Local
  <2> HIDE DEF l
  <2>2. ASSUME NEW n \in Nat, n > 0 => Earned(s, n, loc[e].now)
        PROVE  LocalFits(l(n))
    <3>1. loc[e].now > 0
      BY <1>2, <1>9 DEF CountFlaps, LocalFits
    <3> QED BY <1>2, <2>1, <2>2, <3>1 DEF LocalFits, ToResolve
  <2>3. \/ Becomes(e, l(0))
        \/ \E i \in Newest(ResolvedSince(s, Since(e))) : Becomes(e, l(row[i].flap + 1))
    BY <1>9 DEF CountFlaps, l
  <2>4. ASSUME NEW i \in Newest(ResolvedSince(s, Since(e)))
        PROVE  row[i].flap + 1 \in Nat /\ Earned(s, row[i].flap + 1, loc[e].now)
    <3>1. i \in Ids /\ row[i].series = s /\ row[i].state = "resolved" /\ row[i].resolvedAt >= Since(e)
      BY DEF Newest, ResolvedSince
    <3>2. row[i].flap \in Nat /\ row[i].resolvedAt \in Nat /\ loc[e].now \in Nat
      BY <1>2, <3>1 DEF TypeOK, Row, Local
    <3>3. row[i].resolvedAt > 0
      BY <1>2, <3>1 DEF RowFits
    <3>4. loc[e].now <= row[i].resolvedAt + FlapWindow
      BY <3>1, <3>2 DEF Since
    <3> QED BY <3>1, <3>2, <3>3, <3>4 DEF Earned, Final
  <2> QED BY <2>1, <2>2, <2>3, <2>4
<1>10. [loc[e] EXCEPT !.pc = "work", !.cur = None, !.flap = 0, !.inst = None, !.event = "none"] \in Local
  BY <1>2 DEF Local
<1>11. ASSUME loc[e].now > 0
       PROVE  LocalFits([loc[e] EXCEPT !.pc = "work", !.cur = None, !.flap = 0, !.inst = None, !.event = "none"])
  BY <1>2, <1>11 DEF LocalFits, ToResolve, Local
<1>12. CASE AppendEvent(e)
  <2> DEFINE l == [loc[e] EXCEPT !.pc = "silence"]
  <2>1. /\ l \in Local /\ l.pc = "silence" /\ l.now = loc[e].now /\ l.gone = loc[e].gone
        /\ l.live = loc[e].live /\ l.inst = loc[e].inst /\ l.event = loc[e].event
    BY <1>2 DEF Local
  <2>2. loc[e].now > 0 /\ InstanceFits(loc[e])
    BY <1>2, <1>12 DEF AppendEvent, LocalFits
  <2>3. LocalFits(l)
    BY <1>2, <2>1, <2>2 DEF LocalFits, ToResolve, InstanceFits
  <2> QED BY <1>10, <1>11, <1>12, <2>1, <2>2, <2>3 DEF AppendEvent, NextItem
<1>13. CASE CheckSilence(e)
  <2> DEFINE l == [loc[e] EXCEPT !.pc = "publish"]
  <2>1. /\ l \in Local /\ l.pc = "publish" /\ l.now = loc[e].now /\ l.gone = loc[e].gone
        /\ l.live = loc[e].live /\ l.inst = loc[e].inst /\ l.event = loc[e].event
    BY <1>2 DEF Local
  <2>2. loc[e].now > 0 /\ InstanceFits(loc[e])
    BY <1>2, <1>13 DEF CheckSilence, LocalFits
  <2>3. LocalFits(l)
    BY <1>2, <2>1, <2>2 DEF LocalFits, ToResolve, InstanceFits
  <2> QED BY <1>10, <1>11, <1>13, <2>1, <2>2, <2>3 DEF CheckSilence, NextItem
<1> QED
  BY <1>6, <1>7, <1>8, <1>9, <1>12, <1>13

\* On to the next series: the instance in hand is let go.
LEMMA NextItemLocal ==
  ASSUME NEW e \in Evaluators, loc[e] \in Local, NextItem(e)
  PROVE  \E l \in Local :
           /\ Becomes(e, l) /\ l.pc = "work" /\ l.gone = loc[e].gone
           /\ l.live = loc[e].live /\ l.now = loc[e].now
<1> DEFINE l == [loc[e] EXCEPT !.pc = "work", !.cur = None, !.flap = 0, !.inst = None, !.event = "none"]
<1>1. /\ l \in Local /\ l.pc = "work" /\ l.gone = loc[e].gone
      /\ l.live = loc[e].live /\ l.now = loc[e].now
  BY DEF Local
<1>2. Becomes(e, l)
  BY DEF NextItem
<1> HIDE DEF l
<1> QED BY <1>1, <1>2

\* A notice goes out, or is lost.
LEMMA PublishKeeps ==
  ASSUME TypeOK, CycleInv, NEW e \in Evaluators, Publish(e)
  PROVE  CycleInv'
<1> USE AlertAssumption
<1> DEFINE i == loc[e].inst
<1>1. loc[e] \in Local /\ LocalFits(loc[e]) /\ loc[e].pc = "publish"
  BY DEF TypeOK, CycleInv, Publish
<1>2. InstanceFits(loc[e]) /\ loc[e].now > 0 /\ \A s \in loc[e].gone : ToResolve(loc[e], s)
  BY <1>1 DEF LocalFits
<1>3. UNCHANGED <<row, holder>>
  BY DEF Publish, envVars
<1>4. PICK l \in Local :
        /\ Becomes(e, l) /\ l.pc = "work" /\ l.gone = loc[e].gone
        /\ l.live = loc[e].live /\ l.now = loc[e].now
  BY <1>1, NextItemLocal DEF Publish
<1>5. i \in Ids /\ loc[e].event \in {"fired", "flap_start", "resolved"}
  BY <1>1, <1>2 DEF InstanceFits, Local
<1>6. \/ sent' = sent
      \/ loc[e].event = "resolved" /\ sent' = [sent EXCEPT ![i].resolved = @ + 1]
      \/ loc[e].event # "resolved" /\ sent' = [sent EXCEPT ![i].fired = @ + 1]
  BY DEF Publish, SentFor
<1>7. sent \in [Ids -> [fired : Nat, resolved : Nat]]
  BY DEF TypeOK
<1>8. ASSUME NEW k \in Ids
      PROVE  /\ k # i => sent'[k] = sent[k]
             /\ sent'[k].fired = sent[k].fired \/ (k = i /\ loc[e].event # "resolved" /\ sent'[k].fired = sent[k].fired + 1)
             /\ sent'[k].resolved = sent[k].resolved \/ (k = i /\ loc[e].event = "resolved" /\ sent'[k].resolved = sent[k].resolved + 1)
  BY <1>5, <1>6, <1>7
<1>9. ASSUME NEW k \in Ids
      PROVE  RowFits(k)'
  <2>1. RowFits(k)
    BY DEF CycleInv
  <2>2. (row[k].state # "unused" /\ row[k].flap > 0 => Earned(row[k].series, row[k].flap, row[k].firedAt))'
    BY <1>3, <2>1 DEF RowFits, Earned, Final
  <2>3. sent[k].fired \in Nat /\ sent[k].resolved \in Nat
    BY <1>7
  <2>4. k = i => /\ row[k].state # "unused"
                 /\ loc[e].event # "resolved" => sent[k].fired = 0
                 /\ loc[e].event = "resolved" => sent[k].resolved = 0 /\ Final(k)
    BY <1>2, <1>5 DEF InstanceFits
  <2>5. sent'[k].fired <= 1 /\ sent'[k].resolved <= 1
    BY <1>8, <2>1, <2>3, <2>4 DEF RowFits
  <2>6. sent'[k].resolved = 1 => Final(k)
    BY <1>8, <2>1, <2>3, <2>4 DEF RowFits
  <2>7. row[k].state = "unused" => sent'[k].fired = 0 /\ sent'[k].resolved = 0
    BY <1>8, <2>1, <2>4 DEF RowFits
  <2> QED BY <1>3, <2>1, <2>2, <2>5, <2>6, <2>7 DEF RowFits, Final
<1>10. ASSUME NEW s \in loc[e].gone
       PROVE  ToResolve(l, s)'
  <2>1. ToResolve(loc[e], s)
    BY <1>2
  <2>2. loc[e].event = "resolved" => loc[e].live[s] # i
    BY <1>2, <2>1 DEF InstanceFits, ToResolve
  <2>3. sent'[loc[e].live[s]].resolved = 0
    BY <1>8, <2>1, <2>2 DEF ToResolve
  <2> QED BY <1>3, <1>4, <2>1, <2>3 DEF ToResolve
<1>11. LocalFits(l)'
  BY <1>2, <1>4, <1>10 DEF LocalFits
<1> QED
  BY <1>1, <1>3, <1>4, <1>9, <1>11, OneActs

\* One row is rewritten.
LEMMA UpdateKeeps ==
  ASSUME TypeOK, NEW i \in Ids, NEW r, row' = Updated(i, r),
         row[i].state # "unused" =>
           /\ r.state # "unused" /\ r.series = row[i].series
           /\ r.flap = row[i].flap /\ r.firedAt = row[i].firedAt,
         Final(i) => r.state \in {"resolved", "deleted"} /\ r.resolvedAt = row[i].resolvedAt
  PROVE  RowsKept /\ row'[i] = r /\ \A k \in Ids \ {i} : row'[k] = row[k]
<1>1. row'[i] = r /\ \A k \in Ids \ {i} : row'[k] = row[k]
  BY DEF Updated, TypeOK
<1>2. ASSUME NEW k \in Ids, k # i
      PROVE  /\ row[k].state # "unused" =>
                  /\ row'[k].state # "unused" /\ row'[k].series = row[k].series
                  /\ row'[k].flap = row[k].flap /\ row'[k].firedAt = row[k].firedAt
             /\ Final(k) => Final(k)' /\ row'[k].resolvedAt = row[k].resolvedAt
  BY <1>1, <1>2 DEF Final
<1>3. Final(i) => Final(i)' /\ row'[i].resolvedAt = row[i].resolvedAt
  BY <1>1 DEF Final
<1> QED BY <1>1, <1>2, <1>3 DEF RowsKept

LEMMA OneRowFits ==
  ASSUME CycleInv, RowsKept, UNCHANGED sent, NEW i \in Ids, RowFits(i)',
         \A k \in Ids \ {i} : row'[k] = row[k]
  PROVE  \A k \in Ids : RowFits(k)'
<1> SUFFICES ASSUME NEW k \in Ids
             PROVE  RowFits(k)'
  OBVIOUS
<1>1. CASE k = i
  BY <1>1
<1>2. CASE k # i
  BY <1>2, RowStillFits DEF CycleInv
<1> QED BY <1>1, <1>2

LEMMA ToResolveStays ==
  ASSUME RowsKept, UNCHANGED sent, NEW l, NEW s, ToResolve(l, s), row'[l.live[s]].state # "resolved"
  PROVE  ToResolve(l, s)'
BY DEF RowsKept, ToResolve

LEMMA InstanceStays ==
  ASSUME RowsKept, UNCHANGED sent, NEW l, InstanceFits(l),
         row'[l.inst].state = "resolved" => row[l.inst].state = "resolved"
  PROVE  InstanceFits(l)'
<1>1. l.inst \in Ids /\ row[l.inst].state # "unused"
  BY DEF InstanceFits
<1>2. row'[l.inst].state # "unused" /\ row'[l.inst].series = row[l.inst].series /\ (Final(l.inst) => Final(l.inst)')
  BY <1>1 DEF RowsKept
<1> QED BY <1>1, <1>2 DEF InstanceFits

\* Nothing resolves: what a cycle knows of the table is still so.
LEMMA LocalStays ==
  ASSUME RowsKept, UNCHANGED sent, NEW l, LocalFits(l),
         \A k \in Ids : row'[k].state = "resolved" => row[k].state = "resolved"
  PROVE  LocalFits(l)'
<1>1. ASSUME NEW s \in l.gone
      PROVE  ToResolve(l, s)'
  <2>1. ToResolve(l, s)
    BY DEF LocalFits
  <2>2. row'[l.live[s]].state # "resolved"
    BY <2>1 DEF ToResolve
  <2> QED BY <2>1, <2>2, ToResolveStays
<1>2. l.pc = "insert" /\ l.flap > 0 => Earned(l.cur, l.flap, l.now)'
  BY EarnedStays DEF LocalFits
<1>3. l.pc \in {"flap", "event", "silence", "publish"} => InstanceFits(l)'
  <2>1. ASSUME InstanceFits(l)
        PROVE  InstanceFits(l)'
    BY <2>1, InstanceStays DEF InstanceFits
  <2> QED BY <2>1 DEF LocalFits
<1>4. l.pc = "flap" => row'[l.inst].flap >= FlapThreshold
  BY DEF LocalFits, InstanceFits, RowsKept
<1> QED BY <1>1, <1>2, <1>3, <1>4 DEF LocalFits

\* INSERT of a new alert, also when the answer is lost, or its refusal.
LEMMA FireKeeps ==
  ASSUME TypeOK, CycleInv, NEW e \in Evaluators, Fire(e)
  PROVE  CycleInv'
<1> USE AlertAssumption
<1>1. loc[e] \in Local /\ LocalFits(loc[e]) /\ loc[e].pc = "insert"
  BY DEF TypeOK, CycleInv, Fire
<1>2. UNCHANGED <<sent, holder>>
  BY DEF Fire, envVars
<1>3. loc[e].now > 0 /\ loc[e].cur \in Series \cup {None} /\ loc[e].flap \in Nat /\ loc[e].now \in Nat
  BY <1>1 DEF LocalFits, Local
<1>a. [loc[e] EXCEPT !.pc = "work", !.cur = None, !.flap = 0] \in Local
  BY <1>1 DEF Local
<1>4. PICK sk \in Local : sk = [loc[e] EXCEPT !.pc = "work", !.cur = None, !.flap = 0]
  BY <1>a
<1>b. sk.pc = "work" /\ sk.gone = loc[e].gone /\ sk.live = loc[e].live /\ sk.now = loc[e].now
  BY <1>1, <1>4 DEF Local
<1>5. LocalFits(sk)
  BY <1>1, <1>3, <1>b DEF LocalFits, ToResolve
<1>6. CASE row' = row /\ Becomes(e, sk)
  <2>1. LocalFits(sk)' /\ \A i \in Ids : RowFits(i)'
    BY <1>2, <1>5, <1>6, SameTable DEF CycleInv
  <2> QED BY <1>1, <1>2, <1>6, <2>1, OneActs
<1>7. ASSUME NEW i \in Ids, row[i].state = "unused",
             row' = Inserted(i, loc[e].cur, loc[e].flap, loc[e].now)
      PROVE  /\ RowsKept /\ \A k \in Ids : RowFits(k)'
             /\ row'[i].state = "firing" /\ row'[i].flap = loc[e].flap
             /\ \A k \in Ids : row'[k].state = "resolved" => row[k].state = "resolved"
  <2>1. PICK r : r = [state |-> "firing", series |-> loc[e].cur, flap |-> loc[e].flap,
                      acked |-> FALSE, firedAt |-> loc[e].now, resolvedAt |-> 0]
    OBVIOUS
  <2>2. row' = Updated(i, r) /\ ~Final(i)
    BY <1>7, <2>1 DEF Inserted, Final
  <2>3. RowsKept /\ row'[i] = r /\ \A k \in Ids \ {i} : row'[k] = row[k]
    BY <1>7, <2>2, UpdateKeeps
  <2>4. loc[e].flap > 0 => Earned(loc[e].cur, loc[e].flap, loc[e].now)
    BY <1>1 DEF LocalFits
  <2>5. PICK s0, n0, t0 : s0 = loc[e].cur /\ n0 = loc[e].flap /\ t0 = loc[e].now
    OBVIOUS
  <2>6. n0 > 0 => Earned(s0, n0, t0)'
    BY <2>3, <2>4, <2>5, EarnedStays
  <2>7. /\ row'[i].state = "firing" /\ row'[i].flap = n0 /\ row'[i].series = s0 /\ row'[i].firedAt = t0
    BY <2>1, <2>3, <2>5
  <2>8. sent'[i].fired = 0 /\ sent'[i].resolved = 0
    BY <1>2, <1>7 DEF CycleInv, RowFits
  <2>9. RowFits(i)'
    BY <2>6, <2>7, <2>8 DEF RowFits, Earned
  <2>10. \A k \in Ids : RowFits(k)'
    BY <1>2, <2>3, <2>9, OneRowFits
  <2>11. \A k \in Ids : row'[k].state = "resolved" => row[k].state = "resolved"
    BY <2>3, <2>7
  <2> QED BY <2>3, <2>5, <2>7, <2>10, <2>11
<1>8. ASSUME NEW i \in Ids, row[i].state = "unused", Becomes(e, sk),
             row' = Inserted(i, loc[e].cur, loc[e].flap, loc[e].now)
      PROVE  CycleInv'
  <2>1. /\ RowsKept /\ \A k \in Ids : RowFits(k)'
        /\ \A k \in Ids : row'[k].state = "resolved" => row[k].state = "resolved"
    BY <1>7, <1>8
  <2>2. LocalFits(sk)'
    BY <1>2, <1>5, <2>1, LocalStays
  <2> QED BY <1>1, <1>2, <1>8, <2>1, <2>2, OneActs
<1>9. ASSUME NEW i \in Ids, row[i].state = "unused",
             row' = Inserted(i, loc[e].cur, loc[e].flap, loc[e].now),
             Becomes(e, [loc[e] EXCEPT !.inst = i, !.event = "fired",
                                       !.pc = IF loc[e].flap >= FlapThreshold THEN "flap" ELSE "event"])
      PROVE  CycleInv'
  <2>1. /\ RowsKept /\ \A k \in Ids : RowFits(k)'
        /\ row'[i].state = "firing" /\ row'[i].flap = loc[e].flap
        /\ \A k \in Ids : row'[k].state = "resolved" => row[k].state = "resolved"
    BY <1>7, <1>9
  <2>2. PICK p \in {"flap", "event"} : p = IF loc[e].flap >= FlapThreshold THEN "flap" ELSE "event"
    OBVIOUS
  <2>a. [loc[e] EXCEPT !.inst = i, !.event = "fired", !.pc = p] \in Local
    BY <1>1 DEF Local
  <2>b. PICK l \in Local : l = [loc[e] EXCEPT !.inst = i, !.event = "fired", !.pc = p]
    BY <2>a
  <2>3. /\ l.inst = i /\ l.event = "fired" /\ l.pc = p /\ l.gone = loc[e].gone
        /\ l.live = loc[e].live /\ l.now = loc[e].now
    BY <1>1, <2>b DEF Local
  <2>4. ASSUME NEW s \in l.gone
        PROVE  ToResolve(l, s)'
    <3>1. ToResolve(l, s)
      BY <1>1, <2>3 DEF LocalFits, ToResolve
    <3>2. row'[l.live[s]].state # "resolved"
      BY <2>1, <3>1 DEF ToResolve
    <3> QED BY <1>2, <2>1, <3>1, <3>2, ToResolveStays
  <2>5. sent'[i].fired = 0
    BY <1>2, <1>9 DEF CycleInv, RowFits
  <2>6. InstanceFits(l)'
    BY <2>1, <2>3, <2>5 DEF InstanceFits
  <2>7. l.pc = "flap" => row'[i].flap >= FlapThreshold
    BY <2>1, <2>2, <2>3
  <2>8. LocalFits(l)'
    BY <1>3, <2>3, <2>4, <2>6, <2>7 DEF LocalFits
  <2> QED BY <1>1, <1>2, <1>9, <2>1, <2>2, <2>b, <2>8, OneActs
<1>10. \/ row' = row /\ Becomes(e, sk)
       \/ \E i \in Ids :
            /\ row[i].state = "unused" /\ row' = Inserted(i, loc[e].cur, loc[e].flap, loc[e].now)
            /\ \/ Becomes(e, sk)
               \/ Becomes(e, [loc[e] EXCEPT !.inst = i, !.event = "fired",
                                            !.pc = IF loc[e].flap >= FlapThreshold THEN "flap" ELSE "event"])
  BY <1>4 DEF Fire
<1> QED
  BY <1>6, <1>8, <1>9, <1>10

\* The alert just inserted turns flapping: it cannot have resolved meanwhile.
LEMMA SetFlappingKeeps ==
  ASSUME TypeOK, CycleInv, NEW e \in Evaluators, SetFlapping(e)
  PROVE  CycleInv' /\ RowsKept
<1> USE AlertAssumption
<1>0. PICK i : i = loc[e].inst
  OBVIOUS
<1> USE <1>0
<1>1. loc[e] \in Local /\ LocalFits(loc[e]) /\ loc[e].pc = "flap"
  BY DEF TypeOK, CycleInv, SetFlapping
<1>2. UNCHANGED <<sent, holder>>
  BY DEF SetFlapping, envVars
<1>3. InstanceFits(loc[e]) /\ loc[e].event = "fired" /\ row[i].flap >= FlapThreshold /\ loc[e].now > 0
  BY <1>1 DEF LocalFits
<1>4. i \in Ids /\ row[i].state \notin {"unused", "resolved"} /\ sent[i].fired = 0
  BY <1>3 DEF InstanceFits
<1>5. PICK ev \in {"fired", "flap_start"} :
        Becomes(e, [loc[e] EXCEPT !.pc = "event", !.event = ev])
  BY DEF SetFlapping
<1>6. [loc[e] EXCEPT !.pc = "event", !.event = ev] \in Local
  BY <1>1 DEF Local
<1>7. PICK l \in Local : l = [loc[e] EXCEPT !.pc = "event", !.event = ev]
  BY <1>6
<1>8. /\ l.pc = "event" /\ l.event = ev /\ l.inst = i /\ l.gone = loc[e].gone
      /\ l.live = loc[e].live /\ l.now = loc[e].now
  BY <1>1, <1>7 DEF Local
<1>9. LocalFits(l)
  BY <1>1, <1>3, <1>8 DEF LocalFits, ToResolve, InstanceFits
<1>10. \/ row' = row
       \/ row[i].state # "deleted" /\ row' = FlappingRow(i)
  BY DEF SetFlapping
<1>11. CASE row' = row
  <2>1. LocalFits(l)' /\ \A k \in Ids : RowFits(k)'
    BY <1>2, <1>9, <1>11, SameTable DEF CycleInv
  <2>2. RowsKept
    BY <1>11 DEF RowsKept, Final
  <2> QED BY <1>1, <1>2, <1>5, <1>7, <2>1, <2>2, OneActs
<1>12. CASE row[i].state # "deleted" /\ row' = FlappingRow(i)
  <2>1. row[i] \in Row
    BY <1>4 DEF TypeOK
  <2>2. PICK r : r = [row[i] EXCEPT !.state = "flapping"]
    OBVIOUS
  <2>3. /\ r.state = "flapping" /\ r.series = row[i].series /\ r.flap = row[i].flap
        /\ r.firedAt = row[i].firedAt /\ r.resolvedAt = row[i].resolvedAt
    BY <2>1, <2>2 DEF Row
  <2>4. row' = Updated(i, r) /\ ~Final(i)
    BY <1>4, <1>12, <2>2 DEF FlappingRow, Final
  <2>5. RowsKept /\ row'[i] = r /\ \A k \in Ids \ {i} : row'[k] = row[k]
    BY <1>4, <2>3, <2>4, UpdateKeeps
  <2>6. RowFits(i)'
    <3>1. RowFits(i)
      BY <1>4 DEF CycleInv
    <3>2. row[i].flap > 0 => Earned(row[i].series, row[i].flap, row[i].firedAt)
      BY <1>4, <3>1 DEF RowFits
    <3>3. PICK s0, n0, t0 : s0 = row[i].series /\ n0 = row[i].flap /\ t0 = row[i].firedAt
      OBVIOUS
    <3>4. n0 > 0 => Earned(s0, n0, t0)'
      BY <2>5, <3>2, <3>3, EarnedStays
    <3>5. row'[i].state = "flapping" /\ row'[i].series = s0 /\ row'[i].flap = n0 /\ row'[i].firedAt = t0
      BY <2>3, <2>5, <3>3
    <3>6. sent'[i].fired <= 1 /\ sent'[i].resolved <= 1 /\ sent'[i].resolved # 1
      BY <1>2, <2>4, <3>1 DEF RowFits
    <3> QED BY <1>3, <3>3, <3>4, <3>5, <3>6 DEF RowFits, Earned
  <2>7. \A k \in Ids : RowFits(k)'
    BY <1>2, <1>4, <2>5, <2>6, OneRowFits
  <2>8. \A k \in Ids : row'[k].state = "resolved" => row[k].state = "resolved"
    BY <2>3, <2>5
  <2>9. LocalFits(l)'
    BY <1>2, <1>9, <2>5, <2>8, LocalStays
  <2> QED BY <1>1, <1>2, <1>5, <1>7, <2>5, <2>7, <2>9, OneActs
<1> QED
  BY <1>10, <1>11, <1>12

\* An alert whose series no longer matches resolves, also when the answer is
\* lost.
LEMMA ResolveKeeps ==
  ASSUME TypeOK, CycleInv, NEW e \in Evaluators, NEW s \in Series, Resolve(e, s)
  PROVE  CycleInv' /\ RowsKept
<1> USE AlertAssumption
<1>0. PICK i : i = loc[e].live[s]
  OBVIOUS
<1> USE <1>0
<1>1. loc[e] \in Local /\ LocalFits(loc[e]) /\ loc[e].pc = "work" /\ s \in loc[e].gone
  BY DEF TypeOK, CycleInv, Resolve
<1>2. UNCHANGED <<sent, holder>>
  BY DEF Resolve, envVars
<1>3. ToResolve(loc[e], s) /\ loc[e].now > 0
  BY <1>1 DEF LocalFits
<1>4. i \in Ids /\ row[i].series = s /\ row[i].state \notin {"unused", "resolved"} /\ sent[i].resolved = 0
  BY <1>3 DEF ToResolve
<1>5. row[i] \in Row /\ loc[e].now \in Nat
  BY <1>1, <1>4 DEF TypeOK, Local
<1>6. [loc[e] EXCEPT !.gone = @ \ {s}] \in Local
  BY <1>1 DEF Local
<1>7. PICK m \in Local : m = [loc[e] EXCEPT !.gone = @ \ {s}]
  BY <1>6
<1>8. [loc[e] EXCEPT !.pc = "event", !.event = "resolved", !.inst = i, !.gone = @ \ {s}] \in Local
  BY <1>1, <1>4 DEF Local
<1>9. PICK l \in Local : l = [loc[e] EXCEPT !.pc = "event", !.event = "resolved", !.inst = i, !.gone = @ \ {s}]
  BY <1>8
<1>10. /\ m.pc = "work" /\ m.gone = loc[e].gone \ {s} /\ m.live = loc[e].live /\ m.now = loc[e].now
       /\ l.pc = "event" /\ l.event = "resolved" /\ l.inst = i
       /\ l.gone = loc[e].gone \ {s} /\ l.live = loc[e].live /\ l.now = loc[e].now
  BY <1>1, <1>7, <1>9 DEF Local
<1>11. \/ row' = row /\ Becomes(e, m)
       \/ row' = ResolvedRow(i, loc[e].now) /\ (Becomes(e, m) \/ Becomes(e, l))
  BY <1>7, <1>9 DEF Resolve
<1>12. /\ RowsKept /\ \A k \in Ids : RowFits(k)'
       /\ \A k \in Ids \ {i} : row'[k] = row[k]
       /\ row' # row \/ row' = ResolvedRow(i, loc[e].now) => Final(i)'
  <2>1. CASE row' = row
    <3>1. \A k \in Ids : RowFits(k)'
      BY <1>2, <2>1, SameTable DEF CycleInv
    <3>2. RowsKept
      BY <2>1 DEF RowsKept, Final
    <3>3. row' = ResolvedRow(i, loc[e].now) => Final(i)'
      <4>1. CASE Live(i)
        <5>1. ResolvedRow(i, loc[e].now)[i].state = "resolved"
          BY <1>4, <1>5, <4>1 DEF ResolvedRow, Updated, TypeOK, Row
        <5> QED BY <2>1, <5>1, <1>4
      <4>2. CASE ~Live(i)
        BY <2>1, <1>4, <1>5, <4>2 DEF Live, LiveStates, Row, States, Final
      <4> QED BY <4>1, <4>2
    <3> QED BY <2>1, <3>1, <3>2, <3>3
  <2>2. CASE row' # row
    <3>1. Live(i) /\ row' = Updated(i, [row[i] EXCEPT !.state = "resolved", !.resolvedAt = loc[e].now])
      BY <1>11, <2>2 DEF ResolvedRow
    <3>2. PICK r : r = [row[i] EXCEPT !.state = "resolved", !.resolvedAt = loc[e].now]
      OBVIOUS
    <3>3. /\ r.state = "resolved" /\ r.series = row[i].series /\ r.flap = row[i].flap
          /\ r.firedAt = row[i].firedAt /\ r.resolvedAt = loc[e].now
      BY <1>5, <3>2 DEF Row
    <3>4. row' = Updated(i, r) /\ ~Final(i)
      BY <3>1, <3>2 DEF Final, Live, LiveStates
    <3>5. RowsKept /\ row'[i] = r /\ \A k \in Ids \ {i} : row'[k] = row[k]
      BY <1>4, <3>3, <3>4, UpdateKeeps
    <3>6. Final(i)'
      BY <3>3, <3>5 DEF Final
    <3>7. RowFits(i)'
      <4>1. RowFits(i)
        BY <1>4 DEF CycleInv
      <4>2. row[i].flap > 0 => Earned(row[i].series, row[i].flap, row[i].firedAt)
        BY <1>4, <4>1 DEF RowFits
      <4>3. PICK s0, n0, t0 : s0 = row[i].series /\ n0 = row[i].flap /\ t0 = row[i].firedAt
        OBVIOUS
      <4>4. n0 > 0 => Earned(s0, n0, t0)'
        BY <3>5, <4>2, <4>3, EarnedStays
      <4>5. /\ row'[i].state = "resolved" /\ row'[i].series = s0 /\ row'[i].flap = n0
            /\ row'[i].firedAt = t0 /\ row'[i].resolvedAt > 0
        BY <1>3, <3>3, <3>5, <4>3
      <4>6. sent'[i].fired <= 1 /\ sent'[i].resolved <= 1
        BY <1>2, <4>1 DEF RowFits
      <4> QED BY <3>6, <4>4, <4>5, <4>6 DEF RowFits, Earned
    <3>8. \A k \in Ids : RowFits(k)'
      BY <1>2, <1>4, <3>5, <3>7, OneRowFits
    <3> QED BY <3>5, <3>6, <3>8
  <2> QED BY <2>1, <2>2
<1>13. ASSUME NEW x \in loc[e].gone \ {s}
       PROVE  ToResolve(m, x)' /\ ToResolve(l, x)'
  <2>1. ToResolve(m, x) /\ ToResolve(l, x)
    BY <1>1, <1>10 DEF LocalFits, ToResolve
  <2>2. loc[e].live[x] # i
    BY <1>4, <1>10, <2>1 DEF ToResolve
  <2>3. row'[loc[e].live[x]] = row[loc[e].live[x]]
    BY <1>10, <1>12, <2>1, <2>2 DEF ToResolve
  <2> QED BY <1>2, <1>10, <2>1, <2>3 DEF ToResolve
<1>14. LocalFits(m)'
  BY <1>3, <1>10, <1>13 DEF LocalFits
<1>15. CASE Becomes(e, m)
  BY <1>1, <1>2, <1>12, <1>14, <1>15, OneActs
<1>16. CASE row' = ResolvedRow(i, loc[e].now) /\ Becomes(e, l)
  <2>1. row'[i].state # "unused" /\ row'[i].series = s
    BY <1>4, <1>12 DEF RowsKept
  <2>2. InstanceFits(l)'
    BY <1>2, <1>4, <1>10, <1>12, <1>16, <2>1 DEF InstanceFits
  <2>3. LocalFits(l)'
    BY <1>3, <1>10, <1>13, <2>2 DEF LocalFits
  <2> QED BY <1>1, <1>2, <1>12, <1>16, <2>3, OneActs
<1> QED
  BY <1>11, <1>15, <1>16

\* Operators, and the rule's deletion, at any point of a cycle.
LEMMA ApiKeeps ==
  ASSUME TypeOK, CycleInv, (\E i \in Ids : Ack(i) \/ Unack(i)) \/ DeleteRule
  PROVE  CycleInv' /\ RowsKept
<1> USE AlertAssumption
<1>1. UNCHANGED <<sent, holder, loc>>
  BY DEF Ack, Unack, DeleteRule
<1>2. ASSUME NEW i \in Ids
      PROVE  /\ row'[i].series = row[i].series /\ row'[i].flap = row[i].flap
             /\ row'[i].firedAt = row[i].firedAt /\ row'[i].resolvedAt = row[i].resolvedAt
             /\ row'[i].state = "unused" <=> row[i].state = "unused"
             /\ row'[i].state = "resolved" => row[i].state = "resolved"
             /\ row'[i].state = "flapping" => row[i].state = "flapping"
             /\ Final(i) => row'[i].state \in {"resolved", "deleted"}
  <2>1. row[i] \in Row /\ row \in [Ids -> Row]
    BY DEF TypeOK
  <2>2. ASSUME NEW k \in Ids, Ack(k)
        PROVE  row'[i] = row[i] \/ (row[i].state \in {"firing", "flapping"}
                 /\ row'[i] = [row[i] EXCEPT !.state = "acknowledged", !.acked = TRUE])
    BY <2>1, <2>2 DEF Ack, Ackable, Updated
  <2>3. ASSUME NEW k \in Ids, Unack(k)
        PROVE  row'[i] = row[i] \/ (row[i].state = "acknowledged"
                 /\ row'[i] = [row[i] EXCEPT !.state = "firing", !.acked = FALSE])
    BY <2>1, <2>3 DEF Unack, Updated
  <2>4. CASE DeleteRule
    BY <2>1, <2>4 DEF DeleteRule, Row, Final
  <2>5. CASE row'[i] = row[i]
    BY <2>5 DEF Final
  <2>6. CASE /\ row[i].state \in {"firing", "flapping"}
             /\ row'[i] = [row[i] EXCEPT !.state = "acknowledged", !.acked = TRUE]
    BY <2>1, <2>6 DEF Row, Final
  <2>7. CASE /\ row[i].state = "acknowledged"
             /\ row'[i] = [row[i] EXCEPT !.state = "firing", !.acked = FALSE]
    BY <2>1, <2>7 DEF Row, Final
  <2> QED BY <2>2, <2>3, <2>4, <2>5, <2>6, <2>7
<1>3. RowsKept
  BY <1>2 DEF RowsKept, Final
<1>4. ASSUME NEW i \in Ids
      PROVE  RowFits(i)'
  <2>1. RowFits(i)
    BY DEF CycleInv
  <2>2. PICK s0, n0, t0 : s0 = row[i].series /\ n0 = row[i].flap /\ t0 = row[i].firedAt
    OBVIOUS
  <2>3. row[i].state # "unused" /\ n0 > 0 => Earned(s0, n0, t0)'
    BY <1>3, <2>1, <2>2, EarnedStays DEF RowFits
  <2>4. row'[i].series = s0 /\ row'[i].flap = n0 /\ row'[i].firedAt = t0
    BY <1>2, <2>2
  <2>5. sent'[i] = sent[i]
    BY <1>1
  <2>6. Final(i) => Final(i)'
    BY <1>2 DEF Final
  <2>7. row'[i].resolvedAt = row[i].resolvedAt
    BY <1>2
  <2> QED BY <1>2, <2>1, <2>2, <2>3, <2>4, <2>5, <2>6, <2>7 DEF RowFits, Earned
<1>5. ASSUME NEW e \in Evaluators
      PROVE  LocalFits(loc[e])'
  <2>1. PICK l : l = loc[e] /\ LocalFits(l)
    BY DEF CycleInv
  <2>2. LocalFits(l)'
    BY <1>1, <1>2, <1>3, <2>1, LocalStays
  <2>3. loc'[e] = l
    BY <1>1, <2>1
  <2> QED BY <2>2, <2>3 DEF LocalFits, ToResolve, InstanceFits, Earned, Final
<1> QED
  BY <1>1, <1>3, <1>4, <1>5 DEF CycleInv, HolderOnly

\* Steps that touch neither the table nor a cycle under way, and the start of
\* a cycle.
LEMMA AroundKeeps ==
  ASSUME ~LeaseLapses, TypeOK, CycleInv, UNCHANGED <<row, sent>>,
         \/ UNCHANGED <<holder, loc>> \/ LeaseExpires
         \/ \E e \in Evaluators : StartCycle(e)
  PROVE  CycleInv'
<1> USE AlertAssumption
<1>1. \A i \in Ids : RowFits(i)'
  BY SameTable DEF CycleInv
<1>2. ASSUME NEW f \in Evaluators, loc'[f] = loc[f]
      PROVE  LocalFits(loc[f])'
  <2>1. PICK l : l = loc[f] /\ LocalFits(l)
    BY DEF CycleInv
  <2>2. LocalFits(l)' /\ loc'[f] = l
    BY <1>2, <2>1, SameTable
  <2> QED BY <2>2 DEF LocalFits, ToResolve, InstanceFits, Earned, Final
<1>3. CASE UNCHANGED <<holder, loc>>
  BY <1>1, <1>2, <1>3 DEF CycleInv, HolderOnly
<1>4. CASE LeaseExpires
  <2>1. holder \in Evaluators /\ loc[holder].pc = "idle" /\ loc' = loc
    BY <1>4 DEF LeaseExpires, TypeOK
  <2>2. \A f \in Evaluators : loc[f].pc = "idle"
    BY <2>1 DEF CycleInv, HolderOnly
  <2>3. HolderOnly'
    BY <2>1, <2>2 DEF HolderOnly
  <2> QED BY <1>1, <1>2, <2>1, <2>3 DEF CycleInv
<1>5. ASSUME NEW e \in Evaluators, StartCycle(e)
      PROVE  CycleInv'
  <2>1. loc[e].pc = "idle" /\ holder \in {None, e} /\ holder' = e
    BY <1>5 DEF StartCycle
  <2>2. \A f \in Evaluators : loc[f].pc = "idle"
    BY <2>1 DEF CycleInv, HolderOnly
  <2>3. PICK p \in {"query", "idle"} : loc' = [loc EXCEPT ![e] = [loc[e] EXCEPT !.pc = p]]
    BY <1>5 DEF StartCycle, Becomes
  <2>4. loc[e] \in Local /\ loc[e].gone = {} /\ loc \in [Evaluators -> Local]
    BY <2>1 DEF TypeOK, CycleInv, LocalFits
  <2>5. /\ loc'[e] = [loc[e] EXCEPT !.pc = p]
        /\ \A f \in Evaluators \ {e} : loc'[f] = loc[f]
    BY <2>3, <2>4
  <2>6. loc'[e].pc = p /\ loc'[e].gone = {}
    BY <2>4, <2>5 DEF Local
  <2>7. LocalFits(loc[e])'
    BY <2>6 DEF LocalFits
  <2>8. HolderOnly'
    BY <2>1, <2>2, <2>5 DEF HolderOnly
  <2>9. \A f \in Evaluators : LocalFits(loc[f])'
    BY <1>2, <2>5, <2>7
  <2> QED BY <1>1, <2>8, <2>9 DEF CycleInv
<1> QED
  BY <1>3, <1>4, <1>5

\* The invariant of one cycle at a time, over every step; and rows are kept.
LEMMA CycleStep ==
  ASSUME ~LeaseLapses, TypeOK, CycleInv, [Next]_vars
  PROVE  CycleInv' /\ RowsKept
<1>1. CASE row' = row
  <2>1. RowsKept
    BY <1>1 DEF RowsKept, Final
  <2>2. CASE UNCHANGED vars \/ Tick \/ LeaseExpires \/ \E s \in Series : CondChanges(s)
    BY <2>1, <2>2, AroundKeeps DEF vars, envVars, Tick, LeaseExpires, CondChanges
  <2>3. ASSUME NEW e \in Evaluators, StartCycle(e) \/ Step(e) \/ Crash(e)
        PROVE  CycleInv'
    <3>1. CASE StartCycle(e)
      BY <3>1, AroundKeeps DEF StartCycle
    <3> QED
      BY <2>3, <3>1, ReadingKeeps, PublishKeeps, FireKeeps, SetFlappingKeeps, ResolveKeeps DEF Step
  <2>4. CASE Api
    <3>1. CASE \/ \E s \in Series : CreateSilence(s) \/ SilenceEnds(s)
               \/ \E b \in BOOLEAN : SetRuleEnabled(b)
      <4>1. UNCHANGED <<row, sent>> /\ UNCHANGED <<holder, loc>>
        BY <3>1 DEF CreateSilence, SilenceEnds, SetRuleEnabled
      <4> QED BY <2>1, <4>1, AroundKeeps
    <3>2. CASE (\E i \in Ids : Ack(i) \/ Unack(i)) \/ DeleteRule
      BY <3>2, ApiKeeps
    <3> QED BY <2>4, <3>1, <3>2 DEF Api
  <2> QED BY <2>1, <2>2, <2>3, <2>4 DEF Next
<1>2. CASE row' # row
  <2>1. ASSUME NEW e \in Evaluators, Fire(e)
        PROVE  CycleInv' /\ RowsKept
    <3>1. PICK i \in Ids : row[i].state = "unused" /\ row' = Inserted(i, loc[e].cur, loc[e].flap, loc[e].now)
      BY <1>2, <2>1 DEF Fire
    <3>2. PICK r : row' = Updated(i, r)
      BY <3>1 DEF Inserted
    <3>3. RowsKept
      BY <3>1, <3>2, UpdateKeeps DEF Final
    <3> QED BY <2>1, <3>3, FireKeeps
  <2>2. \/ \E e \in Evaluators : Fire(e) \/ SetFlapping(e) \/ \E s \in Series : Resolve(e, s)
        \/ (\E i \in Ids : Ack(i) \/ Unack(i)) \/ DeleteRule
    BY <1>2 DEF Next, vars, Step, Api, Tick, LeaseExpires, CondChanges, StartCycle,
       Crash, Query, LoadLive, EvalFails, CountFlaps, AppendEvent,
       CheckSilence, Publish, EndCycle, CreateSilence, SilenceEnds, SetRuleEnabled
  <2> QED BY <2>1, <2>2, SetFlappingKeeps, ResolveKeeps, ApiKeeps
<1> QED
  BY <1>1, <1>2

LEMMA CycleInvariant ==
  ASSUME ~LeaseLapses
  PROVE  Spec => []CycleInv
<1>1. Init => CycleInv
  <2> SUFFICES ASSUME Init
               PROVE  CycleInv
    OBVIOUS
  <2>1. ASSUME NEW e \in Evaluators
        PROVE  loc[e].pc = "idle" /\ loc[e].gone = {}
    BY DEF Init, Empty, Idle
  <2>2. ASSUME NEW i \in Ids
        PROVE  RowFits(i)
    BY DEF Init, Empty, Unused, RowFits
  <2> QED BY <2>1, <2>2 DEF CycleInv, HolderOnly, LocalFits
<1>2. TypeOK /\ CycleInv /\ [Next]_vars => CycleInv'
  BY CycleStep
<1> QED
  BY <1>1, <1>2, AlertsTyped, PTL DEF Spec

\* While the lease outlasts every cycle, a resolved alert stays resolved until
\* its rule is deleted, for any number of replicas taking over from each
\* other, operators acknowledging at any point of a cycle, failed statements
\* and crashes.  With LeaseLapses it does not hold (run alerts_resurrect).
THEOREM ResolvedStays ==
  ASSUME ~LeaseLapses
  PROVE  Spec => ResolvedIsFinal
<1>1. TypeOK /\ CycleInv /\ [Next]_vars =>
        [\A i \in Ids : row[i].state = "resolved" => row'[i].state \in {"resolved", "deleted"}]_vars
  BY CycleStep DEF RowsKept, Final
<1> QED
  BY <1>1, CycleInvariant, AlertsTyped, PTL DEF Spec, ResolvedIsFinal

\* While the lease outlasts every cycle, each alert is announced at most once
\* as fired and at most once as resolved, the latter only once it is settled
\* for good.
THEOREM AnnouncedOnce ==
  ASSUME ~LeaseLapses
  PROVE  Spec => []NoticesOnce
<1>1. CycleInv => NoticesOnce
  BY DEF CycleInv, RowFits, Final, NoticesOnce
<1> QED
  BY <1>1, CycleInvariant, PTL

\* While the lease outlasts every cycle, flap counts are earned, whatever the
\* window and the threshold.
THEOREM FlapsAreEarned ==
  ASSUME ~LeaseLapses
  PROVE  Spec => []FlapChain
<1>1. TypeOK /\ CycleInv => FlapChain
  <2> SUFFICES ASSUME TypeOK, CycleInv, NEW i \in Ids, row[i].state # "unused"
               PROVE  /\ row[i].flap > 0 =>
                           \E j \in Ids \ {i} :
                             /\ row[j].series = row[i].series
                             /\ row[j].flap + 1 = row[i].flap
                             /\ row[j].resolvedAt > 0
                             /\ row[i].firedAt <= row[j].resolvedAt + FlapWindow
                      /\ row[i].state = "flapping" => row[i].flap >= FlapThreshold
    BY DEF FlapChain
  <2>1. RowFits(i) /\ row[i].flap \in Nat
    BY DEF CycleInv, TypeOK, Row
  <2>2. ASSUME row[i].flap > 0
        PROVE  \E j \in Ids \ {i} :
                 /\ row[j].series = row[i].series
                 /\ row[j].flap + 1 = row[i].flap
                 /\ row[j].resolvedAt > 0
                 /\ row[i].firedAt <= row[j].resolvedAt + FlapWindow
    <3>1. PICK j \in Ids : /\ row[j].series = row[i].series
                           /\ row[j].flap + 1 = row[i].flap
                           /\ row[j].resolvedAt > 0
                           /\ row[i].firedAt <= row[j].resolvedAt + FlapWindow
      BY <2>1, <2>2 DEF RowFits, Earned
    <3>2. j # i
      BY <2>1, <3>1
    <3> QED BY <3>1, <3>2
  <2> QED BY <2>1, <2>2 DEF RowFits
<1> QED
  BY <1>1, CycleInvariant, AlertsTyped, PTL

-----------------------------------------------------------------------------
(* Silences.                                                               *)

MutedBy(scopes, labels) == \E scope \in scopes : scope # {} /\ scope \subseteq labels

\* How an alert with these labels is announced under the silences read, or
\* not at all when it is flapping.
Told(how, labels) ==
  IF how.flapping = TRUE \/ MutedBy(how.under, labels) THEN how.out = FALSE ELSE how.out = TRUE

WorkFields == {"pc", "rule", "ifaces", "live", "todo", "gone"}

\* What has been announced of the alerts that are to resolve was announced
\* under the labels the resolution will carry.
WorkFits(w, said) ==
  /\ DOMAIN w = WorkFields /\ w.pc = "work" /\ w.todo \cap w.gone = {}
  /\ \A s \in w.gone : s \in DOMAIN said => Told(said[s], w.live[s])

NotifyFits ==
  LET s == eval.about
  IN eval.pc = "notify" =>
       /\ DOMAIN eval = {"after", "pc", "event", "about", "labels", "flapping"}
       /\ WorkFits(eval.after, heard) /\ s \notin eval.after.gone
       /\ eval.event \in {"fired", "resolved"}
       /\ eval.flapping = FALSE \/ (eval.flapping = TRUE /\ eval.event = "fired")
       /\ eval.event = "fired" /\ s \in DOMAIN firing => firing[s] = eval.labels
       /\ eval.event = "resolved" /\ s \in DOMAIN heard => Told(heard[s], eval.labels)

NewsFits ==
  news # NoNews => \E labels : /\ Told(news.now, labels) /\ news.now.flapping = FALSE
                               /\ Told(news.before, labels)

SilenceFits ==
  /\ \A s \in DOMAIN heard : s \in DOMAIN firing => Told(heard[s], firing[s])
  /\ eval.pc = "work" => WorkFits(eval, heard)
  /\ NotifyFits /\ NewsFits

\* A step that leaves the alerts, the evaluator and what was said alone.
LEMMA OutsideKeeps ==
  ASSUME SilenceFits, UNCHANGED <<firing, eval, heard, news>>
  PROVE  SilenceFits'
BY DEF SilenceFits, NotifyFits, NewsFits, WorkFits

\* The evaluator steps from one local state to another.
LEMMA QuietStep ==
  ASSUME SilenceFits, Quietly, UNCHANGED <<firing, heard>>, eval'.pc # "notify",
         eval'.pc = "work" => WorkFits(eval', heard')
  PROVE  SilenceFits'
BY DEF SilenceFits, NotifyFits, NewsFits, Quietly

LEMMA LoadSaid ==
  ASSUME SilenceFits, LoadAlerts
  PROVE  SilenceFits'
<1>1. /\ DOMAIN eval' = WorkFields /\ eval'.pc = "work" /\ eval'.live = firing
      /\ eval'.todo = eval.kept \ DOMAIN firing /\ eval'.gone = DOMAIN firing \ eval.kept
  BY DEF LoadAlerts, WorkFields
<1>2. UNCHANGED <<firing, heard>> /\ Quietly
  BY DEF LoadAlerts
<1>3. WorkFits(eval', heard')
  BY <1>1, <1>2 DEF WorkFits, SilenceFits
<1> QED BY <1>1, <1>2, <1>3, QuietStep

LEMMA FireSaid ==
  ASSUME SilenceFits, NEW s \in AlertSeries, FireAlert(s)
  PROVE  SilenceFits'
<1> PICK w : w = [eval EXCEPT !.todo = @ \ {s}]
  OBVIOUS
<1>1. /\ eval.pc = "work" /\ s \in eval.todo /\ WorkFits(eval, heard)
      /\ heard' = Without(heard, s) /\ Quietly
  BY DEF FireAlert, SilenceFits
<1>2. DOMAIN heard' = DOMAIN heard \ {s} /\ \A x \in DOMAIN heard' : heard'[x] = heard[x]
  BY <1>1 DEF Without
<1>3. /\ DOMAIN w = WorkFields /\ w.pc = "work" /\ w.todo = eval.todo \ {s}
      /\ w.gone = eval.gone /\ w.live = eval.live
  BY <1>1 DEF WorkFits, WorkFields
<1>4. WorkFits(w, heard') /\ s \notin w.gone
  BY <1>1, <1>2, <1>3 DEF WorkFits
<1>5. CASE eval' = w /\ UNCHANGED firing
  BY <1>1, <1>2, <1>3, <1>4, <1>5 DEF SilenceFits, NotifyFits, NewsFits, Quietly
<1>6. ASSUME NEW labels, NEW flapping \in BOOLEAN, Fired(s, labels),
             eval' = [after |-> w, pc |-> "notify", event |-> "fired", about |-> s, labels |-> labels,
                      flapping |-> flapping]
      PROVE  SilenceFits'
  <2>1. /\ DOMAIN firing' = DOMAIN firing \cup {s} /\ firing'[s] = labels
        /\ \A x \in DOMAIN firing : x # s => firing'[x] = firing[x]
    BY <1>6 DEF Fired, Having
  <2>2. \A x \in DOMAIN heard' : x \in DOMAIN firing' => Told(heard'[x], firing'[x])
    BY <1>2, <2>1 DEF SilenceFits
  <2>3. NotifyFits'
    <3>1. CASE flapping = TRUE
      BY <1>4, <1>6, <2>1, <3>1 DEF NotifyFits
    <3>2. CASE flapping = FALSE
      BY <1>4, <1>6, <2>1, <3>2 DEF NotifyFits
    <3> QED BY <3>1, <3>2
  <2> QED BY <1>1, <1>6, <2>2, <2>3 DEF SilenceFits, NewsFits, Quietly
<1> QED BY <1>5, <1>6 DEF FireAlert

LEMMA ResolveSaid ==
  ASSUME SilenceFits, NEW s \in AlertSeries, ResolveAlert(s)
  PROVE  SilenceFits'
<1> PICK w : w = [eval EXCEPT !.gone = @ \ {s}]
  OBVIOUS
<1>1. /\ eval.pc = "work" /\ s \in eval.gone /\ WorkFits(eval, heard)
      /\ UNCHANGED heard /\ Quietly /\ firing' = Without(firing, s)
      /\ eval' = [after |-> w, pc |-> "notify", event |-> "resolved", about |-> s, labels |-> eval.live[s],
                  flapping |-> FALSE]
  BY DEF ResolveAlert, SilenceFits
<1>2. DOMAIN firing' \subseteq DOMAIN firing /\ \A x \in DOMAIN firing' : firing'[x] = firing[x]
  BY <1>1 DEF Without
<1>3. /\ DOMAIN w = WorkFields /\ w.pc = "work" /\ w.todo = eval.todo
      /\ w.gone = eval.gone \ {s} /\ w.live = eval.live
  BY <1>1 DEF WorkFits, WorkFields
<1>4. WorkFits(w, heard') /\ s \notin w.gone
  BY <1>1, <1>3 DEF WorkFits
<1>5. NotifyFits'
  <2>1. /\ DOMAIN eval' = {"after", "pc", "event", "about", "labels", "flapping"}
        /\ eval'.after = w /\ eval'.event = "resolved" /\ eval'.about = s
        /\ eval'.labels = eval.live[s] /\ eval'.flapping = FALSE
    BY <1>1
  <2>2. s \in DOMAIN heard => Told(heard[s], eval.live[s])
    BY <1>1 DEF WorkFits
  <2> QED BY <1>1, <1>4, <2>1, <2>2 DEF NotifyFits
<1> QED BY <1>1, <1>2, <1>5 DEF SilenceFits, NewsFits, Quietly

LEMMA HowTold ==
  ASSUME NEW labels, NEW how, NEW answered \in BOOLEAN, NEW flapping \in BOOLEAN,
         answered = TRUE \/ flapping = TRUE,
         how = [out |-> ~flapping /\ ~(answered /\ Silenced(labels)), under |-> muted, flapping |-> flapping]
  PROVE  Told(how, labels) /\ how.flapping = flapping
<1>1. Silenced(labels) <=> MutedBy(muted, labels)
  BY DEF Silenced, MutedBy
<1>2. CASE flapping = TRUE
  <2>1. how = [out |-> FALSE, under |-> muted, flapping |-> TRUE]
    BY <1>2, Zenon
  <2> QED BY <1>2, <2>1 DEF Told
<1>3. CASE flapping = FALSE /\ Silenced(labels)
  <2>1. answered = TRUE
    BY <1>3
  <2>2. how = [out |-> FALSE, under |-> muted, flapping |-> FALSE]
    BY <1>3, <2>1, Zenon
  <2> QED BY <1>1, <1>3, <2>2 DEF Told
<1>4. CASE flapping = FALSE /\ ~Silenced(labels)
  <2>1. how = [out |-> TRUE, under |-> muted, flapping |-> FALSE]
    BY <1>4, Zenon
  <2> QED BY <1>1, <1>4, <2>1 DEF Told
<1> QED BY <1>2, <1>3, <1>4

LEMMA NotifySaid ==
  ASSUME SilenceFits, NEW answered \in BOOLEAN, Notify(answered)
  PROVE  SilenceFits'
<1> PICK s, labels, w : s = eval.about /\ labels = eval.labels /\ w = eval.after
  OBVIOUS
<1> PICK flapping : flapping = eval.flapping
  OBVIOUS
<1> PICK how : how = [out |-> ~flapping /\ ~(answered /\ Silenced(labels)), under |-> muted,
                      flapping |-> flapping]
  OBVIOUS
<1>0. flapping = FALSE \/ (flapping = TRUE /\ eval.event = "fired")
  BY DEF Notify, SilenceFits, NotifyFits
<1>1. /\ WorkFits(w, heard) /\ s \notin w.gone
      /\ eval.event = "fired" /\ s \in DOMAIN firing => firing[s] = labels
      /\ eval.event = "resolved" /\ s \in DOMAIN heard => Told(heard[s], labels)
  BY DEF Notify, SilenceFits, NotifyFits
<1>2. eval' = w /\ UNCHANGED firing /\ w.pc = "work"
  BY <1>1 DEF Notify, WorkFits
<1>3. ASSUME answered = TRUE \/ flapping = TRUE PROVE Told(how, labels) /\ how.flapping = flapping
  BY <1>0, <1>3, HowTold
<1>4. CASE eval.event = "fired" /\ Quietly /\ heard' = IF answered \/ flapping THEN Having(heard, s, how) ELSE heard
  <2>1. CASE answered = FALSE /\ flapping = FALSE
    <3>1. UNCHANGED heard
      BY <1>4, <2>1
    <3> QED BY <1>1, <1>2, <1>4, <3>1, QuietStep
  <2>2. CASE answered = TRUE \/ flapping = TRUE
    <3>1. heard' = Having(heard, s, how)
      BY <1>4, <2>2
    <3>2. /\ DOMAIN heard' = DOMAIN heard \cup {s} /\ heard'[s] = how
          /\ \A x \in DOMAIN heard : x # s => heard'[x] = heard[x]
      BY <3>1 DEF Having
    <3>3. Told(how, labels)
      BY <1>3, <2>2
    <3>4. \A x \in DOMAIN heard' : x \in DOMAIN firing' => Told(heard'[x], firing'[x])
      BY <1>1, <1>2, <1>4, <3>2, <3>3 DEF SilenceFits
    <3>5. WorkFits(w, heard')
      BY <1>1, <3>2 DEF WorkFits
    <3> QED BY <1>2, <1>4, <3>4, <3>5 DEF SilenceFits, NotifyFits, NewsFits, Quietly
  <2> QED BY <1>0, <2>1, <2>2
<1>5. CASE /\ eval.event = "resolved" /\ heard' = Without(heard, s)
           /\ news' = IF answered /\ s \in DOMAIN heard THEN [now |-> how, before |-> heard[s]] ELSE NoNews
  <2>1. DOMAIN heard' \subseteq DOMAIN heard /\ \A x \in DOMAIN heard' : heard'[x] = heard[x]
    BY <1>5 DEF Without
  <2>2. WorkFits(w, heard')
    BY <1>1, <2>1 DEF WorkFits
  <2>3. NewsFits'
    <3>1. CASE answered = TRUE /\ s \in DOMAIN heard
      <4>1. news'.now = how /\ news'.before = heard[s]
        BY <1>5, <3>1
      <4>2. flapping = FALSE
        BY <1>0, <1>5
      <4> QED BY <1>1, <1>3, <1>5, <3>1, <4>1, <4>2 DEF NewsFits
    <3>2. CASE ~(answered = TRUE /\ s \in DOMAIN heard)
      BY <1>5, <3>2 DEF NewsFits
    <3> QED BY <3>1, <3>2
  <2> QED BY <1>2, <2>1, <2>2, <2>3 DEF SilenceFits, NotifyFits
<1>6. \/ eval.event = "fired" /\ Quietly /\ heard' = IF answered \/ flapping THEN Having(heard, s, how) ELSE heard
      \/ /\ eval.event = "resolved" /\ heard' = Without(heard, s)
         /\ news' = IF answered /\ s \in DOMAIN heard THEN [now |-> how, before |-> heard[s]] ELSE NoNews
  BY Zenon DEF Notify
<1> QED BY <1>4, <1>5, <1>6

LEMMA SilenceStep ==
  SilenceFits /\ [NoiseNext]_noiseVars => SilenceFits'
<1> SUFFICES ASSUME SilenceFits, [NoiseNext]_noiseVars PROVE SilenceFits'
  OBVIOUS
<1>1. CASE StartEval \/ QueryRule \/ EndEval \/ EvalStops \/ \E answered \in BOOLEAN : ReadInterfaces(answered)
  <2>1. Quietly /\ UNCHANGED <<firing, heard>>
    BY <1>1 DEF StartEval, QueryRule, EndEval, EvalStops, ReadInterfaces
  <2>2. eval'.pc \in {"query", "noise", "live", "rest"}
    BY <1>1 DEF StartEval, QueryRule, EndEval, EvalStops, ReadInterfaces, AtRest
  <2> QED BY <2>1, <2>2, QuietStep
<1>2. CASE IdleCycle
  <2>1. Quietly /\ UNCHANGED <<firing, heard, eval>> /\ eval.pc = "rest"
    BY <1>2 DEF IdleCycle, AtRest
  <2> QED BY <2>1, QuietStep
<1>3. CASE LoadAlerts
  BY <1>3, LoadSaid
<1>4. CASE \E answered \in BOOLEAN : Notify(answered)
  BY <1>4, NotifySaid
<1>5. CASE \E s \in AlertSeries : FireAlert(s) \/ ResolveAlert(s)
  BY <1>5, FireSaid, ResolveSaid
<1>6. CASE DeleteAlertRule
  <2>1. DOMAIN firing' = {} /\ DOMAIN heard' = {} /\ UNCHANGED <<eval, news>>
    BY <1>6 DEF DeleteAlertRule
  <2> QED BY <2>1 DEF SilenceFits, NotifyFits, NewsFits, WorkFits
<1>7. CASE \/ \E s \in AlertSeries : BreachChanges(s)
           \/ \E in \in RuleInput : CreateAlertRule(in) \/ UpdateAlertRule(in)
           \/ \E scope \in Scopes : MuteScope(scope) \/ MuteEnds(scope)
           \/ \E p \in AlertPorts, name \in IfNames : PortChanges(p, name)
           \/ \E d \in Claimants : ClaimChanges(d)
  <2>1. UNCHANGED <<firing, eval, heard, news>>
    BY <1>7, Zenon DEF BreachChanges, CreateAlertRule, UpdateAlertRule, MuteScope, MuteEnds, PortChanges, ClaimChanges
  <2> QED BY <2>1, OutsideKeeps
<1>8. CASE UNCHANGED noiseVars
  BY <1>8, OutsideKeeps DEF noiseVars
<1> QED BY <1>1, <1>2, <1>3, <1>4, <1>5, <1>6, <1>7, <1>8 DEF NoiseNext

\* Whoever was told that an alert fired is told that it resolved, and whoever
\* was not is not, unless silences changed in between or could not be read, or
\* the alert was flapping when it fired, for any scopes, labels and order of edits: the resolution is judged
\* on the labels Fire stored (Evaluator.notify, Store.Silenced).
THEOREM NoticesPair == NoiseSpec => []SilenceHolds
<1>1. NoiseInit => SilenceFits
  <2> SUFFICES ASSUME NoiseInit PROVE SilenceFits
    OBVIOUS
  <2>1. DOMAIN heard = {} /\ eval.pc = "rest" /\ news = NoNews
    BY DEF NoiseInit, AtRest
  <2> QED BY <2>1 DEF SilenceFits, NotifyFits, NewsFits
<1>2. SilenceFits => SilenceHolds
  <2> SUFFICES ASSUME SilenceFits, news # NoNews
               PROVE  /\ news.now.out /\ ~news.before.out /\ ~news.before.flapping => ~(news.before.under \subseteq news.now.under)
                      /\ ~news.now.out /\ news.before.out => ~(news.now.under \subseteq news.before.under)
    BY DEF SilenceHolds
  <2> PICK labels : Told(news.now, labels) /\ news.now.flapping = FALSE /\ Told(news.before, labels)
    BY DEF SilenceFits, NewsFits
  <2> PICK now, before : now = news.now /\ before = news.before
    OBVIOUS
  <2>1. /\ now.under \subseteq before.under => (MutedBy(now.under, labels) => MutedBy(before.under, labels))
        /\ before.under \subseteq now.under => (MutedBy(before.under, labels) => MutedBy(now.under, labels))
    BY DEF MutedBy
  <2>2. /\ MutedBy(now.under, labels) => now.out = FALSE
        /\ ~MutedBy(now.under, labels) => now.out = TRUE
        /\ MutedBy(before.under, labels) => before.out = FALSE
        /\ ~MutedBy(before.under, labels) /\ ~before.flapping => before.out = TRUE
    BY Zenon DEF Told
  <2> QED BY <2>1, <2>2, Zenon
<1> QED BY <1>1, <1>2, SilenceStep, PTL DEF NoiseSpec

-----------------------------------------------------------------------------
(* Noise.                                                                  *)

LEMMA FirstOf ==
  ASSUME NEW A \in SUBSET Nat, A # {}
  PROVE  \E m \in A : \A x \in A : m <= x
<1> DEFINE R == OpToRel(<, Nat)
<1>1. IsWellFoundedOn(R, Nat)
  BY NatLessThanWellFounded
<1>2. \A x, y \in Nat : x < y => <<x, y>> \in R
  BY DEF OpToRel
<1> HIDE DEF R
<1>3. PICK m \in A : \A y \in A : ~(<<y, m>> \in R)
  BY <1>1, WFMin
<1>4. ASSUME NEW x \in A PROVE m <= x
  <2>1. x \in Nat /\ m \in Nat
    OBVIOUS
  <2>2. ~(x < m)
    BY <1>2, <1>3, <2>1
  <2> QED BY <2>1, <2>2
<1> QED BY <1>4

Known == [name : IfNames, up : BOOLEAN] \cup {NoInfo}

OneKind(series) == series \subseteq AlertPorts \/ series \subseteq {Exporter}

\* What the evaluator has read is what it judges by.
NoiseFits ==
  /\ ifInfo \in [AlertPorts -> Known]
  /\ eval.pc = "noise" => OneKind(eval.series)
  /\ eval.pc = "live" => /\ OneKind(eval.series) /\ eval.ifaces \in [AlertPorts -> Known]
                         /\ eval.kept = suppressNoise(eval.series, eval.ifaces)
  /\ eval.pc = "notify" => eval.after.pc = "work"

LEMMA NoiseStep ==
  NoiseFits /\ SilenceFits /\ [NoiseNext]_noiseVars => NoiseFits'
<1> SUFFICES ASSUME NoiseFits, SilenceFits, [NoiseNext]_noiseVars PROVE NoiseFits'
  OBVIOUS
<1>1. CASE QueryRule
  <2>1. eval'.pc = "noise" /\ eval'.series = breaches \cap Shows(eval.expr) /\ UNCHANGED ifInfo
    BY <1>1 DEF QueryRule, rest
  <2>2. OneKind(eval'.series)
    BY <2>1 DEF OneKind, Shows
  <2> QED BY <2>1, <2>2 DEF NoiseFits
<1>2. ASSUME NEW answered \in BOOLEAN, ReadInterfaces(answered) PROVE NoiseFits'
  <2> PICK ifaces : ifaces = Interfaces(answered)
    OBVIOUS
  <2>1. /\ eval.pc = "noise" /\ eval'.pc = "live" /\ eval'.series = eval.series /\ eval'.ifaces = ifaces
        /\ eval'.kept = suppressNoise(eval.series, ifaces) /\ UNCHANGED ifInfo
    BY <1>2 DEF ReadInterfaces, rest
  <2>2. ifaces \in [AlertPorts -> Known]
    BY DEF Interfaces, NoiseFits, Known
  <2> QED BY <2>1, <2>2 DEF NoiseFits
<1>3. CASE StartEval \/ IdleCycle \/ LoadAlerts \/ EndEval \/ EvalStops
  <2>1. eval'.pc \in {"query", "rest", "work"} /\ UNCHANGED ifInfo
    BY <1>3 DEF StartEval, IdleCycle, LoadAlerts, EndEval, EvalStops, AtRest, rest
  <2> QED BY <2>1 DEF NoiseFits
<1>4. ASSUME NEW answered \in BOOLEAN, Notify(answered) PROVE NoiseFits'
  <2>1. eval'.pc = "work" /\ UNCHANGED ifInfo
    BY <1>4 DEF Notify, NoiseFits, rest
  <2> QED BY <2>1 DEF NoiseFits
<1>5. ASSUME NEW s \in AlertSeries, FireAlert(s) \/ ResolveAlert(s) PROVE NoiseFits'
  <2>1. eval.pc = "work" /\ DOMAIN eval = WorkFields /\ UNCHANGED ifInfo
    BY <1>5 DEF FireAlert, ResolveAlert, SilenceFits, WorkFits, rest
  <2>2. PICK todo, gone : todo = [eval EXCEPT !.todo = @ \ {s}] /\ gone = [eval EXCEPT !.gone = @ \ {s}]
    OBVIOUS
  <2>3. todo.pc = "work" /\ gone.pc = "work"
    BY <2>1, <2>2 DEF WorkFields
  <2>4. \/ eval' = todo
        \/ \E event, labels, flapping :
             eval' = [after |-> todo, pc |-> "notify", event |-> event, about |-> s, labels |-> labels,
                      flapping |-> flapping]
        \/ \E event, labels, flapping :
             eval' = [after |-> gone, pc |-> "notify", event |-> event, about |-> s, labels |-> labels,
                      flapping |-> flapping]
    <3>1. CASE FireAlert(s)
      <4>1. \/ eval' = todo
            \/ \E labels \in alertLabels(s, eval.ifaces), flapping \in BOOLEAN :
                 eval' = [after |-> todo, pc |-> "notify", event |-> "fired", about |-> s, labels |-> labels,
                          flapping |-> flapping]
        BY <2>2, <3>1, Zenon DEF FireAlert
      <4> QED BY <4>1, Zenon
    <3>2. CASE ResolveAlert(s)
      BY <2>2, <3>2, Zenon DEF ResolveAlert
    <3> QED BY <1>5, <3>1, <3>2
  <2>5. eval'.pc = "work" \/ (eval'.pc = "notify" /\ eval'.after.pc = "work")
    BY <2>3, <2>4
  <2> QED BY <2>1, <2>5 DEF NoiseFits
<1>6. ASSUME NEW p \in AlertPorts, NEW name \in IfNames, PortChanges(p, name) PROVE NoiseFits'
  <2>1. ifInfo' \in [AlertPorts -> Known] /\ UNCHANGED eval
    BY <1>6 DEF PortChanges, NoiseFits, Known
  <2> QED BY <2>1 DEF NoiseFits
<1>7. CASE \/ \E s \in AlertSeries : BreachChanges(s)
           \/ \E in \in RuleInput : CreateAlertRule(in) \/ UpdateAlertRule(in)
           \/ DeleteAlertRule
           \/ \E scope \in Scopes : MuteScope(scope) \/ MuteEnds(scope)
           \/ \E d \in Claimants : ClaimChanges(d)
  <2>1. UNCHANGED <<ifInfo, eval>>
    BY <1>7, Zenon DEF BreachChanges, CreateAlertRule, UpdateAlertRule, DeleteAlertRule, MuteScope, MuteEnds, ClaimChanges
  <2> QED BY <2>1 DEF NoiseFits
<1>8. CASE UNCHANGED noiseVars
  BY <1>8 DEF noiseVars, NoiseFits
<1> QED BY <1>1, <1>2, <1>3, <1>4, <1>5, <1>6, <1>7, <1>8 DEF NoiseNext

\* The line of parents of an interface name.
LEMMA Line ==
  ASSUME NEW name \in Seq(STRING), NEW n \in 1..Len(name)
  PROVE  LET part == SubSeq(name, 1, n)
         IN /\ part \in Seq(STRING) /\ Len(part) = n /\ part # <<>>
            /\ parentInterface(part) = IF n = 1 THEN <<>> ELSE SubSeq(name, 1, n - 1)
<1> PICK part : part = SubSeq(name, 1, n)
  OBVIOUS
<1>1. part \in Seq(STRING) /\ Len(part) = n /\ \A i \in 1..n : part[i] = name[i]
  OBVIOUS
<1>2. part # <<>>
  BY <1>1
<1>3. CASE n = 1
  BY <1>1, <1>2, <1>3 DEF parentInterface
<1>4. CASE n # 1
  <2>1. parentInterface(part) = SubSeq(part, 1, n - 1)
    BY <1>1, <1>4 DEF parentInterface, Front
  <2>2. SubSeq(part, 1, n - 1) = SubSeq(name, 1, n - 1)
    <3>1. n - 1 \in Nat /\ n - 1 <= Len(part) /\ n - 1 <= Len(name)
      BY <1>1, <1>4
    <3> QED BY <1>1, <3>1
  <2> QED BY <1>1, <1>2, <1>4, <2>1, <2>2
<1> QED BY <1>3, <1>4

\* suppressNoise, for any names.
Judged(series, ifaces, kept, s) ==
  /\ s \notin kept => /\ ifaces[s] # NoInfo
                      /\ ifaces[s].up =>
                           /\ parentInterface(ifaces[s].name) # <<>>
                           /\ \E p \in series : /\ ifaces[p] # NoInfo
                                                /\ ifaces[p].name = parentInterface(ifaces[s].name)
  /\ s \in kept => \/ ifaces[s] = NoInfo
                   \/ \A p \in series : ifaces[p] # NoInfo /\ ifaces[p].name # <<>>
                                          => ifaces[p].name # parentInterface(ifaces[s].name)

LEMMA Suppressed ==
  ASSUME NEW series, OneKind(series), NEW ifaces \in [AlertPorts -> Known], NEW kept,
         kept = suppressNoise(series, ifaces), NEW s \in series \cap AlertPorts
  PROVE  /\ series \subseteq AlertPorts /\ kept \subseteq series
         /\ Judged(series, ifaces, kept, s)
<1>1. series \subseteq AlertPorts
  BY NoiseAssumption DEF OneKind
<1> DEFINE known == {p \in series \cap AlertPorts : ifaces[p] # NoInfo}
           names == {ifaces[p].name : p \in known} \ {<<>>}
<1>2. kept = {e \in series : e \in known => ifaces[e].up /\ parentInterface(ifaces[e].name) \notin names}
  BY Zenon DEF suppressNoise
<1>3. known = {p \in series : ifaces[p] # NoInfo}
  BY <1>1
<1>4. \A name : name \in names <=> name # <<>> /\ \E p \in series : ifaces[p] # NoInfo /\ ifaces[p].name = name
  BY <1>3
<1> HIDE DEF known, names
<1>5. ASSUME s \notin kept PROVE s \in known /\ (ifaces[s].up => parentInterface(ifaces[s].name) \in names)
  BY <1>2, <1>5, Zenon
<1>6. ASSUME s \in kept, s \in known PROVE parentInterface(ifaces[s].name) \notin names
  BY <1>2, <1>6, Zenon
<1>7. kept \subseteq series
  BY <1>2
<1> QED BY <1>1, <1>3, <1>4, <1>5, <1>6, <1>7, Zenon DEF Judged

\* An unbroken line of parents in breach, whose topmost is reported or was
\* never in service.
LineAbove(series, ifaces, kept, name) ==
  \E top \in 1..(Len(name) - 1) :
    /\ \A n \in top..(Len(name) - 1) :
         \E p \in series : ifaces[p] # NoInfo /\ ifaces[p].name = SubSeq(name, 1, n)
    /\ \E p \in series : /\ ifaces[p] # NoInfo /\ ifaces[p].name = SubSeq(name, 1, top)
                         /\ p \in kept \/ ~ifaces[p].up

LEMMA HiddenBelow ==
  ASSUME NEW series, OneKind(series), NEW ifaces \in [AlertPorts -> Known], NEW kept,
         kept = suppressNoise(series, ifaces), NEW s \in series, s \in AlertPorts,
         s \notin kept, ifaces[s].up,
         NEW name, name = ifaces[s].name
  PROVE  LineAbove(series, ifaces, kept, name)
<1> DEFINE Breach(n) == \E p \in series : ifaces[p] # NoInfo /\ ifaces[p].name = SubSeq(name, 1, n)
           T == {t \in 1..(Len(name) - 1) : \A n \in t..(Len(name) - 1) : Breach(n)}
<1>0. series \subseteq AlertPorts /\ Judged(series, ifaces, kept, s)
  BY Suppressed
<1>1. ifaces[s] # NoInfo
  BY <1>0, Zenon DEF Judged
<1>2. name \in Seq(STRING)
  BY <1>1, NoiseAssumption DEF Known
<1>3. parentInterface(name) # <<>> /\ \E p \in series : ifaces[p] # NoInfo /\ ifaces[p].name = parentInterface(name)
  BY <1>0, Zenon DEF Judged
<1> PICK last : last = Len(name) - 1
  OBVIOUS
<1>4. last \in Nat /\ last >= 1 /\ Len(name) = last + 1 /\ parentInterface(name) = SubSeq(name, 1, last)
  BY <1>2, <1>3 DEF parentInterface, Front
<1>5. Breach(last)
  BY <1>3, <1>4
<1>6. T = {t \in 1..last : \A n \in t..last : Breach(n)}
  OBVIOUS
<1> HIDE DEF Breach
<1>7. last \in T
  <2>1. last..last = {last}
    BY <1>4
  <2> QED BY <1>4, <1>5, <1>6, <2>1
<1>8. T \in SUBSET Nat
  BY <1>4, <1>6
<1> HIDE DEF T
<1>9. PICK top \in T : \A t \in T : top <= t
  BY <1>7, <1>8, FirstOf
<1>10. top \in 1..last /\ top \in Nat /\ top >= 1 /\ \A n \in top..last : Breach(n)
  BY <1>4, <1>6, <1>9
<1>11. PICK p \in series : ifaces[p] # NoInfo /\ ifaces[p].name = SubSeq(name, 1, top)
  <2>1. Breach(top)
    BY <1>4, <1>10
  <2> QED BY <2>1 DEF Breach
<1>12. ASSUME p \notin kept, ifaces[p].up PROVE FALSE
  <2> PICK up : up = parentInterface(SubSeq(name, 1, top))
    OBVIOUS
  <2>1. up # <<>> /\ \E q \in series : ifaces[q] # NoInfo /\ ifaces[q].name = up
    <3>1. Judged(series, ifaces, kept, p)
      BY <1>0, Suppressed
    <3> QED BY <1>11, <1>12, <3>1, Zenon DEF Judged
  <2>2. top \in 1..Len(name)
    BY <1>4, <1>10
  <2>3. up = IF top = 1 THEN <<>> ELSE SubSeq(name, 1, top - 1)
    BY <1>2, <2>2, Line
  <2>4. top # 1 /\ up = SubSeq(name, 1, top - 1)
    BY <2>1, <2>3
  <2>5. Breach(top - 1)
    BY <2>1, <2>4 DEF Breach
  <2>6. top - 1 \in 1..last /\ \A n \in (top - 1)..last : n = top - 1 \/ n \in top..last
    BY <1>4, <1>10, <2>4
  <2>7. top - 1 \in T
    BY <1>6, <1>10, <2>5, <2>6
  <2> QED BY <1>9, <1>10, <2>7
<1>13. p \in kept \/ ~ifaces[p].up
  BY <1>12, Zenon
<1> QED
  <2>1. top \in 1..(Len(name) - 1) /\ \A n \in top..(Len(name) - 1) : Breach(n)
    BY <1>10
  <2> QED BY <1>11, <1>13, <2>1, Zenon DEF Breach, LineAbove

\* One fault is one alert, and none is hidden without a cause: a port that has
\* been in service is hidden only below an unbroken line of parents in breach
\* whose topmost is reported or was never in service, for names of any depth
\* (Evaluator.suppressNoise, parentInterface).
THEOREM HiddenExplained == NoiseSpec => []HiddenHasCause
<1>1. NoiseInit => SilenceFits /\ NoiseFits
  <2> SUFFICES ASSUME NoiseInit PROVE SilenceFits /\ NoiseFits
    OBVIOUS
  <2>1. DOMAIN heard = {} /\ eval.pc = "rest" /\ news = NoNews /\ ifInfo \in [AlertPorts -> Known]
    BY DEF NoiseInit, AtRest, Known
  <2> QED BY <2>1 DEF SilenceFits, NotifyFits, NewsFits, NoiseFits
<1>2. NoiseFits => HiddenHasCause
  <2> SUFFICES ASSUME NoiseFits, eval.pc = "live" PROVE HiddenHasCause
    BY DEF HiddenHasCause
  <2> PICK series, ifaces, kept : series = eval.series /\ ifaces = eval.ifaces /\ kept = eval.kept
    OBVIOUS
  <2>1. OneKind(series) /\ ifaces \in [AlertPorts -> Known] /\ kept = suppressNoise(series, ifaces)
    BY DEF NoiseFits
  <2>2. ASSUME NEW s \in series \cap AlertPorts, s \in kept
        PROVE  \/ ifaces[s] = NoInfo
               \/ ~\E p \in kept : /\ ifaces[p] # NoInfo /\ ifaces[p].name = parentInterface(ifaces[s].name)
                                   /\ Len(ifaces[p].name) > 0
    <3>1. kept \subseteq series
      BY <2>1, Suppressed
    <3>2. \/ ifaces[s] = NoInfo
          \/ \A p \in series : ifaces[p] # NoInfo /\ ifaces[p].name # <<>>
                                 => ifaces[p].name # parentInterface(ifaces[s].name)
      <4>1. Judged(series, ifaces, kept, s)
        BY <2>1, Suppressed
      <4> QED BY <2>2, <4>1, Zenon DEF Judged
    <3>3. \A name : Len(name) > 0 => name # <<>>
      OBVIOUS
    <3> QED BY <3>1, <3>2, <3>3, Zenon
  <2>3. ASSUME NEW s \in series \cap AlertPorts, s \notin kept
        PROVE  ifaces[s] # NoInfo
    <3>1. Judged(series, ifaces, kept, s)
      BY <2>1, Suppressed
    <3> QED BY <2>3, <3>1, Zenon DEF Judged
  <2>4. ASSUME NEW s \in series \cap AlertPorts, s \notin kept, ifaces[s].up
        PROVE  LineAbove(series, ifaces, kept, ifaces[s].name)
    BY <2>1, <2>4, HiddenBelow, Zenon
  <2>5. ASSUME NEW s \in series \cap AlertPorts PROVE series \cap AlertPorts = series
    BY <2>1, Suppressed
  <2>6. ASSUME NEW s \in series \cap AlertPorts, s \notin kept, ifaces[s].up
        PROVE  LineAbove(series \cap AlertPorts, ifaces, kept, ifaces[s].name)
    BY <2>4, <2>5, <2>6
  <2>7. ASSUME NEW s \in eval.series \cap AlertPorts
        PROVE  IF s \in eval.kept
               THEN \/ eval.ifaces[s] = NoInfo
                    \/ ~\E p \in eval.kept : /\ /\ eval.ifaces[p] # NoInfo
                                                /\ eval.ifaces[p].name = parentInterface(eval.ifaces[s].name)
                                             /\ Len(eval.ifaces[p].name) > 0
               ELSE /\ eval.ifaces[s] # NoInfo
                    /\ eval.ifaces[s].up => LineAbove(eval.series \cap AlertPorts, eval.ifaces, eval.kept, eval.ifaces[s].name)
    <3>1. CASE s \in kept
      BY <2>2, <3>1, Zenon
    <3>2. CASE s \notin kept
      BY <2>3, <2>6, <3>2, Zenon
    <3> QED BY <3>1, <3>2, Zenon
  <2> QED BY <2>7, Zenon DEF HiddenHasCause, LineAbove
<1> QED BY <1>1, <1>2, SilenceStep, NoiseStep, PTL DEF NoiseSpec
=============================================================================
