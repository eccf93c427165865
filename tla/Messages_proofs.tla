----------------------------- MODULE Messages_proofs -----------------------------
(***************************************************************************)
(* What is proved of the messages the platform takes in and sends out:     *)
(* traps from devices and notices to people, for every value of the        *)
(* constants.  The two share no state.                                     *)
(***************************************************************************)
EXTENDS TrapListener, Notifier, TLAPS

-----------------------------------------------------------------------------
(* Notices.                                                                *)

Waitings == {pending[k] : k \in DOMAIN pending}
Tried(i, ch) == \E status \in {"ok", "failed"} : <<i, ch, status>> \in outcomes

\* Every channel the event was routed to, but those left, has had its turn.
TriedBut(i, left) == i \in DOMAIN listed /\ \A ch \in listed[i] : ch \in left \/ Tried(i, ch)

\* An event in hand is the first of the queue until it is acknowledged, and
\* between two attempts nothing that was routed is forgotten.
HandlingFits ==
  LET i == handling.event
  IN handling.pc # "none" =>
       /\ handling.pc \in {"route", "send", "ack"} /\ pending # <<>> /\ i = Head(pending)
       /\ {"pc", "event"} \subseteq DOMAIN handling
       /\ handling.pc = "send" => TriedBut(i, handling.left)
       /\ handling.pc = "ack" => Notices[i] \in Untold \/ TriedBut(i, {})

GoneFits ==
  \A i \in 1..Len(Notices) : i \notin Waitings /\ Notices[i] \notin Untold => TriedBut(i, {})

NotifierInv ==
  /\ pending \in Seq(Nat) /\ (handling.pc = "none" => handling = NoNotice)
  /\ HandlingFits /\ GoneFits

\* What has been tried stays tried.
LEMMA TriedStays ==
  ASSUME outcomes \subseteq outcomes', NEW i, NEW left, NEW more,
         listed' = listed, TriedBut(i, left), left \subseteq more
  PROVE  TriedBut(i, more)'
BY DEF TriedBut, Tried

LEMMA GoneStays ==
  ASSUME GoneFits, outcomes \subseteq outcomes', listed' = listed, pending' = pending
  PROVE  GoneFits'
BY TriedStays DEF GoneFits, Waitings

\* A step that leaves the queue, what was routed and what was tried alone.
LEMMA HandlingMoves ==
  ASSUME NotifierInv, UNCHANGED <<pending, outcomes, listed>>, HandlingFits',
         handling'.pc # "none" \/ handling' = NoNotice
  PROVE  NotifierInv'
BY GoneStays DEF NotifierInv

LEMMA AckKeeps ==
  ASSUME NotifierInv, AckNotice
  PROVE  NotifierInv'
<1>0. /\ handling.pc = "ack" /\ handling' = NoNotice /\ NoNotice.pc = "none" /\ UNCHANGED <<outcomes, listed>>
      /\ pending # <<>> /\ handling.event = Head(pending)
      /\ Notices[handling.event] \in Untold \/ TriedBut(handling.event, {})
      /\ pending \in Seq(Nat)
  BY DEF AckNotice, NotifierInv, HandlingFits, NoNotice
<1>1. HandlingFits' BY <1>0 DEF HandlingFits
<1>2. CASE pending' = pending BY <1>0, <1>1, <1>2, HandlingMoves
<1>3. CASE pending' = Tail(pending)
  <2>1. pending' \in Seq(Nat) BY <1>0, <1>3
  <2>2. \A i : i \notin Waitings' => i = Head(pending) \/ i \notin Waitings
    <3>1. SUFFICES ASSUME NEW k \in DOMAIN pending, pending[k] # Head(pending)
                   PROVE  \E j \in DOMAIN pending' : pending'[j] = pending[k]
      BY DEF Waitings
    <3>2. k \in 1..Len(pending) /\ k # 1 BY <1>0, <3>1
    <3>3. k - 1 \in DOMAIN pending' /\ pending'[k - 1] = pending[k] BY <1>0, <1>3, <3>2
    <3> QED BY <3>3
  <2>3. GoneFits' BY <1>0, <2>2, TriedStays DEF NotifierInv, GoneFits
  <2> QED BY <1>0, <1>1, <2>1, <2>3 DEF NotifierInv
<1> QED BY <1>2, <1>3 DEF AckNotice

\* The channels an event goes to are settled; the events gone keep theirs.
LEMMA RouteKeeps ==
  ASSUME NotifierInv, NEW to, RoutedTo(handling.event, to), UNCHANGED <<pending, outcomes>>,
         handling.pc = "route", handling' = Sending(to, 1)
  PROVE  NotifierInv'
<1>0. /\ pending # <<>> /\ handling.event = Head(pending) /\ pending \in Seq(Nat)
  BY DEF NotifierInv, HandlingFits
<1>1. PICK i : i = handling.event OBVIOUS
<1>2. listed' = [j \in DOMAIN listed \cup {i} |-> IF j = i THEN to ELSE listed[j]] BY <1>1 DEF RoutedTo
<1>3. TriedBut(i, to)' BY <1>2 DEF TriedBut
<1>4. handling'.event = i /\ {"pc", "event"} \subseteq DOMAIN handling'
  BY <1>1 DEF ToAck, Sending
<1>5. \/ handling'.pc = "ack" /\ to = {}
      \/ handling'.pc = "send" /\ handling'.left = to
  BY DEF ToAck, Sending
<1>6. HandlingFits' BY <1>0, <1>1, <1>3, <1>4, <1>5 DEF HandlingFits
<1>7. i \in Waitings BY <1>0, <1>1 DEF Waitings
<1>8. \A x : x # i /\ TriedBut(x, {}) => TriedBut(x, {})' BY <1>2 DEF TriedBut, Tried
<1>9. GoneFits' BY <1>7, <1>8 DEF NotifierInv, GoneFits, Waitings
<1> QED BY <1>0, <1>5, <1>6, <1>9 DEF NotifierInv

LEMMA SendKeeps ==
  ASSUME NotifierInv, NEW ch, NEW configured, NEW answer, Send(ch, configured, answer)
  PROVE  NotifierInv'
<1>0. /\ handling.pc = "send" /\ pending # <<>> /\ handling.event = Head(pending) /\ pending \in Seq(Nat)
      /\ TriedBut(handling.event, handling.left) /\ UNCHANGED <<pending, listed>>
  BY DEF NotifierInv, HandlingFits, Send
<1>1. PICK i : i = handling.event OBVIOUS
<1>2. PICK left : left = handling.left OBVIOUS
<1>3. CASE UNCHANGED outcomes /\ \E n : handling' = Sending(left, n)
  <2>1. PICK n : handling' = Sending(left, n) BY <1>3
  <2>2. handling'.event = i /\ {"pc", "event"} \subseteq DOMAIN handling' /\
        \/ handling'.pc = "ack" /\ left = {}
        \/ handling'.pc = "send" /\ handling'.left = left
    BY <1>1, <2>1 DEF ToAck, Sending
  <2>3. TriedBut(i, left)' BY <1>0, <1>1, <1>2, <1>3, TriedStays
  <2>4. HandlingFits' BY <1>0, <1>1, <2>2, <2>3 DEF HandlingFits
  <2> QED BY <1>0, <1>3, <2>2, <2>4, HandlingMoves
<1>4. CASE handling' = Sending(left \ {ch}, 1) /\ \E status \in {"ok", "failed"} : Record(ch, status)
  <2>1. PICK status \in {"ok", "failed"} : outcomes' = outcomes \cup {<<i, ch, status>>}
    BY <1>1, <1>4 DEF Record
  <2>2. handling'.event = i /\ {"pc", "event"} \subseteq DOMAIN handling' /\
        \/ handling'.pc = "ack" /\ left \ {ch} = {}
        \/ handling'.pc = "send" /\ handling'.left = left \ {ch}
    BY <1>1, <1>4 DEF ToAck, Sending
  <2>3. TriedBut(i, left)' BY <1>0, <1>1, <1>2, <2>1, TriedStays
  <2>4. Tried(i, ch)' BY <2>1 DEF Tried
  <2>5. TriedBut(i, left \ {ch})' BY <2>3, <2>4 DEF TriedBut
  <2>6. HandlingFits' BY <1>0, <1>1, <2>2, <2>5 DEF HandlingFits
  <2>7. GoneFits' BY <1>0, <2>1, GoneStays DEF NotifierInv
  <2> QED BY <1>0, <2>2, <2>6, <2>7 DEF NotifierInv
<1> QED BY <1>2, <1>3, <1>4 DEF Send

LEMMA NotifierStep ==
  ASSUME NotifierInv, [NotifierNext]_notifierVars
  PROVE  NotifierInv'
<1>1. CASE UNCHANGED notifierVars
  BY <1>1 DEF notifierVars, NotifierInv, HandlingFits, GoneFits, Waitings, TriedBut, Tried
<1>2. CASE TakeNotice
  <2>1. PICK i : i = Head(pending) OBVIOUS
  <2>2. handling' = [pc |-> "route", event |-> i, stale |-> FALSE] /\ pending # <<>>
        /\ UNCHANGED <<pending, outcomes, listed>>
    BY <1>2, <2>1 DEF TakeNotice
  <2>3. HandlingFits' BY <2>1, <2>2 DEF HandlingFits
  <2> QED BY <2>2, <2>3, HandlingMoves
<1>3. CASE AckNotice BY <1>3, AckKeeps
<1>4. CASE AlertStreamBreaks
  <2>1. handling' = [handling EXCEPT !.stale = TRUE] /\ UNCHANGED <<pending, outcomes, listed>>
    BY <1>4 DEF AlertStreamBreaks
  <2>2. CASE handling.pc # "none"
    <3>1. handling'.pc = handling.pc /\ handling'.event = handling.event /\ DOMAIN handling' = DOMAIN handling
          /\ handling'.left = handling.left
      BY <2>1, <2>2 DEF NotifierInv, HandlingFits
    <3>2. HandlingFits' BY <2>1, <2>2, <3>1 DEF NotifierInv, HandlingFits, TriedBut, Tried
    <3> QED BY <2>1, <2>2, <3>1, <3>2, HandlingMoves
  <2> QED BY <1>4, <2>2 DEF AlertStreamBreaks, NotifierInv
<1>5. CASE NotifierCrashes \/ NotifierStops \/ NotifierRestarts \/ \E ch \in Channels : CreateChannel(ch) \/ DeleteChannel(ch)
  <2>1. UNCHANGED <<pending, outcomes, listed>> /\ (handling' = handling \/ handling' = NoNotice)
    BY <1>5 DEF NotifierCrashes, NotifierStops, NotifierRestarts, CreateChannel, DeleteChannel
  <2>2. HandlingFits' BY <2>1 DEF NotifierInv, HandlingFits, TriedBut, Tried, NoNotice
  <2> QED BY <2>1, <2>2, HandlingMoves DEF NotifierInv
<1>6. CASE SkipInfo
  <2>1. handling' = ToAck /\ UNCHANGED <<pending, outcomes, listed>> /\ handling.pc = "route"
        /\ Notices[handling.event] \in Untold
    BY <1>6 DEF SkipInfo
  <2>2. HandlingFits' BY <2>1 DEF NotifierInv, HandlingFits, ToAck
  <2> QED BY <2>1, <2>2, HandlingMoves DEF ToAck
<1>7. CASE RouteFails
  <2>1. handling' = Sending({}, 1) BY <1>7 DEF RouteFails, Sending
  <2> QED BY <1>7, <2>1, RouteKeeps DEF RouteFails
<1>8. ASSUME NEW fresh \in BOOLEAN, Route(fresh) PROVE NotifierInv'
  <2>1. PICK to : to = cache'.of OBVIOUS
  <2>2. handling' = Sending(to, 1) /\ RoutedTo(handling.event, to) /\ handling.pc = "route" /\ UNCHANGED <<pending, outcomes>>
    BY <1>8, <2>1 DEF Route
  <2> QED BY <2>2, RouteKeeps
<1>9. ASSUME NEW ch \in Channels, NEW configured \in BOOLEAN, NEW answer \in {"accepted", "rejected", "error", "none"},
             Send(ch, configured, answer)
      PROVE  NotifierInv'
  BY <1>9, SendKeeps
<1> QED BY <1>1, <1>2, <1>3, <1>4, <1>5, <1>6, <1>7, <1>8, <1>9 DEF NotifierNext

\* An event that has left the queue was tried on every channel it was routed
\* to, whatever broke, crashed or was told to stop in between
\* (cmd/notifier, Dispatcher.Handle), for any notices, channels and retries.
THEOREM TriedBeforeGone == NotifierSpec => []GoneIsTried
<1>1. NotifierInit => NotifierInv
  <2>1. Len(Notices) \in Nat BY NotifierAssumption
  <2>2. NotifierInit => pending \in Seq(Nat) /\ Waitings = 1..Len(Notices)
    BY <2>1 DEF NotifierInit, Waitings
  <2> QED BY <2>2 DEF NotifierInit, NotifierInv, HandlingFits, GoneFits, NoNotice
<1>2. NotifierInv /\ [NotifierNext]_notifierVars => NotifierInv' BY NotifierStep
<1>3. NotifierInv => GoneIsTried
  BY DEF NotifierInv, GoneFits, GoneIsTried, Waitings, TriedBut, Tried
<1> QED BY <1>1, <1>2, <1>3, PTL DEF NotifierSpec

-----------------------------------------------------------------------------
(* Traps: the limiter.                                                     *)

Datagram == [pc : {"have"}, src : Sources, agent : Agents, label : Labels, at : Nat]

\* A datagram in hand was read at most Lag ago.
ReadingFits ==
  /\ now \in Nat /\ reading \in [Sockets -> {Waiting, Closed} \cup Datagram]
  /\ \A s \in Sockets : reading[s].pc = "have" => reading[s].at <= now /\ now - reading[s].at <= Lag

\* What a bucket still holds was not let through: a source has had no more
\* than a full bucket and a token for each unit up to the bucket's last use,
\* less what is left in it; a source whose bucket was forgotten has been
\* quiet for so long that a full one gives it nothing it did not earn.
BucketFits(x) ==
  IF x \in DOMAIN buckets
  THEN LET b == buckets[x]
       IN /\ b.tokens \in Int /\ b.last \in Nat /\ b.last <= now
          /\ accepted[x] + b.tokens <= Burst + b.last
          /\ accepted[x] <= Burst + b.last + Lag
  ELSE accepted[x] = 0 \/ accepted[x] + Lag <= now

LimiterInv ==
  /\ ReadingFits /\ accepted \in [Sources -> Nat]
  /\ \A x \in Sources : accepted[x] <= Burst + now /\ BucketFits(x)

LEMMA LimiterConstants == {Burst, Slack, Lag} \subseteq Nat /\ Burst # 0
BY TrapAssumption

LEMMA HandleLimited ==
  ASSUME LimiterInv, NEW s \in Sockets, Handle(s)
  PROVE  LimiterInv'
<1>1. PICK t \in Datagram : t = reading[s] BY DEF LimiterInv, ReadingFits, Handle, Waiting, Closed
<1>2. t.src \in Sources /\ t.at \in Nat /\ t.at <= now /\ now - t.at <= Lag /\ t.pc = "have" /\ now \in Nat
  BY <1>1 DEF LimiterInv, ReadingFits, Datagram
<1>3. PICK have : have = Refilled(t.src, t.at) OBVIOUS
<1>4. PICK x \in Sources : x = t.src BY <1>2
<1>5. PICK at \in Nat : at = t.at BY <1>2
<1>6. PICK left : left = IF have >= 1 THEN have - 1 ELSE have OBVIOUS
<1>7. PICK b : b = [tokens |-> left, last |-> at] OBVIOUS
<1>8. /\ SetBucket(x, b) /\ now' = now
      /\ accepted' = IF have >= 1 THEN [accepted EXCEPT ![x] = @ + 1] ELSE accepted
      /\ reading' = [reading EXCEPT ![s] = IF loop = "running" THEN Waiting ELSE Closed]
  BY <1>1, <1>3, <1>4, <1>5, <1>6, <1>7 DEF Handle
<1>9. b.tokens = left /\ b.last = at BY <1>7
<1>10. accepted[x] \in Nat /\ accepted[x] <= Burst + now /\ BucketFits(x) /\ accepted \in [Sources -> Nat]
  BY DEF LimiterInv
<1>11. have \in Int /\ accepted[x] + have <= Burst + at
  <2>1. CASE x \in DOMAIN buckets
    <3>1. PICK k \in Int : k = buckets[x].tokens BY <1>10, <2>1 DEF BucketFits
    <3>2. PICK l \in Nat : l = buckets[x].last BY <1>10, <2>1 DEF BucketFits
    <3>3. accepted[x] + k <= Burst + l BY <1>10, <2>1, <3>1, <3>2 DEF BucketFits
    <3>4. have = IF k + at - l > Burst THEN Burst ELSE k + at - l
      BY <1>3, <1>4, <1>5, <2>1, <3>1, <3>2 DEF Refilled
    <3> QED BY <1>10, <3>3, <3>4, LimiterConstants
  <2>2. CASE x \notin DOMAIN buckets
    <3>1. have = Burst BY <1>3, <1>4, <1>5, <2>2 DEF Refilled
    <3> QED BY <1>2, <1>5, <1>10, <2>2, <3>1, LimiterConstants DEF BucketFits
  <2> QED BY <2>1, <2>2
<1>12. /\ accepted' \in [Sources -> Nat]
       /\ accepted'[x] = IF have >= 1 THEN accepted[x] + 1 ELSE accepted[x]
       /\ \A y \in Sources : y # x => accepted'[y] = accepted[y]
  BY <1>8, <1>10
<1>13. x \in DOMAIN buckets' /\ buckets'[x] = b
       /\ \A y \in Sources : y # x => (y \in DOMAIN buckets' <=> y \in DOMAIN buckets)
                                      /\ (y \in DOMAIN buckets => buckets'[y] = buckets[y])
  BY <1>8 DEF SetBucket
<1>14. ReadingFits'
  <2>1. reading' \in [Sockets -> {Waiting, Closed} \cup Datagram] /\ reading'[s].pc # "have"
    BY <1>8 DEF LimiterInv, ReadingFits, Waiting, Closed
  <2>2. \A z \in Sockets : z # s => reading'[z] = reading[z] BY <1>8 DEF LimiterInv, ReadingFits
  <2> QED BY <1>8, <2>1, <2>2 DEF LimiterInv, ReadingFits
<1>15. accepted'[x] <= Burst + at \/ accepted'[x] = accepted[x]
  BY <1>10, <1>11, <1>12, LimiterConstants
<1>16. left \in Int /\ accepted'[x] + left <= Burst + at BY <1>6, <1>10, <1>11, <1>12
<1>17. accepted'[x] <= Burst + now /\ accepted'[x] <= Burst + at + Lag
  BY <1>2, <1>5, <1>10, <1>12, <1>15, LimiterConstants
<1>18. BucketFits(x)' BY <1>2, <1>5, <1>8, <1>9, <1>13, <1>16, <1>17 DEF BucketFits
<1>19. \A y \in Sources : y # x => accepted'[y] <= Burst + now' /\ BucketFits(y)'
  BY <1>8, <1>12, <1>13 DEF LimiterInv, BucketFits
<1> QED BY <1>8, <1>12, <1>14, <1>17, <1>18, <1>19 DEF LimiterInv

LEMMA SweepLimited ==
  ASSUME LimiterInv, Sweep, 2 * Lag <= Slack + 1
  PROVE  LimiterInv'
<1>1. UNCHANGED <<now, reading, accepted>> BY DEF Sweep
<1>2. buckets' = [x \in {y \in DOMAIN buckets : now - buckets[y].last <= SweepAfter} |-> buckets[x]]
  BY DEF Sweep, Restrict
<1>3. ASSUME NEW x \in Sources PROVE BucketFits(x)'
  <2>1. CASE x \in DOMAIN buckets /\ now - buckets[x].last <= SweepAfter
    BY <1>1, <1>2, <2>1 DEF LimiterInv, BucketFits
  <2>2. CASE x \in DOMAIN buckets /\ ~(now - buckets[x].last <= SweepAfter)
    <3>1. PICK l \in Nat : l = buckets[x].last BY <2>2 DEF LimiterInv, BucketFits
    <3>2. accepted[x] <= Burst + l + Lag /\ now \in Nat /\ accepted[x] \in Nat /\ ~(now - l <= Burst + Slack)
      BY <2>2, <3>1 DEF LimiterInv, ReadingFits, BucketFits, SweepAfter
    <3>3. accepted[x] + Lag <= now BY <3>2, LimiterConstants
    <3> QED BY <1>1, <1>2, <2>2, <3>3 DEF BucketFits
  <2>3. CASE x \notin DOMAIN buckets BY <1>1, <1>2, <2>3 DEF LimiterInv, BucketFits
  <2> QED BY <2>1, <2>2, <2>3
<1> QED BY <1>1, <1>3 DEF LimiterInv, ReadingFits

LEMMA LimiterStep ==
  ASSUME LimiterInv, [TrapNext]_trapVars, 2 * Lag <= Slack + 1
  PROVE  LimiterInv'
<1>1. CASE UNCHANGED <<now, buckets, accepted>> /\ ReadingFits'
  BY <1>1 DEF LimiterInv, BucketFits
<1>2. CASE UNCHANGED <<now, buckets, accepted, reading>>
  <2>1. ReadingFits' BY <1>2 DEF LimiterInv, ReadingFits
  <2> QED BY <1>1, <1>2, <2>1
<1>3. CASE \E s \in Sockets : Handle(s) BY <1>3, HandleLimited
<1>4. CASE \E s \in Sockets : ReadTimesOut(s)
  <2>1. ReadingFits' BY <1>4 DEF ReadTimesOut, LimiterInv, ReadingFits, Closed
  <2> QED BY <1>1, <1>4, <2>1 DEF ReadTimesOut
<1>5. ASSUME NEW s \in Sockets, NEW x \in Sources, NEW a \in Agents, NEW label \in Labels, ReadFrom(s, x, a, label)
      PROVE  LimiterInv'
  <2>0. now \in Nat /\ now' = now BY <1>5 DEF LimiterInv, ReadingFits, ReadFrom
  <2>1. PICK t : t = [pc |-> "have", src |-> x, agent |-> a, label |-> label, at |-> now] OBVIOUS
  <2>2. t \in Datagram /\ t.at = now BY <2>0, <2>1 DEF Datagram
  <2>3. reading' = [reading EXCEPT ![s] = t] BY <1>5, <2>1 DEF ReadFrom
  <2>4. ReadingFits' BY <2>0, <2>2, <2>3, LimiterConstants DEF LimiterInv, ReadingFits
  <2> QED BY <1>1, <1>5, <2>4 DEF ReadFrom
<1>6. CASE Sweep BY <1>6, SweepLimited
<1>7. CASE TimePasses
  <2>1. now \in Nat /\ now' = now + 1 /\ UNCHANGED <<buckets, accepted, reading>>
    BY <1>7 DEF TimePasses, LimiterInv, ReadingFits
  <2>2. ReadingFits' BY <1>7, <2>1 DEF TimePasses, LimiterInv, ReadingFits, Datagram, Waiting, Closed
  <2>3. \A x \in Sources : accepted[x] \in Nat /\ accepted[x] <= Burst + now' BY <2>1, LimiterConstants DEF LimiterInv
  <2>4. \A x \in Sources : BucketFits(x)' BY <2>1, <2>3, LimiterConstants DEF LimiterInv, BucketFits
  <2> QED BY <2>1, <2>2, <2>3, <2>4 DEF LimiterInv
<1>8. CASE Take \/ FlushBatch \/ Cancel \/ Drain \/ UNCHANGED trapVars
  BY <1>2, <1>8 DEF Take, FlushBatch, Cancel, Drain, trapVars
<1>9. CASE \E a \in Sources \cup Agents, d \in TrapDevices \cup {NoDevice} : Refresh(a, d)
  BY <1>2, <1>9 DEF Refresh
<1> QED BY <1>3, <1>4, <1>5, <1>6, <1>7, <1>8, <1>9 DEF TrapNext, Intake

\* A source gets no more through than a full bucket and a token for each unit
\* of time, with any number of sockets bringing their times out of order and
\* the sweep forgetting quiet sources (limiter.allow, limiter.sweep).  The
\* sweep must wait for twice as long as a datagram may be in hand, less one
\* unit: the minute it waits, against the time from a read to the lock.
THEOREM SourcesLimited ==
  ASSUME 2 * Lag <= Slack + 1
  PROVE  TrapSpec => []SourceIsLimited
<1>1. TrapInit => LimiterInv
  BY LimiterConstants DEF TrapInit, LimiterInv, ReadingFits, BucketFits, Waiting, Closed
<1>2. LimiterInv /\ [TrapNext]_trapVars => LimiterInv' BY LimiterStep
<1>3. LimiterInv => SourceIsLimited BY DEF LimiterInv, SourceIsLimited
<1> QED BY <1>1, <1>2, <1>3, PTL DEF TrapSpec

-----------------------------------------------------------------------------
(* Traps: the writer.                                                      *)

\* The queue and the batch are sequences, of whatever traps.
Lists == \E S : queue \in Seq(S) /\ batch \in Seq(S)

\* From the moment the listener is told to stop, what it owes is queued, in
\* the batch or handed to the store; once the writer has stopped, it is handed.
Handed == written \cup failed
OwedFits ==
  /\ loop \in {"running", "stopping", "stopped"}
  /\ loop = "stopping" => due \subseteq Handed \cup Ids(queue) \cup Ids(batch)
  /\ loop = "stopped" => due \subseteq Handed

WriterInv == Lists /\ OwedFits

LEMMA IdsOfAppend ==
  ASSUME NEW S, NEW q \in Seq(S), NEW t
  PROVE  Append(q, t) \in Seq(S \cup {t}) /\ Ids(q) \cup {t.id} \subseteq Ids(Append(q, t))
<1>1. q \in Seq(S \cup {t}) OBVIOUS
<1>2. Append(q, t) \in Seq(S \cup {t}) BY <1>1
<1>3. \A i \in DOMAIN q : i \in DOMAIN Append(q, t) /\ Append(q, t)[i] = q[i] BY <1>1
<1>4. Len(q) + 1 \in DOMAIN Append(q, t) /\ Append(q, t)[Len(q) + 1] = t BY <1>1
<1> QED BY <1>2, <1>3, <1>4 DEF Ids

LEMMA IdsOfBoth ==
  ASSUME NEW S, NEW p \in Seq(S), NEW q \in Seq(S)
  PROVE  Ids(p) \cup Ids(q) \subseteq Ids(p \o q)
<1>1. \A i \in DOMAIN p : i \in DOMAIN (p \o q) /\ (p \o q)[i] = p[i] OBVIOUS
<1>2. \A i \in DOMAIN q : Len(p) + i \in DOMAIN (p \o q) /\ (p \o q)[Len(p) + i] = q[i] OBVIOUS
<1> QED BY <1>1, <1>2 DEF Ids

LEMMA IdsOfTail ==
  ASSUME NEW S, NEW q \in Seq(S), q # <<>>
  PROVE  Ids(q) \subseteq {Head(q).id} \cup Ids(Tail(q))
<1>1. Tail(q) \in Seq(S) /\ Len(Tail(q)) = Len(q) - 1 /\ Len(q) \in Nat /\ Len(q) >= 1 OBVIOUS
<1>2. ASSUME NEW i \in DOMAIN q PROVE q[i].id \in {Head(q).id} \cup Ids(Tail(q))
  <2>1. CASE i = 1 BY <2>1
  <2>2. CASE i # 1
    <3>1. i - 1 \in DOMAIN Tail(q) /\ Tail(q)[i - 1] = q[i] BY <1>1, <2>2
    <3> QED BY <3>1 DEF Ids
  <2> QED BY <2>1, <2>2
<1> QED BY <1>2 DEF Ids

\* A write hands every trap over, inserted or not, and takes none back.
LEMMA WriteHands ==
  ASSUME NEW traps, NEW cancelled, Write(traps, cancelled)
  PROVE  Handed \cup Ids(traps) \subseteq Handed'
BY DEF Write, InsertTraps, Handed

\* A step of the loop that loses none of what is queued or in the batch.
LEMMA LoopMoves ==
  ASSUME WriterInv, Lists', UNCHANGED <<loop, due>>, Handed \subseteq Handed',
         Ids(queue) \cup Ids(batch) \subseteq Handed' \cup Ids(queue)' \cup Ids(batch)'
  PROVE  WriterInv'
BY DEF WriterInv, OwedFits

LEMMA WriterStep ==
  ASSUME WriterInv, [TrapNext]_trapVars
  PROVE  WriterInv'
<1>0. PICK S : queue \in Seq(S) /\ batch \in Seq(S) BY DEF WriterInv, Lists
<1>e. <<>> \in Seq(S) /\ Ids(<<>>) = {} BY DEF Ids
<1>1. CASE UNCHANGED <<queue, batch, written, failed, loop, due>>
  BY <1>1 DEF WriterInv, Lists, OwedFits, Handed
<1>2. ASSUME NEW s \in Sockets, Handle(s) PROVE WriterInv'
  <2>1. /\ UNCHANGED <<batch, written, failed, loop, due>>
        /\ queue' = queue \/ \E t : queue' = Append(queue, t)
    BY <1>2 DEF Handle
  <2>2. ASSUME NEW t, queue' = Append(queue, t) PROVE WriterInv'
    <3>1. queue' \in Seq(S \cup {t}) /\ Ids(queue) \subseteq Ids(queue') BY <1>0, <2>2, IdsOfAppend
    <3>2. batch' \in Seq(S \cup {t}) BY <1>0, <2>1
    <3>3. Lists' BY <3>1, <3>2 DEF Lists
    <3>4. Ids(queue') = Ids(queue)' /\ Ids(batch)' = Ids(batch) /\ Handed' = Handed BY <2>1 DEF Ids, Handed
    <3> QED BY <2>1, <3>1, <3>3, <3>4, LoopMoves
  <2> QED BY <1>1, <2>1, <2>2
<1>3. CASE FlushBatch
  <2>1. /\ UNCHANGED <<queue, loop, due>> /\ batch' = <<>> /\ Write(batch, loop = "stopping")
    BY <1>3 DEF FlushBatch, Flush
  <2>2. Handed \cup Ids(batch) \subseteq Handed' BY <2>1, WriteHands
  <2>3. Lists' /\ Ids(queue)' = Ids(queue) BY <1>0, <1>e, <2>1 DEF Lists, Ids
  <2> QED BY <2>1, <2>2, <2>3, LoopMoves
<1>4. CASE Take
  <2>1. PICK t : t = Head(queue) OBVIOUS
  <2>2. PICK more : more = Append(batch, t) OBVIOUS
  <2>3. /\ UNCHANGED <<loop, due>> /\ queue # <<>> /\ queue' = Tail(queue)
        /\ \/ batch' = <<>> /\ Write(more, loop = "stopping")
           \/ batch' = more /\ UNCHANGED <<written, failed>>
    BY <1>4, <2>1, <2>2 DEF Take, Flush
  <2>4. t \in S /\ Tail(queue) \in Seq(S) BY <1>0, <2>1, <2>3
  <2>5. more \in Seq(S) BY <1>0, <2>2, <2>4
  <2>6. Ids(batch) \cup {t.id} \subseteq Ids(more) BY <1>0, <2>2, IdsOfAppend
  <2>7. Ids(queue) \subseteq {t.id} \cup Ids(queue')
    BY <1>0, <2>1, <2>3, IdsOfTail
  <2>8. Ids(queue)' = Ids(queue') /\ Ids(batch)' = Ids(batch') BY DEF Ids
  <2>9. CASE batch' = <<>> /\ Write(more, loop = "stopping")
    <3>1. Handed \cup Ids(more) \subseteq Handed' BY <2>9, WriteHands
    <3>2. Lists' BY <1>e, <2>3, <2>4, <2>9 DEF Lists
    <3> QED BY <2>3, <2>6, <2>7, <2>8, <3>1, <3>2, LoopMoves
  <2>10. CASE batch' = more /\ UNCHANGED <<written, failed>>
    <3>1. Handed' = Handed BY <2>10 DEF Handed
    <3>2. Lists' BY <2>3, <2>4, <2>5, <2>10 DEF Lists
    <3> QED BY <2>3, <2>6, <2>7, <2>8, <2>10, <3>1, <3>2, LoopMoves
  <2> QED BY <2>3, <2>9, <2>10
<1>5. CASE Cancel
  <2>1. loop' = "stopping" /\ due' = Ids(queue) \cup Ids(batch) /\ UNCHANGED <<queue, batch, written, failed>>
    BY <1>5 DEF Cancel
  <2>2. Ids(queue)' = Ids(queue) /\ Ids(batch)' = Ids(batch) BY <2>1 DEF Ids
  <2> QED BY <1>0, <2>1, <2>2 DEF WriterInv, Lists, OwedFits
<1>6. CASE Drain
  <2>1. /\ loop = "stopping" /\ loop' = "stopped" /\ queue' = <<>> /\ batch' = <<>> /\ UNCHANGED due
        /\ Write(batch \o queue, FALSE)
    BY <1>6 DEF Drain
  <2>2. Handed \cup Ids(batch \o queue) \subseteq Handed' BY <2>1, WriteHands
  <2>3. due \subseteq Handed' BY <1>0, <2>1, <2>2, IdsOfBoth DEF WriterInv, OwedFits
  <2> QED BY <1>e, <2>1, <2>3 DEF WriterInv, Lists, OwedFits
<1>7. CASE Sweep \/ TimePasses \/ UNCHANGED trapVars
  BY <1>1, <1>7 DEF Sweep, TimePasses, trapVars
<1>8. ASSUME NEW s \in Sockets, NEW x \in Sources, NEW a \in Agents, NEW label \in Labels, ReadFrom(s, x, a, label)
      PROVE  WriterInv'
  BY <1>1, <1>8 DEF ReadFrom
<1>9. CASE \E s \in Sockets : ReadTimesOut(s) BY <1>1, <1>9 DEF ReadTimesOut
<1>10. CASE \E a \in Sources \cup Agents, d \in TrapDevices \cup {NoDevice} : Refresh(a, d)
  BY <1>1, <1>10 DEF Refresh
<1> QED BY <1>2, <1>3, <1>4, <1>5, <1>6, <1>7, <1>8, <1>9, <1>10 DEF TrapNext, Intake

\* When the writer has stopped, every trap that was queued when the listener
\* was told to stop has been handed to the store, whatever the sockets still
\* queued and ticks still flushed meanwhile (writeLoop), for any queue, batch
\* size and sockets, and whichever inserts fail.
THEOREM StopsDrained == TrapSpec => []DrainedAtStop
<1>1. TrapInit => WriterInv
  <2>1. <<>> \in Seq({}) OBVIOUS
  <2> QED BY <2>1 DEF TrapInit, WriterInv, Lists, OwedFits
<1>2. WriterInv /\ [TrapNext]_trapVars => WriterInv' BY WriterStep
<1>3. WriterInv => DrainedAtStop BY DEF WriterInv, OwedFits, Handed, DrainedAtStop
<1> QED BY <1>1, <1>2, <1>3, PTL DEF TrapSpec
=============================================================================
