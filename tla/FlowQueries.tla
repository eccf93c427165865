------------------------------ MODULE FlowQueries ------------------------------
(***************************************************************************)
(* Questions about stored flow: the explorer over ClickHouse               *)
(* (flowquery/explore.go, flowstore/query.go), which reads the raw flows   *)
(* or their hourly rollup, and the aggregate endpoints over                *)
(* VictoriaMetrics (flowquery/service.go).  A question is several          *)
(* statements, and flows land, age and change owner between them.          *)
(*                                                                         *)
(* A flow is [id, exporter, in_if, src_port, dst_port, tcp_flags, bytes]:  *)
(* the columns that are treated differently (an interface key carries its  *)
(* exporter, a port is folded in the rollup, a flag is kept raw only).     *)
(* Nothing is remembered between questions, so a behaviour asks one.  The  *)
(* explorer reads ClickHouse alone and the others VictoriaMetrics alone:   *)
(* one landing stands for the raw row of the first and the interval sample *)
(* of the second, whose value is src_port.                                 *)
(***************************************************************************)
EXTENDS Integers, Sequences, FiniteSets, FiniteSetsExt

CONSTANTS
  StoredFlows,   \* the flows that may land
  BookDevices,   \* device ids, in the order of the ids
  HomeAddr,      \* device -> its management address
  HomeSite,      \* device -> its site
  ClaimTexts,    \* what an operator may type as a claim: [addr, mapped]
  Questions,     \* see Ask
  HourLen, SecondLen,  \* an hour and a second, in units of time
  RawKeep, RollupKeep,  \* Retention.RawDays, RollupDays
  LongWindow,    \* the window past which the rollup is preferred (7 days)
  EphemeralPort, \* the first port the rollup records as 0
  DefaultTop, MaxTop,  \* the limit of a request that names none, and the largest
  ChartSteps, ChartPoints,  \* flowstore.Step: its round steps, in order, and about how many points
  SampleInterval, MaxPoints, MaxRange,  \* flow.Interval, maxPoints, Service.MaxRange
  MaxFlowTime, MaxBookEdits   \* bounds

Kinds == {"explore", "records", "top", "series", "exporters"}

\* A flow has an id of its own.  No two devices have one management address
\* (devices_ip_unique).  The aggregate endpoints take no filters, and the list of
\* exporters only a window.
ASSUME QueriesAssumption ==
  /\ BookDevices \subseteq Nat /\ HourLen \in Nat \ {0} /\ RawKeep \in Nat \ {0}
  /\ SecondLen \in Nat \ {0} /\ HourLen % SecondLen = 0
  /\ RollupKeep \in Nat /\ RawKeep < RollupKeep /\ SampleInterval \in Nat \ {0}
  /\ DefaultTop \in Nat /\ MaxTop \in Nat /\ MaxFlowTime \in Nat
  /\ IsFiniteSet(StoredFlows)
  /\ \A r \in StoredFlows :
       /\ r = [id |-> r.id, exporter |-> r.exporter, in_if |-> r.in_if, src_port |-> r.src_port,
               dst_port |-> r.dst_port, tcp_flags |-> r.tcp_flags, bytes |-> r.bytes]
       /\ r.bytes \in Nat /\ \A x \in StoredFlows : x.id = r.id => x = r
  /\ \A d, e \in BookDevices : HomeAddr[d] = HomeAddr[e] => d = e
  /\ \A q \in Questions :
       /\ q = [kind |-> q.kind, from |-> q.from, to |-> q.to, filters |-> q.filters,
               groupBy |-> q.groupBy, metric |-> q.metric, limit |-> q.limit, devices |-> q.devices,
               sites |-> q.sites, exporters |-> q.exporters, ifIndex |-> q.ifIndex, step |-> q.step]
       /\ q.kind \in Kinds /\ q.from \in Int /\ q.to \in Int /\ q.limit \in Nat
       /\ q.kind \in {"top", "series", "exporters"} => q.filters = {}
       /\ q.kind = "exporters" => q.devices \cup q.sites \cup q.exporters = {}

VARIABLES
  flowNow,
  landed,    \* history: flow -> when it was received
  raw,       \* the flows of netinv.flows
  hourly,    \* netinv.flows_1h: key -> [bytes, flows]
  claims,    \* device -> attrs.flow_exporters
  live,      \* the devices that are not retired
  bookEdits,
  question, ask

bookVars == <<claims, live, bookEdits>>
queryVars == <<flowNow, landed, raw, hourly, claims, live, bookEdits, question, ask>>

NoTime == -1
NoAddr == "none"
NoFlows == <<>>

QueriesInit ==
  /\ flowNow = 0 /\ landed = NoFlows /\ raw = {} /\ hourly = NoFlows
  /\ claims = [d \in BookDevices |-> {}] /\ live = BookDevices /\ bookEdits = 0
  /\ question \in Questions /\ ask = [stage |-> "none"]

Explorer == {"explore", "records"}
Asking == ask.stage \notin {"answered", "refused", "failed"}

-----------------------------------------------------------------------------
(* The store and the book around a question.                               *)

StartOfHour(t) == (t \div HourLen) * HourLen
Folded(p) == IF p >= EphemeralPort THEN 0 ELSE p

\* The key the materialized view sums a flow under.
RollupKey(r, at) ==
  [t |-> StartOfHour(at), exporter |-> r.exporter, in_if |-> r.in_if,
   src_port |-> Folded(r.src_port), dst_port |-> Folded(r.dst_port)]

\* A block lands with the time its packet was received, now or a flush ago;
\* the view rolls it up as it lands.
FlowLands(r, at) ==
  /\ Asking /\ r \notin DOMAIN landed /\ at \in {flowNow, flowNow - 1} \cap Nat
  /\ landed' = [x \in DOMAIN landed \cup {r} |-> IF x = r THEN at ELSE landed[x]]
  /\ raw' = raw \cup {r}
  /\ LET k == RollupKey(r, at)
         old == IF k \in DOMAIN hourly THEN hourly[k] ELSE [bytes |-> 0, flows |-> 0]
     IN hourly' = [x \in DOMAIN hourly \cup {k} |->
                     IF x = k THEN [bytes |-> old.bytes + r.bytes, flows |-> old.flows + 1]
                     ELSE hourly[x]]
  /\ UNCHANGED <<flowNow, claims, live, bookEdits, question, ask>>

\* ClickHouse drops what has outlived its TTL, some time after it has: only the
\* explorer reads ClickHouse.
RawExpires(r) ==
  /\ Asking /\ question.kind \in Explorer /\ r \in raw /\ landed[r] + RawKeep <= flowNow
  /\ raw' = raw \ {r}
  /\ UNCHANGED <<flowNow, landed, hourly, bookVars, question, ask>>

RollupExpires(k) ==
  /\ Asking /\ question.kind \in Explorer /\ k \in DOMAIN hourly /\ k.t + RollupKeep <= flowNow
  /\ hourly' = [x \in DOMAIN hourly \ {k} |-> hourly[x]]
  /\ UNCHANGED <<flowNow, landed, raw, bookVars, question, ask>>

QueryTimePasses ==
  /\ Asking /\ flowNow < MaxFlowTime /\ flowNow' = flowNow + 1
  /\ UNCHANGED <<landed, raw, hourly, bookVars, question, ask>>

\* An operator claims an address for a device, or retires it.  The book is read
\* once, and what changes after that is not seen; a question that names no device
\* or site takes only labels from it.
BookChanges(d) ==
  /\ question.devices \cup question.sites # {}
  /\ ask.stage \in {"none", "book"} /\ bookEdits < MaxBookEdits /\ bookEdits' = bookEdits + 1
  /\ \/ \E t \in ClaimTexts : claims' = [claims EXCEPT ![d] = @ \cup {t}] /\ UNCHANGED live
     \/ live' = live \ {d} /\ UNCHANGED claims
  /\ UNCHANGED <<flowNow, landed, raw, hourly, question, ask>>

-----------------------------------------------------------------------------
(* The address book.                                                       *)

\* "::ffff:192.0.2.1" and "192.0.2.1" are one key.
normAddr(text) == text.addr

\* Management addresses before claims, each in the order of the ids.
Addresses ==
  {[text |-> [addr |-> HomeAddr[d], mapped |-> FALSE], dev |-> d, claimed |-> FALSE] : d \in live}
  \cup UNION {{[text |-> t, dev |-> d, claimed |-> TRUE] : t \in claims[d]} : d \in live}

Before(a, b) == (~a.claimed /\ b.claimed) \/ (a.claimed = b.claimed /\ a.dev <= b.dev)

\* The first attribution of an address wins.
newIndex(list) ==
  [k \in {normAddr(a.text) : a \in list} |->
     LET of == {a \in list : normAddr(a.text) = k}
     IN (CHOOSE a \in of : \A b \in of : Before(a, b)).dev]

-----------------------------------------------------------------------------
(* Compiling an explorer query.                                            *)

Column(cols, rollup, group) == [cols |-> cols, rollup |-> rollup, group |-> group]
Fields ==
  [exporter  |-> Column({"exporter"}, TRUE, TRUE),
   in_if     |-> Column({"in_if"}, TRUE, TRUE),
   src_port  |-> Column({"src_port"}, TRUE, TRUE),
   tcp_flags |-> Column({"tcp_flags"}, FALSE, TRUE),
   port      |-> Column({"src_port", "dst_port"}, TRUE, FALSE)]

NeedsRaw(q) ==
  \E f \in q.groupBy \cup {c.field : c \in q.filters} : f \in DOMAIN Fields /\ ~Fields[f].rollup

\* Variant: reads the raw table although the window starts before it does.
chooseTableRaw(q, cutoff) ==
  IF ~NeedsRaw(q) /\ q.to - q.from > LongWindow THEN "rollup" ELSE "raw"

\* The rollup when the window starts before the raw flows do, or is long and
\* asks for nothing the rollup lacks.
chooseTable(q, cutoff) ==
  IF q.from < cutoff THEN IF NeedsRaw(q) THEN "none" ELSE "rollup"
  ELSE IF ~NeedsRaw(q) /\ q.to - q.from > LongWindow THEN "rollup" ELSE "raw"

\* A value is the set of what it equals (an address or number, a prefix), or an
\* interface of one exporter or of any; the empty set is one that does not parse.
Readable(c) ==
  /\ c.field \in DOMAIN Fields /\ c.values # {}
  /\ c.field = "in_if" \/ {} \notin c.values

cond(e, field, col, v) ==
  IF field = "in_if" THEN e.in_if = v.idx /\ v.addr \in {NoAddr, e.exporter} ELSE e[col] \in v

filter(e, c) ==
  c.negate # (\E v \in c.values, col \in Fields[c.field].cols : cond(e, c.field, col, v))

Compiles(q, cutoff) ==
  /\ q.to > q.from
  /\ \A f \in q.groupBy : f \in DOMAIN Fields /\ Fields[f].group
  /\ \A c \in q.filters : Readable(c)
  /\ chooseTable(q, cutoff) # "none"

\* The rollup's bound is written to the second.
Until(table, to) == IF table = "rollup" THEN (to \div SecondLen) * SecondLen ELSE to

InWindow(q, table, t) ==
  (IF table = "rollup" THEN StartOfHour(q.from) ELSE q.from) <= t /\ t < Until(table, q.to)

\* An ifIndex only means something with its exporter.
groupExpr(e, f) == IF f = "in_if" THEN <<e.exporter, e.in_if>> ELSE e[f]
KeyOf(q, e) == [f \in q.groupBy |-> groupExpr(e, f)]

\* The least round step of about ChartPoints points, no finer than the table.
ChartStep(table, from, to) ==
  LET wide == {i \in DOMAIN ChartSteps : /\ table = "rollup" => ChartSteps[i] >= HourLen
                                         /\ ChartSteps[i] >= (to - from) \div ChartPoints}
  IN ChartSteps[IF wide = {} THEN Len(ChartSteps) ELSE Min(wide)]

-----------------------------------------------------------------------------
(* A question, statement by statement.                                     *)

AllAddrs == {r.exporter : r \in StoredFlows}
Refused == [stage |-> "refused"]

\* Too large a limit is as good as none to the explorer; the others refuse it.
LimitOf(q) == IF q.limit = 0 \/ q.limit > MaxTop THEN DefaultTop ELSE q.limit

\* parse and checkWindow: the window is filled in, and refused when it is
\* longer than what is kept; an ifIndex needs an exporter to be one of.
Ask ==
  /\ ask.stage = "none"
  /\ LET to == IF question.to = NoTime THEN flowNow ELSE question.to
         from == IF question.from = NoTime THEN to - HourLen ELSE question.from
         refused == IF question.kind \in Explorer THEN to - from > RollupKeep
                    ELSE \/ to <= from \/ to - from > MaxRange \/ question.limit > MaxTop
                         \/ question.ifIndex # 0 /\ question.devices = {} /\ question.exporters = {}
     IN ask' = IF refused THEN Refused
               ELSE [stage |-> "book", from |-> from, to |-> to,
                     q |-> [question EXCEPT !.from = from, !.to = to],
                     asked |-> flowNow, had |-> landed, table |-> "raw", scope |-> {},
                     bookRead |-> <<>>, total |-> 0, picked |-> {}, groups |-> <<>>,
                     totals |-> <<>>, lines |-> <<>>]
  /\ UNCHANGED <<flowNow, landed, raw, hourly, bookVars, question>>

\* Devices and sites widen each other.
ExplorerScope(q, idx) ==
  IF q.devices \cup q.sites = {} THEN AllAddrs
  ELSE {k \in DOMAIN idx : idx[k] \in q.devices \/ HomeSite[idx[k]] \in q.sites}

\* Device, site and exporter narrow each other; an address two devices claim
\* counts for the one the index chose.
resolve(q, list, idx) ==
  LET scoped == q.devices \cup q.sites # {}
      of == {a \in list : /\ q.devices # {} => a.dev \in q.devices
                          /\ q.sites # {} => HomeSite[a.dev] \in q.sites}
      addrs == {k \in {normAddr(a.text) : a \in of} :
                  \E a \in of : normAddr(a.text) = k /\ idx[k] = a.dev}
      want == {normAddr(t) : t \in q.exporters}
  IN IF scoped THEN IF want = {} THEN addrs ELSE addrs \cap want
     ELSE IF want = {} THEN AllAddrs ELSE want

\* Records reads the raw table from where it starts.
Clamped(q, cutoff) == [q EXCEPT !.from = Max({q.from, cutoff}), !.groupBy = {}]

ReadBook ==
  /\ ask.stage = "book"
  /\ LET q == ask.q
         idx == newIndex(Addresses)
         cutoff == ask.asked - RawKeep
         read == [ask EXCEPT !.bookRead = [claims |-> claims, live |-> live]]
         scope == resolve(q, Addresses, idx)
     IN ask' = CASE q.kind = "explore" ->
                      IF ~Compiles(q, cutoff) THEN Refused
                      ELSE [read EXCEPT !.stage = "total", !.table = chooseTable(q, cutoff),
                                        !.scope = ExplorerScope(q, idx)]
                 [] q.kind = "records" ->
                      IF q.to < cutoff \/ \E c \in q.filters : ~Readable(c) THEN Refused
                      ELSE [read EXCEPT !.stage = "records", !.q = Clamped(q, cutoff),
                                        !.scope = ExplorerScope(q, idx)]
                 [] q.kind = "exporters" -> [read EXCEPT !.stage = "exporters", !.scope = AllAddrs]
                 [] OTHER -> IF scope = {} THEN Refused
                             ELSE [read EXCEPT !.stage = "topTotal", !.scope = scope]
  /\ UNCHANGED <<flowNow, landed, raw, hourly, bookVars, question>>

\* A row of either table: its time, its columns, its bytes and number of flows.
FlowRow(r) ==
  [t |-> landed[r], id |-> r.id, exporter |-> r.exporter, in_if |-> r.in_if, src_port |-> r.src_port,
   dst_port |-> r.dst_port, tcp_flags |-> r.tcp_flags, bytes |-> r.bytes, flows |-> 1]
HourRow(k) ==
  [t |-> k.t, exporter |-> k.exporter, in_if |-> k.in_if, src_port |-> k.src_port,
   dst_port |-> k.dst_port, bytes |-> hourly[k].bytes, flows |-> hourly[k].flows]

\* What a statement selects.
Stored ==
  IF ask.table = "rollup" THEN {HourRow(k) : k \in DOMAIN hourly} ELSE {FlowRow(r) : r \in raw}
Selected ==
  {e \in Stored : /\ InWindow(ask.q, ask.table, e.t) /\ e.exporter \in ask.scope
                  /\ \A c \in ask.q.filters : filter(e, c)}

SumOf(f) == MapThenSumSet(LAMBDA x : f[x], DOMAIN f)
Figure(metric, S) == SumOf([e \in S |-> IF metric = "flows" THEN e.flows ELSE e.bytes])

\* The figures of the rows, by the key of each.
SumsBy(key, metric) ==
  [k \in {key[e] : e \in DOMAIN key} |-> Figure(metric, {e \in DOMAIN key : key[e] = k})]

\* ORDER BY ... DESC LIMIT n, and topk: among equals, any.
Leading(sums, n) ==
  {D \in SUBSET DOMAIN sums : /\ Cardinality(D) = Min({n, Cardinality(DOMAIN sums)})
                              /\ \A x \in D, y \in DOMAIN sums \ D : sums[x] >= sums[y]}

Reply(stage, next) ==
  /\ ask.stage = stage /\ ask' = next
  /\ UNCHANGED <<flowNow, landed, raw, hourly, bookVars, question>>

GroupSums == SumsBy([e \in Selected |-> KeyOf(ask.q, e)], ask.q.metric)

ReadTotal ==
  Reply("total", [ask EXCEPT !.total = Figure(ask.q.metric, Selected),
                             !.stage = IF ask.q.groupBy = {} THEN "buckets" ELSE "groups"])

ReadGroups ==
  /\ ask.stage = "groups"
  /\ \E D \in Leading(GroupSums, LimitOf(ask.q)) :
       Reply("groups", [ask EXCEPT !.groups = [k \in D |-> GroupSums[k]], !.stage = "buckets"])

Bucket(t) == LET step == ChartStep(ask.table, ask.q.from, ask.q.to) IN (t \div step) * step

\* The totals per bucket fix the axis of the lines.
ReadBuckets ==
  Reply("buckets", [ask EXCEPT !.totals = SumsBy([e \in Selected |-> Bucket(e.t)], ask.q.metric),
                               !.stage = IF ask.groups = <<>> THEN "answered" ELSE "lines"])

\* The leading groups are selected once more; of those only the ones listed
\* have a line to be drawn on.
ReadLines ==
  /\ ask.stage = "lines"
  /\ \E D \in Leading(GroupSums, LimitOf(ask.q)) :
       Reply("lines",
             [ask EXCEPT !.lines = [k \in DOMAIN ask.groups |-> [t \in DOMAIN ask.totals |->
                                     Figure(ask.q.metric, {e \in Selected : /\ KeyOf(ask.q, e) = k
                                                                            /\ k \in D /\ Bucket(e.t) = t})]],
                         !.stage = "answered"])

\* Single flows, newest or largest first.
ReadRecords ==
  /\ ask.stage = "records"
  /\ LET sums == SumsBy([e \in Selected |-> e.id], "bytes")
         worth == IF ask.q.metric = "bytes" THEN sums
                  ELSE [i \in DOMAIN sums |-> (CHOOSE e \in Selected : e.id = i).t]
     IN \E D \in Leading(worth, LimitOf(ask.q)) :
          Reply("records", [ask EXCEPT !.groups = [i \in D |-> sums[i]], !.stage = "answered"])

\* The samples of the selector over (at - w, at].
Samples(at, w) ==
  {FlowRow(r) : r \in
     {x \in DOMAIN landed : /\ at - w < landed[x] /\ landed[x] <= at /\ x.exporter \in ask.scope
                            /\ ask.q.ifIndex \in {0, x.in_if}}}
window(q) == Max({q.to - q.from, SampleInterval})
Windowed == Samples(ask.q.to, window(ask.q))

\* Nothing in the window is an answer at once.
TopTotal ==
  /\ ask.stage = "topTotal"
  /\ LET total == Figure("bytes", Windowed)
     IN Reply("topTotal", [ask EXCEPT !.total = total,
                                      !.stage = IF total = 0 THEN "answered" ELSE "topk"])

TopK ==
  /\ ask.stage = "topk"
  /\ \E D \in Leading(SumsBy([e \in Windowed |-> e.src_port], "bytes"), LimitOf(ask.q)) :
       Reply("topk", [ask EXCEPT !.picked = D, !.stage = "detail"])

TopDetail ==
  Reply("detail", [ask EXCEPT !.groups = [v \in ask.picked |->
                                            Figure("bytes", {e \in Windowed : e.src_port = v})],
                              !.stage = IF ask.q.kind = "series" THEN "seriesLines" ELSE "answered"])

\* Whole intervals, at least one, and no more than MaxPoints of them.
SeriesStep(q) ==
  LET step == Max({q.step, (q.to - q.from) \div MaxPoints})
  IN Max({1, (step + SampleInterval - 1) \div SampleInterval}) * SampleInterval
SeriesTimes(q) == {t \in q.from..q.to : (t - q.from) % SeriesStep(q) = 0}

SeriesLines ==
  Reply("seriesLines",
        [ask EXCEPT !.lines = [v \in DOMAIN ask.groups |-> [t \in SeriesTimes(ask.q) |->
                                 Figure("bytes", {e \in Samples(t, SeriesStep(ask.q)) : e.src_port = v})]],
                    !.stage = "seriesTotals"])

SeriesTotals ==
  Reply("seriesTotals",
        [ask EXCEPT !.totals = [t \in SeriesTimes(ask.q) |->
                                  Figure("bytes", Samples(t, SeriesStep(ask.q)))],
                    !.stage = "answered"])

ListExporters ==
  Reply("exporters", [ask EXCEPT !.groups = SumsBy([e \in Windowed |-> e.exporter], "bytes"),
                                 !.stage = "answered"])

\* A statement fails or the store has no tables: the request is an error.
QueryFails ==
  /\ Asking /\ ask.stage # "none" /\ ask' = [stage |-> "failed"]
  /\ UNCHANGED <<flowNow, landed, raw, hourly, bookVars, question>>

QueriesNext ==
  \/ \E r \in StoredFlows, at \in 0..MaxFlowTime : FlowLands(r, at)
  \/ \E r \in raw : RawExpires(r)
  \/ \E k \in DOMAIN hourly : RollupExpires(k)
  \/ QueryTimePasses
  \/ \E d \in BookDevices : BookChanges(d)
  \/ Ask \/ ReadBook \/ ReadTotal \/ ReadGroups \/ ReadBuckets \/ ReadLines \/ ReadRecords
  \/ TopTotal \/ TopK \/ TopDetail \/ SeriesLines \/ SeriesTotals \/ ListExporters \/ QueryFails

QueriesSpec == QueriesInit /\ [][QueriesNext]_queryVars

-----------------------------------------------------------------------------
(* What an answer must be.                                                 *)

\* The device an address belongs to in the book the question read: the one
\* that is managed there, else the first that claims it, however typed.
Owners(a) ==
  LET book == ask.bookRead
      home == {d \in book.live : HomeAddr[d] = a}
      claimants == {d \in book.live : \E t \in book.claims[d] : t.addr = a}
  IN IF home # {} THEN home ELSE IF claimants # {} THEN {Min(claimants)} ELSE {}

InScope(r) ==
  LET q == question
      ofDevice == Owners(r.exporter) \cap q.devices # {}
      ofSite == {HomeSite[d] : d \in Owners(r.exporter)} \cap q.sites # {}
  IN IF q.kind \in Explorer THEN q.devices \cup q.sites = {} \/ ofDevice \/ ofSite
     ELSE /\ q.devices = {} \/ ofDevice
          /\ q.sites = {} \/ ofSite
          /\ q.exporters = {} \/ \E t \in q.exporters : t.addr = r.exporter
          /\ q.ifIndex \in {0, r.in_if}

\* A flow as the table that answers shows it.
Shown(r) ==
  IF ask.table = "rollup"
  THEN [r EXCEPT !.src_port = Folded(@), !.dst_port = Folded(@)] ELSE r
Wanted(r) == InScope(r) /\ \A c \in question.filters : filter(Shown(r), c)

\* An interface is one of its exporter.
AnswerKey(r) ==
  CASE question.kind = "explore" ->
         [f \in question.groupBy |-> IF f = "in_if" THEN <<r.exporter, r.in_if>> ELSE Shown(r)[f]]
    [] question.kind = "records" -> r.id
    [] question.kind = "exporters" -> r.exporter
    [] OTHER -> r.src_port

\* Received in the window that was asked for; the rollup answers for whole hours
\* up to the last whole second.
InAsked(t) ==
  IF question.kind \in Explorer THEN ask.from <= t /\ t < Until(ask.table, ask.to)
  ELSE ask.to - Max({ask.to - ask.from, SampleInterval}) < t /\ t <= ask.to
InHours(t) ==
  IF ask.table = "rollup" THEN StartOfHour(ask.from) <= t /\ StartOfHour(t) < Until(ask.table, ask.to) ELSE InAsked(t)

\* A flow is gone with its hour, and single flows with the raw row; one that
\* comes of raw age while the raw table is being read may be missed.
OfAge(r) ==
  LET age == landed[r] + RawKeep
  IN \/ question.kind = "explore" /\ StartOfHour(landed[r]) + RollupKeep <= flowNow
     \/ question.kind = "explore" /\ ask.table = "raw" /\ ask.asked <= age /\ age <= flowNow
     \/ question.kind = "records" /\ age <= flowNow

\* The flows an answer must count, stored when it was asked and still within
\* retention when it was given, and those it may count.
Must == {r \in DOMAIN ask.had : Wanted(r) /\ InAsked(landed[r]) /\ ~OfAge(r)}
May == {r \in DOMAIN landed : Wanted(r) /\ InHours(landed[r])}
Amount(S) ==
  SumOf([r \in S |-> IF question.kind = "explore" /\ question.metric = "flows" THEN 1 ELSE r.bytes])
Least(k) == Amount({r \in Must : AnswerKey(r) = k})
Most(k) == Amount({r \in May : AnswerKey(r) = k})

\* A key that is not listed lost its place to larger (or, for records, newer) ones.
Ranked(r) ==
  /\ Cardinality(DOMAIN ask.groups) = LimitOf(question)
  /\ question.kind # "exporters"
  /\ \A k \in DOMAIN ask.groups :
       IF question.kind = "records" /\ question.metric # "bytes"
       THEN \E x \in May : x.id = k /\ landed[x] >= landed[r]
       ELSE Least(AnswerKey(r)) <= ask.groups[k]

\* A ranking by bytes need not name what has none.
Weightless(r) == question.kind \in {"top", "series"} /\ r.bytes = 0

\* An answer counts every flow that was stored and in retention when the
\* question was asked, and none that is not of the asked device, window and
\* filter, whichever table answers and whatever lands, expires or changes owner
\* while its statements are read (chooseTable, resolve, Explore, Service.top).
AnswersAreWhole ==
  ask.stage = "answered" =>
    LET kind == question.kind
    IN /\ \A k \in DOMAIN ask.groups : Least(k) <= ask.groups[k] /\ ask.groups[k] <= Most(k)
       /\ kind = "explore" =>
            /\ Amount(Must) <= ask.total /\ ask.total <= Amount(May)
            /\ Amount(Must) <= SumOf(ask.totals) /\ SumOf(ask.totals) <= Amount(May)
            /\ \A k \in DOMAIN ask.lines : SumOf(ask.lines[k]) <= Most(k)
       /\ kind # "explore" \/ question.groupBy # {} =>
            \A r \in Must : AnswerKey(r) \in DOMAIN ask.groups \/ Ranked(r) \/ Weightless(r)
       /\ kind = "series" =>
            \A v \in DOMAIN ask.lines, t \in DOMAIN ask.totals : ask.lines[v][t] <= ask.totals[t]
=============================================================================
