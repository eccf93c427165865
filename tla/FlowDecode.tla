------------------------------ MODULE FlowDecode ------------------------------
(***************************************************************************)
(* The receive side of the flow collector (internal/flow): one goroutine   *)
(* per UDP socket decodes NetFlow v5, NetFlow v9, IPFIX and sFlow          *)
(* datagrams; v9 and IPFIX share one bounded, expiring cache of templates  *)
(* and one map of announced sampling intervals.                            *)
(*                                                                         *)
(* A byte is a digit 0..Base-1, so 255 is Base-1; the widths a value is    *)
(* narrowed to are one bound, Base^2.  The content of a record is what the *)
(* decoder treats differently: counters (added up), addresses, interface,  *)
(* MAC (first one wins), the four time fields, and the inline sampling     *)
(* interval.  A datagram whose framing is broken carries that as a flag.   *)
(* `layout' and `flows' of a data set are not read by the decoder: they    *)
(* are what the exporter encoded.                                          *)
(***************************************************************************)
EXTENDS Integers, Sequences, FiniteSets, SequencesExt

CONSTANTS
  Servers,        \* goroutines of Collector.serve, one per socket
  Datagrams,      \* what exporters may send to each socket
  Allow,          \* sources Collector.allowed lets in
  MaxTemplates,   \* TemplateCache.Max
  TTL,            \* TemplateCache.TTL
  MaxNow,         \* bound on the clock
  Base,           \* number of values of a byte
  Wrap            \* number of values of the exporter's uptime counter

ASSUME DecodeAssumption ==
  /\ MaxTemplates \in Nat \ {0} /\ TTL \in Nat /\ MaxNow \in Nat
  /\ Base \in Nat \ {0, 1} /\ Wrap \in Nat \ {0, 1}
  /\ \A s \in Servers : \A d \in Datagrams[s] : d.version \in {9, 10} /\ d.fits =>
       /\ Len(d.sets) \in Nat
       /\ \A i \in 1..Len(d.sets) : d.sets[i].kind = "templates" => Len(d.sets[i].defs) \in Nat

VARIABLES
  templates,   \* TemplateCache.templates: key -> [fields, scope, recordLen, hasVarLen, seen]
  sampling,    \* TemplateCache.sampling: <<exporter, domain>> -> interval
  now,         \* time.Now()
  serving,     \* each server: the datagram in hand, how far it got, what it read
  learned      \* history: key -> the usable definition last received, and when

decodeVars == <<templates, sampling, now, serving, learned>>

Rest == [pc |-> "rest"]

DecodeInit ==
  /\ templates = <<>> /\ sampling = <<>> /\ learned = <<>>
  /\ now = 0
  /\ serving = [s \in Servers |-> Rest]

-----------------------------------------------------------------------------
(* The template cache.  A map is a function on the keys it holds.          *)

With(f, k, v) == [x \in DOMAIN f \cup {k} |-> IF x = k THEN v ELSE f[x]]
Without(f, K) == [x \in DOMAIN f \ K |-> f[x]]

Expired(tc, k, at) == at - tc[k].seen > TTL

expireLocked(tc, at) == Without(tc, {k \in DOMAIN tc : Expired(tc, k, at)})

\* A new key makes room by dropping what has expired, and is refused when
\* the cache is still full.
put(tc, k, t, at) ==
  LET room == IF k \notin DOMAIN tc /\ Cardinality(DOMAIN tc) >= MaxTemplates
              THEN expireLocked(tc, at) ELSE tc
  IN IF k \notin DOMAIN tc /\ Cardinality(DOMAIN room) >= MaxTemplates
     THEN room
     ELSE With(room, k, [t EXCEPT !.seen = at])

\* Variant: v9 and IPFIX share one template space.
templateKeyShared(d, id) == <<d.from, d.domain, id, 0>>

templateKey(d, id) == <<d.from, d.domain, id, d.version>>

samplingKey(d) == <<d.from, d.domain>>

\* get deletes an expired template before it says there is none.
Got(tc, k, at) == k \in DOMAIN tc /\ ~Expired(tc, k, at)
AfterGet(tc, k, at) ==
  IF k \in DOMAIN tc /\ Expired(tc, k, at) THEN Without(tc, {k}) ELSE tc

-----------------------------------------------------------------------------
(* Template sets.  A definition is [id, scope, fields, fits, options];     *)
(* `fits' is FALSE when its declared counts run past the set.              *)

\* A length of 0xFFFF: longer than any datagram, and in IPFIX a width that
\* the record itself carries.
VarLength == Base * Base * Base

Sum(s) == FoldLeft(LAMBDA a, x : a + x, 0, s)

Template(def, version) ==
  LET variable(f) == version = 10 /\ f.len = VarLength
  IN [fields |-> def.fields, scope |-> def.scope, seen |-> 0,
      hasVarLen |-> \E j \in DOMAIN def.fields : variable(def.fields[j]),
      recordLen |-> Sum([j \in DOMAIN def.fields |->
                          IF variable(def.fields[j]) THEN 0 ELSE def.fields[j].len])]

\* The walk over a set stops at a definition that cannot be located.  A v9
\* template of no fields stops it too; in IPFIX that is a withdrawal, which
\* is stepped over.
StopsSet(def, version) ==
  \/ ~def.fits
  \/ version = 9 /\ ~def.options /\ def.fields = <<>>
  \/ version = 10 /\ def.options /\ def.fields # <<>> /\ def.scope \notin 1..Len(def.fields)

Usable(def, version) ==
  LET t == Template(def, version)
  IN /\ def.fields # <<>>
     /\ t.hasVarLen \/ t.recordLen > 0
     /\ version = 9 => (def.options => def.scope > 0)
     /\ version = 10 => \A j \in DOMAIN def.fields : def.fields[j].len > 0

\* parseTemplates, parseOptionsTemplates and parseIPFIXTemplates hand the
\* definition at i to the cache.
Handed(set, version, i) ==
  Usable(set.defs[i], version) /\ \A j \in 1..i : ~StopsSet(set.defs[j], version)

-----------------------------------------------------------------------------
(* Data sets.                                                              *)

beUint(b)  == FoldLeft(LAMBDA v, c : v * Base + c, 0, b)
narrow(v)  == IF v >= Base * Base THEN 0 ELSE v

FixedRecords(body, t) ==
  LET start(j) == Sum([i \in 1..(j - 1) |-> t.fields[i].len])
      record(i) == [j \in DOMAIN t.fields |->
                     SubSeq(body, (i - 1) * t.recordLen + start(j) + 1,
                                  (i - 1) * t.recordLen + start(j) + t.fields[j].len)]
  IN [i \in 1..(Len(body) \div t.recordLen) |-> record(i)]

\* One field of a variable-length record: w is where the walk stands.  The
\* width of a variable field is one byte, or Base-1 and then two bytes.
WalkField(body, w, f) ==
  LET n      == Len(body)
      short  == f.len = VarLength /\ w.off < n /\ body[w.off + 1] # Base - 1
      long   == f.len = VarLength /\ w.off + 3 <= n /\ body[w.off + 1] = Base - 1
      header == IF short THEN 1 ELSE IF long THEN 3 ELSE 0
      width  == IF short THEN body[w.off + 1]
                ELSE IF long THEN beUint(SubSeq(body, w.off + 2, w.off + 3))
                ELSE f.len
      from   == w.off + header
  IN IF ~w.ok \/ (f.len = VarLength /\ ~short /\ ~long) \/ from + width > n
     THEN [w EXCEPT !.ok = FALSE]
     ELSE [ok |-> TRUE, off |-> from + width,
           vals |-> Append(w.vals, SubSeq(body, from + 1, from + width))]

VariableRecords(body, t) ==
  LET record(off) == FoldLeft(LAMBDA w, f : WalkField(body, w, f),
                              [ok |-> TRUE, off |-> off, vals |-> <<>>], t.fields)
      walk[off \in 0..Len(body)] ==
        IF off = Len(body) THEN <<>>
        ELSE LET w == record(off)
             IN IF ~w.ok \/ w.off = off THEN <<>> ELSE <<w.vals>> \o walk[w.off]
  IN walk[0]

eachRecord(body, t) ==
  IF t.hasVarLen THEN VariableRecords(body, t) ELSE FixedRecords(body, t)

-----------------------------------------------------------------------------
(* Records.  0 is the zero value of every field: no address, no time.      *)

Blank == [src |-> 0, dst |-> 0, bytes |-> 0, in |-> 0, out |-> 0, mac |-> 0, vlan |-> 0, as |-> 0,
          start |-> 0, end |-> 0, rate |-> 0, port |-> 0]

\* Relative times and the inline interval are kept aside until the whole
\* record has been read.
Aside == [inline |-> 0, first |-> 0, last |-> 0, boot |-> 0]

\* netip.AddrFromSlice accepts only the width of an address: one byte here.
AddrOr(old, val) == IF Len(val) = 1 THEN val[1] ELSE old

readRawField(x, typ, val) ==
  CASE typ = "mac"   -> [x EXCEPT !.r.mac = IF Len(val) = 2 /\ @ = 0 THEN beUint(val) ELSE @]
    [] typ = "start" -> [x EXCEPT !.r.start = beUint(val)]
    [] typ = "end"   -> [x EXCEPT !.r.end = beUint(val)]
    [] typ = "first" -> [x EXCEPT !.first = beUint(val)]
    [] typ = "last"  -> [x EXCEPT !.last = beUint(val)]
    [] typ = "boot"  -> [x EXCEPT !.boot = beUint(val)]
    [] OTHER         -> x

readField(x, typ, val) ==
  CASE typ = "bytes" -> [x EXCEPT !.r.bytes = @ + beUint(val)]
    [] typ = "src"   -> [x EXCEPT !.r.src = AddrOr(@, val)]
    [] typ = "dst"   -> [x EXCEPT !.r.dst = AddrOr(@, val)]
    [] typ = "in"    -> [x EXCEPT !.r.in = narrow(beUint(val))]
    [] typ = "out"   -> [x EXCEPT !.r.out = narrow(beUint(val))]
    [] typ = "rate"  -> [x EXCEPT !.inline = beUint(val)]
    [] OTHER         -> readRawField(x, typ, val)

\* exportClock.at: subtract in the counter's width, read the result as signed.
clockAt(clock, up) ==
  LET age == (clock.up - up) % Wrap
  IN IF up = 0 \/ clock.unix = 0 THEN 0
     ELSE clock.unix - (IF 2 * age >= Wrap THEN age - Wrap ELSE age)

Stamped(x, clock) ==
  IF x.boot > 0
  THEN [x.r EXCEPT !.start = IF x.first > 0 THEN x.boot + narrow(x.first) ELSE @,
                   !.end   = IF x.last > 0 THEN x.boot + narrow(x.last) ELSE @]
  ELSE IF x.r.start = 0 /\ x.r.end = 0
  THEN [x.r EXCEPT !.start = clockAt(clock, narrow(x.first)),
                   !.end   = clockAt(clock, narrow(x.last))]
  ELSE x.r

readRecord(t, vals, clock) ==
  LET x == FoldLeft(LAMBDA y, j : IF t.fields[j].ent THEN y
                                  ELSE readField(y, t.fields[j].typ, vals[j]),
                    [r |-> Blank] @@ Aside, [j \in 1..Len(t.fields) |-> j])
      scaled == IF x.inline > 1 /\ x.inline < Base * Base
                THEN [x EXCEPT !.r.bytes = @ * x.inline, !.r.rate = x.inline] ELSE x
  IN Stamped(scaled, clock)

\* A record without both addresses is not a flow.
readFlowData(body, t, clock) ==
  SelectSeq([i \in 1..Len(eachRecord(body, t)) |-> readRecord(t, eachRecord(body, t)[i], clock)],
            LAMBDA r : r.src # 0 /\ r.dst # 0)

\* The intervals an options data set announces, in order; 0 announces nothing.
Intervals(body, t) ==
  LET announces(j) == ~t.fields[j].ent /\ t.fields[j].typ = "rate"
      fields == SelectSeq([j \in 1..Len(t.fields) |-> j], announces)
  IN SelectSeq(FlattenSeq([i \in 1..Len(eachRecord(body, t)) |->
                  [j \in 1..Len(fields) |-> beUint(eachRecord(body, t)[i][fields[j]])]]),
               LAMBDA iv : iv > 0)

\* Variant: a record scaled by its own interval is scaled again.
applySamplingTwice(recs, iv) ==
  [i \in DOMAIN recs |-> IF iv > 1 THEN [recs[i] EXCEPT !.bytes = @ * iv, !.rate = iv]
                         ELSE [recs[i] EXCEPT !.rate = 1]]

applySampling(recs, iv) ==
  [i \in DOMAIN recs |->
     IF recs[i].rate > 1 THEN recs[i]
     ELSE IF iv > 1 THEN [recs[i] EXCEPT !.bytes = @ * iv, !.rate = iv]
     ELSE [recs[i] EXCEPT !.rate = 1]]

-----------------------------------------------------------------------------
(* NetFlow v5 and sFlow, which need no state.                              *)

\* The packet is refused when it claims more records than the format allows
\* or than it carries; mode 0 and intervals 0 and 1 mean no sampling.
DecodeNetFlowV5(d) ==
  LET scale == IF d.mode # 0 /\ d.interval > 1 THEN d.interval ELSE 1
      clock == [up |-> d.up, unix |-> d.unix]
  IN [ok   |-> d.count <= d.max /\ d.count <= Len(d.flows),
      recs |-> [i \in 1..Min({d.count, Len(d.flows)}) |->
                 [d.flows[i] EXCEPT !.bytes = @ * scale, !.rate = scale,
                                    !.start = clockAt(clock, @), !.end = clockAt(clock, @)]]]

\* sflowIf: only format 0 names one interface.
sflowIf(x) == IF x.format # 0 THEN 0 ELSE x.value

\* The raw header supplies the MAC and the tag it carries and, when it
\* reaches an IP header, the addresses; a later fragment has no ports.
sflowReadRawHeader(r, h) ==
  LET eth == IF h.ether THEN [r EXCEPT !.mac = h.mac] ELSE r
      vln == IF h.tagged THEN [eth EXCEPT !.vlan = h.vlan] ELSE eth
  IN IF ~h.ip THEN vln
     ELSE [vln EXCEPT !.src = h.src, !.dst = h.dst, !.port = IF h.frag THEN @ ELSE h.port]

sflowReadIPData(r, p, haveHeader) ==
  IF haveHeader \/ r.src # 0 THEN r
  ELSE [r EXCEPT !.src = p.src, !.dst = p.dst, !.port = p.port]

\* The last AS of the path is the destination's; no path means the router's
\* own; a path longer than the bound leaves the record alone.
sflowReadExtGateway(r, g) ==
  LET path == FlattenSeq(g.path)
  IN IF Len(g.path) > g.max \/ Len(path) > g.max THEN r
     ELSE [r EXCEPT !.as = IF g.path = <<>> THEN g.own
                           ELSE IF path = <<>> THEN 0 ELSE Last(path)]

\* One record of a sample; x is [r, len, header].
sflowReadRecord(x, rec) ==
  CASE ~rec.fits           -> x
    [] rec.kind = "header" -> [r |-> sflowReadRawHeader(x.r, rec), len |-> rec.len, header |-> TRUE]
    [] rec.kind = "ether"  -> [x EXCEPT !.r.mac = IF @ = 0 THEN rec.mac ELSE @]
    [] rec.kind = "ip"     -> [x EXCEPT !.r = sflowReadIPData(@, rec, x.header),
                                        !.len = IF x.header THEN @ ELSE rec.len]
    [] rec.kind = "switch" -> [x EXCEPT !.r.vlan = IF rec.vlan # 0 THEN rec.vlan ELSE @]
    [] rec.kind = "gateway" -> [x EXCEPT !.r = sflowReadExtGateway(@, rec)]

\* A zero rate counts the sample as itself.
decodeSFlowSample(s) ==
  LET x == FoldLeft(sflowReadRecord, [r |-> Blank, len |-> 0, header |-> FALSE], s.recs)
      rate == IF s.rate = 0 THEN 1 ELSE s.rate
  IN [x.r EXCEPT !.rate = rate, !.bytes = x.len * rate,
                 !.in = sflowIf(s.in), !.out = sflowIf(s.out)]

KeptSamples(d) ==
  SelectSeq(d.samples, LAMBDA s : /\ s.standard /\ s.flow /\ s.framed /\ Len(s.recs) <= s.max
                                  /\ decodeSFlowSample(s).src # 0 /\ decodeSFlowSample(s).dst # 0)

\* A sample that does not fit rejects the datagram; one that is not a flow
\* sample, or is malformed inside, is dropped on its own.
DecodeSFlow(d) ==
  [ok   |-> Len(d.samples) <= d.max /\ \A i \in DOMAIN d.samples : d.samples[i].fits,
   recs |-> LET kept == KeptSamples(d)
            IN [i \in 1..Len(kept) |-> decodeSFlowSample(kept[i])]]

-----------------------------------------------------------------------------
(* Collector.handle, one step per call into the shared cache.              *)

Hand(d, pc) == [pc |-> pc, d |-> d, at |-> now, pos |-> 1, recs |-> <<>>,
                awaiting |-> 0, reads |-> <<>>]

Holds(s, h) == serving' = [serving EXCEPT ![s] = h]
Free(s) == serving[s].pc \in {"rest", "accepted", "malformed", "refused"}

allowed(from) == Allow = {} \/ from \in Allow

\* Version 0 is sFlow, whose version is a 32-bit 5: no NetFlow or IPFIX packet
\* starts with two zero bytes.
\* A datagram is refused by source, cannot be read, or is decoded: at once
\* when the format needs no state, set by set when it needs templates.
Receive(s, d) ==
  /\ Free(s)
  /\ Holds(s,
       IF ~allowed(d.from) THEN Hand(d, "refused")
       ELSE IF d.version \notin {0, 5, 9, 10} THEN Hand(d, "malformed")
       ELSE IF d.version \in {9, 10}
            THEN IF d.fits THEN Hand(d, "sets") ELSE Hand(d, "malformed")
       ELSE LET p == IF d.version = 5 THEN DecodeNetFlowV5(d) ELSE DecodeSFlow(d)
            IN IF p.ok THEN [Hand(d, "accepted") EXCEPT !.recs = p.recs]
               ELSE Hand(d, "malformed"))
  /\ UNCHANGED <<templates, sampling, now, learned>>

Set(h) == h.d.sets[h.pos]
AtSet(s, kind) ==
  /\ serving[s].pc = "sets" /\ serving[s].pos <= Len(serving[s].d.sets)
  /\ Set(serving[s]).kind = kind

\* The cache, and the history, after the definitions of the set in hand.
Cached(tc, h) ==
  LET defs == Set(h).defs
      after[i \in 0..Len(defs)] ==
        IF i = 0 THEN tc
        ELSE IF Handed(Set(h), h.d.version, i)
        THEN put(after[i - 1], templateKey(h.d, defs[i].id), Template(defs[i], h.d.version), h.at)
        ELSE after[i - 1]
  IN after[Len(defs)]

Recalled(m, h) ==
  LET defs == Set(h).defs
      after[i \in 0..Len(defs)] ==
        IF i = 0 THEN m
        ELSE IF Handed(Set(h), h.d.version, i)
        THEN With(after[i - 1], <<h.d.from, h.d.domain, defs[i].id, h.d.version>>,
                  [fields |-> defs[i].fields, at |-> h.at])
        ELSE after[i - 1]
  IN after[Len(defs)]

LearnTemplates(s) ==
  /\ AtSet(s, "templates")
  /\ templates' = Cached(templates, serving[s])
  /\ learned' = Recalled(learned, serving[s])
  /\ Holds(s, [serving[s] EXCEPT !.pos = @ + 1])
  /\ UNCHANGED <<sampling, now>>

Known(k) == IF k \in DOMAIN learned THEN learned[k] ELSE [fields |-> <<>>, at |-> 0]

\* A data set without a template is counted; options data announces the
\* sampling interval; anything else is flows.
ReadData(s) ==
  /\ AtSet(s, "data")
  /\ LET h == serving[s]
         set == Set(h)
         k == templateKey(h.d, set.id)
         t == templates[k]
         ivs == Intervals(set.body, t)
         next == [h EXCEPT !.pos = @ + 1]
     IN /\ templates' = AfterGet(templates, k, h.at)
        /\ \/ /\ ~Got(templates, k, h.at)
              /\ Holds(s, [next EXCEPT !.awaiting = @ + 1])
              /\ UNCHANGED sampling
           \/ /\ Got(templates, k, h.at) /\ t.scope > 0
              /\ sampling' = IF ivs = <<>> THEN sampling
                             ELSE With(sampling, samplingKey(h.d), narrow(Last(ivs)))
              /\ Holds(s, next)
           \/ /\ Got(templates, k, h.at) /\ t.scope = 0
              /\ Holds(s, [next EXCEPT
                    !.recs = @ \o readFlowData(set.body, t, [up |-> h.d.up, unix |-> h.d.unix]),
                    !.reads = Append(@, [pos |-> h.pos, fields |-> t.fields,
                                         known |-> Known(<<h.d.from, h.d.domain, set.id, h.d.version>>)])])
              /\ UNCHANGED sampling
  /\ UNCHANGED <<now, learned>>

SkipReserved(s) ==
  /\ AtSet(s, "reserved")
  /\ Holds(s, [serving[s] EXCEPT !.pos = @ + 1])
  /\ UNCHANGED <<templates, sampling, now, learned>>

\* A set that does not fit ends the decode with an error: the flows read so
\* far are dropped, what was learned stays.
MisfitSet(s) ==
  /\ AtSet(s, "misfit")
  /\ Holds(s, [serving[s] EXCEPT !.pc = "malformed", !.recs = <<>>])
  /\ UNCHANGED <<templates, sampling, now, learned>>

\* The interval is looked up last: the datagram itself may announce it.
Accept(s) ==
  /\ serving[s].pc = "sets" /\ serving[s].pos > Len(serving[s].d.sets)
  /\ LET h == serving[s]
         k == samplingKey(h.d)
         iv == IF k \in DOMAIN sampling THEN sampling[k] ELSE 0
     IN Holds(s, [h EXCEPT !.pc = "accepted", !.recs = applySampling(@, iv)])
  /\ UNCHANGED <<templates, sampling, now, learned>>

\* The history forgets what is too old to be read with.
Pass ==
  /\ now < MaxNow /\ now' = now + 1
  /\ learned' = Without(learned, {k \in DOMAIN learned : now' - learned[k].at > TTL
                                    /\ \A s \in Servers : Free(s)})
  /\ UNCHANGED <<templates, sampling, serving>>

DecodeNext ==
  \/ \E s \in Servers : \/ \E d \in Datagrams[s] : Receive(s, d)
                        \/ LearnTemplates(s)
                        \/ ReadData(s)
                        \/ SkipReserved(s)
                        \/ MisfitSet(s)
                        \/ Accept(s)
  \/ Pass

DecodeSpec == DecodeInit /\ [][DecodeNext]_decodeVars

-----------------------------------------------------------------------------
(* Properties.                                                             *)

\* A data set is read with the layout last received from the same exporter,
\* observation domain and protocol under that very id, and no later than TTL
\* after its receipt: templates of v9 and IPFIX, of other exporters, and
\* redefined ones are never mixed up (templateKey, TemplateCache.get).
LayoutIsOwn ==
  \A s \in Servers : serving[s].pc \in {"sets", "accepted"} =>
    \A i \in DOMAIN serving[s].reads :
      LET read == serving[s].reads[i]
      IN read.fields = read.known.fields /\ serving[s].at - read.known.at <= TTL

\* What the exporter measured in the data sets that were read.
Exported(h) ==
  FlattenSeq([i \in DOMAIN h.reads |-> h.d.sets[h.reads[i].pos].flows])

\* A v9 or IPFIX datagram read with the layouts it was encoded with yields
\* exactly the flows the exporter measured, in order, whatever the order of
\* the template's fields, the padding, the position of the uptime counter or
\* a variable width: counters are scaled once, by the record's own interval
\* or else by an announced one (eachRecord, readFlowData, applySampling).
ReadAsExported ==
  \A s \in Servers :
    LET h == serving[s]
    IN (h.pc = "accepted" /\ h.d.version \in {9, 10}
        /\ \A i \in DOMAIN h.reads : h.reads[i].fields = h.d.sets[h.reads[i].pos].layout)
       => /\ Len(h.recs) = Len(Exported(h))
          /\ \A i \in DOMAIN h.recs :
               LET r == h.recs[i]
                   f == Exported(h)[i]
               IN /\ r.src = f.src /\ r.dst = f.dst /\ r.start = f.start
                  /\ r.bytes = f.bytes * r.rate
                  /\ f.rate > 1 => r.rate = f.rate
=============================================================================
