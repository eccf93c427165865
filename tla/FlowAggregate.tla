----------------------------- MODULE FlowAggregate -----------------------------
(***************************************************************************)
(* The aggregator of the flow collector (internal/flow/aggregate.go) and   *)
(* the loop that drains it once a minute into VictoriaMetrics.  Receivers  *)
(* add packets under the aggregator's mutex while drainLoop takes the      *)
(* counters and publishes the cut.                                         *)
(*                                                                         *)
(* A record is [in, out, src, dst, srcPort, dstPort, tcp, srcAS, dstAS,    *)
(* bytes].  Addresses and ports are small numbers; a port in Services is   *)
(* one application() recognises; two addresses share a subnet when they    *)
(* are equal mod Subnet.  Protocol, DSCP and TCP flags name the record the *)
(* way application() does without a recognised port and are not kept       *)
(* apart: flags stand for the dimensions only some records have.           *)
(***************************************************************************)
EXTENDS Integers, Sequences, FiniteSets, SequencesExt

CONSTANTS
  FlowPackets,   \* packets that may be accepted: [exporter, records]
  TopN,          \* Aggregator.TopN
  MaxKeys,       \* Aggregator.MaxKeys
  Services,      \* ports in wellKnown
  Subnet,        \* addresses per subnet
  MaxPackets,    \* bound on the packets of a behaviour
  MaxDrains      \* bound on the drains

ASSUME AggregateAssumption ==
  /\ TopN \in Nat \ {0} /\ MaxKeys \in Nat \ {0} /\ Subnet \in Nat \ {0}
  /\ Services \subseteq Nat /\ MaxPackets \in Nat /\ MaxDrains \in Nat
  /\ \A p \in FlowPackets : Len(p.records) \in Nat /\ DOMAIN p.records = 1..Len(p.records)
  /\ \A p \in FlowPackets : \A i \in 1..Len(p.records) : p.records[i].bytes \in Nat

VARIABLES
  counts,     \* Aggregator.counts: key -> bytes
  buckets,    \* the cut drainLoop has in hand, or NoBuckets while it waits
  offered,    \* history: bytes offered to each single-valued dimension of an interface
  published,  \* history: bytes written of it
  cutOff,     \* history: bytes below the top N of a drain, or in a failed write
  packets, drains

aggregateVars == <<counts, buckets, offered, published, cutOff, packets, drains>>

\* Values are one-element tuples, so that "other" is a value like them.
Other == <<>>
NoBuckets == <<>>

-----------------------------------------------------------------------------
(* Keys: <<exporter, ifIndex, dimension, value>>.                          *)

\* The recognised port names the service, the lower one when both are; two
\* unknown ports are named by the lower, an absent source port by the other.
application(r) ==
  LET known == {r.srcPort, r.dstPort} \cap Services
  IN IF known # {} THEN CHOOSE p \in known : \A q \in known : p <= q
     ELSE IF r.dstPort < r.srcPort \/ r.srcPort = 0 THEN r.dstPort ELSE r.srcPort

subnet(a) == a \div Subnet

\* The ingress interface, or the egress one.
ifIndexOf(r) == IF r.in # 0 THEN r.in ELSE r.out

\* What one record adds to, in the order it is added; AS 0 is not known, and
\* an AS or subnet both ends share counts once.
KeysOf(exporter, r) ==
  LET key(dim, v) == <<exporter, ifIndexOf(r), dim, <<v>>>>
  IN <<key("talker", r.src), key("talker", r.dst),
       key("conversation", {r.src, r.dst}), key("application", application(r))>>
     \o (IF r.srcAS # 0 THEN <<key("as", r.srcAS)>> ELSE <<>>)
     \o (IF r.dstAS # 0 /\ r.dstAS # r.srcAS THEN <<key("as", r.dstAS)>> ELSE <<>>)
     \o <<key("subnet", subnet(r.src))>>
     \o (IF subnet(r.dst) # subnet(r.src) THEN <<key("subnet", subnet(r.dst))>> ELSE <<>>)
     \o (IF r.tcp THEN <<key("flags", r.tcp)>> ELSE <<>>)

-----------------------------------------------------------------------------
(* Aggregator.Add.                                                         *)

OtherKey(k) == <<k[1], k[2], k[3], Other>>

Plus(f, k, n) == [x \in DOMAIN f \cup {k} |->
                    (IF x \in DOMAIN f THEN f[x] ELSE 0) + (IF x = k THEN n ELSE 0)]

AtCap(c, k) == k \notin DOMAIN c /\ Cardinality(DOMAIN c) >= MaxKeys

\* Variant: past the cap a record is dropped.
addDrops(c, k, bytes) == IF AtCap(c, k) THEN c ELSE Plus(c, k, bytes)

\* A key past the cap is folded into the "other" of its interface and dimension.
add(c, k, bytes) == Plus(c, IF AtCap(c, k) THEN OtherKey(k) ELSE k, bytes)

\* A record with neither interface cannot be attributed.
AddRecord(c, exporter, r) ==
  IF ifIndexOf(r) = 0 THEN c
  ELSE FoldLeft(LAMBDA x, k : add(x, k, r.bytes), c, KeysOf(exporter, r))

Group(k) == <<k[1], k[2], k[3]>>
Single == {"conversation", "application"}

Offer(f, exporter, r) ==
  LET group(dim) == <<exporter, ifIndexOf(r), dim>>
  IN IF ifIndexOf(r) = 0 THEN f
     ELSE Plus(Plus(f, group("conversation"), r.bytes), group("application"), r.bytes)

AddAll(c, p) == FoldLeft(LAMBDA x, r : AddRecord(x, p.exporter, r), c, p.records)
OfferAll(f, p) == FoldLeft(LAMBDA x, r : Offer(x, p.exporter, r), f, p.records)

\* Collector.accept hands a decoded packet to Aggregator.Add.
AcceptPacket(p) ==
  /\ packets < MaxPackets /\ packets' = packets + 1
  /\ counts' = AddAll(counts, p)
  /\ offered' = OfferAll(offered, p)
  /\ UNCHANGED <<buckets, published, cutOff, drains>>

-----------------------------------------------------------------------------
(* Collector.drainLoop.                                                    *)

AggregateInit ==
  /\ counts = <<>> /\ buckets = NoBuckets
  /\ offered = <<>> /\ published = <<>> /\ cutOff = <<>>
  /\ packets = 0 /\ drains = 0

\* The heaviest TopN rows of every exporter, interface and dimension; which
\* of two equal rows is kept does not matter here.
Cut(c) ==
  LET rows(g) == {k \in DOMAIN c : Group(k) = g}
      heaviest(g) == CHOOSE top \in SUBSET rows(g) :
                       /\ Cardinality(top) = Min({TopN, Cardinality(rows(g))})
                       /\ \A k \in top : \A x \in rows(g) \ top : c[k] >= c[x]
      kept == UNION {heaviest(Group(k)) : k \in DOMAIN c}
  IN [k \in kept |-> c[k]]

\* Adds the bytes of the rows c of single-valued dimensions to f.
Totals(f, c) ==
  FoldSet(LAMBDA k, g : Plus(g, Group(k), c[k]), f, {k \in DOMAIN c : k[3] \in Single})

Beyond(c, kept) == [k \in DOMAIN c \ DOMAIN kept |-> c[k]]

\* A tick takes the map and resets it under the mutex; an interval without
\* buckets is not written.
Drain ==
  /\ buckets = NoBuckets /\ drains < MaxDrains /\ counts # <<>>
  /\ drains' = drains + 1
  /\ counts' = <<>>
  /\ buckets' = Cut(counts)
  /\ cutOff' = Totals(cutOff, Beyond(counts, buckets'))
  /\ UNCHANGED <<offered, published, packets>>

\* Every bucket becomes one line per metric in one import; a failed import
\* loses the interval, the loop does not retry.
WriteFlow ==
  /\ buckets # NoBuckets
  /\ \/ published' = Totals(published, buckets) /\ UNCHANGED cutOff
     \/ cutOff' = Totals(cutOff, buckets) /\ UNCHANGED published
  /\ buckets' = NoBuckets
  /\ UNCHANGED <<counts, offered, packets, drains>>

AggregateNext ==
  \/ \E p \in FlowPackets : AcceptPacket(p)
  \/ Drain
  \/ WriteFlow

AggregateSpec == AggregateInit /\ [][AggregateNext]_aggregateVars

-----------------------------------------------------------------------------
(* Properties.                                                             *)

BytesOf(f, g) == IF g \in DOMAIN f THEN f[g] ELSE 0

\* Every byte offered to an interface is in the interval accumulating, in the
\* cut being written, written, or below a cut: the key cap folds and never
\* drops, and a packet accepted while a drain is under way belongs to exactly
\* one interval ("so the total stays honest", for the dimensions in which a
\* record has one value).
TotalsStayHonest ==
  \A g \in DOMAIN offered :
    offered[g] = BytesOf(Totals(<<>>, counts), g) + BytesOf(Totals(<<>>, buckets), g)
                 + BytesOf(published, g) + BytesOf(cutOff, g)

=============================================================================
