------------------------------- MODULE Flows_MC -------------------------------
(* TLC instances of the flow collector.                                    *)
EXTENDS FlowDecode, FlowAggregate, RawFlowWriter, FlowQueries

F(typ, len) == [typ |-> typ, len |-> len, ent |-> FALSE]
Def(id, scope, fields) == [id |-> id, scope |-> scope, options |-> scope > 0,
                           fits |-> TRUE, fields |-> fields]

\* Layouts: counters after and before the inline interval, a vendor field and
\* a variable width, an options layout.
LayoutA == <<F("src", 1), F("dst", 1), F("bytes", 2)>>
LayoutB == <<F("rate", 1), F("first", 1), F("bytes", 1), F("dst", 1), F("src", 1)>>
LayoutV == <<F("src", 1), [F("bytes", 1) EXCEPT !.ent = TRUE], F("bytes", VarLength), F("dst", 1)>>
LayoutO == <<F("scope", 1), F("rate", 1)>>

Templates(defs) == [kind |-> "templates", defs |-> defs]
Data(id, body, layout, measured) ==
  [kind |-> "data", id |-> id, body |-> body, layout |-> layout, flows |-> measured]
Measured(bytes, start, rate) == [src |-> 1, dst |-> 2, bytes |-> bytes, start |-> start, rate |-> rate]

\* Two records and a byte of padding; records before and after a
\* wrapped uptime; a
\* short and a long variable width.
DataA == Data(1, <<1, 2, 1, 1, 1, 2, 0, 3, 0>>, LayoutA, <<Measured(5, 0, 1), Measured(3, 0, 1)>>)
DataB == Data(1, <<2, 3, 3, 2, 1, 0, 1, 1, 2, 1>>, LayoutB, <<Measured(3, 19, 2), Measured(1, 21, 1)>>)
DataV == Data(1, <<1, 3, 1, 2, 2, 1, 0, 3, 0, 3, 0, 1, 1, 2>>, LayoutV,
              <<Measured(2, 0, 1), Measured(5, 0, 1)>>)
DataO == Data(2, <<0, 2, 0, 3>>, LayoutO, <<>>)

Packet(from, version, sets) ==
  [from |-> from, version |-> version, domain |-> 1, fits |-> TRUE,
   up |-> 0, unix |-> IF version = 9 THEN 20 ELSE 0, sets |-> sets]

Broken == [Def(3, 0, LayoutA) EXCEPT !.fits = FALSE]

V9Packets == {Packet("e1", 9, sets) : sets \in {
  <<Templates(<<Def(1, 0, LayoutA), Broken, Def(3, 0, LayoutA)>>), DataA>>,
  <<Templates(<<Def(1, 0, LayoutB)>>)>>,
  <<DataB, Templates(<<Def(2, 1, LayoutO)>>), DataO>>,
  <<DataA, [kind |-> "misfit"]>>}}

IPFIXPackets == {Packet("e1", 10, sets) : sets \in {
  <<Templates(<<Def(1, 0, <<>>), Def(1, 0, LayoutV)>>)>>,
  <<[kind |-> "reserved"], DataV>>}}

\* Another exporter announces the same id.
OtherPackets == {Packet("e2", 9, <<Templates(<<Def(1, 0, LayoutB)>>)>>)}

Header(ip) == [kind |-> "header", fits |-> TRUE, ip |-> ip, ether |-> TRUE, mac |-> 3,
               tagged |-> TRUE, vlan |-> 2, src |-> 1, dst |-> 2, frag |-> FALSE,
               port |-> 1, len |-> 3]
IPData == [kind |-> "ip", fits |-> TRUE, src |-> 3, dst |-> 3, port |-> 2, len |-> 2]
Ether == [kind |-> "ether", fits |-> TRUE, mac |-> 1]
Switch == [kind |-> "switch", fits |-> TRUE, vlan |-> 1]
Gateway == [kind |-> "gateway", fits |-> TRUE, own |-> 1, max |-> 2, path |-> <<<<2>>, <<3>>>>]
Sample(recs, rate) == [fits |-> TRUE, framed |-> TRUE, standard |-> TRUE, flow |-> TRUE, max |-> 3,
                       rate |-> rate, in |-> [format |-> 0, value |-> 1],
                       out |-> [format |-> 2, value |-> 1], recs |-> recs]
\* A header before, after and without the decoded record, one that reaches no
\* IP, and a sample cut short.
SFlowPackets == {[from |-> "e1", version |-> 0, max |-> 2, samples |-> ss] : ss \in {
  <<Sample(<<IPData, Header(TRUE), Ether>>, 2), Sample(<<Header(TRUE), IPData, Switch>>, 0)>>,
  <<Sample(<<Header(FALSE), IPData>>, 2), Sample(<<IPData, Gateway>>, 2)>>,
  <<[Sample(<<IPData>>, 0) EXCEPT !.fits = FALSE]>>}}

V5Packets == {[from |-> "e1", version |-> 5, count |-> c, max |-> 2, mode |-> 1, interval |-> 2,
               up |-> 1, unix |-> 20, flows |-> <<[Blank EXCEPT !.src = 1, !.dst = 2, !.bytes = 1,
                                                             !.start = 3, !.end = 1]>>] : c \in 1..2}

CONSTANTS s1, s2   \* the sockets: 2055 and 4739

MCServers == {s1, s2}
MCDatagrams ==
  [s \in MCServers |->
     IF s = s1 THEN V9Packets \cup OtherPackets \cup SFlowPackets \cup V5Packets
                    \cup {[from |-> "e1", version |-> 7], Packet("e3", 9, <<DataA>>)}
     ELSE IPFIXPackets]

\* Records of the aggregate: both ports known, none known, one AS and subnet
\* shared, and a record of no interface.
R(in, out, src, dst, sp, dp, bytes) ==
  [in |-> in, out |-> out, src |-> src, dst |-> dst, srcPort |-> sp, dstPort |-> dp,
   tcp |-> sp = 5, srcAS |-> src, dstAS |-> dst, bytes |-> bytes]
MCFlowPackets == {[exporter |-> "e1", records |-> rs] : rs \in {
  <<R(1, 0, 1, 2, 5, 3, 3), R(0, 1, 2, 1, 3, 5, 1)>>,
  <<R(1, 2, 3, 0, 0, 7, 2)>>,
  <<R(0, 0, 1, 2, 5, 3, 1), R(2, 0, 1, 4, 7, 9, 5)>>}}

CONSTANTS p1, p2, p3
MCRawPackets == {p1, p2, p3}
MCRowsOf == [p \in MCRawPackets |-> IF p = p1 THEN 3 ELSE 1]

\* Stored flows: two of one interface, told apart by an ephemeral port, and one
\* of another device's address.  Device 1 lives at "a", device 2 at "b"; "c" is
\* nobody's until it is claimed.
Stored1(id, exporter, in, sp, flags, bytes) ==
  [id |-> id, exporter |-> exporter, in_if |-> in, src_port |-> sp, dst_port |-> 1,
   tcp_flags |-> flags, bytes |-> bytes]
MCStoredFlows == {Stored1(1, "a", 1, 9, 1, 2), Stored1(2, "c", 1, 2, 2, 3)}
MCHomeAddr == [d \in {1, 2} |-> IF d = 1 THEN "a" ELSE "b"]
MCHomeSite == [d \in {1, 2} |-> d]
Typed(addr, mapped) == [addr |-> addr, mapped |-> mapped]
MCClaimTexts == {Typed("c", TRUE), Typed("a", FALSE)}
MCChartSteps == <<1, 2, 4>>

Question(kind, from, to) ==
  [kind |-> kind, from |-> from, to |-> to, filters |-> {}, groupBy |-> {}, metric |-> "bytes",
   limit |-> 0, devices |-> {}, sites |-> {}, exporters |-> {}, ifIndex |-> 0, step |-> 0]
Only(field, negate, values) == [field |-> field, negate |-> negate, values |-> values]
MCQuestions ==
  {[Question("explore", 0, 4) EXCEPT !.groupBy = {"exporter"}, !.limit = 1],
   [Question("explore", 1, 3) EXCEPT !.groupBy = {"in_if"}, !.devices = {2}, !.metric = "flows"],
   [Question("explore", 0, 3) EXCEPT !.groupBy = {"src_port"}, !.filters = {Only("port", TRUE, {{2}})}],
   [Question("explore", 1, 3) EXCEPT !.groupBy = {"tcp_flags"}, !.limit = 3],
   [Question("explore", NoTime, NoTime) EXCEPT !.filters = {Only("in_if", FALSE, {[addr |-> "a", idx |-> 1]})}],
   [Question("explore", 1, 2) EXCEPT !.groupBy = {"port"}],
   [Question("explore", 1, 2) EXCEPT !.filters = {Only("exporter", FALSE, {{}})}],
   Question("explore", 0, 6),
   [Question("records", 0, NoTime) EXCEPT !.sites = {1}],
   [Question("records", 0, 4) EXCEPT !.metric = "time", !.limit = 1],
   [Question("top", 1, 3) EXCEPT !.devices = {2}],
   [Question("top", 1, 3) EXCEPT !.ifIndex = 1],
   [Question("top", 1, 3) EXCEPT !.limit = 3],
   [Question("top", NoTime, NoTime) EXCEPT !.sites = {1}, !.devices = {1}, !.ifIndex = 1, !.limit = 1,
                                           !.exporters = {Typed("a", TRUE)}],
   [Question("series", 0, 4) EXCEPT !.step = 3, !.limit = 1],
   Question("exporters", 1, 4)}

\* The four parts share nothing but the decoded packet that is handed on: a
\* behaviour is one of one part, while the others rest.
VARIABLE part

FlowsInit ==
  /\ DecodeInit /\ AggregateInit /\ RawInit /\ QueriesInit
  /\ part \in {"decode", "aggregate", "raw", "queries"}
  /\ part # "queries" => question = Question("explore", 0, 6)
FlowsNext ==
  \/ part = "decode" /\ DecodeNext /\ UNCHANGED <<aggregateVars, rawVars, queryVars, part>>
  \/ part = "aggregate" /\ AggregateNext /\ UNCHANGED <<decodeVars, rawVars, queryVars, part>>
  \/ part = "raw" /\ RawNext /\ UNCHANGED <<decodeVars, aggregateVars, queryVars, part>>
  \/ part = "queries" /\ QueriesNext /\ UNCHANGED <<decodeVars, aggregateVars, rawVars, part>>

InRaw(A) == part = "raw" /\ A
FlowsSpec ==
  /\ FlowsInit /\ [][FlowsNext]_<<decodeVars, aggregateVars, rawVars, queryVars, part>>
  /\ WF_rawVars(InRaw(FormBatches)) /\ WF_rawVars(InRaw(Insert \/ InsertFails))
  /\ WF_rawVars(InRaw(Settle)) /\ WF_rawVars(InRaw(EnsureSchema))
=============================================================================
