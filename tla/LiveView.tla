------------------------------- MODULE LiveView -------------------------------
(***************************************************************************)
(* What a published weathermap shows of a link (internal/maps/live.go):    *)
(* the figures of the port at one of its ends, the last known ones carried *)
(* through a gap in collection, and how old they are.                      *)
(*                                                                         *)
(* The links of a map, and the port that one of them is bound to, which is *)
(* "ours"; the device has another port or none under its second index, and *)
(* renumbers at most once.  Samples move to a new index with the next poll *)
(* and the row of the port with the next inventory sync.  Time is in       *)
(* minutes.  A view is assembled in a few reads, between which the poller, *)
(* the operator and the sync go on; it takes at most about a minute, the   *)
(* limits of its queries.  It is then kept for fifteen seconds and handed  *)
(* out as it is.  Node states are left out.                                *)
(***************************************************************************)
EXTENDS Naturals, FiniteSets

CONSTANTS
  Cadences,     \* polling.Allowed
  LinkShapes,   \* links: [a, b, bandwidth], an end being the device it is on
  Uplinks,      \* device -> wan_capacity_bps, where stated
  Speeds,       \* what ports report as ifSpeed
  Horizon,      \* ages are told apart up to this
  Nowhere, NoView

ASSUME LiveAssumption == Cadences \subseteq Nat \ {0} /\ Horizon \in Nat /\ Horizon > 30

VARIABLES
  cadence,   \* traffic_interval_s of the default profile
  portAt,     \* what the device has under each index: "ours", "other", "none"
  series,    \* the newest sample under each index: [port, age, oper, onTime],
             \* onTime: polled within the cadence since it was last changed
  rowIdx,    \* interfaces.if_index of the bound row
  view       \* the view being assembled, [pc, ...]

liveVars == <<cadence, portAt, series, rowIdx, view>>

Idx == {1, 2}

\* The index in the document, as the link was drawn.
DocIdx == 1

Sample(port, age, oper, onTime) == [port |-> port, age |-> age, oper |-> oper, onTime |-> onTime]
NoSample == Sample("none", Horizon, "none", FALSE)

LiveInit ==
  /\ cadence \in Cadences /\ rowIdx = DocIdx /\ view = NoView
  /\ portAt \in {[i \in Idx |-> IF i = DocIdx THEN "ours" ELSE p] : p \in {"other", "none"}}
  /\ series = [i \in Idx |-> IF portAt[i] = "none" THEN NoSample ELSE Sample(portAt[i], 0, "up", FALSE)]

\* Device, inventory and samples agree on where the port is.
InStep == portAt[rowIdx] = "ours" /\ series[rowIdx].port = "ours"

-----------------------------------------------------------------------------
(* Which figures, over which time.                                         *)

Larger(x, y) == IF x > y THEN x ELSE y
Smaller(x, y) == IF x < y THEN x ELSE y

\* A cadence that cannot be read is a minute.
PollOr(c) == IF c = 0 THEN 1 ELSE c

\* Variant: two minutes, whatever the cadence.
staleAfterFixed(c) == 2

staleAfter(c) == Larger(2 * PollOr(c), 2)

\* The rate window, and how far back a value may be carried.
windows(c) ==
  LET rate == Larger(4 * PollOr(c), 5)
  IN [rate |-> rate, carry |-> Smaller(6 * rate, 60)]

\* The A end where it is bound; from the B end in and out are swapped.
linkEndpoint(l) ==
  IF l.a # Nowhere THEN [dev |-> l.a, mirrored |-> FALSE]
  ELSE [dev |-> l.b, mirrored |-> TRUE]

wanCapacities(l) == [d \in DOMAIN Uplinks \cap {l.a, l.b} |-> Uplinks[d]]

\* A capacity that was set, else the port's speed, else the slower uplink
\* of the ends that are bound, unless one of them is not known.
linkCapacity(l, speed, wan) ==
  LET ends == {l.a, l.b} \ {Nowhere}
  IN IF l.bandwidth > 0 THEN l.bandwidth
     ELSE IF speed > 0 THEN speed
     ELSE IF ends = {} \/ ~(ends \subseteq DOMAIN wan) THEN 0
     ELSE CHOOSE c \in {wan[d] : d \in ends} : \A d \in ends : c <= wan[d]

\* What the port counts: an A end receives what flows towards A.
PortCounts(mirrored) == IF mirrored THEN [in |-> "toB", out |-> "toA"] ELSE [in |-> "toA", out |-> "toB"]

\* Down stays down however old; a status that is neither up nor down is none
\* the map knows.  Without a sample there is no age either.
LinkState(reported, known, stale) ==
  IF reported = "none" THEN "nodata"
  ELSE IF known > stale /\ reported # "down" THEN "stale"
  ELSE IF reported \in {"up", "down"} THEN reported ELSE "nodata"

-----------------------------------------------------------------------------
(* LiveAssembler.Live.                                                     *)

\* Load and windows; the cadence is read each time, or cannot be.
Live(c) ==
  /\ view = NoView /\ c \in {cadence, 0}
  /\ view' = [pc |-> "query", carry |-> windows(c).carry, blind |-> c = 0,
              steady |-> TRUE, ticked |-> FALSE, still |-> InStep]
  /\ UNCHANGED <<cadence, portAt, series, rowIdx>>

\* What the windows hold of a series.
InWindow(s, carry) == [s EXCEPT !.oper = IF s.age <= carry THEN @ ELSE "none"]

\* The series of the last windows, by device and index.  A query that fails
\* ends the request.
QuerySeries ==
  /\ view # NoView /\ view.pc = "query"
  /\ view' = [pc |-> "index", blind |-> view.blind, steady |-> view.steady, ticked |-> view.ticked,
              still |-> view.still, read |-> [i \in Idx |-> InWindow(series[i], view.carry)]]
  /\ UNCHANGED <<cadence, portAt, series, rowIdx>>

QueryFails ==
  /\ view # NoView /\ view.pc = "query" /\ view' = NoView
  /\ UNCHANGED <<cadence, portAt, series, rowIdx>>

\* The index the bound row has now, or, when that cannot be read, the one the
\* document has.
CurrentIndex(found) == IF found THEN rowIdx ELSE DocIdx

\* One of the links, drawn over a port of some speed: the figures are those
\* read under the index.
Assemble(c, link, speed, found) ==
  /\ view # NoView /\ view.pc = "index" /\ c \in {cadence, 0}
  /\ LET end == linkEndpoint(link)
         counts == PortCounts(end.mirrored)
         bound == end.dev # Nowhere
         shown == view.read[CurrentIndex(found)]
     IN view' = [pc |-> "show", blind |-> view.blind \/ c = 0, steady |-> view.steady,
                 still |-> view.still /\ found, of |-> shown, bound |-> bound,
                 in |-> IF end.mirrored THEN counts.out ELSE counts.in,
                 out |-> IF end.mirrored THEN counts.in ELSE counts.out,
                 capacity |-> IF bound THEN linkCapacity(link, speed, wanCapacities(link)) ELSE 0,
                 state |-> IF bound THEN LinkState(shown.oper, shown.age, staleAfter(c)) ELSE "nodata"]
  /\ UNCHANGED <<cadence, portAt, series, rowIdx>>

\* Cached, and handed out.
Show ==
  /\ view # NoView /\ view.pc = "show" /\ view' = NoView
  /\ UNCHANGED <<cadence, portAt, series, rowIdx>>

-----------------------------------------------------------------------------
(* Meanwhile; nothing bears on a view that is assembled.                   *)

Meanwhile == view # NoView => view.pc # "show"

Older(s) == [s EXCEPT !.age = Smaller(s.age + 1, Horizon)]
OnTime(s) == [s EXCEPT !.onTime = s.onTime /\ s.age <= cadence]

\* Samples grow older, those a view has read as well.
Minute ==
  /\ Meanwhile /\ (view # NoView => ~view.ticked)
  /\ series' = [i \in Idx |-> OnTime(Older(series[i]))]
  /\ view' = IF view = NoView THEN view
             ELSE IF view.pc = "query" THEN [view EXCEPT !.ticked = TRUE]
             ELSE [view EXCEPT !.ticked = TRUE, !.read = [i \in Idx |-> Older(view.read[i])]]
  /\ UNCHANGED <<cadence, portAt, rowIdx>>

\* A poll of the device, with the status of the port as ifOperStatus has it.
DevicePolled(status) ==
  /\ Meanwhile
  /\ series' = [i \in Idx |-> IF portAt[i] = "none" THEN series[i]
                              ELSE Sample(portAt[i], 0, IF portAt[i] = "ours" THEN status ELSE "up", TRUE)]
  /\ UNCHANGED <<cadence, portAt, rowIdx, view>>

\* Settings: in force with the next poll.
CadenceSet(c) ==
  /\ Meanwhile /\ c # cadence /\ cadence' = c
  /\ series' = [i \in Idx |-> [series[i] EXCEPT !.onTime = FALSE]]
  /\ view' = IF view = NoView THEN view ELSE [view EXCEPT !.steady = FALSE]
  /\ UNCHANGED <<portAt, rowIdx>>

\* The device gives its ports each other's index.
DeviceRenumbers ==
  /\ Meanwhile /\ portAt[DocIdx] = "ours" /\ portAt' = [i \in Idx |-> portAt[3 - i]]
  /\ view' = IF view = NoView THEN view ELSE [view EXCEPT !.still = FALSE]
  /\ UNCHANGED <<cadence, series, rowIdx>>

\* A sync finds the port under its new index.
RowFollows(i) ==
  /\ Meanwhile /\ portAt[i] = "ours" /\ rowIdx # i /\ rowIdx' = i
  /\ UNCHANGED <<cadence, portAt, series, view>>

Statuses == {"up", "down", "other"}

LiveNext ==
  \/ \E c \in {cadence, 0} :
       \/ Live(c)
       \/ \E l \in LinkShapes, speed \in Speeds, found \in BOOLEAN : Assemble(c, l, speed, found)
  \/ QuerySeries \/ QueryFails \/ Show \/ Minute
  \/ \E status \in Statuses : DevicePolled(status)
  \/ \E c \in Cadences : CadenceSet(c)
  \/ DeviceRenumbers \/ \E i \in Idx : RowFollows(i)

LiveSpec == LiveInit /\ [][LiveNext]_liveVars

-----------------------------------------------------------------------------
(* Properties.                                                             *)

\* Whatever the cadence and whatever changes while a view is assembled:
\* figures are in the link's own directions; they are of the bound port once
\* sync and poll have caught up with a renumbering, although the document
\* still has the old index; a port polled on time is never called stale, nor
\* without data while it is up or down; one silent for two cycles is never
\* called up; and a gap of half an hour is carried, not blanked (FR-MAP-03,
\* FR-MAP-09; staleAfter, windows).
FiguresAreHonest ==
  view # NoView /\ view.pc = "show" /\ view.bound =>
    /\ view.in = "toA" /\ view.out = "toB"
    /\ view.still => view.of.port = "ours"
    /\ view.of.onTime /\ view.steady /\ ~view.blind =>
         view.state = IF view.of.oper = "other" THEN "nodata" ELSE view.of.oper
    /\ view.state = "up" => view.of.age <= 2 * Larger(cadence, 1) \/ ~view.steady
    /\ view.state = "nodata" => view.of.age > 30 \/ view.of.oper = "other"
=============================================================================
