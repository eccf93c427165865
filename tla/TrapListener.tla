----------------------------- MODULE TrapListener -----------------------------
(***************************************************************************)
(* SNMP trap intake (internal/events, cmd/events): datagrams are read from *)
(* several sockets at once, limited per source, resolved to a device,      *)
(* queued, and written in batches to the event store and to the metrics    *)
(* queue; on shutdown the writer drains the queue.                         *)
(*                                                                         *)
(* Time is in the units in which a source earns one token.  What Decode    *)
(* does to the bytes is reduced to the trap's label and agent address; a   *)
(* datagram that is refused, not decoded or of another community changes   *)
(* nothing but counters and is left out.  An inform is acknowledged before *)
(* it is queued, whatever becomes of it.                                   *)
(***************************************************************************)
EXTENDS Integers, Sequences, FiniteSets, SequencesExt, Functions

CONSTANTS
  Sockets, Sources,
  Agents,        \* addresses a v1 trap names as its agent, NoAddr among them
  NoAddr, TrapDevices,
  NoDevice,      \* the source is unknown
  Labels,        \* trap names
  Burst,         \* tokens of a full bucket
  Slack,         \* how long beyond refilling sweep waits
  Lag,           \* how late after being read a datagram is handled at most
  QueueCap, FlushAt, MaxLabels,
  MaxTime, MaxTraps

ASSUME TrapAssumption ==
  /\ {Burst, QueueCap, FlushAt, MaxLabels} \subseteq Nat \ {0}
  /\ {Slack, Lag, MaxTime, MaxTraps} \subseteq Nat

VARIABLES
  now,
  buckets,    \* limiter.buckets: source -> [tokens, last], partial
  reading,    \* per socket: waiting, with a datagram, or closed
  index,      \* AddrIndex.m
  queue, batch,
  seen,       \* labelCap.seen: labels of each device
  written,    \* events.snmp_traps
  loop,       \* writeLoop: "running", "stopping" once ctx is done, "stopped"
  accepted,   \* history: traps let through, by source
  failed,     \* history: traps of a batch that could not be inserted
  due         \* history: traps queued when the listener was told to stop

trapVars == <<now, buckets, reading, index, queue, batch, seen, written, loop, accepted, failed, due>>

Waiting == [pc |-> "waiting"]
Closed == [pc |-> "closed"]

TrapInit ==
  /\ now = 0 /\ buckets = <<>> /\ reading = [s \in Sockets |-> Waiting]
  /\ index \in [Sources \cup Agents -> TrapDevices \cup {NoDevice}] /\ index[NoAddr] = NoDevice
  /\ queue = <<>> /\ batch = <<>> /\ seen = [d \in TrapDevices |-> {}]
  /\ written = {} /\ loop = "running"
  /\ accepted = [x \in Sources |-> 0] /\ failed = {} /\ due = {}

Total == FoldFunction(+, 0, accepted)

-----------------------------------------------------------------------------
(* limiter.                                                                *)

\* The bucket of a source, at a time that may lie before its last use: two
\* sockets take their time before they take the lock.
Refilled(x, at) ==
  IF x \in DOMAIN buckets
  THEN LET have == buckets[x].tokens + at - buckets[x].last IN IF have > Burst THEN Burst ELSE have
  ELSE Burst

\* The source's bucket as allow leaves it.
SetBucket(x, bucket) ==
  buckets' = [y \in DOMAIN buckets \cup {x} |-> IF y = x THEN bucket ELSE buckets[y]]

\* Variant: a source is forgotten before its bucket is full again.
SweepAtOnce == 0

\* Refilled, and some time more.
SweepAfter == Burst + Slack

Sweep ==
  /\ buckets' = Restrict(buckets, {x \in DOMAIN buckets : now - buckets[x].last <= SweepAfter})
  /\ UNCHANGED <<now, reading, index, queue, batch, seen, written, loop, accepted, failed, due>>

-----------------------------------------------------------------------------
(* serve and Handle.                                                       *)

\* A datagram, with the time it was read at.
ReadFrom(s, x, agent, label) ==
  /\ reading[s] = Waiting /\ Total < MaxTraps
  /\ reading' = [reading EXCEPT ![s] = [pc |-> "have", src |-> x, agent |-> agent, label |-> label, at |-> now]]
  /\ UNCHANGED <<now, buckets, index, queue, batch, seen, written, loop, accepted, failed, due>>

\* A socket sees the cancelled context when it next comes round.
ReadTimesOut(s) ==
  /\ reading[s] = Waiting /\ loop # "running" /\ reading' = [reading EXCEPT ![s] = Closed]
  /\ UNCHANGED <<now, buckets, index, queue, batch, seen, written, loop, accepted, failed, due>>

Resolve(t) == IF index[t.src] # NoDevice THEN index[t.src] ELSE index[t.agent]

\* Limited, resolved and queued; a full queue drops the trap.
Handle(s) ==
  /\ reading[s].pc = "have"
  /\ LET t == reading[s]
         have == Refilled(t.src, t.at)
         ok == have >= 1
         trap == [id |-> Total + 1, dev |-> Resolve(t), label |-> t.label]
     IN /\ SetBucket(t.src, [tokens |-> IF ok THEN have - 1 ELSE have, last |-> t.at])
        /\ accepted' = IF ok THEN [accepted EXCEPT ![t.src] = @ + 1] ELSE accepted
        /\ queue' = IF ok /\ Len(queue) < QueueCap THEN Append(queue, trap) ELSE queue
  /\ reading' = [reading EXCEPT ![s] = IF loop = "running" THEN Waiting ELSE Closed]
  /\ UNCHANGED <<now, index, batch, seen, written, loop, failed, due>>

-----------------------------------------------------------------------------
(* writeLoop and write.                                                    *)

Ids(traps) == {traps[i].id : i \in DOMAIN traps}

\* labelCap.label, trap by trap: past the cap a label is not its own series.
Labelled(traps) ==
  LET Note(known, t) ==
        IF t.dev = NoDevice \/ Cardinality(known[t.dev]) >= MaxLabels THEN known
        ELSE [known EXCEPT ![t.dev] = @ \cup {t.label}]
  IN FoldLeft(Note, seen, traps)

\* A call with a cancelled context fails; any other may.
InsertTraps(traps, cancelled) ==
  \/ ~cancelled /\ written' = written \cup Ids(traps) /\ UNCHANGED failed
  \/ failed' = failed \cup Ids(traps) /\ UNCHANGED written

\* A failed insert is logged, and the samples are published all the same.
Write(traps, cancelled) == InsertTraps(traps, cancelled) /\ seen' = Labelled(traps)

\* flush with the loop's own context: the batch is forgotten, inserted or not.
Flush(traps) == batch' = <<>> /\ Write(traps, loop = "stopping")

\* A trap from the queue; a full batch is written at once.  Until select picks
\* ctx.Done(), it may pick this or the tick as well.
Take ==
  /\ loop # "stopped" /\ queue # <<>>
  /\ queue' = Tail(queue)
  /\ LET more == Append(batch, Head(queue))
     IN IF Len(more) >= FlushAt THEN Flush(more)
        ELSE batch' = more /\ UNCHANGED <<seen, written, failed>>
  /\ UNCHANGED <<now, buckets, reading, index, loop, accepted, due>>

FlushBatch ==
  /\ loop # "stopped" /\ batch # <<>>
  /\ Flush(batch)
  /\ UNCHANGED <<now, buckets, reading, index, queue, loop, accepted, due>>

\* The context is cancelled.
Cancel ==
  /\ loop = "running" /\ loop' = "stopping" /\ due' = Ids(queue) \cup Ids(batch)
  /\ UNCHANGED <<now, buckets, reading, index, queue, batch, seen, written, accepted, failed>>

\* Variant: what is queued is left there.
DrainNothing ==
  /\ loop = "stopping" /\ loop' = "stopped" /\ batch' = <<>> /\ Write(batch, FALSE)
  /\ UNCHANGED <<now, buckets, reading, index, queue, accepted, due>>

\* Everything queued by then, in a last write without the cancellation.
Drain ==
  /\ loop = "stopping" /\ loop' = "stopped"
  /\ queue' = <<>> /\ batch' = <<>> /\ Write(batch \o queue, FALSE)
  /\ UNCHANGED <<now, buckets, reading, index, accepted, due>>

-----------------------------------------------------------------------------
(* The address index and time.                                             *)

\* The inventory as it stands: an address has come to a device or left it.
Refresh(a, d) ==
  /\ a # NoAddr /\ index[a] # d /\ index' = [index EXCEPT ![a] = d]
  /\ UNCHANGED <<now, buckets, reading, queue, batch, seen, written, loop, accepted, failed, due>>

\* A datagram is handled within Lag of being read.
TimePasses ==
  /\ now < MaxTime /\ now' = now + 1
  /\ \A s \in Sockets : reading[s].pc = "have" => now' - reading[s].at <= Lag
  /\ UNCHANGED <<buckets, reading, index, queue, batch, seen, written, loop, accepted, failed, due>>

\* What the limiter sees of it: datagrams, sweeps and time.
Intake ==
  \/ \E s \in Sockets : \/ Handle(s)
                        \/ \E x \in Sources, a \in Agents, label \in Labels : ReadFrom(s, x, a, label)
  \/ Sweep \/ TimePasses

TrapNext ==
  \/ Intake \/ Take \/ FlushBatch \/ Cancel \/ Drain
  \/ \E s \in Sockets : ReadTimesOut(s)
  \/ \E a \in Sources \cup Agents, d \in TrapDevices \cup {NoDevice} : Refresh(a, d)

TrapSpec == TrapInit /\ [][TrapNext]_trapVars

-----------------------------------------------------------------------------
(* Properties.                                                             *)

\* A source gets no more traps through than a full bucket and one for each
\* unit of time, although its bucket is forgotten when it has been quiet and
\* two sockets bring times out of order (limiter.allow, limiter.sweep).
SourceIsLimited == \A x \in Sources : accepted[x] <= Burst + now

\* When the writer has stopped, every trap that was queued when the listener
\* was told to stop has been handed to the store, although sockets, ticks and
\* batch are still moving (writeLoop).  Handed, not stored: what a tick or a
\* full batch flushes between the cancellation and the drain is lost with the
\* cancelled context.
DrainedAtStop == loop = "stopped" => due \subseteq written \cup failed
=============================================================================
