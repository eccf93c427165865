----------------------------- MODULE RawFlowWriter -----------------------------
(***************************************************************************)
(* Per-flow storage: the queue of flowstore.Writer, its flush loop, the    *)
(* schema that is created in the background, and ClickHouse as the writer  *)
(* uses it.  Receivers call Add on the receive path; Run alone flushes.    *)
(*                                                                         *)
(* A row is one record of a packet.  ClickHouse is external: an INSERT     *)
(* whose token is among the last Window ones is accepted and ignored, in   *)
(* the table and, with the setting that goes along, in the view.           *)
(***************************************************************************)
EXTENDS Integers, Sequences, FiniteSets, SequencesExt

CONSTANTS
  RawPackets,    \* accepted packets
  RowsOf,        \* RowsOf[p]: number of records of packet p
  MaxQueued,     \* Writer.MaxQueued
  BatchRows,     \* batchRows
  Window,        \* non_replicated_deduplication_window
  MaxRawFaults   \* bound on failed and unanswered requests

ASSUME RawAssumption ==
  /\ RowsOf \in [RawPackets -> Nat]
  /\ MaxQueued \in Nat /\ BatchRows \in Nat \ {0} /\ Window \in Nat \ {0} /\ MaxRawFaults \in Nat

VARIABLES
  arriving,                  \* packets not yet accepted
  pending, retry, queued,    \* Writer.pending, .retry, .queued
  seq,                       \* Writer.seq, the source of tokens
  flush,                     \* flush: pc, the batches of todo still to send, number sent
  schema,                    \* statements of EnsureSchema that have been executed
  flows, rollup, tokens,     \* ClickHouse: both tables, the deduplication window
  dropped,                   \* rows refused by a full queue
  ctx,                       \* live, cancelled, final once Run has seen it, gone
  rawFaults

queueVars == <<pending, retry, queued, seq>>
storeVars == <<flows, rollup, tokens>>
rawVars == <<arriving, queueVars, flush, schema, storeVars, dropped, ctx, rawFaults>>

RawIdle == [pc |-> "wait", todo |-> <<>>, sent |-> 0]

RawInit ==
  /\ arriving = RawPackets
  /\ pending = <<>> /\ retry = <<>> /\ queued = 0 /\ seq = 0
  /\ flush = RawIdle
  /\ schema = 0
  /\ flows = <<>> /\ rollup = <<>> /\ tokens = <<>>
  /\ dropped = <<>>
  /\ ctx = "live" /\ rawFaults = 0

RawFault == rawFaults < MaxRawFaults /\ rawFaults' = rawFaults + 1

-----------------------------------------------------------------------------
(* Writer.Add.                                                             *)

Rows(p) == [i \in 1..RowsOf[p] |-> <<p, i>>]
Room == IF MaxQueued > queued THEN MaxQueued - queued ELSE 0

\* A full queue keeps what fits and counts the rest.
Add(p) ==
  /\ ctx # "gone" /\ p \in arriving
  /\ arriving' = arriving \ {p}
  /\ LET n == IF Room < RowsOf[p] THEN Room ELSE RowsOf[p]
     IN /\ pending' = pending \o SubSeq(Rows(p), 1, n)
        /\ dropped' = dropped \o SubSeq(Rows(p), n + 1, RowsOf[p])
        /\ queued' = queued + n
  /\ UNCHANGED <<retry, seq, flush, schema, storeVars, ctx, rawFaults>>

-----------------------------------------------------------------------------
(* Writer.flush: form batches under the lock, send them without it, take   *)
(* what was sent off the queue under the lock.                             *)

\* pending cut into batches, each with the token it keeps.
Batches ==
  [i \in 1..((Len(pending) + BatchRows - 1) \div BatchRows) |->
     [token |-> seq + i,
      rows |-> SubSeq(pending, (i - 1) * BatchRows + 1,
                      IF i * BatchRows < Len(pending) THEN i * BatchRows ELSE Len(pending))]]

\* A tick, which the select may still pick after the cancellation, or the last
\* attempt with a context of its own.
FormBatches ==
  /\ flush.pc = "wait" /\ ctx \in {"live", "cancelled"}
  /\ \/ pending \o retry # <<>> /\ UNCHANGED ctx
     \/ ctx = "cancelled" /\ ctx' = "final"
  /\ retry' = retry \o Batches
  /\ seq' = seq + Len(Batches)
  /\ pending' = <<>>
  /\ flush' = [pc |-> "send", todo |-> retry', sent |-> 0]
  /\ UNCHANGED <<arriving, queued, schema, storeVars, dropped, rawFaults>>

\* Statements of schema(), in order: database, flows, flows_1h, the view.
HasTable == schema >= 2
HasView  == schema >= 4

\* ClickHouse accepts an INSERT: a known token changes nothing.
Applies(b) ==
  IF \E i \in DOMAIN tokens : tokens[i] = b.token
  THEN UNCHANGED storeVars
  ELSE /\ flows' = flows \o b.rows
       /\ rollup' = IF HasView THEN rollup \o b.rows ELSE rollup
       /\ tokens' = IF Len(tokens) = Window THEN Append(Tail(tokens), b.token)
                    ELSE Append(tokens, b.token)

\* Variant: a batch sent again gets a token of its own.
InsertFreshToken ==
  /\ flush.pc = "send" /\ flush.todo # <<>> /\ HasTable
  /\ LET b == [Head(flush.todo) EXCEPT !.token = 10 + Len(flows)]
     IN \/ /\ Applies(b)
           /\ flush' = [flush EXCEPT !.todo = Tail(@), !.sent = @ + 1]
           /\ UNCHANGED rawFaults
        \/ RawFault /\ Applies(b) /\ flush' = [flush EXCEPT !.pc = "settle"]
  /\ UNCHANGED <<arriving, queueVars, schema, dropped, ctx>>

\* The batch is stored and counted, or stored and the answer lost.
Insert ==
  /\ flush.pc = "send" /\ flush.todo # <<>> /\ HasTable
  /\ Applies(Head(flush.todo))
  /\ \/ /\ flush' = [flush EXCEPT !.todo = Tail(@), !.sent = @ + 1]
        /\ UNCHANGED rawFaults
     \/ RawFault /\ flush' = [flush EXCEPT !.pc = "settle"]
  /\ UNCHANGED <<arriving, queueVars, schema, dropped, ctx>>

\* The request never gets there, its context is cancelled, or the table does
\* not exist yet: later batches wait behind this one.
InsertFails ==
  /\ flush.pc = "send" /\ flush.todo # <<>>
  /\ \/ HasTable /\ RawFault
     \/ (~HasTable \/ ctx = "cancelled") /\ UNCHANGED rawFaults
  /\ flush' = [flush EXCEPT !.pc = "settle"]
  /\ UNCHANGED <<arriving, queueVars, schema, storeVars, dropped, ctx>>

\* Variant: everything tried is taken off the queue.
SettleAll ==
  /\ flush.pc = "settle" \/ (flush.pc = "send" /\ flush.todo = <<>>)
  /\ queued' = Len(pending) /\ retry' = <<>>
  /\ flush' = [RawIdle EXCEPT !.pc = IF ctx = "final" THEN "ended" ELSE "wait"]
  /\ UNCHANGED <<arriving, pending, seq, schema, storeVars, dropped, ctx, rawFaults>>

\* Variant: the loop ends with the first flush.
SettleEnds ==
  /\ flush.pc = "settle" \/ (flush.pc = "send" /\ flush.todo = <<>>)
  /\ queued' = queued - Len(FlattenSeq([i \in 1..flush.sent |-> retry[i].rows]))
  /\ retry' = SubSeq(retry, flush.sent + 1, Len(retry))
  /\ flush' = [RawIdle EXCEPT !.pc = "ended"]
  /\ UNCHANGED <<arriving, pending, seq, schema, storeVars, dropped, ctx, rawFaults>>

\* A flush under way at the cancellation goes back to the select; Run ends
\* after its last attempt.
Settle ==
  /\ flush.pc = "settle" \/ (flush.pc = "send" /\ flush.todo = <<>>)
  /\ queued' = queued - Len(FlattenSeq([i \in 1..flush.sent |-> retry[i].rows]))
  /\ retry' = SubSeq(retry, flush.sent + 1, Len(retry))
  /\ flush' = [RawIdle EXCEPT !.pc = IF ctx = "final" THEN "ended" ELSE "wait"]
  /\ UNCHANGED <<arriving, pending, seq, schema, storeVars, dropped, ctx, rawFaults>>

-----------------------------------------------------------------------------
(* startRawStore and the end of the process.                               *)

\* EnsureSchema executes its statements in order; a failure starts over ten
\* seconds later, and what exists is left alone.
EnsureSchema ==
  /\ schema < 5 /\ ctx = "live"
  /\ schema' = schema + 1
  /\ UNCHANGED <<arriving, queueVars, flush, storeVars, dropped, ctx, rawFaults>>

Cancel ==
  /\ ctx = "live" /\ RawFault /\ ctx' = "cancelled"
  /\ UNCHANGED <<arriving, queueVars, flush, schema, storeVars, dropped>>

\* The process ends with Collector.Run, which does not wait for the writer.
Exit ==
  /\ ctx \in {"cancelled", "final"} /\ ctx' = "gone"
  /\ flush' = [RawIdle EXCEPT !.pc = "ended"]
  /\ UNCHANGED <<arriving, queueVars, schema, storeVars, dropped, rawFaults>>

RawNext ==
  \/ \E p \in RawPackets : Add(p)
  \/ FormBatches \/ Insert \/ InsertFails \/ Settle
  \/ EnsureSchema \/ Cancel \/ Exit

\* The ticker, the schema loop and a server that answers keep going.
RawSpec ==
  /\ RawInit /\ [][RawNext]_rawVars
  /\ WF_rawVars(FormBatches) /\ WF_rawVars(Insert \/ InsertFails)
  /\ WF_rawVars(Settle) /\ WF_rawVars(EnsureSchema)

-----------------------------------------------------------------------------
(* Properties.                                                             *)

Held == pending \o FlattenSeq([i \in DOMAIN retry |-> retry[i].rows])
Times(s, x) == Cardinality({i \in DOMAIN s : s[i] = x})
Accepted == UNION {{Rows(p)[i] : i \in 1..RowsOf[p]} : p \in RawPackets \ arriving}

\* The queue counter is the number of rows held, never above its bound, and
\* every accepted row is dropped and counted, still held, or stored: neither
\* a failed insert nor packets queued while batches are being sent lose one
\* (Writer.Add, Writer.flush).
RowsAccounted ==
  /\ queued = Len(Held) /\ queued <= MaxQueued
  /\ \A x \in Accepted :
       Times(dropped, x) + Times(Held, x) + Times(flows, x) >= 1
       /\ (Times(dropped, x) = 1 => Times(flows, x) = 0)

\* A row is stored at most once in either table, whatever answers are lost
\* and however often its batch is sent again.
StoredOnce ==
  \A x \in Accepted : Times(flows, x) <= 1 /\ Times(rollup, x) <= 1

\* While the service runs, every accepted row is dropped at the door or
\* reaches ClickHouse: batches that wait behind a failed one are sent too.
RowsLand ==
  \A p \in RawPackets :
    p \notin arriving ~>
      (\A i \in 1..RowsOf[p] : Times(dropped \o flows, Rows(p)[i]) = 1) \/ ctx # "live"
=============================================================================
