-------------------------- MODULE CollectionPipeline --------------------------
(***************************************************************************)
(* From a poll job to a sample in VictoriaMetrics: the poller's workers,   *)
(* its in-memory batch and disk buffer (internal/collection/pollerrt), the *)
(* queue metrics.raw, and the ingester (internal/metrics/app).             *)
(*                                                                         *)
(* A job and the samples its poll yields share one name: a member of       *)
(* Samples.  Batches are sets of samples, since their order is carried by  *)
(* timestamps and VictoriaMetrics ignores duplicates; metrics.raw is a set *)
(* of batches for the same reason.  The size of a batch is its number of   *)
(* samples.                                                                *)
(***************************************************************************)
EXTENDS Naturals, Sequences, FiniteSets

CONSTANTS
  Samples,      \* poll jobs, and what polling them yields
  Workers,      \* worker goroutines of Runtime.Run
  Main,         \* the goroutine of Run that flushes by age and drains the disk
  FlushSize,    \* batchFlushSize
  BufferCap,    \* DiskBuffer.MaxBytes
  MaxFaults     \* bound on failed calls, crashes and stops

ASSUME PipelineAssumption ==
  /\ Main \notin Workers
  /\ FlushSize \in Nat \ {0} /\ BufferCap \in Nat /\ MaxFaults \in Nat

VARIABLES
  job,        \* poll.site.<id>: queued, held by a worker, or acknowledged
  batch,      \* Runtime.batch
  thread,     \* goroutines: program counter, job in hand, batch in hand
  ctx,        \* context of Runtime.Run: live, cancelled, or in the last flush
  disk,       \* DiskBuffer.Dir, oldest file first
  unsent,     \* the file Drain has in hand is still the head of disk
  mq,         \* metrics.raw, ready messages
  ingest,     \* ingester: program counter and delivery in hand
  vm,         \* what VictoriaMetrics holds
  capped, lost, discarded,   \* history: dropped by the cap; dead with the
                             \* process or in a file nobody can read; settled
                             \* without having been written
  faults

pollerVars == <<job, batch, thread, ctx, disk, unsent, capped, lost>>
ingestVars == <<ingest, vm, discarded>>
vars       == <<pollerVars, mq, ingestVars, faults>>

Threads == Workers \cup {Main}

ThreadStates ==
  [pc : {"idle", "poll", "flush", "publish", "spill", "ack", "gone",
         "drain", "send", "unlink"},
   job : SUBSET Samples, out : SUBSET Samples]

Idle == [pc |-> "idle", job |-> {}, out |-> {}]

Init ==
  /\ job = [s \in Samples |-> "queued"]
  /\ batch = {} /\ ctx = "live"
  /\ thread = [t \in Threads |-> Idle]
  /\ disk = <<>> /\ unsent = FALSE
  /\ mq = {}
  /\ ingest = [pc |-> "idle", hand |-> {}]
  /\ vm = {} /\ capped = {} /\ lost = {} /\ discarded = {}
  /\ faults = 0

Fault == faults < MaxFaults /\ faults' = faults + 1
OK    == UNCHANGED faults

Goes(t, r) == thread' = [thread EXCEPT ![t] = r]

\* Where flush returns to: a worker goes on to acknowledge its job.
Return(t) == Goes(t, [thread[t] EXCEPT !.pc = IF t = Main THEN "idle" ELSE "ack",
                                       !.out = {}])

-----------------------------------------------------------------------------
(* Workers.                                                                *)

\* A delivery reaches a worker, even one whose ctx is done: select may
\* choose either case.
TakeJob(t, s) ==
  /\ thread[t].pc = "idle" /\ job[s] = "queued"
  /\ job' = [job EXCEPT ![s] = "held"]
  /\ Goes(t, [pc |-> "poll", job |-> {s}, out |-> {}])
  /\ UNCHANGED <<batch, ctx, disk, unsent, capped, lost, mq,
                 ingestVars, faults>>

\* execute, whatever its outcome, yields samples; append adds them and asks
\* for a flush when the batch is full.
PollAndAppend(t) ==
  /\ thread[t].pc = "poll"
  /\ batch' = batch \cup thread[t].job
  /\ Goes(t, [thread[t] EXCEPT !.pc = IF Cardinality(batch') >= FlushSize
                                      THEN "flush" ELSE "ack"])
  /\ UNCHANGED <<job, ctx, disk, unsent, capped, lost, mq,
                 ingestVars, faults>>

\* Acknowledged whatever the poll's outcome: the retry is the next cycle.
AckJob(t) ==
  /\ thread[t].pc = "ack"
  /\ job' = [s \in Samples |-> IF s \in thread[t].job THEN "acked" ELSE job[s]]
  /\ Goes(t, Idle)
  /\ UNCHANGED <<batch, ctx, disk, unsent, capped, lost, mq,
                 ingestVars, faults>>

WorkerEnds(t) ==
  /\ ctx # "live" /\ thread[t].pc = "idle"
  /\ Goes(t, [Idle EXCEPT !.pc = "gone"])
  /\ UNCHANGED <<job, batch, ctx, disk, unsent, capped, lost, mq,
                 ingestVars, faults>>

-----------------------------------------------------------------------------
(* flush, run by a worker or by the age ticker.                            *)

AgeTick ==
  /\ ctx = "live"
  /\ thread[Main].pc = "idle" /\ batch # {}
  /\ Goes(Main, [Idle EXCEPT !.pc = "flush"])
  /\ UNCHANGED <<job, batch, ctx, disk, unsent, capped, lost, mq,
                 ingestVars, faults>>

\* The batch is taken under batchMu; another goroutine may have emptied it.
TakeBatch(t) ==
  /\ thread[t].pc = "flush"
  /\ IF batch = {} THEN Return(t)
     ELSE Goes(t, [thread[t] EXCEPT !.pc = "publish", !.out = batch])
  /\ batch' = {}
  /\ UNCHANGED <<job, ctx, disk, unsent, capped, lost, mq,
                 ingestVars, faults>>

\* PublishJSON to metrics.raw returned nil.
Published(t) ==
  /\ thread[t].pc = "publish"
  /\ mq' = mq \cup {thread[t].out}
  /\ Return(t)
  /\ UNCHANGED <<job, batch, ctx, disk, unsent, capped, lost,
                 ingestVars, faults>>

\* A call on ctx fails: by a fault, or because ctx is cancelled.  The last
\* flush of Run is made without that cancellation.
CallFails == (ctx = "cancelled" /\ OK) \/ Fault

\* It returned an error, the message may have arrived all the same.
PublishFails(t) ==
  /\ thread[t].pc = "publish"
  /\ CallFails
  /\ mq' \in {mq, mq \cup {thread[t].out}}
  /\ Goes(t, [thread[t] EXCEPT !.pc = "spill"])
  /\ UNCHANGED <<job, batch, ctx, disk, unsent, capped, lost,
                 ingestVars>>

TotalSize(files) ==
  LET sum[n \in 0..Len(files)] ==
        IF n = 0 THEN 0 ELSE sum[n - 1] + Cardinality(files[n])
  IN sum[Len(files)]

Without(files, k) == SubSeq(files, k + 1, Len(files))

\* total <= MaxBytes once the k oldest files are gone.
Fits(files, k) == TotalSize(Without(files, k)) <= BufferCap

\* DiskBuffer.Put: write the file, then enforceCap drops oldest-first.
Spill(t) ==
  /\ thread[t].pc = "spill"
  /\ LET files == Append(disk, thread[t].out)
     IN \E k \in 0..Len(files) :
          /\ Fits(files, k) /\ \A j \in 0..(k - 1) : ~Fits(files, j)
          /\ disk' = Without(files, k)
          /\ capped' = capped \cup UNION {files[i] : i \in 1..k}
          /\ unsent' = (unsent /\ k = 0)
  /\ Return(t)
  /\ UNCHANGED <<job, batch, ctx, lost, mq, ingestVars, faults>>

\* The disk after a Put that did not end well: its file may stay behind cut
\* short, holding no sample one could read.
CutShort == {disk, Append(disk, {})}

\* Put fails (disk full): the batch goes back in front of the one in memory.
SpillFails(t) ==
  /\ thread[t].pc = "spill"
  /\ Fault
  /\ batch' = batch \cup thread[t].out
  /\ disk' \in CutShort
  /\ Return(t)
  /\ UNCHANGED <<job, ctx, unsent, capped, lost, mq, ingestVars>>

-----------------------------------------------------------------------------
(* Drain, run by the drain ticker.                                         *)

DrainTick ==
  /\ ctx = "live"
  /\ thread[Main].pc = "idle" /\ disk # <<>>
  /\ Goes(Main, [Idle EXCEPT !.pc = "drain"])
  /\ UNCHANGED <<job, batch, ctx, disk, unsent, capped, lost, mq,
                 ingestVars, faults>>

\* The loop ends when there is no file or ctx is done.
DrainEnds ==
  /\ thread[Main].pc = "drain"
  /\ ctx # "live" \/ disk = <<>>
  /\ Goes(Main, Idle)
  /\ UNCHANGED <<job, batch, ctx, disk, unsent, capped, lost, mq, ingestVars, faults>>

\* The oldest file is looked up under the lock and read.
DrainRead ==
  /\ thread[Main].pc = "drain"
  /\ ctx = "live" /\ disk # <<>> /\ disk[1] # {}
  /\ Goes(Main, [Idle EXCEPT !.pc = "send", !.out = disk[1]])
  /\ unsent' = TRUE
  /\ UNCHANGED <<job, batch, ctx, disk, capped, lost, mq, ingestVars, faults>>

\* It cannot be read or decoded, because it was cut short or by a fault: the
\* file is removed and the loop goes on.
DrainDiscards ==
  /\ thread[Main].pc = "drain"
  /\ ctx = "live" /\ disk # <<>>
  /\ (disk[1] = {} /\ OK) \/ Fault
  /\ disk' = Tail(disk)
  /\ lost' = lost \cup disk[1]
  /\ UNCHANGED <<job, batch, thread, ctx, unsent, capped, mq, ingestVars>>

DrainSends ==
  /\ thread[Main].pc = "send"
  /\ mq' = mq \cup {thread[Main].out}
  /\ Goes(Main, [thread[Main] EXCEPT !.pc = "unlink"])
  /\ UNCHANGED <<job, batch, ctx, disk, unsent, capped, lost,
                 ingestVars, faults>>

\* Variant: the file is removed although it could not be sent.
DrainGivesUpFile ==
  /\ thread[Main].pc = "send"
  /\ CallFails
  /\ mq' \in {mq, mq \cup {thread[Main].out}}
  /\ Goes(Main, [thread[Main] EXCEPT !.pc = "unlink"])
  /\ UNCHANGED <<job, batch, ctx, disk, unsent, capped, lost,
                 ingestVars>>

\* Still down: the file stays for the next drain cycle.
DrainFails ==
  /\ thread[Main].pc = "send"
  /\ CallFails
  /\ mq' \in {mq, mq \cup {thread[Main].out}}
  /\ Goes(Main, Idle)
  /\ unsent' = FALSE
  /\ UNCHANGED <<job, batch, ctx, disk, capped, lost, ingestVars>>

\* os.Remove of the file in hand, unless enforceCap removed it meanwhile.
DrainUnlinks ==
  /\ thread[Main].pc = "unlink"
  /\ disk' = IF unsent THEN Tail(disk) ELSE disk
  /\ unsent' = FALSE
  /\ Goes(Main, [Idle EXCEPT !.pc = "drain"])
  /\ UNCHANGED <<job, batch, ctx, capped, lost, mq, ingestVars,
                 faults>>

-----------------------------------------------------------------------------
(* The end of the process.                                                 *)

\* ctx is cancelled (SIGTERM).
Stop ==
  /\ ctx = "live"
  /\ Fault
  /\ ctx' = "cancelled"
  /\ UNCHANGED <<job, batch, thread, disk, unsent, capped, lost, mq, ingestVars>>

\* wg.Wait() returned: the last flush.
LastFlush ==
  /\ ctx = "cancelled"
  /\ thread[Main].pc = "idle" /\ \A t \in Workers : thread[t].pc = "gone"
  /\ ctx' = "last"
  /\ Goes(Main, [Idle EXCEPT !.pc = "flush"])
  /\ UNCHANGED <<job, batch, disk, unsent, capped, lost, mq, ingestVars, faults>>

InMemory == batch \cup UNION {thread[t].out : t \in Threads}

\* The process is gone and a new one starts: memory is lost, the disk is not,
\* and the broker redelivers the jobs that were not acknowledged.
Gone ==
  /\ job' = [s \in Samples |-> IF job[s] = "held" THEN "queued" ELSE job[s]]
  /\ lost' = lost \cup {s \in InMemory : job[s] = "acked"}
  /\ batch' = {} /\ thread' = [t \in Threads |-> Idle]
  /\ ctx' = "live" /\ unsent' = FALSE
  /\ IF \E t \in Threads : thread[t].pc = "spill" THEN disk' \in CutShort ELSE UNCHANGED disk
  /\ UNCHANGED <<capped, mq, ingestVars>>

Crash == Fault /\ Gone

\* Run returns after that flush, whether or not it succeeded.
Exit ==
  /\ ctx = "last" /\ thread[Main].pc = "idle"
  /\ Gone /\ OK

-----------------------------------------------------------------------------
(* The ingester.                                                           *)

Deliver(b) ==
  /\ ingest.pc = "idle"
  /\ mq' = mq \ {b}
  /\ ingest' = [pc |-> "write", hand |-> b]
  /\ UNCHANGED <<pollerVars, vm, discarded, faults>>

WriteOK ==
  /\ ingest.pc = "write"
  /\ vm' = vm \cup ingest.hand
  /\ ingest' = [ingest EXCEPT !.pc = "ack"]
  /\ UNCHANGED <<pollerVars, mq, discarded, faults>>

\* vmwrite's post returns the transport's error or a StatusError as it is;
\* errx classifies neither, so KindOf answers KindUnknown ...
WriteErrorKind == "unknown"

\* ... and retryx.Do, like the requeue flag of Nack, looks for transient.
Retryable(kind) == kind = "transient"

\* The import fails, or fails after it took effect, or the ingester's ctx is
\* cancelled under it.  What is not retryable is
\* not retried, and Nack without requeue discards the delivery.
WriteFails ==
  /\ ingest.pc = "write"
  /\ Fault
  /\ vm' \in {vm, vm \cup ingest.hand}
  /\ IF Retryable(WriteErrorKind)
     THEN mq' = mq \cup {ingest.hand} /\ UNCHANGED discarded
     ELSE discarded' = discarded \cup ingest.hand /\ UNCHANGED mq
  /\ ingest' = [pc |-> "idle", hand |-> {}]
  /\ UNCHANGED pollerVars

AckBatch ==
  /\ ingest.pc = "ack"
  /\ ingest' = [pc |-> "idle", hand |-> {}]
  /\ UNCHANGED <<pollerVars, mq, vm, discarded, faults>>

\* Variant: deliveries are taken with auto-ack.
RedeliveredNone == mq

\* The broker redelivers what was not acknowledged.
Redelivered == mq \cup {ingest.hand}

IngesterCrash ==
  /\ ingest.pc # "idle"
  /\ Fault
  /\ mq' = Redelivered
  /\ ingest' = [pc |-> "idle", hand |-> {}]
  /\ UNCHANGED <<pollerVars, vm, discarded>>

-----------------------------------------------------------------------------

Flush(t) == TakeBatch(t) \/ Published(t) \/ PublishFails(t) \/ Spill(t) \/ SpillFails(t)

Worker(t) ==
  \/ \E s \in Samples : TakeJob(t, s)
  \/ PollAndAppend(t) \/ Flush(t) \/ AckJob(t) \/ WorkerEnds(t)

MainLoop ==
  \/ AgeTick \/ DrainTick \/ LastFlush \/ Flush(Main)
  \/ DrainEnds \/ DrainRead \/ DrainDiscards \/ DrainSends \/ DrainFails \/ DrainUnlinks \/ Exit

Ingester ==
  \/ \E b \in mq : Deliver(b)
  \/ WriteOK \/ WriteFails \/ AckBatch

Next ==
  \/ \E t \in Workers : Worker(t)
  \/ MainLoop \/ Stop \/ Crash
  \/ Ingester \/ IngesterCrash

Spec == Init /\ [][Next]_vars

\* Goroutines keep running; both tickers of Run keep firing and select
\* chooses between ready cases at random.
FairSpec ==
  /\ Spec
  /\ \A t \in Workers : WF_vars(Worker(t))
  /\ WF_vars(MainLoop) /\ SF_vars(AgeTick) /\ SF_vars(DrainTick)
  /\ WF_vars(Ingester)

-----------------------------------------------------------------------------

TypeOK ==
  /\ job \in [Samples -> {"queued", "held", "acked"}]
  /\ batch \in SUBSET Samples
  /\ thread \in [Threads -> ThreadStates]
  /\ ctx \in {"live", "cancelled", "last"} /\ unsent \in BOOLEAN
  /\ disk \in Seq(SUBSET Samples)
  /\ mq \in SUBSET (SUBSET Samples)
  /\ ingest \in [pc : {"idle", "write", "ack"}, hand : SUBSET Samples]
  /\ vm \in SUBSET Samples /\ capped \in SUBSET Samples
  /\ lost \in SUBSET Samples /\ discarded \in SUBSET Samples
  /\ faults \in 0..MaxFaults

Files(q) == UNION {q[i] : i \in 1..Len(q)}

\* Past the poller.
Downstream == (UNION mq) \cup ingest.hand \cup vm \cup discarded

\* Where a sample can be without having been forgotten.
Accounted == InMemory \cup Files(disk) \cup Downstream \cup capped \cup lost

\* The sample of an acknowledged job is somewhere on its way, or it was
\* dropped by the buffer's cap, died in the memory of a poller or in a file
\* that Drain could not read, or was thrown away by the ingester's Nack: no
\* hand-over between goroutines, disk, broker and ingester loses it, whatever
\* fails in between.
NothingVanishes ==
  \A s \in Samples : job[s] = "acked" => s \in Accounted

\* ingest.go: "ack only after a confirmed VM write"; doc 07: "VM write failure
\* -> batch nacked/requeued".  A batch leaves metrics.raw only when written.
AtLeastOnce == discarded \subseteq vm

\* Once faults stop, every sample whose job was acknowledged ends up in
\* VictoriaMetrics unless it was dropped by the cap, died with the process or
\* in an unreadable file, or was thrown away by Nack: neither a truncated file
\* nor the broker's absence holds up the files behind it for ever.
EventuallyStored ==
  \A s \in Samples : job[s] = "acked" ~> s \in vm \cup capped \cup lost \cup discarded
=============================================================================
