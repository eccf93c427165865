----------------------- MODULE CollectionPipeline_proofs -----------------------
(***************************************************************************)
(* No hand-over of the collection pipeline loses a sample, for any number  *)
(* of jobs and workers, any flush size and buffer cap, and any number of   *)
(* faults.                                                                 *)
(***************************************************************************)
EXTENDS CollectionPipeline, TLAPS

-----------------------------------------------------------------------------
(* The disk buffer as a sequence.                                          *)

\* Put followed by enforceCap keeps or reports every sample, and leaves the
\* oldest file alone when nothing is dropped.
LEMMA PutAccounts ==
  ASSUME NEW q \in Seq(SUBSET Samples), NEW b \in SUBSET Samples,
         NEW k \in 0..Len(Append(q, b)), NEW r,
         r = Without(Append(q, b), k)
  PROVE  /\ r \in Seq(SUBSET Samples)
         /\ Files(q) \cup b
              \subseteq Files(r) \cup UNION {Append(q, b)[i] : i \in 1..k}
         /\ UNION {Append(q, b)[i] : i \in 1..k} \subseteq Samples
         /\ k = 0 /\ q # <<>> => r # <<>> /\ r[1] = q[1]
<1> DEFINE f == Append(q, b)
<1>1. /\ f \in Seq(SUBSET Samples) /\ Len(f) = Len(q) + 1
      /\ f[Len(q) + 1] = b /\ \A i \in 1..Len(q) : f[i] = q[i]
  OBVIOUS
<1>2. r \in Seq(SUBSET Samples) /\ Len(r) = Len(f) - k
  BY <1>1 DEF Without
<1>3. ASSUME NEW i \in 1..Len(r)
      PROVE  r[i] = f[i + k]
  <2>1. r = SubSeq(f, k + 1, Len(f)) /\ k \in Nat /\ Len(f) \in Nat /\ k <= Len(f)
    BY <1>1 DEF Without
  <2>2. i \in 1..(Len(f) - (k + 1) + 1)
    BY <1>2, <2>1
  <2>3. r[i] = f[(k + 1) + i - 1]
    BY <1>1, <2>1, <2>2
  <2>4. (k + 1) + i - 1 = i + k
    BY <2>1, <2>2
  <2> QED BY <2>3, <2>4
<1>4. ASSUME NEW i \in 1..Len(f)
      PROVE  f[i] \subseteq Files(r) \cup UNION {f[j] : j \in 1..k}
  <2>1. CASE i <= k
    BY <2>1, <1>1
  <2>2. CASE i > k
    <3>1. i - k \in 1..Len(r)
      BY <2>2, <1>1, <1>2
    <3>2. r[i - k] = f[i]
      BY <3>1, <1>1, <1>2, <1>3
    <3> QED
      BY <3>1, <3>2 DEF Files
  <2> QED
    BY <2>1, <2>2, <1>1
<1>5. Files(q) \cup b \subseteq Files(r) \cup UNION {f[j] : j \in 1..k}
  <2>1. ASSUME NEW i \in 1..Len(q)
        PROVE  q[i] \subseteq Files(r) \cup UNION {f[j] : j \in 1..k}
    BY <1>1, <1>4
  <2>2. b \subseteq Files(r) \cup UNION {f[j] : j \in 1..k}
    <3>1. Len(q) + 1 \in 1..Len(f)
      BY <1>1
    <3> QED BY <3>1, <1>1, <1>4
  <2> QED
    BY <2>1, <2>2 DEF Files
<1>6. UNION {f[i] : i \in 1..k} \subseteq Samples
  <2>1. \A i \in 1..k : f[i] \in SUBSET Samples
    BY <1>1
  <2> QED BY <2>1
<1>7. k = 0 /\ q # <<>> => r # <<>> /\ r[1] = q[1]
  <2>1. ASSUME k = 0, q # <<>>
        PROVE  r # <<>> /\ r[1] = q[1]
    <3>1. Len(q) >= 1
      BY <2>1
    <3>2. Len(r) >= 1 /\ 1 \in 1..Len(r) /\ 1 \in 1..Len(q)
      BY <3>1, <2>1, <1>1, <1>2
    <3>3. r[1] = f[1] /\ f[1] = q[1]
      BY <3>2, <2>1, <1>1, <1>3
    <3> QED BY <3>2, <3>3
  <2> QED BY <2>1
<1> QED
  BY <1>2, <1>5, <1>6, <1>7

\* Removing the oldest file forgets that file only.
LEMMA UnlinkAccounts ==
  ASSUME NEW q \in Seq(SUBSET Samples), q # <<>>
  PROVE  /\ Tail(q) \in Seq(SUBSET Samples)
         /\ Files(q) \subseteq Files(Tail(q)) \cup q[1]
<1>1. Len(q) >= 1 /\ Tail(q) \in Seq(SUBSET Samples) /\ Len(Tail(q)) = Len(q) - 1
  OBVIOUS
<1>2. \A i \in 1..Len(Tail(q)) : Tail(q)[i] = q[i + 1]
  BY <1>1
<1>3. ASSUME NEW i \in 1..Len(q)
      PROVE  q[i] \subseteq Files(Tail(q)) \cup q[1]
  <2>1. CASE i = 1
    BY <2>1
  <2>2. CASE i # 1
    <3>1. i - 1 \in 1..Len(Tail(q)) /\ Tail(q)[i - 1] = q[i]
      BY <2>2, <1>1, <1>2
    <3> QED BY <3>1 DEF Files
  <2> QED BY <2>1, <2>2
<1> QED
  BY <1>1, <1>3 DEF Files

\* A file cut short adds nothing and leaves the oldest file where it is.
LEMMA CutShortAccounts ==
  ASSUME disk \in Seq(SUBSET Samples), disk' \in CutShort
  PROVE  /\ disk' \in Seq(SUBSET Samples)
         /\ Files(disk) \subseteq Files(disk')
         /\ disk # <<>> => disk' # <<>> /\ disk'[1] = disk[1]
<1>1. CASE disk' = disk
  BY <1>1
<1>2. CASE disk' = Append(disk, {})
  <2>1. /\ disk' \in Seq(SUBSET Samples) /\ Len(disk') = Len(disk) + 1 /\ Len(disk) \in Nat
        /\ \A i \in 1..Len(disk) : disk'[i] = disk[i]
    BY <1>2
  <2>2. ASSUME NEW i \in 1..Len(disk) PROVE disk[i] \subseteq Files(disk')
    <3>1. i \in 1..Len(disk') /\ disk'[i] = disk[i]
      BY <2>1
    <3> QED BY <3>1 DEF Files
  <2>3. Files(disk) \subseteq Files(disk')
    BY <2>2 DEF Files
  <2>4. disk # <<>> => 1 \in 1..Len(disk)
    OBVIOUS
  <2> QED BY <2>1, <2>3, <2>4
<1> QED BY <1>1, <1>2 DEF CutShort

-----------------------------------------------------------------------------
(* Types.                                                                  *)

LEMMA GoesTyped ==
  ASSUME TypeOK, NEW t \in Threads, NEW r \in ThreadStates, Goes(t, r)
  PROVE  /\ thread' \in [Threads -> ThreadStates]
         /\ thread'[t] = r
         /\ \A u \in Threads \ {t} : thread'[u] = thread[u]
BY DEF TypeOK, Goes

LEMMA IdleTyped ==
  /\ Idle \in ThreadStates
  /\ \A p \in {"flush", "drain", "gone"} :
       /\ [Idle EXCEPT !.pc = p] \in ThreadStates
       /\ [Idle EXCEPT !.pc = p].pc = p /\ [Idle EXCEPT !.pc = p].out = {}
BY DEF Idle, ThreadStates

LEMMA ThreadTyped ==
  ASSUME TypeOK, NEW t \in Threads, NEW o \in SUBSET Samples,
         NEW p \in {"idle", "flush", "publish", "spill", "ack", "unlink"}
  PROVE  /\ thread[t] \in ThreadStates
         /\ [thread[t] EXCEPT !.pc = p] \in ThreadStates
         /\ [thread[t] EXCEPT !.pc = p, !.out = o] \in ThreadStates
         /\ [thread[t] EXCEPT !.pc = p].pc = p
         /\ [thread[t] EXCEPT !.pc = p].out = thread[t].out
         /\ [thread[t] EXCEPT !.pc = p].job = thread[t].job
         /\ [thread[t] EXCEPT !.pc = p, !.out = o].pc = p
         /\ [thread[t] EXCEPT !.pc = p, !.out = o].out = o
         /\ [thread[t] EXCEPT !.pc = p, !.out = o].job = thread[t].job
<1>1. thread[t] \in ThreadStates
  BY DEF TypeOK
<1> QED
  BY <1>1 DEF ThreadStates

\* What flush leaves behind when it returns.
LEMMA ReturnTyped ==
  ASSUME TypeOK, NEW t \in Threads, Return(t)
  PROVE  /\ thread' \in [Threads -> ThreadStates]
         /\ thread'[t].pc = IF t = Main THEN "idle" ELSE "ack"
         /\ thread'[t].out = {} /\ thread'[t].job = thread[t].job
         /\ \A u \in Threads \ {t} : thread'[u] = thread[u]
<1> DEFINE p == IF t = Main THEN "idle" ELSE "ack"
           r == [thread[t] EXCEPT !.pc = p, !.out = {}]
<1>1. p \in {"idle", "flush", "publish", "spill", "ack", "unlink"}
  OBVIOUS
<1>2. r \in ThreadStates /\ r.pc = p /\ r.out = {} /\ r.job = thread[t].job
  <2>1. thread[t] \in ThreadStates
    BY DEF TypeOK
  <2> HIDE DEF p
  <2> QED BY <1>1, <2>1 DEF ThreadStates
<1>3. Goes(t, r)
  BY DEF Return
<1> HIDE DEF r
<1>4. /\ thread' \in [Threads -> ThreadStates] /\ thread'[t] = r
      /\ \A u \in Threads \ {t} : thread'[u] = thread[u]
  BY ONLY TypeOK, t \in Threads, <1>2, <1>3, GoesTyped
<1> QED
  BY <1>2, <1>4

-----------------------------------------------------------------------------
(* The inductive invariant.  A sample is accounted for from the moment its *)
(* worker appended it (HandedOver); a goroutine that is not publishing has *)
(* nothing in hand (EmptyHands); Drain's file is on disk or was dropped    *)
(* while it is being sent, and past the broker when it is removed          *)
(* (DrainSafe); the ingester forgets a batch only once it is written.      *)

HandedOver ==
  \A t \in Workers :
    thread[t].pc \in {"flush", "publish", "spill", "ack"} => thread[t].job \subseteq Accounted

EmptyHands ==
  \A t \in Threads :
    thread[t].pc \in {"idle", "poll", "flush", "ack", "gone", "drain"} => thread[t].out = {}

DrainSafe ==
  /\ unsent => /\ disk # <<>> /\ disk[1] = thread[Main].out
               /\ thread[Main].pc \in {"send", "unlink"}
  /\ thread[Main].pc = "send" => thread[Main].out \subseteq Files(disk) \cup capped
  /\ thread[Main].pc = "unlink" => thread[Main].out \subseteq Downstream

IngestSafe ==
  /\ ingest.pc = "idle" => ingest.hand = {}
  /\ ingest.pc = "ack" => ingest.hand \subseteq vm

PipelineInv ==
  TypeOK /\ NothingVanishes /\ HandedOver /\ EmptyHands /\ DrainSafe /\ IngestSafe

-----------------------------------------------------------------------------
(* Steps of one goroutine.                                                 *)

\* Only what a step takes out of one goroutine's hand, the batch, the disk or
\* the ingester has to be shown to be elsewhere.
LEMMA GrowsByThread ==
  ASSUME NEW t \in Threads,
         \A u \in Threads \ {t} : thread'[u] = thread[u],
         batch \subseteq Accounted', thread[t].out \subseteq Accounted',
         Files(disk) \subseteq Accounted', Downstream \subseteq Accounted',
         capped \subseteq Accounted', lost \subseteq Accounted'
  PROVE  Accounted \subseteq Accounted'
<1>1. ASSUME NEW u \in Threads
      PROVE  thread[u].out \subseteq Accounted'
  <2>1. CASE u = t
    BY <2>1
  <2>2. CASE u # t
    <3>1. thread'[u].out \subseteq InMemory'
      BY DEF InMemory
    <3> QED BY <2>2, <3>1 DEF Accounted
  <2> QED BY <2>1, <2>2
<1>2. InMemory \subseteq Accounted'
  BY <1>1 DEF InMemory
<1> QED
  BY <1>2 DEF Accounted

\* What each step of a goroutine of the poller has to establish.
LEMMA PollerStep ==
  ASSUME PipelineInv, TypeOK', NEW t \in Threads,
         \A u \in Threads \ {t} : thread'[u] = thread[u],
         UNCHANGED ingestVars, Accounted \subseteq Accounted',
         \A s \in Samples : job'[s] = "acked" => job[s] = "acked" \/ s \in Accounted',
         t \in Workers /\ thread'[t].pc \in {"flush", "publish", "spill", "ack"}
           => thread'[t].job \subseteq Accounted',
         thread'[t].pc \in {"idle", "poll", "flush", "ack", "gone", "drain"}
           => thread'[t].out = {},
         DrainSafe'
  PROVE  PipelineInv'
<1>1. NothingVanishes'
  BY DEF NothingVanishes, PipelineInv
<1>2. HandedOver'
  <2>1. ASSUME NEW u \in Workers,
               thread'[u].pc \in {"flush", "publish", "spill", "ack"}
        PROVE  thread'[u].job \subseteq Accounted'
    <3>1. CASE u = t
      BY <2>1, <3>1
    <3>2. CASE u # t
      <4>1. u \in Threads \ {t}
        BY <3>2 DEF Threads
      <4>2. thread'[u] = thread[u]
        BY <4>1
      <4>3. thread[u].job \subseteq Accounted
        BY <2>1, <4>2 DEF PipelineInv, HandedOver
      <4> QED BY <4>2, <4>3
    <3> QED BY <3>1, <3>2
  <2> QED BY <2>1 DEF HandedOver
<1>3. EmptyHands'
  BY DEF PipelineInv, EmptyHands
<1>4. IngestSafe'
  BY DEF PipelineInv, IngestSafe, ingestVars
<1> QED
  BY <1>1, <1>2, <1>3, <1>4 DEF PipelineInv

\* A worker's step that leaves the disk alone leaves Drain's file safe.
LEMMA DrainUntouched ==
  ASSUME PipelineInv, thread'[Main] = thread[Main],
         UNCHANGED <<disk, unsent, capped>>, Downstream \subseteq Downstream'
  PROVE  DrainSafe'
BY DEF PipelineInv, DrainSafe

\* The same for any goroutine that is not in Drain.
LEMMA DrainElsewhere ==
  ASSUME PipelineInv, NEW t \in Threads,
         thread[t].pc \notin {"send", "unlink"},
         thread'[t].pc \notin {"send", "unlink"},
         \A u \in Threads \ {t} : thread'[u] = thread[u],
         UNCHANGED <<disk, unsent, capped>>, Downstream \subseteq Downstream'
  PROVE  DrainSafe'
<1>1. CASE t = Main
  BY <1>1 DEF PipelineInv, DrainSafe
<1>2. CASE t # Main
  <2>1. Main \in Threads \ {t}
    BY <1>2 DEF Threads
  <2> QED BY <2>1, DrainUntouched
<1> QED BY <1>1, <1>2

LEMMA TakeJobKeeps ==
  ASSUME PipelineInv, NEW t \in Workers, NEW s \in Samples, TakeJob(t, s)
  PROVE  PipelineInv'
<1> DEFINE r == [pc |-> "poll", job |-> {s}, out |-> {}]
<1>1. t \in Threads /\ TypeOK
  BY DEF Threads, PipelineInv
<1>2. r \in ThreadStates
  BY DEF ThreadStates
<1>3. /\ thread' \in [Threads -> ThreadStates] /\ thread'[t] = r
      /\ \A u \in Threads \ {t} : thread'[u] = thread[u]
  BY <1>1, <1>2, GoesTyped DEF TakeJob
<1>4. TypeOK'
  BY <1>1, <1>3 DEF TakeJob, TypeOK, ingestVars
<1>5. Downstream \subseteq Downstream'
  BY DEF TakeJob, Downstream, ingestVars
<1>6. Accounted \subseteq Accounted'
  <2>1. thread[t].out = {}
    BY <1>1 DEF TakeJob, PipelineInv, EmptyHands
  <2>2. batch \subseteq InMemory'
    BY DEF TakeJob, InMemory
  <2> QED
    BY <1>1, <1>3, <1>5, <2>1, <2>2, GrowsByThread DEF TakeJob, Accounted
<1>7. DrainSafe'
  BY <1>1, <1>3, <1>5, DrainElsewhere DEF TakeJob
<1>8. \A x \in Samples : job'[x] = "acked" => job[x] = "acked" \/ x \in Accounted'
  BY DEF TakeJob, PipelineInv, TypeOK
<1>9. UNCHANGED ingestVars
  BY DEF TakeJob
<1> QED
  BY <1>1, <1>3, <1>4, <1>6, <1>7, <1>8, <1>9, PollerStep

LEMMA PollKeeps ==
  ASSUME PipelineInv, NEW t \in Workers, PollAndAppend(t)
  PROVE  PipelineInv'
<1> DEFINE p == IF Cardinality(batch') >= FlushSize THEN "flush" ELSE "ack"
           r == [thread[t] EXCEPT !.pc = p]
<1>1. t \in Threads /\ TypeOK
  BY DEF Threads, PipelineInv
<1>2. r \in ThreadStates /\ r.pc \in {"flush", "ack"}
      /\ r.out = thread[t].out /\ r.job = thread[t].job
  <2>1. p \in {"flush", "ack"}
    OBVIOUS
  <2>2. thread[t] \in ThreadStates
    BY <1>1 DEF TypeOK
  <2> HIDE DEF p
  <2> QED BY <2>1, <2>2 DEF ThreadStates
<1>3. /\ thread' \in [Threads -> ThreadStates] /\ thread'[t] = r
      /\ \A u \in Threads \ {t} : thread'[u] = thread[u]
  <2>1. Goes(t, r)
    BY DEF PollAndAppend
  <2> HIDE DEF r
  <2> QED BY <1>1, <1>2, <2>1, GoesTyped
<1> HIDE DEF r
<1>4. TypeOK'
  <2>1. thread[t].job \subseteq Samples
    BY <1>1 DEF TypeOK, ThreadStates
  <2> QED BY <1>1, <1>3, <2>1 DEF PollAndAppend, TypeOK, ingestVars
<1>5. Downstream \subseteq Downstream'
  BY DEF PollAndAppend, Downstream, ingestVars
<1>a. thread[t].out = {}
  BY <1>1 DEF PollAndAppend, PipelineInv, EmptyHands
<1>b. batch \subseteq InMemory' /\ thread[t].job \subseteq InMemory'
  BY DEF PollAndAppend, InMemory
<1>6. Accounted \subseteq Accounted'
  BY <1>1, <1>3, <1>5, <1>a, <1>b, GrowsByThread DEF PollAndAppend, Accounted
<1>7. DrainSafe'
  BY <1>1, <1>2, <1>3, <1>5, DrainElsewhere DEF PollAndAppend
<1>8. UNCHANGED <<job, ingestVars>>
  BY DEF PollAndAppend
<1>9. thread'[t].job \subseteq Accounted'
  BY <1>2, <1>3, <1>b DEF Accounted
<1> QED
  BY <1>1, <1>2, <1>3, <1>4, <1>6, <1>7, <1>8, <1>9, <1>a, PollerStep

LEMMA AckJobKeeps ==
  ASSUME PipelineInv, NEW t \in Workers, AckJob(t)
  PROVE  PipelineInv'
<1>1. t \in Threads /\ TypeOK
  BY DEF Threads, PipelineInv
<1>3. /\ thread' \in [Threads -> ThreadStates] /\ thread'[t] = Idle
      /\ \A u \in Threads \ {t} : thread'[u] = thread[u]
  BY <1>1, IdleTyped, GoesTyped DEF AckJob
<1>2. Idle.pc = "idle" /\ Idle.out = {}
  BY DEF Idle
<1>4. TypeOK'
  BY <1>1, <1>3 DEF AckJob, TypeOK, ingestVars
<1>5. Downstream \subseteq Downstream'
  BY DEF AckJob, Downstream, ingestVars
<1>6. Accounted \subseteq Accounted'
  <2>1. thread[t].out = {}
    BY <1>1 DEF AckJob, PipelineInv, EmptyHands
  <2>2. batch \subseteq InMemory'
    BY DEF AckJob, InMemory
  <2> QED
    BY <1>1, <1>3, <1>5, <2>1, <2>2, GrowsByThread DEF AckJob, Accounted
<1>7. DrainSafe'
  BY <1>1, <1>2, <1>3, <1>5, DrainElsewhere DEF AckJob
<1>8. \A x \in Samples : job'[x] = "acked" => job[x] = "acked" \/ x \in Accounted'
  <2>1. thread[t].job \subseteq Accounted
    BY DEF AckJob, PipelineInv, HandedOver
  <2> QED
    BY <1>6, <2>1 DEF AckJob
<1>9. UNCHANGED ingestVars
  BY DEF AckJob
<1> QED
  BY <1>1, <1>2, <1>3, <1>4, <1>6, <1>7, <1>8, <1>9, PollerStep

\* WorkerEnds, AgeTick, DrainTick and LastFlush only move a program counter.
LEMMA IdleMoves ==
  ASSUME PipelineInv, TypeOK', NEW t \in Threads, NEW p \in {"flush", "drain", "gone"},
         thread[t].pc = "idle", Goes(t, [Idle EXCEPT !.pc = p]),
         UNCHANGED <<job, batch, disk, unsent, capped, lost, mq, ingestVars>>
  PROVE  PipelineInv'
<1> DEFINE r == [Idle EXCEPT !.pc = p]
<1>1. TypeOK
  BY DEF PipelineInv
<1>2. r \in ThreadStates /\ r.pc = p /\ r.out = {} /\ r.job = {}
  BY IdleTyped DEF Idle
<1>3. /\ thread' \in [Threads -> ThreadStates] /\ thread'[t] = r
      /\ \A u \in Threads \ {t} : thread'[u] = thread[u]
  BY <1>1, <1>2, GoesTyped
<1> HIDE DEF r
<1>5. Downstream \subseteq Downstream'
  BY DEF Downstream, ingestVars
<1>6. Accounted \subseteq Accounted'
  <2>1. thread[t].out = {}
    BY <1>1 DEF PipelineInv, EmptyHands
  <2>2. batch \subseteq InMemory'
    BY DEF InMemory
  <2> QED
    BY <1>1, <1>3, <1>5, <2>1, <2>2, GrowsByThread DEF Accounted
<1>7. DrainSafe'
  BY <1>2, <1>3, <1>5, DrainElsewhere
<1> QED
  BY <1>1, <1>2, <1>3, <1>6, <1>7, PollerStep

LEMMA TakeBatchKeeps ==
  ASSUME PipelineInv, NEW t \in Threads, TakeBatch(t)
  PROVE  PipelineInv'
<1>1. TypeOK /\ thread[t].pc = "flush" /\ thread[t].out = {} /\ batch \in SUBSET Samples
  BY DEF TakeBatch, PipelineInv, EmptyHands, TypeOK
<1>2. /\ thread' \in [Threads -> ThreadStates] /\ thread'[t].out = batch
      /\ thread'[t].pc \in {"publish", "idle", "ack"}
      /\ thread'[t].pc \in {"idle", "ack"} => batch = {}
      /\ thread'[t].job = thread[t].job
      /\ \A u \in Threads \ {t} : thread'[u] = thread[u]
  <2>1. CASE batch = {}
    <3>1. Return(t)
      BY <2>1 DEF TakeBatch
    <3> QED BY <1>1, <2>1, <3>1, ReturnTyped
  <2>2. CASE batch # {}
    <3> DEFINE r == [thread[t] EXCEPT !.pc = "publish", !.out = batch]
    <3>1. r \in ThreadStates /\ r.pc = "publish" /\ r.out = batch /\ r.job = thread[t].job
      <4>1. thread[t] \in ThreadStates
        BY <1>1 DEF TypeOK
      <4> QED BY <1>1, <4>1 DEF ThreadStates
    <3>2. Goes(t, r)
      BY <2>2 DEF TakeBatch
    <3> HIDE DEF r
    <3>3. /\ thread' \in [Threads -> ThreadStates] /\ thread'[t] = r
          /\ \A u \in Threads \ {t} : thread'[u] = thread[u]
      BY <1>1, <3>1, <3>2, GoesTyped
    <3> QED BY <3>1, <3>3
  <2> QED BY <2>1, <2>2
<1>4. TypeOK'
  BY <1>1, <1>2 DEF TakeBatch, TypeOK, ingestVars
<1>5. Downstream \subseteq Downstream'
  BY DEF TakeBatch, Downstream, ingestVars
<1>6. Accounted \subseteq Accounted'
  <2>1. batch \subseteq InMemory'
    BY <1>2 DEF InMemory
  <2> QED
    BY <1>1, <1>2, <1>5, <2>1, GrowsByThread DEF TakeBatch, Accounted
<1>7. DrainSafe'
  BY <1>1, <1>2, <1>5, DrainElsewhere DEF TakeBatch
<1>8. UNCHANGED <<job, ingestVars>>
  BY DEF TakeBatch
<1>9. t \in Workers => thread'[t].job \subseteq Accounted'
  BY <1>1, <1>2, <1>6 DEF PipelineInv, HandedOver
<1> QED
  BY <1>1, <1>2, <1>4, <1>6, <1>7, <1>8, <1>9, PollerStep

LEMMA PublishedKeeps ==
  ASSUME PipelineInv, NEW t \in Threads, Published(t)
  PROVE  PipelineInv'
<1>1. TypeOK /\ thread[t].pc = "publish" /\ thread[t].out \in SUBSET Samples
  BY DEF Published, PipelineInv, TypeOK, ThreadStates
<1>2. /\ thread' \in [Threads -> ThreadStates] /\ thread'[t].out = {}
      /\ thread'[t].pc \in {"idle", "ack"} /\ thread'[t].job = thread[t].job
      /\ \A u \in Threads \ {t} : thread'[u] = thread[u]
  BY <1>1, ReturnTyped DEF Published
<1>3. mq' = mq \cup {thread[t].out}
  BY DEF Published
<1>4. TypeOK'
  <2>1. mq' \in SUBSET (SUBSET Samples)
    BY <1>1, <1>3 DEF TypeOK
  <2> QED BY <1>1, <1>2, <2>1 DEF Published, TypeOK, ingestVars
<1>5. Downstream \subseteq Downstream' /\ thread[t].out \subseteq Downstream'
  BY <1>3 DEF Published, Downstream, ingestVars
<1>6. Accounted \subseteq Accounted'
  <2>1. batch \subseteq InMemory'
    BY DEF Published, InMemory
  <2> QED
    BY <1>1, <1>2, <1>5, <2>1, GrowsByThread DEF Published, Accounted
<1>7. DrainSafe'
  BY <1>1, <1>2, <1>5, DrainElsewhere DEF Published
<1>8. UNCHANGED <<job, ingestVars>>
  BY DEF Published
<1>9. t \in Workers => thread'[t].job \subseteq Accounted'
  BY <1>1, <1>2, <1>6 DEF PipelineInv, HandedOver
<1> QED
  BY <1>1, <1>2, <1>4, <1>6, <1>7, <1>8, <1>9, PollerStep

LEMMA PublishFailsKeeps ==
  ASSUME PipelineInv, NEW t \in Threads, PublishFails(t)
  PROVE  PipelineInv'
<1> DEFINE r == [thread[t] EXCEPT !.pc = "spill"]
<1>1. TypeOK /\ thread[t].pc = "publish" /\ thread[t].out \in SUBSET Samples
  BY DEF PublishFails, PipelineInv, TypeOK, ThreadStates
<1>r. /\ r \in ThreadStates /\ r.pc = "spill" /\ r.out = thread[t].out
      /\ r.job = thread[t].job
  <2>1. thread[t] \in ThreadStates
    BY <1>1 DEF TypeOK
  <2> QED BY <2>1 DEF ThreadStates
<1>g. Goes(t, r)
  BY DEF PublishFails
<1> HIDE DEF r
<1>2. /\ thread' \in [Threads -> ThreadStates] /\ thread'[t] = r
      /\ \A u \in Threads \ {t} : thread'[u] = thread[u]
  BY <1>1, <1>r, <1>g, GoesTyped
<1>3. mq' = mq \/ mq' = mq \cup {thread[t].out}
  BY DEF PublishFails
<1>4. TypeOK'
  <2>1. mq' \in SUBSET (SUBSET Samples)
    BY <1>1, <1>3 DEF TypeOK
  <2>2. faults' \in 0..MaxFaults
    BY <1>1, PipelineAssumption DEF PublishFails, CallFails, OK, Fault, TypeOK
  <2> QED BY <1>1, <1>2, <2>1, <2>2 DEF PublishFails, TypeOK, ingestVars
<1>5. Downstream \subseteq Downstream'
  BY <1>3 DEF PublishFails, Downstream, ingestVars
<1>6. Accounted \subseteq Accounted'
  <2>1. batch \subseteq InMemory' /\ thread'[t].out \subseteq InMemory'
    BY DEF PublishFails, InMemory
  <2> QED
    BY <1>1, <1>2, <1>r, <1>5, <2>1, GrowsByThread DEF PublishFails, Accounted
<1>7. DrainSafe'
  BY <1>1, <1>2, <1>r, <1>5, DrainElsewhere DEF PublishFails
<1>8. UNCHANGED <<job, ingestVars>>
  BY DEF PublishFails
<1>9. t \in Workers => thread'[t].job \subseteq Accounted'
  BY <1>1, <1>2, <1>r, <1>6 DEF PipelineInv, HandedOver
<1> QED
  BY <1>1, <1>2, <1>r, <1>4, <1>6, <1>7, <1>8, <1>9, PollerStep

LEMMA SpillKeeps ==
  ASSUME PipelineInv, NEW t \in Threads, Spill(t)
  PROVE  PipelineInv'
<1> DEFINE files == Append(disk, thread[t].out)
<1>1. TypeOK /\ thread[t].pc = "spill" /\ thread[t].out \in SUBSET Samples
  BY DEF Spill, PipelineInv, TypeOK, ThreadStates
<1>d. disk \in Seq(SUBSET Samples)
  BY <1>1 DEF TypeOK
<1>2. /\ thread' \in [Threads -> ThreadStates] /\ thread'[t].out = {}
      /\ thread'[t].pc \in {"idle", "ack"} /\ thread'[t].job = thread[t].job
      /\ \A u \in Threads \ {t} : thread'[u] = thread[u]
  BY <1>1, ReturnTyped DEF Spill
<1>3. PICK k \in 0..Len(files) :
        /\ disk' = Without(files, k)
        /\ capped' = capped \cup UNION {files[i] : i \in 1..k}
        /\ unsent' = (unsent /\ k = 0)
  BY DEF Spill
<1>p. /\ disk' \in Seq(SUBSET Samples)
      /\ Files(disk) \cup thread[t].out \subseteq Files(disk') \cup capped'
      /\ capped \subseteq capped' /\ capped' \subseteq capped \cup Samples
      /\ k = 0 /\ disk # <<>> => disk' # <<>> /\ disk'[1] = disk[1]
  <2> DEFINE gone == UNION {files[i] : i \in 1..k}
  <2>1. /\ disk' \in Seq(SUBSET Samples)
        /\ Files(disk) \cup thread[t].out \subseteq Files(disk') \cup gone
        /\ gone \subseteq Samples
        /\ k = 0 /\ disk # <<>> => disk' # <<>> /\ disk'[1] = disk[1]
    BY <1>1, <1>d, <1>3, PutAccounts
  <2>2. capped' = capped \cup gone
    BY <1>3
  <2> HIDE DEF gone
  <2> QED BY <2>1, <2>2
<1>f. Files(disk)' = Files(disk')
  BY DEF Files
<1>4. TypeOK'
  <2>1. unsent' \in BOOLEAN
    BY <1>3
  <2>2. capped' \in SUBSET Samples
    BY <1>1, <1>p DEF TypeOK
  <2> QED BY <1>1, <1>2, <1>p, <2>1, <2>2 DEF Spill, TypeOK, ingestVars
<1>5. Downstream \subseteq Downstream'
  BY DEF Spill, Downstream, ingestVars
<1>6. Accounted \subseteq Accounted'
  <2>1. batch \subseteq InMemory'
    BY DEF Spill, InMemory
  <2>2. Files(disk) \subseteq Accounted' /\ thread[t].out \subseteq Accounted'
        /\ capped \subseteq Accounted'
    BY <1>p, <1>f DEF Accounted
  <2> QED
    BY <1>1, <1>2, <1>5, <2>1, <2>2, GrowsByThread DEF Spill, Accounted
<1>7. DrainSafe'
  <2>1. CASE t = Main
    <3>1. unsent = FALSE
      BY <1>1, <2>1 DEF PipelineInv, DrainSafe, TypeOK
    <3> QED BY <1>2, <1>3, <2>1, <3>1 DEF DrainSafe
  <2>2. CASE t # Main
    <3>1. thread'[Main] = thread[Main]
      BY <1>2, <2>2 DEF Threads
    <3>2. unsent' => unsent /\ k = 0
      BY <1>3
    <3>3. DrainSafe
      BY DEF PipelineInv
    <3> QED
      BY <1>5, <1>p, <1>f, <3>1, <3>2, <3>3 DEF DrainSafe
  <2> QED BY <2>1, <2>2
<1>8. UNCHANGED <<job, ingestVars>>
  BY DEF Spill
<1>9. t \in Workers => thread'[t].job \subseteq Accounted'
  BY <1>1, <1>2, <1>6 DEF PipelineInv, HandedOver
<1> QED
  BY <1>1, <1>2, <1>4, <1>6, <1>7, <1>8, <1>9, PollerStep

LEMMA SpillFailsKeeps ==
  ASSUME PipelineInv, NEW t \in Threads, SpillFails(t)
  PROVE  PipelineInv'
<1>1. TypeOK /\ thread[t].pc = "spill" /\ thread[t].out \in SUBSET Samples
  BY DEF SpillFails, PipelineInv, TypeOK, ThreadStates
<1>2. /\ thread' \in [Threads -> ThreadStates] /\ thread'[t].out = {}
      /\ thread'[t].pc \in {"idle", "ack"} /\ thread'[t].job = thread[t].job
      /\ \A u \in Threads \ {t} : thread'[u] = thread[u]
  BY <1>1, ReturnTyped DEF SpillFails
<1>3. /\ disk' \in Seq(SUBSET Samples) /\ Files(disk) \subseteq Files(disk)'
      /\ disk # <<>> => disk' # <<>> /\ disk'[1] = disk[1]
  <2>1. disk \in Seq(SUBSET Samples) /\ disk' \in CutShort
    BY <1>1 DEF SpillFails, TypeOK
  <2>2. Files(disk)' = Files(disk')
    BY DEF Files
  <2> QED BY <2>1, <2>2, CutShortAccounts
<1>4. TypeOK'
  <2>2. faults' \in 0..MaxFaults
    BY <1>1, PipelineAssumption DEF SpillFails, Fault, TypeOK
  <2> QED BY <1>1, <1>2, <1>3, <2>2 DEF SpillFails, TypeOK, ingestVars
<1>5. Downstream \subseteq Downstream'
  BY DEF SpillFails, Downstream, ingestVars
<1>6. Accounted \subseteq Accounted'
  <2>1. batch \subseteq InMemory' /\ thread[t].out \subseteq InMemory'
    BY DEF SpillFails, InMemory
  <2> QED
    BY <1>1, <1>2, <1>3, <1>5, <2>1, GrowsByThread DEF SpillFails, Accounted
<1>7. DrainSafe'
  <2>1. CASE t = Main
    <3>1. unsent = FALSE
      BY <1>1, <2>1 DEF PipelineInv, DrainSafe, TypeOK
    <3> QED BY <1>2, <2>1, <3>1 DEF SpillFails, DrainSafe
  <2>2. CASE t # Main
    <3>1. thread'[Main] = thread[Main] /\ unsent' = unsent /\ capped' = capped
      BY <1>2, <2>2 DEF Threads, SpillFails
    <3> QED BY <1>3, <1>5, <3>1 DEF PipelineInv, DrainSafe
  <2> QED BY <2>1, <2>2
<1>8. UNCHANGED <<job, ingestVars>>
  BY DEF SpillFails
<1>9. t \in Workers => thread'[t].job \subseteq Accounted'
  BY <1>1, <1>2, <1>6 DEF PipelineInv, HandedOver
<1> QED
  BY <1>1, <1>2, <1>4, <1>6, <1>7, <1>8, <1>9, PollerStep

-----------------------------------------------------------------------------
(* Drain.                                                                  *)

LEMMA DrainEndsKeeps ==
  ASSUME PipelineInv, DrainEnds
  PROVE  PipelineInv'
<1>1. /\ TypeOK /\ Main \in Threads /\ thread[Main].pc = "drain" /\ thread[Main].out = {}
      /\ Main \notin Workers
  BY PipelineAssumption DEF DrainEnds, PipelineInv, TypeOK, EmptyHands, Threads
<1>2. Idle.pc = "idle" /\ Idle.out = {} /\ Idle.job = {} /\ Goes(Main, Idle)
  BY DEF Idle, DrainEnds
<1>3. /\ thread' \in [Threads -> ThreadStates] /\ thread'[Main] = Idle
      /\ \A u \in Threads \ {Main} : thread'[u] = thread[u]
  BY <1>1, <1>2, IdleTyped, GoesTyped
<1>4. TypeOK'
  BY <1>1, <1>3 DEF DrainEnds, TypeOK, ingestVars
<1>5. Downstream \subseteq Downstream' /\ batch \subseteq InMemory'
  BY DEF DrainEnds, Downstream, ingestVars, InMemory
<1>6. Accounted \subseteq Accounted'
  BY <1>1, <1>3, <1>5, GrowsByThread DEF DrainEnds, Accounted
<1>7. DrainSafe'
  BY <1>1, <1>2, <1>3, <1>5, DrainElsewhere DEF DrainEnds
<1>8. UNCHANGED <<job, ingestVars>>
  BY DEF DrainEnds
<1> QED
  BY <1>1, <1>2, <1>3, <1>4, <1>6, <1>7, <1>8, PollerStep

LEMMA DrainReadKeeps ==
  ASSUME PipelineInv, DrainRead
  PROVE  PipelineInv'
<1> DEFINE r == [Idle EXCEPT !.pc = "send", !.out = disk[1]]
<1>1. /\ TypeOK /\ Main \in Threads /\ thread[Main].pc = "drain" /\ thread[Main].out = {}
      /\ disk \in Seq(SUBSET Samples) /\ Main \notin Workers
  BY PipelineAssumption DEF DrainRead, PipelineInv, TypeOK, EmptyHands, Threads
<1>2. disk[1] \in SUBSET Samples /\ disk[1] \subseteq Files(disk)
  <2>1. 1 \in 1..Len(disk)
    BY <1>1 DEF DrainRead
  <2> QED BY <1>1, <2>1 DEF Files
<1>3. r \in ThreadStates /\ r.pc = "send" /\ r.out = disk[1] /\ r.job = {}
  BY <1>2 DEF Idle, ThreadStates
<1>g. disk # <<>> /\ Goes(Main, r) /\ unsent' = TRUE
  BY DEF DrainRead
<1> HIDE DEF r
<1>4. /\ thread' \in [Threads -> ThreadStates] /\ thread'[Main] = r
      /\ \A u \in Threads \ {Main} : thread'[u] = thread[u]
  BY <1>1, <1>g, <1>3, GoesTyped
<1>5. TypeOK'
  BY <1>1, <1>g, <1>4 DEF DrainRead, TypeOK, ingestVars
<1>6. Downstream \subseteq Downstream' /\ batch \subseteq InMemory'
  BY DEF DrainRead, Downstream, ingestVars, InMemory
<1>7. Accounted \subseteq Accounted'
  BY <1>1, <1>4, <1>6, GrowsByThread DEF DrainRead, Accounted
<1>8. DrainSafe'
  <2>1. UNCHANGED <<disk, capped>>
    BY DEF DrainRead
  <2>2. Files(disk)' = Files(disk)
    BY <2>1
  <2> QED BY <1>g, <1>2, <1>3, <1>4, <2>1, <2>2 DEF DrainSafe
<1>9. UNCHANGED <<job, ingestVars>>
  BY DEF DrainRead
<1> QED
  BY <1>1, <1>3, <1>4, <1>5, <1>7, <1>8, <1>9, PollerStep

\* What a file that is thrown away held is reported as lost.
LEMMA DrainDiscardsKeeps ==
  ASSUME PipelineInv, DrainDiscards
  PROVE  PipelineInv'
<1>1. /\ TypeOK /\ Main \in Threads /\ thread[Main].pc = "drain"
      /\ disk \in Seq(SUBSET Samples) /\ Main \notin Workers /\ disk # <<>>
      /\ thread' = thread /\ disk' = Tail(disk) /\ lost' = lost \cup disk[1]
      /\ thread[Main].out = {}
  BY PipelineAssumption DEF DrainDiscards, PipelineInv, TypeOK, EmptyHands, Threads
<1>2. /\ disk' \in Seq(SUBSET Samples) /\ Files(disk) \subseteq Files(disk') \cup disk[1]
      /\ disk[1] \in SUBSET Samples
  <2>1. disk[1] \in SUBSET Samples
    BY <1>1
  <2> QED BY <1>1, <2>1, UnlinkAccounts
<1>f. Files(disk)' = Files(disk')
  BY DEF Files
<1>3. TypeOK'
  <2>1. faults' \in 0..MaxFaults
    BY <1>1, PipelineAssumption DEF DrainDiscards, OK, Fault, TypeOK
  <2>2. lost' \in SUBSET Samples
    BY <1>1, <1>2 DEF TypeOK
  <2> QED BY <1>1, <1>2, <2>1, <2>2 DEF DrainDiscards, TypeOK, ingestVars
<1>4. Downstream \subseteq Downstream' /\ batch \subseteq InMemory'
  BY DEF DrainDiscards, Downstream, ingestVars, InMemory
<1>5. Accounted \subseteq Accounted'
  <2>1. Files(disk) \subseteq Accounted' /\ lost \subseteq Accounted'
    BY <1>1, <1>2, <1>f DEF Accounted
  <2> QED
    BY <1>1, <1>4, <2>1, GrowsByThread DEF DrainDiscards, Accounted
<1>6. DrainSafe'
  <2>1. unsent = FALSE /\ unsent' = FALSE
    BY <1>1 DEF PipelineInv, DrainSafe, TypeOK, DrainDiscards
  <2> QED BY <1>1, <2>1 DEF DrainSafe
<1>7. UNCHANGED <<job, ingestVars>>
  BY DEF DrainDiscards
<1> QED
  BY <1>1, <1>3, <1>5, <1>6, <1>7, PollerStep

LEMMA DrainSendsKeeps ==
  ASSUME PipelineInv, DrainSends
  PROVE  PipelineInv'
<1> DEFINE r == [thread[Main] EXCEPT !.pc = "unlink"]
<1>1. /\ TypeOK /\ Main \in Threads /\ thread[Main].pc = "send"
      /\ thread[Main].out \in SUBSET Samples /\ Main \notin Workers
  BY PipelineAssumption DEF DrainSends, PipelineInv, TypeOK, ThreadStates, Threads
<1>r. r \in ThreadStates /\ r.pc = "unlink" /\ r.out = thread[Main].out
  <2>1. thread[Main] \in ThreadStates
    BY <1>1 DEF TypeOK
  <2> QED BY <2>1 DEF ThreadStates
<1>g. Goes(Main, r)
  BY DEF DrainSends
<1> HIDE DEF r
<1>2. /\ thread' \in [Threads -> ThreadStates] /\ thread'[Main] = r
      /\ \A u \in Threads \ {Main} : thread'[u] = thread[u]
  BY <1>1, <1>r, <1>g, GoesTyped
<1>3. mq' = mq \cup {thread[Main].out}
  BY DEF DrainSends
<1>4. TypeOK'
  <2>1. mq' \in SUBSET (SUBSET Samples)
    BY <1>1, <1>3 DEF TypeOK
  <2> QED BY <1>1, <1>2, <2>1 DEF DrainSends, TypeOK, ingestVars
<1>5. Downstream \subseteq Downstream' /\ thread[Main].out \subseteq Downstream'
      /\ batch \subseteq InMemory'
  BY <1>3 DEF DrainSends, Downstream, ingestVars, InMemory
<1>6. Accounted \subseteq Accounted'
  BY <1>1, <1>2, <1>5, GrowsByThread DEF DrainSends, Accounted
<1>7. DrainSafe'
  BY <1>1, <1>2, <1>r, <1>5 DEF DrainSends, DrainSafe, PipelineInv
<1>8. UNCHANGED <<job, ingestVars>>
  BY DEF DrainSends
<1> QED
  BY <1>1, <1>2, <1>r, <1>4, <1>6, <1>7, <1>8, PollerStep

LEMMA DrainFailsKeeps ==
  ASSUME PipelineInv, DrainFails
  PROVE  PipelineInv'
<1>1. /\ TypeOK /\ Main \in Threads /\ thread[Main].pc = "send"
      /\ thread[Main].out \in SUBSET Samples /\ Main \notin Workers
      /\ thread[Main].out \subseteq Files(disk) \cup capped
  BY PipelineAssumption DEF DrainFails, PipelineInv, TypeOK, ThreadStates, Threads, DrainSafe
<1>i. Idle.pc = "idle" /\ Idle.out = {}
  BY DEF Idle
<1>2. /\ thread' \in [Threads -> ThreadStates] /\ thread'[Main] = Idle
      /\ \A u \in Threads \ {Main} : thread'[u] = thread[u]
  BY <1>1, IdleTyped, GoesTyped DEF DrainFails
<1>3. mq' = mq \/ mq' = mq \cup {thread[Main].out}
  BY DEF DrainFails
<1>4. TypeOK'
  <2>1. mq' \in SUBSET (SUBSET Samples)
    BY <1>1, <1>3 DEF TypeOK
  <2>2. faults' \in 0..MaxFaults
    BY <1>1, PipelineAssumption DEF DrainFails, CallFails, OK, Fault, TypeOK
  <2> QED BY <1>1, <1>2, <2>1, <2>2 DEF DrainFails, TypeOK, ingestVars
<1>5. Downstream \subseteq Downstream' /\ batch \subseteq InMemory'
  BY <1>3 DEF DrainFails, Downstream, ingestVars, InMemory
<1>6. Accounted \subseteq Accounted'
  <2>1. Files(disk) \subseteq Accounted' /\ capped \subseteq Accounted'
    BY DEF DrainFails, Accounted
  <2> QED
    BY <1>1, <1>2, <1>5, <2>1, GrowsByThread DEF DrainFails, Accounted
<1>7. DrainSafe'
  BY <1>2, <1>i DEF DrainFails, DrainSafe
<1>8. UNCHANGED <<job, ingestVars>>
  BY DEF DrainFails
<1> QED
  BY <1>1, <1>2, <1>i, <1>4, <1>6, <1>7, <1>8, PollerStep

LEMMA DrainUnlinksKeeps ==
  ASSUME PipelineInv, DrainUnlinks
  PROVE  PipelineInv'
<1> DEFINE r == [Idle EXCEPT !.pc = "drain"]
<1>1. /\ TypeOK /\ Main \in Threads /\ thread[Main].pc = "unlink"
      /\ thread[Main].out \subseteq Downstream /\ Main \notin Workers
      /\ unsent => disk # <<>> /\ disk[1] = thread[Main].out
      /\ disk \in Seq(SUBSET Samples)
  BY PipelineAssumption DEF DrainUnlinks, PipelineInv, TypeOK, Threads, DrainSafe
<1>r. r \in ThreadStates /\ r.pc = "drain" /\ r.out = {}
  BY IdleTyped
<1>g. Goes(Main, r)
  BY DEF DrainUnlinks
<1> HIDE DEF r
<1>2. /\ thread' \in [Threads -> ThreadStates] /\ thread'[Main] = r
      /\ \A u \in Threads \ {Main} : thread'[u] = thread[u]
  BY <1>1, <1>r, <1>g, GoesTyped
<1>3. /\ disk' \in Seq(SUBSET Samples)
      /\ Files(disk) \subseteq Files(disk') \cup thread[Main].out
  <2>1. CASE unsent
    <3>1. disk' = Tail(disk) /\ disk # <<>> /\ disk[1] = thread[Main].out
      BY <1>1, <2>1 DEF DrainUnlinks
    <3> QED BY <1>1, <3>1, UnlinkAccounts
  <2>2. CASE ~unsent
    BY <1>1, <2>2 DEF DrainUnlinks
  <2> QED BY <2>1, <2>2
<1>f. Files(disk)' = Files(disk')
  BY DEF Files
<1>4. TypeOK'
  BY <1>1, <1>2, <1>3 DEF DrainUnlinks, TypeOK, ingestVars
<1>5. Downstream \subseteq Downstream' /\ batch \subseteq InMemory'
  BY DEF DrainUnlinks, Downstream, ingestVars, InMemory
<1>6. Accounted \subseteq Accounted'
  <2>1. thread[Main].out \subseteq Accounted'
    BY <1>1, <1>5 DEF Accounted
  <2>2. Files(disk) \subseteq Accounted'
    BY <1>3, <1>f, <2>1 DEF Accounted
  <2> QED
    BY <1>1, <1>2, <1>5, <2>1, <2>2, GrowsByThread DEF DrainUnlinks, Accounted
<1>7. DrainSafe'
  BY <1>2, <1>r DEF DrainUnlinks, DrainSafe
<1>8. UNCHANGED <<job, ingestVars>>
  BY DEF DrainUnlinks
<1> QED
  BY <1>1, <1>2, <1>r, <1>4, <1>6, <1>7, <1>8, PollerStep

-----------------------------------------------------------------------------
(* Stops, crashes and the ingester.                                        *)

LEMMA StopKeeps ==
  ASSUME PipelineInv, Stop
  PROVE  PipelineInv'
<1>1. TypeOK'
  BY PipelineAssumption DEF PipelineInv, TypeOK, Stop, Fault, ingestVars
<1>2. UNCHANGED <<job, batch, thread, disk, unsent, capped, lost, mq, ingestVars>>
  BY DEF Stop
<1>3. Accounted' = Accounted /\ Downstream' = Downstream /\ Files(disk)' = Files(disk)
  BY <1>2 DEF Accounted, InMemory, Downstream, ingestVars, Files
<1> QED
  BY <1>1, <1>2, <1>3
     DEF PipelineInv, NothingVanishes, HandedOver, EmptyHands, DrainSafe,
         IngestSafe, ingestVars

\* When the process ends, what only memory held is lost if its job was
\* acknowledged and polled again if it was not.
LEMMA GoneKeeps ==
  ASSUME PipelineInv, Gone, faults' \in 0..MaxFaults
  PROVE  PipelineInv'
<1>1. TypeOK /\ Idle.pc = "idle" /\ Idle.out = {}
  BY DEF PipelineInv, Idle
<1>2. InMemory \subseteq Samples
  BY <1>1 DEF TypeOK, InMemory, ThreadStates
<1>t. \A t \in Threads : thread'[t] = Idle
  BY DEF Gone
<1>d. disk' \in Seq(SUBSET Samples) /\ Files(disk) \subseteq Files(disk)'
  <2>1. disk \in Seq(SUBSET Samples) /\ disk' \in CutShort
    BY <1>1 DEF Gone, TypeOK, CutShort
  <2>2. Files(disk)' = Files(disk')
    BY DEF Files
  <2> QED BY <2>1, <2>2, CutShortAccounts
<1>3. TypeOK'
  <2>1. lost' \in SUBSET Samples
    BY <1>1, <1>2 DEF Gone, TypeOK
  <2>2. thread' \in [Threads -> ThreadStates]
    BY IdleTyped DEF Gone
  <2>3. job' \in [Samples -> {"queued", "held", "acked"}]
    BY <1>1 DEF Gone, TypeOK
  <2> QED
    BY <1>1, <1>d, <2>1, <2>2, <2>3 DEF Gone, TypeOK, ingestVars
<1>4. NothingVanishes'
  <2> SUFFICES ASSUME NEW s \in Samples, job'[s] = "acked"
               PROVE  s \in Accounted'
    BY DEF NothingVanishes
  <2>1. job[s] = "acked"
    BY DEF Gone
  <2>2. s \in Accounted
    BY <2>1 DEF PipelineInv, NothingVanishes
  <2>3. CASE s \in InMemory
    BY <2>1, <2>3 DEF Gone, Accounted
  <2>4. CASE s \notin InMemory
    <3>1. s \in Files(disk) \cup Downstream \cup capped \cup lost
      BY <2>2, <2>4 DEF Accounted
    <3>2. Files(disk) \subseteq Files(disk)' /\ Downstream' = Downstream
      BY <1>d DEF Gone, Downstream, ingestVars
    <3> QED BY <3>1, <3>2 DEF Gone, Accounted
  <2> QED BY <2>3, <2>4
<1>5. HandedOver' /\ EmptyHands'
  <2>1. \A t \in Workers : thread'[t] = Idle
    BY <1>t DEF Threads
  <2> QED BY <1>1, <1>t, <2>1 DEF HandedOver, EmptyHands
<1>6. DrainSafe'
  <2>1. thread'[Main] = Idle /\ unsent' = FALSE
    BY <1>t DEF Threads, Gone
  <2> QED BY <1>1, <2>1 DEF DrainSafe
<1>7. IngestSafe'
  BY DEF PipelineInv, IngestSafe, Gone, ingestVars
<1> QED
  BY <1>3, <1>4, <1>5, <1>6, <1>7 DEF PipelineInv

LEMMA IngesterStep ==
  ASSUME PipelineInv, UNCHANGED pollerVars, faults' \in 0..MaxFaults,
         mq' \in SUBSET (SUBSET Samples),
         ingest' \in [pc : {"idle", "write", "ack"}, hand : SUBSET Samples],
         vm' \in SUBSET Samples, discarded' \in SUBSET Samples,
         Downstream \subseteq Downstream', IngestSafe'
  PROVE  PipelineInv'
<1>1. UNCHANGED <<job, batch, thread, ctx, disk, unsent, capped, lost>>
  BY DEF pollerVars
<1>2. TypeOK'
  BY <1>1 DEF PipelineInv, TypeOK
<1>3. Accounted \subseteq Accounted' /\ Files(disk)' = Files(disk)
  <2>1. InMemory' = InMemory /\ Files(disk)' = Files(disk)
    BY <1>1 DEF InMemory, Files
  <2> QED BY <1>1, <2>1 DEF Accounted
<1> QED
  BY <1>1, <1>2, <1>3
     DEF PipelineInv, NothingVanishes, HandedOver, EmptyHands, DrainSafe

LEMMA UnionFacts ==
  ASSUME NEW M, NEW b
  PROVE  /\ (UNION M) \subseteq (UNION (M \cup {b}))
         /\ b \subseteq UNION (M \cup {b})
         /\ (UNION M) \subseteq (UNION (M \ {b})) \cup b
<1>1. (UNION M) \subseteq (UNION (M \cup {b}))
  BY Zenon
<1>2. b \subseteq UNION (M \cup {b})
  BY Zenon
<1>3. ASSUME NEW x \in UNION M PROVE x \in (UNION (M \ {b})) \cup b
  <2>1. PICK m \in M : x \in m
    OBVIOUS
  <2>2. CASE m = b
    BY <2>1, <2>2
  <2>3. CASE m # b
    BY <2>1, <2>3
  <2> QED BY <2>2, <2>3
<1> QED BY <1>1, <1>2, <1>3

LEMMA IngesterKeeps ==
  ASSUME PipelineInv, Ingester \/ IngesterCrash
  PROVE  PipelineInv'
<1>1. /\ mq \in SUBSET (SUBSET Samples) /\ faults \in 0..MaxFaults
      /\ ingest \in [pc : {"idle", "write", "ack"}, hand : SUBSET Samples]
      /\ vm \in SUBSET Samples /\ discarded \in SUBSET Samples
      /\ IngestSafe
  BY DEF PipelineInv, TypeOK
<1>e. [pc |-> "idle", hand |-> {}] \in [pc : {"idle", "write", "ack"}, hand : SUBSET Samples]
  OBVIOUS
<1>2. ASSUME NEW b \in mq, Deliver(b)
      PROVE  PipelineInv'
  <2>1. ingest' \in [pc : {"idle", "write", "ack"}, hand : SUBSET Samples]
    BY <1>1, <1>2 DEF Deliver
  <2>2. Downstream \subseteq Downstream'
    <3>1. /\ mq' = mq \ {b} /\ ingest'.hand = b /\ ingest.hand = {}
          /\ UNCHANGED <<vm, discarded>>
      BY <1>1, <1>2 DEF Deliver, IngestSafe
    <3>2. (UNION mq) \subseteq (UNION mq') \cup ingest'.hand
      BY <3>1, UnionFacts
    <3> QED BY <3>1, <3>2 DEF Downstream
  <2>3. IngestSafe'
    BY <1>2 DEF Deliver, IngestSafe
  <2> QED
    BY <1>1, <1>2, <2>1, <2>2, <2>3, IngesterStep DEF Deliver
<1>3. CASE WriteOK
  <2>1. /\ ingest' \in [pc : {"idle", "write", "ack"}, hand : SUBSET Samples]
        /\ ingest'.hand = ingest.hand /\ ingest'.pc = "ack"
    BY <1>1, <1>3 DEF WriteOK
  <2>2. Downstream \subseteq Downstream' /\ vm' \in SUBSET Samples
    BY <1>1, <1>3, <2>1 DEF WriteOK, Downstream
  <2>3. IngestSafe'
    BY <1>3, <2>1 DEF WriteOK, IngestSafe
  <2> QED
    BY <1>1, <1>3, <2>1, <2>2, <2>3, IngesterStep DEF WriteOK
<1>4. CASE WriteFails
  <2>1. /\ ingest' = [pc |-> "idle", hand |-> {}]
        /\ vm' \in SUBSET Samples /\ vm \subseteq vm'
    BY <1>1, <1>4 DEF WriteFails
  <2>2. /\ mq' \in SUBSET (SUBSET Samples) /\ discarded' \in SUBSET Samples
        /\ (UNION mq) \subseteq (UNION mq') /\ discarded \subseteq discarded'
        /\ ingest.hand \subseteq (UNION mq') \cup discarded'
    <3>1. \/ mq' = mq \cup {ingest.hand} /\ discarded' = discarded
          \/ mq' = mq /\ discarded' = discarded \cup ingest.hand
      BY <1>4 DEF WriteFails
    <3>2. CASE mq' = mq \cup {ingest.hand} /\ discarded' = discarded
      <4>1. (UNION mq) \subseteq (UNION mq') /\ ingest.hand \subseteq UNION mq'
        BY <3>2, UnionFacts
      <4>2. mq' \in SUBSET (SUBSET Samples)
        BY <1>1, <3>2
      <4> QED BY <1>1, <3>2, <4>1, <4>2
    <3>3. CASE mq' = mq /\ discarded' = discarded \cup ingest.hand
      BY <1>1, <3>3
    <3> QED BY <3>1, <3>2, <3>3
  <2>3. Downstream \subseteq Downstream'
    <3> DEFINE u == UNION mq
               v == UNION mq'
    <3>1. /\ u \subseteq v /\ discarded \subseteq discarded'
          /\ ingest.hand \subseteq v \cup discarded' /\ vm \subseteq vm'
      BY <2>1, <2>2
    <3>2. Downstream = u \cup ingest.hand \cup vm \cup discarded
      BY DEF Downstream
    <3>3. Downstream' = v \cup ingest'.hand \cup vm' \cup discarded'
      BY DEF Downstream
    <3> HIDE DEF u, v
    <3> QED BY <3>1, <3>2, <3>3
  <2>4. faults' \in 0..MaxFaults /\ UNCHANGED pollerVars
    BY <1>1, <1>4, PipelineAssumption DEF WriteFails, Fault
  <2>5. IngestSafe'
    BY <2>1 DEF IngestSafe
  <2> QED
    BY <1>e, <2>1, <2>2, <2>3, <2>4, <2>5, IngesterStep
<1>5. CASE AckBatch
  <2>1. Downstream \subseteq Downstream'
    BY <1>1, <1>5 DEF AckBatch, Downstream, IngestSafe
  <2>2. IngestSafe'
    BY <1>5 DEF AckBatch, IngestSafe
  <2> QED
    BY <1>1, <1>5, <1>e, <2>1, <2>2, IngesterStep DEF AckBatch
<1>6. CASE IngesterCrash
  <2>1. Downstream \subseteq Downstream'
    <3>1. mq' = mq \cup {ingest.hand} /\ UNCHANGED <<vm, discarded>>
      BY <1>6 DEF IngesterCrash, Redelivered
    <3>2. (UNION mq) \subseteq (UNION mq') /\ ingest.hand \subseteq UNION mq'
      BY <3>1, UnionFacts
    <3> QED BY <3>1, <3>2 DEF Downstream
  <2>2. faults' \in 0..MaxFaults /\ mq' \in SUBSET (SUBSET Samples)
    BY <1>1, <1>6, PipelineAssumption DEF IngesterCrash, Redelivered, Fault
  <2>3. IngestSafe'
    BY <1>6 DEF IngesterCrash, IngestSafe
  <2> QED
    BY <1>1, <1>6, <1>e, <2>1, <2>2, <2>3, IngesterStep DEF IngesterCrash
<1> QED
  BY <1>2, <1>3, <1>4, <1>5, <1>6 DEF Ingester

-----------------------------------------------------------------------------

LEMMA InvInductive ==
  /\ Init => PipelineInv
  /\ PipelineInv /\ [Next]_vars => PipelineInv'
<1>1. Init => PipelineInv
  <2> SUFFICES ASSUME Init PROVE PipelineInv
    OBVIOUS
  <2>1. \A t \in Threads : thread[t] = Idle /\ Idle.pc = "idle" /\ Idle.out = {}
    BY DEF Init, Idle
  <2>2. TypeOK
    <3>1. thread \in [Threads -> ThreadStates]
      BY IdleTyped DEF Init
    <3>2. mq \in SUBSET (SUBSET Samples) /\ faults \in 0..MaxFaults
      BY PipelineAssumption DEF Init
    <3>3. disk \in Seq(SUBSET Samples)
      BY DEF Init
    <3> QED BY <3>1, <3>2, <3>3 DEF Init, TypeOK
  <2>3. Workers \subseteq Threads /\ Main \in Threads
    BY DEF Threads
  <2> QED
    BY <2>1, <2>2, <2>3
       DEF PipelineInv, Init, NothingVanishes, HandedOver, EmptyHands, DrainSafe,
           IngestSafe
<1>2. PipelineInv /\ [Next]_vars => PipelineInv'
  <2> SUFFICES ASSUME PipelineInv, [Next]_vars PROVE PipelineInv'
    OBVIOUS
  <2>t. TypeOK /\ Workers \subseteq Threads /\ Main \in Threads
    BY DEF PipelineInv, Threads
  <2>1. ASSUME NEW t \in Threads, Flush(t)
        PROVE  PipelineInv'
    BY <2>1, TakeBatchKeeps, PublishedKeeps, PublishFailsKeeps, SpillKeeps,
       SpillFailsKeeps DEF Flush
  <2>m. ASSUME NEW t \in Threads, NEW p \in {"flush", "drain", "gone"},
               thread[t].pc = "idle", Goes(t, [Idle EXCEPT !.pc = p]),
               ctx' \in {"live", "cancelled", "last"},
               UNCHANGED <<job, batch, disk, unsent, capped, lost, mq, ingestVars, faults>>
        PROVE  PipelineInv'
    <3>1. [Idle EXCEPT !.pc = p] \in ThreadStates
      BY IdleTyped
    <3>2. thread' \in [Threads -> ThreadStates]
      BY <2>t, <2>m, <3>1, GoesTyped
    <3>3. TypeOK'
      BY <2>t, <2>m, <3>2 DEF TypeOK, ingestVars
    <3> QED BY <2>m, <3>3, IdleMoves
  <2>2. ASSUME NEW t \in Workers, Worker(t)
        PROVE  PipelineInv'
    <3>1. CASE WorkerEnds(t)
      BY <2>t, <2>m, <3>1 DEF WorkerEnds, TypeOK
    <3> QED
      BY <2>2, <2>t, <2>1, <3>1, TakeJobKeeps, PollKeeps, AckJobKeeps DEF Worker
  <2>3. CASE MainLoop
    <3>1. CASE AgeTick
      BY <2>t, <2>m, <3>1 DEF AgeTick, TypeOK
    <3>2. CASE DrainTick
      BY <2>t, <2>m, <3>2 DEF DrainTick, TypeOK
    <3>3. CASE LastFlush
      BY <2>t, <2>m, <3>3 DEF LastFlush, TypeOK
    <3>4. CASE Exit
      BY <2>t, <3>4, GoneKeeps DEF Exit, OK, TypeOK
    <3> QED
      BY <2>3, <2>t, <2>1, <3>1, <3>2, <3>3, <3>4, DrainEndsKeeps, DrainReadKeeps,
         DrainDiscardsKeeps, DrainSendsKeeps, DrainFailsKeeps, DrainUnlinksKeeps DEF MainLoop
  <2>4. CASE Crash
    BY <2>t, <2>4, GoneKeeps, PipelineAssumption DEF Crash, Fault, TypeOK
  <2>5. CASE UNCHANGED vars
    <3>1. UNCHANGED <<job, batch, thread, ctx, disk, unsent, capped, lost, mq,
                      ingest, vm, discarded, faults>>
      BY <2>5 DEF vars, pollerVars, ingestVars
    <3>2. Accounted' = Accounted /\ Downstream' = Downstream /\ Files(disk)' = Files(disk)
      BY <3>1 DEF Accounted, InMemory, Downstream, Files
    <3> QED
      BY <3>1, <3>2 DEF PipelineInv, TypeOK, NothingVanishes, HandedOver,
         EmptyHands, DrainSafe, IngestSafe
  <2> QED
    BY <2>2, <2>3, <2>4, <2>5, StopKeeps, IngesterKeeps DEF Next
<1> QED
  BY <1>1, <1>2

\* Goroutines, files, queue and ingester keep their types.
THEOREM PipelineTyped == Spec => []TypeOK
<1>1. PipelineInv => TypeOK
  BY DEF PipelineInv
<1> QED
  BY <1>1, InvInductive, PTL DEF Spec

\* The sample of an acknowledged job is never forgotten between worker,
\* batch, disk buffer, broker and ingester, for any number of workers, any
\* flush size and buffer cap and any number of failures: it is somewhere on
\* its way or in one of the three named losses.
THEOREM PipelineConserves == Spec => []NothingVanishes
<1>1. PipelineInv => NothingVanishes
  BY DEF PipelineInv
<1> QED
  BY <1>1, InvInductive, PTL DEF Spec
=============================================================================
