----------------------------- MODULE InventorySync -----------------------------
(***************************************************************************)
(* Inventory synchronisation of one device: sync results are taken from    *)
(* the queue sync.results by the API replicas (cmd/api), diffed against    *)
(* the stored interfaces under a per-device Redis lock (inventory/app) and *)
(* applied in one transaction (inventory/adapters/postgres), while         *)
(* operators edit, disable, retire and purge the device.                   *)
(*                                                                         *)
(* Apply is one step: its first statement updates the device's row, and    *)
(* that row lock serialises the transactions of one device.  Of an         *)
(* interface the model keeps what identity is resolved by (ifIndex, name,  *)
(* physical address with type), its presence and its miss streak; other    *)
(* columns, adjacencies and the history table are written along with them  *)
(* and decide nothing.                                                     *)
(***************************************************************************)
EXTENDS Integers, Sequences, FiniteSets

CONSTANTS
  Consumers,          \* API replicas consuming sync.results
  Idx, Names, Phys,   \* what a device reports of an interface
  NoName, NoPhys,     \* the empty strings
  RowIds,             \* ids for interface rows: a bound on rows ever created
  RemoveAfterMisses,  \* RemoveAfterMisses of sync.go
  UniqueNames,        \* the device gives every interface a name of its own
  LockLapses,         \* a holder may be slower than the lock's TTL
  MaxResults, MaxFaults, MaxEdits,   \* bounds on results, faults, operator calls
  NoOne               \* no consumer holds the lock

ASSUME SyncAssumption ==
  /\ Idx \subseteq Nat \ {0} /\ IsFiniteSet(Idx) /\ IsFiniteSet(RowIds)
  /\ RemoveAfterMisses \in Nat \ {0}
  /\ {UniqueNames, LockLapses} \subseteq BOOLEAN
  /\ MaxResults \in Nat /\ MaxFaults \in Nat /\ MaxEdits \in Nat
  /\ NoOne \notin Consumers /\ "dead" \notin Consumers

VARIABLES
  rows,      \* inventory.interfaces of the device
  dev,       \* its row of inventory.devices: status and connector_id
  syncs,     \* syncs collected so far
  queue,     \* sync.results: results ready for delivery, numbered as collected
  cons,      \* consumers: program counter, result, loaded connector, diff
  lock,      \* holder of sync:device:<id>
  oper,      \* an operator's request between its read and its write
  mirrored,  \* history: snapshot applied last
  absent,    \* history: results that counted a row as missing since it was seen
  faults, edits

vars == <<rows, dev, syncs, queue, cons, lock, oper, mirrored, absent, faults, edits>>

Records == [idx : Idx, name : Names, phys : Phys]

\* A device reports every ifIndex once, in no particular order: the collector
\* gathers the records in a map.
Snapshots ==
  {s \in UNION {[1..n -> Records] : n \in 0..Cardinality(Idx)} :
     \A i, j \in DOMAIN s :
        i # j => /\ s[i].idx # s[j].idx
                 /\ UniqueNames => s[i].name # s[j].name}

FreeRow   == [state |-> "free", idx |-> 0, name |-> NoName, phys |-> NoPhys, streak |-> 0]

NoDiff == [match |-> <<>>, missing |-> {}, streak |-> {}, removed |-> {}]
NoRes  == [n |-> 0, ok |-> FALSE, snap |-> <<>>]
Idle   == [pc |-> "idle", res |-> NoRes, connector |-> "generic", diff |-> NoDiff]

\* The device was added by address: pending, on the generic connector.
Init ==
  /\ rows = [r \in RowIds |-> FreeRow]
  /\ dev = [status |-> "pending", connector |-> "generic"]
  /\ syncs = 0 /\ queue = {}
  /\ cons = [c \in Consumers |-> Idle]
  /\ lock = NoOne
  /\ oper = [pc |-> "idle", connector |-> "generic"]
  /\ mirrored = <<>> /\ absent = [r \in RowIds |-> {}]
  /\ faults = 0 /\ edits = 0

Fault == faults < MaxFaults /\ faults' = faults + 1
OK    == UNCHANGED faults
Goes(c, s)   == cons' = [cons EXCEPT ![c] = s]
Moves(c, pc) ==
  Goes(c, [pc |-> pc, res |-> cons[c].res, connector |-> "generic", diff |-> NoDiff])

-----------------------------------------------------------------------------
(* The differ: stored rows t x snapshot -> change set.                     *)

\* Removed interfaces only come back as brand-new records.
Known(t) == {r \in RowIds : t[r].state \in {"present", "missing"}}

\* The rows are read in no particular order ...
LoadOrders(S) ==
  {rank \in [S -> 1..Cardinality(S)] : \A p, q \in S : p # q => rank[p] # rank[q]}

\* ... and of those with the same key the map holds the last.
Last(S, rank) == CHOOSE r \in S : \A q \in S : rank[q] <= rank[r]

\* The three keys, in the order they are tried.
Tiers(t, rec) ==
  <<{r \in Known(t) : t[r].idx = rec.idx /\ t[r].name = rec.name},
    {r \in Known(t) : rec.name # NoName /\ t[r].name = rec.name},
    {r \in Known(t) : rec.phys # NoPhys /\ t[r].phys = rec.phys}>>

FirstOf(tiers, hits, rank) ==
  IF hits = {} THEN {}
  ELSE {Last(tiers[CHOOSE i \in hits : \A j \in hits : i <= j], rank)}

\* Variant: identity by ifIndex and name alone.
MatchByIndex(t, rec, rank, taken) ==
  LET tiers == Tiers(t, rec)
  IN FirstOf(tiers, {i \in {1} : tiers[i] # {} /\ Last(tiers[i], rank) \notin taken}, rank)

\* The first key whose row is still unmatched.
Match(t, rec, rank, taken) ==
  LET tiers == Tiers(t, rec)
  IN FirstOf(tiers, {i \in 1..3 : tiers[i] # {} /\ Last(tiers[i], rank) \notin taken}, rank)

\* Record by record, in the snapshot's order: the matched row, or none.
Matching(t, snap, rank) ==
  LET m[i \in 0..Len(snap)] ==
        IF i = 0 THEN <<>>
        ELSE Append(m[i - 1],
                    Match(t, snap[i], rank, UNION {m[i - 1][j] : j \in 1..(i - 1)}))
  IN m[Len(snap)]

\* Variant: one absence too few.
RemovedSoon(row) == row.state = "missing" /\ row.streak + 2 >= RemoveAfterMisses

RemovedNow(row) == row.state = "missing" /\ row.streak + 1 >= RemoveAfterMisses

Diff(t, snap, rank) ==
  LET match == Matching(t, snap, rank)
      gone  == Known(t) \ UNION {match[i] : i \in DOMAIN match}
  IN [match   |-> match,
      missing |-> {r \in gone : t[r].state = "present"},
      streak  |-> {r \in gone : t[r].state # "present" /\ ~RemovedNow(t[r])},
      removed |-> {r \in gone : RemovedNow(t[r])}]

-----------------------------------------------------------------------------
(* Apply: the statements of the transaction, in their order.               *)

\* 1. Retire what vanished.
Retired(t, d) ==
  [r \in RowIds |->
     IF r \in d.missing THEN [t[r] EXCEPT !.state = "missing", !.streak = 1]
     ELSE IF r \in d.streak THEN [t[r] EXCEPT !.streak = @ + 1]
     ELSE IF r \in d.removed THEN [t[r] EXCEPT !.state = "removed"]
     ELSE t[r]]

\* Variant: rows keep their index until they are written.
ParkedNone(t, d) == t

\* 2. Park the rows that will be written at the negative of their index.
Parked(t, d) ==
  LET parked == UNION {d.match[i] : i \in DOMAIN d.match}
  IN [r \in RowIds |->
        IF r \in parked /\ t[r].idx > 0 THEN [t[r] EXCEPT !.idx = -@] ELSE t[r]]

\* The partial unique index on (device_id, if_index) WHERE state = 'present'.
Holders(t, i) == {r \in RowIds : t[r].state = "present" /\ t[r].idx = i}

Written(rec) ==
  [state |-> "present", idx |-> rec.idx, name |-> rec.name, phys |-> rec.phys, streak |-> 0]

\* Variant: a returning interface is not set present again.
UpdatedKeepsState(t, r, rec) == [t EXCEPT ![r] = [Written(rec) EXCEPT !.state = t[r].state]]

Updated(t, r, rec) == [t EXCEPT ![r] = Written(rec)]

\* ON CONFLICT DO UPDATE when a present row holds the index, else a new id.
Inserted(t, rec) ==
  IF Holders(t, rec.idx) # {}
  THEN LET r == CHOOSE r \in Holders(t, rec.idx) : TRUE
       IN [t EXCEPT ![r] = [@ EXCEPT !.name = rec.name, !.streak = 0]]
  ELSE LET r == CHOOSE r \in RowIds : t[r].state = "free"
       IN [t EXCEPT ![r] = Written(rec)]

\* 3. Write the reported interfaces one by one, each to the row it matched, if
\* any; the transaction aborts when an UPDATE claims an index that another
\* present row holds.
UpsertOne(prev, rec, hit) ==
  IF hit = {}
  THEN [prev EXCEPT !.t = Inserted(prev.t, rec)]
  ELSE LET r == CHOOSE r \in hit : TRUE
       IN [ok |-> prev.ok /\ Holders(prev.t, rec.idx) \ {r} = {},
           t  |-> Updated(prev.t, r, rec)]

Upserted(t, snap, d) ==
  LET upTo[i \in 0..Len(snap)] ==
        IF i = 0 THEN [ok |-> TRUE, t |-> t]
        ELSE UpsertOne(upTo[i - 1], snap[i], d.match[i])
  IN upTo[Len(snap)]

Applied(snap, d) == Upserted(Parked(Retired(rows, d), d), snap, d)

\* Bound: ids for the rows to insert are left.
IdsLeft(d) ==
  Cardinality({i \in DOMAIN d.match : d.match[i] = {}})
    <= Cardinality({r \in RowIds : rows[r].state = "free"})

\* Variant: the device's UPDATE without its status condition.
ActivatedAlways(d, connector) == [status |-> "active", connector |-> connector]

\* The device's UPDATE: only where the status is one that is polled.
Activated(d, connector) ==
  IF d.status \in {"pending", "active"}
  THEN [status |-> "active", connector |-> connector]
  ELSE d

\* rematch: a vendor connector for a device loaded as generic; the UPDATE
\* leaves connector_id alone otherwise.
Rematched(loaded, current) == IF loaded = "generic" THEN {current, "vendor"} ELSE {current}

-----------------------------------------------------------------------------
(* Pollers and consumers.                                                  *)

\* A poller publishes what it collected, or that collecting failed.
Collect ==
  /\ syncs < MaxResults /\ syncs' = syncs + 1
  /\ \E s \in Snapshots, ok \in BOOLEAN :
       /\ ~ok => s = <<>>
       /\ queue' = queue \cup {[n |-> syncs', ok |-> ok, snap |-> s]}
  /\ UNCHANGED <<rows, dev, cons, lock, oper, mirrored, absent, faults, edits>>

Take(c, res) ==
  /\ cons[c].pc = "idle"
  /\ queue' = queue \ {res}
  /\ Goes(c, [pc |-> IF res.ok THEN "lock" ELSE "record", res |-> res,
              connector |-> "generic", diff |-> NoDiff])
  /\ UNCHANGED <<rows, dev, syncs, lock, oper, mirrored, absent, faults, edits>>

\* A failed result is recorded without taking the lock.  sync_runs refers to
\* the device: once it is purged the INSERT fails, and counts as transient.
RecordFailedRun(c) ==
  /\ cons[c].pc = "record"
  /\ Moves(c, IF dev.status = "purged" THEN "nack" ELSE "ack")
  /\ UNCHANGED <<rows, dev, syncs, queue, lock, oper, mirrored, absent, faults, edits>>

\* Variant: SET without NX.
TryLockOverwrites(c) ==
  /\ cons[c].pc = "lock"
  /\ lock' = c /\ Moves(c, "load")
  /\ UNCHANGED <<rows, dev, syncs, queue, oper, mirrored, absent, faults, edits>>

\* Contention is a conflict, and conflicts are requeued.
TryLock(c) ==
  /\ cons[c].pc = "lock"
  /\ IF lock = NoOne
     THEN lock' = c /\ Moves(c, "load")
     ELSE UNCHANGED lock /\ Moves(c, "nack")
  /\ UNCHANGED <<rows, dev, syncs, queue, oper, mirrored, absent, faults, edits>>

\* The deferred release: the key is deleted only while it holds c's token.
Released(c) == IF lock = c THEN NoOne ELSE lock

\* A device that is gone ends the handling without an error.
Load(c) ==
  /\ cons[c].pc = "load"
  /\ IF dev.status \in {"retired", "purged"}
     THEN Moves(c, "ack") /\ lock' = Released(c)
     ELSE /\ \E rank \in LoadOrders(Known(rows)) :
               Goes(c, [pc |-> "apply", res |-> cons[c].res, connector |-> dev.connector,
                        diff |-> Diff(rows, cons[c].res.snap, rank)])
          /\ UNCHANGED lock
  /\ UNCHANGED <<rows, dev, syncs, queue, oper, mirrored, absent, faults, edits>>

\* What this application counts as absent, on top of earlier counts.
Absences(c, t) ==
  [r \in RowIds |->
     IF t[r].state # "present" /\ t[r] # rows[r] THEN absent[r] \cup {cons[c].res.n}
     ELSE IF t[r].state = "present" THEN {} ELSE absent[r]]

Apply(c) ==
  LET snap   == cons[c].res.snap
      result == Applied(snap, cons[c].diff)
  IN /\ cons[c].pc = "apply" /\ dev.status # "purged"
     /\ IdsLeft(cons[c].diff)
     /\ result.ok
     /\ rows' = result.t
     /\ \E conn \in Rematched(cons[c].connector, dev.connector) :
          dev' = Activated(dev, conn)
     /\ mirrored' = snap
     /\ absent' = Absences(c, result.t)
     /\ lock' = Released(c)
     /\ Moves(c, "ack")
     /\ UNCHANGED <<syncs, queue, oper, faults, edits>>

\* The transaction violates a constraint: the unique index, or the foreign key
\* of sync_runs when the device was purged.  Rolled back, reported transient.
ApplyAborts(c) ==
  /\ cons[c].pc = "apply"
  /\ \/ dev.status = "purged"
     \/ IdsLeft(cons[c].diff) /\ ~Applied(cons[c].res.snap, cons[c].diff).ok
  /\ lock' = Released(c)
  /\ Moves(c, "nack")
  /\ UNCHANGED <<rows, dev, syncs, queue, oper, mirrored, absent, faults, edits>>

\* Redis or Postgres does not answer: a transient error.  A connection lost
\* while the interfaces are read is an error of no kind, and the result is
\* rejected: settled, without a retry.
CallFails(c) ==
  /\ cons[c].pc \in {"record", "lock", "load", "apply"}
  /\ Fault
  /\ lock' = Released(c)
  /\ Moves(c, "nack") \/ (cons[c].pc = "load" /\ Moves(c, "ack"))
  /\ UNCHANGED <<rows, dev, syncs, queue, oper, mirrored, absent, edits>>

Nack(c) ==
  /\ cons[c].pc = "nack"
  /\ queue' = queue \cup {cons[c].res}
  /\ Goes(c, Idle)
  /\ UNCHANGED <<rows, dev, syncs, lock, oper, mirrored, absent, faults, edits>>

Ack(c) ==
  /\ cons[c].pc = "ack"
  /\ Goes(c, Idle)
  /\ UNCHANGED <<rows, dev, syncs, queue, lock, oper, mirrored, absent, faults, edits>>

\* A replica dies: the broker redelivers what it had not acknowledged, and its
\* lock stays until the TTL.
Crash(c) ==
  /\ cons[c].pc # "idle"
  /\ Fault
  /\ queue' = queue \cup {cons[c].res}
  /\ Goes(c, Idle)
  /\ lock' = IF lock = c THEN "dead" ELSE lock
  /\ UNCHANGED <<rows, dev, syncs, oper, mirrored, absent, edits>>

\* Variant: the key is set without a TTL.
NeverExpires == LockLapses /\ lock # NoOne

\* SET NX PX: the key of a dead holder expires, and with LockLapses that of a
\* slow one.
Expires == lock = "dead" \/ (LockLapses /\ lock # NoOne)

LockExpires ==
  /\ Expires
  /\ lock' = NoOne
  /\ UNCHANGED <<rows, dev, syncs, queue, cons, oper, mirrored, absent, faults, edits>>

-----------------------------------------------------------------------------
(* Operators.                                                              *)

Edit == edits < MaxEdits /\ edits' = edits + 1

\* PATCH and DELETE read the device first; Purge wants it retired.
OperatorReads(next) ==
  /\ oper.pc = "idle" /\ Edit
  /\ dev.status # "purged" /\ (next = "purge" => dev.status = "retired")
  /\ oper' = [pc |-> next, connector |-> dev.connector]
  /\ UNCHANGED <<rows, dev, syncs, queue, cons, lock, mirrored, absent, faults>>

\* Update writes every operator-owned column back, with the connector chosen
\* in the request or the one read.
OperatorUpdates ==
  /\ oper.pc = "update"
  /\ \E conn \in {oper.connector, "chosen"} :
       dev' = IF dev.status = "purged" THEN dev ELSE [dev EXCEPT !.connector = conn]
  /\ oper' = [oper EXCEPT !.pc = "idle"]
  /\ UNCHANGED <<rows, syncs, queue, cons, lock, mirrored, absent, faults, edits>>

\* The rows go with the device: ON DELETE CASCADE.
OperatorPurges ==
  /\ oper.pc = "purge"
  /\ dev' = [dev EXCEPT !.status = "purged"]
  /\ rows' = [r \in RowIds |-> FreeRow]
  /\ absent' = [r \in RowIds |-> {}] /\ mirrored' = <<>>
  /\ oper' = [oper EXCEPT !.pc = "idle"]
  /\ UNCHANGED <<syncs, queue, cons, lock, faults, edits>>

SetStatus(s) ==
  /\ Edit
  /\ dev.status # "purged"
  /\ dev' = [dev EXCEPT !.status = s]
  /\ UNCHANGED <<rows, syncs, queue, cons, lock, oper, mirrored, absent, faults>>

-----------------------------------------------------------------------------

Consumer(c) ==
  \/ \E res \in queue : Take(c, res)
  \/ RecordFailedRun(c) \/ TryLock(c) \/ Load(c) \/ Apply(c) \/ ApplyAborts(c) \/ Nack(c) \/ Ack(c)

Operator ==
  \/ \E next \in {"update", "purge"} : OperatorReads(next)
  \/ OperatorUpdates \/ OperatorPurges
  \/ \E s \in {"active", "disabled", "retired"} : SetStatus(s)

Next ==
  \/ Collect
  \/ \E c \in Consumers : Consumer(c) \/ CallFails(c) \/ Crash(c)
  \/ LockExpires
  \/ Operator

Spec == Init /\ [][Next]_vars

\* Replicas keep consuming and Redis expires keys.
FairSpec ==
  /\ Spec
  /\ \A c \in Consumers : WF_vars(Consumer(c))
  /\ WF_vars(LockExpires)

-----------------------------------------------------------------------------

Present == {r \in RowIds : rows[r].state = "present"}

\* After every application the present rows are exactly the interfaces of the
\* snapshot applied, one row each: renumbered, swapped, renamed, returning and
\* new interfaces alike.
MirrorsSnapshot ==
  /\ {[idx |-> rows[r].idx, name |-> rows[r].name, phys |-> rows[r].phys] : r \in Present}
       = {mirrored[i] : i \in DOMAIN mirrored}
  /\ Cardinality(Present) = Len(mirrored)

\* The transaction never runs into the unique index: with the lock held, a
\* result that can be applied is applied, and none is requeued for ever
\* (migration 0011 tells of the one that was).
NeverWedges ==
  \A c \in Consumers :
    cons[c].pc = "apply" /\ dev.status # "purged" /\ IdsLeft(cons[c].diff)
      => Applied(cons[c].res.snap, cons[c].diff).ok

\* The change set a consumer is about to apply is the one Diff gives on the
\* rows as they are: what was read before the transaction is never stale while
\* the lock lasts, whoever crashes, contends or edits in between.
DiffFresh ==
  \A c \in Consumers :
    cons[c].pc = "apply" /\ dev.status # "purged" =>
      \E rank \in LoadOrders(Known(rows)) :
        cons[c].diff = Diff(rows, cons[c].res.snap, rank)

Applying(c) == cons[c].pc = "apply" /\ cons'[c].pc = "ack"

Reported(name) == \E i \in DOMAIN mirrored' : mirrored'[i].name = name

\* FR-DEV-09: when a device names its interfaces apart, a row whose name is
\* reported again keeps it, whatever became of the indexes.
RowFollowsName ==
  [][\A c \in Consumers : Applying(c) =>
       \A r \in Known(rows) : Reported(rows[r].name) =>
         rows'[r].state = "present" /\ rows'[r].name = rows[r].name]_vars

\* FR-SYNC-03: an interface is removed after RemoveAfterMisses syncs in a row
\* have not reported it, less one per fault: a result redelivered after its
\* commit counts its absences again.
RemovedAfterMisses ==
  \A r \in RowIds :
    rows[r].state = "removed" => Cardinality(absent[r]) + faults >= RemoveAfterMisses

\* A sync in flight does not bring a disabled or retired device back.
StatusIsTheOperators ==
  [][\A c \in Consumers : Applying(c) =>
       (dev.status \in {"disabled", "retired"} => dev'.status = dev.status)]_vars

Pending(n) == (\E m \in queue : m.n = n) \/ (\E c \in Consumers : cons[c].res.n = n)

\* doc 23 section 3, "Nothing loops forever": every result is settled in the
\* end.
ResultsSettle ==
  \A n \in 1..MaxResults : Pending(n) ~> ~Pending(n)

\* Neither the lock of a dead replica, nor contention, nor failing calls keep a
\* result of an existing device going round in the queue.
ResultsOfDevicesSettle ==
  \A n \in 1..MaxResults : Pending(n) ~> ~Pending(n) \/ dev.status = "purged"
=============================================================================
