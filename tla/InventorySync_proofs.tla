-------------------------- MODULE InventorySync_proofs --------------------------
(***************************************************************************)
(* For any number of replicas, rows, interfaces and results:               *)
(*   - while no lock lapses, the change set computed before the            *)
(*     transaction is still the right one inside it (mutual exclusion:     *)
(*     between Load and Apply a consumer holds the lock, and nothing but   *)
(*     another Apply, or a purge, writes the rows);                        *)
(*   - operators' status decisions stand, locks lapsing or not;            *)
(*   - the transaction is never refused, rows are removed only after       *)
(*     enough absences, the rows present are the snapshot applied, and a   *)
(*     row follows its name.                                               *)
(* The last four are about the loops over the snapshot's records, in the   *)
(* differ and in the transaction: SetInduction and LoopRuns turn a loop    *)
(* into a run that an invariant is carried along.                          *)
(***************************************************************************)
EXTENDS InventorySync, FiniteSetTheorems, WellFoundedInduction, TLAPS

DevTyped ==
  dev \in [status : {"pending", "active", "disabled", "retired", "purged"},
           connector : {"generic", "vendor", "chosen"}]

\* A consumer in the critical section holds the lock.
HoldsLock ==
  \A c \in Consumers : cons[c].pc \in {"load", "apply"} => lock = c

SyncInv ==
  /\ DOMAIN cons = Consumers
  /\ DevTyped
  /\ oper.connector \in {"generic", "vendor", "chosen"} /\ DOMAIN oper = {"pc", "connector"}
  /\ HoldsLock
  /\ DiffFresh

\* A step of consumer d that leaves the rows alone keeps the others' diffs, and
\* its own when the new one is fresh.
LEMMA ConsumerKeeps ==
  ASSUME SyncInv, NEW d \in Consumers, NEW s,
         Goes(d, s), UNCHANGED rows,
         s.pc \in {"load", "apply"} => lock' = d,
         \A c \in Consumers : c # d /\ lock = c => lock' = c,
         dev.status = "purged" => dev'.status = "purged",
         s.pc = "apply" /\ dev'.status # "purged" =>
           \E rank \in LoadOrders(Known(rows)) : s.diff = Diff(rows, s.res.snap, rank)
  PROVE  DOMAIN cons' = Consumers /\ HoldsLock' /\ DiffFresh'
<1>1. /\ DOMAIN cons' = Consumers /\ cons'[d] = s
      /\ \A c \in Consumers : c # d => cons'[c] = cons[c]
  BY DEF SyncInv, Goes
<1>2. HoldsLock'
  BY <1>1 DEF SyncInv, HoldsLock
<1>3. ASSUME NEW c \in Consumers, (cons[c].pc = "apply")', (dev.status # "purged")'
      PROVE  \E rank \in LoadOrders(Known(rows')) :
               cons'[c].diff = Diff(rows', cons'[c].res.snap, rank)
  <2>1. CASE c = d
    BY <1>1, <1>3, <2>1
  <2>2. CASE c # d
    <3>1. cons'[c] = cons[c] /\ dev.status # "purged"
      BY <1>1, <1>3, <2>2
    <3> QED BY <1>3, <3>1 DEF SyncInv, DiffFresh
  <2> QED BY <2>1, <2>2
<1>4. DiffFresh'
  BY <1>3 DEF DiffFresh
<1> QED BY <1>1, <1>2, <1>4

\* A step that is no consumer's and leaves the rows alone keeps every diff.
LEMMA OthersKeep ==
  ASSUME SyncInv, UNCHANGED <<cons, rows>>,
         \A c \in Consumers : lock = c => lock' = c,
         dev.status = "purged" => dev'.status = "purged"
  PROVE  DOMAIN cons' = Consumers /\ HoldsLock' /\ DiffFresh'
<1>1. HoldsLock'
  BY DEF SyncInv, HoldsLock
<1>2. ASSUME NEW c \in Consumers, cons[c].pc = "apply", dev'.status # "purged"
      PROVE  \E rank \in LoadOrders(Known(rows)) :
               cons[c].diff = Diff(rows, cons[c].res.snap, rank)
  BY <1>2 DEF SyncInv, DiffFresh
<1>3. DiffFresh'
  BY <1>2 DEF DiffFresh
<1> QED BY <1>1, <1>3 DEF SyncInv

\* A consumer outside the critical section disturbs nobody.
LEMMA OutsideKeeps ==
  ASSUME SyncInv, NEW d \in Consumers, NEW s,
         Goes(d, s), s.pc \notin {"load", "apply"}, UNCHANGED <<rows, dev>>,
         \A c \in Consumers : c # d /\ lock = c => lock' = c
  PROVE  DOMAIN cons' = Consumers /\ HoldsLock' /\ DiffFresh'
BY ConsumerKeeps

LEMMA ReleaseKeeps ==
  ASSUME NEW d \in Consumers, lock' = Released(d)
  PROVE  \A c \in Consumers : c # d /\ lock = c => lock' = c
BY DEF Released

LEMMA ConsumerStep ==
  ASSUME SyncInv, NEW d \in Consumers, Consumer(d) \/ CallFails(d) \/ Crash(d)
  PROVE  DOMAIN cons' = Consumers /\ HoldsLock' /\ DiffFresh'
<1> DEFINE Rec(pc) == [pc |-> pc, res |-> cons[d].res, connector |-> "generic", diff |-> NoDiff]
<1>m. ASSUME NEW pc \in {"lock", "record", "nack", "ack", "load"}, Moves(d, pc)
      PROVE  Goes(d, Rec(pc)) /\ Rec(pc).pc = pc
  BY <1>m DEF Moves
<1>1. ASSUME NEW res \in queue, Take(d, res)
      PROVE  DOMAIN cons' = Consumers /\ HoldsLock' /\ DiffFresh'
  <2> DEFINE s == [pc |-> IF res.ok THEN "lock" ELSE "record", res |-> res,
                   connector |-> "generic", diff |-> NoDiff]
  <2>1. s.pc \notin {"load", "apply"}
    OBVIOUS
  <2>2. Goes(d, s) /\ UNCHANGED <<rows, dev, lock>>
    BY <1>1 DEF Take
  <2> HIDE DEF s
  <2> QED BY <2>1, <2>2, OutsideKeeps
<1>2. CASE RecordFailedRun(d)
  <2>1. PICK pc \in {"nack", "ack"} : Moves(d, pc)
    BY <1>2 DEF RecordFailedRun
  <2>2. UNCHANGED <<rows, dev, lock>>
    BY <1>2 DEF RecordFailedRun
  <2>3. Goes(d, Rec(pc)) /\ Rec(pc).pc \notin {"load", "apply"}
    BY <1>m, <2>1
  <2> HIDE DEF Rec
  <2> QED BY <2>2, <2>3, OutsideKeeps
<1>3. CASE TryLock(d)
  <2>1. UNCHANGED <<rows, dev>>
    BY <1>3 DEF TryLock
  <2>2. CASE lock = NoOne
    <3>1. lock' = d /\ Goes(d, Rec("load")) /\ Rec("load").pc = "load"
      BY <1>3, <1>m, <2>2 DEF TryLock
    <3>2. \A c \in Consumers : c # d /\ lock = c => lock' = c
      BY <2>2, SyncAssumption
    <3> HIDE DEF Rec
    <3> QED BY <2>1, <3>1, <3>2, ConsumerKeeps
  <2>3. CASE lock # NoOne
    <3>1. lock' = lock /\ Goes(d, Rec("nack")) /\ Rec("nack").pc = "nack"
      BY <1>3, <1>m, <2>3 DEF TryLock
    <3> HIDE DEF Rec
    <3> QED BY <2>1, <3>1, OutsideKeeps
  <2> QED BY <2>2, <2>3
<1>4. CASE Load(d)
  <2>1. UNCHANGED <<rows, dev>>
    BY <1>4 DEF Load
  <2>2. CASE dev.status \in {"retired", "purged"}
    <3>1. lock' = Released(d) /\ Goes(d, Rec("ack")) /\ Rec("ack").pc = "ack"
      BY <1>4, <1>m, <2>2 DEF Load
    <3> HIDE DEF Rec
    <3> QED BY <2>1, <3>1, ReleaseKeeps, OutsideKeeps
  <2>3. CASE dev.status \notin {"retired", "purged"}
    <3>1. PICK rank \in LoadOrders(Known(rows)) :
            Goes(d, [pc |-> "apply", res |-> cons[d].res, connector |-> dev.connector,
                     diff |-> Diff(rows, cons[d].res.snap, rank)])
      BY <1>4, <2>3 DEF Load
    <3> DEFINE s == [pc |-> "apply", res |-> cons[d].res, connector |-> dev.connector,
                     diff |-> Diff(rows, cons[d].res.snap, rank)]
    <3>2. s.pc = "apply" /\ s.diff = Diff(rows, s.res.snap, rank) /\ Goes(d, s)
      BY <3>1
    <3>3. lock = d /\ lock' = lock
      BY <1>4, <2>3 DEF Load, SyncInv, HoldsLock
    <3> HIDE DEF s
    <3>4. \E k \in LoadOrders(Known(rows)) : s.diff = Diff(rows, s.res.snap, k)
      BY <3>2
    <3> QED BY <2>1, <3>2, <3>3, <3>4, ConsumerKeeps
  <2> QED BY <2>2, <2>3
<1>5. CASE Apply(d)
  <2>1. lock = d /\ lock' = Released(d) /\ Goes(d, Rec("ack")) /\ Rec("ack").pc = "ack"
    BY <1>5, <1>m DEF Apply, SyncInv, HoldsLock
  <2> HIDE DEF Rec
  <2>2. \A c \in Consumers : cons'[c].pc \notin {"load", "apply"}
    BY <2>1 DEF SyncInv, HoldsLock, Goes
  <2>3. DOMAIN cons' = Consumers
    BY <2>1 DEF SyncInv, Goes
  <2> QED BY <2>2, <2>3 DEF HoldsLock, DiffFresh
<1>6. CASE ApplyAborts(d)
  <2>1. /\ lock' = Released(d) /\ Goes(d, Rec("nack")) /\ Rec("nack").pc = "nack"
        /\ UNCHANGED <<rows, dev>>
    BY <1>6, <1>m DEF ApplyAborts
  <2> HIDE DEF Rec
  <2> QED BY <2>1, ReleaseKeeps, OutsideKeeps
<1>7. CASE CallFails(d)
  <2>1. PICK pc \in {"nack", "ack"} : Moves(d, pc)
    BY <1>7 DEF CallFails
  <2>2. /\ lock' = Released(d) /\ Goes(d, Rec(pc)) /\ Rec(pc).pc = pc
        /\ UNCHANGED <<rows, dev>>
    BY <1>7, <1>m, <2>1 DEF CallFails
  <2> HIDE DEF Rec
  <2> QED BY <2>2, ReleaseKeeps, OutsideKeeps
<1>i. Idle.pc \notin {"load", "apply"}
  BY DEF Idle
<1>8. CASE Nack(d) \/ Ack(d)
  <2>1. Goes(d, Idle) /\ UNCHANGED <<rows, dev, lock>>
    BY <1>8 DEF Nack, Ack
  <2> QED BY <1>i, <2>1, OutsideKeeps
<1>9. CASE Crash(d)
  <2>1. /\ Goes(d, Idle) /\ UNCHANGED <<rows, dev>>
        /\ \A c \in Consumers : c # d /\ lock = c => lock' = c
    BY <1>9 DEF Crash
  <2> QED BY <1>i, <2>1, OutsideKeeps
<1> QED
  BY <1>1, <1>2, <1>3, <1>4, <1>5, <1>6, <1>7, <1>8, <1>9 DEF Consumer

LEMMA DevStep ==
  ASSUME SyncInv, Next
  PROVE  /\ DevTyped'
         /\ oper'.connector \in {"generic", "vendor", "chosen"}
         /\ DOMAIN oper' = {"pc", "connector"}
         /\ dev.status = "purged" => dev'.status = "purged"
<1> DEFINE Good == /\ DevTyped'
                   /\ oper'.connector \in {"generic", "vendor", "chosen"}
                   /\ DOMAIN oper' = {"pc", "connector"}
                   /\ dev.status = "purged" => dev'.status = "purged"
<1>0. DevTyped /\ oper.connector \in {"generic", "vendor", "chosen"}
      /\ DOMAIN oper = {"pc", "connector"}
  BY DEF SyncInv
<1>1. ASSUME UNCHANGED <<dev, oper>> PROVE Good
  BY <1>0, <1>1 DEF DevTyped
<1>2. ASSUME NEW c \in Consumers, Apply(c) PROVE Good
  <2>1. PICK conn \in Rematched(cons[c].connector, dev.connector) : dev' = Activated(dev, conn)
    BY <1>2 DEF Apply
  <2>2. conn \in {"generic", "vendor", "chosen"}
    BY <1>0, <2>1 DEF Rematched, DevTyped
  <2> QED BY <1>0, <1>2, <2>1, <2>2 DEF Apply, Activated, DevTyped
<1>3. ASSUME NEW next \in {"update", "purge"}, OperatorReads(next) PROVE Good
  BY <1>0, <1>3 DEF OperatorReads, DevTyped
<1>4. ASSUME OperatorUpdates PROVE Good
  <2>1. oper'.connector = oper.connector /\ DOMAIN oper' = DOMAIN oper
    BY <1>0, <1>4 DEF OperatorUpdates
  <2>2. PICK conn \in {oper.connector, "chosen"} :
          dev' = IF dev.status = "purged" THEN dev ELSE [dev EXCEPT !.connector = conn]
    BY <1>4 DEF OperatorUpdates
  <2> QED BY <1>0, <2>1, <2>2 DEF DevTyped
<1>5. ASSUME OperatorPurges PROVE Good
  <2>1. oper'.connector = oper.connector /\ DOMAIN oper' = DOMAIN oper
    BY <1>0, <1>5 DEF OperatorPurges
  <2> QED BY <1>0, <1>5, <2>1 DEF OperatorPurges, DevTyped
<1>6. ASSUME NEW s \in {"active", "disabled", "retired"}, SetStatus(s) PROVE Good
  BY <1>0, <1>6 DEF SetStatus, DevTyped
<1>7. ASSUME NEW c \in Consumers,
             Consumer(c) \/ CallFails(c) \/ Crash(c), ~Apply(c)
      PROVE  UNCHANGED <<dev, oper>>
  BY <1>7 DEF Consumer, Take, RecordFailedRun, TryLock, Load, ApplyAborts, CallFails,
              Nack, Ack, Crash
<1>8. ASSUME Collect \/ LockExpires PROVE Good
  BY <1>1, <1>8 DEF Collect, LockExpires
<1> HIDE DEF Good
<1>9. Good
  BY <1>1, <1>2, <1>3, <1>4, <1>5, <1>6, <1>7, <1>8 DEF Next, Operator
<1> QED BY <1>9 DEF Good

-----------------------------------------------------------------------------

\* No lock lapses: SyncInv is inductive.
LEMMA SyncInductive ==
  ASSUME ~LockLapses
  PROVE  /\ Init => SyncInv
         /\ SyncInv /\ [Next]_vars => SyncInv'
<1>1. Init => SyncInv
  <2> SUFFICES ASSUME Init PROVE SyncInv
    OBVIOUS
  <2>1. \A c \in Consumers : cons[c].pc = "idle"
    BY DEF Init, Idle
  <2>2. DOMAIN cons = Consumers /\ HoldsLock /\ DiffFresh
    BY <2>1 DEF Init, HoldsLock, DiffFresh
  <2> QED BY <2>2 DEF Init, SyncInv, DevTyped
<1>2. SyncInv /\ [Next]_vars => SyncInv'
  <2> SUFFICES ASSUME SyncInv, [Next]_vars PROVE SyncInv'
    OBVIOUS
  <2>1. CASE UNCHANGED vars
    <3>1. UNCHANGED <<dev, oper, cons, rows, lock>>
      BY <2>1 DEF vars
    <3>2. DOMAIN cons' = Consumers /\ HoldsLock' /\ DiffFresh'
      BY <3>1, OthersKeep
    <3> QED BY <3>1, <3>2 DEF SyncInv, DevTyped
  <2>2. CASE Next
    <3> DEFINE Kept == DOMAIN cons' = Consumers /\ HoldsLock' /\ DiffFresh'
    <3>1. dev.status = "purged" => dev'.status = "purged"
      BY <2>2, DevStep
    <3>2. ASSUME NEW c \in Consumers, Consumer(c) \/ CallFails(c) \/ Crash(c) PROVE Kept
      BY <3>2, ConsumerStep
    <3>3. ASSUME LockExpires PROVE Kept
      <4>1. \A c \in Consumers : lock = c => lock' = c
        <5>1. lock = "dead"
          BY <3>3 DEF LockExpires, Expires
        <5> QED BY <5>1, SyncAssumption
      <4> QED BY <3>1, <3>3, <4>1, OthersKeep DEF LockExpires
    <3>4. ASSUME OperatorPurges PROVE Kept
      <4>1. dev'.status = "purged" /\ UNCHANGED <<cons, lock>>
        BY <3>4 DEF OperatorPurges, SyncInv, DevTyped
      <4> QED BY <4>1 DEF SyncInv, HoldsLock, DiffFresh
    <3>5. ASSUME \/ Collect \/ OperatorUpdates
                 \/ \E next \in {"update", "purge"} : OperatorReads(next)
                 \/ \E s \in {"active", "disabled", "retired"} : SetStatus(s)
          PROVE  Kept
      <4>1. UNCHANGED <<cons, rows, lock>>
        BY <3>5 DEF Collect, OperatorUpdates, OperatorReads, SetStatus
      <4> QED BY <3>1, <4>1, OthersKeep
    <3> HIDE DEF Kept
    <3>6. Kept
      BY <2>2, <3>2, <3>3, <3>4, <3>5 DEF Next, Operator
    <3> QED BY <2>2, <3>6, DevStep DEF SyncInv, Kept
  <2> QED BY <2>1, <2>2
<1> QED BY <1>1, <1>2

\* While the lock outlives every handling, the change set that Apply writes is
\* the one Diff gives on the rows as they are at that moment: sync.go reads the
\* state outside the transaction, and this is why it may.
THEOREM DiffNeverStale == ASSUME ~LockLapses PROVE Spec => []DiffFresh
<1>1. Init => SyncInv
  BY SyncInductive
<1>2. SyncInv /\ [Next]_vars => SyncInv'
  BY SyncInductive
<1>3. SyncInv => DiffFresh
  BY DEF SyncInv
<1> QED BY <1>1, <1>2, <1>3, PTL DEF Spec

-----------------------------------------------------------------------------
(* The operators' decisions stand, whether locks lapse or not.             *)

LEMMA ConsumersStay ==
  ASSUME DOMAIN cons = Consumers, [Next]_vars
  PROVE  DOMAIN cons' = Consumers
<1>1. ASSUME NEW c \in Consumers, NEW s, Goes(c, s) PROVE DOMAIN cons' = Consumers
  BY <1>1 DEF Goes
<1>2. ASSUME NEW c \in Consumers, NEW pc, Moves(c, pc) PROVE DOMAIN cons' = Consumers
  BY <1>1, <1>2 DEF Moves
<1>3. ASSUME NEW c \in Consumers, Consumer(c) \/ CallFails(c) \/ Crash(c)
      PROVE  DOMAIN cons' = Consumers
  BY <1>1, <1>2, <1>3 DEF Consumer, Take, RecordFailedRun, TryLock, Load, Apply, ApplyAborts,
                          CallFails, Nack, Ack, Crash
<1>4. ASSUME Collect \/ LockExpires \/ Operator PROVE DOMAIN cons' = Consumers
  BY <1>4 DEF Collect, LockExpires, Operator, OperatorReads, OperatorUpdates, OperatorPurges,
              SetStatus
<1>5. CASE UNCHANGED vars
  BY <1>5 DEF vars
<1> QED BY <1>3, <1>4, <1>5 DEF Next

\* The one step that takes a consumer from applying to acknowledging is the
\* commit of its transaction.
LEMMA ApplyingIsApply ==
  ASSUME DOMAIN cons = Consumers, NEW c \in Consumers, Next, Applying(c)
  PROVE  Apply(c)
<1>1. cons'[c] # cons[c]
  BY DEF Applying
<1>2. ASSUME NEW d \in Consumers, NEW s, Goes(d, s) PROVE d = c /\ s.pc = "ack"
  BY <1>1, <1>2 DEF Goes, Applying
<1>3. ASSUME NEW d \in Consumers, NEW pc, Moves(d, pc) PROVE d = c /\ pc = "ack"
  <2>1. PICK s : s = [pc |-> pc, res |-> cons[d].res, connector |-> "generic", diff |-> NoDiff]
    OBVIOUS
  <2>2. s.pc = pc
    BY <2>1
  <2> QED BY <1>2, <1>3, <2>1, <2>2 DEF Moves
<1>4. ASSUME NEW d \in Consumers, Consumer(d) \/ CallFails(d) \/ Crash(d)
      PROVE  Apply(c)
  <2>1. ASSUME NEW res \in queue, Take(d, res) PROVE FALSE
    <3>1. PICK s : s = [pc |-> IF res.ok THEN "lock" ELSE "record", res |-> res,
                        connector |-> "generic", diff |-> NoDiff]
      OBVIOUS
    <3>2. s.pc # "ack"
      BY <3>1
    <3> QED BY <1>2, <2>1, <3>1, <3>2 DEF Take
  <2>2. CASE RecordFailedRun(d)
    BY <1>3, <2>2 DEF RecordFailedRun, Applying
  <2>3. CASE TryLock(d)
    BY <1>3, <2>3 DEF TryLock, Applying
  <2>4. CASE Load(d)
    <3>1. d = c
      BY <1>2, <1>3, <2>4 DEF Load
    <3> QED BY <2>4, <3>1 DEF Load, Applying
  <2>5. CASE Apply(d)
    <3>1. d = c
      BY <1>3, <2>5 DEF Apply
    <3> QED BY <2>5, <3>1
  <2>6. CASE ApplyAborts(d) \/ CallFails(d)
    <3>1. ~Moves(d, "nack")
      BY <1>3
    <3>2. Moves(d, "ack") => d = c
      BY <1>3
    <3> QED BY <2>6, <3>1, <3>2 DEF ApplyAborts, CallFails, Applying
  <2>7. CASE Nack(d) \/ Ack(d) \/ Crash(d)
    <3>1. Idle.pc # "ack"
      BY DEF Idle
    <3> QED BY <1>2, <2>7, <3>1 DEF Nack, Ack, Crash
  <2> QED BY <1>4, <2>1, <2>2, <2>3, <2>4, <2>5, <2>6, <2>7 DEF Consumer
<1>5. ~(Collect \/ LockExpires \/ Operator)
  BY <1>1 DEF Collect, LockExpires, Operator, OperatorReads, OperatorUpdates, OperatorPurges,
              SetStatus
<1> QED BY <1>4, <1>5 DEF Next

\* A sync that commits never changes the status of a device an operator has
\* disabled or retired meanwhile: the condition is in the device's UPDATE
\* itself, so it holds even where locks lapse and the device was read before.
THEOREM OperatorsDecide == Spec => StatusIsTheOperators
<1>1. Init => DOMAIN cons = Consumers
  BY DEF Init
<1>2. DOMAIN cons = Consumers /\ [Next]_vars => (DOMAIN cons = Consumers)'
  BY ConsumersStay
<1>3. DOMAIN cons = Consumers /\ [Next]_vars =>
        [\A c \in Consumers : Applying(c) =>
           (dev.status \in {"disabled", "retired"} => dev'.status = dev.status)]_vars
  <2> SUFFICES ASSUME DOMAIN cons = Consumers, Next, NEW c \in Consumers, Applying(c),
                      dev.status \in {"disabled", "retired"}
               PROVE  dev'.status = dev.status
    OBVIOUS
  <2>1. Apply(c)
    BY ApplyingIsApply
  <2> QED BY <2>1 DEF Apply, Activated
<1> QED BY <1>1, <1>2, <1>3, PTL DEF Spec, StatusIsTheOperators

-----------------------------------------------------------------------------
(* Induction, over sets: a least counterexample does not exist.            *)

LEMMA SetInduction ==
  ASSUME NEW S, 0 \in S, \A n \in Nat : n \in S => n + 1 \in S
  PROVE  \A n \in Nat : n \in S
<1> SUFFICES ASSUME NEW k \in Nat, k \notin S PROVE FALSE
  OBVIOUS
<1> DEFINE T == {n \in Nat : n \notin S}
           R == OpToRel(<, Nat)
<1>1. T # {} /\ T \subseteq Nat
  OBVIOUS
<1>2. IsWellFoundedOn(R, Nat)
  BY NatLessThanWellFounded
<1>3. \A x, y \in Nat : x < y => <<x, y>> \in R
  BY DEF OpToRel
<1> HIDE DEF R
<1>4. PICK x \in T : \A y \in T : ~(<<y, x>> \in R)
  <2> HIDE DEF T
  <2> QED BY <1>1, <1>2, WFMin
<1>5. x \in Nat /\ x # 0 /\ x - 1 \in Nat
  BY <1>4
<1>6. x - 1 \in S
  <2>1. <<x - 1, x>> \in R
    BY <1>5, <1>3
  <2> QED BY <1>4, <1>5, <2>1
<1>7. x \in S
  BY <1>5, <1>6
<1> QED BY <1>4, <1>7

RowRecs == [state : {"free", "present", "missing", "removed"}, idx : Int,
            name : Names \cup {NoName}, phys : Phys \cup {NoPhys}, streak : Nat]

Tables == [RowIds -> RowRecs]

\* The runs of a loop over 1..k that carries a value of V.
Steps(V, k) == [V \X (1..k) -> V]
Runs(V, first, step, k) ==
  {f \in [0..k -> V] : f[0] = first /\ \A i \in 1..k : f[i] = step[<<f[i - 1], i>>]}

\* Such a loop runs to its end.
LEMMA LoopRuns ==
  ASSUME NEW V, NEW first \in V, NEW k \in Nat, NEW step \in Steps(V, k)
  PROVE  Runs(V, first, step, k) # {}
<1> USE DEF Steps, Runs
<1> DEFINE Run(f, n) == f[0] = first /\ \A i \in 1..n : f[i] = step[<<f[i - 1], i>>]
           S == {n \in Nat : n <= k => \E f \in [0..n -> V] : Run(f, n)}
<1>1. 0 \in S
  <2> DEFINE f == [i \in 0..0 |-> first]
  <2>1. f \in [0..0 -> V] /\ Run(f, 0)
    OBVIOUS
  <2> QED BY <2>1
<1>2. ASSUME NEW n \in Nat, n \in S PROVE n + 1 \in S
  <2> SUFFICES ASSUME n + 1 <= k PROVE \E f \in [0..n+1 -> V] : Run(f, n + 1)
    OBVIOUS
  <2>1. PICK f \in [0..n -> V] : Run(f, n)
    BY <1>2
  <2>2. PICK v \in V : v = step[<<f[n], n + 1>>]
    <3>1. f[n] \in V /\ n + 1 \in 1..k
      BY <2>1
    <3> QED BY <3>1
  <2> DEFINE g == [i \in 0..n+1 |-> IF i <= n THEN f[i] ELSE v]
  <2>3. g \in [0..n+1 -> V] /\ g[0] = first
    BY <2>1
  <2>4. ASSUME NEW i \in 1..n+1 PROVE g[i] = step[<<g[i - 1], i>>]
    <3>1. CASE i \in 1..n
      <4>1. g[i] = f[i] /\ g[i - 1] = f[i - 1]
        BY <3>1
      <4> QED BY <2>1, <3>1, <4>1
    <3>2. CASE i = n + 1
      <4>1. g[i] = v /\ g[i - 1] = f[n]
        BY <3>2
      <4> QED BY <2>2, <3>2, <4>1
    <3> QED BY <3>1, <3>2
  <2> HIDE DEF g
  <2> QED BY <2>3, <2>4
<1>3. k \in S
  <2> HIDE DEF S
  <2> QED BY <1>1, <1>2, SetInduction
<1> QED BY <1>3

-----------------------------------------------------------------------------

Progress == [ok : BOOLEAN, t : Tables]

LEMMA SnapshotShape ==
  ASSUME NEW snap \in Snapshots
  PROVE  /\ Len(snap) \in Nat /\ DOMAIN snap = 1..Len(snap)
         /\ \A i \in 1..Len(snap) : snap[i] \in Records
         /\ \A i, j \in 1..Len(snap) : i # j => snap[i].idx # snap[j].idx
<1>1. PICK n \in 0..Cardinality(Idx) : snap \in [1..n -> Records]
  BY DEF Snapshots
<1>2. n \in Nat
  BY <1>1, SyncAssumption, FS_CardinalityType
<1>3. Len(snap) = n /\ DOMAIN snap = 1..n
  BY <1>1, <1>2
<1>4. \A i, j \in DOMAIN snap : i # j => snap[i].idx # snap[j].idx
  BY DEF Snapshots
<1> QED BY <1>1, <1>2, <1>3, <1>4

LEMMA IndexesPositive == \A x \in Idx : x \in Int /\ x > 0
BY SyncAssumption

\* Writing one interface changes rows only into present ones with its index.
LEMMA UpsertOneShape ==
  ASSUME NEW p \in Progress, NEW rec \in Records, NEW hit
  PROVE  /\ UpsertOne(p, rec, hit) \in Progress
         /\ \A r \in RowIds : \/ UpsertOne(p, rec, hit).t[r] = p.t[r]
                              \/ /\ UpsertOne(p, rec, hit).t[r].state = "present"
                                 /\ UpsertOne(p, rec, hit).t[r].idx = rec.idx
<1> USE DEF Progress, Tables, RowRecs, Records
<1>0. /\ Written(rec) \in RowRecs /\ Written(rec).state = "present" /\ Written(rec).idx = rec.idx
      /\ p.t \in Tables /\ p.ok \in BOOLEAN /\ rec.name \in Names
  <2>1. rec.idx \in Idx /\ rec.name \in Names /\ rec.phys \in Phys
    OBVIOUS
  <2>2. rec.idx \in Int
    BY <2>1, IndexesPositive
  <2> QED BY <2>1, <2>2 DEF Written
<1>1. ASSUME NEW r
      PROVE  /\ Updated(p.t, r, rec) \in Tables
             /\ \A s \in RowIds : \/ Updated(p.t, r, rec)[s] = p.t[s]
                                  \/ Updated(p.t, r, rec)[s] = Written(rec)
  BY <1>0 DEF Updated
<1>2. /\ Inserted(p.t, rec) \in Tables
      /\ \A s \in RowIds : \/ Inserted(p.t, rec)[s] = p.t[s]
                           \/ /\ Inserted(p.t, rec)[s].state = "present"
                              /\ Inserted(p.t, rec)[s].idx = rec.idx
  <2>1. CASE Holders(p.t, rec.idx) # {}
    <3>1. PICK r \in RowIds : /\ r = CHOOSE q \in Holders(p.t, rec.idx) : TRUE
                              /\ p.t[r].state = "present" /\ p.t[r].idx = rec.idx
      BY <2>1 DEF Holders
    <3>2. PICK w : w = [p.t[r] EXCEPT !.name = rec.name, !.streak = 0]
      OBVIOUS
    <3>3. w \in RowRecs /\ w.state = "present" /\ w.idx = rec.idx
      BY <1>0, <3>1, <3>2
    <3>4. Inserted(p.t, rec) = [p.t EXCEPT ![r] = w]
      BY <2>1, <3>1, <3>2 DEF Inserted
    <3> QED BY <1>0, <3>3, <3>4
  <2>2. CASE Holders(p.t, rec.idx) = {}
    <3>1. PICK r : r = CHOOSE q \in RowIds : p.t[q].state = "free"
      OBVIOUS
    <3>2. Inserted(p.t, rec) = Updated(p.t, r, rec)
      BY <2>2, <3>1 DEF Inserted, Updated
    <3> QED BY <1>0, <1>1, <3>2
  <2> QED BY <2>1, <2>2
<1>3. CASE hit = {}
  <2>1. UpsertOne(p, rec, hit) = [p EXCEPT !.t = Inserted(p.t, rec)]
    BY <1>3 DEF UpsertOne
  <2>2. UpsertOne(p, rec, hit) \in Progress /\ UpsertOne(p, rec, hit).t = Inserted(p.t, rec)
    BY <1>2, <2>1
  <2> QED BY <1>2, <2>2
<1>4. CASE hit # {}
  <2>1. PICK r : UpsertOne(p, rec, hit) =
                   [ok |-> p.ok /\ Holders(p.t, rec.idx) \ {r} = {}, t |-> Updated(p.t, r, rec)]
    BY <1>4 DEF UpsertOne
  <2>2. UpsertOne(p, rec, hit) \in Progress /\ UpsertOne(p, rec, hit).t = Updated(p.t, r, rec)
    BY <1>1, <2>1
  <2> QED BY <1>0, <1>1, <2>2
<1> QED BY <1>3, <1>4

\* The run of the loop over the snapshot that Upserted is the end of.
UpsertRun(run, t, snap, d) ==
  /\ Upserted(t, snap, d) = run[Len(snap)]
  /\ run[0] = [ok |-> TRUE, t |-> t]
  /\ \A i \in 1..Len(snap) : run[i] = UpsertOne(run[i - 1], snap[i], d.match[i])

LEMMA UpsertedRuns ==
  ASSUME NEW t \in Tables, NEW snap \in Snapshots, NEW d
  PROVE  \E run : UpsertRun(run, t, snap, d)
<1> PICK k \in Nat : k = Len(snap)
  BY SnapshotShape
<1> PICK first \in Progress : first = [ok |-> TRUE, t |-> t]
  BY DEF Progress
<1> DEFINE step == [x \in Progress \X (1..k) |-> UpsertOne(x[1], snap[x[2]], d.match[x[2]])]
           IsRun(f) == f = [i \in 0..k |-> IF i = 0 THEN first
                                            ELSE UpsertOne(f[i - 1], snap[i], d.match[i])]
<1>1. step \in [Progress \X (1..k) -> Progress]
  BY UpsertOneShape, SnapshotShape
<1>2. Runs(Progress, first, step, k) # {}
  <2>1. step \in Steps(Progress, k)
    BY <1>1 DEF Steps
  <2> HIDE DEF step
  <2> QED BY <2>1, LoopRuns
<1>3. \E f : IsRun(f)
  <2>1. PICK f \in [0..k -> Progress] :
          f[0] = first /\ \A i \in 1..k : f[i] = step[<<f[i - 1], i>>]
    BY <1>2 DEF Runs
  <2>2. \A i \in 1..k : f[i] = UpsertOne(f[i - 1], snap[i], d.match[i])
    <3> TAKE i \in 1..k
    <3>1. f[i - 1] \in Progress
      BY <2>1
    <3>2. <<f[i - 1], i>> \in Progress \X (1..k)
      BY <3>1
    <3> QED BY <2>1, <3>2
  <2>3. ASSUME NEW i \in 0..k
        PROVE  f[i] = IF i = 0 THEN first ELSE UpsertOne(f[i - 1], snap[i], d.match[i])
    BY <2>1, <2>2
  <2>4. f = [i \in 0..k |-> f[i]]
    BY <2>1
  <2>5. IsRun(f)
    BY <2>3, <2>4
  <2> HIDE DEF IsRun
  <2> QED BY <2>5
<1> DEFINE run == CHOOSE f : IsRun(f)
<1>4. IsRun(run)
  <2> HIDE DEF IsRun
  <2> QED BY <1>3
<1>5. Upserted(t, snap, d) = run[k]
  BY DEF Upserted
<1> HIDE DEF run
<1>6. run[0] = first
  BY <1>4
<1>7. ASSUME NEW i \in 1..k
      PROVE  run[i] = UpsertOne(run[i - 1], snap[i], d.match[i])
  <2>1. i \in 0..k /\ i # 0
    OBVIOUS
  <2> QED BY <1>4, <2>1
<1>8. UpsertRun(run, t, snap, d)
  BY <1>5, <1>6, <1>7 DEF UpsertRun
<1> QED BY <1>8

\* Writing the interfaces changes rows only into present ones; and when no
\* present row holds an index to begin with, no UPDATE meets the unique index.
LEMMA UpsertedShape ==
  ASSUME NEW t \in Tables, NEW snap \in Snapshots, NEW d
  PROVE  /\ Upserted(t, snap, d) \in Progress
         /\ \A r \in RowIds : \/ Upserted(t, snap, d).t[r] = t[r]
                              \/ Upserted(t, snap, d).t[r].state = "present"
         /\ (\A r \in RowIds : t[r].state = "present" => t[r].idx <= 0)
              => Upserted(t, snap, d).ok
<1> PICK k \in Nat : k = Len(snap)
  BY SnapshotShape
<1>r. PICK run : UpsertRun(run, t, snap, d)
  BY UpsertedRuns
<1>1. /\ Upserted(t, snap, d) = run[k]
      /\ run[0] = [ok |-> TRUE, t |-> t]
      /\ \A i \in 1..k : run[i] = UpsertOne(run[i - 1], snap[i], d.match[i])
  BY <1>r DEF UpsertRun
<1>2. /\ \A i \in 1..k : snap[i] \in Records
      /\ \A i, j \in 1..k : i # j => snap[i].idx # snap[j].idx
  BY SnapshotShape
<1> DEFINE Unheld == \A r \in RowIds : t[r].state = "present" => t[r].idx <= 0
           Good(n) ==
             /\ run[n] \in Progress
             /\ \A r \in RowIds : \/ run[n].t[r] = t[r]
                                  \/ /\ run[n].t[r].state = "present"
                                     /\ \E j \in 1..n : run[n].t[r].idx = snap[j].idx
             /\ Unheld => run[n].ok
           S == {n \in Nat : n <= k => Good(n)}
<1> HIDE DEF Unheld
<1>3. 0 \in S
  <2>1. run[0] \in Progress /\ run[0].t = t /\ run[0].ok
    BY <1>1 DEF Progress
  <2> QED BY <2>1
<1>4. ASSUME NEW n \in Nat, n \in S PROVE n + 1 \in S
  <2> SUFFICES ASSUME n + 1 <= k PROVE Good(n + 1)
    OBVIOUS
  <2>1. Good(n) /\ n + 1 \in 1..k
    BY <1>4
  <2> PICK p \in Progress : p = run[n]
    BY <2>1
  <2> PICK rec \in Records : rec = snap[n + 1]
    BY <1>2, <2>1
  <2> PICK hit : hit = d.match[n + 1]
    OBVIOUS
  <2>6. n + 1 \in 1..k
    BY <2>1
  <2>2. run[n + 1] = UpsertOne(p, rec, hit)
    BY <1>1, <2>1
  <2>3. /\ UpsertOne(p, rec, hit) \in Progress
        /\ \A r \in RowIds : \/ UpsertOne(p, rec, hit).t[r] = p.t[r]
                             \/ /\ UpsertOne(p, rec, hit).t[r].state = "present"
                                /\ UpsertOne(p, rec, hit).t[r].idx = rec.idx
    BY UpsertOneShape
  <2>4. ASSUME NEW r \in RowIds, run[n + 1].t[r] # t[r]
        PROVE  /\ run[n + 1].t[r].state = "present"
               /\ \E j \in 1..n+1 : run[n + 1].t[r].idx = snap[j].idx
    <3>1. CASE run[n + 1].t[r] = p.t[r]
      BY <2>1, <2>4, <3>1
    <3>2. CASE run[n + 1].t[r].state = "present" /\ run[n + 1].t[r].idx = rec.idx
      BY <3>2
    <3> QED BY <2>2, <2>3, <3>1, <3>2
  <2>5. ASSUME Unheld PROVE run[n + 1].ok
    <3>1. p.ok
      BY <2>1, <2>5
    <3>2. ASSUME NEW q \in RowIds, p.t[q].state = "present", p.t[q].idx = rec.idx PROVE FALSE
      <4>1. rec.idx \in Int /\ rec.idx > 0
        BY IndexesPositive DEF Records
      <4>2. p.t[q] # t[q]
        BY <2>5, <3>2, <4>1 DEF Unheld, Tables, RowRecs
      <4>3. PICK j \in 1..n : p.t[q].idx = snap[j].idx
        BY <2>1, <4>2
      <4>4. j \in 1..k /\ j # n + 1
        BY <2>1, <4>3
      <4>5. snap[j].idx # rec.idx
        BY <1>2, <2>6, <4>4
      <4> QED BY <3>2, <4>3, <4>5
    <3>3. Holders(p.t, rec.idx) = {}
      BY <3>2 DEF Holders
    <3>4. CASE hit = {}
      <4>1. run[n + 1] = [p EXCEPT !.t = Inserted(p.t, rec)]
        BY <2>2, <3>4 DEF UpsertOne
      <4> QED BY <3>1, <4>1 DEF Progress
    <3>5. CASE hit # {}
      <4>1. PICK r : run[n + 1] = [ok |-> p.ok /\ Holders(p.t, rec.idx) \ {r} = {},
                                   t  |-> Updated(p.t, r, rec)]
        BY <2>2, <3>5 DEF UpsertOne
      <4>2. Holders(p.t, rec.idx) \ {r} = {}
        BY <3>3
      <4>3. run[n + 1].ok = (p.ok /\ Holders(p.t, rec.idx) \ {r} = {})
        BY <4>1
      <4> QED BY <3>1, <4>2, <4>3, Zenon
    <3> QED BY <3>4, <3>5
  <2> QED BY <2>2, <2>3, <2>4, <2>5
<1>5. Good(k)
  <2> HIDE DEF Good
  <2>1. k \in S
    <3> HIDE DEF S
    <3> QED BY <1>3, <1>4, SetInduction
  <2> QED BY <2>1
<1> QED BY <1>1, <1>5 DEF Unheld

\* What a sync may make of row y, other than writing it.
Aged(y, x) ==
  \/ x.state = "present"
  \/ x.state = "missing" /\ y.state = "present" /\ x.streak = 1
  \/ x.state = "missing" /\ y.state = "missing" /\ x.streak \in {y.streak, y.streak + 1}
  \/ x.state = "removed" /\ (y.state = "removed" \/ RemovedNow(y))
  \/ x.state = "free" /\ y.state = "free"

\* The transaction's first two statements leave no present row at a positive
\* index when the diff is of the rows as they are: present rows are either
\* matched, and parked, or absent, and set missing.
LEMMA ParkedShape ==
  ASSUME NEW t \in Tables, NEW snap, NEW rank, NEW d, d = Diff(t, snap, rank)
  PROVE  /\ Parked(Retired(t, d), d) \in Tables
         /\ \A r \in RowIds : Parked(Retired(t, d), d)[r].state = "present"
                                => Parked(Retired(t, d), d)[r].idx <= 0
         /\ \A r \in RowIds : Aged(t[r], Parked(Retired(t, d), d)[r])
         /\ \A r \in RowIds : t[r].state = "free" => Parked(Retired(t, d), d)[r].state = "free"
         /\ \A r \in RowIds : Parked(Retired(t, d), d)[r].name = t[r].name
         /\ \A r \in RowIds : Parked(Retired(t, d), d)[r].state = "present"
                                => r \in UNION {d.match[i] : i \in DOMAIN d.match}
<1>1. PICK match : match = Matching(t, snap, rank)
  OBVIOUS
<1>2. PICK hits : hits = UNION {match[i] : i \in DOMAIN match}
  OBVIOUS
<1>3. /\ d.match = match
      /\ d.missing = {r \in Known(t) \ hits : t[r].state = "present"}
      /\ d.streak = {r \in Known(t) \ hits : t[r].state # "present" /\ ~RemovedNow(t[r])}
      /\ d.removed = {r \in Known(t) \ hits : RemovedNow(t[r])}
  BY <1>1, <1>2 DEF Diff
<1> PICK u : u = Retired(t, d)
  OBVIOUS
<1>4. ASSUME NEW r \in RowIds
      PROVE  /\ u[r] \in RowRecs
             /\ u[r].state = "present" => r \in hits
             /\ Aged(t[r], u[r])
             /\ t[r].state = "free" => u[r].state = "free"
             /\ u[r].name = t[r].name
  <2>1. t[r] \in RowRecs
    BY DEF Tables
  <2>2. PICK row \in RowRecs : row = t[r]
    BY <2>1
  <2>3. CASE r \in d.missing
    <3>1. PICK w : w = [row EXCEPT !.state = "missing", !.streak = 1]
      OBVIOUS
    <3>2. w \in RowRecs /\ w.state = "missing" /\ w.streak = 1 /\ w.name = row.name
      BY <3>1 DEF RowRecs
    <3>3. u[r] = w
      BY <2>2, <2>3, <3>1 DEF Retired
    <3>4. t[r].state = "present"
      BY <1>3, <2>3
    <3> QED BY <2>2, <3>2, <3>3, <3>4 DEF Aged
  <2>4. CASE r \notin d.missing /\ r \in d.streak
    <3>1. PICK w : w = [row EXCEPT !.streak = @ + 1]
      OBVIOUS
    <3>2. /\ w \in RowRecs /\ w.state = row.state
          /\ w.streak = row.streak + 1 /\ w.name = row.name
      BY <3>1 DEF RowRecs
    <3>3. u[r] = w
      BY <2>2, <2>4, <3>1 DEF Retired
    <3>4. row.state = "missing"
      BY <1>3, <2>2, <2>4 DEF Known
    <3> QED BY <2>2, <3>2, <3>3, <3>4 DEF Aged
  <2>5. CASE r \notin d.missing /\ r \notin d.streak /\ r \in d.removed
    <3>1. PICK w : w = [row EXCEPT !.state = "removed"]
      OBVIOUS
    <3>2. w \in RowRecs /\ w.state = "removed" /\ w.name = row.name
      BY <3>1 DEF RowRecs
    <3>3. u[r] = w
      BY <2>2, <2>5, <3>1 DEF Retired
    <3>4. RemovedNow(t[r])
      BY <1>3, <2>5
    <3>5. t[r].state # "free"
      BY <3>4 DEF RemovedNow
    <3> QED BY <2>2, <3>2, <3>3, <3>4, <3>5 DEF Aged
  <2>6. CASE r \notin d.missing /\ r \notin d.streak /\ r \notin d.removed
    <3>1. u[r] = row
      BY <2>2, <2>6 DEF Retired
    <3>2. Aged(row, row)
      BY DEF Aged, RowRecs
    <3>3. row.state = "present" => r \in hits
      BY <1>3, <2>2, <2>6 DEF Known
    <3> QED BY <2>2, <3>1, <3>2, <3>3
  <2> QED BY <2>3, <2>4, <2>5, <2>6
<1>5. Parked(u, d) = [r \in RowIds |-> IF r \in hits /\ u[r].idx > 0 THEN [u[r] EXCEPT !.idx = -@]
                                       ELSE u[r]]
  BY <1>2, <1>3 DEF Parked
<1>6. ASSUME NEW r \in RowIds
      PROVE  /\ Parked(u, d)[r] \in RowRecs
             /\ Parked(u, d)[r].state = "present" => Parked(u, d)[r].idx <= 0
             /\ Aged(t[r], Parked(u, d)[r])
             /\ t[r].state = "free" => Parked(u, d)[r].state = "free"
             /\ Parked(u, d)[r].name = t[r].name
             /\ Parked(u, d)[r].state = "present" => r \in hits
  <2>1. PICK row \in RowRecs : row = u[r]
    BY <1>4
  <2>2. PICK w : w = IF r \in hits /\ row.idx > 0 THEN [row EXCEPT !.idx = -@] ELSE row
    OBVIOUS
  <2>3. /\ w \in RowRecs /\ w.state = row.state /\ w.streak = row.streak /\ w.name = row.name
        /\ r \in hits => w.idx <= 0
    <3>1. CASE r \in hits /\ row.idx > 0
      BY <2>2, <3>1 DEF RowRecs
    <3>2. CASE ~(r \in hits /\ row.idx > 0)
      BY <2>2, <3>2 DEF RowRecs
    <3> QED BY <3>1, <3>2
  <2>4. Aged(t[r], w)
    BY <1>4, <2>1, <2>3 DEF Aged
  <2> QED BY <1>4, <1>5, <2>1, <2>2, <2>3, <2>4
<1>7. Parked(u, d) \in Tables
  BY <1>5, <1>6 DEF Tables
<1> QED BY <1>2, <1>3, <1>6, <1>7

\* A fresh diff is applied without running into the index, and what it does to
\* each row is to write it present or to age it by at most one absence.
LEMMA AppliedShape ==
  ASSUME rows \in Tables, NEW snap \in Snapshots, NEW rank, NEW d, d = Diff(rows, snap, rank)
  PROVE  /\ Applied(snap, d) \in Progress
         /\ Applied(snap, d).ok
         /\ \A r \in RowIds : Aged(rows[r], Applied(snap, d).t[r])
<1>1. PICK t \in Tables : /\ t = Parked(Retired(rows, d), d)
                          /\ \A r \in RowIds : t[r].state = "present" => t[r].idx <= 0
                          /\ \A r \in RowIds : Aged(rows[r], t[r])
  BY ParkedShape
<1>2. PICK u \in Progress : /\ u = Upserted(t, snap, d)
                            /\ \A r \in RowIds : u.t[r] = t[r] \/ u.t[r].state = "present"
                            /\ u.ok
  BY <1>1, UpsertedShape
<1>3. Applied(snap, d) = u
  BY <1>1, <1>2 DEF Applied
<1>4. \A r \in RowIds : Aged(rows[r], u.t[r])
  BY <1>1, <1>2 DEF Aged
<1> QED BY <1>2, <1>3, <1>4

(* Results are numbered, and each is in one place.                         *)

Busy(c) == cons[c].pc # "idle"

ResultsApart ==
  /\ syncs \in Nat
  /\ \A m \in queue : m.n \in 1..syncs /\ m.snap \in Snapshots
  /\ \A m, k \in queue : m.n = k.n => m = k
  /\ \A c \in Consumers : Busy(c) =>
       /\ cons[c].res.n \in 1..syncs /\ cons[c].res.snap \in Snapshots
       /\ \A m \in queue : m.n # cons[c].res.n
       /\ \A e \in Consumers \ {c} : Busy(e) => cons[e].res.n # cons[c].res.n

\* The results still to be applied or settled.
Due == {m.n : m \in queue} \cup
       {cons[c].res.n : c \in {e \in Consumers : cons[e].pc \notin {"idle", "ack"}}}

\* What a consumer's step does with results: it takes one, keeps the one it
\* has, gives it back, or is done with it.
Takes(d, s, res) ==
  /\ ~Busy(d) /\ res \in queue /\ queue' = queue \ {res}
  /\ s.res = res /\ s.pc \notin {"idle", "ack"}
Keeps(d, s) ==
  /\ Busy(d) /\ queue' = queue
  /\ s.res = cons[d].res /\ s.pc # "idle" /\ (cons[d].pc = "ack" => s.pc = "ack")
GivesBack(d, s) ==
  /\ Busy(d) /\ queue' = queue \cup {cons[d].res}
  /\ s.pc = "idle" /\ (cons[d].pc = "ack" => faults' = faults + 1)
Settles(d, s) == cons[d].pc = "ack" /\ queue' = queue /\ s.pc = "idle"

Handles(d, s) ==
  /\ Goes(d, s)
  /\ (\E res \in queue : Takes(d, s, res)) \/ Keeps(d, s) \/ GivesBack(d, s) \/ Settles(d, s)
Handled(d) == \E s : Handles(d, s)

LEMMA ConsumerHandles ==
  ASSUME DOMAIN cons = Consumers, NEW d \in Consumers, Consumer(d) \/ CallFails(d) \/ Crash(d)
  PROVE  Handled(d) /\ UNCHANGED syncs
<1>u. UNCHANGED syncs
  BY DEF Consumer, Take, RecordFailedRun, TryLock, Load, Apply, ApplyAborts, CallFails, Nack,
         Ack, Crash
<1> SUFFICES Handled(d)
  BY <1>u
<1>k. ASSUME NEW pc \in {"ack", "nack", "load"}, Moves(d, pc), Busy(d), cons[d].pc # "ack",
             UNCHANGED queue
      PROVE  Handled(d)
  <2>1. PICK s : s = [pc |-> pc, res |-> cons[d].res, connector |-> "generic", diff |-> NoDiff]
    OBVIOUS
  <2>2. Goes(d, s) /\ s.pc = pc /\ s.res = cons[d].res
    BY <1>k, <2>1 DEF Moves
  <2>3. Keeps(d, s)
    BY <1>k, <2>2 DEF Keeps
  <2> QED BY <2>2, <2>3 DEF Handles, Handled
<1>1. ASSUME NEW res \in queue, Take(d, res)
      PROVE  Handled(d)
  <2>1. PICK s : s = [pc |-> IF res.ok THEN "lock" ELSE "record", res |-> res,
                      connector |-> "generic", diff |-> NoDiff]
    OBVIOUS
  <2>2. s.pc \in {"lock", "record"} /\ s.res = res
    BY <2>1
  <2>3. Goes(d, s) /\ Takes(d, s, res)
    BY <1>1, <2>1, <2>2 DEF Take, Takes, Busy
  <2> QED BY <2>3 DEF Handles, Handled
<1>2. CASE RecordFailedRun(d)
  <2>1. Busy(d) /\ cons[d].pc # "ack" /\ UNCHANGED queue
    BY <1>2 DEF RecordFailedRun, Busy
  <2>2. Moves(d, "nack") \/ Moves(d, "ack")
    BY <1>2 DEF RecordFailedRun
  <2> QED BY <1>k, <2>1, <2>2
<1>3. CASE TryLock(d)
  <2>1. Busy(d) /\ cons[d].pc # "ack" /\ UNCHANGED queue
    BY <1>3 DEF TryLock, Busy
  <2>2. Moves(d, "load") \/ Moves(d, "nack")
    BY <1>3 DEF TryLock
  <2> QED BY <1>k, <2>1, <2>2
<1>4. CASE Load(d)
  <2>1. CASE dev.status \in {"retired", "purged"}
    <3>1. Busy(d) /\ cons[d].pc # "ack" /\ UNCHANGED queue /\ Moves(d, "ack")
      BY <1>4, <2>1 DEF Load, Busy
    <3> QED BY <1>k, <3>1
  <2>2. CASE dev.status \notin {"retired", "purged"}
    <3>1. PICK rank : Goes(d, [pc |-> "apply", res |-> cons[d].res, connector |-> dev.connector,
                               diff |-> Diff(rows, cons[d].res.snap, rank)])
      BY <1>4, <2>2 DEF Load
    <3>2. PICK s : s = [pc |-> "apply", res |-> cons[d].res, connector |-> dev.connector,
                        diff |-> Diff(rows, cons[d].res.snap, rank)]
      OBVIOUS
    <3>3. s.pc = "apply" /\ s.res = cons[d].res /\ Goes(d, s)
      BY <3>1, <3>2
    <3>4. Keeps(d, s)
      BY <1>4, <3>3 DEF Load, Keeps, Busy
    <3> QED BY <3>3, <3>4 DEF Handles, Handled
  <2> QED BY <2>1, <2>2
<1>5. CASE Apply(d) \/ ApplyAborts(d) \/ CallFails(d)
  <2>1. Busy(d) /\ cons[d].pc # "ack" /\ UNCHANGED queue
    BY <1>5 DEF Apply, ApplyAborts, CallFails, Busy
  <2>2. Moves(d, "ack") \/ Moves(d, "nack")
    BY <1>5 DEF Apply, ApplyAborts, CallFails
  <2> QED BY <1>k, <2>1, <2>2
<1>i. Idle.pc = "idle"
  BY DEF Idle
<1>6. CASE Nack(d) \/ Crash(d)
  <2>1. Goes(d, Idle) /\ GivesBack(d, Idle)
    BY <1>6, <1>i DEF Nack, Crash, Fault, GivesBack, Busy
  <2> QED BY <2>1 DEF Handles, Handled
<1>7. CASE Ack(d)
  <2>1. Goes(d, Idle) /\ Settles(d, Idle)
    BY <1>7, <1>i DEF Ack, Settles
  <2> QED BY <2>1 DEF Handles, Handled
<1> QED
  BY <1>1, <1>2, <1>3, <1>4, <1>5, <1>6, <1>7 DEF Consumer

LEMMA ApartStep ==
  ASSUME ResultsApart, DOMAIN cons = Consumers, [Next]_vars
  PROVE  ResultsApart'
<1>1. ASSUME NEW d \in Consumers, Handled(d), UNCHANGED syncs
      PROVE  ResultsApart'
  <2>1. PICK s : Handles(d, s)
    BY <1>1 DEF Handled
  <2>2. /\ cons'[d] = s
        /\ \A c \in Consumers : c # d => cons'[c] = cons[c]
    BY <2>1 DEF Handles, Goes
  <2>3. ASSUME NEW res \in queue, Takes(d, s, res) PROVE ResultsApart'
    <3>1. ASSUME NEW c \in Consumers, Busy(c)'
          PROVE  /\ cons'[c].res.n \in 1..syncs /\ cons'[c].res.snap \in Snapshots
                 /\ \A m \in queue' : m.n # cons'[c].res.n
      BY <2>2, <2>3, <3>1 DEF ResultsApart, Takes, Busy
    <3>2. ASSUME NEW c \in Consumers, NEW e \in Consumers, c # e, Busy(c)', Busy(e)'
          PROVE  cons'[e].res.n # cons'[c].res.n
      BY <2>2, <2>3, <3>2 DEF ResultsApart, Takes, Busy
    <3> QED BY <1>1, <2>3, <3>1, <3>2 DEF ResultsApart, Takes
  <2>4. CASE Keeps(d, s)
    <3>1. \A c \in Consumers : Busy(c)' <=> Busy(c)
      BY <2>2, <2>4 DEF Keeps, Busy
    <3>2. \A c \in Consumers : cons'[c].res = cons[c].res
      BY <2>2, <2>4 DEF Keeps
    <3>3. UNCHANGED <<queue, syncs>>
      BY <1>1, <2>4 DEF Keeps
    <3> QED BY <3>1, <3>2, <3>3 DEF ResultsApart
  <2>5. CASE GivesBack(d, s) \/ Settles(d, s)
    <3>1. ~Busy(d)' /\ \A c \in Consumers : c # d => cons'[c] = cons[c] /\ (Busy(c)' <=> Busy(c))
      BY <2>2, <2>5 DEF GivesBack, Settles, Busy
    <3>2. queue' = queue \/ (Busy(d) /\ queue' = queue \cup {cons[d].res})
      BY <2>5 DEF GivesBack, Settles
    <3>3. \A c \in Consumers : Busy(c)' => c # d /\ Busy(c) /\ cons'[c].res = cons[c].res
      BY <3>1
    <3>4. \A m, k \in queue' : /\ m.n \in 1..syncs /\ m.snap \in Snapshots
                               /\ m.n = k.n => m = k
      BY <3>2 DEF ResultsApart
    <3>5. \A c \in Consumers : Busy(c)' => \A m \in queue' : m.n # cons'[c].res.n
      BY <3>2, <3>3 DEF ResultsApart
    <3>6. \A c \in Consumers : Busy(c)' =>
            /\ cons'[c].res.n \in 1..syncs /\ cons'[c].res.snap \in Snapshots
            /\ \A e \in Consumers \ {c} : Busy(e)' => cons'[e].res.n # cons'[c].res.n
      BY <3>3 DEF ResultsApart
    <3> QED BY <1>1, <3>4, <3>5, <3>6 DEF ResultsApart
  <2> QED BY <2>1, <2>3, <2>4, <2>5 DEF Handles
<1>2. CASE Collect
  <2>1. PICK s \in Snapshots, ok \in BOOLEAN :
          queue' = queue \cup {[n |-> syncs', ok |-> ok, snap |-> s]}
    BY <1>2 DEF Collect
  <2>2. PICK new : new = [n |-> syncs', ok |-> ok, snap |-> s]
    OBVIOUS
  <2>3. new.n = syncs + 1 /\ new.snap \in Snapshots /\ queue' = queue \cup {new}
    BY <1>2, <2>1, <2>2 DEF Collect
  <2>4. UNCHANGED cons /\ syncs' = syncs + 1 /\ syncs \in Nat
    BY <1>2 DEF Collect, ResultsApart
  <2>5. \A x \in 1..syncs : x \in 1..syncs' /\ x # new.n
    BY <2>3, <2>4
  <2>6. new.n \in 1..syncs' /\ syncs' \in Nat
    BY <2>3, <2>4
  <2>7. \A m \in queue' : /\ m.n \in 1..syncs' /\ m.snap \in Snapshots
                          /\ \A k \in queue' : m.n = k.n => m = k
    BY <2>3, <2>5, <2>6 DEF ResultsApart
  <2>8. ASSUME NEW c \in Consumers, Busy(c)'
        PROVE  /\ cons'[c].res.n \in 1..syncs' /\ cons'[c].res.snap \in Snapshots
               /\ \A m \in queue' : m.n # cons'[c].res.n
               /\ \A e \in Consumers \ {c} : Busy(e)' => cons'[e].res.n # cons'[c].res.n
    BY <2>3, <2>4, <2>5, <2>8 DEF ResultsApart, Busy
  <2> QED BY <2>6, <2>7, <2>8 DEF ResultsApart
<1>3. CASE UNCHANGED <<syncs, queue, cons>>
  BY <1>3 DEF ResultsApart, Busy
<1>4. ASSUME NEW d \in Consumers, Consumer(d) \/ CallFails(d) \/ Crash(d) PROVE ResultsApart'
  BY <1>1, <1>4, ConsumerHandles
<1>5. LockExpires \/ Operator \/ UNCHANGED vars => UNCHANGED <<syncs, queue, cons>>
  BY DEF LockExpires, Operator, OperatorReads, OperatorUpdates, OperatorPurges, SetStatus, vars
<1> QED BY <1>2, <1>3, <1>4, <1>5 DEF Next

\* A number once settled does not come back, except that a crash between the
\* commit and the acknowledgement has the result delivered again.
LEMMA DueStep ==
  ASSUME ResultsApart, DOMAIN cons = Consumers, [Next]_vars
  PROVE  \/ Due' \cap 1..syncs \subseteq Due
         \/ /\ faults' = faults + 1
            /\ \E n \in 1..syncs : Due' \cap 1..syncs \subseteq Due \cup {n}
<1>1. ASSUME NEW d \in Consumers, Handled(d)
      PROVE  \/ Due' \subseteq Due
             \/ faults' = faults + 1 /\ \E n \in 1..syncs : Due' \subseteq Due \cup {n}
  <2>1. PICK s : Handles(d, s)
    BY <1>1 DEF Handled
  <2>2. /\ cons'[d] = s
        /\ \A c \in Consumers : c # d => cons'[c] = cons[c]
    BY <2>1 DEF Handles, Goes
  <2>3. ASSUME NEW res \in queue, Takes(d, s, res) PROVE Due' \subseteq Due
    BY <2>2, <2>3 DEF Takes, Due
  <2>4. CASE Keeps(d, s)
    <3>1. Due' \subseteq Due
      BY <2>2, <2>4 DEF Keeps, Busy, Due
    <3> QED BY <3>1
  <2>5. CASE GivesBack(d, s)
    <3>1. Due' \subseteq Due \cup {cons[d].res.n}
      BY <2>2, <2>5 DEF GivesBack, Due
    <3>2. cons[d].pc # "ack" => cons[d].res.n \in Due
      BY <2>5 DEF GivesBack, Busy, Due
    <3>3. cons[d].res.n \in 1..syncs
      BY <2>5 DEF GivesBack, ResultsApart
    <3> QED BY <2>5, <3>1, <3>2, <3>3 DEF GivesBack
  <2>6. CASE Settles(d, s)
    <3>1. Due' \subseteq Due
      BY <2>2, <2>6 DEF Settles, Due
    <3> QED BY <3>1
  <2> QED BY <2>1, <2>3, <2>4, <2>5, <2>6 DEF Handles
<1>2. CASE Collect
  <2>1. PICK s \in Snapshots, ok \in BOOLEAN :
          queue' = queue \cup {[n |-> syncs', ok |-> ok, snap |-> s]}
    BY <1>2 DEF Collect
  <2>2. UNCHANGED cons /\ syncs' = syncs + 1 /\ syncs' \notin 1..syncs
    BY <1>2 DEF Collect, ResultsApart
  <2>3. Due' \subseteq Due \cup {syncs'}
    BY <2>1, <2>2 DEF Due
  <2> QED BY <2>2, <2>3
<1>3. CASE UNCHANGED <<syncs, queue, cons>>
  BY <1>3 DEF Due
<1>4. ASSUME NEW d \in Consumers, Consumer(d) \/ CallFails(d) \/ Crash(d)
      PROVE  \/ Due' \subseteq Due
             \/ faults' = faults + 1 /\ \E n \in 1..syncs : Due' \subseteq Due \cup {n}
  BY <1>1, <1>4, ConsumerHandles
<1>5. LockExpires \/ Operator \/ UNCHANGED vars => UNCHANGED <<syncs, queue, cons>>
  BY DEF LockExpires, Operator, OperatorReads, OperatorUpdates, OperatorPurges, SetStatus, vars
<1> QED BY <1>2, <1>3, <1>4, <1>5 DEF Next

\* What is known of a consumer about to apply: its diff is fresh.
LEMMA ApplyFresh ==
  ASSUME SyncInv, ResultsApart, rows \in Tables,
         NEW c \in Consumers, cons[c].pc = "apply", dev.status # "purged"
  PROVE  LET u == Applied(cons[c].res.snap, cons[c].diff)
         IN  u \in Progress /\ u.ok /\ \A r \in RowIds : Aged(rows[r], u.t[r])
<1>1. PICK rank : cons[c].diff = Diff(rows, cons[c].res.snap, rank)
  BY DEF SyncInv, DiffFresh
<1>2. cons[c].res.snap \in Snapshots
  BY DEF ResultsApart, Busy
<1>3. PICK snap \in Snapshots : snap = cons[c].res.snap
  BY <1>2
<1>4. PICK d : d = cons[c].diff
  OBVIOUS
<1>5. /\ Applied(snap, d) \in Progress
      /\ Applied(snap, d).ok
      /\ \A r \in RowIds : Aged(rows[r], Applied(snap, d).t[r])
  BY <1>1, <1>3, <1>4, AppliedShape
<1> QED BY <1>3, <1>4, <1>5

LEMMA RowsStep ==
  ASSUME SyncInv, ResultsApart, rows \in Tables, [Next]_vars
  PROVE  \/ UNCHANGED <<rows, absent>>
         \/ OperatorPurges
         \/ \E c \in Consumers : Apply(c)
BY DEF Next, Collect, Consumer, Take, RecordFailedRun, TryLock, Load, ApplyAborts, CallFails,
       Nack, Ack, Crash, LockExpires, Operator, OperatorReads, OperatorUpdates, SetStatus, vars

LEMMA TablesStep ==
  ASSUME SyncInv, ResultsApart, rows \in Tables, [Next]_vars
  PROVE  (rows \in Tables)'
<1>1. ASSUME NEW c \in Consumers, Apply(c) PROVE (rows \in Tables)'
  <2>1. Applied(cons[c].res.snap, cons[c].diff) \in Progress
    BY <1>1, ApplyFresh DEF Apply
  <2> QED BY <1>1, <2>1 DEF Apply, Progress
<1>2. CASE OperatorPurges
  <2>1. FreeRow \in RowRecs
    BY DEF FreeRow, RowRecs
  <2> QED BY <1>2, <2>1 DEF OperatorPurges, Tables
<1> QED BY <1>1, <1>2, RowsStep

RowsInv == SyncInv /\ ResultsApart /\ rows \in Tables

\* No lock lapses: RowsInv is inductive.
LEMMA RowsInductive ==
  ASSUME ~LockLapses
  PROVE  /\ Init => RowsInv
         /\ RowsInv /\ [Next]_vars => RowsInv'
<1>1. Init => RowsInv
  <2> SUFFICES ASSUME Init PROVE ResultsApart /\ rows \in Tables
    BY SyncInductive DEF RowsInv
  <2>1. FreeRow \in RowRecs
    BY DEF FreeRow, RowRecs
  <2>2. \A c \in Consumers : ~Busy(c)
    BY DEF Init, Idle, Busy
  <2> QED BY <2>1, <2>2 DEF Init, ResultsApart, Tables
<1>2. RowsInv /\ [Next]_vars => RowsInv'
  BY SyncInductive, ApartStep, TablesStep DEF RowsInv, SyncInv
<1> QED BY <1>1, <1>2

\* While the lock outlives every handling, no sync ever aborts on the unique
\* index of present interfaces: whatever the device renumbers, swaps, renames,
\* drops or brings back, and whatever is redelivered, Apply's transaction is
\* accepted.
THEOREM SyncNeverWedges == ASSUME ~LockLapses PROVE Spec => []NeverWedges
<1>1. Init => RowsInv
  BY RowsInductive
<1>2. RowsInv /\ [Next]_vars => RowsInv'
  BY RowsInductive
<1>3. RowsInv => NeverWedges
  BY ApplyFresh DEF RowsInv, NeverWedges
<1> QED BY <1>1, <1>2, <1>3, PTL DEF Spec

-----------------------------------------------------------------------------
(* Removals are earned.                                                    *)

\* Absences of a row that a redelivered result could count a second time.
Redo(r) == absent[r] \cap Due

\* A streak exceeds the results that counted by one per crash at most, and a
\* result that may yet count again has not used up its crash.
StreakEarned(r) ==
  rows[r].state = "missing" =>
    rows[r].streak + Cardinality(Redo(r)) <= Cardinality(absent[r]) + faults
RemovalEarned(r) ==
  rows[r].state = "removed" => RemoveAfterMisses <= Cardinality(absent[r]) + faults

MissesInv ==
  /\ faults \in 0..MaxFaults
  /\ \A r \in RowIds : absent[r] \subseteq 1..syncs /\ StreakEarned(r) /\ RemovalEarned(r)

LEMMA AbsencesFinite ==
  ASSUME NEW A, NEW n \in Nat, A \subseteq 1..n
  PROVE  IsFiniteSet(A) /\ Cardinality(A) \in Nat
<1>1. IsFiniteSet(1..n)
  BY FS_Interval
<1>2. IsFiniteSet(A)
  BY <1>1, FS_Subset
<1> QED BY <1>2, FS_CardinalityType

\* Applying a result counts one absence more of a row that it ages.
LEMMA ApplyEarns ==
  ASSUME RowsInv, MissesInv, NEW c \in Consumers, Apply(c), NEW r \in RowIds
  PROVE  /\ absent'[r] \subseteq 1..syncs
         /\ StreakEarned(r)' /\ RemovalEarned(r)'
<1> PICK n : n = cons[c].res.n
  OBVIOUS
<1>1. n \in 1..syncs /\ syncs \in Nat /\ syncs' = syncs /\ faults' = faults /\ faults \in Nat
  BY SyncAssumption DEF RowsInv, ResultsApart, Busy, Apply, MissesInv
<1>2. n \in Due /\ Due' \subseteq Due \ {n}
  <2>1. /\ queue' = queue /\ cons[c].pc = "apply" /\ cons'[c].pc = "ack"
        /\ \A e \in Consumers : e # c => cons'[e] = cons[e]
    BY DEF Apply, Moves, Goes, RowsInv, SyncInv
  <2>2. n \in Due
    BY <2>1 DEF Due
  <2>3. ASSUME NEW x \in Due' PROVE x \in Due /\ x # n
    <3>1. CASE \E m \in queue : x = m.n
      BY <2>1, <3>1 DEF Due, RowsInv, ResultsApart, Busy
    <3>2. CASE \E e \in Consumers : cons'[e].pc \notin {"idle", "ack"} /\ x = cons'[e].res.n
      <4>1. PICK e \in Consumers : cons'[e].pc \notin {"idle", "ack"} /\ x = cons'[e].res.n
        BY <3>2
      <4>2. e # c /\ cons'[e] = cons[e]
        BY <2>1, <4>1
      <4>3. Busy(c) /\ Busy(e)
        BY <2>1, <4>1, <4>2 DEF Busy
      <4> QED BY <4>1, <4>2, <4>3 DEF Due, RowsInv, ResultsApart
    <3> QED BY <2>1, <2>3, <3>1, <3>2 DEF Due
  <2> QED BY <2>2, <2>3
<1> PICK x : x = rows'[r]
  OBVIOUS
<1> PICK y : y = rows[r]
  OBVIOUS
<1>3. Aged(y, x) /\ rows' = Applied(cons[c].res.snap, cons[c].diff).t /\ y \in RowRecs
  BY ApplyFresh DEF Apply, RowsInv, Tables
<1>4. absent'[r] = IF x.state # "present" /\ x # y THEN absent[r] \cup {n}
                   ELSE IF x.state = "present" THEN {} ELSE absent[r]
  BY <1>3 DEF Apply, Absences
<1> PICK A : A = absent[r]
  OBVIOUS
<1> PICK B : B = absent'[r]
  OBVIOUS
<1>5. A \subseteq 1..syncs /\ B \subseteq 1..syncs
  BY <1>1, <1>4 DEF MissesInv
<1> PICK P : P = A \cap Due
  OBVIOUS
<1> PICK Q : Q = B \cap Due'
  OBVIOUS
<1>6. /\ IsFiniteSet(A) /\ IsFiniteSet(B) /\ IsFiniteSet(P) /\ IsFiniteSet(Q)
      /\ Cardinality(A) \in Nat /\ Cardinality(B) \in Nat
      /\ Cardinality(P) \in Nat /\ Cardinality(Q) \in Nat
  <2>1. P \subseteq 1..syncs /\ Q \subseteq 1..syncs
    BY <1>5
  <2> QED BY <1>1, <1>5, <2>1, AbsencesFinite
<1>7. /\ y.state = "missing" => y.streak + Cardinality(P) <= Cardinality(A) + faults
      /\ y.state = "removed" => RemoveAfterMisses <= Cardinality(A) + faults
  BY DEF MissesInv, StreakEarned, RemovalEarned, Redo
<1>8. CASE x.state # "present" /\ x # y
  <2>1. B = A \cup {n}
    BY <1>4, <1>8
  <2>2. Q \subseteq P \ {n} /\ n \notin Q
    BY <1>2, <2>1
  <2>3. Cardinality(B) = IF n \in A THEN Cardinality(A) ELSE Cardinality(A) + 1
    BY <1>6, <2>1, FS_AddElement
  <2>4. Cardinality(Q) <= Cardinality(P \ {n})
    BY <1>6, <2>2, FS_Subset, FS_RemoveElement
  <2>5. Cardinality(P \ {n}) = IF n \in P THEN Cardinality(P) - 1 ELSE Cardinality(P)
    BY <1>6, FS_RemoveElement
  <2>6. n \in P <=> n \in A
    BY <1>2
  <2>7. Cardinality(Q) + 1 + Cardinality(A) <= Cardinality(P) + Cardinality(B)
    BY <1>6, <2>3, <2>4, <2>5, <2>6
  <2>8. Cardinality(Q) + 1 <= Cardinality(B)
    <3>1. Q \cup {n} \subseteq B /\ IsFiniteSet(Q \cup {n})
      BY <1>6, <2>1, FS_AddElement
    <3>2. Cardinality(Q \cup {n}) = Cardinality(Q) + 1
      BY <1>6, <2>2, FS_AddElement
    <3>3. Cardinality(Q \cup {n}) <= Cardinality(B)
      BY <1>6, <3>1, FS_Subset
    <3> QED BY <3>2, <3>3
  <2>9. /\ x.state = "missing" => x.streak + Cardinality(Q) <= Cardinality(B) + faults
        /\ x.state = "removed" => RemoveAfterMisses <= Cardinality(B) + faults
    <3>1. RemoveAfterMisses \in Nat /\ y.streak \in Nat
      BY <1>3, SyncAssumption DEF RowRecs
    <3>2. CASE x.state = "missing" /\ y.state = "present" /\ x.streak = 1
      BY <1>1, <1>6, <2>8, <3>2
    <3>3. CASE /\ x.state = "missing" /\ y.state = "missing"
               /\ x.streak \in {y.streak, y.streak + 1}
      BY <1>1, <1>6, <1>7, <2>7, <3>1, <3>3
    <3>4. CASE x.state = "removed" /\ RemovedNow(y)
      BY <1>1, <1>6, <1>7, <2>7, <3>1, <3>4 DEF RemovedNow
    <3>5. CASE x.state = "removed" /\ y.state = "removed"
      BY <1>1, <1>6, <1>7, <2>3, <3>1, <3>5
    <3>6. CASE x.state = "free"
      BY <3>6
    <3> QED BY <1>3, <1>8, <3>2, <3>3, <3>4, <3>5, <3>6 DEF Aged
  <2> QED BY <1>1, <1>5, <2>9 DEF StreakEarned, RemovalEarned, Redo
<1>9. CASE x.state = "present"
  BY <1>1, <1>5, <1>9 DEF StreakEarned, RemovalEarned
<1>10. CASE x.state # "present" /\ x = y
  <2>1. B = A /\ Q \subseteq P
    BY <1>2, <1>4, <1>10
  <2>2. Cardinality(Q) <= Cardinality(P)
    BY <1>6, <2>1, FS_Subset
  <2>3. /\ x.state = "missing" => x.streak + Cardinality(Q) <= Cardinality(B) + faults
        /\ x.state = "removed" => RemoveAfterMisses <= Cardinality(B) + faults
    BY <1>1, <1>3, <1>6, <1>7, <1>10, <2>1, <2>2 DEF RowRecs
  <2> QED BY <1>1, <1>5, <2>3 DEF StreakEarned, RemovalEarned, Redo
<1> QED BY <1>8, <1>9, <1>10

LEMMA MissesStep ==
  ASSUME RowsInv, MissesInv, [Next]_vars
  PROVE  MissesInv'
<1>1. faults' \in {faults, faults + 1} /\ faults \in Nat /\ faults' \in 0..MaxFaults
  <2>1. faults' = faults \/ Fault
    BY DEF Next, Collect, Consumer, Take, RecordFailedRun, TryLock, Load, Apply, ApplyAborts,
           CallFails, Nack, Ack, Crash, LockExpires, Operator, OperatorReads, OperatorUpdates,
           OperatorPurges, SetStatus, vars
  <2> QED BY <2>1, SyncAssumption DEF MissesInv, Fault
<1>2. syncs \in Nat /\ syncs' \in Nat /\ 1..syncs \subseteq 1..syncs'
  <2>1. syncs' = syncs \/ syncs' = syncs + 1
    BY DEF Next, Collect, Consumer, Take, RecordFailedRun, TryLock, Load, Apply, ApplyAborts,
           CallFails, Nack, Ack, Crash, LockExpires, Operator, OperatorReads, OperatorUpdates,
           OperatorPurges, SetStatus, vars
  <2> QED BY <2>1 DEF RowsInv, ResultsApart
<1>3. ASSUME NEW c \in Consumers, Apply(c) PROVE MissesInv'
  <2>1. syncs' = syncs
    BY <1>3 DEF Apply
  <2> QED BY <1>1, <1>3, <2>1, ApplyEarns DEF MissesInv
<1>4. CASE OperatorPurges
  <2>1. ASSUME NEW r \in RowIds
        PROVE  absent'[r] = {} /\ rows'[r].state = "free"
    BY <1>4 DEF OperatorPurges, FreeRow
  <2> QED BY <1>1, <2>1 DEF MissesInv, StreakEarned, RemovalEarned
<1>5. CASE UNCHANGED <<rows, absent>>
  <2> SUFFICES ASSUME NEW r \in RowIds
               PROVE  absent'[r] \subseteq 1..syncs' /\ StreakEarned(r)' /\ RemovalEarned(r)'
    BY <1>1 DEF MissesInv
  <2> PICK A : A = absent[r]
    OBVIOUS
  <2> PICK P : P = A \cap Due
    OBVIOUS
  <2> PICK Q : Q = A \cap Due'
    OBVIOUS
  <2>1. A \subseteq 1..syncs /\ absent'[r] = A
    BY <1>5 DEF MissesInv
  <2>2. /\ IsFiniteSet(P) /\ IsFiniteSet(Q)
        /\ Cardinality(A) \in Nat /\ Cardinality(P) \in Nat /\ Cardinality(Q) \in Nat
    <3>1. P \subseteq 1..syncs /\ Q \subseteq 1..syncs
      BY <2>1
    <3> QED BY <1>2, <2>1, <3>1, AbsencesFinite
  <2>3. Cardinality(Q) + faults <= Cardinality(P) + faults'
    <3>1. CASE Due' \cap 1..syncs \subseteq Due
      <4>1. Q \subseteq P
        BY <2>1, <3>1
      <4>2. Cardinality(Q) <= Cardinality(P)
        BY <2>2, <4>1, FS_Subset
      <4> QED BY <1>1, <2>2, <4>2
    <3>2. ASSUME faults' = faults + 1, NEW n \in 1..syncs, Due' \cap 1..syncs \subseteq Due \cup {n}
          PROVE  Cardinality(Q) + faults <= Cardinality(P) + faults'
      <4>1. Q \subseteq P \cup {n}
        BY <2>1, <3>2
      <4>a. /\ IsFiniteSet(P \cup {n})
            /\ Cardinality(P \cup {n}) = IF n \in P THEN Cardinality(P) ELSE Cardinality(P) + 1
        BY <2>2, FS_AddElement
      <4>2. IsFiniteSet(P \cup {n}) /\ Cardinality(P \cup {n}) <= Cardinality(P) + 1
        BY <2>2, <4>a
      <4>3. Cardinality(P \cup {n}) \in Nat
        BY <4>2, FS_CardinalityType
      <4>4. Cardinality(Q) <= Cardinality(P \cup {n})
        BY <4>1, <4>2, FS_Subset
      <4> QED BY <1>1, <2>2, <3>2, <4>2, <4>3, <4>4
    <3> QED BY <3>1, <3>2, DueStep DEF RowsInv, SyncInv
  <2>4. rows'[r] = rows[r] /\ rows[r].streak \in Nat
    BY <1>5 DEF RowsInv, Tables, RowRecs
  <2>5. StreakEarned(r)'
    <3>1. rows[r].state = "missing" =>
            rows[r].streak + Cardinality(P) <= Cardinality(A) + faults
      BY DEF MissesInv, StreakEarned, Redo
    <3>2. rows[r].state = "missing" =>
            rows[r].streak + Cardinality(Q) <= Cardinality(A) + faults'
      BY <1>1, <2>2, <2>3, <2>4, <3>1
    <3> QED BY <2>1, <2>4, <3>2 DEF StreakEarned, Redo
  <2>6. RemovalEarned(r)'
    <3>1. rows[r].state = "removed" => RemoveAfterMisses <= Cardinality(A) + faults
      BY DEF MissesInv, RemovalEarned
    <3>2. rows[r].state = "removed" => RemoveAfterMisses <= Cardinality(A) + faults'
      BY <1>1, <2>2, <3>1, SyncAssumption
    <3> QED BY <2>1, <2>4, <3>2 DEF RemovalEarned
  <2> QED BY <1>2, <2>1, <2>5, <2>6
<1> QED BY <1>3, <1>4, <1>5, RowsStep DEF RowsInv

LEMMA MissesInductive ==
  ASSUME ~LockLapses
  PROVE  /\ Init => RowsInv /\ MissesInv
         /\ RowsInv /\ MissesInv /\ [Next]_vars => (RowsInv /\ MissesInv)'
<1>1. Init => RowsInv /\ MissesInv
  <2> SUFFICES ASSUME Init PROVE MissesInv
    BY RowsInductive
  <2>1. \A r \in RowIds : absent[r] = {} /\ rows[r].state = "free"
    BY DEF Init, FreeRow
  <2> QED BY <2>1, SyncAssumption DEF Init, MissesInv, StreakEarned, RemovalEarned
<1>2. RowsInv /\ MissesInv /\ [Next]_vars => (RowsInv /\ MissesInv)'
  BY RowsInductive, MissesStep
<1> QED BY <1>1, <1>2

\* An interface is removed only after RemoveAfterMisses results have missed
\* it, less one per fault: only a crash between a commit and its
\* acknowledgement makes one result count twice.
THEOREM RemovalsEarned ==
  ASSUME ~LockLapses
  PROVE  Spec => []RemovedAfterMisses
<1>1. Init => RowsInv /\ MissesInv
  BY MissesInductive
<1>2. RowsInv /\ MissesInv /\ [Next]_vars => (RowsInv /\ MissesInv)'
  BY MissesInductive
<1>3. RowsInv /\ MissesInv => RemovedAfterMisses
  <2> SUFFICES ASSUME RowsInv, MissesInv, NEW r \in RowIds, rows[r].state = "removed"
               PROVE  Cardinality(absent[r]) + faults >= RemoveAfterMisses
    BY DEF RemovedAfterMisses
  <2>1. absent[r] \subseteq 1..syncs /\ syncs \in Nat /\ faults \in Nat
    BY SyncAssumption DEF RowsInv, ResultsApart, MissesInv
  <2>2. Cardinality(absent[r]) \in Nat
    BY <2>1, AbsencesFinite
  <2>3. RemoveAfterMisses <= Cardinality(absent[r]) + faults
    BY DEF MissesInv, RemovalEarned
  <2> QED BY <2>1, <2>2, <2>3, SyncAssumption
<1> QED BY <1>1, <1>2, <1>3, PTL DEF Spec

LEMMA MaxExists ==
  ASSUME NEW N \in Nat, NEW A, A \subseteq 1..N, A # {}
  PROVE  \E m \in A : \A x \in A : x <= m
<1> DEFINE S == {n \in Nat : \A B \in SUBSET (1..n) : B # {} => \E m \in B : \A x \in B : x <= m}
<1>1. 0 \in S
  <2>1. \A B \in SUBSET (1..0) : B = {}
    OBVIOUS
  <2> QED BY <2>1
<1>2. ASSUME NEW n \in Nat, n \in S PROVE n + 1 \in S
  <2> SUFFICES ASSUME NEW B \in SUBSET (1..n+1), B # {}
               PROVE  \E m \in B : \A x \in B : x <= m
    OBVIOUS
  <2>1. CASE n + 1 \in B
    BY <2>1
  <2>2. CASE n + 1 \notin B
    <3>1. B \in SUBSET (1..n)
      BY <2>2
    <3> QED BY <1>2, <3>1
  <2> QED BY <2>1, <2>2
<1>3. N \in S
  <2> HIDE DEF S
  <2> QED BY <1>1, <1>2, SetInduction
<1> QED BY <1>3

\* Of several rows with one key the differ's map holds one of them.
LEMMA LastIsOne ==
  ASSUME NEW K \in SUBSET RowIds, NEW rank \in LoadOrders(K), NEW S \in SUBSET K, S # {}
  PROVE  Last(S, rank) \in S
<1>1. IsFiniteSet(K)
  BY SyncAssumption, FS_Subset
<1>2. Cardinality(K) \in Nat
  BY <1>1, FS_CardinalityType
<1> PICK N \in Nat : N = Cardinality(K)
  BY <1>2
<1>3. rank \in [K -> 1..N]
  BY DEF LoadOrders
<1> DEFINE A == {rank[q] : q \in S}
<1>4. A \subseteq 1..N /\ A # {}
  BY <1>3
<1>5. PICK m \in A : \A x \in A : x <= m
  <2> HIDE DEF A
  <2> QED BY <1>4, MaxExists
<1>6. \E r \in S : \A q \in S : rank[q] <= rank[r]
  BY <1>5
<1> QED BY <1>6 DEF Last

\* A record is matched to one known row that no other record has, or to none.
LEMMA MatchShape ==
  ASSUME NEW t, NEW rec, NEW rank \in LoadOrders(Known(t)), NEW taken
  PROVE  /\ Match(t, rec, rank, taken) \subseteq Known(t)
         /\ Match(t, rec, rank, taken) \cap taken = {}
         /\ \A r, q \in Match(t, rec, rank, taken) : r = q
<1> PICK tiers : tiers = Tiers(t, rec)
  OBVIOUS
<1>1. \A i \in 1..3 : tiers[i] \in SUBSET Known(t)
  BY DEF Tiers
<1> PICK hits : hits = {i \in 1..3 : tiers[i] # {} /\ Last(tiers[i], rank) \notin taken}
  OBVIOUS
<1>2. Match(t, rec, rank, taken) = FirstOf(tiers, hits, rank)
  BY DEF Match
<1>3. CASE hits = {}
  BY <1>2, <1>3 DEF FirstOf
<1>4. CASE hits # {}
  <2>1. \E i \in hits : \A j \in hits : i <= j
    <3>1. CASE 1 \in hits
      BY <3>1
    <3>2. CASE 1 \notin hits /\ 2 \in hits
      BY <3>2
    <3>3. CASE 1 \notin hits /\ 2 \notin hits
      <4>1. hits = {3}
        BY <1>4, <3>3
      <4> QED BY <4>1
    <3> QED BY <3>1, <3>2, <3>3
  <2>2. PICK i \in hits : i = CHOOSE h \in hits : \A j \in hits : h <= j
    BY <2>1
  <2>3. Match(t, rec, rank, taken) = {Last(tiers[i], rank)}
    BY <1>2, <1>4, <2>2 DEF FirstOf
  <2>4. Known(t) \in SUBSET RowIds
    BY DEF Known
  <2>5. tiers[i] \in SUBSET Known(t) /\ tiers[i] # {} /\ Last(tiers[i], rank) \notin taken
    BY <1>1
  <2>6. Last(tiers[i], rank) \in tiers[i]
    BY <2>4, <2>5, LastIsOne
  <2> QED BY <2>3, <2>5, <2>6
<1> QED BY <1>3, <1>4

\* Row sets by record, each of known rows.
Matches(t) == Seq(SUBSET Known(t))
MatchNext(t, snap, rank, v, i) ==
  Append(v, Match(t, snap[i], rank, UNION {v[j] : j \in 1..(i - 1)}))
MatchRun(run, t, snap, rank) ==
  /\ Matching(t, snap, rank) = run[Len(snap)]
  /\ run[0] = <<>>
  /\ \A i \in 1..Len(snap) : run[i] = MatchNext(t, snap, rank, run[i - 1], i)

LEMMA MatchingRuns ==
  ASSUME NEW t, NEW snap \in Snapshots, NEW rank \in LoadOrders(Known(t))
  PROVE  \E run : MatchRun(run, t, snap, rank)
<1> PICK k \in Nat : k = Len(snap)
  BY SnapshotShape
<1> PICK V : V = Matches(t)
  OBVIOUS
<1> DEFINE step == [x \in V \X (1..k) |-> MatchNext(t, snap, rank, x[1], x[2])]
           IsRun(f) == f = [i \in 0..k |-> IF i = 0 THEN <<>>
                                            ELSE MatchNext(t, snap, rank, f[i - 1], i)]
<1>1. step \in Steps(V, k)
  <2>1. ASSUME NEW v \in V, NEW i \in 1..k PROVE MatchNext(t, snap, rank, v, i) \in V
    <3> PICK taken : taken = UNION {v[j] : j \in 1..(i - 1)}
      OBVIOUS
    <3> PICK rec : rec = snap[i]
      OBVIOUS
    <3>1. PICK M : M = Match(t, rec, rank, taken)
      OBVIOUS
    <3>2. M \in SUBSET Known(t)
      BY <3>1, MatchShape
    <3>3. MatchNext(t, snap, rank, v, i) = Append(v, M)
      BY <3>1 DEF MatchNext
    <3> QED BY <3>2, <3>3 DEF Matches
  <2> QED BY <2>1 DEF Steps
<1>2. Runs(V, <<>>, step, k) # {}
  <2>1. <<>> \in V
    BY DEF Matches
  <2> HIDE DEF step
  <2> QED BY <1>1, <2>1, LoopRuns
<1>3. \E f : IsRun(f)
  <2>1. PICK f \in [0..k -> V] :
          f[0] = <<>> /\ \A i \in 1..k : f[i] = step[<<f[i - 1], i>>]
    BY <1>2 DEF Runs
  <2>2. \A i \in 1..k : f[i] = MatchNext(t, snap, rank, f[i - 1], i)
    <3> TAKE i \in 1..k
    <3>1. f[i - 1] \in V
      BY <2>1
    <3>2. <<f[i - 1], i>> \in V \X (1..k)
      BY <3>1
    <3> QED BY <2>1, <3>2
  <2>3. ASSUME NEW i \in 0..k
        PROVE  f[i] = IF i = 0 THEN <<>> ELSE MatchNext(t, snap, rank, f[i - 1], i)
    BY <2>1, <2>2
  <2>4. f = [i \in 0..k |-> f[i]]
    BY <2>1
  <2>5. IsRun(f)
    BY <2>3, <2>4
  <2> HIDE DEF IsRun
  <2> QED BY <2>5
<1> DEFINE run == CHOOSE f : IsRun(f)
<1>4. IsRun(run)
  <2> HIDE DEF IsRun
  <2> QED BY <1>3
<1>5. Matching(t, snap, rank) = run[k]
  BY DEF Matching, MatchNext
<1> HIDE DEF run
<1>6. run[0] = <<>>
  BY <1>4
<1>7. ASSUME NEW i \in 1..k
      PROVE  run[i] = MatchNext(t, snap, rank, run[i - 1], i)
  <2>1. i \in 0..k /\ i # 0
    OBVIOUS
  <2> QED BY <1>4, <2>1
<1>8. MatchRun(run, t, snap, rank)
  BY <1>5, <1>6, <1>7 DEF MatchRun
<1> QED BY <1>8

\* m gives every record at most one known row, and no row to two records.
Apart(m, t, n) ==
  /\ m \in Matches(t) /\ Len(m) = n
  /\ \A i \in 1..n : \A r, q \in m[i] : r = q
  /\ \A i, j \in 1..n : i # j => m[i] \cap m[j] = {}

LEMMA MatchingShape ==
  ASSUME NEW t, NEW snap \in Snapshots, NEW rank \in LoadOrders(Known(t))
  PROVE  Apart(Matching(t, snap, rank), t, Len(snap))
<1> PICK k \in Nat : k = Len(snap)
  BY SnapshotShape
<1>1. PICK run : MatchRun(run, t, snap, rank)
  BY MatchingRuns
<1> DEFINE S == {n \in Nat : n <= k => Apart(run[n], t, n)}
<1>2. 0 \in S
  <2>1. run[0] = <<>>
    BY <1>1 DEF MatchRun
  <2>2. Apart(<<>>, t, 0)
    BY DEF Apart, Matches
  <2> QED BY <2>1, <2>2
<1>3. ASSUME NEW n \in Nat, n \in S PROVE n + 1 \in S
  <2> SUFFICES ASSUME n + 1 <= k PROVE Apart(run[n + 1], t, n + 1)
    OBVIOUS
  <2>1. PICK v : v = run[n] /\ Apart(v, t, n)
    BY <1>3
  <2> PICK taken : taken = UNION {v[j] : j \in 1..n}
    OBVIOUS
  <2> PICK rec : rec = snap[n + 1]
    OBVIOUS
  <2> PICK M : M = Match(t, rec, rank, taken)
    OBVIOUS
  <2>2. M \subseteq Known(t) /\ M \cap taken = {} /\ \A r, q \in M : r = q
    <3> HIDE DEF S
    <3>1. /\ Match(t, rec, rank, taken) \subseteq Known(t)
          /\ Match(t, rec, rank, taken) \cap taken = {}
          /\ \A r, q \in Match(t, rec, rank, taken) : r = q
      BY ONLY MatchShape, rank \in LoadOrders(Known(t))
    <3> QED BY <3>1, Zenon
  <2>3. run[n + 1] = Append(v, M)
    <3>1. n + 1 \in 1..k /\ (n + 1) - 1 = n
      OBVIOUS
    <3>2. run[n + 1] = MatchNext(t, snap, rank, run[n], n + 1)
      BY <1>1, <3>1 DEF MatchRun
    <3>3. run[n + 1] = Append(v, Match(t, rec, rank, UNION {v[j] : j \in 1..n}))
      BY <2>1, <3>1, <3>2 DEF MatchNext
    <3> QED BY <3>3
  <2> PICK w : w = Append(v, M)
    OBVIOUS
  <2>4. v \in Seq(SUBSET Known(t)) /\ Len(v) = n
    BY <2>1 DEF Apart, Matches
  <2>5. /\ w \in Seq(SUBSET Known(t)) /\ Len(w) = n + 1 /\ w[n + 1] = M
        /\ \A i \in 1..n : w[i] = v[i]
    <3>1. M \in SUBSET Known(t)
      BY <2>2
    <3> QED BY <2>4, <3>1
  <2>6. \A i \in 1..n : v[i] \cap M = {}
    BY <2>2
  <2>7. \A i \in 1..n+1 : i = n + 1 \/ i \in 1..n
    OBVIOUS
  <2>8. \A i \in 1..n+1 : \A r, q \in w[i] : r = q
    BY <2>1, <2>2, <2>5, <2>7 DEF Apart
  <2>9. \A i, j \in 1..n+1 : i # j => w[i] \cap w[j] = {}
    BY <2>1, <2>5, <2>6, <2>7 DEF Apart
  <2>10. Apart(w, t, n + 1)
    BY <2>5, <2>8, <2>9 DEF Apart, Matches
  <2> QED BY <2>3, <2>10, Zenon
<1>4. k \in S
  <2> HIDE DEF S
  <2> QED BY <1>2, <1>3, SetInduction
<1> QED BY <1>1, <1>4 DEF MatchRun

(* The loop of the transaction, record by record: the first n records have *)
(* a row each, and what else is present waits for a later record.          *)

Unmatched(m, n, k) == {j \in n+1..k : m[j] = {}}
FreeIn(u) == {r \in RowIds : u[r].state = "free"}

Staged(t, u, snap, m, n) ==
  /\ \A j \in 1..n : \E r \in RowIds : u[r] = Written(snap[j])
  /\ \A j \in 1..n : \A r, q \in RowIds : u[r] = Written(snap[j]) /\ u[q] = Written(snap[j]) => r = q
  /\ \A r \in RowIds : u[r].state = "present" =>
       \/ \E j \in 1..n : u[r] = Written(snap[j])
       \/ u[r] = t[r] /\ \E j \in n+1..Len(snap) : r \in m[j]
  /\ \A j \in n+1..Len(snap) : \A r \in m[j] : u[r] = t[r]
  /\ \A j \in 1..n : \A r \in m[j] : u[r] = Written(snap[j])
  /\ Cardinality(Unmatched(m, n, Len(snap))) <= Cardinality(FreeIn(u))

\* A parked table and a matching of its rows.
Ready(t, snap, m) ==
  /\ t \in Tables /\ snap \in Snapshots
  /\ \A r \in RowIds : t[r].state = "present" => t[r].idx <= 0
  /\ \A j \in 1..Len(snap) : /\ m[j] \subseteq RowIds
                             /\ \A r \in m[j] : t[r].state # "free"
                             /\ \A r, q \in m[j] : r = q
  /\ \A i, j \in 1..Len(snap) : i # j => m[i] \cap m[j] = {}

LEMMA WrittenShape ==
  ASSUME NEW rec \in Records
  PROVE  /\ Written(rec).state = "present" /\ Written(rec).idx = rec.idx
         /\ rec.idx \in Int /\ rec.idx > 0
BY IndexesPositive DEF Written, Records

\* At stage n no present row holds the index of the next record.
LEMMA IndexIsOpen ==
  ASSUME NEW t, NEW snap, NEW m, Ready(t, snap, m),
         NEW n \in Nat, n + 1 <= Len(snap), NEW u, Staged(t, u, snap, m, n)
  PROVE  Holders(u, snap[n + 1].idx) = {}
<1> SUFFICES ASSUME NEW r \in RowIds, u[r].state = "present", u[r].idx = snap[n + 1].idx
             PROVE  FALSE
  BY DEF Holders
<1> PICK k \in Nat : k = Len(snap)
  BY SnapshotShape DEF Ready
<1>1. /\ \A i \in 1..k : snap[i] \in Records
      /\ \A i, j \in 1..k : i # j => snap[i].idx # snap[j].idx
  BY SnapshotShape DEF Ready
<1>2. n + 1 \in 1..k
  OBVIOUS
<1>3. snap[n + 1].idx \in Int /\ snap[n + 1].idx > 0
  BY <1>1, <1>2, WrittenShape
<1>4. ASSUME NEW j \in 1..n, u[r] = Written(snap[j]) PROVE FALSE
  <2>1. j \in 1..k /\ j # n + 1
    BY <1>2
  <2>2. Written(snap[j]).idx = snap[j].idx
    BY <1>1, <2>1, WrittenShape
  <2> QED BY <1>1, <1>2, <1>4, <2>1, <2>2
<1>5. ASSUME u[r] = t[r] PROVE FALSE
  BY <1>3, <1>5 DEF Ready, Tables, RowRecs
<1> QED BY <1>4, <1>5 DEF Staged

LEMMA UnmatchedCount ==
  ASSUME NEW m, NEW k \in Nat, NEW n \in Nat, n + 1 <= k
  PROVE  /\ Cardinality(Unmatched(m, n, k)) \in Nat
         /\ Cardinality(Unmatched(m, n + 1, k)) \in Nat
         /\ m[n + 1] = {} => Cardinality(Unmatched(m, n, k)) = Cardinality(Unmatched(m, n + 1, k)) + 1
         /\ m[n + 1] # {} => Cardinality(Unmatched(m, n, k)) = Cardinality(Unmatched(m, n + 1, k))
<1>1. IsFiniteSet(1..k)
  BY FS_Interval
<1>2. Unmatched(m, n, k) \subseteq 1..k /\ Unmatched(m, n + 1, k) \subseteq 1..k
  BY DEF Unmatched
<1>3. IsFiniteSet(Unmatched(m, n, k)) /\ IsFiniteSet(Unmatched(m, n + 1, k))
  BY <1>1, <1>2, FS_Subset
<1>4. Cardinality(Unmatched(m, n, k)) \in Nat /\ Cardinality(Unmatched(m, n + 1, k)) \in Nat
  BY <1>3, FS_CardinalityType
<1>5. CASE m[n + 1] = {}
  <2>1. /\ Unmatched(m, n, k) = Unmatched(m, n + 1, k) \cup {n + 1}
        /\ n + 1 \notin Unmatched(m, n + 1, k)
    BY <1>5 DEF Unmatched
  <2>2. Cardinality(Unmatched(m, n, k)) = Cardinality(Unmatched(m, n + 1, k)) + 1
    BY <1>3, <2>1, FS_AddElement
  <2> QED BY <1>4, <1>5, <2>2
<1>6. CASE m[n + 1] # {}
  <2>1. Unmatched(m, n, k) = Unmatched(m, n + 1, k)
    BY <1>6 DEF Unmatched
  <2> QED BY <1>4, <1>6, <2>1
<1> QED BY <1>5, <1>6

\* Writing one record to row h, its match or a free one, brings the loop from
\* stage n to stage n + 1.
LEMMA StagedWrite ==
  ASSUME NEW t, NEW snap, NEW m, Ready(t, snap, m),
         NEW n \in Nat, n + 1 <= Len(snap), NEW u \in Tables, Staged(t, u, snap, m, n),
         NEW h \in RowIds, NEW v \in Tables, v = [u EXCEPT ![h] = Written(snap[n + 1])],
         \/ m[n + 1] = {} /\ u[h].state = "free"
         \/ h \in m[n + 1]
  PROVE  Staged(t, v, snap, m, n + 1)
<1> PICK k \in Nat : k = Len(snap)
  BY SnapshotShape DEF Ready
<1>1. /\ \A i \in 1..k : snap[i] \in Records
      /\ \A i, j \in 1..k : i # j => snap[i].idx # snap[j].idx
  BY SnapshotShape DEF Ready
<1> PICK W : W = [i \in 1..k |-> Written(snap[i])]
  OBVIOUS
<1>2. \A i \in 1..k : /\ W[i] = Written(snap[i]) /\ W[i].state = "present"
                      /\ W[i].idx = snap[i].idx /\ W[i].idx \in Int /\ W[i].idx > 0
  BY <1>1, WrittenShape
<1>3. \A i, j \in 1..k : i # j => W[i] # W[j]
  BY <1>1, <1>2
<1>4. /\ v[h] = W[n + 1] /\ \A r \in RowIds : r # h => v[r] = u[r]
      /\ n + 1 \in 1..k /\ \A j \in 1..n : j \in 1..k /\ j # n + 1
      /\ \A j \in n+2..k : j \in n+1..k /\ j \in 1..k /\ j # n + 1
      /\ \A j \in 1..n+1 : j = n + 1 \/ j \in 1..n
      /\ \A j \in n+1..k : j = n + 1 \/ j \in n+2..k
  BY <1>2 DEF Tables
<1>5. /\ \A j \in 1..n : \E r \in RowIds : u[r] = W[j]
      /\ \A j \in 1..n : \A r, q \in RowIds : u[r] = W[j] /\ u[q] = W[j] => r = q
      /\ \A r \in RowIds : u[r].state = "present" =>
           \/ \E j \in 1..n : u[r] = W[j]
           \/ u[r] = t[r] /\ \E j \in n+1..k : r \in m[j]
      /\ \A j \in n+1..k : \A r \in m[j] : u[r] = t[r]
      /\ \A j \in 1..n : \A r \in m[j] : u[r] = W[j]
  BY <1>2, <1>4 DEF Staged
\* The row written held none of the earlier records.
<1>6. \A j \in 1..k : u[h] # W[j]
  <2>1. CASE u[h].state = "free"
    BY <1>2, <2>1
  <2>2. CASE h \in m[n + 1]
    <3>1. u[h] = t[h]
      BY <1>4, <1>5, <2>2
    <3>2. t[h] \in RowRecs /\ (t[h].state = "present" => t[h].idx <= 0)
      BY DEF Ready, Tables
    <3> QED BY <1>2, <3>1, <3>2 DEF RowRecs
  <2> QED BY <2>1, <2>2
<1>7. \A r \in RowIds : u[r] # W[n + 1]
  <2>1. Holders(u, snap[n + 1].idx) = {}
    BY IndexIsOpen
  <2> QED BY <1>2, <1>4, <2>1 DEF Holders
<1>8. \A j \in 1..n+1 : \E r \in RowIds : v[r] = W[j]
  <2> TAKE j \in 1..n+1
  <2>1. CASE j = n + 1
    BY <1>4, <2>1
  <2>2. CASE j \in 1..n
    <3>1. PICK r \in RowIds : u[r] = W[j]
      BY <1>5, <2>2
    <3>2. r # h
      BY <1>4, <1>6, <2>2, <3>1
    <3> QED BY <1>4, <3>1, <3>2
  <2> QED BY <1>4, <2>1, <2>2
<1>9. \A j \in 1..n+1 : \A r, q \in RowIds : v[r] = W[j] /\ v[q] = W[j] => r = q
  <2> SUFFICES ASSUME NEW j \in 1..n+1, NEW r \in RowIds, NEW q \in RowIds, v[r] = W[j], v[q] = W[j]
               PROVE  r = q
    OBVIOUS
  <2>1. CASE j = n + 1
    BY <1>4, <1>7, <2>1
  <2>2. CASE j \in 1..n
    <3>1. v[h] # W[j]
      BY <1>3, <1>4, <2>2
    <3>2. u[r] = W[j] /\ u[q] = W[j]
      BY <1>4, <3>1
    <3> QED BY <1>5, <2>2, <3>2
  <2> QED BY <1>4, <2>1, <2>2
<1>10. \A j \in n+2..k : \A r \in m[j] : r \in RowIds /\ r # h /\ v[r] = t[r]
  <2> SUFFICES ASSUME NEW j \in n+2..k, NEW r \in m[j] PROVE r \in RowIds /\ r # h /\ v[r] = t[r]
    OBVIOUS
  <2>1. r \in RowIds /\ u[r] = t[r] /\ t[r].state # "free"
    BY <1>4, <1>5 DEF Ready
  <2>2. r # h
    <3>1. h \in m[n + 1] => r # h
      BY <1>4 DEF Ready
    <3> QED BY <2>1, <3>1
  <2> QED BY <1>4, <2>1, <2>2
<1>11. ASSUME NEW r \in RowIds, v[r].state = "present"
       PROVE  \/ \E j \in 1..n+1 : v[r] = W[j]
              \/ v[r] = t[r] /\ \E j \in n+2..k : r \in m[j]
  <2>1. CASE r = h
    BY <1>4, <2>1
  <2>2. CASE r # h
    <3>1. v[r] = u[r] /\ u[r].state = "present"
      BY <1>4, <1>11, <2>2
    <3>2. CASE \E j \in 1..n : u[r] = W[j]
      BY <1>4, <3>1, <3>2
    <3>3. ASSUME NEW j \in n+1..k, u[r] = t[r], r \in m[j] PROVE v[r] = t[r] /\ j \in n+2..k
      <4>1. j # n + 1
        BY <1>4, <2>2, <3>3 DEF Ready
      <4> QED BY <1>4, <3>1, <3>3, <4>1
    <3> QED BY <1>5, <3>1, <3>2, <3>3
  <2> QED BY <2>1, <2>2
<1>12. Cardinality(Unmatched(m, n + 1, k)) <= Cardinality(FreeIn(v))
  <2>1. IsFiniteSet(FreeIn(u)) /\ IsFiniteSet(FreeIn(v))
    <3>1. FreeIn(u) \subseteq RowIds /\ FreeIn(v) \subseteq RowIds
      BY DEF FreeIn
    <3> QED BY <3>1, SyncAssumption, FS_Subset
  <2>2. Cardinality(FreeIn(u)) \in Nat /\ Cardinality(FreeIn(v)) \in Nat
    BY <2>1, FS_CardinalityType
  <2>3. Cardinality(Unmatched(m, n, k)) <= Cardinality(FreeIn(u))
    BY DEF Staged
  <2>4. v[h].state = "present"
    BY <1>2, <1>4
  <2>5. CASE m[n + 1] = {} /\ u[h].state = "free"
    <3>1. FreeIn(v) = FreeIn(u) \ {h} /\ h \in FreeIn(u)
      BY <1>4, <2>4, <2>5 DEF FreeIn
    <3>2. Cardinality(FreeIn(v)) = Cardinality(FreeIn(u)) - 1
      BY <2>1, <3>1, FS_RemoveElement
    <3>3. Cardinality(Unmatched(m, n, k)) = Cardinality(Unmatched(m, n + 1, k)) + 1
      BY <2>5, UnmatchedCount
    <3>4. Cardinality(Unmatched(m, n + 1, k)) \in Nat
      BY UnmatchedCount
    <3> QED BY <2>2, <2>3, <3>2, <3>3, <3>4
  <2>6. CASE h \in m[n + 1]
    <3>1. u[h].state # "free"
      BY <1>4, <1>5, <2>6 DEF Ready
    <3>2. FreeIn(v) = FreeIn(u)
      BY <1>4, <2>4, <3>1 DEF FreeIn
    <3>3. Cardinality(Unmatched(m, n, k)) = Cardinality(Unmatched(m, n + 1, k))
      BY <2>6, UnmatchedCount
    <3> QED BY <2>3, <3>2, <3>3
  <2> QED BY <2>5, <2>6
<1>13. (n + 1) + 1 = n + 2
  OBVIOUS
<1>14. \A j \in 1..n+1 : \A r \in m[j] : v[r] = W[j]
  <2> SUFFICES ASSUME NEW j \in 1..n+1, NEW r \in m[j] PROVE v[r] = W[j]
    OBVIOUS
  <2>1. j \in 1..k /\ r \in RowIds
    BY <1>4 DEF Ready
  <2>2. CASE j = n + 1
    <3>1. r = h
      BY <1>4, <2>2 DEF Ready
    <3> QED BY <1>4, <2>2, <3>1
  <2>3. CASE j \in 1..n
    <3>1. u[r] = W[j]
      BY <1>5, <2>3
    <3>2. r # h
      BY <1>6, <2>1, <3>1
    <3> QED BY <1>4, <2>1, <3>1, <3>2
  <2> QED BY <1>4, <2>2, <2>3
<1>15. \A j \in 1..n+1 : W[j] = Written(snap[j])
  BY <1>2, <1>4
<1>16. /\ \A j \in 1..n+1 : \E r \in RowIds : v[r] = Written(snap[j])
       /\ \A j \in 1..n+1 : \A r, q \in RowIds :
            v[r] = Written(snap[j]) /\ v[q] = Written(snap[j]) => r = q
       /\ \A j \in 1..n+1 : \A r \in m[j] : v[r] = Written(snap[j])
  BY <1>8, <1>9, <1>14, <1>15
<1>17. \A r \in RowIds : v[r].state = "present" =>
         \/ \E j \in 1..n+1 : v[r] = Written(snap[j])
         \/ v[r] = t[r] /\ \E j \in n+2..k : r \in m[j]
  BY <1>11, <1>15
<1> QED
  BY <1>10, <1>12, <1>13, <1>16, <1>17 DEF Staged

LEMMA StagedStep ==
  ASSUME NEW t, NEW snap, NEW m, Ready(t, snap, m),
         NEW n \in Nat, n + 1 <= Len(snap), NEW p \in Progress, Staged(t, p.t, snap, m, n)
  PROVE  Staged(t, UpsertOne(p, snap[n + 1], m[n + 1]).t, snap, m, n + 1)
<1> PICK k \in Nat : k = Len(snap)
  BY SnapshotShape DEF Ready
<1>1. n + 1 \in 1..k
  OBVIOUS
<1> PICK rec \in Records : rec = snap[n + 1]
  BY <1>1, SnapshotShape DEF Ready
<1> PICK hit : hit = m[n + 1]
  OBVIOUS
<1> PICK v : v = UpsertOne(p, rec, hit).t
  OBVIOUS
<1>2. v \in Tables /\ p.t \in Tables
  BY UpsertOneShape DEF Progress
<1>3. CASE hit = {}
  <2>1. v = Inserted(p.t, rec)
    BY <1>3 DEF UpsertOne, Progress
  <2>2. Holders(p.t, rec.idx) = {}
    BY IndexIsOpen
  <2>3. FreeIn(p.t) # {}
    <3>1. Cardinality(Unmatched(m, n, k)) <= Cardinality(FreeIn(p.t))
      BY DEF Staged
    <3>2. /\ Cardinality(Unmatched(m, n, k)) = Cardinality(Unmatched(m, n + 1, k)) + 1
          /\ Cardinality(Unmatched(m, n + 1, k)) \in Nat
      BY <1>3, UnmatchedCount, ZenonT(40)
    <3>3. Cardinality({}) = 0
      BY FS_EmptySet
    <3>4. ~(Cardinality(FreeIn(p.t)) = 0)
      BY <3>1, <3>2
    <3> QED BY <3>3, <3>4
  <2>4. PICK h \in RowIds : /\ p.t[h].state = "free"
                            /\ h = CHOOSE r \in RowIds : p.t[r].state = "free"
    BY <2>3 DEF FreeIn
  <2>5. v = [p.t EXCEPT ![h] = Written(rec)]
    BY <2>1, <2>2, <2>4 DEF Inserted
  <2>6. m[n + 1] = {} /\ v = [p.t EXCEPT ![h] = Written(snap[n + 1])]
    BY <1>3, <2>5
  <2>7. Staged(t, v, snap, m, n + 1)
    BY <1>2, <2>4, <2>6, StagedWrite
  <2> QED BY <2>7
<1>4. CASE hit # {}
  <2>1. PICK h \in hit : h = CHOOSE r \in hit : TRUE
    BY <1>4
  <2>2. h \in RowIds
    BY <1>1, <2>1 DEF Ready
  <2>3. v = [p.t EXCEPT ![h] = Written(rec)]
    BY <1>4, <2>1 DEF UpsertOne, Updated
  <2> QED BY <1>2, <2>1, <2>2, <2>3, StagedWrite
<1> QED BY <1>3, <1>4

\* At the end every record has its row, and no other row is present.
LEMMA UpsertedStaged ==
  ASSUME NEW t, NEW snap, NEW d, Ready(t, snap, d.match), Staged(t, t, snap, d.match, 0)
  PROVE  Staged(t, Upserted(t, snap, d).t, snap, d.match, Len(snap))
<1> PICK k \in Nat : k = Len(snap)
  BY SnapshotShape DEF Ready
<1> PICK m : m = d.match
  OBVIOUS
<1>1. t \in Tables /\ snap \in Snapshots
  BY DEF Ready
<1>2. PICK run : UpsertRun(run, t, snap, d)
  BY <1>1, UpsertedRuns
<1> DEFINE S == {n \in Nat : n <= k => run[n] \in Progress /\ Staged(t, run[n].t, snap, m, n)}
<1>3. 0 \in S
  <2>1. run[0] \in Progress /\ run[0].t = t
    BY <1>1, <1>2 DEF UpsertRun, Progress
  <2> QED BY <2>1
<1>4. ASSUME NEW n \in Nat, n \in S PROVE n + 1 \in S
  <2> SUFFICES ASSUME n + 1 <= k
               PROVE  run[n + 1] \in Progress /\ Staged(t, run[n + 1].t, snap, m, n + 1)
    OBVIOUS
  <2>1. PICK p \in Progress : p = run[n] /\ Staged(t, p.t, snap, m, n)
    BY <1>4
  <2>2. n + 1 \in 1..k /\ (n + 1) - 1 = n
    OBVIOUS
  <2>3. run[n + 1] = UpsertOne(p, snap[n + 1], m[n + 1])
    BY <1>2, <2>1, <2>2 DEF UpsertRun
  <2>4. snap[n + 1] \in Records
    BY <1>1, <2>2, SnapshotShape
  <2>5. UpsertOne(p, snap[n + 1], m[n + 1]) \in Progress
    BY <2>4, UpsertOneShape
  <2>6. Staged(t, UpsertOne(p, snap[n + 1], m[n + 1]).t, snap, m, n + 1)
    BY <2>1, StagedStep
  <2> QED BY <2>3, <2>5, <2>6
<1>5. k \in S
  <2> HIDE DEF S
  <2> QED BY <1>3, <1>4, SetInduction
<1> QED BY <1>2, <1>5 DEF UpsertRun

\* The table mirrors the snapshot.
Mirrors(u, snap) ==
  /\ {[idx |-> u[r].idx, name |-> u[r].name, phys |-> u[r].phys] :
        r \in {q \in RowIds : u[q].state = "present"}} = {snap[i] : i \in DOMAIN snap}
  /\ Cardinality({q \in RowIds : u[q].state = "present"}) = Len(snap)

LEMMA StagedMirrors ==
  ASSUME NEW t, NEW snap \in Snapshots, NEW m, NEW u, Staged(t, u, snap, m, Len(snap))
  PROVE  Mirrors(u, snap)
<1> PICK k \in Nat : k = Len(snap) /\ DOMAIN snap = 1..k
  BY SnapshotShape
<1>1. /\ \A i \in 1..k : snap[i] \in Records
      /\ \A i, j \in 1..k : i # j => snap[i].idx # snap[j].idx
  BY SnapshotShape
<1> PICK P : P = {q \in RowIds : u[q].state = "present"}
  OBVIOUS
<1>2. \A i \in 1..k : /\ Written(snap[i]).state = "present"
                      /\ [idx |-> Written(snap[i]).idx, name |-> Written(snap[i]).name,
                          phys |-> Written(snap[i]).phys] = snap[i]
  BY <1>1 DEF Written, Records
<1>3. /\ \A j \in 1..k : \E r \in P : u[r] = Written(snap[j])
      /\ \A r \in P : \E j \in 1..k : u[r] = Written(snap[j])
      /\ \A j \in 1..k : \A r, q \in P : u[r] = Written(snap[j]) /\ u[q] = Written(snap[j]) => r = q
  <2>1. \A r \in P : \E j \in 1..k : u[r] = Written(snap[j])
    BY DEF Staged
  <2>2. ASSUME NEW j \in 1..k PROVE \E r \in P : u[r] = Written(snap[j])
    <3>1. PICK r \in RowIds : u[r] = Written(snap[j])
      BY DEF Staged
    <3> QED BY <1>2, <3>1
  <2>3. \A j \in 1..k : \A r, q \in P : u[r] = Written(snap[j]) /\ u[q] = Written(snap[j]) => r = q
    BY DEF Staged
  <2> QED BY <2>1, <2>2, <2>3
<1>4. {[idx |-> u[r].idx, name |-> u[r].name, phys |-> u[r].phys] : r \in P}
        = {snap[i] : i \in 1..k}
  <2> DEFINE Rec(x) == [idx |-> x.idx, name |-> x.name, phys |-> x.phys]
  <2>1. \A i \in 1..k : Rec(Written(snap[i])) = snap[i]
    BY <1>2
  <2> HIDE DEF Rec
  <2>2. \A r \in P : \E i \in 1..k : Rec(u[r]) = snap[i]
    BY <1>3, <2>1
  <2>3. \A i \in 1..k : \E r \in P : Rec(u[r]) = snap[i]
    BY <1>3, <2>1
  <2>4. {Rec(u[r]) : r \in P} = {snap[i] : i \in 1..k}
    BY <2>2, <2>3
  <2> QED BY <2>4 DEF Rec
<1> DEFINE w == [j \in 1..k |-> CHOOSE r \in P : u[r] = Written(snap[j])]
<1>5. \A j \in 1..k : w[j] \in P /\ u[w[j]] = Written(snap[j])
  BY <1>3
<1>6. ASSUME NEW i \in 1..k, NEW j \in 1..k, w[i] = w[j] PROVE i = j
  <2>1. Written(snap[i]) = Written(snap[j])
    BY <1>5, <1>6
  <2>2. snap[i] = snap[j]
    BY <1>2, <2>1
  <2> QED BY <1>1, <2>2
<1>7. ASSUME NEW r \in P PROVE \E j \in 1..k : w[j] = r
  <2>1. PICK j \in 1..k : u[r] = Written(snap[j])
    BY <1>3
  <2> QED BY <1>3, <1>5, <2>1
<1>8. w \in Bijection(1..k, P)
  <2>1. w \in [1..k -> P]
    BY <1>5
  <2> QED BY <1>6, <1>7, <2>1 DEF Bijection, Injection, Surjection, IsInjective
<1>9. Cardinality(P) = k
  <2>1. IsFiniteSet(1..k) /\ Cardinality(1..k) = k
    <3>1. \A a, b \in Int : Cardinality(a..b) = IF a > b THEN 0 ELSE b - a + 1
      BY FS_Interval
    <3>2. 1 \in Int /\ k \in Int
      OBVIOUS
    <3>3. Cardinality(1..k) = IF 1 > k THEN 0 ELSE k - 1 + 1
      BY <3>1, <3>2, Zenon
    <3>4. Cardinality(1..k) = k
      BY <3>3
    <3> QED BY <3>4, FS_Interval
  <2>2. ExistsBijection(1..k, P)
    BY <1>8 DEF ExistsBijection
  <2> QED BY <2>1, <2>2, FS_Bijection
<1> QED BY <1>4, <1>9 DEF Mirrors

\* A fresh diff, with ids left for the new rows: every record is staged.
LEMMA AppliedStaged ==
  ASSUME rows \in Tables, NEW snap \in Snapshots, NEW rank \in LoadOrders(Known(rows)), NEW d,
         d = Diff(rows, snap, rank), IdsLeft(d)
  PROVE  Staged(Parked(Retired(rows, d), d), Applied(snap, d).t, snap,
                Matching(rows, snap, rank), Len(snap))
<1> PICK k \in Nat : k = Len(snap)
  BY SnapshotShape
<1> PICK m : m = Matching(rows, snap, rank)
  OBVIOUS
<1>1. d.match = m
  BY DEF Diff
<1>2. Apart(m, rows, k)
  BY MatchingShape
<1>3. DOMAIN m = 1..k /\ \A j \in 1..k : m[j] \subseteq Known(rows)
  BY <1>2 DEF Apart, Matches
<1>4. PICK t \in Tables : /\ t = Parked(Retired(rows, d), d)
                          /\ \A r \in RowIds : t[r].state = "present" => t[r].idx <= 0
                          /\ \A r \in RowIds : Aged(rows[r], t[r])
                          /\ \A r \in RowIds : rows[r].state = "free" => t[r].state = "free"
                          /\ \A r \in RowIds : t[r].state = "present"
                                                 => r \in UNION {d.match[i] : i \in DOMAIN d.match}
  BY ParkedShape
<1>5. Ready(t, snap, m)
  <2>1. \A r \in Known(rows) : r \in RowIds /\ t[r].state # "free"
    BY <1>4 DEF Known, Aged
  <2> QED BY <1>2, <1>3, <1>4, <2>1 DEF Ready, Apart
<1>6. Staged(t, t, snap, m, 0)
  <2>1. ASSUME NEW r \in RowIds, t[r].state = "present" PROVE \E j \in 1..k : r \in m[j]
    <3>1. PICK hits : hits = UNION {m[i] : i \in DOMAIN m}
      OBVIOUS
    <3>2. r \in hits
      BY <1>1, <2>1, <3>1, <1>4
    <3> QED BY <1>3, <3>1, <3>2
  <2>2. Cardinality(Unmatched(m, 0, k)) <= Cardinality(FreeIn(t))
    <3>1. Unmatched(m, 0, k) = {i \in DOMAIN m : m[i] = {}}
      BY <1>3 DEF Unmatched
    <3>2. FreeIn(rows) \subseteq FreeIn(t) /\ IsFiniteSet(FreeIn(t)) /\ IsFiniteSet(FreeIn(rows))
      <4>1. FreeIn(t) \subseteq RowIds /\ FreeIn(rows) \subseteq RowIds
        BY DEF FreeIn
      <4>2. FreeIn(rows) \subseteq FreeIn(t)
        BY <1>4 DEF FreeIn
      <4> QED BY <4>1, <4>2, SyncAssumption, FS_Subset
    <3>3. Cardinality(FreeIn(rows)) <= Cardinality(FreeIn(t))
      BY <3>2, FS_Subset
    <3>4. Cardinality(Unmatched(m, 0, k)) <= Cardinality(FreeIn(rows))
      BY <1>1, <3>1 DEF IdsLeft, FreeIn
    <3>5. IsFiniteSet(1..k) /\ Unmatched(m, 0, k) \subseteq 1..k
      BY FS_Interval DEF Unmatched
    <3>6. IsFiniteSet(Unmatched(m, 0, k))
      BY <3>5, FS_Subset
    <3>7. /\ Cardinality(Unmatched(m, 0, k)) \in Nat
          /\ Cardinality(FreeIn(rows)) \in Nat /\ Cardinality(FreeIn(t)) \in Nat
      BY <3>2, <3>6, FS_CardinalityType
    <3> QED BY <3>3, <3>4, <3>7
  <2> QED BY <2>1, <2>2 DEF Staged
<1>7. Staged(t, Upserted(t, snap, d).t, snap, m, k)
  BY <1>1, <1>5, <1>6, UpsertedStaged
<1>8. Applied(snap, d) = Upserted(t, snap, d)
  BY <1>4 DEF Applied
<1> QED BY <1>4, <1>7, <1>8

\* So the table becomes the snapshot's.
LEMMA AppliedMirrors ==
  ASSUME rows \in Tables, NEW snap \in Snapshots, NEW rank \in LoadOrders(Known(rows)), NEW d,
         d = Diff(rows, snap, rank), IdsLeft(d)
  PROVE  Mirrors(Applied(snap, d).t, snap)
BY AppliedStaged, StagedMirrors

\* While the lock outlives every handling, the present rows after any step are
\* exactly the interfaces of the snapshot applied last, one row each, for any
\* device: renumbered, swapped, renamed, unnamed, lost and returning
\* interfaces, and results applied twice or out of order.
THEOREM RowsMirrorSnapshot == ASSUME ~LockLapses PROVE Spec => []MirrorsSnapshot
<1>0. MirrorsSnapshot <=> Mirrors(rows, mirrored)
  BY DEF MirrorsSnapshot, Mirrors, Present
<1>1. Init => RowsInv /\ MirrorsSnapshot
  <2> SUFFICES ASSUME Init PROVE Mirrors(rows, mirrored)
    BY <1>0, RowsInductive
  <2>1. {q \in RowIds : rows[q].state = "present"} = {}
    BY DEF Init, FreeRow
  <2>2. mirrored = <<>> /\ Len(mirrored) = 0 /\ DOMAIN mirrored = {}
    BY DEF Init
  <2> QED BY <2>1, <2>2, FS_EmptySet DEF Mirrors
<1>2. RowsInv /\ MirrorsSnapshot /\ [Next]_vars => (RowsInv /\ MirrorsSnapshot)'
  <2> SUFFICES ASSUME RowsInv, Mirrors(rows, mirrored), [Next]_vars
               PROVE  Mirrors(rows, mirrored)'
    BY <1>0, RowsInductive DEF MirrorsSnapshot, Mirrors, Present
  <2>1. ASSUME NEW c \in Consumers, Apply(c) PROVE Mirrors(rows, mirrored)'
    <3>1. PICK snap : snap = cons[c].res.snap
      OBVIOUS
    <3>2. snap \in Snapshots
      BY <2>1, <3>1 DEF Apply, RowsInv, ResultsApart, Busy
    <3>3. PICK rank \in LoadOrders(Known(rows)) : cons[c].diff = Diff(rows, snap, rank)
      BY <2>1, <3>1 DEF Apply, RowsInv, SyncInv, DiffFresh
    <3>4. Mirrors(Applied(snap, cons[c].diff).t, snap)
      BY <2>1, <3>2, <3>3, AppliedMirrors DEF RowsInv, Apply
    <3>5. rows' = Applied(snap, cons[c].diff).t /\ mirrored' = snap
      BY <2>1, <3>1 DEF Apply
    <3>6. Mirrors(rows', mirrored')
      BY <3>4, <3>5, Zenon
    <3> QED BY <3>6, Zenon DEF Mirrors
  <2>2. CASE OperatorPurges
    <3>1. {q \in RowIds : rows'[q].state = "present"} = {}
      BY <2>2 DEF OperatorPurges, FreeRow
    <3>2. mirrored' = <<>> /\ Len(mirrored') = 0 /\ DOMAIN mirrored' = {}
      BY <2>2 DEF OperatorPurges
    <3> QED BY <3>1, <3>2, FS_EmptySet DEF Mirrors
  <2>3. \/ UNCHANGED <<rows, mirrored>>
        \/ OperatorPurges
        \/ \E c \in Consumers : Apply(c)
    BY DEF Next, Collect, Consumer, Take, RecordFailedRun, TryLock, Load, ApplyAborts, CallFails,
           Nack, Ack, Crash, LockExpires, Operator, OperatorReads, OperatorUpdates, SetStatus, vars
  <2> QED BY <2>1, <2>2, <2>3 DEF Mirrors
<1> QED BY <1>1, <1>2, PTL DEF Spec

-----------------------------------------------------------------------------
(* Rows follow names.                                                      *)

Named(t, name) == {r \in Known(t) : t[r].name = name}
NamesApart(t) == \A r, q \in Known(t) : t[r].name = t[q].name => r = q

\* What a device that tells its interfaces apart by name reports, and nothing
\* else to tell them by.
ByName == UniqueNames /\ Phys \subseteq {NoPhys} /\ NoName \notin Names

\* Such a record finds the row of its name, whatever its index.
LEMMA NameMatch ==
  ASSUME ByName, NEW t, NamesApart(t), NEW rec \in Records, NEW rank \in LoadOrders(Known(t)),
         NEW taken, Named(t, rec.name) \cap taken = {}
  PROVE  Match(t, rec, rank, taken) = Named(t, rec.name)
<1> PICK N : N = Named(t, rec.name)
  OBVIOUS
<1> PICK tiers : tiers = Tiers(t, rec)
  OBVIOUS
<1> DEFINE hits == {i \in 1..3 : tiers[i] # {} /\ Last(tiers[i], rank) \notin taken}
<1>1. rec.name # NoName /\ rec.phys = NoPhys
  BY DEF ByName, Records
<1>2. tiers[1] \subseteq N /\ tiers[2] = N /\ tiers[3] = {}
  BY <1>1 DEF Tiers, Named
<1>3. Match(t, rec, rank, taken) = FirstOf(tiers, hits, rank)
  BY DEF Match
<1>4. CASE N = {}
  <2>1. hits = {}
    BY <1>2, <1>4
  <2> QED BY <1>3, <1>4, <2>1 DEF FirstOf
<1>5. ASSUME NEW r \in N PROVE Match(t, rec, rank, taken) = Named(t, rec.name)
  <2>1. N = {r}
    BY <1>5 DEF Named, NamesApart
  <2>2. N \in SUBSET Known(t) /\ Known(t) \in SUBSET RowIds
    BY DEF Named, Known
  <2>3. Last({r}, rank) = r
    BY <2>1, <2>2, LastIsOne
  <2>4. tiers[1] = {} \/ tiers[1] = {r}
    BY <1>2, <2>1
  <2>5. 2 \in hits /\ hits \subseteq {1, 2}
    BY <1>2, <2>1, <2>3
  <2>6. \A i \in hits : tiers[i] = {r}
    BY <1>2, <2>1, <2>4, <2>5
  <2>7. PICK i : i = CHOOSE a \in hits : \A j \in hits : a <= j
    OBVIOUS
  <2>8. i \in hits
    <3>1. \E a \in hits : \A j \in hits : a <= j
      <4>1. CASE 1 \in hits
        BY <2>5, <4>1
      <4>2. CASE 1 \notin hits
        BY <2>5, <4>2
      <4> QED BY <4>1, <4>2
    <3> HIDE DEF hits
    <3> QED BY <2>7, <3>1
  <2> HIDE DEF hits
  <2>9. FirstOf(tiers, hits, rank) = {Last(tiers[i], rank)}
    BY <2>7, <2>8 DEF FirstOf
  <2> QED BY <1>3, <2>1, <2>3, <2>6, <2>8, <2>9
<1> QED BY <1>4, <1>5

\* ... and the differ matches every record to the row of its name.
LEMMA MatchingByName ==
  ASSUME ByName, NEW t, NamesApart(t), NEW snap \in Snapshots, NEW rank \in LoadOrders(Known(t))
  PROVE  \A i \in 1..Len(snap) : Matching(t, snap, rank)[i] = Named(t, snap[i].name)
<1> PICK k \in Nat : k = Len(snap)
  BY SnapshotShape
<1>0. /\ \A i \in 1..k : snap[i] \in Records
      /\ \A i, j \in 1..k : i # j => snap[i].name # snap[j].name
  <2>1. DOMAIN snap = 1..k /\ \A i \in 1..k : snap[i] \in Records
    BY SnapshotShape
  <2> QED BY <2>1 DEF Snapshots, ByName
<1>1. PICK run : MatchRun(run, t, snap, rank)
  BY MatchingRuns
<1> DEFINE N(i) == Named(t, snap[i].name)
           Good(v, n) == /\ v \in Seq(SUBSET Known(t)) /\ Len(v) = n
                         /\ \A i \in 1..n : v[i] = N(i)
           S == {n \in Nat : n <= k => Good(run[n], n)}
<1>2. 0 \in S
  <2>1. run[0] = <<>>
    BY <1>1 DEF MatchRun
  <2>2. Good(<<>>, 0)
    OBVIOUS
  <2> QED BY <2>1, <2>2, Zenon
<1>3. ASSUME NEW n \in Nat, n \in S PROVE n + 1 \in S
  <2> SUFFICES ASSUME n + 1 <= k PROVE Good(run[n + 1], n + 1)
    OBVIOUS
  <2>1. PICK v : v = run[n] /\ Good(v, n)
    BY <1>3
  <2> HIDE DEF S
  <2> PICK taken : taken = UNION {v[j] : j \in 1..n}
    OBVIOUS
  <2>2. snap[n + 1] \in Records /\ n + 1 \in 1..k
    BY <1>0
  <2>3. N(n + 1) \cap taken = {}
    <3>1. ASSUME NEW j \in 1..n PROVE N(n + 1) \cap v[j] = {}
      <4>1. snap[j].name # snap[n + 1].name
        BY <1>0, <2>2
      <4> QED BY <2>1, <4>1 DEF Named
    <3> QED BY <3>1
  <2>4. Match(t, snap[n + 1], rank, taken) = N(n + 1)
    BY <2>2, <2>3, NameMatch
  <2>5. run[n + 1] = Append(v, N(n + 1))
    <3>1. (n + 1) - 1 = n
      OBVIOUS
    <3>2. run[n + 1] = MatchNext(t, snap, rank, run[n], n + 1)
      BY <1>1, <2>2, <3>1 DEF MatchRun
    <3> QED BY <2>1, <2>4, <3>1, <3>2 DEF MatchNext
  <2>6. N(n + 1) \in SUBSET Known(t)
    BY DEF Named
  <2> HIDE DEF N
  <2> QED BY <2>1, <2>5, <2>6
<1>4. k \in S
  <2> HIDE DEF S
  <2> QED BY <1>2, <1>3, SetInduction
<1> QED BY <1>1, <1>4 DEF MatchRun

Follows(t, u, snap) ==
  \A r \in Known(t) : (\E i \in DOMAIN snap : snap[i].name = t[r].name) =>
    u[r].state = "present" /\ u[r].name = t[r].name

LEMMA AppliedFollows ==
  ASSUME ByName, rows \in Tables, NamesApart(rows), NEW snap \in Snapshots,
         NEW rank \in LoadOrders(Known(rows)), NEW d, d = Diff(rows, snap, rank), IdsLeft(d)
  PROVE  Follows(rows, Applied(snap, d).t, snap) /\ NamesApart(Applied(snap, d).t)
<1> PICK k \in Nat : k = Len(snap) /\ DOMAIN snap = 1..k
  BY SnapshotShape
<1>1. /\ \A i \in 1..k : snap[i] \in Records
      /\ \A i, j \in 1..k : i # j => snap[i].name # snap[j].name
  <2>1. \A i \in 1..k : snap[i] \in Records
    BY SnapshotShape
  <2> QED BY <2>1 DEF Snapshots, ByName
<1> PICK m : m = Matching(rows, snap, rank)
  OBVIOUS
<1>2. \A i \in 1..k : m[i] = Named(rows, snap[i].name)
  BY MatchingByName
<1>3. PICK t \in Tables : /\ t = Parked(Retired(rows, d), d)
                          /\ \A r \in RowIds : Aged(rows[r], t[r])
                          /\ \A r \in RowIds : t[r].name = rows[r].name
  BY ParkedShape
<1>4. PICK u : u = Applied(snap, d).t
  OBVIOUS
<1>5. Staged(t, u, snap, m, k)
  BY <1>3, <1>4, AppliedStaged
<1>6. \A r \in RowIds : u[r] = t[r] \/ u[r].state = "present"
  BY <1>3, <1>4, UpsertedShape DEF Applied
<1>7. \A i \in 1..k : Written(snap[i]).state = "present" /\ Written(snap[i]).name = snap[i].name
  BY <1>1 DEF Written
<1>8. Follows(rows, u, snap)
  <2> SUFFICES ASSUME NEW r \in Known(rows), NEW i \in 1..k, snap[i].name = rows[r].name
               PROVE  u[r].state = "present" /\ u[r].name = rows[r].name
    BY DEF Follows
  <2>1. r \in m[i]
    BY <1>2 DEF Named
  <2>2. u[r] = Written(snap[i])
    BY <1>5, <2>1 DEF Staged
  <2> QED BY <1>7, <2>2
<1>9. ASSUME NEW r \in RowIds, u[r].state = "present" PROVE \E j \in 1..k : u[r] = Written(snap[j])
  BY <1>5, <1>9 DEF Staged
<1>10. ASSUME NEW r \in RowIds, u[r].state = "missing"
       PROVE  r \in Known(rows) /\ u[r].name = rows[r].name
  <2>1. u[r] = t[r]
    BY <1>6, <1>10
  <2> QED BY <1>3, <1>10, <2>1 DEF Aged, Known
<1>11. NamesApart(u)
  <2> SUFFICES ASSUME NEW r \in Known(u), NEW q \in Known(u), u[r].name = u[q].name PROVE r = q
    BY DEF NamesApart
  <2>1. /\ r \in RowIds /\ q \in RowIds
        /\ u[r].state \in {"present", "missing"} /\ u[q].state \in {"present", "missing"}
    BY DEF Known
  <2>2. ASSUME NEW a \in RowIds, NEW b \in RowIds, u[a].state = "present", u[b].state = "missing",
               u[a].name = u[b].name
        PROVE  FALSE
    <3>1. PICK j \in 1..k : u[a] = Written(snap[j])
      BY <1>9, <2>2
    <3>2. b \in Known(rows) /\ snap[j].name = rows[b].name
      BY <1>7, <1>10, <2>2, <3>1
    <3> QED BY <1>8, <2>2, <3>2 DEF Follows
  <2>3. CASE u[r].state = "present" /\ u[q].state = "present"
    <3>1. PICK i \in 1..k : u[r] = Written(snap[i])
      BY <1>9, <2>1, <2>3
    <3>2. PICK j \in 1..k : u[q] = Written(snap[j])
      BY <1>9, <2>1, <2>3
    <3>3. i = j
      BY <1>1, <1>7, <3>1, <3>2
    <3> QED BY <1>5, <2>1, <3>1, <3>2, <3>3 DEF Staged
  <2>4. CASE u[r].state = "missing" /\ u[q].state = "missing"
    BY <1>10, <2>1, <2>4 DEF NamesApart
  <2> QED BY <2>1, <2>2, <2>3, <2>4
<1> QED BY <1>4, <1>8, <1>11

\* FR-DEV-09 for a device that names its interfaces apart and gives nothing
\* else to know them by: while the lock outlives every handling, each commit
\* keeps every reported name on the row that had it, whatever became of the
\* indexes and in whatever order results are applied.
THEOREM RowsFollowNames ==
  ASSUME ~LockLapses, UniqueNames, Phys \subseteq {NoPhys}, NoName \notin Names
  PROVE  Spec => RowFollowsName
<1> ByName
  BY DEF ByName
<1> DEFINE I == RowsInv /\ NamesApart(rows)
           A == \A c \in Consumers : Applying(c) =>
                  \A r \in Known(rows) : Reported(rows[r].name) =>
                    rows'[r].state = "present" /\ rows'[r].name = rows[r].name
<1>1. Init => I
  <2> SUFFICES ASSUME Init PROVE NamesApart(rows)
    BY RowsInductive
  <2> QED BY DEF Init, FreeRow, NamesApart, Known
<1>2. ASSUME I, NEW c \in Consumers, Apply(c)
      PROVE  NamesApart(rows)' /\ Follows(rows, rows', mirrored')
  <2>1. PICK snap : snap = cons[c].res.snap
    OBVIOUS
  <2>2. snap \in Snapshots
    BY <1>2, <2>1 DEF Apply, RowsInv, ResultsApart, Busy
  <2>3. PICK rank \in LoadOrders(Known(rows)) : cons[c].diff = Diff(rows, snap, rank)
    BY <1>2, <2>1 DEF Apply, RowsInv, SyncInv, DiffFresh
  <2>4. rows' = Applied(snap, cons[c].diff).t /\ mirrored' = snap /\ IdsLeft(cons[c].diff)
    BY <1>2, <2>1 DEF Apply
  <2>5. Follows(rows, Applied(snap, cons[c].diff).t, snap) /\ NamesApart(Applied(snap, cons[c].diff).t)
    BY <1>2, <2>2, <2>3, <2>4, AppliedFollows DEF RowsInv
  <2> QED BY <2>4, <2>5 DEF NamesApart, Known
<1>3. I /\ [Next]_vars => I'
  <2> SUFFICES ASSUME I, [Next]_vars PROVE NamesApart(rows)'
    BY RowsInductive
  <2>1. CASE OperatorPurges
    BY <2>1 DEF OperatorPurges, FreeRow, NamesApart, Known
  <2>2. CASE UNCHANGED rows
    BY <2>2 DEF NamesApart, Known
  <2> QED BY <1>2, <2>1, <2>2, RowsStep DEF RowsInv
<1>4. I /\ [Next]_vars => [A]_vars
  <2> SUFFICES ASSUME I, Next, NEW c \in Consumers, Applying(c),
                      NEW r \in Known(rows), Reported(rows[r].name)
               PROVE  rows'[r].state = "present" /\ rows'[r].name = rows[r].name
    OBVIOUS
  <2>1. Apply(c)
    BY ApplyingIsApply DEF RowsInv, SyncInv
  <2> QED BY <1>2, <2>1 DEF Follows, Reported
<1> QED BY <1>1, <1>3, <1>4, PTL DEF Spec, RowFollowsName
===============================================================================
