----------------------------- MODULE LeaderLease -----------------------------
(***************************************************************************)
(* The Redis lease that elects the one active replica of the scheduler and *)
(* of the alerter (internal/collection/adapters/leader, over               *)
(* internal/platform/redisx), together with the ticker loop that consults  *)
(* it: a replica runs a cycle only when TryAcquire returned true at the    *)
(* tick that started it, and nothing checks the lease during the cycle.    *)
(*                                                                         *)
(* Time is discrete.  The Redis key carries the token of the Lock that set *)
(* it; tokens are fresh random strings, so the key's content is abstracted *)
(* to whose current Lock it matches: a replica, Free (no key), or Orphan   *)
(* (a token no live Lock holds any more).                                  *)
(***************************************************************************)
EXTENDS Naturals

CONSTANTS
  Replicas,   \* replicas of the service that run the loop
  Free,       \* "the key does not exist"
  Orphan,     \* "the key holds a token that no replica remembers"
  TTL,        \* lease time to live
  Interval,   \* ticker period of the loop
  CycleMax,   \* longest cycle
  MaxFaults   \* bound on shutdowns, crashes and failed Redis calls

ASSUME LeaseAssumption ==
  /\ Free \notin Replicas /\ Orphan \notin Replicas /\ Free # Orphan
  /\ TTL \in Nat \ {0} /\ Interval \in Nat \ {0} /\ CycleMax \in Nat
  /\ MaxFaults \in Nat

VARIABLES
  owner,      \* whose token the key holds
  ttl,        \* remaining life of the key, 0 when there is none
  lock,       \* lock[r]: Lease.lock is not nil
  phase,      \* idle in select, running a cycle, or not running at all
  nextTick,   \* time to the next tick of r's ticker
  ticked,     \* a tick waits in the ticker's channel (capacity one)
  elapsed,    \* how long r's current cycle has been running
  faults      \* shutdowns, crashes and Redis errors so far

vars == <<owner, ttl, lock, phase, nextTick, ticked, elapsed, faults>>

Init ==
  /\ owner = Free
  /\ ttl = 0
  /\ lock = [r \in Replicas |-> FALSE]
  /\ phase = [r \in Replicas |-> "idle"]
  /\ nextTick = [r \in Replicas |-> Interval]
  /\ ticked = [r \in Replicas |-> FALSE]
  /\ elapsed = [r \in Replicas |-> 0]
  /\ faults = 0

-----------------------------------------------------------------------------
(* Redis: SET NX PX, token-checked PEXPIRE and token-checked DEL.          *)

\* Extend finds its own token under the key.
Extends(r) == lock[r] /\ owner = r

\* SETNX finds no key.
CanLock(r) == ~Extends(r) /\ owner = Free

\* Variant: Release as a plain DEL that does not look at the token.
ReleasedUnchecked(r) == IF lock[r] THEN [owner |-> Free, ttl |-> 0]
                        ELSE [owner |-> owner, ttl |-> ttl]

\* Release removes the key only if the caller's token is still under it.
Released(r) == IF Extends(r) THEN [owner |-> Free, ttl |-> 0]
               ELSE [owner |-> owner, ttl |-> ttl]

\* What is left of the key when r forgets its Lock without deleting it.
Forgotten(r) == IF owner = r THEN Orphan ELSE owner

-----------------------------------------------------------------------------
(* The loop: one action per outcome of TryAcquire at a tick.               *)

TakesTick(r) ==
  /\ phase[r] = "idle"
  /\ ticked[r]
  /\ ticked' = [ticked EXCEPT ![r] = FALSE]
  /\ UNCHANGED nextTick

StartsCycle(r) ==
  /\ phase' = [phase EXCEPT ![r] = "cycle"]
  /\ elapsed' = [elapsed EXCEPT ![r] = 0]

Fault == faults < MaxFaults /\ faults' = faults + 1

\* Variant: Extend answers 1 but leaves the expiry where it was.
RenewWithoutTTL(r) ==
  /\ TakesTick(r)
  /\ Extends(r)
  /\ StartsCycle(r)
  /\ UNCHANGED <<owner, ttl, lock, faults>>

\* The lease is ours and Extend renews it.
Renew(r) ==
  /\ TakesTick(r)
  /\ Extends(r)
  /\ ttl' = TTL
  /\ StartsCycle(r)
  /\ UNCHANGED <<owner, lock, faults>>

\* No lease of ours, or it was lost (Lease.lock is dropped), and SETNX sets
\* the key.
Acquire(r) ==
  /\ TakesTick(r)
  /\ CanLock(r)
  /\ owner' = r
  /\ ttl' = TTL
  /\ lock' = [lock EXCEPT ![r] = TRUE]
  /\ StartsCycle(r)
  /\ UNCHANGED faults

\* Somebody else's key: not the leader at this tick.
Refused(r) ==
  /\ TakesTick(r)
  /\ ~Extends(r)
  /\ owner # Free
  /\ lock' = [lock EXCEPT ![r] = FALSE]
  /\ UNCHANGED <<owner, ttl, phase, elapsed, faults>>

\* Extend returns an error although the key is ours; Redis may have applied
\* it.  The Lock is dropped and SETNX then finds our own old key.
ExtendFails(r) ==
  /\ TakesTick(r)
  /\ Extends(r)
  /\ Fault
  /\ ttl' \in {ttl, TTL}
  /\ owner' = Forgotten(r)
  /\ lock' = [lock EXCEPT ![r] = FALSE]
  /\ UNCHANGED <<phase, elapsed>>

\* SETNX returns an error; Redis may have set the key to a token that is
\* thrown away with the error.
AcquireFails(r) ==
  /\ TakesTick(r)
  /\ CanLock(r)
  /\ Fault
  /\ \/ UNCHANGED <<owner, ttl>>
     \/ owner' = Orphan /\ ttl' = TTL
  /\ lock' = [lock EXCEPT ![r] = FALSE]
  /\ UNCHANGED <<phase, elapsed>>

\* The cycle returns and the loop goes back to its select.
EndCycle(r) ==
  /\ phase[r] = "cycle"
  /\ phase' = [phase EXCEPT ![r] = "idle"]
  /\ elapsed' = [elapsed EXCEPT ![r] = 0]
  /\ UNCHANGED <<owner, ttl, lock, nextTick, ticked, faults>>

-----------------------------------------------------------------------------
(* The process: graceful shutdown runs the deferred Release once the loop  *)
(* has left its select; a crash runs nothing.                              *)

Stops(r) ==
  /\ phase' = [phase EXCEPT ![r] = "down"]
  /\ lock' = [lock EXCEPT ![r] = FALSE]
  /\ ticked' = [ticked EXCEPT ![r] = FALSE]
  /\ elapsed' = [elapsed EXCEPT ![r] = 0]
  /\ UNCHANGED nextTick

Shutdown(r) ==
  /\ phase[r] = "idle"
  /\ Fault
  /\ Stops(r)
  /\ \/ owner' = Released(r).owner /\ ttl' = Released(r).ttl
     \/ owner' = Forgotten(r) /\ UNCHANGED ttl      \* the DEL itself failed

Crash(r) ==
  /\ phase[r] # "down"
  /\ Fault
  /\ Stops(r)
  /\ owner' = Forgotten(r)
  /\ UNCHANGED ttl

Restart(r) ==
  /\ phase[r] = "down"
  /\ phase' = [phase EXCEPT ![r] = "idle"]
  /\ nextTick' = [nextTick EXCEPT ![r] = Interval]
  /\ UNCHANGED <<owner, ttl, lock, ticked, elapsed, faults>>

-----------------------------------------------------------------------------
(* Time.  A cycle that has run for CycleMax ends before time goes on; an   *)
(* idle replica may be paused for any time before it takes a tick.  A tick *)
(* that finds the channel full is dropped, as time.Ticker does.            *)

MayPass == \A r \in Replicas : phase[r] = "cycle" => elapsed[r] < CycleMax

Ticks(r) == phase[r] # "down" /\ nextTick[r] = 1

\* Variant: the key is set without an expiry.
ImmortalKey == owner

\* SET PX: the key is gone once its time to live is used up.
ExpiringKey == IF ttl <= 1 THEN Free ELSE owner

Advance ==
  /\ MayPass
  /\ ttl' = IF ttl = 0 THEN 0 ELSE ttl - 1
  /\ owner' = ExpiringKey
  /\ nextTick' = [r \in Replicas |->
                    IF phase[r] = "down" THEN nextTick[r]
                    ELSE IF Ticks(r) THEN Interval ELSE nextTick[r] - 1]
  /\ ticked' = [r \in Replicas |-> ticked[r] \/ Ticks(r)]
  /\ elapsed' = [r \in Replicas |->
                   IF phase[r] = "cycle" THEN elapsed[r] + 1 ELSE elapsed[r]]
  /\ UNCHANGED <<lock, phase, faults>>

TryAcquire(r) ==
  Renew(r) \/ Acquire(r) \/ Refused(r) \/ ExtendFails(r) \/ AcquireFails(r)

Next ==
  \/ Advance
  \/ \E r \in Replicas :
       TryAcquire(r) \/ EndCycle(r) \/ Shutdown(r) \/ Crash(r) \/ Restart(r)

Spec == Init /\ [][Next]_vars

\* The loops are live goroutines and time passes; what fails is repaired:
\* a replica that is down is started again by its supervisor.
Fairness ==
  /\ WF_vars(Advance)
  /\ \A r \in Replicas :
       WF_vars(TryAcquire(r)) /\ WF_vars(EndCycle(r)) /\ WF_vars(Restart(r))

FairSpec == Spec /\ Fairness

-----------------------------------------------------------------------------

TypeOK ==
  /\ owner \in Replicas \cup {Free, Orphan}
  /\ ttl \in 0..TTL
  /\ lock \in [Replicas -> BOOLEAN]
  /\ phase \in [Replicas -> {"idle", "cycle", "down"}]
  /\ nextTick \in [Replicas -> 1..Interval]
  /\ ticked \in [Replicas -> BOOLEAN]
  /\ elapsed \in [Replicas -> 0..CycleMax]
  /\ faults \in 0..MaxFaults

Leading(r) == phase[r] = "cycle"

\* The singleton loop really is one: two replicas never run a cycle at the
\* same time.  It rests on TryAcquire renewing or setting the key right
\* before the cycle, on Extend and Release checking the token, and on every
\* cycle being shorter than the lease; a paused idle replica, lost Redis
\* answers, crashes and restarts do not break it.
SoleLeader ==
  \A r, s \in Replicas : Leading(r) /\ Leading(s) => r = s

\* Whose cycle it is, for the abstract loop.
Runner == IF \E r \in Replicas : Leading(r)
          THEN CHOOSE r \in Replicas : Leading(r) ELSE Free

Loop == INSTANCE SingletonLoop WITH Runners <- Replicas, Nobody <- Free, running <- Runner

\* The replicas together behave like one loop: a cycle begins only when none
\* is under way, and no cycle passes from one replica to another
\* (Lease.TryAcquire before each cycle, its token checks and expiry).
ImplementsLoop == Loop!LoopSpec

\* The inductive strengthening: a running cycle is covered by a key that
\* still has the whole remainder of the lease to live.
CoveredByLease ==
  \A r \in Replicas : Leading(r) => Extends(r) /\ ttl + elapsed[r] >= TTL

\* Leadership does not bounce: a lease that its holder remembers ends only
\* when that holder shuts down, crashes, gets a Redis error, or is paused
\* while a tick waits for it, never by expiring between two renewals.
\* (cmd/alerter: "TTL must exceed the 30s evaluation tick or the lease
\* expires between renewals".)
LeaseIsKept ==
  [][\A r \in Replicas :
       Extends(r) => \/ owner' = r
                     \/ faults' > faults
                     \/ phase[r] = "idle" /\ ticked[r]]_vars

\* The loop is never orphaned for good: whatever failed, including a crash
\* of the leader with the key still set or an acquisition whose answer was
\* lost, some replica leads again and again.
LeaderReturns == []<>(\E r \in Replicas : Leading(r))
=============================================================================
