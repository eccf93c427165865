------------------------------ MODULE Enrolment -------------------------------
(***************************************************************************)
(* How a remote poller joins the fleet: an administrator issues a one-time *)
(* token, the poller trades it for credentials of its own, keeps them on   *)
(* disk and reports with them (collection/app/pollers.go, its Postgres and *)
(* HTTP adapters, pollerrt/agent.go, cmd/poller).                          *)
(*                                                                         *)
(* A registration is served in two statements and goes on when the poller  *)
(* that asked has given up or died.  One token may be deployed on several  *)
(* hosts.  A token stands for its hash: <<"pe", id>> as issued, <<"pt",    *)
(* id, n>> as minted by a registration.                                    *)
(***************************************************************************)
EXTENDS Naturals, FiniteSets

CONSTANTS
  PollerIds,     \* platform.pollers
  Hosts,         \* machines a poller runs on
  Registrations, \* registrations the API serves at once
  NoOneHere,
  MaxMinted,     \* bound on registrations
  MaxStops       \* bound on crashes, give-ups and changes of status

\* identity.json.
Identity == [p : PollerIds, token : {"pt"} \X PollerIds \X Nat]

ASSUME EnrolmentAssumption ==
  /\ MaxMinted \in Nat /\ MaxStops \in Nat
  /\ NoOneHere \notin Hosts /\ NoOneHere \notin Identity

VARIABLES
  pollers,   \* id -> [status, token, heard, fresh] or absent; heard: the
             \* identities it was heard under, {} while last_heartbeat_at is null
  disk,      \* identity.json of each host
  agent,     \* the poller process of each host, [pc, ...]
  joining,   \* registrations being served
  bindings, stops

enrolVars == <<pollers, disk, agent, joining, bindings, stops>>

Absent == [status |-> "absent"]
Down == [pc |-> "down"]
NoJoin == [pc |-> "none"]

EnrolInit ==
  /\ pollers = [p \in PollerIds |-> Absent] /\ disk = [h \in Hosts |-> NoOneHere]
  /\ agent = [h \in Hosts |-> Down] /\ joining = [r \in Registrations |-> NoJoin]
  /\ bindings = 0 /\ stops = 0

Stopping == stops < MaxStops /\ stops' = stops + 1

-----------------------------------------------------------------------------
(* The administrator.                                                      *)

CreatePending(p) ==
  pollers' = [pollers EXCEPT ![p] = [status |-> "pending", token |-> <<"pe", p>>, heard |-> {}, fresh |-> TRUE]]

IssueEnrollToken(p) ==
  /\ pollers[p] = Absent /\ CreatePending(p)
  /\ UNCHANGED <<disk, agent, joining, bindings, stops>>

\* Approve and Disable: whatever the status was.
SetPollerStatus(p, status) ==
  /\ pollers[p] # Absent /\ pollers[p].status # status /\ Stopping
  /\ pollers' = [pollers EXCEPT ![p].status = status]
  /\ UNCHANGED <<disk, agent, joining, bindings>>

\* Fifteen minutes after it was issued.
EnrollTokenExpires(p) ==
  /\ pollers[p] # Absent /\ pollers[p].fresh
  /\ pollers' = [pollers EXCEPT ![p].fresh = FALSE]
  /\ UNCHANGED <<disk, agent, joining, bindings, stops>>

-----------------------------------------------------------------------------
(* Agent.Enroll: a saved identity is used as it is; without one the token  *)
(* the host was given is presented.  Any error ends the process.           *)

LoadIdentity(h) ==
  /\ agent[h] = Down /\ disk[h] # NoOneHere
  /\ agent' = [agent EXCEPT ![h] = [pc |-> "run", id |-> disk[h]]]
  /\ UNCHANGED <<pollers, disk, joining, bindings, stops>>

Enroll(h, r, p) ==
  /\ agent[h] = Down /\ disk[h] = NoOneHere /\ pollers[p] # Absent
  /\ joining[r] = NoJoin /\ stops < MaxStops
  /\ agent' = [agent EXCEPT ![h] = [pc |-> "wait", call |-> r]]
  /\ joining' = [joining EXCEPT ![r] = [pc |-> "find", host |-> h, p |-> p]]
  /\ UNCHANGED <<pollers, disk, bindings, stops>>

\* Variant: an identity that could not be written is used all the same.
SaveIdentityAnyway(h, written) ==
  /\ agent[h].pc = "save"
  /\ IF written THEN UNCHANGED stops ELSE Stopping
  /\ disk' = IF written THEN [disk EXCEPT ![h] = agent[h].id] ELSE disk
  /\ agent' = [agent EXCEPT ![h] = [pc |-> "run", id |-> agent[h].id]]
  /\ UNCHANGED <<pollers, joining, bindings>>

\* The identity is on disk before it is used.
SaveIdentity(h, written) ==
  /\ agent[h].pc = "save"
  /\ IF written THEN UNCHANGED stops ELSE Stopping
  /\ disk' = IF written THEN [disk EXCEPT ![h] = agent[h].id] ELSE disk
  /\ agent' = [agent EXCEPT ![h] = IF written THEN [pc |-> "run", id |-> agent[h].id] ELSE Down]
  /\ UNCHANGED <<pollers, joining, bindings>>

\* Killed at any time, or out of patience with the API: the call goes on.
AgentStops(h) ==
  /\ agent[h] # Down /\ Stopping
  /\ agent' = [agent EXCEPT ![h] = Down]
  /\ joining' = [r \in Registrations |->
                   IF joining[r] # NoJoin /\ joining[r].host = h THEN [joining[r] EXCEPT !.host = NoOneHere] ELSE joining[r]]
  /\ UNCHANGED <<pollers, disk, bindings>>

-----------------------------------------------------------------------------
(* PollerService.Register.                                                 *)

Answer(r, to) ==
  /\ joining' = [joining EXCEPT ![r] = NoJoin]
  /\ agent' = [h \in Hosts |-> IF h = joining[r].host THEN to ELSE agent[h]]

\* A token is good while its poller is pending and has not been heard from.
Redeemable(p) ==
  /\ pollers[p].token = <<"pe", p>> /\ pollers[p].status = "pending"
  /\ pollers[p].heard = {} /\ pollers[p].fresh

FindByEnrollHash(r) ==
  /\ joining[r].pc = "find"
  /\ IF Redeemable(joining[r].p)
     THEN joining' = [joining EXCEPT ![r].pc = "bind"] /\ UNCHANGED agent
     ELSE Answer(r, Down)
  /\ UNCHANGED <<pollers, disk, bindings, stops>>

TokenBound(p, token) == pollers' = [pollers EXCEPT ![p].token = token]

\* By id alone: of two calls that found the token, the later one binds last.
BindAuthToken(r) ==
  LET p == joining[r].p
      token == <<"pt", p, bindings + 1>>
  IN /\ joining[r].pc = "bind" /\ bindings < MaxMinted /\ bindings' = bindings + 1
     /\ TokenBound(p, token)
     /\ Answer(r, [pc |-> "save", id |-> [p |-> p, token |-> token]])
     /\ UNCHANGED <<disk, stops>>

-----------------------------------------------------------------------------
(* HeartbeatLoop and PollerService.Heartbeat.                              *)

\* A refused heartbeat is logged by the agent, which goes on.
AuthByToken(h) ==
  /\ agent[h].pc = "run"
  /\ LET id == agent[h].id
     IN /\ pollers[id.p].token = id.token /\ pollers[id.p].status # "disabled"
        /\ agent' = [agent EXCEPT ![h] = [pc |-> "beat", id |-> id]]
  /\ UNCHANGED <<pollers, disk, joining, bindings, stops>>

Heard(id) == pollers' = [pollers EXCEPT ![id.p].heard = @ \cup {id}]

\* By id, whatever happened since.
Heartbeat(h) ==
  /\ agent[h].pc = "beat"
  /\ Heard(agent[h].id)
  /\ agent' = [agent EXCEPT ![h].pc = "run"]
  /\ UNCHANGED <<disk, joining, bindings, stops>>

EnrolNext ==
  \/ \E p \in PollerIds : \/ IssueEnrollToken(p) \/ EnrollTokenExpires(p)
                          \/ \E status \in {"active", "disabled"} : SetPollerStatus(p, status)
  \/ \E h \in Hosts : \/ LoadIdentity(h) \/ AgentStops(h) \/ AuthByToken(h) \/ Heartbeat(h)
                      \/ \E written \in BOOLEAN : SaveIdentity(h, written)
                      \/ \E r \in Registrations, p \in PollerIds : Enroll(h, r, p)
  \/ \E r \in Registrations : FindByEnrollHash(r) \/ BindAuthToken(r)

EnrolSpec == EnrolInit /\ [][EnrolNext]_enrolVars

-----------------------------------------------------------------------------
(* Properties.                                                             *)

\* Every identity a poller was ever heard under is on the disk of some host,
\* and of one only, whatever was killed, failed to be written or was
\* registered twice in between (Agent.Enroll writes before it reports).  A
\* poller heard from cannot be enrolled again (FindByEnrollHash): an identity
\* used before it is saved would be lost with its process.  The identity may
\* be void by then, when a registration that found the token earlier bound it
\* after the first heartbeat.
HeardIsSaved ==
  /\ \A p \in PollerIds :
       pollers[p] # Absent => \A id \in pollers[p].heard : \E h \in Hosts : disk[h] = id
  /\ \A h, k \in Hosts : disk[h] = disk[k] /\ disk[h] # NoOneHere => h = k
=============================================================================
