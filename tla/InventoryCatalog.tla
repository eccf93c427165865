--------------------------- MODULE InventoryCatalog ---------------------------
(***************************************************************************)
(* What operators manage: devices with their schedules, sites, credentials *)
(* and the finds of subnet discovery (inventory/app, inventory/adapters,   *)
(* collection/app/discovery.go, platform/polling).                         *)
(*                                                                         *)
(* A request is served in the database statements and transactions the     *)
(* code makes, so two requests interleave between them.  Postgres is       *)
(* external: a statement is atomic, a constraint refuses it, a row written *)
(* by an open transaction is waited for.  A request whose check fails ends *)
(* with an error and no change.  Names, notes, ports and audit rows, which *)
(* no decision here reads, are left out, and one discovery rule exists.    *)
(***************************************************************************)
EXTENDS Integers, Sequences, FiniteSets, FiniteSetsExt, Functions

CONSTANTS
  DevIds,        \* ids in the order they are minted, from 1
  Addrs,         \* management addresses
  SysNames,      \* host names a system may report
  NoName,        \* no name reported
  CatSites, CatCreds, Profiles,
  FamiliesOn,    \* families_enabled of each profile
  Paces,         \* the traffic intervals on offer, and the first health interval among them
  Requests,      \* request slots
  MaxRequests,   \* bound on the requests of a behaviour
  PageSize       \* devices per page

ASSUME CatalogAssumption ==
  /\ DevIds \subseteq Nat /\ PageSize \in Nat \ {0} /\ MaxRequests \in Nat
  /\ FamiliesOn \in [Profiles -> SUBSET {"traffic", "health", "icmp", "sync"}]

VARIABLES
  devices,    \* inventory.devices: id -> row, partial
  schedules,  \* platform.polling_schedule: id -> family -> [pace, enabled]
  sites,      \* platform.sites: id -> parent_site_id or "none", partial
  creds,      \* inventory.credentials
  pace,       \* the default profile's traffic_interval_s and health_interval_s
  finds,      \* platform.discovered_devices: address -> [state, name], partial
  ruleSite,   \* the discovery rule: {} or the set of its site
  sweep,      \* the rule's sweep: [at, hosts]
  req,        \* the requests being served
  stayed,     \* history: per listing, what has matched since it began
  minted,     \* ids given out
  served      \* requests begun

tables == <<devices, schedules, sites, creds, pace, finds, ruleSite>>
catalogVars == <<tables, sweep, req, stayed, minted, served>>

Idle == [op |-> "idle"]
NoSweep == [at |-> "none", hosts |-> <<>>]
DefaultProfile == "pp_default"

LiveDevices(ds) == {d \in DOMAIN ds : ds[d].status # "retired"}

\* A row under a key that has none.
Inserting(rows, x, row) == [y \in DOMAIN rows \cup {x} |-> IF y \in DOMAIN rows THEN rows[y] ELSE row]

Paced == {"traffic", "health"}

\* insertSchedules: a row per family of the profile; a row that exists keeps
\* its switch, a family the profile lacks loses its row.
Scheduled(rows, profile, interval) ==
  [f \in FamiliesOn[profile] |->
     [pace |-> IF f \in Paced THEN interval[f] ELSE 0,
      enabled |-> f \in DOMAIN rows => rows[f].enabled]]

NewDevice(in) ==
  [addr |-> in.addr, status |-> "pending", site |-> in.site, cred |-> in.cred,
   profile |-> in.profile, alts |-> {}, name |-> NoName]

\* Some devices have been created, each at an address of its own.
CatalogInit ==
  /\ minted \in DevIds
  /\ \E addr \in [1..minted -> Addrs], x \in CatSites, c \in CatCreds :
       /\ IsInjective(addr) /\ ruleSite = {x}
       /\ devices = [d \in 1..minted |->
                       NewDevice([addr |-> addr[d], site |-> x, cred |-> c, profile |-> DefaultProfile])]
  /\ pace = [f \in Paced |-> Min(Paces)]
  /\ schedules = [d \in 1..minted |-> Scheduled(<<>>, DefaultProfile, [f \in Paced |-> Min(Paces)])]
  /\ sites = [x \in CatSites |-> "none"] /\ creds = CatCreds
  /\ finds = <<>> /\ sweep = NoSweep
  /\ req = [r \in Requests |-> Idle] /\ stayed = [r \in Requests |-> {}] /\ served = 0

-----------------------------------------------------------------------------
(* Rows, constraints and waiting.                                          *)

\* A row written by a transaction that has not committed.
Locked(d) == \E r \in Requests : req[r].op \in {"create", "update"} /\ req[r].pc = "commit" /\ req[r].dev = d

\* devices_ip_unique.
Taken(a, d) == \E e \in LiveDevices(devices) \ {d} : devices[e].addr = a

\* RefsExist; the foreign keys ask the same of the write.
RefsExist(in) == in.site \in DOMAIN sites /\ in.cred \in creds /\ in.profile \in Profiles

\* A foreign key holds what an open transaction refers to.
Referred(x, c) ==
  \/ \E d \in DOMAIN devices : devices[d].site = x \/ devices[d].cred = c
  \/ \E r \in Requests : /\ req[r].op \in {"create", "update"} /\ req[r].pc = "commit"
                         /\ req[r].in.site = x \/ req[r].in.cred = c

Begin(r, request) ==
  /\ req[r] = Idle /\ served < MaxRequests /\ served' = served + 1
  /\ req' = [req EXCEPT ![r] = request]
Goes(r, pc) == req' = [req EXCEPT ![r].pc = pc] /\ UNCHANGED served
Ends(r) == req' = [req EXCEPT ![r] = Idle] /\ UNCHANGED served
At(r, op, pc) == req[r].op = op /\ req[r].pc = pc

Inputs == [addr : Addrs, site : CatSites, cred : CatCreds, profile : Profiles]

-----------------------------------------------------------------------------
(* DeviceService.                                                          *)

Creating(in, rest, find) ==
  [op |-> "create", pc |-> "validate", in |-> in, rest |-> rest, find |-> find, dev |-> 0]

CreateDevice(r, in) == Begin(r, Creating(in, <<>>, {})) /\ UNCHANGED <<tables, sweep>>

\* ImportCSV: a Create for each row, whatever became of the rows before.
ImportCSV(r, rows) == Begin(r, Creating(Head(rows), Tail(rows), {})) /\ UNCHANGED <<tables, sweep>>

NextRow(r) ==
  IF req[r].rest = <<>> THEN Ends(r)
  ELSE /\ req' = [req EXCEPT ![r] = Creating(Head(@.rest), Tail(@.rest), {})]
       /\ UNCHANGED served

Validate(r) ==
  /\ At(r, "create", "validate")
  /\ IF RefsExist(req[r].in) THEN Goes(r, "insert") ELSE NextRow(r)
  /\ UNCHANGED <<tables, sweep>>

\* DeviceRepo.Create: the insert, and insertSchedules' reading of the profile.
InsertDevice(r) ==
  /\ At(r, "create", "insert")
  /\ ~\E q \in Requests : /\ req[q].op \in {"create", "update"} /\ req[q].pc = "commit"
                          /\ req[q].in.addr = req[r].in.addr
  /\ minted + 1 \in DevIds /\ minted' = minted + 1
  /\ IF Taken(req[r].in.addr, 0) \/ ~RefsExist(req[r].in) THEN NextRow(r)
     ELSE /\ req' = [req EXCEPT ![r] = [op |-> "create", pc |-> "commit", dev |-> minted', in |-> @.in,
                                        rest |-> @.rest, find |-> @.find, pace |-> pace]]
          /\ UNCHANGED served
  /\ UNCHANGED <<tables, sweep>>

CommitCreate(r) ==
  /\ At(r, "create", "commit")
  /\ devices' = Inserting(devices, req[r].dev, NewDevice(req[r].in))
  /\ schedules' = Inserting(schedules, req[r].dev, Scheduled(<<>>, req[r].in.profile, req[r].pace))
  /\ IF req[r].find = {} THEN NextRow(r)
     ELSE req' = [req EXCEPT ![r] = [op |-> "approve", pc |-> "settle", find |-> req[r].find]] /\ UNCHANGED served
  /\ UNCHANGED <<sites, creds, pace, finds, ruleSite, sweep>>

\* Update: the row is read, changed, checked and written back whole.
GetDevice(r, d, in) ==
  /\ d \in DOMAIN devices
  /\ Begin(r, [op |-> "update", pc |-> "check", dev |-> d, in |-> in, alts |-> devices[d].alts])
  /\ UNCHANGED <<tables, sweep>>

CheckUpdate(r) ==
  /\ At(r, "update", "check")
  /\ IF RefsExist(req[r].in) THEN Goes(r, "write") ELSE Ends(r)
  /\ UNCHANGED <<tables, sweep>>

WriteDevice(r) ==
  /\ At(r, "update", "write") /\ ~Locked(req[r].dev)
  /\ ~\E q \in Requests : /\ req[q].op \in {"create", "update"} /\ req[q].pc = "commit"
                          /\ req[q].in.addr = req[r].in.addr
  /\ LET d == req[r].dev
     IN IF \/ d \notin DOMAIN devices \/ ~RefsExist(req[r].in)
           \/ devices[d].status # "retired" /\ Taken(req[r].in.addr, d)
        THEN Ends(r)
        ELSE /\ req' = [req EXCEPT ![r] = [op |-> "update", pc |-> "commit", dev |-> d, in |-> @.in,
                                           alts |-> @.alts, pace |-> pace]]
             /\ UNCHANGED served
  /\ UNCHANGED <<tables, sweep>>

CommitUpdate(r) ==
  /\ At(r, "update", "commit")
  /\ LET d == req[r].dev
         in == req[r].in
     IN /\ devices' = [devices EXCEPT ![d] = [@ EXCEPT !.addr = in.addr, !.site = in.site, !.cred = in.cred,
                                                       !.profile = in.profile, !.alts = req[r].alts]]
        /\ schedules' = [schedules EXCEPT ![d] = Scheduled(@, in.profile, req[r].pace)]
  /\ Ends(r) /\ UNCHANGED <<sites, creds, pace, finds, ruleSite, sweep>>

Switched(rows, on) == [f \in DOMAIN rows |-> [rows[f] EXCEPT !.enabled = on]]

\* Variant: re-enabling leaves the schedules as they are.
SetStatusForgets(d, status) ==
  /\ d \in DOMAIN devices /\ ~Locked(d)
  /\ ~(status # "retired" /\ Taken(devices[d].addr, d))
  /\ devices' = [devices EXCEPT ![d].status = status]
  /\ schedules' = [schedules EXCEPT ![d] = IF status = "active" THEN @ ELSE Switched(@, FALSE)]
  /\ UNCHANGED <<sites, creds, pace, finds, ruleSite, sweep, req>>

\* SetStatus: retire, enable and disable, from any status.
SetStatus(d, status) ==
  /\ d \in DOMAIN devices /\ ~Locked(d)
  /\ ~(status # "retired" /\ Taken(devices[d].addr, d))
  /\ devices' = [devices EXCEPT ![d].status = status]
  /\ schedules' = [schedules EXCEPT ![d] = Switched(@, status = "active")]
  /\ UNCHANGED <<sites, creds, pace, finds, ruleSite, sweep, req>>

\* Purge reads the status, and deletes in another transaction.
StartPurge(r, d) ==
  /\ d \in DOMAIN devices /\ devices[d].status = "retired"
  /\ Begin(r, [op |-> "purge", pc |-> "delete", dev |-> d]) /\ UNCHANGED <<tables, sweep>>

Purge(r) ==
  /\ At(r, "purge", "delete") /\ ~Locked(req[r].dev)
  /\ devices' = Restrict(devices, DOMAIN devices \ {req[r].dev})
  /\ schedules' = Restrict(schedules, DOMAIN schedules \ {req[r].dev})
  /\ Ends(r) /\ UNCHANGED <<sites, creds, pace, finds, ruleSite, sweep>>

\* A sync names the device and ends its pending state (SyncRepo.Apply).
Identify(d, name) ==
  /\ d \in DOMAIN devices /\ ~Locked(d) /\ devices[d].status \in {"pending", "active"}
  /\ devices' = [devices EXCEPT ![d].status = "active", ![d].name = name]
  /\ UNCHANGED <<schedules, sites, creds, pace, finds, ruleSite, sweep, req>>

AddAltAddress(d, a) ==
  /\ d \in LiveDevices(devices) /\ ~Locked(d)
  /\ devices' = [devices EXCEPT ![d].alts = @ \cup {a}]
  /\ UNCHANGED <<schedules, sites, creds, pace, finds, ruleSite, sweep>>

\* Merge reads both rows without locking them, then writes both.
LoadMerge(r, keep, dup) ==
  /\ {keep, dup} \subseteq LiveDevices(devices) /\ keep # dup
  /\ Begin(r, [op |-> "merge", pc |-> "write", dev |-> keep, dup |-> dup,
               alts |-> devices[dup].alts \cup {devices[dup].addr}])
  /\ UNCHANGED <<tables, sweep>>

\* Without the survivor's row it is rolled back; a duplicate that has gone
\* is not missed.
Merge(r) ==
  /\ At(r, "merge", "write") /\ ~Locked(req[r].dev) /\ ~Locked(req[r].dup)
  /\ LET keep == req[r].dev
         dup == req[r].dup
     IN IF keep \notin DOMAIN devices THEN UNCHANGED <<devices, schedules>>
        ELSE /\ devices' = [d \in DOMAIN devices |->
                              IF d = keep THEN [devices[d] EXCEPT !.alts = @ \cup req[r].alts]
                              ELSE IF d = dup THEN [devices[d] EXCEPT !.status = "retired"]
                              ELSE devices[d]]
             /\ schedules' = [d \in DOMAIN schedules |->
                                IF d = dup THEN Switched(schedules[d], FALSE) ELSE schedules[d]]
  /\ Ends(r) /\ UNCHANGED <<sites, creds, pace, finds, ruleSite, sweep>>

-----------------------------------------------------------------------------
(* DeviceRepo.List, page by page.                                          *)

StartList(r) ==
  /\ Begin(r, [op |-> "list", pc |-> "page", cursor |-> 0, seen |-> {}, rows |-> 0])
  /\ UNCHANGED <<tables, sweep>>

Fetched(r, after) == LET rows == {d \in LiveDevices(devices) : d > after}
                     IN {d \in rows : Cardinality({e \in rows : e <= d}) <= PageSize + 1}

Page(r, got) ==
  LET more == Cardinality(got) > PageSize
      page == IF more THEN got \ {Max(got)} ELSE got
  IN /\ req' = [req EXCEPT ![r] = [op |-> "list", pc |-> IF more THEN "page" ELSE "shown",
                                    cursor |-> IF more THEN Max(page) ELSE @.cursor,
                                    seen |-> @.seen \cup page, rows |-> @.rows + Cardinality(page)]]
     /\ UNCHANGED <<tables, sweep, served>>

\* Variant: the next page starts after as many rows as were shown.
ListPageByOffset(r) ==
  /\ At(r, "list", "page")
  /\ LET live == LiveDevices(devices)
         rest == {d \in live : Cardinality({e \in live : e <= d}) > req[r].rows}
     IN Page(r, {d \in rest : Cardinality({e \in rest : e <= d}) <= PageSize + 1})

\* Rows after the cursor, one more than a page to tell whether another follows.
ListPage(r) == At(r, "list", "page") /\ Page(r, Fetched(r, req[r].cursor))

ListDone(r) == At(r, "list", "shown") /\ Ends(r) /\ UNCHANGED <<tables, sweep>>

-----------------------------------------------------------------------------
(* Sites and credentials.                                                  *)

InsertSite(x, parent) == sites' = Inserting(sites, x, parent)
UpdateSiteRow(x, parent) == sites' = [sites EXCEPT ![x] = parent]

\* Only a site's own id is refused as its parent.
UpdateSite(x, parent) ==
  /\ {x, parent} \subseteq DOMAIN sites /\ x # parent /\ UpdateSiteRow(x, parent)
  /\ UNCHANGED <<devices, schedules, creds, pace, finds, ruleSite, sweep, req>>

CreateSite(x, parent) ==
  /\ x \in CatSites \ DOMAIN sites /\ parent \in DOMAIN sites \cup {"none"}
  /\ InsertSite(x, parent)
  /\ UNCHANGED <<devices, schedules, creds, pace, finds, ruleSite, sweep, req>>

\* SiteRepo.Delete counts what refers to the site; the foreign keys have the
\* last word.
CountBlockers(r, x) ==
  /\ x \in DOMAIN sites
  /\ ~\E d \in DOMAIN devices : devices[d].site = x
  /\ ~\E y \in DOMAIN sites : sites[y] = x
  /\ x \notin ruleSite
  /\ Begin(r, [op |-> "site", pc |-> "delete", site |-> x]) /\ UNCHANGED <<tables, sweep>>

DeleteSite(r) ==
  /\ At(r, "site", "delete")
  /\ LET x == req[r].site
     IN sites' = IF x \in ruleSite \/ Referred(x, "none") \/ \E y \in DOMAIN sites : sites[y] = x
                 THEN sites ELSE Restrict(sites, DOMAIN sites \ {x})
  /\ Ends(r) /\ UNCHANGED <<devices, schedules, creds, pace, finds, ruleSite, sweep>>

\* What each kind of secret has to hold.
validateSecret(secret) ==
  \/ secret.kind = "snmp_v2c" /\ "community" \in secret.given
  \/ /\ secret.kind = "snmp_v3" /\ {"user", "auth"} \subseteq secret.given
     /\ "priv" \in secret.given => "privPassword" \in secret.given

\* EnvelopeVault.Store seals the secret and inserts the row.
Store(c) == creds' = creds \cup {c}

CreateCred(c, secret) ==
  /\ c \notin creds /\ validateSecret(secret) /\ Store(c)
  /\ UNCHANGED <<devices, schedules, sites, pace, finds, ruleSite, sweep, req>>

\* EnvelopeVault.Delete counts the devices that are not retired.
CountUsers(r, c) ==
  /\ c \in creds /\ ~\E d \in LiveDevices(devices) : devices[d].cred = c
  /\ Begin(r, [op |-> "cred", pc |-> "delete", cred |-> c]) /\ UNCHANGED <<tables, sweep>>

DeleteCred(r) ==
  /\ At(r, "cred", "delete")
  /\ creds' = IF Referred("none", req[r].cred) THEN creds ELSE creds \ {req[r].cred}
  /\ Ends(r) /\ UNCHANGED <<devices, schedules, sites, pace, finds, ruleSite, sweep>>

\* polling.Store.Set: the default profile and the schedules of the devices on
\* it, in one transaction; devices not yet committed are not among them.
\* Health is never polled more often than traffic.
SetPace(p) ==
  /\ pace["traffic"] # p
  /\ pace' = [f \in Paced |-> IF f = "traffic" \/ pace[f] < p THEN p ELSE pace[f]]
  /\ schedules' = [d \in DOMAIN schedules |->
                     [f \in DOMAIN schedules[d] |->
                        IF f \in Paced /\ devices[d].profile = DefaultProfile
                        THEN [schedules[d][f] EXCEPT !.pace = pace'[f]] ELSE schedules[d][f]]]
  /\ UNCHANGED <<devices, sites, creds, finds, ruleSite, sweep, req>>

-----------------------------------------------------------------------------
(* Subnet discovery.                                                       *)

CreateRule(x) ==
  /\ ruleSite = {} /\ x \in DOMAIN sites /\ ruleSite' = {x}
  /\ UNCHANGED <<devices, schedules, sites, creds, pace, finds, sweep, req>>

\* The rule's finds go with it.
DeleteRule ==
  /\ ruleSite # {} /\ ruleSite' = {} /\ finds' = <<>>
  /\ UNCHANGED <<devices, schedules, sites, creds, pace, sweep, req>>

\* A sweep is dispatched when a credential of the rule can be read.
RunRule ==
  /\ ruleSite # {} /\ creds # {} /\ sweep = NoSweep
  /\ sweep' = [NoSweep EXCEPT !.at = "poller"]
  /\ UNCHANGED <<tables, req>>

\* executeDiscovery: the addresses that answer, with a name or only a
\* description.
ExecuteDiscovery(answers) ==
  /\ sweep.at = "poller"
  /\ sweep' = [at |-> "result", hosts |-> answers]
  /\ UNCHANGED <<tables, req>>

Recorded(a, name) ==
  IF a \in DOMAIN finds THEN [finds EXCEPT ![a].name = name]
  ELSE Inserting(finds, a, [state |-> "pending", name |-> name])

\* UpsertFound, host by host; without the rule the insert fails and the
\* result is requeued.
UpsertFound(a) ==
  /\ sweep.at = "result" /\ ruleSite # {} /\ a \in DOMAIN sweep.hosts
  /\ finds' = Recorded(a, sweep.hosts[a])
  /\ sweep' = [sweep EXCEPT !.hosts = Restrict(@, DOMAIN @ \ {a})]
  /\ UNCHANGED <<devices, schedules, sites, creds, pace, ruleSite, req>>

ResultDone ==
  /\ sweep.at = "result" /\ DOMAIN sweep.hosts = {} /\ sweep' = NoSweep
  /\ UNCHANGED <<tables, req>>

Ignore(a) ==
  /\ a \in DOMAIN finds /\ finds' = [finds EXCEPT ![a].state = "ignored"]
  /\ UNCHANGED <<devices, schedules, sites, creds, pace, ruleSite, sweep, req>>

\* approve: an address managed already is refused; a find is attached to a
\* device, or becomes one unless its name is a device's already.
GetFound(r, a, to, force) ==
  /\ a \in DOMAIN finds /\ ~Taken(a, 0)
  /\ Begin(r, [op |-> "approve", pc |-> "decide", find |-> {a}, to |-> to, force |-> force, name |-> finds[a].name,
               site |-> ruleSite])
  /\ UNCHANGED <<tables, sweep>>

Attach(r) ==
  /\ At(r, "approve", "decide") /\ req[r].to # 0
  /\ IF req[r].to \in LiveDevices(devices)
     THEN \E a \in req[r].find : AddAltAddress(req[r].to, a) /\ Goes(r, "settle")
     ELSE Ends(r) /\ UNCHANGED <<tables, sweep>>

\* By name alone: approval, its one caller, has no serial number to give.
MatchByIdentity(name) == {d \in LiveDevices(devices) : name # NoName /\ devices[d].name = name}

Onboard(r) ==
  /\ At(r, "approve", "decide") /\ req[r].to = 0
  /\ IF ~req[r].force /\ MatchByIdentity(req[r].name) # {} THEN Ends(r)
     ELSE \E a \in req[r].find, x \in req[r].site, c \in CatCreds :
            /\ req' = [req EXCEPT ![r] = Creating([addr |-> a, site |-> x, cred |-> c, profile |-> DefaultProfile],
                                                   <<>>, {a})]
            /\ UNCHANGED served
  /\ UNCHANGED <<tables, sweep>>

\* SetFoundState; a find that has gone with its rule is an error.
Settle(r) ==
  /\ At(r, "approve", "settle")
  /\ finds' = [a \in DOMAIN finds |-> IF a \in req[r].find THEN [finds[a] EXCEPT !.state = "approved"] ELSE finds[a]]
  /\ Ends(r) /\ UNCHANGED <<devices, schedules, sites, creds, pace, ruleSite, sweep>>

-----------------------------------------------------------------------------

\* What one request slot may do next.
RequestStep(r) ==
  \/ Validate(r) \/ CommitCreate(r) \/ CheckUpdate(r) \/ WriteDevice(r) \/ CommitUpdate(r)
  \/ Purge(r) \/ Merge(r) \/ ListPage(r) \/ ListDone(r) \/ DeleteSite(r) \/ DeleteCred(r)
  \/ Attach(r) \/ Onboard(r) \/ Settle(r)

StartRequest(r) ==
  \/ \E in \in Inputs : \/ CreateDevice(r, in)
                        \/ \E a \in Addrs : ImportCSV(r, <<in, [in EXCEPT !.addr = a]>>)
                        \/ \E d \in DevIds : GetDevice(r, d, in)
  \/ \E d \in DevIds : StartPurge(r, d) \/ \E dup \in DevIds : LoadMerge(r, d, dup)
  \/ StartList(r)
  \/ \E x \in CatSites : CountBlockers(r, x)
  \/ \E c \in CatCreds : CountUsers(r, c)
  \/ \E a \in Addrs, to \in {0} \cup DevIds, force \in BOOLEAN : GetFound(r, a, to, force)

\* Requests of a single statement, and a sync.
OneStep ==
  /\ served < MaxRequests /\ served' = served + 1
  /\ \/ \E d \in DevIds : \/ \E status \in {"active", "disabled", "retired"} : SetStatus(d, status)
                          \/ \E name \in SysNames : Identify(d, name)
                          \/ \E a \in Addrs : AddAltAddress(d, a) /\ UNCHANGED req
     \/ \E x \in CatSites : \/ CreateRule(x)
                            \/ \E p \in CatSites : UpdateSite(x, p)
                            \/ \E p \in CatSites \cup {"none"} : CreateSite(x, p)
     \/ \E p \in Paces : SetPace(p)
     \/ \E c \in CatCreds \ creds, kind \in {"snmp_v2c", "snmp_v3"},
          given \in SUBSET {"community", "user", "auth", "priv", "privPassword"} :
          CreateCred(c, [kind |-> kind, given |-> given])
     \/ DeleteRule \/ RunRule
     \/ \E a \in Addrs : Ignore(a)

SweepStep ==
  /\ UNCHANGED served
  /\ \/ \E hosts \in SUBSET Addrs : \E answers \in [hosts -> SysNames \cup {NoName}] : ExecuteDiscovery(answers)
     \/ \E a \in Addrs : UpsertFound(a)
     \/ ResultDone

\* What a listing should show has matched since it began.
Watch == stayed' = [r \in Requests |-> IF req'[r].op # "list" THEN {}
                                       ELSE IF req[r].op # "list" THEN LiveDevices(devices')
                                       ELSE stayed[r] \cap LiveDevices(devices')]

CatalogNext ==
  /\ \/ \E r \in Requests : \/ InsertDevice(r)
                            \/ (StartRequest(r) \/ RequestStep(r)) /\ UNCHANGED minted
     \/ (OneStep \/ SweepStep) /\ UNCHANGED minted
  /\ Watch

CatalogSpec == CatalogInit /\ [][CatalogNext]_catalogVars

-----------------------------------------------------------------------------
(* Properties.                                                             *)

\* A device that is in service has a schedule for every family of its
\* profile, and each is on, however statuses, profile changes and merges
\* interleave (insertSchedules, SetStatus, Merge).
InServiceIsPolled ==
  \A d \in DOMAIN devices :
    devices[d].status \in {"pending", "active"} =>
      /\ DOMAIN schedules[d] = FamiliesOn[devices[d].profile]
      /\ \A f \in DOMAIN schedules[d] : schedules[d][f].enabled

\* A listing shows every device that was there from its first page to its
\* last, and none twice, while others come, go and are retired
\* (DeviceRepo.List).
PagesMissNone ==
  \A r \in Requests :
    At(r, "list", "shown") => stayed[r] \subseteq req[r].seen /\ req[r].rows = Cardinality(req[r].seen)
=============================================================================
