---------------------------- MODULE Management_MC -----------------------------
(* TLC instances of what operators and devices reach from outside: the     *)
(* catalogue, the customers of ports, access, maps and what they show,     *)
(* traps, notices and who gets them, pollers joining.                      *)
EXTENDS InventoryCatalog, InterfaceCustomers, Access, TrapListener, Notifier, Maps_MC, LiveView, Enrolment

CONSTANTS s1, a1, q1, q2, u1, u2, c1, c2, o1, o2

MCRequests == {q1, q2}
MCCallSlots == {c1, c2}
MCSockets == {o1, o2}
\* The slots of every part are swapped at once: one part moves, the others rest.
Slots == MCRequests \cup MCCallSlots \cup MCSockets \cup MCMapCalls
Symmetric == {f \in Permutations(Slots) :
                \A pair \in {<<q1, q2>>, <<c1, c2>>, <<o1, o2>>, <<k1, k2>>} :
                  IF f[q1] = q1 THEN f[pair[1]] = pair[1] /\ f[pair[2]] = pair[2]
                  ELSE f[pair[1]] = pair[2] /\ f[pair[2]] = pair[1]}

MCFamiliesOn == [pp_default |-> {"traffic", "health"}, pp_icmp |-> {"icmp"}]
MCPermissions == [admin |-> {"uw", "rd"}, viewer |-> {"rd"}]
MCNotices == <<"critical", "info", "malformed", "warning">>

\* Texts of up to n characters.
Text(chars, n) == UNION {[1..k -> chars] : k \in 0..n}
PortCalled(idx, name) == [dev |-> <<"A">>, addr |-> <<"i">>, idx |-> <<idx>>, name |-> <<name>>]
MCPortName == <<PortCalled("1", "b"), PortCalled("2", "1")>>
MCAliases == Text({"a", "A", "_"}, 2)
MCDescrs == {<<>>}
MCCustomers == {<<"a">>, <<"b">>}
MCConditions == [field : {"alias"}, op : {"like"}, value : Text({"a", "_", "%"}, 3)]
                \cup [field : {"any"}, op : {"eq"}, value : Text({"A"}, 1)]
MCAlso == [field |-> "any", op |-> "like", value |-> <<"a">>]

\* A link bound at both ends, with one uplink not stated; one bound at its
\* far end; one bound nowhere.
MCLinkShapes == {[a |-> "x", b |-> "y", bandwidth |-> 0], [a |-> Nowhere, b |-> "x", bandwidth |-> 0],
                 [a |-> Nowhere, b |-> Nowhere, bandwidth |-> 2]}
MCUplinks == [x |-> 4]

\* The parts share no state here: a behaviour is one of one part, while the
\* others rest in one state of theirs.
VARIABLE part

CatalogStart == CatalogInit /\ minted = 2 /\ ruleSite = {s1} /\ devices[1].addr = a1
\* A device is created at one site, and moved to another.
AtHome == \A r \in Requests : req[r].op = "create" => req[r].in.site = s1
\* An edit changes one thing.
OneEdit ==
  \A r \in Requests : req[r].op = "idle" /\ req'[r].op = "update" =>
    Cardinality({f \in {"addr", "site", "profile"} : req'[r].in[f] # devices[req'[r].dev][f]}) <= 1
CustomersStart == /\ CustomersInit /\ texts[2].alias = <<"A", "_">>
                  /\ writes = 1 \/ texts[1].alias = <<"a">>
                  /\ part # "customers" => writes = 0
AccessStart == AccessInit /\ (accounts # <<>> => part = "access" /\ accounts[u2].roles = {"admin"})
TrapStart == TrapInit /\ (part # "traps" => index = [x \in DOMAIN index |-> NoDevice])
\* The limiter alone gets the time a sweep needs; the writer does not look at
\* the clock, and three traps fill its batch and its queue.
FewTraps == now <= 1 /\ Total <= 3
NotifierStart == NotifierInit /\ (part # "notices" => enabled = {})
MapsRest == MapsStart /\ mapCalls = IF part = "maps" THEN 0 ELSE MaxMapCalls

\* What is left under an abandoned index is little older than what is polled
\* under the new one, or as old as ages are told apart.
MaxLead == 1
Together == series[DocIdx].age <= series[3 - DocIdx].age + MaxLead \/ series[DocIdx].age = Horizon

\* A poll that comes after the series were read bears on nothing a view shows.
PollsInTime == view # NoView /\ view.pc = "index" => series' = series \/ cadence' # cadence \/ view' # view

ManagementInit ==
  /\ part \in {"catalog", "customers", "access", "limiter", "traps", "notices", "maps", "live", "pollers"}
  /\ LiveInit /\ (part # "live" => cadence = 1) /\ EnrolInit
  /\ CatalogStart /\ CustomersStart /\ AccessStart /\ TrapStart /\ NotifierStart /\ MapsRest

ManagementNext ==
  \/ part = "catalog" /\ CatalogNext /\ AtHome' /\ OneEdit
     /\ UNCHANGED <<customerVars, accessVars, trapVars, notifierVars, mapsVars, liveVars, enrolVars, part>>
  \/ part = "customers" /\ CustomersNext
     /\ UNCHANGED <<catalogVars, accessVars, trapVars, notifierVars, mapsVars, liveVars, enrolVars, part>>
  \/ part = "access" /\ AccessNext
     /\ UNCHANGED <<catalogVars, customerVars, trapVars, notifierVars, mapsVars, liveVars, enrolVars, part>>
  \/ part = "limiter" /\ Intake
     /\ UNCHANGED <<catalogVars, customerVars, accessVars, notifierVars, mapsVars, liveVars, enrolVars, part>>
  \/ part = "traps" /\ TrapNext /\ FewTraps'
     /\ UNCHANGED <<catalogVars, customerVars, accessVars, notifierVars, mapsVars, liveVars, enrolVars, part>>
  \/ part = "notices" /\ NotifierNext
     /\ UNCHANGED <<catalogVars, customerVars, accessVars, trapVars, mapsVars, liveVars, enrolVars, part>>
  \/ part = "maps" /\ MapsNext
     /\ UNCHANGED <<catalogVars, customerVars, accessVars, trapVars, notifierVars, liveVars, enrolVars, part>>
  \/ part = "live" /\ LiveNext /\ PollsInTime /\ Together'
     /\ UNCHANGED <<catalogVars, customerVars, accessVars, trapVars, notifierVars, mapsVars, enrolVars, part>>
  \/ part = "pollers" /\ EnrolNext
     /\ UNCHANGED <<catalogVars, customerVars, accessVars, trapVars, notifierVars, mapsVars, liveVars, part>>

ManagementSpec ==
  ManagementInit
  /\ [][ManagementNext]_<<catalogVars, customerVars, accessVars, trapVars, notifierVars, mapsVars,
                           liveVars, enrolVars, part>>
=============================================================================
