------------------------------ MODULE AlertNoise ------------------------------
(***************************************************************************)
(* Which series of a rule become alerts, under which labels, and who hears *)
(* of them: noise suppression and enrichment in the evaluator              *)
(* (alerting/app/evaluator.go), the rules operators edit                   *)
(* (alerting/app/rules.go, alerting/adapters/httpapi) and silences         *)
(* (alerting/adapters/postgres/store.go).                                  *)
(*                                                                         *)
(* One rule, one device, one evaluator: replicas and acknowledgement are   *)
(* AlertLifecycle's, and so is which alerts are flapping: here any may be. *)
(* A series is a port by its if_index or the flow exporter; an expression  *)
(* shows the ports or the exporter.  An interface name is the sequence of  *)
(* its dotted parts.  Severity, annotations and values are left out.       *)
(***************************************************************************)
EXTENDS Naturals, Sequences, FiniteSets, SequencesExt

CONSTANTS
  AlertPorts,    \* if_index values the metrics carry
  IfNames,       \* names an interface may have, <<>> when it reports none
  Exporter,      \* the address flow comes from
  Claimants,     \* devices that may claim it
  Scopes,        \* scopes operators silence: sets of labels <<key, value>>
  NoAlertRule, NoInfo, NoNews,
  MaxEdits       \* bound on edits and changes in the network

ASSUME NoiseAssumption ==
  /\ Exporter \notin AlertPorts /\ MaxEdits \in Nat
  /\ <<>> \in IfNames /\ IfNames \subseteq Seq(STRING)
  /\ {} \in Scopes

AlertSeries == AlertPorts \cup {Exporter}
Accepted == {"ports", "flows"}     \* expressions the metrics backend parses
Shows(expr) == IF expr = "ports" THEN AlertPorts ELSE {Exporter}

VARIABLES
  ifInfo,     \* inventory.interfaces: index -> [name, up], NoInfo when not known
  claims,     \* devices whose flow_exporters or address is Exporter
  breaches,   \* series in breach, whatever the expression
  alertRule,  \* the row of alert_rules: [id, kind, expr, enabled, builtin]
  muted,      \* scopes of the silences in force
  firing,     \* live alert_instances: series -> labels, partial
  eval,       \* the evaluator's locals
  heard,      \* history: live alert -> how its firing was announced, partial
  news,       \* history: the same of the resolution just decided on
  edits

noiseVars == <<ifInfo, claims, breaches, alertRule, muted, firing, eval, heard, news, edits>>

AtRest == [pc |-> "rest"]

NoiseInit ==
  /\ ifInfo \in [AlertPorts -> [name : IfNames, up : BOOLEAN] \cup {NoInfo}]
  /\ claims \in SUBSET Claimants /\ breaches \in SUBSET AlertSeries
  /\ alertRule \in [id : {0}, kind : {"threshold"}, expr : Accepted, enabled : {TRUE}, builtin : BOOLEAN]
  /\ muted \in SUBSET (Scopes \ {{}}) /\ edits \in {0, MaxEdits}
  /\ firing = <<>> /\ eval = AtRest /\ news = NoNews /\ heard = <<>>

-----------------------------------------------------------------------------
(* What describes no actionable fault.                                     *)

\* Variant: the part before the first dot.
firstPart(name) == IF Len(name) > 1 THEN <<Head(name)>> ELSE <<>>

\* eth9.101 hangs off eth9, eth9.101.200 off eth9.101.
parentInterface(name) == IF Len(name) > 1 THEN Front(name) ELSE <<>>

\* An error leaves the evaluator knowing nothing.
Interfaces(answered) == IF answered THEN ifInfo ELSE [p \in AlertPorts |-> NoInfo]

\* A port goes when its parent is in breach of the same rule, hidden itself or
\* not, and when it was never seen in service; what inventory does not know stays.
suppressNoise(series, ifaces) ==
  LET known == {p \in series \cap AlertPorts : ifaces[p] # NoInfo}
      names == {ifaces[p].name : p \in known} \ {<<>>}
  IN {s \in series : s \in known => ifaces[s].up /\ parentInterface(ifaces[s].name) \notin names}

\* The device that claims the address, the address when none does.
DeviceByExporter == IF claims = {} THEN {Exporter} ELSE claims

\* Labels an alert may carry: the metric's own, and what makes it readable.
alertLabels(s, ifaces) ==
  IF s = Exporter THEN {{<<"exporter", Exporter>>, <<"device", d>>} : d \in DeviceByExporter}
  ELSE {{<<"if_index", s>>} \cup IF ifaces[s] = NoInfo \/ ifaces[s].name = <<>> THEN {}
                                 ELSE {<<"if_name", ifaces[s].name>>}}

-----------------------------------------------------------------------------
(* Evaluator.Cycle for the rule, call by call.                             *)

Having(f, s, v) == [x \in DOMAIN f \cup {s} |-> IF x = s THEN v ELSE f[x]]
Without(f, s) == [x \in DOMAIN f \ {s} |-> f[x]]
Quietly == news' = NoNews
rest == <<ifInfo, claims, breaches, alertRule, muted, edits>>

\* EnabledRules; a rule without an expression is inert.
Evaluated == alertRule # NoAlertRule /\ alertRule.enabled /\ alertRule.expr # ""

StartEval ==
  /\ eval = AtRest /\ Evaluated
  /\ eval' = [pc |-> "query", rule |-> alertRule.id, expr |-> alertRule.expr]
  /\ Quietly /\ UNCHANGED <<rest, firing, heard>>

IdleCycle ==
  /\ eval = AtRest /\ ~Evaluated
  /\ Quietly /\ UNCHANGED <<rest, firing, heard, eval>>

QueryRule ==
  /\ eval.pc = "query"
  /\ eval' = [pc |-> "noise", rule |-> eval.rule, series |-> breaches \cap Shows(eval.expr)]
  /\ Quietly /\ UNCHANGED <<rest, firing, heard>>

ReadInterfaces(answered) ==
  /\ eval.pc = "noise"
  /\ LET ifaces == Interfaces(answered)
     IN eval' = [pc |-> "live", rule |-> eval.rule, series |-> eval.series, ifaces |-> ifaces,
                 kept |-> suppressNoise(eval.series, ifaces)]
  /\ Quietly /\ UNCHANGED <<rest, firing, heard>>

\* LiveByRule: what matches and is not live fires, what is live and does not
\* match resolves.
LoadAlerts ==
  /\ eval.pc = "live"
  /\ eval' = [pc |-> "work", rule |-> eval.rule, ifaces |-> eval.ifaces, live |-> firing,
              todo |-> eval.kept \ DOMAIN firing, gone |-> DOMAIN firing \ eval.kept]
  /\ Quietly /\ UNCHANGED <<rest, firing, heard>>

\* Variant: the labels are kept as the metric has them.
FiredBare(s, labels) == firing' = Having(firing, s, {l \in labels : l[1] \in {"if_index", "exporter"}})

Fired(s, labels) == firing' = Having(firing, s, labels)

Standing == alertRule # NoAlertRule /\ alertRule.id = eval.rule

\* An alert of a rule that is gone is refused and given up.
FireAlert(s) ==
  /\ eval.pc = "work" /\ s \in eval.todo
  /\ \/ /\ ~Standing
        /\ eval' = [eval EXCEPT !.todo = @ \ {s}] /\ UNCHANGED firing
     \/ /\ Standing
        /\ \E labels \in alertLabels(s, eval.ifaces), flapping \in BOOLEAN :
             /\ Fired(s, labels)
             /\ eval' = [after |-> [eval EXCEPT !.todo = @ \ {s}], pc |-> "notify",
                         event |-> "fired", about |-> s, labels |-> labels, flapping |-> flapping]
  /\ heard' = Without(heard, s) /\ Quietly /\ UNCHANGED rest

\* Resolve, with the alert as LiveByRule read it.
ResolveAlert(s) ==
  /\ eval.pc = "work" /\ eval.todo = {} /\ s \in eval.gone
  /\ firing' = Without(firing, s)
  /\ eval' = [after |-> [eval EXCEPT !.gone = @ \ {s}], pc |-> "notify",
              event |-> "resolved", about |-> s, labels |-> eval.live[s], flapping |-> FALSE]
  /\ Quietly /\ UNCHANGED <<rest, heard>>

\* A silence in force whose scope is all among the labels, and is not empty.
Silenced(labels) == \E scope \in muted : scope # {} /\ scope \subseteq labels

\* A flapping alert fires unannounced, before silences are looked at; its
\* state is resolved when it resolves.  An error of the check counts as no
\* silence.
Notify(answered) ==
  /\ eval.pc = "notify" /\ eval' = eval.after
  /\ LET s == eval.about
         how == [out |-> ~eval.flapping /\ ~(answered /\ Silenced(eval.labels)), under |-> muted,
                 flapping |-> eval.flapping]
     IN \/ /\ eval.event = "fired" /\ Quietly
           /\ heard' = IF answered \/ eval.flapping THEN Having(heard, s, how) ELSE heard
        \/ /\ eval.event = "resolved" /\ heard' = Without(heard, s)
           /\ news' = IF answered /\ s \in DOMAIN heard THEN [now |-> how, before |-> heard[s]] ELSE NoNews
  /\ UNCHANGED <<rest, firing>>

EndEval ==
  /\ eval.pc = "work" /\ eval.todo = {} /\ eval.gone = {} /\ eval' = AtRest
  /\ Quietly /\ UNCHANGED <<rest, firing, heard>>

\* A query fails, or the process dies.
EvalStops ==
  /\ eval.pc \in {"query", "live", "notify"} /\ eval' = AtRest
  /\ Quietly /\ UNCHANGED <<rest, firing, heard>>

-----------------------------------------------------------------------------
(* Operators.                                                              *)

Editing == edits < MaxEdits /\ edits' = edits + 1

\* What a request may say; "" leaves alone.
RuleInput == [kind : {"", "threshold", "state"}, expr : {"", "ports", "flows", "unparsed"}, enabled : BOOLEAN]

\* An expression is tried on the backend; a threshold rule is created with one.
ValidRule(in, creating) ==
  /\ creating /\ in.kind # "state" => in.expr # ""
  /\ in.expr # "" => in.expr \in Accepted

Coalesce(new, old) == IF new = "" THEN old ELSE new

CreateAlertRule(in) ==
  /\ alertRule = NoAlertRule /\ ValidRule(in, TRUE) /\ Editing
  /\ alertRule' = [id |-> edits', kind |-> Coalesce(in.kind, "threshold"), expr |-> in.expr,
                   enabled |-> in.enabled, builtin |-> FALSE]
  /\ UNCHANGED <<ifInfo, claims, breaches, muted, firing, eval, news, heard>>

UpdateAlertRule(in) ==
  /\ alertRule # NoAlertRule /\ ValidRule(in, FALSE) /\ Editing
  /\ alertRule' = [alertRule EXCEPT !.kind = Coalesce(in.kind, @), !.expr = Coalesce(in.expr, @),
                                    !.enabled = in.enabled]
  /\ UNCHANGED <<ifInfo, claims, breaches, muted, firing, eval, news, heard>>

DeleteGuard == ~alertRule.builtin

\* The rule goes with its instances.
DeleteAlertRule ==
  /\ alertRule # NoAlertRule /\ DeleteGuard /\ Editing
  /\ alertRule' = NoAlertRule /\ firing' = <<>> /\ heard' = <<>>
  /\ UNCHANGED <<ifInfo, claims, breaches, muted, eval, news>>

MuteScope(scope) ==
  /\ scope # {} /\ Editing /\ muted' = muted \cup {scope}
  /\ UNCHANGED <<ifInfo, claims, breaches, alertRule, firing, eval, news, heard>>

\* Revoked, or past ends_at.
MuteEnds(scope) ==
  /\ scope \in muted /\ Editing /\ muted' = muted \ {scope}
  /\ UNCHANGED <<ifInfo, claims, breaches, alertRule, firing, eval, news, heard>>

-----------------------------------------------------------------------------
(* The network and the inventory sync.                                     *)

BreachChanges(s) ==
  /\ Editing /\ breaches' = IF s \in breaches THEN breaches \ {s} ELSE breaches \cup {s}
  /\ UNCHANGED <<ifInfo, claims, alertRule, muted, firing, eval, news, heard>>

\* A port is renamed, seen in service for the first time, or removed.
PortChanges(p, name) ==
  /\ Editing
  /\ \/ \E up \in BOOLEAN : /\ ifInfo[p] # NoInfo /\ ifInfo[p].up => up
                            /\ ifInfo' = [ifInfo EXCEPT ![p] = [name |-> name, up |-> up]]
     \/ ifInfo' = [ifInfo EXCEPT ![p] = NoInfo]
  /\ UNCHANGED <<claims, breaches, alertRule, muted, firing, eval, news, heard>>

ClaimChanges(d) ==
  /\ Editing /\ claims' = IF d \in claims THEN claims \ {d} ELSE claims \cup {d}
  /\ UNCHANGED <<ifInfo, breaches, alertRule, muted, firing, eval, news, heard>>

NoiseNext ==
  \/ StartEval \/ IdleCycle \/ QueryRule \/ LoadAlerts \/ EndEval \/ EvalStops
  \/ \E answered \in BOOLEAN : ReadInterfaces(answered) \/ Notify(answered)
  \/ \E s \in AlertSeries : FireAlert(s) \/ ResolveAlert(s) \/ BreachChanges(s)
  \/ \E in \in RuleInput : CreateAlertRule(in) \/ UpdateAlertRule(in)
  \/ DeleteAlertRule
  \/ \E scope \in Scopes : MuteScope(scope) \/ MuteEnds(scope)
  \/ \E p \in AlertPorts, name \in IfNames : PortChanges(p, name)
  \/ \E d \in Claimants : ClaimChanges(d)

NoiseSpec == NoiseInit /\ [][NoiseNext]_noiseVars

-----------------------------------------------------------------------------
(* Properties.                                                             *)

\* One fault is one alert, and none is hidden without a cause: a port that has
\* been in service is hidden only below an unbroken line of parents in breach,
\* the topmost of which is reported or has never been in service; and no port
\* is reported beside the parent it hangs off (suppressNoise).
HiddenHasCause ==
  eval.pc = "live" =>
    LET Is(p, name) == eval.ifaces[p] # NoInfo /\ eval.ifaces[p].name = name
        InBreach(name) == \E p \in eval.series \cap AlertPorts : Is(p, name)
    IN \A s \in eval.series \cap AlertPorts :
         IF s \in eval.kept
         THEN eval.ifaces[s] = NoInfo
              \/ ~\E p \in eval.kept : Is(p, parentInterface(eval.ifaces[s].name)) /\ Len(eval.ifaces[p].name) > 0
         ELSE /\ eval.ifaces[s] # NoInfo
              /\ eval.ifaces[s].up =>
                   LET name == eval.ifaces[s].name
                   IN \E top \in 1..(Len(name) - 1) :
                        /\ \A n \in top..(Len(name) - 1) : InBreach(SubSeq(name, 1, n))
                        /\ \E p \in eval.series \cap AlertPorts :
                             Is(p, SubSeq(name, 1, top)) /\ (p \in eval.kept \/ ~eval.ifaces[p].up)

\* Whoever was told that an alert fired is told that it resolved, and whoever
\* was not is not, unless silences began or ended in between or could not be
\* read, or the alert was flapping: its firing is kept quiet and its resolution
\* is not.  A rename, a new claim on the exporter or an edited rule does not
\* tear the two notices apart (notify, Silenced and the labels Fire stores).
SilenceHolds ==
  news # NoNews =>
    /\ news.now.out /\ ~news.before.out /\ ~news.before.flapping => ~(news.before.under \subseteq news.now.under)
    /\ ~news.now.out /\ news.before.out => ~(news.now.under \subseteq news.before.under)
=============================================================================
