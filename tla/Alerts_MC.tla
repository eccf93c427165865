------------------------------ MODULE Alerts_MC -------------------------------
(* TLC instances of the alerter: the life of an alert, and which series    *)
(* become alerts.                                                          *)
EXTENDS AlertLifecycle_MC, AlertNoise

\* A port, a subinterface and one within it.
MCIfNames == {<<>>, <<"e">>, <<"e", "1">>, <<"e", "1", "2">>}
MCScopes == {{}, {<<"if_name", <<"e", "1">>>>}, {<<"device", "gw">>}}
Called(name) == [name : {name}, up : BOOLEAN]

\* The two parts share no state here: a behaviour is one of one part, while
\* the other rests.
VARIABLE part

\* Every shape of breaches and names at once; or one of them, while operators
\* and the network change it.
NoiseStart ==
  /\ NoiseInit /\ ~alertRule.builtin /\ claims = {} /\ Cardinality(muted) < 2
  /\ \/ /\ edits = MaxEdits /\ alertRule.expr = "ports" /\ muted = {} /\ Exporter \notin breaches
        /\ ifInfo[1] \in Called(<<"e">>) \cup {NoInfo} /\ ifInfo[2] \in Called(<<"e", "1">>) \cup Called(<<"e">>)
        /\ ifInfo[3] \in Called(<<"e", "1", "2">>) \cup Called(<<"e", "1">>) \cup Called(<<>>)
     \/ /\ edits = 0 /\ breaches = IF alertRule.expr = "ports" THEN {2} ELSE {Exporter}
        /\ ifInfo = <<[name |-> <<"e">>, up |-> TRUE], [name |-> <<"e", "1">>, up |-> TRUE], NoInfo>>
  /\ part # "noise" => edits = 0 /\ muted = {} /\ alertRule.expr = "ports"

AlertsInit == part \in {"life", "noise"} /\ Init /\ NoiseStart

AlertsNext ==
  \/ part = "life" /\ Next /\ UNCHANGED <<noiseVars, part>>
  \/ part = "noise" /\ NoiseNext /\ UNCHANGED <<vars, part>>

AlertsSpec == AlertsInit /\ [][AlertsNext]_<<vars, noiseVars, part>>
=============================================================================
