------------------------------- MODULE Maps_MC --------------------------------
(* TLC instance of Maps: three devices with a port each.                   *)
EXTENDS Maps

CONSTANTS k1, k2   \* requests

MCMapCalls == {k1, k2}
MCPortDevice == [p1 |-> 1, p2 |-> 2, p3 |-> 3]

\* 1 hears 3 over LLDP; what 3 hears is nothing NetInv manages.
MCAdjacencies == {[a |-> 1, port |-> "p1", b |-> 3], [a |-> 3, port |-> NoPort, b |-> NoPeer]}

\* A name within a longer one, and one that two devices share and that is
\* too short to be looked for inside a text.
MCDeviceNames == <<[name |-> <<"core", "1">>, sysName |-> <<>>],
                   [name |-> <<"core">>, sysName |-> <<<<"gw">>, <<"lan">>>>],
                   [name |-> <<"gw">>, sysName |-> <<>>]>>
MCPortText == [p1 |-> <<"gw">>, p2 |-> <<"to", "core", "1">>, p3 |-> <<"core", "1">>]
MCWordLength == [w \in {"to", "core", "gw", "lan", "1"} |->
                   CASE w = "1" -> 1 [] w = "core" -> 4 [] w = "lan" -> 3 [] OTHER -> 2]

\* Two documents whose link is bound at one end and at the other.
Link(a, b) == [from |-> 1, to |-> 2, a |-> a, b |-> b]
MCDrawings == {[nodes |-> {1, 2}, links |-> <<Link([dev |-> 1, idx |-> 1], NoEnd)>>],
               [nodes |-> {1, 2}, links |-> <<Link(NoEnd, [dev |-> 2, idx |-> 1])>>]}

MapsStart == MapsInit /\ ports = [p \in PortRows |-> [idx |-> 1, state |-> "present"]]
MapsOnly == MapsStart /\ mapCalls = 0 /\ [][MapsNext]_mapsVars
=============================================================================
