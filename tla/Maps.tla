--------------------------------- MODULE Maps ---------------------------------
(***************************************************************************)
(* Weathermaps: a map's revisions, the interfaces its published links are  *)
(* bound to, and the draft generated from neighbours and port descriptions *)
(* (internal/maps/store.go, generate.go, describe.go, http.go).            *)
(*                                                                         *)
(* One map.  A document is the devices it places and its links, each       *)
(* between two of them with a port bound at either end or not; positions,  *)
(* handles and labels are left out.  A request is a few statements:        *)
(* between two of them other requests and the inventory sync run.          *)
(***************************************************************************)
EXTENDS Naturals, Sequences, FiniteSets, SequencesExt

CONSTANTS
  MapDevices,    \* device ids, numbers: they are ordered
  PortRows,      \* interface row ids
  PortDevice,    \* the device of each
  Indexes,       \* ifIndexes
  Adjacencies,   \* active LLDP links [a, port, b]: what a heard on its port
  DeviceNames,   \* device -> [name, sysName]: words, and the words of each label
  PortText,      \* row -> alias and description, as words
  WordLength,    \* word -> letters
  Drawings,      \* documents an editor may save
  MapCalls,      \* request slots
  NoPort, NoPeer,
  MaxMapCalls

ASSUME MapsAssumption ==
  /\ MapDevices \subseteq Nat \ {0} /\ Indexes \subseteq Nat \ {0}
  /\ PortDevice \in [PortRows -> MapDevices] /\ MaxMapCalls \in Nat
  /\ IsFiniteSet(MapDevices) /\ NoPeer \notin MapDevices
  /\ Adjacencies \subseteq [a : MapDevices, port : PortRows \cup {NoPort}, b : MapDevices \cup {NoPeer}]
  /\ \A t \in Adjacencies : t.port # NoPort => t.port \in PortRows /\ PortDevice[t.port] = t.a
  /\ WordLength \in [DOMAIN WordLength -> Nat]
  /\ DeviceNames \in [MapDevices -> [name : Seq(DOMAIN WordLength), sysName : Seq(Seq(DOMAIN WordLength))]]

VARIABLES
  mapPub,     \* maps.published_rev
  revs,       \* map_revisions: rev -> [state, def], none without a map
  mapLinks,   \* map_links: <<link, side>> -> row id
  ports,      \* row -> [idx, state]
  mapReq,     \* requests under way
  mapCalls

mapsVars == <<mapPub, revs, mapLinks, ports, mapReq, mapCalls>>

NoMap == revs = <<>>   \* a map has a revision from the first
NoEnd == [dev |-> 0, idx |-> 0]
Waits == [pc |-> "wait"]
EmptyDoc == [nodes |-> {}, links |-> <<>>]
MinKeyLen == 3

Revise(f, x, v) == [y \in DOMAIN f \cup {x} |-> IF y = x THEN v ELSE f[y]]

MapsInit ==
  /\ mapPub = 0 /\ revs = <<>> /\ mapLinks = <<>>
  /\ ports \in {f \in [PortRows -> [idx : Indexes, state : {"present"}]] :
                  \A p, q \in PortRows : PortDevice[p] = PortDevice[q] /\ f[p].idx = f[q].idx => p = q}
  /\ mapReq = [c \in MapCalls |-> Waits] /\ mapCalls \in {0, MaxMapCalls}

Calling == mapCalls < MaxMapCalls /\ mapCalls' = mapCalls + 1
Reply(c) == mapReq' = [mapReq EXCEPT ![c] = Waits]
Goto(c, next) == mapReq' = [mapReq EXCEPT ![c] = next]

-----------------------------------------------------------------------------
(* Links inferred from what operators wrote on their ports.                *)

\* A name that is left without words is not one.
Key(words) == IF words = <<>> THEN <<>> ELSE <<words>>

\* The name, the sysName, and its first label where it looks like an FQDN; one
\* that repeats another weighs nothing more, so it is not left out.
deviceKeys(d) ==
  LET sys == DeviceNames[d].sysName
  IN Key(DeviceNames[d].name) \o Key(FlattenSeq(sys)) \o IF Len(sys) > 1 THEN Key(sys[1]) ELSE <<>>

containsSeq(text, key) ==
  \E i \in 0..(Len(text) - Len(key)) : key # <<>> /\ SubSeq(text, i + 1, i + Len(key)) = key

KeyLength(key) == FoldLeft(LAMBDA n, w : n + WordLength[w], 0, key)

\* Short names count only where they are the whole text.
NamedIn(text, key) ==
  containsSeq(text, key) /\ (KeyLength(key) >= MinKeyLen \/ Len(text) = Len(key))

\* Variant: a tie is not noticed.
Better(best, d, n) ==
  IF n > best.len THEN [dev |-> d, len |-> n, tied |-> FALSE] ELSE best

\* One more name found in the text: the longest wins, two devices tie.
Weigh(best, d, n) ==
  IF n > best.len THEN [dev |-> d, len |-> n, tied |-> FALSE]
  ELSE IF n = best.len /\ d # best.dev THEN [best EXCEPT !.tied = TRUE]
  ELSE best

WeighKeys(text, best, d) ==
  FoldLeft(LAMBDA b, key : IF NamedIn(text, key) THEN Weigh(b, d, KeyLength(key)) ELSE b,
           best, deviceKeys(d))

\* The devices as the query lists them, in no set order.
WeighDevices(text, devices, exclude) ==
  FoldLeft(LAMBDA b, d : IF d = exclude THEN b ELSE WeighKeys(text, b, d),
           [dev |-> NoPeer, len |-> 0, tied |-> FALSE], devices)

matchDevice(text, devices, exclude) ==
  LET found == WeighDevices(text, devices, exclude) IN IF found.tied THEN NoPeer ELSE found.dev

\* How each device's present ports describe each other device.
Claims(devices) ==
  {[a |-> PortDevice[p], idx |-> ports[p].idx, b |-> matchDevice(PortText[p], devices, PortDevice[p])] :
     p \in {q \in PortRows : ports[q].state = "present"}}

\* One suggestion for a pair of devices: the first port found at either end.
\* The port of the other end is shown to the editor and not drawn.
SuggestFromDescriptions(devices) == {s \in Claims(devices) : s.b # NoPeer}

-----------------------------------------------------------------------------
(* The generated draft.                                                    *)

Between(s) == {s.a, s.b}

\* The adjacencies, with the ports as they were when those were read.
FromLLDP(was) ==
  {[a |-> t.a, idx |-> IF t.port = NoPort THEN 0 ELSE was[t.port].idx, b |-> t.b] : t \in Adjacencies}

\* LLDP first; a description adds a pair LLDP does not know.  Which suggestion
\* of a pair comes first is the order of a Go map.
Suggestions(devices, was) ==
  LET new == {s \in SuggestFromDescriptions(devices) : \A t \in FromLLDP(was) : Between(s) # Between(t)}
      pairs == {Between(s) : s \in new}
  IN {FromLLDP(was) \cup {pick[pr] : pr \in pairs} :
        pick \in {f \in [pairs -> new] : \A pr \in pairs : Between(f[pr]) = pr}}

\* Pairs of devices in ascending order.
Sorted(pairs) ==
  {f \in SetToSeqs(pairs) : \A i, j \in DOMAIN f : i < j =>
     f[i][1] < f[j][1] \/ (f[i][1] = f[j][1] /\ f[i][2] < f[j][2])}

\* An end is bound to a port its own device reported, the last one listed.
EndsSeen(drawn, x, y) ==
  LET seen == {s.idx : s \in {t \in drawn : t.a = x /\ t.b = y /\ t.idx > 0}}
  IN IF seen = {} THEN {NoEnd} ELSE {[dev |-> x, idx |-> i] : i \in seen}

LinkOf(drawn, k) ==
  {[from |-> k[1], to |-> k[2], a |-> a, b |-> b] :
     a \in EndsSeen(drawn, k[1], k[2]), b \in EndsSeen(drawn, k[2], k[1])}

\* The documents the suggestions may become: one link for a pair.
BuildTopologyDefinition(sugs) ==
  LET drawn == {s \in sugs : s.b # NoPeer /\ s.a # s.b}
      nodes == UNION {Between(s) : s \in drawn}
      pairs == {k \in nodes \X nodes : k[1] < k[2] /\ \E s \in drawn : Between(s) = {k[1], k[2]}}
  IN {[nodes |-> nodes, links |-> ls] :
        ls \in UNION {{f \in [DOMAIN keys -> UNION {LinkOf(drawn, k) : k \in pairs}] :
                         \A i \in DOMAIN keys : f[i] \in LinkOf(drawn, keys[i])} : keys \in Sorted(pairs)}}

Generated(was) ==
  UNION {UNION {BuildTopologyDefinition(sugs) : sugs \in Suggestions(devices, was)} :
           devices \in SetToSeqs(MapDevices)}

-----------------------------------------------------------------------------
(* Revisions.                                                              *)

Drafts == {r \in DOMAIN revs : revs[r].state = "draft"}
Newest(S) == CHOOSE r \in S : \A q \in S : q <= r

\* A link joins nodes that are on the map.
ValidDoc(def) == \A l \in DOMAIN def.links : {def.links[l].from, def.links[l].to} \subseteq def.nodes

\* A map made again has an id of its own: no request of the old one is left.
CreateRows ==
  /\ \A c \in MapCalls : mapReq[c].pc \in {"wait", "suggest"}
  /\ mapPub' = 0 /\ revs' = [r \in {1} |-> [state |-> "draft", def |-> EmptyDoc]]

CreateMap ==
  /\ NoMap /\ Calling /\ CreateRows
  /\ UNCHANGED <<mapLinks, ports, mapReq>>

Saving(def, rs) ==
  LET ds == {r \in DOMAIN rs : rs[r].state = "draft"}
  IN [pc |-> "save", def |-> def, rev |-> IF ds = {} THEN 0 ELSE Newest(ds)]

\* A draft is asked for, and the adjacencies are read.
GenerateFromTopology(c) ==
  /\ NoMap /\ mapReq[c] = Waits /\ Calling /\ Goto(c, [pc |-> "suggest", was |-> ports])
  /\ UNCHANGED <<mapPub, revs, mapLinks, ports>>

\* The descriptions are read.  Refused where there is nothing to draw; else the
\* map is created and saved.
CreateGenerated(c, def) ==
  /\ NoMap /\ mapReq[c].pc = "suggest"
  /\ IF def.nodes = {} THEN Reply(c) /\ UNCHANGED <<mapPub, revs>>
     ELSE CreateRows /\ Goto(c, Saving(def, revs'))
  /\ UNCHANGED <<mapLinks, ports, mapCalls>>

\* The UPDATE picks the newest draft, then waits for its row.
SaveDraft(c, def) ==
  /\ mapReq[c] = Waits /\ Calling /\ ValidDoc(def) /\ Goto(c, Saving(def, revs))
  /\ UNCHANGED <<mapPub, revs, mapLinks, ports>>

\* Variant: the row is written whatever became of it.
Writable(rev) == rev \in DOMAIN revs

\* Looked at again once the row is free.
StillDraft(rev) == rev \in DOMAIN revs /\ revs[rev].state = "draft"

UpdateDraft(c) ==
  /\ mapReq[c].pc = "save"
  /\ IF StillDraft(mapReq[c].rev)
     THEN revs' = [revs EXCEPT ![mapReq[c].rev].def = mapReq[c].def] /\ Reply(c)
     ELSE revs' = revs /\ Goto(c, [pc |-> "open", def |-> mapReq[c].def])
  /\ UNCHANGED <<mapPub, mapLinks, ports, mapCalls>>

\* No draft was left: one is opened, unless the map is gone.
OpenDraft(c) ==
  /\ mapReq[c].pc = "open" /\ Reply(c)
  /\ revs' = IF NoMap THEN revs
             ELSE Revise(revs, Newest(DOMAIN revs \cup {0}) + 1, [state |-> "draft", def |-> mapReq[c].def])
  /\ UNCHANGED <<mapPub, mapLinks, ports, mapCalls>>

DeleteMap ==
  /\ ~NoMap /\ Calling
  /\ mapPub' = 0 /\ revs' = <<>> /\ mapLinks' = <<>>
  /\ UNCHANGED <<ports, mapReq>>

-----------------------------------------------------------------------------
(* Publish.                                                                *)

BoundEnds(def) == {e \in (DOMAIN def.links) \X {"a", "b"} : def.links[e[1]][e[2]] # NoEnd}

\* Load: the newest draft.
Publish(c) ==
  /\ mapReq[c] = Waits /\ Calling /\ Drafts # {}
  /\ LET r == Newest(Drafts) IN Goto(c, [pc |-> "prior", rev |-> r, def |-> revs[r].def])
  /\ UNCHANGED <<mapPub, revs, mapLinks, ports>>

linkBindings(c) ==
  /\ mapReq[c].pc = "prior"
  /\ Goto(c, [pc |-> "bind", rev |-> mapReq[c].rev, def |-> mapReq[c].def, prior |-> mapLinks,
              left |-> BoundEnds(mapReq[c].def), bound |-> <<>>, healed |-> FALSE])
  /\ UNCHANGED <<mapPub, revs, mapLinks, ports, mapCalls>>

\* The end e is bound to row p, in the document def.
Took(q, e, p, def) ==
  [q EXCEPT !.left = @ \ {e}, !.bound = Revise(@, e, p), !.def = def, !.healed = @ \/ def # q.def]

\* The port of row p, as a document names it.
EndOf(p) == [dev |-> PortDevice[p], idx |-> ports[p].idx]

\* One end: the row it was bound to while that is not removed, and the document
\* is put right; else the row its device and ifIndex name.
BindEnd(c, e) ==
  /\ mapReq[c].pc = "bind" /\ e \in mapReq[c].left
  /\ LET q == mapReq[c]
         end == q.def.links[e[1]][e[2]]
         kept == {q.prior[x] : x \in {e} \cap DOMAIN q.prior} \cap {p \in PortRows : ports[p].state # "removed"}
         named == {p \in PortRows : ports[p].state # "removed" /\ end = EndOf(p)}
     IN IF kept # {}
        THEN \E p \in kept : Goto(c, Took(q, e, p, [q.def EXCEPT !.links[e[1]][e[2]] = EndOf(p)]))
        ELSE IF named # {} THEN \E p \in named : Goto(c, Took(q, e, p, q.def))
        ELSE Reply(c)
  /\ UNCHANGED <<mapPub, revs, mapLinks, ports, mapCalls>>

\* The next draft's row is new; a map that is gone has no revisions.
FreshDraft(rev) == ~NoMap /\ rev + 1 \notin DOMAIN revs

\* One transaction; a conflict on the next draft undoes it all.
CommitPublish(c) ==
  LET q == mapReq[c]
      kept == IF q.healed THEN q.def ELSE revs[q.rev].def
  IN /\ q.pc = "bind" /\ q.left = {} /\ Reply(c)
     /\ IF FreshDraft(q.rev)
        THEN /\ mapPub' = q.rev /\ mapLinks' = q.bound
             /\ revs' = Revise(Revise(revs, q.rev, [state |-> "published", def |-> kept]),
                               q.rev + 1, [state |-> "draft", def |-> q.def])
        ELSE UNCHANGED <<mapPub, mapLinks, revs>>
     /\ UNCHANGED <<ports, mapCalls>>

-----------------------------------------------------------------------------
(* The inventory sync, between any two statements.                         *)

PortFound(p, i) ==
  /\ Calling /\ ports[p].state # "removed" /\ ports[p] # [idx |-> i, state |-> "present"]
  /\ \A q \in PortRows \ {p} : PortDevice[q] = PortDevice[p] /\ ports[q].idx = i => ports[q].state = "removed"
  /\ ports' = [ports EXCEPT ![p] = [idx |-> i, state |-> "present"]]
  /\ UNCHANGED <<mapPub, revs, mapLinks, mapReq>>

\* Missing at first, and removed after some syncs more.
PortGoes(p) ==
  /\ Calling /\ ports[p].state # "removed"
  /\ ports' = [ports EXCEPT ![p].state = IF @ = "present" THEN "missing" ELSE "removed"]
  /\ UNCHANGED <<mapPub, revs, mapLinks, mapReq>>

MapsNext ==
  \/ CreateMap \/ DeleteMap
  \/ \E c \in MapCalls :
       \/ UpdateDraft(c) \/ OpenDraft(c) \/ Publish(c) \/ linkBindings(c) \/ CommitPublish(c)
       \/ GenerateFromTopology(c)
       \/ NoMap /\ mapReq[c].pc = "suggest" /\ \E def \in Generated(mapReq[c].was) : CreateGenerated(c, def)
       \/ \E def \in Drawings : SaveDraft(c, def)
       \/ mapReq[c].pc = "bind" /\ \E e \in mapReq[c].left : BindEnd(c, e)
  \/ \E p \in PortRows : PortGoes(p) \/ \E i \in Indexes : PortFound(p, i)

MapsSpec == MapsInit /\ [][MapsNext]_mapsVars

-----------------------------------------------------------------------------
(* Properties.                                                             *)

\* "A published MapRevision is immutable": whoever saves or publishes at the
\* same time, a published document is never written again while its map
\* exists (docs/15-entity-model.md; SaveDraft looks at the state again,
\* racing publishes collide on the next draft).
PublishedImmutable ==
  [][\A r \in DOMAIN revs :
       revs[r].state = "published" /\ ~NoMap' => r \in DOMAIN revs' /\ revs'[r] = revs[r]]_mapsVars

\* Devices the text names, each with its longest name found there.
Found(p) == {dk \in (MapDevices \ {PortDevice[p]}) \X UNION {Range(deviceKeys(d)) : d \in MapDevices} :
               dk[2] \in Range(deviceKeys(dk[1])) /\ NamedIn(PortText[p], dk[2])}
NamesOnly(p, d) ==
  \E dk \in Found(p) : dk[1] = d /\ \A x \in Found(p) :
    x[1] # d => KeyLength(x[2]) < KeyLength(dk[2])

\* A port of own at that index faces far by an LLDP adjacency, or is present
\* and described by a text that names far better than any third device.
Faces(was, own, far, idx) ==
  \E p \in PortRows :
    /\ PortDevice[p] = own
    /\ \/ was[p].idx = idx /\ [a |-> own, port |-> p, b |-> far] \in Adjacencies
       \/ ports[p].idx = idx /\ ports[p].state = "present" /\ NamesOnly(p, far)

\* A generated end is bound to a port of its own device that faces the other
\* end, at the index it had when that was read, in whatever order devices were
\* listed and whatever a sync does in between (GenerateFromTopology over
\* Suggestions).  Several comments and docs/09 have the draft come from LLDP
\* alone.
GeneratedIsReported ==
  \A c \in MapCalls : NoMap /\ mapReq[c].pc = "suggest" =>
    \A def \in Generated(mapReq[c].was) : \A e \in BoundEnds(def) :
      LET l == def.links[e[1]]
          own == IF e[2] = "a" THEN l.from ELSE l.to
          far == IF e[2] = "a" THEN l.to ELSE l.from
      IN l[e[2]].dev = own /\ Faces(mapReq[c].was, own, far, l[e[2]].idx)

\* "Extraction of interface bindings from the published revision, maintained
\* transactionally on publish" (docs/08-database-design.md): map_links binds
\* the ends that the published document binds.  A draft saved while Publish
\* is resolving is published without its bindings.
LinksAreThePublished ==
  mapPub # 0 => DOMAIN mapLinks = BoundEnds(revs[mapPub].def)
=============================================================================
