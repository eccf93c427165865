-------------------------- MODULE InterfaceCustomers --------------------------
(***************************************************************************)
(* Who a port is billed to: the rule that assigns a customer to every      *)
(* interface whose text matches, and the import that names each port       *)
(* (inventory/adapters/postgres/interfacematch.go and interfacetags.go,    *)
(* inventory/adapters/httpapi/devices.go).                                 *)
(*                                                                         *)
(* A text is a sequence of the characters a pattern tells apart: a letter  *)
(* in two cases, another one, _ and %, and the escape.  Tags travel with   *)
(* the customer and are left out.  Removed interfaces and retired devices  *)
(* are not among the ports.                                                *)
(***************************************************************************)
EXTENDS Naturals, Sequences, FiniteSets, SequencesExt

CONSTANTS
  Ports,           \* interfaces
  PortName,        \* [dev, addr, idx, name] of each, as spelled
  Aliases, Descrs, \* what operators wrote on the ports
  Customers,       \* customer names
  Conditions,      \* conditions a rule may be made of
  Also,            \* a second condition
  MaxConditions,
  MaxWrites        \* bound on rules and imports

\* A sequence of characters.
IsText(t) == t \in Seq({t[i] : i \in DOMAIN t})

ASSUME CustomersAssumption ==
  /\ MaxConditions \in Nat /\ MaxWrites \in Nat /\ <<>> \notin Customers
  /\ \A t \in Aliases \cup Descrs \cup {PortName[p].name : p \in Ports} : IsText(t)
  /\ \A c \in Conditions \cup {Also} : c.field \in {"any", "name", "alias", "descr"} /\ IsText(c.value)

VARIABLES
  texts,      \* alias and descr of each port
  customer,   \* interfaces.customer, <<>> when none
  rule,       \* the rule under way
  writes

customerVars == <<texts, customer, rule, writes>>

NoRule == [pc |-> "none"]
ClearToken == <<"-">>

CustomersInit ==
  /\ texts \in [Ports -> [alias : Aliases, descr : Descrs]]
  /\ customer = [p \in Ports |-> <<>>]
  /\ rule = NoRule /\ writes \in 0..MaxWrites

Writing == writes < MaxWrites /\ writes' = writes + 1

-----------------------------------------------------------------------------
(* Matching.                                                               *)

Lower(t) == [i \in DOMAIN t |-> IF t[i] = "A" THEN "a" ELSE t[i]]

\* Variant: the operator's underscore is left a wildcard.
likePatternRaw(s) == IF Contains(s, "%") THEN s ELSE <<"%">> \o s \o <<"%">>

\* Text without a % is looked for anywhere; _ and \ stand for themselves.
likePattern(s) ==
  LET esc == FlattenSeq([i \in DOMAIN s |-> IF s[i] \in {"_", "\\"} THEN <<"\\", s[i]>> ELSE <<s[i]>>])
  IN IF Contains(esc, "%") THEN esc ELSE <<"%">> \o esc \o <<"%">>

onlyWildcards(s) == \A i \in DOMAIN s : s[i] \in {"%", "_", " "}

\* The text from its i-th character on is like the pattern from its j-th on,
\* m telling of what is left of both.
LikeFrom(m, t, p, i, j) ==
  IF j > Len(p) THEN i > Len(t)
  ELSE IF p[j] = "%" THEN m[<<i, j + 1>>] \/ (i <= Len(t) /\ m[<<i + 1, j>>])
  ELSE /\ i <= Len(t)
       /\ IF p[j] = "\\" THEN j < Len(p) /\ t[i] = p[j + 1] /\ m[<<i + 1, j + 2>>]
          ELSE p[j] \in {"_", t[i]} /\ m[<<i + 1, j + 1>>]

\* t ILIKE p ESCAPE '\'.
ILike(t, p) ==
  LET m[x \in (1..(Len(t) + 1)) \X (1..(Len(p) + 1))] == LikeFrom(m, t, p, x[1], x[2])
  IN m[<<1, 1>>]

Columns(p, field) == IF field = "any" THEN {texts[p].alias, texts[p].descr, PortName[p].name}
                     ELSE IF field = "name" THEN {PortName[p].name} ELSE {texts[p][field]}

\* A condition without a value, or of wildcards alone, is refused.
Refused(c) == c.value = <<>> \/ (c.op = "like" /\ onlyWildcards(c.value))

condClause(p, c) ==
  \E t \in Columns(p, c.field) :
    IF c.op = "eq" THEN Lower(t) = Lower(c.value)
    ELSE ILike(Lower(t), likePattern(Lower(c.value)))

Matched(conds) == {p \in Ports : \A i \in DOMAIN conds : condClause(p, conds[i])}

-----------------------------------------------------------------------------
(* AssignByMatch.                                                          *)

\* Held by another customer, and the rule does not take it.
Skips(p, asked) ==
  /\ ~asked.overwrite /\ asked.to # ClearToken
  /\ customer[p] # <<>> /\ Lower(customer[p]) # Lower(asked.to)

Assigned(to) == IF to = ClearToken THEN <<>> ELSE to

\* One condition, or a second one with it.
MatchRule ==
  [conds : {<<c>> : c \in Conditions} \cup {<<c, Also>> : c \in Conditions},
   to : Customers \cup {ClearToken}, overwrite : BOOLEAN, apply : BOOLEAN]

\* The selection; an error, a preview and a rule that selects nothing end here.
SelectPorts(asked) ==
  /\ rule = NoRule /\ Writing
  /\ LET matched == Matched(asked.conds)
         ids == {p \in matched : ~Skips(p, asked)}
         valid == Len(asked.conds) <= MaxConditions /\ \A i \in DOMAIN asked.conds : ~Refused(asked.conds[i])
     IN rule' = IF valid THEN [pc |-> IF asked.apply /\ ids # {} THEN "update" ELSE "shown",
                               conds |-> asked.conds, to |-> asked.to, ids |-> ids, matched |-> matched]
                ELSE NoRule
  /\ UNCHANGED <<texts, customer>>

\* The update, in a transaction of its own, by id.
UpdatePorts ==
  /\ rule.pc = "update" /\ rule' = NoRule
  /\ customer' = [p \in Ports |-> IF p \in rule.ids THEN Assigned(rule.to) ELSE customer[p]]
  /\ UNCHANGED <<texts, writes>>

ShowRule == rule.pc = "shown" /\ rule' = NoRule /\ UNCHANGED <<texts, customer, writes>>

-----------------------------------------------------------------------------
(* ApplyTags.                                                              *)

\* A device by name or address, a port by name or ifIndex, names in any case.
findInterfaceIDs(dev, iface) ==
  {p \in Ports : /\ Lower(dev) = Lower(PortName[p].dev) \/ dev = PortName[p].addr
                 /\ Lower(iface) = Lower(PortName[p].name) \/ iface = PortName[p].idx}

\* Row by row in one transaction; a row that fits no port, or several, is
\* reported and passed over, a row without a customer changes nothing.
Imported(rows) ==
  LET after[i \in 0..Len(rows)] ==
        IF i = 0 THEN customer
        ELSE LET ids == findInterfaceIDs(rows[i].dev, rows[i].iface)
             IN [p \in Ports |-> IF ids = {p} /\ rows[i].to # <<>> THEN Assigned(rows[i].to) ELSE after[i - 1][p]]
  IN after[Len(rows)]

ApplyTags(rows) ==
  /\ rows # <<>> /\ Writing
  /\ customer' = Imported(rows)
  /\ UNCHANGED <<texts, rule>>

-----------------------------------------------------------------------------

Rows == [dev : UNION {{PortName[p].dev, Lower(PortName[p].dev), PortName[p].addr} : p \in Ports},
         iface : UNION {{PortName[p].name, PortName[p].idx} : p \in Ports},
         to : Customers \cup {ClearToken, <<>>}]

CustomersNext ==
  \/ \E asked \in MatchRule : SelectPorts(asked)
  \/ UpdatePorts \/ ShowRule
  \/ \E row \in Rows : ApplyTags(<<row>>)

CustomersSpec == CustomersInit /\ [][CustomersNext]_customerVars

-----------------------------------------------------------------------------
(* Properties.                                                             *)

\* What the operator means by s: each typed character, case aside, at a place
\* of its own, in order, adjacent where nothing was typed between; % leaves a
\* gap, and without any % the text may lie anywhere.
Means(t, s) ==
  LET typed == {i \in DOMAIN s : s[i] # "%"}
      anywhere == typed = DOMAIN s
  IN \E at \in [typed -> 1..Len(t)] :
       /\ \A i \in typed : t[at[i]] = s[i]
       /\ \A i, j \in typed : i < j => at[i] < at[j]
       /\ \A i \in typed : i + 1 \in typed => at[i + 1] = at[i] + 1
       /\ anywhere \/ \A i \in typed : (i = 1 => at[i] = 1) /\ (i = Len(s) => at[i] = Len(t))

\* A rule previews and takes exactly the ports whose text is what was typed:
\* _ is a character like any other, % a gap, and every condition counts
\* (likePattern, condClause, AssignByMatch).
SelectsWhatWasTyped ==
  rule # NoRule =>
    rule.matched = {p \in Ports : \A i \in DOMAIN rule.conds :
                      \E t \in Columns(p, rule.conds[i].field) :
                        IF rule.conds[i].op = "eq" THEN Lower(t) = Lower(rule.conds[i].value)
                        ELSE Means(Lower(t), Lower(rule.conds[i].value))}
=============================================================================
