--------------------------- MODULE Management_proofs ---------------------------
(***************************************************************************)
(* What is proved of the parts operators and devices reach from outside,   *)
(* for every value of their constants: pollers joining, published maps and *)
(* the figures shown on them, the catalogue of devices, the customers of   *)
(* ports.  The parts share no state: each has an inductive invariant of    *)
(* its own.                                                                *)
(***************************************************************************)
EXTENDS InventoryCatalog, Enrolment, Maps, LiveView, InterfaceCustomers, FiniteSetTheorems, SequenceTheorems, WellFoundedInduction, TLAPS

-----------------------------------------------------------------------------
(* Numbers.                                                                *)

LEMMA LeastOf ==
  ASSUME NEW A \in SUBSET Nat, A # {}
  PROVE  \E m \in A : \A x \in A : m <= x
<1> DEFINE R == OpToRel(<, Nat)
<1>1. IsWellFoundedOn(R, Nat)
  BY NatLessThanWellFounded
<1>2. \A x, y \in Nat : x < y => <<x, y>> \in R
  BY DEF OpToRel
<1> HIDE DEF R
<1>3. PICK m \in A : \A y \in A : ~(<<y, m>> \in R)
  BY <1>1, WFMin
<1>4. ASSUME NEW x \in A PROVE m <= x
  <2>1. x \in Nat /\ m \in Nat
    OBVIOUS
  <2>2. ~(x < m)
    BY <1>2, <1>3, <2>1
  <2> QED BY <2>1, <2>2
<1> QED BY <1>4

LEMMA MaxOf ==
  ASSUME NEW n \in Nat, NEW A \in SUBSET (1..n), A # {}
  PROVE  Max(A) \in A /\ \A x \in A : x <= Max(A)
<1> DEFINE B == {n - x : x \in A}
<1>0. \A x \in A : x \in Nat /\ n - x \in Nat
  OBVIOUS
<1>1. B \in SUBSET Nat /\ B # {}
  BY <1>0
<1>2. PICK b \in B : \A x \in B : b <= x
  <2> HIDE DEF B
  <2> QED BY <1>1, LeastOf
<1>3. PICK m \in A : b = n - m
  BY <1>2
<1>4. \A x \in A : m >= x
  BY <1>0, <1>2, <1>3
<1>5. \E x \in A : \A y \in A : x >= y
  BY <1>4
<1>6. Max(A) \in A /\ \A y \in A : Max(A) >= y
  BY <1>5 DEF Max
<1> QED BY <1>6

\* A set of numbers that has 0 and, with each below n, the next.
LEMMA UpToAll ==
  ASSUME NEW n \in Nat, NEW A, 0 \in A, \A i \in 0..(n - 1) : i \in A => i + 1 \in A
  PROVE  0..n \subseteq A
<1> SUFFICES ASSUME (0..n) \ A # {} PROVE FALSE
  OBVIOUS
<1>1. (0..n) \ A \in SUBSET Nat
  OBVIOUS
<1>2. PICK m \in (0..n) \ A : \A x \in (0..n) \ A : m <= x
  BY <1>1, LeastOf
<1>3. m # 0 /\ m \in Nat
  BY <1>2
<1>4. m - 1 \in 0..(n - 1) /\ m - 1 \in 0..n
  BY <1>2, <1>3
<1>5. m - 1 \in A
  BY <1>2, <1>3, <1>4
<1>6. (m - 1) + 1 \in A
  BY <1>4, <1>5
<1> QED BY <1>2, <1>3, <1>6

-----------------------------------------------------------------------------
(* Folds.                                                                  *)

\* One step of a fold, with the element x of its sequence.
FoldStep(what, a, x, v) ==
  IF what = "letters" THEN v + WordLength[a[x]]
  ELSE IF what = "keys" THEN (IF NamedIn(a.text, a.keys[x]) THEN Weigh(v, a.dev, KeyLength(a.keys[x])) ELSE v)
  ELSE IF what = "devices" THEN (IF a.devices[x] = a.exclude THEN v ELSE WeighKeys(a.text, v, a.devices[x]))
  ELSE v \o a[x]

\* The values a fold goes through.
Runs(r, what, a, b, n) == r[0] = b /\ \A i \in 1..n : r[i] = FoldStep(what, a, i, r[i - 1])

FoldsTo(v, what, a, b, n) == \E r : Runs(r, what, a, b, n) /\ r[n] = v

Iterate(it, what, a, b, s) ==
  IF s = {} THEN b ELSE FoldStep(what, a, Max(s), it[s \ {Max(s)}])

Iterates(it, what, a, b, D) == it = [s \in D |-> Iterate(it, what, a, b, s)]

LEMMA IteratesExist ==
  ASSUME NEW what, NEW a, NEW b, NEW n \in Nat
  PROVE  \E it : Iterates(it, what, a, b, SUBSET (1..n))
<1> DEFINE A == {k \in 0..n : \E it : Iterates(it, what, a, b, SUBSET (1..k))}
<1>1. 0 \in A
  <2> PICK it : it = [s \in SUBSET (1..0) |-> b]
    OBVIOUS
  <2>1. ASSUME NEW s \in SUBSET (1..0) PROVE it[s] = Iterate(it, what, a, b, s)
    <3>1. s = {}
      OBVIOUS
    <3> QED BY <3>1 DEF Iterate
  <2>2. Iterates(it, what, a, b, SUBSET (1..0))
    BY <2>1 DEF Iterates
  <2> QED BY <2>2
<1>2. ASSUME NEW k \in 0..(n - 1), k \in A PROVE k + 1 \in A
  <2>1. PICK it : Iterates(it, what, a, b, SUBSET (1..k))
    BY <1>2
  <2> PICK f : f = [s \in SUBSET (1..(k + 1)) |-> Iterate(it, what, a, b, s)]
    OBVIOUS
  <2>2. \A s \in SUBSET (1..k) : s \in SUBSET (1..(k + 1)) /\ f[s] = it[s]
    BY <2>1 DEF Iterates
  <2>3. ASSUME NEW s \in SUBSET (1..(k + 1)) PROVE f[s] = Iterate(f, what, a, b, s)
    <3>1. f[s] = Iterate(it, what, a, b, s)
      OBVIOUS
    <3>2. CASE s = {}
      BY <3>1, <3>2 DEF Iterate
    <3>3. CASE s # {}
      <4>1. k + 1 \in Nat
        OBVIOUS
      <4>2. Max(s) \in s /\ \A y \in s : y <= Max(s)
        BY <3>3, <4>1, MaxOf
      <4>3. s \ {Max(s)} \in SUBSET (1..k)
        <5>1. ASSUME NEW y \in s \ {Max(s)} PROVE y \in 1..k
          <6>1. y \in 1..(k + 1) /\ Max(s) \in 1..(k + 1) /\ y <= Max(s) /\ y # Max(s)
            BY <4>2
          <6> PICK m : m = Max(s)
            OBVIOUS
          <6> QED BY <6>1
        <5> QED BY <5>1
      <4>4. f[s \ {Max(s)}] = it[s \ {Max(s)}]
        BY <2>2, <4>3
      <4> QED BY <3>1, <3>3, <4>4 DEF Iterate
    <3> QED BY <3>2, <3>3
  <2>4. Iterates(f, what, a, b, SUBSET (1..(k + 1)))
    BY <2>3 DEF Iterates
  <2> QED BY <2>4
<1>3. n \in A
  <2> HIDE DEF A
  <2>1. 0..n \subseteq A
    BY <1>1, <1>2, UpToAll
  <2> QED BY <2>1
<1> QED BY <1>3

\* A fold from left to right takes the elements one by one.
LEMMA LeftToRight ==
  ASSUME NEW what, NEW a, NEW b, NEW n \in Nat, NEW it, Iterates(it, what, a, b, SUBSET (1..n))
  PROVE  FoldsTo(it[1..n], what, a, b, n)
<1> PICK r : r = [i \in 0..n |-> it[1..i]]
  OBVIOUS
<1>1. r[0] = b
  <2>1. 1..0 = {} /\ 0 \in 0..n
    OBVIOUS
  <2> QED BY <2>1 DEF Iterates, Iterate
<1>2. ASSUME NEW i \in 1..n PROVE r[i] = FoldStep(what, a, i, r[i - 1])
  <2>1. 1..i \in SUBSET (1..n) /\ 1..i # {} /\ i \in 1..i /\ i \in 0..n /\ i - 1 \in 0..n
    <3>1. i \in 1..i /\ i \in 0..n /\ i - 1 \in 0..n
      OBVIOUS
    <3>2. 1..i \subseteq 1..n
      OBVIOUS
    <3> QED BY <3>1, <3>2
  <2>2. Max(1..i) \in 1..i /\ \A y \in 1..i : y <= Max(1..i)
    BY <2>1, MaxOf
  <2>3. Max(1..i) = i
    <3> PICK m : m = Max(1..i)
      OBVIOUS
    <3> QED BY <2>1, <2>2
  <2>4. (1..i) \ {i} = 1..(i - 1)
    OBVIOUS
  <2>5. it[1..i] = Iterate(it, what, a, b, 1..i)
    BY <2>1 DEF Iterates
  <2>6. it[1..i] = FoldStep(what, a, i, it[1..(i - 1)])
    BY <2>1, <2>3, <2>4, <2>5 DEF Iterate
  <2> QED BY <2>1, <2>6
<1>3. r[n] = it[1..n]
  OBVIOUS
<1>4. Runs(r, what, a, b, n)
  BY <1>1, <1>2 DEF Runs
<1> QED BY <1>3, <1>4 DEF FoldsTo

LEMMA RunsExist ==
  ASSUME NEW what, NEW a, NEW b, NEW n \in Nat
  PROVE  \E r : Runs(r, what, a, b, n)
<1>1. PICK it : Iterates(it, what, a, b, SUBSET (1..n))
  BY IteratesExist
<1>2. FoldsTo(it[1..n], what, a, b, n)
  BY <1>1, LeftToRight
<1> QED BY <1>2 DEF FoldsTo

LEMMA FlattenRuns ==
  ASSUME NEW V, NEW s \in Seq(Seq(V)), NEW r, Runs(r, "flatten", s, <<>>, Len(s))
  PROVE  FlattenSeq(s) = r[Len(s)] /\ \A i \in 0..Len(s) : r[i] \in Seq(V)
<1> PICK n : n = Len(s)
  OBVIOUS
<1>0. n \in Nat /\ DOMAIN s = 1..n /\ \A i \in 1..n : s[i] \in Seq(V)
  OBVIOUS
<1>1. r[0] = <<>> /\ \A i \in 1..n : r[i] = r[i - 1] \o s[i]
  BY DEF Runs, FoldStep
<1> DEFINE A == {i \in 0..n : r[i] \in Seq(V)}
<1>2. 0 \in A
  <2>1. r[0] \in Seq(V)
    BY <1>1, EmptySeq
  <2> QED BY <1>0, <2>1
<1>3. ASSUME NEW i \in 0..(n - 1), i \in A PROVE i + 1 \in A
  <2> PICK k : k = i + 1
    OBVIOUS
  <2>1. k \in 1..n /\ k \in 0..n /\ k - 1 = i
    BY <1>0
  <2>2. r[k] = r[k - 1] \o s[k] /\ r[k - 1] \in Seq(V) /\ s[k] \in Seq(V)
    BY <1>0, <1>1, <1>3, <2>1
  <2>3. r[k] \in Seq(V)
    BY <2>2, ConcatProperties
  <2> QED BY <2>1, <2>3
<1>4. 0..n \subseteq A
  <2> HIDE DEF A
  <2> QED BY <1>0, <1>2, <1>3, UpToAll
<1>5. CASE n = 0
  <2>1. s = <<>>
    BY <1>5, EmptySeq
  <2>2. FlattenSeq(s) = s
    BY <1>5 DEF FlattenSeq
  <2> QED BY <1>1, <1>4, <1>5, <2>1, <2>2
<1>6. CASE n # 0
  <2> DEFINE F(f) == [i \in 1..n |-> IF i = 1 THEN s[i] ELSE f[i - 1] \o s[i]]
  <2> PICK e : e = [i \in 1..n |-> r[i]]
    OBVIOUS
  <2>1. e = F(e)
    <3>1. ASSUME NEW i \in 1..n PROVE e[i] = IF i = 1 THEN s[i] ELSE e[i - 1] \o s[i]
      <4>1. e[i] = r[i] /\ r[i] = r[i - 1] \o s[i] /\ s[i] \in Seq(V)
        BY <1>0, <1>1
      <4>2. CASE i = 1
        <5>1. <<>> \o s[i] = s[i]
          BY <4>1, ConcatEmptySeq
        <5>2. i - 1 = 0
          BY <4>2
        <5>3. r[i] = s[i]
          BY <1>1, <4>1, <5>1, <5>2, Zenon
        <5> QED BY <4>1, <4>2, <5>3, Zenon
      <4>3. CASE i # 1
        <5>1. i - 1 \in 1..n /\ e[i - 1] = r[i - 1]
          BY <1>0, <4>3
        <5> QED BY <4>1, <4>3, <5>1
      <4> QED BY <4>2, <4>3
    <3> QED BY <3>1
  <2>2. PICK f : f = F(f) /\ FlattenSeq(s) = f[n]
    <3> PICK f : f = CHOOSE x : x = F(x)
      OBVIOUS
    <3>1. FlattenSeq(s) = f[n]
      BY <1>6 DEF FlattenSeq
    <3> HIDE DEF F
    <3>2. f = F(f)
      BY <2>1, Zenon
    <3> QED BY <3>1, <3>2
  <2>3. ASSUME NEW i \in 1..n PROVE f[i] = IF i = 1 THEN s[i] ELSE f[i - 1] \o s[i]
    BY <2>2
  <2> HIDE DEF F
  <2> DEFINE B == {i \in 0..n : i = 0 \/ f[i] = r[i]}
  <2>4. 0 \in B
    BY <1>0
  <2>5. ASSUME NEW i \in 0..(n - 1), i \in B PROVE i + 1 \in B
    <3> PICK k : k = i + 1
      OBVIOUS
    <3>1. k \in 1..n /\ k \in 0..n /\ k - 1 = i
      BY <1>0
    <3>2. f[k] = (IF k = 1 THEN s[k] ELSE f[k - 1] \o s[k]) /\ r[k] = r[k - 1] \o s[k] /\ s[k] \in Seq(V)
      BY <1>0, <1>1, <2>3, <3>1
    <3>3. f[k] = r[k]
      <4>1. CASE k = 1
        <5>1. <<>> \o s[k] = s[k] /\ k - 1 = 0
          BY <3>2, <4>1, ConcatEmptySeq
        <5>2. r[k - 1] = <<>>
          BY <1>1, <5>1
        <5> QED BY <3>2, <4>1, <5>1, <5>2
      <4>2. CASE k # 1
        <5>1. f[k - 1] = r[k - 1]
          BY <2>5, <3>1, <4>2
        <5> QED BY <3>2, <4>2, <5>1
      <4> QED BY <4>1, <4>2
    <3> QED BY <3>1, <3>3
  <2>6. n \in B
    <3> HIDE DEF B
    <3>1. 0..n \subseteq B
      BY <1>0, <2>4, <2>5, UpToAll
    <3> QED BY <1>0, <3>1
  <2> QED BY <1>4, <1>6, <2>2, <2>6
<1> QED BY <1>5, <1>6

LEMMA FlattenTyped ==
  ASSUME NEW V, NEW s \in Seq(Seq(V))
  PROVE  FlattenSeq(s) \in Seq(V)
<1>0. Len(s) \in Nat /\ Len(s) \in 0..Len(s)
  OBVIOUS
<1>1. PICK r : Runs(r, "flatten", s, <<>>, Len(s))
  BY <1>0, RunsExist
<1> QED BY <1>0, <1>1, FlattenRuns

-----------------------------------------------------------------------------
(* Enrolment.                                                              *)

PollerRow ==
  [status : {"pending", "active", "disabled"},
   token : ({"pe"} \X PollerIds) \cup ({"pt"} \X PollerIds \X Nat),
   heard : SUBSET Identity, fresh : BOOLEAN]

AgentState ==
  {Down} \cup [pc : {"wait"}, call : Registrations] \cup [pc : {"save", "run", "beat"}, id : Identity]

JoinState == {NoJoin} \cup [pc : {"find", "bind"}, host : Hosts \cup {NoOneHere}, p : PollerIds]

\* Pollers, disks, agents and registrations are of their shapes.
EnrolTypeOK ==
  /\ pollers \in [PollerIds -> {Absent} \cup PollerRow]
  /\ disk \in [Hosts -> {NoOneHere} \cup Identity]
  /\ agent \in [Hosts -> AgentState]
  /\ joining \in [Registrations -> JoinState]
  /\ bindings \in Nat /\ stops \in Nat

\* The identity a host has on disk, or is about to save there.
Held(h) ==
  IF disk[h] # NoOneHere THEN {disk[h]}
  ELSE IF agent[h].pc = "save" THEN {agent[h].id} ELSE {}

\* A host that asked for an identity has none, and its call knows it; one
\* that uses an identity has it on disk.
HostFits(h) ==
  /\ agent[h].pc \in {"wait", "save"} => disk[h] = NoOneHere
  /\ agent[h].pc \in {"run", "beat"} => disk[h] = agent[h].id
  /\ \A r \in Registrations : joining[r] # NoJoin /\ joining[r].host = h => agent[h] = [pc |-> "wait", call |-> r]

\* No two hosts hold one token, and the next one to be minted is held by none.
TokensApart ==
  /\ \A h \in Hosts : \A id \in Held(h) : id.token[3] <= bindings
  /\ \A h, k \in Hosts : Held(h) \cap Held(k) # {} => h = k

HeardSaved ==
  \A p \in PollerIds :
    pollers[p] # Absent => \A id \in pollers[p].heard : \E h \in Hosts : disk[h] = id

EnrolInv == EnrolTypeOK /\ (\A h \in Hosts : HostFits(h)) /\ TokensApart /\ HeardSaved

LEMMA AgentPcs ==
  ASSUME NEW a \in AgentState
  PROVE  /\ a.pc \in {"wait", "save", "run", "beat"} => a # Down
         /\ a.pc = "wait" => a \in [pc : {"wait"}, call : Registrations]
         /\ a.pc \in {"save", "run", "beat"} => a.id \in Identity
BY DEF AgentState, Down

\* Nothing but the fleet's rows changed, and nobody was heard.
LEMMA RowsOnly ==
  ASSUME EnrolInv, UNCHANGED <<disk, agent, joining, bindings>>, stops' \in Nat,
         pollers' \in [PollerIds -> {Absent} \cup PollerRow],
         \A p \in PollerIds : pollers'[p] # Absent => \A id \in pollers'[p].heard : pollers[p] # Absent /\ id \in pollers[p].heard
  PROVE  EnrolInv'
<1>1. EnrolTypeOK' BY DEF EnrolInv, EnrolTypeOK
<1>2. \A h \in Hosts : HostFits(h)' BY DEF EnrolInv, HostFits
<1>3. TokensApart' BY DEF EnrolInv, TokensApart, Held
<1>4. HeardSaved' BY DEF EnrolInv, HeardSaved
<1> QED BY <1>1, <1>2, <1>3, <1>4 DEF EnrolInv

\* A host's process changed; its disk and what it holds did not.
LEMMA AgentOnly ==
  ASSUME EnrolInv, NEW h \in Hosts, NEW a \in AgentState, UNCHANGED <<pollers, disk, bindings>>, stops' \in Nat,
         agent' = [agent EXCEPT ![h] = a],
         joining' \in [Registrations -> JoinState],
         HostFits(h)', Held(h)' \subseteq Held(h),
         \A r \in Registrations, k \in Hosts \ {h} :
           joining'[r] # NoJoin /\ joining'[r].host = k => joining[r] # NoJoin /\ joining[r].host = k
  PROVE  EnrolInv'
<1>1. EnrolTypeOK' BY DEF EnrolInv, EnrolTypeOK
<1>2. \A k \in Hosts : k # h => agent'[k] = agent[k]
  BY DEF EnrolInv, EnrolTypeOK
<1>3. \A k \in Hosts : HostFits(k)' BY <1>2 DEF EnrolInv, HostFits
<1>4. \A k \in Hosts : Held(k)' \subseteq Held(k) BY <1>2 DEF Held
<1>5. TokensApart'
  BY <1>4 DEF EnrolInv, TokensApart
<1>6. HeardSaved' BY DEF EnrolInv, HeardSaved
<1> QED BY <1>1, <1>3, <1>5, <1>6 DEF EnrolInv

LEMMA AdministratorKeeps ==
  ASSUME EnrolInv, NEW p \in PollerIds,
         \/ IssueEnrollToken(p) \/ EnrollTokenExpires(p)
         \/ \E status \in {"active", "disabled"} : SetPollerStatus(p, status)
  PROVE  EnrolInv'
<1>0. pollers \in [PollerIds -> {Absent} \cup PollerRow] /\ stops \in Nat BY DEF EnrolInv, EnrolTypeOK
<1>1. CASE IssueEnrollToken(p)
  <2>1. UNCHANGED <<disk, agent, joining, bindings>> /\ stops' \in Nat
    BY <1>0, <1>1 DEF IssueEnrollToken
  <2>2. PICK row : row = [status |-> "pending", token |-> <<"pe", p>>, heard |-> {}, fresh |-> TRUE] OBVIOUS
  <2>3. row \in PollerRow /\ row.heard = {} BY <2>2 DEF PollerRow
  <2>4. pollers' = [pollers EXCEPT ![p] = row] BY <1>1, <2>2 DEF IssueEnrollToken, CreatePending
  <2>5. pollers' \in [PollerIds -> {Absent} \cup PollerRow] BY <1>0, <2>3, <2>4
  <2>6. \A x \in PollerIds : pollers'[x] # Absent => \A id \in pollers'[x].heard : pollers[x] # Absent /\ id \in pollers[x].heard
    BY <1>0, <2>3, <2>4
  <2> QED BY <2>1, <2>5, <2>6, RowsOnly
<1>2. CASE EnrollTokenExpires(p)
  <2>1. UNCHANGED <<disk, agent, joining, bindings>> /\ stops' \in Nat /\ pollers[p] \in PollerRow
    BY <1>0, <1>2 DEF EnrollTokenExpires
  <2>2. PICK row : row = [pollers[p] EXCEPT !.fresh = FALSE] OBVIOUS
  <2>3. row \in PollerRow /\ row.heard = pollers[p].heard BY <2>1, <2>2 DEF PollerRow
  <2>4. pollers' = [pollers EXCEPT ![p] = row] BY <1>2, <2>2 DEF EnrollTokenExpires
  <2>5. pollers' \in [PollerIds -> {Absent} \cup PollerRow] BY <1>0, <2>3, <2>4
  <2>6. \A x \in PollerIds : pollers'[x] # Absent => \A id \in pollers'[x].heard : pollers[x] # Absent /\ id \in pollers[x].heard
    BY <1>0, <1>2, <2>3, <2>4 DEF EnrollTokenExpires
  <2> QED BY <2>1, <2>5, <2>6, RowsOnly
<1>3. ASSUME NEW status \in {"active", "disabled"}, SetPollerStatus(p, status) PROVE EnrolInv'
  <2>1. UNCHANGED <<disk, agent, joining, bindings>> /\ stops' \in Nat /\ pollers[p] \in PollerRow
    BY <1>0, <1>3 DEF SetPollerStatus, Stopping
  <2>2. PICK row : row = [pollers[p] EXCEPT !.status = status] OBVIOUS
  <2>3. row \in PollerRow /\ row.heard = pollers[p].heard BY <2>1, <2>2 DEF PollerRow
  <2>4. pollers' = [pollers EXCEPT ![p] = row] BY <1>3, <2>2 DEF SetPollerStatus
  <2>5. pollers' \in [PollerIds -> {Absent} \cup PollerRow] BY <1>0, <2>3, <2>4
  <2>6. \A x \in PollerIds : pollers'[x] # Absent => \A id \in pollers'[x].heard : pollers[x] # Absent /\ id \in pollers[x].heard
    BY <1>0, <1>3, <2>3, <2>4 DEF SetPollerStatus
  <2> QED BY <2>1, <2>5, <2>6, RowsOnly
<1> QED BY <1>1, <1>2, <1>3

\* The process of a host starts, asks, stops, or reports: its disk stays.
LEMMA ProcessKeeps ==
  ASSUME EnrolInv, NEW h \in Hosts,
         LoadIdentity(h) \/ AgentStops(h) \/ AuthByToken(h)
         \/ \E r \in Registrations, p \in PollerIds : Enroll(h, r, p)
  PROVE  EnrolInv'
<1>0. /\ disk[h] \in {NoOneHere} \cup Identity /\ agent[h] \in AgentState /\ agent \in [Hosts -> AgentState]
      /\ joining \in [Registrations -> JoinState] /\ stops \in Nat /\ HostFits(h)
  BY DEF EnrolInv, EnrolTypeOK
<1>1. CASE LoadIdentity(h)
  <2>1. PICK a : a = [pc |-> "run", id |-> disk[h]] OBVIOUS
  <2>2. a \in AgentState /\ a.pc = "run" /\ a.id = disk[h] BY <1>0, <1>1, <2>1 DEF AgentState, LoadIdentity
  <2>3. agent' = [agent EXCEPT ![h] = a] /\ agent'[h] = a /\ UNCHANGED <<pollers, disk, joining, bindings, stops>>
    BY <1>0, <1>1, <2>1 DEF LoadIdentity
  <2>4. HostFits(h)' BY <1>0, <1>1, <2>2, <2>3 DEF HostFits, LoadIdentity, Down
  <2>5. Held(h)' \subseteq Held(h) BY <2>2, <2>3 DEF Held
  <2> QED BY <1>0, <2>2, <2>3, <2>4, <2>5, AgentOnly
<1>2. CASE AgentStops(h)
  <2>1. Down \in AgentState /\ agent' = [agent EXCEPT ![h] = Down] /\ agent'[h] = Down
        /\ UNCHANGED <<pollers, disk, bindings>> /\ stops' \in Nat
    BY <1>0, <1>2 DEF AgentState, AgentStops, Stopping
  <2>2. \A r \in Registrations :
          \/ joining[r] # NoJoin /\ joining[r].host = h /\ joining'[r] = [joining[r] EXCEPT !.host = NoOneHere]
          \/ ~(joining[r] # NoJoin /\ joining[r].host = h) /\ joining'[r] = joining[r]
    BY <1>2 DEF AgentStops
  <2>3. \A r \in Registrations : joining[r] # NoJoin =>
          [joining[r] EXCEPT !.host = NoOneHere] \in JoinState /\ [joining[r] EXCEPT !.host = NoOneHere].host = NoOneHere
    BY <1>0 DEF JoinState
  <2>4. joining' \in [Registrations -> JoinState] BY <1>0, <1>2, <2>3 DEF AgentStops
  <2>5. NoOneHere \notin Hosts BY EnrolmentAssumption
  <2>6. \A r \in Registrations : ~(joining'[r] # NoJoin /\ joining'[r].host = h) BY <2>2, <2>3, <2>5
  <2>7. HostFits(h)' BY <2>1, <2>6 DEF HostFits, Down
  <2>8. Held(h)' \subseteq Held(h) BY <2>1 DEF Held, Down
  <2>9. \A r \in Registrations, k \in Hosts \ {h} :
          joining'[r] # NoJoin /\ joining'[r].host = k => joining[r] # NoJoin /\ joining[r].host = k
    BY <2>2, <2>3, <2>5
  <2> QED BY <2>1, <2>4, <2>7, <2>8, <2>9, AgentOnly
<1>3. CASE AuthByToken(h)
  <2>1. PICK a : a = [pc |-> "beat", id |-> agent[h].id] OBVIOUS
  <2>2. a \in AgentState /\ a.pc = "beat" /\ a.id = agent[h].id
    BY <1>0, <1>3, <2>1, AgentPcs DEF AgentState, AuthByToken
  <2>3. agent' = [agent EXCEPT ![h] = a] /\ agent'[h] = a /\ UNCHANGED <<pollers, disk, joining, bindings, stops>>
    BY <1>0, <1>3, <2>1 DEF AuthByToken
  <2>4. HostFits(h)' BY <1>0, <1>3, <2>2, <2>3 DEF HostFits, AuthByToken
  <2>5. Held(h)' \subseteq Held(h) BY <2>2, <2>3 DEF Held
  <2> QED BY <1>0, <2>2, <2>3, <2>4, <2>5, AgentOnly
<1>4. ASSUME NEW r \in Registrations, NEW p \in PollerIds, Enroll(h, r, p) PROVE EnrolInv'
  <2>1. PICK a : a = [pc |-> "wait", call |-> r] OBVIOUS
  <2>2. a \in AgentState /\ a.pc = "wait" BY <2>1 DEF AgentState
  <2>3. PICK j : j = [pc |-> "find", host |-> h, p |-> p] OBVIOUS
  <2>4. j \in JoinState /\ j.host = h BY <2>3 DEF JoinState
  <2>5. /\ agent' = [agent EXCEPT ![h] = a] /\ agent'[h] = a /\ UNCHANGED <<pollers, disk, bindings, stops>>
        /\ joining' = [joining EXCEPT ![r] = j] /\ disk[h] = NoOneHere /\ agent[h] = Down
    BY <1>0, <1>4, <2>1, <2>3 DEF Enroll
  <2>6. joining' \in [Registrations -> JoinState] BY <1>0, <2>4, <2>5
  <2>7. HostFits(h)' BY <1>0, <2>1, <2>2, <2>4, <2>5 DEF HostFits, Down
  <2>8. Held(h)' \subseteq Held(h) BY <2>2, <2>5 DEF Held
  <2>9. \A x \in Registrations, k \in Hosts \ {h} :
          joining'[x] # NoJoin /\ joining'[x].host = k => joining[x] # NoJoin /\ joining[x].host = k
    BY <1>0, <2>4, <2>5
  <2> QED BY <1>0, <2>2, <2>5, <2>6, <2>7, <2>8, <2>9, AgentOnly
<1> QED BY <1>1, <1>2, <1>3, <1>4

LEMMA SaveKeeps ==
  ASSUME EnrolInv, NEW h \in Hosts, NEW written \in BOOLEAN, SaveIdentity(h, written)
  PROVE  EnrolInv'
<1>0. /\ disk \in [Hosts -> {NoOneHere} \cup Identity] /\ agent \in [Hosts -> AgentState] /\ agent[h] \in AgentState
      /\ joining \in [Registrations -> JoinState] /\ stops \in Nat /\ HostFits(h) /\ agent[h].pc = "save"
      /\ agent[h].id \in Identity /\ disk[h] = NoOneHere
      /\ UNCHANGED <<pollers, joining, bindings>> /\ stops' \in Nat
  BY AgentPcs DEF EnrolInv, EnrolTypeOK, SaveIdentity, HostFits, Stopping
<1>1. CASE ~written
  <2>1. /\ Down \in AgentState /\ agent' = [agent EXCEPT ![h] = Down] /\ agent'[h] = Down /\ UNCHANGED disk
    BY <1>0, <1>1 DEF SaveIdentity, AgentState
  <2>2. HostFits(h)' BY <1>0, <2>1 DEF HostFits, Down
  <2>3. Held(h)' \subseteq Held(h) BY <1>0, <2>1 DEF Held, Down
  <2> QED BY <1>0, <2>1, <2>2, <2>3, AgentOnly
<1>2. CASE written
  <2>1. PICK id \in Identity : id = agent[h].id BY <1>0
  <2>2. PICK a : a = [pc |-> "run", id |-> id] OBVIOUS
  <2>3. a \in AgentState /\ a.pc = "run" /\ a.id = id BY <2>1, <2>2 DEF AgentState
  <2>4. /\ disk' = [disk EXCEPT ![h] = id] /\ agent' = [agent EXCEPT ![h] = a]
    BY <1>0, <1>2, <2>1, <2>2 DEF SaveIdentity
  <2>5. /\ disk'[h] = id /\ agent'[h] = a
        /\ \A k \in Hosts : k # h => disk'[k] = disk[k] /\ agent'[k] = agent[k]
    BY <1>0, <2>4
  <2>6. EnrolTypeOK' BY <1>0, <2>3, <2>4 DEF EnrolInv, EnrolTypeOK
  <2>7. \A k \in Hosts : HostFits(k)'
    <3>1. HostFits(h)' BY <1>0, <2>3, <2>5 DEF HostFits
    <3>2. \A k \in Hosts : k # h => HostFits(k)' BY <1>0, <2>5 DEF EnrolInv, HostFits
    <3> QED BY <3>1, <3>2
  <2>8. id # NoOneHere BY EnrolmentAssumption
  <2>9. \A k \in Hosts : Held(k)' = Held(k) BY <1>0, <2>1, <2>5, <2>8 DEF Held
  <2>10. TokensApart' BY <1>0, <2>9 DEF EnrolInv, TokensApart
  <2>11. HeardSaved'
    <3> SUFFICES ASSUME NEW p \in PollerIds, pollers[p] # Absent, NEW x \in pollers[p].heard
                 PROVE  \E k \in Hosts : disk'[k] = x
      BY <1>0 DEF HeardSaved
    <3>1. PICK k \in Hosts : disk[k] = x BY DEF EnrolInv, HeardSaved
    <3>2. x \in Identity BY DEF EnrolInv, EnrolTypeOK, PollerRow
    <3>3. k # h BY <1>0, <3>1, <3>2, EnrolmentAssumption
    <3> QED BY <2>5, <3>1, <3>3
  <2> QED BY <2>6, <2>7, <2>10, <2>11 DEF EnrolInv
<1> QED BY <1>1, <1>2

LEMMA HeartbeatKeeps ==
  ASSUME EnrolInv, NEW h \in Hosts, Heartbeat(h)
  PROVE  EnrolInv'
<1>0. /\ pollers \in [PollerIds -> {Absent} \cup PollerRow]
      /\ disk \in [Hosts -> {NoOneHere} \cup Identity] /\ agent \in [Hosts -> AgentState] /\ agent[h] \in AgentState
      /\ HostFits(h) /\ agent[h].pc = "beat"
      /\ UNCHANGED <<disk, joining, bindings, stops>>
  BY DEF EnrolInv, EnrolTypeOK, Heartbeat
<1>1. PICK id \in Identity : id = agent[h].id BY <1>0, AgentPcs
<1>2. id.p \in PollerIds /\ disk[h] = id /\ id # NoOneHere BY <1>0, <1>1, EnrolmentAssumption DEF Identity, HostFits
<1>3. PICK a : a = [agent[h] EXCEPT !.pc = "run"] OBVIOUS
<1>4. agent[h] \in [pc : {"save", "run", "beat"}, id : Identity] BY <1>0 DEF AgentState, Down
<1>5. a \in AgentState /\ a.pc = "run" /\ a.id = id BY <1>1, <1>3, <1>4 DEF AgentState
<1>6. agent' = [agent EXCEPT ![h] = a] /\ pollers' = [pollers EXCEPT ![id.p].heard = @ \cup {id}]
  BY <1>1, <1>3 DEF Heartbeat, Heard
<1>7. PICK row : row = [pollers[id.p] EXCEPT !.heard = @ \cup {id}] OBVIOUS
<1>8. pollers' = [pollers EXCEPT ![id.p] = row] BY <1>6, <1>7
<1>9. row \in {Absent} \cup PollerRow
  <2>1. pollers[id.p] = Absent => row = Absent BY <1>7 DEF Absent
  <2>2. pollers[id.p] \in PollerRow => row \in PollerRow BY <1>1, <1>7 DEF PollerRow
  <2> QED BY <1>0, <1>2, <2>1, <2>2
<1>10. EnrolTypeOK' BY <1>0, <1>2, <1>5, <1>6, <1>8, <1>9 DEF EnrolInv, EnrolTypeOK
<1>11. agent'[h] = a /\ \A k \in Hosts : k # h => agent'[k] = agent[k] BY <1>0, <1>6
<1>12. \A k \in Hosts : HostFits(k)'
  <2>1. HostFits(h)' BY <1>0, <1>2, <1>5, <1>11 DEF HostFits
  <2>2. \A k \in Hosts : k # h => HostFits(k)' BY <1>0, <1>11 DEF EnrolInv, HostFits
  <2> QED BY <2>1, <2>2
<1>13. \A k \in Hosts : Held(k)' = Held(k) BY <1>0, <1>5, <1>11 DEF Held
<1>14. TokensApart' BY <1>0, <1>13 DEF EnrolInv, TokensApart
<1>15. HeardSaved'
  <2>1. pollers[id.p] # Absent => row.heard = pollers[id.p].heard \cup {id} BY <1>0, <1>2, <1>7 DEF PollerRow
  <2>2. pollers[id.p] = Absent => row = Absent BY <1>7 DEF Absent
  <2> QED BY <1>0, <1>2, <1>8, <2>1, <2>2 DEF EnrolInv, HeardSaved
<1> QED BY <1>10, <1>12, <1>14, <1>15 DEF EnrolInv

\* A host waits for one registration.
LEMMA OneCallEach ==
  ASSUME EnrolInv, NEW h \in Hosts, NEW r \in Registrations, joining[r] # NoJoin, joining[r].host = h
  PROVE  disk[h] = NoOneHere /\ \A x \in Registrations : joining[x] # NoJoin /\ joining[x].host = h => x = r
<1>1. \A x \in Registrations : joining[x] # NoJoin /\ joining[x].host = h => agent[h] = [pc |-> "wait", call |-> x]
  BY DEF EnrolInv, HostFits
<1>2. \A x \in Registrations : joining[x] # NoJoin /\ joining[x].host = h => agent[h].call = x /\ agent[h].pc = "wait"
  <2>1. SUFFICES ASSUME NEW x \in Registrations, joining[x] # NoJoin, joining[x].host = h
                 PROVE  agent[h].call = x /\ agent[h].pc = "wait"
    OBVIOUS
  <2>2. agent[h] = [pc |-> "wait", call |-> x] BY <1>1, <2>1
  <2> QED BY <2>2
<1>3. disk[h] = NoOneHere BY <1>2 DEF EnrolInv, HostFits
<1> QED BY <1>2, <1>3

LEMMA FindKeeps ==
  ASSUME EnrolInv, NEW r \in Registrations, FindByEnrollHash(r)
  PROVE  EnrolInv'
<1>0. /\ agent \in [Hosts -> AgentState] /\ joining \in [Registrations -> JoinState] /\ stops \in Nat
      /\ joining[r].pc = "find" /\ UNCHANGED <<pollers, disk, bindings, stops>>
  BY DEF EnrolInv, EnrolTypeOK, FindByEnrollHash
<1>1. joining[r] # NoJoin /\ joining[r] \in [pc : {"find", "bind"}, host : Hosts \cup {NoOneHere}, p : PollerIds]
  BY <1>0 DEF JoinState, NoJoin
<1>2. CASE agent' = agent /\ \E j \in JoinState : joining' = [joining EXCEPT ![r] = j] /\ (j = NoJoin \/ j.host = joining[r].host)
  <2>1. PICK j \in JoinState : joining' = [joining EXCEPT ![r] = j] /\ (j = NoJoin \/ j.host = joining[r].host) BY <1>2
  <2>2. EnrolTypeOK' BY <1>0, <1>2, <2>1 DEF EnrolInv, EnrolTypeOK
  <2>3. \A k \in Hosts : HostFits(k)' BY <1>0, <1>1, <1>2, <2>1 DEF EnrolInv, HostFits
  <2>4. TokensApart' BY <1>0, <1>2 DEF EnrolInv, TokensApart, Held
  <2>5. HeardSaved' BY <1>0 DEF EnrolInv, HeardSaved
  <2> QED BY <2>2, <2>3, <2>4, <2>5 DEF EnrolInv
<1>3. CASE Redeemable(joining[r].p)
  <2>1. PICK j : j = [joining[r] EXCEPT !.pc = "bind"] OBVIOUS
  <2>2. j \in JoinState /\ j.host = joining[r].host BY <1>1, <2>1 DEF JoinState
  <2> QED BY <1>2, <1>3, <2>1, <2>2 DEF FindByEnrollHash
<1>4. CASE ~Redeemable(joining[r].p)
  <2>1. Answer(r, Down) /\ NoJoin \in JoinState /\ joining' = [joining EXCEPT ![r] = NoJoin]
    BY <1>4 DEF FindByEnrollHash, Answer, JoinState
  <2>2. CASE joining[r].host \notin Hosts
    <3>1. agent' = agent BY <1>0, <2>1, <2>2 DEF Answer
    <3> QED BY <1>2, <2>1, <3>1
  <2>3. CASE joining[r].host \in Hosts
    <3>1. PICK h \in Hosts : h = joining[r].host BY <2>3
    <3>2. agent' = [agent EXCEPT ![h] = Down] /\ Down \in AgentState /\ agent'[h] = Down
      BY <1>0, <2>1, <3>1 DEF Answer, AgentState
    <3>3. \A x \in Registrations : joining[x] # NoJoin /\ joining[x].host = h => x = r
      BY <1>1, <3>1, OneCallEach
    <3>4. HostFits(h)' BY <1>0, <2>1, <3>2, <3>3 DEF HostFits, Down
    <3>5. Held(h)' \subseteq Held(h) BY <1>0, <3>2 DEF Held, Down
    <3>6. joining' \in [Registrations -> JoinState] BY <1>0, <2>1
    <3>7. \A x \in Registrations, k \in Hosts \ {h} :
            joining'[x] # NoJoin /\ joining'[x].host = k => joining[x] # NoJoin /\ joining[x].host = k
      BY <1>0, <2>1
    <3> QED BY <1>0, <3>2, <3>4, <3>5, <3>6, <3>7, AgentOnly
  <2> QED BY <2>2, <2>3
<1> QED BY <1>3, <1>4

LEMMA BindKeeps ==
  ASSUME EnrolInv, NEW r \in Registrations, BindAuthToken(r)
  PROVE  EnrolInv'
<1>0. /\ agent \in [Hosts -> AgentState] /\ joining \in [Registrations -> JoinState] /\ stops \in Nat
      /\ pollers \in [PollerIds -> {Absent} \cup PollerRow] /\ bindings \in Nat
      /\ joining[r].pc = "bind" /\ UNCHANGED <<disk, stops>> /\ bindings' = bindings + 1
  BY DEF EnrolInv, EnrolTypeOK, BindAuthToken
<1>1. joining[r] # NoJoin /\ joining[r] \in [pc : {"find", "bind"}, host : Hosts \cup {NoOneHere}, p : PollerIds]
  BY <1>0 DEF JoinState, NoJoin
<1>2. PICK p \in PollerIds : p = joining[r].p BY <1>1
<1>3. PICK n \in Nat : n = bindings + 1 BY <1>0
<1>4. PICK token : token = <<"pt", p, n>> OBVIOUS
<1>5. PICK a : a = [pc |-> "save", id |-> [p |-> p, token |-> token]] OBVIOUS
<1>6. a.pc = "save" /\ a.id \in Identity /\ a.id.token[3] = n /\ a \in AgentState
  BY <1>4, <1>5 DEF Identity, AgentState
<1>7. Answer(r, a) /\ TokenBound(p, token) BY <1>2, <1>3, <1>4, <1>5 DEF BindAuthToken
<1>8. joining' = [joining EXCEPT ![r] = NoJoin] /\ NoJoin \in JoinState /\ joining' \in [Registrations -> JoinState]
  BY <1>0, <1>7 DEF Answer, JoinState
<1>9. agent' \in [Hosts -> AgentState] BY <1>0, <1>6, <1>7 DEF Answer
<1>10. /\ pollers' \in [PollerIds -> {Absent} \cup PollerRow]
       /\ \A x \in PollerIds : pollers'[x] # Absent => \A id \in pollers'[x].heard : pollers[x] # Absent /\ id \in pollers[x].heard
  <2>1. PICK row : row = [pollers[p] EXCEPT !.token = token] OBVIOUS
  <2>2. pollers' = [pollers EXCEPT ![p] = row] BY <1>7, <2>1 DEF TokenBound
  <2>3. pollers[p] = Absent => row = Absent BY <2>1 DEF Absent
  <2>4. pollers[p] \in PollerRow => row \in PollerRow /\ row.heard = pollers[p].heard BY <1>3, <1>4, <2>1 DEF PollerRow
  <2>5. pollers[p] \in PollerRow => pollers[p] # Absent BY DEF PollerRow, Absent
  <2> QED BY <1>0, <2>2, <2>3, <2>4, <2>5
<1>11. EnrolTypeOK' BY <1>0, <1>8, <1>9, <1>10 DEF EnrolInv, EnrolTypeOK
<1>12. HeardSaved' BY <1>0, <1>10 DEF EnrolInv, HeardSaved
<1>13. \A k \in Hosts : agent'[k] = IF k = joining[r].host THEN a ELSE agent[k] BY <1>7 DEF Answer
<1>14. \A k \in Hosts : k = joining[r].host =>
         disk[k] = NoOneHere /\ \A x \in Registrations : joining[x] # NoJoin /\ joining[x].host = k => x = r
  BY <1>1, OneCallEach
<1>15. \A k \in Hosts : HostFits(k)'
  <2>1. SUFFICES ASSUME NEW k \in Hosts PROVE HostFits(k)' OBVIOUS
  <2>2. CASE k = joining[r].host BY <1>0, <1>6, <1>8, <1>13, <1>14, <2>2 DEF HostFits
  <2>3. CASE k # joining[r].host BY <1>0, <1>8, <1>13, <2>3 DEF EnrolInv, HostFits
  <2> QED BY <2>2, <2>3
<1>16. \A k \in Hosts : Held(k)' = IF k = joining[r].host THEN {a.id} ELSE Held(k)
  BY <1>0, <1>6, <1>13, <1>14 DEF Held
<1>17. TokensApart'
  <2>1. \A k \in Hosts : \A id \in Held(k) : id.token[3] \in Int
    BY <1>0, AgentPcs DEF EnrolInv, EnrolTypeOK, Held, Identity
  <2>2. \A k \in Hosts : \A id \in Held(k)' : id.token[3] <= bindings'
    BY <1>0, <1>3, <1>6, <1>16, <2>1 DEF EnrolInv, TokensApart
  <2>3. \A k \in Hosts : a.id \notin Held(k) BY <1>0, <1>3, <1>6 DEF EnrolInv, TokensApart
  <2>4. \A h, k \in Hosts : Held(h)' \cap Held(k)' # {} => h = k
    BY <1>16, <2>3 DEF EnrolInv, TokensApart
  <2> QED BY <2>2, <2>4 DEF TokensApart
<1> QED BY <1>11, <1>12, <1>15, <1>17 DEF EnrolInv

\* Every step of the fleet keeps the invariant.
LEMMA EnrolStep ==
  ASSUME EnrolInv, [EnrolNext]_enrolVars
  PROVE  EnrolInv'
<1>1. CASE UNCHANGED enrolVars
  <2>1. UNCHANGED <<disk, agent, joining, bindings, stops, pollers>> BY <1>1 DEF enrolVars
  <2>2. stops' \in Nat /\ pollers' \in [PollerIds -> {Absent} \cup PollerRow] BY <2>1 DEF EnrolInv, EnrolTypeOK
  <2> QED BY <2>1, <2>2, RowsOnly
<1>2. CASE EnrolNext
  BY <1>2, AdministratorKeeps, ProcessKeeps, SaveKeeps, HeartbeatKeeps, FindKeeps, BindKeeps DEF EnrolNext
<1> QED BY <1>1, <1>2

\* Every identity a poller was heard under is on the disk of one host, after
\* any crash, give-up or failed write (Agent.Enroll, PollerService.Register),
\* for any number of hosts, pollers and registrations served at once.
THEOREM IdentitiesKept == EnrolSpec => []HeardIsSaved
<1>1. EnrolInit => EnrolInv
  BY DEF EnrolInit, EnrolInv, EnrolTypeOK, HostFits, TokensApart, Held, HeardSaved, AgentState, JoinState, Down,
         NoJoin, Absent
<1>2. EnrolInv /\ [EnrolNext]_enrolVars => EnrolInv' BY EnrolStep
<1>3. EnrolInv => HeardIsSaved
  BY DEF EnrolInv, HeardSaved, HeardIsSaved, TokensApart, Held
<1> QED BY <1>1, <1>2, <1>3, PTL DEF EnrolSpec

-----------------------------------------------------------------------------
(* Maps.                                                                   *)

\* Revisions are numbered from 1 without a gap, and the newest is a draft.
Numbered(n) ==
  /\ DOMAIN revs = 1..n /\ revs[n].state = "draft"
  /\ \A r \in 1..n : {"state", "def"} \subseteq DOMAIN revs[r]

\* A publish under way works on a revision of the map, while there is one.
PublishFits(c) ==
  mapReq[c].pc \in {"prior", "bind"} =>
    {"pc", "rev"} \subseteq DOMAIN mapReq[c] /\ (~NoMap => mapReq[c].rev \in DOMAIN revs)

MapsInv ==
  /\ NoMap \/ \E n \in Nat \ {0} : Numbered(n)
  /\ DOMAIN mapReq = MapCalls
  /\ \A c \in MapCalls : PublishFits(c)

\* The last of some numbers up to n is n, when it is one of them.
LEMMA NewestIs ==
  ASSUME NEW n \in Nat, NEW S \in SUBSET (0..n), n \in S
  PROVE  Newest(S) = n
<1>1. \A q \in S : q <= n OBVIOUS
<1>2. Newest(S) \in S /\ \A q \in S : q <= Newest(S) BY <1>1 DEF Newest
<1>3. PICK m \in 0..n : m = Newest(S) BY <1>2
<1>4. n <= m /\ m <= n BY <1>2, <1>3
<1> QED BY <1>3, <1>4

\* A request went on, or was answered, and no revision was lost.
LEMMA RequestsFit ==
  ASSUME MapsInv, NEW c \in MapCalls, NEW v, mapReq' = [mapReq EXCEPT ![c] = v],
         v.pc \in {"prior", "bind"} => {"pc", "rev"} \subseteq DOMAIN v /\ (~NoMap' => v.rev \in DOMAIN revs'),
         ~NoMap' => ~NoMap /\ DOMAIN revs \subseteq DOMAIN revs'
  PROVE  DOMAIN mapReq' = MapCalls /\ \A d \in MapCalls : PublishFits(d)'
BY DEF MapsInv, PublishFits

LEMMA OneMoreDraft ==
  ASSUME NEW n \in Nat \ {0}, Numbered(n), NEW def,
         revs' = Revise(revs, n + 1, [state |-> "draft", def |-> def])
  PROVE  Numbered(n + 1)' /\ DOMAIN revs \subseteq DOMAIN revs' /\ \A r \in DOMAIN revs : revs'[r] = revs[r]
BY DEF Revise, Numbered

\* The map's rows appear; no request was under way.
LEMMA CreatedFits ==
  ASSUME MapsInv, CreateRows
  PROVE  Numbered(1)' /\ \A c \in MapCalls : mapReq[c].pc \in {"wait", "suggest"}
BY DEF CreateRows, Numbered

\* What a step may do to published revisions.
KeepsPublished ==
  \A r \in DOMAIN revs :
    revs[r].state = "published" /\ ~NoMap' => r \in DOMAIN revs' /\ revs'[r] = revs[r]

LEMMA WritersKeep ==
  ASSUME MapsInv, NEW c \in MapCalls, UpdateDraft(c) \/ OpenDraft(c) \/ CommitPublish(c)
  PROVE  MapsInv' /\ KeepsPublished
<1>1. CASE UpdateDraft(c)
  <2>1. CASE ~StillDraft(mapReq[c].rev)
    <3>1. PICK v : v = [pc |-> "open", def |-> mapReq[c].def] OBVIOUS
    <3>2. revs' = revs /\ mapReq' = [mapReq EXCEPT ![c] = v] /\ v.pc = "open"
      BY <1>1, <2>1, <3>1 DEF UpdateDraft, Goto
    <3>3. DOMAIN mapReq' = MapCalls /\ \A d \in MapCalls : PublishFits(d)' BY <3>2, RequestsFit DEF NoMap
    <3> QED BY <3>2, <3>3 DEF MapsInv, Numbered, NoMap, KeepsPublished
  <2>2. CASE StillDraft(mapReq[c].rev)
    <3>1. PICK x : x = mapReq[c].rev OBVIOUS
    <3>2. PICK d : d = mapReq[c].def OBVIOUS
    <3>3. /\ revs' = [revs EXCEPT ![x].def = d] /\ mapReq' = [mapReq EXCEPT ![c] = Waits] /\ Waits.pc = "wait"
          /\ x \in DOMAIN revs /\ revs[x].state = "draft"
      BY <1>1, <2>2, <3>1, <3>2 DEF UpdateDraft, StillDraft, Reply, Waits
    <3>4. ~NoMap BY <3>3 DEF NoMap
    <3>5. PICK n \in Nat \ {0} : Numbered(n) BY <3>4 DEF MapsInv
    <3>6. /\ DOMAIN revs' = DOMAIN revs
          /\ \A r \in DOMAIN revs : r # x => revs'[r] = revs[r]
          /\ revs'[x] = [revs[x] EXCEPT !.def = d]
      BY <3>3
    <3>7. revs'[x].state = "draft" /\ DOMAIN revs'[x] = DOMAIN revs[x] BY <3>3, <3>5, <3>6 DEF Numbered
    <3>8. Numbered(n)' BY <3>3, <3>5, <3>6, <3>7 DEF Numbered
    <3>9. KeepsPublished BY <3>3, <3>6 DEF KeepsPublished
    <3>10. DOMAIN mapReq' = MapCalls /\ \A e \in MapCalls : PublishFits(e)' BY <3>3, <3>4, <3>6, RequestsFit
    <3> QED BY <3>8, <3>9, <3>10 DEF MapsInv
  <2> QED BY <2>1, <2>2
<1>2. CASE OpenDraft(c)
  <2>0. mapReq' = [mapReq EXCEPT ![c] = Waits] /\ Waits.pc = "wait" BY <1>2 DEF OpenDraft, Reply, Waits
  <2>1. CASE NoMap
    <3>1. revs' = revs BY <1>2, <2>1 DEF OpenDraft
    <3>2. DOMAIN mapReq' = MapCalls /\ \A e \in MapCalls : PublishFits(e)' BY <2>0, <3>1, RequestsFit DEF NoMap
    <3> QED BY <2>1, <3>1, <3>2 DEF MapsInv, NoMap, KeepsPublished
  <2>2. CASE ~NoMap
    <3>1. PICK n \in Nat \ {0} : Numbered(n) BY <2>2 DEF MapsInv
    <3>2. Newest(DOMAIN revs \cup {0}) = n
      <4>1. DOMAIN revs \cup {0} \in SUBSET (0..n) /\ n \in DOMAIN revs \cup {0} BY <3>1 DEF Numbered
      <4> QED BY <4>1, NewestIs
    <3>3. PICK d : d = mapReq[c].def OBVIOUS
    <3>4. revs' = Revise(revs, n + 1, [state |-> "draft", def |-> d]) BY <1>2, <2>2, <3>2, <3>3 DEF OpenDraft
    <3>5. Numbered(n + 1)' /\ DOMAIN revs \subseteq DOMAIN revs' /\ \A r \in DOMAIN revs : revs'[r] = revs[r]
      BY <3>1, <3>4, OneMoreDraft
    <3>6. DOMAIN mapReq' = MapCalls /\ \A e \in MapCalls : PublishFits(e)' BY <2>0, <2>2, <3>5, RequestsFit
    <3> QED BY <3>5, <3>6 DEF MapsInv, KeepsPublished
  <2> QED BY <2>1, <2>2
<1>3. CASE CommitPublish(c)
  <2>0. /\ mapReq' = [mapReq EXCEPT ![c] = Waits] /\ Waits.pc = "wait" /\ mapReq[c].pc = "bind"
    BY <1>3 DEF CommitPublish, Reply, Waits
  <2>1. CASE ~FreshDraft(mapReq[c].rev)
    <3>1. revs' = revs BY <1>3, <2>1 DEF CommitPublish
    <3>2. DOMAIN mapReq' = MapCalls /\ \A e \in MapCalls : PublishFits(e)' BY <2>0, <3>1, RequestsFit DEF NoMap
    <3> QED BY <3>1, <3>2 DEF MapsInv, NoMap, Numbered, KeepsPublished
  <2>2. CASE FreshDraft(mapReq[c].rev)
    <3>1. PICK n \in Nat \ {0} : Numbered(n) BY <2>2 DEF MapsInv, FreshDraft
    <3>2. mapReq[c].rev = n
      BY <2>0, <2>2, <3>1 DEF MapsInv, PublishFits, FreshDraft, Numbered
    <3>3. PICK kept : revs' = Revise(Revise(revs, n, [state |-> "published", def |-> kept]),
                                     n + 1, [state |-> "draft", def |-> mapReq[c].def])
      BY <1>3, <2>2, <3>2 DEF CommitPublish
    <3>4. DOMAIN revs' = 1..(n + 1) BY <3>1, <3>3 DEF Revise, Numbered
    <3>5. \A r \in 1..(n - 1) : revs'[r] = revs[r] BY <3>1, <3>3 DEF Revise, Numbered
    <3>6. revs'[n] = [state |-> "published", def |-> kept] BY <3>1, <3>3 DEF Revise, Numbered
    <3>7. revs'[n + 1] = [state |-> "draft", def |-> mapReq[c].def] BY <3>1, <3>3 DEF Revise, Numbered
    <3>8. Numbered(n + 1)'
      <4>1. \A r \in 1..(n + 1) : r = n + 1 \/ r = n \/ r \in 1..(n - 1) OBVIOUS
      <4>2. {"state", "def"} \subseteq DOMAIN revs'[n] BY <3>6
      <4>3. {"state", "def"} \subseteq DOMAIN revs'[n + 1] BY <3>7
      <4>4. \A r \in 1..(n + 1) : {"state", "def"} \subseteq DOMAIN revs'[r]
        BY <3>1, <3>5, <4>1, <4>2, <4>3 DEF Numbered
      <4> QED BY <3>4, <3>7, <4>4 DEF Numbered
    <3>9. KeepsPublished
      <4>1. \A r \in DOMAIN revs : r = n \/ r \in 1..(n - 1) BY <3>1 DEF Numbered
      <4> QED BY <3>1, <3>4, <3>5, <4>1 DEF KeepsPublished, Numbered
    <3>10. ~NoMap /\ DOMAIN revs \subseteq DOMAIN revs' BY <2>2, <3>1, <3>4 DEF FreshDraft, Numbered
    <3>11. DOMAIN mapReq' = MapCalls /\ \A e \in MapCalls : PublishFits(e)' BY <2>0, <3>10, RequestsFit
    <3> QED BY <3>8, <3>9, <3>11 DEF MapsInv
  <2> QED BY <2>1, <2>2
<1> QED BY <1>1, <1>2, <1>3

LEMMA ReadersKeep ==
  ASSUME MapsInv, NEW c \in MapCalls,
         \/ Publish(c) \/ linkBindings(c) \/ GenerateFromTopology(c) \/ \E def \in Drawings : SaveDraft(c, def)
         \/ \E e \in mapReq[c].left : BindEnd(c, e)
  PROVE  MapsInv' /\ KeepsPublished
<1>0. revs' = revs BY DEF Publish, linkBindings, GenerateFromTopology, SaveDraft, BindEnd
<1>1. SUFFICES ASSUME \E v : /\ mapReq' = [mapReq EXCEPT ![c] = v]
                             /\ v.pc \in {"prior", "bind"} =>
                                  {"pc", "rev"} \subseteq DOMAIN v /\ (~NoMap => v.rev \in DOMAIN revs)
               PROVE  MapsInv' /\ KeepsPublished
  <2>1. CASE Publish(c)
    <3>1. ~NoMap BY <2>1 DEF Publish, Drafts, NoMap
    <3>2. PICK n \in Nat \ {0} : Numbered(n) BY <3>1 DEF MapsInv
    <3>3. Newest(Drafts) = n
      <4>1. Drafts \in SUBSET (0..n) /\ n \in Drafts BY <3>2 DEF Numbered, Drafts
      <4> QED BY <4>1, NewestIs
    <3>4. PICK v : v = [pc |-> "prior", rev |-> n, def |-> revs[n].def] OBVIOUS
    <3>5. mapReq' = [mapReq EXCEPT ![c] = v] BY <2>1, <3>3, <3>4 DEF Publish, Goto
    <3>6. {"pc", "rev"} \subseteq DOMAIN v /\ v.rev \in DOMAIN revs BY <3>2, <3>4 DEF Numbered
    <3> QED BY <1>1, <3>5, <3>6
  <2>2. CASE linkBindings(c)
    <3>1. PICK v : v = [pc |-> "bind", rev |-> mapReq[c].rev, def |-> mapReq[c].def, prior |-> mapLinks,
                        left |-> BoundEnds(mapReq[c].def), bound |-> <<>>, healed |-> FALSE]
      OBVIOUS
    <3>2. mapReq' = [mapReq EXCEPT ![c] = v] /\ mapReq[c].pc = "prior" BY <2>2, <3>1 DEF linkBindings, Goto
    <3>3. {"pc", "rev"} \subseteq DOMAIN v /\ v.rev = mapReq[c].rev BY <3>1
    <3>4. ~NoMap => v.rev \in DOMAIN revs BY <3>2, <3>3 DEF MapsInv, PublishFits
    <3> QED BY <1>1, <3>2, <3>3, <3>4
  <2>3. ASSUME NEW def \in Drawings, SaveDraft(c, def) PROVE MapsInv' /\ KeepsPublished
    <3>1. PICK v : v = Saving(def, revs) OBVIOUS
    <3>2. mapReq' = [mapReq EXCEPT ![c] = v] /\ v.pc = "save" BY <2>3, <3>1 DEF SaveDraft, Goto, Saving
    <3> QED BY <1>1, <3>2
  <2>4. ASSUME NEW e \in mapReq[c].left, BindEnd(c, e) PROVE MapsInv' /\ KeepsPublished
    <3>1. PICK q : q = mapReq[c] OBVIOUS
    <3>2. q.pc = "bind" /\ {"pc", "rev"} \subseteq DOMAIN q /\ (~NoMap => q.rev \in DOMAIN revs)
      BY <2>4, <3>1 DEF BindEnd, MapsInv, PublishFits
    <3>3. mapReq' = [mapReq EXCEPT ![c] = Waits] \/ \E p, def : mapReq' = [mapReq EXCEPT ![c] = Took(q, e, p, def)]
      BY <2>4, <3>1 DEF BindEnd, Goto, Reply
    <3>4. ASSUME NEW p, NEW def
          PROVE  {"pc", "rev"} \subseteq DOMAIN Took(q, e, p, def) /\ Took(q, e, p, def).rev = q.rev
      BY <3>2 DEF Took
    <3>5. Waits.pc = "wait" BY DEF Waits
    <3> QED BY <1>1, <3>2, <3>3, <3>4, <3>5
  <2>5. CASE GenerateFromTopology(c)
    <3>1. PICK v : v = [pc |-> "suggest", was |-> ports] OBVIOUS
    <3>2. mapReq' = [mapReq EXCEPT ![c] = v] /\ v.pc = "suggest" BY <2>5, <3>1 DEF GenerateFromTopology, Goto
    <3> QED BY <1>1, <3>2
  <2> QED BY <2>1, <2>2, <2>3, <2>4, <2>5
<1>2. PICK v : /\ mapReq' = [mapReq EXCEPT ![c] = v]
               /\ v.pc \in {"prior", "bind"} =>
                    {"pc", "rev"} \subseteq DOMAIN v /\ (~NoMap => v.rev \in DOMAIN revs)
  BY <1>1
<1>3. DOMAIN mapReq' = MapCalls /\ \A e \in MapCalls : PublishFits(e)' BY <1>0, <1>2, RequestsFit DEF NoMap
<1> QED BY <1>0, <1>3 DEF MapsInv, NoMap, Numbered, KeepsPublished

LEMMA MapRowsKeep ==
  ASSUME MapsInv,
         \/ CreateMap \/ DeleteMap
         \/ \E c \in MapCalls : \E def \in Generated(mapReq[c].was) : CreateGenerated(c, def)
         \/ \E p \in PortRows : PortGoes(p) \/ \E i \in Indexes : PortFound(p, i)
  PROVE  MapsInv' /\ KeepsPublished
<1>1. CASE CreateMap
  <2>1. NoMap /\ CreateRows /\ UNCHANGED mapReq BY <1>1 DEF CreateMap
  <2>2. Numbered(1)' /\ \A c \in MapCalls : mapReq[c].pc \in {"wait", "suggest"} BY <2>1, CreatedFits
  <2>3. \A c \in MapCalls : PublishFits(c)' BY <2>1, <2>2 DEF PublishFits
  <2> QED BY <2>1, <2>2, <2>3 DEF MapsInv, KeepsPublished, NoMap
<1>2. CASE DeleteMap
  <2>1. revs' = <<>> /\ UNCHANGED mapReq BY <1>2 DEF DeleteMap
  <2> QED BY <2>1 DEF MapsInv, KeepsPublished, NoMap, PublishFits
<1>3. ASSUME NEW c \in MapCalls, NEW def, CreateGenerated(c, def)
      PROVE  MapsInv' /\ KeepsPublished
  <2>1. CASE def.nodes = {}
    <3>1. UNCHANGED revs /\ mapReq' = [mapReq EXCEPT ![c] = Waits] /\ Waits.pc = "wait"
      BY <1>3, <2>1 DEF CreateGenerated, Reply, Waits
    <3>2. DOMAIN mapReq' = MapCalls /\ \A e \in MapCalls : PublishFits(e)' BY <3>1, RequestsFit DEF NoMap
    <3> QED BY <3>1, <3>2 DEF MapsInv, NoMap, Numbered, KeepsPublished
  <2>2. CASE def.nodes # {}
    <3>1. PICK v : v = Saving(def, revs') OBVIOUS
    <3>2. NoMap /\ CreateRows /\ mapReq' = [mapReq EXCEPT ![c] = v] BY <1>3, <2>2, <3>1 DEF CreateGenerated, Goto
    <3>3. v.pc = "save" BY <3>1 DEF Saving
    <3>4. Numbered(1)' /\ \A d \in MapCalls : mapReq[d].pc \in {"wait", "suggest"} BY <3>2, CreatedFits
    <3>5. DOMAIN mapReq' = MapCalls /\ \A d \in MapCalls : PublishFits(d)'
      BY <3>2, <3>3, <3>4 DEF MapsInv, PublishFits
    <3> QED BY <3>2, <3>4, <3>5 DEF MapsInv, KeepsPublished, NoMap
  <2> QED BY <2>1, <2>2
<1>4. CASE \E p \in PortRows : PortGoes(p) \/ \E i \in Indexes : PortFound(p, i)
  <2>1. UNCHANGED <<revs, mapReq>> BY <1>4 DEF PortGoes, PortFound
  <2> QED BY <2>1 DEF MapsInv, KeepsPublished, NoMap, PublishFits, Numbered
<1> QED BY <1>1, <1>2, <1>3, <1>4

LEMMA MapsStep ==
  ASSUME MapsInv, [MapsNext]_mapsVars
  PROVE  MapsInv' /\ KeepsPublished
<1>1. CASE UNCHANGED mapsVars
  BY <1>1 DEF mapsVars, MapsInv, KeepsPublished, NoMap, PublishFits, Numbered
<1>2. CASE MapsNext BY <1>2, MapRowsKeep, WritersKeep, ReadersKeep DEF MapsNext
<1> QED BY <1>1, <1>2

\* "A published MapRevision is immutable" (docs/15-entity-model.md): whoever
\* saves, publishes or generates at the same time, and however many requests
\* are served at once, a published revision is not written again while its
\* map exists (Store.SaveDraft, Store.Publish).
THEOREM PublishedStays == MapsSpec => PublishedImmutable
<1>1. MapsInit => MapsInv
  BY DEF MapsInit, MapsInv, NoMap, PublishFits, Waits
<1>2. MapsInv /\ [MapsNext]_mapsVars => MapsInv' BY MapsStep
<1>3. MapsInv /\ [MapsNext]_mapsVars =>
        [\A r \in DOMAIN revs :
           revs[r].state = "published" /\ ~NoMap' => r \in DOMAIN revs' /\ revs'[r] = revs[r]]_mapsVars
  BY MapsStep DEF KeepsPublished
<1> QED BY <1>1, <1>2, <1>3, PTL DEF MapsSpec, PublishedImmutable

-----------------------------------------------------------------------------
(* The draft generated from neighbours and descriptions.                   *)

\* The names of a device, as sequences of words.
Words == DOMAIN WordLength

LEMMA OneKey ==
  ASSUME NEW words \in Seq(Words)
  PROVE  Key(words) \in Seq(Seq(Words))
<1>1. <<words>> \in Seq(Seq(Words))
  OBVIOUS
<1> QED BY <1>1 DEF Key

LEMMA KeysTyped ==
  ASSUME NEW d \in MapDevices
  PROVE  deviceKeys(d) \in Seq(Seq(Words))
<1> PICK sys : sys = DeviceNames[d].sysName
  OBVIOUS
<1>1. DeviceNames[d].name \in Seq(Words) /\ sys \in Seq(Seq(Words))
  BY MapsAssumption DEF Words
<1>2. FlattenSeq(sys) \in Seq(Words)
  BY <1>1, FlattenTyped
<1>3. Key(DeviceNames[d].name) \in Seq(Seq(Words)) /\ Key(FlattenSeq(sys)) \in Seq(Seq(Words))
  BY <1>1, <1>2, OneKey
<1> PICK first : first = IF Len(sys) > 1 THEN Key(sys[1]) ELSE <<>>
  OBVIOUS
<1>4. first \in Seq(Seq(Words))
  <2>1. CASE Len(sys) > 1
    <3>1. sys[1] \in Seq(Words)
      BY <1>1, <2>1
    <3> QED BY <2>1, <3>1, OneKey
  <2>2. CASE ~(Len(sys) > 1)
    BY <2>2
  <2> QED BY <2>1, <2>2
<1>5. deviceKeys(d) = Key(DeviceNames[d].name) \o Key(FlattenSeq(sys)) \o first
  BY Zenon DEF deviceKeys
<1> QED BY <1>3, <1>4, <1>5, ConcatProperties

LEMMA LettersCount ==
  ASSUME NEW key \in Seq(Words)
  PROVE  KeyLength(key) \in Nat
<1> PICK n : n = Len(key)
  OBVIOUS
<1>1. n \in Nat /\ DOMAIN key = 1..n /\ \A i \in 1..n : WordLength[key[i]] \in Nat
  BY MapsAssumption DEF Words
<1>8. PICK r : Runs(r, "letters", key, 0, n) /\ r[n] = KeyLength(key)
  <2> DEFINE F(h) == [s \in SUBSET DOMAIN key |-> IF s = {} THEN 0 ELSE h[s \ {Max(s)}] + WordLength[key[Max(s)]]]
  <2>1. PICK x : Iterates(x, "letters", key, 0, SUBSET (1..n))
    BY <1>1, IteratesExist
  <2>2. ASSUME NEW h PROVE F(h) = [s \in SUBSET (1..n) |-> Iterate(h, "letters", key, 0, s)]
    BY <1>1 DEF Iterate, FoldStep
  <2>3. x = F(x)
    <3> HIDE DEF F
    <3> QED BY <2>1, <2>2 DEF Iterates
  <2>4. PICK h : h = F(h) /\ KeyLength(key) = h[DOMAIN key]
    <3> PICK h : h = CHOOSE y : y = F(y)
      OBVIOUS
    <3>1. KeyLength(key) = h[DOMAIN key]
      BY Zenon DEF KeyLength, FoldLeft, MapThenFoldSet
    <3>2. h = F(h)
      <4> HIDE DEF F
      <4> QED BY <2>3, Zenon
    <3> HIDE DEF F
    <3> QED BY <3>1, <3>2
  <2> HIDE DEF F
  <2>5. Iterates(h, "letters", key, 0, SUBSET (1..n))
    BY <2>2, <2>4 DEF Iterates
  <2>6. FoldsTo(h[1..n], "letters", key, 0, n)
    BY <1>1, <2>5, LeftToRight
  <2>7. KeyLength(key) = h[1..n]
    BY <1>1, <2>4
  <2> QED BY <2>6, <2>7 DEF FoldsTo
<1>9. r[0] = 0 /\ \A i \in 1..n : r[i] = r[i - 1] + WordLength[key[i]]
  BY <1>8 DEF Runs, FoldStep
<1> DEFINE A == {i \in 0..n : r[i] \in Nat}
<1>10. 0 \in A
  BY <1>1, <1>9
<1>11. ASSUME NEW i \in 0..(n - 1), i \in A PROVE i + 1 \in A
  <2>1. i + 1 \in 1..n /\ i + 1 \in 0..n /\ (i + 1) - 1 = i
    BY <1>1
  <2>2. r[i + 1] = r[i] + WordLength[key[i + 1]] /\ r[i] \in Nat /\ WordLength[key[i + 1]] \in Nat
    BY <1>1, <1>9, <1>11, <2>1
  <2> QED BY <2>1, <2>2
<1>12. n \in A
  <2> HIDE DEF A
  <2>1. 0..n \subseteq A
    BY <1>1, <1>10, <1>11, UpToAll
  <2> QED BY <1>1, <2>1
<1> QED BY <1>8, <1>12

\* A match under way, and what was weighed so far: pairs of a device and the
\* length of a name of it.
Matching == [dev : MapDevices \cup {NoPeer}, len : Nat, tied : BOOLEAN]

BestOf(b, P) ==
  /\ b \in Matching
  /\ \A x \in P : x[2] \in Nat /\ x[2] <= b.len
  /\ ~b.tied => \A x \in P : x[1] # b.dev => x[2] < b.len
  /\ b.dev # NoPeer => <<b.dev, b.len>> \in P

LEMMA WeighOne ==
  ASSUME NEW b, NEW P, BestOf(b, P), NEW d \in MapDevices, NEW n \in Nat
  PROVE  BestOf(Weigh(b, d, n), P \cup {<<d, n>>})
<1>0. b \in Matching /\ b.len \in Nat /\ b.tied \in BOOLEAN /\ d # NoPeer
  BY MapsAssumption DEF BestOf, Matching
<1>1. CASE n > b.len
  <2> PICK w : w = [dev |-> d, len |-> n, tied |-> FALSE]
    OBVIOUS
  <2>1. Weigh(b, d, n) = w /\ w \in Matching
    BY <1>1 DEF Weigh, Matching
  <2>2. \A x \in P \cup {<<d, n>>} : x[2] \in Nat /\ x[2] <= n /\ (x[1] # d => x[2] < n)
    BY <1>0, <1>1 DEF BestOf
  <2>3. BestOf(w, P \cup {<<d, n>>})
    BY <2>1, <2>2 DEF BestOf
  <2> QED BY <2>1, <2>3
<1>2. CASE ~(n > b.len) /\ n = b.len /\ d # b.dev
  <2> PICK w : w = [b EXCEPT !.tied = TRUE]
    OBVIOUS
  <2>1. Weigh(b, d, n) = w
    BY <1>2 DEF Weigh
  <2>2. w \in Matching /\ w.dev = b.dev /\ w.len = b.len /\ w.tied
    BY <1>0 DEF Matching
  <2>3. BestOf(w, P \cup {<<d, n>>})
    BY <1>2, <2>2 DEF BestOf
  <2> QED BY <2>1, <2>3
<1>3. CASE ~(n > b.len) /\ ~(n = b.len /\ d # b.dev)
  <2>1. Weigh(b, d, n) = b
    BY <1>3 DEF Weigh
  <2>2. n <= b.len /\ (d # b.dev => n < b.len)
    BY <1>0, <1>3
  <2>3. BestOf(b, P \cup {<<d, n>>})
    BY <2>2 DEF BestOf
  <2> QED BY <2>1, <2>3
<1> QED BY <1>1, <1>2, <1>3

\* The first k names of a device that the text has.
Weighed(text, d, k) ==
  {<<d, KeyLength(deviceKeys(d)[i])>> : i \in {j \in 1..k : NamedIn(text, deviceKeys(d)[j])}}

LEMMA OneMoreName ==
  ASSUME NEW text, NEW d, NEW k \in Nat \ {0}
  PROVE  Weighed(text, d, k) =
           IF NamedIn(text, deviceKeys(d)[k]) THEN Weighed(text, d, k - 1) \cup {<<d, KeyLength(deviceKeys(d)[k])>>}
           ELSE Weighed(text, d, k - 1)
<1> DEFINE J(m) == {j \in 1..m : NamedIn(text, deviceKeys(d)[j])}
<1>1. 1..k = 1..(k - 1) \cup {k}
  OBVIOUS
<1>2. J(k) = IF NamedIn(text, deviceKeys(d)[k]) THEN J(k - 1) \cup {k} ELSE J(k - 1)
  BY <1>1, Zenon
<1>3. \A m : Weighed(text, d, m) = {<<d, KeyLength(deviceKeys(d)[i])>> : i \in J(m)}
  BY DEF Weighed
<1> HIDE DEF J
<1> QED BY <1>2, <1>3

LEMMA WeighNames ==
  ASSUME NEW text, NEW b, NEW P, BestOf(b, P), NEW d \in MapDevices
  PROVE  BestOf(WeighKeys(text, b, d), P \cup Weighed(text, d, Len(deviceKeys(d))))
<1> PICK keys : keys = deviceKeys(d)
  OBVIOUS
<1> PICK n : n = Len(keys)
  OBVIOUS
<1>1. keys \in Seq(Seq(Words))
  BY KeysTyped
<1>2. n \in Nat /\ DOMAIN keys = 1..n /\ \A i \in 1..n : keys[i] \in Seq(Words) /\ KeyLength(keys[i]) \in Nat
  BY <1>1, LettersCount
<1> PICK a : a = [text |-> text, dev |-> d, keys |-> keys]
  OBVIOUS
<1>3. PICK r : Runs(r, "keys", a, b, n) /\ r[n] = WeighKeys(text, b, d)
  <2> DEFINE F(h) == [s \in SUBSET DOMAIN keys |->
                        IF s = {} THEN b
                        ELSE IF NamedIn(text, keys[Max(s)]) THEN Weigh(h[s \ {Max(s)}], d, KeyLength(keys[Max(s)]))
                        ELSE h[s \ {Max(s)}]]
  <2>1. PICK x : Iterates(x, "keys", a, b, SUBSET (1..n))
    BY <1>2, IteratesExist
  <2>2. ASSUME NEW h PROVE F(h) = [s \in SUBSET (1..n) |-> Iterate(h, "keys", a, b, s)]
    <3>1. a.text = text /\ a.dev = d /\ a.keys = keys
      OBVIOUS
    <3> QED BY <1>2, <3>1 DEF Iterate, FoldStep
  <2>3. x = F(x)
    <3> HIDE DEF F
    <3> QED BY <2>1, <2>2 DEF Iterates
  <2>4. PICK h : h = F(h) /\ WeighKeys(text, b, d) = h[DOMAIN keys]
    <3> PICK h : h = CHOOSE y : y = F(y)
      OBVIOUS
    <3>1. WeighKeys(text, b, d) = h[DOMAIN keys]
      BY Zenon DEF WeighKeys, FoldLeft, MapThenFoldSet
    <3>2. h = F(h)
      <4> HIDE DEF F
      <4> QED BY <2>3, Zenon
    <3> HIDE DEF F
    <3> QED BY <3>1, <3>2
  <2> HIDE DEF F
  <2>5. Iterates(h, "keys", a, b, SUBSET (1..n))
    BY <2>2, <2>4 DEF Iterates
  <2>6. FoldsTo(h[1..n], "keys", a, b, n)
    BY <1>2, <2>5, LeftToRight
  <2>7. WeighKeys(text, b, d) = h[1..n]
    BY <1>2, <2>4
  <2> QED BY <2>6, <2>7 DEF FoldsTo
<1>4. r[0] = b /\ \A i \in 1..n : r[i] = IF NamedIn(text, keys[i]) THEN Weigh(r[i - 1], d, KeyLength(keys[i])) ELSE r[i - 1]
  <2>1. a.text = text /\ a.dev = d /\ a.keys = keys
    OBVIOUS
  <2> QED BY <1>3, <2>1 DEF Runs, FoldStep
<1> DEFINE A == {i \in 0..n : BestOf(r[i], P \cup Weighed(text, d, i))}
<1>5. 0 \in A
  <2>1. Weighed(text, d, 0) = {}
    BY DEF Weighed
  <2>2. BestOf(r[0], P \cup Weighed(text, d, 0))
    BY <1>4, <2>1
  <2> QED BY <1>2, <2>2
<1>6. ASSUME NEW i \in 0..(n - 1), i \in A PROVE i + 1 \in A
  <2> PICK k : k = i + 1
    OBVIOUS
  <2>1. k \in 1..n /\ k \in 0..n /\ k - 1 = i /\ k \in Nat \ {0}
    BY <1>2
  <2> PICK v : v = r[k - 1]
    OBVIOUS
  <2> PICK Q : Q = P \cup Weighed(text, d, k - 1)
    OBVIOUS
  <2>2. BestOf(v, Q)
    BY <1>6, <2>1
  <2>3. CASE NamedIn(text, keys[k])
    <3>1. r[k] = Weigh(v, d, KeyLength(keys[k])) /\ KeyLength(keys[k]) \in Nat
      BY <1>2, <1>4, <2>1, <2>3
    <3>2. P \cup Weighed(text, d, k) = Q \cup {<<d, KeyLength(keys[k])>>}
      BY <2>1, <2>3, OneMoreName
    <3>3. BestOf(Weigh(v, d, KeyLength(keys[k])), Q \cup {<<d, KeyLength(keys[k])>>})
      BY <2>2, <3>1, WeighOne
    <3> QED BY <2>1, <3>1, <3>2, <3>3
  <2>4. CASE ~NamedIn(text, keys[k])
    <3>1. r[k] = v
      BY <1>4, <2>1, <2>4
    <3>2. P \cup Weighed(text, d, k) = Q
      BY <2>1, <2>4, OneMoreName
    <3> QED BY <2>1, <2>2, <3>1, <3>2
  <2> QED BY <2>3, <2>4
<1>7. n \in A
  <2> HIDE DEF A
  <2>1. 0..n \subseteq A
    BY <1>2, <1>5, <1>6, UpToAll
  <2> QED BY <1>2, <2>1
<1> QED BY <1>3, <1>7

\* Every name weighed of the first k devices listed.
WeighedTo(text, listed, exclude, k) ==
  UNION {Weighed(text, listed[i], Len(deviceKeys(listed[i]))) : i \in {j \in 1..k : listed[j] # exclude}}

LEMMA OneMoreDevice ==
  ASSUME NEW text, NEW listed, NEW exclude, NEW k \in Nat \ {0}
  PROVE  WeighedTo(text, listed, exclude, k) =
           IF listed[k] = exclude THEN WeighedTo(text, listed, exclude, k - 1)
           ELSE WeighedTo(text, listed, exclude, k - 1) \cup Weighed(text, listed[k], Len(deviceKeys(listed[k])))
<1> DEFINE J(m) == {j \in 1..m : listed[j] # exclude}
<1> DEFINE W(i) == Weighed(text, listed[i], Len(deviceKeys(listed[i])))
<1>1. 1..k = 1..(k - 1) \cup {k}
  OBVIOUS
<1>2. J(k) = IF listed[k] = exclude THEN J(k - 1) ELSE J(k - 1) \cup {k}
  BY <1>1, Zenon
<1>3. \A m : WeighedTo(text, listed, exclude, m) = UNION {W(i) : i \in J(m)}
  BY DEF WeighedTo
<1> HIDE DEF J, W
<1>4. WeighedTo(text, listed, exclude, k) =
        IF listed[k] = exclude THEN WeighedTo(text, listed, exclude, k - 1)
        ELSE WeighedTo(text, listed, exclude, k - 1) \cup W(k)
  <2>1. CASE listed[k] = exclude
    BY <1>2, <1>3, <2>1
  <2>2. CASE listed[k] # exclude
    <3>1. J(k) = J(k - 1) \cup {k}
      BY <1>2, <2>2
    <3>2. UNION {W(i) : i \in J(k)} = (UNION {W(i) : i \in J(k - 1)}) \cup W(k)
      BY <3>1
    <3> QED BY <1>3, <2>2, <3>2
  <2> QED BY <2>1, <2>2
<1> QED BY <1>4 DEF W

LEMMA WeighAll ==
  ASSUME NEW text, NEW listed \in Seq(MapDevices), NEW exclude
  PROVE  BestOf(WeighDevices(text, listed, exclude), WeighedTo(text, listed, exclude, Len(listed)))
<1> PICK n : n = Len(listed)
  OBVIOUS
<1>1. n \in Nat /\ DOMAIN listed = 1..n /\ \A i \in 1..n : listed[i] \in MapDevices
  OBVIOUS
<1> PICK b : b = [dev |-> NoPeer, len |-> 0, tied |-> FALSE]
  OBVIOUS
<1> PICK a : a = [text |-> text, devices |-> listed, exclude |-> exclude]
  OBVIOUS
<1>2. a.text = text /\ a.devices = listed /\ a.exclude = exclude
  OBVIOUS
<1>3. PICK r : Runs(r, "devices", a, b, n) /\ r[n] = WeighDevices(text, listed, exclude)
  <2> DEFINE F(h) == [s \in SUBSET DOMAIN listed |->
                        IF s = {} THEN b
                        ELSE IF listed[Max(s)] = exclude THEN h[s \ {Max(s)}]
                        ELSE WeighKeys(text, h[s \ {Max(s)}], listed[Max(s)])]
  <2>1. PICK x : Iterates(x, "devices", a, b, SUBSET (1..n))
    BY <1>1, IteratesExist
  <2>2. ASSUME NEW h PROVE F(h) = [s \in SUBSET (1..n) |-> Iterate(h, "devices", a, b, s)]
    BY <1>1, <1>2 DEF Iterate, FoldStep
  <2>3. x = F(x)
    <3> HIDE DEF F
    <3> QED BY <2>1, <2>2 DEF Iterates
  <2>4. PICK h : h = F(h) /\ WeighDevices(text, listed, exclude) = h[DOMAIN listed]
    <3> PICK h : h = CHOOSE y : y = F(y)
      OBVIOUS
    <3>1. WeighDevices(text, listed, exclude) = h[DOMAIN listed]
      BY Zenon DEF WeighDevices, FoldLeft, MapThenFoldSet
    <3>2. h = F(h)
      <4> HIDE DEF F
      <4> QED BY <2>3, Zenon
    <3> HIDE DEF F
    <3> QED BY <3>1, <3>2
  <2> HIDE DEF F
  <2>5. Iterates(h, "devices", a, b, SUBSET (1..n))
    BY <2>2, <2>4 DEF Iterates
  <2>6. FoldsTo(h[1..n], "devices", a, b, n)
    BY <1>1, <2>5, LeftToRight
  <2>7. WeighDevices(text, listed, exclude) = h[1..n]
    BY <1>1, <2>4
  <2> QED BY <2>6, <2>7 DEF FoldsTo
<1>4. r[0] = b /\ \A i \in 1..n : r[i] = IF listed[i] = exclude THEN r[i - 1] ELSE WeighKeys(text, r[i - 1], listed[i])
  <2>1. r[0] = b /\ \A i \in 1..n : r[i] = FoldStep("devices", a, i, r[i - 1])
    BY <1>3 DEF Runs
  <2>2. ASSUME NEW i, NEW v
        PROVE  FoldStep("devices", a, i, v) = IF listed[i] = exclude THEN v ELSE WeighKeys(text, v, listed[i])
    BY <1>2 DEF FoldStep
  <2> QED BY <2>1, <2>2
<1> DEFINE A == {i \in 0..n : BestOf(r[i], WeighedTo(text, listed, exclude, i))}
<1>5. 0 \in A
  <2>1. WeighedTo(text, listed, exclude, 0) = {}
    BY DEF WeighedTo
  <2>2. BestOf(b, {})
    BY DEF BestOf, Matching
  <2>3. BestOf(r[0], WeighedTo(text, listed, exclude, 0))
    BY <1>4, <2>1, <2>2
  <2> QED BY <1>1, <2>3
<1>6. ASSUME NEW i \in 0..(n - 1), i \in A PROVE i + 1 \in A
  <2> PICK k : k = i + 1
    OBVIOUS
  <2>1. k \in 1..n /\ k \in 0..n /\ k - 1 = i /\ k \in Nat \ {0} /\ listed[k] \in MapDevices
    BY <1>1
  <2> PICK v : v = r[k - 1]
    OBVIOUS
  <2> PICK Q : Q = WeighedTo(text, listed, exclude, k - 1)
    OBVIOUS
  <2> PICK d : d = listed[k]
    OBVIOUS
  <2>2. BestOf(v, Q)
    BY <1>6, <2>1
  <2>3. CASE d # exclude
    <3>1. r[k] = WeighKeys(text, v, d)
      BY <1>4, <2>1, <2>3
    <3>2. WeighedTo(text, listed, exclude, k) = Q \cup Weighed(text, d, Len(deviceKeys(d)))
      BY <2>1, <2>3, OneMoreDevice
    <3>3. BestOf(WeighKeys(text, v, d), Q \cup Weighed(text, d, Len(deviceKeys(d))))
      BY <2>1, <2>2, WeighNames
    <3> QED BY <2>1, <3>1, <3>2, <3>3
  <2>4. CASE d = exclude
    <3>1. r[k] = v
      BY <1>4, <2>1, <2>4
    <3>2. WeighedTo(text, listed, exclude, k) = Q
      <4>1. listed[k] = exclude /\ k \in Nat \ {0}
        BY <2>1, <2>4
      <4>2. WeighedTo(text, listed, exclude, k) = WeighedTo(text, listed, exclude, k - 1)
        BY <4>1, OneMoreDevice
      <4> QED BY <4>2
    <3> QED BY <2>1, <2>2, <3>1, <3>2
  <2> QED BY <2>3, <2>4
<1>7. n \in A
  <2> HIDE DEF A
  <2>1. 0..n \subseteq A
    BY <1>1, <1>5, <1>6, UpToAll
  <2> QED BY <1>1, <2>1
<1> QED BY <1>3, <1>7

\* A listing of the devices has each of them.
LEMMA ListsAll ==
  ASSUME NEW listed \in SetToSeqs(MapDevices)
  PROVE  listed \in Seq(MapDevices) /\ \A d \in MapDevices : \E i \in 1..Len(listed) : listed[i] = d
<1> PICK n : n = Cardinality(MapDevices)
  OBVIOUS
<1>1. n \in Nat /\ IsFiniteSet(MapDevices)
  BY MapsAssumption, FS_CardinalityType
<1>2. listed \in [1..n -> MapDevices] /\ \A i, j \in 1..n : i # j => listed[i] # listed[j]
  BY DEF SetToSeqs
<1>3. listed \in Seq(MapDevices) /\ Len(listed) = n
  BY <1>1, <1>2
<1>4. listed \in Injection(1..n, MapDevices)
  BY <1>2 DEF Injection, IsInjective
<1>5. Cardinality(1..n) = n
  BY <1>1, FS_Interval
<1>6. listed \in Surjection(1..n, MapDevices)
  BY <1>1, <1>4, <1>5, FS_Injection
<1>7. ASSUME NEW d \in MapDevices PROVE \E i \in 1..n : listed[i] = d
  BY <1>6 DEF Surjection
<1> QED BY <1>3, <1>7

\* The device a text names: better than it names any third one.
LEMMA MatchNames ==
  ASSUME NEW p \in PortRows, NEW listed \in SetToSeqs(MapDevices), NEW d,
         d = matchDevice(PortText[p], listed, PortDevice[p]), d # NoPeer
  PROVE  NamesOnly(p, d)
<1> PICK text : text = PortText[p]
  OBVIOUS
<1> PICK ex : ex = PortDevice[p]
  OBVIOUS
<1> PICK n : n = Len(listed)
  OBVIOUS
<1> PICK P : P = WeighedTo(text, listed, ex, n)
  OBVIOUS
<1> PICK b : b = WeighDevices(text, listed, ex)
  OBVIOUS
<1>1. listed \in Seq(MapDevices) /\ \A x \in MapDevices : \E i \in 1..n : listed[i] = x
  BY ListsAll
<1>2. BestOf(b, P)
  BY <1>1, WeighAll
<1>3. ~b.tied /\ b.dev = d
  BY DEF matchDevice
<1>4. <<d, b.len>> \in P /\ \A x \in P : x[1] # d => x[2] < b.len
  BY <1>2, <1>3 DEF BestOf
<1>5. PICK i \in 1..n : listed[i] # ex /\ <<d, b.len>> \in Weighed(text, listed[i], Len(deviceKeys(listed[i])))
  BY <1>4 DEF WeighedTo
<1>6. listed[i] = d /\ d \in MapDevices /\ d # ex
  BY <1>1, <1>5 DEF Weighed
<1>7. PICK j \in 1..Len(deviceKeys(d)) : NamedIn(text, deviceKeys(d)[j]) /\ b.len = KeyLength(deviceKeys(d)[j])
  BY <1>5, <1>6 DEF Weighed
<1>8. \A e \in MapDevices : \A k \in Range(deviceKeys(e)) : \E m \in 1..Len(deviceKeys(e)) : k = deviceKeys(e)[m]
  BY KeysTyped DEF Range
<1>9. \A e \in MapDevices : \A m \in 1..Len(deviceKeys(e)) : deviceKeys(e)[m] \in Range(deviceKeys(e))
  BY KeysTyped DEF Range
<1>10. <<d, deviceKeys(d)[j]>> \in Found(p)
  <2> PICK k : k = deviceKeys(d)[j]
    OBVIOUS
  <2>1. k \in Range(deviceKeys(d)) /\ NamedIn(PortText[p], k)
    BY <1>6, <1>7, <1>9
  <2> QED BY <1>6, <2>1 DEF Found
<1>11. ASSUME NEW x \in Found(p), x[1] # d PROVE KeyLength(x[2]) < b.len
  <2>1. x[1] \in MapDevices /\ x[1] # ex /\ x[2] \in Range(deviceKeys(x[1])) /\ NamedIn(text, x[2])
    BY DEF Found
  <2> PICK e : e = x[1]
    OBVIOUS
  <2>2. PICK m \in 1..Len(deviceKeys(e)) : x[2] = deviceKeys(e)[m]
    BY <1>8, <2>1
  <2>3. PICK l \in 1..n : listed[l] = e
    BY <1>1, <2>1
  <2>4. <<e, KeyLength(x[2])>> \in Weighed(text, e, Len(deviceKeys(e)))
    BY <2>1, <2>2 DEF Weighed
  <2>5. <<e, KeyLength(x[2])>> \in P
    BY <2>1, <2>3, <2>4 DEF WeighedTo
  <2> QED BY <1>4, <1>11, <2>5
<1>12. \E dk \in Found(p) : dk[1] = d /\ \A x \in Found(p) : x[1] # d => KeyLength(x[2]) < KeyLength(dk[2])
  BY <1>7, <1>10, <1>11
<1> QED BY <1>12 DEF NamesOnly

LEMMA HeardFaces ==
  ASSUME NEW was, NEW s \in FromLLDP(was), s.idx > 0
  PROVE  Faces(was, s.a, s.b, s.idx)
<1>1. PICK t \in Adjacencies : s = [a |-> t.a, idx |-> IF t.port = NoPort THEN 0 ELSE was[t.port].idx, b |-> t.b]
  BY DEF FromLLDP
<1>2. s.a = t.a /\ s.b = t.b /\ s.idx = IF t.port = NoPort THEN 0 ELSE was[t.port].idx
  BY <1>1
<1>3. t.port # NoPort /\ s.idx = was[t.port].idx
  <2>1. CASE t.port = NoPort
    <3>1. s.idx = 0
      BY <1>2, <2>1
    <3> QED BY <3>1
  <2>2. CASE t.port # NoPort
    BY <1>2, <2>2
  <2> QED BY <2>1, <2>2
<1>4. t \in [a : MapDevices, port : PortRows \cup {NoPort}, b : MapDevices \cup {NoPeer}]
  BY MapsAssumption
<1>5. t.port \in PortRows /\ PortDevice[t.port] = t.a
  BY <1>3, MapsAssumption
<1>6. t = [a |-> s.a, port |-> t.port, b |-> s.b]
  BY <1>2, <1>4
<1>7. [a |-> s.a, port |-> t.port, b |-> s.b] \in Adjacencies
  BY <1>6
<1> QED BY <1>2, <1>3, <1>5, <1>7 DEF Faces

LEMMA DescribedFaces ==
  ASSUME NEW was, NEW listed \in SetToSeqs(MapDevices), NEW s \in SuggestFromDescriptions(listed)
  PROVE  Faces(was, s.a, s.b, s.idx)
<1>1. PICK p \in PortRows :
        /\ ports[p].state = "present"
        /\ s = [a |-> PortDevice[p], idx |-> ports[p].idx, b |-> matchDevice(PortText[p], listed, PortDevice[p])]
  BY DEF SuggestFromDescriptions, Claims
<1>2. s.a = PortDevice[p] /\ s.idx = ports[p].idx /\ s.b = matchDevice(PortText[p], listed, PortDevice[p])
  BY <1>1
<1>3. s.b # NoPeer
  BY DEF SuggestFromDescriptions
<1>4. NamesOnly(p, s.b)
  BY <1>2, <1>3, MatchNames
<1> QED BY <1>1, <1>2, <1>4 DEF Faces

LEMMA SuggestedFaces ==
  ASSUME NEW was, NEW listed \in SetToSeqs(MapDevices), NEW sugs \in Suggestions(listed, was),
         NEW s \in sugs, s.idx > 0
  PROVE  Faces(was, s.a, s.b, s.idx)
<1> PICK new : new = {x \in SuggestFromDescriptions(listed) : \A t \in FromLLDP(was) : Between(x) # Between(t)}
  OBVIOUS
<1> PICK pairs : pairs = {Between(x) : x \in new}
  OBVIOUS
<1>1. PICK pick \in [pairs -> new] : sugs = FromLLDP(was) \cup {pick[pr] : pr \in pairs}
  BY DEF Suggestions
<1>2. CASE s \in FromLLDP(was)
  BY <1>2, HeardFaces
<1>3. CASE s \notin FromLLDP(was)
  <2>1. s \in new
    BY <1>1, <1>3
  <2>2. s \in SuggestFromDescriptions(listed)
    BY <2>1
  <2> QED BY <2>2, DescribedFaces
<1> QED BY <1>2, <1>3

LEMMA EndFaces ==
  ASSUME NEW was, NEW listed \in SetToSeqs(MapDevices), NEW sugs \in Suggestions(listed, was), NEW drawn \in SUBSET sugs,
         NEW x, NEW y, NEW end \in EndsSeen(drawn, x, y), end # NoEnd
  PROVE  end.dev = x /\ Faces(was, x, y, end.idx)
<1> PICK seen : seen = {s.idx : s \in {t \in drawn : t.a = x /\ t.b = y /\ t.idx > 0}}
  OBVIOUS
<1>1. end \in (IF seen = {} THEN {NoEnd} ELSE {[dev |-> x, idx |-> i] : i \in seen})
  BY DEF EndsSeen
<1>2. PICK i \in seen : end = [dev |-> x, idx |-> i]
  BY <1>1
<1>3. PICK s \in drawn : s.a = x /\ s.b = y /\ s.idx > 0 /\ i = s.idx
  BY <1>2
<1>4. Faces(was, s.a, s.b, s.idx)
  BY <1>3, SuggestedFaces
<1> QED BY <1>2, <1>3, <1>4

\* A link of a generated document, for some suggestions.
LEMMA LinksDrawn ==
  ASSUME NEW sugs, NEW def \in BuildTopologyDefinition(sugs), NEW i \in DOMAIN def.links
  PROVE  \E drawn \in SUBSET sugs : \E k : def.links[i] \in LinkOf(drawn, k)
<1> DEFINE drawn == {s \in sugs : s.b # NoPeer /\ s.a # s.b}
<1> DEFINE nodes == UNION {Between(s) : s \in drawn}
<1> DEFINE pairs == {k \in nodes \X nodes : k[1] < k[2] /\ \E s \in drawn : Between(s) = {k[1], k[2]}}
<1> DEFINE L(keys) == {f \in [DOMAIN keys -> UNION {LinkOf(drawn, k) : k \in pairs}] :
                         \A j \in DOMAIN keys : f[j] \in LinkOf(drawn, keys[j])}
<1>1. def \in {[nodes |-> nodes, links |-> ls] : ls \in UNION {L(keys) : keys \in Sorted(pairs)}}
  BY Zenon DEF BuildTopologyDefinition
<1>0. drawn \in SUBSET sugs
  OBVIOUS
<1> HIDE DEF drawn, nodes, pairs
<1>2. PICK keys : \E ls \in L(keys) : def = [nodes |-> nodes, links |-> ls]
  <2> HIDE DEF L
  <2>1. PICK ls \in UNION {L(keys) : keys \in Sorted(pairs)} : def = [nodes |-> nodes, links |-> ls]
    BY <1>1
  <2>2. PICK keys \in Sorted(pairs) : ls \in L(keys)
    BY <2>1
  <2> QED BY <2>1, <2>2
<1>3. PICK ls \in L(keys) : def = [nodes |-> nodes, links |-> ls]
  BY <1>2
<1>4. DOMAIN ls = DOMAIN keys /\ \A j \in DOMAIN keys : ls[j] \in LinkOf(drawn, keys[j])
  BY <1>3
<1>5. def.links = ls
  BY <1>3
<1> QED BY <1>0, <1>4, <1>5

LEMMA GeneratedFaces ==
  ASSUME NEW was, NEW def \in Generated(was), NEW e \in BoundEnds(def), NEW l, l = def.links[e[1]],
         NEW own, own = IF e[2] = "a" THEN l.from ELSE l.to,
         NEW far, far = IF e[2] = "a" THEN l.to ELSE l.from
  PROVE  l[e[2]].dev = own /\ Faces(was, own, far, l[e[2]].idx)
<1>1. PICK listed \in SetToSeqs(MapDevices) : \E sugs \in Suggestions(listed, was) : def \in BuildTopologyDefinition(sugs)
  BY DEF Generated
<1>2. PICK sugs \in Suggestions(listed, was) : def \in BuildTopologyDefinition(sugs)
  BY <1>1
<1>3. e[1] \in DOMAIN def.links /\ e[2] \in {"a", "b"} /\ l[e[2]] # NoEnd
  BY DEF BoundEnds
<1>4. PICK drawn \in SUBSET sugs : \E k : l \in LinkOf(drawn, k)
  BY <1>2, <1>3, LinksDrawn
<1>5. PICK k : l \in LinkOf(drawn, k)
  BY <1>4
<1>6. PICK a \in EndsSeen(drawn, k[1], k[2]), b \in EndsSeen(drawn, k[2], k[1]) :
        l = [from |-> k[1], to |-> k[2], a |-> a, b |-> b]
  BY <1>5 DEF LinkOf
<1>7. l.from = k[1] /\ l.to = k[2] /\ l["a"] = a /\ l["b"] = b
  BY <1>6
<1>8. CASE e[2] = "a"
  <2>1. own = k[1] /\ far = k[2] /\ l[e[2]] = a /\ a # NoEnd
    BY <1>3, <1>7, <1>8
  <2> QED BY <2>1, EndFaces
<1>9. CASE e[2] = "b"
  <2>1. own = k[2] /\ far = k[1] /\ l[e[2]] = b /\ b # NoEnd
    BY <1>3, <1>7, <1>9
  <2> QED BY <2>1, EndFaces
<1> QED BY <1>3, <1>8, <1>9

\* Whatever order the devices were listed in, whatever their ports say and
\* whatever a sync does between the reads, a generated link is bound to ports
\* of its ends that face each other by an adjacency, or by a description that
\* names the other end better than any third device (generate.go, describe.go).
THEOREM GeneratedReported == MapsSpec => []GeneratedIsReported
<1>1. GeneratedIsReported
  <2> DEFINE Own(l, e) == IF e[2] = "a" THEN l.from ELSE l.to
  <2> DEFINE Far(l, e) == IF e[2] = "a" THEN l.to ELSE l.from
  <2>1. ASSUME NEW was, NEW def \in Generated(was), NEW e \in BoundEnds(def)
        PROVE  LET l == def.links[e[1]]
               IN l[e[2]].dev = Own(l, e) /\ Faces(was, Own(l, e), Far(l, e), l[e[2]].idx)
    <3> PICK l : l = def.links[e[1]]
      OBVIOUS
    <3> PICK own : own = Own(l, e)
      OBVIOUS
    <3> PICK far : far = Far(l, e)
      OBVIOUS
    <3>1. l[e[2]].dev = own /\ Faces(was, own, far, l[e[2]].idx)
      BY GeneratedFaces
    <3> QED BY <3>1
  <2> QED BY <2>1, Zenon DEF GeneratedIsReported
<1> QED BY <1>1, PTL

-----------------------------------------------------------------------------
(* The catalogue's tables.                                                 *)

DeviceFields == {"addr", "status", "site", "cred", "profile", "alts", "name"}

\* A device in service has its schedules on.
Polled(row, rows) ==
  row.status \in {"pending", "active"} => \A f \in DOMAIN rows : rows[f].enabled = TRUE

\* A device has the families of its profile, in service or not: enabling it
\* turns on what is there.
PairFits(row, rows) ==
  /\ DOMAIN row = DeviceFields /\ DOMAIN rows = FamiliesOn[row.profile]
  /\ \A f \in DOMAIN rows : DOMAIN rows[f] = {"pace", "enabled"}
  /\ Polled(row, rows)

TablesFit ==
  /\ DOMAIN schedules = DOMAIN devices
  /\ \A d \in DOMAIN devices : PairFits(devices[d], schedules[d])

\* New schedules of a profile, rows being the old ones.
Renewed(new, rows, profile) ==
  /\ DOMAIN new = FamiliesOn[profile]
  /\ \A f \in DOMAIN new :
       /\ DOMAIN new[f] = {"pace", "enabled"}
       /\ (f \in DOMAIN rows => rows[f].enabled = TRUE) => new[f].enabled = TRUE

LEMMA ScheduledFits ==
  ASSUME NEW rows, NEW profile, NEW interval
  PROVE  Renewed(Scheduled(rows, profile, interval), rows, profile)
<1> DEFINE S == Scheduled(rows, profile, interval)
<1>1. DOMAIN S = FamiliesOn[profile]
  BY DEF Scheduled
<1>2. ASSUME NEW f \in FamiliesOn[profile]
      PROVE  S[f] = [pace |-> IF f \in Paced THEN interval[f] ELSE 0,
                     enabled |-> f \in DOMAIN rows => rows[f].enabled]
  BY <1>2 DEF Scheduled
<1>3. ASSUME NEW f \in FamiliesOn[profile], f \in DOMAIN rows => rows[f].enabled = TRUE
      PROVE  S[f].enabled = TRUE
  <2>1. (f \in DOMAIN rows => rows[f].enabled) = TRUE
    BY <1>3, Zenon
  <2>2. S[f] = [pace |-> IF f \in Paced THEN interval[f] ELSE 0, enabled |-> TRUE]
    BY <1>2, <1>3, <2>1, Zenon
  <2> QED BY <2>2
<1>4. ASSUME NEW f \in FamiliesOn[profile] PROVE DOMAIN S[f] = {"pace", "enabled"}
  <2>1. PICK b : b = (f \in DOMAIN rows => rows[f].enabled)
    OBVIOUS
  <2>2. S[f] = [pace |-> IF f \in Paced THEN interval[f] ELSE 0, enabled |-> b]
    BY <1>2, <1>4, <2>1, Zenon
  <2> QED BY <2>2
<1> HIDE DEF S
<1>5. Renewed(S, rows, profile)
  BY <1>1, <1>3, <1>4 DEF Renewed
<1> QED BY <1>5 DEF S

Turned(new, rows, on) ==
  /\ DOMAIN new = DOMAIN rows
  /\ \A f \in DOMAIN rows : DOMAIN new[f] = {"pace", "enabled"} /\ new[f].enabled = on

LEMMA SwitchedFits ==
  ASSUME NEW rows, NEW on, \A f \in DOMAIN rows : DOMAIN rows[f] = {"pace", "enabled"}
  PROVE  Turned(Switched(rows, on), rows, on)
BY DEF Switched, Turned

\* A write of one row and its schedules leaves the others alone.
LEMMA OneRow ==
  ASSUME TablesFit, NEW d, NEW row, NEW rows,
         devices' = [devices EXCEPT ![d] = row], schedules' = [schedules EXCEPT ![d] = rows],
         d \in DOMAIN devices => PairFits(row, rows)
  PROVE  TablesFit'
BY DEF TablesFit

LEMMA CommitCreateFits ==
  ASSUME TablesFit, NEW r \in Requests, CommitCreate(r)
  PROVE  TablesFit'
<1> PICK d, in, pc : d = req[r].dev /\ in = req[r].in /\ pc = req[r].pace
  OBVIOUS
<1> PICK row, rows : row = NewDevice(in) /\ rows = Scheduled(<<>>, in.profile, pc)
  OBVIOUS
<1>1. devices' = Inserting(devices, d, row) /\ schedules' = Inserting(schedules, d, rows)
  BY DEF CommitCreate
<1>2. DOMAIN row = DeviceFields /\ row.profile = in.profile
  BY DEF NewDevice, DeviceFields
<1>3. /\ DOMAIN rows = FamiliesOn[in.profile]
      /\ \A f \in DOMAIN rows : DOMAIN rows[f] = {"pace", "enabled"} /\ rows[f].enabled = TRUE
  <2>1. PICK none : none = <<>> /\ DOMAIN none = {}
    OBVIOUS
  <2>2. Renewed(rows, none, in.profile)
    BY <2>1, ScheduledFits
  <2> QED BY <2>1, <2>2 DEF Renewed
<1>4. PairFits(row, rows)
  BY <1>2, <1>3 DEF PairFits, Polled
<1> QED BY <1>1, <1>4 DEF TablesFit, Inserting

LEMMA CommitUpdateFits ==
  ASSUME TablesFit, NEW r \in Requests, CommitUpdate(r)
  PROVE  TablesFit'
<1> PICK d, in, pc : d = req[r].dev /\ in = req[r].in /\ pc = req[r].pace
  OBVIOUS
<1> PICK row, rows :
      /\ row = [devices[d] EXCEPT !.addr = in.addr, !.site = in.site, !.cred = in.cred,
                                  !.profile = in.profile, !.alts = req[r].alts]
      /\ rows = Scheduled(schedules[d], in.profile, pc)
  OBVIOUS
<1>1. devices' = [devices EXCEPT ![d] = row] /\ schedules' = [schedules EXCEPT ![d] = rows]
  BY DEF CommitUpdate
<1>2. ASSUME d \in DOMAIN devices PROVE PairFits(row, rows)
  <2>1. DOMAIN devices[d] = DeviceFields /\ Polled(devices[d], schedules[d])
    BY <1>2 DEF TablesFit, PairFits
  <2>2. DOMAIN row = DeviceFields /\ row.status = devices[d].status /\ row.profile = in.profile
    BY <2>1 DEF DeviceFields
  <2>3. /\ DOMAIN rows = FamiliesOn[in.profile]
        /\ \A f \in DOMAIN rows : /\ DOMAIN rows[f] = {"pace", "enabled"}
                                  /\ (f \in DOMAIN schedules[d] => schedules[d][f].enabled = TRUE)
                                       => rows[f].enabled = TRUE
    <3>1. Renewed(rows, schedules[d], in.profile)
      BY ScheduledFits
    <3> QED BY <3>1 DEF Renewed
  <2> QED BY <2>1, <2>2, <2>3 DEF PairFits, Polled
<1> QED BY <1>1, <1>2, OneRow

LEMMA SetStatusFits ==
  ASSUME TablesFit, NEW d, NEW status \in {"active", "disabled", "retired"}, SetStatus(d, status)
  PROVE  TablesFit'
<1> PICK on : on = (status = "active")
  OBVIOUS
<1> PICK row, rows : /\ row = [devices[d] EXCEPT !.status = status]
                     /\ rows = Switched(schedules[d], on)
  OBVIOUS
<1>1. devices' = [devices EXCEPT ![d] = row] /\ schedules' = [schedules EXCEPT ![d] = rows]
  BY DEF SetStatus
<1>2. PairFits(devices[d], schedules[d])
  BY DEF TablesFit, SetStatus
<1>3. /\ DOMAIN rows = DOMAIN schedules[d]
      /\ \A f \in DOMAIN rows : DOMAIN rows[f] = {"pace", "enabled"} /\ rows[f].enabled = on
  <2>1. Turned(rows, schedules[d], on)
    BY <1>2, SwitchedFits DEF PairFits
  <2> QED BY <2>1 DEF Turned
<1>4. DOMAIN row = DeviceFields /\ row.status = status /\ row.profile = devices[d].profile
  BY <1>2 DEF PairFits, DeviceFields
<1>5. status = "active" => on = TRUE
  BY Zenon
<1>6. PairFits(row, rows)
  BY <1>2, <1>3, <1>4, <1>5 DEF PairFits, Polled
<1> QED BY <1>1, <1>6, OneRow

\* A row written without its schedules: in service only if it was.
LEMMA RowFits ==
  ASSUME TablesFit, NEW d \in DOMAIN devices, NEW row, UNCHANGED schedules,
         devices' = [devices EXCEPT ![d] = row], DOMAIN row = DeviceFields,
         row.profile = devices[d].profile,
         row.status \in {"pending", "active"} => devices[d].status \in {"pending", "active"}
  PROVE  TablesFit'
BY DEF TablesFit, PairFits, Polled

LEMMA IdentifyFits ==
  ASSUME TablesFit, NEW d, NEW name, Identify(d, name)
  PROVE  TablesFit'
<1> PICK row : row = [devices[d] EXCEPT !.status = "active", !.name = name]
  OBVIOUS
<1>1. /\ d \in DOMAIN devices /\ devices[d].status \in {"pending", "active"} /\ UNCHANGED schedules
      /\ devices' = [devices EXCEPT ![d] = row]
  BY DEF Identify
<1>2. DOMAIN devices[d] = DeviceFields
  BY <1>1 DEF TablesFit, PairFits
<1>3. DOMAIN row = DeviceFields /\ row.profile = devices[d].profile
  BY <1>2 DEF DeviceFields
<1> QED BY <1>1, <1>3, RowFits

LEMMA AddAltFits ==
  ASSUME TablesFit, NEW d, NEW a, AddAltAddress(d, a)
  PROVE  TablesFit'
<1> PICK row : row = [devices[d] EXCEPT !.alts = @ \cup {a}]
  OBVIOUS
<1>1. /\ d \in DOMAIN devices /\ UNCHANGED schedules
      /\ devices' = [devices EXCEPT ![d] = row]
  BY DEF AddAltAddress, LiveDevices
<1>2. DOMAIN devices[d] = DeviceFields
  BY <1>1 DEF TablesFit, PairFits
<1>3. DOMAIN row = DeviceFields /\ row.profile = devices[d].profile /\ row.status = devices[d].status
  BY <1>2 DEF DeviceFields
<1> QED BY <1>1, <1>3, RowFits

LEMMA PurgeFits ==
  ASSUME TablesFit, NEW r \in Requests, Purge(r)
  PROVE  TablesFit'
BY DEF Purge, TablesFit, Restrict

LEMMA MergeFits ==
  ASSUME TablesFit, NEW r \in Requests, Merge(r), req[r].dup # req[r].dev
  PROVE  TablesFit'
<1> PICK keep, dup, alts : keep = req[r].dev /\ dup = req[r].dup /\ alts = req[r].alts
  OBVIOUS
<1>1. CASE UNCHANGED <<devices, schedules>>
  BY <1>1 DEF TablesFit
<1>2. CASE /\ devices' = [d \in DOMAIN devices |->
                            IF d = keep THEN [devices[d] EXCEPT !.alts = @ \cup alts]
                            ELSE IF d = dup THEN [devices[d] EXCEPT !.status = "retired"]
                            ELSE devices[d]]
           /\ schedules' = [d \in DOMAIN schedules |->
                              IF d = dup THEN Switched(schedules[d], FALSE) ELSE schedules[d]]
  <2>1. DOMAIN devices' = DOMAIN devices /\ DOMAIN schedules' = DOMAIN devices
    BY <1>2 DEF TablesFit
  <2>2. ASSUME NEW d \in DOMAIN devices PROVE PairFits(devices'[d], schedules'[d])
    <3>1. PairFits(devices[d], schedules[d])
      BY DEF TablesFit
    <3>2. CASE d # dup /\ d # keep
      BY <1>2, <2>1, <3>1, <3>2 DEF TablesFit
    <3>3. CASE d # dup /\ d = keep
      <4>1. devices'[d] = [devices[d] EXCEPT !.alts = @ \cup alts] /\ schedules'[d] = schedules[d]
        BY <1>2, <2>1, <3>3
      <4>2. /\ DOMAIN devices'[d] = DeviceFields /\ devices'[d].status = devices[d].status
            /\ devices'[d].profile = devices[d].profile
        BY <3>1, <4>1 DEF PairFits, DeviceFields
      <4> QED BY <3>1, <4>1, <4>2 DEF PairFits, Polled
    <3>4. CASE d = dup
      <4>1. PICK rows : rows = Switched(schedules[d], FALSE)
        OBVIOUS
      <4>2. schedules'[d] = rows
        BY <1>2, <2>1, <3>4, <4>1
      <4>3. /\ DOMAIN rows = DOMAIN schedules[d]
            /\ \A f \in DOMAIN rows : DOMAIN rows[f] = {"pace", "enabled"}
        <5>1. Turned(rows, schedules[d], FALSE)
          BY <3>1, <4>1, SwitchedFits DEF PairFits
        <5> QED BY <5>1 DEF Turned
      <4>4. devices'[d] = [devices[d] EXCEPT !.status = "retired"]
        BY <1>2, <2>1, <3>4
      <4>5. /\ DOMAIN devices'[d] = DeviceFields /\ devices'[d].status = "retired"
            /\ devices'[d].profile = devices[d].profile
        BY <3>1, <4>4 DEF PairFits, DeviceFields
      <4> QED BY <3>1, <4>2, <4>3, <4>5 DEF PairFits, Polled
    <3> QED BY <3>2, <3>3, <3>4
  <2> QED BY <2>1, <2>2 DEF TablesFit
<1> QED BY <1>1, <1>2 DEF Merge

LEMMA SetPaceFits ==
  ASSUME TablesFit, NEW p, SetPace(p)
  PROVE  TablesFit'
<1>1. UNCHANGED devices /\ DOMAIN schedules' = DOMAIN schedules
  BY DEF SetPace
<1>2. ASSUME NEW d \in DOMAIN devices PROVE PairFits(devices[d], schedules'[d])
  <2>1. PairFits(devices[d], schedules[d]) /\ d \in DOMAIN schedules
    BY DEF TablesFit
  <2>2. DOMAIN schedules'[d] = DOMAIN schedules[d]
    BY <2>1 DEF SetPace
  <2>3. ASSUME NEW f \in DOMAIN schedules[d]
        PROVE  /\ DOMAIN schedules'[d][f] = {"pace", "enabled"}
               /\ schedules'[d][f].enabled = schedules[d][f].enabled
    <3>1. \/ schedules'[d][f] = schedules[d][f]
          \/ schedules'[d][f] = [schedules[d][f] EXCEPT !.pace = pace'[f]]
      BY <2>1 DEF SetPace
    <3>2. DOMAIN schedules[d][f] = {"pace", "enabled"}
      BY <2>1 DEF PairFits
    <3> QED BY <3>1, <3>2
  <2> QED BY <2>1, <2>2, <2>3 DEF PairFits, Polled
<1> QED BY <1>1, <1>2 DEF TablesFit

-----------------------------------------------------------------------------
(* Pages of a finite set of numbers.                                       *)

LEMMA SmallFinite ==
  ASSUME NEW n \in Nat, NEW A \in SUBSET (1..n)
  PROVE  IsFiniteSet(A) /\ Cardinality(A) \in Nat
<1>1. IsFiniteSet(1..n)
  BY FS_Interval
<1>2. IsFiniteSet(A)
  BY <1>1, FS_Subset
<1> QED BY <1>2, FS_CardinalityType

UpTo(S, d) == {e \in S : e <= d}
Front1(S, k) == {d \in S : Cardinality(UpTo(S, d)) <= k + 1}

LEMMA FrontCloses ==
  ASSUME NEW n \in Nat, NEW S \in SUBSET (1..n), NEW k \in Nat,
         NEW g \in Front1(S, k), NEW d \in S, d <= g
  PROVE  d \in Front1(S, k)
<1>0. g \in 1..n /\ d \in 1..n /\ \A e \in S : e \in 1..n
  BY DEF Front1
<1>1. UpTo(S, d) \subseteq UpTo(S, g) /\ UpTo(S, g) \in SUBSET (1..n) /\ UpTo(S, d) \in SUBSET (1..n)
  <2>1. ASSUME NEW e \in S, e <= d PROVE e <= g
    <3>1. e \in Int /\ d \in Int /\ g \in Int
      BY <1>0
    <3> QED BY <2>1, <3>1
  <2> QED BY <2>1 DEF UpTo
<1>2. /\ IsFiniteSet(UpTo(S, g)) /\ Cardinality(UpTo(S, g)) \in Nat
      /\ Cardinality(UpTo(S, d)) \in Nat
  BY <1>1, SmallFinite
<1>3. Cardinality(UpTo(S, d)) <= Cardinality(UpTo(S, g))
  BY <1>1, <1>2, FS_Subset
<1> QED BY <1>2, <1>3 DEF Front1

\* A fetch that fills no more than the page has fetched all there is.
LEMMA ShortFetch ==
  ASSUME NEW n \in Nat, NEW S \in SUBSET (1..n), NEW k \in Nat,
         Cardinality(Front1(S, k)) <= k
  PROVE  Front1(S, k) = S
<1> PICK F : F = Front1(S, k)
  OBVIOUS
<1>1. F \subseteq S
  BY DEF Front1
<1> SUFFICES ASSUME S \ F # {} PROVE FALSE
  BY <1>1
<1>0. \A e \in S : e \in 1..n /\ e \in Nat
  OBVIOUS
<1>2. PICK m \in S \ F : \A x \in S \ F : m <= x
  <2>1. S \ F \in SUBSET Nat
    BY <1>0
  <2> QED BY <2>1, LeastOf
<1>3. UpTo(S, m) \subseteq F \cup {m}
  <2>1. ASSUME NEW e \in S, e <= m, e \notin F PROVE e = m
    <3>1. e \in Int /\ m \in Int /\ m <= e
      BY <1>0, <1>2, <2>1
    <3> QED BY <2>1, <3>1
  <2> QED BY <2>1 DEF UpTo
<1>4. F \in SUBSET (1..n) /\ UpTo(S, m) \in SUBSET (1..n)
  BY <1>1 DEF UpTo
<1>5. IsFiniteSet(F) /\ Cardinality(F) \in Nat /\ Cardinality(UpTo(S, m)) \in Nat
  BY <1>4, SmallFinite
<1>6. IsFiniteSet(F \cup {m}) /\ Cardinality(F \cup {m}) = Cardinality(F) + 1
  <2>1. m \notin F
    BY <1>2
  <2> QED BY <1>5, <2>1, FS_AddElement
<1>7. Cardinality(UpTo(S, m)) <= Cardinality(F) + 1
  BY <1>3, <1>6, FS_Subset
<1>8. Cardinality(UpTo(S, m)) <= k + 1
  BY <1>5, <1>7
<1> QED BY <1>2, <1>8 DEF Front1

\* A full page ends before a row that is fetched with it.
\* A page shows everything of S up to its last number.
ShowsTo(S, page, last) ==
  /\ page # {} /\ last \in page /\ \A d \in page : d <= last
  /\ \A d \in S : d <= last => d \in page

LEMMA FullPage ==
  ASSUME NEW n \in Nat, NEW S \in SUBSET (1..n), NEW k \in Nat \ {0}, NEW got, got = Front1(S, k),
         Cardinality(got) > k, NEW page, page = got \ {Max(got)}
  PROVE  ShowsTo(S, page, Max(page))
<1>1. got \subseteq S /\ got \in SUBSET (1..n)
  BY DEF Front1
<1>2. IsFiniteSet(got) /\ Cardinality(got) \in Nat
  BY <1>1, SmallFinite
<1>3. got # {}
  <2>1. Cardinality(got) # 0
    BY <1>2
  <2> QED BY <2>1, FS_EmptySet
<1>4. Max(got) \in got /\ \A x \in got : x <= Max(got)
  BY <1>1, <1>3, MaxOf
<1>5. page # {}
  <2>1. Cardinality(page) = Cardinality(got) - 1
    BY <1>2, <1>4, FS_RemoveElement
  <2>2. Cardinality(page) # 0
    BY <1>2, <2>1
  <2> QED BY <2>2, FS_EmptySet
<1>6. page \in SUBSET (1..n)
  BY <1>1
<1>7. Max(page) \in page /\ \A d \in page : d <= Max(page)
  BY <1>5, <1>6, MaxOf
<1>8. ASSUME NEW d \in S, d <= Max(page) PROVE d \in page
  <2>1. Max(page) \in got /\ Max(page) # Max(got) /\ Max(page) <= Max(got)
    BY <1>4, <1>7
  <2>2. Max(page) \in 1..n /\ Max(got) \in 1..n
    BY <1>1, <1>4, <2>1
  <2>3. d \in got
    BY <1>8, <2>1, FrontCloses
  <2>4. d # Max(got)
    BY <1>8, <2>1, <2>2
  <2> QED BY <2>3, <2>4
<1> QED BY <1>5, <1>7, <1>8 DEF ShowsTo

-----------------------------------------------------------------------------
(* The requests being served, and the listings among them.                 *)

\* What a listing has shown is what has stayed up to its cursor.
ListFits(q, stay, n) ==
  /\ DOMAIN q = {"op", "pc", "cursor", "seen", "rows"} /\ q.pc \in {"page", "shown"}
  /\ q.cursor \in Nat /\ q.seen \in SUBSET (1..n) /\ q.rows = Cardinality(q.seen)
  /\ q.pc = "page" => /\ \A d \in q.seen : d <= q.cursor
                      /\ \A d \in stay : d <= q.cursor => d \in q.seen
  /\ q.pc = "shown" => stay \subseteq q.seen

\* A merge is of two devices, and an id about to be inserted has been minted.
PlainFits(q, n) ==
  /\ "op" \in DOMAIN q /\ q.op # "list"
  /\ q.op # "idle" => "pc" \in DOMAIN q
  /\ q.op = "merge" => q.dup # q.dev
  /\ q.op = "create" /\ q.pc = "commit" => q.dev \in 1..n

RequestFits(q, stay, n) == IF q.op = "list" THEN ListFits(q, stay, n) ELSE PlainFits(q, n)

SlotsFit ==
  /\ minted \in Nat /\ DOMAIN devices \subseteq 1..minted
  /\ DOMAIN req = Requests
  /\ \A r \in Requests : RequestFits(req[r], stayed[r], minted)

\* A step in which slot r comes to serve q.
Serves(r, q) == req' = [req EXCEPT ![r] = q]
Grows == minted' \in Nat /\ minted <= minted' /\ DOMAIN devices' \subseteq 1..minted'

LEMMA FitsOn ==
  ASSUME NEW q, NEW stay, NEW n \in Nat, RequestFits(q, stay, n),
         NEW m \in Nat, n <= m, NEW some \in SUBSET stay
  PROVE  RequestFits(q, some, m)
<1>1. 1..n \subseteq 1..m
  OBVIOUS
<1>2. CASE q.op = "list"
  <2>1. ListFits(q, stay, n)
    BY <1>2 DEF RequestFits
  <2>2. q.seen \in SUBSET (1..m)
    BY <1>1, <2>1 DEF ListFits
  <2>3. ListFits(q, some, m)
    BY <2>1, <2>2 DEF ListFits
  <2> QED BY <1>2, <2>3 DEF RequestFits
<1>3. CASE q.op # "list"
  <2>1. PlainFits(q, m)
    BY <1>1, <1>3 DEF RequestFits, PlainFits
  <2> QED BY <1>3, <2>1 DEF RequestFits
<1> QED BY <1>2, <1>3

\* What has stayed for a slot whose request goes on.
LEMMA Staying ==
  ASSUME SlotsFit, Grows, Watch, NEW e \in Requests, req'[e] = req[e]
  PROVE  RequestFits(req'[e], stayed'[e], minted')
<1>1. CASE req[e].op = "list"
  <2>1. stayed'[e] \in SUBSET stayed[e]
    BY <1>1 DEF Watch
  <2> QED BY <2>1, FitsOn DEF SlotsFit, Grows
<1>2. CASE req[e].op # "list"
  <2>1. RequestFits(req[e], stayed[e], minted')
    BY FitsOn DEF SlotsFit, Grows
  <2> QED BY <1>2, <2>1 DEF RequestFits
<1> QED BY <1>1, <1>2

LEMMA ServeStep ==
  ASSUME SlotsFit, Grows, Watch, NEW r \in Requests, NEW q, Serves(r, q),
         RequestFits(q, stayed'[r], minted')
  PROVE  SlotsFit'
<1>1. DOMAIN req' = Requests /\ req'[r] = q /\ \A e \in Requests : e # r => req'[e] = req[e]
  BY DEF Serves, SlotsFit
<1>2. \A e \in Requests : e # r => RequestFits(req'[e], stayed'[e], minted')
  BY <1>1, Staying
<1> QED BY <1>1, <1>2 DEF SlotsFit, Grows

LEMMA PlainStep ==
  ASSUME SlotsFit, Grows, Watch, NEW r \in Requests, NEW q, Serves(r, q), PlainFits(q, minted')
  PROVE  SlotsFit'
<1>1. RequestFits(q, stayed'[r], minted')
  BY DEF RequestFits, PlainFits
<1> QED BY <1>1, ServeStep

LEMMA RestStep ==
  ASSUME SlotsFit, Grows, Watch, UNCHANGED req
  PROVE  SlotsFit'
<1>1. \A e \in Requests : RequestFits(req'[e], stayed'[e], minted')
  BY Staying
<1> QED BY <1>1 DEF SlotsFit, Grows

LEMMA StartListFits ==
  ASSUME SlotsFit, Grows, Watch, NEW r \in Requests, StartList(r), UNCHANGED <<devices, minted>>
  PROVE  SlotsFit'
<1> PICK q : q = [op |-> "list", pc |-> "page", cursor |-> 0, seen |-> {}, rows |-> 0]
  OBVIOUS
<1>1. Serves(r, q) /\ req[r] = Idle /\ req'[r] = q
  BY DEF StartList, Begin, Serves, SlotsFit
<1>2. stayed'[r] = LiveDevices(devices)
  <2>1. req[r].op # "list" /\ req'[r].op = "list"
    BY <1>1 DEF Idle
  <2> QED BY <2>1 DEF Watch
<1>3. \A d \in stayed'[r] : ~(d <= 0)
  <2>1. \A d \in stayed'[r] : d \in 1..minted
    BY <1>2 DEF LiveDevices, SlotsFit
  <2> QED BY <2>1
<1>4. Cardinality({}) = 0
  BY FS_EmptySet
<1>5. ListFits(q, stayed'[r], minted')
  BY <1>3, <1>4 DEF ListFits
<1>6. RequestFits(q, stayed'[r], minted')
  BY <1>5 DEF RequestFits
<1> QED BY <1>1, <1>6, ServeStep

LEMMA ListPageFits ==
  ASSUME SlotsFit, Grows, Watch, NEW r \in Requests, ListPage(r), UNCHANGED minted
  PROVE  SlotsFit'
<1> USE CatalogAssumption
<1> PICK p : p = req[r]
  OBVIOUS
<1> PICK n \in Nat : n = minted
  BY DEF SlotsFit
<1>1. p.op = "list" /\ p.pc = "page" /\ ListFits(p, stayed[r], n)
  BY DEF ListPage, At, SlotsFit, RequestFits
<1> PICK S : S = {d \in LiveDevices(devices) : d > p.cursor}
  OBVIOUS
<1>2. S \in SUBSET (1..n) /\ \A d \in S : d > p.cursor /\ d \in Int
  BY <1>1 DEF LiveDevices, SlotsFit, ListFits
<1> PICK got : got = Front1(S, PageSize)
  OBVIOUS
<1>3. Fetched(r, req[r].cursor) = got
  BY DEF Fetched, Front1, UpTo
<1> PICK page : page = IF Cardinality(got) > PageSize THEN got \ {Max(got)} ELSE got
  OBVIOUS
<1> PICK q : q = [op |-> "list", pc |-> IF Cardinality(got) > PageSize THEN "page" ELSE "shown",
                  cursor |-> IF Cardinality(got) > PageSize THEN Max(page) ELSE p.cursor,
                  seen |-> p.seen \cup page, rows |-> p.rows + Cardinality(page)]
  OBVIOUS
<1>4. Serves(r, q) /\ UNCHANGED devices
  <2>1. Page(r, got)
    BY <1>3, Zenon DEF ListPage
  <2> QED BY <2>1 DEF Page, Serves, tables
<1>5. /\ DOMAIN q = {"op", "pc", "cursor", "seen", "rows"} /\ q.op = "list"
      /\ q.pc = (IF Cardinality(got) > PageSize THEN "page" ELSE "shown")
      /\ q.cursor = (IF Cardinality(got) > PageSize THEN Max(page) ELSE p.cursor)
      /\ q.seen = p.seen \cup page /\ q.rows = p.rows + Cardinality(page)
  BY <1>1 DEF ListFits
<1>6. \A d \in stayed'[r] : d \in p.seen \/ d \in S
  <2>1. req'[r].op = "list"
    BY <1>4, <1>5 DEF Serves, SlotsFit
  <2>2. stayed'[r] = stayed[r] \cap LiveDevices(devices)
    BY <1>1, <1>4, <2>1 DEF Watch
  <2>3. ASSUME NEW d \in stayed'[r], d \notin S PROVE d \in p.seen
    <3>1. d \in LiveDevices(devices) /\ d \in 1..n /\ d \in stayed[r]
      BY <2>2, <2>3 DEF LiveDevices, SlotsFit
    <3>2. ~(d > p.cursor) /\ p.cursor \in Nat
      BY <1>1, <2>3, <3>1 DEF ListFits
    <3>3. d <= p.cursor
      BY <3>1, <3>2
    <3> QED BY <1>1, <3>1, <3>3 DEF ListFits
  <2> QED BY <2>3
<1>7. page \subseteq S
  BY DEF Front1
<1>8. /\ p.seen \in SUBSET (1..n) /\ page \in SUBSET (1..n) /\ q.seen \in SUBSET (1..n)
  BY <1>1, <1>2, <1>5, <1>7 DEF ListFits
<1>9. q.rows = Cardinality(q.seen)
  <2>1. p.seen \cap page = {}
    <3>1. ASSUME NEW d \in p.seen, d \in page PROVE FALSE
      <4>1. d > p.cursor /\ d <= p.cursor /\ d \in Int /\ p.cursor \in Int
        BY <1>1, <1>2, <1>7, <3>1 DEF ListFits
      <4> QED BY <4>1
    <3> QED BY <3>1
  <2>2. /\ IsFiniteSet(p.seen) /\ IsFiniteSet(page)
        /\ Cardinality(p.seen) \in Nat /\ Cardinality(page) \in Nat
    BY <1>8, SmallFinite
  <2>3. Cardinality(p.seen \cup page) = Cardinality(p.seen) + Cardinality(page) - Cardinality(p.seen \cap page)
    BY <2>2, FS_Union
  <2>4. Cardinality(p.seen \cap page) = 0
    BY <2>1, FS_EmptySet
  <2>5. p.rows = Cardinality(p.seen)
    BY <1>1 DEF ListFits
  <2> QED BY <1>5, <2>2, <2>3, <2>4, <2>5
<1>10. ListFits(q, stayed'[r], n)
  <2>1. CASE Cardinality(got) > PageSize
    <3>1. page = got \ {Max(got)} /\ q.pc = "page" /\ q.cursor = Max(page)
      BY <1>5, <2>1
    <3>2. /\ page # {} /\ Max(page) \in page /\ \A d \in page : d <= Max(page)
          /\ \A d \in S : d <= Max(page) => d \in page
      <4>1. got = Front1(S, PageSize) /\ PageSize \in Nat \ {0}
        OBVIOUS
      <4>2. ShowsTo(S, page, Max(page))
        BY <1>2, <2>1, <3>1, <4>1, FullPage
      <4> QED BY <4>2 DEF ShowsTo
    <3>3. q.cursor \in Nat /\ q.cursor > p.cursor /\ p.cursor \in Nat
      BY <1>1, <1>2, <1>7, <1>8, <3>1, <3>2 DEF ListFits
    <3>4. \A d \in q.seen : d <= q.cursor
      <4>1. ASSUME NEW d \in p.seen PROVE d <= q.cursor
        <5>1. d <= p.cursor /\ d \in Int
          BY <1>1, <1>8 DEF ListFits
        <5> QED BY <3>3, <5>1
      <4> QED BY <1>5, <3>1, <3>2, <4>1
    <3>5. \A d \in stayed'[r] : d <= q.cursor => d \in q.seen
      BY <1>5, <1>6, <3>1, <3>2
    <3> QED BY <1>5, <1>8, <1>9, <3>1, <3>3, <3>4, <3>5 DEF ListFits
  <2>2. CASE ~(Cardinality(got) > PageSize)
    <3>1. page = got /\ q.pc = "shown" /\ q.cursor = p.cursor
      BY <1>5, <2>2
    <3>2. got = S
      <4>1. got \in SUBSET (1..n)
        BY <1>8, <3>1
      <4>2. Cardinality(got) <= PageSize
        <5>1. Cardinality(got) \in Nat
          BY <4>1, SmallFinite
        <5>2. PageSize \in Nat
          OBVIOUS
        <5> QED BY <2>2, <5>1, <5>2
      <4> QED BY <1>2, <4>2, ShortFetch
    <3>3. p.cursor \in Nat
      BY <1>1 DEF ListFits
    <3>4. stayed'[r] \subseteq q.seen
      BY <1>5, <1>6, <3>1, <3>2
    <3>5. DOMAIN q = {"op", "pc", "cursor", "seen", "rows"}
      BY <1>5
    <3>6. q.cursor \in Nat /\ q.pc = "shown" /\ q.pc # "page"
      BY <3>1, <3>3
    <3>7. q.seen \in SUBSET (1..n)
      BY <1>8
    <3> QED BY <1>9, <3>4, <3>5, <3>6, <3>7, Zenon DEF ListFits
  <2> QED BY <2>1, <2>2
<1>11. RequestFits(q, stayed'[r], minted')
  BY <1>5, <1>10 DEF RequestFits
<1> QED BY <1>4, <1>11, ServeStep

\* Slot r goes on with a request that is no listing.
Moves(r, n) == \E q : Serves(r, q) /\ PlainFits(q, n)

LEMMA BeginMoves ==
  ASSUME NEW r \in Requests, NEW q, NEW n, Begin(r, q), PlainFits(q, n)
  PROVE  Moves(r, n)
BY DEF Moves, Begin, Serves

LEMMA EndsMoves ==
  ASSUME NEW r \in Requests, NEW n, Ends(r)
  PROVE  Moves(r, n)
<1>1. PlainFits(Idle, n)
  BY DEF PlainFits, Idle
<1>2. Serves(r, Idle)
  BY DEF Ends, Serves
<1> QED BY <1>1, <1>2 DEF Moves

LEMMA GoesMoves ==
  ASSUME SlotsFit, NEW r \in Requests, NEW n, NEW pc, pc # "commit", Goes(r, pc),
         req[r].op \in {"create", "update", "approve"}
  PROVE  Moves(r, n)
<1> PICK p : p = req[r]
  OBVIOUS
<1>1. PlainFits(p, minted)
  BY DEF SlotsFit, RequestFits
<1> PICK q : q = [p EXCEPT !.pc = pc]
  OBVIOUS
<1>2. Serves(r, q)
  BY DEF Goes, Serves
<1>3. "op" \in DOMAIN q /\ "pc" \in DOMAIN q /\ q.op = p.op /\ q.pc = pc
  BY <1>1 DEF PlainFits
<1>4. PlainFits(q, n)
  BY <1>3 DEF PlainFits
<1> QED BY <1>2, <1>4 DEF Moves

LEMMA CreatingFits ==
  ASSUME NEW in, NEW rest, NEW find, NEW n
  PROVE  PlainFits(Creating(in, rest, find), n)
BY DEF PlainFits, Creating

LEMMA NextRowMoves ==
  ASSUME NEW r \in Requests, NEW n, NextRow(r)
  PROVE  Moves(r, n)
<1>1. CASE req[r].rest = <<>>
  BY <1>1, EndsMoves DEF NextRow
<1>2. CASE req[r].rest # <<>>
  <2> PICK q : q = Creating(Head(req[r].rest), Tail(req[r].rest), {})
    OBVIOUS
  <2>1. Serves(r, q)
    BY <1>2 DEF NextRow, Serves
  <2>2. PlainFits(q, n)
    BY CreatingFits
  <2> QED BY <2>1, <2>2 DEF Moves
<1> QED BY <1>1, <1>2

LEMMA StartMoves ==
  ASSUME NEW r \in Requests, NEW n, StartRequest(r), ~StartList(r)
  PROVE  Moves(r, n) /\ UNCHANGED <<devices, schedules>>
<1>1. CASE \E in \in Inputs : CreateDevice(r, in)
  BY <1>1, CreatingFits, BeginMoves DEF CreateDevice, tables
<1>2. CASE \E in \in Inputs, a \in Addrs : ImportCSV(r, <<in, [in EXCEPT !.addr = a]>>)
  <2> PICK rows : ImportCSV(r, rows)
    BY <1>2
  <2> QED BY CreatingFits, BeginMoves DEF ImportCSV, tables
<1>3. CASE \E in \in Inputs, d \in DevIds : GetDevice(r, d, in)
  <2> PICK in, d : GetDevice(r, d, in)
    BY <1>3
  <2> PICK q : q = [op |-> "update", pc |-> "check", dev |-> d, in |-> in, alts |-> devices[d].alts]
    OBVIOUS
  <2>1. PlainFits(q, n)
    BY DEF PlainFits
  <2> QED BY <2>1, BeginMoves DEF GetDevice, tables
<1>4. CASE \E d \in DevIds : StartPurge(r, d)
  <2> PICK d : StartPurge(r, d)
    BY <1>4
  <2> PICK q : q = [op |-> "purge", pc |-> "delete", dev |-> d]
    OBVIOUS
  <2>1. PlainFits(q, n)
    BY DEF PlainFits
  <2> QED BY <2>1, BeginMoves DEF StartPurge, tables
<1>5. CASE \E d, dup \in DevIds : LoadMerge(r, d, dup)
  <2> PICK d, dup : LoadMerge(r, d, dup)
    BY <1>5
  <2> PICK q : q = [op |-> "merge", pc |-> "write", dev |-> d, dup |-> dup,
                    alts |-> devices[dup].alts \cup {devices[dup].addr}]
    OBVIOUS
  <2>1. d # dup
    BY DEF LoadMerge
  <2>2. PlainFits(q, n)
    BY <2>1 DEF PlainFits
  <2> QED BY <2>2, BeginMoves DEF LoadMerge, tables
<1>6. CASE \E x \in CatSites : CountBlockers(r, x)
  <2> PICK x : CountBlockers(r, x)
    BY <1>6
  <2> PICK q : q = [op |-> "site", pc |-> "delete", site |-> x]
    OBVIOUS
  <2>1. PlainFits(q, n)
    BY DEF PlainFits
  <2> QED BY <2>1, BeginMoves DEF CountBlockers, tables
<1>7. CASE \E c \in CatCreds : CountUsers(r, c)
  <2> PICK c : CountUsers(r, c)
    BY <1>7
  <2> PICK q : q = [op |-> "cred", pc |-> "delete", cred |-> c]
    OBVIOUS
  <2>1. PlainFits(q, n)
    BY DEF PlainFits
  <2> QED BY <2>1, BeginMoves DEF CountUsers, tables
<1>8. CASE \E a \in Addrs, to \in {0} \cup DevIds, force \in BOOLEAN : GetFound(r, a, to, force)
  <2> PICK a, to, force : GetFound(r, a, to, force)
    BY <1>8
  <2> PICK q : q = [op |-> "approve", pc |-> "decide", find |-> {a}, to |-> to, force |-> force,
                    name |-> finds[a].name, site |-> ruleSite]
    OBVIOUS
  <2>1. PlainFits(q, n)
    BY DEF PlainFits
  <2>2. Begin(r, q)
    BY Zenon DEF GetFound
  <2> QED BY <2>1, <2>2, BeginMoves DEF GetFound, tables
<1> QED BY <1>1, <1>2, <1>3, <1>4, <1>5, <1>6, <1>7, <1>8, Zenon DEF StartRequest

LEMMA InsertMoves ==
  ASSUME SlotsFit, NEW r \in Requests, InsertDevice(r)
  PROVE  Moves(r, minted') /\ minted' = minted + 1 /\ UNCHANGED <<devices, schedules>>
<1>1. minted' = minted + 1 /\ UNCHANGED <<devices, schedules>>
  BY DEF InsertDevice, tables
<1>2. CASE NextRow(r)
  BY <1>1, <1>2, NextRowMoves
<1>3. CASE ~NextRow(r)
  <2> PICK q : q = [op |-> "create", pc |-> "commit", dev |-> minted', in |-> req[r].in,
                    rest |-> req[r].rest, find |-> req[r].find, pace |-> pace]
    OBVIOUS
  <2>1. Serves(r, q)
    BY <1>3 DEF InsertDevice, Serves
  <2>2. minted' \in 1..minted'
    BY <1>1 DEF SlotsFit
  <2>3. PlainFits(q, minted')
    BY <2>2 DEF PlainFits
  <2> QED BY <1>1, <2>1, <2>3 DEF Moves
<1> QED BY <1>2, <1>3

\* A step of a request under way, listings apart.
LEMMA GoesOn ==
  ASSUME SlotsFit, NEW r \in Requests, NEW n, RequestStep(r), ~ListPage(r)
  PROVE  Moves(r, n)
<1> USE DEF At
<1>1. CASE Validate(r)
  <2>1. Goes(r, "insert") \/ NextRow(r)
    BY <1>1 DEF Validate
  <2>2. req[r].op = "create"
    BY <1>1 DEF Validate
  <2> QED BY <2>1, <2>2, GoesMoves, NextRowMoves
<1>2. CASE CommitCreate(r)
  <2>1. CASE NextRow(r)
    BY <2>1, NextRowMoves
  <2>2. CASE ~NextRow(r)
    <3> PICK q : q = [op |-> "approve", pc |-> "settle", find |-> req[r].find]
      OBVIOUS
    <3>1. Serves(r, q)
      BY <1>2, <2>2 DEF CommitCreate, Serves
    <3>2. PlainFits(q, n)
      BY DEF PlainFits
    <3> QED BY <3>1, <3>2 DEF Moves
  <2> QED BY <2>1, <2>2
<1>3. CASE CheckUpdate(r)
  <2>1. Goes(r, "write") \/ Ends(r)
    BY <1>3 DEF CheckUpdate
  <2>2. req[r].op = "update"
    BY <1>3 DEF CheckUpdate
  <2> QED BY <2>1, <2>2, GoesMoves, EndsMoves
<1>4. CASE WriteDevice(r)
  <2>1. CASE Ends(r)
    BY <2>1, EndsMoves
  <2>2. CASE ~Ends(r)
    <3> PICK q : q = [op |-> "update", pc |-> "commit", dev |-> req[r].dev, in |-> req[r].in,
                      alts |-> req[r].alts, pace |-> pace]
      OBVIOUS
    <3>1. Serves(r, q)
      BY <1>4, <2>2 DEF WriteDevice, Serves
    <3>2. PlainFits(q, n)
      BY DEF PlainFits
    <3> QED BY <3>1, <3>2 DEF Moves
  <2> QED BY <2>1, <2>2
<1>5. CASE CommitUpdate(r) \/ Purge(r) \/ Merge(r) \/ ListDone(r) \/ DeleteSite(r) \/ DeleteCred(r) \/ Settle(r)
  <2>1. Ends(r)
    BY <1>5, Zenon DEF CommitUpdate, Purge, Merge, ListDone, DeleteSite, DeleteCred, Settle
  <2> QED BY <2>1, EndsMoves
<1>6. CASE Attach(r)
  <2>1. Goes(r, "settle") \/ Ends(r)
    BY <1>6 DEF Attach
  <2>2. req[r].op = "approve"
    BY <1>6 DEF Attach
  <2> QED BY <2>1, <2>2, GoesMoves, EndsMoves
<1>7. CASE Onboard(r)
  <2>1. CASE Ends(r)
    BY <2>1, EndsMoves
  <2>2. CASE ~Ends(r)
    <3>1. PICK q, in, find : Serves(r, q) /\ q = Creating(in, <<>>, find)
      BY <1>7, <2>2 DEF Onboard, Serves
    <3>2. PlainFits(q, n)
      BY <3>1, CreatingFits
    <3> QED BY <3>1, <3>2 DEF Moves
  <2> QED BY <2>1, <2>2
<1> QED BY <1>1, <1>2, <1>3, <1>4, <1>5, <1>6, <1>7 DEF RequestStep

\* What a request under way does to the tables.
LEMMA RequestTables ==
  ASSUME TablesFit, SlotsFit, NEW r \in Requests, RequestStep(r)
  PROVE  TablesFit' /\ DOMAIN devices' \subseteq 1..minted
<1>0. DOMAIN devices \subseteq 1..minted
  BY DEF SlotsFit
<1>1. CASE UNCHANGED <<devices, schedules>>
  BY <1>0, <1>1 DEF TablesFit
<1>2. CASE CommitCreate(r)
  <2>1. req[r].op = "create" /\ req[r].pc = "commit"
    BY <1>2 DEF CommitCreate, At
  <2>2. req[r].dev \in 1..minted
    BY <2>1 DEF SlotsFit, RequestFits, PlainFits
  <2>3. DOMAIN devices' = DOMAIN devices \cup {req[r].dev}
    BY <1>2 DEF CommitCreate, Inserting
  <2>4. TablesFit'
    BY <1>2, CommitCreateFits
  <2> QED BY <1>0, <2>2, <2>3, <2>4
<1>3. CASE CommitUpdate(r)
  <2>1. DOMAIN devices' = DOMAIN devices
    BY <1>3 DEF CommitUpdate
  <2> QED BY <1>0, <1>3, <2>1, CommitUpdateFits
<1>4. CASE Purge(r)
  <2>1. DOMAIN devices' \subseteq DOMAIN devices
    BY <1>4 DEF Purge, Restrict
  <2> QED BY <1>0, <1>4, <2>1, PurgeFits
<1>5. CASE Merge(r)
  <2>1. DOMAIN devices' = DOMAIN devices
    BY <1>5 DEF Merge
  <2>2. req[r].op = "merge"
    BY <1>5 DEF Merge, At
  <2>3. req[r].dup # req[r].dev
    BY <2>2 DEF SlotsFit, RequestFits, PlainFits
  <2> QED BY <1>0, <1>5, <2>1, <2>3, MergeFits
<1>6. CASE Attach(r)
  <2>1. CASE \E a \in req[r].find : AddAltAddress(req[r].to, a)
    <3> PICK a : AddAltAddress(req[r].to, a)
      BY <2>1
    <3>1. DOMAIN devices' = DOMAIN devices
      BY DEF AddAltAddress
    <3> QED BY <1>0, <3>1, AddAltFits
  <2>2. CASE ~\E a \in req[r].find : AddAltAddress(req[r].to, a)
    <3>1. UNCHANGED <<devices, schedules>>
      BY <1>6, <2>2 DEF Attach, tables
    <3> QED BY <1>1, <3>1
  <2> QED BY <2>1, <2>2
<1>7. CASE \/ Validate(r) \/ CheckUpdate(r) \/ WriteDevice(r) \/ ListPage(r) \/ ListDone(r)
           \/ DeleteSite(r) \/ DeleteCred(r) \/ Onboard(r) \/ Settle(r)
  <2>1. UNCHANGED <<devices, schedules>>
    <3>1. CASE Validate(r) \/ CheckUpdate(r) \/ WriteDevice(r)
      BY <3>1 DEF Validate, CheckUpdate, WriteDevice, tables
    <3>2. CASE ListPage(r) \/ ListDone(r)
      BY <3>2 DEF ListPage, ListDone, Page, tables
    <3>3. CASE DeleteSite(r) \/ DeleteCred(r) \/ Onboard(r) \/ Settle(r)
      BY <3>3 DEF DeleteSite, DeleteCred, Onboard, Settle, tables
    <3> QED BY <1>7, <3>1, <3>2, <3>3
  <2> QED BY <1>1, <2>1
<1> QED BY <1>2, <1>3, <1>4, <1>5, <1>6, <1>7 DEF RequestStep

LEMMA OneStepTables ==
  ASSUME TablesFit, OneStep
  PROVE  TablesFit' /\ DOMAIN devices' = DOMAIN devices /\ UNCHANGED req
<1>1. CASE \E d \in DevIds, status \in {"active", "disabled", "retired"} : SetStatus(d, status)
  <2> PICK d \in DevIds, status \in {"active", "disabled", "retired"} : SetStatus(d, status)
    BY <1>1
  <2>1. DOMAIN devices' = DOMAIN devices /\ UNCHANGED req
    BY Zenon DEF SetStatus
  <2>2. TablesFit'
    BY SetStatusFits
  <2> QED BY <2>1, <2>2
<1>2. CASE \E d \in DevIds, name \in SysNames : Identify(d, name)
  <2> PICK d, name : Identify(d, name)
    BY <1>2
  <2>1. DOMAIN devices' = DOMAIN devices /\ UNCHANGED req
    BY DEF Identify
  <2> QED BY <2>1, IdentifyFits
<1>3. CASE \E d \in DevIds, a \in Addrs : AddAltAddress(d, a) /\ UNCHANGED req
  <2> PICK d, a : AddAltAddress(d, a) /\ UNCHANGED req
    BY <1>3
  <2>1. DOMAIN devices' = DOMAIN devices
    BY DEF AddAltAddress
  <2> QED BY <2>1, AddAltFits
<1>4. CASE \E p \in Paces : SetPace(p)
  <2> PICK p : SetPace(p)
    BY <1>4
  <2>1. DOMAIN devices' = DOMAIN devices /\ UNCHANGED req
    BY DEF SetPace
  <2> QED BY <2>1, SetPaceFits
<1>5. CASE UNCHANGED <<devices, schedules, req>>
  BY <1>5 DEF TablesFit
<1>6. CASE \E x \in CatSites : \/ CreateRule(x)
                               \/ \E p \in CatSites : UpdateSite(x, p)
                               \/ \E p \in CatSites \cup {"none"} : CreateSite(x, p)
  <2>1. UNCHANGED <<devices, schedules, req>>
    BY <1>6 DEF CreateRule, UpdateSite, CreateSite
  <2> QED BY <1>5, <2>1
<1>7. CASE \/ \E c, secret : CreateCred(c, secret)
           \/ DeleteRule \/ RunRule
           \/ \E a \in Addrs : Ignore(a)
  <2>1. UNCHANGED <<devices, schedules, req>>
    BY <1>7 DEF CreateCred, DeleteRule, RunRule, Ignore, tables
  <2> QED BY <1>5, <2>1
<1> QED BY <1>1, <1>2, <1>3, <1>4, <1>6, <1>7, Zenon DEF OneStep

\* What every step keeps.
CatalogFits == TablesFit /\ SlotsFit

LEMMA CatalogStep ==
  CatalogFits /\ [CatalogNext]_catalogVars => CatalogFits'
<1> SUFFICES ASSUME TablesFit, SlotsFit, [CatalogNext]_catalogVars PROVE CatalogFits'
  BY DEF CatalogFits
<1>0. minted \in Nat /\ DOMAIN devices \subseteq 1..minted
  BY DEF SlotsFit
<1>1. ASSUME NEW r \in Requests, InsertDevice(r), Watch PROVE CatalogFits'
  <2>1. Moves(r, minted') /\ minted' = minted + 1 /\ UNCHANGED <<devices, schedules>>
    BY <1>1, InsertMoves
  <2>2. Grows
    <3>1. 1..minted \subseteq 1..minted'
      BY <1>0, <2>1
    <3> QED BY <1>0, <2>1, <3>1 DEF Grows
  <2>3. SlotsFit'
    BY <1>1, <2>1, <2>2, PlainStep DEF Moves
  <2>4. TablesFit'
    BY <2>1 DEF TablesFit
  <2> QED BY <2>3, <2>4 DEF CatalogFits
<1>2. ASSUME NEW r \in Requests, StartRequest(r), UNCHANGED minted, Watch PROVE CatalogFits'
  <2>1. CASE StartList(r)
    <3>1. UNCHANGED <<devices, schedules>>
      BY <2>1 DEF StartList, tables
    <3>2. Grows
      BY <1>0, <1>2, <3>1 DEF Grows
    <3>3. TablesFit'
      BY <3>1 DEF TablesFit
    <3>4. SlotsFit'
      BY <1>2, <2>1, <3>1, <3>2, StartListFits
    <3> QED BY <3>3, <3>4 DEF CatalogFits
  <2>2. CASE ~StartList(r)
    <3>1. Moves(r, minted') /\ UNCHANGED <<devices, schedules>>
      BY <1>2, <2>2, StartMoves
    <3>2. Grows
      BY <1>0, <1>2, <3>1 DEF Grows
    <3>3. TablesFit'
      BY <3>1 DEF TablesFit
    <3>4. SlotsFit'
      BY <1>2, <3>1, <3>2, PlainStep DEF Moves
    <3> QED BY <3>3, <3>4 DEF CatalogFits
  <2> QED BY <2>1, <2>2
<1>3. ASSUME NEW r \in Requests, RequestStep(r), UNCHANGED minted, Watch PROVE CatalogFits'
  <2>1. TablesFit' /\ DOMAIN devices' \subseteq 1..minted
    BY <1>3, RequestTables
  <2>2. Grows
    BY <1>0, <1>3, <2>1 DEF Grows
  <2>3. CASE ListPage(r)
    BY <1>3, <2>1, <2>2, <2>3, ListPageFits DEF CatalogFits
  <2>4. CASE ~ListPage(r)
    <3>1. Moves(r, minted')
      BY <1>3, <2>4, GoesOn
    <3>2. SlotsFit'
      BY <1>3, <2>2, <3>1, PlainStep DEF Moves
    <3> QED BY <2>1, <3>2 DEF CatalogFits
  <2> QED BY <2>3, <2>4
<1>4. ASSUME OneStep \/ SweepStep, UNCHANGED minted, Watch PROVE CatalogFits'
  <2>1. TablesFit' /\ DOMAIN devices' = DOMAIN devices /\ UNCHANGED req
    <3>1. CASE OneStep
      BY <3>1, OneStepTables
    <3>2. CASE SweepStep
      <4>1. UNCHANGED <<devices, schedules, req>>
        BY <3>2 DEF SweepStep, ExecuteDiscovery, UpsertFound, ResultDone, tables
      <4> QED BY <4>1 DEF TablesFit
    <3> QED BY <1>4, <3>1, <3>2
  <2>2. Grows
    BY <1>0, <1>4, <2>1 DEF Grows
  <2>3. SlotsFit'
    BY <1>4, <2>1, <2>2, RestStep
  <2> QED BY <2>1, <2>3 DEF CatalogFits
<1>5. CASE UNCHANGED catalogVars
  <2>1. UNCHANGED <<devices, schedules, req, stayed, minted>>
    BY <1>5 DEF catalogVars, tables
  <2> QED BY <2>1 DEF CatalogFits, TablesFit, SlotsFit
<1> QED BY <1>1, <1>2, <1>3, <1>4, <1>5 DEF CatalogNext

LEMMA CatalogStarts == CatalogInit => CatalogFits
<1> SUFFICES ASSUME CatalogInit PROVE CatalogFits
  OBVIOUS
<1>1. minted \in Nat
  BY CatalogAssumption DEF CatalogInit
<1>2. TablesFit
  <2> PICK rows, none : rows = Scheduled(none, DefaultProfile, [f \in Paced |-> Min(Paces)]) /\ none = <<>>
    OBVIOUS
  <2>1. PICK addr \in [1..minted -> Addrs], x \in CatSites, c \in CatCreds :
          /\ IsInjective(addr) /\ ruleSite = {x}
          /\ devices = [d \in 1..minted |->
                          NewDevice([addr |-> addr[d], site |-> x, cred |-> c, profile |-> DefaultProfile])]
    BY Zenon DEF CatalogInit
  <2>2. schedules = [d \in 1..minted |-> rows]
    BY Zenon DEF CatalogInit
  <2>3. Renewed(rows, none, DefaultProfile) /\ DOMAIN none = {}
    BY ScheduledFits
  <2>4. ASSUME NEW d \in 1..minted PROVE PairFits(devices[d], rows)
    <3>1. PICK in : in.profile = DefaultProfile /\ devices[d] = NewDevice(in)
      BY <2>1, <2>4
    <3>2. DOMAIN devices[d] = DeviceFields /\ devices[d].profile = DefaultProfile
      BY <3>1 DEF NewDevice, DeviceFields
    <3> QED BY <2>3, <3>2 DEF PairFits, Polled, Renewed
  <2>5. DOMAIN devices = 1..minted
    BY <2>1
  <2> QED BY <2>2, <2>4, <2>5 DEF TablesFit
<1>3. SlotsFit
  <2>1. DOMAIN devices \subseteq 1..minted
    BY DEF CatalogInit
  <2>2. DOMAIN req = Requests
    BY DEF CatalogInit
  <2>3. ASSUME NEW r \in Requests PROVE RequestFits(req[r], stayed[r], minted)
    <3>1. req[r] = Idle
      BY DEF CatalogInit
    <3> QED BY <3>1 DEF RequestFits, PlainFits, Idle
  <2> QED BY <1>1, <2>1, <2>2, <2>3 DEF SlotsFit
<1> QED BY <1>2, <1>3 DEF CatalogFits

\* A device in service has a schedule for every family of its profile, and
\* each is on, whatever requests interleave: insertSchedules, SetStatus and
\* Merge write the device and its schedules in one transaction.
THEOREM InServicePolled == CatalogSpec => []InServiceIsPolled
<1>1. CatalogFits => InServiceIsPolled
  BY DEF CatalogFits, TablesFit, PairFits, Polled, InServiceIsPolled
<1> QED BY <1>1, CatalogStarts, CatalogStep, PTL DEF CatalogSpec

\* A listing shows every device that was there from its first page to its
\* last, and none twice: the cursor of DeviceRepo.List is an id, and what
\* comes and goes around it moves no other row.
THEOREM ListingsMissNone == CatalogSpec => []PagesMissNone
<1>1. CatalogFits => PagesMissNone
  <2> SUFFICES ASSUME SlotsFit, NEW r \in Requests, At(r, "list", "shown")
               PROVE  stayed[r] \subseteq req[r].seen /\ req[r].rows = Cardinality(req[r].seen)
    BY DEF CatalogFits, PagesMissNone
  <2>1. ListFits(req[r], stayed[r], minted) /\ req[r].pc = "shown"
    BY DEF SlotsFit, RequestFits, At
  <2> QED BY <2>1 DEF ListFits
<1> QED BY <1>1, CatalogStarts, CatalogStep, PTL DEF CatalogSpec

-----------------------------------------------------------------------------
(* What a map shows of a link.                                             *)

\* A sample as the series have it: what counts as none is old.
SampleFits(s) ==
  /\ DOMAIN s = {"port", "age", "oper", "onTime"}
  /\ s.age \in Nat /\ s.oper \in {"up", "down", "other", "none"} /\ s.onTime \in BOOLEAN
  /\ s.oper = "none" => s.age > 30

\* What is polled on time is there, and no older than so.
Timely(s, late) == s.onTime = TRUE => s.oper # "none" /\ s.age <= late

AllFit(read) == DOMAIN read = Idx /\ \A i \in Idx : SampleFits(read[i])
AllTimely(read, late) == \A i \in Idx : Timely(read[i], late)

\* The bound port is under one index.
PortsFit ==
  /\ DOMAIN portAt = Idx /\ rowIdx \in Idx
  /\ \A i, j \in Idx : portAt[i] = "ours" /\ portAt[j] = "ours" => i = j

Within(c) == view.carry \in Nat /\ view.carry >= c

\* How far back a view looks covers the cadence it was asked under.
QueryFits ==
  /\ DOMAIN view = {"pc", "carry", "blind", "steady", "ticked", "still"}
  /\ Within(30) /\ (view.steady = TRUE /\ view.blind = FALSE => Within(cadence))
  /\ view.still = TRUE => InStep

\* What it has read is told from silence, and is at most a minute older.
IndexFits ==
  /\ DOMAIN view = {"pc", "blind", "steady", "ticked", "still", "read"}
  /\ AllFit(view.read)
  /\ view.steady = TRUE /\ view.blind = FALSE =>
       AllTimely(view.read, cadence + 1) /\ (view.ticked = FALSE => AllTimely(view.read, cadence))
  /\ view.still = TRUE => portAt[rowIdx] = "ours" /\ view.read[rowIdx].port = "ours"

ShowFits ==
  /\ view.in = "toA" /\ view.out = "toB" /\ SampleFits(view.of)
  /\ view.still = TRUE => view.of.port = "ours"
  /\ view.of.onTime = TRUE /\ view.steady = TRUE /\ view.blind = FALSE =>
       view.state = IF view.of.oper = "other" THEN "nodata" ELSE view.of.oper
  /\ view.state = "up" => view.of.age <= 2 * Larger(cadence, 1) \/ view.steady = FALSE
  /\ view.state = "nodata" => view.of.age > 30 \/ view.of.oper = "other"

Flags ==
  /\ view.blind \in BOOLEAN /\ view.steady \in BOOLEAN /\ view.still \in BOOLEAN
  /\ view.pc # "show" => view.ticked \in BOOLEAN

LiveFits ==
  /\ cadence \in Cadences /\ PortsFit /\ AllFit(series) /\ AllTimely(series, cadence)
  /\ view # NoView =>
       /\ view.pc \in {"query", "index", "show"} /\ Flags
       /\ view.pc = "query" => QueryFits
       /\ view.pc = "index" => IndexFits
       /\ view.pc = "show" /\ view.bound => ShowFits

\* The windows reach back half an hour and over a cadence of an hour or less.
LEMMA WindowsReach ==
  ASSUME NEW c \in Nat
  PROVE  /\ windows(c).carry \in Nat /\ windows(c).carry >= 30
         /\ c <= 60 => windows(c).carry >= c
<1> PICK p : p = PollOr(c)
  OBVIOUS
<1>1. p \in Nat /\ c <= p
  BY DEF PollOr
<1> PICK rate : rate = Larger(4 * p, 5)
  OBVIOUS
<1>2. rate \in Nat /\ rate >= 5 /\ rate >= p
  BY <1>1 DEF Larger
<1> PICK carry : carry = Smaller(6 * rate, 60)
  OBVIOUS
<1>3. carry \in Nat /\ carry >= 30 /\ (p <= 60 => carry >= p)
  BY <1>1, <1>2 DEF Smaller
<1>4. windows(c) = [rate |-> rate, carry |-> carry]
  BY DEF windows
<1>5. windows(c).carry = carry
  BY <1>4
<1>6. c <= 60 => carry >= c
  BY <1>1, <1>3 DEF PollOr
<1> QED BY <1>3, <1>5, <1>6

LEMMA StaleIs ==
  ASSUME NEW c \in Nat \ {0}, NEW d \in {c, 0}
  PROVE  staleAfter(d) \in Nat /\ staleAfter(d) <= 2 * Larger(c, 1) /\ (d = c => staleAfter(d) >= c + 1)
<1>1. CASE d = 0
  BY <1>1 DEF staleAfter, PollOr, Larger
<1>2. CASE d = c
  BY <1>2 DEF staleAfter, PollOr, Larger
<1> QED BY <1>1, <1>2

\* A minute later a sample is what it was, a minute older.
LEMMA OlderIs ==
  ASSUME NEW s, SampleFits(s)
  PROVE  /\ SampleFits(Older(s)) /\ Older(s).port = s.port /\ Older(s).oper = s.oper
         /\ Older(s).onTime = s.onTime /\ Older(s).age <= s.age + 1
<1> USE LiveAssumption
<1> PICK a : a = Smaller(s.age + 1, Horizon)
  OBVIOUS
<1>1. s.age \in Nat /\ DOMAIN s = {"port", "age", "oper", "onTime"}
  BY DEF SampleFits
<1>2. a \in Nat /\ a <= s.age + 1 /\ (s.age > 30 => a > 30)
  BY <1>1 DEF Smaller
<1>3. Older(s) = [s EXCEPT !.age = a]
  BY DEF Older
<1>4. /\ Older(s).age = a /\ Older(s).port = s.port /\ Older(s).oper = s.oper
      /\ Older(s).onTime = s.onTime /\ DOMAIN Older(s) = DOMAIN s
  BY <1>1, <1>3
<1> QED BY <1>1, <1>2, <1>4 DEF SampleFits

\* What is kept as on time after a minute is no older than the cadence.
LEMMA OnTimeIs ==
  ASSUME NEW s, SampleFits(s), cadence \in Nat, s.oper = "none" => s.onTime = FALSE
  PROVE  SampleFits(OnTime(s)) /\ Timely(OnTime(s), cadence) /\ OnTime(s).port = s.port
<1> PICK f : f = (s.onTime /\ s.age <= cadence)
  OBVIOUS
<1>1. s.age \in Nat /\ DOMAIN s = {"port", "age", "oper", "onTime"} /\ s.onTime \in BOOLEAN
  BY DEF SampleFits
<1>2. f \in BOOLEAN /\ (f = TRUE => s.onTime = TRUE /\ s.age <= cadence)
  BY <1>1, Zenon
<1>3. OnTime(s) = [s EXCEPT !.onTime = f]
  BY Zenon DEF OnTime
<1>4. /\ OnTime(s).age = s.age /\ OnTime(s).port = s.port /\ OnTime(s).oper = s.oper
      /\ OnTime(s).onTime = f /\ DOMAIN OnTime(s) = DOMAIN s
  BY <1>1, <1>3
<1>5. SampleFits(OnTime(s))
  BY <1>1, <1>2, <1>4 DEF SampleFits
<1>6. Timely(OnTime(s), cadence)
  BY <1>2, <1>4 DEF Timely
<1> QED BY <1>4, <1>5, <1>6

\* A window that reaches back far enough loses nothing that was on time.
LEMMA InWindowIs ==
  ASSUME NEW s, SampleFits(s), NEW carry \in Nat, carry >= 30, NEW late \in Nat
  PROVE  /\ SampleFits(InWindow(s, carry)) /\ InWindow(s, carry).port = s.port
         /\ late <= carry /\ Timely(s, late) => Timely(InWindow(s, carry), late)
<1> PICK o : o = IF s.age <= carry THEN s.oper ELSE "none"
  OBVIOUS
<1>1. s.age \in Nat /\ DOMAIN s = {"port", "age", "oper", "onTime"}
  BY DEF SampleFits
<1>3. InWindow(s, carry) = [s EXCEPT !.oper = o]
  BY <1>1 DEF InWindow
<1>4. /\ InWindow(s, carry).age = s.age /\ InWindow(s, carry).port = s.port /\ InWindow(s, carry).oper = o
      /\ InWindow(s, carry).onTime = s.onTime /\ DOMAIN InWindow(s, carry) = DOMAIN s
  BY <1>1, <1>3
<1>5. SampleFits(InWindow(s, carry))
  BY <1>1, <1>4 DEF SampleFits
<1>6. late <= carry /\ Timely(s, late) => Timely(InWindow(s, carry), late)
  BY <1>1, <1>4 DEF Timely
<1> QED BY <1>4, <1>5, <1>6

\* Whatever the cadences of up to an hour, links, speeds and uplinks, and
\* whatever happens while a view is assembled, what it shows of a link is
\* honest (LiveAssembler.Live).
THEOREM ViewsAreHonest ==
  ASSUME \A c \in Cadences : c <= 60
  PROVE  LiveSpec => []FiguresAreHonest
<1> USE LiveAssumption
<1>1. LiveInit => LiveFits
  <2> SUFFICES ASSUME LiveInit PROVE LiveFits
    OBVIOUS
  <2>1. cadence \in Cadences /\ view = NoView /\ rowIdx = 1
    BY DEF LiveInit, DocIdx
  <2>2. PICK p \in {"other", "none"} : portAt = [i \in Idx |-> IF i = DocIdx THEN "ours" ELSE p]
    BY DEF LiveInit
  <2>3. PortsFit
    BY <2>1, <2>2 DEF PortsFit, Idx, DocIdx
  <2>4. ASSUME NEW i \in Idx PROVE SampleFits(series[i]) /\ series[i].onTime = FALSE
    <3>1. CASE portAt[i] = "none"
      <4>1. series[i] = [port |-> "none", age |-> Horizon, oper |-> "none", onTime |-> FALSE]
        BY <3>1 DEF LiveInit, NoSample, Sample
      <4> QED BY <4>1 DEF SampleFits
    <3>2. CASE portAt[i] # "none"
      <4>1. series[i] = [port |-> portAt[i], age |-> 0, oper |-> "up", onTime |-> FALSE]
        BY <3>2 DEF LiveInit, Sample
      <4> QED BY <4>1 DEF SampleFits
    <3> QED BY <3>1, <3>2
  <2>5. DOMAIN series = Idx
    BY DEF LiveInit
  <2> QED BY <2>1, <2>3, <2>4, <2>5 DEF LiveFits, AllFit, AllTimely, Timely
<1>2. ASSUME LiveFits, [LiveNext]_liveVars PROVE LiveFits'
  <2> USE <1>2
  <2>0. cadence \in Nat /\ cadence >= 1 /\ cadence <= 60 /\ cadence \in Cadences
    BY DEF LiveFits
  <2>00. AllFit(series) /\ AllTimely(series, cadence) /\ PortsFit
    BY DEF LiveFits
  <2>1. ASSUME NEW c \in {cadence, 0}, Live(c) PROVE LiveFits'
    <3> USE <2>1
    <3> PICK w : w = windows(c).carry
      OBVIOUS
    <3> PICK b : b = (c = 0)
      OBVIOUS
    <3> PICK still : still = InStep
      OBVIOUS
    <3>1. view' = [pc |-> "query", carry |-> w, blind |-> b, steady |-> TRUE, ticked |-> FALSE, still |-> still]
          /\ UNCHANGED <<cadence, portAt, series, rowIdx>>
      BY Zenon DEF Live
    <3>2. w \in Nat /\ w >= 30 /\ (c <= 60 => w >= c)
      BY <2>0, WindowsReach
    <3>3. /\ view'.pc = "query" /\ view'.carry = w /\ view'.blind = b /\ view'.steady = TRUE
          /\ view'.ticked = FALSE /\ view'.still = still
          /\ DOMAIN view' = {"pc", "carry", "blind", "steady", "ticked", "still"}
      BY <3>1
    <3>4. b \in BOOLEAN /\ still \in BOOLEAN /\ (still = TRUE => InStep)
      BY Zenon DEF InStep
    <3>a. b = FALSE => c = cadence
      BY Zenon
    <3>5. Flags'
      BY <3>3, <3>4, Zenon DEF Flags
    <3>6. InStep => InStep'
      BY <3>1 DEF InStep
    <3>7. QueryFits'
      BY <2>0, <3>1, <3>2, <3>3, <3>4, <3>6, <3>a DEF QueryFits, Within
    <3>8. PortsFit' /\ AllFit(series') /\ AllTimely(series', cadence')
      BY <2>00, <3>1 DEF PortsFit
    <3> QED BY <3>1, <3>3, <3>5, <3>7, <3>8 DEF LiveFits
  <2>2. CASE QuerySeries
    <3> USE <2>2
    <3>0. view # NoView /\ view.pc = "query" /\ Flags /\ QueryFits
      BY DEF LiveFits, QuerySeries
    <3> PICK read : read = [i \in Idx |-> InWindow(series[i], view.carry)]
      OBVIOUS
    <3>1. /\ view' = [pc |-> "index", blind |-> view.blind, steady |-> view.steady, ticked |-> view.ticked,
                      still |-> view.still, read |-> read]
          /\ UNCHANGED <<cadence, portAt, series, rowIdx>>
      BY DEF QuerySeries
    <3>2. /\ view'.pc = "index" /\ view'.blind = view.blind /\ view'.steady = view.steady
          /\ view'.ticked = view.ticked /\ view'.still = view.still /\ view'.read = read
          /\ DOMAIN view' = {"pc", "blind", "steady", "ticked", "still", "read"}
      BY <3>1
    <3>3. Flags'
      BY <3>0, <3>2, Zenon DEF Flags
    <3>4. /\ view.carry \in Nat /\ view.carry >= 30
          /\ view.steady = TRUE /\ view.blind = FALSE => view.carry >= cadence
      BY <3>0 DEF QueryFits, Within
    <3>5. ASSUME NEW i \in Idx
          PROVE  /\ SampleFits(read[i]) /\ read[i].port = series[i].port
                 /\ view.carry >= cadence => Timely(read[i], cadence)
      <4>1. read[i] = InWindow(series[i], view.carry)
        OBVIOUS
      <4>2. SampleFits(series[i]) /\ Timely(series[i], cadence)
        BY <2>00 DEF AllFit, AllTimely
      <4> QED BY <2>0, <3>4, <4>1, <4>2, InWindowIs
    <3>6. AllFit(read) /\ (view.carry >= cadence => AllTimely(read, cadence))
      BY <3>5 DEF AllFit, AllTimely
    <3>7. AllTimely(read, cadence) => AllTimely(read, cadence + 1)
      <4> SUFFICES ASSUME AllTimely(read, cadence), NEW i \in Idx, read[i].onTime = TRUE
                   PROVE  read[i].oper # "none" /\ read[i].age <= cadence + 1
        BY DEF AllTimely, Timely
      <4>1. read[i].oper # "none" /\ read[i].age <= cadence
        BY DEF AllTimely, Timely
      <4>2. read[i].age \in Nat
        BY <3>5 DEF SampleFits
      <4> QED BY <2>0, <4>1, <4>2
    <3>8. view.still = TRUE => portAt[rowIdx] = "ours" /\ read[rowIdx].port = "ours"
      BY <2>00, <3>0, <3>5 DEF QueryFits, InStep, PortsFit
    <3>9. IndexFits'
      BY <3>1, <3>2, <3>4, <3>6, <3>7, <3>8 DEF IndexFits
    <3>10. PortsFit' /\ AllFit(series') /\ AllTimely(series', cadence')
      BY <2>00, <3>1 DEF PortsFit
    <3> QED BY <3>1, <3>2, <3>3, <3>9, <3>10 DEF LiveFits
  <2>3. CASE QueryFails \/ Show
    <3>1. view' = NoView /\ UNCHANGED <<cadence, portAt, series, rowIdx>>
      BY <2>3 DEF QueryFails, Show
    <3> QED BY <2>00, <3>1 DEF LiveFits, PortsFit
  <2>4. ASSUME NEW c \in {cadence, 0}, NEW l \in LinkShapes, NEW speed \in Speeds, NEW found \in BOOLEAN,
               Assemble(c, l, speed, found)
        PROVE  LiveFits'
    <3> USE <2>4
    <3>0. view # NoView /\ view.pc = "index" /\ Flags /\ IndexFits
      BY DEF LiveFits, Assemble
    <3> PICK end, cap : end = linkEndpoint(l) /\ cap = linkCapacity(l, speed, wanCapacities(l))
      OBVIOUS
    <3> PICK at : at = CurrentIndex(found)
      OBVIOUS
    <3> PICK shown : shown = view.read[at]
      OBVIOUS
    <3> PICK bound, st : /\ bound = (end.dev # Nowhere)
                         /\ st = IF bound THEN LinkState(shown.oper, shown.age, staleAfter(c)) ELSE "nodata"
      OBVIOUS
    <3> PICK into, outof : /\ into = IF end.mirrored THEN PortCounts(end.mirrored).out ELSE PortCounts(end.mirrored).in
                           /\ outof = IF end.mirrored THEN PortCounts(end.mirrored).in ELSE PortCounts(end.mirrored).out
      OBVIOUS
    <3> PICK b, still : b = (view.blind \/ c = 0) /\ still = (view.still /\ found)
      OBVIOUS
    <3>1. /\ view' = [pc |-> "show", blind |-> b, steady |-> view.steady, still |-> still, of |-> shown,
                      bound |-> bound, in |-> into, out |-> outof,
                      capacity |-> IF bound THEN cap ELSE 0, state |-> st]
          /\ UNCHANGED <<cadence, portAt, series, rowIdx>>
      BY Zenon DEF Assemble
    <3>2. /\ view'.pc = "show" /\ view'.blind = b /\ view'.steady = view.steady
          /\ view'.still = still /\ view'.of = shown
          /\ view'.bound = bound /\ view'.in = into /\ view'.out = outof /\ view'.state = st
      BY <3>1
    <3>3. into = "toA" /\ outof = "toB"
      BY DEF PortCounts
    <3>4. Flags'
      BY <3>0, <3>2, Zenon DEF Flags
    <3>a. /\ b = FALSE => view.blind = FALSE /\ c = cadence
          /\ still = TRUE => view.still = TRUE /\ found = TRUE
      BY <3>0, Zenon DEF Flags
    <3>b. at \in Idx /\ (found = TRUE => at = rowIdx)
      BY <2>00 DEF CurrentIndex, PortsFit, Idx, DocIdx
    <3>c. SampleFits(shown)
      BY <3>0, <3>b DEF IndexFits, AllFit
    <3>5. ASSUME bound PROVE ShowFits'
      <4>1. still = TRUE => shown.port = "ours"
        BY <3>0, <3>a, <3>b DEF IndexFits
      <4>2. st = LinkState(shown.oper, shown.age, staleAfter(c)) /\ shown.age \in Nat
            /\ shown.oper \in {"up", "down", "other", "none"}
        BY <3>5, <3>c DEF SampleFits
      <4>3. staleAfter(c) \in Nat /\ staleAfter(c) <= 2 * Larger(cadence, 1) /\ (c = cadence => staleAfter(c) >= cadence + 1)
        BY <2>0, StaleIs
      <4>4. ASSUME shown.onTime = TRUE, view.steady = TRUE, b = FALSE
            PROVE  st = IF shown.oper = "other" THEN "nodata" ELSE shown.oper
        <5>1. AllTimely(view.read, cadence + 1) /\ c = cadence
          BY <3>0, <3>a, <4>4 DEF IndexFits
        <5>2. shown.oper # "none" /\ shown.age <= cadence + 1
          BY <3>b, <4>4, <5>1 DEF AllTimely, Timely
        <5>3. ~(shown.age > staleAfter(c))
          BY <2>0, <4>2, <4>3, <5>1, <5>2
        <5> QED BY <4>2, <5>2, <5>3 DEF LinkState
      <4>5. st = "up" => shown.age <= 2 * Larger(cadence, 1)
        <5>1. 2 * Larger(cadence, 1) \in Nat
          BY <2>0 DEF Larger
        <5>2. st = "up" => ~(shown.age > staleAfter(c))
          BY <4>2 DEF LinkState
        <5> QED BY <4>2, <4>3, <5>1, <5>2
      <4>6. st = "nodata" => shown.age > 30 \/ shown.oper = "other"
        <5>1. st = "nodata" => shown.oper = "none" \/ shown.oper = "other"
          BY <4>2 DEF LinkState
        <5> QED BY <3>c, <5>1 DEF SampleFits
      <4> QED BY <3>1, <3>2, <3>3, <3>c, <4>1, <4>4, <4>5, <4>6 DEF ShowFits
    <3>6. PortsFit' /\ AllFit(series') /\ AllTimely(series', cadence')
      BY <2>00, <3>1 DEF PortsFit
    <3> QED BY <3>1, <3>2, <3>4, <3>5, <3>6 DEF LiveFits
  <2>5. CASE Minute
    <3> USE <2>5
    <3>1. /\ view # NoView => view.pc # "show" /\ ~view.ticked
          /\ series' = [i \in Idx |-> OnTime(Older(series[i]))]
          /\ UNCHANGED <<cadence, portAt, rowIdx>>
      BY DEF Minute, Meanwhile
    <3>2. ASSUME NEW i \in Idx
          PROVE  SampleFits(series'[i]) /\ Timely(series'[i], cadence) /\ series'[i].port = series[i].port
      <4>1. SampleFits(series[i]) /\ Timely(series[i], cadence)
        BY <2>00 DEF AllFit, AllTimely
      <4> PICK o : o = Older(series[i])
        OBVIOUS
      <4>2. SampleFits(o) /\ o.port = series[i].port /\ o.oper = series[i].oper /\ o.onTime = series[i].onTime
        BY <4>1, OlderIs
      <4>3. o.oper = "none" => o.onTime = FALSE
        BY <4>1, <4>2 DEF Timely, SampleFits
      <4>4. series'[i] = OnTime(o)
        BY <3>1
      <4> QED BY <2>0, <4>2, <4>3, <4>4, OnTimeIs
    <3>3. PortsFit' /\ AllFit(series') /\ AllTimely(series', cadence') /\ DOMAIN series' = Idx
      BY <2>00, <3>1, <3>2 DEF PortsFit, AllFit, AllTimely
    <3>4. CASE view = NoView
      <4>1. view' = view
        BY <3>4 DEF Minute
      <4> QED BY <2>0, <3>1, <3>3, <3>4, <4>1 DEF LiveFits
    <3>5. CASE view # NoView /\ view.pc = "query"
      <4>0. QueryFits /\ Flags /\ view' = [view EXCEPT !.ticked = TRUE]
        BY <3>5 DEF LiveFits, Minute
      <4>1. /\ view'.pc = "query" /\ view'.carry = view.carry /\ view'.blind = view.blind /\ view'.steady = view.steady
            /\ view'.still = view.still /\ view'.ticked = TRUE /\ DOMAIN view' = DOMAIN view
        BY <3>5, <4>0 DEF QueryFits
      <4>2. InStep => InStep'
        BY <2>00, <3>1, <3>2 DEF InStep, PortsFit
      <4>3. QueryFits'
        BY <3>1, <4>0, <4>1, <4>2 DEF QueryFits, Within
      <4>4. Flags'
        BY <4>0, <4>1, Zenon DEF Flags
      <4> QED BY <2>0, <3>1, <3>3, <4>1, <4>3, <4>4 DEF LiveFits
    <3>6. CASE view # NoView /\ view.pc = "index"
      <4> PICK read : read = [i \in Idx |-> Older(view.read[i])]
        OBVIOUS
      <4>0. IndexFits /\ Flags /\ view' = [view EXCEPT !.ticked = TRUE, !.read = read]
        BY <3>1, <3>6 DEF LiveFits, Minute
      <4>1. /\ view'.pc = "index" /\ view'.blind = view.blind /\ view'.steady = view.steady
            /\ view'.still = view.still /\ view'.ticked = TRUE /\ view'.read = read
            /\ DOMAIN view' = DOMAIN view
        BY <3>6, <4>0 DEF IndexFits
      <4>2. view.ticked = FALSE
        BY <3>1, <3>6, <4>0, Zenon DEF Flags
      <4>3. ASSUME NEW i \in Idx
            PROVE  /\ SampleFits(read[i]) /\ read[i].port = view.read[i].port
                   /\ Timely(view.read[i], cadence) => Timely(read[i], cadence + 1)
        <5>1. SampleFits(view.read[i])
          BY <4>0 DEF IndexFits, AllFit
        <5>2. read[i] = Older(view.read[i])
          OBVIOUS
        <5>3. /\ SampleFits(read[i]) /\ read[i].port = view.read[i].port /\ read[i].oper = view.read[i].oper
              /\ read[i].onTime = view.read[i].onTime /\ read[i].age <= view.read[i].age + 1
          BY <5>1, <5>2, OlderIs
        <5> QED BY <2>0, <5>1, <5>3 DEF Timely, SampleFits
      <4>4. AllFit(read) /\ (AllTimely(view.read, cadence) => AllTimely(read, cadence + 1))
        BY <4>3 DEF AllFit, AllTimely
      <4>5. read[rowIdx].port = view.read[rowIdx].port
        BY <2>00, <4>3 DEF PortsFit
      <4>6. IndexFits'
        BY <3>1, <4>0, <4>1, <4>2, <4>4, <4>5 DEF IndexFits
      <4>7. Flags'
        BY <4>0, <4>1, Zenon DEF Flags
      <4> QED BY <2>0, <3>1, <3>3, <4>1, <4>6, <4>7 DEF LiveFits
    <3> QED BY <3>1, <3>4, <3>5, <3>6 DEF LiveFits
  <2>6. ASSUME NEW status \in Statuses, DevicePolled(status) PROVE LiveFits'
    <3> USE <2>6
    <3>1. UNCHANGED <<cadence, portAt, rowIdx, view>> /\ DOMAIN series' = Idx /\ Meanwhile
      BY DEF DevicePolled
    <3>2. ASSUME NEW i \in Idx
          PROVE  /\ SampleFits(series'[i]) /\ Timely(series'[i], cadence)
                 /\ portAt[i] = "ours" => series'[i].port = "ours"
      <4>1. CASE portAt[i] = "none"
        <5>1. series'[i] = series[i]
          BY <4>1 DEF DevicePolled
        <5> QED BY <2>00, <4>1, <5>1 DEF AllFit, AllTimely
      <4>2. CASE portAt[i] # "none"
        <5> PICK o : o = IF portAt[i] = "ours" THEN status ELSE "up"
          OBVIOUS
        <5>1. series'[i] = [port |-> portAt[i], age |-> 0, oper |-> o, onTime |-> TRUE]
          BY <4>2 DEF DevicePolled, Sample
        <5>2. o \in {"up", "down", "other"}
          BY DEF Statuses
        <5> QED BY <2>0, <5>1, <5>2 DEF SampleFits, Timely
      <4> QED BY <4>1, <4>2
    <3>3. PortsFit' /\ AllFit(series') /\ AllTimely(series', cadence')
      BY <2>00, <3>1, <3>2 DEF PortsFit, AllFit, AllTimely
    <3>4. InStep => InStep'
      BY <2>00, <3>1, <3>2 DEF InStep, PortsFit
    <3>5. (QueryFits => QueryFits') /\ (IndexFits => IndexFits') /\ (ShowFits => ShowFits')
      BY <3>1, <3>4 DEF QueryFits, IndexFits, ShowFits, Within
    <3>6. Flags => Flags'
      BY <3>1 DEF Flags
    <3> QED BY <2>0, <3>1, <3>3, <3>5, <3>6 DEF LiveFits
  <2>7. ASSUME NEW c \in Cadences, CadenceSet(c) PROVE LiveFits'
    <3> USE <2>7
    <3>1. /\ view # NoView => view.pc # "show"
          /\ cadence' = c
          /\ series' = [i \in Idx |-> [series[i] EXCEPT !.onTime = FALSE]]
          /\ view' = (IF view = NoView THEN view ELSE [view EXCEPT !.steady = FALSE])
          /\ UNCHANGED <<portAt, rowIdx>>
      BY DEF CadenceSet, Meanwhile
    <3>2. ASSUME NEW i \in Idx
          PROVE  SampleFits(series'[i]) /\ Timely(series'[i], c) /\ series'[i].port = series[i].port
      <4> PICK s : s = series[i]
        OBVIOUS
      <4>1. SampleFits(s)
        BY <2>00 DEF AllFit
      <4>2. series'[i] = [s EXCEPT !.onTime = FALSE]
        BY <3>1
      <4>3. /\ series'[i].onTime = FALSE /\ series'[i].port = s.port /\ series'[i].age = s.age
            /\ series'[i].oper = s.oper /\ DOMAIN series'[i] = DOMAIN s
        BY <4>1, <4>2 DEF SampleFits
      <4> QED BY <4>1, <4>3 DEF SampleFits, Timely
    <3>3. PortsFit' /\ AllFit(series') /\ AllTimely(series', cadence')
      BY <2>00, <3>1, <3>2 DEF PortsFit, AllFit, AllTimely
    <3>4. CASE view = NoView
      BY <3>1, <3>3, <3>4 DEF LiveFits
    <3>5. CASE view # NoView /\ view.pc = "query"
      <4>0. QueryFits /\ Flags /\ view' = [view EXCEPT !.steady = FALSE]
        BY <3>1, <3>5 DEF LiveFits
      <4>1. /\ view'.pc = "query" /\ view'.carry = view.carry /\ view'.blind = view.blind /\ view'.steady = FALSE
            /\ view'.still = view.still /\ view'.ticked = view.ticked /\ DOMAIN view' = DOMAIN view
        BY <3>5, <4>0 DEF QueryFits
      <4>2. InStep => InStep'
        BY <2>00, <3>1, <3>2 DEF InStep, PortsFit
      <4>3. QueryFits'
        BY <4>0, <4>1, <4>2 DEF QueryFits, Within
      <4>4. Flags'
        BY <3>5, <4>0, <4>1, Zenon DEF Flags
      <4> QED BY <3>1, <3>3, <4>1, <4>3, <4>4 DEF LiveFits
    <3>6. CASE view # NoView /\ view.pc = "index"
      <4>0. IndexFits /\ Flags /\ view' = [view EXCEPT !.steady = FALSE]
        BY <3>1, <3>6 DEF LiveFits
      <4>1. /\ view'.pc = "index" /\ view'.blind = view.blind /\ view'.steady = FALSE /\ view'.still = view.still
            /\ view'.ticked = view.ticked /\ view'.read = view.read /\ DOMAIN view' = DOMAIN view
        BY <3>6, <4>0 DEF IndexFits
      <4>2. IndexFits'
        BY <3>1, <4>0, <4>1 DEF IndexFits
      <4>3. Flags'
        BY <3>6, <4>0, <4>1, Zenon DEF Flags
      <4> QED BY <3>1, <3>3, <4>1, <4>2, <4>3 DEF LiveFits
    <3> QED BY <3>1, <3>4, <3>5, <3>6 DEF LiveFits
  <2>8. CASE DeviceRenumbers
    <3> USE <2>8
    <3>1. /\ view # NoView => view.pc # "show"
          /\ portAt' = [i \in Idx |-> portAt[3 - i]]
          /\ view' = (IF view = NoView THEN view ELSE [view EXCEPT !.still = FALSE])
          /\ UNCHANGED <<cadence, series, rowIdx>>
      BY DEF DeviceRenumbers, Meanwhile
    <3>2. portAt'[1] = portAt[2] /\ portAt'[2] = portAt[1] /\ DOMAIN portAt' = Idx
      BY <3>1 DEF Idx
    <3>3. PortsFit' /\ AllFit(series') /\ AllTimely(series', cadence')
      <4>1. ASSUME NEW i \in Idx, NEW j \in Idx, portAt'[i] = "ours", portAt'[j] = "ours" PROVE i = j
        <5>1. (i = 1 \/ i = 2) /\ (j = 1 \/ j = 2)
          BY DEF Idx
        <5>2. 1 \in Idx /\ 2 \in Idx
          BY DEF Idx
        <5>3. ~(portAt[1] = "ours" /\ portAt[2] = "ours")
          BY <2>00, <5>2 DEF PortsFit
        <5> QED BY <3>2, <4>1, <5>1, <5>3
      <4> QED BY <2>00, <3>1, <3>2, <4>1 DEF PortsFit
    <3>4. CASE view = NoView
      BY <2>0, <3>1, <3>3, <3>4 DEF LiveFits
    <3>5. CASE view # NoView /\ view.pc = "query"
      <4>0. QueryFits /\ Flags /\ view' = [view EXCEPT !.still = FALSE]
        BY <3>1, <3>5 DEF LiveFits
      <4>1. /\ view'.pc = "query" /\ view'.carry = view.carry /\ view'.blind = view.blind /\ view'.steady = view.steady
            /\ view'.still = FALSE /\ view'.ticked = view.ticked /\ DOMAIN view' = DOMAIN view
        BY <3>5, <4>0 DEF QueryFits
      <4>3. QueryFits'
        BY <3>1, <4>0, <4>1 DEF QueryFits, Within
      <4>4. Flags'
        BY <3>5, <4>0, <4>1, Zenon DEF Flags
      <4> QED BY <2>0, <3>1, <3>3, <4>1, <4>3, <4>4 DEF LiveFits
    <3>6. CASE view # NoView /\ view.pc = "index"
      <4>0. IndexFits /\ Flags /\ view' = [view EXCEPT !.still = FALSE]
        BY <3>1, <3>6 DEF LiveFits
      <4>1. /\ view'.pc = "index" /\ view'.blind = view.blind /\ view'.steady = view.steady /\ view'.still = FALSE
            /\ view'.ticked = view.ticked /\ view'.read = view.read /\ DOMAIN view' = DOMAIN view
        BY <3>6, <4>0 DEF IndexFits
      <4>2. IndexFits'
        BY <3>1, <4>0, <4>1 DEF IndexFits
      <4>3. Flags'
        BY <3>6, <4>0, <4>1, Zenon DEF Flags
      <4> QED BY <2>0, <3>1, <3>3, <4>1, <4>2, <4>3 DEF LiveFits
    <3> QED BY <3>1, <3>4, <3>5, <3>6 DEF LiveFits
  <2>9. ASSUME NEW i \in Idx, RowFollows(i) PROVE LiveFits'
    <3>1. /\ view # NoView => view.pc # "show"
          /\ portAt[i] = "ours" /\ rowIdx # i /\ rowIdx' = i /\ UNCHANGED <<cadence, portAt, series, view>>
      BY <2>9 DEF RowFollows, Meanwhile
    <3>2. PortsFit' /\ AllFit(series') /\ AllTimely(series', cadence') /\ portAt[rowIdx] # "ours"
      BY <2>00, <2>9, <3>1 DEF PortsFit
    <3>3. (QueryFits => QueryFits') /\ (IndexFits => IndexFits')
      BY <3>1, <3>2 DEF QueryFits, IndexFits, InStep, Within
    <3>4. Flags => Flags'
      BY <3>1 DEF Flags
    <3> QED BY <2>0, <3>1, <3>2, <3>3, <3>4 DEF LiveFits
  <2>10. CASE UNCHANGED liveVars
    <3>1. UNCHANGED <<cadence, portAt, series, rowIdx, view>>
      BY <2>10 DEF liveVars
    <3> QED BY <3>1 DEF LiveFits, PortsFit, QueryFits, IndexFits, ShowFits, Flags, Within, InStep
  <2> QED BY <2>1, <2>2, <2>3, <2>4, <2>5, <2>6, <2>7, <2>8, <2>9, <2>10, <1>2 DEF LiveNext
<1>3. LiveFits => FiguresAreHonest
  <2> SUFFICES ASSUME LiveFits, view # NoView, view.pc = "show", view.bound PROVE
        /\ view.in = "toA" /\ view.out = "toB"
        /\ view.still => view.of.port = "ours"
        /\ view.of.onTime /\ view.steady /\ ~view.blind =>
             view.state = IF view.of.oper = "other" THEN "nodata" ELSE view.of.oper
        /\ view.state = "up" => view.of.age <= 2 * Larger(cadence, 1) \/ ~view.steady
        /\ view.state = "nodata" => view.of.age > 30 \/ view.of.oper = "other"
    BY DEF FiguresAreHonest
  <2>1. ShowFits /\ Flags
    BY DEF LiveFits
  <2>2. view.of.onTime \in BOOLEAN /\ view.steady \in BOOLEAN /\ view.blind \in BOOLEAN /\ view.still \in BOOLEAN
    BY <2>1 DEF Flags, ShowFits, SampleFits
  <2> QED BY <2>1, <2>2, Zenon DEF ShowFits
<1> QED BY <1>1, <1>2, <1>3, PTL DEF LiveSpec

-----------------------------------------------------------------------------
(* A pattern that stands for what was typed.                               *)

Special(c) == c \in {"_", "\\"}

\* Character k of s is at J[k] in the pattern p, behind an escape if it is special.
EscapedTo(p, s, J, n) ==
  /\ J \in [1..(n + 1) -> 1..(Len(p) + 1)] /\ J[1] = 1 /\ J[n + 1] = Len(p) + 1
  /\ \A k \in 1..n : IF Special(s[k]) THEN J[k + 1] = J[k] + 2 /\ p[J[k]] = "\\" /\ p[J[k] + 1] = s[k]
                     ELSE J[k + 1] = J[k] + 1 /\ p[J[k]] = s[k]

Escape(c) == IF c \in {"_", "\\"} THEN <<"\\", c>> ELSE <<c>>

LEMMA EscapeIs ==
  ASSUME NEW V, "\\" \in V, NEW c \in V
  PROVE  /\ Escape(c) \in Seq(V)
         /\ Special(c) => Len(Escape(c)) = 2 /\ Escape(c)[1] = "\\" /\ Escape(c)[2] = c
         /\ ~Special(c) => Len(Escape(c)) = 1 /\ Escape(c)[1] = c
<1>1. CASE Special(c)
  <2> PICK b \in V : b = "\\"
    OBVIOUS
  <2>1. Escape(c) = <<b, c>>
    BY <1>1 DEF Escape, Special
  <2> QED BY <1>1, <2>1
<1>2. CASE ~Special(c)
  <2>1. Escape(c) = <<c>>
    BY <1>2 DEF Escape, Special
  <2> QED BY <1>2, <2>1
<1> QED BY <1>1, <1>2

LEMMA EscapeOne ==
  ASSUME NEW V, "\\" \in V, NEW p \in Seq(V), NEW s, NEW n \in Nat, NEW J, EscapedTo(p, s, J, n), s[n + 1] \in V,
         NEW q, q = p \o Escape(s[n + 1])
  PROVE  q \in Seq(V) /\ \E K : EscapedTo(q, s, K, n + 1)
<1> PICK c : c = s[n + 1]
  OBVIOUS
<1> PICK w : w = IF Special(c) THEN 2 ELSE 1
  OBVIOUS
<1> PICK L : L = Len(p)
  OBVIOUS
<1> PICK e : e = Escape(c)
  OBVIOUS
<1>0. c \in V /\ "\\" \in V
  OBVIOUS
<1>a. /\ Special(c) => e[1] = "\\" /\ e[2] = c
      /\ ~Special(c) => e[1] = c
  <2>1. /\ Special(c) => Escape(c)[1] = "\\" /\ Escape(c)[2] = c
        /\ ~Special(c) => Escape(c)[1] = c
    BY <1>0, EscapeIs, Zenon
  <2> QED BY <2>1, Zenon
<1>1. e \in Seq(V) /\ Len(e) = w /\ w \in {1, 2} /\ L \in Nat
  <2>1. e \in Seq(V) /\ (Special(c) => Len(e) = 2) /\ (~Special(c) => Len(e) = 1)
    BY <1>0, EscapeIs
  <2>2. CASE Special(c)
    BY <2>1, <2>2
  <2>3. CASE ~Special(c)
    BY <2>1, <2>3
  <2> QED BY <2>2, <2>3
<1>2. q \in Seq(V) /\ Len(q) = L + w /\ \A x \in 1..L : q[x] = p[x]
  BY <1>1
<1>3. IF Special(c) THEN q[L + 1] = "\\" /\ q[L + 2] = c ELSE q[L + 1] = c
  <2>1. \A x \in 1..w : q[L + x] = e[x]
    BY <1>1, SMTT(30)
  <2>2. CASE Special(c)
    <3>0. w = 2
      BY <2>2
    <3>1. e[1] = "\\" /\ e[2] = c
      BY <1>a, <2>2
    <3>2. q[L + 1] = e[1] /\ q[L + 2] = e[2]
      <4>1. 1 \in 1..w /\ 2 \in 1..w
        BY <3>0
      <4> QED BY <2>1, <4>1, Zenon
    <3> QED BY <2>2, <3>1, <3>2
  <2>3. CASE ~Special(c)
    <3>0. w = 1
      BY <2>3
    <3>1. e[1] = c
      BY <1>a, <2>3
    <3>2. q[L + 1] = e[1]
      <4>1. 1 \in 1..w
        BY <3>0
      <4> QED BY <2>1, <4>1, Zenon
    <3> QED BY <2>3, <3>1, <3>2
  <2> QED BY <2>2, <2>3
<1> PICK K : K = [k \in 1..(n + 2) |-> IF k = n + 2 THEN L + w + 1 ELSE J[k]]
  OBVIOUS
<1>4. J \in [1..(n + 1) -> 1..(L + 1)] /\ J[1] = 1 /\ J[n + 1] = L + 1
  BY DEF EscapedTo
<1>5. \A k \in 1..(n + 1) : K[k] = J[k] /\ J[k] \in 1..(L + 1)
  BY <1>4
<1>6. K[n + 2] = L + w + 1
  OBVIOUS
<1>7. K \in [1..(n + 2) -> 1..(L + w + 1)]
  BY <1>1, <1>4
<1>8. ASSUME NEW k \in 1..(n + 1)
      PROVE  IF Special(s[k]) THEN K[k + 1] = K[k] + 2 /\ q[K[k]] = "\\" /\ q[K[k] + 1] = s[k]
             ELSE K[k + 1] = K[k] + 1 /\ q[K[k]] = s[k]
  <2>1. CASE k = n + 1
    <3>1. K[k] = L + 1 /\ k + 1 = n + 2
      BY <1>4, <1>5, <2>1
    <3>2. K[k + 1] = L + w + 1
      BY <1>6, <3>1
    <3>3. s[k] = c
      BY <2>1
    <3>4. CASE Special(c)
      <4>1. w = 2 /\ K[k + 1] = K[k] + 2 /\ K[k] + 1 = L + 2
        BY <1>1, <3>1, <3>2, <3>4
      <4> QED BY <1>3, <3>1, <3>3, <3>4, <4>1
    <3>5. CASE ~Special(c)
      <4>1. w = 1 /\ K[k + 1] = K[k] + 1
        BY <1>1, <3>1, <3>2, <3>5
      <4> QED BY <1>3, <3>1, <3>3, <3>5, <4>1
    <3> QED BY <3>4, <3>5
  <2>2. CASE k # n + 1
    <3>1. k \in 1..n /\ k + 1 \in 1..(n + 1)
      BY <2>2
    <3>2. K[k] = J[k] /\ K[k + 1] = J[k + 1] /\ J[k] \in 1..(L + 1) /\ J[k + 1] \in 1..(L + 1)
      BY <1>5, <3>1
    <3>3. IF Special(s[k]) THEN J[k + 1] = J[k] + 2 /\ p[J[k]] = "\\" /\ p[J[k] + 1] = s[k]
          ELSE J[k + 1] = J[k] + 1 /\ p[J[k]] = s[k]
      BY <3>1 DEF EscapedTo
    <3>4. CASE Special(s[k])
      <4>1. J[k] \in 1..L /\ J[k] + 1 \in 1..L
        BY <1>1, <3>2, <3>3, <3>4
      <4> QED BY <1>2, <3>2, <3>3, <3>4, <4>1
    <3>5. CASE ~Special(s[k])
      <4>1. J[k] \in 1..L
        BY <1>1, <3>2, <3>3, <3>5
      <4> QED BY <1>2, <3>2, <3>3, <3>5, <4>1
    <3> QED BY <3>4, <3>5
  <2> QED BY <2>1, <2>2
<1>9. EscapedTo(q, s, K, n + 1)
  <2>1. K[1] = 1
    BY <1>4, <1>5
  <2>2. (n + 1) + 1 = n + 2 /\ Len(q) + 1 = L + w + 1
    BY <1>1, <1>2
  <2> QED BY <1>6, <1>7, <1>8, <2>1, <2>2 DEF EscapedTo
<1> QED BY <1>2, <1>9

\* What likePattern makes of the characters, before it looks for a %.
Escaped(s) == FlattenSeq([i \in DOMAIN s |-> IF s[i] \in {"_", "\\"} THEN <<"\\", s[i]>> ELSE <<s[i]>>])

LEMMA EscapeAll ==
  ASSUME NEW V, "\\" \in V, NEW s \in Seq(V)
  PROVE  Escaped(s) \in Seq(V) /\ \E J : EscapedTo(Escaped(s), s, J, Len(s))
<1> PICK n : n = Len(s)
  OBVIOUS
<1>1. n \in Nat /\ DOMAIN s = 1..n /\ \A i \in 1..n : s[i] \in V
  OBVIOUS
<1> PICK e : e = [i \in DOMAIN s |-> Escape(s[i])]
  OBVIOUS
<1>2. Escaped(s) = FlattenSeq(e)
  BY DEF Escaped, Escape
<1>3. e \in Seq(Seq(V)) /\ Len(e) = n /\ \A i \in 1..n : e[i] = Escape(s[i])
  <2>1. ASSUME NEW c \in V PROVE Escape(c) \in Seq(V)
    BY EscapeIs
  <2> QED BY <1>1, <2>1
<1>4. PICK r : Runs(r, "flatten", e, <<>>, Len(e))
  BY <1>1, <1>3, RunsExist
<1>5. FlattenSeq(e) = r[n]
  BY <1>3, <1>4, FlattenRuns
<1>6. r[0] = <<>> /\ \A i \in 1..n : r[i] = r[i - 1] \o Escape(s[i])
  BY <1>3, <1>4 DEF Runs, FoldStep
<1> DEFINE A == {i \in 0..n : r[i] \in Seq(V) /\ \E J : EscapedTo(r[i], s, J, i)}
<1>7. 0 \in A
  <2> PICK J : J = [k \in 1..1 |-> 1]
    OBVIOUS
  <2>1. EscapedTo(<<>>, s, J, 0)
    BY DEF EscapedTo
  <2>2. r[0] \in Seq(V)
    BY <1>6, EmptySeq
  <2>3. EscapedTo(r[0], s, J, 0)
    BY <1>6, <2>1
  <2> QED BY <1>1, <2>2, <2>3
<1>8. ASSUME NEW i \in 0..(n - 1), i \in A PROVE i + 1 \in A
  <2>1. i + 1 \in 1..n /\ i + 1 \in 0..n /\ (i + 1) - 1 = i /\ i \in Nat
    BY <1>1
  <2>2. r[i] \in Seq(V) /\ s[i + 1] \in V
    BY <1>1, <1>8, <2>1
  <2>3. PICK J : EscapedTo(r[i], s, J, i)
    BY <1>8
  <2> PICK q : q = r[i + 1]
    OBVIOUS
  <2>4. q = r[i] \o Escape(s[i + 1])
    BY <1>6, <2>1
  <2>5. q \in Seq(V) /\ \E K : EscapedTo(q, s, K, i + 1)
    BY <2>1, <2>2, <2>3, <2>4, EscapeOne
  <2> QED BY <2>1, <2>5
<1>9. n \in A
  <2> HIDE DEF A
  <2>1. 0..n \subseteq A
    BY <1>1, <1>7, <1>8, UpToAll
  <2> QED BY <1>1, <2>1
<1> QED BY <1>2, <1>5, <1>9

\* Between two gaps.
Around(s) == <<"%">> \o s \o <<"%">>

LEMMA AroundIs ==
  ASSUME NEW V, "%" \in V, NEW s \in Seq(V)
  PROVE  /\ Around(s) \in Seq(V) /\ Len(Around(s)) = Len(s) + 2 /\ Around(s)[1] = "%"
         /\ Around(s)[Len(s) + 2] = "%" /\ \A i \in 1..Len(s) : Around(s)[i + 1] = s[i]
<1> PICK g : g = "%"
  OBVIOUS
<1> PICK a : a = <<g>> \o s
  OBVIOUS
<1> PICK b : b = a \o <<g>>
  OBVIOUS
<1>0. g \in V /\ <<g>> \in Seq(V) /\ Len(<<g>>) = 1 /\ <<g>>[1] = g /\ Len(s) \in Nat
  OBVIOUS
<1>1. a \in Seq(V) /\ Len(a) = Len(s) + 1 /\ a[1] = g /\ \A i \in 1..Len(s) : a[i + 1] = s[i]
  BY <1>0
<1>2. b \in Seq(V) /\ Len(b) = Len(s) + 2 /\ \A i \in 1..(Len(s) + 1) : b[i] = a[i]
  BY <1>0, <1>1
<1>3. b[Len(s) + 2] = g
  BY <1>0, <1>1
<1>4. b = Around(s)
  BY DEF Around
<1>5. b[1] = g /\ \A i \in 1..Len(s) : b[i + 1] = s[i]
  BY <1>0, <1>1, <1>2
<1> QED BY <1>2, <1>3, <1>4, <1>5

LEMMA AroundEscaped ==
  ASSUME NEW V, "%" \in V, NEW p \in Seq(V), NEW s \in Seq(V), NEW J, EscapedTo(p, s, J, Len(s))
  PROVE  \E K : EscapedTo(Around(p), Around(s), K, Len(Around(s)))
<1> PICK n : n = Len(s)
  OBVIOUS
<1> PICK L : L = Len(p)
  OBVIOUS
<1> PICK q : q = Around(p)
  OBVIOUS
<1> PICK u : u = Around(s)
  OBVIOUS
<1>0. n \in Nat /\ L \in Nat /\ "%" \in V
  OBVIOUS
<1>1. q \in Seq(V) /\ Len(q) = L + 2 /\ q[1] = "%" /\ q[L + 2] = "%" /\ \A i \in 1..L : q[i + 1] = p[i]
  BY <1>0, AroundIs
<1>2. u \in Seq(V) /\ Len(u) = n + 2 /\ u[1] = "%" /\ u[n + 2] = "%" /\ \A i \in 1..n : u[i + 1] = s[i]
  BY <1>0, AroundIs
<1> PICK K : K = [k \in 1..(n + 3) |-> IF k = 1 THEN 1 ELSE IF k = n + 3 THEN L + 3 ELSE J[k - 1] + 1]
  OBVIOUS
<1>3. J \in [1..(n + 1) -> 1..(L + 1)] /\ J[1] = 1 /\ J[n + 1] = L + 1
  BY DEF EscapedTo
<1>4. K[1] = 1 /\ K[n + 3] = L + 3 /\ \A k \in 1..(n + 1) : K[k + 1] = J[k] + 1 /\ J[k] \in 1..(L + 1)
  <2>1. K[1] = 1 /\ K[n + 3] = L + 3
    <3>1. 1 \in 1..(n + 3) /\ n + 3 \in 1..(n + 3) /\ n + 3 # 1
      BY <1>0
    <3> QED BY <3>1
  <2>2. ASSUME NEW k \in 1..(n + 1) PROVE K[k + 1] = J[k] + 1
    <3>1. k + 1 \in 1..(n + 3) /\ k + 1 # 1 /\ k + 1 # n + 3 /\ (k + 1) - 1 = k
      BY <1>0
    <3> QED BY <3>1
  <2> QED BY <1>3, <2>1, <2>2
<1>5. K \in [1..(n + 3) -> 1..(L + 3)]
  <2>1. ASSUME NEW k \in 1..(n + 3), k # 1, k # n + 3 PROVE J[k - 1] + 1 \in 1..(L + 3)
    <3>1. k - 1 \in 1..(n + 1)
      BY <1>0, <2>1
    <3>2. J[k - 1] \in 1..(L + 1)
      BY <1>3, <3>1
    <3> QED BY <1>0, <3>2
  <2> QED BY <1>0, <2>1
<1>6. ASSUME NEW k \in 1..(n + 2)
      PROVE  IF Special(u[k]) THEN K[k + 1] = K[k] + 2 /\ q[K[k]] = "\\" /\ q[K[k] + 1] = u[k]
             ELSE K[k + 1] = K[k] + 1 /\ q[K[k]] = u[k]
  <2>0. ~Special("%")
    BY DEF Special
  <2>1. CASE k = 1
    <3>1. 1 \in 1..(n + 1) /\ k + 1 = 1 + 1
      BY <1>0, <2>1
    <3>2. K[1 + 1] = J[1] + 1
      BY <1>4, <3>1
    <3>3. K[k + 1] = K[k] + 1 /\ K[k] = 1
      BY <1>3, <1>4, <2>1, <3>1, <3>2
    <3> QED BY <1>1, <1>2, <2>0, <2>1, <3>3
  <2>2. CASE k = n + 2
    <3>1. n + 1 \in 1..(n + 1) /\ k = (n + 1) + 1 /\ k + 1 = n + 3
      BY <1>0, <2>2
    <3>2. K[k] = J[n + 1] + 1
      BY <1>4, <3>1
    <3>3. K[k] = L + 2 /\ K[k + 1] = L + 3
      BY <1>0, <1>3, <1>4, <3>1, <3>2
    <3>4. K[k + 1] = K[k] + 1
      BY <1>0, <3>3
    <3> QED BY <1>1, <1>2, <2>0, <2>2, <3>3, <3>4
  <2>3. CASE k # 1 /\ k # n + 2
    <3> PICK i : i = k - 1
      OBVIOUS
    <3>1. i \in 1..n /\ i \in 1..(n + 1) /\ i + 1 \in 1..(n + 1) /\ k = i + 1
      BY <1>0, <2>3
    <3>2. K[k] = J[i] + 1 /\ K[k + 1] = J[i + 1] + 1 /\ u[k] = s[i] /\ J[i] \in 1..(L + 1) /\ J[i + 1] \in 1..(L + 1)
      BY <1>2, <1>4, <3>1
    <3>3. IF Special(s[i]) THEN J[i + 1] = J[i] + 2 /\ p[J[i]] = "\\" /\ p[J[i] + 1] = s[i]
          ELSE J[i + 1] = J[i] + 1 /\ p[J[i]] = s[i]
      BY <3>1 DEF EscapedTo
    <3>4. CASE Special(s[i])
      <4>1. J[i] \in 1..L /\ J[i] + 1 \in 1..L
        BY <1>0, <3>2, <3>3, <3>4
      <4>2. q[J[i] + 1] = p[J[i]] /\ q[(J[i] + 1) + 1] = p[J[i] + 1]
        BY <1>1, <4>1
      <4>3. K[k + 1] = K[k] + 2
        BY <1>0, <3>2, <3>3, <3>4, SMTT(60)
      <4> QED BY <3>2, <3>3, <3>4, <4>2, <4>3
    <3>5. CASE ~Special(s[i])
      <4>1. J[i] \in 1..L
        BY <1>0, <3>2, <3>3, <3>5
      <4>2. q[J[i] + 1] = p[J[i]]
        BY <1>1, <4>1
      <4>3. K[k + 1] = K[k] + 1
        BY <1>0, <3>2, <3>3, <3>5
      <4> QED BY <3>2, <3>3, <3>5, <4>2, <4>3
    <3> QED BY <3>4, <3>5
  <2> QED BY <2>1, <2>2, <2>3
<1>7. EscapedTo(q, u, K, n + 2)
  <2>1. (n + 2) + 1 = n + 3 /\ Len(q) + 1 = L + 3
    BY <1>0, <1>1
  <2> QED BY <1>4, <1>5, <1>6, <2>1 DEF EscapedTo
<1> QED BY <1>2, <1>7

\* What was typed, as a pattern: with a gap at either end if it has none.
Sought(s) == IF Contains(s, "%") THEN s ELSE Around(s)

LEMMA SamePercent ==
  ASSUME NEW p, NEW n \in Nat, NEW s, NEW J, EscapedTo(p, s, J, n), Len(p) \in Nat, Len(s) = n
  PROVE  Contains(p, "%") <=> Contains(s, "%")
<1> PICK L : L = Len(p)
  OBVIOUS
<1>0. L \in Nat /\ J \in [1..(n + 1) -> 1..(L + 1)] /\ J[1] = 1 /\ J[n + 1] = L + 1
  BY DEF EscapedTo
<1>1. ASSUME NEW k \in 1..n
      PROVE  /\ J[k] \in 1..(L + 1) /\ J[k + 1] \in 1..(L + 1)
             /\ IF Special(s[k]) THEN J[k + 1] = J[k] + 2 /\ p[J[k]] = "\\" /\ p[J[k] + 1] = s[k]
                ELSE J[k + 1] = J[k] + 1 /\ p[J[k]] = s[k]
  <2>1. k \in 1..(n + 1) /\ k + 1 \in 1..(n + 1)
    OBVIOUS
  <2> QED BY <1>0, <2>1 DEF EscapedTo
<1>2. ASSUME Contains(s, "%") PROVE Contains(p, "%")
  <2>1. PICK k \in 1..n : s[k] = "%"
    BY <1>2 DEF Contains
  <2>2. ~Special(s[k])
    BY <2>1 DEF Special
  <2>3. p[J[k]] = "%" /\ J[k] \in 1..L
    BY <1>0, <1>1, <2>1, <2>2
  <2> QED BY <2>3 DEF Contains
<1>3. ASSUME ~Contains(s, "%") PROVE ~Contains(p, "%")
  <2>1. \A k \in 1..n : s[k] # "%"
    BY <1>3 DEF Contains
  <2> DEFINE A == {k \in 0..n : \A x \in 1..(J[k + 1] - 1) : p[x] # "%"}
  <2>2. 0 \in A
    <3>1. ASSUME NEW x \in 1..(J[0 + 1] - 1) PROVE FALSE
      BY <1>0, <3>1
    <3> QED BY <3>1
  <2>3. ASSUME NEW i \in 0..(n - 1), i \in A PROVE i + 1 \in A
    <3> PICK k : k = i + 1
      OBVIOUS
    <3>1. k \in 1..n /\ k \in 0..n
      OBVIOUS
    <3>2. \A x \in 1..(J[k] - 1) : p[x] # "%"
      BY <2>3
    <3>3. ASSUME NEW x \in 1..(J[k + 1] - 1) PROVE p[x] # "%"
      <4>0. J[k] \in Nat /\ J[k + 1] \in Nat /\ x \in Nat /\ s[k] # "%"
        BY <1>0, <1>1, <2>1, <3>1
      <4>1. CASE x < J[k]
        BY <3>2, <4>0, <4>1
      <4>2. CASE ~(x < J[k])
        <5>1. CASE Special(s[k])
          <6>0. J[k + 1] = J[k] + 2 /\ x <= J[k + 1] - 1
            BY <1>1, <3>1, <4>0, <5>1
          <6> PICK v, w : v = J[k] /\ w = J[k + 1]
            OBVIOUS
          <6>1. x = J[k] \/ x = J[k] + 1
            BY <4>0, <4>2, <6>0
          <6>2. p[J[k]] # "%" /\ p[J[k] + 1] # "%"
            BY <1>1, <3>1, <4>0, <5>1
          <6> QED BY <6>1, <6>2
        <5>2. CASE ~Special(s[k])
          <6>1. x = J[k] /\ p[J[k]] # "%"
            BY <1>1, <3>1, <4>0, <4>2, <5>2
          <6> QED BY <6>1
        <5> QED BY <5>1, <5>2
      <4> QED BY <4>1, <4>2
    <3> QED BY <3>1, <3>3
  <2>4. n \in A
    <3> HIDE DEF A
    <3>1. 0..n \subseteq A
      BY <2>2, <2>3, UpToAll
    <3> QED BY <3>1
  <2>5. \A x \in 1..L : p[x] # "%"
    BY <1>0, <2>4
  <2> QED BY <2>5 DEF Contains
<1> QED BY <1>2, <1>3

LEMMA PatternIs ==
  ASSUME NEW V, "\\" \in V, "%" \in V, NEW s \in Seq(V)
  PROVE  /\ likePattern(s) \in Seq(V) /\ Sought(s) \in Seq(V)
         /\ \E J : EscapedTo(likePattern(s), Sought(s), J, Len(Sought(s)))
<1> PICK p : p = Escaped(s)
  OBVIOUS
<1>0. "\\" \in V /\ "%" \in V
  OBVIOUS
<1>1. p \in Seq(V) /\ Len(p) \in Nat /\ Len(s) \in Nat
  BY <1>0, EscapeAll
<1>2. PICK J : EscapedTo(p, s, J, Len(s))
  BY <1>0, EscapeAll
<1>3. Contains(p, "%") <=> Contains(s, "%")
  BY <1>1, <1>2, SamePercent
<1>4. likePattern(s) = IF Contains(p, "%") THEN p ELSE Around(p)
  BY Zenon DEF likePattern, Escaped, Around
<1>5. CASE Contains(s, "%")
  BY <1>1, <1>2, <1>3, <1>4, <1>5 DEF Sought
<1>6. CASE ~Contains(s, "%")
  <2>1. likePattern(s) = Around(p) /\ Sought(s) = Around(s)
    BY <1>3, <1>4, <1>6 DEF Sought
  <2>2. Around(p) \in Seq(V) /\ Around(s) \in Seq(V)
    BY <1>0, <1>1, AroundIs
  <2>3. \E K : EscapedTo(Around(p), Around(s), K, Len(Around(s)))
    BY <1>0, <1>1, <1>2, AroundEscaped
  <2> QED BY <2>1, <2>2, <2>3
<1> QED BY <1>5, <1>6

-----------------------------------------------------------------------------
(* Matching a pattern.                                                     *)

Later(i, j, L, P) == {x \in (i..(L + 1)) \X (j..(P + 1)) : x # <<i, j>>}

LEMMA LaterIs ==
  ASSUME NEW i \in Nat, NEW j \in Nat, NEW L \in Nat, NEW P \in Nat, NEW y \in Later(i, j, L, P)
  PROVE  y[1] \in i..(L + 1) /\ y[2] \in j..(P + 1) /\ (y[1] # i \/ y[2] # j) /\ y = <<y[1], y[2]>>
<1>1. y \in (i..(L + 1)) \X (j..(P + 1)) /\ y # <<i, j>>
  BY DEF Later
<1>2. y[1] \in i..(L + 1) /\ y[2] \in j..(P + 1) /\ y = <<y[1], y[2]>>
  BY <1>1
<1> QED BY <1>1, <1>2

\* Places from which fewer than k steps are left.
Near(k, L, P) == {x \in (1..(L + 1)) \X (1..(P + 1)) : (L + 1 - x[1]) + (P + 1 - x[2]) < k}

LEMMA Fewer ==
  ASSUME NEW L \in Nat, NEW P \in Nat, NEW k \in Nat, NEW i \in 1..(L + 1), NEW j \in 1..(P + 1),
         (L + 1 - i) + (P + 1 - j) < k + 1, NEW a \in i..(L + 1), NEW b \in j..(P + 1), a # i \/ b # j
  PROVE  (L + 1 - a) + (P + 1 - b) < k
OBVIOUS

LEMMA NearIs ==
  ASSUME NEW L \in Nat, NEW P \in Nat, NEW k \in Nat, NEW x \in Near(k + 1, L, P)
  PROVE  /\ x[1] \in 1..(L + 1) /\ x[2] \in 1..(P + 1)
         /\ \A y \in Later(x[1], x[2], L, P) : y \in Near(k, L, P)
<1> PICK i, j : i = x[1] /\ j = x[2]
  OBVIOUS
<1>1. i \in 1..(L + 1) /\ j \in 1..(P + 1) /\ (L + 1 - i) + (P + 1 - j) < k + 1
  BY DEF Near
<1>2. ASSUME NEW y \in Later(i, j, L, P) PROVE y \in Near(k, L, P)
  <2> PICK a, b : a = y[1] /\ b = y[2]
    OBVIOUS
  <2>1. a \in i..(L + 1) /\ b \in j..(P + 1) /\ (a # i \/ b # j) /\ y = <<a, b>>
    <3>1. i \in Nat /\ j \in Nat
      BY <1>1
    <3> QED BY <3>1, LaterIs
  <2>2. (L + 1 - a) + (P + 1 - b) < k
    BY <1>1, <2>1, Fewer
  <2>3. y \in (1..(L + 1)) \X (1..(P + 1))
    BY <1>1, <2>1
  <2> QED BY <2>2, <2>3 DEF Near
<1> QED BY <1>1, <1>2

LEMMA NearGrows ==
  ASSUME NEW L \in Nat, NEW P \in Nat
  PROVE  /\ Near(0, L, P) = {} /\ Near(L + P + 1, L, P) = (1..(L + 1)) \X (1..(P + 1))
         /\ \A k \in Nat : Near(k, L, P) \subseteq Near(k + 1, L, P)
<1>1. ASSUME NEW x \in (1..(L + 1)) \X (1..(P + 1))
      PROVE  /\ ~((L + 1 - x[1]) + (P + 1 - x[2]) < 0)
             /\ (L + 1 - x[1]) + (P + 1 - x[2]) < L + P + 1
             /\ \A k \in Nat : (L + 1 - x[1]) + (P + 1 - x[2]) < k => (L + 1 - x[1]) + (P + 1 - x[2]) < k + 1
  <2>1. x[1] \in 1..(L + 1) /\ x[2] \in 1..(P + 1)
    OBVIOUS
  <2> QED BY <2>1
<1>2. Near(0, L, P) = {}
  BY <1>1 DEF Near
<1>3. Near(L + P + 1, L, P) = (1..(L + 1)) \X (1..(P + 1))
  BY <1>1 DEF Near
<1>4. ASSUME NEW k \in Nat PROVE Near(k, L, P) \subseteq Near(k + 1, L, P)
  BY <1>1 DEF Near
<1> QED BY <1>2, <1>3, <1>4

Agree(f, g, i, j, L, P) == \A x \in Later(i, j, L, P) : f[x] = g[x]

LEMMA LikeSame ==
  ASSUME NEW t, NEW p, NEW L \in Nat, NEW P \in Nat, L = Len(t), P = Len(p), NEW i \in 1..(L + 1), NEW j \in 1..(P + 1),
         NEW f, NEW g, Agree(f, g, i, j, L, P)
  PROVE  LikeFrom(f, t, p, i, j) = LikeFrom(g, t, p, i, j)
<1>0. \A x \in Later(i, j, L, P) : f[x] = g[x]
  BY DEF Agree
<1>1. CASE j > P
  BY <1>1 DEF LikeFrom
<1>2. CASE ~(j > P) /\ p[j] = "%"
  <2>1. <<i, j + 1>> \in Later(i, j, L, P)
    BY <1>2 DEF Later
  <2>2. i <= L => <<i + 1, j>> \in Later(i, j, L, P)
    BY <1>2 DEF Later
  <2>3. f[<<i, j + 1>>] = g[<<i, j + 1>>] /\ (i <= L => f[<<i + 1, j>>] = g[<<i + 1, j>>])
    BY <1>0, <2>1, <2>2
  <2> QED BY <1>2, <2>3, Zenon DEF LikeFrom
<1>3. CASE ~(j > P) /\ p[j] # "%"
  <2>1. CASE i <= L
    <3>1. <<i + 1, j + 1>> \in Later(i, j, L, P)
      BY <1>3, <2>1 DEF Later
    <3>2. j < P => <<i + 1, j + 2>> \in Later(i, j, L, P)
      BY <1>3, <2>1 DEF Later
    <3>3. f[<<i + 1, j + 1>>] = g[<<i + 1, j + 1>>] /\ (j < P => f[<<i + 1, j + 2>>] = g[<<i + 1, j + 2>>])
      BY <1>0, <3>1, <3>2
    <3> QED BY <1>3, <2>1, <3>3, Zenon DEF LikeFrom
  <2>2. CASE ~(i <= L)
    BY <1>3, <2>2, Zenon DEF LikeFrom
  <2> QED BY <2>1, <2>2
<1> QED BY <1>1, <1>2, <1>3

Likes(m, t, p, D) == m = [x \in D |-> LikeFrom(m, t, p, x[1], x[2])]

LEMMA LikesExist ==
  ASSUME NEW t, NEW p, NEW L \in Nat, NEW P \in Nat, L = Len(t), P = Len(p)
  PROVE  \E m : Likes(m, t, p, (1..(L + 1)) \X (1..(P + 1)))
<1> PICK N : N = L + P + 1
  OBVIOUS
<1>0. N \in Nat
  OBVIOUS
<1> DEFINE A == {k \in 0..N : \E m : Likes(m, t, p, Near(k, L, P))}
<1>1. 0 \in A
  <2> PICK m : m = [x \in {} |-> LikeFrom(<<>>, t, p, x[1], x[2])]
    OBVIOUS
  <2>1. Likes(m, t, p, {})
    BY DEF Likes
  <2>2. Likes(m, t, p, Near(0, L, P))
    BY <2>1, NearGrows
  <2>3. 0 \in 0..N
    BY <1>0
  <2> QED BY <2>2, <2>3
<1>2. ASSUME NEW k \in 0..(N - 1), k \in A PROVE k + 1 \in A
  <2>0. k \in Nat /\ k + 1 \in 0..N
    BY <1>0
  <2>1. PICK m : Likes(m, t, p, Near(k, L, P))
    BY <1>2
  <2> PICK S, T : S = Near(k, L, P) /\ T = Near(k + 1, L, P)
    OBVIOUS
  <2>2. S \subseteq T
    BY <2>0, NearGrows
  <2> PICK f : f = [x \in T |-> LikeFrom(m, t, p, x[1], x[2])]
    OBVIOUS
  <2>3. \A x \in S : f[x] = m[x]
    BY <2>1, <2>2 DEF Likes
  <2>4. ASSUME NEW x \in T PROVE LikeFrom(m, t, p, x[1], x[2]) = LikeFrom(f, t, p, x[1], x[2])
    <3> PICK i, j : i = x[1] /\ j = x[2]
      OBVIOUS
    <3>1. i \in 1..(L + 1) /\ j \in 1..(P + 1) /\ \A y \in Later(i, j, L, P) : y \in S
      BY <2>0, NearIs
    <3>2. Agree(m, f, i, j, L, P)
      BY <2>3, <3>1 DEF Agree
    <3>3. LikeFrom(m, t, p, i, j) = LikeFrom(f, t, p, i, j)
      BY <3>1, <3>2, LikeSame
    <3> QED BY <3>3
  <2>5. f = [x \in T |-> LikeFrom(f, t, p, x[1], x[2])]
    BY <2>4
  <2>6. Likes(f, t, p, Near(k + 1, L, P))
    BY <2>5 DEF Likes
  <2> QED BY <2>0, <2>6
<1>3. N \in A
  <2> HIDE DEF A
  <2>1. 0..N \subseteq A
    BY <1>0, <1>1, <1>2, UpToAll
  <2> QED BY <1>0, <2>1
<1>4. Near(N, L, P) = (1..(L + 1)) \X (1..(P + 1))
  BY NearGrows
<1>5. PICK m : Likes(m, t, p, Near(N, L, P))
  BY <1>3
<1> QED BY <1>4, <1>5

LEMMA LikeIs ==
  ASSUME NEW t, NEW p, NEW L \in Nat, NEW P \in Nat, L = Len(t), P = Len(p)
  PROVE  \E m : /\ ILike(t, p) = m[<<1, 1>>]
                /\ \A i \in 1..(L + 1), j \in 1..(P + 1) : m[<<i, j>>] = LikeFrom(m, t, p, i, j)
<1> DEFINE F(m) == [x \in (1..(Len(t) + 1)) \X (1..(Len(p) + 1)) |-> LikeFrom(m, t, p, x[1], x[2])]
<1>1. PICK e : Likes(e, t, p, (1..(L + 1)) \X (1..(P + 1)))
  BY LikesExist
<1>2. e = F(e)
  BY <1>1 DEF Likes
<1>3. PICK m : m = F(m) /\ ILike(t, p) = m[<<1, 1>>]
  <2> PICK m : m = CHOOSE x : x = F(x)
    OBVIOUS
  <2>1. ILike(t, p) = m[<<1, 1>>]
    BY Zenon DEF ILike
  <2> HIDE DEF F
  <2>2. m = F(m)
    BY <1>2, Zenon
  <2> QED BY <2>1, <2>2
<1>4. ASSUME NEW i \in 1..(L + 1), NEW j \in 1..(P + 1) PROVE m[<<i, j>>] = LikeFrom(m, t, p, i, j)
  <2> PICK x : x = <<i, j>>
    OBVIOUS
  <2>1. x \in (1..(Len(t) + 1)) \X (1..(Len(p) + 1)) /\ x[1] = i /\ x[2] = j
    OBVIOUS
  <2>2. m[x] = LikeFrom(m, t, p, x[1], x[2])
    BY <1>3, <2>1
  <2> QED BY <2>1, <2>2
<1> QED BY <1>3, <1>4

\* From place x of the text to place y, by the character c of what is sought.
Hop(t, L, c, x, y) == IF c = "%" THEN x <= y ELSE x <= L /\ t[x] = c /\ y = x + 1

\* The places of the characters from the k-th of s on, the first at i.
Way(pos, t, L, s, n, k, i) ==
  /\ pos \in [k..(n + 1) -> 1..(L + 1)] /\ pos[k] = i /\ pos[n + 1] = L + 1
  /\ \A l \in k..n : Hop(t, L, s[l], pos[l], pos[l + 1])

HasWay(t, L, s, n, k, i) == \E pos : Way(pos, t, L, s, n, k, i)

LEMMA WayEnds ==
  ASSUME NEW t, NEW L \in Nat, NEW s, NEW n \in Nat, NEW i \in 1..(L + 1)
  PROVE  HasWay(t, L, s, n, n + 1, i) <=> i = L + 1
<1>1. ASSUME i = L + 1 PROVE HasWay(t, L, s, n, n + 1, i)
  <2> PICK pos : pos = [l \in (n + 1)..(n + 1) |-> i]
    OBVIOUS
  <2>1. Way(pos, t, L, s, n, n + 1, i)
    BY <1>1 DEF Way
  <2> QED BY <2>1 DEF HasWay
<1> QED BY <1>1 DEF HasWay, Way

LEMMA WayGoesOn ==
  ASSUME NEW t, NEW L \in Nat, NEW s, NEW n \in Nat, NEW k \in 1..n, NEW i \in 1..(L + 1)
  PROVE  HasWay(t, L, s, n, k, i) <=> \E y \in 1..(L + 1) : Hop(t, L, s[k], i, y) /\ HasWay(t, L, s, n, k + 1, y)
<1>1. ASSUME NEW pos, Way(pos, t, L, s, n, k, i)
      PROVE  \E y \in 1..(L + 1) : Hop(t, L, s[k], i, y) /\ HasWay(t, L, s, n, k + 1, y)
  <2> PICK q : q = [l \in (k + 1)..(n + 1) |-> pos[l]]
    OBVIOUS
  <2>1. pos \in [k..(n + 1) -> 1..(L + 1)] /\ pos[k] = i /\ pos[n + 1] = L + 1
    BY <1>1 DEF Way
  <2>2. \A l \in k..n : Hop(t, L, s[l], pos[l], pos[l + 1])
    BY <1>1 DEF Way
  <2>3. \A l \in (k + 1)..(n + 1) : q[l] = pos[l] /\ l \in k..(n + 1)
    OBVIOUS
  <2>4. q \in [(k + 1)..(n + 1) -> 1..(L + 1)]
    BY <2>1, <2>3
  <2>5. k + 1 \in (k + 1)..(n + 1) /\ n + 1 \in (k + 1)..(n + 1) /\ k \in k..n
    OBVIOUS
  <2>6. ASSUME NEW l \in (k + 1)..n PROVE Hop(t, L, s[l], q[l], q[l + 1])
    <3>1. l \in k..n /\ l \in (k + 1)..(n + 1) /\ l + 1 \in (k + 1)..(n + 1)
      OBVIOUS
    <3> QED BY <2>2, <2>3, <3>1
  <2>7. Way(q, t, L, s, n, k + 1, pos[k + 1])
    BY <2>1, <2>3, <2>4, <2>5, <2>6 DEF Way
  <2>8. pos[k + 1] \in 1..(L + 1) /\ Hop(t, L, s[k], i, pos[k + 1])
    BY <2>1, <2>2, <2>3, <2>5
  <2> QED BY <2>7, <2>8 DEF HasWay
<1>2. ASSUME NEW y \in 1..(L + 1), Hop(t, L, s[k], i, y), NEW q, Way(q, t, L, s, n, k + 1, y)
      PROVE  HasWay(t, L, s, n, k, i)
  <2> PICK pos : pos = [l \in k..(n + 1) |-> IF l = k THEN i ELSE q[l]]
    OBVIOUS
  <2>1. q \in [(k + 1)..(n + 1) -> 1..(L + 1)] /\ q[k + 1] = y /\ q[n + 1] = L + 1
    BY <1>2 DEF Way
  <2>2. \A l \in (k + 1)..n : Hop(t, L, s[l], q[l], q[l + 1])
    BY <1>2 DEF Way
  <2>3. pos[k] = i /\ \A l \in (k + 1)..(n + 1) : pos[l] = q[l]
    OBVIOUS
  <2>4. pos \in [k..(n + 1) -> 1..(L + 1)]
    BY <2>1
  <2>5. k + 1 \in (k + 1)..(n + 1) /\ n + 1 \in (k + 1)..(n + 1)
    OBVIOUS
  <2>6. ASSUME NEW l \in k..n PROVE Hop(t, L, s[l], pos[l], pos[l + 1])
    <3>1. CASE l = k
      BY <1>2, <2>1, <2>3, <2>5, <3>1
    <3>2. CASE l # k
      <4>1. l \in (k + 1)..n /\ l \in (k + 1)..(n + 1) /\ l + 1 \in (k + 1)..(n + 1)
        BY <3>2
      <4> QED BY <2>2, <2>3, <4>1
    <3> QED BY <3>1, <3>2
  <2>7. Way(pos, t, L, s, n, k, i)
    BY <2>1, <2>3, <2>4, <2>5, <2>6 DEF Way
  <2> QED BY <2>7 DEF HasWay
<1> QED BY <1>1, <1>2 DEF HasWay

\* What the pattern's matching is, in terms of what is sought.
Sees(M, t, L, s, n) ==
  \A i \in 1..(L + 1) :
    /\ M[<<i, n + 1>>] <=> i = L + 1
    /\ \A k \in 1..n : M[<<i, k>>] <=>
         IF s[k] = "%" THEN M[<<i, k + 1>>] \/ (i <= L /\ M[<<i + 1, k>>])
         ELSE i <= L /\ t[i] = s[k] /\ M[<<i + 1, k + 1>>]

LEMMA PatternSees ==
  ASSUME NEW t, NEW L \in Nat, L = Len(t), NEW p, Len(p) \in Nat, NEW s, NEW n \in Nat, NEW J, EscapedTo(p, s, J, n)
  PROVE  \E M : Sees(M, t, L, s, n) /\ (ILike(t, p) <=> M[<<1, 1>>])
<1> PICK P : P = Len(p)
  OBVIOUS
<1>0. P \in Nat /\ J \in [1..(n + 1) -> 1..(P + 1)] /\ J[1] = 1 /\ J[n + 1] = P + 1
  BY DEF EscapedTo
<1>1. ASSUME NEW k \in 1..n
      PROVE  /\ J[k] \in 1..(P + 1) /\ J[k + 1] \in 1..(P + 1)
             /\ IF Special(s[k]) THEN J[k + 1] = J[k] + 2 /\ p[J[k]] = "\\" /\ p[J[k] + 1] = s[k]
                ELSE J[k + 1] = J[k] + 1 /\ p[J[k]] = s[k]
  <2>1. k \in 1..(n + 1) /\ k + 1 \in 1..(n + 1)
    OBVIOUS
  <2> QED BY <1>0, <2>1 DEF EscapedTo
<1>2. PICK m : /\ ILike(t, p) = m[<<1, 1>>]
               /\ \A i \in 1..(L + 1), j \in 1..(P + 1) : m[<<i, j>>] = LikeFrom(m, t, p, i, j)
  BY <1>0, LikeIs, SMTT(60)
<1> PICK M : M = [x \in (1..(L + 1)) \X (1..(n + 1)) |-> m[<<x[1], J[x[2]]>>]]
  OBVIOUS
<1>3. ASSUME NEW i \in 1..(L + 1), NEW k \in 1..(n + 1) PROVE M[<<i, k>>] = m[<<i, J[k]>>]
  OBVIOUS
<1>4. ASSUME NEW i \in 1..(L + 1) PROVE M[<<i, n + 1>>] <=> i = L + 1
  <2>1. n + 1 \in 1..(n + 1) /\ P + 1 \in 1..(P + 1) /\ P + 1 > P
    BY <1>0
  <2>2. M[<<i, n + 1>>] = LikeFrom(m, t, p, i, P + 1)
    BY <1>0, <1>2, <1>3, <2>1
  <2>3. LikeFrom(m, t, p, i, P + 1) <=> i > L
    BY <2>1 DEF LikeFrom
  <2>4. i > L <=> i = L + 1
    OBVIOUS
  <2> QED BY <2>2, <2>3, <2>4
<1>5. ASSUME NEW i \in 1..(L + 1), NEW k \in 1..n
      PROVE  M[<<i, k>>] <=>
               IF s[k] = "%" THEN M[<<i, k + 1>>] \/ (i <= L /\ M[<<i + 1, k>>])
               ELSE i <= L /\ t[i] = s[k] /\ M[<<i + 1, k + 1>>]
  <2> PICK j : j = J[k]
    OBVIOUS
  <2>1. k \in 1..(n + 1) /\ k + 1 \in 1..(n + 1) /\ j \in 1..(P + 1) /\ (i <= L => i + 1 \in 1..(L + 1))
    BY <1>1
  <2>2. M[<<i, k>>] = LikeFrom(m, t, p, i, j)
    BY <1>2, <1>3, <2>1
  <2>3. M[<<i, k + 1>>] = m[<<i, J[k + 1]>>]
    BY <1>3, <2>1
  <2>4. i <= L => M[<<i + 1, k>>] = m[<<i + 1, j>>] /\ M[<<i + 1, k + 1>>] = m[<<i + 1, J[k + 1]>>]
    BY <1>3, <2>1
  <2>5. CASE Special(s[k])
    <3>0. J[k + 1] = j + 2 /\ p[j] = "\\" /\ p[j + 1] = s[k] /\ J[k + 1] \in 1..(P + 1)
      BY <1>1, <2>5
    <3>1. J[k + 1] = j + 2 /\ p[j] = "\\" /\ p[j + 1] = s[k] /\ j < P /\ ~(j > P)
      BY <1>0, <2>1, <3>0, SMTT(60)
    <3>2. s[k] # "%" /\ p[j] # "%"
      BY <2>5, <3>1 DEF Special
    <3>3. LikeFrom(m, t, p, i, j) <=> i <= L /\ t[i] = p[j + 1] /\ m[<<i + 1, j + 2>>]
      BY <3>1, <3>2 DEF LikeFrom
    <3> QED BY <2>2, <2>4, <3>1, <3>2, <3>3
  <2>6. CASE ~Special(s[k]) /\ s[k] = "%"
    <3>0. J[k + 1] = j + 1 /\ p[j] = "%" /\ J[k + 1] \in 1..(P + 1)
      BY <1>1, <2>6
    <3>1. J[k + 1] = j + 1 /\ p[j] = "%" /\ ~(j > P)
      BY <1>0, <2>1, <3>0
    <3>2. LikeFrom(m, t, p, i, j) <=> m[<<i, j + 1>>] \/ (i <= L /\ m[<<i + 1, j>>])
      BY <3>1 DEF LikeFrom
    <3> QED BY <2>2, <2>3, <2>4, <2>6, <3>1, <3>2
  <2>7. CASE ~Special(s[k]) /\ s[k] # "%"
    <3>0. J[k + 1] = j + 1 /\ p[j] = s[k] /\ J[k + 1] \in 1..(P + 1)
      BY <1>1, <2>7
    <3>1. J[k + 1] = j + 1 /\ p[j] = s[k] /\ ~(j > P)
      BY <1>0, <2>1, <3>0
    <3>2. p[j] # "%" /\ p[j] # "\\" /\ p[j] # "_"
      BY <2>7, <3>1 DEF Special
    <3>3. LikeFrom(m, t, p, i, j) <=> i <= L /\ t[i] = p[j] /\ m[<<i + 1, j + 1>>]
      BY <3>1, <3>2 DEF LikeFrom
    <3> QED BY <2>2, <2>4, <2>7, <3>1, <3>3
  <2> QED BY <2>5, <2>6, <2>7
<1>6. Sees(M, t, L, s, n)
  BY <1>4, <1>5 DEF Sees
<1>7. ILike(t, p) <=> M[<<1, 1>>]
  <2>1. 1 \in 1..(L + 1) /\ 1 \in 1..(n + 1)
    OBVIOUS
  <2>2. M[<<1, 1>>] = m[<<1, 1>>]
    BY <1>0, <1>3, <2>1
  <2> QED BY <1>2, <2>2
<1> QED BY <1>6, <1>7

LEMMA CharSees ==
  ASSUME NEW M, NEW t, NEW L \in Nat, NEW s, NEW n \in Nat, Sees(M, t, L, s, n),
         NEW i \in 1..(L + 1), NEW k \in 1..n, s[k] # "%"
  PROVE  M[<<i, k>>] <=> i <= L /\ t[i] = s[k] /\ M[<<i + 1, k + 1>>]
BY DEF Sees

\* A gap is left at any later place.
LeavesLater(M, L, k) == \A i \in 1..(L + 1) : M[<<i, k>>] <=> \E y \in i..(L + 1) : M[<<y, k + 1>>]

LEMMA GapSees ==
  ASSUME NEW M, NEW t, NEW L \in Nat, NEW s, NEW n \in Nat, Sees(M, t, L, s, n), NEW k \in 1..n, s[k] = "%"
  PROVE  LeavesLater(M, L, k)
<1> DEFINE A == {q \in 0..L : M[<<L + 1 - q, k>>] <=> \E y \in (L + 1 - q)..(L + 1) : M[<<y, k + 1>>]}
<1>0. ASSUME NEW i \in 1..(L + 1) PROVE M[<<i, k>>] <=> M[<<i, k + 1>>] \/ (i <= L /\ M[<<i + 1, k>>])
  BY DEF Sees
<1>1. 0 \in A
  <2> PICK i : i = L + 1
    OBVIOUS
  <2>1. i \in 1..(L + 1) /\ ~(i <= L) /\ L + 1 - 0 = i
    OBVIOUS
  <2>2. M[<<i, k>>] <=> M[<<i, k + 1>>]
    BY <1>0, <2>1
  <2>3. \A y \in i..(L + 1) : y = i
    BY <2>1
  <2>4. i \in i..(L + 1)
    BY <2>1
  <2>5. M[<<i, k>>] <=> \E y \in i..(L + 1) : M[<<y, k + 1>>]
    BY <2>2, <2>3, <2>4
  <2>6. M[<<L + 1 - 0, k>>] <=> \E y \in (L + 1 - 0)..(L + 1) : M[<<y, k + 1>>]
    BY <2>1, <2>5
  <2>7. 0 \in 0..L
    OBVIOUS
  <2> QED BY <2>6, <2>7
<1>2. ASSUME NEW q \in 0..(L - 1), q \in A PROVE q + 1 \in A
  <2> PICK i : i = L + 1 - (q + 1)
    OBVIOUS
  <2>1. i \in 1..(L + 1) /\ i <= L /\ L + 1 - q = i + 1 /\ q + 1 \in 0..L /\ i \in Nat
    OBVIOUS
  <2>2. M[<<i + 1, k>>] <=> \E y \in (i + 1)..(L + 1) : M[<<y, k + 1>>]
    BY <1>2, <2>1
  <2>3. M[<<i, k>>] <=> M[<<i, k + 1>>] \/ M[<<i + 1, k>>]
    BY <1>0, <2>1
  <2>4. i..(L + 1) = (i + 1)..(L + 1) \cup {i}
    BY <2>1
  <2>5. M[<<i, k>>] <=> \E y \in i..(L + 1) : M[<<y, k + 1>>]
    BY <2>2, <2>3, <2>4, Zenon
  <2> QED BY <2>1, <2>5
<1>3. 0..L \subseteq A
  <2> HIDE DEF A
  <2> QED BY <1>1, <1>2, UpToAll
<1>4. ASSUME NEW i \in 1..(L + 1) PROVE M[<<i, k>>] <=> \E y \in i..(L + 1) : M[<<y, k + 1>>]
  <2> PICK q : q = L + 1 - i
    OBVIOUS
  <2>1. q \in 0..L /\ L + 1 - q = i
    OBVIOUS
  <2>2. M[<<L + 1 - q, k>>] <=> \E y \in (L + 1 - q)..(L + 1) : M[<<y, k + 1>>]
    BY <1>3, <2>1
  <2> QED BY <2>1, <2>2
<1> QED BY <1>4 DEF LeavesLater

LEMMA SeesWays ==
  ASSUME NEW M, NEW t, NEW L \in Nat, NEW s, NEW n \in Nat, Sees(M, t, L, s, n)
  PROVE  M[<<1, 1>>] <=> HasWay(t, L, s, n, 1, 1)
<1> DEFINE A == {q \in 0..n : \A i \in 1..(L + 1) : M[<<i, n + 1 - q>>] <=> HasWay(t, L, s, n, n + 1 - q, i)}
<1>1. 0 \in A
  <2>1. ASSUME NEW i \in 1..(L + 1) PROVE M[<<i, n + 1>>] <=> HasWay(t, L, s, n, n + 1, i)
    <3>1. M[<<i, n + 1>>] <=> i = L + 1
      BY DEF Sees
    <3> QED BY <3>1, WayEnds
  <2>2. n + 1 - 0 = n + 1
    OBVIOUS
  <2> QED BY <2>1, <2>2
<1>2. ASSUME NEW q \in 0..(n - 1), q \in A PROVE q + 1 \in A
  <2> PICK k : k = n + 1 - (q + 1)
    OBVIOUS
  <2>1. k \in 1..n /\ n + 1 - q = k + 1 /\ q + 1 \in 0..n
    OBVIOUS
  <2>2. \A i \in 1..(L + 1) : M[<<i, k + 1>>] <=> HasWay(t, L, s, n, k + 1, i)
    BY <1>2, <2>1
  <2>3. ASSUME NEW i \in 1..(L + 1) PROVE M[<<i, k>>] <=> HasWay(t, L, s, n, k, i)
    <3>1. HasWay(t, L, s, n, k, i) <=> \E y \in 1..(L + 1) : Hop(t, L, s[k], i, y) /\ M[<<y, k + 1>>]
      <4>1. HasWay(t, L, s, n, k, i) <=> \E y \in 1..(L + 1) : Hop(t, L, s[k], i, y) /\ HasWay(t, L, s, n, k + 1, y)
        BY <2>1, WayGoesOn
      <4> QED BY <2>2, <4>1, Zenon
    <3>2. CASE s[k] = "%"
      <4>1. M[<<i, k>>] <=> \E y \in i..(L + 1) : M[<<y, k + 1>>]
        <5>1. LeavesLater(M, L, k)
          BY <2>1, <3>2, GapSees
        <5> QED BY <5>1 DEF LeavesLater
      <4>2. \A y : y \in i..(L + 1) <=> y \in 1..(L + 1) /\ Hop(t, L, s[k], i, y)
        BY <3>2 DEF Hop
      <4> QED BY <3>1, <4>1, <4>2
    <3>3. CASE s[k] # "%"
      <4>1. M[<<i, k>>] <=> i <= L /\ t[i] = s[k] /\ M[<<i + 1, k + 1>>]
        BY <2>1, <3>3, CharSees, SMTT(30)
      <4>2. \A y \in 1..(L + 1) : Hop(t, L, s[k], i, y) <=> i <= L /\ t[i] = s[k] /\ y = i + 1
        BY <3>3 DEF Hop
      <4>3. i <= L => i + 1 \in 1..(L + 1)
        OBVIOUS
      <4> QED BY <3>1, <4>1, <4>2, <4>3
    <3> QED BY <3>2, <3>3
  <2> QED BY <2>1, <2>3
<1>3. n \in A
  <2> HIDE DEF A
  <2>1. 0..n \subseteq A
    BY <1>1, <1>2, UpToAll
  <2> QED BY <2>1
<1>4. n + 1 - n = 1 /\ 1 \in 1..(L + 1)
  OBVIOUS
<1> QED BY <1>3, <1>4

\* Places of the typed characters of s in the text.
Typed(s, n) == {i \in 1..n : s[i] # "%"}

Placed(at, t, L, s, n) ==
  /\ at \in [Typed(s, n) -> 1..L]
  /\ \A i \in Typed(s, n) : t[at[i]] = s[i]
  /\ \A i, j \in Typed(s, n) : i < j => at[i] < at[j]
  /\ \A i \in Typed(s, n) : i + 1 \in Typed(s, n) => at[i + 1] = at[i] + 1

FromEndToEnd(at, L, s, n) ==
  \A i \in Typed(s, n) : (i = 1 => at[i] = 1) /\ (i = n => at[i] = L)

LEMMA WayGrows ==
  ASSUME NEW t, NEW L \in Nat, NEW s, NEW n \in Nat, NEW pos, Way(pos, t, L, s, n, 1, 1)
  PROVE  \A i, j \in 1..(n + 1) : i <= j => pos[i] <= pos[j]
<1>0. pos \in [1..(n + 1) -> 1..(L + 1)] /\ \A l \in 1..n : Hop(t, L, s[l], pos[l], pos[l + 1])
  BY DEF Way
<1>1. ASSUME NEW l \in 1..n PROVE pos[l] <= pos[l + 1] /\ pos[l] \in Nat /\ pos[l + 1] \in Nat
  <2>1. l \in 1..(n + 1) /\ l + 1 \in 1..(n + 1)
    OBVIOUS
  <2>2. pos[l] \in 1..(L + 1) /\ pos[l + 1] \in 1..(L + 1)
    BY <1>0, <2>1
  <2>3. Hop(t, L, s[l], pos[l], pos[l + 1])
    BY <1>0
  <2> QED BY <2>2, <2>3 DEF Hop
<1>2. ASSUME NEW i \in 1..(n + 1) PROVE \A j \in 1..(n + 1) : i <= j => pos[i] <= pos[j]
  <2> PICK d : d = n + 1 - i
    OBVIOUS
  <2>0. d \in Nat
    OBVIOUS
  <2> DEFINE A == {q \in 0..d : pos[i] <= pos[i + q]}
  <2>1. 0 \in A
    <3>1. i + 0 = i /\ pos[i] \in Nat
      BY <1>0
    <3> QED BY <2>0, <3>1
  <2>2. ASSUME NEW q \in 0..(d - 1), q \in A PROVE q + 1 \in A
    <3> PICK l : l = i + q
      OBVIOUS
    <3>1. l \in 1..n /\ i + (q + 1) = l + 1 /\ q + 1 \in 0..d
      BY <2>0
    <3>2. pos[i] <= pos[l] /\ pos[i] \in Nat
      BY <1>0, <2>2
    <3>3. pos[l] <= pos[l + 1] /\ pos[l] \in Nat /\ pos[l + 1] \in Nat
      BY <1>1, <3>1
    <3>4. pos[i] <= pos[l + 1]
      BY <3>2, <3>3
    <3> QED BY <3>1, <3>4
  <2>3. 0..d \subseteq A
    <3> HIDE DEF A
    <3> QED BY <2>0, <2>1, <2>2, UpToAll
  <2>4. ASSUME NEW j \in 1..(n + 1), i <= j PROVE pos[i] <= pos[j]
    <3>1. j - i \in 0..d /\ i + (j - i) = j
      BY <2>4
    <3>2. pos[i] <= pos[i + (j - i)]
      BY <2>3, <3>1
    <3> QED BY <3>1, <3>2
  <2> QED BY <2>4
<1> QED BY <1>2

LEMMA WayPlaces ==
  ASSUME NEW t, NEW L \in Nat, NEW s, NEW n \in Nat, NEW pos, Way(pos, t, L, s, n, 1, 1)
  PROVE  \E at : Placed(at, t, L, s, n) /\ FromEndToEnd(at, L, s, n)
<1> PICK at : at = [i \in Typed(s, n) |-> pos[i]]
  OBVIOUS
<1>0. pos \in [1..(n + 1) -> 1..(L + 1)] /\ pos[1] = 1 /\ pos[n + 1] = L + 1
  BY DEF Way
<1>1. ASSUME NEW i \in Typed(s, n)
      PROVE  /\ i \in 1..n /\ at[i] = pos[i] /\ at[i] \in 1..L /\ t[at[i]] = s[i] /\ pos[i + 1] = pos[i] + 1
             /\ pos[i + 1] \in Nat
  <2>1. i \in 1..n /\ s[i] # "%" /\ i \in 1..(n + 1) /\ i + 1 \in 1..(n + 1)
    BY DEF Typed
  <2>2. Hop(t, L, s[i], pos[i], pos[i + 1])
    BY <2>1 DEF Way
  <2>3. pos[i] <= L /\ t[pos[i]] = s[i] /\ pos[i + 1] = pos[i] + 1
    BY <2>1, <2>2 DEF Hop
  <2>4. pos[i] \in 1..(L + 1) /\ pos[i + 1] \in 1..(L + 1)
    BY <1>0, <2>1
  <2> QED BY <2>1, <2>3, <2>4
<1>2. at \in [Typed(s, n) -> 1..L]
  BY <1>1
<1>3. ASSUME NEW i \in Typed(s, n), NEW j \in Typed(s, n), i < j PROVE at[i] < at[j]
  <2>1. i + 1 \in 1..(n + 1) /\ j \in 1..(n + 1) /\ i + 1 <= j
    BY <1>1, <1>3
  <2>2. pos[i + 1] <= pos[j]
    BY <2>1, WayGrows
  <2>3. at[i] = pos[i] /\ at[j] = pos[j] /\ pos[i + 1] = pos[i] + 1 /\ at[i] \in 1..L /\ at[j] \in 1..L
    BY <1>1
  <2> QED BY <2>2, <2>3
<1>4. ASSUME NEW i \in Typed(s, n), i + 1 \in Typed(s, n) PROVE at[i + 1] = at[i] + 1
  BY <1>1, <1>4
<1>5. Placed(at, t, L, s, n)
  BY <1>1, <1>2, <1>3, <1>4 DEF Placed
<1>6. ASSUME NEW i \in Typed(s, n) PROVE (i = 1 => at[i] = 1) /\ (i = n => at[i] = L)
  <2>1. at[i] = pos[i] /\ at[i] \in 1..L /\ pos[i + 1] = pos[i] + 1
    BY <1>1
  <2>2. ASSUME i = n PROVE at[i] = L
    <3>1. pos[i] + 1 = L + 1
      BY <1>0, <2>1, <2>2
    <3> QED BY <2>1, <3>1
  <2> QED BY <1>0, <2>1, <2>2
<1> QED BY <1>5, <1>6 DEF FromEndToEnd

\* Places behind every typed character before the l-th.
Free(at, L, s, n, l) == {q \in 1..(L + 1) : \A x \in Typed(s, n) : x < l => at[x] < q}

FirstFree(at, L, s, n, l) == CHOOSE m \in Free(at, L, s, n, l) : \A q \in Free(at, L, s, n, l) : m <= q

LEMMA FreeIs ==
  ASSUME NEW t, NEW L \in Nat, NEW s, NEW n \in Nat, NEW at, Placed(at, t, L, s, n), NEW l \in Nat
  PROVE  /\ FirstFree(at, L, s, n, l) \in Free(at, L, s, n, l)
         /\ \A q \in Free(at, L, s, n, l) : FirstFree(at, L, s, n, l) <= q
         /\ L + 1 \in Free(at, L, s, n, l)
<1> PICK F : F = Free(at, L, s, n, l)
  OBVIOUS
<1>1. \A x \in Typed(s, n) : at[x] \in 1..L
  BY DEF Placed
<1>2. L + 1 \in F
  <2>1. \A x \in Typed(s, n) : at[x] < L + 1
    BY <1>1
  <2> QED BY <2>1 DEF Free
<1>3. F \in SUBSET Nat /\ F # {}
  <2>1. \A q \in F : q \in 1..(L + 1)
    BY DEF Free
  <2> QED BY <1>2, <2>1
<1>4. \E m \in F : \A q \in F : m <= q
  BY <1>3, LeastOf
<1> QED BY <1>2, <1>4, Zenon DEF FirstFree

LEMMA PlacesWay ==
  ASSUME NEW t, NEW L \in Nat, NEW s, NEW n \in Nat \ {0}, NEW at, Placed(at, t, L, s, n), FromEndToEnd(at, L, s, n)
  PROVE  HasWay(t, L, s, n, 1, 1)
<1> PICK T : T = Typed(s, n)
  OBVIOUS
<1> DEFINE First(l) == FirstFree(at, L, s, n, l)
<1> DEFINE Fr(l) == Free(at, L, s, n, l)
<1>0. T \subseteq 1..n /\ n + 1 \notin T /\ \A l \in 1..n : l \in T <=> s[l] # "%"
  BY DEF Typed
<1>1. /\ \A i \in T : at[i] \in 1..L /\ t[at[i]] = s[i]
      /\ \A i, j \in T : i < j => at[i] < at[j]
      /\ \A i \in T : i + 1 \in T => at[i + 1] = at[i] + 1
      /\ \A i \in T : (i = 1 => at[i] = 1) /\ (i = n => at[i] = L)
  BY DEF Placed, FromEndToEnd
<1>2. \A l, q : q \in Fr(l) <=> q \in 1..(L + 1) /\ \A x \in T : x < l => at[x] < q
  BY DEF Free
<1>3. \A l \in Nat : First(l) \in Fr(l) /\ L + 1 \in Fr(l) /\ \A q \in Fr(l) : First(l) <= q
  BY FreeIs
<1> HIDE DEF First, Fr
<1> PICK pos : pos = [l \in 1..(n + 1) |-> IF l \in T THEN at[l] ELSE IF l = n + 1 THEN L + 1 ELSE First(l)]
  OBVIOUS
<1>4. ASSUME NEW l \in 1..(n + 1)
      PROVE  /\ l \in T => pos[l] = at[l]
             /\ l = n + 1 => pos[l] = L + 1
             /\ l \notin T /\ l # n + 1 => pos[l] = First(l) /\ First(l) \in 1..(L + 1)
  <2>1. l \in Nat /\ (l = n + 1 => l \notin T)
    BY <1>0
  <2>2. First(l) \in 1..(L + 1)
    BY <1>2, <1>3, <2>1
  <2> QED BY <2>1, <2>2
<1>5. pos \in [1..(n + 1) -> 1..(L + 1)]
  <2>1. ASSUME NEW l \in 1..(n + 1) PROVE pos[l] \in 1..(L + 1)
    <3>1. CASE l \in T
      <4>1. at[l] \in 1..L /\ pos[l] = at[l]
        BY <1>1, <1>4, <3>1
      <4> QED BY <4>1
    <3>2. CASE l = n + 1
      <4>1. pos[l] = L + 1
        BY <1>4, <3>2
      <4> QED BY <4>1
    <3>3. CASE l \notin T /\ l # n + 1
      BY <1>4, <3>3
    <3> QED BY <3>1, <3>2, <3>3
  <2> QED BY <2>1
<1>6. pos[n + 1] = L + 1
  <2>1. n + 1 \in 1..(n + 1)
    OBVIOUS
  <2> QED BY <1>4, <2>1
<1>7. pos[1] = 1
  <2>0. 1 \in 1..(n + 1) /\ 1 # n + 1
    OBVIOUS
  <2>1. CASE 1 \in T
    BY <1>1, <1>4, <2>0, <2>1
  <2>2. CASE 1 \notin T
    <3>1. 1 \in Fr(1)
      <4>1. \A x \in T : ~(x < 1)
        BY <1>0
      <4> QED BY <1>2, <4>1
    <3>2. First(1) <= 1 /\ First(1) \in 1..(L + 1) /\ pos[1] = First(1)
      BY <1>3, <1>4, <2>0, <2>2, <3>1
    <3> QED BY <3>2
  <2> QED BY <2>1, <2>2
<1>8. ASSUME NEW l \in 1..n PROVE Hop(t, L, s[l], pos[l], pos[l + 1])
  <2>0. l \in 1..(n + 1) /\ l + 1 \in 1..(n + 1) /\ l \in Nat /\ l + 1 \in Nat /\ l # n + 1
    OBVIOUS
  <2>1. CASE l \in T
    <3>1. pos[l] = at[l] /\ at[l] \in 1..L /\ t[at[l]] = s[l] /\ s[l] # "%"
      BY <1>0, <1>1, <1>4, <2>0, <2>1
    <3>2. pos[l + 1] = at[l] + 1
      <4>1. CASE l + 1 \in T
        BY <1>1, <1>4, <2>0, <2>1, <4>1
      <4>2. CASE l + 1 = n + 1
        <5>1. l = n
          BY <4>2
        <5>2. at[l] = L
          BY <1>1, <2>1, <5>1
        <5> QED BY <1>6, <4>2, <5>2
      <4>3. CASE l + 1 \notin T /\ l + 1 # n + 1
        <5> PICK f : f = First(l + 1)
          OBVIOUS
        <5>1. pos[l + 1] = f /\ f \in 1..(L + 1) /\ f \in Fr(l + 1)
          BY <1>3, <1>4, <2>0, <4>3
        <5>2. at[l] < f
          BY <1>2, <2>0, <2>1, <5>1
        <5>3. at[l] + 1 \in Fr(l + 1)
          <6>1. ASSUME NEW x \in T, x < l + 1 PROVE at[x] < at[l] + 1
            <7>1. x = l \/ x < l
              BY <1>0, <6>1
            <7>2. at[x] \in 1..L /\ (x < l => at[x] < at[l])
              BY <1>1, <2>1
            <7> QED BY <3>1, <7>1, <7>2
          <6>2. at[l] + 1 \in 1..(L + 1)
            BY <3>1
          <6> QED BY <1>2, <6>1, <6>2
        <5>4. f <= at[l] + 1
          BY <1>3, <2>0, <5>3
        <5> QED BY <3>1, <5>1, <5>2, <5>4
      <4> QED BY <4>1, <4>2, <4>3
    <3>3. pos[l] <= L
      BY <3>1
    <3> QED BY <3>1, <3>2, <3>3 DEF Hop
  <2>2. CASE l \notin T
    <3> PICK f : f = First(l)
      OBVIOUS
    <3>1. pos[l] = f /\ f \in 1..(L + 1) /\ s[l] = "%" /\ \A q \in Fr(l) : f <= q
      BY <1>0, <1>3, <1>4, <2>0, <2>2
    <3>2. pos[l + 1] \in Fr(l)
      <4>1. CASE l + 1 \in T
        <5>1. pos[l + 1] = at[l + 1] /\ at[l + 1] \in 1..L
          BY <1>1, <1>4, <2>0, <4>1
        <5>2. ASSUME NEW x \in T, x < l PROVE at[x] < at[l + 1]
          <6>1. x < l + 1
            BY <1>0, <5>2
          <6> QED BY <1>1, <4>1, <6>1
        <5>3. at[l + 1] \in 1..(L + 1)
          BY <5>1
        <5> QED BY <1>2, <5>1, <5>2, <5>3
      <4>2. CASE l + 1 = n + 1
        BY <1>3, <1>6, <2>0, <4>2
      <4>3. CASE l + 1 \notin T /\ l + 1 # n + 1
        <5> PICK g : g = First(l + 1)
          OBVIOUS
        <5>1. pos[l + 1] = g /\ g \in 1..(L + 1) /\ g \in Fr(l + 1)
          BY <1>3, <1>4, <2>0, <4>3
        <5>2. ASSUME NEW x \in T, x < l PROVE at[x] < g
          <6>1. x < l + 1
            BY <1>0, <5>2
          <6> QED BY <1>2, <5>1, <6>1
        <5> QED BY <1>2, <5>1, <5>2
      <4> QED BY <4>1, <4>2, <4>3
    <3>3. pos[l] <= pos[l + 1]
      BY <3>1, <3>2
    <3> QED BY <3>1, <3>3 DEF Hop
  <2> QED BY <2>1, <2>2
<1>9. Way(pos, t, L, s, n, 1, 1)
  BY <1>5, <1>6, <1>7, <1>8 DEF Way
<1> QED BY <1>9 DEF HasWay

\* Looked for anywhere, or between two gaps.
LEMMA AroundPlaces ==
  ASSUME NEW V, "%" \in V, NEW t, NEW L \in Nat, NEW s \in Seq(V), NEW n \in Nat, n = Len(s), Typed(s, n) = 1..n
  PROVE  (\E at : Placed(at, t, L, s, n)) <=>
           \E at : Placed(at, t, L, Around(s), n + 2) /\ FromEndToEnd(at, L, Around(s), n + 2)
<1> PICK u : u = Around(s)
  OBVIOUS
<1>0. "%" \in V
  OBVIOUS
<1>1. u[1] = "%" /\ u[n + 2] = "%" /\ \A i \in 1..n : u[i + 1] = s[i]
  BY <1>0, AroundIs
<1>2. \A i \in 1..n : s[i] # "%"
  BY DEF Typed
<1>3. Typed(u, n + 2) = 2..(n + 1)
  <2>1. ASSUME NEW i \in 1..(n + 2) PROVE u[i] # "%" <=> i \in 2..(n + 1)
    <3>1. CASE i = 1 \/ i = n + 2
      BY <1>1, <3>1
    <3>2. CASE i # 1 /\ i # n + 2
      <4>1. i - 1 \in 1..n /\ (i - 1) + 1 = i /\ i \in 2..(n + 1)
        BY <3>2
      <4>2. u[(i - 1) + 1] = s[i - 1] /\ s[i - 1] # "%"
        BY <1>1, <1>2, <4>1
      <4> QED BY <4>1, <4>2
    <3> QED BY <3>1, <3>2
  <2> QED BY <2>1 DEF Typed
<1>4. ASSUME NEW at, Placed(at, t, L, s, n)
      PROVE  \E to : Placed(to, t, L, u, n + 2) /\ FromEndToEnd(to, L, u, n + 2)
  <2>1. /\ at \in [1..n -> 1..L] /\ \A i \in 1..n : t[at[i]] = s[i]
        /\ \A i, j \in 1..n : i < j => at[i] < at[j]
        /\ \A i \in 1..n : i + 1 \in 1..n => at[i + 1] = at[i] + 1
    BY <1>4 DEF Placed
  <2> PICK to : to = [i \in 2..(n + 1) |-> at[i - 1]]
    OBVIOUS
  <2>2. ASSUME NEW i \in 2..(n + 1)
        PROVE  i - 1 \in 1..n /\ to[i] = at[i - 1] /\ to[i] \in 1..L /\ t[to[i]] = u[i]
    <3>1. i - 1 \in 1..n /\ (i - 1) + 1 = i
      OBVIOUS
    <3>2. u[(i - 1) + 1] = s[i - 1] /\ t[at[i - 1]] = s[i - 1] /\ at[i - 1] \in 1..L
      BY <1>1, <2>1, <3>1
    <3> QED BY <3>1, <3>2
  <2>3. to \in [2..(n + 1) -> 1..L]
    BY <2>2
  <2>4. ASSUME NEW i \in 2..(n + 1), NEW j \in 2..(n + 1), i < j PROVE to[i] < to[j]
    <3>1. i - 1 < j - 1
      BY <2>4
    <3> QED BY <2>1, <2>2, <3>1
  <2>5. ASSUME NEW i \in 2..(n + 1), i + 1 \in 2..(n + 1) PROVE to[i + 1] = to[i] + 1
    <3>1. (i + 1) - 1 = i /\ (i - 1) + 1 = i /\ i \in 1..n
      BY <2>5
    <3>2. to[i + 1] = at[i] /\ to[i] = at[i - 1] /\ i - 1 \in 1..n
      BY <2>2, <2>5, <3>1
    <3>3. at[(i - 1) + 1] = at[i - 1] + 1
      BY <2>1, <3>1, <3>2
    <3> QED BY <3>1, <3>2, <3>3
  <2>6. Placed(to, t, L, u, n + 2)
    BY <1>3, <2>2, <2>3, <2>4, <2>5 DEF Placed
  <2>7. FromEndToEnd(to, L, u, n + 2)
    <3>1. \A i \in 2..(n + 1) : i # 1 /\ i # n + 2
      OBVIOUS
    <3> QED BY <1>3, <3>1 DEF FromEndToEnd
  <2> QED BY <2>6, <2>7
<1>5. ASSUME NEW to, Placed(to, t, L, u, n + 2) PROVE \E at : Placed(at, t, L, s, n)
  <2>1. /\ to \in [2..(n + 1) -> 1..L] /\ \A i \in 2..(n + 1) : t[to[i]] = u[i]
        /\ \A i, j \in 2..(n + 1) : i < j => to[i] < to[j]
        /\ \A i \in 2..(n + 1) : i + 1 \in 2..(n + 1) => to[i + 1] = to[i] + 1
    BY <1>3, <1>5 DEF Placed
  <2> PICK at : at = [i \in 1..n |-> to[i + 1]]
    OBVIOUS
  <2>2. ASSUME NEW i \in 1..n
        PROVE  i + 1 \in 2..(n + 1) /\ at[i] = to[i + 1] /\ at[i] \in 1..L /\ t[at[i]] = s[i]
    <3>1. i + 1 \in 2..(n + 1)
      OBVIOUS
    <3>2. u[i + 1] = s[i] /\ t[to[i + 1]] = u[i + 1] /\ to[i + 1] \in 1..L
      BY <1>1, <2>1, <3>1
    <3> QED BY <3>1, <3>2
  <2>3. at \in [1..n -> 1..L]
    BY <2>2
  <2>4. ASSUME NEW i \in 1..n, NEW j \in 1..n, i < j PROVE at[i] < at[j]
    <3>1. i + 1 < j + 1
      BY <2>4
    <3> QED BY <2>1, <2>2, <3>1
  <2>5. ASSUME NEW i \in 1..n, i + 1 \in 1..n PROVE at[i + 1] = at[i] + 1
    <3>1. at[i + 1] = to[(i + 1) + 1] /\ (i + 1) + 1 \in 2..(n + 1) /\ at[i] = to[i + 1] /\ i + 1 \in 2..(n + 1)
      BY <2>2, <2>5
    <3> QED BY <2>1, <3>1
  <2>6. Placed(at, t, L, s, n)
    BY <2>2, <2>3, <2>4, <2>5 DEF Placed
  <2> QED BY <2>6
<1> QED BY <1>4, <1>5

LEMMA MeansIs ==
  ASSUME NEW V, NEW t \in Seq(V), NEW s \in Seq(V), NEW L, L = Len(t), NEW n, n = Len(s)
  PROVE  Means(t, s) <=> \E at : Placed(at, t, L, s, n) /\ (Typed(s, n) = 1..n \/ FromEndToEnd(at, L, s, n))
<1> PICK T : T = {i \in DOMAIN s : s[i] # "%"}
  OBVIOUS
<1>1. DOMAIN s = 1..n /\ T = Typed(s, n)
  BY DEF Typed
<1>2. Means(t, s) <=>
        \E at \in [T -> 1..L] :
          /\ \A i \in T : t[at[i]] = s[i]
          /\ \A i, j \in T : i < j => at[i] < at[j]
          /\ \A i \in T : i + 1 \in T => at[i + 1] = at[i] + 1
          /\ T = DOMAIN s \/ \A i \in T : (i = 1 => at[i] = 1) /\ (i = n => at[i] = L)
  BY DEF Means
<1> QED BY <1>1, <1>2, Zenon DEF Placed, FromEndToEnd

\* A text is like the pattern exactly if it is what was typed.
LEMMA LikeMeans ==
  ASSUME NEW V, "\\" \in V, "%" \in V, NEW t \in Seq(V), NEW s \in Seq(V)
  PROVE  ILike(t, likePattern(s)) <=> Means(t, s)
<1> PICK L, n : L = Len(t) /\ n = Len(s)
  OBVIOUS
<1> PICK p, u : p = likePattern(s) /\ u = Sought(s)
  OBVIOUS
<1>0. L \in Nat /\ n \in Nat /\ "\\" \in V /\ "%" \in V
  OBVIOUS
<1>1. p \in Seq(V) /\ u \in Seq(V) /\ Len(p) \in Nat /\ Len(u) \in Nat
  BY <1>0, PatternIs
<1>2. PICK J : EscapedTo(p, u, J, Len(u))
  BY <1>0, PatternIs
<1>3. PICK M : Sees(M, t, L, u, Len(u)) /\ (ILike(t, p) <=> M[<<1, 1>>])
  BY <1>0, <1>1, <1>2, PatternSees
<1>4. ILike(t, p) <=> HasWay(t, L, u, Len(u), 1, 1)
  <2>1. M[<<1, 1>>] <=> HasWay(t, L, u, Len(u), 1, 1)
    BY <1>0, <1>1, <1>3, SeesWays
  <2> QED BY <1>3, <2>1
<1>5. ASSUME Len(u) # 0
      PROVE  ILike(t, p) <=> \E at : Placed(at, t, L, u, Len(u)) /\ FromEndToEnd(at, L, u, Len(u))
  <2>1. ASSUME HasWay(t, L, u, Len(u), 1, 1)
        PROVE  \E at : Placed(at, t, L, u, Len(u)) /\ FromEndToEnd(at, L, u, Len(u))
    <3>1. PICK pos : Way(pos, t, L, u, Len(u), 1, 1)
      BY <2>1 DEF HasWay
    <3> QED BY <1>0, <1>1, <3>1, WayPlaces
  <2>2. ASSUME NEW at, Placed(at, t, L, u, Len(u)), FromEndToEnd(at, L, u, Len(u))
        PROVE  HasWay(t, L, u, Len(u), 1, 1)
    BY <1>0, <1>1, <1>5, <2>2, PlacesWay
  <2> QED BY <1>4, <2>1, <2>2
<1>6. Means(t, s) <=> \E at : Placed(at, t, L, s, n) /\ (Typed(s, n) = 1..n \/ FromEndToEnd(at, L, s, n))
  BY MeansIs
<1>7. CASE Contains(s, "%")
  <2>1. u = s /\ Len(u) = n
    BY <1>7 DEF Sought
  <2>2. PICK k \in 1..n : s[k] = "%"
    BY <1>7 DEF Contains
  <2>3. n # 0 /\ Typed(s, n) # 1..n
    BY <2>2 DEF Typed
  <2>4. ILike(t, p) <=> \E at : Placed(at, t, L, s, n) /\ FromEndToEnd(at, L, s, n)
    BY <1>5, <2>1, <2>3
  <2> QED BY <1>6, <2>3, <2>4
<1>8. CASE ~Contains(s, "%")
  <2>1. u = Around(s) /\ Len(u) = n + 2
    BY <1>0, <1>8, AroundIs DEF Sought
  <2>2. Typed(s, n) = 1..n
    BY <1>8 DEF Contains, Typed
  <2>3. n + 2 # 0
    BY <1>0
  <2>4. ILike(t, p) <=> \E at : Placed(at, t, L, Around(s), n + 2) /\ FromEndToEnd(at, L, Around(s), n + 2)
    BY <1>5, <2>1, <2>3
  <2>5. (\E at : Placed(at, t, L, s, n)) <=>
          \E at : Placed(at, t, L, Around(s), n + 2) /\ FromEndToEnd(at, L, Around(s), n + 2)
    BY <1>0, <2>2, AroundPlaces
  <2> QED BY <1>6, <2>2, <2>4, <2>5
<1> QED BY <1>7, <1>8

-----------------------------------------------------------------------------
(* The ports a rule selects.                                               *)

LEMMA LowerTyped ==
  ASSUME NEW V, "a" \in V, NEW t \in Seq(V)
  PROVE  Lower(t) \in Seq(V)
<1> PICK n : n = Len(t)
  OBVIOUS
<1>1. n \in Nat /\ DOMAIN t = 1..n /\ \A i \in 1..n : t[i] \in V
  OBVIOUS
<1>2. Lower(t) \in [1..n -> V]
  BY <1>1 DEF Lower
<1> QED BY <1>1, <1>2

LEMMA TypedMeans ==
  ASSUME NEW t, IsText(t), NEW s, IsText(s)
  PROVE  ILike(Lower(t), likePattern(Lower(s))) <=> Means(Lower(t), Lower(s))
<1> PICK V : V = {t[i] : i \in DOMAIN t} \cup {s[i] : i \in DOMAIN s} \cup {"\\", "%", "a"}
  OBVIOUS
<1>1. t \in Seq({t[i] : i \in DOMAIN t}) /\ s \in Seq({s[i] : i \in DOMAIN s})
  BY DEF IsText
<1>2. "\\" \in V /\ "%" \in V /\ "a" \in V /\ {t[i] : i \in DOMAIN t} \subseteq V /\ {s[i] : i \in DOMAIN s} \subseteq V
  OBVIOUS
<1>3. t \in Seq(V) /\ s \in Seq(V)
  <2> PICK R : R = {t[i] : i \in DOMAIN t}
    OBVIOUS
  <2> PICK Q : Q = {s[i] : i \in DOMAIN s}
    OBVIOUS
  <2>1. t \in Seq(R) /\ s \in Seq(Q) /\ R \subseteq V /\ Q \subseteq V
    BY <1>1, <1>2
  <2> HIDE DEF IsText
  <2> QED BY <2>1
<1>4. Lower(t) \in Seq(V) /\ Lower(s) \in Seq(V)
  BY <1>2, <1>3, LowerTyped
<1> QED BY <1>2, <1>4, LikeMeans

TextsOK == texts \in [Ports -> [alias : Aliases, descr : Descrs]]

\* The ports a rule shows: those whose text is what was typed.
TypedOn(conds) ==
  {p \in Ports : \A i \in DOMAIN conds :
     \E t \in Columns(p, conds[i].field) :
       IF conds[i].op = "eq" THEN Lower(t) = Lower(conds[i].value)
       ELSE Means(Lower(t), Lower(conds[i].value))}

LEMMA ColumnsAreText ==
  ASSUME TextsOK, NEW p \in Ports, NEW c \in Conditions \cup {Also}
  PROVE  IsText(c.value) /\ \A t \in Columns(p, c.field) : IsText(t)
<1>1. c.field \in {"any", "name", "alias", "descr"} /\ IsText(c.value)
  BY CustomersAssumption
<1>2. IsText(texts[p].alias) /\ IsText(texts[p].descr) /\ IsText(PortName[p].name)
  BY CustomersAssumption DEF TextsOK
<1>3. texts[p]["alias"] = texts[p].alias /\ texts[p]["descr"] = texts[p].descr
  OBVIOUS
<1> HIDE DEF IsText
<1> QED BY <1>1, <1>2, <1>3 DEF Columns

LEMMA ClauseMeans ==
  ASSUME TextsOK, NEW p \in Ports, NEW c \in Conditions \cup {Also}
  PROVE  condClause(p, c) <=>
           \E t \in Columns(p, c.field) :
             IF c.op = "eq" THEN Lower(t) = Lower(c.value) ELSE Means(Lower(t), Lower(c.value))
<1>1. IsText(c.value) /\ \A t \in Columns(p, c.field) : IsText(t)
  BY ColumnsAreText
<1>2. \A t \in Columns(p, c.field) : ILike(Lower(t), likePattern(Lower(c.value))) <=> Means(Lower(t), Lower(c.value))
  BY <1>1, TypedMeans
<1> QED BY <1>2, Zenon DEF condClause

LEMMA SelectionIsTyped ==
  ASSUME TextsOK, NEW asked \in MatchRule, SelectPorts(asked), rule' # NoRule
  PROVE  rule'.matched = TypedOn(rule'.conds)
<1> PICK conds : conds = asked.conds
  OBVIOUS
<1>1. rule'.matched = Matched(conds) /\ rule'.conds = conds
  BY DEF SelectPorts
<1>2. \A i \in DOMAIN conds : conds[i] \in Conditions \cup {Also}
  BY DEF MatchRule
<1>3. ASSUME NEW p \in Ports, NEW i \in DOMAIN conds
      PROVE  condClause(p, conds[i]) <=>
               \E t \in Columns(p, conds[i].field) :
                 IF conds[i].op = "eq" THEN Lower(t) = Lower(conds[i].value)
                 ELSE Means(Lower(t), Lower(conds[i].value))
  BY <1>2, ClauseMeans
<1>4. Matched(conds) = TypedOn(conds)
  BY <1>3, Zenon DEF Matched, TypedOn
<1> QED BY <1>1, <1>4

\* What a rule previews and takes is what its conditions say, whatever was
\* typed: text without % found anywhere, _ and \ characters like any other,
\* % a gap, every condition counting (likePattern, condClause,
\* AssignByMatch in interfacematch.go).
THEOREM SelectsTyped == CustomersSpec => []SelectsWhatWasTyped
<1> DEFINE Inv == TextsOK /\ SelectsWhatWasTyped
<1>1. CustomersInit => Inv
  BY DEF CustomersInit, TextsOK, SelectsWhatWasTyped
<1>2. Inv /\ [CustomersNext]_customerVars => Inv'
  <2> SUFFICES ASSUME TextsOK, SelectsWhatWasTyped, [CustomersNext]_customerVars PROVE TextsOK' /\ SelectsWhatWasTyped'
    OBVIOUS
  <2>0. texts' = texts
    BY DEF CustomersNext, SelectPorts, UpdatePorts, ShowRule, ApplyTags, customerVars
  <2>1. TextsOK'
    BY <2>0 DEF TextsOK
  <2>2. SelectsWhatWasTyped <=> (rule # NoRule => rule.matched = TypedOn(rule.conds))
    BY Zenon DEF SelectsWhatWasTyped, TypedOn
  <2>3. SelectsWhatWasTyped' <=> (rule' # NoRule => rule'.matched = TypedOn(rule'.conds))
    <3>1. \A p, f : Columns(p, f)' = Columns(p, f)
      BY <2>0 DEF Columns
    <3> QED BY <3>1, Zenon DEF SelectsWhatWasTyped, TypedOn, NoRule
  <2>4. CASE rule' = NoRule
    BY <2>1, <2>3, <2>4
  <2>5. CASE rule' = rule
    BY <2>1, <2>2, <2>3, <2>5
  <2>6. CASE \E asked \in MatchRule : SelectPorts(asked)
    BY <2>1, <2>3, <2>6, SelectionIsTyped
  <2>7. rule' = NoRule \/ rule' = rule \/ \E asked \in MatchRule : SelectPorts(asked)
    BY DEF CustomersNext, UpdatePorts, ShowRule, ApplyTags, customerVars
  <2> QED BY <2>1, <2>4, <2>5, <2>6, <2>7
<1> QED BY <1>1, <1>2, PTL DEF CustomersSpec
=============================================================================
