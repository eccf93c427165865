----------------------------- MODULE Flows_proofs -----------------------------
(***************************************************************************)
(* Proofs about the flow collector.  The per-flow store of RawFlowWriter:  *)
(* a row is stored once, and no row is lost.  The decoders of FlowDecode:  *)
(* a data set is read with the layout last received under its own key.     *)
(* The aggregator of FlowAggregate: its totals stay honest.  The questions *)
(* of FlowQueries: an answer counts what it must and nothing else.         *)
(***************************************************************************)
EXTENDS FlowDecode, FlowAggregate, RawFlowWriter, FlowQueries,
        FiniteSetTheorems, SequenceTheorems, WellFoundedInduction, TLAPS

-----------------------------------------------------------------------------
(* FlattenSeq.                                                             *)

RawRow == RawPackets \X Nat
RowSeq == Seq(RawRow)

LEMMA FirstOf ==
  ASSUME NEW A \in SUBSET Nat, A # {}
  PROVE  \E m \in A : \A x \in A : m <= x
<1> DEFINE R == OpToRel(<, Nat)
<1>1. IsWellFoundedOn(R, Nat)
  BY NatLessThanWellFounded
<1>2. \A x, y \in Nat : x < y => <<x, y>> \in R
  BY DEF OpToRel
<1> HIDE DEF R
<1>3. PICK m \in A : \A y \in A : ~(<<y, m>> \in R)
  BY <1>1, WFMin
<1>4. ASSUME NEW x \in A PROVE m <= x
  <2>1. x \in Nat /\ m \in Nat
    OBVIOUS
  <2>2. ~(x < m)
    BY <1>2, <1>3, <2>1
  <2> QED BY <2>1, <2>2
<1> QED BY <1>4

\* A set of numbers that has 0 and, with each below n, the next.
LEMMA UpToAll ==
  ASSUME NEW n \in Nat, NEW A, 0 \in A, \A i \in 0..(n - 1) : i \in A => i + 1 \in A
  PROVE  0..n \subseteq A
<1> SUFFICES ASSUME (0..n) \ A # {} PROVE FALSE
  OBVIOUS
<1>1. (0..n) \ A \in SUBSET Nat
  OBVIOUS
<1>2. PICK m \in (0..n) \ A : \A x \in (0..n) \ A : m <= x
  BY <1>1, FirstOf
<1>3. m # 0 /\ m \in Nat
  BY <1>2
<1>4. m - 1 \in 0..(n - 1) /\ m - 1 \in 0..n
  BY <1>2, <1>3
<1>5. m - 1 \in A
  BY <1>2, <1>3, <1>4
<1>6. (m - 1) + 1 \in A
  BY <1>4, <1>5
<1> QED BY <1>2, <1>3, <1>6

\* The rows of the first i sequences, one after the other.
Chain(g, s) ==
  /\ g \in [0..Len(s) -> RowSeq] /\ g[0] = <<>>
  /\ \A i \in 1..Len(s) : g[i] = g[i - 1] \o s[i]

ChainTo(g, s, k) ==
  /\ g \in [0..k -> RowSeq] /\ g[0] = <<>>
  /\ \A i \in 1..k : g[i] = g[i - 1] \o s[i]

LEMMA ChainExists ==
  ASSUME NEW s \in Seq(RowSeq)
  PROVE  \E g : Chain(g, s)
<1> DEFINE A == {k \in 0..Len(s) : \E g : ChainTo(g, s, k)}
<1> PICK n : n = Len(s)
  OBVIOUS
<1>0. n \in Nat
  OBVIOUS
<1>1. 0 \in A
  <2> PICK g : g = [i \in 0..0 |-> <<>>]
    OBVIOUS
  <2>1. g \in [0..0 -> RowSeq] /\ g[0] = <<>>
    BY DEF RowSeq
  <2>2. ChainTo(g, s, 0)
    BY <2>1 DEF ChainTo
  <2> QED BY <1>0, <2>2
<1>2. ASSUME NEW k \in 0..(n - 1), k \in A PROVE k + 1 \in A
  <2>1. PICK g : ChainTo(g, s, k)
    BY <1>2
  <2> PICK h : h = [i \in 0..(k + 1) |-> IF i = k + 1 THEN g[k] \o s[k + 1] ELSE g[i]]
    OBVIOUS
  <2>2. k \in Nat /\ k + 1 \in 1..n /\ s[k + 1] \in RowSeq /\ g[k] \in RowSeq
    BY <1>0, <2>1 DEF ChainTo
  <2>3. g[k] \o s[k + 1] \in RowSeq
    BY <2>2 DEF RowSeq
  <2>4. h[k + 1] = g[k] \o s[k + 1] /\ \A i \in 0..k : h[i] = g[i]
    BY <2>2
  <2>5. h \in [0..(k + 1) -> RowSeq]
    BY <2>1, <2>2, <2>3 DEF ChainTo
  <2>6. ASSUME NEW i \in 1..(k + 1) PROVE h[i] = h[i - 1] \o s[i]
    <3>1. CASE i = k + 1
      <4>1. i - 1 = k /\ h[k] = g[k]
        BY <2>2, <2>4, <3>1
      <4> QED BY <2>4, <3>1, <4>1
    <3>2. CASE i # k + 1
      <4>1. i \in 1..k /\ i \in 0..k /\ i - 1 \in 0..k
        BY <2>2, <3>2
      <4> QED BY <2>1, <2>4, <4>1 DEF ChainTo
    <3> QED BY <3>1, <3>2
  <2>7. h[0] = <<>>
    BY <2>1, <2>2, <2>4 DEF ChainTo
  <2>8. ChainTo(h, s, k + 1)
    BY <2>5, <2>6, <2>7 DEF ChainTo
  <2> QED BY <1>0, <2>2, <2>8
<1>3. n \in A
  <2> HIDE DEF A
  <2>1. 0..n \subseteq A
    BY <1>0, <1>1, <1>2, UpToAll
  <2> QED BY <1>0, <2>1
<1> QED BY <1>3 DEF Chain, ChainTo

LEMMA FlattenIs ==
  ASSUME NEW s \in Seq(RowSeq), NEW g, Chain(g, s)
  PROVE  FlattenSeq(s) = g[Len(s)]
<1> PICK n : n = Len(s)
  OBVIOUS
<1>0. n \in Nat
  OBVIOUS
<1>1. CASE n = 0
  <2>1. s = <<>>
    BY <1>1, EmptySeq
  <2> QED BY <1>1, <2>1 DEF FlattenSeq, Chain
<1>2. CASE n # 0
  <2> DEFINE F(f) == [i \in 1..n |-> IF i = 1 THEN s[i] ELSE f[i - 1] \o s[i]]
  <2> PICK e : e = [i \in 1..n |-> g[i]]
    OBVIOUS
  <2>1. e = F(e)
    <3>1. ASSUME NEW i \in 1..n PROVE e[i] = IF i = 1 THEN s[i] ELSE e[i - 1] \o s[i]
      <4>1. e[i] = g[i] /\ g[i] = g[i - 1] \o s[i] /\ s[i] \in RowSeq
        BY DEF Chain
      <4>2. CASE i = 1
        <5>1. g[0] = <<>> /\ <<>> \o s[i] = s[i]
          BY <4>1, ConcatEmptySeq DEF Chain, RowSeq
        <5>2. i - 1 = 0
          BY <4>2
        <5>3. g[i] = s[i]
          BY <4>1, <5>1, <5>2, Zenon
        <5> QED BY <4>1, <4>2, <5>3, Zenon
      <4>3. CASE i # 1
        <5>1. i - 1 \in 1..n /\ e[i - 1] = g[i - 1]
          BY <1>0, <4>3
        <5> QED BY <4>1, <4>3, <5>1
      <4> QED BY <4>2, <4>3
    <3> QED BY <3>1
  <2> PICK f : f = CHOOSE x : x = F(x)
    OBVIOUS
  <2>2. f = F(f)
    <3> HIDE DEF F
    <3> QED BY <2>1, Zenon
  <2>3. ASSUME NEW i \in 1..n PROVE f[i] = IF i = 1 THEN s[i] ELSE f[i - 1] \o s[i]
    BY <2>2
  <2>4. FlattenSeq(s) = f[n]
    BY <1>2 DEF FlattenSeq
  <2> HIDE DEF F
  <2> DEFINE A == {i \in 0..n : i = 0 \/ f[i] = g[i]}
  <2>5. 0 \in A
    BY <1>0
  <2>6. ASSUME NEW i \in 0..(n - 1), i \in A PROVE i + 1 \in A
    <3>1. i + 1 \in 1..n /\ i + 1 \in 0..n /\ i + 1 # 0
      BY <1>0
    <3>2. f[i + 1] = (IF i = 0 THEN s[i + 1] ELSE f[i] \o s[i + 1]) /\ s[i + 1] \in RowSeq
      BY <2>3, <3>1
    <3>3. g[i + 1] = g[i] \o s[i + 1] /\ g[0] = <<>>
      BY <3>1 DEF Chain
    <3>4. f[i + 1] = g[i + 1]
      <4>1. <<>> \o s[i + 1] = s[i + 1]
        BY <3>2, ConcatEmptySeq DEF RowSeq
      <4>2. i = 0 \/ f[i] = g[i]
        BY <2>6
      <4> QED BY <3>2, <3>3, <4>1, <4>2
    <3> QED BY <3>1, <3>4
  <2>7. n \in A
    <3> HIDE DEF A
    <3>1. 0..n \subseteq A
      BY <1>0, <2>5, <2>6, UpToAll
    <3> QED BY <1>0, <3>1
  <2> QED BY <1>2, <2>4, <2>7
<1> QED BY <1>1, <1>2

LEMMA FlattenTyped ==
  ASSUME NEW s \in Seq(RowSeq)
  PROVE  FlattenSeq(s) \in RowSeq
<1>1. PICK g : Chain(g, s)
  BY ChainExists
<1>2. FlattenSeq(s) = g[Len(s)]
  BY <1>1, FlattenIs
<1>3. Len(s) \in 0..Len(s)
  OBVIOUS
<1> QED BY <1>1, <1>2, <1>3 DEF Chain

-----------------------------------------------------------------------------
(* Sequences without repetition.                                           *)

Batch == [token : Nat, rows : Seq(RawRow)]

Distinct(s) == \A i, j \in 1..Len(s) : s[i] = s[j] => i = j
Has(s, x) == \E i \in 1..Len(s) : s[i] = x
Apart(s, t) == \A i \in 1..Len(s), j \in 1..Len(t) : s[i] # t[j]

LEMMA OnceEach ==
  ASSUME NEW s \in Seq(RawRow), Distinct(s), NEW x
  PROVE  Times(s, x) <= 1
<1> DEFINE P == {i \in DOMAIN s : s[i] = x}
<1>0. Times(s, x) = Cardinality(P)
  BY DEF Times
<1>1. \A i, j \in P : i = j
  BY DEF Distinct
<1> HIDE DEF P
<1>2. CASE P = {}
  <2>1. Cardinality({}) = 0
    BY FS_EmptySet
  <2> QED BY <1>0, <1>2, <2>1
<1>3. CASE P # {}
  <2> PICK i : i \in P
    BY <1>3
  <2>1. P = {i}
    BY <1>1
  <2>2. Cardinality({i}) = 1
    BY FS_Singleton
  <2> QED BY <1>0, <2>1, <2>2
<1> QED BY <1>2, <1>3

LEMMA Joined ==
  ASSUME NEW s \in Seq(RawRow), NEW t \in Seq(RawRow), Distinct(s), Distinct(t), Apart(s, t)
  PROVE  s \o t \in Seq(RawRow) /\ Distinct(s \o t)
<1> PICK u : u = s \o t
  OBVIOUS
<1>1. u \in Seq(RawRow) /\ Len(u) = Len(s) + Len(t)
      /\ \A i \in 1..(Len(s) + Len(t)) : u[i] = IF i <= Len(s) THEN s[i] ELSE t[i - Len(s)]
  BY ConcatProperties
<1>2. ASSUME NEW i \in 1..Len(u), NEW j \in 1..Len(u), u[i] = u[j] PROVE i = j
  <2>1. Len(s) \in Nat /\ Len(t) \in Nat /\ i \in Int /\ j \in Int
    OBVIOUS
  <2>2. CASE i <= Len(s) /\ j <= Len(s)
    <3>1. i \in 1..Len(s) /\ j \in 1..Len(s) /\ s[i] = s[j]
      BY <1>1, <1>2, <2>1, <2>2
    <3> QED BY <3>1 DEF Distinct
  <2>3. CASE i <= Len(s) /\ ~(j <= Len(s))
    <3>1. i \in 1..Len(s) /\ j - Len(s) \in 1..Len(t) /\ s[i] = t[j - Len(s)]
      BY <1>1, <1>2, <2>1, <2>3
    <3> QED BY <3>1 DEF Apart
  <2>4. CASE ~(i <= Len(s)) /\ j <= Len(s)
    <3>1. j \in 1..Len(s) /\ i - Len(s) \in 1..Len(t) /\ s[j] = t[i - Len(s)]
      BY <1>1, <1>2, <2>1, <2>4
    <3> QED BY <3>1 DEF Apart
  <2>5. CASE ~(i <= Len(s)) /\ ~(j <= Len(s))
    <3>1. i - Len(s) \in 1..Len(t) /\ j - Len(s) \in 1..Len(t) /\ t[i - Len(s)] = t[j - Len(s)]
      BY <1>1, <1>2, <2>1, <2>5
    <3>2. i - Len(s) = j - Len(s)
      BY <3>1 DEF Distinct
    <3> QED BY <2>1, <3>2
  <2> QED BY <2>2, <2>3, <2>4, <2>5
<1> QED BY <1>1, <1>2 DEF Distinct

LEMMA HasJoined ==
  ASSUME NEW s \in Seq(RawRow), NEW t \in Seq(RawRow), NEW i \in 1..Len(s \o t)
  PROVE  Has(s, (s \o t)[i]) \/ Has(t, (s \o t)[i])
<1> PICK u : u = s \o t
  OBVIOUS
<1>1. Len(u) = Len(s) + Len(t)
      /\ \A k \in 1..(Len(s) + Len(t)) : u[k] = IF k <= Len(s) THEN s[k] ELSE t[k - Len(s)]
  BY ConcatProperties
<1>2. Len(s) \in Nat /\ Len(t) \in Nat /\ i \in 1..(Len(s) + Len(t))
  BY <1>1
<1>3. CASE i <= Len(s)
  <2>1. i \in 1..Len(s) /\ u[i] = s[i]
    BY <1>1, <1>2, <1>3
  <2> QED BY <2>1 DEF Has
<1>4. CASE ~(i <= Len(s))
  <2>1. i - Len(s) \in 1..Len(t) /\ u[i] = t[i - Len(s)]
    BY <1>1, <1>2, <1>4
  <2> QED BY <2>1 DEF Has
<1> QED BY <1>3, <1>4

LEMMA JoinedHas ==
  ASSUME NEW s \in Seq(RawRow), NEW t \in Seq(RawRow), NEW x, Has(s, x) \/ Has(t, x)
  PROVE  Has(s \o t, x)
<1> PICK u : u = s \o t
  OBVIOUS
<1>1. Len(u) = Len(s) + Len(t) /\ Len(s) \in Nat /\ Len(t) \in Nat
      /\ \A k \in 1..(Len(s) + Len(t)) : u[k] = IF k <= Len(s) THEN s[k] ELSE t[k - Len(s)]
  BY ConcatProperties
<1>2. ASSUME NEW i \in 1..Len(s), s[i] = x PROVE Has(u, x)
  <2>1. i \in 1..Len(u) /\ u[i] = x
    BY <1>1, <1>2
  <2> QED BY <2>1 DEF Has
<1>3. ASSUME NEW i \in 1..Len(t), t[i] = x PROVE Has(u, x)
  <2>1. Len(s) + i \in 1..Len(u) /\ ~(Len(s) + i <= Len(s)) /\ (Len(s) + i) - Len(s) = i
    BY <1>1
  <2>2. u[Len(s) + i] = x
    BY <1>1, <1>3, <2>1
  <2> QED BY <2>1, <2>2 DEF Has
<1> QED BY <1>2, <1>3 DEF Has

\* What is apart from both halves is apart from the whole.
LEMMA ApartJoined ==
  ASSUME NEW s \in Seq(RawRow), NEW t \in Seq(RawRow), NEW v \in Seq(RawRow), Apart(v, s), Apart(v, t)
  PROVE  Apart(v, s \o t)
<1> PICK u : u = s \o t
  OBVIOUS
<1>1. ASSUME NEW i \in 1..Len(v), NEW j \in 1..Len(u), v[i] = u[j] PROVE FALSE
  <2>1. Has(s, u[j]) \/ Has(t, u[j])
    BY HasJoined
  <2> QED BY <1>1, <2>1 DEF Apart, Has
<1> QED BY <1>1 DEF Apart

LEMMA ApartSym ==
  ASSUME NEW s, NEW t, Apart(s, t)
  PROVE  Apart(t, s)
BY DEF Apart

\* A part of a sequence.
PartOf(u, s, m) ==
  /\ u \in Seq(RawRow)
  /\ \A i \in 1..Len(u) : u[i] = s[m + i - 1] /\ m + i - 1 \in 1..Len(s)

LEMMA Part ==
  ASSUME NEW s \in Seq(RawRow), NEW m \in Nat \ {0}, NEW n \in Nat, n <= Len(s)
  PROVE  /\ PartOf(SubSeq(s, m, n), s, m)
         /\ Len(SubSeq(s, m, n)) = IF m <= n THEN n - m + 1 ELSE 0
<1> PICK u : u = SubSeq(s, m, n)
  OBVIOUS
<1>1. Len(s) \in Nat /\ m \in Int /\ n \in Int /\ m >= 1
  OBVIOUS
<1>2. \A i \in m..n : s[i] \in RawRow
  BY <1>1
<1>3. u \in Seq(RawRow) /\ Len(u) = (IF m <= n THEN n - m + 1 ELSE 0)
      /\ \A i \in 1..(n - m + 1) : u[i] = s[m + i - 1]
  BY <1>1, <1>2, SubSeqProperties
<1>4. ASSUME NEW i \in 1..Len(u) PROVE u[i] = s[m + i - 1] /\ m + i - 1 \in 1..Len(s)
  <2>1. i \in 1..(n - m + 1)
    BY <1>1, <1>3
  <2> QED BY <1>1, <1>3, <2>1
<1> QED BY <1>3, <1>4 DEF PartOf

LEMMA PartDistinct ==
  ASSUME NEW s \in Seq(RawRow), NEW u, NEW m \in Nat, PartOf(u, s, m), Distinct(s)
  PROVE  Distinct(u)
<1> SUFFICES ASSUME NEW i \in 1..Len(u), NEW j \in 1..Len(u), u[i] = u[j] PROVE i = j
  BY DEF Distinct
<1>1. s[m + i - 1] = s[m + j - 1] /\ m + i - 1 \in 1..Len(s) /\ m + j - 1 \in 1..Len(s)
  BY DEF PartOf
<1>2. m + i - 1 = m + j - 1
  BY <1>1 DEF Distinct
<1> QED BY <1>2

LEMMA PartHas ==
  ASSUME NEW s, NEW u, NEW m, PartOf(u, s, m), NEW i \in 1..Len(u)
  PROVE  Has(s, u[i])
BY DEF PartOf, Has

LEMMA Scaled ==
  ASSUME NEW k \in Nat, NEW l \in Nat, k < l, NEW b \in Nat
  PROVE  k * b <= (l - 1) * b
<1>1. (l - 1 - k) \in Nat
  OBVIOUS
<1>2. (l - 1 - k) * b >= 0
  BY <1>1
<1>3. (l - 1) * b = k * b + (l - 1 - k) * b
  OBVIOUS
<1> QED BY <1>2, <1>3

\* The batches are parts of what was pending, apart from each other.
Cutting(bs) ==
  /\ bs \in Seq(Batch)
  /\ \A k \in 1..Len(bs) : /\ Distinct(bs[k].rows)
                           /\ \A i \in 1..Len(bs[k].rows) : Has(pending, bs[k].rows[i])
  /\ \A k, l \in 1..Len(bs) : k # l => Apart(bs[k].rows, bs[l].rows)

\* Together they are all of it: End(k) is where batch k ends.
UpTo(x, l) == IF x < l THEN x ELSE l
End(k) == UpTo(k * BatchRows, Len(pending))
Span(x, e) == IF x + 1 <= e THEN e - (x + 1) + 1 ELSE 0

Covering(bs) ==
  /\ \A k \in 1..Len(bs) : bs[k].token = seq + k /\ Len(bs[k].rows) = End(k) - End(k - 1)
  /\ End(Len(bs)) = Len(pending)
  /\ \A i \in 1..Len(pending) : \E k \in 1..Len(bs) : Has(bs[k].rows, pending[i])

LEMMA Pieces ==
  ASSUME NEW x \in Nat, NEW l \in Nat
  PROVE  Span(x, UpTo(x + BatchRows, l)) = UpTo(x + BatchRows, l) - UpTo(x, l)
BY RawAssumption DEF Span, UpTo

LEMMA BatchesCut ==
  ASSUME pending \in Seq(RawRow), Distinct(pending), seq \in Nat
  PROVE  Cutting(Batches) /\ Covering(Batches)
<1> USE RawAssumption
<1> PICK N : N = (Len(pending) + BatchRows - 1) \div BatchRows
  OBVIOUS
<1>1. N \in Nat
  <2>1. Len(pending) + BatchRows - 1 \in Nat /\ BatchRows \in Nat \ {0}
    OBVIOUS
  <2> QED BY <2>1
<1> PICK L : L = Len(pending)
  OBVIOUS
<1>2. L \in Nat
  OBVIOUS
<1> DEFINE From(k) == (k - 1) * BatchRows + 1
           To(k) == IF k * BatchRows < L THEN k * BatchRows ELSE L
<1> PICK bs : bs = Batches
  OBVIOUS
<1>3. bs = [k \in 1..N |-> [token |-> seq + k, rows |-> SubSeq(pending, From(k), To(k))]]
  BY DEF Batches
<1>4. ASSUME NEW k \in 1..N
      PROVE  From(k) \in Nat \ {0} /\ To(k) \in Nat /\ To(k) <= L
  <2>1. (k - 1) * BatchRows \in Nat /\ k * BatchRows \in Nat
    OBVIOUS
  <2> QED BY <1>2, <2>1
<1> HIDE DEF From, To
<1>5. ASSUME NEW k \in 1..N
      PROVE  /\ bs[k].token = seq + k /\ bs[k].rows = SubSeq(pending, From(k), To(k))
             /\ bs[k] = [token |-> seq + k, rows |-> SubSeq(pending, From(k), To(k))]
  <2>1. bs[k] = [token |-> seq + k, rows |-> SubSeq(pending, From(k), To(k))]
    BY <1>3, <1>5, Zenon
  <2>2. \A t, u : [token |-> t, rows |-> u].token = t /\ [token |-> t, rows |-> u].rows = u
    OBVIOUS
  <2> QED BY <2>1, <2>2, ZenonT(40)
<1>6. ASSUME NEW k \in 1..N
      PROVE  /\ PartOf(bs[k].rows, pending, From(k))
             /\ Len(bs[k].rows) = IF From(k) <= To(k) THEN To(k) - From(k) + 1 ELSE 0
  <2>1. PartOf(SubSeq(pending, From(k), To(k)), pending, From(k))
        /\ Len(SubSeq(pending, From(k), To(k))) = IF From(k) <= To(k) THEN To(k) - From(k) + 1 ELSE 0
    BY <1>4, Part
  <2> QED BY <1>5, <2>1
<1>7. bs \in Seq(Batch) /\ Len(bs) = N
  <2>1. ASSUME NEW k \in 1..N PROVE [token |-> seq + k, rows |-> SubSeq(pending, From(k), To(k))] \in Batch
    <3>1. SubSeq(pending, From(k), To(k)) \in Seq(RawRow)
      BY <1>5, <1>6 DEF PartOf
    <3> QED BY <1>1, <3>1 DEF Batch
  <2> QED BY <1>1, <1>3, <2>1
<1>8. ASSUME NEW k \in 1..N, NEW l \in 1..N, k < l PROVE Apart(bs[k].rows, bs[l].rows)
  <2>1. k * BatchRows <= (l - 1) * BatchRows /\ k * BatchRows \in Nat /\ (l - 1) * BatchRows \in Nat
    BY <1>8, Scaled
  <2>2. To(k) < From(l)
    BY <1>2, <2>1 DEF From, To
  <2>3. ASSUME NEW i \in 1..Len(bs[k].rows), NEW j \in 1..Len(bs[l].rows), bs[k].rows[i] = bs[l].rows[j]
        PROVE  FALSE
    <3>1. From(k) + i - 1 = From(l) + j - 1
      <4>1. /\ From(k) + i - 1 \in 1..Len(pending) /\ From(l) + j - 1 \in 1..Len(pending)
            /\ pending[From(k) + i - 1] = pending[From(l) + j - 1]
        BY <1>6, <2>3 DEF PartOf
      <4> QED BY <4>1 DEF Distinct
    <3>2. i <= To(k) - From(k) + 1 /\ i \in Int /\ j \in Int /\ j >= 1
      <4>1. Len(bs[k].rows) = IF From(k) <= To(k) THEN To(k) - From(k) + 1 ELSE 0
        BY <1>6
      <4>2. From(k) \in Int /\ To(k) \in Int
        BY <1>4
      <4> QED BY <4>1, <4>2
    <3>3. From(k) \in Int /\ To(k) \in Int /\ From(l) \in Int
      BY <1>4
    <3> QED BY <2>2, <3>1, <3>2, <3>3
  <2> QED BY <2>3 DEF Apart
<1>9. ASSUME NEW k \in 1..N, NEW l \in 1..N, k # l PROVE Apart(bs[k].rows, bs[l].rows)
  <2>1. k < l \/ l < k
    BY <1>9
  <2> QED BY <1>8, <2>1, ApartSym
<1>10. ASSUME NEW k \in 1..N
       PROVE  Distinct(bs[k].rows) /\ \A i \in 1..Len(bs[k].rows) : Has(pending, bs[k].rows[i])
  <2>1. PartOf(bs[k].rows, pending, From(k)) /\ From(k) \in Nat
    BY <1>4, <1>6
  <2> QED BY <2>1, PartDistinct, PartHas
<1>11. ASSUME NEW k \in 1..N PROVE Len(bs[k].rows) = End(k) - End(k - 1)
  <2>1. (k - 1) * BatchRows \in Nat /\ k * BatchRows \in Nat /\ k * BatchRows = (k - 1) * BatchRows + BatchRows
    OBVIOUS
  <2>2. Len(bs[k].rows) = IF From(k) <= To(k) THEN To(k) - From(k) + 1 ELSE 0
    BY <1>6
  <2>3. From(k) = (k - 1) * BatchRows + 1 /\ To(k) = IF k * BatchRows < L THEN k * BatchRows ELSE L
    BY DEF From, To
  <2>5. PICK x : x = (k - 1) * BatchRows
    OBVIOUS
  <2>6. x \in Nat /\ k * BatchRows = x + BatchRows
    BY <2>1, <2>5, Zenon
  <2>7. End(k - 1) = UpTo(x, L) /\ End(k) = UpTo(x + BatchRows, L)
    BY <2>5, <2>6, Zenon DEF End
  <2>8. From(k) = x + 1 /\ To(k) = UpTo(x + BatchRows, L)
    BY <2>3, <2>5, <2>6 DEF UpTo
  <2>9. Len(bs[k].rows) = Span(x, UpTo(x + BatchRows, L))
    BY <2>2, <2>8 DEF Span
  <2>10. Span(x, UpTo(x + BatchRows, L)) = UpTo(x + BatchRows, L) - UpTo(x, L)
    BY <1>2, <2>6, Pieces, Zenon
  <2> QED BY <2>7, <2>9, <2>10, Zenon
<1>12. N * BatchRows >= L /\ N * BatchRows \in Nat
  <2>1. ASSUME NEW a \in Nat, NEW b \in Nat \ {0} PROVE a < (a \div b + 1) * b
    OBVIOUS
  <2>2. L + BatchRows - 1 \in Nat /\ BatchRows \in Nat \ {0}
    BY <1>2
  <2>3. L + BatchRows - 1 < (N + 1) * BatchRows
    BY <2>1, <2>2
  <2>4. (N + 1) * BatchRows = N * BatchRows + BatchRows /\ N * BatchRows \in Nat
    BY <1>1
  <2> QED BY <1>2, <2>3, <2>4
<1>13. End(N) = L
  BY <1>2, <1>12 DEF End, UpTo
<1>14. ASSUME NEW i \in 1..L PROVE \E k \in 1..N : Has(bs[k].rows, pending[i])
  <2> PICK q : q = (i - 1) \div BatchRows
    OBVIOUS
  <2>1. ASSUME NEW a \in Nat, NEW b \in Nat \ {0}
        PROVE  (a \div b) \in Nat /\ (a \div b) * b <= a /\ a < (a \div b + 1) * b
    OBVIOUS
  <2>2. q \in Nat /\ q * BatchRows <= i - 1 /\ i - 1 < (q + 1) * BatchRows
    <3>1. i - 1 \in Nat
      BY <1>2
    <3> QED BY <2>1, <3>1
  <2>3. q < N
    <3>1. CASE N <= q
      <4>1. N < q + 1 /\ q + 1 \in Nat /\ (q + 1) - 1 = q
        BY <1>1, <2>2, <3>1
      <4>2. N * BatchRows <= ((q + 1) - 1) * BatchRows
        BY <1>1, <4>1, Scaled
      <4>3. N * BatchRows <= q * BatchRows
        BY <4>1, <4>2
      <4>4. q * BatchRows \in Nat
        BY <2>2
      <4> QED BY <1>2, <1>12, <2>2, <4>3, <4>4
    <3> QED BY <1>1, <2>2, <3>1
  <2> PICK k : k = q + 1
    OBVIOUS
  <2>4. k \in 1..N /\ k - 1 = q
    BY <1>1, <2>2, <2>3
  <2>5. From(k) = q * BatchRows + 1 /\ To(k) = IF (q + 1) * BatchRows < L THEN (q + 1) * BatchRows ELSE L
    BY <2>4 DEF From, To
  <2>6. q * BatchRows \in Nat /\ (q + 1) * BatchRows \in Nat
    BY <2>2
  <2>7. From(k) <= i /\ i <= To(k) /\ From(k) \in Nat /\ To(k) \in Nat
    BY <1>2, <2>2, <2>5, <2>6
  <2> PICK j : j = i - From(k) + 1
    OBVIOUS
  <2>8. j \in 1..Len(bs[k].rows) /\ From(k) + j - 1 = i
    <3>1. Len(bs[k].rows) = To(k) - From(k) + 1
      <4>1. Len(bs[k].rows) = IF From(k) <= To(k) THEN To(k) - From(k) + 1 ELSE 0
        BY <1>6, <2>4
      <4>2. From(k) <= To(k)
        BY <2>7
      <4> QED BY <4>1, <4>2
    <3> QED BY <2>7, <3>1
  <2>9. bs[k].rows[j] = pending[i]
    BY <1>6, <2>4, <2>8 DEF PartOf
  <2> QED BY <2>4, <2>8, <2>9 DEF Has
<1>15. Covering(bs)
  BY <1>5, <1>7, <1>11, <1>13, <1>14 DEF Covering
<1> QED BY <1>7, <1>9, <1>10, <1>15 DEF Cutting

LEMMA ChainTyped ==
  ASSUME NEW s \in Seq(RowSeq), NEW g, Chain(g, s), NEW i \in 0..Len(s)
  PROVE  g[i] \in Seq(RawRow) /\ (i # 0 => s[i] \in Seq(RawRow))
<1>1. g[i] \in RowSeq
  BY DEF Chain
<1>2. i # 0 => i \in 1..Len(s)
  OBVIOUS
<1>3. i # 0 => s[i] \in RowSeq
  BY <1>2
<1> QED BY <1>1, <1>3 DEF RowSeq

LEMMA FlattenJoin ==
  ASSUME NEW s \in Seq(RowSeq), NEW t \in Seq(RowSeq)
  PROVE  FlattenSeq(s \o t) = FlattenSeq(s) \o FlattenSeq(t)
<1> PICK u, m, n : u = s \o t /\ m = Len(s) /\ n = Len(t)
  OBVIOUS
<1>1. /\ u \in Seq(RowSeq) /\ Len(u) = m + n /\ m \in Nat /\ n \in Nat
      /\ \A i \in 1..(m + n) : u[i] = IF i <= m THEN s[i] ELSE t[i - m]
  BY ConcatProperties
<1>2. PICK c : Chain(c, u)
  BY <1>1, ChainExists
<1>3. PICK h : Chain(h, t)
  BY ChainExists
<1> PICK a : a = [i \in 0..m |-> c[i]]
  OBVIOUS
<1>4. Chain(a, s)
  <2>1. \A i \in 0..m : a[i] = c[i] /\ i \in 0..Len(u) /\ c[i] \in RowSeq
    BY <1>1, <1>2 DEF Chain
  <2>2. a \in [0..m -> RowSeq] /\ a[0] = <<>>
    BY <1>1, <1>2, <2>1 DEF Chain
  <2>3. ASSUME NEW i \in 1..m PROVE a[i] = a[i - 1] \o s[i]
    <3>1. i \in 0..m /\ i - 1 \in 0..m /\ i \in 1..Len(u) /\ u[i] = s[i]
      BY <1>1
    <3>2. c[i] = c[i - 1] \o u[i]
      BY <1>2, <3>1 DEF Chain
    <3> QED BY <2>1, <3>1, <3>2
  <2> QED BY <2>2, <2>3 DEF Chain
<1>5. FlattenSeq(s) = c[m]
  <2>1. FlattenSeq(s) = a[m]
    BY <1>4, FlattenIs
  <2> QED BY <1>1, <2>1
<1>6. FlattenSeq(t) = h[n] /\ FlattenSeq(u) = c[m + n]
  BY <1>1, <1>2, <1>3, FlattenIs
<1>7. c[m] \in Seq(RawRow) /\ \A j \in 0..n : h[j] \in Seq(RawRow) /\ (j # 0 => t[j] \in Seq(RawRow))
  <2>1. m \in 0..Len(u)
    BY <1>1
  <2>2. c[m] \in Seq(RawRow)
    BY <1>1, <1>2, <2>1, ChainTyped
  <2>3. \A j \in 0..n : h[j] \in Seq(RawRow) /\ (j # 0 => t[j] \in Seq(RawRow))
    BY <1>3, ChainTyped
  <2> QED BY <2>2, <2>3
<1> DEFINE A == {j \in 0..n : c[m + j] = c[m] \o h[j]}
<1>8. 0 \in A
  <2>1. h[0] = <<>> /\ m + 0 = m
    BY <1>1, <1>3 DEF Chain
  <2>2. c[m] \o <<>> = c[m]
    BY <1>7, ConcatEmptySeq
  <2>3. c[m + 0] = c[m] \o h[0]
    BY <2>1, <2>2, Zenon
  <2>4. 0 \in 0..n
    BY <1>1
  <2> QED BY <2>3, <2>4, Zenon
<1>9. ASSUME NEW j \in 0..(n - 1), j \in A PROVE j + 1 \in A
  <2>1. j + 1 \in 1..n /\ j + 1 \in 0..n /\ j \in 0..n /\ m + (j + 1) \in 1..Len(u)
    BY <1>1
  <2>2. u[m + (j + 1)] = t[j + 1] /\ t[j + 1] \in RowSeq
    BY <1>1, <2>1
  <2>3. c[m + (j + 1)] = c[m + j] \o t[j + 1]
    <3>1. c[m + (j + 1)] = c[(m + (j + 1)) - 1] \o u[m + (j + 1)]
      BY <1>2, <2>1 DEF Chain
    <3>2. (m + (j + 1)) - 1 = m + j
      BY <1>1
    <3> QED BY <2>2, <3>1, <3>2
  <2>4. h[j + 1] = h[j] \o t[j + 1]
    <3>1. (j + 1) - 1 = j
      BY <1>1
    <3> QED BY <1>3, <2>1, <3>1 DEF Chain
  <2>5. (c[m] \o h[j]) \o t[j + 1] = c[m] \o (h[j] \o t[j + 1])
    <3>1. c[m] \in Seq(RawRow) /\ h[j] \in Seq(RawRow) /\ t[j + 1] \in Seq(RawRow)
      BY <1>1, <1>7, <2>1
    <3>2. PICK x, y, z : x = c[m] /\ y = h[j] /\ z = t[j + 1]
      OBVIOUS
    <3>3. x \in Seq(RawRow) /\ y \in Seq(RawRow) /\ z \in Seq(RawRow)
      BY <3>1, <3>2, Zenon
    <3>4. (x \o y) \o z = x \o (y \o z)
      BY <3>3, ConcatAssociative, SMTT(30)
    <3> QED BY <3>2, <3>4, Zenon
  <2>6. c[m + j] = c[m] \o h[j]
    BY <1>9
  <2>7. c[m + (j + 1)] = c[m] \o h[j + 1]
    BY <2>3, <2>4, <2>5, <2>6, Zenon
  <2> QED BY <2>1, <2>7, Zenon
<1>10. n \in A
  <2> HIDE DEF A
  <2>1. 0..n \subseteq A
    BY <1>1, <1>8, <1>9, UpToAll
  <2> QED BY <1>1, <2>1
<1> QED BY <1>5, <1>6, <1>10

LEMMA FlattenHas ==
  ASSUME NEW s \in Seq(RowSeq), NEW k \in 1..Len(s), NEW x, Has(s[k], x)
  PROVE  Has(FlattenSeq(s), x)
<1> PICK n : n = Len(s)
  OBVIOUS
<1>1. n \in Nat
  OBVIOUS
<1>2. PICK g : Chain(g, s)
  BY ChainExists
<1>3. FlattenSeq(s) = g[n]
  BY <1>2, FlattenIs
<1> DEFINE A == {i \in 0..n : i < k \/ Has(g[i], x)}
<1>4. 0 \in A
  BY <1>1
<1>5. ASSUME NEW i \in 0..(n - 1), i \in A PROVE i + 1 \in A
  <2>1. i + 1 \in 1..n /\ i + 1 \in 0..n /\ i \in 0..n /\ (i + 1) - 1 = i
    BY <1>1
  <2>2. g[i + 1] = g[i] \o s[i + 1] /\ g[i] \in Seq(RawRow) /\ s[i + 1] \in Seq(RawRow)
    <3>1. g[i + 1] = g[(i + 1) - 1] \o s[i + 1]
      BY <1>2, <2>1 DEF Chain
    <3>2. g[i] \in Seq(RawRow)
      BY <1>2, <2>1, ChainTyped
    <3>3. s[i + 1] \in Seq(RawRow)
      BY <1>2, <2>1, ChainTyped
    <3> QED BY <2>1, <3>1, <3>2, <3>3
  <2>3. CASE i + 1 < k
    BY <2>1, <2>3
  <2>4. CASE i + 1 = k
    <3>1. Has(s[i + 1], x)
      BY <2>4
    <3> QED BY <2>1, <2>2, <3>1, JoinedHas
  <2>5. CASE i + 1 > k
    <3>1. Has(g[i], x)
      BY <1>5, <2>5
    <3> QED BY <2>1, <2>2, <3>1, JoinedHas
  <2> QED BY <1>1, <2>3, <2>4, <2>5
<1>6. n \in A
  <2> HIDE DEF A
  <2>1. 0..n \subseteq A
    BY <1>1, <1>4, <1>5, UpToAll
  <2> QED BY <1>1, <2>1
<1> QED BY <1>1, <1>3, <1>6

-----------------------------------------------------------------------------
(* The writer and the store.                                               *)

PacketOf(x) == x[1]
Landed(s) == \A i \in 1..Len(s) : PacketOf(s[i]) \notin arriving
LastToken(t) == Len(tokens) > 0 /\ tokens[Len(tokens)] = t

RawShape ==
  /\ arriving \subseteq RawPackets /\ seq \in Nat /\ queued \in Int
  /\ pending \in Seq(RawRow) /\ retry \in Seq(Batch)
  /\ flows \in Seq(RawRow) /\ rollup \in Seq(RawRow) /\ tokens \in Seq(Nat)
  /\ DOMAIN flush = {"pc", "todo", "sent"} /\ flush.sent \in Nat /\ flush.sent <= Len(retry)
  /\ flush.pc \in {"wait", "send", "settle", "ended"}

\* A row waits in one place, and what arrives is new.
QueueFits ==
  /\ Distinct(pending) /\ Apart(pending, flows) /\ Landed(pending) /\ Landed(flows)
  /\ \A k \in 1..Len(retry) :
       Distinct(retry[k].rows) /\ Apart(pending, retry[k].rows) /\ Landed(retry[k].rows)
  /\ \A k, l \in 1..Len(retry) : k # l => Apart(retry[k].rows, retry[l].rows)

StoreFits ==
  /\ Distinct(flows) /\ Distinct(rollup)
  /\ \A i \in 1..Len(rollup) : Has(flows, rollup[i])

\* Of the batches not known to be stored only the first may be, and then its
\* token is the last one: a flush stops at the first failure, and the next
\* one starts there.
Unsent(k) == Apart(retry[k].rows, flows) \/ (k = flush.sent + 1 /\ LastToken(retry[k].token))

SendFits ==
  /\ flush.pc = "wait" => flush.sent = 0
  /\ flush.pc = "send" =>
       /\ flush.todo \in Seq(Batch) /\ Len(flush.todo) = Len(retry) - flush.sent
       /\ \A i \in 1..Len(flush.todo) : flush.todo[i] = retry[flush.sent + i]
  /\ flush.pc # "ended" => \A k \in 1..Len(retry) : k > flush.sent => Unsent(k)

RawFits == RawShape /\ QueueFits /\ StoreFits /\ SendFits

LEMMA PacketIs == \A q, i : PacketOf(<<q, i>>) = q
BY DEF PacketOf

LEMMA BatchRowsTyped ==
  ASSUME RawShape, NEW k \in 1..Len(retry)
  PROVE  retry[k].rows \in Seq(RawRow) /\ retry[k].token \in Nat
<1>1. retry[k] \in Batch
  BY DEF RawShape
<1> QED BY <1>1 DEF Batch

LEMMA AddFits ==
  ASSUME RawFits, NEW p \in RawPackets, Add(p)
  PROVE  RawFits'
<1> USE RawAssumption DEF RawFits
<1> PICK n : n = IF Room < RowsOf[p] THEN Room ELSE RowsOf[p]
  OBVIOUS
<1> PICK new : new = SubSeq(Rows(p), 1, n)
  OBVIOUS
<1>1. /\ p \in arriving /\ arriving' = arriving \ {p} /\ pending' = pending \o new
      /\ queued' = queued + n
      /\ UNCHANGED <<retry, seq, flush, flows, rollup, tokens>>
  BY DEF Add, storeVars
<1>2. n \in Nat /\ new \in Seq(RawRow) /\ Distinct(new) /\ \A i \in 1..Len(new) : PacketOf(new[i]) = p
  <2> PICK all : all = Rows(p)
    OBVIOUS
  <2>1. RowsOf[p] \in Nat
    OBVIOUS
  <2>2. /\ all \in Seq(RawRow) /\ Len(all) = RowsOf[p]
        /\ \A i \in 1..Len(all) : all[i] = <<p, i>>
    <3>1. all = [i \in 1..RowsOf[p] |-> <<p, i>>]
      BY DEF Rows
    <3>2. \A i \in 1..RowsOf[p] : <<p, i>> \in RawRow
      BY <2>1 DEF RawRow
    <3> QED BY <2>1, <3>1, <3>2
  <2>3. Distinct(all)
    BY <2>2 DEF Distinct
  <2>4. CASE n \in Nat /\ n <= Len(all)
    <3>1. PartOf(new, all, 1)
      BY <2>2, <2>4, Part
    <3>2. Distinct(new)
      BY <2>2, <2>3, <3>1, PartDistinct
    <3>3. ASSUME NEW i \in 1..Len(new) PROVE PacketOf(new[i]) = p
      <4>1. PICK j \in 1..Len(all) : new[i] = all[j]
        BY <3>1 DEF PartOf
      <4>2. new[i] = <<p, j>>
        BY <2>2, <4>1
      <4> QED BY <4>2, PacketIs, Zenon
    <3> QED BY <2>4, <3>1, <3>2, <3>3 DEF PartOf
  <2>5. CASE ~(n \in Nat /\ n <= Len(all))
    <3>1. FALSE
      <4>1. Room \in Nat
        BY DEF Room, RawShape
      <4> QED BY <2>1, <2>2, <2>5, <4>1
    <3> QED BY <3>1
  <2> QED BY <2>4, <2>5
<1>3. ASSUME NEW s, Landed(s)
      PROVE  Apart(new, s) /\ \A i \in 1..Len(s) : PacketOf(s[i]) \notin arriving'
  BY <1>1, <1>2, <1>3 DEF Apart, Landed
<1>4. pending' \in Seq(RawRow) /\ Distinct(pending')
  <2>1. Apart(pending, new)
    BY <1>3, ApartSym DEF QueueFits
  <2> QED BY <1>1, <1>2, <2>1, Joined DEF RawShape, QueueFits
<1>5. ASSUME NEW s \in Seq(RawRow), Landed(s), Apart(pending, s) PROVE Apart(pending', s)
  <2>1. Apart(s, pending) /\ Apart(s, new)
    BY <1>3, <1>5, ApartSym
  <2>2. Apart(s, pending \o new)
    BY <1>2, <1>5, <2>1, ApartJoined DEF RawShape
  <2> QED BY <1>1, <2>2, ApartSym
<1>6. \A i \in 1..Len(pending') : PacketOf(pending'[i]) \notin arriving'
  <2>1. ASSUME NEW i \in 1..Len(pending') PROVE PacketOf(pending'[i]) \notin arriving'
    <3>1. Has(pending, pending'[i]) \/ Has(new, pending'[i])
      BY <1>1, <1>2, HasJoined DEF RawShape
    <3> QED BY <1>1, <1>2, <3>1 DEF Has, QueueFits, Landed
  <2> QED BY <2>1
<1>7. QueueFits'
  <2>1. Apart(pending', flows') /\ \A i \in 1..Len(flows') : PacketOf(flows'[i]) \notin arriving'
    BY <1>1, <1>3, <1>5 DEF QueueFits, RawShape
  <2>2. ASSUME NEW k \in 1..Len(retry)
        PROVE  /\ Distinct(retry[k].rows) /\ Apart(pending', retry[k].rows)
               /\ \A i \in 1..Len(retry[k].rows) : PacketOf(retry[k].rows[i]) \notin arriving'
    <3>1. Landed(retry[k].rows) /\ Apart(pending, retry[k].rows) /\ Distinct(retry[k].rows)
      BY DEF QueueFits
    <3>2. retry[k].rows \in Seq(RawRow)
      BY BatchRowsTyped
    <3> QED BY <1>3, <1>5, <3>1, <3>2
  <2> QED BY <1>1, <1>4, <1>6, <2>1, <2>2 DEF QueueFits, Landed
<1>8. RawShape'
  <2>1. queued' \in Int
    BY <1>1, <1>2 DEF RawShape
  <2> QED BY <1>1, <1>4, <2>1 DEF RawShape
<1>9. StoreFits' /\ SendFits'
  BY <1>1 DEF StoreFits, SendFits, Unsent, LastToken
<1> QED BY <1>7, <1>8, <1>9

RowsIn(r) == [i \in DOMAIN r |-> r[i].rows]

LEMMA RowsInTyped ==
  ASSUME NEW r \in Seq(Batch)
  PROVE  /\ RowsIn(r) \in Seq(RowSeq) /\ Len(RowsIn(r)) = Len(r)
         /\ \A i \in 1..Len(r) : RowsIn(r)[i] = r[i].rows /\ r[i].rows \in Seq(RawRow)
<1>1. \A i \in 1..Len(r) : r[i] \in Batch
  OBVIOUS
<1>2. \A i \in 1..Len(r) : r[i].rows \in Seq(RawRow)
  BY <1>1 DEF Batch
<1>3. \A i \in 1..Len(r) : r[i].rows \in RowSeq
  BY <1>2 DEF RowSeq
<1>4. RowsIn(r) = [i \in 1..Len(r) |-> r[i].rows]
  BY DEF RowsIn
<1> QED BY <1>2, <1>3, <1>4

LEMMA FormFits ==
  ASSUME RawFits, FormBatches
  PROVE  RawFits'
<1> USE RawAssumption DEF RawFits
<1> PICK bs : bs = Batches
  OBVIOUS
<1>1. /\ flush.pc = "wait" /\ retry' = retry \o bs /\ seq' = seq + Len(bs) /\ pending' = <<>>
      /\ flush' = [pc |-> "send", todo |-> retry', sent |-> 0]
      /\ UNCHANGED <<arriving, queued, flows, rollup, tokens>>
  BY DEF FormBatches, storeVars
<1>2. Cutting(bs)
  BY BatchesCut DEF RawShape, QueueFits
<1>3. bs \in Seq(Batch) /\ retry \in Seq(Batch) /\ Len(retry) \in Nat /\ Len(bs) \in Nat
  BY <1>2 DEF Cutting, RawShape
<1>4. /\ retry' \in Seq(Batch) /\ Len(retry') = Len(retry) + Len(bs)
      /\ \A k \in 1..(Len(retry) + Len(bs)) :
           retry'[k] = IF k <= Len(retry) THEN retry[k] ELSE bs[k - Len(retry)]
  BY <1>1, <1>3, ConcatProperties
<1>5. flush.sent = 0 /\ flush'.pc = "send" /\ flush'.sent = 0 /\ flush'.todo = retry'
      /\ DOMAIN flush' = {"pc", "todo", "sent"}
  BY <1>1 DEF SendFits
<1>6. RawShape'
  <2>1. pending' \in Seq(RawRow)
    BY <1>1
  <2>2. seq' \in Nat
    BY <1>1, <1>3 DEF RawShape
  <2>3. 0 <= Len(retry') /\ 0 \in Nat
    BY <1>3, <1>4
  <2> QED BY <1>1, <1>4, <1>5, <2>1, <2>2, <2>3 DEF RawShape
<1>7. ASSUME NEW k \in 1..Len(retry'), k <= Len(retry)
      PROVE  k \in 1..Len(retry) /\ retry'[k] = retry[k]
  BY <1>3, <1>4, <1>7
<1>8. ASSUME NEW k \in 1..Len(retry'), ~(k <= Len(retry))
      PROVE  k - Len(retry) \in 1..Len(bs) /\ retry'[k] = bs[k - Len(retry)]
  BY <1>3, <1>4, <1>8
<1>9. ASSUME NEW s, Apart(pending, s), NEW l \in 1..Len(bs) PROVE Apart(bs[l].rows, s)
  BY <1>2, <1>9 DEF Cutting, Has, Apart
<1>10. ASSUME NEW l \in 1..Len(bs) PROVE Distinct(bs[l].rows) /\ Landed(bs[l].rows)
  <2>1. Landed(pending)
    BY DEF QueueFits
  <2> QED BY <1>2, <2>1 DEF Cutting, Has, Landed
<1>11. ASSUME NEW k \in 1..Len(retry') PROVE Distinct(retry'[k].rows) /\ Landed(retry'[k].rows)
  <2>1. CASE k <= Len(retry)
    BY <1>7, <2>1 DEF QueueFits
  <2>2. CASE ~(k <= Len(retry))
    BY <1>8, <1>10, <2>2
  <2> QED BY <2>1, <2>2
<1>12. ASSUME NEW k \in 1..Len(retry'), NEW l \in 1..Len(retry'), k # l
       PROVE  Apart(retry'[k].rows, retry'[l].rows)
  <2>1. CASE k <= Len(retry) /\ l <= Len(retry)
    BY <1>7, <1>12, <2>1 DEF QueueFits
  <2>2. CASE ~(k <= Len(retry)) /\ ~(l <= Len(retry))
    <3>1. k - Len(retry) # l - Len(retry)
      BY <1>3, <1>12
    <3> QED BY <1>2, <1>8, <2>2, <3>1 DEF Cutting
  <2>3. CASE k <= Len(retry) /\ ~(l <= Len(retry))
    <3>1. Apart(pending, retry'[k].rows)
      BY <1>7, <2>3 DEF QueueFits
    <3>2. Apart(retry'[l].rows, retry'[k].rows)
      BY <1>8, <1>9, <2>3, <3>1
    <3> QED BY <3>2, ApartSym
  <2>4. CASE ~(k <= Len(retry)) /\ l <= Len(retry)
    <3>1. Apart(pending, retry'[l].rows)
      BY <1>7, <2>4 DEF QueueFits
    <3> QED BY <1>8, <1>9, <2>4, <3>1
  <2> QED BY <2>1, <2>2, <2>3, <2>4
<1>13. QueueFits'
  <2>1. Distinct(pending') /\ (\A s : Apart(pending', s)) /\ \A i \in 1..Len(pending') : PacketOf(pending'[i]) \notin arriving'
    <3>1. 1..Len(pending') = {}
      BY <1>1
    <3> QED BY <3>1 DEF Distinct, Apart
  <2> QED BY <1>1, <1>11, <1>12, <2>1 DEF QueueFits, Landed
<1>14. ASSUME NEW k \in 1..Len(retry') PROVE Unsent(k)'
  <2>1. CASE k <= Len(retry)
    <3>1. k \in 1..Len(retry) /\ retry'[k] = retry[k]
      BY <1>7, <2>1
    <3>2. Unsent(k)
      BY <1>1, <1>5, <3>1 DEF SendFits
    <3> QED BY <1>1, <1>5, <3>1, <3>2 DEF Unsent, LastToken
  <2>2. CASE ~(k <= Len(retry))
    <3>1. Apart(retry'[k].rows, flows)
      BY <1>8, <1>9, <2>2 DEF QueueFits
    <3> QED BY <1>1, <3>1 DEF Unsent
  <2> QED BY <2>1, <2>2
<1>15. SendFits'
  <2>1. Len(retry') = Len(retry') - 0 /\ \A i \in 1..Len(retry') : i = 0 + i
    BY <1>3, <1>4
  <2> QED BY <1>4, <1>5, <1>14, <2>1 DEF SendFits
<1>16. StoreFits'
  BY <1>1 DEF StoreFits
<1> QED BY <1>6, <1>13, <1>15, <1>16

LEMMA TailOf ==
  ASSUME NEW s \in Seq(Batch), NEW m \in Nat, NEW t \in Seq(Batch), t # <<>>, NEW u, u = Tail(t),
         Len(t) = Len(s) - m, \A i \in 1..Len(t) : t[i] = s[m + i]
  PROVE  /\ u \in Seq(Batch) /\ Len(u) = Len(s) - (m + 1)
         /\ \A i \in 1..Len(u) : u[i] = s[(m + 1) + i]
<1>1. u \in Seq(Batch) /\ Len(u) = Len(t) - 1 /\ \A i \in 1..Len(u) : u[i] = t[i + 1]
  BY HeadTailProperties
<1>2. Len(s) \in Nat /\ Len(t) \in Nat /\ Len(u) \in Nat
  BY <1>1
<1>3. ASSUME NEW i \in 1..Len(u) PROVE u[i] = s[(m + 1) + i]
  <2>1. i + 1 \in 1..Len(t) /\ m + (i + 1) = (m + 1) + i
    BY <1>1, <1>2
  <2>2. u[i] = t[i + 1] /\ t[i + 1] = s[m + (i + 1)]
    BY <1>1, <2>1
  <2> QED BY <2>1, <2>2
<1>4. Len(u) = Len(s) - (m + 1)
  BY <1>1, <1>2
<1> QED BY <1>1, <1>3, <1>4

LEMMA InsertFits ==
  ASSUME RawFits, Insert
  PROVE  RawFits'
<1> USE RawAssumption DEF RawFits
<1> PICK b : b = Head(flush.todo)
  OBVIOUS
<1> PICK n : n = flush.sent + 1
  OBVIOUS
<1>1. /\ flush.pc = "send" /\ flush.todo # <<>> /\ Applies(b)
      /\ UNCHANGED <<arriving, pending, retry, queued, seq>>
  BY DEF Insert, queueVars
<1>2. n \in 1..Len(retry) /\ b = retry[n] /\ flush.sent \in Nat
      /\ flush.todo \in Seq(Batch) /\ Len(flush.todo) = Len(retry) - flush.sent
  <2>1. flush.todo \in Seq(Batch) /\ Len(flush.todo) = Len(retry) - flush.sent
        /\ \A i \in 1..Len(flush.todo) : flush.todo[i] = retry[flush.sent + i]
    BY <1>1 DEF SendFits
  <2>2. Len(flush.todo) # 0 /\ Len(flush.todo) \in Nat
    BY <1>1, <2>1, EmptySeq
  <2>3. 1 \in 1..Len(flush.todo) /\ b = flush.todo[1]
    BY <1>1, <2>1, <2>2
  <2>4. flush.sent \in Nat /\ Len(retry) \in Nat
    BY DEF RawShape
  <2> QED BY <2>1, <2>2, <2>3, <2>4
<1>3. b.rows \in Seq(RawRow) /\ b.token \in Nat
  BY <1>2, BatchRowsTyped
<1>4. flows \in Seq(RawRow) /\ rollup \in Seq(RawRow) /\ tokens \in Seq(Nat)
  BY DEF RawShape
<1>5. /\ flows' \in Seq(RawRow) /\ rollup' \in Seq(RawRow) /\ tokens' \in Seq(Nat)
      /\ StoreFits' /\ Apart(pending, flows') /\ Landed(flows')
      /\ \A k \in 1..Len(retry) : k > n => Apart(retry[k].rows, flows')
      /\ Apart(b.rows, flows') \/ (Len(tokens') > 0 /\ tokens'[Len(tokens')] = b.token)
  <2>0. /\ Unsent(n) /\ \A k \in 1..Len(retry) : k > n => Apart(retry[k].rows, flows)
    <3>1. \A k \in 1..Len(retry) : k > flush.sent => Unsent(k)
      BY <1>1 DEF SendFits
    <3>2. n > flush.sent /\ \A k \in 1..Len(retry) : k > n => k > flush.sent /\ k # flush.sent + 1
      BY <1>2
    <3> QED BY <1>2, <3>1, <3>2 DEF Unsent
  <2>1. CASE \E i \in DOMAIN tokens : tokens[i] = b.token
    <3>1. UNCHANGED <<flows, rollup, tokens>>
      BY <1>1, <2>1 DEF Applies, storeVars
    <3>2. Apart(b.rows, flows) \/ LastToken(b.token)
      BY <1>2, <2>0 DEF Unsent
    <3> QED BY <1>4, <2>0, <3>1, <3>2 DEF StoreFits, QueueFits, LastToken
  <2>2. CASE ~\E i \in DOMAIN tokens : tokens[i] = b.token
    <3>1. /\ flows' = flows \o b.rows
          /\ rollup' = IF HasView THEN rollup \o b.rows ELSE rollup
          /\ tokens' = IF Len(tokens) = Window THEN Append(Tail(tokens), b.token) ELSE Append(tokens, b.token)
      BY <1>1, <2>2 DEF Applies
    <3>2. ~LastToken(b.token)
      <4>1. LastToken(b.token) => Len(tokens) \in DOMAIN tokens /\ tokens[Len(tokens)] = b.token
        BY <1>4 DEF LastToken
      <4> QED BY <2>2, <4>1
    <3>3. Apart(b.rows, flows) /\ Distinct(b.rows) /\ Apart(pending, b.rows) /\ Landed(b.rows)
      BY <1>2, <2>0, <3>2 DEF Unsent, QueueFits
    <3>4. flows' \in Seq(RawRow) /\ Distinct(flows')
      <4>1. Apart(flows, b.rows) /\ Distinct(flows)
        BY <3>3, ApartSym DEF StoreFits
      <4> QED BY <1>3, <1>4, <3>1, <3>3, <4>1, Joined
    <3>5. rollup' \in Seq(RawRow) /\ Distinct(rollup') /\ \A i \in 1..Len(rollup') : Has(flows', rollup'[i])
      <4>1. \A x : Has(flows, x) \/ Has(b.rows, x) => Has(flows', x)
        BY <1>3, <1>4, <3>1, JoinedHas
      <4>2. Apart(rollup, b.rows) /\ Distinct(rollup) /\ \A i \in 1..Len(rollup) : Has(flows, rollup[i])
        BY <3>3 DEF StoreFits, Has, Apart
      <4>3. CASE HasView
        <5>1. rollup' = rollup \o b.rows
          BY <3>1, <4>3
        <5>2. rollup' \in Seq(RawRow) /\ Distinct(rollup')
          BY <1>3, <1>4, <3>3, <4>2, <5>1, Joined
        <5>3. ASSUME NEW i \in 1..Len(rollup') PROVE Has(flows', rollup'[i])
          <6>1. Has(rollup, rollup'[i]) \/ Has(b.rows, rollup'[i])
            BY <1>3, <1>4, <5>1, HasJoined
          <6>2. Has(rollup, rollup'[i]) => Has(flows, rollup'[i])
            BY <4>2 DEF Has
          <6> QED BY <4>1, <6>1, <6>2
        <5> QED BY <5>2, <5>3
      <4>4. CASE ~HasView
        BY <1>4, <3>1, <4>1, <4>2, <4>4
      <4> QED BY <4>3, <4>4
    <3>6. ASSUME NEW s \in Seq(RawRow), Apart(s, flows), Apart(s, b.rows) PROVE Apart(s, flows')
      BY <1>3, <1>4, <3>1, <3>6, ApartJoined
    <3>7. Apart(pending, flows')
      BY <3>3, <3>6 DEF QueueFits, RawShape
    <3>8. ASSUME NEW k \in 1..Len(retry), k > n PROVE Apart(retry[k].rows, flows')
      <4>1. Apart(retry[k].rows, flows) /\ retry[k].rows \in Seq(RawRow)
        BY <2>0, <3>8, BatchRowsTyped
      <4>2. k # n
        BY <1>2, <3>8
      <4>3. Apart(retry[k].rows, b.rows)
        BY <1>2, <4>2 DEF QueueFits
      <4> QED BY <3>6, <4>1, <4>3
    <3>9. Landed(flows')
      <4>1. ASSUME NEW i \in 1..Len(flows') PROVE PacketOf(flows'[i]) \notin arriving
        <5>1. Has(flows, flows'[i]) \/ Has(b.rows, flows'[i])
          BY <1>3, <1>4, <3>1, HasJoined
        <5> QED BY <3>3, <5>1 DEF Has, Landed, QueueFits
      <4> QED BY <4>1 DEF Landed
    <3>10. tokens' \in Seq(Nat) /\ Len(tokens') > 0 /\ tokens'[Len(tokens')] = b.token
      <4>1. CASE Len(tokens) = Window
        <5>1. PICK u : u = Tail(tokens)
          OBVIOUS
        <5>2. u \in Seq(Nat) /\ tokens' = Append(u, b.token)
          <6>1. tokens # <<>>
            BY <4>1
          <6> QED BY <1>4, <3>1, <4>1, <5>1, <6>1
        <5> QED BY <1>3, <5>2
      <4>2. CASE Len(tokens) # Window
        BY <1>3, <1>4, <3>1, <4>2
      <4> QED BY <4>1, <4>2
    <3> QED BY <3>4, <3>5, <3>7, <3>8, <3>9, <3>10 DEF StoreFits
  <2> QED BY <2>1, <2>2
<1>6. QueueFits'
  BY <1>1, <1>5 DEF QueueFits, Landed
<1>7. \/ flush' = [flush EXCEPT !.todo = Tail(flush.todo), !.sent = flush.sent + 1]
      \/ flush' = [flush EXCEPT !.pc = "settle"]
  BY DEF Insert
<1>8. CASE flush' = [flush EXCEPT !.todo = Tail(flush.todo), !.sent = flush.sent + 1]
  <2>1. /\ flush'.pc = "send" /\ flush'.sent = n /\ flush'.todo = Tail(flush.todo)
        /\ DOMAIN flush' = {"pc", "todo", "sent"}
    BY <1>1, <1>8 DEF RawShape
  <2>2. flush'.todo \in Seq(Batch) /\ Len(flush'.todo) = Len(retry) - n
        /\ \A i \in 1..Len(flush'.todo) : flush'.todo[i] = retry[n + i]
    <3> PICK t, u : t = flush.todo /\ u = Tail(flush.todo)
      OBVIOUS
    <3>1. t \in Seq(Batch) /\ t # <<>> /\ Len(t) = Len(retry) - flush.sent
          /\ \A i \in 1..Len(t) : t[i] = retry[flush.sent + i]
      BY <1>1 DEF SendFits
    <3>2. /\ u \in Seq(Batch) /\ Len(u) = Len(retry) - (flush.sent + 1)
          /\ \A i \in 1..Len(u) : u[i] = retry[(flush.sent + 1) + i]
      <4>1. PICK m : m = flush.sent
        OBVIOUS
      <4>2. retry \in Seq(Batch) /\ m \in Nat
        BY <1>2, <4>1 DEF RawShape
      <4>3. u = Tail(t)
        OBVIOUS
      <4>4. t \in Seq(Batch) /\ t # <<>> /\ Len(t) = Len(retry) - m
            /\ \A i \in 1..Len(t) : t[i] = retry[m + i]
        BY <3>1, <4>1, Zenon
      <4>5. /\ u \in Seq(Batch) /\ Len(u) = Len(retry) - (m + 1)
            /\ \A i \in 1..Len(u) : u[i] = retry[(m + 1) + i]
        BY <4>2, <4>3, <4>4, TailOf
      <4> QED BY <4>1, <4>5, Zenon
    <3> QED BY <2>1, <3>2
  <2>3. RawShape'
    <3>1. n \in Nat /\ n <= Len(retry)
      BY <1>2
    <3> QED BY <1>1, <1>5, <2>1, <3>1 DEF RawShape
  <2>4. SendFits'
    BY <1>1, <1>5, <2>1, <2>2 DEF SendFits, Unsent
  <2> QED BY <1>5, <1>6, <2>3, <2>4
<1>9. CASE flush' = [flush EXCEPT !.pc = "settle"]
  <2>1. flush'.pc = "settle" /\ flush'.sent = flush.sent /\ DOMAIN flush' = {"pc", "todo", "sent"}
    BY <1>9 DEF RawShape
  <2>2. RawShape'
    BY <1>1, <1>5, <2>1 DEF RawShape
  <2>3. ASSUME NEW k \in 1..Len(retry), k > flush.sent PROVE Unsent(k)'
    <3>1. k = n \/ k > n
      BY <1>2, <2>3
    <3> QED BY <1>1, <1>2, <1>5, <2>1, <3>1 DEF Unsent, LastToken
  <2>4. SendFits'
    BY <1>1, <2>1, <2>3 DEF SendFits
  <2> QED BY <1>5, <1>6, <2>2, <2>4
<1> QED BY <1>7, <1>8, <1>9

\* What a flush leaves.
LEMMA RestOf ==
  ASSUME NEW s \in Seq(Batch), NEW m \in Nat, m <= Len(s), NEW r, r = SubSeq(s, m + 1, Len(s))
  PROVE  /\ r \in Seq(Batch) /\ Len(r) = Len(s) - m
         /\ \A k \in 1..Len(r) : r[k] = s[m + k] /\ m + k \in 1..Len(s)
<1>1. Len(s) \in Nat /\ m + 1 \in Int /\ Len(s) \in Int
  OBVIOUS
<1>2. \A i \in (m + 1)..Len(s) : s[i] \in Batch
  OBVIOUS
<1>3. r \in Seq(Batch) /\ Len(r) = (IF m + 1 <= Len(s) THEN Len(s) - (m + 1) + 1 ELSE 0)
      /\ \A i \in 1..(Len(s) - (m + 1) + 1) : r[i] = s[(m + 1) + i - 1]
  BY <1>1, <1>2, SubSeqProperties
<1>4. Len(r) = Len(s) - m
  BY <1>1, <1>3
<1>5. ASSUME NEW k \in 1..Len(r) PROVE r[k] = s[m + k] /\ m + k \in 1..Len(s)
  <2>1. k \in 1..(Len(s) - (m + 1) + 1) /\ (m + 1) + k - 1 = m + k /\ m + k \in 1..Len(s)
    BY <1>1, <1>4
  <2> QED BY <1>3, <2>1
<1> QED BY <1>3, <1>4, <1>5

LEMMA HeadOf ==
  ASSUME NEW s \in Seq(Batch), NEW m \in Nat, m <= Len(s), NEW d, d = SubSeq(s, 1, m)
  PROVE  d \in Seq(Batch) /\ Len(d) = m /\ \A i \in 1..m : d[i] = s[i]
<1>1. \A i \in 1..m : s[i] \in Batch
  OBVIOUS
<1>2. d \in Seq(Batch) /\ Len(d) = (IF 1 <= m THEN m - 1 + 1 ELSE 0)
      /\ \A i \in 1..(m - 1 + 1) : d[i] = s[1 + i - 1]
  BY <1>1, SubSeqProperties
<1> QED BY <1>2

SplitAt(s, m, d, r) ==
  /\ s \in Seq(Batch) /\ m \in Nat /\ m <= Len(s) /\ d \in Seq(Batch) /\ r \in Seq(Batch)
  /\ Len(d) = m /\ \A i \in 1..m : d[i] = s[i]
  /\ Len(r) = Len(s) - m /\ \A k \in 1..Len(r) : r[k] = s[m + k]

LEMMA SplitJoin ==
  ASSUME NEW s, NEW m, NEW d, NEW r, SplitAt(s, m, d, r)
  PROVE  s = d \o r
<1> USE DEF SplitAt
<1> PICK u : u = d \o r
  OBVIOUS
<1>3. u \in Seq(Batch) /\ Len(u) = Len(d) + Len(r)
      /\ \A i \in 1..(Len(d) + Len(r)) : u[i] = IF i <= Len(d) THEN d[i] ELSE r[i - Len(d)]
  BY ConcatProperties
<1>4. Len(s) \in Nat /\ Len(u) = Len(s)
  BY <1>3
<1>5. ASSUME NEW i \in 1..Len(s) PROVE s[i] = u[i]
  <2>1. CASE i <= m
    BY <1>3, <1>4, <2>1
  <2>2. CASE ~(i <= m)
    <3>1. i - m \in 1..Len(r) /\ m + (i - m) = i
      BY <1>4, <2>2
    <3>2. u[i] = r[i - m]
      BY <1>3, <1>4, <2>2
    <3> QED BY <3>1, <3>2
  <2> QED BY <2>1, <2>2
<1> QED BY <1>3, <1>4, <1>5, SeqEqual

LEMMA ListIs ==
  ASSUME NEW m \in Nat, NEW f, \A i \in 1..m : f[i].rows \in RowSeq
  PROVE  [i \in 1..m |-> f[i].rows] \in Seq(RowSeq)
OBVIOUS

LEMMA RestIs ==
  ASSUME RawShape, NEW r, r = SubSeq(retry, flush.sent + 1, Len(retry))
  PROVE  /\ r \in Seq(Batch) /\ Len(r) = Len(retry) - flush.sent
         /\ \A k \in 1..Len(r) : r[k] = retry[flush.sent + k] /\ flush.sent + k \in 1..Len(retry)
<1> PICK m : m = flush.sent
  OBVIOUS
<1>1. retry \in Seq(Batch) /\ m \in Nat /\ m <= Len(retry) /\ r = SubSeq(retry, m + 1, Len(retry))
  BY DEF RawShape
<1>2. /\ r \in Seq(Batch) /\ Len(r) = Len(retry) - m
      /\ \A k \in 1..Len(r) : r[k] = retry[m + k] /\ m + k \in 1..Len(retry)
  BY <1>1, RestOf, Zenon
<1> QED BY <1>2, Zenon

LEMMA SettleFits ==
  ASSUME RawFits, Settle
  PROVE  RawFits'
<1> USE RawAssumption DEF RawFits
<1> PICK r : r = SubSeq(retry, flush.sent + 1, Len(retry))
  OBVIOUS
<1> PICK t : t = [i \in 1..flush.sent |-> retry[i].rows]
  OBVIOUS
<1>1. /\ retry' = r /\ queued' = queued - Len(FlattenSeq(t))
      /\ flush.pc \in {"settle", "send"}
      /\ flush' = [RawIdle EXCEPT !.pc = IF ctx = "final" THEN "ended" ELSE "wait"]
      /\ UNCHANGED <<arriving, pending, seq, flows, rollup, tokens>>
  BY DEF Settle, storeVars
<1>2. /\ r \in Seq(Batch) /\ Len(r) = Len(retry) - flush.sent
      /\ \A k \in 1..Len(r) : r[k] = retry[flush.sent + k] /\ flush.sent + k \in 1..Len(retry)
  BY RestIs
<1>3. flush'.pc \in {"wait", "ended"} /\ flush'.sent = 0 /\ DOMAIN flush' = {"pc", "todo", "sent"}
  BY <1>1 DEF RawIdle
<1>4. queued' \in Int
  <2>1. t \in Seq(RowSeq)
    <3>1. flush.sent \in Nat /\ \A i \in 1..flush.sent : i \in 1..Len(retry)
      <4>1. flush.sent \in Nat /\ flush.sent <= Len(retry) /\ Len(retry) \in Nat
        BY DEF RawShape
      <4> QED BY <4>1
    <3>2. \A i \in 1..flush.sent : retry[i].rows \in Seq(RawRow)
      BY <3>1, BatchRowsTyped
    <3>3. \A i \in 1..flush.sent : retry[i].rows \in RowSeq
      BY <3>2 DEF RowSeq
    <3> QED BY <3>1, <3>3, ListIs, Zenon
  <2>2. FlattenSeq(t) \in Seq(RawRow)
    BY <2>1, FlattenTyped DEF RowSeq
  <2>3. PICK f : f = FlattenSeq(t)
    OBVIOUS
  <2>4. Len(f) \in Nat
    BY <2>2, <2>3
  <2> QED BY <1>1, <2>3, <2>4 DEF RawShape
<1>5. RawShape'
  <2>1. 0 <= Len(r) /\ 0 \in Nat
    BY <1>2
  <2> QED BY <1>1, <1>2, <1>3, <1>4, <2>1 DEF RawShape
<1>6. QueueFits'
  <2>1. ASSUME NEW k \in 1..Len(r), NEW l \in 1..Len(r), k # l PROVE Apart(r[k].rows, r[l].rows)
    <3>1. flush.sent + k # flush.sent + l
      BY <2>1 DEF RawShape
    <3> QED BY <1>2, <3>1 DEF QueueFits
  <2>2. ASSUME NEW k \in 1..Len(r)
        PROVE  Distinct(r[k].rows) /\ Apart(pending, r[k].rows) /\ Landed(r[k].rows)
    BY <1>2 DEF QueueFits
  <2> QED BY <1>1, <2>1, <2>2 DEF QueueFits, Landed
<1>7. ASSUME NEW k \in 1..Len(r) PROVE Unsent(k)'
  <2>1. flush.sent + k > flush.sent /\ (flush.sent + k = flush.sent + 1 => k = 0 + 1)
    BY DEF RawShape
  <2>2. Unsent(flush.sent + k)
    BY <1>1, <1>2, <2>1 DEF SendFits
  <2> QED BY <1>1, <1>2, <1>3, <2>1, <2>2 DEF Unsent, LastToken
<1>8. SendFits'
  BY <1>1, <1>3, <1>7 DEF SendFits
<1>9. StoreFits'
  BY <1>1 DEF StoreFits
<1> QED BY <1>5, <1>6, <1>8, <1>9

LEMMA RestFits ==
  ASSUME RawFits, InsertFails \/ EnsureSchema \/ Cancel \/ Exit \/ UNCHANGED rawVars
  PROVE  RawFits'
<1> USE RawAssumption DEF RawFits
<1>1. UNCHANGED <<arriving, pending, retry, queued, seq, flows, rollup, tokens>>
  BY DEF InsertFails, EnsureSchema, Cancel, Exit, rawVars, queueVars, storeVars
<1>2. QueueFits' /\ StoreFits'
  BY <1>1 DEF QueueFits, StoreFits, Landed
<1>3. CASE UNCHANGED flush
  BY <1>1, <1>2, <1>3 DEF RawShape, SendFits, Unsent, LastToken
<1>4. CASE InsertFails
  <2>1. flush'.pc = "settle" /\ flush'.sent = flush.sent /\ DOMAIN flush' = {"pc", "todo", "sent"} /\ flush.pc = "send"
    BY <1>4 DEF RawShape, InsertFails
  <2>2. RawShape' /\ SendFits'
    BY <1>1, <2>1 DEF RawShape, SendFits, Unsent, LastToken
  <2> QED BY <1>2, <2>2
<1>5. CASE Exit
  <2>1. flush'.pc = "ended" /\ flush'.sent = 0 /\ DOMAIN flush' = {"pc", "todo", "sent"}
    BY <1>5 DEF Exit, RawIdle
  <2>2. 0 \in Nat /\ 0 <= Len(retry)
    BY DEF RawShape
  <2>3. RawShape' /\ SendFits'
    BY <1>1, <2>1, <2>2 DEF RawShape, SendFits
  <2> QED BY <1>2, <2>3
<1> QED BY <1>3, <1>4, <1>5 DEF EnsureSchema, Cancel, rawVars

LEMMA InitFits == RawInit => RawFits
<1> SUFFICES ASSUME RawInit PROVE RawFits
  OBVIOUS
<1>1. /\ arriving = RawPackets /\ pending = <<>> /\ retry = <<>> /\ queued = 0 /\ seq = 0
      /\ flows = <<>> /\ rollup = <<>> /\ tokens = <<>>
      /\ flush.pc = "wait" /\ flush.sent = 0 /\ DOMAIN flush = {"pc", "todo", "sent"}
  BY DEF RawInit, RawIdle
<1>2. 1..Len(<<>>) = {} /\ Len(<<>>) = 0
  OBVIOUS
<1>3. RawShape
  BY <1>1, <1>2 DEF RawShape
<1>4. QueueFits /\ StoreFits /\ SendFits
  BY <1>1, <1>2, Zenon DEF QueueFits, StoreFits, SendFits, Distinct, Apart, Landed
<1> QED BY <1>3, <1>4 DEF RawFits

\* A row is stored at most once in either table for every number of
\* packets, batch size, queue bound and deduplication window, whatever
\* answers are lost (Writer.flush, the token of a batch).
THEOREM RowsStoredOnce == RawSpec => []StoredOnce
<1>1. RawInit => RawFits
  BY InitFits
<1>2. RawFits /\ [RawNext]_rawVars => RawFits'
  BY AddFits, FormFits, InsertFits, SettleFits, RestFits DEF RawNext
<1>3. RawFits => StoredOnce
  <2> SUFFICES ASSUME RawFits, NEW x \in Accepted PROVE Times(flows, x) <= 1 /\ Times(rollup, x) <= 1
    BY DEF StoredOnce
  <2> QED BY OnceEach DEF RawFits, RawShape, StoreFits
<1> QED BY <1>1, <1>2, <1>3, PTL DEF RawSpec

\* Number of rows in a list of batches.
Size(r) == Len(FlattenSeq(RowsIn(r)))

LEMMA SizeIsNat ==
  ASSUME NEW r \in Seq(Batch)
  PROVE  FlattenSeq(RowsIn(r)) \in Seq(RawRow) /\ Size(r) \in Nat
<1>1. RowsIn(r) \in Seq(RowSeq)
  BY RowsInTyped
<1>2. FlattenSeq(RowsIn(r)) \in Seq(RawRow)
  BY <1>1, FlattenTyped DEF RowSeq
<1>3. \A f \in Seq(RawRow) : Len(f) \in Nat
  OBVIOUS
<1> QED BY <1>2, <1>3, Zenon DEF Size

JoinOf(z, x, y) ==
  /\ z \in Seq(RowSeq) /\ Len(z) = Len(x) + Len(y)
  /\ \A i \in 1..(Len(x) + Len(y)) : z[i] = IF i <= Len(x) THEN x[i] ELSE y[i - Len(x)]

LEMMA JoinIs ==
  ASSUME NEW x \in Seq(RowSeq), NEW y \in Seq(RowSeq)
  PROVE  JoinOf(x \o y, x, y)
BY ConcatProperties DEF JoinOf

LEMMA RowsInJoin ==
  ASSUME NEW r \in Seq(Batch), NEW t \in Seq(Batch)
  PROVE  RowsIn(r \o t) = RowsIn(r) \o RowsIn(t)
<1> PICK u : u = r \o t
  OBVIOUS
<1>1. /\ u \in Seq(Batch) /\ Len(u) = Len(r) + Len(t) /\ Len(r) \in Nat /\ Len(t) \in Nat
      /\ \A i \in 1..(Len(r) + Len(t)) : u[i] = IF i <= Len(r) THEN r[i] ELSE t[i - Len(r)]
  BY ConcatProperties
<1> PICK a, b, c : a = RowsIn(r) /\ b = RowsIn(t) /\ c = RowsIn(u)
  OBVIOUS
<1>2. a \in Seq(RowSeq) /\ Len(a) = Len(r) /\ \A i \in 1..Len(r) : a[i] = r[i].rows
  BY RowsInTyped
<1>3. b \in Seq(RowSeq) /\ Len(b) = Len(t) /\ \A i \in 1..Len(t) : b[i] = t[i].rows
  BY RowsInTyped
<1>4. c \in Seq(RowSeq) /\ Len(c) = Len(u) /\ \A i \in 1..Len(u) : c[i] = u[i].rows
  BY <1>1, RowsInTyped
<1> PICK d : d = a \o b
  OBVIOUS
<1>5. JoinOf(d, a, b)
  BY <1>2, <1>3, JoinIs, Zenon
<1>6. ASSUME NEW i \in 1..Len(c) PROVE c[i] = d[i]
  <2>0. i \in 1..Len(u) /\ i \in 1..(Len(r) + Len(t)) /\ i \in 1..(Len(a) + Len(b)) /\ c[i] = u[i].rows
    BY <1>1, <1>2, <1>3, <1>4
  <2>1. CASE i <= Len(r)
    <3>1. i \in 1..Len(r) /\ u[i] = r[i] /\ d[i] = a[i]
      BY <1>1, <1>2, <1>5, <2>0, <2>1 DEF JoinOf
    <3> QED BY <1>2, <2>0, <3>1
  <2>2. CASE ~(i <= Len(r))
    <3>1. i - Len(r) \in 1..Len(t) /\ u[i] = t[i - Len(r)] /\ d[i] = b[i - Len(r)]
      BY <1>1, <1>2, <1>3, <1>5, <2>0, <2>2 DEF JoinOf
    <3> QED BY <1>3, <2>0, <3>1
  <2> QED BY <2>1, <2>2
<1>7. Len(c) = Len(d)
  BY <1>1, <1>2, <1>3, <1>4, <1>5 DEF JoinOf
<1>8. c = d
  BY <1>4, <1>5, <1>6, <1>7, SeqEqual, ZenonT(40) DEF JoinOf
<1> QED BY <1>8

LEMMA SizeJoin ==
  ASSUME NEW r \in Seq(Batch), NEW t \in Seq(Batch)
  PROVE  Size(r \o t) = Size(r) + Size(t)
<1>1. RowsIn(r \o t) = RowsIn(r) \o RowsIn(t)
  BY RowsInJoin
<1>2. RowsIn(r) \in Seq(RowSeq) /\ RowsIn(t) \in Seq(RowSeq)
  BY RowsInTyped
<1>3. FlattenSeq(RowsIn(r) \o RowsIn(t)) = FlattenSeq(RowsIn(r)) \o FlattenSeq(RowsIn(t))
  BY <1>2, FlattenJoin
<1>4. FlattenSeq(RowsIn(r)) \in Seq(RawRow) /\ FlattenSeq(RowsIn(t)) \in Seq(RawRow)
  BY SizeIsNat
<1>5. \A f, g \in Seq(RawRow) : Len(f \o g) = Len(f) + Len(g)
  OBVIOUS
<1> QED BY <1>1, <1>3, <1>4, <1>5, Zenon DEF Size

LEMMA SizeCut ==
  ASSUME pending \in Seq(RawRow), NEW bs \in Seq(Batch), Covering(bs)
  PROVE  Size(bs) = Len(pending)
<1> USE RawAssumption
<1> PICK s, n : s = RowsIn(bs) /\ n = Len(bs)
  OBVIOUS
<1>1. s \in Seq(RowSeq) /\ Len(s) = n /\ n \in Nat /\ \A i \in 1..n : s[i] = bs[i].rows /\ s[i] \in Seq(RawRow)
  BY RowsInTyped
<1>2. PICK c : Chain(c, s)
  BY <1>1, ChainExists
<1>3. FlattenSeq(s) = c[n]
  BY <1>1, <1>2, FlattenIs
<1> DEFINE A == {i \in 0..n : Len(c[i]) = End(i)}
<1>4. 0 \in A
  <2>1. c[0] = <<>> /\ 0 \in 0..n
    BY <1>1, <1>2 DEF Chain
  <2>2. End(0) = 0
    BY DEF End, UpTo
  <2>3. Len(<<>>) = 0
    OBVIOUS
  <2> QED BY <2>1, <2>2, <2>3, Zenon
<1>5. ASSUME NEW i \in 0..(n - 1), i \in A PROVE i + 1 \in A
  <2>1. i + 1 \in 1..n /\ i + 1 \in 0..n /\ i \in 0..n /\ (i + 1) - 1 = i
    BY <1>1
  <2>2. c[i + 1] = c[i] \o s[i + 1]
    <3>1. c[i + 1] = c[(i + 1) - 1] \o s[i + 1]
      BY <1>1, <1>2, <2>1 DEF Chain
    <3> QED BY <2>1, <3>1
  <2>3. c[i] \in Seq(RawRow) /\ s[i + 1] \in Seq(RawRow)
    BY <1>1, <1>2, <2>1, ChainTyped
  <2>4. Len(c[i + 1]) = Len(c[i]) + Len(s[i + 1])
    <3>1. \A f, g \in Seq(RawRow) : Len(f \o g) = Len(f) + Len(g)
      OBVIOUS
    <3> QED BY <2>2, <2>3, <3>1, Zenon
  <2>5. Len(s[i + 1]) = End(i + 1) - End(i)
    <3>1. Len(bs[i + 1].rows) = End(i + 1) - End((i + 1) - 1)
      BY <2>1 DEF Covering
    <3> QED BY <1>1, <2>1, <3>1, Zenon
  <2>6. Len(c[i]) = End(i)
    BY <1>5
  <2>7. End(i) \in Int /\ End(i + 1) \in Int
    <3>1. Len(pending) \in Int /\ i * BatchRows \in Int /\ (i + 1) * BatchRows \in Int
      BY <2>1
    <3> QED BY <3>1 DEF End, UpTo
  <2>8. Len(c[i + 1]) = End(i + 1)
    BY <2>4, <2>5, <2>6, <2>7
  <2> QED BY <2>1, <2>8, Zenon
<1>6. n \in A
  <2> HIDE DEF A
  <2>1. 0..n \subseteq A
    BY <1>1, <1>4, <1>5, UpToAll
  <2> QED BY <1>1, <2>1
<1>7. Len(c[n]) = End(n) /\ End(n) = Len(pending)
  BY <1>6 DEF Covering
<1> QED BY <1>3, <1>7, Zenon DEF Size

\* The counter is what is held.
CountFits == queued = Len(pending) + Size(retry) /\ queued <= MaxQueued

\* A batch whose token ClickHouse knows, or that was answered, is stored.
SeenToken(t, ts) == \E i \in 1..Len(ts) : ts[i] = t
InStore(s, f) == \A i \in 1..Len(s) : Has(f, s[i])

TokensAre(r, q, ts, f, m) ==
  /\ \A i \in 1..Len(ts) : ts[i] <= q
  /\ \A k \in 1..Len(r) :
       r[k].token <= q /\ (SeenToken(r[k].token, ts) \/ k <= m => InStore(r[k].rows, f))
  /\ \A k, l \in 1..Len(r) : r[k].token = r[l].token => k = l

TokensFit == TokensAre(retry, seq, tokens, flows, flush.sent)

DropFits ==
  /\ dropped \in Seq(RawRow) /\ Landed(dropped) /\ Apart(dropped, pending) /\ Apart(dropped, flows)
  /\ \A k \in 1..Len(retry) : Apart(dropped, retry[k].rows)

Placed(x) ==
  \/ Has(dropped, x) \/ Has(pending, x) \/ Has(flows, x)
  \/ \E k \in 1..Len(retry) : Has(retry[k].rows, x)

PlaceFits == \A p \in RawPackets \ arriving : \A i \in 1..RowsOf[p] : Placed(<<p, i>>)

RowsFit == CountFits /\ TokensFit /\ DropFits /\ PlaceFits

LEMMA RowsTyped ==
  ASSUME NEW p \in RawPackets
  PROVE  /\ Rows(p) \in Seq(RawRow) /\ Len(Rows(p)) = RowsOf[p]
         /\ \A i \in 1..RowsOf[p] : Rows(p)[i] = <<p, i>>
<1>1. RowsOf[p] \in Nat
  BY RawAssumption
<1>2. Rows(p) = [i \in 1..RowsOf[p] |-> <<p, i>>]
  BY DEF Rows
<1>3. \A i \in 1..RowsOf[p] : <<p, i>> \in RawRow
  BY <1>1 DEF RawRow
<1> QED BY <1>1, <1>2, <1>3

LEMMA Remaining ==
  ASSUME NEW n \in Nat, NEW q \in Nat, n <= q
  PROVE  Span(n, q) = q - n
BY DEF Span

LEMMA AddRows ==
  ASSUME RawFits, RowsFit, NEW p \in RawPackets, Add(p)
  PROVE  RowsFit'
<1> USE RawAssumption DEF RawFits, RowsFit
<1> PICK n : n = IF Room < RowsOf[p] THEN Room ELSE RowsOf[p]
  OBVIOUS
<1> PICK all : all = Rows(p)
  OBVIOUS
<1> PICK new, out : new = SubSeq(all, 1, n) /\ out = SubSeq(all, n + 1, RowsOf[p])
  OBVIOUS
<1>1. /\ p \in arriving /\ arriving' = arriving \ {p} /\ pending' = pending \o new
      /\ queued' = queued + n /\ dropped' = dropped \o out
      /\ UNCHANGED <<retry, seq, flush, flows, rollup, tokens>>
  BY DEF Add, storeVars
<1>2. RowsOf[p] \in Nat /\ n \in Nat /\ n <= RowsOf[p] /\ queued + n <= MaxQueued /\ queued \in Int
  <2>1. RowsOf[p] \in Nat /\ queued \in Int /\ queued <= MaxQueued /\ MaxQueued \in Nat
    BY DEF RawShape, CountFits
  <2>2. Room = MaxQueued - queued
    BY <2>1 DEF Room
  <2> QED BY <2>1, <2>2
<1>3. /\ all \in Seq(RawRow) /\ Len(all) = RowsOf[p]
      /\ \A i \in 1..Len(all) : all[i] = <<p, i>> /\ PacketOf(all[i]) = p
  <2>1. all \in Seq(RawRow) /\ Len(all) = RowsOf[p] /\ \A i \in 1..RowsOf[p] : all[i] = <<p, i>>
    BY RowsTyped, Zenon
  <2> QED BY <2>1, PacketIs, Zenon
<1>4. PartOf(new, all, 1) /\ Len(new) = n /\ new \in Seq(RawRow)
  <2>1. /\ PartOf(SubSeq(all, 1, n), all, 1)
        /\ Len(SubSeq(all, 1, n)) = IF 1 <= n THEN n - 1 + 1 ELSE 0
    BY <1>2, <1>3, Part
  <2> QED BY <1>2, <2>1 DEF PartOf
<1>5. PartOf(out, all, n + 1) /\ Len(out) = RowsOf[p] - n /\ out \in Seq(RawRow)
  <2>0. n + 1 \in Nat \ {0}
    BY <1>2
  <2>1. /\ PartOf(SubSeq(all, n + 1, RowsOf[p]), all, n + 1)
        /\ Len(SubSeq(all, n + 1, RowsOf[p])) = IF n + 1 <= RowsOf[p] THEN RowsOf[p] - (n + 1) + 1 ELSE 0
    BY <1>2, <1>3, <2>0, Part
  <2>2. PartOf(out, all, n + 1) /\ out \in Seq(RawRow)
    BY <2>1 DEF PartOf
  <2>3. PICK l, q : l = Len(out) /\ q = RowsOf[p]
    OBVIOUS
  <2>4. l = Span(n, q) /\ q \in Nat /\ n <= q
    BY <1>2, <2>1, <2>3 DEF Span
  <2>5. l = q - n
    BY <1>2, <2>4, Remaining, Zenon
  <2> QED BY <2>2, <2>3, <2>5, Zenon
<1>6. (\A i \in 1..Len(new) : PacketOf(new[i]) = p) /\ (\A i \in 1..Len(out) : PacketOf(out[i]) = p) /\ Apart(out, new)
  <2>1. ASSUME NEW i \in 1..Len(new) PROVE new[i] = all[i] /\ i \in 1..Len(all) /\ i <= n
    <3>1. new[i] = all[1 + i - 1] /\ 1 + i - 1 \in 1..Len(all)
      BY <1>4 DEF PartOf
    <3>2. 1 + i - 1 = i /\ i <= n
      BY <1>2, <1>4
    <3> QED BY <3>1, <3>2
  <2>2. ASSUME NEW j \in 1..Len(out) PROVE out[j] = all[n + j] /\ n + j \in 1..Len(all) /\ n + j > n
    <3>1. out[j] = all[n + 1 + j - 1] /\ n + 1 + j - 1 \in 1..Len(all)
      BY <1>5 DEF PartOf
    <3>2. n + 1 + j - 1 = n + j /\ n + j > n
      BY <1>2, <1>5
    <3> QED BY <3>1, <3>2
  <2>3. ASSUME NEW i \in 1..Len(new), NEW j \in 1..Len(out), out[j] = new[i] PROVE FALSE
    <3>1. <<p, i>> = <<p, n + j>>
      <4>1. new[i] = <<p, i>>
        BY <1>3, <2>1
      <4>2. out[j] = <<p, n + j>>
        BY <1>3, <2>2
      <4> QED BY <2>3, <4>1, <4>2
    <3>2. i = n + j
      BY <3>1
    <3> QED BY <1>2, <2>1, <2>2, <3>2, SMTT(30)
  <2>4. \A i \in 1..Len(new) : PacketOf(new[i]) = p
    BY <1>3, <2>1, Zenon
  <2>5. ASSUME NEW i \in 1..Len(out) PROVE PacketOf(out[i]) = p
    <3>1. PICK j \in 1..Len(all) : out[i] = all[j]
      BY <2>2
    <3> QED BY <1>3, <3>1, Zenon
  <2> QED BY <2>3, <2>4, <2>5, ZenonT(40) DEF Apart
<1>7. ASSUME NEW s, Landed(s) PROVE Apart(s, new) /\ Apart(s, out) /\ Apart(out, s) /\ Apart(new, s)
  <2>1. \A i \in 1..Len(s) : PacketOf(s[i]) # p
    BY <1>1, <1>7 DEF Landed
  <2>2. (\A i \in 1..Len(new) : PacketOf(new[i]) = p) /\ \A i \in 1..Len(out) : PacketOf(out[i]) = p
    BY <1>6
  <2>3. ASSUME NEW t, \A i \in 1..Len(t) : PacketOf(t[i]) = p PROVE Apart(s, t)
    BY <2>1, <2>3, Zenon DEF Apart
  <2>4. Apart(s, new) /\ Apart(s, out)
    BY <2>2, <2>3, Zenon
  <2> QED BY <2>4, ApartSym
<1>8. CountFits'
  <2>1. Len(pending') = Len(pending) + n /\ Len(pending) \in Nat
    BY <1>1, <1>4, SMTT(30) DEF RawShape
  <2>2. Size(retry)' = Size(retry) /\ Size(retry) \in Nat
    BY <1>1, SizeIsNat DEF RawShape, Size, RowsIn
  <2> QED BY <1>1, <1>2, <2>1, <2>2 DEF CountFits
<1>9. TokensFit'
  BY <1>1 DEF TokensFit, TokensAre, SeenToken, InStore
<1>10. DropFits'
  <2>0. dropped \in Seq(RawRow) /\ Landed(dropped) /\ Apart(dropped, pending) /\ Apart(dropped, flows) /\ pending \in Seq(RawRow)
    BY DEF DropFits, RawShape
  <2>1. dropped' \in Seq(RawRow)
    BY <1>1, <1>5, <2>0
  <2>2. ASSUME NEW i \in 1..Len(dropped') PROVE PacketOf(dropped'[i]) \notin arriving'
    <3>1. Has(dropped, dropped'[i]) \/ Has(out, dropped'[i])
      BY <1>1, <1>5, <2>0, HasJoined
    <3>2. CASE Has(dropped, dropped'[i])
      BY <1>1, <2>0, <3>2 DEF Has, Landed
    <3>3. CASE Has(out, dropped'[i])
      <4>1. PacketOf(dropped'[i]) = p
        BY <1>6, <3>3, ZenonT(40) DEF Has
      <4> QED BY <1>1, <4>1
    <3> QED BY <3>1, <3>2, <3>3
  <2>3. ASSUME NEW s \in Seq(RawRow), Landed(s), Apart(dropped, s) PROVE Apart(dropped', s)
    <3>1. Apart(s, dropped) /\ Apart(s, out)
      BY <1>7, <2>3, ApartSym
    <3>2. Apart(s, dropped \o out)
      BY <1>5, <2>0, <2>3, <3>1, ApartJoined
    <3> QED BY <1>1, <3>2, ApartSym
  <2>4. Apart(dropped', pending')
    <3>1. Apart(dropped', pending)
      BY <2>0, <2>3 DEF QueueFits
    <3>2. Apart(dropped', new)
      <4>1. Apart(new, dropped) /\ Apart(new, out)
        BY <1>6, <1>7, <2>0, ApartSym
      <4>2. Apart(new, dropped \o out)
        BY <1>4, <1>5, <2>0, <4>1, ApartJoined
      <4> QED BY <1>1, <4>2, ApartSym
    <3> QED BY <1>1, <1>4, <2>0, <2>1, <3>1, <3>2, ApartJoined
  <2>5. Apart(dropped', flows)
    BY <2>0, <2>3 DEF QueueFits, RawShape
  <2>6. ASSUME NEW k \in 1..Len(retry) PROVE Apart(dropped', retry[k].rows)
    BY <2>3, BatchRowsTyped DEF QueueFits, DropFits
  <2> QED BY <1>1, <2>1, <2>2, <2>4, <2>5, <2>6 DEF DropFits, Landed
<1>11. PlaceFits'
  <2>1. \A x : Has(pending, x) \/ Has(new, x) => Has(pending', x)
    BY <1>1, <1>4, JoinedHas DEF RawShape
  <2>2. \A x : Has(dropped, x) \/ Has(out, x) => Has(dropped', x)
    BY <1>1, <1>5, JoinedHas DEF DropFits
  <2>3. ASSUME NEW q \in RawPackets \ arriving, NEW i \in 1..RowsOf[q] PROVE Placed(<<q, i>>)'
    <3>1. Placed(<<q, i>>)
      BY DEF PlaceFits
    <3> QED BY <1>1, <2>1, <2>2, <3>1, Zenon DEF Placed
  <2>4. ASSUME NEW i \in 1..RowsOf[p] PROVE Placed(<<p, i>>)'
    <3>1. CASE i <= n
      <4>1. i \in 1..Len(new) /\ 1 + i - 1 = i /\ i \in 1..Len(all)
        BY <1>2, <1>3, <1>4, <3>1
      <4>2. new[i] = <<p, i>>
        BY <1>3, <1>4, <4>1 DEF PartOf
      <4> QED BY <2>1, <4>1, <4>2 DEF Placed, Has
    <3>2. CASE ~(i <= n)
      <4>1. i - n \in 1..Len(out) /\ n + 1 + (i - n) - 1 = i /\ i \in 1..Len(all)
        BY <1>2, <1>3, <1>5, <3>2
      <4>2. out[i - n] = <<p, i>>
        BY <1>3, <1>5, <4>1 DEF PartOf
      <4>3. Has(out, <<p, i>>)
        BY <4>1, <4>2 DEF Has
      <4> QED BY <2>2, <4>3 DEF Placed
    <3> QED BY <3>1, <3>2
  <2>5. ASSUME NEW q \in RawPackets \ arriving' PROVE q \in RawPackets \ arriving \/ q = p
    BY <1>1
  <2> QED BY <2>3, <2>4, <2>5 DEF PlaceFits
<1> QED BY <1>8, <1>9, <1>10, <1>11

LEMMA FormRows ==
  ASSUME RawFits, RowsFit, FormBatches
  PROVE  RowsFit'
<1> USE RawAssumption DEF RawFits, RowsFit
<1> PICK bs : bs = Batches
  OBVIOUS
<1>1. /\ flush.pc = "wait" /\ retry' = retry \o bs /\ seq' = seq + Len(bs) /\ pending' = <<>>
      /\ flush' = [pc |-> "send", todo |-> retry', sent |-> 0]
      /\ UNCHANGED <<arriving, queued, flows, rollup, tokens, dropped>>
  BY DEF FormBatches, storeVars
<1>2. Cutting(bs) /\ Covering(bs)
  BY BatchesCut DEF RawShape, QueueFits
<1>3. bs \in Seq(Batch) /\ retry \in Seq(Batch) /\ Len(retry) \in Nat /\ Len(bs) \in Nat /\ seq \in Nat
  BY <1>2 DEF Cutting, RawShape
<1>4. /\ Len(retry') = Len(retry) + Len(bs)
      /\ \A k \in 1..(Len(retry) + Len(bs)) :
           retry'[k] = IF k <= Len(retry) THEN retry[k] ELSE bs[k - Len(retry)]
  BY <1>1, <1>3, ConcatProperties
<1>5. ASSUME NEW k \in 1..Len(retry'), k <= Len(retry)
      PROVE  k \in 1..Len(retry) /\ retry'[k] = retry[k]
  BY <1>3, <1>4, <1>5
<1>6. ASSUME NEW k \in 1..Len(retry'), ~(k <= Len(retry))
      PROVE  k - Len(retry) \in 1..Len(bs) /\ retry'[k] = bs[k - Len(retry)]
  BY <1>3, <1>4, <1>6
<1>7. CountFits'
  <2>1. Size(retry') = Size(retry) + Size(bs)
    BY <1>1, <1>3, SizeJoin
  <2>2. Size(bs) = Len(pending)
    BY <1>2, <1>3, SizeCut DEF RawShape
  <2>3. Len(pending') = 0 /\ Size(retry) \in Nat /\ Len(pending) \in Nat
    BY <1>1, <1>3, SizeIsNat DEF RawShape
  <2> QED BY <1>1, <2>1, <2>2, <2>3 DEF CountFits
<1>8. ASSUME NEW l \in 1..Len(bs) PROVE bs[l].token = seq + l /\ seq + l > seq /\ seq + l <= seq' /\ ~SeenToken(bs[l].token, tokens)
  <2>1. bs[l].token = seq + l
    BY <1>2 DEF Covering
  <2>2. seq + l > seq /\ seq + l <= seq'
    BY <1>1, <1>3
  <2>3. \A i \in 1..Len(tokens) : tokens[i] <= seq /\ tokens[i] \in Nat
    BY DEF TokensFit, TokensAre, RawShape
  <2> QED BY <1>3, <2>1, <2>2, <2>3 DEF SeenToken
<1>9. TokensFit'
  <2>1. seq <= seq' /\ seq' \in Nat
    BY <1>1, <1>3
  <2>2. \A i \in 1..Len(tokens) : tokens[i] <= seq'
    <3>1. \A i \in 1..Len(tokens) : tokens[i] <= seq /\ tokens[i] \in Nat
      BY DEF TokensFit, TokensAre, RawShape
    <3> QED BY <1>3, <2>1, <3>1
  <2>3. ASSUME NEW k \in 1..Len(retry')
        PROVE  /\ retry'[k].token <= seq'
               /\ SeenToken(retry'[k].token, tokens) \/ k <= flush'.sent => InStore(retry'[k].rows, flows)
    <3>1. flush'.sent = 0 /\ ~(k <= flush'.sent)
      BY <1>1
    <3>2. CASE k <= Len(retry)
      <4>1. k \in 1..Len(retry) /\ retry'[k] = retry[k] /\ retry[k].token \in Nat /\ retry[k].token <= seq
        BY <1>5, <3>2, BatchRowsTyped DEF TokensFit, TokensAre
      <4>2. retry[k].token <= seq'
        BY <1>3, <2>1, <4>1
      <4> QED BY <3>1, <4>1, <4>2 DEF TokensFit, TokensAre
    <3>3. CASE ~(k <= Len(retry))
      BY <1>6, <1>8, <3>1, <3>3
    <3> QED BY <3>2, <3>3
  <2>4. ASSUME NEW k \in 1..Len(retry'), NEW l \in 1..Len(retry'), retry'[k].token = retry'[l].token
        PROVE  k = l
    <3>1. ASSUME NEW i \in 1..Len(retry'), i <= Len(retry)
          PROVE  i \in 1..Len(retry) /\ retry'[i].token = retry[i].token /\ retry[i].token <= seq /\ retry[i].token \in Nat
      BY <1>5, <3>1, BatchRowsTyped DEF TokensFit, TokensAre
    <3>2. ASSUME NEW i \in 1..Len(retry'), ~(i <= Len(retry))
          PROVE  retry'[i].token = seq + (i - Len(retry)) /\ seq + (i - Len(retry)) > seq
      BY <1>6, <1>8, <3>2
    <3>3. CASE k <= Len(retry) /\ l <= Len(retry)
      BY <2>4, <3>1, <3>3 DEF TokensFit, TokensAre
    <3>4. CASE ~(k <= Len(retry)) /\ ~(l <= Len(retry))
      BY <1>3, <2>4, <3>2, <3>4
    <3>5. CASE k <= Len(retry) /\ ~(l <= Len(retry))
      <4>1. retry'[k].token <= seq /\ retry'[k].token \in Nat
        BY <3>1, <3>5
      <4>2. retry'[l].token > seq /\ retry'[l].token \in Int
        BY <1>3, <3>2, <3>5
      <4> QED BY <1>3, <2>4, <4>1, <4>2
    <3>6. CASE ~(k <= Len(retry)) /\ l <= Len(retry)
      <4>1. retry'[l].token <= seq /\ retry'[l].token \in Nat
        BY <3>1, <3>6
      <4>2. retry'[k].token > seq /\ retry'[k].token \in Int
        BY <1>3, <3>2, <3>6
      <4> QED BY <1>3, <2>4, <4>1, <4>2
    <3> QED BY <3>3, <3>4, <3>5, <3>6
  <2> QED BY <1>1, <2>2, <2>3, <2>4, Zenon DEF TokensFit, TokensAre
<1>10. DropFits'
  <2>1. Apart(dropped, pending')
    <3>1. 1..Len(pending') = {}
      BY <1>1
    <3> QED BY <3>1 DEF Apart
  <2>2. ASSUME NEW k \in 1..Len(retry') PROVE Apart(dropped, retry'[k].rows)
    <3>1. CASE k <= Len(retry)
      BY <1>5, <3>1 DEF DropFits
    <3>2. CASE ~(k <= Len(retry))
      <4>1. PICK l \in 1..Len(bs) : retry'[k] = bs[l]
        BY <1>6, <3>2
      <4> QED BY <1>2, <4>1 DEF DropFits, Cutting, Apart, Has
    <3> QED BY <3>1, <3>2
  <2> QED BY <1>1, <2>1, <2>2 DEF DropFits, Landed
<1>11. PlaceFits'
  <2>1. ASSUME NEW x, Placed(x) PROVE Placed(x)'
    <3>1. CASE Has(pending, x)
      <4>1. PICK i \in 1..Len(pending) : pending[i] = x
        BY <3>1 DEF Has
      <4>2. PICK l \in 1..Len(bs) : Has(bs[l].rows, x)
        BY <1>2, <4>1 DEF Covering
      <4>3. Len(retry) + l \in 1..Len(retry') /\ ~(Len(retry) + l <= Len(retry)) /\ (Len(retry) + l) - Len(retry) = l
        BY <1>3, <1>4
      <4>4. retry'[Len(retry) + l] = bs[l]
        BY <1>6, <4>3
      <4> QED BY <4>2, <4>3, <4>4 DEF Placed
    <3>2. ASSUME NEW k \in 1..Len(retry), Has(retry[k].rows, x) PROVE Placed(x)'
      <4>1. k \in 1..Len(retry') /\ k <= Len(retry)
        BY <1>3, <1>4
      <4>2. retry'[k] = retry[k]
        BY <1>5, <4>1
      <4> QED BY <3>2, <4>1, <4>2 DEF Placed
    <3> QED BY <1>1, <2>1, <3>1, <3>2 DEF Placed
  <2> QED BY <1>1, <2>1 DEF PlaceFits
<1> QED BY <1>7, <1>9, <1>10, <1>11

LEMMA InsertRows ==
  ASSUME RawFits, RowsFit, Insert
  PROVE  RowsFit'
<1> USE RawAssumption DEF RawFits, RowsFit
<1> PICK b : b = Head(flush.todo)
  OBVIOUS
<1> PICK n : n = flush.sent + 1
  OBVIOUS
<1>1. /\ flush.pc = "send" /\ flush.todo # <<>> /\ Applies(b)
      /\ UNCHANGED <<arriving, pending, retry, queued, seq, dropped>>
  BY DEF Insert, queueVars
<1>2. n \in 1..Len(retry) /\ b = retry[n] /\ flush.sent \in Nat
  <2>1. flush.todo \in Seq(Batch) /\ Len(flush.todo) = Len(retry) - flush.sent
        /\ \A i \in 1..Len(flush.todo) : flush.todo[i] = retry[flush.sent + i]
    BY <1>1 DEF SendFits
  <2>2. Len(flush.todo) # 0 /\ Len(flush.todo) \in Nat
    BY <1>1, <2>1, EmptySeq
  <2>3. 1 \in 1..Len(flush.todo) /\ b = flush.todo[1]
    BY <1>1, <2>1, <2>2
  <2>4. flush.sent \in Nat /\ Len(retry) \in Nat
    BY DEF RawShape
  <2> QED BY <2>1, <2>2, <2>3, <2>4
<1>3. b.rows \in Seq(RawRow) /\ b.token \in Nat
  BY <1>2, BatchRowsTyped
<1>4. flows \in Seq(RawRow) /\ tokens \in Seq(Nat)
  BY DEF RawShape
<1>5. DOMAIN tokens = 1..Len(tokens)
  BY <1>4
<1>6. /\ InStore(b.rows, flows') /\ \A x : Has(flows, x) => Has(flows', x)
      /\ \A x : Has(flows', x) => Has(flows, x) \/ Has(b.rows, x)
      /\ \A i \in 1..Len(tokens') : tokens'[i] = b.token \/ SeenToken(tokens'[i], tokens)
  <2>1. CASE SeenToken(b.token, tokens)
    <3>1. UNCHANGED <<flows, tokens>>
      BY <1>1, <1>5, <2>1 DEF Applies, storeVars, SeenToken
    <3>2. InStore(b.rows, flows)
      BY <1>2, <2>1 DEF TokensFit, TokensAre
    <3> QED BY <3>1, <3>2 DEF InStore, SeenToken
  <2>2. CASE ~SeenToken(b.token, tokens)
    <3>1. /\ flows' = flows \o b.rows
          /\ tokens' = IF Len(tokens) = Window THEN Append(Tail(tokens), b.token) ELSE Append(tokens, b.token)
      BY <1>1, <1>5, <2>2 DEF Applies, SeenToken
    <3>2. \A x : Has(flows, x) \/ Has(b.rows, x) => Has(flows', x)
      BY <1>3, <1>4, <3>1, JoinedHas
    <3>3. InStore(b.rows, flows')
      BY <3>2 DEF InStore, Has
    <3>4. ASSUME NEW x, Has(flows', x) PROVE Has(flows, x) \/ Has(b.rows, x)
      <4>1. PICK i \in 1..Len(flows') : flows'[i] = x
        BY <3>4 DEF Has
      <4> QED BY <1>3, <1>4, <3>1, <4>1, HasJoined
    <3>5. ASSUME NEW i \in 1..Len(tokens') PROVE tokens'[i] = b.token \/ SeenToken(tokens'[i], tokens)
      <4>1. CASE Len(tokens) = Window
        <5>1. PICK u : u = Tail(tokens)
          OBVIOUS
        <5>2. tokens # <<>> /\ tokens' = Append(u, b.token)
          BY <3>1, <4>1, <5>1
        <5>3. u \in Seq(Nat) /\ Len(u) = Len(tokens) - 1 /\ \A j \in 1..Len(u) : u[j] = tokens[j + 1]
          BY <1>4, <5>1, <5>2, HeadTailProperties
        <5>4. Len(tokens') = Len(u) + 1 /\ tokens'[Len(u) + 1] = b.token /\ \A j \in 1..Len(u) : tokens'[j] = u[j]
          BY <1>3, <5>2, <5>3, AppendProperties
        <5>5. CASE i = Len(u) + 1
          BY <5>4, <5>5
        <5>6. CASE i # Len(u) + 1
          <6>0. Len(u) \in Nat /\ Len(tokens) \in Nat
            BY <1>4, <5>3
          <6>1. i \in 1..Len(u)
            BY <5>4, <5>6, <6>0
          <6>2. i + 1 \in 1..Len(tokens)
            BY <5>3, <6>0, <6>1
          <6>3. tokens'[i] = tokens[i + 1]
            BY <5>3, <5>4, <6>1
          <6> QED BY <6>2, <6>3 DEF SeenToken
        <5> QED BY <5>5, <5>6
      <4>2. CASE Len(tokens) # Window
        <5>1. tokens' = Append(tokens, b.token) /\ Len(tokens) \in Nat
          BY <1>4, <3>1, <4>2
        <5>2. Len(tokens') = Len(tokens) + 1 /\ tokens'[Len(tokens) + 1] = b.token
              /\ \A j \in 1..Len(tokens) : tokens'[j] = tokens[j]
          BY <1>3, <1>4, <5>1, AppendProperties
        <5>3. CASE i = Len(tokens) + 1
          BY <5>2, <5>3
        <5>4. CASE i # Len(tokens) + 1
          <6>1. i \in 1..Len(tokens)
            BY <5>1, <5>2, <5>4
          <6> QED BY <5>2, <6>1 DEF SeenToken
        <5> QED BY <5>3, <5>4
      <4> QED BY <4>1, <4>2
    <3> QED BY <3>2, <3>3, <3>4, <3>5
  <2> QED BY <2>1, <2>2
<1>7. ASSUME NEW s, InStore(s, flows) PROVE InStore(s, flows')
  BY <1>6, <1>7 DEF InStore
<1>8. flush'.sent \in {flush.sent, n}
  <2>1. CASE flush' = [flush EXCEPT !.todo = Tail(flush.todo), !.sent = flush.sent + 1]
    BY <2>1 DEF RawShape
  <2>2. CASE flush' = [flush EXCEPT !.pc = "settle"]
    BY <2>2 DEF RawShape
  <2> QED BY <2>1, <2>2 DEF Insert
<1>9. TokensFit'
  <2>1. ASSUME NEW i \in 1..Len(tokens') PROVE tokens'[i] <= seq
    <3>1. b.token <= seq
      BY <1>2 DEF TokensFit, TokensAre
    <3> QED BY <1>6, <3>1 DEF SeenToken, TokensFit, TokensAre
  <2>2. ASSUME NEW k \in 1..Len(retry), \E i \in 1..Len(tokens') : tokens'[i] = retry[k].token
        PROVE  InStore(retry[k].rows, flows')
    <3>1. retry[k].token = b.token \/ SeenToken(retry[k].token, tokens)
      BY <1>6, <2>2
    <3>2. CASE retry[k].token = b.token
      <4>1. k = n
        BY <1>2, <3>2 DEF TokensFit, TokensAre
      <4> QED BY <1>2, <1>6, <4>1
    <3>3. CASE SeenToken(retry[k].token, tokens)
      BY <1>7, <3>3 DEF TokensFit, TokensAre
    <3> QED BY <3>1, <3>2, <3>3
  <2>3. ASSUME NEW k \in 1..Len(retry), k <= flush'.sent PROVE InStore(retry[k].rows, flows')
    <3>1. k <= flush.sent \/ k = n
      BY <1>2, <1>8, <2>3
    <3> QED BY <1>2, <1>6, <1>7, <3>1 DEF TokensFit, TokensAre
  <2>4. \A k \in 1..Len(retry) : retry[k].token <= seq
    BY DEF TokensFit, TokensAre
  <2>5. \A k, l \in 1..Len(retry) : retry[k].token = retry[l].token => k = l
    BY DEF TokensFit, TokensAre
  <2> QED BY <1>1, <2>1, <2>2, <2>3, <2>4, <2>5, Zenon DEF TokensFit, TokensAre, SeenToken
<1>10. DropFits'
  <2>1. ASSUME NEW i \in 1..Len(dropped), NEW j \in 1..Len(flows'), dropped[i] = flows'[j] PROVE FALSE
    <3>1. Has(flows', flows'[j])
      BY DEF Has
    <3>2. Has(flows, flows'[j]) \/ Has(b.rows, flows'[j])
      BY <1>6, <3>1
    <3>3. Apart(dropped, flows) /\ Apart(dropped, b.rows)
      BY <1>2 DEF DropFits
    <3> QED BY <2>1, <3>2, <3>3 DEF Has, Apart
  <2>2. Apart(dropped, flows')
    BY <2>1 DEF Apart
  <2> QED BY <1>1, <2>2 DEF DropFits, Landed
<1>11. PlaceFits'
  BY <1>1, <1>6, Zenon DEF PlaceFits, Placed
<1>12. CountFits'
  BY <1>1 DEF CountFits, Size, RowsIn
<1> QED BY <1>9, <1>10, <1>11, <1>12

LEMMA SettleRows ==
  ASSUME RawFits, RowsFit, Settle
  PROVE  RowsFit'
<1> USE RawAssumption DEF RawFits, RowsFit
<1> PICK m : m = flush.sent
  OBVIOUS
<1> PICK r : r = SubSeq(retry, flush.sent + 1, Len(retry))
  OBVIOUS
<1> PICK d : d = SubSeq(retry, 1, m)
  OBVIOUS
<1>0. retry \in Seq(Batch) /\ m \in Nat /\ m <= Len(retry) /\ Len(retry) \in Nat
  BY DEF RawShape
<1>1. /\ retry' = r /\ flush'.sent = 0
      /\ queued' = queued - Len(FlattenSeq([i \in 1..flush.sent |-> retry[i].rows]))
      /\ UNCHANGED <<arriving, pending, seq, flows, rollup, tokens, dropped>>
  BY DEF Settle, storeVars, RawIdle
<1>2. /\ r \in Seq(Batch) /\ Len(r) = Len(retry) - m
      /\ \A k \in 1..Len(r) : r[k] = retry[m + k] /\ m + k \in 1..Len(retry)
  BY RestIs
<1>3. d \in Seq(Batch) /\ Len(d) = m /\ \A i \in 1..m : d[i] = retry[i]
  BY <1>0, HeadOf
<1>4. retry = d \o r
  <2>1. SplitAt(retry, m, d, r)
    BY <1>0, <1>2, <1>3, Zenon DEF SplitAt
  <2> QED BY <2>1, SplitJoin, Zenon
<1>5. queued' = queued - Size(d)
  <2>1. RowsIn(d) = [i \in 1..m |-> retry[i].rows]
    <3>1. DOMAIN d = 1..m
      BY <1>3
    <3> QED BY <1>3, <3>1 DEF RowsIn
  <2> QED BY <1>1, <2>1, Zenon DEF Size
<1>6. CountFits'
  <2>1. Size(retry) = Size(d) + Size(r)
    BY <1>2, <1>3, <1>4, SizeJoin
  <2>2. Size(d) \in Nat /\ Size(r) \in Nat
    BY <1>2, <1>3, SizeIsNat
  <2>4. Len(pending) \in Nat /\ MaxQueued \in Nat
    BY DEF RawShape
  <2>3. Size(retry)' = Size(r) /\ Len(pending)' = Len(pending)
    BY <1>1 DEF Size, RowsIn
  <2> QED BY <1>1, <1>5, <2>1, <2>2, <2>3, <2>4 DEF CountFits
<1>7. TokensFit'
  <2>1. ASSUME NEW k \in 1..Len(r)
        PROVE  r[k].token <= seq /\ (SeenToken(r[k].token, tokens) => InStore(r[k].rows, flows)) /\ ~(k <= 0)
    <3>1. r[k] = retry[m + k] /\ m + k \in 1..Len(retry)
      BY <1>2
    <3>2. retry[m + k].token <= seq /\ (SeenToken(retry[m + k].token, tokens) => InStore(retry[m + k].rows, flows))
      BY <3>1, Zenon DEF TokensFit, TokensAre
    <3>3. ~(k <= 0)
      OBVIOUS
    <3> QED BY <3>1, <3>2, <3>3, Zenon
  <2>2. ASSUME NEW k \in 1..Len(r), NEW l \in 1..Len(r), r[k].token = r[l].token PROVE k = l
    <3>0. m + k \in 1..Len(retry) /\ m + l \in 1..Len(retry) /\ retry[m + k].token = retry[m + l].token
      BY <1>2, <2>2, Zenon
    <3>1. m + k = m + l
      BY <3>0 DEF TokensFit, TokensAre
    <3> QED BY <1>0, <3>1
  <2>3. \A i \in 1..Len(tokens) : tokens[i] <= seq
    BY DEF TokensFit, TokensAre
  <2>4. \A k \in 1..Len(r) : r[k].token <= seq /\ (SeenToken(r[k].token, tokens) \/ k <= 0 => InStore(r[k].rows, flows))
    BY <2>1, Zenon
  <2>5. \A k, l \in 1..Len(r) : r[k].token = r[l].token => k = l
    BY <2>2, Zenon
  <2>6. retry' = r /\ seq' = seq /\ tokens' = tokens /\ flows' = flows /\ flush'.sent = 0
    BY <1>1
  <2>7. TokensAre(r, seq, tokens, flows, 0)
    BY <2>3, <2>4, <2>5, Zenon DEF TokensAre
  <2> QED BY <2>6, <2>7, Zenon DEF TokensFit
<1>8. DropFits'
  BY <1>1, <1>2 DEF DropFits, Landed
<1>9. PlaceFits'
  <2>1. ASSUME NEW x, Placed(x) PROVE Placed(x)'
    <3>1. ASSUME NEW k \in 1..Len(retry), Has(retry[k].rows, x) PROVE Placed(x)'
      <4>1. CASE k <= m
        <5>1. InStore(retry[k].rows, flows)
          BY <4>1 DEF TokensFit, TokensAre
        <5>2. Has(flows, x)
          BY <3>1, <5>1 DEF InStore, Has
        <5> QED BY <1>1, <5>2 DEF Placed
      <4>2. CASE ~(k <= m)
        <5>1. k - m \in 1..Len(r) /\ m + (k - m) = k
          <6>1. Len(r) = Len(retry) - m
            BY <1>2
          <6> QED BY <1>0, <4>2, <6>1
        <5>2. r[k - m] = retry[k]
          BY <1>2, <5>1
        <5> QED BY <1>1, <3>1, <5>1, <5>2 DEF Placed
      <4> QED BY <4>1, <4>2
    <3> QED BY <1>1, <2>1, <3>1 DEF Placed
  <2> QED BY <1>1, <2>1 DEF PlaceFits
<1> QED BY <1>6, <1>7, <1>8, <1>9

LEMMA RestRows ==
  ASSUME RawFits, RowsFit, InsertFails \/ EnsureSchema \/ Cancel \/ Exit \/ UNCHANGED rawVars
  PROVE  RowsFit'
<1> USE RawAssumption DEF RawFits, RowsFit
<1>1. UNCHANGED <<arriving, pending, retry, queued, seq, flows, rollup, tokens, dropped>>
  BY DEF InsertFails, EnsureSchema, Cancel, Exit, rawVars, queueVars, storeVars
<1>2. flush'.sent = flush.sent \/ flush'.sent = 0
  BY DEF InsertFails, EnsureSchema, Cancel, Exit, rawVars, RawIdle, RawShape
<1>3. ASSUME NEW k \in 1..Len(retry), k <= flush'.sent PROVE k <= flush.sent
  BY <1>2, <1>3 DEF RawShape
<1>4. TokensFit'
  BY <1>1, <1>3 DEF TokensFit, TokensAre, SeenToken, InStore
<1>5. CountFits' /\ DropFits' /\ PlaceFits'
  BY <1>1 DEF CountFits, DropFits, PlaceFits, Placed, Landed, Size, RowsIn
<1> QED BY <1>4, <1>5

LEMMA InitRows == RawInit => RowsFit
<1> SUFFICES ASSUME RawInit PROVE RowsFit
  OBVIOUS
<1>1. /\ arriving = RawPackets /\ pending = <<>> /\ retry = <<>> /\ queued = 0 /\ seq = 0
      /\ flows = <<>> /\ tokens = <<>> /\ dropped = <<>>
  BY DEF RawInit
<1>2. 1..Len(<<>>) = {} /\ Len(<<>>) = 0
  OBVIOUS
<1>3. Size(retry) = 0
  <2>1. RowsIn(retry) = <<>>
    BY <1>1 DEF RowsIn
  <2>2. FlattenSeq(<<>>) = <<>>
    BY DEF FlattenSeq
  <2> QED BY <1>2, <2>1, <2>2, Zenon DEF Size
<1>4. CountFits
  BY <1>1, <1>2, <1>3, RawAssumption DEF CountFits
<1>5. TokensFit /\ PlaceFits
  BY <1>1, <1>2, Zenon DEF TokensFit, TokensAre, PlaceFits
<1>6. DropFits
  <2>1. dropped \in Seq(RawRow)
    BY <1>1
  <2> QED BY <1>1, <1>2, <2>1, Zenon DEF DropFits, Landed, Apart
<1> QED BY <1>4, <1>5, <1>6 DEF RowsFit

LEMMA TimesSome ==
  ASSUME NEW s \in Seq(RawRow), NEW x
  PROVE  Times(s, x) \in Nat /\ (Has(s, x) <=> Times(s, x) >= 1)
<1> DEFINE P == {i \in 1..Len(s) : s[i] = x}
<1>0. DOMAIN s = 1..Len(s) /\ Len(s) \in Nat
  OBVIOUS
<1>1. Times(s, x) = Cardinality(P) /\ P \subseteq 1..Len(s)
  BY <1>0, Zenon DEF Times
<1>2. IsFiniteSet(1..Len(s))
  BY <1>0, FS_Interval
<1>3. IsFiniteSet(P)
  BY <1>1, <1>2, FS_Subset
<1>4. Has(s, x) <=> P # {}
  BY DEF Has
<1> HIDE DEF P
<1>5. Cardinality(P) \in Nat
  BY <1>3, FS_CardinalityType
<1>6. Cardinality(P) = 0 <=> P = {}
  BY <1>3, FS_EmptySet
<1>7. PICK c : c = Cardinality(P)
  OBVIOUS
<1>8. c \in Nat /\ (c = 0 <=> ~Has(s, x)) /\ Times(s, x) = c
  BY <1>1, <1>4, <1>5, <1>6, <1>7, Zenon
<1> QED BY <1>8

\* The counter is the rows held and stays within its bound, and every
\* accepted row is dropped and counted, held or stored (Writer.Add,
\* Writer.flush).
THEOREM RowsNeverLost == RawSpec => []RowsAccounted
<1> DEFINE Inv == RawFits /\ RowsFit
<1>1. RawInit => Inv
  BY InitFits, InitRows
<1>2. Inv /\ [RawNext]_rawVars => Inv'
  <2>1. RawFits /\ [RawNext]_rawVars => RawFits'
    BY AddFits, FormFits, InsertFits, SettleFits, RestFits DEF RawNext
  <2>2. RawFits /\ RowsFit /\ [RawNext]_rawVars => RowsFit'
    BY AddRows, FormRows, InsertRows, SettleRows, RestRows DEF RawNext
  <2> QED BY <2>1, <2>2
<1>3. Inv => RowsAccounted
  <2> SUFFICES ASSUME RawFits, RowsFit PROVE RowsAccounted
    OBVIOUS
  <2> PICK f : f = FlattenSeq(RowsIn(retry))
    OBVIOUS
  <2>0. pending \in Seq(RawRow) /\ retry \in Seq(Batch) /\ flows \in Seq(RawRow) /\ dropped \in Seq(RawRow)
    BY DEF RawFits, RowsFit, RawShape, DropFits
  <2>1. f \in Seq(RawRow) /\ Size(retry) = Len(f)
    BY <2>0, SizeIsNat DEF Size
  <2>2. Held = pending \o f /\ Held \in Seq(RawRow) /\ Len(Held) = Len(pending) + Len(f)
    <3>1. Held = pending \o f
      BY Zenon DEF Held, RowsIn
    <3> QED BY <2>0, <2>1, <3>1
  <2>3. queued = Len(Held) /\ queued <= MaxQueued
    BY <2>1, <2>2 DEF RowsFit, CountFits
  <2>4. ASSUME NEW x \in Accepted PROVE Placed(x)
    <3>1. PICK p \in RawPackets \ arriving : x \in {Rows(p)[i] : i \in 1..RowsOf[p]}
      BY DEF Accepted
    <3>2. PICK i \in 1..RowsOf[p] : x = Rows(p)[i]
      BY <3>1
    <3>3. x = <<p, i>>
      BY <3>2, RowsTyped
    <3> QED BY <3>3 DEF RowsFit, PlaceFits
  <2>5. ASSUME NEW x, Placed(x) PROVE Has(dropped, x) \/ Has(Held, x) \/ Has(flows, x)
    <3>1. ASSUME NEW k \in 1..Len(retry), Has(retry[k].rows, x) PROVE Has(Held, x)
      <4>1. RowsIn(retry) \in Seq(RowSeq) /\ k \in 1..Len(RowsIn(retry)) /\ RowsIn(retry)[k] = retry[k].rows
        BY <2>0, RowsInTyped
      <4>2. Has(f, x)
        BY <3>1, <4>1, FlattenHas
      <4> QED BY <2>0, <2>1, <2>2, <4>2, JoinedHas
    <3>2. Has(pending, x) => Has(Held, x)
      BY <2>0, <2>1, <2>2, JoinedHas
    <3> QED BY <2>5, <3>1, <3>2 DEF Placed
  <2>6. ASSUME NEW x \in Accepted
        PROVE  /\ Times(dropped, x) + Times(Held, x) + Times(flows, x) >= 1
               /\ (Times(dropped, x) = 1 => Times(flows, x) = 0)
    <3>1. Has(dropped, x) \/ Has(Held, x) \/ Has(flows, x)
      BY <2>4, <2>5
    <3>2. ~(Has(dropped, x) /\ Has(flows, x))
      BY DEF RowsFit, DropFits, Apart, Has
    <3>3. Times(dropped, x) \in Nat /\ (Has(dropped, x) <=> Times(dropped, x) >= 1)
      BY <2>0, TimesSome
    <3>4. Times(Held, x) \in Nat /\ (Has(Held, x) <=> Times(Held, x) >= 1)
      BY <2>2, TimesSome
    <3>5. Times(flows, x) \in Nat /\ (Has(flows, x) <=> Times(flows, x) >= 1)
      BY <2>0, TimesSome
    <3> QED BY <3>1, <3>2, <3>3, <3>4, <3>5
  <2> QED BY <2>3, <2>6 DEF RowsAccounted
<1> QED BY <1>1, <1>2, <1>3, PTL DEF RawSpec

-----------------------------------------------------------------------------
(* The template cache and its history, definition by definition.           *)

\* The i-th definition of the set in hand goes to the cache, or to the history.
Step(h, what, v, i) ==
  IF ~Handed(Set(h), h.d.version, i) THEN v
  ELSE IF what = "cache"
  THEN put(v, templateKey(h.d, Set(h).defs[i].id), Template(Set(h).defs[i], h.d.version), h.at)
  ELSE With(v, <<h.d.from, h.d.domain, Set(h).defs[i].id, h.d.version>>,
            [fields |-> Set(h).defs[i].fields, at |-> h.at])

Steps(g, h, what, v, k) ==
  /\ g = [i \in 0..k |-> g[i]] /\ g[0] = v
  /\ \A i \in 1..k : g[i] = Step(h, what, g[i - 1], i)

LEMMA StepsExist ==
  ASSUME NEW h, NEW what, NEW v, NEW n \in Nat
  PROVE  \E g : Steps(g, h, what, v, n)
<1> DEFINE A == {k \in 0..n : \E g : Steps(g, h, what, v, k)}
<1>1. 0 \in A
  <2> PICK g : g = [i \in 0..0 |-> v]
    OBVIOUS
  <2>1. Steps(g, h, what, v, 0)
    BY DEF Steps
  <2> QED BY <2>1
<1>2. ASSUME NEW k \in 0..(n - 1), k \in A PROVE k + 1 \in A
  <2>1. PICK g : Steps(g, h, what, v, k)
    BY <1>2
  <2> PICK e : e = Step(h, what, g[k], k + 1)
    OBVIOUS
  <2> PICK f : f = [i \in 0..(k + 1) |-> IF i = k + 1 THEN e ELSE g[i]]
    OBVIOUS
  <2>2. k \in Nat /\ k + 1 \in 0..n
    OBVIOUS
  <2>3. f[k + 1] = e /\ (\A i \in 0..k : f[i] = g[i]) /\ f = [i \in 0..(k + 1) |-> f[i]]
    BY <2>2
  <2>4. ASSUME NEW i \in 1..(k + 1) PROVE f[i] = Step(h, what, f[i - 1], i)
    <3>1. CASE i = k + 1
      <4>1. i - 1 = k /\ f[k] = g[k]
        BY <2>2, <2>3, <3>1
      <4> QED BY <2>3, <3>1, <4>1
    <3>2. CASE i # k + 1
      <4>1. i \in 1..k /\ i \in 0..k /\ i - 1 \in 0..k
        BY <2>2, <3>2
      <4> QED BY <2>1, <2>3, <4>1 DEF Steps
    <3> QED BY <3>1, <3>2
  <2>5. f[0] = v
    BY <2>1, <2>2, <2>3 DEF Steps
  <2>6. Steps(f, h, what, v, k + 1)
    BY <2>3, <2>4, <2>5 DEF Steps
  <2> QED BY <2>2, <2>6
<1>3. n \in A
  <2> HIDE DEF A
  <2>1. 0..n \subseteq A
    BY <1>1, <1>2, UpToAll
  <2> QED BY <2>1
<1> QED BY <1>3

LEMMA CachedIs ==
  ASSUME NEW h, NEW tc, Len(Set(h).defs) \in Nat
  PROVE  \E g : Steps(g, h, "cache", tc, Len(Set(h).defs)) /\ Cached(tc, h) = g[Len(Set(h).defs)]
<1> PICK n : n = Len(Set(h).defs)
  OBVIOUS
<1> DEFINE F(f) == [i \in 0..n |->
              IF i = 0 THEN tc
              ELSE IF Handed(Set(h), h.d.version, i)
              THEN put(f[i - 1], templateKey(h.d, Set(h).defs[i].id), Template(Set(h).defs[i], h.d.version), h.at)
              ELSE f[i - 1]]
<1>1. PICK e : Steps(e, h, "cache", tc, n)
  BY StepsExist
<1>2. e = F(e)
  <2>1. ASSUME NEW i \in 0..n PROVE e[i] = F(e)[i]
    <3>1. CASE i = 0
      BY <1>1, <3>1 DEF Steps
    <3>2. CASE i # 0
      <4>1. i \in 1..n
        BY <3>2
      <4>2. e[i] = Step(h, "cache", e[i - 1], i)
        BY <1>1, <4>1 DEF Steps
      <4> QED BY <3>2, <4>2 DEF Step
    <3> QED BY <3>1, <3>2
  <2>2. e = [i \in 0..n |-> e[i]]
    BY <1>1 DEF Steps
  <2> QED BY <2>1, <2>2
<1>3. PICK f : f = F(f) /\ Cached(tc, h) = f[n]
  <2> PICK f : f = CHOOSE x : x = F(x)
    OBVIOUS
  <2>1. Cached(tc, h) = f[n]
    BY Zenon DEF Cached
  <2> HIDE DEF F
  <2> QED BY <1>2, <2>1, Zenon
<1>4. Steps(f, h, "cache", tc, n)
  <2>1. f = [i \in 0..n |-> f[i]] /\ f[0] = tc
    BY <1>3
  <2>2. ASSUME NEW i \in 1..n PROVE f[i] = Step(h, "cache", f[i - 1], i)
    <3>1. i \in 0..n /\ i # 0
      OBVIOUS
    <3> QED BY <1>3, <3>1 DEF Step
  <2> QED BY <2>1, <2>2 DEF Steps
<1> QED BY <1>3, <1>4

LEMMA RecalledIs ==
  ASSUME NEW h, NEW m, Len(Set(h).defs) \in Nat
  PROVE  \E g : Steps(g, h, "history", m, Len(Set(h).defs)) /\ Recalled(m, h) = g[Len(Set(h).defs)]
<1> PICK n : n = Len(Set(h).defs)
  OBVIOUS
<1> DEFINE F(f) == [i \in 0..n |->
              IF i = 0 THEN m
              ELSE IF Handed(Set(h), h.d.version, i)
              THEN With(f[i - 1], <<h.d.from, h.d.domain, Set(h).defs[i].id, h.d.version>>,
                        [fields |-> Set(h).defs[i].fields, at |-> h.at])
              ELSE f[i - 1]]
<1>1. PICK e : Steps(e, h, "history", m, n)
  BY StepsExist
<1>2. e = F(e)
  <2>1. ASSUME NEW i \in 0..n PROVE e[i] = F(e)[i]
    <3>1. CASE i = 0
      BY <1>1, <3>1 DEF Steps
    <3>2. CASE i # 0
      <4>1. i \in 1..n
        BY <3>2
      <4>2. e[i] = Step(h, "history", e[i - 1], i)
        BY <1>1, <4>1 DEF Steps
      <4> QED BY <3>2, <4>2 DEF Step
    <3> QED BY <3>1, <3>2
  <2>2. e = [i \in 0..n |-> e[i]]
    BY <1>1 DEF Steps
  <2> QED BY <2>1, <2>2
<1>3. PICK f : f = F(f) /\ Recalled(m, h) = f[n]
  <2> PICK f : f = CHOOSE x : x = F(x)
    OBVIOUS
  <2>1. Recalled(m, h) = f[n]
    BY Zenon DEF Recalled
  <2> HIDE DEF F
  <2> QED BY <1>2, <2>1, Zenon
<1>4. Steps(f, h, "history", m, n)
  <2>1. f = [i \in 0..n |-> f[i]] /\ f[0] = m
    BY <1>3
  <2>2. ASSUME NEW i \in 1..n PROVE f[i] = Step(h, "history", f[i - 1], i)
    <3>1. i \in 0..n /\ i # 0
      OBVIOUS
    <3> QED BY <1>3, <3>1 DEF Step
  <2> QED BY <2>1, <2>2 DEF Steps
<1> QED BY <1>3, <1>4

\* A cached template is the last definition received under its key, or one
\* the history has forgotten and that is too old for every datagram in hand.
Matched(tc, m, G) ==
  \A k \in DOMAIN tc :
    /\ tc[k].seen \in Nat
    /\ \/ k \in DOMAIN m /\ m[k].fields = tc[k].fields /\ m[k].at = tc[k].seen
       \/ k \notin DOMAIN m /\ tc[k].seen \in G

LEMMA FewerMatched ==
  ASSUME NEW tc, NEW m, NEW G, NEW K, Matched(tc, m, G)
  PROVE  Matched(Without(tc, K), m, G)
BY DEF Matched, Without

LEMMA PutMatched ==
  ASSUME NEW tc, NEW m, NEW G, NEW k, NEW t, NEW at \in Nat, Matched(tc, m, G),
         DOMAIN t = {"fields", "scope", "seen", "hasVarLen", "recordLen"}
  PROVE  Matched(put(tc, k, t, at), With(m, k, [fields |-> t.fields, at |-> at]), G)
<1> PICK v : v = [fields |-> t.fields, at |-> at]
  OBVIOUS
<1> PICK w : w = [t EXCEPT !.seen = at]
  OBVIOUS
<1>1. w.seen = at /\ w.fields = t.fields /\ v.fields = t.fields /\ v.at = at
  OBVIOUS
<1> PICK room : room = IF k \notin DOMAIN tc /\ Cardinality(DOMAIN tc) >= MaxTemplates
                       THEN expireLocked(tc, at) ELSE tc
  OBVIOUS
<1>2. Matched(room, m, G) /\ DOMAIN room \subseteq DOMAIN tc
  <2>1. Matched(expireLocked(tc, at), m, G)
    BY FewerMatched DEF expireLocked
  <2>2. DOMAIN expireLocked(tc, at) \subseteq DOMAIN tc
    BY DEF expireLocked, Without
  <2> QED BY <2>1, <2>2
<1>3. put(tc, k, t, at) = (IF k \notin DOMAIN tc /\ Cardinality(DOMAIN room) >= MaxTemplates
                           THEN room ELSE With(room, k, w))
  BY Zenon DEF put
<1>4. CASE k \notin DOMAIN tc /\ Cardinality(DOMAIN room) >= MaxTemplates
  <2>1. k \notin DOMAIN room
    BY <1>2, <1>4
  <2>2. Matched(room, With(m, k, v), G)
    BY <1>2, <2>1 DEF Matched, With
  <2> QED BY <1>3, <1>4, <2>2
<1>5. CASE ~(k \notin DOMAIN tc /\ Cardinality(DOMAIN room) >= MaxTemplates)
  <2>1. Matched(With(room, k, w), With(m, k, v), G)
    BY <1>1, <1>2 DEF Matched, With
  <2> QED BY <1>3, <1>5, <2>1
<1> QED BY <1>4, <1>5

LEMMA TemplateIs ==
  ASSUME NEW def, NEW version
  PROVE  /\ DOMAIN Template(def, version) = {"fields", "scope", "seen", "hasVarLen", "recordLen"}
         /\ Template(def, version).fields = def.fields
<1> PICK var : var = (\E j \in DOMAIN def.fields : version = 10 /\ def.fields[j].len = VarLength)
  OBVIOUS
<1> PICK len : len = Sum([j \in DOMAIN def.fields |->
                          IF version = 10 /\ def.fields[j].len = VarLength THEN 0 ELSE def.fields[j].len])
  OBVIOUS
<1>1. Template(def, version) = [fields |-> def.fields, scope |-> def.scope, seen |-> 0,
                                hasVarLen |-> var, recordLen |-> len]
  BY Zenon DEF Template
<1> QED BY <1>1

LEMMA LearnMatched ==
  ASSUME NEW h, NEW tc, NEW m, NEW G, Matched(tc, m, G), Len(Set(h).defs) \in Nat, h.at \in Nat
  PROVE  Matched(Cached(tc, h), Recalled(m, h), G)
<1> PICK n \in Nat : n = Len(Set(h).defs)
  OBVIOUS
<1>1. PICK c : Steps(c, h, "cache", tc, n) /\ Cached(tc, h) = c[n]
  BY CachedIs
<1>2. PICK r : Steps(r, h, "history", m, n) /\ Recalled(m, h) = r[n]
  BY RecalledIs
<1> DEFINE A == {i \in 0..n : Matched(c[i], r[i], G)}
<1>3. 0 \in A
  BY <1>1, <1>2 DEF Steps
<1>4. ASSUME NEW i \in 0..(n - 1), i \in A PROVE i + 1 \in A
  <2>1. i + 1 \in 1..n /\ i + 1 \in 0..n /\ (i + 1) - 1 = i
    OBVIOUS
  <2>2. c[i + 1] = Step(h, "cache", c[i], i + 1) /\ r[i + 1] = Step(h, "history", r[i], i + 1)
    BY <1>1, <1>2, <2>1 DEF Steps
  <2> PICK def : def = Set(h).defs[i + 1]
    OBVIOUS
  <2> PICK t : t = Template(def, h.d.version)
    OBVIOUS
  <2> PICK k : k = templateKey(h.d, def.id)
    OBVIOUS
  <2>3. CASE ~Handed(Set(h), h.d.version, i + 1)
    BY <1>4, <2>1, <2>2, <2>3 DEF Step
  <2>4. CASE Handed(Set(h), h.d.version, i + 1)
    <3>1. c[i + 1] = put(c[i], k, t, h.at)
      BY <2>2, <2>4 DEF Step
    <3>2. r[i + 1] = With(r[i], k, [fields |-> def.fields, at |-> h.at])
      BY <2>2, <2>4 DEF Step, templateKey
    <3>3. def.fields = t.fields /\ DOMAIN t = {"fields", "scope", "seen", "hasVarLen", "recordLen"}
      BY TemplateIs
    <3>4. Matched(c[i], r[i], G)
      BY <1>4
    <3>5. Matched(put(c[i], k, t, h.at), With(r[i], k, [fields |-> t.fields, at |-> h.at]), G)
      BY <3>3, <3>4, PutMatched
    <3> QED BY <2>1, <3>1, <3>2, <3>3, <3>5
  <2> QED BY <2>3, <2>4
<1>5. n \in A
  <2> HIDE DEF A
  <2>1. 0..n \subseteq A
    BY <1>3, <1>4, UpToAll
  <2> QED BY <2>1
<1> QED BY <1>1, <1>2, <1>5

-----------------------------------------------------------------------------
(* The decoding servers.                                                   *)

HandNames == {"pc", "d", "at", "pos", "recs", "awaiting", "reads"}

ReadOwn(h, read) == read.fields = read.known.fields /\ h.at - read.known.at <= TTL

\* A datagram in hand: when it was received, how far it is read, and the
\* layouts it was read with so far.
HandFits(s, h) ==
  /\ DOMAIN h = HandNames /\ h.at \in Nat
  /\ \E S : h.reads \in Seq(S)
  /\ \A i \in 1..Len(h.reads) : ReadOwn(h, h.reads[i])
  /\ h.pc = "sets" => /\ h.d \in Datagrams[s] /\ h.d.version \in {9, 10} /\ h.d.fits
                      /\ h.pos \in Nat \ {0}

FreePcs == {"rest", "accepted", "malformed", "refused"}

\* Receipts too old for the clock and for every datagram in hand.
TooOld(n, sv) ==
  {t \in Nat : n - t > TTL /\ \A s \in Servers : sv[s].pc \notin FreePcs => sv[s].at - t > TTL}

DecodeFits ==
  /\ now \in Nat
  /\ serving = [s \in Servers |-> serving[s]]
  /\ \A s \in Servers : serving[s] = Rest \/ (HandFits(s, serving[s]) /\ serving[s].at <= now)
  /\ Matched(templates, learned, TooOld(now, serving))

LEMMA MatchedMore ==
  ASSUME NEW tc, NEW m, NEW G, NEW H, Matched(tc, m, G), G \subseteq H
  PROVE  Matched(tc, m, H)
BY DEF Matched

\* A server that takes up a datagram now, or goes on with the one it has,
\* keeps every old receipt old.
LEMMA StaysOld ==
  ASSUME NEW s \in Servers, NEW n, NEW sv, NEW h, DOMAIN sv = Servers,
         h.pc \in FreePcs \/ h.at = n \/ (sv[s].pc \notin FreePcs /\ h.at = sv[s].at)
  PROVE  TooOld(n, sv) \subseteq TooOld(n, [sv EXCEPT ![s] = h])
<1> PICK w : w = [sv EXCEPT ![s] = h]
  OBVIOUS
<1>1. \A x \in Servers : w[x] = IF x = s THEN h ELSE sv[x]
  OBVIOUS
<1> QED BY <1>1 DEF TooOld

\* A step of one server that leaves the clock, the cache and the history.
LEMMA HandStep ==
  ASSUME DecodeFits, NEW s \in Servers, NEW h, Holds(s, h), now' = now,
         HandFits(s, h), h.at <= now,
         Matched(templates', learned', TooOld(now, serving)),
         h.pc \in FreePcs \/ h.at = now \/ (serving[s].pc \notin FreePcs /\ h.at = serving[s].at)
  PROVE  DecodeFits'
<1>1. DOMAIN serving = Servers
  BY Zenon DEF DecodeFits
<1>2. serving' = [serving EXCEPT ![s] = h]
  BY DEF Holds
<1>3. \A x \in Servers : serving'[x] = IF x = s THEN h ELSE serving[x]
  BY <1>1, <1>2
<1>4. serving' = [x \in Servers |-> serving'[x]]
  BY <1>1, <1>2
<1>5. Matched(templates', learned', TooOld(now', serving'))
  <2>1. TooOld(now, serving) \subseteq TooOld(now', serving')
    BY <1>1, <1>2, StaysOld
  <2> QED BY <2>1, MatchedMore
<1>6. ASSUME NEW x \in Servers
      PROVE  serving'[x] = Rest \/ (HandFits(x, serving'[x]) /\ serving'[x].at <= now')
  BY <1>3 DEF DecodeFits
<1>7. now' \in Nat
  BY DEF DecodeFits
<1> QED BY <1>4, <1>5, <1>6, <1>7, Zenon DEF DecodeFits, HandFits, ReadOwn

LEMMA HandIs ==
  ASSUME NEW d, NEW pc, NEW r
  PROVE  LET h == Hand(d, pc)
             g == [h EXCEPT !.recs = r]
         IN /\ DOMAIN h = HandNames /\ h.pc = pc /\ h.d = d /\ h.at = now /\ h.pos = 1 /\ h.reads = <<>>
            /\ DOMAIN g = HandNames /\ g.pc = pc /\ g.d = d /\ g.at = now /\ g.pos = 1 /\ g.reads = <<>>
BY DEF Hand, HandNames

LEMMA ReceiveFits ==
  ASSUME DecodeFits, NEW s \in Servers, NEW d \in Datagrams[s], Receive(s, d)
  PROVE  DecodeFits'
<1>1. now \in Nat /\ now' = now /\ templates' = templates /\ learned' = learned
  BY DEF DecodeFits, Receive
<1>2. Matched(templates', learned', TooOld(now, serving))
  BY <1>1 DEF DecodeFits
<1>3. ASSUME NEW h, DOMAIN h = HandNames, h.at = now, h.reads = <<>>, h.d = d, h.pos = 1, Holds(s, h),
             h.pc = "sets" => d.version \in {9, 10} /\ d.fits
      PROVE  DecodeFits'
  <2>1. h.reads \in Seq({}) /\ Len(h.reads) = 0
    BY <1>3
  <2>2. HandFits(s, h)
    BY <1>1, <1>3, <2>1 DEF HandFits
  <2> QED BY <1>1, <1>2, <1>3, <2>2, HandStep
<1>4. ASSUME NEW pc, Holds(s, Hand(d, pc)), pc = "sets" => d.version \in {9, 10} /\ d.fits
      PROVE  DecodeFits'
  <2> PICK h : h = Hand(d, pc)
    OBVIOUS
  <2>1. DOMAIN h = HandNames /\ h.pc = pc /\ h.d = d /\ h.at = now /\ h.pos = 1 /\ h.reads = <<>>
    BY HandIs
  <2> QED BY <1>3, <1>4, <2>1
<1>5. ASSUME NEW r, Holds(s, [Hand(d, "accepted") EXCEPT !.recs = r]) PROVE DecodeFits'
  <2> PICK h : h = [Hand(d, "accepted") EXCEPT !.recs = r]
    OBVIOUS
  <2>1. DOMAIN h = HandNames /\ h.pc = "accepted" /\ h.d = d /\ h.at = now /\ h.pos = 1 /\ h.reads = <<>>
    BY HandIs
  <2> QED BY <1>3, <1>5, <2>1
<1> PICK p : p = IF d.version = 5 THEN DecodeNetFlowV5(d) ELSE DecodeSFlow(d)
  OBVIOUS
<1>6. \/ \E pc : Holds(s, Hand(d, pc)) /\ (pc = "sets" => d.version \in {9, 10} /\ d.fits)
      \/ \E r : Holds(s, [Hand(d, "accepted") EXCEPT !.recs = r])
  <2>1. Holds(s,
       IF ~allowed(d.from) THEN Hand(d, "refused")
       ELSE IF d.version \notin {0, 5, 9, 10} THEN Hand(d, "malformed")
       ELSE IF d.version \in {9, 10}
            THEN IF d.fits THEN Hand(d, "sets") ELSE Hand(d, "malformed")
       ELSE IF p.ok THEN [Hand(d, "accepted") EXCEPT !.recs = p.recs]
               ELSE Hand(d, "malformed"))
    BY Zenon DEF Receive
  <2>2. \/ Holds(s, Hand(d, "refused"))
        \/ Holds(s, Hand(d, "malformed"))
        \/ Holds(s, Hand(d, "sets")) /\ d.version \in {9, 10} /\ d.fits
        \/ Holds(s, [Hand(d, "accepted") EXCEPT !.recs = p.recs])
    BY <2>1
  <2> QED BY <2>2
<1> QED BY <1>4, <1>5, <1>6

\* Reading on in the datagram in hand.
LEMMA OnwardFits ==
  ASSUME NEW s \in Servers, NEW h, HandFits(s, h), h.pc = "sets"
  PROVE  LET g == [h EXCEPT !.pos = @ + 1]
         IN HandFits(s, g) /\ g.pc = "sets" /\ g.at = h.at /\ g.reads = h.reads
<1> PICK g : g = [h EXCEPT !.pos = @ + 1]
  OBVIOUS
<1>1. DOMAIN h = HandNames /\ h.pos \in Nat \ {0}
  BY DEF HandFits
<1>2. DOMAIN g = HandNames /\ g.pc = h.pc /\ g.d = h.d /\ g.at = h.at /\ g.reads = h.reads /\ g.pos = h.pos + 1
  BY <1>1 DEF HandNames
<1>3. g.pos \in Nat \ {0}
  BY <1>1, <1>2
<1> QED BY <1>2, <1>3 DEF HandFits, ReadOwn

LEMMA BusyHand ==
  ASSUME DecodeFits, NEW s \in Servers, serving[s].pc = "sets"
  PROVE  HandFits(s, serving[s]) /\ serving[s].at <= now /\ serving[s].pc \notin FreePcs
BY DEF DecodeFits, Rest, FreePcs

LEMMA LearnFits ==
  ASSUME DecodeFits, NEW s \in Servers, LearnTemplates(s)
  PROVE  DecodeFits'
<1> PICK h : h = serving[s]
  OBVIOUS
<1>1. h.pc = "sets" /\ h.pos <= Len(h.d.sets) /\ Set(h).kind = "templates"
  BY DEF LearnTemplates, AtSet
<1>2. HandFits(s, h) /\ h.at <= now /\ h.pc \notin FreePcs
  BY <1>1, BusyHand
<1>3. h.at \in Nat /\ h.d \in Datagrams[s] /\ h.d.version \in {9, 10} /\ h.d.fits /\ h.pos \in Nat \ {0}
  BY <1>1, <1>2 DEF HandFits
<1>4. Len(h.d.sets) \in Nat
  BY <1>3, DecodeAssumption
<1>5. h.pos \in 1..Len(h.d.sets)
  BY <1>1, <1>3, <1>4
<1>6. Len(Set(h).defs) \in Nat
  BY <1>1, <1>3, <1>5, DecodeAssumption DEF Set
<1>7. Matched(Cached(templates, h), Recalled(learned, h), TooOld(now, serving))
  BY <1>3, <1>6, LearnMatched DEF DecodeFits
<1>8. templates' = Cached(templates, h) /\ learned' = Recalled(learned, h) /\ now' = now
  BY DEF LearnTemplates
<1> PICK g : g = [h EXCEPT !.pos = @ + 1]
  OBVIOUS
<1>9. Holds(s, g)
  BY DEF LearnTemplates
<1>10. HandFits(s, g) /\ g.pc = "sets" /\ g.at = h.at
  BY <1>1, <1>2, OnwardFits
<1> QED BY <1>2, <1>7, <1>8, <1>9, <1>10, HandStep

LEMMA SkipFits ==
  ASSUME DecodeFits, NEW s \in Servers, SkipReserved(s) \/ MisfitSet(s) \/ Accept(s)
  PROVE  DecodeFits'
<1> PICK h : h = serving[s]
  OBVIOUS
<1>1. h.pc = "sets"
  BY DEF SkipReserved, MisfitSet, Accept, AtSet
<1>2. HandFits(s, h) /\ h.at <= now /\ h.pc \notin FreePcs
  BY <1>1, BusyHand
<1>3. templates' = templates /\ learned' = learned /\ now' = now
  BY DEF SkipReserved, MisfitSet, Accept
<1>4. Matched(templates', learned', TooOld(now, serving))
  BY <1>3 DEF DecodeFits
<1>5. CASE SkipReserved(s)
  <2> PICK g : g = [h EXCEPT !.pos = @ + 1]
    OBVIOUS
  <2>1. Holds(s, g)
    BY <1>5 DEF SkipReserved
  <2>2. HandFits(s, g) /\ g.pc = "sets" /\ g.at = h.at
    BY <1>1, <1>2, OnwardFits
  <2> QED BY <1>2, <1>3, <1>4, <2>1, <2>2, HandStep
<1>6. ASSUME NEW pc \in FreePcs, NEW r, Holds(s, [h EXCEPT !.pc = pc, !.recs = r]) PROVE DecodeFits'
  <2> PICK g : g = [h EXCEPT !.pc = pc, !.recs = r]
    OBVIOUS
  <2>1. DOMAIN h = HandNames
    BY <1>2 DEF HandFits
  <2>2. DOMAIN g = HandNames /\ g.pc = pc /\ g.at = h.at /\ g.reads = h.reads
    BY <2>1 DEF HandNames
  <2>3. HandFits(s, g)
    BY <1>2, <2>2 DEF HandFits, ReadOwn, FreePcs
  <2> QED BY <1>2, <1>3, <1>4, <1>6, <2>2, <2>3, HandStep
<1>7. CASE MisfitSet(s)
  <2>1. Holds(s, [h EXCEPT !.pc = "malformed", !.recs = <<>>]) /\ "malformed" \in FreePcs
    BY <1>7 DEF MisfitSet, FreePcs
  <2> QED BY <1>6, <2>1
<1>8. CASE Accept(s)
  <2> PICK iv : iv = IF samplingKey(h.d) \in DOMAIN sampling THEN sampling[samplingKey(h.d)] ELSE 0
    OBVIOUS
  <2> PICK r : r = applySampling(h.recs, iv)
    OBVIOUS
  <2>1. Holds(s, [h EXCEPT !.pc = "accepted", !.recs = r]) /\ "accepted" \in FreePcs
    <3>1. Holds(s, [h EXCEPT !.pc = "accepted", !.recs = r])
      BY <1>8, Zenon DEF Accept
    <3> QED BY <3>1 DEF FreePcs
  <2> QED BY <1>6, <2>1
<1> QED BY <1>5, <1>7, <1>8

\* A template the cache gives out is the one last received under its key.
LEMMA GotIsKnown ==
  ASSUME DecodeFits, NEW s \in Servers, serving[s].pc = "sets", NEW k, Got(templates, k, serving[s].at)
  PROVE  /\ templates[k].fields = Known(k).fields
         /\ serving[s].at - Known(k).at <= TTL
<1>1. serving[s].at \in Nat /\ serving[s].pc \notin FreePcs
  BY BusyHand DEF HandFits
<1>2. k \in DOMAIN templates /\ templates[k].seen \in Nat /\ ~(serving[s].at - templates[k].seen > TTL)
  BY DEF Got, Expired, DecodeFits, Matched
<1>3. templates[k].seen \notin TooOld(now, serving)
  BY <1>1, <1>2 DEF TooOld
<1>4. k \in DOMAIN learned /\ learned[k].fields = templates[k].fields /\ learned[k].at = templates[k].seen
  BY <1>2, <1>3 DEF DecodeFits, Matched
<1>5. Known(k) = learned[k]
  BY <1>4 DEF Known
<1>6. serving[s].at - templates[k].seen <= TTL
  BY <1>1, <1>2, DecodeAssumption
<1> QED BY <1>4, <1>5, <1>6

LEMMA ReadFits ==
  ASSUME DecodeFits, NEW s \in Servers, ReadData(s)
  PROVE  DecodeFits'
<1> PICK h : h = serving[s]
  OBVIOUS
<1> PICK k : k = templateKey(h.d, Set(h).id)
  OBVIOUS
<1> PICK g : g = [h EXCEPT !.pos = @ + 1]
  OBVIOUS
<1>1. h.pc = "sets"
  BY DEF ReadData, AtSet
<1>2. HandFits(s, h) /\ h.at <= now /\ h.pc \notin FreePcs
  BY <1>1, BusyHand
<1>3. HandFits(s, g) /\ g.pc = "sets" /\ g.at = h.at /\ g.reads = h.reads
  BY <1>1, <1>2, OnwardFits
<1>4. templates' = AfterGet(templates, k, h.at) /\ learned' = learned /\ now' = now
  BY DEF ReadData
<1>5. Matched(templates', learned', TooOld(now, serving))
  <2>1. Matched(templates, learned, TooOld(now, serving))
    BY DEF DecodeFits
  <2>2. Matched(Without(templates, {k}), learned, TooOld(now, serving))
    BY <2>1, FewerMatched
  <2> QED BY <1>4, <2>1, <2>2 DEF AfterGet
<1>6. DOMAIN g = HandNames
  BY <1>3 DEF HandFits
<1>7. CASE Holds(s, g)
  BY <1>2, <1>3, <1>4, <1>5, <1>7, HandStep
<1>8. CASE Holds(s, [g EXCEPT !.awaiting = @ + 1])
  <2> PICK e : e = [g EXCEPT !.awaiting = @ + 1]
    OBVIOUS
  <2>1. DOMAIN e = HandNames /\ e.pc = g.pc /\ e.d = g.d /\ e.at = g.at /\ e.pos = g.pos /\ e.reads = g.reads
    BY <1>6 DEF HandNames
  <2>2. HandFits(s, e)
    BY <1>3, <2>1 DEF HandFits, ReadOwn
  <2> QED BY <1>2, <1>3, <1>4, <1>5, <1>8, <2>1, <2>2, HandStep
<1> PICK read : read = [pos |-> h.pos, fields |-> templates[k].fields,
                        known |-> Known(<<h.d.from, h.d.domain, Set(h).id, h.d.version>>)]
  OBVIOUS
<1>9. ASSUME NEW r, Got(templates, k, h.at),
             Holds(s, [g EXCEPT !.recs = r, !.reads = Append(@, read)])
      PROVE  DecodeFits'
  <2> PICK e : e = [g EXCEPT !.recs = r, !.reads = Append(@, read)]
    OBVIOUS
  <2>1. DOMAIN e = HandNames /\ e.pc = g.pc /\ e.d = g.d /\ e.at = g.at /\ e.pos = g.pos
        /\ e.reads = Append(g.reads, read)
    BY <1>6 DEF HandNames
  <2>2. read.fields = read.known.fields /\ h.at - read.known.at <= TTL
    <3>1. k = <<h.d.from, h.d.domain, Set(h).id, h.d.version>>
      BY DEF templateKey
    <3>2. read.fields = templates[k].fields /\ read.known = Known(k)
      BY <3>1
    <3> QED BY <1>1, <1>9, <3>2, GotIsKnown
  <2>3. ReadOwn(e, read)
    BY <1>3, <2>1, <2>2 DEF ReadOwn
  <2>4. PICK S : g.reads \in Seq(S)
    BY <1>3 DEF HandFits
  <2>5. e.reads \in Seq(S \cup {read})
    <3>1. g.reads \in Seq(S \cup {read})
      BY <2>4
    <3> QED BY <2>1, <3>1
  <2>6. ASSUME NEW i \in 1..Len(e.reads) PROVE ReadOwn(e, e.reads[i])
    <3>1. Len(e.reads) = Len(g.reads) + 1 /\ Len(g.reads) \in Nat
      BY <2>1, <2>4
    <3>2. CASE i = Len(g.reads) + 1
      <4>1. e.reads[i] = read
        BY <2>1, <2>4, <3>2
      <4> QED BY <2>3, <4>1
    <3>3. CASE i # Len(g.reads) + 1
      <4>1. i \in 1..Len(g.reads)
        BY <3>1, <3>3
      <4>2. e.reads[i] = g.reads[i]
        BY <2>1, <2>4, <4>1
      <4>3. ReadOwn(g, g.reads[i])
        BY <1>3, <4>1 DEF HandFits
      <4> QED BY <2>1, <4>2, <4>3 DEF ReadOwn
    <3> QED BY <3>2, <3>3
  <2>7. HandFits(s, e)
    BY <1>3, <2>1, <2>5, <2>6 DEF HandFits
  <2> QED BY <1>2, <1>3, <1>4, <1>5, <1>9, <2>1, <2>7, HandStep
<1> PICK r : r = g.recs \o readFlowData(Set(h).body, templates[k], [up |-> h.d.up, unix |-> h.d.unix])
  OBVIOUS
<1>10. \/ Holds(s, g)
       \/ Holds(s, [g EXCEPT !.awaiting = @ + 1])
       \/ Got(templates, k, h.at) /\ Holds(s, [g EXCEPT !.recs = r, !.reads = Append(@, read)])
  BY Zenon DEF ReadData
<1> QED BY <1>7, <1>8, <1>9, <1>10

LEMMA PassFits ==
  ASSUME DecodeFits, Pass
  PROVE  DecodeFits'
<1>1. now \in Nat /\ now' = now + 1 /\ templates' = templates /\ serving' = serving
  BY DEF DecodeFits, Pass
<1>2. now' \in Nat
  BY <1>1
<1>3. TooOld(now, serving) \subseteq TooOld(now', serving')
  BY <1>1, DecodeAssumption DEF TooOld
<1>4. ASSUME NEW x \in Servers
      PROVE  serving'[x] = Rest \/ (HandFits(x, serving'[x]) /\ serving'[x].at <= now')
  <2>1. CASE serving[x] = Rest
    BY <1>1, <2>1
  <2>2. CASE HandFits(x, serving[x]) /\ serving[x].at <= now
    <3>1. serving[x].at \in Nat
      BY <2>2 DEF HandFits
    <3>2. serving[x].at <= now'
      BY <1>1, <2>2, <3>1
    <3> QED BY <1>1, <2>2, <3>2
  <2> QED BY <2>1, <2>2 DEF DecodeFits
<1>5. Matched(templates', learned', TooOld(now', serving'))
  <2> PICK K : K = {k \in DOMAIN learned : now' - learned[k].at > TTL /\ \A s \in Servers : Free(s)}
    OBVIOUS
  <2>1. learned' = Without(learned, K)
    BY DEF Pass
  <2>2. ASSUME NEW k \in DOMAIN templates
        PROVE  /\ templates[k].seen \in Nat
               /\ \/ k \in DOMAIN learned' /\ learned'[k].fields = templates[k].fields
                     /\ learned'[k].at = templates[k].seen
                  \/ k \notin DOMAIN learned' /\ templates[k].seen \in TooOld(now', serving')
    <3>1. /\ templates[k].seen \in Nat
          /\ \/ k \in DOMAIN learned /\ learned[k].fields = templates[k].fields
                /\ learned[k].at = templates[k].seen
             \/ k \notin DOMAIN learned /\ templates[k].seen \in TooOld(now, serving)
      BY DEF DecodeFits, Matched
    <3>2. CASE k \notin DOMAIN learned
      BY <1>3, <2>1, <3>1, <3>2 DEF Without
    <3>3. CASE k \in DOMAIN learned /\ k \notin K
      BY <2>1, <3>1, <3>3 DEF Without
    <3>4. CASE k \in K
      <4>1. now' - templates[k].seen > TTL /\ \A s \in Servers : serving'[s].pc \in FreePcs
        BY <1>1, <3>1, <3>4 DEF Free, FreePcs
      <4>2. templates[k].seen \in TooOld(now', serving')
        BY <3>1, <4>1 DEF TooOld
      <4> QED BY <2>1, <3>1, <3>4, <4>2 DEF Without
    <3> QED BY <3>2, <3>3, <3>4
  <2> QED BY <1>1, <2>2 DEF Matched
<1>6. serving' = [s \in Servers |-> serving'[s]]
  BY <1>1 DEF DecodeFits
<1> QED BY <1>2, <1>4, <1>5, <1>6, Zenon DEF DecodeFits, HandFits, ReadOwn

LEMMA DecodeInitFits == DecodeInit => DecodeFits
<1> SUFFICES ASSUME DecodeInit PROVE DecodeFits
  OBVIOUS
<1>1. DOMAIN templates = {}
  BY DEF DecodeInit
<1> QED BY <1>1 DEF DecodeInit, DecodeFits, Matched

\* A data set is read with the layout last received under its own key and
\* no older than TTL, for any number of sockets, templates and datagrams and
\* whatever the interleaving of the servers (TemplateCache.put, get).
THEOREM LayoutsNotMixed == DecodeSpec => []LayoutIsOwn
<1>1. DecodeInit => DecodeFits
  BY DecodeInitFits
<1>2. DecodeFits /\ [DecodeNext]_decodeVars => DecodeFits'
  <2> SUFFICES ASSUME DecodeFits, [DecodeNext]_decodeVars PROVE DecodeFits'
    OBVIOUS
  <2>1. CASE DecodeNext
    BY <2>1, ReceiveFits, LearnFits, ReadFits, SkipFits, PassFits DEF DecodeNext
  <2>2. CASE UNCHANGED decodeVars
    BY <2>2 DEF decodeVars, DecodeFits, HandFits, ReadOwn, Matched, TooOld
  <2> QED BY <2>1, <2>2
<1>3. DecodeFits => LayoutIsOwn
  <2> SUFFICES ASSUME DecodeFits, NEW s \in Servers, serving[s].pc \in {"sets", "accepted"},
                      NEW i \in DOMAIN serving[s].reads
               PROVE  ReadOwn(serving[s], serving[s].reads[i])
    BY DEF LayoutIsOwn, ReadOwn
  <2>1. HandFits(s, serving[s])
    BY DEF DecodeFits, Rest
  <2>2. PICK S : serving[s].reads \in Seq(S)
    BY <2>1 DEF HandFits
  <2>3. i \in 1..Len(serving[s].reads)
    BY <2>2
  <2> QED BY <2>1, <2>3 DEF HandFits
<1> QED BY <1>1, <1>2, <1>3, PTL DEF DecodeSpec

-----------------------------------------------------------------------------
(* Finite sets of weighted elements.                                       *)

LEMMA Largest ==
  ASSUME NEW S, IsFiniteSet(S), S # {}, NEW w, \A x \in S : w[x] \in Nat
  PROVE  \E m \in S : \A y \in S : w[m] >= w[y]
<1> PICK N \in Nat : N = Cardinality(S)
  BY FS_CardinalityType
<1> DEFINE A == {n \in 0..N : \A T \in SUBSET S : T # {} /\ Cardinality(T) <= n =>
                               \E m \in T : \A y \in T : w[m] >= w[y]}
<1>0. ASSUME NEW T \in SUBSET S PROVE IsFiniteSet(T) /\ Cardinality(T) \in Nat /\ (Cardinality(T) = 0 <=> T = {})
  <2>1. IsFiniteSet(T)
    BY FS_Subset
  <2> QED BY <2>1, FS_CardinalityType, FS_EmptySet
<1>1. 0 \in A
  <2>1. ASSUME NEW T \in SUBSET S, T # {}, Cardinality(T) <= 0 PROVE FALSE
    BY <1>0, <2>1
  <2> QED BY <2>1
<1>2. ASSUME NEW n \in 0..(N - 1), n \in A PROVE n + 1 \in A
  <2>1. ASSUME NEW T \in SUBSET S, T # {}, Cardinality(T) <= n + 1
        PROVE  \E m \in T : \A y \in T : w[m] >= w[y]
    <3>1. PICK x \in T : TRUE
      BY <2>1
    <3>2. T \ {x} \in SUBSET S /\ IsFiniteSet(T)
      BY <1>0
    <3>3. Cardinality(T \ {x}) = Cardinality(T) - 1 /\ Cardinality(T) \in Nat
      BY <1>0, <3>1, <3>2, FS_RemoveElement
    <3>4. Cardinality(T \ {x}) <= n
      BY <2>1, <3>3
    <3>5. CASE T \ {x} = {}
      <4>1. T = {x}
        BY <3>1, <3>5
      <4> QED BY <4>1
    <3>6. CASE T \ {x} # {}
      <4>1. PICK m \in T \ {x} : \A y \in T \ {x} : w[m] >= w[y]
        BY <1>2, <3>2, <3>4, <3>6
      <4>2. w[m] \in Nat /\ w[x] \in Nat /\ \A y \in T : w[y] \in Nat
        BY <3>1, <4>1
      <4>3. CASE w[x] >= w[m]
        <5>1. ASSUME NEW y \in T PROVE w[x] >= w[y]
          <6>1. CASE y = x
            BY <4>2, <6>1
          <6>2. CASE y # x
            <7>1. w[m] >= w[y]
              BY <4>1, <6>2
            <7> QED BY <4>2, <4>3, <7>1
          <6> QED BY <6>1, <6>2
        <5> QED BY <3>1, <5>1
      <4>4. CASE ~(w[x] >= w[m])
        <5>1. ASSUME NEW y \in T PROVE w[m] >= w[y]
          <6>1. CASE y = x
            BY <4>2, <4>4, <6>1
          <6>2. CASE y # x
            BY <4>1, <6>2
          <6> QED BY <6>1, <6>2
        <5> QED BY <4>1, <5>1
      <4> QED BY <4>3, <4>4
    <3> QED BY <3>5, <3>6
  <2>2. n + 1 \in 0..N
    OBVIOUS
  <2> QED BY <2>1, <2>2
<1>3. N \in A
  <2> HIDE DEF A
  <2>1. 0..N \subseteq A
    BY <1>1, <1>2, UpToAll
  <2> QED BY <2>1
<1> QED BY <1>3

LEMMA MaxIn ==
  ASSUME NEW S \in SUBSET Nat, IsFiniteSet(S), S # {}
  PROVE  Max(S) \in S /\ \A y \in S : Max(S) >= y
<1> PICK w : w = [x \in S |-> x]
  OBVIOUS
<1>1. PICK m \in S : \A y \in S : w[m] >= w[y]
  BY Largest
<1>2. \A y \in S : m >= y
  BY <1>1
<1> QED BY <1>2 DEF Max

\* The n heaviest elements.
IsTop(top, S, w, n) == Cardinality(top) = n /\ \A k \in top : \A x \in S \ top : w[k] >= w[x]

LEMMA TopExists ==
  ASSUME NEW S, IsFiniteSet(S), NEW w, \A x \in S : w[x] \in Nat, NEW n \in Nat, n <= Cardinality(S)
  PROVE  \E top \in SUBSET S : IsTop(top, S, w, n)
<1> DEFINE Top(T, i) == Cardinality(T) = i /\ \A k \in T : \A x \in S \ T : w[k] >= w[x]
<1> DEFINE A == {i \in 0..n : \E T \in SUBSET S : Top(T, i)}
<1>1. 0 \in A
  <2>1. Top({}, 0)
    BY FS_EmptySet
  <2> QED BY <2>1
<1>2. ASSUME NEW i \in 0..(n - 1), i \in A PROVE i + 1 \in A
  <2>1. PICK T \in SUBSET S : Top(T, i)
    BY <1>2
  <2>2. IsFiniteSet(T) /\ IsFiniteSet(S \ T) /\ Cardinality(S) \in Nat
    BY FS_Subset, FS_CardinalityType
  <2>3. S \ T # {}
    <3>1. SUFFICES ASSUME S \ T = {} PROVE FALSE
      OBVIOUS
    <3>2. T = S
      BY <3>1
    <3>3. Cardinality(S) = i
      BY <2>1, <3>2
    <3> QED BY <3>3
  <2>4. PICK m \in S \ T : \A y \in S \ T : w[m] >= w[y]
    BY <2>2, <2>3, Largest
  <2>5. Cardinality(T \cup {m}) = i + 1
    BY <2>1, <2>2, <2>4, FS_AddElement
  <2>6. \A k \in T \cup {m} : \A x \in S \ (T \cup {m}) : w[k] >= w[x]
    BY <2>1, <2>4
  <2>7. i + 1 \in 0..n
    OBVIOUS
  <2> QED BY <2>5, <2>6, <2>7
<1>3. n \in A
  <2> HIDE DEF A
  <2>1. 0..n \subseteq A
    BY <1>1, <1>2, UpToAll
  <2> QED BY <2>1
<1> QED BY <1>3 DEF IsTop

LEMMA Disjoint ==
  ASSUME NEW S, NEW T, IsFiniteSet(S), IsFiniteSet(T), S \cap T = {}
  PROVE  IsFiniteSet(S \cup T) /\ Cardinality(S \cup T) = Cardinality(S) + Cardinality(T)
         /\ Cardinality(S) \in Nat /\ Cardinality(T) \in Nat
BY FS_Union, FS_EmptySet, FS_CardinalityType

-----------------------------------------------------------------------------
(* Folds.                                                                  *)

\* One step of each of the folds, with the element x.
FoldStep(what, a, x, v) ==
  IF what = "totals" THEN Plus(v, Group(x), a[x])
  ELSE IF what = "sum" THEN a[x] + v
  ELSE IF what = "keys" THEN add(v, a.keys[x], a.bytes)
  ELSE IF what = "records" THEN AddRecord(v, a.exporter, a.records[x])
  ELSE Offer(v, a.exporter, a.records[x])

AnyOrder(what) == what \in {"totals", "sum"}
Chosen(what, s) == IF AnyOrder(what) THEN CHOOSE x \in s : TRUE ELSE Max(s)

Iterate(it, what, a, b, s) ==
  IF s = {} THEN b ELSE FoldStep(what, a, Chosen(what, s), it[s \ {Chosen(what, s)}])

Iterates(it, what, a, b, D) == it = [s \in D |-> Iterate(it, what, a, b, s)]

LEMMA IteratesExist ==
  ASSUME NEW what, NEW a, NEW b, NEW S, IsFiniteSet(S), AnyOrder(what) \/ S \subseteq Nat
  PROVE  \E it : Iterates(it, what, a, b, SUBSET S)
<1> PICK N \in Nat : N = Cardinality(S)
  BY FS_CardinalityType
<1> DEFINE Small(n) == {s \in SUBSET S : Cardinality(s) <= n}
<1> DEFINE A == {n \in 0..N : \E it : Iterates(it, what, a, b, Small(n))}
<1>0. ASSUME NEW s \in SUBSET S
      PROVE  /\ IsFiniteSet(s) /\ Cardinality(s) \in Nat /\ Cardinality(s) <= N
             /\ (Cardinality(s) = 0 <=> s = {})
             /\ s # {} => /\ s \ {Chosen(what, s)} \in SUBSET S
                          /\ Cardinality(s \ {Chosen(what, s)}) = Cardinality(s) - 1
  <2>1. IsFiniteSet(s) /\ Cardinality(s) \in Nat /\ Cardinality(s) <= N
    BY FS_Subset, FS_CardinalityType
  <2>2. Cardinality(s) = 0 <=> s = {}
    BY <2>1, FS_EmptySet
  <2>3. ASSUME s # {} PROVE Chosen(what, s) \in s
    <3>1. CASE AnyOrder(what)
      BY <2>3, <3>1 DEF Chosen
    <3>2. CASE ~AnyOrder(what)
      <4>1. s \in SUBSET Nat
        BY <3>2
      <4> QED BY <2>1, <2>3, <3>2, <4>1, MaxIn DEF Chosen
    <3> QED BY <3>1, <3>2
  <2> QED BY <2>1, <2>2, <2>3, FS_RemoveElement
<1>1. 0 \in A
  <2> PICK it : it = [s \in Small(0) |-> b]
    OBVIOUS
  <2>1. ASSUME NEW s \in Small(0) PROVE it[s] = Iterate(it, what, a, b, s)
    <3>0. s \in SUBSET S /\ Cardinality(s) <= 0
      OBVIOUS
    <3>1. s = {}
      <4>1. Cardinality(s) \in Nat /\ (Cardinality(s) = 0 <=> s = {})
        BY <1>0, <3>0
      <4> QED BY <3>0, <4>1
    <3> QED BY <3>1 DEF Iterate
  <2>2. Iterates(it, what, a, b, Small(0))
    <3>1. it = [s \in Small(0) |-> it[s]]
      OBVIOUS
    <3> HIDE DEF Small
    <3> QED BY <2>1, <3>1 DEF Iterates
  <2>3. 0 \in 0..N
    OBVIOUS
  <2> HIDE DEF Small
  <2> QED BY <2>2, <2>3
<1>2. ASSUME NEW n \in 0..(N - 1), n \in A PROVE n + 1 \in A
  <2>1. PICK it : Iterates(it, what, a, b, Small(n))
    BY <1>2
  <2> PICK f : f = [s \in Small(n + 1) |-> Iterate(it, what, a, b, s)]
    OBVIOUS
  <2>2. \A s \in Small(n) : s \in Small(n + 1) /\ it[s] = Iterate(it, what, a, b, s) /\ f[s] = it[s]
    <3>1. ASSUME NEW s \in Small(n) PROVE s \in Small(n + 1)
      <4>1. s \in SUBSET S /\ Cardinality(s) <= n
        OBVIOUS
      <4>2. Cardinality(s) \in Nat
        BY <1>0, <4>1
      <4>3. Cardinality(s) <= n + 1
        BY <4>1, <4>2
      <4> QED BY <4>1, <4>3
    <3>2. \A s \in Small(n) : it[s] = Iterate(it, what, a, b, s)
      BY <2>1 DEF Iterates
    <3> QED BY <3>1, <3>2
  <2>3. ASSUME NEW s \in Small(n + 1) PROVE f[s] = Iterate(f, what, a, b, s)
    <3>1. f[s] = Iterate(it, what, a, b, s)
      OBVIOUS
    <3>2. CASE s = {}
      BY <3>1, <3>2 DEF Iterate
    <3>3. CASE s # {}
      <4>1. s \ {Chosen(what, s)} \in Small(n)
        <5>1. s \in SUBSET S /\ Cardinality(s) <= n + 1
          OBVIOUS
        <5>2. /\ Cardinality(s) \in Nat /\ s \ {Chosen(what, s)} \in SUBSET S
              /\ Cardinality(s \ {Chosen(what, s)}) = Cardinality(s) - 1
          BY <1>0, <3>3, <5>1
        <5>3. Cardinality(s \ {Chosen(what, s)}) <= n
          BY <5>1, <5>2
        <5> QED BY <5>2, <5>3
      <4>2. f[s \ {Chosen(what, s)}] = it[s \ {Chosen(what, s)}]
        BY <2>2, <4>1
      <4> QED BY <3>1, <4>2 DEF Iterate
    <3> QED BY <3>2, <3>3
  <2>4. Iterates(f, what, a, b, Small(n + 1))
    BY <2>3 DEF Iterates
  <2>5. n + 1 \in 0..N
    OBVIOUS
  <2> QED BY <2>4, <2>5
<1>3. N \in A
  <2> HIDE DEF A
  <2>1. 0..N \subseteq A
    BY <1>1, <1>2, UpToAll
  <2> QED BY <2>1
<1>4. Small(N) = SUBSET S
  BY <1>0
<1> QED BY <1>3, <1>4

LEMMA FirstFinite ==
  ASSUME NEW n \in Nat
  PROVE  1..n \subseteq Nat /\ IsFiniteSet(1..n)
<1>1. IsFiniteSet(1..n)
  BY FS_Interval
<1> QED BY <1>1

\* A fold from left to right takes the elements one by one.
InTurn(it, what, a, b, n) ==
  it[1..0] = b /\ \A i \in 1..n : it[1..i] = FoldStep(what, a, i, it[1..(i - 1)])

LEMMA LeftToRight ==
  ASSUME NEW what, ~AnyOrder(what), NEW a, NEW b, NEW n \in Nat, NEW it,
         Iterates(it, what, a, b, SUBSET (1..n))
  PROVE  InTurn(it, what, a, b, n)
<1>1. it[1..0] = b
  <2>1. 1..0 = {}
    OBVIOUS
  <2> QED BY <2>1 DEF Iterates, Iterate
<1>2. ASSUME NEW i \in 1..n PROVE it[1..i] = FoldStep(what, a, i, it[1..(i - 1)])
  <2>1. 1..i \in SUBSET (1..n) /\ 1..i # {} /\ 1..i \in SUBSET Nat /\ IsFiniteSet(1..i)
    <3>1. i \in 1..i /\ 1..i \subseteq 1..n /\ 1..i \subseteq Nat
      OBVIOUS
    <3>2. IsFiniteSet(1..i)
      BY FS_Interval
    <3> QED BY <3>1, <3>2
  <2>2. Max(1..i) \in 1..i /\ \A y \in 1..i : Max(1..i) >= y
    BY <2>1, MaxIn
  <2>3. Max(1..i) = i
    BY <2>2
  <2>4. (1..i) \ {i} = 1..(i - 1)
    OBVIOUS
  <2>5. it[1..i] = Iterate(it, what, a, b, 1..i)
    BY <2>1 DEF Iterates
  <2> QED BY <2>1, <2>3, <2>4, <2>5 DEF Iterate, Chosen
<1> QED BY <1>1, <1>2 DEF InTurn

-----------------------------------------------------------------------------
(* The bytes of a map, counted one by one.                                 *)

Block(k, m, n) == {k} \X ((m + 1)..(m + n))

LEMMA BlockSize ==
  ASSUME NEW k, NEW m \in Nat, NEW n \in Nat
  PROVE  IsFiniteSet(Block(k, m, n)) /\ Cardinality(Block(k, m, n)) = n
<1>1. IsFiniteSet({k}) /\ Cardinality({k}) = 1
  BY FS_Singleton
<1>2. IsFiniteSet((m + 1)..(m + n)) /\ Cardinality((m + 1)..(m + n)) = n
  <2>1. m + 1 \in Int /\ m + n \in Int
    OBVIOUS
  <2>2. (IF m + 1 > m + n THEN 0 ELSE (m + n) - (m + 1) + 1) = n
    OBVIOUS
  <2> QED BY <2>1, <2>2, FS_Interval
<1> PICK T : T = (m + 1)..(m + n)
  OBVIOUS
<1>3. IsFiniteSet(T) /\ Cardinality(T) = n
  BY <1>2
<1>4. IsFiniteSet({k} \X T) /\ Cardinality({k} \X T) = Cardinality({k}) * Cardinality(T)
  BY <1>1, <1>3, FS_Product, Zenon
<1>5. Block(k, m, n) = {k} \X T
  BY Zenon DEF Block
<1>6. Cardinality({k} \X T) = n
  <2> PICK z : z = Cardinality({k} \X T)
    OBVIOUS
  <2>1. z = 1 * n
    BY <1>1, <1>3, <1>4, Zenon
  <2> QED BY <2>1
<1> QED BY <1>4, <1>5, <1>6, Zenon

Bump(g, k, n) == IF g = k THEN n ELSE 0

\* The bytes of the keys s of group g.
Units(c, s, g) == UNION {Block(k, 0, c[k]) : k \in {x \in s : Group(x) = g}}

SingleKeys(c) == {k \in DOMAIN c : k[3] \in Single}

Weight(c, g) == Cardinality(Units(c, SingleKeys(c), g))

Counters(c) == IsFiniteSet(DOMAIN c) /\ \A k \in DOMAIN c : c[k] \in Nat

Amounts(f) == \A g \in DOMAIN f : f[g] \in Nat

LEMMA UnitIn ==
  ASSUME NEW c, NEW s, NEW g, NEW u
  PROVE  u \in Units(c, s, g) <=> \E k \in s : Group(k) = g /\ u \in Block(k, 0, c[k])
BY DEF Units

LEMMA BlockIn ==
  ASSUME NEW k, NEW m \in Nat, NEW n \in Nat, NEW u
  PROVE  u \in Block(k, m, n) <=> \E j \in Nat : u = <<k, j>> /\ m + 1 <= j /\ j <= m + n
BY DEF Block

LEMMA PlusIs ==
  ASSUME NEW f, Amounts(f), NEW k, NEW n \in Nat
  PROVE  /\ Amounts(Plus(f, k, n))
         /\ \A g : /\ BytesOf(f, g) \in Nat
                   /\ BytesOf(Plus(f, k, n), g) = BytesOf(f, g) + Bump(g, k, n)
<1>1. DOMAIN Plus(f, k, n) = DOMAIN f \cup {k}
  BY DEF Plus
<1>2. ASSUME NEW g PROVE BytesOf(f, g) \in Nat
  BY DEF BytesOf, Amounts
<1>3. ASSUME NEW g \in DOMAIN f \cup {k}
      PROVE  Plus(f, k, n)[g] = BytesOf(f, g) + Bump(g, k, n)
  BY DEF Plus, BytesOf, Bump
<1>4. ASSUME NEW g PROVE BytesOf(Plus(f, k, n), g) = BytesOf(f, g) + Bump(g, k, n)
  <2>1. CASE g \in DOMAIN f \cup {k}
    BY <1>1, <1>3, <2>1 DEF BytesOf
  <2>2. CASE g \notin DOMAIN f \cup {k}
    <3>1. BytesOf(Plus(f, k, n), g) = 0 /\ BytesOf(f, g) = 0 /\ g # k
      BY <1>1, <2>2 DEF BytesOf
    <3> QED BY <3>1 DEF Bump
  <2> QED BY <2>1, <2>2
<1>5. Amounts(Plus(f, k, n))
  BY <1>1, <1>2, <1>3 DEF Amounts, Bump
<1> QED BY <1>2, <1>4, <1>5

\* One more key.
LEMMA UnitsGrow ==
  ASSUME NEW c, NEW s, NEW x, x \notin s, NEW g, IsFiniteSet(Units(c, s, g)), c[x] \in Nat,
         \A k \in s : c[k] \in Nat
  PROVE  /\ IsFiniteSet(Units(c, s \cup {x}, g))
         /\ Cardinality(Units(c, s, g)) \in Nat
         /\ Cardinality(Units(c, s \cup {x}, g)) =
              Cardinality(Units(c, s, g)) + Bump(g, Group(x), c[x])
<1>0. Cardinality(Units(c, s, g)) \in Nat
  BY FS_CardinalityType
<1>1. CASE Group(x) = g
  <2>1. Units(c, s \cup {x}, g) = Units(c, s, g) \cup Block(x, 0, c[x])
    <3>1. ASSUME NEW u
          PROVE  u \in Units(c, s \cup {x}, g) <=> u \in Units(c, s, g) \/ u \in Block(x, 0, c[x])
      BY <1>1, UnitIn
    <3> QED BY <3>1
  <2>2. Units(c, s, g) \cap Block(x, 0, c[x]) = {}
    <3>1. ASSUME NEW u, u \in Units(c, s, g), u \in Block(x, 0, c[x]) PROVE FALSE
      <4>1. PICK k \in s : u \in Block(k, 0, c[k])
        BY <3>1, UnitIn
      <4>2. 0 \in Nat /\ c[k] \in Nat
        OBVIOUS
      <4>3. PICK i \in Nat : u = <<k, i>>
        BY <4>1, <4>2, BlockIn
      <4>4. PICK j \in Nat : u = <<x, j>>
        BY <3>1, <4>2, BlockIn
      <4>5. k = x
        BY <4>3, <4>4
      <4> QED BY <4>5
    <3> QED BY <3>1
  <2>3. IsFiniteSet(Block(x, 0, c[x])) /\ Cardinality(Block(x, 0, c[x])) = c[x]
    BY BlockSize
  <2> PICK U : U = Units(c, s, g)
    OBVIOUS
  <2> PICK B : B = Block(x, 0, c[x])
    OBVIOUS
  <2>4. /\ IsFiniteSet(U \cup B) /\ Cardinality(U \cup B) = Cardinality(U) + Cardinality(B)
    <3>1. IsFiniteSet(U) /\ IsFiniteSet(B) /\ U \cap B = {}
      BY <2>2, <2>3
    <3> QED BY <3>1, Disjoint
  <2>5. Bump(g, Group(x), c[x]) = c[x]
    BY <1>1 DEF Bump
  <2> QED BY <1>0, <2>1, <2>3, <2>4, <2>5, Zenon
<1>2. CASE Group(x) # g
  <2>1. Units(c, s \cup {x}, g) = Units(c, s, g)
    <3>1. ASSUME NEW u PROVE u \in Units(c, s \cup {x}, g) <=> u \in Units(c, s, g)
      BY <1>2, UnitIn
    <3> QED BY <3>1
  <2> QED BY <1>0, <1>2, <2>1 DEF Bump
<1> QED BY <1>1, <1>2

\* The map v is f and the bytes of the keys t.
Built(v, f, c, t) ==
  /\ Amounts(v)
  /\ \A g : IsFiniteSet(Units(c, t, g)) /\ BytesOf(v, g) = BytesOf(f, g) + Cardinality(Units(c, t, g))

LEMMA OneMore ==
  ASSUME NEW f, NEW v, NEW c, NEW t, NEW x, Built(v, f, c, t),
         x \notin t, c[x] \in Nat, \A k \in t : c[k] \in Nat, \A g : BytesOf(f, g) \in Nat
  PROVE  Built(Plus(v, Group(x), c[x]), f, c, t \cup {x})
<1> PICK w : w = Plus(v, Group(x), c[x])
  OBVIOUS
<1>0. /\ Amounts(v)
      /\ \A g : IsFiniteSet(Units(c, t, g)) /\ BytesOf(v, g) = BytesOf(f, g) + Cardinality(Units(c, t, g))
  BY DEF Built
<1> PICK n \in Nat : n = c[x]
  OBVIOUS
<1>1. Amounts(w) /\ \A g : BytesOf(v, g) \in Nat /\ BytesOf(w, g) = BytesOf(v, g) + Bump(g, Group(x), n)
  <2>1. w = Plus(v, Group(x), n)
    OBVIOUS
  <2> QED BY <1>0, <2>1, PlusIs
<1>2. ASSUME NEW g
      PROVE  /\ IsFiniteSet(Units(c, t \cup {x}, g))
             /\ BytesOf(w, g) = BytesOf(f, g) + Cardinality(Units(c, t \cup {x}, g))
  <2>1. /\ IsFiniteSet(Units(c, t \cup {x}, g))
        /\ Cardinality(Units(c, t, g)) \in Nat
        /\ Cardinality(Units(c, t \cup {x}, g)) = Cardinality(Units(c, t, g)) + Bump(g, Group(x), n)
    BY <1>0, UnitsGrow
  <2>2. Bump(g, Group(x), n) \in Nat
    BY DEF Bump
  <2>3. BytesOf(w, g) = BytesOf(v, g) + Bump(g, Group(x), n)
    BY <1>1
  <2>4. BytesOf(v, g) = BytesOf(f, g) + Cardinality(Units(c, t, g)) /\ BytesOf(f, g) \in Nat
    BY <1>0
  <2> QED BY <2>1, <2>2, <2>3, <2>4
<1> QED BY <1>1, <1>2 DEF Built

LEMMA TotalsAdd ==
  ASSUME NEW f, Amounts(f), NEW c, Counters(c)
  PROVE  /\ Amounts(Totals(f, c))
         /\ \A g : /\ Weight(c, g) \in Nat /\ BytesOf(f, g) \in Nat
                   /\ IsFiniteSet(Units(c, SingleKeys(c), g))
                   /\ BytesOf(Totals(f, c), g) = BytesOf(f, g) + Weight(c, g)
<1> PICK S : S = SingleKeys(c)
  OBVIOUS
<1>0. IsFiniteSet(S) /\ \A k \in S : c[k] \in Nat
  BY FS_Subset DEF Counters, SingleKeys
<1>1. PICK it : Iterates(it, "totals", c, f, SUBSET S) /\ Totals(f, c) = it[S]
  <2> DEFINE F(h) == [s \in SUBSET S |-> IF s = {} THEN f
                        ELSE Plus(h[s \ {CHOOSE x \in s : TRUE}], Group(CHOOSE x \in s : TRUE), c[CHOOSE x \in s : TRUE])]
  <2>1. PICK e : Iterates(e, "totals", c, f, SUBSET S)
    BY <1>0, IteratesExist DEF AnyOrder
  <2>2. ASSUME NEW h PROVE F(h) = [s \in SUBSET S |-> Iterate(h, "totals", c, f, s)]
    BY DEF Iterate, FoldStep, Chosen, AnyOrder
  <2>3. e = F(e)
    <3> HIDE DEF F
    <3> QED BY <2>1, <2>2 DEF Iterates
  <2> PICK h : h = CHOOSE x : x = F(x)
    OBVIOUS
  <2>4. Totals(f, c) = h[S]
    BY Zenon DEF Totals, FoldSet, MapThenFoldSet, SingleKeys
  <2>5. h = F(h)
    <3> HIDE DEF F
    <3> QED BY <2>3, Zenon
  <2>6. Iterates(h, "totals", c, f, SUBSET S)
    <3> HIDE DEF F
    <3> QED BY <2>2, <2>5 DEF Iterates
  <2> QED BY <2>4, <2>6
<1> DEFINE Good(s) == Built(it[s], f, c, s)
<1> PICK N \in Nat : N = Cardinality(S)
  BY <1>0, FS_CardinalityType
<1> DEFINE A == {n \in 0..N : \A s \in SUBSET S : Cardinality(s) <= n => Good(s)}
<1>2. ASSUME NEW s \in SUBSET S PROVE IsFiniteSet(s) /\ Cardinality(s) \in Nat /\ (Cardinality(s) = 0 <=> s = {})
  <2>1. IsFiniteSet(s)
    BY <1>0, FS_Subset
  <2> QED BY <2>1, FS_CardinalityType, FS_EmptySet
<1>3. ASSUME NEW g PROVE BytesOf(f, g) \in Nat
  BY DEF BytesOf, Amounts
<1>4. Good({})
  <2>1. it[{}] = f
    BY <1>1 DEF Iterates, Iterate
  <2>2. ASSUME NEW g PROVE Units(c, {}, g) = {}
    BY UnitIn
  <2>3. IsFiniteSet({}) /\ Cardinality({}) = 0
    BY FS_EmptySet
  <2>4. ASSUME NEW g PROVE BytesOf(f, g) = BytesOf(f, g) + 0
    BY <1>3
  <2> QED BY <2>1, <2>2, <2>3, <2>4 DEF Built
<1>5. 0 \in A
  <2>1. ASSUME NEW s \in SUBSET S, Cardinality(s) <= 0 PROVE Good(s)
    <3>1. Cardinality(s) \in Nat /\ (Cardinality(s) = 0 <=> s = {})
      BY <1>2
    <3>2. s = {}
      BY <2>1, <3>1
    <3> HIDE DEF Good
    <3> QED BY <1>4, <3>2
  <2> HIDE DEF Good
  <2> QED BY <2>1
<1>6. ASSUME NEW n \in 0..(N - 1), n \in A PROVE n + 1 \in A
  <2>1. ASSUME NEW s \in SUBSET S, Cardinality(s) <= n + 1 PROVE Good(s)
    <3>1. CASE s = {}
      <4> HIDE DEF Good
      <4> QED BY <1>4, <3>1
    <3>2. CASE s # {}
      <4> PICK x : x = Chosen("totals", s)
        OBVIOUS
      <4>1. x \in s
        BY <3>2 DEF Chosen, AnyOrder
      <4> PICK t : t = s \ {x}
        OBVIOUS
      <4>2. t \in SUBSET S /\ x \notin t /\ s = t \cup {x} /\ c[x] \in Nat
        BY <1>0, <4>1
      <4>3. IsFiniteSet(s) /\ Cardinality(s) \in Nat
        BY <1>2
      <4>4. Cardinality(t) = Cardinality(s) - 1
        BY <4>1, <4>3, FS_RemoveElement
      <4>5. Cardinality(t) <= n
        BY <2>1, <4>3, <4>4
      <4>6. Good(t)
        <5> HIDE DEF Good
        <5> QED BY <1>6, <4>2, <4>5
      <4>7. it[s] = Plus(it[t], Group(x), c[x])
        <5>1. it[s] = Iterate(it, "totals", c, f, s)
          BY <1>1 DEF Iterates
        <5> QED BY <3>2, <5>1 DEF Iterate, FoldStep
      <4>8. \A k \in t : c[k] \in Nat
        BY <1>0, <4>2
      <4>9. Good(t \cup {x})
        <5>1. Built(Plus(it[t], Group(x), c[x]), f, c, t \cup {x})
          BY <1>3, <4>2, <4>6, <4>8, OneMore
        <5> QED BY <4>2, <4>7, <5>1
      <4> HIDE DEF Good
      <4> QED BY <4>2, <4>9
    <3> QED BY <3>1, <3>2
  <2>2. n + 1 \in 0..N
    OBVIOUS
  <2> HIDE DEF Good
  <2> QED BY <2>1, <2>2
<1>7. N \in A
  <2> HIDE DEF A
  <2>1. 0..N \subseteq A
    BY <1>5, <1>6, UpToAll
  <2> QED BY <2>1
<1>8. Good(S)
  <2> HIDE DEF Good
  <2> QED BY <1>7
<1>9. ASSUME NEW g PROVE Cardinality(Units(c, S, g)) \in Nat
  BY <1>8, FS_CardinalityType DEF Built
<1> QED BY <1>1, <1>3, <1>8, <1>9 DEF Weight, Built

-----------------------------------------------------------------------------
(* Adding a record.                                                        *)

Share(g, k, n) == IF k[3] \in Single /\ g = Group(k) THEN n ELSE 0

LEMMA CountMore ==
  ASSUME NEW c, Counters(c), NEW k, NEW n \in Nat
  PROVE  /\ Counters(Plus(c, k, n))
         /\ \A g : /\ Weight(c, g) \in Nat
                   /\ Weight(Plus(c, k, n), g) = Weight(c, g) + Share(g, k, n)
<1> PICK d : d = Plus(c, k, n)
  OBVIOUS
<1> PICK a : a = BytesOf(c, k)
  OBVIOUS
<1>1. DOMAIN d = DOMAIN c \cup {k} /\ a \in Nat
  BY DEF Plus, BytesOf, Counters
<1>2. d[k] = a + n /\ \A x \in DOMAIN c : x # k => d[x] = c[x]
  BY DEF Plus, BytesOf, Counters
<1>3. Counters(d)
  <2>1. IsFiniteSet(DOMAIN d)
    BY <1>1, FS_AddElement DEF Counters
  <2>2. ASSUME NEW x \in DOMAIN d PROVE d[x] \in Nat
    BY <1>1, <1>2 DEF Counters
  <2> QED BY <2>1, <2>2 DEF Counters
<1>4. ASSUME NEW g PROVE Weight(c, g) \in Nat /\ Weight(d, g) = Weight(c, g) + Share(g, k, n)
  <2> PICK U : U = Units(c, SingleKeys(c), g)
    OBVIOUS
  <2>1. IsFiniteSet(U) /\ Weight(c, g) = Cardinality(U) /\ Weight(c, g) \in Nat
    <3>1. Amounts(<<>>)
      BY DEF Amounts
    <3> QED BY <3>1, TotalsAdd DEF Weight
  <2>2. ASSUME NEW x, NEW u, x \in DOMAIN c
        PROVE  u \in Block(x, 0, c[x]) <=> \E j \in Nat : u = <<x, j>> /\ 1 <= j /\ j <= c[x]
    <3>1. c[x] \in Nat /\ 0 \in Nat /\ 0 + 1 = 1 /\ 0 + c[x] = c[x]
      BY <2>2 DEF Counters
    <3> QED BY <3>1, BlockIn
  <2>3. ASSUME NEW x, NEW u, x \in DOMAIN d
        PROVE  u \in Block(x, 0, d[x]) <=> \E j \in Nat : u = <<x, j>> /\ 1 <= j /\ j <= d[x]
    <3>1. d[x] \in Nat /\ 0 \in Nat /\ 0 + 1 = 1 /\ 0 + d[x] = d[x]
      BY <1>3, <2>3 DEF Counters
    <3> QED BY <3>1, BlockIn
  <2>4. ASSUME NEW u
        PROVE  u \in U <=> \E x \in SingleKeys(c) : Group(x) = g /\ u \in Block(x, 0, c[x])
    BY UnitIn
  <2>5. ASSUME NEW u
        PROVE  u \in Units(d, SingleKeys(d), g) <=>
                 \E x \in SingleKeys(d) : Group(x) = g /\ u \in Block(x, 0, d[x])
    BY UnitIn
  <2>6. CASE k[3] \in Single /\ g = Group(k)
    <3> PICK B : B = Block(k, a, n)
      OBVIOUS
    <3>1. ASSUME NEW u
          PROVE  u \in B <=> \E j \in Nat : u = <<k, j>> /\ a + 1 <= j /\ j <= a + n
      BY <1>1, BlockIn
    <3>2. k \in SingleKeys(d)
      BY <1>1, <2>6 DEF SingleKeys
    <3>3. ASSUME NEW u, u \in U PROVE u \in Units(d, SingleKeys(d), g)
      <4>1. PICK x \in SingleKeys(c) : Group(x) = g /\ u \in Block(x, 0, c[x])
        BY <2>4, <3>3
      <4>2. x \in DOMAIN c /\ x \in SingleKeys(d) /\ x \in DOMAIN d
        BY <1>1 DEF SingleKeys
      <4>3. PICK j \in Nat : u = <<x, j>> /\ 1 <= j /\ j <= c[x]
        BY <2>2, <4>1, <4>2
      <4>4. j <= d[x]
        <5>1. CASE x = k
          <6>1. c[x] = a
            BY <4>2, <5>1 DEF BytesOf
          <6> QED BY <1>1, <1>2, <4>3, <5>1, <6>1
        <5>2. CASE x # k
          BY <1>2, <4>2, <4>3, <5>2
        <5> QED BY <5>1, <5>2
      <4>5. u \in Block(x, 0, d[x])
        BY <2>3, <4>2, <4>3, <4>4
      <4> QED BY <2>5, <4>1, <4>2, <4>5
    <3>4. ASSUME NEW u, u \in B PROVE u \in Units(d, SingleKeys(d), g) /\ u \notin U
      <4>1. PICK j \in Nat : u = <<k, j>> /\ a + 1 <= j /\ j <= a + n
        BY <3>1, <3>4
      <4>2. 1 <= j /\ j <= d[k] /\ k \in DOMAIN d
        BY <1>1, <1>2, <4>1
      <4>3. u \in Block(k, 0, d[k])
        BY <2>3, <4>1, <4>2
      <4>4. u \in Units(d, SingleKeys(d), g)
        BY <2>5, <2>6, <3>2, <4>3
      <4>5. ASSUME u \in U PROVE FALSE
        <5>1. PICK x \in SingleKeys(c) : u \in Block(x, 0, c[x])
          BY <2>4, <4>5
        <5>2. x \in DOMAIN c
          BY DEF SingleKeys
        <5>3. PICK i \in Nat : u = <<x, i>> /\ i <= c[x]
          BY <2>2, <5>1, <5>2
        <5>4. x = k /\ i = j
          BY <4>1, <5>3
        <5>5. c[x] = a
          BY <5>2, <5>4 DEF BytesOf
        <5> QED BY <1>1, <4>1, <5>3, <5>4, <5>5
      <4> QED BY <4>4, <4>5
    <3>5. ASSUME NEW u, u \in Units(d, SingleKeys(d), g) PROVE u \in U \/ u \in B
      <4>1. PICK x \in SingleKeys(d) : Group(x) = g /\ u \in Block(x, 0, d[x])
        BY <2>5, <3>5
      <4>2. x \in DOMAIN d /\ x[3] \in Single
        BY DEF SingleKeys
      <4>3. PICK j \in Nat : u = <<x, j>> /\ 1 <= j /\ j <= d[x]
        BY <2>3, <4>1, <4>2
      <4>4. CASE x # k
        <5>1. x \in DOMAIN c /\ d[x] = c[x] /\ x \in SingleKeys(c)
          BY <1>1, <1>2, <4>2, <4>4 DEF SingleKeys
        <5>2. u \in Block(x, 0, c[x])
          BY <4>1, <5>1
        <5> QED BY <2>4, <4>1, <5>1, <5>2
      <4>5. CASE x = k /\ j > a
        <5>1. a + 1 <= j /\ j <= a + n
          BY <1>1, <1>2, <4>3, <4>5
        <5> QED BY <3>1, <4>3, <4>5, <5>1
      <4>6. CASE x = k /\ ~(j > a)
        <5>1. a > 0
          BY <1>1, <4>3, <4>6
        <5>2. k \in DOMAIN c /\ c[k] = a
          BY <5>1 DEF BytesOf
        <5>3. j <= c[k]
          BY <1>1, <4>6, <5>2
        <5>4. u \in Block(k, 0, c[k])
          BY <2>2, <4>3, <4>6, <5>2, <5>3
        <5>5. k \in SingleKeys(c)
          BY <4>2, <4>6, <5>2 DEF SingleKeys
        <5> QED BY <2>4, <2>6, <5>4, <5>5
      <4> QED BY <4>4, <4>5, <4>6
    <3>6. Units(d, SingleKeys(d), g) = U \cup B /\ U \cap B = {}
      BY <3>3, <3>4, <3>5
    <3>7. IsFiniteSet(B) /\ Cardinality(B) = n
      BY <1>1, BlockSize
    <3>8. Cardinality(U \cup B) = Cardinality(U) + Cardinality(B)
      BY <2>1, <3>6, <3>7, Disjoint
    <3>9. Share(g, k, n) = n
      BY <2>6 DEF Share
    <3> QED BY <2>1, <3>6, <3>7, <3>8, <3>9 DEF Weight
  <2>7. CASE ~(k[3] \in Single /\ g = Group(k))
    <3>1. ASSUME NEW x, Group(x) = g PROVE x \in SingleKeys(d) <=> x \in SingleKeys(c)
      BY <1>1, <2>7, <3>1 DEF SingleKeys
    <3>2. ASSUME NEW x \in SingleKeys(c), Group(x) = g PROVE d[x] = c[x]
      BY <1>2, <2>7, <3>2 DEF SingleKeys
    <3>3. ASSUME NEW u PROVE u \in Units(d, SingleKeys(d), g) <=> u \in U
      BY <2>4, <2>5, <3>1, <3>2
    <3>4. Units(d, SingleKeys(d), g) = U
      BY <3>3
    <3>5. Share(g, k, n) = 0
      BY <2>7 DEF Share
    <3>6. Weight(d, g) = Weight(c, g)
      BY <3>4 DEF Weight
    <3> QED BY <2>1, <3>5, <3>6
  <2> QED BY <2>6, <2>7
<1> QED BY <1>3, <1>4

\* The cap folds a key into the "other" of its own group.
LEMMA AddCounts ==
  ASSUME NEW c, Counters(c), NEW k, NEW n \in Nat
  PROVE  /\ Counters(add(c, k, n))
         /\ \A g : /\ Weight(c, g) \in Nat
                   /\ Weight(add(c, k, n), g) = Weight(c, g) + Share(g, k, n)
<1>1. ASSUME NEW g PROVE Share(g, OtherKey(k), n) = Share(g, k, n)
  BY DEF Share, OtherKey, Group
<1>2. CASE AtCap(c, k)
  <2>1. add(c, k, n) = Plus(c, OtherKey(k), n)
    BY <1>2 DEF add
  <2>2. /\ Counters(Plus(c, OtherKey(k), n))
        /\ \A g : /\ Weight(c, g) \in Nat
                  /\ Weight(Plus(c, OtherKey(k), n), g) = Weight(c, g) + Share(g, OtherKey(k), n)
    BY CountMore
  <2> QED BY <1>1, <2>1, <2>2, Zenon
<1>3. CASE ~AtCap(c, k)
  <2>1. add(c, k, n) = Plus(c, k, n)
    BY <1>3 DEF add
  <2> QED BY <2>1, CountMore
<1> QED BY <1>2, <1>3

\* A record's keys: two talkers, the conversation, the application, and keys
\* of dimensions in which a record may have several values or none.
ValueKey(e, r, dim, v) == <<e, ifIndexOf(r), dim, <<v>>>>

Heads(s, e, r, R) ==
  /\ Len(s) \in Nat /\ Len(s) >= 4 /\ (\E S : s \in Seq(S))
  /\ s[1][3] = "talker" /\ s[2][3] = "talker"
  /\ s[3][3] = "conversation" /\ Group(s[3]) = <<e, ifIndexOf(r), "conversation">>
  /\ s[4][3] = "application" /\ Group(s[4]) = <<e, ifIndexOf(r), "application">>
  /\ \A i \in 5..Len(s) : s[i] \in R

LEMMA HeadsMore ==
  ASSUME NEW s, NEW e, NEW r, NEW R, Heads(s, e, r, R), NEW t \in Seq(R)
  PROVE  Heads(s \o t, e, r, R)
<1>1. PICK S : s \in Seq(S)
  BY DEF Heads
<1>2. s \in Seq(S \cup R) /\ t \in Seq(S \cup R)
  BY <1>1
<1>3. s \o t \in Seq(S \cup R) /\ Len(s \o t) = Len(s) + Len(t) /\ Len(s) \in Nat /\ Len(t) \in Nat
  BY <1>2
<1>4. Len(s) >= 4
  BY DEF Heads
<1>5. \A i \in 1..Len(s) : (s \o t)[i] = s[i]
  BY <1>2
<1>6. 1 \in 1..Len(s) /\ 2 \in 1..Len(s) /\ 3 \in 1..Len(s) /\ 4 \in 1..Len(s)
  BY <1>3, <1>4
<1>7. ASSUME NEW i \in 5..Len(s \o t) PROVE (s \o t)[i] \in R
  <2>1. CASE i <= Len(s)
    <3>1. i \in 5..Len(s) /\ i \in 1..Len(s)
      BY <1>3, <2>1
    <3> QED BY <1>5, <3>1 DEF Heads
  <2>2. CASE ~(i <= Len(s))
    <3>1. i - Len(s) \in 1..Len(t) /\ (s \o t)[i] = t[i - Len(s)]
      BY <1>2, <1>3, <2>2
    <3> QED BY <3>1
  <2> QED BY <2>1, <2>2
<1>8. Len(s \o t) \in Nat /\ Len(s \o t) >= 4
  BY <1>3, <1>4
<1>9. (s \o t)[1] = s[1] /\ (s \o t)[2] = s[2] /\ (s \o t)[3] = s[3] /\ (s \o t)[4] = s[4]
  BY <1>5, <1>6
<1> PICK j : j = s \o t
  OBVIOUS
<1> QED BY <1>3, <1>7, <1>8, <1>9 DEF Heads

LEMMA KeysAre ==
  ASSUME NEW e, NEW r
  PROVE  \E R : Heads(KeysOf(e, r), e, r, R) /\ \A k \in R : k[3] \notin Single
<1> DEFINE K(dim, v) == ValueKey(e, r, dim, v)
<1> PICK a1 : a1 = K("as", r.srcAS)
  OBVIOUS
<1> PICK a2 : a2 = K("as", r.dstAS)
  OBVIOUS
<1> PICK b1 : b1 = K("subnet", subnet(r.src))
  OBVIOUS
<1> PICK b2 : b2 = K("subnet", subnet(r.dst))
  OBVIOUS
<1> PICK f1 : f1 = K("flags", r.tcp)
  OBVIOUS
<1> PICK R : R = {a1, a2, b1, b2, f1}
  OBVIOUS
<1>1. \A k \in R : k[3] \notin Single
  BY DEF Single, ValueKey
<1> PICK k1 : k1 = K("talker", r.src)
  OBVIOUS
<1> PICK k2 : k2 = K("talker", r.dst)
  OBVIOUS
<1> PICK k3 : k3 = K("conversation", {r.src, r.dst})
  OBVIOUS
<1> PICK k4 : k4 = K("application", application(r))
  OBVIOUS
<1> PICK s : s = <<k1, k2, k3, k4>>
  OBVIOUS
<1>2. Heads(s, e, r, R)
  <2>1. k1[3] = "talker" /\ k2[3] = "talker" /\ k3[3] = "conversation" /\ k4[3] = "application"
    BY DEF ValueKey
  <2>2. Group(k3) = <<e, ifIndexOf(r), "conversation">> /\ Group(k4) = <<e, ifIndexOf(r), "application">>
    BY DEF ValueKey, Group
  <2> HIDE DEF K
  <2>3. s \in Seq({k1, k2, k3, k4}) /\ Len(s) = 4 /\ s[1] = k1 /\ s[2] = k2 /\ s[3] = k3 /\ s[4] = k4
    OBVIOUS
  <2>4. \A i \in 5..4 : s[i] \in R
    OBVIOUS
  <2>5. 4 \in Nat /\ 4 >= 4
    OBVIOUS
  <2> QED BY <2>1, <2>2, <2>3, <2>4, <2>5, Zenon DEF Heads
<1> PICK t1 : t1 = IF r.srcAS # 0 THEN <<a1>> ELSE <<>>
  OBVIOUS
<1> PICK t2 : t2 = IF r.dstAS # 0 /\ r.dstAS # r.srcAS THEN <<a2>> ELSE <<>>
  OBVIOUS
<1> PICK t3 : t3 = <<b1>>
  OBVIOUS
<1> PICK t4 : t4 = IF subnet(r.dst) # subnet(r.src) THEN <<b2>> ELSE <<>>
  OBVIOUS
<1> PICK t5 : t5 = IF r.tcp THEN <<f1>> ELSE <<>>
  OBVIOUS
<1>3. t1 \in Seq(R) /\ t2 \in Seq(R) /\ t3 \in Seq(R) /\ t4 \in Seq(R) /\ t5 \in Seq(R)
  <2>1. <<a1>> \in Seq(R) /\ <<a2>> \in Seq(R) /\ <<b1>> \in Seq(R) /\ <<b2>> \in Seq(R)
        /\ <<f1>> \in Seq(R) /\ <<>> \in Seq(R)
    OBVIOUS
  <2> QED BY <2>1
<1>4. KeysOf(e, r) = s \o t1 \o t2 \o t3 \o t4 \o t5
  BY Zenon DEF KeysOf, ValueKey
<1> HIDE DEF K
<1>5. PICK u1 : u1 = s \o t1 /\ Heads(u1, e, r, R)
  BY <1>2, <1>3, HeadsMore
<1>6. PICK u2 : u2 = u1 \o t2 /\ Heads(u2, e, r, R)
  BY <1>3, <1>5, HeadsMore, ZenonT(40)
<1>7. PICK u3 : u3 = u2 \o t3 /\ Heads(u3, e, r, R)
  BY <1>3, <1>6, HeadsMore
<1>8. PICK u4 : u4 = u3 \o t4 /\ Heads(u4, e, r, R)
  BY <1>3, <1>7, HeadsMore
<1>9. PICK u5 : u5 = u4 \o t5 /\ Heads(u5, e, r, R)
  BY <1>3, <1>8, HeadsMore, ZenonT(40)
<1>10. KeysOf(e, r) = u5
  BY <1>4, <1>5, <1>6, <1>7, <1>8, <1>9, Zenon
<1> QED BY <1>1, <1>9, <1>10, Zenon

\* What a record is worth to a group.
Worth(g, e, r) ==
  IF ifIndexOf(r) # 0 /\ g \in {<<e, ifIndexOf(r), "conversation">>, <<e, ifIndexOf(r), "application">>}
  THEN r.bytes ELSE 0

LEMMA RecordCounts ==
  ASSUME NEW c, Counters(c), NEW e, NEW r, r.bytes \in Nat
  PROVE  /\ Counters(AddRecord(c, e, r))
         /\ \A g : /\ Weight(c, g) \in Nat
                   /\ Weight(AddRecord(c, e, r), g) = Weight(c, g) + Worth(g, e, r)
<1>0. ASSUME NEW g PROVE Weight(c, g) \in Nat
  BY AddCounts
<1>1. CASE ifIndexOf(r) = 0
  <2>1. AddRecord(c, e, r) = c /\ \A g : Worth(g, e, r) = 0
    BY <1>1 DEF AddRecord, Worth
  <2> QED BY <1>0, <2>1
<1>2. CASE ifIndexOf(r) # 0
  <2> PICK keys : keys = KeysOf(e, r)
    OBVIOUS
  <2> PICK b \in Nat : b = r.bytes
    OBVIOUS
  <2>1. PICK R : Heads(keys, e, r, R) /\ \A k \in R : k[3] \notin Single
    BY KeysAre
  <2> PICK n : n = Len(keys)
    OBVIOUS
  <2>2. n \in Nat /\ n >= 4 /\ DOMAIN keys = 1..n
    BY <2>1 DEF Heads
  <2> PICK a : a = [keys |-> keys, bytes |-> b]
    OBVIOUS
  <2>3. PICK it : Iterates(it, "keys", a, c, SUBSET (1..n)) /\ AddRecord(c, e, r) = it[1..n]
    <3> DEFINE F(h) == [s \in SUBSET DOMAIN keys |-> IF s = {} THEN c ELSE add(h[s \ {Max(s)}], keys[Max(s)], b)]
    <3>0. 1..n \subseteq Nat /\ IsFiniteSet(1..n)
      BY <2>2, FirstFinite
    <3>1. PICK x : Iterates(x, "keys", a, c, SUBSET (1..n))
      BY <3>0, IteratesExist
    <3>2. ASSUME NEW h PROVE F(h) = [s \in SUBSET (1..n) |-> Iterate(h, "keys", a, c, s)]
      BY <2>2 DEF Iterate, FoldStep, Chosen, AnyOrder
    <3>3. x = F(x)
      <4> HIDE DEF F
      <4> QED BY <3>1, <3>2 DEF Iterates
    <3> PICK h : h = CHOOSE y : y = F(y)
      OBVIOUS
    <3>4. AddRecord(c, e, r) = h[DOMAIN keys]
      BY <1>2, Zenon DEF AddRecord, FoldLeft, MapThenFoldSet
    <3>5. h = F(h)
      <4> HIDE DEF F
      <4> QED BY <3>3, Zenon
    <3>6. Iterates(h, "keys", a, c, SUBSET (1..n))
      <4> HIDE DEF F
      <4> QED BY <3>2, <3>5 DEF Iterates
    <3> HIDE DEF F
    <3> QED BY <2>2, <3>4, <3>6
  <2>4. it[1..0] = c /\ \A i \in 1..n : it[1..i] = add(it[1..(i - 1)], keys[i], b)
    <3>1. ~AnyOrder("keys")
      BY DEF AnyOrder
    <3>2. InTurn(it, "keys", a, c, n)
      BY <2>2, <2>3, <3>1, LeftToRight
    <3> QED BY <3>2 DEF InTurn, FoldStep
  <2> DEFINE Gc == <<e, ifIndexOf(r), "conversation">>
             Ga == <<e, ifIndexOf(r), "application">>
  <2> DEFINE So(i, g) == (IF i >= 3 /\ g = Gc THEN b ELSE 0) + (IF i >= 4 /\ g = Ga THEN b ELSE 0)
  <2>5. ASSUME NEW i \in 1..n, NEW g PROVE So(i, g) = So(i - 1, g) + Share(g, keys[i], b)
    <3>0. i = 1 \/ i = 2 \/ i = 3 \/ i = 4 \/ i \in 5..n
      BY <2>2
    <3>1. CASE i = 1 \/ i = 2
      <4>1. Share(g, keys[i], b) = 0
        BY <2>1, <3>1 DEF Heads, Share, Single
      <4> QED BY <3>1, <4>1
    <3>2. CASE i = 3
      <4>1. Share(g, keys[i], b) = IF g = Gc THEN b ELSE 0
        BY <2>1, <3>2 DEF Heads, Share, Single
      <4> QED BY <3>2, <4>1
    <3>3. CASE i = 4
      <4>1. Share(g, keys[i], b) = IF g = Ga THEN b ELSE 0
        BY <2>1, <3>3 DEF Heads, Share, Single
      <4> QED BY <3>3, <4>1
    <3>4. CASE i \in 5..n
      <4>1. Share(g, keys[i], b) = 0
        BY <2>1, <3>4 DEF Heads, Share
      <4> QED BY <3>4, <4>1
    <3> QED BY <3>0, <3>1, <3>2, <3>3, <3>4
  <2>6. ASSUME NEW i \in 0..n, NEW g PROVE So(i, g) \in Nat
    OBVIOUS
  <2>7. ASSUME NEW g PROVE So(0, g) = 0 /\ So(n, g) = Worth(g, e, r)
    BY <1>2, <2>2 DEF Worth
  <2> HIDE DEF So
  <2> DEFINE A == {i \in 0..n : Counters(it[1..i]) /\ \A g : Weight(it[1..i], g) = Weight(c, g) + So(i, g)}
  <2>8. 0 \in A
    <3>1. \A g : Weight(it[1..0], g) = Weight(c, g) + So(0, g)
      BY <1>0, <2>4, <2>7
    <3> QED BY <2>2, <2>4, <3>1
  <2>9. ASSUME NEW i \in 0..(n - 1), i \in A PROVE i + 1 \in A
    <3>1. i + 1 \in 1..n /\ i + 1 \in 0..n /\ i \in 0..n /\ (i + 1) - 1 = i
      BY <2>2
    <3> PICK v : v = it[1..i]
      OBVIOUS
    <3> PICK w : w = it[1..(i + 1)]
      OBVIOUS
    <3>2. w = add(v, keys[i + 1], b)
      BY <2>4, <3>1
    <3>3. Counters(v) /\ \A g : Weight(v, g) = Weight(c, g) + So(i, g)
      BY <2>9
    <3>4. Counters(w) /\ \A g : Weight(v, g) \in Nat /\ Weight(w, g) = Weight(v, g) + Share(g, keys[i + 1], b)
      BY <3>2, <3>3, AddCounts
    <3>5. ASSUME NEW g PROVE Weight(w, g) = Weight(c, g) + So(i + 1, g)
      <4>1. So(i + 1, g) = So(i, g) + Share(g, keys[i + 1], b)
        BY <2>5, <3>1
      <4>2. So(i, g) \in Nat /\ Weight(c, g) \in Nat /\ Share(g, keys[i + 1], b) \in Nat
        BY <1>0, <2>6, <3>1 DEF Share
      <4> QED BY <3>3, <3>4, <4>1, <4>2
    <3> QED BY <3>1, <3>4, <3>5
  <2>10. n \in A
    <3> HIDE DEF A
    <3>1. 0..n \subseteq A
      BY <2>2, <2>8, <2>9, UpToAll
    <3> QED BY <2>2, <3>1
  <2> QED BY <1>0, <2>3, <2>7, <2>10
<1> QED BY <1>1, <1>2

LEMMA OfferAdds ==
  ASSUME NEW f, Amounts(f), NEW e, NEW r, r.bytes \in Nat
  PROVE  /\ Amounts(Offer(f, e, r))
         /\ \A g : BytesOf(f, g) \in Nat /\ BytesOf(Offer(f, e, r), g) = BytesOf(f, g) + Worth(g, e, r)
<1> PICK b \in Nat : b = r.bytes
  OBVIOUS
<1> PICK gc : gc = <<e, ifIndexOf(r), "conversation">>
  OBVIOUS
<1> PICK ga : ga = <<e, ifIndexOf(r), "application">>
  OBVIOUS
<1>0. gc # ga /\ \A g : BytesOf(f, g) \in Nat
  BY DEF BytesOf, Amounts
<1>1. CASE ifIndexOf(r) = 0
  <2>1. Offer(f, e, r) = f /\ \A g : Worth(g, e, r) = 0
    BY <1>1 DEF Offer, Worth
  <2> QED BY <1>0, <2>1
<1>2. CASE ifIndexOf(r) # 0
  <2> PICK h : h = Plus(f, gc, b)
    OBVIOUS
  <2>1. Offer(f, e, r) = Plus(h, ga, b)
    BY <1>2 DEF Offer
  <2>2. Amounts(h) /\ \A g : BytesOf(h, g) = BytesOf(f, g) + Bump(g, gc, b)
    BY PlusIs
  <2>3. Amounts(Plus(h, ga, b)) /\ \A g : BytesOf(Plus(h, ga, b), g) = BytesOf(h, g) + Bump(g, ga, b)
    BY <2>2, PlusIs
  <2>4. ASSUME NEW g PROVE Bump(g, gc, b) + Bump(g, ga, b) = Worth(g, e, r)
                           /\ Bump(g, gc, b) \in Nat /\ Bump(g, ga, b) \in Nat
    BY <1>0, <1>2 DEF Bump, Worth
  <2>5. ASSUME NEW g PROVE BytesOf(Offer(f, e, r), g) = BytesOf(f, g) + Worth(g, e, r)
    <3>1. BytesOf(Offer(f, e, r), g) = (BytesOf(f, g) + Bump(g, gc, b)) + Bump(g, ga, b)
      BY <2>1, <2>2, <2>3
    <3> QED BY <1>0, <2>4, <3>1
  <2> QED BY <1>0, <2>1, <2>3, <2>5
<1> QED BY <1>1, <1>2

-----------------------------------------------------------------------------
(* The drain.                                                              *)

LEMMA CutKeeps ==
  ASSUME NEW c, Counters(c)
  PROVE  DOMAIN Cut(c) \subseteq DOMAIN c /\ \A k \in DOMAIN Cut(c) : Cut(c)[k] = c[k]
<1> DEFINE rows(g) == {k \in DOMAIN c : Group(k) = g}
           heaviest(g) == CHOOSE top \in SUBSET rows(g) :
                            /\ Cardinality(top) = Min({TopN, Cardinality(rows(g))})
                            /\ \A k \in top : \A x \in rows(g) \ top : c[k] >= c[x]
<1>1. ASSUME NEW g PROVE heaviest(g) \subseteq rows(g)
  <2> PICK S : S = rows(g)
    OBVIOUS
  <2>1. IsFiniteSet(S) /\ Cardinality(S) \in Nat /\ \A x \in S : c[x] \in Nat
    BY FS_Subset, FS_CardinalityType DEF Counters
  <2> PICK n : n = Min({TopN, Cardinality(S)})
    OBVIOUS
  <2>2. n \in Nat /\ n <= Cardinality(S)
    <3> PICK m : m = Cardinality(S)
      OBVIOUS
    <3>1. TopN \in Nat /\ m \in Nat
      BY <2>1, AggregateAssumption
    <3>2. \E x \in {TopN, m} : \A y \in {TopN, m} : x =< y
      BY <3>1
    <3>3. n \in {TopN, m} /\ \A y \in {TopN, m} : n =< y
      BY <3>2 DEF Min
    <3> QED BY <3>1, <3>3
  <2>3. \E top \in SUBSET S : IsTop(top, S, c, n)
    <3> HIDE DEF heaviest, rows
    <3> QED BY <2>1, <2>2, TopExists
  <2>4. heaviest(g) = CHOOSE top \in SUBSET S : IsTop(top, S, c, n)
    BY Zenon DEF IsTop
  <2>5. heaviest(g) \in SUBSET S
    <3> HIDE DEF heaviest
    <3> QED BY <2>3, <2>4, Zenon
  <2> HIDE DEF heaviest
  <2> QED BY <2>5
<1> PICK kept : kept = UNION {heaviest(Group(k)) : k \in DOMAIN c}
  OBVIOUS
<1>2. Cut(c) = [k \in kept |-> c[k]]
  BY Zenon DEF Cut
<1>3. kept \subseteq DOMAIN c
  <2>1. ASSUME NEW g PROVE heaviest(g) \subseteq DOMAIN c
    BY <1>1
  <2> HIDE DEF heaviest
  <2> QED BY <2>1
<1> HIDE DEF heaviest
<1> QED BY <1>2, <1>3

LEMMA CutSplits ==
  ASSUME NEW c, Counters(c)
  PROVE  /\ Counters(Cut(c)) /\ Counters(Beyond(c, Cut(c)))
         /\ \A g : /\ Weight(Cut(c), g) \in Nat /\ Weight(Beyond(c, Cut(c)), g) \in Nat
                   /\ Weight(c, g) = Weight(Cut(c), g) + Weight(Beyond(c, Cut(c)), g)
<1> PICK d : d = Cut(c)
  OBVIOUS
<1> PICK r : r = Beyond(c, d)
  OBVIOUS
<1>1. DOMAIN d \subseteq DOMAIN c /\ \A k \in DOMAIN d : d[k] = c[k]
  BY CutKeeps
<1>2. DOMAIN r = DOMAIN c \ DOMAIN d /\ \A k \in DOMAIN r : r[k] = c[k]
  BY DEF Beyond
<1>3. Counters(d) /\ Counters(r)
  <2>1. IsFiniteSet(DOMAIN d) /\ IsFiniteSet(DOMAIN r)
    BY <1>1, <1>2, FS_Subset DEF Counters
  <2> QED BY <1>1, <1>2, <2>1 DEF Counters
<1>4. ASSUME NEW g
      PROVE  /\ Weight(d, g) \in Nat /\ Weight(r, g) \in Nat
             /\ Weight(c, g) = Weight(d, g) + Weight(r, g)
  <2> PICK D : D = Units(d, SingleKeys(d), g)
    OBVIOUS
  <2> PICK R : R = Units(r, SingleKeys(r), g)
    OBVIOUS
  <2>0. Amounts(<<>>)
    BY DEF Amounts
  <2>1. IsFiniteSet(D) /\ Weight(d, g) \in Nat /\ Weight(d, g) = Cardinality(D)
    BY <1>3, <2>0, TotalsAdd DEF Weight
  <2>2. IsFiniteSet(R) /\ Weight(r, g) \in Nat /\ Weight(r, g) = Cardinality(R)
    BY <1>3, <2>0, TotalsAdd DEF Weight
  <2>3. ASSUME NEW u PROVE u \in D <=> \E k \in SingleKeys(d) : Group(k) = g /\ u \in Block(k, 0, c[k])
    <3>1. u \in D <=> \E k \in SingleKeys(d) : Group(k) = g /\ u \in Block(k, 0, d[k])
      BY UnitIn
    <3> QED BY <1>1, <3>1 DEF SingleKeys
  <2>4. ASSUME NEW u PROVE u \in R <=> \E k \in SingleKeys(r) : Group(k) = g /\ u \in Block(k, 0, c[k])
    <3>1. u \in R <=> \E k \in SingleKeys(r) : Group(k) = g /\ u \in Block(k, 0, r[k])
      BY UnitIn
    <3> QED BY <1>2, <3>1 DEF SingleKeys
  <2>5. SingleKeys(c) = SingleKeys(d) \cup SingleKeys(r) /\ SingleKeys(d) \cap SingleKeys(r) = {}
    BY <1>1, <1>2 DEF SingleKeys
  <2>6. ASSUME NEW u PROVE u \in Units(c, SingleKeys(c), g) <=> u \in D \/ u \in R
    BY <2>3, <2>4, <2>5, UnitIn
  <2>7. ASSUME NEW u, u \in D, u \in R PROVE FALSE
    <3>1. PICK k \in SingleKeys(d) : u \in Block(k, 0, c[k])
      BY <2>3, <2>7
    <3>2. PICK x \in SingleKeys(r) : u \in Block(x, 0, c[x])
      BY <2>4, <2>7
    <3>3. c[k] \in Nat /\ c[x] \in Nat /\ 0 \in Nat
      BY <1>1, <1>2 DEF SingleKeys, Counters
    <3>4. PICK i \in Nat : u = <<k, i>>
      BY <3>1, <3>3, BlockIn
    <3>5. PICK j \in Nat : u = <<x, j>>
      BY <3>2, <3>3, BlockIn
    <3>6. k = x
      BY <3>4, <3>5
    <3> QED BY <2>5, <3>6
  <2>8. Units(c, SingleKeys(c), g) = D \cup R /\ D \cap R = {}
    BY <2>6, <2>7
  <2>9. Cardinality(D \cup R) = Cardinality(D) + Cardinality(R)
    BY <2>1, <2>2, <2>8, Disjoint
  <2> QED BY <2>1, <2>2, <2>8, <2>9 DEF Weight
<1> QED BY <1>3, <1>4

-----------------------------------------------------------------------------
(* The aggregator.                                                         *)

Conserved(o, c, b, p, l) ==
  \A g : BytesOf(o, g) = Weight(c, g) + Weight(b, g) + BytesOf(p, g) + BytesOf(l, g)

AggregateFits ==
  /\ Counters(counts) /\ Counters(buckets)
  /\ Amounts(offered) /\ Amounts(published) /\ Amounts(cutOff)
  /\ Conserved(offered, counts, buckets, published, cutOff)

LEMMA NothingYet ==
  Counters(<<>>) /\ Amounts(<<>>) /\ (\A g : BytesOf(<<>>, g) = 0) /\ (\A g : Weight(<<>>, g) = 0)
<1>1. DOMAIN <<>> = {}
  OBVIOUS
<1>2. Counters(<<>>) /\ Amounts(<<>>) /\ (\A g : BytesOf(<<>>, g) = 0)
  BY <1>1, FS_EmptySet DEF Counters, Amounts, BytesOf
<1>3. ASSUME NEW g PROVE Weight(<<>>, g) = 0
  <2>1. Units(<<>>, SingleKeys(<<>>), g) = {}
    BY <1>1, UnitIn DEF SingleKeys
  <2> QED BY <2>1, FS_EmptySet DEF Weight
<1> QED BY <1>2, <1>3

LEMMA BytesAreNat ==
  ASSUME NEW f, Amounts(f)
  PROVE  \A g : BytesOf(f, g) \in Nat
BY DEF BytesOf, Amounts

LEMMA WeightIsNat ==
  ASSUME NEW c, Counters(c)
  PROVE  \A g : Weight(c, g) \in Nat
BY AddCounts

\* The records of a packet add the same to the counters as to the history.
LEMMA PacketCounts ==
  ASSUME NEW p \in FlowPackets, NEW c, Counters(c), NEW o, Amounts(o)
  PROVE  /\ Counters(AddAll(c, p)) /\ Amounts(OfferAll(o, p))
         /\ \A g : Weight(AddAll(c, p), g) - Weight(c, g) = BytesOf(OfferAll(o, p), g) - BytesOf(o, g)
<1> PICK n : n = Len(p.records)
  OBVIOUS
<1>1. n \in Nat /\ DOMAIN p.records = 1..n /\ \A i \in 1..n : p.records[i].bytes \in Nat
  BY AggregateAssumption
<1>2. 1..n \subseteq Nat /\ IsFiniteSet(1..n)
  BY <1>1, FirstFinite
<1> PICK d : d = AddAll(c, p)
  OBVIOUS
<1> PICK f : f = OfferAll(o, p)
  OBVIOUS
<1>3. PICK it : Iterates(it, "records", p, c, SUBSET (1..n)) /\ d = it[1..n]
  <2> DEFINE F(h) == [s \in SUBSET DOMAIN p.records |->
                        IF s = {} THEN c ELSE AddRecord(h[s \ {Max(s)}], p.exporter, p.records[Max(s)])]
  <2>1. PICK x : Iterates(x, "records", p, c, SUBSET (1..n))
    BY <1>2, IteratesExist
  <2>2. ASSUME NEW h PROVE F(h) = [s \in SUBSET (1..n) |-> Iterate(h, "records", p, c, s)]
    BY <1>1 DEF Iterate, FoldStep, Chosen, AnyOrder
  <2>3. x = F(x)
    <3> HIDE DEF F
    <3> QED BY <2>1, <2>2 DEF Iterates
  <2> PICK h : h = CHOOSE y : y = F(y)
    OBVIOUS
  <2>4. d = h[DOMAIN p.records]
    BY Zenon DEF AddAll, FoldLeft, MapThenFoldSet
  <2>5. h = F(h)
    <3> HIDE DEF F
    <3> QED BY <2>3, Zenon
  <2> HIDE DEF F
  <2>6. Iterates(h, "records", p, c, SUBSET (1..n))
    BY <2>2, <2>5 DEF Iterates
  <2> QED BY <1>1, <2>4, <2>6
<1>4. PICK jt : Iterates(jt, "offers", p, o, SUBSET (1..n)) /\ f = jt[1..n]
  <2> DEFINE F(h) == [s \in SUBSET DOMAIN p.records |->
                        IF s = {} THEN o ELSE Offer(h[s \ {Max(s)}], p.exporter, p.records[Max(s)])]
  <2>1. PICK x : Iterates(x, "offers", p, o, SUBSET (1..n))
    BY <1>2, IteratesExist
  <2>2. ASSUME NEW h PROVE F(h) = [s \in SUBSET (1..n) |-> Iterate(h, "offers", p, o, s)]
    BY <1>1 DEF Iterate, FoldStep, Chosen, AnyOrder
  <2>3. x = F(x)
    <3> HIDE DEF F
    <3> QED BY <2>1, <2>2 DEF Iterates
  <2> PICK h : h = CHOOSE y : y = F(y)
    OBVIOUS
  <2>4. f = h[DOMAIN p.records]
    BY Zenon DEF OfferAll, FoldLeft, MapThenFoldSet
  <2>5. h = F(h)
    <3> HIDE DEF F
    <3> QED BY <2>3, Zenon
  <2> HIDE DEF F
  <2>6. Iterates(h, "offers", p, o, SUBSET (1..n))
    BY <2>2, <2>5 DEF Iterates
  <2> QED BY <1>1, <2>4, <2>6
<1>5. it[1..0] = c /\ \A i \in 1..n : it[1..i] = AddRecord(it[1..(i - 1)], p.exporter, p.records[i])
  <2>1. ~AnyOrder("records")
    BY DEF AnyOrder
  <2>2. InTurn(it, "records", p, c, n)
    BY <1>1, <1>3, <2>1, LeftToRight
  <2> QED BY <2>2 DEF InTurn, FoldStep
<1>6. jt[1..0] = o /\ \A i \in 1..n : jt[1..i] = Offer(jt[1..(i - 1)], p.exporter, p.records[i])
  <2>1. ~AnyOrder("offers")
    BY DEF AnyOrder
  <2>2. InTurn(jt, "offers", p, o, n)
    BY <1>1, <1>4, <2>1, LeftToRight
  <2> QED BY <2>2 DEF InTurn, FoldStep
<1> DEFINE Even(v, w) == /\ Counters(v) /\ Amounts(w)
                         /\ \A g : Weight(v, g) - Weight(c, g) = BytesOf(w, g) - BytesOf(o, g)
<1> DEFINE A == {i \in 0..n : Even(it[1..i], jt[1..i])}
<1>7. 0 \in A
  <2>1. Even(c, o)
    <3>1. ASSUME NEW g PROVE Weight(c, g) - Weight(c, g) = BytesOf(o, g) - BytesOf(o, g)
      <4>1. Weight(c, g) \in Nat /\ BytesOf(o, g) \in Nat
        BY WeightIsNat, BytesAreNat
      <4> QED BY <4>1
    <3> QED BY <3>1
  <2> HIDE DEF Even
  <2> QED BY <1>1, <1>5, <1>6, <2>1
<1>8. ASSUME NEW i \in 0..(n - 1), i \in A PROVE i + 1 \in A
  <2>1. i + 1 \in 1..n /\ i + 1 \in 0..n /\ (i + 1) - 1 = i
    BY <1>1
  <2> PICK v : v = it[1..i]
    OBVIOUS
  <2> PICK w : w = jt[1..i]
    OBVIOUS
  <2> PICK e : e = p.exporter
    OBVIOUS
  <2> PICK r : r = p.records[i + 1]
    OBVIOUS
  <2>2. it[1..(i + 1)] = AddRecord(v, e, r) /\ jt[1..(i + 1)] = Offer(w, e, r) /\ r.bytes \in Nat
    BY <1>1, <1>5, <1>6, <2>1
  <2>3. Even(v, w)
    <3> HIDE DEF Even
    <3> QED BY <1>8
  <2>4. Even(AddRecord(v, e, r), Offer(w, e, r))
    <3>1. /\ Counters(AddRecord(v, e, r))
          /\ \A g : /\ Weight(v, g) \in Nat
                    /\ Weight(AddRecord(v, e, r), g) = Weight(v, g) + Worth(g, e, r)
      BY <2>2, <2>3, RecordCounts
    <3>2. /\ Amounts(Offer(w, e, r))
          /\ \A g : /\ BytesOf(w, g) \in Nat
                    /\ BytesOf(Offer(w, e, r), g) = BytesOf(w, g) + Worth(g, e, r)
      BY <2>2, <2>3, OfferAdds
    <3>3. ASSUME NEW g
          PROVE  Weight(AddRecord(v, e, r), g) - Weight(c, g) = BytesOf(Offer(w, e, r), g) - BytesOf(o, g)
      <4>1. Weight(c, g) \in Nat /\ BytesOf(o, g) \in Nat /\ Worth(g, e, r) \in Nat
        BY <2>2, WeightIsNat, BytesAreNat DEF Worth
      <4>2. Weight(v, g) - Weight(c, g) = BytesOf(w, g) - BytesOf(o, g)
        BY <2>3
      <4> QED BY <3>1, <3>2, <4>1, <4>2, SMTT(30)
    <3> QED BY <3>1, <3>2, <3>3
  <2> HIDE DEF Even
  <2> QED BY <2>1, <2>2, <2>4
<1>9. n \in A
  <2> HIDE DEF A
  <2>1. 0..n \subseteq A
    BY <1>1, <1>7, <1>8, UpToAll
  <2> QED BY <1>1, <2>1
<1>10. Even(d, f)
  <2> HIDE DEF Even
  <2> QED BY <1>3, <1>4, <1>9
<1> QED BY <1>10

LEMMA AcceptFits ==
  ASSUME AggregateFits, NEW p \in FlowPackets, AcceptPacket(p)
  PROVE  AggregateFits'
<1>1. /\ Counters(counts') /\ Amounts(offered')
      /\ \A g : Weight(counts', g) - Weight(counts, g) = BytesOf(offered', g) - BytesOf(offered, g)
  BY PacketCounts DEF AcceptPacket, AggregateFits
<1>2. buckets' = buckets /\ published' = published /\ cutOff' = cutOff
  BY DEF AcceptPacket
<1>3. Conserved(offered', counts', buckets', published', cutOff')
  <2>1. ASSUME NEW g
        PROVE  BytesOf(offered', g) =
                 Weight(counts', g) + Weight(buckets, g) + BytesOf(published, g) + BytesOf(cutOff, g)
    <3>1. BytesOf(offered, g) = Weight(counts, g) + Weight(buckets, g) + BytesOf(published, g) + BytesOf(cutOff, g)
      BY DEF AggregateFits, Conserved
    <3>2. /\ Weight(counts, g) \in Nat /\ Weight(counts', g) \in Nat /\ Weight(buckets, g) \in Nat
          /\ BytesOf(published, g) \in Nat /\ BytesOf(cutOff, g) \in Nat
          /\ BytesOf(offered', g) \in Nat /\ BytesOf(offered, g) \in Nat
      BY <1>1, WeightIsNat, BytesAreNat DEF AggregateFits
    <3>3. Weight(counts', g) - Weight(counts, g) = BytesOf(offered', g) - BytesOf(offered, g)
      BY <1>1
    <3> QED BY <3>1, <3>2, <3>3
  <2> QED BY <1>2, <2>1 DEF Conserved
<1> QED BY <1>1, <1>2, <1>3, Zenon DEF AggregateFits, Conserved, Counters, Amounts

LEMMA DrainFits ==
  ASSUME AggregateFits, Drain
  PROVE  AggregateFits'
<1>1. /\ counts' = <<>> /\ buckets = <<>> /\ buckets' = Cut(counts)
      /\ cutOff' = Totals(cutOff, Beyond(counts, Cut(counts)))
      /\ offered' = offered /\ published' = published
  BY DEF Drain, NoBuckets
<1> PICK d : d = Cut(counts)
  OBVIOUS
<1> PICK r : r = Beyond(counts, Cut(counts))
  OBVIOUS
<1>2. /\ Counters(d) /\ Counters(r)
      /\ \A g : /\ Weight(d, g) \in Nat /\ Weight(r, g) \in Nat
                /\ Weight(counts, g) = Weight(d, g) + Weight(r, g)
  BY CutSplits DEF AggregateFits
<1>3. /\ Amounts(cutOff')
      /\ \A g : BytesOf(cutOff, g) \in Nat /\ BytesOf(cutOff', g) = BytesOf(cutOff, g) + Weight(r, g)
  BY <1>1, <1>2, TotalsAdd DEF AggregateFits
<1>4. ASSUME NEW g
      PROVE  BytesOf(offered', g) =
               Weight(counts', g) + Weight(buckets', g) + BytesOf(published', g) + BytesOf(cutOff', g)
  <2>1. BytesOf(offered, g) = Weight(counts, g) + Weight(buckets, g) + BytesOf(published, g) + BytesOf(cutOff, g)
    BY DEF AggregateFits, Conserved
  <2>2. BytesOf(published, g) \in Nat
    BY BytesAreNat DEF AggregateFits
  <2>3. Weight(counts', g) = 0 /\ Weight(buckets, g) = 0 /\ Weight(buckets', g) = Weight(d, g)
    BY <1>1, NothingYet
  <2>4. Weight(d, g) \in Nat /\ Weight(r, g) \in Nat /\ Weight(counts, g) = Weight(d, g) + Weight(r, g)
    BY <1>2
  <2>5. BytesOf(cutOff, g) \in Nat /\ BytesOf(cutOff', g) = BytesOf(cutOff, g) + Weight(r, g)
    BY <1>3
  <2>6. BytesOf(offered', g) = BytesOf(offered, g) /\ BytesOf(published', g) = BytesOf(published, g)
    BY <1>1
  <2> QED BY <2>1, <2>2, <2>3, <2>4, <2>5, <2>6
<1>5. Conserved(offered, counts, buckets, published, cutOff)'
  BY <1>4 DEF Conserved, BytesOf, Weight
<1>6. Counters(counts)' /\ Counters(buckets)' /\ Amounts(cutOff)' /\ Amounts(offered)' /\ Amounts(published)'
  BY <1>1, <1>2, <1>3, NothingYet DEF AggregateFits, Counters, Amounts
<1> QED BY <1>5, <1>6 DEF AggregateFits

LEMMA WriteFits ==
  ASSUME AggregateFits, WriteFlow
  PROVE  AggregateFits'
<1>1. buckets' = <<>> /\ counts' = counts /\ offered' = offered
  BY DEF WriteFlow, NoBuckets
<1>2. \/ published' = Totals(published, buckets) /\ cutOff' = cutOff
      \/ cutOff' = Totals(cutOff, buckets) /\ published' = published
  BY DEF WriteFlow
<1>3. ASSUME NEW f, Amounts(f)
      PROVE  /\ Amounts(Totals(f, buckets))
             /\ \A g : /\ BytesOf(f, g) \in Nat /\ Weight(buckets, g) \in Nat
                       /\ BytesOf(Totals(f, buckets), g) = BytesOf(f, g) + Weight(buckets, g)
  BY <1>3, TotalsAdd DEF AggregateFits
<1>4. /\ Amounts(published') /\ Amounts(cutOff')
      /\ \A g : BytesOf(published', g) + BytesOf(cutOff', g) =
                  BytesOf(published, g) + BytesOf(cutOff, g) + Weight(buckets, g)
  <2>1. Amounts(published) /\ Amounts(cutOff)
    BY DEF AggregateFits
  <2>2. CASE published' = Totals(published, buckets) /\ cutOff' = cutOff
    <3>1. /\ Amounts(published')
          /\ \A g : /\ BytesOf(published, g) \in Nat /\ Weight(buckets, g) \in Nat
                    /\ BytesOf(published', g) = BytesOf(published, g) + Weight(buckets, g)
      BY <1>3, <2>1, <2>2
    <3>2. \A g : BytesOf(cutOff, g) \in Nat
      BY <2>1, BytesAreNat
    <3>3. ASSUME NEW g
          PROVE  BytesOf(published', g) + BytesOf(cutOff, g) =
                   BytesOf(published, g) + BytesOf(cutOff, g) + Weight(buckets, g)
      BY <3>1, <3>2
    <3> QED BY <2>1, <2>2, <3>1, <3>3
  <2>3. CASE cutOff' = Totals(cutOff, buckets) /\ published' = published
    <3>1. /\ Amounts(cutOff')
          /\ \A g : /\ BytesOf(cutOff, g) \in Nat /\ Weight(buckets, g) \in Nat
                    /\ BytesOf(cutOff', g) = BytesOf(cutOff, g) + Weight(buckets, g)
      BY <1>3, <2>1, <2>3
    <3>2. \A g : BytesOf(published, g) \in Nat
      BY <2>1, BytesAreNat
    <3>3. ASSUME NEW g
          PROVE  BytesOf(published, g) + BytesOf(cutOff', g) =
                   BytesOf(published, g) + BytesOf(cutOff, g) + Weight(buckets, g)
      BY <3>1, <3>2
    <3> QED BY <2>1, <2>3, <3>1, <3>3
  <2> QED BY <1>2, <2>2, <2>3
<1>5. ASSUME NEW g
      PROVE  BytesOf(offered', g) =
               Weight(counts', g) + Weight(buckets', g) + BytesOf(published', g) + BytesOf(cutOff', g)
  <2>1. BytesOf(offered, g) = Weight(counts, g) + Weight(buckets, g) + BytesOf(published, g) + BytesOf(cutOff, g)
    BY DEF AggregateFits, Conserved
  <2>2. /\ Weight(counts, g) \in Nat /\ Weight(buckets, g) \in Nat
        /\ BytesOf(published, g) \in Nat /\ BytesOf(cutOff, g) \in Nat
        /\ BytesOf(published', g) \in Nat /\ BytesOf(cutOff', g) \in Nat
    BY <1>4, WeightIsNat, BytesAreNat DEF AggregateFits
  <2>3. Weight(buckets', g) = 0 /\ Weight(counts', g) = Weight(counts, g) /\ BytesOf(offered', g) = BytesOf(offered, g)
    BY <1>1, NothingYet
  <2>4. BytesOf(published', g) + BytesOf(cutOff', g) = BytesOf(published, g) + BytesOf(cutOff, g) + Weight(buckets, g)
    BY <1>4
  <2> QED BY <2>1, <2>2, <2>3, <2>4
<1>6. Conserved(offered, counts, buckets, published, cutOff)'
  BY <1>5 DEF Conserved, BytesOf, Weight
<1>7. Counters(counts)' /\ Counters(buckets)' /\ Amounts(cutOff)' /\ Amounts(offered)' /\ Amounts(published)'
  BY <1>1, <1>4, NothingYet DEF AggregateFits, Counters, Amounts
<1> QED BY <1>6, <1>7 DEF AggregateFits

\* The byte totals of an interface stay honest: what was offered is in the
\* interval accumulating, in the cut being written, written or cut off, for
\* any packets, caps and top N (Aggregator.add, Drain, drainLoop).
THEOREM BytesConserved == AggregateSpec => []TotalsStayHonest
<1>1. AggregateInit => AggregateFits
  <2> SUFFICES ASSUME AggregateInit PROVE AggregateFits
    OBVIOUS
  <2>1. counts = <<>> /\ buckets = <<>> /\ offered = <<>> /\ published = <<>> /\ cutOff = <<>>
    BY DEF AggregateInit, NoBuckets
  <2>2. Conserved(<<>>, <<>>, <<>>, <<>>, <<>>)
    BY NothingYet DEF Conserved
  <2> QED BY <2>1, <2>2, NothingYet DEF AggregateFits
<1>2. AggregateFits /\ [AggregateNext]_aggregateVars => AggregateFits'
  <2> SUFFICES ASSUME AggregateFits, [AggregateNext]_aggregateVars PROVE AggregateFits'
    OBVIOUS
  <2>1. CASE AggregateNext
    BY <2>1, AcceptFits, DrainFits, WriteFits DEF AggregateNext
  <2>2. CASE UNCHANGED aggregateVars
    BY <2>2 DEF aggregateVars, AggregateFits, Conserved, Counters, Amounts, Weight, BytesOf
  <2> QED BY <2>1, <2>2
<1>3. AggregateFits => TotalsStayHonest
  <2> SUFFICES ASSUME AggregateFits, NEW g \in DOMAIN offered
               PROVE  offered[g] = BytesOf(Totals(<<>>, counts), g) + BytesOf(Totals(<<>>, buckets), g)
                                   + BytesOf(published, g) + BytesOf(cutOff, g)
    BY DEF TotalsStayHonest
  <2>1. BytesOf(Totals(<<>>, counts), g) = Weight(counts, g)
    <3>1. /\ Weight(counts, g) \in Nat
          /\ BytesOf(Totals(<<>>, counts), g) = BytesOf(<<>>, g) + Weight(counts, g)
      BY NothingYet, TotalsAdd DEF AggregateFits
    <3> QED BY <3>1, NothingYet
  <2>2. BytesOf(Totals(<<>>, buckets), g) = Weight(buckets, g)
    <3>1. /\ Weight(buckets, g) \in Nat
          /\ BytesOf(Totals(<<>>, buckets), g) = BytesOf(<<>>, g) + Weight(buckets, g)
      BY NothingYet, TotalsAdd DEF AggregateFits
    <3> QED BY <3>1, NothingYet
  <2>3. BytesOf(offered, g) = offered[g]
    BY DEF BytesOf
  <2>4. BytesOf(offered, g) = Weight(counts, g) + Weight(buckets, g) + BytesOf(published, g) + BytesOf(cutOff, g)
    BY DEF AggregateFits, Conserved
  <2> QED BY <2>1, <2>2, <2>3, <2>4
<1> QED BY <1>1, <1>2, <1>3, PTL DEF AggregateSpec

-----------------------------------------------------------------------------
(* Sums.                                                                   *)

Parts(w, s) == UNION {Block(x, 0, w[x]) : x \in s}

LEMMA PieceIn ==
  ASSUME NEW w, NEW s, NEW u
  PROVE  u \in Parts(w, s) <=> \E k \in s : u \in Block(k, 0, w[k])
BY DEF Parts

\* A set of numbered pieces: as many of each key as its count.
LEMMA PiecesGrow ==
  ASSUME NEW w, NEW s, NEW x, x \notin s, IsFiniteSet(Parts(w, s)), w[x] \in Nat, \A k \in s : w[k] \in Nat
  PROVE  /\ IsFiniteSet(Parts(w, s \cup {x}))
         /\ Cardinality(Parts(w, s)) \in Nat
         /\ Cardinality(Parts(w, s \cup {x})) = w[x] + Cardinality(Parts(w, s))
<1>0. Cardinality(Parts(w, s)) \in Nat
  BY FS_CardinalityType
<1>1. Parts(w, s \cup {x}) = Parts(w, s) \cup Block(x, 0, w[x])
  <2>1. ASSUME NEW u PROVE u \in Parts(w, s \cup {x}) <=> u \in Parts(w, s) \/ u \in Block(x, 0, w[x])
    BY PieceIn
  <2> QED BY <2>1
<1>2. Parts(w, s) \cap Block(x, 0, w[x]) = {}
  <2>1. ASSUME NEW u, u \in Parts(w, s), u \in Block(x, 0, w[x]) PROVE FALSE
    <3>1. PICK k \in s : u \in Block(k, 0, w[k])
      BY <2>1, PieceIn
    <3>2. 0 \in Nat /\ w[k] \in Nat
      OBVIOUS
    <3>3. PICK i \in Nat : u = <<k, i>>
      BY <3>1, <3>2, BlockIn
    <3>4. PICK j \in Nat : u = <<x, j>>
      BY <2>1, <3>2, BlockIn
    <3>5. k = x
      BY <3>3, <3>4
    <3> QED BY <3>5
  <2> QED BY <2>1
<1>3. IsFiniteSet(Block(x, 0, w[x])) /\ Cardinality(Block(x, 0, w[x])) = w[x]
  BY BlockSize
<1> PICK U : U = Parts(w, s)
  OBVIOUS
<1> PICK B : B = Block(x, 0, w[x])
  OBVIOUS
<1>4. IsFiniteSet(U \cup B) /\ Cardinality(U \cup B) = Cardinality(U) + Cardinality(B)
  <2>1. IsFiniteSet(U) /\ IsFiniteSet(B) /\ U \cap B = {}
    BY <1>2, <1>3
  <2> QED BY <2>1, Disjoint
<1>5. Cardinality(U) + Cardinality(B) = w[x] + Cardinality(Parts(w, s))
  BY <1>0, <1>3
<1> QED BY <1>0, <1>1, <1>4, <1>5, Zenon

\* Built up from the sum of no element.
Counted(v, w, s) == IsFiniteSet(Parts(w, s)) /\ v = Cardinality(Parts(w, s))

\* A sum by MapThenSumSet counts the pieces.
LEMMA SumIs ==
  ASSUME NEW w, Counters(w)
  PROVE  Counted(SumOf(w), w, DOMAIN w)
<1> PICK S : S = DOMAIN w
  OBVIOUS
<1>0. IsFiniteSet(S) /\ \A k \in S : w[k] \in Nat
  BY DEF Counters
<1>1. PICK it : Iterates(it, "sum", w, 0, SUBSET S) /\ SumOf(w) = it[S]
  <2> DEFINE F(h) == [s \in SUBSET S |-> IF s = {} THEN 0
                        ELSE w[CHOOSE x \in s : TRUE] + h[s \ {CHOOSE x \in s : TRUE}]]
  <2>1. PICK e : Iterates(e, "sum", w, 0, SUBSET S)
    BY <1>0, IteratesExist DEF AnyOrder
  <2>2. ASSUME NEW h PROVE F(h) = [s \in SUBSET S |-> Iterate(h, "sum", w, 0, s)]
    BY DEF Iterate, FoldStep, Chosen, AnyOrder
  <2>3. e = F(e)
    <3> HIDE DEF F
    <3> QED BY <2>1, <2>2 DEF Iterates
  <2> PICK h : h = CHOOSE x : x = F(x)
    OBVIOUS
  <2>4. SumOf(w) = h[S]
    BY Zenon DEF SumOf, MapThenSumSet, MapThenFoldSet
  <2>5. h = F(h)
    <3> HIDE DEF F
    <3> QED BY <2>3, Zenon
  <2>6. Iterates(h, "sum", w, 0, SUBSET S)
    <3> HIDE DEF F
    <3> QED BY <2>2, <2>5 DEF Iterates
  <2> QED BY <2>4, <2>6
<1> DEFINE Good(s) == Counted(it[s], w, s)
<1> PICK N \in Nat : N = Cardinality(S)
  BY <1>0, FS_CardinalityType
<1> DEFINE A == {n \in 0..N : \A s \in SUBSET S : Cardinality(s) <= n => Good(s)}
<1>2. ASSUME NEW s \in SUBSET S PROVE IsFiniteSet(s) /\ Cardinality(s) \in Nat /\ (Cardinality(s) = 0 <=> s = {})
  <2>1. IsFiniteSet(s)
    BY <1>0, FS_Subset
  <2> QED BY <2>1, FS_CardinalityType, FS_EmptySet
<1>4. Good({})
  <2>1. it[{}] = 0
    BY <1>1 DEF Iterates, Iterate
  <2>2. Parts(w, {}) = {}
    BY PieceIn
  <2>3. IsFiniteSet({}) /\ Cardinality({}) = 0
    BY FS_EmptySet
  <2> QED BY <2>1, <2>2, <2>3 DEF Counted
<1>5. 0 \in A
  <2>1. ASSUME NEW s \in SUBSET S, Cardinality(s) <= 0 PROVE Good(s)
    <3>1. Cardinality(s) \in Nat /\ (Cardinality(s) = 0 <=> s = {})
      BY <1>2
    <3>2. s = {}
      BY <2>1, <3>1
    <3> HIDE DEF Good
    <3> QED BY <1>4, <3>2
  <2> HIDE DEF Good
  <2> QED BY <2>1
<1>6. ASSUME NEW n \in 0..(N - 1), n \in A PROVE n + 1 \in A
  <2>1. ASSUME NEW s \in SUBSET S, Cardinality(s) <= n + 1 PROVE Good(s)
    <3>1. CASE s = {}
      <4> HIDE DEF Good
      <4> QED BY <1>4, <3>1
    <3>2. CASE s # {}
      <4> PICK x : x = Chosen("sum", s)
        OBVIOUS
      <4>1. x \in s
        BY <3>2 DEF Chosen, AnyOrder
      <4> PICK t : t = s \ {x}
        OBVIOUS
      <4>2. t \in SUBSET S /\ x \notin t /\ s = t \cup {x} /\ w[x] \in Nat /\ \A k \in t : w[k] \in Nat
        BY <1>0, <4>1
      <4>3. IsFiniteSet(s) /\ Cardinality(s) \in Nat
        BY <1>2
      <4>4. Cardinality(t) = Cardinality(s) - 1
        BY <4>1, <4>3, FS_RemoveElement
      <4>5. Cardinality(t) <= n
        BY <2>1, <4>3, <4>4
      <4>6. Good(t)
        <5> HIDE DEF Good
        <5> QED BY <1>6, <4>2, <4>5
      <4>7. it[s] = w[x] + it[t]
        <5>1. it[s] = Iterate(it, "sum", w, 0, s)
          BY <1>1 DEF Iterates
        <5> QED BY <3>2, <5>1 DEF Iterate, FoldStep
      <4>8. Good(t \cup {x})
        <5>1. IsFiniteSet(Parts(w, t)) /\ it[t] = Cardinality(Parts(w, t))
          BY <4>6 DEF Counted
        <5>2. /\ IsFiniteSet(Parts(w, t \cup {x}))
              /\ Cardinality(Parts(w, t \cup {x})) = w[x] + Cardinality(Parts(w, t))
          BY <4>2, <5>1, PiecesGrow
        <5> QED BY <4>2, <4>7, <5>1, <5>2 DEF Counted
      <4> HIDE DEF Good
      <4> QED BY <4>2, <4>8
    <3> QED BY <3>1, <3>2
  <2>2. n + 1 \in 0..N
    OBVIOUS
  <2> HIDE DEF Good
  <2> QED BY <2>1, <2>2
<1>7. N \in A
  <2> HIDE DEF A
  <2>1. 0..N \subseteq A
    BY <1>5, <1>6, UpToAll
  <2> QED BY <2>1
<1>8. Good(S)
  <2> HIDE DEF Good
  <2> QED BY <1>7
<1> QED BY <1>1, <1>8

\* Induction over a finite set, for a collection of its subsets.
LEMMA SetInduction ==
  ASSUME NEW S, IsFiniteSet(S), NEW G, {} \in G,
         \A s \in SUBSET S : \A x \in S \ s : s \in G => s \cup {x} \in G
  PROVE  S \in G
<1> PICK N \in Nat : N = Cardinality(S)
  BY FS_CardinalityType
<1> DEFINE A == {n \in 0..N : \A s \in SUBSET S : Cardinality(s) <= n => s \in G}
<1>1. ASSUME NEW s \in SUBSET S PROVE IsFiniteSet(s) /\ Cardinality(s) \in Nat /\ (Cardinality(s) = 0 <=> s = {})
  <2>1. IsFiniteSet(s)
    BY FS_Subset
  <2> QED BY <2>1, FS_CardinalityType, FS_EmptySet
<1>2. 0 \in A
  <2>1. ASSUME NEW s \in SUBSET S, Cardinality(s) <= 0 PROVE s \in G
    <3>1. Cardinality(s) \in Nat /\ (Cardinality(s) = 0 <=> s = {})
      BY <1>1
    <3>2. s = {}
      BY <2>1, <3>1
    <3> QED BY <3>2
  <2> QED BY <2>1
<1>3. ASSUME NEW n \in 0..(N - 1), n \in A PROVE n + 1 \in A
  <2>1. ASSUME NEW s \in SUBSET S, Cardinality(s) <= n + 1 PROVE s \in G
    <3>1. CASE s = {}
      BY <3>1
    <3>2. CASE s # {}
      <4>1. PICK x : x \in s
        BY <3>2
      <4> PICK t : t = s \ {x}
        OBVIOUS
      <4>2. t \in SUBSET S /\ x \in S \ t /\ s = t \cup {x}
        BY <4>1
      <4>3. IsFiniteSet(s) /\ Cardinality(s) \in Nat
        BY <1>1
      <4>4. Cardinality(t) = Cardinality(s) - 1
        BY <4>1, <4>3, FS_RemoveElement
      <4>5. Cardinality(t) <= n
        BY <2>1, <4>3, <4>4
      <4>6. t \in G
        BY <1>3, <4>2, <4>5
      <4> QED BY <4>2, <4>6
    <3> QED BY <3>1, <3>2
  <2>2. n + 1 \in 0..N
    OBVIOUS
  <2> QED BY <2>1, <2>2
<1>4. 0..N \subseteq A
  <2> HIDE DEF A
  <2> QED BY <1>2, <1>3, UpToAll
<1>5. N \in A
  BY <1>4
<1> QED BY <1>5

\* The sum of w over the set s.
Total(w, s) == Cardinality(Parts(w, s))

Countable(w, s) == IsFiniteSet(s) /\ \A x \in s : w[x] \in Nat

\* What is the same everywhere has one total.
LEMMA TotalSame ==
  ASSUME NEW w, NEW v, NEW s, \A x \in s : w[x] = v[x]
  PROVE  Parts(w, s) = Parts(v, s) /\ Total(w, s) = Total(v, s)
<1>1. ASSUME NEW u PROVE u \in Parts(w, s) <=> u \in Parts(v, s)
  BY PieceIn
<1>2. Parts(w, s) = Parts(v, s)
  BY <1>1
<1> QED BY <1>2 DEF Total

LEMMA TotalIs ==
  ASSUME NEW w, NEW s, Countable(w, s)
  PROVE  IsFiniteSet(Parts(w, s)) /\ Total(w, s) \in Nat
<1> PICK v : v = [x \in s |-> w[x]]
  OBVIOUS
<1>1. Counters(v) /\ DOMAIN v = s /\ \A x \in s : w[x] = v[x]
  BY DEF Counters, Countable
<1>2. IsFiniteSet(Parts(v, s))
  BY <1>1, SumIs DEF Counted
<1>3. Parts(w, s) = Parts(v, s)
  BY <1>1, TotalSame
<1>4. IsFiniteSet(Parts(w, s))
  BY <1>2, <1>3
<1> QED BY <1>4, FS_CardinalityType DEF Total

LEMMA SumIsTotal ==
  ASSUME NEW w, Countable(w, DOMAIN w)
  PROVE  SumOf(w) = Total(w, DOMAIN w) /\ SumOf(w) \in Nat
<1>1. Counters(w)
  BY DEF Counters, Countable
<1>2. SumOf(w) = Total(w, DOMAIN w)
  BY <1>1, SumIs DEF Counted, Total
<1> QED BY <1>2, TotalIs

LEMMA TotalUnion ==
  ASSUME NEW w, NEW s, NEW t, Countable(w, s), Countable(w, t), s \cap t = {}
  PROVE  Total(w, s \cup t) = Total(w, s) + Total(w, t) /\ Countable(w, s \cup t)
<1> PICK A : A = Parts(w, s)
  OBVIOUS
<1> PICK B : B = Parts(w, t)
  OBVIOUS
<1>1. Parts(w, s \cup t) = A \cup B
  <2>1. ASSUME NEW u PROVE u \in Parts(w, s \cup t) <=> u \in Parts(w, s) \/ u \in Parts(w, t)
    BY PieceIn
  <2> QED BY <2>1
<1>2. A \cap B = {}
  <2>1. ASSUME NEW u, u \in Parts(w, s), u \in Parts(w, t) PROVE FALSE
    <3>1. PICK k \in s : u \in Block(k, 0, w[k])
      BY <2>1, PieceIn
    <3>2. PICK l \in t : u \in Block(l, 0, w[l])
      BY <2>1, PieceIn
    <3>3. 0 \in Nat /\ w[k] \in Nat /\ w[l] \in Nat
      BY DEF Countable
    <3>4. PICK i \in Nat : u = <<k, i>>
      BY <3>1, <3>3, BlockIn
    <3>5. PICK j \in Nat : u = <<l, j>>
      BY <3>2, <3>3, BlockIn
    <3>6. k = l
      BY <3>4, <3>5
    <3> QED BY <3>6
  <2> QED BY <2>1
<1>3. IsFiniteSet(A) /\ IsFiniteSet(B)
  BY TotalIs
<1>4. Cardinality(A \cup B) = Cardinality(A) + Cardinality(B)
  BY <1>2, <1>3, Disjoint
<1>5. Total(w, s \cup t) = Total(w, s) + Total(w, t)
  BY <1>1, <1>4, Zenon DEF Total
<1>6. Countable(w, s \cup t)
  BY FS_Union DEF Countable
<1> QED BY <1>5, <1>6

LEMMA TotalNone ==
  ASSUME NEW w
  PROVE  Total(w, {}) = 0 /\ Countable(w, {})
<1>1. Parts(w, {}) = {}
  BY PieceIn
<1> QED BY <1>1, FS_EmptySet DEF Total, Countable

LEMMA TotalOne ==
  ASSUME NEW w, NEW x, w[x] \in Nat
  PROVE  Total(w, {x}) = w[x] /\ Countable(w, {x})
<1>1. Parts(w, {x}) = Block(x, 0, w[x])
  <2>1. ASSUME NEW u PROVE u \in Parts(w, {x}) <=> u \in Block(x, 0, w[x])
    BY PieceIn
  <2> QED BY <2>1
<1>2. Cardinality(Block(x, 0, w[x])) = w[x]
  BY BlockSize
<1> QED BY <1>1, <1>2, FS_Singleton DEF Total, Countable

LEMMA TotalMore ==
  ASSUME NEW w, NEW s, NEW t, Countable(w, t), s \subseteq t
  PROVE  Countable(w, s) /\ Total(w, s) <= Total(w, t) /\ Total(w, s) \in Nat /\ Total(w, t) \in Nat
<1>1. Countable(w, s)
  BY FS_Subset DEF Countable
<1>2. Parts(w, s) \subseteq Parts(w, t)
  BY PieceIn
<1>3. IsFiniteSet(Parts(w, t)) /\ Total(w, s) \in Nat /\ Total(w, t) \in Nat
  BY <1>1, TotalIs
<1>4. Cardinality(Parts(w, s)) <= Cardinality(Parts(w, t))
  BY <1>2, <1>3, FS_Subset
<1> QED BY <1>1, <1>3, <1>4 DEF Total

\* The elements of S that g takes into T.
Into(g, S, T) == {x \in S : g[x] \in T}

\* A count for each y, against the total of what maps to it.
LEMMA Fibers ==
  ASSUME NEW v, NEW T, Countable(v, T), NEW w, NEW S, Countable(w, S), NEW g
  PROVE  /\ (\A y \in T : v[y] <= Total(w, Into(g, S, {y}))) => Total(v, T) <= Total(w, Into(g, S, T))
         /\ (\A y \in T : Total(w, Into(g, S, {y})) <= v[y]) => Total(w, Into(g, S, T)) <= Total(v, T)
<1> DEFINE Above == \A y \in T : v[y] <= Total(w, Into(g, S, {y}))
<1> DEFINE Below == \A y \in T : Total(w, Into(g, S, {y})) <= v[y]
<1> DEFINE Good(t) == /\ Above => Total(v, t) <= Total(w, Into(g, S, t))
                      /\ Below => Total(w, Into(g, S, t)) <= Total(v, t)
<1> PICK G : G = {t \in SUBSET T : Good(t)}
  OBVIOUS
<1>0. IsFiniteSet(T)
  BY DEF Countable
<1>1. ASSUME NEW t PROVE Countable(w, Into(g, S, t)) /\ Total(w, Into(g, S, t)) \in Nat
  <2>1. Into(g, S, t) \subseteq S
    BY DEF Into
  <2> QED BY <2>1, TotalMore
<1>2. {} \in G
  <2>1. Into(g, S, {}) = {}
    BY DEF Into
  <2>2. Total(v, {}) = 0 /\ Total(w, {}) = 0
    BY TotalNone
  <2>3. Total(w, Into(g, S, {})) = 0
    BY <2>1, <2>2, Zenon
  <2>4. Good({})
    BY <2>2, <2>3
  <2> HIDE DEF Good
  <2> QED BY <2>4
<1>3. ASSUME NEW t \in SUBSET T, NEW y \in T \ t, t \in G PROVE t \cup {y} \in G
  <2>1. Total(v, t) \in Nat /\ Countable(v, t)
    BY TotalMore
  <2>2. v[y] \in Nat
    BY DEF Countable
  <2>3. Total(v, t \cup {y}) = Total(v, t) + v[y]
    <3>1. t \cap {y} = {} /\ Countable(v, {y}) /\ Total(v, {y}) = v[y]
      BY <2>2, TotalOne
    <3> QED BY <2>1, <3>1, TotalUnion
  <2>4. Into(g, S, t \cup {y}) = Into(g, S, t) \cup Into(g, S, {y}) /\ Into(g, S, t) \cap Into(g, S, {y}) = {}
    BY DEF Into
  <2>5. Total(w, Into(g, S, t \cup {y})) = Total(w, Into(g, S, t)) + Total(w, Into(g, S, {y}))
    <3> PICK I : I = Into(g, S, t)
      OBVIOUS
    <3> PICK J : J = Into(g, S, {y})
      OBVIOUS
    <3>1. Countable(w, I) /\ Countable(w, J) /\ I \cap J = {}
      BY <1>1, <2>4
    <3>2. Total(w, I \cup J) = Total(w, I) + Total(w, J)
      BY <3>1, TotalUnion
    <3> QED BY <2>4, <3>2
  <2>6. Total(w, Into(g, S, t)) \in Nat /\ Total(w, Into(g, S, {y})) \in Nat
    BY <1>1
  <2>7. Good(t)
    BY <1>3
  <2>8. Above => Total(v, t \cup {y}) <= Total(w, Into(g, S, t \cup {y}))
    BY <2>1, <2>2, <2>3, <2>5, <2>6, <2>7
  <2>9. Below => Total(w, Into(g, S, t \cup {y})) <= Total(v, t \cup {y})
    BY <2>1, <2>2, <2>3, <2>5, <2>6, <2>7
  <2> QED BY <2>8, <2>9
<1>4. T \in G
  BY <1>0, <1>2, <1>3, SetInduction
<1> QED BY <1>4

\* What a row and a flow count for.
Val(m, e) == IF m = "flows" THEN e.flows ELSE e.bytes
Worths(m) == [r \in StoredFlows |-> IF m = "flows" THEN 1 ELSE r.bytes]
Values(m, E) == [e \in E |-> Val(m, e)]

LEMMA WorthsAre ==
  ASSUME NEW m, NEW S, S \subseteq StoredFlows
  PROVE  Countable(Worths(m), S)
<1>1. IsFiniteSet(S)
  BY QueriesAssumption, FS_Subset
<1>2. \A r \in StoredFlows : r.bytes \in Nat
  BY QueriesAssumption
<1> QED BY <1>1, <1>2 DEF Countable, Worths

LEMMA FigureIs ==
  ASSUME NEW m, NEW E, IsFiniteSet(E), \A e \in E : Val(m, e) \in Nat
  PROVE  /\ Figure(m, E) = Total(Values(m, E), E) /\ Figure(m, E) \in Nat
         /\ Countable(Values(m, E), E)
<1>1. Figure(m, E) = SumOf(Values(m, E))
  BY Zenon DEF Figure, Values, Val
<1>2. DOMAIN Values(m, E) = E /\ \A e \in E : Values(m, E)[e] = Val(m, e)
  BY DEF Values
<1>3. Countable(Values(m, E), E)
  BY <1>2 DEF Countable
<1> QED BY <1>1, <1>2, <1>3, SumIsTotal

\* The rows E show all of the flows lo and only flows of hi, each in row g[r].
Reads(E, lo, hi, g, m) ==
  /\ IsFiniteSet(E) /\ lo \subseteq StoredFlows /\ hi \subseteq StoredFlows
  /\ \A e \in E : Val(m, e) \in Nat
  /\ \A r \in lo : g[r] \in E
  /\ \A e \in E : /\ Total(Worths(m), Into(g, lo, {e})) <= Val(m, e)
                  /\ Val(m, e) <= Total(Worths(m), Into(g, hi, {e}))

\* Rows that read flows come to between those that must and those that may be read.
LEMMA Bounded ==
  ASSUME NEW E, NEW lo, NEW hi, NEW g, NEW m, Reads(E, lo, hi, g, m)
  PROVE  /\ Total(Worths(m), lo) <= Figure(m, E) /\ Figure(m, E) <= Total(Worths(m), hi)
         /\ Figure(m, E) \in Nat /\ Total(Worths(m), lo) \in Nat /\ Total(Worths(m), hi) \in Nat
<1> PICK w : w = Worths(m)
  OBVIOUS
<1> PICK v : v = Values(m, E)
  OBVIOUS
<1>1. /\ IsFiniteSet(E) /\ lo \subseteq StoredFlows /\ hi \subseteq StoredFlows
      /\ \A e \in E : Val(m, e) \in Nat
      /\ \A r \in lo : g[r] \in E
      /\ \A e \in E : Total(w, Into(g, lo, {e})) <= Val(m, e) /\ Val(m, e) <= Total(w, Into(g, hi, {e}))
  BY DEF Reads
<1>2. Countable(w, lo) /\ Countable(w, hi)
  BY <1>1, WorthsAre
<1>3. Figure(m, E) = Total(v, E) /\ Figure(m, E) \in Nat /\ Countable(v, E)
  BY <1>1, FigureIs
<1>4. \A e \in E : v[e] = Val(m, e)
  BY DEF Values
<1>5. Total(w, Into(g, lo, E)) <= Total(v, E)
  <2>1. \A e \in E : Total(w, Into(g, lo, {e})) <= v[e]
    BY <1>1, <1>4
  <2> QED BY <1>2, <1>3, <2>1, Fibers
<1>6. Total(v, E) <= Total(w, Into(g, hi, E))
  <2>1. \A e \in E : v[e] <= Total(w, Into(g, hi, {e}))
    BY <1>1, <1>4
  <2> QED BY <1>2, <1>3, <2>1, Fibers
<1>7. Into(g, lo, E) = lo /\ Into(g, hi, E) \subseteq hi
  BY <1>1 DEF Into
<1>8. Total(w, Into(g, hi, E)) <= Total(w, hi) /\ Total(w, Into(g, hi, E)) \in Nat /\ Total(w, hi) \in Nat
  BY <1>2, <1>7, TotalMore
<1>9. Total(w, lo) \in Nat
  BY <1>2, TotalIs
<1>10. Total(w, lo) <= Total(v, E)
  BY <1>5, <1>7
<1>11. Total(v, E) \in Nat
  BY <1>3
<1>12. Total(v, E) <= Total(w, hi)
  BY <1>6, <1>8, <1>11
<1> QED BY <1>3, <1>8, <1>9, <1>10, <1>12

\* CountedIn and flows have the same key.
Agrees(E, lo, hi, g, key, ak) == \A r \in lo \cup hi : g[r] \in E => key[g[r]] = ak[r]

OfKey(S, key, k) == {x \in S : key[x] = k}

\* So do the rows of one key, when rows and flows agree on the keys.
LEMMA ReadsPart ==
  ASSUME NEW E, NEW lo, NEW hi, NEW g, NEW m, Reads(E, lo, hi, g, m), NEW key, NEW ak,
         Agrees(E, lo, hi, g, key, ak), NEW k
  PROVE  Reads(OfKey(E, key, k), OfKey(lo, ak, k), OfKey(hi, ak, k), g, m)
<1> PICK F : F = OfKey(E, key, k)
  OBVIOUS
<1>1. F \subseteq E /\ (\A e \in F : key[e] = k) /\ \A e \in E : key[e] = k => e \in F
  BY DEF OfKey
<1>2. IsFiniteSet(F)
  BY <1>1, FS_Subset DEF Reads
<1>3. ASSUME NEW e \in F
      PROVE  Into(g, OfKey(lo, ak, k), {e}) = Into(g, lo, {e}) /\ Into(g, OfKey(hi, ak, k), {e}) = Into(g, hi, {e})
  BY <1>1 DEF Into, OfKey, Agrees
<1>4. ASSUME NEW r \in OfKey(lo, ak, k) PROVE g[r] \in F
  <2>1. r \in lo /\ ak[r] = k
    BY DEF OfKey
  <2>2. g[r] \in E
    BY <2>1 DEF Reads
  <2>3. key[g[r]] = k
    BY <2>1, <2>2 DEF Agrees
  <2> QED BY <1>1, <2>2, <2>3
<1>5. OfKey(lo, ak, k) \subseteq StoredFlows /\ OfKey(hi, ak, k) \subseteq StoredFlows
  BY DEF OfKey, Reads
<1>6. \A e \in F : Val(m, e) \in Nat
  BY <1>1 DEF Reads
<1>7. ASSUME NEW e \in F
      PROVE  /\ Total(Worths(m), Into(g, OfKey(lo, ak, k), {e})) <= Val(m, e)
             /\ Val(m, e) <= Total(Worths(m), Into(g, OfKey(hi, ak, k), {e}))
  <2>1. /\ Total(Worths(m), Into(g, lo, {e})) <= Val(m, e)
        /\ Val(m, e) <= Total(Worths(m), Into(g, hi, {e}))
    BY <1>1 DEF Reads
  <2> QED BY <1>3, <2>1
<1> QED BY <1>2, <1>4, <1>5, <1>6, <1>7 DEF Reads

On(key, E) == key = [e \in E |-> key[e]]
Keys(key, E) == {key[e] : e \in E}
Summed(s, E, key, m) ==
  /\ DOMAIN s = Keys(key, E)
  /\ \A k \in Keys(key, E) : s[k] = Figure(m, OfKey(E, key, k)) /\ s[k] \in Nat
  /\ SumOf(s) = Figure(m, E)

\* Sums by key: of each key's rows, and together of all of them.
LEMMA SumsAre ==
  ASSUME NEW E, NEW m, IsFiniteSet(E), \A e \in E : Val(m, e) \in Nat, NEW key, On(key, E)
  PROVE  Summed(SumsBy(key, m), E, key, m)
<1> PICK s : s = SumsBy(key, m)
  OBVIOUS
<1> PICK K : K = {key[e] : e \in E}
  OBVIOUS
<1> PICK v : v = Values(m, E)
  OBVIOUS
<1>0. key = [e \in E |-> key[e]]
  BY DEF On
<1>1. DOMAIN s = K /\ \A k \in K : s[k] = Figure(m, OfKey(E, key, k))
  <2>1. DOMAIN key = E
    BY <1>0
  <2> QED BY <2>1 DEF SumsBy, OfKey
<1>2. Figure(m, E) = Total(v, E) /\ Countable(v, E)
  BY FigureIs
<1>3. ASSUME NEW k \in K
      PROVE  s[k] = Total(v, OfKey(E, key, k)) /\ s[k] \in Nat
  <2> PICK F : F = OfKey(E, key, k)
    OBVIOUS
  <2>1. F \subseteq E
    BY DEF OfKey
  <2>2. IsFiniteSet(F) /\ \A e \in F : Val(m, e) \in Nat
    BY <2>1, FS_Subset
  <2>3. Figure(m, F) = Total(Values(m, F), F) /\ Figure(m, F) \in Nat
    BY <2>2, FigureIs
  <2>4. \A e \in F : Values(m, F)[e] = v[e]
    BY <2>1 DEF Values
  <2>5. Total(Values(m, F), F) = Total(v, F)
    BY <2>4, TotalSame
  <2> QED BY <1>1, <2>3, <2>5
<1>4. IsFiniteSet(K)
  <2>1. key \in Surjection(E, K)
    <3>1. key \in [E -> K]
      BY <1>0
    <3> QED BY <3>1 DEF Surjection
  <2> QED BY <2>1, FS_Surjection
<1>5. Countable(s, K)
  BY <1>3, <1>4 DEF Countable
<1>6. SumOf(s) = Total(s, K)
  BY <1>1, <1>5, SumIsTotal
<1>7. ASSUME NEW k \in K PROVE Into(key, E, {k}) = OfKey(E, key, k)
  BY DEF Into, OfKey
<1>8. \A k \in K : s[k] = Total(v, Into(key, E, {k})) /\ s[k] \in Nat
  BY <1>3, <1>7
<1>9. Total(s, K) <= Total(v, Into(key, E, K)) /\ Total(v, Into(key, E, K)) <= Total(s, K)
  <2>1. \A k \in K : s[k] <= Total(v, Into(key, E, {k})) /\ Total(v, Into(key, E, {k})) <= s[k]
    BY <1>8
  <2> QED BY <1>2, <1>5, <2>1, Fibers
<1>10. Into(key, E, K) = E
  BY DEF Into
<1>11. Total(s, K) \in Nat /\ Total(v, E) \in Nat
  BY <1>2, <1>5, TotalIs
<1>12. Total(s, K) = Total(v, E)
  <2>1. Total(s, K) <= Total(v, E) /\ Total(v, E) <= Total(s, K)
    BY <1>9, <1>10, Zenon
  <2> QED BY <1>11, <2>1
<1> QED BY <1>1, <1>2, <1>3, <1>6, <1>12 DEF Summed, Keys

LEMMA DivIs ==
  ASSUME NEW a \in Int, NEW h \in Nat \ {0}
  PROVE  a \div h \in Int /\ (a \div h) * h <= a /\ a < (a \div h) * h + h
OBVIOUS

LEMMA DivLater ==
  ASSUME NEW h \in Nat \ {0}, NEW p \in Int, NEW q \in Int, p * h < q * h + h
  PROVE  p <= q
<1>1. SUFFICES ASSUME p >= q + 1 PROVE FALSE
  OBVIOUS
<1>2. PICK d \in Nat : p = q + 1 + d
  <2>1. p - q - 1 \in Nat /\ p = q + 1 + (p - q - 1)
    BY <1>1
  <2> QED BY <2>1
<1>3. d * h \in Nat /\ p * h = q * h + h + d * h
  BY <1>2
<1> QED BY <1>3

LEMMA Multiply ==
  ASSUME NEW h \in Nat \ {0}, NEW p \in Int, NEW q \in Int, p <= q
  PROVE  p * h <= q * h
OBVIOUS

LEMMA HourIs ==
  ASSUME NEW t \in Int
  PROVE  StartOfHour(t) \in Int /\ StartOfHour(t) <= t
BY QueriesAssumption, DivIs DEF StartOfHour

LEMMA HourLater ==
  ASSUME NEW s \in Int, NEW t \in Int, s <= t
  PROVE  StartOfHour(s) <= StartOfHour(t)
<1> PICK h \in Nat \ {0} : h = HourLen
  BY QueriesAssumption
<1> PICK p \in Int : p = s \div h
  BY DivIs
<1> PICK q \in Int : q = t \div h
  BY DivIs
<1>1. p * h <= s /\ t < q * h + h /\ p * h \in Int /\ q * h \in Int
  BY DivIs
<1>2. p * h < q * h + h
  BY <1>1
<1>3. p <= q
  BY <1>2, DivLater
<1>4. p * h <= q * h
  BY <1>3, Multiply
<1> QED BY <1>4 DEF StartOfHour

-----------------------------------------------------------------------------
(* The store.                                                              *)

\* The flows summed under k, and whether k has outlived the rollup.
Fiber(k) == {x \in DOMAIN landed : RollupKey(x, landed[x]) = k}
Old(k, clock) == k.t + RollupKeep <= clock

HourFits(k, m) ==
  /\ Val(m, hourly[k]) \in Nat
  /\ Val(m, hourly[k]) <= Total(Worths(m), Fiber(k))
  /\ ~Old(k, flowNow) => Val(m, hourly[k]) = Total(Worths(m), Fiber(k))

\* A flow that landed is in both tables until its time there is over, and an
\* hour never counts more than what landed in it.
TablesFit ==
  /\ flowNow \in Nat
  /\ DOMAIN landed \subseteq StoredFlows /\ \A r \in DOMAIN landed : landed[r] \in Nat
  /\ raw \subseteq DOMAIN landed
  /\ \A r \in DOMAIN landed \ raw : landed[r] + RawKeep <= flowNow
  /\ \A k \in DOMAIN hourly : \E x \in DOMAIN landed : k = RollupKey(x, landed[x])
  /\ \A r \in DOMAIN landed : ~Old(RollupKey(r, landed[r]), flowNow) => RollupKey(r, landed[r]) \in DOMAIN hourly
  /\ \A k \in DOMAIN hourly : \A m : HourFits(k, m)

LEMMA KeyTime ==
  ASSUME NEW r, NEW at \in Nat
  PROVE  RollupKey(r, at).t = StartOfHour(at) /\ RollupKey(r, at).t \in Int
<1>1. RollupKey(r, at).t = StartOfHour(at)
  BY DEF RollupKey
<1> QED BY <1>1, HourIs

LEMMA FiberIs ==
  ASSUME TablesFit, NEW k, NEW m
  PROVE  /\ Fiber(k) \subseteq StoredFlows /\ Countable(Worths(m), Fiber(k))
         /\ Total(Worths(m), Fiber(k)) \in Nat
<1>1. Fiber(k) \subseteq StoredFlows
  BY DEF Fiber, TablesFit
<1>2. Countable(Worths(m), Fiber(k))
  BY <1>1, WorthsAre
<1> QED BY <1>1, <1>2, TotalIs

LEMMA StoreInit == QueriesInit => TablesFit
<1> SUFFICES ASSUME QueriesInit PROVE TablesFit
  OBVIOUS
<1>1. DOMAIN NoFlows = {}
  BY DEF NoFlows
<1>2. DOMAIN landed = {} /\ DOMAIN hourly = {} /\ raw = {} /\ flowNow = 0
  BY <1>1 DEF QueriesInit
<1> QED BY <1>2 DEF TablesFit

LEMMA StoreSame ==
  ASSUME TablesFit, UNCHANGED <<flowNow, landed, raw, hourly>>
  PROVE  TablesFit'
<1>1. \A k : Fiber(k)' = Fiber(k)
  BY DEF Fiber
<1>2. \A k \in DOMAIN hourly : \A m : HourFits(k, m)'
  <2> SUFFICES ASSUME NEW k \in DOMAIN hourly, NEW m PROVE HourFits(k, m)'
    OBVIOUS
  <2>1. HourFits(k, m)
    BY DEF TablesFit
  <2> QED BY <1>1, <2>1, Zenon DEF HourFits
<1> QED BY <1>2 DEF TablesFit

\* What comes of age may be missing from now on.
LEMMA StoreTime ==
  ASSUME TablesFit, QueryTimePasses
  PROVE  TablesFit'
<1>0. flowNow' = flowNow + 1 /\ flowNow \in Nat /\ landed' = landed /\ raw' = raw /\ hourly' = hourly
  BY DEF QueryTimePasses, TablesFit
<1>1. ASSUME NEW r \in DOMAIN landed
      PROVE  landed[r] \in Nat /\ RollupKey(r, landed[r]).t \in Int
             /\ (~Old(RollupKey(r, landed[r]), flowNow') => ~Old(RollupKey(r, landed[r]), flowNow))
  <2>1. landed[r] \in Nat
    BY DEF TablesFit
  <2>2. RollupKey(r, landed[r]).t \in Int
    BY <2>1, KeyTime
  <2>3. RollupKeep \in Nat
    BY QueriesAssumption
  <2> QED BY <1>0, <2>1, <2>2, <2>3 DEF Old
<1>2. \A k \in DOMAIN hourly : \A m : HourFits(k, m)'
  <2> SUFFICES ASSUME NEW k \in DOMAIN hourly, NEW m PROVE HourFits(k, m)'
    OBVIOUS
  <2>1. HourFits(k, m)
    BY DEF TablesFit
  <2>2. Fiber(k)' = Fiber(k)
    BY <1>0 DEF Fiber
  <2>3. ~Old(k, flowNow') => ~Old(k, flowNow)
    <3>1. PICK x \in DOMAIN landed : k = RollupKey(x, landed[x])
      BY DEF TablesFit
    <3> QED BY <1>1, <3>1
  <2>4. /\ Val(m, hourly[k]) \in Nat
        /\ Val(m, hourly[k]) <= Total(Worths(m), Fiber(k))
        /\ ~Old(k, flowNow') => Val(m, hourly[k]) = Total(Worths(m), Fiber(k))
    BY <2>1, <2>3 DEF HourFits
  <2> QED BY <1>0, <2>2, <2>4, Zenon DEF HourFits
<1>3. \A r \in DOMAIN landed \ raw : landed[r] + RawKeep <= flowNow'
  <2> SUFFICES ASSUME NEW r \in DOMAIN landed \ raw PROVE landed[r] + RawKeep <= flowNow'
    OBVIOUS
  <2>1. landed[r] \in Nat /\ RawKeep \in Nat /\ landed[r] + RawKeep <= flowNow
    BY QueriesAssumption DEF TablesFit
  <2> QED BY <1>0, <2>1
<1>4. \A r \in DOMAIN landed : ~Old(RollupKey(r, landed[r]), flowNow') => RollupKey(r, landed[r]) \in DOMAIN hourly
  BY <1>1 DEF TablesFit
<1> QED BY <1>0, <1>2, <1>3, <1>4 DEF TablesFit

LEMMA StoreRawExpires ==
  ASSUME TablesFit, NEW r, RawExpires(r)
  PROVE  TablesFit'
<1>0. UNCHANGED <<flowNow, landed, hourly>> /\ raw' = raw \ {r} /\ landed[r] + RawKeep <= flowNow
  BY DEF RawExpires
<1>1. \A k : Fiber(k)' = Fiber(k)
  BY <1>0 DEF Fiber
<1>2. \A k \in DOMAIN hourly : \A m : HourFits(k, m)'
  <2> SUFFICES ASSUME NEW k \in DOMAIN hourly, NEW m PROVE HourFits(k, m)'
    OBVIOUS
  <2>1. HourFits(k, m)
    BY DEF TablesFit
  <2> QED BY <1>0, <1>1, <2>1, Zenon DEF HourFits
<1>3. \A x \in DOMAIN landed \ raw' : landed[x] + RawKeep <= flowNow
  BY <1>0 DEF TablesFit
<1> QED BY <1>0, <1>2, <1>3 DEF TablesFit

LEMMA StoreRollupExpires ==
  ASSUME TablesFit, NEW o, RollupExpires(o)
  PROVE  TablesFit'
<1>0. /\ UNCHANGED <<flowNow, landed, raw>> /\ hourly' = [x \in DOMAIN hourly \ {o} |-> hourly[x]]
      /\ Old(o, flowNow)
  BY DEF RollupExpires, Old
<1>1. \A k : Fiber(k)' = Fiber(k)
  BY <1>0 DEF Fiber
<1>2. \A k \in DOMAIN hourly' : \A m : HourFits(k, m)'
  <2> SUFFICES ASSUME NEW k \in DOMAIN hourly', NEW m PROVE HourFits(k, m)'
    OBVIOUS
  <2>1. k \in DOMAIN hourly /\ hourly'[k] = hourly[k]
    BY <1>0
  <2>2. HourFits(k, m)
    BY <2>1 DEF TablesFit
  <2> QED BY <1>0, <1>1, <2>1, <2>2, Zenon DEF HourFits
<1>3. \A r \in DOMAIN landed : ~Old(RollupKey(r, landed[r]), flowNow) => RollupKey(r, landed[r]) \in DOMAIN hourly'
  BY <1>0 DEF TablesFit
<1>4. \A k \in DOMAIN hourly' : \E x \in DOMAIN landed : k = RollupKey(x, landed[x])
  BY <1>0 DEF TablesFit
<1> QED BY <1>0, <1>2, <1>3, <1>4 DEF TablesFit

\* The view adds a flow to the hour it landed in, and to no other.
LEMMA StoreLands ==
  ASSUME TablesFit, NEW r \in StoredFlows, NEW at, FlowLands(r, at)
  PROVE  TablesFit'
<1> PICK k : k = RollupKey(r, at)
  OBVIOUS
<1> PICK old : old = IF k \in DOMAIN hourly THEN hourly[k] ELSE [bytes |-> 0, flows |-> 0]
  OBVIOUS
<1>0. /\ r \notin DOMAIN landed /\ at \in Nat /\ flowNow' = flowNow /\ flowNow \in Nat
      /\ landed' = [x \in DOMAIN landed \cup {r} |-> IF x = r THEN at ELSE landed[x]]
      /\ raw' = raw \cup {r}
      /\ hourly' = [x \in DOMAIN hourly \cup {k} |->
                     IF x = k THEN [bytes |-> old.bytes + r.bytes, flows |-> old.flows + 1] ELSE hourly[x]]
  BY DEF FlowLands, TablesFit
<1>1. DOMAIN landed' = DOMAIN landed \cup {r} /\ landed'[r] = at /\ \A x \in DOMAIN landed : landed'[x] = landed[x]
  BY <1>0
<1>2. ASSUME NEW j PROVE Fiber(j)' = IF j = k THEN Fiber(j) \cup {r} ELSE Fiber(j)
  BY <1>0, <1>1 DEF Fiber
<1>3. r \notin Fiber(k) /\ r.bytes \in Nat
  BY <1>0, QueriesAssumption DEF Fiber
<1>4. DOMAIN hourly' = DOMAIN hourly \cup {k} /\ (\A j \in DOMAIN hourly \ {k} : hourly'[j] = hourly[j])
      /\ hourly'[k] = [bytes |-> old.bytes + r.bytes, flows |-> old.flows + 1]
  BY <1>0
<1>5. ASSUME NEW m PROVE HourFits(k, m)'
  <2> PICK w : w = Worths(m)
    OBVIOUS
  <2>1. w[r] \in Nat /\ Val(m, hourly'[k]) = Val(m, old) + w[r]
    BY <1>3, <1>4 DEF Worths, Val
  <2>2. Total(w, Fiber(k)) \in Nat /\ Countable(w, Fiber(k))
    BY FiberIs
  <2>3. Total(w, Fiber(k) \cup {r}) = Total(w, Fiber(k)) + w[r]
    <3>1. Countable(w, {r}) /\ Total(w, {r}) = w[r] /\ Fiber(k) \cap {r} = {}
      BY <1>3, <2>1, TotalOne
    <3> QED BY <2>2, <3>1, TotalUnion
  <2>4. /\ Val(m, old) \in Nat /\ Val(m, old) <= Total(w, Fiber(k))
        /\ ~Old(k, flowNow) => Val(m, old) = Total(w, Fiber(k))
    <3>1. CASE k \in DOMAIN hourly
      BY <3>1 DEF TablesFit, HourFits
    <3>2. CASE k \notin DOMAIN hourly
      <4>1. Val(m, old) = 0
        BY <3>2 DEF Val
      <4>2. ASSUME ~Old(k, flowNow) PROVE Total(w, Fiber(k)) = 0
        <5>1. ASSUME NEW x \in Fiber(k) PROVE FALSE
          <6>1. x \in DOMAIN landed /\ RollupKey(x, landed[x]) = k
            BY <5>1 DEF Fiber
          <6>2. RollupKey(x, landed[x]) \in DOMAIN hourly
            BY <4>2, <6>1 DEF TablesFit
          <6> QED BY <3>2, <6>1, <6>2
        <5>2. Fiber(k) = {}
          BY <5>1
        <5> QED BY <5>2, TotalNone
      <4> QED BY <2>2, <4>1, <4>2
    <3> QED BY <3>1, <3>2
  <2>5. Fiber(k)' = Fiber(k) \cup {r}
    BY <1>2
  <2>6. /\ Val(m, hourly'[k]) \in Nat
        /\ Val(m, hourly'[k]) <= Total(w, Fiber(k) \cup {r})
        /\ ~Old(k, flowNow) => Val(m, hourly'[k]) = Total(w, Fiber(k) \cup {r})
    BY <2>1, <2>2, <2>3, <2>4
  <2> QED BY <1>0, <2>5, <2>6, Zenon DEF HourFits
<1>6. \A j \in DOMAIN hourly' : \A m : HourFits(j, m)'
  <2> SUFFICES ASSUME NEW j \in DOMAIN hourly', NEW m, j # k PROVE HourFits(j, m)'
    BY <1>5
  <2>1. j \in DOMAIN hourly /\ hourly'[j] = hourly[j] /\ Fiber(j)' = Fiber(j)
    BY <1>2, <1>4
  <2>2. HourFits(j, m)
    BY <2>1 DEF TablesFit
  <2> QED BY <1>0, <2>1, <2>2, Zenon DEF HourFits
<1>7. \A x \in DOMAIN landed' \ raw' : landed'[x] + RawKeep <= flowNow'
  BY <1>0, <1>1 DEF TablesFit
<1>8. \A j \in DOMAIN hourly' : \E x \in DOMAIN landed' : j = RollupKey(x, landed'[x])
  BY <1>1, <1>4 DEF TablesFit
<1>9. \A x \in DOMAIN landed' : ~Old(RollupKey(x, landed'[x]), flowNow') => RollupKey(x, landed'[x]) \in DOMAIN hourly'
  BY <1>0, <1>1, <1>4 DEF TablesFit
<1>10. flowNow' \in Nat /\ DOMAIN landed' \subseteq StoredFlows /\ (\A x \in DOMAIN landed' : landed'[x] \in Nat)
       /\ raw' \subseteq DOMAIN landed'
  BY <1>0, <1>1 DEF TablesFit
<1> QED BY <1>6, <1>7, <1>8, <1>9, <1>10 DEF TablesFit

-----------------------------------------------------------------------------
(* The book.                                                               *)

BookFits == live \subseteq BookDevices

Home(lv, a) == {d \in lv : HomeAddr[d] = a}
Claimants(lv, cl, a) == {d \in lv : \E t \in cl[d] : t.addr = a}
OwnersOf(lv, cl, a) ==
  IF Home(lv, a) # {} THEN Home(lv, a)
  ELSE IF Claimants(lv, cl, a) # {} THEN {Min(Claimants(lv, cl, a))} ELSE {}

LEMMA OwnersAre ==
  ASSUME NEW a
  PROVE  Owners(a) = OwnersOf(ask.bookRead.live, ask.bookRead.claims, a)
BY Zenon DEF Owners, OwnersOf, Home, Claimants

LEMMA MinIs ==
  ASSUME NEW A \in SUBSET Nat, A # {}
  PROVE  Min(A) \in A /\ \A x \in A : Min(A) <= x
<1>1. \E m \in A : \A x \in A : m <= x
  BY FirstOf
<1> QED BY <1>1 DEF Min

HomeEntry(d) == [text |-> [addr |-> HomeAddr[d], mapped |-> FALSE], dev |-> d, claimed |-> FALSE]
ClaimEntry(d, t) == [text |-> t, dev |-> d, claimed |-> TRUE]

LEMMA AddressesAre ==
  ASSUME NEW x
  PROVE  x \in Addresses <=> \/ \E d \in live : x = HomeEntry(d)
                             \/ \E d \in live : \E t \in claims[d] : x = ClaimEntry(d, t)
BY DEF Addresses, HomeEntry, ClaimEntry

\* The entries of one address.
EntriesOf(a) == {x \in Addresses : normAddr(x.text) = a}

\* The entries of an address: its home, and the claims of it.
LEMMA EntriesAre ==
  ASSUME NEW a
  PROVE  /\ \A d \in Home(live, a) : HomeEntry(d) \in EntriesOf(a)
         /\ \A d \in Claimants(live, claims, a) : \E t \in claims[d] : ClaimEntry(d, t) \in EntriesOf(a)
         /\ \A x \in EntriesOf(a) :
              \/ x.claimed = FALSE /\ x.dev \in Home(live, a)
              \/ x.claimed = TRUE /\ x.dev \in Claimants(live, claims, a)
<1>1. ASSUME NEW d \in Home(live, a) PROVE HomeEntry(d) \in EntriesOf(a)
  <2>1. d \in live /\ HomeAddr[d] = a
    BY DEF Home
  <2>2. normAddr(HomeEntry(d).text) = a
    BY <2>1 DEF HomeEntry, normAddr
  <2> QED BY <2>1, <2>2, AddressesAre DEF EntriesOf
<1>2. ASSUME NEW d \in Claimants(live, claims, a) PROVE \E t \in claims[d] : ClaimEntry(d, t) \in EntriesOf(a)
  <2>1. d \in live
    BY DEF Claimants
  <2>2. PICK t \in claims[d] : t.addr = a
    BY DEF Claimants
  <2>3. normAddr(ClaimEntry(d, t).text) = a
    BY <2>2 DEF ClaimEntry, normAddr
  <2>4. ClaimEntry(d, t) \in Addresses
    BY <2>1, AddressesAre
  <2> QED BY <2>3, <2>4 DEF EntriesOf
<1>3. ASSUME NEW x \in EntriesOf(a)
      PROVE  \/ x.claimed = FALSE /\ x.dev \in Home(live, a)
             \/ x.claimed = TRUE /\ x.dev \in Claimants(live, claims, a)
  <2>1. x \in Addresses /\ normAddr(x.text) = a
    BY DEF EntriesOf
  <2>2. CASE \E d \in live : x = HomeEntry(d)
    <3>1. PICK d \in live : x = HomeEntry(d)
      BY <2>2
    <3>2. x.claimed = FALSE /\ x.dev = d /\ HomeAddr[d] = a
      BY <2>1, <3>1 DEF HomeEntry, normAddr
    <3> QED BY <3>2 DEF Home
  <2>3. CASE \E d \in live : \E t \in claims[d] : x = ClaimEntry(d, t)
    <3>0. PICK d \in live : \E t \in claims[d] : x = ClaimEntry(d, t)
      BY <2>3
    <3>1. PICK t \in claims[d] : x = ClaimEntry(d, t)
      BY <3>0
    <3>2. x.claimed = TRUE /\ x.dev = d /\ t.addr = a
      BY <2>1, <3>1 DEF ClaimEntry, normAddr
    <3> QED BY <3>2 DEF Claimants
  <2> QED BY <2>1, <2>2, <2>3, AddressesAre
<1> QED BY <1>1, <1>2, <1>3

\* The index keeps the home, else the first claim.
LEMMA FirstEntry ==
  ASSUME BookFits, NEW a, EntriesOf(a) # {}
  PROVE  /\ \E x \in EntriesOf(a) : \A y \in EntriesOf(a) : Before(x, y)
         /\ \A x \in EntriesOf(a) : (\A y \in EntriesOf(a) : Before(x, y)) => OwnersOf(live, claims, a) = {x.dev}
<1> PICK H : H = Home(live, a)
  OBVIOUS
<1> PICK C : C = Claimants(live, claims, a)
  OBVIOUS
<1>0. H \in SUBSET Nat /\ C \in SUBSET Nat
  BY QueriesAssumption DEF BookFits, Home, Claimants
<1>1. \A d, e \in H : d = e
  <2>1. H \subseteq BookDevices /\ \A d \in H : HomeAddr[d] = a
    BY DEF BookFits, Home
  <2> QED BY <2>1, QueriesAssumption
<1>2. \A x \in EntriesOf(a) : (x.claimed = FALSE /\ x.dev \in H) \/ (x.claimed = TRUE /\ x.dev \in C)
  BY EntriesAre
<1>3. CASE H # {}
  <2>1. PICK d : d \in H
    BY <1>3
  <2>2. HomeEntry(d) \in EntriesOf(a) /\ HomeEntry(d).dev = d /\ HomeEntry(d).claimed = FALSE
    <3>1. HomeEntry(d) \in EntriesOf(a)
      BY <2>1, EntriesAre
    <3> QED BY <3>1 DEF HomeEntry
  <2>3. ASSUME NEW y \in EntriesOf(a) PROVE Before(HomeEntry(d), y)
    <3>1. CASE y.claimed = FALSE /\ y.dev \in H
      <4>1. y.dev = d /\ d \in Nat
        BY <1>0, <1>1, <2>1, <3>1
      <4>2. HomeEntry(d).dev <= y.dev
        BY <2>2, <4>1
      <4>3. HomeEntry(d).claimed = y.claimed
        BY <2>2, <3>1
      <4> QED BY <4>2, <4>3, Zenon DEF Before
    <3>2. CASE y.claimed = TRUE /\ y.dev \in C
      BY <2>2, <3>2 DEF Before
    <3> QED BY <1>2, <3>1, <3>2
  <2>4. ASSUME NEW x \in EntriesOf(a), \A y \in EntriesOf(a) : Before(x, y) PROVE OwnersOf(live, claims, a) = {x.dev}
    <3>1. Before(x, HomeEntry(d))
      BY <2>2, <2>4
    <3>2. ~x.claimed
      BY <1>2, <2>2, <3>1 DEF Before
    <3>3. x.dev \in H
      BY <1>2, <3>2
    <3>4. H = {x.dev}
      BY <1>1, <3>3
    <3>5. OwnersOf(live, claims, a) = H
      BY <1>3 DEF OwnersOf
    <3> QED BY <3>4, <3>5
  <2> QED BY <2>2, <2>3, <2>4
<1>4. CASE H = {}
  <2>1. \A x \in EntriesOf(a) : x.claimed = TRUE /\ x.dev \in C
    BY <1>2, <1>4
  <2>2. C # {}
    BY <2>1
  <2>3. Min(C) \in C /\ \A d \in C : Min(C) <= d
    BY <1>0, <2>2, MinIs
  <2> PICK n \in Nat : n = Min(C)
    BY <1>0, <2>3
  <2>4. PICK t \in claims[n] : ClaimEntry(n, t) \in EntriesOf(a)
    BY <2>3, EntriesAre
  <2>5. ClaimEntry(n, t).dev = n /\ ClaimEntry(n, t).claimed = TRUE
    BY DEF ClaimEntry
  <2>6. ASSUME NEW y \in EntriesOf(a) PROVE Before(ClaimEntry(n, t), y)
    <3>1. y.claimed = TRUE /\ ClaimEntry(n, t).claimed = TRUE
      BY <2>1 DEF ClaimEntry
    <3>2. n <= y.dev
      BY <2>1, <2>3
    <3> QED BY <2>5, <3>1, <3>2 DEF Before
  <2>7. ASSUME NEW x \in EntriesOf(a), \A y \in EntriesOf(a) : Before(x, y) PROVE OwnersOf(live, claims, a) = {x.dev}
    <3>1. Before(x, ClaimEntry(n, t)) /\ x.claimed = TRUE /\ x.dev \in C
      BY <2>1, <2>4, <2>7
    <3>2. x.dev <= n
      BY <2>5, <3>1 DEF Before
    <3>3. x.dev = n
      <4>1. n <= x.dev /\ x.dev \in Nat
        BY <1>0, <2>3, <3>1
      <4> QED BY <3>2, <4>1
    <3>4. OwnersOf(live, claims, a) = {n}
      BY <1>4, <2>2 DEF OwnersOf
    <3> QED BY <3>3, <3>4
  <2> QED BY <2>4, <2>6, <2>7
<1> QED BY <1>3, <1>4

LEMMA NoEntry ==
  ASSUME NEW a, EntriesOf(a) = {}
  PROVE  OwnersOf(live, claims, a) = {}
<1>1. Home(live, a) = {} /\ Claimants(live, claims, a) = {}
  BY EntriesAre
<1> QED BY <1>1 DEF OwnersOf

\* The index knows the address, and whose it is.
LEMMA IndexIs ==
  ASSUME BookFits, NEW idx, idx = newIndex(Addresses), NEW a
  PROVE  /\ a \in DOMAIN idx <=> EntriesOf(a) # {}
         /\ a \notin DOMAIN idx => OwnersOf(live, claims, a) = {}
         /\ a \in DOMAIN idx => /\ OwnersOf(live, claims, a) = {idx[a]}
                                /\ \E x \in EntriesOf(a) : x.dev = idx[a]
<1>1. DOMAIN idx = {normAddr(x.text) : x \in Addresses}
  BY DEF newIndex
<1>2. a \in DOMAIN idx <=> EntriesOf(a) # {}
  BY <1>1 DEF EntriesOf
<1>3. ASSUME a \in DOMAIN idx
      PROVE  OwnersOf(live, claims, a) = {idx[a]} /\ \E x \in EntriesOf(a) : x.dev = idx[a]
  <2>1. idx[a] = (CHOOSE x \in EntriesOf(a) : \A y \in EntriesOf(a) : Before(x, y)).dev
    BY <1>1, <1>3 DEF newIndex, EntriesOf
  <2> PICK x : x = CHOOSE z \in EntriesOf(a) : \A y \in EntriesOf(a) : Before(z, y)
    OBVIOUS
  <2>2. \E z \in EntriesOf(a) : \A y \in EntriesOf(a) : Before(z, y)
    BY <1>2, <1>3, FirstEntry
  <2>3. x \in EntriesOf(a) /\ \A y \in EntriesOf(a) : Before(x, y)
    BY <2>2
  <2>4. OwnersOf(live, claims, a) = {x.dev}
    BY <1>2, <1>3, <2>3, FirstEntry
  <2> QED BY <2>1, <2>3, <2>4
<1> QED BY <1>2, <1>3, NoEntry

-----------------------------------------------------------------------------
(* The scope of a question.                                                *)

OfDevice(own, q) == own \cap q.devices # {}
OfSite(own, q) == {HomeSite[d] : d \in own} \cap q.sites # {}
Within(own, q, r) ==
  IF q.kind \in Explorer THEN q.devices \cup q.sites = {} \/ OfDevice(own, q) \/ OfSite(own, q)
  ELSE /\ q.devices = {} \/ OfDevice(own, q)
       /\ q.sites = {} \/ OfSite(own, q)
       /\ q.exporters = {} \/ \E t \in q.exporters : t.addr = r.exporter
       /\ q.ifIndex \in {0, r.in_if}

LEMMA InScopeIs ==
  ASSUME NEW r
  PROVE  InScope(r) <=> Within(OwnersOf(ask.bookRead.live, ask.bookRead.claims, r.exporter), question, r)
<1> PICK o : o = Owners(r.exporter)
  OBVIOUS
<1>1. InScope(r) <=> Within(o, question, r)
  BY Zenon DEF InScope, Within, OfDevice, OfSite
<1> QED BY <1>1, OwnersAre

\* The scope of the explorer is what the book says is in scope.
LEMMA ExplorerScopes ==
  ASSUME BookFits, NEW idx, idx = newIndex(Addresses), NEW q, q.kind \in Explorer, NEW r \in StoredFlows
  PROVE  r.exporter \in ExplorerScope(q, idx) <=> Within(OwnersOf(live, claims, r.exporter), q, r)
<1> PICK a : a = r.exporter
  OBVIOUS
<1> PICK own : own = OwnersOf(live, claims, a)
  OBVIOUS
<1>1. a \in AllAddrs
  BY DEF AllAddrs
<1>2. Within(own, q, r) <=> (q.devices \cup q.sites = {} \/ OfDevice(own, q) \/ OfSite(own, q))
  BY DEF Within
<1>3. CASE q.devices \cup q.sites = {}
  BY <1>1, <1>2, <1>3 DEF ExplorerScope
<1>4. CASE q.devices \cup q.sites # {}
  <2>1. a \in ExplorerScope(q, idx) <=> a \in DOMAIN idx /\ (idx[a] \in q.devices \/ HomeSite[idx[a]] \in q.sites)
    BY <1>4 DEF ExplorerScope
  <2>2. CASE a \in DOMAIN idx
    <3>1. own = {idx[a]}
      BY <2>2, IndexIs
    <3>2. OfDevice(own, q) <=> idx[a] \in q.devices
      BY <3>1 DEF OfDevice
    <3>3. OfSite(own, q) <=> HomeSite[idx[a]] \in q.sites
      BY <3>1 DEF OfSite
    <3> QED BY <1>2, <1>4, <2>1, <2>2, <3>2, <3>3
  <2>3. CASE a \notin DOMAIN idx
    <3>1. own = {}
      BY <2>3, IndexIs
    <3>2. ~OfDevice(own, q) /\ ~OfSite(own, q)
      BY <3>1 DEF OfDevice, OfSite
    <3> QED BY <1>2, <1>4, <2>1, <2>3, <3>2
  <2> QED BY <2>2, <2>3
<1> QED BY <1>3, <1>4

Fitting(q, list) ==
  {a \in list : /\ q.devices # {} => a.dev \in q.devices
                /\ q.sites # {} => HomeSite[a.dev] \in q.sites}
Attributed(q, list, idx) ==
  {k \in {normAddr(a.text) : a \in Fitting(q, list)} :
     \E a \in Fitting(q, list) : normAddr(a.text) = k /\ idx[k] = a.dev}
Named(q) == {normAddr(t) : t \in q.exporters}

LEMMA ResolveIs ==
  ASSUME NEW q, NEW list, NEW idx
  PROVE  resolve(q, list, idx) =
           IF q.devices \cup q.sites # {}
           THEN IF Named(q) = {} THEN Attributed(q, list, idx) ELSE Attributed(q, list, idx) \cap Named(q)
           ELSE IF Named(q) = {} THEN AllAddrs ELSE Named(q)
BY Zenon DEF resolve, Fitting, Attributed, Named

\* So is the scope of the aggregate endpoints, however an address was typed.
LEMMA ResolveScopes ==
  ASSUME BookFits, NEW idx, idx = newIndex(Addresses), NEW q, q.kind \notin Explorer, NEW r \in StoredFlows
  PROVE  (r.exporter \in resolve(q, Addresses, idx) /\ q.ifIndex \in {0, r.in_if})
           <=> Within(OwnersOf(live, claims, r.exporter), q, r)
<1> PICK a : a = r.exporter
  OBVIOUS
<1> PICK own : own = OwnersOf(live, claims, a)
  OBVIOUS
<1> PICK of : of = Fitting(q, Addresses)
  OBVIOUS
<1> PICK Ad : Ad = Attributed(q, Addresses, idx)
  OBVIOUS
<1> PICK Wt : Wt = Named(q)
  OBVIOUS
<1>0. resolve(q, Addresses, idx) = IF q.devices \cup q.sites # {} THEN IF Wt = {} THEN Ad ELSE Ad \cap Wt
                                   ELSE IF Wt = {} THEN AllAddrs ELSE Wt
  BY ResolveIs
<1>1. a \in AllAddrs
  BY DEF AllAddrs
<1>2. Wt = {} <=> q.exporters = {}
  BY DEF Named
<1>3. a \in Wt <=> \E t \in q.exporters : t.addr = a
  BY DEF normAddr, Named
<1>4. a \in Ad <=> \E x \in of : normAddr(x.text) = a /\ idx[a] = x.dev
  BY DEF Attributed
<1>5. Within(own, q, r) <=> /\ q.devices = {} \/ OfDevice(own, q)
                            /\ q.sites = {} \/ OfSite(own, q)
                            /\ q.exporters = {} \/ \E t \in q.exporters : t.addr = a
                            /\ q.ifIndex \in {0, r.in_if}
  BY DEF Within
<1>6. a \in Ad <=> /\ a \in DOMAIN idx
                   /\ q.devices # {} => idx[a] \in q.devices
                   /\ q.sites # {} => HomeSite[idx[a]] \in q.sites
  <2>1. ASSUME a \in Ad
        PROVE  /\ a \in DOMAIN idx
               /\ q.devices # {} => idx[a] \in q.devices
               /\ q.sites # {} => HomeSite[idx[a]] \in q.sites
    <3>1. PICK x \in of : normAddr(x.text) = a /\ idx[a] = x.dev
      BY <1>4, <2>1
    <3>2. x \in EntriesOf(a)
      BY <3>1 DEF EntriesOf, Fitting
    <3>3. a \in DOMAIN idx
      BY <3>2, IndexIs
    <3>4. /\ q.devices # {} => x.dev \in q.devices
          /\ q.sites # {} => HomeSite[x.dev] \in q.sites
      BY <3>1 DEF Fitting
    <3> QED BY <3>1, <3>3, <3>4
  <2>2. ASSUME a \in DOMAIN idx,
               q.devices # {} => idx[a] \in q.devices,
               q.sites # {} => HomeSite[idx[a]] \in q.sites
        PROVE  a \in Ad
    <3>1. PICK x \in EntriesOf(a) : x.dev = idx[a]
      BY <2>2, IndexIs
    <3>2. x \in of /\ normAddr(x.text) = a
      BY <2>2, <3>1 DEF EntriesOf, Fitting
    <3> QED BY <1>4, <3>1, <3>2
  <2> QED BY <2>1, <2>2
<1>7. CASE q.devices \cup q.sites = {}
  <2>1. q.devices = {} /\ q.sites = {}
    BY <1>7
  <2> QED BY <1>0, <1>1, <1>2, <1>3, <1>5, <1>7, <2>1
<1>8. CASE q.devices \cup q.sites # {}
  <2>0. a \in resolve(q, Addresses, idx) <=> a \in Ad /\ (q.exporters = {} \/ \E t \in q.exporters : t.addr = a)
    BY <1>0, <1>2, <1>3, <1>8
  <2>1. CASE a \in DOMAIN idx
    <3>1. own = {idx[a]}
      BY <2>1, IndexIs
    <3>2. OfDevice(own, q) <=> idx[a] \in q.devices
      BY <3>1 DEF OfDevice
    <3>3. OfSite(own, q) <=> HomeSite[idx[a]] \in q.sites
      BY <3>1 DEF OfSite
    <3> QED BY <1>5, <1>6, <2>0, <2>1, <3>2, <3>3
  <2>2. CASE a \notin DOMAIN idx
    <3>1. own = {}
      BY <2>2, IndexIs
    <3>2. ~OfDevice(own, q) /\ ~OfSite(own, q)
      BY <3>1 DEF OfDevice, OfSite
    <3>3. q.devices # {} \/ q.sites # {}
      BY <1>8
    <3> QED BY <1>5, <1>6, <2>0, <2>2, <3>2, <3>3
  <2> QED BY <2>1, <2>2
<1> QED BY <1>7, <1>8

-----------------------------------------------------------------------------
(* What the rows show.                                                     *)

LEMMA ImageFinite ==
  ASSUME NEW S, IsFiniteSet(S), NEW g, S \subseteq DOMAIN g
  PROVE  IsFiniteSet({g[x] : x \in S})
<1> PICK f : f = [x \in S |-> g[x]]
  OBVIOUS
<1> PICK T : T = {g[x] : x \in S}
  OBVIOUS
<1>1. f \in Surjection(S, T)
  <2>1. f \in [S -> T]
    OBVIOUS
  <2> QED BY <2>1 DEF Surjection
<1> QED BY <1>1, FS_Surjection

LEMMA FlowRowIs ==
  ASSUME NEW r
  PROVE  /\ FlowRow(r).t = landed[r] /\ FlowRow(r).id = r.id /\ FlowRow(r).exporter = r.exporter
         /\ FlowRow(r).in_if = r.in_if /\ FlowRow(r).src_port = r.src_port /\ FlowRow(r).dst_port = r.dst_port
         /\ FlowRow(r).tcp_flags = r.tcp_flags /\ FlowRow(r).bytes = r.bytes /\ FlowRow(r).flows = 1
BY DEF FlowRow

\* The raw rows of some flows read just those flows.
LEMMA FlowReads ==
  ASSUME TablesFit, NEW X, X \subseteq DOMAIN landed, NEW lo, lo \subseteq X, NEW hi, X \subseteq hi,
         hi \subseteq DOMAIN landed, NEW g, DOMAIN g = DOMAIN landed,
         \A r \in DOMAIN landed : g[r] = FlowRow(r), NEW m
  PROVE  Reads({FlowRow(r) : r \in X}, lo, hi, g, m)
<1> PICK E : E = {FlowRow(r) : r \in X}
  OBVIOUS
<1> PICK w : w = Worths(m)
  OBVIOUS
<1>0. DOMAIN landed \subseteq StoredFlows
  BY DEF TablesFit
<1>1. IsFiniteSet(E)
  <2>1. IsFiniteSet(X)
    BY <1>0, QueriesAssumption, FS_Subset
  <2>2. E = {g[r] : r \in X}
    OBVIOUS
  <2> QED BY <2>1, <2>2, ImageFinite
<1>2. ASSUME NEW x \in X
      PROVE  /\ Val(m, FlowRow(x)) = w[x] /\ w[x] \in Nat
             /\ Into(g, hi, {FlowRow(x)}) = {x} /\ Into(g, lo, {FlowRow(x)}) \subseteq {x}
  <2>1. Val(m, FlowRow(x)) = w[x] /\ w[x] \in Nat
    <3>1. x \in StoredFlows /\ x.bytes \in Nat
      BY <1>0, QueriesAssumption
    <3> QED BY <3>1, FlowRowIs DEF Val, Worths
  <2>2. ASSUME NEW r \in hi, g[r] = FlowRow(x) PROVE r = x
    <3>1. r.id = x.id
      BY <2>2, FlowRowIs
    <3> QED BY <1>0, <3>1, QueriesAssumption
  <2> QED BY <2>1, <2>2 DEF Into
<1>3. ASSUME NEW e \in E
      PROVE  /\ Val(m, e) \in Nat /\ Total(w, Into(g, lo, {e})) <= Val(m, e)
             /\ Val(m, e) <= Total(w, Into(g, hi, {e}))
  <2>1. PICK x \in X : e = FlowRow(x)
    OBVIOUS
  <2>2. Total(w, {x}) = w[x] /\ Countable(w, {x})
    BY <1>2, TotalOne
  <2>3. Total(w, Into(g, lo, {e})) <= Total(w, {x})
    BY <1>2, <2>1, <2>2, TotalMore
  <2>4. Total(w, Into(g, hi, {e})) = w[x]
    BY <1>2, <2>1, <2>2
  <2> QED BY <1>2, <2>1, <2>2, <2>3, <2>4
<1>4. \A r \in lo : g[r] \in E
  OBVIOUS
<1>5. lo \subseteq StoredFlows /\ hi \subseteq StoredFlows
  BY <1>0
<1> QED BY <1>1, <1>3, <1>4, <1>5 DEF Reads

LEMMA HourRowIs ==
  ASSUME NEW k
  PROVE  /\ HourRow(k).t = k.t /\ HourRow(k).exporter = k.exporter /\ HourRow(k).in_if = k.in_if
         /\ HourRow(k).src_port = k.src_port /\ HourRow(k).dst_port = k.dst_port
         /\ HourRow(k).bytes = hourly[k].bytes /\ HourRow(k).flows = hourly[k].flows
BY DEF HourRow

\* The row of an hour tells its key.
LEMMA HourRowOne ==
  ASSUME NEW r, NEW at, NEW x, NEW since, HourRow(RollupKey(r, at)) = HourRow(RollupKey(x, since))
  PROVE  RollupKey(r, at) = RollupKey(x, since)
<1> PICK k : k = RollupKey(r, at)
  OBVIOUS
<1> PICK j : j = RollupKey(x, since)
  OBVIOUS
<1>1. k.t = j.t /\ k.exporter = j.exporter /\ k.in_if = j.in_if /\ k.src_port = j.src_port /\ k.dst_port = j.dst_port
  BY HourRowIs
<1> QED BY <1>1 DEF RollupKey

\* The rows of some hours read what landed in them and is not of age.
LEMMA HourReads ==
  ASSUME TablesFit, NEW K, K \subseteq DOMAIN hourly, NEW lo, lo \subseteq DOMAIN landed,
         NEW hi, hi \subseteq DOMAIN landed, \A k \in K : Fiber(k) \subseteq hi,
         \A r \in lo : RollupKey(r, landed[r]) \in K /\ ~Old(RollupKey(r, landed[r]), flowNow),
         NEW g, DOMAIN g = DOMAIN landed,
         \A r \in DOMAIN landed : g[r] = HourRow(RollupKey(r, landed[r])), NEW m
  PROVE  Reads({HourRow(k) : k \in K}, lo, hi, g, m)
<1> PICK E : E = {HourRow(k) : k \in K}
  OBVIOUS
<1> PICK w : w = Worths(m)
  OBVIOUS
<1>0. DOMAIN landed \subseteq StoredFlows /\ \A k \in K : \E x \in DOMAIN landed : k = RollupKey(x, landed[x])
  BY DEF TablesFit
<1>1. IsFiniteSet(E)
  <2>1. IsFiniteSet(DOMAIN landed)
    BY <1>0, QueriesAssumption, FS_Subset
  <2>2. IsFiniteSet({g[r] : r \in DOMAIN landed})
    BY <2>1, ImageFinite
  <2>3. E \subseteq {g[r] : r \in DOMAIN landed}
    <3> SUFFICES ASSUME NEW k \in K PROVE \E r \in DOMAIN landed : HourRow(k) = g[r]
      OBVIOUS
    <3> QED BY <1>0
  <2> QED BY <2>2, <2>3, FS_Subset
<1>2. ASSUME NEW k \in K
      PROVE  /\ Val(m, HourRow(k)) = Val(m, hourly[k])
             /\ Into(g, hi, {HourRow(k)}) = Fiber(k) /\ Into(g, lo, {HourRow(k)}) \subseteq Fiber(k)
             /\ Into(g, lo, {HourRow(k)}) # {} => ~Old(k, flowNow)
  <2>1. Val(m, HourRow(k)) = Val(m, hourly[k])
    BY HourRowIs DEF Val
  <2>2. PICK x \in DOMAIN landed : k = RollupKey(x, landed[x])
    BY <1>0
  <2>3. ASSUME NEW r \in DOMAIN landed PROVE g[r] = HourRow(k) <=> r \in Fiber(k)
    <3>1. ASSUME g[r] = HourRow(k) PROVE RollupKey(r, landed[r]) = k
      BY <2>2, <3>1, HourRowOne
    <3> QED BY <3>1 DEF Fiber
  <2>4. Fiber(k) \subseteq hi /\ Fiber(k) \subseteq DOMAIN landed
    BY DEF Fiber
  <2>5. Into(g, hi, {HourRow(k)}) = Fiber(k)
    BY <2>3, <2>4 DEF Into
  <2>6. Into(g, lo, {HourRow(k)}) \subseteq Fiber(k)
    BY <2>3 DEF Into
  <2>7. ASSUME NEW r \in Into(g, lo, {HourRow(k)}) PROVE ~Old(k, flowNow)
    <3>1. r \in lo /\ r \in Fiber(k)
      BY <2>6 DEF Into
    <3>2. RollupKey(r, landed[r]) = k
      BY <3>1 DEF Fiber
    <3> QED BY <3>1, <3>2
  <2> QED BY <2>1, <2>5, <2>6, <2>7
<1>3. ASSUME NEW e \in E
      PROVE  /\ Val(m, e) \in Nat /\ Total(w, Into(g, lo, {e})) <= Val(m, e)
             /\ Val(m, e) <= Total(w, Into(g, hi, {e}))
  <2>1. PICK k \in K : e = HourRow(k)
    OBVIOUS
  <2>2. HourFits(k, m)
    BY DEF TablesFit
  <2>3. /\ Val(m, e) \in Nat /\ Val(m, e) <= Total(w, Fiber(k))
        /\ ~Old(k, flowNow) => Val(m, e) = Total(w, Fiber(k))
    BY <1>2, <2>1, <2>2 DEF HourFits
  <2>4. Countable(w, Fiber(k)) /\ Total(w, Fiber(k)) \in Nat
    BY FiberIs
  <2>5. Total(w, Into(g, lo, {e})) <= Total(w, Fiber(k))
    BY <1>2, <2>1, <2>4, TotalMore
  <2>6. CASE Into(g, lo, {e}) = {}
    <3>1. Total(w, {}) = 0
      BY TotalNone
    <3>2. Total(w, Into(g, lo, {e})) = 0
      BY <2>6, <3>1
    <3>3. Total(w, Into(g, hi, {e})) = Total(w, Fiber(k))
      BY <1>2, <2>1
    <3> QED BY <2>3, <3>2, <3>3
  <2>7. CASE Into(g, lo, {e}) # {}
    BY <1>2, <2>1, <2>3, <2>5, <2>7
  <2> QED BY <2>6, <2>7
<1>4. \A r \in lo : g[r] \in E
  OBVIOUS
<1>5. lo \subseteq StoredFlows /\ hi \subseteq StoredFlows
  BY <1>0
<1> QED BY <1>1, <1>3, <1>4, <1>5 DEF Reads

Cols == {"exporter", "in_if", "src_port", "dst_port", "tcp_flags"}
HourCols == {"exporter", "in_if", "src_port", "dst_port"}

\* The columns of a field, and whether the rollup has them.
LEMMA FieldIs ==
  ASSUME NEW f \in DOMAIN Fields
  PROVE  /\ Fields[f].cols \subseteq Cols
         /\ Fields[f].rollup => Fields[f].cols \subseteq HourCols
         /\ Fields[f].group => f \in Cols
         /\ Fields[f].group /\ Fields[f].rollup => f \in HourCols
<1>1. DOMAIN Fields = {"exporter", "in_if", "src_port", "tcp_flags", "port"}
  BY DEF Fields
<1>2. CASE f = "exporter"
  <2>1. Fields[f] = Column({"exporter"}, TRUE, TRUE)
    BY <1>2 DEF Fields
  <2> QED BY <1>2, <2>1 DEF Column, Cols, HourCols
<1>3. CASE f = "in_if"
  <2>1. Fields[f] = Column({"in_if"}, TRUE, TRUE)
    BY <1>3 DEF Fields
  <2> QED BY <1>3, <2>1 DEF Column, Cols, HourCols
<1>4. CASE f = "src_port"
  <2>1. Fields[f] = Column({"src_port"}, TRUE, TRUE)
    BY <1>4 DEF Fields
  <2> QED BY <1>4, <2>1 DEF Column, Cols, HourCols
<1>5. CASE f = "tcp_flags"
  <2>1. Fields[f] = Column({"tcp_flags"}, FALSE, TRUE)
    BY <1>5 DEF Fields
  <2> QED BY <1>5, <2>1 DEF Column, Cols, HourCols
<1>6. CASE f = "port"
  <2>1. Fields[f] = Column({"src_port", "dst_port"}, TRUE, FALSE)
    BY <1>6 DEF Fields
  <2> QED BY <1>6, <2>1 DEF Column, Cols, HourCols
<1> QED BY <1>1, <1>2, <1>3, <1>4, <1>5, <1>6

\* A filter sees the columns of its field.
LEMMA SameFilter ==
  ASSUME NEW e, NEW x, NEW c, \A col \in Fields[c.field].cols \cup {"exporter", "in_if"} : e[col] = x[col]
  PROVE  filter(e, c) <=> filter(x, c)
<1>1. e.in_if = x.in_if /\ e.exporter = x.exporter
  OBVIOUS
<1>2. ASSUME NEW v, NEW col \in Fields[c.field].cols
      PROVE  cond(e, c.field, col, v) <=> cond(x, c.field, col, v)
  <2>1. e[col] = x[col]
    OBVIOUS
  <2> QED BY <1>1, <2>1 DEF cond
<1>3. (\E v \in c.values, col \in Fields[c.field].cols : cond(e, c.field, col, v))
      <=> \E v \in c.values, col \in Fields[c.field].cols : cond(x, c.field, col, v)
  BY <1>2
<1> QED BY <1>3 DEF filter

LEMMA RawShown ==
  ASSUME NEW r \in StoredFlows
  PROVE  \A col \in Cols : FlowRow(r)[col] = r[col]
BY FlowRowIs DEF Cols

LEMMA HourShown ==
  ASSUME NEW r \in StoredFlows, NEW at, ask.table = "rollup"
  PROVE  /\ \A col \in HourCols : HourRow(RollupKey(r, at))[col] = Shown(r)[col]
         /\ Shown(r).exporter = r.exporter /\ Shown(r).in_if = r.in_if
<1>1. r = [id |-> r.id, exporter |-> r.exporter, in_if |-> r.in_if, src_port |-> r.src_port,
           dst_port |-> r.dst_port, tcp_flags |-> r.tcp_flags, bytes |-> r.bytes]
  BY QueriesAssumption
<1>2. Shown(r) = [r EXCEPT !.src_port = Folded(@), !.dst_port = Folded(@)]
  BY DEF Shown
<1>3. /\ Shown(r).exporter = r.exporter /\ Shown(r).in_if = r.in_if
      /\ Shown(r).src_port = Folded(r.src_port) /\ Shown(r).dst_port = Folded(r.dst_port)
  BY <1>1, <1>2
<1> PICK k : k = RollupKey(r, at)
  OBVIOUS
<1>4. /\ k.exporter = r.exporter /\ k.in_if = r.in_if
      /\ k.src_port = Folded(r.src_port) /\ k.dst_port = Folded(r.dst_port)
  BY DEF RollupKey
<1>5. \A col \in HourCols : HourRow(k)[col] = Shown(r)[col]
  BY <1>3, <1>4, HourRowIs DEF HourCols
<1> QED BY <1>3, <1>5

-----------------------------------------------------------------------------
(* A question being answered.                                              *)

Unread == {"none", "refused", "failed"}
Reading == ask.stage \notin Unread /\ ask.stage # "book"

ScopeFits ==
  \A r \in StoredFlows :
    InScope(r) <=> r.exporter \in ask.scope /\ (question.kind \in Explorer \/ question.ifIndex \in {0, r.in_if})

\* The question as it was asked, but for its window.
SameQuestion ==
  /\ ask.q.kind = question.kind /\ ask.q.filters = question.filters /\ ask.q.metric = question.metric
  /\ ask.q.limit = question.limit /\ ask.q.devices = question.devices /\ ask.q.sites = question.sites
  /\ ask.q.exporters = question.exporters /\ ask.q.ifIndex = question.ifIndex /\ ask.q.step = question.step

WindowFits ==
  /\ ask.from \in Int /\ ask.to \in Int /\ ask.asked \in Nat /\ ask.asked <= flowNow
  /\ DOMAIN ask.had \subseteq DOMAIN landed
  /\ ask.q.to = ask.to /\ ask.q.from \in Int

\* Each filter is on a field the table has; the raw table is read from where it
\* starts.
Raws == ask.asked - RawKeep
SelectFits ==
  /\ ScopeFits
  /\ ask.table \in {"raw", "rollup"}
  /\ question.kind # "explore" => ask.table = "raw"
  /\ question.kind # "records" => ask.q.from = ask.from
  /\ question.kind = "explore" =>
       /\ ask.q.groupBy = question.groupBy
       /\ ask.table = "raw" => Raws <= ask.from
       /\ \A f \in question.groupBy : f \in DOMAIN Fields /\ Fields[f].group
  /\ question.kind = "records" => \A t \in Int : ask.q.from <= t <=> ask.from <= t /\ Raws <= t
  /\ \A c \in question.filters : c.field \in DOMAIN Fields
  /\ ask.table = "rollup" =>
       \A f \in question.groupBy \cup {c.field : c \in question.filters} : f \in DOMAIN Fields => Fields[f].rollup

\* Where a flow is read.
Row(r) == IF ask.table = "rollup" THEN HourRow(RollupKey(r, landed[r])) ELSE FlowRow(r)
CountedIn == [r \in DOMAIN landed |-> Row(r)]

\* A flow, in the row it is counted in, is filtered and grouped as it is shown.
LEMMA RowIs ==
  ASSUME TablesFit, SameQuestion, SelectFits, NEW r \in DOMAIN landed
  PROVE  /\ Row(r).exporter = r.exporter
         /\ \A c \in question.filters : filter(Row(r), c) <=> filter(Shown(r), c)
         /\ question.kind = "explore" => KeyOf(ask.q, Row(r)) = AnswerKey(r)
         /\ Row(r).t = IF ask.table = "rollup" THEN StartOfHour(landed[r]) ELSE landed[r]
<1>0. r \in StoredFlows
  BY DEF TablesFit
<1>a. question.kind = "explore" => AnswerKey(r) = [f \in question.groupBy |-> IF f = "in_if" THEN <<r.exporter, r.in_if>> ELSE Shown(r)[f]]
  BY DEF AnswerKey
<1>b. KeyOf(ask.q, Row(r)) = [f \in ask.q.groupBy |-> IF f = "in_if" THEN <<Row(r).exporter, Row(r).in_if>> ELSE Row(r)[f]]
  BY DEF KeyOf, groupExpr
<1>1. CASE ask.table = "rollup"
  <2>1. Row(r) = HourRow(RollupKey(r, landed[r]))
    BY <1>1 DEF Row
  <2>2. \A col \in HourCols : Row(r)[col] = Shown(r)[col]
    BY <1>0, <1>1, <2>1, HourShown
  <2>3. Row(r).exporter = r.exporter /\ Row(r).in_if = r.in_if
    <3>1. Shown(r).exporter = r.exporter /\ Shown(r).in_if = r.in_if
      BY <1>0, <1>1, HourShown
    <3>2. "exporter" \in HourCols /\ "in_if" \in HourCols
      BY DEF HourCols
    <3> QED BY <2>2, <3>1, <3>2
  <2>4. ASSUME NEW c \in question.filters PROVE filter(Row(r), c) <=> filter(Shown(r), c)
    <3>1. c.field \in DOMAIN Fields /\ Fields[c.field].rollup
      BY <1>1 DEF SelectFits
    <3>2. Fields[c.field].cols \subseteq HourCols
      BY <3>1, FieldIs
    <3>3. \A col \in Fields[c.field].cols \cup {"exporter", "in_if"} : Row(r)[col] = Shown(r)[col]
      BY <2>2, <3>2 DEF HourCols
    <3> QED BY <3>3, SameFilter
  <2>5. ASSUME question.kind = "explore" PROVE KeyOf(ask.q, Row(r)) = AnswerKey(r)
    <3>1. ask.q.groupBy = question.groupBy
      BY <2>5 DEF SelectFits
    <3>2. \A f \in question.groupBy : f \in HourCols
      <4> SUFFICES ASSUME NEW f \in question.groupBy PROVE f \in HourCols
        OBVIOUS
      <4>1. f \in DOMAIN Fields /\ Fields[f].group /\ Fields[f].rollup
        BY <1>1, <2>5 DEF SelectFits
      <4> QED BY <4>1, FieldIs
    <3>3. \A f \in question.groupBy : Row(r)[f] = Shown(r)[f]
      BY <2>2, <3>2
    <3> QED BY <1>a, <1>b, <2>3, <2>5, <3>1, <3>3
  <2>6. Row(r).t = StartOfHour(landed[r])
    BY <2>1, HourRowIs DEF RollupKey
  <2> QED BY <1>1, <2>3, <2>4, <2>5, <2>6
<1>2. CASE ask.table = "raw"
  <2>1. Row(r) = FlowRow(r) /\ Shown(r) = r
    BY <1>2 DEF Row, Shown
  <2>2. \A col \in Cols : Row(r)[col] = r[col]
    BY <1>0, <2>1, RawShown
  <2>3. Row(r).exporter = r.exporter /\ Row(r).in_if = r.in_if /\ Row(r).t = landed[r]
    BY <2>1, FlowRowIs
  <2>4. ASSUME NEW c \in question.filters PROVE filter(Row(r), c) <=> filter(Shown(r), c)
    <3>1. Fields[c.field].cols \subseteq Cols
      BY FieldIs DEF SelectFits
    <3>2. \A col \in Fields[c.field].cols \cup {"exporter", "in_if"} : Row(r)[col] = Shown(r)[col]
      BY <2>1, <2>2, <3>1 DEF Cols
    <3> QED BY <3>2, SameFilter
  <2>5. ASSUME question.kind = "explore" PROVE KeyOf(ask.q, Row(r)) = AnswerKey(r)
    <3>1. ask.q.groupBy = question.groupBy
      BY <2>5 DEF SelectFits
    <3>2. \A f \in question.groupBy : f \in Cols
      <4> SUFFICES ASSUME NEW f \in question.groupBy PROVE f \in Cols
        OBVIOUS
      <4>1. f \in DOMAIN Fields /\ Fields[f].group
        BY <2>5 DEF SelectFits
      <4> QED BY <4>1, FieldIs
    <3>3. \A f \in question.groupBy : Row(r)[f] = Shown(r)[f]
      BY <2>1, <2>2, <3>2
    <3> QED BY <1>a, <1>b, <2>3, <2>5, <3>1, <3>3
  <2> QED BY <1>2, <2>3, <2>4, <2>5
<1> QED BY <1>1, <1>2 DEF SelectFits

\* The explorer reads every flow it must and only flows it may.
LEMMA RawTable ==
  ASSUME TablesFit, SameQuestion, WindowFits, SelectFits, question.kind \in Explorer, ask.table = "raw", NEW m
  PROVE  Reads(Selected, Must, May, CountedIn, m)
<1> DEFINE X == {r \in raw : /\ InWindow(ask.q, ask.table, landed[r]) /\ r.exporter \in ask.scope
                            /\ \A c \in question.filters : filter(FlowRow(r), c)}
<1>0. /\ raw \subseteq DOMAIN landed /\ DOMAIN landed \subseteq StoredFlows /\ flowNow \in Nat
      /\ (\A r \in DOMAIN landed : landed[r] \in Nat)
      /\ RawKeep \in Nat
  BY QueriesAssumption DEF TablesFit
<1>1. Selected = {FlowRow(r) : r \in X}
  <2>1. Stored = {FlowRow(r) : r \in raw}
    BY DEF Stored
  <2>2. ask.q.filters = question.filters
    BY DEF SameQuestion
  <2>3. \A r : FlowRow(r).t = landed[r] /\ FlowRow(r).exporter = r.exporter
    BY FlowRowIs
  <2> QED BY <2>1, <2>2, <2>3 DEF Selected
<1>2. \A r \in DOMAIN landed : Row(r) = FlowRow(r)
  BY DEF Row
<1>3. ASSUME NEW r \in DOMAIN landed
      PROVE  Wanted(r) <=> r.exporter \in ask.scope /\ \A c \in question.filters : filter(FlowRow(r), c)
  <2>1. InScope(r) <=> r.exporter \in ask.scope
    BY <1>0 DEF SelectFits, ScopeFits
  <2>2. \A c \in question.filters : filter(FlowRow(r), c) <=> filter(Shown(r), c)
    BY <1>2, RowIs
  <2> QED BY <2>1, <2>2 DEF Wanted
<1>4. ASSUME NEW t PROVE InWindow(ask.q, ask.table, t) <=> ask.q.from <= t /\ t < ask.to
  BY DEF InWindow, WindowFits, Until
<1>5. ASSUME NEW t PROVE (InAsked(t) <=> ask.from <= t /\ t < ask.to) /\ (InHours(t) <=> InAsked(t))
  BY DEF InAsked, InHours, Until
<1>6. X \subseteq May
  <2> SUFFICES ASSUME NEW r \in X PROVE r \in May
    OBVIOUS
  <2>1. r \in DOMAIN landed /\ landed[r] \in Int
    BY <1>0
  <2>2. ask.q.from <= landed[r] /\ landed[r] < ask.to
    BY <1>4
  <2>3. ask.from <= landed[r]
    BY <2>1, <2>2 DEF SelectFits, Explorer
  <2>4. Wanted(r)
    BY <1>3, <2>1
  <2>5. InHours(landed[r])
    BY <1>5, <2>2, <2>3
  <2> QED BY <2>1, <2>4, <2>5 DEF May
<1>7. Must \subseteq X
  <2> SUFFICES ASSUME NEW r \in Must PROVE r \in X
    OBVIOUS
  <2>1. r \in DOMAIN landed /\ Wanted(r) /\ InAsked(landed[r]) /\ ~OfAge(r)
    BY DEF Must, WindowFits
  <2>2. landed[r] \in Nat /\ ask.from <= landed[r] /\ landed[r] < ask.to
    BY <1>0, <1>5, <2>1
  <2>3. ask.asked \in Nat /\ ask.asked <= flowNow /\ ask.from \in Int
    BY DEF WindowFits
  <2>4. CASE question.kind = "explore"
    <3>1. Raws <= ask.from /\ ask.q.from = ask.from
      BY <2>4 DEF SelectFits
    <3>2. ~(ask.asked <= landed[r] + RawKeep /\ landed[r] + RawKeep <= flowNow)
      BY <2>1, <2>4 DEF OfAge
    <3>3. ask.asked <= landed[r] + RawKeep
      BY <1>0, <2>2, <2>3, <3>1 DEF Raws
    <3>4. r \in raw
      BY <2>1, <3>2, <3>3 DEF TablesFit
    <3> QED BY <1>3, <1>4, <2>1, <2>2, <3>1, <3>4
  <2>5. CASE question.kind = "records"
    <3>1. ~(landed[r] + RawKeep <= flowNow)
      BY <2>1, <2>5 DEF OfAge
    <3>2. r \in raw
      BY <2>1, <3>1 DEF TablesFit
    <3>3. Raws <= landed[r]
      BY <1>0, <2>2, <2>3, <3>1 DEF Raws
    <3>4. ask.q.from <= landed[r]
      BY <2>2, <2>5, <3>3 DEF SelectFits
    <3> QED BY <1>3, <1>4, <2>1, <2>2, <3>2, <3>4
  <2> QED BY <2>4, <2>5 DEF Explorer
<1>8. May \subseteq DOMAIN landed
  BY DEF May
<1>9. DOMAIN CountedIn = DOMAIN landed /\ \A r \in DOMAIN landed : CountedIn[r] = FlowRow(r)
  BY <1>2 DEF CountedIn
<1>10. X \subseteq DOMAIN landed
  BY <1>0
<1> HIDE DEF X
<1> QED BY <1>1, <1>6, <1>7, <1>8, <1>9, <1>10, FlowReads

LEMMA HourTable ==
  ASSUME TablesFit, SameQuestion, WindowFits, SelectFits, question.kind = "explore", ask.table = "rollup", NEW m
  PROVE  Reads(Selected, Must, May, CountedIn, m)
<1> DEFINE Picks(k) == /\ InWindow(ask.q, ask.table, k.t) /\ k.exporter \in ask.scope
                       /\ \A c \in question.filters : filter(HourRow(k), c)
<1> PICK until : until = Until(ask.table, ask.to)
  OBVIOUS
<1> DEFINE K == {k \in DOMAIN hourly : Picks(k)}
<1>0. /\ DOMAIN landed \subseteq StoredFlows /\ flowNow \in Nat /\ (\A r \in DOMAIN landed : landed[r] \in Nat)
      /\ ask.q.from = ask.from /\ ask.q.to = ask.to /\ ask.from \in Int /\ ask.to \in Int
  BY DEF TablesFit, WindowFits, SelectFits
<1>00. until \in Int
  <2> PICK h \in Nat \ {0} : h = SecondLen
    BY QueriesAssumption
  <2> PICK q \in Int : q = ask.to \div h
    BY <1>0, DivIs
  <2>1. q * h \in Int /\ until = q * h
    BY DEF Until
  <2> QED BY <2>1
<1>1. Selected = {HourRow(k) : k \in K}
  <2>1. Stored = {HourRow(k) : k \in DOMAIN hourly}
    BY DEF Stored
  <2>2. ask.q.filters = question.filters
    BY DEF SameQuestion
  <2>3. \A k : HourRow(k).t = k.t /\ HourRow(k).exporter = k.exporter
    BY HourRowIs
  <2> QED BY <2>1, <2>2, <2>3 DEF Selected
<1>2. \A r \in DOMAIN landed : Row(r) = HourRow(RollupKey(r, landed[r]))
  BY DEF Row
<1>3. ASSUME NEW r \in DOMAIN landed
      PROVE  Wanted(r) <=> r.exporter \in ask.scope /\ \A c \in question.filters : filter(Row(r), c)
  <2>1. InScope(r) <=> r.exporter \in ask.scope
    BY <1>0 DEF SelectFits, ScopeFits, Explorer
  <2>2. \A c \in question.filters : filter(Row(r), c) <=> filter(Shown(r), c)
    BY RowIs
  <2> QED BY <2>1, <2>2 DEF Wanted
<1>4. ASSUME NEW r \in DOMAIN landed
      PROVE  /\ RollupKey(r, landed[r]).t = StartOfHour(landed[r]) /\ RollupKey(r, landed[r]).exporter = r.exporter
             /\ Picks(RollupKey(r, landed[r])) <=>
                  /\ StartOfHour(ask.from) <= StartOfHour(landed[r]) /\ StartOfHour(landed[r]) < until /\ Wanted(r)
  <2> PICK k : k = RollupKey(r, landed[r])
    OBVIOUS
  <2>1. k.t = StartOfHour(landed[r]) /\ k.exporter = r.exporter
    BY DEF RollupKey
  <2>2. InWindow(ask.q, ask.table, k.t) <=> StartOfHour(ask.from) <= k.t /\ k.t < until
    BY <1>0 DEF InWindow
  <2>3. Row(r) = HourRow(k)
    BY <1>2
  <2> QED BY <1>3, <2>1, <2>2, <2>3
<1>5. ASSUME NEW r \in DOMAIN landed
      PROVE  /\ StartOfHour(landed[r]) \in Int /\ StartOfHour(landed[r]) <= landed[r]
             /\ StartOfHour(ask.from) \in Int
             /\ ask.from <= landed[r] => StartOfHour(ask.from) <= StartOfHour(landed[r])
  <2>1. landed[r] \in Int /\ landed[r] \in Nat
    BY <1>0
  <2> QED BY <1>0, <2>1, HourIs, HourLater
<1> HIDE DEF Picks
<1>6. ASSUME NEW k \in K PROVE Fiber(k) \subseteq May
  <2> SUFFICES ASSUME NEW r \in Fiber(k) PROVE r \in May
    OBVIOUS
  <2>1. r \in DOMAIN landed /\ RollupKey(r, landed[r]) = k /\ Picks(k)
    BY DEF Fiber
  <2>2. StartOfHour(ask.from) <= StartOfHour(landed[r]) /\ StartOfHour(landed[r]) < until /\ Wanted(r)
    BY <1>4, <2>1
  <2>3. StartOfHour(ask.from) <= landed[r]
    BY <1>0, <1>5, <2>1, <2>2
  <2>4. InHours(landed[r])
    BY <2>2, <2>3 DEF InHours
  <2> QED BY <2>1, <2>2, <2>4 DEF May
<1>7. ASSUME NEW r \in Must
      PROVE  /\ r \in DOMAIN landed /\ RollupKey(r, landed[r]) \in K /\ ~Old(RollupKey(r, landed[r]), flowNow)
  <2>1. r \in DOMAIN landed /\ Wanted(r) /\ InAsked(landed[r]) /\ ~OfAge(r)
    BY DEF Must, WindowFits
  <2>2. ask.from <= landed[r] /\ landed[r] < until
    BY <2>1 DEF InAsked, Explorer
  <2>3. StartOfHour(ask.from) <= StartOfHour(landed[r]) /\ StartOfHour(landed[r]) < until
    BY <1>0, <1>00, <1>5, <2>1, <2>2
  <2>4. Picks(RollupKey(r, landed[r]))
    BY <1>4, <2>1, <2>3
  <2>5. ~Old(RollupKey(r, landed[r]), flowNow)
    <3>1. ~(StartOfHour(landed[r]) + RollupKeep <= flowNow)
      BY <2>1 DEF OfAge
    <3> QED BY <1>4, <2>1, <3>1 DEF Old
  <2>6. RollupKey(r, landed[r]) \in DOMAIN hourly
    BY <2>1, <2>5 DEF TablesFit
  <2> QED BY <2>1, <2>4, <2>5, <2>6
<1>8. May \subseteq DOMAIN landed /\ Must \subseteq DOMAIN landed
  BY <1>7 DEF May
<1>9. DOMAIN CountedIn = DOMAIN landed /\ \A r \in DOMAIN landed : CountedIn[r] = HourRow(RollupKey(r, landed[r]))
  BY <1>2 DEF CountedIn
<1>10. K \subseteq DOMAIN hourly
  OBVIOUS
<1> HIDE DEF K
<1> QED BY <1>1, <1>6, <1>7, <1>8, <1>9, <1>10, HourReads

LEMMA ExplorerReads ==
  ASSUME TablesFit, SameQuestion, WindowFits, SelectFits, question.kind \in Explorer, NEW m
  PROVE  Reads(Selected, Must, May, CountedIn, m)
<1>1. CASE ask.table = "raw"
  BY <1>1, RawTable
<1>2. CASE ask.table = "rollup"
  <2>1. question.kind = "explore"
    BY <1>2 DEF SelectFits
  <2> QED BY <1>2, <2>1, HourTable
<1> QED BY <1>1, <1>2 DEF SelectFits

\* The other endpoints read the samples of the window.
LEMMA SampleReads ==
  ASSUME TablesFit, SameQuestion, WindowFits, SelectFits, question.kind \notin Explorer, question.filters = {}, NEW m
  PROVE  Reads(Windowed, Must, May, CountedIn, m)
<1> DEFINE X == {x \in DOMAIN landed :
                   /\ ask.q.to - window(ask.q) < landed[x] /\ landed[x] <= ask.q.to /\ x.exporter \in ask.scope
                   /\ ask.q.ifIndex \in {0, x.in_if}}
<1>1. Windowed = {FlowRow(r) : r \in X}
  BY Zenon DEF Windowed, Samples
<1>2. \A r \in DOMAIN landed : Row(r) = FlowRow(r)
  BY DEF Row, SelectFits, Explorer
<1>3. ASSUME NEW r \in DOMAIN landed PROVE r \in X <=> Wanted(r) /\ InAsked(landed[r])
  <2>1. Wanted(r) <=> InScope(r)
    BY DEF Wanted
  <2>2. InScope(r) <=> r.exporter \in ask.scope /\ question.ifIndex \in {0, r.in_if}
    BY DEF TablesFit, SelectFits, ScopeFits
  <2>3. window(ask.q) = Max({ask.to - ask.from, SampleInterval}) /\ ask.q.to = ask.to
    BY DEF window, WindowFits, SelectFits, Explorer
  <2>4. InAsked(landed[r]) <=> ask.q.to - window(ask.q) < landed[r] /\ landed[r] <= ask.q.to
    BY <2>3 DEF InAsked
  <2>5. ask.q.ifIndex = question.ifIndex
    BY DEF SameQuestion
  <2> QED BY <2>1, <2>2, <2>4, <2>5
<1>4. \A t : InHours(t) <=> InAsked(t)
  BY DEF InHours, SelectFits, Explorer
<1>5. X \subseteq DOMAIN landed
  OBVIOUS
<1> HIDE DEF X
<1>6. X \subseteq May /\ May \subseteq DOMAIN landed
  BY <1>3, <1>4, <1>5 DEF May
<1>7. Must \subseteq X
  BY <1>3 DEF Must, WindowFits
<1>8. DOMAIN CountedIn = DOMAIN landed /\ \A r \in DOMAIN landed : CountedIn[r] = FlowRow(r)
  BY <1>2 DEF CountedIn
<1> QED BY <1>1, <1>5, <1>6, <1>7, <1>8, FlowReads

-----------------------------------------------------------------------------
(* What an answer must and may count, as time passes.                      *)

MetricOf(q) == IF q.kind = "explore" THEN q.metric ELSE "bytes"
AmountOf(q, S) ==
  SumOf([r \in S |-> IF q.kind = "explore" /\ q.metric = "flows" THEN 1 ELSE r.bytes])

LEMMA AmountOfIs ==
  ASSUME NEW q, NEW S, S \subseteq StoredFlows
  PROVE  AmountOf(q, S) = Total(Worths(MetricOf(q)), S) /\ AmountOf(q, S) \in Nat
<1> PICK w : w = [r \in S |-> IF q.kind = "explore" /\ q.metric = "flows" THEN 1 ELSE r.bytes]
  OBVIOUS
<1>1. DOMAIN w = S /\ \A r \in S : w[r] = Worths(MetricOf(q))[r]
  BY DEF Worths, MetricOf
<1>2. Countable(Worths(MetricOf(q)), S)
  BY WorthsAre
<1>3. Countable(w, S)
  BY <1>1, <1>2 DEF Countable
<1>4. AmountOf(q, S) = SumOf(w)
  BY DEF AmountOf
<1>5. SumOf(w) = Total(w, S) /\ SumOf(w) \in Nat
  BY <1>1, <1>3, SumIsTotal
<1>6. Total(w, S) = Total(Worths(MetricOf(q)), S)
  BY <1>1, TotalSame
<1> QED BY <1>4, <1>5, <1>6

LEMMA AmountMore ==
  ASSUME NEW q, NEW S, NEW T, S \subseteq T, T \subseteq StoredFlows
  PROVE  AmountOf(q, S) <= AmountOf(q, T) /\ AmountOf(q, S) \in Nat /\ AmountOf(q, T) \in Nat
<1>1. S \subseteq StoredFlows
  OBVIOUS
<1>2. Countable(Worths(MetricOf(q)), T)
  BY WorthsAre
<1>3. Total(Worths(MetricOf(q)), S) <= Total(Worths(MetricOf(q)), T)
  BY <1>2, TotalMore
<1> QED BY <1>1, <1>3, AmountOfIs

MustOf(k) == {r \in Must : AnswerKey(r) = k}
MayOf(k) == {r \in May : AnswerKey(r) = k}

LEMMA BoundsAre ==
  ASSUME NEW k
  PROVE  /\ Least(k) = AmountOf(question, MustOf(k)) /\ Most(k) = AmountOf(question, MayOf(k))
         /\ Amount(Must) = AmountOf(question, Must) /\ Amount(May) = AmountOf(question, May)
BY Zenon DEF Least, Most, Amount, AmountOf, MustOf, MayOf

LEMMA BoundsWill ==
  ASSUME NEW k
  PROVE  /\ Least(k)' = AmountOf(question', MustOf(k)') /\ Most(k)' = AmountOf(question', MayOf(k)')
         /\ Amount(Must)' = AmountOf(question', Must') /\ Amount(May)' = AmountOf(question', May')
BY Zenon DEF Least, Most, Amount, AmountOf, MustOf, MayOf

\* A step that neither changes what was asked nor unsays what landed.
GoesOn ==
  /\ question' = question
  /\ ask'.from = ask.from /\ ask'.to = ask.to /\ ask'.asked = ask.asked /\ ask'.had = ask.had
  /\ ask'.table = ask.table /\ ask'.bookRead = ask.bookRead
  /\ DOMAIN landed \subseteq DOMAIN landed' /\ \A x \in DOMAIN landed : landed'[x] = landed[x]
  /\ flowNow <= flowNow'

Narrows ==
  /\ Must' \subseteq Must /\ May \subseteq May'
  /\ \A r \in StoredFlows : AnswerKey(r)' = AnswerKey(r)
  /\ Amount(Must)' <= Amount(Must) /\ Amount(May) <= Amount(May)'
  /\ Amount(Must) \in Nat /\ Amount(Must)' \in Nat /\ Amount(May) \in Nat /\ Amount(May)' \in Nat
  /\ \A k : /\ Least(k)' <= Least(k) /\ Most(k) <= Most(k)'
            /\ Least(k) \in Nat /\ Least(k)' \in Nat /\ Most(k) \in Nat /\ Most(k)' \in Nat

LEMMA OldStays ==
  ASSUME NEW t \in Nat, NEW clock \in Nat, NEW later \in Nat, clock <= later
  PROVE  /\ StartOfHour(t) + RollupKeep <= clock => StartOfHour(t) + RollupKeep <= later
         /\ t + RawKeep <= clock => t + RawKeep <= later
<1>1. StartOfHour(t) \in Int /\ RollupKeep \in Nat /\ RawKeep \in Nat
  BY HourIs, QueriesAssumption
<1> QED BY <1>1

\* As time passes, less must be counted and more may be.
LEMMA Onward ==
  ASSUME TablesFit, TablesFit', DOMAIN ask.had \subseteq DOMAIN landed, GoesOn
  PROVE  Narrows
<1>0. /\ question' = question /\ ask'.from = ask.from /\ ask'.to = ask.to /\ ask'.asked = ask.asked
      /\ ask'.had = ask.had /\ ask'.table = ask.table /\ ask'.bookRead = ask.bookRead
      /\ DOMAIN landed \subseteq DOMAIN landed' /\ (\A x \in DOMAIN landed : landed'[x] = landed[x])
      /\ flowNow <= flowNow' /\ flowNow \in Nat /\ flowNow' \in Nat /\ \A x \in DOMAIN landed : landed[x] \in Nat
  BY DEF GoesOn, TablesFit
<1>1. \A r : Shown(r)' = Shown(r)
  BY <1>0, Zenon DEF Shown
<1>2. \A r : InScope(r)' <=> InScope(r)
  <2>1. \A a : Owners(a)' = Owners(a)
    BY <1>0, Zenon DEF Owners
  <2> QED BY <1>0, <2>1, Zenon DEF InScope
<1>3. \A r : Wanted(r)' <=> Wanted(r)
  BY <1>0, <1>1, <1>2, Zenon DEF Wanted
<1>4. \A r \in StoredFlows : AnswerKey(r)' = AnswerKey(r)
  BY <1>0, <1>1, Zenon DEF AnswerKey
<1>5. \A t : (InAsked(t)' <=> InAsked(t)) /\ (InHours(t)' <=> InHours(t))
  <2>1. \A t : InAsked(t)' <=> InAsked(t)
    BY <1>0, Zenon DEF InAsked
  <2> QED BY <1>0, <2>1, Zenon DEF InHours
<1>6. ASSUME NEW r \in DOMAIN landed, OfAge(r) PROVE OfAge(r)'
  <2>1. landed'[r] = landed[r] /\ landed[r] \in Nat
    BY <1>0
  <2>2. /\ StartOfHour(landed[r]) + RollupKeep <= flowNow => StartOfHour(landed[r]) + RollupKeep <= flowNow'
        /\ landed[r] + RawKeep <= flowNow => landed[r] + RawKeep <= flowNow'
    BY <1>0, <2>1, OldStays
  <2> QED BY <1>0, <1>6, <2>1, <2>2, Zenon DEF OfAge
<1>7. Must' \subseteq Must
  <2> SUFFICES ASSUME NEW r \in Must' PROVE r \in Must
    OBVIOUS
  <2>1. r \in DOMAIN ask.had /\ Wanted(r) /\ InAsked(landed'[r]) /\ ~OfAge(r)'
    BY <1>0, <1>3, <1>5 DEF Must
  <2>2. r \in DOMAIN landed /\ landed'[r] = landed[r]
    BY <1>0, <2>1
  <2>3. ~OfAge(r)
    BY <1>6, <2>1, <2>2
  <2> QED BY <2>1, <2>2, <2>3 DEF Must
<1>8. May \subseteq May'
  <2> SUFFICES ASSUME NEW r \in May PROVE r \in May'
    OBVIOUS
  <2>1. r \in DOMAIN landed /\ Wanted(r) /\ InHours(landed[r])
    BY DEF May
  <2>2. r \in DOMAIN landed' /\ landed'[r] = landed[r]
    BY <1>0, <2>1
  <2>3. Wanted(r)' /\ InHours(landed[r])'
    BY <1>3, <1>5, <2>1, <2>2
  <2> QED BY <2>2, <2>3 DEF May
<1>9. Must \subseteq StoredFlows /\ May' \subseteq StoredFlows
  BY DEF Must, May, TablesFit
<1>10. /\ Amount(Must)' <= Amount(Must) /\ Amount(May) <= Amount(May)'
       /\ Amount(Must) \in Nat /\ Amount(Must)' \in Nat /\ Amount(May) \in Nat /\ Amount(May)' \in Nat
  <2>1. /\ Amount(Must) = AmountOf(question, Must) /\ Amount(May) = AmountOf(question, May)
        /\ Amount(Must)' = AmountOf(question, Must') /\ Amount(May)' = AmountOf(question, May')
    BY <1>0, BoundsAre, BoundsWill
  <2>2. AmountOf(question, Must') <= AmountOf(question, Must) /\ AmountOf(question, May) <= AmountOf(question, May')
    BY <1>7, <1>8, <1>9, AmountMore
  <2>3. /\ AmountOf(question, Must') \in Nat /\ AmountOf(question, Must) \in Nat
        /\ AmountOf(question, May) \in Nat /\ AmountOf(question, May') \in Nat
    BY <1>7, <1>8, <1>9, AmountMore
  <2> QED BY <2>1, <2>2, <2>3
<1>11. ASSUME NEW k
       PROVE  /\ Least(k)' <= Least(k) /\ Most(k) <= Most(k)'
              /\ Least(k) \in Nat /\ Least(k)' \in Nat /\ Most(k) \in Nat /\ Most(k)' \in Nat
  <2>1. /\ Least(k) = AmountOf(question, MustOf(k)) /\ Most(k) = AmountOf(question, MayOf(k))
        /\ Least(k)' = AmountOf(question, MustOf(k)') /\ Most(k)' = AmountOf(question, MayOf(k)')
    BY <1>0, BoundsAre, BoundsWill
  <2>2. MustOf(k)' \subseteq MustOf(k) /\ MayOf(k) \subseteq MayOf(k)'
    BY <1>4, <1>7, <1>8, <1>9 DEF MustOf, MayOf
  <2>3. MustOf(k) \subseteq StoredFlows /\ MayOf(k)' \subseteq StoredFlows
    BY <1>9 DEF MustOf, MayOf
  <2>4. /\ AmountOf(question, MustOf(k)') <= AmountOf(question, MustOf(k))
        /\ AmountOf(question, MayOf(k)) <= AmountOf(question, MayOf(k)')
    BY <2>2, <2>3, AmountMore
  <2>5. /\ AmountOf(question, MustOf(k)') \in Nat /\ AmountOf(question, MustOf(k)) \in Nat
        /\ AmountOf(question, MayOf(k)) \in Nat /\ AmountOf(question, MayOf(k)') \in Nat
    BY <2>2, <2>3, AmountMore
  <2> QED BY <2>1, <2>4, <2>5
<1> QED BY <1>4, <1>7, <1>8, <1>10, <1>11 DEF Narrows

Metric == MetricOf(question)

\* Sums that count for each key what they must and no more than they may, and
\* have the key of each flow that must count.
SumsFit(s) ==
  /\ IsFiniteSet(DOMAIN s)
  /\ \A k \in DOMAIN s : s[k] \in Nat /\ Least(k) <= s[k] /\ s[k] <= Most(k)
  /\ \A r \in Must : AnswerKey(r) \in DOMAIN s

KeysAgree(E, key) ==
  /\ On(key, E)
  /\ \A r \in DOMAIN landed : CountedIn[r] \in E => key[CountedIn[r]] = AnswerKey(r)

\* The sum of all rows.
LEMMA AllRead ==
  ASSUME NEW E, Reads(E, Must, May, CountedIn, Metric)
  PROVE  /\ Amount(Must) <= Figure(Metric, E) /\ Figure(Metric, E) <= Amount(May)
         /\ Figure(Metric, E) \in Nat /\ Amount(Must) \in Nat /\ Amount(May) \in Nat
<1>1. Must \subseteq StoredFlows /\ May \subseteq StoredFlows
  BY DEF Reads
<1>2. Amount(Must) = Total(Worths(Metric), Must) /\ Amount(May) = Total(Worths(Metric), May)
  BY <1>1, BoundsAre, AmountOfIs DEF Metric
<1> QED BY <1>2, Bounded

\* The sum of the rows of one key.
LEMMA KeyRead ==
  ASSUME TablesFit, WindowFits, NEW E, Reads(E, Must, May, CountedIn, Metric), NEW key, KeysAgree(E, key), NEW k
  PROVE  /\ Least(k) <= Figure(Metric, OfKey(E, key, k)) /\ Figure(Metric, OfKey(E, key, k)) <= Most(k)
         /\ Figure(Metric, OfKey(E, key, k)) \in Nat /\ Least(k) \in Nat /\ Most(k) \in Nat
<1>0. Must \subseteq StoredFlows /\ May \subseteq StoredFlows /\ Must \subseteq DOMAIN landed /\ May \subseteq DOMAIN landed
  BY DEF Reads, Must, May, WindowFits
<1> PICK ak : ak = [r \in StoredFlows |-> AnswerKey(r)]
  OBVIOUS
<1>1. Agrees(E, Must, May, CountedIn, key, ak)
  BY <1>0 DEF Agrees, KeysAgree
<1>2. Reads(OfKey(E, key, k), OfKey(Must, ak, k), OfKey(May, ak, k), CountedIn, Metric)
  BY <1>1, ReadsPart
<1>3. OfKey(Must, ak, k) = MustOf(k) /\ OfKey(May, ak, k) = MayOf(k)
  BY <1>0 DEF OfKey, MustOf, MayOf
<1>4. MustOf(k) \subseteq StoredFlows /\ MayOf(k) \subseteq StoredFlows
  BY <1>0 DEF MustOf, MayOf
<1>5. Least(k) = Total(Worths(Metric), MustOf(k)) /\ Most(k) = Total(Worths(Metric), MayOf(k))
  BY <1>4, BoundsAre, AmountOfIs DEF Metric
<1>6. Reads(OfKey(E, key, k), MustOf(k), MayOf(k), CountedIn, Metric)
  BY <1>2, <1>3
<1> QED BY <1>5, <1>6, Bounded

\* The sums by key.
LEMMA SumsRead ==
  ASSUME TablesFit, WindowFits, NEW E, Reads(E, Must, May, CountedIn, Metric), NEW key, KeysAgree(E, key)
  PROVE  SumsFit(SumsBy(key, Metric))
<1> PICK s : s = SumsBy(key, Metric)
  OBVIOUS
<1>0. IsFiniteSet(E) /\ (\A e \in E : Val(Metric, e) \in Nat) /\ On(key, E)
  BY DEF Reads, KeysAgree
<1>1. /\ DOMAIN s = {key[e] : e \in E}
      /\ \A k \in {key[e] : e \in E} : s[k] = Figure(Metric, OfKey(E, key, k))
  <2>1. Summed(SumsBy(key, Metric), E, key, Metric)
    BY <1>0, SumsAre
  <2> QED BY <2>1 DEF Summed, Keys
<1>2. IsFiniteSet(DOMAIN s)
  <2>1. E \subseteq DOMAIN key
    BY <1>0 DEF On
  <2> QED BY <1>0, <1>1, <2>1, ImageFinite
<1>3. \A k \in DOMAIN s : s[k] \in Nat /\ Least(k) <= s[k] /\ s[k] <= Most(k)
  BY <1>1, KeyRead
<1>4. ASSUME NEW r \in Must PROVE AnswerKey(r) \in DOMAIN s
  <2>1. CountedIn[r] \in E /\ r \in DOMAIN landed
    BY DEF Reads, Must, WindowFits
  <2>2. key[CountedIn[r]] = AnswerKey(r)
    BY <2>1 DEF KeysAgree
  <2> QED BY <1>1, <2>1, <2>2
<1> QED BY <1>2, <1>3, <1>4 DEF SumsFit

LEMMA MinOfTwo ==
  ASSUME NEW a \in Nat, NEW b \in Nat
  PROVE  Min({a, b}) = IF a <= b THEN a ELSE b
<1>1. {a, b} \in SUBSET Nat /\ {a, b} # {}
  OBVIOUS
<1>2. Min({a, b}) \in {a, b} /\ \A x \in {a, b} : Min({a, b}) <= x
  BY <1>1, MinIs
<1> QED BY <1>2

\* A key that does not lead leaves no place.
LEMMA LeadingIs ==
  ASSUME NEW s, IsFiniteSet(DOMAIN s), NEW n \in Nat, NEW D \in Leading(s, n)
  PROVE  /\ D \subseteq DOMAIN s
         /\ \A y \in DOMAIN s \ D : Cardinality(D) = n /\ \A x \in D : s[x] >= s[y]
<1>1. /\ D \subseteq DOMAIN s /\ Cardinality(D) = Min({n, Cardinality(DOMAIN s)})
      /\ \A x \in D, y \in DOMAIN s \ D : s[x] >= s[y]
  BY DEF Leading
<1>2. ASSUME NEW y \in DOMAIN s \ D PROVE Cardinality(D) = n
  <2> PICK c \in Nat : c = Cardinality(DOMAIN s)
    BY FS_CardinalityType
  <2>1. Cardinality(D) \in Nat /\ Cardinality(D) < c
    <3>1. Cardinality(D) <= Cardinality(DOMAIN s) /\ IsFiniteSet(D) /\ (Cardinality(D) = Cardinality(DOMAIN s) => D = DOMAIN s)
      BY <1>1, FS_Subset
    <3>2. Cardinality(D) \in Nat
      BY <3>1, FS_CardinalityType
    <3>3. D # DOMAIN s
      OBVIOUS
    <3> QED BY <3>1, <3>2, <3>3
  <2>2. Cardinality(D) = IF n <= c THEN n ELSE c
    BY <1>1, MinOfTwo
  <2> QED BY <2>1, <2>2
<1> QED BY <1>1, <1>2

-----------------------------------------------------------------------------
(* What the statements read so far are.                                    *)

TotalFits == Amount(Must) <= ask.total /\ ask.total <= Amount(May) /\ ask.total \in Nat
GroupsFit == \A k \in DOMAIN ask.groups : ask.groups[k] \in Nat /\ Least(k) <= ask.groups[k] /\ ask.groups[k] <= Most(k)
Listed == \A r \in Must : AnswerKey(r) \in DOMAIN ask.groups \/ Ranked(r) \/ Weightless(r)
TotalsFit ==
  /\ Countable(ask.totals, DOMAIN ask.totals)
  /\ Amount(Must) <= SumOf(ask.totals) /\ SumOf(ask.totals) <= Amount(May) /\ SumOf(ask.totals) \in Nat
LinesFit == \A k \in DOMAIN ask.lines : SumOf(ask.lines[k]) \in Nat /\ SumOf(ask.lines[k]) <= Most(k)

\* Of the values topk picked, what their samples now come to.
PortSamples(v) == {e \in Windowed : e.src_port = v}
PickedFit ==
  \A r \in Must : \/ r.src_port \in ask.picked
                  \/ /\ Cardinality(ask.picked) = LimitOf(question)
                     /\ \A v \in ask.picked : Least(r.src_port) <= Figure("bytes", PortSamples(v))
SeriesFit ==
  \A v \in DOMAIN ask.lines, t \in SeriesTimes(ask.q) :
    /\ ask.lines[v][t] \in Nat
    /\ ask.lines[v][t] <= Figure("bytes", Samples(t, SeriesStep(ask.q)))

LEMMA FigureMore ==
  ASSUME NEW m, NEW E, NEW F, E \subseteq F, IsFiniteSet(F), \A e \in F : Val(m, e) \in Nat
  PROVE  Figure(m, E) <= Figure(m, F) /\ Figure(m, E) \in Nat /\ Figure(m, F) \in Nat
<1>1. IsFiniteSet(E) /\ \A e \in E : Val(m, e) \in Nat
  BY FS_Subset
<1>2. Figure(m, E) = Total(Values(m, E), E) /\ Figure(m, E) \in Nat
  BY <1>1, FigureIs
<1>3. Figure(m, F) = Total(Values(m, F), F) /\ Figure(m, F) \in Nat /\ Countable(Values(m, F), F)
  BY FigureIs
<1>4. \A e \in E : Values(m, E)[e] = Values(m, F)[e]
  BY DEF Values
<1>5. Total(Values(m, E), E) = Total(Values(m, F), E)
  BY <1>4, TotalSame
<1>6. Total(Values(m, F), E) <= Total(Values(m, F), F)
  BY <1>3, TotalMore
<1> QED BY <1>2, <1>3, <1>5, <1>6

Sampled(at, w) ==
  {x \in DOMAIN landed : /\ at - w < landed[x] /\ landed[x] <= at /\ x.exporter \in ask.scope
                         /\ ask.q.ifIndex \in {0, x.in_if}}

LEMMA SamplesAre ==
  ASSUME TablesFit, NEW at, NEW w
  PROVE  IsFiniteSet(Samples(at, w)) /\ \A e \in Samples(at, w) : Val("bytes", e) \in Nat
<1> PICK X : X = Sampled(at, w)
  OBVIOUS
<1>1. Samples(at, w) = {FlowRow(r) : r \in X}
  BY Zenon DEF Samples, Sampled
<1>2. X \subseteq DOMAIN landed
  BY DEF Sampled
<1> PICK g : g = [r \in DOMAIN landed |-> FlowRow(r)]
  OBVIOUS
<1>3. Reads({FlowRow(r) : r \in X}, {}, DOMAIN landed, g, "bytes")
  <2>1. DOMAIN g = DOMAIN landed /\ \A r \in DOMAIN landed : g[r] = FlowRow(r)
    OBVIOUS
  <2> PICK lo : lo = {}
    OBVIOUS
  <2> PICK hi : hi = DOMAIN landed
    OBVIOUS
  <2>2. Reads({FlowRow(r) : r \in X}, lo, hi, g, "bytes")
    BY <1>2, <2>1, FlowReads
  <2> QED BY <2>2
<1> QED BY <1>1, <1>3 DEF Reads

\* Samples are never taken back.
LEMMA SamplesGrow ==
  ASSUME TablesFit, TablesFit', GoesOn, ask'.scope = ask.scope, ask'.q = ask.q, NEW at, NEW w
  PROVE  Samples(at, w) \subseteq Samples(at, w)'
<1>1. \A r \in DOMAIN landed : r \in DOMAIN landed' /\ landed'[r] = landed[r]
  BY DEF GoesOn
<1>2. \A r \in DOMAIN landed : FlowRow(r)' = FlowRow(r)
  BY <1>1, Zenon DEF FlowRow
<1>3. Sampled(at, w) \subseteq Sampled(at, w)' /\ Sampled(at, w) \subseteq DOMAIN landed
  BY <1>1 DEF Sampled
<1>4. Samples(at, w) = {FlowRow(r) : r \in Sampled(at, w)}
  BY Zenon DEF Samples, Sampled
<1>5. Samples(at, w)' = {FlowRow(r)' : r \in Sampled(at, w)'}
  BY Zenon DEF Samples, Sampled
<1> QED BY <1>2, <1>3, <1>4, <1>5

LEMMA SamplesWill ==
  ASSUME TablesFit', NEW at, NEW w
  PROVE  IsFiniteSet(Samples(at, w)') /\ \A e \in Samples(at, w)' : Val("bytes", e) \in Nat
<1>1. Samples(at, w)' = {FlowRow(r)' : r \in Sampled(at, w)'}
  BY Zenon DEF Samples, Sampled
<1> PICK X : X = Sampled(at, w)'
  OBVIOUS
<1>2. X \subseteq StoredFlows
  BY DEF Sampled, TablesFit
<1> PICK g : g = [r \in X |-> FlowRow(r)']
  OBVIOUS
<1>3. Samples(at, w)' = {g[r] : r \in X}
  BY <1>1
<1>4. IsFiniteSet(X) /\ X \subseteq DOMAIN g
  BY <1>2, QueriesAssumption, FS_Subset
<1>5. \A r \in X : Val("bytes", FlowRow(r)') \in Nat
  BY <1>2, QueriesAssumption DEF Val, FlowRow
<1> QED BY <1>1, <1>3, <1>4, <1>5, ImageFinite

LEMMA SamplesMore ==
  ASSUME TablesFit, TablesFit', GoesOn, ask'.scope = ask.scope, ask'.q = ask.q, NEW at, NEW w
  PROVE  Figure("bytes", Samples(at, w)) <= Figure("bytes", Samples(at, w)')
         /\ Figure("bytes", Samples(at, w)) \in Nat /\ Figure("bytes", Samples(at, w)') \in Nat
<1>1. Samples(at, w) \subseteq Samples(at, w)'
  BY SamplesGrow
<1>2. IsFiniteSet(Samples(at, w)') /\ \A e \in Samples(at, w)' : Val("bytes", e) \in Nat
  BY SamplesWill
<1> QED BY <1>1, <1>2, FigureMore

LEMMA PortsMore ==
  ASSUME TablesFit, TablesFit', GoesOn, ask'.scope = ask.scope, ask'.q = ask.q, NEW v
  PROVE  Figure("bytes", PortSamples(v)) <= Figure("bytes", PortSamples(v)')
         /\ Figure("bytes", PortSamples(v)) \in Nat /\ Figure("bytes", PortSamples(v)') \in Nat
<1> PICK at : at = ask.q.to
  OBVIOUS
<1> PICK w : w = window(ask.q)
  OBVIOUS
<1>1. Samples(at, w) \subseteq Samples(at, w)'
  BY SamplesGrow
<1>2. Windowed = Samples(at, w) /\ Windowed' = Samples(at, w)'
  <2>1. Windowed = Samples(at, w)
    BY DEF Windowed
  <2>2. Windowed' = Samples(at, w)'
    BY DEF Windowed, Samples
  <2> QED BY <2>1, <2>2
<1>3. PortSamples(v) \subseteq PortSamples(v)' /\ PortSamples(v)' \subseteq Samples(at, w)'
  BY <1>1, <1>2 DEF PortSamples
<1>4. IsFiniteSet(Samples(at, w)') /\ \A e \in Samples(at, w)' : Val("bytes", e) \in Nat
  BY SamplesWill
<1>5. IsFiniteSet(PortSamples(v)') /\ \A e \in PortSamples(v)' : Val("bytes", e) \in Nat
  BY <1>3, <1>4, FS_Subset
<1> QED BY <1>3, <1>5, FigureMore

-----------------------------------------------------------------------------
(* What was read stays right.                                              *)

LEMMA TotalStays ==
  ASSUME Narrows, TotalFits, ask'.total = ask.total
  PROVE  TotalFits'
BY DEF Narrows, TotalFits

LEMMA TotalsStay ==
  ASSUME Narrows, TotalsFit, ask'.totals = ask.totals
  PROVE  TotalsFit'
BY DEF Narrows, TotalsFit

LEMMA GroupsStay ==
  ASSUME Narrows, GroupsFit, ask'.groups = ask.groups
  PROVE  GroupsFit'
<1> SUFFICES ASSUME NEW k \in DOMAIN ask.groups
             PROVE  ask.groups[k] \in Nat /\ Least(k)' <= ask.groups[k] /\ ask.groups[k] <= Most(k)'
  BY DEF GroupsFit
<1>1. ask.groups[k] \in Nat /\ Least(k) <= ask.groups[k] /\ ask.groups[k] <= Most(k)
  BY DEF GroupsFit
<1>2. /\ Least(k)' <= Least(k) /\ Most(k) <= Most(k)'
      /\ Least(k) \in Nat /\ Least(k)' \in Nat /\ Most(k) \in Nat /\ Most(k)' \in Nat
  BY DEF Narrows
<1> QED BY <1>1, <1>2

LEMMA LinesStay ==
  ASSUME Narrows, LinesFit, ask'.lines = ask.lines
  PROVE  LinesFit'
<1> SUFFICES ASSUME NEW k \in DOMAIN ask.lines
             PROVE  SumOf(ask.lines[k]) \in Nat /\ SumOf(ask.lines[k]) <= Most(k)'
  BY DEF LinesFit
<1>1. SumOf(ask.lines[k]) \in Nat /\ SumOf(ask.lines[k]) <= Most(k)
  BY DEF LinesFit
<1>2. Most(k) <= Most(k)' /\ Most(k) \in Nat /\ Most(k)' \in Nat
  BY DEF Narrows
<1> QED BY <1>1, <1>2

\* The least of a flow's key, after a step.
LEMMA LeastWill ==
  ASSUME NEW r, NEW a, AnswerKey(r)' = a
  PROVE  Least(AnswerKey(r))' = Least(a)'
BY Zenon DEF Least

ByTime == question.kind = "records" /\ question.metric # "bytes"

\* A key that lost its place has lost it for good.
LEMMA ListedStays ==
  ASSUME TablesFit, WindowFits, Narrows, GoesOn, GroupsFit, Listed, ask'.groups = ask.groups
  PROVE  Listed'
<1> SUFFICES ASSUME NEW r \in Must', AnswerKey(r)' \notin DOMAIN ask.groups, ~Weightless(r)' PROVE Ranked(r)'
  BY DEF Listed
<1>0. r \in Must /\ r \in DOMAIN landed /\ r \in StoredFlows
  BY DEF Narrows, Must, WindowFits, TablesFit
<1> PICK a : a = AnswerKey(r)
  OBVIOUS
<1>1. AnswerKey(r)' = a
  BY <1>0 DEF Narrows
<1>2. Ranked(r)
  <2>1. ~Weightless(r)
    BY DEF Weightless, GoesOn
  <2> QED BY <1>0, <1>1, <2>1 DEF Listed
<1>3. question' = question /\ landed'[r] = landed[r] /\ \A x \in DOMAIN landed : landed'[x] = landed[x]
  BY <1>0 DEF GoesOn
<1>4. Cardinality(DOMAIN ask'.groups) = LimitOf(question') /\ question'.kind # "exporters"
  BY <1>2, <1>3 DEF Ranked
<1>5. ASSUME NEW k \in DOMAIN ask.groups
      PROVE  IF ByTime THEN \E x \in May' : x.id = k /\ landed'[x] >= landed'[r]
             ELSE Least(AnswerKey(r))' <= ask'.groups[k]
  <2>1. CASE ByTime
    <3>1. PICK x \in May : x.id = k /\ landed[x] >= landed[r]
      BY <1>2, <2>1 DEF Ranked, ByTime
    <3>2. x \in May' /\ landed'[x] = landed[x]
      BY <1>3 DEF Narrows, May
    <3> QED BY <1>3, <2>1, <3>1, <3>2
  <2>2. CASE ~ByTime
    <3>1. Least(a) <= ask.groups[k]
      BY <1>2, <2>2 DEF Ranked, ByTime
    <3>2. Least(a)' <= Least(a) /\ Least(a) \in Nat /\ Least(a)' \in Nat
      BY DEF Narrows
    <3>3. ask.groups[k] \in Nat
      BY DEF GroupsFit
    <3>4. Least(AnswerKey(r))' = Least(a)'
      BY <1>1, LeastWill
    <3> QED BY <2>2, <3>1, <3>2, <3>3, <3>4
  <2> QED BY <2>1, <2>2
<1>6. ByTime <=> question'.kind = "records" /\ question'.metric # "bytes"
  BY <1>3 DEF ByTime
<1> QED BY <1>4, <1>5, <1>6, Zenon DEF Ranked

LEMMA PickedStays ==
  ASSUME TablesFit, TablesFit', Narrows, GoesOn, PickedFit,
         ask'.picked = ask.picked, ask'.scope = ask.scope, ask'.q = ask.q
  PROVE  PickedFit'
<1> SUFFICES ASSUME NEW r \in Must', r.src_port \notin ask.picked
             PROVE  /\ Cardinality(ask.picked) = LimitOf(question)
                    /\ \A v \in ask.picked : Least(r.src_port)' <= Figure("bytes", PortSamples(v)')
  BY DEF PickedFit, GoesOn
<1>0. r \in Must
  BY DEF Narrows
<1>1. /\ Cardinality(ask.picked) = LimitOf(question)
      /\ \A v \in ask.picked : Least(r.src_port) <= Figure("bytes", PortSamples(v))
  BY <1>0 DEF PickedFit
<1>2. ASSUME NEW v \in ask.picked PROVE Least(r.src_port)' <= Figure("bytes", PortSamples(v)')
  <2>1. Least(r.src_port)' <= Least(r.src_port) /\ Least(r.src_port) \in Nat /\ Least(r.src_port)' \in Nat
    BY DEF Narrows
  <2>2. Figure("bytes", PortSamples(v)) <= Figure("bytes", PortSamples(v)')
        /\ Figure("bytes", PortSamples(v)) \in Nat /\ Figure("bytes", PortSamples(v)') \in Nat
    BY PortsMore
  <2> QED BY <1>1, <2>1, <2>2
<1> QED BY <1>1, <1>2

LEMMA SeriesStays ==
  ASSUME TablesFit, TablesFit', GoesOn, SeriesFit, ask'.lines = ask.lines, ask'.scope = ask.scope, ask'.q = ask.q
  PROVE  SeriesFit'
<1> PICK w : w = SeriesStep(ask.q)
  OBVIOUS
<1>1. \A t : Samples(t, SeriesStep(ask.q))' = Samples(t, w)'
  BY Zenon DEF Samples
<1>2. ASSUME NEW v \in DOMAIN ask.lines, NEW t \in SeriesTimes(ask.q)
      PROVE  ask.lines[v][t] \in Nat /\ ask.lines[v][t] <= Figure("bytes", Samples(t, w)')
  <2>1. ask.lines[v][t] \in Nat /\ ask.lines[v][t] <= Figure("bytes", Samples(t, w))
    BY DEF SeriesFit
  <2>2. Figure("bytes", Samples(t, w)) <= Figure("bytes", Samples(t, w)')
        /\ Figure("bytes", Samples(t, w)) \in Nat /\ Figure("bytes", Samples(t, w)') \in Nat
    BY SamplesMore
  <2> QED BY <2>1, <2>2
<1> QED BY <1>1, <1>2, Zenon DEF SeriesFit

-----------------------------------------------------------------------------
(* The invariant.                                                          *)

AskShape ==
  ask = [stage |-> ask.stage, from |-> ask.from, to |-> ask.to, q |-> ask.q, asked |-> ask.asked,
         had |-> ask.had, table |-> ask.table, scope |-> ask.scope, bookRead |-> ask.bookRead,
         total |-> ask.total, picked |-> ask.picked, groups |-> ask.groups, totals |-> ask.totals,
         lines |-> ask.lines]

\* Nothing is read yet.
Fresh ==
  /\ ask.q = [question EXCEPT !.from = ask.from, !.to = ask.to] /\ ask.table = "raw"
  /\ DOMAIN ask.groups = {} /\ DOMAIN ask.lines = {}

\* Each kind of question has its own statements.
StageFits ==
  /\ ask.stage \in {"total", "groups", "buckets", "lines"} => question.kind = "explore"
  /\ ask.stage \in {"records", "exporters"} => question.kind = ask.stage
  /\ ask.stage \in {"topTotal", "topk", "detail"} => question.kind \in {"top", "series"}
  /\ ask.stage \in {"seriesLines", "seriesTotals"} => question.kind = "series"

Explored == ask.stage = "answered" /\ question.kind = "explore"
AfterTotal == ask.stage \in {"groups", "buckets", "lines"} \/ Explored
AfterTotals == ask.stage = "lines" \/ Explored
AfterGroups ==
  IF question.kind = "explore" THEN question.groupBy # {} /\ ask.stage \in {"buckets", "lines", "answered"}
  ELSE ask.stage \in {"seriesLines", "seriesTotals", "answered"}
SeriesDone == \A v \in DOMAIN ask.lines, t \in DOMAIN ask.totals : ask.lines[v][t] <= ask.totals[t]

ResultsFit ==
  /\ GroupsFit
  /\ AfterTotal => TotalFits
  /\ AfterTotals => TotalsFit
  /\ question.kind = "explore" => LinesFit
  /\ AfterGroups => Listed
  /\ ask.stage = "detail" => PickedFit
  /\ ask.stage = "seriesTotals" => SeriesFit
  /\ ask.stage = "answered" /\ question.kind = "series" => SeriesDone
  /\ ask.stage \notin {"answered", "seriesTotals"} => DOMAIN ask.lines = {}

AskFits ==
  ask.stage \notin Unread =>
    /\ AskShape /\ SameQuestion /\ WindowFits
    /\ ask.stage = "book" => Fresh
    /\ ask.stage # "book" => SelectFits /\ StageFits /\ ResultsFit

QueriesFit == TablesFit /\ BookFits /\ question \in Questions /\ AskFits

\* An answer of fitting results is whole.
LEMMA FitsAreWhole == QueriesFit => AnswersAreWhole
<1> SUFFICES ASSUME QueriesFit, ask.stage = "answered" PROVE AnswersAreWhole
  BY DEF AnswersAreWhole
<1>1. ResultsFit
  BY DEF QueriesFit, AskFits, Unread
<1>2. \A k \in DOMAIN ask.groups : Least(k) <= ask.groups[k] /\ ask.groups[k] <= Most(k)
  BY <1>1 DEF ResultsFit, GroupsFit
<1>3. ASSUME question.kind = "explore"
      PROVE  /\ Amount(Must) <= ask.total /\ ask.total <= Amount(May)
             /\ Amount(Must) <= SumOf(ask.totals) /\ SumOf(ask.totals) <= Amount(May)
             /\ \A k \in DOMAIN ask.lines : SumOf(ask.lines[k]) <= Most(k)
  <2>1. Explored /\ AfterTotal /\ AfterTotals
    BY <1>3 DEF Explored, AfterTotal, AfterTotals
  <2>2. TotalFits /\ TotalsFit /\ LinesFit
    BY <1>1, <1>3, <2>1 DEF ResultsFit
  <2> QED BY <2>2 DEF TotalFits, TotalsFit, LinesFit
<1>4. ASSUME question.kind # "explore" \/ question.groupBy # {}
      PROVE  \A r \in Must : AnswerKey(r) \in DOMAIN ask.groups \/ Ranked(r) \/ Weightless(r)
  <2>1. AfterGroups
    BY <1>4 DEF AfterGroups
  <2> QED BY <1>1, <2>1 DEF ResultsFit, Listed
<1>5. question.kind = "series" =>
        \A v \in DOMAIN ask.lines, t \in DOMAIN ask.totals : ask.lines[v][t] <= ask.totals[t]
  BY <1>1 DEF ResultsFit, SeriesDone
<1> QED BY <1>2, <1>3, <1>4, <1>5, Zenon DEF AnswersAreWhole

LEMMA ScopeStays ==
  ASSUME GoesOn, ScopeFits, ask'.scope = ask.scope
  PROVE  ScopeFits'
<1>0. question' = question /\ ask'.bookRead = ask.bookRead
  BY DEF GoesOn
<1>1. \A r : InScope(r)' <=> InScope(r)
  <2>1. \A a : Owners(a)' = Owners(a)
    BY <1>0, Zenon DEF Owners
  <2> QED BY <1>0, <2>1, Zenon DEF InScope
<1> QED BY <1>0, <1>1 DEF ScopeFits

LEMMA ReadStays ==
  ASSUME GoesOn, SelectFits, ask'.scope = ask.scope, ask'.q = ask.q
  PROVE  SelectFits'
<1>0. question' = question /\ ask'.table = ask.table /\ ask'.from = ask.from /\ ask'.asked = ask.asked
  BY DEF GoesOn
<1>1. ScopeFits'
  BY ScopeStays DEF SelectFits
<1>2. Raws' = Raws
  BY <1>0 DEF Raws
<1> QED BY <1>0, <1>1, <1>2, Zenon DEF SelectFits

LEMMA WindowStays ==
  ASSUME GoesOn, WindowFits, SameQuestion, TablesFit, TablesFit', ask'.q = ask.q
  PROVE  WindowFits' /\ SameQuestion'
<1>0. /\ question' = question /\ ask'.from = ask.from /\ ask'.to = ask.to /\ ask'.asked = ask.asked
      /\ ask'.had = ask.had /\ DOMAIN landed \subseteq DOMAIN landed' /\ flowNow <= flowNow'
      /\ flowNow \in Nat /\ flowNow' \in Nat
  BY DEF GoesOn, TablesFit
<1>1. ask.asked <= flowNow'
  BY <1>0 DEF WindowFits
<1> QED BY <1>0, <1>1 DEF WindowFits, SameQuestion

\* Flows landing, ageing and leaving, and edits of the book, as a question is
\* answered.
LEMMA AroundFits ==
  ASSUME QueriesFit, TablesFit', BookFits', GoesOn, ask' = ask
  PROVE  QueriesFit'
<1>0. TablesFit /\ question' = question /\ question \in Questions
  BY DEF QueriesFit, GoesOn
<1> SUFFICES ASSUME ask.stage \notin Unread PROVE AskFits'
  BY <1>0 DEF QueriesFit, AskFits
<1>1. AskShape /\ SameQuestion /\ WindowFits
  BY DEF QueriesFit, AskFits
<1>2. AskShape' /\ SameQuestion' /\ WindowFits'
  BY <1>0, <1>1, WindowStays DEF AskShape
<1>3. CASE ask.stage = "book"
  <2>1. Fresh
    BY <1>3 DEF QueriesFit, AskFits
  <2>2. Fresh'
    BY <1>0, <2>1 DEF Fresh
  <2> QED BY <1>2, <1>3, <2>2 DEF AskFits
<1>4. CASE ask.stage # "book"
  <2>1. SelectFits /\ StageFits /\ ResultsFit
    BY <1>4 DEF QueriesFit, AskFits
  <2>2. Narrows
    BY <1>0, <1>1, Onward DEF WindowFits
  <2>3. SelectFits'
    BY <2>1, ReadStays
  <2>4. StageFits'
    BY <1>0, <2>1 DEF StageFits
  <2>5. GroupsFit'
    BY <2>1, <2>2, GroupsStay DEF ResultsFit
  <2>6. AfterTotal => TotalFits'
    BY <2>1, <2>2, TotalStays DEF ResultsFit
  <2>7. AfterTotals => TotalsFit'
    BY <2>1, <2>2, TotalsStay DEF ResultsFit
  <2>8. question.kind = "explore" => LinesFit'
    BY <2>1, <2>2, LinesStay DEF ResultsFit
  <2>9. AfterGroups => Listed'
    BY <1>0, <1>1, <2>1, <2>2, ListedStays DEF ResultsFit
  <2>10. ask.stage = "detail" => PickedFit'
    BY <1>0, <2>1, <2>2, PickedStays DEF ResultsFit
  <2>11. ask.stage = "seriesTotals" => SeriesFit'
    BY <1>0, <2>1, SeriesStays DEF ResultsFit
  <2>12. (ask.stage = "answered" /\ question.kind = "series" => SeriesDone')
         /\ (ask.stage \notin {"answered", "seriesTotals"} => DOMAIN ask'.lines = {})
    BY <2>1 DEF ResultsFit, SeriesDone
  <2>13. (AfterTotal' <=> AfterTotal) /\ (AfterTotals' <=> AfterTotals) /\ (AfterGroups' <=> AfterGroups)
    BY <1>0 DEF AfterTotal, AfterTotals, AfterGroups, Explored
  <2>14. ResultsFit'
    BY <1>0, <2>5, <2>6, <2>7, <2>8, <2>9, <2>10, <2>11, <2>12, <2>13 DEF ResultsFit
  <2> QED BY <1>2, <1>4, <2>3, <2>4, <2>14 DEF AskFits
<1> QED BY <1>3, <1>4

-----------------------------------------------------------------------------
(* The store and the book around a question.                               *)

LEMMA LandsFits ==
  ASSUME QueriesFit, NEW r \in StoredFlows, NEW at, FlowLands(r, at)
  PROVE  QueriesFit'
<1>0. TablesFit /\ BookFits
  BY DEF QueriesFit
<1>1. TablesFit'
  BY <1>0, StoreLands
<1>2. /\ r \notin DOMAIN landed /\ landed' = [x \in DOMAIN landed \cup {r} |-> IF x = r THEN at ELSE landed[x]]
      /\ flowNow' = flowNow /\ live' = live /\ question' = question /\ ask' = ask /\ flowNow \in Nat
  BY <1>0 DEF FlowLands, TablesFit
<1>3. DOMAIN landed \subseteq DOMAIN landed' /\ \A x \in DOMAIN landed : landed'[x] = landed[x]
  BY <1>2
<1>4. GoesOn
  BY <1>2, <1>3 DEF GoesOn
<1>5. BookFits'
  BY <1>0, <1>2 DEF BookFits
<1> QED BY <1>1, <1>2, <1>4, <1>5, AroundFits

LEMMA RawExpiresFits ==
  ASSUME QueriesFit, NEW r, RawExpires(r)
  PROVE  QueriesFit'
<1>0. TablesFit /\ BookFits
  BY DEF QueriesFit
<1>1. TablesFit'
  BY <1>0, StoreRawExpires
<1>2. landed' = landed /\ flowNow' = flowNow /\ live' = live /\ question' = question /\ ask' = ask /\ flowNow \in Nat
  BY <1>0 DEF RawExpires, TablesFit, bookVars
<1>3. GoesOn /\ BookFits'
  BY <1>0, <1>2 DEF GoesOn, BookFits
<1> QED BY <1>1, <1>2, <1>3, AroundFits

LEMMA RollupExpiresFits ==
  ASSUME QueriesFit, NEW k, RollupExpires(k)
  PROVE  QueriesFit'
<1>0. TablesFit /\ BookFits
  BY DEF QueriesFit
<1>1. TablesFit'
  BY <1>0, StoreRollupExpires
<1>2. landed' = landed /\ flowNow' = flowNow /\ live' = live /\ question' = question /\ ask' = ask /\ flowNow \in Nat
  BY <1>0 DEF RollupExpires, TablesFit, bookVars
<1>3. GoesOn /\ BookFits'
  BY <1>0, <1>2 DEF GoesOn, BookFits
<1> QED BY <1>1, <1>2, <1>3, AroundFits

LEMMA TimeFits ==
  ASSUME QueriesFit, QueryTimePasses
  PROVE  QueriesFit'
<1>0. TablesFit /\ BookFits
  BY DEF QueriesFit
<1>1. TablesFit'
  BY <1>0, StoreTime
<1>2. landed' = landed /\ flowNow' = flowNow + 1 /\ live' = live /\ question' = question /\ ask' = ask /\ flowNow \in Nat
  BY <1>0 DEF QueryTimePasses, TablesFit, bookVars
<1>3. GoesOn /\ BookFits'
  BY <1>0, <1>2 DEF GoesOn, BookFits
<1> QED BY <1>1, <1>2, <1>3, AroundFits

LEMMA BookFitsNext ==
  ASSUME QueriesFit, NEW d \in BookDevices, BookChanges(d)
  PROVE  QueriesFit'
<1>0. TablesFit /\ BookFits
  BY DEF QueriesFit
<1>1. UNCHANGED <<flowNow, landed, raw, hourly, question, ask>> /\ (live' = live \/ live' = live \ {d})
  BY DEF BookChanges
<1>2. TablesFit'
  BY <1>0, <1>1, StoreSame
<1>3. flowNow \in Nat
  BY <1>0 DEF TablesFit
<1>4. GoesOn /\ BookFits'
  BY <1>0, <1>1, <1>3 DEF GoesOn, BookFits
<1> QED BY <1>1, <1>2, <1>4, AroundFits

LEMMA NothingIn == DOMAIN <<>> = {}
OBVIOUS

-----------------------------------------------------------------------------
(* Asking.                                                                 *)

LEMMA QueriesInitFits == QueriesInit => QueriesFit
<1> SUFFICES ASSUME QueriesInit PROVE QueriesFit
  OBVIOUS
<1>1. TablesFit
  BY StoreInit
<1>2. BookFits /\ question \in Questions /\ ask.stage = "none"
  BY DEF QueriesInit, BookFits
<1> QED BY <1>1, <1>2 DEF QueriesFit, AskFits, Unread

\* A question that ends without an answer.
LEMMA EndsFit ==
  ASSUME QueriesFit, UNCHANGED <<flowNow, landed, raw, hourly, bookVars, question>>, ask'.stage \in Unread
  PROVE  QueriesFit'
<1>1. TablesFit' /\ BookFits' /\ question' \in Questions
  BY StoreSame DEF QueriesFit, BookFits, bookVars
<1> QED BY <1>1 DEF QueriesFit, AskFits

LEMMA AskStepFits ==
  ASSUME QueriesFit, Ask
  PROVE  QueriesFit'
<1> DEFINE to == IF question.to = NoTime THEN flowNow ELSE question.to
<1> DEFINE from == IF question.from = NoTime THEN to - HourLen ELSE question.from
<1> DEFINE book == [stage |-> "book", from |-> from, to |-> to,
                    q |-> [question EXCEPT !.from = from, !.to = to],
                    asked |-> flowNow, had |-> landed, table |-> "raw", scope |-> {},
                    bookRead |-> <<>>, total |-> 0, picked |-> {}, groups |-> <<>>,
                    totals |-> <<>>, lines |-> <<>>]
<1>0. /\ UNCHANGED <<flowNow, landed, raw, hourly, bookVars, question>> /\ TablesFit /\ BookFits
      /\ question \in Questions /\ flowNow \in Nat
  BY DEF Ask, QueriesFit, TablesFit
<1>1. ask' = Refused \/ ask' = book
  BY Zenon DEF Ask
<1>2. CASE ask' = Refused
  BY <1>0, <1>2, EndsFit DEF Refused, Unread
<1>3. CASE ask' = book
  <2>1. /\ question = [kind |-> question.kind, from |-> question.from, to |-> question.to, filters |-> question.filters,
               groupBy |-> question.groupBy, metric |-> question.metric, limit |-> question.limit, devices |-> question.devices,
               sites |-> question.sites, exporters |-> question.exporters, ifIndex |-> question.ifIndex, step |-> question.step]
        /\ question.from \in Int /\ question.to \in Int /\ HourLen \in Nat
    BY <1>0, QueriesAssumption
  <2>2. to \in Int
    BY <1>0, <2>1
  <2>3. from \in Int
    <3> HIDE DEF to
    <3> QED BY <2>1, <2>2
  <2> HIDE DEF to, from
  <2> PICK q : q = [question EXCEPT !.from = from, !.to = to]
    OBVIOUS
  <2>4. /\ q.kind = question.kind /\ q.filters = question.filters /\ q.metric = question.metric
        /\ q.limit = question.limit /\ q.devices = question.devices /\ q.sites = question.sites
        /\ q.exporters = question.exporters /\ q.ifIndex = question.ifIndex /\ q.step = question.step
        /\ q.from = from /\ q.to = to
    BY <2>1
  <2>5. /\ ask'.stage = "book" /\ ask'.from = from /\ ask'.to = to /\ ask'.q = q /\ ask'.asked = flowNow
        /\ ask'.had = landed /\ ask'.table = "raw" /\ ask'.groups = <<>> /\ ask'.lines = <<>>
    BY <1>3
  <2>6. AskShape'
    BY <1>3 DEF AskShape
  <2>7. SameQuestion'
    BY <1>0, <2>4, <2>5 DEF SameQuestion
  <2>8. WindowFits'
    BY <1>0, <2>2, <2>3, <2>4, <2>5 DEF WindowFits
  <2>9. Fresh'
    BY <1>0, <2>5, NothingIn DEF Fresh
  <2>10. AskFits'
    BY <2>5, <2>6, <2>7, <2>8, <2>9 DEF AskFits
  <2>11. TablesFit' /\ BookFits'
    BY <1>0, StoreSame DEF BookFits, bookVars
  <2> QED BY <1>0, <2>10, <2>11 DEF QueriesFit
<1> QED BY <1>1, <1>2, <1>3

-----------------------------------------------------------------------------
(* Reading the book.                                                       *)

LEMMA InScopeWill ==
  ASSUME NEW r, ask'.bookRead = [claims |-> claims, live |-> live]
  PROVE  InScope(r)' <=> Within(OwnersOf(live, claims, r.exporter), question', r)
<1>1. Owners(r.exporter)' = OwnersOf(ask'.bookRead.live, ask'.bookRead.claims, r.exporter)
  BY Zenon DEF Owners, OwnersOf, Home, Claimants
<1>2. ask'.bookRead.live = live /\ ask'.bookRead.claims = claims
  OBVIOUS
<1> PICK o : o = Owners(r.exporter)'
  OBVIOUS
<1>3. InScope(r)' <=> Within(o, question', r)
  BY Zenon DEF InScope, Within, OfDevice, OfSite
<1> QED BY <1>1, <1>2, <1>3

LEMMA MaxOfTwo ==
  ASSUME NEW a \in Int, NEW b \in Int
  PROVE  Max({a, b}) \in Int /\ \A t \in Int : Max({a, b}) <= t <=> a <= t /\ b <= t
<1>1. \E x \in {a, b} : \A y \in {a, b} : x >= y
  <2>1. CASE a >= b
    BY <2>1
  <2>2. CASE ~(a >= b)
    BY <2>2
  <2> QED BY <2>1, <2>2
<1>2. Max({a, b}) \in {a, b} /\ \A y \in {a, b} : Max({a, b}) >= y
  BY <1>1 DEF Max
<1> QED BY <1>2

\* The table that is chosen reaches back far enough and has the columns.
LEMMA TableIs ==
  ASSUME NEW q, NEW cutoff \in Int, q.from \in Int, chooseTable(q, cutoff) # "none", NEW table, table = chooseTable(q, cutoff)
  PROVE  /\ table \in {"raw", "rollup"}
         /\ table = "raw" => cutoff <= q.from
         /\ table = "rollup" => ~NeedsRaw(q)
BY DEF chooseTable

Began ==
  /\ UNCHANGED <<flowNow, landed, raw, hourly, bookVars, question>>
  /\ AskShape'
  /\ ask'.from = ask.from /\ ask'.to = ask.to /\ ask'.asked = ask.asked /\ ask'.had = ask.had
  /\ ask'.groups = ask.groups /\ ask'.lines = ask.lines
  /\ ask'.bookRead = [claims |-> claims, live |-> live]
  /\ ask'.stage \in {"total", "records", "exporters", "topTotal"}

\* The book is read once, and the statements begin.
LEMMA BeganFits ==
  ASSUME QueriesFit, ask.stage = "book", Began, SameQuestion', ask'.q.to = ask.to, ask'.q.from \in Int,
         SelectFits', StageFits'
  PROVE  QueriesFit'
<1>0. /\ UNCHANGED <<flowNow, landed, raw, hourly, bookVars, question>>
      /\ ask'.from = ask.from /\ ask'.to = ask.to /\ ask'.asked = ask.asked /\ ask'.had = ask.had
      /\ ask'.groups = ask.groups /\ ask'.lines = ask.lines
      /\ ask'.stage \in {"total", "records", "exporters", "topTotal"}
  BY DEF Began
<1>1. TablesFit /\ BookFits /\ question \in Questions /\ WindowFits /\ Fresh
  BY DEF QueriesFit, AskFits, Unread
<1>2. TablesFit' /\ BookFits' /\ question' \in Questions
  BY <1>0, <1>1, StoreSame DEF BookFits, bookVars
<1>3. WindowFits'
  BY <1>0, <1>1 DEF WindowFits
<1>4. DOMAIN ask'.groups = {} /\ DOMAIN ask'.lines = {}
  BY <1>0, <1>1 DEF Fresh
<1>5. GroupsFit' /\ LinesFit'
  BY <1>4 DEF GroupsFit, LinesFit
<1>6. ~AfterTotal' /\ ~AfterTotals' /\ ~AfterGroups' /\ ask'.stage \notin {"detail", "seriesTotals", "answered"}
  BY <1>0 DEF AfterTotal, AfterTotals, AfterGroups, Explored
<1>7. ResultsFit'
  BY <1>4, <1>5, <1>6 DEF ResultsFit
<1>8. AskFits'
  BY <1>3, <1>7 DEF AskFits, Began
<1> QED BY <1>2, <1>8 DEF QueriesFit

QuestionShape(q) ==
  q = [kind |-> q.kind, from |-> q.from, to |-> q.to, filters |-> q.filters,
       groupBy |-> q.groupBy, metric |-> q.metric, limit |-> q.limit, devices |-> q.devices,
       sites |-> q.sites, exporters |-> q.exporters, ifIndex |-> q.ifIndex, step |-> q.step]
FromOnly(p, q, from) ==
  /\ p.kind = q.kind /\ p.filters = q.filters /\ p.devices = q.devices
  /\ p.sites = q.sites /\ p.exporters = q.exporters /\ p.ifIndex = q.ifIndex
  /\ p.metric = q.metric /\ p.limit = q.limit /\ p.step = q.step /\ p.from = from /\ p.to = q.to

LEMMA ClampedIs ==
  ASSUME NEW q, NEW from, NEW p, QuestionShape(q), p = [q EXCEPT !.from = from, !.groupBy = {}]
  PROVE  FromOnly(p, q, from)
BY DEF QuestionShape, FromOnly

LEMMA ReadBookFits ==
  ASSUME QueriesFit, ReadBook
  PROVE  QueriesFit'
<1> PICK q : q = ask.q
  OBVIOUS
<1> PICK idx : idx = newIndex(Addresses)
  OBVIOUS
<1> PICK cutoff : cutoff = ask.asked - RawKeep
  OBVIOUS
<1> PICK read : read = [ask EXCEPT !.bookRead = [claims |-> claims, live |-> live]]
  OBVIOUS
<1> PICK scope : scope = resolve(q, Addresses, idx)
  OBVIOUS
<1>0. /\ UNCHANGED <<flowNow, landed, raw, hourly, bookVars, question>> /\ TablesFit /\ BookFits
      /\ question \in Questions /\ ask.stage = "book" /\ AskShape /\ SameQuestion /\ WindowFits /\ Fresh
  BY DEF ReadBook, QueriesFit, AskFits, Unread
<1>1. /\ q.kind = question.kind /\ q.filters = question.filters /\ q.devices = question.devices
      /\ q.sites = question.sites /\ q.exporters = question.exporters /\ q.ifIndex = question.ifIndex
      /\ q.metric = question.metric /\ q.limit = question.limit /\ q.step = question.step
  BY <1>0 DEF SameQuestion
<1>2. /\ question = [kind |-> question.kind, from |-> question.from, to |-> question.to, filters |-> question.filters,
               groupBy |-> question.groupBy, metric |-> question.metric, limit |-> question.limit, devices |-> question.devices,
               sites |-> question.sites, exporters |-> question.exporters, ifIndex |-> question.ifIndex, step |-> question.step]
      /\ question.kind \in Kinds
      /\ question.kind \in {"top", "series", "exporters"} => question.filters = {}
      /\ question.kind = "exporters" => question.devices \cup question.sites \cup question.exporters = {}
      /\ RawKeep \in Nat
  BY <1>0, QueriesAssumption
<1>3. q = [question EXCEPT !.from = ask.from, !.to = ask.to] /\ ask.table = "raw"
  BY <1>0 DEF Fresh
<1>4. /\ q = [kind |-> q.kind, from |-> q.from, to |-> q.to, filters |-> q.filters,
               groupBy |-> q.groupBy, metric |-> q.metric, limit |-> q.limit, devices |-> q.devices,
               sites |-> q.sites, exporters |-> q.exporters, ifIndex |-> q.ifIndex, step |-> q.step]
      /\ q.from = ask.from /\ q.to = ask.to /\ q.groupBy = question.groupBy
  BY <1>2, <1>3
<1>5. cutoff \in Int /\ q.from \in Int
  BY <1>0, <1>2, <1>4 DEF WindowFits
<1>6. ask' = CASE q.kind = "explore" ->
                      IF ~Compiles(q, cutoff) THEN Refused
                      ELSE [read EXCEPT !.stage = "total", !.table = chooseTable(q, cutoff),
                                        !.scope = ExplorerScope(q, idx)]
                 [] q.kind = "records" ->
                      IF q.to < cutoff \/ \E c \in q.filters : ~Readable(c) THEN Refused
                      ELSE [read EXCEPT !.stage = "records", !.q = Clamped(q, cutoff),
                                        !.scope = ExplorerScope(q, idx)]
                 [] q.kind = "exporters" -> [read EXCEPT !.stage = "exporters", !.scope = AllAddrs]
                 [] OTHER -> IF scope = {} THEN Refused
                             ELSE [read EXCEPT !.stage = "topTotal", !.scope = scope]
  BY Zenon DEF ReadBook
<1>7. CASE ask' = Refused
  BY <1>0, <1>7, EndsFit DEF Refused, Unread
<1>8. \A r \in StoredFlows : \A p : p.kind = q.kind /\ p.devices = q.devices /\ p.sites = q.sites
        /\ p.exporters = q.exporters /\ p.ifIndex = q.ifIndex
        => \A o : Within(o, p, r) <=> Within(o, q, r)
  BY DEF Within, OfDevice, OfSite
<1>9. ASSUME ask'.bookRead = [claims |-> claims, live |-> live], NEW r \in StoredFlows
      PROVE  InScope(r)' <=> Within(OwnersOf(live, claims, r.exporter), q, r)
  <2>1. InScope(r)' <=> Within(OwnersOf(live, claims, r.exporter), question, r)
    BY <1>0, <1>9, InScopeWill
  <2> QED BY <1>1, <1>8, <2>1
<1>10. CASE q.kind = "explore" /\ ask' # Refused
  <2>1. ask' = [read EXCEPT !.stage = "total", !.table = chooseTable(q, cutoff), !.scope = ExplorerScope(q, idx)]
        /\ Compiles(q, cutoff)
    BY <1>6, <1>10
  <2> PICK table : table = chooseTable(q, cutoff)
    OBVIOUS
  <2> PICK sc : sc = ExplorerScope(q, idx)
    OBVIOUS
  <2>2. Began /\ ask'.stage = "total" /\ ask'.table = table /\ ask'.scope = sc /\ ask'.q = q
    BY <1>0, <2>1 DEF Began, AskShape
  <2>3. /\ \A f \in q.groupBy : f \in DOMAIN Fields /\ Fields[f].group
        /\ \A c \in q.filters : c.field \in DOMAIN Fields
        /\ chooseTable(q, cutoff) # "none"
    BY <2>1 DEF Compiles, Readable
  <2>4. table \in {"raw", "rollup"} /\ (table = "raw" => cutoff <= q.from) /\ (table = "rollup" => ~NeedsRaw(q))
    BY <1>5, <2>3, TableIs
  <2>5. ScopeFits'
    <3>1. ASSUME NEW r \in StoredFlows PROVE InScope(r)' <=> r.exporter \in sc
      <4>1. r.exporter \in sc <=> Within(OwnersOf(live, claims, r.exporter), q, r)
        BY <1>0, <1>10, ExplorerScopes DEF Explorer
      <4> QED BY <1>9, <2>2, <4>1 DEF Began
    <3>2. question'.kind \in Explorer
      BY <1>0, <1>1, <1>10 DEF Explorer
    <3> QED BY <2>2, <3>1, <3>2 DEF ScopeFits
  <2>6. Raws' = cutoff
    BY <1>0, <2>2 DEF Raws, Began
  <2>7. table = "rollup" => \A f \in q.groupBy \cup {c.field : c \in q.filters} : f \in DOMAIN Fields => Fields[f].rollup
    BY <2>4 DEF NeedsRaw
  <2>8. SelectFits'
    <3>1. question' = question /\ question.kind = "explore" /\ ask'.from = ask.from
      BY <1>0, <1>1, <1>10, <2>2 DEF Began
    <3> QED BY <1>1, <1>4, <2>2, <2>3, <2>4, <2>5, <2>6, <2>7, <3>1 DEF SelectFits
  <2>9. SameQuestion'
    BY <1>0, <1>1, <2>2 DEF SameQuestion
  <2>10. StageFits'
    BY <1>0, <1>1, <1>10, <2>2 DEF StageFits
  <2> QED BY <1>0, <1>4, <1>5, <2>2, <2>8, <2>9, <2>10, BeganFits
<1>11. CASE q.kind = "records" /\ ask' # Refused
  <2>1. ask' = [read EXCEPT !.stage = "records", !.q = Clamped(q, cutoff), !.scope = ExplorerScope(q, idx)]
        /\ \A c \in q.filters : Readable(c)
    BY <1>6, <1>11
  <2> PICK sc : sc = ExplorerScope(q, idx)
    OBVIOUS
  <2> PICK p : p = Clamped(q, cutoff)
    OBVIOUS
  <2>2. Began /\ ask'.stage = "records" /\ ask'.table = "raw" /\ ask'.scope = sc /\ ask'.q = p
    BY <1>0, <1>3, <2>1 DEF Began, AskShape
  <2>3. \A c \in q.filters : c.field \in DOMAIN Fields
    BY <2>1 DEF Readable
  <2> PICK begin : begin = Max({q.from, cutoff})
    OBVIOUS
  <2>4. p = [q EXCEPT !.from = begin, !.groupBy = {}]
    BY Zenon DEF Clamped
  <2>5. /\ p.kind = q.kind /\ p.filters = q.filters /\ p.devices = q.devices
        /\ p.sites = q.sites /\ p.exporters = q.exporters /\ p.ifIndex = q.ifIndex
        /\ p.metric = q.metric /\ p.limit = q.limit /\ p.step = q.step /\ p.from = begin /\ p.to = q.to
    <3>1. QuestionShape(q)
      BY <1>4 DEF QuestionShape
    <3>2. FromOnly(p, q, begin)
      BY <2>4, <3>1, ClampedIs
    <3> QED BY <3>2 DEF FromOnly
  <2>6. begin \in Int /\ \A t \in Int : begin <= t <=> q.from <= t /\ cutoff <= t
    BY <1>5, MaxOfTwo
  <2>7. ScopeFits'
    <3>1. ASSUME NEW r \in StoredFlows PROVE InScope(r)' <=> r.exporter \in sc
      <4>1. r.exporter \in sc <=> Within(OwnersOf(live, claims, r.exporter), q, r)
        BY <1>0, <1>11, ExplorerScopes DEF Explorer
      <4> QED BY <1>9, <2>2, <4>1 DEF Began
    <3>2. question'.kind \in Explorer
      BY <1>0, <1>1, <1>11 DEF Explorer
    <3> QED BY <2>2, <3>1, <3>2 DEF ScopeFits
  <2>8. Raws' = cutoff
    BY <1>0, <2>2 DEF Raws, Began
  <2>9. SelectFits'
    <3>1. question' = question /\ question.kind = "records" /\ ask'.from = ask.from
      BY <1>0, <1>1, <1>11, <2>2 DEF Began
    <3>2. \A t \in Int : ask'.q.from <= t <=> ask'.from <= t /\ Raws' <= t
      <4>1. ask'.q.from = begin /\ ask'.from = q.from /\ Raws' = cutoff
        BY <1>4, <2>2, <2>5, <2>8, <3>1
      <4> QED BY <2>6, <4>1
    <3> QED BY <1>1, <2>2, <2>3, <2>7, <3>1, <3>2 DEF SelectFits
  <2>10. SameQuestion'
    BY <1>0, <1>1, <2>2, <2>5 DEF SameQuestion
  <2>11. StageFits'
    BY <1>0, <1>1, <1>11, <2>2 DEF StageFits
  <2> QED BY <1>0, <1>4, <2>2, <2>5, <2>6, <2>9, <2>10, <2>11, BeganFits
<1>12. CASE q.kind \notin {"explore", "records"} /\ ask' # Refused
  <2> PICK sc : sc = IF q.kind = "exporters" THEN AllAddrs ELSE scope
    OBVIOUS
  <2> PICK st : st = IF q.kind = "exporters" THEN "exporters" ELSE "topTotal"
    OBVIOUS
  <2>1. ask' = [read EXCEPT !.stage = st, !.scope = sc]
    BY <1>6, <1>12
  <2>2. Began /\ ask'.stage = st /\ ask'.table = "raw" /\ ask'.scope = sc /\ ask'.q = q
    BY <1>0, <1>3, <2>1 DEF Began, AskShape
  <2>3. question.filters = {} /\ question.kind \notin Explorer /\ q.kind \notin Explorer
    BY <1>1, <1>2, <1>12 DEF Kinds, Explorer
  <2>4. ScopeFits'
    <3>1. ASSUME NEW r \in StoredFlows PROVE InScope(r)' <=> r.exporter \in sc /\ q.ifIndex \in {0, r.in_if}
      <4>1. CASE q.kind = "exporters"
        <5>1. q.devices = {} /\ q.sites = {} /\ q.exporters = {}
          BY <1>1, <1>2, <4>1
        <5>2. r.exporter \in sc
          BY <4>1 DEF AllAddrs
        <5>3. Within(OwnersOf(live, claims, r.exporter), q, r) <=> q.ifIndex \in {0, r.in_if}
          BY <2>3, <5>1 DEF Within
        <5> QED BY <1>9, <2>2, <5>2, <5>3 DEF Began
      <4>2. CASE q.kind # "exporters"
        <5>1. sc = resolve(q, Addresses, idx)
          BY <4>2
        <5>2. (r.exporter \in resolve(q, Addresses, idx) /\ q.ifIndex \in {0, r.in_if})
                <=> Within(OwnersOf(live, claims, r.exporter), q, r)
          BY <1>0, <2>3, ResolveScopes
        <5> QED BY <1>9, <2>2, <5>1, <5>2 DEF Began
      <4> QED BY <4>1, <4>2
    <3>2. question' = question
      BY <1>0
    <3> QED BY <1>1, <2>2, <2>3, <3>1, <3>2 DEF ScopeFits
  <2>5. SelectFits'
    <3>1. question' = question /\ ask'.from = ask.from
      BY <1>0, <2>2 DEF Began
    <3> QED BY <1>4, <2>2, <2>3, <2>4, <3>1 DEF SelectFits, Explorer
  <2>6. SameQuestion'
    BY <1>0, <1>1, <2>2 DEF SameQuestion
  <2>7. StageFits'
    BY <1>0, <1>1, <1>2, <1>12, <2>2 DEF StageFits, Kinds
  <2> QED BY <1>0, <1>4, <1>5, <2>2, <2>5, <2>6, <2>7, BeganFits
<1> QED BY <1>7, <1>10, <1>11, <1>12

-----------------------------------------------------------------------------
(* The statements.                                                         *)

Kept ==
  /\ UNCHANGED <<flowNow, landed, raw, hourly, bookVars, question>>
  /\ AskShape'
  /\ ask'.from = ask.from /\ ask'.to = ask.to /\ ask'.asked = ask.asked /\ ask'.had = ask.had
  /\ ask'.table = ask.table /\ ask'.bookRead = ask.bookRead /\ ask'.scope = ask.scope /\ ask'.q = ask.q

LEMMA ReadingHas ==
  ASSUME QueriesFit, Reading
  PROVE  /\ TablesFit /\ BookFits /\ question \in Questions /\ AskShape /\ SameQuestion /\ WindowFits
         /\ SelectFits /\ StageFits /\ ResultsFit
BY DEF QueriesFit, AskFits, Reading

LEMMA KeptHas ==
  ASSUME QueriesFit, Reading, Kept
  PROVE  GoesOn /\ Narrows /\ TablesFit' /\ question' = question /\ SameQuestion' /\ WindowFits' /\ SelectFits'
<1>1. TablesFit /\ SameQuestion /\ WindowFits /\ SelectFits
  BY ReadingHas
<1>2. TablesFit'
  BY <1>1, StoreSame DEF Kept
<1>3. GoesOn
  BY <1>1 DEF Kept, GoesOn, TablesFit
<1>4. Narrows
  BY <1>1, <1>2, <1>3, Onward DEF WindowFits
<1>5. SameQuestion' /\ WindowFits'
  BY <1>1, <1>2, <1>3, WindowStays DEF Kept
<1>6. SelectFits'
  BY <1>1, <1>3, ReadStays DEF Kept
<1> QED BY <1>2, <1>3, <1>4, <1>5, <1>6 DEF Kept

LEMMA KeptFits ==
  ASSUME QueriesFit, Reading, Kept, ask'.stage \notin Unread, ask'.stage # "book", StageFits', ResultsFit'
  PROVE  QueriesFit'
<1>1. TablesFit' /\ question' = question /\ SameQuestion' /\ WindowFits' /\ SelectFits' /\ AskShape'
  BY KeptHas DEF Kept
<1>2. BookFits' /\ question' \in Questions
  BY <1>1, ReadingHas DEF Kept, BookFits, bookVars
<1> QED BY <1>1, <1>2 DEF QueriesFit, AskFits

LEMMA LimitIs ==
  ASSUME QueriesFit, Reading
  PROVE  LimitOf(ask.q) = LimitOf(question) /\ LimitOf(question) \in Nat
<1>1. ask.q.limit = question.limit
  BY ReadingHas DEF SameQuestion
<1>2. question.limit \in Nat /\ DefaultTop \in Nat /\ MaxTop \in Nat
  BY ReadingHas, QueriesAssumption
<1> QED BY <1>1, <1>2 DEF LimitOf

LEMMA GroupsMade ==
  ASSUME Narrows, NEW s, SumsFit(s), NEW D, D \subseteq DOMAIN s, ask'.groups = [k \in D |-> s[k]]
  PROVE  GroupsFit'
<1> SUFFICES ASSUME NEW k \in D
             PROVE  s[k] \in Nat /\ Least(k)' <= s[k] /\ s[k] <= Most(k)'
  BY DEF GroupsFit
<1>1. s[k] \in Nat /\ Least(k) <= s[k] /\ s[k] <= Most(k)
  BY DEF SumsFit
<1>2. /\ Least(k)' <= Least(k) /\ Most(k) <= Most(k)'
      /\ Least(k) \in Nat /\ Least(k)' \in Nat /\ Most(k) \in Nat /\ Most(k)' \in Nat
  BY DEF Narrows
<1> QED BY <1>1, <1>2

\* The groups that lead are listed.
LEMMA GroupsRead ==
  ASSUME TablesFit, WindowFits, Narrows, question' = question, question.kind # "exporters", ~ByTime,
         LimitOf(question) \in Nat, NEW s, SumsFit(s), NEW D \in Leading(s, LimitOf(question)),
         ask'.groups = [k \in D |-> s[k]]
  PROVE  GroupsFit' /\ Listed'
<1>1. /\ D \subseteq DOMAIN s
      /\ \A y \in DOMAIN s \ D : Cardinality(D) = LimitOf(question) /\ \A x \in D : s[x] >= s[y]
  BY LeadingIs DEF SumsFit
<1>2. GroupsFit'
  BY <1>1, GroupsMade
<1>3. Listed'
  <2> SUFFICES ASSUME NEW r \in Must', AnswerKey(r)' \notin D PROVE Ranked(r)'
    BY DEF Listed
  <2>1. r \in Must /\ r \in StoredFlows
    BY DEF Narrows, Must, WindowFits, TablesFit
  <2> PICK a : a = AnswerKey(r)
    OBVIOUS
  <2>2. AnswerKey(r)' = a
    BY <2>1 DEF Narrows
  <2>3. a \in DOMAIN s \ D
    BY <2>1, <2>2 DEF SumsFit
  <2>4. Cardinality(D) = LimitOf(question) /\ \A x \in D : s[x] >= s[a]
    BY <1>1, <2>3
  <2>5. Cardinality(DOMAIN ask'.groups) = LimitOf(question') /\ question'.kind # "exporters"
    BY <2>4
  <2>6. ASSUME NEW k \in DOMAIN ask'.groups PROVE Least(AnswerKey(r))' <= ask'.groups[k]
    <3>1. k \in D /\ ask'.groups[k] = s[k] /\ s[k] >= s[a] /\ s[k] \in Nat /\ s[a] \in Nat
      BY <1>1, <2>3, <2>4 DEF SumsFit
    <3>2. Least(a) <= s[a]
      BY <2>3 DEF SumsFit
    <3>3. Least(a)' <= Least(a) /\ Least(a) \in Nat /\ Least(a)' \in Nat
      BY DEF Narrows
    <3>4. Least(AnswerKey(r))' = Least(a)'
      BY <2>2, LeastWill
    <3> QED BY <3>1, <3>2, <3>3, <3>4
  <2>7. ~(question'.kind = "records" /\ question'.metric # "bytes")
    BY DEF ByTime
  <2> QED BY <2>5, <2>6, <2>7, Zenon DEF Ranked
<1> QED BY <1>2, <1>3

LEMMA ReadTotalFits ==
  ASSUME QueriesFit, ReadTotal
  PROVE  QueriesFit'
<1> PICK m : m = Metric
  OBVIOUS
<1> PICK total : total = Figure(ask.q.metric, Selected)
  OBVIOUS
<1> PICK st : st = IF ask.q.groupBy = {} THEN "buckets" ELSE "groups"
  OBVIOUS
<1>0. /\ ask.stage = "total" /\ ask' = [ask EXCEPT !.total = total, !.stage = st]
      /\ UNCHANGED <<flowNow, landed, raw, hourly, bookVars, question>>
  BY DEF ReadTotal, Reply
<1>1. Reading
  BY <1>0 DEF Reading, Unread
<1>2. /\ TablesFit /\ AskShape /\ SameQuestion /\ WindowFits /\ SelectFits /\ StageFits /\ ResultsFit
      /\ question.kind = "explore"
  BY <1>0, <1>1, ReadingHas DEF StageFits
<1>3. /\ Kept /\ ask'.total = total /\ ask'.stage = st /\ ask'.groups = ask.groups /\ ask'.lines = ask.lines
  BY <1>0, <1>2 DEF Kept, AskShape
<1>4. Narrows /\ question' = question
  BY <1>1, <1>3, KeptHas
<1>5. ask.q.metric = m
  BY <1>2 DEF SameQuestion, Metric, MetricOf
<1>6. Reads(Selected, Must, May, CountedIn, m)
  BY <1>2, ExplorerReads DEF Explorer
<1>7. /\ Amount(Must) <= total /\ total <= Amount(May) /\ total \in Nat
  BY <1>5, <1>6, AllRead
<1>8. TotalFits'
  BY <1>3, <1>4, <1>7 DEF TotalFits, Narrows
<1>9. GroupsFit' /\ LinesFit' /\ DOMAIN ask'.lines = {}
  BY <1>0, <1>2, <1>3, <1>4, GroupsStay, LinesStay DEF ResultsFit
<1>10. ask'.stage \in {"buckets", "groups"} /\ (ask'.stage = "buckets" => question.groupBy = {})
  BY <1>2, <1>3 DEF SelectFits
<1>11. ~AfterTotals' /\ ~AfterGroups'
  BY <1>2, <1>4, <1>10 DEF AfterTotals, AfterGroups, Explored
<1>12. ResultsFit'
  BY <1>8, <1>9, <1>10, <1>11 DEF ResultsFit
<1>13. StageFits'
  BY <1>2, <1>4, <1>10 DEF StageFits
<1> QED BY <1>1, <1>3, <1>10, <1>12, <1>13, KeptFits DEF Unread

LEMMA ExploreKeys ==
  ASSUME TablesFit, SameQuestion, SelectFits, question.kind = "explore", NEW key, key = [e \in Selected |-> KeyOf(ask.q, e)]
  PROVE  KeysAgree(Selected, key)
<1>1. On(key, Selected)
  BY DEF On
<1>2. ASSUME NEW r \in DOMAIN landed, CountedIn[r] \in Selected PROVE key[CountedIn[r]] = AnswerKey(r)
  <2>1. CountedIn[r] = Row(r)
    BY DEF CountedIn
  <2>2. KeyOf(ask.q, Row(r)) = AnswerKey(r)
    BY RowIs
  <2> QED BY <1>2, <2>1, <2>2
<1> QED BY <1>1, <1>2 DEF KeysAgree

LEMMA ReadGroupsFits ==
  ASSUME QueriesFit, ReadGroups
  PROVE  QueriesFit'
<1> PICK m : m = Metric
  OBVIOUS
<1> PICK s : s = GroupSums
  OBVIOUS
<1>0. ask.stage = "groups" /\ UNCHANGED <<flowNow, landed, raw, hourly, bookVars, question>>
  BY DEF ReadGroups, Reply
<1>a. PICK D \in Leading(s, LimitOf(ask.q)) : ask' = [ask EXCEPT !.groups = [k \in D |-> s[k]], !.stage = "buckets"]
  <2>1. \E D \in Leading(s, LimitOf(ask.q)) :
          Reply("groups", [ask EXCEPT !.groups = [k \in D |-> s[k]], !.stage = "buckets"])
    BY Zenon DEF ReadGroups
  <2> QED BY <2>1 DEF Reply
<1>1. Reading
  BY <1>0 DEF Reading, Unread
<1>2. /\ TablesFit /\ AskShape /\ SameQuestion /\ WindowFits /\ SelectFits /\ StageFits /\ ResultsFit
      /\ question.kind = "explore"
  BY <1>0, <1>1, ReadingHas DEF StageFits
<1> PICK groups : groups = [k \in D |-> s[k]]
  OBVIOUS
<1>3. /\ Kept /\ ask'.stage = "buckets" /\ ask'.groups = groups /\ ask'.lines = ask.lines /\ ask'.total = ask.total
  BY <1>0, <1>a, <1>2 DEF Kept, AskShape
<1>4. Narrows /\ question' = question
  BY <1>1, <1>3, KeptHas
<1>5. ask.q.metric = m
  BY <1>2 DEF SameQuestion, Metric, MetricOf
<1>6. Reads(Selected, Must, May, CountedIn, m)
  BY <1>2, ExplorerReads DEF Explorer
<1>7. SumsFit(s)
  <2> PICK key : key = [e \in Selected |-> KeyOf(ask.q, e)]
    OBVIOUS
  <2>1. KeysAgree(Selected, key)
    BY <1>2, ExploreKeys
  <2>2. s = SumsBy(key, m)
    BY <1>5 DEF GroupSums
  <2> QED BY <1>2, <1>6, <2>1, <2>2, SumsRead
<1>8. GroupsFit' /\ Listed'
  <2>1. ~ByTime /\ question.kind # "exporters"
    BY <1>2 DEF ByTime
  <2>2. LimitOf(ask.q) = LimitOf(question) /\ LimitOf(question) \in Nat
    BY <1>1, LimitIs
  <2> QED BY <1>2, <1>3, <1>4, <1>7, <2>1, <2>2, GroupsRead
<1>9. TotalFits' /\ LinesFit' /\ DOMAIN ask'.lines = {}
  <2>1. AfterTotal
    BY <1>0 DEF AfterTotal
  <2> QED BY <1>0, <1>2, <1>3, <1>4, <2>1, TotalStays, LinesStay DEF ResultsFit
<1>10. ~AfterTotals'
  BY <1>3 DEF AfterTotals, Explored
<1>11. ResultsFit'
  BY <1>3, <1>8, <1>9, <1>10 DEF ResultsFit
<1>12. StageFits'
  BY <1>2, <1>3, <1>4 DEF StageFits
<1> QED BY <1>1, <1>3, <1>11, <1>12, KeptFits DEF Unread

LEMMA ReadBucketsFits ==
  ASSUME QueriesFit, ReadBuckets
  PROVE  QueriesFit'
<1> PICK m : m = Metric
  OBVIOUS
<1> PICK bk : bk = [e \in Selected |-> Bucket(e.t)]
  OBVIOUS
<1> PICK totals : totals = SumsBy(bk, ask.q.metric)
  OBVIOUS
<1> PICK st : st = IF ask.groups = <<>> THEN "answered" ELSE "lines"
  OBVIOUS
<1>0. /\ ask.stage = "buckets" /\ ask' = [ask EXCEPT !.totals = totals, !.stage = st]
      /\ UNCHANGED <<flowNow, landed, raw, hourly, bookVars, question>>
  BY DEF ReadBuckets, Reply
<1>1. Reading
  BY <1>0 DEF Reading, Unread
<1>2. /\ TablesFit /\ AskShape /\ SameQuestion /\ WindowFits /\ SelectFits /\ StageFits /\ ResultsFit
      /\ question.kind = "explore"
  BY <1>0, <1>1, ReadingHas DEF StageFits
<1>3. /\ Kept /\ ask'.stage = st /\ ask'.groups = ask.groups /\ ask'.lines = ask.lines /\ ask'.total = ask.total
      /\ ask'.totals = totals
  BY <1>0, <1>2 DEF Kept, AskShape
<1>4. Narrows /\ question' = question /\ GoesOn
  BY <1>1, <1>3, KeptHas
<1>5. ask.q.metric = m
  BY <1>2 DEF SameQuestion, Metric, MetricOf
<1>6. Reads(Selected, Must, May, CountedIn, m)
  BY <1>2, ExplorerReads DEF Explorer
<1>7. /\ Amount(Must) <= Figure(m, Selected) /\ Figure(m, Selected) <= Amount(May) /\ Figure(m, Selected) \in Nat
  BY <1>6, AllRead
<1>8. Summed(totals, Selected, bk, m) /\ IsFiniteSet(DOMAIN totals)
  <2>1. On(bk, Selected) /\ IsFiniteSet(Selected) /\ \A e \in Selected : Val(m, e) \in Nat
    BY <1>6 DEF On, Reads
  <2>2. Summed(totals, Selected, bk, m)
    BY <1>5, <2>1, SumsAre
  <2>3. Selected \subseteq DOMAIN bk
    OBVIOUS
  <2> QED BY <2>1, <2>2, <2>3, ImageFinite DEF Summed, Keys
<1>9. Countable(totals, DOMAIN totals) /\ SumOf(totals) = Figure(m, Selected)
  BY <1>8 DEF Countable, Summed
<1>10. TotalsFit'
  BY <1>3, <1>4, <1>7, <1>9 DEF TotalsFit, Narrows
<1>11. TotalFits' /\ GroupsFit' /\ LinesFit' /\ DOMAIN ask'.lines = {}
  <2>1. AfterTotal
    BY <1>0 DEF AfterTotal
  <2> QED BY <1>0, <1>2, <1>3, <1>4, <2>1, TotalStays, GroupsStay, LinesStay DEF ResultsFit
<1>12. AfterGroups' => Listed'
  <2>1. AfterGroups' => AfterGroups
    BY <1>0, <1>2, <1>4 DEF AfterGroups
  <2> QED BY <1>2, <1>3, <1>4, <2>1, ListedStays DEF ResultsFit
<1>13. ask'.stage \in {"answered", "lines"}
  BY <1>3
<1>14. ResultsFit'
  BY <1>2, <1>4, <1>10, <1>11, <1>12, <1>13 DEF ResultsFit
<1>15. StageFits'
  BY <1>2, <1>4, <1>13 DEF StageFits
<1> QED BY <1>1, <1>3, <1>13, <1>14, <1>15, KeptFits DEF Unread

\* A line is made of parts of its group.
LineRows(k, D, t) == {e \in Selected : /\ KeyOf(ask.q, e) = k
                                       /\ k \in D /\ Bucket(e.t) = t}

LEMMA FigurePart ==
  ASSUME NEW m, NEW F, IsFiniteSet(F), \A e \in F : Val(m, e) \in Nat, NEW I, I \subseteq F
  PROVE  Figure(m, I) = Total(Values(m, F), I) /\ Figure(m, I) \in Nat
<1>1. IsFiniteSet(I) /\ \A e \in I : Val(m, e) \in Nat
  BY FS_Subset
<1>2. Figure(m, I) = Total(Values(m, I), I) /\ Figure(m, I) \in Nat
  BY <1>1, FigureIs
<1>3. \A e \in I : Values(m, I)[e] = Values(m, F)[e]
  BY DEF Values
<1>4. Total(Values(m, I), I) = Total(Values(m, F), I)
  BY <1>3, TotalSame
<1> QED BY <1>2, <1>4

\* A line comes to no more than its group.
LEMMA LineIs ==
  ASSUME NEW m, IsFiniteSet(Selected), \A e \in Selected : Val(m, e) \in Nat, NEW k, NEW D, NEW T, IsFiniteSet(T),
         NEW key, key = [e \in Selected |-> KeyOf(ask.q, e)],
         NEW line, line = [t \in T |-> Figure(m, LineRows(k, D, t))]
  PROVE  SumOf(line) <= Figure(m, OfKey(Selected, key, k)) /\ SumOf(line) \in Nat
<1> PICK F : F = OfKey(Selected, key, k)
  OBVIOUS
<1> PICK bk : bk = [e \in Selected |-> Bucket(e.t)]
  OBVIOUS
<1> PICK v : v = Values(m, F)
  OBVIOUS
<1>0. F \subseteq Selected /\ (\A e \in F : KeyOf(ask.q, e) = k) /\ \A e \in Selected : KeyOf(ask.q, e) = k => e \in F
  BY DEF OfKey
<1>1. IsFiniteSet(F) /\ \A e \in F : Val(m, e) \in Nat
  BY <1>0, FS_Subset
<1>2. Figure(m, F) = Total(v, F) /\ Countable(v, F) /\ Figure(m, F) \in Nat
  BY <1>1, FigureIs
<1>3. ASSUME NEW t \in T PROVE line[t] \in Nat /\ line[t] <= Total(v, Into(bk, F, {t}))
  <2> PICK L : L = LineRows(k, D, t)
    OBVIOUS
  <2> PICK I : I = Into(bk, F, {t})
    OBVIOUS
  <2>1. L \subseteq I /\ I \subseteq F
    BY <1>0 DEF LineRows, Into
  <2>2. IsFiniteSet(I) /\ \A e \in I : Val(m, e) \in Nat
    BY <1>1, <2>1, FS_Subset
  <2>3. Figure(m, L) <= Figure(m, I) /\ Figure(m, L) \in Nat
    BY <2>1, <2>2, FigureMore
  <2>4. Figure(m, I) = Total(v, I) /\ Figure(m, I) \in Nat
    BY <1>1, <2>1, FigurePart
  <2> QED BY <2>3, <2>4
<1>4. DOMAIN line = T /\ Countable(line, T)
  BY <1>3 DEF Countable
<1>5. SumOf(line) = Total(line, T) /\ SumOf(line) \in Nat
  BY <1>4, SumIsTotal
<1>6. Total(line, T) <= Total(v, Into(bk, F, T))
  <2>1. \A t \in T : line[t] <= Total(v, Into(bk, F, {t}))
    BY <1>3
  <2> QED BY <1>2, <1>4, <2>1, Fibers
<1>7. Into(bk, F, T) \subseteq F
  BY DEF Into
<1>8. Total(v, Into(bk, F, T)) <= Total(v, F) /\ Total(v, Into(bk, F, T)) \in Nat
  BY <1>2, <1>7, TotalMore
<1> QED BY <1>2, <1>5, <1>6, <1>8

LEMMA ReadLinesFits ==
  ASSUME QueriesFit, ReadLines
  PROVE  QueriesFit'
<1> PICK m : m = Metric
  OBVIOUS
<1>0. ask.stage = "lines" /\ UNCHANGED <<flowNow, landed, raw, hourly, bookVars, question>>
  BY DEF ReadLines, Reply
<1>c. PICK D \in Leading(GroupSums, LimitOf(ask.q)) :
           Reply("lines",
             [ask EXCEPT !.lines = [k \in DOMAIN ask.groups |-> [t \in DOMAIN ask.totals |->
                                     Figure(ask.q.metric, {e \in Selected : /\ KeyOf(ask.q, e) = k
                                                                            /\ k \in D /\ Bucket(e.t) = t})]],
                         !.stage = "answered"])
  BY Zenon DEF ReadLines
<1>a. ask' = [ask EXCEPT !.lines = [k \in DOMAIN ask.groups |-> [t \in DOMAIN ask.totals |->
                                               Figure(ask.q.metric, LineRows(k, D, t))]],
                                  !.stage = "answered"]
  BY <1>c, Zenon DEF Reply, LineRows
<1> PICK lines : lines = [k \in DOMAIN ask.groups |-> [t \in DOMAIN ask.totals |-> Figure(ask.q.metric, LineRows(k, D, t))]]
  OBVIOUS
<1>b. ask' = [ask EXCEPT !.lines = lines, !.stage = "answered"]
  BY <1>a, Zenon
<1>1. Reading
  BY <1>0 DEF Reading, Unread
<1>2. /\ TablesFit /\ AskShape /\ SameQuestion /\ WindowFits /\ SelectFits /\ StageFits /\ ResultsFit
      /\ question.kind = "explore"
  BY <1>0, <1>1, ReadingHas DEF StageFits
<1>3. /\ Kept /\ ask'.stage = "answered" /\ ask'.groups = ask.groups /\ ask'.lines = lines /\ ask'.total = ask.total
      /\ ask'.totals = ask.totals
  BY <1>0, <1>b, <1>2 DEF Kept, AskShape
<1>4. Narrows /\ question' = question /\ GoesOn
  BY <1>1, <1>3, KeptHas
<1>5. ask.q.metric = m
  BY <1>2 DEF SameQuestion, Metric, MetricOf
<1>6. Reads(Selected, Must, May, CountedIn, m)
  BY <1>2, ExplorerReads DEF Explorer
<1>7. AfterTotal /\ AfterTotals
  BY <1>0 DEF AfterTotal, AfterTotals
<1>8. TotalFits' /\ TotalsFit' /\ GroupsFit'
  BY <1>2, <1>3, <1>4, <1>7, TotalStays, TotalsStay, GroupsStay DEF ResultsFit
<1>9. AfterGroups' => Listed'
  <2>1. AfterGroups' => AfterGroups
    BY <1>0, <1>2, <1>4 DEF AfterGroups
  <2> QED BY <1>2, <1>3, <1>4, <2>1, ListedStays DEF ResultsFit
<1>10. LinesFit'
  <2> SUFFICES ASSUME NEW k \in DOMAIN lines PROVE SumOf(lines[k]) \in Nat /\ SumOf(lines[k]) <= Most(k)'
    BY <1>3 DEF LinesFit
  <2> PICK key : key = [e \in Selected |-> KeyOf(ask.q, e)]
    OBVIOUS
  <2> PICK T : T = DOMAIN ask.totals
    OBVIOUS
  <2> PICK line : line = [t \in T |-> Figure(m, LineRows(k, D, t))]
    OBVIOUS
  <2>1. lines[k] = line
    BY <1>5
  <2>2. KeysAgree(Selected, key)
    BY <1>2, ExploreKeys
  <2>3. Figure(m, OfKey(Selected, key, k)) <= Most(k) /\ Figure(m, OfKey(Selected, key, k)) \in Nat
    BY <1>2, <1>6, <2>2, KeyRead
  <2>4. SumOf(line) <= Figure(m, OfKey(Selected, key, k)) /\ SumOf(line) \in Nat
    <3>1. IsFiniteSet(Selected) /\ \A e \in Selected : Val(m, e) \in Nat
      BY <1>6 DEF Reads
    <3>2. IsFiniteSet(T)
      BY <1>2, <1>7 DEF ResultsFit, TotalsFit, Countable
    <3> QED BY <3>1, <3>2, LineIs
  <2>5. Most(k) <= Most(k)' /\ Most(k) \in Nat /\ Most(k)' \in Nat
    BY <1>4 DEF Narrows
  <2> QED BY <2>1, <2>3, <2>4, <2>5
<1>11. ResultsFit'
  BY <1>2, <1>3, <1>4, <1>8, <1>9, <1>10 DEF ResultsFit
<1>12. StageFits'
  BY <1>2, <1>3, <1>4 DEF StageFits
<1> QED BY <1>1, <1>3, <1>11, <1>12, KeptFits DEF Unread

-----------------------------------------------------------------------------
(* The aggregate endpoints.                                                *)

\* A row of a flow that is read as it came.
LEMMA FlowIs ==
  ASSUME TablesFit, SelectFits, question.kind # "explore", NEW r \in DOMAIN landed
  PROVE  /\ CountedIn[r] = FlowRow(r) /\ FlowRow(r).id = r.id /\ FlowRow(r).exporter = r.exporter
         /\ FlowRow(r).src_port = r.src_port /\ FlowRow(r).t = landed[r]
<1>1. ask.table = "raw"
  BY DEF SelectFits
<1> QED BY <1>1 DEF CountedIn, Row, FlowRow

\* The question, at a statement of an aggregate endpoint.
LEMMA SampleHas ==
  ASSUME QueriesFit, Reading, question.kind \in {"top", "series", "exporters"}
  PROVE  /\ TablesFit /\ AskShape /\ SameQuestion /\ WindowFits /\ SelectFits /\ StageFits /\ ResultsFit
         /\ Metric = "bytes" /\ ~ByTime /\ question.kind # "explore"
         /\ Reads(Windowed, Must, May, CountedIn, "bytes")
<1>1. /\ TablesFit /\ AskShape /\ SameQuestion /\ WindowFits /\ SelectFits /\ StageFits /\ ResultsFit
      /\ question \in Questions
  BY ReadingHas
<1>2. question.filters = {}
  BY <1>1, QueriesAssumption
<1>3. question.kind \notin Explorer
  BY DEF Explorer
<1>4. Reads(Windowed, Must, May, CountedIn, "bytes")
  BY <1>1, <1>2, <1>3, SampleReads
<1>5. Metric = "bytes" /\ ~ByTime /\ question.kind # "explore"
  BY DEF Metric, MetricOf, ByTime
<1> QED BY <1>1, <1>4, <1>5

LEMMA PortKeys ==
  ASSUME TablesFit, SelectFits, question.kind \in {"top", "series"}, NEW E, NEW key, key = [e \in E |-> e.src_port]
  PROVE  KeysAgree(E, key)
<1>1. On(key, E)
  BY DEF On
<1>2. ASSUME NEW r \in DOMAIN landed, CountedIn[r] \in E PROVE key[CountedIn[r]] = AnswerKey(r)
  <2>1. CountedIn[r].src_port = r.src_port
    BY FlowIs
  <2>2. AnswerKey(r) = r.src_port
    BY DEF AnswerKey
  <2> QED BY <1>2, <2>1, <2>2
<1> QED BY <1>1, <1>2 DEF KeysAgree

LEMMA ExporterKeys ==
  ASSUME TablesFit, SelectFits, question.kind = "exporters", NEW E, NEW key, key = [e \in E |-> e.exporter]
  PROVE  KeysAgree(E, key)
<1>1. On(key, E)
  BY DEF On
<1>2. ASSUME NEW r \in DOMAIN landed, CountedIn[r] \in E PROVE key[CountedIn[r]] = AnswerKey(r)
  <2>1. CountedIn[r].exporter = r.exporter
    BY FlowIs
  <2>2. AnswerKey(r) = r.exporter
    BY DEF AnswerKey
  <2> QED BY <1>2, <2>1, <2>2
<1> QED BY <1>1, <1>2 DEF KeysAgree

LEMMA IdKeys ==
  ASSUME TablesFit, SelectFits, question.kind = "records", NEW E, NEW key, key = [e \in E |-> e.id]
  PROVE  KeysAgree(E, key)
<1>1. On(key, E)
  BY DEF On
<1>2. ASSUME NEW r \in DOMAIN landed, CountedIn[r] \in E PROVE key[CountedIn[r]] = AnswerKey(r)
  <2>1. CountedIn[r].id = r.id
    BY FlowIs
  <2>2. AnswerKey(r) = r.id
    BY DEF AnswerKey
  <2> QED BY <1>2, <2>1, <2>2
<1> QED BY <1>1, <1>2 DEF KeysAgree

\* Flows that come to nothing have no bytes.
LEMMA NothingHasNone ==
  ASSUME TablesFit, WindowFits, question.kind # "explore", Amount(Must) = 0, NEW r \in Must
  PROVE  r.bytes = 0
<1> PICK w : w = Worths("bytes")
  OBVIOUS
<1>1. Must \subseteq StoredFlows
  BY DEF Must, WindowFits, TablesFit
<1>2. w[r] = r.bytes /\ r.bytes \in Nat
  BY <1>1, QueriesAssumption DEF Worths
<1>3. Amount(Must) = Total(w, Must)
  BY <1>1, BoundsAre, AmountOfIs DEF MetricOf
<1>4. Total(w, {r}) = w[r]
  BY <1>2, TotalOne
<1>5. Countable(w, Must)
  BY <1>1, WorthsAre
<1>6. {r} \subseteq Must
  OBVIOUS
<1>7. Total(w, {r}) <= Total(w, Must)
  BY <1>5, <1>6, TotalMore
<1> QED BY <1>2, <1>3, <1>4, <1>7

LEMMA ListExportersFits ==
  ASSUME QueriesFit, ListExporters
  PROVE  QueriesFit'
<1> PICK key : key = [e \in Windowed |-> e.exporter]
  OBVIOUS
<1> PICK s : s = SumsBy(key, "bytes")
  OBVIOUS
<1>0. /\ ask.stage = "exporters" /\ ask' = [ask EXCEPT !.groups = s, !.stage = "answered"]
      /\ UNCHANGED <<flowNow, landed, raw, hourly, bookVars, question>>
  BY DEF ListExporters, Reply
<1>1. Reading
  BY <1>0 DEF Reading, Unread
<1>a. question.kind = "exporters"
  BY <1>0, <1>1, ReadingHas DEF StageFits
<1>2. /\ TablesFit /\ AskShape /\ SameQuestion /\ WindowFits /\ SelectFits /\ StageFits /\ ResultsFit
      /\ Metric = "bytes" /\ Reads(Windowed, Must, May, CountedIn, "bytes")
  BY <1>1, <1>a, SampleHas
<1>3. /\ Kept /\ ask'.stage = "answered" /\ ask'.groups = s /\ ask'.lines = ask.lines
  BY <1>0, <1>2 DEF Kept, AskShape
<1>4. Narrows /\ question' = question
  BY <1>1, <1>3, KeptHas
<1>5. KeysAgree(Windowed, key)
  BY <1>2, <1>a, ExporterKeys
<1>6. SumsFit(s)
  BY <1>2, <1>5, SumsRead
<1>7. s = [k \in DOMAIN s |-> s[k]]
  BY DEF SumsBy
<1>8. GroupsFit'
  BY <1>3, <1>4, <1>6, <1>7, GroupsMade
<1>9. Listed'
  <2> SUFFICES ASSUME NEW r \in Must' PROVE AnswerKey(r)' \in DOMAIN s
    BY <1>3 DEF Listed
  <2>1. r \in Must /\ r \in StoredFlows
    BY <1>2, <1>4 DEF Narrows, Must, WindowFits, TablesFit
  <2> QED BY <1>4, <1>6, <2>1 DEF SumsFit, Narrows
<1>10. ~AfterTotal' /\ ~AfterTotals'
  BY <1>3, <1>4, <1>a DEF AfterTotal, AfterTotals, Explored
<1>11. ResultsFit'
  BY <1>3, <1>4, <1>a, <1>8, <1>9, <1>10 DEF ResultsFit
<1>12. StageFits'
  BY <1>3 DEF StageFits
<1> QED BY <1>1, <1>3, <1>11, <1>12, KeptFits DEF Unread

LEMMA QueryFailsFits ==
  ASSUME QueriesFit, QueryFails
  PROVE  QueriesFit'
<1>1. ask'.stage \in Unread /\ UNCHANGED <<flowNow, landed, raw, hourly, bookVars, question>>
  BY DEF QueryFails, Unread
<1> QED BY <1>1, EndsFit

LEMMA TopTotalFits ==
  ASSUME QueriesFit, TopTotal
  PROVE  QueriesFit'
<1> PICK total : total = Figure("bytes", Windowed)
  OBVIOUS
<1> PICK st : st = IF total = 0 THEN "answered" ELSE "topk"
  OBVIOUS
<1>0. /\ ask.stage = "topTotal" /\ ask' = [ask EXCEPT !.total = total, !.stage = st]
      /\ UNCHANGED <<flowNow, landed, raw, hourly, bookVars, question>>
  BY DEF TopTotal, Reply
<1>1. Reading
  BY <1>0 DEF Reading, Unread
<1>a. question.kind \in {"top", "series"}
  BY <1>0, <1>1, ReadingHas DEF StageFits
<1>2. /\ TablesFit /\ AskShape /\ SameQuestion /\ WindowFits /\ SelectFits /\ StageFits /\ ResultsFit
      /\ Metric = "bytes" /\ Reads(Windowed, Must, May, CountedIn, "bytes")
  BY <1>1, <1>a, SampleHas
<1>3. /\ Kept /\ ask'.stage = st /\ ask'.groups = ask.groups /\ ask'.lines = ask.lines
  BY <1>0, <1>2 DEF Kept, AskShape
<1>4. Narrows /\ question' = question
  BY <1>1, <1>3, KeptHas
<1>5. Amount(Must) <= total /\ Amount(Must) \in Nat
  BY <1>2, AllRead
<1>6. ASSUME st = "answered", NEW r \in Must' PROVE Weightless(r)'
  <2>1. Amount(Must) = 0
    BY <1>5, <1>6
  <2>2. r \in Must
    BY <1>4 DEF Narrows
  <2>3. r.bytes = 0
    BY <1>2, <1>a, <2>1, <2>2, NothingHasNone
  <2> QED BY <1>4, <1>a, <2>3 DEF Weightless
<1>7. GroupsFit' /\ DOMAIN ask'.lines = {}
  BY <1>0, <1>2, <1>3, <1>4, GroupsStay DEF ResultsFit
<1>8. AfterGroups' => Listed'
  <2>1. AfterGroups' => st = "answered"
    BY <1>3, <1>4, <1>a DEF AfterGroups
  <2> QED BY <1>6, <2>1 DEF Listed
<1>9. ask'.stage \in {"answered", "topk"}
  BY <1>3
<1>10. ~AfterTotal' /\ ~AfterTotals'
  BY <1>4, <1>9, <1>a DEF AfterTotal, AfterTotals, Explored
<1>11. SeriesDone'
  BY <1>7 DEF SeriesDone
<1>12. ResultsFit'
  BY <1>4, <1>7, <1>8, <1>9, <1>10, <1>11, <1>a DEF ResultsFit
<1>13. StageFits'
  BY <1>4, <1>9, <1>a DEF StageFits
<1> QED BY <1>1, <1>3, <1>9, <1>12, <1>13, KeptFits DEF Unread

\* The samples of a port, with the sums by port.
LEMMA PortsAre ==
  ASSUME NEW key, key = [e \in Windowed |-> e.src_port], NEW v
  PROVE  OfKey(Windowed, key, v) = PortSamples(v)
BY DEF OfKey, PortSamples

LEMMA PortsKept ==
  ASSUME TablesFit, Kept, NEW v
  PROVE  PortSamples(v)' = PortSamples(v)
<1>1. landed' = landed /\ ask'.q = ask.q /\ ask'.scope = ask.scope
  BY DEF Kept
<1> QED BY <1>1, Zenon DEF PortSamples, Windowed, Samples, FlowRow

LEMMA TopKFits ==
  ASSUME QueriesFit, TopK
  PROVE  QueriesFit'
<1> PICK key : key = [e \in Windowed |-> e.src_port]
  OBVIOUS
<1> PICK s : s = SumsBy(key, "bytes")
  OBVIOUS
<1>0. ask.stage = "topk" /\ UNCHANGED <<flowNow, landed, raw, hourly, bookVars, question>>
  BY DEF TopK, Reply
<1>b. PICK D \in Leading(s, LimitOf(ask.q)) : ask' = [ask EXCEPT !.picked = D, !.stage = "detail"]
  BY DEF TopK, Reply
<1>1. Reading
  BY <1>0 DEF Reading, Unread
<1>a. question.kind \in {"top", "series"}
  BY <1>0, <1>1, ReadingHas DEF StageFits
<1>2. /\ TablesFit /\ AskShape /\ SameQuestion /\ WindowFits /\ SelectFits /\ StageFits /\ ResultsFit
      /\ Metric = "bytes" /\ Reads(Windowed, Must, May, CountedIn, "bytes")
  BY <1>1, <1>a, SampleHas
<1>3. /\ Kept /\ ask'.stage = "detail" /\ ask'.groups = ask.groups /\ ask'.lines = ask.lines /\ ask'.picked = D
  BY <1>0, <1>b, <1>2 DEF Kept, AskShape
<1>4. Narrows /\ question' = question
  BY <1>1, <1>3, KeptHas
<1>5. KeysAgree(Windowed, key)
  BY <1>2, <1>a, PortKeys
<1>6. SumsFit(s)
  BY <1>2, <1>5, SumsRead
<1>7. \A v \in DOMAIN s : s[v] = Figure("bytes", PortSamples(v))
  <2>1. IsFiniteSet(Windowed) /\ (\A e \in Windowed : Val("bytes", e) \in Nat) /\ On(key, Windowed)
    BY <1>2, <1>5 DEF Reads, KeysAgree
  <2>2. Summed(SumsBy(key, "bytes"), Windowed, key, "bytes")
    BY <2>1, SumsAre
  <2>3. \A v \in DOMAIN s : s[v] = Figure("bytes", OfKey(Windowed, key, v))
    BY <2>2 DEF Summed
  <2> QED BY <2>3, PortsAre
<1>8. LimitOf(ask.q) = LimitOf(question) /\ LimitOf(question) \in Nat
  BY <1>1, LimitIs
<1>9. /\ D \subseteq DOMAIN s
      /\ \A y \in DOMAIN s \ D : Cardinality(D) = LimitOf(question) /\ \A x \in D : s[x] >= s[y]
  BY <1>6, <1>8, LeadingIs DEF SumsFit
<1>10. PickedFit'
  <2> SUFFICES ASSUME NEW r \in Must', r.src_port \notin D
               PROVE  /\ Cardinality(D) = LimitOf(question)
                      /\ \A v \in D : Least(r.src_port)' <= Figure("bytes", PortSamples(v)')
    BY <1>3, <1>4 DEF PickedFit
  <2> PICK a : a = r.src_port
    OBVIOUS
  <2>1. r \in Must /\ AnswerKey(r) = a
    BY <1>4, <1>a DEF Narrows, AnswerKey
  <2>2. a \in DOMAIN s \ D
    BY <1>6, <2>1 DEF SumsFit
  <2>3. Cardinality(D) = LimitOf(question) /\ \A x \in D : s[x] >= s[a]
    BY <1>9, <2>2
  <2>4. ASSUME NEW v \in D PROVE Least(a)' <= Figure("bytes", PortSamples(v)')
    <3>1. s[v] >= s[a] /\ s[v] \in Nat /\ s[a] \in Nat /\ Least(a) <= s[a]
      BY <1>6, <1>9, <2>2, <2>3 DEF SumsFit
    <3>2. PortSamples(v)' = PortSamples(v)
      BY <1>2, <1>3, PortsKept
    <3>3. Figure("bytes", PortSamples(v)') = s[v]
      BY <1>7, <1>9, <3>2
    <3>4. Least(a)' <= Least(a) /\ Least(a) \in Nat /\ Least(a)' \in Nat
      BY <1>4 DEF Narrows
    <3> QED BY <3>1, <3>3, <3>4
  <2> QED BY <2>3, <2>4
<1>11. GroupsFit' /\ DOMAIN ask'.lines = {}
  BY <1>0, <1>2, <1>3, <1>4, GroupsStay DEF ResultsFit
<1>12. ~AfterGroups' /\ ~AfterTotal' /\ ~AfterTotals'
  BY <1>3, <1>4, <1>a DEF AfterGroups, AfterTotal, AfterTotals, Explored
<1>13. ResultsFit'
  BY <1>3, <1>4, <1>10, <1>11, <1>12, <1>a DEF ResultsFit
<1>14. StageFits'
  BY <1>3, <1>4, <1>a DEF StageFits
<1> QED BY <1>1, <1>3, <1>13, <1>14, KeptFits DEF Unread

LEMMA TopDetailFits ==
  ASSUME QueriesFit, TopDetail
  PROVE  QueriesFit'
<1> PICK key : key = [e \in Windowed |-> e.src_port]
  OBVIOUS
<1> PICK P : P = ask.picked
  OBVIOUS
<1> PICK groups : groups = [v \in P |-> Figure("bytes", PortSamples(v))]
  OBVIOUS
<1> PICK st : st = IF ask.q.kind = "series" THEN "seriesLines" ELSE "answered"
  OBVIOUS
<1>0. /\ ask.stage = "detail" /\ ask' = [ask EXCEPT !.groups = groups, !.stage = st]
      /\ UNCHANGED <<flowNow, landed, raw, hourly, bookVars, question>>
  BY DEF TopDetail, Reply, PortSamples
<1>1. Reading
  BY <1>0 DEF Reading, Unread
<1>a. question.kind \in {"top", "series"}
  BY <1>0, <1>1, ReadingHas DEF StageFits
<1>2. /\ TablesFit /\ AskShape /\ SameQuestion /\ WindowFits /\ SelectFits /\ StageFits /\ ResultsFit
      /\ Metric = "bytes" /\ Reads(Windowed, Must, May, CountedIn, "bytes")
  BY <1>1, <1>a, SampleHas
<1>3. /\ Kept /\ ask'.stage = st /\ ask'.groups = groups /\ ask'.lines = ask.lines /\ PickedFit
  BY <1>0, <1>2 DEF Kept, AskShape, ResultsFit
<1>4. Narrows /\ question' = question
  BY <1>1, <1>3, KeptHas
<1>5. KeysAgree(Windowed, key)
  BY <1>2, <1>a, PortKeys
<1>6. ASSUME NEW v PROVE /\ Least(v) <= Figure("bytes", PortSamples(v)) /\ Figure("bytes", PortSamples(v)) <= Most(v)
                         /\ Figure("bytes", PortSamples(v)) \in Nat
  <2>1. OfKey(Windowed, key, v) = PortSamples(v)
    BY PortsAre
  <2>2. /\ Least(v) <= Figure("bytes", OfKey(Windowed, key, v)) /\ Figure("bytes", OfKey(Windowed, key, v)) <= Most(v)
        /\ Figure("bytes", OfKey(Windowed, key, v)) \in Nat
    BY <1>2, <1>5, KeyRead
  <2> QED BY <2>1, <2>2
<1>7. GroupsFit'
  <2> SUFFICES ASSUME NEW v \in P PROVE groups[v] \in Nat /\ Least(v)' <= groups[v] /\ groups[v] <= Most(v)'
    BY <1>3 DEF GroupsFit
  <2>1. groups[v] \in Nat /\ Least(v) <= groups[v] /\ groups[v] <= Most(v)
    BY <1>6
  <2>2. /\ Least(v)' <= Least(v) /\ Most(v) <= Most(v)'
        /\ Least(v) \in Nat /\ Least(v)' \in Nat /\ Most(v) \in Nat /\ Most(v)' \in Nat
    BY <1>4 DEF Narrows
  <2> QED BY <2>1, <2>2
<1>8. Listed'
  <2> SUFFICES ASSUME NEW r \in Must', AnswerKey(r)' \notin P PROVE Ranked(r)'
    BY <1>3 DEF Listed
  <2> PICK a : a = r.src_port
    OBVIOUS
  <2>1. r \in Must /\ AnswerKey(r)' = a
    BY <1>4, <1>a DEF Narrows, AnswerKey
  <2>2. /\ Cardinality(P) = LimitOf(question)
        /\ \A v \in P : Least(a) <= Figure("bytes", PortSamples(v))
    BY <1>3, <2>1 DEF PickedFit
  <2>3. Cardinality(DOMAIN ask'.groups) = LimitOf(question') /\ question'.kind # "exporters"
    BY <1>3, <1>4, <1>a, <2>2
  <2>4. ASSUME NEW k \in DOMAIN ask'.groups PROVE Least(AnswerKey(r))' <= ask'.groups[k]
    <3>1. ask'.groups[k] = Figure("bytes", PortSamples(k)) /\ k \in P
      BY <1>3
    <3>2. Least(a) <= ask'.groups[k] /\ ask'.groups[k] \in Nat
      BY <1>6, <2>2, <3>1
    <3>3. Least(a)' <= Least(a) /\ Least(a) \in Nat /\ Least(a)' \in Nat
      BY <1>4 DEF Narrows
    <3>4. Least(AnswerKey(r))' = Least(a)'
      BY <2>1, LeastWill
    <3> QED BY <3>2, <3>3, <3>4
  <2>5. ~(question'.kind = "records" /\ question'.metric # "bytes")
    BY <1>4, <1>a
  <2> QED BY <2>3, <2>4, <2>5, Zenon DEF Ranked
<1>9. DOMAIN ask'.lines = {}
  BY <1>0, <1>2, <1>3 DEF ResultsFit
<1>10. SeriesDone'
  BY <1>9 DEF SeriesDone
<1>11. ask'.stage \in {"answered", "seriesLines"} /\ (ask'.stage = "seriesLines" => question.kind = "series")
  BY <1>2, <1>3 DEF SameQuestion
<1>12. ~AfterTotal' /\ ~AfterTotals'
  BY <1>4, <1>11, <1>a DEF AfterTotal, AfterTotals, Explored
<1>13. ResultsFit'
  BY <1>4, <1>7, <1>8, <1>9, <1>10, <1>11, <1>12, <1>a DEF ResultsFit
<1>14. StageFits'
  BY <1>4, <1>11, <1>a DEF StageFits
<1> QED BY <1>1, <1>3, <1>11, <1>13, <1>14, KeptFits DEF Unread

LineSamples(t, v) == {e \in Samples(t, SeriesStep(ask.q)) : e.src_port = v}

LEMMA StepKept ==
  ASSUME Kept, NEW t
  PROVE  /\ Samples(t, SeriesStep(ask.q))' = Samples(t, SeriesStep(ask.q))
         /\ SeriesTimes(ask.q)' = SeriesTimes(ask.q)
<1>1. landed' = landed /\ ask'.q = ask.q /\ ask'.scope = ask.scope
  BY DEF Kept
<1> QED BY <1>1, Zenon DEF Samples, FlowRow

LEMMA SeriesLinesFits ==
  ASSUME QueriesFit, SeriesLines
  PROVE  QueriesFit'
<1> PICK lines : lines = [v \in DOMAIN ask.groups |-> [t \in SeriesTimes(ask.q) |-> Figure("bytes", LineSamples(t, v))]]
  OBVIOUS
<1>b. lines = [v \in DOMAIN ask.groups |-> [t \in SeriesTimes(ask.q) |->
                 Figure("bytes", {e \in Samples(t, SeriesStep(ask.q)) : e.src_port = v})]]
  BY Zenon DEF LineSamples
<1>0. /\ ask.stage = "seriesLines" /\ ask' = [ask EXCEPT !.lines = lines, !.stage = "seriesTotals"]
      /\ UNCHANGED <<flowNow, landed, raw, hourly, bookVars, question>>
  BY <1>b, Zenon DEF SeriesLines, Reply
<1>1. Reading
  BY <1>0 DEF Reading, Unread
<1>a. question.kind = "series"
  BY <1>0, <1>1, ReadingHas DEF StageFits
<1>2. TablesFit /\ AskShape /\ WindowFits /\ ResultsFit
  BY <1>1, ReadingHas
<1>3. Kept /\ ask'.stage = "seriesTotals" /\ ask'.groups = ask.groups /\ ask'.lines = lines
  BY <1>0, <1>2 DEF Kept, AskShape
<1>4. Narrows /\ question' = question /\ GoesOn
  BY <1>1, <1>3, KeptHas
<1>5. GroupsFit' /\ Listed'
  <2>1. AfterGroups
    BY <1>0, <1>a DEF AfterGroups
  <2> QED BY <1>2, <1>3, <1>4, <2>1, GroupsStay, ListedStays DEF ResultsFit
<1>6. SeriesFit'
  <2>1. ASSUME NEW v \in DOMAIN lines, NEW t \in SeriesTimes(ask.q)
        PROVE  lines[v][t] \in Nat /\ lines[v][t] <= Figure("bytes", Samples(t, SeriesStep(ask.q)))
    <3>1. LineSamples(t, v) \subseteq Samples(t, SeriesStep(ask.q))
      BY DEF LineSamples
    <3>2. /\ IsFiniteSet(Samples(t, SeriesStep(ask.q)))
          /\ \A e \in Samples(t, SeriesStep(ask.q)) : Val("bytes", e) \in Nat
      BY <1>2, SamplesAre
    <3>3. lines[v][t] = Figure("bytes", LineSamples(t, v))
      OBVIOUS
    <3> QED BY <3>1, <3>2, <3>3, FigureMore
  <2>2. \A t : Samples(t, SeriesStep(ask.q))' = Samples(t, SeriesStep(ask.q))
    BY <1>3, StepKept
  <2>3. SeriesTimes(ask.q)' = SeriesTimes(ask.q)
    BY <1>3, StepKept
  <2> QED BY <1>3, <2>1, <2>2, <2>3, Zenon DEF SeriesFit
<1>7. ~AfterTotal' /\ ~AfterTotals'
  BY <1>3, <1>4, <1>a DEF AfterTotal, AfterTotals, Explored
<1>8. ResultsFit'
  BY <1>3, <1>4, <1>5, <1>6, <1>7, <1>a DEF ResultsFit
<1>9. StageFits'
  BY <1>3, <1>4, <1>a DEF StageFits
<1> QED BY <1>1, <1>3, <1>8, <1>9, KeptFits DEF Unread

LEMMA SeriesTotalsFits ==
  ASSUME QueriesFit, SeriesTotals
  PROVE  QueriesFit'
<1> PICK totals : totals = [t \in SeriesTimes(ask.q) |-> Figure("bytes", Samples(t, SeriesStep(ask.q)))]
  OBVIOUS
<1>0. /\ ask.stage = "seriesTotals" /\ ask' = [ask EXCEPT !.totals = totals, !.stage = "answered"]
      /\ UNCHANGED <<flowNow, landed, raw, hourly, bookVars, question>>
  BY DEF SeriesTotals, Reply
<1>1. Reading
  BY <1>0 DEF Reading, Unread
<1>a. question.kind = "series"
  BY <1>0, <1>1, ReadingHas DEF StageFits
<1>2. TablesFit /\ AskShape /\ WindowFits /\ ResultsFit
  BY <1>1, ReadingHas
<1>3. Kept /\ ask'.stage = "answered" /\ ask'.groups = ask.groups /\ ask'.lines = ask.lines /\ ask'.totals = totals
  BY <1>0, <1>2 DEF Kept, AskShape
<1>4. Narrows /\ question' = question /\ GoesOn
  BY <1>1, <1>3, KeptHas
<1>5. GroupsFit' /\ Listed'
  <2>1. AfterGroups
    BY <1>0, <1>a DEF AfterGroups
  <2> QED BY <1>2, <1>3, <1>4, <2>1, GroupsStay, ListedStays DEF ResultsFit
<1>6. SeriesDone'
  <2>1. \A v \in DOMAIN ask.lines, t \in SeriesTimes(ask.q) : ask.lines[v][t] <= totals[t]
    BY <1>0, <1>2 DEF ResultsFit, SeriesFit
  <2>2. DOMAIN totals = SeriesTimes(ask.q)
    OBVIOUS
  <2> QED BY <1>3, <2>1, <2>2 DEF SeriesDone
<1>7. ~AfterTotal' /\ ~AfterTotals'
  BY <1>3, <1>4, <1>a DEF AfterTotal, AfterTotals, Explored
<1>8. ResultsFit'
  BY <1>3, <1>4, <1>5, <1>6, <1>7, <1>a DEF ResultsFit
<1>9. StageFits'
  BY <1>3, <1>4, <1>a DEF StageFits
<1> QED BY <1>1, <1>3, <1>8, <1>9, KeptFits DEF Unread

-----------------------------------------------------------------------------
(* Single flows.                                                           *)

\* A row that is selected is a flow that may count, and an id is of one row.
LEMMA RecordIs ==
  ASSUME TablesFit, SelectFits, question.kind = "records", NEW e \in Selected
  PROVE  \E r \in DOMAIN landed : e = FlowRow(r) /\ e.id = r.id /\ e.t = landed[r] /\ r \in StoredFlows
<1>1. Stored = {FlowRow(r) : r \in raw}
  BY DEF Stored, SelectFits
<1>2. PICK r \in raw : e = FlowRow(r)
  BY <1>1 DEF Selected
<1>3. r \in DOMAIN landed /\ r \in StoredFlows
  BY <1>2 DEF TablesFit
<1> QED BY <1>2, <1>3 DEF FlowRow

Newest(i) == (CHOOSE e \in Selected : e.id = i).t

\* The time a record is ranked by is when its flow landed.
LEMMA NewestIs ==
  ASSUME TablesFit, SameQuestion, WindowFits, SelectFits, question.kind = "records", NEW r \in DOMAIN landed, FlowRow(r) \in Selected
  PROVE  Newest(r.id) = landed[r]
<1>1. FlowRow(r).id = r.id /\ FlowRow(r).t = landed[r] /\ r \in StoredFlows
  BY DEF FlowRow, TablesFit
<1> PICK e : e = CHOOSE x \in Selected : x.id = r.id
  OBVIOUS
<1>2. e \in Selected /\ e.id = r.id
  BY <1>1
<1>3. PICK x \in DOMAIN landed : e = FlowRow(x) /\ e.id = x.id /\ e.t = landed[x] /\ x \in StoredFlows
  BY <1>2, RecordIs
<1>4. x = r
  BY <1>1, <1>2, <1>3, QueriesAssumption
<1> QED BY <1>3, <1>4 DEF Newest

\* A row that is selected is of a flow that may count.
LEMMA RecordMay ==
  ASSUME TablesFit, SameQuestion, WindowFits, SelectFits, question.kind = "records", NEW r \in DOMAIN landed, FlowRow(r) \in Selected
  PROVE  r \in May
<1> PICK e : e = FlowRow(r)
  OBVIOUS
<1>0. Reads(Selected, Must, May, CountedIn, "flows")
  BY ExplorerReads DEF Explorer
<1>1. Val("flows", e) <= Total(Worths("flows"), Into(CountedIn, May, {e}))
  BY <1>0 DEF Reads
<1>2. e.flows = 1 /\ e.id = r.id /\ r \in StoredFlows
  BY DEF FlowRow, TablesFit
<1>3. Into(CountedIn, May, {e}) # {}
  <2> SUFFICES ASSUME Into(CountedIn, May, {e}) = {} PROVE FALSE
    OBVIOUS
  <2>1. Total(Worths("flows"), Into(CountedIn, May, {e})) = 0
    BY TotalNone
  <2> QED BY <1>1, <1>2, <2>1 DEF Val
<1>4. PICK x \in May : CountedIn[x] = e
  BY <1>3 DEF Into
<1>5. x \in DOMAIN landed /\ x \in StoredFlows
  BY DEF May, TablesFit
<1>6. CountedIn[x].id = x.id
  BY <1>5, FlowIs
<1>7. \A y \in StoredFlows : y.id = r.id => y = r
  BY <1>2, QueriesAssumption
<1> QED BY <1>2, <1>4, <1>5, <1>6, <1>7

LEMMA ReadRecordsFits ==
  ASSUME QueriesFit, ReadRecords
  PROVE  QueriesFit'
<1> PICK key : key = [e \in Selected |-> e.id]
  OBVIOUS
<1> PICK s : s = SumsBy(key, "bytes")
  OBVIOUS
<1> PICK worth : worth = IF ask.q.metric = "bytes" THEN s ELSE [i \in DOMAIN s |-> Newest(i)]
  OBVIOUS
<1>0. ask.stage = "records" /\ UNCHANGED <<flowNow, landed, raw, hourly, bookVars, question>>
  BY DEF ReadRecords, Reply
<1>c. SumsBy([e \in Selected |-> e.id], "bytes") = s
  OBVIOUS
<1>d. \E D \in Leading(IF ask.q.metric = "bytes" THEN SumsBy([e \in Selected |-> e.id], "bytes")
                       ELSE [i \in DOMAIN SumsBy([e \in Selected |-> e.id], "bytes") |->
                               (CHOOSE e \in Selected : e.id = i).t], LimitOf(ask.q)) :
        Reply("records", [ask EXCEPT !.groups = [i \in D |-> SumsBy([e \in Selected |-> e.id], "bytes")[i]],
                                     !.stage = "answered"])
  BY Zenon DEF ReadRecords
<1>e. worth = IF ask.q.metric = "bytes" THEN s ELSE [i \in DOMAIN s |-> (CHOOSE e \in Selected : e.id = i).t]
  BY Zenon DEF Newest
<1>f. \E D \in Leading(worth, LimitOf(ask.q)) :
        Reply("records", [ask EXCEPT !.groups = [i \in D |-> s[i]], !.stage = "answered"])
  BY <1>c, <1>d, <1>e, Zenon
<1>b. PICK D \in Leading(worth, LimitOf(ask.q)) : ask' = [ask EXCEPT !.groups = [i \in D |-> s[i]], !.stage = "answered"]
  BY <1>f DEF Reply
<1>1. Reading
  BY <1>0 DEF Reading, Unread
<1>2. /\ TablesFit /\ AskShape /\ SameQuestion /\ WindowFits /\ SelectFits /\ StageFits /\ ResultsFit
      /\ question.kind = "records"
  BY <1>0, <1>1, ReadingHas DEF StageFits
<1> PICK groups : groups = [i \in D |-> s[i]]
  OBVIOUS
<1>3. /\ Kept /\ ask'.stage = "answered" /\ ask'.groups = groups /\ ask'.lines = ask.lines
  BY <1>0, <1>b, <1>2 DEF Kept, AskShape
<1>4. Narrows /\ question' = question /\ landed' = landed
  BY <1>1, <1>3, KeptHas DEF Kept
<1>5. Metric = "bytes" /\ ask.q.metric = question.metric
  BY <1>2 DEF SameQuestion, Metric, MetricOf
<1>6. Reads(Selected, Must, May, CountedIn, "bytes")
  BY <1>2, ExplorerReads DEF Explorer
<1>7. KeysAgree(Selected, key)
  BY <1>2, IdKeys
<1>8. SumsFit(s)
  BY <1>2, <1>5, <1>6, <1>7, SumsRead
<1>9. LimitOf(ask.q) = LimitOf(question) /\ LimitOf(question) \in Nat
  BY <1>1, LimitIs
<1>10. GroupsFit' /\ Listed'
  <2>1. CASE ~ByTime
    <3>1. worth = s
      BY <1>2, <1>5, <2>1 DEF ByTime
    <3>2. D \in Leading(s, LimitOf(question))
      BY <1>9, <3>1
    <3> QED BY <1>2, <1>3, <1>4, <1>8, <1>9, <2>1, <3>2, GroupsRead
  <2>2. CASE ByTime
    <3>1. worth = [i \in DOMAIN s |-> Newest(i)]
      BY <1>5, <2>2 DEF ByTime
    <3>2. DOMAIN worth = DOMAIN s /\ (\A i \in DOMAIN s : worth[i] = Newest(i)) /\ IsFiniteSet(DOMAIN worth)
      BY <1>8, <3>1 DEF SumsFit
    <3>3. /\ D \subseteq DOMAIN s
          /\ \A y \in DOMAIN s \ D : Cardinality(D) = LimitOf(question) /\ \A x \in D : worth[x] >= worth[y]
      BY <1>9, <3>2, LeadingIs
    <3>4. GroupsFit'
      BY <1>3, <1>4, <1>8, <3>3, GroupsMade
    <3>5. DOMAIN s = {key[e] : e \in Selected}
      <4>1. IsFiniteSet(Selected) /\ (\A e \in Selected : Val("bytes", e) \in Nat) /\ On(key, Selected)
        BY <1>6, <1>7 DEF Reads, KeysAgree
      <4>2. Summed(SumsBy(key, "bytes"), Selected, key, "bytes")
        BY <4>1, SumsAre
      <4> QED BY <4>2 DEF Summed, Keys
    <3>6. ASSUME NEW k \in D PROVE \E x \in May : x.id = k /\ landed[x] = worth[k]
      <4>1. PICK e \in Selected : e.id = k
        BY <3>3, <3>5
      <4>2. PICK x \in DOMAIN landed : e = FlowRow(x) /\ e.id = x.id /\ e.t = landed[x] /\ x \in StoredFlows
        BY <1>2, RecordIs
      <4>3. Newest(x.id) = landed[x] /\ x \in May
        BY <1>2, <4>2, NewestIs, RecordMay
      <4> QED BY <3>2, <3>3, <4>1, <4>2, <4>3
    <3>7. Listed'
      <4> SUFFICES ASSUME NEW r \in Must', AnswerKey(r)' \notin D PROVE Ranked(r)'
        BY <1>3 DEF Listed
      <4>1. r \in Must /\ AnswerKey(r)' = r.id /\ AnswerKey(r) = r.id /\ r \in DOMAIN landed
        BY <1>2, <1>4 DEF Narrows, AnswerKey, Must, WindowFits
      <4>2. r.id \in DOMAIN s \ D
        BY <1>8, <4>1 DEF SumsFit
      <4>3. Cardinality(D) = LimitOf(question) /\ \A x \in D : worth[x] >= worth[r.id]
        BY <3>3, <4>2
      <4>4. worth[r.id] = landed[r]
        <5>1. CountedIn[r] \in Selected
          BY <1>6, <4>1 DEF Reads
        <5>2. FlowRow(r) \in Selected
          BY <1>2, <4>1, <5>1, FlowIs
        <5> QED BY <1>2, <3>2, <4>1, <4>2, <5>2, NewestIs
      <4>5. Cardinality(DOMAIN ask'.groups) = LimitOf(question') /\ question'.kind # "exporters"
        BY <1>2, <1>3, <1>4, <4>3
      <4>6. ASSUME NEW k \in DOMAIN ask'.groups PROVE \E x \in May' : x.id = k /\ landed'[x] >= landed'[r]
        <5>1. k \in D
          BY <1>3
        <5>2. PICK x \in May : x.id = k /\ landed[x] = worth[k]
          BY <3>6, <5>1
        <5> QED BY <1>4, <4>3, <4>4, <5>1, <5>2 DEF Narrows
      <4>7. question'.kind = "records" /\ question'.metric # "bytes"
        BY <1>4, <2>2 DEF ByTime
      <4> QED BY <4>5, <4>6, <4>7, Zenon DEF Ranked
    <3> QED BY <3>4, <3>7
  <2> QED BY <2>1, <2>2
<1>11. DOMAIN ask'.lines = {}
  BY <1>0, <1>2, <1>3 DEF ResultsFit
<1>12. ~AfterTotal' /\ ~AfterTotals'
  BY <1>2, <1>3, <1>4 DEF AfterTotal, AfterTotals, Explored
<1>13. ResultsFit'
  BY <1>2, <1>3, <1>4, <1>10, <1>11, <1>12 DEF ResultsFit
<1>14. StageFits'
  BY <1>3 DEF StageFits
<1> QED BY <1>1, <1>3, <1>13, <1>14, KeptFits DEF Unread

\* Every step keeps the invariant.
LEMMA QueriesStep ==
  ASSUME QueriesFit, [QueriesNext]_queryVars
  PROVE  QueriesFit'
<1>1. CASE UNCHANGED queryVars
  <2>1. UNCHANGED <<flowNow, landed, raw, hourly, bookVars, question, ask>> /\ live' = live
    BY <1>1 DEF queryVars, bookVars
  <2>2. TablesFit /\ BookFits /\ flowNow \in Nat
    BY DEF QueriesFit, TablesFit
  <2>3. TablesFit' /\ BookFits' /\ GoesOn
    BY <2>1, <2>2, StoreSame DEF BookFits, GoesOn
  <2> QED BY <2>1, <2>3, AroundFits
<1>2. CASE \E r \in StoredFlows, at \in 0..MaxFlowTime : FlowLands(r, at)
  BY <1>2, LandsFits
<1>3. CASE \E r \in raw : RawExpires(r)
  BY <1>3, RawExpiresFits
<1>4. CASE \E k \in DOMAIN hourly : RollupExpires(k)
  BY <1>4, RollupExpiresFits
<1>5. CASE QueryTimePasses
  BY <1>5, TimeFits
<1>6. CASE \E d \in BookDevices : BookChanges(d)
  BY <1>6, BookFitsNext
<1>7. CASE Ask \/ ReadBook
  BY <1>7, AskStepFits, ReadBookFits
<1>8. CASE ReadTotal \/ ReadGroups \/ ReadBuckets \/ ReadLines
  BY <1>8, ReadTotalFits, ReadGroupsFits, ReadBucketsFits, ReadLinesFits
<1>9. CASE ReadRecords
  BY <1>9, ReadRecordsFits
<1>10. CASE TopTotal \/ TopK \/ TopDetail
  BY <1>10, TopTotalFits, TopKFits, TopDetailFits
<1>11. CASE SeriesLines \/ SeriesTotals
  BY <1>11, SeriesLinesFits, SeriesTotalsFits
<1>12. CASE ListExporters \/ QueryFails
  BY <1>12, ListExportersFits, QueryFailsFits
<1> QED
  BY <1>1, <1>2, <1>3, <1>4, <1>5, <1>6, <1>7, <1>8, <1>9, <1>10, <1>11, <1>12 DEF QueriesNext

\* Whatever the store and the book hold, and whatever lands, expires or changes
\* owner between the statements of a question, its answer counts every flow
\* that was stored and in retention when it was asked and none that was not
\* asked for, from the raw table, the rollup or the samples (chooseTable,
\* resolve, Explore, Records, Service.top).
THEOREM AnswersWhole == QueriesSpec => []AnswersAreWhole
<1>1. QueriesInit => QueriesFit
  BY QueriesInitFits
<1>2. QueriesFit /\ [QueriesNext]_queryVars => QueriesFit'
  BY QueriesStep
<1>3. QueriesFit => AnswersAreWhole
  BY FitsAreWhole
<1> QED BY <1>1, <1>2, <1>3, PTL DEF QueriesSpec
=============================================================================
