---------------------------- MODULE DataPathProofs ---------------------------
(***************************************************************************)
(* The mappings and the data pages of DataPath, proved for every size of   *)
(* the DATA partition, of its pages, of the table and of the write buffer: *)
(* a pte names a value whose oob names that pte, the valid grains are      *)
(* those of the values there are, the counters of valid grains are exact   *)
(* and the reserve is erased, through every flush and every GC that        *)
(* collects no entry of the flush that started it.                         *)
(***************************************************************************)
EXTENDS DataPath, FiniteSetTheorems, SequenceTheorems, WellFoundedInduction, TLAPS

\* The values on flash: those a pte names, and those at the addresses P, which have none.
MappedPgas(d) == { d.table[l] : l \in Lpas } \ {NoPga}

Addresses(d, P) == MappedPgas(d) \cup P

\* Every value has a length, stays on its page and shares no grain; the grains of the
\* values are the valid ones, and a valid grain with a length in its oob starts a value.
ValuesApart(d, P) ==
    /\ \A h \in Addresses(d, P) : d.oob[h].len > 0 /\ h[3] + d.oob[h].len <= UnitsPerPage
    /\ \A h, k \in Addresses(d, P) : h # k => ItemAt(d, h) \cap ItemAt(d, k) = {}
    /\ d.valid = UNION { ItemAt(d, h) : h \in Addresses(d, P) }
    /\ \A g \in d.valid : d.oob[g].len > 0 => g \in Addresses(d, P)

\* The oob of a mapped value names the pte it belongs to.
OobNames(d, P) ==
    \A l \in Lpas : d.table[l] # NoPga => d.oob[d.table[l]].lpa = l /\ d.table[l] \notin P

\* A page that was not handed out since its superblock was erased holds nothing.
FreshPages(d) ==
    \A g \in Grains : g[2] >= d.b.wp[g[1]] => g \notin d.valid /\ d.oob[g].len = 0

ReserveErased(d) == /\ d.b.wp[d.reserve] = 0 /\ d.b.rsv = d.reserve
                    /\ d.active # d.reserve

ValidIn(d, i) == { g \in d.valid : g[1] = i }

Counted(d) == \A i \in Sblks : d.b.vcnt[i] = Cardinality(ValidIn(d, i))

\* The fields of the record that the data pages are.
IsPartition(b) == b = [wp |-> b.wp, vcnt |-> b.vcnt, rsv |-> b.rsv,
                       active |-> b.active, free |-> b.free]

IsData(d) == d = [b |-> d.b, valid |-> d.valid, oob |-> d.oob, dev |-> d.dev,
                  table |-> d.table, active |-> d.active, reserve |-> d.reserve,
                  refused |-> d.refused, misuse |-> d.misuse, aborted |-> d.aborted]

Oob == [lpa : Lpas, len : 0 .. UnitsPerPage]

DataTypes(d) ==
    /\ IsData(d) /\ IsPartition(d.b)
    /\ d.b.wp \in [Sblks -> 0 .. PagesPerSblk] /\ d.b.vcnt \in [Sblks -> Nat]
    /\ d.b.active \in Sblks \cup {NoSblk}
    /\ d.valid \subseteq Grains /\ d.oob \in [Grains -> Oob]
    /\ d.table \in [Lpas -> Grains \cup {NoPga}]
    /\ d.active \in Sblks \cup {NoSblk} /\ d.reserve \in Sblks
    /\ d.aborted \in BOOLEAN

DataSound(d, P) ==
    /\ DataTypes(d) /\ P \subseteq Grains
    /\ ValuesApart(d, P) /\ OobNames(d, P) /\ FreshPages(d)
    /\ ReserveErased(d) /\ Counted(d)

\* The addresses of the entries of the flush that no pte has yet, each of its own length.
PlacedIn(en) == { e \in Entries : en[e].at = "placed" }

PgasIn(en) == { en[e].pga : e \in PlacedIn(en) }

EntriesSound(en) ==
    /\ en \in [Entries -> [at : Stages, len : 1 .. UnitsPerPage, pga : Grains \cup {NoPga}]]
    /\ \A e \in PlacedIn(en) : en[e].pga # NoPga
    /\ \A e, f \in PlacedIn(en) : en[e].pga = en[f].pga => e = f

\* The invariant.  Once the program has aborted nothing happens any more.
DataInv ==
    early = {} => /\ GcReady
                  /\ ~data.aborted => DataSound(data, PgasIn(entry)) /\ EntriesSound(entry)

-----------------------------------------------------------------------------
(***************************************************************************)
(* Facts about the constants, numbers and finite sets.                     *)
(***************************************************************************)
\* The constants, as the proofs use them.
LEMMA Geometry ==
    /\ PagesPerSblk \in Nat /\ PagesPerSblk > 0 /\ UnitsPerPage \in Nat /\ UnitsPerPage > 0
    /\ Sblks \subseteq Nat /\ NoSblk \notin Sblks /\ SSblk \in Sblks
    /\ IsFiniteSet(Sblks) /\ IsFiniteSet(Lpas) /\ IsFiniteSet(Entries) /\ IsFiniteSet(Grains)
    /\ 0 \in Lpas /\ NoPga \notin Grains
<1>1. /\ SSblk \in Nat /\ ESblk \in Nat /\ ESblk >= SSblk + 2
      /\ PagesPerSblk \in Nat \ {0} /\ UnitsPerPage \in Nat \ {0}
  BY BlockMgrAssumption
<1>2. NrLpas \in Nat \ {0} /\ NrEntries \in Nat \ {0}
  BY DataPagesAssumption, DataPathAssumption
<1>3. Sblks \subseteq Nat /\ NoSblk \notin Sblks /\ SSblk \in Sblks /\ 0 \in Lpas
  BY <1>1, <1>2 DEF Sblks, NoSblk, Lpas
<1>4. IsFiniteSet(Sblks) /\ IsFiniteSet(Lpas) /\ IsFiniteSet(Entries)
  BY <1>1, <1>2, FS_Interval DEF Sblks, Lpas, Entries
<1>5. IsFiniteSet(Grains)
  <2> DEFINE Units == 0 .. UnitsPerPage - 1
             Nested == (Sblks \X Offsets) \X Units
             flat == [x \in Nested |-> <<x[1][1], x[1][2], x[2]>>]
  <2>1. IsFiniteSet(Offsets) /\ IsFiniteSet(Units)
    BY <1>1, FS_Interval DEF Offsets
  <2>2. IsFiniteSet(Sblks \X Offsets)
    BY <1>4, <2>1, FS_Product
  <2>3. IsFiniteSet(Nested)
    BY <2>1, <2>2, FS_Product
  <2>4. \A g \in Grains : \E x \in Nested : flat[x] = g
    <3> SUFFICES ASSUME NEW g \in Grains PROVE \E x \in Nested : flat[x] = g
      OBVIOUS
    <3>1. <<<<g[1], g[2]>>, g[3]>> \in Nested /\ g = <<g[1], g[2], g[3]>>
      BY DEF Grains
    <3>2. flat[<<<<g[1], g[2]>>, g[3]>>] = <<g[1], g[2], g[3]>>
      BY <3>1
    <3> QED BY <3>1, <3>2
  <2>5. \A x \in Nested : flat[x] \in Grains
    BY DEF Grains
  <2>6. flat \in Surjection(Nested, Grains)
    BY <2>4, <2>5 DEF Surjection
  <2> QED BY <2>3, <2>6, FS_Surjection
<1>6. NoPga \notin Grains
  BY <1>3 DEF NoPga, Grains
<1>7. PagesPerSblk \in Nat /\ PagesPerSblk > 0 /\ UnitsPerPage \in Nat /\ UnitsPerPage > 0
  BY <1>1
<1> QED BY <1>3, <1>4, <1>5, <1>6, <1>7

\* Every non-empty set of naturals has a least element.
LEMMA NatHasMin ==
    ASSUME NEW T \in SUBSET Nat, T # {} PROVE \E x \in T : \A y \in T : x <= y
<1>1. PICK x \in T : \A y \in T : ~(<<y, x>> \in OpToRel(<, Nat))
  BY NatLessThanWellFounded, WFMin
<1>2. \A y \in T : ~(y < x)
  BY <1>1 DEF OpToRel
<1> QED BY <1>2

\* A bounded one has a greatest element.
LEMMA BoundedHasMax ==
    ASSUME NEW T \in SUBSET Nat, T # {}, NEW b \in Nat, \A x \in T : x <= b
    PROVE  \E x \in T : \A y \in T : y <= x
<1> DEFINE D == { b - x : x \in T }
<1>1. D \in SUBSET Nat /\ D # {}
  <2>1. \A x \in T : b - x \in Nat
    OBVIOUS
  <2> QED BY <2>1
<1>2. PICK m \in D : \A y \in D : m <= y
  BY <1>1, NatHasMin
<1>3. PICK x \in T : m = b - x
  OBVIOUS
<1>4. \A y \in T : b - x <= b - y
  BY <1>2, <1>3
<1> QED BY <1>4

\* Min of a non-empty set of naturals is one of them.
LEMMA MinOfNats ==
    ASSUME NEW T \in SUBSET Nat, T # {} PROVE Min(T) \in T
BY NatHasMin DEF Min

\* Max of a non-empty bounded set of naturals is one of them, and no other is greater.
LEMMA MaxOfBounded ==
    ASSUME NEW T \in SUBSET Nat, T # {}, NEW b \in Nat, \A x \in T : x <= b
    PROVE  Max(T) \in T /\ \A y \in T : y <= Max(T)
<1>1. PICK x \in T : \A y \in T : x >= y
  BY BoundedHasMax
<1> QED BY <1>1 DEF Max

\* How many elements of S come before x.
Rank(S, R, x) == Cardinality({ y \in S : <<y, x>> \in R })

\* The elements of a finite set counted off along a strict total order.
LEMMA CountedOff ==
    ASSUME NEW S, IsFiniteSet(S), NEW R,
           \A x, y \in S : x # y => <<x, y>> \in R \/ <<y, x>> \in R,
           \A x, y, z \in S : <<x, y>> \in R /\ <<y, z>> \in R => <<x, z>> \in R,
           \A x \in S : <<x, x>> \notin R
    PROVE  /\ Cardinality(S) \in Nat
           /\ \A i \in 1 .. Cardinality(S) : \E x \in S : Rank(S, R, x) = i - 1
           /\ \A x \in S : /\ Rank(S, R, x) + 1 \in 1 .. Cardinality(S)
                           /\ (Rank(S, R, x) + 1) - 1 = Rank(S, R, x)
           /\ \A x, y \in S : Rank(S, R, x) = Rank(S, R, y) => x = y
<1> DEFINE N == Cardinality(S)
           rank == [x \in S |-> Rank(S, R, x)]
           Below(x) == { y \in S : <<y, x>> \in R }
<1>1. N \in Nat
  BY FS_CardinalityType
<1>0. \A x \in S : rank[x] = Cardinality(Below(x))
  BY DEF Rank
<1>2. ASSUME NEW x \in S
      PROVE  /\ IsFiniteSet(Below(x)) /\ rank[x] \in Nat /\ x \notin Below(x)
             /\ IsFiniteSet(Below(x) \cup {x})
             /\ Cardinality(Below(x) \cup {x}) = rank[x] + 1
  <2>1. IsFiniteSet(Below(x)) /\ x \notin Below(x)
    BY FS_Subset
  <2>2. Cardinality(Below(x)) \in Nat
    BY <2>1, FS_CardinalityType
  <2>3. /\ IsFiniteSet(Below(x) \cup {x})
        /\ Cardinality(Below(x) \cup {x}) = Cardinality(Below(x)) + 1
    BY <2>1, FS_AddElement
  <2> QED BY <1>0, <2>1, <2>2, <2>3
<1>3. ASSUME NEW x \in S PROVE rank[x] \in 0 .. N - 1
  <2>1. Below(x) \cup {x} \in SUBSET S
    OBVIOUS
  <2>2. Cardinality(Below(x) \cup {x}) <= Cardinality(S)
    BY <2>1, FS_Subset
  <2>3. rank[x] \in Nat /\ Cardinality(Below(x) \cup {x}) = rank[x] + 1
    BY <1>2
  <2> QED BY <1>1, <2>2, <2>3
<1>4. ASSUME NEW x \in S, NEW y \in S, <<x, y>> \in R PROVE rank[x] # rank[y]
  <2>1. Below(x) \cup {x} \in SUBSET Below(y)
    BY <1>4
  <2>2. IsFiniteSet(Below(y))
    BY <1>2
  <2>3. Cardinality(Below(x) \cup {x}) <= Cardinality(Below(y))
    BY <2>1, <2>2, FS_Subset
  <2>4. rank[x] + 1 <= rank[y]
    BY <1>0, <1>2, <2>3
  <2>5. rank[x] \in Nat /\ rank[y] \in Nat
    BY <1>2
  <2> QED BY <2>4, <2>5
<1>5. \A x, y \in S : rank[x] = rank[y] => x = y
  BY <1>4
<1>6. rank \in Surjection(S, 0 .. N - 1)
  <2>1. rank \in Injection(S, 0 .. N - 1)
    BY <1>3, <1>5 DEF Injection, IsInjective
  <2>2. IsFiniteSet(0 .. N - 1) /\ Cardinality(0 .. N - 1) = N
    <3>1. PICK n \in Nat : n = N
      BY <1>1
    <3>2. IsFiniteSet(0 .. n - 1) /\ Cardinality(0 .. n - 1) = n
      BY FS_Interval
    <3> QED BY <3>1, <3>2
  <2> QED BY <2>1, <2>2, FS_Injection
<1>7. \A i \in 1 .. N : \E x \in S : rank[x] = i - 1
  <2> SUFFICES ASSUME NEW i \in 1 .. N PROVE \E x \in S : rank[x] = i - 1
    OBVIOUS
  <2>1. i - 1 \in 0 .. N - 1
    BY <1>1
  <2> QED BY <1>6, <2>1 DEF Surjection
<1>8. \A x \in S : rank[x] + 1 \in 1 .. N /\ (rank[x] + 1) - 1 = rank[x]
  BY <1>1, <1>3
<1>9. \A x \in S : rank[x] = Rank(S, R, x)
  OBVIOUS
<1> HIDE DEF rank
<1> QED BY <1>1, <1>5, <1>7, <1>8, <1>9

-----------------------------------------------------------------------------
(***************************************************************************)
(* Packing.                                                                *)
(***************************************************************************)
\* The loop's states, one after the other.
LEMMA PackLoop ==
    ASSUME NEW items, Len(items) \in Nat
    PROVE  \E f : /\ Pk!Pack(items) = f[2 * Len(items)].placed
                  /\ f[0] = Pk!PackStart(items)
                  /\ \A n \in 1 .. 2 * Len(items) : f[n] = Pk!PackStep(f[n - 1])
<1> DEFINE N == 2 * Len(items)
           Runs(f, n) == /\ f[0] = Pk!PackStart(items)
                         /\ \A k \in 1 .. n : f[k] = Pk!PackStep(f[k - 1])
           Loop(f) == f = [n \in 0 .. N |-> IF n = 0 THEN Pk!PackStart(items)
                                            ELSE Pk!PackStep(f[n - 1])]
           Bad == { n \in 0 .. N : ~\E f : Runs(f, n) }
<1>1. N \in Nat
  OBVIOUS
<1>2. Bad = {}
  <2> SUFFICES ASSUME Bad # {} PROVE FALSE
    OBVIOUS
  <2>1. Bad \in SUBSET Nat
    OBVIOUS
  <2>2. PICK m \in Bad : \A y \in Bad : m <= y
    BY <2>1, NatHasMin
  <2>3. m \in 0 .. N /\ m \in Int
    OBVIOUS
  <2>4. CASE m = 0
    <3> DEFINE g == [k \in {0} |-> Pk!PackStart(items)]
    <3>1. Runs(g, 0)
      OBVIOUS
    <3> QED BY <2>4, <3>1
  <2>5. CASE m # 0
    <3>a. \A y \in Bad : m <= y
      BY <2>2
    <3>b. m - 1 \in 0 .. N /\ ~(m <= m - 1)
      BY <2>3, <2>5
    <3>c. m - 1 \notin Bad
      <4> HIDE DEF Bad
      <4> QED BY <3>a, <3>b
    <3>1. m - 1 \in 0 .. N /\ m - 1 \notin Bad
      BY <3>b, <3>c
    <3>2. PICK f : Runs(f, m - 1)
      BY <3>1
    <3> DEFINE g == [k \in 0 .. m |-> IF k = m THEN Pk!PackStep(f[m - 1]) ELSE f[k]]
    <3>3. g[0] = Pk!PackStart(items)
      BY <2>3, <2>5, <3>2
    <3>4. ASSUME NEW k \in 1 .. m PROVE g[k] = Pk!PackStep(g[k - 1])
      <4>1. k - 1 \in 0 .. m /\ k - 1 # m /\ k \in 0 .. m
        BY <2>3
      <4>2. g[k - 1] = f[k - 1]
        BY <4>1
      <4>3. CASE k = m
        BY <4>1, <4>2, <4>3
      <4>4. CASE k # m
        <5>1. k \in 1 .. m - 1
          BY <2>3, <4>4
        <5>2. f[k] = Pk!PackStep(f[k - 1])
          BY <3>2, <5>1
        <5> QED BY <4>1, <4>2, <4>4, <5>2
      <4> QED BY <4>3, <4>4
    <3>5. Runs(g, m)
      BY <3>3, <3>4
    <3> QED BY <2>2, <3>5
  <2> QED BY <2>4, <2>5
<1>3. PICK g : Runs(g, N)
  BY <1>1, <1>2
<1> DEFINE h == [n \in 0 .. N |-> g[n]]
<1>4. Loop(h)
  <2>1. ASSUME NEW n \in 0 .. N
        PROVE  h[n] = IF n = 0 THEN Pk!PackStart(items) ELSE Pk!PackStep(h[n - 1])
    <3>1. CASE n = 0
      BY <1>3, <3>1
    <3>2. CASE n # 0
      <4>1. n \in 1 .. N /\ n - 1 \in 0 .. N
        BY <1>1, <3>2
      <4> QED BY <1>3, <3>2, <4>1
    <3> QED BY <3>1, <3>2
  <2> HIDE DEF h
  <2>2. h = [n \in 0 .. N |-> h[n]]
    BY DEF h
  <2> QED BY <2>1, <2>2
<1> DEFINE from == CHOOSE f : Loop(f)
<1>5. Loop(from)
  <2> HIDE DEF Loop
  <2> QED BY <1>4
<1>6. Pk!Pack(items) = from[N].placed
  BY DEF Pk!Pack
<1> HIDE DEF from
<1>7. from[0] = Pk!PackStart(items)
  BY <1>1, <1>5
<1>8. \A n \in 1 .. N : from[n] = Pk!PackStep(from[n - 1])
  <2> SUFFICES ASSUME NEW n \in 1 .. N PROVE from[n] = Pk!PackStep(from[n - 1])
    OBVIOUS
  <2>1. n \in 0 .. N /\ n # 0
    BY <1>1
  <2> QED BY <1>5, <2>1
<1> QED BY <1>6, <1>7, <1>8

\* The longest of the items in S, the last one of these.
LEMMA LongestIsThere ==
    ASSUME NEW n \in Nat, NEW rest, NEW S \in SUBSET (1 .. n), S # {},
           \A i \in S : rest[i].len \in 1 .. UnitsPerPage
    PROVE  Pk!LongestLast(rest, S) \in S
<1> DEFINE Lens == { rest[i].len : i \in S }
           Best(x) == { i \in S : rest[i].len = x }
<1>1. Lens \in SUBSET Nat /\ Lens # {} /\ \A x \in Lens : x <= UnitsPerPage
  <2>1. \A i \in S : rest[i].len \in Nat /\ rest[i].len <= UnitsPerPage
    BY Geometry
  <2> QED BY <2>1
<1>2. PICK x \in Lens : \A y \in Lens : y <= x
  BY <1>1, Geometry, BoundedHasMax
<1>3. Best(x) \in SUBSET Nat /\ Best(x) # {} /\ \A i \in Best(x) : i <= n
  <2>1. PICK i \in S : rest[i].len = x
    OBVIOUS
  <2>a. \A j \in 1 .. n : j \in Nat /\ j <= n
    OBVIOUS
  <2>b. S \subseteq 1 .. n
    OBVIOUS
  <2>2. \A j \in S : j \in Nat /\ j <= n
    BY <2>a, <2>b
  <2> QED BY <2>1, <2>2
<1>4. PICK i \in Best(x) : \A j \in Best(x) : j <= i
  BY <1>3, BoundedHasMax
<1>5. \A j \in S : \/ rest[j].len < rest[i].len
                   \/ rest[j].len = rest[i].len /\ j <= i
  <2> SUFFICES ASSUME NEW j \in S
               PROVE  \/ rest[j].len < rest[i].len
                      \/ rest[j].len = rest[i].len /\ j <= i
    OBVIOUS
  <2>1. rest[j].len <= x /\ rest[j].len \in Nat /\ x \in Nat /\ rest[i].len = x
    BY <1>1, <1>2
  <2>2. rest[j].len = x => j <= i
    BY <1>4
  <2> QED BY <2>1, <2>2
<1>6. i \in S
  OBVIOUS
<1> HIDE DEF Best, Lens
<1> QED BY <1>5, <1>6 DEF Pk!LongestLast

\* A placement, and what it has to do with another one.
IsPlacement(p, T) ==
    /\ p = [item |-> p.item, page |-> p.page, off |-> p.off]
    /\ p.item \in T /\ p.page \in Nat /\ p.off \in Nat
    /\ p.off + p.item.len <= UnitsPerPage

Aside(p, q) == /\ p.item # q.item
               /\ p.page = q.page => \/ p.off + p.item.len <= q.off
                                     \/ q.off + q.item.len <= p.off

\* The state of the loop is a record.
IsRun(s) == s = [placed |-> s.placed, rest |-> s.rest, page |-> s.page, off |-> s.off]

\* What was placed lies before the current place, the rest is yet to be placed.
PackSound(s, n, items, T) ==
    /\ IsRun(s)
    /\ s.rest \in Seq(T) /\ s.page \in Nat /\ s.off \in Nat
    /\ \A i, j \in 1 .. Len(s.rest) : s.rest[i] = s.rest[j] => i = j
    /\ IsFiniteSet(s.placed)
    /\ \A p \in s.placed : /\ IsPlacement(p, T) /\ p.page <= s.page
                           /\ p.page = s.page => p.off + p.item.len <= s.off
                           /\ \A i \in 1 .. Len(s.rest) : s.rest[i] # p.item
    /\ \A p, q \in s.placed : p # q => Aside(p, q)
    /\ \A i \in 1 .. Len(items) : \/ \E p \in s.placed : p.item = items[i]
                                  \/ \E j \in 1 .. Len(s.rest) : s.rest[j] = items[i]
    /\ s.page <= n
    /\ Len(s.rest) <= Len(items)
    /\ s.rest # <<>> => \/ n <= 2 * (Len(items) - Len(s.rest))
                        \/ n = 2 * (Len(items) - Len(s.rest)) + 1 /\ s.off = 0

\* A sequence r that is s without its i-th element.
Without(r, s, i, N) ==
    /\ Len(r) = N - 1
    /\ \A j \in 1 .. N - 1 : r[j] = s[IF j < i THEN j ELSE j + 1]
    /\ \A k \in 1 .. N : k # i => \E j \in 1 .. N - 1 : r[j] = s[k]

\* What removing an item from the rest leaves.
LEMMA Removed ==
    ASSUME NEW T, NEW N \in Nat, NEW s \in Seq(T), Len(s) = N, NEW i \in 1 .. N
    PROVE  Pk!RemoveAt(s, i) \in Seq(T) /\ Without(Pk!RemoveAt(s, i), s, i, N)
<1>0. PICK r : r = Pk!RemoveAt(s, i)
  OBVIOUS
<1>1. PICK a : a = SubSeq(s, 1, i - 1)
  OBVIOUS
<1>2. PICK b : b = SubSeq(s, i + 1, Len(s))
  OBVIOUS
<1>3. a \in Seq(T) /\ Len(a) = i - 1 /\ \A j \in 1 .. i - 1 : a[j] = s[j]
  BY <1>1
<1>4. b \in Seq(T) /\ Len(b) = N - i /\ \A j \in 1 .. N - i : b[j] = s[i + j]
  BY <1>2
<1>5. r = a \o b
  BY <1>0, <1>1, <1>2 DEF Pk!RemoveAt
<1>6. Len(a) + Len(b) = N - 1
  BY <1>3, <1>4
<1>7. /\ a \o b \in Seq(T) /\ Len(a \o b) = Len(a) + Len(b)
      /\ \A j \in 1 .. Len(a) + Len(b) :
            (a \o b)[j] = IF j <= Len(a) THEN a[j] ELSE b[j - Len(a)]
  BY <1>3, <1>4, ConcatProperties
<1>8. /\ r \in Seq(T) /\ Len(r) = N - 1
      /\ \A j \in 1 .. N - 1 : r[j] = IF j <= i - 1 THEN a[j] ELSE b[j - (i - 1)]
  BY <1>3, <1>5, <1>6, <1>7
<1>9. ASSUME NEW j \in 1 .. N - 1 PROVE r[j] = s[IF j < i THEN j ELSE j + 1]
  <2>1. CASE j < i
    BY <1>3, <1>8, <2>1
  <2>2. CASE j >= i
    <3>1. j - (i - 1) \in 1 .. N - i /\ i + (j - (i - 1)) = j + 1 /\ ~(j <= i - 1)
      BY <2>2
    <3>2. r[j] = b[j - (i - 1)]
      BY <1>8, <3>1
    <3>3. b[j - (i - 1)] = s[i + (j - (i - 1))]
      BY <1>4, <3>1
    <3> QED BY <2>2, <3>1, <3>2, <3>3
  <2> QED BY <2>1, <2>2
<1>10. ASSUME NEW k \in 1 .. N, k # i PROVE \E j \in 1 .. N - 1 : r[j] = s[k]
  <2>1. CASE k < i
    <3>1. k \in 1 .. N - 1
      BY <2>1
    <3> QED BY <1>9, <2>1, <3>1
  <2>2. CASE k > i
    <3>1. k - 1 \in 1 .. N - 1 /\ ~(k - 1 < i) /\ (k - 1) + 1 = k
      BY <2>2
    <3>2. r[k - 1] = s[k]
      BY <1>9, <3>1
    <3> QED BY <3>1, <3>2
  <2> QED BY <1>10, <2>1, <2>2
<1> QED BY <1>0, <1>8, <1>9, <1>10 DEF Without

\* Shifting the places behind i keeps them apart.
LEMMA Shifted ==
    ASSUME NEW i \in Int, NEW j \in Int, NEW k \in Int, NEW a,
           a = (IF j < i THEN j ELSE j + 1), a = (IF k < i THEN k ELSE k + 1)
    PROVE  j = k
OBVIOUS

\* The loop keeps PackSound.
LEMMA PackStepSound ==
    ASSUME NEW T, NEW items, Len(items) \in Nat,
           \A t \in T : t.len \in 1 .. UnitsPerPage,
           NEW n \in Nat, NEW s, PackSound(s, n, items, T), NEW x, x = Pk!PackStep(s)
    PROVE  PackSound(x, n + 1, items, T)
<1> DEFINE fit == Pk!Fitting(s.rest, UnitsPerPage - s.off)
           i == Pk!LongestLast(s.rest, fit)
           N == Len(s.rest)
<1>1. /\ IsRun(s) /\ s.rest \in Seq(T) /\ s.page \in Nat /\ s.off \in Nat
      /\ \A k, j \in 1 .. N : s.rest[k] = s.rest[j] => k = j
      /\ IsFiniteSet(s.placed)
      /\ \A p \in s.placed : /\ IsPlacement(p, T) /\ p.page <= s.page
                             /\ p.page = s.page => p.off + p.item.len <= s.off
                             /\ \A k \in 1 .. N : s.rest[k] # p.item
      /\ \A p, q \in s.placed : p # q => Aside(p, q)
      /\ \A k \in 1 .. Len(items) : \/ \E p \in s.placed : p.item = items[k]
                                    \/ \E j \in 1 .. N : s.rest[j] = items[k]
      /\ s.page <= n /\ N <= Len(items)
      /\ s.rest # <<>> => \/ n <= 2 * (Len(items) - N)
                          \/ n = 2 * (Len(items) - N) + 1 /\ s.off = 0
  BY DEF PackSound
<1>2. N \in Nat /\ \A k \in 1 .. N : s.rest[k] \in T
  BY <1>1
<1>3. /\ s.rest = <<>> => x = s
      /\ s.rest # <<>> /\ fit = {} =>
             /\ IsRun(x) /\ x.placed = s.placed /\ x.rest = s.rest
             /\ x.page = s.page + 1 /\ x.off = 0
      /\ s.rest # <<>> /\ fit # {} =>
             /\ IsRun(x) /\ x.rest = Pk!RemoveAt(s.rest, i) /\ x.page = s.page
             /\ x.placed = s.placed \cup {[item |-> s.rest[i], page |-> s.page,
                                           off |-> s.off]}
             /\ x.off = s.off + s.rest[i].len
  <2>1. x = IF s.rest = <<>> THEN s
            ELSE IF fit = {} THEN [s EXCEPT !.page = @ + 1, !.off = 0]
            ELSE [s EXCEPT !.placed = @ \cup {[item |-> s.rest[i], page |-> s.page,
                                               off |-> s.off]},
                           !.rest = Pk!RemoveAt(@, i), !.off = @ + s.rest[i].len]
    BY DEF Pk!PackStep
  <2> HIDE DEF fit, i
  <2>2. s.rest = <<>> => x = s
    BY <2>1
  <2>3. ASSUME s.rest # <<>>, fit = {}
        PROVE  /\ IsRun(x) /\ x.placed = s.placed /\ x.rest = s.rest
               /\ x.page = s.page + 1 /\ x.off = 0
    <3>1. x = [s EXCEPT !.page = @ + 1, !.off = 0]
      BY <2>1, <2>3
    <3> QED BY <1>1, <3>1 DEF IsRun
  <2>4. ASSUME s.rest # <<>>, fit # {}
        PROVE  /\ IsRun(x) /\ x.rest = Pk!RemoveAt(s.rest, i) /\ x.page = s.page
               /\ x.placed = s.placed \cup {[item |-> s.rest[i], page |-> s.page,
                                             off |-> s.off]}
               /\ x.off = s.off + s.rest[i].len
    <3>1. PICK e : e = [item |-> s.rest[i], page |-> s.page, off |-> s.off]
      OBVIOUS
    <3>2. PICK r : r = Pk!RemoveAt(s.rest, i)
      OBVIOUS
    <3>3. PICK l : l = s.rest[i].len
      OBVIOUS
    <3>4. x = [s EXCEPT !.placed = @ \cup {e}, !.rest = r, !.off = @ + l]
      BY <2>1, <2>4, <3>1, <3>2, <3>3
    <3>5. /\ IsRun(x) /\ x.rest = r /\ x.page = s.page
          /\ x.placed = s.placed \cup {e} /\ x.off = s.off + l
      BY <1>1, <3>4 DEF IsRun
    <3> QED BY <3>1, <3>2, <3>3, <3>5
  <2> QED BY <2>2, <2>3, <2>4
<1>4. fit \in SUBSET (1 .. N) /\ \A k \in 1 .. N : k \in fit <=> s.rest[k].len <= UnitsPerPage - s.off
  BY <1>1 DEF Pk!Fitting
<1>5. \A k \in 1 .. N : s.rest[k].len \in 1 .. UnitsPerPage
  BY <1>2
<1>6. CASE s.rest = <<>>
  <2>1. s.page <= n + 1
    BY <1>1
  <2>2. x = s
    BY <1>3, <1>6
  <2> HIDE DEF fit, i
  <2> QED BY <1>1, <1>6, <2>1, <2>2 DEF PackSound
<1>7. CASE s.rest # <<>> /\ fit = {}
  <2>1. /\ IsRun(x) /\ x.placed = s.placed /\ x.rest = s.rest
        /\ x.page = s.page + 1 /\ x.off = 0
    BY <1>3, <1>7
  <2>2. 1 \in 1 .. N
    BY <1>1, <1>7
  <2>3. s.off # 0
    BY <1>4, <1>5, <1>7, <2>2, Geometry
  <2>4. n + 1 = 2 * (Len(items) - N) + 1 \/ n + 1 <= 2 * (Len(items) - N)
    BY <1>1, <1>2, <1>7, <2>3
  <2>5. \A p \in s.placed : p.page \in Nat /\ p.page <= s.page + 1 /\ p.page # s.page + 1
    BY <1>1 DEF IsPlacement
  <2>6. s.page + 1 \in Nat /\ s.page + 1 <= n + 1
    BY <1>1
  <2> HIDE DEF fit, i
  <2> QED BY <1>1, <2>1, <2>4, <2>5, <2>6 DEF PackSound
<1>8. CASE s.rest # <<>> /\ fit # {}
  <2>1. i \in fit /\ i \in 1 .. N
    BY <1>2, <1>4, <1>5, <1>8, LongestIsThere
  <2> HIDE DEF fit, i
  <2>2. PICK e : e = [item |-> s.rest[i], page |-> s.page, off |-> s.off]
    OBVIOUS
  <2>3. /\ e = [item |-> e.item, page |-> e.page, off |-> e.off]
        /\ e.item = s.rest[i] /\ e.page = s.page /\ e.off = s.off
    BY <2>2
  <2>4. PICK r : r = Pk!RemoveAt(s.rest, i)
    OBVIOUS
  <2>5. /\ r \in Seq(T) /\ Len(r) = N - 1
        /\ \A j \in 1 .. Len(r) : r[j] = s.rest[IF j < i THEN j ELSE j + 1]
        /\ \A k \in 1 .. N : k # i => \E j \in 1 .. Len(r) : r[j] = s.rest[k]
    <3>1. PICK w : w = s.rest
      OBVIOUS
    <3>2. PICK M : M = N
      OBVIOUS
    <3>5. PICK a : a = i
      OBVIOUS
    <3>3. w \in Seq(T) /\ M \in Nat /\ Len(w) = M /\ a \in 1 .. M /\ r = Pk!RemoveAt(w, a)
      BY <1>1, <1>2, <2>1, <2>4, <3>1, <3>2, <3>5
    <3>4. r \in Seq(T) /\ Without(r, w, a, M)
      BY <3>3, Removed
    <3> QED BY <3>1, <3>2, <3>4, <3>5 DEF Without
  <2>7. /\ x.placed = s.placed \cup {e} /\ x.rest = r /\ x.page = s.page
        /\ x.off = s.off + s.rest[i].len /\ IsRun(x)
    BY <1>3, <1>8, <2>2, <2>4
  <2>8. /\ s.rest[i] \in T /\ s.rest[i].len \in 1 .. UnitsPerPage
        /\ s.off + s.rest[i].len <= UnitsPerPage
    BY <1>1, <1>2, <1>4, <1>5, <2>1, Geometry
  <2>9. \A j \in 1 .. N - 1 : (IF j < i THEN j ELSE j + 1) \in 1 .. N /\ (IF j < i THEN j ELSE j + 1) # i
    BY <1>2, <2>1
  <2>10. \A j \in 1 .. Len(r) : r[j] # s.rest[i]
    <3> SUFFICES ASSUME NEW j \in 1 .. N - 1, r[j] = s.rest[i] PROVE FALSE
      BY <2>5
    <3>1. PICK k \in 1 .. N : k # i /\ r[j] = s.rest[k]
      BY <2>5, <2>9
    <3> QED BY <1>1, <2>1, <3>1
  <2>11. ASSUME NEW j \in 1 .. Len(r), NEW k \in 1 .. Len(r), r[j] = r[k] PROVE j = k
    <3>0. j \in 1 .. N - 1 /\ k \in 1 .. N - 1
      BY <2>5
    <3>a. PICK a \in 1 .. N : a = (IF j < i THEN j ELSE j + 1) /\ r[j] = s.rest[a]
      BY <2>5, <2>9, <3>0
    <3>b. PICK b \in 1 .. N : b = (IF k < i THEN k ELSE k + 1) /\ r[k] = s.rest[b]
      BY <2>5, <2>9, <3>0
    <3>1. a = b
      BY <1>1, <2>11, <3>a, <3>b
    <3>2. j \in Int /\ k \in Int /\ i \in Int
      BY <1>2, <2>1, <3>0
    <3>3. a = (IF j < i THEN j ELSE j + 1) /\ a = (IF k < i THEN k ELSE k + 1)
      BY <3>1, <3>a, <3>b
    <3> QED BY <3>2, <3>3, Shifted
  <2>12. IsFiniteSet(s.placed \cup {e})
    BY <1>1, FS_AddElement
  <2>13. IsPlacement(e, T) /\ e.page <= s.page /\ e.off + e.item.len <= x.off
    BY <1>1, <2>3, <2>7, <2>8 DEF IsPlacement
  <2>14. ASSUME NEW p \in s.placed
         PROVE  /\ IsPlacement(p, T) /\ p.page <= s.page
                /\ p.page = s.page => p.off + p.item.len <= x.off
                /\ \A j \in 1 .. Len(r) : r[j] # p.item
                /\ Aside(p, e) /\ Aside(e, p)
    <3>1. /\ IsPlacement(p, T) /\ p.page <= s.page
          /\ p.page = s.page => p.off + p.item.len <= s.off
          /\ \A k \in 1 .. N : s.rest[k] # p.item
      BY <1>1
    <3>2. p.item.len \in Nat /\ p.off \in Nat
      BY <3>1 DEF IsPlacement
    <3>3. p.page = s.page => p.off + p.item.len <= x.off
      <4>1. s.off \in Nat /\ x.off \in Nat /\ s.off <= x.off
        BY <1>1, <2>7, <2>8
      <4> QED BY <3>1, <3>2, <4>1
    <3>4. \A j \in 1 .. Len(r) : r[j] # p.item
      BY <2>5, <2>9, <3>1
    <3>5. p.item # e.item
      BY <2>1, <2>3, <3>1
    <3>6. p.page = e.page => p.off + p.item.len <= e.off
      BY <2>3, <3>1
    <3> QED BY <3>1, <3>3, <3>4, <3>5, <3>6 DEF Aside
  <2>15. \A k \in 1 .. Len(items) : \/ \E p \in s.placed \cup {e} : p.item = items[k]
                                    \/ \E j \in 1 .. Len(r) : r[j] = items[k]
    <3> SUFFICES ASSUME NEW k \in 1 .. Len(items), ~\E p \in s.placed : p.item = items[k]
                 PROVE  \/ e.item = items[k]
                        \/ \E j \in 1 .. Len(r) : r[j] = items[k]
      OBVIOUS
    <3>1. PICK j \in 1 .. N : s.rest[j] = items[k]
      BY <1>1
    <3> QED BY <2>3, <2>5, <3>1
  <2>16. n + 1 <= 2 * (Len(items) - Len(r)) /\ Len(r) <= Len(items)
    <3>1. N \in Nat /\ N > 0 /\ Len(r) = N - 1 /\ N <= Len(items)
      BY <1>1, <1>2, <2>1, <2>5
    <3>2. n <= 2 * (Len(items) - N) + 1
      BY <1>1, <1>2, <1>8
    <3>3. PICK a \in Nat : a = Len(items)
      OBVIOUS
    <3>4. PICK b \in Nat : b = N
      BY <3>1
    <3>5. PICK c \in Nat : c = Len(r)
      BY <3>1
    <3>6. n <= 2 * (a - b) + 1 /\ c = b - 1 /\ b <= a
      BY <3>1, <3>2, <3>3, <3>4, <3>5
    <3>7. n + 1 <= 2 * (a - c) /\ c <= a
      BY <3>6
    <3> QED BY <3>3, <3>5, <3>7
  <2>17. x.page \in Nat /\ x.off \in Nat /\ x.page <= n + 1
    BY <1>1, <2>7, <2>8
  <2>18. \A p, q \in x.placed : p # q => Aside(p, q)
    BY <1>1, <2>7, <2>14
  <2>19. \A p \in x.placed : /\ IsPlacement(p, T) /\ p.page <= x.page
                             /\ p.page = x.page => p.off + p.item.len <= x.off
                             /\ \A j \in 1 .. Len(x.rest) : x.rest[j] # p.item
    BY <2>3, <2>7, <2>10, <2>13, <2>14
  <2>20. /\ IsRun(x) /\ x.rest \in Seq(T) /\ IsFiniteSet(x.placed)
         /\ \A j, k \in 1 .. Len(x.rest) : x.rest[j] = x.rest[k] => j = k
    BY <2>5, <2>7, <2>11, <2>12
  <2>21. \A k \in 1 .. Len(items) : \/ \E p \in x.placed : p.item = items[k]
                                    \/ \E j \in 1 .. Len(x.rest) : x.rest[j] = items[k]
    BY <2>7, <2>15
  <2>22. n + 1 <= 2 * (Len(items) - Len(x.rest)) /\ Len(x.rest) <= Len(items)
    BY <2>7, <2>16
  <2> QED BY <2>17, <2>18, <2>19, <2>20, <2>21, <2>22 DEF PackSound
<1> QED BY <1>6, <1>7, <1>8

\* Every item is placed, on a page below PagesUsed, beside the others.
Packed(P, items, T) ==
    /\ IsFiniteSet(P)
    /\ \A p \in P : IsPlacement(p, T)
    /\ \A p, q \in P : p # q => Aside(p, q)
    /\ \A i \in 1 .. Len(items) : \E p \in P : p.item = items[i]
    /\ Pk!PagesUsed(P) \in Nat /\ \A p \in P : p.page < Pk!PagesUsed(P)

\* The packing places every item, on a page below PagesUsed, beside the others.
THEOREM PackResult ==
    ASSUME NEW T, NEW items \in Seq(T), \A t \in T : t.len \in 1 .. UnitsPerPage,
           \A i, j \in 1 .. Len(items) : items[i] = items[j] => i = j
    PROVE  Packed(Pk!Pack(items), items, T)
<1>1. PICK L \in Nat : L = Len(items)
  OBVIOUS
<1>2. PICK f : /\ Pk!Pack(items) = f[2 * L].placed
               /\ f[0] = Pk!PackStart(items)
               /\ \A n \in 1 .. 2 * L : f[n] = Pk!PackStep(f[n - 1])
  BY <1>1, PackLoop
<1> DEFINE Bad == { n \in 0 .. 2 * L : ~PackSound(f[n], n, items, T) }
<1>3. PackSound(f[0], 0, items, T)
  <2>1. PICK s : s = f[0]
    OBVIOUS
  <2>2. s = [placed |-> {}, rest |-> items, page |-> 0, off |-> 0]
    BY <1>2, <2>1 DEF Pk!PackStart
  <2>3. IsRun(s) /\ s.placed = {} /\ s.rest = items /\ s.page = 0 /\ s.off = 0
    BY <2>2 DEF IsRun
  <2>4. IsFiniteSet({})
    BY FS_EmptySet
  <2>5. 0 <= 2 * (Len(items) - Len(items))
    BY <1>1
  <2> QED BY <1>1, <2>1, <2>3, <2>4, <2>5 DEF PackSound
<1>4. Bad = {}
  <2> SUFFICES ASSUME Bad # {} PROVE FALSE
    OBVIOUS
  <2>1. Bad \in SUBSET Nat
    BY <1>1
  <2>2. PICK m \in Bad : \A y \in Bad : m <= y
    BY <2>1, NatHasMin
  <2>3. m \in 0 .. 2 * L /\ ~PackSound(f[m], m, items, T)
    OBVIOUS
  <2>4. m # 0
    BY <1>3, <2>3
  <2>5. m \in 1 .. 2 * L /\ m - 1 \in 0 .. 2 * L /\ m - 1 \in Nat /\ (m - 1) + 1 = m
        /\ ~(m <= m - 1)
    BY <1>1, <2>3, <2>4
  <2>6. PackSound(f[m - 1], m - 1, items, T)
    BY <2>2, <2>5
  <2>7. PackSound(f[m], (m - 1) + 1, items, T)
    BY <1>1, <1>2, <2>5, <2>6, PackStepSound
  <2> QED BY <2>3, <2>5, <2>7
<1>5. PICK s : s = f[2 * L]
  OBVIOUS
<1>6. PackSound(s, 2 * L, items, T) /\ Pk!Pack(items) = s.placed
  BY <1>1, <1>2, <1>4, <1>5
<1> HIDE DEF Bad
<1>7. s.rest = <<>>
  <2> SUFFICES ASSUME s.rest # <<>> PROVE FALSE
    OBVIOUS
  <2>1. PICK l \in Nat : l = Len(s.rest) /\ l > 0
    BY <1>6 DEF PackSound
  <2>2. 2 * L <= 2 * (L - l) \/ 2 * L = 2 * (L - l) + 1
    BY <1>1, <1>6, <2>1 DEF PackSound
  <2> QED BY <1>1, <2>1, <2>2
<1>8. PICK P : P = s.placed
  OBVIOUS
<1>9. /\ IsFiniteSet(P) /\ s.page \in Nat
      /\ \A p \in P : IsPlacement(p, T) /\ p.page <= s.page
      /\ \A p, q \in P : p # q => Aside(p, q)
  BY <1>6, <1>8 DEF PackSound
<1>10. \A i \in 1 .. Len(items) : \E p \in P : p.item = items[i]
  <2>1. Len(s.rest) = 0
    BY <1>7
  <2> QED BY <1>6, <1>8, <2>1 DEF PackSound
<1>11. Pk!PagesUsed(P) \in Nat /\ \A p \in P : p.page < Pk!PagesUsed(P)
  <2>1. CASE P = {}
    BY <2>1 DEF Pk!PagesUsed
  <2>2. CASE P # {}
    <3> DEFINE K == { p.page : p \in P }
    <3>1. \A p \in P : p.page \in Nat /\ p.page <= s.page
      BY <1>9 DEF IsPlacement
    <3>2. K \in SUBSET Nat /\ K # {} /\ \A k \in K : k <= s.page
      BY <2>2, <3>1
    <3>3. \A p \in P : p.page \in K
      OBVIOUS
    <3> HIDE DEF K
    <3>4. Pk!Max(K) \in K /\ \A k \in K : k <= Pk!Max(K)
      <4>1. PICK k \in K : \A y \in K : y <= k
        BY <1>9, <3>2, BoundedHasMax
      <4>2. \A y \in K : k >= y
        BY <3>2, <4>1
      <4>3. Pk!Max(K) \in K /\ \A y \in K : Pk!Max(K) >= y
        BY <4>2 DEF Pk!Max
      <4> QED BY <3>2, <4>3
    <3>5. Pk!PagesUsed(P) = 1 + Pk!Max(K)
      BY <2>2 DEF Pk!PagesUsed, K
    <3>6. PICK m : m = Pk!Max(K)
      OBVIOUS
    <3>7. m \in Nat /\ Pk!PagesUsed(P) = 1 + m
      BY <3>2, <3>4, <3>5, <3>6
    <3>8. ASSUME NEW p \in P PROVE p.page < 1 + m
      <4>1. p.page \in Nat /\ p.page <= m
        BY <3>1, <3>3, <3>4, <3>6
      <4> QED BY <3>7, <4>1
    <3> QED BY <3>7, <3>8
  <2> QED BY <2>1, <2>2
<1> QED BY <1>6, <1>8, <1>9, <1>10, <1>11 DEF Packed

-----------------------------------------------------------------------------
(***************************************************************************)
(* Grains.                                                                 *)
(***************************************************************************)
\* The grains of a value of n grains at g.
LEMMA ExtentFacts ==
    ASSUME NEW g \in Grains, NEW n \in Nat, g[3] + n <= UnitsPerPage
    PROVE  /\ \A h \in Extent(g, n) :
                 /\ h \in Grains /\ h[1] = g[1] /\ h[2] = g[2]
                 /\ g[3] <= h[3] /\ h[3] < g[3] + n
           /\ n > 0 => g \in Extent(g, n)
<1>1. PICK s \in Sblks, o \in Offsets, f \in 0 .. UnitsPerPage - 1 : g = <<s, o, f>>
  BY DEF Grains
<1>2. g[1] = s /\ g[2] = o /\ g[3] = f /\ f \in Nat /\ UnitsPerPage \in Nat
  BY <1>1, Geometry
<1>3. ASSUME NEW h \in Extent(g, n)
      PROVE  /\ h \in Grains /\ h[1] = g[1] /\ h[2] = g[2]
             /\ g[3] <= h[3] /\ h[3] < g[3] + n
  <2>1. PICK i \in 0 .. n - 1 : h = <<s, o, f + i>>
    BY <1>2, <1>3 DEF Extent
  <2>2. f + i \in 0 .. UnitsPerPage - 1 /\ f <= f + i /\ f + i < f + n
    BY <1>2
  <2>3. h[1] = s /\ h[2] = o /\ h[3] = f + i
    BY <2>1
  <2> QED BY <1>2, <2>1, <2>2, <2>3 DEF Grains
<1>4. n > 0 => g \in Extent(g, n)
  <2> SUFFICES ASSUME n > 0 PROVE g \in Extent(g, n)
    OBVIOUS
  <2>1. 0 \in 0 .. n - 1 /\ f + 0 = f
    BY <1>2
  <2> QED BY <1>1, <1>2, <2>1 DEF Extent
<1> QED BY <1>3, <1>4

\* An address is its three parts.
LEMMA GrainParts ==
    ASSUME NEW g \in Grains
    PROVE  /\ g = <<g[1], g[2], g[3]>> /\ g[1] \in Sblks /\ g[2] \in Offsets
           /\ g[3] \in 0 .. UnitsPerPage - 1 /\ g[2] \in Nat /\ g[3] \in Nat
BY Geometry DEF Grains, Offsets

\* Two sets that correspond one to one have the same number of elements.
LEMMA SameCount ==
    ASSUME NEW S, IsFiniteSet(S), NEW T, NEW f \in [S -> T],
           \A x, y \in S : f[x] = f[y] => x = y, \A t \in T : \E x \in S : f[x] = t
    PROVE  IsFiniteSet(T) /\ Cardinality(T) = Cardinality(S)
<1>1. f \in Bijection(S, T)
  BY DEF Bijection, Injection, Surjection, IsInjective
<1>2. ExistsBijection(S, T)
  BY <1>1 DEF ExistsBijection
<1> QED BY <1>2, FS_Bijection

\* A value of n grains has n grains.
LEMMA ExtentCount ==
    ASSUME NEW g \in Grains, NEW n \in Nat
    PROVE  IsFiniteSet(Extent(g, n)) /\ Cardinality(Extent(g, n)) = n
<1> DEFINE f == [i \in 0 .. n - 1 |-> <<g[1], g[2], g[3] + i>>]
<1>1. g[3] \in Nat
  BY GrainParts
<1>2. f \in [0 .. n - 1 -> Extent(g, n)]
  BY DEF Extent
<1>3. \A i, j \in 0 .. n - 1 : f[i] = f[j] => i = j
  BY <1>1
<1>4. \A h \in Extent(g, n) : \E i \in 0 .. n - 1 : f[i] = h
  BY DEF Extent
<1>5. IsFiniteSet(0 .. n - 1) /\ Cardinality(0 .. n - 1) = n
  BY FS_Interval
<1> HIDE DEF f
<1> QED BY <1>2, <1>3, <1>4, <1>5, SameCount

\* Where a placement goes when the first page is page b of superblock s, and its grains.
Addr(s, b, p) == <<s, b + p.page, p.off>>

GrainsAt(s, b, p) == Extent(Addr(s, b, p), p.item.len)

GrainsOf(s, b, S) == UNION { GrainsAt(s, b, p) : p \in S }

\* validate_grain is called once for each grain of values that are placed apart.
LEMMA CallsCount ==
    ASSUME NEW S, IsFiniteSet(S), NEW s, NEW b,
           \A p \in S : Addr(s, b, p) \in Grains /\ p.item.len \in 1 .. UnitsPerPage,
           \A p, q \in S : p # q => GrainsAt(s, b, p) \cap GrainsAt(s, b, q) = {}
    PROVE  /\ IsFiniteSet(GrainsOf(s, b, S))
           /\ Cardinality(GrainsOf(s, b, S)) = Cardinality(GrainCalls(S))
           /\ Cardinality(GrainCalls(S)) \in Nat
<1> DEFINE C == GrainCalls(S)
           U == GrainsOf(s, b, S)
           a == [p \in S |-> Addr(s, b, p)]
           grain(c) == <<a[c[1]][1], a[c[1]][2], a[c[1]][3] + c[2]>>
           f == [c \in C |-> grain(c)]
<1>0. /\ a \in [S -> Grains] /\ \A p \in S : p.item.len \in 1 .. UnitsPerPage
      /\ \A p, q \in S : p # q =>
            Extent(a[p], p.item.len) \cap Extent(a[q], q.item.len) = {}
      /\ U = UNION { Extent(a[p], p.item.len) : p \in S }
  BY DEF GrainsOf, GrainsAt
<1> HIDE DEF a, U
<1>1. IsFiniteSet(C) /\ Cardinality(C) \in Nat
  <2>1. C \subseteq S \X (0 .. UnitsPerPage - 1)
    <3> SUFFICES ASSUME NEW p \in S, NEW i \in 0 .. p.item.len - 1
                 PROVE  i \in 0 .. UnitsPerPage - 1
      BY DEF GrainCalls
    <3>1. p.item.len \in 1 .. UnitsPerPage
      BY <1>0
    <3> QED BY <3>1, Geometry
  <2>2. IsFiniteSet(0 .. UnitsPerPage - 1)
    BY Geometry, FS_Interval
  <2>3. IsFiniteSet(S \X (0 .. UnitsPerPage - 1))
    BY <2>2, FS_Product
  <2> QED BY <2>1, <2>3, FS_Subset, FS_CardinalityType
<1>2. \A c \in C : \E p \in S : \E i \in 0 .. p.item.len - 1 : c = <<p, i>>
  BY DEF GrainCalls
<1>3. \A p \in S : \A i \in 0 .. p.item.len - 1 :
          <<p, i>> \in C /\ grain(<<p, i>>) = <<a[p][1], a[p][2], a[p][3] + i>>
  BY DEF GrainCalls
<1>7. \A p \in S : \A i \in 0 .. p.item.len - 1 :
          <<a[p][1], a[p][2], a[p][3] + i>> \in Extent(a[p], p.item.len)
  BY DEF Extent
<1>4. f \in [C -> U]
  <2> SUFFICES ASSUME NEW c \in C PROVE grain(c) \in U
    OBVIOUS
  <2>1. PICK p \in S, i \in Int : i \in 0 .. p.item.len - 1 /\ c = <<p, i>>
    BY <1>2
  <2>2. grain(c) = <<a[p][1], a[p][2], a[p][3] + i>>
    BY <1>3, <2>1
  <2>3. grain(c) \in Extent(a[p], p.item.len)
    BY <1>7, <2>1, <2>2
  <2> QED BY <1>0, <2>3
<1>5. ASSUME NEW c \in C, NEW e \in C, f[c] = f[e] PROVE c = e
  <2>1. PICK p \in S, i \in Int : i \in 0 .. p.item.len - 1 /\ c = <<p, i>>
    BY <1>2
  <2>2. PICK q \in S, j \in Int : j \in 0 .. q.item.len - 1 /\ e = <<q, j>>
    BY <1>2
  <2>3. f[c] = <<a[p][1], a[p][2], a[p][3] + i>> /\ f[e] = <<a[q][1], a[q][2], a[q][3] + j>>
    BY <1>3, <2>1, <2>2
  <2>4. f[c] \in Extent(a[p], p.item.len) /\ f[e] \in Extent(a[q], q.item.len)
    BY <1>7, <2>1, <2>2, <2>3
  <2>5. p = q
    BY <1>0, <1>5, <2>4
  <2>6. a[p][3] + i = a[p][3] + j
    BY <1>5, <2>3, <2>5
  <2>7. a[p][3] \in Int
    BY <1>0, GrainParts
  <2>8. PICK k \in Int : k = a[p][3]
    BY <2>7
  <2>9. i = j
    BY <2>6, <2>8
  <2> QED BY <2>1, <2>2, <2>5, <2>9
<1>6. ASSUME NEW u \in U PROVE \E c \in C : f[c] = u
  <2>1. PICK p \in S : u \in Extent(a[p], p.item.len)
    BY <1>0
  <2>2. PICK i \in 0 .. p.item.len - 1 : u = <<a[p][1], a[p][2], a[p][3] + i>>
    BY <2>1 DEF Extent
  <2> QED BY <1>3, <2>2
<1> HIDE DEF f, C
<1>8. IsFiniteSet(U) /\ Cardinality(U) = Cardinality(C)
  BY <1>1, <1>4, <1>5, <1>6, SameCount
<1> QED BY <1>1, <1>8 DEF C, U

\* Each placement is on one page, and no two share a grain.
SetApart(s, b, S) ==
    /\ \A p \in S : /\ Addr(s, b, p) \in Grains /\ Addr(s, b, p)[1] = s
                    /\ Addr(s, b, p)[2] = b + p.page
                    /\ p.item.len \in 1 .. UnitsPerPage
                    /\ Addr(s, b, p)[3] + p.item.len <= UnitsPerPage
    /\ \A p, q \in S : p # q => GrainsAt(s, b, p) \cap GrainsAt(s, b, q) = {}
    /\ \A p, q \in S : Addr(s, b, p) = Addr(s, b, q) => p = q

\* Values packed beside each other share no grain.
LEMMA PlacedApart ==
    ASSUME NEW s \in Sblks, NEW b \in Nat, NEW T, NEW P,
           \A t \in T : t.len \in 1 .. UnitsPerPage,
           \A p \in P : IsPlacement(p, T) /\ b + p.page < PagesPerSblk,
           \A p, q \in P : p # q => Aside(p, q)
    PROVE  SetApart(s, b, P)
<1> DEFINE a == [p \in P |-> <<s, b + p.page, p.off>>]
<1>1. ASSUME NEW p \in P
      PROVE  /\ p.item.len \in 1 .. UnitsPerPage /\ p.item.len \in Nat
             /\ p.page \in Nat /\ p.off \in Nat /\ p.off + p.item.len <= UnitsPerPage
  BY Geometry DEF IsPlacement
<1>2. ASSUME NEW p \in P
      PROVE  /\ <<s, b + p.page, p.off>> \in Grains
             /\ a[p] = <<s, b + p.page, p.off>>
             /\ a[p][1] = s /\ a[p][2] = b + p.page /\ a[p][3] = p.off
             /\ p.off + p.item.len <= UnitsPerPage
  <2>1. a[p] = <<s, b + p.page, p.off>>
    OBVIOUS
  <2>2. b + p.page \in Offsets
    BY <1>1, Geometry DEF Offsets
  <2>3. p.off \in 0 .. UnitsPerPage - 1
    BY <1>1, Geometry
  <2> QED BY <1>1, <2>1, <2>2, <2>3 DEF Grains
<1>4. ASSUME NEW p \in P, NEW q \in P, p # q
      PROVE  Extent(a[p], p.item.len) \cap Extent(a[q], q.item.len) = {}
  <2> SUFFICES ASSUME NEW h \in Extent(a[p], p.item.len), h \in Extent(a[q], q.item.len)
               PROVE  FALSE
    OBVIOUS
  <2>1. /\ h \in Grains /\ h[2] = a[p][2] /\ a[p][3] <= h[3] /\ h[3] < a[p][3] + p.item.len
    BY <1>1, <1>2, ExtentFacts
  <2>2. /\ h[2] = a[q][2] /\ a[q][3] <= h[3] /\ h[3] < a[q][3] + q.item.len
    BY <1>1, <1>2, ExtentFacts
  <2>3. h[3] \in Nat
    BY <2>1, GrainParts
  <2>4. p.page = q.page
    BY <1>1, <1>2, <2>1, <2>2
  <2>5. p.off + p.item.len <= q.off \/ q.off + q.item.len <= p.off
    BY <1>4, <2>4 DEF Aside
  <2>6. /\ p.off <= h[3] /\ h[3] < p.off + p.item.len
        /\ q.off <= h[3] /\ h[3] < q.off + q.item.len
    BY <1>2, <2>1, <2>2
  <2> QED BY <1>1, <2>3, <2>5, <2>6
<1>5. ASSUME NEW p \in P, NEW q \in P, a[p] = a[q] PROVE p = q
  <2> SUFFICES ASSUME p # q PROVE FALSE
    OBVIOUS
  <2>1. a[p] \in Extent(a[p], p.item.len) /\ a[q] \in Extent(a[q], q.item.len)
    BY <1>1, <1>2, ExtentFacts
  <2> QED BY <1>4, <1>5, <2>1
<1>6. \A p \in P : a[p] = Addr(s, b, p) /\ GrainsAt(s, b, p) = Extent(a[p], p.item.len)
  BY DEF Addr, GrainsAt
<1> HIDE DEF a
<1>7. \A p \in P : /\ Addr(s, b, p) \in Grains /\ Addr(s, b, p)[1] = s
                   /\ Addr(s, b, p)[2] = b + p.page
                   /\ p.item.len \in 1 .. UnitsPerPage
                   /\ Addr(s, b, p)[3] + p.item.len <= UnitsPerPage
  BY <1>1, <1>2, <1>6
<1>8. \A p, q \in P : p # q => GrainsAt(s, b, p) \cap GrainsAt(s, b, q) = {}
  BY <1>4, <1>6
<1>9. \A p, q \in P : Addr(s, b, p) = Addr(s, b, q) => p = q
  BY <1>5, <1>6
<1> QED BY <1>7, <1>8, <1>9 DEF SetApart

-----------------------------------------------------------------------------
(***************************************************************************)
(* Values.                                                                 *)
(***************************************************************************)
\* Every address in use is a grain handed out, the first of a value's valid ones.
LEMMA AddressFacts ==
    ASSUME NEW d, NEW P, DataSound(d, P), NEW h \in Addresses(d, P)
    PROVE  /\ h \in Grains /\ h \in d.valid /\ h \in ItemAt(d, h)
           /\ d.oob[h].len \in 1 .. UnitsPerPage /\ d.oob[h].len \in Nat
           /\ h[3] + d.oob[h].len <= UnitsPerPage
           /\ \A g \in ItemAt(d, h) : /\ g \in Grains /\ g \in d.valid
                                      /\ g[1] = h[1] /\ g[2] = h[2]
           /\ h[2] < d.b.wp[h[1]]
<1>1. h \in Grains
  BY DEF DataSound, DataTypes, Addresses, MappedPgas
<1>2. d.oob[h].len \in 1 .. UnitsPerPage /\ d.oob[h].len \in Nat
  <2>1. d.oob \in [Grains -> Oob]
    BY DEF DataSound, DataTypes
  <2>2. d.oob[h].len \in 0 .. UnitsPerPage
    BY <1>1, <2>1 DEF Oob
  <2>3. d.oob[h].len > 0
    BY DEF DataSound, ValuesApart
  <2> QED BY <2>2, <2>3, Geometry
<1>3. h[3] + d.oob[h].len <= UnitsPerPage
  BY DEF DataSound, ValuesApart
<1>4. /\ h \in ItemAt(d, h)
      /\ \A g \in ItemAt(d, h) : g \in Grains /\ g[1] = h[1] /\ g[2] = h[2]
  BY <1>1, <1>2, <1>3, ExtentFacts DEF ItemAt
<1>5. \A g \in ItemAt(d, h) : g \in d.valid
  BY DEF DataSound, ValuesApart
<1>6. h[2] < d.b.wp[h[1]]
  <2>1. ~(h[2] >= d.b.wp[h[1]])
    BY <1>1, <1>4, <1>5 DEF DataSound, FreshPages
  <2>2. h[2] \in Nat /\ h[1] \in Sblks
    BY <1>1, GrainParts
  <2>3. d.b.wp[h[1]] \in 0 .. PagesPerSblk
    BY <2>2 DEF DataSound, DataTypes
  <2> QED BY <2>1, <2>2, <2>3, Geometry
<1> QED BY <1>1, <1>2, <1>3, <1>4, <1>5, <1>6

\* The values GC collects are those with an address in the victim.
LEMMA HeadsFacts ==
    ASSUME NEW d, NEW P, DataSound(d, P), NEW v \in Sblks
    PROVE  /\ Heads(d, v) = { h \in Addresses(d, P) : h[1] = v }
           /\ IsFiniteSet(Heads(d, v))
<1>1. ASSUME NEW h \in Heads(d, v) PROVE h \in Addresses(d, P) /\ h[1] = v /\ h \in Grains
  <2>1. h \in d.valid /\ h[1] = v /\ d.oob[h].len > 0
    BY DEF Heads
  <2>2. h \in Addresses(d, P)
    BY <2>1 DEF DataSound, ValuesApart
  <2> QED BY <2>1, <2>2, AddressFacts
<1>2. ASSUME NEW h \in Addresses(d, P), h[1] = v PROVE h \in Heads(d, v)
  <2>1. h \in d.valid /\ d.oob[h].len \in 1 .. UnitsPerPage
    BY AddressFacts
  <2>2. d.oob[h].len > 0
    BY <2>1
  <2> QED BY <1>2, <2>1, <2>2 DEF Heads
<1>3. Heads(d, v) \subseteq Grains
  BY <1>1
<1>4. IsFiniteSet(Heads(d, v))
  BY <1>3, Geometry, FS_Subset
<1> QED BY <1>1, <1>2, <1>4

\* What GC moves: the values of the victim, each of them once.
Moves(d, v) == { [from |-> g, lpa |-> d.oob[g].lpa, len |-> d.oob[g].len] : g \in Heads(d, v) }

\* GC collects every value of the victim, each of them once.
LEMMA CollectedOnce ==
    ASSUME NEW d, NEW P, DataSound(d, P), NEW v \in Sblks
    PROVE  /\ Collected(d, v) \in Seq(Moves(d, v))
           /\ \A i, j \in 1 .. Len(Collected(d, v)) :
                 Collected(d, v)[i] = Collected(d, v)[j] => i = j
           /\ \A t \in Moves(d, v) :
                 \E i \in 1 .. Len(Collected(d, v)) : Collected(d, v)[i] = t
<1> DEFINE S == Heads(d, v)
           N == Cardinality(S)
           R == { c \in Grains \X Grains : Before(c[1], c[2]) }
           rank == [x \in S |-> Rank(S, R, x)]
           at(i) == CHOOSE g \in S : Cardinality({ h \in S : Before(h, g) }) = i - 1
           item(g) == [from |-> g, lpa |-> d.oob[g].lpa, len |-> d.oob[g].len]
           s == [i \in 1 .. N |-> item(at(i))]
<1>1. /\ IsFiniteSet(S) /\ S \subseteq Grains
      /\ \A g \in S : g = <<v, g[2], g[3]>> /\ g[2] \in Nat /\ g[3] \in Nat
  <2>1. \A g \in S : g \in Grains /\ g[1] = v
    BY HeadsFacts, AddressFacts
  <2> QED BY <2>1, HeadsFacts, GrainParts
<1>2. \A g, h \in S : <<g, h>> \in R <=> Before(g, h)
  BY <1>1
<1>3. \A g, h \in S : g # h => <<g, h>> \in R \/ <<h, g>> \in R
  <2> SUFFICES ASSUME NEW g \in S, NEW h \in S, g # h PROVE Before(g, h) \/ Before(h, g)
    BY <1>2
  <2>1. g[2] # h[2] \/ g[3] # h[3]
    BY <1>1
  <2>2. g[2] \in Nat /\ g[3] \in Nat /\ h[2] \in Nat /\ h[3] \in Nat
    BY <1>1
  <2> QED BY <2>1, <2>2 DEF Before
<1>4. \A f, g, h \in S : <<f, g>> \in R /\ <<g, h>> \in R => <<f, h>> \in R
  <2> SUFFICES ASSUME NEW f \in S, NEW g \in S, NEW h \in S, Before(f, g), Before(g, h)
               PROVE  Before(f, h)
    BY <1>2
  <2>1. /\ f[2] \in Nat /\ f[3] \in Nat /\ g[2] \in Nat /\ g[3] \in Nat
        /\ h[2] \in Nat /\ h[3] \in Nat
    BY <1>1
  <2> QED BY <2>1 DEF Before
<1>5. \A g \in S : <<g, g>> \notin R
  <2> SUFFICES ASSUME NEW g \in S PROVE ~Before(g, g)
    BY <1>2
  <2>1. g[2] \in Nat /\ g[3] \in Nat
    BY <1>1
  <2> QED BY <2>1 DEF Before
<1>6. \A g \in S : rank[g] = Cardinality({ h \in S : Before(h, g) })
  <2> SUFFICES ASSUME NEW g \in S
               PROVE  { y \in S : <<y, g>> \in R } = { h \in S : Before(h, g) }
    BY DEF Rank
  <2> QED BY <1>2
<1> HIDE DEF R, S
<1>7. /\ N \in Nat
      /\ \A i \in 1 .. N : \E x \in S : rank[x] = i - 1
      /\ \A x \in S : rank[x] + 1 \in 1 .. N /\ (rank[x] + 1) - 1 = rank[x]
      /\ \A x, y \in S : rank[x] = rank[y] => x = y
  <2>1. /\ N \in Nat
        /\ \A i \in 1 .. N : \E x \in S : Rank(S, R, x) = i - 1
        /\ \A x \in S : Rank(S, R, x) + 1 \in 1 .. N /\ (Rank(S, R, x) + 1) - 1 = Rank(S, R, x)
        /\ \A x, y \in S : Rank(S, R, x) = Rank(S, R, y) => x = y
    BY <1>1, <1>3, <1>4, <1>5, CountedOff
  <2>2. \A x \in S : rank[x] = Rank(S, R, x)
    OBVIOUS
  <2> HIDE DEF rank
  <2> QED BY <2>1, <2>2
<1> HIDE DEF rank
<1>8. ASSUME NEW i \in 1 .. N PROVE at(i) \in S /\ rank[at(i)] = i - 1
  <2>1. \E g \in S : Cardinality({ h \in S : Before(h, g) }) = i - 1
    BY <1>6, <1>7
  <2>2. at(i) \in S /\ Cardinality({ h \in S : Before(h, at(i)) }) = i - 1
    BY <2>1
  <2> HIDE DEF at
  <2> QED BY <1>6, <2>2
<1> HIDE DEF at
<1>9. Collected(d, v) = s
  BY DEF Collected, at, S
<1>10. s \in Seq(Moves(d, v)) /\ Len(s) = N
  <2>1. \A i \in 1 .. N : item(at(i)) \in Moves(d, v)
    BY <1>8 DEF Moves, S
  <2> HIDE DEF item, N
  <2> QED BY <1>7, <2>1
<1>11. ASSUME NEW i \in 1 .. N, NEW j \in 1 .. N, s[i] = s[j] PROVE i = j
  <2>1. at(i) = at(j)
    <3>1. item(at(i)).from = at(i) /\ item(at(j)).from = at(j)
      OBVIOUS
    <3>2. s[i] = item(at(i)) /\ s[j] = item(at(j))
      OBVIOUS
    <3> QED BY <1>11, <3>1, <3>2
  <2>2. i - 1 = j - 1
    BY <1>8, <2>1
  <2>3. i \in Int /\ j \in Int
    BY <1>7
  <2> QED BY <2>2, <2>3
<1>12. ASSUME NEW t \in Moves(d, v) PROVE \E i \in 1 .. N : s[i] = t
  <2>1. PICK g \in S : t = item(g)
    BY DEF Moves, S
  <2>2. PICK i \in 1 .. N : i - 1 = rank[g]
    BY <1>7
  <2>3. at(i) = g
    BY <1>7, <1>8, <2>2
  <2>4. s[i] = item(at(i))
    OBVIOUS
  <2> QED BY <2>1, <2>3, <2>4
<1> HIDE DEF s
<1> QED BY <1>9, <1>10, <1>11, <1>12

\* The grains of the copies GC makes.
Copied(d, S) == UNION { Extent(CopyOf(d, p), p.item.len) : p \in S }

\* What GC moves lands in the reserve, each value once and beside the others.
Relocates(d, v, S) ==
    /\ IsFiniteSet(S) /\ Pk!PagesUsed(S) \in Nat
    /\ \A p \in S :
          /\ p.item.from \in Heads(d, v)
          /\ p.item.lpa = d.oob[p.item.from].lpa /\ p.item.len = d.oob[p.item.from].len
          /\ p.item.len \in 1 .. UnitsPerPage /\ p.item.len \in Nat
          /\ CopyOf(d, p) \in Grains /\ CopyOf(d, p)[1] = d.reserve
          /\ CopyOf(d, p)[2] < d.b.wp[d.reserve] + Pk!PagesUsed(S)
          /\ CopyOf(d, p)[3] + p.item.len <= UnitsPerPage
    /\ \A p, q \in S : p # q =>
          Extent(CopyOf(d, p), p.item.len) \cap Extent(CopyOf(d, q), q.item.len) = {}
    /\ \A p, q \in S : CopyOf(d, p) = CopyOf(d, q) => p = q
    /\ \A p, q \in S : p.item.from = q.item.from => p = q
    /\ \A g \in Heads(d, v) : \E p \in S : p.item.from = g
    /\ Cardinality(Copied(d, S)) = Cardinality(GrainCalls(S))
    /\ Cardinality(GrainCalls(S)) \in Nat

\* What GC collected lands in the reserve, each value once and beside the others.
LEMMA MovesPacked ==
    ASSUME NEW d, NEW P, DataSound(d, P), NEW v \in Sblks,
           NEW S, S = Pk!Pack(Collected(d, v)), Fits(d, S)
    PROVE  Relocates(d, v, S)
<1> DEFINE T == Moves(d, v)
           b == d.b.wp[d.reserve]
           r == d.reserve
<1>1. \A t \in T : t.from \in Heads(d, v) /\ t.lpa = d.oob[t.from].lpa /\ t.len = d.oob[t.from].len
  BY DEF Moves
<1>2. \A g \in Heads(d, v) : d.oob[g].len \in 1 .. UnitsPerPage /\ d.oob[g].len \in Nat
  BY HeadsFacts, AddressFacts
<1>3. \A t \in T : t.len \in 1 .. UnitsPerPage
  BY <1>1, <1>2
<1>4. PICK items : items = Collected(d, v)
  OBVIOUS
<1>5. /\ items \in Seq(T) /\ \A i, j \in 1 .. Len(items) : items[i] = items[j] => i = j
      /\ \A t \in T : \E i \in 1 .. Len(items) : items[i] = t
  BY <1>4, CollectedOnce
<1> HIDE DEF T
<1>6. Packed(S, items, T)
  BY <1>3, <1>4, <1>5, PackResult
<1>7. /\ IsFiniteSet(S) /\ Pk!PagesUsed(S) \in Nat
      /\ \A p \in S : IsPlacement(p, T) /\ p.page < Pk!PagesUsed(S)
      /\ \A p, q \in S : p # q => Aside(p, q)
  BY <1>6 DEF Packed
<1>8. b \in Nat /\ d.reserve \in Sblks /\ b + Pk!PagesUsed(S) <= PagesPerSblk
  <2>1. d.reserve \in Sblks /\ d.b.wp \in [Sblks -> 0 .. PagesPerSblk]
    BY DEF DataSound, DataTypes
  <2>2. b \in 0 .. PagesPerSblk
    BY <2>1
  <2> QED BY <2>1, <2>2, Geometry DEF Fits
<1>9. \A p \in S : /\ p.item \in T /\ p.page \in Nat /\ b + p.page < b + Pk!PagesUsed(S)
                   /\ b + p.page < PagesPerSblk
  <2> SUFFICES ASSUME NEW p \in S
               PROVE  /\ p.item \in T /\ p.page \in Nat /\ b + p.page < b + Pk!PagesUsed(S)
                      /\ b + p.page < PagesPerSblk
    OBVIOUS
  <2>1. p.item \in T /\ p.page \in Nat /\ p.page < Pk!PagesUsed(S)
    BY <1>7 DEF IsPlacement
  <2> HIDE DEF b
  <2> QED BY <1>7, <1>8, <2>1, Geometry
<1> HIDE DEF b
<1>10. /\ \A p \in S : /\ Addr(r, b, p) \in Grains /\ Addr(r, b, p)[1] = r
                       /\ Addr(r, b, p)[2] = b + p.page
                       /\ p.item.len \in 1 .. UnitsPerPage
                       /\ Addr(r, b, p)[3] + p.item.len <= UnitsPerPage
       /\ \A p, q \in S : p # q => GrainsAt(r, b, p) \cap GrainsAt(r, b, q) = {}
       /\ \A p, q \in S : Addr(r, b, p) = Addr(r, b, q) => p = q
  <2>1. r \in Sblks /\ b \in Nat
    BY <1>8
  <2>2. \A p \in S : IsPlacement(p, T) /\ b + p.page < PagesPerSblk
    BY <1>7, <1>9
  <2>3. \A p, q \in S : p # q => Aside(p, q)
    BY <1>7
  <2> HIDE DEF r
  <2>4. SetApart(r, b, S)
    BY <1>3, <2>1, <2>2, <2>3, PlacedApart
  <2> QED BY <2>4 DEF SetApart
<1>11. /\ \A p \in S : /\ Addr(r, b, p) = CopyOf(d, p)
                       /\ GrainsAt(r, b, p) = Extent(CopyOf(d, p), p.item.len)
       /\ GrainsOf(r, b, S) = Copied(d, S)
  BY DEF CopyOf, Copied, GrainsOf, GrainsAt, Addr, b
<1> HIDE DEF r
<1>12. /\ Cardinality(GrainsOf(r, b, S)) = Cardinality(GrainCalls(S))
       /\ Cardinality(GrainCalls(S)) \in Nat
  BY <1>7, <1>10, CallsCount
<1>14. ASSUME NEW p \in S
       PROVE  /\ p.item.from \in Heads(d, v)
              /\ p.item.lpa = d.oob[p.item.from].lpa /\ p.item.len = d.oob[p.item.from].len
              /\ p.item.len \in 1 .. UnitsPerPage /\ p.item.len \in Nat
              /\ CopyOf(d, p) \in Grains /\ CopyOf(d, p)[1] = d.reserve
              /\ CopyOf(d, p)[2] < d.b.wp[d.reserve] + Pk!PagesUsed(S)
              /\ CopyOf(d, p)[3] + p.item.len <= UnitsPerPage
  <2>1. /\ p.item.from \in Heads(d, v)
        /\ p.item.lpa = d.oob[p.item.from].lpa /\ p.item.len = d.oob[p.item.from].len
    BY <1>1, <1>9 DEF T
  <2>2. p.item.len \in Nat
    BY <1>2, <2>1
  <2>3. CopyOf(d, p) = Addr(r, b, p)
    BY <1>11
  <2>4. Addr(r, b, p)[2] < d.b.wp[d.reserve] + Pk!PagesUsed(S)
    BY <1>9, <1>10 DEF b
  <2> QED BY <1>10, <2>1, <2>2, <2>3, <2>4 DEF r
<1>15. ASSUME NEW p \in S, NEW q \in S, p.item.from = q.item.from PROVE p = q
  <2>1. p.item \in T /\ q.item \in T
    BY <1>9
  <2>2. p.item = q.item
    BY <1>15, <2>1 DEF T, Moves
  <2> QED BY <1>7, <2>2 DEF Aside
<1>16. ASSUME NEW g \in Heads(d, v) PROVE \E p \in S : p.item.from = g
  <2>1. PICK t : t = [from |-> g, lpa |-> d.oob[g].lpa, len |-> d.oob[g].len]
    OBVIOUS
  <2>4. t \in T /\ t.from = g
    BY <2>1 DEF T, Moves
  <2>2. PICK i \in 1 .. Len(items) : items[i] = t
    BY <1>5, <2>4
  <2>3. PICK p \in S : p.item = t
    BY <1>6, <2>2 DEF Packed
  <2> QED BY <2>3, <2>4
<1>17. /\ \A p, q \in S : p # q =>
             Extent(CopyOf(d, p), p.item.len) \cap Extent(CopyOf(d, q), q.item.len) = {}
       /\ \A p, q \in S : CopyOf(d, p) = CopyOf(d, q) => p = q
  BY <1>10, <1>11
<1>18. Cardinality(Copied(d, S)) = Cardinality(GrainCalls(S))
  BY <1>11, <1>12
<1> QED BY <1>7, <1>12, <1>14, <1>15, <1>16, <1>17, <1>18 DEF Relocates

-----------------------------------------------------------------------------
(***************************************************************************)
(* Garbage collection.                                                     *)
(***************************************************************************)
\* The data store after a GC, field by field.
AfterGc(d, v, S, t, x) ==
    /\ IsData(x) /\ IsPartition(x.b)
    /\ x.b.wp = [d.b.wp EXCEPT ![d.reserve] = @ + Pk!PagesUsed(S), ![v] = 0]
    /\ x.b.vcnt = [d.b.vcnt EXCEPT ![d.reserve] = @ + Cardinality(GrainCalls(S)), ![v] = 0]
    /\ x.b.rsv = v /\ x.b.active = d.b.active /\ x.b.free = d.b.free
    /\ x.valid = gc_valid(d, v, S) /\ x.oob = gc_oob(d, v, S) /\ x.table = t
    /\ x.active = d.reserve /\ x.reserve = v /\ x.aborted = d.aborted

\* What dpage_gc_dvalue changes, field by field.
LEMMA GcFields ==
    ASSUME NEW d, IsData(d), IsPartition(d.b), NEW v, NEW S, NEW t,
           NEW x, x = [moved(d, v, S) EXCEPT !.table = t]
    PROVE  AfterGc(d, v, S, t, x)
<1> DEFINE r == d.reserve
           n == Pk!PagesUsed(S)
           c == Cardinality(GrainCalls(S))
<1>1. PICK b : b = change_reserve(gc_counters(d, v, S), v)
  OBVIOUS
<1>2. /\ IsPartition(b) /\ b.wp = [d.b.wp EXCEPT ![r] = @ + n, ![v] = 0]
      /\ b.vcnt = [d.b.vcnt EXCEPT ![r] = @ + c, ![v] = 0]
      /\ b.rsv = v /\ b.active = d.b.active /\ b.free = d.b.free
  <2> HIDE DEF r, n, c
  <2>1. ASSUME NEW f, f = [d.b EXCEPT !.wp[r] = @ + n, !.vcnt[r] = @ + c]
        PROVE  /\ IsPartition(f) /\ f.wp = [d.b.wp EXCEPT ![r] = @ + n]
               /\ f.vcnt = [d.b.vcnt EXCEPT ![r] = @ + c]
               /\ f.active = d.b.active /\ f.free = d.b.free
    BY <2>1 DEF IsPartition
  <2>2. ASSUME NEW f, IsPartition(f), NEW g, g = trim_segment(f, v)
        PROVE  /\ IsPartition(g) /\ g.wp = [f.wp EXCEPT ![v] = 0]
               /\ g.vcnt = [f.vcnt EXCEPT ![v] = 0]
               /\ g.active = f.active /\ g.free = f.free
    BY <2>2 DEF trim_segment, IsPartition
  <2>3. ASSUME NEW g, IsPartition(g), b = change_reserve(g, v)
        PROVE  /\ IsPartition(b) /\ b.wp = g.wp /\ b.vcnt = g.vcnt
               /\ b.rsv = v /\ b.active = g.active /\ b.free = g.free
    BY <2>3 DEF change_reserve, IsPartition
  <2>4. PICK f : f = [d.b EXCEPT !.wp[r] = @ + n, !.vcnt[r] = @ + c]
    OBVIOUS
  <2>5. PICK g : g = trim_segment(f, v)
    OBVIOUS
  <2>6. b = change_reserve(g, v)
    BY <1>1, <2>4, <2>5 DEF gc_counters, r, n, c
  <2>7. /\ IsPartition(f) /\ f.wp = [d.b.wp EXCEPT ![r] = @ + n]
        /\ f.vcnt = [d.b.vcnt EXCEPT ![r] = @ + c]
        /\ f.active = d.b.active /\ f.free = d.b.free
    BY <2>1, <2>4
  <2>8. /\ IsPartition(g) /\ g.wp = [f.wp EXCEPT ![v] = 0]
        /\ g.vcnt = [f.vcnt EXCEPT ![v] = 0]
        /\ g.active = f.active /\ g.free = f.free
    BY <2>2, <2>5, <2>7
  <2>9. /\ IsPartition(b) /\ b.wp = g.wp /\ b.vcnt = g.vcnt
        /\ b.rsv = v /\ b.active = g.active /\ b.free = g.free
    BY <2>3, <2>6, <2>8
  <2> QED BY <2>7, <2>8, <2>9
<1>3. PICK V : V = gc_valid(d, v, S)
  OBVIOUS
<1>4. PICK o : o = gc_oob(d, v, S)
  OBVIOUS
<1>5. PICK w : w = gc_dev(d, v, n)
  OBVIOUS
<1>6. PICK f : f = (d.refused \/ Dev!Accepted(d.dev, r, d.b.wp[r], n) # n)
  OBVIOUS
<1>7. PICK y : y = moved(d, v, S)
  OBVIOUS
<1>8. y = [d EXCEPT !.b = b, !.valid = V, !.oob = o, !.dev = w, !.refused = f,
                    !.active = r, !.reserve = v]
  BY <1>1, <1>3, <1>4, <1>5, <1>6, <1>7 DEF moved
<1> HIDE DEF r, n, c
<1>9. /\ IsData(y) /\ y.b = b /\ y.valid = V /\ y.oob = o
      /\ y.active = r /\ y.reserve = v /\ y.aborted = d.aborted
  BY <1>8 DEF IsData
<1>10. x = [y EXCEPT !.table = t]
  BY <1>7
<1>11. /\ IsData(x) /\ x.b = b /\ x.valid = V /\ x.oob = o /\ x.table = t
       /\ x.active = r /\ x.reserve = v /\ x.aborted = d.aborted
  BY <1>9, <1>10 DEF IsData
<1> QED BY <1>2, <1>3, <1>4, <1>11 DEF AfterGc, r, n, c

\* The pte of every value in the victim, and of no other, points at the copy.
Repoints(d, v, S, t) ==
    /\ t \in [Lpas -> Grains \cup {NoPga}]
    /\ \A l \in Lpas : d.table[l][1] # v => t[l] = d.table[l]
    /\ \A p \in S : /\ p.item.lpa \in Lpas /\ d.table[p.item.lpa] = p.item.from
                    /\ t[p.item.lpa] = CopyOf(d, p)
    /\ \A l \in Lpas : d.table[l][1] = v => \E p \in S : p.item.lpa = l

\* _do_bulk_mapping_update points the pte of every value of the victim at its copy.
LEMMA GcRepoints ==
    ASSUME NEW d, NEW P, DataSound(d, P), NEW v \in Sblks, \A h \in P : h[1] # v,
           NEW S, Relocates(d, v, S), NEW t \in gc_tables(d, S)
    PROVE  Repoints(d, v, S, t)
<1> DEFINE copies(l) == { CopyOf(d, p) : p \in { p \in S : p.item.lpa = l } }
<1>1. /\ t \in [Lpas -> { CopyOf(d, p) : p \in S } \cup { d.table[l] : l \in Lpas }]
      /\ \A l \in Lpas : IF copies(l) = {} THEN t[l] = d.table[l] ELSE t[l] \in copies(l)
  BY DEF gc_tables
<1>2. /\ d.table \in [Lpas -> Grains \cup {NoPga}]
      /\ \A l \in Lpas : d.table[l] # NoPga => d.oob[d.table[l]].lpa = l
  BY DEF DataSound, DataTypes, OobNames
<1>3. ASSUME NEW p \in S
      PROVE  /\ p.item.lpa \in Lpas /\ d.table[p.item.lpa] = p.item.from
             /\ p.item.from[1] = v /\ CopyOf(d, p) \in Grains
  <2>1. p.item.from \in Heads(d, v) /\ p.item.lpa = d.oob[p.item.from].lpa
    BY DEF Relocates
  <2>2. p.item.from \in Addresses(d, P) /\ p.item.from[1] = v
    BY <2>1, HeadsFacts
  <2>3. p.item.from \in MappedPgas(d)
    BY <2>2 DEF Addresses
  <2>4. PICK l \in Lpas : d.table[l] = p.item.from /\ d.table[l] # NoPga
    BY <2>3 DEF MappedPgas
  <2> QED BY <1>2, <2>1, <2>2, <2>4 DEF Relocates
<1>4. ASSUME NEW l \in Lpas, d.table[l][1] # v PROVE t[l] = d.table[l]
  <2>1. copies(l) = {}
    BY <1>3, <1>4
  <2> QED BY <1>1, <2>1
<1>5. ASSUME NEW p \in S PROVE t[p.item.lpa] = CopyOf(d, p)
  <2>1. CopyOf(d, p) \in copies(p.item.lpa)
    OBVIOUS
  <2>2. t[p.item.lpa] \in copies(p.item.lpa)
    BY <1>1, <1>3, <2>1
  <2>3. PICK q \in S : q.item.lpa = p.item.lpa /\ t[p.item.lpa] = CopyOf(d, q)
    BY <2>2
  <2>4. q.item.from = p.item.from
    BY <1>3, <2>3
  <2>5. q = p
    BY <2>4 DEF Relocates
  <2> QED BY <2>3, <2>5
<1>6. ASSUME NEW l \in Lpas, d.table[l][1] = v PROVE \E p \in S : p.item.lpa = l
  <2>1. NoPga[1] # v
    BY Geometry DEF NoPga
  <2>2. d.table[l] # NoPga
    BY <1>6, <2>1
  <2>3. d.table[l] \in Addresses(d, P)
    BY <2>2 DEF Addresses, MappedPgas
  <2>4. d.table[l] \in Heads(d, v)
    BY <1>6, <2>3, HeadsFacts
  <2>5. PICK p \in S : p.item.from = d.table[l]
    BY <2>4 DEF Relocates
  <2>6. p.item.lpa = d.oob[d.table[l]].lpa
    BY <2>5 DEF Relocates
  <2> QED BY <1>2, <2>2, <2>6
<1>7. \A l \in Lpas : t[l] \in Grains \cup {NoPga}
  <2> SUFFICES ASSUME NEW l \in Lpas PROVE t[l] \in Grains \cup {NoPga}
    OBVIOUS
  <2>1. CASE d.table[l][1] # v
    BY <1>2, <1>4, <2>1
  <2>2. CASE d.table[l][1] = v
    <3>1. PICK p \in S : p.item.lpa = l
      BY <1>6, <2>2
    <3> QED BY <1>3, <1>5, <3>1
  <2> QED BY <2>1, <2>2
<1>8. t \in [Lpas -> Grains \cup {NoPga}]
  BY <1>1, <1>7
<1> QED BY <1>3, <1>4, <1>5, <1>6, <1>8 DEF Repoints

\* A GC that collects no placed value keeps everything.
LEMMA GcKeeps ==
    ASSUME NEW d, NEW P, DataSound(d, P), NEW v \in Sblks, v # d.reserve,
           \A h \in P : h[1] # v,
           NEW S, Relocates(d, v, S), Fits(d, S), NEW t, Repoints(d, v, S, t),
           NEW x, AfterGc(d, v, S, t, x)
    PROVE  DataSound(x, P) /\ x.active = d.reserve /\ x.aborted = d.aborted
<1> DEFINE r == d.reserve
           n == Pk!PagesUsed(S)
           c == Cardinality(GrainCalls(S))
           Kept == { h \in Addresses(d, P) : h[1] # v }
           Copies == { CopyOf(d, p) : p \in S }
<1>1. /\ IsData(d) /\ IsPartition(d.b) /\ d.b.wp \in [Sblks -> 0 .. PagesPerSblk]
      /\ d.b.vcnt \in [Sblks -> Nat] /\ d.b.active \in Sblks \cup {NoSblk}
      /\ d.valid \subseteq Grains /\ d.oob \in [Grains -> Oob]
      /\ d.table \in [Lpas -> Grains \cup {NoPga}] /\ r \in Sblks /\ d.aborted \in BOOLEAN
      /\ P \subseteq Grains /\ d.b.wp[r] = 0 /\ r # v
      /\ \A l \in Lpas : d.table[l] # NoPga =>
            d.oob[d.table[l]].lpa = l /\ d.table[l] \notin P
      /\ \A g \in Grains : g[2] >= d.b.wp[g[1]] => g \notin d.valid /\ d.oob[g].len = 0
      /\ \A i \in Sblks : d.b.vcnt[i] = Cardinality(ValidIn(d, i))
  BY DEF DataSound, DataTypes, ReserveErased, OobNames, FreshPages, Counted
<1>2. /\ IsData(x) /\ IsPartition(x.b)
      /\ x.b.wp = [d.b.wp EXCEPT ![r] = @ + n, ![v] = 0]
      /\ x.b.vcnt = [d.b.vcnt EXCEPT ![r] = @ + c, ![v] = 0]
      /\ x.b.rsv = v /\ x.b.active = d.b.active
      /\ x.valid = gc_valid(d, v, S) /\ x.oob = gc_oob(d, v, S) /\ x.table = t
      /\ x.active = r /\ x.reserve = v /\ x.aborted = d.aborted
  BY DEF AfterGc
<1>3. /\ n \in Nat /\ n <= PagesPerSblk /\ c \in Nat
      /\ Cardinality(Copied(d, S)) = c
      /\ \A p \in S : /\ CopyOf(d, p) \in Grains /\ CopyOf(d, p)[1] = r
                      /\ CopyOf(d, p)[2] < n /\ p.item.len \in 1 .. UnitsPerPage
                      /\ p.item.len \in Nat /\ CopyOf(d, p)[3] + p.item.len <= UnitsPerPage
                      /\ p.item.lpa = d.oob[p.item.from].lpa
      /\ \A p, q \in S : p # q =>
            Extent(CopyOf(d, p), p.item.len) \cap Extent(CopyOf(d, q), q.item.len) = {}
      /\ \A p, q \in S : CopyOf(d, p) = CopyOf(d, q) => p = q
  <2>1. /\ n \in Nat /\ c \in Nat /\ Cardinality(Copied(d, S)) = c
        /\ \A p \in S : /\ CopyOf(d, p) \in Grains /\ CopyOf(d, p)[1] = r
                        /\ CopyOf(d, p)[2] < d.b.wp[d.reserve] + n
                        /\ p.item.len \in 1 .. UnitsPerPage
                        /\ p.item.len \in Nat /\ CopyOf(d, p)[3] + p.item.len <= UnitsPerPage
                        /\ p.item.lpa = d.oob[p.item.from].lpa
        /\ \A p, q \in S : p # q =>
              Extent(CopyOf(d, p), p.item.len) \cap Extent(CopyOf(d, q), q.item.len) = {}
        /\ \A p, q \in S : CopyOf(d, p) = CopyOf(d, q) => p = q
    BY DEF Relocates
  <2>2. d.b.wp[d.reserve] + n <= PagesPerSblk
    BY DEF Fits
  <2> HIDE DEF n, c
  <2>3. d.b.wp[d.reserve] + n = n
    BY <1>1, <2>1
  <2> HIDE DEF r
  <2> QED BY <2>1, <2>2, <2>3
<1>4. /\ t \in [Lpas -> Grains \cup {NoPga}]
      /\ \A l \in Lpas : d.table[l][1] # v => t[l] = d.table[l]
      /\ \A p \in S : /\ p.item.lpa \in Lpas /\ d.table[p.item.lpa] = p.item.from
                      /\ t[p.item.lpa] = CopyOf(d, p)
      /\ \A l \in Lpas : d.table[l][1] = v => \E p \in S : p.item.lpa = l
  BY DEF Repoints
<1> HIDE DEF r, n, c
<1>5. /\ x.b.wp \in [Sblks -> 0 .. PagesPerSblk]
      /\ \A i \in Sblks : x.b.wp[i] = IF i = v THEN 0 ELSE IF i = r THEN n ELSE d.b.wp[i]
  <2>1. n \in 0 .. PagesPerSblk /\ 0 \in 0 .. PagesPerSblk /\ d.b.wp[r] + n = n
    BY <1>1, <1>3, Geometry
  <2> QED BY <1>1, <1>2, <2>1
<1>6. /\ x.b.vcnt \in [Sblks -> Nat]
      /\ \A i \in Sblks : x.b.vcnt[i] = IF i = v THEN 0 ELSE IF i = r THEN d.b.vcnt[r] + c
                                         ELSE d.b.vcnt[i]
  BY <1>1, <1>2, <1>3
\* Nothing was in the reserve.
<1>7. \A g \in d.valid : g \in Grains /\ g[1] # r
  <2> SUFFICES ASSUME NEW g \in d.valid, g[1] = r PROVE FALSE
    BY <1>1
  <2>1. g \in Grains /\ g[2] \in Nat
    BY <1>1, GrainParts
  <2>2. g[2] >= d.b.wp[g[1]]
    BY <1>1, <2>1
  <2> QED BY <1>1, <2>1, <2>2
<1>8. \A h \in Kept : /\ h \in Grains /\ h \in d.valid /\ h[1] # v /\ h[1] # r /\ h \notin Copies
                      /\ h \in Addresses(d, P)
  <2>1. \A h \in Addresses(d, P) : h \in Grains /\ h \in d.valid
    BY AddressFacts
  <2> QED BY <1>3, <1>7, <2>1
<1>9. Addresses(x, P) = Kept \cup Copies
  <2>1. ASSUME NEW h \in Addresses(x, P) PROVE h \in Kept \cup Copies
    <3>1. CASE h \in P
      BY <3>1 DEF Addresses
    <3>2. CASE h \notin P
      <4>1. PICK l \in Lpas : h = t[l] /\ h # NoPga
        BY <1>2, <3>2 DEF Addresses, MappedPgas
      <4>2. CASE d.table[l][1] = v
        BY <1>4, <4>1, <4>2
      <4>3. CASE d.table[l][1] # v
        <5>1. h = d.table[l] /\ h[1] # v
          BY <1>4, <4>1, <4>3
        <5> QED BY <4>1, <5>1 DEF Addresses, MappedPgas
      <4> QED BY <4>2, <4>3
    <3> QED BY <3>1, <3>2
  <2>2. ASSUME NEW h \in Kept PROVE h \in Addresses(x, P)
    <3>1. CASE h \in P
      BY <3>1 DEF Addresses
    <3>2. CASE h \notin P
      <4>1. PICK l \in Lpas : h = d.table[l] /\ h # NoPga
        BY <3>2 DEF Addresses, MappedPgas
      <4>2. t[l] = h
        BY <1>4, <4>1
      <4> QED BY <1>2, <4>1, <4>2 DEF Addresses, MappedPgas
    <3> QED BY <3>1, <3>2
  <2>3. ASSUME NEW p \in S PROVE CopyOf(d, p) \in Addresses(x, P)
    <3>1. t[p.item.lpa] = CopyOf(d, p) /\ p.item.lpa \in Lpas /\ CopyOf(d, p) # NoPga
      BY <1>3, <1>4, Geometry
    <3> QED BY <1>2, <3>1 DEF Addresses, MappedPgas
  <2> QED BY <2>1, <2>2, <2>3
<1>10. /\ \A g \in Grains : g[1] = v => x.oob[g] = NoOob
       /\ \A g \in Grains : g[1] # v /\ g \notin Copies => x.oob[g] = d.oob[g]
       /\ \A p \in S : /\ x.oob[CopyOf(d, p)] = [lpa |-> p.item.lpa, len |-> p.item.len]
                       /\ x.oob[CopyOf(d, p)].lpa = p.item.lpa
                       /\ x.oob[CopyOf(d, p)].len = p.item.len
  <2>1. \A g \in Grains : g[1] = v => x.oob[g] = NoOob
    BY <1>2 DEF gc_oob
  <2>2. \A g \in Grains : g[1] # v /\ g \notin Copies => x.oob[g] = d.oob[g]
    BY <1>2 DEF gc_oob
  <2>3. ASSUME NEW p \in S
        PROVE  /\ x.oob[CopyOf(d, p)] = [lpa |-> p.item.lpa, len |-> p.item.len]
               /\ x.oob[CopyOf(d, p)].lpa = p.item.lpa
               /\ x.oob[CopyOf(d, p)].len = p.item.len
    <3>1. PICK q : q = CHOOSE z \in S : CopyOf(d, z) = CopyOf(d, p)
      OBVIOUS
    <3>2. q = p
      <4>1. q \in S /\ CopyOf(d, q) = CopyOf(d, p)
        BY <3>1
      <4> QED BY <1>3, <4>1
    <3>3. PICK g : g = CopyOf(d, p)
      OBVIOUS
    <3>4. g \in Grains /\ g[1] # v
      BY <1>1, <1>3, <3>3
    <3>5. x.oob[g] = [lpa |-> q.item.lpa, len |-> q.item.len]
      BY <1>2, <3>1, <3>3, <3>4 DEF gc_oob
    <3> QED BY <3>2, <3>3, <3>5
  <2> QED BY <2>1, <2>2, <2>3
<1>11. x.oob \in [Grains -> Oob]
  <2>1. \A g \in Grains : x.oob[g] \in Oob
    <3> SUFFICES ASSUME NEW g \in Grains PROVE x.oob[g] \in Oob
      OBVIOUS
    <3>1. CASE g[1] = v
      <4>1. NoOob \in Oob
        BY Geometry DEF NoOob, Oob
      <4> QED BY <1>10, <3>1, <4>1
    <3>2. CASE g[1] # v /\ g \notin Copies
      BY <1>1, <1>10, <3>2
    <3>3. CASE g[1] # v /\ g \in Copies
      <4>1. PICK p \in S : g = CopyOf(d, p)
        BY <3>3
      <4>2. x.oob[g] = [lpa |-> p.item.lpa, len |-> p.item.len]
        BY <1>10, <4>1
      <4>3. p.item.lpa \in Lpas /\ p.item.len \in 0 .. UnitsPerPage
        BY <1>3, <1>4, Geometry
      <4> QED BY <4>2, <4>3 DEF Oob
    <3> QED BY <3>1, <3>2, <3>3
  <2>2. x.oob = [g \in Grains |-> x.oob[g]]
    BY <1>2 DEF gc_oob
  <2> QED BY <2>1, <2>2
<1> HIDE DEF Copies, Kept
<1>12. \A h \in Kept : x.oob[h] = d.oob[h] /\ ItemAt(x, h) = ItemAt(d, h)
  BY <1>8, <1>10 DEF ItemAt
<1>13. \A p \in S : ItemAt(x, CopyOf(d, p)) = Extent(CopyOf(d, p), p.item.len)
  BY <1>10 DEF ItemAt
<1>14. \A p \in S : \A g \in Extent(CopyOf(d, p), p.item.len) :
           g \in Grains /\ g[1] = r /\ g[2] < n
  <2> SUFFICES ASSUME NEW p \in S, NEW g \in Extent(CopyOf(d, p), p.item.len)
               PROVE  g \in Grains /\ g[1] = r /\ g[2] < n
    OBVIOUS
  <2> QED BY <1>3, ExtentFacts
<1>15. \A h \in Kept : \A g \in ItemAt(d, h) : g \in Grains /\ g \in d.valid /\ g[1] = h[1]
  BY <1>8, AddressFacts
<1>16. x.valid = { g \in d.valid : g[1] # v } \cup Copied(d, S)
  BY <1>2 DEF gc_valid, Copied
<1>17. x.valid \subseteq Grains
  BY <1>1, <1>14, <1>16 DEF Copied

<1>18. ASSUME NEW h \in Addresses(x, P)
       PROVE  x.oob[h].len > 0 /\ h[3] + x.oob[h].len <= UnitsPerPage
  <2>1. CASE h \in Kept
    <3>1. d.oob[h].len \in 1 .. UnitsPerPage /\ h[3] + d.oob[h].len <= UnitsPerPage
      BY <1>8, <2>1, AddressFacts
    <3> QED BY <1>12, <2>1, <3>1
  <2>2. CASE h \in Copies
    <3>1. PICK p \in S : h = CopyOf(d, p)
      BY <2>2 DEF Copies
    <3>2. /\ x.oob[h].len = p.item.len /\ p.item.len \in 1 .. UnitsPerPage
          /\ h[3] + p.item.len <= UnitsPerPage
      BY <1>3, <1>10, <3>1
    <3> QED BY <3>2
  <2> QED BY <1>9, <1>18, <2>1, <2>2
<1>19. ASSUME NEW h \in Addresses(x, P), NEW k \in Addresses(x, P), h # k
       PROVE  ItemAt(x, h) \cap ItemAt(x, k) = {}
  <2>1. CASE h \in Kept /\ k \in Kept
    <3>1. ItemAt(d, h) \cap ItemAt(d, k) = {}
      BY <1>8, <1>19, <2>1 DEF DataSound, ValuesApart
    <3> QED BY <1>12, <2>1, <3>1
  <2>2. ASSUME NEW p \in S, NEW g \in Kept
        PROVE  Extent(CopyOf(d, p), p.item.len) \cap ItemAt(d, g) = {}
    BY <1>8, <1>14, <1>15
  <2>3. CASE h \in Copies /\ k \in Copies
    <3>1. PICK p \in S : h = CopyOf(d, p)
      BY <2>3 DEF Copies
    <3>2. PICK q \in S : k = CopyOf(d, q)
      BY <2>3 DEF Copies
    <3>3. p # q
      BY <1>19, <3>1, <3>2
    <3> QED BY <1>3, <1>13, <3>1, <3>2, <3>3
  <2>4. CASE h \in Copies /\ k \in Kept
    <3>1. PICK p \in S : h = CopyOf(d, p)
      BY <2>4 DEF Copies
    <3> QED BY <1>12, <1>13, <2>2, <2>4, <3>1
  <2>5. CASE h \in Kept /\ k \in Copies
    <3>1. PICK p \in S : k = CopyOf(d, p)
      BY <2>5 DEF Copies
    <3> QED BY <1>12, <1>13, <2>2, <2>5, <3>1
  <2> QED BY <1>9, <2>1, <2>3, <2>4, <2>5
<1>20. ASSUME NEW g \in x.valid PROVE \E h \in Addresses(x, P) : g \in ItemAt(x, h)
  <2>1. CASE g \in Copied(d, S)
    <3>1. PICK p \in S : g \in Extent(CopyOf(d, p), p.item.len)
      BY <2>1 DEF Copied
    <3>2. CopyOf(d, p) \in Addresses(x, P)
      BY <1>9 DEF Copies
    <3> QED BY <1>13, <3>1, <3>2
  <2>2. CASE g \in d.valid /\ g[1] # v
    <3>1. PICK h \in Addresses(d, P) : g \in ItemAt(d, h)
      BY <2>2 DEF DataSound, ValuesApart
    <3>2. g[1] = h[1]
      BY <3>1, AddressFacts
    <3>3. h \in Kept
      BY <2>2, <3>1, <3>2 DEF Kept
    <3> QED BY <1>9, <1>12, <3>1, <3>3
  <2> QED BY <1>16, <2>1, <2>2
<1>21. ASSUME NEW h \in Addresses(x, P), NEW g \in ItemAt(x, h) PROVE g \in x.valid
  <2>1. CASE h \in Kept
    <3>1. g \in d.valid /\ g[1] # v
      BY <1>8, <1>12, <1>15, <1>21, <2>1
    <3> QED BY <1>16, <3>1
  <2>2. CASE h \in Copies
    <3>1. PICK p \in S : h = CopyOf(d, p)
      BY <2>2 DEF Copies
    <3>2. g \in Copied(d, S)
      BY <1>13, <1>21, <3>1 DEF Copied
    <3> QED BY <1>16, <3>2
  <2> QED BY <1>9, <2>1, <2>2
<1>22. ASSUME NEW g \in x.valid, x.oob[g].len > 0 PROVE g \in Addresses(x, P)
  <2>1. CASE g \in Copies
    BY <1>9, <2>1
  <2>2. CASE g \in Copied(d, S) /\ g \notin Copies
    <3>1. g \in Grains /\ g[1] = r
      BY <1>14, <2>2 DEF Copied
    <3>2. g[2] \in Nat /\ g[2] >= d.b.wp[g[1]]
      BY <1>1, <3>1, GrainParts
    <3>3. d.oob[g].len = 0
      BY <1>1, <3>1, <3>2
    <3>4. x.oob[g] = d.oob[g]
      BY <1>1, <1>10, <2>2, <3>1
    <3> QED BY <1>22, <3>3, <3>4
  <2>3. CASE g \in d.valid /\ g[1] # v /\ g \notin Copies
    <3>1. d.oob[g].len > 0
      BY <1>1, <1>10, <1>22, <2>3
    <3>2. g \in Addresses(d, P)
      BY <2>3, <3>1 DEF DataSound, ValuesApart
    <3> QED BY <1>9, <2>3, <3>2 DEF Kept
  <2> QED BY <1>16, <2>1, <2>2, <2>3
<1>23. ValuesApart(x, P)
  <2>1. x.valid = UNION { ItemAt(x, h) : h \in Addresses(x, P) }
    BY <1>20, <1>21
  <2> QED BY <1>18, <1>19, <1>22, <2>1 DEF ValuesApart
<1>24. OobNames(x, P)
  <2> SUFFICES ASSUME NEW l \in Lpas, t[l] # NoPga
               PROVE  x.oob[t[l]].lpa = l /\ t[l] \notin P
    BY <1>2 DEF OobNames
  <2>1. CASE d.table[l][1] = v
    <3>1. PICK p \in S : p.item.lpa = l
      BY <1>4, <2>1
    <3>2. t[l] = CopyOf(d, p)
      BY <1>4, <3>1
    <3>3. CopyOf(d, p) \notin P
      <4>1. \A h \in P : h \in d.valid
        BY AddressFacts DEF Addresses
      <4> QED BY <1>3, <1>7, <4>1
    <3> QED BY <1>10, <3>1, <3>2, <3>3
  <2>2. CASE d.table[l][1] # v
    <3>1. t[l] = d.table[l]
      BY <1>4, <2>2
    <3>2. d.table[l] \in Kept
      BY <2>2, <3>1 DEF Kept, Addresses, MappedPgas
    <3> QED BY <1>1, <1>12, <3>1, <3>2
  <2> QED BY <2>1, <2>2
<1>25. FreshPages(x)
  <2> SUFFICES ASSUME NEW g \in Grains, g[2] >= x.b.wp[g[1]]
               PROVE  g \notin x.valid /\ x.oob[g].len = 0
    BY DEF FreshPages
  <2>1. g[1] \in Sblks /\ g[2] \in Nat
    BY GrainParts
  <2>2. CASE g[1] = v
    <3>1. g \notin x.valid
      BY <1>1, <1>14, <1>16, <2>2 DEF Copied
    <3> QED BY <1>10, <2>2, <3>1 DEF NoOob
  <2>3. CASE g[1] = r
    <3>1. ~(g[2] < n)
      BY <1>1, <1>3, <1>5, <2>1, <2>3
    <3>2. g \notin Copied(d, S) /\ g \notin Copies
      BY <1>3, <1>14, <3>1 DEF Copied, Copies
    <3>3. g \notin x.valid
      BY <1>7, <1>16, <2>3, <3>2
    <3>4. g[2] >= d.b.wp[g[1]]
      BY <1>1, <2>1, <2>3
    <3>5. x.oob[g] = d.oob[g]
      BY <1>1, <1>10, <2>3, <3>2
    <3> QED BY <1>1, <3>3, <3>4, <3>5
  <2>4. CASE g[1] # v /\ g[1] # r
    <3>1. g[2] >= d.b.wp[g[1]]
      BY <1>5, <2>1, <2>4
    <3>2. g \notin Copied(d, S) /\ g \notin Copies
      BY <1>3, <1>14, <2>4 DEF Copied, Copies
    <3>3. x.oob[g] = d.oob[g]
      BY <1>10, <2>4, <3>2
    <3> QED BY <1>1, <1>16, <3>1, <3>2, <3>3
  <2> QED BY <2>2, <2>3, <2>4
<1>26. ReserveErased(x)
  BY <1>1, <1>2, <1>5 DEF ReserveErased
<1>27. Counted(x)
  <2> SUFFICES ASSUME NEW i \in Sblks PROVE x.b.vcnt[i] = Cardinality(ValidIn(x, i))
    BY DEF Counted
  <2>1. CASE i = v
    <3>1. ValidIn(x, i) = {}
      BY <1>1, <1>14, <1>16, <2>1 DEF ValidIn, Copied
    <3> QED BY <1>6, <2>1, <3>1, FS_EmptySet
  <2>2. CASE i = r
    <3>1. ValidIn(d, i) = {}
      BY <1>7, <2>2 DEF ValidIn
    <3>2. d.b.vcnt[i] = 0
      BY <1>1, <3>1, FS_EmptySet
    <3>3. ValidIn(x, i) = Copied(d, S)
      BY <1>1, <1>7, <1>14, <1>16, <2>2 DEF ValidIn, Copied
    <3>4. x.b.vcnt[i] = d.b.vcnt[i] + c
      BY <1>1, <1>6, <2>2
    <3> QED BY <1>3, <3>2, <3>3, <3>4
  <2>3. CASE i # v /\ i # r
    <3>1. ValidIn(x, i) = ValidIn(d, i)
      BY <1>14, <1>16, <2>3 DEF ValidIn, Copied
    <3> QED BY <1>1, <1>6, <2>3, <3>1
  <2> QED BY <2>1, <2>2, <2>3
<1>28. DataTypes(x)
  <2>1. x.active \in Sblks \cup {NoSblk} /\ x.reserve \in Sblks /\ x.aborted \in BOOLEAN
        /\ x.b.active \in Sblks \cup {NoSblk}
    BY <1>1, <1>2
  <2> QED BY <1>2, <1>4, <1>5, <1>6, <1>11, <1>17, <2>1 DEF DataTypes
<1> QED BY <1>1, <1>2, <1>23, <1>24, <1>25, <1>26, <1>27, <1>28 DEF DataSound, r


-----------------------------------------------------------------------------
(***************************************************************************)
(* dp_alloc: it returns the active superblock, opens another, or runs GC.  *)
(***************************************************************************)
\* The full superblock with the fewest valid grains is one of the full ones.
LEMMA FewestIsCandidate ==
    ASSUME NEW b, b.vcnt \in [Sblks -> Nat], GcCandidates(b) # {}
    PROVE  FewestValid(b) \in GcCandidates(b)
<1> DEFINE G == GcCandidates(b)
           T == { b.vcnt[i] : i \in G }
           best == { i \in G : \A j \in G : b.vcnt[i] <= b.vcnt[j] }
<1>1. G \subseteq Sblks /\ Sblks \subseteq Nat
  BY Geometry DEF GcCandidates
<1> HIDE DEF G
<1>2. T \in SUBSET Nat /\ T # {}
  BY <1>1 DEF G
<1>3. PICK x \in T : \A y \in T : x <= y
  BY <1>2, NatHasMin
<1>4. best # {} /\ best \in SUBSET Nat
  <2>1. PICK i \in G : b.vcnt[i] = x
    OBVIOUS
  <2>2. \A j \in G : b.vcnt[j] \in T
    OBVIOUS
  <2>3. i \in best
    BY <1>3, <2>1, <2>2
  <2> QED BY <1>1, <2>3
<1>5. Min(best) \in best
  BY <1>4, MinOfNats
<1> QED BY <1>5 DEF FewestValid, G

\* The victim of a GC is a superblock and not the reserve.
LEMMA GcTarget ==
    ASSUME NEW b, b.vcnt \in [Sblks -> Nat], get_gc_target(b) # NoSblk
    PROVE  get_gc_target(b) \in Sblks /\ get_gc_target(b) # b.rsv
<1>1. GcCandidates(b) # {} /\ get_gc_target(b) = FewestValid(b)
  BY DEF get_gc_target
<1>2. get_gc_target(b) \in GcCandidates(b)
  BY <1>1, FewestIsCandidate
<1> QED BY <1>2 DEF GcCandidates

\* What the search for a free superblock finds is usable.
LEMMA NextIsUsable ==
    ASSUME NEW b, NextUsable(b) # NoSblk
    PROVE  NextUsable(b) \in Usable(b)
<1> DEFINE start  == IF b.active # NoSblk THEN b.active ELSE Min(Usable(b))
           after  == { i \in Usable(b) : i > start }
           before == { i \in Usable(b) : i < start }
<1>1. Usable(b) \subseteq Sblks /\ Sblks \subseteq Nat
  BY Geometry DEF Usable
<1>2. after \in SUBSET Nat /\ before \in SUBSET Nat
  BY <1>1
<1>3. /\ after # {} => NextUsable(b) = Min(after)
      /\ after = {} /\ before # {} => NextUsable(b) = Min(before)
      /\ after = {} /\ before = {} => NextUsable(b) = NoSblk
  BY DEF NextUsable
<1> HIDE DEF start
<1>4. /\ after # {} => Min(after) \in Usable(b)
      /\ before # {} => Min(before) \in Usable(b)
  BY <1>2, MinOfNats
<1> QED BY <1>3, <1>4

\* Two stores with the same values and the same counters, but for the search.
SameValues(x, d) ==
    /\ x.valid = d.valid /\ x.oob = d.oob /\ x.table = d.table
    /\ x.reserve = d.reserve /\ x.aborted = d.aborted
    /\ x.b.wp = d.b.wp /\ x.b.vcnt = d.b.vcnt /\ x.b.rsv = d.b.rsv

\* A store with the same values and counters is as sound.
LEMMA SameValuesSound ==
    ASSUME NEW d, NEW P, DataSound(d, P), NEW x, SameValues(x, d),
           IsData(x), IsPartition(x.b), x.b.active \in Sblks \cup {NoSblk},
           x.active \in Sblks \cup {NoSblk}, x.active # d.reserve
    PROVE  DataSound(x, P)
<1>1. DataTypes(x)
  BY DEF DataSound, DataTypes, SameValues
<1>2. /\ Addresses(x, P) = Addresses(d, P)
      /\ \A h : ItemAt(x, h) = ItemAt(d, h)
      /\ \A i : ValidIn(x, i) = ValidIn(d, i)
  BY DEF Addresses, MappedPgas, ItemAt, ValidIn, SameValues
<1>3. x.valid = d.valid /\ x.oob = d.oob /\ x.table = d.table
  BY DEF SameValues
<1>4. ValuesApart(x, P)
  <2>1. ValuesApart(d, P)
    BY DEF DataSound
  <2>2. UNION { ItemAt(x, h) : h \in Addresses(x, P) }
          = UNION { ItemAt(d, h) : h \in Addresses(d, P) }
    BY <1>2
  <2> QED BY <1>2, <1>3, <2>1, <2>2 DEF ValuesApart
<1>5. OobNames(x, P) /\ FreshPages(x) /\ Counted(x) /\ ReserveErased(x)
  BY <1>2 DEF DataSound, OobNames, FreshPages, Counted, ReserveErased, SameValues
<1> QED BY <1>1, <1>4, <1>5 DEF DataSound

\* Opening a superblock keeps everything.
LEMMA OpenSound ==
    ASSUME NEW d, NEW P, DataSound(d, P),
           NEW b, b = get_active_sblk(d.b), b.active # NoSblk,
           NEW x, x = [d EXCEPT !.b = b, !.active = b.active]
    PROVE  DataSound(x, P) /\ x.active \in Sblks /\ x.aborted = d.aborted
<1>1. IsData(d) /\ IsPartition(d.b) /\ d.b.rsv = d.reserve
  BY DEF DataSound, DataTypes, ReserveErased
<1>2. PICK s : s = NextUsable(d.b)
  OBVIOUS
<1>3. PICK n : n = IF s # NoSblk /\ d.b.wp[s] = 0 THEN d.b.free - 1 ELSE d.b.free
  OBVIOUS
<1>4. b = [d.b EXCEPT !.active = s, !.free = n]
  BY <1>1, <1>2, <1>3 DEF get_active_sblk, IsPartition
<1>5. /\ IsPartition(b) /\ b.wp = d.b.wp /\ b.vcnt = d.b.vcnt /\ b.rsv = d.b.rsv
      /\ b.active = s
  BY <1>1, <1>4 DEF IsPartition
<1>6. s \in Sblks /\ s # d.reserve
  <2>1. s \in Usable(d.b)
    BY <1>2, <1>5, NextIsUsable
  <2> QED BY <1>1, <2>1 DEF Usable
<1>7. /\ IsData(x) /\ x.b = b /\ x.active = s /\ x.valid = d.valid /\ x.oob = d.oob
      /\ x.table = d.table /\ x.reserve = d.reserve /\ x.aborted = d.aborted
  BY <1>1, <1>5 DEF IsData
<1>8. SameValues(x, d)
  BY <1>5, <1>7 DEF SameValues
<1> QED BY <1>5, <1>6, <1>7, <1>8, SameValuesSound

\* A superblock for the page, or an abort that leaves what GcReady is about alone.
Allocated(d, P, x) ==
    \/ x.aborted = TRUE /\ x.b = d.b /\ x.valid = d.valid /\ x.reserve = d.reserve
    \/ DataSound(x, P) /\ x.aborted = d.aborted /\ x.active \in Sblks

\* An abort of dp_alloc leaves the block manager and the valid bits alone.
LEMMA AbortFields ==
    ASSUME NEW d, IsData(d), NEW x,
           x = Abort(d) \/ x = [Abort(d) EXCEPT !.misuse = TRUE]
    PROVE  x.aborted = TRUE /\ x.b = d.b /\ x.valid = d.valid /\ x.reserve = d.reserve
<1>1. PICK y : y = Abort(d)
  OBVIOUS
<1>2. /\ IsData(y) /\ y.aborted = TRUE /\ y.b = d.b /\ y.valid = d.valid
      /\ y.reserve = d.reserve
  BY <1>1 DEF Abort, IsData
<1>3. CASE x = y
  BY <1>2, <1>3
<1>4. CASE x = [y EXCEPT !.misuse = TRUE]
  BY <1>2, <1>4 DEF IsData
<1> QED BY <1>1, <1>3, <1>4

\* A GC that collects no placed value.
LEMMA GcSound ==
    ASSUME NEW d, NEW P, DataSound(d, P), \A h \in P : h[1] # get_gc_target(d.b),
           NEW x \in dpage_gc_dvalue(d)
    PROVE  Allocated(d, P, x)
<1>1. PICK v : v = get_gc_target(d.b)
  OBVIOUS
<1>2. PICK S : S = Pk!Pack(Collected(d, v))
  OBVIOUS
<1>3. /\ IsData(d) /\ IsPartition(d.b) /\ d.b.rsv = d.reserve /\ d.b.vcnt \in [Sblks -> Nat] /\ d.reserve \in Sblks
  BY DEF DataSound, DataTypes, ReserveErased
<1>4. CASE v = NoSblk \/ ~AllCollected(d, v)
  <2>1. x = Abort(d)
    BY <1>1, <1>4 DEF dpage_gc_dvalue
  <2> QED BY <1>3, <2>1, AbortFields DEF Allocated
<1>5. CASE v # NoSblk /\ AllCollected(d, v) /\ ~Fits(d, S)
  <2>1. x = [Abort(d) EXCEPT !.misuse = TRUE]
    BY <1>1, <1>2, <1>5 DEF dpage_gc_dvalue
  <2> QED BY <1>3, <2>1, AbortFields DEF Allocated
<1>6. CASE v # NoSblk /\ AllCollected(d, v) /\ Fits(d, S)
  <2>1. x \in { [moved(d, v, S) EXCEPT !.table = t] : t \in gc_tables(d, S) }
    BY <1>1, <1>2, <1>6 DEF dpage_gc_dvalue
  <2>2. PICK t \in gc_tables(d, S) : x = [moved(d, v, S) EXCEPT !.table = t]
    BY <2>1
  <2>3. v \in Sblks /\ v # d.reserve /\ \A h \in P : h[1] # v
    BY <1>1, <1>3, <1>6, GcTarget
  <2>4. Relocates(d, v, S)
    BY <1>2, <1>6, <2>3, MovesPacked
  <2>5. Repoints(d, v, S, t)
    BY <2>3, <2>4, GcRepoints
  <2>6. DataSound(x, P) /\ x.active = d.reserve /\ x.aborted = d.aborted
    <3>1. AfterGc(d, v, S, t, x)
      BY <1>3, <2>2, GcFields
    <3> QED BY <1>6, <2>3, <2>4, <2>5, <3>1, GcKeeps
  <2> QED BY <1>3, <2>6 DEF Allocated
<1> QED BY <1>4, <1>5, <1>6

\* dp_alloc keeps everything, or aborts.
LEMMA AllocSound ==
    ASSUME NEW d, NEW P, DataSound(d, P),
           RunsGc(d) => \A h \in P : h[1] # get_gc_target(d.b),
           NEW x \in dp_alloc(d)
    PROVE  Allocated(d, P, x)
<1>1. IsData(d) /\ d.active \in Sblks \cup {NoSblk}
  BY DEF DataSound, DataTypes
<1>2. CASE ~NeedsSblk(d)
  <2>1. x = d
    BY <1>2 DEF dp_alloc
  <2>2. d.active \in Sblks
    BY <1>1, <1>2 DEF NeedsSblk
  <2> QED BY <2>1, <2>2 DEF Allocated
<1>3. CASE NeedsSblk(d) /\ isgc_needed(d.b)
  <2>1. x \in dpage_gc_dvalue(d)
    BY <1>3 DEF dp_alloc
  <2>2. \A h \in P : h[1] # get_gc_target(d.b)
    BY <1>3 DEF RunsGc
  <2> QED BY <2>1, <2>2, GcSound
<1>4. CASE NeedsSblk(d) /\ ~isgc_needed(d.b)
  <2>1. PICK b : b = get_active_sblk(d.b)
    OBVIOUS
  <2>2. CASE b.active = NoSblk
    <3>1. x = Abort(d)
      BY <1>4, <2>1, <2>2 DEF dp_alloc
    <3> QED BY <1>1, <3>1, AbortFields DEF Allocated
  <2>3. CASE b.active # NoSblk
    <3>1. x = [d EXCEPT !.b = b, !.active = b.active]
      BY <1>4, <2>1, <2>3 DEF dp_alloc
    <3> QED BY <2>1, <2>3, <3>1, OpenSound DEF Allocated
  <2> QED BY <2>2, <2>3
<1> QED BY <1>2, <1>3, <1>4

-----------------------------------------------------------------------------
(***************************************************************************)
(* One page of a flush.                                                    *)
(***************************************************************************)
\* The entries that wait for a page, in order, each of them once.
PendingIds == { [id |-> e, len |-> entry[e].len] : e \in Pending }

\* The packing is given every pending entry once.
LEMMA PendingOnce ==
    /\ PendingItems \in Seq(PendingIds)
    /\ \A i, j \in 1 .. Len(PendingItems) : PendingItems[i] = PendingItems[j] => i = j
<1> DEFINE S == Pending
           N == Cardinality(S)
           R == { c \in Entries \X Entries : c[1] < c[2] }
           rank == [x \in S |-> Rank(S, R, x)]
           at(i) == CHOOSE e \in S : Cardinality({ f \in S : f < e }) = i - 1
           item(e) == [id |-> e, len |-> entry[e].len]
           s == [i \in 1 .. N |-> item(at(i))]
<1>1. IsFiniteSet(S) /\ S \subseteq Entries /\ Entries \subseteq Nat
  <2>1. S \subseteq Entries /\ Entries \subseteq Nat
    BY DataPathAssumption DEF Pending, Entries
  <2> QED BY <2>1, Geometry, FS_Subset
<1> HIDE DEF S
<1>2. \A e, f \in S : <<e, f>> \in R <=> e < f
  BY <1>1
<1>a. \A e \in S : e \in Nat
  BY <1>1
<1> HIDE DEF R
<1>3. \A e, f \in S : e # f => <<e, f>> \in R \/ <<f, e>> \in R
  BY <1>2, <1>a
<1>4. \A e, f, g \in S : <<e, f>> \in R /\ <<f, g>> \in R => <<e, g>> \in R
  BY <1>2, <1>a
<1>5. \A e \in S : <<e, e>> \notin R
  BY <1>2, <1>a
<1>6. \A e \in S : rank[e] = Cardinality({ f \in S : f < e })
  <2> SUFFICES ASSUME NEW e \in S
               PROVE  { y \in S : <<y, e>> \in R } = { f \in S : f < e }
    BY DEF Rank
  <2> QED BY <1>2
<1>7. /\ N \in Nat
      /\ \A i \in 1 .. N : \E x \in S : rank[x] = i - 1
      /\ \A x, y \in S : rank[x] = rank[y] => x = y
  <2>1. /\ N \in Nat
        /\ \A i \in 1 .. N : \E x \in S : Rank(S, R, x) = i - 1
        /\ \A x \in S : Rank(S, R, x) + 1 \in 1 .. N /\ (Rank(S, R, x) + 1) - 1 = Rank(S, R, x)
        /\ \A x, y \in S : Rank(S, R, x) = Rank(S, R, y) => x = y
    BY <1>1, <1>3, <1>4, <1>5, CountedOff
  <2>2. \A x \in S : rank[x] = Rank(S, R, x)
    OBVIOUS
  <2> HIDE DEF rank
  <2> QED BY <2>1, <2>2
<1> HIDE DEF rank
<1>8. ASSUME NEW i \in 1 .. N PROVE at(i) \in S /\ rank[at(i)] = i - 1
  <2>1. \E e \in S : Cardinality({ f \in S : f < e }) = i - 1
    BY <1>6, <1>7
  <2>2. at(i) \in S /\ Cardinality({ f \in S : f < at(i) }) = i - 1
    BY <2>1
  <2> HIDE DEF at
  <2> QED BY <1>6, <2>2
<1> HIDE DEF at
<1>9. PendingItems = s
  BY DEF PendingItems, at, S
<1>10. s \in Seq(PendingIds) /\ Len(s) = N
  <2>1. \A i \in 1 .. N : item(at(i)) \in PendingIds
    BY <1>8 DEF PendingIds, S
  <2> HIDE DEF item, N
  <2> QED BY <1>7, <2>1
<1>11. ASSUME NEW i \in 1 .. N, NEW j \in 1 .. N, s[i] = s[j] PROVE i = j
  <2>1. at(i) = at(j)
    <3>1. item(at(i)).id = at(i) /\ item(at(j)).id = at(j)
      OBVIOUS
    <3>2. s[i] = item(at(i)) /\ s[j] = item(at(j))
      OBVIOUS
    <3> QED BY <1>11, <3>1, <3>2
  <2>2. i - 1 = j - 1
    BY <1>8, <2>1
  <2>3. i \in Int /\ j \in Int
    BY <1>7
  <2> QED BY <2>2, <2>3
<1> HIDE DEF s
<1> QED BY <1>9, <1>10, <1>11

\* Entries placed beside each other on page o of superblock s.
OnePage(s, o, S) ==
    /\ IsFiniteSet(S)
    /\ \A p \in S :
          /\ p.item.id \in Pending /\ p.item.len = entry[p.item.id].len
          /\ p.item.len \in 1 .. UnitsPerPage /\ p.item.len \in Nat
          /\ At(s, o, p) \in Grains /\ At(s, o, p)[1] = s /\ At(s, o, p)[2] = o
          /\ At(s, o, p)[3] + p.item.len <= UnitsPerPage
    /\ \A p, q \in S : p # q =>
          Extent(At(s, o, p), p.item.len) \cap Extent(At(s, o, q), q.item.len) = {}
    /\ \A p, q \in S : At(s, o, p) = At(s, o, q) => p = q
    /\ \A p, q \in S : p.item.id = q.item.id => p = q
    /\ Cardinality(Grained(s, o, S)) = Cardinality(GrainCalls(S))
    /\ Cardinality(GrainCalls(S)) \in Nat

\* The entries that go on the next page lie beside each other on it.
LEMMA NextPageApart ==
    ASSUME EntriesSound(entry), NEW s \in Sblks, NEW o \in Nat, o < PagesPerSblk
    PROVE  OnePage(s, o, NextPage)
<1> DEFINE T == PendingIds
           S == NextPage
<1>1. \A t \in T : t.id \in Pending /\ t.len = entry[t.id].len /\ t = [id |-> t.id, len |-> t.len]
  BY DEF PendingIds
<1>2. \A t \in T : t.len \in 1 .. UnitsPerPage
  BY <1>1 DEF EntriesSound, Pending
<1> HIDE DEF T
<1>3. PICK Q : Q = Pk!Pack(PendingItems)
  OBVIOUS
<1>4. Packed(Q, PendingItems, T)
  BY <1>2, <1>3, PendingOnce, PackResult DEF T
<1>5. S \subseteq Q /\ \A p \in S : p.page = 0
  BY <1>3 DEF NextPage, Pk!OnPage
<1> HIDE DEF S
<1>6. /\ IsFiniteSet(S)
      /\ \A p \in S : IsPlacement(p, T) /\ p.item \in T
      /\ \A p, q \in S : p # q => Aside(p, q)
  BY <1>4, <1>5, FS_Subset DEF Packed, IsPlacement
<1>7. \A p \in S : o + p.page < PagesPerSblk /\ o + p.page = o
  BY <1>5
<1>8. SetApart(s, o, S)
  BY <1>2, <1>6, <1>7, PlacedApart
<1>9. \A p \in S : /\ Addr(s, o, p) = At(s, o, p)
                   /\ GrainsAt(s, o, p) = Extent(At(s, o, p), p.item.len)
  BY <1>7 DEF Addr, At, GrainsAt
<1>10. /\ \A p \in S : /\ At(s, o, p) \in Grains /\ At(s, o, p)[1] = s
                       /\ At(s, o, p)[2] = o
                       /\ p.item.len \in 1 .. UnitsPerPage
                       /\ At(s, o, p)[3] + p.item.len <= UnitsPerPage
       /\ \A p, q \in S : p # q =>
             Extent(At(s, o, p), p.item.len) \cap Extent(At(s, o, q), q.item.len) = {}
       /\ \A p, q \in S : At(s, o, p) = At(s, o, q) => p = q
  BY <1>7, <1>8, <1>9 DEF SetApart
<1>11. \A p \in S : /\ p.item.id \in Pending /\ p.item.len = entry[p.item.id].len
                    /\ p.item.len \in Nat
  BY <1>1, <1>2, <1>6, Geometry
<1>12. \A p, q \in S : p.item.id = q.item.id => p = q
  <2> SUFFICES ASSUME NEW p \in S, NEW q \in S, p.item.id = q.item.id PROVE p = q
    OBVIOUS
  <2>1. p.item = q.item
    BY <1>1, <1>6
  <2> QED BY <1>6, <2>1 DEF Aside
<1>13. /\ Cardinality(Grained(s, o, S)) = Cardinality(GrainCalls(S))
       /\ Cardinality(GrainCalls(S)) \in Nat
  <2>1. Grained(s, o, S) = GrainsOf(s, o, S)
    BY <1>9 DEF Grained, GrainsOf
  <2>2. /\ \A p \in S : Addr(s, o, p) \in Grains /\ p.item.len \in 1 .. UnitsPerPage
        /\ \A p, q \in S : p # q => GrainsAt(s, o, p) \cap GrainsAt(s, o, q) = {}
    BY <1>8 DEF SetApart
  <2>3. /\ Cardinality(GrainsOf(s, o, S)) = Cardinality(GrainCalls(S))
        /\ Cardinality(GrainCalls(S)) \in Nat
    BY <1>6, <2>2, CallsCount
  <2> QED BY <2>1, <2>3
<1>14. OnePage(s, o, S)
  BY <1>6, <1>10, <1>11, <1>12, <1>13 DEF OnePage
<1> QED BY <1>14 DEF S

\* The data store after a page, field by field.
AfterPage(d, s, o, S, x) ==
    /\ IsData(x) /\ IsPartition(x.b)
    /\ x.b.wp = [d.b.wp EXCEPT ![s] = @ + 1]
    /\ x.b.vcnt = [d.b.vcnt EXCEPT ![s] = @ + Cardinality(GrainCalls(S))]
    /\ x.b.rsv = d.b.rsv /\ x.b.active = d.b.active
    /\ x.valid = d.valid \cup Grained(s, o, S)
    /\ x.oob = [g \in Grains |->
                  IF \E p \in S : At(s, o, p) = g
                  THEN [lpa |-> 0, len |-> (CHOOSE p \in S : At(s, o, p) = g).item.len]
                  ELSE d.oob[g]]
    /\ x.table = d.table /\ x.active = d.active /\ x.reserve = d.reserve
    /\ x.aborted = d.aborted

\* What a page of the flush changes, field by field.
LEMMA PageFields ==
    ASSUME NEW d, IsData(d), IsPartition(d.b), NEW s, NEW o, NEW x, x = Placed(d, s, o)
    PROVE  AfterPage(d, s, o, NextPage, x)
<1>1. PICK c : c = Cardinality(GrainCalls(NextPage))
  OBVIOUS
<1>2. PICK f : f = get_page_num(d.b, s)
  OBVIOUS
<1>3. PICK b : b = [f EXCEPT !.vcnt[s] = @ + c]
  OBVIOUS
<1>4. /\ IsPartition(f) /\ f.wp = [d.b.wp EXCEPT ![s] = @ + 1] /\ f.vcnt = d.b.vcnt
      /\ f.rsv = d.b.rsv /\ f.active = d.b.active
  BY <1>2 DEF get_page_num, IsPartition
<1>5. /\ IsPartition(b) /\ b.wp = f.wp /\ b.vcnt = [f.vcnt EXCEPT ![s] = @ + c]
      /\ b.rsv = f.rsv /\ b.active = f.active
  BY <1>3, <1>4 DEF IsPartition
<1>6. PICK V : V = d.valid \cup Grained(s, o, NextPage)
  OBVIOUS
<1>7. PICK m : m = (d.misuse \/ \E p \in NextPage :
                      Grained(s, o, {p}) \cap (d.valid \cup Grained(s, o, NextPage \ {p})) # {})
  OBVIOUS
<1>8. PICK w : w = [g \in Grains |->
                  IF \E p \in NextPage : At(s, o, p) = g
                  THEN [lpa |-> 0, len |-> (CHOOSE p \in NextPage : At(s, o, p) = g).item.len]
                  ELSE d.oob[g]]
  OBVIOUS
<1>9. x = [d EXCEPT !.b = b, !.valid = V, !.misuse = m, !.oob = w]
  BY <1>1, <1>2, <1>3, <1>6, <1>7, <1>8 DEF Placed
<1>10. /\ IsData(x) /\ x.b = b /\ x.valid = V /\ x.oob = w /\ x.table = d.table
       /\ x.active = d.active /\ x.reserve = d.reserve /\ x.aborted = d.aborted
  BY <1>9 DEF IsData
<1> QED BY <1>1, <1>4, <1>5, <1>6, <1>8, <1>10 DEF AfterPage

\* Where the values placed on page o of superblock s are.
PageAddresses(s, o, S) == { At(s, o, p) : p \in S }

\* A page of values that have no pte keeps everything.
LEMMA PageSound ==
    ASSUME NEW d, NEW P, DataSound(d, P), NEW s \in Sblks, s = d.active,
           NEW o, o = d.b.wp[s], o < PagesPerSblk,
           NEW S, OnePage(s, o, S), NEW x, AfterPage(d, s, o, S, x)
    PROVE  /\ DataSound(x, P \cup PageAddresses(s, o, S)) /\ x.aborted = d.aborted
           /\ \A p \in S : At(s, o, p) \notin P
<1> DEFINE Q == P \cup PageAddresses(s, o, S)
           Kept == Addresses(d, P)
           New == PageAddresses(s, o, S)
           c == Cardinality(GrainCalls(S))
<1>1. /\ IsData(d) /\ IsPartition(d.b) /\ d.b.wp \in [Sblks -> 0 .. PagesPerSblk]
      /\ d.b.vcnt \in [Sblks -> Nat] /\ d.b.active \in Sblks \cup {NoSblk}
      /\ d.valid \subseteq Grains /\ d.oob \in [Grains -> Oob]
      /\ d.table \in [Lpas -> Grains \cup {NoPga}] /\ d.aborted \in BOOLEAN
      /\ d.reserve \in Sblks /\ d.b.rsv = d.reserve /\ d.b.wp[d.reserve] = 0 /\ s # d.reserve
      /\ P \subseteq Grains
      /\ \A l \in Lpas : d.table[l] # NoPga =>
            d.oob[d.table[l]].lpa = l /\ d.table[l] \notin P
      /\ \A g \in Grains : g[2] >= d.b.wp[g[1]] => g \notin d.valid /\ d.oob[g].len = 0
      /\ \A i \in Sblks : d.b.vcnt[i] = Cardinality(ValidIn(d, i))
  BY DEF DataSound, DataTypes, ReserveErased, OobNames, FreshPages, Counted
<1>2. /\ IsData(x) /\ IsPartition(x.b)
      /\ x.b.wp = [d.b.wp EXCEPT ![s] = @ + 1] /\ x.b.vcnt = [d.b.vcnt EXCEPT ![s] = @ + c]
      /\ x.b.rsv = d.b.rsv /\ x.b.active = d.b.active
      /\ x.valid = d.valid \cup Grained(s, o, S)
      /\ x.table = d.table /\ x.active = d.active /\ x.reserve = d.reserve
      /\ x.aborted = d.aborted
  BY DEF AfterPage
<1>3. /\ c \in Nat /\ Cardinality(Grained(s, o, S)) = c
      /\ \A p \in S : /\ At(s, o, p) \in Grains /\ At(s, o, p)[1] = s /\ At(s, o, p)[2] = o
                      /\ p.item.len \in 1 .. UnitsPerPage /\ p.item.len \in Nat
                      /\ At(s, o, p)[3] + p.item.len <= UnitsPerPage
      /\ \A p, q \in S : p # q =>
            Extent(At(s, o, p), p.item.len) \cap Extent(At(s, o, q), q.item.len) = {}
      /\ \A p, q \in S : At(s, o, p) = At(s, o, q) => p = q
  BY DEF OnePage
<1>4. o \in Nat /\ o + 1 <= PagesPerSblk
  BY <1>1, Geometry
<1> HIDE DEF c
<1>5. /\ x.b.wp \in [Sblks -> 0 .. PagesPerSblk]
      /\ \A i \in Sblks : x.b.wp[i] = IF i = s THEN o + 1 ELSE d.b.wp[i]
  <2>1. o + 1 \in 0 .. PagesPerSblk
    BY <1>4, Geometry
  <2> QED BY <1>1, <1>2, <2>1
<1>6. /\ x.b.vcnt \in [Sblks -> Nat]
      /\ \A i \in Sblks : x.b.vcnt[i] = IF i = s THEN d.b.vcnt[s] + c ELSE d.b.vcnt[i]
  BY <1>1, <1>2, <1>3
\* The page was fresh.
<1>7. \A g \in Grains : g[1] = s /\ g[2] = o => g \notin d.valid /\ d.oob[g].len = 0
  BY <1>1, <1>4
<1>8. \A h \in Kept : h \in Grains /\ h \in d.valid /\ h \notin New
  <2>1. \A h \in Addresses(d, P) : h \in Grains /\ h \in d.valid
    BY AddressFacts
  <2> QED BY <1>3, <1>7, <2>1 DEF PageAddresses
<1>9. Addresses(x, Q) = Kept \cup New
  BY <1>2 DEF Addresses, MappedPgas
<1>10. /\ \A g \in Grains : g \notin New => x.oob[g] = d.oob[g]
       /\ \A p \in S : /\ x.oob[At(s, o, p)] = [lpa |-> 0, len |-> p.item.len]
                       /\ x.oob[At(s, o, p)].len = p.item.len
  <2>1. \A g \in Grains : g \notin New => x.oob[g] = d.oob[g]
    BY DEF AfterPage, PageAddresses
  <2>2. ASSUME NEW p \in S
        PROVE  /\ x.oob[At(s, o, p)] = [lpa |-> 0, len |-> p.item.len]
               /\ x.oob[At(s, o, p)].len = p.item.len
    <3>1. PICK q : q = CHOOSE z \in S : At(s, o, z) = At(s, o, p)
      OBVIOUS
    <3>2. q = p
      <4>1. q \in S /\ At(s, o, q) = At(s, o, p)
        BY <3>1
      <4> QED BY <1>3, <4>1
    <3>3. PICK g : g = At(s, o, p)
      OBVIOUS
    <3>4. g \in Grains
      BY <1>3, <3>3
    <3>5. x.oob[g] = [lpa |-> 0, len |-> q.item.len]
      BY <3>1, <3>3, <3>4 DEF AfterPage
    <3> QED BY <3>2, <3>3, <3>5
  <2> QED BY <2>1, <2>2
<1>11. x.oob \in [Grains -> Oob]
  <2>1. \A g \in Grains : x.oob[g] \in Oob
    <3> SUFFICES ASSUME NEW g \in Grains PROVE x.oob[g] \in Oob
      OBVIOUS
    <3>1. CASE g \notin New
      BY <1>1, <1>10, <3>1
    <3>2. CASE g \in New
      <4>1. PICK p \in S : g = At(s, o, p)
        BY <3>2 DEF PageAddresses
      <4>2. x.oob[g] = [lpa |-> 0, len |-> p.item.len]
        BY <1>10, <4>1
      <4>3. 0 \in Lpas /\ p.item.len \in 0 .. UnitsPerPage
        BY <1>3, Geometry
      <4> QED BY <4>2, <4>3 DEF Oob
    <3> QED BY <3>1, <3>2
  <2>2. x.oob = [g \in Grains |-> x.oob[g]]
    BY DEF AfterPage
  <2> QED BY <2>1, <2>2
<1>12. \A p \in S : At(s, o, p) \in New
  BY DEF PageAddresses
<1>13. \A h \in New : \E p \in S : h = At(s, o, p)
  BY DEF PageAddresses
<1> HIDE DEF New, Kept, Q
<1>14. \A h \in Kept : x.oob[h] = d.oob[h] /\ ItemAt(x, h) = ItemAt(d, h)
  BY <1>8, <1>10 DEF ItemAt
<1>15. \A p \in S : ItemAt(x, At(s, o, p)) = Extent(At(s, o, p), p.item.len)
  BY <1>10 DEF ItemAt
<1>16. \A p \in S : \A g \in Extent(At(s, o, p), p.item.len) :
           g \in Grains /\ g[1] = s /\ g[2] = o
  <2> SUFFICES ASSUME NEW p \in S, NEW g \in Extent(At(s, o, p), p.item.len)
               PROVE  g \in Grains /\ g[1] = s /\ g[2] = o
    OBVIOUS
  <2> QED BY <1>3, ExtentFacts
<1>17. \A h \in Kept : \A g \in ItemAt(d, h) : g \in Grains /\ g \in d.valid
  BY AddressFacts DEF Kept
<1>18. x.valid \subseteq Grains
  BY <1>1, <1>2, <1>16 DEF Grained
<1>19. ASSUME NEW h \in Kept \cup New
       PROVE  x.oob[h].len > 0 /\ h[3] + x.oob[h].len <= UnitsPerPage
  <2>1. CASE h \in Kept
    <3>1. d.oob[h].len > 0 /\ h[3] + d.oob[h].len <= UnitsPerPage
      BY <2>1 DEF Kept, DataSound, ValuesApart
    <3> QED BY <1>14, <2>1, <3>1
  <2>2. CASE h \in New
    <3>1. PICK p \in S : h = At(s, o, p)
      BY <1>13, <2>2
    <3>2. /\ x.oob[h].len = p.item.len /\ p.item.len \in 1 .. UnitsPerPage
          /\ h[3] + p.item.len <= UnitsPerPage
      BY <1>3, <1>10, <3>1
    <3> QED BY <3>2
  <2> QED BY <1>19, <2>1, <2>2
<1>20. ASSUME NEW h \in Kept \cup New, NEW k \in Kept \cup New, h # k
       PROVE  ItemAt(x, h) \cap ItemAt(x, k) = {}
  <2>1. CASE h \in Kept /\ k \in Kept
    <3>1. ItemAt(d, h) \cap ItemAt(d, k) = {}
      BY <1>20, <2>1 DEF Kept, DataSound, ValuesApart
    <3> QED BY <1>14, <2>1, <3>1
  <2>2. ASSUME NEW p \in S, NEW g \in Kept
        PROVE  Extent(At(s, o, p), p.item.len) \cap ItemAt(d, g) = {}
    BY <1>7, <1>16, <1>17
  <2>3. CASE h \in New /\ k \in New
    <3>1. PICK p \in S : h = At(s, o, p)
      BY <1>13, <2>3
    <3>2. PICK q \in S : k = At(s, o, q)
      BY <1>13, <2>3
    <3>3. p # q
      BY <1>20, <3>1, <3>2
    <3> QED BY <1>3, <1>15, <3>1, <3>2, <3>3
  <2>4. CASE h \in New /\ k \in Kept
    <3>1. PICK p \in S : h = At(s, o, p)
      BY <1>13, <2>4
    <3> QED BY <1>14, <1>15, <2>2, <2>4, <3>1
  <2>5. CASE h \in Kept /\ k \in New
    <3>1. PICK p \in S : k = At(s, o, p)
      BY <1>13, <2>5
    <3> QED BY <1>14, <1>15, <2>2, <2>5, <3>1
  <2> QED BY <1>20, <2>1, <2>3, <2>4, <2>5
<1>21. ASSUME NEW g \in x.valid PROVE \E h \in Kept \cup New : g \in ItemAt(x, h)
  <2>1. CASE g \in Grained(s, o, S)
    <3>1. PICK p \in S : g \in Extent(At(s, o, p), p.item.len)
      BY <2>1 DEF Grained
    <3> QED BY <1>12, <1>15, <3>1
  <2>2. CASE g \in d.valid
    <3>1. PICK h \in Kept : g \in ItemAt(d, h)
      BY <2>2 DEF Kept, DataSound, ValuesApart
    <3> QED BY <1>14, <3>1
  <2> QED BY <1>2, <2>1, <2>2
<1>22. ASSUME NEW h \in Kept \cup New, NEW g \in ItemAt(x, h) PROVE g \in x.valid
  <2>1. CASE h \in Kept
    BY <1>2, <1>14, <1>17, <1>22, <2>1
  <2>2. CASE h \in New
    <3>1. PICK p \in S : h = At(s, o, p)
      BY <1>13, <2>2
    <3>2. g \in Grained(s, o, S)
      BY <1>15, <1>22, <3>1 DEF Grained
    <3> QED BY <1>2, <3>2
  <2> QED BY <1>22, <2>1, <2>2
<1>23. ASSUME NEW g \in x.valid, x.oob[g].len > 0 PROVE g \in Kept \cup New
  <2>1. CASE g \in Grained(s, o, S) /\ g \notin New
    <3>1. g \in Grains /\ g[1] = s /\ g[2] = o
      BY <1>16, <2>1 DEF Grained
    <3>2. d.oob[g].len = 0 /\ x.oob[g] = d.oob[g]
      BY <1>7, <1>10, <2>1, <3>1
    <3> QED BY <1>23, <3>2
  <2>2. CASE g \in d.valid /\ g \notin New
    <3>1. d.oob[g].len > 0
      BY <1>1, <1>10, <1>23, <2>2
    <3>2. g \in Kept
      BY <2>2, <3>1 DEF Kept, DataSound, ValuesApart
    <3> QED BY <3>2
  <2> QED BY <1>2, <2>1, <2>2
<1>24. ValuesApart(x, Q)
  <2>1. x.valid = UNION { ItemAt(x, h) : h \in Addresses(x, Q) }
    BY <1>9, <1>21, <1>22
  <2> QED BY <1>9, <1>19, <1>20, <1>23, <2>1 DEF ValuesApart
<1>25. OobNames(x, Q)
  <2> SUFFICES ASSUME NEW l \in Lpas, d.table[l] # NoPga
               PROVE  x.oob[d.table[l]].lpa = l /\ d.table[l] \notin Q
    BY <1>2 DEF OobNames
  <2>1. d.table[l] \in Kept
    BY DEF Kept, Addresses, MappedPgas
  <2> QED BY <1>1, <1>8, <1>14, <2>1 DEF Q, New
<1>26. FreshPages(x)
  <2> SUFFICES ASSUME NEW g \in Grains, g[2] >= x.b.wp[g[1]]
               PROVE  g \notin x.valid /\ x.oob[g].len = 0
    BY DEF FreshPages
  <2>1. g[1] \in Sblks /\ g[2] \in Nat
    BY GrainParts
  <2>2. g[2] >= d.b.wp[g[1]] /\ ~(g[1] = s /\ g[2] = o)
    <3>1. CASE g[1] = s
      BY <1>4, <1>5, <2>1, <3>1
    <3>2. CASE g[1] # s
      BY <1>5, <2>1, <3>2
    <3> QED BY <3>1, <3>2
  <2>3. g \notin Grained(s, o, S) /\ g \notin New
    BY <1>3, <1>13, <1>16, <2>2 DEF Grained
  <2>4. x.oob[g] = d.oob[g]
    BY <1>10, <2>3
  <2> QED BY <1>1, <1>2, <2>2, <2>3, <2>4
<1>27. ReserveErased(x)
  BY <1>1, <1>2, <1>5 DEF ReserveErased
<1>28. Counted(x)
  <2> SUFFICES ASSUME NEW i \in Sblks PROVE x.b.vcnt[i] = Cardinality(ValidIn(x, i))
    BY DEF Counted
  <2>1. CASE i = s
    <3>1. ValidIn(x, i) = ValidIn(d, i) \cup Grained(s, o, S)
      BY <1>2, <1>16, <2>1 DEF ValidIn, Grained
    <3>2. ValidIn(d, i) \cap Grained(s, o, S) = {}
      BY <1>7, <1>16 DEF ValidIn, Grained
    <3>3. IsFiniteSet(ValidIn(d, i)) /\ IsFiniteSet(Grained(s, o, S))
      <4>1. ValidIn(d, i) \subseteq Grains /\ Grained(s, o, S) \subseteq Grains
        BY <1>1, <1>2, <1>18 DEF ValidIn
      <4> QED BY <4>1, Geometry, FS_Subset
    <3>4. Cardinality(ValidIn(x, i)) = d.b.vcnt[i] + c
      <4>1. Cardinality(ValidIn(d, i) \cap Grained(s, o, S)) = 0
        BY <3>2, FS_EmptySet
      <4>2. Cardinality(ValidIn(d, i) \cup Grained(s, o, S))
              = Cardinality(ValidIn(d, i)) + Cardinality(Grained(s, o, S))
                - Cardinality(ValidIn(d, i) \cap Grained(s, o, S))
        BY <3>3, FS_Union
      <4>3. d.b.vcnt[i] = Cardinality(ValidIn(d, i)) /\ d.b.vcnt[i] \in Nat
        BY <1>1
      <4> QED BY <1>3, <3>1, <4>1, <4>2, <4>3
    <3> QED BY <1>6, <2>1, <3>4
  <2>2. CASE i # s
    <3>1. ValidIn(x, i) = ValidIn(d, i)
      BY <1>2, <1>16, <2>2 DEF ValidIn, Grained
    <3> QED BY <1>1, <1>6, <2>2, <3>1
  <2> QED BY <2>1, <2>2
<1>29. DataTypes(x)
  <2>1. /\ x.active \in Sblks \cup {NoSblk} /\ x.reserve \in Sblks /\ x.aborted \in BOOLEAN
        /\ x.b.active \in Sblks \cup {NoSblk} /\ x.table \in [Lpas -> Grains \cup {NoPga}]
    BY <1>1, <1>2
  <2> QED BY <1>2, <1>5, <1>6, <1>11, <1>18, <2>1 DEF DataTypes
<1>30. Q \subseteq Grains
  BY <1>1, <1>3, <1>13 DEF Q, New
<1>31. \A p \in S : At(s, o, p) \notin P
  BY <1>8, <1>12 DEF Kept, Addresses
<1> QED BY <1>2, <1>24, <1>25, <1>26, <1>27, <1>28, <1>29, <1>30, <1>31
        DEF DataSound, Q

-----------------------------------------------------------------------------
(***************************************************************************)
(* The mapping update of one value.                                        *)
(***************************************************************************)
\* The grains that lose their value when pte l is updated.
Gone(d, l) == IF d.table[l] = NoPga THEN {} ELSE ItemAt(d, d.table[l])

\* The data store after pte l was pointed at h, field by field.
AfterMap(d, h, l, x) ==
    /\ IsData(x) /\ IsPartition(x.b)
    /\ x.b.wp = d.b.wp /\ x.b.rsv = d.b.rsv /\ x.b.active = d.b.active
    /\ x.b.vcnt = IF d.table[l] = NoPga THEN d.b.vcnt
                  ELSE [d.b.vcnt EXCEPT ![d.table[l][1]] = @ - d.oob[d.table[l]].len]
    /\ x.valid = d.valid \ Gone(d, l)
    /\ x.oob = [d.oob EXCEPT ![h].lpa = l] /\ x.table = [d.table EXCEPT ![l] = h]
    /\ x.active = d.active /\ x.reserve = d.reserve /\ x.aborted = d.aborted

\* What a mapping update changes, field by field.
LEMMA MapFields ==
    ASSUME NEW d, IsData(d), IsPartition(d.b), NEW h, NEW l,
           NEW y, y = IF d.table[l] = NoPga THEN d ELSE invalidate_value(d, d.table[l]),
           NEW x, x = [y EXCEPT !.table[l] = h, !.oob[h].lpa = l]
    PROVE  AfterMap(d, h, l, x)
<1>1. PICK g : g = d.table[l]
  OBVIOUS
<1>2. /\ IsData(y) /\ IsPartition(y.b)
      /\ y.b.wp = d.b.wp /\ y.b.rsv = d.b.rsv /\ y.b.active = d.b.active
      /\ y.b.vcnt = IF g = NoPga THEN d.b.vcnt
                    ELSE [d.b.vcnt EXCEPT ![g[1]] = @ - d.oob[g].len]
      /\ y.valid = d.valid \ Gone(d, l)
      /\ y.oob = d.oob /\ y.table = d.table
      /\ y.active = d.active /\ y.reserve = d.reserve /\ y.aborted = d.aborted
  <2>1. CASE g = NoPga
    <3>1. y = d /\ Gone(d, l) = {}
      BY <1>1, <2>1 DEF Gone
    <3> QED BY <2>1, <3>1
  <2>2. CASE g # NoPga
    <3>1. PICK I : I = ItemAt(d, g)
      OBVIOUS
    <3>2. PICK n : n = d.oob[g].len
      OBVIOUS
    <3>3. PICK m : m = (d.misuse \/ ~(ItemAt(d, g) \subseteq d.valid))
      OBVIOUS
    <3>4. y = [d EXCEPT !.valid = @ \ I, !.b.vcnt[g[1]] = @ - n, !.misuse = m]
      BY <1>1, <2>2, <3>1, <3>2, <3>3 DEF invalidate_value
    <3>5. /\ IsData(y) /\ y.b = [d.b EXCEPT !.vcnt[g[1]] = @ - n]
          /\ y.valid = d.valid \ I /\ y.oob = d.oob /\ y.table = d.table
          /\ y.active = d.active /\ y.reserve = d.reserve /\ y.aborted = d.aborted
      BY <3>4 DEF IsData
    <3>6. /\ IsPartition(y.b) /\ y.b.wp = d.b.wp /\ y.b.rsv = d.b.rsv
          /\ y.b.active = d.b.active /\ y.b.vcnt = [d.b.vcnt EXCEPT ![g[1]] = @ - n]
      BY <3>5 DEF IsPartition
    <3>7. Gone(d, l) = I
      BY <1>1, <2>2, <3>1 DEF Gone
    <3> QED BY <2>2, <3>2, <3>5, <3>6, <3>7
  <2> QED BY <2>1, <2>2
<1>3. /\ IsData(x) /\ x.b = y.b /\ x.valid = y.valid
      /\ x.oob = [y.oob EXCEPT ![h].lpa = l] /\ x.table = [y.table EXCEPT ![l] = h]
      /\ x.active = y.active /\ x.reserve = y.reserve /\ x.aborted = y.aborted
  BY <1>2 DEF IsData
<1> QED BY <1>1, <1>2, <1>3 DEF AfterMap

\* A value that gets its pte is no longer among those that have none.
LEMMA MapSound ==
    ASSUME NEW d, NEW P, DataSound(d, P), NEW h \in P, NEW l \in Lpas,
           NEW x, AfterMap(d, h, l, x)
    PROVE  DataSound(x, P \ {h}) /\ x.aborted = d.aborted
<1> DEFINE old == d.table[l]
           Q == P \ {h}
           A == Addresses(d, P) \ {old}
<1>1. /\ IsData(d) /\ IsPartition(d.b) /\ d.b.wp \in [Sblks -> 0 .. PagesPerSblk]
      /\ d.b.vcnt \in [Sblks -> Nat] /\ d.b.active \in Sblks \cup {NoSblk}
      /\ d.valid \subseteq Grains /\ d.oob \in [Grains -> Oob]
      /\ d.table \in [Lpas -> Grains \cup {NoPga}] /\ d.aborted \in BOOLEAN
      /\ d.active \in Sblks \cup {NoSblk} /\ d.active # d.reserve
      /\ d.reserve \in Sblks /\ d.b.rsv = d.reserve /\ d.b.wp[d.reserve] = 0
      /\ P \subseteq Grains
      /\ \A k \in Lpas : d.table[k] # NoPga =>
            d.oob[d.table[k]].lpa = k /\ d.table[k] \notin P
      /\ \A g \in Grains : g[2] >= d.b.wp[g[1]] => g \notin d.valid /\ d.oob[g].len = 0
      /\ \A i \in Sblks : d.b.vcnt[i] = Cardinality(ValidIn(d, i))
  BY DEF DataSound, DataTypes, ReserveErased, OobNames, FreshPages, Counted
<1>2. /\ IsData(x) /\ IsPartition(x.b)
      /\ x.b.wp = d.b.wp /\ x.b.rsv = d.b.rsv /\ x.b.active = d.b.active
      /\ x.b.vcnt = IF old = NoPga THEN d.b.vcnt
                    ELSE [d.b.vcnt EXCEPT ![old[1]] = @ - d.oob[old].len]
      /\ x.valid = d.valid \ Gone(d, l)
      /\ x.oob = [d.oob EXCEPT ![h].lpa = l] /\ x.table = [d.table EXCEPT ![l] = h]
      /\ x.active = d.active /\ x.reserve = d.reserve /\ x.aborted = d.aborted
  BY DEF AfterMap
<1>3. h \in Grains /\ h # NoPga /\ h # old /\ h \in Addresses(d, P)
  BY <1>1, Geometry DEF Addresses
<1>4. /\ x.oob \in [Grains -> Oob] /\ x.oob[h].lpa = l
      /\ \A g \in Grains : x.oob[g].len = d.oob[g].len
      /\ \A g \in Grains : g # h => x.oob[g] = d.oob[g]
  <2>1. \A g \in Grains : g # h => x.oob[g] = d.oob[g]
    BY <1>1, <1>2
  <2>2. x.oob[h] = [d.oob[h] EXCEPT !.lpa = l]
    BY <1>1, <1>2, <1>3
  <2>3. x.oob[h] = [lpa |-> l, len |-> d.oob[h].len] /\ d.oob[h].len \in 0 .. UnitsPerPage
    BY <1>1, <1>3, <2>2 DEF Oob
  <2>4. x.oob[h] \in Oob /\ x.oob[h].lpa = l /\ x.oob[h].len = d.oob[h].len
    BY <2>3 DEF Oob
  <2>5. x.oob = [g \in Grains |-> x.oob[g]]
    BY <1>1, <1>2
  <2>6. \A g \in Grains : x.oob[g] \in Oob
    BY <1>1, <2>1, <2>4
  <2> QED BY <2>1, <2>4, <2>5, <2>6
<1>5. /\ x.table \in [Lpas -> Grains \cup {NoPga}] /\ x.table[l] = h
      /\ \A k \in Lpas : k # l => x.table[k] = d.table[k]
  BY <1>1, <1>2, <1>3
<1>6. Addresses(x, Q) = A
  <2>1. ASSUME NEW k \in Addresses(x, Q) PROVE k \in A
    <3>1. CASE k \in Q
      <4>1. k \in P /\ k # NoPga
        BY <1>1, <3>1, Geometry
      <4> QED BY <1>1, <4>1 DEF Addresses
    <3>2. CASE k \notin Q
      <4>1. PICK j \in Lpas : k = x.table[j] /\ k # NoPga
        BY <3>2 DEF Addresses, MappedPgas
      <4>2. CASE j = l
        BY <1>3, <1>5, <4>1, <4>2
      <4>3. CASE j # l
        <5>1. k = d.table[j]
          BY <1>5, <4>1, <4>3
        <5>2. k # old
          BY <1>1, <4>1, <4>3, <5>1
        <5> QED BY <4>1, <5>1, <5>2 DEF Addresses, MappedPgas
      <4> QED BY <4>2, <4>3
    <3> QED BY <3>1, <3>2
  <2>2. ASSUME NEW k \in A PROVE k \in Addresses(x, Q)
    <3>1. CASE k = h
      <4>1. h \in MappedPgas(x)
        BY <1>3, <1>5 DEF MappedPgas
      <4> QED BY <3>1, <4>1 DEF Addresses
    <3>2. CASE k # h /\ k \in P
      BY <3>2 DEF Addresses
    <3>3. CASE k # h /\ k \notin P
      <4>1. PICK j \in Lpas : k = d.table[j] /\ k # NoPga
        BY <3>3 DEF Addresses, MappedPgas
      <4>2. j # l
        BY <4>1
      <4>3. k = x.table[j]
        BY <1>5, <4>1, <4>2
      <4> QED BY <4>1, <4>3 DEF Addresses, MappedPgas
    <3> QED BY <3>1, <3>2, <3>3
  <2> QED BY <2>1, <2>2
<1>7. \A k \in Grains : ItemAt(x, k) = ItemAt(d, k)
  BY <1>4 DEF ItemAt
<1>8. \A k \in Addresses(d, P) : k \in Grains
  BY AddressFacts
<1>9. old # NoPga => old \in Addresses(d, P) /\ Gone(d, l) = ItemAt(d, old)
  BY DEF Addresses, MappedPgas, Gone
<1>10. old = NoPga => Gone(d, l) = {}
  BY DEF Gone
<1> HIDE DEF old, Q
<1>11. ASSUME NEW k \in A, NEW g \in ItemAt(d, k) PROVE g \in d.valid /\ g \notin Gone(d, l)
  <2>1. g \in d.valid
    BY <1>11, AddressFacts
  <2>2. CASE old = NoPga
    BY <1>10, <2>1, <2>2
  <2>3. CASE old # NoPga
    <3>1. ItemAt(d, k) \cap ItemAt(d, old) = {}
      BY <1>9, <2>3 DEF DataSound, ValuesApart
    <3> QED BY <1>9, <1>11, <2>1, <2>3, <3>1
  <2> QED BY <2>2, <2>3
<1>12. ASSUME NEW g \in x.valid PROVE \E k \in A : g \in ItemAt(d, k)
  <2>1. g \in d.valid /\ g \notin Gone(d, l)
    BY <1>2
  <2>2. PICK k \in Addresses(d, P) : g \in ItemAt(d, k)
    BY <2>1 DEF DataSound, ValuesApart
  <2>3. k # old
    <3>1. k # NoPga
      BY <1>8, Geometry
    <3> QED BY <1>9, <2>1, <2>2, <3>1
  <2> QED BY <2>2, <2>3
<1>13. ASSUME NEW g \in x.valid, x.oob[g].len > 0 PROVE g \in A
  <2>1. g \in d.valid /\ g \in Grains /\ g \notin Gone(d, l)
    BY <1>1, <1>2
  <2>2. d.oob[g].len > 0
    BY <1>4, <1>13, <2>1
  <2>3. g \in Addresses(d, P)
    BY <2>1, <2>2 DEF DataSound, ValuesApart
  <2>4. g # old
    <3>1. g \in ItemAt(d, g) /\ g # NoPga
      BY <2>1, <2>3, AddressFacts, Geometry
    <3> QED BY <1>9, <2>1, <3>1
  <2> QED BY <2>3, <2>4
<1>14. ValuesApart(x, Q)
  <2>1. \A k \in A : x.oob[k].len > 0 /\ k[3] + x.oob[k].len <= UnitsPerPage
    <3> SUFFICES ASSUME NEW k \in A
                 PROVE  x.oob[k].len > 0 /\ k[3] + x.oob[k].len <= UnitsPerPage
      OBVIOUS
    <3>1. d.oob[k].len > 0 /\ k[3] + d.oob[k].len <= UnitsPerPage
      BY DEF DataSound, ValuesApart
    <3>2. x.oob[k].len = d.oob[k].len
      BY <1>4, <1>8
    <3> QED BY <3>1, <3>2
  <2>2. \A j, k \in A : j # k => ItemAt(x, j) \cap ItemAt(x, k) = {}
    <3> SUFFICES ASSUME NEW j \in A, NEW k \in A, j # k
                 PROVE  ItemAt(x, j) \cap ItemAt(x, k) = {}
      OBVIOUS
    <3>1. ItemAt(d, j) \cap ItemAt(d, k) = {}
      BY DEF DataSound, ValuesApart
    <3> QED BY <1>7, <1>8, <3>1
  <2>3. \A k \in A : ItemAt(x, k) = ItemAt(d, k)
    BY <1>7, <1>8
  <2>4. \A k \in A : \A g \in ItemAt(d, k) : g \in x.valid
    BY <1>2, <1>11
  <2> HIDE DEF A
  <2>5. x.valid = UNION { ItemAt(x, k) : k \in A }
    BY <1>12, <2>3, <2>4
  <2>6. \A g \in x.valid : x.oob[g].len > 0 => g \in A
    BY <1>13
  <2> QED BY <1>6, <2>1, <2>2, <2>5, <2>6 DEF ValuesApart
<1>15. OobNames(x, Q)
  <2> SUFFICES ASSUME NEW k \in Lpas, x.table[k] # NoPga
               PROVE  x.oob[x.table[k]].lpa = k /\ x.table[k] \notin Q
    BY DEF OobNames
  <2>1. CASE k = l
    BY <1>4, <1>5, <2>1 DEF Q
  <2>2. CASE k # l
    <3>1. x.table[k] = d.table[k] /\ d.table[k] \in Grains /\ d.table[k] # h
      BY <1>1, <1>5, <2>2
    <3> QED BY <1>1, <1>4, <3>1 DEF Q
  <2> QED BY <2>1, <2>2
<1>16. FreshPages(x)
  BY <1>1, <1>2, <1>4 DEF FreshPages
<1>17. ReserveErased(x)
  BY <1>1, <1>2 DEF ReserveErased
<1>18. x.b.vcnt \in [Sblks -> Nat] /\ Counted(x)
  <2>1. CASE old = NoPga
    <3>1. x.b.vcnt = d.b.vcnt /\ \A i : ValidIn(x, i) = ValidIn(d, i)
      BY <1>2, <1>10, <2>1 DEF ValidIn
    <3> QED BY <1>1, <3>1 DEF Counted
  <2>2. CASE old # NoPga
    <3>1. PICK n : n = d.oob[old].len
      OBVIOUS
    <3>2. PICK j : j = old[1]
      OBVIOUS
    <3>3. /\ old \in Grains /\ j \in Sblks /\ n \in Nat
          /\ \A g \in ItemAt(d, old) : g \in d.valid /\ g[1] = j
      BY <1>9, <2>2, <3>1, <3>2, AddressFacts, GrainParts
    <3>4. /\ x.b.vcnt = [d.b.vcnt EXCEPT ![j] = @ - n]
          /\ x.valid = d.valid \ ItemAt(d, old)
      BY <1>2, <1>9, <2>2, <3>1, <3>2
    <3>5. IsFiniteSet(ItemAt(d, old)) /\ Cardinality(ItemAt(d, old)) = n
      BY <3>1, <3>3, ExtentCount DEF ItemAt
    <3>6. \A i \in Sblks : IsFiniteSet(ValidIn(d, i))
      <4>1. \A i \in Sblks : ValidIn(d, i) \subseteq Grains
        BY <1>1 DEF ValidIn
      <4> QED BY <4>1, Geometry, FS_Subset
    <3>7. ValidIn(x, j) = ValidIn(d, j) \ ItemAt(d, old)
      BY <3>4 DEF ValidIn
    <3>8. \A i \in Sblks : i # j => ValidIn(x, i) = ValidIn(d, i)
      BY <3>3, <3>4 DEF ValidIn
    <3>9. Cardinality(ValidIn(x, j)) = d.b.vcnt[j] - n /\ Cardinality(ValidIn(x, j)) \in Nat
      <4>1. ValidIn(d, j) \cap ItemAt(d, old) = ItemAt(d, old)
        BY <3>3 DEF ValidIn
      <4>2. PICK V : V = ValidIn(d, j)
        OBVIOUS
      <4>3. PICK I : I = ItemAt(d, old)
        OBVIOUS
      <4>4. IsFiniteSet(V) /\ IsFiniteSet(I) /\ Cardinality(I) = n /\ V \cap I = I
            /\ d.b.vcnt[j] = Cardinality(V) /\ ValidIn(x, j) = V \ I
        BY <1>1, <3>3, <3>5, <3>6, <3>7, <4>1, <4>2, <4>3
      <4>5. /\ IsFiniteSet(V \ I)
            /\ Cardinality(V \ I) = Cardinality(V) - Cardinality(V \cap I)
        BY <4>4, FS_Difference
      <4>6. Cardinality(V \ I) \in Nat
        BY <4>5, FS_CardinalityType
      <4> QED BY <4>4, <4>5, <4>6
    <3>10. x.b.vcnt[j] = Cardinality(ValidIn(x, j)) /\ x.b.vcnt[j] \in Nat
      BY <1>1, <3>3, <3>4, <3>9
    <3>11. \A i \in Sblks : i # j => x.b.vcnt[i] = d.b.vcnt[i]
      BY <1>1, <3>4
    <3>12. x.b.vcnt \in [Sblks -> Nat]
      <4>1. \A i \in Sblks : x.b.vcnt[i] \in Nat
        BY <1>1, <3>10, <3>11
      <4>2. x.b.vcnt = [i \in Sblks |-> x.b.vcnt[i]]
        BY <1>1, <3>4
      <4> QED BY <4>1, <4>2
    <3>13. \A i \in Sblks : x.b.vcnt[i] = Cardinality(ValidIn(x, i))
      BY <1>1, <3>8, <3>10, <3>11
    <3> QED BY <3>12, <3>13 DEF Counted
  <2> QED BY <2>1, <2>2
<1>19. DataTypes(x)
  <2>1. x.valid \subseteq Grains
    BY <1>1, <1>2
  <2> QED BY <1>1, <1>2, <1>4, <1>5, <1>18, <2>1 DEF DataTypes
<1>20. Q \subseteq Grains
  BY <1>1 DEF Q
<1> QED BY <1>2, <1>14, <1>15, <1>16, <1>17, <1>18, <1>19, <1>20 DEF DataSound, Q

-----------------------------------------------------------------------------
(***************************************************************************)
(* The invariant.                                                          *)
(***************************************************************************)
\* What GcReady says of a data store.
ReadyForGc(d) ==
    /\ d.b.wp[d.reserve] = 0 /\ d.b.rsv = d.reserve
    /\ \A i \in Sblks : d.b.vcnt[i] = Cardinality({ g \in d.valid : g[1] = i })

\* A sound data store is ready for a GC, and stays so when the program aborts.
LEMMA SoundIsReady ==
    ASSUME NEW d, NEW P, DataSound(d, P) PROVE ReadyForGc(d)
BY DEF DataSound, ReserveErased, Counted, ValidIn, ReadyForGc

\* What readiness for a GC depends on.
LEMMA ReadyStays ==
    ASSUME NEW d, ReadyForGc(d), NEW x, x.b = d.b, x.valid = d.valid, x.reserve = d.reserve
    PROVE  ReadyForGc(x)
BY DEF ReadyForGc

\* A page the block manager refuses ends the program.
LEMMA RefusedFields ==
    ASSUME NEW d, IsData(d), NEW x, x = [d EXCEPT !.misuse = TRUE, !.aborted = TRUE]
    PROVE  x.aborted = TRUE /\ x.b = d.b /\ x.valid = d.valid /\ x.reserve = d.reserve
BY DEF IsData

\* The flush programs the device and may end the program.
LEMMA FlushFields ==
    ASSUME NEW d, NEW P, DataSound(d, P), ~d.aborted, NEW w, NEW f \in BOOLEAN,
           NEW x, x = [d EXCEPT !.dev = w, !.aborted = f]
    PROVE  /\ x.aborted \in BOOLEAN /\ ReadyForGc(x)
           /\ ~x.aborted => DataSound(x, P)
<1>1. /\ IsData(d) /\ IsPartition(d.b) /\ d.b.active \in Sblks \cup {NoSblk}
      /\ d.active \in Sblks \cup {NoSblk} /\ d.active # d.reserve
      /\ d.aborted \in BOOLEAN
  BY DEF DataSound, DataTypes, ReserveErased
<1>2. /\ IsData(x) /\ x.b = d.b /\ x.valid = d.valid /\ x.oob = d.oob
      /\ x.table = d.table /\ x.active = d.active /\ x.reserve = d.reserve
      /\ x.aborted = f
  BY <1>1 DEF IsData
<1>3. ReadyForGc(x)
  BY <1>2, SoundIsReady, ReadyStays
<1>4. ASSUME ~x.aborted PROVE DataSound(x, P)
  <2>1. SameValues(x, d)
    BY <1>1, <1>2, <1>4 DEF SameValues
  <2> QED BY <1>1, <1>2, <2>1, SameValuesSound
<1> QED BY <1>2, <1>3, <1>4

\* The entries after a page: those of its values are placed.
EntriesOn(s, o, S) ==
    [e \in Entries |->
        IF \E p \in S : p.item.id = e
        THEN LET p == CHOOSE p \in S : p.item.id = e
             IN  [entry[e] EXCEPT !.at = "placed", !.pga = <<s, o, p.off>>]
        ELSE entry[e]]

\* The values of a page become values without a pte.
LEMMA EntriesPlaced ==
    ASSUME EntriesSound(entry), NEW s, NEW o, NEW S, OnePage(s, o, S),
           \A p \in S : At(s, o, p) \notin PgasIn(entry),
           NEW en, en = EntriesOn(s, o, S)
    PROVE  EntriesSound(en) /\ PgasIn(en) = PgasIn(entry) \cup PageAddresses(s, o, S)
<1>1. /\ entry \in [Entries -> [at : Stages, len : 1 .. UnitsPerPage, pga : Grains \cup {NoPga}]]
      /\ \A e \in PlacedIn(entry) : entry[e].pga # NoPga
      /\ \A e, f \in PlacedIn(entry) : entry[e].pga = entry[f].pga => e = f
  BY DEF EntriesSound
<1>2. /\ \A p \in S : p.item.id \in Pending /\ At(s, o, p) \in Grains
      /\ \A p, q \in S : At(s, o, p) = At(s, o, q) => p = q
      /\ \A p, q \in S : p.item.id = q.item.id => p = q
  BY DEF OnePage
<1>3. /\ \A e \in Entries : (~ \E p \in S : p.item.id = e) => en[e] = entry[e]
      /\ \A p \in S : /\ en[p.item.id] = [at |-> "placed", len |-> entry[p.item.id].len,
                                              pga |-> At(s, o, p)]
                      /\ en[p.item.id].at = "placed" /\ en[p.item.id].pga = At(s, o, p)
  <2>1. \A e \in Entries : (~ \E p \in S : p.item.id = e) => en[e] = entry[e]
    BY DEF EntriesOn
  <2>2. ASSUME NEW p \in S
        PROVE  /\ en[p.item.id] = [at |-> "placed", len |-> entry[p.item.id].len,
                                       pga |-> At(s, o, p)]
               /\ en[p.item.id].at = "placed" /\ en[p.item.id].pga = At(s, o, p)
    <3>1. PICK e : e = p.item.id
      OBVIOUS
    <3>2. e \in Entries
      BY <1>2, <3>1 DEF Pending
    <3>3. PICK q : q = CHOOSE z \in S : z.item.id = e
      OBVIOUS
    <3>4. q = p
      <4>1. q \in S /\ q.item.id = e
        BY <3>1, <3>3
      <4> QED BY <1>2, <3>1, <4>1
    <3>5. en[e] = [entry[e] EXCEPT !.at = "placed", !.pga = <<s, o, q.off>>]
      BY <3>1, <3>2, <3>3 DEF EntriesOn
    <3>6. entry[e] = [at |-> entry[e].at, len |-> entry[e].len, pga |-> entry[e].pga]
      BY <1>1, <3>2
    <3>7. PICK r : r = entry[e]
      OBVIOUS
    <3>8. en[e] = [at |-> "placed", len |-> r.len, pga |-> <<s, o, q.off>>]
      BY <3>5, <3>6, <3>7
    <3> QED BY <3>1, <3>4, <3>7, <3>8 DEF At
  <2> QED BY <2>1, <2>2
<1>4. \A e \in Entries : en[e] \in [at : Stages, len : 1 .. UnitsPerPage,
                                        pga : Grains \cup {NoPga}]
  <2> SUFFICES ASSUME NEW e \in Entries
               PROVE  en[e] \in [at : Stages, len : 1 .. UnitsPerPage,
                                     pga : Grains \cup {NoPga}]
    OBVIOUS
  <2>1. CASE \E p \in S : p.item.id = e
    <3>1. PICK p \in S : p.item.id = e
      BY <2>1
    <3>2. en[e] = [at |-> "placed", len |-> entry[e].len, pga |-> At(s, o, p)]
      BY <1>3, <3>1
    <3>3. entry[e].len \in 1 .. UnitsPerPage /\ At(s, o, p) \in Grains
      BY <1>1, <1>2
    <3> QED BY <3>2, <3>3 DEF Stages
  <2>2. CASE ~ \E p \in S : p.item.id = e
    BY <1>1, <1>3, <2>2
  <2> QED BY <2>1, <2>2
<1>5. en \in [Entries -> [at : Stages, len : 1 .. UnitsPerPage, pga : Grains \cup {NoPga}]]
  <2>1. en = [e \in Entries |-> en[e]]
    BY DEF EntriesOn
  <2> QED BY <1>4, <2>1
<1>6. ASSUME NEW e \in PlacedIn(en)
      PROVE  \/ \E p \in S : p.item.id = e /\ en[e].pga = At(s, o, p)
             \/ e \in PlacedIn(entry) /\ en[e].pga = entry[e].pga
  <2>1. CASE \E p \in S : p.item.id = e
    <3>1. PICK p \in S : p.item.id = e
      BY <2>1
    <3>2. en[e].pga = At(s, o, p)
      BY <1>3, <3>1
    <3> QED BY <3>1, <3>2
  <2>2. CASE ~ \E p \in S : p.item.id = e
    <3>1. e \in Entries /\ en[e].at = "placed"
      BY DEF PlacedIn
    <3>2. en[e] = entry[e]
      BY <1>3, <2>2, <3>1
    <3> QED BY <3>1, <3>2 DEF PlacedIn
  <2> QED BY <2>1, <2>2
<1>7. /\ \A p \in S : p.item.id \in PlacedIn(en) /\ p.item.id \notin PlacedIn(entry)
      /\ \A e \in PlacedIn(entry) : e \in PlacedIn(en) /\ en[e] = entry[e]
  BY <1>2, <1>3 DEF PlacedIn, Pending
<1>8. PgasIn(en) = PgasIn(entry) \cup PageAddresses(s, o, S)
  <2>1. PgasIn(en) = { en[e].pga : e \in PlacedIn(en) }
    BY DEF PgasIn
  <2>2. ASSUME NEW h \in PgasIn(en) PROVE h \in PgasIn(entry) \cup PageAddresses(s, o, S)
    <3>1. PICK e \in PlacedIn(en) : h = en[e].pga
      BY <2>1, <2>2
    <3> QED BY <1>6, <3>1 DEF PgasIn, PageAddresses
  <2>3. ASSUME NEW h \in PgasIn(entry) PROVE h \in PgasIn(en)
    <3>1. PICK e \in PlacedIn(entry) : h = entry[e].pga
      BY DEF PgasIn
    <3> QED BY <1>7, <2>1, <3>1
  <2>4. ASSUME NEW p \in S PROVE At(s, o, p) \in PgasIn(en)
    BY <1>3, <1>7, <2>1
  <2> QED BY <2>2, <2>3, <2>4 DEF PageAddresses
<1>9. \A e \in PlacedIn(en) : en[e].pga # NoPga
  BY <1>1, <1>2, <1>6, Geometry
<1>10. ASSUME NEW e \in PlacedIn(en), NEW f \in PlacedIn(en), en[e].pga = en[f].pga
       PROVE  e = f
  <2>1. \A k \in PlacedIn(entry) : entry[k].pga \in PgasIn(entry)
    BY DEF PgasIn
  <2> QED BY <1>1, <1>2, <1>6, <1>10, <2>1
<1>11. /\ en \in [Entries -> [at : Stages, len : 1 .. UnitsPerPage,
                                  pga : Grains \cup {NoPga}]]
       /\ \A e \in PlacedIn(en) : en[e].pga # NoPga
       /\ \A e, f \in PlacedIn(en) : en[e].pga = en[f].pga => e = f
  BY <1>5, <1>9, <1>10
<1> QED BY <1>8, <1>11 DEF EntriesSound

\* An entry that gets its pte leaves the values without one.
LEMMA EntriesMapped ==
    ASSUME EntriesSound(entry), NEW e \in PlacedIn(entry), NEW en, en = [entry EXCEPT ![e].at = "mapped"]
    PROVE  EntriesSound(en) /\ PgasIn(en) = PgasIn(entry) \ {entry[e].pga}
<1>1. /\ entry \in [Entries -> [at : Stages, len : 1 .. UnitsPerPage, pga : Grains \cup {NoPga}]]
      /\ \A f \in PlacedIn(entry) : entry[f].pga # NoPga
      /\ \A f, g \in PlacedIn(entry) : entry[f].pga = entry[g].pga => f = g
      /\ e \in Entries /\ PlacedIn(entry) \subseteq Entries
  BY DEF EntriesSound, PlacedIn
<1>2. en[e].at = "mapped" /\ \A f \in Entries : f # e => en[f] = entry[f]
  BY <1>1
<1>3. en \in [Entries -> [at : Stages, len : 1 .. UnitsPerPage, pga : Grains \cup {NoPga}]]
  BY <1>1 DEF Stages
<1>4. PlacedIn(en) = PlacedIn(entry) \ {e}
  BY <1>1, <1>2 DEF PlacedIn
<1>5. \A f \in PlacedIn(en) : f \in PlacedIn(entry) /\ en[f] = entry[f] /\ f # e
  BY <1>1, <1>2, <1>4
<1>6. PgasIn(en) = PgasIn(entry) \ {entry[e].pga}
  <2>1. PgasIn(en) = { en[f].pga : f \in PlacedIn(en) }
    BY DEF PgasIn
  <2>2. ASSUME NEW h \in PgasIn(en) PROVE h \in PgasIn(entry) /\ h # entry[e].pga
    <3>1. PICK f \in PlacedIn(en) : h = en[f].pga
      BY <2>1, <2>2
    <3> QED BY <1>1, <1>5, <3>1 DEF PgasIn
  <2>3. ASSUME NEW h \in PgasIn(entry), h # entry[e].pga PROVE h \in PgasIn(en)
    <3>1. PICK f \in PlacedIn(entry) : h = entry[f].pga
      BY DEF PgasIn
    <3>2. f \in PlacedIn(en)
      BY <1>4, <2>3, <3>1
    <3> QED BY <1>5, <2>1, <3>1, <3>2
  <2> QED BY <2>2, <2>3
<1>7. /\ \A f \in PlacedIn(en) : en[f].pga # NoPga
      /\ \A f, g \in PlacedIn(en) : en[f].pga = en[g].pga => f = g
  BY <1>1, <1>5
<1> QED BY <1>3, <1>6, <1>7 DEF EntriesSound

-----------------------------------------------------------------------------
(***************************************************************************)
(* The invariant holds at first and every action keeps it.                 *)
(***************************************************************************)
\* Nothing is on flash at first.
LEMMA InitSound == DataSound(data_init, {})
<1>1. PICK d : d = data_init
  OBVIOUS
<1>2. PICK b : b = dftl_bm_init
  OBVIOUS
<1>3. PICK w : w = Dev!ssd_init
  OBVIOUS
<1>4. PICK o : o = [g \in Grains |-> NoOob]
  OBVIOUS
<1>5. PICK t : t = [l \in Lpas |-> NoPga]
  OBVIOUS
<1>6. d = [b |-> b, valid |-> {}, oob |-> o, dev |-> w, table |-> t,
           active |-> NoSblk, reserve |-> SSblk,
           refused |-> FALSE, misuse |-> FALSE, aborted |-> FALSE]
  BY <1>1, <1>2, <1>3, <1>4, <1>5 DEF data_init
<1>7. /\ IsData(d) /\ d.b = b /\ d.valid = {} /\ d.oob = o /\ d.table = t
      /\ d.active = NoSblk /\ d.reserve = SSblk /\ d.aborted = FALSE
  BY <1>6 DEF IsData
<1>8. /\ IsPartition(b) /\ b.wp = [i \in Sblks |-> 0] /\ b.vcnt = [i \in Sblks |-> 0]
      /\ b.rsv = SSblk /\ b.active = NoSblk
  BY <1>2 DEF dftl_bm_init, IsPartition
<1>9. \A g \in Grains : o[g] = NoOob /\ o[g].len = 0 /\ NoOob \in Oob
  BY <1>4, Geometry DEF NoOob, Oob
<1>10. MappedPgas(d) = {} /\ Addresses(d, {}) = {}
  BY <1>5, <1>7 DEF MappedPgas, Addresses
<1>11. DataTypes(d)
  <2>1. d.oob \in [Grains -> Oob]
    BY <1>4, <1>7, <1>9
  <2>2. d.b.wp \in [Sblks -> 0 .. PagesPerSblk] /\ d.b.vcnt \in [Sblks -> Nat]
    BY <1>7, <1>8, Geometry
  <2>3. d.table \in [Lpas -> Grains \cup {NoPga}]
    BY <1>5, <1>7
  <2> QED BY <1>7, <1>8, <2>1, <2>2, <2>3, Geometry DEF DataTypes
<1>12. ValuesApart(d, {}) /\ OobNames(d, {}) /\ FreshPages(d)
  BY <1>5, <1>7, <1>9, <1>10 DEF ValuesApart, OobNames, FreshPages
<1>13. ReserveErased(d)
  BY <1>7, <1>8, Geometry DEF ReserveErased
<1>14. Counted(d)
  <2>1. \A i : ValidIn(d, i) = {}
    BY <1>7 DEF ValidIn
  <2> QED BY <1>7, <1>8, <2>1, FS_EmptySet DEF Counted
<1> QED BY <1>1, <1>11, <1>12, <1>13, <1>14 DEF DataSound

\* The invariant holds at first.
LEMMA InitInv == Init => DataInv
<1> SUFFICES ASSUME Init PROVE DataInv
  OBVIOUS
<1>1. /\ data = data_init
      /\ entry = [e \in Entries |-> [at |-> "buffer", len |-> 1, pga |-> NoPga]]
  BY DEF Init
<1>2. PlacedIn(entry) = {} /\ PgasIn(entry) = {}
  BY <1>1 DEF PlacedIn, PgasIn
<1>3. DataSound(data, PgasIn(entry))
  BY <1>1, <1>2, InitSound
<1>4. EntriesSound(entry)
  <2>1. 1 \in 1 .. UnitsPerPage
    BY Geometry
  <2> QED BY <1>1, <1>2, <2>1 DEF EntriesSound, Stages
<1>6. GcReady
  BY <1>3, SoundIsReady DEF GcReady, ReadyForGc
<1> QED BY <1>3, <1>4, <1>6 DEF DataInv

\* The invariant says as much of the next state.
LEMMA InvAfter ==
    ASSUME early' = {} => /\ ReadyForGc(data')
                          /\ ~data'.aborted => DataSound(data', PgasIn(entry')) /\ EntriesSound(entry')
    PROVE  DataInv'
BY DEF DataInv, GcReady, ReadyForGc

\* A full buffer changes nothing on flash.
LEMMA FillInv ==
    ASSUME DataInv, NEW len \in [Entries -> ValueLens], Fill(len)
    PROVE  DataInv'
<1>1. /\ ~data.aborted /\ Idle /\ data' = data /\ early' = early
      /\ entry' = [e \in Entries |-> [at |-> "pending", len |-> len[e], pga |-> NoPga]]
  BY DEF Fill
<1>2. PgasIn(entry) = {}
  BY <1>1 DEF Idle, AllAt, PlacedIn, PgasIn
<1>3. PICK en : en = entry'
  OBVIOUS
<1>4. PlacedIn(en) = {} /\ PgasIn(en) = {}
  BY <1>1, <1>3 DEF PlacedIn, PgasIn
<1>5. EntriesSound(en)
  <2>1. \A e \in Entries : len[e] \in 1 .. UnitsPerPage
    BY DataPathAssumption
  <2> QED BY <1>1, <1>3, <1>4, <2>1 DEF EntriesSound, Stages
<1>6. early = {} => DataSound(data, {})
  BY <1>1, <1>2 DEF DataInv
<1>7. early' = {} => /\ ReadyForGc(data')
                     /\ DataSound(data', PgasIn(entry')) /\ EntriesSound(entry')
  <2> SUFFICES ASSUME early' = {}
               PROVE  /\ ReadyForGc(data')
                      /\ DataSound(data', PgasIn(entry')) /\ EntriesSound(entry')
    OBVIOUS
  <2>1. DataSound(data, {})
    BY <1>1, <1>6
  <2>2. ReadyForGc(data)
    BY <2>1, SoundIsReady
  <2> QED BY <1>1, <1>3, <1>4, <1>5, <2>1, <2>2
<1> QED BY <1>7, InvAfter

\* A page for the flush, with the GC it may need.
LEMMA AssignInv ==
    ASSUME DataInv, AssignPage
    PROVE  DataInv'
<1> DEFINE P == PgasIn(entry)
           target == get_gc_target(data.b)
<1>1. PICK d \in dp_alloc(data) :
         IF d.aborted THEN data' = d /\ UNCHANGED <<entry, fl>>
         ELSE IF d.b.wp[d.active] >= PagesPerSblk
         THEN data' = [d EXCEPT !.misuse = TRUE, !.aborted = TRUE]
              /\ UNCHANGED <<entry, fl>>
         ELSE /\ data' = Placed(d, d.active, d.b.wp[d.active])
              /\ entry' = EntriesOn(d.active, d.b.wp[d.active], NextPage)
  BY DEF AssignPage, EntriesOn
<1>2. /\ ~data.aborted
      /\ early' = IF RunsGc(data)
                  THEN early \cup { e \in Entries : /\ entry[e].at = "placed"
                                                    /\ entry[e].pga[1] = target }
                  ELSE early
  BY DEF AssignPage
<1>3. ASSUME early' = {}
      PROVE  /\ ReadyForGc(data')
             /\ ~data'.aborted => DataSound(data', PgasIn(entry')) /\ EntriesSound(entry')
  <2>1. early = {}
    BY <1>2, <1>3
  <2>2. DataSound(data, P) /\ EntriesSound(entry) /\ ReadyForGc(data)
    BY <1>2, <2>1, SoundIsReady DEF DataInv
  <2>3. RunsGc(data) => \A h \in P : h[1] # target
    <3> SUFFICES ASSUME RunsGc(data), NEW e \in PlacedIn(entry) PROVE entry[e].pga[1] # target
      BY DEF PgasIn
    <3>1. e \in Entries /\ entry[e].at = "placed"
      BY DEF PlacedIn
    <3>2. { f \in Entries : entry[f].at = "placed" /\ entry[f].pga[1] = target } = {}
      BY <1>2, <1>3
    <3> QED BY <3>1, <3>2
  <2> HIDE DEF P, target
  <2>4. Allocated(data, P, d)
    BY <2>2, <2>3, AllocSound DEF target
  <2>5. CASE d.aborted
    <3>1. data' = d
      BY <1>1, <2>5
    <3>2. ReadyForGc(d)
      BY <2>2, <2>4, SoundIsReady, ReadyStays DEF Allocated
    <3> QED BY <2>5, <3>1, <3>2
  <2>6. CASE ~d.aborted
    <3>1. DataSound(d, P) /\ d.active \in Sblks
      BY <2>4, <2>6 DEF Allocated
    <3>2. IsData(d) /\ IsPartition(d.b) /\ d.b.wp \in [Sblks -> 0 .. PagesPerSblk]
      BY <3>1 DEF DataSound, DataTypes
    <3>3. PICK s : s = d.active
      OBVIOUS
    <3>4. PICK o : o = d.b.wp[s]
      OBVIOUS
    <3>5. s \in Sblks /\ o \in Nat
      BY <3>1, <3>2, <3>3, <3>4
    <3>6. PICK x : x = data'
      OBVIOUS
    <3>7. CASE o >= PagesPerSblk
      <4>1. x = [d EXCEPT !.misuse = TRUE, !.aborted = TRUE]
        BY <1>1, <2>6, <3>3, <3>4, <3>6, <3>7
      <4>2. x.aborted = TRUE /\ x.b = d.b /\ x.valid = d.valid /\ x.reserve = d.reserve
        BY <3>2, <4>1, RefusedFields
      <4>3. ReadyForGc(x)
        BY <3>1, <4>2, SoundIsReady, ReadyStays
      <4> QED BY <3>6, <4>2, <4>3
    <3>8. CASE ~(o >= PagesPerSblk)
      <4>1. o < PagesPerSblk
        BY <3>5, <3>8, Geometry
      <4>2. x = Placed(d, s, o) /\ entry' = EntriesOn(s, o, NextPage)
        BY <1>1, <2>6, <3>3, <3>4, <3>6, <3>8
      <4>3. PICK S : S = NextPage
        OBVIOUS
      <4>4. OnePage(s, o, S)
        BY <2>2, <3>5, <4>1, <4>3, NextPageApart
      <4>5. AfterPage(d, s, o, S, x)
        BY <3>2, <4>2, <4>3, PageFields
      <4>6. /\ DataSound(x, P \cup PageAddresses(s, o, S))
            /\ \A p \in S : At(s, o, p) \notin P
        BY <3>1, <3>3, <3>4, <3>5, <4>1, <4>4, <4>5, PageSound
      <4>7. PICK en : en = entry'
        OBVIOUS
      <4>8. en = EntriesOn(s, o, S)
        BY <4>2, <4>3, <4>7
      <4>9. EntriesSound(en) /\ PgasIn(en) = PgasIn(entry) \cup PageAddresses(s, o, S)
        BY <2>2, <4>4, <4>6, <4>8, EntriesPlaced DEF P
      <4>10. ReadyForGc(x) /\ DataSound(x, PgasIn(en))
        BY <4>6, <4>9, SoundIsReady DEF P
      <4> QED BY <3>6, <4>7, <4>9, <4>10
    <3> QED BY <3>7, <3>8
  <2> QED BY <2>5, <2>6
<1> QED BY <1>3, InvAfter

\* A mapping update keeps the invariant.
LEMMA MapInv ==
    ASSUME DataInv, NEW e \in Entries, NEW l \in Lpas, MapEntry(e, l)
    PROVE  DataInv'
<1>1. /\ ~data.aborted /\ entry[e].at = "placed" /\ early' = early
      /\ entry' = [entry EXCEPT ![e].at = "mapped"]
  BY DEF MapEntry
<1>2. PICK h : h = entry[e].pga
  OBVIOUS
<1>3. PICK y : y = Overwritten(l)
  OBVIOUS
<1>4. PICK x : x = data'
  OBVIOUS
<1>5. x = [y EXCEPT !.table[l] = h, !.oob[h].lpa = l]
  BY <1>2, <1>3, <1>4 DEF MapEntry
<1>6. PICK en : en = entry'
  OBVIOUS
<1>7. ASSUME early' = {}
      PROVE  /\ ReadyForGc(x) /\ DataSound(x, PgasIn(en)) /\ EntriesSound(en)
  <2>1. DataSound(data, PgasIn(entry)) /\ EntriesSound(entry)
    BY <1>1, <1>7 DEF DataInv
  <2>2. IsData(data) /\ IsPartition(data.b)
    BY <2>1 DEF DataSound, DataTypes
  <2>3. AfterMap(data, h, l, x)
    <3>1. y = IF data.table[l] = NoPga THEN data ELSE invalidate_value(data, data.table[l])
      BY <1>3 DEF Overwritten
    <3> QED BY <1>5, <2>2, <3>1, MapFields
  <2>4. e \in PlacedIn(entry) /\ h \in PgasIn(entry)
    BY <1>1, <1>2 DEF PlacedIn, PgasIn
  <2>5. EntriesSound(en) /\ PgasIn(en) = PgasIn(entry) \ {h}
    BY <1>1, <1>2, <1>6, <2>1, <2>4, EntriesMapped
  <2>6. DataSound(x, PgasIn(entry) \ {h})
    BY <2>1, <2>3, <2>4, MapSound
  <2> QED BY <2>5, <2>6, SoundIsReady
<1> QED BY <1>4, <1>6, <1>7, InvAfter

\* Programming the pages keeps the invariant.
LEMMA FlushInv ==
    ASSUME DataInv, Flush
    PROVE  DataInv'
<1>1. /\ ~data.aborted /\ AllAt("mapped") /\ early' = early
      /\ entry' = [e \in Entries |-> [at |-> "buffer", len |-> 1, pga |-> NoPga]]
  BY DEF Flush
<1>2. PICK out : data' = [data EXCEPT !.dev = out.dev, !.aborted = out.rc # Dev!Done]
  BY DEF Flush
<1>3. PICK f \in BOOLEAN : f = (out.rc # Dev!Done)
  OBVIOUS
<1>4. PICK x : x = data'
  OBVIOUS
<1>5. x = [data EXCEPT !.dev = out.dev, !.aborted = f]
  BY <1>2, <1>3, <1>4
<1>6. PgasIn(entry) = {}
  BY <1>1 DEF AllAt, PlacedIn, PgasIn
<1>7. PICK en : en = entry'
  OBVIOUS
<1>8. PlacedIn(en) = {} /\ PgasIn(en) = {}
  BY <1>1, <1>7 DEF PlacedIn, PgasIn
<1>9. EntriesSound(en)
  <2>1. 1 \in 1 .. UnitsPerPage
    BY Geometry
  <2> QED BY <1>1, <1>7, <1>8, <2>1 DEF EntriesSound, Stages
<1>10. ASSUME early' = {}
       PROVE  ReadyForGc(x) /\ (~x.aborted => DataSound(x, PgasIn(en)))
  <2>1. DataSound(data, {})
    BY <1>1, <1>6, <1>10 DEF DataInv
  <2> QED BY <1>1, <1>5, <1>8, <2>1, FlushFields
<1> QED BY <1>4, <1>7, <1>9, <1>10, InvAfter

\* The values on flash are those of the table and of the entries without a pte.
THEOREM DataInvariant == Spec => []DataInv
<1>1. Init => DataInv
  BY InitInv
<1>2. ASSUME DataInv, [Next]_vars PROVE DataInv'
  <2>1. ASSUME NEW len \in [Entries -> ValueLens], Fill(len) PROVE DataInv'
    BY <1>2, <2>1, FillInv
  <2>2. CASE AssignPage
    BY <1>2, <2>2, AssignInv
  <2>3. ASSUME NEW e \in Entries, NEW l \in Lpas, MapEntry(e, l) PROVE DataInv'
    BY <1>2, <2>3, MapInv
  <2>4. CASE Flush
    BY <1>2, <2>4, FlushInv
  <2>5. CASE UNCHANGED vars
    <3>1. data' = data /\ entry' = entry /\ early' = early
      BY <2>5 DEF vars
    <3>2. early' = {} => /\ ReadyForGc(data')
                         /\ ~data'.aborted => DataSound(data', PgasIn(entry')) /\ EntriesSound(entry')
      BY <1>2, <3>1 DEF DataInv, GcReady, ReadyForGc
    <3> QED BY <3>2, InvAfter
  <2> QED BY <1>2, <2>1, <2>2, <2>3, <2>4, <2>5 DEF Next
<1> QED BY <1>1, <1>2, PTL DEF Spec

-----------------------------------------------------------------------------
\* A sound data store is what TableSound asks for: the values are counted by their addresses.
LEMMA TableHolds ==
    ASSUME DataSound(data, PgasIn(entry)), EntriesSound(entry)
    PROVE  /\ \A l \in Mapped : /\ data.oob[data.table[l]].lpa = l
                                /\ data.oob[data.table[l]].len > 0
           /\ \A V, W \in Values : V # W => V \cap W = {}
           /\ Cardinality(Values) = Cardinality(Mapped) + Cardinality(Unmapped)
           /\ data.valid = UNION Values
<1> DEFINE P == PgasIn(entry)
           A == Addresses(data, P)
           M == MappedPgas(data)
           item == [h \in A |-> ItemAt(data, h)]
<1>1. /\ \A l \in Mapped : l \in Lpas /\ data.table[l] \in M /\ data.oob[data.table[l]].lpa = l
                           /\ data.table[l] \notin P
      /\ \A h \in M : \E l \in Mapped : data.table[l] = h
      /\ M \subseteq A /\ P \subseteq A /\ A = M \cup P
  BY DEF Mapped, MappedPgas, Addresses, DataSound, OobNames
<1>2. /\ Unmapped = PlacedIn(entry) /\ \A e \in Unmapped : entry[e].pga \in P
      /\ \A h \in P : \E e \in Unmapped : entry[e].pga = h
      /\ \A e, f \in Unmapped : entry[e].pga = entry[f].pga => e = f
  BY DEF Unmapped, PlacedIn, PgasIn, EntriesSound
<1>3. /\ \A h \in A : data.oob[h].len > 0 /\ h \in ItemAt(data, h) /\ h \in Grains
      /\ \A h, k \in A : h # k => ItemAt(data, h) \cap ItemAt(data, k) = {}
      /\ data.valid = UNION { ItemAt(data, h) : h \in A }
  BY AddressFacts DEF DataSound, ValuesApart
<1> HIDE DEF P, A, M
<1>4. Values = { ItemAt(data, h) : h \in A }
  <2>1. ASSUME NEW V \in Values PROVE \E h \in A : V = ItemAt(data, h)
    BY <1>1, <1>2 DEF Values
  <2>2. ASSUME NEW h \in A PROVE ItemAt(data, h) \in Values
    <3>1. CASE h \in M
      <4>1. PICK l \in Mapped : data.table[l] = h
        BY <1>1, <3>1
      <4> QED BY <4>1 DEF Values
    <3>2. CASE h \in P
      <4>1. PICK e \in Unmapped : entry[e].pga = h
        BY <1>2, <3>2
      <4> QED BY <4>1 DEF Values
    <3> QED BY <1>1, <3>1, <3>2
  <2> QED BY <2>1, <2>2
<1>5. \A l \in Mapped : data.oob[data.table[l]].lpa = l /\ data.oob[data.table[l]].len > 0
  BY <1>1, <1>3
<1>6. \A V, W \in Values : V # W => V \cap W = {}
  BY <1>3, <1>4
<1>7. IsFiniteSet(A) /\ Cardinality(Values) = Cardinality(A)
  <2>1. IsFiniteSet(A)
    <3>1. A \in SUBSET Grains
      BY <1>3
    <3> QED BY <3>1, Geometry, FS_Subset
  <2>2. item \in [A -> Values] /\ \A V \in Values : \E h \in A : item[h] = V
    BY <1>4
  <2>3. \A h, k \in A : item[h] = item[k] => h = k
    BY <1>3
  <2> HIDE DEF item
  <2> QED BY <2>1, <2>2, <2>3, SameCount
<1>8. Cardinality(M) = Cardinality(Mapped) /\ IsFiniteSet(M)
  <2> DEFINE f == [l \in Mapped |-> data.table[l]]
  <2>1. IsFiniteSet(Mapped)
    BY Geometry, FS_Subset DEF Mapped
  <2>2. f \in [Mapped -> M] /\ \A h \in M : \E l \in Mapped : f[l] = h
    BY <1>1
  <2>3. \A k, l \in Mapped : f[k] = f[l] => k = l
    BY <1>1
  <2> HIDE DEF f
  <2> QED BY <2>1, <2>2, <2>3, SameCount
<1>9. Cardinality(P) = Cardinality(Unmapped) /\ IsFiniteSet(P)
  <2> DEFINE f == [e \in Unmapped |-> entry[e].pga]
  <2>1. IsFiniteSet(Unmapped)
    BY Geometry, FS_Subset DEF Unmapped
  <2>2. f \in [Unmapped -> P] /\ \A h \in P : \E e \in Unmapped : f[e] = h
    BY <1>2
  <2>3. \A d, e \in Unmapped : f[d] = f[e] => d = e
    BY <1>2
  <2> HIDE DEF f
  <2> QED BY <2>1, <2>2, <2>3, SameCount
<1>10. Cardinality(A) = Cardinality(M) + Cardinality(P)
  <2>1. M \cap P = {}
    BY <1>1
  <2>2. Cardinality(M \cup P) = Cardinality(M) + Cardinality(P) - Cardinality(M \cap P)
    BY <1>8, <1>9, FS_Union
  <2>3. Cardinality(M \cap P) = 0
    BY <2>1, FS_EmptySet
  <2>4. Cardinality(M) \in Nat /\ Cardinality(P) \in Nat
    BY <1>8, <1>9, FS_CardinalityType
  <2> QED BY <1>1, <2>2, <2>3, <2>4
<1>11. Cardinality(Values) = Cardinality(Mapped) + Cardinality(Unmapped)
  BY <1>7, <1>8, <1>9, <1>10
<1>12. data.valid = UNION Values
  BY <1>3, <1>4
<1> QED BY <1>5, <1>6, <1>11, <1>12

\* A pte names a value whose oob names that pte, no two values share a grain, and the
\* valid grains are those of the values, through every flush and every GC.
THEOREM TableAlwaysSound == Spec => []TableSound
<1>1. DataInv => TableSound
  <2> SUFFICES ASSUME DataInv, early = {} /\ ~data.aborted
               PROVE  /\ \A l \in Mapped : /\ data.oob[data.table[l]].lpa = l
                                           /\ data.oob[data.table[l]].len > 0
                      /\ \A V, W \in Values : V # W => V \cap W = {}
                      /\ Cardinality(Values) = Cardinality(Mapped) + Cardinality(Unmapped)
                      /\ data.valid = UNION Values
    BY DEF TableSound
  <2>1. DataSound(data, PgasIn(entry)) /\ EntriesSound(entry)
    BY DEF DataInv, GcReady
  <2> QED BY <2>1, TableHolds
<1> QED BY <1>1, DataInvariant, PTL

\* The reserve is erased and the counters of valid grains are exact, also in the state
\* the program aborts in.
THEOREM GcAlwaysReady == Spec => []GcReady
<1>1. DataInv => GcReady
  BY DEF DataInv, GcReady
<1> QED BY <1>1, DataInvariant, PTL

-----------------------------------------------------------------------------
(***************************************************************************)
(* The device under the flushes.  The block manager hands pages out; a     *)
(* flush programs them later, run by run, and a GC programs and trims at   *)
(* once.  The device accepts all of it, because the pages a flush has yet  *)
(* to program are, in the order of its list, those between the write       *)
(* pointer of the device and that of the block manager, and no GC touches  *)
(* a superblock that has such pages.                                       *)
(***************************************************************************)
\* The device of module Nand, with the facts proved of it.
Nd == INSTANCE NandDeviceProofs
    WITH Lines <- Sblks, PagesPerLine <- PagesPerSblk, MaxRun <- 1, dev <- data.dev, rc <- 0

\* Page o of superblock s is in the run; it is in one of the runs of f.
InRun(run, s, o) == Nd!InRun(run.s, run.o, run.n, s, o)

Queued(f, s, o) == \E j \in 1 .. Len(f) : InRun(f[j], s, o)

\* No write of a GC was refused.
Unrefused(d) == d.refused = FALSE

\* The device has programmed no page that was not handed out.
DevSound(d) ==
    /\ d.dev \in Nd!Device /\ Nd!Prefix(d.dev)
    /\ \A i \in Sblks : d.dev.wp[i] <= d.b.wp[i]

\* The runs are the pages handed out and not programmed, each in one run, and those of a
\* superblock in the order of its pages.
RunsSound(d, f) ==
    /\ f \in Seq([s : Sblks, o : Offsets, n : Nat])
    /\ \A j \in 1 .. Len(f) : \A i \in 0 .. f[j].n - 1 : Nd!LineOf(f[j].s, f[j].o, i) \in Sblks
    /\ \A s \in Sblks, o \in Offsets : Queued(f, s, o) <=> d.dev.wp[s] <= o /\ o < d.b.wp[s]
    /\ \A j, k \in 1 .. Len(f), s \in Sblks, o, p \in Offsets :
          InRun(f[j], s, o) /\ InRun(f[k], s, p) /\ o < p => j <= k
    /\ \A j, k \in 1 .. Len(f), s \in Sblks, o \in Offsets :
          InRun(f[j], s, o) /\ InRun(f[k], s, o) => j = k

\* Superblock i has pages that were handed out and not programmed.
Behind(d, i) == d.dev.wp[i] < d.b.wp[i]

\* The invariant.  While entries wait for a page, the pages of the flush that are not
\* programmed hold values without a pte, which is how a GC can tell.
DeviceInv ==
    early = {} =>
        /\ Unrefused(data)
        /\ data.aborted => ~Idle
        /\ ~data.aborted =>
              /\ DevSound(data) /\ RunsSound(data, fl)
              /\ Idle => fl = <<>>
              /\ Pending # {} => \A i \in Sblks : Behind(data, i) =>
                                    \E e \in PlacedIn(entry) : entry[e].pga[1] = i

-----------------------------------------------------------------------------
(***************************************************************************)
(* The device as an instance.                                              *)
(***************************************************************************)
\* The superblocks are lines of the device.
LEMMA Instance ==
    /\ Nd!NandAssumption /\ Nd!Offsets = Offsets /\ Nd!Done = Dev!Done
    /\ \A d, l, o, n : Dev!ssd_write_ppa(d, l, o, n) = Nd!ssd_write_ppa(d, l, o, n)
    /\ \A d, l, o, n : Dev!Accepted(d, l, o, n) = Nd!Accepted(d, l, o, n)
<1>1. Nd!NandAssumption /\ Nd!Offsets = Offsets /\ Nd!Done = Dev!Done
  BY Geometry DEF Nd!NandAssumption, Nd!Offsets, Offsets, Nd!Done, Dev!Done
<1>2. ASSUME NEW d, NEW l, NEW o, NEW n
      PROVE  Dev!ssd_write_ppa(d, l, o, n) = Nd!ssd_write_ppa(d, l, o, n)
  BY Zenon DEF Dev!ssd_write_ppa, Nd!ssd_write_ppa, Dev!ProgramResult, Nd!ProgramResult,
               Dev!ProgramPage, Nd!ProgramPage, Dev!Done, Nd!Done, Dev!Overwrite,
               Nd!Overwrite, Dev!OutOfOrder, Nd!OutOfOrder
<1>3. ASSUME NEW d, NEW l, NEW o, NEW n
      PROVE  Dev!Accepted(d, l, o, n) = Nd!Accepted(d, l, o, n)
  BY Zenon DEF Dev!Accepted, Nd!Accepted
<1> QED BY <1>1, <1>2, <1>3

\* Two pages of one number are the same; the numbers go up in a superblock.
LEMMA PageNumbers ==
    ASSUME NEW s \in Sblks, NEW t \in Sblks, NEW o \in Offsets, NEW p \in Offsets
    PROVE  /\ Nd!PageNo(s, o) \in Nat
           /\ Nd!PageNo(s, o) = Nd!PageNo(t, p) => s = t /\ o = p
           /\ o \in Nat /\ o < PagesPerSblk
<1>1. s \in Nat /\ t \in Nat /\ o \in Nat /\ o < PagesPerSblk
  BY Geometry DEF Offsets
<1> QED BY <1>1, Instance, Nd!PageOrder

\* A run that a page joins or that it begins.
LEMMA OnePageMore ==
    ASSUME NEW run \in [s : Sblks, o : Offsets, n : Nat], NEW s \in Sblks, NEW o \in Offsets,
           Nd!PageNo(s, o) = Nd!PageNo(run.s, run.o) + run.n,
           NEW t \in Sblks, NEW p \in Offsets, NEW more, more = [run EXCEPT !.n = @ + 1]
    PROVE  InRun(more, t, p) <=> InRun(run, t, p) \/ (t = s /\ p = o)
<1>1. run.s \in Sblks /\ run.o \in Offsets /\ run.n \in Nat
      /\ more.s = run.s /\ more.o = run.o /\ more.n = run.n + 1
  OBVIOUS
<1>2. PICK base \in Nat : base = Nd!PageNo(run.s, run.o)
  BY <1>1, PageNumbers
<1>3. PICK x \in Nat : x = Nd!PageNo(t, p)
  BY PageNumbers
<1>4. x = base + run.n <=> t = s /\ p = o
  BY <1>2, <1>3, PageNumbers
<1>5. /\ InRun(run, t, p) <=> base <= x /\ x < base + run.n
      /\ InRun(more, t, p) <=> base <= x /\ x < base + (run.n + 1)
  BY <1>1, <1>2, <1>3 DEF InRun, Nd!InRun
<1> QED BY <1>1, <1>2, <1>3, <1>4, <1>5

-----------------------------------------------------------------------------
(***************************************************************************)
(* A page of the flush.                                                    *)
(***************************************************************************)
\* The runs after a page: it is in the last of them, and the others are as before.
PageAdded(f, g, s, o) ==
    /\ g \in Seq([s : Sblks, o : Offsets, n : Nat])
    /\ Len(g) \in Nat /\ Len(g) > 0 /\ Len(f) \in Nat /\ Len(f) <= Len(g)
    /\ \A j \in 1 .. Len(g), t \in Sblks, p \in Offsets :
          InRun(g[j], t, p) <=> \/ j <= Len(f) /\ InRun(f[j], t, p)
                                \/ j = Len(g) /\ t = s /\ p = o
    /\ \A j \in 1 .. Len(g) : \A i \in 0 .. g[j].n - 1 : Nd!LineOf(g[j].s, g[j].o, i) \in Sblks

\* A page joins the last run, or is a run of its own.
LEMMA AddPageAdds ==
    ASSUME fl \in Seq([s : Sblks, o : Offsets, n : Nat]),
           \A j \in 1 .. Len(fl) : \A i \in 0 .. fl[j].n - 1 : Nd!LineOf(fl[j].s, fl[j].o, i) \in Sblks,
           NEW s \in Sblks, NEW o \in Offsets, NEW g, g = AddPage(s, o)
    PROVE  PageAdded(fl, g, s, o)
<1> DEFINE Run == [s : Sblks, o : Offsets, n : Nat]
<1>1. PICK L \in Nat : L = Len(fl)
  OBVIOUS
<1>2. \A j \in 1 .. L : fl[j] \in Run
  <2>1. fl \in Seq(Run)
    OBVIOUS
  <2> HIDE DEF Run
  <2> QED BY <1>1, <2>1
<1>3. s \in Nat /\ o \in Nat
  BY Geometry, PageNumbers
<1>4. CASE JoinsRun(s, o)
  <2>1. L > 0 /\ L \in 1 .. L
    BY <1>1, <1>4 DEF JoinsRun
  <2>2. PICK run \in Run : run = fl[L]
    BY <1>2, <2>1
  <2>3. run.s * PagesPerSblk + run.o + run.n = s * PagesPerSblk + o
    BY <1>1, <1>4, <2>2 DEF JoinsRun, Last
  <2>4. Nd!PageNo(s, o) = Nd!PageNo(run.s, run.o) + run.n
    BY <2>3 DEF Nd!PageNo
  <2>5. PICK more : more = [run EXCEPT !.n = @ + 1]
    OBVIOUS
  <2>6. more \in Run /\ more.s = run.s /\ more.o = run.o /\ more.n = run.n + 1
    <3>1. run = [s |-> run.s, o |-> run.o, n |-> run.n]
      OBVIOUS
    <3>2. run.s \in Sblks /\ run.o \in Offsets /\ run.n \in Nat
      OBVIOUS
    <3>3. PICK a \in Sblks : a = run.s
      BY <3>2
    <3>4. PICK b \in Offsets : b = run.o
      BY <3>2
    <3>5. PICK c \in Nat : c = run.n
      BY <3>2
    <3>6. run = [s |-> a, o |-> b, n |-> c]
      BY <3>1, <3>3, <3>4, <3>5
    <3>7. more = [s |-> a, o |-> b, n |-> c + 1]
      BY <2>5, <3>6
    <3> QED BY <3>3, <3>4, <3>5, <3>7
  <2>7. g = [fl EXCEPT ![L] = more]
    BY <1>1, <1>4, <2>2, <2>5 DEF AddPage
  <2>8. g \in Seq(Run) /\ Len(g) = L /\ \A j \in 1 .. L : g[j] = IF j = L THEN more ELSE fl[j]
    BY <1>1, <2>1, <2>6, <2>7
  <2>9. ASSUME NEW t \in Sblks, NEW p \in Offsets
        PROVE  InRun(more, t, p) <=> InRun(run, t, p) \/ (t = s /\ p = o)
    BY <2>4, <2>5, OnePageMore
  <2>10. ASSUME NEW i \in 0 .. more.n - 1 PROVE Nd!LineOf(more.s, more.o, i) \in Sblks
    <3>1. CASE i < run.n
      <4>1. i \in 0 .. run.n - 1
        BY <2>6, <3>1
      <4> QED BY <1>1, <2>1, <2>2, <2>6, <4>1
    <3>2. CASE ~(i < run.n)
      <4>1. i = run.n /\ i \in Nat
        BY <2>6, <3>2
      <4>2. run.s \in Nat /\ run.o \in Offsets
        BY Geometry
      <4>3. PICK l \in Nat : l = Nd!LineOf(run.s, run.o, i)
        BY <4>1, <4>2, Instance, Nd!RunPage
      <4>4. PICK p \in Offsets : p = Nd!OfftOf(run.o, i)
        BY <4>1, <4>2, Instance, Nd!RunPage
      <4>5. Nd!PageNo(l, p) = Nd!PageNo(run.s, run.o) + i
        BY <4>1, <4>2, <4>3, <4>4, Instance, Nd!RunPage
      <4>6. Nd!PageNo(l, p) = Nd!PageNo(s, o)
        BY <2>4, <4>1, <4>5
      <4>7. l = s
        BY <1>3, <4>6, Instance, Nd!PageOrder
      <4> QED BY <2>6, <4>3, <4>7
    <3> QED BY <3>1, <3>2
  <2> HIDE DEF Run
  <2>11. \A j \in 1 .. L : \A i \in 0 .. g[j].n - 1 : Nd!LineOf(g[j].s, g[j].o, i) \in Sblks
    BY <1>1, <2>8, <2>10
  <2>12. \A j \in 1 .. L, t \in Sblks, p \in Offsets :
            InRun(g[j], t, p) <=> \/ j <= L /\ InRun(fl[j], t, p)
                                  \/ j = L /\ t = s /\ p = o
    <3> SUFFICES ASSUME NEW j \in 1 .. L, NEW t \in Sblks, NEW p \in Offsets
                 PROVE  InRun(g[j], t, p) <=> InRun(fl[j], t, p) \/ (j = L /\ t = s /\ p = o)
      OBVIOUS
    <3>1. CASE j = L
      BY <2>2, <2>8, <2>9, <3>1
    <3>2. CASE j # L
      BY <2>8, <3>2
    <3> QED BY <3>1, <3>2
  <2> QED BY <1>1, <2>1, <2>8, <2>11, <2>12 DEF PageAdded, Run
<1>5. CASE ~JoinsRun(s, o)
  <2>1. PICK none : none = [s |-> s, o |-> o, n |-> 0]
    OBVIOUS
  <2>2. PICK new : new = [s |-> s, o |-> o, n |-> 1]
    OBVIOUS
  <2>3. new = [none EXCEPT !.n = @ + 1] /\ none \in Run /\ new \in Run
    BY <2>1, <2>2
  <2>4. g = Append(fl, new)
    BY <1>5, <2>2 DEF AddPage
  <2>5. /\ g \in Seq(Run) /\ Len(g) = L + 1
        /\ \A j \in 1 .. L + 1 : g[j] = IF j = L + 1 THEN new ELSE fl[j]
    BY <1>1, <2>3, <2>4
  <2>6. Nd!PageNo(s, o) \in Nat
    BY PageNumbers
  <2>7. ASSUME NEW t \in Sblks, NEW p \in Offsets
        PROVE  InRun(new, t, p) <=> t = s /\ p = o
    <3>1. Nd!PageNo(s, o) = Nd!PageNo(none.s, none.o) + none.n
      BY <2>1, <2>6
    <3>2. InRun(new, t, p) <=> InRun(none, t, p) \/ (t = s /\ p = o)
      BY <2>3, <3>1, OnePageMore
    <3>3. ~InRun(none, t, p)
      <4>1. Nd!PageNo(t, p) \in Nat
        BY PageNumbers
      <4> QED BY <2>1, <2>6, <4>1 DEF InRun, Nd!InRun
    <3> QED BY <3>2, <3>3
  <2>8. ASSUME NEW i \in 0 .. new.n - 1 PROVE Nd!LineOf(new.s, new.o, i) \in Sblks
    <3>1. i = 0 /\ new.s = s /\ new.o = o
      BY <2>2
    <3>2. PICK l \in Nat : l = Nd!LineOf(s, o, 0)
      BY <1>3, Instance, Nd!RunPage
    <3>3. PICK p \in Offsets : p = Nd!OfftOf(o, 0)
      BY <1>3, Instance, Nd!RunPage
    <3>4. Nd!PageNo(l, p) = Nd!PageNo(s, o) + 0
      BY <1>3, <3>2, <3>3, Instance, Nd!RunPage
    <3>5. l = s
      BY <1>3, <2>6, <3>4, Instance, Nd!PageOrder
    <3> QED BY <3>1, <3>2, <3>5
  <2> HIDE DEF Run
  <2>9. \A j \in 1 .. L + 1 : \A i \in 0 .. g[j].n - 1 : Nd!LineOf(g[j].s, g[j].o, i) \in Sblks
    BY <1>1, <2>5, <2>8
  <2>10. \A j \in 1 .. L + 1, t \in Sblks, p \in Offsets :
            InRun(g[j], t, p) <=> \/ j <= L /\ InRun(fl[j], t, p)
                                  \/ j = L + 1 /\ t = s /\ p = o
    <3> SUFFICES ASSUME NEW j \in 1 .. L + 1, NEW t \in Sblks, NEW p \in Offsets
                 PROVE  InRun(g[j], t, p) <=> \/ j <= L /\ InRun(fl[j], t, p)
                                              \/ j = L + 1 /\ t = s /\ p = o
      OBVIOUS
    <3>1. CASE j = L + 1
      BY <2>5, <2>7, <3>1
    <3>2. CASE j # L + 1
      BY <2>5, <3>2
    <3> QED BY <3>1, <3>2
  <2> QED BY <1>1, <2>5, <2>9, <2>10 DEF PageAdded, Run
<1> QED BY <1>4, <1>5

\* A page handed out keeps the runs.
LEMMA PageKeepsRuns ==
    ASSUME NEW d, DevSound(d), d.b.wp \in [Sblks -> 0 .. PagesPerSblk],
           RunsSound(d, fl), NEW s \in Sblks, NEW o \in Offsets, o = d.b.wp[s],
           NEW x, x.dev = d.dev, x.b.wp = [d.b.wp EXCEPT ![s] = @ + 1],
           NEW g, g = AddPage(s, o)
    PROVE  DevSound(x) /\ RunsSound(x, g)
<1>1. PageAdded(fl, g, s, o)
  BY AddPageAdds DEF RunsSound
<1>2. /\ \A i \in Sblks : d.dev.wp[i] \in Nat /\ d.b.wp[i] \in Nat /\ d.dev.wp[i] <= d.b.wp[i]
      /\ \A p \in Offsets : p \in Nat
      /\ \A i \in Sblks : i # s => x.b.wp[i] = d.b.wp[i]
      /\ x.b.wp[s] = o + 1
  <2>1. \A i \in Sblks : d.dev.wp[i] \in 0 .. PagesPerSblk
    BY DEF DevSound, Nd!Device
  <2>2. \A i \in Sblks : d.b.wp[i] \in 0 .. PagesPerSblk
    OBVIOUS
  <2>3. \A i \in Sblks : d.dev.wp[i] \in Nat /\ d.b.wp[i] \in Nat
    BY <2>1, <2>2, Geometry
  <2>4. \A i \in Sblks : d.dev.wp[i] <= d.b.wp[i]
    BY DEF DevSound
  <2>5. \A p \in Offsets : p \in Nat
    BY Geometry DEF Offsets
  <2>6. (\A i \in Sblks : i # s => x.b.wp[i] = d.b.wp[i]) /\ x.b.wp[s] = o + 1
    OBVIOUS
  <2> QED BY <2>3, <2>4, <2>5, <2>6
<1>3. DevSound(x)
  BY <1>2 DEF DevSound
<1>4. \A t \in Sblks, p \in Offsets : Queued(g, t, p) <=> x.dev.wp[t] <= p /\ p < x.b.wp[t]
  <2> SUFFICES ASSUME NEW t \in Sblks, NEW p \in Offsets
               PROVE  Queued(g, t, p) <=> x.dev.wp[t] <= p /\ p < x.b.wp[t]
    OBVIOUS
  <2>1. Queued(g, t, p) <=> Queued(fl, t, p) \/ (t = s /\ p = o)
    <3>1. ASSUME Queued(g, t, p) PROVE Queued(fl, t, p) \/ (t = s /\ p = o)
      <4>1. PICK j \in 1 .. Len(g) : InRun(g[j], t, p)
        BY <3>1 DEF Queued
      <4>2. j <= Len(fl) => j \in 1 .. Len(fl)
        BY <1>1 DEF PageAdded
      <4> QED BY <1>1, <4>1, <4>2 DEF Queued, PageAdded
    <3>2. ASSUME Queued(fl, t, p) PROVE Queued(g, t, p)
      <4>1. PICK j \in 1 .. Len(fl) : InRun(fl[j], t, p)
        BY <3>2 DEF Queued
      <4>2. j \in 1 .. Len(g) /\ j <= Len(fl)
        BY <1>1 DEF PageAdded
      <4> QED BY <1>1, <4>1, <4>2 DEF Queued, PageAdded
    <3>3. ASSUME t = s, p = o PROVE Queued(g, t, p)
      <4>1. Len(g) \in 1 .. Len(g)
        BY <1>1 DEF PageAdded
      <4> QED BY <1>1, <3>3, <4>1 DEF Queued, PageAdded
    <3> QED BY <3>1, <3>2, <3>3
  <2>2. Queued(fl, t, p) <=> d.dev.wp[t] <= p /\ p < d.b.wp[t]
    BY DEF RunsSound
  <2>3. CASE t = s
    BY <1>2, <2>1, <2>2, <2>3
  <2>4. CASE t # s
    BY <1>2, <2>1, <2>2, <2>4
  <2> QED BY <2>3, <2>4
<1>5. ~Queued(fl, s, o) /\ \A p \in Offsets : o < p => ~Queued(fl, s, p)
  <2>1. \A p \in Offsets : Queued(fl, s, p) => p < o
    BY DEF RunsSound
  <2> QED BY <1>2, <2>1
<1>6. ASSUME NEW j \in 1 .. Len(g), NEW k \in 1 .. Len(g), NEW t \in Sblks,
             NEW p \in Offsets, NEW q \in Offsets, InRun(g[j], t, p), InRun(g[k], t, q), p < q
      PROVE  j <= k
  <2>1. CASE k = Len(g)
    BY <1>1, <2>1 DEF PageAdded
  <2>2. CASE k # Len(g)
    <3>1. k <= Len(fl) /\ k \in 1 .. Len(fl) /\ InRun(fl[k], t, q)
      BY <1>1, <1>6, <2>2 DEF PageAdded
    <3>2. ~(t = s /\ p = o)
      BY <1>5, <1>6, <3>1 DEF Queued
    <3>3. j <= Len(fl) /\ j \in 1 .. Len(fl) /\ InRun(fl[j], t, p)
      BY <1>1, <1>6, <3>2 DEF PageAdded
    <3> QED BY <1>6, <3>1, <3>3 DEF RunsSound
  <2> QED BY <2>1, <2>2
<1>7. ASSUME NEW j \in 1 .. Len(g), NEW k \in 1 .. Len(g), NEW t \in Sblks,
             NEW p \in Offsets, InRun(g[j], t, p), InRun(g[k], t, p)
      PROVE  j = k
  <2>1. CASE t = s /\ p = o
    <3>1. \A i \in 1 .. Len(fl) : ~InRun(fl[i], t, p)
      BY <1>5, <2>1 DEF Queued
    <3>2. \A i \in 1 .. Len(g) : i <= Len(fl) => i \in 1 .. Len(fl)
      BY <1>1 DEF PageAdded
    <3> QED BY <1>1, <1>7, <3>1, <3>2 DEF PageAdded
  <2>2. CASE ~(t = s /\ p = o)
    <3>1. /\ j \in 1 .. Len(fl) /\ InRun(fl[j], t, p)
          /\ k \in 1 .. Len(fl) /\ InRun(fl[k], t, p)
      BY <1>1, <1>7, <2>2 DEF PageAdded
    <3> QED BY <3>1 DEF RunsSound
  <2> QED BY <2>1, <2>2
<1> QED BY <1>1, <1>3, <1>4, <1>6, <1>7 DEF RunsSound, PageAdded

\* When entries wait for a page, the next page takes one of them.
LEMMA PageTakes ==
    ASSUME EntriesSound(entry), Pending # {}
    PROVE  NextPage # {} /\ \A p \in NextPage : p.item.id \in Pending
<1> DEFINE T == PendingIds
<1>1. \A t \in T : t.id \in Pending /\ t.len \in 1 .. UnitsPerPage
  BY DEF PendingIds, EntriesSound, Pending
<1>2. /\ PendingItems \in Seq(T)
      /\ \A i, j \in 1 .. Len(PendingItems) : PendingItems[i] = PendingItems[j] => i = j
  BY PendingOnce
<1> HIDE DEF T
<1>3. PICK items : items = PendingItems
  OBVIOUS
<1>4. PICK L \in Nat : L = Len(items)
  BY <1>2, <1>3
<1>5. L > 0
  <2>1. Len(PendingItems) = Cardinality(Pending) /\ Cardinality(Pending) \in Nat
    <3>1. IsFiniteSet(Pending)
      BY Geometry, FS_Subset DEF Pending
    <3>2. Cardinality(Pending) \in Nat
      BY <3>1, FS_CardinalityType
    <3> QED BY <3>2 DEF PendingItems
  <2>2. Cardinality(Pending) # 0
    <3>1. IsFiniteSet(Pending)
      BY Geometry, FS_Subset DEF Pending
    <3> QED BY <3>1, FS_EmptySet
  <2> QED BY <1>3, <1>4, <2>1, <2>2
<1>6. PICK f : /\ Pk!Pack(items) = f[2 * L].placed
               /\ f[0] = Pk!PackStart(items)
               /\ \A n \in 1 .. 2 * L : f[n] = Pk!PackStep(f[n - 1])
  BY <1>4, PackLoop
<1> DEFINE First(s) == IsRun(s) /\ \E p \in s.placed : p.page = 0
<1>7. First(f[1])
  <2>1. PICK s : s = f[0]
    OBVIOUS
  <2>2. s = [placed |-> {}, rest |-> items, page |-> 0, off |-> 0]
    BY <1>6, <2>1 DEF Pk!PackStart
  <2>3. s.placed = {} /\ s.rest = items /\ s.page = 0 /\ s.off = 0
    BY <2>2
  <2>4. items # <<>> /\ items[1] \in T /\ 1 \in DOMAIN items /\ \A i \in DOMAIN items : items[i] \in T
    BY <1>2, <1>3, <1>4, <1>5
  <2>5. Pk!Fitting(items, UnitsPerPage - 0) # {}
    <3>1. items[1].len <= UnitsPerPage - 0
      BY <1>1, <2>4, Geometry
    <3> QED BY <2>4, <3>1 DEF Pk!Fitting
  <2>6. PICK i : i = Pk!LongestLast(items, Pk!Fitting(items, UnitsPerPage - 0))
    OBVIOUS
  <2>7. PICK r : r = Pk!RemoveAt(items, i)
    OBVIOUS
  <2>8. PICK e : e = f[1]
    OBVIOUS
  <2>9. e = Pk!PackStep(s)
    <3>1. 1 \in 1 .. 2 * L /\ 1 - 1 = 0
      BY <1>4, <1>5
    <3> QED BY <1>6, <2>1, <2>8, <3>1
  <2>10. PICK new : new = [item |-> items[i], page |-> 0, off |-> 0]
    OBVIOUS
  <2>11. PICK z : z = 0 + items[i].len
    OBVIOUS
  <2>12. e = [s EXCEPT !.placed = @ \cup {new}, !.rest = r, !.off = z]
    BY <2>3, <2>4, <2>5, <2>6, <2>7, <2>9, <2>10, <2>11 DEF Pk!PackStep
  <2>13. IsRun(e) /\ e.placed = {} \cup {new}
    BY <2>2, <2>12 DEF IsRun
  <2> QED BY <2>8, <2>10, <2>13
<1>8. ASSUME NEW s, First(s) PROVE First(Pk!PackStep(s))
  <2>1. PICK e : e = Pk!PackStep(s)
    OBVIOUS
  <2>2. CASE s.rest = <<>>
    BY <1>8, <2>1, <2>2 DEF Pk!PackStep
  <2>3. CASE s.rest # <<>> /\ Pk!Fitting(s.rest, UnitsPerPage - s.off) = {}
    <3>1. e = [s EXCEPT !.page = @ + 1, !.off = 0]
      BY <2>1, <2>3 DEF Pk!PackStep
    <3>2. IsRun(e) /\ e.placed = s.placed
      BY <1>8, <3>1 DEF IsRun
    <3> QED BY <1>8, <2>1, <3>2
  <2>4. CASE s.rest # <<>> /\ Pk!Fitting(s.rest, UnitsPerPage - s.off) # {}
    <3>1. PICK i : i = Pk!LongestLast(s.rest, Pk!Fitting(s.rest, UnitsPerPage - s.off))
      OBVIOUS
    <3>2. PICK new : new = [item |-> s.rest[i], page |-> s.page, off |-> s.off]
      OBVIOUS
    <3>3. PICK r : r = Pk!RemoveAt(s.rest, i)
      OBVIOUS
    <3>4. PICK z : z = s.off + s.rest[i].len
      OBVIOUS
    <3>5. e = [s EXCEPT !.placed = @ \cup {new}, !.rest = r, !.off = z]
      BY <2>1, <2>4, <3>1, <3>2, <3>3, <3>4 DEF Pk!PackStep
    <3>6. IsRun(e) /\ e.placed = s.placed \cup {new}
      BY <1>8, <3>5 DEF IsRun
    <3> QED BY <1>8, <2>1, <3>6
  <2> QED BY <2>2, <2>3, <2>4
<1> DEFINE Bad == { n \in 1 .. 2 * L : ~First(f[n]) }
<1> HIDE DEF First
<1>9. Bad = {}
  <2> SUFFICES ASSUME Bad # {} PROVE FALSE
    OBVIOUS
  <2>1. Bad \in SUBSET Nat
    BY <1>4
  <2>2. PICK m \in Bad : \A y \in Bad : m <= y
    BY <2>1, NatHasMin
  <2>3. m \in 1 .. 2 * L /\ ~First(f[m])
    OBVIOUS
  <2>4. m # 1
    BY <1>7, <2>3
  <2>5. m - 1 \in 1 .. 2 * L /\ ~(m <= m - 1)
    BY <1>4, <2>3, <2>4
  <2>6. First(f[m - 1])
    BY <2>2, <2>5
  <2> QED BY <1>6, <1>8, <2>3, <2>6
<1>10. First(f[2 * L])
  <2>1. 2 * L \in 1 .. 2 * L
    BY <1>4, <1>5
  <2>2. 2 * L \notin Bad
    <3> HIDE DEF Bad
    <3> QED BY <1>9
  <2> QED BY <2>1, <2>2
<1>11. PICK Q : Q = Pk!Pack(PendingItems)
  OBVIOUS
<1>12. \E p \in Q : p.page = 0
  BY <1>3, <1>6, <1>10, <1>11 DEF First
<1>13. \A p \in Q : p.item \in T
  <2>1. Packed(Q, PendingItems, T)
    BY <1>1, <1>2, <1>11, PackResult
  <2> QED BY <2>1 DEF Packed, IsPlacement
<1>14. NextPage = { p \in Q : p.page = 0 }
  BY <1>11 DEF NextPage, Pk!OnPage
<1> QED BY <1>1, <1>12, <1>13, <1>14

-----------------------------------------------------------------------------
(***************************************************************************)
(* Garbage collection.                                                     *)
(***************************************************************************)
\* An erased superblock takes every page.
LEMMA ErasedAccepts ==
    ASSUME NEW w, NEW r, NEW n \in Nat, w.wp[r] = 0, w.state[r] = {}
    PROVE  Dev!Accepted(w, r, 0, n) = n
<1>1. \A j \in 0 .. n - 1 : 0 + j \notin w.state[r]
  OBVIOUS
<1>2. 0 \in Nat
  OBVIOUS
<1>3. Nd!Accepted(w, r, 0, n) = n
  BY <1>1, <1>2, Nd!AllAccepted
<1> QED BY <1>3, Instance

\* The device after a GC.
DeviceAfterGc(d, v, S, x) ==
    /\ x.dev \in Nd!Device /\ Nd!Prefix(x.dev)
    /\ \A k \in Sblks : x.dev.wp[k] = (IF k = v THEN 0 ELSE IF k = d.reserve
                                       THEN Pk!PagesUsed(S) ELSE d.dev.wp[k])
    /\ Unrefused(x)

\* The copies of a GC are programmed, the victim is erased, no write is refused.
LEMMA GcDevice ==
    ASSUME NEW d, NEW P, DataSound(d, P), DevSound(d), NEW v \in Sblks, v # d.reserve,
           NEW S, Pk!PagesUsed(S) \in Nat, Pk!PagesUsed(S) <= PagesPerSblk,
           Unrefused(d), NEW t, NEW x, x = [moved(d, v, S) EXCEPT !.table = t]
    PROVE  DeviceAfterGc(d, v, S, x)
<1>1. PICK r \in Sblks : r = d.reserve
  BY DEF DataSound, DataTypes
<1>2. PICK n \in Nat : n = Pk!PagesUsed(S)
  OBVIOUS
<1>3. IsData(d) /\ d.b.wp[r] = 0
  BY <1>1 DEF DataSound, DataTypes, ReserveErased
<1>4. /\ d.dev \in Nd!Device /\ d.dev.state \in [Sblks -> SUBSET Nd!Offsets]
      /\ d.dev.wp \in [Sblks -> 0 .. PagesPerSblk]
      /\ d.dev = [state |-> d.dev.state, wp |-> d.dev.wp]
      /\ Nd!Offsets = 0 .. PagesPerSblk - 1
      /\ PagesPerSblk \in Nat
  BY Geometry, Instance DEF DevSound, Nd!Device, Offsets
<1>5. d.dev.wp[r] = 0 /\ d.dev.state[r] = {}
  <2>1. d.dev.wp[r] <= 0 /\ d.dev.wp[r] \in 0 .. PagesPerSblk
    BY <1>3, <1>4 DEF DevSound
  <2>2. d.dev.wp[r] = 0
    BY <1>4, <2>1
  <2>3. d.dev.state[r] = 0 .. 0 - 1
    BY <2>2 DEF DevSound, Nd!Prefix
  <2> QED BY <2>2, <2>3
<1>6. Dev!Accepted(d.dev, r, 0, n) = n
  BY <1>5, ErasedAccepts
<1>7. PICK w : w = Dev!WriteRun(d.dev, r, 0, n)
  OBVIOUS
<1>8. /\ w = [state |-> w.state, wp |-> w.wp]
      /\ w.state = [d.dev.state EXCEPT ![r] = @ \cup (0 .. 0 + n - 1)]
      /\ w.wp = [d.dev.wp EXCEPT ![r] = @ + n]
  <2>1. w = [d.dev EXCEPT !.state[r] = @ \cup (0 .. 0 + n - 1), !.wp[r] = @ + n]
    BY <1>6, <1>7 DEF Dev!WriteRun
  <2>2. w = [state |-> w.state, wp |-> w.wp]
    BY <1>4, <2>1
  <2>3. w.state = [d.dev.state EXCEPT ![r] = @ \cup (0 .. 0 + n - 1)]
    BY <1>4, <2>1
  <2>4. w.wp = [d.dev.wp EXCEPT ![r] = @ + n]
    BY <1>4, <2>1
  <2> QED BY <2>2, <2>3, <2>4
<1>9. PICK y : y = gc_dev(d, v, n)
  OBVIOUS
<1>10. /\ y = [state |-> y.state, wp |-> y.wp]
       /\ y.state = [w.state EXCEPT ![v] = {}] /\ y.wp = [w.wp EXCEPT ![v] = 0]
  <2>1. y = [w EXCEPT !.state[v] = {}, !.wp[v] = 0]
    BY <1>1, <1>3, <1>7, <1>9 DEF gc_dev, Dev!ssd_trim_block
  <2>2. y = [state |-> y.state, wp |-> y.wp]
    BY <1>8, <2>1
  <2>3. y.state = [w.state EXCEPT ![v] = {}]
    BY <1>8, <2>1
  <2>4. y.wp = [w.wp EXCEPT ![v] = 0]
    BY <1>8, <2>1
  <2> QED BY <2>2, <2>3, <2>4
<1>11. ASSUME NEW k \in Sblks
       PROVE  /\ y.state[k] = (IF k = v THEN {} ELSE IF k = r THEN 0 .. n - 1 ELSE d.dev.state[k])
              /\ y.wp[k] = (IF k = v THEN 0 ELSE IF k = r THEN n ELSE d.dev.wp[k])
  <2>1. 0 .. 0 + n - 1 = 0 .. n - 1 /\ 0 + n = n
    OBVIOUS
  <2>2. /\ w.state[k] = (IF k = r THEN 0 .. n - 1 ELSE d.dev.state[k])
        /\ w.wp[k] = (IF k = r THEN n ELSE d.dev.wp[k])
    BY <1>4, <1>5, <1>8, <2>1
  <2>3. /\ y.state[k] = (IF k = v THEN {} ELSE w.state[k])
        /\ y.wp[k] = (IF k = v THEN 0 ELSE w.wp[k])
    BY <1>4, <1>8, <1>10
  <2> QED BY <2>2, <2>3
<1>12. y \in Nd!Device
  <2>1. 0 .. n - 1 \subseteq Nd!Offsets /\ n \in 0 .. PagesPerSblk /\ 0 \in 0 .. PagesPerSblk
    BY <1>2, <1>4
  <2>2. \A k \in Sblks : y.state[k] \in SUBSET Nd!Offsets
    BY <1>4, <1>11, <2>1
  <2>3. \A k \in Sblks : y.wp[k] \in 0 .. PagesPerSblk
    BY <1>4, <1>11, <2>1
  <2>4. y.state \in [Sblks -> SUBSET Nd!Offsets]
    BY <1>4, <1>8, <1>10, <2>2
  <2>5. y.wp \in [Sblks -> 0 .. PagesPerSblk]
    BY <1>4, <1>8, <1>10, <2>3
  <2> QED BY <1>10, <2>4, <2>5 DEF Nd!Device
<1>13. Nd!Prefix(y)
  <2>1. 0 .. 0 - 1 = {}
    OBVIOUS
  <2>2. \A k \in Sblks : d.dev.state[k] = 0 .. d.dev.wp[k] - 1
    BY DEF DevSound, Nd!Prefix
  <2> QED BY <1>11, <2>1, <2>2 DEF Nd!Prefix
<1>14. x.dev = y /\ x.refused = FALSE
  <2>1. PICK b : b = change_reserve(gc_counters(d, v, S), v)
    OBVIOUS
  <2>2. PICK V : V = gc_valid(d, v, S)
    OBVIOUS
  <2>3. PICK o : o = gc_oob(d, v, S)
    OBVIOUS
  <2>4. PICK z : z = moved(d, v, S)
    OBVIOUS
  <2>5. PICK u \in BOOLEAN : u = (d.refused \/ Dev!Accepted(d.dev, r, 0, n) # n)
    BY <1>6
  <2>6. z = [d EXCEPT !.b = b, !.valid = V, !.oob = o, !.dev = y, !.refused = u,
                      !.active = r, !.reserve = v]
    BY <1>1, <1>2, <1>3, <1>9, <2>1, <2>2, <2>3, <2>4, <2>5 DEF moved
  <2>7. IsData(z) /\ z.dev = y /\ z.refused = u
    BY <1>3, <2>6 DEF IsData
  <2>8. x = [z EXCEPT !.table = t]
    BY <2>4
  <2>9. x.dev = y /\ x.refused = u
    BY <2>7, <2>8 DEF IsData
  <2> QED BY <1>6, <2>5, <2>9 DEF Unrefused
<1> QED BY <1>1, <1>2, <1>12, <1>11, <1>13, <1>14 DEF Unrefused, DeviceAfterGc

\* What dp_alloc leaves for the device: its runs, and no superblock that was not behind.
Followed(d, f, x) ==
    /\ Unrefused(x)
    /\ ~x.aborted => /\ DevSound(x) /\ RunsSound(x, f)
                     /\ \A i \in Sblks : Behind(x, i) => Behind(d, i)

\* The runs stay what is handed out and not programmed, where a superblock changes that
\* has no such page, before or after.
LEMMA RunsStay ==
    ASSUME NEW d, DevSound(d), d.b.wp \in [Sblks -> 0 .. PagesPerSblk], NEW f, RunsSound(d, f),
           NEW x, x.dev \in Nd!Device, Nd!Prefix(x.dev),
           \A i \in Sblks : \/ x.dev.wp[i] = d.dev.wp[i] /\ x.b.wp[i] = d.b.wp[i]
                            \/ x.dev.wp[i] = x.b.wp[i] /\ d.dev.wp[i] = d.b.wp[i]
    PROVE  DevSound(x) /\ RunsSound(x, f) /\ \A i \in Sblks : Behind(x, i) => Behind(d, i)
<1>1. \A i \in Sblks : /\ d.dev.wp[i] \in Nat /\ d.b.wp[i] \in Nat /\ d.dev.wp[i] <= d.b.wp[i]
                       /\ x.dev.wp[i] \in Nat
  <2>1. \A i \in Sblks : d.dev.wp[i] \in 0 .. PagesPerSblk /\ x.dev.wp[i] \in 0 .. PagesPerSblk
    BY DEF DevSound, Nd!Device
  <2>2. \A i \in Sblks : d.b.wp[i] \in 0 .. PagesPerSblk
    OBVIOUS
  <2>3. \A i \in Sblks : d.dev.wp[i] <= d.b.wp[i]
    BY DEF DevSound
  <2> QED BY <2>1, <2>2, <2>3, Geometry
<1>2. \A p \in Offsets : p \in Nat
  BY Geometry DEF Offsets
<1>3. ASSUME NEW i \in Sblks
      PROVE  /\ x.dev.wp[i] <= x.b.wp[i] /\ (Behind(x, i) => Behind(d, i))
             /\ \A o \in Offsets : x.dev.wp[i] <= o /\ o < x.b.wp[i]
                                    <=> d.dev.wp[i] <= o /\ o < d.b.wp[i]
  <2>1. CASE x.dev.wp[i] = d.dev.wp[i] /\ x.b.wp[i] = d.b.wp[i]
    BY <1>1, <2>1 DEF Behind
  <2>2. CASE x.dev.wp[i] = x.b.wp[i] /\ d.dev.wp[i] = d.b.wp[i]
    BY <1>1, <1>2, <2>2 DEF Behind
  <2> QED BY <2>1, <2>2
<1>4. DevSound(x)
  BY <1>3 DEF DevSound
<1>5. RunsSound(x, f)
  BY <1>3 DEF RunsSound
<1> QED BY <1>3, <1>4, <1>5

\* An abort of dp_alloc leaves the device alone.
LEMMA AbortRefuses ==
    ASSUME NEW d, IsData(d), NEW x,
           x = Abort(d) \/ x = [Abort(d) EXCEPT !.misuse = TRUE]
    PROVE  x.refused = d.refused /\ x.aborted = TRUE
<1>1. PICK y : y = Abort(d)
  OBVIOUS
<1>2. IsData(y) /\ y.refused = d.refused /\ y.aborted = TRUE
  BY <1>1 DEF Abort, IsData
<1>3. CASE x = y
  BY <1>2, <1>3
<1>4. CASE x = [y EXCEPT !.misuse = TRUE]
  BY <1>2, <1>4 DEF IsData
<1> QED BY <1>1, <1>3, <1>4

\* The device follows a GC of a superblock that has all its pages programmed.
LEMMA GcFollowed ==
    ASSUME NEW d, NEW P, DataSound(d, P), \A h \in P : h[1] # get_gc_target(d.b),
           DevSound(d), NEW f, RunsSound(d, f), Unrefused(d),
           get_gc_target(d.b) \in Sblks => ~Behind(d, get_gc_target(d.b)),
           NEW x \in dpage_gc_dvalue(d)
    PROVE  Followed(d, f, x)
<1>1. PICK v : v = get_gc_target(d.b)
  OBVIOUS
<1>2. PICK S : S = Pk!Pack(Collected(d, v))
  OBVIOUS
<1>3. /\ IsData(d) /\ IsPartition(d.b) /\ d.b.rsv = d.reserve /\ d.b.vcnt \in [Sblks -> Nat]
      /\ d.reserve \in Sblks /\ d.b.wp \in [Sblks -> 0 .. PagesPerSblk] /\ d.b.wp[d.reserve] = 0
  BY DEF DataSound, DataTypes, ReserveErased
<1>4. CASE v = NoSblk \/ ~AllCollected(d, v)
  <2>1. x = Abort(d)
    BY <1>1, <1>4 DEF dpage_gc_dvalue
  <2> QED BY <1>3, <2>1, AbortRefuses DEF Followed, Unrefused
<1>5. CASE v # NoSblk /\ AllCollected(d, v) /\ ~Fits(d, S)
  <2>1. x = [Abort(d) EXCEPT !.misuse = TRUE]
    BY <1>1, <1>2, <1>5 DEF dpage_gc_dvalue
  <2> QED BY <1>3, <2>1, AbortRefuses DEF Followed, Unrefused
<1>6. CASE v # NoSblk /\ AllCollected(d, v) /\ Fits(d, S)
  <2>1. x \in { [moved(d, v, S) EXCEPT !.table = t] : t \in gc_tables(d, S) }
    BY <1>1, <1>2, <1>6 DEF dpage_gc_dvalue
  <2>2. PICK t : x = [moved(d, v, S) EXCEPT !.table = t]
    BY <2>1
  <2>3. v \in Sblks /\ v # d.reserve /\ ~Behind(d, v)
    BY <1>1, <1>3, <1>6, GcTarget
  <2>4. Relocates(d, v, S)
    BY <1>2, <1>6, <2>3, MovesPacked
  <2>5. PICK n \in Nat : n = Pk!PagesUsed(S)
    BY <2>4 DEF Relocates
  <2>6. n <= PagesPerSblk
    BY <1>3, <1>6, <2>5, Geometry DEF Fits
  <2>7. PICK r \in Sblks : r = d.reserve
    BY <1>3
  <2>8. /\ x.dev \in Nd!Device /\ Nd!Prefix(x.dev) /\ Unrefused(x)
        /\ \A k \in Sblks : x.dev.wp[k] = (IF k = v THEN 0 ELSE IF k = r THEN n ELSE d.dev.wp[k])
    <3>1. Pk!PagesUsed(S) \in Nat /\ Pk!PagesUsed(S) <= PagesPerSblk
      BY <2>5, <2>6
    <3>2. DeviceAfterGc(d, v, S, x)
      BY <2>2, <2>3, <3>1, GcDevice
    <3> QED BY <2>5, <2>7, <3>2 DEF DeviceAfterGc
  <2>9. x.b.wp = [d.b.wp EXCEPT ![r] = @ + n, ![v] = 0]
    <3>1. AfterGc(d, v, S, t, x)
      BY <1>3, <2>2, GcFields
    <3> QED BY <2>5, <2>7, <3>1 DEF AfterGc
  <2>10. d.dev.wp \in [Sblks -> 0 .. PagesPerSblk] /\ \A i \in Sblks : d.dev.wp[i] <= d.b.wp[i]
    BY DEF DevSound, Nd!Device
  <2>11. d.dev.wp[r] = d.b.wp[r] /\ d.dev.wp[v] = d.b.wp[v] /\ d.b.wp[r] = 0
    <3>1. /\ d.dev.wp[r] \in 0 .. PagesPerSblk /\ d.dev.wp[r] <= 0
          /\ d.dev.wp[v] \in 0 .. PagesPerSblk /\ d.dev.wp[v] <= d.b.wp[v]
          /\ d.b.wp[v] \in 0 .. PagesPerSblk
      BY <1>3, <2>3, <2>7, <2>10
    <3>2. ~(d.dev.wp[v] < d.b.wp[v])
      BY <2>3 DEF Behind
    <3> QED BY <1>3, <2>7, <3>1, <3>2, Geometry
  <2>12. \A i \in Sblks : \/ x.dev.wp[i] = d.dev.wp[i] /\ x.b.wp[i] = d.b.wp[i]
                          \/ x.dev.wp[i] = x.b.wp[i] /\ d.dev.wp[i] = d.b.wp[i]
    <3> SUFFICES ASSUME NEW i \in Sblks
                 PROVE  \/ x.dev.wp[i] = d.dev.wp[i] /\ x.b.wp[i] = d.b.wp[i]
                        \/ x.dev.wp[i] = x.b.wp[i] /\ d.dev.wp[i] = d.b.wp[i]
      OBVIOUS
    <3>1. CASE i = v
      BY <1>3, <2>8, <2>9, <2>10, <2>11, <3>1
    <3>2. CASE i # v /\ i = r
      <4>1. x.dev.wp[i] = n /\ x.b.wp[i] = 0 + n
        BY <1>3, <2>8, <2>9, <2>10, <2>11, <3>2
      <4> QED BY <2>11, <3>2, <4>1
    <3>3. CASE i # v /\ i # r
      BY <1>3, <2>8, <2>9, <2>10, <3>3
    <3> QED BY <3>1, <3>2, <3>3
  <2>13. DevSound(x) /\ RunsSound(x, f) /\ \A i \in Sblks : Behind(x, i) => Behind(d, i)
    BY <1>3, <2>8, <2>12, RunsStay
  <2> QED BY <2>8, <2>13 DEF Followed
<1> QED BY <1>4, <1>5, <1>6

\* dp_alloc leaves the device in step, when its GC touches no page still to be programmed.
LEMMA AllocFollowed ==
    ASSUME NEW d, NEW P, DataSound(d, P), DevSound(d), NEW f, RunsSound(d, f), Unrefused(d),
           RunsGc(d) => /\ \A h \in P : h[1] # get_gc_target(d.b)
                        /\ get_gc_target(d.b) \in Sblks => ~Behind(d, get_gc_target(d.b)),
           NEW x \in dp_alloc(d)
    PROVE  Followed(d, f, x)
<1>1. IsData(d) /\ IsPartition(d.b)
  BY DEF DataSound, DataTypes
<1>2. CASE ~NeedsSblk(d)
  <2>1. x = d
    BY <1>2 DEF dp_alloc
  <2> QED BY <2>1 DEF Followed
<1>3. CASE NeedsSblk(d) /\ isgc_needed(d.b)
  <2>1. x \in dpage_gc_dvalue(d)
    BY <1>3 DEF dp_alloc
  <2>2. /\ \A h \in P : h[1] # get_gc_target(d.b)
        /\ get_gc_target(d.b) \in Sblks => ~Behind(d, get_gc_target(d.b))
    BY <1>3 DEF RunsGc
  <2> QED BY <2>1, <2>2, GcFollowed
<1>4. CASE NeedsSblk(d) /\ ~isgc_needed(d.b)
  <2>1. PICK b : b = get_active_sblk(d.b)
    OBVIOUS
  <2>2. CASE b.active = NoSblk
    <3>1. x = Abort(d)
      BY <1>4, <2>1, <2>2 DEF dp_alloc
    <3> QED BY <1>1, <3>1, AbortRefuses DEF Followed, Unrefused
  <2>3. CASE b.active # NoSblk
    <3>1. x = [d EXCEPT !.b = b, !.active = b.active]
      BY <1>4, <2>1, <2>3 DEF dp_alloc
    <3>2. x.b = b /\ x.dev = d.dev /\ Unrefused(x)
      BY <1>1, <3>1 DEF IsData, Unrefused
    <3>3. b.wp = d.b.wp
      <4>1. PICK s : s = NextUsable(d.b)
        OBVIOUS
      <4>2. PICK n : n = IF s # NoSblk /\ d.b.wp[s] = 0 THEN d.b.free - 1 ELSE d.b.free
        OBVIOUS
      <4>3. b = [d.b EXCEPT !.active = s, !.free = n]
        BY <1>1, <2>1, <4>1, <4>2 DEF get_active_sblk, IsPartition
      <4> QED BY <1>1, <4>3 DEF IsPartition
    <3>4. DevSound(x) /\ RunsSound(x, f) /\ \A i \in Sblks : Behind(x, i) => Behind(d, i)
      BY <3>2, <3>3 DEF DevSound, RunsSound, Behind
    <3> QED BY <3>2, <3>4 DEF Followed
  <2> QED BY <2>2, <2>3
<1> QED BY <1>2, <1>3, <1>4

-----------------------------------------------------------------------------
(***************************************************************************)
(* The flush.                                                              *)
(***************************************************************************)
\* The states of the loop of _do_wb_flush, one after the other.
LEMMA FlushLoop ==
    ASSUME Len(fl) \in Nat
    PROVE  \E f : /\ WrittenOut = f[Len(fl)]
                  /\ f[0] = [dev |-> data.dev, rc |-> Dev!Done]
                  /\ \A i \in 1 .. Len(fl) : f[i] = WriteOut(f[i - 1], fl[i])
<1> DEFINE n == Len(fl)
           First == [dev |-> data.dev, rc |-> Dev!Done]
           Nxt(x, i) == WriteOut(x, fl[i])
           Runs(f, m) == /\ f[0] = First
                         /\ \A i \in 1 .. m : f[i] = Nxt(f[i - 1], i)
           Loop(f) == f = [i \in 0 .. n |-> IF i = 0 THEN First ELSE Nxt(f[i - 1], i)]
           Bad == { m \in 0 .. n : ~\E f : Runs(f, m) }
<1>0. n \in Nat
  OBVIOUS
<1> HIDE DEF n, First, Nxt
<1>1. Bad = {}
  <2> SUFFICES ASSUME Bad # {} PROVE FALSE
    OBVIOUS
  <2>1. Bad \in SUBSET Nat
    BY <1>0
  <2>2. PICK m \in Bad : \A y \in Bad : m <= y
    BY <2>1, NatHasMin
  <2>3. m \in 0 .. n /\ m \in Int
    BY <1>0
  <2>4. CASE m = 0
    <3> DEFINE g == [i \in {0} |-> First]
    <3>1. Runs(g, 0)
      OBVIOUS
    <3> QED BY <2>4, <3>1
  <2>5. CASE m # 0
    <3>1. m - 1 \in 0 .. n /\ ~(m <= m - 1)
      BY <1>0, <2>3, <2>5
    <3>2. m - 1 \notin Bad
      <4> HIDE DEF Bad
      <4> QED BY <2>2, <3>1
    <3>3. PICK f : Runs(f, m - 1)
      BY <3>1, <3>2
    <3> DEFINE g == [i \in 0 .. m |-> IF i = m THEN Nxt(f[m - 1], m) ELSE f[i]]
    <3>4. g[0] = First
      BY <1>0, <2>3, <2>5, <3>3
    <3>5. ASSUME NEW i \in 1 .. m PROVE g[i] = Nxt(g[i - 1], i)
      <4>1. i - 1 \in 0 .. m /\ i - 1 # m /\ i \in 0 .. m
        BY <2>3
      <4>2. g[i - 1] = f[i - 1]
        BY <4>1
      <4>3. CASE i = m
        BY <4>1, <4>2, <4>3
      <4>4. CASE i # m
        <5>1. i \in 1 .. m - 1
          BY <2>3, <4>4
        <5>2. f[i] = Nxt(f[i - 1], i)
          BY <3>3, <5>1
        <5> QED BY <4>1, <4>2, <4>4, <5>2
      <4> QED BY <4>3, <4>4
    <3>6. Runs(g, m)
      BY <3>4, <3>5
    <3> QED BY <2>2, <3>6
  <2> QED BY <2>4, <2>5
<1>2. PICK g : Runs(g, n)
  <2>1. n \notin Bad
    <3> HIDE DEF Bad
    <3> QED BY <1>1
  <2>2. n \in 0 .. n
    BY <1>0
  <2> QED BY <2>1, <2>2
<1> DEFINE h == [i \in 0 .. n |-> g[i]]
<1>3. Loop(h)
  <2>1. ASSUME NEW i \in 0 .. n
        PROVE  h[i] = IF i = 0 THEN First ELSE Nxt(h[i - 1], i)
    <3>1. CASE i = 0
      BY <1>2, <3>1
    <3>2. CASE i # 0
      <4>1. i \in 1 .. n /\ i - 1 \in 0 .. n
        BY <1>0, <3>2
      <4> QED BY <1>2, <3>2, <4>1
    <3> QED BY <3>1, <3>2
  <2> HIDE DEF h
  <2>2. h = [i \in 0 .. n |-> h[i]]
    BY DEF h
  <2> QED BY <2>1, <2>2
<1> DEFINE from == CHOOSE f : Loop(f)
<1>4. Loop(from)
  <2> HIDE DEF Loop
  <2> QED BY <1>3
<1>5. WrittenOut = from[n]
  BY DEF WrittenOut, n, First, Nxt
<1> HIDE DEF from
<1>6. from[0] = First
  BY <1>0, <1>4
<1>7. \A i \in 1 .. n : from[i] = Nxt(from[i - 1], i)
  <2> SUFFICES ASSUME NEW i \in 1 .. n PROVE from[i] = Nxt(from[i - 1], i)
    OBVIOUS
  <2>1. i \in 0 .. n /\ i # 0
    BY <1>0
  <2> QED BY <1>4, <2>1
<1> QED BY <1>5, <1>6, <1>7 DEF n, First, Nxt

\* The pages of the first k runs.
Reached(i, k) == { p \in Offsets : \E j \in 1 .. k : InRun(fl[j], i, p) }

\* After k runs no write was refused, and their pages are programmed.
Flushed(out, k) ==
    /\ out.rc = Dev!Done /\ out.dev \in Nd!Device /\ Nd!Prefix(out.dev)
    /\ \A i \in Sblks : out.dev.state[i] = data.dev.state[i] \cup Reached(i, k)

\* A run that is the next one is accepted.
LEMMA NextRun ==
    ASSUME DevSound(data), RunsSound(data, fl), data.b.wp \in [Sblks -> 0 .. PagesPerSblk],
           NEW k \in 1 .. Len(fl), NEW out, Flushed(out, k - 1),
           NEW w, w = WriteOut(out, fl[k])
    PROVE  Flushed(w, k)
<1>1. PICK run \in [s : Sblks, o : Offsets, n : Nat] : run = fl[k]
  <2> DEFINE Run == [s : Sblks, o : Offsets, n : Nat]
  <2>1. fl \in Seq(Run)
    BY DEF RunsSound
  <2> HIDE DEF Run
  <2>2. fl[k] \in Run
    BY <2>1
  <2> QED BY <2>2 DEF Run
<1>2. PICK s \in Sblks : s = run.s
  OBVIOUS
<1>3. PICK o \in Offsets : o = run.o
  OBVIOUS
<1>4. PICK n \in Nat : n = run.n
  OBVIOUS
<1>5. PICK d \in Nd!Device : d = out.dev
  BY DEF Flushed
<1>6. w = Nd!ssd_write_ppa(d, s, o, n)
  <2>1. w = Dev!ssd_write_ppa(d, s, o, n)
    BY <1>1, <1>2, <1>3, <1>4, <1>5 DEF WriteOut, Flushed
  <2> QED BY <2>1, Instance
<1>7. /\ \A i \in Sblks : data.dev.wp[i] \in Nat /\ data.b.wp[i] \in Nat
      /\ \A p \in Offsets : p \in Nat
      /\ \A i \in Sblks : data.dev.state[i] = 0 .. data.dev.wp[i] - 1
  <2>1. \A i \in Sblks : data.dev.wp[i] \in 0 .. PagesPerSblk
    BY DEF DevSound, Nd!Device
  <2>2. \A i \in Sblks : data.b.wp[i] \in 0 .. PagesPerSblk
    OBVIOUS
  <2>3. \A p \in Offsets : p \in Nat
    BY Geometry DEF Offsets
  <2>4. \A i \in Sblks : data.dev.state[i] = 0 .. data.dev.wp[i] - 1
    BY DEF DevSound, Nd!Prefix
  <2>5. \A i \in Sblks : data.dev.wp[i] \in Nat /\ data.b.wp[i] \in Nat
    BY <2>1, <2>2, Geometry
  <2> QED BY <2>3, <2>4, <2>5
<1>8. \A i \in Sblks, p \in Offsets : InRun(run, i, p) <=> Nd!InRun(s, o, n, i, p)
  BY <1>2, <1>3, <1>4 DEF InRun
<1>9. k - 1 \in Nat /\ k \in Nat /\ \A j \in 1 .. k - 1 : j \in 1 .. Len(fl) /\ j # k /\ j \in 1 .. k
  <2>1. Len(fl) \in Nat
    BY DEF RunsSound
  <2> QED BY <2>1
<1>10. \A i \in 0 .. n - 1 : Nd!LineOf(s, o, i) \in Sblks
  BY <1>1, <1>2, <1>3, <1>4 DEF RunsSound
<1>11. ASSUME NEW i \in Sblks, NEW p \in Offsets, Nd!InRun(s, o, n, i, p)
       PROVE  p \notin d.state[i]
  <2>1. InRun(fl[k], i, p)
    BY <1>1, <1>8, <1>11
  <2>2. data.dev.wp[i] <= p
    BY <2>1 DEF RunsSound, Queued
  <2>3. p \notin data.dev.state[i]
    <3>1. data.dev.wp[i] \in Nat /\ p \in Nat
      BY <1>7
    <3>2. p \notin 0 .. data.dev.wp[i] - 1
      BY <2>2, <3>1
    <3> QED BY <1>7, <3>2
  <2>4. p \notin Reached(i, k - 1)
    <3> SUFFICES ASSUME NEW j \in 1 .. k - 1, InRun(fl[j], i, p) PROVE FALSE
      BY DEF Reached
    <3>1. j \in 1 .. Len(fl) /\ j # k
      BY <1>9
    <3> QED BY <2>1, <3>1 DEF RunsSound
  <2> QED BY <1>5, <2>3, <2>4 DEF Flushed
<1>12. ASSUME NEW i \in Sblks, NEW p \in Offsets, NEW q \in Offsets,
              Nd!InRun(s, o, n, i, p), q < p
       PROVE  q \in d.state[i] \/ Nd!InRun(s, o, n, i, q)
  <2>1. InRun(fl[k], i, p)
    BY <1>1, <1>8, <1>12
  <2>2. data.dev.wp[i] <= p /\ p < data.b.wp[i]
    BY <2>1 DEF RunsSound, Queued
  <2>3. CASE q < data.dev.wp[i]
    <3>1. q \in data.dev.state[i]
      <4>1. data.dev.wp[i] \in Nat /\ q \in Nat
        BY <1>7
      <4>2. q \in 0 .. data.dev.wp[i] - 1
        BY <2>3, <4>1
      <4> QED BY <1>7, <4>2
    <3> QED BY <1>5, <3>1 DEF Flushed
  <2>4. CASE data.dev.wp[i] <= q
    <3>1. q < data.b.wp[i]
      BY <1>7, <1>12, <2>2
    <3>2. PICK j \in 1 .. Len(fl) : InRun(fl[j], i, q)
      BY <2>4, <3>1 DEF RunsSound, Queued
    <3>3. j <= k
      BY <1>12, <2>1, <3>2 DEF RunsSound
    <3>4. CASE j = k
      BY <1>1, <1>8, <3>2, <3>4
    <3>5. CASE j # k
      <4>1. j \in 1 .. k - 1
        BY <1>9, <3>3, <3>5
      <4>2. q \in Reached(i, k - 1)
        BY <3>2, <4>1 DEF Reached
      <4> QED BY <1>5, <4>2 DEF Flushed
    <3> QED BY <3>4, <3>5
  <2> QED BY <1>7, <2>3, <2>4
<1>13. /\ w.rc = Nd!Done /\ w.dev \in Nd!Device /\ Nd!Prefix(w.dev)
       /\ \A i \in Sblks : w.dev.state[i] = d.state[i] \cup { p \in Offsets : Nd!InRun(s, o, n, i, p) }
  <2>1. Nd!Prefix(d) /\ Nd!NandAssumption /\ Nd!Offsets = Offsets
    BY <1>5, Instance DEF Flushed
  <2>2. /\ \A i \in Sblks, p \in Nd!Offsets : Nd!InRun(s, o, n, i, p) => p \notin d.state[i]
        /\ \A i \in Sblks, p, q \in Nd!Offsets :
              Nd!InRun(s, o, n, i, p) /\ q < p => q \in d.state[i] \/ Nd!InRun(s, o, n, i, q)
    BY <1>11, <1>12, <2>1
  <2>3. o \in Nd!Offsets
    BY <2>1
  <2>4. /\ w.rc = Nd!Done /\ w.dev \in Nd!Device /\ Nd!Prefix(w.dev)
        /\ \A i \in Sblks : w.dev.state[i]
              = d.state[i] \cup { p \in Nd!Offsets : Nd!InRun(s, o, n, i, p) }
    <3>1. Nd!RunProgrammed(d, s, o, n, w)
      BY <1>6, <1>10, <2>1, <2>2, <2>3, Nd!RunWritten
    <3> QED BY <3>1 DEF Nd!RunProgrammed
  <2> QED BY <2>1, <2>4
<1>14. \A i \in Sblks : w.dev.state[i] = data.dev.state[i] \cup Reached(i, k)
  <2> SUFFICES ASSUME NEW i \in Sblks
               PROVE  w.dev.state[i] = data.dev.state[i] \cup Reached(i, k)
    OBVIOUS
  <2>1. Reached(i, k) = Reached(i, k - 1) \cup { p \in Offsets : Nd!InRun(s, o, n, i, p) }
    <3>1. \A p \in Offsets : (\E j \in 1 .. k : InRun(fl[j], i, p))
                               <=> (\E j \in 1 .. k - 1 : InRun(fl[j], i, p)) \/ InRun(fl[k], i, p)
      <4>1. k \in 1 .. k /\ \A j \in 1 .. k : j = k \/ j \in 1 .. k - 1
        BY <1>9
      <4> QED BY <1>9, <4>1
    <3> QED BY <1>1, <1>8, <3>1 DEF Reached
  <2>2. d.state[i] = data.dev.state[i] \cup Reached(i, k - 1)
    BY <1>5 DEF Flushed
  <2> QED BY <1>13, <2>1, <2>2
<1> QED BY <1>13, <1>14, Instance DEF Flushed

\* The device accepts every page of a flush, and has then all that were handed out.
LEMMA FlushFollowed ==
    ASSUME DevSound(data), RunsSound(data, fl), data.b.wp \in [Sblks -> 0 .. PagesPerSblk],
           NEW w, w = WrittenOut
    PROVE  /\ w.rc = Dev!Done /\ w.dev \in Nd!Device /\ Nd!Prefix(w.dev)
           /\ \A i \in Sblks : w.dev.wp[i] = data.b.wp[i]
<1>1. PICK L \in Nat : L = Len(fl)
  BY DEF RunsSound
<1>2. PICK f : /\ w = f[L] /\ f[0] = [dev |-> data.dev, rc |-> Dev!Done]
               /\ \A i \in 1 .. L : f[i] = WriteOut(f[i - 1], fl[i])
  BY <1>1, FlushLoop
<1>3. Flushed(f[0], 0)
  <2>1. PICK x : x = f[0]
    OBVIOUS
  <2>2. x.dev = data.dev /\ x.rc = Dev!Done
    BY <1>2, <2>1
  <2>3. \A i \in Sblks : Reached(i, 0) = {}
    BY DEF Reached
  <2>4. Flushed(x, 0)
    BY <2>2, <2>3 DEF Flushed, DevSound
  <2> QED BY <2>1, <2>4
<1> DEFINE Bad == { k \in 0 .. L : ~Flushed(f[k], k) }
<1>4. Bad = {}
  <2> SUFFICES ASSUME Bad # {} PROVE FALSE
    OBVIOUS
  <2>1. Bad \in SUBSET Nat
    BY <1>1
  <2>2. PICK m \in Bad : \A y \in Bad : m <= y
    BY <2>1, NatHasMin
  <2>3. m \in 1 .. L /\ ~Flushed(f[m], m)
    BY <1>3
  <2>4. m - 1 \in 0 .. L /\ ~(m <= m - 1)
    BY <2>3
  <2>5. Flushed(f[m - 1], m - 1)
    BY <2>2, <2>4
  <2> QED BY <1>1, <1>2, <2>3, <2>5, NextRun
<1>5. Flushed(w, L)
  <2>1. L \in 0 .. L
    OBVIOUS
  <2>2. L \notin Bad
    <3> HIDE DEF Bad
    <3> QED BY <1>4
  <2> QED BY <1>2, <2>1, <2>2
<1>6. /\ \A i \in Sblks : /\ data.dev.wp[i] \in Nat /\ data.b.wp[i] \in Nat /\ w.dev.wp[i] \in Nat
                          /\ data.dev.wp[i] <= data.b.wp[i] /\ data.b.wp[i] <= PagesPerSblk
                          /\ data.dev.state[i] = 0 .. data.dev.wp[i] - 1
                          /\ w.dev.state[i] = 0 .. w.dev.wp[i] - 1
      /\ Offsets = 0 .. PagesPerSblk - 1 /\ PagesPerSblk \in Nat
  <2>1. \A i \in Sblks : data.dev.wp[i] \in 0 .. PagesPerSblk /\ w.dev.wp[i] \in 0 .. PagesPerSblk
    BY <1>5 DEF DevSound, Nd!Device, Flushed
  <2>2. \A i \in Sblks : data.b.wp[i] \in 0 .. PagesPerSblk
    OBVIOUS
  <2>3. \A i \in Sblks : /\ data.dev.state[i] = 0 .. data.dev.wp[i] - 1
                         /\ w.dev.state[i] = 0 .. w.dev.wp[i] - 1
                         /\ data.dev.wp[i] <= data.b.wp[i]
    BY <1>5 DEF DevSound, Nd!Prefix, Flushed
  <2>4. \A i \in Sblks : /\ data.dev.wp[i] \in Nat /\ w.dev.wp[i] \in Nat
                         /\ data.b.wp[i] \in Nat /\ data.b.wp[i] <= PagesPerSblk
    <3>1. \A x \in 0 .. PagesPerSblk : x \in Nat /\ x <= PagesPerSblk
      BY Geometry
    <3> QED BY <2>1, <2>2, <3>1
  <2>5. Offsets = 0 .. PagesPerSblk - 1 /\ PagesPerSblk \in Nat
    BY Geometry DEF Offsets
  <2> QED BY <2>3, <2>4, <2>5
<1>7. ASSUME NEW i \in Sblks PROVE w.dev.wp[i] = data.b.wp[i]
  <2>1. Reached(i, L) = { p \in Offsets : data.dev.wp[i] <= p /\ p < data.b.wp[i] }
    <3>1. \A p \in Offsets : Queued(fl, i, p) <=> data.dev.wp[i] <= p /\ p < data.b.wp[i]
      BY DEF RunsSound
    <3> QED BY <1>1, <3>1 DEF Reached, Queued
  <2>2. w.dev.state[i] = 0 .. data.b.wp[i] - 1
    <3>1. w.dev.state[i] = (0 .. data.dev.wp[i] - 1) \cup Reached(i, L)
      BY <1>5, <1>6 DEF Flushed
    <3>2. \A p : p \in (0 .. data.dev.wp[i] - 1) \cup Reached(i, L) <=> p \in 0 .. data.b.wp[i] - 1
      BY <1>6, <2>1
    <3> QED BY <3>1, <3>2
  <2>3. 0 .. w.dev.wp[i] - 1 = 0 .. data.b.wp[i] - 1
    BY <1>6, <2>2
  <2>4. ASSUME NEW a \in Nat, NEW b \in Nat, a < b PROVE 0 .. a - 1 # 0 .. b - 1
    <3>1. a \in 0 .. b - 1 /\ a \notin 0 .. a - 1
      BY <2>4
    <3> QED BY <3>1
  <2>5. ~(w.dev.wp[i] < data.b.wp[i]) /\ ~(data.b.wp[i] < w.dev.wp[i])
    BY <1>6, <2>3, <2>4
  <2> QED BY <1>6, <2>5
<1> QED BY <1>5, <1>7 DEF Flushed

-----------------------------------------------------------------------------
(***************************************************************************)
(* The invariant.                                                          *)
(***************************************************************************)
\* A data store the device agrees with, while the entries of the flush are en.
Agrees(d, f, en) ==
    /\ DevSound(d) /\ RunsSound(d, f)
    /\ (\A e \in Entries : en[e].at = "buffer") => f = <<>>
    /\ (\E e \in Entries : en[e].at = "pending") =>
          \A i \in Sblks : Behind(d, i) => \E e \in PlacedIn(en) : en[e].pga[1] = i

\* The invariant says as much of the next state.
LEMMA FollowsAfter ==
    ASSUME early' = {} => /\ Unrefused(data')
                          /\ data'.aborted => ~Idle'
                          /\ ~data'.aborted => Agrees(data', fl', entry')
    PROVE  DeviceInv'
BY DEF DeviceInv, Agrees, Idle, AllAt, Pending

\* And of this one.
LEMMA FollowsNow ==
    ASSUME DeviceInv, early = {}
    PROVE  /\ Unrefused(data)
           /\ data.aborted => ~Idle
           /\ ~data.aborted => Agrees(data, fl, entry)
BY DEF DeviceInv, Agrees, Idle, AllAt, Pending

\* The runs of an empty list.
LEMMA NoRuns ==
    ASSUME NEW d, d.dev \in Nd!Device, Nd!Prefix(d.dev),
           \A i \in Sblks : d.dev.wp[i] = d.b.wp[i]
    PROVE  DevSound(d) /\ RunsSound(d, <<>>) /\ \A i \in Sblks : ~Behind(d, i)
<1>1. \A i \in Sblks : d.dev.wp[i] \in Nat
  <2>1. \A x \in 0 .. PagesPerSblk : x \in Nat
    BY Geometry
  <2>2. \A i \in Sblks : d.dev.wp[i] \in 0 .. PagesPerSblk
    BY DEF Nd!Device
  <2> QED BY <2>1, <2>2
<1>2. DevSound(d) /\ \A i \in Sblks : ~Behind(d, i)
  BY <1>1 DEF DevSound, Behind
<1>3. \A s \in Sblks, o \in Offsets : ~Queued(<<>>, s, o)
  BY DEF Queued
<1>4. \A s \in Sblks, o \in Offsets : ~(d.dev.wp[s] <= o /\ o < d.b.wp[s])
  <2>1. \A o \in Offsets : o \in Nat
    BY Geometry DEF Offsets
  <2> QED BY <1>1, <2>1
<1>5. <<>> \in Seq([s : Sblks, o : Offsets, n : Nat]) /\ Len(<<>>) = 0
  OBVIOUS
<1>6. RunsSound(d, <<>>)
  BY <1>3, <1>4, <1>5 DEF RunsSound
<1> QED BY <1>2, <1>6

\* At the start nothing is programmed and nothing handed out.
LEMMA InitFollows == Init => DeviceInv
<1> SUFFICES ASSUME Init PROVE DeviceInv
  OBVIOUS
<1>1. /\ data = data_init /\ fl = <<>>
      /\ entry = [e \in Entries |-> [at |-> "buffer", len |-> 1, pga |-> NoPga]]
  BY DEF Init
<1>2. PICK d : d = data_init
  OBVIOUS
<1>3. PICK w : w = Dev!ssd_init
  OBVIOUS
<1>4. PICK b : b = dftl_bm_init
  OBVIOUS
<1>5. d.dev = w /\ d.b = b /\ d.refused = FALSE /\ d.aborted = FALSE
  BY <1>2, <1>3, <1>4 DEF data_init
<1>6. /\ w = [state |-> [i \in Sblks |-> {}], wp |-> [i \in Sblks |-> 0]]
      /\ b.wp = [i \in Sblks |-> 0]
  BY <1>3, <1>4 DEF Dev!ssd_init, dftl_bm_init
<1>7. w \in Nd!Device /\ Nd!Prefix(w) /\ \A i \in Sblks : w.wp[i] = b.wp[i]
  <2>1. 0 .. 0 - 1 = {} /\ 0 \in 0 .. PagesPerSblk
    BY Geometry
  <2> QED BY <1>6, <2>1 DEF Nd!Device, Nd!Prefix
<1>8. DevSound(d) /\ RunsSound(d, <<>>) /\ \A i \in Sblks : ~Behind(d, i)
  BY <1>5, <1>7, NoRuns
<1> QED BY <1>1, <1>2, <1>5, <1>8 DEF DeviceInv, Unrefused, Pending

\* A full buffer changes nothing on flash.
LEMMA FillFollows ==
    ASSUME DataInv, DeviceInv, NEW len \in [Entries -> ValueLens], Fill(len)
    PROVE  DeviceInv'
<1>1. /\ ~data.aborted /\ Idle /\ data' = data /\ fl' = fl /\ early' = early
      /\ entry' = [e \in Entries |-> [at |-> "pending", len |-> len[e], pga |-> NoPga]]
  BY DEF Fill
<1>2. ASSUME early' = {}
      PROVE  Unrefused(data) /\ ~Idle' /\ Agrees(data, fl, entry')
  <2>1. Unrefused(data) /\ Agrees(data, fl, entry)
    BY <1>1, <1>2, FollowsNow
  <2>2. fl = <<>>
    BY <1>1, <2>1 DEF Agrees, Idle, AllAt
  <2>3. \A i \in Sblks : ~Behind(data, i)
    <3>1. \A s \in Sblks, o \in Offsets : ~Queued(fl, s, o)
      BY <2>2 DEF Queued
    <3> SUFFICES ASSUME NEW i \in Sblks, Behind(data, i) PROVE FALSE
      OBVIOUS
    <3>2. data.dev.wp[i] \in 0 .. PagesPerSblk /\ data.b.wp[i] \in 0 .. PagesPerSblk
      <4>1. DataSound(data, PgasIn(entry))
        BY <1>1, <1>2 DEF DataInv
      <4> QED BY <2>1, <4>1 DEF Agrees, DevSound, Nd!Device, DataSound, DataTypes
    <3>3. data.dev.wp[i] \in Offsets
      BY <3>2, Geometry DEF Behind, Offsets
    <3> QED BY <2>1, <3>1, <3>2, <3>3, Geometry DEF Agrees, RunsSound, Behind
  <2>4. \A e \in Entries : entry'[e].at = "pending"
    BY <1>1
  <2>5. Entries # {} /\ ~Idle'
    <3>1. 1 \in Entries
      BY DataPathAssumption DEF Entries
    <3> QED BY <2>4, <3>1 DEF Idle, AllAt
  <2>6. \E e \in Entries : entry'[e].at # "buffer"
    BY <2>4, <2>5
  <2> QED BY <2>1, <2>3, <2>5, <2>6 DEF Agrees
<1> QED BY <1>1, <1>2, FollowsAfter

\* What a page of the flush leaves alone.
LEMMA PageDevice ==
    ASSUME NEW d, IsData(d), Unrefused(d), NEW s, NEW o, NEW x, x = Placed(d, s, o)
    PROVE  x.dev = d.dev /\ Unrefused(x)
<1>1. PICK b : b = [get_page_num(d.b, s) EXCEPT !.vcnt[s] = @ + Cardinality(GrainCalls(NextPage))]
  OBVIOUS
<1>2. PICK V : V = d.valid \cup Grained(s, o, NextPage)
  OBVIOUS
<1>3. PICK m : m = (d.misuse \/ \E p \in NextPage :
                      Grained(s, o, {p}) \cap (d.valid \cup Grained(s, o, NextPage \ {p})) # {})
  OBVIOUS
<1>4. PICK w : w = [g \in Grains |->
                  IF \E p \in NextPage : At(s, o, p) = g
                  THEN [lpa |-> 0, len |-> (CHOOSE p \in NextPage : At(s, o, p) = g).item.len]
                  ELSE d.oob[g]]
  OBVIOUS
<1>5. x = [d EXCEPT !.b = b, !.valid = V, !.misuse = m, !.oob = w]
  BY <1>1, <1>2, <1>3, <1>4 DEF Placed
<1> QED BY <1>5 DEF IsData, Unrefused

\* The entries of the page are placed in its superblock, and the placed ones stay.
LEMMA EntriesPlacedOn ==
    ASSUME EntriesSound(entry), Pending # {}, NEW s, NEW o,
           NEW en, en = EntriesOn(s, o, NextPage)
    PROVE  /\ \E e \in PlacedIn(en) : en[e].pga[1] = s
           /\ \A e \in PlacedIn(entry) : e \in PlacedIn(en) /\ en[e].pga = entry[e].pga
<1>1. NextPage # {} /\ \A p \in NextPage : p.item.id \in Entries /\ p.item.id \in Pending
  BY PageTakes DEF Pending
<1>2. ASSUME NEW p \in NextPage
      PROVE  en[p.item.id].at = "placed" /\ en[p.item.id].pga[1] = s
  <2>1. PICK e \in Entries : e = p.item.id
    BY <1>1
  <2>2. PICK q \in NextPage : /\ q.item.id = e
                              /\ en[e] = [entry[e] EXCEPT !.at = "placed", !.pga = <<s, o, q.off>>]
    <3>1. \E q \in NextPage : q.item.id = e
      BY <2>1
    <3>2. PICK q : q = CHOOSE r \in NextPage : r.item.id = e
      OBVIOUS
    <3>3. q \in NextPage /\ q.item.id = e
      BY <3>1, <3>2
    <3>4. en[e] = [entry[e] EXCEPT !.at = "placed", !.pga = <<s, o, q.off>>]
      BY <3>1, <3>2 DEF EntriesOn
    <3> QED BY <3>3, <3>4
  <2>3. entry[e] = [at |-> entry[e].at, len |-> entry[e].len, pga |-> entry[e].pga]
    BY DEF EntriesSound
  <2>4. en[e].at = "placed" /\ en[e].pga = <<s, o, q.off>>
    BY <2>2, <2>3
  <2> QED BY <2>1, <2>4
<1>3. \E e \in PlacedIn(en) : en[e].pga[1] = s
  <2>1. PICK p \in NextPage : TRUE
    BY <1>1
  <2>2. p.item.id \in PlacedIn(en) /\ en[p.item.id].pga[1] = s
    BY <1>1, <1>2 DEF PlacedIn
  <2> QED BY <2>2
<1>4. ASSUME NEW e \in PlacedIn(entry)
      PROVE  e \in PlacedIn(en) /\ en[e].pga = entry[e].pga
  <2>1. e \in Entries /\ entry[e].at = "placed" /\ e \notin Pending
    BY DEF PlacedIn, Pending
  <2>2. ~ \E p \in NextPage : p.item.id = e
    BY <1>1, <2>1
  <2>3. en[e] = entry[e]
    BY <2>1, <2>2 DEF EntriesOn
  <2> QED BY <2>1, <2>3 DEF PlacedIn
<1> QED BY <1>3, <1>4

\* A page for the flush, with the GC it may need.
LEMMA AssignFollows ==
    ASSUME DataInv, DeviceInv, AssignPage
    PROVE  DeviceInv'
<1> DEFINE P == PgasIn(entry)
           target == get_gc_target(data.b)
<1>1. PICK d \in dp_alloc(data) :
         IF d.aborted THEN data' = d /\ UNCHANGED <<entry, fl>>
         ELSE IF d.b.wp[d.active] >= PagesPerSblk
         THEN data' = [d EXCEPT !.misuse = TRUE, !.aborted = TRUE]
              /\ UNCHANGED <<entry, fl>>
         ELSE /\ data' = Placed(d, d.active, d.b.wp[d.active])
              /\ fl' = AddPage(d.active, d.b.wp[d.active])
              /\ entry' = EntriesOn(d.active, d.b.wp[d.active], NextPage)
  BY DEF AssignPage, EntriesOn
<1>2. /\ ~data.aborted /\ Pending # {}
      /\ early' = IF RunsGc(data)
                  THEN early \cup { e \in Entries : /\ entry[e].at = "placed"
                                                    /\ entry[e].pga[1] = target }
                  ELSE early
  BY DEF AssignPage
<1>3. ASSUME early' = {}
      PROVE  /\ Unrefused(data') /\ ~Idle'
             /\ ~data'.aborted => Agrees(data', fl', entry')
  <2>1. early = {}
    BY <1>2, <1>3
  <2>2. DataSound(data, P) /\ EntriesSound(entry) /\ Unrefused(data) /\ Agrees(data, fl, entry)
    BY <1>2, <2>1, FollowsNow DEF DataInv
  <2>3. RunsGc(data) => \A e \in PlacedIn(entry) : entry[e].pga[1] # target
    <3> SUFFICES ASSUME RunsGc(data), NEW e \in PlacedIn(entry) PROVE entry[e].pga[1] # target
      OBVIOUS
    <3>1. e \in Entries /\ entry[e].at = "placed"
      BY DEF PlacedIn
    <3>2. { f \in Entries : entry[f].at = "placed" /\ entry[f].pga[1] = target } = {}
      BY <1>2, <1>3
    <3> QED BY <3>1, <3>2
  <2>4. \A i \in Sblks : Behind(data, i) => \E e \in PlacedIn(entry) : entry[e].pga[1] = i
    BY <1>2, <2>2 DEF Agrees, Pending
  <2>5. RunsGc(data) => /\ \A h \in P : h[1] # target
                        /\ target \in Sblks => ~Behind(data, target)
    BY <2>3, <2>4 DEF PgasIn
  <2> HIDE DEF P, target
  <2>6. Allocated(data, P, d)
    BY <2>2, <2>5, AllocSound DEF target
  <2>7. Followed(data, fl, d)
    BY <2>2, <2>5, AllocFollowed DEF target, Agrees
  <2>8. entry' = entry => ~Idle'
    BY <1>2 DEF Pending, Idle, AllAt
  <2>9. CASE d.aborted
    <3>1. data' = d /\ entry' = entry
      BY <1>1, <2>9
    <3> QED BY <2>7, <2>8, <2>9, <3>1 DEF Followed
  <2>10. CASE ~d.aborted
    <3>1. DataSound(d, P) /\ d.active \in Sblks /\ DevSound(d) /\ RunsSound(d, fl) /\ Unrefused(d)
          /\ \A i \in Sblks : Behind(d, i) => Behind(data, i)
      BY <2>6, <2>7, <2>10 DEF Allocated, Followed
    <3>2. IsData(d) /\ IsPartition(d.b) /\ d.b.wp \in [Sblks -> 0 .. PagesPerSblk]
      BY <3>1 DEF DataSound, DataTypes
    <3>3. PICK s : s = d.active
      OBVIOUS
    <3>4. PICK o : o = d.b.wp[s]
      OBVIOUS
    <3>5. s \in Sblks /\ o \in Nat
      BY <3>1, <3>2, <3>3, <3>4
    <3>6. PICK x : x = data'
      OBVIOUS
    <3>7. CASE o >= PagesPerSblk
      <4>1. x = [d EXCEPT !.misuse = TRUE, !.aborted = TRUE] /\ entry' = entry
        BY <1>1, <2>10, <3>3, <3>4, <3>6, <3>7
      <4>2. x.aborted = TRUE /\ Unrefused(x)
        BY <3>1, <3>2, <4>1 DEF IsData, Unrefused
      <4> QED BY <2>8, <3>6, <4>1, <4>2
    <3>8. CASE ~(o >= PagesPerSblk)
      <4>1. o \in Offsets
        BY <3>5, <3>8, Geometry DEF Offsets
      <4>2. /\ x = Placed(d, s, o) /\ fl' = AddPage(s, o)
            /\ entry' = EntriesOn(s, o, NextPage)
        BY <1>1, <2>10, <3>3, <3>4, <3>6, <3>8
      <4>3. x.dev = d.dev /\ Unrefused(x)
        BY <3>1, <3>2, <4>2, PageDevice
      <4>4. x.b.wp = [d.b.wp EXCEPT ![s] = @ + 1]
        <5>1. AfterPage(d, s, o, NextPage, x)
          BY <3>2, <4>2, PageFields
        <5> QED BY <5>1 DEF AfterPage
      <4>5. PICK g : g = fl'
        OBVIOUS
      <4>6. DevSound(x) /\ RunsSound(x, g)
        BY <3>1, <3>2, <3>4, <3>5, <4>1, <4>2, <4>3, <4>4, <4>5, PageKeepsRuns
      <4>7. PICK en : en = entry'
        OBVIOUS
      <4>8. /\ \E e \in PlacedIn(en) : en[e].pga[1] = s
            /\ \A e \in PlacedIn(entry) : e \in PlacedIn(en) /\ en[e].pga = entry[e].pga
        BY <1>2, <2>2, <4>2, <4>7, EntriesPlacedOn
      <4>9. ASSUME NEW i \in Sblks, Behind(x, i)
            PROVE  \E e \in PlacedIn(en) : en[e].pga[1] = i
        <5>1. CASE i = s
          BY <4>8, <5>1
        <5>2. CASE i # s
          <6>1. x.b.wp[i] = d.b.wp[i]
            BY <3>2, <4>4, <5>2
          <6>2. Behind(data, i)
            BY <3>1, <4>3, <4>9, <6>1 DEF Behind
          <6>3. PICK e \in PlacedIn(entry) : entry[e].pga[1] = i
            BY <2>4, <6>2
          <6> QED BY <4>8, <6>3
        <5> QED BY <5>1, <5>2
      <4>10. \E e \in Entries : en[e].at = "placed"
        BY <4>8 DEF PlacedIn
      <4>11. Agrees(x, g, en)
        BY <4>6, <4>9, <4>10 DEF Agrees
      <4>12. ~Idle'
        BY <4>7, <4>10 DEF Idle, AllAt
      <4> QED BY <3>6, <4>3, <4>5, <4>7, <4>11, <4>12
    <3> QED BY <3>7, <3>8
  <2> QED BY <2>9, <2>10
<1> QED BY <1>3, FollowsAfter

\* The device is as it was.
SameDevice(d, x) == x.dev = d.dev /\ (Unrefused(d) => Unrefused(x))

\* A mapping update leaves the device alone.
LEMMA MapDevice ==
    ASSUME NEW d, IsData(d), NEW h, NEW l,
           NEW y, y = IF d.table[l] = NoPga THEN d ELSE invalidate_value(d, d.table[l]),
           NEW x, x = [y EXCEPT !.table[l] = h, !.oob[h].lpa = l]
    PROVE  SameDevice(d, x)
<1>1. PICK g : g = d.table[l]
  OBVIOUS
<1>2. IsData(y) /\ y.dev = d.dev /\ (Unrefused(d) => Unrefused(y))
  <2>1. CASE g = NoPga
    BY <1>1, <2>1
  <2>2. CASE g # NoPga
    <3>1. PICK I : I = ItemAt(d, g)
      OBVIOUS
    <3>2. PICK n : n = d.oob[g].len
      OBVIOUS
    <3>3. PICK m : m = (d.misuse \/ ~(ItemAt(d, g) \subseteq d.valid))
      OBVIOUS
    <3>4. y = [d EXCEPT !.valid = @ \ I, !.b.vcnt[g[1]] = @ - n, !.misuse = m]
      BY <1>1, <2>2, <3>1, <3>2, <3>3 DEF invalidate_value
    <3> QED BY <3>4 DEF IsData, Unrefused
  <2> QED BY <2>1, <2>2
<1> QED BY <1>2 DEF IsData, Unrefused, SameDevice

\* A mapping update changes nothing the device is about.
LEMMA MapFollows ==
    ASSUME DataInv, DeviceInv, NEW e \in Entries, NEW l \in Lpas, MapEntry(e, l)
    PROVE  DeviceInv'
<1>1. /\ ~data.aborted /\ Pending = {} /\ fl' = fl /\ early' = early
      /\ entry' = [entry EXCEPT ![e].at = "mapped"]
  BY DEF MapEntry
<1>2. PICK h : h = entry[e].pga
  OBVIOUS
<1>3. PICK y : y = Overwritten(l)
  OBVIOUS
<1>4. PICK x : x = data'
  OBVIOUS
<1>5. x = [y EXCEPT !.table[l] = h, !.oob[h].lpa = l]
  BY <1>2, <1>3, <1>4 DEF MapEntry
<1>6. ASSUME early' = {}
      PROVE  Unrefused(x) /\ ~Idle' /\ Agrees(x, fl, entry')
  <2>1. DataSound(data, PgasIn(entry)) /\ EntriesSound(entry)
    BY <1>1, <1>6 DEF DataInv
  <2>2. IsData(data) /\ IsPartition(data.b)
    BY <2>1 DEF DataSound, DataTypes
  <2>3. Unrefused(data) /\ Agrees(data, fl, entry)
    BY <1>1, <1>6, FollowsNow
  <2>4. y = IF data.table[l] = NoPga THEN data ELSE invalidate_value(data, data.table[l])
    BY <1>3 DEF Overwritten
  <2>5. x.dev = data.dev /\ Unrefused(x)
    <3>1. IsData(data) /\ Unrefused(data)
      BY <2>2, <2>3
    <3>2. SameDevice(data, x)
      BY <1>5, <2>4, <3>1, MapDevice
    <3> QED BY <3>1, <3>2 DEF SameDevice
  <2>6. x.b.wp = data.b.wp
    <3>1. AfterMap(data, h, l, x)
      BY <1>5, <2>2, <2>4, MapFields
    <3> QED BY <3>1 DEF AfterMap
  <2>7. DevSound(x) /\ RunsSound(x, fl)
    BY <2>3, <2>5, <2>6 DEF Agrees, DevSound, RunsSound
  <2>8. PICK en : en = entry'
    OBVIOUS
  <2>9. en[e].at = "mapped" /\ \A f \in Entries : en[f].at # "pending"
    <3>1. /\ DOMAIN entry = Entries
          /\ entry[e] = [at |-> entry[e].at, len |-> entry[e].len, pga |-> entry[e].pga]
      BY <2>1 DEF EntriesSound
    <3>2. PICK new : new = [entry[e] EXCEPT !.at = "mapped"]
      OBVIOUS
    <3>3. new.at = "mapped"
      BY <3>1, <3>2
    <3>4. \A f \in Entries : en[f] = IF f = e THEN new ELSE entry[f]
      BY <1>1, <2>8, <3>1, <3>2
    <3>5. \A f \in Entries : entry[f].at # "pending"
      BY <1>1 DEF Pending
    <3> QED BY <3>3, <3>4, <3>5
  <2>10. ~Idle'
    BY <2>8, <2>9 DEF Idle, AllAt
  <2> QED BY <2>5, <2>7, <2>8, <2>9, <2>10 DEF Agrees
<1> QED BY <1>1, <1>4, <1>6, FollowsAfter

\* The flush is accepted and leaves the device with all pages.
LEMMA FlushFollows ==
    ASSUME DataInv, DeviceInv, Flush
    PROVE  DeviceInv' /\ (early = {} => ~data'.aborted)
<1>1. /\ ~data.aborted /\ early' = early /\ fl' = <<>>
      /\ entry' = [e \in Entries |-> [at |-> "buffer", len |-> 1, pga |-> NoPga]]
  BY DEF Flush
<1>2. PICK w : w = WrittenOut
  OBVIOUS
<1>3. PICK u \in BOOLEAN : u = (w.rc # Dev!Done)
  OBVIOUS
<1>4. PICK x : x = data'
  OBVIOUS
<1>5. x = [data EXCEPT !.dev = w.dev, !.aborted = u]
  BY <1>2, <1>3, <1>4 DEF Flush
<1>6. ASSUME early' = {}
      PROVE  Unrefused(x) /\ x.aborted = FALSE /\ Agrees(x, <<>>, entry')
  <2>1. /\ IsData(data) /\ data.b.wp \in [Sblks -> 0 .. PagesPerSblk]
        /\ Unrefused(data) /\ DevSound(data) /\ RunsSound(data, fl)
    BY <1>1, <1>6, FollowsNow DEF DataInv, DataSound, DataTypes, Agrees
  <2>2. /\ w.rc = Dev!Done /\ w.dev \in Nd!Device /\ Nd!Prefix(w.dev)
        /\ \A i \in Sblks : w.dev.wp[i] = data.b.wp[i]
    BY <1>2, <2>1, FlushFollowed
  <2>3. x.dev = w.dev /\ x.b = data.b /\ x.aborted = u /\ Unrefused(x)
    BY <1>5, <2>1 DEF IsData, Unrefused
  <2>4. DevSound(x) /\ RunsSound(x, <<>>) /\ \A i \in Sblks : ~Behind(x, i)
    BY <2>2, <2>3, NoRuns
  <2> QED BY <1>3, <2>2, <2>3, <2>4 DEF Agrees
<1> QED BY <1>1, <1>4, <1>6, FollowsAfter

\* The device is in step with the block manager, from flush to flush.
THEOREM DeviceInvariant == Spec => []DeviceInv
<1>1. Init => DeviceInv
  BY InitFollows
<1>2. ASSUME DataInv, DeviceInv, [Next]_vars PROVE DeviceInv'
  <2>1. ASSUME NEW len \in [Entries -> ValueLens], Fill(len) PROVE DeviceInv'
    BY <1>2, <2>1, FillFollows
  <2>2. CASE AssignPage
    BY <1>2, <2>2, AssignFollows
  <2>3. ASSUME NEW e \in Entries, NEW l \in Lpas, MapEntry(e, l) PROVE DeviceInv'
    BY <1>2, <2>3, MapFollows
  <2>4. CASE Flush
    BY <1>2, <2>4, FlushFollows
  <2>5. CASE UNCHANGED vars
    <3>1. data' = data /\ entry' = entry /\ fl' = fl /\ early' = early
      BY <2>5 DEF vars
    <3>2. Idle' = Idle
      BY <3>1 DEF Idle, AllAt
    <3>3. early' = {} => /\ Unrefused(data')
                         /\ data'.aborted => ~Idle'
                         /\ ~data'.aborted => Agrees(data', fl', entry')
      BY <1>2, <3>1, <3>2, FollowsNow
    <3> QED BY <3>3, FollowsAfter
  <2> QED BY <1>2, <2>1, <2>2, <2>3, <2>4, <2>5 DEF Next
<1> QED BY <1>1, <1>2, DataInvariant, PTL DEF Spec

-----------------------------------------------------------------------------
\* No write of a GC is refused, the write pointers of the device are those of the block
\* manager between flushes, and every mapped value can be read then.
THEOREM DeviceAlwaysFollows == Spec => []DeviceFollows
<1>1. ASSUME DataInv, DeviceInv PROVE DeviceFollows
  <2> SUFFICES ASSUME early = {}
               PROVE  /\ ~data.refused
                      /\ Idle => \A i \in Sblks : data.dev.wp[i] = data.b.wp[i]
                      /\ Idle /\ ~data.aborted =>
                           \A l \in Mapped : Dev!Readable(data.dev, data.table[l][1], data.table[l][2])
    BY DEF DeviceFollows
  <2>1. ~data.refused
    BY <1>1, FollowsNow DEF Unrefused
  <2>2. ASSUME Idle
        PROVE  /\ \A i \in Sblks : data.dev.wp[i] = data.b.wp[i]
               /\ \A l \in Mapped : Dev!Readable(data.dev, data.table[l][1], data.table[l][2])
    <3>1. ~data.aborted
      BY <1>1, <2>2, FollowsNow
    <3>2. DataSound(data, PgasIn(entry)) /\ Agrees(data, fl, entry)
      BY <1>1, <3>1, FollowsNow DEF DataInv
    <3>3. fl = <<>>
      BY <2>2, <3>2 DEF Agrees, Idle, AllAt
    <3>4. \A s \in Sblks, o \in Offsets : ~Queued(fl, s, o)
      BY <3>3 DEF Queued
    <3>5. ASSUME NEW i \in Sblks PROVE data.dev.wp[i] = data.b.wp[i]
      <4>1. data.dev.wp[i] \in 0 .. PagesPerSblk /\ data.b.wp[i] \in 0 .. PagesPerSblk
        BY <3>2 DEF Agrees, DevSound, Nd!Device, DataSound, DataTypes
      <4>2. data.dev.wp[i] <= data.b.wp[i]
        BY <3>2 DEF Agrees, DevSound
      <4>3. ASSUME data.dev.wp[i] < data.b.wp[i] PROVE FALSE
        <5>1. data.dev.wp[i] \in Offsets
          BY <4>1, <4>3, Geometry DEF Offsets
        <5> QED BY <3>2, <3>4, <4>1, <4>3, <5>1, Geometry DEF Agrees, RunsSound
      <4> QED BY <4>1, <4>2, <4>3, Geometry
    <3>6. ASSUME NEW l \in Mapped
          PROVE  Dev!Readable(data.dev, data.table[l][1], data.table[l][2])
      <4>1. PICK g \in Grains : g = data.table[l] /\ g \in Addresses(data, PgasIn(entry))
        BY <3>2 DEF Mapped, DataSound, DataTypes, Addresses, MappedPgas
      <4>2. g[1] \in Sblks /\ g[2] \in Offsets
        BY DEF Grains
      <4>3. data.oob[g].len > 0 /\ (g[2] >= data.b.wp[g[1]] => data.oob[g].len = 0)
        BY <3>2, <4>1 DEF DataSound, ValuesApart, FreshPages
      <4>4. data.b.wp[g[1]] \in 0 .. PagesPerSblk
        BY <3>2, <4>2 DEF DataSound, DataTypes
      <4>5. g[2] < data.dev.wp[g[1]] /\ g[2] \in Nat /\ data.dev.wp[g[1]] \in Nat
        <5>1. data.dev.wp[g[1]] = data.b.wp[g[1]]
          BY <3>5, <4>2
        <5>2. g[2] \in Nat
          BY <4>2, Geometry DEF Offsets
        <5> QED BY <4>3, <4>4, <5>1, <5>2, Geometry
      <4>6. data.dev.state[g[1]] = 0 .. data.dev.wp[g[1]] - 1
        BY <3>2, <4>2 DEF Agrees, DevSound, Nd!Prefix
      <4>7. g[2] \in data.dev.state[g[1]]
        BY <4>5, <4>6
      <4> QED BY <4>1, <4>7 DEF Dev!Readable
    <3> QED BY <3>5, <3>6
  <2> QED BY <2>1, <2>2
<1> QED BY <1>1, DataInvariant, DeviceInvariant, PTL

\* No flush is refused by the device, unless GC collected an entry of a flush before it
\* had a pte.
FlushTaken == [][Flush /\ early = {} => ~data'.aborted]_vars

\* Every flush is accepted until then.
THEOREM FlushAlwaysTaken == Spec => FlushTaken
<1>1. ASSUME DataInv, DeviceInv, [Next]_vars PROVE [Flush /\ early = {} => ~data'.aborted]_vars
  BY <1>1, FlushFollows
<1> QED BY <1>1, DataInvariant, DeviceInvariant, PTL DEF Spec, FlushTaken

-----------------------------------------------------------------------------
(***************************************************************************)
(* The assertions of the block manager.                                    *)
(***************************************************************************)
\* No assertion has failed.
Unasserted(d) == d.misuse = FALSE

\* dp_alloc fails no assertion, unless it aborts.
LEMMA AllocAsserts ==
    ASSUME NEW d, NEW P, DataSound(d, P), Unasserted(d), NEW x \in dp_alloc(d)
    PROVE  ~x.aborted => Unasserted(x)
<1>1. IsData(d) /\ IsPartition(d.b)
  BY DEF DataSound, DataTypes
<1>2. \A y : y = Abort(d) \/ y = [Abort(d) EXCEPT !.misuse = TRUE] => y.aborted = TRUE
  BY <1>1, AbortRefuses
<1>3. CASE ~NeedsSblk(d)
  BY <1>3 DEF dp_alloc
<1>4. CASE NeedsSblk(d) /\ isgc_needed(d.b)
  <2>1. PICK v : v = get_gc_target(d.b)
    OBVIOUS
  <2>2. PICK S : S = Pk!Pack(Collected(d, v))
    OBVIOUS
  <2>3. x \in dpage_gc_dvalue(d)
    BY <1>4 DEF dp_alloc
  <2>4. CASE v = NoSblk \/ ~AllCollected(d, v)
    <3>1. x = Abort(d)
      BY <2>1, <2>3, <2>4 DEF dpage_gc_dvalue
    <3> QED BY <1>2, <3>1
  <2>5. CASE v # NoSblk /\ AllCollected(d, v) /\ ~Fits(d, S)
    <3>1. x = [Abort(d) EXCEPT !.misuse = TRUE]
      BY <2>1, <2>2, <2>3, <2>5 DEF dpage_gc_dvalue
    <3> QED BY <1>2, <3>1
  <2>6. CASE v # NoSblk /\ AllCollected(d, v) /\ Fits(d, S)
    <3>1. x \in { [moved(d, v, S) EXCEPT !.table = t] : t \in gc_tables(d, S) }
      BY <2>1, <2>2, <2>3, <2>6 DEF dpage_gc_dvalue
    <3>2. PICK t : x = [moved(d, v, S) EXCEPT !.table = t]
      BY <3>1
    <3>3. PICK y : y = moved(d, v, S)
      OBVIOUS
    <3>4. PICK b : b = change_reserve(gc_counters(d, v, S), v)
      OBVIOUS
    <3>5. PICK V : V = gc_valid(d, v, S)
      OBVIOUS
    <3>6. PICK o : o = gc_oob(d, v, S)
      OBVIOUS
    <3>7. PICK w : w = gc_dev(d, v, Pk!PagesUsed(S))
      OBVIOUS
    <3>8. PICK u : u = (d.refused \/ Dev!Accepted(d.dev, d.reserve, d.b.wp[d.reserve], Pk!PagesUsed(S))
                                       # Pk!PagesUsed(S))
      OBVIOUS
    <3>9. y = [d EXCEPT !.b = b, !.valid = V, !.oob = o, !.dev = w, !.refused = u,
                        !.active = d.reserve, !.reserve = v]
      BY <1>1, <3>3, <3>4, <3>5, <3>6, <3>7, <3>8 DEF moved
    <3>10. IsData(y) /\ Unasserted(y)
      BY <1>1, <3>9 DEF IsData, Unasserted
    <3> QED BY <3>2, <3>3, <3>10 DEF IsData, Unasserted
  <2> QED BY <2>4, <2>5, <2>6
<1>5. CASE NeedsSblk(d) /\ ~isgc_needed(d.b)
  <2>1. PICK b : b = get_active_sblk(d.b)
    OBVIOUS
  <2>2. CASE b.active = NoSblk
    <3>1. x = Abort(d)
      BY <1>5, <2>1, <2>2 DEF dp_alloc
    <3> QED BY <1>2, <3>1
  <2>3. CASE b.active # NoSblk
    <3>1. x = [d EXCEPT !.b = b, !.active = b.active]
      BY <1>5, <2>1, <2>3 DEF dp_alloc
    <3> QED BY <1>1, <3>1 DEF IsData, Unasserted
  <2> QED BY <2>2, <2>3
<1> QED BY <1>3, <1>4, <1>5

\* No grain of a new page is validated twice: the page was never handed out, and the
\* values on it lie beside each other.
LEMMA PageAsserts ==
    ASSUME NEW d, NEW P, DataSound(d, P), Unasserted(d), EntriesSound(entry),
           NEW s \in Sblks, NEW o \in Offsets, o = d.b.wp[s], NEW x, x = Placed(d, s, o)
    PROVE  Unasserted(x)
<1>1. IsData(d)
  BY DEF DataSound, DataTypes
<1>2. OnePage(s, o, NextPage)
  <2>1. o \in Nat /\ o < PagesPerSblk
    BY Geometry DEF Offsets
  <2> QED BY <2>1, NextPageApart
<1>3. ASSUME NEW p \in NextPage
      PROVE  Grained(s, o, {p}) \cap (d.valid \cup Grained(s, o, NextPage \ {p})) = {}
  <2>1. Grained(s, o, {p}) = Extent(At(s, o, p), p.item.len)
    BY DEF Grained
  <2>2. \A g \in Extent(At(s, o, p), p.item.len) : g[1] = s /\ g[2] = o
    BY DEF Extent, At
  <2>3. \A g \in d.valid : ~(g[1] = s /\ g[2] = o)
    <3> SUFFICES ASSUME NEW g \in d.valid, g[1] = s, g[2] = o PROVE FALSE
      OBVIOUS
    <3>1. g \in Grains
      BY DEF DataSound, DataTypes
    <3>2. o >= o
      BY Geometry DEF Offsets
    <3> QED BY <3>1, <3>2 DEF DataSound, FreshPages
  <2>4. ASSUME NEW q \in NextPage \ {p}
        PROVE  Extent(At(s, o, p), p.item.len) \cap Extent(At(s, o, q), q.item.len) = {}
    BY <1>2 DEF OnePage
  <2>5. Grained(s, o, NextPage \ {p})
          = UNION { Extent(At(s, o, q), q.item.len) : q \in NextPage \ {p} }
    BY DEF Grained
  <2> QED BY <2>1, <2>2, <2>3, <2>4, <2>5
<1>4. PICK b : b = [get_page_num(d.b, s) EXCEPT !.vcnt[s] = @ + Cardinality(GrainCalls(NextPage))]
  OBVIOUS
<1>5. PICK V : V = d.valid \cup Grained(s, o, NextPage)
  OBVIOUS
<1>6. (d.misuse \/ \E p \in NextPage :
         Grained(s, o, {p}) \cap (d.valid \cup Grained(s, o, NextPage \ {p})) # {}) = FALSE
  BY <1>3 DEF Unasserted
<1>7. PICK w : w = [g \in Grains |->
                  IF \E p \in NextPage : At(s, o, p) = g
                  THEN [lpa |-> 0, len |-> (CHOOSE p \in NextPage : At(s, o, p) = g).item.len]
                  ELSE d.oob[g]]
  OBVIOUS
<1>8. x = [d EXCEPT !.b = b, !.valid = V, !.misuse = FALSE, !.oob = w]
  BY <1>1, <1>4, <1>5, <1>6, <1>7 DEF Placed
<1> QED BY <1>1, <1>8 DEF IsData, Unasserted

\* A mapping update invalidates the grains of a value, which are valid.
LEMMA MapAsserts ==
    ASSUME NEW d, NEW P, DataSound(d, P), Unasserted(d), NEW h, NEW l \in Lpas,
           NEW y, y = IF d.table[l] = NoPga THEN d ELSE invalidate_value(d, d.table[l]),
           NEW x, x = [y EXCEPT !.table[l] = h, !.oob[h].lpa = l]
    PROVE  Unasserted(x)
<1>1. IsData(d)
  BY DEF DataSound, DataTypes
<1>2. PICK g : g = d.table[l]
  OBVIOUS
<1>3. IsData(y) /\ Unasserted(y)
  <2>1. CASE g = NoPga
    BY <1>1, <1>2, <2>1
  <2>2. CASE g # NoPga
    <3>1. PICK I : I = ItemAt(d, g)
      OBVIOUS
    <3>2. I \subseteq d.valid
      <4>1. g \in Addresses(d, P)
        BY <1>2, <2>2 DEF Addresses, MappedPgas
      <4> QED BY <3>1, <4>1 DEF DataSound, ValuesApart
    <3>3. PICK n : n = d.oob[g].len
      OBVIOUS
    <3>4. (d.misuse \/ ~(ItemAt(d, g) \subseteq d.valid)) = FALSE
      BY <3>1, <3>2 DEF Unasserted
    <3>5. y = [d EXCEPT !.valid = @ \ I, !.b.vcnt[g[1]] = @ - n, !.misuse = FALSE]
      BY <1>1, <1>2, <2>2, <3>1, <3>3, <3>4 DEF invalidate_value
    <3> QED BY <1>1, <3>5 DEF IsData, Unasserted
  <2> QED BY <2>1, <2>2
<1> QED BY <1>3 DEF IsData, Unasserted

\* Nothing fails an assertion while the program runs.
NothingAsserted == early = {} /\ ~data.aborted => Unasserted(data)

\* Every assertion of the block manager holds in every flush, as long as the program runs
\* and GC has collected no entry of a flush before it had a pte.
THEOREM AssertionsHold == Spec => []NothingAsserted
<1>1. Init => NothingAsserted
  BY DEF Init, data_init, NothingAsserted, Unasserted
<1>2. ASSUME DataInv, NothingAsserted, [Next]_vars PROVE NothingAsserted'
  <2>1. ASSUME NEW len \in [Entries -> ValueLens], Fill(len) PROVE NothingAsserted'
    BY <1>2, <2>1 DEF Fill, NothingAsserted
  <2>2. CASE AssignPage
    <3> SUFFICES ASSUME early' = {}, ~data'.aborted PROVE Unasserted(data')
      BY DEF NothingAsserted
    <3>1. PICK d \in dp_alloc(data) :
             IF d.aborted THEN data' = d
             ELSE IF d.b.wp[d.active] >= PagesPerSblk
             THEN data' = [d EXCEPT !.misuse = TRUE, !.aborted = TRUE]
             ELSE data' = Placed(d, d.active, d.b.wp[d.active])
      BY <2>2 DEF AssignPage
    <3>2. /\ ~data.aborted
          /\ early' = IF RunsGc(data)
                      THEN early \cup { e \in Entries : /\ entry[e].at = "placed"
                                                        /\ entry[e].pga[1] = get_gc_target(data.b) }
                      ELSE early
      BY <2>2 DEF AssignPage
    <3>3. early = {}
      BY <3>2
    <3>4. DataSound(data, PgasIn(entry)) /\ EntriesSound(entry) /\ Unasserted(data)
      BY <1>2, <3>2, <3>3 DEF DataInv, NothingAsserted
    <3>5. RunsGc(data) => \A h \in PgasIn(entry) : h[1] # get_gc_target(data.b)
      <4> SUFFICES ASSUME RunsGc(data), NEW e \in PlacedIn(entry)
                   PROVE  entry[e].pga[1] # get_gc_target(data.b)
        BY DEF PgasIn
      <4>1. e \in Entries /\ entry[e].at = "placed"
        BY DEF PlacedIn
      <4>2. { f \in Entries : entry[f].at = "placed" /\ entry[f].pga[1] = get_gc_target(data.b) } = {}
        BY <3>2
      <4> QED BY <4>1, <4>2
    <3>6. ~d.aborted
      BY <3>1
    <3>7. DataSound(d, PgasIn(entry)) /\ d.active \in Sblks
      BY <3>4, <3>5, <3>6, AllocSound DEF Allocated
    <3>8. Unasserted(d)
      BY <3>4, <3>6, AllocAsserts
    <3>9. PICK s \in Sblks : s = d.active
      BY <3>7
    <3>10. PICK o : o = d.b.wp[s]
      OBVIOUS
    <3>11. ~(o >= PagesPerSblk)
      <4> SUFFICES ASSUME o >= PagesPerSblk PROVE FALSE
        OBVIOUS
      <4>1. data' = [d EXCEPT !.misuse = TRUE, !.aborted = TRUE]
        BY <3>1, <3>6, <3>9, <3>10
      <4>2. IsData(d)
        BY <3>7 DEF DataSound, DataTypes
      <4> QED BY <4>1, <4>2, RefusedFields
    <3>12. o \in Offsets
      <4>1. o \in 0 .. PagesPerSblk
        BY <3>7, <3>10 DEF DataSound, DataTypes
      <4> QED BY <3>11, <4>1, Geometry DEF Offsets
    <3>13. PICK x : x = data'
      OBVIOUS
    <3>14. x = Placed(d, s, o)
      BY <3>1, <3>6, <3>9, <3>10, <3>11, <3>13
    <3> QED BY <3>4, <3>7, <3>8, <3>10, <3>12, <3>13, <3>14, PageAsserts
  <2>3. ASSUME NEW e \in Entries, NEW l \in Lpas, MapEntry(e, l) PROVE NothingAsserted'
    <3> SUFFICES ASSUME early' = {} PROVE Unasserted(data')
      BY DEF NothingAsserted
    <3>1. ~data.aborted /\ early' = early
      BY <2>3 DEF MapEntry
    <3>2. DataSound(data, PgasIn(entry)) /\ Unasserted(data)
      BY <1>2, <3>1 DEF DataInv, NothingAsserted
    <3>3. PICK h : h = entry[e].pga
      OBVIOUS
    <3>4. PICK y : y = Overwritten(l)
      OBVIOUS
    <3>5. PICK x : x = data'
      OBVIOUS
    <3>6. x = [y EXCEPT !.table[l] = h, !.oob[h].lpa = l]
      BY <2>3, <3>3, <3>4, <3>5 DEF MapEntry
    <3>7. y = IF data.table[l] = NoPga THEN data ELSE invalidate_value(data, data.table[l])
      BY <3>4 DEF Overwritten
    <3>8. Unasserted(x)
      BY <3>2, <3>6, <3>7, MapAsserts
    <3> QED BY <3>5, <3>8
  <2>4. CASE Flush
    <3> SUFFICES ASSUME early' = {} PROVE Unasserted(data')
      BY DEF NothingAsserted
    <3>1. ~data.aborted /\ early' = early
      BY <2>4 DEF Flush
    <3>2. DataSound(data, PgasIn(entry)) /\ Unasserted(data)
      BY <1>2, <3>1 DEF DataInv, NothingAsserted
    <3>3. IsData(data)
      BY <3>2 DEF DataSound, DataTypes
    <3>4. PICK w, u : data' = [data EXCEPT !.dev = w, !.aborted = u]
      BY <2>4 DEF Flush
    <3> QED BY <3>2, <3>3, <3>4 DEF IsData, Unasserted
  <2>5. CASE UNCHANGED vars
    BY <1>2, <2>5 DEF vars, NothingAsserted
  <2> QED BY <1>2, <2>1, <2>2, <2>3, <2>4, <2>5 DEF Next
<1> QED BY <1>1, <1>2, DataInvariant, PTL DEF Spec
=============================================================================
