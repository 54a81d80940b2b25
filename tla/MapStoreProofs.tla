---------------------------- MODULE MapStoreProofs ---------------------------
(***************************************************************************)
(* The mapping cache and its pages on flash together, proved for every     *)
(* size of the cache and of the partition and every number of mapping      *)
(* pages, readers and entries: first the operations on flash, then the LRU, *)
(* then the two together; what ties them is which pages may have a         *)
(* copy on flash.                                                          *)
(***************************************************************************)
EXTENDS MapCache, FiniteSetTheorems, WellFoundedInduction, TLAPS

------------------------------------------------------------------------------
(***************************************************************************)
(* The operators of MapPages, proved for every size of the MAP partition   *)
(* and every number of mapping pages: a sound store stays sound when a     *)
(* mapping page is invalidated, and when one without a copy is written,    *)
(* whether that takes the next page, opens a superblock or collects one.   *)
(***************************************************************************)

\* t_ppa and the oob of the valid pages are inverse to each other, and only pages that
\* were handed out are valid.
Linked(m) ==
    /\ \A c \in TPages : OnFlash(m, c) => m.tppa[c] \in m.valid /\ m.oob[m.tppa[c]] = c
    /\ \A p \in m.valid : m.tppa[m.oob[p]] = p /\ p[2] < m.b.wp[p[1]]

\* The device has programmed the pages that were handed out, and refused none.
InStep(m) ==
    /\ ~m.refused
    /\ \A i \in Sblks : m.dev.wp[i] = m.b.wp[i] /\ m.dev.state[i] = 0 .. m.b.wp[i] - 1

ReserveClear(m) ==
    /\ m.tReserve = m.b.rsv /\ m.tReserve # m.tActive
    /\ m.b.wp[m.tReserve] = 0

ValidOf(m, i) == { p \in m.valid : p[1] = i }

ValidCounted(m) == \A i \in Sblks : m.b.vcnt[i] = Cardinality(ValidOf(m, i))

\* Only the active superblock is partly written.
FullOrEmpty(m) == \A i \in Sblks : i # m.tActive => m.b.wp[i] \in {0, PagesPerSblk}

\* The search for a free superblock stopped at the active one, until GC takes over.
SearchAt(m) == m.b.free >= 2 => m.b.active = m.tActive

Erased(m) == { i \in Sblks : m.b.wp[i] = 0 }

StoreSound(m) == /\ m \in MapStore
                 /\ Linked(m) /\ InStep(m) /\ ReserveClear(m)
                 /\ ValidCounted(m) /\ FullOrEmpty(m) /\ SearchAt(m)

\* Between two operations.
MapSound(m) == /\ StoreSound(m)
               /\ m.b.free = Cardinality(Erased(m))
               /\ m.tActive # NoSblk => m.b.wp[m.tActive] > 0
               /\ m.tActive = NoSblk => Erased(m) = Sblks

\* Between tp_alloc and the write.  A GC that moved nothing leaves the active superblock
\* erased too, and free_sblk_cnt does not count that one.
Opened(m) == /\ StoreSound(m)
             /\ m.tActive # NoSblk /\ m.b.wp[m.tActive] < PagesPerSblk
             /\ m.b.free = Cardinality(Erased(m) \ {m.tActive})

-----------------------------------------------------------------------------
\* The constants, as the proofs use them.
LEMMA Geometry ==
    /\ PagesPerSblk \in Nat /\ PagesPerSblk > 0
    /\ Sblks \subseteq Nat /\ NoSblk \notin Sblks /\ NoSblk \in Int
    /\ SSblk \in Sblks /\ SSblk \in Nat /\ ESblk \in Nat /\ ESblk >= SSblk + 2
    /\ IsFiniteSet(Sblks) /\ Cardinality(Sblks) = ESblk - SSblk + 1
    /\ IsFiniteSet(TPages) /\ Cardinality(TPages) = NrTPages /\ NrTPages \in Nat
    /\ 0 \in TPages
    /\ NoPpa \notin Pages
<1>1. SSblk \in Nat /\ ESblk \in Nat /\ ESblk >= SSblk + 2 /\ PagesPerSblk \in Nat \ {0}
  BY BlockMgrAssumption
<1>2. Sblks \subseteq Nat /\ NoSblk \notin Sblks /\ NoSblk \in Int /\ SSblk \in Sblks
  BY <1>1 DEF Sblks, NoSblk
<1>3. IsFiniteSet(Sblks) /\ Cardinality(Sblks) = ESblk - SSblk + 1
  BY <1>1, FS_Interval DEF Sblks
<1>4. NrTPages \in Nat /\ NrTPages > 0
  BY MapPagesAssumption
<1>5. IsFiniteSet(TPages) /\ Cardinality(TPages) = NrTPages /\ 0 \in TPages
  BY <1>4, FS_Interval DEF TPages
<1>6. NoPpa \notin Pages
  BY <1>2 DEF NoPpa, Pages
<1> QED BY <1>1, <1>2, <1>3, <1>4, <1>5, <1>6

\* The valid pages of a superblock are finitely many.
LEMMA ValidFinite ==
    ASSUME NEW m, m \in MapStore, NEW i \in Sblks
    PROVE  IsFiniteSet(ValidOf(m, i)) /\ Cardinality(ValidOf(m, i)) \in Nat
<1>1. IsFiniteSet(Offsets)
  BY Geometry, FS_Interval DEF Offsets
<1> DEFINE page == [o \in Offsets |-> <<i, o>>]
           Row == { <<i, o>> : o \in Offsets }
<1>2. IsFiniteSet(Row)
  <2>1. page \in Surjection(Offsets, Row)
    BY DEF Surjection
  <2> QED BY <1>1, <2>1, FS_Surjection
<1>3. ValidOf(m, i) \subseteq Row
  <2> SUFFICES ASSUME NEW p \in ValidOf(m, i) PROVE p \in Row
    OBVIOUS
  <2>1. p \in Pages /\ p[1] = i
    BY DEF ValidOf, MapStore
  <2> QED BY <2>1 DEF Pages
<1> HIDE DEF Row
<1> QED BY <1>2, <1>3, FS_Subset, FS_CardinalityType

-----------------------------------------------------------------------------
\* m is a record with the fields of a store, b one with those of a partition.
IsStore(m) == m = [b |-> m.b, valid |-> m.valid, oob |-> m.oob, dev |-> m.dev,
                   tppa |-> m.tppa, tActive |-> m.tActive, tReserve |-> m.tReserve,
                   refused |-> m.refused, aborted |-> m.aborted]

IsPartition(b) == b = [wp |-> b.wp, vcnt |-> b.vcnt, rsv |-> b.rsv,
                       active |-> b.active, free |-> b.free]

\* The state of the mapping pages on flash, field by field.
LEMMA StoreFields ==
    ASSUME NEW m
    PROVE  m \in MapStore <=>
              /\ IsStore(m) /\ m.b \in Partition /\ m.valid \subseteq Pages
              /\ m.oob \in [Pages -> TPages] /\ m.dev \in Dev!Device
              /\ m.tppa \in [TPages -> Pages \cup {NoPpa}]
              /\ m.tActive \in Sblks \cup {NoSblk} /\ m.tReserve \in Sblks
              /\ m.refused \in BOOLEAN /\ m.aborted \in BOOLEAN
BY DEF MapStore, IsStore

\* The counters of the MAP partition, field by field.
LEMMA PartitionFields ==
    ASSUME NEW b
    PROVE  b \in Partition <=>
              /\ IsPartition(b) /\ b.wp \in [Sblks -> 0 .. PagesPerSblk]
              /\ b.vcnt \in [Sblks -> Nat] /\ b.rsv \in Sblks
              /\ b.active \in Sblks \cup {NoSblk} /\ b.free \in 0 .. ESblk - SSblk + 1
BY DEF Partition, IsPartition

IsDevice(d) == d = [state |-> d.state, wp |-> d.wp]

\* The device, field by field.
LEMMA DeviceFields ==
    ASSUME NEW d
    PROVE  d \in Dev!Device <=>
              /\ IsDevice(d) /\ d.state \in [Sblks -> SUBSET Offsets]
              /\ d.wp \in [Sblks -> 0 .. PagesPerSblk]
BY DEF Dev!Device, Dev!Offsets, IsDevice, Offsets

(***************************************************************************)
(* invalidate_page of a mapping page that has a copy.                      *)
(***************************************************************************)
LEMMA InvalidateFields ==
    ASSUME NEW m, IsStore(m), IsPartition(m.b), NEW c, NEW x, x = invalidate_tpage(m, c)
    PROVE  /\ IsStore(x) /\ IsPartition(x.b)
           /\ x.b.wp = m.b.wp /\ x.b.vcnt = [m.b.vcnt EXCEPT ![m.tppa[c][1]] = @ - 1]
           /\ x.b.rsv = m.b.rsv /\ x.b.active = m.b.active /\ x.b.free = m.b.free
           /\ x.valid = m.valid \ {m.tppa[c]} /\ x.oob = m.oob /\ x.dev = m.dev
           /\ x.tppa = [m.tppa EXCEPT ![c] = NoPpa]
           /\ x.tActive = m.tActive /\ x.tReserve = m.tReserve
           /\ x.refused = m.refused /\ x.aborted = m.aborted
BY DEF invalidate_tpage, IsStore, IsPartition

\* invalidate_tpage takes exactly one mapping page off the flash.
LEMMA InvalidateSound ==
    ASSUME NEW m, MapSound(m), NEW c \in TPages, OnFlash(m, c),
           NEW x, x = invalidate_tpage(m, c)
    PROVE  /\ MapSound(x) /\ x.aborted = m.aborted
           /\ ~OnFlash(x, c) /\ \A d \in TPages : d # c => (OnFlash(x, d) <=> OnFlash(m, d))
<1> DEFINE g == m.tppa[c]
           s == g[1]
<1>1. /\ m \in MapStore /\ Linked(m) /\ InStep(m) /\ ReserveClear(m)
      /\ ValidCounted(m) /\ FullOrEmpty(m) /\ SearchAt(m)
      /\ m.b.free = Cardinality(Erased(m))
      /\ m.tActive # NoSblk => m.b.wp[m.tActive] > 0
      /\ m.tActive = NoSblk => Erased(m) = Sblks
  BY DEF MapSound, StoreSound
<1>2. /\ IsStore(x) /\ IsPartition(x.b)
      /\ x.b.wp = m.b.wp /\ x.b.vcnt = [m.b.vcnt EXCEPT ![s] = @ - 1]
      /\ x.b.rsv = m.b.rsv /\ x.b.active = m.b.active /\ x.b.free = m.b.free
      /\ x.valid = m.valid \ {g} /\ x.oob = m.oob /\ x.dev = m.dev
      /\ x.tppa = [m.tppa EXCEPT ![c] = NoPpa]
      /\ x.tActive = m.tActive /\ x.tReserve = m.tReserve
      /\ x.refused = m.refused /\ x.aborted = m.aborted
  <2>1. IsStore(m) /\ IsPartition(m.b)
    BY <1>1, StoreFields, PartitionFields
  <2> QED BY <2>1, InvalidateFields
<1>3. /\ m.valid \subseteq Pages /\ m.tppa \in [TPages -> Pages \cup {NoPpa}]
      /\ m.oob \in [Pages -> TPages] /\ m.b.vcnt \in [Sblks -> Nat] /\ m.b \in Partition
  BY <1>1, StoreFields, PartitionFields
<1>4. g \in m.valid /\ g \in Pages /\ m.oob[g] = c /\ s \in Sblks
  BY <1>1, <1>3 DEF Linked, Pages
<1>5. ValidOf(x, s) = ValidOf(m, s) \ {g} /\ g \in ValidOf(m, s)
      /\ \A i \in Sblks : i # s => ValidOf(x, i) = ValidOf(m, i)
  BY <1>2, <1>4 DEF ValidOf
<1>6. Cardinality(ValidOf(x, s)) = m.b.vcnt[s] - 1 /\ m.b.vcnt[s] - 1 \in Nat
  <2>1. IsFiniteSet(ValidOf(m, s)) /\ IsFiniteSet(ValidOf(x, s)) /\ m.b.vcnt[s] = Cardinality(ValidOf(m, s))
    BY <1>1, <1>4, <1>5, ValidFinite, FS_RemoveElement DEF ValidCounted
  <2>2. Cardinality(ValidOf(x, s)) = Cardinality(ValidOf(m, s)) - 1
    BY <1>5, <2>1, FS_RemoveElement
  <2>3. Cardinality(ValidOf(x, s)) \in Nat
    BY <2>1, FS_CardinalityType
  <2> QED BY <2>1, <2>2, <2>3
<1>7. ValidCounted(x)
  BY <1>1, <1>2, <1>3, <1>4, <1>5, <1>6 DEF ValidCounted
<1>8. x \in MapStore
  <2>1. x.b.vcnt \in [Sblks -> Nat] /\ x.tppa \in [TPages -> Pages \cup {NoPpa}]
        /\ x.valid \subseteq Pages
    BY <1>2, <1>3, <1>4, <1>6
  <2> QED BY <1>1, <1>2, <2>1, StoreFields, PartitionFields
<1>9. Linked(x)
  <2>1. ASSUME NEW d \in TPages, OnFlash(x, d)
        PROVE  x.tppa[d] \in x.valid /\ x.oob[x.tppa[d]] = d
    <3>1. d # c /\ x.tppa[d] = m.tppa[d] /\ OnFlash(m, d)
      BY <1>2, <1>3, <2>1 DEF OnFlash
    <3> QED BY <1>1, <1>2, <1>4, <3>1 DEF Linked
  <2>2. ASSUME NEW p \in x.valid PROVE x.tppa[x.oob[p]] = p /\ p[2] < x.b.wp[p[1]]
    <3>1. p \in m.valid /\ p # g /\ p \in Pages /\ m.oob[p] \in TPages
      BY <1>2, <1>3
    <3>2. m.oob[p] # c
      BY <1>1, <3>1 DEF Linked
    <3> QED BY <1>1, <1>2, <1>3, <3>1, <3>2 DEF Linked
  <2> QED BY <2>1, <2>2 DEF Linked
<1>10. InStep(x) /\ ReserveClear(x) /\ FullOrEmpty(x) /\ SearchAt(x) /\ Erased(x) = Erased(m)
  BY <1>1, <1>2 DEF InStep, ReserveClear, FullOrEmpty, SearchAt, Erased
<1>11. MapSound(x)
  BY <1>1, <1>2, <1>7, <1>8, <1>9, <1>10 DEF MapSound, StoreSound
<1>12. ~OnFlash(x, c) /\ \A d \in TPages : d # c => (OnFlash(x, d) <=> OnFlash(m, d))
  BY <1>2, <1>3 DEF OnFlash
<1> QED BY <1>2, <1>11, <1>12

-----------------------------------------------------------------------------
(***************************************************************************)
(* Facts about numbers, ranks and runs.                                    *)
(***************************************************************************)
LEMMA NatHasMin ==
    ASSUME NEW T \in SUBSET Nat, T # {} PROVE \E x \in T : \A y \in T : x <= y
<1>1. PICK x \in T : \A y \in T : ~(<<y, x>> \in OpToRel(<, Nat))
  BY NatLessThanWellFounded, WFMin
<1>2. \A y \in T : ~(y < x)
  BY <1>1 DEF OpToRel
<1> QED BY <1>2

\* Min of a non-empty set of naturals is its least element.
LEMMA MinOfNats ==
    ASSUME NEW T \in SUBSET Nat, T # {} PROVE Min(T) \in T /\ \A y \in T : Min(T) <= y
BY NatHasMin DEF Min

\* GC numbers the pages it moves from 0, without gaps past the last and each once.
LEMMA RankFacts ==
    ASSUME NEW S \in SUBSET Offsets
    PROVE  /\ IsFiniteSet(S) /\ Cardinality(S) \in Nat /\ Cardinality(S) <= PagesPerSblk
           /\ \A o \in S : Rank(S, o) \in Nat /\ Rank(S, o) < Cardinality(S)
           /\ \A o, q \in S : Rank(S, o) = Rank(S, q) => o = q
<1>1. IsFiniteSet(Offsets) /\ Cardinality(Offsets) = PagesPerSblk
  <2>1. PagesPerSblk \in Nat /\ 0 \in Int /\ PagesPerSblk - 1 \in Int /\ ~(0 > PagesPerSblk - 1)
    BY Geometry
  <2> QED BY <2>1, FS_Interval DEF Offsets
<1>2. IsFiniteSet(S) /\ Cardinality(S) \in Nat /\ Cardinality(S) <= PagesPerSblk
  BY <1>1, FS_Subset, FS_CardinalityType
<1> DEFINE Below(o) == { q \in S : q < o }
<1>3. \A o \in S : o \in Nat /\ Below(o) \subseteq S
  BY DEF Offsets
<1>4. \A o \in S : Rank(S, o) = Cardinality(Below(o)) /\ o \notin Below(o)
  BY <1>3 DEF Rank
<1>5. \A o, q \in S : o < q => Below(o) \cup {o} \subseteq Below(q)
  BY <1>3
<1> HIDE DEF Below
<1>6. ASSUME NEW o \in S
      PROVE  /\ IsFiniteSet(Below(o)) /\ Rank(S, o) \in Nat
             /\ Cardinality(Below(o) \cup {o}) = Rank(S, o) + 1
  <2>1. IsFiniteSet(Below(o))
    BY <1>2, <1>3, FS_Subset
  <2>2. Cardinality(Below(o)) \in Nat
    BY <2>1, FS_CardinalityType
  <2>3. Cardinality(Below(o) \cup {o}) = Cardinality(Below(o)) + 1
    BY <1>4, <2>1, FS_AddElement
  <2> QED BY <1>4, <2>1, <2>2, <2>3
<1>7. ASSUME NEW o \in S PROVE Rank(S, o) < Cardinality(S)
  <2>1. Below(o) \cup {o} \in SUBSET S
    BY <1>3
  <2>2. Cardinality(Below(o) \cup {o}) <= Cardinality(S)
    BY <1>2, <2>1, FS_Subset
  <2>3. Rank(S, o) \in Nat /\ Cardinality(Below(o) \cup {o}) = Rank(S, o) + 1
    BY <1>6
  <2> QED BY <1>2, <2>2, <2>3
<1>8. ASSUME NEW o \in S, NEW q \in S, o < q PROVE Rank(S, o) < Rank(S, q)
  <2>1. Cardinality(Below(o) \cup {o}) <= Cardinality(Below(q))
    BY <1>5, <1>6, <1>8, FS_Subset
  <2>2. /\ Rank(S, o) \in Nat /\ Cardinality(Below(o) \cup {o}) = Rank(S, o) + 1
        /\ Rank(S, q) \in Nat /\ Cardinality(Below(q)) = Rank(S, q)
    BY <1>4, <1>6
  <2> QED BY <2>1, <2>2
<1>9. ASSUME NEW o \in S, NEW q \in S, Rank(S, o) = Rank(S, q) PROVE o = q
  <2>1. o < q \/ q < o \/ o = q
    BY <1>3
  <2>2. Rank(S, o) \in Nat /\ Rank(S, q) \in Nat
    BY <1>6
  <2>3. ~(o < q) /\ ~(q < o)
    BY <1>8, <1>9, <2>2
  <2> QED BY <2>1, <2>3
<1> QED BY <1>2, <1>6, <1>7, <1>9

\* A run that starts at the line's write pointer, on pages that are not programmed.
LEMMA RunAccepted ==
    ASSUME NEW d, NEW l, NEW o \in Nat, NEW n \in Nat, d.wp[l] = o,
           \A j \in 0 .. n - 1 : o + j \notin d.state[l]
    PROVE  Dev!Accepted(d, l, o, n) = n
<1> DEFINE Stops(k) == /\ \A j \in 0 .. k - 1 : o + j \notin d.state[l]
                       /\ k < n => o + k \in d.state[l]
<1>1. n \in 0 .. n /\ Stops(n)
  OBVIOUS
<1>2. \A k \in 0 .. n : Stops(k) => k = n
  <2> SUFFICES ASSUME NEW k \in 0 .. n, Stops(k), k < n PROVE FALSE
    OBVIOUS
  <2>1. k \in 0 .. n - 1
    OBVIOUS
  <2> QED BY <2>1
<1>3. Dev!Accepted(d, l, o, n) = CHOOSE k \in 0 .. n : Stops(k)
  BY DEF Dev!Accepted
<1> HIDE DEF Stops
<1> QED BY <1>1, <1>2, <1>3

-----------------------------------------------------------------------------
(***************************************************************************)
(* tpage_gc.  get_gc_target returns a full superblock some page of which   *)
(* is invalid; what is valid in it fits in the reserve with room to spare. *)
(***************************************************************************)
LEMMA FewestIsCandidate ==
    ASSUME NEW b \in Partition, GcCandidates(b) # {}
    PROVE  /\ FewestValid(b) \in GcCandidates(b)
           /\ \A j \in GcCandidates(b) : b.vcnt[FewestValid(b)] <= b.vcnt[j]
<1> DEFINE G == GcCandidates(b)
           T == { b.vcnt[i] : i \in G }
           best == { i \in G : \A j \in G : b.vcnt[i] <= b.vcnt[j] }
<1>1. G \subseteq Sblks /\ Sblks \subseteq Nat /\ b.vcnt \in [Sblks -> Nat]
  BY Geometry, PartitionFields DEF GcCandidates
<1> HIDE DEF G
<1>2. T \in SUBSET Nat /\ T # {}
  BY <1>1 DEF G
<1>3. PICK x \in T : \A y \in T : x <= y
  BY <1>2, NatHasMin
<1>4. best # {} /\ best \in SUBSET Nat
  <2>1. PICK i \in G : b.vcnt[i] = x
    OBVIOUS
  <2>2. \A j \in G : b.vcnt[j] \in T
    OBVIOUS
  <2>3. i \in best
    BY <1>3, <2>1, <2>2
  <2> QED BY <1>1, <2>3
<1>5. Min(best) \in best
  BY <1>4, MinOfNats
<1> QED BY <1>5 DEF FewestValid, G

\* The victim of a GC is a full superblock that is not all valid and not the reserve.
LEMMA GcTarget ==
    ASSUME NEW m, m \in MapStore, NEW v, v = get_gc_target(m.b), v # NoSblk
    PROVE  /\ v \in Sblks /\ v # m.b.rsv /\ m.b.wp[v] = PagesPerSblk
           /\ m.b.vcnt[v] < PagesPerSblk
<1>1. m.b \in Partition /\ m.b.wp \in [Sblks -> 0 .. PagesPerSblk]
  BY StoreFields, PartitionFields
<1>2. GcCandidates(m.b) # {} /\ v = FewestValid(m.b)
      /\ m.b.vcnt[v] < m.b.wp[v] * UnitsPerPage
  BY DEF get_gc_target
<1>3. v \in GcCandidates(m.b)
  BY <1>1, <1>2, FewestIsCandidate
<1>4. v \in Sblks /\ v # m.b.rsv /\ m.b.wp[v] = PagesPerSblk
  BY <1>1, <1>3, Geometry DEF GcCandidates, check_full
<1> QED BY <1>2, <1>4, MapPagesAssumption, Geometry

\* Trimming a superblock erases its pages and nothing else.
LEMMA TrimFields ==
    ASSUME NEW d, IsDevice(d), NEW l, NEW x, x = Dev!ssd_trim_block(d, l)
    PROVE  /\ IsDevice(x)
           /\ x.state = [d.state EXCEPT ![l] = {}] /\ x.wp = [d.wp EXCEPT ![l] = 0]
BY DEF Dev!ssd_trim_block, IsDevice

\* What the GC of victim v leaves, field by field: r is the old reserve, which took n pages.
GcLeaves(m, v, r, n, x) ==
    /\ IsStore(x) /\ IsPartition(x.b) /\ IsDevice(x.dev)
    /\ x.b.wp \in [Sblks -> 0 .. PagesPerSblk] /\ x.b.vcnt \in [Sblks -> Nat]
    /\ x.dev.state \in [Sblks -> SUBSET Offsets]
    /\ x.dev.wp \in [Sblks -> 0 .. PagesPerSblk]
    /\ \A i \in Sblks : x.b.wp[i] = IF i = v THEN 0 ELSE IF i = r THEN n ELSE m.b.wp[i]
    /\ \A i \in Sblks : x.b.vcnt[i] = IF i = v THEN 0 ELSE IF i = r
                                      THEN m.b.vcnt[r] + n ELSE m.b.vcnt[i]
    /\ \A i \in Sblks : x.dev.wp[i] = IF i = v THEN 0 ELSE IF i = r THEN n
                                      ELSE m.dev.wp[i]
    /\ \A i \in Sblks : x.dev.state[i] = IF i = v THEN {} ELSE IF i = r
                                         THEN 0 .. n - 1 ELSE m.dev.state[i]
    /\ x.b.rsv = v /\ x.b.active = m.b.active /\ x.b.free = m.b.free
    /\ x.valid = gc_valid(m, v) /\ x.oob = gc_oob(m, v) /\ x.tppa = gc_tppa(m, v)
    /\ x.tActive = r /\ x.tReserve = v
    /\ x.refused = FALSE /\ x.aborted = m.aborted

\* What a GC of mapping pages leaves in each field.
LEMMA GcFields ==
    ASSUME NEW m, StoreSound(m),
           NEW v, v = get_gc_target(m.b), v # NoSblk,
           NEW r, r = m.tReserve, NEW n, n = Cardinality(Moved(m, v)),
           NEW x, x = tpage_gc(m)
    PROVE  GcLeaves(m, v, r, n, x)
<1>1. /\ m \in MapStore /\ IsStore(m) /\ m.b \in Partition /\ IsPartition(m.b)
      /\ m.dev \in Dev!Device /\ m.valid \subseteq Pages
      /\ m.b.wp \in [Sblks -> 0 .. PagesPerSblk] /\ m.b.vcnt \in [Sblks -> Nat]
  BY StoreFields, PartitionFields DEF StoreSound
<1>2. /\ v \in Sblks /\ r \in Sblks /\ v # r /\ m.b.wp[r] = 0
      /\ m.b.wp[v] = PagesPerSblk
  BY <1>1, GcTarget, StoreFields DEF StoreSound, ReserveClear
<1>3. Moved(m, v) \in SUBSET Offsets /\ n \in Nat
  <2>1. Moved(m, v) \in SUBSET Offsets
    BY DEF Moved
  <2> QED BY <2>1, RankFacts
<1>4. /\ m.dev.wp[r] = 0 /\ m.dev.state[r] = {} /\ m.dev.state[v] = 0 .. PagesPerSblk - 1
      /\ ~m.refused
  <2>1. /\ m.dev.wp[r] = m.b.wp[r] /\ m.dev.state[r] = 0 .. m.b.wp[r] - 1
        /\ m.dev.state[v] = 0 .. m.b.wp[v] - 1 /\ ~m.refused
    BY <1>2 DEF StoreSound, InStep
  <2>2. 0 .. 0 - 1 = {}
    OBVIOUS
  <2> QED BY <1>2, <2>1, <2>2
<1>5. Dev!Accepted(m.dev, r, 0, n) = n
  BY <1>3, <1>4, RunAccepted
<1>6. \A o \in Moved(m, v) : Dev!Readable(m.dev, v, o)
  BY <1>3, <1>4 DEF Dev!Readable, Offsets
<1>7. ASSUME NEW d, d = Dev!ssd_trim_block(Dev!WriteRun(m.dev, r, 0, n), v)
      PROVE  /\ IsDevice(d)
             /\ d.state = [m.dev.state EXCEPT ![r] = 0 .. n - 1, ![v] = {}]
             /\ d.wp = [m.dev.wp EXCEPT ![r] = n, ![v] = 0]
  <2>1. IsDevice(m.dev) /\ m.dev.state \in [Sblks -> SUBSET Offsets]
        /\ m.dev.wp \in [Sblks -> 0 .. PagesPerSblk]
    BY <1>1, DeviceFields
  <2>2. m.dev.wp[r] + n = n /\ m.dev.state[r] \cup (0 .. 0 + n - 1) = 0 .. n - 1
    BY <1>3, <1>4
  <2>3. ASSUME NEW w, w = Dev!WriteRun(m.dev, r, 0, n)
        PROVE  /\ IsDevice(w)
               /\ w.state = [m.dev.state EXCEPT ![r] = 0 .. n - 1]
               /\ w.wp = [m.dev.wp EXCEPT ![r] = n]
    <3>1. IsDevice(m.dev) /\ 0 \in Nat /\ n \in Nat
      BY <1>3, <2>1
    <3>2. /\ IsDevice(w)
          /\ w.state = [m.dev.state EXCEPT ![r] = @ \cup (0 .. 0 + n - 1)]
          /\ w.wp = [m.dev.wp EXCEPT ![r] = @ + n]
      BY <1>5, <2>3, <3>1 DEF Dev!WriteRun, IsDevice
    <3> QED BY <2>2, <3>2
  <2>4. PICK w : w = Dev!WriteRun(m.dev, r, 0, n)
    OBVIOUS
  <2>5. d = Dev!ssd_trim_block(w, v)
    BY <1>7, <2>4
  <2>6. /\ IsDevice(w)
        /\ w.state = [m.dev.state EXCEPT ![r] = 0 .. n - 1]
        /\ w.wp = [m.dev.wp EXCEPT ![r] = n]
    BY <2>3, <2>4
  <2>7. IsDevice(w)
    BY <2>6
  <2>8. IsDevice(d) /\ d.state = [w.state EXCEPT ![v] = {}] /\ d.wp = [w.wp EXCEPT ![v] = 0]
    BY <2>5, <2>7, TrimFields
  <2> QED BY <2>6, <2>8
<1>8. ASSUME NEW b, b = gc_partition(m, v)
      PROVE  /\ IsPartition(b)
             /\ b.wp = [m.b.wp EXCEPT ![r] = n, ![v] = 0]
             /\ b.vcnt = [m.b.vcnt EXCEPT ![r] = @ + n, ![v] = 0]
             /\ b.rsv = v /\ b.active = m.b.active /\ b.free = m.b.free
  <2>1. m.b.wp[r] + n = n
    BY <1>2, <1>3
  <2>2. ASSUME NEW f, f = Filled(m.b, r, n)
        PROVE  /\ IsPartition(f) /\ f.wp = [m.b.wp EXCEPT ![r] = n]
               /\ f.vcnt = [m.b.vcnt EXCEPT ![r] = @ + n]
               /\ f.active = m.b.active /\ f.free = m.b.free
    BY <1>1, <2>1, <2>2 DEF Filled, IsPartition
  <2>3. ASSUME NEW f, IsPartition(f), NEW g, g = trim_segment(f, v)
        PROVE  /\ IsPartition(g) /\ g.wp = [f.wp EXCEPT ![v] = 0]
               /\ g.vcnt = [f.vcnt EXCEPT ![v] = 0]
               /\ g.active = f.active /\ g.free = f.free
    BY <2>3 DEF trim_segment, IsPartition
  <2>4. ASSUME NEW g, IsPartition(g), b = change_reserve(g, v)
        PROVE  /\ IsPartition(b) /\ b.wp = g.wp /\ b.vcnt = g.vcnt
               /\ b.rsv = v /\ b.active = g.active /\ b.free = g.free
    BY <2>4 DEF change_reserve, IsPartition
  <2>5. b = change_reserve(trim_segment(Filled(m.b, r, n), v), v)
    BY <1>8 DEF gc_partition, gc_counters
  <2> QED BY <2>2, <2>3, <2>4, <2>5
<1>9. x = [m EXCEPT !.b = gc_partition(m, v), !.valid = gc_valid(m, v), !.oob = gc_oob(m, v),
                    !.tppa = gc_tppa(m, v),
                    !.dev = Dev!ssd_trim_block(Dev!WriteRun(m.dev, r, 0, n), v),
                    !.refused = @ \/ Dev!Accepted(m.dev, r, 0, n) # n,
                    !.tActive = r, !.tReserve = v]
  BY <1>2, <1>6 DEF tpage_gc
<1>10. /\ IsStore(x) /\ x.b = gc_partition(m, v)
       /\ x.valid = gc_valid(m, v) /\ x.oob = gc_oob(m, v) /\ x.tppa = gc_tppa(m, v)
       /\ x.dev = Dev!ssd_trim_block(Dev!WriteRun(m.dev, r, 0, n), v)
       /\ x.tActive = r /\ x.tReserve = v
       /\ x.refused = (m.refused \/ Dev!Accepted(m.dev, r, 0, n) # n) /\ x.aborted = m.aborted
  BY <1>1, <1>9 DEF IsStore
<1>11. x.refused = FALSE
  BY <1>4, <1>5, <1>10
<1>12. n \in 0 .. PagesPerSblk /\ 0 .. n - 1 \in SUBSET Offsets
  <2>1. n <= PagesPerSblk /\ PagesPerSblk \in Nat
    BY <1>3, RankFacts, Geometry
  <2> QED BY <1>3, <2>1 DEF Offsets
<1>13. /\ IsPartition(x.b)
       /\ x.b.wp = [m.b.wp EXCEPT ![r] = n, ![v] = 0]
       /\ x.b.vcnt = [m.b.vcnt EXCEPT ![r] = @ + n, ![v] = 0]
       /\ x.b.rsv = v /\ x.b.active = m.b.active /\ x.b.free = m.b.free
  BY <1>8, <1>10
<1>14. /\ IsDevice(x.dev)
       /\ x.dev.state = [m.dev.state EXCEPT ![r] = 0 .. n - 1, ![v] = {}]
       /\ x.dev.wp = [m.dev.wp EXCEPT ![r] = n, ![v] = 0]
  BY <1>7, <1>10
<1>15. /\ x.b.wp \in [Sblks -> 0 .. PagesPerSblk]
       /\ \A i \in Sblks : x.b.wp[i] = IF i = v THEN 0 ELSE IF i = r THEN n ELSE m.b.wp[i]
  BY <1>1, <1>2, <1>12, <1>13, Geometry
<1>16. /\ x.b.vcnt \in [Sblks -> Nat]
       /\ \A i \in Sblks : x.b.vcnt[i] = IF i = v THEN 0 ELSE IF i = r THEN m.b.vcnt[r] + n
                                          ELSE m.b.vcnt[i]
  BY <1>1, <1>2, <1>3, <1>13
<1>17. /\ x.dev.wp \in [Sblks -> 0 .. PagesPerSblk]
       /\ x.dev.state \in [Sblks -> SUBSET Offsets]
       /\ \A i \in Sblks : x.dev.wp[i] = IF i = v THEN 0 ELSE IF i = r THEN n ELSE m.dev.wp[i]
       /\ \A i \in Sblks : x.dev.state[i] = IF i = v THEN {} ELSE IF i = r THEN 0 .. n - 1
                                            ELSE m.dev.state[i]
  <2>1. /\ m.dev.state \in [Sblks -> SUBSET Offsets]
        /\ m.dev.wp \in [Sblks -> 0 .. PagesPerSblk]
    BY <1>1, DeviceFields
  <2>2. 0 \in 0 .. PagesPerSblk
    BY Geometry
  <2>3. [m.dev.wp EXCEPT ![r] = n] \in [Sblks -> 0 .. PagesPerSblk]
    BY <1>2, <1>12, <2>1
  <2>4. [m.dev.state EXCEPT ![r] = 0 .. n - 1] \in [Sblks -> SUBSET Offsets]
    BY <1>2, <1>12, <2>1
  <2>5. x.dev.wp \in [Sblks -> 0 .. PagesPerSblk] /\ x.dev.state \in [Sblks -> SUBSET Offsets]
    BY <1>2, <1>14, <2>2, <2>3, <2>4
  <2>6. \A i \in Sblks : x.dev.wp[i] = IF i = v THEN 0 ELSE IF i = r THEN n ELSE m.dev.wp[i]
    BY <1>2, <1>14, <2>1
  <2>7. \A i \in Sblks : x.dev.state[i] = IF i = v THEN {} ELSE IF i = r THEN 0 .. n - 1
                                          ELSE m.dev.state[i]
    BY <1>2, <1>14, <2>1
  <2> QED BY <2>5, <2>6, <2>7
<1> QED BY <1>10, <1>11, <1>13, <1>14, <1>15, <1>16, <1>17 DEF GcLeaves

\* The offsets a GC moves are the valid pages of its victim.
LEMMA MovedCount ==
    ASSUME NEW m, m \in MapStore, NEW v \in Sblks
    PROVE  /\ Moved(m, v) \in SUBSET Offsets
           /\ Cardinality(Moved(m, v)) = Cardinality(ValidOf(m, v))
<1> DEFINE S == Moved(m, v)
           at == [o \in S |-> <<v, o>>]
<1>1. S \in SUBSET Offsets
  BY DEF Moved
<1>2. IsFiniteSet(S)
  BY <1>1, RankFacts
<1>3. at \in Bijection(S, ValidOf(m, v))
  <2>1. \A o \in S : at[o] \in ValidOf(m, v)
    BY DEF Moved, ValidOf
  <2>2. \A p \in ValidOf(m, v) : p[2] \in S /\ at[p[2]] = p
    <3> SUFFICES ASSUME NEW p \in ValidOf(m, v) PROVE p[2] \in S /\ at[p[2]] = p
      OBVIOUS
    <3>1. p \in m.valid /\ p \in Pages /\ p[1] = v
      BY StoreFields DEF ValidOf
    <3>2. p = <<v, p[2]>> /\ p[2] \in Offsets
      BY <3>1 DEF Pages
    <3> QED BY <3>1, <3>2 DEF Moved
  <2>3. \A o, q \in S : at[o] = at[q] => o = q
    OBVIOUS
  <2> QED BY <2>1, <2>2, <2>3 DEF Bijection, Injection, Surjection, IsInjective
<1>4. ExistsBijection(S, ValidOf(m, v))
  BY <1>3 DEF ExistsBijection
<1> QED BY <1>1, <1>2, <1>4, FS_Bijection

\* Each valid page of the victim gets a page of its own in the reserve.
LEMMA DestFacts ==
    ASSUME NEW m, StoreSound(m), NEW v \in Sblks,
           NEW r, r = m.tReserve, NEW n, n = Cardinality(Moved(m, v))
    PROVE  /\ n \in 0 .. PagesPerSblk
           /\ \A o \in Moved(m, v) :
                 /\ Dest(m, v, o) \in Pages
                 /\ Dest(m, v, o)[1] = r /\ Dest(m, v, o)[2] < n
           /\ \A o, q \in Moved(m, v) : Dest(m, v, o) = Dest(m, v, q) => o = q
           /\ \A p \in m.valid : p[1] # r
<1>1. m \in MapStore /\ r \in Sblks /\ m.b.wp[r] = 0 /\ m.valid \subseteq Pages
  BY StoreFields DEF StoreSound, ReserveClear
<1>2. Moved(m, v) \in SUBSET Offsets
  BY <1>1, MovedCount
<1>3. n \in Nat /\ n <= PagesPerSblk /\ PagesPerSblk \in Nat
  BY <1>2, RankFacts, Geometry
<1>4. ASSUME NEW o \in Moved(m, v)
      PROVE  Dest(m, v, o) = <<r, Rank(Moved(m, v), o)>>
  <2>1. Rank(Moved(m, v), o) \in Nat
    BY <1>2, RankFacts
  <2> QED BY <1>1, <2>1 DEF Dest
<1>5. ASSUME NEW o \in Moved(m, v)
      PROVE  /\ Dest(m, v, o) \in Pages
             /\ Dest(m, v, o)[1] = r /\ Dest(m, v, o)[2] < n
  <2>1. Rank(Moved(m, v), o) \in Nat /\ Rank(Moved(m, v), o) < n
    BY <1>2, RankFacts
  <2>2. Rank(Moved(m, v), o) \in Offsets
    BY <1>3, <2>1 DEF Offsets
  <2> QED BY <1>1, <1>4, <2>1, <2>2 DEF Pages
<1>6. ASSUME NEW o \in Moved(m, v), NEW q \in Moved(m, v), Dest(m, v, o) = Dest(m, v, q)
      PROVE  o = q
  <2>1. Rank(Moved(m, v), o) = Rank(Moved(m, v), q)
    BY <1>4, <1>6
  <2> QED BY <1>2, <2>1, RankFacts
<1>7. \A p \in m.valid : p[1] # r
  <2> SUFFICES ASSUME NEW p \in m.valid, p[1] = r PROVE FALSE
    OBVIOUS
  <2>1. p[2] < 0 /\ p[2] \in Nat
    BY <1>1 DEF StoreSound, Linked, Pages, Offsets
  <2> QED BY <2>1
<1> QED BY <1>3, <1>5, <1>6, <1>7

\* Where t_ppa and the oob of the pages are after the GC.
LEMMA GcLinks ==
    ASSUME NEW m, StoreSound(m), NEW v \in Sblks, v # m.tReserve
    PROVE  /\ gc_oob(m, v) \in [Pages -> TPages]
           /\ gc_tppa(m, v) \in [TPages -> Pages \cup {NoPpa}]
           /\ \A o \in Moved(m, v) : gc_oob(m, v)[Dest(m, v, o)] = m.oob[<<v, o>>]
           /\ \A p \in m.valid : p[1] # v => gc_oob(m, v)[p] = m.oob[p]
           /\ \A c \in TPages :
                 IF OnFlash(m, c) /\ m.tppa[c][1] = v
                 THEN /\ m.tppa[c][2] \in Moved(m, v)
                      /\ gc_tppa(m, v)[c] = Dest(m, v, m.tppa[c][2])
                 ELSE gc_tppa(m, v)[c] = m.tppa[c]
<1> DEFINE M == Moved(m, v)
           D(o) == Dest(m, v, o)
           r == m.tReserve
<1>1. /\ m \in MapStore /\ Linked(m) /\ m.valid \subseteq Pages
      /\ m.oob \in [Pages -> TPages] /\ m.tppa \in [TPages -> Pages \cup {NoPpa}]
  BY StoreFields DEF StoreSound
<1>2. \A o \in M : <<v, o>> \in m.valid /\ o \in Nat /\ <<v, o>> \in Pages
  BY <1>1 DEF Moved, Offsets
<1>3. /\ \A o \in M : D(o) \in Pages /\ D(o)[1] = r
      /\ \A o, q \in M : D(o) = D(q) => o = q
      /\ \A p \in m.valid : p[1] # r
  BY DestFacts
<1>4. \A o \in M : m.oob[<<v, o>>] \in TPages
  BY <1>1, <1>2
<1> HIDE DEF M, D, r
<1>5. gc_oob(m, v) = [p \in Pages |-> IF p[1] = v THEN 0
                                     ELSE IF \E o \in M : D(o) = p
                                     THEN m.oob[<<v, CHOOSE o \in M : D(o) = p>>]
                                     ELSE m.oob[p]]
  BY DEF gc_oob, M, D
<1>6. ASSUME NEW o \in M PROVE (CHOOSE q \in M : D(q) = D(o)) = o
  BY <1>3
<1>7. ASSUME NEW o \in M PROVE gc_oob(m, v)[D(o)] = m.oob[<<v, o>>]
  <2>1. D(o) \in Pages /\ D(o)[1] # v
    BY <1>3 DEF r
  <2> QED BY <1>5, <1>6, <2>1
<1>8. gc_oob(m, v) \in [Pages -> TPages]
  <2>1. 0 \in TPages
    BY Geometry
  <2>2. ASSUME NEW p \in Pages, \E o \in M : D(o) = p
        PROVE  m.oob[<<v, CHOOSE o \in M : D(o) = p>>] \in TPages
    BY <1>4, <2>2
  <2> QED BY <1>1, <1>5, <2>1, <2>2
<1>9. ASSUME NEW p \in m.valid, p[1] # v PROVE gc_oob(m, v)[p] = m.oob[p]
  <2>1. ~\E o \in M : D(o) = p
    BY <1>3
  <2> QED BY <1>1, <1>5, <1>9, <2>1
<1>10. ASSUME NEW c \in TPages, NEW o \in MovedOf(m, v, c)
       PROVE  OnFlash(m, c) /\ m.tppa[c] = <<v, o>> /\ o \in M
  <2>1. o \in M /\ m.oob[<<v, o>>] = c
    BY DEF MovedOf, M
  <2>2. m.tppa[c] = <<v, o>> /\ <<v, o>> \in Pages
    BY <1>1, <1>2, <2>1 DEF Linked
  <2> QED BY <2>1, <2>2, Geometry DEF OnFlash
<1>11. ASSUME NEW c \in TPages, OnFlash(m, c), m.tppa[c][1] = v
       PROVE  /\ m.tppa[c][2] \in M /\ MovedOf(m, v, c) = {m.tppa[c][2]}
              /\ gc_tppa(m, v)[c] = D(m.tppa[c][2])
  <2>1. m.tppa[c] \in m.valid /\ m.tppa[c] \in Pages /\ m.oob[m.tppa[c]] = c
    BY <1>1, <1>11 DEF Linked
  <2>2. m.tppa[c] = <<v, m.tppa[c][2]>> /\ m.tppa[c][2] \in Offsets
    BY <1>11, <2>1 DEF Pages
  <2>3. m.tppa[c][2] \in MovedOf(m, v, c) /\ m.tppa[c][2] \in M
    BY <2>1, <2>2 DEF MovedOf, Moved, M
  <2>4. \A o \in MovedOf(m, v, c) : o = m.tppa[c][2]
    BY <1>10, <2>2
  <2>5. MovedOf(m, v, c) = {m.tppa[c][2]} /\ MovedOf(m, v, c) # {}
    BY <2>3, <2>4
  <2>6. Max({m.tppa[c][2]}) = m.tppa[c][2]
    <3>1. m.tppa[c][2] \in Nat
      BY <2>2 DEF Offsets
    <3> QED BY <3>1 DEF Max
  <2> QED BY <2>3, <2>5, <2>6 DEF gc_tppa, D
<1>12. ASSUME NEW c \in TPages, ~(OnFlash(m, c) /\ m.tppa[c][1] = v)
       PROVE  gc_tppa(m, v)[c] = m.tppa[c]
  <2>1. MovedOf(m, v, c) = {}
    BY <1>10, <1>12
  <2> QED BY <2>1 DEF gc_tppa
<1>13. gc_tppa(m, v) \in [TPages -> Pages \cup {NoPpa}]
  <2>1. ASSUME NEW c \in TPages PROVE gc_tppa(m, v)[c] \in Pages \cup {NoPpa}
    BY <1>1, <1>3, <1>11, <1>12
  <2> QED BY <2>1 DEF gc_tppa
<1> QED BY <1>7, <1>8, <1>9, <1>11, <1>12, <1>13 DEF M, D

(***************************************************************************)
(* A GC that finds a victim leaves a superblock open, every page where     *)
(* t_ppa says, and the same mapping pages on flash.                        *)
(***************************************************************************)
LEMMA GcSound ==
    ASSUME NEW m, MapSound(m), isgc_needed(m.b),
           m.tActive # NoSblk => m.b.wp[m.tActive] = PagesPerSblk,
           NEW v, v = get_gc_target(m.b), v # NoSblk,
           NEW r, r = m.tReserve, NEW n, n = Cardinality(Moved(m, v)),
           NEW x, x = tpage_gc(m)
    PROVE  /\ Opened(x) /\ x.aborted = m.aborted
           /\ \A c \in TPages : OnFlash(x, c) <=> OnFlash(m, c)
<1> DEFINE M == Moved(m, v)
           D(o) == Dest(m, v, o)
<1>1. /\ m \in MapStore /\ StoreSound(m) /\ Linked(m) /\ InStep(m) /\ ReserveClear(m)
      /\ ValidCounted(m) /\ FullOrEmpty(m) /\ m.b.free = Cardinality(Erased(m))
  BY DEF MapSound, StoreSound
<1>2. /\ m.b \in Partition /\ m.valid \subseteq Pages /\ r \in Sblks
      /\ m.b.wp \in [Sblks -> 0 .. PagesPerSblk] /\ m.b.vcnt \in [Sblks -> Nat]
      /\ m.oob \in [Pages -> TPages] /\ m.tppa \in [TPages -> Pages \cup {NoPpa}]
      /\ m.dev.state \in [Sblks -> SUBSET Offsets]
      /\ m.dev.wp \in [Sblks -> 0 .. PagesPerSblk]
      /\ m.b.free \in Nat /\ m.b.active \in Sblks \cup {NoSblk} /\ m.aborted \in BOOLEAN
      /\ m.b.free \in 0 .. ESblk - SSblk + 1
  BY <1>1, StoreFields, PartitionFields, DeviceFields
<1>3. /\ v \in Sblks /\ v # r /\ m.b.wp[v] = PagesPerSblk /\ m.b.wp[r] = 0
      /\ m.b.vcnt[v] < PagesPerSblk
  BY <1>1, GcTarget DEF ReserveClear
<1>0. GcLeaves(m, v, r, n, x)
  BY <1>1, GcFields
<1>4. /\ IsStore(x) /\ IsPartition(x.b) /\ IsDevice(x.dev)
      /\ x.b.rsv = v /\ x.b.active = m.b.active /\ x.b.free = m.b.free
      /\ x.valid = gc_valid(m, v) /\ x.oob = gc_oob(m, v) /\ x.tppa = gc_tppa(m, v)
      /\ x.tActive = r /\ x.tReserve = v
      /\ x.refused = FALSE /\ x.aborted = m.aborted
  BY <1>0 DEF GcLeaves
<1>4a. /\ x.b.wp \in [Sblks -> 0 .. PagesPerSblk] /\ x.b.vcnt \in [Sblks -> Nat]
       /\ x.dev.state \in [Sblks -> SUBSET Offsets]
       /\ x.dev.wp \in [Sblks -> 0 .. PagesPerSblk]
  BY <1>0 DEF GcLeaves
<1>4b. /\ \A i \in Sblks : x.b.wp[i] = IF i = v THEN 0 ELSE IF i = r THEN n ELSE m.b.wp[i]
       /\ \A i \in Sblks : x.b.vcnt[i] = IF i = v THEN 0 ELSE IF i = r
                                         THEN m.b.vcnt[r] + n ELSE m.b.vcnt[i]
       /\ \A i \in Sblks : x.dev.wp[i] = IF i = v THEN 0 ELSE IF i = r THEN n
                                         ELSE m.dev.wp[i]
       /\ \A i \in Sblks : x.dev.state[i] = IF i = v THEN {} ELSE IF i = r
                                            THEN 0 .. n - 1 ELSE m.dev.state[i]
  BY <1>0 DEF GcLeaves
<1>5. /\ n \in 0 .. PagesPerSblk
      /\ \A o \in M : D(o) \in Pages /\ D(o)[1] = r /\ D(o)[2] < n
      /\ \A o, q \in M : D(o) = D(q) => o = q
      /\ \A p \in m.valid : p[1] # r
  BY <1>1, <1>3, DestFacts
<1>6. /\ gc_oob(m, v) \in [Pages -> TPages]
      /\ gc_tppa(m, v) \in [TPages -> Pages \cup {NoPpa}]
      /\ \A o \in M : gc_oob(m, v)[D(o)] = m.oob[<<v, o>>]
      /\ \A p \in m.valid : p[1] # v => gc_oob(m, v)[p] = m.oob[p]
      /\ \A c \in TPages : IF OnFlash(m, c) /\ m.tppa[c][1] = v
                           THEN m.tppa[c][2] \in M /\ gc_tppa(m, v)[c] = D(m.tppa[c][2])
                           ELSE gc_tppa(m, v)[c] = m.tppa[c]
  BY <1>1, <1>3, GcLinks
<1>7. n < PagesPerSblk /\ n \in Nat /\ PagesPerSblk \in Nat /\ IsFiniteSet(M) /\ n = Cardinality(M)
  <2>1. m.b.vcnt[v] = n
    BY <1>1, <1>3, MovedCount DEF ValidCounted
  <2>2. IsFiniteSet(M)
    BY <1>1, <1>3, MovedCount, RankFacts
  <2> QED BY <1>3, <1>5, <2>1, <2>2, Geometry
<1>8. \A o \in M : <<v, o>> \in m.valid
  BY DEF Moved
<1>9. x.valid = { p \in m.valid : p[1] # v } \cup { D(o) : o \in M }
  BY <1>4 DEF gc_valid
<1> HIDE DEF M, D
<1>10. x \in MapStore
  <2>1. x.b \in Partition
    BY <1>2, <1>3, <1>4, <1>4a, PartitionFields
  <2>2. x.dev \in Dev!Device
    BY <1>4, <1>4a, DeviceFields
  <2>3. x.valid \subseteq Pages
    BY <1>2, <1>5, <1>9
  <2> QED BY <1>2, <1>3, <1>4, <1>6, <2>1, <2>2, <2>3, StoreFields
<1>11. ASSUME NEW c \in TPages PROVE OnFlash(x, c) <=> OnFlash(m, c)
  <2>1. CASE OnFlash(m, c) /\ m.tppa[c][1] = v
    <3>1. x.tppa[c] \in Pages
      BY <1>4, <1>5, <1>6, <2>1
    <3> QED BY <2>1, <3>1, Geometry DEF OnFlash
  <2>2. CASE ~(OnFlash(m, c) /\ m.tppa[c][1] = v)
    BY <1>4, <1>6, <2>2 DEF OnFlash
  <2> QED BY <2>1, <2>2
<1>12. Linked(x)
  <2>1. ASSUME NEW c \in TPages, OnFlash(x, c)
        PROVE  x.tppa[c] \in x.valid /\ x.oob[x.tppa[c]] = c
    <3>1. OnFlash(m, c) /\ m.tppa[c] \in m.valid /\ m.oob[m.tppa[c]] = c /\ m.tppa[c] \in Pages
      BY <1>1, <1>2, <1>11, <2>1 DEF Linked
    <3>2. CASE m.tppa[c][1] = v
      <4>1. m.tppa[c] = <<v, m.tppa[c][2]>>
        BY <3>1, <3>2 DEF Pages
      <4>2. m.tppa[c][2] \in M /\ x.tppa[c] = D(m.tppa[c][2])
        BY <1>4, <1>6, <3>1, <3>2
      <4>3. x.oob[x.tppa[c]] = m.oob[<<v, m.tppa[c][2]>>]
        BY <1>4, <1>6, <4>2
      <4>4. x.tppa[c] \in x.valid
        BY <1>9, <4>2
      <4> QED BY <3>1, <4>1, <4>3, <4>4
    <3>3. CASE m.tppa[c][1] # v
      <4>1. x.tppa[c] = m.tppa[c]
        BY <1>4, <1>6, <3>3
      <4> QED BY <1>4, <1>6, <1>9, <3>1, <3>3, <4>1
    <3> QED BY <3>2, <3>3
  <2>2. ASSUME NEW p \in x.valid PROVE x.tppa[x.oob[p]] = p /\ p[2] < x.b.wp[p[1]]
    <3>1. CASE p \in m.valid /\ p[1] # v
      <4>1. /\ m.tppa[m.oob[p]] = p /\ p[2] < m.b.wp[p[1]] /\ p \in Pages
            /\ m.oob[p] \in TPages /\ x.oob[p] = m.oob[p] /\ p[1] # r /\ p[1] \in Sblks
        BY <1>1, <1>2, <1>4, <1>5, <1>6, <3>1 DEF Linked, Pages
      <4>2. x.tppa[m.oob[p]] = p
        BY <1>4, <1>6, <3>1, <4>1
      <4>3. x.b.wp[p[1]] = m.b.wp[p[1]]
        BY <1>4b, <3>1, <4>1
      <4> QED BY <4>1, <4>2, <4>3
    <3>2. CASE \E o \in M : p = D(o)
      <4>1. PICK o \in M : p = D(o)
        BY <3>2
      <4>2. /\ <<v, o>> \in m.valid /\ <<v, o>> \in Pages /\ m.oob[<<v, o>>] \in TPages
            /\ m.tppa[m.oob[<<v, o>>]] = <<v, o>> /\ x.oob[p] = m.oob[<<v, o>>]
        BY <1>1, <1>2, <1>4, <1>6, <1>8, <4>1 DEF Linked
      <4>3. OnFlash(m, m.oob[<<v, o>>])
        BY <4>2, Geometry DEF OnFlash
      <4>4. x.tppa[x.oob[p]] = p
        BY <1>4, <1>6, <4>1, <4>2, <4>3
      <4>5. p[1] = r /\ p[2] < n
        BY <1>5, <4>1
      <4> QED BY <1>2, <1>3, <1>4b, <4>4, <4>5
    <3> QED BY <1>9, <3>1, <3>2
  <2> QED BY <2>1, <2>2 DEF Linked
<1>13. InStep(x)
  <2>1. ASSUME NEW i \in Sblks
        PROVE  x.dev.wp[i] = x.b.wp[i] /\ x.dev.state[i] = 0 .. x.b.wp[i] - 1
    <3>1. m.dev.wp[i] = m.b.wp[i] /\ m.dev.state[i] = 0 .. m.b.wp[i] - 1
      BY <1>1 DEF InStep
    <3>2. 0 .. 0 - 1 = {}
      OBVIOUS
    <3> QED BY <1>4b, <3>1, <3>2
  <2> QED BY <1>4, <2>1 DEF InStep
<1>14. ReserveClear(x)
  BY <1>3, <1>4, <1>4b DEF ReserveClear
<1>15. ValidCounted(x)
  <2>1. ValidOf(x, v) = {}
    BY <1>3, <1>5, <1>9 DEF ValidOf
  <2>2. \A i \in Sblks : i # v /\ i # r => ValidOf(x, i) = ValidOf(m, i)
    BY <1>5, <1>9 DEF ValidOf
  <2>3. ValidOf(m, r) = {}
    BY <1>5 DEF ValidOf
  <2>4. ValidOf(x, r) = { D(o) : o \in M }
    BY <1>3, <1>5, <1>9 DEF ValidOf
  <2>5. Cardinality(ValidOf(x, r)) = n
    <3> DEFINE to == [o \in M |-> D(o)]
    <3>1. to \in Bijection(M, ValidOf(x, r))
      BY <1>5, <2>4 DEF Bijection, Injection, Surjection, IsInjective
    <3>2. ExistsBijection(M, ValidOf(x, r))
      BY <3>1 DEF ExistsBijection
    <3> QED BY <1>7, <3>2, FS_Bijection
  <2>6. m.b.vcnt[r] = 0
    BY <1>1, <1>2, <2>3, FS_EmptySet DEF ValidCounted
  <2>7. Cardinality(ValidOf(x, v)) = 0
    BY <2>1, FS_EmptySet
  <2>8. ASSUME NEW i \in Sblks PROVE x.b.vcnt[i] = Cardinality(ValidOf(x, i))
    <3>1. CASE i = v
      BY <1>4b, <2>7, <3>1
    <3>2. CASE i # v /\ i = r
      BY <1>2, <1>4b, <1>7, <2>5, <2>6, <3>2
    <3>3. CASE i # v /\ i # r
      BY <1>1, <1>4b, <2>2, <3>3 DEF ValidCounted
    <3> QED BY <3>1, <3>2, <3>3
  <2> QED BY <2>8 DEF ValidCounted
<1>16. FullOrEmpty(x)
  BY <1>1, <1>3, <1>4, <1>4b, Geometry DEF FullOrEmpty
<1>17. SearchAt(x)
  BY <1>2, <1>4 DEF SearchAt, isgc_needed
<1>18. m.b.free = Cardinality(Erased(x) \ {r})
  <2>1. IsFiniteSet(Erased(m))
    BY Geometry, FS_Subset DEF Erased
  <2>2. r \in Erased(m) /\ v \notin Erased(m)
    BY <1>2, <1>3, Geometry DEF Erased
  <2>3. Erased(x) \ {r} = (Erased(m) \ {r}) \cup {v}
    BY <1>3, <1>4b DEF Erased
  <2>4. IsFiniteSet(Erased(m) \ {r}) /\ Cardinality(Erased(m) \ {r}) = Cardinality(Erased(m)) - 1
    BY <2>1, <2>2, FS_RemoveElement
  <2>5. Cardinality((Erased(m) \ {r}) \cup {v}) = Cardinality(Erased(m) \ {r}) + 1
    BY <2>2, <2>4, FS_AddElement
  <2>6. Cardinality((Erased(m) \ {r}) \cup {v}) = Cardinality(Erased(m))
    BY <1>1, <1>2, <2>4, <2>5
  <2> QED BY <1>1, <2>3, <2>6
<1>19. Opened(x)
  <2>1. StoreSound(x)
    BY <1>10, <1>12, <1>13, <1>14, <1>15, <1>16, <1>17 DEF StoreSound
  <2>2. x.tActive # NoSblk /\ x.b.wp[x.tActive] < PagesPerSblk
    <3>1. x.tActive = r /\ r \in Sblks /\ x.b.wp[r] = n
      BY <1>2, <1>3, <1>4, <1>4b
    <3> QED BY <1>7, <3>1, Geometry
  <2> QED BY <1>4, <1>18, <2>1, <2>2 DEF Opened
<1> QED BY <1>4, <1>11, <1>19

-----------------------------------------------------------------------------
(***************************************************************************)
(* The search for a free superblock: what it finds is usable, and it finds *)
(* one when it starts beside the usable ones or there are two of them.     *)
(***************************************************************************)
LEMMA NextFacts ==
    ASSUME NEW b \in Partition
    PROVE  /\ NextUsable(b) # NoSblk => NextUsable(b) \in Usable(b)
           /\ \A i, j \in Usable(b) :
                 (IF b.active = NoSblk THEN i # j ELSE b.active \notin Usable(b))
                    => NextUsable(b) # NoSblk
<1> DEFINE start  == IF b.active # NoSblk THEN b.active ELSE Min(Usable(b))
           after  == { i \in Usable(b) : i > start }
           before == { i \in Usable(b) : i < start }
<1>1. Usable(b) \subseteq Sblks /\ Sblks \subseteq Nat /\ NoSblk \notin Sblks
      /\ b.active \in Sblks \cup {NoSblk}
  BY Geometry, PartitionFields DEF Usable
<1>2. after \in SUBSET Nat /\ before \in SUBSET Nat
  BY <1>1
<1>3. /\ after # {} => NextUsable(b) = Min(after)
      /\ after = {} /\ before # {} => NextUsable(b) = Min(before)
      /\ after = {} /\ before = {} => NextUsable(b) = NoSblk
  BY DEF NextUsable
<1> HIDE DEF start
<1>4. /\ after # {} => Min(after) \in Usable(b)
      /\ before # {} => Min(before) \in Usable(b)
  BY <1>2, MinOfNats
<1>5. NextUsable(b) # NoSblk => NextUsable(b) \in Usable(b)
  BY <1>3, <1>4
<1>6. ASSUME NEW i \in Usable(b), NEW j \in Usable(b),
             IF b.active = NoSblk THEN i # j ELSE b.active \notin Usable(b)
      PROVE  NextUsable(b) # NoSblk
  <2>1. start \in Nat /\ (start = i => start # j)
    <3>1. CASE b.active = NoSblk
      <4>1. Usable(b) \in SUBSET Nat /\ Usable(b) # {}
        BY <1>1
      <4>2. Min(Usable(b)) \in Usable(b)
        BY <4>1, MinOfNats
      <4> QED BY <1>1, <1>6, <3>1, <4>2 DEF start
    <3>2. CASE b.active # NoSblk
      BY <1>1, <1>6, <3>2 DEF start
    <3> QED BY <3>1, <3>2
  <2>2. i \in Nat /\ j \in Nat
    BY <1>1
  <2>3. after # {} \/ before # {}
    BY <2>1, <2>2
  <2>4. NextUsable(b) \in Usable(b)
    BY <1>3, <1>4, <2>3
  <2> QED BY <1>1, <2>4
<1> QED BY <1>5, <1>6

(***************************************************************************)
(* Room: the partition holds every mapping page without its reserve.  Then *)
(* some page of a full superblock is invalid when GC runs to write a page  *)
(* that has no copy.                                                       *)
(***************************************************************************)
Roomy == NrTPages <= (ESblk - SSblk) * PagesPerSblk

\* No superblock but the reserve is erased when GC is needed.
LEMMA AllWritten ==
    ASSUME NEW m, MapSound(m), isgc_needed(m.b),
           m.tActive # NoSblk => m.b.wp[m.tActive] = PagesPerSblk
    PROVE  /\ m.tReserve \in Sblks
           /\ \A i \in Sblks : i # m.tReserve => m.b.wp[i] = PagesPerSblk
           /\ GcCandidates(m.b) = Sblks \ {m.tReserve}
<1>1. /\ m \in MapStore /\ ReserveClear(m) /\ FullOrEmpty(m)
      /\ m.b.free = Cardinality(Erased(m)) /\ m.b.free <= 1
  BY DEF MapSound, StoreSound, isgc_needed
<1>2. /\ m.tReserve \in Sblks /\ m.b.wp \in [Sblks -> 0 .. PagesPerSblk]
      /\ m.tReserve = m.b.rsv /\ m.b.wp[m.tReserve] = 0
  BY <1>1, StoreFields, PartitionFields DEF ReserveClear
<1>3. IsFiniteSet(Erased(m)) /\ m.tReserve \in Erased(m)
  BY <1>2, Geometry, FS_Subset DEF Erased
<1>4. Erased(m) = {m.tReserve}
  <2>1. {m.tReserve} \in SUBSET Erased(m) /\ Cardinality({m.tReserve}) = 1
    BY <1>3, FS_Singleton
  <2>2. Cardinality(Erased(m)) \in Nat
    BY <1>3, FS_CardinalityType
  <2>3. 1 <= Cardinality(Erased(m))
    BY <1>3, <2>1, FS_Subset
  <2>4. Cardinality(Erased(m)) = Cardinality({m.tReserve})
    BY <1>1, <2>1, <2>2, <2>3
  <2> QED BY <1>3, <2>1, <2>4, FS_Subset
<1>5. ASSUME NEW i \in Sblks, i # m.tReserve PROVE m.b.wp[i] = PagesPerSblk
  <2>1. m.b.wp[i] # 0
    BY <1>4, <1>5 DEF Erased
  <2> QED BY <1>1, <2>1, Geometry DEF FullOrEmpty
<1>6. GcCandidates(m.b) = Sblks \ {m.tReserve}
  <2>1. \A i \in Sblks : i # m.tReserve => m.b.wp[i] >= PagesPerSblk
    BY <1>5, Geometry
  <2> QED BY <1>2, <2>1 DEF GcCandidates, check_full
<1> QED BY <1>2, <1>5, <1>6

\* When GC is needed and a mapping page is not on flash, some superblock has an invalid page.
LEMMA VictimExists ==
    ASSUME NEW m, MapSound(m), isgc_needed(m.b), Roomy,
           m.tActive # NoSblk => m.b.wp[m.tActive] = PagesPerSblk,
           NEW c \in TPages, ~OnFlash(m, c)
    PROVE  get_gc_target(m.b) # NoSblk
<1> DEFINE G == Sblks \ {m.tReserve}
           K == ESblk - SSblk
<1>1. /\ m \in MapStore /\ Linked(m) /\ ValidCounted(m) /\ m.b \in Partition
      /\ m.valid \subseteq Pages /\ m.oob \in [Pages -> TPages]
  BY StoreFields DEF MapSound, StoreSound
<1>2. /\ m.tReserve \in Sblks /\ GcCandidates(m.b) = G
      /\ \A i \in G : m.b.wp[i] = PagesPerSblk
  BY AllWritten
<1>3. IsFiniteSet(G) /\ Cardinality(G) = K /\ K \in Nat /\ K >= 2 /\ G # {}
  <2>0. IsFiniteSet(Sblks) /\ Cardinality(Sblks) = ESblk - SSblk + 1
    BY Geometry
  <2>1. IsFiniteSet(G) /\ Cardinality(G) = Cardinality(Sblks) - 1
    BY <1>2, <2>0, FS_RemoveElement
  <2>2. Cardinality(G) = K /\ K \in Nat /\ K >= 2
    BY <2>0, <2>1, Geometry
  <2> QED BY <2>1, <2>2, FS_EmptySet
<1> SUFFICES ASSUME get_gc_target(m.b) = NoSblk PROVE FALSE
  OBVIOUS
<1> HIDE DEF G, K
<1>4. \A i \in G : Cardinality(ValidOf(m, i)) >= PagesPerSblk
  <2> DEFINE f == FewestValid(m.b)
  <2>1. f \in G /\ \A j \in G : m.b.vcnt[f] <= m.b.vcnt[j]
    BY <1>1, <1>2, <1>3, FewestIsCandidate
  <2>2. f # NoSblk
    BY <2>1, Geometry DEF G
  <2>3. ~(m.b.vcnt[f] < m.b.wp[f] * UnitsPerPage)
    BY <1>2, <1>3, <2>2 DEF get_gc_target
  <2> HIDE DEF f
  <2>4. m.b.wp[f] * UnitsPerPage = PagesPerSblk
    BY <1>2, <2>1, MapPagesAssumption, Geometry
  <2>5. \A j \in G : m.b.vcnt[j] \in Nat /\ m.b.vcnt[j] = Cardinality(ValidOf(m, j))
    BY <1>1, PartitionFields DEF ValidCounted, G
  <2> QED BY <2>1, <2>3, <2>4, <2>5, Geometry
<1>5. IsFiniteSet(Offsets) /\ Cardinality(Offsets) = PagesPerSblk
  <2>1. PagesPerSblk \in Nat /\ 0 \in Int /\ PagesPerSblk - 1 \in Int /\ ~(0 > PagesPerSblk - 1)
    BY Geometry
  <2> QED BY <2>1, FS_Interval DEF Offsets
<1>6. G \X Offsets \subseteq m.valid
  <2> SUFFICES ASSUME NEW i \in G, NEW o \in Offsets PROVE <<i, o>> \in m.valid
    OBVIOUS
  <2>1. ValidOf(m, i) \in SUBSET ({i} \X Offsets)
    BY <1>1 DEF ValidOf, Pages
  <2>2. IsFiniteSet({i}) /\ Cardinality({i}) = 1
    BY FS_Singleton
  <2>3. IsFiniteSet({i} \X Offsets) /\ Cardinality({i} \X Offsets) = 1 * Cardinality(Offsets)
    BY <1>5, <2>2, FS_Product
  <2>4. Cardinality({i} \X Offsets) = PagesPerSblk
    BY <1>5, <2>3, Geometry
  <2>5. Cardinality(ValidOf(m, i)) <= Cardinality({i} \X Offsets)
        /\ (Cardinality({i} \X Offsets) = Cardinality(ValidOf(m, i)) => {i} \X Offsets = ValidOf(m, i))
    BY <2>1, <2>3, FS_Subset
  <2>6. Cardinality(ValidOf(m, i)) \in Nat
    BY <1>1, ValidFinite DEF G
  <2>7. ValidOf(m, i) = {i} \X Offsets
    BY <1>4, <2>4, <2>5, <2>6, Geometry
  <2> QED BY <2>7 DEF ValidOf
<1>7. IsFiniteSet(G \X Offsets) /\ Cardinality(G \X Offsets) = K * PagesPerSblk
  BY <1>3, <1>5, FS_Product
<1>8. Cardinality(G \X Offsets) <= Cardinality(TPages \ {c})
  <2> DEFINE owner == [p \in G \X Offsets |-> m.oob[p]]
  <2>1. \A p \in G \X Offsets : m.oob[p] \in TPages /\ m.tppa[m.oob[p]] = p /\ p \in Pages
    BY <1>1, <1>6 DEF Linked
  <2>2. \A p \in G \X Offsets : m.oob[p] # c
    BY <2>1, Geometry DEF OnFlash
  <2>3. owner \in Injection(G \X Offsets, TPages \ {c})
    BY <2>1, <2>2 DEF Injection, IsInjective
  <2>4. IsFiniteSet(TPages \ {c})
    BY Geometry, FS_RemoveElement
  <2> QED BY <2>3, <2>4, FS_Injection
<1>9. Cardinality(TPages \ {c}) = NrTPages - 1
  BY Geometry, FS_RemoveElement
<1>10. NrTPages <= K * PagesPerSblk
  BY DEF Roomy, K
<1>11. K * PagesPerSblk \in Int /\ NrTPages \in Nat
  BY <1>3, Geometry
<1> QED BY <1>7, <1>8, <1>9, <1>10, <1>11

(***************************************************************************)
(* tp_alloc opens a superblock with room, or aborts and changes nothing    *)
(* else; with room in the partition it does not abort.                     *)
(***************************************************************************)
LEMMA NextOpened ==
    ASSUME NEW m, MapSound(m), ~isgc_needed(m.b),
           m.tActive # NoSblk => m.b.wp[m.tActive] = PagesPerSblk,
           NEW s, s = NextUsable(m.b), s # NoSblk,
           NEW x, x = open_sblk(m)
    PROVE  Opened(x) /\ x.aborted = m.aborted /\ x.tppa = m.tppa
<1>1. /\ m \in MapStore /\ Linked(m) /\ InStep(m) /\ ReserveClear(m)
      /\ ValidCounted(m) /\ FullOrEmpty(m) /\ m.b.free = Cardinality(Erased(m))
      /\ IsStore(m) /\ IsPartition(m.b) /\ m.b \in Partition
      /\ m.tActive \in Sblks \cup {NoSblk}
      /\ m.b.wp \in [Sblks -> 0 .. PagesPerSblk]
      /\ m.b.free \in 0 .. ESblk - SSblk + 1 /\ m.b.free >= 2
  BY StoreFields, PartitionFields, Geometry DEF MapSound, StoreSound, isgc_needed
<1>2. s \in Sblks /\ s # m.b.rsv /\ ~(m.b.wp[s] >= PagesPerSblk)
  BY <1>1, NextFacts DEF Usable, check_full
<1>3. s # m.tActive /\ m.b.wp[s] = 0
  <2>1. s # m.tActive
    BY <1>2, Geometry
  <2> QED BY <1>1, <1>2, <2>1, Geometry DEF FullOrEmpty
<1>4. ASSUME NEW b, b = get_active_sblk(m.b)
      PROVE  /\ IsPartition(b) /\ b.wp = m.b.wp /\ b.vcnt = m.b.vcnt
             /\ b.rsv = m.b.rsv /\ b.active = s /\ b.free = m.b.free - 1
  BY <1>1, <1>3, <1>4 DEF get_active_sblk, IsPartition
<1>5. /\ IsStore(x) /\ x.b = get_active_sblk(m.b) /\ x.tActive = s
      /\ x.valid = m.valid /\ x.oob = m.oob /\ x.dev = m.dev /\ x.tppa = m.tppa
      /\ x.tReserve = m.tReserve /\ x.refused = m.refused /\ x.aborted = m.aborted
  <2>1. ~(m.tActive # NoSblk /\ ~check_full(m.b, m.tActive))
    BY <1>1, Geometry DEF check_full
  <2>2. PICK b : b = get_active_sblk(m.b)
    OBVIOUS
  <2>3. x = [m EXCEPT !.b = b, !.tActive = s]
    BY <1>4, <2>1, <2>2 DEF open_sblk
  <2> QED BY <1>1, <2>2, <2>3 DEF IsStore
<1>6. /\ IsPartition(x.b) /\ x.b.wp = m.b.wp /\ x.b.vcnt = m.b.vcnt
      /\ x.b.rsv = m.b.rsv /\ x.b.active = s /\ x.b.free = m.b.free - 1
  BY <1>4, <1>5
<1>7. x.b.free \in 0 .. ESblk - SSblk + 1
  BY <1>1, <1>6, Geometry
<1>8. x.b \in Partition
  BY <1>1, <1>2, <1>6, <1>7, PartitionFields
<1>9. x \in MapStore
  BY <1>1, <1>2, <1>5, <1>8, StoreFields
<1>10. Linked(x) /\ InStep(x) /\ ValidCounted(x)
  BY <1>1, <1>5, <1>6 DEF Linked, InStep, ValidCounted, ValidOf, OnFlash
<1>11. ReserveClear(x) /\ SearchAt(x)
  BY <1>1, <1>2, <1>5, <1>6 DEF ReserveClear, SearchAt
<1>12. FullOrEmpty(x)
  BY <1>1, <1>5, <1>6, Geometry DEF FullOrEmpty
<1>13. x.b.free = Cardinality(Erased(x) \ {s})
  <2>1. Erased(x) = Erased(m) /\ s \in Erased(m) /\ IsFiniteSet(Erased(m))
    BY <1>2, <1>3, <1>6, Geometry, FS_Subset DEF Erased
  <2>2. Cardinality(Erased(m) \ {s}) = Cardinality(Erased(m)) - 1
    BY <2>1, FS_RemoveElement
  <2> QED BY <1>1, <1>6, <2>1, <2>2
<1> QED BY <1>2, <1>3, <1>5, <1>6, <1>9, <1>10, <1>11, <1>12, <1>13, Geometry
        DEF Opened, StoreSound

\* While two superblocks are free the search finds one.
LEMMA NextExists ==
    ASSUME NEW m, MapSound(m), ~isgc_needed(m.b),
           m.tActive # NoSblk => m.b.wp[m.tActive] = PagesPerSblk
    PROVE  NextUsable(m.b) # NoSblk
<1>1. /\ m \in MapStore /\ ReserveClear(m) /\ SearchAt(m)
      /\ m.b.free = Cardinality(Erased(m)) /\ m.b \in Partition
      /\ m.b.rsv \in Sblks /\ m.b.wp[m.b.rsv] = 0
      /\ m.tActive = NoSblk => Erased(m) = Sblks
  BY StoreFields, PartitionFields DEF MapSound, StoreSound, ReserveClear
<1>2. IsFiniteSet(Erased(m)) /\ m.b.rsv \in Erased(m)
  BY <1>1, Geometry, FS_Subset DEF Erased
<1>3. m.b.free \in Nat /\ m.b.free >= 2 /\ m.b.active = m.tActive
  <2>1. m.b.free \in Nat
    BY <1>1, <1>2, FS_CardinalityType
  <2> QED BY <1>1, <2>1 DEF SearchAt, isgc_needed
<1>4. IsFiniteSet(Erased(m) \ {m.b.rsv}) /\ Cardinality(Erased(m) \ {m.b.rsv}) = m.b.free - 1
  <2>1. /\ IsFiniteSet(Erased(m) \ {m.b.rsv})
        /\ Cardinality(Erased(m) \ {m.b.rsv}) = Cardinality(Erased(m)) - 1
    BY <1>2, FS_RemoveElement
  <2> QED BY <1>1, <2>1
<1>5. PICK i \in Erased(m) \ {m.b.rsv} : TRUE
  BY <1>3, <1>4, FS_EmptySet
<1>6. \A k \in Erased(m) \ {m.b.rsv} : k \in Usable(m.b)
  BY Geometry DEF Erased, Usable, check_full
<1>7. CASE m.tActive # NoSblk
  <2>1. m.b.active \notin Usable(m.b)
    BY <1>3, <1>7, Geometry DEF Usable, check_full
  <2> QED BY <1>1, <1>3, <1>5, <1>6, <1>7, <2>1, NextFacts
<1>8. CASE m.tActive = NoSblk
  <2>1. IsFiniteSet(Sblks \ {m.b.rsv}) /\ Cardinality(Sblks \ {m.b.rsv}) >= 2
    <3>1. IsFiniteSet(Sblks) /\ Cardinality(Sblks) >= 3 /\ Cardinality(Sblks) \in Nat
      BY Geometry
    <3>2. /\ IsFiniteSet(Sblks \ {m.b.rsv})
          /\ Cardinality(Sblks \ {m.b.rsv}) = Cardinality(Sblks) - 1
      BY <1>1, <3>1, FS_RemoveElement
    <3> QED BY <3>1, <3>2
  <2>2. /\ IsFiniteSet((Sblks \ {m.b.rsv}) \ {i})
        /\ Cardinality((Sblks \ {m.b.rsv}) \ {i}) = Cardinality(Sblks \ {m.b.rsv}) - 1
    <3>1. i \in Sblks \ {m.b.rsv}
      BY <1>1, <1>5, <1>8
    <3> QED BY <2>1, <3>1, FS_RemoveElement
  <2>3. Cardinality(Sblks \ {m.b.rsv}) \in Nat
    BY <2>1, FS_CardinalityType
  <2>4. PICK j \in (Sblks \ {m.b.rsv}) \ {i} : TRUE
    BY <2>1, <2>2, <2>3, FS_EmptySet
  <2>5. i \in Usable(m.b) /\ j \in Usable(m.b) /\ i # j /\ m.b.active = NoSblk
    BY <1>1, <1>3, <1>5, <1>6, <1>8, <2>4
  <2> QED BY <1>1, <2>5, NextFacts
<1> QED BY <1>7, <1>8

\* Opening a superblock for a write keeps the pages, and aborts only on a crowded partition.
LEMMA OpenSound ==
    ASSUME NEW m, MapSound(m), ~m.aborted, NEW x, x = open_sblk(m)
    PROVE  /\ x.aborted => x = Abort(m)
           /\ ~x.aborted => Opened(x) /\ \A c \in TPages : OnFlash(x, c) <=> OnFlash(m, c)
           /\ Roomy /\ (\E c \in TPages : ~OnFlash(m, c)) => ~x.aborted
<1>1. /\ m \in MapStore /\ StoreSound(m) /\ IsStore(m) /\ m.b \in Partition
      /\ m.tActive \in Sblks \cup {NoSblk} /\ m.b.wp \in [Sblks -> 0 .. PagesPerSblk]
      /\ m.tActive # NoSblk => m.b.wp[m.tActive] > 0
      /\ m.b.free = Cardinality(Erased(m)) /\ m.aborted = FALSE
  BY StoreFields, PartitionFields DEF MapSound, StoreSound
<1>2. CASE m.tActive # NoSblk /\ ~check_full(m.b, m.tActive)
  <2>1. x = m /\ m.b.wp[m.tActive] < PagesPerSblk
    BY <1>1, <1>2, Geometry DEF open_sblk, check_full
  <2>2. Erased(m) \ {m.tActive} = Erased(m)
    BY <1>1, <1>2 DEF Erased
  <2>3. Opened(m)
    BY <1>1, <1>2, <2>1, <2>2 DEF Opened
  <2> QED BY <1>1, <2>1, <2>3
<1>3. CASE ~(m.tActive # NoSblk /\ ~check_full(m.b, m.tActive))
  <2>1. m.tActive # NoSblk => m.b.wp[m.tActive] = PagesPerSblk
    <3>1. ASSUME m.tActive # NoSblk PROVE m.b.wp[m.tActive] = PagesPerSblk
      <4>1. m.tActive \in Sblks /\ m.b.wp[m.tActive] \in 0 .. PagesPerSblk
        BY <1>1, <3>1
      <4>2. m.b.wp[m.tActive] >= PagesPerSblk
        BY <1>3, <3>1 DEF check_full
      <4> QED BY <4>1, <4>2, Geometry
    <3> QED BY <3>1
  <2>2. CASE isgc_needed(m.b)
    <3>1. x = tpage_gc(m)
      BY <1>3, <2>2 DEF open_sblk
    <3>2. PICK v, r, n : v = get_gc_target(m.b) /\ r = m.tReserve /\ n = Cardinality(Moved(m, v))
      OBVIOUS
    <3>3. CASE v = NoSblk
      <4>1. x = Abort(m) /\ x.aborted
        BY <1>1, <3>1, <3>2, <3>3 DEF tpage_gc, Abort, IsStore
      <4>2. ASSUME Roomy, NEW c \in TPages, ~OnFlash(m, c) PROVE FALSE
        BY <2>1, <2>2, <3>2, <3>3, <4>2, VictimExists
      <4> QED BY <4>1, <4>2
    <3>4. CASE v # NoSblk
      <4>1. Opened(x) /\ x.aborted = m.aborted
            /\ \A c \in TPages : OnFlash(x, c) <=> OnFlash(m, c)
        BY <2>1, <2>2, <3>1, <3>2, <3>4, GcSound
      <4> QED BY <1>1, <4>1
    <3> QED BY <3>3, <3>4
  <2>3. CASE ~isgc_needed(m.b)
    <3>1. PICK s : s = NextUsable(m.b)
      OBVIOUS
    <3>2. s # NoSblk
      BY <2>1, <2>3, <3>1, NextExists
    <3>3. Opened(x) /\ x.aborted = m.aborted /\ x.tppa = m.tppa
      BY <2>1, <2>3, <3>1, <3>2, NextOpened
    <3> QED BY <1>1, <3>3 DEF OnFlash
  <2> QED BY <2>2, <2>3
<1> QED BY <1>2, <1>3

-----------------------------------------------------------------------------
\* An abort changes nothing else.
LEMMA AbortSound ==
    ASSUME NEW m, MapSound(m), NEW x, x = Abort(m)
    PROVE  MapSound(x) /\ x.aborted /\ x.tppa = m.tppa
<1>1. IsStore(m) /\ m \in MapStore
  BY StoreFields DEF MapSound, StoreSound
<1>2. /\ IsStore(x) /\ x.b = m.b /\ x.valid = m.valid /\ x.oob = m.oob /\ x.dev = m.dev
      /\ x.tppa = m.tppa /\ x.tActive = m.tActive /\ x.tReserve = m.tReserve
      /\ x.refused = m.refused /\ x.aborted = TRUE
  BY <1>1 DEF Abort, IsStore
<1>3. x \in MapStore
  BY <1>1, <1>2, StoreFields
<1>4. /\ Linked(x) /\ InStep(x) /\ ReserveClear(x) /\ ValidCounted(x) /\ FullOrEmpty(x)
      /\ SearchAt(x) /\ Erased(x) = Erased(m)
  BY <1>2 DEF MapSound, StoreSound, Linked, InStep, ReserveClear, ValidCounted, ValidOf,
              FullOrEmpty, SearchAt, Erased, OnFlash
<1> QED BY <1>2, <1>3, <1>4 DEF MapSound, StoreSound

(***************************************************************************)
(* The write itself, to the next page of the superblock tp_alloc opened.   *)
(***************************************************************************)
PutLeaves(a, c, s, o, x) ==
    /\ IsStore(x) /\ IsPartition(x.b) /\ IsDevice(x.dev)
    /\ x.b.wp \in [Sblks -> 0 .. PagesPerSblk] /\ x.b.vcnt \in [Sblks -> Nat]
    /\ x.dev.state \in [Sblks -> SUBSET Offsets]
    /\ x.dev.wp \in [Sblks -> 0 .. PagesPerSblk]
    /\ \A i \in Sblks : x.b.wp[i] = IF i = s THEN o + 1 ELSE a.b.wp[i]
    /\ \A i \in Sblks : x.b.vcnt[i] = IF i = s THEN a.b.vcnt[s] + 1 ELSE a.b.vcnt[i]
    /\ \A i \in Sblks : x.dev.wp[i] = IF i = s THEN o + 1 ELSE a.dev.wp[i]
    /\ \A i \in Sblks : x.dev.state[i] = IF i = s THEN 0 .. o ELSE a.dev.state[i]
    /\ x.b.rsv = a.b.rsv /\ x.b.active = a.b.active /\ x.b.free = a.b.free
    /\ x.valid = a.valid \cup {<<s, o>>}
    /\ x.oob = [a.oob EXCEPT ![<<s, o>>] = c] /\ x.tppa = [a.tppa EXCEPT ![c] = <<s, o>>]
    /\ x.tActive = s /\ x.tReserve = a.tReserve
    /\ x.refused = FALSE /\ x.aborted = a.aborted

\* What writing a mapping page leaves in each field.
LEMMA PutFields ==
    ASSUME NEW m, NEW a, a = open_sblk(m), Opened(a), ~a.aborted,
           NEW s, s = a.tActive, NEW o, o = a.b.wp[s],
           NEW c, NEW x, x = write_tpage(m, c)
    PROVE  PutLeaves(a, c, s, o, x)
<1>1. /\ a \in MapStore /\ IsStore(a) /\ a.b \in Partition /\ IsPartition(a.b)
      /\ IsDevice(a.dev) /\ a.dev.state \in [Sblks -> SUBSET Offsets]
      /\ a.dev.wp \in [Sblks -> 0 .. PagesPerSblk]
      /\ a.b.wp \in [Sblks -> 0 .. PagesPerSblk] /\ a.b.vcnt \in [Sblks -> Nat]
      /\ a.tActive \in Sblks \cup {NoSblk}
  BY StoreFields, PartitionFields, DeviceFields DEF Opened, StoreSound
<1>2. s \in Sblks /\ o \in Nat /\ o < PagesPerSblk /\ PagesPerSblk \in Nat
  <2>1. s \in Sblks /\ o < PagesPerSblk
    BY <1>1 DEF Opened
  <2>2. o \in 0 .. PagesPerSblk
    BY <1>1, <2>1
  <2> QED BY <2>1, <2>2, Geometry
<1>3. /\ a.dev.wp[s] = o /\ a.dev.state[s] = 0 .. o - 1 /\ ~a.refused
  BY <1>2 DEF Opened, StoreSound, InStep
<1>4. Dev!Accepted(a.dev, s, o, 1) = 1
  <2>1. \A j \in 0 .. 1 - 1 : o + j \notin a.dev.state[s]
    BY <1>2, <1>3
  <2> QED BY <1>2, <1>3, <2>1, RunAccepted
<1>5. ASSUME NEW d, d = Dev!WriteRun(a.dev, s, o, 1)
      PROVE  /\ IsDevice(d)
             /\ d.state = [a.dev.state EXCEPT ![s] = 0 .. o]
             /\ d.wp = [a.dev.wp EXCEPT ![s] = o + 1]
  <2>1. (0 .. o - 1) \cup (o .. o + 1 - 1) = 0 .. o
    BY <1>2
  <2>2. /\ IsDevice(d)
        /\ d.state = [a.dev.state EXCEPT ![s] = @ \cup (o .. o + 1 - 1)]
        /\ d.wp = [a.dev.wp EXCEPT ![s] = @ + 1]
    BY <1>1, <1>4, <1>5 DEF Dev!WriteRun, IsDevice
  <2> QED BY <1>3, <2>1, <2>2
<1>6. PICK d, b : /\ d = Dev!WriteRun(a.dev, s, o, 1)
                  /\ b = [get_page_num(a.b, s) EXCEPT !.vcnt[s] = @ + 1]
  OBVIOUS
<1>7. /\ IsPartition(b)
      /\ b.wp = [a.b.wp EXCEPT ![s] = @ + 1] /\ b.vcnt = [a.b.vcnt EXCEPT ![s] = @ + 1]
      /\ b.rsv = a.b.rsv /\ b.active = a.b.active /\ b.free = a.b.free
  <2>1. PICK g : g = get_page_num(a.b, s)
    OBVIOUS
  <2>2. /\ IsPartition(g) /\ g.wp = [a.b.wp EXCEPT ![s] = @ + 1] /\ g.vcnt = a.b.vcnt
        /\ g.rsv = a.b.rsv /\ g.active = a.b.active /\ g.free = a.b.free
    BY <1>1, <2>1 DEF get_page_num, IsPartition
  <2>3. b = [g EXCEPT !.vcnt[s] = @ + 1]
    BY <1>6, <2>1
  <2>4. /\ IsPartition(b) /\ b.wp = g.wp /\ b.vcnt = [g.vcnt EXCEPT ![s] = @ + 1]
        /\ b.rsv = g.rsv /\ b.active = g.active /\ b.free = g.free
    BY <2>2, <2>3 DEF IsPartition
  <2> QED BY <2>2, <2>4
<1>8. x = [a EXCEPT !.b = b, !.valid = @ \cup {<<s, o>>}, !.oob[<<s, o>>] = c,
                    !.tppa[c] = <<s, o>>, !.dev = d,
                    !.refused = @ \/ Dev!Accepted(a.dev, s, o, 1) # 1]
  BY <1>6 DEF write_tpage
<1>9. /\ IsStore(x) /\ x.b = b /\ x.dev = d /\ x.valid = a.valid \cup {<<s, o>>}
      /\ x.oob = [a.oob EXCEPT ![<<s, o>>] = c] /\ x.tppa = [a.tppa EXCEPT ![c] = <<s, o>>]
      /\ x.tActive = a.tActive /\ x.tReserve = a.tReserve
      /\ x.refused = (a.refused \/ Dev!Accepted(a.dev, s, o, 1) # 1)
      /\ x.aborted = a.aborted
  BY <1>1, <1>8 DEF IsStore
<1>10. x.refused = FALSE
  BY <1>3, <1>4, <1>9
<1>11. /\ IsPartition(x.b) /\ x.b.wp = [a.b.wp EXCEPT ![s] = @ + 1]
       /\ x.b.vcnt = [a.b.vcnt EXCEPT ![s] = @ + 1]
       /\ x.b.rsv = a.b.rsv /\ x.b.active = a.b.active /\ x.b.free = a.b.free
  BY <1>7, <1>9
<1>12. /\ IsDevice(x.dev) /\ x.dev.state = [a.dev.state EXCEPT ![s] = 0 .. o]
       /\ x.dev.wp = [a.dev.wp EXCEPT ![s] = o + 1]
  BY <1>5, <1>6, <1>9
<1>13. o + 1 \in 0 .. PagesPerSblk /\ 0 .. o \in SUBSET Offsets
  BY <1>2 DEF Offsets
<1>14. /\ x.b.wp \in [Sblks -> 0 .. PagesPerSblk]
       /\ \A i \in Sblks : x.b.wp[i] = IF i = s THEN o + 1 ELSE a.b.wp[i]
  BY <1>1, <1>2, <1>11, <1>13
<1>15. /\ x.b.vcnt \in [Sblks -> Nat]
       /\ \A i \in Sblks : x.b.vcnt[i] = IF i = s THEN a.b.vcnt[s] + 1 ELSE a.b.vcnt[i]
  BY <1>1, <1>2, <1>11
<1>16. x.dev.wp \in [Sblks -> 0 .. PagesPerSblk] /\ x.dev.state \in [Sblks -> SUBSET Offsets]
  BY <1>1, <1>2, <1>12, <1>13
<1>17. \A i \in Sblks : x.dev.wp[i] = IF i = s THEN o + 1 ELSE a.dev.wp[i]
  BY <1>1, <1>2, <1>12
<1>18. \A i \in Sblks : x.dev.state[i] = IF i = s THEN 0 .. o ELSE a.dev.state[i]
  BY <1>1, <1>2, <1>12
<1> QED BY <1>9, <1>10, <1>11, <1>12, <1>14, <1>15, <1>16, <1>17, <1>18 DEF PutLeaves

\* write_tpage puts exactly one mapping page on the flash.
LEMMA PutSound ==
    ASSUME NEW m, NEW a, a = open_sblk(m), Opened(a), ~a.aborted,
           NEW c \in TPages, ~OnFlash(a, c), NEW x, x = write_tpage(m, c)
    PROVE  /\ MapSound(x) /\ x.aborted = a.aborted /\ OnFlash(x, c)
           /\ \A d \in TPages : d # c => (OnFlash(x, d) <=> OnFlash(a, d))
<1>1. PICK s, o : s = a.tActive /\ o = a.b.wp[s]
  OBVIOUS
<1>2. /\ a \in MapStore /\ Linked(a) /\ InStep(a) /\ ReserveClear(a) /\ ValidCounted(a)
      /\ FullOrEmpty(a) /\ SearchAt(a) /\ s # NoSblk /\ o < PagesPerSblk
      /\ a.b.free = Cardinality(Erased(a) \ {s})
  BY <1>1 DEF Opened, StoreSound
<1>3. /\ a.valid \subseteq Pages /\ a.oob \in [Pages -> TPages]
      /\ a.tppa \in [TPages -> Pages \cup {NoPpa}]
      /\ a.tActive \in Sblks \cup {NoSblk} /\ a.tReserve \in Sblks
      /\ a.aborted \in BOOLEAN /\ a.b \in Partition
      /\ a.b.wp \in [Sblks -> 0 .. PagesPerSblk] /\ a.b.rsv \in Sblks
      /\ a.b.active \in Sblks \cup {NoSblk} /\ a.b.free \in 0 .. ESblk - SSblk + 1
      /\ a.b.vcnt \in [Sblks -> Nat]
  BY <1>2, StoreFields, PartitionFields
<1>4. /\ s \in Sblks /\ o \in Nat /\ o < PagesPerSblk /\ <<s, o>> \in Pages
      /\ <<s, o>> \notin a.valid
  <2>1. s \in Sblks
    BY <1>1, <1>2, <1>3
  <2>2. o \in Nat /\ o \in Offsets
    BY <1>1, <1>2, <1>3, <2>1, Geometry DEF Offsets
  <2>3. <<s, o>> \notin a.valid
    <3> SUFFICES ASSUME <<s, o>> \in a.valid PROVE FALSE
      OBVIOUS
    <3>1. o < o
      BY <1>1, <1>2 DEF Linked
    <3> QED BY <2>2, <3>1
  <2> QED BY <1>2, <2>1, <2>2, <2>3 DEF Pages
<1>5. PutLeaves(a, c, s, o, x)
  BY <1>1, PutFields
<1>6. /\ IsStore(x) /\ IsPartition(x.b) /\ IsDevice(x.dev)
      /\ x.b.rsv = a.b.rsv /\ x.b.active = a.b.active /\ x.b.free = a.b.free
      /\ x.valid = a.valid \cup {<<s, o>>}
      /\ x.oob = [a.oob EXCEPT ![<<s, o>>] = c] /\ x.tppa = [a.tppa EXCEPT ![c] = <<s, o>>]
      /\ x.tActive = s /\ x.tReserve = a.tReserve
      /\ x.refused = FALSE /\ x.aborted = a.aborted
  BY <1>5 DEF PutLeaves
<1>7. /\ x.b.wp \in [Sblks -> 0 .. PagesPerSblk] /\ x.b.vcnt \in [Sblks -> Nat]
      /\ x.dev.state \in [Sblks -> SUBSET Offsets]
      /\ x.dev.wp \in [Sblks -> 0 .. PagesPerSblk]
  BY <1>5 DEF PutLeaves
<1>8. /\ \A i \in Sblks : x.b.wp[i] = IF i = s THEN o + 1 ELSE a.b.wp[i]
      /\ \A i \in Sblks : x.b.vcnt[i] = IF i = s THEN a.b.vcnt[s] + 1 ELSE a.b.vcnt[i]
      /\ \A i \in Sblks : x.dev.wp[i] = IF i = s THEN o + 1 ELSE a.dev.wp[i]
      /\ \A i \in Sblks : x.dev.state[i] = IF i = s THEN 0 .. o ELSE a.dev.state[i]
  BY <1>5 DEF PutLeaves
<1>9. x \in MapStore
  <2>1. x.b \in Partition
    BY <1>3, <1>6, <1>7, PartitionFields
  <2>2. x.dev \in Dev!Device
    BY <1>6, <1>7, DeviceFields
  <2>3. /\ x.valid \subseteq Pages /\ x.oob \in [Pages -> TPages]
        /\ x.tppa \in [TPages -> Pages \cup {NoPpa}]
    BY <1>3, <1>4, <1>6
  <2> QED BY <1>3, <1>4, <1>6, <2>1, <2>2, <2>3, StoreFields
<1>10. OnFlash(x, c) /\ \A d \in TPages : d # c => (OnFlash(x, d) <=> OnFlash(a, d))
  BY <1>3, <1>4, <1>6, Geometry DEF OnFlash
<1>11. Linked(x)
  <2>1. ASSUME NEW d \in TPages, OnFlash(x, d)
        PROVE  x.tppa[d] \in x.valid /\ x.oob[x.tppa[d]] = d
    <3>1. CASE d = c
      BY <1>3, <1>4, <1>6, <3>1
    <3>2. CASE d # c
      <4>1. x.tppa[d] = a.tppa[d] /\ OnFlash(a, d)
        BY <1>3, <1>6, <1>10, <2>1, <3>2
      <4>2. a.tppa[d] \in a.valid /\ a.oob[a.tppa[d]] = d
        BY <1>2, <4>1 DEF Linked
      <4>3. a.tppa[d] # <<s, o>> /\ a.tppa[d] \in Pages
        BY <1>3, <1>4, <4>2
      <4> QED BY <1>3, <1>6, <4>1, <4>2, <4>3
    <3> QED BY <3>1, <3>2
  <2>2. ASSUME NEW p \in x.valid PROVE x.tppa[x.oob[p]] = p /\ p[2] < x.b.wp[p[1]]
    <3>1. CASE p = <<s, o>>
      <4>1. x.oob[p] = c /\ x.tppa[c] = p
        BY <1>3, <1>4, <1>6, <3>1
      <4>2. x.b.wp[s] = o + 1
        BY <1>4, <1>8
      <4> QED BY <1>4, <3>1, <4>1, <4>2
    <3>2. CASE p # <<s, o>>
      <4>1. /\ p \in a.valid /\ p \in Pages /\ a.tppa[a.oob[p]] = p
            /\ p[2] < a.b.wp[p[1]] /\ a.oob[p] \in TPages
        BY <1>2, <1>3, <1>6, <3>2 DEF Linked
      <4>2. a.oob[p] # c
        BY <4>1, Geometry DEF OnFlash
      <4>3. x.oob[p] = a.oob[p] /\ x.tppa[a.oob[p]] = p
        BY <1>3, <1>4, <1>6, <3>2, <4>1, <4>2
      <4>4. p[1] \in Sblks /\ p[2] \in Nat
        BY <4>1 DEF Pages, Offsets
      <4>5. p[2] < x.b.wp[p[1]]
        BY <1>1, <1>4, <1>8, <4>1, <4>4
      <4> QED BY <4>3, <4>5
    <3> QED BY <3>1, <3>2
  <2> QED BY <2>1, <2>2 DEF Linked
<1>12. InStep(x)
  <2>1. ASSUME NEW i \in Sblks
        PROVE  x.dev.wp[i] = x.b.wp[i] /\ x.dev.state[i] = 0 .. x.b.wp[i] - 1
    <3>1. a.dev.wp[i] = a.b.wp[i] /\ a.dev.state[i] = 0 .. a.b.wp[i] - 1
      BY <1>2 DEF InStep
    <3>2. CASE i = s
      <4>1. o + 1 - 1 = o /\ x.b.wp[i] = o + 1 /\ x.dev.wp[i] = o + 1 /\ x.dev.state[i] = 0 .. o
        BY <1>4, <1>8, <3>2
      <4>2. x.b.wp[i] - 1 = o
        BY <1>4, <4>1
      <4> QED BY <4>1, <4>2
    <3>3. CASE i # s
      BY <1>8, <3>1, <3>3
    <3> QED BY <3>2, <3>3
  <2> QED BY <1>6, <2>1 DEF InStep
<1>13. ReserveClear(x)
  BY <1>1, <1>2, <1>3, <1>6, <1>8 DEF ReserveClear
<1>14. ValidCounted(x)
  <2>1. ValidOf(x, s) = ValidOf(a, s) \cup {<<s, o>>} /\ <<s, o>> \notin ValidOf(a, s)
    BY <1>4, <1>6 DEF ValidOf
  <2>2. \A i \in Sblks : i # s => ValidOf(x, i) = ValidOf(a, i)
    BY <1>6 DEF ValidOf
  <2>3. IsFiniteSet(ValidOf(a, s))
    BY <1>2, <1>4, ValidFinite
  <2>4. Cardinality(ValidOf(x, s)) = Cardinality(ValidOf(a, s)) + 1
    BY <2>1, <2>3, FS_AddElement
  <2>5. ASSUME NEW i \in Sblks PROVE x.b.vcnt[i] = Cardinality(ValidOf(x, i))
    <3>1. a.b.vcnt[i] = Cardinality(ValidOf(a, i))
      BY <1>2 DEF ValidCounted
    <3> QED BY <1>8, <2>2, <2>4, <3>1
  <2> QED BY <2>5 DEF ValidCounted
<1>15. FullOrEmpty(x) /\ SearchAt(x)
  BY <1>1, <1>2, <1>6, <1>8 DEF FullOrEmpty, SearchAt
<1>16. x.b.free = Cardinality(Erased(x)) /\ x.tActive # NoSblk /\ x.b.wp[x.tActive] > 0
  <2>1. Erased(x) = Erased(a) \ {s}
    BY <1>4, <1>8 DEF Erased
  <2>2. x.b.wp[s] > 0
    BY <1>4, <1>8
  <2> QED BY <1>2, <1>6, <2>1, <2>2
<1>17. MapSound(x)
  BY <1>9, <1>11, <1>12, <1>13, <1>14, <1>15, <1>16 DEF MapSound, StoreSound
<1> QED BY <1>6, <1>10, <1>17

(***************************************************************************)
(* A mapping page without a copy is written: one that has room is written  *)
(* and has its copy, and no other page gains or loses one.                 *)
(***************************************************************************)
LEMMA WriteSound ==
    ASSUME NEW m, MapSound(m), ~m.aborted, NEW c \in TPages, ~OnFlash(m, c),
           NEW x, x = write_tpage(m, c)
    PROVE  /\ MapSound(x)
           /\ \A d \in TPages : d # c => (OnFlash(x, d) <=> OnFlash(m, d))
           /\ IF x.aborted THEN ~OnFlash(x, c) ELSE OnFlash(x, c)
           /\ Roomy => ~x.aborted
<1>1. PICK a : a = open_sblk(m)
  OBVIOUS
<1>2. /\ a.aborted => a = Abort(m)
      /\ ~a.aborted => Opened(a) /\ \A d \in TPages : OnFlash(a, d) <=> OnFlash(m, d)
      /\ Roomy /\ (\E d \in TPages : ~OnFlash(m, d)) => ~a.aborted
  BY <1>1, OpenSound
<1>3. CASE a.aborted
  <2>1. x = a
    BY <1>1, <1>3 DEF write_tpage
  <2>2. MapSound(x) /\ x.aborted /\ x.tppa = m.tppa
    BY <1>2, <1>3, <2>1, AbortSound
  <2> QED BY <1>2, <2>1, <2>2 DEF OnFlash
<1>4. CASE ~a.aborted
  <2>1. Opened(a) /\ ~OnFlash(a, c)
    BY <1>2, <1>4
  <2>2. /\ MapSound(x) /\ x.aborted = a.aborted /\ OnFlash(x, c)
        /\ \A d \in TPages : d # c => (OnFlash(x, d) <=> OnFlash(a, d))
    BY <1>1, <1>4, <2>1, PutSound
  <2> QED BY <1>2, <1>4, <2>2
<1> QED BY <1>3, <1>4

\* The store dftl_bm_init and dftl_page_init leave.
LEMMA InitSound == MapSound(map_init) /\ ~map_init.aborted /\ \A c \in TPages : ~OnFlash(map_init, c)
<1>1. PICK m : m = map_init
  OBVIOUS
<1>2. /\ IsStore(m) /\ m.b = dftl_bm_init /\ m.valid = {} /\ m.oob = [p \in Pages |-> 0]
      /\ m.dev = Dev!ssd_init /\ m.tppa = [c \in TPages |-> NoPpa]
      /\ m.tActive = NoSblk /\ m.tReserve = SSblk /\ m.refused = FALSE /\ m.aborted = FALSE
  BY <1>1 DEF map_init, IsStore
<1>3. /\ IsPartition(m.b) /\ m.b.wp = [i \in Sblks |-> 0] /\ m.b.vcnt = [i \in Sblks |-> 0]
      /\ m.b.rsv = SSblk /\ m.b.active = NoSblk /\ m.b.free = ESblk - SSblk + 1
  BY <1>2 DEF dftl_bm_init, IsPartition
<1>4. /\ IsDevice(m.dev) /\ m.dev.state = [i \in Sblks |-> {}]
      /\ m.dev.wp = [i \in Sblks |-> 0]
  BY <1>2 DEF Dev!ssd_init, IsDevice
<1>5. m \in MapStore
  <2>1. m.b \in Partition
    BY <1>3, Geometry, PartitionFields
  <2>2. m.dev \in Dev!Device
    BY <1>4, Geometry, DeviceFields
  <2>3. m.oob \in [Pages -> TPages] /\ m.tppa \in [TPages -> Pages \cup {NoPpa}]
    BY <1>2, Geometry
  <2> QED BY <1>2, <2>1, <2>2, <2>3, Geometry, StoreFields
<1>6. Linked(m) /\ ReserveClear(m) /\ FullOrEmpty(m) /\ SearchAt(m)
  BY <1>2, <1>3, Geometry DEF Linked, OnFlash, ReserveClear, FullOrEmpty, SearchAt
<1>7. InStep(m)
  <2>1. 0 .. 0 - 1 = {}
    OBVIOUS
  <2> QED BY <1>2, <1>3, <1>4, <2>1 DEF InStep
<1>8. ValidCounted(m)
  <2>1. \A i \in Sblks : ValidOf(m, i) = {}
    BY <1>2 DEF ValidOf
  <2> QED BY <1>3, <2>1, FS_EmptySet DEF ValidCounted
<1>9. Erased(m) = Sblks /\ m.b.free = Cardinality(Erased(m))
  BY <1>3, Geometry DEF Erased
<1> QED BY <1>1, <1>2, <1>5, <1>6, <1>7, <1>8, <1>9 DEF MapSound, StoreSound, OnFlash

------------------------------------------------------------------------------
(***************************************************************************)
(* The LRU of the mapping cache, proved for every number of mapping pages, *)
(* cache size, readers and entries: it holds the cached pages, each once,  *)
(* and an eviction finds a victim in it.                                   *)
(*                                                                         *)
(* What flash looks like does not matter to the LRU, so the invariant says *)
(* nothing about the map, and holds for the operations of the cache as     *)
(* operators on the record of the cache variables.                         *)
(***************************************************************************)

\* c is a record with the fields of Cache.
IsCache(c) == c = [map |-> c.map, pt |-> c.pt, dirty |-> c.dirty, lru |-> c.lru,
                   nr |-> c.nr, stale |-> c.stale, late |-> c.late]

\* The sequence l lists the pages of P, each once.
Lists(l, P) ==
    /\ l \in Seq(P)
    /\ \A x \in P : InLru(l, x)
    /\ \A i, j \in 1 .. Len(l) : l[i] = l[j] => i = j

\* The inductive invariant, on a cache c.  Its last part is what keeps an
\* eviction from popping an empty LRU: nr runs ahead of the LRU's length, but
\* a cache that counts a page has one.
LruSound(c) ==
    /\ c.nr \in 0 .. MaxCached
    /\ Lists(c.lru, c.pt)
    /\ Len(c.lru) <= c.nr
    /\ c.nr > 0 => c.lru # <<>>

LruInv == LruSound(Cache)

-----------------------------------------------------------------------------
(***************************************************************************)
(* Moving a listed page to the head (lru_update) keeps the list.           *)
(***************************************************************************)
LEMMA UpdateLists ==
    ASSUME NEW P, NEW l, Lists(l, P), NEW x \in P
    PROVE  Lists(lru_update(l, x), P) /\ Len(lru_update(l, x)) = Len(l)
<1> DEFINE at == CHOOSE i \in 1 .. Len(l) : l[i] = x
           m == [i \in 1 .. Len(l) |->
                    IF i = 1 THEN x ELSE IF i <= at THEN l[i - 1] ELSE l[i]]
<1>1. l \in Seq(P) /\ Len(l) \in Nat
  BY DEF Lists
<1>2. at \in 1 .. Len(l) /\ l[at] = x
  BY DEF Lists, InLru
<1>3. \A i \in 1 .. Len(l) : l[i] \in P
  BY <1>1
<1>4. m = lru_update(l, x)
  BY DEF lru_update
<1> HIDE DEF at
<1>5. m \in Seq(P) /\ Len(m) = Len(l)
  <2>1. m \in [1 .. Len(l) -> P]
    BY <1>1, <1>2, <1>3
  <2> QED BY <2>1, <1>1
<1>6. \A y \in P : InLru(m, y)
  <2> SUFFICES ASSUME NEW y \in P PROVE InLru(m, y)
    OBVIOUS
  <2>1. PICK k \in 1 .. Len(l) : l[k] = y
    BY DEF Lists, InLru
  <2>2. CASE k = at
    BY <2>1, <2>2, <1>1, <1>2, <1>5 DEF InLru
  <2>3. CASE k < at
    <3>1. k + 1 \in 1 .. Len(l) /\ k + 1 # 1 /\ k + 1 <= at
      BY <2>3, <1>1, <1>2
    <3>2. m[k + 1] = l[k + 1 - 1] /\ k + 1 - 1 = k
      BY <3>1
    <3> QED BY <3>1, <3>2, <2>1, <1>5 DEF InLru
  <2>4. CASE k > at
    <3>1. k # 1 /\ ~(k <= at)
      BY <2>4, <1>2
    <3>2. m[k] = l[k]
      BY <3>1, <2>1
    <3> QED BY <3>2, <2>1, <1>5 DEF InLru
  <2> QED BY <2>2, <2>3, <2>4, <1>2
<1>7. \A i, j \in 1 .. Len(m) : m[i] = m[j] => i = j
  <2> DEFINE from(i) == IF i = 1 THEN at ELSE IF i <= at THEN i - 1 ELSE i
  <2>1. \A i \in 1 .. Len(l) : from(i) \in 1 .. Len(l) /\ m[i] = l[from(i)]
    BY <1>1, <1>2
  <2>2. \A i, j \in 1 .. Len(l) : from(i) = from(j) => i = j
    BY <1>1, <1>2
  <2>3. \A i, j \in 1 .. Len(l) : l[i] = l[j] => i = j
    BY DEF Lists
  <2> HIDE DEF from, m
  <2> QED BY <2>1, <2>2, <2>3, <1>5
<1> QED BY <1>4, <1>5, <1>6, <1>7 DEF Lists

(***************************************************************************)
(* Pushing a page that is not listed.                                      *)
(***************************************************************************)
LEMMA PushLists ==
    ASSUME NEW P, NEW l, Lists(l, P), NEW x, x \notin P
    PROVE  Lists(<<x>> \o l, P \cup {x}) /\ Len(<<x>> \o l) = Len(l) + 1
<1> DEFINE m == <<x>> \o l
<1>1. l \in Seq(P) /\ Len(l) \in Nat /\ \A i \in 1 .. Len(l) : l[i] \in P
  BY DEF Lists
<1>2. m \in Seq(P \cup {x}) /\ Len(m) = Len(l) + 1
  <2>1. l \in Seq(P \cup {x}) /\ <<x>> \in Seq(P \cup {x})
    BY <1>1
  <2> QED BY <2>1, <1>1
<1>3. m[1] = x /\ \A i \in 2 .. Len(m) : m[i] = l[i - 1]
  BY <1>1, <1>2
<1> HIDE DEF m
<1>4. \A y \in P \cup {x} : InLru(m, y)
  <2> SUFFICES ASSUME NEW y \in P \cup {x} PROVE InLru(m, y)
    OBVIOUS
  <2>1. CASE y = x
    BY <2>1, <1>1, <1>2, <1>3 DEF InLru
  <2>2. CASE y \in P
    <3>1. PICK k \in 1 .. Len(l) : l[k] = y
      BY <2>2 DEF Lists, InLru
    <3>2. k + 1 \in 2 .. Len(m) /\ k + 1 - 1 = k
      BY <1>1, <1>2
    <3>3. m[k + 1] = y /\ k + 1 \in 1 .. Len(m)
      BY <3>1, <3>2, <1>1, <1>2, <1>3
    <3> QED BY <3>3 DEF InLru
  <2> QED BY <2>1, <2>2
<1>5. ASSUME NEW i \in 1 .. Len(m), NEW j \in 1 .. Len(m), m[i] = m[j]
      PROVE  i = j
  <2>1. \A k \in 2 .. Len(m) : k - 1 \in 1 .. Len(l) /\ m[k] = l[k - 1] /\ m[k] # x
    BY <1>1, <1>2, <1>3
  <2>2. CASE i = 1
    BY <2>1, <2>2, <1>3, <1>5, <1>1, <1>2
  <2>3. CASE j = 1
    BY <2>1, <2>3, <1>3, <1>5, <1>1, <1>2
  <2>4. CASE i # 1 /\ j # 1
    <3>1. i \in 2 .. Len(m) /\ j \in 2 .. Len(m)
      BY <2>4, <1>1, <1>2
    <3>2. i - 1 = j - 1
      BY <3>1, <2>1, <1>5 DEF Lists
    <3> QED BY <3>1, <3>2
  <2> QED BY <2>2, <2>3, <2>4
<1> QED BY <1>2, <1>4, <1>5 DEF Lists, m

(***************************************************************************)
(* Popping the tail, which evict takes as its victim.                      *)
(***************************************************************************)
LEMMA PopLists ==
    ASSUME NEW P, NEW l, Lists(l, P), l # <<>>
    PROVE  /\ Lists(SubSeq(l, 1, Len(l) - 1), P \ {l[Len(l)]})
           /\ Len(SubSeq(l, 1, Len(l) - 1)) = Len(l) - 1
<1> DEFINE m == SubSeq(l, 1, Len(l) - 1)
           v == l[Len(l)]
<1>1. l \in Seq(P) /\ Len(l) \in Nat /\ Len(l) >= 1 /\ \A i \in 1 .. Len(l) : l[i] \in P
  BY DEF Lists
<1>2. Len(m) = Len(l) - 1 /\ \A i \in 1 .. Len(m) : m[i] = l[i]
  <2>1. m = [i \in 1 .. Len(l) - 1 |-> l[i]]
    BY <1>1
  <2>2. Len(m) = Len(l) - 1
    BY <1>1, <2>1
  <2> QED BY <2>1, <2>2
<1>3. \A i \in 1 .. Len(m) : m[i] \in P \ {v}
  BY <1>1, <1>2 DEF Lists
<1>4. m \in Seq(P \ {v})
  <2>1. m \in Seq(P)
    BY <1>1
  <2> QED BY <2>1, <1>3
<1> HIDE DEF m
<1>5. \A y \in P \ {v} : InLru(m, y)
  <2> SUFFICES ASSUME NEW y \in P \ {v} PROVE InLru(m, y)
    OBVIOUS
  <2>1. PICK k \in 1 .. Len(l) : l[k] = y
    BY DEF Lists, InLru
  <2>2. k \in 1 .. Len(m)
    BY <2>1, <1>1, <1>2
  <2> QED BY <2>1, <2>2, <1>2 DEF InLru
<1>6. \A i, j \in 1 .. Len(m) : m[i] = m[j] => i = j
  BY <1>1, <1>2 DEF Lists
<1> QED BY <1>2, <1>4, <1>5, <1>6 DEF Lists, m

-----------------------------------------------------------------------------
(***************************************************************************)
(* Each operation of dftl_cache.c keeps the LRU sound.                     *)
(***************************************************************************)
LEMMA TouchSound ==
    ASSUME NEW c, IsCache(c), LruSound(c), NEW x \in c.pt
    PROVE  IsCache(touch(c, x)) /\ LruSound(touch(c, x))
<1>1. /\ Lists(lru_update(c.lru, x), c.pt)
      /\ Len(lru_update(c.lru, x)) = Len(c.lru)
  BY UpdateLists DEF LruSound
<1>2. touch(c, x) = [map |-> c.map, pt |-> c.pt, dirty |-> c.dirty,
                     lru |-> lru_update(c.lru, x), nr |-> c.nr,
                     stale |-> c.stale, late |-> c.late]
  BY DEF touch, IsCache
<1>3. c.nr > 0 => lru_update(c.lru, x) # <<>>
  BY <1>1 DEF LruSound, Lists
<1> QED BY <1>1, <1>2, <1>3 DEF IsCache, LruSound

\* update: the list has each cached page once and the counts agree.
LEMMA UpdateSound ==
    ASSUME NEW c, IsCache(c), LruSound(c), NEW x
    PROVE  IsCache(update(c, x)) /\ LruSound(update(c, x))
<1> DEFINE d == update(c, x)
<1>1. IsCache(d) /\ d.pt = c.pt /\ d.nr = c.nr
  BY DEF update, IsCache
<1>2. CASE x \in c.pt
  <2>1. d.lru = lru_update(c.lru, x)
    BY <1>2 DEF update, IsCache
  <2>2. /\ Lists(lru_update(c.lru, x), c.pt)
        /\ Len(lru_update(c.lru, x)) = Len(c.lru)
    BY <1>2, UpdateLists DEF LruSound
  <2>3. c.nr > 0 => lru_update(c.lru, x) # <<>>
    BY <2>2 DEF LruSound, Lists
  <2> QED BY <1>1, <2>1, <2>2, <2>3 DEF LruSound
<1>3. CASE x \notin c.pt
  <2>1. d.lru = c.lru
    BY <1>3 DEF update, IsCache
  <2> QED BY <1>1, <2>1 DEF LruSound
<1> QED BY <1>2, <1>3

\* The eviction has a victim, and leaves room for the page that comes in.
LEMMA EvictSound ==
    ASSUME NEW c, IsCache(c), LruSound(c), is_full(c)
    PROVE  /\ c.lru # <<>>
           /\ IsCache(evict(c))
           /\ evict(c).nr \in 0 .. MaxCached - 1
           /\ Lists(evict(c).lru, evict(c).pt)
           /\ Len(evict(c).lru) <= evict(c).nr
<1> DEFINE d == evict(c)
           v == Tail_of(c)
<1>1. c.nr \in Nat /\ c.nr > 0 /\ c.nr <= MaxCached /\ MaxCached \in Nat
  BY MapCacheAssumption DEF LruSound, is_full
<1>2. c.lru # <<>>
  BY <1>1 DEF LruSound
<1>3. /\ IsCache(d) /\ d.lru = SubSeq(c.lru, 1, Len(c.lru) - 1)
      /\ d.nr = c.nr - 1 /\ d.pt = c.pt \ {v}
  BY <1>2 DEF evict, IsCache
<1>4. /\ Lists(SubSeq(c.lru, 1, Len(c.lru) - 1), c.pt \ {v})
      /\ Len(SubSeq(c.lru, 1, Len(c.lru) - 1)) = Len(c.lru) - 1
  BY <1>2, PopLists DEF LruSound, Tail_of
<1>5. Len(c.lru) \in Nat /\ Len(c.lru) <= c.nr
  BY DEF LruSound, Lists
<1> HIDE DEF d, v
<1>6. d.nr \in 0 .. MaxCached - 1 /\ Len(d.lru) <= d.nr
  BY <1>1, <1>3, <1>4, <1>5
<1> QED BY <1>2, <1>3, <1>4, <1>6 DEF d

\* list_up puts a loaded page at the front of the list, where no page was twice.
LEMMA ListUpSound ==
    ASSUME NEW c, IsCache(c), LruSound(c), NEW x
    PROVE  IsCache(list_up(c, x)) /\ LruSound(list_up(c, x))
<1> DEFINE d == IF is_full(c) THEN evict(c) ELSE c
           e == list_up(c, x)
<1>1. /\ IsCache(d)
      /\ d.nr \in 0 .. MaxCached - 1
      /\ Lists(d.lru, d.pt)
      /\ Len(d.lru) <= d.nr
  <2>1. CASE is_full(c)
    BY <2>1, EvictSound
  <2>2. CASE ~is_full(c)
    <3>1. c.nr \in 0 .. MaxCached - 1
      BY <2>2, MapCacheAssumption DEF LruSound, is_full
    <3> QED BY <2>2, <3>1 DEF LruSound
  <2> QED BY <2>1, <2>2
<1>2. /\ IsCache(e) /\ e.pt = d.pt \cup {x} /\ e.nr = d.nr + 1
      /\ e.lru = IF InLru(d.lru, x) THEN lru_update(d.lru, x) ELSE <<x>> \o d.lru
  <2>1. e = [d EXCEPT !.pt = @ \cup {x}, !.nr = @ + 1,
                      !.lru = IF InLru(@, x) THEN lru_update(@, x) ELSE <<x>> \o @]
    BY DEF list_up
  <2> HIDE DEF d, e
  <2> QED BY <1>1, <2>1 DEF IsCache
<1> HIDE DEF d, e
<1>3. InLru(d.lru, x) <=> x \in d.pt
  <2>1. \A i \in 1 .. Len(d.lru) : d.lru[i] \in d.pt
    BY <1>1 DEF Lists
  <2>2. InLru(d.lru, x) => x \in d.pt
    BY <2>1 DEF InLru
  <2>3. x \in d.pt => InLru(d.lru, x)
    BY <1>1 DEF Lists
  <2> QED BY <2>2, <2>3
<1>4. Len(d.lru) \in Nat /\ d.nr \in Nat /\ MaxCached \in Nat
  BY <1>1, MapCacheAssumption DEF Lists
<1>5. Lists(e.lru, e.pt) /\ Len(e.lru) <= e.nr /\ Len(e.lru) > 0
  <2>1. CASE x \in d.pt
    <3>1. /\ Lists(lru_update(d.lru, x), d.pt)
          /\ Len(lru_update(d.lru, x)) = Len(d.lru)
      BY <1>1, <2>1, UpdateLists
    <3>2. e.lru = lru_update(d.lru, x) /\ e.pt = d.pt
      BY <1>2, <1>3, <2>1
    <3>3. Len(d.lru) > 0
      BY <1>3, <1>4, <2>1 DEF InLru
    <3>4. Lists(e.lru, e.pt)
      BY <3>1, <3>2
    <3>5. Len(e.lru) = Len(d.lru)
      BY <3>1, <3>2
    <3> QED BY <1>1, <1>2, <1>4, <3>3, <3>4, <3>5
  <2>2. CASE x \notin d.pt
    <3>1. /\ Lists(<<x>> \o d.lru, d.pt \cup {x})
          /\ Len(<<x>> \o d.lru) = Len(d.lru) + 1
      BY <1>1, <2>2, PushLists
    <3>2. e.lru = <<x>> \o d.lru
      BY <1>2, <1>3, <2>2
    <3>3. Lists(e.lru, e.pt)
      BY <1>2, <3>1, <3>2
    <3>4. Len(e.lru) = Len(d.lru) + 1
      BY <3>1, <3>2
    <3> QED BY <1>1, <1>2, <1>4, <3>3, <3>4
  <2> QED BY <2>1, <2>2
<1>6. e.nr \in 0 .. MaxCached
  BY <1>1, <1>2, <1>4
<1>7. e.lru # <<>>
  BY <1>5
<1> QED BY <1>2, <1>5, <1>6, <1>7 DEF LruSound, e

-----------------------------------------------------------------------------
(***************************************************************************)
(* Every step keeps the LRU sound.                                         *)
(***************************************************************************)
LEMMA CacheIsCache == IsCache(Cache)
BY DEF IsCache, Cache

\* The actions end in SetCache of some record.
LEMMA SetSound ==
    ASSUME NEW c, LruSound(c), SetCache(c)
    PROVE  LruInv'
BY DEF SetCache, LruInv, LruSound, Cache

\* A change of the map or of the history alone.
LEMMA OthersSound ==
    ASSUME LruInv, lru' = lru, pt' = pt, nr' = nr
    PROVE  LruInv'
BY DEF LruInv, LruSound, Cache

\* The check of a loaded page by a flush keeps the list of cached pages.
LEMMA DataCheckSound ==
    ASSUME NEW e \in Entries, NEW x, NEW c, IsCache(c), LruSound(c),
           DataCheck(e, x, c)
    PROVE  LruInv'
<1>1. CASE SetCache(update(c, x))
  BY <1>1, UpdateSound, SetSound
<1>2. CASE SetCache(c)
  BY <1>2, SetSound
<1> QED BY <1>1, <1>2 DEF DataCheck

\* The empty cache.
LEMMA LruInit == Init => LruInv
<1> SUFFICES ASSUME Init PROVE LruInv
  OBVIOUS
<1>1. pt = {} /\ lru = <<>> /\ nr = 0
  BY DEF Init
<1> QED BY <1>1, MapCacheAssumption DEF LruInv, LruSound, Lists, Cache

\* Each step of the cache keeps the list and the set of cached pages the same.
LEMMA LruStep == LruInv /\ [Next]_vars => LruInv'
<1> SUFFICES ASSUME LruInv, [Next]_vars PROVE LruInv'
  OBVIOUS
<1>1. IsCache(Cache) /\ LruSound(Cache)
  BY CacheIsCache DEF LruInv
<1>2. ASSUME NEW r \in Readers, NEW x \in TPages, ReadHit(r, x)
      PROVE  LruInv'
  <2>1. x \in Cache.pt /\ SetCache(touch(Cache, x))
    BY <1>2 DEF ReadHit, Cache
  <2> QED BY <2>1, <1>1, TouchSound, SetSound
<1>3. ASSUME NEW r \in Readers, NEW x \in TPages, ReadLoad(r, x)
      PROVE  LruInv'
  BY <1>3, OthersSound DEF ReadLoad, cacheVars
<1>4. ASSUME NEW r \in Readers, ReadListUp(r)
      PROVE  LruInv'
  BY <1>1, <1>4, ListUpSound, SetSound DEF ReadListUp
<1>5. ASSUME NEW pages, NEW S, FlushStart(pages, S)
      PROVE  LruInv'
  BY <1>5, OthersSound DEF FlushStart, cacheVars
<1>6. CASE GcVisit
  <2> DEFINE x == Min(gcVisit)
  <2>1. CASE SetCache(update(Cache, x))
    BY <1>1, <2>1, UpdateSound, SetSound
  <2>2. CASE SetCache([Cache EXCEPT
                         !.map = IF OnFlash(@, x) THEN invalidate_tpage(@, x) ELSE @,
                         !.stale = @ \cup {x}])
    <3>1. lru' = lru /\ pt' = pt /\ nr' = nr
      BY <2>2 DEF SetCache, Cache
    <3> QED BY <3>1, OthersSound
  <2> QED BY <1>6, <2>1, <2>2 DEF GcVisit
<1>7. CASE GcWrite
  <2>1. lru' = lru /\ pt' = pt /\ nr' = nr
    BY <1>7 DEF GcWrite, SetCache, Cache
  <2> QED BY <2>1, OthersSound
<1>8. ASSUME NEW e \in Entries, EntryHit(e)
      PROVE  LruInv'
  <2> DEFINE x == wb[e].page
  <2>1. x \in Cache.pt /\ DataCheck(e, x, touch(Cache, x))
    BY <1>8 DEF EntryHit, Cache
  <2>2. IsCache(touch(Cache, x)) /\ LruSound(touch(Cache, x))
    BY <1>1, <2>1, TouchSound
  <2> QED BY <2>1, <2>2, DataCheckSound
<1>9. ASSUME NEW e \in Entries, EntryLoad(e)
      PROVE  LruInv'
  BY <1>9, OthersSound DEF EntryLoad, cacheVars
<1>10. ASSUME NEW e \in Entries, EntryListUp(e)
       PROVE  LruInv'
  <2> DEFINE x == wb[e].page
  <2>1. IsCache(list_up(Cache, x)) /\ LruSound(list_up(Cache, x))
    BY <1>1, ListUpSound
  <2>2. CASE SetCache(list_up(Cache, x))
    BY <2>1, <2>2, SetSound
  <2>3. CASE DataCheck(e, x, list_up(Cache, x))
    BY <2>1, <2>3, DataCheckSound
  <2> QED BY <1>10, <2>2, <2>3 DEF EntryListUp
<1>11. ASSUME NEW e \in Entries, EntryComplete(e)
       PROVE  LruInv'
  BY <1>1, <1>11, DataCheckSound DEF EntryComplete
<1>12. ASSUME NEW e \in Entries, EntryUpdate(e)
       PROVE  LruInv'
  BY <1>1, <1>12, UpdateSound, SetSound DEF EntryUpdate
<1>13. CASE UNCHANGED vars
  BY <1>13, OthersSound DEF vars, cacheVars
<1> QED BY <1>2, <1>3, <1>4, <1>5, <1>6, <1>7, <1>8, <1>9, <1>10, <1>11, <1>12,
           <1>13 DEF Next

-----------------------------------------------------------------------------
(***************************************************************************)
(* From the invariant to the property: the LRU's positions and the cached  *)
(* pages are in bijection.                                                 *)
(***************************************************************************)
LEMMA LruInvMeans == LruInv => LruIsCache
<1> SUFFICES ASSUME LruInv PROVE LruIsCache
  OBVIOUS
<1>1. Lists(lru, pt) /\ Len(lru) <= nr
  BY DEF LruInv, LruSound, Cache
<1>2. Len(lru) \in Nat /\ \A i \in 1 .. Len(lru) : lru[i] \in pt
  BY <1>1 DEF Lists
<1>3. pt = { lru[i] : i \in 1 .. Len(lru) }
  BY <1>1, <1>2 DEF Lists, InLru
<1>4. Cardinality(pt) = Len(lru)
  <2> DEFINE at == [i \in 1 .. Len(lru) |-> lru[i]]
  <2>1. at \in Bijection(1 .. Len(lru), pt)
    <3>1. at \in [1 .. Len(lru) -> pt]
      BY <1>2
    <3>2. \A i, j \in 1 .. Len(lru) : at[i] = at[j] => i = j
      BY <1>1 DEF Lists
    <3>3. \A x \in pt : \E i \in 1 .. Len(lru) : at[i] = x
      BY <1>1 DEF Lists, InLru
    <3> QED BY <3>1, <3>2, <3>3 DEF Bijection, Injection, Surjection, IsInjective
  <2>2. IsFiniteSet(1 .. Len(lru)) /\ Cardinality(1 .. Len(lru)) = Len(lru)
    BY <1>2, FS_Interval
  <2>3. ExistsBijection(1 .. Len(lru), pt)
    BY <2>1 DEF ExistsBijection
  <2> QED BY <2>2, <2>3, FS_Bijection
<1> QED BY <1>1, <1>3, <1>4 DEF LruIsCache

\* An eviction that falls due finds its victim: list_up never pops an empty
\* LRU, on which the code aborts.
EvictionFindsVictim == is_full(Cache) => lru # <<>>

(***************************************************************************)
(* Although the requests of both queues may load and list up the same      *)
(* page, the LRU is the cache.                                             *)
(***************************************************************************)
THEOREM LruCorrect == Spec => []LruIsCache
<1>1. LruInv /\ [Next]_vars => LruInv'
  BY LruStep
<1> QED BY LruInit, <1>1, LruInvMeans, PTL DEF Spec

(***************************************************************************)
(* An eviction finds a victim, although nr_cached_tpages runs ahead of the *)
(* number of cached pages.                                                 *)
(***************************************************************************)
THEOREM VictimFound == Spec => []EvictionFindsVictim
<1>1. LruInv => EvictionFindsVictim
  <2> SUFFICES ASSUME LruInv, is_full(Cache) PROVE lru # <<>>
    BY DEF EvictionFindsVictim
  <2>1. Cache.lru # <<>>
    BY CacheIsCache, EvictSound DEF LruInv
  <2> QED BY <2>1 DEF Cache
<1> QED BY LruInit, LruStep, <1>1, PTL DEF Spec

------------------------------------------------------------------------------
(***************************************************************************)
(* The store: the cache and its pages on flash together.                   *)
(***************************************************************************)

\* The pages of c that may not have a copy: the dirty ones, and the pages W the data GC has
\* invalidated and not yet written.  A copy there would be written over, and left valid.
NoCopies(c, W) ==
    /\ \A d \in c.dirty \cup W : ~OnFlash(c.map, d)
    /\ c.dirty \subseteq c.pt /\ W \cap c.pt = {}

\* A page of M, those with mappings, that is not dirty has a copy, or is about to, or was
\* updated after its eviction.
CleanOnFlash(c, W, M) ==
    \A d \in M \ c.dirty : OnFlash(c.map, d) \/ d \in W \/ d \in c.late

\* The inductive invariant, on a cache c.
StoreOf(c, W, M) ==
    /\ MapSound(c.map)
    /\ c.pt \subseteq TPages /\ c.stale \subseteq TPages /\ c.late \subseteq TPages
    /\ W \subseteq TPages /\ M \subseteq TPages
    /\ NoCopies(c, W)
    /\ c.stale \subseteq c.dirty \cup W \cup c.late
    /\ ~c.map.aborted => CleanOnFlash(c, W, M)

\* The pages the requests name.
QueueTypes ==
    /\ gcVisit \subseteq TPages
    /\ rd \in [Readers -> TPages \cup {NoTPage}]
    /\ wb \in [Entries -> [at : Resume, page : TPages]]

StoreInv == StoreOf(Cache, gcWrite, mapped) /\ QueueTypes

\* With room for the mapping pages the program does not abort.
Lives(c) == Roomy => ~c.map.aborted

-----------------------------------------------------------------------------
(***************************************************************************)
(* Each operation of dftl_cache.c keeps the invariant.                     *)
(***************************************************************************)
LEMMA MapTypes ==
    ASSUME NEW m, MapSound(m)
    PROVE  m \in MapStore /\ m.aborted \in BOOLEAN
BY StoreFields DEF MapSound, StoreSound

\* touch changes the LRU alone.
LEMMA TouchStore ==
    ASSUME NEW c, IsCache(c), NEW W, NEW M, StoreOf(c, W, M), NEW x,
           NEW d, d = touch(c, x)
    PROVE  StoreOf(d, W, M) /\ d.map = c.map
<1>1. /\ d.map = c.map /\ d.pt = c.pt /\ d.dirty = c.dirty /\ d.stale = c.stale
      /\ d.late = c.late
  BY DEF touch, IsCache
<1> QED BY <1>1 DEF StoreOf, NoCopies, CleanOnFlash

\* Updating a cached page leaves the flash alone and adds it to the mapped pages.
LEMMA UpdateStore ==
    ASSUME NEW c, IsCache(c), NEW W, NEW M, StoreOf(c, W, M), NEW x \in TPages,
           NEW d, d = update(c, x)
    PROVE  StoreOf(d, W, M \cup {x}) /\ d.map.aborted = c.map.aborted
<1>1. /\ MapSound(c.map) /\ c.pt \subseteq TPages /\ c.stale \subseteq TPages
      /\ c.late \subseteq TPages /\ W \subseteq TPages /\ M \subseteq TPages /\ NoCopies(c, W)
      /\ c.stale \subseteq c.dirty \cup W \cup c.late
      /\ ~c.map.aborted => CleanOnFlash(c, W, M)
  BY DEF StoreOf
<1>2. CASE x \notin c.pt
  <2>1. /\ d.map = c.map /\ d.pt = c.pt /\ d.dirty = c.dirty
        /\ d.stale = c.stale \cup {x} /\ d.late = c.late \cup {x}
    BY <1>2 DEF update, IsCache
  <2> QED BY <1>1, <2>1 DEF StoreOf, NoCopies, CleanOnFlash
<1>3. CASE x \in c.pt
  <2>1. PICK m : m = IF OnFlash(c.map, x) /\ x \notin c.dirty
                     THEN invalidate_tpage(c.map, x) ELSE c.map
    OBVIOUS
  <2>2. /\ d.map = m /\ d.pt = c.pt /\ d.dirty = c.dirty \cup {x}
        /\ d.stale = c.stale \cup {x} /\ d.late = c.late
    BY <1>3, <2>1 DEF update, IsCache
  <2>3. /\ MapSound(m) /\ m.aborted = c.map.aborted /\ ~OnFlash(m, x)
        /\ \A y \in TPages : y # x => (OnFlash(m, y) <=> OnFlash(c.map, y))
    <3>1. CASE OnFlash(c.map, x) /\ x \notin c.dirty
      BY <1>1, <2>1, <3>1, InvalidateSound
    <3>2. CASE ~(OnFlash(c.map, x) /\ x \notin c.dirty)
      BY <1>1, <2>1, <3>2 DEF NoCopies
    <3> QED BY <3>1, <3>2
  <2>4. NoCopies(d, W)
    BY <1>1, <1>3, <2>2, <2>3 DEF NoCopies
  <2>5. ~d.map.aborted => CleanOnFlash(d, W, M \cup {x})
    <3> SUFFICES ASSUME ~d.map.aborted, NEW y \in (M \cup {x}) \ d.dirty
                 PROVE  OnFlash(d.map, y) \/ y \in W \/ y \in d.late
      BY DEF CleanOnFlash
    <3>1. y \in M \ c.dirty /\ y # x /\ ~c.map.aborted
      BY <2>2, <2>3
    <3>2. OnFlash(c.map, y) \/ y \in W \/ y \in c.late
      BY <1>1, <3>1 DEF CleanOnFlash
    <3>3. y \in TPages
      BY <1>1, <3>1
    <3> QED BY <2>2, <2>3, <3>1, <3>2, <3>3
  <2> QED BY <1>1, <2>2, <2>3, <2>4, <2>5 DEF StoreOf
<1> QED BY <1>2, <1>3

\* The eviction takes a cached page, and writes it if it is dirty.
LEMMA EvictStore ==
    ASSUME NEW c, IsCache(c), NEW M, StoreOf(c, {}, M), LruSound(c), is_full(c),
           ~c.map.aborted, NEW d, d = evict(c)
    PROVE  StoreOf(d, {}, M) /\ Lives(d)
<1>1. /\ MapSound(c.map) /\ c.pt \subseteq TPages /\ c.stale \subseteq TPages
      /\ c.late \subseteq TPages /\ M \subseteq TPages /\ NoCopies(c, {})
      /\ c.stale \subseteq c.dirty \cup c.late /\ CleanOnFlash(c, {}, M)
  BY DEF StoreOf
<1>2. PICK v : v = Tail_of(c)
  OBVIOUS
<1>3. c.lru # <<>> /\ v \in c.pt /\ v \in TPages
  <2>1. c.lru # <<>> /\ c.lru \in Seq(c.pt)
    BY EvictSound DEF LruSound, Lists
  <2>2. Len(c.lru) \in 1 .. Len(c.lru)
    BY <2>1
  <2>3. c.lru[Len(c.lru)] \in c.pt
    BY <2>1, <2>2
  <2> QED BY <1>1, <1>2, <2>1, <2>3 DEF Tail_of
<1>4. CASE v \notin c.dirty
  <2>1. /\ d.map = c.map /\ d.pt = c.pt \ {v} /\ d.dirty = c.dirty
        /\ d.stale = c.stale /\ d.late = c.late
    BY <1>2, <1>3, <1>4 DEF evict, IsCache
  <2> QED BY <1>1, <1>4, <2>1 DEF StoreOf, NoCopies, CleanOnFlash, Lives
<1>5. CASE v \in c.dirty
  <2>1. PICK m : m = write_tpage(c.map, v)
    OBVIOUS
  <2>2. /\ d.map = m /\ d.pt = c.pt \ {v} /\ d.dirty = c.dirty \ {v}
        /\ d.stale = c.stale \ {v} /\ d.late = c.late \ {v}
    BY <1>2, <1>3, <1>5, <2>1 DEF evict, IsCache
  <2>3. ~OnFlash(c.map, v)
    BY <1>1, <1>5 DEF NoCopies
  <2>4. /\ MapSound(m)
        /\ \A y \in TPages : y # v => (OnFlash(m, y) <=> OnFlash(c.map, y))
        /\ IF m.aborted THEN ~OnFlash(m, v) ELSE OnFlash(m, v)
        /\ Roomy => ~m.aborted
    BY <1>1, <1>3, <2>1, <2>3, WriteSound
  <2>5. NoCopies(d, {})
    BY <1>1, <2>2, <2>4 DEF NoCopies
  <2>6. ASSUME ~m.aborted, NEW y \in M \ d.dirty
        PROVE  OnFlash(m, y) \/ y \in {} \/ y \in d.late
    <3>1. CASE y = v
      BY <2>4, <2>6, <3>1
    <3>2. CASE y # v
      <4>1. y \in TPages /\ y \in M \ c.dirty
        BY <1>1, <2>2, <2>6, <3>2
      <4>2. OnFlash(c.map, y) \/ y \in c.late
        BY <1>1, <4>1 DEF CleanOnFlash
      <4> QED BY <2>2, <2>4, <3>2, <4>1, <4>2
    <3> QED BY <3>1, <3>2
  <2>7. ~d.map.aborted => CleanOnFlash(d, {}, M)
    BY <2>2, <2>6 DEF CleanOnFlash
  <2>8. /\ d.pt \subseteq TPages /\ d.stale \subseteq TPages /\ d.late \subseteq TPages
        /\ d.stale \subseteq d.dirty \cup {} \cup d.late
    BY <1>1, <2>2
  <2> QED BY <1>1, <2>2, <2>4, <2>5, <2>7, <2>8 DEF StoreOf, Lives
<1> QED BY <1>4, <1>5

\* Loading a page evicts others, which writes the dirty ones, and keeps all of them somewhere.
LEMMA ListUpStore ==
    ASSUME NEW c, IsCache(c), NEW M, StoreOf(c, {}, M), LruSound(c),
           ~c.map.aborted, NEW x \in TPages, NEW e, e = list_up(c, x)
    PROVE  StoreOf(e, {}, M) /\ Lives(e)
<1>1. PICK d : d = IF is_full(c) THEN evict(c) ELSE c
  OBVIOUS
<1>2. IsCache(d) /\ StoreOf(d, {}, M) /\ Lives(d)
  <2>1. CASE is_full(c)
    BY <1>1, <2>1, EvictStore, EvictSound
  <2>2. CASE ~is_full(c)
    BY <1>1, <2>2 DEF Lives
  <2> QED BY <2>1, <2>2
<1>3. /\ e.map = d.map /\ e.pt = d.pt \cup {x} /\ e.dirty = d.dirty
      /\ e.stale = d.stale /\ e.late = d.late
  BY <1>1, <1>2 DEF list_up, IsCache
<1> QED BY <1>2, <1>3 DEF StoreOf, NoCopies, CleanOnFlash, Lives

\* The first loop of the data GC, for a page that is not cached.
LEMMA VisitStore ==
    ASSUME NEW c, IsCache(c), NEW W, NEW M, StoreOf(c, W, M), NEW x \in TPages,
           x \notin c.pt,
           NEW m, m = IF OnFlash(c.map, x) THEN invalidate_tpage(c.map, x) ELSE c.map,
           NEW d, d.map = m, d.pt = c.pt, d.dirty = c.dirty,
           d.stale = c.stale \cup {x}, d.late = c.late
    PROVE  StoreOf(d, W \cup {x}, M) /\ m.aborted = c.map.aborted
<1>1. /\ MapSound(c.map) /\ c.pt \subseteq TPages /\ c.stale \subseteq TPages
      /\ c.late \subseteq TPages /\ W \subseteq TPages /\ M \subseteq TPages /\ NoCopies(c, W)
      /\ c.stale \subseteq c.dirty \cup W \cup c.late
      /\ ~c.map.aborted => CleanOnFlash(c, W, M)
  BY DEF StoreOf
<1>2. /\ MapSound(m) /\ m.aborted = c.map.aborted /\ ~OnFlash(m, x)
      /\ \A y \in TPages : y # x => (OnFlash(m, y) <=> OnFlash(c.map, y))
  <2>1. CASE OnFlash(c.map, x)
    BY <1>1, <2>1, InvalidateSound
  <2>2. CASE ~OnFlash(c.map, x)
    BY <1>1, <2>2
  <2> QED BY <2>1, <2>2
<1>3. NoCopies(d, W \cup {x})
  BY <1>1, <1>2 DEF NoCopies
<1>4. ~d.map.aborted => CleanOnFlash(d, W \cup {x}, M)
  <2> SUFFICES ASSUME ~d.map.aborted, NEW y \in M \ d.dirty
               PROVE  OnFlash(d.map, y) \/ y \in W \cup {x} \/ y \in d.late
    BY DEF CleanOnFlash
  <2>1. y \in TPages /\ y \in M \ c.dirty /\ ~c.map.aborted
    BY <1>1, <1>2
  <2>2. OnFlash(c.map, y) \/ y \in W \/ y \in c.late
    BY <1>1, <2>1 DEF CleanOnFlash
  <2> QED BY <1>2, <2>1, <2>2
<1> QED BY <1>1, <1>2, <1>3, <1>4 DEF StoreOf

\* Its second loop, which writes one of the pages.
LEMMA WriteBackStore ==
    ASSUME NEW c, IsCache(c), NEW W, NEW M, StoreOf(c, W, M), ~c.map.aborted, NEW x \in W,
           NEW m, m = write_tpage(c.map, x),
           NEW d, d.map = m, d.pt = c.pt, d.dirty = c.dirty \ {x},
           d.stale = c.stale \ {x}, d.late = c.late \ {x}
    PROVE  StoreOf(d, W \ {x}, M) /\ Lives(d)
<1>1. /\ MapSound(c.map) /\ c.pt \subseteq TPages /\ c.stale \subseteq TPages
      /\ c.late \subseteq TPages /\ W \subseteq TPages /\ M \subseteq TPages /\ NoCopies(c, W)
      /\ c.stale \subseteq c.dirty \cup W \cup c.late
      /\ CleanOnFlash(c, W, M)
  BY DEF StoreOf
<1>2. x \in TPages /\ ~OnFlash(c.map, x) /\ x \notin c.dirty
  BY <1>1 DEF NoCopies
<1>3. /\ MapSound(m)
      /\ \A y \in TPages : y # x => (OnFlash(m, y) <=> OnFlash(c.map, y))
      /\ IF m.aborted THEN ~OnFlash(m, x) ELSE OnFlash(m, x)
      /\ Roomy => ~m.aborted
  BY <1>1, <1>2, WriteSound
<1>4. NoCopies(d, W \ {x})
  BY <1>1, <1>2, <1>3 DEF NoCopies
<1>5. ~d.map.aborted => CleanOnFlash(d, W \ {x}, M)
  <2> SUFFICES ASSUME ~d.map.aborted, NEW y \in M \ d.dirty
               PROVE  OnFlash(d.map, y) \/ y \in W \ {x} \/ y \in d.late
    BY DEF CleanOnFlash
  <2>1. CASE y = x
    BY <1>3, <2>1
  <2>2. CASE y # x
    <3>1. y \in TPages /\ y \in M \ c.dirty
      BY <1>1, <1>2, <2>2
    <3>2. OnFlash(c.map, y) \/ y \in W \/ y \in c.late
      BY <1>1, <3>1 DEF CleanOnFlash
    <3> QED BY <1>3, <2>2, <3>1, <3>2
  <2> QED BY <2>1, <2>2
<1> QED BY <1>1, <1>3, <1>4, <1>5 DEF StoreOf, Lives

-----------------------------------------------------------------------------
(***************************************************************************)
(* Every step keeps it.                                                    *)
(***************************************************************************)
Inv == LruInv /\ StoreInv

\* The actions that set the cache to c.
LEMMA SetStore ==
    ASSUME NEW c, NEW W, NEW M, StoreOf(c, W, M), SetCache(c),
           gcWrite' = W, mapped' \subseteq M
    PROVE  StoreOf(Cache, gcWrite, mapped)'
<1>1. /\ map' = c.map /\ pt' = c.pt /\ dirty' = c.dirty /\ stale' = c.stale
      /\ late' = c.late
  BY DEF SetCache
<1> QED BY <1>1 DEF StoreOf, NoCopies, CleanOnFlash, Cache

\* A step that does not abort.
LEMMA LivesOn ==
    ASSUME NEW c, Lives(c), SetCache(c), Roomy
    PROVE  NeverAborts'
BY DEF Lives, SetCache, NeverAborts

\* The check of a loaded page by a flush keeps the flash and the cache in step.
LEMMA DataCheckStore ==
    ASSUME NEW e \in Entries, NEW x \in TPages, NEW c, IsCache(c),
           StoreOf(c, {}, mapped), Lives(c), QueueTypes,
           DataCheck(e, x, c), UNCHANGED <<rd, gcVars>>, gcWrite = {}
    PROVE  StoreInv' /\ (Roomy => NeverAborts')
<1>1. gcWrite' = {} /\ gcVisit' = gcVisit /\ rd' = rd
  BY DEF gcVars
<1>2. CASE /\ SetCache(update(c, x)) /\ mapped' = mapped \cup {x}
           /\ wb' = [wb EXCEPT ![e] = IdleEntry]
  <2>1. PICK d : d = update(c, x)
    OBVIOUS
  <2>2. StoreOf(d, {}, mapped \cup {x}) /\ d.map.aborted = c.map.aborted
    BY <2>1, UpdateStore
  <2>3. StoreOf(Cache, gcWrite, mapped)'
    BY <1>1, <1>2, <2>1, <2>2, SetStore
  <2>4. QueueTypes'
    <3>1. IdleEntry \in [at : Resume, page : TPages]
      BY Geometry DEF IdleEntry, Resume
    <3> QED BY <1>1, <1>2, <3>1 DEF QueueTypes
  <2>5. Lives(d) /\ SetCache(d)
    BY <1>2, <2>1, <2>2 DEF Lives
  <2> QED BY <2>3, <2>4, <2>5, LivesOn DEF StoreInv
<1>3. CASE /\ SetCache(c) /\ UNCHANGED mapped
           /\ \E w \in [at : Resume, page : TPages] : wb' = [wb EXCEPT ![e] = w]
  <2>1. StoreOf(Cache, gcWrite, mapped)'
    BY <1>1, <1>3, SetStore
  <2>2. QueueTypes'
    BY <1>1, <1>3 DEF QueueTypes
  <2> QED BY <1>3, <2>1, <2>2, LivesOn DEF StoreInv
<1>4. /\ [at |-> "update", page |-> x] \in [at : Resume, page : TPages]
      /\ \A y \in TPages : [at |-> "lookup", page |-> y] \in [at : Resume, page : TPages]
  BY DEF Resume
<1> QED BY <1>2, <1>3, <1>4 DEF DataCheck

\* The empty partition and cache.
LEMMA StoreInit == Init => StoreInv /\ NeverAborts
<1> SUFFICES ASSUME Init PROVE StoreInv /\ NeverAborts
  OBVIOUS
<1>1. /\ map = map_init /\ pt = {} /\ dirty = {} /\ mapped = {} /\ stale = {} /\ late = {}
      /\ gcVisit = {} /\ gcWrite = {} /\ rd = [r \in Readers |-> NoTPage]
      /\ wb = [e \in Entries |-> IdleEntry]
  BY DEF Init
<1>2. /\ Cache.map = map_init /\ Cache.pt = {} /\ Cache.dirty = {} /\ Cache.stale = {}
      /\ Cache.late = {}
  BY <1>1 DEF Cache
<1>3. StoreOf(Cache, gcWrite, mapped)
  BY <1>1, <1>2, InitSound DEF StoreOf, NoCopies, CleanOnFlash
<1>4. QueueTypes
  <2>1. IdleEntry \in [at : Resume, page : TPages]
    BY Geometry DEF IdleEntry, Resume
  <2> QED BY <1>1, <2>1 DEF QueueTypes
<1> QED BY <1>1, <1>3, <1>4, InitSound DEF StoreInv, NeverAborts

\* The cache and the pages of the queues as an action finds them.
LEMMA Found ==
    ASSUME Inv
    PROVE  /\ IsCache(Cache) /\ LruSound(Cache) /\ StoreOf(Cache, gcWrite, mapped)
           /\ QueueTypes /\ Cache.map = map /\ Cache.pt = pt
BY CacheIsCache DEF Inv, LruInv, StoreInv, Cache

\* The steps of a read.
LEMMA ReadsStore ==
    ASSUME Inv, NEW r \in Readers, NEW x \in TPages,
           ReadHit(r, x) \/ ReadLoad(r, x) \/ ReadListUp(r)
    PROVE  StoreInv' /\ (Roomy => NeverAborts')
<1>1. /\ IsCache(Cache) /\ LruSound(Cache) /\ StoreOf(Cache, gcWrite, mapped)
      /\ QueueTypes /\ Cache.map = map
  BY Found
<1>2. CASE ReadHit(r, x)
  <2>1. PICK d : d = touch(Cache, x)
    OBVIOUS
  <2>2. StoreOf(d, gcWrite, mapped) /\ d.map = map /\ ~map.aborted
    BY <1>1, <1>2, <2>1, TouchStore DEF ReadHit, Ready
  <2>3. /\ SetCache(d) /\ gcWrite' = gcWrite /\ mapped' = mapped /\ gcVisit' = gcVisit
        /\ rd' = rd /\ wb' = wb
    BY <1>2, <2>1 DEF ReadHit, gcVars
  <2>4. StoreOf(Cache, gcWrite, mapped)' /\ QueueTypes'
    BY <1>1, <2>2, <2>3, SetStore DEF QueueTypes
  <2> QED BY <2>2, <2>3, <2>4, LivesOn DEF StoreInv, Lives
<1>3. CASE ReadLoad(r, x)
  <2>1. /\ Cache' = Cache /\ gcWrite' = gcWrite /\ mapped' = mapped /\ gcVisit' = gcVisit
        /\ rd' = [rd EXCEPT ![r] = x] /\ wb' = wb /\ map' = map /\ ~map.aborted
    BY <1>3 DEF ReadLoad, Ready, gcVars, cacheVars, Cache
  <2>2. StoreOf(Cache, gcWrite, mapped)'
    BY <1>1, <2>1
  <2>3. QueueTypes'
    BY <1>1, <2>1 DEF QueueTypes
  <2> QED BY <2>1, <2>2, <2>3 DEF StoreInv, NeverAborts
<1>4. CASE ReadListUp(r)
  <2>1. PICK d : d = list_up(Cache, rd[r])
    OBVIOUS
  <2>2. rd[r] \in TPages /\ gcWrite = {} /\ ~map.aborted
    BY <1>1, <1>4 DEF ReadListUp, Ready, QueueTypes
  <2>3. StoreOf(d, {}, mapped) /\ Lives(d)
    BY <1>1, <2>1, <2>2, ListUpStore
  <2>4. /\ SetCache(d) /\ gcWrite' = {} /\ mapped' = mapped /\ gcVisit' = gcVisit
        /\ rd' = [rd EXCEPT ![r] = NoTPage] /\ wb' = wb
    BY <1>4, <2>1, <2>2 DEF ReadListUp, gcVars
  <2>5. StoreOf(Cache, gcWrite, mapped)' /\ QueueTypes'
    BY <1>1, <2>3, <2>4, SetStore DEF QueueTypes
  <2> QED BY <2>3, <2>4, <2>5, LivesOn DEF StoreInv
<1> QED BY <1>2, <1>3, <1>4

\* A flush begins.
LEMMA FlushStore ==
    ASSUME Inv, NEW pages \in [Entries -> TPages], NEW S \in SUBSET mapped,
           FlushStart(pages, S)
    PROVE  StoreInv' /\ NeverAborts'
<1>1. StoreOf(Cache, gcWrite, mapped) /\ QueueTypes
  BY Found
<1>2. /\ Cache' = Cache /\ gcWrite' = gcWrite /\ mapped' = mapped /\ rd' = rd
      /\ gcVisit' = S /\ map' = map /\ ~map.aborted
      /\ wb' = [e \in Entries |-> [at |-> "lookup", page |-> pages[e]]]
  BY DEF FlushStart, Ready, cacheVars, Cache
<1>3. StoreOf(Cache, gcWrite, mapped)'
  BY <1>1, <1>2
<1>4. QueueTypes'
  <2>1. S \subseteq TPages
    BY <1>1 DEF StoreOf
  <2>2. wb' \in [Entries -> [at : Resume, page : TPages]]
    BY <1>2 DEF Resume
  <2> QED BY <1>1, <1>2, <2>1, <2>2 DEF QueueTypes
<1> QED BY <1>2, <1>3, <1>4 DEF StoreInv, NeverAborts

\* The steps of a GC of value pages, which changes the mappings of what it moved.
LEMMA GcStore ==
    ASSUME Inv, GcVisit \/ GcWrite
    PROVE  StoreInv' /\ (Roomy => NeverAborts')
<1>1. /\ IsCache(Cache) /\ StoreOf(Cache, gcWrite, mapped) /\ QueueTypes
      /\ Cache.map = map /\ Cache.pt = pt
  BY Found
<1>2. CASE GcVisit
  <2>1. PICK x : x = Min(gcVisit)
    OBVIOUS
  <2>2. /\ gcVisit # {} /\ ~map.aborted /\ gcVisit' = gcVisit \ {x}
        /\ mapped' = mapped /\ rd' = rd /\ wb' = wb
    BY <1>2, <2>1 DEF GcVisit
  <2>3. x \in TPages
    <3>1. gcVisit \in SUBSET Nat /\ gcVisit \subseteq TPages
      BY <1>1 DEF QueueTypes, TPages
    <3>2. Min(gcVisit) \in gcVisit
      BY <2>2, <3>1, MinOfNats
    <3> QED BY <2>1, <3>1, <3>2
  <2>4. QueueTypes'
    BY <1>1, <2>2 DEF QueueTypes
  <2>5. CASE x \in pt
    <3>1. PICK d : d = update(Cache, x)
      OBVIOUS
    <3>2. SetCache(d) /\ gcWrite' = gcWrite
      BY <1>2, <2>1, <2>5, <3>1 DEF GcVisit
    <3>3. StoreOf(d, gcWrite, mapped \cup {x}) /\ d.map.aborted = map.aborted
      BY <1>1, <2>3, <3>1, UpdateStore
    <3>4. StoreOf(Cache, gcWrite, mapped)' /\ Lives(d)
      BY <2>2, <3>2, <3>3, SetStore DEF Lives
    <3> QED BY <2>4, <3>2, <3>4, LivesOn DEF StoreInv
  <2>6. CASE x \notin pt
    <3>1. PICK m, d :
             /\ m = IF OnFlash(Cache.map, x) THEN invalidate_tpage(Cache.map, x)
                    ELSE Cache.map
             /\ d = [Cache EXCEPT !.map = m, !.stale = @ \cup {x}]
      OBVIOUS
    <3>2. SetCache(d) /\ gcWrite' = gcWrite \cup {x}
      BY <1>1, <1>2, <2>1, <2>6, <3>1 DEF GcVisit
    <3>3. /\ d.map = m /\ d.pt = Cache.pt /\ d.dirty = Cache.dirty
          /\ d.stale = Cache.stale \cup {x} /\ d.late = Cache.late
      BY <1>1, <3>1 DEF IsCache
    <3>4. /\ IsCache(Cache) /\ StoreOf(Cache, gcWrite, mapped) /\ x \notin Cache.pt
          /\ m = IF OnFlash(Cache.map, x) THEN invalidate_tpage(Cache.map, x) ELSE Cache.map
      BY <1>1, <2>6, <3>1
    <3>5. StoreOf(d, gcWrite \cup {x}, mapped) /\ m.aborted = Cache.map.aborted
      BY <2>3, <3>3, <3>4, VisitStore
    <3>6. StoreOf(Cache, gcWrite, mapped)' /\ Lives(d)
      BY <1>1, <2>2, <3>2, <3>3, <3>5, SetStore DEF Lives
    <3> QED BY <2>4, <3>2, <3>6, LivesOn DEF StoreInv
  <2> QED BY <2>5, <2>6
<1>3. CASE GcWrite
  <2>1. PICK x : x = Min(gcWrite)
    OBVIOUS
  <2>2. /\ gcWrite # {} /\ ~map.aborted /\ gcWrite' = gcWrite \ {x}
        /\ mapped' = mapped /\ rd' = rd /\ wb' = wb /\ gcVisit' = gcVisit
    BY <1>3, <2>1 DEF GcWrite
  <2>3. x \in gcWrite
    <3>1. gcWrite \in SUBSET Nat
      BY <1>1 DEF StoreOf, TPages
    <3> QED BY <2>1, <2>2, <3>1, MinOfNats
  <2>4. PICK m, d : /\ m = write_tpage(map, x)
                    /\ d = [Cache EXCEPT !.map = m, !.dirty = @ \ {x},
                                         !.stale = @ \ {x}, !.late = @ \ {x}]
    OBVIOUS
  <2>5. SetCache(d)
    BY <1>1, <1>3, <2>1, <2>4 DEF GcWrite
  <2>6. /\ d.map = m /\ d.pt = Cache.pt /\ d.dirty = Cache.dirty \ {x}
        /\ d.stale = Cache.stale \ {x} /\ d.late = Cache.late \ {x}
    BY <1>1, <2>4 DEF IsCache
  <2>7. StoreOf(d, gcWrite \ {x}, mapped) /\ Lives(d)
    <3>1. IsCache(Cache) /\ StoreOf(Cache, gcWrite, mapped)
      BY <1>1
    <3>2. ~Cache.map.aborted /\ m = write_tpage(Cache.map, x)
      BY <2>2, <2>4 DEF Cache
    <3> QED BY <2>3, <2>6, <3>1, <3>2, WriteBackStore
  <2>8. StoreOf(Cache, gcWrite, mapped)' /\ QueueTypes'
    BY <1>1, <2>2, <2>5, <2>7, SetStore DEF QueueTypes
  <2> QED BY <2>5, <2>7, <2>8, LivesOn DEF StoreInv
<1> QED BY <1>2, <1>3

\* The steps of the update of one mapping by a flush.
LEMMA EntryStore ==
    ASSUME Inv, NEW e \in Entries,
           EntryHit(e) \/ EntryLoad(e) \/ EntryListUp(e) \/ EntryComplete(e) \/ EntryUpdate(e)
    PROVE  StoreInv' /\ (Roomy => NeverAborts')
<1> DEFINE x == wb[e].page
<1>1. /\ IsCache(Cache) /\ LruSound(Cache) /\ StoreOf(Cache, gcWrite, mapped)
      /\ QueueTypes /\ Cache.map = map /\ Cache.pt = pt
  BY Found
<1>2. Ready
  BY DEF EntryHit, EntryLoad, EntryListUp, EntryComplete, EntryUpdate, At
<1>3. gcWrite = {} /\ ~map.aborted /\ StoreOf(Cache, {}, mapped) /\ Lives(Cache)
  BY <1>1, <1>2 DEF Ready, Lives
<1>4. x \in TPages /\ wb \in [Entries -> [at : Resume, page : TPages]]
  BY <1>1 DEF QueueTypes
<1> HIDE DEF x
<1>5. CASE EntryHit(e)
  <2>1. PICK d : d = touch(Cache, x)
    OBVIOUS
  <2>2. StoreOf(d, {}, mapped) /\ d.map = map /\ x \in Cache.pt
    BY <1>1, <1>3, <1>5, <2>1, TouchStore DEF EntryHit, x
  <2>3. IsCache(d)
    BY <1>1, <2>1, <2>2, TouchSound
  <2>4. DataCheck(e, x, d) /\ UNCHANGED <<rd, gcVars>>
    BY <1>5, <2>1 DEF EntryHit, x
  <2>5. Lives(d)
    BY <1>3, <2>2 DEF Lives
  <2> QED BY <1>1, <1>3, <1>4, <2>2, <2>3, <2>4, <2>5, DataCheckStore
<1>6. CASE EntryLoad(e)
  <2>1. /\ Cache' = Cache /\ gcWrite' = gcWrite /\ mapped' = mapped /\ gcVisit' = gcVisit
        /\ rd' = rd /\ wb' = [wb EXCEPT ![e].at = "list"] /\ map' = map
    BY <1>6 DEF EntryLoad, gcVars, cacheVars, Cache
  <2>2. StoreOf(Cache, gcWrite, mapped)'
    BY <1>1, <2>1
  <2>3. wb' \in [Entries -> [at : Resume, page : TPages]]
    BY <1>4, <2>1 DEF Resume
  <2>4. QueueTypes'
    BY <1>1, <2>1, <2>3 DEF QueueTypes
  <2> QED BY <1>3, <2>1, <2>2, <2>4 DEF StoreInv, NeverAborts
<1>7. CASE EntryListUp(e)
  <2>1. PICK d : d = list_up(Cache, x)
    OBVIOUS
  <2>2. StoreOf(d, {}, mapped) /\ Lives(d) /\ IsCache(d)
    BY <1>1, <1>3, <1>4, <2>1, ListUpStore, ListUpSound
  <2>3. UNCHANGED <<rd, gcVars>>
    BY <1>7 DEF EntryListUp
  <2>4. CASE SetCache(d) /\ wb' = [wb EXCEPT ![e].at = "complete"] /\ UNCHANGED mapped
    <3>1. gcWrite' = {} /\ gcVisit' = gcVisit /\ rd' = rd
      BY <1>3, <2>3 DEF gcVars
    <3>2. StoreOf(Cache, gcWrite, mapped)'
      BY <2>2, <2>4, <3>1, SetStore
    <3>3. wb' \in [Entries -> [at : Resume, page : TPages]]
      BY <1>4, <2>4 DEF Resume
    <3>4. QueueTypes'
      BY <1>1, <3>1, <3>3 DEF QueueTypes
    <3> QED BY <2>2, <2>4, <3>2, <3>4, LivesOn DEF StoreInv
  <2>5. CASE DataCheck(e, x, d)
    BY <1>1, <1>3, <1>4, <2>2, <2>3, <2>5, DataCheckStore
  <2> QED BY <1>7, <2>1, <2>4, <2>5 DEF EntryListUp, x
<1>8. CASE EntryComplete(e)
  <2>1. DataCheck(e, x, Cache) /\ UNCHANGED <<rd, gcVars>>
    BY <1>8 DEF EntryComplete, x
  <2> QED BY <1>1, <1>3, <1>4, <2>1, DataCheckStore
<1>9. CASE EntryUpdate(e)
  <2>1. PICK d : d = update(Cache, x)
    OBVIOUS
  <2>2. StoreOf(d, {}, mapped \cup {x}) /\ d.map.aborted = map.aborted
    BY <1>1, <1>3, <1>4, <2>1, UpdateStore
  <2>3. /\ SetCache(d) /\ mapped' = mapped \cup {x} /\ wb' = [wb EXCEPT ![e] = IdleEntry]
        /\ gcWrite' = {} /\ gcVisit' = gcVisit /\ rd' = rd
    BY <1>3, <1>9, <2>1 DEF EntryUpdate, gcVars, x
  <2>4. StoreOf(Cache, gcWrite, mapped)' /\ Lives(d)
    BY <1>3, <2>2, <2>3, SetStore DEF Lives
  <2>5. QueueTypes'
    <3>1. IdleEntry \in [at : Resume, page : TPages]
      BY Geometry DEF IdleEntry, Resume
    <3> QED BY <1>1, <2>3, <3>1 DEF QueueTypes
  <2> QED BY <2>3, <2>4, <2>5, LivesOn DEF StoreInv
<1> QED BY <1>5, <1>6, <1>7, <1>8, <1>9

\* Each step keeps the invariant.
LEMMA StoreStep == Inv /\ [Next]_vars => Inv'
<1> SUFFICES ASSUME Inv, [Next]_vars PROVE Inv'
  OBVIOUS
<1>1. LruInv'
  BY LruStep DEF Inv
<1>2. CASE UNCHANGED vars
  <2>1. /\ map' = map /\ pt' = pt /\ dirty' = dirty /\ lru' = lru /\ nr' = nr
        /\ stale' = stale /\ late' = late /\ mapped' = mapped /\ rd' = rd /\ wb' = wb
        /\ gcVisit' = gcVisit /\ gcWrite' = gcWrite
    BY <1>2 DEF vars, cacheVars, gcVars
  <2>2. Cache' = Cache
    BY <2>1 DEF Cache
  <2>3. StoreOf(Cache, gcWrite, mapped) /\ QueueTypes
    BY DEF Inv, StoreInv
  <2>4. StoreOf(Cache, gcWrite, mapped)'
    BY <2>1, <2>2, <2>3
  <2>5. QueueTypes'
    BY <2>1, <2>3 DEF QueueTypes
  <2> QED BY <1>1, <2>4, <2>5 DEF Inv, StoreInv
<1>3. CASE Next
  BY <1>3, ReadsStore, FlushStore, GcStore, EntryStore, <1>1, Geometry DEF Next, Inv
<1> QED BY <1>1, <1>2, <1>3 DEF Inv

\* No step aborts while the partition has room for every mapping page.
LEMMA LivesStep == Inv /\ NeverAborts /\ Roomy /\ [Next]_vars => NeverAborts'
<1> SUFFICES ASSUME Inv, NeverAborts, Roomy, [Next]_vars PROVE NeverAborts'
  OBVIOUS
<1>1. CASE UNCHANGED vars
  BY <1>1 DEF vars, cacheVars, NeverAborts
<1>2. CASE Next
  BY <1>2, ReadsStore, FlushStore, GcStore, EntryStore, Geometry DEF Next
<1> QED BY <1>1, <1>2

\* The invariant holds at the start.
LEMMA InvInit == Init => Inv
BY LruInit, StoreInit DEF Inv

-----------------------------------------------------------------------------
(***************************************************************************)
(* What the invariant says of the map: the properties of MapCache.         *)
(***************************************************************************)
LEMMA InvMap == Inv => MapSound(map)
BY Found DEF StoreOf

\* A sound partition has t_ppa and oob inverse to each other.
LEMMA MapTppa == MapSound(map) => TppaSound
<1> SUFFICES ASSUME MapSound(map) PROVE TppaSound
  OBVIOUS
<1> DEFINE flashed == { c \in DOMAIN map.tppa : OnFlash(map, c) }
<1>1. /\ Linked(map) /\ InStep(map) /\ DOMAIN map.tppa = TPages /\ map.valid \subseteq Pages
      /\ map.oob \in [Pages -> TPages] /\ map.b.wp \in [Sblks -> 0 .. PagesPerSblk]
  BY StoreFields, PartitionFields DEF MapSound, StoreSound
<1>2. ASSUME NEW c \in flashed
      PROVE  /\ map.oob[map.tppa[c]] = c /\ map.tppa[c] \in map.valid
             /\ map.tppa[c][2] \in map.dev.state[map.tppa[c][1]]
  <2>1. PICK p : p = map.tppa[c]
    OBVIOUS
  <2>2. p \in map.valid /\ map.oob[p] = c
    BY <1>1, <2>1 DEF Linked
  <2>3. p \in Sblks \X Offsets /\ p[2] < map.b.wp[p[1]]
    BY <1>1, <2>2 DEF Linked, Pages
  <2>4. p[1] \in Sblks /\ p[2] \in Nat /\ map.b.wp[p[1]] \in Nat
    <3>1. p[1] \in Sblks /\ p[2] \in 0 .. PagesPerSblk - 1
      BY <2>3 DEF Offsets
    <3> QED BY <1>1, <3>1
  <2>5. map.dev.state[p[1]] = 0 .. map.b.wp[p[1]] - 1
    BY <1>1, <2>4 DEF InStep
  <2> QED BY <2>1, <2>2, <2>3, <2>4, <2>5
<1>3. ASSUME NEW p \in map.valid
      PROVE  \E c \in flashed : p = map.tppa[c]
  <2>1. map.tppa[map.oob[p]] = p /\ p \in Pages
    BY <1>1 DEF Linked
  <2>2. map.oob[p] \in TPages /\ p # NoPpa
    BY <1>1, <2>1, Geometry
  <2> QED BY <1>1, <2>1, <2>2 DEF OnFlash
<1>4. map.valid = { map.tppa[c] : c \in flashed }
  BY <1>2, <1>3
<1> QED BY <1>2, <1>4 DEF TppaSound

\* A sound partition has its reserve erased.
LEMMA MapReserve == MapSound(map) => ReserveErased
<1> SUFFICES ASSUME MapSound(map) PROVE ReserveErased
  OBVIOUS
<1>1. /\ Linked(map) /\ InStep(map) /\ ReserveClear(map) /\ map.tReserve \in Sblks
      /\ map.valid \subseteq Pages
  BY StoreFields DEF MapSound, StoreSound
<1>2. map.dev.state[map.tReserve] = {}
  <2>1. map.dev.state[map.tReserve] = 0 .. 0 - 1
    BY <1>1 DEF InStep, ReserveClear
  <2> QED BY <2>1
<1>3. ASSUME NEW p \in map.valid, p[1] = map.tReserve PROVE FALSE
  <2>1. p[2] < 0
    BY <1>1, <1>3 DEF Linked, ReserveClear
  <2>2. p[2] \in Nat
    BY <1>1, <1>3 DEF Pages, Offsets
  <2> QED BY <2>1, <2>2
<1> QED BY <1>1, <1>2, <1>3 DEF ReserveErased, ReserveClear

\* A sound partition has exact counters.
LEMMA MapCounts == MapSound(map) => CountersExact
BY DEF MapSound, StoreSound, ValidCounted, ValidOf, Erased, CountersExact

\* A sound partition agrees with the device about the next page to program.
LEMMA MapInStep == MapSound(map) => NoWriteRefused
BY DEF MapSound, StoreSound, InStep, NoWriteRefused

-----------------------------------------------------------------------------
(***************************************************************************)
(* t_ppa and the oob stay inverse to each other, so a GC of the partition  *)
(* finds the cmt of every page it moves, and no other page is valid.       *)
(***************************************************************************)
THEOREM LinksHold == Spec => []TppaSound
<1>1. Inv => TppaSound
  BY InvMap, MapTppa
<1> QED BY InvInit, StoreStep, <1>1, PTL DEF Spec

(***************************************************************************)
(* valid_cnt and free_sblk_cnt, which choose the victim of a GC and decide *)
(* when one runs, count exactly.                                           *)
(***************************************************************************)
THEOREM CountersHold == Spec => []CountersExact
<1>1. Inv => CountersExact
  BY InvMap, MapCounts
<1> QED BY InvInit, StoreStep, <1>1, PTL DEF Spec

(***************************************************************************)
(* The superblock a GC copies into is erased, and the device never refuses *)
(* the copy or any other write, whose return code dftl_pg.c ignores.       *)
(***************************************************************************)
THEOREM GcHasRoom == Spec => [](ReserveErased /\ NoWriteRefused)
<1>1. Inv => ReserveErased /\ NoWriteRefused
  BY InvMap, MapReserve, MapInStep
<1> QED BY InvInit, StoreStep, <1>1, PTL DEF Spec

(***************************************************************************)
(* The variables keep their types; nr_cached_tpages stays within its       *)
(* limit although it runs ahead of the LRU.                                *)
(***************************************************************************)
THEOREM CacheTypes == Spec => []TypeOK
<1>1. Inv => TypeOK
  <2> SUFFICES ASSUME Inv PROVE TypeOK
    OBVIOUS
  <2>1. /\ StoreOf(Cache, gcWrite, mapped) /\ LruSound(Cache) /\ QueueTypes
        /\ MapSound(map) /\ map \in MapStore
    BY Found, InvMap, MapTypes
  <2>2. /\ pt \subseteq TPages /\ dirty \subseteq TPages /\ stale \subseteq TPages
        /\ late \subseteq TPages /\ mapped \subseteq TPages /\ gcWrite \subseteq TPages
    BY <2>1 DEF StoreOf, NoCopies, Cache
  <2>3. lru \in Seq(TPages) /\ nr \in 0 .. MaxCached
    <3>1. lru \in Seq(pt) /\ nr \in 0 .. MaxCached
      BY <2>1 DEF LruSound, Lists, Cache
    <3> QED BY <2>2, <3>1
  <2> QED BY <2>1, <2>2, <2>3 DEF TypeOK, QueueTypes
<1> QED BY InvInit, StoreStep, <1>1, PTL DEF Spec

(***************************************************************************)
(* A page update has changed in mem_table is DIRTY or about to be written, *)
(* unless it was evicted before the update; and a DIRTY page has no copy   *)
(* on flash that a load could take for the current one.                    *)
(***************************************************************************)
THEOREM NewerReachesFlash == Spec => [](NewerIsDirty /\ DirtyHasNoCopy)
<1>1. Inv => NewerIsDirty /\ DirtyHasNoCopy
  BY Found DEF StoreOf, NoCopies, NewerIsDirty, DirtyHasNoCopy, Cache
<1> QED BY InvInit, StoreStep, <1>1, PTL DEF Spec

(***************************************************************************)
(* No operation of the mapping pages aborts when the partition without its *)
(* reserve holds them all: an eviction finds a victim in the LRU, a GC one *)
(* with a page to reclaim, and the next superblock exists.                 *)
(***************************************************************************)
THEOREM AbortsNever == ASSUME Roomy PROVE Spec => []NeverAborts
<1>1. Init => Inv /\ NeverAborts
  BY InvInit, StoreInit
<1>2. (Inv /\ NeverAborts) /\ [Next]_vars => (Inv /\ NeverAborts)'
  BY StoreStep, LivesStep
<1> QED BY <1>1, <1>2, PTL DEF Spec

(***************************************************************************)
(* Then a page with mappings is cached or has a copy on flash, or the data *)
(* GC is about to write it, unless update found it evicted.                *)
(***************************************************************************)
THEOREM MappingsFound == ASSUME Roomy PROVE Spec => []FoundUnlessLate
<1>1. Init => Inv /\ NeverAborts
  BY InvInit, StoreInit
<1>2. (Inv /\ NeverAborts) /\ [Next]_vars => (Inv /\ NeverAborts)'
  BY StoreStep, LivesStep
<1>3. Inv /\ NeverAborts => FoundUnlessLate
  <2> SUFFICES ASSUME Inv, NeverAborts, NEW c \in mapped
               PROVE  c \in pt \/ OnFlash(map, c) \/ c \in gcWrite \/ c \in late
    BY DEF FoundUnlessLate
  <2>1. /\ CleanOnFlash(Cache, gcWrite, mapped) /\ dirty \subseteq pt
        /\ Cache.map = map /\ Cache.dirty = dirty /\ Cache.late = late
    BY Found DEF StoreOf, NoCopies, NeverAborts, Cache
  <2> QED BY <2>1 DEF CleanOnFlash
<1> QED BY <1>1, <1>2, <1>3, PTL DEF Spec
==============================================================================
