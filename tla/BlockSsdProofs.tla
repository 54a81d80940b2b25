---------------------------- MODULE BlockSsdProofs ----------------------------
(***************************************************************************)
(* The Block SSD of BlockSsd, proved for every number of superblocks,      *)
(* pages, lpas, cached mapping pages, entries of the write buffer and      *)
(* reads: through every eviction, flush and GC the LRU names the cached    *)
(* pages; and unless a GC collects a page of the flush that called it or   *)
(* frees gc_bucket twice, a read gets the newest flushed value and nothing *)
(* aborts.                                                                 *)
(***************************************************************************)
EXTENDS BlockSsd, FiniteSetTheorems, SequenceTheorems, WellFoundedInduction, TLAPS

Node == [page : TPages, own : BOOLEAN]
OwnNode(x) == [page |-> x, own |-> TRUE]

\* A table with the mapping of l set to p.
SetTo(t, l, p) == [t EXCEPT ![l] = p]

\* The lpas with a mapping, and the pages they are mapped to.
StoredIn(c) == { l \in Lpas : c.table[l] # NoPage }
Named(c) == { c.table[l] : l \in StoredIn(c) }

IsCache(c) == c = [table |-> c.table, pt |-> c.pt, dirty |-> c.dirty,
                   flashed |-> c.flashed, lru |-> c.lru, late |-> c.late]

\* Each cached page has one node of its own, no other page has one ...
NodesMatch(lru, pt) ==
    /\ lru \in Seq(Node) /\ pt \subseteq TPages
    /\ \A i, j \in DOMAIN lru : \A x : lru[i] = OwnNode(x) /\ lru[j] = OwnNode(x) => i = j
    /\ \A i \in DOMAIN lru : \A x : lru[i] = OwnNode(x) => x \in pt
    /\ \A x \in pt : \E i \in DOMAIN lru : lru[i] = OwnNode(x)

\* ... and the head is a node of a cached page.
LruSound(lru, pt) == NodesMatch(lru, pt) /\ (lru # <<>> => lru[1].page \in pt)

\* The pages a lookup gets as far as, once they are not cached.
Backed(c) == c.dirty \cup c.flashed \cup c.late

\* What evictions and lookups keep, whatever is on flash.
CacheKept(c) == IsCache(c) /\ LruSound(c.lru, c.pt)

\* A page with mappings is dirty in the cache, has a copy, or was updated after it left.
LooksUp(c) == /\ c.dirty \subseteq c.pt
              /\ \A l \in StoredIn(c) : TPageOf(l) \in Backed(c)

CacheSound(c) == CacheKept(c) /\ c.table \in [Lpas -> Pages \cup {NoPage}] /\ LooksUp(c)

IsFlash(f) == f = [wp |-> f.wp, free |-> f.free, rsv |-> f.rsv, next |-> f.next,
                   active |-> f.active, lpa |-> f.lpa, dev |-> f.dev, newest |-> f.newest,
                   moved |-> f.moved, freed |-> f.freed, refused |-> f.refused,
                   fault |-> f.fault]

FlashTypes(f) ==
    /\ IsFlash(f) /\ f.wp \in [Sblks -> 0 .. PagesPerSblk] /\ f.free \in Int /\ f.rsv \in Sblks
    /\ f.next \in Sblks \cup {NoSblk} /\ f.active \in Sblks \cup {NoSblk}
    /\ Valid(f) \subseteq Pages /\ f.lpa \in [Valid(f) -> Lpas]
    /\ f.dev \in [Sblks -> 0 .. PagesPerSblk] /\ f.newest \in [Lpas -> Pages \cup {NoPage}]

Erased(f) == { i \in Sblks : f.wp[i] = 0 /\ i # f.active }

\* The reserve is erased; a superblock that is not the active one is erased or full; free
\* counts the erased ones; the one found last is no erased one that can be found again.
Pools(f) ==
    /\ f.wp[f.rsv] = 0 /\ f.dev[f.rsv] = 0 /\ f.active # f.rsv
    /\ \A i \in Sblks : i # f.active => f.wp[i] \in {0, PagesPerSblk}
    /\ f.free = Cardinality(Erased(f))
    /\ f.active = NoSblk => f.next = NoSblk
    /\ f.next = NoSblk => f.active = NoSblk /\ \A i \in Sblks : f.wp[i] = 0
    /\ f.next \in Sblks => f.next = f.rsv \/ f.next = f.active \/ f.wp[f.next] > 0
    /\ \A p \in Valid(f) : p[2] < f.wp[p[1]]

FlashSound(f) == FlashTypes(f) /\ ~f.fault /\ ~f.refused /\ Pools(f)

\* The entries of a flush that have a page, and those whose page has no mapping yet.
Pend(e) == { l \in Lpas : e[l].at \in {"lookup", "list", "complete"} }
Given(e) == { l \in Lpas : e[l].at \in {"lookup", "list", "complete", "mapped"} }
PendPages(e) == { e[l].page : l \in Pend(e) }

EntryTypes(e) == e \in [Lpas -> [at : Stages, page : Pages \cup {NoPage}]]

\* The valid pages are those of the mappings and those of the flush without one.
MapSound(f, c, e) ==
    /\ Valid(f) = Named(c) \cup PendPages(e)
    /\ Named(c) \cap PendPages(e) = {}
    /\ \A l \in StoredIn(c) : f.lpa[c.table[l]] = l /\ f.newest[l] = c.table[l]

\* The pages that are not programmed yet are those of the lpas G of a flush, and in each
\* superblock they were handed out to smaller and smaller lpas.
DevSound(f, e, G) ==
    /\ \A l \in G : LET p == e[l].page
                    IN  p \in Pages /\ f.dev[p[1]] <= p[2] /\ p[2] < f.wp[p[1]]
    /\ \A l, m \in G : l < m /\ e[l].page[1] = e[m].page[1] => e[m].page[2] < e[l].page[2]
    /\ \A i \in Sblks : f.dev[i] <= f.wp[i]
    /\ \A p \in Pages : f.dev[p[1]] <= p[2] /\ p[2] < f.wp[p[1]] => \E l \in G : e[l].page = p

StoreSound(f, c, e) ==
    /\ FlashSound(f) /\ CacheSound(c) /\ EntryTypes(e)
    /\ MapSound(f, c, e) /\ DevSound(f, e, Given(e))

\* A flush has all entries of the buffer; between two flushes none has a page.
Phases ==
    /\ Flushing => \A l \in Lpas : entry[l].at # "buffer"
    /\ ~Flushing => \A l \in Lpas : entry[l] = Out \/ entry[l] = [at |-> "buffer", page |-> NoPage]
    /\ setting \in Lpas \cup {NoLpa}

\* What holds even when a GC has gone wrong.
KeptInv == /\ CacheKept(cache)
           /\ waiting \in [Readers -> [at : {"idle", "list", "complete"}, lpa : Lpas]]

BlockInv == mishaps = {} => StoreSound(flash, cache, entry) /\ Phases

-----------------------------------------------------------------------------
(***************************************************************************)
(* Numbers, sequences and loops.                                           *)
(***************************************************************************)
\* Every non-empty set of naturals has a least element.
LEMMA LeastOne ==
    ASSUME NEW T \in SUBSET Nat, T # {} PROVE \E x \in T : \A y \in T : x <= y
<1>1. PICK x \in T : \A y \in T : ~(<<y, x>> \in OpToRel(<, Nat))
  BY NatLessThanWellFounded, WFMin
<1>2. \A y \in T : ~(y < x)
  BY <1>1 DEF OpToRel
<1> QED BY <1>2

\* Min of a non-empty set of naturals is its least element.
LEMMA MinIsIn ==
    ASSUME NEW T \in SUBSET Nat, T # {} PROVE Min(T) \in T /\ \A y \in T : Min(T) <= y
BY LeastOne DEF Min

\* What holds at 0 and goes on to the next number holds up to n.
LEMMA CountUp ==
    ASSUME NEW n \in Nat, NEW T, 0 \in T, \A i \in 1 .. n : i - 1 \in T => i \in T
    PROVE  \A i \in 0 .. n : i \in T
<1> DEFINE Bad == { i \in 0 .. n : i \notin T }
<1> SUFFICES ASSUME Bad # {} PROVE FALSE
  OBVIOUS
<1>1. Bad \in SUBSET Nat
  OBVIOUS
<1>2. PICK m \in Bad : \A y \in Bad : m <= y
  BY <1>1, LeastOne
<1>3. m \in 0 .. n /\ m \notin T
  OBVIOUS
<1>4. m # 0
  BY <1>3
<1>5. m \in 1 .. n /\ m - 1 \in 0 .. n /\ ~(m <= m - 1)
  BY <1>3, <1>4
<1>6. m - 1 \notin Bad
  <2> HIDE DEF Bad
  <2> QED BY <1>2, <1>5
<1> QED BY <1>3, <1>5, <1>6

\* The constants as the proofs use them.
LEMMA Sizes ==
    ASSUME BlockSsdAssumption
    PROVE  /\ SSblk \in Nat /\ ESblk \in Nat /\ ESblk >= SSblk + 2
           /\ PagesPerSblk \in Nat /\ PagesPerSblk > 0
           /\ NrLpas \in Nat /\ NrLpas > 0 /\ EntriesPerPage \in Nat /\ EntriesPerPage > 0
           /\ MaxCached \in Nat /\ MaxCached > 0 /\ MaxWb \in Nat /\ MaxWb > 0
           /\ NrLpas + MaxWb <= (ESblk - SSblk) * PagesPerSblk
           /\ Sblks \subseteq Nat /\ NoSblk \notin Sblks
           /\ IsFiniteSet(Sblks) /\ Cardinality(Sblks) = ESblk - SSblk + 1
           /\ Lpas \subseteq Nat /\ IsFiniteSet(Lpas) /\ Cardinality(Lpas) = NrLpas
           /\ IsFiniteSet(Pages) /\ NoPage \notin Pages
<1>1. /\ SSblk \in Nat /\ ESblk \in Nat /\ ESblk >= SSblk + 2
      /\ PagesPerSblk \in Nat /\ PagesPerSblk > 0
      /\ NrLpas \in Nat /\ NrLpas > 0 /\ EntriesPerPage \in Nat /\ EntriesPerPage > 0
      /\ MaxCached \in Nat /\ MaxCached > 0 /\ MaxWb \in Nat /\ MaxWb > 0
  BY DEF BlockSsdAssumption, BlockFlashAssumption
<1>2. NrLpas + MaxWb <= (ESblk - SSblk) * PagesPerSblk
  BY DEF BlockSsdAssumption
<1>3. Sblks \subseteq Nat /\ NoSblk \notin Sblks
  BY <1>1 DEF Sblks, NoSblk
<1>4. IsFiniteSet(Sblks) /\ Cardinality(Sblks) = ESblk - SSblk + 1
  BY <1>1, FS_Interval DEF Sblks
<1>5. Lpas \subseteq Nat /\ IsFiniteSet(Lpas) /\ Cardinality(Lpas) = NrLpas
  BY <1>1, FS_Interval DEF Lpas
<1>6. IsFiniteSet(Pages)
  <2>1. IsFiniteSet(0 .. PagesPerSblk - 1)
    BY <1>1, FS_Interval
  <2> QED BY <1>4, <2>1, FS_Product DEF Pages
<1>7. NoPage \notin Pages
  BY <1>3 DEF Pages, NoPage
<1> QED BY <1>1, <1>2, <1>3, <1>4, <1>5, <1>6, <1>7

\* The mapping page of an lpa.
LEMMA TPageIs == ASSUME NEW l \in Lpas PROVE TPageOf(l) \in TPages
BY DEF TPages

\* A sequence without its i-th element.
LEMMA Removed ==
    ASSUME NEW T, NEW s \in Seq(T), NEW i \in DOMAIN s, NEW r, r = RemoveAt(s, i)
    PROVE  /\ r \in Seq(T) /\ Len(r) = Len(s) - 1
           /\ \A j \in DOMAIN r : /\ j \in Nat /\ j > 0
                                  /\ j < i => j \in DOMAIN s /\ r[j] = s[j]
                                  /\ j >= i => j + 1 \in DOMAIN s /\ r[j] = s[j + 1]
           /\ \A k \in DOMAIN s : /\ k < i => k \in DOMAIN r /\ r[k] = s[k]
                                  /\ k > i => k - 1 \in DOMAIN r /\ r[k - 1] = s[k]
<1>0. PICK N : N = Len(s)
  OBVIOUS
<1>1. N \in Nat /\ i \in 1 .. N /\ DOMAIN s = 1 .. N
  BY <1>0
<1>2. PICK a : a = SubSeq(s, 1, i - 1)
  OBVIOUS
<1>3. PICK b : b = SubSeq(s, i + 1, Len(s))
  OBVIOUS
<1>4. a \in Seq(T) /\ Len(a) = i - 1 /\ \A j \in 1 .. i - 1 : a[j] = s[j]
  BY <1>1, <1>2
<1>5. b \in Seq(T) /\ Len(b) = N - i /\ \A j \in 1 .. N - i : b[j] = s[i + j]
  BY <1>0, <1>1, <1>3
<1>6. r = a \o b
  BY <1>2, <1>3 DEF RemoveAt
<1>7. Len(a) + Len(b) = N - 1
  BY <1>1, <1>4, <1>5
<1>8. /\ a \o b \in Seq(T) /\ Len(a \o b) = Len(a) + Len(b)
      /\ \A j \in 1 .. Len(a) + Len(b) :
            (a \o b)[j] = IF j <= Len(a) THEN a[j] ELSE b[j - Len(a)]
  BY <1>4, <1>5, ConcatProperties
<1>9. /\ r \in Seq(T) /\ Len(r) = N - 1 /\ DOMAIN r = 1 .. N - 1
      /\ \A j \in 1 .. N - 1 : r[j] = IF j <= i - 1 THEN a[j] ELSE b[j - (i - 1)]
  BY <1>4, <1>6, <1>7, <1>8
<1>10. ASSUME NEW j \in 1 .. N - 1 PROVE r[j] = IF j < i THEN s[j] ELSE s[j + 1]
  <2>1. CASE j < i
    BY <1>1, <1>4, <1>9, <2>1
  <2>2. CASE j >= i
    <3>1. j - (i - 1) \in 1 .. N - i /\ i + (j - (i - 1)) = j + 1 /\ ~(j <= i - 1) /\ ~(j < i)
      BY <1>1, <2>2
    <3>2. r[j] = b[j - (i - 1)]
      BY <1>9, <3>1
    <3>3. b[j - (i - 1)] = s[i + (j - (i - 1))]
      BY <1>5, <3>1
    <3> QED BY <3>1, <3>2, <3>3
  <2> QED BY <1>1, <2>1, <2>2
<1>11. ASSUME NEW j \in 1 .. N - 1
       PROVE  /\ j < i => j \in 1 .. N /\ r[j] = s[j]
              /\ j >= i => j + 1 \in 1 .. N /\ r[j] = s[j + 1]
  BY <1>1, <1>10
<1>12. ASSUME NEW k \in 1 .. N
       PROVE  /\ k < i => k \in 1 .. N - 1 /\ r[k] = s[k]
              /\ k > i => k - 1 \in 1 .. N - 1 /\ r[k - 1] = s[k]
  <2>1. CASE k < i
    <3>1. k \in 1 .. N - 1 /\ ~(k > i)
      BY <1>1, <2>1
    <3> QED BY <1>10, <2>1, <3>1
  <2>2. CASE k > i
    <3>1. k - 1 \in 1 .. N - 1 /\ ~(k - 1 < i) /\ (k - 1) + 1 = k /\ ~(k < i)
      BY <1>1, <2>2
    <3>2. r[k - 1] = s[(k - 1) + 1]
      BY <1>10, <3>1
    <3> QED BY <3>1, <3>2
  <2> QED BY <1>1, <2>1, <2>2
<1> QED BY <1>0, <1>1, <1>9, <1>11, <1>12

\* A sequence with another element in front.
LEMMA Pushed ==
    ASSUME NEW T, NEW s \in Seq(T), NEW x \in T, NEW r, r = <<x>> \o s
    PROVE  /\ r \in Seq(T) /\ Len(r) = Len(s) + 1 /\ r[1] = x /\ r # <<>> /\ 1 \in DOMAIN r
           /\ \A j \in DOMAIN r : j # 1 => j - 1 \in DOMAIN s /\ r[j] = s[j - 1]
           /\ \A k \in DOMAIN s : k + 1 \in DOMAIN r /\ r[k + 1] = s[k] /\ k \in Nat /\ k > 0
<1>1. PICK N : N = Len(s)
  OBVIOUS
<1>2. N \in Nat /\ DOMAIN s = 1 .. N
  BY <1>1
<1>3. PICK a : a = <<x>>
  OBVIOUS
<1>4. a \in Seq(T) /\ Len(a) = 1 /\ a[1] = x
  BY <1>3
<1>5. /\ a \o s \in Seq(T) /\ Len(a \o s) = Len(a) + Len(s)
      /\ \A j \in 1 .. Len(a) + Len(s) : (a \o s)[j] = IF j <= Len(a) THEN a[j] ELSE s[j - Len(a)]
  BY <1>4, ConcatProperties
<1>6. /\ r \in Seq(T) /\ Len(r) = 1 + N /\ DOMAIN r = 1 .. 1 + N
      /\ \A j \in 1 .. 1 + N : r[j] = IF j <= 1 THEN a[j] ELSE s[j - 1]
  BY <1>1, <1>2, <1>3, <1>4, <1>5
<1>7. 1 \in 1 .. 1 + N /\ r[1] = x /\ r # <<>>
  BY <1>2, <1>4, <1>6
<1>8. ASSUME NEW j \in 1 .. 1 + N, j # 1 PROVE j - 1 \in 1 .. N /\ r[j] = s[j - 1]
  BY <1>2, <1>6, <1>8
<1>9. ASSUME NEW k \in 1 .. N PROVE k + 1 \in 1 .. 1 + N /\ r[k + 1] = s[k]
  <2>1. k + 1 \in 1 .. 1 + N /\ ~(k + 1 <= 1) /\ (k + 1) - 1 = k
    BY <1>2
  <2> QED BY <1>6, <2>1
<1> QED BY <1>1, <1>2, <1>6, <1>7, <1>8, <1>9

-----------------------------------------------------------------------------
(***************************************************************************)
(* The mapping cache and its LRU.                                          *)
(***************************************************************************)
\* Nodes: the one a page owns, and others.
LEMMA NodeIs ==
    ASSUME NEW n \in Node
    PROVE  /\ n.page \in TPages
           /\ \A x : n = OwnNode(x) => n.page = x
           /\ [n EXCEPT !.own = FALSE] \in Node /\ [n EXCEPT !.own = FALSE].page = n.page
           /\ \A x : [n EXCEPT !.own = FALSE] # OwnNode(x)
<1>1. n.page \in TPages /\ n = [page |-> n.page, own |-> n.own]
  BY DEF Node
<1>2. PICK m : m = [n EXCEPT !.own = FALSE]
  OBVIOUS
<1>3. m = [page |-> n.page, own |-> FALSE]
  BY <1>1, <1>2
<1>4. m \in Node /\ m.page = n.page
  BY <1>1, <1>3 DEF Node
<1>5. m.own = FALSE
  BY <1>3
<1>6. \A x : OwnNode(x).own = TRUE /\ OwnNode(x).page = x
  BY DEF OwnNode
<1>7. \A x : m # OwnNode(x)
  BY <1>5, <1>6
<1> QED BY <1>1, <1>2, <1>4, <1>6, <1>7

\* Disown only takes the node of x.
LEMMA DisownIs ==
    ASSUME NEW lru \in Seq(Node), NEW x, NEW r, r = Disown(lru, x)
    PROVE  /\ r \in Seq(Node) /\ DOMAIN r = DOMAIN lru
           /\ \A i \in DOMAIN lru : /\ r[i].page = lru[i].page
                                    /\ \A y : r[i] = OwnNode(y) <=> lru[i] = OwnNode(y) /\ y # x
<1>1. r = [i \in DOMAIN lru |-> IF lru[i].page = x THEN [lru[i] EXCEPT !.own = FALSE] ELSE lru[i]]
  BY DEF Disown
<1>2. \A i \in DOMAIN lru : lru[i] \in Node
  OBVIOUS
<1>3. \A i \in DOMAIN lru : r[i] \in Node
  BY <1>1, <1>2, NodeIs
<1>4. DOMAIN r = DOMAIN lru /\ DOMAIN lru = 1 .. Len(lru) /\ Len(lru) \in Nat
  BY <1>1
<1>5. r \in Seq(Node)
  <2>1. r = [i \in 1 .. Len(lru) |-> r[i]]
    BY <1>1, <1>4
  <2>2. r \in [1 .. Len(lru) -> Node]
    BY <1>3, <1>4, <2>1
  <2> QED BY <1>4, <2>2
<1>6. ASSUME NEW i \in DOMAIN lru
      PROVE  /\ r[i].page = lru[i].page
             /\ \A y : r[i] = OwnNode(y) <=> lru[i] = OwnNode(y) /\ y # x
  <2>1. PICK n \in Node : n = lru[i]
    BY <1>2
  <2>2. CASE n.page = x
    <3>1. r[i] = [n EXCEPT !.own = FALSE]
      BY <1>1, <2>1, <2>2
    <3>2. r[i].page = n.page /\ \A y : r[i] # OwnNode(y)
      BY <3>1, NodeIs
    <3>3. \A y : n = OwnNode(y) => y = x
      BY <2>2, NodeIs
    <3> QED BY <2>1, <3>2, <3>3
  <2>3. CASE n.page # x
    <3>1. r[i] = n
      BY <1>1, <2>1, <2>3
    <3>2. \A y : n = OwnNode(y) => y # x
      BY <2>3, NodeIs
    <3> QED BY <2>1, <3>1, <3>2
  <2> QED BY <2>2, <2>3
<1> QED BY <1>4, <1>5, <1>6

\* The node of x moves to the front.
LEMMA UpdateIs ==
    ASSUME NEW lru, NEW pt, LruSound(lru, pt), NEW x \in pt, NEW r, r = lru_update(lru, x)
    PROVE  LruSound(r, pt)
<1>1. NodesMatch(lru, pt) /\ lru \in Seq(Node)
  BY DEF LruSound, NodesMatch
<1>2. PICK at : at = CHOOSE i \in DOMAIN lru : lru[i] = OwnNode(x)
  OBVIOUS
<1>3. at \in DOMAIN lru /\ lru[at] = OwnNode(x)
  BY <1>1, <1>2 DEF NodesMatch
<1>4. PICK s : s = RemoveAt(lru, at)
  OBVIOUS
<1>5. r = <<lru[at]>> \o s
  BY <1>2, <1>4 DEF lru_update, OwnNode
<1>6. /\ s \in Seq(Node)
      /\ \A j \in DOMAIN s : /\ j \in Nat /\ j > 0
                             /\ j < at => j \in DOMAIN lru /\ s[j] = lru[j]
                             /\ j >= at => j + 1 \in DOMAIN lru /\ s[j] = lru[j + 1]
      /\ \A k \in DOMAIN lru : /\ k < at => k \in DOMAIN s /\ s[k] = lru[k]
                               /\ k > at => k - 1 \in DOMAIN s /\ s[k - 1] = lru[k]
  BY <1>1, <1>3, <1>4, Removed
<1>7. /\ r \in Seq(Node) /\ r[1] = OwnNode(x) /\ 1 \in DOMAIN r
      /\ \A j \in DOMAIN r : j # 1 => j - 1 \in DOMAIN s /\ r[j] = s[j - 1]
      /\ \A k \in DOMAIN s : k + 1 \in DOMAIN r /\ r[k + 1] = s[k]
  <2>1. lru[at] \in Node
    BY <1>1, <1>3
  <2> QED BY <1>3, <1>5, <1>6, <2>1, Pushed
<1>8. at \in Nat /\ \A i \in DOMAIN lru : i \in Nat
  BY <1>1, <1>3
<1>9. \A j \in DOMAIN r : j \in Nat
  BY <1>7
<1> DEFINE Was(j) == IF j = 1 THEN at ELSE IF j - 1 < at THEN j - 1 ELSE j
<1>10. ASSUME NEW j \in DOMAIN r PROVE Was(j) \in DOMAIN lru /\ r[j] = lru[Was(j)]
  <2>1. CASE j = 1
    BY <1>3, <1>7, <2>1
  <2>2. CASE j # 1
    <3>1. j - 1 \in DOMAIN s /\ r[j] = s[j - 1] /\ (j - 1) + 1 = j
      BY <1>7, <1>9, <2>2
    <3> QED BY <1>6, <1>8, <1>9, <2>2, <3>1
  <2> QED BY <2>1, <2>2
<1>11. ASSUME NEW i \in DOMAIN r, NEW j \in DOMAIN r, Was(i) = Was(j) PROVE i = j
  <2>1. i # 1 => Was(i) # at
    BY <1>8, <1>9
  <2>2. j # 1 => Was(j) # at
    BY <1>8, <1>9
  <2> QED BY <1>8, <1>9, <1>11, <2>1, <2>2
<1>12. ASSUME NEW k \in DOMAIN lru PROVE \E j \in DOMAIN r : r[j] = lru[k]
  <2>1. CASE k = at
    BY <1>3, <1>7, <2>1
  <2>2. CASE k < at
    BY <1>6, <1>7, <2>2
  <2>3. CASE k > at
    BY <1>6, <1>7, <2>3
  <2> QED BY <1>8, <2>1, <2>2, <2>3
<1> HIDE DEF Was
<1>13. ASSUME NEW i \in DOMAIN r, NEW j \in DOMAIN r, NEW y, r[i] = OwnNode(y), r[j] = OwnNode(y)
       PROVE  i = j
  <2>1. Was(i) = Was(j)
    BY <1>1, <1>10, <1>13 DEF NodesMatch
  <2> QED BY <1>11, <2>1
<1>14. ASSUME NEW i \in DOMAIN r, NEW y, r[i] = OwnNode(y) PROVE y \in pt
  BY <1>1, <1>10, <1>14 DEF NodesMatch
<1>15. ASSUME NEW y \in pt PROVE \E j \in DOMAIN r : r[j] = OwnNode(y)
  <2>1. PICK k \in DOMAIN lru : lru[k] = OwnNode(y)
    BY <1>1 DEF NodesMatch
  <2> QED BY <1>12, <2>1
<1>16. NodesMatch(r, pt)
  BY <1>1, <1>7, <1>13, <1>14, <1>15 DEF NodesMatch
<1>17. r[1].page = x
  BY <1>7 DEF OwnNode
<1> QED BY <1>16, <1>17 DEF LruSound

\* The node at i goes, and its page has none of its own any more.
LEMMA EvictIs ==
    ASSUME NEW lru, NEW pt, NodesMatch(lru, pt), NEW i \in DOMAIN lru,
           NEW v, v = lru[i].page, NEW r, r = Disown(RemoveAt(lru, i), v)
    PROVE  NodesMatch(r, pt \ {v})
<1>1. lru \in Seq(Node)
  BY DEF NodesMatch
<1>2. PICK s : s = RemoveAt(lru, i)
  OBVIOUS
<1>3. /\ s \in Seq(Node)
      /\ \A j \in DOMAIN s : /\ j \in Nat /\ j > 0
                             /\ j < i => j \in DOMAIN lru /\ s[j] = lru[j]
                             /\ j >= i => j + 1 \in DOMAIN lru /\ s[j] = lru[j + 1]
      /\ \A k \in DOMAIN lru : /\ k < i => k \in DOMAIN s /\ s[k] = lru[k]
                               /\ k > i => k - 1 \in DOMAIN s /\ s[k - 1] = lru[k]
  BY <1>1, <1>2, Removed
<1>4. /\ r \in Seq(Node) /\ DOMAIN r = DOMAIN s
      /\ \A j \in DOMAIN s : \A y : r[j] = OwnNode(y) <=> s[j] = OwnNode(y) /\ y # v
  BY <1>2, <1>3, DisownIs
<1>5. i \in Nat /\ \A k \in DOMAIN lru : k \in Nat
  BY <1>1
<1> DEFINE Was(j) == IF j < i THEN j ELSE j + 1
<1>6. ASSUME NEW j \in DOMAIN r PROVE j \in Nat /\ Was(j) \in DOMAIN lru /\ s[j] = lru[Was(j)]
  BY <1>3, <1>4, <1>5
<1>7. ASSUME NEW j \in DOMAIN r, NEW k \in DOMAIN r, Was(j) = Was(k) PROVE j = k
  BY <1>5, <1>6, <1>7
<1> HIDE DEF Was
<1>8. ASSUME NEW j \in DOMAIN r, NEW k \in DOMAIN r, NEW y, r[j] = OwnNode(y), r[k] = OwnNode(y)
      PROVE  j = k
  <2>1. Was(j) = Was(k)
    BY <1>4, <1>6, <1>8 DEF NodesMatch
  <2> QED BY <1>7, <2>1
<1>9. ASSUME NEW j \in DOMAIN r, NEW y, r[j] = OwnNode(y) PROVE y \in pt \ {v}
  BY <1>4, <1>6, <1>9 DEF NodesMatch
<1>10. ASSUME NEW y \in pt \ {v} PROVE \E j \in DOMAIN r : r[j] = OwnNode(y)
  <2>1. PICK k \in DOMAIN lru : lru[k] = OwnNode(y)
    BY DEF NodesMatch
  <2>2. lru[k] \in Node
    BY <1>1
  <2>3. k # i
    BY <2>1, <2>2, NodeIs
  <2>4. \E j \in DOMAIN s : s[j] = lru[k]
    <3>1. CASE k < i
      BY <1>3, <3>1
    <3>2. CASE k > i
      BY <1>3, <3>2
    <3> QED BY <1>5, <2>3, <3>1, <3>2
  <2> QED BY <1>4, <2>1, <2>4
<1> QED BY <1>4, <1>8, <1>9, <1>10 DEF NodesMatch

\* A new node of x, and no other of its own.
LEMMA PushIs ==
    ASSUME NEW lru, NEW pt, NodesMatch(lru, pt), NEW x \in TPages,
           NEW r, r = <<OwnNode(x)>> \o Disown(lru, x)
    PROVE  LruSound(r, pt \cup {x})
<1>0. PICK P : P = pt \cup {x}
  OBVIOUS
<1>1. lru \in Seq(Node)
  BY DEF NodesMatch
<1>2. PICK s : s = Disown(lru, x)
  OBVIOUS
<1>3. /\ s \in Seq(Node) /\ DOMAIN s = DOMAIN lru
      /\ \A i \in DOMAIN lru : \A y : s[i] = OwnNode(y) <=> lru[i] = OwnNode(y) /\ y # x
  BY <1>1, <1>2, DisownIs
<1>4. OwnNode(x) \in Node /\ OwnNode(x).page = x
  BY DEF OwnNode, Node
<1>5. /\ r \in Seq(Node) /\ r[1] = OwnNode(x) /\ 1 \in DOMAIN r
      /\ \A j \in DOMAIN r : j # 1 => j - 1 \in DOMAIN s /\ r[j] = s[j - 1]
      /\ \A k \in DOMAIN s : k + 1 \in DOMAIN r /\ r[k + 1] = s[k]
  BY <1>2, <1>3, <1>4, Pushed
<1>6. \A j \in DOMAIN r : j \in Nat
  BY <1>5
<1>7. \A y : OwnNode(y).page = y
  BY DEF OwnNode
<1>8. \A j \in DOMAIN r : \A y : r[j] = OwnNode(y) =>
          IF j = 1 THEN y = x ELSE j - 1 \in DOMAIN lru /\ lru[j - 1] = OwnNode(y) /\ y # x
  BY <1>3, <1>5, <1>7
<1>9. ASSUME NEW i \in DOMAIN r, NEW j \in DOMAIN r, NEW y, r[i] = OwnNode(y), r[j] = OwnNode(y)
      PROVE  i = j
  <2>1. CASE i = 1 \/ j = 1
    BY <1>8, <1>9, <2>1
  <2>2. CASE i # 1 /\ j # 1
    <3>1. i - 1 = j - 1
      BY <1>8, <1>9, <2>2 DEF NodesMatch
    <3> QED BY <1>6, <3>1
  <2> QED BY <2>1, <2>2
<1>10. ASSUME NEW i \in DOMAIN r, NEW y, r[i] = OwnNode(y) PROVE y \in P
  BY <1>0, <1>8, <1>10 DEF NodesMatch
<1>11. ASSUME NEW y \in P PROVE \E j \in DOMAIN r : r[j] = OwnNode(y)
  <2>1. CASE y = x
    BY <1>5, <2>1
  <2>2. CASE y # x
    <3>1. PICK k \in DOMAIN lru : lru[k] = OwnNode(y)
      BY <1>0, <2>2 DEF NodesMatch
    <3> QED BY <1>3, <1>5, <2>2, <3>1
  <2> QED BY <2>1, <2>2
<1>12. P \subseteq TPages
  BY <1>0 DEF NodesMatch
<1>13. NodesMatch(r, P)
  BY <1>5, <1>9, <1>10, <1>11, <1>12 DEF NodesMatch
<1> QED BY <1>0, <1>4, <1>5, <1>13 DEF LruSound

\* A cache with room for a page has at least one; when it is full there is a victim.
LEMMA VictimThere ==
    ASSUME BlockSsdAssumption, NEW c, CacheKept(c), is_full(c), NEW i \in Victims(c)
    PROVE  i \in DOMAIN c.lru /\ i # 0
<1>1. PICK n : n = Len(c.lru)
  OBVIOUS
<1>2. c.lru \in Seq(Node) /\ LruSound(c.lru, c.pt)
  BY DEF CacheKept, LruSound, NodesMatch
<1>3. n \in Nat /\ n >= 1 /\ DOMAIN c.lru = 1 .. n
  BY <1>1, <1>2, Sizes DEF is_full
<1>4. PICK w : w = (n * 10 + 99) \div 100
  OBVIOUS
<1>5. w \in Nat /\ w >= 1 /\ w <= n
  BY <1>3, <1>4
<1>6. Window(c) = 1 .. w
  BY <1>1, <1>4 DEF Window
<1>7. c.lru # <<>>
  BY <1>1, <1>2, <1>3
<1>8. 1 \in HotNodes(c)
  BY <1>2, <1>5, <1>6, <1>7 DEF HotNodes, LruSound
<1>9. i = n \/ i \in Window(c)
  BY <1>1, <1>8 DEF Victims, HotNodes
<1> QED BY <1>3, <1>5, <1>6, <1>9

\* A page that is used moves to the front.
LEMMA TouchIs ==
    ASSUME NEW c, CacheKept(c), NEW x \in c.pt, NEW e, e = touch(c, x)
    PROVE  /\ CacheKept(e) /\ e.table = c.table /\ e.pt = c.pt
           /\ CacheSound(c) => CacheSound(e)
<1>1. PICK r : r = lru_update(c.lru, x)
  OBVIOUS
<1>2. LruSound(r, c.pt)
  BY <1>1, UpdateIs DEF CacheKept
<1>3. e = [c EXCEPT !.lru = r]
  BY <1>1 DEF touch
<1>4. /\ IsCache(e) /\ e.lru = r /\ e.table = c.table /\ e.pt = c.pt /\ e.dirty = c.dirty
      /\ e.flashed = c.flashed /\ e.late = c.late
  BY <1>3 DEF CacheKept, IsCache
<1>5. LooksUp(c) => LooksUp(e)
  BY <1>4 DEF LooksUp, StoredIn, Backed
<1> QED BY <1>2, <1>4, <1>5 DEF CacheSound, CacheKept

\* An eviction, but for the head of the LRU.
LEMMA EvictedIs ==
    ASSUME NEW c, CacheKept(c), NEW i \in DOMAIN c.lru, NEW e, e = evict(c, i)
    PROVE  /\ IsCache(e) /\ e.table = c.table /\ NodesMatch(e.lru, e.pt)
           /\ LooksUp(c) => LooksUp(e)
<1>1. PICK v : v = c.lru[i].page
  OBVIOUS
<1>2. PICK r : r = Disown(RemoveAt(c.lru, i), v)
  OBVIOUS
<1>3. NodesMatch(r, c.pt \ {v})
  BY <1>1, <1>2, EvictIs DEF CacheKept, LruSound
<1>4. PICK fl : fl = IF v \in c.dirty THEN c.flashed \cup {v} ELSE c.flashed
  OBVIOUS
<1>5. PICK la : la = IF v \in c.dirty THEN c.late \ {v} ELSE c.late
  OBVIOUS
<1>6. PICK P : P = c.pt \ {v}
  OBVIOUS
<1>7. PICK D : D = c.dirty \ {v}
  OBVIOUS
<1>8. e = [c EXCEPT !.lru = r, !.pt = P, !.dirty = D, !.flashed = fl, !.late = la]
  BY <1>1, <1>2, <1>4, <1>5, <1>6, <1>7 DEF evict, CacheKept, IsCache
<1>9. /\ IsCache(e) /\ e.lru = r /\ e.table = c.table /\ e.pt = P /\ e.dirty = D
      /\ e.flashed = fl /\ e.late = la
  BY <1>8 DEF CacheKept, IsCache
<1>10. ASSUME LooksUp(c) PROVE LooksUp(e)
  <2>1. e.dirty \subseteq e.pt
    BY <1>6, <1>7, <1>9, <1>10 DEF LooksUp
  <2>2. Backed(c) \subseteq Backed(e)
    BY <1>4, <1>5, <1>7, <1>9 DEF Backed
  <2>3. StoredIn(e) = StoredIn(c)
    BY <1>9 DEF StoredIn
  <2> QED BY <1>10, <2>1, <2>2, <2>3 DEF LooksUp
<1> QED BY <1>3, <1>6, <1>9, <1>10

\* list_up brings the page in, in the place of a victim if the cache is full.
LEMMA ListUpIs ==
    ASSUME BlockSsdAssumption, NEW c, CacheKept(c), NEW x \in TPages, NEW i \in Victims(c),
           NEW e, e = list_up(c, x, i)
    PROVE  CacheKept(e) /\ e.table = c.table /\ (CacheSound(c) => CacheSound(e))
<1>1. PICK b : b = IF is_full(c) THEN evict(c, i) ELSE c
  OBVIOUS
<1>2. /\ IsCache(b) /\ b.table = c.table /\ NodesMatch(b.lru, b.pt)
      /\ LooksUp(c) => LooksUp(b)
  <2>1. CASE is_full(c)
    <3>1. i \in DOMAIN c.lru
      BY <2>1, VictimThere
    <3> QED BY <1>1, <2>1, <3>1, EvictedIs
  <2>2. CASE ~is_full(c)
    BY <1>1, <2>2 DEF CacheKept, LruSound
  <2> QED BY <2>1, <2>2
<1>3. PICK r : r = <<OwnNode(x)>> \o Disown(b.lru, x)
  OBVIOUS
<1>4. PICK P : P = b.pt \cup {x}
  OBVIOUS
<1>5. LruSound(r, P)
  BY <1>2, <1>3, <1>4, PushIs
<1>6. e = [b EXCEPT !.pt = P, !.lru = r]
  BY <1>1, <1>3, <1>4 DEF list_up, push, OwnNode
<1>7. /\ IsCache(e) /\ e.lru = r /\ e.table = b.table /\ e.pt = P /\ e.dirty = b.dirty
      /\ e.flashed = b.flashed /\ e.late = b.late
  BY <1>2, <1>6 DEF IsCache
<1>8. LooksUp(b) => LooksUp(e)
  BY <1>4, <1>7 DEF LooksUp, StoredIn, Backed
<1> QED BY <1>2, <1>5, <1>7, <1>8 DEF CacheSound, CacheKept

\* What a lookup needs of the mapping page of an lpa whose mapping is set.
LEMMA StoredAfter ==
    ASSUME NEW c, CacheSound(c), NEW l \in Lpas, NEW p \in Pages, NEW e,
           e.table = SetTo(c.table, l, p), e.dirty \subseteq e.pt,
           TPageOf(l) \in Backed(e), Backed(c) \subseteq Backed(e)
    PROVE  e.table \in [Lpas -> Pages \cup {NoPage}] /\ LooksUp(e)
<1>1. c.table \in [Lpas -> Pages \cup {NoPage}]
  BY DEF CacheSound
<1>2. e.table \in [Lpas -> Pages \cup {NoPage}]
  BY <1>1 DEF SetTo
<1>3. ASSUME NEW m \in StoredIn(e) PROVE TPageOf(m) \in Backed(e)
  <2>1. CASE m = l
    BY <2>1
  <2>2. CASE m # l
    <3>1. m \in StoredIn(c)
      BY <1>1, <2>2 DEF StoredIn, SetTo
    <3>2. TPageOf(m) \in Backed(c)
      BY <3>1 DEF CacheSound, LooksUp
    <3> QED BY <3>2
  <2> QED BY <2>1, <2>2
<1> QED BY <1>2, <1>3 DEF LooksUp

\* A mapping is set in a cached page.
LEMMA CachedUpdateIs ==
    ASSUME NEW c, CacheKept(c), NEW l, NEW p, TPageOf(l) \in c.pt, NEW e, e = update(c, l, p)
    PROVE  /\ CacheKept(e) /\ e.table = SetTo(c.table, l, p)
           /\ CacheSound(c) /\ l \in Lpas /\ p \in Pages => CacheSound(e)
<1>1. PICK x : x = TPageOf(l)
  OBVIOUS
<1>2. PICK r : r = lru_update(c.lru, x)
  OBVIOUS
<1>3. PICK t : t = SetTo(c.table, l, p)
  OBVIOUS
<1>4. PICK D : D = c.dirty \cup {x}
  OBVIOUS
<1>5. PICK fl : fl = IF x \in c.dirty THEN c.flashed ELSE c.flashed \ {x}
  OBVIOUS
<1>6. LruSound(r, c.pt)
  BY <1>1, <1>2, UpdateIs DEF CacheKept
<1>7. e = [c EXCEPT !.table = t, !.lru = r, !.dirty = D, !.flashed = fl]
  BY <1>1, <1>2, <1>3, <1>4, <1>5 DEF update, CacheKept, IsCache, SetTo
<1>8. /\ IsCache(e) /\ e.lru = r /\ e.table = t /\ e.pt = c.pt /\ e.dirty = D
      /\ e.flashed = fl /\ e.late = c.late
  BY <1>7 DEF CacheKept, IsCache
<1>9. CacheKept(e)
  BY <1>6, <1>8 DEF CacheKept
<1>10. ASSUME CacheSound(c), l \in Lpas, p \in Pages PROVE CacheSound(e)
  <2>1. e.dirty \subseteq e.pt
    BY <1>1, <1>4, <1>8, <1>10 DEF CacheSound, LooksUp
  <2>2. TPageOf(l) \in Backed(e)
    BY <1>1, <1>4, <1>8 DEF Backed
  <2>3. Backed(c) \subseteq Backed(e)
    BY <1>4, <1>5, <1>8 DEF Backed
  <2>4. e.table = SetTo(c.table, l, p)
    BY <1>3, <1>8
  <2>5. e.table \in [Lpas -> Pages \cup {NoPage}] /\ LooksUp(e)
    BY <1>10, <2>1, <2>2, <2>3, <2>4, StoredAfter
  <2> QED BY <1>9, <2>5 DEF CacheSound
<1> QED BY <1>3, <1>8, <1>9, <1>10

\* A mapping is set in a page that is not cached, which leaves the LRU as it is.
LEMMA OtherUpdateIs ==
    ASSUME NEW c, CacheKept(c), NEW l, NEW p,
           NEW e, IsCache(e), e.lru = c.lru, e.pt = c.pt, e.dirty = c.dirty,
           e.table = SetTo(c.table, l, p),
           TPageOf(l) \in Backed(e), Backed(c) \subseteq Backed(e)
    PROVE  CacheKept(e) /\ (CacheSound(c) /\ l \in Lpas /\ p \in Pages => CacheSound(e))
<1>1. CacheKept(e)
  BY DEF CacheKept
<1>2. ASSUME CacheSound(c), l \in Lpas, p \in Pages PROVE CacheSound(e)
  <2>1. e.dirty \subseteq e.pt
    BY <1>2 DEF CacheSound, LooksUp
  <2>2. e.table \in [Lpas -> Pages \cup {NoPage}] /\ LooksUp(e)
    BY <1>2, <2>1, StoredAfter
  <2> QED BY <1>1, <2>2 DEF CacheSound
<1> QED BY <1>1, <1>2

\* dftl_cache_update.
LEMMA SetIs ==
    ASSUME NEW c, CacheKept(c), NEW l, NEW p, NEW e, e = update(c, l, p)
    PROVE  /\ CacheKept(e) /\ e.table = SetTo(c.table, l, p)
           /\ CacheSound(c) /\ l \in Lpas /\ p \in Pages => CacheSound(e)
<1>1. CASE TPageOf(l) \in c.pt
  BY <1>1, CachedUpdateIs
<1>2. CASE TPageOf(l) \notin c.pt
  <2>1. PICK la : la = c.late \cup {TPageOf(l)}
    OBVIOUS
  <2>2. PICK t : t = SetTo(c.table, l, p)
    OBVIOUS
  <2>3. e = [c EXCEPT !.table = t, !.late = la]
    BY <1>2, <2>1, <2>2 DEF update, CacheKept, IsCache, SetTo
  <2>4. /\ IsCache(e) /\ e.lru = c.lru /\ e.table = t /\ e.pt = c.pt /\ e.dirty = c.dirty
        /\ e.flashed = c.flashed /\ e.late = la
    BY <2>3 DEF CacheKept, IsCache
  <2>5. TPageOf(l) \in Backed(e) /\ Backed(c) \subseteq Backed(e)
    BY <2>1, <2>4 DEF Backed
  <2>6. e.table = SetTo(c.table, l, p)
    BY <2>2, <2>4
  <2>7. CacheKept(e) /\ (CacheSound(c) /\ l \in Lpas /\ p \in Pages => CacheSound(e))
    BY <2>4, <2>5, <2>6, OtherUpdateIs
  <2> QED BY <2>6, <2>7
<1> QED BY <1>1, <1>2

\* The mapping of a value that GC moved.
LEMMA RepointIs ==
    ASSUME NEW c, CacheKept(c), NEW l, NEW p, NEW e, e = GcRepoint(c, l, p)
    PROVE  /\ CacheKept(e) /\ e.table = SetTo(c.table, l, p)
           /\ CacheSound(c) /\ l \in Lpas /\ p \in Pages => CacheSound(e)
<1>1. CASE TPageOf(l) \in c.pt
  BY <1>1, CachedUpdateIs DEF GcRepoint
<1>2. CASE TPageOf(l) \notin c.pt
  <2>1. PICK la : la = c.late \ {TPageOf(l)}
    OBVIOUS
  <2>2. PICK fl : fl = c.flashed \cup {TPageOf(l)}
    OBVIOUS
  <2>3. PICK t : t = SetTo(c.table, l, p)
    OBVIOUS
  <2>4. e = [c EXCEPT !.table = t, !.flashed = fl, !.late = la]
    BY <1>2, <2>1, <2>2, <2>3 DEF GcRepoint, CacheKept, IsCache, SetTo
  <2>5. /\ IsCache(e) /\ e.lru = c.lru /\ e.table = t /\ e.pt = c.pt /\ e.dirty = c.dirty
        /\ e.flashed = fl /\ e.late = la
    BY <2>4 DEF CacheKept, IsCache
  <2>6. TPageOf(l) \in Backed(e) /\ Backed(c) \subseteq Backed(e)
    BY <2>1, <2>2, <2>5 DEF Backed
  <2>7. e.table = SetTo(c.table, l, p)
    BY <2>3, <2>5
  <2>8. CacheKept(e) /\ (CacheSound(c) /\ l \in Lpas /\ p \in Pages => CacheSound(e))
    BY <2>5, <2>6, <2>7, OtherUpdateIs
  <2> QED BY <2>7, <2>8
<1> QED BY <1>1, <1>2

\* The loop of _do_bulk_mapping_update turn by turn.
LEMMA BulkRuns ==
    ASSUME BlockSsdAssumption, NEW c, NEW mv
    PROVE  \E h : /\ h[0] = c /\ bulk_mapping_update(c, mv) = h[NrLpas]
                  /\ \A n \in 1 .. NrLpas :
                        h[n] = IF n - 1 \in DOMAIN mv THEN GcRepoint(h[n - 1], n - 1, mv[n - 1])
                               ELSE h[n - 1]
<1>0. NrLpas \in Nat
  BY Sizes
<1> DEFINE Step(x, n) == IF n - 1 \in DOMAIN mv THEN GcRepoint(x, n - 1, mv[n - 1]) ELSE x
           Goes(g, m) == /\ g = [n \in 0 .. m |-> g[n]] /\ g[0] = c
                         /\ \A n \in 1 .. m : g[n] = Step(g[n - 1], n)
           T == { m \in 0 .. NrLpas : \E g : Goes(g, m) }
<1>1. 0 \in T
  <2> DEFINE g == [n \in 0 .. 0 |-> c]
  <2>1. Goes(g, 0)
    OBVIOUS
  <2>2. \E f : Goes(f, 0)
    <3> HIDE DEF Goes, g
    <3> QED BY <2>1
  <2> HIDE DEF Goes
  <2> QED BY <1>0, <2>2
<1>2. ASSUME NEW m \in 1 .. NrLpas, m - 1 \in T PROVE m \in T
  <2> HIDE DEF Step
  <2>1. PICK f : Goes(f, m - 1)
    BY <1>2
  <2>2. m \in Nat /\ m > 0
    BY <1>0
  <2> DEFINE g == [n \in 0 .. m |-> IF n = m THEN Step(f[m - 1], m) ELSE f[n]]
  <2>3. g = [n \in 0 .. m |-> g[n]]
    OBVIOUS
  <2>4. g[0] = c
    BY <2>1, <2>2
  <2>5. ASSUME NEW n \in 1 .. m PROVE g[n] = Step(g[n - 1], n)
    <3>1. n \in 0 .. m /\ n - 1 \in 0 .. m /\ n - 1 # m
      BY <2>2
    <3>2. g[n - 1] = f[n - 1]
      BY <3>1
    <3>3. CASE n = m
      BY <3>1, <3>2, <3>3
    <3>4. CASE n # m
      <4>1. n \in 1 .. m - 1
        BY <2>2, <3>4
      <4>2. f[n] = Step(f[n - 1], n)
        BY <2>1, <4>1
      <4> QED BY <3>1, <3>2, <3>4, <4>2
    <3> QED BY <3>3, <3>4
  <2>6. Goes(g, m)
    BY <2>3, <2>4, <2>5
  <2>7. \E e : Goes(e, m)
    <3> HIDE DEF Goes, g
    <3> QED BY <2>6
  <2> HIDE DEF Goes
  <2> QED BY <2>7
<1>3. NrLpas \in T
  <2> HIDE DEF T
  <2>1. \A i \in 0 .. NrLpas : i \in T
    BY <1>0, <1>1, <1>2, CountUp
  <2> QED BY <1>0, <2>1
<1>4. PICK g : Goes(g, NrLpas)
  BY <1>3
<1> DEFINE G(after) == after = [n \in 0 .. NrLpas |->
               IF n = 0 THEN c
               ELSE IF n - 1 \in DOMAIN mv THEN GcRepoint(after[n - 1], n - 1, mv[n - 1])
               ELSE after[n - 1]]
<1>5. G(g)
  <2>1. g = [n \in 0 .. NrLpas |-> g[n]] /\ g[0] = c
    BY <1>4
  <2>2. ASSUME NEW n \in 0 .. NrLpas
        PROVE  g[n] = IF n = 0 THEN c
                      ELSE IF n - 1 \in DOMAIN mv THEN GcRepoint(g[n - 1], n - 1, mv[n - 1])
                      ELSE g[n - 1]
    <3>1. CASE n = 0
      BY <2>1, <3>1
    <3>2. CASE n # 0
      <4>1. n \in 1 .. NrLpas
        BY <1>0, <3>2
      <4>2. g[n] = Step(g[n - 1], n)
        BY <1>4, <4>1
      <4> QED BY <3>2, <4>2
    <3> QED BY <3>1, <3>2
  <2> QED BY <2>1, <2>2
<1>6. PICK h : h = CHOOSE after : G(after)
  OBVIOUS
<1>7. G(h)
  <2> HIDE DEF G
  <2> QED BY <1>5, <1>6
<1>8. bulk_mapping_update(c, mv) = h[NrLpas]
  BY <1>6 DEF bulk_mapping_update
<1>9. h[0] = c
  BY <1>0, <1>7
<1>10. \A n \in 1 .. NrLpas :
          h[n] = IF n - 1 \in DOMAIN mv THEN GcRepoint(h[n - 1], n - 1, mv[n - 1]) ELSE h[n - 1]
  BY <1>0, <1>7
<1> HIDE DEF G
<1> QED BY <1>8, <1>9, <1>10

\* Whatever moved, the cache is kept.
LEMMA BulkKeeps ==
    ASSUME BlockSsdAssumption, NEW c, CacheKept(c), NEW mv, NEW e, e = bulk_mapping_update(c, mv)
    PROVE  CacheKept(e)
<1>0. NrLpas \in Nat
  BY Sizes
<1>1. PICK h : /\ h[0] = c /\ e = h[NrLpas]
               /\ \A n \in 1 .. NrLpas :
                     h[n] = IF n - 1 \in DOMAIN mv THEN GcRepoint(h[n - 1], n - 1, mv[n - 1])
                            ELSE h[n - 1]
  BY BulkRuns
<1> DEFINE T == { n \in 0 .. NrLpas : CacheKept(h[n]) }
<1>2. 0 \in T
  BY <1>0, <1>1
<1>3. ASSUME NEW n \in 1 .. NrLpas, n - 1 \in T PROVE n \in T
  <2>1. PICK x : x = h[n - 1]
    OBVIOUS
  <2>2. CacheKept(x)
    BY <1>3, <2>1
  <2>3. CASE n - 1 \in DOMAIN mv
    <3>1. h[n] = GcRepoint(x, n - 1, mv[n - 1])
      BY <1>1, <2>1, <2>3
    <3>2. CacheKept(h[n])
      BY <2>2, <3>1, RepointIs
    <3> QED BY <1>0, <3>2
  <2>4. CASE n - 1 \notin DOMAIN mv
    BY <1>0, <1>1, <2>1, <2>2, <2>4
  <2> QED BY <2>3, <2>4
<1> HIDE DEF T
<1>4. \A i \in 0 .. NrLpas : i \in T
  BY <1>0, <1>2, <1>3, CountUp
<1> QED BY <1>0, <1>1, <1>4 DEF T

\* The loop sets the mappings of the values that moved, and no others.
LEMMA BulkIs ==
    ASSUME BlockSsdAssumption, NEW c, CacheSound(c), NEW mv, DOMAIN mv \subseteq Lpas,
           \A l \in DOMAIN mv : mv[l] \in Pages, NEW e, e = bulk_mapping_update(c, mv)
    PROVE  /\ CacheSound(e)
           /\ \A l \in Lpas : e.table[l] = IF l \in DOMAIN mv THEN mv[l] ELSE c.table[l]
<1>0. NrLpas \in Nat
  BY Sizes
<1>1. PICK h : /\ h[0] = c /\ e = h[NrLpas]
               /\ \A n \in 1 .. NrLpas :
                     h[n] = IF n - 1 \in DOMAIN mv THEN GcRepoint(h[n - 1], n - 1, mv[n - 1])
                            ELSE h[n - 1]
  BY BulkRuns
<1> DEFINE Ran(n) == /\ CacheSound(h[n])
                    /\ \A l \in Lpas : h[n].table[l] = IF l < n /\ l \in DOMAIN mv THEN mv[l]
                                                       ELSE c.table[l]
           T == { n \in 0 .. NrLpas : Ran(n) }
<1>2. 0 \in T
  <2>1. \A l \in Lpas : ~(l < 0)
    BY Sizes
  <2>2. Ran(0)
    BY <1>1, <2>1
  <2> QED BY <1>0, <2>2
<1>3. ASSUME NEW n \in 1 .. NrLpas, n - 1 \in T PROVE n \in T
  <2>1. /\ CacheSound(h[n - 1])
        /\ \A l \in Lpas : h[n - 1].table[l] = IF l < n - 1 /\ l \in DOMAIN mv THEN mv[l]
                                               ELSE c.table[l]
    BY <1>3
  <2>2. n - 1 \in Lpas /\ n \in Nat
    BY <1>0 DEF Lpas
  <2>3. \A l \in Lpas : l \in Nat
    BY Sizes
  <2>4. CASE n - 1 \in DOMAIN mv
    <3>1. PICK x : x = h[n - 1]
      OBVIOUS
    <3>2. h[n] = GcRepoint(x, n - 1, mv[n - 1]) /\ CacheSound(x)
      BY <1>1, <2>1, <2>4, <3>1
    <3>3. CacheSound(h[n]) /\ h[n].table = SetTo(x.table, n - 1, mv[n - 1])
      BY <2>2, <2>4, <3>2, RepointIs DEF CacheSound
    <3>4. x.table \in [Lpas -> Pages \cup {NoPage}]
      BY <3>2 DEF CacheSound
    <3>5. ASSUME NEW l \in Lpas
          PROVE  h[n].table[l] = IF l < n /\ l \in DOMAIN mv THEN mv[l] ELSE c.table[l]
      <4>1. CASE l = n - 1
        <5>1. l < n
          BY <2>2, <4>1
        <5> QED BY <2>4, <3>3, <3>4, <4>1, <5>1 DEF SetTo
      <4>2. CASE l # n - 1
        <5>1. h[n].table[l] = x.table[l]
          BY <3>3, <3>4, <4>2 DEF SetTo
        <5>2. l < n <=> l < n - 1
          BY <2>2, <2>3, <4>2
        <5> QED BY <2>1, <3>1, <5>1, <5>2
      <4> QED BY <4>1, <4>2
    <3>6. Ran(n)
      BY <3>3, <3>5
    <3> HIDE DEF Ran
    <3> QED BY <3>6
  <2>5. CASE n - 1 \notin DOMAIN mv
    <3>1. h[n] = h[n - 1]
      BY <1>1, <2>5
    <3>2. \A l \in DOMAIN mv : l < n <=> l < n - 1
      BY <2>2, <2>3, <2>5
    <3> QED BY <2>1, <3>1, <3>2
  <2> QED BY <2>4, <2>5
<1>4. Ran(NrLpas)
  <2>1. \A i \in 0 .. NrLpas : i \in T
    <3> HIDE DEF T
    <3> QED BY <1>0, <1>2, <1>3, CountUp
  <2> QED BY <1>0, <2>1
<1>5. \A l \in Lpas : l < NrLpas
  BY <1>0 DEF Lpas
<1> QED BY <1>1, <1>4, <1>5


-----------------------------------------------------------------------------
(***************************************************************************)
(* Superblocks and pages.                                                  *)
(***************************************************************************)
\* A page and its parts.
LEMMA PageIs ==
    ASSUME BlockSsdAssumption
    PROVE  /\ \A p \in Pages : /\ p[1] \in Sblks /\ p[2] \in 0 .. PagesPerSblk - 1 /\ p[2] \in Nat
                               /\ p = <<p[1], p[2]>>
           /\ \A i \in Sblks : \A j \in 0 .. PagesPerSblk - 1 :
                  <<i, j>> \in Pages /\ <<i, j>>[1] = i /\ <<i, j>>[2] = j
           /\ NoPage[1] = NoSblk /\ NoPage \notin Pages
BY Sizes DEF Pages, NoPage

\* The write pointer of a superblock.
LEMMA WpIs ==
    ASSUME BlockSsdAssumption, NEW f, FlashTypes(f), NEW i \in Sblks
    PROVE  /\ f.wp[i] \in Nat /\ f.wp[i] <= PagesPerSblk /\ f.dev[i] \in Nat /\ i \in Nat
           /\ check_full(f, i) <=> f.wp[i] = PagesPerSblk
<1>1. f.wp[i] \in 0 .. PagesPerSblk /\ f.dev[i] \in 0 .. PagesPerSblk /\ i \in Nat
  BY Sizes DEF FlashTypes
<1> QED BY <1>1, Sizes DEF check_full

\* The valid pages of a superblock.
LEMMA ValidInIs ==
    ASSUME BlockSsdAssumption, NEW f, FlashTypes(f), NEW i
    PROVE  /\ IsFiniteSet(Valid(f)) /\ Cardinality(Valid(f)) \in Nat
           /\ IsFiniteSet(ValidIn(f, i)) /\ valid_cnt(f, i) \in Nat
           /\ \A p \in ValidIn(f, i) : p \in Pages /\ p \in Valid(f) /\ p[1] = i
<1>1. Valid(f) \subseteq Pages /\ IsFiniteSet(Pages)
  BY Sizes DEF FlashTypes
<1>2. ValidIn(f, i) \subseteq Pages /\ \A p \in ValidIn(f, i) : p \in Valid(f) /\ p[1] = i
  BY <1>1 DEF ValidIn
<1>3. IsFiniteSet(Valid(f)) /\ IsFiniteSet(ValidIn(f, i))
  BY <1>1, <1>2, FS_Subset
<1> QED BY <1>2, <1>3, FS_CardinalityType DEF valid_cnt

\* Erased superblocks can be counted.
LEMMA ErasedIs ==
    ASSUME BlockSsdAssumption, NEW f
    PROVE  /\ IsFiniteSet(Erased(f)) /\ Cardinality(Erased(f)) \in Nat
           /\ \A S \in SUBSET Erased(f) : IsFiniteSet(S) /\ Cardinality(S) \in Nat
<1>1. Erased(f) \subseteq Sblks
  BY DEF Erased
<1>2. IsFiniteSet(Erased(f))
  BY <1>1, Sizes, FS_Subset
<1> QED BY <1>2, FS_Subset, FS_CardinalityType

\* With fewer valid pages than the superblocks but one have, one of them is not all valid.
LEMMA OneHasRoom ==
    ASSUME BlockSsdAssumption, NEW f, FlashTypes(f), NEW r \in Sblks,
           Cardinality(Valid(f)) < (ESblk - SSblk) * PagesPerSblk
    PROVE  \E i \in Sblks \ {r} : valid_cnt(f, i) < PagesPerSblk
<1> SUFFICES ASSUME \A i \in Sblks \ {r} : ~(valid_cnt(f, i) < PagesPerSblk) PROVE FALSE
  OBVIOUS
<1>1. PICK P : P = 0 .. PagesPerSblk - 1
  OBVIOUS
<1>2. IsFiniteSet(P) /\ Cardinality(P) = PagesPerSblk
  <2>1. PICK n \in Nat : n = PagesPerSblk /\ n > 0
    BY Sizes
  <2>2. IsFiniteSet(0 .. n - 1) /\ Cardinality(0 .. n - 1) = n
    BY <2>1, FS_Interval
  <2> QED BY <1>1, <2>1, <2>2
<1>3. ASSUME NEW i \in Sblks \ {r} PROVE {i} \X P = ValidIn(f, i)
  <2>1. IsFiniteSet({i}) /\ Cardinality({i}) = 1
    BY FS_Singleton
  <2>2. IsFiniteSet({i} \X P) /\ Cardinality({i} \X P) = PagesPerSblk
    BY <1>2, <2>1, Sizes, FS_Product
  <2>3. ValidIn(f, i) \in SUBSET ({i} \X P)
    <3>1. ASSUME NEW p \in ValidIn(f, i) PROVE p \in {i} \X P
      <4>1. p[1] = i /\ p[2] \in P /\ p = <<p[1], p[2]>>
        BY <1>1, ValidInIs, PageIs
      <4> QED BY <4>1
    <3> QED BY <3>1
  <2>4. valid_cnt(f, i) <= PagesPerSblk /\ valid_cnt(f, i) \in Nat
    BY <2>2, <2>3, ValidInIs, FS_Subset DEF valid_cnt
  <2>5. Cardinality(ValidIn(f, i)) = PagesPerSblk
    BY <2>4, Sizes DEF valid_cnt
  <2> QED BY <2>2, <2>3, <2>5, FS_Subset
<1>4. PICK R : R = Sblks \ {r}
  OBVIOUS
<1>5. IsFiniteSet(R) /\ Cardinality(R) = ESblk - SSblk
  <2>1. PICK n : n = Cardinality(Sblks)
    OBVIOUS
  <2>2. IsFiniteSet(R) /\ Cardinality(R) = n - 1
    BY <1>4, <2>1, Sizes, FS_RemoveElement
  <2>3. n - 1 = ESblk - SSblk
    BY <2>1, Sizes
  <2> QED BY <2>2, <2>3
<1>6. IsFiniteSet(R \X P) /\ Cardinality(R \X P) = (ESblk - SSblk) * PagesPerSblk
  BY <1>2, <1>5, FS_Product
<1>7. ASSUME NEW p \in R \X P PROVE p \in Valid(f)
  <2>1. p[1] \in Sblks \ {r} /\ p \in {p[1]} \X P
    BY <1>4
  <2>2. p \in ValidIn(f, p[1])
    BY <1>3, <2>1
  <2> QED BY <2>2 DEF ValidIn
<1>8. R \X P \in SUBSET Valid(f)
  BY <1>7
<1>9. Cardinality(R \X P) <= Cardinality(Valid(f))
  BY <1>8, ValidInIs, FS_Subset
<1>10. PICK K : K = (ESblk - SSblk) * PagesPerSblk
  OBVIOUS
<1>11. K \in Int
  BY <1>10, Sizes
<1>12. Cardinality(Valid(f)) < K /\ K <= Cardinality(Valid(f)) /\ Cardinality(Valid(f)) \in Nat
  BY <1>6, <1>9, <1>10, ValidInIs
<1> QED BY <1>11, <1>12

\* get_active_superblock finds an erased superblock that is neither the reserve nor the
\* one it found last.
LEMMA FoundIs ==
    ASSUME BlockSsdAssumption, NEW f, FlashSound(f), NeedsSblk(f), ~isgc_needed(f),
           NEW g, g = get_active_sblk(f)
    PROVE  /\ FlashSound(g) /\ g.active \in Sblks /\ ~check_full(g, g.active)
           /\ g.wp = f.wp /\ g.rsv = f.rsv /\ g.lpa = f.lpa /\ g.dev = f.dev
           /\ g.newest = f.newest /\ g.moved = f.moved
<1>1. /\ FlashTypes(f) /\ Pools(f) /\ ~f.fault /\ ~f.refused /\ f.rsv \in Sblks
      /\ f.next \in Sblks \cup {NoSblk} /\ f.active \in Sblks \cup {NoSblk}
  BY DEF FlashSound, FlashTypes
<1>2. f.active = NoSblk \/ f.wp[f.active] = PagesPerSblk
  BY <1>1, WpIs DEF NeedsSblk
<1>3. PICK usable : usable = { i \in Sblks \ {f.rsv} : ~check_full(f, i) }
  OBVIOUS
<1>4. usable = Erased(f) \ {f.rsv}
  <2>1. ASSUME NEW i \in usable PROVE i \in Erased(f) \ {f.rsv}
    <3>1. i \in Sblks /\ i # f.rsv /\ f.wp[i] # PagesPerSblk
      BY <1>1, <1>3, WpIs
    <3>2. i # f.active
      BY <1>2, <3>1, Sizes
    <3>3. f.wp[i] = 0
      BY <1>1, <3>1, <3>2 DEF Pools
    <3> QED BY <3>1, <3>2, <3>3 DEF Erased
  <2>2. ASSUME NEW i \in Erased(f) \ {f.rsv} PROVE i \in usable
    <3>1. i \in Sblks /\ f.wp[i] = 0
      BY DEF Erased
    <3>2. ~check_full(f, i)
      BY <1>1, <3>1, WpIs, Sizes
    <3> QED BY <1>3, <3>1, <3>2
  <2> QED BY <2>1, <2>2
<1>5. f.rsv \in Erased(f) /\ f.rsv \notin usable /\ usable \subseteq Sblks /\ usable \subseteq Erased(f)
  BY <1>1, <1>4 DEF Erased, Pools
<1>6. /\ f.free = Cardinality(Erased(f)) /\ IsFiniteSet(Erased(f)) /\ f.free \in Nat /\ f.free >= 2
      /\ IsFiniteSet(usable) /\ Cardinality(usable) = f.free - 1
  <2>1. f.free = Cardinality(Erased(f)) /\ IsFiniteSet(Erased(f)) /\ f.free \in Nat
    BY <1>1, ErasedIs DEF Pools
  <2>2. IsFiniteSet(usable) /\ Cardinality(usable) = f.free - 1
    BY <1>4, <1>5, <2>1, FS_RemoveElement
  <2> QED BY <2>1, <2>2 DEF isgc_needed
<1>7. usable # {}
  BY <1>6, FS_EmptySet
<1>8. PICK start : start = IF f.next # NoSblk THEN f.next ELSE Min(usable)
  OBVIOUS
<1>9. usable \ {start} # {}
  <2>1. CASE f.next # NoSblk
    <3>1. f.next \in Sblks /\ start = f.next
      BY <1>1, <1>8, <2>1
    <3>2. f.next = f.rsv \/ f.next = f.active \/ f.wp[f.next] > 0
      BY <1>1, <3>1 DEF Pools
    <3>3. start \notin usable
      <4>1. f.wp[f.next] > 0 => f.next \notin Erased(f)
        BY Sizes DEF Erased
      <4>2. f.active \notin Erased(f)
        BY DEF Erased
      <4> QED BY <1>5, <3>1, <3>2, <4>1, <4>2
    <3> QED BY <1>7, <3>3
  <2>2. CASE f.next = NoSblk
    <3>1. f.active = NoSblk /\ \A i \in Sblks : f.wp[i] = 0
      BY <1>1, <2>2 DEF Pools
    <3>2. Erased(f) = Sblks
      BY <3>1, Sizes DEF Erased
    <3>3. f.free = ESblk - SSblk + 1
      BY <1>6, <3>2, Sizes
    <3>4. Cardinality(usable) >= 2
      BY <1>6, <3>3, Sizes
    <3>5. IsFiniteSet(usable \ {start}) /\ Cardinality(usable \ {start}) >= 1
      <4>1. PICK n \in Nat : n = Cardinality(usable) /\ n >= 2
        BY <1>6, <3>4
      <4>2. /\ IsFiniteSet(usable \ {start})
            /\ Cardinality(usable \ {start}) = IF start \in usable THEN n - 1 ELSE n
        BY <1>6, <4>1, FS_RemoveElement
      <4> QED BY <4>1, <4>2
    <3> QED BY <3>5, FS_EmptySet
  <2> QED BY <2>1, <2>2
<1>10. PICK after : after = { i \in usable : i > start }
  OBVIOUS
<1>11. PICK nx : nx = IF after # {} THEN Min(after)
                      ELSE IF usable \ {start} # {} THEN Min(usable \ {start}) ELSE NoSblk
  OBVIOUS
<1>12. nx \in usable
  <2>1. after \subseteq Nat /\ usable \ {start} \subseteq Nat
    BY <1>5, <1>10, Sizes
  <2>2. after # {} => Min(after) \in after
    BY <2>1, MinIsIn
  <2>3. Min(usable \ {start}) \in usable \ {start}
    BY <1>9, <2>1, MinIsIn
  <2> QED BY <1>9, <1>10, <1>11, <2>2, <2>3
<1>13. nx \in Sblks /\ nx # f.rsv /\ f.wp[nx] = 0 /\ nx # NoSblk /\ nx \in Erased(f)
  <2>1. nx \in Erased(f) /\ nx # f.rsv
    BY <1>4, <1>12
  <2> QED BY <2>1, Sizes DEF Erased
<1>14. g = IF nx = NoSblk THEN [f EXCEPT !.fault = TRUE]
           ELSE [f EXCEPT !.next = nx, !.active = nx, !.free = IF f.wp[nx] = 0 THEN @ - 1 ELSE @]
  BY <1>3, <1>8, <1>10, <1>11 DEF get_active_sblk
<1>15. IsFlash(f)
  BY <1>1 DEF FlashTypes
<1>16. g = [f EXCEPT !.next = nx, !.active = nx, !.free = f.free - 1]
  BY <1>13, <1>14, <1>15 DEF IsFlash
<1>17. /\ IsFlash(g) /\ g.wp = f.wp /\ g.free = f.free - 1 /\ g.rsv = f.rsv /\ g.next = nx
       /\ g.active = nx /\ g.lpa = f.lpa /\ g.dev = f.dev /\ g.newest = f.newest
       /\ g.moved = f.moved /\ g.refused = f.refused /\ g.fault = f.fault
  BY <1>15, <1>16 DEF IsFlash
<1>18. FlashTypes(g)
  BY <1>1, <1>13, <1>17, <1>6 DEF FlashTypes, Valid
<1>19. Pools(g)
  <2>1. Erased(g) = Erased(f) \ {nx}
    <3>1. \A i \in Sblks : f.wp[i] = 0 => i # f.active
      BY <1>2, Sizes
    <3> QED BY <1>17, <3>1 DEF Erased
  <2>2. Cardinality(Erased(g)) = f.free - 1
    BY <1>6, <1>13, <2>1, FS_RemoveElement
  <2>3. \A i \in Sblks : i # g.active => g.wp[i] \in {0, PagesPerSblk}
    <3> SUFFICES ASSUME NEW i \in Sblks PROVE f.wp[i] \in {0, PagesPerSblk}
      BY <1>17
    <3>1. CASE i = f.active
      BY <1>2, <3>1, Sizes
    <3>2. CASE i # f.active
      BY <1>1, <3>2 DEF Pools
    <3> QED BY <3>1, <3>2
  <2>4. g.wp[g.rsv] = 0 /\ g.dev[g.rsv] = 0 /\ g.active # g.rsv
    BY <1>1, <1>13, <1>17 DEF Pools
  <2>5. \A p \in Valid(g) : p[2] < g.wp[p[1]]
    BY <1>1, <1>17 DEF Pools, Valid
  <2> QED BY <1>13, <1>17, <2>2, <2>3, <2>4, <2>5 DEF Pools
<1>20. ~check_full(g, g.active)
  BY <1>13, <1>17, Sizes DEF check_full
<1> QED BY <1>1, <1>13, <1>17, <1>18, <1>19, <1>20 DEF FlashSound

\* The page the active superblock hands out is a new one, and it is valid.
LEMMA TakenIs ==
    ASSUME BlockSsdAssumption, NEW f, FlashSound(f), f.active \in Sblks,
           ~check_full(f, f.active), NEW p, p = NewPage(f), NEW g, g = validate(TakePage(f), p, 0)
    PROVE  /\ FlashSound(g) /\ p \in Pages /\ p \notin Valid(f) /\ Valid(g) = Valid(f) \cup {p}
           /\ p[1] = f.active /\ p[2] = f.wp[f.active]
           /\ \A q \in Valid(f) : g.lpa[q] = f.lpa[q]
           /\ \A i \in Sblks : g.wp[i] = IF i = p[1] THEN p[2] + 1 ELSE f.wp[i]
           /\ g.dev = f.dev /\ g.newest = f.newest
<1>1. /\ FlashTypes(f) /\ Pools(f) /\ ~f.fault /\ ~f.refused /\ f.rsv \in Sblks /\ IsFlash(f)
      /\ f.wp \in [Sblks -> 0 .. PagesPerSblk] /\ f.lpa \in [Valid(f) -> Lpas]
  BY DEF FlashSound, FlashTypes
<1>2. PICK a \in Sblks : a = f.active
  OBVIOUS
<1>3. PICK k : k = f.wp[a]
  OBVIOUS
<1>4. k \in 0 .. PagesPerSblk - 1 /\ k \in Nat
  BY <1>1, <1>2, <1>3, WpIs, Sizes
<1>5. p = <<a, k>> /\ p \in Pages /\ p[1] = a /\ p[2] = k
  BY <1>2, <1>3, <1>4, PageIs DEF NewPage
<1>6. p \notin Valid(f)
  <2>1. p \in Valid(f) => p[2] < f.wp[p[1]]
    BY <1>1 DEF Pools
  <2> QED BY <1>3, <1>4, <1>5, <2>1
<1>7. PICK w : w = [f.wp EXCEPT ![a] = k + 1]
  OBVIOUS
<1>8. PICK h : h = TakePage(f)
  OBVIOUS
<1>9. h = [f EXCEPT !.wp = w, !.fault = f.fault \/ check_full(f, a)]
  BY <1>1, <1>2, <1>3, <1>7, <1>8 DEF TakePage, IsFlash
<1>10. /\ IsFlash(h) /\ h.wp = w /\ h.free = f.free /\ h.rsv = f.rsv /\ h.next = f.next
       /\ h.active = f.active /\ h.lpa = f.lpa /\ h.dev = f.dev /\ h.newest = f.newest
       /\ h.moved = f.moved /\ h.refused = f.refused /\ h.fault = (f.fault \/ check_full(f, a))
  BY <1>1, <1>9 DEF IsFlash
<1>11. ~h.fault /\ ~h.refused
  BY <1>1, <1>2, <1>10
<1>12. PICK o : o = [q \in Valid(f) \cup {p} |-> IF q = p THEN 0 ELSE f.lpa[q]]
  OBVIOUS
<1>13. Valid(h) = Valid(f)
  BY <1>10 DEF Valid
<1>14. g = [h EXCEPT !.lpa = o, !.fault = h.fault \/ p \in Valid(h)]
  BY <1>8, <1>10, <1>12, <1>13 DEF validate, IsFlash
<1>15. /\ IsFlash(g) /\ g.wp = w /\ g.free = f.free /\ g.rsv = f.rsv /\ g.next = f.next
       /\ g.active = f.active /\ g.lpa = o /\ g.dev = f.dev /\ g.newest = f.newest
       /\ g.refused = h.refused /\ g.fault = (h.fault \/ p \in Valid(h))
  BY <1>10, <1>14 DEF IsFlash
<1>16. ~g.fault /\ ~g.refused
  BY <1>6, <1>11, <1>13, <1>15
<1>17. Valid(g) = Valid(f) \cup {p} /\ \A q \in Valid(f) : g.lpa[q] = f.lpa[q]
  BY <1>6, <1>12, <1>15 DEF Valid
<1>18. w \in [Sblks -> 0 .. PagesPerSblk] /\ \A i \in Sblks : w[i] = IF i = a THEN k + 1 ELSE f.wp[i]
  BY <1>1, <1>4, <1>7, Sizes
<1>19. FlashTypes(g)
  <2>1. o \in [Valid(g) -> Lpas]
    <3>1. 0 \in Lpas
      BY Sizes DEF Lpas
    <3> QED BY <1>1, <1>12, <1>17, <3>1
  <2>2. Valid(g) \subseteq Pages
    BY <1>1, <1>5, <1>17 DEF FlashTypes
  <2> QED BY <1>1, <1>15, <1>18, <2>1, <2>2 DEF FlashTypes
<1>20. Pools(g)
  <2>1. Erased(g) = Erased(f)
    BY <1>2, <1>15, <1>18 DEF Erased
  <2>2. \A i \in Sblks : i # g.active => g.wp[i] \in {0, PagesPerSblk}
    BY <1>1, <1>2, <1>15, <1>18 DEF Pools
  <2>3. g.wp[g.rsv] = 0 /\ g.dev[g.rsv] = 0 /\ g.active # g.rsv
    BY <1>1, <1>2, <1>15, <1>18 DEF Pools
  <2>4. f.active # NoSblk /\ f.next # NoSblk
    BY <1>1, <1>2, Sizes DEF Pools
  <2>5. g.next \in Sblks => g.next = g.rsv \/ g.next = g.active \/ g.wp[g.next] > 0
    BY <1>1, <1>2, <1>15, <1>18 DEF Pools
  <2>6. ASSUME NEW q \in Valid(g) PROVE q[2] < g.wp[q[1]]
    <3>1. CASE q = p
      BY <1>4, <1>5, <1>15, <1>18, <3>1
    <3>2. CASE q # p
      <4>1. q \in Valid(f) /\ q[1] \in Sblks /\ q[2] \in Nat /\ q[2] < f.wp[q[1]]
        BY <1>1, <1>17, <3>2, PageIs DEF Pools, FlashTypes
      <4> QED BY <1>3, <1>4, <1>15, <1>18, <4>1
    <3> QED BY <3>1, <3>2
  <2>7. g.free = Cardinality(Erased(g))
    BY <1>1, <1>15, <2>1 DEF Pools
  <2> QED BY <1>15, <2>2, <2>3, <2>4, <2>5, <2>6, <2>7 DEF Pools
<1> QED BY <1>2, <1>3, <1>5, <1>6, <1>15, <1>16, <1>17, <1>18, <1>19, <1>20 DEF FlashSound

\* When GC is needed every superblock but the reserve is full, and there is one to collect.
LEMMA TargetThere ==
    ASSUME BlockSsdAssumption, NEW f, FlashSound(f), NeedsSblk(f), isgc_needed(f),
           Cardinality(Valid(f)) < (ESblk - SSblk) * PagesPerSblk
    PROVE  /\ \A i \in Sblks : i # f.rsv => f.wp[i] = PagesPerSblk
           /\ f.active \in Sblks /\ f.free = 1 /\ f.next \in Sblks
           /\ Min(GcTargets(f)) \in GcTargets(f) /\ GcTargets(f) # {}
           /\ \A v \in GcTargets(f) : v \in Sblks /\ v # f.rsv /\ valid_cnt(f, v) < PagesPerSblk
<1>1. /\ FlashTypes(f) /\ Pools(f) /\ f.rsv \in Sblks /\ f.next \in Sblks \cup {NoSblk}
      /\ f.active \in Sblks \cup {NoSblk}
  BY DEF FlashSound, FlashTypes
<1>2. f.rsv \in Erased(f)
  BY <1>1 DEF Erased, Pools
<1>3. /\ f.free = Cardinality(Erased(f)) /\ IsFiniteSet(Erased(f)) /\ f.free \in Nat /\ f.free <= 1
  BY <1>1, ErasedIs DEF Pools, isgc_needed
<1>4. f.free = 1
  <2>1. f.free # 0
    BY <1>2, <1>3, FS_EmptySet
  <2> QED BY <1>3, <2>1
<1>5. \A i \in Erased(f) : i = f.rsv
  <2>1. Cardinality(Erased(f)) = 1
    BY <1>3, <1>4
  <2>2. PICK x : Erased(f) = {x}
    BY <1>3, <2>1, FS_Singleton
  <2> QED BY <1>2, <2>2
<1>6. f.next \in Sblks /\ f.active \in Sblks
  <2>1. f.next # NoSblk
    <3> SUFFICES ASSUME f.next = NoSblk PROVE FALSE
      OBVIOUS
    <3>1. f.active = NoSblk /\ \A i \in Sblks : f.wp[i] = 0
      BY <1>1 DEF Pools
    <3>2. Erased(f) = Sblks
      BY <3>1, Sizes DEF Erased
    <3>3. f.free = ESblk - SSblk + 1
      BY <1>3, <3>2, Sizes
    <3> QED BY <1>4, <3>3, Sizes
  <2>2. f.active # NoSblk
    BY <1>1, <2>1 DEF Pools
  <2> QED BY <1>1, <2>1, <2>2
<1>7. ASSUME NEW i \in Sblks, i # f.rsv PROVE f.wp[i] = PagesPerSblk
  <2>1. CASE i = f.active
    BY <1>1, <1>6, <2>1, WpIs, Sizes DEF NeedsSblk
  <2>2. CASE i # f.active
    BY <1>1, <1>5, <1>7, <2>2 DEF Pools, Erased
  <2> QED BY <2>1, <2>2
<1>8. Full(f) = Sblks \ {f.rsv}
  BY <1>1, <1>7, WpIs DEF Full
<1>9. PICK i \in Sblks \ {f.rsv} : valid_cnt(f, i) < PagesPerSblk
  BY <1>1, OneHasRoom
<1> DEFINE Counts == { valid_cnt(f, j) : j \in Full(f) }
<1>10. Counts \in SUBSET Nat /\ Counts # {}
  BY <1>1, <1>8, <1>9, ValidInIs
<1>11. PICK x \in Counts : \A y \in Counts : x <= y
  <2> HIDE DEF Counts
  <2> QED BY <1>10, LeastOne
<1>12. PICK v \in Full(f) : x = valid_cnt(f, v)
  OBVIOUS
<1>13. v \in Sblks /\ v # f.rsv /\ \A j \in Full(f) : valid_cnt(f, v) <= valid_cnt(f, j)
  BY <1>8, <1>11, <1>12
<1>14. valid_cnt(f, v) < PagesPerSblk
  BY <1>1, <1>8, <1>9, <1>13, ValidInIs, Sizes
<1>15. v \in GcTargets(f)
  BY <1>7, <1>8, <1>13, <1>14 DEF GcTargets
<1>16. \A t \in GcTargets(f) : t \in Sblks /\ t # f.rsv /\ valid_cnt(f, t) < PagesPerSblk
  BY <1>7, <1>8 DEF GcTargets
<1>17. GcTargets(f) \in SUBSET Nat
  BY <1>16, Sizes
<1> QED BY <1>4, <1>6, <1>7, <1>15, <1>16, <1>17, MinIsIn

\* The pages of the superblock of p that GC copies before p.
Behind(f, p) == { q \in ValidIn(f, p[1]) : q[2] > p[2] }

\* The copies go to different pages of the reserve, one behind the other.
LEMMA CopyIs ==
    ASSUME BlockSsdAssumption, NEW f, FlashTypes(f), f.wp[f.rsv] = 0, NEW v
    PROVE  /\ \A p \in ValidIn(f, v) : /\ CopyOf(f, p)[1] = f.rsv /\ CopyOf(f, p)[2] \in Nat
                                       /\ CopyOf(f, p)[2] < valid_cnt(f, v)
           /\ \A p, q \in ValidIn(f, v) : CopyOf(f, p) = CopyOf(f, q) => p = q
<1>1. ASSUME NEW p \in ValidIn(f, v)
      PROVE  /\ Behind(f, p) \in SUBSET ValidIn(f, v) /\ p \notin Behind(f, p)
             /\ IsFiniteSet(Behind(f, p)) /\ Cardinality(Behind(f, p)) \in Nat
             /\ Cardinality(Behind(f, p)) < valid_cnt(f, v)
             /\ CopyOf(f, p) = <<f.rsv, Cardinality(Behind(f, p))>>
  <2>1. p[1] = v /\ p[2] \in Nat
    BY ValidInIs, PageIs
  <2>2. Behind(f, p) \in SUBSET ValidIn(f, v) /\ p \notin Behind(f, p)
    BY <2>1 DEF Behind
  <2>3. IsFiniteSet(ValidIn(f, v)) /\ valid_cnt(f, v) \in Nat /\ valid_cnt(f, v) = Cardinality(ValidIn(f, v))
    BY ValidInIs DEF valid_cnt
  <2>4. IsFiniteSet(Behind(f, p)) /\ Cardinality(Behind(f, p)) \in Nat
    BY <2>2, <2>3, FS_Subset, FS_CardinalityType
  <2>5. Cardinality(Behind(f, p)) <= valid_cnt(f, v)
    BY <2>2, <2>3, FS_Subset
  <2>6. Cardinality(Behind(f, p)) # valid_cnt(f, v)
    BY <2>2, <2>3, FS_Subset
  <2>7. CopyOf(f, p) = <<f.rsv, 0 + Cardinality(Behind(f, p))>>
    BY DEF CopyOf, Behind
  <2> QED BY <2>2, <2>3, <2>4, <2>5, <2>6, <2>7
<1>2. ASSUME NEW p \in ValidIn(f, v), NEW q \in ValidIn(f, v), p[2] < q[2]
      PROVE  CopyOf(f, p) # CopyOf(f, q)
  <2>1. p[1] = v /\ q[1] = v /\ p[2] \in Nat /\ q[2] \in Nat
    BY ValidInIs, PageIs
  <2>2. ASSUME NEW r \in Behind(f, q) PROVE r \in Behind(f, p)
    <3>1. r \in ValidIn(f, v) /\ r[2] > q[2]
      BY <2>1 DEF Behind
    <3>2. r[2] \in Nat
      BY <3>1, ValidInIs, PageIs
    <3>3. r[2] > p[2]
      BY <1>2, <2>1, <3>1, <3>2
    <3> QED BY <2>1, <3>1, <3>3 DEF Behind
  <2>3. q \in Behind(f, p) /\ q \notin Behind(f, q)
    BY <1>1, <1>2, <2>1 DEF Behind
  <2>4. Behind(f, q) \in SUBSET Behind(f, p) /\ Behind(f, q) # Behind(f, p)
    BY <2>2, <2>3
  <2>5. Cardinality(Behind(f, q)) # Cardinality(Behind(f, p))
    BY <1>1, <2>4, FS_Subset
  <2> QED BY <1>1, <2>5
<1>3. ASSUME NEW p \in ValidIn(f, v), NEW q \in ValidIn(f, v), CopyOf(f, p) = CopyOf(f, q)
      PROVE  p = q
  <2>1. p[1] = q[1] /\ p = <<p[1], p[2]>> /\ q = <<q[1], q[2]>> /\ p[2] \in Nat /\ q[2] \in Nat
    BY ValidInIs, PageIs
  <2>2. ~(p[2] < q[2]) /\ ~(q[2] < p[2])
    BY <1>2, <1>3
  <2>3. p[2] = q[2]
    BY <2>1, <2>2
  <2> QED BY <2>1, <2>3
<1> QED BY <1>1, <1>3

\* What a superblock that is collected leaves.
LEMMA CollectIs ==
    ASSUME BlockSsdAssumption, NEW f, FlashSound(f), NEW v \in Sblks, v # f.rsv,
           \A i \in Sblks : i # f.rsv => f.wp[i] = PagesPerSblk,
           f.free = 1, f.next \in Sblks, valid_cnt(f, v) < PagesPerSblk, ~FreesAgain(f, v),
           NEW g, g = Collect(f, v)
    PROVE  /\ FlashSound(g) /\ g.rsv = v /\ g.active = f.rsv /\ g.active \in Sblks
           /\ ~check_full(g, g.active) /\ g.moved = Moved(f, v)
           /\ \A i \in Sblks : g.wp[i] = IF i = v THEN 0 ELSE IF i = f.rsv THEN valid_cnt(f, v)
                                         ELSE f.wp[i]
           /\ \A i \in Sblks : g.dev[i] = IF i = v THEN 0 ELSE IF i = f.rsv THEN valid_cnt(f, v)
                                          ELSE f.dev[i]
           /\ Valid(g) = (Valid(f) \ ValidIn(f, v)) \cup { CopyOf(f, p) : p \in ValidIn(f, v) }
           /\ \A p \in ValidIn(f, v) : CopyOf(f, p) \in Pages /\ g.lpa[CopyOf(f, p)] = f.lpa[p]
           /\ \A p \in Valid(f) \ ValidIn(f, v) : p[1] # f.rsv /\ g.lpa[p] = f.lpa[p]
           /\ \A l \in Lpas : g.newest[l] = AfterGc(f, v, f.newest[l])
<1>1. /\ FlashTypes(f) /\ Pools(f) /\ ~f.fault /\ ~f.refused /\ IsFlash(f)
      /\ f.wp \in [Sblks -> 0 .. PagesPerSblk] /\ f.dev \in [Sblks -> 0 .. PagesPerSblk]
      /\ f.lpa \in [Valid(f) -> Lpas] /\ Valid(f) \subseteq Pages
      /\ f.newest \in [Lpas -> Pages \cup {NoPage}]
  BY DEF FlashSound, FlashTypes
<1>2. PICK r \in Sblks : r = f.rsv
  BY <1>1 DEF FlashTypes
<1>3. PICK n : n = valid_cnt(f, v)
  OBVIOUS
<1>4. n \in Nat /\ n < PagesPerSblk /\ n \in 0 .. PagesPerSblk /\ 0 \in 0 .. PagesPerSblk
  BY <1>1, <1>3, ValidInIs, Sizes
<1>5. f.wp[r] = 0 /\ f.dev[r] = 0 /\ v # r
  BY <1>1, <1>2 DEF Pools
<1>6. PICK w : w = [f.wp EXCEPT ![r] = @ + n, ![v] = 0]
  OBVIOUS
<1>7. PICK d : d = [f.dev EXCEPT ![r] = @ + n, ![v] = 0]
  OBVIOUS
<1>8. /\ w \in [Sblks -> 0 .. PagesPerSblk] /\ d \in [Sblks -> 0 .. PagesPerSblk]
      /\ \A i \in Sblks : w[i] = IF i = v THEN 0 ELSE IF i = r THEN n ELSE f.wp[i]
      /\ \A i \in Sblks : d[i] = IF i = v THEN 0 ELSE IF i = r THEN n ELSE f.dev[i]
  <2>1. PICK w1 : w1 = [f.wp EXCEPT ![r] = @ + n]
    OBVIOUS
  <2>2. PICK d1 : d1 = [f.dev EXCEPT ![r] = @ + n]
    OBVIOUS
  <2>3. w1 \in [Sblks -> 0 .. PagesPerSblk] /\ \A i \in Sblks : w1[i] = IF i = r THEN n ELSE f.wp[i]
    BY <1>1, <1>4, <1>5, <2>1
  <2>4. d1 \in [Sblks -> 0 .. PagesPerSblk] /\ \A i \in Sblks : d1[i] = IF i = r THEN n ELSE f.dev[i]
    BY <1>1, <1>4, <1>5, <2>2
  <2>5. w = [w1 EXCEPT ![v] = 0] /\ d = [d1 EXCEPT ![v] = 0]
    BY <1>6, <1>7, <2>1, <2>2
  <2>6. w \in [Sblks -> 0 .. PagesPerSblk] /\ \A i \in Sblks : w[i] = IF i = v THEN 0 ELSE w1[i]
    BY <1>4, <2>3, <2>5
  <2>7. d \in [Sblks -> 0 .. PagesPerSblk] /\ \A i \in Sblks : d[i] = IF i = v THEN 0 ELSE d1[i]
    BY <1>4, <2>4, <2>5
  <2> QED BY <2>3, <2>4, <2>6, <2>7
<1>9. PICK o : o = OobAfterGc(f, v)
  OBVIOUS
<1>10. PICK nw : nw = [l \in Lpas |-> AfterGc(f, v, f.newest[l])]
  OBVIOUS
<1>11. PICK mv : mv = Moved(f, v)
  OBVIOUS
<1>12. PICK rf : rf = (f.refused \/ f.dev[r] # f.wp[r])
  OBVIOUS
<1>13. PICK ft : ft = (f.fault \/ f.wp[r] + n > PagesPerSblk \/ FreesAgain(f, v))
  OBVIOUS
<1>13a. PICK fr : fr = (f.freed \/ n > 0)
  OBVIOUS
<1>14. ~rf /\ ~ft
  <2>1. f.dev[r] = f.wp[r] /\ ~(f.wp[r] + n > PagesPerSblk)
    BY <1>4, <1>5, Sizes
  <2> QED BY <1>1, <1>12, <1>13, <2>1
<1>15. g = [f EXCEPT !.wp[r] = @ + n, !.wp[v] = 0, !.dev[r] = @ + n, !.dev[v] = 0,
                     !.lpa = o, !.newest = nw, !.moved = mv, !.freed = fr, !.refused = rf,
                     !.fault = ft, !.active = r, !.rsv = v]
  BY <1>2, <1>3, <1>9, <1>10, <1>11, <1>12, <1>13, <1>13a DEF Collect
<1>16. /\ IsFlash(g) /\ g.wp = w /\ g.free = f.free /\ g.rsv = v /\ g.next = f.next
       /\ g.active = r /\ g.lpa = o /\ g.dev = d /\ g.newest = nw /\ g.moved = mv
       /\ g.refused = rf /\ g.fault = ft
  BY <1>1, <1>6, <1>7, <1>15 DEF IsFlash
<1>17. ASSUME NEW p \in ValidIn(f, v)
       PROVE  /\ p \in Valid(f) /\ CopyOf(f, p)[1] = r /\ CopyOf(f, p)[2] \in 0 .. PagesPerSblk - 1
              /\ CopyOf(f, p)[2] < n /\ CopyOf(f, p) \in Pages
              /\ \A q \in ValidIn(f, v) : CopyOf(f, p) = CopyOf(f, q) => p = q
  <2>1. /\ CopyOf(f, p)[1] = r /\ CopyOf(f, p)[2] \in Nat /\ CopyOf(f, p)[2] < n
        /\ \A q \in ValidIn(f, v) : CopyOf(f, p) = CopyOf(f, q) => p = q
    BY <1>1, <1>2, <1>3, <1>5, CopyIs
  <2>2. CopyOf(f, p)[2] \in 0 .. PagesPerSblk - 1
    BY <1>4, <2>1, Sizes
  <2>3. CopyOf(f, p) = <<CopyOf(f, p)[1], CopyOf(f, p)[2]>>
    BY DEF CopyOf
  <2>4. CopyOf(f, p) \in Pages
    BY <2>1, <2>2, <2>3, PageIs
  <2>5. p \in Valid(f)
    BY <1>1, ValidInIs
  <2> QED BY <2>1, <2>2, <2>4, <2>5
<1>18. PICK copies : copies = { CopyOf(f, p) : p \in ValidIn(f, v) }
  OBVIOUS
<1>19. o = [q \in (Valid(f) \ ValidIn(f, v)) \cup copies |->
               IF q \in copies THEN f.lpa[CHOOSE p \in ValidIn(f, v) : CopyOf(f, p) = q] ELSE f.lpa[q]]
  BY <1>9, <1>18 DEF OobAfterGc
<1>20. Valid(g) = (Valid(f) \ ValidIn(f, v)) \cup copies
  BY <1>16, <1>19 DEF Valid
<1>21. ASSUME NEW p \in Valid(f) \ ValidIn(f, v)
       PROVE  p \in Pages /\ p[1] \in Sblks /\ p[1] # v /\ p[1] # r /\ p \notin copies /\ g.lpa[p] = f.lpa[p]
  <2>1. p \in Pages /\ p[1] \in Sblks /\ p[2] \in Nat /\ p[2] < f.wp[p[1]]
    BY <1>1, PageIs DEF Pools
  <2>2. p[1] # v
    BY DEF ValidIn
  <2>3. p[1] # r
    BY <1>5, <2>1
  <2>4. p \notin copies
    BY <1>17, <1>18, <2>3
  <2> QED BY <1>16, <1>19, <2>1, <2>2, <2>3, <2>4
<1>22. ASSUME NEW p \in ValidIn(f, v) PROVE g.lpa[CopyOf(f, p)] = f.lpa[p]
  <2>1. PICK q : q = CopyOf(f, p)
    OBVIOUS
  <2>2. q \in copies
    BY <1>18, <2>1
  <2>3. PICK c : c = CHOOSE x \in ValidIn(f, v) : CopyOf(f, x) = q
    OBVIOUS
  <2>4. c \in ValidIn(f, v) /\ CopyOf(f, c) = q
    BY <2>1, <2>3
  <2>5. c = p
    BY <1>17, <2>1, <2>4
  <2>6. o[q] = f.lpa[c]
    BY <1>19, <2>2, <2>3
  <2> QED BY <1>16, <2>1, <2>5, <2>6
<1>23. ASSUME NEW q \in Valid(g) PROVE q \in Pages /\ g.lpa[q] \in Lpas /\ q[2] < w[q[1]]
  <2>1. CASE q \in copies
    <3>1. PICK p \in ValidIn(f, v) : q = CopyOf(f, p)
      BY <1>18, <2>1
    <3>2. q \in Pages /\ q[1] = r /\ q[2] < n /\ p \in Valid(f)
      BY <1>17, <3>1
    <3>3. g.lpa[q] = f.lpa[p]
      BY <1>22, <3>1
    <3> QED BY <1>1, <1>5, <1>8, <3>2, <3>3
  <2>2. CASE q \notin copies
    <3>1. q \in Valid(f) \ ValidIn(f, v)
      BY <1>20, <2>2
    <3>2. q[2] < f.wp[q[1]] /\ f.lpa[q] \in Lpas
      BY <1>1, <3>1 DEF Pools
    <3> QED BY <1>8, <1>21, <3>1, <3>2
  <2> QED BY <2>1, <2>2
<1>24. ASSUME NEW l \in Lpas PROVE AfterGc(f, v, f.newest[l]) \in Pages \cup {NoPage}
  <2>1. PICK p \in Pages \cup {NoPage} : p = f.newest[l]
    BY <1>1
  <2>2. CASE p[1] = v /\ p \in Valid(f)
    <3>1. p \in ValidIn(f, v)
      BY <2>2 DEF ValidIn
    <3> QED BY <1>17, <2>1, <2>2, <3>1 DEF AfterGc
  <2>3. CASE ~(p[1] = v /\ p \in Valid(f))
    BY <2>1, <2>3 DEF AfterGc
  <2> QED BY <2>2, <2>3
<1>25. FlashTypes(g)
  <2>1. o \in [Valid(g) -> Lpas]
    <3>1. o = [q \in Valid(g) |-> o[q]]
      BY <1>19, <1>20
    <3>2. \A q \in Valid(g) : o[q] \in Lpas
      BY <1>16, <1>23
    <3> QED BY <3>1, <3>2
  <2>2. nw \in [Lpas -> Pages \cup {NoPage}]
    BY <1>10, <1>24
  <2>3. Valid(g) \subseteq Pages
    BY <1>23
  <2>4. g.free \in Int /\ g.next \in Sblks \cup {NoSblk}
    BY <1>1, <1>16 DEF FlashTypes
  <2> QED BY <1>2, <1>8, <1>16, <2>1, <2>2, <2>3, <2>4 DEF FlashTypes
<1>26. Pools(g)
  <2>1. Erased(g) = {v}
    <3>1. v \in Erased(g)
      BY <1>5, <1>8, <1>16 DEF Erased
    <3>2. ASSUME NEW i \in Erased(g) PROVE i = v
      <4>1. i \in Sblks /\ w[i] = 0 /\ i # r
        BY <1>16 DEF Erased
      <4>2. f.wp[i] = PagesPerSblk
        BY <1>2, <4>1
      <4> QED BY <1>8, <4>1, <4>2, Sizes
    <3> QED BY <3>1, <3>2
  <2>2. g.free = Cardinality(Erased(g))
    BY <1>16, <2>1, FS_Singleton
  <2>3. \A i \in Sblks : i # g.active => g.wp[i] \in {0, PagesPerSblk}
    BY <1>2, <1>8, <1>16
  <2>4. g.wp[g.rsv] = 0 /\ g.dev[g.rsv] = 0 /\ g.active # g.rsv
    BY <1>5, <1>8, <1>16
  <2>5. g.next \in Sblks => g.next = g.rsv \/ g.next = g.active \/ g.wp[g.next] > 0
    BY <1>2, <1>8, <1>16, Sizes
  <2>6. g.active # NoSblk /\ g.next # NoSblk
    BY <1>16, Sizes
  <2>7. \A p \in Valid(g) : p[2] < g.wp[p[1]]
    BY <1>16, <1>23
  <2> QED BY <2>2, <2>3, <2>4, <2>5, <2>6, <2>7 DEF Pools
<1>27. ~check_full(g, g.active)
  BY <1>4, <1>5, <1>8, <1>16, Sizes DEF check_full
<1>28. FlashSound(g)
  BY <1>14, <1>16, <1>25, <1>26 DEF FlashSound
<1>29. \A l \in Lpas : g.newest[l] = AfterGc(f, v, f.newest[l])
  BY <1>10, <1>16
<1>30. /\ \A p \in ValidIn(f, v) : CopyOf(f, p) \in Pages /\ g.lpa[CopyOf(f, p)] = f.lpa[p]
       /\ \A p \in Valid(f) \ ValidIn(f, v) : p[1] # f.rsv /\ g.lpa[p] = f.lpa[p]
  BY <1>2, <1>17, <1>21, <1>22
<1> QED BY <1>2, <1>3, <1>8, <1>11, <1>16, <1>18, <1>20, <1>27, <1>28, <1>29, <1>30

\* The target becomes the reserve, even when the bucket is freed twice.
LEMMA TargetIsReserve ==
    ASSUME NEW f, IsFlash(f), NEW v, NEW g, g = Collect(f, v) PROVE g.rsv = v
<1>1. PICK n : n = valid_cnt(f, v)
  OBVIOUS
<1>2. PICK w : w = [f.wp EXCEPT ![f.rsv] = @ + n, ![v] = 0]
  OBVIOUS
<1>3. PICK d : d = [f.dev EXCEPT ![f.rsv] = @ + n, ![v] = 0]
  OBVIOUS
<1>4. PICK o : o = OobAfterGc(f, v)
  OBVIOUS
<1>5. PICK nw : nw = [l \in Lpas |-> AfterGc(f, v, f.newest[l])]
  OBVIOUS
<1>6. PICK mv : mv = Moved(f, v)
  OBVIOUS
<1>7. PICK fr : fr = (f.freed \/ n > 0)
  OBVIOUS
<1>8. PICK rf : rf = (f.refused \/ f.dev[f.rsv] # f.wp[f.rsv])
  OBVIOUS
<1>9. PICK ft : ft = (f.fault \/ f.wp[f.rsv] + n > PagesPerSblk \/ FreesAgain(f, v))
  OBVIOUS
<1>10. g = [f EXCEPT !.wp[f.rsv] = @ + n, !.wp[v] = 0, !.dev[f.rsv] = @ + n, !.dev[v] = 0,
                     !.lpa = o, !.newest = nw, !.moved = mv, !.freed = fr, !.refused = rf,
                     !.fault = ft, !.active = f.rsv, !.rsv = v]
  BY <1>1, <1>4, <1>5, <1>6, <1>7, <1>8, <1>9 DEF Collect
<1> QED BY <1>2, <1>3, <1>10 DEF IsFlash

\* The mappings follow the values that a GC moves, if none is of the flush itself.
LEMMA GcMaps ==
    ASSUME BlockSsdAssumption, NEW f, NEW c, NEW e, StoreSound(f, c, e),
           NEW v \in Sblks, v # f.rsv, \A i \in Sblks : i # f.rsv => f.wp[i] = PagesPerSblk,
           f.free = 1, f.next \in Sblks, valid_cnt(f, v) < PagesPerSblk,
           ~FreesAgain(f, v), \A l \in Given(e) : e[l].page[1] # v,
           NEW g, g = Collect(f, v), NEW k, k = bulk_mapping_update(c, g.moved)
    PROVE  StoreSound(g, k, e) /\ g.active \in Sblks /\ ~check_full(g, g.active)
<1>1. /\ FlashSound(f) /\ FlashTypes(f) /\ Pools(f) /\ CacheSound(c) /\ MapSound(f, c, e)
      /\ DevSound(f, e, Given(e)) /\ EntryTypes(e) /\ Valid(f) \subseteq Pages /\ f.rsv \in Sblks
      /\ c.table \in [Lpas -> Pages \cup {NoPage}]
  BY DEF StoreSound, FlashSound, FlashTypes, CacheSound
<1>2. PICK n : n = valid_cnt(f, v)
  OBVIOUS
<1>3. /\ FlashSound(g) /\ g.active \in Sblks /\ ~check_full(g, g.active) /\ g.moved = Moved(f, v)
      /\ \A i \in Sblks : g.wp[i] = IF i = v THEN 0 ELSE IF i = f.rsv THEN n ELSE f.wp[i]
      /\ \A i \in Sblks : g.dev[i] = IF i = v THEN 0 ELSE IF i = f.rsv THEN n ELSE f.dev[i]
      /\ Valid(g) = (Valid(f) \ ValidIn(f, v)) \cup { CopyOf(f, p) : p \in ValidIn(f, v) }
      /\ \A p \in ValidIn(f, v) : CopyOf(f, p) \in Pages /\ g.lpa[CopyOf(f, p)] = f.lpa[p]
      /\ \A p \in Valid(f) \ ValidIn(f, v) : p[1] # f.rsv /\ g.lpa[p] = f.lpa[p]
      /\ \A l \in Lpas : g.newest[l] = AfterGc(f, v, f.newest[l])
  BY <1>1, <1>2, CollectIs
<1>4. n \in Nat /\ f.wp[f.rsv] = 0
  BY <1>1, <1>2, ValidInIs DEF Pools
<1>5. ASSUME NEW p \in ValidIn(f, v) PROVE f.lpa[p] \in StoredIn(c) /\ c.table[f.lpa[p]] = p
  <2>1. p \in Valid(f) /\ p[1] = v
    BY <1>1, ValidInIs
  <2>2. p \notin PendPages(e)
    BY <2>1 DEF PendPages, Pend, Given
  <2>3. PICK l \in StoredIn(c) : p = c.table[l]
    BY <1>1, <2>1, <2>2 DEF MapSound, Named
  <2>4. f.lpa[p] = l
    BY <1>1, <2>3 DEF MapSound
  <2> QED BY <2>3, <2>4
<1>6. ASSUME NEW l \in StoredIn(c)
      PROVE  l \in Lpas /\ c.table[l] \in Valid(f) /\ f.lpa[c.table[l]] = l /\ f.newest[l] = c.table[l]
  BY <1>1 DEF MapSound, Named, StoredIn
<1>7. PICK mv : mv = Moved(f, v)
  OBVIOUS
<1>8. DOMAIN mv = { f.lpa[p] : p \in ValidIn(f, v) }
  BY <1>7 DEF Moved
<1>9. ASSUME NEW l \in DOMAIN mv
      PROVE  /\ l \in StoredIn(c) /\ l \in Lpas /\ c.table[l] \in ValidIn(f, v)
             /\ mv[l] = CopyOf(f, c.table[l])
  <2>1. PICK p \in ValidIn(f, v) : l = f.lpa[p]
    BY <1>8
  <2>2. PICK q : q = CHOOSE x \in ValidIn(f, v) : f.lpa[x] = l
    OBVIOUS
  <2>3. q \in ValidIn(f, v) /\ f.lpa[q] = l
    BY <2>1, <2>2
  <2>4. q = p /\ p = c.table[l]
    BY <1>5, <2>1, <2>3
  <2>5. mv[l] = CopyOf(f, q)
    BY <1>7, <1>8, <2>2 DEF Moved
  <2>6. l \in StoredIn(c)
    BY <1>5, <2>1
  <2> QED BY <1>6, <2>1, <2>4, <2>5, <2>6
<1>10. ASSUME NEW l \in StoredIn(c), c.table[l] \in ValidIn(f, v) PROVE l \in DOMAIN mv
  BY <1>6, <1>8, <1>10
<1>11. /\ CacheSound(k)
       /\ \A l \in Lpas : k.table[l] = IF l \in DOMAIN mv THEN mv[l] ELSE c.table[l]
  <2>1. DOMAIN mv \subseteq Lpas
    BY <1>9
  <2>2. \A l \in DOMAIN mv : mv[l] \in Pages
    BY <1>3, <1>9
  <2>3. k = bulk_mapping_update(c, mv)
    BY <1>3, <1>7
  <2> QED BY <1>1, <2>1, <2>2, <2>3, BulkIs
<1>12. ASSUME NEW l \in StoredIn(c)
       PROVE  /\ l \in StoredIn(k) /\ k.table[l] = AfterGc(f, v, c.table[l])
              /\ c.table[l] \in ValidIn(f, v) => k.table[l] = CopyOf(f, c.table[l])
              /\ c.table[l] \notin ValidIn(f, v) => k.table[l] = c.table[l]
  <2>1. CASE c.table[l] \in ValidIn(f, v)
    <3>1. k.table[l] = CopyOf(f, c.table[l])
      BY <1>6, <1>9, <1>10, <1>11, <2>1
    <3>2. AfterGc(f, v, c.table[l]) = CopyOf(f, c.table[l])
      BY <1>1, <2>1, ValidInIs DEF AfterGc
    <3>3. k.table[l] # NoPage
      BY <1>3, <2>1, <3>1, PageIs
    <3> QED BY <1>6, <2>1, <3>1, <3>2, <3>3 DEF StoredIn
  <2>2. CASE c.table[l] \notin ValidIn(f, v)
    <3>1. k.table[l] = c.table[l]
      BY <1>6, <1>9, <1>11, <2>2
    <3>2. c.table[l][1] # v
      BY <1>6, <2>2 DEF ValidIn
    <3>3. AfterGc(f, v, c.table[l]) = c.table[l]
      BY <3>2 DEF AfterGc
    <3> QED BY <1>6, <2>2, <3>1, <3>3 DEF StoredIn
  <2> QED BY <2>1, <2>2
<1>13. ASSUME NEW l \in StoredIn(k) PROVE l \in StoredIn(c)
  <2>1. l \in Lpas /\ k.table[l] # NoPage
    BY DEF StoredIn
  <2>2. CASE l \in DOMAIN mv
    BY <1>9, <2>2
  <2>3. CASE l \notin DOMAIN mv
    BY <1>11, <2>1, <2>3 DEF StoredIn
  <2> QED BY <2>2, <2>3
<1>14. ASSUME NEW p \in PendPages(e)
       PROVE  p \in Valid(f) \ ValidIn(f, v) /\ p \notin Named(c) /\ p[1] # f.rsv
  <2>1. p \in Valid(f) /\ p \notin Named(c)
    BY <1>1 DEF MapSound
  <2>2. p \notin ValidIn(f, v)
    BY DEF PendPages, Pend, Given, ValidIn
  <2> QED BY <1>3, <2>1, <2>2
<1>15. ASSUME NEW p \in ValidIn(f, v) PROVE CopyOf(f, p)[1] = f.rsv
  BY DEF CopyOf
<1>16. ASSUME NEW q \in Valid(g) PROVE q \in Named(k) \cup PendPages(e)
  <2>1. CASE q \in Valid(f) \ ValidIn(f, v)
    <3>1. CASE q \in PendPages(e)
      BY <3>1
    <3>2. CASE q \notin PendPages(e)
      <4>1. PICK l \in StoredIn(c) : q = c.table[l]
        BY <1>1, <2>1, <3>2 DEF MapSound, Named
      <4>2. l \in StoredIn(k) /\ k.table[l] = q
        BY <1>12, <2>1, <4>1
      <4> QED BY <4>2 DEF Named
    <3> QED BY <3>1, <3>2
  <2>2. CASE q \notin Valid(f) \ ValidIn(f, v)
    <3>1. PICK p \in ValidIn(f, v) : q = CopyOf(f, p)
      BY <1>3, <2>2
    <3>2. PICK l : l = f.lpa[p]
      OBVIOUS
    <3>3. l \in StoredIn(c) /\ c.table[l] = p
      BY <1>5, <3>2
    <3>4. l \in StoredIn(k) /\ k.table[l] = q
      BY <1>12, <3>1, <3>3
    <3> QED BY <3>4 DEF Named
  <2> QED BY <2>1, <2>2
<1>17. ASSUME NEW l \in StoredIn(k)
       PROVE  k.table[l] \in Valid(g) /\ k.table[l] \notin PendPages(e) /\ g.lpa[k.table[l]] = l
  <2>1. l \in StoredIn(c)
    BY <1>13
  <2>2. CASE c.table[l] \in ValidIn(f, v)
    <3>1. k.table[l] = CopyOf(f, c.table[l])
      BY <1>12, <2>1, <2>2
    <3>2. k.table[l] \in Valid(g) /\ g.lpa[k.table[l]] = f.lpa[c.table[l]]
      BY <1>3, <2>2, <3>1
    <3>3. k.table[l] \notin PendPages(e)
      BY <1>14, <1>15, <2>2, <3>1
    <3> QED BY <1>6, <2>1, <3>2, <3>3
  <2>3. CASE c.table[l] \notin ValidIn(f, v)
    <3>1. k.table[l] = c.table[l] /\ c.table[l] \in Valid(f) \ ValidIn(f, v)
      BY <1>6, <1>12, <2>1, <2>3
    <3>2. c.table[l] \in Named(c)
      BY <2>1 DEF Named
    <3> QED BY <1>3, <1>6, <1>14, <2>1, <3>1, <3>2
  <2> QED BY <2>2, <2>3
<1>18. MapSound(g, k, e)
  <2>1. Valid(g) = Named(k) \cup PendPages(e)
    <3>1. Named(k) \subseteq Valid(g)
      BY <1>17 DEF Named
    <3>2. PendPages(e) \subseteq Valid(g)
      BY <1>3, <1>14
    <3> QED BY <1>16, <3>1, <3>2
  <2>2. Named(k) \cap PendPages(e) = {}
    BY <1>17 DEF Named
  <2>3. \A l \in StoredIn(k) : g.newest[l] = k.table[l]
    BY <1>3, <1>6, <1>12, <1>13
  <2> QED BY <1>17, <2>1, <2>2, <2>3 DEF MapSound
<1>19. DevSound(g, e, Given(e))
  <2>1. ASSUME NEW l \in Given(e), NEW p, p = e[l].page
        PROVE  p \in Pages /\ p[1] \in Sblks /\ p[1] # v /\ p[1] # f.rsv /\ f.dev[p[1]] <= p[2] /\ p[2] < f.wp[p[1]]
    <3>1. p \in Pages /\ f.dev[p[1]] <= p[2] /\ p[2] < f.wp[p[1]] /\ p[1] # v
      BY <1>1, <2>1 DEF DevSound
    <3>2. p[1] \in Sblks /\ p[2] \in Nat
      BY <3>1, PageIs
    <3> QED BY <1>4, <3>1, <3>2
  <2>2. \A l \in Given(e) : LET p == e[l].page
                            IN  p \in Pages /\ g.dev[p[1]] <= p[2] /\ p[2] < g.wp[p[1]]
    BY <1>3, <2>1
  <2>3. \A l, m \in Given(e) : l < m /\ e[l].page[1] = e[m].page[1] => e[m].page[2] < e[l].page[2]
    BY <1>1 DEF DevSound
  <2>4. \A i \in Sblks : g.dev[i] <= g.wp[i]
    BY <1>1, <1>3, <1>4 DEF DevSound
  <2>5. ASSUME NEW p \in Pages, g.dev[p[1]] <= p[2], p[2] < g.wp[p[1]]
        PROVE  \E l \in Given(e) : e[l].page = p
    <3>1. p[1] \in Sblks /\ p[2] \in Nat
      BY PageIs
    <3>2. p[1] # v /\ p[1] # f.rsv
      BY <1>3, <1>4, <2>5, <3>1
    <3>3. f.dev[p[1]] <= p[2] /\ p[2] < f.wp[p[1]]
      BY <1>3, <2>5, <3>1, <3>2
    <3> QED BY <1>1, <3>3 DEF DevSound
  <2> QED BY <2>2, <2>3, <2>4, <2>5 DEF DevSound
<1> QED BY <1>1, <1>3, <1>11, <1>18, <1>19 DEF StoreSound

-----------------------------------------------------------------------------
(***************************************************************************)
(* The pages of a flush.                                                   *)
(***************************************************************************)
\* With fewer entries than a flush has, pages and mappings leave room for one more.
LEMMA FewValid ==
    ASSUME BlockSsdAssumption, NEW f, NEW c, NEW e, StoreSound(f, c, e),
           Cardinality(Pend(e)) < MaxWb
    PROVE  Cardinality(Valid(f)) < (ESblk - SSblk) * PagesPerSblk
<1>1. /\ FlashTypes(f) /\ Valid(f) = Named(c) \cup PendPages(e) /\ IsFiniteSet(Lpas)
      /\ Cardinality(Lpas) = NrLpas
  BY Sizes DEF StoreSound, FlashSound, MapSound
<1>2. IsFiniteSet(StoredIn(c)) /\ Cardinality(StoredIn(c)) <= NrLpas /\ Cardinality(StoredIn(c)) \in Nat
  <2>1. StoredIn(c) \in SUBSET Lpas
    BY DEF StoredIn
  <2> QED BY <1>1, <2>1, FS_Subset, FS_CardinalityType
<1>3. IsFiniteSet(Pend(e)) /\ Cardinality(Pend(e)) \in Nat
  <2>1. Pend(e) \in SUBSET Lpas
    BY DEF Pend
  <2> QED BY <1>1, <2>1, FS_Subset, FS_CardinalityType
<1>4. IsFiniteSet(Named(c)) /\ Cardinality(Named(c)) <= Cardinality(StoredIn(c))
  <2> DEFINE page == [l \in StoredIn(c) |-> c.table[l]]
  <2>1. page \in Surjection(StoredIn(c), Named(c))
    BY DEF Surjection, Named
  <2> QED BY <1>2, <2>1, FS_Surjection
<1>5. IsFiniteSet(PendPages(e)) /\ Cardinality(PendPages(e)) <= Cardinality(Pend(e))
  <2> DEFINE page == [l \in Pend(e) |-> e[l].page]
  <2>1. page \in Surjection(Pend(e), PendPages(e))
    BY DEF Surjection, PendPages
  <2> QED BY <1>3, <2>1, FS_Surjection
<1>6. PICK a : a = Cardinality(Named(c))
  OBVIOUS
<1>7. PICK b : b = Cardinality(PendPages(e))
  OBVIOUS
<1>8. PICK i : i = Cardinality(Named(c) \cap PendPages(e))
  OBVIOUS
<1>9. a \in Nat /\ b \in Nat /\ i \in Nat
  BY <1>4, <1>5, <1>6, <1>7, <1>8, FS_CardinalityType, FS_Subset
<1>10. Cardinality(Valid(f)) = a + b - i
  BY <1>1, <1>4, <1>5, <1>6, <1>7, <1>8, FS_Union
<1>11. a <= NrLpas /\ b < MaxWb
  BY <1>2, <1>3, <1>4, <1>5, <1>6, <1>7, <1>9, Sizes
<1>12. PICK K : K = (ESblk - SSblk) * PagesPerSblk
  OBVIOUS
<1>13. K \in Int /\ NrLpas + MaxWb <= K
  BY <1>12, Sizes
<1>14. Cardinality(Valid(f)) < K
  BY <1>9, <1>10, <1>11, <1>13, Sizes
<1> QED BY <1>12, <1>14

\* What a change of flash that moves nothing, and of the cache alone, leaves sound.
LEMMA Untouched ==
    ASSUME BlockSsdAssumption, NEW f, NEW c, NEW e, StoreSound(f, c, e),
           NEW g, FlashSound(g), g.lpa = f.lpa, g.wp = f.wp, g.dev = f.dev, g.newest = f.newest,
           NEW k, CacheSound(k), \A l \in Lpas : k.table[l] = c.table[l]
    PROVE  StoreSound(g, k, e)
<1>1. StoredIn(k) = StoredIn(c) /\ Named(k) = Named(c)
  BY DEF StoredIn, Named
<1>2. Valid(g) = Valid(f)
  BY DEF Valid
<1>3. \A l \in StoredIn(c) : k.table[l] = c.table[l]
  BY DEF StoredIn
<1>4. MapSound(g, k, e)
  BY <1>1, <1>2, <1>3 DEF StoreSound, MapSound
<1>5. DevSound(g, e, Given(e))
  BY DEF StoreSound, DevSound
<1> QED BY <1>4, <1>5 DEF StoreSound

\* dp_alloc forgets what the last one moved.
Forgotten(f) == [f EXCEPT !.moved = <<>>]

\* It does nothing else before it looks for a superblock.
LEMMA ClearedIs ==
    ASSUME NEW f, FlashSound(f), NEW f0, f0 = Forgotten(f)
    PROVE  /\ f0.wp = f.wp /\ f0.rsv = f.rsv /\ f0.active = f.active /\ f0.lpa = f.lpa
           /\ f0.dev = f.dev /\ f0.newest = f.newest /\ f0.moved = <<>>
           /\ FlashSound(f0) /\ IsFlash(f0) /\ Valid(f0) = Valid(f)
           /\ GcTargets(f0) = GcTargets(f) /\ \A v : FreesAgain(f0, v) = FreesAgain(f, v)
           /\ NeedsSblk(f0) = NeedsSblk(f) /\ isgc_needed(f0) = isgc_needed(f)
           /\ dp_alloc(f) = IF RunsGc(f) THEN dpage_gc_dvalue(f0)
                            ELSE IF NeedsSblk(f) THEN get_active_sblk(f0) ELSE f0
<1>1. IsFlash(f)
  BY DEF FlashSound, FlashTypes
<1>2. /\ IsFlash(f0) /\ f0.wp = f.wp /\ f0.free = f.free /\ f0.rsv = f.rsv /\ f0.next = f.next
      /\ f0.active = f.active /\ f0.lpa = f.lpa /\ f0.dev = f.dev /\ f0.newest = f.newest
      /\ f0.moved = <<>> /\ f0.freed = f.freed /\ f0.refused = f.refused /\ f0.fault = f.fault
  BY <1>1 DEF IsFlash, Forgotten
<1>3. Valid(f0) = Valid(f) /\ Erased(f0) = Erased(f)
  BY <1>2 DEF Valid, Erased
<1>4. FlashSound(f0)
  BY <1>2, <1>3 DEF FlashSound, FlashTypes, Pools
<1>5. NeedsSblk(f0) = NeedsSblk(f) /\ isgc_needed(f0) = isgc_needed(f)
  BY <1>2 DEF NeedsSblk, isgc_needed, check_full
<1>6. dp_alloc(f) = IF RunsGc(f) THEN dpage_gc_dvalue(f0)
                    ELSE IF NeedsSblk(f) THEN get_active_sblk(f0) ELSE f0
  BY DEF dp_alloc, Forgotten
<1>7. \A v : valid_cnt(f0, v) = valid_cnt(f, v)
  BY <1>3 DEF valid_cnt, ValidIn
<1>8. Full(f0) = Full(f)
  BY <1>2 DEF Full, check_full
<1>9. GcTargets(f0) = GcTargets(f)
  BY <1>2, <1>7, <1>8 DEF GcTargets
<1>10. \A v : FreesAgain(f0, v) = FreesAgain(f, v)
  BY <1>2, <1>7 DEF FreesAgain
<1> QED BY <1>2, <1>3, <1>4, <1>5, <1>6, <1>9, <1>10

\* GC has a superblock to collect, and does.
LEMMA GcRuns ==
    ASSUME BlockSsdAssumption, NEW f, FlashSound(f), RunsGc(f),
           Cardinality(Valid(f)) < (ESblk - SSblk) * PagesPerSblk,
           NEW h, h = Forgotten(f), NEW g, g = dp_alloc(f)
    PROVE  /\ \A i \in Sblks : i # h.rsv => h.wp[i] = PagesPerSblk
           /\ h.free = 1 /\ h.next \in Sblks
           /\ \E v \in Sblks : /\ v \in GcTargets(f) /\ v # h.rsv /\ valid_cnt(h, v) < PagesPerSblk
                               /\ g = Collect(h, v) /\ g.rsv = v
<1>0. PICK f0 : f0 = h
  OBVIOUS
<1>1. /\ FlashSound(f0) /\ NeedsSblk(f0) /\ isgc_needed(f0) /\ g = dpage_gc_dvalue(f0)
      /\ Valid(f0) = Valid(f)
  <2>1. NeedsSblk(f) /\ isgc_needed(f)
    BY DEF RunsGc
  <2>2. NeedsSblk(f0) = NeedsSblk(f) /\ isgc_needed(f0) = isgc_needed(f)
    BY <1>0, ClearedIs
  <2> QED BY <1>0, <2>1, <2>2, ClearedIs
<1>2. /\ \A i \in Sblks : i # f0.rsv => f0.wp[i] = PagesPerSblk
      /\ f0.active \in Sblks /\ f0.free = 1 /\ f0.next \in Sblks
      /\ Min(GcTargets(f0)) \in GcTargets(f0) /\ GcTargets(f0) # {}
      /\ \A v \in GcTargets(f0) : v \in Sblks /\ v # f0.rsv /\ valid_cnt(f0, v) < PagesPerSblk
  BY <1>1, TargetThere
<1>3. PICK v : v = Min(GcTargets(f0))
  OBVIOUS
<1>4. v \in Sblks /\ v # f0.rsv /\ valid_cnt(f0, v) < PagesPerSblk
  BY <1>2, <1>3
<1>5. g = Collect(f0, v)
  BY <1>1, <1>2, <1>3 DEF dpage_gc_dvalue
<1>6. IsFlash(f0) /\ GcTargets(f0) = GcTargets(f)
  BY <1>0, ClearedIs
<1>7. g.rsv = v
  BY <1>5, <1>6, TargetIsReserve
<1>8. v \in GcTargets(f)
  BY <1>2, <1>3, <1>6
<1> QED BY <1>0, <1>2, <1>4, <1>5, <1>7, <1>8

\* dp_alloc and the mappings of what it moved leave an active superblock with room.
LEMMA AllocIs ==
    ASSUME BlockSsdAssumption, NEW f, NEW c, NEW e, StoreSound(f, c, e),
           Cardinality(Valid(f)) < (ESblk - SSblk) * PagesPerSblk,
           NEW g, g = dp_alloc(f), RunsGc(f) => \A l \in Lpas : e[l].page[1] # g.rsv,
           g.rsv \in GcTargets(f) => ~FreesAgain(f, g.rsv),
           NEW k, k = bulk_mapping_update(c, g.moved)
    PROVE  StoreSound(g, k, e) /\ g.active \in Sblks /\ ~check_full(g, g.active)
<1>1. FlashSound(f) /\ FlashTypes(f) /\ CacheSound(c)
  BY DEF StoreSound, FlashSound
<1>2. PICK f0 : f0 = Forgotten(f)
  OBVIOUS
<1>3. /\ f0.wp = f.wp /\ f0.rsv = f.rsv /\ f0.active = f.active /\ f0.lpa = f.lpa
      /\ f0.dev = f.dev /\ f0.newest = f.newest /\ f0.moved = <<>>
      /\ NeedsSblk(f0) = NeedsSblk(f) /\ isgc_needed(f0) = isgc_needed(f)
      /\ \A v : FreesAgain(f0, v) = FreesAgain(f, v)
  BY <1>1, <1>2, ClearedIs
<1>5. FlashSound(f0)
  BY <1>1, <1>2, ClearedIs
<1>6. StoreSound(f0, c, e)
  BY <1>1, <1>3, <1>5, Untouched
<1>7. NeedsSblk(f0) = NeedsSblk(f) /\ isgc_needed(f0) = isgc_needed(f)
  BY <1>3
<1>8. g = IF RunsGc(f) THEN dpage_gc_dvalue(f0)
          ELSE IF NeedsSblk(f) THEN get_active_sblk(f0) ELSE f0
  BY <1>1, <1>2, ClearedIs
<1>9. CASE RunsGc(f)
  <2>1. /\ \A i \in Sblks : i # f0.rsv => f0.wp[i] = PagesPerSblk
        /\ f0.free = 1 /\ f0.next \in Sblks
        /\ \E v \in Sblks : /\ v \in GcTargets(f) /\ v # f0.rsv
                            /\ valid_cnt(f0, v) < PagesPerSblk
                            /\ g = Collect(f0, v) /\ g.rsv = v
    BY <1>1, <1>2, <1>9, GcRuns
  <2>2. PICK v \in Sblks : /\ v \in GcTargets(f) /\ v # f0.rsv
                           /\ valid_cnt(f0, v) < PagesPerSblk
                           /\ g = Collect(f0, v) /\ g.rsv = v
    BY <2>1
  <2>3. \A l \in Given(e) : e[l].page[1] # v
    BY <1>9, <2>2 DEF Given
  <2>4. ~FreesAgain(f0, v)
    BY <1>3, <2>2
  <2> QED BY <1>6, <2>1, <2>2, <2>3, <2>4, GcMaps
<1>10. CASE ~RunsGc(f)
  <2>1. CASE NeedsSblk(f)
    <3>1. NeedsSblk(f0) /\ ~isgc_needed(f0) /\ g = get_active_sblk(f0)
      BY <1>7, <1>8, <1>10, <2>1 DEF RunsGc
    <3>2. /\ FlashSound(g) /\ g.active \in Sblks /\ ~check_full(g, g.active)
          /\ g.wp = f0.wp /\ g.rsv = f0.rsv /\ g.lpa = f0.lpa /\ g.dev = f0.dev
          /\ g.newest = f0.newest /\ g.moved = f0.moved
      BY <1>5, <3>1, FoundIs
    <3>3. DOMAIN g.moved = {}
      BY <1>3, <3>2
    <3>4. CacheSound(k) /\ \A l \in Lpas : k.table[l] = c.table[l]
      BY <1>1, <3>3, BulkIs
    <3>5. StoreSound(g, k, e)
      BY <1>6, <3>2, <3>4, Untouched
    <3> QED BY <3>2, <3>5
  <2>2. CASE ~NeedsSblk(f)
    <3>1. g = f0
      BY <1>8, <1>10, <2>2
    <3>2. DOMAIN g.moved = {}
      BY <1>3, <3>1
    <3>3. CacheSound(k) /\ \A l \in Lpas : k.table[l] = c.table[l]
      BY <1>1, <3>2, BulkIs
    <3>4. StoreSound(g, k, e)
      BY <1>5, <1>6, <3>1, <3>3, Untouched
    <3>5. g.active \in Sblks /\ ~check_full(g, g.active)
      BY <1>1, <1>3, <2>2, <3>1 DEF NeedsSblk, FlashTypes, check_full
    <3> QED BY <3>4, <3>5
  <2> QED BY <2>1, <2>2
<1> QED BY <1>9, <1>10

\* The page a new entry of the flush gets.
LEMMA NewEntry ==
    ASSUME BlockSsdAssumption, NEW f, NEW c, NEW e, StoreSound(f, c, e), f.active \in Sblks,
           ~check_full(f, f.active), NEW l \in Lpas, l \notin Given(e), \A m \in Given(e) : l < m,
           NEW p, p = NewPage(f), NEW g, g = validate(TakePage(f), p, 0),
           NEW d, d = [e EXCEPT ![l] = [at |-> "lookup", page |-> p]]
    PROVE  p \in Pages /\ StoreSound(g, c, d)
<1>1. /\ FlashSound(f) /\ FlashTypes(f) /\ CacheSound(c) /\ MapSound(f, c, e) /\ EntryTypes(e)
      /\ DevSound(f, e, Given(e))
  BY DEF StoreSound, FlashSound
<1>2. /\ FlashSound(g) /\ p \in Pages /\ p \notin Valid(f) /\ Valid(g) = Valid(f) \cup {p}
      /\ p[1] = f.active /\ p[2] = f.wp[f.active]
      /\ \A q \in Valid(f) : g.lpa[q] = f.lpa[q]
      /\ \A i \in Sblks : g.wp[i] = IF i = p[1] THEN p[2] + 1 ELSE f.wp[i]
      /\ g.dev = f.dev /\ g.newest = f.newest
  BY <1>1, TakenIs
<1>3. e \in [Lpas -> [at : Stages, page : Pages \cup {NoPage}]]
  BY <1>1 DEF EntryTypes
<1>4. PICK x : x = [at |-> "lookup", page |-> p]
  OBVIOUS
<1>5. x.at = "lookup" /\ x.page = p /\ x \in [at : Stages, page : Pages \cup {NoPage}]
  BY <1>2, <1>4 DEF Stages
<1>6. \A m \in Lpas : d[m] = IF m = l THEN x ELSE e[m]
  BY <1>3, <1>4
<1>7. EntryTypes(d)
  BY <1>3, <1>4, <1>5 DEF EntryTypes
<1>8. Given(d) = Given(e) \cup {l} /\ Pend(d) = Pend(e) \cup {l}
  <2>1. Pend(e) \subseteq Lpas /\ Given(e) \subseteq Lpas
    BY DEF Pend, Given
  <2> QED BY <1>5, <1>6 DEF Given, Pend
<1>9. \A m \in Given(e) : m \in Lpas /\ d[m] = e[m] /\ d[m].page = e[m].page
  BY <1>6 DEF Given
<1>10. \A m \in Pend(e) : m \in Given(e)
  BY DEF Pend, Given
<1>11. d[l].page = p
  BY <1>5, <1>6
<1>12. PendPages(d) = PendPages(e) \cup {p}
  <2>1. ASSUME NEW q \in PendPages(d) PROVE q \in PendPages(e) \cup {p}
    <3>1. PICK m \in Pend(d) : q = d[m].page
      BY DEF PendPages
    <3>2. CASE m = l
      BY <1>11, <3>1, <3>2
    <3>3. CASE m # l
      <4>1. m \in Pend(e) /\ d[m].page = e[m].page
        BY <1>8, <1>9, <1>10, <3>3
      <4> QED BY <3>1, <4>1 DEF PendPages
    <3> QED BY <3>2, <3>3
  <2>2. ASSUME NEW q \in PendPages(e) PROVE q \in PendPages(d)
    BY <1>8, <1>9, <1>10 DEF PendPages
  <2>3. p \in PendPages(d)
    BY <1>8, <1>11 DEF PendPages
  <2> QED BY <2>1, <2>2, <2>3
<1>13. MapSound(g, c, d)
  <2>1. \A m \in StoredIn(c) : c.table[m] \in Valid(f)
    BY <1>1 DEF MapSound, Named
  <2>2. p \notin Named(c)
    BY <1>1, <1>2 DEF MapSound
  <2>3. Valid(g) = Named(c) \cup PendPages(d)
    BY <1>1, <1>2, <1>12 DEF MapSound
  <2>4. Named(c) \cap PendPages(d) = {}
    BY <1>1, <1>12, <2>2 DEF MapSound
  <2>5. \A m \in StoredIn(c) : g.lpa[c.table[m]] = m /\ g.newest[m] = c.table[m]
    BY <1>1, <1>2, <2>1 DEF MapSound
  <2> QED BY <2>3, <2>4, <2>5 DEF MapSound
<1>14. DevSound(g, d, Given(d))
  <2>1. /\ p[1] \in Sblks /\ p[2] \in Nat /\ f.dev[p[1]] \in Nat /\ f.dev[p[1]] <= p[2]
        /\ p[2] = f.wp[p[1]]
    BY <1>1, <1>2, PageIs, WpIs DEF DevSound
  <2>2. ASSUME NEW m \in Given(e)
        PROVE  /\ e[m].page \in Pages /\ f.dev[e[m].page[1]] <= e[m].page[2]
               /\ e[m].page[2] < f.wp[e[m].page[1]] /\ e[m].page[1] \in Sblks /\ e[m].page[2] \in Nat
    <3>1. PICK q : q = e[m].page
      OBVIOUS
    <3>2. q \in Pages /\ f.dev[q[1]] <= q[2] /\ q[2] < f.wp[q[1]]
      BY <1>1, <3>1 DEF DevSound
    <3>3. q[1] \in Sblks /\ q[2] \in Nat
      BY <3>2, PageIs
    <3> QED BY <3>1, <3>2, <3>3
  <2>3. ASSUME NEW m \in Given(d)
        PROVE  /\ d[m].page \in Pages /\ g.dev[d[m].page[1]] <= d[m].page[2]
               /\ d[m].page[2] < g.wp[d[m].page[1]]
    <3>1. CASE m = l
      BY <1>2, <1>11, <2>1, <3>1
    <3>2. CASE m # l
      <4>1. m \in Given(e) /\ d[m].page = e[m].page
        BY <1>8, <1>9, <3>2
      <4>2. PICK q : q = e[m].page
        OBVIOUS
      <4>3. q \in Pages /\ f.dev[q[1]] <= q[2] /\ q[2] < f.wp[q[1]] /\ q[1] \in Sblks /\ q[2] \in Nat
        BY <2>2, <4>1, <4>2
      <4>4. q[2] < g.wp[q[1]]
        BY <1>2, <2>1, <4>3
      <4> QED BY <1>2, <4>1, <4>2, <4>3, <4>4
    <3> QED BY <3>1, <3>2
  <2>4. ASSUME NEW m \in Given(d), NEW o \in Given(d), m < o, d[m].page[1] = d[o].page[1]
        PROVE  d[o].page[2] < d[m].page[2]
    <3>1. m \in Nat /\ o \in Nat /\ l \in Nat
      BY Sizes DEF Given
    <3>2. CASE o = l
      <4>1. m < l /\ m # l
        BY <2>4, <3>1, <3>2
      <4>2. m \in Given(e)
        BY <1>8, <4>1
      <4>3. l < m
        BY <4>2
      <4> QED BY <3>1, <4>1, <4>3
    <3>3. CASE o # l /\ m = l
      <4>1. o \in Given(e) /\ d[o].page = e[o].page
        BY <1>8, <1>9, <3>3
      <4> QED BY <1>11, <2>1, <2>2, <2>4, <3>3, <4>1
    <3>4. CASE o # l /\ m # l
      BY <1>1, <1>8, <1>9, <2>4, <3>4 DEF DevSound
    <3> QED BY <3>2, <3>3, <3>4
  <2>5. ASSUME NEW i \in Sblks PROVE g.dev[i] <= g.wp[i]
    BY <1>1, <1>2, <2>1, WpIs DEF DevSound
  <2>6. ASSUME NEW q \in Pages, g.dev[q[1]] <= q[2], q[2] < g.wp[q[1]]
        PROVE  \E m \in Given(d) : d[m].page = q
    <3>1. q[1] \in Sblks /\ q[2] \in Nat /\ q = <<q[1], q[2]>> /\ p = <<p[1], p[2]>>
      BY <1>2, PageIs
    <3>2. CASE q = p
      BY <1>8, <1>11, <3>2
    <3>3. CASE q # p
      <4>1. q[2] < f.wp[q[1]] /\ f.dev[q[1]] <= q[2]
        BY <1>2, <2>1, <2>6, <3>1, <3>3
      <4>2. PICK m \in Given(e) : e[m].page = q
        BY <1>1, <4>1 DEF DevSound
      <4> QED BY <1>8, <1>9, <4>2
    <3> QED BY <3>2, <3>3
  <2> QED BY <2>3, <2>4, <2>5, <2>6 DEF DevSound
<1> QED BY <1>1, <1>2, <1>7, <1>13, <1>14 DEF StoreSound

\* What _do_wb_assign_ppa works on.
IsState(s) == s = [flash |-> s.flash, cache |-> s.cache, entry |-> s.entry,
                   mishaps |-> s.mishaps]

\* No GC has gone wrong.
Well(s) == s.mishaps = {}

\* It is the turn of l: only greater lpas have a page, and fewer than the flush has entries.
Turn(e, l) == l \notin Given(e) /\ (\A m \in Given(e) : l < m) /\ Cardinality(Pend(e)) < MaxWb

\* The entry l has a page now.
Placed(d, e, l) == \E p \in Pages : d = [e EXCEPT ![l] = [at |-> "lookup", page |-> p]]

\* One entry, whatever GC did to the flush before.
LEMMA AssignKeeps ==
    ASSUME BlockSsdAssumption, NEW s, IsState(s), NEW l, NEW t, t = AssignOne(s, l)
    PROVE  /\ IsState(t) /\ (CacheKept(s.cache) => CacheKept(t.cache))
           /\ Well(t) => Well(s)
<1>1. PICK f : f = dp_alloc(s.flash)
  OBVIOUS
<1>2. PICK m : m = s.mishaps \cup GcMishaps(s, f)
  OBVIOUS
<1>3. m = {} => s.mishaps = {}
  BY <1>2
<1>4. ASSUME f.fault
      PROVE  IsState(t) /\ t.mishaps = m /\ (CacheKept(s.cache) => CacheKept(t.cache))
  <2>1. t = [s EXCEPT !.flash = f, !.mishaps = m]
    BY <1>1, <1>2, <1>4 DEF AssignOne
  <2>2. IsState(t) /\ t.cache = s.cache /\ t.mishaps = m
    BY <2>1 DEF IsState
  <2> QED BY <2>2
<1>5. ASSUME ~f.fault
      PROVE  IsState(t) /\ t.mishaps = m /\ (CacheKept(s.cache) => CacheKept(t.cache))
  <2>1. PICK k : k = bulk_mapping_update(s.cache, f.moved)
    OBVIOUS
  <2>2. PICK d : d = [s.entry EXCEPT ![l] = [at |-> "lookup", page |-> NewPage(f)]]
    OBVIOUS
  <2>3. PICK g : g = validate(TakePage(f), NewPage(f), 0)
    OBVIOUS
  <2>4. t = [flash |-> g, cache |-> k, entry |-> d, mishaps |-> m]
    BY <1>1, <1>2, <1>5, <2>1, <2>2, <2>3 DEF AssignOne
  <2>5. IsState(t) /\ t.cache = k /\ t.mishaps = m
    BY <2>4 DEF IsState
  <2>6. CacheKept(s.cache) => CacheKept(k)
    BY <2>1, BulkKeeps
  <2> QED BY <2>5, <2>6
<1>6. t.mishaps = {} => s.mishaps = {}
  BY <1>3, <1>4, <1>5
<1> QED BY <1>4, <1>5, <1>6 DEF Well

\* One entry, as long as no GC has gone wrong.
LEMMA AssignSound ==
    ASSUME BlockSsdAssumption, NEW s, IsState(s), NEW l \in Lpas, NEW t, t = AssignOne(s, l),
           StoreSound(s.flash, s.cache, s.entry), Turn(s.entry, l), Well(t)
    PROVE  StoreSound(t.flash, t.cache, t.entry) /\ Placed(t.entry, s.entry, l)
<1>0. /\ l \notin Given(s.entry) /\ \A m \in Given(s.entry) : l < m
      /\ Cardinality(Pend(s.entry)) < MaxWb
  BY DEF Turn
<1>1. PICK f : f = dp_alloc(s.flash)
  OBVIOUS
<1>2. PICK k : k = bulk_mapping_update(s.cache, f.moved)
  OBVIOUS
<1>3. PICK p : p = NewPage(f)
  OBVIOUS
<1>4. PICK g : g = validate(TakePage(f), p, 0)
  OBVIOUS
<1>5. PICK d : d = [s.entry EXCEPT ![l] = [at |-> "lookup", page |-> p]]
  OBVIOUS
<1>6. Cardinality(Valid(s.flash)) < (ESblk - SSblk) * PagesPerSblk
  BY <1>0, FewValid
<1>7. FlashSound(s.flash)
  BY DEF StoreSound
<1>8. GcMishaps(s, f) = {}
  <2>1. PICK m : m = s.mishaps \cup GcMishaps(s, f)
    OBVIOUS
  <2>2. t.mishaps = m
    <3>1. CASE f.fault
      <4>1. t = [s EXCEPT !.flash = f, !.mishaps = m]
        BY <1>1, <2>1, <3>1 DEF AssignOne
      <4> QED BY <4>1 DEF IsState
    <3>2. CASE ~f.fault
      <4>1. t = [flash |-> g, cache |-> k, entry |-> d, mishaps |-> m]
        BY <1>1, <1>2, <1>3, <1>4, <1>5, <2>1, <3>2 DEF AssignOne
      <4> QED BY <4>1
    <3> QED BY <3>1, <3>2
  <2>3. t.mishaps = {}
    BY DEF Well
  <2> QED BY <2>1, <2>2, <2>3
<1>9. ~HitsFlush(s, f) /\ ~FreesTwice(s, f)
  BY <1>8 DEF GcMishaps
<1>10. /\ RunsGc(s.flash) => \A e \in Lpas : s.entry[e].page[1] # f.rsv
       /\ f.rsv \in GcTargets(s.flash) => ~FreesAgain(s.flash, f.rsv)
  BY <1>9 DEF HitsFlush, FreesTwice
<1>11. StoreSound(f, k, s.entry) /\ f.active \in Sblks /\ ~check_full(f, f.active) /\ ~f.fault
  <2>1. StoreSound(f, k, s.entry) /\ f.active \in Sblks /\ ~check_full(f, f.active)
    BY <1>1, <1>2, <1>6, <1>10, AllocIs
  <2> QED BY <2>1 DEF StoreSound, FlashSound
<1>12. p \in Pages /\ StoreSound(g, k, d)
  BY <1>0, <1>3, <1>4, <1>5, <1>11, NewEntry
<1>13. PICK m : m = s.mishaps \cup GcMishaps(s, f)
  OBVIOUS
<1>14. t = [flash |-> g, cache |-> k, entry |-> d, mishaps |-> m]
  BY <1>1, <1>2, <1>3, <1>4, <1>5, <1>11, <1>13 DEF AssignOne
<1>15. t.flash = g /\ t.cache = k /\ t.entry = d
  BY <1>14
<1> QED BY <1>5, <1>12, <1>15 DEF Placed

\* The loop of _do_wb_assign_ppa turn by turn.
LEMMA AssignedRuns ==
    ASSUME BlockSsdAssumption, NEW s
    PROVE  \E h : /\ h[0] = s /\ Assigned(s) = h[NrLpas]
                  /\ \A n \in 1 .. NrLpas :
                        h[n] = IF NrLpas - n \in Buffered THEN AssignOne(h[n - 1], NrLpas - n)
                               ELSE h[n - 1]
<1>0. NrLpas \in Nat
  BY Sizes
<1>00. PICK B : B = Buffered
  OBVIOUS
<1> DEFINE Step(x, n) == IF NrLpas - n \in B THEN AssignOne(x, NrLpas - n) ELSE x
           Goes(g, m) == /\ g = [n \in 0 .. m |-> g[n]] /\ g[0] = s
                         /\ \A n \in 1 .. m : g[n] = Step(g[n - 1], n)
           T == { m \in 0 .. NrLpas : \E g : Goes(g, m) }
<1>1. 0 \in T
  <2> DEFINE g == [n \in 0 .. 0 |-> s]
  <2>1. Goes(g, 0)
    OBVIOUS
  <2>2. \E f : Goes(f, 0)
    <3> HIDE DEF Goes, g
    <3> QED BY <2>1
  <2> HIDE DEF Goes
  <2> QED BY <1>0, <2>2
<1>2. ASSUME NEW m \in 1 .. NrLpas, m - 1 \in T PROVE m \in T
  <2> HIDE DEF Step
  <2>1. PICK f : Goes(f, m - 1)
    BY <1>2
  <2>2. m \in Nat /\ m > 0
    BY <1>0
  <2> DEFINE g == [n \in 0 .. m |-> IF n = m THEN Step(f[m - 1], m) ELSE f[n]]
  <2>3. g = [n \in 0 .. m |-> g[n]]
    OBVIOUS
  <2>4. g[0] = s
    BY <2>1, <2>2
  <2>5. ASSUME NEW n \in 1 .. m PROVE g[n] = Step(g[n - 1], n)
    <3>1. n \in 0 .. m /\ n - 1 \in 0 .. m /\ n - 1 # m
      BY <2>2
    <3>2. g[n - 1] = f[n - 1]
      BY <3>1
    <3>3. CASE n = m
      BY <3>1, <3>2, <3>3
    <3>4. CASE n # m
      <4>1. n \in 1 .. m - 1
        BY <2>2, <3>4
      <4>2. f[n] = Step(f[n - 1], n)
        BY <2>1, <4>1
      <4> QED BY <3>1, <3>2, <3>4, <4>2
    <3> QED BY <3>3, <3>4
  <2>6. Goes(g, m)
    BY <2>3, <2>4, <2>5
  <2>7. \E e : Goes(e, m)
    <3> HIDE DEF Goes, g
    <3> QED BY <2>6
  <2> HIDE DEF Goes
  <2> QED BY <2>7
<1>3. NrLpas \in T
  <2> HIDE DEF T
  <2>1. \A i \in 0 .. NrLpas : i \in T
    BY <1>0, <1>1, <1>2, CountUp
  <2> QED BY <1>0, <2>1
<1>4. PICK g : Goes(g, NrLpas)
  BY <1>3
<1> DEFINE G(after) == after = [n \in 0 .. NrLpas |->
               IF n = 0 THEN s
               ELSE IF NrLpas - n \in Buffered THEN AssignOne(after[n - 1], NrLpas - n)
               ELSE after[n - 1]]
<1>5. G(g)
  <2>1. g = [n \in 0 .. NrLpas |-> g[n]] /\ g[0] = s
    BY <1>4
  <2>2. ASSUME NEW n \in 0 .. NrLpas
        PROVE  g[n] = IF n = 0 THEN s
                      ELSE IF NrLpas - n \in Buffered THEN AssignOne(g[n - 1], NrLpas - n)
                      ELSE g[n - 1]
    <3>1. CASE n = 0
      BY <2>1, <3>1
    <3>2. CASE n # 0
      <4>1. n \in 1 .. NrLpas
        BY <1>0, <3>2
      <4>2. g[n] = Step(g[n - 1], n)
        BY <1>4, <4>1
      <4> QED BY <1>00, <3>2, <4>2
    <3> QED BY <3>1, <3>2
  <2> QED BY <2>1, <2>2
<1>6. PICK h : h = CHOOSE after : G(after)
  OBVIOUS
<1>7. G(h)
  <2> HIDE DEF G
  <2> QED BY <1>5, <1>6
<1>8. Assigned(s) = h[NrLpas]
  BY <1>6 DEF Assigned
<1>9. h[0] = s
  BY <1>0, <1>7
<1>10. \A n \in 1 .. NrLpas :
          h[n] = IF NrLpas - n \in Buffered THEN AssignOne(h[n - 1], NrLpas - n) ELSE h[n - 1]
  BY <1>0, <1>7
<1> HIDE DEF G
<1> QED BY <1>8, <1>9, <1>10

\* The cache is kept through the loop, and a flush that a GC hit stays hit.
LEMMA AssignedKeeps ==
    ASSUME BlockSsdAssumption, NEW s, IsState(s), CacheKept(s.cache), NEW t, t = Assigned(s)
    PROVE  CacheKept(t.cache)
<1>0. NrLpas \in Nat
  BY Sizes
<1>1. PICK h : /\ h[0] = s /\ t = h[NrLpas]
               /\ \A n \in 1 .. NrLpas :
                     h[n] = IF NrLpas - n \in Buffered THEN AssignOne(h[n - 1], NrLpas - n)
                            ELSE h[n - 1]
  BY AssignedRuns
<1> DEFINE T == { n \in 0 .. NrLpas : IsState(h[n]) /\ CacheKept(h[n].cache) }
<1>2. 0 \in T
  BY <1>0, <1>1
<1>3. ASSUME NEW n \in 1 .. NrLpas, n - 1 \in T PROVE n \in T
  <2>1. PICK x : x = h[n - 1]
    OBVIOUS
  <2>2. IsState(x) /\ CacheKept(x.cache)
    BY <1>3, <2>1
  <2>3. IsState(h[n]) /\ CacheKept(h[n].cache)
    <3>1. CASE NrLpas - n \in Buffered
      <4>1. h[n] = AssignOne(x, NrLpas - n)
        BY <1>1, <2>1, <3>1
      <4> QED BY <2>2, <4>1, AssignKeeps
    <3>2. CASE NrLpas - n \notin Buffered
      BY <1>1, <2>1, <2>2, <3>2
    <3> QED BY <3>1, <3>2
  <2> QED BY <1>0, <2>3
<1> HIDE DEF T
<1>4. \A i \in 0 .. NrLpas : i \in T
  BY <1>0, <1>2, <1>3, CountUp
<1> QED BY <1>0, <1>1, <1>4 DEF T

\* Unless a GC hits it, the flush has a page for each entry of the buffer.
LEMMA AssignedIs ==
    ASSUME BlockSsdAssumption, NEW s, IsState(s), StoreSound(s.flash, s.cache, s.entry),
           s.entry = entry, Given(entry) = {}, Cardinality(Buffered) = MaxWb,
           NEW t, t = Assigned(s), Well(t)
    PROVE  /\ StoreSound(t.flash, t.cache, t.entry)
           /\ \A l \in Lpas : IF l \in Buffered THEN t.entry[l].at = "lookup"
                              ELSE t.entry[l] = entry[l]
<1>0. NrLpas \in Nat /\ IsFiniteSet(Buffered) /\ Buffered \subseteq Lpas
      /\ \A l \in Lpas : l \in Nat /\ l < NrLpas
  <2>1. Buffered \in SUBSET Lpas
    BY DEF Buffered
  <2>2. IsFiniteSet(Buffered)
    BY <2>1, Sizes, FS_Subset
  <2> QED BY <2>1, <2>2, Sizes DEF Lpas
<1>1. PICK h : /\ h[0] = s /\ t = h[NrLpas]
               /\ \A n \in 1 .. NrLpas :
                     h[n] = IF NrLpas - n \in Buffered THEN AssignOne(h[n - 1], NrLpas - n)
                            ELSE h[n - 1]
  BY AssignedRuns
<1> DEFINE Has(e, n) == \A l \in Lpas : IF l \in Buffered /\ l >= NrLpas - n
                                        THEN e[l].at = "lookup" ELSE e[l] = entry[l]
           Sound(x, n) == Well(x) => StoreSound(x.flash, x.cache, x.entry) /\ Has(x.entry, n)
           T == { n \in 0 .. NrLpas : IsState(h[n]) /\ Sound(h[n], n) }
<1>2. 0 \in T
  <2>1. Has(s.entry, 0)
    BY <1>0
  <2>2. Sound(s, 0)
    BY <2>1
  <2> HIDE DEF Sound
  <2> QED BY <1>0, <1>1, <2>2
<1>3. ASSUME NEW n \in 1 .. NrLpas, n - 1 \in T PROVE n \in T
  <2>1. PICK x : x = h[n - 1]
    OBVIOUS
  <2>2. IsState(x) /\ Sound(x, n - 1)
    BY <1>3, <2>1
  <2>3. PICK y : y = h[n]
    OBVIOUS
  <2>4. PICK l : l = NrLpas - n
    OBVIOUS
  <2>5. l \in Lpas /\ l \in Nat /\ NrLpas - (n - 1) = l + 1
    BY <1>0, <2>4 DEF Lpas
  <2>6. CASE l \in Buffered
    <3>1. y = AssignOne(x, l)
      BY <1>1, <2>1, <2>3, <2>4, <2>6
    <3>2. IsState(y) /\ (Well(y) => Well(x))
      BY <2>2, <3>1, AssignKeeps
    <3>3. ASSUME Well(y) PROVE StoreSound(y.flash, y.cache, y.entry) /\ Has(y.entry, n)
      <4>1. StoreSound(x.flash, x.cache, x.entry) /\ Has(x.entry, n - 1)
        BY <2>2, <3>2, <3>3
      <4>2. \A m \in Lpas : IF m \in Buffered /\ m >= l + 1 THEN x.entry[m].at = "lookup"
                            ELSE x.entry[m] = entry[m]
        BY <2>5, <4>1
      <4>3. ASSUME NEW m \in Given(x.entry) PROVE m \in Buffered /\ m # l /\ l < m
        <5>1. m \in Lpas /\ m \in Nat /\ m \notin Given(entry)
          BY <1>0 DEF Given
        <5>2. x.entry[m] # entry[m]
          BY <5>1 DEF Given
        <5> QED BY <2>5, <4>2, <5>1, <5>2
      <4>4. Cardinality(Pend(x.entry)) < MaxWb
        <5>1. Pend(x.entry) \in SUBSET (Buffered \ {l})
          BY <4>3 DEF Pend, Given
        <5>2. IsFiniteSet(Buffered \ {l}) /\ Cardinality(Buffered \ {l}) = MaxWb - 1
          BY <1>0, <2>6, FS_RemoveElement
        <5>3. Cardinality(Pend(x.entry)) <= MaxWb - 1 /\ Cardinality(Pend(x.entry)) \in Nat
          BY <5>1, <5>2, FS_Subset, FS_CardinalityType
        <5> QED BY <5>3, Sizes
      <4>5. Turn(x.entry, l)
        BY <4>3, <4>4 DEF Turn
      <4>6. StoreSound(y.flash, y.cache, y.entry) /\ Placed(y.entry, x.entry, l)
        <5>1. IsState(x) /\ l \in Lpas
          BY <2>2, <2>5
        <5>2. StoreSound(x.flash, x.cache, x.entry)
          BY <4>1
        <5> HIDE DEF Sound, Has, T
        <5> QED BY <3>1, <3>3, <4>5, <5>1, <5>2, AssignSound
      <4>7. x.entry \in [Lpas -> [at : Stages, page : Pages \cup {NoPage}]]
        BY <4>1 DEF StoreSound, EntryTypes
      <4>8. y.entry[l].at = "lookup" /\ \A m \in Lpas : m # l => y.entry[m] = x.entry[m]
        BY <2>5, <4>6, <4>7 DEF Placed
      <4>9. ASSUME NEW m \in Lpas
            PROVE  IF m \in Buffered /\ m >= NrLpas - n THEN y.entry[m].at = "lookup"
                   ELSE y.entry[m] = entry[m]
        <5>1. CASE m = l
          BY <2>4, <2>5, <2>6, <4>8, <5>1
        <5>2. CASE m # l
          <6>1. m >= NrLpas - n <=> m >= l + 1
            <7>1. l \in Nat /\ m \in Nat /\ m # l /\ l = NrLpas - n
              BY <1>0, <2>4, <2>5, <5>2
            <7>2. m >= l <=> m >= l + 1
              BY <7>1
            <7> QED BY <7>1, <7>2
          <6> QED BY <4>2, <4>8, <5>2, <6>1
        <5> QED BY <5>1, <5>2
      <4> QED BY <4>6, <4>9
    <3>4. Sound(y, n)
      BY <3>3
    <3> HIDE DEF Sound
    <3> QED BY <1>0, <2>3, <3>2, <3>4
  <2>7. CASE l \notin Buffered
    <3>1. y = x
      BY <1>1, <2>1, <2>3, <2>4, <2>7
    <3>2. \A m \in Lpas : m \in Buffered => (m >= NrLpas - n <=> m >= NrLpas - (n - 1))
      BY <1>0, <2>4, <2>5, <2>7
    <3>3. Has(x.entry, n - 1) => Has(x.entry, n)
      BY <3>2
    <3>4. Sound(y, n)
      <4> HIDE DEF Has
      <4> QED BY <2>2, <3>1, <3>3
    <3>5. IsState(y)
      BY <2>2, <3>1
    <3> HIDE DEF Sound
    <3> QED BY <1>0, <2>3, <3>4, <3>5
  <2> QED BY <2>6, <2>7
<1>4. Sound(t, NrLpas)
  <2>1. NrLpas \in T
    <3> HIDE DEF T
    <3> QED BY <1>0, <1>2, <1>3, CountUp
  <2> HIDE DEF Sound
  <2> QED BY <1>1, <2>1
<1> QED BY <1>0, <1>4

-----------------------------------------------------------------------------
(***************************************************************************)
(* The mappings of a flush and its pages on the device.                    *)
(***************************************************************************)
\* The flash once the entry of l, whose page is p, is mapped.
MappedTo(f, c, l, p) == [InvalidateOld(f, c.table[l]) EXCEPT !.lpa[p] = l, !.newest[l] = p]

\* An entry is mapped: the value before it is dead, and its page names it.
LEMMA MapEntryIs ==
    ASSUME BlockSsdAssumption, NEW f, NEW c, NEW e, StoreSound(f, c, e), NEW l \in Pend(e),
           NEW p, p = e[l].page,
           NEW g, g = MappedTo(f, c, l, p),
           NEW k, k = update(c, l, p), NEW d, d = [e EXCEPT ![l].at = "mapped"]
    PROVE  StoreSound(g, k, d)
<1>1. /\ FlashSound(f) /\ FlashTypes(f) /\ Pools(f) /\ ~f.fault /\ ~f.refused /\ IsFlash(f)
      /\ CacheSound(c) /\ CacheKept(c) /\ MapSound(f, c, e) /\ EntryTypes(e)
      /\ DevSound(f, e, Given(e)) /\ f.lpa \in [Valid(f) -> Lpas] /\ Valid(f) \subseteq Pages
      /\ f.newest \in [Lpas -> Pages \cup {NoPage}] /\ c.table \in [Lpas -> Pages \cup {NoPage}]
      /\ e \in [Lpas -> [at : Stages, page : Pages \cup {NoPage}]]
  BY DEF StoreSound, FlashSound, FlashTypes, CacheSound, EntryTypes
<1>2. l \in Lpas /\ l \in Given(e) /\ p \in Pages /\ p \in PendPages(e) /\ p \in Valid(f) /\ p \notin Named(c)
  <2>1. l \in Lpas /\ l \in Given(e) /\ p \in PendPages(e)
    BY DEF Pend, Given, PendPages
  <2> QED BY <1>1, <2>1 DEF MapSound
<1>3. PICK old : old = c.table[l]
  OBVIOUS
<1>4. /\ old = NoPage => old \notin Valid(f) /\ l \notin StoredIn(c)
      /\ old # NoPage => old \in Valid(f) /\ old \in Named(c) /\ l \in StoredIn(c)
  BY <1>1, <1>2, <1>3, Sizes DEF MapSound, Named, StoredIn
<1>5. p # old
  BY <1>2, <1>4
<1>6. PICK h : h = InvalidateOld(f, old)
  OBVIOUS
<1>7. PICK V : V = Valid(f) \ {old}
  OBVIOUS
<1>8. /\ IsFlash(h) /\ h.wp = f.wp /\ h.free = f.free /\ h.rsv = f.rsv /\ h.next = f.next
      /\ h.active = f.active /\ h.dev = f.dev /\ h.newest = f.newest /\ h.moved = f.moved
      /\ ~h.refused /\ ~h.fault /\ h.lpa \in [V -> Lpas]
      /\ \A q \in V : h.lpa[q] = f.lpa[q]
  <2>1. CASE old = NoPage
    <3>1. h = f /\ V = Valid(f)
      BY <1>4, <1>6, <1>7, <2>1 DEF InvalidateOld
    <3> QED BY <1>1, <3>1
  <2>2. CASE old # NoPage
    <3>1. PICK o : o = [q \in V |-> f.lpa[q]]
      OBVIOUS
    <3>2. PICK ft : ft = (f.fault \/ old \notin Valid(f))
      OBVIOUS
    <3>3. h = [f EXCEPT !.lpa = o, !.fault = ft]
      BY <1>6, <1>7, <2>2, <3>1, <3>2 DEF InvalidateOld, invalidate
    <3>4. ~ft
      BY <1>1, <1>4, <2>2, <3>2
    <3>5. /\ IsFlash(h) /\ h.wp = f.wp /\ h.free = f.free /\ h.rsv = f.rsv /\ h.next = f.next
          /\ h.active = f.active /\ h.dev = f.dev /\ h.newest = f.newest /\ h.moved = f.moved
          /\ h.refused = f.refused /\ h.fault = ft /\ h.lpa = o
      BY <1>1, <3>3 DEF IsFlash
    <3>6. o \in [V -> Lpas] /\ \A q \in V : o[q] = f.lpa[q]
      BY <1>1, <1>7, <3>1
    <3> QED BY <1>1, <3>4, <3>5, <3>6
  <2> QED BY <2>1, <2>2
<1>9. p \in V
  BY <1>2, <1>5, <1>7
<1>10. PICK o : o = [h.lpa EXCEPT ![p] = l]
  OBVIOUS
<1>11. PICK nw : nw = [h.newest EXCEPT ![l] = p]
  OBVIOUS
<1>12. g = [h EXCEPT !.lpa = o, !.newest = nw]
  BY <1>3, <1>6, <1>8, <1>10, <1>11 DEF IsFlash, MappedTo
<1>13. /\ IsFlash(g) /\ g.wp = f.wp /\ g.free = f.free /\ g.rsv = f.rsv /\ g.next = f.next
       /\ g.active = f.active /\ g.dev = f.dev /\ g.newest = nw /\ g.lpa = o
       /\ ~g.refused /\ ~g.fault
  BY <1>8, <1>12 DEF IsFlash
<1>14. o \in [V -> Lpas] /\ \A q \in V : o[q] = IF q = p THEN l ELSE f.lpa[q]
  BY <1>2, <1>8, <1>10
<1>15. /\ nw \in [Lpas -> Pages \cup {NoPage}]
       /\ \A m \in Lpas : nw[m] = IF m = l THEN p ELSE f.newest[m]
  BY <1>1, <1>2, <1>8, <1>11
<1>16. Valid(g) = V /\ V \subseteq Valid(f)
  BY <1>7, <1>13, <1>14 DEF Valid
<1>17. FlashSound(g)
  <2>1. FlashTypes(g)
    BY <1>1, <1>13, <1>14, <1>15, <1>16 DEF FlashTypes
  <2>2. Erased(g) = Erased(f)
    BY <1>13 DEF Erased
  <2>3. \A q \in Valid(g) : q[2] < g.wp[q[1]]
    BY <1>1, <1>13, <1>16 DEF Pools
  <2>4. Pools(g)
    BY <1>1, <1>13, <2>2, <2>3 DEF Pools
  <2> QED BY <1>13, <2>1, <2>4 DEF FlashSound
<1>18. CacheSound(k) /\ k.table = SetTo(c.table, l, p)
  BY <1>1, <1>2, SetIs
<1>19. \A m \in Lpas : k.table[m] = IF m = l THEN p ELSE c.table[m]
  BY <1>1, <1>2, <1>18 DEF SetTo
<1>20. EntryTypes(d) /\ \A m \in Lpas : d[m].page = e[m].page /\ (m # l => d[m] = e[m])
  <2>1. PICK x : x = [e[l] EXCEPT !.at = "mapped"]
    OBVIOUS
  <2>2. e[l] \in [at : Stages, page : Pages \cup {NoPage}]
    BY <1>1, <1>2
  <2>3. x \in [at : Stages, page : Pages \cup {NoPage}] /\ x.page = e[l].page
    BY <2>1, <2>2 DEF Stages
  <2>4. d = [e EXCEPT ![l] = x]
    BY <2>1
  <2> QED BY <1>1, <1>2, <2>3, <2>4 DEF EntryTypes
<1>21. d[l].at = "mapped"
  BY <1>1, <1>2
<1>22. Given(d) = Given(e) /\ Pend(d) = Pend(e) \ {l}
  BY <1>2, <1>20, <1>21 DEF Given, Pend
<1>23. ASSUME NEW m \in Pend(e), m # l PROVE e[m].page # p
  <2>1. m \in Given(e) /\ m \in Nat /\ l \in Nat
    BY <1>2, Sizes DEF Pend, Given
  <2>2. PICK q : q = e[m].page
    OBVIOUS
  <2>3. q[2] \in Nat /\ p[2] \in Nat
    BY <1>1, <1>2, <2>1, <2>2, PageIs DEF DevSound
  <2>4. CASE q = p
    <3>1. m < l \/ l < m
      BY <1>23, <2>1
    <3>2. q[2] < p[2] \/ p[2] < q[2]
      BY <1>1, <1>2, <2>1, <2>2, <2>4, <3>1 DEF DevSound
    <3> QED BY <2>3, <2>4, <3>2
  <2> QED BY <2>2, <2>4
<1>24. PendPages(d) = PendPages(e) \ {p}
  <2>1. ASSUME NEW m \in Pend(d) PROVE d[m].page \in PendPages(e) \ {p}
    <3>1. m \in Pend(e) /\ m # l /\ d[m].page = e[m].page
      BY <1>20, <1>22 DEF Pend
    <3> QED BY <1>23, <3>1 DEF PendPages
  <2>2. ASSUME NEW q \in PendPages(e), q # p PROVE q \in PendPages(d)
    <3>1. PICK m \in Pend(e) : q = e[m].page
      BY DEF PendPages
    <3>2. m # l /\ m \in Lpas
      BY <2>2, <3>1 DEF Pend
    <3>3. m \in Pend(d) /\ d[m].page = q
      BY <1>20, <1>22, <3>1, <3>2
    <3> QED BY <3>3 DEF PendPages
  <2>3. PendPages(d) \subseteq PendPages(e) \ {p}
    BY <2>1 DEF PendPages
  <2> QED BY <2>2, <2>3
<1>25. ASSUME NEW m \in StoredIn(c), m # l
       PROVE  m \in StoredIn(k) /\ k.table[m] = c.table[m] /\ c.table[m] # old /\ c.table[m] \in V
  <2>1. m \in Lpas /\ c.table[m] # NoPage /\ c.table[m] \in Valid(f) /\ f.lpa[c.table[m]] = m
    BY <1>1 DEF MapSound, Named, StoredIn
  <2>2. c.table[m] # old
    BY <1>1, <1>3, <1>4, <1>25, <2>1 DEF MapSound
  <2> QED BY <1>7, <1>19, <1>25, <2>1, <2>2 DEF StoredIn
<1>26. ASSUME NEW m \in StoredIn(k)
       PROVE  \/ m = l /\ k.table[m] = p
              \/ m # l /\ m \in StoredIn(c) /\ k.table[m] = c.table[m]
  BY <1>19 DEF StoredIn
<1>27. l \in StoredIn(k) /\ k.table[l] = p
  BY <1>2, <1>19, Sizes DEF StoredIn
<1>28. ASSUME NEW q \in V PROVE q \in Named(k) \cup PendPages(d)
  <2>1. q \in Valid(f) /\ q # old
    BY <1>7
  <2>2. CASE q = p
    BY <1>27, <2>2 DEF Named
  <2>3. CASE q # p /\ q \in PendPages(e)
    BY <1>24, <2>3
  <2>4. CASE q \notin PendPages(e)
    <3>1. PICK m \in StoredIn(c) : q = c.table[m]
      BY <1>1, <2>1, <2>4 DEF MapSound, Named
    <3>2. m # l
      BY <1>3, <2>1, <3>1
    <3> QED BY <1>25, <3>1, <3>2 DEF Named
  <2> QED BY <2>2, <2>3, <2>4
<1>29. ASSUME NEW m \in StoredIn(k)
       PROVE  k.table[m] \in V /\ k.table[m] \notin PendPages(d) /\ g.lpa[k.table[m]] = m
              /\ g.newest[m] = k.table[m]
  <2>1. CASE m = l
    BY <1>2, <1>9, <1>13, <1>14, <1>15, <1>24, <1>27, <2>1
  <2>2. CASE m # l
    <3>1. m \in StoredIn(c) /\ k.table[m] = c.table[m] /\ m \in Lpas /\ c.table[m] \in Named(c)
      BY <1>26, <2>2 DEF StoredIn, Named
    <3>2. c.table[m] \in V /\ c.table[m] # p /\ c.table[m] \notin PendPages(e)
      BY <1>1, <1>2, <1>25, <2>2, <3>1 DEF MapSound
    <3>3. f.lpa[c.table[m]] = m /\ f.newest[m] = c.table[m]
      BY <1>1, <3>1 DEF MapSound
    <3> QED BY <1>13, <1>14, <1>15, <1>24, <2>2, <3>1, <3>2, <3>3
  <2> QED BY <2>1, <2>2
<1>30. MapSound(g, k, d)
  <2>1. \A q \in PendPages(d) : q \in V
    BY <1>1, <1>4, <1>7, <1>24 DEF MapSound
  <2>2. \A q \in Named(k) : q \in V /\ q \notin PendPages(d)
    <3> SUFFICES ASSUME NEW q \in Named(k) PROVE q \in V /\ q \notin PendPages(d)
      OBVIOUS
    <3>1. PICK m \in StoredIn(k) : q = k.table[m]
      BY DEF Named
    <3> QED BY <1>29, <3>1
  <2>3. V = Named(k) \cup PendPages(d)
    BY <1>28, <2>1, <2>2
  <2> QED BY <1>16, <1>29, <2>2, <2>3 DEF MapSound
<1>31. DevSound(g, d, Given(d))
  <2>1. \A m \in Given(e) : d[m].page = e[m].page
    BY <1>20 DEF Given
  <2>2. g.wp = f.wp /\ g.dev = f.dev /\ Given(d) = Given(e)
    BY <1>13, <1>22
  <2>3. \A m \in Given(d) : LET q == d[m].page
                            IN  q \in Pages /\ g.dev[q[1]] <= q[2] /\ q[2] < g.wp[q[1]]
    BY <1>1, <2>1, <2>2 DEF DevSound
  <2>4. \A m, j \in Given(d) : m < j /\ d[m].page[1] = d[j].page[1] => d[j].page[2] < d[m].page[2]
    BY <1>1, <2>1, <2>2 DEF DevSound
  <2>5. \A i \in Sblks : g.dev[i] <= g.wp[i]
    BY <1>1, <2>2 DEF DevSound
  <2>6. ASSUME NEW q \in Pages, g.dev[q[1]] <= q[2], q[2] < g.wp[q[1]]
        PROVE  \E m \in Given(d) : d[m].page = q
    <3>1. PICK m \in Given(e) : e[m].page = q
      BY <1>1, <2>2, <2>6 DEF DevSound
    <3> QED BY <2>1, <2>2, <3>1
  <2> QED BY <2>3, <2>4, <2>5, <2>6 DEF DevSound
<1> QED BY <1>17, <1>18, <1>20, <1>30, <1>31 DEF StoreSound

\* The device takes the page of the greatest lpa that is left.
LEMMA ProgramIs ==
    ASSUME BlockSsdAssumption, NEW f, FlashSound(f), NEW e, NEW G, G \subseteq Lpas,
           DevSound(f, e, G), NEW l \in G, \A m \in G : m <= l,
           NEW g, g = Program(f, e[l].page)
    PROVE  /\ FlashSound(g) /\ g.wp = f.wp /\ g.lpa = f.lpa /\ g.newest = f.newest
           /\ DevSound(g, e, G \ {l})
<1>1. /\ FlashTypes(f) /\ Pools(f) /\ ~f.fault /\ ~f.refused /\ IsFlash(f)
      /\ f.dev \in [Sblks -> 0 .. PagesPerSblk] /\ f.rsv \in Sblks
      /\ f.wp \in [Sblks -> 0 .. PagesPerSblk]
  BY DEF FlashSound, FlashTypes
<1>2. PICK p : p = e[l].page
  OBVIOUS
<1>3. /\ p \in Pages /\ p[1] \in Sblks /\ p[2] \in Nat /\ f.dev[p[1]] <= p[2]
      /\ p[2] < f.wp[p[1]] /\ f.dev[p[1]] \in Nat /\ f.wp[p[1]] \in Nat
      /\ f.wp[p[1]] <= PagesPerSblk
  <2>1. p \in Pages /\ f.dev[p[1]] <= p[2] /\ p[2] < f.wp[p[1]]
    BY <1>2 DEF DevSound
  <2> QED BY <1>1, <2>1, PageIs, WpIs
<1>4. ASSUME NEW m \in G, m # l
      PROVE  m < l /\ (e[m].page[1] = p[1] => p[2] < e[m].page[2])
  <2>1. m \in Nat /\ l \in Nat
    BY Sizes
  <2>2. m < l
    BY <1>4, <2>1
  <2> QED BY <1>2, <2>2 DEF DevSound
<1>5. f.dev[p[1]] = p[2]
  <2> SUFFICES ASSUME f.dev[p[1]] < p[2] PROVE FALSE
    BY <1>3
  <2>1. PICK q : q = <<p[1], f.dev[p[1]]>>
    OBVIOUS
  <2>2. f.dev[p[1]] \in 0 .. PagesPerSblk - 1
    BY <1>3, Sizes
  <2>3. q \in Pages /\ q[1] = p[1] /\ q[2] = f.dev[p[1]]
    BY <1>3, <2>1, <2>2, PageIs
  <2>4. f.dev[q[1]] <= q[2] /\ q[2] < f.wp[q[1]]
    BY <1>3, <2>3
  <2>5. PICK m \in G : e[m].page = q
    BY <2>3, <2>4 DEF DevSound
  <2>6. m # l
    BY <1>2, <1>3, <2>3, <2>5
  <2>7. p[2] < q[2]
    BY <1>4, <2>3, <2>5, <2>6
  <2> QED BY <1>3, <2>3, <2>7
<1>6. PICK d : d = [f.dev EXCEPT ![p[1]] = @ + 1]
  OBVIOUS
<1>7. g = [f EXCEPT !.dev = d]
  BY <1>1, <1>2, <1>5, <1>6 DEF Program, IsFlash
<1>8. /\ IsFlash(g) /\ g.wp = f.wp /\ g.free = f.free /\ g.rsv = f.rsv /\ g.next = f.next
      /\ g.active = f.active /\ g.lpa = f.lpa /\ g.dev = d /\ g.newest = f.newest
      /\ g.refused = f.refused /\ g.fault = f.fault
  BY <1>1, <1>7 DEF IsFlash
<1>9. /\ d \in [Sblks -> 0 .. PagesPerSblk]
      /\ \A i \in Sblks : d[i] = IF i = p[1] THEN p[2] + 1 ELSE f.dev[i]
  <2>1. p[2] + 1 \in 0 .. PagesPerSblk
    BY <1>3, Sizes
  <2> QED BY <1>1, <1>3, <1>5, <1>6, <2>1
<1>10. FlashSound(g)
  <2>1. Valid(g) = Valid(f) /\ Erased(g) = Erased(f)
    BY <1>8 DEF Valid, Erased
  <2>2. p[1] # f.rsv
    BY <1>1, <1>3 DEF Pools
  <2>3. g.dev[g.rsv] = 0
    BY <1>1, <1>8, <1>9, <2>2 DEF Pools
  <2>4. Pools(g)
    BY <1>1, <1>8, <2>1, <2>3 DEF Pools
  <2>5. FlashTypes(g)
    BY <1>1, <1>8, <1>9, <2>1 DEF FlashTypes
  <2> QED BY <1>1, <1>8, <2>4, <2>5 DEF FlashSound
<1>11. DevSound(g, e, G \ {l})
  <2>1. ASSUME NEW m \in G \ {l}, NEW q, q = e[m].page
        PROVE  q \in Pages /\ g.dev[q[1]] <= q[2] /\ q[2] < g.wp[q[1]]
    <3>1. q \in Pages /\ f.dev[q[1]] <= q[2] /\ q[2] < f.wp[q[1]]
      BY <2>1 DEF DevSound
    <3>2. q[1] \in Sblks /\ q[2] \in Nat
      BY <3>1, PageIs
    <3>3. q[1] = p[1] => p[2] < q[2]
      BY <1>4, <2>1
    <3> QED BY <1>3, <1>8, <1>9, <3>1, <3>2, <3>3
  <2>2. \A m, o \in G \ {l} : m < o /\ e[m].page[1] = e[o].page[1] => e[o].page[2] < e[m].page[2]
    BY DEF DevSound
  <2>3. \A i \in Sblks : g.dev[i] <= g.wp[i]
    BY <1>3, <1>8, <1>9 DEF DevSound
  <2>4. ASSUME NEW q \in Pages, g.dev[q[1]] <= q[2], q[2] < g.wp[q[1]]
        PROVE  \E m \in G \ {l} : e[m].page = q
    <3>1. q[1] \in Sblks /\ q[2] \in Nat
      BY PageIs
    <3>2. f.dev[q[1]] <= q[2] /\ q[2] < f.wp[q[1]] /\ q # p
      BY <1>3, <1>5, <1>8, <1>9, <2>4, <3>1
    <3>3. PICK m \in G : e[m].page = q
      BY <3>2 DEF DevSound
    <3>4. m # l
      BY <1>2, <3>2, <3>3
    <3> QED BY <3>3, <3>4
  <2> QED BY <2>1, <2>2, <2>3, <2>4 DEF DevSound
<1> QED BY <1>8, <1>10, <1>11

\* The loop of _do_wb_flush turn by turn.
LEMMA ProgrammedRuns ==
    ASSUME BlockSsdAssumption
    PROVE  \E h : /\ h[0] = flash /\ Programmed = h[NrLpas]
                  /\ \A n \in 1 .. NrLpas :
                        h[n] = IF NrLpas - n \in Buffered THEN Program(h[n - 1], entry[NrLpas - n].page)
                               ELSE h[n - 1]
<1>0. NrLpas \in Nat
  BY Sizes
<1>00. PICK B : B = Buffered
  OBVIOUS
<1>01. PICK e : e = entry
  OBVIOUS
<1>02. PICK f0 : f0 = flash
  OBVIOUS
<1> DEFINE Step(x, n) == IF NrLpas - n \in B THEN Program(x, e[NrLpas - n].page) ELSE x
           Goes(g, m) == /\ g = [n \in 0 .. m |-> g[n]] /\ g[0] = f0
                         /\ \A n \in 1 .. m : g[n] = Step(g[n - 1], n)
           T == { m \in 0 .. NrLpas : \E g : Goes(g, m) }
<1>1. 0 \in T
  <2> DEFINE g == [n \in 0 .. 0 |-> f0]
  <2>1. Goes(g, 0)
    OBVIOUS
  <2>2. \E f : Goes(f, 0)
    <3> HIDE DEF Goes, g
    <3> QED BY <2>1
  <2> HIDE DEF Goes
  <2> QED BY <1>0, <2>2
<1>2. ASSUME NEW m \in 1 .. NrLpas, m - 1 \in T PROVE m \in T
  <2> HIDE DEF Step
  <2>1. PICK f : Goes(f, m - 1)
    BY <1>2
  <2>2. m \in Nat /\ m > 0
    BY <1>0
  <2> DEFINE g == [n \in 0 .. m |-> IF n = m THEN Step(f[m - 1], m) ELSE f[n]]
  <2>3. g = [n \in 0 .. m |-> g[n]]
    OBVIOUS
  <2>4. g[0] = f0
    BY <2>1, <2>2
  <2>5. ASSUME NEW n \in 1 .. m PROVE g[n] = Step(g[n - 1], n)
    <3>1. n \in 0 .. m /\ n - 1 \in 0 .. m /\ n - 1 # m
      BY <2>2
    <3>2. g[n - 1] = f[n - 1]
      BY <3>1
    <3>3. CASE n = m
      BY <3>1, <3>2, <3>3
    <3>4. CASE n # m
      <4>1. n \in 1 .. m - 1
        BY <2>2, <3>4
      <4>2. f[n] = Step(f[n - 1], n)
        BY <2>1, <4>1
      <4> QED BY <3>1, <3>2, <3>4, <4>2
    <3> QED BY <3>3, <3>4
  <2>6. Goes(g, m)
    BY <2>3, <2>4, <2>5
  <2>7. \E h : Goes(h, m)
    <3> HIDE DEF Goes, g
    <3> QED BY <2>6
  <2> HIDE DEF Goes
  <2> QED BY <2>7
<1>3. NrLpas \in T
  <2> HIDE DEF T
  <2>1. \A i \in 0 .. NrLpas : i \in T
    BY <1>0, <1>1, <1>2, CountUp
  <2> QED BY <1>0, <2>1
<1>4. PICK g : Goes(g, NrLpas)
  BY <1>3
<1> DEFINE G(after) == after = [n \in 0 .. NrLpas |->
               IF n = 0 THEN flash
               ELSE IF NrLpas - n \in Buffered THEN Program(after[n - 1], entry[NrLpas - n].page)
               ELSE after[n - 1]]
<1>5. G(g)
  <2>1. g = [n \in 0 .. NrLpas |-> g[n]] /\ g[0] = f0
    BY <1>4
  <2>2. ASSUME NEW n \in 0 .. NrLpas
        PROVE  g[n] = IF n = 0 THEN flash
                      ELSE IF NrLpas - n \in Buffered THEN Program(g[n - 1], entry[NrLpas - n].page)
                      ELSE g[n - 1]
    <3>1. CASE n = 0
      BY <1>02, <2>1, <3>1
    <3>2. CASE n # 0
      <4>1. n \in 1 .. NrLpas
        BY <1>0, <3>2
      <4>2. g[n] = Step(g[n - 1], n)
        BY <1>4, <4>1
      <4> QED BY <1>00, <1>01, <3>2, <4>2
    <3> QED BY <3>1, <3>2
  <2> QED BY <2>1, <2>2
<1>6. PICK h : h = CHOOSE after : G(after)
  OBVIOUS
<1>7. G(h)
  <2> HIDE DEF G
  <2> QED BY <1>5, <1>6
<1>8. Programmed = h[NrLpas]
  BY <1>6 DEF Programmed
<1>9. h[0] = flash
  BY <1>0, <1>7
<1>10. \A n \in 1 .. NrLpas :
          h[n] = IF NrLpas - n \in Buffered THEN Program(h[n - 1], entry[NrLpas - n].page) ELSE h[n - 1]
  BY <1>0, <1>7
<1> HIDE DEF G
<1> QED BY <1>8, <1>9, <1>10

\* A flush programs every page it handed out.
LEMMA ProgrammedIs ==
    ASSUME BlockSsdAssumption, FlashSound(flash), DevSound(flash, entry, Buffered)
    PROVE  LET f == Programmed
           IN  /\ FlashSound(f) /\ f.wp = flash.wp /\ f.lpa = flash.lpa /\ f.newest = flash.newest
               /\ DevSound(f, entry, {})
<1>0. NrLpas \in Nat /\ \A l \in Lpas : l \in Nat /\ l < NrLpas
  BY Sizes DEF Lpas
<1>00. Buffered \subseteq Lpas
  BY DEF Buffered
<1>1. PICK h : /\ h[0] = flash /\ Programmed = h[NrLpas]
               /\ \A n \in 1 .. NrLpas :
                     h[n] = IF NrLpas - n \in Buffered
                            THEN Program(h[n - 1], entry[NrLpas - n].page) ELSE h[n - 1]
  BY ProgrammedRuns
<1> DEFINE Left(n) == { l \in Buffered : l < NrLpas - n }
           Sound(f, n) == /\ FlashSound(f) /\ f.wp = flash.wp /\ f.lpa = flash.lpa
                          /\ f.newest = flash.newest /\ DevSound(f, entry, Left(n))
           T == { n \in 0 .. NrLpas : Sound(h[n], n) }
<1>2. 0 \in T
  <2>1. Left(0) = Buffered
    BY <1>0, <1>00
  <2>2. Sound(h[0], 0)
    BY <1>1, <2>1
  <2> HIDE DEF Sound
  <2> QED BY <1>0, <2>2
<1>3. ASSUME NEW n \in 1 .. NrLpas, n - 1 \in T PROVE n \in T
  <2>1. PICK x : x = h[n - 1]
    OBVIOUS
  <2>2. Sound(x, n - 1)
    BY <1>3, <2>1
  <2>3. PICK l : l = NrLpas - n
    OBVIOUS
  <2>4. l \in Lpas /\ l \in Nat /\ NrLpas - (n - 1) = l + 1
    BY <1>0, <2>3 DEF Lpas
  <2>5. PICK B : B = Left(n - 1)
    OBVIOUS
  <2>6. B = { m \in Buffered : m < l + 1 } /\ B \subseteq Lpas
    BY <1>00, <2>4, <2>5
  <2>7. \A m \in B : m <= l
    BY <1>0, <2>4, <2>6
  <2>8. Left(n) = B \ {l}
    <3>1. \A m \in Buffered : m < NrLpas - n <=> m < l + 1 /\ m # l
      BY <1>0, <1>00, <2>3, <2>4
    <3> QED BY <2>6, <3>1
  <2>9. Sound(h[n], n)
    <3> HIDE DEF Left
    <3>1. CASE l \in Buffered
      <4>1. h[n] = Program(x, entry[l].page)
        BY <1>1, <2>1, <2>3, <3>1
      <4>2. l \in B
        BY <2>4, <2>6, <3>1
      <4>3. FlashSound(x) /\ DevSound(x, entry, B)
        BY <2>2, <2>5
      <4>4. /\ FlashSound(h[n]) /\ h[n].wp = x.wp /\ h[n].lpa = x.lpa /\ h[n].newest = x.newest
            /\ DevSound(h[n], entry, B \ {l})
        BY <2>6, <2>7, <4>1, <4>2, <4>3, ProgramIs
      <4> QED BY <2>2, <2>8, <4>4
    <3>2. CASE l \notin Buffered
      <4>1. h[n] = x
        BY <1>1, <2>1, <2>3, <3>2
      <4>2. B \ {l} = B
        BY <2>6, <3>2
      <4> QED BY <2>2, <2>5, <2>8, <4>1, <4>2
    <3> QED BY <3>1, <3>2
  <2> HIDE DEF Sound
  <2> QED BY <1>0, <2>9
<1>4. Sound(Programmed, NrLpas)
  <2>1. NrLpas \in T
    <3> HIDE DEF T
    <3> QED BY <1>0, <1>2, <1>3, CountUp
  <2> HIDE DEF Sound
  <2> QED BY <1>1, <2>1
<1>5. Left(NrLpas) = {}
  BY <1>0, <1>00
<1> HIDE DEF Left
<1> QED BY <1>4, <1>5

-----------------------------------------------------------------------------
(***************************************************************************)
(* What holds whatever GC collects: the LRU and the reads.                 *)
(***************************************************************************)
Parked == [at : {"idle", "list", "complete"}, lpa : Lpas]

\* The program starts with an empty LRU.
LEMMA KeptInit == ASSUME BlockSsdAssumption, BlockInit PROVE KeptInv
<1>1. cache = cache_init /\ waiting = [r \in Readers |-> Idle]
  BY DEF BlockInit
<1>2. IsCache(cache) /\ cache.lru = <<>> /\ cache.pt = {}
  BY <1>1 DEF cache_init, IsCache
<1>3. LruSound(<<>>, {})
  BY DEF LruSound, NodesMatch
<1>4. Idle \in Parked
  <2>1. 0 \in Lpas
    BY Sizes DEF Lpas
  <2> QED BY <2>1 DEF Idle, Parked
<1>5. waiting \in [Readers -> Parked]
  BY <1>1, <1>4
<1> QED BY <1>2, <1>3, <1>5 DEF KeptInv, CacheKept, Parked

\* A full cache always has a victim, so no read or entry meets a NULL.
LEMMA AlwaysVictim ==
    ASSUME BlockSsdAssumption, KeptInv, NEW i \in Victims(cache) PROVE ~NoVictim(i)
BY VictimThere DEF KeptInv, NoVictim

\* A read that resumes or parks is a read.
LEMMA ParkedIs ==
    ASSUME BlockSsdAssumption, waiting \in [Readers -> Parked], NEW r \in Readers
    PROVE  /\ waiting[r].lpa \in Lpas /\ TPageOf(waiting[r].lpa) \in TPages
           /\ [waiting EXCEPT ![r] = Idle] \in [Readers -> Parked]
           /\ [waiting EXCEPT ![r].at = "complete"] \in [Readers -> Parked]
           /\ \A l \in Lpas : [waiting EXCEPT ![r] = [at |-> "list", lpa |-> l]] \in [Readers -> Parked]
<1>1. waiting[r] \in Parked
  OBVIOUS
<1>2. waiting[r].lpa \in Lpas
  BY <1>1 DEF Parked
<1>3. Idle \in Parked
  <2>1. 0 \in Lpas
    BY Sizes DEF Lpas
  <2> QED BY <2>1 DEF Idle, Parked
<1>4. PICK x : x = [waiting[r] EXCEPT !.at = "complete"]
  OBVIOUS
<1>5. x \in Parked
  BY <1>1, <1>4 DEF Parked
<1>6. [waiting EXCEPT ![r].at = "complete"] = [waiting EXCEPT ![r] = x]
  BY <1>4
<1>7. [waiting EXCEPT ![r] = x] \in [Readers -> Parked]
  BY <1>5
<1>8. [waiting EXCEPT ![r] = Idle] \in [Readers -> Parked]
  BY <1>3
<1>9. ASSUME NEW l \in Lpas
      PROVE  [waiting EXCEPT ![r] = [at |-> "list", lpa |-> l]] \in [Readers -> Parked]
  <2>1. [at |-> "list", lpa |-> l] \in Parked
    BY DEF Parked
  <2> QED BY <2>1
<1> QED BY <1>2, <1>6, <1>7, <1>8, <1>9, TPageIs

\* An entry that is listed or mapped keeps the cache.
LEMMA MapEntryKeeps ==
    ASSUME NEW c, CacheKept(c), NEW l, MapEntry(c, l) PROVE CacheKept(cache')
BY SetIs DEF MapEntry

\* The same for an entry whose page is listed first.
LEMMA ListEntryKeeps ==
    ASSUME BlockSsdAssumption, KeptInv, NEW l \in Lpas, ListEntryUp(l) PROVE CacheKept(cache')
<1>1. PICK i \in Victims(cache) :
          IF NoVictim(i) THEN Faults
          ELSE /\ IF WritesBack(cache, i)
                  THEN /\ cache' = list_up(cache, TPageOf(l), i)
                       /\ entry' = [entry EXCEPT ![l].at = "complete"]
                       /\ UNCHANGED flash
                  ELSE MapEntry(list_up(cache, TPageOf(l), i), l)
               /\ UNCHANGED waiting
  BY DEF ListEntryUp
<1>2. ~NoVictim(i)
  BY AlwaysVictim
<1>3. PICK c : c = list_up(cache, TPageOf(l), i)
  OBVIOUS
<1>4. CacheKept(c)
  BY <1>3, TPageIs, ListUpIs DEF KeptInv
<1>5. cache' = c \/ MapEntry(c, l)
  BY <1>1, <1>2, <1>3
<1> QED BY <1>4, <1>5, MapEntryKeeps

\* Every step keeps the LRU and the reads.
LEMMA KeptNext ==
    ASSUME BlockSsdAssumption, KeptInv, [BlockNext]_blockVars PROVE KeptInv'
<1>1. CacheKept(cache) /\ waiting \in [Readers -> Parked]
  BY DEF KeptInv, Parked
<1> SUFFICES CacheKept(cache') /\ waiting' \in [Readers -> Parked]
  BY DEF KeptInv, Parked
<1>2. ASSUME NEW r \in Readers, NEW l \in Lpas, Get(r, l)
      PROVE  CacheKept(cache') /\ waiting' \in [Readers -> Parked]
  <2>1. CacheKept(cache')
    BY <1>1, <1>2, TouchIs DEF Get
  <2>2. waiting' = waiting \/ waiting' = [waiting EXCEPT ![r] = [at |-> "list", lpa |-> l]]
    BY <1>2 DEF Get
  <2>3. [waiting EXCEPT ![r] = [at |-> "list", lpa |-> l]] \in [Readers -> Parked]
    BY <1>1, ParkedIs
  <2> QED BY <1>1, <2>1, <2>2, <2>3
<1>3. ASSUME NEW r \in Readers, GetListUp(r)
      PROVE  CacheKept(cache') /\ waiting' \in [Readers -> Parked]
  <2>1. PICK i \in Victims(cache) :
            IF NoVictim(i) THEN Faults
            ELSE /\ cache' = list_up(cache, TPageOf(waiting[r].lpa), i)
                 /\ waiting' = IF WritesBack(cache, i) THEN [waiting EXCEPT ![r].at = "complete"]
                               ELSE [waiting EXCEPT ![r] = Idle]
                 /\ UNCHANGED <<flash, entry>>
    BY <1>3 DEF GetListUp
  <2>2. ~NoVictim(i)
    BY AlwaysVictim
  <2>3. cache' = list_up(cache, TPageOf(waiting[r].lpa), i) /\ TPageOf(waiting[r].lpa) \in TPages
    BY <1>1, <2>1, <2>2, ParkedIs
  <2>4. CacheKept(cache')
    BY <1>1, <2>3, ListUpIs
  <2> QED BY <1>1, <2>1, <2>2, <2>4, ParkedIs
<1>4. ASSUME NEW r \in Readers, GetComplete(r)
      PROVE  CacheKept(cache') /\ waiting' \in [Readers -> Parked]
  BY <1>1, <1>4, ParkedIs DEF GetComplete
<1>5. ASSUME NEW l \in Lpas, Insert(l)
      PROVE  CacheKept(cache') /\ waiting' \in [Readers -> Parked]
  BY <1>1, <1>5 DEF Insert
<1>6. ASSUME NEW l \in Lpas, FlushStart(l)
      PROVE  CacheKept(cache') /\ waiting' \in [Readers -> Parked]
  <2>1. PICK s : s = [flash |-> flash, cache |-> cache, entry |-> entry,
                   mishaps |-> mishaps]
    OBVIOUS
  <2>2. IsState(s) /\ s.cache = cache
    BY <2>1 DEF IsState
  <2>3. cache' = Assigned(s).cache /\ waiting' = waiting
    BY <1>6, <2>1 DEF FlushStart
  <2>4. CacheKept(Assigned(s).cache)
    BY <1>1, <2>2, AssignedKeeps
  <2> QED BY <1>1, <2>3, <2>4
<1>7. ASSUME NEW l \in Lpas, ListEntryUp(l)
      PROVE  CacheKept(cache') /\ waiting' \in [Readers -> Parked]
  <2>1. waiting' = waiting
    BY <1>7 DEF ListEntryUp, Faults
  <2> QED BY <1>1, <1>7, <2>1, ListEntryKeeps
<1>8. ASSUME Lookup PROVE CacheKept(cache') /\ waiting' \in [Readers -> Parked]
  <2>1. PICK l : l = Min(At("lookup"))
    OBVIOUS
  <2>2. l \in Lpas
    <3>1. At("lookup") \subseteq Nat /\ At("lookup") # {} /\ At("lookup") \subseteq Lpas
      BY <1>8, Sizes DEF Lookup, At
    <3> QED BY <2>1, <3>1, MinIsIn
  <2>3. \/ TPageOf(l) \in cache.pt /\ MapEntry(touch(cache, TPageOf(l)), l) /\ waiting' = waiting
        \/ cache' = cache /\ waiting' = waiting
        \/ ListEntryUp(l)
    BY <1>8, <2>1 DEF Lookup
  <2>4. ASSUME TPageOf(l) \in cache.pt, MapEntry(touch(cache, TPageOf(l)), l) PROVE CacheKept(cache')
    <3>1. CacheKept(touch(cache, TPageOf(l)))
      BY <1>1, <2>4, TouchIs
    <3> QED BY <2>4, <3>1, MapEntryKeeps
  <2> QED BY <1>1, <1>7, <2>2, <2>3, <2>4
<1>9. ASSUME NEW l \in Lpas, EntryListUp(l)
      PROVE  CacheKept(cache') /\ waiting' \in [Readers -> Parked]
  BY <1>7, <1>9 DEF EntryListUp
<1>10. ASSUME NEW l \in Lpas, EntryComplete(l)
       PROVE  CacheKept(cache') /\ waiting' \in [Readers -> Parked]
  BY <1>1, <1>10, MapEntryKeeps DEF EntryComplete
<1>11. ASSUME Flush PROVE CacheKept(cache') /\ waiting' \in [Readers -> Parked]
  BY <1>1, <1>11 DEF Flush
<1>12. CASE UNCHANGED blockVars
  BY <1>1, <1>12 DEF blockVars
<1> QED BY <1>2, <1>3, <1>4, <1>5, <1>6, <1>8, <1>9, <1>10, <1>11, <1>12 DEF BlockNext

-----------------------------------------------------------------------------
(***************************************************************************)
(* What holds unless a GC goes wrong.                                      *)
(***************************************************************************)
\* The block starts empty.
LEMMA StoreInit == ASSUME BlockSsdAssumption, BlockInit PROVE StoreSound(flash, cache, entry) /\ Phases
<1>1. /\ flash = dftl_bm_init /\ cache = cache_init /\ entry = [l \in Lpas |-> Out]
      /\ setting = NoLpa
  BY DEF BlockInit
<1>2. /\ IsFlash(flash) /\ flash.wp = [i \in Sblks |-> 0] /\ flash.free = ESblk - SSblk + 1
      /\ flash.rsv = SSblk /\ flash.next = NoSblk /\ flash.active = NoSblk /\ flash.lpa = <<>>
      /\ flash.dev = [i \in Sblks |-> 0] /\ flash.newest = [l \in Lpas |-> NoPage]
      /\ ~flash.refused /\ ~flash.fault
  BY <1>1 DEF dftl_bm_init, IsFlash
<1>3. SSblk \in Sblks
  BY Sizes DEF Sblks
<1>4. Valid(flash) = {}
  BY <1>2 DEF Valid
<1>5. FlashTypes(flash)
  <2>1. 0 \in 0 .. PagesPerSblk
    BY Sizes
  <2>2. flash.wp \in [Sblks -> 0 .. PagesPerSblk] /\ flash.dev \in [Sblks -> 0 .. PagesPerSblk]
    BY <1>2, <2>1
  <2>3. flash.lpa \in [Valid(flash) -> Lpas]
    BY <1>2, <1>4
  <2>4. flash.newest \in [Lpas -> Pages \cup {NoPage}] /\ flash.free \in Int
    BY <1>2, Sizes
  <2> QED BY <1>2, <1>3, <1>4, <2>2, <2>3, <2>4 DEF FlashTypes
<1>6. Pools(flash)
  <2>1. Erased(flash) = Sblks
    BY <1>2, Sizes DEF Erased
  <2> QED BY <1>2, <1>3, <1>4, <2>1, Sizes DEF Pools
<1>7. /\ IsCache(cache) /\ cache.table = [l \in Lpas |-> NoPage] /\ cache.pt = {}
      /\ cache.dirty = {} /\ cache.lru = <<>>
  BY <1>1 DEF cache_init, IsCache
<1>8. StoredIn(cache) = {} /\ Named(cache) = {}
  BY <1>7 DEF StoredIn, Named
<1>9. CacheSound(cache)
  <2>1. LruSound(<<>>, {})
    BY DEF LruSound, NodesMatch
  <2> QED BY <1>7, <1>8, <2>1 DEF CacheSound, CacheKept, LooksUp
<1>10. EntryTypes(entry)
  BY <1>1 DEF EntryTypes, Out, Stages
<1>11. Given(entry) = {} /\ Pend(entry) = {}
  BY <1>1 DEF Given, Pend, Out
<1>12. PendPages(entry) = {}
  BY <1>11 DEF PendPages
<1>13. MapSound(flash, cache, entry)
  BY <1>4, <1>8, <1>12 DEF MapSound
<1>14. DevSound(flash, entry, Given(entry))
  <2>1. \A i \in Sblks : flash.wp[i] = 0 /\ flash.dev[i] = 0
    BY <1>2
  <2>2. ASSUME NEW p \in Pages, flash.dev[p[1]] <= p[2], p[2] < flash.wp[p[1]] PROVE FALSE
    BY <2>1, <2>2, PageIs
  <2> QED BY <1>11, <2>1, <2>2 DEF DevSound
<1>15. Phases
  BY <1>1 DEF Phases, Flushing
<1> QED BY <1>2, <1>5, <1>6, <1>9, <1>10, <1>13, <1>14, <1>15 DEF StoreSound, FlashSound

\* The cache alone changes, and no mapping.
LEMMA CacheOnly ==
    ASSUME BlockSsdAssumption, NEW f, NEW c, NEW e, StoreSound(f, c, e),
           NEW k, CacheSound(k), k.table = c.table
    PROVE  StoreSound(f, k, e)
BY Untouched DEF StoreSound

\* Entries come and go while none has a page.
LEMMA NoneGiven ==
    ASSUME NEW f, NEW c, NEW e, StoreSound(f, c, e), Given(e) = {},
           NEW d, EntryTypes(d), Given(d) = {}
    PROVE  StoreSound(f, c, d)
<1>1. Pend(e) = {} /\ Pend(d) = {}
  BY DEF Pend, Given
<1>2. PendPages(e) = {} /\ PendPages(d) = {}
  BY <1>1 DEF PendPages
<1>3. MapSound(f, c, d)
  BY <1>2 DEF StoreSound, MapSound
<1>4. DevSound(f, d, Given(d))
  BY DEF StoreSound, DevSound
<1> QED BY <1>3, <1>4 DEF StoreSound

\* An entry waits on the mapping page or on a write.
LEMMA StageIs ==
    ASSUME BlockSsdAssumption, NEW f, NEW c, NEW e, StoreSound(f, c, e), NEW l \in Pend(e),
           NEW st \in {"list", "complete"}, NEW d, d = [e EXCEPT ![l].at = st]
    PROVE  StoreSound(f, c, d)
<1>1. e \in [Lpas -> [at : Stages, page : Pages \cup {NoPage}]] /\ l \in Lpas /\ l \in Given(e)
  BY DEF StoreSound, EntryTypes, Pend, Given
<1>2. PICK x : x = [e[l] EXCEPT !.at = st]
  OBVIOUS
<1>3. x \in [at : Stages, page : Pages \cup {NoPage}] /\ x.page = e[l].page /\ x.at = st
  <2>1. e[l] \in [at : Stages, page : Pages \cup {NoPage}]
    BY <1>1
  <2> QED BY <1>2, <2>1 DEF Stages
<1>4. d = [e EXCEPT ![l] = x]
  BY <1>2
<1>5. EntryTypes(d) /\ d[l].at = st /\ \A m \in Lpas : d[m].page = e[m].page /\ (m # l => d[m] = e[m])
  BY <1>1, <1>3, <1>4 DEF EntryTypes
<1>6. Given(d) = Given(e) /\ Pend(d) = Pend(e)
  BY <1>1, <1>5 DEF Given, Pend
<1>7. PendPages(d) = PendPages(e)
  <2>1. \A m \in Pend(e) : d[m].page = e[m].page
    BY <1>5 DEF Pend
  <2> QED BY <1>6, <2>1 DEF PendPages
<1>8. MapSound(f, c, d)
  BY <1>7 DEF StoreSound, MapSound
<1>9. DevSound(f, d, Given(d))
  <2>1. \A m \in Given(e) : d[m].page = e[m].page
    BY <1>5 DEF Given
  <2>2. DevSound(f, e, Given(e))
    BY DEF StoreSound
  <2>3. \A m \in Given(d) : LET q == d[m].page
                            IN  q \in Pages /\ f.dev[q[1]] <= q[2] /\ q[2] < f.wp[q[1]]
    BY <1>6, <2>1, <2>2 DEF DevSound
  <2>4. \A m, o \in Given(d) : m < o /\ d[m].page[1] = d[o].page[1] => d[o].page[2] < d[m].page[2]
    BY <1>6, <2>1, <2>2 DEF DevSound
  <2>5. ASSUME NEW q \in Pages, f.dev[q[1]] <= q[2], q[2] < f.wp[q[1]]
        PROVE  \E m \in Given(d) : d[m].page = q
    <3>1. PICK m \in Given(e) : e[m].page = q
      BY <2>2, <2>5 DEF DevSound
    <3> QED BY <1>6, <2>1, <3>1
  <2> QED BY <2>2, <2>3, <2>4, <2>5 DEF DevSound
<1> QED BY <1>5, <1>8, <1>9 DEF StoreSound

\* A step that changes the stage of one entry keeps the phase.
LEMMA PhaseIs ==
    ASSUME BlockSsdAssumption, StoreSound(flash, cache, entry), Phases, Flushing, setting' = setting,
           NEW l \in Lpas, NEW st \in Stages \ {"buffer"},
           entry' = [entry EXCEPT ![l].at = st] \/ entry' = entry
    PROVE  Phases'
<1>1. entry \in [Lpas -> [at : Stages, page : Pages \cup {NoPage}]]
  BY DEF StoreSound, EntryTypes
<1>2. \A m \in Lpas : entry'[m].at = entry[m].at \/ entry'[m].at = st
  BY <1>1
<1>3. \A m \in Lpas : entry'[m].at # "buffer"
  BY <1>2 DEF Phases
<1> QED BY <1>3 DEF Phases, Flushing

\* The entry that is mapped.
LEMMA MapEntrySound ==
    ASSUME BlockSsdAssumption, StoreSound(flash, cache, entry), Phases, Flushing, setting' = setting,
           NEW c, CacheSound(c), c.table = cache.table, NEW l \in Pend(entry), MapEntry(c, l)
    PROVE  StoreSound(flash', cache', entry') /\ Phases'
<1>1. StoreSound(flash, c, entry)
  BY CacheOnly
<1>2. l \in Lpas
  BY DEF Pend
<1>3. StoreSound(flash', cache', entry')
  <2>1. PICK p : p = entry[l].page
    OBVIOUS
  <2>2. /\ flash' = MappedTo(flash, c, l, p) /\ cache' = update(c, l, p)
        /\ entry' = [entry EXCEPT ![l].at = "mapped"]
    BY <2>1 DEF MapEntry, MappedTo
  <2> QED BY <1>1, <2>1, <2>2, MapEntryIs
<1>4. Phases'
  <2>1. "mapped" \in Stages \ {"buffer"} /\ entry' = [entry EXCEPT ![l].at = "mapped"]
    BY DEF Stages, MapEntry
  <2> QED BY <1>2, <2>1, PhaseIs
<1> QED BY <1>3, <1>4

\* The entry whose mapping page is listed.
LEMMA ListEntrySound ==
    ASSUME BlockSsdAssumption, KeptInv, StoreSound(flash, cache, entry), Phases, Flushing,
           setting' = setting, NEW l \in Pend(entry), ListEntryUp(l)
    PROVE  StoreSound(flash', cache', entry') /\ Phases'
<1>1. PICK i \in Victims(cache) :
          IF NoVictim(i) THEN Faults
          ELSE /\ IF WritesBack(cache, i)
                  THEN /\ cache' = list_up(cache, TPageOf(l), i)
                       /\ entry' = [entry EXCEPT ![l].at = "complete"]
                       /\ UNCHANGED flash
                  ELSE MapEntry(list_up(cache, TPageOf(l), i), l)
               /\ UNCHANGED waiting
  BY DEF ListEntryUp
<1>2. ~NoVictim(i)
  BY AlwaysVictim
<1>3. PICK c : c = list_up(cache, TPageOf(l), i)
  OBVIOUS
<1>4. l \in Lpas /\ CacheSound(cache) /\ CacheKept(cache)
  BY DEF StoreSound, CacheSound, Pend
<1>5. CacheSound(c) /\ c.table = cache.table
  BY <1>3, <1>4, TPageIs, ListUpIs
<1>6. CASE WritesBack(cache, i)
  <2>1. cache' = c /\ entry' = [entry EXCEPT ![l].at = "complete"] /\ flash' = flash
    BY <1>1, <1>2, <1>3, <1>6
  <2>2. StoreSound(flash, c, entry)
    BY <1>5, CacheOnly
  <2>3. StoreSound(flash, c, entry')
    BY <2>1, <2>2, StageIs
  <2>4. Phases'
    <3>1. "complete" \in Stages \ {"buffer"}
      BY DEF Stages
    <3> QED BY <1>4, <2>1, <3>1, PhaseIs
  <2> QED BY <2>1, <2>3, <2>4
<1>7. CASE ~WritesBack(cache, i)
  <2>1. MapEntry(c, l)
    BY <1>1, <1>2, <1>3, <1>7
  <2> QED BY <1>5, <2>1, MapEntrySound
<1> QED BY <1>6, <1>7

\* Between flushes no entry has a page.
LEMMA ReadyIs ==
    ASSUME Phases, Ready PROVE Given(entry) = {} /\ Pend(entry) = {} /\ ~Flushing
<1>1. ~Flushing /\ \A l \in Lpas : entry[l] = Out \/ entry[l] = [at |-> "buffer", page |-> NoPage]
  BY DEF Phases, Ready
<1>2. \A l \in Lpas : entry[l].at = "out" \/ entry[l].at = "buffer"
  BY <1>1 DEF Out
<1> QED BY <1>1, <1>2 DEF Given, Pend

\* A read changes the cache only.
LEMMA ReadSound ==
    ASSUME BlockSsdAssumption, StoreSound(flash, cache, entry), Phases,
           CacheSound(cache'), cache'.table = cache.table,
           UNCHANGED <<flash, entry, setting>>
    PROVE  StoreSound(flash', cache', entry') /\ Phases'
<1>1. StoreSound(flash, cache', entry)
  BY CacheOnly
<1>2. Phases'
  BY DEF Phases, Flushing
<1> QED BY <1>1, <1>2

\* A write into a buffer with room.
LEMMA InsertSound ==
    ASSUME BlockSsdAssumption, StoreSound(flash, cache, entry), Phases, NEW l \in Lpas, Insert(l)
    PROVE  StoreSound(flash', cache', entry') /\ Phases'
<1>1. /\ Ready /\ UNCHANGED <<flash, cache, setting>>
      /\ entry' = [entry EXCEPT ![l] = [at |-> "buffer", page |-> NoPage]]
  BY DEF Insert
<1>2. Given(entry) = {} /\ ~Flushing
  BY <1>1, ReadyIs
<1>3. entry \in [Lpas -> [at : Stages, page : Pages \cup {NoPage}]]
  BY DEF StoreSound, EntryTypes
<1>4. PICK x : x = [at |-> "buffer", page |-> NoPage]
  OBVIOUS
<1>5. x.at = "buffer" /\ x \in [at : Stages, page : Pages \cup {NoPage}]
  BY <1>4 DEF Stages
<1>6. \A m \in Lpas : entry'[m] = IF m = l THEN x ELSE entry[m]
  BY <1>1, <1>3, <1>4
<1>7. EntryTypes(entry')
  BY <1>1, <1>3, <1>4, <1>5 DEF EntryTypes
<1>8. Given(entry') = {}
  BY <1>2, <1>5, <1>6 DEF Given
<1>9. StoreSound(flash, cache, entry')
  BY <1>2, <1>7, <1>8, NoneGiven
<1>10. Phases'
  <2>1. \A m \in Lpas : entry'[m] = Out \/ entry'[m] = x
    BY <1>2, <1>4, <1>6 DEF Phases
  <2> QED BY <1>1, <1>2, <1>4, <2>1 DEF Phases, Flushing
<1> QED BY <1>1, <1>9, <1>10

\* A flush that no GC hits.
LEMMA FlushStartSound ==
    ASSUME BlockSsdAssumption, StoreSound(flash, cache, entry), Phases, NEW l \in Lpas,
           FlushStart(l), mishaps' = {}
    PROVE  StoreSound(flash', cache', entry') /\ Phases'
<1>1. PICK s : s = [flash |-> flash, cache |-> cache, entry |-> entry,
                   mishaps |-> mishaps]
  OBVIOUS
<1>2. IsState(s) /\ s.flash = flash /\ s.cache = cache /\ s.entry = entry
  BY <1>1 DEF IsState
<1>3. PICK t : t = Assigned(s)
  OBVIOUS
<1>4. /\ Ready /\ Cardinality(Buffered) = MaxWb /\ setting' = l /\ flash' = t.flash
      /\ cache' = t.cache /\ entry' = t.entry /\ mishaps' = t.mishaps
  BY <1>1, <1>3 DEF FlushStart
<1>5. Given(entry) = {} /\ ~Flushing
  BY <1>4, ReadyIs
<1>6. /\ StoreSound(t.flash, t.cache, t.entry)
      /\ \A m \in Lpas : IF m \in Buffered THEN t.entry[m].at = "lookup" ELSE t.entry[m] = entry[m]
  <2>1. Well(t) /\ StoreSound(s.flash, s.cache, s.entry)
    BY <1>2, <1>4 DEF Well
  <2> QED BY <1>2, <1>3, <1>4, <1>5, <2>1, AssignedIs
<1>7. Phases'
  <2>1. \A m \in Lpas : entry'[m].at # "buffer"
    BY <1>4, <1>6 DEF Buffered
  <2>2. l # NoLpa
    BY Sizes DEF NoLpa
  <2> QED BY <1>4, <2>1, <2>2 DEF Phases, Flushing
<1> QED BY <1>4, <1>6, <1>7

\* The flush ends, and every page is programmed.
LEMMA FlushSoundAfter ==
    ASSUME BlockSsdAssumption, StoreSound(flash, cache, entry), Phases, Flush
    PROVE  StoreSound(flash', cache', entry') /\ Phases'
<1>1. /\ Flushing /\ Buffered = At("mapped") /\ flash' = Programmed /\ cache' = cache
      /\ entry' = [l \in Lpas |-> IF l = setting THEN [at |-> "buffer", page |-> NoPage] ELSE Out]
      /\ setting' = NoLpa
  BY DEF Flush, Mapping
<1>2. /\ FlashSound(flash) /\ DevSound(flash, entry, Given(entry)) /\ MapSound(flash, cache, entry)
      /\ CacheSound(cache)
  BY DEF StoreSound
<1>3. Pend(entry) = {} /\ Given(entry) = Buffered
  <2>1. \A l \in Lpas : entry[l].at # "out" => entry[l].at = "mapped"
    BY <1>1 DEF Buffered, At
  <2>2. \A l \in Lpas : entry[l].at # "out" <=> l \in Buffered
    BY DEF Buffered
  <2>3. Buffered \subseteq Lpas
    BY DEF Buffered
  <2> QED BY <2>1, <2>2, <2>3 DEF Pend, Given
<1>4. /\ FlashSound(flash') /\ flash'.wp = flash.wp /\ flash'.lpa = flash.lpa
      /\ flash'.newest = flash.newest /\ DevSound(flash', entry, {})
  BY <1>1, <1>2, <1>3, ProgrammedIs
<1>5. PICK x : x = [at |-> "buffer", page |-> NoPage]
  OBVIOUS
<1>6. \A l \in Lpas : entry'[l] = Out \/ entry'[l] = x
  BY <1>1, <1>5
<1>7. x \in [at : Stages, page : Pages \cup {NoPage}] /\ Out \in [at : Stages, page : Pages \cup {NoPage}]
  BY <1>5 DEF Stages, Out
<1>8. EntryTypes(entry')
  BY <1>1, <1>5, <1>7 DEF EntryTypes
<1>9. Given(entry') = {} /\ Pend(entry') = {}
  <2>1. \A l \in Lpas : entry'[l].at = "out" \/ entry'[l].at = "buffer"
    BY <1>5, <1>6 DEF Out
  <2> QED BY <2>1 DEF Given, Pend
<1>10. MapSound(flash', cache, entry')
  <2>1. PendPages(entry') = {} /\ PendPages(entry) = {}
    BY <1>3, <1>9 DEF PendPages
  <2>2. Valid(flash') = Valid(flash)
    BY <1>4 DEF Valid
  <2> QED BY <1>2, <1>4, <2>1, <2>2 DEF MapSound
<1>11. DevSound(flash', entry', Given(entry'))
  BY <1>4, <1>9 DEF DevSound
<1>12. Phases'
  BY <1>1, <1>5, <1>6 DEF Phases, Flushing
<1> QED BY <1>1, <1>2, <1>4, <1>8, <1>10, <1>11, <1>12 DEF StoreSound

\* A lookup of the smallest entry.
LEMMA LookupSound ==
    ASSUME BlockSsdAssumption, KeptInv, StoreSound(flash, cache, entry), Phases, Lookup
    PROVE  StoreSound(flash', cache', entry') /\ Phases'
<1>1. PICK l : l = Min(At("lookup"))
  OBVIOUS
<1>2. l \in Pend(entry) /\ l \in Lpas
  <2>1. At("lookup") \subseteq Nat /\ At("lookup") # {}
    BY Sizes DEF Lookup, At
  <2>2. l \in At("lookup")
    BY <1>1, <2>1, MinIsIn
  <2> QED BY <2>2 DEF At, Pend
<1>3. /\ Flushing /\ setting' = setting
      /\ \/ TPageOf(l) \in cache.pt /\ MapEntry(touch(cache, TPageOf(l)), l)
         \/ entry' = [entry EXCEPT ![l].at = "list"] /\ flash' = flash /\ cache' = cache
         \/ ListEntryUp(l)
  BY <1>1 DEF Lookup, Mapping
<1>4. CASE TPageOf(l) \in cache.pt /\ MapEntry(touch(cache, TPageOf(l)), l)
  <2>1. PICK c : c = touch(cache, TPageOf(l))
    OBVIOUS
  <2>2. CacheSound(cache) /\ CacheKept(cache)
    BY DEF StoreSound, CacheSound
  <2>3. CacheSound(c) /\ c.table = cache.table
    BY <1>4, <2>1, <2>2, TouchIs
  <2> QED BY <1>2, <1>3, <1>4, <2>1, <2>3, MapEntrySound
<1>5. CASE entry' = [entry EXCEPT ![l].at = "list"] /\ flash' = flash /\ cache' = cache
  <2>1. StoreSound(flash, cache, entry')
    BY <1>2, <1>5, StageIs
  <2>2. "list" \in Stages \ {"buffer"}
    BY DEF Stages
  <2> QED BY <1>2, <1>3, <1>5, <2>1, <2>2, PhaseIs
<1>6. CASE ListEntryUp(l)
  BY <1>2, <1>3, <1>6, ListEntrySound
<1> QED BY <1>3, <1>4, <1>5, <1>6

\* Every step keeps the store sound unless a GC goes wrong.
LEMMA SoundNext ==
    ASSUME BlockSsdAssumption, KeptInv, BlockInv, [BlockNext]_blockVars PROVE BlockInv'
<1> SUFFICES ASSUME mishaps' = {} PROVE StoreSound(flash', cache', entry') /\ Phases'
  BY DEF BlockInv
<1>1. mishaps = {}
  <2>1. BlockNext \/ UNCHANGED blockVars
    OBVIOUS
  <2>2. CASE UNCHANGED blockVars
    BY <2>2 DEF blockVars
  <2>3. CASE BlockNext
    BY <2>3 DEF BlockNext, Get, GetListUp, GetComplete, Insert, FlushStart, Lookup, EntryListUp,
                EntryComplete, Flush
  <2> QED BY <2>1, <2>2, <2>3
<1>2. StoreSound(flash, cache, entry) /\ Phases
  BY <1>1 DEF BlockInv
<1>3. CacheSound(cache) /\ CacheKept(cache) /\ waiting \in [Readers -> Parked]
  BY <1>2 DEF StoreSound, CacheSound, KeptInv, Parked
<1>4. ASSUME NEW r \in Readers, NEW l \in Lpas, Get(r, l)
      PROVE  StoreSound(flash', cache', entry') /\ Phases'
  <2>1. CacheSound(cache') /\ cache'.table = cache.table
    BY <1>3, <1>4, TouchIs DEF Get
  <2>2. UNCHANGED <<flash, entry, setting>>
    BY <1>4 DEF Get
  <2> QED BY <1>2, <2>1, <2>2, ReadSound
<1>5. ASSUME NEW r \in Readers, GetListUp(r)
      PROVE  StoreSound(flash', cache', entry') /\ Phases'
  <2>1. PICK i \in Victims(cache) :
            IF NoVictim(i) THEN Faults
            ELSE /\ cache' = list_up(cache, TPageOf(waiting[r].lpa), i)
                 /\ waiting' = IF WritesBack(cache, i) THEN [waiting EXCEPT ![r].at = "complete"]
                               ELSE [waiting EXCEPT ![r] = Idle]
                 /\ UNCHANGED <<flash, entry>>
    BY <1>5 DEF GetListUp
  <2>2. ~NoVictim(i)
    BY AlwaysVictim
  <2>3. cache' = list_up(cache, TPageOf(waiting[r].lpa), i) /\ TPageOf(waiting[r].lpa) \in TPages
    BY <1>3, <2>1, <2>2, ParkedIs
  <2>4. CacheSound(cache') /\ cache'.table = cache.table
    BY <1>3, <2>3, ListUpIs
  <2>5. UNCHANGED <<flash, entry, setting>>
    BY <1>5, <2>1, <2>2 DEF GetListUp
  <2> QED BY <1>2, <2>4, <2>5, ReadSound
<1>6. ASSUME NEW r \in Readers, GetComplete(r)
      PROVE  StoreSound(flash', cache', entry') /\ Phases'
  <2>1. UNCHANGED <<flash, entry, setting>> /\ cache' = cache
    BY <1>6 DEF GetComplete
  <2> QED BY <1>2, <1>3, <2>1, ReadSound
<1>7. ASSUME NEW l \in Lpas, EntryListUp(l) PROVE StoreSound(flash', cache', entry') /\ Phases'
  <2>1. l \in Pend(entry) /\ Flushing /\ setting' = setting /\ ListEntryUp(l)
    BY <1>7 DEF EntryListUp, Mapping, Pend
  <2> QED BY <1>2, <2>1, ListEntrySound
<1>8. ASSUME NEW l \in Lpas, EntryComplete(l) PROVE StoreSound(flash', cache', entry') /\ Phases'
  <2>1. l \in Pend(entry) /\ Flushing /\ setting' = setting /\ MapEntry(cache, l)
    BY <1>8 DEF EntryComplete, Mapping, Pend
  <2> QED BY <1>2, <1>3, <2>1, MapEntrySound
<1>9. ASSUME NEW l \in Lpas, Insert(l) PROVE StoreSound(flash', cache', entry') /\ Phases'
  BY <1>2, <1>9, InsertSound
<1>10. ASSUME NEW l \in Lpas, FlushStart(l) PROVE StoreSound(flash', cache', entry') /\ Phases'
  BY <1>2, <1>10, FlushStartSound
<1>11. ASSUME Lookup PROVE StoreSound(flash', cache', entry') /\ Phases'
  BY <1>2, <1>11, LookupSound
<1>12. ASSUME Flush PROVE StoreSound(flash', cache', entry') /\ Phases'
  BY <1>2, <1>12, FlushSoundAfter
<1>13. CASE UNCHANGED blockVars
  BY <1>2, <1>13 DEF blockVars, Phases, Flushing
<1> QED BY <1>4, <1>5, <1>6, <1>7, <1>8, <1>9, <1>10, <1>11, <1>12, <1>13 DEF BlockNext

-----------------------------------------------------------------------------
(***************************************************************************)
(* The theorems.                                                           *)
(***************************************************************************)
\* The LRU and the reads are kept, and unless a GC collects a page of the flush that called
\* it or frees gc_bucket twice, mappings, oobs, write pointers and the device agree.
THEOREM BlockInvariant == BlockSsdAssumption => (BlockSpec => [](KeptInv /\ BlockInv))
<1> SUFFICES ASSUME BlockSsdAssumption PROVE BlockSpec => [](KeptInv /\ BlockInv)
  OBVIOUS
<1>1. BlockInit => KeptInv /\ BlockInv
  BY KeptInit, StoreInit DEF BlockInv
<1>2. KeptInv /\ BlockInv /\ [BlockNext]_blockVars => (KeptInv /\ BlockInv)'
  BY KeptNext, SoundNext
<1> QED BY <1>1, <1>2, PTL DEF BlockSpec

\* GetIsRight: between flushes a read of the block gets the newest value that was flushed,
\* through every eviction and GC of dftl_cache.c and dftl_pg.c, nothing aborts and the
\* device takes every page, unless a GC collects a page of the flush that called it
\* or frees the gc_bucket of an earlier one again.
THEOREM ReadsAreRight == BlockSsdAssumption => (BlockSpec => []GetIsRight)
<1> SUFFICES ASSUME BlockSsdAssumption PROVE BlockSpec => []GetIsRight
  OBVIOUS
<1>1. ASSUME KeptInv, BlockInv PROVE GetIsRight
  <2> SUFFICES ASSUME mishaps = {}
               PROVE  /\ ~flash.fault /\ ~flash.refused
                      /\ Ready => /\ Valid(flash) = { cache.table[l] : l \in Stored }
                                  /\ \A l \in Stored :
                                        LET p == cache.table[l]
                                        IN  /\ p = flash.newest[l] /\ flash.lpa[p] = l
                                            /\ p[2] < flash.dev[p[1]] /\ Reached(l)
    BY DEF GetIsRight
  <2>1. /\ StoreSound(flash, cache, entry) /\ Phases /\ FlashSound(flash) /\ FlashTypes(flash)
        /\ Pools(flash) /\ CacheSound(cache) /\ MapSound(flash, cache, entry)
        /\ DevSound(flash, entry, Given(entry))
    BY <1>1 DEF BlockInv, StoreSound, FlashSound
  <2>2. Stored = StoredIn(cache) /\ { cache.table[l] : l \in Stored } = Named(cache)
    BY DEF Stored, StoredIn, Named
  <2>3. ASSUME Ready PROVE Valid(flash) = Named(cache)
    <3>1. Pend(entry) = {}
      BY <2>1, <2>3, ReadyIs
    <3>2. PendPages(entry) = {}
      BY <3>1 DEF PendPages
    <3> QED BY <2>1, <3>2 DEF MapSound
  <2>4. ASSUME Ready, NEW l \in StoredIn(cache), NEW p, p = cache.table[l]
        PROVE  /\ p = flash.newest[l] /\ flash.lpa[p] = l /\ p[2] < flash.dev[p[1]] /\ Reached(l)
    <3>1. p = flash.newest[l] /\ flash.lpa[p] = l /\ p \in Valid(flash)
      BY <2>1, <2>4 DEF MapSound, Named
    <3>2. p \in Pages /\ p[1] \in Sblks /\ p[2] \in Nat /\ p[2] < flash.wp[p[1]]
      BY <2>1, <3>1, PageIs DEF FlashTypes, Pools
    <3>3. flash.dev[p[1]] \in Nat
      BY <2>1, <3>2, WpIs
    <3>4. Given(entry) = {}
      BY <2>1, <2>4, ReadyIs
    <3>5. ~(flash.dev[p[1]] <= p[2])
      BY <2>1, <3>2, <3>4 DEF DevSound
    <3>6. Reached(l)
      BY <2>1, <2>4 DEF CacheSound, LooksUp, Backed, Reached
    <3> QED BY <3>1, <3>2, <3>3, <3>5, <3>6
  <2>5. ~flash.fault /\ ~flash.refused
    BY <2>1 DEF FlashSound
  <2> QED BY <2>2, <2>3, <2>4, <2>5
<1> QED BY <1>1, BlockInvariant, PTL

\* NodesSound: a page of the mapping cache has one node of its own in the LRU exactly while
\* it is cached, and the head is a node of a cached page, so lru_pop_hot finds a victim.
THEOREM NodesStaySound == BlockSsdAssumption => (BlockSpec => []NodesSound)
<1> SUFFICES ASSUME BlockSsdAssumption PROVE BlockSpec => []NodesSound
  OBVIOUS
<1>1. ASSUME KeptInv, BlockInv PROVE NodesSound
  <2>1. LruSound(cache.lru, cache.pt) /\ NodesMatch(cache.lru, cache.pt)
    BY <1>1 DEF KeptInv, CacheKept, LruSound
  <2>2. ASSUME NEW x \in TPages
        PROVE  Cardinality(Owned(x)) = IF x \in cache.pt THEN 1 ELSE 0
    <3>1. Owned(x) = { i \in DOMAIN cache.lru : cache.lru[i] = OwnNode(x) }
      BY DEF Owned, OwnNode
    <3>2. CASE x \in cache.pt
      <4>1. PICK i \in DOMAIN cache.lru : cache.lru[i] = OwnNode(x)
        BY <2>1, <3>2 DEF NodesMatch
      <4>2. Owned(x) = {i}
        BY <2>1, <3>1, <4>1 DEF NodesMatch
      <4>3. Cardinality(Owned(x)) = 1
        BY <4>2, FS_Singleton
      <4> QED BY <3>2, <4>3
    <3>3. CASE x \notin cache.pt
      <4>1. Owned(x) = {}
        BY <2>1, <3>1, <3>3 DEF NodesMatch
      <4>2. Cardinality(Owned(x)) = 0
        BY <4>1, FS_EmptySet
      <4> QED BY <3>3, <4>2
    <3> QED BY <3>2, <3>3
  <2> QED BY <2>1, <2>2 DEF NodesSound, LruSound
<1> QED BY <1>1, BlockInvariant, PTL

=============================================================================
