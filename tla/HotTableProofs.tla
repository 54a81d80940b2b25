---------------------------- MODULE HotTableProofs ---------------------------
(***************************************************************************)
(* The hot table and the memory of HotTable, proved for every number of    *)
(* pages and entries, every length of the probing, every split of the      *)
(* memory and every bound on the ghosts.                                   *)
(*                                                                         *)
(* All loops over the table go slot by slot, and each change of a slot is  *)
(* one Put.  What a Put does to the counts is shown once; the loops keep   *)
(* what each of their steps keeps.                                         *)
(***************************************************************************)
EXTENDS HotTable, FiniteSetTheorems, SequenceTheorems, WellFoundedInduction, TLAPS

\* What a slot may hold: nothing, or an entry of an lpa.
Held == [lpa : HotLpas, ppa : Nat, state : Heats]
SlotSet == Held \cup {Empty}

\* A table of P pages, whatever its counters say.
Tables(P) == [slot : [Slots -> SlotSet], pages : {P}, live : [Heats -> Int], valid : Int,
              blocked : Int, hotEvict : Int, coldEvict : Int]

Used(h) == { x \in Slots : h.slot[x] # Empty }
OfHeat(h, s) == { x \in Used(h) : h.slot[x].state = s }

\* Nothing lies beyond the pages in use.
Within(h) == \A x \in Used(h) : x < HotEntries(h)

\* The histogram counts the entries of each heat.
HeatsExact(h) == \A s \in Heats : h.live[s] = Cardinality(OfHeat(h, s))

\* The counts are those of what the table holds.
Counted(h) == Within(h) /\ HeatsExact(h) /\ h.valid >= Cardinality(Used(h))

\* A table of P pages whose counts are right.
Sound(h, P) == h \in Tables(P) /\ P \in Chunk .. HotCap /\ Counted(h)

\* The ghosts: the counter is that of the marks.
GhostSet == [marks : SUBSET Pages, nr : Nat, fifo : Seq(Pages), rr : Pages]
IsGhosts(g) == g \in GhostSet /\ g.nr = Cardinality(g.marks)

\* The LRU lists pages, each once.
IsLru(l) ==
    /\ l \in Seq(Pages)
    /\ \A i, j \in 1 .. Len(l) : l[i] = l[j] => i = j

\* Each page of the memory is in one part, and the hot and the cold part keep their least.
IsSplit(h, c, k) ==
    /\ c \in Nat /\ Chunk <= c
    /\ c + h.pages + (IF k THEN KeyChunk ELSE 0) = Total

\* A request that waits waits for an lpa.
ReqSet == [op : {"idle", "read", "write", "update"}, lpa : HotLpas \cup {None}]
Waits(v) == v \in ReqSet /\ (v.op # "idle" => v.lpa \in HotLpas)
Requests(q) == q \in [Reqs -> ReqSet] /\ \A r \in Reqs : q[r].op # "idle" => q[r].lpa \in HotLpas

\* The resident pages are no ghosts, the counter is at least their number, and above 0 only
\* when there are some: a page taken out to make room is replaced.
Resident(l, g, k) ==
    /\ IsLru(l) /\ Len(l) <= k /\ (k > 0 => l # <<>>)
    /\ \A i \in 1 .. Len(l) : l[i] \notin g.marks

HotInv ==
    /\ pt \in [HotLpas -> Nat] /\ cnt \in [HotLpas -> Heats] /\ Requests(req)
    /\ keys \in BOOLEAN /\ nr \in Nat
    /\ Sound(hot, hot.pages) /\ IsSplit(hot, cold, keys)
    /\ IsGhosts(ghost) /\ Resident(lru, ghost, nr)

-----------------------------------------------------------------------------
(***************************************************************************)
(* Numbers.                                                                *)
(***************************************************************************)
\* Every non-empty set of naturals has a least element.
LEMMA LeastOne ==
    ASSUME NEW T \in SUBSET Nat, T # {} PROVE \E x \in T : \A y \in T : x <= y
<1>1. PICK x \in T : \A y \in T : ~(<<y, x>> \in OpToRel(<, Nat))
  BY NatLessThanWellFounded, WFMin
<1>2. \A y \in T : ~(y < x)
  BY <1>1 DEF OpToRel
<1> QED BY <1>2

\* Min of a non-empty set of naturals is one of them.
LEMMA MinIsIn == ASSUME NEW T \in SUBSET Nat, T # {} PROVE Min(T) \in T
BY LeastOne DEF Min

\* What holds at 0 and goes on to the next number holds up to n.
LEMMA CountUp ==
    ASSUME NEW n \in Nat, NEW T, 0 \in T, \A i \in 1 .. n : i - 1 \in T => i \in T
    PROVE  \A i \in 0 .. n : i \in T
<1> DEFINE Bad == { i \in 0 .. n : i \notin T }
<1> SUFFICES ASSUME Bad # {} PROVE FALSE
  OBVIOUS
<1>1. Bad \in SUBSET Nat
  OBVIOUS
<1>2. PICK m \in Bad : \A y \in Bad : m <= y
  BY <1>1, LeastOne
<1>3. m \in 0 .. n /\ m \notin T
  OBVIOUS
<1>4. m # 0
  BY <1>3
<1>5. m \in 1 .. n /\ m - 1 \in 0 .. n /\ ~(m <= m - 1)
  BY <1>3, <1>4
<1>6. m - 1 \notin Bad
  <2> HIDE DEF Bad
  <2> QED BY <1>2, <1>5
<1> QED BY <1>3, <1>5, <1>6

\* Multiples of a positive number are in the order of the factors.
LEMMA Multiples ==
    ASSUME NEW e \in Nat, e > 0, NEW a \in Nat, NEW b \in Nat, a < b
    PROVE  a * e \in Nat /\ b * e \in Nat /\ a * e + e <= b * e
<1>1. PICK c \in Nat : b = a + 1 + c
  <2>1. b - a - 1 \in Nat /\ b = a + 1 + (b - a - 1)
    OBVIOUS
  <2> QED BY <2>1
<1>2. a * e \in Nat /\ c * e \in Nat
  OBVIOUS
<1>3. b * e = a * e + e + c * e
  BY <1>1
<1> QED BY <1>2, <1>3

\* The constants as the proofs use them.
LEMMA Sizes ==
    ASSUME HotTableAssumption
    PROVE  /\ NrPages \in Nat /\ NrPages > 0 /\ EPP \in Nat /\ EPP > 0
           /\ Total \in Nat /\ HotCap \in Nat /\ HotCap > 0 /\ Chunk \in Nat /\ Chunk > 0
           /\ 2 * Chunk <= Total /\ Chunk <= HotCap
           /\ KeyChunk \in Nat /\ MaxProbe \in Nat /\ MaxProbe > 0
           /\ RehashProbe \in Nat /\ RehashProbe > 0
           /\ Warm \in Nat /\ Warm > 0 /\ MaxHeat \in Nat /\ Warm < MaxHeat
           /\ Asked \subseteq HotLpas
BY DEF HotTableAssumption, HotLpas

\* The slots in use are a part of the slots there are.
LEMMA SlotsInUse ==
    ASSUME HotTableAssumption, NEW h, h.pages \in Chunk .. HotCap
    PROVE  /\ h.pages \in Nat /\ h.pages > 0
           /\ HotEntries(h) \in Nat /\ HotEntries(h) > 0
           /\ 0 .. HotEntries(h) - 1 \subseteq Slots
           /\ HotCap * EPP \in Nat /\ HotEntries(h) <= HotCap * EPP
<1>1. h.pages \in Nat /\ h.pages > 0 /\ h.pages <= HotCap
  BY Sizes
<1>2. h.pages * EPP \in Nat /\ h.pages * EPP >= EPP
  BY Sizes, <1>1, Multiples, 0 * EPP = 0
<1>3. HotCap * EPP \in Nat /\ h.pages * EPP <= HotCap * EPP
  <2>1. CASE h.pages = HotCap
    BY <2>1, <1>2
  <2>2. CASE h.pages # HotCap
    <3>1. h.pages < HotCap
      BY <1>1, <2>2, Sizes
    <3> QED BY <3>1, <1>1, Sizes, Multiples
  <2> QED BY <2>1, <2>2
<1> QED BY <1>1, <1>2, <1>3, Sizes DEF HotEntries, Slots

\* The lpas of a page.
LEMMA LpasOfPage ==
    ASSUME HotTableAssumption, NEW p \in Pages, NEW i \in 1 .. EPP
    PROVE  p * EPP + i - 1 \in HotLpas
<1>1. p \in Nat /\ p < NrPages
  BY Sizes DEF Pages
<1>2. p * EPP \in Nat /\ p * EPP + EPP <= NrPages * EPP /\ NrPages * EPP \in Nat
  BY <1>1, Sizes, Multiples
<1> QED BY <1>2, Sizes DEF HotLpas

\* The page of an lpa.
LEMMA PageOfLpa ==
    ASSUME HotTableAssumption, NEW l \in HotLpas PROVE PageOf(l) \in Pages
<1>1. NrPages * EPP \in Nat
  BY Sizes
<1>2. l \in Nat /\ l < NrPages * EPP
  BY <1>1 DEF HotLpas
<1>3. PICK q : q = l \div EPP
  OBVIOUS
<1>4. q \in Nat /\ q * EPP <= l
  BY <1>2, <1>3, Sizes
<1>5. q < NrPages
  <2> SUFFICES ASSUME ~(q < NrPages) PROVE FALSE
    OBVIOUS
  <2>1. CASE q = NrPages
    BY <2>1, <1>1, <1>2, <1>4
  <2>2. CASE NrPages < q
    <3>1. NrPages * EPP + EPP <= q * EPP /\ q * EPP \in Nat
      BY <2>2, <1>4, Sizes, Multiples
    <3> QED BY <3>1, <1>1, <1>2, <1>4, Sizes
  <2> QED BY <2>1, <2>2, <1>4, Sizes
<1> QED BY <1>3, <1>4, <1>5, Sizes DEF PageOf, Pages

-----------------------------------------------------------------------------
(***************************************************************************)
(* Loops.                                                                  *)
(***************************************************************************)
\* The step of a loop of n turns that stays within S: from a state and the number of the
\* turn to the next state.
IsStep(F, S, n) == F \in [S \X (1 .. n) -> S]

\* g gives the state after each turn.
Follows(g, F, S, n, first) ==
    /\ g \in [0 .. n -> S] /\ g[0] = first
    /\ \A i \in 1 .. n : g[i] = F[<<g[i - 1], i>>]

\* Each such loop has such a function.
LEMMA LoopExists ==
    ASSUME NEW S, NEW n \in Nat, NEW first \in S, NEW F, IsStep(F, S, n)
    PROVE  \E g : Follows(g, F, S, n, first)
<1>0. F \in [S \X (1 .. n) -> S]
  BY DEF IsStep
<1> DEFINE Goes(g, m) == /\ g \in [0 .. m -> S] /\ g[0] = first
                         /\ \A i \in 1 .. m : g[i] = F[<<g[i - 1], i>>]
           T == { m \in 0 .. n : \E g : Goes(g, m) }
<1>1. 0 \in T
  <2> DEFINE g == [i \in 0 .. 0 |-> first]
  <2>1. Goes(g, 0)
    OBVIOUS
  <2>2. \E f : Goes(f, 0)
    <3> HIDE DEF Goes, g
    <3> QED BY <2>1
  <2> HIDE DEF Goes
  <2> QED BY <2>2
<1>2. ASSUME NEW m \in 1 .. n, m - 1 \in T PROVE m \in T
  <2>1. PICK f : Goes(f, m - 1)
    BY <1>2
  <2>2. m \in Nat /\ m > 0
    OBVIOUS
  <2> DEFINE g == [i \in 0 .. m |-> IF i = m THEN F[<<f[m - 1], m>>] ELSE f[i]]
  <2>3. f[m - 1] \in S /\ F[<<f[m - 1], m>>] \in S
    BY <1>0, <2>1, <2>2
  <2>4. g \in [0 .. m -> S]
    BY <2>1, <2>2, <2>3
  <2>5. g[0] = first
    BY <2>1, <2>2
  <2>6. ASSUME NEW i \in 1 .. m PROVE g[i] = F[<<g[i - 1], i>>]
    <3>1. i \in 0 .. m /\ i - 1 \in 0 .. m /\ i - 1 # m
      BY <2>2
    <3>2. g[i - 1] = f[i - 1]
      BY <3>1
    <3>3. CASE i = m
      BY <3>1, <3>2, <3>3
    <3>4. CASE i # m
      <4>1. i \in 1 .. m - 1
        BY <2>2, <3>4
      <4>2. f[i] = F[<<f[i - 1], i>>]
        BY <2>1, <4>1
      <4> QED BY <3>1, <3>2, <3>4, <4>2
    <3> QED BY <3>3, <3>4
  <2>7. Goes(g, m)
    BY <2>4, <2>5, <2>6
  <2>8. \E e : Goes(e, m)
    <3> HIDE DEF Goes, g
    <3> QED BY <2>7
  <2> HIDE DEF Goes
  <2> QED BY <2>8
<1>3. n \in T
  <2> HIDE DEF T
  <2>1. \A i \in 0 .. n : i \in T
    BY <1>1, <1>2, CountUp
  <2> QED BY <2>1
<1> QED BY <1>3 DEF Follows

\* A function that follows the loop stays within S.
LEMMA LoopStays ==
    ASSUME NEW S, NEW n \in Nat, NEW F, IsStep(F, S, n), NEW f, f[0] \in S,
           \A i \in 1 .. n : f[i - 1] \in S => f[i] = F[<<f[i - 1], i>>]
    PROVE  \A i \in 0 .. n : f[i] \in S
<1>0. F \in [S \X (1 .. n) -> S]
  BY DEF IsStep
<1> DEFINE T == { i \in 0 .. n : f[i] \in S }
<1>1. 0 \in T
  OBVIOUS
<1>2. \A i \in 1 .. n : i - 1 \in T => i \in T
  <2> SUFFICES ASSUME NEW i \in 1 .. n, i - 1 \in T PROVE i \in T
    OBVIOUS
  <2>1. f[i - 1] \in S /\ f[i] = F[<<f[i - 1], i>>] /\ i \in 0 .. n
    OBVIOUS
  <2>2. F[<<f[i - 1], i>>] \in S
    BY <1>0, <2>1
  <2> QED BY <2>1, <2>2
<1>3. \A i \in 0 .. n : i \in T
  <2> HIDE DEF T
  <2> QED BY <1>1, <1>2, CountUp
<1> QED BY <1>3

-----------------------------------------------------------------------------
(***************************************************************************)
(* One slot changes.                                                       *)
(***************************************************************************)
\* The fields of a table.
LEMMA TableFields ==
    ASSUME NEW P, NEW h, h \in Tables(P)
    PROVE  /\ h = [slot |-> h.slot, pages |-> h.pages, live |-> h.live, valid |-> h.valid,
                   blocked |-> h.blocked, hotEvict |-> h.hotEvict, coldEvict |-> h.coldEvict]
           /\ h.slot \in [Slots -> SlotSet] /\ h.pages = P /\ h.live \in [Heats -> Int]
           /\ h.valid \in Int /\ h.blocked \in Int /\ h.hotEvict \in Int /\ h.coldEvict \in Int
BY DEF Tables

\* What a slot holds is an entry unless it is empty, and an entry has an lpa.
LEMMA SlotHolds ==
    ASSUME NEW e, e \in SlotSet
    PROVE  /\ e # Empty => e \in Held /\ e.lpa \in HotLpas /\ e.ppa \in Nat /\ e.state \in Heats
           /\ e = Empty => e.lpa = None /\ e.state = 0
           /\ e = Empty <=> e.lpa \notin HotLpas
<1>1. None \notin HotLpas
  BY DEF None, HotLpas
<1>2. ASSUME e \in Held PROVE e.lpa \in HotLpas /\ e.ppa \in Nat /\ e.state \in Heats
  BY <1>2 DEF Held
<1>3. Empty.lpa = None /\ Empty.state = 0
  BY DEF Empty
<1>4. CASE e = Empty
  BY <1>1, <1>3, <1>4
<1>5. CASE e # Empty
  <2>1. e \in Held
    BY <1>5 DEF SlotSet
  <2> QED BY <1>2, <1>5, <2>1
<1> QED BY <1>4, <1>5

\* A Put changes one slot and the histogram.
LEMMA PutShape ==
    ASSUME NEW P, NEW h, h \in Tables(P), NEW s \in Slots, NEW e, e \in SlotSet
    PROVE  /\ Put(h, s, e) \in Tables(P)
           /\ Put(h, s, e).slot = [h.slot EXCEPT ![s] = e]
           /\ Put(h, s, e).valid = h.valid
           /\ Put(h, s, e).blocked = h.blocked
           /\ Put(h, s, e).hotEvict = h.hotEvict /\ Put(h, s, e).coldEvict = h.coldEvict
           /\ \A z \in Heats :
                 Put(h, s, e).live[z] =
                     h.live[z] - (IF h.slot[s] # Empty /\ h.slot[s].state = z THEN 1 ELSE 0)
                               + (IF e # Empty /\ e.state = z THEN 1 ELSE 0)
<1>1. /\ h = [slot |-> h.slot, pages |-> h.pages, live |-> h.live, valid |-> h.valid,
              blocked |-> h.blocked, hotEvict |-> h.hotEvict, coldEvict |-> h.coldEvict]
      /\ h.slot \in [Slots -> SlotSet] /\ h.pages = P /\ h.live \in [Heats -> Int]
      /\ h.valid \in Int /\ h.blocked \in Int /\ h.hotEvict \in Int /\ h.coldEvict \in Int
  BY TableFields
<1>2. PICK old : old = h.slot[s]
  OBVIOUS
<1>3. old \in SlotSet
  BY <1>1, <1>2
<1>4. PICK dec : dec = IF old = Empty THEN h.live ELSE [h.live EXCEPT ![old.state] = @ - 1]
  OBVIOUS
<1>5. PICK inc : inc = IF e = Empty THEN dec ELSE [dec EXCEPT ![e.state] = @ + 1]
  OBVIOUS
<1>6. Put(h, s, e) = [h EXCEPT !.slot[s] = e, !.live = inc]
  BY <1>2, <1>4, <1>5 DEF Put
<1>7. PICK m : m = [h.slot EXCEPT ![s] = e]
  OBVIOUS
<1>8. Put(h, s, e) = [slot |-> m, pages |-> P, live |-> inc, valid |-> h.valid,
                      blocked |-> h.blocked, hotEvict |-> h.hotEvict, coldEvict |-> h.coldEvict]
  BY <1>1, <1>6, <1>7
<1>9. m \in [Slots -> SlotSet]
  BY <1>1, <1>7
<1>10. dec \in [Heats -> Int] /\ \A z \in Heats :
          dec[z] = h.live[z] - (IF old # Empty /\ old.state = z THEN 1 ELSE 0)
  <2>1. CASE old = Empty
    BY <1>1, <1>4, <2>1
  <2>2. CASE old # Empty
    <3>1. old.state \in Heats
      BY <1>3, <2>2, SlotHolds
    <3>2. dec = [h.live EXCEPT ![old.state] = @ - 1]
      BY <1>4, <2>2
    <3> QED BY <1>1, <2>2, <3>1, <3>2
  <2> QED BY <2>1, <2>2
<1>11. inc \in [Heats -> Int] /\ \A z \in Heats :
          inc[z] = dec[z] + (IF e # Empty /\ e.state = z THEN 1 ELSE 0)
  <2>1. CASE e = Empty
    BY <1>5, <1>10, <2>1
  <2>2. CASE e # Empty
    <3>1. e.state \in Heats
      BY <2>2, SlotHolds
    <3>2. inc = [dec EXCEPT ![e.state] = @ + 1]
      BY <1>5, <2>2
    <3> QED BY <1>10, <2>2, <3>1, <3>2
  <2> QED BY <2>1, <2>2
<1>12. Put(h, s, e) \in Tables(P)
  BY <1>1, <1>8, <1>9, <1>11 DEF Tables
<1>13. /\ Put(h, s, e).slot = m /\ Put(h, s, e).live = inc /\ Put(h, s, e).valid = h.valid
       /\ Put(h, s, e).blocked = h.blocked
       /\ Put(h, s, e).hotEvict = h.hotEvict /\ Put(h, s, e).coldEvict = h.coldEvict
  BY <1>8
<1> QED BY <1>2, <1>7, <1>10, <1>11, <1>12, <1>13

\* t is a table that differs from h in slot s, and is counted by Put.
PutIs(t, h, P, s, e) ==
    /\ t \in Tables(P) /\ t.slot = [h.slot EXCEPT ![s] = e] /\ t.valid = h.valid
    /\ t.pages = P /\ t.blocked = h.blocked
    /\ t.hotEvict = h.hotEvict /\ t.coldEvict = h.coldEvict

\* What Put leaves.
LEMMA PutOf ==
    ASSUME NEW P, NEW h, h \in Tables(P), NEW s \in Slots, NEW e, e \in SlotSet
    PROVE  PutIs(Put(h, s, e), h, P, s, e)
<1>1. PICK t : t = Put(h, s, e)
  OBVIOUS
<1>2. /\ t \in Tables(P) /\ t.slot = [h.slot EXCEPT ![s] = e] /\ t.valid = h.valid
      /\ t.blocked = h.blocked /\ t.hotEvict = h.hotEvict /\ t.coldEvict = h.coldEvict
  BY <1>1, PutShape
<1>3. t.pages = P
  BY <1>2, TableFields
<1> QED BY <1>1, <1>2, <1>3 DEF PutIs

\* The slots are finitely many.
LEMMA SlotsFinite ==
    ASSUME HotTableAssumption
    PROVE  IsFiniteSet(Slots) /\ \A T \in SUBSET Slots : IsFiniteSet(T) /\ Cardinality(T) \in Nat
<1>1. HotCap * EPP \in Nat
  BY Sizes
<1>2. IsFiniteSet(Slots)
  BY <1>1, FS_Interval DEF Slots
<1> QED BY <1>2, FS_Subset, FS_CardinalityType

\* Taking an element out of a set of slots and perhaps putting it in again.
LEMMA OneSlot ==
    ASSUME HotTableAssumption, NEW A \in SUBSET Slots, NEW B \in SUBSET Slots, NEW s \in Slots,
           A \ {s} = B \ {s}
    PROVE  Cardinality(B) = Cardinality(A) - (IF s \in A THEN 1 ELSE 0)
                                           + (IF s \in B THEN 1 ELSE 0)
<1>1. /\ IsFiniteSet(A) /\ IsFiniteSet(B) /\ IsFiniteSet(A \ {s})
      /\ Cardinality(A) \in Nat /\ Cardinality(B) \in Nat /\ Cardinality(A \ {s}) \in Nat
  BY SlotsFinite
<1>2. Cardinality(A \ {s}) = IF s \in A THEN Cardinality(A) - 1 ELSE Cardinality(A)
  BY <1>1, FS_RemoveElement
<1>3. Cardinality(B \ {s}) = IF s \in B THEN Cardinality(B) - 1 ELSE Cardinality(B)
  BY <1>1, FS_RemoveElement
<1>4. Cardinality(A \ {s}) = Cardinality(B \ {s})
  OBVIOUS
<1>5. PICK a \in Nat, b \in Nat, c \in Nat :
         a = Cardinality(A) /\ b = Cardinality(B) /\ c = Cardinality(A \ {s})
  BY <1>1
<1>6. c = (IF s \in A THEN a - 1 ELSE a) /\ c = (IF s \in B THEN b - 1 ELSE b)
  BY <1>2, <1>3, <1>4, <1>5
<1>7. b = a - (IF s \in A THEN 1 ELSE 0) + (IF s \in B THEN 1 ELSE 0)
  BY <1>6
<1> QED BY <1>5, <1>7

\* A Put keeps the histogram exact.
LEMMA PutExact ==
    ASSUME HotTableAssumption, NEW P, NEW h, h \in Tables(P), HeatsExact(h),
           NEW s \in Slots, NEW e, e \in SlotSet
    PROVE  HeatsExact(Put(h, s, e))
<1> SUFFICES ASSUME NEW z \in Heats
             PROVE  Put(h, s, e).live[z] = Cardinality(OfHeat(Put(h, s, e), z))
  BY DEF HeatsExact
<1>1. PICK t : t = Put(h, s, e)
  OBVIOUS
<1>2. /\ t.slot = [h.slot EXCEPT ![s] = e]
      /\ t.live[z] = h.live[z] - (IF h.slot[s] # Empty /\ h.slot[s].state = z THEN 1 ELSE 0)
                               + (IF e # Empty /\ e.state = z THEN 1 ELSE 0)
  BY <1>1, PutShape
<1>3. h.slot \in [Slots -> SlotSet]
  BY TableFields
<1>4. OfHeat(h, z) \in SUBSET Slots /\ OfHeat(t, z) \in SUBSET Slots
  BY DEF OfHeat, Used
<1>5. OfHeat(h, z) \ {s} = OfHeat(t, z) \ {s}
  BY <1>2, <1>3 DEF OfHeat, Used
<1>6. /\ s \in OfHeat(h, z) <=> h.slot[s] # Empty /\ h.slot[s].state = z
      /\ s \in OfHeat(t, z) <=> e # Empty /\ e.state = z
  BY <1>2, <1>3 DEF OfHeat, Used
<1>7. h.live[z] = Cardinality(OfHeat(h, z))
  BY DEF HeatsExact
<1>8. Cardinality(OfHeat(t, z)) = Cardinality(OfHeat(h, z))
          - (IF s \in OfHeat(h, z) THEN 1 ELSE 0) + (IF s \in OfHeat(t, z) THEN 1 ELSE 0)
  BY <1>4, <1>5, OneSlot
<1> QED BY <1>1, <1>2, <1>6, <1>7, <1>8

\* The slots in use after a Put.
LEMMA PutUsed ==
    ASSUME HotTableAssumption, NEW P, NEW h, h \in Tables(P), NEW s \in Slots, NEW e, e \in SlotSet
    PROVE  /\ Used(Put(h, s, e)) \ {s} = Used(h) \ {s}
           /\ s \in Used(Put(h, s, e)) <=> e # Empty
           /\ Cardinality(Used(h)) \in Nat
           /\ Cardinality(Used(Put(h, s, e))) = Cardinality(Used(h))
                 - (IF h.slot[s] # Empty THEN 1 ELSE 0) + (IF e # Empty THEN 1 ELSE 0)
<1>1. PICK t : t = Put(h, s, e)
  OBVIOUS
<1>2. t.slot = [h.slot EXCEPT ![s] = e]
  BY <1>1, PutShape
<1>3. h.slot \in [Slots -> SlotSet]
  BY TableFields
<1>4. Used(h) \in SUBSET Slots /\ Used(t) \in SUBSET Slots
  BY DEF Used
<1>5. Used(h) \ {s} = Used(t) \ {s}
  BY <1>2, <1>3 DEF Used
<1>6. (s \in Used(h) <=> h.slot[s] # Empty) /\ (s \in Used(t) <=> e # Empty)
  BY <1>2, <1>3 DEF Used
<1>7. Cardinality(Used(t)) = Cardinality(Used(h))
          - (IF s \in Used(h) THEN 1 ELSE 0) + (IF s \in Used(t) THEN 1 ELSE 0)
  BY <1>4, <1>5, OneSlot
<1>8. Cardinality(Used(h)) \in Nat
  BY <1>4, SlotsFinite
<1> QED BY <1>1, <1>5, <1>6, <1>7, <1>8

\* t with other values of the counters besides the histogram.
Recount(t, v, b, x, y) ==
    [slot |-> t.slot, pages |-> t.pages, live |-> t.live, valid |-> v,
     blocked |-> b, hotEvict |-> x, coldEvict |-> y]

\* They change nothing of what the table holds.
LEMMA Recounted ==
    ASSUME NEW P, NEW t, t \in Tables(P), NEW v \in Int, NEW b \in Int, NEW x \in Int, NEW y \in Int,
           NEW u, u = Recount(t, v, b, x, y)
    PROVE  /\ u \in Tables(P) /\ u.slot = t.slot /\ u.valid = v /\ u.live = t.live
           /\ Used(u) = Used(t)
           /\ HeatsExact(t) => HeatsExact(u)
           /\ Within(t) => Within(u)
<1>1. /\ t = [slot |-> t.slot, pages |-> t.pages, live |-> t.live, valid |-> t.valid,
              blocked |-> t.blocked, hotEvict |-> t.hotEvict, coldEvict |-> t.coldEvict]
      /\ t.slot \in [Slots -> SlotSet] /\ t.pages = P /\ t.live \in [Heats -> Int]
      /\ t.valid \in Int /\ t.blocked \in Int /\ t.hotEvict \in Int /\ t.coldEvict \in Int
  BY TableFields
<1>2. u = [slot |-> t.slot, pages |-> P, live |-> t.live, valid |-> v,
           blocked |-> b, hotEvict |-> x, coldEvict |-> y]
  BY <1>1 DEF Recount
<1>3. u \in Tables(P)
  BY <1>1, <1>2 DEF Tables
<1>4. u.slot = t.slot /\ u.valid = v /\ u.live = t.live /\ u.pages = t.pages
  BY <1>1, <1>2
<1>5. Used(u) = Used(t)
  BY <1>4 DEF Used
<1>6. \A z \in Heats : OfHeat(u, z) = OfHeat(t, z)
  BY <1>4, <1>5 DEF OfHeat
<1>7. HeatsExact(t) => HeatsExact(u)
  BY <1>4, <1>6 DEF HeatsExact
<1>8. Within(t) => Within(u)
  BY <1>4, <1>5 DEF Within, HotEntries
<1> QED BY <1>3, <1>4, <1>5, <1>7, <1>8

\* v counts at least one entry more for an entry that comes, and one less for one that goes.
Covers(v, h, s, e) ==
    v >= h.valid - (IF h.slot[s] # Empty THEN 1 ELSE 0) + (IF e # Empty THEN 1 ELSE 0)

\* u holds e in slot s and is as h elsewhere.
Sets(u, h, s, e) == u.slot = [h.slot EXCEPT ![s] = e]

\* A Put into a slot in use, when valid counts at least what is there afterwards.
LEMMA PutSound ==
    ASSUME HotTableAssumption, NEW P, NEW h, Sound(h, P), NEW s \in 0 .. HotEntries(h) - 1,
           NEW e, e \in SlotSet, NEW v \in Int, NEW b \in Int, NEW x \in Int, NEW y \in Int,
           Covers(v, h, s, e), NEW u, u = Recount(Put(h, s, e), v, b, x, y)
    PROVE  Sound(u, P) /\ Sets(u, h, s, e)
<1>1. /\ h \in Tables(P) /\ P \in Chunk .. HotCap /\ Within(h) /\ HeatsExact(h)
      /\ h.valid >= Cardinality(Used(h)) /\ h.pages = P /\ h.valid \in Int
  BY TableFields DEF Sound, Counted
<1>2. s \in Slots /\ s < HotEntries(h) /\ HotEntries(h) \in Nat
  BY <1>1, SlotsInUse
<1>3. PICK t : t = Put(h, s, e)
  OBVIOUS
<1>4. t \in Tables(P) /\ t.slot = [h.slot EXCEPT ![s] = e] /\ t.pages = P
  BY <1>1, <1>2, <1>3, PutShape, TableFields
<1>5. HeatsExact(t)
  BY <1>1, <1>2, <1>3, PutExact
<1>6. /\ Used(t) \ {s} = Used(h) \ {s}
      /\ Cardinality(Used(h)) \in Nat
      /\ Cardinality(Used(t)) = Cardinality(Used(h))
            - (IF h.slot[s] # Empty THEN 1 ELSE 0) + (IF e # Empty THEN 1 ELSE 0)
  BY <1>1, <1>2, <1>3, PutUsed
<1>7. Within(t)
  <2> SUFFICES ASSUME NEW z \in Used(t) PROVE z < HotEntries(t)
    BY DEF Within
  <2>1. HotEntries(t) = HotEntries(h)
    BY <1>1, <1>4 DEF HotEntries
  <2>2. CASE z = s
    BY <1>2, <2>1, <2>2
  <2>3. CASE z # s
    <3>1. z \in Used(h)
      BY <1>6, <2>3
    <3> QED BY <1>1, <2>1, <3>1 DEF Within
  <2> QED BY <2>2, <2>3
<1>8. u = Recount(t, v, b, x, y)
  BY <1>3
<1>9. /\ u \in Tables(P) /\ u.slot = t.slot /\ u.valid = v /\ Used(u) = Used(t)
      /\ HeatsExact(u) /\ Within(u)
  <2>1. t \in Tables(P)
    BY <1>4
  <2>2. /\ u \in Tables(P) /\ u.slot = t.slot /\ u.valid = v /\ u.live = t.live
        /\ Used(u) = Used(t)
        /\ HeatsExact(t) => HeatsExact(u)
        /\ Within(t) => Within(u)
    BY <1>8, <2>1, Recounted
  <2> QED BY <1>5, <1>7, <2>2
<1>10. v >= Cardinality(Used(t))
  <2>1. PICK a \in Int, c \in Int, d \in Int :
           a = Cardinality(Used(h)) /\ c = h.valid /\ d = Cardinality(Used(t))
    <3>1. Cardinality(Used(t)) \in Int
      BY <1>6
    <3> QED BY <1>1, <1>6, <3>1
  <2>2. c >= a
    BY <1>1, <2>1
  <2>3. /\ d = a - (IF h.slot[s] # Empty THEN 1 ELSE 0) + (IF e # Empty THEN 1 ELSE 0)
        /\ v >= c - (IF h.slot[s] # Empty THEN 1 ELSE 0) + (IF e # Empty THEN 1 ELSE 0)
    BY <1>6, <2>1 DEF Covers
  <2>4. v >= d
    BY <2>2, <2>3
  <2> QED BY <2>1, <2>4
<1>11. u.valid >= Cardinality(Used(u))
  BY <1>9, <1>10
<1> QED BY <1>1, <1>4, <1>9, <1>11 DEF Sound, Counted, Sets

-----------------------------------------------------------------------------
(***************************************************************************)
(* Probing.                                                                *)
(***************************************************************************)
\* The slot after x when the probing is advanced for the k-th time, and the slots one after
\* the other from the home of the lpa.
Advanced(h, x, k) == (x + k * k) % HotEntries(h)
Walks(h, l, n, c) == /\ c[1] = l % HotEntries(h)
                     /\ \A k \in 1 .. n - 1 : c[k + 1] = Advanced(h, c[k], k)

\* The slots on the chain of an lpa are in use, and each is the one advanced to.
LEMMA ChainIs ==
    ASSUME HotTableAssumption, NEW h, h.pages \in Chunk .. HotCap,
           NEW l \in HotLpas, NEW n \in Nat, n > 0
    PROVE  /\ Chain(h, l, n) \in [1 .. n -> 0 .. HotEntries(h) - 1]
           /\ Walks(h, l, n, Chain(h, l, n))
<1> DEFINE E == HotEntries(h)
           S == 0 .. E - 1
           Nxt(x, k) == (x + k * k) % E
           F == [z \in S \X (1 .. n - 1) |-> Nxt(z[1], z[2])]
           Loop(f) == f = [k \in 0 .. n - 1 |-> IF k = 0 THEN l % E ELSE Nxt(f[k - 1], k)]
           at == CHOOSE f : Loop(f)
<1>1. E \in Nat /\ E > 0
  BY SlotsInUse
<1>2. l \in Nat
  BY DEF HotLpas
<1>3. l % E \in S
  BY <1>1, <1>2
<1>4. ASSUME NEW x \in S, NEW k \in 1 .. n - 1 PROVE Nxt(x, k) \in S
  <2>1. x + k * k \in Nat
    BY <1>1
  <2> HIDE DEF E
  <2> QED BY <1>1, <2>1
<1> HIDE DEF E, Nxt
<1>5. IsStep(F, S, n - 1)
  BY <1>4 DEF IsStep
<1>6. \A x \in S, k \in 1 .. n - 1 : F[<<x, k>>] = Nxt(x, k)
  OBVIOUS
<1> HIDE DEF F
<1>7. PICK g \in [0 .. n - 1 -> S] :
         g[0] = l % E /\ \A i \in 1 .. n - 1 : g[i] = F[<<g[i - 1], i>>]
  <2>1. PICK m \in Nat, x \in S : m = n - 1 /\ x = l % E
    BY <1>3
  <2>2. IsStep(F, S, m)
    BY <1>5, <2>1
  <2> HIDE DEF S
  <2>3. \E g : Follows(g, F, S, m, x)
    BY <2>2, LoopExists
  <2> QED BY <2>1, <2>3 DEF Follows
<1>8. Loop(g)
  <2>1. ASSUME NEW k \in 0 .. n - 1 PROVE g[k] = IF k = 0 THEN l % E ELSE Nxt(g[k - 1], k)
    <3>1. CASE k = 0
      BY <1>7, <3>1
    <3>2. CASE k # 0
      <4>1. k \in 1 .. n - 1 /\ k - 1 \in 0 .. n - 1
        BY <3>2
      <4> QED BY <1>6, <1>7, <3>2, <4>1
    <3> QED BY <3>1, <3>2
  <2>2. g = [k \in 0 .. n - 1 |-> g[k]]
    OBVIOUS
  <2> QED BY <2>1, <2>2
<1>9. Loop(at)
  <2> HIDE DEF Loop
  <2> QED BY <1>8
<1>10. Chain(h, l, n) = [k \in 1 .. n |-> at[k - 1]]
  BY DEF Chain, E, Nxt
<1> HIDE DEF at
<1>11. at[0] = l % E
  BY <1>9
<1>12. \A i \in 1 .. n - 1 : at[i - 1] \in S => at[i] = F[<<at[i - 1], i>>]
  BY <1>6, <1>9
<1>13. \A i \in 0 .. n - 1 : at[i] \in S
  <2>1. n - 1 \in Nat /\ at[0] \in S
    BY <1>3, <1>11
  <2> HIDE DEF S
  <2> QED BY <1>5, <1>12, <2>1, LoopStays
<1>14. \A k \in 1 .. n : at[k - 1] \in S
  BY <1>13
<1>15. PICK c : c = Chain(h, l, n)
  OBVIOUS
<1>16. c = [k \in 1 .. n |-> at[k - 1]]
  BY <1>10, <1>15
<1>17. c \in [1 .. n -> S]
  BY <1>14, <1>16
<1>18. ASSUME NEW k \in 1 .. n - 1 PROVE c[k + 1] = Advanced(h, c[k], k)
  <2>1. k \in 1 .. n /\ k + 1 \in 1 .. n /\ (k + 1) - 1 = k /\ k - 1 \in 0 .. n - 1
    OBVIOUS
  <2>2. c[k + 1] = at[k] /\ c[k] = at[k - 1]
    BY <1>16, <2>1
  <2>3. at[k] = F[<<at[k - 1], k>>] /\ at[k - 1] \in S
    BY <1>12, <1>13, <2>1
  <2>4. at[k] = Nxt(at[k - 1], k)
    BY <1>6, <2>3
  <2> QED BY <2>2, <2>4 DEF Nxt, E, Advanced
<1>19. c[1] = l % HotEntries(h)
  <2>1. 1 \in 1 .. n /\ c[1] = at[0]
    BY <1>16
  <2> QED BY <1>11, <2>1 DEF E
<1> QED BY <1>15, <1>17, <1>18, <1>19 DEF E, Walks

\* The slots on the chain of an lpa are in use.
LEMMA ChainIn ==
    ASSUME HotTableAssumption, NEW h, h.pages \in Chunk .. HotCap,
           NEW l \in HotLpas, NEW n \in Nat, n > 0
    PROVE  Chain(h, l, n) \in [1 .. n -> 0 .. HotEntries(h) - 1]
BY ChainIs

\* A longer chain begins as the shorter one, in tables with as many slots in use.
LEMMA SameChain ==
    ASSUME HotTableAssumption, NEW h, h.pages \in Chunk .. HotCap,
           NEW t, t.pages \in Chunk .. HotCap, HotEntries(t) = HotEntries(h),
           NEW l \in HotLpas, NEW n \in Nat, n > 0, NEW m \in Nat, n <= m
    PROVE  \A k \in 1 .. n : Chain(h, l, n)[k] = Chain(t, l, m)[k]
<1>1. PICK c, d : c = Chain(h, l, n) /\ d = Chain(t, l, m)
  OBVIOUS
<1>2. Walks(h, l, n, c)
  BY <1>1, ChainIs
<1>3. Walks(t, l, m, d)
  <2>1. m > 0
    OBVIOUS
  <2> QED BY <1>1, <2>1, ChainIs
<1>4. c[1] = d[1]
  BY <1>2, <1>3 DEF Walks
<1>5. ASSUME NEW k \in 1 .. n - 1, c[k] = d[k] PROVE c[k + 1] = d[k + 1]
  <2>1. k \in 1 .. m - 1
    OBVIOUS
  <2>2. c[k + 1] = Advanced(h, c[k], k) /\ d[k + 1] = Advanced(t, d[k], k)
    BY <1>2, <1>3, <2>1 DEF Walks
  <2> QED BY <1>5, <2>2 DEF Advanced
<1> DEFINE T == { i \in 0 .. n - 1 : c[i + 1] = d[i + 1] }
<1>6. 0 \in T
  BY <1>4
<1>7. \A i \in 1 .. n - 1 : i - 1 \in T => i \in T
  <2> SUFFICES ASSUME NEW i \in 1 .. n - 1, i - 1 \in T PROVE i \in T
    OBVIOUS
  <2>1. (i - 1) + 1 = i /\ c[i] = d[i] /\ i \in 0 .. n - 1
    OBVIOUS
  <2> QED BY <1>5, <2>1
<1>8. \A i \in 0 .. n - 1 : i \in T
  <2> HIDE DEF T
  <2>1. n - 1 \in Nat
    OBVIOUS
  <2> QED BY <1>6, <1>7, <2>1, CountUp
<1>9. ASSUME NEW k \in 1 .. n PROVE c[k] = d[k]
  <2>1. k - 1 \in 0 .. n - 1 /\ (k - 1) + 1 = k
    OBVIOUS
  <2>2. k - 1 \in T
    BY <1>8, <2>1
  <2> QED BY <2>1, <2>2
<1> QED BY <1>1, <1>9

\* The slots where a hit looks for an lpa.
Sought(h, l) == { Chain(h, l, MaxProbe)[i] : i \in 1 .. MaxProbe }

\* They are slots in use, and depend on the number of these only.
LEMMA SoughtIs ==
    ASSUME HotTableAssumption, NEW h, h.pages \in Chunk .. HotCap, NEW l \in HotLpas
    PROVE  /\ Sought(h, l) \subseteq 0 .. HotEntries(h) - 1
           /\ \A t : t.pages = h.pages => Sought(t, l) = Sought(h, l)
<1>1. MaxProbe \in Nat /\ MaxProbe > 0
  BY Sizes
<1>2. Sought(h, l) \subseteq 0 .. HotEntries(h) - 1
  BY <1>1, ChainIn DEF Sought
<1>3. ASSUME NEW t, t.pages = h.pages PROVE Sought(t, l) = Sought(h, l)
  <2>1. HotEntries(t) = HotEntries(h) /\ t.pages \in Chunk .. HotCap
    BY <1>3 DEF HotEntries
  <2>2. \A i \in 1 .. MaxProbe : Chain(h, l, MaxProbe)[i] = Chain(t, l, MaxProbe)[i]
    BY <1>1, <2>1, SameChain
  <2> QED BY <2>2 DEF Sought
<1> QED BY <1>2, <1>3

\* A hit is a slot that holds the lpa.
LEMMA HitIs ==
    ASSUME HotTableAssumption, NEW h, h.pages \in Chunk .. HotCap, NEW l \in HotLpas,
           NEW s, s = HitSlot(h, l), s # None
    PROVE  s \in 0 .. HotEntries(h) - 1 /\ h.slot[s].lpa = l
<1>1. PICK chain : chain = Chain(h, l, MaxProbe)
  OBVIOUS
<1>2. chain \in [1 .. MaxProbe -> 0 .. HotEntries(h) - 1]
  BY <1>1, ChainIn, Sizes
<1>3. PICK same : same = { i \in DOMAIN chain : h.slot[chain[i]].lpa = l }
  OBVIOUS
<1>4. s = IF same = {} THEN None ELSE chain[Min(same)]
  BY <1>1, <1>3 DEF HitSlot
<1>5. same # {} /\ same \in SUBSET Nat
  BY <1>2, <1>3, <1>4
<1>6. Min(same) \in same
  BY <1>5, MinIsIn
<1> QED BY <1>2, <1>3, <1>4, <1>5, <1>6

\* A table is itself counted again.
LEMMA SameCounts ==
    ASSUME NEW P, NEW t, t \in Tables(P)
    PROVE  /\ t = Recount(t, t.valid, t.blocked, t.hotEvict, t.coldEvict)
           /\ [t EXCEPT !.valid = @ + 1]
                  = Recount(t, t.valid + 1, t.blocked, t.hotEvict, t.coldEvict)
<1>1. t = [slot |-> t.slot, pages |-> t.pages, live |-> t.live, valid |-> t.valid,
           blocked |-> t.blocked, hotEvict |-> t.hotEvict, coldEvict |-> t.coldEvict]
  BY TableFields
<1>2. t = Recount(t, t.valid, t.blocked, t.hotEvict, t.coldEvict)
  BY <1>1 DEF Recount
<1>3. [t EXCEPT !.valid = @ + 1]
          = Recount(t, t.valid + 1, t.blocked, t.hotEvict, t.coldEvict)
  BY <1>1 DEF Recount
<1> QED BY <1>2, <1>3

\* A table with other counts of evictions.
LEMMA OtherEvictions ==
    ASSUME NEW P, NEW t, t \in Tables(P), NEW x, NEW y
    PROVE  [t EXCEPT !.hotEvict = x, !.coldEvict = y] = Recount(t, t.valid, t.blocked, x, y)
<1>0. t = [slot |-> t.slot, pages |-> t.pages, live |-> t.live, valid |-> t.valid,
           blocked |-> t.blocked, hotEvict |-> t.hotEvict, coldEvict |-> t.coldEvict]
  BY TableFields
<1>1. PICK u : u = [t EXCEPT !.hotEvict = x]
  OBVIOUS
<1>2. u = Recount(t, t.valid, t.blocked, x, t.coldEvict)
  BY <1>0, <1>1 DEF Recount
<1>3. [t EXCEPT !.hotEvict = x, !.coldEvict = y] = [u EXCEPT !.coldEvict = y]
  BY <1>1
<1> QED BY <1>2, <1>3 DEF Recount

\* A table with another count of what was blocked.
LEMMA OtherBlocked ==
    ASSUME NEW P, NEW t, t \in Tables(P), NEW b, NEW x
    PROVE  [t EXCEPT !.blocked = b, !.hotEvict = x] = Recount(t, t.valid, b, x, t.coldEvict)
<1>0. t = [slot |-> t.slot, pages |-> t.pages, live |-> t.live, valid |-> t.valid,
           blocked |-> t.blocked, hotEvict |-> t.hotEvict, coldEvict |-> t.coldEvict]
  BY TableFields
<1>1. PICK u : u = [t EXCEPT !.blocked = b]
  OBVIOUS
<1>2. u = Recount(t, t.valid, b, t.hotEvict, t.coldEvict)
  BY <1>0, <1>1 DEF Recount
<1>3. [t EXCEPT !.blocked = b, !.hotEvict = x] = [u EXCEPT !.hotEvict = x]
  BY <1>1
<1> QED BY <1>2, <1>3 DEF Recount

\* A Put that leaves no more entries than there were.
LEMMA PutPlain ==
    ASSUME HotTableAssumption, NEW P, NEW h, Sound(h, P), NEW s \in 0 .. HotEntries(h) - 1,
           NEW e, e \in SlotSet, h.slot[s] # Empty
    PROVE  /\ Sound(Put(h, s, e), P) /\ HotEntries(Put(h, s, e)) = HotEntries(h)
           /\ Sets(Put(h, s, e), h, s, e)
<1>1. h \in Tables(P) /\ P \in Chunk .. HotCap /\ h.pages = P /\ h.valid \in Int
  BY TableFields DEF Sound
<1>2. s \in Slots
  BY <1>1, SlotsInUse
<1>3. PICK t : t = Put(h, s, e)
  OBVIOUS
<1>4. PutIs(t, h, P, s, e)
  BY <1>1, <1>2, <1>3, PutOf
<1>5. /\ t \in Tables(P) /\ t.valid = h.valid /\ t.pages = P
      /\ t.blocked \in Int /\ t.hotEvict \in Int /\ t.coldEvict \in Int
  BY <1>4, TableFields DEF PutIs
<1>6. PICK v \in Int, b \in Int, x \in Int, y \in Int :
         v = h.valid /\ b = t.blocked /\ x = t.hotEvict /\ y = t.coldEvict
  BY <1>1, <1>5
<1>7. t = Recount(t, v, b, x, y)
  BY <1>5, <1>6, SameCounts
<1>8. t = Recount(Put(h, s, e), v, b, x, y)
  BY <1>3, <1>7
<1>9. Covers(v, h, s, e)
  <2>1. v >= v - 1 + (IF e # Empty THEN 1 ELSE 0)
    BY <1>6
  <2> QED BY <1>6, <2>1 DEF Covers
<1>10. Sound(t, P) /\ Sets(t, h, s, e)
  BY <1>8, <1>9, PutSound
<1>11. HotEntries(t) = HotEntries(h)
  BY <1>1, <1>5 DEF HotEntries
<1> QED BY <1>3, <1>10, <1>11

\* A Put that adds an entry at most, with valid raised.
LEMMA PutOneMore ==
    ASSUME HotTableAssumption, NEW P, NEW h, Sound(h, P), NEW s \in 0 .. HotEntries(h) - 1,
           NEW e, e \in SlotSet
    PROVE  /\ Sound([Put(h, s, e) EXCEPT !.valid = @ + 1], P)
           /\ Sets([Put(h, s, e) EXCEPT !.valid = @ + 1], h, s, e)
<1>1. h \in Tables(P) /\ P \in Chunk .. HotCap /\ h.pages = P /\ h.valid \in Int
  BY TableFields DEF Sound
<1>2. s \in Slots
  BY <1>1, SlotsInUse
<1>3. PICK t : t = Put(h, s, e)
  OBVIOUS
<1>4. PutIs(t, h, P, s, e)
  BY <1>1, <1>2, <1>3, PutOf
<1>5. /\ t \in Tables(P) /\ t.valid = h.valid /\ t.pages = P
      /\ t.blocked \in Int /\ t.hotEvict \in Int /\ t.coldEvict \in Int
  BY <1>4, TableFields DEF PutIs
<1>6. PICK v \in Int, b \in Int, x \in Int, y \in Int :
         v = h.valid + 1 /\ b = t.blocked /\ x = t.hotEvict /\ y = t.coldEvict
  BY <1>1, <1>5
<1>7. PICK u : u = [t EXCEPT !.valid = @ + 1]
  OBVIOUS
<1>8. u = Recount(t, v, b, x, y)
  BY <1>5, <1>6, <1>7, SameCounts
<1>9. u = Recount(Put(h, s, e), v, b, x, y)
  BY <1>3, <1>8
<1>10. Covers(v, h, s, e)
  BY <1>1, <1>6 DEF Covers
<1>11. Sound(u, P) /\ Sets(u, h, s, e)
  BY <1>9, <1>10, PutSound
<1> QED BY <1>3, <1>7, <1>11

\* Counting again what is not counted exactly.
LEMMA RecountSound ==
    ASSUME NEW P, NEW h, Sound(h, P), NEW b \in Int, NEW x \in Int, NEW y \in Int
    PROVE  Sound(Recount(h, h.valid, b, x, y), P)
<1>1. PICK u : u = Recount(h, h.valid, b, x, y)
  OBVIOUS
<1>2. h \in Tables(P) /\ h.valid \in Int
  BY TableFields DEF Sound
<1>3. /\ u \in Tables(P) /\ u.slot = h.slot /\ u.valid = h.valid /\ u.live = h.live
      /\ Used(u) = Used(h)
      /\ HeatsExact(h) => HeatsExact(u)
      /\ Within(h) => Within(u)
  BY <1>1, <1>2, Recounted
<1> QED BY <1>1, <1>3 DEF Sound, Counted

\* The heat of an entry, raised.
LEMMA Raised ==
    ASSUME HotTableAssumption, NEW a \in Heats
    PROVE  Min({a + 1, MaxHeat}) \in Heats
<1>1. {a + 1, MaxHeat} \in SUBSET Nat /\ {a + 1, MaxHeat} # {}
  BY Sizes DEF Heats
<1>2. PICK m : m = Min({a + 1, MaxHeat})
  OBVIOUS
<1>3. m \in {a + 1, MaxHeat} /\ \A x \in {a + 1, MaxHeat} : m <= x
  <2>1. \E x \in {a + 1, MaxHeat} : \A y \in {a + 1, MaxHeat} : x <= y
    BY <1>1, LeastOne
  <2> QED BY <1>2, <2>1 DEF Min
<1> QED BY <1>1, <1>2, <1>3, Sizes DEF Heats

\* hot_state_raise of a hit.
LEMMA RaiseSound ==
    ASSUME HotTableAssumption, NEW P, NEW h, Sound(h, P), NEW s \in 0 .. HotEntries(h) - 1,
           h.slot[s].lpa \in HotLpas
    PROVE  /\ Sound(Raise(h, s), P) /\ HotEntries(Raise(h, s)) = HotEntries(h)
           /\ Raise(h, s).slot[s].lpa = h.slot[s].lpa
<1>1. h \in Tables(P) /\ h.pages = P /\ P \in Chunk .. HotCap /\ h.slot \in [Slots -> SlotSet]
  BY TableFields DEF Sound
<1>2. s \in Slots
  BY <1>1, SlotsInUse
<1>3. PICK c : c = h.slot[s]
  OBVIOUS
<1>4. c \in SlotSet /\ c # Empty
  BY <1>1, <1>2, <1>3, SlotHolds
<1>5. c \in Held /\ c.state \in Heats
  BY <1>4, SlotHolds
<1>6. PICK m : m = Min({c.state + 1, MaxHeat})
  OBVIOUS
<1>7. m \in Heats
  BY <1>5, <1>6, Raised
<1>8. PICK e : e = [c EXCEPT !.state = m]
  OBVIOUS
<1>9. e = [lpa |-> c.lpa, ppa |-> c.ppa, state |-> m] /\ e \in Held /\ e.lpa = c.lpa
  BY <1>5, <1>7, <1>8 DEF Held
<1>10. e \in SlotSet /\ e # Empty
  <2>1. e \in SlotSet
    BY <1>9 DEF SlotSet
  <2> QED BY <1>3, <1>9, <2>1, SlotHolds
<1>11. Raise(h, s) = Put(h, s, e)
  BY <1>3, <1>6, <1>8 DEF Raise
<1>12. h.slot[s] # Empty
  BY <1>3, <1>4
<1>13. /\ Sound(Put(h, s, e), P) /\ HotEntries(Put(h, s, e)) = HotEntries(h)
       /\ Sets(Put(h, s, e), h, s, e)
  BY <1>10, <1>12, PutPlain
<1>14. Put(h, s, e).slot[s] = e
  BY <1>1, <1>2, <1>13 DEF Sets
<1> QED BY <1>3, <1>9, <1>11, <1>13, <1>14

-----------------------------------------------------------------------------
(***************************************************************************)
(* Promotion.                                                              *)
(***************************************************************************)
\* The victim is one of the slots probed.
LEMMA VictimIn ==
    ASSUME NEW h, NEW n \in Nat, n > 0, NEW chain, DOMAIN chain = 1 .. n,
           \A i \in 1 .. n : h.slot[chain[i]].state \in Nat
    PROVE  \E i \in 1 .. n : Victim(h, chain) = chain[i]
<1> DEFINE St(i) == h.slot[chain[i]].state
           V == { St(i) : i \in 1 .. n }
<1>1. V \in SUBSET Nat /\ V # {}
  <2>1. St(1) \in V /\ 1 \in 1 .. n
    OBVIOUS
  <2> QED BY <2>1
<1>2. PICK m \in V : \A y \in V : m <= y
  BY <1>1, LeastOne
<1> DEFINE I == { i \in 1 .. n : St(i) = m }
           R == { n - i : i \in I }
<1>3. R \in SUBSET Nat /\ R # {}
  BY <1>2
<1>4. PICK r \in R : \A y \in R : r <= y
  BY <1>3, LeastOne
<1>5. PICK k \in I : r = n - k
  OBVIOUS
<1>6. ASSUME NEW j \in 1 .. n PROVE St(k) < St(j) \/ (St(k) = St(j) /\ j <= k)
  <2>1. m <= St(j) /\ St(j) \in Nat /\ m \in Nat /\ St(k) = m
    BY <1>1, <1>2
  <2>2. CASE St(j) = m
    <3>1. n - j \in R
      BY <2>2
    <3>2. r <= n - j
      BY <1>4, <3>1
    <3>3. k \in 1 .. n
      OBVIOUS
    <3>4. j <= k
      BY <1>5, <3>2, <3>3
    <3> QED BY <2>1, <2>2, <3>4
  <2>3. CASE St(j) # m
    <3>1. PICK a \in Nat, b \in Nat : a = m /\ b = St(j)
      BY <2>1
    <3>2. a < b
      BY <2>1, <2>3, <3>1
    <3>3. St(k) = a /\ St(j) = b
      BY <2>1, <3>1
    <3>4. St(k) < St(j)
      <4> HIDE DEF St
      <4>1. \A u, w : u = a /\ w = b => u < w
        BY <3>2
      <4> QED BY <3>3, <4>1
    <3> QED BY <3>4
  <2> QED BY <2>2, <2>3
<1>7. \E i \in DOMAIN chain : \A j \in DOMAIN chain :
         \/ h.slot[chain[i]].state < h.slot[chain[j]].state
         \/ h.slot[chain[i]].state = h.slot[chain[j]].state /\ j <= i
  <2>1. k \in DOMAIN chain
    OBVIOUS
  <2> QED BY <1>6, <2>1
<1>8. (CHOOSE i \in DOMAIN chain : \A j \in DOMAIN chain :
         \/ h.slot[chain[i]].state < h.slot[chain[j]].state
         \/ h.slot[chain[i]].state = h.slot[chain[j]].state /\ j <= i) \in 1 .. n
  BY <1>7
<1> QED BY <1>8 DEF Victim

\* An entry that is held is not the empty one.
LEMMA HeldIs ==
    ASSUME NEW e, e \in Held
    PROVE  e \in SlotSet /\ e # Empty /\ e.lpa \in HotLpas /\ e.state \in Heats
<1>1. e \in SlotSet /\ e.lpa \in HotLpas /\ e.state \in Heats
  BY DEF Held, SlotSet
<1> QED BY <1>1, SlotHolds

\* hot_promote_place_grain.
LEMMA GrainSound ==
    ASSUME HotTableAssumption, NEW P, NEW h, Sound(h, P), NEW e, e \in Held
    PROVE  Sound(place_grain(h, e), P)
<1>1. h \in Tables(P) /\ h.pages = P /\ P \in Chunk .. HotCap /\ h.slot \in [Slots -> SlotSet]
  BY TableFields DEF Sound
<1>2. e \in SlotSet /\ e # Empty /\ e.lpa \in HotLpas
  BY HeldIs
<1>3. PICK chain : chain = Chain(h, e.lpa, MaxProbe)
  OBVIOUS
<1>4. chain \in [1 .. MaxProbe -> 0 .. HotEntries(h) - 1]
  BY <1>1, <1>2, <1>3, ChainIn, Sizes
<1>5. 0 .. HotEntries(h) - 1 \subseteq Slots
  BY <1>1, SlotsInUse
<1>6. PICK same : same = { i \in DOMAIN chain : h.slot[chain[i]].lpa = e.lpa }
  OBVIOUS
<1>7. PICK free : free = { i \in DOMAIN chain : h.slot[chain[i]] = Empty }
  OBVIOUS
<1>8. PICK victim : victim = h.slot[Victim(h, chain)]
  OBVIOUS
<1>9. place_grain(h, e) =
        IF same # {} THEN Put(h, chain[Min(same)], e)
        ELSE IF free # {} THEN [Put(h, chain[Min(free)], e) EXCEPT !.valid = @ + 1]
        ELSE IF e.state < victim.state
             THEN [h EXCEPT !.blocked = @ + 1,
                            !.hotEvict = IF victim.state >= Warm THEN @ + 1 ELSE @]
             ELSE [Put(h, Victim(h, chain), e)
                       EXCEPT !.hotEvict = IF victim.state >= Warm THEN @ + 1 ELSE @,
                              !.coldEvict = IF victim.state >= Warm THEN @ ELSE @ + 1]
  BY <1>3, <1>6, <1>7, <1>8 DEF place_grain
<1>10. CASE same # {}
  <2>1. Min(same) \in same
    <3>1. same \in SUBSET Nat
      BY <1>4, <1>6
    <3> QED BY <1>10, <3>1, MinIsIn
  <2>2. PICK s \in 0 .. HotEntries(h) - 1 : s = chain[Min(same)] /\ h.slot[s].lpa = e.lpa
    BY <1>4, <1>6, <2>1
  <2>3. h.slot[s] \in SlotSet /\ h.slot[s] # Empty
    BY <1>1, <1>2, <1>5, <2>2, SlotHolds
  <2>4. Sound(Put(h, s, e), P)
    BY <1>2, <2>3, PutPlain
  <2> QED BY <1>9, <1>10, <2>2, <2>4
<1>11. CASE same = {} /\ free # {}
  <2>1. Min(free) \in free
    <3>1. free \in SUBSET Nat
      BY <1>4, <1>7
    <3> QED BY <1>11, <3>1, MinIsIn
  <2>2. PICK s \in 0 .. HotEntries(h) - 1 : s = chain[Min(free)] /\ h.slot[s] = Empty
    BY <1>4, <1>7, <2>1
  <2>3. [Put(h, s, e) EXCEPT !.valid = @ + 1] = place_grain(h, e)
    BY <1>9, <1>11, <2>2
  <2>4. Sound([Put(h, s, e) EXCEPT !.valid = @ + 1], P)
    BY <1>2, <2>2, PutOneMore
  <2> QED BY <2>3, <2>4
<1>12. CASE same = {} /\ free = {} /\ e.state < victim.state
  <2>1. PICK x : x = IF victim.state >= Warm THEN h.hotEvict + 1 ELSE h.hotEvict
    OBVIOUS
  <2>2. place_grain(h, e) = [h EXCEPT !.blocked = h.blocked + 1, !.hotEvict = x]
    BY <1>9, <1>12, <2>1
  <2>3. h.blocked \in Int /\ h.hotEvict \in Int /\ h.coldEvict \in Int
    BY <1>1, TableFields
  <2>4. PICK b \in Int, y \in Int, z \in Int : b = h.blocked + 1 /\ y = h.coldEvict /\ z = x
    BY <2>1, <2>3
  <2>5. place_grain(h, e) = Recount(h, h.valid, b, z, y)
    BY <1>1, <2>2, <2>4, OtherBlocked
  <2> QED BY <2>5, RecountSound
<1>13. CASE same = {} /\ free = {} /\ ~(e.state < victim.state)
  <2>1. ASSUME NEW i \in 1 .. MaxProbe PROVE h.slot[chain[i]].state \in Nat
    <3>1. h.slot[chain[i]] \in SlotSet /\ h.slot[chain[i]] # Empty
      BY <1>1, <1>4, <1>5, <1>7, <1>13
    <3>2. h.slot[chain[i]].state \in Heats
      BY <3>1, SlotHolds
    <3> QED BY <3>2, Sizes DEF Heats
  <2>2. DOMAIN chain = 1 .. MaxProbe /\ MaxProbe \in Nat /\ MaxProbe > 0
    BY <1>4, Sizes
  <2>3. \E i \in 1 .. MaxProbe : Victim(h, chain) = chain[i]
    BY <2>1, <2>2, VictimIn
  <2>4. PICK s \in 0 .. HotEntries(h) - 1 : s = Victim(h, chain) /\ h.slot[s] # Empty
    BY <1>4, <1>7, <1>13, <2>3
  <2>5. PICK t : t = Put(h, s, e)
    OBVIOUS
  <2>6. Sound(t, P)
    BY <1>2, <2>4, <2>5, PutPlain
  <2>7. t \in Tables(P) /\ t.blocked \in Int /\ t.hotEvict \in Int /\ t.coldEvict \in Int
    BY <2>6, TableFields DEF Sound
  <2>8. PICK x \in Int : x = IF victim.state >= Warm THEN t.hotEvict + 1 ELSE t.hotEvict
    BY <2>7
  <2>9. PICK y \in Int : y = IF victim.state >= Warm THEN t.coldEvict ELSE t.coldEvict + 1
    BY <2>7
  <2>10. place_grain(h, e) = [t EXCEPT !.hotEvict = x, !.coldEvict = y]
    <3>1. place_grain(h, e) =
             [t EXCEPT !.hotEvict = IF victim.state >= Warm THEN @ + 1 ELSE @,
                       !.coldEvict = IF victim.state >= Warm THEN @ ELSE @ + 1]
      BY <1>9, <1>13, <2>4, <2>5
    <3>2. CASE victim.state >= Warm
      BY <2>7, <2>8, <2>9, <3>1, <3>2
    <3>3. CASE ~(victim.state >= Warm)
      BY <2>7, <2>8, <2>9, <3>1, <3>3
    <3> QED BY <3>2, <3>3
  <2>11. place_grain(h, e) = Recount(t, t.valid, t.blocked, x, y)
    BY <2>7, <2>10, OtherEvictions
  <2>12. PICK b \in Int : b = t.blocked
    BY <2>7
  <2>13. Sound(Recount(t, t.valid, b, x, y), P)
    BY <2>6, RecountSound
  <2> QED BY <2>11, <2>12, <2>13
<1> QED BY <1>10, <1>11, <1>12, <1>13

\* The window that promotion looks at is a part of the LRU.
LEMMA WindowIs ==
    ASSUME IsLru(lru) PROVE Window \in Nat /\ Window <= Len(lru)
<1>1. PICK n \in Nat : n = Len(lru)
  BY DEF IsLru
<1>2. PICK k : k = (n * 50 + 99) \div 100
  OBVIOUS
<1>3. k \in Nat
  BY <1>2
<1>4. PICK m : m = Max({1, k})
  OBVIOUS
<1>5. m \in Nat
  <2>1. CASE k >= 1
    <3>1. \E x \in {1, k} : \A y \in {1, k} : x >= y
      BY <1>3, <2>1
    <3> QED BY <1>3, <1>4, <3>1 DEF Max
  <2>2. CASE ~(k >= 1)
    <3>1. \E x \in {1, k} : \A y \in {1, k} : x >= y
      BY <1>3, <2>2
    <3> QED BY <1>3, <1>4, <3>1 DEF Max
  <2> QED BY <2>1, <2>2
<1>6. PICK w : w = Min({n, m})
  OBVIOUS
<1>7. w \in {n, m} /\ \A x \in {n, m} : w <= x
  <2>1. {n, m} \in SUBSET Nat /\ {n, m} # {}
    BY <1>5
  <2>2. \E x \in {n, m} : \A y \in {n, m} : x <= y
    BY <2>1, LeastOne
  <2> QED BY <1>6, <2>2 DEF Min
<1>8. Window = w
  BY <1>1, <1>2, <1>4, <1>6 DEF Window
<1> QED BY <1>1, <1>5, <1>7, <1>8

\* The tables of P pages whose counts are right.
SoundSet(P) == { t \in Tables(P) : Sound(t, P) }

\* One entry of a page promoted.
LEMMA PromoteSound ==
    ASSUME HotTableAssumption, pt \in [HotLpas -> Nat], cnt \in [HotLpas -> Heats],
           NEW P, NEW t, Sound(t, P), NEW l \in HotLpas
    PROVE  Sound(Promote(t, l), P)
<1>1. CASE pt[l] # 0 /\ cnt[l] >= 1
  <2>1. PICK e : e = [lpa |-> l, ppa |-> pt[l], state |-> cnt[l]]
    OBVIOUS
  <2>2. e \in Held
    BY <2>1 DEF Held
  <2>3. Sound(place_grain(t, e), P)
    BY <2>2, GrainSound
  <2> QED BY <1>1, <2>1, <2>3 DEF Promote
<1>2. CASE ~(pt[l] # 0 /\ cnt[l] >= 1)
  BY <1>2 DEF Promote
<1> QED BY <1>1, <1>2

\* dftl_cache_promote_hot of a page.
LEMMA PromoteHotSound ==
    ASSUME HotTableAssumption, pt \in [HotLpas -> Nat], cnt \in [HotLpas -> Heats],
           NEW P, NEW h, Sound(h, P), NEW p \in Pages
    PROVE  Sound(promote_hot(h, p), P)
<1> DEFINE S == SoundSet(P)
           Nxt(x, i) == Promote(x, p * EPP + i - 1)
           F == [z \in S \X (1 .. EPP) |-> Nxt(z[1], z[2])]
           Loop(f) == f = [i \in 0 .. EPP |-> IF i = 0 THEN h ELSE Nxt(f[i - 1], i)]
           after == CHOOSE f : Loop(f)
<1>1. h \in S
  BY DEF SoundSet, Sound
<1>2. ASSUME NEW x \in S, NEW i \in 1 .. EPP PROVE Nxt(x, i) \in S
  <2>1. PICK l \in HotLpas : l = p * EPP + i - 1
    BY LpasOfPage
  <2>2. Sound(x, P)
    BY DEF SoundSet
  <2>3. Sound(Promote(x, l), P)
    BY <2>2, PromoteSound
  <2> QED BY <2>1, <2>3 DEF SoundSet, Sound
<1> HIDE DEF Nxt, S
<1>3. IsStep(F, S, EPP)
  BY <1>2 DEF IsStep
<1>4. \A x \in S, i \in 1 .. EPP : F[<<x, i>>] = Nxt(x, i)
  OBVIOUS
<1> HIDE DEF F
<1>5. PICK g : Follows(g, F, S, EPP, h)
  BY <1>1, <1>3, Sizes, LoopExists
<1>6. Loop(g)
  <2>1. ASSUME NEW i \in 0 .. EPP PROVE g[i] = IF i = 0 THEN h ELSE Nxt(g[i - 1], i)
    <3>1. CASE i = 0
      BY <1>5, <3>1 DEF Follows
    <3>2. CASE i # 0
      <4>1. i \in 1 .. EPP /\ i - 1 \in 0 .. EPP
        BY <3>2, Sizes
      <4> QED BY <1>4, <1>5, <3>2, <4>1 DEF Follows
    <3> QED BY <3>1, <3>2
  <2>2. g = [i \in 0 .. EPP |-> g[i]]
    BY <1>5 DEF Follows
  <2> QED BY <2>1, <2>2
<1>7. Loop(after)
  <2> HIDE DEF Loop
  <2> QED BY <1>6
<1>8. promote_hot(h, p) = after[EPP]
  BY DEF promote_hot, Nxt
<1> HIDE DEF after
<1>9. after[0] \in S /\ \A i \in 1 .. EPP : after[i - 1] \in S => after[i] = F[<<after[i - 1], i>>]
  BY <1>1, <1>4, <1>7, Sizes
<1>10. \A i \in 0 .. EPP : after[i] \in S
  BY <1>3, <1>9, Sizes, LoopStays
<1> QED BY <1>8, <1>10, Sizes DEF S, SoundSet

\* lru_pick_promote_hot_pages.
LEMMA PromoteAllSound ==
    ASSUME HotTableAssumption, pt \in [HotLpas -> Nat], cnt \in [HotLpas -> Heats],
           IsLru(lru), NEW P, Sound(hot, P), NEW promote \in BOOLEAN
    PROVE  Sound(PromoteAll(promote), P)
<1> DEFINE S == SoundSet(P)
           Nxt(x, i) == IF i \in Picked THEN promote_hot(x, lru[i]) ELSE x
           F == [z \in S \X (1 .. Window) |-> Nxt(z[1], z[2])]
           Loop(f) == f = [i \in 0 .. Window |-> IF i = 0 THEN hot ELSE Nxt(f[i - 1], i)]
           after == CHOOSE f : Loop(f)
<1>0. Window \in Nat /\ Window <= Len(lru) /\ lru \in Seq(Pages)
  BY WindowIs DEF IsLru
<1>1. hot \in S
  BY DEF SoundSet, Sound
<1>2. ASSUME NEW x \in S, NEW i \in 1 .. Window PROVE Nxt(x, i) \in S
  <2>1. i \in 1 .. Len(lru)
    BY <1>0
  <2>2. PICK p \in Pages : p = lru[i]
    BY <1>0, <2>1
  <2>3. Sound(x, P)
    BY DEF SoundSet
  <2>4. Sound(promote_hot(x, p), P)
    BY <2>3, PromoteHotSound
  <2>5. promote_hot(x, p) \in S
    BY <2>4 DEF SoundSet, Sound
  <2> QED BY <2>2, <2>5
<1> HIDE DEF Nxt, S
<1>3. IsStep(F, S, Window)
  BY <1>2 DEF IsStep
<1>4. \A x \in S, i \in 1 .. Window : F[<<x, i>>] = Nxt(x, i)
  OBVIOUS
<1> HIDE DEF F
<1>5. PICK g : Follows(g, F, S, Window, hot)
  BY <1>0, <1>1, <1>3, LoopExists
<1>6. Loop(g)
  <2>1. ASSUME NEW i \in 0 .. Window PROVE g[i] = IF i = 0 THEN hot ELSE Nxt(g[i - 1], i)
    <3>1. CASE i = 0
      BY <1>5, <3>1 DEF Follows
    <3>2. CASE i # 0
      <4>1. i \in 1 .. Window /\ i - 1 \in 0 .. Window
        BY <1>0, <3>2
      <4> QED BY <1>4, <1>5, <3>2, <4>1 DEF Follows
    <3> QED BY <3>1, <3>2
  <2>2. g = [i \in 0 .. Window |-> g[i]]
    BY <1>5 DEF Follows
  <2> QED BY <2>1, <2>2
<1>7. Loop(after)
  <2> HIDE DEF Loop
  <2> QED BY <1>6
<1>8. PromoteAll(promote) = IF promote THEN after[Window] ELSE hot
  BY DEF PromoteAll, Nxt
<1> HIDE DEF after
<1>9. after[0] \in S
      /\ \A i \in 1 .. Window : after[i - 1] \in S => after[i] = F[<<after[i - 1], i>>]
  <2> HIDE DEF Window
  <2>1. after[0] \in S
    BY <1>0, <1>1, <1>7
  <2>2. ASSUME NEW i \in 1 .. Window, after[i - 1] \in S
        PROVE  after[i] = F[<<after[i - 1], i>>]
    <3>1. i \in 0 .. Window /\ i # 0
      BY <1>0
    <3>2. after[i] = Nxt(after[i - 1], i)
      BY <1>7, <3>1
    <3> QED BY <1>4, <2>2, <3>2
  <2> QED BY <2>1, <2>2
<1>10. \A i \in 0 .. Window : after[i] \in S
  BY <1>0, <1>3, <1>9, LoopStays
<1> QED BY <1>0, <1>1, <1>8, <1>10 DEF S, SoundSet

-----------------------------------------------------------------------------
(***************************************************************************)
(* Clearing pages.                                                         *)
(***************************************************************************)
\* A slot of adaptive_clear_hot_page.
LEMMA ClearSlotSound ==
    ASSUME HotTableAssumption, NEW P, NEW h, Sound(h, P), NEW s \in 0 .. HotEntries(h) - 1
    PROVE  Sound(ClearSlot(h, s), P) /\ Sets(ClearSlot(h, s), h, s, Empty)
<1>1. /\ h \in Tables(P) /\ P \in Chunk .. HotCap /\ h.pages = P /\ h.valid \in Int
      /\ h.slot \in [Slots -> SlotSet]
  BY TableFields DEF Sound
<1>2. s \in Slots
  BY <1>1, SlotsInUse
<1>3. CASE h.slot[s] = Empty
  <2>1. ClearSlot(h, s) = h
    BY <1>3 DEF ClearSlot
  <2>2. h.slot = [h.slot EXCEPT ![s] = Empty]
    BY <1>1, <1>2, <1>3
  <2> QED BY <2>1, <2>2 DEF Sets
<1>4. CASE h.slot[s] # Empty
  <2>1. PICK e : e = Empty
    OBVIOUS
  <2>2. e \in SlotSet
    BY <2>1 DEF SlotSet
  <2>3. PICK t : t = Put(h, s, e)
    OBVIOUS
  <2>4. PutIs(t, h, P, s, e)
    BY <1>1, <1>2, <2>2, <2>3, PutOf
  <2>5. /\ t \in Tables(P) /\ t.valid = h.valid /\ t.pages = P
        /\ t.blocked \in Int /\ t.hotEvict \in Int /\ t.coldEvict \in Int
    BY <2>4, TableFields DEF PutIs
  <2>6. PICK v \in Int : v = Max({h.valid - 1, 0}) /\ v >= h.valid - 1
    <3>1. PICK a \in Int : a = h.valid - 1
      BY <1>1
    <3>2. CASE a >= 0
      <4>1. \E x \in {a, 0} : \A y \in {a, 0} : x >= y
        BY <3>2
      <4>2. Max({a, 0}) \in {a, 0} /\ \A y \in {a, 0} : Max({a, 0}) >= y
        BY <4>1 DEF Max
      <4> QED BY <3>1, <4>2
    <3>3. CASE ~(a >= 0)
      <4>1. \E x \in {a, 0} : \A y \in {a, 0} : x >= y
        BY <3>3
      <4>2. Max({a, 0}) \in {a, 0} /\ \A y \in {a, 0} : Max({a, 0}) >= y
        BY <4>1 DEF Max
      <4> QED BY <3>1, <4>2
    <3> QED BY <3>2, <3>3
  <2>7. PICK b \in Int, x \in Int, y \in Int : b = t.blocked /\ x = t.hotEvict /\ y = t.coldEvict
    BY <2>5
  <2>8. PICK u : u = [t EXCEPT !.valid = v]
    OBVIOUS
  <2>9. u = Recount(t, v, b, x, y)
    BY <2>5, <2>7, <2>8, TableFields DEF Recount
  <2>10. u = Recount(Put(h, s, e), v, b, x, y)
    BY <2>3, <2>9
  <2>11. Covers(v, h, s, e)
    BY <1>1, <1>4, <2>1, <2>6 DEF Covers
  <2>12. Sound(u, P) /\ Sets(u, h, s, e)
    BY <2>2, <2>10, <2>11, PutSound
  <2>13. ClearSlot(h, s) = u
    <3>1. ClearSlot(h, s) = [t EXCEPT !.valid = Max({t.valid - 1, 0})]
      BY <1>4, <2>1, <2>3 DEF ClearSlot
    <3> QED BY <2>5, <2>6, <2>8, <3>1
  <2> QED BY <2>1, <2>12, <2>13
<1> QED BY <1>3, <1>4

\* t is as h, but empty from slot a to slot b.
Blank(t, h, a, b) ==
    \A x \in Slots : t.slot[x] = IF a <= x /\ x < b THEN Empty ELSE h.slot[x]

\* adaptive_clear_hot_page for the pages between two others.
LEMMA ClearPagesSound ==
    ASSUME HotTableAssumption, NEW P, NEW h, Sound(h, P),
           NEW from \in Nat, NEW to \in Nat, from <= to, to <= P
    PROVE  /\ Sound(ClearHotPages(h, from, to), P)
           /\ Blank(ClearHotPages(h, from, to), h, from * EPP, to * EPP)
<1> DEFINE n == (to - from) * EPP
           S == SoundSet(P)
           Nxt(x, i) == ClearSlot(x, from * EPP + i - 1)
           F == [z \in S \X (1 .. n) |-> Nxt(z[1], z[2])]
           Loop(f) == f = [i \in 0 .. n |-> IF i = 0 THEN h ELSE Nxt(f[i - 1], i)]
           after == CHOOSE f : Loop(f)
<1>0. h.pages = P /\ P \in Chunk .. HotCap /\ h \in Tables(P) /\ h.slot \in [Slots -> SlotSet]
  BY TableFields DEF Sound
<1>1. HotEntries(h) \in Nat /\ 0 .. HotEntries(h) - 1 \subseteq Slots /\ P \in Nat
  BY <1>0, SlotsInUse
<1>2. PICK a \in Nat : a = from * EPP
  BY Sizes
<1>3. n \in Nat /\ a + n = to * EPP /\ a + n <= HotEntries(h)
  <2>1. PICK d \in Nat, c \in Nat : d = to - from /\ c = P - to /\ to = from + d /\ P = to + c
    <3>1. to - from \in Nat /\ P - to \in Nat
      BY <1>1
    <3> QED BY <1>1, <3>1
  <2>2. d * EPP \in Nat /\ c * EPP \in Nat /\ n = d * EPP
    BY <2>1, Sizes
  <2>3. to * EPP = from * EPP + d * EPP
    BY <2>1, Sizes
  <2>4. P * EPP = to * EPP + c * EPP
    BY <2>1, Sizes
  <2>5. HotEntries(h) = P * EPP
    BY <1>0 DEF HotEntries
  <2> QED BY <1>2, <2>2, <2>3, <2>4, <2>5
<1>4. h \in S
  BY <1>0 DEF SoundSet
<1>5. ASSUME NEW x \in S, NEW i \in 1 .. n
      PROVE  /\ Nxt(x, i) \in S /\ a + i - 1 \in Slots
             /\ Sets(Nxt(x, i), x, a + i - 1, Empty)
  <2>1. Sound(x, P) /\ x.pages = P
    BY TableFields DEF SoundSet
  <2>2. HotEntries(x) = HotEntries(h)
    BY <1>0, <2>1 DEF HotEntries
  <2>3. PICK m \in Nat : m = n
    BY <1>3
  <2>4. a + i - 1 \in 0 .. HotEntries(h) - 1
    <3> HIDE DEF n
    <3> QED BY <1>1, <1>3, <2>3
  <2>5. PICK s \in 0 .. HotEntries(x) - 1 : s = a + i - 1
    BY <2>2, <2>4
  <2>6. Sound(ClearSlot(x, s), P) /\ Sets(ClearSlot(x, s), x, s, Empty)
    BY <2>1, ClearSlotSound
  <2>7. Nxt(x, i) = ClearSlot(x, s)
    BY <1>2, <2>5
  <2>8. Sound(Nxt(x, i), P) /\ Sets(Nxt(x, i), x, s, Empty)
    BY <2>6, <2>7
  <2> HIDE DEF Nxt
  <2>9. Nxt(x, i) \in S
    BY <2>8 DEF SoundSet, Sound
  <2> QED BY <1>1, <2>4, <2>5, <2>8, <2>9
<1> HIDE DEF Nxt, S
<1>6. IsStep(F, S, n)
  BY <1>5 DEF IsStep
<1>7. \A x \in S, i \in 1 .. n : F[<<x, i>>] = Nxt(x, i)
  OBVIOUS
<1>8. ClearHotPages(h, from, to) = after[n]
  BY DEF ClearHotPages, Nxt
<1> HIDE DEF F, n
<1>9. PICK g : Follows(g, F, S, n, h)
  BY <1>3, <1>4, <1>6, LoopExists
<1>10. Loop(g)
  <2>1. ASSUME NEW i \in 0 .. n PROVE g[i] = IF i = 0 THEN h ELSE Nxt(g[i - 1], i)
    <3>1. CASE i = 0
      BY <1>9, <3>1 DEF Follows
    <3>2. CASE i # 0
      <4>1. i \in 1 .. n /\ i - 1 \in 0 .. n
        BY <1>3, <3>2
      <4> QED BY <1>7, <1>9, <3>2, <4>1 DEF Follows
    <3> QED BY <3>1, <3>2
  <2>2. g = [i \in 0 .. n |-> g[i]]
    BY <1>9 DEF Follows
  <2> QED BY <2>1, <2>2
<1>11. Loop(after)
  <2> HIDE DEF Loop
  <2> QED BY <1>10
<1> HIDE DEF after
<1>12. after[0] = h
  BY <1>3, <1>11
<1>13. ASSUME NEW i \in 1 .. n PROVE after[i] = Nxt(after[i - 1], i)
  <2>1. i \in 0 .. n /\ i # 0
    BY <1>3
  <2> QED BY <1>11, <2>1
<1>14. \A i \in 0 .. n : after[i] \in S
  <2>1. \A i \in 1 .. n : after[i - 1] \in S => after[i] = F[<<after[i - 1], i>>]
    BY <1>7, <1>13
  <2>2. after[0] \in S
    BY <1>4, <1>12
  <2> QED BY <1>3, <1>6, <2>1, <2>2, LoopStays
<1> DEFINE T == { i \in 0 .. n : Blank(after[i], h, a, a + i) }
<1>15. 0 \in T
  BY <1>2, <1>3, <1>12 DEF Blank, Slots
<1>16. ASSUME NEW i \in 1 .. n, i - 1 \in T PROVE i \in T
  <2>1. PICK x \in S, y \in S : x = after[i - 1] /\ y = after[i]
    <3>1. i - 1 \in 0 .. n /\ i \in 0 .. n
      BY <1>3
    <3> QED BY <1>14, <3>1
  <2>2. y = Nxt(x, i)
    BY <1>13, <2>1
  <2>3. PICK s \in Slots : s = a + i - 1 /\ Sets(y, x, s, Empty)
    BY <1>5, <2>2
  <2>4. Blank(x, h, a, a + (i - 1))
    BY <1>16, <2>1
  <2>5. x.slot \in [Slots -> SlotSet]
    BY TableFields DEF S, SoundSet
  <2>6. ASSUME NEW z \in Slots
        PROVE  y.slot[z] = IF a <= z /\ z < a + i THEN Empty ELSE h.slot[z]
    <3>1. z \in Int /\ s \in Int
      BY DEF Slots
    <3>2. y.slot[z] = IF z = s THEN Empty ELSE x.slot[z]
      BY <2>3, <2>5 DEF Sets
    <3>3. x.slot[z] = IF a <= z /\ z < a + (i - 1) THEN Empty ELSE h.slot[z]
      BY <2>4 DEF Blank
    <3>4. CASE z = s
      BY <1>2, <2>3, <3>1, <3>2, <3>4
    <3>5. CASE z # s
      <4>1. (z < a + i) <=> (z < a + (i - 1))
        BY <1>2, <2>3, <3>1, <3>5
      <4> QED BY <3>2, <3>3, <3>5, <4>1
    <3> QED BY <3>4, <3>5
  <2>7. Blank(y, h, a, a + i)
    BY <2>6 DEF Blank
  <2> QED BY <2>1, <2>7
<1>17. n \in T
  <2> HIDE DEF T
  <2>1. \A i \in 0 .. n : i \in T
    BY <1>3, <1>15, <1>16, CountUp
  <2> QED BY <1>3, <2>1
<1> QED BY <1>2, <1>3, <1>8, <1>14, <1>17 DEF S, SoundSet

-----------------------------------------------------------------------------
(***************************************************************************)
(* The rehash.                                                             *)
(***************************************************************************)
\* Where hot_rehash_place_entry can put an entry.
Takes(h, e, s) == h.slot[s] = Empty \/ h.slot[s].lpa = e.lpa

\* s is where a hit looks for e, unless no slot there can take e.
Looked(h, e, s) == s \in Sought(h, e.lpa) \/ \A y \in Sought(h, e.lpa) : ~Takes(h, e, y)

\* It puts it there unless no slot in use can take it, and first where a hit looks.
LEMMA PlaceIs ==
    ASSUME HotTableAssumption, NEW P, NEW h, Sound(h, P), NEW e, e \in Held
    PROVE  \/ \E s \in 0 .. HotEntries(h) - 1 :
                 /\ Takes(h, e, s) /\ Looked(h, e, s)
                 /\ PlaceEntry(h, e) = [Put(h, s, e) EXCEPT !.valid = @ + 1]
           \/ PlaceEntry(h, e) = h /\ \A s \in 0 .. HotEntries(h) - 1 : ~Takes(h, e, s)
<1>1. h.pages \in Chunk .. HotCap
  BY TableFields DEF Sound
<1>2. PICK chain : chain = Chain(h, e.lpa, RehashProbe)
  OBVIOUS
<1>3. chain \in [1 .. RehashProbe -> 0 .. HotEntries(h) - 1]
  BY <1>1, <1>2, ChainIn, HeldIs, Sizes
<1>4. HotEntries(h) \in Nat
  BY <1>1, SlotsInUse
<1>5. PICK primary : primary = { i \in DOMAIN chain : Takes(h, e, chain[i]) }
  OBVIOUS
<1>6. PICK fallback : fallback = { s \in 0 .. HotEntries(h) - 1 : Takes(h, e, s) }
  OBVIOUS
<1>7. PICK at : at = IF primary # {} THEN chain[Min(primary)] ELSE Min(fallback)
  OBVIOUS
<1>8. PlaceEntry(h, e) = IF primary \cup fallback = {} THEN h
                         ELSE [Put(h, at, e) EXCEPT !.valid = @ + 1]
  BY <1>2, <1>5, <1>6, <1>7 DEF PlaceEntry, Takes
<1>12. e.lpa \in HotLpas /\ MaxProbe \in Nat /\ MaxProbe > 0 /\ RehashProbe \in Nat
       /\ MaxProbe <= RehashProbe
  BY HeldIs, Sizes DEF HotTableAssumption
<1>13. PICK short : short = Chain(h, e.lpa, MaxProbe)
  OBVIOUS
<1>14. \A i \in 1 .. MaxProbe : short[i] = chain[i]
  BY <1>1, <1>2, <1>12, <1>13, SameChain
<1>15. Sought(h, e.lpa) = { chain[i] : i \in 1 .. MaxProbe }
  BY <1>13, <1>14 DEF Sought
<1>16. \A i \in 1 .. MaxProbe : i \in DOMAIN chain
  BY <1>3, <1>12
<1>9. CASE primary # {}
  <2>1. primary \in SUBSET Nat
    BY <1>3, <1>5
  <2>2. Min(primary) \in primary /\ \A y \in primary : Min(primary) <= y
    BY <1>9, <2>1, LeastOne DEF Min
  <2>3. at \in 0 .. HotEntries(h) - 1 /\ Takes(h, e, at)
    BY <1>3, <1>5, <1>7, <1>9, <2>2
  <2>4. Looked(h, e, at)
    <3>1. PICK m \in 1 .. RehashProbe : m = Min(primary) /\ at = chain[m]
      BY <1>3, <1>5, <1>7, <1>9, <2>2
    <3>2. CASE m <= MaxProbe
      <4>1. m \in 1 .. MaxProbe
        BY <1>12, <3>2
      <4> QED BY <1>15, <3>1, <4>1 DEF Looked
    <3>3. CASE ~(m <= MaxProbe)
      <4>1. ASSUME NEW i \in 1 .. MaxProbe PROVE ~Takes(h, e, chain[i])
        <5>1. ~(m <= i)
          BY <1>12, <3>3
        <5>2. i \notin primary
          BY <2>2, <3>1, <5>1
        <5> QED BY <1>5, <1>16, <5>2
      <4> QED BY <1>15, <4>1 DEF Looked
    <3> QED BY <3>2, <3>3
  <2> QED BY <1>8, <1>9, <2>3, <2>4
<1>10. CASE primary = {} /\ fallback # {}
  <2>1. fallback \in SUBSET Nat
    BY <1>4, <1>6
  <2>2. Min(fallback) \in fallback
    BY <1>10, <2>1, MinIsIn
  <2>3. at \in 0 .. HotEntries(h) - 1 /\ Takes(h, e, at)
    BY <1>6, <1>7, <1>10, <2>2
  <2>4. \A i \in 1 .. MaxProbe : ~Takes(h, e, chain[i])
    BY <1>5, <1>10, <1>16
  <2>5. Looked(h, e, at)
    BY <1>15, <2>4 DEF Looked
  <2> QED BY <1>8, <1>10, <2>3, <2>5
<1>11. CASE primary = {} /\ fallback = {}
  BY <1>6, <1>8, <1>11
<1> QED BY <1>9, <1>10, <1>11

\* A set of slots with every slot in use has that many.
LEMMA AllUsed ==
    ASSUME HotTableAssumption, NEW P, NEW h, Sound(h, P),
           \A s \in 0 .. HotEntries(h) - 1 : h.slot[s] # Empty
    PROVE  Cardinality(Used(h)) \in Nat /\ Cardinality(Used(h)) >= HotEntries(h)
<1>1. h.pages \in Chunk .. HotCap
  BY TableFields DEF Sound
<1>2. PICK n \in Nat : n = HotEntries(h)
  BY <1>1, SlotsInUse
<1>3. 0 .. n - 1 \subseteq Used(h) /\ Used(h) \in SUBSET Slots
  BY <1>1, <1>2, SlotsInUse DEF Used
<1>4. IsFiniteSet(Used(h)) /\ Cardinality(Used(h)) \in Nat
  BY <1>3, SlotsFinite
<1>5. Cardinality(0 .. n - 1) = n
  <2>1. 0 \in Int /\ n - 1 \in Int
    OBVIOUS
  <2>2. Cardinality(0 .. n - 1) = IF 0 > n - 1 THEN 0 ELSE (n - 1) - 0 + 1
    BY <2>1, FS_Interval
  <2> QED BY <2>2
<1>6. Cardinality(0 .. n - 1) <= Cardinality(Used(h))
  BY <1>3, <1>4, FS_Subset
<1> QED BY <1>2, <1>4, <1>5, <1>6

\* t holds a warm entry of lpa l in a slot in use.
Keeps(t, l) ==
    \E y \in 0 .. HotEntries(t) - 1 : t.slot[y].lpa = l /\ t.slot[y].state >= Warm

\* A hit finds an entry of lpa l, or every place where it looks is taken.
Reached(t, l) == \/ \E s \in Sought(t, l) : t.slot[s].lpa = l
                 \/ \A s \in Sought(t, l) : t.slot[s] # Empty
AllReached(t) == \A x \in Used(t) : Reached(t, t.slot[x].lpa)

\* t has at most i entries, among them those of the first i slots of h that are warm, and a
\* hit finds them unless its places are taken.
Placed(t, h, i) ==
    /\ Cardinality(Used(t)) <= i /\ AllReached(t)
    /\ \A x \in 0 .. i - 1 :
          h.slot[x] # Empty /\ h.slot[x].state >= Warm => Keeps(t, h.slot[x].lpa)

\* Placing an entry where hot_rehash_place_entry does hides no entry from the hits.
LEMMA PlaceReaches ==
    ASSUME HotTableAssumption, NEW P, NEW h, Sound(h, P), NEW e, e \in Held,
           NEW s \in 0 .. HotEntries(h) - 1, Takes(h, e, s), Looked(h, e, s), AllReached(h),
           NEW t, Sound(t, P), Sets(t, h, s, e)
    PROVE  AllReached(t)
<1>1. h.pages = P /\ t.pages = P /\ P \in Chunk .. HotCap /\ h.slot \in [Slots -> SlotSet]
  BY TableFields DEF Sound
<1>2. s \in Slots /\ 0 .. HotEntries(h) - 1 \subseteq Slots
  BY <1>1, SlotsInUse
<1>3. e \in SlotSet /\ e # Empty /\ e.lpa \in HotLpas
  BY HeldIs
<1>4. \A x \in Slots : t.slot[x] = IF x = s THEN e ELSE h.slot[x]
  BY <1>1 DEF Sets
<1>5. ASSUME NEW l \in HotLpas
      PROVE  Sought(t, l) = Sought(h, l) /\ Sought(h, l) \subseteq Slots
  BY <1>1, <1>2, SoughtIs
<1>6. ASSUME NEW y \in Slots, h.slot[y] # Empty
      PROVE  t.slot[y] # Empty /\ t.slot[y].lpa = h.slot[y].lpa
  BY <1>3, <1>4, <1>6 DEF Takes
<1>7. ASSUME NEW l \in HotLpas, Reached(h, l) PROVE Reached(t, l)
  <2>1. CASE \E y \in Sought(h, l) : h.slot[y].lpa = l
    <3>1. PICK y \in Sought(h, l) : h.slot[y].lpa = l
      BY <2>1
    <3>2. y \in Slots
      BY <1>5
    <3>3. h.slot[y] # Empty
      <4>1. h.slot[y] \in SlotSet
        BY <1>1, <3>2
      <4> QED BY <3>1, <4>1, SlotHolds
    <3>4. t.slot[y].lpa = l
      BY <1>6, <3>1, <3>2, <3>3
    <3> QED BY <1>5, <3>4 DEF Reached
  <2>2. CASE \A y \in Sought(h, l) : h.slot[y] # Empty
    <3>1. \A y \in Sought(h, l) : t.slot[y] # Empty
      BY <1>5, <1>6, <2>2
    <3> QED BY <1>5, <3>1 DEF Reached
  <2> QED BY <1>7, <2>1, <2>2 DEF Reached
<1>8. Reached(t, e.lpa)
  <2>1. CASE s \in Sought(h, e.lpa)
    <3>1. t.slot[s].lpa = e.lpa
      BY <1>2, <1>4
    <3> QED BY <1>3, <1>5, <2>1, <3>1 DEF Reached
  <2>2. CASE \A y \in Sought(h, e.lpa) : ~Takes(h, e, y)
    <3>1. \A y \in Sought(h, e.lpa) : h.slot[y] # Empty
      BY <2>2 DEF Takes
    <3>2. \A y \in Sought(h, e.lpa) : t.slot[y] # Empty
      BY <1>3, <1>5, <1>6, <3>1
    <3> QED BY <1>3, <1>5, <3>2 DEF Reached
  <2> QED BY <2>1, <2>2 DEF Looked
<1>9. ASSUME NEW x \in Used(t) PROVE Reached(t, t.slot[x].lpa)
  <2>1. x \in Slots /\ t.slot[x] # Empty
    BY DEF Used
  <2>2. CASE x = s
    BY <1>4, <1>8, <2>1, <2>2
  <2>3. CASE x # s
    <3>1. t.slot[x] = h.slot[x] /\ x \in Used(h)
      BY <1>4, <2>1, <2>3 DEF Used
    <3>2. h.slot[x].lpa \in HotLpas
      <4>1. h.slot[x] \in SlotSet /\ h.slot[x] # Empty
        BY <1>1, <2>1, <3>1
      <4> QED BY <4>1, SlotHolds
    <3>3. Reached(h, h.slot[x].lpa)
      BY <3>1 DEF AllReached
    <3> QED BY <1>7, <3>1, <3>2, <3>3
  <2> QED BY <2>2, <2>3
<1> QED BY <1>9 DEF AllReached

\* Placing a warm entry in a table that is not full loses no other and keeps it.
LEMMA PlaceSound ==
    ASSUME HotTableAssumption, NEW P, NEW h, Sound(h, P), NEW e, e \in Held, e.state >= Warm,
           NEW i \in Nat, i < HotEntries(h), Cardinality(Used(h)) <= i
    PROVE  LET t == PlaceEntry(h, e) IN
           /\ Sound(t, P) /\ Cardinality(Used(t)) <= i + 1
           /\ Keeps(t, e.lpa) /\ \A l : Keeps(h, l) => Keeps(t, l)
           /\ AllReached(h) => AllReached(t)
<1>1. h.pages = P /\ h.pages \in Chunk .. HotCap /\ h \in Tables(P) /\ h.slot \in [Slots -> SlotSet]
  BY TableFields DEF Sound
<1>2. PICK n \in Nat : n = HotEntries(h) /\ 0 .. n - 1 \subseteq Slots
  BY <1>1, SlotsInUse
<1>3. e \in SlotSet /\ e # Empty
  BY HeldIs
<1>4. \E s \in 0 .. HotEntries(h) - 1 :
         /\ Takes(h, e, s) /\ Looked(h, e, s)
         /\ PlaceEntry(h, e) = [Put(h, s, e) EXCEPT !.valid = @ + 1]
  <2> SUFFICES ASSUME \A s \in 0 .. HotEntries(h) - 1 : ~Takes(h, e, s) PROVE FALSE
    BY PlaceIs
  <2>1. \A s \in 0 .. HotEntries(h) - 1 : h.slot[s] # Empty
    BY DEF Takes
  <2>2. Cardinality(Used(h)) \in Nat /\ Cardinality(Used(h)) >= HotEntries(h)
    BY <2>1, AllUsed
  <2> QED BY <1>2, <2>2
<1>5. PICK s \in 0 .. HotEntries(h) - 1 :
         /\ Takes(h, e, s) /\ Looked(h, e, s)
         /\ PlaceEntry(h, e) = [Put(h, s, e) EXCEPT !.valid = @ + 1]
  BY <1>4
<1>6. PICK t : t = PlaceEntry(h, e)
  OBVIOUS
<1>7. Sound(t, P) /\ Sets(t, h, s, e)
  BY <1>3, <1>5, <1>6, PutOneMore
<1>8. s \in Slots
  BY <1>2, <1>5
<1>9. HotEntries(t) = n
  <2>1. t.pages = P
    BY <1>7, TableFields DEF Sound
  <2> QED BY <1>1, <1>2, <2>1 DEF HotEntries
<1>10. \A x \in Slots : t.slot[x] = IF x = s THEN e ELSE h.slot[x]
  BY <1>1, <1>7 DEF Sets
<1>11. Cardinality(Used(t)) <= i + 1
  <2>1. Used(t) \in SUBSET Slots /\ Used(h) \in SUBSET Slots
    BY DEF Used
  <2>2. Used(h) \ {s} = Used(t) \ {s}
    BY <1>10 DEF Used
  <2>3. Cardinality(Used(t)) = Cardinality(Used(h))
            - (IF s \in Used(h) THEN 1 ELSE 0) + (IF s \in Used(t) THEN 1 ELSE 0)
    BY <1>8, <2>1, <2>2, OneSlot
  <2>4. PICK c \in Nat : c = Cardinality(Used(h))
    BY <2>1, SlotsFinite
  <2> QED BY <2>3, <2>4
<1>12. Keeps(t, e.lpa)
  BY <1>2, <1>5, <1>8, <1>9, <1>10 DEF Keeps
<1>13. ASSUME NEW l, Keeps(h, l) PROVE Keeps(t, l)
  <2>1. PICK y \in 0 .. n - 1 : h.slot[y].lpa = l /\ h.slot[y].state >= Warm
    BY <1>2, <1>13 DEF Keeps
  <2>2. y \in Slots
    BY <1>2
  <2>3. CASE y # s
    <3>1. t.slot[y] = h.slot[y]
      BY <1>10, <2>2, <2>3
    <3> QED BY <1>9, <2>1, <3>1 DEF Keeps
  <2>4. CASE y = s
    <3>1. h.slot[y] # Empty
      <4>1. h.slot[y] = Empty => h.slot[y].state = 0
        BY <1>1, <2>2, SlotHolds
      <4> QED BY <2>1, <4>1, Sizes
    <3>2. l = e.lpa
      BY <1>5, <2>1, <2>4, <3>1 DEF Takes
    <3> QED BY <1>12, <3>2
  <2> QED BY <2>3, <2>4
<1>14. AllReached(h) => AllReached(t)
  BY <1>5, <1>7, PlaceReaches
<1> QED BY <1>6, <1>7, <1>11, <1>12, <1>13, <1>14

\* An empty table.
LEMMA EmptyTable ==
    ASSUME HotTableAssumption, NEW P \in Chunk .. HotCap, NEW b \in Int, NEW x \in Int, NEW y \in Int,
           NEW sl, sl = [s \in Slots |-> Empty],
           NEW t, t = [slot |-> sl, pages |-> P, live |-> NoneLive, valid |-> 0,
                       blocked |-> b, hotEvict |-> x, coldEvict |-> y]
    PROVE  Sound(t, P) /\ t.slot = sl /\ Used(t) = {} /\ t.pages = P
<1>1. t.slot = sl /\ t.live = NoneLive /\ t.valid = 0 /\ t.pages = P
  OBVIOUS
<1>2. NoneLive \in [Heats -> Int] /\ sl \in [Slots -> SlotSet]
  BY DEF NoneLive, SlotSet
<1>3. t \in Tables(P)
  BY <1>2 DEF Tables
<1>4. Used(t) = {}
  BY <1>1 DEF Used
<1>5. Cardinality({}) = 0
  BY FS_EmptySet
<1>6. HeatsExact(t)
  <2> SUFFICES ASSUME NEW z \in Heats PROVE t.live[z] = Cardinality(OfHeat(t, z))
    BY DEF HeatsExact
  <2>1. OfHeat(t, z) = {}
    BY <1>4 DEF OfHeat
  <2> QED BY <1>1, <1>5, <2>1 DEF NoneLive
<1>7. Within(t)
  BY <1>4 DEF Within
<1>8. t.valid >= Cardinality(Used(t))
  BY <1>1, <1>4, <1>5
<1> QED BY <1>1, <1>3, <1>4, <1>6, <1>7, <1>8 DEF Sound, Counted

\* Emptying the table, as hot_rehash_begin and dftl_cache_hot_reset do.
LEMMA EmptiedSound ==
    ASSUME HotTableAssumption, NEW P, NEW h, Sound(h, P), NEW b \in Int, NEW x \in Int, NEW y \in Int,
           NEW t, t = [slot |-> [s \in Slots |-> IF s < HotEntries(h) THEN Empty ELSE h.slot[s]],
                       pages |-> h.pages, live |-> NoneLive, valid |-> 0,
                       blocked |-> b, hotEvict |-> x, coldEvict |-> y]
    PROVE  Sound(t, P) /\ Used(t) = {} /\ t.pages = P
<1>1. P \in Chunk .. HotCap /\ h.pages = P /\ h.slot \in [Slots -> SlotSet] /\ Within(h)
  BY TableFields DEF Sound, Counted
<1>2. \A s \in Slots : h.slot[s] = Empty \/ s < HotEntries(h)
  BY <1>1 DEF Within, Used
<1>3. PICK sl : sl = [s \in Slots |-> IF s < HotEntries(h) THEN Empty ELSE h.slot[s]]
  OBVIOUS
<1>4. sl = [s \in Slots |-> Empty]
  BY <1>2, <1>3
<1>5. t = [slot |-> sl, pages |-> P, live |-> NoneLive, valid |-> 0,
           blocked |-> b, hotEvict |-> x, coldEvict |-> y]
  BY <1>1, <1>3
<1> QED BY <1>1, <1>4, <1>5, EmptyTable

\* hot_rehash_begin.
LEMMA ClearedSound ==
    ASSUME HotTableAssumption, NEW P, NEW h, Sound(h, P)
    PROVE  Sound(Cleared(h), P) /\ Used(Cleared(h)) = {}
<1>1. /\ h = [slot |-> h.slot, pages |-> h.pages, live |-> h.live, valid |-> h.valid,
              blocked |-> h.blocked, hotEvict |-> h.hotEvict, coldEvict |-> h.coldEvict]
      /\ h.blocked \in Int /\ h.hotEvict \in Int /\ h.coldEvict \in Int
  <2>1. h \in Tables(P)
    BY DEF Sound
  <2> QED BY <2>1, TableFields
<1>2. PICK b \in Int, x \in Int, y \in Int : b = h.blocked /\ x = h.hotEvict /\ y = h.coldEvict
  BY <1>1
<1>3. PICK sl : sl = [s \in Slots |-> IF s < HotEntries(h) THEN Empty ELSE h.slot[s]]
  OBVIOUS
<1>4. Cleared(h) = [slot |-> sl, pages |-> h.pages, live |-> NoneLive, valid |-> 0,
                    blocked |-> b, hotEvict |-> x, coldEvict |-> y]
  <2>1. Cleared(h) = [h EXCEPT !.slot = sl, !.live = NoneLive, !.valid = 0]
    BY <1>3 DEF Cleared
  <2>2. PICK u : u = [h EXCEPT !.slot = sl]
    OBVIOUS
  <2>3. PICK w : w = [u EXCEPT !.live = NoneLive]
    OBVIOUS
  <2>4. u = [slot |-> sl, pages |-> h.pages, live |-> h.live, valid |-> h.valid,
             blocked |-> b, hotEvict |-> x, coldEvict |-> y]
    BY <1>1, <1>2, <2>2
  <2>5. w = [slot |-> sl, pages |-> h.pages, live |-> NoneLive, valid |-> h.valid,
             blocked |-> b, hotEvict |-> x, coldEvict |-> y]
    BY <2>3, <2>4
  <2>6. Cleared(h) = [w EXCEPT !.valid = 0]
    BY <2>1, <2>2, <2>3
  <2> QED BY <2>5, <2>6
<1>5. PICK t : t = Cleared(h)
  OBVIOUS
<1>6. t = [slot |-> [s \in Slots |-> IF s < HotEntries(h) THEN Empty ELSE h.slot[s]],
           pages |-> h.pages, live |-> NoneLive, valid |-> 0,
           blocked |-> b, hotEvict |-> x, coldEvict |-> y]
  BY <1>3, <1>4, <1>5
<1>7. Sound(t, P) /\ Used(t) = {}
  BY <1>6, EmptiedSound
<1> QED BY <1>5, <1>7

\* A turn of the rehash.
LEMMA AgainSound ==
    ASSUME HotTableAssumption, NEW P, NEW h, Sound(h, P), NEW t, Sound(t, P),
           NEW i \in 1 .. HotEntries(h)
    PROVE  /\ Sound(Again(t, h.slot[i - 1]), P)
           /\ Placed(t, h, i - 1) => Placed(Again(t, h.slot[i - 1]), h, i)
<1>1. h.pages = P /\ P \in Chunk .. HotCap /\ h.slot \in [Slots -> SlotSet] /\ t.pages = P
  BY TableFields DEF Sound
<1>2. PICK n \in Nat : n = HotEntries(h) /\ n = HotEntries(t) /\ 0 .. n - 1 \subseteq Slots
  BY <1>1, SlotsInUse DEF HotEntries
<1>3. PICK k \in Nat : k = i - 1 /\ i = k + 1 /\ k < n /\ k \in Slots
  <2>1. i - 1 \in Nat /\ i - 1 < n /\ i - 1 \in 0 .. n - 1 /\ i = (i - 1) + 1
    BY <1>2
  <2> QED BY <1>2, <2>1
<1>4. PICK e \in SlotSet : e = h.slot[k]
  BY <1>1, <1>3
<1>5. Used(t) \in SUBSET Slots
  BY DEF Used
<1>6. PICK c \in Nat : c = Cardinality(Used(t))
  BY <1>5, SlotsFinite
<1>7. CASE ~(e # Empty /\ e.state >= Warm)
  <2>1. Again(t, e) = t
    BY <1>7 DEF Again
  <2>2. ASSUME Placed(t, h, k) PROVE Placed(t, h, k + 1)
    <3>1. Cardinality(Used(t)) <= k + 1
      BY <1>6, <2>2 DEF Placed
    <3>2. ASSUME NEW x \in 0 .. k + 1 - 1, h.slot[x] # Empty, h.slot[x].state >= Warm
          PROVE  Keeps(t, h.slot[x].lpa)
      <4>1. x # k
        BY <1>4, <1>7, <3>2
      <4>2. x \in 0 .. k - 1
        BY <4>1
      <4> QED BY <2>2, <3>2, <4>2 DEF Placed
    <3>3. AllReached(t)
      BY <2>2 DEF Placed
    <3> QED BY <3>1, <3>2, <3>3 DEF Placed
  <2> QED BY <1>3, <1>4, <2>1, <2>2
<1>8. CASE e # Empty /\ e.state >= Warm
  <2>1. PICK u : u = PlaceEntry(t, e)
    OBVIOUS
  <2>2. Again(t, e) = u
    BY <1>8, <2>1 DEF Again
  <2>3. e \in Held
    BY <1>8, SlotHolds
  <2>4. Sound(u, P)
    <3>1. CASE PlaceEntry(t, e) = t
      BY <2>1, <3>1
    <3>2. CASE \E s \in 0 .. HotEntries(t) - 1 : PlaceEntry(t, e) = [Put(t, s, e) EXCEPT !.valid = @ + 1]
      <4>1. PICK s \in 0 .. HotEntries(t) - 1 : u = [Put(t, s, e) EXCEPT !.valid = @ + 1]
        BY <2>1, <3>2
      <4> QED BY <4>1, PutOneMore
    <3> QED BY <2>3, <3>1, <3>2, PlaceIs
  <2>5. ASSUME Placed(t, h, k) PROVE Placed(u, h, k + 1)
    <3>1. Cardinality(Used(t)) <= k /\ AllReached(t)
      BY <2>5 DEF Placed
    <3>2. k < HotEntries(t)
      BY <1>2, <1>3
    <3>3. /\ Sound(u, P) /\ Cardinality(Used(u)) <= k + 1
          /\ Keeps(u, e.lpa) /\ \A l : Keeps(t, l) => Keeps(u, l)
          /\ AllReached(u)
      BY <1>8, <2>1, <2>3, <3>1, <3>2, PlaceSound
    <3>4. ASSUME NEW x \in 0 .. k + 1 - 1, h.slot[x] # Empty, h.slot[x].state >= Warm
          PROVE  Keeps(u, h.slot[x].lpa)
      <4>1. CASE x = k
        BY <1>4, <3>3, <4>1
      <4>2. CASE x # k
        <5>1. x \in 0 .. k - 1
          BY <4>2
        <5>2. Keeps(t, h.slot[x].lpa)
          BY <2>5, <3>4, <5>1 DEF Placed
        <5> QED BY <3>3, <5>2
      <4> QED BY <4>1, <4>2
    <3> QED BY <3>3, <3>4 DEF Placed
  <2> QED BY <1>3, <1>4, <2>2, <2>4, <2>5
<1> QED BY <1>7, <1>8

\* A rehash keeps the counts exact and loses no warm entry.
LEMMA RehashSound ==
    ASSUME HotTableAssumption, NEW P, NEW h, Sound(h, P)
    PROVE  Sound(rehash(h), P) /\ Placed(rehash(h), h, HotEntries(h))
<1> DEFINE n == HotEntries(h)
           S == SoundSet(P)
           Nxt(x, i) == Again(x, h.slot[i - 1])
           F == [z \in S \X (1 .. n) |-> Nxt(z[1], z[2])]
           Loop(f) == f = [i \in 0 .. n |-> IF i = 0 THEN Cleared(h) ELSE Nxt(f[i - 1], i)]
           after == CHOOSE f : Loop(f)
<1>1. n \in Nat
  <2>1. h.pages \in Chunk .. HotCap
    BY TableFields DEF Sound
  <2> QED BY <2>1, SlotsInUse
<1>2. PICK first \in S : first = Cleared(h) /\ Used(first) = {}
  BY ClearedSound DEF SoundSet, Sound
<1>3. ASSUME NEW x \in S, NEW i \in 1 .. n
      PROVE  Nxt(x, i) \in S /\ (Placed(x, h, i - 1) => Placed(Nxt(x, i), h, i))
  <2>1. Sound(x, P)
    BY DEF SoundSet
  <2>2. /\ Sound(Again(x, h.slot[i - 1]), P)
        /\ Placed(x, h, i - 1) => Placed(Again(x, h.slot[i - 1]), h, i)
    BY <2>1, AgainSound
  <2> QED BY <2>2 DEF SoundSet, Sound
<1> HIDE DEF Nxt, S
<1>6. IsStep(F, S, n)
  BY <1>3 DEF IsStep
<1>7. \A x \in S, i \in 1 .. n : F[<<x, i>>] = Nxt(x, i)
  OBVIOUS
<1>8. rehash(h) = after[n]
  BY DEF rehash, Nxt
<1> HIDE DEF F, n
<1>9. PICK g : Follows(g, F, S, n, first)
  BY <1>1, <1>6, LoopExists
<1>10. Loop(g)
  <2>1. ASSUME NEW i \in 0 .. n PROVE g[i] = IF i = 0 THEN Cleared(h) ELSE Nxt(g[i - 1], i)
    <3>1. CASE i = 0
      BY <1>2, <1>9, <3>1 DEF Follows
    <3>2. CASE i # 0
      <4>1. i \in 1 .. n /\ i - 1 \in 0 .. n
        BY <1>1, <3>2
      <4> QED BY <1>7, <1>9, <3>2, <4>1 DEF Follows
    <3> QED BY <3>1, <3>2
  <2>2. g = [i \in 0 .. n |-> g[i]]
    BY <1>9 DEF Follows
  <2> QED BY <2>1, <2>2
<1>11. Loop(after)
  <2> HIDE DEF Loop
  <2> QED BY <1>10
<1> HIDE DEF after
<1>12. after[0] = first
  BY <1>1, <1>2, <1>11
<1>13. ASSUME NEW i \in 1 .. n PROVE after[i] = Nxt(after[i - 1], i)
  <2>1. i \in 0 .. n /\ i # 0
    BY <1>1
  <2> QED BY <1>11, <2>1
<1>14. \A i \in 0 .. n : after[i] \in S
  <2>1. \A i \in 1 .. n : after[i - 1] \in S => after[i] = F[<<after[i - 1], i>>]
    BY <1>7, <1>13
  <2>2. after[0] \in S
    BY <1>2, <1>12
  <2> QED BY <1>1, <1>6, <2>1, <2>2, LoopStays
<1> DEFINE T == { i \in 0 .. n : Placed(after[i], h, i) }
<1>15. 0 \in T
  <2>1. Placed(first, h, 0)
    BY <1>2, FS_EmptySet DEF Placed, AllReached
  <2> QED BY <1>1, <1>12, <2>1
<1>16. ASSUME NEW i \in 1 .. n, i - 1 \in T PROVE i \in T
  <2>1. PICK x \in S : x = after[i - 1] /\ i \in 0 .. n
    <3>1. i - 1 \in 0 .. n /\ i \in 0 .. n
      BY <1>1
    <3> QED BY <1>14, <3>1
  <2>2. Placed(x, h, i - 1)
    BY <1>16, <2>1
  <2>3. Placed(Nxt(x, i), h, i)
    BY <1>3, <2>2
  <2> QED BY <1>13, <2>1, <2>3
<1>17. n \in T
  <2> HIDE DEF T
  <2>1. \A i \in 0 .. n : i \in T
    BY <1>1, <1>15, <1>16, CountUp
  <2> QED BY <1>1, <2>1
<1> QED BY <1>1, <1>8, <1>14, <1>17 DEF S, SoundSet, n

-----------------------------------------------------------------------------
(***************************************************************************)
(* Ghosts.                                                                 *)
(***************************************************************************)
\* Sets of pages are finite.
LEMMA PagesFinite ==
    ASSUME HotTableAssumption, NEW A \in SUBSET Pages
    PROVE  IsFiniteSet(A) /\ Cardinality(A) \in Nat
<1>1. IsFiniteSet(Pages)
  BY Sizes, FS_Interval DEF Pages
<1> QED BY <1>1, FS_Subset, FS_CardinalityType

\* The parts of ghosts.
LEMMA GhostParts ==
    ASSUME NEW g, IsGhosts(g)
    PROVE  /\ g = [marks |-> g.marks, nr |-> g.nr, fifo |-> g.fifo, rr |-> g.rr]
           /\ g.marks \in SUBSET Pages /\ g.nr \in Nat /\ g.fifo \in Seq(Pages) /\ g.rr \in Pages
           /\ g.nr = Cardinality(g.marks)
BY DEF IsGhosts, GhostSet

\* Parts that make ghosts.
LEMMA GhostsOf ==
    ASSUME NEW g, NEW a \in SUBSET Pages, NEW n \in Nat, n = Cardinality(a),
           NEW q \in Seq(Pages), NEW x \in Pages,
           g = [marks |-> a, nr |-> n, fifo |-> q, rr |-> x]
    PROVE  IsGhosts(g) /\ g.marks = a
BY DEF IsGhosts, GhostSet

\* A page loses its mark.
LEMMA UnmarkIs ==
    ASSUME HotTableAssumption, NEW g, IsGhosts(g), NEW p \in g.marks
    PROVE  /\ Unmark(g, p) = [marks |-> g.marks \ {p}, nr |-> g.nr - 1, fifo |-> g.fifo, rr |-> g.rr]
           /\ g.nr - 1 \in Nat /\ g.nr - 1 = Cardinality(g.marks \ {p})
<1>1. /\ g = [marks |-> g.marks, nr |-> g.nr, fifo |-> g.fifo, rr |-> g.rr]
      /\ g.marks \in SUBSET Pages /\ g.nr \in Nat /\ g.nr = Cardinality(g.marks)
  BY GhostParts
<1>2. IsFiniteSet(g.marks) /\ Cardinality(g.marks \ {p}) \in Nat
  BY <1>1, PagesFinite
<1>3. Cardinality(g.marks \ {p}) = g.nr - 1
  BY <1>1, <1>2, FS_RemoveElement
<1>4. g.nr > 0
  BY <1>1, <1>2, <1>3
<1>5. Unmark(g, p) = [g EXCEPT !.marks = g.marks \ {p}, !.nr = g.nr - 1]
  BY <1>4 DEF Unmark
<1>6. PICK u : u = [g EXCEPT !.marks = g.marks \ {p}]
  OBVIOUS
<1>7. Unmark(g, p) = [u EXCEPT !.nr = g.nr - 1]
  BY <1>5, <1>6
<1>8. u = [marks |-> g.marks \ {p}, nr |-> g.nr, fifo |-> g.fifo, rr |-> g.rr]
  BY <1>1, <1>6
<1>9. Unmark(g, p) = [marks |-> g.marks \ {p}, nr |-> g.nr - 1, fifo |-> g.fifo, rr |-> g.rr]
  BY <1>7, <1>8
<1> QED BY <1>2, <1>3, <1>9

\* ghost_cold_fifo_evict_oldest unmarks at most.
LEMMA OldestGhosts ==
    ASSUME HotTableAssumption, NEW g, IsGhosts(g)
    PROVE  IsGhosts(evict_oldest(g)) /\ evict_oldest(g).marks \subseteq g.marks
<1>1. /\ g = [marks |-> g.marks, nr |-> g.nr, fifo |-> g.fifo, rr |-> g.rr]
      /\ g.marks \in SUBSET Pages /\ g.nr \in Nat /\ g.fifo \in Seq(Pages) /\ g.rr \in Pages
      /\ g.nr = Cardinality(g.marks)
  BY GhostParts
<1>2. PICK live : live = { i \in DOMAIN g.fifo : g.fifo[i] \in g.marks }
  OBVIOUS
<1>3. PICK found : found = { k \in 0 .. ScanSteps - 1 : (g.rr + k) % NrPages \in g.marks }
  OBVIOUS
<1>4. evict_oldest(g) =
        IF live # {}
        THEN [Unmark(g, g.fifo[Min(live)])
                  EXCEPT !.fifo = SubSeq(g.fifo, Min(live) + 1, Len(g.fifo))]
        ELSE IF g.nr = 0 THEN [g EXCEPT !.fifo = <<>>]
        ELSE IF found # {}
        THEN [Unmark(g, (g.rr + Min(found)) % NrPages)
                  EXCEPT !.fifo = <<>>, !.rr = (g.rr + Min(found) + 1) % NrPages]
        ELSE [g EXCEPT !.fifo = <<>>, !.rr = (g.rr + ScanSteps) % NrPages]
  BY <1>2, <1>3 DEF evict_oldest
<1>5. ScanSteps \in Nat
  BY DEF HotTableAssumption
<1>6. \A k \in Nat : k % NrPages \in Pages
  BY Sizes DEF Pages
<1>7. g.rr \in Nat
  BY <1>1, Sizes DEF Pages
<1>8. <<>> \in Seq(Pages)
  OBVIOUS
<1>9. CASE live # {}
  <2>1. live \in SUBSET Nat
    BY <1>1, <1>2
  <2>2. Min(live) \in live
    BY <1>9, <2>1, MinIsIn
  <2>3. PICK m \in Nat : m = Min(live) /\ m \in DOMAIN g.fifo /\ g.fifo[m] \in g.marks
    BY <1>2, <2>1, <2>2
  <2>4. PICK p \in g.marks : p = g.fifo[m]
    BY <2>3
  <2>5. PICK q : q = SubSeq(g.fifo, m + 1, Len(g.fifo))
    OBVIOUS
  <2>6. q \in Seq(Pages)
    <3>1. Len(g.fifo) \in Nat
      BY <1>1
    <3>2. \A i \in m + 1 .. Len(g.fifo) : g.fifo[i] \in Pages
      BY <1>1, <2>3
    <3> QED BY <1>1, <2>5, <3>1, <3>2
  <2>7. PICK u : u = Unmark(g, p)
    OBVIOUS
  <2>8. /\ u = [marks |-> g.marks \ {p}, nr |-> g.nr - 1, fifo |-> g.fifo, rr |-> g.rr]
        /\ g.nr - 1 \in Nat /\ g.nr - 1 = Cardinality(g.marks \ {p})
    BY <2>7, UnmarkIs
  <2>9. evict_oldest(g) = [u EXCEPT !.fifo = q]
    BY <1>4, <1>9, <2>3, <2>4, <2>5, <2>7
  <2>10. evict_oldest(g) = [marks |-> g.marks \ {p}, nr |-> g.nr - 1, fifo |-> q, rr |-> g.rr]
    BY <2>8, <2>9
  <2>11. g.marks \ {p} \in SUBSET Pages
    BY <1>1
  <2>12. IsGhosts(evict_oldest(g)) /\ evict_oldest(g).marks = g.marks \ {p}
    <3>1. PICK a \in SUBSET Pages, n \in Nat, x \in Pages :
             a = g.marks \ {p} /\ n = g.nr - 1 /\ x = g.rr
      BY <1>1, <2>8, <2>11
    <3>2. n = Cardinality(a)
      BY <2>8, <3>1
    <3>3. evict_oldest(g) = [marks |-> a, nr |-> n, fifo |-> q, rr |-> x]
      BY <2>10, <3>1
    <3>4. IsGhosts(evict_oldest(g)) /\ evict_oldest(g).marks = a
      BY <2>6, <3>2, <3>3, GhostsOf
    <3> QED BY <3>1, <3>4
  <2> QED BY <2>12
<1>10. CASE live = {} /\ g.nr = 0
  <2>1. evict_oldest(g) = [marks |-> g.marks, nr |-> g.nr, fifo |-> <<>>, rr |-> g.rr]
    BY <1>1, <1>4, <1>10
  <2>2. IsGhosts(evict_oldest(g)) /\ evict_oldest(g).marks = g.marks
    BY <1>1, <1>8, <2>1, GhostsOf
  <2> QED BY <2>2
<1>11. CASE live = {} /\ g.nr # 0 /\ found # {}
  <2>1. found \in SUBSET Nat
    BY <1>3, <1>5
  <2>2. Min(found) \in found
    BY <1>11, <2>1, MinIsIn
  <2>3. PICK k \in Nat : k = Min(found) /\ (g.rr + k) % NrPages \in g.marks
    BY <1>3, <2>1, <2>2
  <2>4. PICK p \in g.marks : p = (g.rr + k) % NrPages
    BY <2>3
  <2>5. PICK x \in Pages : x = (g.rr + k + 1) % NrPages
    BY <1>6, <1>7
  <2>6. PICK u : u = Unmark(g, p)
    OBVIOUS
  <2>7. /\ u = [marks |-> g.marks \ {p}, nr |-> g.nr - 1, fifo |-> g.fifo, rr |-> g.rr]
        /\ g.nr - 1 \in Nat /\ g.nr - 1 = Cardinality(g.marks \ {p})
    BY <2>6, UnmarkIs
  <2>8. evict_oldest(g) = [u EXCEPT !.fifo = <<>>, !.rr = x]
    BY <1>4, <1>11, <2>3, <2>4, <2>5, <2>6
  <2>9. PICK w : w = [u EXCEPT !.fifo = <<>>]
    OBVIOUS
  <2>10. w = [marks |-> g.marks \ {p}, nr |-> g.nr - 1, fifo |-> <<>>, rr |-> g.rr]
    BY <2>7, <2>9
  <2>11. evict_oldest(g) = [marks |-> g.marks \ {p}, nr |-> g.nr - 1, fifo |-> <<>>, rr |-> x]
    <3>1. evict_oldest(g) = [w EXCEPT !.rr = x]
      BY <2>8, <2>9
    <3> QED BY <2>10, <3>1
  <2>12. g.marks \ {p} \in SUBSET Pages
    BY <1>1
  <2>13. IsGhosts(evict_oldest(g)) /\ evict_oldest(g).marks = g.marks \ {p}
    BY <1>8, <2>7, <2>11, <2>12, GhostsOf
  <2> QED BY <2>13
<1>12. CASE live = {} /\ g.nr # 0 /\ found = {}
  <2>1. PICK x \in Pages : x = (g.rr + ScanSteps) % NrPages
    BY <1>5, <1>6, <1>7
  <2>2. evict_oldest(g) = [g EXCEPT !.fifo = <<>>, !.rr = x]
    BY <1>4, <1>12, <2>1
  <2>3. PICK w : w = [g EXCEPT !.fifo = <<>>]
    OBVIOUS
  <2>4. w = [marks |-> g.marks, nr |-> g.nr, fifo |-> <<>>, rr |-> g.rr]
    BY <1>1, <2>3
  <2>5. evict_oldest(g) = [marks |-> g.marks, nr |-> g.nr, fifo |-> <<>>, rr |-> x]
    <3>1. evict_oldest(g) = [w EXCEPT !.rr = x]
      BY <2>2, <2>3
    <3> QED BY <2>4, <3>1
  <2>6. IsGhosts(evict_oldest(g)) /\ evict_oldest(g).marks = g.marks
    BY <1>1, <1>8, <2>5, GhostsOf
  <2> QED BY <2>6
<1> QED BY <1>9, <1>10, <1>11, <1>12

\* EvictUntil unmarks at most.
LEMMA EvictGhosts ==
    ASSUME HotTableAssumption, NEW first, IsGhosts(first), NEW most
    PROVE  IsGhosts(EvictUntil(first, most)) /\ EvictUntil(first, most).marks \subseteq first.marks
<1> DEFINE n == NrPages
           S == { t \in [g : GhostSet, stuck : BOOLEAN] :
                     IsGhosts(t.g) /\ t.g.marks \subseteq first.marks }
           Goes(t) == t.g.nr > most /\ ~t.stuck
           Call(t) == [g |-> evict_oldest(t.g), stuck |-> evict_oldest(t.g).nr = t.g.nr]
           Nxt(x, i) == IF Goes(x) THEN Call(x) ELSE x
           F == [z \in S \X (1 .. n) |-> Nxt(z[1], z[2])]
           Start == [g |-> first, stuck |-> FALSE]
           Loop(f) == f = [k \in 0 .. n |-> IF k = 0 THEN Start ELSE Nxt(f[k - 1], k)]
           more == CHOOSE f : Loop(f)
<1>1. n \in Nat
  BY Sizes
<1>2. PICK s0 \in S : s0 = Start
  BY DEF IsGhosts
<1>3. ASSUME NEW x \in S, NEW i \in 1 .. n PROVE Nxt(x, i) \in S
  <2>1. PICK g : g = x.g
    OBVIOUS
  <2>2. IsGhosts(g) /\ g.marks \subseteq first.marks
    BY <2>1
  <2>3. PICK e : e = evict_oldest(g)
    OBVIOUS
  <2>4. IsGhosts(e) /\ e.marks \subseteq first.marks
    BY <2>2, <2>3, OldestGhosts
  <2>5. PICK b \in BOOLEAN : b = (e.nr = g.nr)
    OBVIOUS
  <2>6. Call(x) = [g |-> e, stuck |-> b]
    BY <2>1, <2>3, <2>5
  <2>7. e \in GhostSet
    BY <2>4 DEF IsGhosts
  <2>8. [g |-> e, stuck |-> b] \in S
    BY <2>4, <2>7
  <2> HIDE DEF S, Call, Goes
  <2> QED BY <2>6, <2>8
<1> HIDE DEF Nxt, S, Start
<1>6. IsStep(F, S, n)
  BY <1>3 DEF IsStep
<1>7. \A x \in S, i \in 1 .. n : F[<<x, i>>] = Nxt(x, i)
  OBVIOUS
<1>8. EvictUntil(first, most) = more[n].g
  BY DEF EvictUntil, Nxt, Start
<1> HIDE DEF F, n
<1>9. PICK g : Follows(g, F, S, n, s0)
  BY <1>1, <1>6, LoopExists
<1>10. Loop(g)
  <2>1. ASSUME NEW i \in 0 .. n PROVE g[i] = IF i = 0 THEN Start ELSE Nxt(g[i - 1], i)
    <3>1. CASE i = 0
      BY <1>2, <1>9, <3>1 DEF Follows
    <3>2. CASE i # 0
      <4>1. i \in 1 .. n /\ i - 1 \in 0 .. n
        BY <1>1, <3>2
      <4> QED BY <1>7, <1>9, <3>2, <4>1 DEF Follows
    <3> QED BY <3>1, <3>2
  <2>2. g = [i \in 0 .. n |-> g[i]]
    BY <1>9 DEF Follows
  <2> QED BY <2>1, <2>2
<1>11. Loop(more)
  <2> HIDE DEF Loop
  <2> QED BY <1>10
<1> HIDE DEF more
<1>12. more[0] = s0
  BY <1>1, <1>2, <1>11
<1>13. ASSUME NEW i \in 1 .. n PROVE more[i] = Nxt(more[i - 1], i)
  <2>1. i \in 0 .. n /\ i # 0
    BY <1>1
  <2> QED BY <1>11, <2>1
<1>14. \A i \in 0 .. n : more[i] \in S
  <2>1. \A i \in 1 .. n : more[i - 1] \in S => more[i] = F[<<more[i - 1], i>>]
    BY <1>7, <1>13
  <2>2. more[0] \in S
    BY <1>12
  <2> QED BY <1>1, <1>6, <2>1, <2>2, LoopStays
<1> QED BY <1>1, <1>8, <1>14 DEF S

\* adaptive_ghost_cold_mark marks one page more at most.
LEMMA MarkGhosts ==
    ASSUME HotTableAssumption, NEW g, IsGhosts(g), NEW p \in Pages, NEW cap
    PROVE  /\ IsGhosts(ghost_mark(g, p, cap))
           /\ ghost_mark(g, p, cap).marks \subseteq g.marks \cup {p}
<1>1. CASE p \in g.marks
  BY <1>1 DEF ghost_mark
<1>2. CASE p \notin g.marks
  <2>1. PICK t : t = EvictUntil(g, cap - 1)
    OBVIOUS
  <2>2. IsGhosts(t) /\ t.marks \subseteq g.marks
    BY <2>1, EvictGhosts
  <2>3. /\ t = [marks |-> t.marks, nr |-> t.nr, fifo |-> t.fifo, rr |-> t.rr]
        /\ t.marks \in SUBSET Pages /\ t.nr \in Nat /\ t.fifo \in Seq(Pages) /\ t.rr \in Pages
        /\ t.nr = Cardinality(t.marks)
    BY <2>2, GhostParts
  <2>4. PICK q \in Seq(Pages) : q = Append(t.fifo, p) /\ q # <<>>
    <3>1. t.fifo \in Seq(Pages)
      BY <2>3
    <3>2. PICK f \in Seq(Pages) : f = t.fifo
      BY <3>1
    <3>3. Append(f, p) \in Seq(Pages) /\ Append(f, p) # <<>>
      BY AppendProperties
    <3> QED BY <3>2, <3>3
  <2>5. Tail(q) \in Seq(Pages)
    BY <2>4
  <2>6. PICK f \in Seq(Pages) : f = IF Len(q) > FifoCap(cap) THEN Tail(q) ELSE q
    BY <2>5
  <2>7. PICK a \in SUBSET Pages, n \in Nat, x \in Pages :
           a = t.marks \cup {p} /\ n = t.nr + 1 /\ x = t.rr
    <3>1. t.marks \cup {p} \in SUBSET Pages
      BY <2>3
    <3>2. t.nr + 1 \in Nat
      BY <2>3
    <3>3. t.rr \in Pages
      BY <2>3
    <3> QED BY <3>1, <3>2, <3>3
  <2>8. n = Cardinality(a)
    <3>1. IsFiniteSet(t.marks) /\ p \notin t.marks
      BY <1>2, <2>2, <2>3, PagesFinite
    <3>2. Cardinality(t.marks \cup {p}) = Cardinality(t.marks) + 1
      BY <3>1, FS_AddElement
    <3> QED BY <2>3, <2>7, <3>2
  <2>9. ghost_mark(g, p, cap) = [t EXCEPT !.marks = a, !.nr = n, !.fifo = f]
    BY <1>2, <2>1, <2>4, <2>6, <2>7 DEF ghost_mark
  <2>10. PICK u : u = [t EXCEPT !.marks = a]
    OBVIOUS
  <2>11. PICK w : w = [u EXCEPT !.nr = n]
    OBVIOUS
  <2>12. ghost_mark(g, p, cap) = [w EXCEPT !.fifo = f]
    BY <2>9, <2>10, <2>11
  <2>13. u = [marks |-> a, nr |-> t.nr, fifo |-> t.fifo, rr |-> x]
    BY <2>3, <2>7, <2>10
  <2>14. w = [marks |-> a, nr |-> n, fifo |-> t.fifo, rr |-> x]
    BY <2>11, <2>13
  <2>15. ghost_mark(g, p, cap) = [marks |-> a, nr |-> n, fifo |-> f, rr |-> x]
    BY <2>12, <2>14
  <2>16. IsGhosts(ghost_mark(g, p, cap)) /\ ghost_mark(g, p, cap).marks = a
    BY <2>8, <2>15, GhostsOf
  <2> QED BY <2>2, <2>7, <2>16
<1> QED BY <1>1, <1>2

\* adaptive_ghost_cold_clear.
LEMMA ClearGhosts ==
    ASSUME HotTableAssumption, NEW g, IsGhosts(g), NEW p
    PROVE  IsGhosts(ghost_clear(g, p)) /\ ghost_clear(g, p).marks = g.marks \ {p}
<1>1. CASE p \notin g.marks
  BY <1>1 DEF ghost_clear
<1>2. CASE p \in g.marks
  <2>1. /\ g = [marks |-> g.marks, nr |-> g.nr, fifo |-> g.fifo, rr |-> g.rr]
        /\ g.marks \in SUBSET Pages /\ g.nr \in Nat /\ g.fifo \in Seq(Pages) /\ g.rr \in Pages
        /\ g.nr = Cardinality(g.marks)
    BY GhostParts
  <2>2. IsFiniteSet(g.marks) /\ Cardinality(g.marks \ {p}) \in Nat
    BY <2>1, PagesFinite
  <2>3. Cardinality(g.marks \ {p}) = g.nr - 1
    BY <1>2, <2>1, <2>2, FS_RemoveElement
  <2>4. PICK a \in SUBSET Pages, n \in Nat, q \in Seq(Pages), x \in Pages :
           a = g.marks \ {p} /\ n = g.nr - 1 /\ q = g.fifo /\ x = g.rr
    BY <2>1, <2>2, <2>3
  <2>5. ghost_clear(g, p) = [g EXCEPT !.marks = a, !.nr = n]
    BY <1>2, <2>4 DEF ghost_clear
  <2>6. PICK u : u = [g EXCEPT !.marks = a]
    OBVIOUS
  <2>7. u = [marks |-> a, nr |-> g.nr, fifo |-> q, rr |-> x]
    BY <2>1, <2>4, <2>6
  <2>8. ghost_clear(g, p) = [u EXCEPT !.nr = n]
    BY <2>5, <2>6
  <2>9. ghost_clear(g, p) = [marks |-> a, nr |-> n, fifo |-> q, rr |-> x]
    BY <2>7, <2>8
  <2>10. n = Cardinality(a)
    BY <2>3, <2>4
  <2>11. IsGhosts(ghost_clear(g, p)) /\ ghost_clear(g, p).marks = a
    BY <2>9, <2>10, GhostsOf
  <2> QED BY <2>4, <2>11
<1> QED BY <1>1, <1>2

\* adaptive_ghost_update_caps_locked.
LEMMA CapsGhosts ==
    ASSUME HotTableAssumption, NEW g, IsGhosts(g), NEW cap
    PROVE  /\ IsGhosts(ghost_update_caps(g, cap))
           /\ ghost_update_caps(g, cap).marks \subseteq g.marks
<1>1. /\ g = [marks |-> g.marks, nr |-> g.nr, fifo |-> g.fifo, rr |-> g.rr]
      /\ g.marks \in SUBSET Pages /\ g.nr \in Nat /\ g.fifo \in Seq(Pages) /\ g.rr \in Pages
      /\ g.nr = Cardinality(g.marks)
  BY GhostParts
<1>2. PICK u : u = [g EXCEPT !.fifo = <<>>]
  OBVIOUS
<1>3. PICK a \in SUBSET Pages, n \in Nat, q \in Seq(Pages), x \in Pages :
         a = g.marks /\ n = g.nr /\ q = <<>> /\ x = g.rr
  <2>1. <<>> \in Seq(Pages)
    OBVIOUS
  <2> QED BY <1>1, <2>1
<1>4. u = [marks |-> a, nr |-> n, fifo |-> q, rr |-> x] /\ n = Cardinality(a)
  BY <1>1, <1>2, <1>3
<1>5. IsGhosts(u) /\ u.marks = a
  BY <1>4, GhostsOf
<1>6. ghost_update_caps(g, cap) = EvictUntil(u, cap)
  BY <1>2 DEF ghost_update_caps
<1> QED BY <1>3, <1>5, <1>6, EvictGhosts

-----------------------------------------------------------------------------
(***************************************************************************)
(* Moving memory.                                                          *)
(***************************************************************************)
\* The table with another number of pages, when all it holds is below.
LEMMA ResizedSound ==
    ASSUME HotTableAssumption, NEW P, NEW h, Sound(h, P), NEW Q \in Chunk .. HotCap,
           \A x \in Used(h) : x < Q * EPP, NEW t, t = [h EXCEPT !.pages = Q]
    PROVE  Sound(t, Q) /\ t.slot = h.slot
<1>1. /\ h = [slot |-> h.slot, pages |-> h.pages, live |-> h.live, valid |-> h.valid,
              blocked |-> h.blocked, hotEvict |-> h.hotEvict, coldEvict |-> h.coldEvict]
      /\ h.slot \in [Slots -> SlotSet] /\ h.pages = P /\ h.live \in [Heats -> Int]
      /\ h.valid \in Int /\ h.blocked \in Int /\ h.hotEvict \in Int /\ h.coldEvict \in Int
  <2>1. h \in Tables(P)
    BY DEF Sound
  <2> QED BY <2>1, TableFields
<1>2. t = [slot |-> h.slot, pages |-> Q, live |-> h.live, valid |-> h.valid,
           blocked |-> h.blocked, hotEvict |-> h.hotEvict, coldEvict |-> h.coldEvict]
  BY <1>1
<1>3. t \in Tables(Q)
  BY <1>1, <1>2 DEF Tables
<1>4. t.slot = h.slot /\ t.live = h.live /\ t.valid = h.valid /\ t.pages = Q
  BY <1>2
<1>5. Used(t) = Used(h)
  BY <1>4 DEF Used
<1>6. HeatsExact(t)
  <2>1. \A z \in Heats : OfHeat(t, z) = OfHeat(h, z)
    BY <1>4, <1>5 DEF OfHeat
  <2>2. HeatsExact(h)
    BY DEF Sound, Counted
  <2> QED BY <1>4, <2>1, <2>2 DEF HeatsExact
<1>7. Within(t)
  BY <1>4, <1>5 DEF Within, HotEntries
<1>8. t.valid >= Cardinality(Used(t))
  BY <1>4, <1>5 DEF Sound, Counted
<1> QED BY <1>3, <1>4, <1>6, <1>7, <1>8 DEF Sound, Counted

\* Forgetting the counters of a period.
LEMMA NoStatsSound ==
    ASSUME HotTableAssumption, NEW P, NEW h, Sound(h, P)
    PROVE  Sound(NoStats(h), P) /\ NoStats(h).slot = h.slot /\ NoStats(h).pages = P
<1>1. h \in Tables(P)
  BY DEF Sound
<1>2. /\ h = [slot |-> h.slot, pages |-> h.pages, live |-> h.live, valid |-> h.valid,
              blocked |-> h.blocked, hotEvict |-> h.hotEvict, coldEvict |-> h.coldEvict]
      /\ h.pages = P
  BY <1>1, TableFields
<1>3. PICK z \in Int : z = 0
  OBVIOUS
<1>4. NoStats(h) = Recount(h, h.valid, z, z, z)
  <2>1. PICK u : u = [h EXCEPT !.hotEvict = z]
    OBVIOUS
  <2>2. PICK w : w = [u EXCEPT !.coldEvict = z]
    OBVIOUS
  <2>3. NoStats(h) = [w EXCEPT !.blocked = z]
    BY <1>3, <2>1, <2>2 DEF NoStats
  <2>4. u = Recount(h, h.valid, h.blocked, z, h.coldEvict)
    BY <1>2, <2>1 DEF Recount
  <2>5. w = Recount(h, h.valid, h.blocked, z, z)
    BY <2>2, <2>4 DEF Recount
  <2> QED BY <2>3, <2>5 DEF Recount
<1>5. Sound(Recount(h, h.valid, z, z, z), P)
  BY RecountSound
<1>6. Recount(h, h.valid, z, z, z).slot = h.slot /\ Recount(h, h.valid, z, z, z).pages = P
  BY <1>2 DEF Recount
<1> QED BY <1>4, <1>5, <1>6

\* The memory: a counted table, the ghosts, and a split of the pages.
IsMem(m) ==
    /\ m = [hot |-> m.hot, cold |-> m.cold, keys |-> m.keys, ghost |-> m.ghost]
    /\ Sound(m.hot, m.hot.pages) /\ IsGhosts(m.ghost)
    /\ m.keys \in BOOLEAN /\ IsSplit(m.hot, m.cold, m.keys)

\* t still has the warm entries that h has in the first k slots.
KeepsBelow(t, h, k) ==
    \A x \in 0 .. k - 1 :
        h.slot[x] # Empty /\ h.slot[x].state >= Warm => Keeps(t, h.slot[x].lpa)

\* What a rehash keeps stays when the counters are forgotten.
LEMMA RehashKeeps ==
    ASSUME HotTableAssumption, NEW Q, NEW u, Sound(u, Q), NEW h, NEW k \in Nat,
           k <= HotEntries(u), \A x \in 0 .. k - 1 : u.slot[x] = h.slot[x]
    PROVE  /\ Sound(NoStats(rehash(u)), Q) /\ NoStats(rehash(u)).pages = Q
           /\ rehash(u).pages = Q
           /\ KeepsBelow(NoStats(rehash(u)), h, k) /\ AllReached(NoStats(rehash(u)))
<1>1. PICK r : r = rehash(u)
  OBVIOUS
<1>2. Sound(r, Q) /\ Placed(r, u, HotEntries(u))
  BY <1>1, RehashSound
<1>3. r.pages = Q
  BY <1>2, TableFields DEF Sound
<1>4. PICK t : t = NoStats(r)
  OBVIOUS
<1>5. Sound(t, Q) /\ t.slot = r.slot /\ t.pages = Q
  BY <1>2, <1>4, NoStatsSound
<1>6. HotEntries(t) = HotEntries(r)
  BY <1>3, <1>5 DEF HotEntries
<1>7. PICK n \in Nat : n = HotEntries(u)
  <2>1. u.pages \in Chunk .. HotCap
    BY TableFields DEF Sound
  <2> QED BY <2>1, SlotsInUse
<1>8. ASSUME NEW x \in 0 .. k - 1, h.slot[x] # Empty, h.slot[x].state >= Warm
      PROVE  Keeps(t, h.slot[x].lpa)
  <2>1. x \in 0 .. n - 1
    BY <1>7
  <2>2. u.slot[x] = h.slot[x]
    OBVIOUS
  <2>3. Keeps(r, h.slot[x].lpa)
    BY <1>2, <1>7, <1>8, <2>1, <2>2 DEF Placed
  <2> QED BY <1>5, <1>6, <2>3 DEF Keeps
<1>9. KeepsBelow(t, h, k)
  BY <1>8 DEF KeepsBelow
<1>10. AllReached(t)
  <2>1. Used(t) = Used(r)
    BY <1>5 DEF Used
  <2>2. ASSUME NEW x \in Used(t) PROVE Reached(t, t.slot[x].lpa)
    <3>1. Reached(r, r.slot[x].lpa)
      BY <1>2, <2>1 DEF Placed, AllReached
    <3>2. r.pages \in Chunk .. HotCap /\ r.slot[x].lpa \in HotLpas
      <4>1. r.slot \in [Slots -> SlotSet] /\ r.pages \in Chunk .. HotCap
        BY <1>2, TableFields DEF Sound
      <4>2. r.slot[x] \in SlotSet /\ r.slot[x] # Empty
        BY <2>1, <4>1 DEF Used
      <4> QED BY <4>1, <4>2, SlotHolds
    <3>3. Sought(t, r.slot[x].lpa) = Sought(r, r.slot[x].lpa)
      BY <1>3, <1>5, <3>2, SoughtIs
    <3> QED BY <1>5, <3>1, <3>3 DEF Reached
  <2> QED BY <2>2 DEF AllReached
<1> QED BY <1>1, <1>3, <1>4, <1>5, <1>9, <1>10

\* Taking pages from the cold part.
LEMMA ExpandIs ==
    ASSUME HotTableAssumption, NEW m, IsMem(m), CanExpand(m)
    PROVE  /\ IsMem(expand_hot(m))
           /\ expand_hot(m).ghost.marks \subseteq m.ghost.marks
           /\ expand_hot(m).hot.pages = m.hot.pages + Chunk
           /\ KeepsBelow(expand_hot(m).hot, m.hot, m.hot.pages * EPP)
           /\ AllReached(expand_hot(m).hot)
<1>1. PICK h : h = m.hot
  OBVIOUS
<1>2. PICK P : P = h.pages
  OBVIOUS
<1>3. Sound(h, P) /\ P \in Chunk .. HotCap /\ P \in Nat
  BY <1>1, <1>2, Sizes DEF IsMem, Sound
<1>4. PICK Q \in Nat : Q = P + Chunk /\ P <= Q /\ Q \in Chunk .. HotCap
  BY <1>1, <1>2, <1>3, Sizes DEF CanExpand
<1>5. P * EPP \in Nat /\ Q * EPP \in Nat /\ P * EPP <= Q * EPP
  <2>1. P < Q
    BY <1>3, <1>4, Sizes
  <2>2. P * EPP \in Nat /\ Q * EPP \in Nat /\ P * EPP + EPP <= Q * EPP
    BY <1>3, <2>1, Sizes, Multiples
  <2> QED BY <2>2, Sizes
<1>6. PICK wider : wider = [h EXCEPT !.pages = Q]
  OBVIOUS
<1>7. Sound(wider, Q) /\ wider.slot = h.slot
  <2>1. \A x \in Used(h) : x < Q * EPP
    <3>1. \A x \in Used(h) : x < P * EPP
      BY <1>2, <1>3 DEF Sound, Counted, Within, HotEntries
    <3>2. \A x \in Used(h) : x \in Int
      BY DEF Used, Slots
    <3> QED BY <1>5, <3>1, <3>2
  <2> QED BY <1>3, <1>4, <1>6, <2>1, ResizedSound
<1>8. wider.pages = Q
  BY <1>7, TableFields DEF Sound
<1>9. PICK u : u = ClearHotPages(wider, P, Q)
  OBVIOUS
<1>10. Sound(u, Q) /\ Blank(u, wider, P * EPP, Q * EPP)
  BY <1>3, <1>4, <1>7, <1>9, ClearPagesSound
<1>11. HotEntries(u) = Q * EPP /\ u.pages = Q
  <2>1. u.pages = Q
    BY <1>10, TableFields DEF Sound
  <2> QED BY <2>1 DEF HotEntries
<1>12. PICK k \in Nat : k = P * EPP /\ k <= HotEntries(u)
  BY <1>5, <1>11
<1>13. \A x \in 0 .. k - 1 : u.slot[x] = h.slot[x]
  <2>1. 0 .. HotEntries(h) - 1 \subseteq Slots /\ HotEntries(h) = k
    BY <1>2, <1>3, <1>12, SlotsInUse DEF HotEntries
  <2> QED BY <1>7, <1>10, <1>12, <2>1 DEF Blank
<1>14. /\ Sound(NoStats(rehash(u)), Q) /\ NoStats(rehash(u)).pages = Q /\ rehash(u).pages = Q
       /\ KeepsBelow(NoStats(rehash(u)), h, k) /\ AllReached(NoStats(rehash(u)))
  BY <1>10, <1>12, <1>13, RehashKeeps
<1>15. PICK g : g = ghost_update_caps(m.ghost, GhostCap(Q, m.keys))
  OBVIOUS
<1>16. IsGhosts(g) /\ g.marks \subseteq m.ghost.marks
  BY <1>15, CapsGhosts DEF IsMem
<1>17. PICK t : t = NoStats(rehash(u))
  OBVIOUS
<1>18. expand_hot(m) = [hot |-> t, cold |-> m.cold - Chunk, keys |-> m.keys, ghost |-> g]
  <2>1. wider = [m.hot EXCEPT !.pages = @ + Chunk]
    BY <1>1, <1>2, <1>4, <1>6
  <2>2. u = ClearHotPages(wider, m.hot.pages, wider.pages)
    BY <1>1, <1>2, <1>8, <1>9
  <2>3. expand_hot(m) = [m EXCEPT !.hot = t, !.cold = m.cold - Chunk, !.ghost = g]
    BY <1>14, <1>15, <1>17, <2>1, <2>2 DEF expand_hot
  <2>4. m = [hot |-> m.hot, cold |-> m.cold, keys |-> m.keys, ghost |-> m.ghost]
    BY DEF IsMem
  <2>5. PICK a : a = [m EXCEPT !.hot = t]
    OBVIOUS
  <2>6. PICK b : b = [a EXCEPT !.cold = m.cold - Chunk]
    OBVIOUS
  <2>7. expand_hot(m) = [b EXCEPT !.ghost = g]
    BY <2>3, <2>5, <2>6
  <2>8. a = [hot |-> t, cold |-> m.cold, keys |-> m.keys, ghost |-> m.ghost]
    BY <2>4, <2>5
  <2>9. b = [hot |-> t, cold |-> m.cold - Chunk, keys |-> m.keys, ghost |-> m.ghost]
    BY <2>6, <2>8
  <2> QED BY <2>7, <2>9
<1>19. PICK e : e = expand_hot(m)
  OBVIOUS
<1>20. e.hot = t /\ e.cold = m.cold - Chunk /\ e.keys = m.keys /\ e.ghost = g
  BY <1>18, <1>19
<1>21. IsSplit(e.hot, e.cold, e.keys)
  <2>1. m.cold \in Nat /\ m.cold > 2 * Chunk - 1
    BY DEF IsMem, IsSplit, CanExpand
  <2>2. PICK x : x = IF m.keys THEN KeyChunk ELSE 0
    OBVIOUS
  <2>3. x \in Nat
    BY <2>2, Sizes
  <2>4. m.cold + P + x = Total
    BY <1>1, <1>2, <2>2 DEF IsMem, IsSplit
  <2>5. e.cold \in Nat /\ Chunk <= e.cold
    BY <1>20, <2>1, Sizes
  <2>6. e.cold + Q + x = Total
    BY <1>3, <1>4, <1>20, <2>1, <2>3, <2>4, Sizes
  <2>7. e.hot.pages = Q
    BY <1>14, <1>17, <1>20
  <2> QED BY <1>20, <2>2, <2>5, <2>6, <2>7 DEF IsSplit
<1>22. IsMem(e)
  <2>1. e = [hot |-> e.hot, cold |-> e.cold, keys |-> e.keys, ghost |-> e.ghost]
    BY <1>18, <1>19, <1>20
  <2>2. Sound(e.hot, e.hot.pages)
    BY <1>14, <1>17, <1>20
  <2>3. e.keys \in BOOLEAN
    BY <1>20 DEF IsMem
  <2> QED BY <1>16, <1>20, <1>21, <2>1, <2>2, <2>3 DEF IsMem
<1> QED BY <1>1, <1>2, <1>4, <1>12, <1>14, <1>16, <1>17, <1>19, <1>20, <1>22

\* Giving pages back to the cold part.
LEMMA ShrinkIs ==
    ASSUME HotTableAssumption, NEW m, IsMem(m), CanShrink(m)
    PROVE  /\ IsMem(shrink_hot(m))
           /\ shrink_hot(m).ghost.marks \subseteq m.ghost.marks
           /\ shrink_hot(m).hot.pages = m.hot.pages - Chunk
           /\ KeepsBelow(shrink_hot(m).hot, m.hot, shrink_hot(m).hot.pages * EPP)
           /\ AllReached(shrink_hot(m).hot)
<1>1. PICK h : h = m.hot
  OBVIOUS
<1>2. PICK P : P = h.pages
  OBVIOUS
<1>3. Sound(h, P) /\ P \in Chunk .. HotCap /\ P \in Nat
  BY <1>1, <1>2, Sizes DEF IsMem, Sound
<1>4. PICK Q \in Nat : Q = P - Chunk /\ Q < P /\ Q \in Chunk .. HotCap
  <2>1. P > 2 * Chunk - 1
    BY <1>1, <1>2 DEF CanShrink
  <2>2. P - Chunk \in Nat /\ P - Chunk >= Chunk /\ P - Chunk < P /\ P - Chunk <= HotCap
    BY <1>3, <2>1, Sizes
  <2> QED BY <2>2, Sizes
<1>5. P * EPP \in Nat /\ Q * EPP \in Nat /\ Q * EPP <= P * EPP
  <2>1. P * EPP \in Nat /\ Q * EPP \in Nat /\ Q * EPP + EPP <= P * EPP
    BY <1>3, <1>4, Sizes, Multiples
  <2> QED BY <2>1, Sizes
<1>6. PICK c : c = ClearHotPages(h, Q, P)
  OBVIOUS
<1>7. Sound(c, P) /\ Blank(c, h, Q * EPP, P * EPP)
  BY <1>3, <1>4, <1>6, ClearPagesSound
<1>8. PICK u : u = [c EXCEPT !.pages = Q]
  OBVIOUS
<1>9. Sound(u, Q) /\ u.slot = c.slot
  <2>1. ASSUME NEW x \in Used(c) PROVE x < Q * EPP
    <3>1. x \in Slots /\ c.slot[x] # Empty
      BY DEF Used
    <3>2. x \in Int
      BY <3>1 DEF Slots
    <3>3. x < P * EPP
      <4>1. c.pages = P
        BY <1>7, TableFields DEF Sound
      <4> QED BY <1>7, <4>1 DEF Sound, Counted, Within, HotEntries
    <3>4. ~(Q * EPP <= x /\ x < P * EPP)
      BY <1>7, <3>1 DEF Blank
    <3> QED BY <1>5, <3>2, <3>3, <3>4
  <2> QED BY <1>4, <1>7, <1>8, <2>1, ResizedSound
<1>10. u.pages = Q /\ HotEntries(u) = Q * EPP
  <2>1. u.pages = Q
    BY <1>9, TableFields DEF Sound
  <2> QED BY <2>1 DEF HotEntries
<1>11. PICK k \in Nat : k = Q * EPP /\ k <= HotEntries(u)
  BY <1>5, <1>10
<1>12. \A x \in 0 .. k - 1 : u.slot[x] = h.slot[x]
  <2>1. 0 .. HotEntries(u) - 1 \subseteq Slots
    BY <1>4, <1>10, SlotsInUse
  <2>2. ASSUME NEW x \in 0 .. k - 1 PROVE u.slot[x] = h.slot[x]
    <3>1. x \in Slots /\ ~(Q * EPP <= x)
      BY <1>10, <1>11, <2>1
    <3> QED BY <1>7, <1>9, <3>1 DEF Blank
  <2> QED BY <2>2
<1>13. /\ Sound(NoStats(rehash(u)), Q) /\ NoStats(rehash(u)).pages = Q /\ rehash(u).pages = Q
       /\ KeepsBelow(NoStats(rehash(u)), h, k) /\ AllReached(NoStats(rehash(u)))
  BY <1>9, <1>11, <1>12, RehashKeeps
<1>14. PICK g : g = ghost_update_caps(m.ghost, GhostCap(Q, m.keys))
  OBVIOUS
<1>15. IsGhosts(g) /\ g.marks \subseteq m.ghost.marks
  BY <1>14, CapsGhosts DEF IsMem
<1>16. PICK t : t = NoStats(rehash(u))
  OBVIOUS
<1>17. shrink_hot(m) = [hot |-> t, cold |-> m.cold + Chunk, keys |-> m.keys, ghost |-> g]
  <2>1. u = [ClearHotPages(m.hot, Q, m.hot.pages) EXCEPT !.pages = Q]
    BY <1>1, <1>2, <1>6, <1>8
  <2>2. Q = m.hot.pages - Chunk
    BY <1>1, <1>2, <1>4
  <2>3. shrink_hot(m) = [m EXCEPT !.hot = t, !.cold = m.cold + Chunk, !.ghost = g]
    BY <1>13, <1>14, <1>16, <2>1, <2>2 DEF shrink_hot
  <2>4. m = [hot |-> m.hot, cold |-> m.cold, keys |-> m.keys, ghost |-> m.ghost]
    BY DEF IsMem
  <2>5. PICK a : a = [m EXCEPT !.hot = t]
    OBVIOUS
  <2>6. PICK b : b = [a EXCEPT !.cold = m.cold + Chunk]
    OBVIOUS
  <2>7. shrink_hot(m) = [b EXCEPT !.ghost = g]
    BY <2>3, <2>5, <2>6
  <2>8. a = [hot |-> t, cold |-> m.cold, keys |-> m.keys, ghost |-> m.ghost]
    BY <2>4, <2>5
  <2>9. b = [hot |-> t, cold |-> m.cold + Chunk, keys |-> m.keys, ghost |-> m.ghost]
    BY <2>6, <2>8
  <2> QED BY <2>7, <2>9
<1>18. PICK e : e = shrink_hot(m)
  OBVIOUS
<1>19. e.hot = t /\ e.cold = m.cold + Chunk /\ e.keys = m.keys /\ e.ghost = g
  BY <1>17, <1>18
<1>20. IsSplit(e.hot, e.cold, e.keys)
  <2>1. m.cold \in Nat /\ Chunk <= m.cold
    BY DEF IsMem, IsSplit
  <2>2. PICK x : x = IF m.keys THEN KeyChunk ELSE 0
    OBVIOUS
  <2>3. x \in Nat
    BY <2>2, Sizes
  <2>4. m.cold + P + x = Total
    BY <1>1, <1>2, <2>2 DEF IsMem, IsSplit
  <2>5. e.cold \in Nat /\ Chunk <= e.cold
    BY <1>19, <2>1, Sizes
  <2>6. e.cold + Q + x = Total
    BY <1>3, <1>4, <1>19, <2>1, <2>3, <2>4, Sizes
  <2>7. e.hot.pages = Q
    BY <1>13, <1>16, <1>19
  <2> QED BY <1>19, <2>2, <2>5, <2>6, <2>7 DEF IsSplit
<1>21. e.hot.pages = Q
  BY <1>13, <1>16, <1>19
<1>22. IsMem(e)
  <2>1. e = [hot |-> e.hot, cold |-> e.cold, keys |-> e.keys, ghost |-> e.ghost]
    BY <1>17, <1>18, <1>19
  <2>2. Sound(e.hot, e.hot.pages)
    BY <1>13, <1>16, <1>19
  <2>3. e.keys \in BOOLEAN
    BY <1>19 DEF IsMem
  <2> QED BY <1>15, <1>19, <1>20, <2>1, <2>2, <2>3 DEF IsMem
<1>23. KeepsBelow(e.hot, h, e.hot.pages * EPP) /\ AllReached(e.hot)
  BY <1>11, <1>13, <1>16, <1>19, <1>21
<1> QED BY <1>1, <1>2, <1>4, <1>15, <1>18, <1>19, <1>21, <1>22, <1>23

\* Taking pages for the keys.
LEMMA ExpandKeysIs ==
    ASSUME HotTableAssumption, NEW m, IsMem(m), CanExpandKeys(m)
    PROVE  IsMem(expand_keys(m)) /\ expand_keys(m).ghost.marks \subseteq m.ghost.marks
<1>1. PICK h : h = m.hot
  OBVIOUS
<1>2. PICK P : P = h.pages
  OBVIOUS
<1>3. Sound(h, P) /\ P \in Nat /\ m.keys = FALSE
  BY <1>1, <1>2, Sizes DEF IsMem, Sound, CanExpandKeys
<1>4. PICK t : t = NoStats(h)
  OBVIOUS
<1>5. Sound(t, P) /\ t.pages = P
  BY <1>3, <1>4, NoStatsSound
<1>6. PICK g : g = ghost_update_caps(m.ghost, GhostCap(P, TRUE))
  OBVIOUS
<1>7. IsGhosts(g) /\ g.marks \subseteq m.ghost.marks
  BY <1>6, CapsGhosts DEF IsMem
<1>8. expand_keys(m) = [hot |-> t, cold |-> m.cold - KeyChunk, keys |-> TRUE, ghost |-> g]
  <2>1. expand_keys(m) = [m EXCEPT !.cold = m.cold - KeyChunk, !.keys = TRUE, !.hot = t, !.ghost = g]
    BY <1>1, <1>2, <1>4, <1>6 DEF expand_keys
  <2>2. m = [hot |-> m.hot, cold |-> m.cold, keys |-> m.keys, ghost |-> m.ghost]
    BY DEF IsMem
  <2>3. PICK a : a = [m EXCEPT !.cold = m.cold - KeyChunk]
    OBVIOUS
  <2>4. PICK b : b = [a EXCEPT !.keys = TRUE]
    OBVIOUS
  <2>5. PICK c : c = [b EXCEPT !.hot = t]
    OBVIOUS
  <2>6. expand_keys(m) = [c EXCEPT !.ghost = g]
    BY <2>1, <2>3, <2>4, <2>5
  <2>7. a = [hot |-> m.hot, cold |-> m.cold - KeyChunk, keys |-> m.keys, ghost |-> m.ghost]
    BY <2>2, <2>3
  <2>8. b = [hot |-> m.hot, cold |-> m.cold - KeyChunk, keys |-> TRUE, ghost |-> m.ghost]
    BY <2>4, <2>7
  <2>9. c = [hot |-> t, cold |-> m.cold - KeyChunk, keys |-> TRUE, ghost |-> m.ghost]
    BY <2>5, <2>8
  <2> QED BY <2>6, <2>9
<1>9. PICK e : e = expand_keys(m)
  OBVIOUS
<1>10. e.hot = t /\ e.cold = m.cold - KeyChunk /\ e.keys = TRUE /\ e.ghost = g
  BY <1>8, <1>9
<1>11. IsSplit(e.hot, e.cold, e.keys)
  <2>1. m.cold \in Nat /\ m.cold > Chunk + KeyChunk - 1
    BY DEF IsMem, IsSplit, CanExpandKeys
  <2>2. m.cold + P = Total
    BY <1>1, <1>2, <1>3, <2>1 DEF IsMem, IsSplit
  <2>3. e.cold \in Nat /\ Chunk <= e.cold
    BY <1>10, <2>1, Sizes
  <2>4. e.cold + P + KeyChunk = Total
    BY <1>3, <1>10, <2>1, <2>2, Sizes
  <2> QED BY <1>5, <1>10, <2>3, <2>4 DEF IsSplit
<1>12. IsMem(e)
  <2>1. e = [hot |-> e.hot, cold |-> e.cold, keys |-> e.keys, ghost |-> e.ghost]
    BY <1>8, <1>9, <1>10
  <2>2. Sound(e.hot, e.hot.pages)
    BY <1>5, <1>10
  <2> QED BY <1>7, <1>10, <1>11, <2>1, <2>2 DEF IsMem
<1> QED BY <1>7, <1>9, <1>10, <1>12

\* adaptive_try_rebalance takes one of these steps or none.
LEMMA RebalanceIs ==
    ASSUME HotTableAssumption, NEW m, IsMem(m)
    PROVE  IsMem(try_rebalance(m)) /\ try_rebalance(m).ghost.marks \subseteq m.ghost.marks
<1>1. \/ CanExpand(m) /\ try_rebalance(m) = expand_hot(m)
      \/ CanExpandKeys(m) /\ try_rebalance(m) = expand_keys(m)
      \/ CanShrink(m) /\ try_rebalance(m) = shrink_hot(m)
      \/ try_rebalance(m) = m
  BY DEF try_rebalance
<1>2. CASE CanExpand(m) /\ try_rebalance(m) = expand_hot(m)
  BY <1>2, ExpandIs
<1>3. CASE CanExpandKeys(m) /\ try_rebalance(m) = expand_keys(m)
  BY <1>3, ExpandKeysIs
<1>4. CASE CanShrink(m) /\ try_rebalance(m) = shrink_hot(m)
  BY <1>4, ShrinkIs
<1>5. CASE try_rebalance(m) = m
  BY <1>5
<1> QED BY <1>1, <1>2, <1>3, <1>4, <1>5

-----------------------------------------------------------------------------
(***************************************************************************)
(* The LRU.                                                                *)
(***************************************************************************)
\* lru_update and lru_push: the page comes first, no other page comes in, none goes.
LEMMA HeadLru ==
    ASSUME NEW l, IsLru(l), NEW p \in Pages
    PROVE  LET t == ToHead(l, p) IN
           /\ IsLru(t) /\ t # <<>> /\ Len(t) <= Len(l) + 1
           /\ Contains(l, p) => Len(t) = Len(l)
           /\ \A i \in 1 .. Len(t) : t[i] = p \/ \E j \in 1 .. Len(l) : t[i] = l[j]
<1>1. PICK n \in Nat : n = Len(l) /\ l \in [1 .. n -> Pages]
  BY DEF IsLru
<1>2. \A i, j \in 1 .. n : l[i] = l[j] => i = j
  BY <1>1 DEF IsLru
<1>3. PICK t : t = ToHead(l, p)
  OBVIOUS
<1>4. CASE ~Contains(l, p)
  <2>1. t = <<p>> \o l
    BY <1>3, <1>4 DEF ToHead
  <2>2. \A i \in 1 .. n : l[i] # p
    BY <1>1, <1>4 DEF Contains
  <2>3. t \in Seq(Pages) /\ Len(t) = n + 1
    BY <1>1, <2>1 DEF IsLru
  <2>4. ASSUME NEW i \in 1 .. n + 1
        PROVE  t[i] = IF i = 1 THEN p ELSE l[i - 1]
    BY <1>1, <2>1 DEF IsLru
  <2>5. ASSUME NEW i \in 1 .. n + 1, i # 1 PROVE i - 1 \in 1 .. n
    BY <1>1, <2>5
  <2>6. ASSUME NEW i \in 1 .. n + 1, NEW j \in 1 .. n + 1, t[i] = t[j] PROVE i = j
    <3>1. CASE i = 1 /\ j = 1
      BY <3>1
    <3>2. CASE i = 1 /\ j # 1
      BY <2>2, <2>4, <2>5, <2>6, <3>2
    <3>3. CASE i # 1 /\ j = 1
      BY <2>2, <2>4, <2>5, <2>6, <3>3
    <3>4. CASE i # 1 /\ j # 1
      <4>1. l[i - 1] = l[j - 1] /\ i - 1 \in 1 .. n /\ j - 1 \in 1 .. n
        BY <2>4, <2>5, <2>6, <3>4
      <4>2. i - 1 = j - 1
        BY <1>2, <4>1
      <4> QED BY <4>2
    <3> QED BY <3>1, <3>2, <3>3, <3>4
  <2>7. IsLru(t)
    BY <2>3, <2>6 DEF IsLru
  <2>8. \A i \in 1 .. Len(t) : t[i] = p \/ \E j \in 1 .. n : t[i] = l[j]
    BY <2>3, <2>4, <2>5
  <2>9. t # <<>>
    BY <1>1, <2>3
  <2>10. Len(t) <= Len(l) + 1
    BY <1>1, <2>3
  <2>11. \A i \in 1 .. Len(t) : t[i] = p \/ \E j \in 1 .. Len(l) : t[i] = l[j]
    BY <1>1, <2>8
  <2> QED BY <1>3, <1>4, <2>7, <2>9, <2>10, <2>11
<1>5. CASE Contains(l, p)
  <2>1. \E i \in 1 .. n : l[i] = p
    BY <1>1, <1>5 DEF Contains
  <2>2. PICK a \in 1 .. n : a = (CHOOSE i \in 1 .. Len(l) : l[i] = p) /\ l[a] = p
    BY <1>1, <2>1
  <2>3. t = [i \in 1 .. n |-> IF i = 1 THEN p ELSE IF i <= a THEN l[i - 1] ELSE l[i]]
    BY <1>1, <1>3, <1>5, <2>2 DEF ToHead
  <2>4. PICK s : s = [i \in 1 .. n |-> IF i = 1 THEN a ELSE IF i <= a THEN i - 1 ELSE i]
    OBVIOUS
  <2>5. ASSUME NEW i \in 1 .. n
        PROVE  s[i] \in 1 .. n /\ s[i] = IF i = 1 THEN a ELSE IF i <= a THEN i - 1 ELSE i
    BY <1>1, <2>4
  <2>6. ASSUME NEW i \in 1 .. n PROVE t[i] = l[s[i]]
    BY <2>2, <2>3, <2>5
  <2>7. ASSUME NEW i \in 1 .. n, NEW j \in 1 .. n, s[i] = s[j] PROVE i = j
    BY <2>5, <2>7
  <2>8. ASSUME NEW i \in 1 .. n, NEW j \in 1 .. n, t[i] = t[j] PROVE i = j
    <3>1. l[s[i]] = l[s[j]] /\ s[i] \in 1 .. n /\ s[j] \in 1 .. n
      BY <2>5, <2>6, <2>8
    <3> QED BY <1>2, <2>7, <3>1
  <2>9. t \in [1 .. n -> Pages] /\ DOMAIN t = 1 .. n
    <3>1. \A i \in 1 .. n : t[i] \in Pages
      BY <1>1, <2>5, <2>6
    <3> QED BY <2>3, <3>1
  <2>10. t \in Seq(Pages) /\ Len(t) = n
    <3>1. t \in Seq(Pages)
      BY <1>1, <2>9
    <3> QED BY <1>1, <2>9, <3>1
  <2>11. IsLru(t)
    BY <2>8, <2>10 DEF IsLru
  <2>12. \A i \in 1 .. Len(t) : \E j \in 1 .. n : t[i] = l[j]
    BY <2>5, <2>6, <2>10
  <2>13. t # <<>>
    BY <2>2, <2>10
  <2> QED BY <1>1, <1>3, <2>10, <2>11, <2>12, <2>13
<1> QED BY <1>4, <1>5

\* The tail leaves.
LEMMA TailLru ==
    ASSUME NEW l, IsLru(l), l # <<>>
    PROVE  /\ Last(l) \in Pages /\ IsLru(Front(l)) /\ Len(Front(l)) = Len(l) - 1 /\ Len(l) \in Nat
           /\ \A i \in 1 .. Len(Front(l)) : i \in 1 .. Len(l) /\ Front(l)[i] = l[i] /\ l[i] # Last(l)
<1>1. PICK n \in Nat : n = Len(l) /\ l \in [1 .. n -> Pages] /\ n > 0
  BY DEF IsLru
<1>2. \A i, j \in 1 .. n : l[i] = l[j] => i = j
  BY <1>1 DEF IsLru
<1>3. PICK t : t = Front(l)
  OBVIOUS
<1>4. t = SubSeq(l, 1, n - 1)
  BY <1>1, <1>3 DEF Front
<1>5. Last(l) = l[n] /\ n \in 1 .. n
  BY <1>1 DEF Last
<1>6. t = [i \in 1 .. n - 1 |-> l[i]]
  BY <1>1, <1>4
<1>7. ASSUME NEW i \in 1 .. n - 1
      PROVE  i \in 1 .. n /\ t[i] = l[i] /\ t[i] \in Pages /\ i # n
  <2>1. i \in 1 .. n /\ i # n
    OBVIOUS
  <2>2. t[i] = l[i]
    BY <1>6
  <2> QED BY <1>1, <2>1, <2>2
<1>8. t \in Seq(Pages) /\ Len(t) = n - 1
  <2>1. n - 1 \in Nat
    BY <1>1
  <2>2. t \in [1 .. n - 1 -> Pages]
    BY <1>6, <1>7
  <2>3. t \in Seq(Pages)
    BY <2>1, <2>2
  <2> QED BY <1>6, <2>1, <2>3
<1>9. \A i \in 1 .. n - 1 : l[i] # l[n]
  BY <1>2, <1>5, <1>7
<1>10. IsLru(t)
  BY <1>2, <1>7, <1>8 DEF IsLru
<1> QED BY <1>1, <1>3, <1>5, <1>7, <1>8, <1>9, <1>10

-----------------------------------------------------------------------------
(***************************************************************************)
(* The steps of requests.                                                  *)
(***************************************************************************)
\* One request goes on.
LEMMA RequestGoesOn ==
    ASSUME NEW q, Requests(q), NEW r \in Reqs, NEW v, Waits(v), NEW u, u = [q EXCEPT ![r] = v]
    PROVE  Requests(u)
<1>1. q \in [Reqs -> ReqSet] /\ \A x \in Reqs : q[x].op # "idle" => q[x].lpa \in HotLpas
  BY DEF Requests
<1>2. v \in ReqSet /\ (v.op # "idle" => v.lpa \in HotLpas)
  BY DEF Waits
<1>3. u \in [Reqs -> ReqSet]
  BY <1>1, <1>2
<1>4. ASSUME NEW x \in Reqs, u[x].op # "idle" PROVE u[x].lpa \in HotLpas
  <2>1. u[x] = IF x = r THEN v ELSE q[x]
    BY <1>1
  <2> QED BY <1>1, <1>2, <1>4, <2>1
<1> QED BY <1>3, <1>4 DEF Requests

\* The requests there may be.
LEMMA WaitsOf ==
    ASSUME NEW l \in HotLpas, NEW op \in {"read", "write", "update"}
    PROVE  Waits(NoOp) /\ Waits([op |-> op, lpa |-> l])
<1>1. Waits(NoOp)
  BY DEF Waits, ReqSet, NoOp
<1>2. Waits([op |-> op, lpa |-> l])
  BY DEF Waits, ReqSet
<1> QED BY <1>1, <1>2

\* cmt_grain_heat_raise.
LEMMA HeatRaised ==
    ASSUME HotTableAssumption, cnt \in [HotLpas -> Heats], NEW l \in HotLpas,
           \/ grain_access(l)
           \/ \E n \in {1, 2} : cnt' = [cnt EXCEPT ![l] = Min({@ + n, MaxHeat})]
           \/ UNCHANGED cnt
    PROVE  cnt' \in [HotLpas -> Heats]
<1>1. \/ \E n \in {1, 2} : cnt' = [cnt EXCEPT ![l] = Min({@ + n, MaxHeat})]
      \/ cnt' = cnt
  BY DEF grain_access
<1>2. ASSUME NEW n \in {1, 2} PROVE Min({cnt[l] + n, MaxHeat}) \in Heats
  <2>1. PICK a \in Nat : a = cnt[l] + n
    BY DEF Heats
  <2>2. {a, MaxHeat} \in SUBSET Nat /\ {a, MaxHeat} # {}
    BY Sizes
  <2>3. PICK m : m = Min({a, MaxHeat})
    OBVIOUS
  <2>4. m \in {a, MaxHeat} /\ \A x \in {a, MaxHeat} : m <= x
    <3>1. \E x \in {a, MaxHeat} : \A y \in {a, MaxHeat} : x <= y
      BY <2>2, LeastOne
    <3> QED BY <2>3, <3>1 DEF Min
  <2> QED BY <2>1, <2>2, <2>3, <2>4, Sizes DEF Heats
<1> QED BY <1>1, <1>2

\* A resident page touched.
LEMMA TouchedResident ==
    ASSUME NEW l, NEW g, NEW k, Resident(l, g, k), NEW p \in Pages, Contains(l, p)
    PROVE  Resident(ToHead(l, p), g, k)
<1>1. /\ IsLru(l) /\ Len(l) <= k /\ (k > 0 => l # <<>>)
      /\ \A i \in 1 .. Len(l) : l[i] \notin g.marks
  BY DEF Resident
<1>2. PICK t : t = ToHead(l, p)
  OBVIOUS
<1>3. /\ IsLru(t) /\ t # <<>> /\ Len(t) = Len(l)
      /\ \A i \in 1 .. Len(t) : t[i] = p \/ \E j \in 1 .. Len(l) : t[i] = l[j]
  BY <1>1, <1>2, HeadLru
<1>4. PICK a \in 1 .. Len(l) : l[a] = p
  BY DEF Contains
<1>5. \A i \in 1 .. Len(t) : t[i] \notin g.marks
  BY <1>1, <1>3, <1>4
<1> QED BY <1>1, <1>2, <1>3, <1>5 DEF Resident

\* The cold half of a lookup.
LEMMA ColdLookupKeeps ==
    ASSUME HotTableAssumption, HotInv, NEW r \in Reqs, NEW l \in HotLpas,
           NEW op \in {"read", "write"}, ColdLookup(r, op, l)
    PROVE  cnt' \in [HotLpas -> Heats] /\ Requests(req') /\ Resident(lru', ghost, nr)
<1>1. cnt' \in [HotLpas -> Heats]
  BY HeatRaised DEF ColdLookup, HotInv
<1>2. Requests(req')
  <2>1. PICK v : req' = [req EXCEPT ![r] = v]
                 /\ (v = [op |-> "update", lpa |-> l] \/ v = NoOp \/ v = [op |-> op, lpa |-> l])
    BY DEF ColdLookup
  <2>2. Waits(v)
    BY <2>1, WaitsOf
  <2>3. Requests(req)
    BY DEF HotInv
  <2> QED BY <2>1, <2>2, <2>3, RequestGoesOn
<1>3. Resident(lru', ghost, nr)
  <2>1. Resident(lru, ghost, nr)
    BY DEF HotInv
  <2>2. PICK p \in Pages : p = PageOf(l)
    BY PageOfLpa
  <2>3. (Contains(lru, p) /\ lru' = ToHead(lru, p)) \/ lru' = lru
    BY <2>2 DEF ColdLookup
  <2> QED BY <2>1, <2>3, TouchedResident
<1> QED BY <1>1, <1>2, <1>3

\* A hit raises the heat of the entry, once or twice.
LEMMA HitKeeps ==
    ASSUME HotTableAssumption, HotInv, NEW l \in HotLpas, NEW s, s = HitSlot(hot, l), s # None
    PROVE  /\ Sound(Raise(hot, s), hot.pages) /\ Raise(hot, s).pages = hot.pages
           /\ Sound(Raise(Raise(hot, s), s), hot.pages)
           /\ Raise(Raise(hot, s), s).pages = hot.pages
<1>1. Sound(hot, hot.pages)
  BY DEF HotInv
<1>2. s \in 0 .. HotEntries(hot) - 1 /\ hot.slot[s].lpa = l
  <2>1. hot.pages \in Chunk .. HotCap
    BY <1>1 DEF Sound
  <2> QED BY <2>1, HitIs
<1>3. PICK P : P = hot.pages
  OBVIOUS
<1>4. PICK h : h = Raise(hot, s)
  OBVIOUS
<1>5. Sound(h, P) /\ HotEntries(h) = HotEntries(hot) /\ h.slot[s].lpa = l
  <2>1. hot.slot[s].lpa \in HotLpas /\ Sound(hot, P)
    BY <1>1, <1>2, <1>3
  <2> QED BY <1>2, <1>4, <2>1, RaiseSound
<1>6. PICK u : u = Raise(h, s)
  OBVIOUS
<1>7. Sound(u, P)
  <2>1. s \in 0 .. HotEntries(h) - 1 /\ h.slot[s].lpa \in HotLpas
    BY <1>2, <1>5
  <2> QED BY <1>5, <1>6, <2>1, RaiseSound
<1>8. h.pages = P /\ u.pages = P
  BY <1>5, <1>7, TableFields DEF Sound
<1> QED BY <1>3, <1>4, <1>5, <1>6, <1>7, <1>8

\* The table changes, but not its pages.
LEMMA SameSplit ==
    ASSUME NEW h, NEW t, NEW c, NEW k, IsSplit(h, c, k), t.pages = h.pages PROVE IsSplit(t, c, k)
BY DEF IsSplit

\* Read.
LEMMA ReadKeeps ==
    ASSUME HotTableAssumption, HotInv, NEW r \in Reqs, NEW l \in Asked, NEW same \in BOOLEAN,
           Read(r, l, same)
    PROVE  HotInv'
<1>1. l \in HotLpas
  BY Sizes
<1>2. PICK s : s = HitSlot(hot, l)
  OBVIOUS
<1>3. /\ UNCHANGED <<pt, nr, cold, keys, ghost>>
      /\ \/ s # None /\ hot' = Raise(hot, s) /\ grain_access(l) /\ UNCHANGED <<lru, req>>
         \/ s # None /\ hot' = Raise(Raise(hot, s), s) /\ ColdLookup(r, "read", l)
         \/ s = None /\ hot' = hot /\ ColdLookup(r, "read", l)
  BY <1>2 DEF Read
<1>4. Sound(hot', hot.pages) /\ hot'.pages = hot.pages
  <2>1. CASE s = None
    BY <1>3, <2>1 DEF HotInv
  <2>2. CASE s # None
    <3>1. /\ Sound(Raise(hot, s), hot.pages) /\ Raise(hot, s).pages = hot.pages
          /\ Sound(Raise(Raise(hot, s), s), hot.pages)
          /\ Raise(Raise(hot, s), s).pages = hot.pages
      BY <1>1, <1>2, <2>2, HitKeeps
    <3> QED BY <1>3, <2>2, <3>1
  <2> QED BY <2>1, <2>2
<1>5. cnt' \in [HotLpas -> Heats] /\ Requests(req') /\ Resident(lru', ghost, nr)
  <2>1. CASE ColdLookup(r, "read", l)
    BY <1>1, <2>1, ColdLookupKeeps
  <2>2. CASE grain_access(l) /\ UNCHANGED <<lru, req>>
    BY <1>1, <2>2, HeatRaised DEF HotInv
  <2> QED BY <1>3, <2>1, <2>2
<1>6. IsSplit(hot', cold, keys)
  BY <1>4, SameSplit DEF HotInv
<1> QED BY <1>3, <1>4, <1>5, <1>6 DEF HotInv

\* Write.
LEMMA WriteKeeps ==
    ASSUME HotTableAssumption, HotInv, NEW r \in Reqs, NEW l \in Asked, NEW same \in BOOLEAN,
           Write(r, l, same)
    PROVE  HotInv'
<1>1. l \in HotLpas
  BY Sizes
<1>2. PICK s : s = HitSlot(hot, l)
  OBVIOUS
<1>3. PICK p \in Pages : p = PageOf(l)
  BY <1>1, PageOfLpa
<1>4. PICK n \in {1, 2} : n = IF s # None /\ same /\ Contains(lru, p) THEN 2 ELSE 1
  OBVIOUS
<1>5. /\ UNCHANGED <<pt, nr, cold, keys, ghost>>
      /\ hot' = IF s = None THEN hot ELSE Raise(Raise(hot, s), s)
      /\ \/ /\ cnt' = [cnt EXCEPT ![l] = Min({@ + n, MaxHeat})]
            /\ Contains(lru, p) /\ lru' = ToHead(lru, p)
            /\ req' = [req EXCEPT ![r] = [op |-> "update", lpa |-> l]]
         \/ /\ UNCHANGED <<lru, cnt>>
            /\ req' = [req EXCEPT ![r] = [op |-> "write", lpa |-> l]]
  BY <1>2, <1>3, <1>4 DEF Write
<1>6. Sound(hot', hot.pages) /\ hot'.pages = hot.pages
  <2>1. CASE s = None
    BY <1>5, <2>1 DEF HotInv
  <2>2. CASE s # None
    <3>1. Sound(Raise(Raise(hot, s), s), hot.pages) /\ Raise(Raise(hot, s), s).pages = hot.pages
      BY <1>1, <1>2, <2>2, HitKeeps
    <3> QED BY <1>5, <2>2, <3>1
  <2> QED BY <2>1, <2>2
<1>7. cnt' \in [HotLpas -> Heats]
  BY <1>1, <1>5, HeatRaised DEF HotInv
<1>8. Requests(req')
  <2>1. PICK v : req' = [req EXCEPT ![r] = v]
                 /\ (v = [op |-> "update", lpa |-> l] \/ v = [op |-> "write", lpa |-> l])
    BY <1>5
  <2>2. Waits(v)
    BY <1>1, <2>1, WaitsOf
  <2>3. Requests(req)
    BY DEF HotInv
  <2> QED BY <2>1, <2>2, <2>3, RequestGoesOn
<1>9. Resident(lru', ghost, nr)
  <2>1. Resident(lru, ghost, nr)
    BY DEF HotInv
  <2> QED BY <1>5, <2>1, TouchedResident
<1>10. IsSplit(hot', cold, keys)
  BY <1>6, SameSplit DEF HotInv
<1> QED BY <1>5, <1>6, <1>7, <1>8, <1>9, <1>10 DEF HotInv

\* Probe.
LEMMA ProbeKeeps ==
    ASSUME HotTableAssumption, HotInv, NEW r \in Reqs, NEW l \in Asked, Probe(r, l)
    PROVE  HotInv'
<1>1. l \in HotLpas
  BY Sizes
<1>2. ColdLookup(r, "read", l) /\ UNCHANGED <<pt, nr, hot, cold, keys, ghost>>
  BY DEF Probe
<1>3. cnt' \in [HotLpas -> Heats] /\ Requests(req') /\ Resident(lru', ghost, nr)
  BY <1>1, <1>2, ColdLookupKeeps
<1> QED BY <1>2, <1>3 DEF HotInv

\* update.
LEMMA UpdateKeeps ==
    ASSUME HotTableAssumption, HotInv, NEW r \in Reqs, update(r)
    PROVE  HotInv'
<1>1. /\ pt' = [pt EXCEPT ![req[r].lpa] = @ + 1] /\ req' = [req EXCEPT ![r] = NoOp]
      /\ UNCHANGED <<nr, cnt, flag, hot, cold, keys, ghost>>
  BY DEF update
<1>2. PICK l \in HotLpas : l = req[r].lpa
  BY DEF update, HotInv, Requests
<1>3. PICK p \in Pages : p = PageOf(l)
  BY PageOfLpa
<1>4. lru' = IF Contains(lru, p) THEN ToHead(lru, p) ELSE lru
  BY <1>2, <1>3 DEF update
<1>5. pt' \in [HotLpas -> Nat]
  BY <1>1, <1>2 DEF HotInv
<1>6. Requests(req')
  <2>1. Waits(NoOp) /\ Requests(req)
    BY <1>2, WaitsOf DEF HotInv
  <2> QED BY <1>1, <2>1, RequestGoesOn
<1>7. Resident(lru', ghost, nr)
  <2>1. Resident(lru, ghost, nr)
    BY DEF HotInv
  <2> QED BY <1>4, <2>1, TouchedResident
<1> QED BY <1>1, <1>5, <1>6, <1>7 DEF HotInv

\* The page that comes is no ghost any more, and first in the LRU.
LEMMA ListedKeeps ==
    ASSUME HotTableAssumption, HotInv, NEW r \in Reqs, req[r].op \in {"read", "write"},
           NEW g, IsGhosts(g), NEW left, IsLru(left),
           \A i \in 1 .. Len(left) : left[i] \notin g.marks,
           NEW k \in Nat, k > 0, Len(left) + 1 <= k,
           NEW cool, NEW flags, Listed(r, g, left, cool, flags)
    PROVE  /\ pt' = pt /\ cnt' \in [HotLpas -> Heats] /\ Requests(req')
           /\ IsGhosts(ghost') /\ Resident(lru', ghost', k)
<1>1. PICK l \in HotLpas : l = req[r].lpa
  BY DEF HotInv, Requests
<1>2. PICK p \in Pages : p = PageOf(l)
  BY PageOfLpa
<1>3. /\ ghost' = ghost_clear(g, p) /\ lru' = ToHead(left, p) /\ pt' = pt
      /\ cnt' = [x \in HotLpas |-> IF x \in Of(p) \cup cool THEN 0 ELSE cnt[x]]
      /\ req' = [req EXCEPT ![r] = IF @.op = "write" THEN [@ EXCEPT !.op = "update"] ELSE NoOp]
  BY <1>1, <1>2 DEF Listed
<1>4. cnt' \in [HotLpas -> Heats]
  <2>1. 0 \in Heats
    BY Sizes DEF Heats
  <2>2. cnt \in [HotLpas -> Heats]
    BY DEF HotInv
  <2> QED BY <1>3, <2>1, <2>2
<1>5. Requests(req')
  <2>1. PICK o \in ReqSet : o = req[r]
    BY DEF HotInv, Requests
  <2>2. PICK v : v = IF o.op = "write" THEN [o EXCEPT !.op = "update"] ELSE NoOp
    OBVIOUS
  <2>3. v = NoOp \/ v = [op |-> "update", lpa |-> l]
    BY <1>1, <2>1, <2>2 DEF ReqSet
  <2>4. Waits(v)
    BY <2>3, WaitsOf
  <2>5. Requests(req) /\ req' = [req EXCEPT ![r] = v]
    BY <1>3, <2>1, <2>2 DEF HotInv
  <2> QED BY <2>4, <2>5, RequestGoesOn
<1>6. PICK gh : gh = ghost'
  OBVIOUS
<1>7. IsGhosts(gh) /\ gh.marks = g.marks \ {p}
  BY <1>3, <1>6, ClearGhosts
<1>8. PICK t : t = ToHead(left, p)
  OBVIOUS
<1>9. /\ IsLru(t) /\ t # <<>> /\ Len(t) <= Len(left) + 1
      /\ \A i \in 1 .. Len(t) : t[i] = p \/ \E j \in 1 .. Len(left) : t[i] = left[j]
  BY <1>8, HeadLru
<1>10. \A i \in 1 .. Len(t) : t[i] \notin gh.marks
  BY <1>7, <1>9
<1>11. Len(t) <= k
  <2>1. PICK a \in Nat, b \in Nat : a = Len(t) /\ b = Len(left)
    BY <1>9 DEF IsLru
  <2>2. a <= b + 1 /\ b + 1 <= k
    BY <1>9, <2>1
  <2> QED BY <2>1, <2>2
<1>12. Resident(t, gh, k)
  BY <1>9, <1>10, <1>11 DEF Resident
<1> QED BY <1>3, <1>4, <1>5, <1>6, <1>7, <1>8, <1>12

\* list_up while there is room.
LEMMA ListUpKeeps ==
    ASSUME HotTableAssumption, HotInv, NEW r \in Reqs, list_up(r)
    PROVE  HotInv'
<1>1. /\ req[r].op \in {"read", "write"} /\ nr' = nr + 1 /\ Listed(r, ghost, lru, {}, flag)
      /\ UNCHANGED <<hot, cold, keys>>
  BY DEF list_up
<1>2. IsGhosts(ghost) /\ Resident(lru, ghost, nr) /\ nr \in Nat
  BY DEF HotInv
<1>3. PICK k \in Nat : k = nr + 1 /\ k > 0
  BY <1>2
<1>4. IsLru(lru) /\ (\A i \in 1 .. Len(lru) : lru[i] \notin ghost.marks) /\ Len(lru) + 1 <= k
  <2>1. Len(lru) \in Nat /\ Len(lru) <= nr
    BY <1>2 DEF Resident, IsLru
  <2> QED BY <1>2, <1>3, <2>1 DEF Resident
<1>5. /\ pt' = pt /\ cnt' \in [HotLpas -> Heats] /\ Requests(req')
      /\ IsGhosts(ghost') /\ Resident(lru', ghost', k)
  BY <1>1, <1>2, <1>3, <1>4, ListedKeeps
<1> QED BY <1>1, <1>3, <1>5 DEF HotInv

\* list_up of a full cache, with what eviction, promotion and rebalancing do.
LEMMA ListUpFullKeeps ==
    ASSUME HotTableAssumption, HotInv, NEW r \in Reqs, NEW promote \in BOOLEAN,
           NEW rebalance \in BOOLEAN, list_up_full(r, promote, rebalance)
    PROVE  HotInv'
<1>1. /\ IsGhosts(ghost) /\ Resident(lru, ghost, nr) /\ nr \in Nat /\ keys \in BOOLEAN
      /\ Sound(hot, hot.pages) /\ IsSplit(hot, cold, keys)
      /\ pt \in [HotLpas -> Nat] /\ cnt \in [HotLpas -> Heats]
  BY DEF HotInv
<1>2. IsLru(lru) /\ lru # <<>> /\ Len(lru) <= nr /\ \A i \in 1 .. Len(lru) : lru[i] \notin ghost.marks
  BY <1>1 DEF Resident, list_up_full
<1>3. PICK left : left = Front(lru)
  OBVIOUS
<1>4. PICK victim \in Pages : victim = Last(lru)
  BY <1>2, TailLru
<1>5. /\ IsLru(left) /\ Len(left) = Len(lru) - 1 /\ Len(lru) \in Nat
      /\ \A i \in 1 .. Len(left) : i \in 1 .. Len(lru) /\ left[i] = lru[i] /\ lru[i] # victim
  BY <1>2, <1>3, <1>4, TailLru
<1>6. PICK h : h = PromoteAll(promote)
  OBVIOUS
<1>7. PICK P : P = hot.pages
  OBVIOUS
<1>8. Sound(h, P) /\ h.pages = P
  <2>1. Sound(hot, P)
    BY <1>1, <1>7
  <2>2. Sound(h, P)
    BY <1>1, <1>2, <1>6, <2>1, PromoteAllSound
  <2> QED BY <2>2, TableFields DEF Sound
<1>9. PICK g : g = ghost_mark(ghost, victim, GhostCap(hot.pages, keys))
  OBVIOUS
<1>10. IsGhosts(g) /\ g.marks \subseteq ghost.marks \cup {victim}
  BY <1>1, <1>9, MarkGhosts
<1>11. PICK evicted : evicted = [hot |-> h, cold |-> cold, keys |-> keys, ghost |-> g]
  OBVIOUS
<1>12. PICK mem : mem = IF rebalance THEN try_rebalance(evicted) ELSE evicted
  OBVIOUS
<1>13. /\ req[r].op \in {"read", "write"}
       /\ hot' = mem.hot /\ cold' = mem.cold /\ keys' = mem.keys /\ nr' = nr
       /\ Listed(r, mem.ghost, left, Cooled(promote) \cup Of(victim), flag \ Unflagged(promote))
  BY <1>3, <1>4, <1>6, <1>9, <1>11, <1>12 DEF list_up_full
<1>14. IsMem(evicted)
  <2>1. /\ evicted.hot = h /\ evicted.cold = cold /\ evicted.keys = keys /\ evicted.ghost = g
        /\ evicted = [hot |-> evicted.hot, cold |-> evicted.cold, keys |-> evicted.keys,
                      ghost |-> evicted.ghost]
    BY <1>11
  <2>2. IsSplit(h, cold, keys)
    BY <1>1, <1>7, <1>8, SameSplit
  <2> QED BY <1>1, <1>8, <1>10, <2>1, <2>2 DEF IsMem
<1>15. IsMem(mem) /\ mem.ghost.marks \subseteq g.marks
  <2>1. CASE rebalance
    <3>1. IsMem(try_rebalance(evicted))
          /\ try_rebalance(evicted).ghost.marks \subseteq evicted.ghost.marks
      BY <1>14, RebalanceIs
    <3> QED BY <1>11, <1>12, <2>1, <3>1
  <2>2. CASE ~rebalance
    BY <1>11, <1>12, <1>14, <2>2
  <2> QED BY <2>1, <2>2
<1>16. PICK w : w = mem.ghost
  OBVIOUS
<1>17. IsGhosts(w) /\ \A i \in 1 .. Len(left) : left[i] \notin w.marks
  <2>1. IsGhosts(w) /\ w.marks \subseteq ghost.marks \cup {victim}
    BY <1>10, <1>15, <1>16 DEF IsMem
  <2> QED BY <1>2, <1>5, <2>1
<1>18. PICK k \in Nat : k = nr /\ k > 0 /\ Len(left) + 1 <= k
  <2>1. Len(lru) > 0
    BY <1>2, <1>5 DEF IsLru
  <2>2. Len(left) + 1 = Len(lru)
    BY <1>5
  <2> QED BY <1>1, <1>2, <1>5, <2>1, <2>2
<1>19. /\ pt' = pt /\ cnt' \in [HotLpas -> Heats] /\ Requests(req')
       /\ IsGhosts(ghost') /\ Resident(lru', ghost', k)
  BY <1>5, <1>13, <1>16, <1>17, <1>18, ListedKeeps
<1>20. Sound(hot', hot'.pages) /\ IsSplit(hot', cold', keys') /\ keys' \in BOOLEAN
  BY <1>13, <1>15 DEF IsMem
<1> QED BY <1>1, <1>13, <1>18, <1>19, <1>20 DEF HotInv

\* prepare_for_benchmark.
LEMMA PrepareKeeps ==
    ASSUME HotTableAssumption, HotInv, prepare_for_benchmark
    PROVE  HotInv'
<1>1. /\ IsGhosts(ghost) /\ Resident(lru, ghost, nr) /\ Sound(hot, hot.pages)
      /\ IsSplit(hot, cold, keys)
  BY DEF HotInv
<1>2. UNCHANGED <<pt, lru, nr, cnt, flag, cold, keys, req>>
  BY DEF prepare_for_benchmark
<1>3. PICK P : P = hot.pages
  OBVIOUS
<1>4. /\ hot = [slot |-> hot.slot, pages |-> hot.pages, live |-> hot.live, valid |-> hot.valid,
                blocked |-> hot.blocked, hotEvict |-> hot.hotEvict, coldEvict |-> hot.coldEvict]
      /\ hot.blocked \in Int
  <2>1. hot \in Tables(P)
    BY <1>1, <1>3 DEF Sound
  <2> QED BY <2>1, TableFields
<1>5. PICK b \in Int, z \in Int : b = hot.blocked /\ z = 0
  BY <1>4
<1>6. PICK sl : sl = [s \in Slots |-> IF s < HotEntries(hot) THEN Empty ELSE hot.slot[s]]
  OBVIOUS
<1>7. hot' = [slot |-> sl, pages |-> hot.pages, live |-> NoneLive, valid |-> 0,
              blocked |-> b, hotEvict |-> z, coldEvict |-> z]
  <2>1. hot' = [hot EXCEPT !.slot = sl, !.live = NoneLive, !.valid = 0, !.hotEvict = 0, !.coldEvict = 0]
    BY <1>6 DEF prepare_for_benchmark
  <2>2. PICK t : t = [hot EXCEPT !.slot = sl, !.live = NoneLive]
    OBVIOUS
  <2>3. t = [slot |-> sl, pages |-> hot.pages, live |-> NoneLive, valid |-> hot.valid,
             blocked |-> b, hotEvict |-> hot.hotEvict, coldEvict |-> hot.coldEvict]
    <3>1. PICK u : u = [hot EXCEPT !.slot = sl]
      OBVIOUS
    <3>2. u = [slot |-> sl, pages |-> hot.pages, live |-> hot.live, valid |-> hot.valid,
               blocked |-> b, hotEvict |-> hot.hotEvict, coldEvict |-> hot.coldEvict]
      BY <1>4, <1>5, <3>1
    <3>3. t = [u EXCEPT !.live = NoneLive]
      BY <2>2, <3>1
    <3> QED BY <3>2, <3>3
  <2>4. PICK v : v = [t EXCEPT !.valid = 0]
    OBVIOUS
  <2>5. PICK w : w = [v EXCEPT !.hotEvict = 0]
    OBVIOUS
  <2>6. hot' = [w EXCEPT !.coldEvict = 0]
    BY <2>1, <2>2, <2>4, <2>5
  <2>7. v = [slot |-> sl, pages |-> hot.pages, live |-> NoneLive, valid |-> 0,
             blocked |-> b, hotEvict |-> hot.hotEvict, coldEvict |-> hot.coldEvict]
    BY <2>3, <2>4
  <2>8. w = [slot |-> sl, pages |-> hot.pages, live |-> NoneLive, valid |-> 0,
             blocked |-> b, hotEvict |-> z, coldEvict |-> hot.coldEvict]
    BY <1>5, <2>5, <2>7
  <2> QED BY <1>5, <2>6, <2>8
<1>8. PICK t : t = hot'
  OBVIOUS
<1>9. t = [slot |-> [s \in Slots |-> IF s < HotEntries(hot) THEN Empty ELSE hot.slot[s]],
           pages |-> hot.pages, live |-> NoneLive, valid |-> 0,
           blocked |-> b, hotEvict |-> z, coldEvict |-> z]
  BY <1>6, <1>7, <1>8
<1>10. Sound(t, P) /\ t.pages = P
  <2>1. Sound(hot, P)
    BY <1>1, <1>3
  <2> QED BY <1>9, <2>1, EmptiedSound
<1>11. IsSplit(hot', cold, keys)
  BY <1>1, <1>3, <1>8, <1>10, SameSplit
<1>12. PICK g : g = ghost'
  OBVIOUS
<1>13. g = [marks |-> {}, nr |-> 0, fifo |-> <<>>, rr |-> ghost.rr]
  <2>1. ghost = [marks |-> ghost.marks, nr |-> ghost.nr, fifo |-> ghost.fifo, rr |-> ghost.rr]
    BY <1>1, GhostParts
  <2>2. PICK u : u = [ghost EXCEPT !.marks = {}]
    OBVIOUS
  <2>3. PICK v : v = [u EXCEPT !.nr = 0]
    OBVIOUS
  <2>4. g = [v EXCEPT !.fifo = <<>>]
    BY <1>12, <2>2, <2>3 DEF prepare_for_benchmark
  <2>5. u = [marks |-> {}, nr |-> ghost.nr, fifo |-> ghost.fifo, rr |-> ghost.rr]
    BY <2>1, <2>2
  <2>6. v = [marks |-> {}, nr |-> 0, fifo |-> ghost.fifo, rr |-> ghost.rr]
    BY <2>3, <2>5
  <2> QED BY <2>4, <2>6
<1>14. IsGhosts(g) /\ g.marks = {}
  <2>1. ghost.rr \in Pages
    BY <1>1, GhostParts
  <2>2. PICK a \in SUBSET Pages, n \in Nat, q \in Seq(Pages), x \in Pages :
           a = {} /\ n = 0 /\ q = <<>> /\ x = ghost.rr
    <3>1. <<>> \in Seq(Pages)
      OBVIOUS
    <3> QED BY <2>1, <3>1
  <2>3. n = Cardinality(a) /\ g = [marks |-> a, nr |-> n, fifo |-> q, rr |-> x]
    BY <1>13, <2>2, FS_EmptySet
  <2>4. IsGhosts(g) /\ g.marks = a
    BY <2>3, GhostsOf
  <2> QED BY <2>2, <2>4
<1>15. Resident(lru, g, nr)
  BY <1>1, <1>14 DEF Resident
<1> QED BY <1>2, <1>3, <1>8, <1>10, <1>11, <1>12, <1>14, <1>15 DEF HotInv

-----------------------------------------------------------------------------
(***************************************************************************)
(* The theorems.                                                           *)
(***************************************************************************)
\* What dftl_cache_create leaves.
LEMMA InitHolds == ASSUME HotTableAssumption, HotInit PROVE HotInv
<1>1. /\ pt = [l \in HotLpas |-> IF l = 0 THEN 0 ELSE 1] /\ lru = <<>> /\ nr = 0
      /\ cnt = [l \in HotLpas |-> 0] /\ cold = Total - Chunk /\ keys = FALSE
      /\ ghost = [marks |-> {}, nr |-> 0, fifo |-> <<>>, rr |-> 0]
      /\ req = [r \in Reqs |-> NoOp]
  BY DEF HotInit
<1>2. pt \in [HotLpas -> Nat]
  BY <1>1
<1>3. cnt \in [HotLpas -> Heats]
  <2>1. 0 \in Heats
    BY Sizes DEF Heats
  <2> QED BY <1>1, <2>1
<1>4. Requests(req)
  <2>1. NoOp \in ReqSet /\ NoOp.op = "idle"
    BY DEF NoOp, ReqSet
  <2> QED BY <1>1, <2>1 DEF Requests
<1>5. PICK P \in Chunk .. HotCap : P = Chunk
  BY Sizes
<1>6. PICK z \in Int : z = 0
  OBVIOUS
<1>7. PICK sl : sl = [s \in Slots |-> Empty]
  OBVIOUS
<1>8. hot = [slot |-> sl, pages |-> P, live |-> NoneLive, valid |-> 0,
             blocked |-> z, hotEvict |-> z, coldEvict |-> z]
  BY <1>5, <1>6, <1>7 DEF HotInit
<1>9. Sound(hot, P) /\ hot.pages = P
  BY <1>7, <1>8, EmptyTable
<1>10. IsSplit(hot, cold, keys)
  <2>1. cold \in Nat /\ cold + Chunk + 0 = Total /\ Chunk <= cold
    BY <1>1, Sizes
  <2> QED BY <1>1, <1>5, <1>9, <2>1 DEF IsSplit
<1>11. IsGhosts(ghost) /\ ghost.marks = {}
  <2>1. 0 \in Pages /\ <<>> \in Seq(Pages)
    BY Sizes DEF Pages
  <2>2. PICK a \in SUBSET Pages, n \in Nat, q \in Seq(Pages), x \in Pages :
           a = {} /\ n = 0 /\ q = <<>> /\ x = 0
    BY <2>1
  <2>3. n = Cardinality(a) /\ ghost = [marks |-> a, nr |-> n, fifo |-> q, rr |-> x]
    BY <1>1, <2>2, FS_EmptySet
  <2>4. IsGhosts(ghost) /\ ghost.marks = a
    BY <2>3, GhostsOf
  <2> QED BY <2>2, <2>4
<1>12. Resident(lru, ghost, nr)
  BY <1>1 DEF Resident, IsLru
<1> QED BY <1>1, <1>2, <1>3, <1>4, <1>5, <1>9, <1>10, <1>11, <1>12 DEF HotInv

\* Every step keeps the invariant.
LEMMA StepHolds == ASSUME HotTableAssumption, HotInv, [HotNext]_hotVars PROVE HotInv'
<1>1. ASSUME NEW r \in Reqs, NEW l \in Asked, NEW same \in BOOLEAN, Read(r, l, same) PROVE HotInv'
  BY <1>1, ReadKeeps
<1>2. ASSUME NEW r \in Reqs, NEW l \in Asked, NEW same \in BOOLEAN, Write(r, l, same) PROVE HotInv'
  BY <1>2, WriteKeeps
<1>3. ASSUME NEW r \in Reqs, NEW l \in Asked, Probe(r, l) PROVE HotInv'
  BY <1>3, ProbeKeeps
<1>4. ASSUME NEW r \in Reqs, list_up(r) PROVE HotInv'
  BY <1>4, ListUpKeeps
<1>5. ASSUME NEW r \in Reqs, NEW promote \in BOOLEAN, NEW rebalance \in BOOLEAN,
             list_up_full(r, promote, rebalance)
      PROVE  HotInv'
  BY <1>5, ListUpFullKeeps
<1>6. ASSUME NEW r \in Reqs, update(r) PROVE HotInv'
  BY <1>6, UpdateKeeps
<1>7. CASE prepare_for_benchmark
  BY <1>7, PrepareKeeps
<1>8. CASE UNCHANGED hotVars
  BY <1>8 DEF hotVars, HotInv, Requests, IsSplit, Resident
<1> QED BY <1>1, <1>2, <1>3, <1>4, <1>5, <1>6, <1>7, <1>8 DEF HotNext

\* The inductive invariant: the counts of the hot table and of the ghosts, the split of the
\* memory and the resident pages are right in every state of dftl_cache.c and adaptive_mem.c.
THEOREM HotInvariant == ASSUME HotTableAssumption PROVE HotSpec => []HotInv
BY InitHolds, StepHolds, PTL DEF HotSpec

\* A sound table is counted exactly.
LEMMA SoundIsExact ==
    ASSUME HotTableAssumption, NEW P, NEW h, Sound(h, P) PROVE Exact(h)
<1>1. h.pages \in Chunk .. HotCap /\ Within(h) /\ HeatsExact(h) /\ h.valid >= Cardinality(Used(h))
  BY TableFields DEF Sound, Counted
<1>2. PICK occupied : occupied = { s \in Slots : h.slot[s] # Empty }
  OBVIOUS
<1>3. occupied = Used(h)
  BY <1>2 DEF Used
<1>4. \A z \in Heats : h.live[z] = Cardinality({ s \in occupied : h.slot[s].state = z })
  BY <1>1, <1>3 DEF HeatsExact, OfHeat
<1>5. occupied \subseteq 0 .. HotEntries(h) - 1
  <2> SUFFICES ASSUME NEW x \in Used(h) PROVE x \in 0 .. HotEntries(h) - 1
    BY <1>3
  <2>1. x \in Nat
    <3>1. x \in Slots
      BY DEF Used
    <3> QED BY <3>1 DEF Slots
  <2>2. HotEntries(h) \in Nat
    BY <1>1, SlotsInUse
  <2>3. x < HotEntries(h)
    BY <1>1 DEF Within
  <2> QED BY <2>1, <2>2, <2>3
<1> QED BY <1>1, <1>2, <1>3, <1>4, <1>5 DEF Exact

\* From the invariant to CountsExact.
LEMMA CountsFollow == ASSUME HotTableAssumption, HotInv PROVE CountsExact
<1>1. Sound(hot, hot.pages) /\ IsGhosts(ghost) /\ Resident(lru, ghost, nr)
  BY DEF HotInv
<1>2. Exact(hot)
  BY <1>1, SoundIsExact
<1>3. ghost.marks \cap Range(lru) = {}
  <2>1. \A x \in Range(lru) : \E i \in 1 .. Len(lru) : x = lru[i]
    BY <1>1 DEF Resident, IsLru, Range
  <2> QED BY <1>1, <2>1 DEF Resident
<1>4. GhostsExact
  BY <1>1, <1>3 DEF IsGhosts, GhostsExact
<1> QED BY <1>2, <1>4 DEF CountsExact

\* Whatever was placed, replaced, raised, evicted, dropped or rehashed, the histogram that
\* adaptive_try_rebalance decides on counts just the entries there are, all of them in the
\* part of the table in use, and the counter of ghosts is that of the marks, none of them
\* resident.
THEOREM CountsAlwaysExact == ASSUME HotTableAssumption PROVE HotSpec => []CountsExact
BY HotInvariant, CountsFollow, PTL

\* What a hit looks at and finds, as HitSlot and Findable say it.
LEMMA ReachedIsFindable ==
    ASSUME HotTableAssumption, NEW P, NEW h, Sound(h, P), AllReached(h) PROVE Findable(h)
<1>1. h.pages \in Chunk .. HotCap /\ h.slot \in [Slots -> SlotSet]
  BY TableFields DEF Sound
<1>2. ASSUME NEW s \in Slots, h.slot[s] # Empty, NEW chain, chain = Chain(h, h.slot[s].lpa, MaxProbe)
      PROVE  \/ HitSlot(h, h.slot[s].lpa) # None
             \/ \A i \in DOMAIN chain : h.slot[chain[i]] # Empty
  <2>1. PICK l \in HotLpas : l = h.slot[s].lpa
    <3>1. h.slot[s] \in SlotSet
      BY <1>1
    <3> QED BY <1>2, <3>1, SlotHolds
  <2>2. chain \in [1 .. MaxProbe -> 0 .. HotEntries(h) - 1]
    BY <1>1, <1>2, <2>1, ChainIn, Sizes
  <2>3. Sought(h, l) = { chain[i] : i \in 1 .. MaxProbe }
    BY <1>2, <2>1 DEF Sought
  <2>4. Reached(h, l)
    BY <1>2, <2>1 DEF AllReached, Used
  <2>5. CASE \A y \in Sought(h, l) : h.slot[y] # Empty
    BY <2>2, <2>3, <2>5
  <2>6. CASE \E y \in Sought(h, l) : h.slot[y].lpa = l
    <3>1. PICK i \in 1 .. MaxProbe : h.slot[chain[i]].lpa = l
      BY <2>3, <2>6
    <3>2. PICK same : same = { j \in DOMAIN chain : h.slot[chain[j]].lpa = l }
      OBVIOUS
    <3>3. same # {} /\ same \in SUBSET Nat
      BY <2>2, <3>1, <3>2
    <3>4. Min(same) \in same
      BY <3>3, MinIsIn
    <3>5. HitSlot(h, l) = chain[Min(same)]
      BY <1>2, <2>1, <3>2, <3>3 DEF HitSlot
    <3>6. HitSlot(h, l) \in 0 .. HotEntries(h) - 1
      BY <2>2, <3>2, <3>4, <3>5
    <3>7. HitSlot(h, l) # None
      BY <3>6 DEF None
    <3> QED BY <2>1, <3>7
  <2> QED BY <2>4, <2>5, <2>6 DEF Reached
<1> QED BY <1>2 DEF Findable

\* What a table that keeps the warm entries of the first pages of the hot table shows.
LEMMA KeepsShow ==
    ASSUME HotTableAssumption, NEW t, Sound(t, t.pages), NEW k,
           KeepsBelow(t, hot, k * EPP), AllReached(t)
    PROVE  /\ WarmIn(hot, k) \subseteq WarmIn(t, t.pages)
           /\ Findable(t) /\ Exact(t)
<1>1. WarmIn(hot, k) \subseteq WarmIn(t, t.pages)
  <2> SUFFICES ASSUME NEW x \in 0 .. k * EPP - 1, hot.slot[x].state >= Warm
               PROVE  hot.slot[x].lpa \in WarmIn(t, t.pages)
    BY DEF WarmIn
  <2>1. hot.slot[x] # Empty
    <3>1. Empty.state = 0
      BY DEF Empty
    <3> QED BY <3>1, Sizes
  <2>2. Keeps(t, hot.slot[x].lpa)
    BY <2>1 DEF KeepsBelow
  <2>3. PICK y \in 0 .. t.pages * EPP - 1 :
           t.slot[y].lpa = hot.slot[x].lpa /\ t.slot[y].state >= Warm
    BY <2>2 DEF Keeps, HotEntries
  <2> QED BY <2>3 DEF WarmIn
<1> QED BY <1>1, ReachedIsFindable, SoundIsExact

\* The lesser of two naturals.
LEMMA LesserIs ==
    ASSUME NEW a \in Nat, NEW b \in Nat, a <= b
    PROVE  Min({a, b}) = a /\ Min({b, a}) = a
<1>1. {a, b} = {b, a}
  OBVIOUS
<1>2. PICK m : m = Min({a, b})
  OBVIOUS
<1>3. m \in {a, b} /\ \A y \in {a, b} : m <= y
  <2>1. \E x \in {a, b} : \A y \in {a, b} : x <= y
    OBVIOUS
  <2> QED BY <1>2, <2>1 DEF Min
<1>4. m = a
  BY <1>3
<1> QED BY <1>1, <1>2, <1>4

\* From the invariant to ResizeKeepsWarm.
LEMMA ResizeFollows == ASSUME HotTableAssumption, HotInv PROVE ResizeKeepsWarm
<1>1. PICK mem : mem = [hot |-> hot, cold |-> cold, keys |-> keys, ghost |-> ghost]
  OBVIOUS
<1>2. mem.hot = hot /\ mem.cold = cold /\ mem.keys = keys /\ mem.ghost = ghost
  BY <1>1
<1>3. IsMem(mem)
  <2>1. mem = [hot |-> mem.hot, cold |-> mem.cold, keys |-> mem.keys, ghost |-> mem.ghost]
    BY <1>1, <1>2
  <2> QED BY <1>2, <2>1 DEF HotInv, IsMem
<1>4. PICK P \in Nat : P = hot.pages
  BY Sizes DEF HotInv, Sound
<1>5. ASSUME CanExpand(mem)
      PROVE  LET after == expand_hot(mem).hot IN
             /\ WarmIn(hot, Min({hot.pages, after.pages})) \subseteq WarmIn(after, after.pages)
             /\ Findable(after) /\ Exact(after)
  <2>1. PICK t : t = expand_hot(mem).hot
    OBVIOUS
  <2>2. Sound(t, t.pages) /\ t.pages = P + Chunk /\ KeepsBelow(t, hot, P * EPP)
        /\ AllReached(t)
    BY <1>2, <1>3, <1>4, <1>5, <2>1, ExpandIs DEF IsMem
  <2>3. Min({hot.pages, t.pages}) = P
    BY <1>4, <2>2, LesserIs, Sizes
  <2> QED BY <2>1, <2>2, <2>3, KeepsShow
<1>6. ASSUME CanShrink(mem)
      PROVE  LET after == shrink_hot(mem).hot IN
             /\ WarmIn(hot, Min({hot.pages, after.pages})) \subseteq WarmIn(after, after.pages)
             /\ Findable(after) /\ Exact(after)
  <2>1. PICK t : t = shrink_hot(mem).hot
    OBVIOUS
  <2>2. Sound(t, t.pages) /\ t.pages = P - Chunk /\ KeepsBelow(t, hot, t.pages * EPP)
        /\ AllReached(t)
    BY <1>2, <1>3, <1>4, <1>6, <2>1, ShrinkIs DEF IsMem
  <2>3. PICK Q \in Nat : Q = t.pages /\ Q <= P
    <3>1. t.pages \in Chunk .. HotCap
      BY <2>2 DEF Sound
    <3>2. t.pages \in Nat /\ t.pages <= P
      BY <1>4, <2>2, <3>1, Sizes
    <3> QED BY <3>2
  <2>4. Min({hot.pages, t.pages}) = Q
    BY <1>4, <2>3, LesserIs
  <2> QED BY <2>1, <2>2, <2>3, <2>4, KeepsShow
<1> QED BY <1>1, <1>5, <1>6 DEF ResizeKeepsWarm

\* adaptive_expand_hot_from_cold and adaptive_shrink_hot_to_cold, in whatever state, lose no
\* warm entry but those of the pages given up; a hit finds each entry of the table they
\* leave, unless others have taken every place where it looks; and the counts of that table
\* are exact, with nothing beyond the pages in use.
THEOREM ResizeAlwaysKeepsWarm == ASSUME HotTableAssumption PROVE HotSpec => []ResizeKeepsWarm
BY HotInvariant, ResizeFollows, PTL

\* The pages of the pool are the hot ones, the cold ones and those of the keys, whatever
\* adaptive_try_rebalance has moved, and neither the hot nor the cold part goes below its
\* least.
THEOREM PoolIsSplit ==
    ASSUME HotTableAssumption
    PROVE  HotSpec => [](/\ IsSplit(hot, cold, keys) /\ hot.pages \in Chunk .. HotCap)
<1>1. ASSUME HotInv PROVE IsSplit(hot, cold, keys) /\ hot.pages \in Chunk .. HotCap
  BY <1>1 DEF HotInv, Sound
<1> QED BY <1>1, HotInvariant, PTL

\* dftl_cache_list_up of a full cache finds a victim: it never comes to its abort(), although
\* rebalancing may leave more pages resident than the cold part is given.
THEOREM VictimThere ==
    ASSUME HotTableAssumption PROVE HotSpec => [](nr >= cold => lru # <<>>)
<1>1. ASSUME HotInv PROVE nr >= cold => lru # <<>>
  <2>1. nr \in Nat /\ cold \in Nat /\ Chunk <= cold /\ (nr > 0 => lru # <<>>)
    BY <1>1 DEF HotInv, IsSplit, Resident
  <2> QED BY <2>1, Sizes
<1> QED BY <1>1, HotInvariant, PTL
=============================================================================
